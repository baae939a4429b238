------------------------------ MODULE DelayGen ------------------------------
(***************************************************************************)
(* delayGen.v: delayDone is high for one clock, DelayCount + 1 clocks after *)
(* delayEn rose, and again as often as delayEn stays high.                  *)
(***************************************************************************)
EXTENDS Integers

CONSTANT DelayCount      \* 10000000 in the source

ASSUME DelayAssumption == DelayCount \in Nat \ {0}

VARIABLES counter, delayDone

delayVars == <<counter, delayDone>>

DelayTypeOK == counter \in 0 .. DelayCount /\ delayDone \in BOOLEAN

DelayInit == counter = 0 /\ delayDone = FALSE

\* Mutant: the comparison is off, the delay does not count at all.
DelayClockShort(delayEn) ==
    /\ counter' = 0
    /\ delayDone' = delayEn

\* Mutant: the counter is compared with a value it never reaches.
DelayClockNever(delayEn) ==
    /\ counter' = IF delayEn /\ counter # DelayCount THEN counter + 1 ELSE 0
    /\ delayDone' = (delayEn /\ counter = DelayCount + 1)

DelayClock(delayEn) ==
    /\ counter' = IF delayEn /\ counter # DelayCount THEN counter + 1 ELSE 0
    /\ delayDone' = (delayEn /\ counter = DelayCount)
=============================================================================
