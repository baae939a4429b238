----------------------------- MODULE SpiControl -----------------------------
(***************************************************************************)
(* The SPI shifter of the DAC, spiControl.v of ip-dac-cn0531: it           *)
(* runs on a clock of its own, divided from the board's, and takes a word  *)
(* by a four-phase handshake on spi_load and spi_done.                     *)
(*                                                                         *)
(* The divider counts the board's clock edges; the rising edge of clock_10 *)
(* (SpiTick) comes right after the board edge that raises it and sees the  *)
(* registers that edge has written.  The word is abstract; the bits are    *)
(* counted, and `wire' is what the device at the other end has clocked in. *)
(* The button does not reach the shifter, only the power-up reset does.    *)
(***************************************************************************)
EXTENDS Integers

CONSTANTS
    Bits,        \* bits of a word: 24 in the source
    Divide       \* board clock edges in one period of clock_10: 100

ASSUME SpiAssumption == Bits \in Nat \ {0} /\ Divide \in Nat \ {0}

VARIABLES
    divider,     \* `counter' and clock_10 together: edges since clock_10 rose
    rising,      \* clock_10 has just risen
    spi_state, dataCount, shiftReg, spi_done, spi_sync,
    wire         \* device: the word being clocked in and the number of its bits

spiVars == <<divider, rising, spi_state, dataCount, shiftReg, spi_done, spi_sync, wire>>

\* A word is what it says and, for a voltage, the value.
NoWord == <<"none", 0>>
Empty == [word |-> NoWord, bits |-> 0]

SpiTypeOK(Words) ==
    /\ divider \in 0 .. Divide - 1
    /\ rising \in BOOLEAN
    /\ spi_state \in {"IDLE", "SEND", "DONE"}
    /\ dataCount \in 0 .. Bits - 1
    /\ shiftReg \in Words \cup {NoWord}
    /\ spi_done \in BOOLEAN /\ spi_sync \in BOOLEAN
    /\ wire \in [word : Words \cup {NoWord}, bits : 0 .. Bits]

SpiInit ==
    /\ divider = 0 /\ rising = FALSE
    /\ spi_state = "IDLE" /\ dataCount = 0 /\ shiftReg = NoWord
    /\ spi_done = FALSE /\ spi_sync = TRUE
    /\ wire = Empty

\* The divider, on the board's clock.
DivideClock ==
    /\ ~rising
    /\ divider' = (divider + 1) % Divide
    /\ rising' = (divider = Divide - 1)

\* `data_in' is the word offered, `spi_load' the request.
ShiftIdle(data_in, spi_load) ==
    /\ spi_state = "IDLE"
    /\ IF spi_load
       THEN shiftReg' = data_in /\ spi_state' = "SEND" /\ dataCount' = 0
       ELSE UNCHANGED <<shiftReg, spi_state, dataCount>>
    /\ UNCHANGED <<spi_done, spi_sync, wire>>

\* Mutant: one bit too many.
ShiftBitLong ==
    /\ spi_state = "SEND"
    /\ spi_sync' = FALSE
    /\ wire' = [word |-> shiftReg, bits |-> wire.bits + 1]
    /\ IF dataCount # Bits
       THEN dataCount' = dataCount + 1 /\ UNCHANGED spi_state
       ELSE spi_state' = "DONE" /\ UNCHANGED dataCount
    /\ UNCHANGED <<shiftReg, spi_done>>

ShiftBit ==
    /\ spi_state = "SEND"
    /\ spi_sync' = FALSE
    /\ wire' = [word |-> shiftReg, bits |-> wire.bits + 1]
    /\ IF dataCount # Bits - 1
       THEN dataCount' = dataCount + 1 /\ UNCHANGED spi_state
       ELSE spi_state' = "DONE" /\ UNCHANGED dataCount
    /\ UNCHANGED <<shiftReg, spi_done>>

ShiftDone(spi_load) ==
    /\ spi_state = "DONE"
    /\ spi_sync' = TRUE
    /\ wire' = Empty
    /\ spi_done' = spi_load
    /\ spi_state' = IF spi_load THEN "DONE" ELSE "IDLE"
    /\ UNCHANGED <<shiftReg, dataCount>>

SpiTick(data_in, spi_load) ==
    /\ rising
    /\ rising' = FALSE
    /\ ShiftIdle(data_in, spi_load) \/ ShiftBit \/ ShiftDone(spi_load)
    /\ UNCHANGED divider

\* The word the device takes when spi_sync rises in this step, if it has all
\* its bits.
Taken == IF spi_state = "DONE" /\ ~spi_sync /\ wire.bits = Bits THEN wire.word ELSE NoWord
=============================================================================
