------------------------- MODULE PulseCounterProofs -------------------------
(***************************************************************************)
(* What one clock edge does to the registers of the pulse counter, for     *)
(* every register width.  The proofs about the trigger window and about    *)
(* the counter behind its bus rest on these lemmas.                        *)
(***************************************************************************)
EXTENDS PulseCounter, TLAPS

\* Incrementing a register stays inside it.
LEMMA IncWord == ASSUME NEW x \in Word PROVE Inc(x) \in Word
  BY WordSizeAssumption DEF Word, Inc

\* Zero, the value of every reset, is a register value.
LEMMA ZeroWord == 0 \in Word
  BY WordSizeAssumption DEF Word

\* A clock edge keeps the counter's registers in their types.
LEMMA ClockType ==
    ASSUME CounterTypeOK,
           NEW reset \in BOOLEAN, NEW c \in BOOLEAN, NEW t \in BOOLEAN,
           NEW d, NEW w, NEW clear \in BOOLEAN, NEW gated \in BOOLEAN,
           Clock(reset, c, t, d, w, clear, gated)
    PROVE  CounterTypeOK'
  <1>1. pulse_count' \in Word /\ COUNT_DATA' \in Word
    BY IncWord, ZeroWord DEF CounterTypeOK, Clock, OutputData, CountPulses
  <1>2. /\ count_state' \in BOOLEAN /\ count_state_prev' \in BOOLEAN
        /\ trigger_state' \in BOOLEAN /\ trigger_state_prev' \in BOOLEAN
    BY DEF CounterTypeOK, Clock, SampleInputs
  <1>3. /\ trigger_count' \in Word /\ isTrigger' \in BOOLEAN
        /\ tstate' \in {"IDEL", "DELAY", "WIDTH"} /\ PASS_GATE' \in BOOLEAN
    <2>1. CASE reset
      BY <2>1, ZeroWord
      DEF CounterTypeOK, Clock, TriggerLogic, ResetTrigger
    <2>2. CASE ~reset
      <3>1. AwaitTrigger \/ RunDelay(d) \/ RunWidth(w)
        BY <2>2 DEF Clock, TriggerLogic
      <3>2. CASE AwaitTrigger
        BY <3>2 DEF CounterTypeOK, AwaitTrigger
      <3>3. CASE RunDelay(d)
        BY <3>3, IncWord DEF CounterTypeOK, RunDelay
      <3>4. CASE RunWidth(w)
        BY <3>4, IncWord, ZeroWord DEF CounterTypeOK, RunWidth
      <3> QED BY <3>1, <3>2, <3>3, <3>4
    <2> QED BY <2>1, <2>2
  <1> QED BY <1>1, <1>2, <1>3 DEF CounterTypeOK
=============================================================================
