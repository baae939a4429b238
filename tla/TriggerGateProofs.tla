------------------------- MODULE TriggerGateProofs --------------------------
(***************************************************************************)
(* The trigger window is exact for every register width and every set of   *)
(* settings: type correctness first, then the window invariant.            *)
(***************************************************************************)
EXTENDS TriggerGate, PulseCounterProofs, TLAPS

\* One more clock lengthens a span by one, unless the register had arrived.
LEMMA SpanInc ==
    ASSUME NEW d \in Word, NEW x \in Word, NEW w \in Word, x # w,
           Span(d, x) <= Span(d, w)
    PROVE  /\ Span(d, Inc(x)) = Span(d, x) + 1
           /\ Span(d, Inc(x)) <= Span(d, w)
  BY WordSizeAssumption DEF Word, Inc, Span

-----------------------------------------------------------------------------
\* Every register of the pulse counter and every setting keeps its type.
THEOREM TypeCorrect == Spec => []TypeOK
  <1>1. Init => TypeOK
    BY ZeroWord, SettingsAssumption, 0 \in Nat
    DEF Init, TypeOK, CounterInit, CounterTypeOK
  <1>2. TypeOK /\ [Next]_vars => TypeOK'
    <2> SUFFICES ASSUME TypeOK, [Next]_vars PROVE TypeOK'
      OBVIOUS
    <2>1. ASSUME NEW reset \in BOOLEAN, Run(reset) PROVE TypeOK'
      <3>1. PICK c \in BOOLEAN, t \in BOOLEAN, clear \in BOOLEAN, gated \in BOOLEAN :
                ClockEdge(reset, c, t, clear, gated)
        BY <2>1 DEF Run
      <3>2. CounterTypeOK'
        BY <2>1, <3>1, ClockType DEF ClockEdge, TypeOK
      <3>3. TRIGGER_DLY' \in Settings /\ TRIGGER_WIDTH' \in Settings
        BY <3>1 DEF ClockEdge, TypeOK, settings
      <3>4. phase' \in Nat /\ waited' \in Nat /\ opened' \in Nat
        BY <3>1 DEF ClockEdge, Measure, TypeOK
      <3>5. steady' \in BOOLEAN
        <4>1. steady' = (steady \/ tstate' = "IDEL")
          BY <3>1 DEF ClockEdge, Measure
        <4> QED BY <4>1
      <3>6. cut' \in BOOLEAN
        <4>1. CASE reset
          BY <4>1, <3>1 DEF ClockEdge, Measure
        <4>2. CASE ~reset
          BY <4>2, <3>1 DEF ClockEdge, Measure
        <4> QED BY <4>1, <4>2
      <3> QED BY <3>2, <3>3, <3>4, <3>5, <3>6 DEF TypeOK
    <2>2. ASSUME NEW value \in Settings,
                 set_trigger_delay(value) \/ set_trigger_width(value)
          PROVE  TypeOK'
      <3>1. CounterTypeOK' /\ cut' \in BOOLEAN
        BY <2>2 DEF set_trigger_delay, set_trigger_width, Changed, TypeOK,
           CounterTypeOK, counterVars, sampler, gate
      <3>2. TRIGGER_DLY' \in Settings /\ TRIGGER_WIDTH' \in Settings
        BY <2>2 DEF set_trigger_delay, set_trigger_width, TypeOK
      <3>3. steady' \in BOOLEAN /\ phase' \in Nat /\ waited' \in Nat /\ opened' \in Nat
        BY <2>2, 0 \in Nat DEF set_trigger_delay, set_trigger_width, Changed
      <3> QED BY <3>1, <3>2, <3>3 DEF TypeOK
    <2>3. CASE UNCHANGED vars
      BY <2>3 DEF vars, counterVars, sampler, gate, settings, aux, TypeOK, CounterTypeOK
    <2> QED BY <2>1, <2>2, <2>3 DEF Next
  <1> QED BY <1>1, <1>2, PTL DEF Spec

-----------------------------------------------------------------------------
(* The window invariant, conjunct by conjunct of what can disturb it.        *)

WindowInv == WindowInProgress /\ ExactWindow /\ GatePinShowsGate

\* A clock edge keeps the window invariant.
LEMMA WindowClock ==
    ASSUME TypeOK, WindowInv, NEW reset \in BOOLEAN, Run(reset)
    PROVE  WindowInv'
  <1>1. PICK c \in BOOLEAN, t \in BOOLEAN, clear \in BOOLEAN, gated \in BOOLEAN :
            ClockEdge(reset, c, t, clear, gated)
    BY DEF Run
  <1>2. /\ Measure(reset)
        /\ TriggerLogic(reset, TRIGGER_DLY, TRIGGER_WIDTH)
        /\ TRIGGER_DLY' = TRIGGER_DLY /\ TRIGGER_WIDTH' = TRIGGER_WIDTH
    BY <1>1 DEF ClockEdge, Clock, settings
  <1>3. /\ TRIGGER_DLY \in Word /\ TRIGGER_WIDTH \in Word /\ trigger_count \in Word
        /\ phase \in Nat
    BY SettingsAssumption DEF TypeOK, CounterTypeOK
  <1>4. CASE reset
    <2>1. WindowInProgress' /\ ExactWindow'
      BY <1>2, <1>4 DEF WindowInv, WindowInProgress, ExactWindow, TriggerLogic,
         ResetTrigger, Measure
    <2>2. GatePinShowsGate'
      <3>1. isTrigger' = FALSE /\ PASS_GATE' = PASS_GATE
        BY <1>2, <1>4 DEF TriggerLogic, ResetTrigger
      <3>2. PASS_GATE => cut'
        BY <1>2, <1>4 DEF Measure
      <3>3. PASS_GATE' => cut'
        BY <3>1, <3>2
      <3>4. ~isTrigger'
        BY <3>1
      <3> QED BY <3>3, <3>4 DEF GatePinShowsGate
    <2> QED BY <2>1, <2>2 DEF WindowInv
  <1>5. CASE ~reset /\ AwaitTrigger
    <2>1. WindowInProgress' /\ ExactWindow'
      <3>1. /\ tstate = "IDEL" /\ tstate' \in {"IDEL", "DELAY"}
            /\ trigger_count' = trigger_count /\ isTrigger' = isTrigger
        BY <1>5 DEF AwaitTrigger
      <3>2. isTrigger' = FALSE /\ trigger_count' = 0 /\ steady
        BY <3>1 DEF WindowInv, WindowInProgress
      <3>3. phase' = 0 /\ steady' /\ waited' = waited /\ opened' = opened
        BY <1>2, <3>1, <3>2 DEF Measure
      <3>4. 0 <= TRIGGER_DLY
        BY <1>3 DEF Word
      <3>5. ExactWindow'
        BY <1>2, <3>3 DEF WindowInv, ExactWindow, Span
      <3> QED BY <1>2, <3>1, <3>2, <3>3, <3>4, <3>5 DEF WindowInProgress
    <2>2. GatePinShowsGate'
      BY <1>2, <1>5 DEF WindowInv, GatePinShowsGate, AwaitTrigger, Measure
    <2> QED BY <2>1, <2>2 DEF WindowInv
  <1>6. CASE ~reset /\ RunDelay(TRIGGER_DLY)
    <2>1. CASE trigger_count # TRIGGER_DLY
      <3>1. /\ trigger_count' = Inc(trigger_count) /\ tstate' = "DELAY" /\ tstate = "DELAY"
            /\ isTrigger' = isTrigger /\ PASS_GATE' = PASS_GATE
        BY <1>6, <2>1 DEF RunDelay
      <3>2. steady => trigger_count' = trigger_count + 1 /\ trigger_count' <= TRIGGER_DLY
        BY <3>1, <2>1, <1>3, WordSizeAssumption
        DEF WindowInv, WindowInProgress, Inc, Word
      <3>3. WindowInProgress' /\ ExactWindow'
        BY <1>2, <3>1, <3>2 DEF WindowInv, WindowInProgress, ExactWindow, Measure
      <3>4. GatePinShowsGate'
        BY <1>2, <1>6, <3>1 DEF WindowInv, GatePinShowsGate, Measure
      <3> QED BY <3>3, <3>4 DEF WindowInv
    <2>2. CASE trigger_count = TRIGGER_DLY
      <3>1. /\ trigger_count' = trigger_count /\ tstate' = "WIDTH" /\ tstate = "DELAY"
            /\ isTrigger' = TRUE /\ PASS_GATE' = TRUE
        BY <1>6, <2>2 DEF RunDelay
      <3>2. /\ Span(TRIGGER_DLY, trigger_count) = 0
            /\ 0 <= Span(TRIGGER_DLY, TRIGGER_WIDTH)
        BY <2>2, <1>3, WordSizeAssumption DEF Span, Word
      <3>3. Span(TRIGGER_DLY, trigger_count)' = 0
            /\ Span(TRIGGER_DLY, TRIGGER_WIDTH)' = Span(TRIGGER_DLY, TRIGGER_WIDTH)
        BY <3>1, <3>2, <1>2 DEF Span
      <3>4. WindowInProgress' /\ ExactWindow'
        BY <1>2, <1>3, <2>2, <3>1, <3>2, <3>3
        DEF WindowInv, WindowInProgress, ExactWindow, Measure
      <3>5. GatePinShowsGate'
        BY <3>1 DEF GatePinShowsGate
      <3> QED BY <3>4, <3>5 DEF WindowInv
    <2> QED BY <2>1, <2>2
  <1>7. CASE ~reset /\ RunWidth(TRIGGER_WIDTH)
    <2>1. CASE trigger_count # TRIGGER_WIDTH
      <3>1. /\ trigger_count' = Inc(trigger_count) /\ tstate' = "WIDTH" /\ tstate = "WIDTH"
            /\ isTrigger' = isTrigger /\ PASS_GATE' = PASS_GATE
        BY <1>7, <2>1 DEF RunWidth
      <3>2. steady => /\ Span(TRIGGER_DLY, Inc(trigger_count)) = phase + 1
                      /\ phase + 1 <= Span(TRIGGER_DLY, TRIGGER_WIDTH)
        BY <3>1, <2>1, <1>3, SpanInc DEF WindowInv, WindowInProgress
      <3>3. Span(TRIGGER_DLY, trigger_count)' = Span(TRIGGER_DLY, Inc(trigger_count))
            /\ Span(TRIGGER_DLY, TRIGGER_WIDTH)' = Span(TRIGGER_DLY, TRIGGER_WIDTH)
        BY <3>1, <1>2 DEF Span
      <3>4. WindowInProgress' /\ ExactWindow'
        BY <1>2, <3>1, <3>2, <3>3 DEF WindowInv, WindowInProgress, ExactWindow, Measure
      <3>5. GatePinShowsGate'
        BY <1>2, <1>7, <3>1 DEF WindowInv, GatePinShowsGate, Measure
      <3> QED BY <3>4, <3>5 DEF WindowInv
    <2>2. CASE trigger_count = TRIGGER_WIDTH
      <3>1. /\ trigger_count' = 0 /\ tstate' = "IDEL" /\ tstate = "WIDTH"
            /\ isTrigger' = FALSE /\ PASS_GATE' = FALSE
        BY <1>7, <2>2 DEF RunWidth
      <3>2. Span(TRIGGER_DLY, TRIGGER_WIDTH)' = Span(TRIGGER_DLY, TRIGGER_WIDTH)
        BY <1>2 DEF Span
      <3>3. WindowInProgress' /\ ExactWindow'
        BY <1>2, <1>7, <2>2, <3>1, <3>2
        DEF WindowInv, WindowInProgress, ExactWindow, Measure
      <3>4. GatePinShowsGate'
        BY <3>1 DEF GatePinShowsGate
      <3> QED BY <3>3, <3>4 DEF WindowInv
    <2> QED BY <2>1, <2>2
  <1> QED BY <1>2, <1>4, <1>5, <1>6, <1>7 DEF TriggerLogic

\* Every window is exact, and the gate pin shows it, for every register width.
THEOREM WindowCorrect == Spec => [](ExactWindow /\ GatePinShowsGate)
  <1>1. Init => WindowInv
    BY DEF Init, CounterInit, WindowInv, WindowInProgress, ExactWindow, GatePinShowsGate
  <1>2. TypeOK /\ WindowInv /\ [Next]_vars => WindowInv'
    <2> SUFFICES ASSUME TypeOK, WindowInv, [Next]_vars PROVE WindowInv'
      OBVIOUS
    <2>1. CASE Run(FALSE) \/ Run(TRUE)
      BY <2>1, WindowClock
    <2>2. ASSUME NEW value \in Settings,
                 set_trigger_delay(value) \/ set_trigger_width(value)
          PROVE  WindowInv'
      <3>1. /\ Changed
            /\ isTrigger' = isTrigger /\ tstate' = tstate /\ PASS_GATE' = PASS_GATE
            /\ trigger_count' = trigger_count /\ cut' = cut
        BY <2>2 DEF set_trigger_delay, set_trigger_width, Changed, counterVars, gate
      <3>2. GatePinShowsGate'
        BY <3>1 DEF WindowInv, GatePinShowsGate
      <3>3. ExactWindow'
        BY <3>1 DEF Changed, ExactWindow
      <3>4. WindowInProgress'
        <4>1. isTrigger' = (tstate' = "WIDTH")
          BY <3>1 DEF WindowInv, WindowInProgress
        <4>2. tstate' = "IDEL" => steady' /\ trigger_count' = 0
          BY <3>1 DEF WindowInv, WindowInProgress, Changed
        <4>3. tstate' # "IDEL" => ~steady'
          BY <3>1 DEF Changed
        <4> QED BY <4>1, <4>2, <4>3 DEF WindowInProgress
      <3> QED BY <3>2, <3>3, <3>4 DEF WindowInv
    <2>3. CASE UNCHANGED vars
      BY <2>3 DEF vars, counterVars, sampler, gate, settings, aux, WindowInv,
         WindowInProgress, ExactWindow, GatePinShowsGate, Span
    <2> QED BY <2>1, <2>2, <2>3 DEF Next
  <1>3. WindowInv => ExactWindow /\ GatePinShowsGate
    BY DEF WindowInv
  <1> QED BY <1>1, <1>2, <1>3, TypeCorrect, PTL DEF Spec

\* A gate that is open, or was cut by the button, is what the pin PASS_GATE shows.
THEOREM GatePinCorrect == Spec => []GatePinShowsGate
  BY WindowCorrect, PTL
=============================================================================
