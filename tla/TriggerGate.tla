---------------------------- MODULE TriggerGate -----------------------------
(***************************************************************************)
(* The trigger window of the pulse counter under every input the board and *)
(* the firmware can give it: the pins and RESET_BTN change at any clock    *)
(* edge, and the firmware writes the delay and width registers at any time,*)
(* in the middle of a window too.                                          *)
(*                                                                         *)
(* Auxiliary variables measure what the gate does.  They are assigned from *)
(* the counter's registers and no action of the counter reads them.        *)
(***************************************************************************)
EXTENDS PulseCounter

CONSTANT Settings      \* the values the firmware writes to the two registers

ASSUME SettingsAssumption == Settings \subseteq Word /\ 0 \in Settings

VARIABLES
    TRIGGER_DLY, TRIGGER_WIDTH,    \* slv_reg1 and slv_reg2 of the bus slave
    steady,    \* aux: neither setting was written since the trigger was taken
    phase,     \* aux: clock edges spent in the current tstate, while steady
    waited,    \* aux: clocks the last delay took; 0 when unknown
    opened,    \* aux: clocks the last gate was open; 0 when unknown
    cut        \* aux: a reset came while PASS_GATE was high, and no gate since

settings == <<TRIGGER_DLY, TRIGGER_WIDTH>>
aux      == <<steady, phase, waited, opened, cut>>
vars     == <<counterVars, settings, aux>>

\* The clocks that count a register from `from' to `to', wrapping at WordSize.
Span(from, to) == IF from <= to THEN to - from ELSE WordSize - from + to

(* The registers stay in their word and the machine in its states: tstate of *)
(* pulse_counter.v, and the wrap of its 32-bit counts.                      *)
TypeOK ==
    /\ CounterTypeOK
    /\ TRIGGER_DLY \in Settings
    /\ TRIGGER_WIDTH \in Settings
    /\ steady \in BOOLEAN
    /\ phase \in Nat
    /\ waited \in Nat
    /\ opened \in Nat
    /\ cut \in BOOLEAN

\* start_application writes zero to both settings before commands can arrive.
Init ==
    /\ CounterInit
    /\ TRIGGER_DLY = 0 /\ TRIGGER_WIDTH = 0
    /\ steady = TRUE /\ phase = 0 /\ waited = 0 /\ opened = 0 /\ cut = FALSE

Measure(reset) ==
    /\ steady' = (steady \/ tstate' = "IDEL")
    /\ phase' = IF tstate' # tstate \/ tstate' = "IDEL" \/ ~steady THEN 0 ELSE phase + 1
    /\ waited' = IF tstate = "DELAY" /\ tstate' = "WIDTH" /\ steady
                 THEN phase + 1 ELSE waited
    /\ opened' = IF tstate = "WIDTH" /\ tstate' = "IDEL" /\ ~reset /\ steady
                 THEN phase + 1 ELSE opened
    /\ cut' = IF reset THEN cut \/ PASS_GATE
              ELSE cut /\ (tstate' # tstate => tstate = "IDEL")

ClockEdge(reset, COUNT_SIG, TRIGGER_SIG, clear, gated) ==
    /\ Clock(reset, COUNT_SIG, TRIGGER_SIG, TRIGGER_DLY, TRIGGER_WIDTH, clear, gated)
    /\ Measure(reset)
    /\ UNCHANGED settings

Changed ==
    /\ steady' = (tstate = "IDEL")
    /\ phase' = 0 /\ waited' = 0 /\ opened' = 0
    /\ UNCHANGED <<counterVars, cut>>

set_trigger_delay(value) ==
    /\ TRIGGER_DLY' = value
    /\ UNCHANGED TRIGGER_WIDTH
    /\ Changed

set_trigger_width(value) ==
    /\ TRIGGER_WIDTH' = value
    /\ UNCHANGED TRIGGER_DLY
    /\ Changed

Run(reset) ==
    \E COUNT_SIG, TRIGGER_SIG, clear, gated \in BOOLEAN :
        ClockEdge(reset, COUNT_SIG, TRIGGER_SIG, clear, gated)

Next ==
    \/ Run(FALSE)
    \/ Run(TRUE)
    \/ \E value \in Settings : set_trigger_delay(value) \/ set_trigger_width(value)

\* The clock never stops.
Spec == Init /\ [][Next]_vars /\ WF_vars(Run(FALSE))

-----------------------------------------------------------------------------
(* What the trigger logic measures out, when the firmware does not change a *)
(* setting under it: the delay takes TRIGGER_DLY + 1 clocks, and the gate is *)
(* open for the clocks that take trigger_count from the delay to the width, *)
(* around the end of the word when the width is the smaller of the two.     *)
ExactWindow ==
    /\ waited # 0 => waited = TRIGGER_DLY + 1
    /\ opened # 0 => opened = Span(TRIGGER_DLY, TRIGGER_WIDTH) + 1

(* PASS_GATE, the copy of the gate that leaves the chip, shows every open   *)
(* gate, and it stays high after the gate only when a reset cut the gate    *)
(* short (the reset branch does not assign it).                             *)
GatePinShowsGate ==
    /\ isTrigger => PASS_GATE
    /\ PASS_GATE /\ ~isTrigger => cut

(* However the settings are changed under a running window, once they stay  *)
(* put the window ends: trigger_count meets TRIGGER_WIDTH even from above.  *)
WindowEnds ==
    <>[][UNCHANGED settings]_vars => (tstate # "IDEL" ~> tstate = "IDEL")

(* The strengthening that makes ExactWindow and GatePinShowsGate inductive: *)
(* what the registers say about the window that is running.  It holds       *)
(* because trigger_count is zero whenever the logic is idle.                *)
WindowInProgress ==
    /\ isTrigger = (tstate = "WIDTH")
    /\ tstate = "IDEL" => steady /\ trigger_count = 0
    /\ tstate = "DELAY" /\ steady =>
           phase = trigger_count /\ trigger_count <= TRIGGER_DLY
    /\ tstate = "WIDTH" /\ steady =>
           /\ phase = Span(TRIGGER_DLY, trigger_count)
           /\ phase <= Span(TRIGGER_DLY, TRIGGER_WIDTH)

(* The help text of the firmware: "CLS:SetTrgWidth - Set trigger width in   *)
(* microsecond".  The gate is open for the width that was set (or one clock *)
(* more), whatever the delay.                                               *)
WidthIsGateLength ==
    opened # 0 => opened \in {TRIGGER_WIDTH, TRIGGER_WIDTH + 1}
=============================================================================
