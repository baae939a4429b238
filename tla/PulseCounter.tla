---------------------------- MODULE PulseCounter ----------------------------
(***************************************************************************)
(* The pulse counter of the CLS DAQ, pulse_counter.v, register by          *)
(* register.  Every `always @(posedge CLOCK)' block is one action over the *)
(* registers it assigns, and a clock edge (Clock) is their conjunction:    *)
(* all blocks read the old values and write the new ones at once, as the   *)
(* non-blocking assignments of the source do.  The ports are parameters of *)
(* the actions: `reset' stands for !RESET_N || RESET_BTN, `clear' and      *)
(* `gated' for CONFIG_REG[0] and CONFIG_REG[1].                            *)
(***************************************************************************)
EXTENDS Integers

CONSTANT WordSize      \* the number of values of a register: 2^32 in the source

ASSUME WordSizeAssumption == WordSize \in Nat /\ WordSize > 1

VARIABLES
    count_state, count_state_prev,        \* two-stage sampler of COUNT_SIG
    trigger_state, trigger_state_prev,    \* two-stage sampler of TRIGGER_SIG
    pulse_count,                          \* the counter
    trigger_count, isTrigger, tstate,     \* trigger delay and width logic
    COUNT_DATA, PASS_GATE                 \* registered outputs

sampler == <<count_state, count_state_prev, trigger_state, trigger_state_prev>>
gate    == <<trigger_count, isTrigger, tstate, PASS_GATE>>
counterVars == <<sampler, pulse_count, gate, COUNT_DATA>>

Word == 0 .. WordSize - 1

\* Mutant: no wrap-around.
IncNoWrap(x) == x + 1

\* x + 1 in a register: the last value is followed by zero.
Inc(x) == IF x = WordSize - 1 THEN 0 ELSE x + 1

CounterTypeOK ==
    /\ count_state \in BOOLEAN
    /\ count_state_prev \in BOOLEAN
    /\ trigger_state \in BOOLEAN
    /\ trigger_state_prev \in BOOLEAN
    /\ pulse_count \in Word
    /\ trigger_count \in Word
    /\ isTrigger \in BOOLEAN
    /\ tstate \in {"IDEL", "DELAY", "WIDTH"}
    /\ COUNT_DATA \in Word
    /\ PASS_GATE \in BOOLEAN

\* The registers have no initialiser: they power up as the zeros the device
\* configuration loads.
CounterInit ==
    /\ count_state = FALSE /\ count_state_prev = FALSE
    /\ trigger_state = FALSE /\ trigger_state_prev = FALSE
    /\ pulse_count = 0 /\ COUNT_DATA = 0
    /\ trigger_count = 0 /\ isTrigger = FALSE /\ tstate = "IDEL"
    /\ PASS_GATE = FALSE

OutputData == COUNT_DATA' = pulse_count

SampleInputs(reset, COUNT_SIG, TRIGGER_SIG) ==
    /\ count_state' = (~reset /\ COUNT_SIG)
    /\ count_state_prev' = (~reset /\ count_state)
    /\ trigger_state' = (~reset /\ TRIGGER_SIG)
    /\ trigger_state_prev' = (~reset /\ trigger_state)

CountRise   == count_state /\ ~count_state_prev
TriggerRise == trigger_state /\ ~trigger_state_prev

\* Mutant: pulses count only inside the gate, whatever the mode.
CountPulsesInGate(reset, clear, gated) ==
    pulse_count' = IF reset \/ clear THEN 0
                   ELSE IF CountRise /\ isTrigger THEN Inc(pulse_count)
                   ELSE pulse_count

CountPulses(reset, clear, gated) ==
    pulse_count' = IF reset \/ clear THEN 0
                   ELSE IF CountRise /\ (gated => isTrigger) THEN Inc(pulse_count)
                   ELSE pulse_count

-----------------------------------------------------------------------------
(* The trigger delay and width logic.  trigger_count is zeroed when the     *)
(* gate closes, not when the delay ends, so WIDTH counts on from the delay. *)

AwaitTrigger ==
    /\ tstate = "IDEL"
    /\ tstate' = IF TriggerRise THEN "DELAY" ELSE "IDEL"
    /\ UNCHANGED <<trigger_count, isTrigger, PASS_GATE>>

RunDelay(TRIGGER_DLY) ==
    /\ tstate = "DELAY"
    /\ IF trigger_count # TRIGGER_DLY
       THEN /\ trigger_count' = Inc(trigger_count)
            /\ UNCHANGED <<isTrigger, PASS_GATE, tstate>>
       ELSE /\ isTrigger' = TRUE
            /\ PASS_GATE' = TRUE
            /\ tstate' = "WIDTH"
            /\ UNCHANGED trigger_count

\* Mutant: trigger_count saturates instead of wrapping.
RunWidthSaturating(TRIGGER_WIDTH) ==
    /\ tstate = "WIDTH"
    /\ IF trigger_count # TRIGGER_WIDTH
       THEN /\ trigger_count' = IF trigger_count = WordSize - 1 THEN trigger_count
                                ELSE trigger_count + 1
            /\ UNCHANGED <<isTrigger, PASS_GATE, tstate>>
       ELSE /\ trigger_count' = 0
            /\ isTrigger' = FALSE
            /\ PASS_GATE' = FALSE
            /\ tstate' = "IDEL"

\* Mutant: the width count is left where it ended.
RunWidthNoRestart(TRIGGER_WIDTH) ==
    /\ tstate = "WIDTH"
    /\ IF trigger_count # TRIGGER_WIDTH
       THEN /\ trigger_count' = Inc(trigger_count)
            /\ UNCHANGED <<isTrigger, PASS_GATE, tstate>>
       ELSE /\ isTrigger' = FALSE
            /\ PASS_GATE' = FALSE
            /\ tstate' = "IDEL"
            /\ UNCHANGED trigger_count

\* Mutant: the gate output is not driven low with the gate.
RunWidthKeepPass(TRIGGER_WIDTH) ==
    /\ tstate = "WIDTH"
    /\ IF trigger_count # TRIGGER_WIDTH
       THEN /\ trigger_count' = Inc(trigger_count)
            /\ UNCHANGED <<isTrigger, PASS_GATE, tstate>>
       ELSE /\ trigger_count' = 0
            /\ isTrigger' = FALSE
            /\ tstate' = "IDEL"
            /\ UNCHANGED PASS_GATE

RunWidth(TRIGGER_WIDTH) ==
    /\ tstate = "WIDTH"
    /\ IF trigger_count # TRIGGER_WIDTH
       THEN /\ trigger_count' = Inc(trigger_count)
            /\ UNCHANGED <<isTrigger, PASS_GATE, tstate>>
       ELSE /\ trigger_count' = 0
            /\ isTrigger' = FALSE
            /\ PASS_GATE' = FALSE
            /\ tstate' = "IDEL"

\* The reset branch does not assign PASS_GATE.
ResetTrigger ==
    /\ trigger_count' = 0
    /\ isTrigger' = FALSE
    /\ tstate' = "IDEL"
    /\ UNCHANGED PASS_GATE

TriggerLogic(reset, TRIGGER_DLY, TRIGGER_WIDTH) ==
    IF reset THEN ResetTrigger
    ELSE AwaitTrigger \/ RunDelay(TRIGGER_DLY) \/ RunWidth(TRIGGER_WIDTH)

\* One rising edge of CLOCK.
Clock(reset, COUNT_SIG, TRIGGER_SIG, TRIGGER_DLY, TRIGGER_WIDTH, clear, gated) ==
    /\ OutputData
    /\ SampleInputs(reset, COUNT_SIG, TRIGGER_SIG)
    /\ CountPulses(reset, clear, gated)
    /\ TriggerLogic(reset, TRIGGER_DLY, TRIGGER_WIDTH)
=============================================================================
