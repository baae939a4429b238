--------------------------- MODULE PulseCounterIp ---------------------------
(***************************************************************************)
(* The firmware's counter commands, end to end: recv_callback's commands   *)
(* (echo.c) as sequences of bus operations, the bus master that carries    *)
(* them out, the AXI slave and the counter behind it, all on one clock.    *)
(*                                                                         *)
(* The bus master is outside the repository (the Zynq PS and the           *)
(* interconnect).  Xil_Out32 and Xil_In32 are accesses to device memory:   *)
(* one at a time and in order.  The master presents an address, its data   *)
(* with it or any number of clocks later, and takes responses at any time. *)
(***************************************************************************)
EXTENDS PulseCounter, AxiLiteSlave, Sequences

CONSTANTS
    Settings,      \* values of CLS:SetTrgDelay and CLS:SetTrgWidth, in clocks
    TriggerLevels, \* levels of the trigger pin
    MaxPulses,     \* bound on the pulses between two SetClrCount commands
    MaxCommands    \* bound on the commands of a session

ASSUME IpAssumption ==
    /\ Settings \subseteq Word
    /\ MaxPulses \in Nat /\ WordSize > 2 * MaxPulses + 2
    /\ WordSize > 3      \* the configuration register has its two bits
    /\ MaxCommands \in Nat
    /\ TriggerLevels \subseteq BOOLEAN

VARIABLES
    todo,                       \* bus operations left of the command being run
    pulse_counter_config,       \* the firmware's copy of the configuration
    AWVALID, WVALID, ARVALID,   \* the master's valid signals
    busy,                       \* the head of todo is on the bus
    issued,                     \* commands so far, for the bound
    reply,                      \* value read by the last GetCount, None while it runs
    pulses,    \* aux: low-to-high pulses sampled since SetClrCount was last issued
    free,      \* aux: pulses since the counter was last cleared, reset or gated
    atStart,   \* aux: `free' when the GetCount was issued
    want       \* aux: the value last commanded for each register

master  == <<AWVALID, WVALID, ARVALID, busy>>
ghosts  == <<pulses, free, atStart, want>>
vars == <<counterVars, slaveVars, todo, pulse_counter_config, issued, master,
          reply, ghosts>>

None == -1
NoOp == [kind |-> "read", reg |-> 0, data |-> 0]
Write(reg, data) == [kind |-> "write", reg |-> reg, data |-> data]
Read(reg) == [kind |-> "read", reg |-> reg, data |-> 0]

\* CONFIG_REG[0] and CONFIG_REG[1].
Bit0(x) == x % 2 = 1
Bit1(x) == (x \div 2) % 2 = 1
Clearing == Bit0(slv_reg[ConfigReg])
Gated    == Bit1(slv_reg[ConfigReg])

(* The registers of counter and slave hold words, and the firmware's copy of *)
(* the configuration is the mode bit alone between commands: set_clear      *)
(* leaves its own bit low.                                                  *)
TypeOK ==
    /\ CounterTypeOK
    /\ SlaveTypeOK(Word)
    /\ \A i \in DOMAIN todo : todo[i].reg \in Regs /\ todo[i].data \in Word
    /\ Len(todo) <= 2 /\ issued \in 0 .. MaxCommands
    /\ pulse_counter_config \in {0, 2}
    /\ busy \in BOOLEAN /\ AWVALID \in BOOLEAN /\ WVALID \in BOOLEAN /\ ARVALID \in BOOLEAN
    /\ reply \in Word \cup {None}
    /\ want \in [Regs -> Word]

Init ==
    /\ CounterInit
    /\ SlaveInit
    /\ todo = <<>> /\ pulse_counter_config = 0 /\ issued = 0
    /\ AWVALID = FALSE /\ WVALID = FALSE /\ ARVALID = FALSE /\ busy = FALSE
    /\ reply = None
    /\ pulses = 0 /\ free = 0 /\ atStart = 0 /\ want = [r \in Regs |-> 0]

-----------------------------------------------------------------------------
(* The commands.  A command runs inside recv_callback, which does not return *)
(* before its last bus operation: no command starts before.                 *)

Command(ops) ==
    /\ todo = <<>> /\ issued < MaxCommands
    /\ todo' = ops
    /\ issued' = issued + 1
    /\ reply' = None
    /\ UNCHANGED <<counterVars, slaveVars, master, free>>

Wanted(reg, value) == want' = [want EXCEPT ![reg] = value]

\* Mutant: the mode bit is added, not replaced.
set_trigger_mode_added(value) ==
    LET config == (pulse_counter_config + 2 * value) % WordSize IN
    /\ Command(<<Write(ConfigReg, config)>>)
    /\ pulse_counter_config' = config
    /\ Wanted(ConfigReg, config)
    /\ UNCHANGED <<pulses, atStart>>

\* The mode bit replaced, the clear bit kept (it is always zero between commands).
set_trigger_mode(value) ==
    LET config == (pulse_counter_config % 2) + 2 * value IN
    /\ Command(<<Write(ConfigReg, config)>>)
    /\ pulse_counter_config' = config
    /\ Wanted(ConfigReg, config)
    /\ UNCHANGED <<pulses, atStart>>

set_trigger_width(value) ==
    /\ Command(<<Write(WidthReg, value)>>)
    /\ Wanted(WidthReg, value)
    /\ UNCHANGED <<pulse_counter_config, pulses, atStart>>

set_trigger_delay(value) ==
    /\ Command(<<Write(DelayReg, value)>>)
    /\ Wanted(DelayReg, value)
    /\ UNCHANGED <<pulse_counter_config, pulses, atStart>>

\* Mutant: the clear bit is written back low first.
set_clear_swapped ==
    LET low == 2 * (pulse_counter_config \div 2) IN
    /\ Command(<<Write(ConfigReg, low), Write(ConfigReg, low)>>)
    /\ pulse_counter_config' = low
    /\ pulses' = 0
    /\ Wanted(ConfigReg, low)
    /\ UNCHANGED atStart

\* The clear bit is written high, then low.
set_clear ==
    LET low == 2 * (pulse_counter_config \div 2) IN
    /\ Command(<<Write(ConfigReg, low + 1), Write(ConfigReg, low)>>)
    /\ pulse_counter_config' = low
    /\ pulses' = 0
    /\ Wanted(ConfigReg, low)
    /\ UNCHANGED atStart

GetCount ==
    /\ Command(<<Read(CountReg)>>)
    /\ atStart' = free
    /\ UNCHANGED <<pulse_counter_config, pulses, want>>

-----------------------------------------------------------------------------
(* The bus master.                                                          *)

\* The head of todo goes on the bus; a write's data with its address or later.
MasterIssue(withData) ==
    /\ todo # <<>> /\ ~busy
    /\ busy' = TRUE
    /\ AWVALID' = (Head(todo).kind = "write")
    /\ WVALID' = (Head(todo).kind = "write" /\ withData)
    /\ ARVALID' = (Head(todo).kind = "read")
    /\ UNCHANGED <<counterVars, slaveVars, todo, pulse_counter_config, issued, reply,
                   ghosts>>

\* Data that did not go with the address follows it, once the address is taken
\* (MasterData) or before (MasterIssue).
MasterData ==
    /\ busy /\ Head(todo).kind = "write"
    /\ ~WVALID /\ state_write = "Wdata"
    /\ WVALID' = TRUE
    /\ UNCHANGED <<AWVALID, ARVALID, busy>>
    /\ UNCHANGED <<counterVars, slaveVars, todo, pulse_counter_config, issued, reply,
                   ghosts>>

\* What the master does with this edge's handshakes.
MasterClock(BREADY, RREADY) ==
    LET bdone == axi_bvalid /\ BREADY /\ busy /\ ~AWVALID /\ ~WVALID
        rdone == axi_rvalid /\ RREADY
    IN  /\ AWVALID' = (AWVALID /\ ~axi_awready)
        /\ WVALID' = (WVALID /\ ~axi_wready)
        /\ ARVALID' = (ARVALID /\ ~axi_arready)
        /\ busy' = (busy /\ ~bdone /\ ~rdone)
        /\ todo' = IF bdone \/ rdone THEN Tail(todo) ELSE todo
        /\ reply' = IF rdone THEN S_AXI_RDATA ELSE reply

\* The pulses as they are at the pins: a pulse is a sample that is high after
\* one that was low; a reset makes the sampler forget the level it had.
Pulse(btn, COUNT_SIG) == COUNT_SIG /\ ~count_state /\ ~btn

MeasurePulses(btn, COUNT_SIG) ==
    LET one == IF Pulse(btn, COUNT_SIG) THEN 1 ELSE 0
        void == btn \/ Clearing \/ Gated
    IN  /\ pulses' = pulses + one
        /\ free' = IF void THEN 0 ELSE free + one
        /\ atStart' = IF void THEN 0 ELSE atStart
        /\ UNCHANGED want

\* One edge of the clock that the slave and the counter share.  The counter's
\* RESET_N hangs on an undeclared net (AXI_ARESETN), which nothing drives:
\* only the button resets it.
ClockEdge(btn, COUNT_SIG, TRIGGER_SIG, BREADY, RREADY) ==
    LET op == IF busy THEN Head(todo) ELSE NoOp IN
    /\ Pulse(btn, COUNT_SIG) => pulses < MaxPulses
    /\ WriteFsm(AWVALID, op.reg, WVALID, BREADY)
    /\ Registers(AWVALID, op.reg, WVALID, op.data, COUNT_DATA)
    /\ ReadFsm(ARVALID, op.reg, RREADY)
    /\ Clock(btn, COUNT_SIG, TRIGGER_SIG, slv_reg[DelayReg], slv_reg[WidthReg],
             Clearing, Gated)
    /\ MasterClock(BREADY, RREADY)
    /\ MeasurePulses(btn, COUNT_SIG)
    /\ UNCHANGED <<pulse_counter_config, issued>>

Edge(ready) ==
    \E btn, COUNT_SIG \in BOOLEAN, TRIGGER_SIG \in TriggerLevels :
        ClockEdge(btn, COUNT_SIG, TRIGGER_SIG, ready, ready)

Commands ==
    \/ \E value \in {0, 1} : set_trigger_mode(value)
    \/ \E value \in Settings : set_trigger_width(value)
    \/ \E value \in Settings : set_trigger_delay(value)
    \/ set_clear
    \/ GetCount

Next ==
    \/ Commands
    \/ \E withData \in BOOLEAN : MasterIssue(withData)
    \/ MasterData
    \/ \E ready \in BOOLEAN : Edge(ready)

\* The clock runs, and the master carries on with an access and takes responses.
Fairness ==
    /\ WF_vars(Edge(TRUE))
    /\ WF_vars(\E withData \in BOOLEAN : MasterIssue(withData))
    /\ WF_vars(MasterData)

Spec == Init /\ [][Next]_vars /\ Fairness

-----------------------------------------------------------------------------
(* CLS:GetCount never returns more than the pulses since CLS:SetClrCount:   *)
(* the count of before the clear has left the three registers between the   *)
(* counter and the bus when the clear command returns.                      *)
ClearIsSeen == reply # None => reply <= pulses

(* CLS:GetCount is at most one pulse behind what the free-running counter   *)
(* had seen when the command was issued.                                    *)
CountIsRecent == reply # None => reply + 1 >= atStart

(* Between commands every register holds the value last commanded for it:   *)
(* each write landed on its own register, whenever its data came.           *)
WritesLand == todo = <<>> => \A r \in Regs \ {CountReg} : slv_reg[r] = want[r]

(* Every command ends: no response is lost between slave and master.        *)
CommandsEnd == todo # <<>> ~> todo = <<>>
=============================================================================
