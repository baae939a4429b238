------------------------------- MODULE Cn0531 -------------------------------
(***************************************************************************)
(* The voltage output of the CLS DAQ: the firmware's CLS:SetVolt (echo.c), *)
(* the controller cn0531.v it drives through two GPIOs, and the SPI        *)
(* shifter and the delay the controller uses.                              *)
(*                                                                         *)
(* The controller runs on the board's clock.  The firmware holds the GPIO  *)
(* that starts an output for usleep(10): at least Hold clocks, and any     *)
(* number more.  The AD5791 behind the wire takes a word when spi_sync     *)
(* rises after all its bits.                                               *)
(***************************************************************************)
EXTENDS SpiControl, DelayGen

CONSTANTS
    Hold,          \* clocks of usleep(10): 1000
    MaxCommands,   \* bound on the SetVolt commands
    MaxPresses     \* bound on the presses of the reset button

ASSUME DacAssumption ==
    Hold \in Nat \ {0} /\ MaxCommands \in Nat /\ MaxPresses \in Nat

VARIABLES
    state, spiData, spiLoadData, startDelay,     \* cn0531
    gpioVolt, gpioSet, fw, held,                 \* GPIOs, recv_callback, usleep
    commands, presses,                           \* the bounds
    dac,            \* device: the last voltage word taken
    configured,     \* device: the configuration word was taken
    delayed,        \* aux: clocks the controller has spent in DELAY
    cutDelay,       \* aux: the button was pressed in DELAY
    clash           \* aux: what the controller was doing when a request found it busy

control == <<state, spiData, spiLoadData, startDelay>>
firmware == <<gpioVolt, gpioSet, fw, held, commands>>
device == <<dac, configured>>
vars == <<spiVars, delayVars, control, firmware, presses, device, delayed, cutDelay, clash>>

\* The words: 24'h200010, 24'h17FFFF, {4'b0001, data} and the reset value.
Config   == <<"config", 0>>
Midscale == <<"midscale", 0>>
Volt(v)  == <<"volt", v>>
Zero     == <<"zero", 0>>
Volts == 0 .. MaxCommands
Outputs == {Midscale} \cup {Volt(v) : v \in Volts}
Words == Outputs \cup {Config, Zero}

(* The states and registers of cn0531.v, spiControl.v and delayGen.v; the    *)
(* bit count stays within a word.                                           *)
TypeOK ==
    /\ SpiTypeOK(Words)
    /\ DelayTypeOK
    /\ state \in {"CONFIG", "DELAY", "INIT", "IDLE", "SEND"}
    /\ spiData \in Words
    /\ spiLoadData \in BOOLEAN /\ startDelay \in BOOLEAN
    /\ fw \in {"idle", "value", "sleep"}
    /\ gpioVolt \in Volts /\ gpioSet \in BOOLEAN /\ held \in 0 .. Hold
    /\ commands \in 0 .. MaxCommands /\ presses \in 0 .. MaxPresses
    /\ dac \in Outputs \cup {NoWord} /\ configured \in BOOLEAN
    /\ clash \subseteq {"starting", "sending"}

\* The state the power-up reset leaves.
Init ==
    /\ SpiInit /\ DelayInit
    /\ state = "CONFIG" /\ spiData = Zero /\ spiLoadData = FALSE /\ startDelay = FALSE
    /\ gpioVolt = 0 /\ gpioSet = FALSE /\ fw = "idle" /\ held = 0 /\ commands = 0
    /\ presses = 0
    /\ dac = NoWord /\ configured = FALSE
    /\ delayed = 0 /\ cutDelay = FALSE /\ clash = {}

-----------------------------------------------------------------------------
(* The controller.  A state that sends offers its word and the request in   *)
(* the same clock, and takes spi_done for the answer.                       *)

\* Mutant: the request goes out one clock before the word.
SendEarly(word, next) ==
    /\ spiData' = IF spiLoadData THEN word ELSE spiData
    /\ spiLoadData' = ~spi_done
    /\ state' = IF spi_done THEN next ELSE state
    /\ UNCHANGED startDelay

Send(word, next) ==
    /\ spiData' = word
    /\ spiLoadData' = ~spi_done
    /\ state' = IF spi_done THEN next ELSE state
    /\ UNCHANGED startDelay

SendConfig == state = "CONFIG" /\ Send(Config, "DELAY")
SendMidscale == state = "INIT" /\ Send(Midscale, "IDLE")
SendVolt == state = "SEND" /\ Send(Volt(gpioVolt), "IDLE")

Delay ==
    /\ state = "DELAY"
    /\ startDelay' = ~delayDone
    /\ state' = IF delayDone THEN "INIT" ELSE state
    /\ UNCHANGED <<spiData, spiLoadData>>

\* Mutant: an output request is not taken.
IdleDeaf ==
    /\ state = "IDLE"
    /\ UNCHANGED control

Idle ==
    /\ state = "IDLE"
    /\ state' = IF gpioSet THEN "SEND" ELSE state
    /\ UNCHANGED <<spiData, spiLoadData, startDelay>>

\* Mutant: the reset leaves the configuration out.
ResetIntoInit ==
    /\ state' = "INIT" /\ spiData' = Zero /\ spiLoadData' = FALSE
    /\ UNCHANGED startDelay

\* The reset branch does not assign startDelay.
Reset ==
    /\ state' = "CONFIG" /\ spiData' = Zero /\ spiLoadData' = FALSE
    /\ UNCHANGED startDelay

Controller(RESET_BTN) ==
    IF RESET_BTN THEN Reset
    ELSE SendConfig \/ Delay \/ SendMidscale \/ Idle \/ SendVolt

\* One edge of the board's clock.
Clock(RESET_BTN) ==
    /\ RESET_BTN => presses < MaxPresses
    /\ presses' = IF RESET_BTN THEN presses + 1 ELSE presses
    /\ DivideClock
    /\ Controller(RESET_BTN)
    /\ DelayClock(startDelay)
    /\ held' = IF gpioSet /\ held < Hold THEN held + 1 ELSE held
    /\ delayed' = IF state = "DELAY" /\ delayed <= DelayCount THEN delayed + 1
                  ELSE IF state = "CONFIG" THEN 0 ELSE delayed
    /\ cutDelay' = (cutDelay \/ (RESET_BTN /\ startDelay))
    /\ UNCHANGED <<spi_state, dataCount, shiftReg, spi_done, spi_sync, wire,
                   gpioVolt, gpioSet, fw, commands, device, clash>>

\* One rising edge of clock_10, and what the DAC makes of it.
Tick ==
    /\ SpiTick(spiData, spiLoadData)
    /\ dac' = IF Taken \in Outputs THEN Taken ELSE dac
    /\ configured' = (configured \/ Taken = Config)
    /\ UNCHANGED <<delayVars, control, firmware, presses, delayed, cutDelay, clash>>

-----------------------------------------------------------------------------
(* CLS:SetVolt: the value, then the request high for usleep(10), then low.  *)
(* The value is the number of the command.                                  *)

SetVolt ==
    /\ fw = "idle" /\ commands < MaxCommands
    /\ fw' = "value"
    /\ commands' = commands + 1
    /\ gpioVolt' = commands + 1
    /\ UNCHANGED <<gpioSet, held, spiVars, delayVars, control, presses, device,
                   delayed, cutDelay, clash>>

SetVoltRequest ==
    /\ fw = "value"
    /\ fw' = "sleep"
    /\ gpioSet' = TRUE /\ held' = 0
    /\ clash' = clash \cup (IF state = "SEND" \/ spi_done THEN {"sending"}
                            ELSE IF state = "IDLE" THEN {} ELSE {"starting"})
    /\ UNCHANGED <<gpioVolt, commands, spiVars, delayVars, control, presses, device,
                   delayed, cutDelay>>

SetVoltReturn ==
    /\ fw = "sleep" /\ held = Hold
    /\ fw' = "idle"
    /\ gpioSet' = FALSE
    /\ UNCHANGED <<gpioVolt, held, commands, spiVars, delayVars, control, presses,
                   device, delayed, cutDelay, clash>>

Next ==
    \/ Clock(FALSE) \/ Clock(TRUE)
    \/ Tick
    \/ SetVolt \/ SetVoltRequest \/ SetVoltReturn

\* The clocks run, and a command that was started goes on and returns.
Spec ==
    /\ Init /\ [][Next]_vars
    /\ WF_vars(Clock(FALSE)) /\ WF_vars(Tick)
    /\ WF_vars(SetVoltRequest) /\ WF_vars(SetVoltReturn)

-----------------------------------------------------------------------------
(* The DAC is configured before it is given a voltage, whenever the button  *)
(* is pressed: a controller restarted in the middle of a word takes the end *)
(* of that word for the end of its configuration word.                      *)
ConfiguredFirst == dac # NoWord => configured

(* Every word that leaves the chip is one the controller meant to send, of  *)
(* all its bits: a voltage that was commanded, not the reset value of       *)
(* spiData, and the frame ends on the last bit.                             *)
WordsWhole ==
    /\ wire.word \notin {Zero, Volt(0)}
    /\ spi_sync = (wire = Empty)
    /\ (spi_state = "DONE" /\ ~spi_sync) => wire.bits = Bits

(* The DAC settles for the whole delay between its configuration and the    *)
(* first voltage, unless the button was pressed during an earlier delay     *)
(* (startDelay is not reset, and the delay counter runs on).                *)
SettlesFirst == state = "INIT" /\ ~cutDelay => delayed > DelayCount

(* The controller always comes back to take the next request.               *)
ComesBack == state # "IDLE" ~> state = "IDLE"

(* A request that finds the controller idle is carried out: when no more    *)
(* commands come, and none came too early, the DAC is at the last voltage.  *)
IdleRequestsServed ==
    <>[](commands = MaxCommands /\ clash = {} /\ presses = 0 => dac = Volt(gpioVolt))

(* "CLS:SetVolt - Set output voltage": when no more commands come, the DAC  *)
(* is at the voltage of the last one, however closely the commands follow   *)
(* one another once the controller has started up.                          *)
LastVoltageOut ==
    <>[](commands = MaxCommands /\ "starting" \notin clash => dac = Volt(gpioVolt))
=============================================================================
