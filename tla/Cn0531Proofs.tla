---------------------------- MODULE Cn0531Proofs ----------------------------
(***************************************************************************)
(* The voltage output is correct for every word length, clock ratio, delay *)
(* and hold time, whenever the button is pressed: only whole words leave   *)
(* the chip, the DAC is configured before its first voltage, and it has    *)
(* settled in between.                                                     *)
(***************************************************************************)
EXTENDS Cn0531, TLAPS

-----------------------------------------------------------------------------
(* The inductive invariant *)

\* The words the controller means to send.
Meant == {Config, Midscale} \cup {Volt(v) : v \in 1 .. MaxCommands}

\* The GPIO holds the number of the last command; a request was commanded.
Commanded ==
    /\ gpioVolt = commands
    /\ gpioSet = (fw = "sleep")
    /\ (fw # "idle" \/ state = "SEND") => commands # 0

\* What the shifter has sent of its word.
Shifting ==
    /\ spi_state = "IDLE" => spi_sync /\ wire = Empty
    /\ spi_state = "SEND" => IF dataCount = 0 THEN spi_sync /\ wire = Empty
                             ELSE ~spi_sync /\ wire = [word |-> shiftReg, bits |-> dataCount]
    /\ spi_state = "DONE" => IF spi_sync THEN wire = Empty
                             ELSE wire = [word |-> shiftReg, bits |-> Bits]

\* A word offered, and a word taken over, is one that is meant.
Offered ==
    /\ spiLoadData => spiData \in Meant
    /\ spi_state # "IDLE" => shiftReg \in Meant

\* Until the DAC is configured nothing else is sent, and the controller, however
\* often it is restarted, is not told that a word is done.
Configuring ==
    ~configured =>
        /\ state = "CONFIG" /\ ~spi_done /\ dac = NoWord
        /\ spiLoadData => spiData = Config
        /\ spi_state # "IDLE" => shiftReg = Config
        /\ spi_state = "DONE" => ~spi_sync

\* The delay counter runs with the clocks spent in DELAY, once startDelay is up.
Settling ==
    ~cutDelay =>
        /\ state # "DELAY" => ~startDelay /\ ~delayDone
        /\ state = "CONFIG" => counter = 0
        /\ state = "INIT" => delayed = DelayCount + 1
        /\ state = "DELAY" =>
              IF ~startDelay THEN delayed = 0 /\ counter = 0 /\ ~delayDone
              ELSE IF delayDone THEN delayed = DelayCount + 1 /\ counter = 0
              ELSE delayed = counter + 1

IInv ==
    /\ TypeOK /\ delayed \in 0 .. DelayCount + 1 /\ cutDelay \in BOOLEAN
    /\ Commanded /\ Shifting /\ Offered /\ Configuring /\ Settling

-----------------------------------------------------------------------------
(* Words *)

\* The numbers of the controller.
LEMMA Numbers ==
    /\ Bits \in Nat \ {0} /\ Divide \in Nat \ {0} /\ DelayCount \in Nat \ {0}
    /\ Hold \in Nat \ {0} /\ MaxCommands \in Nat /\ MaxPresses \in Nat
  BY SpiAssumption, DelayAssumption, DacAssumption

\* Kinds of words are told apart by what they say.
LEMMA WordsDiffer ==
    /\ Config # Midscale /\ Config # Zero /\ Config # NoWord /\ Midscale # Zero
    /\ NoWord \notin Words /\ Zero \notin Meant /\ Volt(0) \notin Meant
    /\ Config \notin Outputs /\ NoWord \notin Outputs /\ NoWord \notin Meant
    /\ Meant \subseteq Words /\ Zero \in Words /\ Config \in Meant /\ Midscale \in Meant
  BY Numbers DEF Config, Midscale, Zero, NoWord, Volt, Words, Outputs, Meant, Volts

\* A commanded voltage is a word that is meant.
LEMMA VoltMeant ==
    ASSUME NEW v, v \in Volts, v # 0
    PROVE  Volt(v) \in Meant
  BY Numbers DEF Volts, Meant

-----------------------------------------------------------------------------
(* The steps *)

\* The controller leaves its registers in their types and offers what is meant.
LEMMA ControllerStep ==
    ASSUME IInv, NEW btn \in BOOLEAN, Controller(btn)
    PROVE  /\ state' \in {"CONFIG", "DELAY", "INIT", "IDLE", "SEND"}
           /\ spiData' \in Words /\ spiLoadData' \in BOOLEAN /\ startDelay' \in BOOLEAN
           /\ spiLoadData' => spiData' \in Meant
           /\ state' = "SEND" => commands # 0
           /\ ~configured => /\ state' = "CONFIG"
                             /\ spiLoadData' => spiData' = Config
  <1> USE WordsDiffer
  <1>0. /\ TypeOK /\ Commanded /\ Offered /\ Configuring
    BY DEF IInv
  <1>1. CASE btn
    BY <1>0, <1>1 DEF Controller, Reset, TypeOK
  <1>2. CASE ~btn
    <2>1. SendConfig \/ Delay \/ SendMidscale \/ Idle \/ SendVolt
      BY <1>2 DEF Controller
    <2>2. CASE SendConfig
      BY <1>0, <2>2 DEF SendConfig, Send, TypeOK, SpiTypeOK, Configuring
    <2>3. CASE Delay
      BY <1>0, <2>3 DEF Delay, TypeOK, Offered, Configuring
    <2>4. CASE SendMidscale
      BY <1>0, <2>4 DEF SendMidscale, Send, TypeOK, SpiTypeOK, Configuring
    <2>5. CASE Idle
      BY <1>0, <2>5 DEF Idle, TypeOK, Offered, Configuring, Commanded
    <2>6. CASE SendVolt
      <3>1. gpioVolt \in Volts /\ gpioVolt # 0
        BY <1>0, <2>6 DEF SendVolt, TypeOK, Commanded
      <3>2. Volt(gpioVolt) \in Meant
        BY <3>1, VoltMeant
      <3> QED BY <1>0, <2>6, <3>2 DEF SendVolt, Send, TypeOK, SpiTypeOK, Configuring, Commanded
    <2> QED BY <2>1, <2>2, <2>3, <2>4, <2>5, <2>6
  <1> QED BY <1>1, <1>2

\* The delay is counted as long as the controller waits for it.
LEMMA SettlingStep ==
    ASSUME IInv, NEW btn \in BOOLEAN, Clock(btn)
    PROVE  Settling' /\ delayed' \in 0 .. DelayCount + 1 /\ cutDelay' \in BOOLEAN
  <1>0. /\ counter \in 0 .. DelayCount /\ delayDone \in BOOLEAN /\ startDelay \in BOOLEAN
        /\ delayed \in 0 .. DelayCount + 1 /\ DelayCount \in Nat \ {0} /\ Settling
        /\ cutDelay \in BOOLEAN
    BY Numbers DEF IInv, TypeOK, DelayTypeOK
  <1>1. /\ Controller(btn) /\ DelayClock(startDelay)
        /\ delayed' = IF state = "DELAY" /\ delayed <= DelayCount THEN delayed + 1
                      ELSE IF state = "CONFIG" THEN 0 ELSE delayed
        /\ cutDelay' = (cutDelay \/ (btn /\ startDelay))
    BY DEF Clock
  <1>2. delayed' \in 0 .. DelayCount + 1 /\ cutDelay' \in BOOLEAN
    BY <1>0, <1>1
  <1>3. ASSUME ~cutDelay' PROVE Settling'
    <2>1. ~cutDelay /\ ~(btn /\ startDelay)
      BY <1>1, <1>3
    <2>2. /\ state # "DELAY" => ~startDelay /\ ~delayDone
          /\ state = "CONFIG" => counter = 0
          /\ state = "INIT" => delayed = DelayCount + 1
          /\ state = "DELAY" =>
                IF ~startDelay THEN delayed = 0 /\ counter = 0 /\ ~delayDone
                ELSE IF delayDone THEN delayed = DelayCount + 1 /\ counter = 0
                ELSE delayed = counter + 1
      BY <1>0, <2>1 DEF Settling
    <2>3. CASE btn
      BY <1>0, <1>1, <2>1, <2>2, <2>3 DEF Controller, Reset, DelayClock, Settling
    <2>4. CASE ~btn
      <3>1. SendConfig \/ Delay \/ SendMidscale \/ Idle \/ SendVolt
        BY <1>1, <2>4 DEF Controller
      <3>2. CASE SendConfig
        BY <1>0, <1>1, <2>2, <3>2 DEF SendConfig, Send, DelayClock, Settling
      <3>3. CASE Delay
        <4>1. /\ counter' = IF startDelay /\ counter # DelayCount THEN counter + 1 ELSE 0
              /\ delayDone' = (startDelay /\ counter = DelayCount)
              /\ state = "DELAY" /\ startDelay' = ~delayDone
              /\ state' = IF delayDone THEN "INIT" ELSE state
          BY <1>1, <3>3 DEF Delay, DelayClock
        <4>2. CASE ~startDelay
          <5>1. delayed = 0 /\ counter = 0 /\ ~delayDone
            BY <2>2, <4>1, <4>2
          <5>2. state' = "DELAY" /\ startDelay' /\ ~delayDone' /\ counter' = 0
            BY <4>1, <4>2, <5>1
          <5>3. delayed' = 1
            BY <1>0, <1>1, <4>1, <5>1
          <5> QED BY <5>2, <5>3 DEF Settling
        <4>3. CASE startDelay /\ delayDone
          <5>1. delayed = DelayCount + 1 /\ state' = "INIT" /\ ~startDelay'
            BY <1>0, <2>2, <4>1, <4>3
          <5>2. delayed' = DelayCount + 1
            BY <1>0, <1>1, <4>1, <5>1
          <5>3. counter # DelayCount
            BY <1>0, <2>2, <4>1, <4>3
          <5> QED BY <4>1, <5>1, <5>2, <5>3 DEF Settling
        <4>4. CASE startDelay /\ ~delayDone
          <5>1. delayed = counter + 1 /\ state' = "DELAY" /\ startDelay'
            BY <1>0, <2>2, <4>1, <4>4
          <5>2. CASE counter = DelayCount
            BY <1>0, <1>1, <4>1, <4>4, <5>1, <5>2 DEF Settling
          <5>3. CASE counter # DelayCount
            <6>1. delayed' = delayed + 1 /\ counter' = counter + 1 /\ ~delayDone'
              BY <1>0, <1>1, <4>1, <4>4, <5>1, <5>3
            <6> QED BY <1>0, <5>1, <6>1 DEF Settling
          <5> QED BY <5>2, <5>3
        <4> QED BY <1>0, <4>2, <4>3, <4>4
      <3>4. CASE SendMidscale \/ Idle \/ SendVolt
        BY <1>0, <1>1, <2>2, <3>4 DEF SendMidscale, Idle, SendVolt, Send, DelayClock, Settling
      <3> QED BY <3>1, <3>2, <3>3, <3>4
    <2> QED BY <2>3, <2>4
  <1>4. Settling'
    BY <1>3 DEF Settling
  <1> QED BY <1>2, <1>4

\* An edge of the board's clock keeps the invariant.
LEMMA ClockStep ==
    ASSUME IInv, NEW btn \in BOOLEAN, Clock(btn)
    PROVE  IInv'
  <1>0. TypeOK /\ Commanded /\ Shifting /\ Offered /\ Configuring
    BY DEF IInv
  <1>1. /\ presses' = (IF btn THEN presses + 1 ELSE presses) /\ (btn => presses < MaxPresses)
        /\ DivideClock /\ Controller(btn) /\ DelayClock(startDelay)
        /\ held' = IF gpioSet /\ held < Hold THEN held + 1 ELSE held
        /\ spi_state' = spi_state /\ dataCount' = dataCount /\ shiftReg' = shiftReg
        /\ spi_done' = spi_done /\ spi_sync' = spi_sync /\ wire' = wire
        /\ gpioVolt' = gpioVolt /\ gpioSet' = gpioSet /\ fw' = fw /\ commands' = commands
        /\ dac' = dac /\ configured' = configured /\ clash' = clash
    BY DEF Clock, device
  <1>2. /\ state' \in {"CONFIG", "DELAY", "INIT", "IDLE", "SEND"}
        /\ spiData' \in Words /\ spiLoadData' \in BOOLEAN /\ startDelay' \in BOOLEAN
        /\ spiLoadData' => spiData' \in Meant
        /\ state' = "SEND" => commands # 0
        /\ ~configured => /\ state' = "CONFIG"
                          /\ spiLoadData' => spiData' = Config
    BY <1>1, ControllerStep
  <1>3. divider' \in 0 .. Divide - 1 /\ rising' \in BOOLEAN
    BY <1>0, <1>1, Numbers DEF DivideClock, TypeOK, SpiTypeOK
  <1>4. counter' \in 0 .. DelayCount /\ delayDone' \in BOOLEAN
    BY <1>0, <1>1, Numbers DEF DelayClock, TypeOK, DelayTypeOK
  <1>5. presses' \in 0 .. MaxPresses /\ held' \in 0 .. Hold
    BY <1>0, <1>1, Numbers DEF TypeOK
  <1>6. TypeOK'
    BY <1>0, <1>1, <1>2, <1>3, <1>4, <1>5 DEF TypeOK, SpiTypeOK, DelayTypeOK
  <1>7. Commanded'
    BY <1>0, <1>1, <1>2 DEF Commanded
  <1>8. Shifting' /\ Offered'
    BY <1>0, <1>1, <1>2 DEF Shifting, Offered
  <1>9. Configuring'
    BY <1>0, <1>1, <1>2 DEF Configuring
  <1> QED BY <1>6, <1>7, <1>8, <1>9, SettlingStep DEF IInv

\* An edge of clock_10 keeps the invariant: the shifter sends the bits of one
\* word, and the DAC takes it when the frame ends.
LEMMA TickStep ==
    ASSUME IInv, Tick
    PROVE  IInv'
  <1>0. TypeOK /\ Commanded /\ Shifting /\ Offered /\ Configuring /\ Bits \in Nat \ {0}
    BY Numbers DEF IInv
  <1>1. /\ SpiTick(spiData, spiLoadData)
        /\ dac' = IF Taken \in Outputs THEN Taken ELSE dac
        /\ configured' = (configured \/ Taken = Config)
        /\ state' = state /\ spiData' = spiData /\ spiLoadData' = spiLoadData
        /\ startDelay' = startDelay /\ counter' = counter /\ delayDone' = delayDone
        /\ gpioVolt' = gpioVolt /\ gpioSet' = gpioSet /\ fw' = fw /\ held' = held
        /\ commands' = commands /\ presses' = presses /\ delayed' = delayed
        /\ cutDelay' = cutDelay /\ clash' = clash
    BY DEF Tick, delayVars, control, firmware
  <1>2. /\ rising' = FALSE /\ divider' = divider
        /\ ShiftIdle(spiData, spiLoadData) \/ ShiftBit \/ ShiftDone(spiLoadData)
    BY <1>1 DEF SpiTick
  <1>3. /\ spi_state \in {"IDLE", "SEND", "DONE"} /\ dataCount \in 0 .. Bits - 1
        /\ shiftReg \in Words \cup {NoWord} /\ spi_done \in BOOLEAN /\ spi_sync \in BOOLEAN
        /\ wire \in [word : Words \cup {NoWord}, bits : 0 .. Bits]
        /\ spiData \in Words /\ spiLoadData \in BOOLEAN /\ configured \in BOOLEAN
    BY <1>0 DEF TypeOK, SpiTypeOK
  <1>4. /\ spi_state' \in {"IDLE", "SEND", "DONE"} /\ dataCount' \in 0 .. Bits - 1
        /\ shiftReg' \in Words \cup {NoWord} /\ spi_done' \in BOOLEAN /\ spi_sync' \in BOOLEAN
        /\ wire' \in [word : Words \cup {NoWord}, bits : 0 .. Bits]
        /\ Shifting'
        /\ spi_state' # "IDLE" => shiftReg' \in Meant
    <2>1. CASE ShiftIdle(spiData, spiLoadData)
      BY <1>0, <1>3, <2>1 DEF ShiftIdle, Shifting, Offered
    <2>2. CASE ShiftBit
      <3>0. spi_state = "SEND" /\ spi_state' \in {"SEND", "DONE"} /\ spi_sync' = FALSE
            /\ shiftReg' = shiftReg /\ spi_done' = spi_done
            /\ wire' = [word |-> shiftReg, bits |-> wire.bits + 1]
            /\ IF dataCount # Bits - 1
               THEN dataCount' = dataCount + 1 /\ spi_state' = spi_state
               ELSE spi_state' = "DONE" /\ dataCount' = dataCount
        BY <2>2 DEF ShiftBit
      <3>1. wire.bits = dataCount
        BY <1>0, <3>0 DEF Shifting, Empty
      <3>2. wire' = [word |-> shiftReg, bits |-> dataCount + 1] /\ dataCount + 1 \in 0 .. Bits
        BY <1>0, <1>3, <3>0, <3>1
      <3>3. dataCount' \in 0 .. Bits - 1
        BY <1>0, <1>3, <3>0
      <3>4. wire' \in [word : Words \cup {NoWord}, bits : 0 .. Bits]
        BY <1>3, <3>2
      <3>5. Shifting'
        BY <1>0, <1>3, <3>0, <3>2 DEF Shifting
      <3> QED BY <1>0, <1>3, <3>0, <3>3, <3>4, <3>5 DEF Offered
    <2>3. CASE ShiftDone(spiLoadData)
      <3>1. Empty \in [word : Words \cup {NoWord}, bits : 0 .. Bits]
        BY <1>0 DEF Empty
      <3> QED BY <1>0, <1>3, <2>3, <3>1 DEF ShiftDone, Shifting, Offered
    <2> QED BY <1>2, <2>1, <2>2, <2>3
  <1>5. Taken \in Words \cup {NoWord}
    BY <1>3 DEF Taken
  <1>6. configured' \in BOOLEAN /\ dac' \in Outputs \cup {NoWord}
    BY <1>0, <1>1, <1>3 DEF TypeOK
  <1>7. TypeOK'
    BY <1>0, <1>1, <1>2, <1>4, <1>6 DEF TypeOK, SpiTypeOK, DelayTypeOK
  <1>8. Commanded' /\ Offered'
    BY <1>0, <1>1, <1>4 DEF Commanded, Offered
  <1>9. Configuring'
    <2> SUFFICES ASSUME ~configured'
                 PROVE  /\ state = "CONFIG" /\ ~spi_done' /\ dac' = NoWord
                        /\ spiLoadData => spiData = Config
                        /\ spi_state' # "IDLE" => shiftReg' = Config
                        /\ spi_state' = "DONE" => ~spi_sync'
      BY <1>1 DEF Configuring
    <2>1. ~configured /\ Taken # Config
      BY <1>1
    <2>2. /\ state = "CONFIG" /\ ~spi_done /\ dac = NoWord
          /\ spiLoadData => spiData = Config
          /\ spi_state # "IDLE" => shiftReg = Config
          /\ spi_state = "DONE" => ~spi_sync
      BY <1>0, <2>1 DEF Configuring
    <2>3. spi_state # "DONE"
      <3> SUFFICES ASSUME spi_state = "DONE" PROVE FALSE
        OBVIOUS
      <3>1. wire = [word |-> Config, bits |-> Bits] /\ ~spi_sync
        BY <1>0, <2>2 DEF Shifting
      <3>2. Taken = Config
        BY <3>1 DEF Taken
      <3> QED BY <2>1, <3>2
    <2>4. Taken = NoWord
      BY <2>3 DEF Taken
    <2>5. dac' = NoWord
      BY <1>1, <2>2, <2>4, WordsDiffer
    <2>6. CASE ShiftIdle(spiData, spiLoadData)
      BY <1>3, <2>2, <2>5, <2>6 DEF ShiftIdle
    <2>7. CASE ShiftBit
      BY <1>3, <2>2, <2>5, <2>7 DEF ShiftBit
    <2> QED BY <1>2, <2>3, <2>6, <2>7 DEF ShiftDone
  <1>10. Settling'
    BY <1>1 DEF IInv, Settling
  <1> QED BY <1>1, <1>4, <1>7, <1>8, <1>9, <1>10 DEF IInv

\* The firmware's steps keep the invariant.
LEMMA FirmwareStep ==
    ASSUME IInv, SetVolt \/ SetVoltRequest \/ SetVoltReturn
    PROVE  IInv'
  <1>0. TypeOK /\ Commanded /\ MaxCommands \in Nat /\ Hold \in Nat
    BY Numbers DEF IInv
  <1>1. /\ UNCHANGED <<spiVars, delayVars, control, presses, device, delayed, cutDelay>>
        /\ fw' \in {"idle", "value", "sleep"}
        /\ gpioVolt' \in Volts /\ gpioSet' \in BOOLEAN /\ held' \in 0 .. Hold
        /\ commands' \in 0 .. MaxCommands /\ clash' \subseteq {"starting", "sending"}
        /\ Commanded'
    <2>1. CASE SetVolt
      BY <1>0, <2>1 DEF SetVolt, TypeOK, Commanded, Volts
    <2>2. CASE SetVoltRequest
      <3>1. fw = "value" /\ fw' = "sleep" /\ gpioSet' = TRUE /\ held' = 0
            /\ gpioVolt' = gpioVolt /\ commands' = commands
            /\ UNCHANGED <<spiVars, delayVars, control, presses, device, delayed, cutDelay>>
        BY <2>2 DEF SetVoltRequest
      <3>2. clash' \subseteq {"starting", "sending"}
        BY <1>0, <2>2 DEF SetVoltRequest, TypeOK
      <3>3. Commanded'
        BY <1>0, <3>1 DEF Commanded
      <3> QED BY <1>0, <3>1, <3>2, <3>3 DEF TypeOK
    <2>3. CASE SetVoltReturn
      BY <1>0, <2>3 DEF SetVoltReturn, TypeOK, Commanded, control
    <2> QED BY <2>1, <2>2, <2>3
  <1>2. TypeOK'
    BY <1>0, <1>1 DEF TypeOK, SpiTypeOK, DelayTypeOK, spiVars, delayVars, control, device
  <1>3. (Shifting /\ Offered /\ Configuring /\ Settling)'
    BY <1>1 DEF IInv, Shifting, Offered, Configuring, Settling,
        spiVars, delayVars, control, device
  <1> QED BY <1>1, <1>2, <1>3 DEF IInv

-----------------------------------------------------------------------------
(* The invariant holds *)

\* The power-up reset establishes it.
LEMMA InvInit == Init => IInv
  <1> SUFFICES ASSUME Init PROVE IInv
    OBVIOUS
  <1> USE DEF Init, SpiInit, DelayInit
  <1>1. TypeOK
    <2>1. wire \in [word : Words \cup {NoWord}, bits : 0 .. Bits]
      BY Numbers DEF Empty
    <2>2. /\ 0 \in 0 .. Divide - 1 /\ 0 \in 0 .. Bits - 1 /\ 0 \in 0 .. DelayCount
          /\ 0 \in 0 .. Hold /\ 0 \in Volts /\ 0 \in 0 .. MaxCommands /\ 0 \in 0 .. MaxPresses
      BY Numbers DEF Volts
    <2>3. SpiTypeOK(Words)
      BY <2>1, <2>2, Zenon DEF SpiTypeOK
    <2>4. DelayTypeOK
      BY <2>2, Zenon DEF DelayTypeOK
    <2>5. Zero \in Words
      BY WordsDiffer
    <2> QED BY <2>2, <2>3, <2>4, <2>5, Zenon DEF TypeOK
  <1>2. Commanded /\ Shifting /\ Offered
    BY DEF Commanded, Shifting, Offered
  <1>3. Configuring /\ Settling
    BY DEF Configuring, Settling
  <1>4. delayed \in 0 .. DelayCount + 1 /\ cutDelay \in BOOLEAN
    <2>1. 0 \in 0 .. DelayCount + 1
      BY Numbers
    <2> QED BY <2>1, Zenon
  <1> QED BY <1>1, <1>2, <1>3, <1>4 DEF IInv

\* Every step keeps it.
LEMMA InvNext == IInv /\ [Next]_vars => IInv'
  <1> SUFFICES ASSUME IInv, [Next]_vars PROVE IInv'
    OBVIOUS
  <1>1. CASE UNCHANGED vars
    BY <1>1 DEF vars, spiVars, delayVars, control, firmware, device, IInv, TypeOK,
        SpiTypeOK, DelayTypeOK, Commanded, Shifting, Offered, Configuring, Settling
  <1> QED BY <1>1, ClockStep, TickStep, FirmwareStep DEF Next

\* The inductive invariant holds in every reachable state.
LEMMA InvHolds == Spec => []IInv
  BY InvInit, InvNext, PTL DEF Spec

-----------------------------------------------------------------------------
(* What the controller promises *)

\* The registers of cn0531.v, spiControl.v and delayGen.v keep their types.
THEOREM TypeCorrect == Spec => []TypeOK
  <1>1. IInv => TypeOK
    BY DEF IInv
  <1> QED BY <1>1, InvHolds, PTL

\* Every frame on the wire is a word the controller meant, of all its bits,
\* although the button restarts the controller and not the shifter.
THEOREM WordsAlwaysWhole == Spec => []WordsWhole
  <1>1. ASSUME IInv PROVE WordsWhole
    <2>0. /\ Shifting /\ Offered /\ Bits \in Nat \ {0} /\ dataCount \in 0 .. Bits - 1
          /\ spi_state \in {"IDLE", "SEND", "DONE"} /\ spi_sync \in BOOLEAN
      BY <1>1, Numbers DEF IInv, TypeOK, SpiTypeOK
    <2>1. CASE wire = Empty /\ spi_sync
      <3>1. wire.word = NoWord
        BY <2>1 DEF Empty
      <3>2. NoWord # Zero /\ NoWord # Volt(0)
        BY DEF NoWord, Zero, Volt
      <3> QED BY <2>1, <3>1, <3>2 DEF WordsWhole
    <2>2. CASE ~(wire = Empty /\ spi_sync)
      <3>1. /\ spi_state \in {"SEND", "DONE"} /\ ~spi_sync /\ wire.word = shiftReg
            /\ wire.bits # 0 /\ (spi_state = "DONE" => wire.bits = Bits)
        BY <2>0, <2>2 DEF Shifting
      <3>2. shiftReg \in Meant
        BY <2>0, <3>1 DEF Offered
      <3>3. wire # Empty
        BY <3>1 DEF Empty
      <3> QED BY <2>0, <3>1, <3>2, <3>3, WordsDiffer DEF WordsWhole
    <2> QED BY <2>1, <2>2
  <1> QED BY <1>1, InvHolds, PTL

\* No voltage reaches the DAC before its configuration word, whenever the
\* button restarts the controller.
THEOREM AlwaysConfiguredFirst == Spec => []ConfiguredFirst
  <1>1. ASSUME IInv PROVE ConfiguredFirst
    BY <1>1 DEF IInv, Configuring, ConfiguredFirst
  <1> QED BY <1>1, InvHolds, PTL

\* The whole delay lies between the configuration word and the first voltage,
\* unless the button was pressed while the delay ran.
THEOREM AlwaysSettlesFirst == Spec => []SettlesFirst
  <1>1. ASSUME IInv PROVE SettlesFirst
    BY <1>1, Numbers DEF IInv, Settling, SettlesFirst
  <1> QED BY <1>1, InvHolds, PTL
=============================================================================
