------------------------ MODULE PulseCounterIpProofs ------------------------
(***************************************************************************)
(* The counter commands are correct end to end, for every register width,  *)
(* every set of settings and levels, and any number of commands: writes    *)
(* land, a cleared count is seen as cleared, and a count that is read is   *)
(* recent.                                                                 *)
(***************************************************************************)
EXTENDS PulseCounterIp, PulseCounterProofs, SequenceTheorems, TLAPS

-----------------------------------------------------------------------------
(* The inductive invariant *)

Settable == Regs \ {CountReg}

\* What is left of a command, given the values commanded for the registers and
\* the configuration.
IsCommand(ops, values, config) ==
    \/ ops = <<>>
    \/ ops = <<Read(CountReg)>>
    \/ \E r \in Settable : ops = <<Write(r, values[r])>>
    \/ ops = <<Write(ConfigReg, config + 1), Write(ConfigReg, config)>>

\* The command being run is one of the firmware's; its last write of a register
\* is the value last commanded for it.
Queued ==
    /\ want[ConfigReg] = pulse_counter_config
    /\ busy => todo # <<>>
    /\ IsCommand(todo, want, pulse_counter_config)

\* The register that the command is writing, if any, and only it, is unsettled.
Unsettled(r) == todo # <<>> /\ Head(todo).kind = "write" /\ Head(todo).reg = r
Settled == \A r \in Settable : ~Unsettled(r) => slv_reg[r] = want[r]

\* The slave is ready for what its state machines wait for.
Ready ==
    /\ axi_awready = (state_write = "Waddr")
    /\ axi_wready = (state_write # "Idle")
    /\ axi_arready = (state_read = "Raddr")
    /\ axi_rvalid = (state_read = "Rdata")

\* A write is waiting for its address to be taken, for its data, or for its
\* response; the response comes when the register holds the value.
Writing == busy /\ Head(todo).kind = "write"
Answering == state_write = "Waddr" /\ axi_bvalid /\ ~AWVALID /\ ~WVALID
WriteBus ==
    IF Writing
    THEN \/ state_write # "Wdata" /\ AWVALID /\ ~axi_bvalid
         \/ /\ state_write = "Wdata" /\ ~AWVALID /\ ~axi_bvalid
            /\ axi_awaddr = Head(todo).reg
         \/ Answering /\ slv_reg[Head(todo).reg] = Head(todo).data
    ELSE state_write # "Wdata" /\ ~AWVALID /\ ~WVALID /\ ~axi_bvalid

\* A read is waiting for its address to be taken, or for its data.
Reading == busy /\ Head(todo).kind = "read"
ReadBus ==
    IF Reading
    THEN IF ARVALID THEN state_read # "Rdata"
         ELSE state_read = "Rdata" /\ axi_araddr = Head(todo).reg
    ELSE state_read # "Rdata" /\ ~ARVALID

\* A pulse that is sampled and not yet counted.
Rise == IF CountRise THEN 1 ELSE 0

\* How far the count of before a clear may have come down the registers.
Flushed ==
    /\ pulses \in 0 .. MaxPulses
    /\ pulse_count + Rise <= MaxPulses + pulses
    /\ Len(todo) # 2 => pulse_count + Rise <= pulses
    /\ (todo = <<>> \/ Head(todo).kind = "read" \/ (Len(todo) = 1 /\ Answering))
           => COUNT_DATA <= pulses
    /\ (todo = <<>> \/ Head(todo).kind = "read") => slv_reg[CountReg] <= pulses
    /\ reply # None => reply <= pulses

\* How far the pulses since the last clear have come.
Recent ==
    /\ free \in Nat /\ atStart \in 0 .. free
    /\ free <= pulse_count + Rise
    /\ free <= COUNT_DATA + 1
    /\ state_read = "Rdata" => atStart <= slv_reg[CountReg] + 1
    /\ reply # None => atStart <= reply + 1

IInv == /\ TypeOK /\ Queued /\ Settled /\ Ready /\ WriteBus /\ ReadBus
        /\ Flushed /\ Recent

-----------------------------------------------------------------------------
(* The commands as sequences *)

\* The numbers of the registers.
LEMMA Numbers ==
    /\ WordSize \in Nat /\ WordSize > 3 /\ MaxPulses \in Nat /\ WordSize > 2 * MaxPulses + 2
    /\ MaxCommands \in Nat /\ Settings \subseteq Word /\ TriggerLevels \subseteq BOOLEAN
    /\ 0 \in Word /\ 1 \in Word /\ 2 \in Word /\ 3 \in Word
    /\ None \notin Word /\ CountReg \in Regs /\ ConfigReg \in Settable
    /\ DelayReg \in Settable /\ WidthReg \in Settable
  BY WordSizeAssumption, IpAssumption
  DEF Word, None, Regs, Settable, CountReg, ConfigReg, DelayReg, WidthReg

\* The parts of sequences of one and of two operations.
LEMMA OneOp ==
    ASSUME NEW a
    PROVE  /\ Len(<<a>>) = 1 /\ Head(<<a>>) = a /\ Tail(<<a>>) = <<>> /\ <<a>> # <<>>
           /\ DOMAIN <<a>> = {1} /\ <<a>>[1] = a
  OBVIOUS

\* A command of two accesses.
LEMMA TwoOps ==
    ASSUME NEW a, NEW b
    PROVE  /\ Len(<<a, b>>) = 2 /\ Head(<<a, b>>) = a /\ Tail(<<a, b>>) = <<b>>
           /\ <<a, b>> # <<>> /\ DOMAIN <<a, b>> = {1, 2}
           /\ <<a, b>>[1] = a /\ <<a, b>>[2] = b
  OBVIOUS

\* What is at the head of the command being run, and what comes after it.
HeadKinds ==
    /\ Len(todo) \in 0 .. 2 /\ (Len(todo) = 0 <=> todo = <<>>)
    /\ todo # <<>> => /\ Head(todo).kind \in {"read", "write"}
                      /\ Head(todo).reg \in Regs /\ Head(todo).data \in Word
    /\ todo # <<>> /\ Head(todo).kind = "read" =>
          Head(todo).reg = CountReg /\ Len(todo) = 1 /\ Tail(todo) = <<>>
    /\ todo # <<>> /\ Head(todo).kind = "write" =>
          /\ Head(todo).reg \in Settable
          /\ Len(todo) = 1 => Tail(todo) = <<>> /\ Head(todo).data = want[Head(todo).reg]
          /\ Len(todo) = 2 => /\ Head(todo) = Write(ConfigReg, pulse_counter_config + 1)
                              /\ Tail(todo) = <<Write(ConfigReg, pulse_counter_config)>>

\* A command that is queued has one of these shapes.
LEMMA HeadKind ==
    ASSUME Queued, want \in [Regs -> Word], pulse_counter_config \in {0, 2}
    PROVE  HeadKinds
  <1>0. Len(<<>>) = 0
    OBVIOUS
  <1>1. CASE todo = <<>>
    BY <1>0, <1>1 DEF HeadKinds
  <1>2. CASE todo = <<Read(CountReg)>>
    <2>1. Read(CountReg).kind = "read" /\ Read(CountReg).reg = CountReg /\ Read(CountReg).data = 0
      BY DEF Read
    <2>2. Len(todo) = 1 /\ Head(todo) = Read(CountReg) /\ Tail(todo) = <<>> /\ todo # <<>>
      BY <1>2, OneOp
    <2> QED BY <2>1, <2>2, Numbers DEF HeadKinds
  <1>3. ASSUME NEW r \in Settable, todo = <<Write(r, want[r])>> PROVE HeadKinds
    <2> DEFINE w == Write(r, want[r])
    <2>1. w.kind = "write" /\ w.reg = r /\ w.data = want[r] /\ r \in Regs /\ want[r] \in Word
      BY DEF Write, Settable
    <2> HIDE DEF w
    <2>2. Len(todo) = 1 /\ Head(todo) = w /\ Tail(todo) = <<>> /\ todo # <<>>
      BY <1>3, OneOp DEF w
    <2> QED BY <2>1, <2>2 DEF HeadKinds
  <1>4. CASE todo = <<Write(ConfigReg, pulse_counter_config + 1),
                      Write(ConfigReg, pulse_counter_config)>>
    <2> DEFINE w == Write(ConfigReg, pulse_counter_config + 1)
               v == Write(ConfigReg, pulse_counter_config)
    <2>1. pulse_counter_config + 1 \in Word
      BY Numbers
    <2>2. w.kind = "write" /\ w.reg = ConfigReg /\ w.data \in Word
      BY <2>1 DEF Write
    <2> HIDE DEF w, v
    <2>3. Len(todo) = 2 /\ Head(todo) = w /\ Tail(todo) = <<v>> /\ todo # <<>>
      BY <1>4, TwoOps DEF w, v
    <2>4. ConfigReg \in Settable /\ ConfigReg \in Regs
      BY Numbers DEF Settable
    <2> QED BY <2>2, <2>3, <2>4 DEF HeadKinds, w, v
  <1> QED BY <1>1, <1>2, <1>3, <1>4 DEF Queued, IsCommand

\* The operations of a command are on registers and words.
LEMMA CommandType ==
    ASSUME NEW ops, NEW values, NEW config, IsCommand(ops, values, config),
           values \in [Regs -> Word], config \in {0, 2}
    PROVE  /\ \A i \in DOMAIN ops : ops[i].reg \in Regs /\ ops[i].data \in Word
           /\ Len(ops) <= 2
  <1>1. CASE ops = <<>>
    BY <1>1
  <1>2. CASE ops = <<Read(CountReg)>>
    <2>1. Read(CountReg).reg = CountReg /\ Read(CountReg).data = 0
      BY DEF Read
    <2> QED BY <1>2, <2>1, OneOp, Numbers
  <1>3. ASSUME NEW r \in Settable, ops = <<Write(r, values[r])>>
        PROVE  /\ \A i \in DOMAIN ops : ops[i].reg \in Regs /\ ops[i].data \in Word
               /\ Len(ops) <= 2
    <2>1. Write(r, values[r]).reg \in Regs /\ Write(r, values[r]).data \in Word
      BY DEF Write, Settable
    <2> QED BY <1>3, <2>1, OneOp
  <1>4. CASE ops = <<Write(ConfigReg, config + 1), Write(ConfigReg, config)>>
    <2> DEFINE w == Write(ConfigReg, config + 1)
               v == Write(ConfigReg, config)
    <2>1. w.reg \in Regs /\ w.data \in Word /\ v.reg \in Regs /\ v.data \in Word
      BY Numbers DEF Write, Settable
    <2> HIDE DEF w, v
    <2>2. DOMAIN ops = {1, 2} /\ ops[1] = w /\ ops[2] = v /\ Len(ops) = 2
      BY <1>4, TwoOps DEF w, v
    <2> QED BY <2>1, <2>2
  <1> QED BY <1>1, <1>2, <1>3, <1>4 DEF IsCommand

-----------------------------------------------------------------------------
(* The commands *)

\* A command that is issued between commands, and says what it will write,
\* keeps the invariant.
LEMMA CommandKeeps ==
    ASSUME IInv, NEW ops, ops # <<>>, Command(ops),
           IsCommand(ops, want', pulse_counter_config'),
           pulse_counter_config' \in {0, 2}, want' \in [Regs -> Word],
           want'[ConfigReg] = pulse_counter_config',
           \A r \in Settable :
              want'[r] = want[r] \/ (Head(ops).kind = "write" /\ Head(ops).reg = r),
           pulses' = pulses \/ (pulses' = 0 /\ Len(ops) = 2 /\ Head(ops).kind = "write"),
           atStart' \in {atStart, free}
    PROVE  IInv'
  <1>0. TypeOK /\ Queued /\ Settled /\ Ready /\ WriteBus /\ ReadBus /\ Flushed /\ Recent
    BY DEF IInv
  <1>1. /\ todo = <<>> /\ todo' = ops /\ issued < MaxCommands /\ issued' = issued + 1
        /\ reply' = None /\ free' = free
        /\ UNCHANGED counterVars /\ UNCHANGED slaveVars /\ UNCHANGED master
    BY DEF Command
  <1>2. ~busy
    BY <1>0, <1>1 DEF Queued
  <1>3. TypeOK'
    <2>1. /\ \A i \in DOMAIN todo' : todo'[i].reg \in Regs /\ todo'[i].data \in Word
          /\ Len(todo') <= 2
      BY <1>1, CommandType
    <2>2. issued' \in 0 .. MaxCommands /\ reply' \in Word \cup {None}
      BY <1>0, <1>1, Numbers DEF TypeOK
    <2>3. CounterTypeOK' /\ SlaveTypeOK(Word)'
      BY <1>0, <1>1 DEF TypeOK, CounterTypeOK, SlaveTypeOK, counterVars, sampler, gate,
          slaveVars, writeFsm, readFsm
    <2> QED BY <1>0, <1>1, <2>1, <2>2, <2>3 DEF TypeOK, master
  <1>4. Queued'
    BY <1>1 DEF Queued
  <1>5. Settled'
    BY <1>0, <1>1 DEF Settled, Unsettled, slaveVars
  <1>6. Ready' /\ WriteBus' /\ ReadBus'
    BY <1>0, <1>1, <1>2 DEF Ready, WriteBus, ReadBus, Writing, Reading,
        slaveVars, writeFsm, readFsm, master
  <1>7. Flushed'
    <2>1. /\ pulses \in 0 .. MaxPulses /\ pulse_count + Rise <= pulses
          /\ COUNT_DATA <= pulses /\ slv_reg[CountReg] <= pulses
      <3>1. Len(todo) # 2
        BY <1>1
      <3> QED BY <1>0, <1>1, <3>1 DEF Flushed
    <2>2. /\ pulse_count' = pulse_count /\ Rise' = Rise /\ COUNT_DATA' = COUNT_DATA
          /\ slv_reg' = slv_reg
      BY <1>1 DEF counterVars, sampler, Rise, CountRise, slaveVars
    <2>3. pulse_count \in Nat /\ Rise \in Nat /\ MaxPulses \in Nat
      BY <1>0, Numbers DEF TypeOK, CounterTypeOK, Word, Rise
    <2>4. CASE pulses' = pulses
      BY <1>1, <2>1, <2>2, <2>3, <2>4 DEF Flushed
    <2>5. CASE pulses' = 0 /\ Len(ops) = 2 /\ Head(ops).kind = "write"
      BY <1>1, <2>1, <2>2, <2>3, <2>5 DEF Flushed
    <2> QED BY <2>4, <2>5
  <1>8. Recent'
    <2>1. state_read # "Rdata"
      BY <1>0, <1>2 DEF ReadBus, Reading
    <2>2. /\ pulse_count' = pulse_count /\ Rise' = Rise /\ COUNT_DATA' = COUNT_DATA
          /\ slv_reg' = slv_reg /\ state_read' = state_read
      BY <1>1 DEF counterVars, sampler, Rise, CountRise, slaveVars, readFsm
    <2> QED BY <1>0, <1>1, <2>1, <2>2 DEF Recent
  <1> QED BY <1>3, <1>4, <1>5, <1>6, <1>7, <1>8 DEF IInv

\* Every command of recv_callback does.
LEMMA CommandStep ==
    ASSUME IInv, Commands
    PROVE  IInv'
  <1>0. /\ TypeOK /\ Queued /\ want \in [Regs -> Word] /\ pulse_counter_config \in {0, 2}
        /\ want[ConfigReg] = pulse_counter_config
    BY DEF IInv, TypeOK, Queued
  <1>1. ASSUME NEW r \in Settable, NEW value \in Word, Command(<<Write(r, value)>>),
               Wanted(r, value), pulses' = pulses, atStart' = atStart,
               pulse_counter_config' = IF r = ConfigReg THEN value ELSE pulse_counter_config,
               pulse_counter_config' \in {0, 2}
        PROVE  IInv'
    <2> DEFINE ops == <<Write(r, value)>>
    <2>1. ops # <<>> /\ Head(ops) = Write(r, value)
      BY OneOp
    <2>2. Write(r, value).kind = "write" /\ Write(r, value).reg = r
      BY DEF Write
    <2>3. want' \in [Regs -> Word] /\ want'[r] = value /\ \A q \in Regs : q # r => want'[q] = want[q]
      BY <1>0, <1>1 DEF Wanted, Settable
    <2>4. IsCommand(ops, want', pulse_counter_config')
      BY <2>3 DEF IsCommand
    <2>5. want'[ConfigReg] = pulse_counter_config'
      BY <1>0, <1>1, <2>3, Numbers DEF Settable
    <2>6. \A q \in Settable :
             want'[q] = want[q] \/ (Head(ops).kind = "write" /\ Head(ops).reg = q)
      BY <2>1, <2>2, <2>3 DEF Settable
    <2> HIDE DEF ops
    <2>7. Command(ops)
      BY <1>1 DEF ops
    <2> QED BY <1>1, <2>1, <2>3, <2>4, <2>5, <2>6, <2>7, CommandKeeps
  <1>2. ASSUME NEW value \in {0, 1}, set_trigger_mode(value) PROVE IInv'
    <2> DEFINE config == (pulse_counter_config % 2) + 2 * value
    <2>1. config \in {0, 2} /\ config \in Word
      BY <1>0, Numbers
    <2>2. /\ Command(<<Write(ConfigReg, config)>>) /\ pulse_counter_config' = config
          /\ Wanted(ConfigReg, config) /\ pulses' = pulses /\ atStart' = atStart
      BY <1>2 DEF set_trigger_mode
    <2> HIDE DEF config
    <2> QED BY <1>1, <2>1, <2>2, Numbers
  <1>3. ASSUME NEW value \in Settings, set_trigger_width(value) PROVE IInv'
    <2>1. value \in Word /\ WidthReg # ConfigReg /\ WidthReg \in Settable
      BY Numbers DEF WidthReg, ConfigReg
    <2> QED BY <1>0, <1>1, <1>3, <2>1 DEF set_trigger_width
  <1>4. ASSUME NEW value \in Settings, set_trigger_delay(value) PROVE IInv'
    <2>1. value \in Word /\ DelayReg # ConfigReg /\ DelayReg \in Settable
      BY Numbers DEF DelayReg, ConfigReg
    <2> QED BY <1>0, <1>1, <1>4, <2>1 DEF set_trigger_delay
  <1>5. ASSUME set_clear PROVE IInv'
    <2> DEFINE low == 2 * (pulse_counter_config \div 2)
               ops == <<Write(ConfigReg, low + 1), Write(ConfigReg, low)>>
    <2>1. low = pulse_counter_config
      BY <1>0
    <2>2. /\ Command(ops) /\ pulse_counter_config' = low /\ pulses' = 0
          /\ Wanted(ConfigReg, low) /\ atStart' = atStart
      BY <1>5 DEF set_clear
    <2> HIDE DEF low
    <2>3. ops # <<>> /\ Head(ops) = Write(ConfigReg, low + 1) /\ Len(ops) = 2
      BY TwoOps
    <2>4. Head(ops).kind = "write"
      BY <2>3 DEF Write
    <2>5. ConfigReg \in Regs /\ want' = want
      BY <1>0, <2>1, <2>2, Numbers DEF Wanted, Settable
    <2>6. IsCommand(ops, want', pulse_counter_config')
      BY <2>2 DEF IsCommand
    <2> HIDE DEF ops
    <2> QED BY <1>0, <2>1, <2>2, <2>3, <2>4, <2>5, <2>6, CommandKeeps
  <1>6. ASSUME GetCount PROVE IInv'
    <2> DEFINE ops == <<Read(CountReg)>>
    <2>1. ops # <<>> /\ Command(ops) /\ atStart' = free /\ want' = want
          /\ pulse_counter_config' = pulse_counter_config /\ pulses' = pulses
      BY <1>6, OneOp DEF GetCount
    <2>2. IsCommand(ops, want', pulse_counter_config')
      BY DEF IsCommand
    <2> HIDE DEF ops
    <2> QED BY <1>0, <2>1, <2>2, CommandKeeps
  <1> QED BY <1>2, <1>3, <1>4, <1>5, <1>6 DEF Commands

-----------------------------------------------------------------------------
(* The bus master *)

\* An access that is put on the bus, and data that follows its address.
LEMMA MasterStep ==
    ASSUME IInv, (\E withData \in BOOLEAN : MasterIssue(withData)) \/ MasterData
    PROVE  IInv'
  <1>0. TypeOK /\ Queued /\ Settled /\ Ready /\ WriteBus /\ ReadBus /\ Flushed /\ Recent
    BY DEF IInv
  <1>1. HeadKinds
    BY <1>0, HeadKind DEF TypeOK
  <1>2. /\ UNCHANGED counterVars /\ UNCHANGED slaveVars /\ UNCHANGED ghosts
        /\ todo' = todo /\ pulse_counter_config' = pulse_counter_config
        /\ issued' = issued /\ reply' = reply
        /\ busy' = TRUE /\ todo # <<>>
        /\ AWVALID' \in BOOLEAN /\ WVALID' \in BOOLEAN /\ ARVALID' \in BOOLEAN
    BY <1>0 DEF MasterIssue, MasterData, TypeOK, Queued
  <1>3. TypeOK'
    <2>1. CounterTypeOK' /\ SlaveTypeOK(Word)'
      BY <1>0, <1>2 DEF TypeOK, CounterTypeOK, SlaveTypeOK, counterVars, sampler, gate,
          slaveVars, writeFsm, readFsm
    <2> QED BY <1>0, <1>2, <2>1 DEF TypeOK, ghosts
  <1>4. Queued' /\ Settled' /\ Ready'
    BY <1>0, <1>2 DEF Queued, Settled, Unsettled, Ready, ghosts, slaveVars, writeFsm, readFsm
  <1>5. WriteBus' /\ ReadBus' /\ (Answering' => Answering)
    <2>1. ASSUME NEW withData \in BOOLEAN, MasterIssue(withData)
          PROVE  WriteBus' /\ ReadBus' /\ (Answering' => Answering)
      <3>1. /\ ~busy /\ AWVALID' = (Head(todo).kind = "write")
            /\ WVALID' = (Head(todo).kind = "write" /\ withData)
            /\ ARVALID' = (Head(todo).kind = "read")
        BY <2>1 DEF MasterIssue
      <3>2. state_write # "Wdata" /\ ~AWVALID /\ ~WVALID /\ ~axi_bvalid
            /\ state_read # "Rdata"
        BY <1>0, <3>1 DEF WriteBus, Writing, ReadBus, Reading
      <3>3. /\ state_write' = state_write /\ axi_bvalid' = axi_bvalid
            /\ state_read' = state_read
        BY <1>2 DEF slaveVars, writeFsm, readFsm
      <3>4. Head(todo).kind \in {"read", "write"}
        BY <1>1, <1>2 DEF HeadKinds
      <3> QED BY <1>2, <3>1, <3>2, <3>3, <3>4 DEF WriteBus, Writing, ReadBus, Reading, Answering
    <2>2. CASE MasterData
      <3>1. /\ busy /\ Head(todo).kind = "write" /\ state_write = "Wdata"
            /\ AWVALID' = AWVALID /\ ARVALID' = ARVALID
        BY <2>2 DEF MasterData
      <3>2. ~AWVALID /\ ~axi_bvalid /\ axi_awaddr = Head(todo).reg
            /\ state_read # "Rdata" /\ ~ARVALID
        BY <1>0, <3>1 DEF WriteBus, Writing, Answering, ReadBus, Reading
      <3>3. /\ state_write' = state_write /\ axi_bvalid' = axi_bvalid
            /\ state_read' = state_read /\ axi_awaddr' = axi_awaddr
        BY <1>2 DEF slaveVars, writeFsm, readFsm
      <3> QED BY <1>2, <3>1, <3>2, <3>3 DEF WriteBus, Writing, ReadBus, Reading, Answering
    <2> QED BY <2>1, <2>2
  <1>6. Flushed' /\ Recent'
    <2>1. /\ pulse_count' = pulse_count /\ Rise' = Rise /\ COUNT_DATA' = COUNT_DATA
          /\ slv_reg' = slv_reg /\ state_read' = state_read
          /\ pulses' = pulses /\ free' = free /\ atStart' = atStart
      BY <1>2 DEF counterVars, sampler, Rise, CountRise, slaveVars, readFsm, ghosts
    <2>2. Flushed'
      BY <1>0, <1>2, <1>5, <2>1 DEF Flushed
    <2> QED BY <1>0, <1>2, <2>1, <2>2 DEF Recent
  <1> QED BY <1>3, <1>4, <1>5, <1>6 DEF IInv

-----------------------------------------------------------------------------
(* A clock edge *)

\* The counter: what is sampled now is counted at the next edge, and no two
\* successive edges sample a pulse.
LEMMA CounterEdge ==
    ASSUME CounterTypeOK, NEW btn \in BOOLEAN, NEW sig \in BOOLEAN, NEW trig, NEW d, NEW w,
           Clock(btn, sig, trig, d, w, Clearing, Gated)
    PROVE  /\ Rise' = IF Pulse(btn, sig) THEN 1 ELSE 0
           /\ Rise \in 0 .. 1 /\ Rise + Rise' <= 1
           /\ pulse_count \in Nat /\ pulse_count' \in Nat /\ pulse_count' <= pulse_count + Rise
           /\ COUNT_DATA' = pulse_count
           /\ btn \/ Clearing => pulse_count' = 0
           /\ ~(btn \/ Clearing \/ Gated) /\ pulse_count + Rise < WordSize
                 => pulse_count' = pulse_count + Rise
  <1>0. pulse_count \in Word /\ WordSize \in Nat /\ WordSize > 3
        /\ count_state \in BOOLEAN /\ count_state_prev \in BOOLEAN
    BY Numbers DEF CounterTypeOK
  <1>1. /\ COUNT_DATA' = pulse_count
        /\ count_state' = (~btn /\ sig) /\ count_state_prev' = (~btn /\ count_state)
        /\ pulse_count' = IF btn \/ Clearing THEN 0
                          ELSE IF CountRise /\ (Gated => isTrigger) THEN Inc(pulse_count)
                          ELSE pulse_count
    BY DEF Clock, OutputData, SampleInputs, CountPulses
  <1>2. CountRise' <=> Pulse(btn, sig)
    BY <1>0, <1>1 DEF CountRise, Pulse
  <1>3. Rise' = IF Pulse(btn, sig) THEN 1 ELSE 0
    BY <1>2 DEF Rise
  <1>4. Rise \in 0 .. 1 /\ Rise + Rise' <= 1
    BY <1>0, <1>3 DEF Rise, CountRise, Pulse
  <1>5. pulse_count \in Nat /\ Inc(pulse_count) \in Nat /\ Inc(pulse_count) <= pulse_count + 1
        /\ (pulse_count + 1 < WordSize => Inc(pulse_count) = pulse_count + 1)
    BY <1>0 DEF Word, Inc
  <1>6. pulse_count' \in Nat /\ pulse_count' <= pulse_count + Rise
    BY <1>1, <1>5 DEF Rise
  <1>7. ASSUME ~(btn \/ Clearing \/ Gated), pulse_count + Rise < WordSize
        PROVE  pulse_count' = pulse_count + Rise
    BY <1>1, <1>5, <1>7 DEF Rise
  <1> QED BY <1>1, <1>3, <1>4, <1>5, <1>6, <1>7

\* What the head of todo is for the slave: the operation on the bus, or nothing.
OnBus == IF busy THEN Head(todo) ELSE NoOp

\* The read half of the bus: the address is taken, then the data.
LEMMA ReadEdge ==
    ASSUME IInv, NEW ready \in BOOLEAN, ReadFsm(ARVALID, OnBus.reg, ready),
           ARVALID' = (ARVALID /\ ~axi_arready)
    PROVE  /\ state_read' \in {"Raddr", "Rdata"} /\ axi_araddr' \in Regs
           /\ axi_arready' = (state_read' = "Raddr") /\ axi_rvalid' = (state_read' = "Rdata")
           /\ ARVALID' \in BOOLEAN
           /\ ~Reading => state_read' = "Raddr" /\ ~ARVALID' /\ ~axi_rvalid
           /\ Reading /\ axi_rvalid /\ ready =>
                 state_read' = "Raddr" /\ ~ARVALID' /\ state_read = "Rdata"
           /\ Reading /\ ~(axi_rvalid /\ ready) =>
                 IF ARVALID' THEN state_read' = "Raddr"
                 ELSE state_read' = "Rdata" /\ axi_araddr' = Head(todo).reg
  <1>0. /\ TypeOK /\ Queued /\ ReadBus
        /\ axi_arready = (state_read = "Raddr") /\ axi_rvalid = (state_read = "Rdata")
        /\ state_read \in {"Idle", "Raddr", "Rdata"} /\ axi_araddr \in Regs
        /\ ARVALID \in BOOLEAN /\ busy \in BOOLEAN
    BY DEF IInv, TypeOK, SlaveTypeOK, Ready
  <1>1. HeadKinds
    BY <1>0, HeadKind DEF TypeOK
  <1>2. OnBus.reg \in Regs
    BY <1>0, <1>1 DEF OnBus, NoOp, HeadKinds, Queued, Regs
  <1>3. Reading => OnBus.reg = Head(todo).reg
    BY DEF OnBus, Reading
  <1>4. CASE ReadStart
    BY <1>0, <1>4 DEF ReadStart, ReadBus
  <1>5. CASE ReadAddress(ARVALID, OnBus.reg)
    BY <1>0, <1>2, <1>3, <1>5 DEF ReadAddress, ReadBus, readFsm
  <1>6. CASE ReadData(ready)
    BY <1>0, <1>6 DEF ReadData, ReadBus, readFsm
  <1> QED BY <1>4, <1>5, <1>6 DEF ReadFsm

\* The write half of the bus: the address is taken, with its data or before,
\* and the response comes when the register is written.  Only the register
\* that is being written changes, besides the count.
LEMMA WriteEdge ==
    ASSUME IInv, NEW ready \in BOOLEAN, WriteFsm(AWVALID, OnBus.reg, WVALID, ready),
           Registers(AWVALID, OnBus.reg, WVALID, OnBus.data, COUNT_DATA),
           AWVALID' = (AWVALID /\ ~axi_awready), WVALID' = (WVALID /\ ~axi_wready)
    PROVE  /\ state_write' \in {"Waddr", "Wdata"} /\ axi_awaddr' \in Regs
           /\ axi_awready' = (state_write' = "Waddr") /\ axi_wready' = TRUE
           /\ axi_bvalid' \in BOOLEAN /\ AWVALID' \in BOOLEAN /\ WVALID' \in BOOLEAN
           /\ slv_reg' \in [Regs -> Word] /\ slv_reg'[CountReg] = COUNT_DATA
           /\ \A r \in Settable : slv_reg'[r] = slv_reg[r] \/ (Writing /\ Head(todo).reg = r)
           /\ ~Writing => state_write' = "Waddr" /\ ~AWVALID' /\ ~WVALID' /\ ~axi_bvalid'
           /\ Writing /\ Answering =>
                 /\ state_write' = "Waddr" /\ ~AWVALID' /\ ~WVALID' /\ axi_bvalid' = ~ready
                 /\ slv_reg[Head(todo).reg] = Head(todo).data
                 /\ slv_reg'[Head(todo).reg] = Head(todo).data
           /\ Writing /\ ~Answering =>
                 \/ state_write' # "Wdata" /\ AWVALID' /\ ~axi_bvalid'
                 \/ /\ state_write' = "Wdata" /\ ~AWVALID' /\ ~axi_bvalid'
                    /\ axi_awaddr' = Head(todo).reg
                 \/ /\ state_write' = "Waddr" /\ axi_bvalid' /\ ~AWVALID' /\ ~WVALID'
                    /\ slv_reg'[Head(todo).reg] = Head(todo).data
  <1>0. /\ TypeOK /\ Queued /\ WriteBus
        /\ axi_awready = (state_write = "Waddr") /\ axi_wready = (state_write # "Idle")
        /\ state_write \in {"Idle", "Waddr", "Wdata"} /\ axi_awaddr \in Regs
        /\ axi_bvalid \in BOOLEAN /\ AWVALID \in BOOLEAN /\ WVALID \in BOOLEAN
        /\ busy \in BOOLEAN /\ COUNT_DATA \in Word /\ slv_reg \in [Regs -> Word]
    BY DEF IInv, TypeOK, SlaveTypeOK, CounterTypeOK, Ready
  <1>1. HeadKinds
    BY <1>0, HeadKind DEF TypeOK
  <1>2. OnBus.reg \in Regs /\ OnBus.data \in Word
    BY <1>0, <1>1, Numbers DEF OnBus, NoOp, HeadKinds, Queued, Regs
  <1>3. Writing => /\ OnBus = Head(todo) /\ Head(todo).reg \in Settable
                   /\ Head(todo).reg \in Regs /\ Head(todo).reg # CountReg
    BY <1>0, <1>1 DEF OnBus, Writing, HeadKinds, Queued, Settable
  <1>4. /\ slv_reg' \in [Regs -> Word] /\ slv_reg'[CountReg] = COUNT_DATA
        /\ \A r \in Settable :
              slv_reg'[r] = IF WVALID /\ r = WriteSelect(AWVALID, OnBus.reg) THEN OnBus.data
                            ELSE slv_reg[r]
    BY <1>0, <1>2, Numbers DEF Registers, Settable
  <1>5. WVALID => Writing /\ WriteSelect(AWVALID, OnBus.reg) = Head(todo).reg
    BY <1>0, <1>3 DEF WriteBus, WriteSelect, Answering
  <1>6. \A r \in Settable : slv_reg'[r] = slv_reg[r] \/ (Writing /\ Head(todo).reg = r)
    BY <1>4, <1>5
  <1>7. WVALID => slv_reg'[Head(todo).reg] = Head(todo).data
    BY <1>3, <1>4, <1>5
  <1>8. ~WVALID => \A r \in Settable : slv_reg'[r] = slv_reg[r]
    BY <1>4
  <1> DEFINE Fsm ==
         /\ state_write' \in {"Waddr", "Wdata"} /\ axi_awaddr' \in Regs
         /\ axi_awready' = (state_write' = "Waddr") /\ axi_wready' = TRUE
         /\ axi_bvalid' \in BOOLEAN
         /\ ~Writing => state_write' = "Waddr" /\ ~axi_bvalid'
         /\ Writing /\ Answering => state_write' = "Waddr" /\ axi_bvalid' = ~ready
         /\ Writing /\ ~Answering =>
               \/ state_write' # "Wdata" /\ AWVALID' /\ ~axi_bvalid'
               \/ /\ state_write' = "Wdata" /\ ~AWVALID' /\ ~axi_bvalid'
                  /\ axi_awaddr' = Head(todo).reg
               \/ state_write' = "Waddr" /\ axi_bvalid' /\ ~AWVALID' /\ ~WVALID' /\ WVALID
  <1>9. Fsm
    <2>1. CASE WriteStart
      BY <1>0, <2>1 DEF WriteStart, WriteBus, Answering
    <2>2. CASE WriteAddress(AWVALID, OnBus.reg, WVALID, ready)
      BY <1>0, <1>2, <1>3, <2>2
      DEF WriteAddress, AcceptAddress, Responded, WriteBus, Answering
    <2>3. CASE WriteData(WVALID, ready)
      BY <1>0, <2>3 DEF WriteData, Responded, WriteBus, Answering
    <2> QED BY <2>1, <2>2, <2>3 DEF WriteFsm
  <1>10. AWVALID' \in BOOLEAN /\ WVALID' \in BOOLEAN
    BY <1>0
  <1>11. (~Writing \/ Answering) => ~AWVALID /\ ~WVALID /\ ~AWVALID' /\ ~WVALID'
    BY <1>0 DEF WriteBus, Answering
  <1>12. Writing /\ Answering => /\ slv_reg[Head(todo).reg] = Head(todo).data
                                 /\ slv_reg'[Head(todo).reg] = Head(todo).data
    BY <1>0, <1>3, <1>8, <1>11 DEF WriteBus, Answering
  <1> QED BY <1>4, <1>6, <1>7, <1>9, <1>10, <1>11, <1>12

\* An edge of the clock keeps the invariant.
LEMMA EdgeStep ==
    ASSUME IInv, NEW ready \in BOOLEAN, Edge(ready)
    PROVE  IInv'
  <1>1. PICK btn \in BOOLEAN, sig \in BOOLEAN, trig \in TriggerLevels :
           ClockEdge(btn, sig, trig, ready, ready)
    BY DEF Edge
  <1>0. TypeOK /\ Queued /\ Settled /\ Ready /\ WriteBus /\ ReadBus /\ Flushed /\ Recent
    BY DEF IInv
  <1> DEFINE bdone == axi_bvalid /\ ready /\ busy /\ ~AWVALID /\ ~WVALID
             rdone == axi_rvalid /\ ready
             void == btn \/ Clearing \/ Gated
  <1> PICK sampled \in {0, 1} : sampled = IF Pulse(btn, sig) THEN 1 ELSE 0
    OBVIOUS
  <1>2. /\ WriteFsm(AWVALID, OnBus.reg, WVALID, ready)
        /\ Registers(AWVALID, OnBus.reg, WVALID, OnBus.data, COUNT_DATA)
        /\ ReadFsm(ARVALID, OnBus.reg, ready)
        /\ Clock(btn, sig, trig, slv_reg[DelayReg], slv_reg[WidthReg], Clearing, Gated)
        /\ Pulse(btn, sig) => pulses < MaxPulses
        /\ pulse_counter_config' = pulse_counter_config /\ issued' = issued
    BY <1>1 DEF ClockEdge, OnBus
  <1>3. /\ AWVALID' = (AWVALID /\ ~axi_awready) /\ WVALID' = (WVALID /\ ~axi_wready)
        /\ ARVALID' = (ARVALID /\ ~axi_arready) /\ busy' = (busy /\ ~bdone /\ ~rdone)
        /\ todo' = (IF bdone \/ rdone THEN Tail(todo) ELSE todo)
        /\ reply' = (IF rdone THEN S_AXI_RDATA ELSE reply)
    BY <1>1 DEF ClockEdge, MasterClock
  <1>4. /\ pulses' = pulses + sampled /\ free' = (IF void THEN 0 ELSE free + sampled)
        /\ atStart' = (IF void THEN 0 ELSE atStart) /\ want' = want
    BY <1>1 DEF ClockEdge, MeasurePulses
  <1>5. HeadKinds
    BY <1>0, HeadKind DEF TypeOK
  <1>6. /\ Rise' = sampled /\ Rise \in 0 .. 1 /\ Rise + Rise' <= 1
        /\ pulse_count \in Nat /\ pulse_count' \in Nat /\ pulse_count' <= pulse_count + Rise
        /\ COUNT_DATA' = pulse_count
        /\ btn \/ Clearing => pulse_count' = 0
        /\ ~void /\ pulse_count + Rise < WordSize => pulse_count' = pulse_count + Rise
    BY <1>0, <1>2, CounterEdge DEF TypeOK
  <1>7. CounterTypeOK'
    <2>1. trig \in BOOLEAN /\ Clearing \in BOOLEAN /\ Gated \in BOOLEAN
      BY Numbers DEF Clearing, Gated, Bit0, Bit1
    <2> QED BY <1>0, <1>2, <2>1, ClockType DEF TypeOK
  <1> HIDE DEF bdone, rdone, void
  <1>8. /\ state_read' \in {"Raddr", "Rdata"} /\ axi_araddr' \in Regs
        /\ axi_arready' = (state_read' = "Raddr") /\ axi_rvalid' = (state_read' = "Rdata")
        /\ ARVALID' \in BOOLEAN
        /\ ~Reading => state_read' = "Raddr" /\ ~ARVALID' /\ ~rdone
        /\ Reading /\ rdone => state_read' = "Raddr" /\ ~ARVALID' /\ state_read = "Rdata"
        /\ Reading /\ ~rdone => IF ARVALID' THEN state_read' = "Raddr"
                                ELSE state_read' = "Rdata" /\ axi_araddr' = Head(todo).reg
    BY <1>2, <1>3, ReadEdge DEF rdone
  <1> DEFINE Landing ==
         /\ state_write' = "Waddr" /\ axi_bvalid' /\ ~AWVALID' /\ ~WVALID'
         /\ slv_reg'[Head(todo).reg] = Head(todo).data
  <1>9. /\ state_write' \in {"Waddr", "Wdata"} /\ axi_awaddr' \in Regs
        /\ axi_awready' = (state_write' = "Waddr") /\ axi_wready' = TRUE
        /\ axi_bvalid' \in BOOLEAN /\ AWVALID' \in BOOLEAN /\ WVALID' \in BOOLEAN
        /\ slv_reg' \in [Regs -> Word] /\ slv_reg'[CountReg] = COUNT_DATA
        /\ \A r \in Settable : slv_reg'[r] = slv_reg[r] \/ (Writing /\ Head(todo).reg = r)
        /\ ~Writing => state_write' = "Waddr" /\ ~AWVALID' /\ ~WVALID' /\ ~axi_bvalid'
        /\ Writing /\ Answering =>
              /\ state_write' = "Waddr" /\ ~AWVALID' /\ ~WVALID' /\ axi_bvalid' = ~ready
              /\ slv_reg[Head(todo).reg] = Head(todo).data
              /\ slv_reg'[Head(todo).reg] = Head(todo).data
        /\ Writing /\ ~Answering =>
              \/ state_write' # "Wdata" /\ AWVALID' /\ ~axi_bvalid'
              \/ /\ state_write' = "Wdata" /\ ~AWVALID' /\ ~axi_bvalid'
                 /\ axi_awaddr' = Head(todo).reg
              \/ Landing
    BY <1>2, <1>3, WriteEdge
  <1>10. bdone <=> Writing /\ Answering /\ ready
    BY <1>0 DEF bdone, WriteBus, Writing, Answering
  <1>11. rdone => Reading /\ ~Writing /\ state_read = "Rdata" /\ ~ARVALID
                  /\ axi_araddr = CountReg /\ todo' = <<>> /\ reply' = slv_reg[CountReg]
    <2>1. rdone => Reading /\ state_read = "Rdata"
      BY <1>8
    <2>2. Reading => ~Writing /\ todo # <<>> /\ Head(todo).kind = "read"
      BY <1>0 DEF Reading, Writing, Queued
    <2> QED BY <1>0, <1>3, <1>5, <2>1, <2>2 DEF ReadBus, HeadKinds, S_AXI_RDATA
  <1>12. /\ ~bdone /\ ~rdone => todo' = todo /\ busy' = busy /\ reply' = reply
         /\ bdone \/ rdone => ~busy'
         /\ bdone => ~rdone /\ reply' = reply /\ todo' = Tail(todo)
    BY <1>0, <1>3, <1>10, <1>11 DEF TypeOK
  <1>13. Writing => todo # <<>> /\ Head(todo).kind = "write"
    BY <1>0 DEF Writing, Queued
  <1>14. bdone => /\ Len(todo) = 1 => todo' = <<>>
                  /\ Len(todo) # 1 =>
                        /\ Len(todo) = 2
                        /\ Head(todo) = Write(ConfigReg, pulse_counter_config + 1)
                        /\ todo' = <<Write(ConfigReg, pulse_counter_config)>>
    <2> SUFFICES ASSUME bdone
                 PROVE  /\ Len(todo) = 1 => todo' = <<>>
                        /\ Len(todo) # 1 =>
                              /\ Len(todo) = 2
                              /\ Head(todo) = Write(ConfigReg, pulse_counter_config + 1)
                              /\ todo' = <<Write(ConfigReg, pulse_counter_config)>>
      OBVIOUS
    <2>1. todo # <<>> /\ Head(todo).kind = "write" /\ todo' = Tail(todo)
      BY <1>10, <1>12, <1>13
    <2>2. Len(todo) # 1 => Len(todo) = 2
      BY <1>5, <2>1 DEF HeadKinds
    <2>3. /\ Len(todo) = 1 => Tail(todo) = <<>>
          /\ Len(todo) = 2 => /\ Head(todo) = Write(ConfigReg, pulse_counter_config + 1)
                              /\ Tail(todo) = <<Write(ConfigReg, pulse_counter_config)>>
      BY <1>5, <2>1, Zenon DEF HeadKinds
    <2> QED BY <2>1, <2>2, <2>3
  <1>15. Queued'
    <2>1. IsCommand(todo', want', pulse_counter_config')
      <3>1. CASE ~bdone /\ ~rdone
        BY <1>0, <1>2, <1>4, <1>12, <3>1 DEF Queued
      <3>2. CASE todo' = <<>>
        BY <3>2 DEF IsCommand
      <3>3. CASE todo' = <<Write(ConfigReg, pulse_counter_config)>>
        <4>1. todo' = <<Write(ConfigReg, want'[ConfigReg])>>
          BY <1>0, <1>4, <3>3 DEF Queued
        <4> QED BY <4>1, Numbers DEF IsCommand
      <3> QED BY <1>11, <1>14, <3>1, <3>2, <3>3
    <2> QED BY <1>0, <1>2, <1>4, <1>12, <2>1 DEF Queued
  <1>16. TypeOK'
    <2>1. want' \in [Regs -> Word] /\ pulse_counter_config' \in {0, 2}
          /\ issued' \in 0 .. MaxCommands
      BY <1>0, <1>2, <1>4 DEF TypeOK
    <2>2. /\ \A i \in DOMAIN todo' : todo'[i].reg \in Regs /\ todo'[i].data \in Word
          /\ Len(todo') <= 2
      <3>1. IsCommand(todo', want', pulse_counter_config')
        BY <1>15 DEF Queued
      <3> QED BY <2>1, <3>1, CommandType
    <2>3. reply' \in Word \cup {None}
      <3>1. slv_reg[CountReg] \in Word /\ reply \in Word \cup {None}
        BY <1>0, Numbers DEF TypeOK, SlaveTypeOK
      <3> QED BY <1>11, <1>12, <3>1
    <2>4. SlaveTypeOK(Word)'
      BY <1>8, <1>9 DEF SlaveTypeOK
    <2>5. busy' \in BOOLEAN
      BY <1>3
    <2> QED BY <1>7, <1>8, <1>9, <2>1, <2>2, <2>3, <2>4, <2>5 DEF TypeOK
  <1>17. Settled'
    <2> SUFFICES ASSUME NEW r \in Settable, ~Unsettled(r)' PROVE slv_reg'[r] = want[r]
      BY <1>4 DEF Settled
    <2>1. CASE ~Unsettled(r)
      BY <1>0, <1>9, <1>13, <2>1 DEF Settled, Unsettled
    <2>2. CASE Unsettled(r)
      <3>1. bdone
        <4>1. ~(~bdone /\ ~rdone)
          BY <1>12, <2>2 DEF Unsettled
        <4>2. ~rdone
          BY <1>11, <2>2 DEF Unsettled, Reading
        <4> QED BY <4>1, <4>2
      <3>2. Len(todo) = 1
        <4> SUFFICES ASSUME Len(todo) # 1 PROVE FALSE
          OBVIOUS
        <4>1. /\ Head(todo) = Write(ConfigReg, pulse_counter_config + 1)
              /\ todo' = <<Write(ConfigReg, pulse_counter_config)>>
          BY <1>14, <3>1
        <4>2. r = ConfigReg
          BY <2>2, <4>1 DEF Unsettled, Write
        <4>3. todo' # <<>> /\ Head(todo') = Write(ConfigReg, pulse_counter_config)
          BY <4>1, OneOp
        <4> QED BY <4>2, <4>3 DEF Unsettled, Write
      <3>3. slv_reg'[r] = Head(todo).data
        BY <1>9, <1>10, <2>2, <3>1 DEF Unsettled
      <3> QED BY <1>5, <2>2, <3>2, <3>3 DEF Unsettled, HeadKinds
    <2> QED BY <2>1, <2>2
  <1>18. Ready'
    BY <1>8, <1>9 DEF Ready
  <1>19. Writing' => ~bdone /\ ~rdone /\ Writing /\ todo' = todo
    BY <1>0, <1>12 DEF Writing
  <1>20. Reading' => ~bdone /\ ~rdone /\ Reading /\ todo' = todo
    BY <1>0, <1>12 DEF Reading
  <1>21. WriteBus'
    <2>1. CASE Writing'
      <3>1. CASE Answering
        BY <1>9, <1>10, <1>19, <2>1, <3>1 DEF WriteBus, Answering
      <3>2. CASE ~Answering
        BY <1>9, <1>19, <2>1, <3>2 DEF WriteBus, Answering
      <3> QED BY <3>1, <3>2
    <2>2. CASE ~Writing'
      <3>1. ~Writing \/ bdone
        BY <1>11, <1>12, <2>2 DEF Writing
      <3> QED BY <1>9, <1>10, <2>2, <3>1 DEF WriteBus
    <2> QED BY <2>1, <2>2
  <1>22. ReadBus'
    <2>1. CASE Reading'
      BY <1>8, <1>20, <2>1 DEF ReadBus
    <2>2. CASE ~Reading'
      <3>1. ~Reading \/ rdone
        <4>1. Reading => ~bdone
          BY <1>10, <1>13 DEF Reading
        <4> QED BY <1>12, <2>2, <4>1 DEF Reading
      <3> QED BY <1>8, <2>2, <3>1 DEF ReadBus
    <2> QED BY <2>1, <2>2
  <1>23. /\ sampled \in 0 .. 1 /\ pulses \in 0 .. MaxPulses /\ pulses' \in 0 .. MaxPulses
         /\ pulses' = pulses + sampled /\ MaxPulses \in Nat
         /\ COUNT_DATA \in Nat /\ slv_reg[CountReg] \in Nat
    <2>1. sampled = 1 => Pulse(btn, sig)
      OBVIOUS
    <2>2. sampled \in 0 .. 1
      OBVIOUS
    <2>3. COUNT_DATA \in Nat /\ slv_reg[CountReg] \in Nat
      BY <1>0, Numbers DEF TypeOK, CounterTypeOK, SlaveTypeOK, Word
    <2> QED BY <1>0, <1>2, <1>4, <2>1, <2>2, <2>3, Numbers DEF Flushed
  <1>24. Flushed'
    <2>0. /\ pulse_count + Rise <= MaxPulses + pulses
          /\ Len(todo) # 2 => pulse_count + Rise <= pulses
      BY <1>0 DEF Flushed
    <2>a. PICK count \in Nat : pulse_count' = count
      BY <1>6
    <2>1. pulse_count' + Rise' <= MaxPulses + pulses'
      <3>1. count <= pulse_count + Rise
        BY <1>6, <2>a
      <3>2. count + sampled <= MaxPulses + (pulses + sampled)
        BY <1>6, <1>23, <2>0, <3>1
      <3> QED BY <1>6, <1>23, <2>a, <3>2
    <2>2. Len(todo) # 2 => pulse_count' + Rise' <= pulses' /\ pulse_count <= pulses'
      <3> SUFFICES ASSUME Len(todo) # 2
                   PROVE  pulse_count' + Rise' <= pulses' /\ pulse_count <= pulses'
        OBVIOUS
      <3>1. count <= pulse_count + Rise /\ pulse_count + Rise <= pulses
        BY <1>6, <2>0, <2>a
      <3>2. count + sampled <= pulses + sampled /\ pulse_count <= pulses + sampled
        BY <1>6, <1>23, <3>1
      <3> QED BY <1>6, <1>23, <2>a, <3>2
    <2>3. Len(todo) = 2 /\ Len(todo') # 2 => pulse_count' + Rise' <= pulses'
      <3> SUFFICES ASSUME Len(todo) = 2, Len(todo') # 2 PROVE pulse_count' + Rise' <= pulses'
        OBVIOUS
      <3>1. bdone
        BY <1>5, <1>11, <1>12 DEF HeadKinds, Reading
      <3>2. Head(todo) = Write(ConfigReg, pulse_counter_config + 1)
            /\ slv_reg[Head(todo).reg] = Head(todo).data
        BY <1>9, <1>10, <1>14, <3>1
      <3>3. slv_reg[ConfigReg] = pulse_counter_config + 1
        BY <3>2 DEF Write
      <3>4. Clearing
        <4>1. pulse_counter_config \in {0, 2}
          BY <1>0 DEF TypeOK
        <4> QED BY <3>3, <4>1 DEF Clearing, Bit0
      <3>5. pulse_count' = 0 /\ Rise' = sampled
        BY <1>6, <3>4
      <3>6. 0 + sampled <= pulses + sampled
        BY <1>23
      <3> QED BY <1>23, <3>5, <3>6
    <2>4. Len(todo) = 2 => /\ todo' # <<>> /\ Head(todo').kind = "write"
                           /\ ~(Len(todo') = 1 /\ Answering')
      <3> SUFFICES ASSUME Len(todo) = 2
                   PROVE  /\ todo' # <<>> /\ Head(todo').kind = "write"
                          /\ ~(Len(todo') = 1 /\ Answering')
        OBVIOUS
      <3>1. todo # <<>> /\ Head(todo).kind = "write"
        BY <1>5 DEF HeadKinds
      <3>2. CASE bdone
        <4>1. todo' = <<Write(ConfigReg, pulse_counter_config)>> /\ ~axi_bvalid'
          BY <1>9, <1>10, <1>14, <3>2
        <4>2. todo' # <<>> /\ Head(todo') = Write(ConfigReg, pulse_counter_config)
          BY <4>1, OneOp
        <4> QED BY <4>1, <4>2 DEF Write, Answering
      <3>3. CASE ~bdone
        BY <1>11, <1>12, <3>1, <3>3 DEF Reading
      <3> QED BY <3>2, <3>3
    <2>5. (todo' = <<>> \/ Head(todo').kind = "read" \/ (Len(todo') = 1 /\ Answering'))
             => COUNT_DATA' <= pulses'
      BY <1>6, <2>2, <2>4
    <2>6. (todo' = <<>> \/ Head(todo').kind = "read") => slv_reg'[CountReg] <= pulses'
      <3> SUFFICES ASSUME todo' = <<>> \/ Head(todo').kind = "read"
                   PROVE  COUNT_DATA <= pulses
        BY <1>9, <1>23
      <3>1. CASE ~bdone /\ ~rdone
        BY <1>0, <1>12, <3>1 DEF Flushed
      <3>2. CASE rdone
        BY <1>0, <1>11, <3>2 DEF Flushed, Reading
      <3>3. CASE bdone
        <4>1. Len(todo) = 1 /\ Answering
          BY <1>10, <1>14, <2>4, <3>3
        <4> QED BY <1>0, <4>1 DEF Flushed
      <3> QED BY <3>1, <3>2, <3>3
    <2>7. reply' # None => reply' <= pulses'
      <3>1. CASE rdone
        <4>1. reply' = slv_reg[CountReg] /\ Head(todo).kind = "read"
          BY <1>11, <3>1 DEF Reading
        <4>2. slv_reg[CountReg] <= pulses
          BY <1>0, <4>1 DEF Flushed
        <4> QED BY <1>23, <4>1, <4>2
      <3>2. CASE ~rdone
        <4>1. reply' = reply
          BY <1>12, <3>2
        <4>2. reply # None => reply \in Nat
          BY <1>0, Numbers DEF TypeOK, Word
        <4> QED BY <1>0, <1>23, <4>1, <4>2 DEF Flushed
      <3> QED BY <3>1, <3>2
    <2>8. Len(todo') # 2 => pulse_count' + Rise' <= pulses'
      BY <2>2, <2>3
    <2> QED BY <1>23, <2>1, <2>5, <2>6, <2>7, <2>8 DEF Flushed
  <1>25. Recent'
    <2>0. /\ free \in Nat /\ atStart \in 0 .. free /\ free <= pulse_count + Rise
          /\ free <= COUNT_DATA + 1
          /\ state_read = "Rdata" => atStart <= slv_reg[CountReg] + 1
          /\ reply # None => atStart <= reply + 1
      BY <1>0 DEF Recent
    <2>1. reply' # None => reply' \in Nat
      BY <1>16, Numbers DEF TypeOK, Word
    <2>2. CASE void
      <3>1. free' = 0 /\ atStart' = 0
        BY <1>4, <2>2
      <3>2. free' <= pulse_count' + Rise' /\ free' <= COUNT_DATA' + 1
        <4>1. PICK count \in Nat : pulse_count' = count
          BY <1>6
        <4>2. 0 <= count + sampled
          BY <1>23
        <4>3. free' <= pulse_count' + Rise'
          BY <1>6, <3>1, <4>1, <4>2
        <4>4. free' <= COUNT_DATA' + 1
          BY <1>6, <3>1
        <4> QED BY <4>3, <4>4
      <3>3. atStart' <= slv_reg'[CountReg] + 1 /\ (reply' # None => atStart' <= reply' + 1)
        BY <1>9, <1>23, <2>1, <3>1
      <3> QED BY <3>1, <3>2, <3>3 DEF Recent
    <2>3. CASE ~void
      <3>1. free' = free + sampled /\ atStart' = atStart
        BY <1>4, <2>3
      <3>2. pulse_count + Rise < WordSize
        BY <1>0, <1>6, <1>23, Numbers DEF Flushed
      <3>3. pulse_count' = pulse_count + Rise
        BY <1>6, <2>3, <3>2
      <3>4. free' \in Nat /\ atStart' \in 0 .. free' /\ free' <= pulse_count' + Rise'
        BY <1>6, <1>23, <2>0, <3>1, <3>3
      <3>5. free' <= COUNT_DATA' + 1
        BY <1>6, <1>23, <2>0, <3>1
      <3>6. atStart' <= slv_reg'[CountReg] + 1
        BY <1>9, <1>23, <2>0, <3>1
      <3>7. reply' # None => atStart' <= reply' + 1
        BY <1>11, <1>12, <2>0, <3>1
      <3> QED BY <3>4, <3>5, <3>6, <3>7 DEF Recent
    <2> QED BY <2>2, <2>3
  <1> QED BY <1>15, <1>16, <1>17, <1>18, <1>21, <1>22, <1>24, <1>25 DEF IInv

-----------------------------------------------------------------------------
(* The invariant holds *)

\* Configuration of the device and the power-up reset establish it.
LEMMA InvInit == Init => IInv
  <1> SUFFICES ASSUME Init PROVE IInv
    OBVIOUS
  <1> USE DEF Init, CounterInit, SlaveInit
  <1>1. TypeOK
    <2>1. CounterTypeOK
      BY Numbers DEF CounterTypeOK
    <2>2. SlaveTypeOK(Word)
      BY Numbers DEF SlaveTypeOK, Regs
    <2>3. /\ \A i \in DOMAIN todo : todo[i].reg \in Regs /\ todo[i].data \in Word
          /\ Len(todo) <= 2
      OBVIOUS
    <2>4. issued \in 0 .. MaxCommands /\ reply \in Word \cup {None} /\ want \in [Regs -> Word]
      BY Numbers
    <2>5. /\ pulse_counter_config \in {0, 2} /\ busy \in BOOLEAN /\ AWVALID \in BOOLEAN
          /\ WVALID \in BOOLEAN /\ ARVALID \in BOOLEAN
      OBVIOUS
    <2> QED BY <2>1, <2>2, <2>3, <2>4, <2>5, Zenon DEF TypeOK
  <1>2. Queued
    <2>1. want[ConfigReg] = pulse_counter_config
      BY Numbers DEF Settable
    <2> QED BY <2>1 DEF Queued, IsCommand
  <1>3. Settled /\ Ready /\ WriteBus /\ ReadBus
    BY DEF Settled, Settable, Ready, WriteBus, Writing, ReadBus, Reading
  <1>4. Rise = 0 /\ slv_reg[CountReg] = 0
    BY Numbers DEF Rise, CountRise
  <1>5. Flushed /\ Recent
    BY <1>4, Numbers DEF Flushed, Recent
  <1> QED BY <1>1, <1>2, <1>3, <1>5 DEF IInv

\* Commands, bus operations and clock edges keep it.
LEMMA InvNext == IInv /\ [Next]_vars => IInv'
  <1> SUFFICES ASSUME IInv, [Next]_vars PROVE IInv'
    OBVIOUS
  <1>1. CASE UNCHANGED vars
    <2>1. /\ UNCHANGED counterVars /\ UNCHANGED slaveVars /\ UNCHANGED master
          /\ UNCHANGED ghosts /\ todo' = todo /\ issued' = issued /\ reply' = reply
          /\ pulse_counter_config' = pulse_counter_config
      BY <1>1 DEF vars
    <2>2. TypeOK'
      BY <2>1 DEF IInv, TypeOK, CounterTypeOK, SlaveTypeOK, counterVars, sampler, gate,
          slaveVars, writeFsm, readFsm, master, ghosts
    <2>3. (Queued /\ Settled /\ Ready /\ WriteBus /\ ReadBus)'
      BY <2>1 DEF IInv, Queued, Settled, Unsettled, Ready, WriteBus, Writing, Answering,
          ReadBus, Reading, slaveVars, writeFsm, readFsm, master, ghosts
    <2>4. Flushed' /\ Recent'
      BY <2>1 DEF IInv, Flushed, Recent, Answering, Rise, CountRise, counterVars, sampler,
          slaveVars, writeFsm, readFsm, master, ghosts
    <2> QED BY <2>2, <2>3, <2>4 DEF IInv
  <1> QED BY <1>1, CommandStep, MasterStep, EdgeStep DEF Next

\* The inductive invariant holds in every reachable state.
LEMMA InvHolds == Spec => []IInv
  BY InvInit, InvNext, PTL DEF Spec

-----------------------------------------------------------------------------
(* What the commands promise *)

\* Registers hold words, and the firmware's copy of the configuration is the
\* mode bit alone, for every order and number of commands.
THEOREM TypeCorrect == Spec => []TypeOK
  <1>1. IInv => TypeOK
    BY DEF IInv
  <1> QED BY <1>1, InvHolds, PTL

\* Whenever a command has returned, each register holds the value last
\* commanded for it, whether the data came with its address or after it.
THEOREM WritesAlwaysLand == Spec => []WritesLand
  <1>1. ASSUME IInv PROVE WritesLand
    BY <1>1 DEF IInv, Settled, Unsettled, Settable, WritesLand
  <1> QED BY <1>1, InvHolds, PTL

\* GetCount after SetClrCount never returns a count of before the clear.
THEOREM ClearAlwaysSeen == Spec => []ClearIsSeen
  <1>1. ASSUME IInv PROVE ClearIsSeen
    BY <1>1 DEF IInv, Flushed, ClearIsSeen
  <1> QED BY <1>1, InvHolds, PTL

\* GetCount is at most one pulse behind what was counted when it was issued.
THEOREM CountAlwaysRecent == Spec => []CountIsRecent
  <1>1. ASSUME IInv PROVE CountIsRecent
    <2>1. reply # None => reply \in Nat /\ atStart \in Nat /\ atStart <= reply + 1
      BY <1>1, Numbers DEF IInv, TypeOK, Word, Recent
    <2> QED BY <2>1 DEF CountIsRecent
  <1> QED BY <1>1, InvHolds, PTL
=============================================================================
