---------------------------- MODULE AxiLiteSlave ----------------------------
(***************************************************************************)
(* The AXI4-Lite slave in front of the pulse counter,                      *)
(* pulse_counter_slave_lite_v1_0_S00_AXI.v.  As in PulseCounter, each      *)
(* always block is an action over its registers, and a clock edge is their *)
(* conjunction.  The slave is in reset only while the board powers up, so  *)
(* Init is the state the reset branches leave.                             *)
(*                                                                         *)
(* An address is the register number it selects (its bits 3:2); the word   *)
(* strobes are always all set (Xil_Out32).  BRESP and RRESP stay zero.     *)
(***************************************************************************)
EXTENDS Integers

VARIABLES
    state_write, axi_awready, axi_wready, axi_bvalid, axi_awaddr,   \* write FSM
    state_read, axi_arready, axi_rvalid, axi_araddr,                \* read FSM
    slv_reg                                                         \* slv_reg0 .. slv_reg3

writeFsm  == <<state_write, axi_awready, axi_wready, axi_bvalid, axi_awaddr>>
readFsm   == <<state_read, axi_arready, axi_rvalid, axi_araddr>>
slaveVars == <<writeFsm, readFsm, slv_reg>>

Regs     == 0 .. 3
CountReg == 0      \* SAXI_PULSE_COUNT_OFFSET
DelayReg == 1      \* SAXI_TRIGGER_DELAY_OFFSET
WidthReg == 2      \* SAXI_TRIGGER_WIDTH_OFFSET
ConfigReg == 3     \* SAXI_PULSE_CONFIG_OFFSET

SlaveTypeOK(Value) ==
    /\ state_write \in {"Idle", "Waddr", "Wdata"}
    /\ axi_awready \in BOOLEAN /\ axi_wready \in BOOLEAN /\ axi_bvalid \in BOOLEAN
    /\ axi_awaddr \in Regs
    /\ state_read \in {"Idle", "Raddr", "Rdata"}
    /\ axi_arready \in BOOLEAN /\ axi_rvalid \in BOOLEAN
    /\ axi_araddr \in Regs
    /\ slv_reg \in [Regs -> Value]

SlaveInit ==
    /\ state_write = "Idle" /\ axi_awaddr = 0
    /\ axi_awready = FALSE /\ axi_wready = FALSE /\ axi_bvalid = FALSE
    /\ state_read = "Idle" /\ axi_araddr = 0
    /\ axi_arready = FALSE /\ axi_rvalid = FALSE
    /\ slv_reg = [r \in Regs |-> 0]

-----------------------------------------------------------------------------
(* The write state machine.                                                 *)

WriteStart ==
    /\ state_write = "Idle"
    /\ state_write' = "Waddr" /\ axi_awready' = TRUE /\ axi_wready' = TRUE
    /\ UNCHANGED <<axi_bvalid, axi_awaddr>>

\* A response the master takes in this cycle is withdrawn.
Responded(BREADY) == axi_bvalid' = (axi_bvalid /\ ~BREADY)

\* Mutant: the address of a write is not kept for its data.
AcceptAddressForgets(AWADDR, WVALID, BREADY) ==
    /\ UNCHANGED axi_awaddr
    /\ IF WVALID
       THEN /\ axi_awready' = TRUE /\ state_write' = "Waddr" /\ axi_bvalid' = TRUE
       ELSE /\ axi_awready' = FALSE /\ state_write' = "Wdata" /\ Responded(BREADY)

AcceptAddress(AWADDR, WVALID, BREADY) ==
    /\ axi_awaddr' = AWADDR
    /\ IF WVALID
       THEN /\ axi_awready' = TRUE /\ state_write' = "Waddr" /\ axi_bvalid' = TRUE
       ELSE /\ axi_awready' = FALSE /\ state_write' = "Wdata" /\ Responded(BREADY)

WriteAddress(AWVALID, AWADDR, WVALID, BREADY) ==
    /\ state_write = "Waddr"
    /\ IF AWVALID /\ axi_awready
       THEN AcceptAddress(AWADDR, WVALID, BREADY)
       ELSE Responded(BREADY) /\ UNCHANGED <<axi_awaddr, axi_awready, state_write>>
    /\ UNCHANGED axi_wready

\* Mutant: the response is lost when the data comes after the address.
WriteDataSilent(WVALID, BREADY) ==
    /\ state_write = "Wdata"
    /\ Responded(BREADY)
    /\ state_write' = IF WVALID THEN "Waddr" ELSE "Wdata"
    /\ axi_awready' = (axi_awready \/ WVALID)
    /\ UNCHANGED <<axi_awaddr, axi_wready>>

WriteData(WVALID, BREADY) ==
    /\ state_write = "Wdata"
    /\ IF WVALID
       THEN /\ state_write' = "Waddr" /\ axi_bvalid' = TRUE /\ axi_awready' = TRUE
       ELSE Responded(BREADY) /\ UNCHANGED <<state_write, axi_awready>>
    /\ UNCHANGED <<axi_awaddr, axi_wready>>

WriteFsm(AWVALID, AWADDR, WVALID, BREADY) ==
    \/ WriteStart
    \/ WriteAddress(AWVALID, AWADDR, WVALID, BREADY)
    \/ WriteData(WVALID, BREADY)

-----------------------------------------------------------------------------
(* The registers.  The write enable is WVALID alone; register 0 follows the *)
(* counter and ignores writes.                                              *)

WriteSelect(AWVALID, AWADDR) == IF AWVALID THEN AWADDR ELSE axi_awaddr

Registers(AWVALID, AWADDR, WVALID, WDATA, COUNT_DATA) ==
    slv_reg' = [r \in Regs |->
                  IF r = CountReg THEN COUNT_DATA
                  ELSE IF WVALID /\ r = WriteSelect(AWVALID, AWADDR) THEN WDATA
                  ELSE slv_reg[r]]

-----------------------------------------------------------------------------
(* The read state machine.  S_AXI_RDATA is not registered: while a read     *)
(* waits for RREADY it follows the register.                                *)

S_AXI_RDATA == slv_reg[axi_araddr]

ReadStart ==
    /\ state_read = "Idle"
    /\ state_read' = "Raddr" /\ axi_arready' = TRUE
    /\ UNCHANGED <<axi_rvalid, axi_araddr>>

ReadAddress(ARVALID, ARADDR) ==
    /\ state_read = "Raddr"
    /\ IF ARVALID /\ axi_arready
       THEN /\ state_read' = "Rdata" /\ axi_araddr' = ARADDR
            /\ axi_rvalid' = TRUE /\ axi_arready' = FALSE
       ELSE UNCHANGED readFsm

ReadData(RREADY) ==
    /\ state_read = "Rdata"
    /\ IF axi_rvalid /\ RREADY
       THEN /\ axi_rvalid' = FALSE /\ axi_arready' = TRUE /\ state_read' = "Raddr"
            /\ UNCHANGED axi_araddr
       ELSE UNCHANGED readFsm

ReadFsm(ARVALID, ARADDR, RREADY) ==
    ReadStart \/ ReadAddress(ARVALID, ARADDR) \/ ReadData(RREADY)
=============================================================================
