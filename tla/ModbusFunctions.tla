--------------------------- MODULE ModbusFunctions ---------------------------
(***************************************************************************)
(* The function handlers (src/modbus/functions) and the address checks of  *)
(* the register callbacks (src/User/mb_task.c): for every request, is it   *)
(* carried out, with which exception is it refused, how long is the        *)
(* answer.  Operators only; RegisterMap has what a request does.           *)
(*                                                                         *)
(* A request is the header of its PDU: function code, address, count (the  *)
(* value, for the two functions that write one register or coil), byte     *)
(* count, and the address and count that function 23 writes; len is the    *)
(* length of the PDU, which need not go with the rest.                     *)
(***************************************************************************)
EXTENDS Integers

CONSTANTS
    reg_offset,         \* device_specific_reg_offset and ...
    reg_count           \* ... device_specific_reg_count of this device

ASSUME DeviceAssumption ==
    /\ reg_offset \in 0 .. 1000
    /\ reg_count \in 0 .. 100

USHRT_MAX == 65535
UCHAR_MAX == 255
USHORT    == 0 .. USHRT_MAX
UCHAR     == 0 .. UCHAR_MAX

(* The functions that have a handler. *)
FunctionCodes == {1, 2, 3, 4, 5, 6, 15, 16, 17, 23}

REG_INPUT_NREGS    == 40
COMMON_REG_COUNT   == 38
REG_COILS_NREGS    == 4
REG_DISCRETE_NREGS == 5

MB_PDU_FUNC_READ_COILCNT_MAX      == 2000
MB_PDU_FUNC_READ_DISCCNT_MAX      == 2000
MB_PDU_FUNC_WRITE_MUL_COILCNT_MAX == 1968
MB_PDU_FUNC_READ_REGCNT_MAX       == 125
MB_PDU_FUNC_WRITE_MUL_REGCNT_MAX  == 120
CoilValues == {0, 65280}        \* 0x0000 and 0xFF00

(* The handlers count addresses from 1; the sum is of 16 bits. *)
usRegAddress(addr) == (addr + 1) % 65536

-----------------------------------------------------------------------------
(* Which addresses and counts the callbacks accept.  Sums are of type int.  *)

InputAccepts(usAddress, usNRegs) ==
    usAddress >= 1 /\ usAddress + usNRegs <= 1 + REG_INPUT_NREGS

\* Mutant: the sum is of 16 bits.
HoldingAccepts_Wraps(usAddress, usNRegs) ==
    LET end == (usAddress + usNRegs) % 65536
    IN  \/ usAddress >= 1 /\ end <= COMMON_REG_COUNT
        \/ usAddress >= 100 + reg_offset /\ end <= reg_offset + 100 + reg_count + 1

HoldingAccepts(usAddress, usNRegs) ==
    \/ usAddress >= 1 /\ usAddress + usNRegs <= COMMON_REG_COUNT
    \/ /\ usAddress >= 100 + reg_offset
       /\ usAddress + usNRegs <= reg_offset + 100 + reg_count + 1

\* Mutant: the address is not brought back to 0.
CoilsAccept_FromOne(usAddress, usNCoils) == usAddress + usNCoils <= REG_COILS_NREGS

(* Coils and inputs go back to counting from 0. *)
CoilsAccept(usAddress, usNCoils) ==
    ((usAddress - 1) % 65536) + usNCoils <= REG_COILS_NREGS
DiscreteAccept(usAddress, usNDiscrete) ==
    ((usAddress - 1) % 65536) + usNDiscrete <= REG_DISCRETE_NREGS

-----------------------------------------------------------------------------
(* The handlers.  An exception is answered with two bytes (mb.c:399-405).     *)

Refusal(exception) == [exception |-> exception, length |-> 2]
Done(usLen) == [exception |-> "none", length |-> usLen]

Checked(valid, accepted, usLen) ==
    IF ~valid THEN Refusal("ILLEGAL_DATA_VALUE")
    ELSE IF ~accepted THEN Refusal("ILLEGAL_DATA_ADDRESS")
    ELSE Done(usLen)

(* The bytes that n bits take, as an UCHAR. *)
ucNBytes(n) == (IF n % 8 # 0 THEN n \div 8 + 1 ELSE n \div 8) % 256

ReadCoils(r) ==
    Checked(r.len = 5 /\ r.count >= 1 /\ r.count < MB_PDU_FUNC_READ_COILCNT_MAX,
            CoilsAccept(usRegAddress(r.addr), r.count), 2 + ucNBytes(r.count))

ReadDiscreteInputs(r) ==
    Checked(r.len = 5 /\ r.count >= 1 /\ r.count < MB_PDU_FUNC_READ_DISCCNT_MAX,
            DiscreteAccept(usRegAddress(r.addr), r.count), 2 + ucNBytes(r.count))

(* The high byte of the count is lost: "=" instead of "|=" (mbfuncholding.c:186). *)
ReadHoldingRegister(r) ==
    LET usRegCount == r.count % 256
    IN  Checked(r.len = 5 /\ usRegCount >= 1 /\ usRegCount <= MB_PDU_FUNC_READ_REGCNT_MAX,
                HoldingAccepts(usRegAddress(r.addr), usRegCount), 2 + 2 * usRegCount)

ReadInputRegister(r) ==
    Checked(r.len = 5 /\ r.count >= 1 /\ r.count < MB_PDU_FUNC_READ_REGCNT_MAX,
            InputAccepts(usRegAddress(r.addr), r.count), 2 + 2 * r.count)

WriteCoil(r) ==
    Checked(r.len = 5 /\ r.count \in CoilValues, CoilsAccept(usRegAddress(r.addr), 1), r.len)

WriteHoldingRegister(r) ==
    Checked(r.len = 5, HoldingAccepts(usRegAddress(r.addr), 1), r.len)

WriteMultipleCoils(r) ==
    Checked(/\ r.len > 5 /\ r.count >= 1 /\ r.count <= MB_PDU_FUNC_WRITE_MUL_COILCNT_MAX
            /\ ucNBytes(r.count) = r.bytes,
            CoilsAccept(usRegAddress(r.addr), r.count), 5)

WriteMultipleHoldingRegister(r) ==
    Checked(/\ r.len >= 6 /\ r.count >= 1 /\ r.count <= MB_PDU_FUNC_WRITE_MUL_REGCNT_MAX
            /\ r.bytes = (2 * r.count) % 256,
            HoldingAccepts(usRegAddress(r.addr), r.count), 5)

(* Writes first, then reads; a PDU that is too short is sent back as it is. *)
CountsValid(r) ==
    /\ r.count >= 1 /\ r.count <= 125 /\ r.wcount >= 1 /\ r.wcount <= 121
    /\ 2 * r.wcount = r.bytes
ReadWriteMultipleHoldingRegister(r) ==
    IF r.len < 10 THEN Done(r.len)
    ELSE Checked(CountsValid(r),
                 /\ HoldingAccepts(usRegAddress(r.waddr), r.wcount)
                 /\ HoldingAccepts(usRegAddress(r.addr), r.count),
                 2 + 2 * r.count)

(* No identification is ever set (eMBSetSlaveID has no caller): the function code alone. *)
ReportSlaveID == Done(1)

(* xFuncHandlers, and eMBPoll for a function without a handler *)
Handler(r) ==
    CASE r.fc = 1  -> ReadCoils(r)
      [] r.fc = 2  -> ReadDiscreteInputs(r)
      [] r.fc = 3  -> ReadHoldingRegister(r)
      [] r.fc = 4  -> ReadInputRegister(r)
      [] r.fc = 5  -> WriteCoil(r)
      [] r.fc = 6  -> WriteHoldingRegister(r)
      [] r.fc = 15 -> WriteMultipleCoils(r)
      [] r.fc = 16 -> WriteMultipleHoldingRegister(r)
      [] r.fc = 17 -> ReportSlaveID
      [] r.fc = 23 -> ReadWriteMultipleHoldingRegister(r)
      [] OTHER     -> Refusal("ILLEGAL_FUNCTION")

-----------------------------------------------------------------------------
(* What the Modbus application protocol says of the same requests: the tables of   *)
(* this device, and in every request a block of one of them.                        *)

InputTable    == 0 .. 39
CoilTable     == 0 .. 3
DiscreteTable == 0 .. 4

(* The common registers (mb_task.c:49-83), and the device's with the unused one      *)
(* before them, which the code serves as well.                                        *)
HoldingBlocks == {0 .. 36, 99 + reg_offset .. 99 + reg_offset + reg_count}

Block(addr, n) == addr .. addr + n - 1
Some(addr, n, table) == n >= 1 /\ Block(addr, n) \subseteq table
InHolding(addr, n) == \E table \in HoldingBlocks : Some(addr, n, table)

(* The PDU is as long as its function and its byte count say.  Requests of other     *)
(* lengths, and the high byte of the count in function 3, are not looked at.         *)
WellSized(r) ==
    CASE r.fc \in {1, 2, 4, 5, 6} -> r.len = 5
      [] r.fc = 3 -> r.len = 5 /\ r.count < 256
      [] r.fc \in {15, 16} -> r.len = 6 + r.bytes
      [] r.fc = 17 -> r.len = 1
      [] r.fc = 23 -> r.len = 10 + r.bytes
      [] OTHER -> TRUE

(* The book's limits of the counts (2000 bits, 125 registers and so on) lie beyond   *)
(* every table, so that they need not be written here.                                *)
Legal(r) ==
    CASE r.fc = 1  -> Some(r.addr, r.count, CoilTable)
      [] r.fc = 2  -> Some(r.addr, r.count, DiscreteTable)
      [] r.fc = 3  -> InHolding(r.addr, r.count)
      [] r.fc = 4  -> Some(r.addr, r.count, InputTable)
      [] r.fc = 5  -> r.count \in CoilValues /\ Some(r.addr, 1, CoilTable)
      [] r.fc = 6  -> InHolding(r.addr, 1)
      [] r.fc = 15 -> r.bytes = (r.count + 7) \div 8 /\ Some(r.addr, r.count, CoilTable)
      [] r.fc = 16 -> r.bytes = 2 * r.count /\ InHolding(r.addr, r.count)
      [] r.fc = 17 -> TRUE
      [] r.fc = 23 -> /\ InHolding(r.addr, r.count)
                      /\ r.bytes = 2 * r.wcount /\ InHolding(r.waddr, r.wcount)
      [] OTHER     -> FALSE
=============================================================================
