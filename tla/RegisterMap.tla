----------------------------- MODULE RegisterMap -----------------------------
(***************************************************************************)
(* What the requests of a master do to the holding registers               *)
(* (src/User/mb_task.c), while the operator changes the same settings in   *)
(* the menu (src/User/menu.c).                                             *)
(*                                                                         *)
(* Of the registers the four limits of the mains voltage are modelled: a   *)
(* write to one is checked against the table usRegHoldingBuf, not against  *)
(* the settings; the table is brought up to date by reads only, and a      *)
(* value that is refused stays in it.  The menu checks each key press      *)
(* against the settings, but saves without a check.  The Modbus task and   *)
(* the menu have the same priority, and a write waits for the EEPROM after *)
(* each register.                                                          *)
(***************************************************************************)
EXTENDS ModbusFunctions

CONSTANTS
    Requests,           \* the requests of the master
    MaxRequests,        \* bound: requests
    MaxKeys             \* bound: keys pressed in the menu

V_MIN_ON  == 9
V_MIN_OFF == 10
V_MAX_ON  == 11
V_MAX_OFF == 12
Limits == {V_MIN_ON, V_MIN_OFF, V_MAX_ON, V_MAX_OFF}

Table == 0 .. 150       \* REG_HOLDING_NREGS

(* A request also carries a value for each limit that it writes. *)
RequestType ==
    [fc : UCHAR, len : 1 .. 253, addr : USHORT, count : USHORT, bytes : UCHAR,
     waddr : USHORT, wcount : USHORT, value : [Limits -> USHORT]]

ASSUME RequestAssumption == Requests \subseteq RequestType /\ Requests # {}
ASSUME BoundAssumption == MaxRequests \in Nat /\ MaxKeys \in Nat

VARIABLES
    usRegHoldingBuf,    \* the limits in the table of the Modbus task
    setting,            \* the limits in DATA_MODEL_REGISTER
    request, answer,    \* the last request and the answer to it
    mbPc, iRegIndex, usNRegs,   \* the Modbus task in eMBRegHoldingCB
    start_edit_flag, edit_id, edit_data_buffer_byte,    \* vByteDataEdit
    stale,              \* history: a limit has changed since the editing began
    careful,            \* history: nobody relied on an outdated limit (see below)
    requests, keys      \* so far

mbVars   == <<request, answer, mbPc, iRegIndex, usNRegs, requests>>
menuVars == <<start_edit_flag, edit_id, edit_data_buffer_byte, keys>>
vars == <<usRegHoldingBuf, setting, mbVars, menuVars, stale, careful>>

-----------------------------------------------------------------------------
(* The Modbus task *)

(* Where a register is in the table. *)
Place(i) == IF i >= 100 + reg_offset THEN i - reg_offset ELSE i

Writes(r) ==
    CASE r.fc \in {6, 16} -> Handler(r).exception = "none"
      [] r.fc = 23 -> /\ r.len >= 10 /\ CountsValid(r)
                      /\ HoldingAccepts(usRegAddress(r.waddr), r.wcount)
      [] OTHER -> FALSE
Reads(r) ==
    r.fc \in {3, 23} /\ Handler(r).exception = "none" /\ (r.fc = 23 => r.len >= 10)

WriteFirst(r) == IF r.fc = 23 THEN r.waddr ELSE r.addr
WriteCount(r) == IF r.fc = 23 THEN r.wcount ELSE IF r.fc = 6 THEN 1 ELSE r.count
ReadCount(r)  == IF r.fc = 3 THEN r.count % 256 ELSE r.count

Reading(r) == mbPc' = "read" /\ iRegIndex' = r.addr /\ usNRegs' = ReadCount(r)
Answering  == mbPc' = "answer" /\ iRegIndex' = 0 /\ usNRegs' = 0

(* Nothing depends on a request that has been answered. *)
Forgotten == CHOOSE r \in Requests : TRUE

(* eMBPoll calls the handler, which calls eMBRegHoldingCB for holding registers. *)
Execute ==
    /\ mbPc = "idle" /\ requests < MaxRequests
    /\ requests' = requests + 1
    /\ \E r \in Requests :
        /\ request' = r
        /\ answer' = Handler(r)
        /\ CASE Writes(r) -> /\ mbPc' = "write"
                             /\ iRegIndex' = WriteFirst(r) /\ usNRegs' = WriteCount(r)
             [] ~Writes(r) /\ Reads(r) -> Reading(r)
             [] OTHER -> Answering
    /\ UNCHANGED <<usRegHoldingBuf, setting, menuVars, stale, careful>>

\* Mutant: limits may be equal.
InOrder_Equal(i, v, table) ==
    CASE i = V_MIN_ON  -> v <= table[V_MIN_OFF]
      [] i = V_MIN_OFF -> v > table[V_MIN_ON] /\ v < table[V_MAX_OFF]
      [] i = V_MAX_OFF -> v > table[V_MIN_OFF] /\ v < table[V_MAX_ON]
      [] i = V_MAX_ON  -> v > table[V_MAX_OFF]

(* The checks of vSetRegData. *)
InOrder(i, v, table) ==
    CASE i = V_MIN_ON  -> v < table[V_MIN_OFF]
      [] i = V_MIN_OFF -> v > table[V_MIN_ON] /\ v < table[V_MAX_OFF]
      [] i = V_MAX_OFF -> v > table[V_MIN_OFF] /\ v < table[V_MAX_ON]
      [] i = V_MAX_ON  -> v > table[V_MAX_OFF]

\* Mutant: the value is not cut to a byte.
VerifyAndSetReg8_Wide(i, data) == setting' = [setting EXCEPT ![i] = data]

VerifyAndSetReg8(i, data) == setting' = [setting EXCEPT ![i] = data % 256]

(* A master takes care when every limit that its write is checked against is the      *)
(* setting itself, and the value is one that the menu could show.                      *)
TakesCare(i, v) ==
    v \in 100 .. 255 /\ \A j \in Limits \ {i} : usRegHoldingBuf[j] = setting[j]

(* One register of a write: into the table, then vSetRegData. *)
WriteRegister ==
    /\ mbPc = "write" /\ usNRegs > 0
    /\ IF iRegIndex \in Limits
       THEN LET v == request.value[iRegIndex] IN
            /\ usRegHoldingBuf' = [usRegHoldingBuf EXCEPT ![iRegIndex] = v]
            /\ careful' = (careful /\ TakesCare(iRegIndex, v))
            /\ IF InOrder(iRegIndex, v, usRegHoldingBuf')
               THEN VerifyAndSetReg8(iRegIndex, v) /\ stale' = TRUE
               ELSE UNCHANGED <<setting, stale>>
       ELSE UNCHANGED <<usRegHoldingBuf, setting, stale, careful>>
    /\ iRegIndex' = iRegIndex + 1
    /\ usNRegs' = usNRegs - 1
    /\ UNCHANGED <<request, answer, mbPc, requests, menuVars>>

Written ==
    /\ mbPc = "write" /\ usNRegs = 0
    /\ IF Reads(request) THEN Reading(request) ELSE Answering
    /\ UNCHANGED <<usRegHoldingBuf, setting, request, answer, requests, menuVars, stale, careful>>

(* MB_TASK_HOLDING_UDATE, then the registers into the answer. *)
ReadRegisters ==
    /\ mbPc = "read"
    /\ usRegHoldingBuf' = setting
    /\ Answering
    /\ UNCHANGED <<setting, request, answer, requests, menuVars, stale, careful>>

(* The answer is handed to the driver; its way is the matter of ModbusRTU and ModbusTCP. *)
Reply ==
    /\ mbPc = "answer"
    /\ mbPc' = "idle"
    /\ request' = Forgotten /\ answer' = Handler(Forgotten)
    /\ UNCHANGED <<usRegHoldingBuf, setting, iRegIndex, usNRegs, requests, menuVars, stale, careful>>

-----------------------------------------------------------------------------
(* The menu: vByteDataEdit with the bounds of the four limits. *)

Largest(id) ==
    CASE id = V_MIN_ON  -> setting[V_MIN_OFF] - 1
      [] id = V_MIN_OFF -> setting[V_MAX_OFF] - 1
      [] id = V_MAX_OFF -> setting[V_MAX_ON] - 1
      [] OTHER          -> 255
MaxOf(id) == Largest(id) % 65536
MinOf(id) ==
    CASE id = V_MIN_ON  -> 100
      [] id = V_MIN_OFF -> setting[V_MIN_ON] + 1
      [] id = V_MAX_OFF -> setting[V_MIN_OFF] + 1
      [] OTHER          -> setting[V_MAX_OFF] + 1

coof == {1, 10, 100}

Pressed == keys < MaxKeys /\ keys' = keys + 1
MenuOnly == UNCHANGED <<usRegHoldingBuf, mbVars>>

StartEdit ==
    /\ ~start_edit_flag /\ Pressed
    /\ \E id \in Limits :
        /\ edit_id' = id
        /\ edit_data_buffer_byte' = setting[id]
    /\ start_edit_flag' = TRUE
    /\ stale' = FALSE
    /\ MenuOnly /\ UNCHANGED <<setting, careful>>

Inc(b, c, max) == IF b + c <= max THEN b + c ELSE max

(* The difference is compared with an unsigned long: below min it counts as large. *)
Dec(b, c, min) == IF b < min \/ b - min >= c THEN (b - c) % 65536 ELSE min

Key ==
    /\ start_edit_flag /\ Pressed
    /\ \E c \in coof :
        \/ edit_data_buffer_byte' = Inc(edit_data_buffer_byte, c, MaxOf(edit_id))
        \/ edit_data_buffer_byte' = Dec(edit_data_buffer_byte, c, MinOf(edit_id))
    /\ MenuOnly /\ UNCHANGED <<setting, start_edit_flag, edit_id, stale, careful>>

(* The key that ends the editing saves what the buffer holds, or leaves it. *)
SaveEdit ==
    /\ start_edit_flag
    /\ VerifyAndSetReg8(edit_id, edit_data_buffer_byte)
    /\ careful' = (careful /\ ~stale)
    /\ start_edit_flag' = FALSE
    /\ edit_data_buffer_byte' = 0
    /\ MenuOnly /\ UNCHANGED <<edit_id, keys, stale>>

LeaveEdit ==
    /\ start_edit_flag
    /\ start_edit_flag' = FALSE
    /\ edit_data_buffer_byte' = 0
    /\ MenuOnly /\ UNCHANGED <<setting, edit_id, keys, stale, careful>>

-----------------------------------------------------------------------------
Defaults ==
    [i \in Limits |-> CASE i = V_MIN_ON -> 190 [] i = V_MIN_OFF -> 199
                        [] i = V_MAX_OFF -> 240 [] OTHER -> 250]

(* After a start the table is zero; the limits are the defaults. *)
Init ==
    /\ usRegHoldingBuf = [i \in Limits |-> 0]
    /\ setting = Defaults
    /\ request = Forgotten /\ answer = Handler(Forgotten)
    /\ mbPc = "idle" /\ iRegIndex = 0 /\ usNRegs = 0
    /\ start_edit_flag = FALSE /\ edit_id = V_MIN_ON /\ edit_data_buffer_byte = 0
    /\ stale = FALSE /\ careful = TRUE
    /\ requests = 0 /\ keys = 0

Modbus == Execute \/ WriteRegister \/ Written \/ ReadRegisters \/ Reply
Menu   == StartEdit \/ Key \/ SaveEdit \/ LeaveEdit
Next   == Modbus \/ Menu

Spec == Init /\ [][Next]_vars

-----------------------------------------------------------------------------
(* Type invariant: every variable in its range; a limit is a byte, an answer is never *)
(* longer than a PDU.                                                                  *)
TypeOK ==
    /\ usRegHoldingBuf \in [Limits -> USHORT] /\ setting \in [Limits -> UCHAR]
    /\ request \in RequestType /\ answer.length \in 1 .. 253
    /\ mbPc \in {"idle", "write", "read", "answer"} /\ iRegIndex \in USHORT /\ usNRegs \in 0 .. 125
    /\ start_edit_flag \in BOOLEAN /\ edit_id \in Limits
    /\ edit_data_buffer_byte \in USHORT
    /\ stale \in BOOLEAN /\ careful \in BOOLEAN
    /\ requests \in 0 .. MaxRequests /\ keys \in 0 .. MaxKeys

(* The callbacks never reach beyond the table of 151 registers, neither with the      *)
(* place they compute (mb_task.c:687-700) nor with the register's own number, which   *)
(* vSetRegData uses (mb_task.c:316).  True of the FMCH, whose offset is 0.             *)
AccessInTable ==
    mbPc \in {"read", "write"} => \A i \in Block(iRegIndex, usNRegs) :
        Place(i) \in Table /\ (mbPc = "write" => i \in Table)

(* The limits stay in order, with room between alarm and reset (mb_task.c:393-404,     *)
(* menu.c:1197-1236), as long as the master writes on the ground of a fresh read and   *)
(* the operator saves nothing that was entered before somebody changed a limit.        *)
LimitsOrdered ==
    careful => /\ setting[V_MIN_ON] < setting[V_MIN_OFF]
               /\ setting[V_MIN_OFF] < setting[V_MAX_OFF]
               /\ setting[V_MAX_OFF] < setting[V_MAX_ON]

(* A request whose length goes with its counts is carried out if it is legal, and is   *)
(* refused with an exception if it is not, for every function code, address and count. *)
AnswersByTheBook ==
    WellSized(request) => (answer.exception = "none" <=> Legal(request))
=============================================================================
