------------------------------- MODULE Eeprom -------------------------------
(***************************************************************************)
(* The EEPROM driver (src/HW_LIB/EEPROM_25C.c): a call runs through a      *)
(* fixed sequence of statements, waits for a notification, and the         *)
(* interrupt of the SPI carries the transfer on byte by byte.  The state   *)
(* of the driver is global, and nothing keeps a task from calling it while *)
(* another one waits.  Two tasks here: the user task (priority 8) adds     *)
(* journal records, a task of priority 5 saves a setting or reads a record.*)
(*                                                                         *)
(* A byte is a command or a tagged address or data byte.  The SPI holds    *)
(* one byte in the shift register and one in the data register.  A byte    *)
(* takes 2 us and its interrupt less, so that an interrupt is served       *)
(* before the next byte ends; the shortest wait is a tick of 1 ms.         *)
(***************************************************************************)
EXTENDS Integers, Sequences

CONSTANTS
    SECTOR_SIZE,        \* bytes of a sector of the chip (64)
    EEPROM_SIZE,        \* bytes of the chip
    RECORD_SIZE,        \* bytes of a journal record (7)
    RecordAt,           \* address of the record, and ...
    RegisterAt,         \* ... of the setting
    MaxCalls            \* bound: calls of the driver

ASSUME AddressAssumption ==
    /\ SECTOR_SIZE \in Nat \ {0} /\ RECORD_SIZE \in 1 .. SECTOR_SIZE
    /\ EEPROM_SIZE \in Nat /\ EEPROM_SIZE % SECTOR_SIZE = 0
    /\ RecordAt \in Nat /\ RecordAt + RECORD_SIZE <= EEPROM_SIZE
    /\ RegisterAt \in Nat /\ RegisterAt + 1 <= EEPROM_SIZE
    /\ MaxCalls \in Nat

Tasks == {"user", "low"}
Other(t) == IF t = "user" THEN "low" ELSE "user"
Cells == 0 .. EEPROM_SIZE - 1

Write(a, n) == [kind |-> "write", adress |-> a, size |-> n]
Read(a, n)  == [kind |-> "read",  adress |-> a, size |-> n]
Ops == [user |-> {Write(RecordAt, RECORD_SIZE)},
        low  |-> {Write(RegisterAt, 1), Read(RecordAt, RECORD_SIZE)}]

(* The bytes of the line: commands, the halves of an address, and data, of which  *)
(* the i-th byte that call c writes is told apart (call 0: what the chip held).    *)
Byte(tag) == <<tag, 0, 0>>
High(a)   == <<"high", a, 0>>
Low(a)    == <<"low", a, 0>>
Data(c, i) == <<"data", c, i>>

VARIABLES
    state, data_addres, pdata, data_size, data_index, NotifyTaskHandle,  \* SPI_EEPROM
    sector_buffer, pData,   \* the driver's buffer, and that of the caller who reads
    NSS, pipe,              \* chip select; the bytes in the shift and data registers
    chip, WEL, busy, mem,   \* the chip: its transaction, write enable, write cycle, content
    op, number, done, at,   \* of each task: its call, the call's number, bytes done, where it is
    exit_code, notified,    \* result of the last wait; the notification value
    result,                 \* what the last call returned
    calls, clean,           \* history: calls begun; calls alone on an idle line from their start
    disturbed               \* history: some call was not

driver == <<state, data_addres, pdata, data_size, data_index, NotifyTaskHandle>>
buffers == <<sector_buffer, pData>>
line   == <<NSS, pipe, chip, WEL, busy, mem>>
tasks  == <<op, number, done, at, exit_code, notified, result>>
vars   == <<driver, buffers, line, tasks, calls, clean, disturbed>>

-----------------------------------------------------------------------------
(* The statements of a call, in their order. *)
GetEEPROMStatus    == <<"READ_STATUS_STATE", "handle", "select", "RDSR", "wait", "release">>
SetEEPROMUnprotect == <<"WRITE_COMMAND_STATE", "handle", "select", "WREN", "wait", "delay", "release">>
SetFields          == <<"data_addres", "pdata", "data_size", "data_index", "handle">>
WriteEEPROMData == SetFields \o GetEEPROMStatus
                     \o <<"select", "WRITE_ADDR_WRITE_STATE", "WRITE", "wait", "release">>
ReadEEPROMData  == SetFields \o GetEEPROMStatus
                     \o <<"select", "READ_ADDR_WRITE_STATE", "READ", "wait", "release">>
WriteEEPROM     == <<"memcpy">> \o GetEEPROMStatus \o SetEEPROMUnprotect \o WriteEEPROMData

Statements(t) == IF op[t].kind = "write" THEN WriteEEPROM ELSE ReadEEPROMData
InCall(t)    == at[t] # 0
Statement(t) == IF InCall(t) THEN Statements(t)[at[t]] ELSE "none"
Waiting(t)   == Statement(t) \in {"wait", "delay"}

(* The low task runs while the user task rests, or waits and has nothing to wake it. *)
Runs(t) ==
    /\ InCall(t)
    /\ t = "low" /\ InCall("user") => Waiting("user") /\ notified["user"] = 0

cur_addr(t) == op[t].adress + done[t]
byte_to_send(t) == op[t].size - done[t]

\* Mutant: the border of the sector is not looked at.
cur_len_Whole(t) == IF byte_to_send(t) > SECTOR_SIZE THEN SECTOR_SIZE ELSE byte_to_send(t)

cur_len(t) ==
    LET room == SECTOR_SIZE - (cur_addr(t) % SECTOR_SIZE)
    IN  IF room > byte_to_send(t) THEN byte_to_send(t) ELSE room

-----------------------------------------------------------------------------
(* The chip (external): an SPI EEPROM of the 25xx family as the driver uses it. *)

NoLatch == [i \in 0 .. SECTOR_SIZE - 1 |-> Byte("none")]
Deselected == [mode |-> "off", ptr |-> 0, latch |-> NoLatch]

(* What it returns while a byte comes in; without it the pull-up of MISO gives 0xFF. *)
Miso ==
    CASE NSS = "low" /\ chip.mode = "status"  -> {Byte(IF busy THEN "ones" ELSE "ready")}
      [] NSS = "low" /\ chip.mode = "reading" -> {mem[chip.ptr]}
      [] NSS = "low" /\ chip.mode = "garbled" -> {Byte("ones"), Byte("ready")}
      [] OTHER -> {Byte("ones")}

(* What it does with byte b; while it is writing it knows only RDSR.  A wrong      *)
(* address byte makes it any address.                                              *)
ChipTakes(b) ==
    LET mode == chip.mode
        goes(next) == chip' = [chip EXCEPT !.mode = next]
    IN  IF NSS = "high" THEN chip' = chip
        ELSE CASE mode = "command" ->
                    goes(CASE b[1] = "RDSR" -> "status"
                           [] b[1] = "WREN"  /\ ~busy -> "enable"
                           [] b[1] = "READ"  /\ ~busy -> "read_hi"
                           [] b[1] = "WRITE" /\ ~busy /\ WEL -> "write_hi"
                           [] OTHER -> "ignored")
               [] mode \in {"read_hi", "write_hi"} ->
                    \E a \in IF b[1] = "high" THEN {b[2]} ELSE Cells :
                        chip' = [chip EXCEPT !.ptr = a,
                                    !.mode = IF mode = "read_hi" THEN "read_lo" ELSE "write_lo"]
               [] mode \in {"read_lo", "write_lo"} ->
                    \E a \in IF b = Low(chip.ptr) THEN {chip.ptr} ELSE Cells :
                        chip' = [chip EXCEPT !.ptr = a,
                                    !.mode = IF mode = "read_lo" THEN "reading" ELSE "writing"]
               [] mode = "reading" -> chip' = [chip EXCEPT !.ptr = (@ + 1) % EEPROM_SIZE]
               [] mode = "writing" ->
                    LET i == chip.ptr % SECTOR_SIZE
                    IN  chip' = [chip EXCEPT !.latch[i] = b,
                                             !.ptr = @ - i + ((i + 1) % SECTOR_SIZE)]
               [] mode = "enable" -> goes("ignored")
               [] OTHER -> chip' = chip

(* A falling edge of NSS begins a transaction; in the middle of a byte the chip     *)
(* loses count of the bits.                                                          *)
Falls ==
    /\ NSS' = "low"
    /\ chip' = IF NSS = "low" THEN chip
               ELSE [Deselected EXCEPT !.mode = IF pipe = <<>> THEN "command" ELSE "garbled"]
    /\ UNCHANGED <<WEL, busy, mem>>

(* A rising edge ends it; what was latched is written if the last byte was whole. *)
Rises ==
    /\ NSS' = "high"
    /\ chip' = Deselected
    /\ LET whole == NSS = "low" /\ pipe = <<>>
           store == whole /\ chip.mode = "writing" /\ chip.latch # NoLatch
           first == chip.ptr - (chip.ptr % SECTOR_SIZE)
           new(c) == chip.latch[c % SECTOR_SIZE]
       IN  /\ mem' = IF store
                     THEN [c \in Cells |->
                             IF c \in first .. first + SECTOR_SIZE - 1 /\ new(c) # Byte("none")
                             THEN new(c) ELSE mem[c]]
                     ELSE mem
           /\ busy' = (busy \/ store)
           /\ WEL' = IF whole /\ chip.mode = "enable" THEN TRUE
                     ELSE WEL /\ ~store

(* The write cycle ends: after 5 ms at most, later if the chip is at fault. *)
CycleEnds ==
    /\ busy
    /\ busy' = FALSE
    /\ UNCHANGED <<driver, buffers, NSS, pipe, chip, WEL, mem, tasks, calls, clean, disturbed>>

-----------------------------------------------------------------------------
(* HAL_SPI_Send: into the data register, over what has not been sent yet. *)
Sent(p, b) == IF Len(p) < 2 THEN Append(p, b) ELSE <<p[1], b>>

(* Bound: an index that has run past every buffer stays there (see StoresInBuffer). *)
Capped(i) == IF i > SECTOR_SIZE THEN SECTOR_SIZE ELSE i

(* Outside of the buffer, nothing that is modelled changes. *)
Stored(buffer, b) == [i \in DOMAIN buffer |-> IF i = data_index THEN b ELSE buffer[i]]
BufferOf == IF pdata = "sector_buffer" THEN sector_buffer ELSE pData

\* Mutant: notifications are counted (xTaskNotifyGive) instead of overwritten.
Notifies_Counted(rest) ==
    /\ notified' = [notified EXCEPT ![NotifyTaskHandle] = @ + 1]
    /\ pipe' = rest

(* The cases of ReadCallBack. *)
Sends(b, next, rest) ==
    /\ pipe' = Sent(rest, b) /\ state' = next
    /\ UNCHANGED <<data_index, buffers, notified>>

Notifies(rest) ==
    /\ notified' = [notified EXCEPT ![NotifyTaskHandle] = 1]
    /\ pipe' = rest

\* Mutant: one byte more is read.
ReadsData_OneMore(read_data, rest) ==
    /\ pData' = Stored(pData, read_data)
    /\ sector_buffer' = sector_buffer
    /\ data_index' = Capped(data_index + 1)
    /\ IF data_index < data_size
       THEN pipe' = Sent(rest, Byte("zero")) /\ notified' = notified
       ELSE Notifies(rest)
    /\ state' = state

ReadsData(read_data, rest) ==
    /\ IF pdata = "sector_buffer"
       THEN sector_buffer' = Stored(sector_buffer, read_data) /\ pData' = pData
       ELSE pData' = Stored(pData, read_data) /\ sector_buffer' = sector_buffer
    /\ data_index' = Capped(data_index + 1)
    /\ IF data_index' < data_size
       THEN pipe' = Sent(rest, Byte("zero")) /\ notified' = notified
       ELSE Notifies(rest)
    /\ state' = state

\* Mutant: the last byte is left out.
WritesData_Short(rest) ==
    /\ IF data_index + 1 < data_size
       THEN /\ pipe' = Sent(rest, BufferOf[data_index])
            /\ data_index' = data_index + 1 /\ notified' = notified
       ELSE Notifies(rest) /\ data_index' = data_index
    /\ UNCHANGED <<state, buffers>>

WritesData(rest) ==
    /\ IF data_index < data_size
       THEN /\ pipe' = Sent(rest, BufferOf[data_index])
            /\ data_index' = data_index + 1 /\ notified' = notified
       ELSE Notifies(rest) /\ data_index' = data_index
    /\ UNCHANGED <<state, buffers>>

\* Mutant: a busy chip is not asked again.
ReadsStatus_Once(read_data, rest) ==
    \/ read_data # Byte("ready") /\ pipe' = rest /\ UNCHANGED <<state, data_index, buffers, notified>>
    \/ read_data # Byte("ones") /\ Notifies(rest) /\ UNCHANGED <<state, data_index, buffers>>

(* Bit 0 of a status is known, that of anything else may be either. *)
ReadsStatus(read_data, rest) ==
    \/ read_data # Byte("ready") /\ Sends(Byte("RDSR"), state, rest)
    \/ read_data # Byte("ones") /\ Notifies(rest) /\ UNCHANGED <<state, data_index, buffers>>

(* ReadCallBack, the interrupt after each byte.  rest is what the SPI still sends. *)
ReadCallBack(read_data, rest) ==
    CASE state = "READ_ADDR_WRITE_STATE" ->
            Sends(High(data_addres), "READ_ADDR_WRITE_STATE1", rest)
      [] state = "READ_ADDR_WRITE_STATE1" ->
            Sends(Low(data_addres), "READ_DATA_READ_STATE1", rest)
      [] state = "READ_DATA_READ_STATE1" -> Sends(Byte("zero"), "READ_DATA_READ_STATE", rest)
      [] state = "READ_DATA_READ_STATE" -> ReadsData(read_data, rest)
      [] state = "WRITE_COMMAND_STATE" ->
            Notifies(rest) /\ UNCHANGED <<state, data_index, buffers>>
      [] state = "READ_STATUS_STATE" -> ReadsStatus(read_data, rest)
      [] state = "WRITE_ADDR_WRITE_STATE" ->
            Sends(High(data_addres), "WRITE_ADDR_WRITE_STATE1", rest)
      [] state = "WRITE_ADDR_WRITE_STATE1" ->
            Sends(Low(data_addres), "WRITE_DATA_WRITE_STATE", rest)
      [] state = "WRITE_DATA_WRITE_STATE" -> WritesData(rest)
      [] OTHER ->    \* EEPROM_IDLE_STATE: no call yet
            pipe' = rest /\ UNCHANGED <<state, data_index, buffers, notified>>

(* A byte has been shifted out and another one in. *)
Transfer ==
    /\ pipe # <<>>
    /\ \E read_data \in Miso : ReadCallBack(read_data, Tail(pipe))
    /\ ChipTakes(Head(pipe))
    /\ UNCHANGED <<data_addres, pdata, data_size, NotifyTaskHandle, NSS, WEL, busy, mem,
                   op, number, done, at, exit_code, result, calls, clean, disturbed>>

-----------------------------------------------------------------------------
(* The tasks.  Each statement is a step; a call begins on an idle line or not. *)

Begin(t) ==
    /\ ~InCall(t) /\ calls < MaxCalls
    /\ t = "low" => ~InCall("user") \/ (Waiting("user") /\ notified["user"] = 0)
    /\ \E o \in Ops[t] : op' = [op EXCEPT ![t] = o]
    /\ calls' = calls + 1
    /\ number' = [number EXCEPT ![t] = calls']
    /\ done' = [done EXCEPT ![t] = 0]
    /\ at' = [at EXCEPT ![t] = 1]
    /\ result' = [result EXCEPT ![t] = "none"]
    /\ clean' = [clean EXCEPT
            ![t] = ~InCall(Other(t)) /\ NSS = "high" /\ pipe = <<>> /\ notified[t] = 0,
            ![Other(t)] = @ /\ ~InCall(Other(t))]
    /\ disturbed' = (disturbed \/ ~clean'[t])
    /\ UNCHANGED <<driver, buffers, line, exit_code, notified>>

Goes(t) == at' = [at EXCEPT ![t] = @ + 1]
StaysOn(t) == UNCHANGED <<op, number, done, exit_code, notified, result, calls, clean, disturbed>>

Memcpy(t) ==
    /\ Runs(t) /\ Statement(t) = "memcpy"
    /\ sector_buffer' = [i \in DOMAIN sector_buffer |->
            IF i < cur_len(t) THEN Data(number[t], done[t] + i) ELSE sector_buffer[i]]
    /\ Goes(t) /\ StaysOn(t)
    /\ UNCHANGED <<driver, pData, line>>

SetState(t) ==
    /\ Runs(t)
    /\ Statement(t) \in {"READ_STATUS_STATE", "WRITE_COMMAND_STATE",
                         "WRITE_ADDR_WRITE_STATE", "READ_ADDR_WRITE_STATE"}
    /\ state' = Statement(t)
    /\ Goes(t) /\ StaysOn(t)
    /\ UNCHANGED <<data_addres, pdata, data_size, data_index, NotifyTaskHandle, buffers, line>>

SetHandle(t) ==
    /\ Runs(t) /\ Statement(t) = "handle"
    /\ NotifyTaskHandle' = t
    /\ Goes(t) /\ StaysOn(t)
    /\ UNCHANGED <<state, data_addres, pdata, data_size, data_index, buffers, line>>

SetField(t) ==
    /\ Runs(t)
    /\ \/ /\ Statement(t) = "data_addres" /\ data_addres' = cur_addr(t)
          /\ UNCHANGED <<pdata, data_size, data_index>>
       \/ /\ Statement(t) = "pdata"
          /\ pdata' = IF op[t].kind = "write" THEN "sector_buffer" ELSE "pData"
          /\ UNCHANGED <<data_addres, data_size, data_index>>
       \/ /\ Statement(t) = "data_size"
          /\ data_size' = IF op[t].kind = "write" THEN cur_len(t) ELSE op[t].size
          /\ UNCHANGED <<data_addres, pdata, data_index>>
       \/ /\ Statement(t) = "data_index" /\ data_index' = 0
          /\ UNCHANGED <<data_addres, pdata, data_size>>
    /\ Goes(t) /\ StaysOn(t)
    /\ UNCHANGED <<state, NotifyTaskHandle, buffers, line>>

Select(t) ==
    /\ Runs(t) /\ Statement(t) = "select"
    /\ Falls
    /\ Goes(t) /\ StaysOn(t)
    /\ UNCHANGED <<driver, buffers, pipe>>

Command(t) ==
    /\ Runs(t) /\ Statement(t) \in {"RDSR", "WREN", "WRITE", "READ"}
    /\ pipe' = Sent(pipe, Byte(Statement(t)))
    /\ Goes(t) /\ StaysOn(t)
    /\ UNCHANGED <<driver, buffers, NSS, chip, WEL, busy, mem>>

(* ulTaskNotifyTakeIndexed with its time-out. *)
Notified(t) ==
    /\ Runs(t) /\ Statement(t) = "wait" /\ notified[t] = 1
    /\ notified' = [notified EXCEPT ![t] = 0]
    /\ exit_code' = [exit_code EXCEPT ![t] = 1]
    /\ Goes(t)
    /\ UNCHANGED <<driver, buffers, line, op, number, done, result, calls, clean, disturbed>>

(* It runs out only where no transfer of microseconds is under way: nothing is sent, *)
(* or the status is asked for again and again, or the call is not alone.             *)
TimesOut(t) ==
    /\ Runs(t) /\ Statement(t) = "wait" /\ notified[t] = 0
    /\ pipe = <<>> \/ state = "READ_STATUS_STATE" \/ ~clean[t]
    /\ exit_code' = [exit_code EXCEPT ![t] = 0]
    /\ Goes(t)
    /\ UNCHANGED <<driver, buffers, line, op, number, done, notified, result, calls, clean, disturbed>>

(* vTaskDelay(1) *)
Delay(t) ==
    /\ Runs(t) /\ Statement(t) = "delay"
    /\ pipe = <<>> \/ state = "READ_STATUS_STATE" \/ ~clean[t]
    /\ Goes(t) /\ StaysOn(t)
    /\ UNCHANGED <<driver, buffers, line>>

(* What follows the end of a transaction: the next statement, the next sector, or the   *)
(* end of the call.                                                                      *)
Release(t) ==
    /\ Runs(t) /\ Statement(t) = "release"
    /\ Rises
    /\ LET last == at[t] = Len(Statements(t))
           left == byte_to_send(t) - cur_len(t)
       IN  IF exit_code[t] = 0
           THEN /\ at' = [at EXCEPT ![t] = 0]
                /\ result' = [result EXCEPT ![t] = "error"]
                /\ done' = done
           ELSE IF ~last
           THEN Goes(t) /\ UNCHANGED <<done, result>>
           ELSE IF op[t].kind = "write" /\ left > 0
           THEN /\ at' = [at EXCEPT ![t] = 1]
                /\ done' = [done EXCEPT ![t] = @ + cur_len(t)]
                /\ result' = result
           ELSE /\ at' = [at EXCEPT ![t] = 0]
                /\ result' = [result EXCEPT ![t] = "EEPROM_OK"]
                /\ done' = done
    /\ UNCHANGED <<driver, buffers, pipe, op, number, exit_code, notified, calls, clean, disturbed>>

Init ==
    /\ state = "EEPROM_IDLE_STATE" /\ data_addres = 0 /\ pdata = "sector_buffer"
    /\ data_size = 0 /\ data_index = 0 /\ NotifyTaskHandle = "low"
    /\ sector_buffer = [i \in 0 .. SECTOR_SIZE - 1 |-> Byte("zero")]
    /\ pData = [i \in 0 .. RECORD_SIZE - 1 |-> Byte("zero")]
    /\ NSS = "high" /\ pipe = <<>> /\ chip = Deselected
    /\ WEL = FALSE /\ busy = FALSE
    /\ mem = [a \in Cells |-> Data(0, a)]
    /\ op = [t \in Tasks |-> CHOOSE o \in Ops[t] : TRUE]
    /\ number = [t \in Tasks |-> 0] /\ done = [t \in Tasks |-> 0]
    /\ at = [t \in Tasks |-> 0]
    /\ exit_code = [t \in Tasks |-> 0] /\ notified = [t \in Tasks |-> 0]
    /\ result = [t \in Tasks |-> "none"]
    /\ calls = 0 /\ clean = [t \in Tasks |-> TRUE] /\ disturbed = FALSE

Step(t) ==
    \/ Memcpy(t) \/ SetState(t) \/ SetHandle(t) \/ SetField(t) \/ Select(t) \/ Command(t)
    \/ Notified(t) \/ TimesOut(t) \/ Delay(t) \/ Release(t)

Next == Transfer \/ CycleEnds \/ \E t \in Tasks : Begin(t) \/ Step(t)

Spec == Init /\ [][Next]_vars

-----------------------------------------------------------------------------
(* Type invariant: at most two bytes are on their way, and every place is in its range. *)
TypeOK ==
    /\ data_addres \in Cells /\ pdata \in {"sector_buffer", "pData"}
    /\ data_size \in 0 .. SECTOR_SIZE /\ data_index \in 0 .. SECTOR_SIZE
    /\ NotifyTaskHandle \in Tasks
    /\ DOMAIN sector_buffer = 0 .. SECTOR_SIZE - 1 /\ DOMAIN pData = 0 .. RECORD_SIZE - 1
    /\ NSS \in {"low", "high"} /\ Len(pipe) <= 2
    /\ chip.ptr \in Cells /\ WEL \in BOOLEAN /\ busy \in BOOLEAN /\ DOMAIN mem = Cells
    /\ \A t \in Tasks :
        /\ op[t] \in Ops[t] /\ number[t] \in 0 .. MaxCalls /\ at[t] \in 0 .. Len(Statements(t))
        /\ done[t] \in 0 .. op[t].size /\ exit_code[t] \in 0 .. 1 /\ notified[t] \in 0 .. 1
        /\ result[t] \in {"none", "error", "EEPROM_OK"} /\ clean[t] \in BOOLEAN
    /\ calls \in 0 .. MaxCalls

(* A call that had the driver to itself from an idle line on and returns EEPROM_OK  *)
(* has written exactly its data, or read exactly what the chip holds                *)
(* (EEPROM_25C.c:139-217): every byte at its place, over the borders of sectors.    *)
Did(t) ==
    \A i \in 0 .. op[t].size - 1 :
        IF op[t].kind = "write"
        THEN mem'[op[t].adress + i] = Data(number[t], i)
        ELSE pData[i] = mem[op[t].adress + i]
OkMeansDone ==
    [][\A t \in Tasks :
          clean[t] /\ result[t] = "none" /\ result'[t] = "EEPROM_OK" => Did(t)]_vars

(* ... it never stores a byte outside of the buffer of its caller ... *)
StoresInBuffer ==
    (\E t \in Tasks : InCall(t) /\ clean[t]) /\ state = "READ_DATA_READ_STATE" /\ pipe # <<>> =>
        pdata = "pData" /\ data_index < RECORD_SIZE /\ data_index < data_size

(* ... and it fails only when the chip is busy for longer than the time-out: no       *)
(* notification of the interrupt is lost or taken twice (EEPROM_25C.c:19-87).         *)
OnlyBusyFails ==
    \A t \in Tasks : clean[t] /\ Statement(t) = "wait" /\ notified[t] = 0 =>
        /\ pipe # <<>>
        /\ state = "READ_STATUS_STATE" => NSS = "low" /\ chip.mode \in {"command", "status"}

(* As long as no call met another one or the remains of a failed one, the chip holds *)
(* in every cell what it held before or what a call wrote to that address.           *)
NothingStray ==
    ~disturbed => \A a \in Cells :
        \/ mem[a] = Data(0, a)
        \/ \E c \in 1 .. calls, first \in {RecordAt, RegisterAt} : mem[a] = Data(c, a - first)
=============================================================================
