---------------------------- MODULE Eeprom_proofs ----------------------------
(* A call of the EEPROM driver that is alone on an idle line, followed statement by      *)
(* statement and byte by byte, for chips, sectors, records and addresses of any size.    *)
EXTENDS Eeprom, SequenceTheorems, TLAPS

States == {"EEPROM_IDLE_STATE", "READ_ADDR_WRITE_STATE", "READ_ADDR_WRITE_STATE1",
           "READ_DATA_READ_STATE1", "READ_DATA_READ_STATE", "WRITE_COMMAND_STATE",
           "READ_STATUS_STATE", "WRITE_ADDR_WRITE_STATE", "WRITE_ADDR_WRITE_STATE1",
           "WRITE_DATA_WRITE_STATE"}

Modes == {"off", "garbled", "command", "ignored", "status", "enable", "read_hi", "read_lo",
          "reading", "write_hi", "write_lo", "writing"}

(* A byte of the line; the high half of an address names a cell. *)
Tags == {"none", "zero", "ones", "ready", "RDSR", "WREN", "READ", "WRITE", "high", "low", "data"}
Bytes == {b \in Tags \X Nat \X Nat : b[1] = "high" => b[2] \in Cells}

CellTypes ==
    /\ sector_buffer \in [0 .. SECTOR_SIZE - 1 -> Bytes]
    /\ pData \in [0 .. RECORD_SIZE - 1 -> Bytes]
    /\ mem \in [Cells -> Bytes]
    /\ chip \in [mode : Modes, ptr : Cells, latch : [0 .. SECTOR_SIZE - 1 -> Bytes]]
    /\ pipe \in Seq(Bytes) /\ Len(pipe) <= 2
    /\ NSS \in {"low", "high"} /\ WEL \in BOOLEAN /\ busy \in BOOLEAN

FieldTypes ==
    /\ state \in States /\ data_addres \in Cells /\ pdata \in {"sector_buffer", "pData"}
    /\ data_size \in 0 .. RECORD_SIZE /\ data_index \in 0 .. SECTOR_SIZE
    /\ NotifyTaskHandle \in Tasks

Writes(t) == op[t].kind = "write"
Length(t) == IF Writes(t) THEN 30 ELSE 16     \* of the call, in statements

TaskTypes ==
    /\ op \in [Tasks -> UNION {Ops[t] : t \in Tasks}]
    /\ number \in [Tasks -> 0 .. MaxCalls]
    /\ at \in [Tasks -> Nat]
    /\ done \in [Tasks -> Nat]
    /\ exit_code \in [Tasks -> 0 .. 1] /\ notified \in [Tasks -> 0 .. 1]
    /\ result \in [Tasks -> {"none", "error", "EEPROM_OK"}] /\ clean \in [Tasks -> BOOLEAN]
    /\ calls \in 0 .. MaxCalls /\ disturbed \in BOOLEAN
    /\ \A t \in Tasks :
        /\ op[t] \in Ops[t] /\ at[t] <= Length(t) /\ done[t] < op[t].size
        /\ ~Writes(t) => done[t] = 0
        /\ InCall(t) => number[t] \in 1 .. calls

Types == CellTypes /\ FieldTypes /\ TaskTypes

-----------------------------------------------------------------------------
(* The place of a statement in a write of one sector; a read joins it at the 15th.     *)
Place(t) == IF Writes(t) THEN at[t] ELSE at[t] + 14

Offset(t) == cur_addr(t) % SECTOR_SIZE

(* The chip is selected, and has heard what brings it into this mode. *)
Selected(mode) == NSS = "low" /\ chip = [Deselected EXCEPT !.mode = mode]
Heard(t, b) == pipe = <<b>> /\ notified[t] = 0
Answered(t) == pipe = <<>> /\ notified[t] = 1
Silent(t) == pipe = <<>> /\ notified[t] = 0

AsksStatus(t) ==
    \/ Heard(t, Byte("RDSR")) /\ (Selected("command") \/ Selected("status"))
    \/ Answered(t) /\ Selected("status") /\ ~busy

(* After a time-out the question may still be on the line. *)
StatusKnown(t) ==
    \/ exit_code[t] = 1 /\ Silent(t) /\ Selected("status") /\ ~busy
    \/ /\ exit_code[t] = 0 /\ pipe \in {<<>>, <<Byte("RDSR")>>}
       /\ Selected("command") \/ Selected("status")

Unprotects(t) ==
    \/ Heard(t, Byte("WREN")) /\ Selected("command")
    \/ Answered(t) /\ Selected("enable")

(* The first k bytes of the buffer are in the latch. *)
Latched(t, k) ==
    [i \in 0 .. SECTOR_SIZE - 1 |-> IF i \in Offset(t) .. Offset(t) + k - 1
                                    THEN sector_buffer[i - Offset(t)] ELSE Byte("none")]
Latches(t, k) ==
    /\ NSS = "low"
    /\ chip = [mode |-> "writing", latch |-> Latched(t, k),
               ptr |-> cur_addr(t) - Offset(t) + ((Offset(t) + k) % SECTOR_SIZE)]

WritesSector(t) ==
    \/ Heard(t, Byte("WRITE")) /\ state = "WRITE_ADDR_WRITE_STATE" /\ Selected("command")
       /\ data_index = 0
    \/ Heard(t, High(cur_addr(t))) /\ state = "WRITE_ADDR_WRITE_STATE1" /\ Selected("write_hi")
       /\ data_index = 0
    \/ Heard(t, Low(cur_addr(t))) /\ state = "WRITE_DATA_WRITE_STATE" /\ NSS = "low"
       /\ chip = [Deselected EXCEPT !.mode = "write_lo", !.ptr = cur_addr(t)]
       /\ data_index = 0
    \/ \E k \in 1 .. cur_len(t) :
        /\ Heard(t, sector_buffer[k - 1]) /\ state = "WRITE_DATA_WRITE_STATE"
        /\ data_index = k /\ Latches(t, k - 1)
    \/ Answered(t) /\ Latches(t, cur_len(t)) /\ state = "WRITE_DATA_WRITE_STATE"

HasRead(t, k) == \A i \in 0 .. k - 1 : pData[i] = mem[cur_addr(t) + i]

ReadsCells(t) ==
    \/ Heard(t, Byte("READ")) /\ state = "READ_ADDR_WRITE_STATE" /\ Selected("command")
       /\ data_index = 0
    \/ Heard(t, High(cur_addr(t))) /\ state = "READ_ADDR_WRITE_STATE1" /\ Selected("read_hi")
       /\ data_index = 0
    \/ Heard(t, Low(cur_addr(t))) /\ state = "READ_DATA_READ_STATE1" /\ NSS = "low"
       /\ chip = [Deselected EXCEPT !.mode = "read_lo", !.ptr = cur_addr(t)]
       /\ data_index = 0
    \/ /\ Heard(t, Byte("zero")) /\ state = "READ_DATA_READ_STATE" /\ NSS = "low"
       /\ data_index < op[t].size /\ HasRead(t, data_index)
       /\ chip = [Deselected EXCEPT !.mode = "reading", !.ptr = cur_addr(t) + data_index]
    \/ Answered(t) /\ state = "READ_DATA_READ_STATE" /\ NSS = "low" /\ chip.mode = "reading"
       /\ HasRead(t, op[t].size)

(* The line, at each place of the call. *)
LineAt(t, p) ==
    /\ p \in 1 .. 4 \cup 8 .. 10 \cup 15 .. 22 \cup {26} => NSS = "high" /\ Silent(t)
    /\ p \in {5, 11, 23, 27, 28} => Selected("command") /\ Silent(t)
    /\ p \in {6, 24} => AsksStatus(t)
    /\ p \in {7, 25} => StatusKnown(t)
    /\ p = 12 => Unprotects(t)
    /\ p \in {13, 14} => Selected("enable") /\ Silent(t) /\ exit_code[t] = 1
    /\ p = 29 => IF Writes(t) THEN WritesSector(t) ELSE ReadsCells(t)
    /\ p = 30 => /\ Silent(t) /\ exit_code[t] = 1
                 /\ IF Writes(t) THEN Latches(t, cur_len(t))
                    ELSE NSS = "low" /\ chip.mode = "reading" /\ HasRead(t, op[t].size)

(* The fields of the driver. *)
FieldsAt(t, p) ==
    /\ p \in 3 .. 7 \cup 21 .. 27 => state = "READ_STATUS_STATE"
    /\ p \in 9 .. 14 => state = "WRITE_COMMAND_STATE"
    /\ p = 28 => state = IF Writes(t) THEN "WRITE_ADDR_WRITE_STATE" ELSE "READ_ADDR_WRITE_STATE"
    /\ p \in 4 .. 7 \cup 10 .. 14 \cup 20 .. 30 => NotifyTaskHandle = t
    /\ p \in 16 .. 30 => data_addres = cur_addr(t)
    /\ p \in 17 .. 30 => pdata = IF Writes(t) THEN "sector_buffer" ELSE "pData"
    /\ p \in 18 .. 30 => data_size = IF Writes(t) THEN cur_len(t) ELSE op[t].size
    /\ p \in 19 .. 28 => data_index = 0

(* The chip, and what the call has brought there so far. *)
ChipAt(t, p) ==
    /\ p \in 8 .. 12 \cup 26 .. 30 => ~busy
    /\ Writes(t) /\ p \in 15 .. 30 => WEL
    /\ Writes(t) /\ p \in 2 .. 30 =>
        \A i \in 0 .. cur_len(t) - 1 : sector_buffer[i] = Data(number[t], done[t] + i)
    /\ Writes(t) => \A i \in 0 .. done[t] - 1 : mem[op[t].adress + i] = Data(number[t], i)

At(t, p) == LineAt(t, p) /\ FieldsAt(t, p) /\ ChipAt(t, p)
Alone(t) == ~InCall(Other(t)) /\ \A p \in 1 .. 30 : Place(t) = p => At(t, p)

CallInv ==
    /\ NSS = "high" => chip = Deselected
    /\ \A t \in Tasks : InCall(t) /\ clean[t] => Alone(t)
    /\ ~disturbed => \A t \in Tasks : InCall(t) => clean[t]

Inv == Types /\ CallInv /\ NothingStray

-----------------------------------------------------------------------------
(* The statements of a call as a list of places.  \o is expanded nowhere else. *)

StatementNames ==
    {"memcpy", "READ_STATUS_STATE", "WRITE_COMMAND_STATE", "WRITE_ADDR_WRITE_STATE",
     "READ_ADDR_WRITE_STATE", "handle", "data_addres", "pdata", "data_size", "data_index",
     "select", "RDSR", "WREN", "WRITE", "READ", "wait", "delay", "release"}
Names(s, n) == s \in Seq(StatementNames) /\ Len(s) = n

(* q is s after r. *)
Joins(q, r, s) == q = r \o s

LEMMA Joined ==
  ASSUME NEW r, NEW s, NEW q, Joins(q, r, s), NEW m \in Nat, NEW n \in Nat, Names(r, m), Names(s, n)
  PROVE  /\ Names(q, m + n)
         /\ \A i \in 1 .. m : q[i] = r[i]
         /\ \A i \in m + 1 .. m + n : q[i] = s[i - m]
<1>1. r \in Seq(StatementNames) /\ s \in Seq(StatementNames) /\ Len(r) = m /\ Len(s) = n
  BY DEF Names
<1>2. /\ q \in Seq(StatementNames) /\ Len(q) = m + n
      /\ \A i \in 1 .. m + n : q[i] = IF i <= m THEN r[i] ELSE s[i - m]
  BY <1>1, ConcatProperties DEF Joins
<1>3. ASSUME NEW i \in m + 1 .. m + n PROVE q[i] = s[i - m]
  <2>1. i \in 1 .. m + n /\ ~(i <= m)
    OBVIOUS
  <2> QED
    BY <1>2, <2>1
<1> QED
  BY <1>2, <1>3 DEF Names

LEMMA ShortParts ==
  /\ Names(SetFields, 5) /\ Names(GetEEPROMStatus, 6) /\ Names(SetEEPROMUnprotect, 7)
  /\ Names(<<"memcpy">>, 1)
  /\ Names(<<"select", "WRITE_ADDR_WRITE_STATE", "WRITE", "wait", "release">>, 5)
  /\ Names(<<"select", "READ_ADDR_WRITE_STATE", "READ", "wait", "release">>, 5)
<1>1. Names(SetFields, 5)
  BY DEF Names, SetFields, StatementNames
<1>2. Names(GetEEPROMStatus, 6)
  BY DEF Names, GetEEPROMStatus, StatementNames
<1>3. Names(SetEEPROMUnprotect, 7)
  BY DEF Names, SetEEPROMUnprotect, StatementNames
<1>4. Names(<<"memcpy">>, 1)
  BY DEF Names, StatementNames
<1>5. Names(<<"select", "WRITE_ADDR_WRITE_STATE", "WRITE", "wait", "release">>, 5)
  BY DEF Names, StatementNames
<1>6. Names(<<"select", "READ_ADDR_WRITE_STATE", "READ", "wait", "release">>, 5)
  BY DEF Names, StatementNames
<1> QED
  BY <1>1, <1>2, <1>3, <1>4, <1>5, <1>6

(* A write of data, and the read of it, as they lie in the list of the places. *)
DataNames(s, k, first, last) ==
    /\ s[k + 1] = "data_addres" /\ s[k + 2] = "pdata" /\ s[k + 3] = "data_size"
    /\ s[k + 4] = "data_index" /\ s[k + 5] = "handle"
    /\ s[k + 6] = "READ_STATUS_STATE" /\ s[k + 7] = "handle" /\ s[k + 8] = "select"
    /\ s[k + 9] = "RDSR" /\ s[k + 10] = "wait" /\ s[k + 11] = "release"
    /\ s[k + 12] = "select" /\ s[k + 13] = first /\ s[k + 14] = last
    /\ s[k + 15] = "wait" /\ s[k + 16] = "release"

EndsWith(e, first, last) == e = <<"select", first, last, "wait", "release">>

LEMMA DataSequence ==
  ASSUME NEW first, NEW last, NEW e, NEW d, NEW s,
         EndsWith(e, first, last), Names(e, 5),
         Joins(d, SetFields, GetEEPROMStatus), Joins(s, d, e)
  PROVE  Names(s, 16) /\ DataNames(s, 0, first, last)
<1>1. /\ Names(d, 11)
      /\ \A i \in 1 .. 5 : d[i] = SetFields[i]
      /\ \A i \in 6 .. 11 : d[i] = GetEEPROMStatus[i - 5]
  <2>1. /\ Names(d, 5 + 6)
        /\ \A i \in 1 .. 5 : d[i] = SetFields[i]
        /\ \A i \in 5 + 1 .. 5 + 6 : d[i] = GetEEPROMStatus[i - 5]
    BY ShortParts, Joined
  <2> QED
    BY <2>1
<1>2. /\ d[1] = "data_addres" /\ d[2] = "pdata" /\ d[3] = "data_size" /\ d[4] = "data_index"
      /\ d[5] = "handle"
  BY <1>1 DEF SetFields
<1>3. /\ d[6] = "READ_STATUS_STATE" /\ d[7] = "handle" /\ d[8] = "select" /\ d[9] = "RDSR"
      /\ d[10] = "wait" /\ d[11] = "release"
  BY <1>1 DEF GetEEPROMStatus
<1>4. e[1] = "select" /\ e[2] = first /\ e[3] = last /\ e[4] = "wait" /\ e[5] = "release"
  BY DEF EndsWith
<1>5. /\ Names(s, 16)
      /\ \A i \in 1 .. 11 : s[i] = d[i]
      /\ \A i \in 12 .. 16 : s[i] = e[i - 11]
  <2>1. /\ Names(s, 11 + 5)
        /\ \A i \in 1 .. 11 : s[i] = d[i]
        /\ \A i \in 11 + 1 .. 11 + 5 : s[i] = e[i - 11]
    BY <1>1, Joined
  <2> QED
    BY <2>1
<1>6. DataNames(s, 0, first, last)
  BY <1>2, <1>3, <1>4, <1>5 DEF DataNames
<1> QED
  BY <1>5, <1>6

LEMMA ReadSequence ==
  /\ Names(ReadEEPROMData, 16)
  /\ DataNames(ReadEEPROMData, 0, "READ_ADDR_WRITE_STATE", "READ")
<1> DEFINE e == <<"select", "READ_ADDR_WRITE_STATE", "READ", "wait", "release">>
           d == SetFields \o GetEEPROMStatus
<1>1. Names(e, 5)
  BY ShortParts
<1>2. EndsWith(e, "READ_ADDR_WRITE_STATE", "READ")
  BY DEF EndsWith
<1>3. Joins(d, SetFields, GetEEPROMStatus)
  BY DEF Joins
<1>4. Joins(ReadEEPROMData, d, e)
  BY DEF Joins, ReadEEPROMData
<1> HIDE DEF d, e
<1> QED
  BY <1>1, <1>2, <1>3, <1>4, DataSequence

LEMMA WriteDataSequence ==
  /\ Names(WriteEEPROMData, 16)
  /\ DataNames(WriteEEPROMData, 0, "WRITE_ADDR_WRITE_STATE", "WRITE")
<1> DEFINE e == <<"select", "WRITE_ADDR_WRITE_STATE", "WRITE", "wait", "release">>
           d == SetFields \o GetEEPROMStatus
<1>1. Names(e, 5)
  BY ShortParts
<1>2. EndsWith(e, "WRITE_ADDR_WRITE_STATE", "WRITE")
  BY DEF EndsWith
<1>3. Joins(d, SetFields, GetEEPROMStatus)
  BY DEF Joins
<1>4. Joins(WriteEEPROMData, d, e)
  BY DEF Joins, WriteEEPROMData
<1> HIDE DEF d, e
<1> QED
  BY <1>1, <1>2, <1>3, <1>4, DataSequence

(* The first half of the write of a sector. *)
UnprotectNames(s) ==
    /\ s[1] = "memcpy" /\ s[2] = "READ_STATUS_STATE" /\ s[3] = "handle" /\ s[4] = "select"
    /\ s[5] = "RDSR" /\ s[6] = "wait" /\ s[7] = "release"
    /\ s[8] = "WRITE_COMMAND_STATE" /\ s[9] = "handle" /\ s[10] = "select" /\ s[11] = "WREN"
    /\ s[12] = "wait" /\ s[13] = "delay" /\ s[14] = "release"

LEMMA WriteSequence ==
  /\ Names(WriteEEPROM, 30) /\ UnprotectNames(WriteEEPROM)
  /\ DataNames(WriteEEPROM, 14, "WRITE_ADDR_WRITE_STATE", "WRITE")
<1> DEFINE f == <<"memcpy">>
           g == f \o GetEEPROMStatus
           h == g \o SetEEPROMUnprotect
<1>1. Names(f, 1) /\ f[1] = "memcpy"
  BY ShortParts
<1>2. Joins(g, f, GetEEPROMStatus)
  BY DEF Joins
<1>3. Joins(h, g, SetEEPROMUnprotect)
  BY DEF Joins
<1>4. Joins(WriteEEPROM, h, WriteEEPROMData)
  BY DEF Joins, WriteEEPROM
<1> HIDE DEF f, g, h
<1>5. /\ Names(g, 7) /\ g[1] = "memcpy"
      /\ \A i \in 2 .. 7 : g[i] = GetEEPROMStatus[i - 1]
  <2>1. /\ Names(g, 1 + 6)
        /\ \A i \in 1 .. 1 : g[i] = f[i]
        /\ \A i \in 1 + 1 .. 1 + 6 : g[i] = GetEEPROMStatus[i - 1]
    BY <1>1, <1>2, ShortParts, Joined
  <2> QED
    BY <1>1, <2>1
<1>6. /\ Names(h, 14)
      /\ \A i \in 1 .. 7 : h[i] = g[i]
      /\ \A i \in 8 .. 14 : h[i] = SetEEPROMUnprotect[i - 7]
  <2>1. /\ Names(h, 7 + 7)
        /\ \A i \in 1 .. 7 : h[i] = g[i]
        /\ \A i \in 7 + 1 .. 7 + 7 : h[i] = SetEEPROMUnprotect[i - 7]
    BY <1>3, <1>5, ShortParts, Joined
  <2> QED
    BY <2>1
<1>7. /\ Names(WriteEEPROM, 30)
      /\ \A i \in 1 .. 14 : WriteEEPROM[i] = h[i]
      /\ \A i \in 15 .. 30 : WriteEEPROM[i] = WriteEEPROMData[i - 14]
  <2>1. /\ Names(WriteEEPROM, 14 + 16)
        /\ \A i \in 1 .. 14 : WriteEEPROM[i] = h[i]
        /\ \A i \in 14 + 1 .. 14 + 16 : WriteEEPROM[i] = WriteEEPROMData[i - 14]
    BY <1>4, <1>6, WriteDataSequence, Joined
  <2> QED
    BY <2>1
<1>8. /\ g[2] = "READ_STATUS_STATE" /\ g[3] = "handle" /\ g[4] = "select"
      /\ g[5] = "RDSR" /\ g[6] = "wait" /\ g[7] = "release"
  BY <1>5 DEF GetEEPROMStatus
<1>9. /\ h[8] = "WRITE_COMMAND_STATE" /\ h[9] = "handle" /\ h[10] = "select" /\ h[11] = "WREN"
       /\ h[12] = "wait" /\ h[13] = "delay" /\ h[14] = "release"
  BY <1>6 DEF SetEEPROMUnprotect
<1>10. UnprotectNames(WriteEEPROM)
  BY <1>5, <1>6, <1>7, <1>8, <1>9 DEF UnprotectNames
<1>11. DataNames(WriteEEPROM, 14, "WRITE_ADDR_WRITE_STATE", "WRITE")
  BY <1>7, WriteDataSequence DEF DataNames
<1> QED
  BY <1>7, <1>10, <1>11

(* Every other operator sees a statement by its place. *)
LEMMA Places ==
  ASSUME TaskTypes, NEW t \in Tasks, InCall(t)
  PROVE  /\ Place(t) \in 1 .. 30 /\ at[t] \in Nat
         /\ ~Writes(t) => Place(t) >= 15
         /\ (at[t] = Len(Statements(t))) <=> (Place(t) = 30)
         /\ Statement(t) = "memcpy" <=> Place(t) = 1
         /\ Statement(t) = "READ_STATUS_STATE" <=> Place(t) \in {2, 20}
         /\ Statement(t) = "WRITE_COMMAND_STATE" <=> Place(t) = 8
         /\ Statement(t) = "WRITE_ADDR_WRITE_STATE" <=> Writes(t) /\ Place(t) = 27
         /\ Statement(t) = "READ_ADDR_WRITE_STATE" <=> ~Writes(t) /\ Place(t) = 27
         /\ Statement(t) = "handle" <=> Place(t) \in {3, 9, 19, 21}
         /\ Statement(t) = "data_addres" <=> Place(t) = 15
         /\ Statement(t) = "pdata" <=> Place(t) = 16
         /\ Statement(t) = "data_size" <=> Place(t) = 17
         /\ Statement(t) = "data_index" <=> Place(t) = 18
         /\ Statement(t) = "select" <=> Place(t) \in {4, 10, 22, 26}
         /\ Statement(t) = "RDSR" <=> Place(t) \in {5, 23}
         /\ Statement(t) = "WREN" <=> Place(t) = 11
         /\ Statement(t) = "WRITE" <=> Writes(t) /\ Place(t) = 28
         /\ Statement(t) = "READ" <=> ~Writes(t) /\ Place(t) = 28
         /\ Statement(t) = "wait" <=> Place(t) \in {6, 12, 24, 29}
         /\ Statement(t) = "delay" <=> Place(t) = 13
         /\ Statement(t) = "release" <=> Place(t) \in {7, 14, 25, 30}
<1>1. at[t] \in Nat /\ at[t] <= Length(t) /\ at[t] # 0
  BY DEF TaskTypes, InCall
<1>2. CASE Writes(t)
  <2>1. Statements(t) = WriteEEPROM /\ Place(t) = at[t] /\ Length(t) = 30
    BY <1>2 DEF Writes, Statements, Place, Length
  <2>2. Statement(t) = WriteEEPROM[at[t]] /\ Len(Statements(t)) = 30
    BY <2>1, WriteSequence DEF Statement, Names
  <2>3. at[t] \in 1 .. 30
    BY <1>1, <2>1
  <2> QED
    BY <1>2, <2>1, <2>2, <2>3, WriteSequence DEF UnprotectNames, DataNames
<1>3. CASE ~Writes(t)
  <2>1. Statements(t) = ReadEEPROMData /\ Place(t) = at[t] + 14 /\ Length(t) = 16
    BY <1>3 DEF Writes, Statements, Place, Length
  <2>2. Statement(t) = ReadEEPROMData[at[t]] /\ Len(Statements(t)) = 16
    BY <2>1, ReadSequence DEF Statement, Names
  <2>3. at[t] \in 1 .. 16
    BY <1>1, <2>1
  <2> QED
    BY <1>3, <2>1, <2>2, <2>3, ReadSequence DEF DataNames
<1> QED
  BY <1>2, <1>3

LEMMA Ends == \A t \in Tasks : Len(Statements(t)) = Length(t)
<1> SUFFICES ASSUME NEW t \in Tasks PROVE Len(Statements(t)) = Length(t)
  OBVIOUS
<1>1. CASE Writes(t)
  <2>1. Statements(t) = WriteEEPROM /\ Length(t) = 30
    BY <1>1 DEF Statements, Length, Writes
  <2> QED
    BY <2>1, WriteSequence DEF Names
<1>2. CASE ~Writes(t)
  <2>1. Statements(t) = ReadEEPROMData /\ Length(t) = 16
    BY <1>2 DEF Statements, Length, Writes
  <2> QED
    BY <2>1, ReadSequence DEF Names
<1> QED
  BY <1>1, <1>2

-----------------------------------------------------------------------------
(* Numbers: sectors, lengths and bytes. *)

LEMMA SectorBase ==
  ASSUME NEW a \in Nat, NEW s \in Nat \ {0}
  PROVE /\ a % s \in 0 .. s - 1 /\ a - (a % s) \in Nat
        /\ \A j \in 0 .. s - 1 : (a - (a % s) + j) % s = j
<1> DEFINE q == a \div s
<1>1. a = s * q + (a % s) /\ q \in Nat /\ a % s \in 0 .. s - 1
  OBVIOUS
<1>2. a - (a % s) = s * q /\ s * q \in Nat
  BY <1>1
<1> HIDE DEF q
<1>3. \A j \in 0 .. s - 1 : (s * q + j) % s = j
  BY <1>1
<1> QED
  BY <1>1, <1>2, <1>3

LEMMA SectorEnd ==
  ASSUME NEW a \in Nat, NEW s \in Nat \ {0}, NEW e \in Nat, e % s = 0, a < e
  PROVE a - (a % s) + s <= e
<1> DEFINE q == a \div s
           r == e \div s
<1>1. a = s * q + (a % s) /\ q \in Nat /\ a % s \in 0 .. s - 1
  OBVIOUS
<1>2. e = s * r /\ r \in Nat
  OBVIOUS
<1>3. a - (a % s) = s * q
  BY <1>1
<1> HIDE DEF q, r
<1>4. s * q + s <= s * r
  BY <1>1, <1>2
<1> QED
  BY <1>2, <1>3, <1>4

LEMMA Numbers ==
  /\ SECTOR_SIZE \in Nat \ {0} /\ RECORD_SIZE \in Nat \ {0} /\ RECORD_SIZE <= SECTOR_SIZE
  /\ EEPROM_SIZE \in Nat \ {0} /\ EEPROM_SIZE % SECTOR_SIZE = 0
  /\ Cells = 0 .. EEPROM_SIZE - 1 /\ 0 \in Cells /\ MaxCalls \in Nat
  BY AddressAssumption DEF Cells

LEMMA OpTypes ==
  ASSUME NEW t \in Tasks, NEW o \in Ops[t]
  PROVE  /\ o.kind \in {"write", "read"} /\ o.size \in 1 .. RECORD_SIZE
         /\ o.adress \in Nat /\ o.adress + o.size <= EEPROM_SIZE
         /\ o.adress \in {RecordAt, RegisterAt}
  BY AddressAssumption DEF Tasks, Ops, Write, Read

LEMMA Lengths ==
  ASSUME TaskTypes, NEW t \in Tasks
  PROVE  /\ cur_addr(t) \in Cells /\ cur_addr(t) = op[t].adress + done[t] /\ cur_addr(t) \in Nat
         /\ done[t] \in Nat /\ op[t].size \in 1 .. RECORD_SIZE /\ op[t].adress \in Nat
         /\ Offset(t) \in 0 .. SECTOR_SIZE - 1 /\ cur_addr(t) - Offset(t) \in Nat
         /\ cur_len(t) \in 1 .. op[t].size - done[t] /\ Offset(t) + cur_len(t) <= SECTOR_SIZE
         /\ cur_len(t) \in 1 .. RECORD_SIZE
         /\ cur_addr(t) + (op[t].size - done[t]) <= EEPROM_SIZE
<1>1. /\ op[t].size \in 1 .. RECORD_SIZE /\ op[t].adress \in Nat /\ done[t] \in Nat
      /\ op[t].adress + op[t].size <= EEPROM_SIZE /\ done[t] < op[t].size
  BY OpTypes DEF TaskTypes
<1>2. /\ cur_addr(t) = op[t].adress + done[t] /\ cur_addr(t) \in Cells /\ cur_addr(t) \in Nat
      /\ cur_addr(t) + (op[t].size - done[t]) <= EEPROM_SIZE
  BY <1>1, Numbers DEF cur_addr
<1>3. Offset(t) \in 0 .. SECTOR_SIZE - 1 /\ cur_addr(t) - Offset(t) \in Nat
  BY <1>2, Numbers, SectorBase DEF Offset
<1>4. /\ cur_len(t) \in 1 .. op[t].size - done[t] /\ Offset(t) + cur_len(t) <= SECTOR_SIZE
  <2> DEFINE room == SECTOR_SIZE - Offset(t)
             left == op[t].size - done[t]
  <2>1. cur_len(t) = IF room > left THEN left ELSE room
    BY DEF cur_len, Offset, byte_to_send
  <2>2. left \in 1 .. RECORD_SIZE
    BY <1>1, Numbers
  <2>3. room \in 1 .. SECTOR_SIZE
    BY <1>3, Numbers
  <2>4. Offset(t) + room = SECTOR_SIZE
    BY <1>3, Numbers
  <2> HIDE DEF room, left
  <2>5. cur_len(t) \in 1 .. left /\ cur_len(t) <= room
    BY <2>1, <2>2, <2>3, Numbers
  <2>6. Offset(t) + cur_len(t) <= SECTOR_SIZE
    BY <1>3, <2>4, <2>5, <2>3, Numbers
  <2> QED
    BY <2>5, <2>6 DEF left
<1> QED
  BY <1>1, <1>2, <1>3, <1>4, Numbers

LEMMA ByteTypes ==
  /\ \A tag \in Tags \ {"high"} : Byte(tag) \in Bytes
  /\ \A a \in Cells : High(a) \in Bytes /\ Low(a) \in Bytes
  /\ \A c \in Nat, i \in Nat : Data(c, i) \in Bytes
  /\ \A b \in Bytes : b[1] = "high" => b[2] \in Cells
  BY Numbers DEF Bytes, Tags, Byte, High, Low, Data

-----------------------------------------------------------------------------
(* Types. *)

LEMMA TypesInit == Init => Types
<1> SUFFICES ASSUME Init PROVE Types
  OBVIOUS
<1> USE DEF Init
<1>1. Byte("zero") \in Bytes /\ Byte("none") \in Bytes /\ \A a \in Cells : Data(0, a) \in Bytes
  BY ByteTypes, Numbers DEF Tags
<1>2. CellTypes
  <2>1. NoLatch \in [0 .. SECTOR_SIZE - 1 -> Bytes]
    BY <1>1 DEF NoLatch
  <2>2. chip \in [mode : Modes, ptr : Cells, latch : [0 .. SECTOR_SIZE - 1 -> Bytes]]
    BY <2>1, Numbers DEF Deselected, Modes
  <2>3. /\ sector_buffer \in [0 .. SECTOR_SIZE - 1 -> Bytes] /\ mem \in [Cells -> Bytes]
        /\ pData \in [0 .. RECORD_SIZE - 1 -> Bytes]
    BY <1>1
  <2>4. pipe \in Seq(Bytes) /\ Len(pipe) <= 2
    OBVIOUS
  <2> QED
    BY <2>2, <2>3, <2>4 DEF CellTypes
<1>3. FieldTypes
  BY Numbers DEF FieldTypes, States, Tasks
<1>4. TaskTypes
  <2>1. \A t \in Tasks : Ops[t] # {}
    BY DEF Tasks, Ops
  <2>2. \A t \in Tasks : op[t] \in Ops[t]
    BY <2>1
  <2>3. op \in [Tasks -> UNION {Ops[t] : t \in Tasks}]
    BY <2>2
  <2>4. \A t \in Tasks : op[t].size \in 1 .. RECORD_SIZE
    BY <2>2, OpTypes
  <2>5. \A t \in Tasks : /\ op[t] \in Ops[t] /\ at[t] <= Length(t) /\ done[t] < op[t].size
                         /\ done[t] = 0 /\ ~InCall(t)
    BY <2>2, <2>4, Numbers DEF InCall, Length
  <2>6. number \in [Tasks -> 0 .. MaxCalls] /\ calls \in 0 .. MaxCalls
    BY Numbers
  <2>7. /\ at \in [Tasks -> Nat] /\ done \in [Tasks -> Nat]
        /\ exit_code \in [Tasks -> 0 .. 1] /\ notified \in [Tasks -> 0 .. 1]
        /\ result \in [Tasks -> {"none", "error", "EEPROM_OK"}]
    OBVIOUS
  <2>8. clean \in [Tasks -> BOOLEAN] /\ disturbed \in BOOLEAN
    BY Zenon
  <2> QED
    BY <2>3, <2>5, <2>6, <2>7, <2>8 DEF TaskTypes
<1> QED
  BY <1>2, <1>3, <1>4 DEF Types

(* A statement that is not the last has been done. *)
LEMMA GoesOn ==
  ASSUME TaskTypes, NEW t \in Tasks, InCall(t), Place(t) # 30, Goes(t),
         exit_code' \in [Tasks -> 0 .. 1], notified' \in [Tasks -> 0 .. 1],
         UNCHANGED <<op, number, done, result, calls, clean, disturbed>>
  PROVE  TaskTypes'
<1>1. at[t] \in Nat /\ at[t] + 1 <= Length(t)
  <2>1. at[t] \in Nat /\ at[t] <= Length(t)
    BY DEF TaskTypes
  <2>2. at[t] # Length(t)
    BY Places, Ends
  <2> QED
    BY <2>1, <2>2 DEF Length
<1>2. at' \in [Tasks -> Nat] /\ at'[t] = at[t] + 1 /\ \A u \in Tasks : u # t => at'[u] = at[u]
  BY <1>1 DEF Goes, TaskTypes
<1>3. \A u \in Tasks : at'[u] <= Length(u)
  BY <1>1, <1>2 DEF TaskTypes
<1>4. \A u \in Tasks : at'[u] # 0 => at[u] # 0
  BY <1>1, <1>2 DEF InCall
<1> QED
  BY <1>2, <1>3, <1>4 DEF TaskTypes, Length, Writes, InCall

LEMMA TypesStay ==
  ASSUME TaskTypes, NEW t \in Tasks, InCall(t), Place(t) # 30, Goes(t), StaysOn(t)
  PROVE  TaskTypes'
  BY GoesOn DEF StaysOn, TaskTypes

LEMMA TypesMemcpy ==
  ASSUME Types, NEW t \in Tasks, Memcpy(t) PROVE Types'
<1>1. InCall(t) /\ Place(t) # 30
  BY Places DEF Memcpy, Runs, Types
<1>2. TaskTypes'
  BY <1>1, TypesStay DEF Memcpy, Types
<1>3. \A i \in 0 .. SECTOR_SIZE - 1 : Data(number[t], done[t] + i) \in Bytes
  BY ByteTypes, Numbers DEF Types, TaskTypes
<1>4. sector_buffer' \in [0 .. SECTOR_SIZE - 1 -> Bytes]
  BY <1>3 DEF Memcpy, Types, CellTypes
<1>5. CellTypes'
  BY <1>4 DEF Memcpy, Types, CellTypes, line
<1>6. FieldTypes'
  BY DEF Memcpy, Types, FieldTypes, driver
<1> QED
  BY <1>2, <1>5, <1>6 DEF Types

LEMMA TypesSetState ==
  ASSUME Types, NEW t \in Tasks, SetState(t) PROVE Types'
<1>1. InCall(t) /\ Place(t) # 30
  BY Places DEF SetState, Runs, Types
<1>2. TaskTypes'
  BY <1>1, TypesStay DEF SetState, Types
<1>3. CellTypes'
  BY DEF SetState, Types, CellTypes, line, buffers
<1>4. FieldTypes'
  BY DEF SetState, Types, FieldTypes, States
<1> QED
  BY <1>2, <1>3, <1>4 DEF Types

LEMMA TypesSetHandle ==
  ASSUME Types, NEW t \in Tasks, SetHandle(t) PROVE Types'
<1>1. InCall(t) /\ Place(t) # 30
  BY Places DEF SetHandle, Runs, Types
<1>2. TaskTypes'
  BY <1>1, TypesStay DEF SetHandle, Types
<1>3. CellTypes'
  BY DEF SetHandle, Types, CellTypes, line, buffers
<1>4. FieldTypes'
  BY DEF SetHandle, Types, FieldTypes
<1> QED
  BY <1>2, <1>3, <1>4 DEF Types

LEMMA TypesSetField ==
  ASSUME Types, NEW t \in Tasks, SetField(t) PROVE Types'
<1>1. InCall(t) /\ Place(t) # 30
  BY Places DEF SetField, Runs, Types
<1>2. TaskTypes'
  BY <1>1, TypesStay DEF SetField, Types
<1>3. CellTypes'
  BY DEF SetField, Types, CellTypes, line, buffers
<1>4. FieldTypes'
  <2>1. cur_addr(t) \in Cells /\ cur_len(t) \in 0 .. RECORD_SIZE /\ op[t].size \in 0 .. RECORD_SIZE
    BY Lengths, Numbers DEF Types
  <2>2. 0 \in 0 .. SECTOR_SIZE
    BY Numbers
  <2> QED
    BY <2>1, <2>2 DEF SetField, Types, FieldTypes
<1> QED
  BY <1>2, <1>3, <1>4 DEF Types

LEMMA ChipSelected == \A mode \in Modes : [Deselected EXCEPT !.mode = mode] \in
                        [mode : Modes, ptr : Cells, latch : [0 .. SECTOR_SIZE - 1 -> Bytes]]
<1>1. NoLatch \in [0 .. SECTOR_SIZE - 1 -> Bytes]
  BY ByteTypes DEF NoLatch, Tags
<1> QED
  BY <1>1, Numbers DEF Deselected

LEMMA ChipDeselected == Deselected \in
                        [mode : Modes, ptr : Cells, latch : [0 .. SECTOR_SIZE - 1 -> Bytes]]
<1>1. NoLatch \in [0 .. SECTOR_SIZE - 1 -> Bytes]
  BY ByteTypes DEF NoLatch, Tags
<1> QED
  BY <1>1, Numbers DEF Deselected, Modes

LEMMA TypesSelect ==
  ASSUME Types, NEW t \in Tasks, Select(t) PROVE Types'
<1>1. InCall(t) /\ Place(t) # 30
  BY Places DEF Select, Runs, Types
<1>2. TaskTypes'
  BY <1>1, TypesStay DEF Select, Types
<1>3. CellTypes'
  <2>1. chip' \in [mode : Modes, ptr : Cells, latch : [0 .. SECTOR_SIZE - 1 -> Bytes]]
    <3>1. CASE NSS = "low"
      BY <3>1 DEF Select, Falls, Types, CellTypes
    <3>2. CASE NSS # "low"
      <4>1. "command" \in Modes /\ "garbled" \in Modes
        BY DEF Modes
      <4> QED
        BY <3>2, <4>1, ChipSelected DEF Select, Falls
    <3> QED
      BY <3>1, <3>2
  <2> QED
    BY <2>1 DEF Select, Falls, Types, CellTypes, buffers
<1>4. FieldTypes'
  BY DEF Select, Types, FieldTypes, driver
<1> QED
  BY <1>2, <1>3, <1>4 DEF Types

LEMMA SentTypes ==
  ASSUME NEW p \in Seq(Bytes), Len(p) <= 2, NEW b \in Bytes
  PROVE  Sent(p, b) \in Seq(Bytes) /\ Len(Sent(p, b)) <= 2
<1>1. CASE Len(p) < 2
  BY <1>1 DEF Sent
<1>2. CASE ~(Len(p) < 2)
  <2>1. p[1] \in Bytes
    BY <1>2
  <2> QED
    BY <1>2, <2>1 DEF Sent
<1> QED
  BY <1>1, <1>2

LEMMA TypesCommand ==
  ASSUME Types, NEW t \in Tasks, Command(t) PROVE Types'
<1>1. InCall(t) /\ Place(t) # 30
  BY Places DEF Command, Runs, Types
<1>2. TaskTypes'
  BY <1>1, TypesStay DEF Command, Types
<1>3. CellTypes'
  <2>1. Byte(Statement(t)) \in Bytes
    BY ByteTypes DEF Command, Tags
  <2>2. pipe' \in Seq(Bytes) /\ Len(pipe') <= 2
    BY <2>1, SentTypes DEF Command, Types, CellTypes
  <2> QED
    BY <2>2 DEF Command, Types, CellTypes, buffers
<1>4. FieldTypes'
  BY DEF Command, Types, FieldTypes, driver
<1> QED
  BY <1>2, <1>3, <1>4 DEF Types

LEMMA TypesNotified ==
  ASSUME Types, NEW t \in Tasks, Notified(t) PROVE Types'
<1>1. InCall(t) /\ Place(t) # 30
  BY Places DEF Notified, Runs, Types
<1>2. TaskTypes'
  <2>1. exit_code' \in [Tasks -> 0 .. 1] /\ notified' \in [Tasks -> 0 .. 1]
    BY DEF Notified, Types, TaskTypes
  <2> QED
    BY <1>1, <2>1, GoesOn DEF Notified, Types
<1>3. CellTypes'
  BY DEF Notified, Types, CellTypes, line, buffers
<1>4. FieldTypes'
  BY DEF Notified, Types, FieldTypes, driver
<1> QED
  BY <1>2, <1>3, <1>4 DEF Types

LEMMA TypesTimesOut ==
  ASSUME Types, NEW t \in Tasks, TimesOut(t) PROVE Types'
<1>1. InCall(t) /\ Place(t) # 30
  BY Places DEF TimesOut, Runs, Types
<1>2. TaskTypes'
  <2>1. exit_code' \in [Tasks -> 0 .. 1] /\ notified' \in [Tasks -> 0 .. 1]
    BY DEF TimesOut, Types, TaskTypes
  <2> QED
    BY <1>1, <2>1, GoesOn DEF TimesOut, Types
<1>3. CellTypes'
  BY DEF TimesOut, Types, CellTypes, line, buffers
<1>4. FieldTypes'
  BY DEF TimesOut, Types, FieldTypes, driver
<1> QED
  BY <1>2, <1>3, <1>4 DEF Types

LEMMA TypesDelay ==
  ASSUME Types, NEW t \in Tasks, Delay(t) PROVE Types'
<1>1. InCall(t) /\ Place(t) # 30
  BY Places DEF Delay, Runs, Types
<1>2. TaskTypes'
  BY <1>1, TypesStay DEF Delay, Types
<1>3. CellTypes'
  BY DEF Delay, Types, CellTypes, line, buffers
<1>4. FieldTypes'
  BY DEF Delay, Types, FieldTypes, driver
<1> QED
  BY <1>2, <1>3, <1>4 DEF Types

LEMMA TypesCycleEnds ==
  ASSUME Types, CycleEnds PROVE Types'
<1>1. CellTypes'
  BY DEF CycleEnds, Types, CellTypes, buffers
<1>2. FieldTypes'
  BY DEF CycleEnds, Types, FieldTypes, driver
<1>3. TaskTypes'
  BY DEF CycleEnds, Types, TaskTypes, tasks, Length, Writes, InCall
<1> QED
  BY <1>1, <1>2, <1>3 DEF Types

LEMMA TypesBegin ==
  ASSUME Types, NEW t \in Tasks, Begin(t) PROVE Types'
<1>1. CellTypes'
  BY DEF Begin, Types, CellTypes, buffers, line
<1>2. FieldTypes'
  BY DEF Begin, Types, FieldTypes, driver
<1>3. TaskTypes'
  <2>1. PICK o \in Ops[t] : op' = [op EXCEPT ![t] = o]
    BY DEF Begin
  <2>2. /\ op' \in [Tasks -> UNION {Ops[u] : u \in Tasks}] /\ op'[t] = o
        /\ \A u \in Tasks : u # t => op'[u] = op[u]
    BY <2>1 DEF Types, TaskTypes
  <2>3. calls' = calls + 1 /\ calls' \in 0 .. MaxCalls /\ calls' \in 1 .. calls'
    <3>1. calls < MaxCalls /\ calls' = calls + 1
      BY DEF Begin
    <3>2. calls \in 0 .. MaxCalls
      BY DEF Types, TaskTypes
    <3> QED
      BY <3>1, <3>2, Numbers
  <2>4. /\ number' \in [Tasks -> 0 .. MaxCalls] /\ number'[t] = calls'
        /\ \A u \in Tasks : u # t => number'[u] = number[u]
    BY <2>3 DEF Begin, Types, TaskTypes
  <2>5. /\ done' \in [Tasks -> Nat] /\ done'[t] = 0
        /\ \A u \in Tasks : u # t => done'[u] = done[u]
    BY DEF Begin, Types, TaskTypes
  <2>6. /\ at' \in [Tasks -> Nat] /\ at'[t] = 1
        /\ \A u \in Tasks : u # t => at'[u] = at[u]
    BY DEF Begin, Types, TaskTypes
  <2>7. /\ result' \in [Tasks -> {"none", "error", "EEPROM_OK"}]
        /\ exit_code' \in [Tasks -> 0 .. 1] /\ notified' \in [Tasks -> 0 .. 1]
    BY DEF Begin, Types, TaskTypes
  <2>8. clean' \in [Tasks -> BOOLEAN]
    BY DEF Begin, Types, TaskTypes
  <2>9. disturbed' \in BOOLEAN
    BY DEF Begin
  <2>10. o.size \in 1 .. RECORD_SIZE
    BY OpTypes
  <2>11. ASSUME NEW u \in Tasks
         PROVE  /\ op'[u] \in Ops[u] /\ at'[u] <= Length(u)' /\ done'[u] < op'[u].size
                /\ ~Writes(u)' => done'[u] = 0
                /\ InCall(u)' => number'[u] \in 1 .. calls'
    <3>1. CASE u = t
      <4>1. /\ op'[u] = o /\ at'[u] = 1 /\ done'[u] = 0 /\ number'[u] = calls'
        BY <2>2, <2>4, <2>5, <2>6, <3>1
      <4>2. 1 <= Length(u)'
        BY DEF Length
      <4>3. calls' \in 1 .. calls' /\ 0 < o.size
        BY <2>3, <2>10
      <4> QED
        BY <3>1, <4>1, <4>2, <4>3
    <3>2. CASE u # t
      <4>1. /\ op'[u] = op[u] /\ at'[u] = at[u] /\ done'[u] = done[u] /\ number'[u] = number[u]
        BY <2>2, <2>4, <2>5, <2>6, <3>2
      <4> QED
        BY <2>3, <4>1 DEF Types, TaskTypes, Length, Writes, InCall
    <3> QED
      BY <3>1, <3>2
  <2> QED
    BY <2>2, <2>3, <2>4, <2>5, <2>6, <2>7, <2>8, <2>9, <2>11 DEF TaskTypes
<1> QED
  BY <1>1, <1>2, <1>3 DEF Types

(* The chip at a rising edge of NSS. *)
LEMMA RisesTypes ==
  ASSUME CellTypes, Rises
  PROVE  /\ mem' \in [Cells -> Bytes] /\ WEL' \in BOOLEAN /\ busy' \in BOOLEAN
         /\ chip' \in [mode : Modes, ptr : Cells, latch : [0 .. SECTOR_SIZE - 1 -> Bytes]]
         /\ NSS' = "high"
<1>1. \A c \in Cells : chip.latch[c % SECTOR_SIZE] \in Bytes
  <2>1. \A c \in Cells : c % SECTOR_SIZE \in 0 .. SECTOR_SIZE - 1
    BY Numbers, SectorBase DEF Cells
  <2> QED
    BY <2>1 DEF CellTypes
<1>2. mem' \in [Cells -> Bytes]
  BY <1>1 DEF Rises, CellTypes
<1>3. WEL' \in BOOLEAN /\ busy' \in BOOLEAN
  BY Zenon DEF Rises, CellTypes
<1> QED
  BY <1>2, <1>3, ChipDeselected DEF Rises

LEMMA TypesRelease ==
  ASSUME Types, NEW t \in Tasks, Release(t) PROVE Types'
<1>1. InCall(t)
  BY DEF Release, Runs
<1>2. CellTypes'
  <2>1. Rises /\ UNCHANGED <<sector_buffer, pData, pipe>>
    BY DEF Release, buffers
  <2> QED
    BY <2>1, RisesTypes DEF Types, CellTypes
<1>3. FieldTypes'
  BY DEF Release, Types, FieldTypes, driver
<1>4. TaskTypes'
  <2> DEFINE left == byte_to_send(t) - cur_len(t)
  <2>1. UNCHANGED <<op, number, exit_code, notified, calls, clean, disturbed>>
    BY DEF Release
  <2>2. /\ at'[t] \in Nat /\ at'[t] <= Length(t) /\ at' = [at EXCEPT ![t] = at'[t]]
    <3>1. CASE at[t] = Len(Statements(t)) \/ exit_code[t] = 0
      <4>1. at' = [at EXCEPT ![t] = 0] \/ at' = [at EXCEPT ![t] = 1]
        BY <3>1 DEF Release
      <4> QED
        BY <4>1 DEF Length, Types, TaskTypes
    <3>2. CASE ~(at[t] = Len(Statements(t)) \/ exit_code[t] = 0)
      <4>1. Goes(t)
        BY <3>2 DEF Release
      <4>2. at[t] # Length(t) /\ at[t] \in Nat /\ at[t] <= Length(t)
        BY <3>2, Ends DEF Types, TaskTypes
      <4>3. Length(t) \in Nat
        BY DEF Length
      <4>4. at' = [at EXCEPT ![t] = at[t] + 1] /\ at'[t] = at[t] + 1
        BY <4>1 DEF Goes, Types, TaskTypes
      <4>5. at[t] + 1 \in Nat /\ at[t] + 1 <= Length(t)
        BY <4>2, <4>3
      <4> QED
        BY <4>4, <4>5
    <3> QED
      BY <3>1, <3>2
  <2>3. /\ done' \in [Tasks -> Nat] /\ done'[t] < op[t].size /\ (~Writes(t) => done'[t] = 0)
        /\ \A u \in Tasks : u # t => done'[u] = done[u]
    <3>1. CASE done' = done
      BY <3>1 DEF Types, TaskTypes
    <3>2. CASE done' # done
      <4>1. Writes(t) /\ left > 0 /\ done' = [done EXCEPT ![t] = @ + cur_len(t)]
        BY <3>2 DEF Release, Writes
      <4>2. done[t] \in Nat /\ cur_len(t) \in Nat /\ op[t].size \in Nat
        BY Lengths, Numbers DEF Types
      <4>3. done[t] + cur_len(t) < op[t].size
        BY <4>1, <4>2 DEF byte_to_send
      <4> QED
        BY <4>1, <4>2, <4>3 DEF Types, TaskTypes
    <3> QED
      BY <3>1, <3>2
  <2>4. result' \in [Tasks -> {"none", "error", "EEPROM_OK"}]
    BY DEF Release, Types, TaskTypes
  <2>5. at' \in [Tasks -> Nat] /\ \A u \in Tasks : u # t => at'[u] = at[u]
    BY <2>2 DEF Types, TaskTypes
  <2>6. ASSUME NEW u \in Tasks
        PROVE  /\ op'[u] \in Ops[u] /\ at'[u] <= Length(u)' /\ done'[u] < op'[u].size
               /\ ~Writes(u)' => done'[u] = 0
               /\ InCall(u)' => number'[u] \in 1 .. calls'
    <3>1. Length(u)' = Length(u) /\ (Writes(u)' <=> Writes(u))
      BY <2>1 DEF Length, Writes
    <3>2. InCall(u)' => InCall(u)
      BY <1>1, <2>5 DEF InCall
    <3> QED
      BY <2>1, <2>2, <2>3, <2>5, <3>1, <3>2 DEF Types, TaskTypes
  <2> QED
    BY <2>1, <2>3, <2>4, <2>5, <2>6 DEF Types, TaskTypes
<1> QED
  BY <1>2, <1>3, <1>4 DEF Types

LEMMA MisoTypes == ASSUME CellTypes PROVE \A b \in Miso : b \in Bytes
<1>1. \A tag \in {"ones", "ready"} : Byte(tag) \in Bytes
  BY ByteTypes DEF Tags
<1>2. mem[chip.ptr] \in Bytes
  BY DEF CellTypes
<1> QED
  BY <1>1, <1>2 DEF Miso

LEMMA ChipTakesTypes ==
  ASSUME CellTypes, NEW b \in Bytes, ChipTakes(b)
  PROVE  chip' \in [mode : Modes, ptr : Cells, latch : [0 .. SECTOR_SIZE - 1 -> Bytes]]
<1> DEFINE ChipType == [mode : Modes, ptr : Cells, latch : [0 .. SECTOR_SIZE - 1 -> Bytes]]
<1>1. chip \in ChipType
  BY DEF CellTypes
<1>2. \A m \in Modes : [chip EXCEPT !.mode = m] \in ChipType
  BY <1>1
<1>3. \A m \in Modes, a \in Cells : [chip EXCEPT !.ptr = a, !.mode = m] \in ChipType
  BY <1>1
<1>4. CASE NSS = "high"
  BY <1>1, <1>4 DEF ChipTakes
<1>5. CASE NSS # "high" /\ chip.mode = "command"
  <2> DEFINE next == CASE b[1] = "RDSR" -> "status"
                       [] b[1] = "WREN"  /\ ~busy -> "enable"
                       [] b[1] = "READ"  /\ ~busy -> "read_hi"
                       [] b[1] = "WRITE" /\ ~busy /\ WEL -> "write_hi"
                       [] OTHER -> "ignored"
  <2>1. chip' = [chip EXCEPT !.mode = next]
    BY <1>5 DEF ChipTakes
  <2>2. next \in {"status", "enable", "read_hi", "write_hi", "ignored"}
    OBVIOUS
  <2> HIDE DEF next
  <2>3. next \in Modes
    BY <2>2 DEF Modes
  <2> QED
    BY <1>2, <2>1, <2>3
<1>6. CASE NSS # "high" /\ chip.mode \in {"read_hi", "write_hi"}
  <2>1. \A a \in IF b[1] = "high" THEN {b[2]} ELSE Cells : a \in Cells
    BY ByteTypes
  <2>2. \E a \in Cells, m \in Modes : chip' = [chip EXCEPT !.ptr = a, !.mode = m]
    BY <1>6, <2>1 DEF ChipTakes, Modes
  <2> QED
    BY <1>3, <2>2
<1>7. CASE NSS # "high" /\ chip.mode \in {"read_lo", "write_lo"}
  <2>1. chip.ptr \in Cells
    BY <1>1
  <2>2. \E a \in Cells, m \in Modes : chip' = [chip EXCEPT !.ptr = a, !.mode = m]
    BY <1>7, <2>1 DEF ChipTakes, Modes
  <2> QED
    BY <1>3, <2>2
<1>8. CASE NSS # "high" /\ chip.mode = "reading"
  <2>1. chip' = [chip EXCEPT !.ptr = (@ + 1) % EEPROM_SIZE]
    BY <1>8 DEF ChipTakes
  <2>2. (chip.ptr + 1) % EEPROM_SIZE \in Cells
    BY <1>1, Numbers
  <2> QED
    BY <1>1, <2>1, <2>2
<1>9. CASE NSS # "high" /\ chip.mode = "writing"
  <2> DEFINE i == chip.ptr % SECTOR_SIZE
             base == chip.ptr - i
  <2>1. chip' = [chip EXCEPT !.latch[i] = b, !.ptr = chip.ptr - i + ((i + 1) % SECTOR_SIZE)]
    BY <1>9 DEF ChipTakes
  <2>2. chip.ptr \in Nat /\ chip.ptr < EEPROM_SIZE
    BY <1>1, Numbers
  <2>3. i \in 0 .. SECTOR_SIZE - 1 /\ base \in Nat /\ base + SECTOR_SIZE <= EEPROM_SIZE
    BY <2>2, Numbers, SectorBase, SectorEnd
  <2>4. (i + 1) % SECTOR_SIZE \in 0 .. SECTOR_SIZE - 1
    <3>1. i + 1 \in Nat
      BY <2>3, Numbers
    <3> QED
      BY <3>1, Numbers, SectorBase
  <2>5. chip.ptr - i + ((i + 1) % SECTOR_SIZE) \in Cells
    BY <2>3, <2>4, Numbers
  <2> HIDE DEF i, base
  <2>6. chip' \in ChipType
    BY <1>1, <2>1, <2>3, <2>5
  <2> QED
    BY <2>6
<1>10. CASE /\ NSS # "high"
            /\ chip.mode \notin {"command", "read_hi", "write_hi", "read_lo", "write_lo", "reading",
                                 "writing"}
  <2>1. chip' = chip \/ chip' = [chip EXCEPT !.mode = "ignored"]
    BY <1>10 DEF ChipTakes
  <2>2. "ignored" \in Modes
    BY DEF Modes
  <2> QED
    BY <1>1, <1>2, <2>1, <2>2
<1> QED
  BY <1>4, <1>5, <1>6, <1>7, <1>8, <1>9, <1>10

(* What the interrupt may change. *)
CallBackTypes ==
    /\ state \in States /\ data_index \in 0 .. SECTOR_SIZE
    /\ pipe \in Seq(Bytes) /\ Len(pipe) <= 2
    /\ sector_buffer \in [0 .. SECTOR_SIZE - 1 -> Bytes]
    /\ pData \in [0 .. RECORD_SIZE - 1 -> Bytes]
    /\ notified \in [Tasks -> 0 .. 1]

LEMMA SendsTypes ==
  ASSUME CallBackTypes, NEW b \in Bytes, NEW next \in States,
         NEW rest \in Seq(Bytes), Len(rest) <= 2, Sends(b, next, rest)
  PROVE  CallBackTypes'
  BY SentTypes DEF CallBackTypes, Sends, buffers

LEMMA NotifiesTypes ==
  ASSUME CallBackTypes, NotifyTaskHandle \in Tasks, NEW rest \in Seq(Bytes), Len(rest) <= 2,
         Notifies(rest)
  PROVE  /\ notified' \in [Tasks -> 0 .. 1] /\ pipe' \in Seq(Bytes) /\ Len(pipe') <= 2
  BY DEF CallBackTypes, Notifies

LEMMA ReadsDataTypes ==
  ASSUME CallBackTypes, NotifyTaskHandle \in Tasks, NEW rest \in Seq(Bytes), Len(rest) <= 2,
         NEW b \in Bytes, ReadsData(b, rest)
  PROVE  CallBackTypes'
<1>1. data_index' \in 0 .. SECTOR_SIZE /\ state' = state
  BY Numbers DEF ReadsData, Capped, CallBackTypes
<1>2. /\ sector_buffer' \in [0 .. SECTOR_SIZE - 1 -> Bytes]
      /\ pData' \in [0 .. RECORD_SIZE - 1 -> Bytes]
  BY DEF ReadsData, Stored, CallBackTypes
<1>3. /\ notified' \in [Tasks -> 0 .. 1] /\ pipe' \in Seq(Bytes) /\ Len(pipe') <= 2
  <2>1. CASE data_index' < data_size
    <3>1. Byte("zero") \in Bytes
      BY ByteTypes DEF Tags
    <3>2. pipe' = Sent(rest, Byte("zero")) /\ notified' = notified
      BY <2>1 DEF ReadsData
    <3> QED
      BY <3>1, <3>2, SentTypes DEF CallBackTypes
  <2>2. CASE ~(data_index' < data_size)
    BY <2>2, NotifiesTypes DEF ReadsData
  <2> QED
    BY <2>1, <2>2
<1> QED
  BY <1>1, <1>2, <1>3 DEF CallBackTypes

LEMMA WritesDataTypes ==
  ASSUME CallBackTypes, FieldTypes, NEW rest \in Seq(Bytes), Len(rest) <= 2, WritesData(rest)
  PROVE  CallBackTypes'
<1>1. UNCHANGED <<state, sector_buffer, pData>>
  BY DEF WritesData, buffers
<1>2. CASE data_index < data_size
  <2>1. /\ pipe' = Sent(rest, BufferOf[data_index]) /\ data_index' = data_index + 1
        /\ notified' = notified
    BY <1>2 DEF WritesData
  <2>2. data_index \in 0 .. RECORD_SIZE - 1 /\ data_index \in 0 .. SECTOR_SIZE - 1
    BY <1>2, Numbers DEF FieldTypes
  <2>3. BufferOf[data_index] \in Bytes
    BY <2>2 DEF BufferOf, CallBackTypes
  <2>4. data_index' \in 0 .. SECTOR_SIZE
    BY <2>1, <2>2, Numbers
  <2> QED
    BY <1>1, <2>1, <2>3, <2>4, SentTypes DEF CallBackTypes
<1>3. CASE ~(data_index < data_size)
  BY <1>1, <1>3, NotifiesTypes DEF WritesData, CallBackTypes, FieldTypes
<1> QED
  BY <1>2, <1>3

LEMMA ReadCallBackTypes ==
  ASSUME CallBackTypes, FieldTypes, NEW rest \in Seq(Bytes), Len(rest) <= 2,
         NEW b \in Bytes, ReadCallBack(b, rest)
  PROVE  CallBackTypes'
<1>1. /\ High(data_addres) \in Bytes /\ Low(data_addres) \in Bytes /\ Byte("zero") \in Bytes
      /\ Byte("RDSR") \in Bytes
  BY ByteTypes DEF FieldTypes, Tags
<1>2. NotifyTaskHandle \in Tasks
  BY DEF FieldTypes
<1>3. CASE \E x \in Bytes, next \in States : Sends(x, next, rest)
  BY <1>3, SendsTypes
<1>4. CASE Notifies(rest) /\ UNCHANGED <<state, data_index, buffers>>
  BY <1>2, <1>4, NotifiesTypes DEF CallBackTypes, buffers
<1>5. CASE ReadsData(b, rest)
  BY <1>2, <1>5, ReadsDataTypes
<1>6. CASE WritesData(rest)
  BY <1>6, WritesDataTypes
<1>7. CASE pipe' = rest /\ UNCHANGED <<state, data_index, buffers, notified>>
  BY <1>7 DEF CallBackTypes, buffers
<1>8. \A s \in {"READ_ADDR_WRITE_STATE1", "READ_DATA_READ_STATE1", "READ_DATA_READ_STATE",
               "WRITE_ADDR_WRITE_STATE1", "WRITE_DATA_WRITE_STATE", state} : s \in States
  BY DEF States, FieldTypes
<1>9. CASE state = "READ_STATUS_STATE"
  <2>1. ReadsStatus(b, rest)
    BY <1>9 DEF ReadCallBack
  <2> QED
    BY <1>1, <1>3, <1>4, <1>8, <2>1 DEF ReadsStatus
<1>10. CASE state # "READ_STATUS_STATE"
  BY <1>1, <1>3, <1>4, <1>5, <1>6, <1>7, <1>8, <1>10 DEF ReadCallBack
<1> QED
  BY <1>9, <1>10

LEMMA TypesTransfer == ASSUME Types, Transfer PROVE Types'
<1>1. Head(pipe) \in Bytes /\ Tail(pipe) \in Seq(Bytes) /\ Len(Tail(pipe)) <= 2
  BY HeadTailProperties DEF Transfer, Types, CellTypes
<1>2. PICK b \in Bytes : ReadCallBack(b, Tail(pipe))
  BY MisoTypes DEF Transfer, Types
<1>3. CallBackTypes
  BY DEF CallBackTypes, Types, CellTypes, FieldTypes, TaskTypes
<1>4. CallBackTypes'
  BY <1>1, <1>2, <1>3, ReadCallBackTypes DEF Types
<1>5. UNCHANGED <<data_addres, pdata, data_size, NotifyTaskHandle, NSS, WEL, busy, mem,
                  op, number, done, at, exit_code, result, calls, clean, disturbed>>
  BY DEF Transfer
<1>6. CellTypes'
  <2>1. ChipTakes(Head(pipe))
    BY DEF Transfer
  <2> QED
    BY <1>1, <1>4, <1>5, <2>1, ChipTakesTypes DEF CallBackTypes, Types, CellTypes
<1>7. FieldTypes'
  BY <1>4, <1>5 DEF CallBackTypes, Types, FieldTypes
<1>8. TaskTypes'
  BY <1>4, <1>5 DEF CallBackTypes, Types, TaskTypes, Length, Writes, InCall
<1> QED
  BY <1>6, <1>7, <1>8 DEF Types

LEMMA TypesNext == ASSUME Types, [Next]_vars PROVE Types'
<1>1. CASE UNCHANGED vars
  <2>1. CellTypes' /\ FieldTypes'
    BY <1>1 DEF vars, driver, buffers, line, Types, CellTypes, FieldTypes
  <2>2. TaskTypes'
    BY <1>1 DEF vars, tasks, Types, TaskTypes, Length, Writes, InCall
  <2> QED
    BY <2>1, <2>2 DEF Types
<1>2. CASE Transfer
  BY <1>2, TypesTransfer
<1>3. CASE CycleEnds
  BY <1>3, TypesCycleEnds
<1>4. ASSUME NEW t \in Tasks, Begin(t) PROVE Types'
  BY <1>4, TypesBegin
<1>5. ASSUME NEW t \in Tasks, Step(t) PROVE Types'
  BY <1>5, TypesMemcpy, TypesSetState, TypesSetHandle, TypesSetField, TypesSelect, TypesCommand,
     TypesNotified, TypesTimesOut, TypesDelay, TypesRelease DEF Step
<1> QED
  BY <1>1, <1>2, <1>3, <1>4, <1>5 DEF Next

LEMMA TypesAlways == Spec => []Types
  BY TypesInit, TypesNext, PTL DEF Spec

(* Whatever meets whatever, at most two bytes are on their way, and every field of the     *)
(* driver, every place in a buffer and every address stays in its range (EEPROM_25C.c).   *)
THEOREM TypeCorrect == Spec => []TypeOK
<1>1. Types => TypeOK
  <2> SUFFICES ASSUME Types PROVE TypeOK
    OBVIOUS
  <2>1. \A t \in Tasks : op[t].size \in 1 .. RECORD_SIZE
    BY OpTypes DEF Types, TaskTypes
  <2>2. data_size \in 0 .. SECTOR_SIZE
    BY Numbers DEF Types, FieldTypes
  <2>3. \A t \in Tasks : at[t] \in 0 .. Len(Statements(t))
    <3> SUFFICES ASSUME NEW t \in Tasks PROVE at[t] \in 0 .. Len(Statements(t))
      OBVIOUS
    <3>1. at[t] \in Nat /\ at[t] <= Length(t)
      BY DEF Types, TaskTypes
    <3>2. Length(t) \in Nat
      BY DEF Length
    <3> QED
      BY <3>1, <3>2, Ends
  <2>4. \A t \in Tasks : done[t] \in 0 .. op[t].size
    <3> SUFFICES ASSUME NEW t \in Tasks PROVE done[t] \in 0 .. op[t].size
      OBVIOUS
    <3>1. done[t] \in Nat /\ done[t] < op[t].size
      BY DEF Types, TaskTypes
    <3>2. op[t].size \in Nat
      BY <2>1, Numbers
    <3> QED
      BY <3>1, <3>2
  <2> QED
    BY <2>2, <2>3, <2>4 DEF TypeOK, Types, CellTypes, FieldTypes, TaskTypes
<1> QED
  BY <1>1, TypesAlways, PTL

-----------------------------------------------------------------------------
(* A call that is alone, statement by statement. *)

LEMMA Steady ==
  ASSUME NEW t, UNCHANGED <<op, done>>
  PROVE  /\ cur_addr(t)' = cur_addr(t) /\ Offset(t)' = Offset(t) /\ cur_len(t)' = cur_len(t)
         /\ Writes(t)' <=> Writes(t)
  BY DEF cur_addr, Offset, cur_len, byte_to_send, Writes

(* Between two statements that leave the line alone. *)
LEMMA RestStays ==
  ASSUME NEW t, NEW p \in {2, 3, 8, 9, 15, 16, 17, 18, 19, 20, 21, 27}, LineAt(t, p),
         UNCHANGED <<NSS, pipe, chip, notified>>
  PROVE  LineAt(t, p + 1)'
<1>1. CASE p = 27
  <2>1. Selected("command") /\ Silent(t)
    BY <1>1 DEF LineAt
  <2>2. Selected("command")' /\ Silent(t)'
    BY <2>1 DEF Selected, Silent
  <2> QED
    BY <1>1, <2>2 DEF LineAt
<1>2. CASE p # 27
  <2>1. NSS = "high" /\ Silent(t)
    BY <1>2 DEF LineAt
  <2>2. NSS' = "high" /\ Silent(t)'
    BY <2>1 DEF Silent
  <2>3. /\ p + 1 \in 1 .. 4 \cup 8 .. 10 \cup 15 .. 22 \cup {26}
        /\ p + 1 \notin {5, 6, 7, 11, 12, 13, 14, 23, 24, 25, 27, 28, 29, 30}
    BY <1>2
  <2> QED
    BY <2>2, <2>3 DEF LineAt
<1> QED
  BY <1>1, <1>2

LEMMA AtMemcpy ==
  ASSUME Types, NEW t \in Tasks, At(t, 1), Memcpy(t)
  PROVE  At(t, 2)'
<1>1. LineAt(t, 2)'
  BY DEF At, LineAt, Memcpy, line, StaysOn, Silent
<1>2. FieldsAt(t, 2)'
  BY DEF FieldsAt
<1>3. ChipAt(t, 2)'
  <2>1. UNCHANGED <<op, done, number, mem>>
    BY DEF Memcpy, line, StaysOn
  <2>2. \A i \in 0 .. cur_len(t) - 1 : sector_buffer'[i] = Data(number[t], done[t] + i)
    <3>1. \A i \in 0 .. cur_len(t) - 1 : i \in DOMAIN sector_buffer /\ i < cur_len(t)
      BY Lengths, Numbers DEF Types, CellTypes
    <3> QED
      BY <3>1 DEF Memcpy
  <2> QED
    BY <2>1, <2>2, Steady DEF At, ChipAt
<1> QED
  BY <1>1, <1>2, <1>3 DEF At

LEMMA AtSetState ==
  ASSUME Types, NEW t \in Tasks, InCall(t), NEW p \in {2, 8, 20, 27}, Place(t) = p, At(t, p), SetState(t)
  PROVE  At(t, p + 1)'
<1>1. /\ state' = Statement(t)
      /\ UNCHANGED <<data_addres, pdata, data_size, data_index, NotifyTaskHandle, sector_buffer,
                     NSS, pipe, chip, WEL, busy, mem, op, number, done, exit_code, notified>>
  BY DEF SetState, line, buffers, StaysOn
<1>2. LineAt(t, p + 1)'
  BY <1>1, RestStays DEF At
<1>3. FieldsAt(t, p + 1)'
  <2>1. /\ p \in {2, 20} => Statement(t) = "READ_STATUS_STATE"
        /\ p = 8 => Statement(t) = "WRITE_COMMAND_STATE"
        /\ p = 27 => Statement(t) = IF Writes(t) THEN "WRITE_ADDR_WRITE_STATE"
                                                ELSE "READ_ADDR_WRITE_STATE"
    BY Places DEF Types
  <2> QED
    BY <1>1, <2>1, Steady DEF At, FieldsAt
<1>4. ChipAt(t, p + 1)'
  BY <1>1, Steady DEF At, ChipAt
<1> QED
  BY <1>2, <1>3, <1>4 DEF At

LEMMA AtSetHandle ==
  ASSUME NEW t \in Tasks, NEW p \in {3, 9, 19, 21}, At(t, p), SetHandle(t)
  PROVE  At(t, p + 1)'
<1>1. /\ NotifyTaskHandle' = t
      /\ UNCHANGED <<state, data_addres, pdata, data_size, data_index, sector_buffer,
                     NSS, pipe, chip, WEL, busy, mem, op, number, done, exit_code, notified>>
  BY DEF SetHandle, line, buffers, StaysOn
<1>2. LineAt(t, p + 1)'
  BY <1>1, RestStays DEF At
<1>3. FieldsAt(t, p + 1)'
  BY <1>1, Steady DEF At, FieldsAt
<1>4. ChipAt(t, p + 1)'
  BY <1>1, Steady DEF At, ChipAt
<1> QED
  BY <1>2, <1>3, <1>4 DEF At

LEMMA AtSetField ==
  ASSUME Types, NEW t \in Tasks, InCall(t), NEW p \in 15 .. 18, Place(t) = p, At(t, p), SetField(t)
  PROVE  At(t, p + 1)'
<1>1. UNCHANGED <<state, NotifyTaskHandle, sector_buffer,
                  NSS, pipe, chip, WEL, busy, mem, op, number, done, exit_code, notified>>
  BY DEF SetField, line, buffers, StaysOn
<1>2. LineAt(t, p + 1)'
  BY <1>1, RestStays DEF At
<1>3. FieldsAt(t, p + 1)'
  <2>1. /\ p = 15 => data_addres' = cur_addr(t)
        /\ p = 16 => /\ pdata' = IF Writes(t) THEN "sector_buffer" ELSE "pData"
                     /\ data_addres' = data_addres
        /\ p = 17 => /\ data_size' = IF Writes(t) THEN cur_len(t) ELSE op[t].size
                     /\ data_addres' = data_addres /\ pdata' = pdata
        /\ p = 18 => /\ data_index' = 0 /\ data_addres' = data_addres /\ pdata' = pdata
                     /\ data_size' = data_size
    BY Places DEF SetField, Types, Writes
  <2> QED
    BY <1>1, <2>1, Steady DEF At, FieldsAt
<1>4. ChipAt(t, p + 1)'
  BY <1>1, Steady DEF At, ChipAt
<1> QED
  BY <1>2, <1>3, <1>4 DEF At

LEMMA AtDelay ==
  ASSUME NEW t \in Tasks, At(t, 13), Delay(t)
  PROVE  At(t, 14)'
<1>1. UNCHANGED <<driver, buffers, line, op, number, done, exit_code, notified>>
  BY DEF Delay, StaysOn
<1>2. LineAt(t, 14)'
  BY <1>1 DEF At, LineAt, Silent, Selected, line
<1>3. FieldsAt(t, 14)'
  BY <1>1, Steady DEF At, FieldsAt, driver
<1>4. ChipAt(t, 14)'
  BY <1>1, Steady DEF At, ChipAt, line, buffers
<1> QED
  BY <1>2, <1>3, <1>4 DEF At

LEMMA AtSelect ==
  ASSUME NSS = "high" => chip = Deselected,
         NEW t \in Tasks, NEW p \in {4, 10, 22, 26}, At(t, p), Select(t)
  PROVE  At(t, p + 1)'
<1>1. UNCHANGED <<driver, buffers, pipe, WEL, busy, mem, op, number, done, exit_code, notified>>
  BY DEF Select, Falls, StaysOn
<1>2. LineAt(t, p + 1)'
  <2>1. NSS = "high" /\ Silent(t)
    BY DEF At, LineAt
  <2>2. Selected("command")'
    BY <2>1 DEF Select, Falls, Selected, Silent
  <2>3. Silent(t)'
    BY <1>1, <2>1 DEF Silent
  <2> QED
    BY <2>2, <2>3 DEF LineAt
<1>3. FieldsAt(t, p + 1)'
  BY <1>1, Steady DEF At, FieldsAt, driver
<1>4. ChipAt(t, p + 1)'
  BY <1>1, Steady DEF At, ChipAt, buffers
<1> QED
  BY <1>2, <1>3, <1>4 DEF At

LEMMA AtCommand ==
  ASSUME Types, NEW t \in Tasks, InCall(t), NEW p \in {5, 11, 23, 28}, Place(t) = p, At(t, p),
         Command(t)
  PROVE  At(t, p + 1)'
<1>1. UNCHANGED <<driver, buffers, NSS, chip, WEL, busy, mem, op, number, done, exit_code, notified>>
  BY DEF Command, StaysOn
<1>2. LineAt(t, p + 1)'
  <2>1. Selected("command") /\ Silent(t)
    BY DEF At, LineAt
  <2>2. Selected("command")'
    BY <1>1, <2>1 DEF Selected
  <2>3. ASSUME NEW tag, Statement(t) = tag PROVE Heard(t, Byte(tag))'
    <3>1. Sent(<<>>, Byte(tag)) = <<Byte(tag)>>
      BY DEF Sent
    <3> QED
      BY <1>1, <2>1, <2>3, <3>1 DEF Command, Silent, Heard
  <2>4. CASE p \in {5, 23}
    <3>1. Heard(t, Byte("RDSR"))'
      BY <2>3, <2>4, Places DEF Types
    <3> QED
      BY <2>2, <2>4, <3>1 DEF LineAt, AsksStatus
  <2>5. CASE p = 11
    <3>1. Heard(t, Byte("WREN"))'
      BY <2>3, <2>5, Places DEF Types
    <3> QED
      BY <2>2, <2>5, <3>1 DEF LineAt, Unprotects
  <2>6. CASE p = 28 /\ Writes(t)
    <3>1. Heard(t, Byte("WRITE"))'
      BY <2>3, <2>6, Places DEF Types
    <3>2. state' = "WRITE_ADDR_WRITE_STATE" /\ data_index' = 0
      BY <1>1, <2>6 DEF At, FieldsAt, driver
    <3>3. WritesSector(t)' /\ Writes(t)'
      BY <1>1, <2>2, <2>6, <3>1, <3>2 DEF WritesSector, Writes
    <3> QED
      BY <2>6, <3>3 DEF LineAt
  <2>7. CASE p = 28 /\ ~Writes(t)
    <3>1. Heard(t, Byte("READ"))'
      BY <2>3, <2>7, Places DEF Types
    <3>2. state' = "READ_ADDR_WRITE_STATE" /\ data_index' = 0
      BY <1>1, <2>7 DEF At, FieldsAt, driver
    <3>3. ReadsCells(t)' /\ ~Writes(t)'
      BY <1>1, <2>2, <2>7, <3>1, <3>2 DEF ReadsCells, Writes
    <3> QED
      BY <2>7, <3>3 DEF LineAt
  <2> QED
    BY <2>4, <2>5, <2>6, <2>7
<1>3. FieldsAt(t, p + 1)'
  BY <1>1, Steady DEF At, FieldsAt, driver
<1>4. ChipAt(t, p + 1)'
  BY <1>1, Steady DEF At, ChipAt, buffers
<1> QED
  BY <1>2, <1>3, <1>4 DEF At

(* What only reads the cells, the buffers and the place of the call stays true with them. *)
LEMMA LatchedStays ==
  ASSUME NEW t, NEW k, UNCHANGED <<sector_buffer, op, done>>
  PROVE  Latched(t, k)' = Latched(t, k)
  BY Steady DEF Latched

LEMMA AtNotified ==
  ASSUME Types, NEW t \in Tasks, NEW p \in {6, 12, 24, 29}, At(t, p), Notified(t)
  PROVE  At(t, p + 1)'
<1>1. /\ UNCHANGED <<driver, buffers, line, op, number, done>>
      /\ notified[t] = 1 /\ notified'[t] = 0 /\ exit_code'[t] = 1
  BY DEF Notified, Types, TaskTypes
<1>2. LineAt(t, p + 1)'
  <2>1. CASE p \in {6, 24}
    <3>1. pipe = <<>> /\ Selected("status") /\ ~busy
      BY <1>1, <2>1 DEF At, LineAt, AsksStatus, Heard, Answered
    <3>2. StatusKnown(t)'
      BY <1>1, <3>1 DEF StatusKnown, Silent, Selected, line
    <3> QED
      BY <2>1, <3>2 DEF LineAt
  <2>2. CASE p = 12
    <3>1. pipe = <<>> /\ Selected("enable")
      BY <1>1, <2>2 DEF At, LineAt, Unprotects, Heard, Answered
    <3>2. Selected("enable")' /\ Silent(t)'
      BY <1>1, <3>1 DEF Silent, Selected, line
    <3> QED
      BY <1>1, <2>2, <3>2 DEF LineAt
  <2>3. CASE p = 29 /\ Writes(t)
    <3>1. pipe = <<>> /\ Latches(t, cur_len(t))
      BY <1>1, <2>3 DEF At, LineAt, WritesSector, Heard, Answered
    <3>2. Silent(t)' /\ Writes(t)'
      BY <1>1, <2>3, <3>1 DEF Silent, Writes, line
    <3>3. Latches(t, cur_len(t))'
      <4>1. /\ cur_addr(t)' = cur_addr(t) /\ Offset(t)' = Offset(t) /\ cur_len(t)' = cur_len(t)
            /\ Latched(t, cur_len(t)) = Latched(t, cur_len(t))'
        BY <1>1, Steady DEF Latched, buffers
      <4> QED
        BY <1>1, <3>1, <4>1 DEF Latches, line
    <3> QED
      BY <1>1, <2>3, <3>2, <3>3 DEF LineAt
  <2>4. CASE p = 29 /\ ~Writes(t)
    <3>1. pipe = <<>> /\ NSS = "low" /\ chip.mode = "reading" /\ HasRead(t, op[t].size)
      BY <1>1, <2>4 DEF At, LineAt, ReadsCells, Heard, Answered
    <3>2. Silent(t)' /\ ~Writes(t)' /\ NSS' = "low" /\ chip'.mode = "reading"
      BY <1>1, <2>4, <3>1 DEF Silent, Writes, line
    <3>3. HasRead(t, op[t].size)'
      BY <1>1, <3>1, Steady DEF HasRead, line, buffers
    <3> QED
      BY <1>1, <2>4, <3>2, <3>3 DEF LineAt
  <2> QED
    BY <2>1, <2>2, <2>3, <2>4
<1>3. FieldsAt(t, p + 1)'
  BY <1>1, Steady DEF At, FieldsAt, driver
<1>4. ChipAt(t, p + 1)'
  BY <1>1, Steady DEF At, ChipAt, buffers, line
<1> QED
  BY <1>2, <1>3, <1>4 DEF At

LEMMA HeardIsSomething == \A t, b : Heard(t, b) => pipe # <<>> /\ notified[t] = 0
<1>1. \A b : <<b>> # <<>>
  OBVIOUS
<1> QED
  BY <1>1 DEF Heard

LEMMA AtTimesOut ==
  ASSUME Types, NEW t \in Tasks, NEW p \in {6, 12, 24, 29}, At(t, p), clean[t], TimesOut(t)
  PROVE  At(t, p + 1)'
<1>1. /\ UNCHANGED <<driver, buffers, line, op, number, done>>
      /\ notified[t] = 0 /\ exit_code'[t] = 0
      /\ pipe = <<>> \/ state = "READ_STATUS_STATE"
  BY DEF TimesOut, Types, TaskTypes
<1>2. p # 12
  <2> SUFFICES ASSUME p = 12 PROVE FALSE
    OBVIOUS
  <2>1. state = "WRITE_COMMAND_STATE" /\ Heard(t, Byte("WREN"))
    BY <1>1 DEF At, LineAt, FieldsAt, Unprotects, Answered
  <2> QED
    BY <1>1, <2>1, HeardIsSomething
<1>3. p # 29
  <2>1. CASE p = 29 /\ Writes(t)
    <3>1. WritesSector(t)
      BY <2>1 DEF At, LineAt
    <3>2. /\ state \in {"WRITE_ADDR_WRITE_STATE", "WRITE_ADDR_WRITE_STATE1", "WRITE_DATA_WRITE_STATE"}
          /\ \E b : Heard(t, b)
      BY <1>1, <3>1 DEF WritesSector, Answered
    <3> QED
      BY <1>1, <3>2, HeardIsSomething
  <2>2. CASE p = 29 /\ ~Writes(t)
    <3>1. ReadsCells(t)
      BY <2>2 DEF At, LineAt
    <3>2. /\ state \in {"READ_ADDR_WRITE_STATE", "READ_ADDR_WRITE_STATE1", "READ_DATA_READ_STATE1",
                        "READ_DATA_READ_STATE"}
          /\ \E b : Heard(t, b)
      BY <1>1, <3>1 DEF ReadsCells, Answered
    <3> QED
      BY <1>1, <3>2, HeardIsSomething
  <2> QED
    BY <2>1, <2>2
<1>4. LineAt(t, p + 1)'
  <2>1. pipe = <<Byte("RDSR")>> /\ (Selected("command") \/ Selected("status"))
    BY <1>1, <1>2, <1>3 DEF At, LineAt, AsksStatus, Heard, Answered
  <2>2. StatusKnown(t)'
    BY <1>1, <2>1 DEF StatusKnown, Selected, line
  <2> QED
    BY <1>2, <1>3, <2>2 DEF LineAt
<1>5. FieldsAt(t, p + 1)'
  <2>1. CASE p = 6
    BY <1>1, <2>1, Steady DEF At, FieldsAt, driver
  <2>2. CASE p = 24
    BY <1>1, <2>2, Steady DEF At, FieldsAt, driver
  <2> QED
    BY <1>2, <1>3, <2>1, <2>2
<1>6. ChipAt(t, p + 1)'
  BY <1>1, <1>2, <1>3, Steady DEF At, ChipAt, buffers, line
<1> QED
  BY <1>4, <1>5, <1>6 DEF At

(* The end of a transaction. *)
LEMMA RisesPlain ==
  ASSUME CellTypes, chip.mode # "writing", Rises
  PROVE  /\ mem' = mem /\ busy' = busy
         /\ WEL => WEL'
         /\ NSS' = "high" /\ chip' = Deselected
         /\ NSS = "low" /\ pipe = <<>> /\ chip.mode = "enable" => WEL'
<1> DEFINE store == NSS = "low" /\ pipe = <<>> /\ chip.mode = "writing" /\ chip.latch # NoLatch
<1>1. /\ mem' = mem /\ busy' = (busy \/ store) /\ NSS' = "high" /\ chip' = Deselected
      /\ WEL' = IF NSS = "low" /\ pipe = <<>> /\ chip.mode = "enable" THEN TRUE ELSE WEL /\ ~store
  BY DEF Rises
<1>2. ~store
  OBVIOUS
<1> HIDE DEF store
<1>3. busy' = busy
  <2>1. busy \in BOOLEAN
    BY DEF CellTypes
  <2> QED
    BY <1>1, <1>2, <2>1, Zenon
<1>4. WEL => WEL'
  BY <1>1, <1>2, Zenon
<1>5. NSS = "low" /\ pipe = <<>> /\ chip.mode = "enable" => WEL'
  BY <1>1, Zenon
<1> QED
  BY <1>1, <1>3, <1>4, <1>5

LEMMA RisesStoring ==
  ASSUME Types, NEW t \in Tasks, Latches(t, cur_len(t)), pipe = <<>>,
         \A i \in 0 .. cur_len(t) - 1 : sector_buffer[i] = Data(number[t], done[t] + i),
         Rises
  PROVE  \A c \in Cells :
            mem'[c] = IF c \in cur_addr(t) .. cur_addr(t) + cur_len(t) - 1
                      THEN Data(number[t], done[t] + (c - cur_addr(t))) ELSE mem[c]
<1> DEFINE a == cur_addr(t)
           off == Offset(t)
           n == cur_len(t)
           base == a - off
           j == (off + n) % SECTOR_SIZE
           latch == Latched(t, n)
<1>1. /\ a \in Nat /\ off \in 0 .. SECTOR_SIZE - 1 /\ n \in 1 .. SECTOR_SIZE /\ base \in Nat
      /\ off + n <= SECTOR_SIZE /\ SECTOR_SIZE \in Nat \ {0}
  BY Lengths, Numbers DEF Types
<1>2. j \in 0 .. SECTOR_SIZE - 1
  <2>1. off + n \in Nat
    BY <1>1
  <2> QED
    BY <1>1, <2>1, SectorBase
<1>3. \A k \in 0 .. SECTOR_SIZE - 1 : (base + k) % SECTOR_SIZE = k
  BY <1>1, SectorBase DEF Offset
<1>4. chip.ptr = base + j /\ chip.latch = latch /\ chip.mode = "writing" /\ NSS = "low"
  BY DEF Latches
<1>5. \A i \in 0 .. SECTOR_SIZE - 1 : latch[i] = IF i \in off .. off + n - 1
                                                 THEN sector_buffer[i - off] ELSE Byte("none")
  BY DEF Latched
<1>6. \A i \in 0 .. n - 1 : sector_buffer[i] = Data(number[t], done[t] + i)
  OBVIOUS
<1>7. \A k, i : Data(k, i) # Byte("none")
  BY DEF Data, Byte
<1> HIDE DEF a, off, n, j, latch
<1>8. chip.ptr - (chip.ptr % SECTOR_SIZE) = base
  <2>1. chip.ptr % SECTOR_SIZE = j
    BY <1>2, <1>3, <1>4
  <2> QED
    BY <1>1, <1>2, <1>4, <2>1
<1> HIDE DEF base
<1>9. chip.latch # NoLatch
  <2>1. off \in 0 .. SECTOR_SIZE - 1 /\ off \in off .. off + n - 1 /\ off - off = 0 /\ 0 \in 0 .. n - 1
    BY <1>1
  <2>2. latch[off] # Byte("none")
    BY <1>5, <1>6, <1>7, <2>1
  <2>3. NoLatch[off] = Byte("none")
    BY <2>1 DEF NoLatch
  <2> QED
    BY <1>4, <2>2, <2>3
<1>10. mem' = [c \in Cells |-> IF c \in base .. base + SECTOR_SIZE - 1
                                  /\ latch[c % SECTOR_SIZE] # Byte("none")
                               THEN latch[c % SECTOR_SIZE] ELSE mem[c]]
  BY <1>4, <1>8, <1>9 DEF Rises
<1>11. a = base + off
  BY <1>1 DEF base
<1>12. ASSUME NEW c \in Cells
       PROVE  mem'[c] = IF c \in a .. a + n - 1 THEN Data(number[t], done[t] + (c - a)) ELSE mem[c]
  <2>1. c \in Nat
    BY DEF Cells
  <2>2. CASE c \in base .. base + SECTOR_SIZE - 1
    <3> DEFINE i == c - base
    <3>1. i \in 0 .. SECTOR_SIZE - 1 /\ c = base + i
      BY <1>1, <2>1, <2>2
    <3>2. c % SECTOR_SIZE = i
      BY <1>3, <3>1
    <3>3. mem'[c] = IF latch[i] # Byte("none") THEN latch[i] ELSE mem[c]
      BY <1>10, <2>2, <3>2
    <3> HIDE DEF i
    <3>4. CASE i \in off .. off + n - 1
      <4>1. c \in a .. a + n - 1 /\ i - off = c - a /\ i - off \in 0 .. n - 1
        BY <1>1, <1>11, <3>1, <3>4
      <4>2. latch[i] = Data(number[t], done[t] + (i - off))
        BY <1>5, <1>6, <3>1, <3>4, <4>1
      <4> QED
        BY <1>7, <3>3, <4>1, <4>2
    <3>5. CASE i \notin off .. off + n - 1
      <4>1. c \notin a .. a + n - 1
        BY <1>1, <1>11, <3>1, <3>5
      <4>2. latch[i] = Byte("none")
        BY <1>5, <3>1, <3>5
      <4> QED
        BY <3>3, <4>1, <4>2
    <3> QED
      BY <3>4, <3>5
  <2>3. CASE c \notin base .. base + SECTOR_SIZE - 1
    <3>1. c \notin a .. a + n - 1
      BY <1>1, <1>11, <2>1, <2>3
    <3> QED
      BY <1>10, <2>3, <3>1
  <2> QED
    BY <2>2, <2>3
<1> QED
  BY <1>12 DEF a, n

LEMMA SelectedMode == \A mode : Selected(mode) => NSS = "low" /\ chip.mode = mode
  BY DEF Selected, Deselected

LEMMA AtRelease ==
  ASSUME Types, NEW t \in Tasks, NEW p \in {7, 14, 25}, At(t, p), exit_code[t] = 1,
         done' = done, Release(t)
  PROVE  At(t, p + 1)'
<1>1. Rises /\ UNCHANGED <<driver, buffers, pipe, op, number, exit_code, notified, done>>
  BY DEF Release
<1>2. /\ p \in {7, 25} => Silent(t) /\ Selected("status") /\ ~busy
      /\ p = 14 => Silent(t) /\ Selected("enable")
  BY DEF At, LineAt, StatusKnown
<1>3. /\ p \in {7, 25} => chip.mode = "status"
      /\ p = 14 => chip.mode = "enable" /\ NSS = "low"
      /\ pipe = <<>> /\ notified[t] = 0
  BY <1>2, SelectedMode DEF Silent
<1>4. /\ mem' = mem /\ busy' = busy /\ NSS' = "high"
      /\ WEL => WEL'
      /\ p = 14 => WEL'
  BY <1>1, <1>3, RisesPlain DEF Types
<1>5. LineAt(t, p + 1)'
  <2>1. NSS' = "high" /\ Silent(t)'
    BY <1>1, <1>3, <1>4, RisesPlain DEF Silent, Types
  <2> QED
    BY <2>1 DEF LineAt
<1>6. FieldsAt(t, p + 1)'
  BY <1>1, Steady DEF At, FieldsAt, driver
<1>7. ChipAt(t, p + 1)'
  <2>1. p \in {7, 25} => ~busy'
    BY <1>2, <1>4, Zenon
  <2>2. Writes(t)' => p = 7 \/ WEL'
    BY <1>1, <1>4, Steady DEF At, ChipAt
  <2>3. UNCHANGED <<sector_buffer, mem, number, op, done>>
    BY <1>1, <1>4 DEF buffers
  <2> QED
    BY <2>1, <2>2, <2>3, Steady DEF At, ChipAt
<1> QED
  BY <1>5, <1>6, <1>7 DEF At

(* What has been written of a call, when the next sector is stored. *)
LEMMA SectorStored ==
  ASSUME Types, NEW t \in Tasks, Writes(t), At(t, 30), Release(t)
  PROVE  /\ \A i \in 0 .. done[t] + cur_len(t) - 1 : mem'[op[t].adress + i] = Data(number[t], i)
         /\ \A c \in Cells :
              mem'[c] = mem[c] \/ \E i \in Nat : c = op[t].adress + i /\ mem'[c] = Data(number[t], i)
<1> DEFINE a == op[t].adress
           d == done[t]
           n == cur_len(t)
<1>1. /\ Latches(t, n) /\ pipe = <<>>
      /\ \A i \in 0 .. n - 1 : sector_buffer[i] = Data(number[t], d + i)
      /\ \A i \in 0 .. d - 1 : mem[a + i] = Data(number[t], i)
  BY DEF At, LineAt, ChipAt, Silent
<1>2. \A c \in Cells :
         mem'[c] = IF c \in cur_addr(t) .. cur_addr(t) + n - 1
                   THEN Data(number[t], d + (c - cur_addr(t))) ELSE mem[c]
  BY <1>1, RisesStoring DEF Release
<1>3. /\ a \in Nat /\ d \in Nat /\ n \in 1 .. op[t].size - d /\ cur_addr(t) = a + d
      /\ op[t].size \in Nat /\ a + op[t].size <= EEPROM_SIZE
  <2>1. op[t].size \in 1 .. RECORD_SIZE /\ a + op[t].size <= EEPROM_SIZE /\ a \in Nat
    BY OpTypes DEF Types, TaskTypes
  <2> QED
    BY <2>1, Lengths, Numbers DEF Types
<1> HIDE DEF a, d, n
<1>4. \A c \in Cells : mem'[c] = IF c \in a + d .. a + d + n - 1
                                 THEN Data(number[t], d + (c - (a + d))) ELSE mem[c]
  BY <1>2, <1>3
<1>5. ASSUME NEW i \in 0 .. d + n - 1 PROVE mem'[a + i] = Data(number[t], i)
  <2>1. a + i \in Cells
    <3>1. i \in Nat /\ i < op[t].size
      BY <1>3
    <3>2. a + i \in Nat /\ a + i < EEPROM_SIZE
      BY <1>3, <3>1, Numbers
    <3> QED
      BY <3>2, Numbers
  <2>2. CASE i < d
    <3>1. a + i \notin a + d .. a + d + n - 1 /\ i \in 0 .. d - 1
      BY <1>3, <2>2
    <3> QED
      BY <1>1, <1>4, <2>1, <3>1 DEF a, d
  <2>3. CASE ~(i < d)
    <3>1. a + i \in a + d .. a + d + n - 1 /\ d + ((a + i) - (a + d)) = i
      BY <1>3, <2>3
    <3> QED
      BY <1>4, <2>1, <3>1
  <2> QED
    BY <2>2, <2>3
<1>6. ASSUME NEW c \in Cells, mem'[c] # mem[c]
      PROVE  \E i \in Nat : c = a + i /\ mem'[c] = Data(number[t], i)
  <2>1. c \in a + d .. a + d + n - 1 /\ mem'[c] = Data(number[t], d + (c - (a + d)))
    BY <1>4, <1>6
  <2>2. d + (c - (a + d)) \in Nat /\ c = a + (d + (c - (a + d)))
    BY <1>3, <2>1
  <2> QED
    BY <2>1, <2>2
<1> QED
  BY <1>5, <1>6 DEF a, d, n

LEMMA AtNextSector ==
  ASSUME Types, NEW t \in Tasks, Writes(t), At(t, 30), Release(t),
         done' = [done EXCEPT ![t] = @ + cur_len(t)]
  PROVE  At(t, 1)'
<1>1. Rises /\ UNCHANGED <<pipe, op, number, notified>>
  BY DEF Release
<1>2. pipe' = <<>> /\ notified'[t] = 0 /\ NSS' = "high"
  BY <1>1, RisesTypes DEF At, LineAt, Silent, Types
<1>3. LineAt(t, 1)'
  BY <1>2 DEF LineAt, Silent
<1>4. done'[t] = done[t] + cur_len(t)
  BY DEF Types, TaskTypes
<1>5. ChipAt(t, 1)'
  <2>1. \A i \in 0 .. done'[t] - 1 : mem'[op'[t].adress + i] = Data(number'[t], i)
    <3>1. op' = op /\ number' = number
      BY <1>1
    <3>2. \A i \in 0 .. done[t] + cur_len(t) - 1 : mem'[op[t].adress + i] = Data(number[t], i)
      BY SectorStored
    <3>3. op'[t].adress = op[t].adress /\ number'[t] = number[t]
      BY <3>1
    <3>4. ASSUME NEW i \in 0 .. done'[t] - 1
          PROVE  mem'[op'[t].adress + i] = Data(number'[t], i)
      <4>1. i \in 0 .. done[t] + cur_len(t) - 1
        BY <1>4, Lengths DEF Types
      <4>2. mem'[op[t].adress + i] = Data(number[t], i)
        BY <3>2, <4>1
      <4> QED
        BY <3>3, <4>2
    <3> QED
      BY <3>4
  <2> QED
    BY <2>1 DEF ChipAt
<1> QED
  BY <1>3, <1>5 DEF At, FieldsAt

(* A byte of the call's own transfer. *)
LEMMA OwnByte ==
  ASSUME Types, NEW t \in Tasks, NEW b, Heard(t, b), NotifyTaskHandle = t, Transfer
  PROVE  /\ \E read_data \in Miso : ReadCallBack(read_data, <<>>)
         /\ ChipTakes(b)
         /\ \A x, next : Sends(x, next, <<>>) => Heard(t, x)' /\ state' = next
         /\ \A x : pipe' = Sent(<<>>, x) /\ notified' = notified => Heard(t, x)'
         /\ Notifies(<<>>) => Answered(t)'
<1>1. Head(<<b>>) = b /\ Tail(<<b>>) = <<>>
  OBVIOUS
<1>2. \A x : Sent(<<>>, x) = <<x>>
  BY DEF Sent
<1>3. pipe = <<b>> /\ notified[t] = 0
  BY DEF Heard
<1>4. (\E read_data \in Miso : ReadCallBack(read_data, <<>>)) /\ ChipTakes(b)
  BY <1>1, <1>3 DEF Transfer
<1>5. \A x : pipe' = Sent(<<>>, x) /\ notified' = notified => Heard(t, x)'
  BY <1>2, <1>3 DEF Heard
<1>6. \A x, next : Sends(x, next, <<>>) => Heard(t, x)' /\ state' = next
  BY <1>5 DEF Sends
<1>7. Notifies(<<>>) => Answered(t)'
  BY DEF Notifies, Answered, Types, TaskTypes
<1> QED
  BY <1>4, <1>5, <1>6, <1>7

LEMMA CommandTaken ==
  ASSUME NSS # "high", chip.mode = "command", NEW b, ChipTakes(b)
  PROVE  /\ b[1] = "RDSR" => chip' = [chip EXCEPT !.mode = "status"]
         /\ b[1] = "WREN" /\ ~busy => chip' = [chip EXCEPT !.mode = "enable"]
         /\ b[1] = "READ" /\ ~busy => chip' = [chip EXCEPT !.mode = "read_hi"]
         /\ b[1] = "WRITE" /\ ~busy /\ WEL => chip' = [chip EXCEPT !.mode = "write_hi"]
<1> DEFINE next == CASE b[1] = "RDSR" -> "status"
                     [] b[1] = "WREN"  /\ ~busy -> "enable"
                     [] b[1] = "READ"  /\ ~busy -> "read_hi"
                     [] b[1] = "WRITE" /\ ~busy /\ WEL -> "write_hi"
                     [] OTHER -> "ignored"
<1>1. chip' = [chip EXCEPT !.mode = next]
  BY DEF ChipTakes
<1>2. /\ b[1] = "RDSR" => next = "status"
      /\ b[1] = "WREN" /\ ~busy => next = "enable"
      /\ b[1] = "READ" /\ ~busy => next = "read_hi"
      /\ b[1] = "WRITE" /\ ~busy /\ WEL => next = "write_hi"
  OBVIOUS
<1> HIDE DEF next
<1> QED
  BY <1>1, <1>2

LEMMA StatusTaken ==
  ASSUME NSS # "high", chip.mode = "status", NEW b, ChipTakes(b)
  PROVE  chip' = chip
  BY DEF ChipTakes

LEMMA ChipHears ==
  ASSUME NSS' = NSS
  PROVE  /\ Selected("command") /\ ChipTakes(Byte("RDSR")) => Selected("status")'
         /\ Selected("command") /\ ~busy /\ ChipTakes(Byte("WREN")) => Selected("enable")'
         /\ Selected("command") /\ ~busy /\ ChipTakes(Byte("READ")) => Selected("read_hi")'
         /\ Selected("command") /\ ~busy /\ WEL /\ ChipTakes(Byte("WRITE")) => Selected("write_hi")'
         /\ Selected("status") /\ ChipTakes(Byte("RDSR")) => Selected("status")'
<1>1. ASSUME NEW mode, NEW next, Selected(mode), chip' = [chip EXCEPT !.mode = next]
      PROVE  Selected(next)'
  BY <1>1 DEF Selected, Deselected
<1>2. ASSUME NEW mode, Selected(mode) PROVE NSS # "high" /\ chip.mode = mode
  BY <1>2, SelectedMode
<1>3. \A tag : Byte(tag)[1] = tag
  BY DEF Byte
<1>4. ASSUME Selected("command"), ChipTakes(Byte("RDSR")) PROVE Selected("status")'
  <2>1. chip' = [chip EXCEPT !.mode = "status"]
    BY <1>2, <1>3, <1>4, CommandTaken
  <2> QED
    BY <1>1, <1>4, <2>1
<1>5. ASSUME Selected("command"), ~busy, ChipTakes(Byte("WREN")) PROVE Selected("enable")'
  <2>1. chip' = [chip EXCEPT !.mode = "enable"]
    BY <1>2, <1>3, <1>5, CommandTaken
  <2> QED
    BY <1>1, <1>5, <2>1
<1>6. ASSUME Selected("command"), ~busy, ChipTakes(Byte("READ")) PROVE Selected("read_hi")'
  <2>1. chip' = [chip EXCEPT !.mode = "read_hi"]
    BY <1>2, <1>3, <1>6, CommandTaken
  <2> QED
    BY <1>1, <1>6, <2>1
<1>7. ASSUME Selected("command"), ~busy, WEL, ChipTakes(Byte("WRITE")) PROVE Selected("write_hi")'
  <2>1. chip' = [chip EXCEPT !.mode = "write_hi"]
    BY <1>2, <1>3, <1>7, CommandTaken
  <2> QED
    BY <1>1, <1>7, <2>1
<1>8. ASSUME Selected("status"), ChipTakes(Byte("RDSR")) PROVE Selected("status")'
  <2>1. chip' = chip
    BY <1>2, <1>8, StatusTaken
  <2> QED
    BY <1>8, <2>1 DEF Selected
<1> QED
  BY <1>4, <1>5, <1>6, <1>7, <1>8

(* Between the question and the answer. *)
LEMMA StatusByte ==
  ASSUME Types, NEW t \in Tasks, AsksStatus(t), state = "READ_STATUS_STATE", NotifyTaskHandle = t,
         Transfer
  PROVE  AsksStatus(t)' /\ state' = state /\ UNCHANGED <<data_index, sector_buffer, pData>>
<1>1. Heard(t, Byte("RDSR")) /\ (Selected("command") \/ Selected("status"))
  BY DEF AsksStatus, Transfer, Answered
<1>2. PICK read_data \in Miso : ReadCallBack(read_data, <<>>)
  BY <1>1, OwnByte
<1>3. ReadsStatus(read_data, <<>>)
  BY <1>2 DEF ReadCallBack
<1>4. Selected("status")'
  BY <1>1, OwnByte, ChipHears DEF Transfer
<1>5. CASE read_data # Byte("ready") /\ Sends(Byte("RDSR"), state, <<>>)
  <2>1. Heard(t, Byte("RDSR"))' /\ state' = state
    BY <1>1, <1>5, OwnByte
  <2> QED
    BY <1>4, <1>5, <2>1 DEF AsksStatus, Sends, buffers
<1>6. CASE read_data # Byte("ones") /\ Notifies(<<>>) /\ UNCHANGED <<state, data_index, buffers>>
  <2>1. Answered(t)'
    BY <1>1, <1>6, OwnByte
  <2>2. ~busy
    <3>1. Selected("command") \/ busy => read_data = Byte("ones")
      BY <1>1, <1>2, SelectedMode DEF Miso
    <3> QED
      BY <1>6, <3>1
  <2>3. ~busy'
    BY <2>2, Zenon DEF Transfer
  <2> QED
    BY <1>4, <1>6, <2>1, <2>3 DEF AsksStatus, buffers
<1> QED
  BY <1>3, <1>5, <1>6 DEF ReadsStatus

(* After a time-out. *)
LEMMA LateByte ==
  ASSUME Types, NEW t \in Tasks, StatusKnown(t), state = "READ_STATUS_STATE", Transfer
  PROVE  StatusKnown(t)' /\ state' = state /\ UNCHANGED <<data_index, sector_buffer, pData>>
<1>1. exit_code[t] = 0 /\ pipe = <<Byte("RDSR")>> /\ (Selected("command") \/ Selected("status"))
  BY DEF StatusKnown, Transfer, Silent
<1>2. Head(pipe) = Byte("RDSR") /\ Tail(pipe) = <<>>
  BY <1>1
<1>3. PICK read_data \in Miso : ReadCallBack(read_data, <<>>)
  BY <1>2 DEF Transfer
<1>4. ReadsStatus(read_data, <<>>)
  BY <1>3 DEF ReadCallBack
<1>5. Selected("status")'
  BY <1>1, <1>2, ChipHears DEF Transfer
<1>6. /\ pipe' = <<Byte("RDSR")>> \/ pipe' = <<>>
      /\ UNCHANGED <<state, data_index, sector_buffer, pData>>
  BY <1>4 DEF ReadsStatus, Sends, Notifies, Sent, buffers
<1>7. exit_code'[t] = 0
  BY <1>1 DEF Transfer
<1> QED
  BY <1>5, <1>6, <1>7 DEF StatusKnown

LEMMA UnprotectByte ==
  ASSUME Types, NEW t \in Tasks, Unprotects(t), state = "WRITE_COMMAND_STATE", NotifyTaskHandle = t,
         ~busy, Transfer
  PROVE  Unprotects(t)' /\ state' = state /\ UNCHANGED <<data_index, sector_buffer, pData>>
<1>1. Heard(t, Byte("WREN")) /\ Selected("command")
  BY DEF Unprotects, Transfer, Answered
<1>2. Notifies(<<>>) /\ UNCHANGED <<state, data_index, buffers>>
  BY <1>1, OwnByte DEF ReadCallBack
<1>3. Selected("enable")'
  BY <1>1, OwnByte, ChipHears DEF Transfer
<1>4. Answered(t)'
  BY <1>1, <1>2, OwnByte
<1> QED
  BY <1>2, <1>3, <1>4 DEF Unprotects, buffers

(* The address, to the chip. *)
LEMMA HighTaken ==
  ASSUME NEW a, ChipTakes(High(a))
  PROVE  /\ Selected("write_hi") => chip' = [Deselected EXCEPT !.mode = "write_lo", !.ptr = a]
         /\ Selected("read_hi") => chip' = [Deselected EXCEPT !.mode = "read_lo", !.ptr = a]
<1> DEFINE b == High(a)
<1>1. b[1] = "high" /\ b[2] = a
  BY DEF High
<1>2. ChipTakes(b)
  OBVIOUS
<1> HIDE DEF b
<1>3. ASSUME Selected("write_hi")
      PROVE  chip' = [Deselected EXCEPT !.mode = "write_lo", !.ptr = a]
  <2>1. NSS # "high" /\ chip.mode = "write_hi" /\ chip = [Deselected EXCEPT !.mode = "write_hi"]
    BY <1>3, SelectedMode DEF Selected
  <2>2. chip' = [chip EXCEPT !.ptr = a, !.mode = "write_lo"]
    BY <1>1, <1>2, <2>1 DEF ChipTakes
  <2> QED
    BY <2>1, <2>2 DEF Deselected
<1>4. ASSUME Selected("read_hi")
      PROVE  chip' = [Deselected EXCEPT !.mode = "read_lo", !.ptr = a]
  <2>1. NSS # "high" /\ chip.mode = "read_hi" /\ chip = [Deselected EXCEPT !.mode = "read_hi"]
    BY <1>4, SelectedMode DEF Selected
  <2>2. chip' = [chip EXCEPT !.ptr = a, !.mode = "read_lo"]
    BY <1>1, <1>2, <2>1 DEF ChipTakes
  <2> QED
    BY <2>1, <2>2 DEF Deselected
<1> QED
  BY <1>3, <1>4

LEMMA LowTaken ==
  ASSUME NEW a, ChipTakes(Low(a)), NSS = "low"
  PROVE  /\ chip = [Deselected EXCEPT !.mode = "write_lo", !.ptr = a] =>
              chip' = [Deselected EXCEPT !.mode = "writing", !.ptr = a]
         /\ chip = [Deselected EXCEPT !.mode = "read_lo", !.ptr = a] =>
              chip' = [Deselected EXCEPT !.mode = "reading", !.ptr = a]
<1> DEFINE b == Low(a)
<1>1. ChipTakes(b) /\ b = Low(a)
  OBVIOUS
<1> HIDE DEF b
<1>2. ASSUME chip = [Deselected EXCEPT !.mode = "write_lo", !.ptr = a]
      PROVE  chip' = [Deselected EXCEPT !.mode = "writing", !.ptr = a]
  <2>1. chip.mode = "write_lo" /\ chip.ptr = a
    BY <1>2 DEF Deselected
  <2>2. chip' = [chip EXCEPT !.ptr = a, !.mode = "writing"]
    BY <1>1, <2>1 DEF ChipTakes
  <2> QED
    BY <1>2, <2>2 DEF Deselected
<1>3. ASSUME chip = [Deselected EXCEPT !.mode = "read_lo", !.ptr = a]
      PROVE  chip' = [Deselected EXCEPT !.mode = "reading", !.ptr = a]
  <2>1. chip.mode = "read_lo" /\ chip.ptr = a
    BY <1>3 DEF Deselected
  <2>2. chip' = [chip EXCEPT !.ptr = a, !.mode = "reading"]
    BY <1>1, <2>1 DEF ChipTakes
  <2> QED
    BY <1>3, <2>2 DEF Deselected
<1> QED
  BY <1>2, <1>3

(* A byte of data, to the latch. *)
LEMMA LatchTakes ==
  ASSUME Types, NEW t \in Tasks, NEW k \in 1 .. cur_len(t), Latches(t, k - 1),
         ChipTakes(sector_buffer[k - 1]), UNCHANGED <<NSS, sector_buffer, op, done>>
  PROVE  Latches(t, k)'
<1> DEFINE off == Offset(t)
           n == cur_len(t)
           base == cur_addr(t) - off
           i == off + (k - 1)
           b == sector_buffer[k - 1]
<1>1. /\ off \in 0 .. SECTOR_SIZE - 1 /\ n \in 1 .. SECTOR_SIZE /\ base \in Nat
      /\ off + n <= SECTOR_SIZE /\ SECTOR_SIZE \in Nat \ {0} /\ cur_addr(t) \in Nat
  BY Lengths, Numbers DEF Types
<1>2. \A j \in 0 .. SECTOR_SIZE - 1 : (base + j) % SECTOR_SIZE = j /\ j % SECTOR_SIZE = j
  <2>1. \A j \in 0 .. SECTOR_SIZE - 1 : (base + j) % SECTOR_SIZE = j
    BY <1>1, SectorBase DEF Offset
  <2>2. \A j \in 0 .. SECTOR_SIZE - 1 : j % SECTOR_SIZE = j
    BY <1>1
  <2> QED
    BY <2>1, <2>2
<1>3. chip = [mode |-> "writing", latch |-> Latched(t, k - 1),
              ptr |-> base + ((off + (k - 1)) % SECTOR_SIZE)] /\ NSS = "low"
  BY DEF Latches
<1>4. ChipTakes(b)
  OBVIOUS
<1> HIDE DEF off, n, base, b
<1>5. i \in 0 .. SECTOR_SIZE - 1 /\ k \in Nat /\ k \in 1 .. n
  BY <1>1 DEF n
<1>6. chip.ptr = base + i /\ chip.ptr % SECTOR_SIZE = i /\ chip.mode = "writing"
  BY <1>2, <1>3, <1>5
<1>7. chip' = [chip EXCEPT !.latch[i] = b, !.ptr = base + ((i + 1) % SECTOR_SIZE)]
  <2>1. chip' = [chip EXCEPT !.latch[chip.ptr % SECTOR_SIZE] = b,
                   !.ptr = @ - (chip.ptr % SECTOR_SIZE) + (((chip.ptr % SECTOR_SIZE) + 1) % SECTOR_SIZE)]
    BY <1>3, <1>4, <1>6 DEF ChipTakes
  <2>2. chip.ptr - i = base
    BY <1>1, <1>5, <1>6
  <2> HIDE DEF i
  <2> QED
    BY <1>6, <2>1, <2>2
<1>8. i + 1 = off + k
  BY <1>1, <1>5
<1>9. [Latched(t, k - 1) EXCEPT ![i] = b] = Latched(t, k)
  <2>1. \A j \in 0 .. SECTOR_SIZE - 1 :
            (j \in off .. off + k - 1) <=> (j \in off .. off + (k - 1) - 1 \/ j = i)
    BY <1>1, <1>5
  <2>2. i - off = k - 1 /\ i \in off .. off + k - 1
    BY <1>1, <1>5
  <2> HIDE DEF i
  <2>3. Latched(t, k - 1) = [j \in 0 .. SECTOR_SIZE - 1 |-> IF j \in off .. off + (k - 1) - 1
                                 THEN sector_buffer[j - off] ELSE Byte("none")]
    BY DEF Latched, off
  <2>4. Latched(t, k) = [j \in 0 .. SECTOR_SIZE - 1 |-> IF j \in off .. off + k - 1
                                 THEN sector_buffer[j - off] ELSE Byte("none")]
    BY DEF Latched, off
  <2>5. ASSUME NEW j \in 0 .. SECTOR_SIZE - 1
        PROVE  [Latched(t, k - 1) EXCEPT ![i] = b][j] = Latched(t, k)[j]
    BY <1>5, <2>1, <2>2, <2>3, <2>4 DEF b
  <2> QED
    BY <2>3, <2>4, <2>5
<1>10. chip' = [mode |-> "writing", latch |-> Latched(t, k), ptr |-> base + ((off + k) % SECTOR_SIZE)]
  <2> HIDE DEF i
  <2> QED
    BY <1>3, <1>7, <1>8, <1>9
<1>11. /\ Latched(t, k)' = Latched(t, k) /\ cur_addr(t)' = cur_addr(t) /\ Offset(t)' = Offset(t)
  BY Steady DEF Latched
<1> QED
  BY <1>3, <1>10, <1>11 DEF Latches, base, off

(* The fields and the buffers that the interrupt leaves alone. *)
LEMMA WriteByte ==
  ASSUME Types, NEW t \in Tasks, Writes(t), WritesSector(t), FieldsAt(t, 29), ~busy, WEL, Transfer
  PROVE  WritesSector(t)' /\ sector_buffer' = sector_buffer
<1> DEFINE n == cur_len(t)
<1>1. /\ NotifyTaskHandle = t /\ data_addres = cur_addr(t) /\ pdata = "sector_buffer"
      /\ data_size = n
  BY DEF FieldsAt
<1>2. UNCHANGED <<NSS, op, done>>
  BY DEF Transfer
<1>3. /\ cur_addr(t)' = cur_addr(t) /\ Offset(t)' = Offset(t) /\ n' = n
  BY <1>2, Steady
<1>4. n \in 1 .. RECORD_SIZE /\ n \in Nat
  BY Lengths, Numbers DEF Types
<1>5. ~Answered(t)
  BY DEF Transfer, Answered
<1>6. CASE Heard(t, Byte("WRITE")) /\ state = "WRITE_ADDR_WRITE_STATE" /\ Selected("command")
           /\ data_index = 0
  <2>1. Sends(High(data_addres), "WRITE_ADDR_WRITE_STATE1", <<>>)
    BY <1>1, <1>6, OwnByte DEF ReadCallBack
  <2>2. Heard(t, High(cur_addr(t)))' /\ state' = "WRITE_ADDR_WRITE_STATE1"
    BY <1>1, <1>3, <1>6, <2>1, OwnByte DEF Heard, Sends
  <2>3. Selected("write_hi")'
    BY <1>1, <1>2, <1>6, OwnByte, ChipHears
  <2>4. data_index' = 0 /\ sector_buffer' = sector_buffer
    BY <1>6, <2>1 DEF Sends, buffers
  <2> QED
    BY <2>2, <2>3, <2>4 DEF WritesSector
<1>7. CASE Heard(t, High(cur_addr(t))) /\ state = "WRITE_ADDR_WRITE_STATE1" /\ Selected("write_hi")
           /\ data_index = 0
  <2>1. Sends(Low(data_addres), "WRITE_DATA_WRITE_STATE", <<>>)
    BY <1>1, <1>7, OwnByte DEF ReadCallBack
  <2>2. Heard(t, Low(cur_addr(t)))' /\ state' = "WRITE_DATA_WRITE_STATE"
    BY <1>1, <1>3, <1>7, <2>1, OwnByte DEF Heard, Sends
  <2>3. NSS' = "low" /\ chip' = [Deselected EXCEPT !.mode = "write_lo", !.ptr = cur_addr(t)]
    <3>1. ChipTakes(High(cur_addr(t)))
      BY <1>1, <1>7, OwnByte
    <3>2. chip' = [Deselected EXCEPT !.mode = "write_lo", !.ptr = cur_addr(t)]
      BY <1>7, <3>1, HighTaken
    <3> QED
      BY <1>2, <1>7, <3>2, SelectedMode
  <2>4. data_index' = 0 /\ sector_buffer' = sector_buffer
    BY <1>7, <2>1 DEF Sends, buffers
  <2> QED
    BY <1>3, <2>2, <2>3, <2>4 DEF WritesSector
<1>8. CASE Heard(t, Low(cur_addr(t))) /\ state = "WRITE_DATA_WRITE_STATE" /\ NSS = "low"
           /\ chip = [Deselected EXCEPT !.mode = "write_lo", !.ptr = cur_addr(t)]
           /\ data_index = 0
  <2>1. WritesData(<<>>)
    BY <1>1, <1>8, OwnByte DEF ReadCallBack
  <2>2. /\ pipe' = Sent(<<>>, sector_buffer[0]) /\ data_index' = 1 /\ notified' = notified
        /\ UNCHANGED <<state, sector_buffer>>
    BY <1>1, <1>4, <1>8, <2>1 DEF WritesData, BufferOf, buffers
  <2>3. Heard(t, sector_buffer[0])'
    BY <1>1, <1>8, <2>2, OwnByte DEF Heard
  <2>4. chip' = [Deselected EXCEPT !.mode = "writing", !.ptr = cur_addr(t)]
    <3>1. ChipTakes(Low(cur_addr(t)))
      BY <1>1, <1>8, OwnByte
    <3> QED
      BY <1>8, <3>1, LowTaken
  <2>5. Latched(t, 0) = NoLatch
    <3>1. Offset(t) \in Nat
      BY Lengths, Numbers DEF Types
    <3>2. \A i \in 0 .. SECTOR_SIZE - 1 : i \notin Offset(t) .. Offset(t) + 0 - 1
      BY <3>1
    <3> QED
      BY <3>2 DEF Latched, NoLatch
  <2>6. cur_addr(t) - Offset(t) + ((Offset(t) + 0) % SECTOR_SIZE) = cur_addr(t)
    <3>1. Offset(t) \in 0 .. SECTOR_SIZE - 1 /\ cur_addr(t) \in Nat /\ cur_addr(t) - Offset(t) \in Nat
      BY Lengths DEF Types
    <3>2. (Offset(t) + 0) % SECTOR_SIZE = Offset(t)
      BY <3>1, Numbers
    <3> QED
      BY <3>1, <3>2
  <2>7. Latches(t, 0)'
    <3>1. Latched(t, 0)' = NoLatch
      BY <1>2, <2>2, <2>5, LatchedStays
    <3>2. NSS' = "low"
      BY <1>2, <1>8
    <3> QED
      BY <1>3, <2>4, <2>6, <3>1, <3>2 DEF Latches, Deselected
  <2>8. 1 \in 1 .. n' /\ 1 - 1 = 0
    BY <1>3, <1>4
  <2> QED
    BY <1>8, <2>2, <2>3, <2>7, <2>8 DEF WritesSector
<1>9. ASSUME NEW k \in 1 .. n, Heard(t, sector_buffer[k - 1]), state = "WRITE_DATA_WRITE_STATE",
             data_index = k, Latches(t, k - 1)
      PROVE  WritesSector(t)' /\ sector_buffer' = sector_buffer
  <2>1. WritesData(<<>>)
    BY <1>1, <1>9, OwnByte DEF ReadCallBack
  <2>2. UNCHANGED <<state, sector_buffer>>
    BY <2>1 DEF WritesData, buffers
  <2>3. Latches(t, k)'
    BY <1>1, <1>2, <1>9, <2>2, OwnByte, LatchTakes
  <2>4. CASE k < n
    <3>1. pipe' = Sent(<<>>, sector_buffer[k]) /\ data_index' = k + 1 /\ notified' = notified
      BY <1>1, <1>9, <2>1, <2>4 DEF WritesData, BufferOf
    <3>2. k + 1 \in 1 .. n /\ (k + 1) - 1 = k
      BY <1>4, <2>4
    <3>3. Heard(t, sector_buffer[k])'
      BY <1>1, <1>9, <2>2, <3>1, OwnByte DEF Heard
    <3> QED
      BY <1>3, <1>9, <2>2, <2>3, <3>1, <3>2, <3>3 DEF WritesSector
  <2>5. CASE ~(k < n)
    <3>1. k = n
      BY <1>4, <2>5
    <3>2. Notifies(<<>>)
      BY <1>1, <1>9, <2>1, <2>5 DEF WritesData
    <3>3. Answered(t)'
      BY <1>1, <1>9, <3>2, OwnByte
    <3> QED
      BY <1>3, <1>9, <2>2, <2>3, <3>1, <3>3 DEF WritesSector
  <2> QED
    BY <2>4, <2>5
<1> QED
  BY <1>5, <1>6, <1>7, <1>8, <1>9 DEF WritesSector

LEMMA ReadByte ==
  ASSUME Types, NEW t \in Tasks, ~Writes(t), ReadsCells(t), FieldsAt(t, 29), ~busy, Transfer
  PROVE  ReadsCells(t)'
<1> DEFINE n == op[t].size
           a == cur_addr(t)
           d == data_index
<1>1. /\ NotifyTaskHandle = t /\ data_addres = cur_addr(t) /\ pdata = "pData"
      /\ data_size = n
  BY DEF FieldsAt
<1>2. UNCHANGED <<NSS, op, done, mem>>
  BY DEF Transfer
<1>3. cur_addr(t)' = cur_addr(t) /\ op'[t].size = n
  BY <1>2, Steady
<1>4. n \in 1 .. RECORD_SIZE /\ n \in Nat /\ a \in Nat /\ a + n <= EEPROM_SIZE
  <2>1. /\ done[t] = 0 /\ a + (n - done[t]) <= EEPROM_SIZE
        /\ n \in 1 .. RECORD_SIZE /\ a \in Nat
    BY Lengths DEF Types, TaskTypes
  <2> QED
    BY <2>1, Numbers
<1>5. ~Answered(t)
  BY DEF Transfer, Answered
<1>6. CASE Heard(t, Byte("READ")) /\ state = "READ_ADDR_WRITE_STATE" /\ Selected("command")
           /\ data_index = 0
  <2>1. Sends(High(data_addres), "READ_ADDR_WRITE_STATE1", <<>>)
    BY <1>1, <1>6, OwnByte DEF ReadCallBack
  <2>2. Heard(t, High(cur_addr(t)))' /\ state' = "READ_ADDR_WRITE_STATE1"
    BY <1>1, <1>3, <1>6, <2>1, OwnByte DEF Heard, Sends
  <2>3. Selected("read_hi")'
    BY <1>1, <1>2, <1>6, OwnByte, ChipHears
  <2>4. data_index' = 0
    BY <1>6, <2>1 DEF Sends, buffers
  <2> QED
    BY <2>2, <2>3, <2>4 DEF ReadsCells
<1>7. CASE Heard(t, High(cur_addr(t))) /\ state = "READ_ADDR_WRITE_STATE1" /\ Selected("read_hi")
           /\ data_index = 0
  <2>1. Sends(Low(data_addres), "READ_DATA_READ_STATE1", <<>>)
    BY <1>1, <1>7, OwnByte DEF ReadCallBack
  <2>2. Heard(t, Low(cur_addr(t)))' /\ state' = "READ_DATA_READ_STATE1"
    BY <1>1, <1>3, <1>7, <2>1, OwnByte DEF Heard, Sends
  <2>3. NSS' = "low" /\ chip' = [Deselected EXCEPT !.mode = "read_lo", !.ptr = cur_addr(t)]
    <3>1. ChipTakes(High(cur_addr(t)))
      BY <1>1, <1>7, OwnByte
    <3>2. chip' = [Deselected EXCEPT !.mode = "read_lo", !.ptr = cur_addr(t)]
      BY <1>7, <3>1, HighTaken
    <3> QED
      BY <1>2, <1>7, <3>2, SelectedMode
  <2>4. data_index' = 0
    BY <1>7, <2>1 DEF Sends, buffers
  <2> QED
    BY <1>3, <2>2, <2>3, <2>4 DEF ReadsCells
<1>8. CASE Heard(t, Low(cur_addr(t))) /\ state = "READ_DATA_READ_STATE1" /\ NSS = "low"
           /\ chip = [Deselected EXCEPT !.mode = "read_lo", !.ptr = cur_addr(t)]
           /\ data_index = 0
  <2>1. Sends(Byte("zero"), "READ_DATA_READ_STATE", <<>>)
    BY <1>1, <1>8, OwnByte DEF ReadCallBack
  <2>2. Heard(t, Byte("zero"))' /\ state' = "READ_DATA_READ_STATE"
    BY <1>1, <1>8, <2>1, OwnByte
  <2>3. NSS' = "low" /\ chip' = [Deselected EXCEPT !.mode = "reading", !.ptr = cur_addr(t)]
    <3>1. ChipTakes(Low(cur_addr(t)))
      BY <1>1, <1>8, OwnByte
    <3> QED
      BY <1>2, <1>8, <3>1, LowTaken
  <2>4. data_index' = 0
    BY <1>8, <2>1 DEF Sends, buffers
  <2>5. data_index' < op'[t].size /\ cur_addr(t)' + data_index' = cur_addr(t) /\ HasRead(t, data_index)'
    <3>1. 0 .. 0 - 1 = {}
      OBVIOUS
    <3>2. HasRead(t, data_index)'
      BY <2>4, <3>1 DEF HasRead
    <3> QED
      BY <1>3, <1>4, <2>4, <3>2
  <2> QED
    BY <1>3, <2>2, <2>3, <2>5 DEF ReadsCells
<1>9. CASE /\ Heard(t, Byte("zero")) /\ state = "READ_DATA_READ_STATE" /\ NSS = "low"
           /\ data_index < op[t].size /\ HasRead(t, data_index)
           /\ chip = [Deselected EXCEPT !.mode = "reading", !.ptr = cur_addr(t) + data_index]
  <2>1. d \in Nat /\ d + 1 \in 1 .. n /\ d \in 0 .. RECORD_SIZE - 1 /\ a + d \in Cells
        /\ d < SECTOR_SIZE
    <3>1. d \in Nat /\ d < n
      BY <1>9 DEF Types, FieldTypes
    <3> QED
      BY <1>4, <3>1, Numbers
  <2>2. chip.mode = "reading" /\ chip.ptr = a + d
    BY <1>9 DEF Deselected
  <2>3. ReadsData(mem[a + d], <<>>)
    <3>1. PICK read_data \in Miso : ReadCallBack(read_data, <<>>)
      BY <1>1, <1>9, OwnByte
    <3>2. read_data = mem[a + d]
      BY <1>9, <2>2 DEF Miso
    <3> QED
      BY <1>9, <3>1, <3>2 DEF ReadCallBack
  <2>4. state' = state /\ pData' = Stored(pData, mem[a + d]) /\ data_index' = d + 1
    <3>1. Capped(d + 1) = d + 1
      BY <2>1, Numbers DEF Capped
    <3> QED
      BY <1>1, <2>3, <3>1 DEF ReadsData
  <2>5. HasRead(t, data_index)'
    <3>1. \A i \in 0 .. d - 1 : pData[i] = mem[a + i]
      BY <1>9 DEF HasRead
    <3>2. \A i \in 0 .. RECORD_SIZE - 1 : pData'[i] = IF i = d THEN mem[a + d] ELSE pData[i]
      BY <2>4 DEF Stored, Types, CellTypes
    <3>3. ASSUME NEW i \in 0 .. d PROVE pData'[i] = mem[a + i]
      <4>1. i \in 0 .. RECORD_SIZE - 1
        BY <2>1, Numbers
      <4>2. i # d => i \in 0 .. d - 1
        BY <2>1
      <4> QED
        BY <3>1, <3>2, <4>1, <4>2
    <3>4. 0 .. (d + 1) - 1 = 0 .. d
      BY <2>1
    <3> HIDE DEF d, a
    <3>5. \A i \in 0 .. data_index' - 1 : pData'[i] = mem'[cur_addr(t)' + i]
      BY <1>2, <1>3, <2>4, <3>3, <3>4 DEF a
    <3> QED
      BY <3>5 DEF HasRead
  <2>6. chip' = [chip EXCEPT !.ptr = (a + d + 1) % EEPROM_SIZE]
    <3>1. ChipTakes(Byte("zero"))
      BY <1>1, <1>9, OwnByte
    <3> DEFINE b == Byte("zero")
    <3>2. ChipTakes(b)
      BY <3>1
    <3> HIDE DEF b
    <3>3. chip' = [chip EXCEPT !.ptr = (@ + 1) % EEPROM_SIZE]
      BY <1>9, <2>2, <3>2 DEF ChipTakes
    <3> QED
      BY <2>2, <3>3
  <2>7. NSS' = "low" /\ chip'.mode = "reading"
    BY <1>2, <1>9, <2>2, <2>6 DEF Types, CellTypes
  <2>8. CASE d + 1 < n
    <3>1. pipe' = Sent(<<>>, Byte("zero")) /\ notified' = notified
      BY <1>1, <2>3, <2>4, <2>8 DEF ReadsData
    <3>2. Heard(t, Byte("zero"))'
      BY <1>1, <1>9, <3>1, OwnByte
    <3>3. (a + d + 1) % EEPROM_SIZE = a + (d + 1)
      <4>1. a + d + 1 \in 0 .. EEPROM_SIZE - 1 /\ a + d + 1 = a + (d + 1)
        BY <1>4, <2>1, <2>8, Numbers
      <4> QED
        BY <4>1, Numbers
    <3>4. chip' = [Deselected EXCEPT !.mode = "reading", !.ptr = a + (d + 1)]
      BY <1>9, <2>6, <3>3 DEF Deselected
    <3> QED
      BY <1>3, <1>9, <2>4, <2>5, <2>7, <2>8, <3>2, <3>4 DEF ReadsCells
  <2>9. CASE ~(d + 1 < n)
    <3>1. d + 1 = n
      BY <2>1, <2>9, <1>4
    <3>2. Notifies(<<>>)
      BY <1>1, <2>3, <2>4, <2>9 DEF ReadsData
    <3>3. Answered(t)'
      BY <1>1, <1>9, <3>2, OwnByte
    <3>4. HasRead(t, op[t].size)'
      BY <1>3, <2>4, <2>5, <3>1 DEF HasRead
    <3> QED
      BY <1>9, <2>4, <2>7, <3>3, <3>4 DEF ReadsCells
  <2> QED
    BY <2>8, <2>9
<1> QED
  BY <1>5, <1>6, <1>7, <1>8, <1>9 DEF ReadsCells

(* A byte reaches the call only where it waits for one, and keeps it at its place. *)
LEMMA AtTransfer ==
  ASSUME Types, NEW t \in Tasks, NEW p \in 1 .. 30, At(t, p), Transfer
  PROVE  At(t, p)'
<1>1. LineAt(t, p) /\ FieldsAt(t, p) /\ ChipAt(t, p)
  BY DEF At
<1>2. /\ UNCHANGED <<data_addres, pdata, data_size, NotifyTaskHandle, op, number, done, exit_code>>
      /\ WEL' = WEL /\ busy' = busy /\ mem' = mem
      /\ pipe # <<>>
  BY DEF Transfer
<1>3. p \in {6, 7, 12, 24, 25, 29}
  BY <1>1, <1>2 DEF LineAt, Silent
<1>4. /\ p \in {6, 24} => AsksStatus(t) /\ state = "READ_STATUS_STATE" /\ NotifyTaskHandle = t
      /\ p \in {7, 25} => StatusKnown(t) /\ state = "READ_STATUS_STATE"
      /\ p = 12 => Unprotects(t) /\ state = "WRITE_COMMAND_STATE" /\ NotifyTaskHandle = t
      /\ p \in {12, 29} => ~busy
      /\ p = 29 /\ Writes(t) => WritesSector(t) /\ WEL
      /\ p = 29 /\ ~Writes(t) => ReadsCells(t)
  BY <1>1 DEF LineAt, FieldsAt, ChipAt
<1>5. /\ LineAt(t, p)'
      /\ p # 29 => state' = state /\ data_index' = data_index
      /\ Writes(t) => sector_buffer' = sector_buffer
  <2>1. CASE p \in {6, 24}
    <3>1. AsksStatus(t)' /\ state' = state /\ UNCHANGED <<data_index, sector_buffer>>
      BY <1>4, <2>1, StatusByte
    <3> QED
      BY <2>1, <3>1 DEF LineAt
  <2>2. CASE p \in {7, 25}
    <3>1. StatusKnown(t)' /\ state' = state /\ UNCHANGED <<data_index, sector_buffer>>
      BY <1>4, <2>2, LateByte
    <3> QED
      BY <2>2, <3>1 DEF LineAt
  <2>3. CASE p = 12
    <3>1. Unprotects(t)' /\ state' = state /\ UNCHANGED <<data_index, sector_buffer>>
      BY <1>4, <2>3, UnprotectByte
    <3> QED
      BY <2>3, <3>1 DEF LineAt
  <2>4. CASE p = 29 /\ Writes(t)
    <3>1. WritesSector(t)' /\ sector_buffer' = sector_buffer
      BY <1>1, <1>4, <2>4, WriteByte
    <3>2. Writes(t)'
      BY <1>2, <2>4, Steady
    <3> QED
      BY <2>4, <3>1, <3>2 DEF LineAt
  <2>5. CASE p = 29 /\ ~Writes(t)
    <3>1. ReadsCells(t)'
      BY <1>1, <1>4, <2>5, ReadByte
    <3>2. ~Writes(t)'
      BY <1>2, <2>5, Steady
    <3> QED
      BY <2>5, <3>1, <3>2 DEF LineAt
  <2> QED
    BY <1>3, <2>1, <2>2, <2>3, <2>4, <2>5
<1>6. FieldsAt(t, p)'
  BY <1>1, <1>2, <1>5, Steady DEF FieldsAt
<1>7. ChipAt(t, p)'
  <2>1. /\ p \in 8 .. 12 \cup 26 .. 30 => ~busy'
        /\ Writes(t)' /\ p \in 15 .. 30 => WEL'
    <3>1. p \in 8 .. 12 \cup 26 .. 30 => ~busy
      BY <1>1 DEF ChipAt
    <3>2. Writes(t) /\ p \in 15 .. 30 => WEL
      BY <1>1 DEF ChipAt
    <3>3. Writes(t)' <=> Writes(t)
      BY <1>2, Steady
    <3> QED
      BY <1>2, <3>1, <3>2, <3>3, Zenon
  <2> QED
    BY <1>1, <1>2, <1>5, <2>1, Steady DEF ChipAt
<1> QED
  BY <1>5, <1>6, <1>7 DEF At

(* The end of a write cycle only lets the chip know more. *)
LEMMA AtCycleEnds ==
  ASSUME Types, NEW t \in Tasks, NEW p \in 1 .. 30, At(t, p), CycleEnds
  PROVE  At(t, p)'
<1>1. /\ busy /\ busy' = FALSE
      /\ UNCHANGED <<driver, buffers, NSS, pipe, chip, WEL, mem, op, number, done, exit_code, notified>>
  BY DEF CycleEnds, tasks
<1>2. ~busy'
  BY <1>1, Zenon
<1>3. p \notin {12, 29, 30}
  BY <1>1 DEF At, ChipAt
<1>4. LineAt(t, p)'
  BY <1>1, <1>2, <1>3 DEF At, LineAt, AsksStatus, StatusKnown, Selected, Heard, Answered, Silent
<1>5. FieldsAt(t, p)'
  BY <1>1, Steady DEF At, FieldsAt, driver
<1>6. ChipAt(t, p)'
  BY <1>1, <1>2, Steady DEF At, ChipAt, buffers
<1> QED
  BY <1>4, <1>5, <1>6 DEF At

(* A call begins at its first place. *)
LEMMA AtBegin ==
  ASSUME Types, NEW t \in Tasks, Begin(t), clean'[t]
  PROVE  Alone(t)'
<1>1. /\ at' = [at EXCEPT ![t] = 1] /\ done' = [done EXCEPT ![t] = 0]
      /\ clean' = [clean EXCEPT
            ![t] = ~InCall(Other(t)) /\ NSS = "high" /\ pipe = <<>> /\ notified[t] = 0,
            ![Other(t)] = @ /\ ~InCall(Other(t))]
      /\ UNCHANGED <<NSS, pipe, notified>>
      /\ at \in [Tasks -> Nat] /\ done \in [Tasks -> Nat] /\ clean \in [Tasks -> BOOLEAN]
  BY DEF Begin, line, Types, TaskTypes
<1>2. Other(t) \in Tasks /\ Other(t) # t
  BY DEF Other, Tasks
<1>3. ~InCall(Other(t)) /\ NSS = "high" /\ pipe = <<>> /\ notified[t] = 0
  BY <1>1, <1>2
<1>4. ~InCall(Other(t))'
  BY <1>1, <1>2, <1>3 DEF InCall
<1>5. at'[t] = 1 /\ done'[t] = 0 /\ Silent(t)' /\ NSS' = "high"
  BY <1>1, <1>3 DEF Silent
<1>6. ASSUME NEW p \in 1 .. 30, Place(t)' = p PROVE At(t, p)'
  <2>1. p \in {1, 15} /\ (p = 15 => ~Writes(t)')
    BY <1>5, <1>6 DEF Place
  <2>2. LineAt(t, p)'
    BY <1>5, <2>1 DEF LineAt
  <2>3. FieldsAt(t, p)'
    BY <2>1 DEF FieldsAt
  <2>4. ChipAt(t, p)'
    BY <1>5, <2>1 DEF ChipAt
  <2> QED
    BY <2>2, <2>3, <2>4 DEF At
<1> QED
  BY <1>4, <1>6 DEF Alone

-----------------------------------------------------------------------------
(* A step of the call keeps it alone, at the place the step leads to. *)

LEMMA StepKeeps ==
  ASSUME NEW t, Step(t)
  PROVE  /\ InCall(t) /\ UNCHANGED <<op, number, calls, clean, disturbed>>
         /\ \A u : u # t => InCall(u)' = InCall(u)
<1>1. InCall(t)
  BY DEF Step, Memcpy, SetState, SetHandle, SetField, Select, Command, Notified, TimesOut, Delay,
         Release, Runs
<1>2. UNCHANGED <<op, number, calls, clean, disturbed>>
  BY DEF Step, Memcpy, SetState, SetHandle, SetField, Select, Command, Notified, TimesOut, Delay,
         Release, StaysOn
<1>3. \E i : at' = [at EXCEPT ![t] = i]
  BY DEF Step, Memcpy, SetState, SetHandle, SetField, Select, Command, Notified, TimesOut, Delay,
         Release, Goes
<1>4. \A u : u # t => InCall(u)' = InCall(u)
  BY <1>3 DEF InCall
<1> QED
  BY <1>1, <1>2, <1>4

LEMMA Others == \A t \in Tasks : Other(t) \in Tasks /\ Other(t) # t /\ Other(Other(t)) = t
  BY DEF Other, Tasks

LEMMA Onward ==
  ASSUME TaskTypes, NEW t \in Tasks, NEW p \in 1 .. 30, Place(t) = p, Goes(t), op' = op,
         ~InCall(Other(t)), At(t, p + 1)'
  PROVE  Alone(t)'
<1>1. ~InCall(Other(t))'
  BY Others DEF Goes, InCall
<1>2. at'[t] = at[t] + 1 /\ at[t] \in Nat
  BY DEF Goes, TaskTypes
<1>3. (Writes(t)' <=> Writes(t)) /\ Place(t)' = p + 1
  BY <1>2 DEF Writes, Place
<1> QED
  BY <1>1, <1>3 DEF Alone

LEMMA ReleaseAlone ==
  ASSUME Types, NEW t \in Tasks, clean[t], Alone(t), Release(t), InCall(t)'
  PROVE  Alone(t)'
<1>1. InCall(t) /\ Statement(t) = "release" /\ op' = op
  BY DEF Release, Runs
<1>2. TaskTypes
  BY DEF Types
<1>3. PICK p \in {7, 14, 25, 30} : Place(t) = p /\ ((at[t] = Len(Statements(t))) <=> (p = 30))
  BY <1>1, <1>2, Places
<1>4. At(t, p) /\ ~InCall(Other(t))
  BY <1>3 DEF Alone
<1>5. exit_code[t] # 0
  BY <1>2 DEF Release, InCall, TaskTypes
<1>6. exit_code[t] = 1
  BY <1>2, <1>5 DEF TaskTypes
<1>7. CASE p # 30
  <2>1. Goes(t) /\ done' = done
    BY <1>3, <1>5, <1>7 DEF Release
  <2>2. At(t, p + 1)'
    BY <1>3, <1>4, <1>6, <1>7, <2>1, AtRelease
  <2> QED
    BY <1>1, <1>2, <1>3, <1>4, <2>1, <2>2, Onward
<1>8. CASE p = 30
  <2>1. /\ Writes(t) /\ done' = [done EXCEPT ![t] = @ + cur_len(t)]
        /\ at' = [at EXCEPT ![t] = 1]
    BY <1>2, <1>3, <1>5, <1>8 DEF Release, InCall, TaskTypes, Writes
  <2>2. At(t, 1)'
    BY <1>4, <1>8, <2>1, AtNextSector
  <2>3. Place(t)' = 1
    BY <1>1, <1>2, <2>1 DEF Place, Writes, TaskTypes
  <2>4. ~InCall(Other(t))'
    BY <1>4, <2>1, Others DEF InCall
  <2> QED
    BY <2>2, <2>3, <2>4 DEF Alone
<1> QED
  BY <1>7, <1>8

LEMMA StepAlone ==
  ASSUME Types, CallInv, NEW t \in Tasks, clean[t], Step(t), InCall(t)'
  PROVE  Alone(t)'
<1>1. TaskTypes /\ InCall(t) /\ op' = op
  BY StepKeeps DEF Types
<1>2. Alone(t) /\ (NSS = "high" => chip = Deselected)
  BY <1>1 DEF CallInv
<1>3. PICK p \in 1 .. 30 : Place(t) = p
  BY <1>1, Places
<1>4. At(t, p) /\ ~InCall(Other(t))
  BY <1>2, <1>3 DEF Alone
<1>5. ASSUME Goes(t), At(t, p + 1)' PROVE Alone(t)'
  BY <1>1, <1>3, <1>4, <1>5, Onward
<1>6. CASE Memcpy(t)
  <2>1. p = 1
    BY <1>1, <1>3, <1>6, Places DEF Memcpy
  <2> QED
    BY <1>4, <1>5, <1>6, <2>1, AtMemcpy DEF Memcpy
<1>7. CASE SetState(t)
  <2>1. p \in {2, 8, 20, 27}
    BY <1>1, <1>3, <1>7, Places DEF SetState
  <2> QED
    BY <1>1, <1>3, <1>4, <1>5, <1>7, <2>1, AtSetState DEF SetState
<1>8. CASE SetHandle(t)
  <2>1. p \in {3, 9, 19, 21}
    BY <1>1, <1>3, <1>8, Places DEF SetHandle
  <2> QED
    BY <1>4, <1>5, <1>8, <2>1, AtSetHandle DEF SetHandle
<1>9. CASE SetField(t)
  <2>1. p \in 15 .. 18
    BY <1>1, <1>3, <1>9, Places DEF SetField
  <2> QED
    BY <1>1, <1>3, <1>4, <1>5, <1>9, <2>1, AtSetField DEF SetField
<1>10. CASE Select(t)
  <2>1. p \in {4, 10, 22, 26}
    BY <1>1, <1>3, <1>10, Places DEF Select
  <2> QED
    BY <1>2, <1>4, <1>5, <1>10, <2>1, AtSelect DEF Select
<1>11. CASE Command(t)
  <2>1. p \in {5, 11, 23, 28}
    BY <1>1, <1>3, <1>11, Places DEF Command
  <2> QED
    BY <1>1, <1>3, <1>4, <1>5, <1>11, <2>1, AtCommand DEF Command
<1>12. CASE Notified(t)
  <2>1. p \in {6, 12, 24, 29}
    BY <1>1, <1>3, <1>12, Places DEF Notified
  <2> QED
    BY <1>4, <1>5, <1>12, <2>1, AtNotified DEF Notified
<1>13. CASE TimesOut(t)
  <2>1. p \in {6, 12, 24, 29}
    BY <1>1, <1>3, <1>13, Places DEF TimesOut
  <2> QED
    BY <1>4, <1>5, <1>13, <2>1, AtTimesOut DEF TimesOut
<1>14. CASE Delay(t)
  <2>1. p = 13
    BY <1>1, <1>3, <1>14, Places DEF Delay
  <2> QED
    BY <1>4, <1>5, <1>14, <2>1, AtDelay DEF Delay
<1>15. CASE Release(t)
  BY <1>2, <1>15, ReleaseAlone
<1> QED
  BY <1>6, <1>7, <1>8, <1>9, <1>10, <1>11, <1>12, <1>13, <1>14, <1>15 DEF Step

-----------------------------------------------------------------------------
(* The invariant of the calls. *)

LEMMA CallInit == ASSUME Init PROVE CallInv
<1>1. \A t \in Tasks : ~InCall(t)
  BY DEF Init, InCall
<1>2. chip = Deselected
  BY DEF Init
<1> QED
  BY <1>1, <1>2 DEF CallInv

LEMMA DeselectedNext ==
  ASSUME NSS = "high" => chip = Deselected, [Next]_vars
  PROVE  NSS' = "high" => chip' = Deselected
<1>1. CASE Transfer
  <2>1. NSS' = NSS /\ ChipTakes(Head(pipe))
    BY <1>1 DEF Transfer
  <2>2. NSS = "high" => chip' = chip
    BY <2>1 DEF ChipTakes
  <2> QED
    BY <2>1, <2>2
<1>2. CASE CycleEnds
  BY <1>2 DEF CycleEnds
<1>3. ASSUME NEW t \in Tasks, Begin(t) PROVE NSS' = "high" => chip' = Deselected
  BY <1>3 DEF Begin, line
<1>4. ASSUME NEW t \in Tasks, Step(t) PROVE NSS' = "high" => chip' = Deselected
  <2>1. CASE Select(t)
    BY <2>1 DEF Select, Falls
  <2>2. CASE Release(t)
    BY <2>2 DEF Release, Rises
  <2>3. CASE Memcpy(t) \/ SetState(t) \/ SetHandle(t) \/ SetField(t) \/ Command(t) \/ Notified(t)
             \/ TimesOut(t) \/ Delay(t)
    BY <2>3 DEF Memcpy, SetState, SetHandle, SetField, Command, Notified, TimesOut, Delay, line
  <2> QED
    BY <1>4, <2>1, <2>2, <2>3 DEF Step
<1>5. CASE UNCHANGED vars
  BY <1>5 DEF vars, line
<1> QED
  BY <1>1, <1>2, <1>3, <1>4, <1>5 DEF Next

(* What is not a step of a task: a byte, the end of a write cycle, a stutter. *)
LEMMA AloneStays ==
  ASSUME Types, NEW t \in Tasks, Alone(t), InCall(t),
         Transfer \/ CycleEnds \/ UNCHANGED vars
  PROVE  Alone(t)'
<1>1. PICK p \in 1 .. 30 : Place(t) = p
  BY Places DEF Types
<1>2. At(t, p) /\ ~InCall(Other(t))
  BY <1>1 DEF Alone
<1>3. at' = at /\ op' = op
  BY DEF Transfer, CycleEnds, vars, tasks
<1>4. Place(t)' = p /\ ~InCall(Other(t))'
  BY <1>1, <1>2, <1>3 DEF Place, Writes, InCall
<1>5. At(t, p)'
  <2>1. CASE Transfer
    BY <1>2, <2>1, AtTransfer
  <2>2. CASE CycleEnds
    BY <1>2, <2>2, AtCycleEnds
  <2>3. CASE UNCHANGED vars
    <3>1. UNCHANGED <<driver, buffers, line, op, number, done, exit_code, notified>>
      BY <2>3 DEF vars, tasks
    <3>2. UNCHANGED <<NSS, pipe, chip, WEL, busy, mem, state, data_index, sector_buffer, pData>>
      BY <3>1 DEF driver, buffers, line
    <3>3. /\ cur_addr(t)' = cur_addr(t) /\ cur_len(t)' = cur_len(t) /\ (Writes(t)' <=> Writes(t))
          /\ \A k : Latched(t, k)' = Latched(t, k)
          /\ Offset(t)' = Offset(t)
      BY <3>1, <3>2, Steady, LatchedStays
    <3>4. WritesSector(t)' <=> WritesSector(t)
      <4>1. \A k : Latches(t, k)' <=> Latches(t, k)
        BY <3>2, <3>3 DEF Latches
      <4> QED
        BY <3>1, <3>2, <3>3, <4>1 DEF WritesSector, Heard, Answered, Selected
    <3>5. ReadsCells(t)' <=> ReadsCells(t)
      BY <3>1, <3>2, <3>3 DEF ReadsCells, Heard, Answered, Selected, HasRead
    <3>6. (AsksStatus(t)' <=> AsksStatus(t)) /\ (StatusKnown(t)' <=> StatusKnown(t))
      BY <3>1, <3>2 DEF AsksStatus, StatusKnown, Heard, Answered, Silent, Selected
    <3>7. Unprotects(t)' <=> Unprotects(t)
      BY <3>1, <3>2 DEF Unprotects, Heard, Answered, Selected
    <3>8. LineAt(t, p)'
      <4>1. /\ Latches(t, cur_len(t))' <=> Latches(t, cur_len(t))
            /\ HasRead(t, op[t].size)' <=> HasRead(t, op[t].size)
        BY <3>1, <3>2, <3>3 DEF Latches, HasRead
      <4>2. /\ Silent(t)' <=> Silent(t)
            /\ Selected("command")' <=> Selected("command")
            /\ Selected("enable")' <=> Selected("enable")
        BY <3>1, <3>2 DEF Silent, Selected
      <4>3. LineAt(t, p)
        BY <1>2 DEF At
      <4> QED
        BY <3>1, <3>2, <3>3, <3>4, <3>5, <3>6, <3>7, <4>1, <4>2, <4>3 DEF LineAt
    <3>9. FieldsAt(t, p)'
      BY <1>2, <3>1, <3>3 DEF At, FieldsAt, driver
    <3>10. ChipAt(t, p)'
      BY <1>2, <3>1, <3>2, <3>3 DEF At, ChipAt
    <3> QED
      BY <3>8, <3>9, <3>10 DEF At
  <2> QED
    BY <2>1, <2>2, <2>3
<1> QED
  BY <1>4, <1>5 DEF Alone

LEMMA CallNext ==
  ASSUME Types, CallInv, [Next]_vars
  PROVE  CallInv'
<1>1. NSS' = "high" => chip' = Deselected
  BY DeselectedNext DEF CallInv
<1>2. CASE Transfer \/ CycleEnds \/ UNCHANGED vars
  <2>1. UNCHANGED <<at, clean, disturbed>>
    BY <1>2 DEF Transfer, CycleEnds, vars, tasks
  <2>2. \A t \in Tasks : InCall(t)' <=> InCall(t)
    BY <2>1 DEF InCall
  <2>3. ASSUME NEW t \in Tasks, InCall(t)', clean'[t] PROVE Alone(t)'
    <3>1. InCall(t) /\ clean[t]
      BY <2>1, <2>2, <2>3
    <3>2. Alone(t)
      BY <3>1 DEF CallInv
    <3> QED
      BY <1>2, <3>1, <3>2, AloneStays
  <2>4. ~disturbed' => \A t \in Tasks : InCall(t)' => clean'[t]
    BY <2>1, <2>2 DEF CallInv
  <2> QED
    BY <1>1, <2>3, <2>4 DEF CallInv
<1>3. ASSUME NEW t \in Tasks, Begin(t) PROVE CallInv'
  <2>1. /\ at' = [at EXCEPT ![t] = 1]
        /\ clean' = [clean EXCEPT
              ![t] = ~InCall(Other(t)) /\ NSS = "high" /\ pipe = <<>> /\ notified[t] = 0,
              ![Other(t)] = @ /\ ~InCall(Other(t))]
        /\ disturbed' = (disturbed \/ ~clean'[t])
        /\ at \in [Tasks -> Nat] /\ clean \in [Tasks -> BOOLEAN]
    BY <1>3 DEF Begin, Types, TaskTypes
  <2>2. Other(t) \in Tasks /\ \A u \in Tasks : u = t \/ u = Other(t)
    BY DEF Tasks, Other
  <2>3. /\ InCall(Other(t))' => InCall(Other(t))
        /\ clean'[t] => ~InCall(Other(t))
        /\ InCall(Other(t)) => ~clean'[Other(t)]
    BY <2>1, <2>2, Others DEF InCall
  <2>4. ASSUME NEW u \in Tasks, InCall(u)', clean'[u] PROVE Alone(u)'
    <3>1. u = t
      BY <2>2, <2>3, <2>4
    <3> QED
      BY <1>3, <2>4, <3>1, AtBegin
  <2>5. ~disturbed' => \A u \in Tasks : InCall(u)' => clean'[u]
    BY <2>1, <2>2, <2>3
  <2> QED
    BY <1>1, <2>4, <2>5 DEF CallInv
<1>4. ASSUME NEW t \in Tasks, Step(t) PROVE CallInv'
  <2>1. InCall(t) /\ UNCHANGED <<clean, disturbed>> /\ \A u : u # t => InCall(u)' = InCall(u)
    BY <1>4, StepKeeps
  <2>2. ASSUME NEW u \in Tasks, InCall(u)', clean'[u] PROVE Alone(u)'
    <3>1. CASE u = t
      BY <1>4, <2>1, <2>2, <3>1, StepAlone
    <3>2. CASE u # t
      <4>1. InCall(u) /\ clean[u]
        BY <2>1, <2>2, <3>2
      <4>2. ~InCall(Other(u))
        BY <4>1 DEF CallInv, Alone
      <4>3. Other(u) = t
        BY <3>2 DEF Other, Tasks
      <4> QED
        BY <2>1, <4>2, <4>3
    <3> QED
      BY <3>1, <3>2
  <2>3. ~disturbed' => \A u \in Tasks : InCall(u)' => clean'[u]
    BY <2>1 DEF CallInv
  <2> QED
    BY <1>1, <2>2, <2>3 DEF CallInv
<1> QED
  BY <1>2, <1>3, <1>4 DEF Next

LEMMA CallInvAlways == Spec => [](Types /\ CallInv)
<1>1. Init => Types /\ CallInv
  BY TypesInit, CallInit
<1>2. Types /\ CallInv /\ [Next]_vars => (Types /\ CallInv)'
  BY TypesNext, CallNext
<1> QED
  BY <1>1, <1>2, PTL DEF Spec

-----------------------------------------------------------------------------
(* What the invariant says of the properties. *)

(* A clean call in its course is alone at one of its places. *)
LEMMA PlaceOf ==
  ASSUME Types, CallInv, NEW t \in Tasks, InCall(t), clean[t]
  PROVE  \E p \in 1 .. 30 : Place(t) = p /\ At(t, p)
<1>1. Alone(t)
  BY DEF CallInv
<1>2. Place(t) \in 1 .. 30
  BY Places DEF Types
<1> QED
  BY <1>1, <1>2 DEF Alone

LEMMA StoresFromInv == ASSUME Types, CallInv PROVE StoresInBuffer
<1> SUFFICES ASSUME NEW t \in Tasks, InCall(t), clean[t],
                    state = "READ_DATA_READ_STATE", pipe # <<>>
             PROVE  pdata = "pData" /\ data_index < RECORD_SIZE /\ data_index < data_size
  BY DEF StoresInBuffer
<1>1. PICK p \in 1 .. 30 : Place(t) = p /\ At(t, p)
  BY PlaceOf
<1>2. p \in {6, 7, 12, 24, 25, 29}
  BY <1>1 DEF At, LineAt, Silent
<1>3. p = 29
  BY <1>1, <1>2 DEF At, FieldsAt
<1>4. ~Writes(t)
  BY <1>1, <1>3 DEF At, LineAt, WritesSector, Answered
<1>5. ReadsCells(t)
  BY <1>1, <1>3, <1>4 DEF At, LineAt
<1>6. data_index < op[t].size
  BY <1>5 DEF ReadsCells, Answered
<1>7. pdata = "pData" /\ data_size = op[t].size
  BY <1>1, <1>3, <1>4 DEF At, FieldsAt
<1>8. op[t].size \in 1 .. RECORD_SIZE /\ RECORD_SIZE \in Nat /\ data_index \in Nat
  BY Lengths, Numbers DEF Types, FieldTypes
<1> QED
  BY <1>6, <1>7, <1>8

LEMMA OnlyBusyFromInv == ASSUME Types, CallInv PROVE OnlyBusyFails
<1> SUFFICES ASSUME NEW t \in Tasks, clean[t], Statement(t) = "wait", notified[t] = 0
             PROVE  /\ pipe # <<>>
                    /\ state = "READ_STATUS_STATE" =>
                          NSS = "low" /\ chip.mode \in {"command", "status"}
  BY DEF OnlyBusyFails
<1>1. InCall(t)
  BY DEF Statement
<1>2. PICK p \in 1 .. 30 : Place(t) = p /\ At(t, p)
  BY <1>1, PlaceOf
<1>3. p \in {6, 12, 24, 29}
  BY <1>1, <1>2, Places DEF Types
<1>4. /\ p \in {6, 24} => AsksStatus(t)
      /\ p = 12 => Unprotects(t) /\ state = "WRITE_COMMAND_STATE"
      /\ p = 29 /\ Writes(t) => WritesSector(t)
      /\ p = 29 /\ ~Writes(t) => ReadsCells(t)
  BY <1>2 DEF At, LineAt, FieldsAt
<1>5. ~Answered(t)
  BY DEF Answered
<1>6. CASE p \in {6, 24}
  <2>1. Heard(t, Byte("RDSR")) /\ (Selected("command") \/ Selected("status"))
    BY <1>4, <1>5, <1>6 DEF AsksStatus
  <2> QED
    BY <2>1, HeardIsSomething, SelectedMode
<1>7. CASE p = 12
  <2>1. Heard(t, Byte("WREN"))
    BY <1>4, <1>5, <1>7 DEF Unprotects
  <2> QED
    BY <1>4, <1>7, <2>1, HeardIsSomething
<1>8. CASE p = 29 /\ Writes(t)
  <2>1. state # "READ_STATUS_STATE" /\ \E b : Heard(t, b)
    BY <1>4, <1>5, <1>8 DEF WritesSector
  <2> QED
    BY <2>1, HeardIsSomething
<1>9. CASE p = 29 /\ ~Writes(t)
  <2>1. state # "READ_STATUS_STATE" /\ \E b : Heard(t, b)
    BY <1>4, <1>5, <1>9 DEF ReadsCells
  <2> QED
    BY <2>1, HeardIsSomething
<1> QED
  BY <1>3, <1>6, <1>7, <1>8, <1>9

(* Only the end of a sector's transaction changes what the chip holds. *)
LEMMA ReleaseStores ==
  ASSUME Types, NEW t \in Tasks, NEW p \in {7, 14, 25, 30}, At(t, p), Release(t)
  PROVE  \A c \in Cells :
            mem'[c] = mem[c] \/ \E i \in Nat : c = op[t].adress + i /\ mem'[c] = Data(number[t], i)
<1>1. CASE p = 30 /\ Writes(t)
  BY <1>1, SectorStored
<1>2. CASE ~(p = 30 /\ Writes(t))
  <2>1. /\ p \in {7, 25} => Selected("command") \/ Selected("status")
        /\ p = 14 => Selected("enable")
        /\ p = 30 => chip.mode = "reading"
    BY <1>2 DEF At, LineAt, StatusKnown
  <2>2. chip.mode # "writing"
    BY <2>1, SelectedMode
  <2>3. mem' = mem
    BY <2>2, RisesPlain DEF Release, Types
  <2> QED
    BY <2>3
<1> QED
  BY <1>1, <1>2

LEMMA StrayInit == ASSUME Init PROVE NothingStray
  BY DEF Init, NothingStray

LEMMA StrayNext ==
  ASSUME Types, CallInv, NothingStray, [Next]_vars
  PROVE  NothingStray'
<1>1. calls \in Nat
  BY Numbers DEF Types, TaskTypes
<1>2. CASE mem' = mem /\ calls' \in Nat /\ calls' >= calls /\ (disturbed => disturbed')
  <2>1. 1 .. calls \subseteq 1 .. calls'
    BY <1>1, <1>2
  <2> QED
    BY <1>2, <2>1 DEF NothingStray
<1>3. CASE Transfer \/ CycleEnds \/ UNCHANGED vars
  <2>1. mem' = mem /\ calls' = calls /\ disturbed' = disturbed
    BY <1>3 DEF Transfer, CycleEnds, vars, line
  <2> QED
    BY <1>1, <1>2, <2>1
<1>4. ASSUME NEW t \in Tasks, Begin(t) PROVE NothingStray'
  <2>1. mem' = mem /\ calls' = calls + 1 /\ (disturbed => disturbed')
    BY <1>4 DEF Begin, line
  <2> QED
    BY <1>1, <1>2, <2>1
<1>5. ASSUME NEW t \in Tasks, Release(t) PROVE NothingStray'
  <2>1. UNCHANGED <<number, op, calls, disturbed>> /\ InCall(t) /\ Statement(t) = "release"
    BY <1>5 DEF Release, Runs
  <2> SUFFICES ASSUME ~disturbed, NEW a \in Cells
               PROVE  \/ mem'[a] = Data(0, a)
                      \/ \E c \in 1 .. calls, first \in {RecordAt, RegisterAt} :
                            mem'[a] = Data(c, a - first)
    BY <2>1 DEF NothingStray
  <2>2. PICK p \in 1 .. 30 : Place(t) = p /\ At(t, p)
    BY <2>1, PlaceOf DEF CallInv
  <2>3. p \in {7, 14, 25, 30}
    BY <2>1, <2>2, Places DEF Types
  <2>4. mem'[a] = mem[a] \/ \E i \in Nat : a = op[t].adress + i /\ mem'[a] = Data(number[t], i)
    BY <1>5, <2>2, <2>3, ReleaseStores
  <2>5. CASE mem'[a] = mem[a]
    BY <2>5 DEF NothingStray
  <2>6. ASSUME NEW i \in Nat, a = op[t].adress + i, mem'[a] = Data(number[t], i)
        PROVE  \E c \in 1 .. calls, first \in {RecordAt, RegisterAt} : mem'[a] = Data(c, a - first)
    <3>1. number[t] \in 1 .. calls /\ op[t] \in Ops[t]
      BY <2>1 DEF Types, TaskTypes
    <3>2. op[t].adress \in {RecordAt, RegisterAt} /\ op[t].adress \in Nat
      BY <3>1, OpTypes
    <3>3. i = a - op[t].adress
      BY <2>6, <3>2
    <3> QED
      BY <2>6, <3>1, <3>2, <3>3
  <2> QED
    BY <2>4, <2>5, <2>6
<1>6. ASSUME NEW t \in Tasks, Step(t), ~Release(t) PROVE NothingStray'
  <2>1. calls' = calls /\ disturbed' = disturbed
    BY <1>6, StepKeeps
  <2>2. mem' = mem
    BY <1>6 DEF Step, Memcpy, SetState, SetHandle, SetField, Select, Falls, Command, Notified,
            TimesOut, Delay, line
  <2> QED
    BY <1>1, <1>2, <2>1, <2>2
<1> QED
  BY <1>3, <1>4, <1>5, <1>6 DEF Next

(* What a call has done when it returns EEPROM_OK. *)
LEMMA DoneWhenOk ==
  ASSUME Types, CallInv, [Next]_vars, NEW t \in Tasks,
         clean[t], result[t] = "none", result'[t] = "EEPROM_OK"
  PROVE  Did(t)
<1>1. TaskTypes /\ result \in [Tasks -> {"none", "error", "EEPROM_OK"}]
  BY DEF Types, TaskTypes
<1>2. PICK u \in Tasks : Begin(u) \/ Step(u)
  BY DEF Next, Transfer, CycleEnds, vars, tasks
<1>3. ~Begin(u)
  BY <1>1 DEF Begin
<1>4. Release(u)
  BY <1>2, <1>3 DEF Step, Memcpy, SetState, SetHandle, SetField, Select, Command, Notified,
     TimesOut, Delay, StaysOn
<1>5. u = t
  BY <1>1, <1>4 DEF Release
<1>6. InCall(t) /\ Statement(t) = "release"
  BY <1>4, <1>5 DEF Release, Runs
<1>7. PICK p \in 1 .. 30 : Place(t) = p /\ At(t, p)
  BY <1>6, PlaceOf
<1>8. /\ at[t] = Len(Statements(t))
      /\ ~(op[t].kind = "write" /\ byte_to_send(t) - cur_len(t) > 0)
  BY <1>1, <1>4, <1>5 DEF Release
<1>9. p = 30
  BY <1>1, <1>6, <1>7, <1>8, Places
<1>10. CASE Writes(t)
  <2>1. \A i \in 0 .. done[t] + cur_len(t) - 1 : mem'[op[t].adress + i] = Data(number[t], i)
    BY <1>4, <1>5, <1>7, <1>9, <1>10, SectorStored
  <2>2. ~(byte_to_send(t) - cur_len(t) > 0)
    BY <1>8, <1>10 DEF Writes
  <2>3. done[t] + cur_len(t) >= op[t].size
    BY <1>1, <2>2, Lengths DEF byte_to_send
  <2>4. \A i \in 0 .. op[t].size - 1 : mem'[op[t].adress + i] = Data(number[t], i)
    BY <1>1, <2>1, <2>3, Lengths
  <2> QED
    BY <1>10, <2>4 DEF Did, Writes
<1>11. CASE ~Writes(t)
  <2>1. HasRead(t, op[t].size)
    BY <1>7, <1>9, <1>11 DEF At, LineAt
  <2>2. cur_addr(t) = op[t].adress
    <3>1. done[t] = 0
      BY <1>1, <1>11 DEF TaskTypes
    <3> QED
      BY <1>1, <3>1, Lengths
  <2> QED
    BY <1>11, <2>1, <2>2 DEF HasRead, Did, Writes
<1> QED
  BY <1>10, <1>11

-----------------------------------------------------------------------------
(* The invariant holds in every state. *)
LEMMA InvAlways == Spec => []Inv
<1>1. Init => Inv
  BY TypesInit, CallInit, StrayInit DEF Inv
<1>2. Inv /\ [Next]_vars => Inv'
  BY TypesNext, CallNext, StrayNext DEF Inv
<1> QED
  BY <1>1, <1>2, PTL DEF Spec

(* While a call that began alone on an idle line is under way, the interrupt stores    *)
(* every byte that comes in inside of the buffer of the caller (EEPROM_25C.c:41-59):   *)
(* whatever the sizes of the chip, the sector and the record are.                       *)
THEOREM StoresInBufferAlways == Spec => []StoresInBuffer
<1>1. Inv => StoresInBuffer
  BY StoresFromInv DEF Inv
<1> QED
  BY <1>1, InvAlways, PTL

(* Such a call waits in vain for the answer to a question about the status only        *)
(* (EEPROM_25C.c:19-87): every other wait has a byte on the line, and no notification  *)
(* of the interrupt is lost or taken by another statement.                              *)
THEOREM OnlyBusyFailsAlways == Spec => []OnlyBusyFails
<1>1. Inv => OnlyBusyFails
  BY OnlyBusyFromInv DEF Inv
<1> QED
  BY <1>1, InvAlways, PTL

(* As long as no call met another one or the remains of a failed one, each cell holds  *)
(* what it held at first or what a call wrote to that address (EEPROM_25C.c:139-217):  *)
(* no byte of a sector wraps round or goes to another address.                          *)
THEOREM NothingStrayAlways == Spec => []NothingStray
<1>1. Inv => NothingStray
  BY DEF Inv
<1> QED
  BY <1>1, InvAlways, PTL

(* A call that was alone on the driver from an idle line on and returns EEPROM_OK has  *)
(* written all of its bytes or read what the chip holds (EEPROM_25C.c:139-217), for a  *)
(* record that lies across the border of sectors as for one inside.                     *)
THEOREM OkMeansDoneAlways == Spec => OkMeansDone
<1>1. Inv /\ [Next]_vars =>
        [\A t \in Tasks : clean[t] /\ result[t] = "none" /\ result'[t] = "EEPROM_OK" => Did(t)]_vars
  BY DoneWhenOk DEF Inv
<1> QED
  BY <1>1, InvAlways, PTL DEF Spec, OkMeansDone

-----------------------------------------------------------------------------
(* What DataModel takes from the driver: as long as no two calls met, the chip's content  *)
(* changes by whole pieces, up to the border of a sector, of a call that then goes on to  *)
(* the next piece or returns EEPROM_OK (EEPROM_25C.c:191-217).                             *)
PieceWritten(t) ==
    /\ InCall(t) /\ Writes(t)
    /\ mem' = [c \in Cells |-> IF c \in cur_addr(t) .. cur_addr(t) + cur_len(t) - 1
                               THEN Data(number[t], c - op[t].adress) ELSE mem[c]]
    /\ done'[t] = done[t] + cur_len(t) \/ result'[t] = "EEPROM_OK"
WholePieces == [][~disturbed => mem' = mem \/ \E t \in Tasks : PieceWritten(t)]_vars

LEMMA ReleaseWritesPiece ==
  ASSUME Types, CallInv, ~disturbed, NEW t \in Tasks, Release(t), mem' # mem
  PROVE  PieceWritten(t)
<1>1. InCall(t) /\ Statement(t) = "release" /\ Rises /\ pipe' = pipe
  BY DEF Release, Runs
<1>2. PICK p \in 1 .. 30 : Place(t) = p /\ At(t, p)
  BY <1>1, PlaceOf DEF CallInv
<1>3. p \in {7, 14, 25, 30}
  BY <1>1, <1>2, Places DEF Types
<1>4. p = 30 /\ Writes(t)
  <2>1. /\ p \in {7, 25} => Selected("command") \/ Selected("status")
        /\ p = 14 => Selected("enable")
        /\ p = 30 /\ ~Writes(t) => chip.mode = "reading"
    BY <1>2 DEF At, LineAt, StatusKnown
  <2>2. chip.mode = "writing"
    BY <1>1, RisesPlain DEF Types
  <2> QED
    BY <1>3, <2>1, <2>2, SelectedMode
<1>5. Silent(t) /\ exit_code[t] = 1 /\ Latches(t, cur_len(t))
  BY <1>2, <1>4 DEF At, LineAt
<1>6. \A i \in 0 .. cur_len(t) - 1 : sector_buffer[i] = Data(number[t], done[t] + i)
  BY <1>2, <1>4 DEF At, ChipAt
<1>7. \A c \in Cells :
        mem'[c] = IF c \in cur_addr(t) .. cur_addr(t) + cur_len(t) - 1
                  THEN Data(number[t], done[t] + (c - cur_addr(t))) ELSE mem[c]
  BY <1>1, <1>5, <1>6, RisesStoring DEF Silent
<1>8. \A c \in Cells : done[t] + (c - cur_addr(t)) = c - op[t].adress
  <2>1. cur_addr(t) = op[t].adress + done[t] /\ op[t].adress \in Nat /\ done[t] \in Nat
    BY Lengths DEF Types
  <2>2. \A c \in Cells : c \in Nat
    BY Numbers
  <2> QED
    BY <2>1, <2>2
<1>9. mem' \in [Cells -> Bytes]
  BY <1>1, RisesTypes DEF Types
<1>10. mem' = [c \in Cells |-> IF c \in cur_addr(t) .. cur_addr(t) + cur_len(t) - 1
                               THEN Data(number[t], c - op[t].adress) ELSE mem[c]]
  BY <1>7, <1>8, <1>9
<1>11. done'[t] = done[t] + cur_len(t) \/ result'[t] = "EEPROM_OK"
  <2>1. at[t] = Len(Statements(t)) /\ exit_code[t] # 0
    BY <1>1, <1>2, <1>4, <1>5, Places DEF Types
  <2>2. \/ done' = [done EXCEPT ![t] = @ + cur_len(t)]
        \/ result' = [result EXCEPT ![t] = "EEPROM_OK"]
    BY <2>1 DEF Release
  <2> QED
    BY <2>2 DEF Types, TaskTypes
<1> QED
  BY <1>1, <1>4, <1>10, <1>11 DEF PieceWritten

(* WholePieces holds for any sizes and addresses (EEPROM_25C.c:191-217): a transfer that    *)
(* fails changes nothing, and one that does not has written its piece as a whole, as the   *)
(* actions WriteFails and WriteSector of DataModel have it.                                *)
THEOREM WholePiecesAlways == Spec => WholePieces
<1>1. Inv /\ [Next]_vars => [~disturbed => mem' = mem \/ \E t \in Tasks : PieceWritten(t)]_vars
  <2> SUFFICES ASSUME Inv, [Next]_vars, ~disturbed, mem' # mem
               PROVE  \E t \in Tasks : PieceWritten(t)
    OBVIOUS
  <2>1. PICK t \in Tasks : Begin(t) \/ Step(t)
    BY DEF Next, Transfer, CycleEnds, vars, line
  <2>2. Release(t)
    BY <2>1 DEF Begin, Step, Memcpy, SetState, SetHandle, SetField, Select, Falls, Command, Notified,
       TimesOut, Delay, line
  <2> QED
    BY <2>2, ReleaseWritesPiece DEF Inv
<1> QED
  BY <1>1, InvAlways, PTL DEF Spec, WholePieces
=============================================================================
