------------------------------ MODULE DataModel ------------------------------
(***************************************************************************)
(* Settings and journal (src/User/data_model.c): a RAM image of the        *)
(* registers, the EEPROM behind it, the ring of journal records, and power *)
(* that may fail between any two writes of a sector.                       *)
(*                                                                         *)
(* Two tasks save: the user task (priority 8) adds records and saves the   *)
(* hours before the mains go; a task of priority 5 (the menu or the Modbus *)
(* task) changes settings and resets the journal.  The driver is taken at  *)
(* its best: a sector is written whole or not at all, and a call begins    *)
(* when no other is in progress.  Module Eeprom says when that is so.      *)
(***************************************************************************)
EXTENDS Integers, Sequences, FiniteSets

CONSTANTS
    RECORD_DATA_SIZE,   \* slots of the ring (50)
    Straddling,         \* slots that lie across a border of two sectors
    MaxRecords,         \* bound: records added
    MaxChanges,         \* bound: changes of a setting, resets, hours, savings at a power-off
    MaxFaults           \* bound: power losses and failed transfers

Blank   == 65535                 \* what an EEPROM holds that was never written

(* The counters of the journal are of 16 bits. *)
ASSUME SizeAssumption ==
    /\ RECORD_DATA_SIZE \in 1 .. Blank - 1
    /\ Straddling \subseteq 0 .. RECORD_DATA_SIZE - 1
    /\ MaxRecords \in Nat /\ MaxChanges \in 0 .. Blank - 1 /\ MaxFaults \in Nat

Slots   == 0 .. RECORD_DATA_SIZE - 1
Records == 1 .. MaxRecords
VALID_CODE == 1

(* COOF_I3 is four bytes at 62..65 and so in two sectors: two halves here. *)
Sector0 == {"VALID_CODE_ADDRES", "CONTROL_TYPE", "MB_PROTOCOL_TYPE", "RESURSE", "COOF_I3_low"}
Sector1 == {"COOF_I3_high", "SETTING1", "MOTO_HOURS", "RECORD_COUNT", "RECORD_INDEX"}
Registers == Sector0 \union Sector1
ResetRegisters == {"RECORD_INDEX", "RECORD_COUNT"}

Defaults == [r \in Registers |->
    CASE r = "VALID_CODE_ADDRES" -> VALID_CODE
      [] r \in {"CONTROL_TYPE", "MB_PROTOCOL_TYPE", "SETTING1"} -> 1
      [] OTHER -> 0]

VARIABLES
    DATA_MODEL_REGISTER,  \* the registers in RAM
    rom,                  \* the registers in the EEPROM
    slot,                 \* the journal in the EEPROM: head and tail of each record
    boot,                 \* where DataModel_Init is
    todo,                 \* the sectors the WriteEEPROM in progress has still to write
    userPc, index,        \* the user task, and the local index of vADDRecord
    lowOp, saves, lowPc,  \* the other task: what it does, which saves are left
    added,                \* records begun so far: the last one's number
    changes, faults,      \* requests and faults so far
    unsaved,              \* registers that were to stay in RAM or whose saving failed
    cut,                  \* operations on several sectors that were cut short
    sound,                \* the ring was never damaged (see Damage below)
    interfered,           \* a record was added during the reset in progress
    givenUp               \* a full ring's oldest record is being overwritten

stores   == <<DATA_MODEL_REGISTER, rom, slot, unsaved>>
userVars == <<userPc, index, added>>
lowVars  == <<lowOp, saves, lowPc, changes>>
history  == <<cut, sound, interfered, givenUp>>
vars == <<stores, boot, todo, userVars, lowVars, faults, history>>

-----------------------------------------------------------------------------
(* WriteEEPROM: one step for each sector; the bytes are taken when it begins. *)

\* Mutant: only the first sector is written.
Image_OneSector(f, regs) ==
    LET part(sector) == [kind |-> "image", data |-> [r \in regs \intersect sector |-> f[r]]]
    IN  <<IF regs \intersect Sector0 = {} THEN part(Sector1) ELSE part(Sector0)>>

Image(f, regs) ==
    LET part(sector) == [kind |-> "image", data |-> [r \in regs \intersect sector |-> f[r]]]
    IN  IF regs \intersect Sector0 = {} THEN <<part(Sector1)>>
        ELSE IF regs \intersect Sector1 = {} THEN <<part(Sector0)>>
        ELSE <<part(Sector0), part(Sector1)>>

Record(i) ==
    IF i \in Straddling
    THEN <<[kind |-> "record", place |-> i, parts |-> {"head"}],
           [kind |-> "record", place |-> i, parts |-> {"tail"}]>>
    ELSE <<[kind |-> "record", place |-> i, parts |-> {"head", "tail"}]>>

Idle == todo = <<>>
Resetting == lowOp = "reset"
(* The tasks of priority 5 run only while the user task sleeps or waits. *)
LowRuns == boot = "on" /\ (userPc = "rest" \/ ~Idle)

Ring(registers) == ResetRegisters \subseteq DOMAIN registers

WriteSector ==
    /\ ~Idle
    /\ LET c == Head(todo) IN
        \/ /\ c.kind = "image"
           /\ rom' = [r \in Registers |-> IF r \in DOMAIN c.data THEN c.data[r] ELSE rom[r]]
           /\ unsaved' = unsaved \ {r \in DOMAIN c.data : c.data[r] = DATA_MODEL_REGISTER[r]}
           /\ sound' = CASE boot = "writing" /\ Len(todo) = 1 -> TRUE
                         [] Resetting /\ userPc = "rest" ->
                              "RECORD_COUNT" \in DOMAIN c.data /\ ~interfered
                         [] OTHER -> sound
           /\ givenUp' = (givenUp /\ sound' /\ ~Ring(c.data))
           /\ slot' = slot
        \/ /\ c.kind = "record"
           /\ slot' = [slot EXCEPT ![c.place] =
                           [p \in {"head", "tail"} |-> IF p \in c.parts THEN added ELSE @[p]]]
           /\ givenUp' = (sound /\ rom["RECORD_COUNT"] = RECORD_DATA_SIZE)
           /\ UNCHANGED <<rom, unsaved, sound>>
    /\ todo' = Tail(todo)
    /\ UNCHANGED <<DATA_MODEL_REGISTER, boot, userVars, lowVars, faults, cut, interfered>>

(* A transfer fails (its time-out of ten ticks): the loop over the sectors ends.  *)
(* No caller looks at the result of WriteEEPROM.                                  *)
WriteFails ==
    /\ ~Idle /\ faults < MaxFaults
    /\ faults' = faults + 1
    /\ todo' = <<>>
    /\ unsaved' = unsaved \union
           UNION {DOMAIN todo[i].data : i \in {j \in DOMAIN todo : todo[j].kind = "image"}}
    /\ cut' = cut \union {IF boot = "writing" THEN "init" ELSE lowOp}
    /\ sound' = FALSE /\ givenUp' = FALSE
    /\ interfered' = TRUE
    /\ UNCHANGED <<DATA_MODEL_REGISTER, rom, slot, boot, userVars, lowVars>>

-----------------------------------------------------------------------------
(* DataModel_Init *)

(* The image is read.  Without the valid code it is replaced by the defaults, written *)
(* in the order of the sectors.                                                       *)
BootRead ==
    /\ boot = "off"
    /\ IF rom["VALID_CODE_ADDRES"] # VALID_CODE
       THEN /\ DATA_MODEL_REGISTER' = Defaults
            /\ todo' = Image(Defaults, Registers)
            /\ boot' = "writing"
            /\ unsaved' = Registers
       ELSE /\ DATA_MODEL_REGISTER' = rom
            /\ boot' = "on"
            /\ unsaved' = {}
            /\ todo' = todo
    /\ UNCHANGED <<rom, slot, userVars, lowVars, faults, history>>

(* A reading fails: the interrupts have stored the bytes up to some place, here those *)
(* of no sector or of the first one.                                                  *)
ReadFails(got) ==
    /\ faults < MaxFaults
    /\ faults' = faults + 1
    /\ DATA_MODEL_REGISTER' =
           [r \in Registers |-> IF r \in got THEN rom[r] ELSE DATA_MODEL_REGISTER[r]]

Prefixes == {{}, Sector0}

(* INIT_ERROR, which the start-up ignores. *)
BootReadFails ==
    /\ boot = "off"
    /\ \E got \in Prefixes : ReadFails(got)
    /\ boot' = "on"
    /\ unsaved' = Registers
    /\ sound' = FALSE /\ givenUp' = FALSE
    /\ UNCHANGED <<rom, slot, todo, userVars, lowVars, cut, interfered>>

(* What was written is read back (line 65). *)
BootReread ==
    /\ boot = "writing" /\ Idle
    /\ DATA_MODEL_REGISTER' = rom
    /\ unsaved' = {}
    /\ boot' = "on"
    /\ UNCHANGED <<rom, slot, todo, userVars, lowVars, faults, history>>

(* Nobody looks at the result of that either: the defaults stay where it has failed.  *)
BootRereadFails ==
    /\ boot = "writing" /\ Idle
    /\ \E got \in Prefixes : ReadFails(got) /\ unsaved' = unsaved \ got
    /\ boot' = "on"
    /\ UNCHANGED <<rom, slot, todo, userVars, lowVars, history>>

-----------------------------------------------------------------------------
(* The user task: vADDRecord and SaveBeforePowerOff *)

(* A blank index, left by an initialisation that was cut or by its readings that      *)
(* failed, points outside of the ring; records that go there are not modelled.        *)
AddBegin ==
    /\ boot = "on" /\ Idle /\ userPc = "rest"
    /\ added < MaxRecords
    /\ DATA_MODEL_REGISTER["RECORD_INDEX"] \in Slots
    /\ index' = DATA_MODEL_REGISTER["RECORD_INDEX"]
    /\ todo' = Record(index')
    /\ added' = added + 1
    /\ userPc' = "record"
    /\ sound' = (sound /\ ~Resetting)
    /\ givenUp' = (givenUp /\ ~Resetting)
    /\ interfered' = (interfered \/ Resetting)
    /\ UNCHANGED <<stores, boot, lowVars, faults, cut>>

\* Mutant: the index runs one past the end of the ring.
NextIndex_TooFar(i) == IF i + 1 > RECORD_DATA_SIZE THEN 0 ELSE i + 1

NextIndex(i) == IF i + 1 >= RECORD_DATA_SIZE THEN 0 ELSE i + 1
NextCount(n) == IF n < RECORD_DATA_SIZE THEN n + 1 ELSE n

\* Mutant: only the count is saved.
AddCommit_NoIndex ==
    /\ userPc = "record" /\ Idle
    /\ LET counted == [DATA_MODEL_REGISTER EXCEPT
                          !["RECORD_INDEX"] = NextIndex(index),
                          !["RECORD_COUNT"] = NextCount(@)]
       IN  /\ DATA_MODEL_REGISTER' = counted
           /\ todo' = Image(counted, {"RECORD_COUNT"})
    /\ userPc' = "commit"
    /\ UNCHANGED <<rom, slot, unsaved, boot, index, added, lowVars, faults, history>>

(* The counters move on in RAM and are saved together: four bytes of one sector. *)
AddCommit ==
    /\ userPc = "record" /\ Idle
    /\ LET counted == [DATA_MODEL_REGISTER EXCEPT
                          !["RECORD_INDEX"] = NextIndex(index),
                          !["RECORD_COUNT"] = NextCount(@)]
       IN  /\ DATA_MODEL_REGISTER' = counted
           /\ todo' = Image(counted, ResetRegisters)
    /\ userPc' = "commit"
    /\ UNCHANGED <<rom, slot, unsaved, boot, index, added, lowVars, faults, history>>

(* Two registers, one save after the other. *)
SaveBeforePowerOff ==
    /\ boot = "on" /\ Idle /\ userPc = "rest" /\ changes < MaxChanges
    /\ changes' = changes + 1
    /\ todo' = Image(DATA_MODEL_REGISTER, {"MOTO_HOURS"})
    /\ userPc' = "hours"
    /\ UNCHANGED <<stores, boot, index, added, lowOp, saves, lowPc, faults, history>>

SaveResurse ==
    /\ userPc = "hours" /\ Idle
    /\ todo' = Image(DATA_MODEL_REGISTER, {"RESURSE"})
    /\ userPc' = "commit"
    /\ UNCHANGED <<stores, boot, index, added, lowVars, faults, history>>

UserReturns ==
    /\ userPc = "commit" /\ Idle
    /\ userPc' = "rest"
    /\ index' = 0
    /\ UNCHANGED <<stores, boot, todo, added, lowVars, faults, history>>

-----------------------------------------------------------------------------
(* A task of priority 5: SaveReg8, saveReg16, saveRegFloat, the reset from the menu *)

\* Mutant: the protocol does not follow the control type.
ControlSaves_Alone(v) == <<<<{"CONTROL_TYPE"}, v>>>>

ControlSaves(v) ==
    IF v > 0 THEN <<<<{"MB_PROTOCOL_TYPE"}, v>>, <<{"CONTROL_TYPE"}, v>>>>
             ELSE <<<<{"CONTROL_TYPE"}, v>>>>

LowBegin ==
    /\ LowRuns /\ lowOp = "none" /\ changes < MaxChanges
    /\ \/ \E v \in {0, 2} : lowOp' = "control" /\ saves' = ControlSaves(v)
       \/ lowOp' = "setting" /\ saves' = <<<<{"SETTING1"}, 2>>>>
       \/ lowOp' = "coef"    /\ saves' = <<<<{"COOF_I3_low", "COOF_I3_high"}, 2>>>>
       \/ lowOp' = "reset"   /\ saves' = <<<<{"RECORD_INDEX"}, 0>>, <<{"RECORD_COUNT"}, 0>>>>
    /\ lowPc' = "store"
    /\ changes' = changes + 1
    /\ interfered' = FALSE
    /\ UNCHANGED <<stores, boot, todo, userVars, faults, cut, sound, givenUp>>

(* The value is put into the RAM image ... *)
LowStore ==
    /\ LowRuns /\ lowPc = "store"
    /\ LET regs == Head(saves)[1] IN
        /\ DATA_MODEL_REGISTER' = [r \in Registers |->
               IF r \in regs THEN Head(saves)[2] ELSE DATA_MODEL_REGISTER[r]]
    /\ lowPc' = "stored"
    /\ interfered' = (interfered \/ userPc # "rest")
    /\ sound' = (sound /\ ~(Resetting /\ userPc # "rest"))
    /\ givenUp' = (givenUp /\ sound')
    /\ UNCHANGED <<rom, slot, unsaved, boot, todo, userVars, lowOp, saves, changes, faults, cut>>

\* Mutant: what is saved is the value from before the change.
LowSave_Before ==
    /\ LowRuns /\ lowPc = "stored" /\ Idle
    /\ todo' = Image(rom, Head(saves)[1])
    /\ lowPc' = "saving"
    /\ UNCHANGED <<stores, boot, userVars, lowOp, saves, changes, faults, history>>

(* ... and from there written to the EEPROM. *)
LowSave ==
    /\ LowRuns /\ lowPc = "stored" /\ Idle
    /\ todo' = Image(DATA_MODEL_REGISTER, Head(saves)[1])
    /\ lowPc' = "saving"
    /\ UNCHANGED <<stores, boot, userVars, lowOp, saves, changes, faults, history>>

LowSaved ==
    /\ LowRuns /\ lowPc = "saving" /\ Idle
    /\ saves' = Tail(saves)
    /\ IF Tail(saves) = <<>>
       THEN /\ lowPc' = "rest" /\ lowOp' = "none"
            /\ cut' = IF interfered THEN cut ELSE cut \ {lowOp}
       ELSE lowPc' = "store" /\ UNCHANGED <<lowOp, cut>>
    /\ UNCHANGED <<stores, boot, todo, userVars, changes, faults, sound, interfered, givenUp>>

(* The interrupt of the clock counts the time of work, in RAM only. *)
Hour ==
    /\ boot = "on" /\ changes < MaxChanges
    /\ changes' = changes + 1
    /\ DATA_MODEL_REGISTER' = [DATA_MODEL_REGISTER EXCEPT !["MOTO_HOURS"] = changes']
    /\ unsaved' = unsaved \union {"MOTO_HOURS"}
    /\ UNCHANGED <<rom, slot, boot, todo, userVars, lowOp, saves, lowPc, faults, history>>

-----------------------------------------------------------------------------
(* The power fails: what was in RAM is gone, what was being written stays as it is. *)
PowerLoss ==
    /\ boot # "off" /\ faults < MaxFaults
    /\ faults' = faults + 1
    /\ boot' = "off"
    /\ DATA_MODEL_REGISTER' = [r \in Registers |-> 0]
    /\ unsaved' = Registers
    /\ todo' = <<>>
    /\ userPc' = "rest" /\ index' = 0
    /\ lowOp' = "none" /\ saves' = <<>> /\ lowPc' = "rest"
    /\ cut' = cut \union {IF boot = "writing" THEN "init" ELSE lowOp}
    /\ UNCHANGED <<rom, slot, added, changes, sound, interfered, givenUp>>

Init ==
    /\ DATA_MODEL_REGISTER = [r \in Registers |-> 0]
    /\ rom = [r \in Registers |-> Blank]
    /\ slot = [i \in Slots |-> [head |-> 0, tail |-> 0]]
    /\ boot = "off" /\ todo = <<>>
    /\ userPc = "rest" /\ index = 0 /\ added = 0
    /\ lowOp = "none" /\ saves = <<>> /\ lowPc = "rest" /\ changes = 0
    /\ faults = 0
    /\ unsaved = Registers /\ cut = {}
    /\ sound = FALSE /\ interfered = FALSE /\ givenUp = FALSE

Boot == BootRead \/ BootReadFails \/ BootReread \/ BootRereadFails
User == AddBegin \/ AddCommit \/ SaveBeforePowerOff \/ SaveResurse \/ UserReturns
Low  == LowBegin \/ LowStore \/ LowSave \/ LowSaved \/ Hour

Next == WriteSector \/ WriteFails \/ Boot \/ User \/ Low \/ PowerLoss

Spec == Init /\ [][Next]_vars

-----------------------------------------------------------------------------
(* vGetRecord: the slot that the menu shows as record number addr + 1. *)

\* Mutant: an exactly filled ring is taken for one that has wrapped.
ShownSlot_Strict(addr) ==
    LET total == DATA_MODEL_REGISTER["RECORD_COUNT"]
        cur   == DATA_MODEL_REGISTER["RECORD_INDEX"]
    IN  IF cur - total > 0 THEN addr
        ELSE IF cur < total THEN cur
        ELSE addr - (total - cur + 1)

ShownSlot(addr) ==
    LET total == DATA_MODEL_REGISTER["RECORD_COUNT"]
        cur   == DATA_MODEL_REGISTER["RECORD_INDEX"]
    IN  IF cur - total >= 0 THEN addr
        ELSE IF cur < total THEN cur        \* the local index is still 0 here
        ELSE addr - (total - cur + 1)

(* The records that the EEPROM holds, oldest first; a record whose halves do not  *)
(* belong together is none.  A slot that is being overwritten no longer counts.   *)
Whole(s) == IF s.head = s.tail THEN s.head ELSE -1

DurableLog ==
    LET count == rom["RECORD_COUNT"]
        first == rom["RECORD_INDEX"] - count + RECORD_DATA_SIZE
        all   == [i \in 1 .. count |-> Whole(slot[(first + i - 1) % RECORD_DATA_SIZE])]
    IN  IF ~sound THEN <<>> ELSE IF givenUp THEN Tail(all) ELSE all

-----------------------------------------------------------------------------
(* Type invariant: every variable in its range; the index never leaves the ring,  *)
(* the count never passes its size (unless an initialisation was cut).            *)
TypeOK ==
    /\ DATA_MODEL_REGISTER \in [Registers -> 0 .. Blank]
    /\ rom \in [Registers -> 0 .. Blank]
    /\ DATA_MODEL_REGISTER["RECORD_INDEX"] \in Slots \union {Blank}
    /\ DATA_MODEL_REGISTER["RECORD_COUNT"] \in 0 .. RECORD_DATA_SIZE \union {Blank}
    /\ slot \in [Slots -> [{"head", "tail"} -> 0 .. MaxRecords]]
    /\ boot \in {"off", "writing", "on"}
    /\ \A i \in DOMAIN todo : todo[i].kind \in {"image", "record"}
    /\ Len(todo) <= 2
    /\ userPc \in {"rest", "record", "hours", "commit"} /\ index \in Slots /\ added \in 0 .. MaxRecords
    /\ lowOp \in {"none", "control", "setting", "coef", "reset"}
    /\ lowPc \in {"rest", "store", "stored", "saving"} /\ Len(saves) <= 2
    /\ changes \in 0 .. MaxChanges /\ faults \in 0 .. MaxFaults
    /\ unsaved \subseteq Registers
    /\ cut \subseteq {"init", "none", "control", "setting", "coef", "reset"}
    /\ sound \in BOOLEAN /\ interfered \in BOOLEAN /\ givenUp \in BOOLEAN

(* The EEPROM's journal is a bounded list of whole records, oldest first, at every  *)
(* moment the power may fail: vADDRecord (data_model.c:290-316) loses at most the   *)
(* record it is writing and, in a full ring, the one it replaces.                   *)
Durable == INSTANCE Journal WITH log <- DurableLog
Implements == Durable!Spec

(* vGetRecord (data_model.c:244-286) shows the records in the order they were added *)
(* until the ring has filled, and from then on the oldest one under every number.   *)
ShownIsJournal ==
    LET total == DATA_MODEL_REGISTER["RECORD_COUNT"] IN
    sound /\ boot = "on" /\ userPc = "rest" /\ ~Resetting =>
        \A addr \in 0 .. total - 1 :
            /\ ShownSlot(addr) \in Slots
            /\ IF total < RECORD_DATA_SIZE
               THEN Whole(slot[ShownSlot(addr)]) = DurableLog[addr + 1]
               ELSE ~givenUp => Whole(slot[ShownSlot(addr)]) = DurableLog[1]

(* "Get a record from the journal" (data_model.c:242): two numbers, two records.     *)
(* Not so once the ring is full: every number shows the oldest record.                 *)
RecordsDiffer ==
    LET total == DATA_MODEL_REGISTER["RECORD_COUNT"] IN
    sound /\ boot = "on" /\ userPc = "rest" /\ ~Resetting =>
        \A a, b \in 0 .. total - 1 : a # b => ShownSlot(a) # ShownSlot(b)

(* When nobody is saving, what a restart will read is what the program works with:  *)
(* the saves of two tasks, each taken from the RAM image at its own time              *)
(* (data_model.c:87-98, 160-166, 315), leave no register behind with an older value. *)
RamMatchesRom ==
    boot = "on" /\ Idle /\ userPc = "rest" /\ lowPc = "rest" =>
        \A r \in Registers \ unsaved : DATA_MODEL_REGISTER[r] = rom[r]

(* Settings that belong together agree after a restart, unless the power failed or a *)
(* transfer failed just while they were saved: control type and protocol              *)
(* (data_model.c:135-142), and the two halves of a coefficient that lies in two      *)
(* sectors (data_model.c:203-210).                                                   *)
PairsWhole ==
    /\ rom["CONTROL_TYPE"] \notin {0, Blank} /\ lowOp # "control" /\ "control" \notin cut
         => rom["MB_PROTOCOL_TYPE"] = rom["CONTROL_TYPE"]
    /\ boot = "on" /\ lowOp # "coef" /\ cut \intersect {"coef", "init"} = {}
         => rom["COOF_I3_low"] = rom["COOF_I3_high"]

(* The valid code is in the first sector and is written first (data_model.c:64): an  *)
(* image with the code has blank registers only if that first writing was cut.       *)
InitComplete ==
    rom["VALID_CODE_ADDRES"] = VALID_CODE /\ boot # "writing" /\ "init" \notin cut =>
        \A r \in Registers : rom[r] # Blank
=============================================================================
