-------------------------- MODULE DataModel_proofs --------------------------
(* Settings and journal: types, agreement of RAM and EEPROM, settings that belong     *)
(* together, the first initialisation, and the refinement of Journal, for a ring of    *)
(* any size, any number of records and changes, and any number of faults.              *)
EXTENDS DataModel, TLAPS

-----------------------------------------------------------------------------
(* Constants and sequences *)

LEMMA BlankFacts == Blank \in Nat /\ Blank > 2
BY DEF Blank

LEMMA SizeFacts ==
  /\ RECORD_DATA_SIZE \in Nat /\ RECORD_DATA_SIZE > 0 /\ RECORD_DATA_SIZE < Blank
  /\ MaxRecords \in Nat /\ MaxFaults \in Nat
  /\ MaxChanges \in Nat /\ MaxChanges < Blank
  /\ Slots = 0 .. RECORD_DATA_SIZE - 1 /\ Straddling \subseteq Slots
  /\ 0 \in Slots /\ Blank \notin Slots
BY SizeAssumption, BlankFacts DEF Slots

LEMMA RegisterFacts ==
  /\ Registers = {"VALID_CODE_ADDRES", "CONTROL_TYPE", "MB_PROTOCOL_TYPE", "RESURSE", "COOF_I3_low",
                  "COOF_I3_high", "SETTING1", "MOTO_HOURS", "RECORD_COUNT", "RECORD_INDEX"}
  /\ ResetRegisters \subseteq Sector1 /\ ResetRegisters # {}
  /\ Sector0 \intersect Sector1 = {}
BY DEF Registers, Sector0, Sector1, ResetRegisters

LEMMA TailFacts ==
  ASSUME NEW S, NEW s \in Seq(S), s # <<>>
  PROVE  /\ Head(s) = s[1] /\ Head(s) \in S
         /\ Tail(s) \in Seq(S) /\ Len(Tail(s)) = Len(s) - 1
         /\ Len(s) \in Nat /\ Len(s) > 0
         /\ \A i \in 1 .. Len(s) - 1 : Tail(s)[i] = s[i + 1]
OBVIOUS

LEMMA EmptySeq ==
  ASSUME NEW S, NEW s \in Seq(S)
  PROVE  s = <<>> <=> Len(s) = 0
OBVIOUS

-----------------------------------------------------------------------------
(* The chunks of a write *)

(* What a register may hold. *)
Values(r) ==
  CASE r = "RECORD_INDEX" -> Slots \union {Blank}
    [] r = "RECORD_COUNT" -> 0 .. RECORD_DATA_SIZE \union {Blank}
    [] OTHER -> 0 .. Blank

Typed(f) == f \in [Registers -> 0 .. Blank] /\ \A r \in Registers : f[r] \in Values(r)

Partial == {g \in UNION {[R -> 0 .. Blank] : R \in SUBSET Registers} :
               \A r \in DOMAIN g : g[r] \in Values(r)}

Chunk == [kind : {"image"}, data : Partial]
           \union [kind : {"record"}, place : Slots, parts : SUBSET {"head", "tail"}]

LEMMA ValuesBounds == \A r : Values(r) \subseteq 0 .. Blank
BY SizeFacts, BlankFacts DEF Values

LEMMA ValuesFacts ==
  /\ \A r : 0 \in Values(r)
  /\ Values("RECORD_INDEX") = Slots \union {Blank}
  /\ Values("RECORD_COUNT") = 0 .. RECORD_DATA_SIZE \union {Blank}
  /\ \A r : r \notin ResetRegisters => Values(r) = 0 .. Blank
BY SizeFacts, BlankFacts DEF Values, ResetRegisters

LEMMA PartialIntro ==
  ASSUME NEW f, Typed(f), NEW R \in SUBSET Registers
  PROVE  [r \in R |-> f[r]] \in Partial
<1> DEFINE g == [r \in R |-> f[r]]
<1>1. g \in [R -> 0 .. Blank]
  BY DEF Typed
<1>2. g \in UNION {[Q -> 0 .. Blank] : Q \in SUBSET Registers}
  BY <1>1
<1>3. \A r \in DOMAIN g : g[r] \in Values(r)
  BY DEF Typed
<1> QED
  BY <1>2, <1>3 DEF Partial

LEMMA PartialElim ==
  ASSUME NEW g \in Partial
  PROVE  DOMAIN g \subseteq Registers /\ \A r \in DOMAIN g : g[r] \in Values(r) /\ g[r] \in 0 .. Blank
BY DEF Partial

LEMMA ChunkElim ==
  ASSUME NEW c \in Chunk
  PROVE  /\ c.kind \in {"image", "record"}
         /\ c.kind = "image" => c.data \in Partial
         /\ c.kind = "record" => c.place \in Slots /\ c.parts \subseteq {"head", "tail"}
BY DEF Chunk

(* What a WriteEEPROM of registers has to write: each of them once, as f has it. *)
LEMMA ImageFacts ==
  ASSUME NEW f, Typed(f), NEW regs \in SUBSET Registers, regs # {}
  PROVE  /\ Image(f, regs) \in Seq(Chunk)
         /\ Len(Image(f, regs)) \in 1 .. 2 /\ Len(Image(f, regs)) <= 2
         /\ \A i \in 1 .. Len(Image(f, regs)) :
               /\ Image(f, regs)[i].kind = "image"
               /\ DOMAIN Image(f, regs)[i].data \subseteq regs
               /\ \A r \in DOMAIN Image(f, regs)[i].data : Image(f, regs)[i].data[r] = f[r]
         /\ \A r \in regs : \E i \in 1 .. Len(Image(f, regs)) : r \in DOMAIN Image(f, regs)[i].data
         /\ Len(Image(f, regs)) = 2 =>
               /\ DOMAIN Image(f, regs)[1].data \subseteq Sector0
               /\ DOMAIN Image(f, regs)[2].data \subseteq Sector1
<1> DEFINE part(sector) == [kind |-> "image", data |-> [r \in regs \intersect sector |-> f[r]]]
           s == Image(f, regs)
<1>1. part(Sector0) \in Chunk /\ part(Sector1) \in Chunk
  <2>1. [r \in regs \intersect Sector0 |-> f[r]] \in Partial
    BY PartialIntro
  <2>2. [r \in regs \intersect Sector1 |-> f[r]] \in Partial
    BY PartialIntro
  <2> QED
    BY <2>1, <2>2 DEF Chunk
<1>2. \A sector : /\ part(sector).kind = "image"
                  /\ DOMAIN part(sector).data = regs \intersect sector
                  /\ \A r \in regs \intersect sector : part(sector).data[r] = f[r]
  OBVIOUS
<1>3. regs \subseteq Sector0 \union Sector1
  BY DEF Registers
<1>4. s = IF regs \intersect Sector0 = {} THEN <<part(Sector1)>>
          ELSE IF regs \intersect Sector1 = {} THEN <<part(Sector0)>>
          ELSE <<part(Sector0), part(Sector1)>>
  BY DEF Image
<1> HIDE DEF part, s
<1>5. CASE regs \intersect Sector0 = {}
  <2>1. s = <<part(Sector1)>> /\ Len(s) = 1 /\ s[1] = part(Sector1)
    BY <1>4, <1>5
  <2>2. regs \intersect Sector1 = regs
    BY <1>3, <1>5
  <2> QED
    BY <1>1, <1>2, <2>1, <2>2 DEF s
<1>6. CASE regs \intersect Sector0 # {} /\ regs \intersect Sector1 = {}
  <2>1. s = <<part(Sector0)>> /\ Len(s) = 1 /\ s[1] = part(Sector0)
    BY <1>4, <1>6
  <2>2. regs \intersect Sector0 = regs
    BY <1>3, <1>6
  <2> QED
    BY <1>1, <1>2, <2>1, <2>2 DEF s
<1>7. CASE regs \intersect Sector0 # {} /\ regs \intersect Sector1 # {}
  <2>1. s = <<part(Sector0), part(Sector1)>> /\ Len(s) = 2 /\ s[1] = part(Sector0) /\ s[2] = part(Sector1)
    BY <1>4, <1>7
  <2>2. s \in Seq(Chunk) /\ Len(s) \in 1 .. 2
    BY <1>1, <2>1
  <2>3. \A i \in 1 .. 2 : /\ s[i].kind = "image" /\ DOMAIN s[i].data \subseteq regs
                          /\ \A r \in DOMAIN s[i].data : s[i].data[r] = f[r]
    BY <1>2, <2>1
  <2>4. \A r \in regs : r \in DOMAIN s[1].data \/ r \in DOMAIN s[2].data
    BY <1>2, <1>3, <2>1
  <2>5. \A r \in regs : \E i \in 1 .. 2 : r \in DOMAIN s[i].data
    BY <2>4
  <2>6. DOMAIN s[1].data \subseteq Sector0 /\ DOMAIN s[2].data \subseteq Sector1
    BY <1>2, <2>1
  <2> QED
    BY <2>1, <2>2, <2>3, <2>5, <2>6 DEF s
<1> QED
  BY <1>5, <1>6, <1>7

LEMMA RecordFacts ==
  ASSUME NEW i \in Slots
  PROVE  /\ Record(i) \in Seq(Chunk) /\ Record(i) # <<>>
         /\ Len(Record(i)) \in 1 .. 2 /\ Len(Record(i)) <= 2
         /\ \A j \in 1 .. Len(Record(i)) : Record(i)[j].kind = "record" /\ Record(i)[j].place = i
<1>1. /\ [kind |-> "record", place |-> i, parts |-> {"head"}] \in Chunk
      /\ [kind |-> "record", place |-> i, parts |-> {"tail"}] \in Chunk
      /\ [kind |-> "record", place |-> i, parts |-> {"head", "tail"}] \in Chunk
  BY DEF Chunk
<1>2. CASE i \in Straddling
  BY <1>1, <1>2 DEF Record
<1>3. CASE i \notin Straddling
  BY <1>1, <1>3 DEF Record
<1> QED
  BY <1>2, <1>3

-----------------------------------------------------------------------------
(* Types, and which steps can be in progress together *)

(* Every save that a task of priority 5 can have before it, with its value. *)
SaveShape ==
  \/ lowOp = "control" /\ saves = <<<<{"MB_PROTOCOL_TYPE"}, 2>>, <<{"CONTROL_TYPE"}, 2>>>>
  \/ lowOp = "control" /\ saves = <<<<{"CONTROL_TYPE"}, 2>>>>
  \/ lowOp = "control" /\ saves = <<<<{"CONTROL_TYPE"}, 0>>>>
  \/ lowOp = "setting" /\ saves = <<<<{"SETTING1"}, 2>>>>
  \/ lowOp = "coef" /\ saves = <<<<{"COOF_I3_low", "COOF_I3_high"}, 2>>>>
  \/ lowOp = "reset" /\ saves = <<<<{"RECORD_INDEX"}, 0>>, <<{"RECORD_COUNT"}, 0>>>>
  \/ lowOp = "reset" /\ saves = <<<<{"RECORD_COUNT"}, 0>>>>

LowShape ==
  \/ lowOp = "none" /\ saves = <<>> /\ lowPc = "rest"
  \/ lowPc \in {"store", "stored", "saving"} /\ SaveShape

StoreTypes ==
  /\ Typed(DATA_MODEL_REGISTER) /\ Typed(rom)
  /\ slot \in [Slots -> [{"head", "tail"} -> 0 .. MaxRecords]]
  /\ unsaved \subseteq Registers

ControlTypes ==
  /\ boot \in {"off", "writing", "on"}
  /\ todo \in Seq(Chunk) /\ Len(todo) <= 2
  /\ userPc \in {"rest", "record", "hours", "commit"} /\ index \in Slots /\ added \in 0 .. MaxRecords
  /\ LowShape
  /\ boot = "off" => todo = <<>>
  /\ boot # "on" => userPc = "rest" /\ lowPc = "rest"

HistoryTypes ==
  /\ changes \in 0 .. MaxChanges /\ faults \in 0 .. MaxFaults
  /\ cut \subseteq {"init", "none", "control", "setting", "coef", "reset"}
  /\ sound \in BOOLEAN /\ interfered \in BOOLEAN /\ givenUp \in BOOLEAN

TypeInv == StoreTypes /\ ControlTypes /\ HistoryTypes

LEMMA SaveFacts ==
  ASSUME SaveShape
  PROVE  /\ saves # <<>> /\ Len(saves) <= 2
         /\ Head(saves)[1] \subseteq Registers /\ Head(saves)[1] # {}
         /\ Head(saves)[2] \in 0 .. 2
         /\ "RECORD_INDEX" \in Head(saves)[1] => Head(saves)[2] = 0
         /\ "RECORD_COUNT" \in Head(saves)[1] => Head(saves)[2] = 0
         /\ lowOp \in {"control", "setting", "coef", "reset"}
<1>1. \A S, v : Head(<<<<S, v>>>>)[1] = S /\ Head(<<<<S, v>>>>)[2] = v
                 /\ <<<<S, v>>>> # <<>> /\ Len(<<<<S, v>>>>) = 1
  OBVIOUS
<1>2. \A S, v, T, w : Head(<<<<S, v>>, <<T, w>>>>)[1] = S /\ Head(<<<<S, v>>, <<T, w>>>>)[2] = v
                       /\ <<<<S, v>>, <<T, w>>>> # <<>> /\ Len(<<<<S, v>>, <<T, w>>>>) = 2
  OBVIOUS
<1>3. lowOp \in {"control", "setting", "coef", "reset"}
  BY DEF SaveShape
<1>4. CASE saves = <<<<{"MB_PROTOCOL_TYPE"}, 2>>, <<{"CONTROL_TYPE"}, 2>>>>
  BY <1>2, <1>3, <1>4, RegisterFacts
<1>5. CASE saves = <<<<{"CONTROL_TYPE"}, 2>>>>
  BY <1>1, <1>3, <1>5, RegisterFacts
<1>6. CASE saves = <<<<{"CONTROL_TYPE"}, 0>>>>
  BY <1>1, <1>3, <1>6, RegisterFacts
<1>7. CASE saves = <<<<{"SETTING1"}, 2>>>>
  BY <1>1, <1>3, <1>7, RegisterFacts
<1>8. CASE saves = <<<<{"COOF_I3_low", "COOF_I3_high"}, 2>>>>
  BY <1>1, <1>3, <1>8, RegisterFacts
<1>9. CASE saves = <<<<{"RECORD_INDEX"}, 0>>, <<{"RECORD_COUNT"}, 0>>>>
  BY <1>2, <1>3, <1>9, RegisterFacts
<1>10. CASE saves = <<<<{"RECORD_COUNT"}, 0>>>>
  BY <1>1, <1>3, <1>10, RegisterFacts
<1> QED
  BY <1>4, <1>5, <1>6, <1>7, <1>8, <1>9, <1>10 DEF SaveShape

LEMMA TypeInit == Init => TypeInv
<1> SUFFICES ASSUME Init PROVE TypeInv
  OBVIOUS
<1>1. Typed([r \in Registers |-> 0]) /\ Typed([r \in Registers |-> Blank])
  BY BlankFacts, SizeFacts DEF Typed, Values
<1>2. [i \in Slots |-> [head |-> 0, tail |-> 0]] \in [Slots -> [{"head", "tail"} -> 0 .. MaxRecords]]
  BY SizeFacts
<1>3. StoreTypes
  BY <1>1, <1>2 DEF Init, StoreTypes
<1>4. ControlTypes
  BY SizeFacts DEF Init, ControlTypes, LowShape
<1>5. HistoryTypes
  <2>1. sound \in BOOLEAN /\ interfered \in BOOLEAN /\ givenUp \in BOOLEAN
    BY Zenon DEF Init
  <2> QED
    BY <2>1, SizeFacts DEF Init, HistoryTypes
<1> QED
  BY <1>3, <1>4, <1>5 DEF TypeInv

(* TLC's invariant is the type part of this one. *)
LEMMA TypeInvGives == TypeInv => TypeOK
<1> SUFFICES ASSUME TypeInv PROVE TypeOK
  OBVIOUS
<1>1. "RECORD_INDEX" \in Registers /\ "RECORD_COUNT" \in Registers
  BY RegisterFacts
<1>2. /\ DATA_MODEL_REGISTER["RECORD_INDEX"] \in Slots \union {Blank}
      /\ DATA_MODEL_REGISTER["RECORD_COUNT"] \in 0 .. RECORD_DATA_SIZE \union {Blank}
  BY <1>1, ValuesFacts DEF TypeInv, StoreTypes, Typed
<1>3. \A i \in DOMAIN todo : todo[i].kind \in {"image", "record"}
  BY ChunkElim DEF TypeInv, ControlTypes
<1>4. /\ Len(saves) <= 2 /\ lowPc \in {"rest", "store", "stored", "saving"}
      /\ lowOp \in {"none", "control", "setting", "coef", "reset"}
  <2>1. LowShape
    BY DEF TypeInv, ControlTypes
  <2>2. CASE lowPc # "rest"
    <3>1. SaveShape
      BY <2>1, <2>2, Zenon DEF LowShape
    <3>2. Len(saves) <= 2
      BY <3>1, SaveFacts, Zenon
    <3>3. lowPc \in {"store", "stored", "saving"}
      BY <2>1, <2>2, Zenon DEF LowShape
    <3>4. lowOp \in {"control", "setting", "coef", "reset"}
      BY <3>1, SaveFacts, Zenon
    <3> QED
      BY <3>2, <3>3, <3>4, Zenon
  <2>3. CASE lowPc = "rest"
    <3>1. lowOp = "none" /\ saves = <<>>
      BY <2>1, <2>3 DEF LowShape
    <3> QED
      BY <2>3, <3>1
  <2> QED
    BY <2>2, <2>3
<1> QED
  BY <1>2, <1>3, <1>4 DEF TypeOK, TypeInv, StoreTypes, ControlTypes, HistoryTypes, Typed

(* Writing into a typed register image keeps it typed. *)
LEMMA TypedUpdate ==
  ASSUME NEW f, Typed(f), NEW g \in Partial
  PROVE  Typed([r \in Registers |-> IF r \in DOMAIN g THEN g[r] ELSE f[r]])
<1> DEFINE h == [r \in Registers |-> IF r \in DOMAIN g THEN g[r] ELSE f[r]]
<1>1. \A r \in DOMAIN g : g[r] \in Values(r) /\ g[r] \in 0 .. Blank
  BY PartialElim
<1>2. \A r \in Registers : h[r] \in Values(r) /\ h[r] \in 0 .. Blank
  BY <1>1 DEF Typed
<1> QED
  BY <1>2 DEF Typed

LEMMA TypeWriteSector == TypeInv /\ WriteSector => TypeInv'
<1> SUFFICES ASSUME TypeInv, WriteSector PROVE TypeInv'
  OBVIOUS
<1> DEFINE c == Head(todo)
<1>1. c \in Chunk /\ Tail(todo) \in Seq(Chunk) /\ Len(Tail(todo)) <= 2
  BY TailFacts DEF TypeInv, ControlTypes, WriteSector, Idle
<1>2. Typed(rom)' /\ unsaved' \subseteq Registers /\ slot' \in [Slots -> [{"head", "tail"} -> 0 .. MaxRecords]]
  <2>1. CASE c.kind = "image"
    <3>1. /\ rom' = [r \in Registers |-> IF r \in DOMAIN c.data THEN c.data[r] ELSE rom[r]]
          /\ unsaved' = unsaved \ {r \in DOMAIN c.data : c.data[r] = DATA_MODEL_REGISTER[r]}
          /\ slot' = slot
      BY <2>1 DEF WriteSector
    <3>2. c.data \in Partial
      BY <1>1, <2>1, ChunkElim
    <3>3. Typed(rom')
      BY <3>1, <3>2, TypedUpdate DEF TypeInv, StoreTypes
    <3> QED
      BY <3>1, <3>3 DEF TypeInv, StoreTypes, Typed
  <2>2. CASE c.kind = "record"
    <3>1. /\ slot' = [slot EXCEPT ![c.place] =
                           [p \in {"head", "tail"} |-> IF p \in c.parts THEN added ELSE slot[c.place][p]]]
          /\ rom' = rom /\ unsaved' = unsaved
      BY <2>2 DEF WriteSector
    <3>2. c.place \in Slots
      BY <1>1, <2>2, ChunkElim
    <3>3. slot' \in [Slots -> [{"head", "tail"} -> 0 .. MaxRecords]]
      BY <3>1, <3>2 DEF TypeInv, StoreTypes, ControlTypes
    <3> QED
      BY <3>1, <3>3 DEF TypeInv, StoreTypes, Typed
  <2> QED
    BY <2>1, <2>2 DEF WriteSector
<1>3. sound' \in BOOLEAN /\ givenUp' \in BOOLEAN
  <2>1. CASE c.kind = "image"
    <3>1. /\ sound' = CASE boot = "writing" /\ Len(todo) = 1 -> TRUE
                         [] Resetting /\ userPc = "rest" ->
                              "RECORD_COUNT" \in DOMAIN c.data /\ ~interfered
                         [] OTHER -> sound
          /\ givenUp' = (givenUp /\ sound' /\ ~Ring(c.data))
      BY <2>1 DEF WriteSector
    <3> HIDE DEF c
    <3>2. CASE boot = "writing" /\ Len(todo) = 1
      <4>1. ~Resetting
        BY <3>2 DEF TypeInv, ControlTypes, LowShape, Resetting
      <4>2. sound' = TRUE
        BY <3>1, <3>2, <4>1
      <4> QED
        BY <3>1, <4>2, Zenon
    <3>3. CASE ~(boot = "writing" /\ Len(todo) = 1) /\ (Resetting /\ userPc = "rest")
      <4>1. sound' = ("RECORD_COUNT" \in DOMAIN c.data /\ ~interfered)
        BY <3>1, <3>3
      <4> QED
        BY <3>1, <4>1, Zenon
    <3>4. CASE ~(boot = "writing" /\ Len(todo) = 1) /\ ~(Resetting /\ userPc = "rest")
      <4>1. sound' = sound
        BY <3>1, <3>4
      <4> QED
        BY <3>1, <4>1, Zenon DEF TypeInv, HistoryTypes
    <3> QED
      BY <3>2, <3>3, <3>4
  <2>2. CASE c.kind = "record"
    <3>1. givenUp' = (sound /\ rom["RECORD_COUNT"] = RECORD_DATA_SIZE) /\ sound' = sound
      BY <2>2 DEF WriteSector
    <3> QED
      BY <3>1, Zenon DEF TypeInv, HistoryTypes
  <2> QED
    BY <2>1, <2>2 DEF WriteSector
<1>4. StoreTypes'
  BY <1>2 DEF WriteSector, StoreTypes, TypeInv, Typed
<1>5. ControlTypes'
  BY <1>1 DEF WriteSector, ControlTypes, TypeInv, LowShape, SaveShape, userVars, lowVars, Idle
<1>6. HistoryTypes'
  BY <1>3 DEF WriteSector, HistoryTypes, TypeInv, lowVars
<1> QED
  BY <1>4, <1>5, <1>6 DEF TypeInv

LEMMA TypeWriteFails == TypeInv /\ WriteFails => TypeInv'
<1> SUFFICES ASSUME TypeInv, WriteFails PROVE TypeInv'
  OBVIOUS
<1>1. StoreTypes'
  <2>1. \A j \in DOMAIN todo : todo[j].kind = "image" => DOMAIN todo[j].data \subseteq Registers
    BY ChunkElim, PartialElim DEF TypeInv, ControlTypes
  <2>2. unsaved' \subseteq Registers
    BY <2>1 DEF WriteFails, TypeInv, StoreTypes
  <2> QED
    BY <2>2 DEF WriteFails, TypeInv, StoreTypes, Typed
<1>2. ControlTypes'
  BY DEF WriteFails, ControlTypes, TypeInv, LowShape, SaveShape, userVars, lowVars
<1>3. HistoryTypes'
  <2>1. sound' \in BOOLEAN /\ interfered' \in BOOLEAN /\ givenUp' \in BOOLEAN
    BY Zenon DEF WriteFails
  <2>2. lowOp \in {"none", "control", "setting", "coef", "reset"}
    BY TypeInvGives DEF TypeOK
  <2>3. faults' \in 0 .. MaxFaults
    BY SizeFacts DEF WriteFails, TypeInv, HistoryTypes
  <2> QED
    BY <2>1, <2>2, <2>3 DEF WriteFails, TypeInv, HistoryTypes, lowVars
<1> QED
  BY <1>1, <1>2, <1>3 DEF TypeInv

LEMMA TypedZero == Typed([r \in Registers |-> 0])
BY BlankFacts, ValuesFacts DEF Typed

LEMMA TypedDefaults == Typed(Defaults)
<1>1. \A r \in Registers : Defaults[r] \in 0 .. 1
  BY DEF Defaults, VALID_CODE
<1>2. \A r \in ResetRegisters : r \in Registers /\ Defaults[r] = 0
  BY RegisterFacts DEF Defaults, ResetRegisters, Registers
<1>3. \A r \in Registers : Defaults[r] \in Values(r) /\ Defaults[r] \in 0 .. Blank
  BY <1>1, <1>2, BlankFacts, ValuesFacts
<1> QED
  BY <1>3 DEF Typed, Defaults

(* What a reading that fails leaves in RAM. *)
LEMMA TypedRead ==
  ASSUME StoreTypes, NEW got, ReadFails(got)
  PROVE  Typed(DATA_MODEL_REGISTER')
BY DEF ReadFails, StoreTypes, Typed

LEMMA TypeBoot == TypeInv /\ Boot => TypeInv'
<1> SUFFICES ASSUME TypeInv, Boot PROVE TypeInv'
  OBVIOUS
<1>1. CASE BootRead
  <2>1. StoreTypes'
    BY <1>1, TypedDefaults DEF BootRead, TypeInv, StoreTypes, Typed
  <2>2. boot' \in {"writing", "on"} /\ todo' \in Seq(Chunk) /\ Len(todo') <= 2
    <3>1. Image(Defaults, Registers) \in Seq(Chunk) /\ Len(Image(Defaults, Registers)) <= 2
      BY TypedDefaults, ImageFacts, RegisterFacts
    <3> QED
      BY <1>1, <3>1 DEF BootRead, TypeInv, ControlTypes
  <2>3. ControlTypes'
    BY <1>1, <2>2 DEF BootRead, TypeInv, ControlTypes, LowShape, SaveShape, userVars, lowVars
  <2>4. HistoryTypes'
    BY <1>1 DEF BootRead, TypeInv, HistoryTypes, history, lowVars
  <2> QED
    BY <2>1, <2>3, <2>4 DEF TypeInv
<1>2. CASE BootReadFails
  <2>0. PICK got \in Prefixes : ReadFails(got)
    BY <1>2 DEF BootReadFails
  <2>1. StoreTypes'
    BY <1>2, <2>0, TypedRead DEF BootReadFails, TypeInv, StoreTypes, Typed
  <2>2. ControlTypes'
    BY <1>2 DEF BootReadFails, TypeInv, ControlTypes, LowShape, SaveShape, userVars, lowVars
  <2>3. sound' \in BOOLEAN /\ givenUp' \in BOOLEAN
    BY <1>2, Zenon DEF BootReadFails
  <2>4. HistoryTypes'
    BY <1>2, <2>0, <2>3, SizeFacts DEF BootReadFails, ReadFails, TypeInv, HistoryTypes, lowVars
  <2> QED
    BY <2>1, <2>2, <2>4 DEF TypeInv
<1>3. CASE BootReread
  <2>1. StoreTypes'
    BY <1>3 DEF BootReread, TypeInv, StoreTypes, Typed
  <2>2. ControlTypes'
    BY <1>3 DEF BootReread, TypeInv, ControlTypes, LowShape, SaveShape, userVars, lowVars
  <2>3. HistoryTypes'
    BY <1>3 DEF BootReread, TypeInv, HistoryTypes, history, lowVars
  <2> QED
    BY <2>1, <2>2, <2>3 DEF TypeInv
<1>4. CASE BootRereadFails
  <2>1. PICK got \in Prefixes : ReadFails(got) /\ unsaved' = unsaved \ got
    BY <1>4 DEF BootRereadFails
  <2>2. StoreTypes'
    BY <1>4, <2>1, TypedRead DEF BootRereadFails, TypeInv, StoreTypes, Typed
  <2>3. ControlTypes'
    BY <1>4 DEF BootRereadFails, TypeInv, ControlTypes, LowShape, SaveShape, userVars, lowVars
  <2>4. HistoryTypes'
    BY <1>4, <2>1, SizeFacts DEF BootRereadFails, ReadFails, TypeInv, HistoryTypes, history, lowVars
  <2> QED
    BY <2>2, <2>3, <2>4 DEF TypeInv
<1> QED
  BY <1>1, <1>2, <1>3, <1>4 DEF Boot

LEMMA NextIndexFacts == \A i \in Slots : NextIndex(i) \in Slots
BY SizeFacts DEF NextIndex

LEMMA NextCountFacts ==
  \A n \in 0 .. RECORD_DATA_SIZE \union {Blank} : NextCount(n) \in 0 .. RECORD_DATA_SIZE \union {Blank}
BY SizeFacts, BlankFacts DEF NextCount

(* The counters as AddCommit leaves them. *)
LEMMA TypedCounted ==
  ASSUME NEW f, Typed(f), NEW i \in Slots
  PROVE  Typed([f EXCEPT !["RECORD_INDEX"] = NextIndex(i), !["RECORD_COUNT"] = NextCount(@)])
<1> DEFINE g == [f EXCEPT !["RECORD_INDEX"] = NextIndex(i), !["RECORD_COUNT"] = NextCount(@)]
<1>1. "RECORD_INDEX" \in Registers /\ "RECORD_COUNT" \in Registers
  BY RegisterFacts
<1>2. g = [f EXCEPT !["RECORD_INDEX"] = NextIndex(i), !["RECORD_COUNT"] = NextCount(f["RECORD_COUNT"])]
  BY <1>1 DEF Typed
<1>3. NextIndex(i) \in Slots /\ NextCount(f["RECORD_COUNT"]) \in 0 .. RECORD_DATA_SIZE \union {Blank}
  BY <1>1, NextIndexFacts, NextCountFacts, ValuesFacts DEF Typed
<1>4. NextIndex(i) \in Values("RECORD_INDEX") /\ NextCount(f["RECORD_COUNT"]) \in Values("RECORD_COUNT")
  BY <1>3, ValuesFacts
<1> HIDE DEF g
<1>5. /\ DOMAIN g = Registers
      /\ \A r \in Registers : g[r] = IF r = "RECORD_INDEX" THEN NextIndex(i)
                                     ELSE IF r = "RECORD_COUNT" THEN NextCount(f["RECORD_COUNT"]) ELSE f[r]
      /\ g = [r \in Registers |-> g[r]]
  BY <1>2 DEF Typed
<1>6. \A r \in Registers : g[r] \in Values(r)
  BY <1>4, <1>5 DEF Typed
<1> QED
  BY <1>5, <1>6, ValuesBounds DEF Typed, g

LEMMA TypeUser == TypeInv /\ User => TypeInv'
<1> SUFFICES ASSUME TypeInv, User PROVE TypeInv'
  OBVIOUS
<1>1. CASE AddBegin
  <2>1. StoreTypes'
    BY <1>1 DEF AddBegin, TypeInv, StoreTypes, Typed, stores
  <2>2. index' \in Slots /\ todo' \in Seq(Chunk) /\ Len(todo') <= 2
    BY <1>1, RecordFacts DEF AddBegin
  <2>3. ControlTypes'
    BY <1>1, <2>2, SizeFacts DEF AddBegin, TypeInv, ControlTypes, LowShape, SaveShape, lowVars
  <2>4. sound' \in BOOLEAN /\ interfered' \in BOOLEAN /\ givenUp' \in BOOLEAN
    <3>1. /\ sound' = (sound /\ ~Resetting)
          /\ interfered' = (interfered \/ Resetting)
          /\ givenUp' = (givenUp /\ ~Resetting)
      BY <1>1 DEF AddBegin
    <3> QED
      BY <3>1, Zenon
  <2>5. HistoryTypes'
    BY <1>1, <2>4 DEF AddBegin, TypeInv, HistoryTypes, lowVars
  <2> QED
    BY <2>1, <2>3, <2>5 DEF TypeInv
<1>2. CASE AddCommit
  <2>1. Typed(DATA_MODEL_REGISTER') /\ todo' = Image(DATA_MODEL_REGISTER', ResetRegisters)
    BY <1>2, TypedCounted DEF AddCommit, TypeInv, StoreTypes, ControlTypes
  <2>2. StoreTypes'
    BY <1>2, <2>1 DEF AddCommit, TypeInv, StoreTypes, Typed
  <2>3. todo' \in Seq(Chunk) /\ Len(todo') <= 2
    BY <2>1, ImageFacts, RegisterFacts DEF Registers
  <2>4. ControlTypes'
    BY <1>2, <2>3 DEF AddCommit, TypeInv, ControlTypes, LowShape, SaveShape, lowVars
  <2>5. HistoryTypes'
    BY <1>2 DEF AddCommit, TypeInv, HistoryTypes, lowVars, history
  <2> QED
    BY <2>2, <2>4, <2>5 DEF TypeInv
<1>3. CASE SaveBeforePowerOff
  <2>1. StoreTypes'
    BY <1>3 DEF SaveBeforePowerOff, TypeInv, StoreTypes, Typed, stores
  <2>2. todo' \in Seq(Chunk) /\ Len(todo') <= 2
    <3> DEFINE s == Image(DATA_MODEL_REGISTER, {"MOTO_HOURS"})
    <3>1. {"MOTO_HOURS"} \in SUBSET Registers /\ {"MOTO_HOURS"} # {}
      BY RegisterFacts
    <3>2. Typed(DATA_MODEL_REGISTER) /\ todo' = s
      BY <1>3 DEF SaveBeforePowerOff, TypeInv, StoreTypes
    <3>3. s \in Seq(Chunk) /\ Len(s) <= 2
      BY <3>1, <3>2, ImageFacts
    <3> HIDE DEF s
    <3> QED
      BY <3>2, <3>3
  <2>3. ControlTypes'
    BY <1>3, <2>2 DEF SaveBeforePowerOff, TypeInv, ControlTypes, LowShape, SaveShape, lowVars
  <2>4. HistoryTypes'
    BY <1>3, SizeFacts DEF SaveBeforePowerOff, TypeInv, HistoryTypes, lowVars, history
  <2> QED
    BY <2>1, <2>3, <2>4 DEF TypeInv
<1>4. CASE UserReturns
  <2>1. StoreTypes'
    BY <1>4 DEF UserReturns, TypeInv, StoreTypes, Typed, stores
  <2>2. ControlTypes'
    BY <1>4, SizeFacts DEF UserReturns, TypeInv, ControlTypes, LowShape, SaveShape, lowVars
  <2>3. HistoryTypes'
    BY <1>4 DEF UserReturns, TypeInv, HistoryTypes, lowVars, history
  <2> QED
    BY <2>1, <2>2, <2>3 DEF TypeInv
<1>5. CASE SaveResurse
  <2>1. StoreTypes'
    BY <1>5 DEF SaveResurse, TypeInv, StoreTypes, Typed, stores
  <2>2. todo' \in Seq(Chunk) /\ Len(todo') <= 2
    <3> DEFINE s == Image(DATA_MODEL_REGISTER, {"RESURSE"})
    <3>1. {"RESURSE"} \in SUBSET Registers /\ {"RESURSE"} # {}
      BY RegisterFacts
    <3>2. Typed(DATA_MODEL_REGISTER) /\ todo' = s
      BY <1>5 DEF SaveResurse, TypeInv, StoreTypes
    <3>3. s \in Seq(Chunk) /\ Len(s) <= 2
      BY <3>1, <3>2, ImageFacts
    <3> HIDE DEF s
    <3> QED
      BY <3>2, <3>3
  <2>3. ControlTypes'
    BY <1>5, <2>2 DEF SaveResurse, TypeInv, ControlTypes, LowShape, SaveShape, lowVars
  <2>4. HistoryTypes'
    BY <1>5 DEF SaveResurse, TypeInv, HistoryTypes, lowVars, history
  <2> QED
    BY <2>1, <2>3, <2>4 DEF TypeInv
<1> QED
  BY <1>1, <1>2, <1>3, <1>4, <1>5 DEF User

LEMMA TypeLowBegin == TypeInv /\ LowBegin => TypeInv'
<1> SUFFICES ASSUME TypeInv, LowBegin PROVE TypeInv'
  OBVIOUS
<1>1. SaveShape'
  <2>1. \A v \in {0, 2} : ControlSaves(v) = <<<<{"MB_PROTOCOL_TYPE"}, 2>>, <<{"CONTROL_TYPE"}, 2>>>>
                          \/ ControlSaves(v) = <<<<{"CONTROL_TYPE"}, 0>>>>
    BY DEF ControlSaves
  <2> QED
    BY <2>1, Zenon DEF LowBegin, SaveShape
<1>2. LowShape'
  BY <1>1 DEF LowBegin, LowShape
<1>3. StoreTypes'
  BY DEF LowBegin, TypeInv, StoreTypes, Typed, stores
<1>4. ControlTypes'
  BY <1>2 DEF LowBegin, TypeInv, ControlTypes, userVars, LowRuns
<1>5. interfered' \in BOOLEAN
  BY Zenon DEF LowBegin
<1>6. HistoryTypes'
  BY <1>5, SizeFacts DEF LowBegin, TypeInv, HistoryTypes
<1> QED
  BY <1>3, <1>4, <1>6 DEF TypeInv

LEMMA TypeLowStore == TypeInv /\ LowStore => TypeInv'
<1> SUFFICES ASSUME TypeInv, LowStore PROVE TypeInv'
  OBVIOUS
<1>1. SaveShape
  BY DEF TypeInv, ControlTypes, LowShape, LowStore
<1>2. SaveShape' /\ LowShape'
  BY <1>1 DEF LowStore, SaveShape, LowShape
<1>3. Typed(DATA_MODEL_REGISTER')
  <2> DEFINE regs == Head(saves)[1]
             v == Head(saves)[2]
  <2>1. DATA_MODEL_REGISTER' = [r \in Registers |-> IF r \in regs THEN v ELSE DATA_MODEL_REGISTER[r]]
    BY DEF LowStore
  <2>2. v \in 0 .. 2 /\ \A r \in regs : r \in ResetRegisters => v = 0
    BY <1>1, SaveFacts DEF ResetRegisters
  <2> HIDE DEF regs, v
  <2>3. \A r \in regs : v \in Values(r) /\ v \in 0 .. Blank
    BY <2>2, ValuesFacts, BlankFacts
  <2> QED
    BY <2>1, <2>3 DEF TypeInv, StoreTypes, Typed
<1>4. StoreTypes'
  BY <1>3 DEF LowStore, TypeInv, StoreTypes, Typed
<1>5. ControlTypes'
  BY <1>2 DEF LowStore, TypeInv, ControlTypes, userVars, LowRuns
<1>6. sound' \in BOOLEAN /\ interfered' \in BOOLEAN /\ givenUp' \in BOOLEAN
  <2>1. /\ interfered' = (interfered \/ userPc # "rest")
        /\ sound' = (sound /\ ~(Resetting /\ userPc # "rest"))
        /\ givenUp' = (givenUp /\ sound')
    BY DEF LowStore
  <2> QED
    BY <2>1, Zenon
<1>7. HistoryTypes'
  BY <1>6 DEF LowStore, TypeInv, HistoryTypes
<1> QED
  BY <1>4, <1>5, <1>7 DEF TypeInv

LEMMA TypeLowSave == TypeInv /\ LowSave => TypeInv'
<1> SUFFICES ASSUME TypeInv, LowSave PROVE TypeInv'
  OBVIOUS
<1>1. SaveShape
  BY DEF TypeInv, ControlTypes, LowShape, LowSave
<1>2. SaveShape' /\ LowShape'
  BY <1>1 DEF LowSave, SaveShape, LowShape
<1>3. todo' \in Seq(Chunk) /\ Len(todo') <= 2
  BY <1>1, SaveFacts, ImageFacts DEF LowSave, TypeInv, StoreTypes
<1>4. StoreTypes'
  BY DEF LowSave, TypeInv, StoreTypes, Typed, stores
<1>5. ControlTypes'
  BY <1>2, <1>3 DEF LowSave, TypeInv, ControlTypes, userVars, LowRuns
<1>6. HistoryTypes'
  BY DEF LowSave, TypeInv, HistoryTypes, history
<1> QED
  BY <1>4, <1>5, <1>6 DEF TypeInv

(* What is left of the saves when the first of them is done. *)
LEMMA SavesLeft ==
  ASSUME SaveShape
  PROVE  \/ Tail(saves) = <<>>
         \/ lowOp = "control" /\ Tail(saves) = <<<<{"CONTROL_TYPE"}, 2>>>>
            /\ Head(saves)[1] = {"MB_PROTOCOL_TYPE"} /\ Head(saves)[2] = 2
         \/ lowOp = "reset" /\ Tail(saves) = <<<<{"RECORD_COUNT"}, 0>>>>
            /\ Head(saves)[1] = {"RECORD_INDEX"} /\ Head(saves)[2] = 0
<1>1. \A S, v : Tail(<<<<S, v>>>>) = <<>>
  OBVIOUS
<1>2. \A S, v, T, w : /\ Tail(<<<<S, v>>, <<T, w>>>>) = <<<<T, w>>>>
                      /\ Head(<<<<S, v>>, <<T, w>>>>)[1] = S /\ Head(<<<<S, v>>, <<T, w>>>>)[2] = v
  OBVIOUS
<1>4. CASE lowOp = "control" /\ saves = <<<<{"MB_PROTOCOL_TYPE"}, 2>>, <<{"CONTROL_TYPE"}, 2>>>>
  BY <1>2, <1>4
<1>5. CASE saves = <<<<{"CONTROL_TYPE"}, 2>>>>
  BY <1>1, <1>5
<1>6. CASE saves = <<<<{"CONTROL_TYPE"}, 0>>>>
  BY <1>1, <1>6
<1>7. CASE saves = <<<<{"SETTING1"}, 2>>>>
  BY <1>1, <1>7
<1>8. CASE saves = <<<<{"COOF_I3_low", "COOF_I3_high"}, 2>>>>
  BY <1>1, <1>8
<1>9. CASE lowOp = "reset" /\ saves = <<<<{"RECORD_INDEX"}, 0>>, <<{"RECORD_COUNT"}, 0>>>>
  BY <1>2, <1>9
<1>10. CASE saves = <<<<{"RECORD_COUNT"}, 0>>>>
  BY <1>1, <1>10
<1> QED
  BY <1>4, <1>5, <1>6, <1>7, <1>8, <1>9, <1>10, Zenon DEF SaveShape

LEMMA TypeLowSaved == TypeInv /\ LowSaved => TypeInv'
<1> SUFFICES ASSUME TypeInv, LowSaved PROVE TypeInv'
  OBVIOUS
<1>1. SaveShape
  BY DEF TypeInv, ControlTypes, LowShape, LowSaved
<1>2. LowShape' /\ (lowPc' = "rest" \/ lowPc' = "store")
  <2>1. CASE Tail(saves) = <<>>
    BY <2>1 DEF LowSaved, LowShape
  <2>2. CASE Tail(saves) # <<>>
    <3>1. SaveShape'
      BY <1>1, <2>2, SavesLeft, Zenon DEF LowSaved, SaveShape
    <3> QED
      BY <2>2, <3>1 DEF LowSaved, LowShape
  <2> QED
    BY <2>1, <2>2
<1>3. StoreTypes'
  BY DEF LowSaved, TypeInv, StoreTypes, Typed, stores
<1>4. boot = "on"
  BY DEF LowSaved, TypeInv, ControlTypes
<1>5. ControlTypes'
  BY <1>2, <1>4 DEF LowSaved, TypeInv, ControlTypes, userVars
<1>6. cut' \subseteq {"init", "none", "control", "setting", "coef", "reset"}
  BY DEF LowSaved, TypeInv, HistoryTypes
<1>7. HistoryTypes'
  BY <1>6 DEF LowSaved, TypeInv, HistoryTypes
<1> QED
  BY <1>3, <1>5, <1>7 DEF TypeInv

LEMMA TypeHour == TypeInv /\ Hour => TypeInv'
<1> SUFFICES ASSUME TypeInv, Hour PROVE TypeInv'
  OBVIOUS
<1>1. changes' \in 0 .. MaxChanges /\ changes' \in 0 .. Blank
  <2>1. changes \in Nat /\ changes < MaxChanges /\ changes' = changes + 1
    BY SizeFacts DEF Hour, TypeInv, HistoryTypes
  <2> QED
    BY <2>1, SizeFacts, BlankFacts
<1>2. "MOTO_HOURS" \in Registers /\ "MOTO_HOURS" \notin ResetRegisters
  BY RegisterFacts DEF ResetRegisters
<1>3. Typed(DATA_MODEL_REGISTER')
  BY <1>1, <1>2, ValuesFacts DEF Hour, TypeInv, StoreTypes, Typed
<1>4. StoreTypes'
  BY <1>2, <1>3 DEF Hour, TypeInv, StoreTypes, Typed
<1>5. ControlTypes'
  BY DEF Hour, TypeInv, ControlTypes, userVars, LowShape, SaveShape
<1>6. HistoryTypes'
  BY <1>1 DEF Hour, TypeInv, HistoryTypes, history
<1> QED
  BY <1>4, <1>5, <1>6 DEF TypeInv

LEMMA TypePowerLoss == TypeInv /\ PowerLoss => TypeInv'
<1> SUFFICES ASSUME TypeInv, PowerLoss PROVE TypeInv'
  OBVIOUS
<1>1. StoreTypes'
  BY TypedZero DEF PowerLoss, TypeInv, StoreTypes, Typed
<1>2. ControlTypes'
  BY SizeFacts DEF PowerLoss, TypeInv, ControlTypes, LowShape
<1>3. lowOp \in {"none", "control", "setting", "coef", "reset"}
  BY TypeInvGives DEF TypeOK
<1>4. HistoryTypes'
  BY <1>3, SizeFacts DEF PowerLoss, TypeInv, HistoryTypes
<1> QED
  BY <1>1, <1>2, <1>4 DEF TypeInv

LEMMA TypeStutter == TypeInv /\ UNCHANGED vars => TypeInv'
BY DEF vars, stores, userVars, lowVars, history, TypeInv, StoreTypes, Typed, ControlTypes,
       LowShape, SaveShape, HistoryTypes

LEMMA TypeStep == TypeInv /\ [Next]_vars => TypeInv'
BY TypeWriteSector, TypeWriteFails, TypeBoot, TypeUser, TypeLowBegin, TypeLowStore, TypeLowSave,
   TypeLowSaved, TypeHour, TypePowerLoss, TypeStutter DEF Next, Low

LEMMA TypeInvAlways == Spec => []TypeInv
<1>1. Init => TypeInv
  BY TypeInit
<1>2. TypeInv /\ [Next]_vars => TypeInv'
  BY TypeStep
<1> QED
  BY <1>1, <1>2, PTL DEF Spec

(* Every variable keeps to its type: the index of the journal never leaves the ring   *)
(* and the count never passes its size, unless the first initialisation was cut       *)
(* (data_model.c:290-316).                                                            *)
THEOREM TypeCorrect == Spec => []TypeOK
<1>1. TypeInv => TypeOK
  BY TypeInvGives
<1> QED
  BY <1>1, TypeInvAlways, PTL

-----------------------------------------------------------------------------
(* Whose write is in progress *)

DefaultChunk(sector) == [kind |-> "image", data |-> [r \in sector |-> Defaults[r]]]

IsImage(c) == c.kind = "image"

(* The write in progress belongs to the start-up, to the user task or to the save of  *)
(* the other task; what it still has to write says which.                             *)
BootOwns ==
  boot = "writing" =>
     \/ todo = <<DefaultChunk(Sector0), DefaultChunk(Sector1)>>
     \/ todo = <<DefaultChunk(Sector1)>>
     \/ todo = <<>>

UserOwns ==
  /\ userPc = "record" => todo = Record(index) \/ todo = Tail(Record(index)) \/ todo = <<>>
  /\ userPc \in {"hours", "commit"} /\ todo # <<>> =>
        /\ Len(todo) = 1 /\ IsImage(Head(todo))
        /\ DOMAIN Head(todo).data \in
              IF userPc = "hours" THEN {{"MOTO_HOURS"}} ELSE {{"RESURSE"}, ResetRegisters}

LowOwns ==
  boot = "on" /\ userPc = "rest" /\ todo # <<>> =>
     /\ lowPc = "saving"
     /\ \A i \in 1 .. Len(todo) : IsImage(todo[i]) /\ DOMAIN todo[i].data \subseteq Head(saves)[1]
     /\ Resetting => Len(todo) = 1

OwnerInv == BootOwns /\ UserOwns /\ LowOwns

LEMMA DefaultImage ==
  Image(Defaults, Registers) = <<DefaultChunk(Sector0), DefaultChunk(Sector1)>>
<1>1. Registers \intersect Sector0 = Sector0 /\ Registers \intersect Sector1 = Sector1
  BY DEF Registers
<1>2. Sector0 # {} /\ Sector1 # {}
  BY DEF Sector0, Sector1
<1> QED
  BY <1>1, <1>2 DEF Image, DefaultChunk

(* Which registers an operation saves, and in which order. *)
LEMMA SaveRegs ==
  ASSUME SaveShape
  PROVE  /\ "VALID_CODE_ADDRES" \notin Head(saves)[1]
         /\ "MOTO_HOURS" \notin Head(saves)[1] /\ "RESURSE" \notin Head(saves)[1]
         /\ lowOp # "control" => "CONTROL_TYPE" \notin Head(saves)[1] /\ "MB_PROTOCOL_TYPE" \notin Head(saves)[1]
         /\ lowOp # "coef" => "COOF_I3_low" \notin Head(saves)[1] /\ "COOF_I3_high" \notin Head(saves)[1]
         /\ lowOp = "coef" => Head(saves)[1] = {"COOF_I3_low", "COOF_I3_high"} /\ Tail(saves) = <<>>
         /\ lowOp = "control" =>
              \/ Head(saves)[1] = {"MB_PROTOCOL_TYPE"} /\ Head(saves)[2] = 2
                   /\ Tail(saves) = <<<<{"CONTROL_TYPE"}, 2>>>>
              \/ Head(saves)[1] = {"CONTROL_TYPE"} /\ Head(saves)[2] \in {0, 2} /\ Tail(saves) = <<>>
         /\ lowOp # "reset" => Head(saves)[1] \intersect ResetRegisters = {}
         /\ lowOp = "reset" =>
              /\ Head(saves)[2] = 0
              /\ \/ Head(saves)[1] = {"RECORD_INDEX"} /\ Tail(saves) = <<<<{"RECORD_COUNT"}, 0>>>>
                 \/ Head(saves)[1] = {"RECORD_COUNT"} /\ Tail(saves) = <<>>
<1>1. \A S, v : /\ Head(<<<<S, v>>>>)[1] = S /\ Head(<<<<S, v>>>>)[2] = v /\ Tail(<<<<S, v>>>>) = <<>>
  OBVIOUS
<1>2. \A S, v, T, w : /\ Tail(<<<<S, v>>, <<T, w>>>>) = <<<<T, w>>>>
                      /\ Head(<<<<S, v>>, <<T, w>>>>)[1] = S /\ Head(<<<<S, v>>, <<T, w>>>>)[2] = v
  OBVIOUS
<1>4. CASE lowOp = "control" /\ saves = <<<<{"MB_PROTOCOL_TYPE"}, 2>>, <<{"CONTROL_TYPE"}, 2>>>>
  BY <1>2, <1>4 DEF ResetRegisters
<1>5. CASE lowOp = "control" /\ saves = <<<<{"CONTROL_TYPE"}, 2>>>>
  BY <1>1, <1>5 DEF ResetRegisters
<1>6. CASE lowOp = "control" /\ saves = <<<<{"CONTROL_TYPE"}, 0>>>>
  BY <1>1, <1>6 DEF ResetRegisters
<1>7. CASE lowOp = "setting" /\ saves = <<<<{"SETTING1"}, 2>>>>
  BY <1>1, <1>7 DEF ResetRegisters
<1>8. CASE lowOp = "coef" /\ saves = <<<<{"COOF_I3_low", "COOF_I3_high"}, 2>>>>
  BY <1>1, <1>8 DEF ResetRegisters
<1>9. CASE lowOp = "reset" /\ saves = <<<<{"RECORD_INDEX"}, 0>>, <<{"RECORD_COUNT"}, 0>>>>
  BY <1>2, <1>9 DEF ResetRegisters
<1>10. CASE lowOp = "reset" /\ saves = <<<<{"RECORD_COUNT"}, 0>>>>
  BY <1>1, <1>10 DEF ResetRegisters
<1> QED
  BY <1>4, <1>5, <1>6, <1>7, <1>8, <1>9, <1>10, Zenon DEF SaveShape

LEMMA OwnerInit == Init => OwnerInv
BY DEF Init, OwnerInv, BootOwns, UserOwns, LowOwns

LEMMA OwnerWriteSector == TypeInv /\ OwnerInv /\ WriteSector => OwnerInv'
<1> SUFFICES ASSUME TypeInv, OwnerInv, WriteSector PROVE OwnerInv'
  OBVIOUS
<1>1. /\ todo \in Seq(Chunk) /\ Len(todo) <= 2 /\ todo # <<>> /\ todo' = Tail(todo)
      /\ Tail(todo) \in Seq(Chunk) /\ Len(Tail(todo)) = Len(todo) - 1
      /\ \A i \in 1 .. Len(todo) - 1 : Tail(todo)[i] = todo[i + 1]
  BY TailFacts DEF WriteSector, Idle, TypeInv, ControlTypes
<1>2. UNCHANGED <<boot, userPc, index, lowPc, lowOp, saves>>
  BY DEF WriteSector, userVars, lowVars
<1>3. BootOwns'
  <2>1. ASSUME todo = <<DefaultChunk(Sector0), DefaultChunk(Sector1)>>
        PROVE  Tail(todo) = <<DefaultChunk(Sector1)>>
    BY <2>1
  <2>2. ASSUME todo = <<DefaultChunk(Sector1)>> PROVE Tail(todo) = <<>>
    BY <2>2
  <2> QED
    BY <1>1, <1>2, <2>1, <2>2 DEF OwnerInv, BootOwns
<1>4. UserOwns'
  <2>1. CASE userPc = "record"
    <3>1. Record(index) \in Seq(Chunk) /\ Len(Record(index)) <= 2
      BY RecordFacts DEF TypeInv, ControlTypes
    <3>2. ASSUME todo = Tail(Record(index)) PROVE Tail(todo) = <<>>
      <4>1. Record(index) # <<>>
        BY <1>1, <3>2, RecordFacts, <3>1 DEF TypeInv, ControlTypes
      <4>2. Len(todo) <= 1
        BY <3>1, <3>2, <4>1
      <4> QED
        BY <1>1, <4>2, EmptySeq
    <3> QED
      BY <1>1, <1>2, <2>1, <3>2 DEF OwnerInv, UserOwns
  <2>2. CASE userPc \in {"hours", "commit"}
    <3>1. Tail(todo) = <<>>
      BY <1>1, <2>2, EmptySeq DEF OwnerInv, UserOwns
    <3> QED
      BY <1>1, <1>2, <2>2, <3>1 DEF UserOwns
  <2>3. CASE userPc = "rest"
    BY <1>2, <2>3 DEF UserOwns
  <2> QED
    BY <2>1, <2>2, <2>3 DEF TypeInv, ControlTypes
<1>5. LowOwns'
  BY <1>1, <1>2, EmptySeq DEF OwnerInv, LowOwns, Resetting
<1> QED
  BY <1>3, <1>4, <1>5 DEF OwnerInv

LEMMA OwnerWriteFails == OwnerInv /\ WriteFails => OwnerInv'
BY DEF WriteFails, OwnerInv, BootOwns, UserOwns, LowOwns, userVars, lowVars

LEMMA OwnerBoot == TypeInv /\ OwnerInv /\ Boot => OwnerInv'
<1> SUFFICES ASSUME TypeInv, OwnerInv, Boot PROVE OwnerInv'
  OBVIOUS
<1>1. CASE BootRead
  BY <1>1, DefaultImage
  DEF BootRead, OwnerInv, BootOwns, UserOwns, LowOwns, userVars, lowVars, TypeInv, ControlTypes
<1>2. CASE BootReadFails
  BY <1>2 DEF BootReadFails, OwnerInv, BootOwns, UserOwns, LowOwns, userVars, lowVars, TypeInv, ControlTypes
<1>3. CASE BootReread
  BY <1>3 DEF BootReread, OwnerInv, BootOwns, UserOwns, LowOwns, userVars, lowVars, TypeInv, ControlTypes, Idle
<1>4. CASE BootRereadFails
  BY <1>4 DEF BootRereadFails, OwnerInv, BootOwns, UserOwns, LowOwns, userVars, lowVars, TypeInv, ControlTypes, Idle
<1> QED
  BY <1>1, <1>2, <1>3, <1>4 DEF Boot

(* A write of registers that lie in one sector. *)
LEMMA ImageOfSector1 ==
  ASSUME NEW f, NEW regs \in SUBSET Sector1
  PROVE  /\ Image(f, regs) = <<[kind |-> "image", data |-> [r \in regs |-> f[r]]]>>
         /\ Len(Image(f, regs)) = 1
         /\ Head(Image(f, regs)) = [kind |-> "image", data |-> [r \in regs |-> f[r]]]
         /\ IsImage(Head(Image(f, regs))) /\ DOMAIN Head(Image(f, regs)).data = regs
<1>1. regs \intersect Sector0 = {} /\ regs \intersect Sector1 = regs
  BY RegisterFacts
<1>2. Image(f, regs) = <<[kind |-> "image", data |-> [r \in regs |-> f[r]]]>>
  BY <1>1 DEF Image
<1> QED
  BY <1>2 DEF IsImage

LEMMA ImageOfSector0 ==
  ASSUME NEW f, NEW regs \in SUBSET Sector0, regs # {}
  PROVE  /\ Image(f, regs) = <<[kind |-> "image", data |-> [r \in regs |-> f[r]]]>>
         /\ Len(Image(f, regs)) = 1
         /\ Head(Image(f, regs)) = [kind |-> "image", data |-> [r \in regs |-> f[r]]]
         /\ IsImage(Head(Image(f, regs))) /\ DOMAIN Head(Image(f, regs)).data = regs
<1>1. regs \intersect Sector0 = regs /\ regs \intersect Sector1 = {}
  BY RegisterFacts
<1>2. Image(f, regs) = <<[kind |-> "image", data |-> [r \in regs |-> f[r]]]>>
  BY <1>1 DEF Image
<1> QED
  BY <1>2 DEF IsImage

LEMMA OwnerUser == TypeInv /\ OwnerInv /\ User => OwnerInv'
<1> SUFFICES ASSUME TypeInv, OwnerInv, User PROVE OwnerInv'
  OBVIOUS
<1>1. CASE AddBegin
  BY <1>1 DEF AddBegin, OwnerInv, BootOwns, UserOwns, LowOwns, lowVars
<1>2. CASE AddCommit
  <2>1. ResetRegisters \in SUBSET Sector1
    BY RegisterFacts
  <2>2. boot = "on"
    BY <1>2 DEF AddCommit, TypeInv, ControlTypes
  <2>3. Len(todo') = 1 /\ IsImage(Head(todo')) /\ DOMAIN Head(todo').data = ResetRegisters
    BY <1>2, <2>1, ImageOfSector1 DEF AddCommit
  <2> QED
    BY <1>2, <2>2, <2>3 DEF AddCommit, OwnerInv, BootOwns, UserOwns, LowOwns, lowVars
<1>3. CASE SaveBeforePowerOff
  <2>1. {"MOTO_HOURS"} \in SUBSET Sector1
    BY DEF Sector1
  <2>2. Len(todo') = 1 /\ IsImage(Head(todo')) /\ DOMAIN Head(todo').data = {"MOTO_HOURS"}
    BY <1>3, <2>1, ImageOfSector1 DEF SaveBeforePowerOff
  <2> QED
    BY <1>3, <2>2 DEF SaveBeforePowerOff, OwnerInv, BootOwns, UserOwns, LowOwns, lowVars
<1>4. CASE UserReturns
  <2>1. boot = "on" /\ todo = <<>>
    BY <1>4 DEF UserReturns, TypeInv, ControlTypes, Idle
  <2> QED
    BY <1>4, <2>1 DEF UserReturns, OwnerInv, BootOwns, UserOwns, LowOwns, lowVars
<1>5. CASE SaveResurse
  <2>1. {"RESURSE"} \in SUBSET Sector0 /\ {"RESURSE"} # {}
    BY DEF Sector0
  <2>2. Len(todo') = 1 /\ IsImage(Head(todo')) /\ DOMAIN Head(todo').data = {"RESURSE"}
    BY <1>5, <2>1, ImageOfSector0 DEF SaveResurse
  <2>3. boot = "on"
    BY <1>5 DEF SaveResurse, TypeInv, ControlTypes
  <2> QED
    BY <1>5, <2>2, <2>3 DEF SaveResurse, OwnerInv, BootOwns, UserOwns, LowOwns, lowVars, stores
<1> QED
  BY <1>1, <1>2, <1>3, <1>4, <1>5 DEF User

LEMMA OwnerLow == TypeInv /\ OwnerInv /\ Low => OwnerInv'
<1> SUFFICES ASSUME TypeInv, OwnerInv, Low PROVE OwnerInv'
  OBVIOUS
<1>1. CASE LowBegin
  <2>1. lowPc # "saving"
    BY <1>1 DEF LowBegin, TypeInv, ControlTypes, LowShape, SaveShape
  <2> QED
    BY <1>1, <2>1 DEF LowBegin, OwnerInv, BootOwns, UserOwns, LowOwns, userVars
<1>2. CASE LowStore
  BY <1>2 DEF LowStore, OwnerInv, BootOwns, UserOwns, LowOwns, userVars
<1>3. CASE LowSave
  <2>1. /\ boot = "on" /\ userPc = "rest" /\ SaveShape
        /\ todo' = Image(DATA_MODEL_REGISTER, Head(saves)[1]) /\ lowPc' = "saving"
        /\ UNCHANGED <<boot, userPc, index, saves>>
    BY <1>3 DEF LowSave, LowRuns, userVars, TypeInv, ControlTypes, LowShape
  <2>2. Head(saves)[1] \in SUBSET Registers /\ Head(saves)[1] # {} /\ Typed(DATA_MODEL_REGISTER)
    BY <2>1, SaveFacts DEF TypeInv, StoreTypes
  <2>3. \A i \in 1 .. Len(todo') : IsImage(todo'[i]) /\ DOMAIN todo'[i].data \subseteq Head(saves)[1]
    BY <2>1, <2>2, ImageFacts DEF IsImage
  <2>4. Resetting' => Len(todo') = 1
    <3> SUFFICES ASSUME lowOp = "reset" PROVE Len(todo') = 1
      BY <1>3 DEF LowSave, Resetting
    <3>1. Head(saves)[1] \in SUBSET Sector1
      BY <2>1, SaveRegs, RegisterFacts DEF ResetRegisters
    <3> QED
      BY <2>1, <3>1, ImageOfSector1
  <2> QED
    BY <2>1, <2>3, <2>4 DEF OwnerInv, BootOwns, UserOwns, LowOwns
<1>4. CASE LowSaved
  BY <1>4 DEF LowSaved, Idle, OwnerInv, BootOwns, UserOwns, LowOwns, userVars
<1>5. CASE Hour
  BY <1>5 DEF Hour, OwnerInv, BootOwns, UserOwns, LowOwns, userVars, Resetting
<1> QED
  BY <1>1, <1>2, <1>3, <1>4, <1>5 DEF Low

LEMMA OwnerStep == TypeInv /\ OwnerInv /\ [Next]_vars => OwnerInv'
<1>1. OwnerInv /\ PowerLoss => OwnerInv'
  BY DEF PowerLoss, OwnerInv, BootOwns, UserOwns, LowOwns
<1>2. OwnerInv /\ UNCHANGED vars => OwnerInv'
  BY DEF vars, userVars, lowVars, OwnerInv, BootOwns, UserOwns, LowOwns, Resetting
<1> QED
  BY <1>1, <1>2, OwnerWriteSector, OwnerWriteFails, OwnerBoot, OwnerUser, OwnerLow DEF Next

LEMMA OwnerInvAlways == Spec => []OwnerInv
<1>1. TypeInv /\ TypeInv' /\ OwnerInv /\ [Next]_vars => OwnerInv'
  BY OwnerStep
<1> QED
  BY <1>1, OwnerInit, TypeInvAlways, PTL DEF Spec

-----------------------------------------------------------------------------
(* RAM and EEPROM agree when nobody saves *)

AboutToSave(r) == lowPc = "stored" /\ r \in Head(saves)[1]

Pending(r) == \E i \in 1 .. Len(todo) : IsImage(todo[i]) /\ r \in DOMAIN todo[i].data

(* What is still to be written is what is in RAM, ... *)
PendingFresh ==
  \A i \in 1 .. Len(todo) : IsImage(todo[i]) =>
     \A r \in DOMAIN todo[i].data \ unsaved :
        todo[i].data[r] = DATA_MODEL_REGISTER[r] \/ AboutToSave(r)

(* ... and a register that differs is still to be written. *)
DifferPending ==
  \A r \in Registers \ unsaved :
     DATA_MODEL_REGISTER[r] = rom[r] \/ AboutToSave(r) \/ Pending(r)

PendingOnce ==
  \A i, j \in 1 .. Len(todo) : IsImage(todo[i]) /\ IsImage(todo[j]) /\ i # j =>
     DOMAIN todo[i].data \intersect DOMAIN todo[j].data = {}

RamInv == PendingFresh /\ DifferPending /\ PendingOnce

LEMMA RamInit == Init => RamInv
BY DEF Init, RamInv, PendingFresh, DifferPending, PendingOnce

(* An image that begins to be written. *)
LEMMA ImageBegins ==
  ASSUME NEW f, Typed(f), NEW regs \in SUBSET Registers, regs # {}, todo' = Image(f, regs)
  PROVE  /\ PendingOnce'
         /\ \A i \in 1 .. Len(todo') : \A r \in DOMAIN todo'[i].data : r \in regs /\ todo'[i].data[r] = f[r]
         /\ \A r \in regs : Pending(r)'
<1>1. /\ Len(todo') = 1 \/ Len(todo') = 2
      /\ \A i \in 1 .. Len(todo') :
            /\ todo'[i].kind = "image" /\ DOMAIN todo'[i].data \subseteq regs
            /\ \A r \in DOMAIN todo'[i].data : todo'[i].data[r] = f[r]
      /\ \A r \in regs : \E i \in 1 .. Len(todo') : r \in DOMAIN todo'[i].data
  BY ImageFacts
<1>2. Len(todo') = 2 => DOMAIN todo'[1].data \intersect DOMAIN todo'[2].data = {}
  BY ImageFacts, RegisterFacts
<1>3. PendingOnce'
  BY <1>1, <1>2 DEF PendingOnce
<1> QED
  BY <1>1, <1>3 DEF Pending, IsImage

LEMMA RamWriteSector == TypeInv /\ RamInv /\ WriteSector => RamInv'
<1> SUFFICES ASSUME TypeInv, RamInv, WriteSector PROVE RamInv'
  OBVIOUS
<1> DEFINE c == Head(todo)
<1>1. /\ todo \in Seq(Chunk) /\ todo # <<>> /\ todo' = Tail(todo) /\ c = todo[1]
      /\ Tail(todo) \in Seq(Chunk) /\ Len(Tail(todo)) = Len(todo) - 1
      /\ Len(todo) \in Nat /\ Len(todo) > 0 /\ c \in Chunk
      /\ \A i \in 1 .. Len(todo) - 1 : Tail(todo)[i] = todo[i + 1]
  BY TailFacts DEF WriteSector, Idle, TypeInv, ControlTypes
<1>2. UNCHANGED <<DATA_MODEL_REGISTER, lowPc, saves>>
  BY DEF WriteSector, lowVars
<1>3. \A r : AboutToSave(r)' <=> AboutToSave(r)
  BY <1>2 DEF AboutToSave
<1>4. \A i \in 1 .. Len(todo') : i + 1 \in 1 .. Len(todo) /\ todo'[i] = todo[i + 1] /\ i + 1 # 1
  BY <1>1
<1>5. PendingOnce'
  <2> SUFFICES ASSUME NEW i \in 1 .. Len(todo'), NEW j \in 1 .. Len(todo'),
                      IsImage(todo'[i]), IsImage(todo'[j]), i # j
               PROVE  DOMAIN todo'[i].data \intersect DOMAIN todo'[j].data = {}
    BY DEF PendingOnce
  <2>1. i + 1 # j + 1
    BY <1>1
  <2> QED
    BY <1>4, <2>1 DEF RamInv, PendingOnce
<1>6. CASE IsImage(c)
  <2>1. /\ rom' = [r \in Registers |-> IF r \in DOMAIN c.data THEN c.data[r] ELSE rom[r]]
        /\ unsaved' = unsaved \ {r \in DOMAIN c.data : c.data[r] = DATA_MODEL_REGISTER[r]}
    BY <1>6 DEF WriteSector, IsImage
  <2>2. \A r \in DOMAIN c.data \ unsaved : c.data[r] = DATA_MODEL_REGISTER[r] \/ AboutToSave(r)
    BY <1>1, <1>6 DEF RamInv, PendingFresh
  <2>3. PendingFresh'
    <3> SUFFICES ASSUME NEW i \in 1 .. Len(todo'), IsImage(todo'[i]),
                        NEW r \in DOMAIN todo'[i].data \ unsaved'
                 PROVE  todo'[i].data[r] = DATA_MODEL_REGISTER[r] \/ AboutToSave(r)
      BY <1>2, <1>3 DEF PendingFresh
    <3>1. r \notin DOMAIN c.data
      BY <1>1, <1>4, <1>6 DEF RamInv, PendingOnce
    <3>2. r \notin unsaved
      BY <2>1, <3>1
    <3> QED
      BY <1>4, <3>2 DEF RamInv, PendingFresh
  <2>4. DifferPending'
    <3> SUFFICES ASSUME NEW r \in Registers \ unsaved'
                 PROVE  DATA_MODEL_REGISTER[r] = rom'[r] \/ AboutToSave(r) \/ Pending(r)'
      BY <1>2, <1>3 DEF DifferPending
    <3>1. CASE r \in DOMAIN c.data
      BY <2>1, <2>2, <3>1
    <3>2. CASE r \notin DOMAIN c.data
      <4>1. r \notin unsaved /\ rom'[r] = rom[r]
        BY <2>1, <3>2
      <4>2. ASSUME Pending(r) PROVE Pending(r)'
        <5>1. PICK i \in 1 .. Len(todo) : IsImage(todo[i]) /\ r \in DOMAIN todo[i].data
          BY <4>2 DEF Pending
        <5>2. i # 1
          BY <1>1, <3>2, <5>1
        <5>3. i - 1 \in 1 .. Len(todo') /\ todo'[i - 1] = todo[i]
          BY <1>1, <5>1, <5>2
        <5> QED
          BY <5>1, <5>3 DEF Pending
      <4> QED
        BY <4>1, <4>2 DEF RamInv, DifferPending
    <3> QED
      BY <3>1, <3>2
  <2> QED
    BY <1>5, <2>3, <2>4 DEF RamInv
<1>7. CASE ~IsImage(c)
  <2>1. UNCHANGED <<rom, unsaved>>
    BY <1>7 DEF WriteSector, IsImage
  <2>2. PendingFresh'
    BY <1>2, <1>3, <1>4, <2>1 DEF RamInv, PendingFresh
  <2>3. DifferPending'
    <3> SUFFICES ASSUME NEW r \in Registers \ unsaved, Pending(r) PROVE Pending(r)'
      BY <1>2, <1>3, <2>1 DEF RamInv, DifferPending
    <3>1. PICK i \in 1 .. Len(todo) : IsImage(todo[i]) /\ r \in DOMAIN todo[i].data
      BY DEF Pending
    <3>2. i # 1
      BY <1>1, <1>7, <3>1
    <3>3. i - 1 \in 1 .. Len(todo') /\ todo'[i - 1] = todo[i]
      BY <1>1, <3>1, <3>2
    <3> QED
      BY <3>1, <3>3 DEF Pending
  <2> QED
    BY <1>5, <2>2, <2>3 DEF RamInv
<1> QED
  BY <1>6, <1>7

LEMMA RamWriteFails == TypeInv /\ RamInv /\ WriteFails => RamInv'
<1> SUFFICES ASSUME TypeInv, RamInv, WriteFails PROVE RamInv'
  OBVIOUS
<1>1. \A r : Pending(r) => r \in unsaved'
  <2> SUFFICES ASSUME NEW r, Pending(r) PROVE r \in unsaved'
    OBVIOUS
  <2>1. PICK i \in 1 .. Len(todo) : IsImage(todo[i]) /\ r \in DOMAIN todo[i].data
    BY DEF Pending
  <2>2. i \in DOMAIN todo
    BY <2>1 DEF TypeInv, ControlTypes
  <2> QED
    BY <2>1, <2>2 DEF WriteFails, IsImage
<1>2. unsaved \subseteq unsaved' /\ todo' = <<>> /\ UNCHANGED <<DATA_MODEL_REGISTER, rom, lowPc, saves>>
  BY DEF WriteFails, lowVars
<1>3. DifferPending'
  BY <1>1, <1>2 DEF RamInv, DifferPending, AboutToSave
<1> QED
  BY <1>2, <1>3 DEF RamInv, PendingFresh, PendingOnce

LEMMA RamBoot == TypeInv /\ RamInv /\ Boot => RamInv'
<1> SUFFICES ASSUME TypeInv, RamInv, Boot PROVE RamInv'
  OBVIOUS
<1>1. CASE BootRead /\ rom["VALID_CODE_ADDRES"] # VALID_CODE
  <2>1. todo' = Image(Defaults, Registers) /\ unsaved' = Registers
    BY <1>1 DEF BootRead
  <2>2. PendingOnce' /\ \A i \in 1 .. Len(todo') : \A r \in DOMAIN todo'[i].data : r \in Registers
    BY <2>1, ImageBegins, TypedDefaults, RegisterFacts
  <2> QED
    BY <2>1, <2>2 DEF RamInv, PendingFresh, DifferPending
<1>2. CASE BootRead /\ rom["VALID_CODE_ADDRES"] = VALID_CODE
  <2>1. todo' = <<>> /\ DATA_MODEL_REGISTER' = rom /\ rom' = rom
    BY <1>2 DEF BootRead, TypeInv, ControlTypes
  <2> QED
    BY <2>1 DEF RamInv, PendingFresh, DifferPending, PendingOnce
<1>3. CASE BootReadFails
  <2>1. todo' = <<>> /\ unsaved' = Registers
    BY <1>3 DEF BootReadFails, TypeInv, ControlTypes
  <2> QED
    BY <2>1 DEF RamInv, PendingFresh, DifferPending, PendingOnce
<1>4. CASE BootReread
  <2>1. todo' = <<>> /\ DATA_MODEL_REGISTER' = rom /\ rom' = rom
    BY <1>4 DEF BootReread, Idle
  <2> QED
    BY <2>1 DEF RamInv, PendingFresh, DifferPending, PendingOnce
<1>5. CASE BootRereadFails
  <2>1. PICK got \in Prefixes : ReadFails(got) /\ unsaved' = unsaved \ got
    BY <1>5 DEF BootRereadFails
  <2>2. todo = <<>> /\ todo' = <<>> /\ rom' = rom /\ lowPc # "stored"
    BY <1>5 DEF BootRereadFails, Idle, TypeInv, ControlTypes
  <2>3. \A r \in Registers : DATA_MODEL_REGISTER'[r] = IF r \in got THEN rom[r] ELSE DATA_MODEL_REGISTER[r]
    BY <2>1 DEF ReadFails
  <2>4. \A r \in Registers \ unsaved : DATA_MODEL_REGISTER[r] = rom[r]
    BY <2>2 DEF RamInv, DifferPending, AboutToSave, Pending
  <2>5. DifferPending'
    BY <2>1, <2>2, <2>3, <2>4 DEF DifferPending
  <2> QED
    BY <2>2, <2>5 DEF RamInv, PendingFresh, PendingOnce
<1> QED
  BY <1>1, <1>2, <1>3, <1>4, <1>5 DEF Boot

(* Nothing is pending when no write is in progress. *)
LEMMA IdlePending == todo = <<>> => \A r : ~Pending(r)
BY DEF Pending

LEMMA RamUser == TypeInv /\ RamInv /\ User => RamInv'
<1> SUFFICES ASSUME TypeInv, RamInv, User PROVE RamInv'
  OBVIOUS
<1>1. CASE AddBegin
  <2>1. /\ todo = <<>> /\ todo' = Record(index') /\ index' \in Slots
        /\ UNCHANGED <<DATA_MODEL_REGISTER, rom, unsaved, lowPc, saves>>
    BY <1>1 DEF AddBegin, Idle, stores, lowVars
  <2>2. \A i \in 1 .. Len(todo') : ~IsImage(todo'[i])
    BY <2>1, RecordFacts DEF IsImage
  <2>3. DifferPending'
    BY <2>1, IdlePending DEF RamInv, DifferPending, AboutToSave
  <2> QED
    BY <2>2, <2>3 DEF RamInv, PendingFresh, PendingOnce
<1>2. CASE AddCommit
  <2> DEFINE f == [DATA_MODEL_REGISTER EXCEPT !["RECORD_INDEX"] = NextIndex(index),
                                              !["RECORD_COUNT"] = NextCount(@)]
  <2>1. Typed(f)
    BY TypedCounted DEF TypeInv, StoreTypes, ControlTypes
  <2>2. /\ todo = <<>> /\ todo' = Image(f, ResetRegisters) /\ DATA_MODEL_REGISTER' = f
        /\ UNCHANGED <<rom, unsaved, lowPc, saves>>
    BY <1>2 DEF AddCommit, Idle, lowVars
  <2>3. ResetRegisters \in SUBSET Registers /\ ResetRegisters # {}
    BY RegisterFacts DEF Registers
  <2>4. \A r \in Registers \ ResetRegisters : f[r] = DATA_MODEL_REGISTER[r]
    BY DEF TypeInv, StoreTypes, Typed, ResetRegisters
  <2> HIDE DEF f
  <2>5. /\ PendingOnce'
        /\ \A i \in 1 .. Len(todo') : \A r \in DOMAIN todo'[i].data : r \in ResetRegisters /\ todo'[i].data[r] = f[r]
        /\ \A r \in ResetRegisters : Pending(r)'
    BY <2>1, <2>2, <2>3, ImageBegins
  <2>6. PendingFresh'
    BY <2>2, <2>5 DEF PendingFresh
  <2>7. DifferPending'
    BY <2>2, <2>4, <2>5, IdlePending DEF RamInv, DifferPending, AboutToSave
  <2> QED
    BY <2>5, <2>6, <2>7 DEF RamInv
<1>3. CASE SaveBeforePowerOff
  <2>1. /\ todo = <<>> /\ todo' = Image(DATA_MODEL_REGISTER, {"MOTO_HOURS"})
        /\ UNCHANGED <<DATA_MODEL_REGISTER, rom, unsaved, lowPc, saves>>
        /\ Typed(DATA_MODEL_REGISTER)
    BY <1>3 DEF SaveBeforePowerOff, Idle, lowVars, stores, TypeInv, StoreTypes
  <2>2. {"MOTO_HOURS"} \in SUBSET Registers /\ {"MOTO_HOURS"} # {}
    BY RegisterFacts
  <2>3. /\ PendingOnce'
        /\ \A i \in 1 .. Len(todo') : \A r \in DOMAIN todo'[i].data : todo'[i].data[r] = DATA_MODEL_REGISTER[r]
    BY <2>1, <2>2, ImageBegins
  <2>4. PendingFresh'
    BY <2>1, <2>3 DEF PendingFresh
  <2>5. DifferPending'
    BY <2>1, IdlePending DEF RamInv, DifferPending, AboutToSave
  <2> QED
    BY <2>3, <2>4, <2>5 DEF RamInv
<1>4. CASE UserReturns
  BY <1>4 DEF UserReturns, stores, lowVars, RamInv, PendingFresh, DifferPending, PendingOnce, AboutToSave, Pending
<1>5. CASE SaveResurse
  <2>1. /\ todo = <<>> /\ todo' = Image(DATA_MODEL_REGISTER, {"RESURSE"})
        /\ UNCHANGED <<DATA_MODEL_REGISTER, rom, unsaved, lowPc, saves>>
        /\ Typed(DATA_MODEL_REGISTER)
    BY <1>5 DEF SaveResurse, Idle, lowVars, stores, TypeInv, StoreTypes
  <2>2. {"RESURSE"} \in SUBSET Registers /\ {"RESURSE"} # {}
    BY RegisterFacts
  <2>3. /\ PendingOnce'
        /\ \A i \in 1 .. Len(todo') : \A r \in DOMAIN todo'[i].data : todo'[i].data[r] = DATA_MODEL_REGISTER[r]
    BY <2>1, <2>2, ImageBegins
  <2>4. PendingFresh'
    BY <2>1, <2>3 DEF PendingFresh
  <2>5. DifferPending'
    BY <2>1, IdlePending DEF RamInv, DifferPending, AboutToSave
  <2> QED
    BY <2>3, <2>4, <2>5 DEF RamInv
<1> QED
  BY <1>1, <1>2, <1>3, <1>4, <1>5 DEF User

LEMMA RamLow == TypeInv /\ RamInv /\ Low => RamInv'
<1> SUFFICES ASSUME TypeInv, RamInv, Low PROVE RamInv'
  OBVIOUS
<1>1. CASE LowBegin
  <2>1. lowPc # "stored" /\ lowPc' # "stored" /\ UNCHANGED <<DATA_MODEL_REGISTER, rom, unsaved, todo>>
    BY <1>1 DEF LowBegin, stores, TypeInv, ControlTypes, LowShape, SaveShape
  <2> QED
    BY <2>1 DEF RamInv, PendingFresh, DifferPending, PendingOnce, AboutToSave, Pending
<1>2. CASE LowStore
  <2> DEFINE regs == Head(saves)[1]
  <2>1. /\ lowPc = "store" /\ lowPc' = "stored" /\ UNCHANGED <<rom, unsaved, todo, saves>>
        /\ \A r \in Registers \ regs : DATA_MODEL_REGISTER'[r] = DATA_MODEL_REGISTER[r]
    BY <1>2 DEF LowStore
  <2>2. \A r : ~AboutToSave(r) /\ (AboutToSave(r)' <=> r \in regs) /\ (Pending(r)' <=> Pending(r))
    BY <2>1 DEF AboutToSave, Pending
  <2>3. \A i \in 1 .. Len(todo) : IsImage(todo[i]) => DOMAIN todo[i].data \subseteq Registers
    BY ChunkElim, PartialElim DEF TypeInv, ControlTypes, IsImage
  <2> HIDE DEF regs
  <2>4. PendingFresh'
    BY <2>1, <2>2, <2>3 DEF RamInv, PendingFresh
  <2>5. DifferPending'
    BY <2>1, <2>2 DEF RamInv, DifferPending
  <2>6. PendingOnce'
    BY <2>1 DEF RamInv, PendingOnce
  <2> QED
    BY <2>4, <2>5, <2>6 DEF RamInv
<1>3. CASE LowSave
  <2> DEFINE regs == Head(saves)[1]
  <2>1. /\ todo = <<>> /\ todo' = Image(DATA_MODEL_REGISTER, regs)
        /\ lowPc = "stored" /\ lowPc' = "saving"
        /\ UNCHANGED <<DATA_MODEL_REGISTER, rom, unsaved, saves>>
        /\ Typed(DATA_MODEL_REGISTER) /\ SaveShape
    BY <1>3 DEF LowSave, Idle, stores, TypeInv, StoreTypes, ControlTypes, LowShape
  <2>2. regs \in SUBSET Registers /\ regs # {}
    BY <2>1, SaveFacts
  <2>3. \A r : (AboutToSave(r) <=> r \in regs) /\ ~AboutToSave(r)'
    BY <2>1 DEF AboutToSave
  <2> HIDE DEF regs
  <2>4. /\ PendingOnce'
        /\ \A i \in 1 .. Len(todo') : \A r \in DOMAIN todo'[i].data : todo'[i].data[r] = DATA_MODEL_REGISTER[r]
        /\ \A r \in regs : Pending(r)'
    BY <2>1, <2>2, ImageBegins
  <2>5. PendingFresh'
    BY <2>1, <2>4 DEF PendingFresh
  <2>6. DifferPending'
    BY <2>1, <2>3, <2>4, IdlePending DEF RamInv, DifferPending
  <2> QED
    BY <2>4, <2>5, <2>6 DEF RamInv
<1>4. CASE LowSaved
  <2>1. lowPc # "stored" /\ lowPc' # "stored" /\ UNCHANGED <<DATA_MODEL_REGISTER, rom, unsaved, todo>>
    BY <1>4 DEF LowSaved, stores
  <2> QED
    BY <2>1 DEF RamInv, PendingFresh, DifferPending, PendingOnce, AboutToSave, Pending
<1>5. CASE Hour
  <2>1. /\ UNCHANGED <<rom, todo, lowPc, saves>>
        /\ unsaved' = unsaved \union {"MOTO_HOURS"}
        /\ \A r \in Registers \ {"MOTO_HOURS"} : DATA_MODEL_REGISTER'[r] = DATA_MODEL_REGISTER[r]
    BY <1>5 DEF Hour, TypeInv, StoreTypes, Typed
  <2>2. \A r : (AboutToSave(r)' <=> AboutToSave(r)) /\ (Pending(r)' <=> Pending(r))
    BY <2>1 DEF AboutToSave, Pending
  <2>3. \A i \in 1 .. Len(todo) : IsImage(todo[i]) => DOMAIN todo[i].data \subseteq Registers
    BY ChunkElim, PartialElim DEF TypeInv, ControlTypes, IsImage
  <2>4. PendingFresh'
    BY <2>1, <2>2, <2>3 DEF RamInv, PendingFresh
  <2>5. DifferPending'
    BY <2>1, <2>2 DEF RamInv, DifferPending
  <2> QED
    BY <2>1, <2>4, <2>5 DEF RamInv, PendingOnce
<1> QED
  BY <1>1, <1>2, <1>3, <1>4, <1>5 DEF Low

LEMMA RamInvAlways == Spec => []RamInv
<1>1. RamInv /\ PowerLoss => RamInv'
  BY DEF PowerLoss, RamInv, PendingFresh, DifferPending, PendingOnce
<1>2. RamInv /\ UNCHANGED vars => RamInv'
  BY DEF vars, stores, lowVars, RamInv, PendingFresh, DifferPending, PendingOnce, AboutToSave, Pending
<1>3. TypeInv /\ RamInv /\ [Next]_vars => RamInv'
  BY <1>1, <1>2, RamWriteSector, RamWriteFails, RamBoot, RamUser, RamLow DEF Next
<1> QED
  BY <1>3, RamInit, TypeInvAlways, PTL DEF Spec

(* When nobody is saving, a restart finds what the program works with, whatever the   *)
(* two tasks saved before and wherever they interrupted each other                    *)
(* (data_model.c:87-98, 160-166, 315).                                                *)
THEOREM RamMatchesRomAlways == Spec => []RamMatchesRom
<1>1. RamInv => RamMatchesRom
  BY IdlePending DEF RamInv, DifferPending, AboutToSave, RamMatchesRom, Idle
<1> QED
  BY <1>1, RamInvAlways, PTL

-----------------------------------------------------------------------------
(* Settings that belong together *)

(* No transfer has failed since the operation of the other task began. *)
Unfailed == ~interfered \/ lowOp \notin cut

BootProgress ==
  /\ boot = "off" => DATA_MODEL_REGISTER = [r \in Registers |-> 0]
  /\ boot = "writing" =>
     /\ DATA_MODEL_REGISTER = Defaults
     /\ todo = <<DefaultChunk(Sector1)>> => \A r \in Sector0 : rom[r] = Defaults[r]
     /\ todo = <<>> /\ (sound \/ "init" \notin cut) => \A r \in Registers : rom[r] = Defaults[r]

SaveInRam ==
  lowPc \in {"stored", "saving"} =>
     \A r \in Head(saves)[1] \ ResetRegisters : DATA_MODEL_REGISTER[r] = Head(saves)[2]

SavePending ==
  boot = "on" /\ userPc = "rest" =>
     \A i \in 1 .. Len(todo) : \A r \in DOMAIN todo[i].data \ ResetRegisters :
        todo[i].data[r] = Head(saves)[2]

SaveWritten ==
  lowPc = "saving" /\ Unfailed =>
     \A r \in Head(saves)[1] \ ResetRegisters : Pending(r) \/ rom[r] = Head(saves)[2]

(* The protocol is saved before the control type that it follows. *)
ProtocolFirst ==
  lowOp = "control" /\ Head(saves)[1] = {"CONTROL_TYPE"} /\ Head(saves)[2] = 2 /\ Unfailed =>
     rom["MB_PROTOCOL_TYPE"] = 2

ControlPair ==
  rom["CONTROL_TYPE"] \notin {0, Blank} /\ lowOp # "control" /\ "control" \notin cut =>
     rom["MB_PROTOCOL_TYPE"] = rom["CONTROL_TYPE"]

CoefPair ==
  boot # "writing" /\ lowOp # "coef" /\ "coef" \notin cut /\ "init" \notin cut =>
     rom["COOF_I3_low"] = rom["COOF_I3_high"]

PairInv ==
  BootProgress /\ SaveInRam /\ SavePending /\ SaveWritten /\ ProtocolFirst /\ ControlPair /\ CoefPair

LEMMA PairInit == Init => PairInv
BY RegisterFacts DEF Init, PairInv, BootProgress, SaveInRam, SavePending, SaveWritten, ProtocolFirst,
   ControlPair, CoefPair

(* The step of a write: its first chunk is gone, the others remain. *)
LEMMA SectorWritten ==
  ASSUME TypeInv, WriteSector
  PROVE  /\ todo # <<>> /\ todo' = Tail(todo) /\ Head(todo) = todo[1] /\ Head(todo) \in Chunk
         /\ Len(todo) \in Nat /\ Len(todo) > 0 /\ Len(todo') = Len(todo) - 1
         /\ todo \in Seq(Chunk) /\ todo' \in Seq(Chunk)
         /\ \A i \in 1 .. Len(todo') : i + 1 \in 1 .. Len(todo) /\ todo'[i] = todo[i + 1]
         /\ \A r : r \notin DOMAIN Head(todo).data \/ ~IsImage(Head(todo)) => (Pending(r)' <=> Pending(r))
         /\ IsImage(Head(todo)) =>
               /\ DOMAIN Head(todo).data \subseteq Registers
               /\ \A r \in Registers : rom'[r] = IF r \in DOMAIN Head(todo).data THEN Head(todo).data[r] ELSE rom[r]
         /\ ~IsImage(Head(todo)) => rom' = rom
         /\ UNCHANGED <<DATA_MODEL_REGISTER, boot, userPc, index, added, lowOp, saves, lowPc, changes, faults, cut, interfered>>
<1> DEFINE c == Head(todo)
<1>1. /\ todo \in Seq(Chunk) /\ todo # <<>> /\ todo' = Tail(todo) /\ c = todo[1]
      /\ Tail(todo) \in Seq(Chunk) /\ Len(Tail(todo)) = Len(todo) - 1
      /\ Len(todo) \in Nat /\ Len(todo) > 0 /\ c \in Chunk
      /\ \A i \in 1 .. Len(todo) - 1 : Tail(todo)[i] = todo[i + 1]
  BY TailFacts DEF WriteSector, Idle, TypeInv, ControlTypes
<1>2. \A i \in 1 .. Len(todo') : i + 1 \in 1 .. Len(todo) /\ todo'[i] = todo[i + 1]
  BY <1>1
<1>3. ASSUME NEW r, r \notin DOMAIN c.data \/ ~IsImage(c) PROVE Pending(r)' <=> Pending(r)
  <2>1. ASSUME Pending(r) PROVE Pending(r)'
    <3>1. PICK i \in 1 .. Len(todo) : IsImage(todo[i]) /\ r \in DOMAIN todo[i].data
      BY <2>1 DEF Pending
    <3>2. i # 1
      BY <1>1, <1>3, <3>1
    <3>3. i - 1 \in 1 .. Len(todo') /\ todo'[i - 1] = todo[i]
      BY <1>1, <3>1, <3>2
    <3> QED
      BY <3>1, <3>3 DEF Pending
  <2>2. ASSUME Pending(r)' PROVE Pending(r)
    BY <1>2, <2>2 DEF Pending
  <2> QED
    BY <2>1, <2>2
<1>4. ASSUME IsImage(c)
      PROVE  /\ DOMAIN c.data \subseteq Registers
             /\ \A r \in Registers : rom'[r] = IF r \in DOMAIN c.data THEN c.data[r] ELSE rom[r]
  <2>1. rom' = [r \in Registers |-> IF r \in DOMAIN c.data THEN c.data[r] ELSE rom[r]]
    BY <1>4 DEF WriteSector, IsImage
  <2>2. DOMAIN c.data \subseteq Registers
    BY <1>1, <1>4, ChunkElim, PartialElim DEF IsImage
  <2> HIDE DEF c
  <2> QED
    BY <2>1, <2>2
<1>5. ~IsImage(c) => rom' = rom
  BY DEF WriteSector, IsImage
<1>6. UNCHANGED <<DATA_MODEL_REGISTER, boot, userPc, index, added, lowOp, saves, lowPc, changes, faults, cut, interfered>>
  BY DEF WriteSector, userVars, lowVars
<1> QED
  BY <1>1, <1>2, <1>3, <1>4, <1>5, <1>6

LEMMA PairNames ==
  /\ {"CONTROL_TYPE", "MB_PROTOCOL_TYPE", "COOF_I3_low"} \subseteq Sector0
  /\ "COOF_I3_high" \in Sector1 /\ "CONTROL_TYPE" \notin Sector1 /\ "MB_PROTOCOL_TYPE" \notin Sector1
  /\ {"CONTROL_TYPE", "MB_PROTOCOL_TYPE", "COOF_I3_low", "COOF_I3_high", "VALID_CODE_ADDRES"} \subseteq Registers
  /\ \A r \in {"CONTROL_TYPE", "MB_PROTOCOL_TYPE", "COOF_I3_low", "COOF_I3_high", "VALID_CODE_ADDRES"} :
        r \notin ResetRegisters /\ r \notin {"MOTO_HOURS", "RESURSE"}
  /\ Registers = Sector0 \union Sector1
BY DEF Sector0, Sector1, Registers, ResetRegisters

LEMMA DefaultFacts ==
  /\ Defaults["CONTROL_TYPE"] = 1 /\ Defaults["MB_PROTOCOL_TYPE"] = 1
  /\ Defaults["COOF_I3_low"] = 0 /\ Defaults["COOF_I3_high"] = 0
  /\ Defaults["VALID_CODE_ADDRES"] = 1
  /\ Defaults["RECORD_INDEX"] = 0 /\ Defaults["RECORD_COUNT"] = 0
  /\ \A r \in Registers : Defaults[r] # Blank
BY BlankFacts, RegisterFacts DEF Defaults, VALID_CODE

LEMMA DefaultChunks ==
  \A S : /\ IsImage(DefaultChunk(S)) /\ DOMAIN DefaultChunk(S).data = S
         /\ \A r \in S : DefaultChunk(S).data[r] = Defaults[r]
BY DEF DefaultChunk, IsImage

(* The write of the defaults, one sector after the other. *)
LEMMA BootSector ==
  ASSUME TypeInv, OwnerInv, BootProgress, WriteSector, boot = "writing"
  PROVE  /\ BootProgress'
         /\ \/ todo = <<DefaultChunk(Sector0), DefaultChunk(Sector1)>>
               /\ \A r \in Registers : rom'[r] = IF r \in Sector0 THEN Defaults[r] ELSE rom[r]
            \/ todo = <<DefaultChunk(Sector1)>> /\ Len(todo) = 1
               /\ \A r \in Registers : rom'[r] = IF r \in Sector1 THEN Defaults[r] ELSE rom[r]
<1>0. DATA_MODEL_REGISTER' = Defaults /\ boot' = "writing"
  BY SectorWritten DEF BootProgress
<1>1. todo = <<DefaultChunk(Sector0), DefaultChunk(Sector1)>> \/ todo = <<DefaultChunk(Sector1)>>
  BY SectorWritten DEF OwnerInv, BootOwns
<1>2. CASE todo = <<DefaultChunk(Sector0), DefaultChunk(Sector1)>>
  <2>1. Head(todo) = DefaultChunk(Sector0) /\ Tail(todo) = <<DefaultChunk(Sector1)>>
    BY <1>2
  <2>2. \A r \in Registers : rom'[r] = IF r \in Sector0 THEN Defaults[r] ELSE rom[r]
    BY <2>1, SectorWritten, DefaultChunks
  <2>3. todo' = <<DefaultChunk(Sector1)>> /\ todo' # <<>>
    <3>1. \A x : <<x>> # <<>>
      OBVIOUS
    <3>2. todo' = <<DefaultChunk(Sector1)>>
      BY <2>1, SectorWritten
    <3> QED
      BY <3>1, <3>2, Zenon
  <2>4. BootProgress'
    BY <1>0, <2>2, <2>3, PairNames DEF BootProgress
  <2> QED
    BY <1>2, <2>2, <2>4
<1>3. CASE todo = <<DefaultChunk(Sector1)>>
  <2>1. Head(todo) = DefaultChunk(Sector1) /\ Tail(todo) = <<>> /\ Len(todo) = 1
    BY <1>3
  <2>2. \A r \in Registers : rom'[r] = IF r \in Sector1 THEN Defaults[r] ELSE rom[r]
    BY <2>1, SectorWritten, DefaultChunks
  <2>3. todo' = <<>>
    BY <2>1, SectorWritten
  <2>4. todo' # <<DefaultChunk(Sector1)>>
    BY <2>3
  <2>5. \A r \in Sector0 : rom[r] = Defaults[r]
    BY <1>3 DEF BootProgress
  <2>6. \A r \in Registers : rom'[r] = Defaults[r]
    BY <2>2, <2>5, PairNames
  <2>7. BootProgress'
    BY <1>0, <2>4, <2>6, Zenon DEF BootProgress
  <2> QED
    BY <1>3, <2>1, <2>2, <2>7
<1> QED
  BY <1>1, <1>2, <1>3

(* A write of the user task touches its own registers only. *)
LEMMA UserSector ==
  ASSUME TypeInv, OwnerInv, WriteSector, userPc # "rest"
  PROVE  /\ boot = "on"
         /\ \A r \in Registers : r \notin ResetRegisters /\ r \notin {"MOTO_HOURS", "RESURSE"} => rom'[r] = rom[r]
         /\ \A r : r \notin ResetRegisters /\ r \notin {"MOTO_HOURS", "RESURSE"} => ~Pending(r)
<1>1. boot = "on"
  BY DEF TypeInv, ControlTypes
<1>2. CASE userPc = "record"
  <2>1. \A i \in 1 .. Len(todo) : ~IsImage(todo[i])
    <3>1. \A i \in 1 .. Len(Record(index)) : ~IsImage(Record(index)[i])
      BY RecordFacts DEF IsImage, TypeInv, ControlTypes
    <3>2. ASSUME todo = Tail(Record(index)) PROVE \A i \in 1 .. Len(todo) : ~IsImage(todo[i])
      <4>1. Record(index) \in Seq(Chunk)
        BY RecordFacts DEF TypeInv, ControlTypes
      <4>2. Record(index) # <<>>
        BY RecordFacts DEF TypeInv, ControlTypes
      <4> QED
        BY <3>1, <3>2, <4>1, <4>2, TailFacts
    <3>3. ASSUME todo = Record(index) PROVE \A i \in 1 .. Len(todo) : ~IsImage(todo[i])
      BY <3>1, <3>3
    <3> QED
      BY <1>2, <3>2, <3>3, SectorWritten DEF OwnerInv, UserOwns
  <2>2. rom' = rom /\ \A r : ~Pending(r)
    BY <2>1, SectorWritten DEF Pending
  <2> QED
    BY <1>1, <2>2
<1>3. CASE userPc \in {"hours", "commit"}
  <2>1. /\ Len(todo) = 1 /\ IsImage(Head(todo)) /\ Head(todo) = todo[1]
        /\ DOMAIN Head(todo).data \in {{"MOTO_HOURS"}, {"RESURSE"}, ResetRegisters}
    BY <1>3, SectorWritten DEF OwnerInv, UserOwns
  <2>2. \A r : r \notin ResetRegisters /\ r \notin {"MOTO_HOURS", "RESURSE"} => r \notin DOMAIN Head(todo).data
    BY <2>1
  <2>3. \A r \in Registers : r \notin ResetRegisters /\ r \notin {"MOTO_HOURS", "RESURSE"} => rom'[r] = rom[r]
    BY <2>1, <2>2, SectorWritten
  <2>4. \A i \in 1 .. Len(todo) : todo[i] = Head(todo)
    BY <2>1
  <2>5. \A r : r \notin ResetRegisters /\ r \notin {"MOTO_HOURS", "RESURSE"} => ~Pending(r)
    BY <2>2, <2>4 DEF Pending
  <2> QED
    BY <1>1, <2>3, <2>5
<1> QED
  BY <1>2, <1>3 DEF TypeInv, ControlTypes

LEMMA PairWriteSector == TypeInv /\ OwnerInv /\ PairInv /\ WriteSector => PairInv'
<1> SUFFICES ASSUME TypeInv, OwnerInv, PairInv, WriteSector PROVE PairInv'
  OBVIOUS
<1>1. CASE boot = "writing"
  <2>1. lowPc = "rest" /\ lowOp = "none" /\ UNCHANGED <<boot, userPc, lowOp, saves, lowPc, cut, interfered, DATA_MODEL_REGISTER>>
    BY <1>1, SectorWritten DEF TypeInv, ControlTypes, LowShape, SaveShape
  <2>2. BootProgress'
    BY <1>1, BootSector DEF PairInv
  <2>3. SaveInRam' /\ SavePending' /\ SaveWritten' /\ ProtocolFirst' /\ CoefPair'
    BY <1>1, <2>1 DEF SaveInRam, SavePending, SaveWritten, ProtocolFirst, CoefPair
  <2>4. ControlPair'
    BY <1>1, <2>1, BootSector, PairNames, DefaultFacts DEF PairInv, ControlPair
  <2> QED
    BY <2>2, <2>3, <2>4 DEF PairInv
<1>2. CASE boot # "writing" /\ userPc = "rest"
  <2>1. boot = "on" /\ lowPc = "saving" /\ SaveShape
    BY <1>2, SectorWritten DEF TypeInv, ControlTypes, LowShape, OwnerInv, LowOwns
  <2>2. UNCHANGED <<boot, userPc, lowOp, saves, lowPc, cut, interfered, DATA_MODEL_REGISTER>>
    BY SectorWritten
  <2>3. IsImage(Head(todo)) /\ DOMAIN Head(todo).data \subseteq Head(saves)[1]
    BY <1>2, <2>1, SectorWritten DEF OwnerInv, LowOwns
  <2>4. \A r \in DOMAIN Head(todo).data \ ResetRegisters : Head(todo).data[r] = Head(saves)[2]
    BY <1>2, <2>1, SectorWritten DEF PairInv, SavePending
  <2>5. BootProgress' /\ SaveInRam'
    BY <1>2, <2>2 DEF BootProgress, SaveInRam, PairInv
  <2>6. SavePending'
    BY <2>1, <2>2, <1>2, SectorWritten DEF PairInv, SavePending
  <2>7. SaveWritten'
    <3> SUFFICES ASSUME Unfailed, NEW r \in Head(saves)[1] \ ResetRegisters
                 PROVE  Pending(r)' \/ rom'[r] = Head(saves)[2]
      BY <2>2 DEF SaveWritten, Unfailed
    <3>1. r \in Registers
      BY <2>1, SaveFacts
    <3>2. CASE r \in DOMAIN Head(todo).data
      BY <2>3, <2>4, <3>1, <3>2, SectorWritten
    <3>3. CASE r \notin DOMAIN Head(todo).data
      BY <2>1, <2>3, <3>1, <3>3, SectorWritten DEF PairInv, SaveWritten
    <3> QED
      BY <3>2, <3>3
  <2>8. \A r \in Registers : r \notin Head(saves)[1] => rom'[r] = rom[r]
    BY <2>3, SectorWritten
  <2>9. ProtocolFirst' /\ ControlPair' /\ CoefPair'
    BY <2>1, <2>2, <2>8, SaveRegs, PairNames DEF PairInv, ProtocolFirst, ControlPair, CoefPair, Unfailed
  <2> QED
    BY <2>5, <2>6, <2>7, <2>9 DEF PairInv
<1>3. CASE boot # "writing" /\ userPc # "rest"
  <2>1. /\ \A r \in Registers : r \notin ResetRegisters /\ r \notin {"MOTO_HOURS", "RESURSE"} => rom'[r] = rom[r]
        /\ \A r : r \notin ResetRegisters /\ r \notin {"MOTO_HOURS", "RESURSE"} => ~Pending(r)
    BY <1>3, UserSector
  <2>2. UNCHANGED <<boot, userPc, lowOp, saves, lowPc, cut, interfered, DATA_MODEL_REGISTER>>
    BY SectorWritten
  <2>3. BootProgress' /\ SaveInRam' /\ SavePending'
    BY <1>3, <2>2 DEF BootProgress, SaveInRam, SavePending, PairInv
  <2>4. SaveWritten'
    <3> SUFFICES ASSUME lowPc = "saving", Unfailed, NEW r \in Head(saves)[1] \ ResetRegisters
                 PROVE  rom'[r] = Head(saves)[2]
      BY <2>2 DEF SaveWritten, Unfailed
    <3>1. SaveShape
      BY DEF TypeInv, ControlTypes, LowShape
    <3>2. r \in Registers /\ r \notin {"MOTO_HOURS", "RESURSE"}
      BY <3>1, SaveFacts, SaveRegs
    <3> QED
      BY <2>1, <3>2 DEF PairInv, SaveWritten
  <2>5. ProtocolFirst' /\ ControlPair' /\ CoefPair'
    BY <2>1, <2>2, PairNames DEF PairInv, ProtocolFirst, ControlPair, CoefPair, Unfailed
  <2> QED
    BY <2>3, <2>4, <2>5 DEF PairInv
<1> QED
  BY <1>1, <1>2, <1>3

LEMMA PairWriteFails == TypeInv /\ PairInv /\ WriteFails => PairInv'
<1> SUFFICES ASSUME TypeInv, PairInv, WriteFails PROVE PairInv'
  OBVIOUS
<1>1. /\ todo' = <<>> /\ interfered' = TRUE /\ ~sound' /\ UNCHANGED <<DATA_MODEL_REGISTER, rom, boot, userPc, lowOp, saves, lowPc>>
      /\ cut \subseteq cut'
      /\ boot = "writing" => "init" \in cut'
      /\ boot # "writing" => lowOp \in cut'
  BY DEF WriteFails, userVars, lowVars
<1>2. lowPc # "rest" => boot # "writing"
  BY DEF TypeInv, ControlTypes
<1>3. lowOp # "none" => lowPc # "rest"
  BY DEF TypeInv, ControlTypes, LowShape, SaveShape
<1>4. lowPc # "rest" => ~Unfailed'
  BY <1>1, <1>2 DEF Unfailed
<1>5. BootProgress' /\ SaveInRam' /\ SavePending'
  <2>1. \A x : <<x>> # <<>>
    OBVIOUS
  <2>2. todo' # <<DefaultChunk(Sector1)>>
    BY <1>1, <2>1, Zenon
  <2> QED
    BY <1>1, <2>2 DEF PairInv, BootProgress, SaveInRam, SavePending
<1>6. SaveWritten' /\ ProtocolFirst'
  BY <1>1, <1>3, <1>4 DEF SaveWritten, ProtocolFirst
<1>7. ControlPair' /\ CoefPair'
  BY <1>1 DEF PairInv, ControlPair, CoefPair
<1> QED
  BY <1>5, <1>6, <1>7 DEF PairInv

LEMMA PairBoot == TypeInv /\ PairInv /\ Boot => PairInv'
<1> SUFFICES ASSUME TypeInv, PairInv, Boot PROVE PairInv'
  OBVIOUS
<1>1. boot # "on" /\ lowPc = "rest" /\ lowOp = "none" /\ UNCHANGED <<rom, lowOp, saves, lowPc, cut, interfered>>
  BY DEF Boot, BootRead, BootReadFails, BootReread, BootRereadFails, lowVars, history, TypeInv, ControlTypes, LowShape, SaveShape
<1>2. SaveInRam' /\ SaveWritten' /\ ProtocolFirst' /\ ControlPair'
  BY <1>1 DEF PairInv, SaveInRam, SaveWritten, ProtocolFirst, ControlPair
<1>3. CASE BootRead /\ rom["VALID_CODE_ADDRES"] # VALID_CODE
  <2>1. todo' = <<DefaultChunk(Sector0), DefaultChunk(Sector1)>> /\ boot' = "writing"
        /\ DATA_MODEL_REGISTER' = Defaults
    BY <1>3, DefaultImage DEF BootRead
  <2>2. \A x, y : <<x, y>> # <<>> /\ <<x, y>> # <<y>>
    OBVIOUS
  <2>3. todo' # <<>> /\ todo' # <<DefaultChunk(Sector1)>>
    BY <2>1, <2>2, Zenon
  <2>4. BootProgress' /\ SavePending' /\ CoefPair'
    BY <2>1, <2>3 DEF BootProgress, SavePending, CoefPair
  <2> QED
    BY <1>2, <2>4 DEF PairInv
<1>4. CASE BootRead /\ rom["VALID_CODE_ADDRES"] = VALID_CODE
  <2>1. boot = "off" /\ boot' = "on" /\ todo' = <<>>
    BY <1>4 DEF BootRead, TypeInv, ControlTypes
  <2> QED
    BY <1>1, <1>2, <2>1 DEF PairInv, BootProgress, SavePending, CoefPair
<1>5. CASE BootReadFails
  <2>1. boot = "off" /\ boot' = "on" /\ todo' = <<>>
    BY <1>5 DEF BootReadFails, TypeInv, ControlTypes
  <2> QED
    BY <1>1, <1>2, <2>1 DEF PairInv, BootProgress, SavePending, CoefPair
<1>6. CASE BootReread
  <2>1. boot = "writing" /\ boot' = "on" /\ todo = <<>> /\ todo' = <<>>
    BY <1>6 DEF BootReread, Idle
  <2> QED
    BY <1>1, <1>2, <2>1, PairNames, DefaultFacts DEF PairInv, BootProgress, SavePending, CoefPair
<1>7. CASE BootRereadFails
  <2>1. boot = "writing" /\ boot' = "on" /\ todo = <<>> /\ todo' = <<>>
    BY <1>7 DEF BootRereadFails, Idle
  <2> QED
    BY <1>1, <1>2, <2>1, PairNames, DefaultFacts DEF PairInv, BootProgress, SavePending, CoefPair
<1> QED
  BY <1>3, <1>4, <1>5, <1>6, <1>7 DEF Boot

LEMMA PairUser == TypeInv /\ OwnerInv /\ PairInv /\ User => PairInv'
<1> SUFFICES ASSUME TypeInv, OwnerInv, PairInv, User PROVE PairInv'
  OBVIOUS
<1>1. /\ boot = "on" /\ boot' = "on" /\ todo = <<>> /\ UNCHANGED <<rom, lowOp, saves, lowPc, cut>>
      /\ interfered => interfered'
  <2>1. CASE AddBegin
    <3>1. interfered' = (interfered \/ Resetting)
      BY <2>1 DEF AddBegin
    <3> QED
      BY <2>1, <3>1 DEF AddBegin, Idle, stores, lowVars
  <2>2. CASE AddCommit
    BY <2>2 DEF AddCommit, Idle, lowVars, history, TypeInv, ControlTypes
  <2>3. CASE SaveBeforePowerOff
    BY <2>3 DEF SaveBeforePowerOff, Idle, stores, lowVars, history
  <2>4. CASE UserReturns
    BY <2>4 DEF UserReturns, Idle, stores, lowVars, history, TypeInv, ControlTypes
  <2>5. CASE SaveResurse
    BY <2>5 DEF SaveResurse, Idle, stores, lowVars, history, TypeInv, ControlTypes
  <2> QED
    BY <2>1, <2>2, <2>3, <2>4, <2>5 DEF User
<1>2. \A r : ~Pending(r)
  BY <1>1, IdlePending
<1>3. Unfailed' => Unfailed
  BY <1>1 DEF Unfailed
<1>4. \A r \in Registers \ ResetRegisters : DATA_MODEL_REGISTER'[r] = DATA_MODEL_REGISTER[r]
  BY DEF User, AddBegin, AddCommit, SaveBeforePowerOff, SaveResurse, UserReturns, stores, ResetRegisters,
         TypeInv, StoreTypes, Typed
<1>5. \A r : r \in Head(saves)[1] /\ lowPc # "rest" => r \in Registers
  BY SaveFacts DEF TypeInv, ControlTypes, LowShape
<1>6. BootProgress' /\ SaveInRam'
  BY <1>1, <1>4, <1>5 DEF PairInv, BootProgress, SaveInRam
<1>7. SavePending'
  <2>1. userPc' # "rest" \/ todo' = <<>>
    BY <1>1 DEF User, AddBegin, AddCommit, SaveBeforePowerOff, SaveResurse, UserReturns
  <2> QED
    BY <2>1 DEF SavePending
<1>8. SaveWritten' /\ ProtocolFirst' /\ ControlPair' /\ CoefPair'
  BY <1>1, <1>2, <1>3 DEF PairInv, SaveWritten, ProtocolFirst, ControlPair, CoefPair
<1> QED
  BY <1>6, <1>7, <1>8 DEF PairInv

LEMMA PairLow == TypeInv /\ OwnerInv /\ PairInv /\ Low => PairInv'
<1> SUFFICES ASSUME TypeInv, OwnerInv, PairInv, Low PROVE PairInv'
  OBVIOUS
<1>1. boot = "on" /\ boot' = "on" /\ rom' = rom
  BY DEF Low, LowBegin, LowStore, LowSave, LowSaved, Hour, LowRuns, stores, TypeInv, ControlTypes
<1>2. BootProgress'
  BY <1>1 DEF BootProgress
<1>3. userPc = "rest" /\ lowPc # "saving" => todo = <<>>
  BY <1>1 DEF OwnerInv, LowOwns
<1>4. CASE LowBegin
  <2>1. /\ lowOp = "none" /\ lowPc = "rest" /\ lowPc' = "store" /\ UNCHANGED <<DATA_MODEL_REGISTER, todo, userPc, cut>>
        /\ Head(saves')[1] = {"CONTROL_TYPE"} => Head(saves')[2] # 2
    <3>1. lowOp = "none" /\ lowPc = "rest"
      BY <1>4 DEF LowBegin, TypeInv, ControlTypes, LowShape, SaveShape
    <3>2. \A S, v : Head(<<<<S, v>>>>)[1] = S /\ Head(<<<<S, v>>>>)[2] = v
      OBVIOUS
    <3>3. \A S, v, T, w : Head(<<<<S, v>>, <<T, w>>>>)[1] = S
      OBVIOUS
    <3>4. \/ saves' = <<<<{"MB_PROTOCOL_TYPE"}, 2>>, <<{"CONTROL_TYPE"}, 2>>>>
          \/ saves' = <<<<{"CONTROL_TYPE"}, 0>>>>
          \/ saves' = <<<<{"SETTING1"}, 2>>>>
          \/ saves' = <<<<{"COOF_I3_low", "COOF_I3_high"}, 2>>>>
          \/ saves' = <<<<{"RECORD_INDEX"}, 0>>, <<{"RECORD_COUNT"}, 0>>>>
      BY <1>4 DEF LowBegin, ControlSaves
    <3>5. Head(saves')[1] = {"CONTROL_TYPE"} => Head(saves')[2] # 2
      BY <3>2, <3>3, <3>4
    <3> QED
      BY <1>4, <3>1, <3>5 DEF LowBegin, stores, userVars
  <2> QED
    BY <1>1, <1>2, <1>3, <2>1
    DEF PairInv, SaveInRam, SavePending, SaveWritten, ProtocolFirst, ControlPair, CoefPair
<1>5. CASE LowStore
  <2>1. /\ lowPc = "store" /\ lowPc' = "stored" /\ UNCHANGED <<todo, userPc, lowOp, saves, cut>> /\ SaveShape
        /\ interfered => interfered'
        /\ \A r \in Registers : r \in Head(saves)[1] => DATA_MODEL_REGISTER'[r] = Head(saves)[2]
    BY <1>5 DEF LowStore, userVars, TypeInv, ControlTypes, LowShape
  <2>2. SaveInRam'
    BY <2>1, SaveFacts DEF SaveInRam
  <2>3. ProtocolFirst'
    BY <1>1, <2>1 DEF PairInv, ProtocolFirst, Unfailed
  <2> QED
    BY <1>1, <1>2, <1>3, <2>1, <2>2, <2>3
    DEF PairInv, SavePending, SaveWritten, ControlPair, CoefPair
<1>6. CASE LowSave
  <2>1. /\ todo = <<>> /\ todo' = Image(DATA_MODEL_REGISTER, Head(saves)[1])
        /\ lowPc = "stored" /\ lowPc' = "saving"
        /\ UNCHANGED <<DATA_MODEL_REGISTER, userPc, lowOp, saves, cut, interfered>>
        /\ Typed(DATA_MODEL_REGISTER) /\ SaveShape
    BY <1>6 DEF LowSave, Idle, stores, userVars, history, TypeInv, StoreTypes, ControlTypes, LowShape
  <2>2. Head(saves)[1] \in SUBSET Registers /\ Head(saves)[1] # {}
    BY <2>1, SaveFacts
  <2>3. /\ \A i \in 1 .. Len(todo') : \A r \in DOMAIN todo'[i].data :
              r \in Head(saves)[1] /\ todo'[i].data[r] = DATA_MODEL_REGISTER[r]
        /\ \A r \in Head(saves)[1] : Pending(r)'
    BY <2>1, <2>2, ImageBegins
  <2>4. SaveInRam' /\ SavePending' /\ SaveWritten'
    BY <2>1, <2>3 DEF PairInv, SaveInRam, SavePending, SaveWritten
  <2>5. ProtocolFirst' /\ ControlPair' /\ CoefPair'
    BY <1>1, <2>1 DEF PairInv, ProtocolFirst, ControlPair, CoefPair, Unfailed
  <2> QED
    BY <1>2, <2>4, <2>5 DEF PairInv
<1>7. CASE LowSaved
  <2>1. /\ todo = <<>> /\ todo' = <<>> /\ lowPc = "saving" /\ lowPc' \notin {"stored", "saving"}
        /\ saves' = Tail(saves) /\ SaveShape /\ UNCHANGED <<DATA_MODEL_REGISTER, userPc, interfered>>
    BY <1>7 DEF LowSaved, Idle, stores, userVars, TypeInv, ControlTypes, LowShape
  <2>2. SaveInRam' /\ SavePending' /\ SaveWritten'
    BY <2>1 DEF SaveInRam, SavePending, SaveWritten
  <2>3. Unfailed => \A r \in Head(saves)[1] \ ResetRegisters : rom[r] = Head(saves)[2]
    BY <2>1, IdlePending DEF PairInv, SaveWritten
  <2>4. CASE Tail(saves) = <<>>
    <3>1. lowOp' = "none" /\ cut' = IF interfered THEN cut ELSE cut \ {lowOp}
      BY <1>7, <2>4 DEF LowSaved
    <3>2. lowOp \notin cut' => Unfailed
      BY <3>1 DEF Unfailed
    <3>3. \A o : o # lowOp => (o \in cut' <=> o \in cut)
      BY <3>1
    <3>4. ControlPair'
      <4>1. CASE lowOp # "control"
        BY <1>1, <3>3, <4>1 DEF PairInv, ControlPair
      <4>2. CASE lowOp = "control"
        <5> SUFFICES ASSUME Unfailed, rom["CONTROL_TYPE"] # 0
                     PROVE  rom["MB_PROTOCOL_TYPE"] = rom["CONTROL_TYPE"]
          BY <1>1, <3>2, <4>2 DEF ControlPair
        <5>1. Head(saves)[1] = {"CONTROL_TYPE"} /\ Head(saves)[2] \in {0, 2}
          <6>1. \A x : <<x>> # <<>>
            OBVIOUS
          <6>2. Tail(saves) # <<<<{"CONTROL_TYPE"}, 2>>>>
            BY <2>4, <6>1, Zenon
          <6> QED
            BY <2>1, <4>2, <6>2, SaveRegs
        <5>2. rom["CONTROL_TYPE"] = Head(saves)[2]
          BY <2>3, <5>1, PairNames
        <5> QED
          BY <4>2, <5>1, <5>2 DEF PairInv, ProtocolFirst
      <4> QED
        BY <4>1, <4>2
    <3>5. CoefPair'
      <4>1. CASE lowOp # "coef"
        BY <1>1, <2>1, <3>3, <4>1, SaveFacts DEF PairInv, CoefPair
      <4>2. CASE lowOp = "coef"
        BY <1>1, <2>1, <2>3, <3>2, <4>2, SaveRegs, PairNames DEF CoefPair
      <4> QED
        BY <4>1, <4>2
    <3>6. ProtocolFirst'
      BY <3>1 DEF ProtocolFirst
    <3> QED
      BY <1>2, <2>2, <3>4, <3>5, <3>6 DEF PairInv
  <2>5. CASE Tail(saves) # <<>>
    <3>1. UNCHANGED <<lowOp, cut>>
      BY <1>7, <2>5 DEF LowSaved
    <3>2. ProtocolFirst'
      <4> SUFFICES ASSUME lowOp = "control", Unfailed PROVE rom["MB_PROTOCOL_TYPE"] = 2
        BY <1>1, <2>1, <3>1 DEF ProtocolFirst, Unfailed
      <4>1. Head(saves)[1] = {"MB_PROTOCOL_TYPE"} /\ Head(saves)[2] = 2
        BY <2>1, <2>5, SaveRegs
      <4> QED
        BY <2>3, <4>1, PairNames
    <3>3. ControlPair' /\ CoefPair'
      BY <1>1, <3>1 DEF PairInv, ControlPair, CoefPair
    <3> QED
      BY <1>2, <2>2, <3>2, <3>3 DEF PairInv
  <2> QED
    BY <2>4, <2>5
<1>8. CASE Hour
  <2>1. /\ UNCHANGED <<todo, userPc, lowOp, saves, lowPc, cut, interfered>>
        /\ \A r \in Registers \ {"MOTO_HOURS"} : DATA_MODEL_REGISTER'[r] = DATA_MODEL_REGISTER[r]
    BY <1>8 DEF Hour, userVars, history, TypeInv, StoreTypes, Typed
  <2>2. lowPc # "rest" => \A r \in Head(saves)[1] : r \in Registers /\ r # "MOTO_HOURS"
    BY SaveFacts, SaveRegs DEF TypeInv, ControlTypes, LowShape
  <2>3. SaveInRam'
    BY <2>1, <2>2 DEF PairInv, SaveInRam
  <2>4. SavePending' /\ SaveWritten' /\ ProtocolFirst' /\ ControlPair' /\ CoefPair'
    BY <1>1, <2>1 DEF PairInv, SavePending, SaveWritten, ProtocolFirst, ControlPair, CoefPair, Unfailed, Pending
  <2> QED
    BY <1>2, <2>3, <2>4 DEF PairInv
<1> QED
  BY <1>4, <1>5, <1>6, <1>7, <1>8 DEF Low

LEMMA PairPowerLoss == TypeInv /\ PairInv /\ PowerLoss => PairInv'
<1> SUFFICES ASSUME TypeInv, PairInv, PowerLoss PROVE PairInv'
  OBVIOUS
<1>1. /\ boot' = "off" /\ lowOp' = "none" /\ lowPc' = "rest" /\ rom' = rom /\ cut \subseteq cut'
      /\ boot = "writing" => "init" \in cut'
      /\ boot # "writing" => lowOp \in cut'
      /\ DATA_MODEL_REGISTER' = [r \in Registers |-> 0]
  BY DEF PowerLoss
<1>2. lowOp # "none" => boot # "writing"
  BY DEF TypeInv, ControlTypes, LowShape, SaveShape
<1> QED
  BY <1>1, <1>2 DEF PairInv, BootProgress, SaveInRam, SavePending, SaveWritten, ProtocolFirst, ControlPair, CoefPair

LEMMA PairInvAlways == Spec => []PairInv
<1>1. PairInv /\ UNCHANGED vars => PairInv'
  BY DEF vars, stores, userVars, lowVars, history, PairInv, BootProgress, SaveInRam, SavePending,
         SaveWritten, ProtocolFirst, ControlPair, CoefPair, Unfailed, Pending
<1>2. TypeInv /\ OwnerInv /\ PairInv /\ [Next]_vars => PairInv'
  BY <1>1, PairWriteSector, PairWriteFails, PairBoot, PairUser, PairLow, PairPowerLoss DEF Next
<1> QED
  BY <1>2, PairInit, TypeInvAlways, OwnerInvAlways, PTL DEF Spec

(* Control type and protocol, and the two halves of a coefficient across two sectors, *)
(* agree in the EEPROM unless the power or a transfer failed while just they were     *)
(* saved (data_model.c:135-142, 203-210).                                             *)
THEOREM PairsWholeAlways == Spec => []PairsWhole
<1>1. PairInv => PairsWhole
  BY DEF PairInv, ControlPair, CoefPair, PairsWhole
<1> QED
  BY <1>1, PairInvAlways, PTL

-----------------------------------------------------------------------------
(* The first initialisation *)

NoBlank(f) == \A r \in Registers : f[r] # Blank

BlankInv ==
  "init" \notin cut =>
     /\ boot # "writing" => rom["VALID_CODE_ADDRES"] = Blank \/ NoBlank(rom)
     /\ boot = "on" => rom["VALID_CODE_ADDRES"] = Blank \/ NoBlank(DATA_MODEL_REGISTER)
     /\ boot = "writing" \/ rom["VALID_CODE_ADDRES"] # Blank =>
           \A i \in 1 .. Len(todo) : IsImage(todo[i]) =>
              \A r \in DOMAIN todo[i].data : todo[i].data[r] # Blank

LEMMA BlankInit == Init => BlankInv
BY PairNames DEF Init, BlankInv

LEMMA BlankWriteSector == TypeInv /\ OwnerInv /\ BlankInv /\ WriteSector => BlankInv'
<1> SUFFICES ASSUME TypeInv, OwnerInv, BlankInv, WriteSector, "init" \notin cut PROVE BlankInv'
  BY SectorWritten DEF BlankInv
<1>1. UNCHANGED <<boot, DATA_MODEL_REGISTER, cut>>
  BY SectorWritten
<1>2. ASSUME boot # "writing" PROVE rom'["VALID_CODE_ADDRES"] = rom["VALID_CODE_ADDRES"]
  <2>1. CASE userPc # "rest"
    BY <2>1, UserSector, PairNames
  <2>2. CASE userPc = "rest"
    <3>1. boot = "on" /\ lowPc = "saving" /\ SaveShape
      BY <1>2, <2>2, SectorWritten DEF TypeInv, ControlTypes, LowShape, OwnerInv, LowOwns
    <3>2. IsImage(Head(todo)) /\ DOMAIN Head(todo).data \subseteq Head(saves)[1]
      BY <2>2, <3>1, SectorWritten DEF OwnerInv, LowOwns
    <3> QED
      BY <3>1, <3>2, SectorWritten, SaveRegs, PairNames
  <2> QED
    BY <2>1, <2>2
<1>3. boot = "writing" \/ rom'["VALID_CODE_ADDRES"] # Blank =>
         \A i \in 1 .. Len(todo') : IsImage(todo'[i]) =>
            \A r \in DOMAIN todo'[i].data : todo'[i].data[r] # Blank
  BY <1>2, SectorWritten DEF BlankInv
<1>4. ASSUME boot # "writing", rom["VALID_CODE_ADDRES"] # Blank PROVE NoBlank(rom')
  <2>1. IsImage(Head(todo)) => \A r \in DOMAIN Head(todo).data : Head(todo).data[r] # Blank
    BY <1>4, SectorWritten DEF BlankInv
  <2>2. NoBlank(rom)
    BY <1>4 DEF BlankInv
  <2> QED
    BY <2>1, <2>2, SectorWritten DEF NoBlank
<1> QED
  BY <1>1, <1>2, <1>3, <1>4 DEF BlankInv, NoBlank

LEMMA BlankBoot == TypeInv /\ PairInv /\ BlankInv /\ Boot => BlankInv'
<1> SUFFICES ASSUME TypeInv, PairInv, BlankInv, Boot, "init" \notin cut PROVE BlankInv'
  BY DEF BlankInv, Boot, BootRead, BootReadFails, BootReread, BootRereadFails, history
<1>1. cut' = cut /\ rom' = rom
  BY DEF Boot, BootRead, BootReadFails, BootReread, BootRereadFails, history
<1>2. CASE BootRead /\ rom["VALID_CODE_ADDRES"] # VALID_CODE
  <2>1. boot' = "writing" /\ todo' = Image(Defaults, Registers)
    BY <1>2 DEF BootRead
  <2>2. \A i \in 1 .. Len(todo') : \A r \in DOMAIN todo'[i].data : r \in Registers /\ todo'[i].data[r] = Defaults[r]
    BY <2>1, ImageBegins, TypedDefaults, RegisterFacts
  <2> QED
    BY <2>1, <2>2, DefaultFacts DEF BlankInv
<1>3. CASE BootRead /\ rom["VALID_CODE_ADDRES"] = VALID_CODE
  <2>1. boot = "off" /\ todo' = <<>> /\ DATA_MODEL_REGISTER' = rom
    BY <1>3 DEF BootRead, TypeInv, ControlTypes
  <2>2. NoBlank(rom)
    BY <1>3, <2>1, BlankFacts DEF BlankInv, VALID_CODE
  <2> QED
    BY <1>1, <2>1, <2>2 DEF BlankInv, NoBlank
<1>4. CASE BootReadFails
  <2>1. boot = "off" /\ todo' = <<>>
    BY <1>4 DEF BootReadFails, TypeInv, ControlTypes
  <2>2. PICK got \in Prefixes : ReadFails(got)
    BY <1>4 DEF BootReadFails
  <2>3. rom["VALID_CODE_ADDRES"] = Blank \/ NoBlank(rom)
    BY <2>1 DEF BlankInv
  <2>4. boot = "off" => DATA_MODEL_REGISTER = [r \in Registers |-> 0]
    BY DEF PairInv, BootProgress
  <2>5. NoBlank(rom) => NoBlank(DATA_MODEL_REGISTER')
    BY <2>1, <2>2, <2>4, BlankFacts DEF ReadFails, NoBlank
  <2> QED
    BY <1>1, <2>1, <2>3, <2>5 DEF BlankInv, NoBlank
<1>5. CASE BootReread
  <2>1. boot = "writing" /\ todo = <<>> /\ todo' = <<>> /\ DATA_MODEL_REGISTER' = rom
    BY <1>5 DEF BootReread, Idle
  <2>2. NoBlank(rom)
    BY <2>1, DefaultFacts DEF PairInv, BootProgress, NoBlank
  <2> QED
    BY <1>1, <2>1, <2>2 DEF BlankInv, NoBlank
<1>6. CASE BootRereadFails
  <2>1. boot = "writing" /\ todo = <<>> /\ todo' = <<>>
    BY <1>6 DEF BootRereadFails, Idle
  <2>2. PICK got \in Prefixes : ReadFails(got)
    BY <1>6 DEF BootRereadFails
  <2>3. NoBlank(rom) /\ NoBlank(DATA_MODEL_REGISTER)
    BY <2>1, DefaultFacts DEF PairInv, BootProgress, NoBlank
  <2>4. NoBlank(DATA_MODEL_REGISTER')
    BY <2>2, <2>3 DEF ReadFails, NoBlank
  <2> QED
    BY <1>1, <2>1, <2>3, <2>4 DEF BlankInv, NoBlank
<1> QED
  BY <1>2, <1>3, <1>4, <1>5, <1>6 DEF Boot

LEMMA BlankUser == TypeInv /\ BlankInv /\ User => BlankInv'
<1> SUFFICES ASSUME TypeInv, BlankInv, User, "init" \notin cut PROVE BlankInv'
  BY DEF BlankInv, User, AddBegin, AddCommit, SaveBeforePowerOff, SaveResurse, UserReturns, history
<1>1. cut' = cut /\ rom' = rom /\ boot = "on" /\ boot' = "on"
  BY DEF User, AddBegin, AddCommit, SaveBeforePowerOff, SaveResurse, UserReturns, history, stores, TypeInv, ControlTypes
<1> SUFFICES ASSUME rom["VALID_CODE_ADDRES"] # Blank PROVE BlankInv'
  BY <1>1 DEF BlankInv
<1>2. CASE AddBegin
  <2>1. DATA_MODEL_REGISTER' = DATA_MODEL_REGISTER /\ todo' = Record(index') /\ index' \in Slots
    BY <1>2 DEF AddBegin, stores
  <2>2. \A i \in 1 .. Len(todo') : ~IsImage(todo'[i])
    BY <2>1, RecordFacts DEF IsImage
  <2> QED
    BY <1>1, <2>1, <2>2 DEF BlankInv, NoBlank
<1>3. CASE AddCommit
  <2> DEFINE f == [DATA_MODEL_REGISTER EXCEPT !["RECORD_INDEX"] = NextIndex(index),
                                              !["RECORD_COUNT"] = NextCount(@)]
  <2>1. Typed(f)
    BY TypedCounted DEF TypeInv, StoreTypes, ControlTypes
  <2>2. todo' = Image(f, ResetRegisters) /\ DATA_MODEL_REGISTER' = f
    BY <1>3 DEF AddCommit
  <2>3. ResetRegisters \in SUBSET Registers /\ ResetRegisters # {}
    BY RegisterFacts DEF Registers
  <2>4. NoBlank(f)
    <3>1. NextIndex(index) # Blank
      BY NextIndexFacts, SizeFacts DEF TypeInv, ControlTypes
    <3>2. DATA_MODEL_REGISTER["RECORD_COUNT"] \in 0 .. RECORD_DATA_SIZE
      BY <1>1, RegisterFacts, ValuesFacts DEF BlankInv, NoBlank, TypeInv, StoreTypes, Typed
    <3>3. NextCount(DATA_MODEL_REGISTER["RECORD_COUNT"]) # Blank
      BY <3>2, SizeFacts, BlankFacts DEF NextCount
    <3>4. \A r \in Registers : f[r] = IF r = "RECORD_INDEX" THEN NextIndex(index)
                                      ELSE IF r = "RECORD_COUNT" THEN NextCount(DATA_MODEL_REGISTER["RECORD_COUNT"])
                                      ELSE DATA_MODEL_REGISTER[r]
      BY RegisterFacts DEF TypeInv, StoreTypes, Typed
    <3> HIDE DEF f
    <3> QED
      BY <1>1, <3>1, <3>3, <3>4 DEF BlankInv, NoBlank
  <2> HIDE DEF f
  <2>5. \A i \in 1 .. Len(todo') : \A r \in DOMAIN todo'[i].data : r \in ResetRegisters /\ todo'[i].data[r] = f[r]
    BY <2>1, <2>2, <2>3, ImageBegins
  <2> QED
    BY <1>1, <2>2, <2>3, <2>4, <2>5 DEF BlankInv, NoBlank
<1>4. CASE SaveBeforePowerOff
  <2>1. todo' = Image(DATA_MODEL_REGISTER, {"MOTO_HOURS"}) /\ DATA_MODEL_REGISTER' = DATA_MODEL_REGISTER
    BY <1>4 DEF SaveBeforePowerOff, stores
  <2>2. {"MOTO_HOURS"} \in SUBSET Registers /\ {"MOTO_HOURS"} # {} /\ Typed(DATA_MODEL_REGISTER)
    BY RegisterFacts DEF TypeInv, StoreTypes
  <2>3. \A i \in 1 .. Len(todo') : \A r \in DOMAIN todo'[i].data :
           r \in {"MOTO_HOURS"} /\ todo'[i].data[r] = DATA_MODEL_REGISTER[r]
    BY <2>1, <2>2, ImageBegins
  <2> QED
    BY <1>1, <2>1, <2>2, <2>3 DEF BlankInv, NoBlank
<1>5. CASE UserReturns
  BY <1>1, <1>5 DEF UserReturns, stores, BlankInv, NoBlank
<1>6. CASE SaveResurse
  <2>1. todo' = Image(DATA_MODEL_REGISTER, {"RESURSE"}) /\ DATA_MODEL_REGISTER' = DATA_MODEL_REGISTER
    BY <1>6 DEF SaveResurse, stores
  <2>2. {"RESURSE"} \in SUBSET Registers /\ {"RESURSE"} # {} /\ Typed(DATA_MODEL_REGISTER)
    BY RegisterFacts DEF TypeInv, StoreTypes
  <2>3. \A i \in 1 .. Len(todo') : \A r \in DOMAIN todo'[i].data :
           r \in {"RESURSE"} /\ todo'[i].data[r] = DATA_MODEL_REGISTER[r]
    BY <2>1, <2>2, ImageBegins
  <2> QED
    BY <1>1, <2>1, <2>2, <2>3 DEF BlankInv, NoBlank
<1> QED
  BY <1>2, <1>3, <1>4, <1>5, <1>6 DEF User

LEMMA BlankLow == TypeInv /\ BlankInv /\ Low => BlankInv'
<1> SUFFICES ASSUME TypeInv, BlankInv, Low, "init" \notin cut' PROVE BlankInv'
  BY DEF BlankInv
<1>1. rom' = rom /\ boot = "on" /\ boot' = "on"
  BY DEF Low, LowBegin, LowStore, LowSave, LowSaved, Hour, LowRuns, stores, TypeInv, ControlTypes
<1>2. "init" \notin cut
  <2>1. CASE LowSaved
    <3>1. lowOp # "init" /\ (cut' = cut \/ cut' = cut \ {lowOp})
      BY <2>1, SaveFacts DEF LowSaved, TypeInv, ControlTypes, LowShape
    <3> QED
      BY <3>1
  <2> QED
    BY <2>1 DEF Low, LowBegin, LowStore, LowSave, Hour, history
<1> SUFFICES ASSUME rom["VALID_CODE_ADDRES"] # Blank PROVE BlankInv'
  BY <1>1, <1>2 DEF BlankInv
<1>3. CASE LowBegin
  BY <1>1, <1>2, <1>3 DEF LowBegin, stores, BlankInv, NoBlank
<1>4. CASE LowStore
  <2>1. Head(saves)[2] # Blank
    BY <1>4, SaveFacts, BlankFacts DEF LowStore, TypeInv, ControlTypes, LowShape
  <2>2. todo' = todo /\ DATA_MODEL_REGISTER' = [r \in Registers |->
               IF r \in Head(saves)[1] THEN Head(saves)[2] ELSE DATA_MODEL_REGISTER[r]]
    BY <1>4 DEF LowStore
  <2> QED
    BY <1>1, <1>2, <2>1, <2>2 DEF BlankInv, NoBlank
<1>5. CASE LowSave
  <2>1. /\ todo' = Image(DATA_MODEL_REGISTER, Head(saves)[1]) /\ DATA_MODEL_REGISTER' = DATA_MODEL_REGISTER
        /\ Typed(DATA_MODEL_REGISTER) /\ SaveShape
    BY <1>5 DEF LowSave, stores, TypeInv, StoreTypes, ControlTypes, LowShape
  <2>2. Head(saves)[1] \in SUBSET Registers /\ Head(saves)[1] # {}
    BY <2>1, SaveFacts
  <2>3. \A i \in 1 .. Len(todo') : \A r \in DOMAIN todo'[i].data :
              r \in Head(saves)[1] /\ todo'[i].data[r] = DATA_MODEL_REGISTER[r]
    BY <2>1, <2>2, ImageBegins
  <2> QED
    BY <1>1, <1>2, <2>1, <2>2, <2>3 DEF BlankInv, NoBlank
<1>6. CASE LowSaved
  BY <1>1, <1>2, <1>6 DEF LowSaved, stores, BlankInv, NoBlank
<1>7. CASE Hour
  <2>1. changes' # Blank
    <3>1. changes \in Nat /\ changes < MaxChanges /\ changes' = changes + 1
      BY <1>7, SizeFacts DEF Hour, TypeInv, HistoryTypes
    <3> QED
      BY <3>1, SizeFacts, BlankFacts
  <2>2. todo' = todo /\ \A r \in Registers : DATA_MODEL_REGISTER'[r] =
                            IF r = "MOTO_HOURS" THEN changes' ELSE DATA_MODEL_REGISTER[r]
    BY <1>7 DEF Hour, TypeInv, StoreTypes, Typed
  <2> QED
    BY <1>1, <1>2, <2>1, <2>2 DEF BlankInv, NoBlank
<1> QED
  BY <1>3, <1>4, <1>5, <1>6, <1>7 DEF Low

LEMMA BlankRest == TypeInv /\ BlankInv /\ (WriteFails \/ PowerLoss) => BlankInv'
<1> SUFFICES ASSUME TypeInv, BlankInv, WriteFails \/ PowerLoss PROVE BlankInv'
  OBVIOUS
<1>1. /\ todo' = <<>> /\ rom' = rom /\ cut \subseteq cut' /\ (boot = "writing" => "init" \in cut')
      /\ boot' = "off" \/ (boot' = boot /\ DATA_MODEL_REGISTER' = DATA_MODEL_REGISTER)
  BY DEF WriteFails, PowerLoss
<1> QED
  BY <1>1 DEF BlankInv, NoBlank

LEMMA BlankInvAlways == Spec => []BlankInv
<1>1. BlankInv /\ UNCHANGED vars => BlankInv'
  BY DEF vars, stores, history, BlankInv, NoBlank
<1>2. TypeInv /\ OwnerInv /\ PairInv /\ BlankInv /\ [Next]_vars => BlankInv'
  BY <1>1, BlankWriteSector, BlankBoot, BlankUser, BlankLow, BlankRest DEF Next
<1> QED
  BY <1>2, BlankInit, TypeInvAlways, OwnerInvAlways, PairInvAlways, PTL DEF Spec

(* A valid code in the EEPROM means that every register behind it was written, unless *)
(* the first initialisation was cut short (data_model.c:56-66).                        *)
THEOREM InitCompleteAlways == Spec => []InitComplete
<1>1. BlankInv => InitComplete
  BY BlankFacts DEF BlankInv, NoBlank, InitComplete, VALID_CODE
<1> QED
  BY <1>1, BlankInvAlways, PTL
=============================================================================
