---------------------------- MODULE Journal_proofs ----------------------------
(* The journal in the EEPROM implements Journal, and the menu shows it, for a ring of *)
(* any size, with any slots across a border of sectors, and any number of records,     *)
(* resets, power losses and failed transfers.                                          *)
EXTENDS DataModel_proofs

N == RECORD_DATA_SIZE
RomCount == rom["RECORD_COUNT"]
RomIndex == rom["RECORD_INDEX"]

(* The slot of the i-th oldest record of a ring with c records and next index x. *)
Place(c, x, i) ==
  IF c < N THEN i - 1 ELSE IF x + i - 1 < N THEN x + i - 1 ELSE x + i - 1 - N

(* The counters of a new record are on their way. *)
RingPending == userPc = "commit" /\ todo # <<>> /\ DOMAIN Head(todo).data = ResetRegisters
Writing == userPc = "record" \/ RingPending

(* A reset that has changed nothing so far. *)
NotYet == Resetting => lowPc = "store" /\ Head(saves)[1] = {"RECORD_INDEX"}

Alive(i) == i \in 1 .. RomCount /\ ~(givenUp /\ i = 1)
Slot(i) == slot[Place(RomCount, RomIndex, i)]

RingShape ==
  /\ givenUp => sound
  /\ sound => /\ RomCount \in 0 .. N /\ RomIndex \in Slots
              /\ RomCount < N => RomIndex = RomCount
              /\ givenUp => RomCount = N

RingRecords ==
  sound =>
     /\ \A i \in 1 .. N : Alive(i) =>
           /\ Slot(i).head = Slot(i).tail /\ Slot(i).head \in 1 .. added
           /\ Writing => Slot(i).head < added
     /\ \A i, j \in 1 .. N : Alive(i) /\ Alive(j) /\ i < j => Slot(i).head < Slot(j).head

(* The record that is being added goes to the next free slot, or to that of the oldest *)
(* record, which is given up with the first sector.                                     *)
RingWriting ==
  sound /\ Writing =>
     /\ index = RomIndex /\ NotYet /\ added > 0
     /\ userPc # "record" \/ todo # Record(index) =>
           slot[index].head = added /\ (RomCount = N => givenUp)
     /\ userPc # "record" \/ todo = <<>> => slot[index].tail = added

RingCommit ==
  sound /\ RingPending =>
     /\ \A r \in ResetRegisters : Head(todo).data[r] = DATA_MODEL_REGISTER[r]
     /\ DATA_MODEL_REGISTER["RECORD_INDEX"] = NextIndex(index)
     /\ DATA_MODEL_REGISTER["RECORD_COUNT"] = NextCount(RomCount)

RingInRam ==
  sound /\ boot = "on" /\ NotYet /\ ~RingPending =>
     DATA_MODEL_REGISTER["RECORD_INDEX"] = RomIndex /\ DATA_MODEL_REGISTER["RECORD_COUNT"] = RomCount

RingInv == RingShape /\ RingRecords /\ RingWriting /\ RingCommit /\ RingInRam

First  == Head(saves)[1] = {"RECORD_INDEX"}
Second == Head(saves)[1] = {"RECORD_COUNT"}

(* A reset clears the index, then the count; the ring is sound again with the second,  *)
(* if no record came between.                                                           *)
ResetSound ==
  Resetting =>
     /\ interfered => ~sound
     /\ sound /\ First /\ lowPc = "saving" => userPc = "rest" /\ todo # <<>>
     /\ sound /\ Second => lowPc = "saving" /\ (todo = <<>> \/ userPc \in {"hours", "commit"})

ResetClears ==
  Resetting /\ ~interfered =>
     /\ ~NotYet => DATA_MODEL_REGISTER["RECORD_INDEX"] = 0 /\ ~Writing
     /\ Second \/ (lowPc = "saving" /\ ~Pending("RECORD_INDEX")) => RomIndex = 0
     /\ Second /\ lowPc # "store" => DATA_MODEL_REGISTER["RECORD_COUNT"] = 0
     /\ Second /\ lowPc = "saving" /\ ~Pending("RECORD_COUNT") => RomCount = 0
     /\ userPc = "rest" => \A i \in 1 .. Len(todo) : \A r \in DOMAIN todo[i].data : todo[i].data[r] = 0

ResetInv == ResetSound /\ ResetClears

-----------------------------------------------------------------------------
(* The arithmetic of the ring *)

LEMMA SizeN == N \in Nat /\ N > 0 /\ Slots = 0 .. N - 1 /\ 0 \in Slots
BY SizeFacts DEF N

LEMMA Modulo ==
  ASSUME NEW n \in Nat, n > 0, NEW x \in Nat, x < 2 * n
  PROVE  x % n = IF x < n THEN x ELSE x - n
<1>1. CASE x < n
  BY <1>1
<1>2. CASE x >= n
  BY <1>2
<1> QED
  BY <1>1, <1>2

LEMMA PlaceFacts ==
  ASSUME NEW c \in 0 .. N, NEW x \in Slots, c < N => x = c, NEW i \in 1 .. c
  PROVE  /\ Place(c, x, i) \in Slots
         /\ Place(c, x, i) = x => c = N /\ i = 1
         /\ c = N => Place(c, x, 1) = x
         /\ c < N => Place(c, x, i) = i - 1
         /\ (x - c + N + i - 1) % N = Place(c, x, i)
<1>1. /\ Place(c, x, i) \in Slots
      /\ Place(c, x, i) = x => c = N /\ i = 1
      /\ c = N => Place(c, x, 1) = x
      /\ c < N => Place(c, x, i) = i - 1
  BY SizeN DEF Place
<1>2. CASE c < N
  <2>1. x - c + N + i - 1 = N + i - 1 /\ N + i - 1 \in Nat /\ N + i - 1 < 2 * N /\ N + i - 1 >= N
    BY <1>2, SizeN
  <2>2. (N + i - 1) % N = i - 1
    BY <2>1, SizeN, Modulo
  <2> QED
    BY <1>1, <1>2, <2>1, <2>2
<1>3. CASE c = N
  <2>1. x - c + N + i - 1 = x + i - 1 /\ x + i - 1 \in Nat /\ x + i - 1 < 2 * N
    BY <1>3, SizeN
  <2>2. (x + i - 1) % N = IF x + i - 1 < N THEN x + i - 1 ELSE x + i - 1 - N
    BY <2>1, SizeN, Modulo
  <2>3. Place(c, x, i) = IF x + i - 1 < N THEN x + i - 1 ELSE x + i - 1 - N
    BY <1>3, SizeN DEF Place
  <2> QED
    BY <1>1, <2>1, <2>2, <2>3
<1> QED
  BY <1>2, <1>3, SizeN

(* One record more, or, in a full ring, a new one for the oldest. *)
LEMMA PlaceNext ==
  ASSUME NEW c \in 0 .. N, NEW x \in Slots, c < N => x = c
  PROVE  /\ NextIndex(x) \in Slots /\ NextCount(c) \in 0 .. N
         /\ NextCount(c) < N => NextIndex(x) = NextCount(c)
         /\ c < N => /\ NextCount(c) = c + 1
                     /\ \A i \in 1 .. c : Place(c + 1, NextIndex(x), i) = Place(c, x, i)
                     /\ Place(c + 1, NextIndex(x), c + 1) = x
         /\ c = N => /\ NextCount(c) = N
                     /\ \A i \in 1 .. N - 1 : Place(N, NextIndex(x), i) = Place(N, x, i + 1)
                     /\ Place(N, NextIndex(x), N) = x
<1>1. /\ NextIndex(x) \in Slots /\ NextCount(c) \in 0 .. N
      /\ NextCount(c) < N => NextIndex(x) = NextCount(c)
      /\ c < N => NextCount(c) = c + 1
      /\ c = N => NextCount(c) = N
  BY SizeN DEF NextIndex, NextCount, N
<1>2. ASSUME c < N PROVE /\ \A i \in 1 .. c : Place(c + 1, NextIndex(x), i) = Place(c, x, i)
                         /\ Place(c + 1, NextIndex(x), c + 1) = x
  <2>1. NextIndex(x) = IF c + 1 >= N THEN 0 ELSE c + 1
    BY <1>2 DEF NextIndex, N
  <2> QED
    BY <1>2, <2>1, SizeN DEF Place
<1>3. ASSUME c = N PROVE /\ \A i \in 1 .. N - 1 : Place(N, NextIndex(x), i) = Place(N, x, i + 1)
                         /\ Place(N, NextIndex(x), N) = x
  <2>1. NextIndex(x) = IF x + 1 >= N THEN 0 ELSE x + 1
    BY DEF NextIndex, N
  <2> QED
    BY <2>1, SizeN DEF Place
<1> QED
  BY <1>1, <1>2, <1>3

-----------------------------------------------------------------------------
(* The log as a sequence *)

LogOf(c, x, sl, g) ==
  LET all == [i \in 1 .. c |-> Whole(sl[(x - c + N + i - 1) % N])]
  IN  IF g THEN Tail(all) ELSE all

Stored == [Slots -> [{"head", "tail"} -> 0 .. MaxRecords]]

LEMMA DurableLogIs ==
  DurableLog = IF sound THEN LogOf(RomCount, RomIndex, slot, givenUp) ELSE <<>>
BY DEF DurableLog, LogOf, RomCount, RomIndex, N

LEMMA LogFacts ==
  ASSUME NEW c \in 0 .. N, NEW x \in Slots, c < N => x = c, NEW sl \in Stored,
         NEW g, NEW k, k = IF g THEN 1 ELSE 0, g => c = N
  PROVE  /\ LogOf(c, x, sl, g) \in Seq(Int) /\ Len(LogOf(c, x, sl, g)) = c - k
         /\ \A j \in 1 .. c - k : LogOf(c, x, sl, g)[j] = Whole(sl[Place(c, x, j + k)])
<1> DEFINE all == [i \in 1 .. c |-> Whole(sl[(x - c + N + i - 1) % N])]
<1>1. \A i \in 1 .. c : (x - c + N + i - 1) % N = Place(c, x, i) /\ Place(c, x, i) \in Slots
  BY PlaceFacts
<1>2. \A p \in Slots : Whole(sl[p]) \in Int
  BY SizeFacts DEF Whole, Stored
<1>3. \A i \in 1 .. c : all[i] = Whole(sl[Place(c, x, i)]) /\ all[i] \in Int
  BY <1>1, <1>2
<1>4. c \in Nat
  BY SizeN
<1>5. all \in Seq(Int) /\ Len(all) = c
  BY <1>3, <1>4
<1>6. LogOf(c, x, sl, g) = IF g THEN Tail(all) ELSE all
  BY DEF LogOf
<1> HIDE DEF all
<1>7. CASE g
  <2>1. all # <<>> /\ c > 0
    BY <1>5, <1>7, SizeN, EmptySeq
  <2>2. Tail(all) \in Seq(Int) /\ Len(Tail(all)) = c - 1 /\ \A j \in 1 .. c - 1 : Tail(all)[j] = all[j + 1]
    BY <1>5, <2>1, TailFacts
  <2>3. \A j \in 1 .. c - 1 : j + 1 \in 1 .. c
    BY <1>4
  <2> QED
    BY <1>3, <1>6, <1>7, <2>2, <2>3
<1>8. CASE ~g
  <2>1. \A j \in 1 .. c : j + 0 = j
    OBVIOUS
  <2> QED
    BY <1>3, <1>4, <1>5, <1>6, <1>8, <2>1
<1> QED
  BY <1>7, <1>8

LEMMA SameSeq ==
  ASSUME NEW S, NEW s \in Seq(S), NEW t \in Seq(S), Len(s) = Len(t),
         \A i \in 1 .. Len(s) : s[i] = t[i]
  PROVE  s = t
OBVIOUS

(* What a step may do to the log. *)
LogStep == DurableLog' = DurableLog \/ Durable!Next

LEMMA DurableLogNext ==
  DurableLog' = IF sound' THEN LogOf(RomCount', RomIndex', slot', givenUp') ELSE <<>>
BY DEF DurableLog, LogOf, RomCount, RomIndex, N

LEMMA LogGone == ~sound' => LogStep
BY DurableLogNext DEF LogStep, Durable!Next, Durable!Clear

LEMMA LogEmpty ==
  ASSUME RomCount' = 0, ~givenUp'
  PROVE  LogStep
<1>1. \A x, sl : LogOf(0, x, sl, FALSE) = <<>>
  BY DEF LogOf
<1>2. \A c, x, sl, g : c = 0 /\ ~g => LogOf(c, x, sl, g) = <<>>
  BY <1>1 DEF LogOf
<1>3. LogOf(RomCount', RomIndex', slot', givenUp') = <<>>
  BY <1>2
<1>4. DurableLog' = <<>>
  BY <1>3, DurableLogNext
<1> QED
  BY <1>4 DEF LogStep, Durable!Next, Durable!Clear

LEMMA LogKept ==
  ASSUME sound' => /\ sound /\ (givenUp' <=> givenUp) /\ slot' = slot
                   /\ RomCount' = RomCount /\ RomIndex' = RomIndex
  PROVE  LogStep
<1>1. CASE ~sound'
  BY <1>1, LogGone
<1>2. CASE sound'
  <2>1. \A c, x, sl, g, h : (g <=> h) => LogOf(c, x, sl, g) = LogOf(c, x, sl, h)
    BY DEF LogOf
  <2>2. DurableLog' = DurableLog
    BY <1>2, <2>1, DurableLogIs, DurableLogNext
  <2> QED
    BY <2>2 DEF LogStep
<1> QED
  BY <1>1, <1>2

-----------------------------------------------------------------------------
(* The reset *)

LEMMA ResetNames ==
  /\ ResetRegisters = {"RECORD_INDEX", "RECORD_COUNT"} /\ "RECORD_INDEX" # "RECORD_COUNT"
  /\ "RECORD_INDEX" \in Registers /\ "RECORD_COUNT" \in Registers
  /\ {"RECORD_INDEX"} # {"RECORD_COUNT"} /\ {"MOTO_HOURS"} # ResetRegisters /\ {"RESURSE"} # ResetRegisters
  /\ \A r \in {"MOTO_HOURS", "RESURSE"} : r # "RECORD_INDEX" /\ r # "RECORD_COUNT"
  /\ ResetRegisters \intersect Sector0 = {} /\ ResetRegisters \subseteq Sector1
BY RegisterFacts DEF ResetRegisters, Sector0, Sector1

LEMMA ResetShape ==
  ASSUME TypeInv, Resetting
  PROVE  /\ SaveShape /\ lowOp = "reset" /\ lowPc # "rest" /\ boot = "on"
         /\ Head(saves)[2] = 0
         /\ \/ First /\ ~Second /\ Tail(saves) = <<<<{"RECORD_COUNT"}, 0>>>>
            \/ Second /\ ~First /\ Tail(saves) = <<>>
<1>1. SaveShape /\ lowOp = "reset" /\ lowPc # "rest" /\ boot = "on"
  BY DEF Resetting, TypeInv, ControlTypes, LowShape, SaveShape
<1> QED
  BY <1>1, SaveRegs, ResetNames DEF First, Second

LEMMA ResetInit == Init => ResetInv
BY DEF Init, ResetInv, ResetSound, ResetClears, Resetting

(* What a record's write is made of. *)
LEMMA RecordParts ==
  ASSUME NEW i \in Slots
  PROVE  \/ /\ Record(i)[1].kind = "record" /\ Record(i)[1].place = i /\ Record(i)[1].parts = {"head"}
            /\ Head(Record(i)) = Record(i)[1]
            /\ Head(Tail(Record(i))).kind = "record" /\ Head(Tail(Record(i))).place = i
            /\ Head(Tail(Record(i))).parts = {"tail"}
            /\ Tail(Record(i)) # <<>> /\ Tail(Tail(Record(i))) = <<>> /\ Tail(Record(i)) # Record(i)
         \/ /\ Record(i)[1].kind = "record" /\ Record(i)[1].place = i
            /\ Record(i)[1].parts = {"head", "tail"} /\ Head(Record(i)) = Record(i)[1]
            /\ Tail(Record(i)) = <<>>
<1>1. CASE i \in Straddling
  <2> DEFINE a == [kind |-> "record", place |-> i, parts |-> {"head"}]
             b == [kind |-> "record", place |-> i, parts |-> {"tail"}]
  <2>1. Record(i) = <<a, b>>
    BY <1>1 DEF Record
  <2>2. a.kind = "record" /\ a.place = i /\ a.parts = {"head"}
        /\ b.kind = "record" /\ b.place = i /\ b.parts = {"tail"}
    OBVIOUS
  <2> HIDE DEF a, b
  <2>3. /\ Record(i)[1] = a /\ Head(Record(i)) = a /\ Tail(Record(i)) = <<b>>
    BY <2>1
  <2>4. \A x, y : <<y>> # <<>> /\ Head(<<y>>) = y /\ Tail(<<y>>) = <<>> /\ <<x, y>> # <<y>>
    OBVIOUS
  <2> QED
    BY <2>1, <2>2, <2>3, <2>4
<1>2. CASE i \notin Straddling
  <2> DEFINE a == [kind |-> "record", place |-> i, parts |-> {"head", "tail"}]
  <2>1. Record(i) = <<a>>
    BY <1>2 DEF Record
  <2>2. a.kind = "record" /\ a.place = i /\ a.parts = {"head", "tail"}
    OBVIOUS
  <2> HIDE DEF a
  <2>3. Record(i)[1] = a /\ Head(Record(i)) = a /\ Tail(Record(i)) = <<>>
    BY <2>1
  <2> QED
    BY <2>2, <2>3
<1> QED
  BY <1>1, <1>2

(* A sector of a record is written. *)
LEMMA RecordSector ==
  ASSUME TypeInv, OwnerInv, WriteSector, userPc = "record"
  PROVE  /\ index \in Slots /\ ~IsImage(Head(todo)) /\ Head(todo).kind = "record" /\ Head(todo).place = index
         /\ \/ todo = Record(index) /\ todo' # <<>> /\ Head(todo).parts = {"head"}
            \/ todo = Record(index) /\ todo' = <<>> /\ Head(todo).parts = {"head", "tail"}
            \/ todo # Record(index) /\ todo' = <<>> /\ Head(todo).parts = {"tail"}
<1>1. index \in Slots
  BY DEF TypeInv, ControlTypes
<1>2. todo # <<>> /\ todo' = Tail(todo)
  BY SectorWritten
<1>3. todo = Record(index) \/ todo = Tail(Record(index))
  BY <1>2 DEF OwnerInv, UserOwns
<1>4. /\ Head(todo).kind = "record" /\ Head(todo).place = index
      /\ \/ todo = Record(index) /\ todo' # <<>> /\ Head(todo).parts = {"head"}
         \/ todo = Record(index) /\ todo' = <<>> /\ Head(todo).parts = {"head", "tail"}
         \/ todo # Record(index) /\ todo' = <<>> /\ Head(todo).parts = {"tail"}
  <2>1. CASE todo = Record(index)
    <3>1. Head(todo) = Head(Record(index)) /\ todo' = Tail(Record(index))
      BY <1>2, <2>1
    <3> QED
      BY <1>1, <2>1, <3>1, RecordParts
  <2>2. CASE todo = Tail(Record(index))
    <3>1. Head(todo) = Head(Tail(Record(index))) /\ todo' = Tail(Tail(Record(index)))
      BY <1>2, <2>2
    <3> QED
      BY <1>1, <1>2, <2>2, <3>1, RecordParts
  <2> QED
    BY <1>3, <2>1, <2>2
<1>5. ~IsImage(Head(todo))
  BY <1>4 DEF IsImage
<1> QED
  BY <1>1, <1>4, <1>5

(* A write of the user task that is no record: hours or resource, or the two counters. *)
LEMMA CommitSector ==
  ASSUME TypeInv, OwnerInv, WriteSector, userPc \in {"hours", "commit"}
  PROVE  /\ boot = "on" /\ todo # <<>> /\ todo' = <<>> /\ IsImage(Head(todo))
         /\ (RingPending /\ DOMAIN Head(todo).data = ResetRegisters)
              \/ (~RingPending /\ DOMAIN Head(todo).data \in {{"MOTO_HOURS"}, {"RESURSE"}})
<1>1. boot = "on" /\ todo # <<>> /\ todo' = Tail(todo) /\ todo \in Seq(Chunk)
  BY SectorWritten DEF TypeInv, ControlTypes
<1>2. /\ Len(todo) = 1 /\ IsImage(Head(todo))
      /\ userPc = "hours" => DOMAIN Head(todo).data = {"MOTO_HOURS"}
      /\ userPc = "commit" => DOMAIN Head(todo).data = {"RESURSE"} \/ DOMAIN Head(todo).data = ResetRegisters
  BY <1>1 DEF OwnerInv, UserOwns
<1>3. todo' = <<>>
  BY <1>1, <1>2, SectorWritten, EmptySeq
<1> QED
  BY <1>1, <1>2, <1>3, ResetNames DEF RingPending

(* A sector of a save: the registers of the reset only during a reset. *)
LEMMA LowSector ==
  ASSUME TypeInv, OwnerInv, WriteSector, boot = "on", userPc = "rest"
  PROVE  /\ lowPc = "saving" /\ SaveShape /\ IsImage(Head(todo))
         /\ DOMAIN Head(todo).data \subseteq Head(saves)[1]
         /\ ~Resetting => DOMAIN Head(todo).data \intersect ResetRegisters = {}
         /\ Resetting => todo' = <<>>
<1>1. /\ lowPc = "saving" /\ IsImage(Head(todo)) /\ DOMAIN Head(todo).data \subseteq Head(saves)[1]
      /\ Resetting => Len(todo) = 1
  BY SectorWritten DEF OwnerInv, LowOwns
<1>2. SaveShape
  BY <1>1 DEF TypeInv, ControlTypes, LowShape
<1>3. Resetting => todo' = <<>>
  BY <1>1, SectorWritten, EmptySeq
<1> QED
  BY <1>1, <1>2, <1>3, SaveRegs DEF Resetting

LEMMA ResetWriteSector == TypeInv /\ OwnerInv /\ ResetInv /\ WriteSector => ResetInv'
<1> SUFFICES ASSUME TypeInv, OwnerInv, ResetInv, WriteSector, Resetting PROVE ResetInv'
  BY SectorWritten DEF ResetInv, ResetSound, ResetClears, Resetting
<1>1. UNCHANGED <<DATA_MODEL_REGISTER, boot, userPc, lowOp, saves, lowPc, interfered>>
  BY SectorWritten
<1>2. (Resetting' <=> Resetting) /\ (NotYet' <=> NotYet) /\ (First' <=> First) /\ (Second' <=> Second)
  BY <1>1 DEF Resetting, NotYet, First, Second
<1>3. lowPc # "rest" /\ boot = "on" /\ ((First /\ ~Second) \/ (Second /\ ~First))
  BY ResetShape
<1>4. NotYet => lowPc = "store" /\ First
  BY DEF NotYet, First
<1>5. CASE userPc = "rest"
  <2>1. /\ lowPc = "saving" /\ IsImage(Head(todo)) /\ DOMAIN Head(todo).data \subseteq Head(saves)[1]
        /\ todo' = <<>>
    BY <1>3, <1>5, LowSector
  <2>2. sound' = ("RECORD_COUNT" \in DOMAIN Head(todo).data /\ ~interfered)
    BY <1>3, <1>5, <2>1 DEF WriteSector, IsImage
  <2>3. ResetSound'
    BY <1>1, <1>2, <2>1, <2>2, <1>3, ResetNames DEF ResetSound, First, Second
  <2>4. ~interfered => \A r \in DOMAIN Head(todo).data : Head(todo).data[r] = 0
    BY <1>5, SectorWritten DEF ResetInv, ResetClears
  <2>5. \A r : ~Pending(r)'
    BY <2>1 DEF Pending
  <2>6. \A r \in ResetRegisters : ~interfered /\ (Pending(r) \/ rom[r] = 0) => rom'[r] = 0
    <3> SUFFICES ASSUME NEW r \in ResetRegisters, ~interfered, Pending(r) \/ rom[r] = 0
                 PROVE  rom'[r] = 0
      OBVIOUS
    <3>1. r \in Registers
      BY ResetNames
    <3>2. CASE r \in DOMAIN Head(todo).data
      BY <2>1, <2>4, <3>1, <3>2, SectorWritten
    <3>3. CASE r \notin DOMAIN Head(todo).data
      BY <2>1, <2>5, <3>1, <3>3, SectorWritten
    <3> QED
      BY <3>2, <3>3
  <2>7. ResetClears'
    <3> SUFFICES ASSUME ~interfered PROVE ResetClears'
      BY <1>1 DEF ResetClears
    <3>1. ~Writing'
      BY <1>1, <1>5 DEF Writing, RingPending
    <3>2. ~NotYet => DATA_MODEL_REGISTER["RECORD_INDEX"] = 0
      BY DEF ResetInv, ResetClears
    <3>3. Pending("RECORD_INDEX") \/ rom["RECORD_INDEX"] = 0
      BY <2>1 DEF ResetInv, ResetClears, RomIndex
    <3>4. Second => Pending("RECORD_COUNT") \/ rom["RECORD_COUNT"] = 0
      BY <2>1 DEF ResetInv, ResetClears, RomCount
    <3>5. Second => DATA_MODEL_REGISTER["RECORD_COUNT"] = 0
      BY <2>1 DEF ResetInv, ResetClears
    <3> QED
      BY <1>1, <1>2, <2>1, <2>6, <3>1, <3>2, <3>3, <3>4, <3>5, ResetNames
      DEF ResetClears, RomIndex, RomCount
  <2> QED
    BY <2>3, <2>7 DEF ResetInv
<1>6. CASE userPc \in {"hours", "commit"}
  <2>1. todo # <<>> /\ todo' = <<>> /\ IsImage(Head(todo))
    BY <1>6, CommitSector
  <2>2. sound' = sound
    BY <1>3, <1>6, <2>1 DEF WriteSector, IsImage
  <2>3. ResetSound'
    BY <1>1, <1>2, <1>6, <2>1, <2>2 DEF ResetInv, ResetSound
  <2>4. ~Writing'
    BY <1>1, <1>6, <2>1 DEF Writing, RingPending
  <2>5. CASE RingPending
    <3>1. ~interfered => NotYet
      BY <2>5 DEF ResetInv, ResetClears, Writing
    <3> QED
      BY <1>1, <1>2, <1>3, <1>4, <1>6, <2>3, <3>1 DEF ResetInv, ResetClears
  <2>6. CASE ~RingPending
    <3>1. DOMAIN Head(todo).data \in {{"MOTO_HOURS"}, {"RESURSE"}}
      BY <1>6, <2>6, CommitSector
    <3>2. \A r \in ResetRegisters : rom'[r] = rom[r] /\ (Pending(r)' <=> Pending(r))
      BY <2>1, <3>1, ResetNames, SectorWritten
    <3> QED
      BY <1>1, <1>2, <1>6, <2>3, <2>4, <3>2, ResetNames DEF ResetInv, ResetClears, RomIndex, RomCount
  <2> QED
    BY <2>5, <2>6
<1>7. CASE userPc = "record"
  <2>1. ~IsImage(Head(todo)) /\ todo # <<>>
    BY <1>7, RecordSector, SectorWritten
  <2>2. sound' = sound
    BY <2>1 DEF WriteSector, IsImage
  <2>3. ResetSound'
    BY <1>1, <1>2, <1>7, <2>1, <2>2 DEF ResetInv, ResetSound
  <2>4. ~interfered => NotYet
    BY <1>7 DEF ResetInv, ResetClears, Writing
  <2> QED
    BY <1>1, <1>2, <1>3, <1>4, <1>7, <2>3, <2>4 DEF ResetInv, ResetClears
<1> QED
  BY <1>5, <1>6, <1>7 DEF TypeInv, ControlTypes

LEMMA ResetUser == TypeInv /\ OwnerInv /\ ResetInv /\ User => ResetInv'
<1> SUFFICES ASSUME TypeInv, OwnerInv, ResetInv, User, Resetting PROVE ResetInv'
  BY DEF User, AddBegin, AddCommit, SaveBeforePowerOff, SaveResurse, UserReturns, lowVars, Resetting,
         ResetInv, ResetSound, ResetClears
<1>1. todo = <<>> /\ UNCHANGED <<lowOp, saves, lowPc>>
  BY DEF User, AddBegin, AddCommit, SaveBeforePowerOff, SaveResurse, UserReturns, lowVars, Idle
<1>2. (Resetting' <=> Resetting) /\ (NotYet' <=> NotYet) /\ (First' <=> First) /\ (Second' <=> Second)
  BY <1>1 DEF Resetting, NotYet, First, Second
<1>3. lowPc # "rest" /\ ((First /\ ~Second) \/ (Second /\ ~First))
  BY ResetShape
<1>4. NotYet => lowPc = "store" /\ First
  BY DEF NotYet, First
<1>5. \A r : ~Pending(r)
  BY <1>1, IdlePending
<1>6. CASE AddBegin
  <2>1. interfered' /\ ~sound'
    BY <1>6 DEF AddBegin
  <2> QED
    BY <2>1 DEF ResetInv, ResetSound, ResetClears
<1>7. CASE AddCommit
  <2>1. userPc = "record" /\ userPc' = "commit" /\ sound' = sound /\ interfered' = interfered
    BY <1>7 DEF AddCommit, history
  <2>2. ~interfered => NotYet
    BY <2>1 DEF ResetInv, ResetClears, Writing
  <2>3. ResetSound'
    BY <1>1, <1>2, <2>1 DEF ResetInv, ResetSound
  <2>4. ResetClears'
    BY <1>1, <1>2, <1>3, <1>4, <2>1, <2>2 DEF ResetClears
  <2> QED
    BY <2>3, <2>4 DEF ResetInv
<1>8. CASE SaveBeforePowerOff
  <2>1. /\ userPc = "rest" /\ userPc' = "hours" /\ sound' = sound /\ interfered' = interfered
        /\ UNCHANGED <<DATA_MODEL_REGISTER, rom>>
    BY <1>8 DEF SaveBeforePowerOff, history, stores
  <2>2. ~Writing'
    <3>1. {"MOTO_HOURS"} \in SUBSET Sector1
      BY DEF Sector1
    <3>2. DOMAIN Head(todo').data = {"MOTO_HOURS"}
      BY <1>8, <3>1, ImageOfSector1 DEF SaveBeforePowerOff
    <3> QED
      BY <2>1, <3>2, ResetNames DEF Writing, RingPending
  <2>3. ResetSound'
    BY <1>1, <1>2, <2>1 DEF ResetInv, ResetSound
  <2>4. ResetClears'
    BY <1>1, <1>2, <1>5, <2>1, <2>2 DEF ResetInv, ResetClears, RomIndex, RomCount
  <2> QED
    BY <2>3, <2>4 DEF ResetInv
<1>9. CASE UserReturns
  <2>1. /\ userPc = "commit" /\ userPc' = "rest" /\ sound' = sound /\ interfered' = interfered
        /\ UNCHANGED <<DATA_MODEL_REGISTER, rom, todo>>
    BY <1>9 DEF UserReturns, history, stores
  <2>2. ~Writing' /\ \A r : ~Pending(r)'
    BY <1>1, <2>1 DEF Writing, RingPending, Pending
  <2>3. ResetSound'
    BY <1>1, <1>2, <2>1 DEF ResetInv, ResetSound
  <2>4. ResetClears'
    BY <1>1, <1>2, <1>5, <2>1, <2>2 DEF ResetInv, ResetClears, RomIndex, RomCount
  <2> QED
    BY <2>3, <2>4 DEF ResetInv
<1>10. CASE SaveResurse
  <2>1. /\ userPc = "hours" /\ userPc' = "commit" /\ sound' = sound /\ interfered' = interfered
        /\ UNCHANGED <<DATA_MODEL_REGISTER, rom>>
    BY <1>10 DEF SaveResurse, history, stores
  <2>2. ~Writing'
    <3>1. {"RESURSE"} \in SUBSET Sector0 /\ {"RESURSE"} # {}
      BY DEF Sector0
    <3>2. DOMAIN Head(todo').data = {"RESURSE"}
      BY <1>10, <3>1, ImageOfSector0 DEF SaveResurse
    <3> QED
      BY <2>1, <3>2, ResetNames DEF Writing, RingPending
  <2>3. ResetSound'
    BY <1>1, <1>2, <2>1 DEF ResetInv, ResetSound
  <2>4. ResetClears'
    BY <1>1, <1>2, <1>5, <2>1, <2>2 DEF ResetInv, ResetClears, RomIndex, RomCount
  <2> QED
    BY <2>3, <2>4 DEF ResetInv
<1> QED
  BY <1>6, <1>7, <1>8, <1>9, <1>10 DEF User

LEMMA ResetLow == TypeInv /\ OwnerInv /\ ResetInv /\ Low => ResetInv'
<1> SUFFICES ASSUME TypeInv, OwnerInv, ResetInv, Low, Resetting' PROVE ResetInv'
  BY DEF ResetInv, ResetSound, ResetClears
<1>1. rom' = rom
  BY DEF Low, LowBegin, LowStore, LowSave, LowSaved, Hour, stores
<1>2. userPc' = userPc /\ boot = "on"
  BY DEF Low, LowBegin, LowStore, LowSave, LowSaved, Hour, userVars, LowRuns, TypeInv, ControlTypes
<1>3. userPc = "rest" /\ lowPc # "saving" => todo = <<>>
  BY <1>2 DEF OwnerInv, LowOwns
<1>4. CASE LowBegin
  <2>1. lowPc = "rest" /\ lowPc' = "store" /\ todo' = todo /\ interfered' = FALSE
    BY <1>4 DEF LowBegin, TypeInv, ControlTypes, LowShape, SaveShape
  <2>2. First' /\ ~Second'
    <3>1. \A S, v, T, w : Head(<<<<S, v>>, <<T, w>>>>)[1] = S
      OBVIOUS
    <3>2. saves' = <<<<{"RECORD_INDEX"}, 0>>, <<{"RECORD_COUNT"}, 0>>>>
      BY <1>4 DEF LowBegin, Resetting
    <3> QED
      BY <3>1, <3>2, ResetNames DEF First, Second
  <2>3. NotYet'
    BY <2>1, <2>2 DEF NotYet, First
  <2>4. ResetSound'
    BY <2>1, <2>2 DEF ResetSound
  <2>5. ResetClears'
    BY <1>2, <1>3, <2>1, <2>2, <2>3 DEF ResetClears
  <2> QED
    BY <2>4, <2>5 DEF ResetInv
<1>5. CASE LowStore
  <2>1. /\ lowPc = "store" /\ lowPc' = "stored" /\ UNCHANGED <<todo, lowOp, saves>> /\ Resetting
        /\ interfered' = (interfered \/ userPc # "rest")
        /\ sound' = (sound /\ ~(Resetting /\ userPc # "rest"))
        /\ \A r \in Registers : DATA_MODEL_REGISTER'[r] = IF r \in Head(saves)[1] THEN Head(saves)[2] ELSE DATA_MODEL_REGISTER[r]
    BY <1>5 DEF LowStore, Resetting
  <2>2. (First' <=> First) /\ (Second' <=> Second) /\ Head(saves)[2] = 0 /\ ((First /\ ~Second) \/ (Second /\ ~First))
    BY <2>1, ResetShape DEF First, Second
  <2>3. ResetSound'
    BY <2>1, <2>2 DEF ResetInv, ResetSound
  <2>4. ASSUME ~interfered' PROVE ResetClears'
    <3>1. ~interfered /\ userPc = "rest" /\ todo = <<>>
      BY <1>3, <2>1, <2>4
    <3>2. ~Writing'
      BY <1>2, <3>1 DEF Writing, RingPending
    <3>3. DATA_MODEL_REGISTER'["RECORD_INDEX"] = 0
      <4>1. CASE First
        BY <2>1, <2>2, <4>1, ResetNames DEF First
      <4>2. CASE Second
        <5>1. ~NotYet
          BY <2>1, <2>2, <4>2 DEF NotYet, First
        <5>2. DATA_MODEL_REGISTER["RECORD_INDEX"] = 0
          BY <2>1, <3>1, <5>1 DEF ResetInv, ResetClears
        <5> QED
          BY <2>1, <4>2, <5>2, ResetNames DEF Second
      <4> QED
        BY <2>2, <4>1, <4>2
    <3>4. Second => DATA_MODEL_REGISTER'["RECORD_COUNT"] = 0
      BY <2>1, <2>2, ResetNames DEF Second
    <3>5. Second => RomIndex = 0
      BY <2>1, <3>1 DEF ResetInv, ResetClears
    <3> QED
      BY <1>1, <2>1, <2>2, <3>1, <3>2, <3>3, <3>4, <3>5 DEF ResetClears, RomIndex
  <2> QED
    BY <2>3, <2>4 DEF ResetInv, ResetClears
<1>6. CASE LowSave
  <2>1. /\ todo = <<>> /\ todo' = Image(DATA_MODEL_REGISTER, Head(saves)[1])
        /\ lowPc = "stored" /\ lowPc' = "saving" /\ userPc = "rest"
        /\ UNCHANGED <<DATA_MODEL_REGISTER, lowOp, saves, interfered, sound>>
        /\ Typed(DATA_MODEL_REGISTER) /\ Resetting
    BY <1>6 DEF LowSave, Idle, stores, history, Resetting, LowRuns, TypeInv, StoreTypes
  <2>2. (First' <=> First) /\ (Second' <=> Second) /\ SaveShape /\ ((First /\ ~Second) \/ (Second /\ ~First))
    BY <2>1, ResetShape DEF First, Second
  <2>3. Head(saves)[1] \in SUBSET Registers /\ Head(saves)[1] # {} /\ Head(saves)[1] \in SUBSET Sector1
    BY <2>2, SaveFacts, ResetNames DEF First, Second, ResetRegisters
  <2>4. /\ \A i \in 1 .. Len(todo') : \A r \in DOMAIN todo'[i].data :
              r \in Head(saves)[1] /\ todo'[i].data[r] = DATA_MODEL_REGISTER[r]
        /\ \A r \in Head(saves)[1] : Pending(r)'
    BY <2>1, <2>3, ImageBegins
  <2>5. todo' # <<>>
    <3>1. Len(todo') = 1
      BY <2>1, <2>3, ImageOfSector1
    <3>2. todo' \in Seq(Chunk)
      BY <2>1, <2>3, ImageFacts
    <3> QED
      BY <3>1, <3>2, EmptySeq
  <2>6. ~NotYet
    BY <2>1 DEF NotYet
  <2>7. ResetSound'
    BY <1>2, <2>1, <2>2, <2>5 DEF ResetInv, ResetSound
  <2>8. ASSUME ~interfered PROVE ResetClears'
    <3>1. DATA_MODEL_REGISTER["RECORD_INDEX"] = 0 /\ (Second => DATA_MODEL_REGISTER["RECORD_COUNT"] = 0 /\ RomIndex = 0)
      BY <2>1, <2>6, <2>8 DEF ResetInv, ResetClears
    <3>2. ~Writing'
      BY <1>2, <2>1 DEF Writing, RingPending
    <3>3. \A r \in Head(saves)[1] : DATA_MODEL_REGISTER[r] = 0
      BY <2>2, <3>1 DEF First, Second
    <3> QED
      BY <1>1, <2>1, <2>2, <2>4, <3>1, <3>2, <3>3 DEF ResetClears, RomIndex, RomCount, First, Second
  <2> QED
    BY <2>1, <2>7, <2>8 DEF ResetInv, ResetClears
<1>7. CASE LowSaved
  <2>1. /\ todo = <<>> /\ todo' = <<>> /\ lowPc = "saving" /\ saves' = Tail(saves)
        /\ UNCHANGED <<DATA_MODEL_REGISTER, interfered, sound>>
        /\ Resetting /\ lowPc' = "store" /\ Tail(saves) # <<>>
    BY <1>7 DEF LowSaved, Idle, stores, Resetting
  <2>2. First /\ ~Second /\ saves' = <<<<{"RECORD_COUNT"}, 0>>>>
    BY <2>1, ResetShape
  <2>3. Second' /\ ~First'
    <3>1. \A S, v : Head(<<<<S, v>>>>)[1] = S
      OBVIOUS
    <3> QED
      BY <2>2, <3>1, ResetNames DEF First, Second
  <2>4. ~NotYet /\ ~sound
    BY <2>1, <2>2 DEF NotYet, ResetInv, ResetSound
  <2>5. \A r : ~Pending(r)
    BY <2>1, IdlePending
  <2>6. ResetSound'
    BY <2>1, <2>4 DEF ResetSound
  <2>7. ASSUME ~interfered PROVE ResetClears'
    <3>1. DATA_MODEL_REGISTER["RECORD_INDEX"] = 0 /\ ~Writing /\ RomIndex = 0
      BY <2>1, <2>4, <2>5, <2>7 DEF ResetInv, ResetClears
    <3>2. ~Writing'
      BY <1>2, <2>1, <3>1 DEF Writing, RingPending
    <3> QED
      BY <1>1, <2>1, <3>1, <3>2 DEF ResetClears, RomIndex
  <2> QED
    BY <2>1, <2>6, <2>7 DEF ResetInv, ResetClears
<1>8. CASE Hour
  <2>1. /\ UNCHANGED <<todo, userPc, lowOp, saves, lowPc, interfered, sound>>
        /\ \A r \in ResetRegisters : DATA_MODEL_REGISTER'[r] = DATA_MODEL_REGISTER[r]
    BY <1>8, ResetNames DEF Hour, userVars, history, TypeInv, StoreTypes, Typed
  <2>2. /\ Resetting /\ (NotYet' <=> NotYet) /\ (First' <=> First) /\ (Second' <=> Second)
        /\ (Writing' <=> Writing) /\ \A r : Pending(r)' <=> Pending(r)
    BY <2>1 DEF Resetting, NotYet, First, Second, Writing, RingPending, Pending
  <2> QED
    BY <1>1, <2>1, <2>2, ResetNames DEF ResetInv, ResetSound, ResetClears, RomIndex, RomCount
<1> QED
  BY <1>4, <1>5, <1>6, <1>7, <1>8 DEF Low

LEMMA ResetStep == TypeInv /\ OwnerInv /\ ResetInv /\ [Next]_vars => ResetInv'
<1>1. ResetInv /\ WriteFails => ResetInv'
  BY DEF WriteFails, ResetInv, ResetSound, ResetClears
<1>2. TypeInv /\ Boot => ResetInv'
  <2>1. TypeInv /\ Boot => lowOp' = "none"
    BY DEF Boot, BootRead, BootReadFails, BootReread, BootRereadFails, lowVars, TypeInv, ControlTypes, LowShape, SaveShape
  <2> QED
    BY <2>1 DEF ResetInv, ResetSound, ResetClears, Resetting
<1>3. PowerLoss => ResetInv'
  BY DEF PowerLoss, ResetInv, ResetSound, ResetClears, Resetting
<1>4. ResetInv /\ UNCHANGED vars => ResetInv'
  BY DEF vars, stores, userVars, lowVars, history, ResetInv, ResetSound, ResetClears, Resetting, First, Second,
         NotYet, Writing, RingPending, Pending, RomIndex, RomCount
<1> QED
  BY <1>1, <1>2, <1>3, <1>4, ResetWriteSector, ResetUser, ResetLow DEF Next

LEMMA ResetInvAlways == Spec => []ResetInv
<1>1. Init => ResetInv
  BY ResetInit
<1>2. TypeInv /\ OwnerInv /\ ResetInv /\ [Next]_vars => ResetInv'
  BY ResetStep
<1> QED
  BY <1>1, <1>2, TypeInvAlways, OwnerInvAlways, PTL DEF Spec

-----------------------------------------------------------------------------
(* The ring *)

LEMMA RingInit == Init => RingInv
BY DEF Init, RingInv, RingShape, RingRecords, RingWriting, RingCommit, RingInRam

(* Nothing is claimed of a damaged ring ... *)
LEMMA RingGone == ~sound' /\ ~givenUp' => RingInv' /\ LogStep
BY LogGone DEF RingInv, RingShape, RingRecords, RingWriting, RingCommit, RingInRam

(* ... an empty one is in order ... *)
LEMMA RingEmpty ==
  ASSUME rom'["RECORD_INDEX"] = 0, rom'["RECORD_COUNT"] = 0, ~givenUp', ~Writing', RingInRam'
  PROVE  RingInv' /\ LogStep
<1>1. RomIndex' = 0 /\ RomCount' = 0
  BY DEF RomIndex, RomCount
<1>2. \A i : ~Alive(i)'
  BY <1>1 DEF Alive
<1>3. RingShape'
  BY <1>1, SizeN DEF RingShape
<1>4. RingRecords'
  BY <1>2 DEF RingRecords
<1>5. RingWriting' /\ RingCommit'
  BY DEF RingWriting, RingCommit, Writing
<1> QED
  BY <1>1, <1>3, <1>4, <1>5, LogEmpty DEF RingInv

(* ... and a step that does not touch the ring keeps it so. *)
LEMMA RingKept ==
  ASSUME RingInv,
         sound' => sound, givenUp' => givenUp /\ sound', sound' /\ givenUp => givenUp',
         sound' => /\ rom'["RECORD_INDEX"] = rom["RECORD_INDEX"]
                   /\ rom'["RECORD_COUNT"] = rom["RECORD_COUNT"]
                   /\ slot' = slot /\ added' = added,
         sound' /\ Writing' => /\ todo' = todo /\ index' = index /\ userPc' = userPc /\ NotYet'
                               /\ \A r \in ResetRegisters : DATA_MODEL_REGISTER'[r] = DATA_MODEL_REGISTER[r],
         RingInRam'
  PROVE  RingInv' /\ LogStep
<1>1. CASE ~sound'
  BY <1>1, RingGone
<1>2. CASE sound'
  <2>1. sound /\ (givenUp' <=> givenUp) /\ RomIndex' = RomIndex /\ RomCount' = RomCount /\ slot' = slot /\ added' = added
    BY <1>2 DEF RomIndex, RomCount
  <2>2. Writing' => Writing /\ (RingPending' <=> RingPending)
    BY <1>2 DEF Writing, RingPending
  <2>3. \A i : (Alive(i)' <=> Alive(i)) /\ Slot(i)' = Slot(i)
    BY <2>1 DEF Alive, Slot
  <2>4. RingShape'
    BY <2>1 DEF RingInv, RingShape
  <2>5. RingRecords'
    BY <2>1, <2>2, <2>3 DEF RingInv, RingRecords
  <2>6. RingWriting'
    BY <1>2, <2>1, <2>2 DEF RingInv, RingWriting
  <2>7. RingCommit'
    <3> SUFFICES ASSUME RingPending' PROVE RingCommit'
      BY DEF RingCommit
    <3>1. Writing'
      BY DEF Writing
    <3> QED
      BY <1>2, <2>1, <2>2, <3>1, ResetNames DEF RingInv, RingCommit
  <2>8. LogStep
    BY <2>1, LogKept
  <2> QED
    BY <2>4, <2>5, <2>6, <2>7, <2>8 DEF RingInv
<1> QED
  BY <1>1, <1>2

LEMMA RingBoot ==
  ASSUME TypeInv, OwnerInv, PairInv, RingInv, WriteSector, boot = "writing"
  PROVE  RingInv' /\ LogStep
<1>1. UNCHANGED <<boot, userPc, index, added, lowOp>> /\ userPc = "rest" /\ ~Resetting
  BY SectorWritten DEF TypeInv, ControlTypes, LowShape, SaveShape, Resetting
<1>2. ~Writing' /\ RingInRam'
  BY <1>1 DEF Writing, RingPending, RingInRam
<1>3. /\ \/ todo = <<DefaultChunk(Sector0), DefaultChunk(Sector1)>>
            /\ \A r \in Registers : rom'[r] = IF r \in Sector0 THEN Defaults[r] ELSE rom[r]
         \/ todo = <<DefaultChunk(Sector1)>> /\ Len(todo) = 1
            /\ \A r \in Registers : rom'[r] = IF r \in Sector1 THEN Defaults[r] ELSE rom[r]
  BY BootSector DEF PairInv
<1>4. CASE todo = <<DefaultChunk(Sector0), DefaultChunk(Sector1)>>
           /\ \A r \in Registers : rom'[r] = IF r \in Sector0 THEN Defaults[r] ELSE rom[r]
  <2>1. Head(todo) = DefaultChunk(Sector0) /\ Len(todo) = 2
    BY <1>4
  <2>2. IsImage(Head(todo)) /\ DOMAIN Head(todo).data = Sector0 /\ ~Ring(Head(todo).data)
    BY <2>1, DefaultChunks, ResetNames DEF Ring
  <2>3. sound' = sound /\ givenUp' = (givenUp /\ sound' /\ ~Ring(Head(todo).data)) /\ slot' = slot
    BY <1>1, <2>1, <2>2 DEF WriteSector, IsImage
  <2>4. rom'["RECORD_INDEX"] = rom["RECORD_INDEX"] /\ rom'["RECORD_COUNT"] = rom["RECORD_COUNT"]
    BY <1>4, ResetNames
  <2> QED
    BY <1>1, <1>2, <2>2, <2>3, <2>4, RingKept
<1>5. CASE todo = <<DefaultChunk(Sector1)>> /\ Len(todo) = 1
           /\ \A r \in Registers : rom'[r] = IF r \in Sector1 THEN Defaults[r] ELSE rom[r]
  <2>1. Head(todo) = DefaultChunk(Sector1)
    BY <1>5
  <2>2. IsImage(Head(todo)) /\ DOMAIN Head(todo).data = Sector1 /\ Ring(Head(todo).data)
    BY <2>1, DefaultChunks, ResetNames DEF Ring
  <2>3. givenUp' = (givenUp /\ sound' /\ ~Ring(Head(todo).data))
    BY <2>2 DEF WriteSector, IsImage
  <2>4. rom'["RECORD_INDEX"] = 0 /\ rom'["RECORD_COUNT"] = 0
    BY <1>5, ResetNames, DefaultFacts
  <2> QED
    BY <1>2, <2>2, <2>3, <2>4, RingEmpty
<1> QED
  BY <1>3, <1>4, <1>5

(* The first save of a reset takes the ring out of order, the second empties it. *)
LEMMA RingReset ==
  ASSUME TypeInv, OwnerInv, ResetInv, RingInv, WriteSector, boot = "on", userPc = "rest", Resetting
  PROVE  RingInv' /\ LogStep
<1>1. UNCHANGED <<boot, userPc, lowOp, saves, lowPc, interfered>>
  BY SectorWritten
<1>2. /\ lowPc = "saving" /\ IsImage(Head(todo)) /\ todo # <<>> /\ todo' = <<>>
      /\ DOMAIN Head(todo).data \subseteq Head(saves)[1]
  BY LowSector, SectorWritten
<1>3. /\ sound' = ("RECORD_COUNT" \in DOMAIN Head(todo).data /\ ~interfered)
      /\ givenUp' = (givenUp /\ sound' /\ ~Ring(Head(todo).data))
  BY <1>2 DEF WriteSector, IsImage
<1>4. (First /\ ~Second) \/ (Second /\ ~First)
  BY ResetShape
<1>5. CASE ~sound'
  BY <1>3, <1>5, RingGone
<1>6. CASE sound'
  <2>1. Second /\ ~interfered
    BY <1>2, <1>3, <1>4, <1>6, ResetNames DEF First
  <2>2. ~sound
    BY <1>2, <2>1 DEF ResetInv, ResetSound
  <2>3. ~givenUp'
    BY <1>3, <2>2 DEF RingInv, RingShape
  <2>4. ResetInv'
    BY ResetWriteSector
  <2>5. Resetting' /\ ~interfered' /\ Second' /\ lowPc' = "saving" /\ \A r : ~Pending(r)'
    BY <1>1, <1>2, <2>1 DEF Resetting, Second, Pending
  <2>6. RomIndex' = 0 /\ RomCount' = 0
    BY <2>4, <2>5 DEF ResetInv, ResetClears
  <2>7. ~Writing' /\ RingInRam'
    BY <1>1, <2>5 DEF Writing, RingPending, RingInRam, NotYet
  <2> QED
    BY <2>3, <2>6, <2>7, RingEmpty DEF RomIndex, RomCount
<1> QED
  BY <1>5, <1>6

LEMMA RingSave ==
  ASSUME TypeInv, OwnerInv, RingInv, WriteSector, boot = "on", userPc = "rest", ~Resetting
  PROVE  RingInv' /\ LogStep
<1>1. UNCHANGED <<DATA_MODEL_REGISTER, boot, userPc, index, added, lowOp, saves, lowPc>>
  BY SectorWritten
<1>2. IsImage(Head(todo)) /\ DOMAIN Head(todo).data \intersect ResetRegisters = {}
  BY LowSector
<1>3. /\ sound' = sound /\ slot' = slot
      /\ givenUp' = (givenUp /\ sound' /\ ~Ring(Head(todo).data)) /\ ~Ring(Head(todo).data)
  BY <1>2, ResetNames DEF WriteSector, IsImage, Ring
<1>4. rom'["RECORD_INDEX"] = rom["RECORD_INDEX"] /\ rom'["RECORD_COUNT"] = rom["RECORD_COUNT"]
  BY <1>2, ResetNames, SectorWritten
<1>5. ~Writing /\ ~Writing' /\ ~RingPending
  BY <1>1 DEF Writing, RingPending
<1>6. RingInRam'
  BY <1>1, <1>3, <1>4, <1>5 DEF RingInv, RingInRam, RomIndex, RomCount, NotYet, Resetting
<1> QED
  BY <1>1, <1>3, <1>4, <1>5, <1>6, RingKept DEF RingInv, RingShape

LEMMA RingHours ==
  ASSUME TypeInv, OwnerInv, RingInv, WriteSector, userPc \in {"hours", "commit"}, ~RingPending
  PROVE  RingInv' /\ LogStep
<1>1. UNCHANGED <<DATA_MODEL_REGISTER, boot, userPc, index, added, lowOp, saves, lowPc>>
  BY SectorWritten
<1>2. /\ boot = "on" /\ todo' = <<>> /\ IsImage(Head(todo))
      /\ DOMAIN Head(todo).data \in {{"MOTO_HOURS"}, {"RESURSE"}}
  BY CommitSector
<1>3. /\ sound' = sound /\ slot' = slot
      /\ givenUp' = (givenUp /\ sound' /\ ~Ring(Head(todo).data)) /\ ~Ring(Head(todo).data)
  BY <1>2, ResetNames DEF WriteSector, IsImage, Ring
<1>4. rom'["RECORD_INDEX"] = rom["RECORD_INDEX"] /\ rom'["RECORD_COUNT"] = rom["RECORD_COUNT"]
  BY <1>2, ResetNames, SectorWritten
<1>5. ~Writing' /\ ~RingPending'
  BY <1>1, <1>2 DEF Writing, RingPending
<1>6. RingInRam'
  BY <1>1, <1>3, <1>4, <1>5 DEF RingInv, RingInRam, RomIndex, RomCount, NotYet, Resetting
<1> QED
  BY <1>1, <1>3, <1>4, <1>5, <1>6, RingKept DEF RingInv, RingShape

(* The counters reach the EEPROM: the new record is the last one. *)
LEMMA CommitRom ==
  ASSUME TypeInv, OwnerInv, RingInv, WriteSector, RingPending, sound
  PROVE  /\ RomCount \in 0 .. N /\ RomIndex \in Slots /\ (RomCount < N => RomIndex = RomCount)
         /\ index = RomIndex /\ (RomCount = N => givenUp) /\ (RomCount < N => ~givenUp)
         /\ slot[RomIndex].head = added /\ slot[RomIndex].tail = added /\ added > 0
         /\ RomIndex' = NextIndex(RomIndex) /\ RomCount' = NextCount(RomCount)
         /\ sound' = sound /\ ~givenUp' /\ slot' = slot /\ todo' = <<>>
         /\ UNCHANGED <<DATA_MODEL_REGISTER, userPc, added>>
<1>1. userPc = "commit" /\ Writing
  BY DEF RingPending, Writing
<1>2. boot = "on" /\ todo' = <<>> /\ IsImage(Head(todo)) /\ DOMAIN Head(todo).data = ResetRegisters
  BY <1>1, CommitSector DEF RingPending
<1>3. /\ sound' = sound /\ slot' = slot
      /\ givenUp' = (givenUp /\ sound' /\ ~Ring(Head(todo).data)) /\ Ring(Head(todo).data)
  BY <1>1, <1>2 DEF WriteSector, IsImage, Ring
<1>4. \A r \in ResetRegisters : rom'[r] = DATA_MODEL_REGISTER[r]
  BY <1>2, ResetNames, SectorWritten DEF RingInv, RingCommit
<1>5. /\ DATA_MODEL_REGISTER["RECORD_INDEX"] = NextIndex(index)
      /\ DATA_MODEL_REGISTER["RECORD_COUNT"] = NextCount(RomCount)
  BY DEF RingInv, RingCommit
<1>6. /\ index = RomIndex /\ added > 0 /\ slot[index].head = added /\ slot[index].tail = added
      /\ RomCount = N => givenUp
  BY <1>1 DEF RingInv, RingWriting
<1>7. /\ RomCount \in 0 .. N /\ RomIndex \in Slots /\ (RomCount < N => RomIndex = RomCount)
      /\ RomCount < N => ~givenUp
  BY DEF RingInv, RingShape
<1>8. RomIndex' = NextIndex(RomIndex) /\ RomCount' = NextCount(RomCount)
  BY <1>4, <1>5, <1>6, ResetNames DEF RomIndex, RomCount
<1> QED
  BY <1>2, <1>3, <1>6, <1>7, <1>8, SectorWritten

(* One record more behind those of the ring, or for the oldest of them. *)
LEMMA PlaceMoves ==
  ASSUME NEW c \in 0 .. N, NEW x \in Slots, c < N => x = c,
         NEW d, d = NextCount(c), NEW y, y = NextIndex(x), NEW k, k = IF c = N THEN 1 ELSE 0
  PROVE  /\ c \in Nat /\ d \in 0 .. N /\ d \in Nat /\ k \in Nat /\ d = c + 1 - k
         /\ y \in Slots /\ (d < N => y = d)
         /\ Place(d, y, d) = x
         /\ \A i \in 1 .. d : i # d =>
               Place(d, y, i) = Place(c, x, i + k) /\ i + k \in 1 .. c /\ ~(c = N /\ i + k = 1)
<1>0. c < N => /\ d = c + 1 /\ Place(c + 1, y, c + 1) = x
               /\ \A i \in 1 .. c : Place(c + 1, y, i) = Place(c, x, i)
  BY PlaceNext
<1>1. c = N => /\ d = N /\ Place(N, y, N) = x
               /\ \A i \in 1 .. N - 1 : Place(N, y, i) = Place(N, x, i + 1)
  BY PlaceNext
<1>2. Place(d, y, d) = x /\ c \in Nat /\ d \in Nat /\ k \in Nat /\ d = c + 1 - k
  BY <1>0, <1>1, SizeN
<1>3. ASSUME NEW i \in 1 .. d, i # d
      PROVE  Place(d, y, i) = Place(c, x, i + k) /\ i + k \in 1 .. c /\ ~(c = N /\ i + k = 1)
  <2>1. CASE c < N
    <3>1. k = 0 /\ i \in 1 .. c /\ i + 0 = i
      BY <1>0, <1>2, <1>3, <2>1, SizeN
    <3> QED
      BY <1>0, <2>1, <3>1
  <2>2. CASE c = N
    <3>1. k = 1 /\ i \in 1 .. N - 1 /\ i + 1 \in 1 .. N /\ i + 1 # 1
      BY <1>1, <1>2, <1>3, <2>2, SizeN
    <3> QED
      BY <1>1, <2>2, <3>1
  <2> QED
    BY <2>1, <2>2, SizeN
<1>4. d \in 0 .. N /\ y \in Slots /\ (d < N => y = d)
  BY PlaceNext
<1> QED
  BY <1>2, <1>3, <1>4

LEMMA RingMovesOn ==
  ASSUME NEW c \in 0 .. N, NEW x \in Slots, c < N => x = c, NEW sl, NEW a \in Nat, a > 0,
         sl[x].head = a, sl[x].tail = a,
         \A i \in 1 .. c : ~(c = N /\ i = 1) =>
            /\ sl[Place(c, x, i)].head = sl[Place(c, x, i)].tail
            /\ sl[Place(c, x, i)].head \in 1 .. a /\ sl[Place(c, x, i)].head < a,
         \A i, j \in 1 .. c : ~(c = N /\ i = 1) /\ i < j =>
            sl[Place(c, x, i)].head < sl[Place(c, x, j)].head,
         NEW d, d = NextCount(c), NEW y, y = NextIndex(x)
  PROVE  /\ \A i \in 1 .. d :
               sl[Place(d, y, i)].head = sl[Place(d, y, i)].tail /\ sl[Place(d, y, i)].head \in 1 .. a
         /\ \A i, j \in 1 .. d : i < j => sl[Place(d, y, i)].head < sl[Place(d, y, j)].head
<1> DEFINE k == IF c = N THEN 1 ELSE 0
<1>1. d \in Nat /\ k \in Nat /\ Place(d, y, d) = x
  BY PlaceMoves
<1>2. \A i \in 1 .. d : i # d =>
         Place(d, y, i) = Place(c, x, i + k) /\ i + k \in 1 .. c /\ ~(c = N /\ i + k = 1)
  BY PlaceMoves
<1> HIDE DEF k
<1>4. ASSUME NEW i \in 1 .. d
      PROVE  /\ sl[Place(d, y, i)].head = sl[Place(d, y, i)].tail /\ sl[Place(d, y, i)].head \in 1 .. a
             /\ i # d => sl[Place(d, y, i)].head < a
  <2>1. CASE i = d
    <3>1. a \in 1 .. a
      OBVIOUS
    <3> QED
      BY <1>1, <2>1, <3>1
  <2>2. CASE i # d
    BY <1>2, <2>2
  <2> QED
    BY <2>1, <2>2
<1>5. ASSUME NEW i \in 1 .. d, NEW j \in 1 .. d, i < j
      PROVE  sl[Place(d, y, i)].head < sl[Place(d, y, j)].head
  <2>1. i # d /\ i + k < j + k
    BY <1>1, <1>5
  <2>2. CASE j = d
    BY <1>1, <1>4, <2>1, <2>2
  <2>3. CASE j # d
    BY <1>2, <2>1, <2>3
  <2> QED
    BY <2>2, <2>3
<1> QED
  BY <1>4, <1>5

(* What becomes of the log when the new record counts, and when its slot is written. *)
LEMMA LogMovesOn ==
  ASSUME NEW c \in 0 .. N, NEW x \in Slots, c < N => x = c, NEW sl \in Stored, NEW g, g <=> c = N,
         NEW a \in Int, sl[x].head = a, sl[x].tail = a,
         NEW d, d = NextCount(c), NEW y, y = NextIndex(x), NEW h, ~h
  PROVE  /\ LogOf(d, y, sl, h) = Append(LogOf(c, x, sl, g), a)
         /\ Len(LogOf(c, x, sl, g)) < N
<1> DEFINE k == IF c = N THEN 1 ELSE 0
           old == LogOf(c, x, sl, g)
           new == LogOf(d, y, sl, h)
<1>1. /\ c \in Nat /\ d \in 0 .. N /\ d \in Nat /\ k \in Nat /\ d = c + 1 - k
      /\ y \in Slots /\ (d < N => y = d) /\ Place(d, y, d) = x
  BY PlaceMoves
<1>2. \A i \in 1 .. d : i # d => Place(d, y, i) = Place(c, x, i + k) /\ i + k \in 1 .. c
  BY PlaceMoves
<1>3. k = IF g THEN 1 ELSE 0
  OBVIOUS
<1> HIDE DEF k
<1>4. /\ old \in Seq(Int) /\ Len(old) = c - k
      /\ \A j \in 1 .. c - k : old[j] = Whole(sl[Place(c, x, j + k)])
  BY <1>3, LogFacts
<1>5. /\ new \in Seq(Int) /\ Len(new) = d - 0
      /\ \A j \in 1 .. d - 0 : new[j] = Whole(sl[Place(d, y, j + 0)])
  <2>1. 0 = IF h THEN 1 ELSE 0
    OBVIOUS
  <2>2. h => d = N
    OBVIOUS
  <2> QED
    BY ONLY <1>1, <2>1, <2>2, LogFacts, sl \in Stored DEF new
<1>6. Whole(sl[x]) = a
  BY DEF Whole
<1> HIDE DEF old, new
<1>7. /\ Append(old, a) \in Seq(Int) /\ Len(Append(old, a)) = d
      /\ Append(old, a)[d] = a /\ \A j \in 1 .. c - k : Append(old, a)[j] = old[j]
  BY <1>1, <1>4
<1>8. ASSUME NEW j \in 1 .. d PROVE new[j] = Append(old, a)[j]
  <2>1. new[j] = Whole(sl[Place(d, y, j)])
    BY <1>1, <1>5
  <2>2. CASE j = d
    BY <1>1, <1>6, <1>7, <2>1, <2>2
  <2>3. CASE j # d
    <3>1. j \in 1 .. c - k
      BY <1>1, <2>3
    <3> QED
      BY <1>2, <1>4, <1>7, <2>1, <2>3, <3>1
  <2> QED
    BY <2>2, <2>3
<1>9. new = Append(old, a)
  <2>1. Len(new) = d
    BY <1>1, <1>5
  <2> QED
    BY <1>5, <1>7, <1>8, <2>1, SameSeq
<1>10. Len(old) < N
  BY <1>1, <1>4, SizeN
<1> QED
  BY <1>9, <1>10 DEF old, new

LEMMA LogWritten ==
  ASSUME NEW c \in 0 .. N, NEW x \in Slots, c < N => x = c, NEW sl \in Stored, NEW sm \in Stored,
         \A p \in Slots : p # x => sm[p] = sl[p],
         NEW g, g => c = N, NEW h, h <=> c = N
  PROVE  \/ LogOf(c, x, sm, h) = LogOf(c, x, sl, g)
         \/ Len(LogOf(c, x, sl, g)) = N /\ LogOf(c, x, sm, h) = Tail(LogOf(c, x, sl, g))
<1> DEFINE k == IF g THEN 1 ELSE 0
           m == IF h THEN 1 ELSE 0
           old == LogOf(c, x, sl, g)
           new == LogOf(c, x, sm, h)
<1>1. c \in Nat /\ k \in 0 .. m /\ m \in 0 .. 1 /\ (m = 1 <=> c = N)
  BY SizeN
<1>2. \A i \in 1 .. c : ~(m = 1 /\ i = 1) => Place(c, x, i) \in Slots /\ Place(c, x, i) # x
  BY PlaceFacts
<1>3. k = IF g THEN 1 ELSE 0
  OBVIOUS
<1>4. m = IF h THEN 1 ELSE 0
  OBVIOUS
<1> HIDE DEF k, m
<1>5. /\ old \in Seq(Int) /\ Len(old) = c - k
      /\ \A j \in 1 .. c - k : old[j] = Whole(sl[Place(c, x, j + k)])
  <2>1. g => c = N
    OBVIOUS
  <2> HIDE DEF new
  <2> QED
    BY ONLY <1>3, <2>1, LogFacts, c \in 0 .. N, x \in Slots, c < N => x = c, sl \in Stored DEF old
<1>6. /\ new \in Seq(Int) /\ Len(new) = c - m
      /\ \A j \in 1 .. c - m : new[j] = Whole(sm[Place(c, x, j + m)])
  BY <1>4, LogFacts
<1> HIDE DEF old, new
<1>7. \A j \in 1 .. c - m : new[j] = Whole(sl[Place(c, x, j + m)])
  <2> SUFFICES ASSUME NEW j \in 1 .. c - m PROVE new[j] = Whole(sl[Place(c, x, j + m)])
    OBVIOUS
  <2>1. j + m \in 1 .. c /\ ~(m = 1 /\ j + m = 1)
    BY <1>1
  <2>2. sm[Place(c, x, j + m)] = sl[Place(c, x, j + m)]
    BY <1>2, <2>1
  <2> QED
    BY <1>6, <2>2
<1>8. CASE k = m
  <2>1. \A j \in 1 .. c - m : new[j] = old[j]
    BY <1>5, <1>7, <1>8
  <2>2. new = old
    BY <1>5, <1>6, <1>8, <2>1, SameSeq
  <2> QED
    BY <2>2 DEF old, new
<1>9. CASE k # m
  <2>1. k = 0 /\ m = 1 /\ c = N /\ Len(old) = N /\ Len(old) > 0
    BY <1>1, <1>5, <1>9, SizeN
  <2>2. old # <<>>
    BY <1>5, <2>1, EmptySeq
  <2>3. Tail(old) \in Seq(Int) /\ Len(Tail(old)) = Len(old) - 1 /\ \A j \in 1 .. Len(old) - 1 : Tail(old)[j] = old[j + 1]
    BY <1>5, <2>2, TailFacts
  <2>4. \A j \in 1 .. c - 1 : j + 1 \in 1 .. c - 0 /\ (j + 1) + 0 = j + 1
    BY <1>1
  <2>5. \A j \in 1 .. c - 1 : old[j + 1] = Whole(sl[Place(c, x, j + 1)])
    BY <1>5, <2>1, <2>4
  <2>6. \A j \in 1 .. c - 1 : new[j] = Tail(old)[j]
    BY <1>7, <2>1, <2>3, <2>5
  <2>7. Len(new) = c - 1 /\ Len(Tail(old)) = c - 1
    BY <1>6, <2>1, <2>3
  <2>8. new = Tail(old)
    BY <1>6, <2>3, <2>6, <2>7, SameSeq
  <2> QED
    BY <2>1, <2>8 DEF old, new
<1> QED
  BY <1>8, <1>9

LEMMA RingCounters ==
  ASSUME TypeInv, OwnerInv, RingInv, WriteSector, RingPending
  PROVE  RingInv' /\ LogStep
<1>1. CASE ~sound
  <2>1. userPc = "commit"
    BY DEF RingPending
  <2>2. boot = "on" /\ IsImage(Head(todo))
    BY <2>1, CommitSector
  <2>3. sound' = sound /\ givenUp' = (givenUp /\ sound' /\ ~Ring(Head(todo).data))
    BY <2>1, <2>2 DEF WriteSector, IsImage
  <2> QED
    BY <1>1, <2>3, RingGone
<1>2. CASE sound
  <2>1. /\ RomCount \in 0 .. N /\ RomIndex \in Slots /\ (RomCount < N => RomIndex = RomCount)
        /\ index = RomIndex /\ (RomCount = N => givenUp) /\ (RomCount < N => ~givenUp)
        /\ slot[RomIndex].head = added /\ slot[RomIndex].tail = added /\ added > 0
        /\ RomIndex' = NextIndex(RomIndex) /\ RomCount' = NextCount(RomCount)
        /\ sound' = sound /\ ~givenUp' /\ slot' = slot /\ todo' = <<>>
        /\ UNCHANGED <<DATA_MODEL_REGISTER, userPc, added>>
    BY <1>2, CommitRom
  <2>2. /\ RomIndex' \in Slots /\ RomCount' \in 0 .. N
        /\ RomCount' < N => RomIndex' = RomCount'
    BY <2>1, PlaceNext
  <2>3. RingShape'
    BY <2>1, <2>2 DEF RingShape
  <2>4. ~Writing' /\ ~RingPending'
    BY <2>1 DEF Writing, RingPending
  <2>5. added \in Nat
    BY SizeFacts DEF TypeInv, ControlTypes
  <2>6. /\ \A i \in 1 .. N : Alive(i) => Slot(i).head = Slot(i).tail /\ Slot(i).head \in 1 .. added /\ Slot(i).head < added
        /\ \A i, j \in 1 .. N : Alive(i) /\ Alive(j) /\ i < j => Slot(i).head < Slot(j).head
    BY <1>2 DEF RingInv, RingRecords, Writing
  <2>7. RingRecords'
    <3>1. /\ \A i \in 1 .. RomCount : i \in 1 .. N /\ (~(RomCount = N /\ i = 1) => Alive(i))
          /\ \A j \in 1 .. RomCount : j > 1 => Alive(j)
      BY <2>1, SizeN DEF Alive
    <3>2. \A i \in 1 .. RomCount : ~(RomCount = N /\ i = 1) =>
            /\ slot[Place(RomCount, RomIndex, i)].head = slot[Place(RomCount, RomIndex, i)].tail
            /\ slot[Place(RomCount, RomIndex, i)].head \in 1 .. added
            /\ slot[Place(RomCount, RomIndex, i)].head < added
      BY <2>6, <3>1 DEF Slot
    <3>3. \A i, j \in 1 .. RomCount : ~(RomCount = N /\ i = 1) /\ i < j =>
            slot[Place(RomCount, RomIndex, i)].head < slot[Place(RomCount, RomIndex, j)].head
      BY <2>6, <3>1 DEF Slot
    <3>4. /\ \A i \in 1 .. RomCount' :
               /\ slot[Place(RomCount', RomIndex', i)].head = slot[Place(RomCount', RomIndex', i)].tail
               /\ slot[Place(RomCount', RomIndex', i)].head \in 1 .. added
          /\ \A i, j \in 1 .. RomCount' : i < j =>
               slot[Place(RomCount', RomIndex', i)].head < slot[Place(RomCount', RomIndex', j)].head
      BY <2>1, <2>5, <3>2, <3>3, RingMovesOn
    <3>5. \A i : Alive(i)' => i \in 1 .. RomCount'
      BY DEF Alive
    <3>6. \A i : Slot(i)' = slot[Place(RomCount', RomIndex', i)]
      BY <2>1 DEF Slot
    <3> QED
      BY <2>1, <2>4, <3>4, <3>5, <3>6 DEF RingRecords
  <2>8. RingWriting' /\ RingCommit'
    BY <2>4 DEF RingWriting, RingCommit
  <2>9. RingInRam'
    <3>1. /\ DATA_MODEL_REGISTER["RECORD_INDEX"] = NextIndex(index)
          /\ DATA_MODEL_REGISTER["RECORD_COUNT"] = NextCount(RomCount)
      BY <1>2 DEF RingInv, RingCommit
    <3> QED
      BY <2>1, <3>1 DEF RingInRam
  <2>10. LogStep
    <3>1. slot \in Stored /\ added \in Int /\ (givenUp <=> RomCount = N)
      <4>1. RomCount = N \/ RomCount < N
        BY <2>1, SizeN
      <4> QED
        BY <2>1, <2>5, <4>1 DEF TypeInv, StoreTypes, Stored
    <3>2. /\ LogOf(RomCount', RomIndex', slot, givenUp') = Append(LogOf(RomCount, RomIndex, slot, givenUp), added)
          /\ Len(LogOf(RomCount, RomIndex, slot, givenUp)) < N
      BY ONLY <2>1, <3>1, LogMovesOn
    <3>3. DurableLog' = Append(DurableLog, added) /\ Len(DurableLog) < N
      BY <1>2, <2>1, <3>2, DurableLogIs, DurableLogNext
    <3>4. \A j \in DOMAIN DurableLog : DurableLog[j] < added
      <4> DEFINE k == IF givenUp THEN 1 ELSE 0
      <4>1. givenUp => RomCount = N
        BY <3>1
      <4>2. /\ DurableLog \in Seq(Int) /\ Len(DurableLog) = RomCount - k
            /\ \A j \in 1 .. RomCount - k : DurableLog[j] = Whole(slot[Place(RomCount, RomIndex, j + k)])
        <5>1. k = IF givenUp THEN 1 ELSE 0
          OBVIOUS
        <5> HIDE DEF k
        <5>2. LET log == LogOf(RomCount, RomIndex, slot, givenUp)
              IN  /\ log \in Seq(Int) /\ Len(log) = RomCount - k
                  /\ \A j \in 1 .. RomCount - k : log[j] = Whole(slot[Place(RomCount, RomIndex, j + k)])
          <6>1. RomCount \in 0 .. N /\ RomIndex \in Slots /\ (RomCount < N => RomIndex = RomCount) /\ slot \in Stored
            BY <2>1, <3>1
          <6> DEFINE log == LogOf(RomCount, RomIndex, slot, givenUp)
          <6>2. log \in Seq(Int) /\ Len(log) = RomCount - k
            BY ONLY <4>1, <5>1, <6>1, LogFacts
          <6>3. \A j \in 1 .. RomCount - k : log[j] = Whole(slot[Place(RomCount, RomIndex, j + k)])
            BY ONLY <4>1, <5>1, <6>1, LogFacts
          <6> QED
            BY <6>2, <6>3
        <5> QED
          BY <1>2, <5>2, DurableLogIs
      <4>3. \A j \in 1 .. RomCount - k : j + k \in 1 .. N /\ Alive(j + k)
        BY <2>1, SizeN DEF Alive
      <4>4. \A j \in 1 .. RomCount - k : Whole(slot[Place(RomCount, RomIndex, j + k)]) < added
        BY <2>6, <4>3 DEF Slot, Whole
      <4>5. DOMAIN DurableLog = 1 .. RomCount - k
        BY <4>2
      <4> QED
        BY <4>2, <4>4, <4>5
    <3>5. added \in Records
      BY <2>1 DEF TypeInv, ControlTypes, Records
    <3> QED
      BY <3>3, <3>4, <3>5 DEF LogStep, Durable!Next, Durable!Append_, N
  <2> QED
    BY <2>3, <2>7, <2>8, <2>9, <2>10 DEF RingInv
<1> QED
  BY <1>1, <1>2

(* A sector of a record: no record that counts lies in the slot that is written. *)
LEMMA RingRecord ==
  ASSUME TypeInv, OwnerInv, RingInv, WriteSector, userPc = "record"
  PROVE  RingInv' /\ LogStep
<1>1. UNCHANGED <<DATA_MODEL_REGISTER, boot, userPc, index, added, lowOp, saves, lowPc>>
  BY SectorWritten
<1>2. /\ index \in Slots /\ ~IsImage(Head(todo)) /\ Head(todo).kind = "record" /\ Head(todo).place = index
      /\ \/ todo = Record(index) /\ todo' # <<>> /\ Head(todo).parts = {"head"}
         \/ todo = Record(index) /\ todo' = <<>> /\ Head(todo).parts = {"head", "tail"}
         \/ todo # Record(index) /\ todo' = <<>> /\ Head(todo).parts = {"tail"}
  BY RecordSector
<1>3. /\ sound' = sound /\ rom' = rom /\ givenUp' = (sound /\ RomCount = N)
      /\ slot' = [slot EXCEPT ![index] =
                     [p \in {"head", "tail"} |-> IF p \in Head(todo).parts THEN added ELSE @[p]]]
  BY <1>2 DEF WriteSector, RomCount, N
<1>4. RomCount' = RomCount /\ RomIndex' = RomIndex
  BY <1>3 DEF RomCount, RomIndex
<1>5. ~RingPending /\ ~RingPending' /\ Writing /\ Writing'
  BY <1>1 DEF RingPending, Writing
<1>6. CASE ~sound
  BY <1>3, <1>6, RingGone
<1>7. CASE sound
  <2>1. /\ RomCount \in 0 .. N /\ RomIndex \in Slots /\ (RomCount < N => RomIndex = RomCount)
        /\ givenUp => RomCount = N
    BY <1>7 DEF RingInv, RingShape
  <2>2. index = RomIndex /\ NotYet /\ added > 0
        /\ (todo # Record(index) => slot[index].head = added)
    BY <1>5, <1>7 DEF RingInv, RingWriting
  <2>3. RingShape'
    BY <1>3, <1>4, <2>1 DEF RingShape
  <2>4. \A i : Alive(i)' => Alive(i) /\ Slot(i)' = Slot(i)
    <3> SUFFICES ASSUME NEW i, Alive(i)' PROVE Alive(i) /\ Slot(i)' = Slot(i)
      OBVIOUS
    <3>1. i \in 1 .. RomCount /\ ~(RomCount = N /\ i = 1)
      BY <1>3, <1>4, <1>7 DEF Alive
    <3>2. Place(RomCount, RomIndex, i) \in Slots /\ Place(RomCount, RomIndex, i) # index
      BY <2>1, <2>2, <3>1, PlaceFacts
    <3>3. slot'[Place(RomCount, RomIndex, i)] = slot[Place(RomCount, RomIndex, i)]
      BY <1>3, <3>2 DEF TypeInv, StoreTypes
    <3> QED
      BY <1>4, <2>1, <3>1, <3>3 DEF Alive, Slot
  <2>5. RingRecords'
    BY <1>1, <1>3, <1>5, <1>7, <2>4 DEF RingInv, RingRecords
  <2>6. RingWriting'
    <3>1. \A p \in {"head", "tail"} :
             slot'[index][p] = IF p \in Head(todo).parts THEN added ELSE slot[index][p]
      BY <1>2, <1>3 DEF TypeInv, StoreTypes
    <3>2. slot'[index].head = added /\ (todo' = <<>> => slot'[index].tail = added)
      BY <1>2, <2>2, <3>1
    <3>3. NotYet'
      BY <1>1, <2>2 DEF NotYet, Resetting
    <3> QED
      BY <1>1, <1>3, <1>4, <1>7, <2>2, <3>2, <3>3 DEF RingWriting
  <2>7. RingCommit'
    BY <1>5 DEF RingCommit
  <2>8. RingInRam'
    BY <1>1, <1>3, <1>4, <1>5 DEF RingInv, RingInRam, NotYet, Resetting
  <2>9. LogStep
    <3>1. slot \in Stored /\ slot' \in Stored
      BY TypeWriteSector DEF TypeInv, StoreTypes, Stored
    <3>2. \A p \in Slots : p # RomIndex => slot'[p] = slot[p]
      BY <1>3, <2>2, <3>1 DEF Stored
    <3>3. givenUp' <=> RomCount = N
      BY <1>3, <1>7
    <3>4. \/ LogOf(RomCount, RomIndex, slot', givenUp') = LogOf(RomCount, RomIndex, slot, givenUp)
          \/ /\ Len(LogOf(RomCount, RomIndex, slot, givenUp)) = N
             /\ LogOf(RomCount, RomIndex, slot', givenUp') = Tail(LogOf(RomCount, RomIndex, slot, givenUp))
      BY <2>1, <3>1, <3>2, <3>3, LogWritten
    <3>5. DurableLog' = DurableLog \/ (Len(DurableLog) = N /\ DurableLog' = Tail(DurableLog))
      BY <1>3, <1>4, <1>7, <3>4, DurableLogIs, DurableLogNext
    <3> QED
      BY <3>5 DEF LogStep, Durable!Next, Durable!GiveUp, N
  <2> QED
    BY <2>3, <2>5, <2>6, <2>7, <2>8, <2>9 DEF RingInv
<1> QED
  BY <1>6, <1>7

LEMMA RingWriteSector == TypeInv /\ OwnerInv /\ PairInv /\ ResetInv /\ RingInv /\ WriteSector => RingInv' /\ LogStep
<1> SUFFICES ASSUME TypeInv, OwnerInv, PairInv, ResetInv, RingInv, WriteSector PROVE RingInv' /\ LogStep
  OBVIOUS
<1>1. \/ boot = "writing"
      \/ boot = "on" /\ userPc = "rest"
      \/ userPc \in {"hours", "commit"}
      \/ userPc = "record"
  BY SectorWritten DEF TypeInv, ControlTypes
<1> QED
  BY <1>1, RingBoot, RingReset, RingSave, RingHours, RingCounters, RingRecord

-----------------------------------------------------------------------------

LEMMA RingStart == TypeInv /\ PairInv /\ RingInv /\ (WriteFails \/ Boot \/ PowerLoss) => RingInv' /\ LogStep
<1> SUFFICES ASSUME TypeInv, PairInv, RingInv, WriteFails \/ Boot \/ PowerLoss PROVE RingInv' /\ LogStep
  OBVIOUS
<1>1. CASE WriteFails \/ BootReadFails
  <2>1. ~sound' /\ ~givenUp'
    BY <1>1 DEF WriteFails, BootReadFails
  <2> QED
    BY <2>1, RingGone
<1>2. CASE BootRead \/ BootReread
  <2>1. UNCHANGED <<rom, slot, userPc, index, added, sound, givenUp>>
    BY <1>2 DEF BootRead, BootReread, userVars, history
  <2>2. ~Writing'
    BY <1>2, <2>1 DEF BootRead, BootReread, Writing, RingPending, TypeInv, ControlTypes
  <2>3. boot' = "on" => DATA_MODEL_REGISTER' = rom'
    BY <1>2, <2>1 DEF BootRead, BootReread
  <2>4. RingInRam'
    BY <2>3 DEF RingInRam, RomIndex, RomCount
  <2> QED
    BY <2>1, <2>2, <2>4, RingKept DEF RingInv, RingShape
<1>3. CASE PowerLoss
  <2>1. UNCHANGED <<rom, slot, added, sound, givenUp>> /\ userPc' = "rest" /\ boot' = "off"
    BY <1>3 DEF PowerLoss
  <2>2. ~Writing' /\ RingInRam'
    BY <2>1 DEF Writing, RingPending, RingInRam
  <2> QED
    BY <2>1, <2>2, RingKept DEF RingInv, RingShape
<1>4. CASE BootRereadFails
  <2>1. /\ boot = "writing" /\ todo = <<>> /\ todo' = <<>>
        /\ UNCHANGED <<rom, slot, userPc, index, added, sound, givenUp>>
    BY <1>4 DEF BootRereadFails, Idle, userVars, history
  <2>2. ~Writing'
    BY <2>1 DEF Writing, RingPending, TypeInv, ControlTypes
  <2>3. PICK got \in Prefixes : ReadFails(got)
    BY <1>4 DEF BootRereadFails
  <2>4. sound => \A r \in Registers : rom[r] = Defaults[r] /\ DATA_MODEL_REGISTER[r] = Defaults[r]
    BY <2>1 DEF PairInv, BootProgress
  <2>5. sound => \A r \in Registers : DATA_MODEL_REGISTER'[r] = rom[r]
    BY <2>3, <2>4 DEF ReadFails
  <2>6. RingInRam'
    BY <2>1, <2>5, ResetNames DEF RingInRam, RomIndex, RomCount
  <2> QED
    BY <2>1, <2>2, <2>6, RingKept DEF RingInv, RingShape
<1> QED
  BY <1>1, <1>2, <1>3, <1>4 DEF Boot

LEMMA RingAddBegin == TypeInv /\ RingInv /\ AddBegin => RingInv' /\ LogStep
<1> SUFFICES ASSUME TypeInv, RingInv, AddBegin PROVE RingInv' /\ LogStep
  OBVIOUS
<1>1. /\ boot = "on" /\ userPc = "rest" /\ todo = <<>> /\ UNCHANGED <<rom, slot>>
      /\ index' = DATA_MODEL_REGISTER["RECORD_INDEX"] /\ index' \in Slots
      /\ todo' = Record(index') /\ added' = added + 1 /\ userPc' = "record"
      /\ sound' = (sound /\ ~Resetting) /\ givenUp' = (givenUp /\ ~Resetting)
      /\ UNCHANGED <<lowOp, saves, lowPc>>
  BY DEF AddBegin, Idle, stores, lowVars
<1>2. RomCount' = RomCount /\ RomIndex' = RomIndex
  BY <1>1 DEF RomCount, RomIndex
<1>3. ~RingPending /\ ~RingPending' /\ todo' # <<>>
  BY <1>1, RecordFacts DEF RingPending
<1>4. CASE ~sound'
  BY <1>1, <1>4, RingGone DEF RingInv, RingShape
<1>5. CASE sound'
  <2>1. sound /\ ~Resetting /\ (givenUp' <=> givenUp) /\ NotYet /\ NotYet'
    BY <1>1, <1>5 DEF NotYet, Resetting
  <2>2. \A i : (Alive(i)' <=> Alive(i)) /\ Slot(i)' = Slot(i)
    BY <1>1, <1>2, <2>1 DEF Alive, Slot
  <2>3. RingShape'
    BY <1>2, <1>5, <2>1 DEF RingInv, RingShape
  <2>4. added \in Nat
    BY SizeFacts DEF TypeInv, ControlTypes
  <2>5. RingRecords'
    BY <1>1, <2>1, <2>2, <2>4 DEF RingInv, RingRecords
  <2>6. RingWriting'
    <3>1. index' = RomIndex'
      BY <1>1, <1>2, <1>3, <2>1 DEF RingInv, RingInRam
    <3> QED
      BY <1>1, <1>3, <2>1, <2>4, <3>1 DEF RingWriting
  <2>7. RingCommit'
    BY <1>3 DEF RingCommit
  <2>8. RingInRam'
    BY <1>1, <1>2, <1>3, <2>1 DEF AddBegin, stores, RingInv, RingInRam
  <2>9. LogStep
    BY <1>1, <1>2, <2>1, LogKept
  <2> QED
    BY <2>3, <2>5, <2>6, <2>7, <2>8, <2>9 DEF RingInv
<1> QED
  BY <1>4, <1>5

LEMMA RingAddCommit == TypeInv /\ RingInv /\ AddCommit => RingInv' /\ LogStep
<1> SUFFICES ASSUME TypeInv, RingInv, AddCommit PROVE RingInv' /\ LogStep
  OBVIOUS
<1> DEFINE counted == [DATA_MODEL_REGISTER EXCEPT
                         !["RECORD_INDEX"] = NextIndex(index), !["RECORD_COUNT"] = NextCount(@)]
<1>1. /\ boot = "on" /\ userPc = "record" /\ todo = <<>> /\ userPc' = "commit"
      /\ UNCHANGED <<rom, slot, index, added, sound, givenUp, boot, lowOp, saves, lowPc>>
      /\ todo' = Image(counted, ResetRegisters) /\ DATA_MODEL_REGISTER' = counted
  BY DEF AddCommit, Idle, lowVars, history, TypeInv, ControlTypes
<1>2. RomCount' = RomCount /\ RomIndex' = RomIndex
  BY <1>1 DEF RomCount, RomIndex
<1>3. /\ counted["RECORD_INDEX"] = NextIndex(index)
      /\ counted["RECORD_COUNT"] = NextCount(DATA_MODEL_REGISTER["RECORD_COUNT"])
  BY ResetNames DEF TypeInv, StoreTypes, Typed
<1> HIDE DEF counted
<1>4. ResetRegisters \in SUBSET Sector1
  BY ResetNames
<1>5. /\ Head(todo').data = [r \in ResetRegisters |-> counted[r]]
      /\ Head(todo') = [kind |-> "image", data |-> [r \in ResetRegisters |-> counted[r]]]
      /\ Len(todo') = 1
  BY <1>1, <1>4, ImageOfSector1
<1>6. todo' # <<>>
  BY <1>5
<1>7. RingPending' /\ ~RingPending /\ Writing /\ Writing'
  BY <1>1, <1>5, <1>6 DEF RingPending, Writing
<1>8. CASE ~sound'
  BY <1>1, <1>8, RingGone DEF RingInv, RingShape
<1>9. CASE sound'
  <2>1. /\ sound /\ index = RomIndex /\ NotYet /\ added > 0
        /\ slot[index].head = added /\ (RomCount = N => givenUp) /\ slot[index].tail = added
    <3>1. todo # Record(index)
      BY <1>1, RecordFacts DEF TypeInv, ControlTypes
    <3> QED
      BY <1>1, <1>7, <1>9, <3>1 DEF RingInv, RingWriting
  <2>2. NotYet'
    BY <1>1, <2>1 DEF NotYet, Resetting
  <2>3. \A i : (Alive(i)' <=> Alive(i)) /\ Slot(i)' = Slot(i)
    BY <1>1, <1>2 DEF Alive, Slot
  <2>4. RingShape'
    BY <1>1, <1>2 DEF RingInv, RingShape
  <2>5. RingRecords'
    BY <1>1, <1>7, <2>3 DEF RingInv, RingRecords
  <2>6. RingWriting'
    BY <1>1, <1>2, <2>1, <2>2 DEF RingWriting
  <2>7. RingCommit'
    <3>1. DATA_MODEL_REGISTER["RECORD_COUNT"] = RomCount
      BY <1>1, <1>7, <2>1 DEF RingInv, RingInRam
    <3> QED
      BY <1>1, <1>2, <1>3, <1>5, <3>1 DEF RingCommit
  <2>8. RingInRam'
    BY <1>7 DEF RingInRam
  <2>9. LogStep
    BY <1>1, <1>2, LogKept
  <2> QED
    BY <2>4, <2>5, <2>6, <2>7, <2>8, <2>9 DEF RingInv
<1> QED
  BY <1>8, <1>9

LEMMA RingUser == TypeInv /\ RingInv /\ User => RingInv' /\ LogStep
<1> SUFFICES ASSUME TypeInv, RingInv, User PROVE RingInv' /\ LogStep
  OBVIOUS
<1>1. CASE SaveBeforePowerOff \/ SaveResurse \/ UserReturns
  <2>1. /\ UNCHANGED <<DATA_MODEL_REGISTER, rom, slot, added, sound, givenUp, boot, lowOp, saves, lowPc>>
        /\ ~RingPending
    BY <1>1 DEF SaveBeforePowerOff, SaveResurse, UserReturns, stores, lowVars, history, Idle, RingPending
  <2>2. ~Writing'
    <3>1. {"MOTO_HOURS"} \in SUBSET Sector1 /\ {"RESURSE"} \in SUBSET Sector0 /\ {"RESURSE"} # {}
      BY DEF Sector0, Sector1
    <3>2. SaveBeforePowerOff => DOMAIN Head(todo').data = {"MOTO_HOURS"}
      BY <3>1, ImageOfSector1 DEF SaveBeforePowerOff
    <3>3. SaveResurse => DOMAIN Head(todo').data = {"RESURSE"}
      BY <3>1, ImageOfSector0 DEF SaveResurse
    <3> QED
      BY <1>1, <3>2, <3>3, ResetNames DEF SaveBeforePowerOff, SaveResurse, UserReturns, Idle, Writing, RingPending
  <2>3. RingInRam'
    BY <2>1 DEF RingInv, RingInRam, RomIndex, RomCount, NotYet, Resetting
  <2> QED
    BY <2>1, <2>2, <2>3, RingKept DEF RingInv, RingShape
<1> QED
  BY <1>1, RingAddBegin, RingAddCommit DEF User

LEMMA RingLow == TypeInv /\ OwnerInv /\ ResetInv /\ RingInv /\ Low => RingInv' /\ LogStep
<1> SUFFICES ASSUME TypeInv, OwnerInv, ResetInv, RingInv, Low PROVE RingInv' /\ LogStep
  OBVIOUS
<1>1. UNCHANGED <<rom, slot, boot, userPc, index, added>> /\ boot = "on"
  BY DEF Low, LowBegin, LowStore, LowSave, LowSaved, Hour, stores, userVars, LowRuns, TypeInv, ControlTypes
<1>2. RomIndex' = RomIndex /\ RomCount' = RomCount
  BY <1>1 DEF RomIndex, RomCount
<1>3. givenUp => sound
  BY DEF RingInv, RingShape
<1>4. CASE LowBegin
  <2>1. /\ lowOp = "none" /\ UNCHANGED <<DATA_MODEL_REGISTER, todo, sound, givenUp>> /\ lowPc' = "store"
    BY <1>4 DEF LowBegin, stores
  <2>2. NotYet /\ NotYet'
    <3>1. \A S, v, T, w : Head(<<<<S, v>>, <<T, w>>>>)[1] = S
      OBVIOUS
    <3>2. Resetting' => saves' = <<<<{"RECORD_INDEX"}, 0>>, <<{"RECORD_COUNT"}, 0>>>>
      BY <1>4 DEF LowBegin, Resetting
    <3> QED
      BY <2>1, <3>1, <3>2 DEF NotYet, Resetting
  <2>3. RingPending' <=> RingPending
    BY <1>1, <2>1 DEF RingPending
  <2>4. RingInRam'
    BY <1>1, <1>2, <2>1, <2>2, <2>3 DEF RingInv, RingInRam
  <2> QED
    BY <1>1, <1>3, <2>1, <2>2, <2>4, RingKept
<1>5. CASE LowStore
  <2>1. /\ lowPc = "store" /\ lowPc' = "stored" /\ UNCHANGED <<todo, lowOp, saves>>
        /\ sound' = (sound /\ ~(Resetting /\ userPc # "rest")) /\ givenUp' = (givenUp /\ sound')
        /\ \A r \in Registers : DATA_MODEL_REGISTER'[r] = IF r \in Head(saves)[1] THEN Head(saves)[2] ELSE DATA_MODEL_REGISTER[r]
    BY <1>5 DEF LowStore
  <2>2. ~Resetting => \A r \in ResetRegisters : DATA_MODEL_REGISTER'[r] = DATA_MODEL_REGISTER[r]
    <3>1. SaveShape
      BY <2>1 DEF TypeInv, ControlTypes, LowShape
    <3> QED
      BY <2>1, <3>1, SaveRegs, ResetNames DEF Resetting
  <2>3. /\ (RingPending' <=> RingPending) /\ (Resetting' <=> Resetting)
        /\ Resetting => ~NotYet'
        /\ ~Resetting => NotYet /\ NotYet'
    BY <1>1, <2>1 DEF RingPending, NotYet, Resetting
  <2>4. RingInRam'
    BY <1>1, <1>2, <2>1, <2>2, <2>3, ResetNames DEF RingInv, RingInRam
  <2>5. Writing' => userPc # "rest"
    BY <1>1 DEF Writing, RingPending
  <2> QED
    BY <1>1, <1>3, <2>1, <2>2, <2>3, <2>4, <2>5, RingKept
<1>6. CASE LowSave
  <2>1. /\ todo = <<>> /\ lowPc' = "saving" /\ userPc = "rest"
        /\ UNCHANGED <<DATA_MODEL_REGISTER, lowOp, saves, sound, givenUp>>
    BY <1>6 DEF LowSave, Idle, stores, history, LowRuns
  <2>2. ~Writing' /\ ~RingPending
    BY <1>1, <2>1 DEF Writing, RingPending
  <2>3. NotYet' => NotYet
    BY <2>1 DEF NotYet, Resetting
  <2>4. RingInRam'
    BY <1>1, <1>2, <2>1, <2>2, <2>3 DEF RingInv, RingInRam
  <2> QED
    BY <1>1, <1>3, <2>1, <2>2, <2>4, RingKept
<1>7. CASE LowSaved
  <2>1. /\ todo = <<>> /\ lowPc = "saving" /\ saves' = Tail(saves) /\ userPc = "rest"
        /\ UNCHANGED <<DATA_MODEL_REGISTER, todo, sound, givenUp, interfered>>
    BY <1>7 DEF LowSaved, Idle, stores, LowRuns
  <2>2. ~Writing' /\ ~RingPending
    BY <1>1, <2>1 DEF Writing, RingPending
  <2>3. sound /\ Resetting => DATA_MODEL_REGISTER["RECORD_INDEX"] = RomIndex /\ DATA_MODEL_REGISTER["RECORD_COUNT"] = RomCount
    <3> SUFFICES ASSUME sound, Resetting
                 PROVE  DATA_MODEL_REGISTER["RECORD_INDEX"] = RomIndex /\ DATA_MODEL_REGISTER["RECORD_COUNT"] = RomCount
      OBVIOUS
    <3>1. ~interfered /\ ~First /\ ~NotYet
      BY <2>1 DEF ResetInv, ResetSound, NotYet
    <3>2. Second
      BY <3>1, ResetShape
    <3>3. \A r : ~Pending(r)
      BY <2>1, IdlePending
    <3> QED
      BY <2>1, <3>1, <3>2, <3>3 DEF ResetInv, ResetClears
  <2>4. ~Resetting => NotYet
    BY DEF NotYet
  <2>5. RingInRam'
    BY <1>1, <1>2, <2>1, <2>2, <2>3, <2>4 DEF RingInv, RingInRam
  <2> QED
    BY <1>1, <1>3, <2>1, <2>2, <2>5, RingKept
<1>8. CASE Hour
  <2>1. /\ UNCHANGED <<todo, lowOp, saves, lowPc, sound, givenUp>>
        /\ \A r \in ResetRegisters : DATA_MODEL_REGISTER'[r] = DATA_MODEL_REGISTER[r]
    BY <1>8, ResetNames DEF Hour, userVars, history, TypeInv, StoreTypes, Typed
  <2>2. (RingPending' <=> RingPending) /\ (NotYet' <=> NotYet) /\ (Writing' <=> Writing)
    BY <1>1, <2>1 DEF RingPending, NotYet, Resetting, Writing
  <2>3. RingInRam'
    BY <1>1, <1>2, <2>1, <2>2, ResetNames DEF RingInv, RingInRam
  <2>4. sound /\ Writing => NotYet
    BY DEF RingInv, RingWriting
  <2> QED
    BY <1>1, <1>3, <2>1, <2>2, <2>3, <2>4, RingKept
<1> QED
  BY <1>4, <1>5, <1>6, <1>7, <1>8 DEF Low

LEMMA RingStutter == RingInv /\ UNCHANGED vars => RingInv' /\ LogStep
<1> SUFFICES ASSUME RingInv, UNCHANGED vars PROVE RingInv' /\ LogStep
  OBVIOUS
<1>1. UNCHANGED <<DATA_MODEL_REGISTER, rom, slot, boot, todo, userPc, index, added, lowOp, saves, lowPc, sound, givenUp>>
  BY DEF vars, stores, userVars, lowVars, history
<1>2. (RingPending' <=> RingPending) /\ (NotYet' <=> NotYet) /\ (Writing' <=> Writing)
  BY <1>1 DEF RingPending, NotYet, Resetting, Writing
<1>3. RingInRam'
  BY <1>1, <1>2 DEF RingInv, RingInRam, RomIndex, RomCount
<1>4. sound /\ Writing => NotYet
  BY DEF RingInv, RingWriting
<1>5. givenUp => sound
  BY DEF RingInv, RingShape
<1> QED
  BY <1>1, <1>2, <1>3, <1>4, <1>5, RingKept

LEMMA RingStep == TypeInv /\ OwnerInv /\ PairInv /\ ResetInv /\ RingInv /\ [Next]_vars => RingInv' /\ LogStep
BY RingWriteSector, RingStart, RingUser, RingLow, RingStutter DEF Next

LEMMA RingInvAlways == Spec => []RingInv
<1>1. Init => RingInv
  BY RingInit
<1>2. TypeInv /\ OwnerInv /\ PairInv /\ ResetInv /\ RingInv /\ [Next]_vars => RingInv'
  BY RingStep
<1> QED
  BY <1>1, <1>2, TypeInvAlways, OwnerInvAlways, PairInvAlways, ResetInvAlways, PTL DEF Spec

-----------------------------------------------------------------------------
(* The theorems *)

LEMMA LogStart == Init => Durable!Init
BY DurableLogIs DEF Init, Durable!Init

LEMMA LogNext == TypeInv /\ OwnerInv /\ PairInv /\ ResetInv /\ RingInv /\ [Next]_vars => [Durable!Next]_DurableLog
BY RingStep DEF LogStep

(* The ring of slots, the two counters and the writes of vADDRecord and of the reset, *)
(* with power and transfers that fail between any two sectors, amount to a bounded    *)
(* list of whole records (data_model.c:290-316): whatever fails, a restart finds the  *)
(* list as it was, without its oldest record if it was full, or with the new one.     *)
THEOREM Implemented == Spec => Implements
<1>1. Init => Durable!Init
  BY LogStart
<1>2. TypeInv /\ OwnerInv /\ PairInv /\ ResetInv /\ RingInv /\ [Next]_vars => [Durable!Next]_DurableLog
  BY LogNext
<1> QED
  BY <1>1, <1>2, TypeInvAlways, OwnerInvAlways, PairInvAlways, ResetInvAlways, RingInvAlways, PTL
  DEF Spec, Implements, Durable!Spec

(* The log, record by record. *)
LEMMA LogRecords ==
  ASSUME TypeInv, RingInv, sound, NEW k, k = IF givenUp THEN 1 ELSE 0
  PROVE  /\ RomCount \in 0 .. N /\ RomIndex \in Slots /\ (RomCount < N => RomIndex = RomCount)
         /\ DurableLog \in Seq(Int) /\ Len(DurableLog) = RomCount - k /\ RomCount - k \in 0 .. N
         /\ \A j \in 1 .. RomCount - k :
               /\ DurableLog[j] = Whole(slot[Place(RomCount, RomIndex, j + k)])
               /\ DurableLog[j] \in Records
<1>1. /\ RomCount \in 0 .. N /\ RomIndex \in Slots /\ (RomCount < N => RomIndex = RomCount)
      /\ slot \in Stored /\ (givenUp => RomCount = N)
  BY DEF RingInv, RingShape, TypeInv, StoreTypes, Stored
<1> DEFINE log == LogOf(RomCount, RomIndex, slot, givenUp)
<1>2. log \in Seq(Int) /\ Len(log) = RomCount - k
  BY ONLY <1>1, k = IF givenUp THEN 1 ELSE 0, LogFacts
<1>3. \A j \in 1 .. RomCount - k : log[j] = Whole(slot[Place(RomCount, RomIndex, j + k)])
  BY ONLY <1>1, k = IF givenUp THEN 1 ELSE 0, LogFacts
<1>4. k \in 0 .. 1 /\ RomCount - k \in 0 .. N
  BY <1>1, SizeN
<1>5. \A j \in 1 .. RomCount - k : j + k \in 1 .. N /\ Alive(j + k)
  BY <1>1, <1>4, SizeN DEF Alive
<1>6. \A j \in 1 .. RomCount - k : Whole(slot[Place(RomCount, RomIndex, j + k)]) \in 1 .. added
  BY <1>5 DEF RingInv, RingRecords, Slot, Whole
<1>7. 1 .. added \subseteq Records
  BY SizeFacts DEF Records, TypeInv, ControlTypes
<1>8. DurableLog = log
  BY DurableLogIs
<1> QED
  BY <1>1, <1>2, <1>3, <1>4, <1>6, <1>7, <1>8

(* What a restart finds is never more than the ring holds, and every entry is a       *)
(* record that was added: no torn record counts (data_model.c:290-316).               *)
THEOREM LogIsTyped == Spec => []Durable!TypeOK
<1>1. TypeInv /\ RingInv => Durable!TypeOK
  <2> SUFFICES ASSUME TypeInv, RingInv PROVE DurableLog \in Seq(Records) /\ Len(DurableLog) <= N
    BY DEF Durable!TypeOK, N
  <2>1. CASE ~sound
    BY <2>1, DurableLogIs, SizeN
  <2>2. CASE sound
    <3> DEFINE k == IF givenUp THEN 1 ELSE 0
    <3>1. /\ DurableLog \in Seq(Int) /\ Len(DurableLog) = RomCount - k /\ RomCount - k \in 0 .. N
          /\ \A j \in 1 .. RomCount - k : DurableLog[j] \in Records
      BY <2>2, LogRecords
    <3> HIDE DEF k
    <3>2. \A j \in 1 .. Len(DurableLog) : DurableLog[j] \in Records
      BY <3>1
    <3>3. \A s \in Seq(Int) : (\A j \in 1 .. Len(s) : s[j] \in Records) => s \in Seq(Records)
      OBVIOUS
    <3>4. Len(DurableLog) <= N
      BY <3>1, SizeN
    <3> QED
      BY <3>1, <3>2, <3>3, <3>4
  <2> QED
    BY <2>1, <2>2
<1> QED
  BY <1>1, TypeInvAlways, RingInvAlways, PTL

(* What the menu shows is the log: vGetRecord (data_model.c:244-286) shows every      *)
(* record under its number until the ring has filled, then the oldest one.            *)
THEOREM ShownIsJournalAlways == Spec => []ShownIsJournal
<1>1. TypeInv /\ RingInv => ShownIsJournal
  <2> SUFFICES ASSUME TypeInv, RingInv, sound, boot = "on", userPc = "rest", ~Resetting,
                      NEW addr \in 0 .. DATA_MODEL_REGISTER["RECORD_COUNT"] - 1
               PROVE  /\ ShownSlot(addr) \in Slots
                      /\ IF DATA_MODEL_REGISTER["RECORD_COUNT"] < RECORD_DATA_SIZE
                         THEN Whole(slot[ShownSlot(addr)]) = DurableLog[addr + 1]
                         ELSE ~givenUp => Whole(slot[ShownSlot(addr)]) = DurableLog[1]
    BY DEF ShownIsJournal
  <2>1. DATA_MODEL_REGISTER["RECORD_INDEX"] = RomIndex /\ DATA_MODEL_REGISTER["RECORD_COUNT"] = RomCount
    BY DEF RingInv, RingInRam, NotYet, RingPending
  <2> DEFINE k == IF givenUp THEN 1 ELSE 0
  <2>2. /\ RomCount \in 0 .. N /\ RomIndex \in Slots /\ (RomCount < N => RomIndex = RomCount)
        /\ \A j \in 1 .. RomCount - k : DurableLog[j] = Whole(slot[Place(RomCount, RomIndex, j + k)])
    BY LogRecords
  <2>3. givenUp => RomCount = N
    BY DEF RingInv, RingShape
  <2>4. ~givenUp => k = 0
    OBVIOUS
  <2> HIDE DEF k
  <2>5. CASE RomCount < N
    <3>1. ShownSlot(addr) = addr /\ addr \in Slots
      BY <2>1, <2>2, <2>5, SizeN DEF ShownSlot
    <3>2. k = 0 /\ addr + 1 \in 1 .. RomCount - k /\ addr + 1 + k = addr + 1
      BY <2>1, <2>2, <2>3, <2>4, <2>5, SizeN
    <3>3. DurableLog[addr + 1] = Whole(slot[Place(RomCount, RomIndex, addr + 1)])
      BY <2>2, <3>2
    <3>4. Place(RomCount, RomIndex, addr + 1) = addr
      BY <2>5, <3>2 DEF Place
    <3> QED
      BY <2>1, <2>5, <3>1, <3>3, <3>4 DEF N
  <2>6. CASE RomCount = N
    <3>1. ShownSlot(addr) = RomIndex
      BY <2>1, <2>2, <2>6, SizeN DEF ShownSlot
    <3>2. ~givenUp => DurableLog[1] = Whole(slot[Place(N, RomIndex, 1)])
      BY <2>2, <2>4, <2>6, SizeN
    <3>3. Place(N, RomIndex, 1) = RomIndex
      BY <2>2, SizeN DEF Place
    <3> QED
      BY <2>1, <2>2, <2>6, <3>1, <3>2, <3>3 DEF N
  <2> QED
    BY <2>2, <2>5, <2>6, SizeN
<1> QED
  BY <1>1, TypeInvAlways, RingInvAlways, PTL
=============================================================================
