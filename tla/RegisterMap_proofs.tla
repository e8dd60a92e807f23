-------------------------- MODULE RegisterMap_proofs --------------------------
(* Proofs about the function handlers and the register map: for every set of     *)
(* requests, every offset and number of device registers.                        *)
EXTENDS RegisterMap, TLAPS

-----------------------------------------------------------------------------
(* Arithmetic of 16 and 8 bits *)

LEMMA Modulus ==
  ASSUME NEW k \in Int, k > 0, NEW x \in Int, x >= 0, x < k
  PROVE  /\ x < k - 1 => (x + 1) % k = x + 1
         /\ x = k - 1 => (x + 1) % k = 0
         /\ (((x + 1) % k) - 1) % k = x
OBVIOUS

LEMMA InRange ==
  /\ \A a : a \in USHORT <=> a \in Int /\ a >= 0 /\ a <= 65535
  /\ \A a : a \in UCHAR <=> a \in Int /\ a >= 0 /\ a <= 255
  /\ \A a \in Int : a >= 0 /\ a <= 2000 => a \in USHORT
<1>1. USHRT_MAX \in Int /\ UCHAR_MAX \in Int
  BY DEF USHRT_MAX, UCHAR_MAX
<1>2. \A a : a \in USHORT <=> a \in Int /\ a >= 0 /\ a <= USHRT_MAX
  BY <1>1 DEF USHORT
<1>3. \A a : a \in UCHAR <=> a \in Int /\ a >= 0 /\ a <= UCHAR_MAX
  BY <1>1 DEF UCHAR
<1>4. \A a \in Int : a <= 2000 => a <= 65535
  OBVIOUS
<1> QED
  BY <1>2, <1>3, <1>4 DEF USHRT_MAX, UCHAR_MAX

LEMMA Increment ==
  ASSUME NEW a \in USHORT
  PROVE  /\ a \in Int /\ a >= 0 /\ a <= 65535
         /\ a < 65535 => usRegAddress(a) = a + 1
         /\ a = 65535 => usRegAddress(a) = 0
         /\ (usRegAddress(a) - 1) % 65536 = a
<1>1. a \in Int /\ a >= 0 /\ a <= 65535
  BY InRange
<1>2. 65536 \in Int /\ 65536 > 0 /\ a < 65536
  BY <1>1
<1>3. a < 65535 => usRegAddress(a) = a + 1
  BY <1>1 DEF usRegAddress
<1>4. a = 65535 => usRegAddress(a) = 0
  BY <1>1 DEF usRegAddress
<1>5. (usRegAddress(a) - 1) % 65536 = a
  BY <1>1, <1>2, Modulus DEF usRegAddress
<1> QED
  BY <1>1, <1>3, <1>4, <1>5

LEMMA ByteCount ==
  ASSUME NEW n \in Int, n >= 0, n < 2000
  PROVE  /\ ucNBytes(n) = (n + 7) \div 8
         /\ ucNBytes(n) \in Int /\ ucNBytes(n) >= 0 /\ ucNBytes(n) <= 250
BY DEF ucNBytes

LEMMA TwoBytesEach ==
  ASSUME NEW n \in Int, n >= 1, n <= 120
  PROVE  (2 * n) % 256 = 2 * n
OBVIOUS

LEMMA BlockInTable ==
  ASSUME NEW a \in Int, NEW n \in Int, n >= 1, NEW lo \in Int, NEW hi \in Int
  PROVE  Block(a, n) \subseteq lo .. hi <=> a >= lo /\ a + n - 1 <= hi
<1>1. ASSUME Block(a, n) \subseteq lo .. hi PROVE a >= lo /\ a + n - 1 <= hi
  <2>1. a \in Block(a, n) /\ a + n - 1 \in Block(a, n)
    BY DEF Block
  <2> QED
    BY <1>1, <2>1
<1>2. ASSUME a >= lo, a + n - 1 <= hi PROVE Block(a, n) \subseteq lo .. hi
  BY <1>2 DEF Block
<1> QED
  BY <1>1, <1>2

LEMMA BlockFromZero ==
  ASSUME NEW a \in USHORT, NEW n \in Int, n >= 1
  PROVE  /\ Block(a, n) \subseteq 0 .. 3 <=> a >= 0 /\ a + n - 1 <= 3
         /\ Block(a, n) \subseteq 0 .. 4 <=> a >= 0 /\ a + n - 1 <= 4
         /\ Block(a, n) \subseteq 0 .. 36 <=> a >= 0 /\ a + n - 1 <= 36
         /\ Block(a, n) \subseteq 0 .. 39 <=> a >= 0 /\ a + n - 1 <= 39
<1> DEFINE Within(hi) == Block(a, n) \subseteq 0 .. hi <=> a >= 0 /\ a + n - 1 <= hi
<1>1. a \in Int
  BY Increment
<1>2. ASSUME NEW hi \in Int PROVE Within(hi)
  BY <1>1, BlockInTable
<1>3. 3 \in Int /\ 4 \in Int /\ 36 \in Int /\ 39 \in Int
  OBVIOUS
<1>4. Within(3) /\ Within(4) /\ Within(36) /\ Within(39)
  <2> HIDE DEF Within
  <2> QED
    BY <1>2, <1>3
<1> QED
  BY <1>4

(* Requests *)

LEMMA RequestFields ==
  ASSUME NEW r \in RequestType
  PROVE  /\ r.len \in Int /\ r.len >= 1 /\ r.len <= 253
         /\ r.count \in Int /\ r.count >= 0 /\ r.wcount \in Int /\ r.wcount >= 0
         /\ r.bytes \in Int /\ r.bytes >= 0 /\ r.bytes <= 255
         /\ r.addr \in USHORT /\ r.waddr \in USHORT
         /\ r.value \in [Limits -> USHORT]
<1>1. /\ r.len \in 1 .. 253 /\ r.count \in USHORT /\ r.wcount \in USHORT
      /\ r.bytes \in UCHAR /\ r.addr \in USHORT /\ r.waddr \in USHORT
      /\ r.value \in [Limits -> USHORT]
  BY DEF RequestType
<1>2. r.bytes \in Int /\ r.bytes >= 0 /\ r.bytes <= 255
  BY <1>1, InRange
<1>3. \A n \in USHORT : n \in Int /\ n >= 0
  BY Increment
<1> QED
  BY <1>1, <1>2, <1>3

-----------------------------------------------------------------------------
(* The callbacks' checks of an address and a count are the tests that the block lies  *)
(* in a table.                                                                          *)

LEMMA HoldingChecked ==
  ASSUME NEW a \in USHORT, NEW n \in Int
  PROVE  /\ n >= 1 => (HoldingAccepts(usRegAddress(a), n) <=> InHolding(a, n))
         /\ InHolding(a, n) => n >= 1 /\ n <= 101
<1> DEFINE D == 99 + reg_offset
<1>1. reg_offset \in Int /\ reg_count \in Int /\ reg_offset >= 0 /\ reg_count >= 0
      /\ reg_offset <= 1000 /\ reg_count <= 100
  BY DeviceAssumption
<1>2. a \in Int /\ a >= 0 /\ a <= 65535
  BY Increment
<1>3. InHolding(a, n) <=> Some(a, n, 0 .. 36) \/ Some(a, n, D .. D + reg_count)
  BY DEF InHolding, HoldingBlocks
<1>4. Some(a, n, 0 .. 36) <=> n >= 1 /\ a >= 0 /\ a + n - 1 <= 36
  BY BlockFromZero DEF Some
<1>5. Some(a, n, D .. D + reg_count) <=> n >= 1 /\ a >= D /\ a + n - 1 <= D + reg_count
  <2>1. ASSUME n >= 1
        PROVE  Block(a, n) \subseteq D .. D + reg_count <=> a >= D /\ a + n - 1 <= D + reg_count
    BY <1>1, <1>2, <2>1, BlockInTable
  <2> QED
    BY <2>1 DEF Some
<1>6. CASE a < 65535
  <2>1. usRegAddress(a) = a + 1
    BY <1>6, Increment
  <2> QED
    BY <1>1, <1>2, <1>3, <1>4, <1>5, <2>1 DEF HoldingAccepts, COMMON_REG_COUNT
<1>7. CASE a = 65535
  <2>1. usRegAddress(a) = 0
    BY <1>7, Increment
  <2> QED
    BY <1>1, <1>7, <1>3, <1>4, <1>5, <2>1 DEF HoldingAccepts, COMMON_REG_COUNT
<1> QED
  BY <1>2, <1>6, <1>7

LEMMA BitsChecked ==
  ASSUME NEW a \in USHORT, NEW n \in Int
  PROVE  /\ n >= 1 => (CoilsAccept(usRegAddress(a), n) <=> Some(a, n, CoilTable))
         /\ n >= 1 => (DiscreteAccept(usRegAddress(a), n) <=> Some(a, n, DiscreteTable))
         /\ Some(a, n, CoilTable) \/ Some(a, n, DiscreteTable) => n >= 1 /\ n <= 5
<1>1. a \in Int /\ a >= 0 /\ (usRegAddress(a) - 1) % 65536 = a
  BY Increment
<1>2. Some(a, n, CoilTable) <=> n >= 1 /\ a >= 0 /\ a + n - 1 <= 3
  BY BlockFromZero DEF Some, CoilTable
<1>3. Some(a, n, DiscreteTable) <=> n >= 1 /\ a >= 0 /\ a + n - 1 <= 4
  BY BlockFromZero DEF Some, DiscreteTable
<1> QED
  BY <1>1, <1>2, <1>3
     DEF CoilsAccept, DiscreteAccept, REG_COILS_NREGS, REG_DISCRETE_NREGS

LEMMA InputsChecked ==
  ASSUME NEW a \in USHORT, NEW n \in Int
  PROVE  /\ n >= 1 => (InputAccepts(usRegAddress(a), n) <=> Some(a, n, InputTable))
         /\ Some(a, n, InputTable) => n >= 1 /\ n <= 40
<1>1. a \in Int /\ a >= 0 /\ a <= 65535
  BY Increment
<1>2. Some(a, n, InputTable) <=> n >= 1 /\ a >= 0 /\ a + n - 1 <= 39
  BY BlockFromZero DEF Some, InputTable
<1>3. CASE a < 65535
  <2>1. usRegAddress(a) = a + 1
    BY <1>3, Increment
  <2> QED
    BY <1>1, <1>2, <2>1 DEF InputAccepts, REG_INPUT_NREGS
<1>4. CASE a = 65535
  <2>1. usRegAddress(a) = 0
    BY <1>4, Increment
  <2> QED
    BY <1>2, <1>4, <2>1 DEF InputAccepts, REG_INPUT_NREGS
<1> QED
  BY <1>1, <1>3, <1>4

-----------------------------------------------------------------------------
(* The handlers *)

LEMMA HandlerOf ==
  ASSUME NEW r \in RequestType
  PROVE  /\ r.fc = 1 => Handler(r) = ReadCoils(r)
         /\ r.fc = 2 => Handler(r) = ReadDiscreteInputs(r)
         /\ r.fc = 3 => Handler(r) = ReadHoldingRegister(r)
         /\ r.fc = 4 => Handler(r) = ReadInputRegister(r)
         /\ r.fc = 5 => Handler(r) = WriteCoil(r)
         /\ r.fc = 6 => Handler(r) = WriteHoldingRegister(r)
         /\ r.fc = 15 => Handler(r) = WriteMultipleCoils(r)
         /\ r.fc = 16 => Handler(r) = WriteMultipleHoldingRegister(r)
         /\ r.fc = 17 => Handler(r) = ReportSlaveID
         /\ r.fc = 23 => Handler(r) = ReadWriteMultipleHoldingRegister(r)
         /\ r.fc \notin FunctionCodes => Handler(r) = Refusal("ILLEGAL_FUNCTION")
BY DEF Handler, FunctionCodes

LEMMA CheckedResult ==
  ASSUME NEW valid \in BOOLEAN, NEW accepted \in BOOLEAN, NEW n
  PROVE  /\ Checked(valid, accepted, n).exception = "none" <=> valid /\ accepted
         /\ Checked(valid, accepted, n).length = IF valid /\ accepted THEN n ELSE 2
BY DEF Checked, Refusal, Done

LEMMA AcceptsType ==
  ASSUME NEW a, NEW n
  PROVE  /\ CoilsAccept(a, n) \in BOOLEAN
         /\ DiscreteAccept(a, n) \in BOOLEAN
         /\ InputAccepts(a, n) \in BOOLEAN
         /\ HoldingAccepts(a, n) \in BOOLEAN
BY DEF CoilsAccept, DiscreteAccept, InputAccepts, HoldingAccepts

\* An answer without an exception goes with a request that both checks pass.
LEMMA NoException ==
  ASSUME NEW r, NEW valid \in BOOLEAN, NEW accepted \in BOOLEAN, NEW n,
         Handler(r) = Checked(valid, accepted, n),
         valid /\ accepted => Legal(r), Legal(r) => valid /\ accepted
  PROVE  Handler(r).exception = "none" <=> Legal(r)
<1>1. Handler(r).exception = "none" <=> valid /\ accepted
  BY CheckedResult
<1>2. Legal(r) <=> valid /\ accepted
  OBVIOUS
<1> QED
  BY <1>1, <1>2, Zenon

LEMMA CountLimits ==
  /\ MB_PDU_FUNC_READ_COILCNT_MAX \in Int /\ MB_PDU_FUNC_READ_COILCNT_MAX > 40
  /\ MB_PDU_FUNC_READ_COILCNT_MAX <= 2000
  /\ MB_PDU_FUNC_READ_DISCCNT_MAX \in Int /\ MB_PDU_FUNC_READ_DISCCNT_MAX > 40
  /\ MB_PDU_FUNC_READ_DISCCNT_MAX <= 2000
  /\ MB_PDU_FUNC_WRITE_MUL_COILCNT_MAX \in Int /\ MB_PDU_FUNC_WRITE_MUL_COILCNT_MAX > 40
  /\ MB_PDU_FUNC_WRITE_MUL_COILCNT_MAX < 2000
  /\ MB_PDU_FUNC_READ_REGCNT_MAX = 125 /\ MB_PDU_FUNC_WRITE_MUL_REGCNT_MAX = 120
BY DEF MB_PDU_FUNC_READ_COILCNT_MAX, MB_PDU_FUNC_READ_DISCCNT_MAX,
       MB_PDU_FUNC_WRITE_MUL_COILCNT_MAX, MB_PDU_FUNC_READ_REGCNT_MAX,
       MB_PDU_FUNC_WRITE_MUL_REGCNT_MAX

LEMMA BookReadCoils ==
  ASSUME NEW r \in RequestType, WellSized(r), r.fc = 1
  PROVE  Handler(r).exception = "none" <=> Legal(r)
<1> DEFINE valid == r.len = 5 /\ r.count >= 1 /\ r.count < MB_PDU_FUNC_READ_COILCNT_MAX
<1> DEFINE accepted == CoilsAccept(usRegAddress(r.addr), r.count)
<1>1. Handler(r) = Checked(valid, accepted, 2 + ucNBytes(r.count))
  BY HandlerOf DEF ReadCoils
<1>2. Legal(r) <=> Some(r.addr, r.count, CoilTable)
  BY DEF Legal
<1>3. r.len = 5
  BY DEF WellSized
<1>4. /\ r.addr \in USHORT /\ r.waddr \in USHORT /\ r.bytes \in Int /\ r.len \in Int
      /\ r.count \in Int /\ r.count >= 0 /\ r.wcount \in Int /\ r.wcount >= 0
  BY RequestFields
<1>5. ASSUME valid, accepted PROVE Legal(r)
  BY <1>2, <1>4, <1>5, BitsChecked
<1>6. ASSUME Legal(r) PROVE valid /\ accepted
  <2>1. Some(r.addr, r.count, CoilTable)
    BY <1>2, <1>6
  <2>2. accepted /\ r.count >= 1 /\ r.count <= 40
    BY <1>4, <2>1, BitsChecked
  <2> QED
    BY <1>3, <1>4, <2>2, CountLimits
<1>7. valid \in BOOLEAN /\ accepted \in BOOLEAN
  BY AcceptsType
<1> QED
  <2> HIDE DEF valid, accepted
  <2> QED
    BY <1>1, <1>5, <1>6, <1>7, NoException

LEMMA BookReadDiscreteInputs ==
  ASSUME NEW r \in RequestType, WellSized(r), r.fc = 2
  PROVE  Handler(r).exception = "none" <=> Legal(r)
<1> DEFINE valid == r.len = 5 /\ r.count >= 1 /\ r.count < MB_PDU_FUNC_READ_DISCCNT_MAX
<1> DEFINE accepted == DiscreteAccept(usRegAddress(r.addr), r.count)
<1>1. Handler(r) = Checked(valid, accepted, 2 + ucNBytes(r.count))
  BY HandlerOf DEF ReadDiscreteInputs
<1>2. Legal(r) <=> Some(r.addr, r.count, DiscreteTable)
  BY DEF Legal
<1>3. r.len = 5
  BY DEF WellSized
<1>4. /\ r.addr \in USHORT /\ r.waddr \in USHORT /\ r.bytes \in Int /\ r.len \in Int
      /\ r.count \in Int /\ r.count >= 0 /\ r.wcount \in Int /\ r.wcount >= 0
  BY RequestFields
<1>5. ASSUME valid, accepted PROVE Legal(r)
  BY <1>2, <1>4, <1>5, BitsChecked
<1>6. ASSUME Legal(r) PROVE valid /\ accepted
  <2>1. Some(r.addr, r.count, DiscreteTable)
    BY <1>2, <1>6
  <2>2. accepted /\ r.count >= 1 /\ r.count <= 40
    BY <1>4, <2>1, BitsChecked
  <2> QED
    BY <1>3, <1>4, <2>2, CountLimits
<1>7. valid \in BOOLEAN /\ accepted \in BOOLEAN
  BY AcceptsType
<1> QED
  <2> HIDE DEF valid, accepted
  <2> QED
    BY <1>1, <1>5, <1>6, <1>7, NoException

LEMMA BookReadInputRegister ==
  ASSUME NEW r \in RequestType, WellSized(r), r.fc = 4
  PROVE  Handler(r).exception = "none" <=> Legal(r)
<1> DEFINE valid == r.len = 5 /\ r.count >= 1 /\ r.count < MB_PDU_FUNC_READ_REGCNT_MAX
<1> DEFINE accepted == InputAccepts(usRegAddress(r.addr), r.count)
<1>1. Handler(r) = Checked(valid, accepted, 2 + 2 * r.count)
  BY HandlerOf DEF ReadInputRegister
<1>2. Legal(r) <=> Some(r.addr, r.count, InputTable)
  BY DEF Legal
<1>3. r.len = 5
  BY DEF WellSized
<1>4. /\ r.addr \in USHORT /\ r.waddr \in USHORT /\ r.bytes \in Int /\ r.len \in Int
      /\ r.count \in Int /\ r.count >= 0 /\ r.wcount \in Int /\ r.wcount >= 0
  BY RequestFields
<1>5. ASSUME valid, accepted PROVE Legal(r)
  BY <1>2, <1>4, <1>5, InputsChecked
<1>6. ASSUME Legal(r) PROVE valid /\ accepted
  <2>1. Some(r.addr, r.count, InputTable)
    BY <1>2, <1>6
  <2>2. accepted /\ r.count >= 1 /\ r.count <= 40
    BY <1>4, <2>1, InputsChecked
  <2> QED
    BY <1>3, <1>4, <2>2, CountLimits
<1>7. valid \in BOOLEAN /\ accepted \in BOOLEAN
  BY AcceptsType
<1> QED
  <2> HIDE DEF valid, accepted
  <2> QED
    BY <1>1, <1>5, <1>6, <1>7, NoException

LEMMA BookWriteCoil ==
  ASSUME NEW r \in RequestType, WellSized(r), r.fc = 5
  PROVE  Handler(r).exception = "none" <=> Legal(r)
<1> DEFINE valid == r.len = 5 /\ r.count \in CoilValues
<1> DEFINE accepted == CoilsAccept(usRegAddress(r.addr), 1)
<1>1. Handler(r) = Checked(valid, accepted, r.len)
  BY HandlerOf DEF WriteCoil
<1>2. Legal(r) <=> r.count \in CoilValues /\ Some(r.addr, 1, CoilTable)
  BY DEF Legal
<1>3. r.len = 5
  BY DEF WellSized
<1>4. /\ r.addr \in USHORT /\ r.waddr \in USHORT /\ r.bytes \in Int /\ r.len \in Int
      /\ r.count \in Int /\ r.count >= 0 /\ r.wcount \in Int /\ r.wcount >= 0
      /\ r.bytes >= 0 /\ r.bytes <= 255
  BY RequestFields
<1>5. ASSUME valid, accepted PROVE Legal(r)
  BY <1>2, <1>4, <1>5, BitsChecked
<1>6. ASSUME Legal(r) PROVE valid /\ accepted
  BY <1>2, <1>3, <1>4, <1>6, BitsChecked
<1>7. valid \in BOOLEAN /\ accepted \in BOOLEAN
  BY AcceptsType
<1> QED
  <2> HIDE DEF valid, accepted
  <2> QED
    BY <1>1, <1>5, <1>6, <1>7, NoException

LEMMA BookWriteHoldingRegister ==
  ASSUME NEW r \in RequestType, WellSized(r), r.fc = 6
  PROVE  Handler(r).exception = "none" <=> Legal(r)
<1> DEFINE valid == r.len = 5
<1> DEFINE accepted == HoldingAccepts(usRegAddress(r.addr), 1)
<1>1. Handler(r) = Checked(valid, accepted, r.len)
  BY HandlerOf DEF WriteHoldingRegister
<1>2. Legal(r) <=> InHolding(r.addr, 1)
  BY DEF Legal
<1>3. r.len = 5
  BY DEF WellSized
<1>4. /\ r.addr \in USHORT /\ r.waddr \in USHORT /\ r.bytes \in Int /\ r.len \in Int
      /\ r.count \in Int /\ r.count >= 0 /\ r.wcount \in Int /\ r.wcount >= 0
      /\ r.bytes >= 0 /\ r.bytes <= 255
  BY RequestFields
<1>5. ASSUME valid, accepted PROVE Legal(r)
  BY <1>2, <1>4, <1>5, HoldingChecked
<1>6. ASSUME Legal(r) PROVE valid /\ accepted
  BY <1>2, <1>3, <1>4, <1>6, HoldingChecked
<1>7. valid \in BOOLEAN /\ accepted \in BOOLEAN
  BY AcceptsType
<1> QED
  <2> HIDE DEF valid, accepted
  <2> QED
    BY <1>1, <1>5, <1>6, <1>7, NoException

LEMMA BookReadHoldingRegister ==
  ASSUME NEW r \in RequestType, WellSized(r), r.fc = 3
  PROVE  Handler(r).exception = "none" <=> Legal(r)
<1> DEFINE valid == r.len = 5 /\ r.count % 256 >= 1 /\ r.count % 256 <= MB_PDU_FUNC_READ_REGCNT_MAX
<1> DEFINE accepted == HoldingAccepts(usRegAddress(r.addr), r.count % 256)
<1>1. Handler(r) = Checked(valid, accepted, 2 + 2 * (r.count % 256))
  BY HandlerOf DEF ReadHoldingRegister
<1>2. Legal(r) <=> InHolding(r.addr, r.count)
  BY DEF Legal
<1>3. r.len = 5 /\ r.count < 256
  BY DEF WellSized
<1>4. /\ r.addr \in USHORT /\ r.waddr \in USHORT /\ r.bytes \in Int /\ r.len \in Int
      /\ r.count \in Int /\ r.count >= 0 /\ r.wcount \in Int /\ r.wcount >= 0
      /\ r.bytes >= 0 /\ r.bytes <= 255
  BY RequestFields
<1>5. ASSUME valid, accepted PROVE Legal(r)
  <2>1. r.count % 256 = r.count
    BY <1>3, <1>4
  <2> QED
    BY <1>2, <1>4, <1>5, <2>1, HoldingChecked
<1>6. ASSUME Legal(r) PROVE valid /\ accepted
  <2>1. r.count % 256 = r.count
    BY <1>3, <1>4
  <2>2. InHolding(r.addr, r.count)
    BY <1>2, <1>6
  <2>3. accepted /\ r.count >= 1 /\ r.count <= 101
    BY <1>4, <2>1, <2>2, HoldingChecked
  <2> QED
    BY <1>3, <1>4, <2>1, <2>3, CountLimits
<1>7. valid \in BOOLEAN /\ accepted \in BOOLEAN
  BY AcceptsType
<1> QED
  <2> HIDE DEF valid, accepted
  <2> QED
    BY <1>1, <1>5, <1>6, <1>7, NoException

LEMMA BookWriteMultipleCoils ==
  ASSUME NEW r \in RequestType, WellSized(r), r.fc = 15
  PROVE  Handler(r).exception = "none" <=> Legal(r)
<1> DEFINE valid == /\ r.len > 5 /\ r.count >= 1
                   /\ r.count <= MB_PDU_FUNC_WRITE_MUL_COILCNT_MAX
                   /\ ucNBytes(r.count) = r.bytes
<1> DEFINE accepted == CoilsAccept(usRegAddress(r.addr), r.count)
<1>1. Handler(r) = Checked(valid, accepted, 5)
  BY HandlerOf DEF WriteMultipleCoils
<1>2. Legal(r) <=> r.bytes = (r.count + 7) \div 8 /\ Some(r.addr, r.count, CoilTable)
  BY DEF Legal
<1>3. r.len = 6 + r.bytes
  BY DEF WellSized
<1>4. /\ r.addr \in USHORT /\ r.waddr \in USHORT /\ r.bytes \in Int /\ r.len \in Int
      /\ r.count \in Int /\ r.count >= 0 /\ r.wcount \in Int /\ r.wcount >= 0
      /\ r.bytes >= 0 /\ r.bytes <= 255
  BY RequestFields
<1>5. ASSUME valid, accepted PROVE Legal(r)
  <2>1. r.count >= 1 /\ r.count < 2000
    BY <1>4, <1>5, CountLimits
  <2>2. ucNBytes(r.count) = (r.count + 7) \div 8
    BY <1>4, <2>1, ByteCount
  <2>3. Some(r.addr, r.count, CoilTable)
    BY <1>4, <1>5, <2>1, BitsChecked
  <2>4. ucNBytes(r.count) = r.bytes
    BY <1>5
  <2> QED
    BY <1>2, <2>2, <2>3, <2>4
<1>6. ASSUME Legal(r) PROVE valid /\ accepted
  <2>1. r.bytes = (r.count + 7) \div 8 /\ Some(r.addr, r.count, CoilTable)
    BY <1>2, <1>6
  <2>2. accepted /\ r.count >= 1 /\ r.count <= 5
    BY <1>4, <2>1, BitsChecked
  <2>3. ucNBytes(r.count) = (r.count + 7) \div 8
    BY <1>4, <2>2, ByteCount
  <2>4. r.len > 5
    BY <1>3, <1>4
  <2>5. r.count <= MB_PDU_FUNC_WRITE_MUL_COILCNT_MAX
    BY <1>4, <2>2, CountLimits
  <2> QED
    BY <2>1, <2>2, <2>3, <2>4, <2>5
<1>7. valid \in BOOLEAN /\ accepted \in BOOLEAN
  BY AcceptsType
<1> QED
  <2> HIDE DEF valid, accepted
  <2> QED
    BY <1>1, <1>5, <1>6, <1>7, NoException

LEMMA BookWriteMultipleHoldingRegister ==
  ASSUME NEW r \in RequestType, WellSized(r), r.fc = 16
  PROVE  Handler(r).exception = "none" <=> Legal(r)
<1> DEFINE valid == /\ r.len >= 6 /\ r.count >= 1
                   /\ r.count <= MB_PDU_FUNC_WRITE_MUL_REGCNT_MAX
                   /\ r.bytes = (2 * r.count) % 256
<1> DEFINE accepted == HoldingAccepts(usRegAddress(r.addr), r.count)
<1>1. Handler(r) = Checked(valid, accepted, 5)
  BY HandlerOf DEF WriteMultipleHoldingRegister
<1>2. Legal(r) <=> r.bytes = 2 * r.count /\ InHolding(r.addr, r.count)
  BY DEF Legal
<1>3. r.len = 6 + r.bytes
  BY DEF WellSized
<1>4. /\ r.addr \in USHORT /\ r.waddr \in USHORT /\ r.bytes \in Int /\ r.len \in Int
      /\ r.count \in Int /\ r.count >= 0 /\ r.wcount \in Int /\ r.wcount >= 0
      /\ r.bytes >= 0 /\ r.bytes <= 255
  BY RequestFields
<1>5. ASSUME valid, accepted PROVE Legal(r)
  <2>1. r.count >= 1 /\ r.count <= 120
    BY <1>4, <1>5, CountLimits
  <2>2. (2 * r.count) % 256 = 2 * r.count
    BY <1>4, <2>1, TwoBytesEach
  <2>3. InHolding(r.addr, r.count)
    BY <1>4, <1>5, <2>1, HoldingChecked
  <2>4. r.bytes = (2 * r.count) % 256
    BY <1>5
  <2> QED
    BY <1>2, <2>2, <2>3, <2>4
<1>6. ASSUME Legal(r) PROVE valid /\ accepted
  <2>1. r.bytes = 2 * r.count /\ InHolding(r.addr, r.count)
    BY <1>2, <1>6
  <2>2. accepted /\ r.count >= 1 /\ r.count <= 101
    BY <1>4, <2>1, HoldingChecked
  <2>3. (2 * r.count) % 256 = 2 * r.count
    BY <1>4, <2>2, TwoBytesEach
  <2>4. r.len >= 6
    BY <1>3, <1>4
  <2>5. r.count <= MB_PDU_FUNC_WRITE_MUL_REGCNT_MAX
    BY <1>4, <2>2, CountLimits
  <2> QED
    BY <2>1, <2>2, <2>3, <2>4, <2>5
<1>7. valid \in BOOLEAN /\ accepted \in BOOLEAN
  BY AcceptsType
<1> QED
  <2> HIDE DEF valid, accepted
  <2> QED
    BY <1>1, <1>5, <1>6, <1>7, NoException

LEMMA BookReadWriteMultipleHoldingRegister ==
  ASSUME NEW r \in RequestType, WellSized(r), r.fc = 23
  PROVE  Handler(r).exception = "none" <=> Legal(r)
<1> DEFINE valid == CountsValid(r)
<1> DEFINE accepted == /\ HoldingAccepts(usRegAddress(r.waddr), r.wcount)
                       /\ HoldingAccepts(usRegAddress(r.addr), r.count)
<1>1. /\ r.addr \in USHORT /\ r.waddr \in USHORT /\ r.bytes \in Int /\ r.len \in Int
      /\ r.count \in Int /\ r.count >= 0 /\ r.wcount \in Int /\ r.wcount >= 0 /\ r.bytes >= 0
  BY RequestFields
<1>2. r.len = 10 + r.bytes
  BY DEF WellSized
<1>3. Handler(r) = Checked(valid, accepted, 2 + 2 * r.count)
  <2>1. ~(r.len < 10)
    BY <1>1, <1>2
  <2>2. Handler(r) = ReadWriteMultipleHoldingRegister(r)
    BY HandlerOf
  <2> QED
    BY <2>1, <2>2 DEF ReadWriteMultipleHoldingRegister
<1>4. Legal(r) <=> /\ InHolding(r.addr, r.count)
                   /\ r.bytes = 2 * r.wcount /\ InHolding(r.waddr, r.wcount)
  BY DEF Legal
<1>5. ASSUME valid, accepted PROVE Legal(r)
  <2>1. r.count >= 1 /\ r.wcount >= 1 /\ 2 * r.wcount = r.bytes
    BY <1>5 DEF CountsValid
  <2>2. InHolding(r.addr, r.count) /\ InHolding(r.waddr, r.wcount)
    BY <1>1, <1>5, <2>1, HoldingChecked
  <2> QED
    BY <1>4, <2>1, <2>2
<1>6. ASSUME Legal(r) PROVE valid /\ accepted
  <2>1. /\ InHolding(r.addr, r.count) /\ InHolding(r.waddr, r.wcount)
        /\ r.bytes = 2 * r.wcount
    BY <1>4, <1>6
  <2>2. /\ r.count >= 1 /\ r.count <= 101 /\ r.wcount >= 1 /\ r.wcount <= 101
        /\ HoldingAccepts(usRegAddress(r.waddr), r.wcount)
        /\ HoldingAccepts(usRegAddress(r.addr), r.count)
    BY <1>1, <2>1, HoldingChecked
  <2>3. CountsValid(r)
    BY <1>1, <2>1, <2>2 DEF CountsValid
  <2> QED
    BY <2>2, <2>3
<1>7. valid \in BOOLEAN /\ accepted \in BOOLEAN
  BY AcceptsType DEF CountsValid
<1> QED
  <2> HIDE DEF valid, accepted
  <2> QED
    BY <1>3, <1>5, <1>6, <1>7, NoException

(* A request whose length goes with its counts is answered without an exception if and *)
(* only if it is legal: for every function, address, count and byte count.             *)
THEOREM HandlersByTheBook ==
  ASSUME NEW r \in RequestType, WellSized(r)
  PROVE  Handler(r).exception = "none" <=> Legal(r)
<1>1. CASE r.fc = 17
  BY <1>1, HandlerOf DEF ReportSlaveID, Done, Legal
<1>2. CASE r.fc \notin FunctionCodes
  <2>1. ~Legal(r)
    BY <1>2 DEF Legal, FunctionCodes
  <2> QED
    BY <1>2, <2>1, HandlerOf DEF Refusal
<1> QED
  BY <1>1, <1>2, BookReadCoils, BookReadDiscreteInputs, BookReadHoldingRegister, BookReadInputRegister,
     BookWriteCoil, BookWriteHoldingRegister, BookWriteMultipleCoils,
     BookWriteMultipleHoldingRegister, BookReadWriteMultipleHoldingRegister DEF FunctionCodes

(* "Check if the number of registers to read is valid. If not return Modbus illegal    *)
(* data value exception" (mbfuncholding.c:188-189): function 3 does not.  A request    *)
(* for 257 registers, whatever its address, is answered as one for a single register.  *)
THEOREM CountHighByteLost ==
  ASSUME NEW r \in RequestType, r.len = 5, r.count = 257,
         NEW one \in RequestType, one.len = 5, one.count = 1, one.addr = r.addr
  PROVE  ReadHoldingRegister(r) = ReadHoldingRegister(one)
<1>1. r.count % 256 = 1 /\ one.count % 256 = 1
  OBVIOUS
<1> QED
  BY <1>1 DEF ReadHoldingRegister

-----------------------------------------------------------------------------
(* No answer is longer than a PDU. *)

LEMMA CheckedLength ==
  ASSUME NEW valid, NEW accepted, NEW n,
         valid /\ accepted => n \in 1 .. 253
  PROVE  Checked(valid, accepted, n).length \in 1 .. 253
BY DEF Checked, Refusal, Done

LEMMA AnswerLength ==
  ASSUME NEW r \in RequestType
  PROVE  Handler(r).length \in 1 .. 253
<1>1. /\ r.len \in 1 .. 253
      /\ r.count \in Int /\ r.count >= 0
  BY RequestFields
<1>2. CASE r.fc = 1
  <2>1. r.count < MB_PDU_FUNC_READ_COILCNT_MAX => 2 + ucNBytes(r.count) \in 1 .. 253
    <3>1. r.count < MB_PDU_FUNC_READ_COILCNT_MAX => r.count < 2000
      BY <1>1, CountLimits
    <3>2. r.count < 2000 => ucNBytes(r.count) \in Int /\ ucNBytes(r.count) >= 0 /\ ucNBytes(r.count) <= 250
      BY <1>1, ByteCount
    <3>3. \A n \in Int : n >= 0 /\ n <= 250 => 2 + n \in 1 .. 253
      OBVIOUS
    <3> QED
      BY <3>1, <3>2, <3>3
  <2> QED
    BY <1>2, <2>1, HandlerOf, CheckedLength DEF ReadCoils
<1>3. CASE r.fc = 2
  <2>1. r.count < MB_PDU_FUNC_READ_DISCCNT_MAX => 2 + ucNBytes(r.count) \in 1 .. 253
    <3>1. r.count < MB_PDU_FUNC_READ_DISCCNT_MAX => r.count < 2000
      BY <1>1, CountLimits
    <3>2. r.count < 2000 => ucNBytes(r.count) \in Int /\ ucNBytes(r.count) >= 0 /\ ucNBytes(r.count) <= 250
      BY <1>1, ByteCount
    <3>3. \A n \in Int : n >= 0 /\ n <= 250 => 2 + n \in 1 .. 253
      OBVIOUS
    <3> QED
      BY <3>1, <3>2, <3>3
  <2> QED
    BY <1>3, <2>1, HandlerOf, CheckedLength DEF ReadDiscreteInputs
<1>4. CASE r.fc = 3
  <2> DEFINE n == r.count % 256
  <2>1. n \in Int /\ n >= 0
    BY <1>1
  <2>2. n <= MB_PDU_FUNC_READ_REGCNT_MAX => 2 + 2 * n \in 1 .. 253
    <3> HIDE DEF n
    <3> QED
      BY <2>1, CountLimits
  <2> QED
    <3> DEFINE valid == r.len = 5 /\ n >= 1 /\ n <= MB_PDU_FUNC_READ_REGCNT_MAX
    <3> DEFINE accepted == HoldingAccepts(usRegAddress(r.addr), n)
    <3>1. Handler(r) = Checked(valid, accepted, 2 + 2 * n)
      BY <1>4, HandlerOf DEF ReadHoldingRegister
    <3>2. valid => 2 + 2 * n \in 1 .. 253
      BY <2>2
    <3> QED
      <4> HIDE DEF valid, accepted, n
      <4> QED
        BY <3>1, <3>2, CheckedLength
<1>5. CASE r.fc = 4
  <2>1. r.count < MB_PDU_FUNC_READ_REGCNT_MAX => 2 + 2 * r.count \in 1 .. 253
    BY <1>1, CountLimits
  <2> QED
    BY <1>5, <2>1, HandlerOf, CheckedLength DEF ReadInputRegister
<1>6. CASE r.fc = 5
  BY <1>1, <1>6, HandlerOf, CheckedLength DEF WriteCoil
<1>7. CASE r.fc = 6
  BY <1>1, <1>7, HandlerOf, CheckedLength DEF WriteHoldingRegister
<1>8. 5 \in 1 .. 253
  OBVIOUS
<1>9. CASE r.fc = 15
  BY <1>8, <1>9, HandlerOf, CheckedLength DEF WriteMultipleCoils
<1>10. CASE r.fc = 16
  <2> DEFINE valid == /\ r.len >= 6 /\ r.count >= 1
                      /\ r.count <= MB_PDU_FUNC_WRITE_MUL_REGCNT_MAX
                      /\ r.bytes = (2 * r.count) % 256
  <2> DEFINE accepted == HoldingAccepts(usRegAddress(r.addr), r.count)
  <2>1. Handler(r) = Checked(valid, accepted, 5)
    BY <1>10, HandlerOf DEF WriteMultipleHoldingRegister
  <2> QED
    <3> HIDE DEF valid, accepted
    <3> QED
      BY <1>8, <2>1, CheckedLength
<1>11. CASE r.fc = 23
  <2>1. CASE r.len < 10
    <3>1. Handler(r) = Done(r.len)
      BY <1>11, <2>1, HandlerOf DEF ReadWriteMultipleHoldingRegister
    <3> QED
      BY <1>1, <3>1 DEF Done
  <2>2. CASE ~(r.len < 10)
    <3>1. CountsValid(r) => 2 + 2 * r.count \in 1 .. 253
      BY <1>1 DEF CountsValid
    <3> DEFINE accepted == /\ HoldingAccepts(usRegAddress(r.waddr), r.wcount)
                           /\ HoldingAccepts(usRegAddress(r.addr), r.count)
    <3>2. Handler(r) = Checked(CountsValid(r), accepted, 2 + 2 * r.count)
      BY <1>11, <2>2, HandlerOf DEF ReadWriteMultipleHoldingRegister
    <3> QED
      <4> HIDE DEF accepted
      <4> QED
        BY <3>1, <3>2, CheckedLength
  <2> QED
    BY <2>1, <2>2
<1>12. CASE r.fc = 17
  BY <1>12, HandlerOf DEF ReportSlaveID, Done
<1>13. CASE r.fc \notin FunctionCodes
  BY <1>13, HandlerOf DEF Refusal
<1> QED
  BY <1>1, <1>2, <1>3, <1>4, <1>5, <1>6, <1>7, <1>9, <1>10, <1>11, <1>12, <1>13 DEF FunctionCodes

-----------------------------------------------------------------------------
(* The Modbus task stays in the tables. *)

\* What is left of the registers of a request lies in a table.
AtWork ==
  /\ request \in Requests
  /\ mbPc = "write" => usNRegs = 0 \/ InHolding(iRegIndex, usNRegs)
  /\ mbPc = "read" => InHolding(iRegIndex, usNRegs)

LEMMA InHoldingBounds ==
  ASSUME NEW a \in USHORT, NEW n \in Int
  PROVE  InHolding(a, n) <=> /\ n >= 1
                             /\ \/ a >= 0 /\ a + n - 1 <= 36
                                \/ a >= 99 + reg_offset /\ a + n - 1 <= 99 + reg_offset + reg_count
<1> DEFINE D == 99 + reg_offset
<1>1. reg_offset \in Int /\ reg_count \in Int
  BY DeviceAssumption
<1>2. a \in Int
  BY Increment
<1>3. InHolding(a, n) <=> Some(a, n, 0 .. 36) \/ Some(a, n, D .. D + reg_count)
  BY DEF InHolding, HoldingBlocks
<1>4. Some(a, n, 0 .. 36) <=> n >= 1 /\ a >= 0 /\ a + n - 1 <= 36
  BY BlockFromZero DEF Some
<1>5. Some(a, n, D .. D + reg_count) <=> n >= 1 /\ a >= D /\ a + n - 1 <= D + reg_count
  <2>1. ASSUME n >= 1
        PROVE  Block(a, n) \subseteq D .. D + reg_count <=> a >= D /\ a + n - 1 <= D + reg_count
    BY <1>1, <1>2, <2>1, BlockInTable
  <2> QED
    BY <2>1 DEF Some
<1> QED
  BY <1>3, <1>4, <1>5

LEMMA NextRegister ==
  ASSUME NEW a \in USHORT, NEW n \in Int, InHolding(a, n)
  PROVE  /\ a + 1 \in USHORT
         /\ n >= 1 /\ n <= 101
         /\ n - 1 = 0 \/ InHolding(a + 1, n - 1)
<1>1. reg_offset \in Int /\ reg_count \in Int /\ reg_offset >= 0 /\ reg_count >= 0
      /\ reg_offset <= 1000 /\ reg_count <= 100
  BY DeviceAssumption
<1>2. a \in Int /\ a >= 0
  BY Increment
<1>3. /\ n >= 1
      /\ \/ a >= 0 /\ a + n - 1 <= 36
         \/ a >= 99 + reg_offset /\ a + n - 1 <= 99 + reg_offset + reg_count
  BY InHoldingBounds
<1>4. a + 1 \in Int /\ a + 1 >= 0 /\ a + 1 <= 2000
  BY <1>1, <1>2, <1>3
<1>5. a + 1 \in USHORT
  BY <1>4, InRange
<1>6. n <= 101
  BY <1>1, <1>2, <1>3
<1>7. n - 1 = 0 \/ InHolding(a + 1, n - 1)
  <2>1. n - 1 \in Int
    OBVIOUS
  <2>2. InHolding(a + 1, n - 1) <=>
          /\ n - 1 >= 1
          /\ \/ a + 1 >= 0 /\ (a + 1) + (n - 1) - 1 <= 36
             \/ /\ a + 1 >= 99 + reg_offset
                /\ (a + 1) + (n - 1) - 1 <= 99 + reg_offset + reg_count
    BY <1>5, <2>1, InHoldingBounds
  <2> QED
    BY <1>1, <1>2, <1>3, <2>2
<1> QED
  BY <1>3, <1>5, <1>6, <1>7

\* What a request writes and reads lies in a table.
LEMMA WritesInside ==
  ASSUME NEW r \in RequestType, Writes(r)
  PROVE  /\ WriteFirst(r) \in USHORT /\ WriteCount(r) \in Int
         /\ InHolding(WriteFirst(r), WriteCount(r))
<1>1. /\ r.addr \in USHORT /\ r.waddr \in USHORT
      /\ r.count \in Int /\ r.wcount \in Int
  BY RequestFields
<1>2. r.fc \in {6, 16, 23}
  BY DEF Writes
<1>3. CASE r.fc = 6
  <2> DEFINE valid == r.len = 5
  <2> DEFINE accepted == HoldingAccepts(usRegAddress(r.addr), 1)
  <2>1. Handler(r) = Checked(valid, accepted, r.len)
    BY <1>3, HandlerOf DEF WriteHoldingRegister
  <2>2. valid \in BOOLEAN /\ accepted \in BOOLEAN
    BY AcceptsType
  <2>3. Handler(r).exception = "none"
    BY <1>3 DEF Writes
  <2>4. valid /\ accepted
    <3> HIDE DEF valid, accepted
    <3> QED
      BY <2>1, <2>2, <2>3, CheckedResult
  <2> QED
    BY <1>1, <1>3, <2>4, HoldingChecked DEF WriteFirst, WriteCount
<1>4. CASE r.fc = 16
  <2> DEFINE valid == /\ r.len >= 6 /\ r.count >= 1
                      /\ r.count <= MB_PDU_FUNC_WRITE_MUL_REGCNT_MAX
                      /\ r.bytes = (2 * r.count) % 256
  <2> DEFINE accepted == HoldingAccepts(usRegAddress(r.addr), r.count)
  <2>1. Handler(r) = Checked(valid, accepted, 5)
    BY <1>4, HandlerOf DEF WriteMultipleHoldingRegister
  <2>2. valid \in BOOLEAN /\ accepted \in BOOLEAN
    BY AcceptsType
  <2>3. Handler(r).exception = "none"
    BY <1>4 DEF Writes
  <2>4. valid /\ accepted
    <3> HIDE DEF valid, accepted
    <3> QED
      BY <2>1, <2>2, <2>3, CheckedResult
  <2>5. r.count >= 1
    BY <2>4
  <2> QED
    BY <1>1, <1>4, <2>4, <2>5, HoldingChecked DEF WriteFirst, WriteCount
<1>5. CASE r.fc = 23
  <2>1. CountsValid(r) /\ HoldingAccepts(usRegAddress(r.waddr), r.wcount)
    BY <1>5 DEF Writes
  <2>2. r.wcount >= 1
    BY <2>1 DEF CountsValid
  <2> QED
    BY <1>1, <1>5, <2>1, <2>2, HoldingChecked DEF WriteFirst, WriteCount
<1> QED
  BY <1>2, <1>3, <1>4, <1>5

LEMMA ReadsInside ==
  ASSUME NEW r \in RequestType, Reads(r)
  PROVE  /\ r.addr \in USHORT /\ ReadCount(r) \in Int
         /\ InHolding(r.addr, ReadCount(r))
<1>1. r.addr \in USHORT /\ r.count \in Int /\ r.count % 256 \in Int
  BY RequestFields
<1>2. r.fc \in {3, 23} /\ Handler(r).exception = "none"
  BY DEF Reads
<1>3. CASE r.fc = 3
  <2> DEFINE n == r.count % 256
  <2> DEFINE valid == r.len = 5 /\ n >= 1 /\ n <= MB_PDU_FUNC_READ_REGCNT_MAX
  <2> DEFINE accepted == HoldingAccepts(usRegAddress(r.addr), n)
  <2>1. Handler(r) = Checked(valid, accepted, 2 + 2 * n)
    BY <1>3, HandlerOf DEF ReadHoldingRegister
  <2>2. valid \in BOOLEAN /\ accepted \in BOOLEAN
    BY AcceptsType
  <2>3. valid /\ accepted
    <3> HIDE DEF valid, accepted, n
    <3> QED
      BY <1>2, <2>1, <2>2, CheckedResult
  <2>4. n >= 1 /\ n \in Int /\ HoldingAccepts(usRegAddress(r.addr), n)
    BY <1>1, <2>3
  <2>5. InHolding(r.addr, n)
    <3> HIDE DEF n
    <3> QED
      BY <1>1, <2>4, HoldingChecked
  <2> QED
    BY <1>1, <1>3, <2>5 DEF ReadCount
<1>4. CASE r.fc = 23
  <2> DEFINE accepted == /\ HoldingAccepts(usRegAddress(r.waddr), r.wcount)
                         /\ HoldingAccepts(usRegAddress(r.addr), r.count)
  <2>1. ~(r.len < 10)
    BY <1>4, RequestFields DEF Reads
  <2>2. Handler(r) = Checked(CountsValid(r), accepted, 2 + 2 * r.count)
    BY <1>4, <2>1, HandlerOf DEF ReadWriteMultipleHoldingRegister
  <2>3. CountsValid(r) \in BOOLEAN /\ accepted \in BOOLEAN
    BY AcceptsType DEF CountsValid
  <2>4. CountsValid(r) /\ accepted
    <3> HIDE DEF accepted
    <3> QED
      BY <1>2, <2>2, <2>3, CheckedResult
  <2>5. r.count >= 1
    BY <2>4 DEF CountsValid
  <2> QED
    BY <1>1, <1>4, <2>4, <2>5, HoldingChecked DEF ReadCount
<1> QED
  BY <1>2, <1>3, <1>4

-----------------------------------------------------------------------------
(* Types *)

Inv == TypeOK /\ AtWork

LEMMA LimitFacts ==
  /\ Limits = {9, 10, 11, 12}
  /\ V_MIN_ON = 9 /\ V_MIN_OFF = 10 /\ V_MAX_ON = 11 /\ V_MAX_OFF = 12
BY DEF Limits, V_MIN_ON, V_MIN_OFF, V_MAX_ON, V_MAX_OFF

LEMMA ExceptType ==
  ASSUME NEW S, NEW T, NEW f \in [S -> T], NEW i \in S, NEW v \in T
  PROVE  [f EXCEPT ![i] = v] \in [S -> T]
OBVIOUS

LEMMA Bytes ==
  /\ \A n \in USHORT : n % 256 \in UCHAR
  /\ \A n \in UCHAR : n \in USHORT
  /\ \A n \in Int : n >= 0 /\ n <= 255 => n % 256 = n
<1>1. \A n \in Int : n >= 0 => n % 256 \in Int /\ n % 256 >= 0 /\ n % 256 <= 255
  OBVIOUS
<1>2. \A n \in Int : n <= 255 => n <= 65535
  OBVIOUS
<1>3. \A n \in Int : n >= 0 /\ n <= 255 => n % 256 = n
  OBVIOUS
<1>4. \A n \in USHORT : n % 256 \in UCHAR
  BY <1>1, InRange
<1>5. \A n \in UCHAR : n \in USHORT
  BY <1>2, InRange
<1> QED
  BY <1>3, <1>4, <1>5

LEMMA ForgottenType ==
  /\ Forgotten \in Requests /\ Forgotten \in RequestType
  /\ Handler(Forgotten).length \in 1 .. 253
<1>1. Forgotten \in Requests /\ Forgotten \in RequestType
  BY RequestAssumption DEF Forgotten
<1> QED
  BY <1>1, AnswerLength

LEMMA InvInit == Init => Inv
<1> SUFFICES ASSUME Init PROVE Inv
  OBVIOUS
<1>1. 0 \in UCHAR /\ 190 \in UCHAR /\ 199 \in UCHAR /\ 240 \in UCHAR /\ 250 \in UCHAR
      /\ 0 \in USHORT
  BY InRange
<1>2. Defaults \in [Limits -> UCHAR]
  BY <1>1 DEF Defaults
<1>3. [j \in Limits |-> 0] \in [Limits -> USHORT]
  BY <1>1
<1>4. request \in RequestType /\ answer.length \in 1 .. 253 /\ request \in Requests
  BY ForgottenType DEF Init
<1>5. TypeOK
  <2>1. usRegHoldingBuf \in [Limits -> USHORT] /\ setting \in [Limits -> UCHAR]
    BY <1>2, <1>3 DEF Init
  <2>2. /\ mbPc \in {"idle", "write", "read", "answer"} /\ iRegIndex \in USHORT
        /\ usNRegs \in 0 .. 125 /\ edit_id \in Limits /\ edit_data_buffer_byte \in USHORT
    BY <1>1, LimitFacts DEF Init
  <2>3. requests \in 0 .. MaxRequests /\ keys \in 0 .. MaxKeys
    BY BoundAssumption DEF Init
  <2>4. start_edit_flag \in BOOLEAN /\ stale \in BOOLEAN /\ careful \in BOOLEAN
    BY Zenon DEF Init
  <2> QED
    BY <1>4, <2>1, <2>2, <2>3, <2>4, Zenon DEF TypeOK
<1>6. AtWork
  BY <1>4 DEF Init, AtWork
<1> QED
  BY <1>5, <1>6 DEF Inv

\* The Modbus task enters a callback with the block that the handler has checked.
LEMMA ExecuteInv ==
  ASSUME Inv, Execute
  PROVE  Inv'
<1>1. PICK r \in Requests :
        /\ request' = r
        /\ answer' = Handler(r)
        /\ CASE Writes(r) -> /\ mbPc' = "write"
                             /\ iRegIndex' = WriteFirst(r) /\ usNRegs' = WriteCount(r)
             [] ~Writes(r) /\ Reads(r) -> Reading(r)
             [] OTHER -> Answering
  BY DEF Execute
<1>2. r \in RequestType /\ answer'.length \in 1 .. 253
  BY <1>1, RequestAssumption, AnswerLength
<1>3. /\ mbPc' \in {"write", "read", "answer"} /\ iRegIndex' \in USHORT /\ usNRegs' \in 0 .. 125
      /\ mbPc' = "write" => InHolding(iRegIndex', usNRegs')
      /\ mbPc' = "read" => InHolding(iRegIndex', usNRegs')
  <2>1. CASE Writes(r)
    <3>1. mbPc' = "write" /\ iRegIndex' = WriteFirst(r) /\ usNRegs' = WriteCount(r)
      BY <1>1, <2>1
    <3>2. InHolding(iRegIndex', usNRegs') /\ iRegIndex' \in USHORT /\ usNRegs' \in Int
      BY <1>2, <2>1, <3>1, WritesInside
    <3>3. usNRegs' >= 1 /\ usNRegs' <= 101
      BY <3>2, NextRegister
    <3> QED
      BY <3>1, <3>2, <3>3
  <2>2. CASE ~Writes(r) /\ Reads(r)
    <3>1. mbPc' = "read" /\ iRegIndex' = r.addr /\ usNRegs' = ReadCount(r)
      BY <1>1, <2>2 DEF Reading
    <3>2. InHolding(iRegIndex', usNRegs') /\ iRegIndex' \in USHORT /\ usNRegs' \in Int
      BY <1>2, <2>2, <3>1, ReadsInside
    <3>3. usNRegs' >= 1 /\ usNRegs' <= 101
      BY <3>2, NextRegister
    <3> QED
      BY <3>1, <3>2, <3>3
  <2>3. CASE ~Writes(r) /\ ~Reads(r)
    <3>1. mbPc' = "answer" /\ iRegIndex' = 0 /\ usNRegs' = 0
      BY <1>1, <2>3 DEF Answering
    <3> QED
      BY <3>1, InRange
  <2> QED
    BY <2>1, <2>2, <2>3
<1>4. requests' \in 0 .. MaxRequests
  BY BoundAssumption DEF Execute, Inv, TypeOK
<1>5. TypeOK'
  BY <1>1, <1>2, <1>3, <1>4 DEF Execute, Inv, TypeOK, menuVars
<1>6. AtWork'
  BY <1>1, <1>3 DEF AtWork
<1> QED
  BY <1>5, <1>6 DEF Inv

LEMMA WriteRegisterInv ==
  ASSUME Inv, WriteRegister
  PROVE  Inv'
<1>1. /\ iRegIndex \in USHORT /\ usNRegs \in Int /\ usNRegs > 0
      /\ iRegIndex' = iRegIndex + 1 /\ usNRegs' = usNRegs - 1
  BY DEF WriteRegister, Inv, TypeOK
<1>2. InHolding(iRegIndex, usNRegs)
  BY <1>1 DEF WriteRegister, Inv, AtWork
<1>3. /\ iRegIndex' \in USHORT /\ usNRegs' \in 0 .. 125
      /\ usNRegs' = 0 \/ InHolding(iRegIndex', usNRegs')
  BY <1>1, <1>2, NextRegister
<1>4. /\ usRegHoldingBuf' \in [Limits -> USHORT] /\ setting' \in [Limits -> UCHAR]
      /\ stale' \in BOOLEAN /\ careful' \in BOOLEAN
  <2>1. CASE iRegIndex \notin Limits
    BY <2>1 DEF WriteRegister, Inv, TypeOK
  <2>2. CASE iRegIndex \in Limits
    <3> DEFINE v == request.value[iRegIndex]
    <3>1. v \in USHORT /\ v % 256 \in UCHAR
      BY <2>2, RequestFields, Bytes DEF Inv, TypeOK
    <3>2. usRegHoldingBuf' = [usRegHoldingBuf EXCEPT ![iRegIndex] = v]
      BY <2>2 DEF WriteRegister
    <3>3. usRegHoldingBuf' \in [Limits -> USHORT]
      <4> HIDE DEF v
      <4> QED
        BY <2>2, <3>1, <3>2, ExceptType DEF Inv, TypeOK
    <3>4. careful' \in BOOLEAN
      BY <2>2, Zenon DEF WriteRegister, TakesCare
    <3>5. setting' = setting \/ setting' = [setting EXCEPT ![iRegIndex] = v % 256]
      BY <2>2 DEF WriteRegister, VerifyAndSetReg8
    <3>6. setting' \in [Limits -> UCHAR]
      <4> HIDE DEF v
      <4> QED
        BY <2>2, <3>1, <3>5, ExceptType DEF Inv, TypeOK
    <3>7. stale' \in BOOLEAN
      BY <2>2 DEF WriteRegister, Inv, TypeOK
    <3> QED
      BY <3>3, <3>4, <3>6, <3>7
  <2> QED
    BY <2>1, <2>2
<1>5. TypeOK'
  BY <1>3, <1>4 DEF WriteRegister, Inv, TypeOK, menuVars
<1>6. AtWork'
  BY <1>3 DEF WriteRegister, Inv, AtWork
<1> QED
  BY <1>5, <1>6 DEF Inv

LEMMA WrittenInv ==
  ASSUME Inv, Written
  PROVE  Inv'
<1>1. request \in RequestType /\ request' = request
  BY DEF Written, Inv, TypeOK
<1>2. /\ mbPc' \in {"read", "answer"} /\ iRegIndex' \in USHORT /\ usNRegs' \in 0 .. 125
      /\ mbPc' = "read" => InHolding(iRegIndex', usNRegs')
  <2>1. CASE Reads(request)
    <3>1. mbPc' = "read" /\ iRegIndex' = request.addr /\ usNRegs' = ReadCount(request)
      BY <2>1 DEF Written, Reading
    <3>2. InHolding(iRegIndex', usNRegs') /\ iRegIndex' \in USHORT /\ usNRegs' \in Int
      BY <1>1, <2>1, <3>1, ReadsInside
    <3>3. usNRegs' >= 1 /\ usNRegs' <= 101
      BY <3>2, NextRegister
    <3> QED
      BY <3>1, <3>2, <3>3
  <2>2. CASE ~Reads(request)
    <3>1. mbPc' = "answer" /\ iRegIndex' = 0 /\ usNRegs' = 0
      BY <2>2 DEF Written, Answering
    <3> QED
      BY <3>1, InRange
  <2> QED
    BY <2>1, <2>2
<1>3. TypeOK'
  BY <1>1, <1>2 DEF Written, Inv, TypeOK, menuVars
<1>4. AtWork'
  BY <1>1, <1>2 DEF Inv, AtWork
<1> QED
  BY <1>3, <1>4 DEF Inv

LEMMA ReadRegistersInv ==
  ASSUME Inv, ReadRegisters
  PROVE  Inv'
<1>1. usRegHoldingBuf' \in [Limits -> USHORT]
  BY Bytes DEF ReadRegisters, Inv, TypeOK
<1>2. mbPc' = "answer" /\ iRegIndex' \in USHORT /\ usNRegs' \in 0 .. 125
  BY InRange DEF ReadRegisters, Answering
<1>3. TypeOK'
  BY <1>1, <1>2 DEF ReadRegisters, Inv, TypeOK, menuVars
<1>4. AtWork'
  BY <1>2 DEF ReadRegisters, Inv, AtWork
<1> QED
  BY <1>3, <1>4 DEF Inv

LEMMA ReplyInv ==
  ASSUME Inv, Reply
  PROVE  Inv'
<1>1. /\ request' \in Requests /\ request' \in RequestType
      /\ answer'.length \in 1 .. 253 /\ mbPc' = "idle"
  BY ForgottenType DEF Reply
<1>2. TypeOK'
  BY <1>1 DEF Reply, Inv, TypeOK, menuVars
<1>3. AtWork'
  BY <1>1 DEF AtWork
<1> QED
  BY <1>2, <1>3 DEF Inv

\* The bounds of the editing are those of a register of 16 bits.
LEMMA EditBounds ==
  ASSUME Inv, NEW id \in Limits
  PROVE  MaxOf(id) \in USHORT /\ MinOf(id) \in USHORT
<1>1. \A j \in Limits : setting[j] \in Int /\ setting[j] >= 0 /\ setting[j] <= 255
  BY InRange DEF Inv, TypeOK
<1>2. V_MIN_ON \in Limits /\ V_MIN_OFF \in Limits /\ V_MAX_OFF \in Limits /\ V_MAX_ON \in Limits
  BY LimitFacts
<1>3. \A n \in Int : n % 65536 \in USHORT
  <2>1. \A n \in Int : n % 65536 \in Int /\ n % 65536 >= 0 /\ n % 65536 < 65536
    OBVIOUS
  <2>2. \A n \in Int : n < 65536 => n <= 65535
    OBVIOUS
  <2> QED
    BY <2>1, <2>2, InRange
<1>4. \A j \in Limits : setting[j] - 1 \in Int /\ setting[j] + 1 \in USHORT
  BY <1>1, InRange
<1>5. 255 \in Int /\ 100 \in USHORT
  BY InRange
<1>6. MaxOf(id) \in USHORT
  <2>1. Largest(id) \in Int
    BY <1>2, <1>4, <1>5, LimitFacts DEF Largest
  <2> QED
    BY <1>3, <2>1 DEF MaxOf
<1>7. MinOf(id) \in USHORT
  BY <1>2, <1>4, <1>5, LimitFacts DEF MinOf
<1> QED
  BY <1>6, <1>7

LEMMA StepType ==
  ASSUME NEW b \in USHORT, NEW c \in coof, NEW m \in USHORT
  PROVE  Inc(b, c, m) \in USHORT /\ Dec(b, c, m) \in USHORT
<1>1. /\ b \in Int /\ b >= 0 /\ m \in Int /\ m >= 0 /\ m <= 65535
      /\ c \in Int /\ c >= 1
  BY InRange DEF coof
<1>2. Inc(b, c, m) \in USHORT
  <2>1. CASE b + c <= m
    BY <1>1, <2>1, InRange DEF Inc
  <2>2. CASE ~(b + c <= m)
    BY <2>2 DEF Inc
  <2> QED
    BY <2>1, <2>2
<1>3. Dec(b, c, m) \in USHORT
  <2>1. \A n \in Int : n % 65536 \in USHORT
    <3>1. \A n \in Int : n % 65536 \in Int /\ n % 65536 >= 0 /\ n % 65536 < 65536
      OBVIOUS
    <3>2. \A n \in Int : n < 65536 => n <= 65535
      OBVIOUS
    <3> QED
      BY <3>1, <3>2, InRange
  <2>2. b - c \in Int
    BY <1>1
  <2>3. CASE b < m \/ b - m >= c
    BY <2>1, <2>2, <2>3 DEF Dec
  <2>4. CASE ~(b < m \/ b - m >= c)
    BY <2>4 DEF Dec
  <2> QED
    BY <2>3, <2>4
<1> QED
  BY <1>2, <1>3

LEMMA MenuInv ==
  ASSUME Inv, Menu
  PROVE  Inv'
<1>1. AtWork'
  BY DEF Menu, StartEdit, Key, SaveEdit, LeaveEdit, MenuOnly, mbVars, Inv, AtWork
<1>2. UNCHANGED <<usRegHoldingBuf, mbVars>>
  BY DEF Menu, StartEdit, Key, SaveEdit, LeaveEdit, MenuOnly
<1>3. /\ usRegHoldingBuf' \in [Limits -> USHORT]
      /\ request' \in RequestType /\ answer'.length \in 1 .. 253
      /\ mbPc' \in {"idle", "write", "read", "answer"} /\ iRegIndex' \in USHORT
      /\ usNRegs' \in 0 .. 125 /\ requests' \in 0 .. MaxRequests
  BY <1>2 DEF mbVars, Inv, TypeOK
<1>4. /\ setting' \in [Limits -> UCHAR] /\ edit_id' \in Limits
      /\ edit_data_buffer_byte' \in USHORT /\ keys' \in 0 .. MaxKeys
      /\ start_edit_flag' \in BOOLEAN /\ stale' \in BOOLEAN /\ careful' \in BOOLEAN
  <2>1. CASE StartEdit
    <3>1. setting' \in [Limits -> UCHAR] /\ keys' \in 0 .. MaxKeys /\ edit_id' \in Limits
      BY <2>1, BoundAssumption DEF StartEdit, Pressed, Inv, TypeOK
    <3>2. edit_data_buffer_byte' \in USHORT
      BY <2>1, Bytes DEF StartEdit, Inv, TypeOK
    <3>3. start_edit_flag' \in BOOLEAN /\ stale' \in BOOLEAN /\ careful' \in BOOLEAN
      BY <2>1, Zenon DEF StartEdit, Inv, TypeOK
    <3> QED
      BY <3>1, <3>2, <3>3, Zenon
  <2>2. CASE Key
    <3>1. setting' \in [Limits -> UCHAR] /\ keys' \in 0 .. MaxKeys /\ edit_id' \in Limits
      BY <2>2, BoundAssumption DEF Key, Pressed, Inv, TypeOK
    <3>2. edit_data_buffer_byte \in USHORT /\ edit_id \in Limits
      BY DEF Inv, TypeOK
    <3>3. MaxOf(edit_id) \in USHORT /\ MinOf(edit_id) \in USHORT
      BY <3>2, EditBounds
    <3>4. edit_data_buffer_byte' \in USHORT
      BY <2>2, <3>2, <3>3, StepType DEF Key
    <3>5. start_edit_flag' \in BOOLEAN /\ stale' \in BOOLEAN /\ careful' \in BOOLEAN
      BY <2>2, Zenon DEF Key, Inv, TypeOK
    <3> QED
      BY <3>1, <3>4, <3>5, Zenon
  <2>3. CASE SaveEdit
    <3>1. edit_data_buffer_byte % 256 \in UCHAR /\ edit_id \in Limits
      BY Bytes DEF Inv, TypeOK
    <3>2. setting' = [setting EXCEPT ![edit_id] = edit_data_buffer_byte % 256]
      BY <2>3 DEF SaveEdit, VerifyAndSetReg8
    <3>3. setting' \in [Limits -> UCHAR]
      BY <3>1, <3>2, ExceptType DEF Inv, TypeOK
    <3>4. keys' \in 0 .. MaxKeys /\ edit_id' \in Limits /\ edit_data_buffer_byte' \in USHORT
      BY <2>3, InRange DEF SaveEdit, Inv, TypeOK
    <3>5. start_edit_flag' \in BOOLEAN /\ stale' \in BOOLEAN /\ careful' \in BOOLEAN
      BY <2>3, Zenon DEF SaveEdit, Inv, TypeOK
    <3> QED
      BY <3>3, <3>4, <3>5, Zenon
  <2>4. CASE LeaveEdit
    <3>1. /\ setting' \in [Limits -> UCHAR] /\ keys' \in 0 .. MaxKeys /\ edit_id' \in Limits
          /\ edit_data_buffer_byte' \in USHORT
      BY <2>4, InRange DEF LeaveEdit, Inv, TypeOK
    <3>2. start_edit_flag' \in BOOLEAN /\ stale' \in BOOLEAN /\ careful' \in BOOLEAN
      BY <2>4, Zenon DEF LeaveEdit, Inv, TypeOK
    <3> QED
      BY <3>1, <3>2, Zenon
  <2> QED
    BY <2>1, <2>2, <2>3, <2>4 DEF Menu
<1>5. TypeOK'
  BY <1>3, <1>4, Zenon DEF TypeOK
<1> QED
  BY <1>1, <1>5 DEF Inv

LEMMA InvStep == Inv /\ [Next]_vars => Inv'
<1> SUFFICES ASSUME Inv, [Next]_vars PROVE Inv'
  OBVIOUS
<1>1. CASE Modbus
  BY <1>1, ExecuteInv, WriteRegisterInv, WrittenInv, ReadRegistersInv, ReplyInv DEF Modbus
<1>2. CASE Menu
  BY <1>2, MenuInv
<1>3. CASE UNCHANGED vars
  BY <1>3 DEF vars, mbVars, menuVars, Inv, TypeOK, AtWork
<1> QED
  BY <1>1, <1>2, <1>3 DEF Next

(* The types, for every set of requests. *)
THEOREM TypeCorrect == Spec => []TypeOK
<1>1. Inv => TypeOK
  BY DEF Inv
<1> QED
  BY <1>1, InvInit, InvStep, PTL DEF Spec

\* The answer is that of the last request.
AnswerInv == answer = Handler(request)

LEMMA AnswerStep == AnswerInv /\ [Next]_vars => AnswerInv'
<1> SUFFICES ASSUME AnswerInv, [Next]_vars PROVE AnswerInv'
  OBVIOUS
<1>1. CASE Execute
  BY <1>1 DEF Execute, AnswerInv
<1>2. CASE Reply
  BY <1>2 DEF Reply, AnswerInv
<1>3. CASE WriteRegister \/ Written \/ ReadRegisters
  BY <1>3 DEF WriteRegister, Written, ReadRegisters, AnswerInv
<1>4. CASE Menu
  BY <1>4 DEF Menu, StartEdit, Key, SaveEdit, LeaveEdit, MenuOnly, mbVars, AnswerInv
<1>5. CASE UNCHANGED vars
  BY <1>5 DEF vars, mbVars, AnswerInv
<1> QED
  BY <1>1, <1>2, <1>3, <1>4, <1>5 DEF Next, Modbus

(* Every request that is as long as it says is carried out if it is legal, and refused *)
(* with an exception if it is not.                                                      *)
THEOREM AnswersCorrect == Spec => []AnswersByTheBook
<1>1. Init => AnswerInv
  BY DEF Init, AnswerInv
<1>2. Inv /\ AnswerInv => AnswersByTheBook
  <2> SUFFICES ASSUME Inv, AnswerInv, WellSized(request)
               PROVE  answer.exception = "none" <=> Legal(request)
    BY DEF AnswersByTheBook
  <2>1. request \in RequestType
    BY DEF Inv, TypeOK
  <2> QED
    BY <2>1, HandlersByTheBook DEF AnswerInv
<1> QED
  BY <1>1, <1>2, AnswerStep, InvInit, InvStep, PTL DEF Spec

(* On a device whose registers follow the common ones (the FMCH) no request leads the  *)
(* callback outside its table of 151 registers.                                         *)
THEOREM AccessCorrect ==
  ASSUME reg_offset = 0, reg_count <= 50
  PROVE  Spec => []AccessInTable
<1>1. Inv => AccessInTable
  <2> SUFFICES ASSUME Inv, mbPc \in {"read", "write"}, NEW j \in Block(iRegIndex, usNRegs)
               PROVE  Place(j) \in Table /\ j \in Table
    BY DEF AccessInTable
  <2>1. iRegIndex \in USHORT /\ usNRegs \in Int /\ iRegIndex \in Int /\ iRegIndex >= 0
    BY InRange DEF Inv, TypeOK
  <2>2. j \in Int /\ j >= iRegIndex /\ j <= iRegIndex + usNRegs - 1
    BY <2>1 DEF Block
  <2>3. usNRegs # 0
    BY <2>1, <2>2
  <2>4. InHolding(iRegIndex, usNRegs)
    BY <2>3 DEF Inv, AtWork
  <2>5. reg_count \in Int
    BY DeviceAssumption
  <2>6. j >= 0 /\ j <= 149
    BY <2>1, <2>2, <2>4, <2>5, InHoldingBounds
  <2>7. j \in Table
    BY <2>2, <2>6 DEF Table
  <2>8. Place(j) = j
    BY <2>2 DEF Place
  <2> QED
    BY <2>7, <2>8
<1> QED
  BY <1>1, InvInit, InvStep, PTL DEF Spec

-----------------------------------------------------------------------------
(* The order of the limits *)

InOrderNow ==
  /\ setting[V_MIN_ON] >= 100
  /\ setting[V_MIN_ON] < setting[V_MIN_OFF]
  /\ setting[V_MIN_OFF] < setting[V_MAX_OFF]
  /\ setting[V_MAX_OFF] < setting[V_MAX_ON]

\* What the menu would save keeps the order.
EditFits ==
  /\ edit_data_buffer_byte \in Int
  /\ edit_id = V_MIN_ON => edit_data_buffer_byte >= 100
                           /\ edit_data_buffer_byte < setting[V_MIN_OFF]
  /\ edit_id = V_MIN_OFF => edit_data_buffer_byte > setting[V_MIN_ON]
                            /\ edit_data_buffer_byte < setting[V_MAX_OFF]
  /\ edit_id = V_MAX_OFF => edit_data_buffer_byte > setting[V_MIN_OFF]
                            /\ edit_data_buffer_byte < setting[V_MAX_ON]
  /\ edit_id = V_MAX_ON => edit_data_buffer_byte > setting[V_MAX_OFF]
                           /\ edit_data_buffer_byte <= 255

LimitInv ==
  careful => InOrderNow /\ (start_edit_flag /\ ~stale => EditFits)

LEMMA SettingType ==
  ASSUME Inv
  PROVE  /\ \A j \in Limits : setting[j] \in Int /\ setting[j] >= 0 /\ setting[j] <= 255
         /\ V_MIN_ON \in Limits /\ V_MIN_OFF \in Limits
         /\ V_MAX_OFF \in Limits /\ V_MAX_ON \in Limits
<1>1. \A j \in Limits : setting[j] \in Int /\ setting[j] >= 0 /\ setting[j] <= 255
  BY InRange DEF Inv, TypeOK
<1> QED
  BY <1>1, LimitFacts

\* One limit replaced by a value that is between its neighbours.
LEMMA Replaced ==
  ASSUME Inv, InOrderNow, NEW i \in Limits, NEW v \in Int, v >= 100, v <= 255,
         setting' = [setting EXCEPT ![i] = v],
         i = V_MIN_ON => v < setting[V_MIN_OFF],
         i = V_MIN_OFF => v > setting[V_MIN_ON] /\ v < setting[V_MAX_OFF],
         i = V_MAX_OFF => v > setting[V_MIN_OFF] /\ v < setting[V_MAX_ON],
         i = V_MAX_ON => v > setting[V_MAX_OFF]
  PROVE  InOrderNow'
<1>1. \A j \in Limits : setting'[j] = IF j = i THEN v ELSE setting[j]
  BY DEF Inv, TypeOK
<1>2. /\ setting'[V_MIN_ON] = IF i = V_MIN_ON THEN v ELSE setting[V_MIN_ON]
      /\ setting'[V_MIN_OFF] = IF i = V_MIN_OFF THEN v ELSE setting[V_MIN_OFF]
      /\ setting'[V_MAX_OFF] = IF i = V_MAX_OFF THEN v ELSE setting[V_MAX_OFF]
      /\ setting'[V_MAX_ON] = IF i = V_MAX_ON THEN v ELSE setting[V_MAX_ON]
  BY <1>1, SettingType
<1>3. i \in {9, 10, 11, 12}
  BY LimitFacts
<1>4. CASE i = V_MIN_ON
  BY <1>2, <1>4, LimitFacts, SettingType DEF InOrderNow
<1>5. CASE i = V_MIN_OFF
  BY <1>2, <1>5, LimitFacts, SettingType DEF InOrderNow
<1>6. CASE i = V_MAX_OFF
  BY <1>2, <1>6, LimitFacts, SettingType DEF InOrderNow
<1>7. CASE i = V_MAX_ON
  BY <1>2, <1>7, LimitFacts, SettingType DEF InOrderNow
<1> QED
  BY <1>3, <1>4, <1>5, <1>6, <1>7, LimitFacts

LEMMA LimitInit == Init => LimitInv
<1> SUFFICES ASSUME Init PROVE LimitInv
  OBVIOUS
<1>1. start_edit_flag = FALSE /\ setting = Defaults
  BY DEF Init
<1>2. /\ Defaults[V_MIN_ON] = 190 /\ Defaults[V_MIN_OFF] = 199
      /\ Defaults[V_MAX_OFF] = 240 /\ Defaults[V_MAX_ON] = 250
  BY LimitFacts DEF Defaults
<1>3. InOrderNow
  BY <1>1, <1>2 DEF InOrderNow
<1> QED
  BY <1>1, <1>3 DEF LimitInv

\* A write that the table lets pass keeps the order when the table is up to date.
LEMMA LimitWrite ==
  ASSUME Inv, LimitInv, WriteRegister
  PROVE  LimitInv'
<1>1. CASE iRegIndex \notin Limits
  BY <1>1 DEF WriteRegister, menuVars, LimitInv, InOrderNow, EditFits
<1>2. CASE iRegIndex \in Limits
  <2> DEFINE v == request.value[iRegIndex]
  <2> SUFFICES ASSUME careful' PROVE InOrderNow' /\ (start_edit_flag' /\ ~stale' => EditFits')
    BY DEF LimitInv
  <2>1. careful /\ TakesCare(iRegIndex, v)
    BY <1>2, Zenon DEF WriteRegister
  <2>2. InOrderNow /\ (start_edit_flag /\ ~stale => EditFits)
    BY <2>1 DEF LimitInv
  <2>3. UNCHANGED <<start_edit_flag, edit_id, edit_data_buffer_byte>>
    BY DEF WriteRegister, menuVars
  <2>4. CASE InOrder(iRegIndex, v, usRegHoldingBuf')
    <3>1. stale' = TRUE /\ setting' = [setting EXCEPT ![iRegIndex] = v % 256]
      BY <1>2, <2>4 DEF WriteRegister, VerifyAndSetReg8
    <3>2. v \in Int /\ v >= 100 /\ v <= 255
      <4> HIDE DEF v
      <4> QED
        BY <2>1 DEF TakesCare
    <3>3. setting' = [setting EXCEPT ![iRegIndex] = v]
      <4> HIDE DEF v
      <4>1. v % 256 = v
        BY <3>2, Bytes
      <4> QED
        BY <3>1, <4>1
    <3>4. \A j \in Limits \ {iRegIndex} : usRegHoldingBuf'[j] = setting[j]
      <4>1. usRegHoldingBuf' = [usRegHoldingBuf EXCEPT ![iRegIndex] = v]
        BY <1>2 DEF WriteRegister
      <4>2. \A j \in Limits \ {iRegIndex} : usRegHoldingBuf[j] = setting[j]
        <5> HIDE DEF v
        <5> QED
          BY <2>1 DEF TakesCare
      <4> HIDE DEF v
      <4> QED
        BY <4>1, <4>2 DEF Inv, TypeOK
    <3>5. /\ iRegIndex = V_MIN_ON => v < usRegHoldingBuf'[V_MIN_OFF]
          /\ iRegIndex = V_MIN_OFF => v > usRegHoldingBuf'[V_MIN_ON] /\ v < usRegHoldingBuf'[V_MAX_OFF]
          /\ iRegIndex = V_MAX_OFF => v > usRegHoldingBuf'[V_MIN_OFF] /\ v < usRegHoldingBuf'[V_MAX_ON]
          /\ iRegIndex = V_MAX_ON => v > usRegHoldingBuf'[V_MAX_OFF]
      <4> HIDE DEF v
      <4>1. CASE iRegIndex = V_MIN_ON
        BY <2>4, <4>1, LimitFacts DEF InOrder
      <4>2. CASE iRegIndex = V_MIN_OFF
        <5>1. iRegIndex # V_MIN_ON
          BY <4>2, LimitFacts
        <5> QED
          BY <2>4, <4>2, <5>1, LimitFacts DEF InOrder
      <4>3. CASE iRegIndex = V_MAX_OFF
        <5>1. iRegIndex # V_MIN_ON /\ iRegIndex # V_MIN_OFF
          BY <4>3, LimitFacts
        <5> QED
          BY <2>4, <4>3, <5>1, LimitFacts DEF InOrder
      <4>4. CASE iRegIndex = V_MAX_ON
        <5>1. iRegIndex # V_MIN_ON /\ iRegIndex # V_MIN_OFF /\ iRegIndex # V_MAX_OFF
          BY <4>4, LimitFacts
        <5> QED
          BY <2>4, <4>4, <5>1, LimitFacts DEF InOrder
      <4> QED
        BY <4>1, <4>2, <4>3, <4>4
    <3>6. /\ iRegIndex = V_MIN_ON => v < setting[V_MIN_OFF]
          /\ iRegIndex = V_MIN_OFF => v > setting[V_MIN_ON] /\ v < setting[V_MAX_OFF]
          /\ iRegIndex = V_MAX_OFF => v > setting[V_MIN_OFF] /\ v < setting[V_MAX_ON]
          /\ iRegIndex = V_MAX_ON => v > setting[V_MAX_OFF]
      <4> HIDE DEF v
      <4> QED
        BY <3>4, <3>5, LimitFacts
    <3>7. InOrderNow'
      <4> HIDE DEF v
      <4> QED
        BY <1>2, <2>2, <3>2, <3>3, <3>6, Replaced
    <3> QED
      BY <3>1, <3>7
  <2>5. CASE ~InOrder(iRegIndex, v, usRegHoldingBuf')
    <3>1. UNCHANGED <<setting, stale>>
      BY <1>2, <2>5 DEF WriteRegister
    <3> QED
      BY <2>2, <2>3, <3>1 DEF InOrderNow, EditFits
  <2> QED
    BY <2>4, <2>5
<1> QED
  BY <1>1, <1>2

LEMMA LimitStart ==
  ASSUME Inv, LimitInv, StartEdit
  PROVE  LimitInv'
<1> SUFFICES ASSUME careful' PROVE InOrderNow' /\ EditFits'
  BY DEF LimitInv
<1>1. careful /\ setting' = setting
  BY DEF StartEdit
<1>2. InOrderNow
  BY <1>1 DEF LimitInv
<1>3. edit_id' \in Limits /\ edit_data_buffer_byte' = setting[edit_id']
  BY DEF StartEdit
<1>4. EditFits'
  BY <1>1, <1>2, <1>3, SettingType, LimitFacts DEF EditFits, InOrderNow
<1> QED
  BY <1>1, <1>2, <1>4 DEF InOrderNow

LEMMA Stepped ==
  ASSUME NEW b \in Int, NEW c \in Int, c >= 1, NEW lo \in Int, NEW hi \in Int,
         0 <= lo, lo <= b, b <= hi, hi <= 255
  PROVE  /\ lo <= Inc(b, c, hi) /\ Inc(b, c, hi) <= hi /\ Inc(b, c, hi) \in Int
         /\ lo <= Dec(b, c, lo) /\ Dec(b, c, lo) <= hi /\ Dec(b, c, lo) \in Int
<1>1. lo <= Inc(b, c, hi) /\ Inc(b, c, hi) <= hi /\ Inc(b, c, hi) \in Int
  BY DEF Inc
<1>2. CASE b - lo >= c
  <2>1. b - c \in Int /\ b - c >= 0 /\ b - c < 65536
    BY <1>2
  <2>2. (b - c) % 65536 = b - c
    BY <2>1
  <2>3. Dec(b, c, lo) = b - c
    BY <1>2, <2>2 DEF Dec
  <2> QED
    BY <1>1, <1>2, <2>3
<1>3. CASE ~(b - lo >= c)
  <2>1. Dec(b, c, lo) = lo
    BY <1>3 DEF Dec
  <2> QED
    BY <1>1, <2>1
<1> QED
  BY <1>2, <1>3

\* Each key press keeps to the bounds, which the order of the limits makes sense of.
LEMMA LimitKey ==
  ASSUME Inv, LimitInv, Key
  PROVE  LimitInv'
<1> SUFFICES ASSUME careful', start_edit_flag', ~stale', InOrderNow, EditFits
             PROVE  EditFits'
  BY DEF LimitInv, Key, InOrderNow
<1> DEFINE lo == MinOf(edit_id)
<1> DEFINE hi == MaxOf(edit_id)
<1> DEFINE b == edit_data_buffer_byte
<1>1. edit_id \in Limits /\ edit_id' = edit_id /\ setting' = setting
  BY DEF Key, Inv, TypeOK
<1>2. PICK c \in coof : \/ edit_data_buffer_byte' = Inc(b, c, hi)
                        \/ edit_data_buffer_byte' = Dec(b, c, lo)
  BY DEF Key
<1>3. c \in Int /\ c >= 1
  BY DEF coof
<1>4. \A n \in Int : n >= 0 /\ n <= 255 => n % 65536 = n
  <2>1. \A n \in Int : n <= 255 => n < 65536
    OBVIOUS
  <2> QED
    BY <2>1
<1>5. /\ b \in Int /\ lo \in Int /\ hi \in Int /\ 0 <= lo /\ lo <= b /\ b <= hi /\ hi <= 255
      /\ edit_id = V_MIN_ON => lo = 100 /\ hi = setting[V_MIN_OFF] - 1
      /\ edit_id = V_MIN_OFF => lo = setting[V_MIN_ON] + 1 /\ hi = setting[V_MAX_OFF] - 1
      /\ edit_id = V_MAX_OFF => lo = setting[V_MIN_OFF] + 1 /\ hi = setting[V_MAX_ON] - 1
      /\ edit_id = V_MAX_ON => lo = setting[V_MAX_OFF] + 1 /\ hi = 255
  <2>1. CASE edit_id = V_MIN_ON
    <3>1. setting[V_MIN_OFF] - 1 \in Int /\ setting[V_MIN_OFF] - 1 >= 0 /\ setting[V_MIN_OFF] - 1 <= 255
      BY SettingType DEF InOrderNow
    <3>2. lo = 100 /\ Largest(edit_id) = setting[V_MIN_OFF] - 1
      BY <2>1, LimitFacts DEF MinOf, Largest
    <3>3. hi = setting[V_MIN_OFF] - 1
      BY <1>4, <3>1, <3>2 DEF MaxOf
    <3> HIDE DEF lo, hi
    <3> QED
      BY <2>1, <3>1, <3>2, <3>3, LimitFacts, SettingType DEF EditFits
  <2>2. CASE edit_id = V_MIN_OFF
    <3>1. setting[V_MAX_OFF] - 1 \in Int /\ setting[V_MAX_OFF] - 1 >= 0 /\ setting[V_MAX_OFF] - 1 <= 255
      BY SettingType DEF InOrderNow
    <3>2. edit_id # V_MIN_ON
      BY <2>2, LimitFacts
    <3>3. lo = setting[V_MIN_ON] + 1 /\ Largest(edit_id) = setting[V_MAX_OFF] - 1
      BY <2>2, <3>2, LimitFacts DEF MinOf, Largest
    <3>4. hi = setting[V_MAX_OFF] - 1
      BY <1>4, <3>1, <3>3 DEF MaxOf
    <3> HIDE DEF lo, hi
    <3> QED
      BY <2>2, <3>1, <3>3, <3>4, LimitFacts, SettingType DEF EditFits
  <2>3. CASE edit_id = V_MAX_OFF
    <3>1. setting[V_MAX_ON] - 1 \in Int /\ setting[V_MAX_ON] - 1 >= 0 /\ setting[V_MAX_ON] - 1 <= 255
      BY SettingType DEF InOrderNow
    <3>2. edit_id # V_MIN_ON /\ edit_id # V_MIN_OFF
      BY <2>3, LimitFacts
    <3>3. lo = setting[V_MIN_OFF] + 1 /\ Largest(edit_id) = setting[V_MAX_ON] - 1
      BY <2>3, <3>2, LimitFacts DEF MinOf, Largest
    <3>4. hi = setting[V_MAX_ON] - 1
      BY <1>4, <3>1, <3>3 DEF MaxOf
    <3> HIDE DEF lo, hi
    <3> QED
      BY <2>3, <3>1, <3>3, <3>4, LimitFacts, SettingType DEF EditFits
  <2>4. CASE edit_id = V_MAX_ON
    <3>1. edit_id # V_MIN_ON /\ edit_id # V_MIN_OFF /\ edit_id # V_MAX_OFF
      BY <2>4, LimitFacts
    <3>2. lo = setting[V_MAX_OFF] + 1 /\ Largest(edit_id) = 255
      BY <2>4, <3>1, LimitFacts DEF MinOf, Largest
    <3>3. hi = 255
      BY <1>4, <3>2 DEF MaxOf
    <3> HIDE DEF lo, hi
    <3> QED
      BY <2>4, <3>2, <3>3, LimitFacts, SettingType DEF EditFits
  <2> QED
    BY <1>1, <2>1, <2>2, <2>3, <2>4 DEF Limits
<1>6. /\ edit_data_buffer_byte' \in Int
      /\ lo <= edit_data_buffer_byte' /\ edit_data_buffer_byte' <= hi
  <2>1. /\ lo <= Inc(b, c, hi) /\ Inc(b, c, hi) <= hi /\ Inc(b, c, hi) \in Int
        /\ lo <= Dec(b, c, lo) /\ Dec(b, c, lo) <= hi /\ Dec(b, c, lo) \in Int
    <3>1. /\ b \in Int /\ lo \in Int /\ hi \in Int
          /\ 0 <= lo /\ lo <= b /\ b <= hi /\ hi <= 255
      BY <1>5
    <3> HIDE DEF lo, hi, b
    <3> QED
      BY <1>3, <3>1, Stepped
  <2> HIDE DEF lo, hi, b
  <2> QED
    BY <1>2, <2>1
<1> HIDE DEF lo, hi
<1> QED
  BY <1>1, <1>5, <1>6, LimitFacts, SettingType DEF EditFits

LEMMA LimitSave ==
  ASSUME Inv, LimitInv, SaveEdit
  PROVE  LimitInv'
<1> SUFFICES ASSUME careful' PROVE InOrderNow' /\ start_edit_flag' = FALSE
  BY DEF LimitInv
<1>1. careful /\ ~stale /\ start_edit_flag /\ start_edit_flag' = FALSE
  BY Zenon DEF SaveEdit
<1>2. InOrderNow /\ EditFits
  BY <1>1 DEF LimitInv
<1>3. /\ edit_id \in Limits
      /\ setting' = [setting EXCEPT ![edit_id] = edit_data_buffer_byte % 256]
  BY DEF SaveEdit, VerifyAndSetReg8, Inv, TypeOK
<1>4. edit_data_buffer_byte \in Int /\ edit_data_buffer_byte >= 100 /\ edit_data_buffer_byte <= 255
  BY <1>2, <1>3, LimitFacts, SettingType DEF EditFits, InOrderNow
<1>5. setting' = [setting EXCEPT ![edit_id] = edit_data_buffer_byte]
  <2>1. edit_data_buffer_byte % 256 = edit_data_buffer_byte
    BY <1>4, Bytes
  <2> QED
    BY <1>3, <2>1
<1>6. InOrderNow'
  BY <1>2, <1>3, <1>4, <1>5, Replaced DEF EditFits
<1> QED
  BY <1>1, <1>6

LEMMA LimitStep == Inv /\ LimitInv /\ [Next]_vars => LimitInv'
<1> SUFFICES ASSUME Inv, LimitInv, [Next]_vars PROVE LimitInv'
  OBVIOUS
<1>1. CASE WriteRegister
  BY <1>1, LimitWrite
<1>2. CASE Execute \/ Written \/ ReadRegisters \/ Reply
  BY <1>2 DEF Execute, Written, ReadRegisters, Reply, menuVars, LimitInv, InOrderNow, EditFits
<1>3. CASE StartEdit
  BY <1>3, LimitStart
<1>4. CASE Key
  BY <1>4, LimitKey
<1>5. CASE SaveEdit
  BY <1>5, LimitSave
<1>6. CASE LeaveEdit
  BY <1>6 DEF LeaveEdit, LimitInv, InOrderNow
<1>7. CASE UNCHANGED vars
  BY <1>7 DEF vars, menuVars, LimitInv, InOrderNow, EditFits
<1> QED
  BY <1>1, <1>2, <1>3, <1>4, <1>5, <1>6, <1>7 DEF Next, Modbus, Menu

(* The limits of the mains voltage stay in order while nobody relies on an outdated     *)
(* limit, whatever is written and whichever keys are pressed.                            *)
THEOREM LimitsCorrect == Spec => []LimitsOrdered
<1>1. LimitInv => LimitsOrdered
  BY DEF LimitInv, InOrderNow, LimitsOrdered
<1> QED
  BY <1>1, LimitInit, LimitStep, InvInit, InvStep, PTL DEF Spec

=============================================================================
