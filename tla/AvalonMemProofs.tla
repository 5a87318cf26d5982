--------------------------- MODULE AvalonMemProofs ---------------------------
(***************************************************************************)
(* Proofs about AvalonMem: the bus that splits accesses into doublewords   *)
(* and shares them between four ports implements the byte memory of module *)
(* ByteMemory, for every size of the memory, every length of a code line   *)
(* that its counter can hold and every set of requests.                    *)
(***************************************************************************)
EXTENDS AvalonMem, TLAPS

----------------------------------------------------------------------------
(* Doublewords and bytes.                                                  *)

LEMMA AddressParts ==
  ASSUME NEW a \in Address
  PROVE  /\ a = 4 * WordOf(a) + Offset(a)
         /\ WordOf(a) = a \div 4
         /\ WordOf(a) \in 0 .. Words - 1
         /\ Offset(a) \in Lane
BY BusAssumption DEF Address, Size, WordOf, Offset, Lane

LEMMA EvenOffset ==
  ASSUME NEW a \in Nat, a % 2 = 0
  PROVE  a % 4 = 0 \/ a % 4 = 2
OBVIOUS

LEMMA WordOffset ==
  ASSUME NEW a \in Address, a % 2 = 0
  PROVE  Offset(a) \in {0, 2}
BY EvenOffset, BusAssumption DEF Offset, Address, Size

LEMMA SizeNat == Size \in Nat \ {0}
BY BusAssumption DEF Size

LEMMA Division ==
  ASSUME NEW n \in Nat \ {0}, NEW x \in Int
  PROVE  /\ x \div n \in Int /\ x % n \in 0 .. n - 1
         /\ x = n * (x \div n) + (x % n)
OBVIOUS

LEMMA Remainder ==
  ASSUME NEW n \in Nat \ {0}, NEW q \in Int, NEW r \in 0 .. n - 1
  PROVE  (q * n + r) % n = r
OBVIOUS

\* Byte i of an access that starts at a is in lane j % 4 of the doubleword j \div 4
\* after the first, where j counts from the lane the access starts in.
LEMMA ByteOf ==
  ASSUME NEW a \in Address, NEW i \in Nat
  PROVE  LET j == Offset(a) + i
         IN  (a + i) % Size = 4 * ((WordOf(a) + (j \div 4)) % Words) + (j % 4)
<1> DEFINE j == Offset(a) + i
           v == WordOf(a) + (j \div 4)
           t == v \div Words
           r == 4 * (v % Words) + (j % 4)
<1>1. WordOf(a) \in 0 .. Words - 1 /\ Offset(a) \in 0 .. 3 /\ a = 4 * WordOf(a) + Offset(a)
  BY AddressParts DEF Lane
<1>2. j \in Nat
  BY <1>1
<1>3. a + i = 4 * WordOf(a) + j
  BY <1>1, BusAssumption DEF Address, Size
<1> HIDE DEF j
<1>4. j \div 4 \in Nat /\ j % 4 \in 0 .. 3 /\ j = 4 * (j \div 4) + (j % 4)
  BY <1>2
<1>5. v \in Nat /\ a + i = 4 * v + (j % 4)
  BY <1>1, <1>3, <1>4, BusAssumption
<1> HIDE DEF v
<1>6. t \in Int /\ v % Words \in 0 .. Words - 1 /\ v = Words * t + (v % Words)
  BY <1>5, Division, BusAssumption
<1> HIDE DEF t
<1>7. r \in 0 .. Size - 1
  BY <1>4, <1>6, BusAssumption DEF Size
<1>8. a + i = t * Size + r
  <2>1. 4 * (Words * t + (v % Words)) = t * (4 * Words) + 4 * (v % Words)
    BY <1>6, BusAssumption
  <2>2. a + i = t * (4 * Words) + 4 * (v % Words) + (j % 4)
    BY <1>5, <1>6, <2>1
  <2>3. QED  BY <2>2, <1>4, <1>6, BusAssumption DEF Size
<1> HIDE DEF r
<1>9. (t * Size + r) % Size = r
  BY <1>6, <1>7, SizeNat, Remainder
<1>10. QED  BY <1>8, <1>9 DEF r, v, j

\* The position of a byte b in an access that starts at a.
LEMMA PositionOf ==
  ASSUME NEW a \in Address, NEW b \in Address
  PROVE  Abstract!Position(b, a) = IF a <= b THEN b - a ELSE b - a + Size
<1>1. CASE a <= b
  BY <1>1, SizeNat DEF Address, Abstract!Position, Abstract!Size, Size
<1>2. CASE b < a
  BY <1>2, SizeNat DEF Address, Abstract!Position, Abstract!Size, Size
<1>3. QED  BY <1>1, <1>2 DEF Address
----------------------------------------------------------------------------
(* The inductive invariant: while a read is under way its request stays,   *)
(* the memory still owes as many doublewords as the counter says, from the *)
(* place they belong to, and the doublewords that already came are where   *)
(* the last one will look for them.                                        *)

\* Doubleword k of an access that starts at a.
NthWord(a, k) == (WordOf(a) + k) % Words

Requests == /\ wr \in CpuWrites \cup {None}
            /\ rd \in CpuReads \cup {None}
            /\ cd \in CodeReads \cup {None}
            /\ dma \in DmaWrites \cup DmaReads \cup {None}

CpuBurst == state = "READ" =>
  LET n == save_readburst IN
  /\ rd \in CpuReads
  /\ n = ReadDwords(Offset(rd.addr), rd.len)
  /\ readaddrmux = Offset(rd.addr)
  /\ counter \in 0 .. n - 1
  /\ owed = counter + 1
  /\ next = NthWord(rd.addr, n - owed)
  /\ n >= 2 /\ counter < n - 1 => bus_1 = MemoryDword(NthWord(rd.addr, 0))
  /\ n = 3 /\ counter = 0 => bus_0 = MemoryDword(NthWord(rd.addr, 1))

LineBurst == state = "READ_CODE" =>
  /\ cd \in CodeReads
  /\ counter \in 0 .. CodeBurst - 1
  /\ owed = counter + 1
  /\ next = NthWord(cd.addr, CodeBurst - owed)

DmaAccess == /\ state = "READ_DMA" => dma \in DmaReads /\ next = WordOf(dma.addr)
             /\ state = "WRITE_DMA" => dma \in DmaWrites

Second == byteenable_next \in SUBSET Lane /\ writedata_next \in Dword

IInv == /\ mem \in [Address -> Int]
        /\ Requests /\ Second
        /\ CpuBurst /\ LineBurst /\ DmaAccess

LEMMA NextWord ==
  ASSUME NEW a \in Address, NEW k \in Nat
  PROVE  /\ NthWord(a, k) \in 0 .. Words - 1
         /\ NthWord(a, 0) = WordOf(a)
         /\ (NthWord(a, k) + 1) % Words = NthWord(a, k + 1)
<1> DEFINE x == WordOf(a) + k
           q == x \div Words
           m == x % Words
<1>1. WordOf(a) \in 0 .. Words - 1
  BY AddressParts
<1>2. WordOf(a) % Words = WordOf(a)
  BY <1>1, BusAssumption
<1>3. x \in Nat /\ NthWord(a, k) = x % Words /\ NthWord(a, k + 1) = (x + 1) % Words
  BY <1>1 DEF NthWord
<1>4. NthWord(a, 0) = WordOf(a)
  BY <1>1, <1>2, BusAssumption DEF NthWord
<1> HIDE DEF x
<1>5. q \in Int /\ m \in 0 .. Words - 1 /\ x = Words * q + m
  BY <1>3, Division, BusAssumption
<1>6. (m + 1) % Words = (x + 1) % Words
  <2> HIDE DEF q, m
  <2>1. CASE m + 1 < Words
    <3>1. m + 1 \in 0 .. Words - 1 /\ x + 1 = q * Words + (m + 1)
      BY <1>5, <2>1, BusAssumption
    <3> DEFINE r == m + 1
    <3> HIDE DEF r
    <3>2. (q * Words + r) % Words = r
      BY <1>5, <3>1, Remainder, BusAssumption DEF r
    <3>3. r % Words = r
      BY <3>1, BusAssumption DEF r
    <3>4. QED  BY <3>1, <3>2, <3>3 DEF r
  <2>2. CASE m + 1 = Words
    <3> DEFINE t == q + 1
    <3>1. t \in Int /\ x + 1 = t * Words + 0
      BY <1>5, <2>2, BusAssumption
    <3> HIDE DEF t
    <3>2. (t * Words + 0) % Words = 0
      BY <3>1, Remainder, BusAssumption
    <3>3. Words % Words = 0
      BY BusAssumption
    <3>4. QED  BY <2>2, <3>1, <3>2, <3>3
  <2>3. QED  BY <1>5, <2>1, <2>2, BusAssumption
<1>7. QED  BY <1>3, <1>4, <1>5, <1>6

LEMMA NotNone == None \notin CpuWrites \cup CpuReads \cup CodeReads \cup DmaWrites \cup DmaReads
BY RequestsAssumption DEF None

LEMMA Burst ==
  ASSUME NEW off \in Lane, NEW len \in 1 .. 8
  PROVE  /\ ReadDwords(off, len) \in 1 .. 3
         /\ 4 * (ReadDwords(off, len) - 1) < off + len
         /\ off + len <= 4 * ReadDwords(off, len)
BY DEF ReadDwords, Lane

LEMMA InitIInv == Init => IInv
BY RequestsAssumption DEF Init, IInv, Requests, Second, Dword, ZeroDword, Lane, CpuBurst, LineBurst, DmaAccess

LEMMA WrittenType ==
  ASSUME mem \in [Address -> Int], NEW w, NEW lanes \in SUBSET Lane, NEW data \in Dword
  PROVE  Written(w, lanes, data) \in [Address -> Int]
BY SizeNat DEF Written, Address, Lane, Dword

LEMMA Lanes ==
  ASSUME NEW off \in Lane, NEW len \in 1 .. 4
  PROVE  ByteEnable0(off, len) \in SUBSET Lane /\ ByteEnable1(off, len) \in SUBSET Lane
BY DEF ByteEnable0, ByteEnable1, Lane

LEMMA ShiftedType ==
  ASSUME NEW w \in CpuWrites, NEW k \in Int
  PROVE  Shifted(w, k) \in Int
BY RequestsAssumption DEF Shifted, Dword

LEMMA DmaTypes ==
  ASSUME NEW d \in DmaWrites
  PROVE  DmaLanes(d) \in SUBSET Lane /\ DmaData(d) \in Dword
<1>1. /\ d.addr \in Address /\ d.len \in {1, 2} /\ d.data \in [Lane -> Int]
      /\ d.len = 2 => d.addr % 2 = 0
  BY RequestsAssumption DEF Dword
<1>2. Offset(d.addr) \in Lane
  BY <1>1, AddressParts
<1>3. d.len = 2 => Offset(d.addr) + 1 \in Lane
  BY <1>1, <1>2, WordOffset DEF Lane
<1>4. \A l \in Lane : l % 2 \in Lane
  BY DEF Lane
<1>5. QED  BY <1>1, <1>2, <1>3, <1>4 DEF DmaLanes, DmaData, Dword, Lane

\* Every step keeps the inductive invariant.
LEMMA NextIInv == IInv /\ [Next]_vars => IInv'
<1> SUFFICES ASSUME IInv, [Next]_vars
             PROVE  IInv'
  OBVIOUS
<1> USE DEF IInv, Requests, Second
<1>1. CASE Raise
  <2>1. UNCHANGED <<mem, owed, next, state, burst, second>> /\ Requests'
    BY <1>1 DEF Raise
  <2>2. /\ state = "READ" => UNCHANGED rd
        /\ state = "READ_CODE" => UNCHANGED cd
        /\ state \in {"READ_DMA", "WRITE_DMA"} => UNCHANGED dma
    BY <1>1, NotNone DEF Raise, CpuBurst, LineBurst, DmaAccess
  <2>3. QED  BY <2>1, <2>2 DEF CpuBurst, LineBurst, DmaAccess, burst, second, MemoryDword
<1>2. CASE AcceptWrite
  <2>1. wr \in CpuWrites /\ wr.addr \in Address /\ wr.len \in 1 .. 4
    BY <1>2, RequestsAssumption DEF AcceptWrite
  <2>2. \A k \in Int : Shifted(wr, k) \in Int
    BY <2>1, ShiftedType
  <2>3. Offset(wr.addr) \in Lane
    BY <2>1, AddressParts
  <2>4. mem' \in [Address -> Int]
    <3>1. [l \in Lane |-> Shifted(wr, l)] \in Dword
      BY <2>2 DEF Dword, Lane
    <3>2. QED  BY <1>2, <2>1, <2>3, <3>1, Lanes, WrittenType DEF AcceptWrite, StoreDword
  <2>5. writedata_next' \in Dword /\ byteenable_next' \in SUBSET Lane
    BY <1>2, <2>1, <2>2, <2>3, Lanes DEF AcceptWrite, Dword, Lane
  <2>6. state' \in {"IDLE", "WRITE"} /\ wr' = None /\ UNCHANGED <<rd, cd, dma>>
    BY <1>2 DEF AcceptWrite
  <2>7. QED  BY <2>4, <2>5, <2>6 DEF CpuBurst, LineBurst, DmaAccess
<1>3. CASE WriteSecond
  <2>1. mem' \in [Address -> Int]
    BY <1>3, WrittenType DEF WriteSecond, StoreDword
  <2>2. QED  BY <1>3, <2>1 DEF WriteSecond, ports, second, CpuBurst, LineBurst, DmaAccess
<1>4. CASE AcceptRead
  <2>1. rd \in CpuReads /\ rd.addr \in Address /\ rd.len \in 1 .. 8
    BY <1>4, RequestsAssumption DEF AcceptRead
  <2>2. Offset(rd.addr) \in Lane
    BY <2>1, AddressParts
  <2>3. ReadDwords(Offset(rd.addr), rd.len) \in 1 .. 3
    BY <2>1, <2>2, Burst
  <2>4. NthWord(rd.addr, 0) = WordOf(rd.addr)
    BY <2>1, NextWord
  <2>5. CpuBurst'
    BY <1>4, <2>1, <2>3, <2>4 DEF AcceptRead, Fetch, CpuBurst, ports
  <2>6. QED  BY <1>4, <2>5 DEF AcceptRead, Fetch, ports, second, LineBurst, DmaAccess
<1>5. CASE AcceptCode
  <2>1. cd \in CodeReads /\ cd.addr \in Address
    BY <1>5, RequestsAssumption DEF AcceptCode
  <2>2. NthWord(cd.addr, 0) = WordOf(cd.addr)
    BY <2>1, NextWord
  <2>3. LineBurst'
    BY <1>5, <2>1, <2>2, BusAssumption DEF AcceptCode, Fetch, LineBurst, ports
  <2>4. QED  BY <1>5, <2>3 DEF AcceptCode, Fetch, ports, second, CpuBurst, DmaAccess
<1>6. CASE AcceptDmaWrite
  <2>1. mem' \in [Address -> Int]
    BY <1>6, DmaTypes, WrittenType DEF AcceptDmaWrite, StoreDword
  <2>2. QED  BY <1>6, <2>1 DEF AcceptDmaWrite, ports, second, CpuBurst, LineBurst, DmaAccess
<1>7. CASE DmaWriteDone
  BY <1>7 DEF DmaWriteDone, second, CpuBurst, LineBurst, DmaAccess
<1>8. CASE AcceptDmaRead
  BY <1>8 DEF AcceptDmaRead, Fetch, ports, second, CpuBurst, LineBurst, DmaAccess
<1>9. ASSUME NEW d, d = MemoryDword(next), ReadBeat(d)
      PROVE  IInv'
  <2> DEFINE n == save_readburst
  <2>1. rd \in CpuReads /\ rd.addr \in Address /\ rd.len \in 1 .. 8
    BY <1>9, RequestsAssumption DEF ReadBeat, CpuBurst
  <2>2. n \in 1 .. 3
    BY <1>9, <2>1, AddressParts, Burst DEF ReadBeat, CpuBurst
  <2>3. /\ counter \in 1 .. n - 1 /\ owed = counter + 1 /\ next = NthWord(rd.addr, n - owed)
        /\ n >= 2 /\ counter < n - 1 => bus_1 = MemoryDword(NthWord(rd.addr, 0))
    BY <1>9, <2>2 DEF ReadBeat, CpuBurst
  <2>4. counter' = counter - 1 /\ owed' = owed - 1
    BY <1>9, <2>2, <2>3 DEF ReadBeat, Beat
  <2>5. next' = NthWord(rd.addr, n - owed')
    <3>1. n - owed \in Nat /\ n - owed' = (n - owed) + 1
      BY <2>2, <2>3, <2>4
    <3>2. next' = (next + 1) % Words
      BY <1>9 DEF ReadBeat, Beat
    <3>3. QED  BY <2>1, <2>3, <3>1, <3>2, NextWord
  <2>6. UNCHANGED <<mem, ports, state, save_readburst, readaddrmux, second>>
    BY <1>9 DEF ReadBeat, Beat
  <2>7. n >= 2 /\ counter' < n - 1 => bus_1' = MemoryDword(NthWord(rd.addr, 0))
    BY <1>9, <2>2, <2>3, <2>4 DEF ReadBeat
  <2>8. n = 3 /\ counter' = 0 => bus_0' = MemoryDword(NthWord(rd.addr, 1))
    BY <1>9, <2>2, <2>3, <2>4 DEF ReadBeat
  <2>9. CpuBurst'
    BY <1>9, <2>2, <2>3, <2>4, <2>5, <2>6, <2>7, <2>8 DEF ReadBeat, CpuBurst, MemoryDword, ports
  <2>10. QED  BY <1>9, <2>6, <2>9 DEF ReadBeat, ports, second, LineBurst, DmaAccess
<1>10. ASSUME NEW d, d = MemoryDword(next), ReadLast(d)
       PROVE  IInv'
  BY <1>10 DEF ReadLast, Beat, second, CpuBurst, LineBurst, DmaAccess
<1>11. ASSUME NEW d, d = MemoryDword(next), CodeBeat(d)
       PROVE  IInv'
  <2>1. cd \in CodeReads /\ cd.addr \in Address
    BY <1>11, RequestsAssumption DEF CodeBeat, LineBurst
  <2>2. counter \in 0 .. CodeBurst - 1 /\ owed = counter + 1 /\ next = NthWord(cd.addr, CodeBurst - owed)
    BY <1>11 DEF CodeBeat, LineBurst
  <2>3. counter > 0 => counter' = counter - 1
    BY <1>11, <2>2, BusAssumption DEF CodeBeat
  <2>4. next' = NthWord(cd.addr, CodeBurst - owed')
    <3>1. CodeBurst - owed \in Nat /\ CodeBurst - owed' = (CodeBurst - owed) + 1
      BY <1>11, <2>2, BusAssumption DEF CodeBeat, Beat
    <3>2. next' = (next + 1) % Words
      BY <1>11 DEF CodeBeat, Beat
    <3>3. QED  BY <2>1, <2>2, <3>1, <3>2, NextWord
  <2>5. LineBurst'
    BY <1>11, <2>1, <2>2, <2>3, <2>4, BusAssumption DEF CodeBeat, Beat, LineBurst
  <2>6. QED  BY <1>11, <2>5 DEF CodeBeat, Beat, second, CpuBurst, DmaAccess
<1>12. ASSUME NEW d, d = MemoryDword(next), DmaBeat(d)
       PROVE  IInv'
  BY <1>12 DEF DmaBeat, Beat, second, CpuBurst, LineBurst, DmaAccess
<1>13. CASE UNCHANGED vars
  BY <1>13 DEF vars, ports, burst, second, CpuBurst, LineBurst, DmaAccess, MemoryDword
<1>14. QED
  BY <1>1, <1>2, <1>3, <1>4, <1>5, <1>6, <1>7, <1>8, <1>9, <1>10, <1>11, <1>12, <1>13
  DEF Next, Answer

\* In every reachable state the requests are ones that were made, and the burst under
\* way knows which of them it serves and which of its beats is next (avalon_mem.v).
THEOREM Invariant == Spec => []IInv
BY InitIInv, NextIInv, PTL DEF Spec

----------------------------------------------------------------------------
(* The refinement.  The mapping: a split write is done when its first half *)
(* is, a write of the DMA controller when the memory takes it, and a piece *)
(* of a code line when its doubleword comes.                               *)

LEMMA SameNone == Abstract!None = None /\ Abstract!Size = Size
BY DEF Abstract!None, None, Abstract!Size, Size

LEMMA InitRefines == Init => Abstract!Init
BY SameNone DEF Init, Abstract!Init, Seen, SeenDma, Sent

LEMMA Enables ==
  ASSUME NEW off \in Lane, NEW len \in 1 .. 4, NEW l \in Lane
  PROVE  /\ l \in ByteEnable0(off, len) <=> off <= l /\ l < off + len
         /\ WriteDwords(off, len) > 1 <=> off + len > 4
         /\ off + len > 4 => (l \in ByteEnable1(off, len) <=> l < off + len - 4)
BY DEF ByteEnable0, ByteEnable1, WriteDwords, Lane

First(w, b) == b \div 4 = WordOf(w.addr) /\ b % 4 \in ByteEnable0(Offset(w.addr), w.len)
Rest(w, b) == /\ WriteDwords(Offset(w.addr), w.len) > 1
              /\ b \div 4 = (WordOf(w.addr) + 1) % Words
              /\ b % 4 \in ByteEnable1(Offset(w.addr), w.len)

\* The two halves of a write cover its bytes, each byte once.
LEMMA Halves ==
  ASSUME NEW w \in CpuWrites, NEW b \in Address
  PROVE  LET off == Offset(w.addr)
             p   == Abstract!Position(b, w.addr)
         IN  /\ p \in Nat
             /\ p < w.len <=> First(w, b) \/ Rest(w, b)
             /\ First(w, b) => p = (b % 4) - off
             /\ Rest(w, b) => p = 4 - off + (b % 4)
<1> DEFINE off == Offset(w.addr)
           a == WordOf(w.addr)
           p == Abstract!Position(b, w.addr)
           v == b \div 4
           l == b % 4
<1>1. w.addr \in Address /\ w.len \in 1 .. 4
  BY RequestsAssumption
<1>2. w.addr = 4 * a + off /\ a \in 0 .. Words - 1 /\ off \in Lane
  BY <1>1, AddressParts
<1>3. b = 4 * v + l /\ v \in 0 .. Words - 1 /\ l \in Lane
  BY SizeNat, BusAssumption DEF Address, Size, Lane
<1>4. p = IF w.addr <= b THEN b - w.addr ELSE b - w.addr + 4 * Words
  BY <1>1, PositionOf DEF Size
<1>5. (a + 1) % Words = IF a + 1 < Words THEN a + 1 ELSE 0
  BY <1>2, BusAssumption
<1>6. First(w, b) <=> v = a /\ off <= l /\ l < off + w.len
  BY <1>1, <1>2, <1>3, Enables DEF First
<1>7. Rest(w, b) <=> off + w.len > 4 /\ v = (a + 1) % Words /\ l < off + w.len - 4
  BY <1>1, <1>2, <1>3, Enables DEF Rest
<1> HIDE DEF off, a, p, v, l
<1>8. p \in Nat
  BY <1>1, <1>2, <1>3, <1>4, BusAssumption DEF Lane
<1>9. First(w, b) => p = l - off
  BY <1>1, <1>2, <1>3, <1>4, <1>6, BusAssumption DEF Lane
<1>10. Rest(w, b) => p = 4 - off + l
  BY <1>1, <1>2, <1>3, <1>4, <1>5, <1>7, BusAssumption DEF Lane
<1>11. First(w, b) \/ Rest(w, b) => p < w.len
  BY <1>1, <1>2, <1>3, <1>6, <1>7, <1>9, <1>10 DEF Lane
<1>12. p < w.len => First(w, b) \/ Rest(w, b)
  BY <1>1, <1>2, <1>3, <1>4, <1>5, <1>6, <1>7, BusAssumption DEF Lane
<1>13. QED  BY <1>8, <1>9, <1>10, <1>11, <1>12 DEF p, off, l

LEMMA SeenFunction ==
  ASSUME NEW w, NEW lanes, NEW data, mem' = Written(w, lanes, data)
  PROVE  Seen' = [b \in Address |-> Seen'[b]]
<1>1. mem' = [b \in Address |-> mem'[b]]
  BY DEF Written, Address
<1>2. CASE state' = "WRITE"
  BY <1>2 DEF Seen, Written, Address
<1>3. CASE state' # "WRITE"
  BY <1>1, <1>3 DEF Seen
<1>4. QED  BY <1>2, <1>3

LEMMA CpuWriteRefines == IInv /\ AcceptWrite => Abstract!CpuWrite
<1> SUFFICES ASSUME IInv, AcceptWrite
             PROVE  Abstract!CpuWrite
  OBVIOUS
<1> DEFINE off == Offset(wr.addr)
           p(b) == Abstract!Position(b, wr.addr)
<1>1. wr \in CpuWrites /\ wr.data \in [Lane -> Int] /\ Seen = mem
  BY RequestsAssumption DEF AcceptWrite, IInv, Requests, Dword, Seen
<1>2. ASSUME NEW b \in Address
      PROVE  /\ mem'[b] = IF First(wr, b) THEN Shifted(wr, b % 4) ELSE mem[b]
             /\ Seen'[b] = IF Rest(wr, b) THEN writedata_next'[b % 4] ELSE mem'[b]
  BY DEF AcceptWrite, StoreDword, Written, First, Rest, Seen, Address, Lane
<1>3. ASSUME NEW b \in Address
      PROVE  Seen'[b] = IF p(b) < wr.len THEN wr.data[p(b)] ELSE Seen[b]
  <2>1. b % 4 \in Lane /\ off \in Lane /\ wr.len \in 1 .. 4
    <3>1. wr.addr \in Address /\ wr.len \in 1 .. 4
      BY <1>1, RequestsAssumption
    <3>2. b % 4 \in Lane
      BY SizeNat DEF Address, Lane
    <3>3. QED  BY <3>1, <3>2, AddressParts
  <2>2. /\ p(b) \in Nat
        /\ p(b) < wr.len <=> First(wr, b) \/ Rest(wr, b)
        /\ First(wr, b) => p(b) = (b % 4) - off
        /\ Rest(wr, b) => p(b) = 4 - off + (b % 4)
    BY <1>1, Halves
  <2> HIDE DEF p, off
  <2>3. CASE First(wr, b)
    <3>1. ~Rest(wr, b) /\ p(b) \in Lane /\ p(b) < wr.len
      BY <2>1, <2>2, <2>3 DEF Lane
    <3>2. Shifted(wr, b % 4) = wr.data[p(b)]
      BY <2>1, <2>2, <2>3, <3>1 DEF Shifted, off
    <3>3. QED  BY <1>2, <2>3, <3>1, <3>2
  <2>4. CASE Rest(wr, b)
    <3>1. p(b) \in Lane /\ p(b) < wr.len /\ b % 4 # 3
      BY <2>1, <2>2, <2>4 DEF Lane
    <3>2. 4 + (b % 4) - off = p(b)
      BY <2>1, <2>2, <2>4 DEF Lane
    <3>3. Shifted(wr, 4 + (b % 4)) = wr.data[p(b)]
      BY <2>1, <3>1, <3>2 DEF Shifted, off, Lane
    <3>4. writedata_next'[b % 4] = Shifted(wr, 4 + (b % 4))
      BY <2>1, <3>1 DEF AcceptWrite
    <3>5. QED  BY <1>2, <2>4, <3>1, <3>3, <3>4
  <2>5. CASE ~First(wr, b) /\ ~Rest(wr, b)
    BY <1>1, <1>2, <2>2, <2>5
  <2>6. QED  BY <2>3, <2>4, <2>5
<1>4. Seen' = [b \in Address |-> Seen'[b]]
  BY SeenFunction DEF AcceptWrite, StoreDword
<1>5. Seen' = Abstract!Stored(wr)
  BY <1>3, <1>4, SameNone DEF Abstract!Stored, Address
<1>6. QED
  BY <1>1, <1>5, NotNone, SameNone DEF AcceptWrite, Abstract!CpuWrite, SeenDma, Sent

LEMMA ByteRead ==
  ASSUME NEW a \in Address, NEW i \in Nat
  PROVE  LET j == Offset(a) + i
         IN  MemoryDword(NthWord(a, j \div 4))[j % 4] = mem[(a + i) % Size]
<1> DEFINE j == Offset(a) + i
<1>1. Offset(a) \in 0 .. 3
  BY AddressParts DEF Lane
<1>2. j % 4 \in Lane
  BY <1>1 DEF Lane
<1>3. QED  BY <1>2, ByteOf DEF MemoryDword, NthWord

LEMMA CpuReadRefines ==
  ASSUME IInv, NEW d, d = MemoryDword(next), ReadLast(d)
  PROVE  Abstract!CpuRead
<1> DEFINE off == Offset(rd.addr)
           n == save_readburst
           byte(i) == Collected(d, readaddrmux + i)
<1>1. /\ rd \in CpuReads /\ rd.addr \in Address /\ rd.len \in 1 .. 8
      /\ n = ReadDwords(off, rd.len) /\ readaddrmux = off /\ owed = 1 /\ counter = 0
      /\ next = NthWord(rd.addr, n - 1)
      /\ n >= 2 /\ 0 < n - 1 => bus_1 = MemoryDword(NthWord(rd.addr, 0))
      /\ n = 3 => bus_0 = MemoryDword(NthWord(rd.addr, 1))
  BY RequestsAssumption DEF ReadLast, IInv, CpuBurst
<1>2. off \in 0 .. 3 /\ n \in 1 .. 3 /\ 4 * (n - 1) < off + rd.len /\ off + rd.len <= 4 * n
  BY <1>1, AddressParts, Burst DEF Lane
<1>3. Seen = mem /\ mem' = mem /\ Seen' = mem
  BY DEF ReadLast, Beat, Seen
<1>4. ASSUME NEW i \in 0 .. rd.len - 1
      PROVE  byte(i) = mem[(rd.addr + i) % Size]
  <2> DEFINE j == off + i
  <2>1. j \in 0 .. 4 * n - 1 /\ i \in Nat
    BY <1>1, <1>2
  <2>2. MemoryDword(NthWord(rd.addr, j \div 4))[j % 4] = mem[(rd.addr + i) % Size]
    BY <1>1, <2>1, ByteRead
  <2>3. byte(i) = Collected(d, j)
    BY <1>1
  <2> HIDE DEF j, byte, n
  <2>4. CASE j \in 0 .. 3
    <3>1. j \div 4 = 0 /\ j % 4 = j
      BY <2>4
    <3>2. Collected(d, j) = MemoryDword(NthWord(rd.addr, 0))[j]
      BY <1>1, <1>2, <2>4 DEF Collected, n
    <3>3. QED  BY <2>2, <2>3, <3>1, <3>2
  <2>5. CASE j \in 4 .. 7
    <3>1. j \div 4 = 1 /\ j % 4 = j - 4
      BY <2>5
    <3>2. Collected(d, j) = MemoryDword(NthWord(rd.addr, 1))[j - 4]
      BY <1>1, <1>2, <2>1, <2>5 DEF Collected, n
    <3>3. QED  BY <2>2, <2>3, <3>1, <3>2
  <2>6. CASE j \in 8 .. 11
    <3>1. j \div 4 = 2 /\ j % 4 = j - 8
      BY <2>6
    <3>2. Collected(d, j) = MemoryDword(NthWord(rd.addr, 2))[j - 8]
      BY <1>1, <1>2, <2>1, <2>6 DEF Collected, n
    <3>3. QED  BY <2>2, <2>3, <3>1, <3>2
  <2>7. QED  BY <1>2, <2>1, <2>4, <2>5, <2>6
<1>5. [i \in 0 .. rd.len - 1 |-> byte(i)] = Abstract!Bytes(rd.addr, rd.len)
  BY <1>3, <1>4, SameNone DEF Abstract!Bytes
<1>6. QED
  BY <1>1, <1>3, <1>5, NotNone, SameNone DEF ReadLast, Abstract!CpuRead, SeenDma, Sent

LEMMA CodePieceRefines ==
  ASSUME IInv, NEW d, d = MemoryDword(next), CodeBeat(d)
  PROVE  Abstract!CodePiece
<1> DEFINE a == (cd.addr + 4 * Sent) % Size
<1>1. /\ cd \in CodeReads /\ cd.addr \in Address /\ cd.addr % 4 = 0
      /\ counter \in 0 .. CodeBurst - 1 /\ owed = counter + 1
      /\ next = NthWord(cd.addr, CodeBurst - owed)
  BY RequestsAssumption DEF CodeBeat, IInv, LineBurst
<1>2. Sent \in 0 .. CodeBurst - 1 /\ Sent = CodeBurst - owed /\ state = "READ_CODE"
  BY <1>1, BusAssumption DEF CodeBeat, Sent
<1>3. Seen = mem /\ mem' = mem /\ Seen' = mem
  BY DEF CodeBeat, Beat, Seen
<1>4. a = 4 * next
  <2> DEFINE k == 4 * Sent
  <2>1. Sent \in Nat
    BY <1>2, BusAssumption
  <2>2. k \in Nat /\ k \div 4 = Sent /\ k % 4 = 0
    BY <2>1
  <2> HIDE DEF k
  <2>3. Offset(cd.addr) = 0 /\ Offset(cd.addr) + k = k
    BY <1>1, <2>2 DEF Offset
  <2>4. next = (WordOf(cd.addr) + Sent) % Words
    BY <1>1, <1>2 DEF NthWord
  <2>5. (cd.addr + k) % Size = 4 * ((WordOf(cd.addr) + (k \div 4)) % Words) + (k % 4)
    BY <1>1, <2>2, <2>3, ByteOf
  <2>6. next \in Int
    BY <1>1, <1>2, NextWord, BusAssumption
  <2>7. QED  BY <2>2, <2>4, <2>5, <2>6 DEF k
<1>5. next \in 0 .. Words - 1
  BY <1>1, <1>2, NextWord, BusAssumption
<1>6. d = Abstract!Bytes(a, 4)
  <2>1. ASSUME NEW i \in 0 .. 3
        PROVE  (4 * next + i) % Size = 4 * next + i
    BY <1>5, <2>1, BusAssumption DEF Size
  <2>2. QED  BY <1>3, <1>4, <2>1, SameNone DEF Abstract!Bytes, MemoryDword, Lane
<1>7. Sent' = (Sent + 1) % CodeBurst /\ (Sent' = 0 <=> counter = 0)
  <2>1. CASE counter = 0
    BY <1>1, <1>2, <2>1, BusAssumption DEF CodeBeat, Sent
  <2>2. CASE counter # 0
    BY <1>1, <1>2, <2>2, BusAssumption DEF CodeBeat, Sent
  <2>3. QED  BY <2>1, <2>2
<1>8. QED
  BY <1>1, <1>2, <1>3, <1>4, <1>6, <1>7, NotNone, SameNone DEF CodeBeat, Abstract!CodePiece, SeenDma

LEMMA DmaReadRefines ==
  ASSUME IInv, NEW d, d = MemoryDword(next), DmaBeat(d)
  PROVE  Abstract!DmaRead
<1>1. /\ dma \in DmaReads /\ dma.addr \in Address /\ dma.len \in {1, 2}
      /\ dma.len = 2 => dma.addr % 2 = 0
      /\ next = WordOf(dma.addr) /\ state = "READ_DMA"
  BY RequestsAssumption DEF DmaBeat, IInv, DmaAccess
<1>2. Seen = mem /\ mem' = mem /\ Seen' = mem /\ SeenDma = dma /\ SeenDma' = None
  BY <1>1, NotNone DEF DmaBeat, Beat, Seen, SeenDma
<1>3. ASSUME NEW i \in 0 .. dma.len - 1
      PROVE  d[Offset(dma.addr) + i] = mem[(dma.addr + i) % Size]
  <2>1. Offset(dma.addr) + i \in 0 .. 3 /\ i \in Nat
    <3>1. Offset(dma.addr) \in 0 .. 3
      BY <1>1, AddressParts DEF Lane
    <3>2. dma.len = 2 => Offset(dma.addr) \in {0, 2}
      BY <1>1, WordOffset
    <3>3. QED  BY <1>1, <3>1, <3>2
  <2> DEFINE j == Offset(dma.addr) + i
  <2>2. j \div 4 = 0 /\ j % 4 = j
    BY <2>1
  <2>3. MemoryDword(NthWord(dma.addr, j \div 4))[j % 4] = mem[(dma.addr + i) % Size]
    BY <1>1, <2>1, ByteRead
  <2>4. NthWord(dma.addr, 0) = next
    BY <1>1, NextWord
  <2>5. QED  BY <2>2, <2>3, <2>4
<1>4. [i \in 0 .. dma.len - 1 |-> d[Offset(dma.addr) + i]] = Abstract!Bytes(dma.addr, dma.len)
  BY <1>2, <1>3, SameNone DEF Abstract!Bytes
<1>5. QED
  BY <1>1, <1>2, <1>4, SameNone DEF DmaBeat, Abstract!DmaRead, Sent

LEMMA DmaWriteRefines == IInv /\ AcceptDmaWrite => Abstract!DmaWrite
<1> SUFFICES ASSUME IInv, AcceptDmaWrite
             PROVE  Abstract!DmaWrite
  OBVIOUS
<1> DEFINE off == Offset(dma.addr)
           p(b) == Abstract!Position(b, dma.addr)
<1>1. /\ dma \in DmaWrites /\ dma.addr \in Address /\ dma.len \in {1, 2}
      /\ dma.data \in [Lane -> Int]
      /\ dma.len = 2 => dma.addr % 2 = 0
  BY RequestsAssumption DEF AcceptDmaWrite, Dword
<1>2. Seen = mem /\ Seen' = mem' /\ SeenDma = dma /\ SeenDma' = None
  BY DEF AcceptDmaWrite, Seen, SeenDma
<1>3. ASSUME NEW b \in Address
      PROVE  mem'[b] = IF p(b) < dma.len THEN dma.data[p(b)] ELSE mem[b]
  <2> DEFINE a == WordOf(dma.addr)
             v == b \div 4
             l == b % 4
  <2>1. dma.addr = 4 * a + off /\ a \in 0 .. Words - 1 /\ off \in 0 .. 3
    BY <1>1, AddressParts DEF Lane
  <2>2. b = 4 * v + l /\ v \in 0 .. Words - 1 /\ l \in 0 .. 3
    BY SizeNat, BusAssumption DEF Address, Size
  <2>3. p(b) = IF dma.addr <= b THEN b - dma.addr ELSE b - dma.addr + 4 * Words
    BY <1>1, PositionOf DEF Size
  <2>4. mem'[b] = IF v = a /\ l \in DmaLanes(dma) THEN DmaData(dma)[l] ELSE mem[b]
    BY DEF AcceptDmaWrite, StoreDword, Written, Address
  <2>5. DmaData(dma)[l] = dma.data[IF dma.len = 2 THEN l % 2 ELSE 0]
    BY <2>2 DEF DmaData, Lane
  <2>6. dma.len = 2 => off \in {0, 2}
    BY <1>1, WordOffset
  <2>7. DmaLanes(dma) = IF dma.len = 2 THEN {off, off + 1} ELSE {off}
    BY DEF DmaLanes
  <2> HIDE DEF a, off, v, l, p
  <2>8. p(b) < dma.len <=> v = a /\ l \in DmaLanes(dma)
    BY <1>1, <2>1, <2>2, <2>3, <2>6, <2>7, BusAssumption
  <2>9. ASSUME v = a, l \in DmaLanes(dma)
        PROVE  p(b) = IF dma.len = 2 THEN l % 2 ELSE 0
    BY <1>1, <2>1, <2>2, <2>3, <2>6, <2>7, <2>9, BusAssumption
  <2>10. QED  BY <2>4, <2>5, <2>8, <2>9
<1>4. Seen' = [b \in Address |-> Seen'[b]]
  BY SeenFunction DEF AcceptDmaWrite, StoreDword
<1>5. Seen' = Abstract!Stored(dma)
  BY <1>2, <1>3, <1>4, SameNone DEF Abstract!Stored, Address
<1>6. QED
  BY <1>1, <1>2, <1>5, SameNone DEF AcceptDmaWrite, Abstract!DmaWrite, Sent, ports, burst

LEMMA RaiseRefines == IInv /\ Raise => Abstract!Raise
<1> SUFFICES ASSUME IInv, Raise
             PROVE  Abstract!Raise
  OBVIOUS
<1>1. Seen' = Seen /\ Sent' = Sent
  BY DEF Raise, Seen, Sent, Written, second, burst
<1>2. dma' = dma => SeenDma' = SeenDma
  BY DEF Raise, SeenDma
<1>3. dma = None => SeenDma' = dma' /\ SeenDma = None
  BY NotNone DEF Raise, IInv, DmaAccess, SeenDma
<1>4. out' = Abstract!None /\ Seen' = Seen /\ Sent' = Sent
  BY <1>1, SameNone DEF Raise
<1>5. CASE dma' = dma
  BY <1>2, <1>4, <1>5, SameNone, NotNone DEF Raise, Abstract!Raise
<1>6. CASE dma' # dma
  BY <1>3, <1>4, <1>6, SameNone DEF Raise, Abstract!Raise
<1>7. QED  BY <1>5, <1>6

LEMMA QuietRefines ==
  ASSUME IInv, WriteSecond \/ AcceptRead \/ AcceptCode \/ AcceptDmaRead \/ DmaWriteDone
  PROVE  Abstract!Quiet
<1> USE SameNone DEF Abstract!Quiet, Seen, SeenDma, Sent, ports
<1>1. CASE WriteSecond
  BY <1>1 DEF WriteSecond, StoreDword
<1>2. CASE AcceptRead
  BY <1>2 DEF AcceptRead, Fetch
<1>3. CASE AcceptCode
  BY <1>3, BusAssumption DEF AcceptCode, Fetch
<1>4. CASE AcceptDmaRead
  BY <1>4 DEF AcceptDmaRead, Fetch
<1>5. CASE DmaWriteDone
  BY <1>5 DEF DmaWriteDone
<1>6. QED  BY <1>1, <1>2, <1>3, <1>4, <1>5

LEMMA BeatRefines ==
  ASSUME IInv, NEW d, d = MemoryDword(next), ReadBeat(d)
  PROVE  Abstract!Quiet
BY SameNone DEF ReadBeat, Beat, Abstract!Quiet, Seen, SeenDma, Sent, ports

\* The bus implements the byte memory: every step of the bus is the access of one
\* port done whole, a piece of a code line, or nothing a user can see.
THEOREM Refinement == Spec => IsByteMemory
<1>1. IInv /\ [Next]_vars => [Abstract!Next]_Abstract!vars
  <2> SUFFICES ASSUME IInv, [Next]_vars
               PROVE  [Abstract!Next]_Abstract!vars
    OBVIOUS
  <2>1. CASE Next
    <3>1. CASE Answer
      <4> DEFINE d == MemoryDword(next)
      <4>1. CASE ReadBeat(d)
        BY <4>1, BeatRefines DEF Abstract!Next
      <4>2. CASE ReadLast(d)
        BY <4>2, CpuReadRefines DEF Abstract!Next
      <4>3. CASE CodeBeat(d)
        BY <4>3, CodePieceRefines DEF Abstract!Next
      <4>4. CASE DmaBeat(d)
        BY <4>4, DmaReadRefines DEF Abstract!Next
      <4>5. QED  BY <3>1, <4>1, <4>2, <4>3, <4>4 DEF Answer
    <3>2. CASE ~Answer
      BY <2>1, <3>2, RaiseRefines, CpuWriteRefines, DmaWriteRefines, QuietRefines
      DEF Next, Abstract!Next
    <3>3. QED  BY <3>1, <3>2
  <2>2. CASE UNCHANGED vars
    BY <2>2 DEF vars, ports, burst, second, Abstract!vars, Seen, SeenDma, Sent, Written
  <2>3. QED  BY <2>1, <2>2
<1>2. QED  BY <1>1, InitRefines, Invariant, PTL DEF Spec, IsByteMemory, Abstract!Spec

=============================================================================
