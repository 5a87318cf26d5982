----------------------------- MODULE AvalonMem -----------------------------
(***************************************************************************)
(* The memory bus of the processor (rtl/ao486/memory/avalon_mem.v): three  *)
(* ports of the processor (data writes, data reads, code line reads) and   *)
(* the DMA controller share a bus of aligned doublewords.  An access that  *)
(* crosses a doubleword is split into two or three, with byte enables, and *)
(* put together again.                                                     *)
(*                                                                         *)
(* An action is a bus cycle in which something happens, or a user raising  *)
(* its request between two cycles; cycles of waiting are stuttering steps. *)
(* The memory behind the bus (the second level cache, a module of its own) *)
(* accepts a request in a cycle of its choice and answers reads in order.  *)
(***************************************************************************)
EXTENDS Integers

CONSTANTS Words,      \* doublewords of memory (addresses wrap)
          Content,    \* the memory at the start
          CpuWrites,  \* records addr, len (1..4), data (four bytes)
          CpuReads,   \* records port = "cpu", addr, len (1..8)
          CodeReads,  \* records port = "code", addr (aligned), len = 4
          DmaWrites,  \* records addr, len (1 or 2, even when 2), data
          DmaReads,   \* records port = "dma", addr, len
          CodeBurst   \* doublewords of a code line (8)

\* The counter of a burst has three bits.
ASSUME BusAssumption == Words \in Nat \ {0} /\ CodeBurst \in 1 .. 8

Size == 4 * Words
Address == 0 .. Size - 1
Lane == 0 .. 3
Dword == [Lane -> Int]

\* What the users may ask for: the processor anything of up to four bytes to write
\* and eight to read, the instruction cache whole doublewords, and the DMA
\* controller a byte or an aligned word.
ASSUME RequestsAssumption ==
  /\ Content \in [Address -> Int]
  /\ CpuWrites \subseteq [addr : Address, len : 1 .. 4, data : Dword]
  /\ CpuReads \subseteq [port : {"cpu"}, addr : Address, len : 1 .. 8]
  /\ CodeReads \subseteq {r \in [port : {"code"}, addr : Address, len : {4}] : r.addr % 4 = 0}
  /\ DmaWrites \subseteq {d \in [addr : Address, len : 1 .. 2, data : Dword] :
                             d.len = 2 => d.addr % 2 = 0}
  /\ DmaReads \subseteq {d \in [port : {"dma"}, addr : Address, len : 1 .. 2] :
                            d.len = 2 => d.addr % 2 = 0}

None == [port |-> "none"]

VARIABLES mem,     \* the memory, a byte for each address
          owed,    \* doublewords the memory has still to return
          next,    \* the doubleword address it returns next
          wr, rd, cd, dma,    \* the requests of the ports, or None
          state, counter, save_readburst, readaddrmux, bus_0, bus_1,
          byteenable_next, writeaddr_next, writedata_next,
          out      \* the answer handed to a reader in this cycle

ports == <<wr, rd, cd, dma>>
burst == <<counter, save_readburst, readaddrmux, bus_0, bus_1>>
second == <<byteenable_next, writeaddr_next, writedata_next>>
vars == <<mem, owed, next, ports, state, burst, second, out>>

ZeroDword == [l \in Lane |-> 0]

Init ==
  /\ mem = Content
  /\ owed = 0 /\ next = 0
  /\ wr = None /\ rd = None /\ cd = None /\ dma = None
  /\ state = "IDLE" /\ counter = 0 /\ save_readburst = 1 /\ readaddrmux = 0
  /\ bus_0 = ZeroDword /\ bus_1 = ZeroDword
  /\ byteenable_next = {} /\ writeaddr_next = 0 /\ writedata_next = ZeroDword
  /\ out = None

----------------------------------------------------------------------------
(* Splitting an access into doublewords.                                   *)

WordOf(addr) == (addr \div 4) % Words
Offset(addr) == addr % 4

ReadDwords(off, len) ==
  CASE len = 2 /\ off = 3    -> 2
    [] len = 3 /\ off \in {2, 3} -> 2
    [] len = 4 /\ off # 0    -> 2
    [] len = 6 /\ off = 3    -> 3
    [] len = 7 /\ off \in {2, 3} -> 3
    [] len = 8 /\ off # 0    -> 3
    [] OTHER -> IF len <= 4 THEN 1 ELSE 2

WriteDwords(off, len) ==
  IF \/ len = 2 /\ off = 3
     \/ len = 3 /\ off \in {2, 3}
     \/ len = 4 /\ off # 0
    THEN 2 ELSE 1

\* Byte lanes of the first doubleword of a write.
ByteEnable0(off, len) ==
  CASE len = 1 /\ off # 3  -> {off}
    [] len = 2 /\ off \in {0, 1} -> {off, off + 1}
    [] len = 3 /\ off = 0  -> {0, 1, 2}
    [] len >= 3 /\ off = 1 -> {1, 2, 3}
    [] len >= 2 /\ off = 2 -> {2, 3}
    [] len = 4 /\ off = 0  -> {0, 1, 2, 3}
    [] OTHER -> {3}

\* Variant: the enables of the first doubleword, complemented.
ByteEnable1Rest(off, len) == IF len = 4 THEN 0 .. off - 1 ELSE 0 .. 4 - len

\* Byte lanes of the second one.
ByteEnable1(off, len) ==
  CASE <<off, len>> \in {<<3, 2>>, <<2, 3>>, <<1, 4>>} -> {0}
    [] <<off, len>> \in {<<3, 3>>, <<2, 4>>} -> {0, 1}
    [] OTHER -> {0, 1, 2}

\* Byte k of the data of a write shifted to its lanes (seven bytes).
Shifted(w, k) == IF k - Offset(w.addr) \in Lane THEN w.data[k - Offset(w.addr)] ELSE 0

\* Lanes and data of a DMA access; an odd byte lane is named by two address bits.
\* (Variant: DmaLanesByte writes a word like a byte.)
DmaLanesByte(d) == {Offset(d.addr)}
DmaLanes(d) == IF d.len = 2 THEN {Offset(d.addr), Offset(d.addr) + 1} ELSE {Offset(d.addr)}
DmaData(d) == [l \in Lane |-> d.data[IF d.len = 2 THEN l % 2 ELSE 0]]

----------------------------------------------------------------------------
(* The memory behind the bus.                                              *)

MemoryDword(w) == [l \in Lane |-> mem[4 * w + l]]

Written(w, lanes, data) ==
  [b \in 0 .. Size - 1 |-> IF b \div 4 = w /\ b % 4 \in lanes THEN data[b % 4] ELSE mem[b]]

StoreDword(w, lanes, data) == mem' = Written(w, lanes, data) /\ UNCHANGED <<owed, next>>

Fetch(addr, n) == owed' = n /\ next' = WordOf(addr) /\ UNCHANGED mem

\* A cycle with readdatavalid: the doubleword d is on the bus.
Beat(d) == /\ owed > 0
           /\ d = MemoryDword(next)
           /\ owed' = owed - 1
           /\ next' = (next + 1) % Words
           /\ UNCHANGED mem

----------------------------------------------------------------------------
(* Users raise requests and hold them until they are done.                 *)

Raise == /\ \/ wr = None /\ wr' \in CpuWrites /\ UNCHANGED <<rd, cd, dma>>
            \/ rd = None /\ rd' \in CpuReads /\ UNCHANGED <<wr, cd, dma>>
            \/ cd = None /\ cd' \in CodeReads /\ UNCHANGED <<wr, rd, dma>>
            \/ dma = None /\ dma' \in DmaWrites \cup DmaReads /\ UNCHANGED <<wr, rd, cd>>
         /\ out' = None
         /\ UNCHANGED <<mem, owed, next, state, burst, second>>

----------------------------------------------------------------------------
(* Cycles of the bus.  In the idle state the ports are served in the order *)
(* data write, data read, code read, DMA.                                  *)

AcceptWrite ==
  LET off == Offset(wr.addr) IN
  /\ state = "IDLE" /\ wr # None
  /\ StoreDword(WordOf(wr.addr), ByteEnable0(off, wr.len), [l \in Lane |-> Shifted(wr, l)])
  /\ state' = IF WriteDwords(off, wr.len) > 1 THEN "WRITE" ELSE "IDLE"
  /\ byteenable_next' = ByteEnable1(off, wr.len)
  /\ writeaddr_next' = (WordOf(wr.addr) + 1) % Words
  /\ writedata_next' = [l \in Lane |-> IF l = 3 THEN 0 ELSE Shifted(wr, 4 + l)]
  /\ wr' = None
  /\ out' = None
  /\ UNCHANGED <<rd, cd, dma, burst>>

WriteSecond == /\ state = "WRITE"
               /\ StoreDword(writeaddr_next, byteenable_next, writedata_next)
               /\ state' = "IDLE"
               /\ out' = None
               /\ UNCHANGED <<ports, burst, second>>

AcceptRead ==
  LET n == ReadDwords(Offset(rd.addr), rd.len) IN
  /\ state = "IDLE" /\ wr = None /\ rd # None
  /\ Fetch(rd.addr, n)
  /\ state' = "READ"
  /\ counter' = n - 1
  /\ save_readburst' = n
  /\ readaddrmux' = Offset(rd.addr)
  /\ out' = None
  /\ UNCHANGED <<ports, bus_0, bus_1, second>>

\* Byte k of the twelve bytes the last doubleword d completes.
Collected(d, k) ==
  CASE k < 4 -> (IF save_readburst >= 2 THEN bus_1 ELSE d)[k]
    [] k \in 4 .. 7 -> (IF save_readburst = 3 THEN bus_0 ELSE d)[k - 4]
    [] OTHER -> d[k - 8]

ReadBeat(d) ==
  /\ state = "READ" /\ Beat(d) /\ counter > 0
  /\ counter' = (counter - 1) % 8
  /\ bus_0' = d
  /\ bus_1' = IF counter = 2 \/ save_readburst = 2 THEN d ELSE bus_1
  /\ out' = None
  /\ UNCHANGED <<ports, state, save_readburst, readaddrmux, second>>

ReadLast(d) ==
  /\ state = "READ" /\ Beat(d) /\ counter = 0
  /\ state' = "IDLE"
  /\ rd' = None
  /\ out' = [port |-> "cpu", addr |-> rd.addr,
             data |-> [i \in 0 .. rd.len - 1 |-> Collected(d, readaddrmux + i)]]
  /\ UNCHANGED <<wr, cd, dma, burst, second>>

AcceptCode == /\ state = "IDLE" /\ wr = None /\ rd = None /\ cd # None
              /\ Fetch(cd.addr, CodeBurst)
              /\ state' = "READ_CODE"
              /\ counter' = CodeBurst - 1
              /\ out' = None
              /\ UNCHANGED <<ports, save_readburst, readaddrmux, bus_0, bus_1, second>>

\* The instruction cache takes the doublewords as they come.
CodeBeat(d) ==
  /\ state = "READ_CODE" /\ Beat(d)
  /\ counter' = (counter - 1) % 8
  /\ state' = IF counter = 0 THEN "IDLE" ELSE state
  /\ cd' = IF counter = 0 THEN None ELSE cd
  /\ out' = [port |-> "code", addr |-> 4 * next, data |-> d]
  /\ UNCHANGED <<wr, rd, dma, save_readburst, readaddrmux, bus_0, bus_1, second>>

CpuQuiet == wr = None /\ rd = None /\ cd = None

AcceptDmaWrite == /\ state = "IDLE" /\ CpuQuiet /\ dma \in DmaWrites
                  /\ StoreDword(WordOf(dma.addr), DmaLanes(dma), DmaData(dma))
                  /\ state' = "WRITE_DMA"
                  /\ out' = None
                  /\ UNCHANGED <<ports, burst, second>>

\* The cycle in which dma_waitrequest is low: the controller moves on.
DmaWriteDone == /\ state = "WRITE_DMA"
                /\ state' = "IDLE"
                /\ dma' = None
                /\ out' = None
                /\ UNCHANGED <<mem, owed, next, wr, rd, cd, burst, second>>

AcceptDmaRead == /\ state = "IDLE" /\ CpuQuiet /\ dma \in DmaReads
                 /\ Fetch(dma.addr, 1)
                 /\ state' = "READ_DMA"
                 /\ out' = None
                 /\ UNCHANGED <<ports, burst, second>>

DmaBeat(d) == /\ state = "READ_DMA" /\ Beat(d)
              /\ state' = "IDLE"
              /\ dma' = None
              /\ out' = [port |-> "dma", addr |-> dma.addr,
                         data |-> [i \in 0 .. dma.len - 1 |-> d[Offset(dma.addr) + i]]]
              /\ UNCHANGED <<wr, rd, cd, burst, second>>

Answer == LET d == MemoryDword(next)
          IN  ReadBeat(d) \/ ReadLast(d) \/ CodeBeat(d) \/ DmaBeat(d)

Next == \/ Raise
        \/ AcceptWrite \/ WriteSecond \/ AcceptRead \/ AcceptCode
        \/ AcceptDmaWrite \/ DmaWriteDone \/ AcceptDmaRead
        \/ Answer

Spec == Init /\ [][Next]_vars

----------------------------------------------------------------------------
(* Properties.                                                             *)

\* The memory as the users see it: the second half of a split write counts as
\* done when its first half is, and a write of the DMA controller when the memory
\* took it.
Seen == IF state = "WRITE"
          THEN Written(writeaddr_next, byteenable_next, writedata_next)
          ELSE mem

SeenDma == IF state = "WRITE_DMA" THEN None ELSE dma
Sent == IF state = "READ_CODE" THEN CodeBurst - 1 - counter ELSE 0

Abstract == INSTANCE ByteMemory WITH mem <- Seen, dma <- SeenDma, sent <- Sent

\* The bus is a byte addressed memory: every access of every port, at every
\* alignment and length, reads or writes exactly its bytes, once and in one step,
\* whatever the other ports do between the doublewords it is split into.
IsByteMemory == Abstract!Spec

=============================================================================
