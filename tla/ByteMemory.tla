----------------------------- MODULE ByteMemory -----------------------------
(***************************************************************************)
(* What the memory bus promises its users: a byte addressed memory that    *)
(* does the request of one port at a time, at any alignment, in one step.  *)
(* Only a code line is delivered in pieces, a doubleword each.  out is the *)
(* answer a reader gets in that step.                                      *)
(***************************************************************************)
EXTENDS Integers

CONSTANTS Words,      \* the memory has this many doublewords; addresses wrap
          Content,    \* the memory at the start
          CpuWrites, CpuReads, CodeReads, DmaWrites, DmaReads,    \* requests
          CodeBurst   \* doublewords of a code line

Size == 4 * Words

VARIABLES mem,
          wr, rd, cd, dma,    \* the request of each port, or None
          sent,               \* doublewords of the code line delivered so far
          out

vars == <<mem, wr, rd, cd, dma, sent, out>>

None == [port |-> "none"]

Init == /\ mem = Content
        /\ wr = None /\ rd = None /\ cd = None /\ dma = None
        /\ sent = 0 /\ out = None

\* The position of byte b in an access that starts at addr.
Position(b, addr) == (b - addr) % Size

Stored(w) == [b \in 0 .. Size - 1 |->
               IF Position(b, w.addr) < w.len THEN w.data[Position(b, w.addr)] ELSE mem[b]]

Bytes(addr, len) == [i \in 0 .. len - 1 |-> mem[(addr + i) % Size]]

Raise == /\ \/ wr = None /\ wr' \in CpuWrites /\ UNCHANGED <<rd, cd, dma>>
            \/ rd = None /\ rd' \in CpuReads /\ UNCHANGED <<wr, cd, dma>>
            \/ cd = None /\ cd' \in CodeReads /\ UNCHANGED <<wr, rd, dma>>
            \/ dma = None /\ dma' \in DmaWrites \cup DmaReads /\ UNCHANGED <<wr, rd, cd>>
         /\ out' = None
         /\ UNCHANGED <<mem, sent>>

CpuWrite == /\ wr # None
            /\ mem' = Stored(wr) /\ wr' = None /\ out' = None
            /\ UNCHANGED <<rd, cd, dma, sent>>

CpuRead == /\ rd # None
           /\ out' = [port |-> "cpu", addr |-> rd.addr, data |-> Bytes(rd.addr, rd.len)]
           /\ rd' = None
           /\ UNCHANGED <<mem, wr, cd, dma, sent>>

CodePiece == LET addr == (cd.addr + 4 * sent) % Size IN
             /\ cd # None
             /\ out' = [port |-> "code", addr |-> addr, data |-> Bytes(addr, 4)]
             /\ sent' = (sent + 1) % CodeBurst
             /\ cd' = IF sent' = 0 THEN None ELSE cd
             /\ UNCHANGED <<mem, wr, rd, dma>>

DmaWrite == /\ dma \in DmaWrites
            /\ mem' = Stored(dma) /\ dma' = None /\ out' = None
            /\ UNCHANGED <<wr, rd, cd, sent>>

DmaRead == /\ dma \in DmaReads
           /\ out' = [port |-> "dma", addr |-> dma.addr, data |-> Bytes(dma.addr, dma.len)]
           /\ dma' = None
           /\ UNCHANGED <<mem, wr, rd, cd, sent>>

Quiet == out' = None /\ UNCHANGED <<mem, wr, rd, cd, dma, sent>>

Next == \/ Raise \/ Quiet
        \/ CpuWrite \/ CpuRead \/ CodePiece \/ DmaWrite \/ DmaRead

Spec == Init /\ [][Next]_vars
=============================================================================
