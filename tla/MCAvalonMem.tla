---------------------------- MODULE MCAvalonMem ----------------------------
(* Instances of AvalonMem: three doublewords of memory whose bytes are named *)
(* by their address, and writes that store address + 100, so that a byte in  *)
(* the wrong place or from the wrong place shows.                            *)
EXTENDS AvalonMem

MCContent == [b \in 0 .. Size - 1 |-> b]

WriteAt(a, n) == [addr |-> a, len |-> n, data |-> [i \in Lane |-> 100 + ((a + i) % Size)]]
ReadAt(p, a, n) == [port |-> p, addr |-> a, len |-> n]

\* Reads that end in the doubleword they start in, in the next and in the one
\* after; a write that is not split and two that are.
Reads == {ReadAt("cpu", 2, 1), ReadAt("cpu", 1, 4), ReadAt("cpu", 3, 8)}
Writes == {WriteAt(0, 3), WriteAt(2, 3), WriteAt(3, 4)}
LineReads == {ReadAt("code", 0, 4)}
ByteAndWordWrites == {WriteAt(3, 1), WriteAt(4, 2)}
ByteAndWordReads == {ReadAt("dma", 3, 1), ReadAt("dma", 6, 2)}
=============================================================================
