------------------------------- MODULE MCDma -------------------------------
(* Instances of Dma: bytes of two values, so addresses and counters of four, *)
(* and the programs that set the channels up.                                *)
EXTENDS Dma

CONSTANT Fresh    \* what devices write

\* Every cell starts with a content of its own.
MCContent == [l \in Cells |-> 16 * l[1] + 4 * l[2] + l[3]]
MCDeviceData == {Fresh}

X(kind, c, val) == [kind |-> kind, ctl |-> ControllerOf(c), ch |-> c, val |-> val]
Mode(t, a, d) == [transfer |-> t, auto |-> a, dec |-> d]

\* Set up channel c to move n + 1 units from address a of page p and, last, let it go.
Setup(c, m, a, p, n, go) ==
  <<X("mask_set", c, 0), X("clear_flip_flop", c, 0), X("mode", c, m),
    X("address", c, a % B), X("address", c, a \div B), X("page", c, p),
    X("counter", c, n % B), X("counter", c, n \div B)>> \o go

\* A byte channel that reads and starts again and a word channel that writes
\* once compete, and the other commands come between their transfers: software
\* reads a byte of the running counter, so that the flip-flop is left in the middle
\* when the next channel is set up, writes to a channel that has no device, and
\* lets channels go one by one or a controller's all at once.  The program repeats.
Command(kind) == <<X(kind, 2, 0)>>
Masked(k, s) == <<[kind |-> "mask_all", ctl |-> k, ch |-> IF k = "sla" THEN 2 ELSE 5, val |-> s]>>
MCPrograms ==
  {Command("master_clear") \o <<X("address", 4, 1), X("read_address", 5, 0)>> \o Masked("mas", {5})
     \o Setup(2, Mode(2, TRUE, TRUE), 3, 1, 0, <<X("mask_clear", 2, 0)>>)
     \o <<X("read_counter", 2, 0)>>
     \o Setup(5, Mode(1, FALSE, FALSE), 3, 3, 1, Masked("mas", {}))
     \o Command("disable") \o Command("status") \o Command("enable")
     \o Command("request_set") \o Command("request_clear")
     \o Masked("sla", {2}) \o Command("mask_clear_all")}
=============================================================================
