---------------------------- MODULE MCBiosSystem ----------------------------
(* Small machines for BiosSystem, each with the calls it is there for.     *)
EXTENDS BiosSystem

Say(fn, n) == [fn |-> fn, time |-> <<0, 0, 0>>, n |-> n]
Set(fn, t) == [fn |-> fn, time |-> t, n |-> 0]
Clock(v) == [s |-> v, m |-> v, h |-> v, day |-> v, month |-> v, as |-> 0, am |-> 0, ah |-> 0]
NoRoms == [p \in Slots |-> None]
Rom(len, kind) == [len |-> len, good |-> TRUE, kind |-> kind]
Machine(plan) ==
  [start |-> Clock(1), plan |-> plan, masks |-> {0, 8}, seconds |-> 0, kb |-> 1024,
   area |-> NoRoms, uart |-> FALSE, printer |-> FALSE]
Ticking(plan) == [Machine(plan) EXCEPT !.masks = {8}]

Ticks == {Ticking(<<{Say("00", 0), Say("01", 6)}, {Say("00", 0)}>>)}
Dates == {[Machine(<<{Set("03", <<1, 0, 1>>), Set("05", <<1, 0, 0>>), Say("02", 0)}, {Say("02", 0), Say("04", 0)}>>)
             EXCEPT !.seconds = 2, !.start = Clock(v)] : v \in {0, 1}}
Woken == {[Machine(<<{Say("83", 2 * Period)}, {Set("03", <<1, 0, 1>>), Say("02", 0), Say("04", 0)}>>) EXCEPT !.seconds = 1]}
Alarms == {[Machine(<<{Say("06", 0)}, {Say("06", 0), Say("07", 0), Say("83", 0)}>>) EXCEPT !.seconds = 1]}
Waits == {Machine(<<{Say("83", 0), Say("83", 2 * Period)},
                    {Say("83", 0), Say("83c", 0), Say("03", 0), Say("06", 0), Say("07", 0)}>>)}
Delays == {Ticking(<<{Say("delay", 2), Say("86", 31), Say("86", 1)}>>)}
Moves == {Set("87", <<a, b, 0>>) : a, b \in 0..3} \cup {Say("24", 0), Say("24", 1)}
Blocks == {Machine(<<Moves, Moves, {Say("89", 0)}>>)}
Sizes == {[Machine(<<{Say("88", 0), Say("E801", 0), Say("E820", 0)}>>) EXCEPT !.kb = kb]
            : kb \in {1024, 4096, 16384, 16448, 66560, 262144}}
Ports == {Say("14/0", 0), Say("14/0", 7), Say("14/1", 0), Say("14/2", 0), Say("14/3", 0),
          Say("17/0", 0), Say("17/1", 0)}
Lines == {[Ticking(<<Ports, {Say("14/1", 0), Say("14/2", 0)}>>) EXCEPT !.uart = there, !.printer = there] : there \in BOOLEAN}
Codes == {Say("reset", n) : n \in {0, 1, 5, 10, 11, 12, 13}}
         \cup {[fn |-> "reset", time |-> <<v, 0, 0>>, n |-> 254] : v \in {0, 1}}
Resets == {[Machine(<<{first}, codes, {Say("reset", 0)}>>) EXCEPT !.area[0] = Rom(5, "plain")]
             : <<first, codes>> \in {<<Say("89", 0), Codes>>, <<Say("83", Period), {Say("reset", 0), Say("reset", 5), Say("reset", 10)}>>}}
Areas ==
  {[p \in Slots |-> CASE p = 0 -> Rom(len, "bev") [] p = at -> Rom(2, kind) [] p = at + 1 -> Rom(1, "bev")
                      [] p = OptionEnd -> [Rom(4, "bcv") EXCEPT !.good = good] [] OTHER -> None]
     : len \in {4, 5, 8}, at \in {1, 3}, kind \in {"plain", "bcv"}, good \in BOOLEAN}
Boots == {[Machine(<<{Say("reset", 0)}, {Say("reset", 0)}>>) EXCEPT !.area = a] : a \in Areas}

MCMachines == Ticks \cup Dates \cup Woken \cup Alarms \cup Waits \cup Delays \cup Blocks \cup Sizes \cup Lines \cup Resets \cup Boots
=============================================================================
