--------------------------- MODULE MisterFsProofs ---------------------------
(***************************************************************************)
(* Proofs about MisterFs, for any folder, any programs, any chunk length   *)
(* and any way in which the host refuses: the program's place in the chain *)
(* of INT 2Fh (Resident), what reads and writes move (MovesFaithful), what *)
(* calls on names say (AnswersTrue), and, while tokens last, what searches *)
(* list (SearchComplete).                                                  *)
(***************************************************************************)
EXTENDS MisterFsTypes

----------------------------------------------------------------------------
(* The chain of INT 2Fh.                                                   *)

At2F(s, x) == {i \in DOMAIN s : s[i] = x}
Theirs(s) == At2F(s, "other") \cup At2F(s, "net")
Linked(s, in, prev, others) ==
  /\ At2F(s, "mfs") # {} <=> in
  /\ \A i \in At2F(s, "mfs") : SubSeq(s, 1, i - 1) = prev
  /\ \A i, j \in At2F(s, "mfs") : i = j
  /\ Cardinality(Theirs(s)) = others
  /\ s # <<>> /\ s[1] = "dos"

\* There are finitely many others in a chain.
LEMMA Count ==
  ASSUME NEW s \in Seq(Handlers)
  PROVE  IsFiniteSet(Theirs(s)) /\ Cardinality(Theirs(s)) \in Nat /\ Theirs(s) \subseteq 1..Len(s)
<1>1. IsFiniteSet(1..Len(s)) /\ Theirs(s) \subseteq 1..Len(s)
  BY FS_Interval DEF Theirs, At2F
<1> QED
  BY <1>1, FS_Subset, FS_CardinalityType

\* Another program takes its place on top.
LEMMA PushTheirs ==
  ASSUME NEW s \in Seq(Handlers), NEW x \in {"other", "net"}, NEW in, NEW prev, NEW n, Linked(s, in, prev, n)
  PROVE  Linked(Append(s, x), in, prev, n + 1)
<1> DEFINE t == Append(s, x)
           m == Len(s)
<1>1. m \in Nat \ {0} /\ DOMAIN s = 1..m /\ DOMAIN t = 1..m + 1 /\ t[m + 1] = x /\ t \in Seq(Handlers)
      /\ \A i \in 1..m : t[i] = s[i]
  BY DEF Linked, Handlers
<1>2. At2F(t, "mfs") = At2F(s, "mfs") /\ Theirs(t) = Theirs(s) \cup {m + 1} /\ m + 1 \notin Theirs(s)
  BY <1>1 DEF At2F, Theirs
<1>3. \A i \in At2F(s, "mfs") : SubSeq(t, 1, i - 1) = SubSeq(s, 1, i - 1)
  BY <1>1 DEF At2F
<1>4. Cardinality(Theirs(t)) = n + 1
  BY <1>2, Count, FS_AddElement DEF Linked
<1>5. t # <<>> /\ t[1] = "dos"
  BY <1>1 DEF Linked
<1> QED
  BY <1>2, <1>3, <1>4, <1>5 DEF Linked

\* So does this one, which keeps what was there.
LEMMA PushMfs ==
  ASSUME NEW s \in Seq(Handlers), NEW prev, NEW n, Linked(s, FALSE, prev, n)
  PROVE  Linked(Append(s, "mfs"), TRUE, s, n)
<1> DEFINE t == Append(s, "mfs")
           m == Len(s)
<1>1. m \in Nat \ {0} /\ DOMAIN s = 1..m /\ DOMAIN t = 1..m + 1 /\ t[m + 1] = "mfs" /\ t \in Seq(Handlers)
      /\ \A i \in 1..m : t[i] = s[i]
  BY DEF Linked, Handlers
<1>2. At2F(t, "mfs") = {m + 1} /\ Theirs(t) = Theirs(s)
  BY <1>1 DEF At2F, Theirs, Linked
<1>3. SubSeq(t, 1, (m + 1) - 1) = s
  BY <1>1
<1>4. t # <<>> /\ t[1] = "dos"
  BY <1>1 DEF Linked
<1> QED
  BY <1>2, <1>3, <1>4 DEF Linked

\* Another program goes.
LEMMA PopTheirs ==
  ASSUME NEW s \in Seq(Handlers), Last(s) \in {"other", "net"}, NEW in, NEW prev, NEW n, Linked(s, in, prev, n)
  PROVE  Linked(Front(s), in, prev, n - 1)
<1> DEFINE t == Front(s)
           m == Len(s)
<1>1. m \in Nat \ {0} /\ DOMAIN s = 1..m /\ s[m] \in {"other", "net"} /\ m > 1
  BY DEF Linked, Last
<1>2. DOMAIN t = 1..m - 1 /\ t \in Seq(Handlers) /\ (\A i \in 1..m - 1 : t[i] = s[i]) /\ Len(t) = m - 1
  BY <1>1 DEF Front
<1>3. At2F(t, "mfs") = At2F(s, "mfs") /\ Theirs(t) = Theirs(s) \ {m} /\ m \in Theirs(s)
  BY <1>1, <1>2 DEF At2F, Theirs
<1>4. \A i \in At2F(s, "mfs") : SubSeq(t, 1, i - 1) = SubSeq(s, 1, i - 1)
  BY <1>1, <1>2, <1>3 DEF At2F
<1>5. Cardinality(Theirs(t)) = n - 1
  BY <1>3, Count, FS_RemoveElement DEF Linked
<1>6. t # <<>> /\ t[1] = "dos"
  BY <1>1, <1>2 DEF Linked
<1> QED
  BY <1>3, <1>4, <1>5, <1>6 DEF Linked

\* So does this one, back to what it kept, only from the top.
LEMMA PopMfs ==
  ASSUME NEW s \in Seq(Handlers), Last(s) = "mfs", NEW prev, NEW n, Linked(s, TRUE, prev, n)
  PROVE  Linked(prev, FALSE, prev, n)
<1> DEFINE t == Front(s)
           m == Len(s)
<1>1. m \in Nat \ {0} /\ DOMAIN s = 1..m /\ s[m] = "mfs" /\ m > 1
  BY DEF Linked, Last
<1>2. DOMAIN t = 1..m - 1 /\ t \in Seq(Handlers) /\ (\A i \in 1..m - 1 : t[i] = s[i]) /\ Len(t) = m - 1
  BY <1>1 DEF Front
<1>3. m \in At2F(s, "mfs") /\ At2F(t, "mfs") = {} /\ Theirs(t) = Theirs(s)
  BY <1>1, <1>2 DEF At2F, Theirs, Linked
<1>4. prev = t
  BY <1>3 DEF Linked, Front
<1>5. t # <<>> /\ t[1] = "dos"
  BY <1>1, <1>2 DEF Linked
<1> QED
  BY <1>3, <1>4, <1>5 DEF Linked

Standing ==
  /\ Linked(dos.chain, tsr.in, tsr.prev, hist.others)
  /\ {d \in Drives : dos.cds[d] = "net"} = IF tsr.in THEN {tsr.drv} ELSE {}
  /\ tsr.in => tsr.drv \in Drives
LEMMA ChainedIs == (Chained <=> Standing) /\ (Chained' <=> Standing')
BY DEF Chained, Resident, Linked, At2F, Theirs, Standing

\* The chain, while no call is under way.
LEMMA LinkStep ==
  ASSUME TypeInv, Chained, Leaves
  PROVE  Chained'
<1> USE ChainedIs DEF Standing
<1>1. /\ dos \in Dos /\ tsr \in Tsr /\ hist \in Hist(hist.before)
      /\ dos.chain \in Seq(Handlers)
  BY DEF TypeInv, DosTyped, TsrTyped, HistTyped, Dos
<1>2. Linked(dos.chain, tsr.in, tsr.prev, hist.others)
  OBVIOUS
<1> DEFINE Mapped(c, t) == {d \in Drives : c[d] = "net"} = IF t.in THEN {t.drv} ELSE {}
<1>3. ASSUME NEW d, Load(d)
      PROVE  Chained'
  <2>1. ~tsr.in
    BY <1>2, <1>3 DEF Load, Present, Linked, At2F
  <2>2. /\ dos'.chain = Append(dos.chain, "mfs") /\ dos'.cds = [dos.cds EXCEPT ![d] = "net"] /\ d \in Drives
        /\ hist'.others = hist.others
        /\ tsr'.in = TRUE /\ tsr'.drv = d /\ tsr'.prev = dos.chain
    BY <1>1, <1>3 DEF Load, Install, Dos, Hist
  <2>3. tsr.in = FALSE
    BY <1>1, <2>1 DEF Tsr
  <2>6. Linked(dos.chain, FALSE, tsr.prev, hist.others)
    BY <1>2, <2>3
  <2>7. Linked(Append(dos.chain, "mfs"), TRUE, dos.chain, hist.others)
    BY <1>1, <2>6, PushMfs
  <2>4. Linked(dos'.chain, tsr'.in, tsr'.prev, hist'.others)
    BY <2>2, <2>7
  <2>5. Mapped(dos'.cds, tsr')
    <3>1. {x \in Drives : dos.cds[x] = "net"} = {} /\ dos.cds \in [Drives -> {"disk", "free", "net"}]
      BY <1>1, <2>1 DEF Dos
    <3> QED
      BY <2>2, <3>1
  <2> QED
    BY <2>2, <2>4, <2>5
<1>4. CASE OtherHooks
  <2>1. PICK x \in {"other", "net"} : dos' = [dos EXCEPT !.chain = Append(@, x)]
    BY <1>4 DEF OtherHooks
  <2>2. dos'.chain = Append(dos.chain, x) /\ dos'.cds = dos.cds /\ UNCHANGED tsr /\ hist'.others = hist.others + 1
    BY <1>1, <1>4, <2>1 DEF OtherHooks, Dos, Hist
  <2>3. Linked(dos'.chain, tsr'.in, tsr'.prev, hist'.others)
    BY <1>1, <1>2, <2>2, PushTheirs
  <2> QED
    BY <2>2, <2>3
<1>5. CASE OtherLeaves
  <2>1. dos'.chain = Front(dos.chain) /\ dos'.cds = dos.cds /\ UNCHANGED tsr /\ hist'.others = hist.others - 1
        /\ Last(dos.chain) \in {"other", "net"}
    BY <1>1, <1>5 DEF OtherLeaves, Dos, Hist
  <2>2. Linked(dos'.chain, tsr'.in, tsr'.prev, hist'.others)
    BY <1>1, <1>2, <2>1, PopTheirs
  <2> QED
    BY <2>1, <2>2
<1>6. CASE LoadFails \/ (Unload /\ UNCHANGED <<dos, tsr>>)
  <2>1. UNCHANGED <<dos, tsr>> /\ hist'.others = hist.others
    BY <1>1, <1>6 DEF LoadFails, Unload, Hist
  <2> QED
    BY <2>1
<1>7. CASE Unload /\ Present /\ IsTop /\ tsr' = [tsr EXCEPT !.in = FALSE]
           /\ dos' = [dos EXCEPT !.chain = tsr.prev, !.cds[tsr.drv] = "free", !.dta = [s \in Searches |-> NoDta]]
  <2>1. tsr.in = TRUE /\ Last(dos.chain) = "mfs"
    BY <1>1, <1>2, <1>7 DEF IsTop, Present, Linked, At2F, Tsr
  <2>2. /\ dos'.chain = tsr.prev /\ dos'.cds = [dos.cds EXCEPT ![tsr.drv] = "free"] /\ hist'.others = hist.others
        /\ tsr'.in = FALSE /\ tsr'.prev = tsr.prev
    BY <1>1, <1>7 DEF Unload, Dos, Hist, Tsr
  <2>5. Linked(dos.chain, TRUE, tsr.prev, hist.others)
    BY <1>2, <2>1
  <2>6. Linked(tsr.prev, FALSE, tsr.prev, hist.others)
    BY <1>1, <2>1, <2>5, PopMfs
  <2>3. Linked(dos'.chain, tsr'.in, tsr'.prev, hist'.others)
    BY <2>2, <2>6
  <2>4. Mapped(dos'.cds, tsr')
    <3>1. {x \in Drives : dos.cds[x] = "net"} = {tsr.drv} /\ dos.cds \in [Drives -> {"disk", "free", "net"}]
      BY <1>1, <2>1 DEF Dos
    <3> QED
      BY <2>2, <3>1
  <2> QED
    BY <2>2, <2>3, <2>4
<1> QED
  BY <1>3, <1>4, <1>5, <1>6, <1>7 DEF Leaves, Loads, Unload

\* Every step keeps the chain.
LEMMA ChainedStep ==
  ASSUME TypeInv, Protocol, Handled, Fits, Chained, Moving, [Next]_vars
  PROVE  Chained'
<1>1. dos \in Dos /\ tsr \in Tsr /\ hist \in Hist(hist.before) /\ cpu \in Cpu
  BY DEF TypeInv, DosTyped, TsrTyped, HistTyped, CpuTyped
<1>2. ASSUME dos'.chain = dos.chain, dos'.cds = dos.cds, tsr'.in = tsr.in, tsr'.drv = tsr.drv, tsr'.prev = tsr.prev,
             hist'.others = hist.others
      PROVE  Chained'
  BY <1>2, ChainedIs DEF Standing
<1>3. ASSUME NEW k \in hist.prog.calls, Begin(k)
      PROVE  Chained'
  BY <1>1, <1>2, <1>3 DEF Begin, Dos, Hist
<1>4. CASE Enter
  BY <1>1, <1>2, <1>4 DEF Enter, Tsr
<1>5. CASE Work
  BY <1>1, <1>2, <1>5, WhereWork DEF Dos, Tsr
<1>6. CASE Answers
  <2>1. UNCHANGED tsr /\ hist'.others = hist.others
    BY <1>1, <1>6, AnswersKeep DEF Found, Hist
  <2>2. dos'.chain = dos.chain /\ dos'.cds = dos.cds
    <3>1. CASE OnNames \/ Closed \/ Locked \/ Found \/ OpenedFile \/ EndSought
      BY <1>1, <3>1 DEF OnNames, MadeOrRemoved, AttrSet, Renamed, Deleted, Changed, AttrGot, Space, Named, Closed, Locked,
                    Found, OpenedFile, EndSought, Dos
    <3>2. CASE ReadOn
      <4> DEFINE x == Copied.sft[call.h].pos + (cpu.total + R.len)
                 e == [Copied.sft[call.h] EXCEPT !.pos = x]
      <4>1. UNCHANGED dos \/ dos' = Copied \/ dos' = [Copied EXCEPT !.sft[call.h] = e]
        BY <3>2 DEF ReadOn
      <4>2. Copied = [dos EXCEPT !.buf = Filled]
        BY DEF Copied, Filled
      <4> HIDE DEF x, e
      <4> QED
        BY <1>1, <4>1, <4>2 DEF Dos
    <3>3. CASE WriteOn
      <4> DEFINE x == dos.sft[call.h].pos + R.out[1]
                 e == [dos.sft[call.h] EXCEPT !.pos = x, !.size = More(@, x)]
      <4>1. UNCHANGED dos \/ dos' = [dos EXCEPT !.sft[call.h].pos = x, !.sft[call.h].size = More(@, x)]
        BY <3>3 DEF WriteOn, Sft
      <4> HIDE DEF x
      <4> QED
        BY <1>1, <4>1 DEF Dos
    <3> QED
      BY <1>6, <3>1, <3>2, <3>3 DEF Answers, OnFiles
  <2> QED
    BY <1>2, <2>1, <2>2
<1>7. CASE HostServes
  BY <1>1, <1>2, <1>7 DEF HostServes, Hist
<1>8. CASE HostAnswers
  BY <1>2, <1>8 DEF HostAnswers
<1>9. CASE UNCHANGED <<dos, tsr, box, host, cpu, call, ret, hist>>
  BY <1>2, <1>9
<1> QED
  BY <1>3, <1>4, <1>5, <1>6, <1>7, <1>8, <1>9, LinkStep, StepCases

LEMMA ChainedInit == Init => TypeInv /\ Chained
<1> SUFFICES ASSUME Init PROVE TypeInv /\ Chained
  OBVIOUS
<1>1. dos.chain = <<"dos">> /\ tsr.in = FALSE /\ tsr.prev = <<>> /\ hist.others = 0 /\ dos.cds = [d \in Drives |-> IF d = "C" THEN "disk" ELSE "free"]
  BY DEF Init
<1>2. At2F(<<"dos">>, "mfs") = {} /\ Theirs(<<"dos">>) = {}
  BY DEF At2F, Theirs
<1>3. Cardinality({}) = 0
  BY FS_EmptySet
<1>5. Linked(<<"dos">>, FALSE, <<>>, 0)
  BY <1>2, <1>3 DEF Linked
<1>4. Linked(dos.chain, tsr.in, tsr.prev, hist.others)
  BY <1>1, <1>5
<1> QED
  BY <1>1, <1>4, ChainedIs, TypeInit DEF Standing

----------------------------------------------------------------------------
(* What the chunks of a read and of a write come to.                       *)

LEMMA OverlayNone ==
  ASSUME NEW f, NEW a, NEW d \in Seq(Int)
  PROVE  Overlay(f, a, <<>>) = f /\ SubSeq(d, 1, 0) = <<>> /\ Overlay(f, a, SubSeq(d, 1, 0)) = f
<1>1. Overlay(f, a, <<>>) = f
  BY DEF Overlay
<1>2. SubSeq(d, 1, 0) = <<>>
  OBVIOUS
<1> QED
  BY <1>1, <1>2

\* What a file holds once n units are put in it.
PutIn(g, f, a, d, n) ==
  /\ g \in Seq(Int) /\ Len(g) = More(Len(f), a + n)
  /\ \A i \in 1..More(Len(f), a + n) :
       g[i] = IF i > a /\ i <= a + n THEN d[i - a] ELSE IF i <= Len(f) THEN f[i] ELSE 0
LEMMA OverlayHolds ==
  ASSUME NEW f \in Seq(Int), NEW a \in Nat, NEW n \in Nat \ {0}, NEW d \in Seq(Int), Len(d) = n
  PROVE  PutIn(Overlay(f, a, d), f, a, d, n)
<1> DEFINE m == More(Len(f), a + n)
           g == [i \in 1..m |-> IF i > a /\ i <= a + n THEN d[i - a] ELSE IF i <= Len(f) THEN f[i] ELSE 0]
<1>1. Overlay(f, a, d) = g
  BY DEF Overlay
<1>2. m \in Nat
  BY DEF More
<1>3. g \in [1..m -> Int]
  BY DEF More
<1>4. \A i \in 1..m : g[i] = IF i > a /\ i <= a + n THEN d[i - a] ELSE IF i <= Len(f) THEN f[i] ELSE 0
  OBVIOUS
<1> HIDE DEF g, m
<1>5. g \in Seq(Int) /\ Len(g) = m
  BY <1>2, <1>3, IsSeq
<1> QED
  BY <1>1, <1>4, <1>5 DEF m, PutIn

LEMMA SameSeq ==
  ASSUME NEW s \in Seq(Int), NEW t \in Seq(Int), Len(s) = Len(t), \A i \in 1..Len(s) : s[i] = t[i]
  PROVE  s = t
BY SeqEqual

LEMMA PieceOfPiece ==
  ASSUME NEW d \in Seq(Int), NEW t \in Nat, NEW w \in Nat, NEW n \in Nat, n <= w, t + w <= Len(d)
  PROVE  SubSeq(SubSeq(d, t + 1, t + w), 1, n) = SubSeq(d, t + 1, t + n)
<1> DEFINE p == SubSeq(d, t + 1, t + w)
<1>1. p \in Seq(Int) /\ Len(p) = w /\ \A i \in 1..w : p[i] = d[t + i]
  BY Piece
<1> HIDE DEF p
<1>2. SubSeq(p, 1, n) \in Seq(Int) /\ Len(SubSeq(p, 1, n)) = n /\ \A i \in 1..n : SubSeq(p, 1, n)[i] = p[i]
  BY <1>1
<1>3. SubSeq(d, t + 1, t + n) \in Seq(Int) /\ Len(SubSeq(d, t + 1, t + n)) = n
      /\ \A i \in 1..n : SubSeq(d, t + 1, t + n)[i] = d[t + i]
  BY Piece
<1>4. \A i \in 1..n : SubSeq(p, 1, n)[i] = SubSeq(d, t + 1, t + n)[i]
  BY <1>1, <1>2, <1>3
<1> QED
  BY <1>2, <1>3, <1>4, SameSeq DEF p

\* One sequence is another and a third behind it.
Behind(x, y, z, t, n) == (\A i \in 1..t : x[i] = z[i]) /\ (\A i \in 1..n : y[i] = z[t + i])

\* What the first n units of d make of a file.
Wrote(f, a, d, n) == Overlay(f, a, SubSeq(d, 1, n))
Following(d, t, n) == SubSeq(d, t + 1, t + n)
\* A chunk put behind what was written makes one longer write of it.
LEMMA OverlayJoin ==
  ASSUME NEW f \in Seq(Int), NEW a \in Nat, NEW d \in Seq(Int), NEW t \in Nat, NEW n \in Nat, t + n <= Len(d)
  PROVE  Overlay(Wrote(f, a, d, t), a + t, Following(d, t, n)) = Wrote(f, a, d, t + n)
<1> DEFINE x == SubSeq(d, 1, t)
           y == SubSeq(d, t + 1, t + n)
           z == SubSeq(d, 1, t + n)
<1>1. x \in Seq(Int) /\ Len(x) = t /\ (\A i \in 1..t : x[i] = d[i])
  OBVIOUS
<1>2. y \in Seq(Int) /\ Len(y) = n /\ (\A i \in 1..n : y[i] = d[t + i])
  BY Piece
<1>3. z \in Seq(Int) /\ Len(z) = t + n /\ (\A i \in 1..t + n : z[i] = d[i])
  OBVIOUS
<1>4. CASE n = 0
  <2>1. y = <<>> /\ z = x
    BY <1>2, <1>4
  <2> QED
    BY <1>4, <2>1 DEF Overlay, Wrote, Following
<1>5. CASE t = 0
  <2>1. x = <<>> /\ y = z /\ a + t = a
    BY <1>5
  <2> QED
    BY <1>5, <2>1 DEF Overlay, Wrote, Following
<1>6. CASE t # 0 /\ n # 0
  <2> HIDE DEF x, y, z
  <2>1. Behind(x, y, z, t, n)
    <3>1. ASSUME NEW i \in 1..t
          PROVE  x[i] = z[i]
      <4>1. i \in 1..t + n
        OBVIOUS
      <4> QED
        BY <1>1, <1>3, <4>1
    <3>2. ASSUME NEW i \in 1..n
          PROVE  y[i] = z[t + i]
      <4>1. t + i \in 1..t + n
        OBVIOUS
      <4> QED
        BY <1>2, <1>3, <4>1
    <3> QED
      BY <3>1, <3>2 DEF Behind
  <2>2. t \in Nat \ {0} /\ n \in Nat \ {0}
    BY <1>6
  <2> DEFINE g == Overlay(f, a, x)
             u == Overlay(g, a + t, y)
             v == Overlay(f, a, z)
  <2>4. t + n \in Nat \ {0} /\ a + t \in Nat
    BY <2>2
  <2>5. PutIn(g, f, a, x, t) /\ PutIn(v, f, a, z, t + n)
    BY <1>1, <1>3, <2>2, <2>4, OverlayHolds
  <2> HIDE DEF g, v
  <2>6. PutIn(u, g, a + t, y, n)
    <3>1. g \in Seq(Int)
      BY <2>5 DEF PutIn
    <3> QED
      BY <1>2, <2>2, <2>4, <3>1, OverlayHolds
  <2> HIDE DEF u
  <2>3. u = v
    <3> USE <2>2
    <3> DEFINE l == More(Len(f), a + t)
               m == More(Len(f), a + (t + n))
               c == a + t
    <3>1. Len(f) \in Nat /\ c \in Nat
      OBVIOUS
    <3>2. l \in Nat /\ m \in Nat
      BY <3>1 DEF More
    <3>3. More(l, c + n) = m
      BY <3>1 DEF More
    <3>4. c <= l /\ Len(f) <= l /\ l <= m
      BY <3>1 DEF More
    <3> HIDE DEF l, m
    <3>5. Len(g) = l /\ \A i \in 1..l : g[i] = IF i > a /\ i <= c THEN x[i - a] ELSE IF i <= Len(f) THEN f[i] ELSE 0
      BY <2>5 DEF PutIn, l
    <3>6. v \in Seq(Int) /\ Len(v) = m
          /\ \A i \in 1..m : v[i] = IF i > a /\ i <= a + (t + n) THEN z[i - a] ELSE IF i <= Len(f) THEN f[i] ELSE 0
      BY <2>5 DEF PutIn, m
    <3>7. u \in Seq(Int) /\ Len(u) = m
          /\ \A i \in 1..m : u[i] = IF i > c /\ i <= c + n THEN y[i - c] ELSE IF i <= l THEN g[i] ELSE 0
      BY <2>6, <3>3, <3>5 DEF PutIn
    <3>8. ASSUME NEW i \in 1..m
          PROVE  u[i] = v[i]
      <4>0. i \in Int
        BY <3>2
      <4>1. CASE i > c /\ i <= c + n
        <5>1. u[i] = y[i - c] /\ v[i] = z[i - a]
          BY <3>6, <3>7, <4>1
        <5>2. i - c \in 1..n /\ t + (i - c) = i - a
          BY <4>1
        <5>3. y[i - c] = z[t + (i - c)]
          BY <2>1, <5>2 DEF Behind
        <5> QED
          BY <5>1, <5>2, <5>3
      <4>2. CASE i > a /\ i <= c
        <5>1. u[i] = g[i] /\ v[i] = z[i - a]
          BY <3>4, <3>2, <3>6, <3>7, <4>2
        <5>2. i \in 1..l /\ i - a \in 1..t
          BY <3>4, <3>2, <4>2
        <5>3. g[i] = x[i - a]
          BY <3>5, <4>2, <5>2
        <5>4. x[i - a] = z[i - a]
          BY <2>1, <5>2 DEF Behind
        <5> QED
          BY <5>1, <5>3, <5>4
      <4>3. CASE i <= a \/ i > c + n
        <5>1. u[i] = IF i <= l THEN g[i] ELSE 0
          BY <3>7, <4>3
        <5>2. v[i] = IF i <= Len(f) THEN f[i] ELSE 0
          BY <3>6, <4>3
        <5>3. i \in 1..l => g[i] = IF i <= Len(f) THEN f[i] ELSE 0
          BY <3>5, <4>3
        <5>4. i <= l => i \in 1..l
          BY <3>2
        <5>5. i <= Len(f) => i <= l
          BY <3>1, <3>2, <3>4
        <5> QED
          BY <5>1, <5>2, <5>3, <5>4, <5>5
      <4> QED
        BY <4>1, <4>2, <4>3
    <3> QED
      BY <3>6, <3>7, <3>8, SameSeq
  <2> QED
    BY <2>3 DEF g, u, v, x, y, z, Wrote, Following
<1> QED
  BY <1>4, <1>5, <1>6

\* Some units of a sequence, from one on.
Held(s, f, a, n) == \A i \in 1..n : s[i] = f[a + i]
IsPiece(s, f, a, n) == s \in Seq(Int) /\ Len(s) = n /\ Held(s, f, a, n)
LEMMA PieceIs ==
  ASSUME NEW f \in Seq(Int), NEW a \in Nat, NEW n \in Nat, a + n <= Len(f)
  PROVE  IsPiece(SubSeq(f, a + 1, a + n), f, a, n)
BY Piece DEF IsPiece, Held
LEMMA HeadIs ==
  ASSUME NEW f \in Seq(Int), NEW n \in Nat, n <= Len(f)
  PROVE  SubSeq(f, 1, n) \in Seq(Int) /\ Len(SubSeq(f, 1, n)) = n /\ Held(SubSeq(f, 1, n), f, 0, n)
BY DEF Held
LEMMA PieceSame ==
  ASSUME NEW f, NEW a \in Nat, NEW n \in Nat, NEW s, IsPiece(s, f, a, n), NEW r, IsPiece(r, f, a, n)
  PROVE  s = r
<1>1. s \in Seq(Int) /\ r \in Seq(Int) /\ Len(s) = n /\ Len(r) = n
  BY DEF IsPiece
<1>2. \A i \in 1..n : s[i] = r[i]
  BY DEF IsPiece, Held
<1> QED
  BY <1>1, <1>2, SameSeq

\* A chunk of a read: what there is of it, from the position on.
LEMMA ReadLength ==
  ASSUME NEW f \in Seq(Int), NEW a \in Nat, NEW w \in Nat \ {0}, NEW out, out = Part(f, a, w)
  PROVE  /\ IsPiece(out, f, a, Len(out)) /\ Len(out) \in 0..w
         /\ a <= Len(f) => a + Len(out) <= Len(f) /\ (Len(out) < w => a + Len(out) = Len(f))
         /\ a > Len(f) => Len(out) = 0
<1>1. Len(f) \in Nat /\ a + w \in Nat
  OBVIOUS
<1>3. CASE a > Len(f)
  <2>1. Less(a + w, Len(f)) = Len(f)
    BY <1>1, <1>3 DEF Less
  <2>2. Len(out) = 0 /\ out \in Seq(Int)
    BY <1>1, <1>3, <2>1 DEF Part
  <2>3. Held(out, f, a, 0)
    BY DEF Held
  <2> QED
    BY <1>1, <1>3, <2>2, <2>3 DEF IsPiece
<1>4. CASE a <= Len(f)
  <2> DEFINE n == Less(w, Len(f) - a)
  <2>1. Less(a + w, Len(f)) = a + n /\ n \in Nat /\ a + n <= Len(f) /\ n <= w
    BY <1>1, <1>4 DEF Less
  <2>2. n < w => a + n = Len(f)
    BY <1>1, <1>4 DEF Less
  <2> HIDE DEF n
  <2>3. out = SubSeq(f, a + 1, a + n)
    BY <2>1 DEF Part
  <2>5. IsPiece(SubSeq(f, a + 1, a + n), f, a, n)
    BY <2>1, PieceIs
  <2>4. IsPiece(out, f, a, n) /\ Len(out) = n
    BY <2>3, <2>5 DEF IsPiece
  <2>6. Len(out) \in 0..w /\ a + Len(out) <= Len(f) /\ (Len(out) < w => a + Len(out) = Len(f))
    BY <2>1, <2>2, <2>4
  <2> QED
    BY <1>1, <1>4, <2>4, <2>6
<1>5. a > Len(f) \/ a <= Len(f)
  BY <1>1
<1> QED
  BY <1>3, <1>4, <1>5, Zenon

\* With the chunk behind what was read before, the buffer holds that much more of the file.
Laid(new, buf, out, t, n) ==
  \A i \in 1..Len(buf) : new[i] = IF i > t /\ i <= t + n THEN out[i - t] ELSE buf[i]
LEMMA ReadJoin ==
  ASSUME NEW f \in Seq(Int), NEW a \in Nat, NEW t \in Nat, NEW buf \in Seq(Int), NEW new \in Seq(Int),
         NEW out, NEW n \in Nat, IsPiece(out, f, a + t, n), t + n <= Len(buf), Len(new) = Len(buf),
         Alike(buf, f, a, t), t = 0 \/ a + t <= Len(f), n = 0 \/ a + t + n <= Len(f),
         Laid(new, buf, out, t, n)
  PROVE  Alike(new, f, a, t + n)
<1>0. Len(buf) \in Nat /\ Len(f) \in Nat /\ t <= Len(buf) /\ t + n \in Nat
  OBVIOUS
<1>1. CASE t + n = 0
  <2>1. SubSeq(new, 1, 0) = <<>> /\ SubSeq(f, a + 1, a) = <<>>
    OBVIOUS
  <2>2. t + n = 0 /\ a + (t + n) = a
    BY <1>1
  <2> QED
    BY <2>1, <2>2 DEF Alike
<1>2. CASE t + n # 0
  <2>1. a + (t + n) <= Len(f) /\ a + t <= Len(f)
    BY <1>0, <1>2
  <2> DEFINE u == SubSeq(new, 1, t + n)
  <2>2. u \in Seq(Int) /\ Len(u) = t + n /\ Held(u, new, 0, t + n)
    BY <1>0, HeadIs
  <2>3. IsPiece(SubSeq(f, a + 1, a + (t + n)), f, a, t + n)
    BY <1>0, <2>1, PieceIs
  <2>4. Held(SubSeq(buf, 1, t), buf, 0, t) /\ Held(SubSeq(buf, 1, t), f, a, t)
    <3>1. Held(SubSeq(buf, 1, t), buf, 0, t)
      BY <1>0, HeadIs
    <3>2. IsPiece(SubSeq(f, a + 1, a + t), f, a, t)
      BY <2>1, PieceIs
    <3> QED
      BY <3>1, <3>2 DEF IsPiece, Alike
  <2> HIDE DEF u
  <2>5. ASSUME NEW i \in 1..t + n
        PROVE  u[i] = f[a + i]
    <3>3. i \in 1..Len(buf)
      BY <1>0
    <3>0. i \in 1..Len(buf) /\ u[i] = new[i]
      <4>1. u[i] = new[0 + i] /\ 0 + i = i
        BY <2>2 DEF Held
      <4> QED
        BY <3>3, <4>1
    <3>1. CASE i <= t
      <4>1. new[i] = buf[i]
        BY <3>0, <3>1 DEF Laid
      <4>2. buf[i] = f[a + i]
        BY <2>4, <3>1 DEF Held
      <4> QED
        BY <3>0, <4>1, <4>2
    <3>2. CASE i > t
      <4>1. new[i] = out[i - t]
        BY <3>0, <3>2 DEF Laid
      <4>2. i - t \in 1..n /\ a + t + (i - t) = a + i
        BY <3>2
      <4>3. out[i - t] = f[a + t + (i - t)]
        BY <4>2 DEF Held, IsPiece
      <4> QED
        BY <3>0, <4>1, <4>2, <4>3
    <3> QED
      BY <3>1, <3>2
  <2>6. IsPiece(u, f, a, t + n)
    BY <2>2, <2>5 DEF IsPiece, Held
  <2>7. u = SubSeq(f, a + 1, a + (t + n))
    BY <1>0, <2>3, <2>6, PieceSame
  <2> QED
    BY <2>7 DEF u, Alike
<1> QED
  BY <1>1, <1>2

----------------------------------------------------------------------------
(* Reads and writes under way.                                             *)

\* The types of what a move is about.
LEMMA MovingFacts ==
  ASSUME TypeInv, Moving, ~At("out"), call.fn \in Moves
  PROVE  /\ call.h \in Handles /\ Was(call).pos \in Nat /\ Was(call).id \in 1..Len(host.ids) /\ Was(call).size \in Nat
         /\ call.data \in Seq(Int) /\ call.n \in 0..Len(call.data) /\ dos.buf \in Seq(Int) /\ Total \in Nat
         /\ There => DataWas(call) \in Seq(Int)
<1>1. hist.before.sft \in [Handles -> SftEntry] /\ IsFolder(hist.before.files) /\ hist.before \in
        [files : {hist.before.files}, dirs : SUBSET Paths, sft : [Handles -> SftEntry]]
  BY DEF TypeInv, HistTyped
<1>2. call.h \in Handles /\ call.data \in Seq(Int) /\ call.n \in 0..Len(call.data) /\ dos.buf \in Seq(Int)
  BY DEF TypeInv, CallTyped, Call, DosTyped, Dos
<1>3. Was(call) \in SftEntry
  BY <1>1, <1>2 DEF Was
<1>4. Total \in Nat
  BY DEF TypeInv, CpuTyped, Cpu, Total
<1>5. There => DataWas(call) \in Seq(Int)
  BY <1>1 DEF There, DataWas, IsFolder, File
<1>6. Was(call).id \in 1..Len(host.ids)
  BY DEF Moving
<1> QED
  BY <1>2, <1>3, <1>4, <1>5, <1>6 DEF SftEntry

\* A move stands as it was when nothing it looks at changes.
LEMMA MoveKept ==
  ASSUME Moving, ~At("out"), UNCHANGED <<dos, host, call>>, hist'.before = hist.before, Total' = Total,
         At("wait")' /\ call.fn \in Moves => At("wait") \/ call.n # 0,
         Asking' => /\ call.fn = "READFIL" => box'.frame = ReadQuery(call)'
                    /\ call.fn = "WRITEFIL" => box'.frame = WriteQuery(call)',
         Served' <=> Served, Served => R' = R /\ UNCHANGED cpu
  PROVE  Moving'
<1> SUFFICES ASSUME call.fn \in Moves
             PROVE  Moving'
  BY DEF Moving
<1>1. /\ Was(call)' = Was(call) /\ There' = There /\ DataWas(call)' = DataWas(call) /\ (Served => Good' = Good /\ Now' = Now)
  BY DEF Was, There, DataWas, Good, Now
<1>2. Total' < call.n \/ (Total' = 0 /\ call.n = 0 /\ ~At("wait")')
  BY DEF Moving
<1>3. ASSUME call.fn = "READFIL"
      PROVE  ReadPart'
  BY <1>1, <1>3 DEF Moving, ReadPart
<1>4. ASSUME call.fn = "WRITEFIL"
      PROVE  WritePart'
  BY <1>1, <1>4 DEF Moving, WritePart
<1> QED
  BY <1>1, <1>2, <1>3, <1>4 DEF Moving

\* A move that begins.
LEMMA MoveBegins ==
  ASSUME TypeInv, Handled, NEW k \in hist.prog.calls, Begin(k)
  PROVE  Moving'
<1> SUFFICES ASSUME k.fn \in Moves
             PROVE  Moving'
  BY DEF Begin, Moving
<1>1. TypeInv' /\ call' = k /\ k \in Call
  BY BeginTypes
<1>2. dos \in Dos /\ HostTyped(host) /\ cpu \in Cpu /\ k.h \in Handles /\ k.data \in Seq(Int)
  BY <1>1 DEF TypeInv, DosTyped, CpuTyped, Call
<1>3. /\ dos'.sft = dos.sft /\ dos'.buf = k.data /\ host'.files = host.files /\ host'.ids = host.ids /\ host'.wrote = 0
      /\ hist'.before = [files |-> host.files, dirs |-> host.dirs, sft |-> dos.sft]
      /\ At("enter")' /\ dos.sft[k.h].count > 0
  <2>1. dos'.sft = dos.sft /\ dos'.buf = k.data
    BY <1>2 DEF Begin, Dos
  <2>2. host'.files = host.files /\ host'.ids = host.ids /\ host'.wrote = 0
    BY <1>2 DEF Begin, HostTyped
  <2>3. hist'.before = [files |-> host.files, dirs |-> host.dirs, sft |-> dos.sft]
    BY DEF Begin, TypeInv, HistTyped, Hist
  <2>4. At("enter")' /\ dos.sft[k.h].count > 0
    BY <1>2 DEF Begin, At, Cpu, Ready, Sft, Moves, OnHandle
  <2> QED
    BY <2>1, <2>2, <2>3, <2>4
<1>4. /\ Total' = 0 /\ ~Asking' /\ ~Served' /\ ~At("wait")' /\ Was(call)' = dos.sft[k.h]
      /\ dos.sft[k.h].id \in 1..Len(host.ids) /\ dos.sft[k.h] \in SftEntry
  BY <1>1, <1>2, <1>3 DEF Total, Asking, Served, At, Was, Handled, Dos
<1>5. k.n \in 0..Len(k.data)
  BY <1>1 DEF TypeInv, CallTyped
<1>6. There' => DataWas(call)' = host.files[host.ids[dos.sft[k.h].id]].data
  BY <1>1, <1>3, <1>4 DEF DataWas, There
<1>7. ASSUME k.fn = "READFIL"
      PROVE  ReadPart'
  <2>1. Alike(k.data, DataWas(call)', dos.sft[k.h].pos, 0)
    <3>1. SubSeq(k.data, 1, 0) = <<>> /\ dos.sft[k.h].pos \in Nat /\ dos.sft[k.h].pos + 0 = dos.sft[k.h].pos
      BY <1>2, <1>4 DEF SftEntry
    <3> QED
      BY <3>1 DEF Alike
  <2> QED
    BY <1>1, <1>3, <1>4, <2>1 DEF ReadPart
<1>8. ASSUME k.fn = "WRITEFIL"
      PROVE  WritePart'
  <2>1. dos.sft[k.h].pos + 0 = dos.sft[k.h].pos
    BY <1>4 DEF SftEntry
  <2>2. There' => /\ host.files[host.ids[dos.sft[k.h].id]].data =
                       Overlay(DataWas(call)', dos.sft[k.h].pos, SubSeq(k.data, 1, 0))
                  /\ host.ids[dos.sft[k.h].id] \in DOMAIN host.files
    <3> DEFINE f == host.files[host.ids[dos.sft[k.h].id]].data
               a == dos.sft[k.h].pos
               e == k.data
    <3>1. There' => host.ids[dos.sft[k.h].id] \in DOMAIN host.files
      BY <1>3, <1>4 DEF There
    <3>2. e \in Seq(Int)
      BY <1>2
    <3> HIDE DEF f, a, e
    <3>3. Overlay(f, a, SubSeq(e, 1, 0)) = f
      BY <3>2, OverlayNone
    <3> QED
      BY <1>6, <3>1, <3>3 DEF f, a, e
  <2>3. dos'.buf = call'.data /\ dos'.sft[call'.h] = Was(call)' /\ host'.wrote = Total'
    BY <1>1, <1>3, <1>4
  <2>4. Was(call)'.pos + Total' = Was(call)'.pos /\ host'.wrote = 0
    BY <1>3, <1>4, <2>1
  <2>5. There' => /\ host'.ids[Was(call)'.id] \in DOMAIN host'.files
                  /\ host'.files[host'.ids[Was(call)'.id]].data =
                       Overlay(DataWas(call)', Was(call)'.pos, SubSeq(call'.data, 1, host'.wrote))
    BY <1>1, <1>3, <1>4, <2>2
  <2>6. /\ dos'.sft[call'.h].id = Was(call)'.id
        /\ dos'.sft[call'.h].pos = Was(call)'.pos + Total'
        /\ dos'.sft[call'.h].size = Was(call)'.size /\ Total' = 0
    BY <1>4, <2>3, <2>4
  <2>7. host'.wrote = Total' + 0 /\ ~Asking' /\ ~Served'
    BY <1>4, <2>4
  <2> DEFINE whole == Overlay(DataWas(call)', Was(call)'.pos, SubSeq(call'.data, 1, host'.wrote))
  <2>8. There' => /\ host'.ids[Was(call)'.id] \in DOMAIN host'.files
                  /\ host'.files[host'.ids[Was(call)'.id]].data = whole
    BY <2>5
  <2> HIDE DEF whole
  <2>9. WritePart' = (/\ dos'.buf = call'.data
                      /\ dos'.sft[call'.h].pos = Was(call)'.pos + Total' /\ dos'.sft[call'.h].id = Was(call)'.id
                      /\ \/ dos'.sft[call'.h].size = More(Was(call)'.size, Was(call)'.pos + Total')
                         \/ Total' = 0 /\ dos'.sft[call'.h].size = Was(call)'.size
                      /\ Asking' => box'.frame = WriteQuery(call)'
                      /\ host'.wrote = Total' + (IF Served' /\ Good' /\ R'.len = 2 THEN R'.out[1] ELSE 0)
                      /\ Served' /\ Good' /\ R'.len = 2 => R'.out[1] \in {Now', Now' - 1}
                      /\ There' => /\ host'.ids[Was(call)'.id] \in DOMAIN host'.files
                                   /\ host'.files[host'.ids[Was(call)'.id]].data = whole)
    BY Zenon DEF WritePart, whole
  <2> QED
    BY <2>3, <2>6, <2>7, <2>8, <2>9
<1> QED
  BY <1>1, <1>3, <1>4, <1>5, <1>7, <1>8 DEF Moving

\* What the host answers to a read.
LEMMA FileRead ==
  ASSUME NEW q, q.fn = "READFIL", NEW o \in OnOpenFile(q), NEW p, p = host.ids[q.id]
  PROVE  o = Missing \/ (p \in DOMAIN host.files /\ o = Outcome(Reply(Len(Read(p, q)), 0, Read(p, q)), host))
BY OnOpenFileCases

\* What it answers to a write.
LEMMA FileWritten ==
  ASSUME NEW q, q.fn = "WRITEFIL", NEW o \in OnOpenFile(q), NEW p, p = host.ids[q.id]
  PROVE  \/ o = Missing
         \/ /\ p \in DOMAIN host.files
            /\ \E n \in {q.n, q.n - 1} : o = Outcome(Reply(2, 0, <<n>>), Overwritten(p, q, n))
BY OnOpenFileCases

\* The host serves a chunk.
LEMMA MoveServed ==
  ASSUME TypeInv, Protocol, Handled, Moving, HostServes
  PROVE  Moving'
<1> SUFFICES ASSUME call.fn \in Moves
             PROVE  Moving'
  BY DEF Moving, HostServes
<1>1. PICK o \in Does(box.frame) \cup Refusals :
        /\ ServerKeeps(o) /\ host' = o.h /\ R' = o.r /\ box'.frame.fn = "answer" /\ hist' = Noted(o)
  BY ServesTypes
<1>2. /\ Asking /\ Sound(box.frame) /\ box.frame.fn = call.fn /\ UNCHANGED <<dos, tsr, cpu, call>> /\ HostTyped(host)
  BY ServesTypes DEF HostServes, Put, QueryFn, Moves, TypeInv
<1>3. ~At("out") /\ At("wait") /\ ~At("enter") /\ ~Served /\ Served' /\ ~Asking' /\ Total = cpu.total /\ Total' = cpu.total
      /\ Now' = Now
  BY <1>1, <1>2 DEF Asking, Served, At, Total, Now
<1>4. hist'.before = hist.before
  BY <1>1 DEF Noted, TypeInv, HistTyped, Hist
<1>5. Was(call)' = Was(call) /\ Total < call.n /\ Was(call).id \in 1..Len(host.ids)
  BY <1>2, <1>3, <1>4 DEF Was, Moving
<1>6. /\ call.h \in Handles /\ Was(call).pos \in Nat /\ call.data \in Seq(Int) /\ call.n \in 0..Len(call.data)
      /\ Total \in Nat /\ (There => DataWas(call) \in Seq(Int))
  BY <1>3, MovingFacts
<1> DEFINE q == box.frame
           p == host.ids[Was(call).id]
<1>7. host'.ids[Was(call).id] = p /\ Was(call).id \in 1..Len(host'.ids)
  BY <1>1, <1>2, <1>5 DEF ServerKeeps, HostTyped
<1>8. There' = There /\ (There => DataWas(call)' = DataWas(call))
  BY <1>2, <1>4, <1>5, <1>7 DEF There, DataWas
<1>9. \/ o.h = host /\ (o.r.len = 65535 \/ o.r.ax # 0)
      \/ o \in OnOpenFile(q)
  <2>1. CASE o \in Refusals
    BY <1>2, <2>1, RefusalServed
  <2>2. CASE o \in Does(q)
    BY <1>2, <2>2, DoesCases DEF Moves, OnHandle
  <2> QED
    BY <1>1, <2>1, <2>2
<1>10. ASSUME call.fn = "READFIL"
       PROVE  ReadPart'
  <2>1. q = ReadQuery(call) /\ dos.sft = hist.before.sft /\ host.files = hist.before.files
    BY <1>2, <1>3, <1>10 DEF Moving, ReadPart
  <2>2. q.id = Was(call).id /\ q.off = Was(call).pos + Total /\ q.n = Now
    BY <1>3, <1>5, <1>10, <2>1, ReadQueryIs DEF TypeInv, Was
  <2>3. \/ o.h = host /\ (o.r.len = 65535 \/ o.r.ax # 0)
        \/ There /\ o.h = host /\ o.r.out = Part(DataWas(call), Was(call).pos + Total, Now)
    <3>1. CASE o \in OnOpenFile(q)
      <4>1. CASE o = Missing
        BY <4>1 DEF Missing, Outcome, Reply
      <4>2. CASE p \in DOMAIN host.files /\ o = Outcome(Reply(Len(Read(p, q)), 0, Read(p, q)), host)
        <5>1. o.h = host /\ o.r.out = Read(p, q)
          BY <4>2 DEF Outcome, Reply
        <5>2. There /\ host.files[p].data = DataWas(call)
          BY <2>1, <4>2 DEF There, DataWas
        <5>3. Read(p, q) = Part(DataWas(call), Was(call).pos + Total, Now)
          BY <2>2, <5>2 DEF Read, Part
        <5> QED
          BY <5>1, <5>2, <5>3
      <4>3. q.fn = "READFIL" /\ p = host.ids[q.id]
        BY <1>2, <1>10, <2>2
      <4> HIDE DEF q, p
      <4> QED
        BY <3>1, <4>1, <4>2, <4>3, FileRead
    <3> QED
      BY <1>9, <3>1
  <2>4. host' = host /\ (Good' => There /\ R'.out = Part(DataWas(call), Was(call).pos + Total, Now))
    BY <1>1, <2>3 DEF Good
  <2>5. There => /\ Total = 0 \/ Was(call).pos + Total <= Len(DataWas(call))
                 /\ Alike(dos.buf, DataWas(call), Was(call).pos, Total)
    BY <1>3, <1>10 DEF Moving, ReadPart
  <2>6. Len(dos.buf) = Len(call.data)
    BY <1>3, <1>10 DEF Moving, ReadPart
  <2> QED
    BY <1>2, <1>3, <1>4, <1>5, <1>8, <2>1, <2>4, <2>5, <2>6 DEF ReadPart
<1>11. ASSUME call.fn = "WRITEFIL"
       PROVE  WritePart'
  <2>1. /\ q = WriteQuery(call) /\ dos.buf = call.data /\ host.wrote = Total
        /\ dos.sft[call.h].pos = Was(call).pos + Total /\ dos.sft[call.h].id = Was(call).id
        /\ \/ dos.sft[call.h].size = More(Was(call).size, Was(call).pos + Total)
           \/ Total = 0 /\ dos.sft[call.h].size = Was(call).size
        /\ There => /\ p \in DOMAIN host.files
                    /\ host.files[p].data = Overlay(DataWas(call), Was(call).pos, SubSeq(call.data, 1, Total))
    <3>1. WritePart
      BY <1>3, <1>11 DEF Moving
    <3>2. host.wrote = Total
      BY <1>3, <1>6, <3>1 DEF WritePart
    <3> QED
      BY <1>2, <3>1, <3>2 DEF WritePart
  <2>2. /\ q.id = Was(call).id /\ q.off = Was(call).pos + Total /\ q.n = Now /\ Now \in Nat \ {0}
        /\ Total + Now <= call.n
        /\ q.data = SubSeq(call.data, Total + 1, Total + Now)
    BY <1>3, <1>5, <1>11, <2>1, WriteQueryIs DEF TypeInv
  <2> DEFINE Same(r) == r.len = 65535 \/ r.ax # 0
             Whole(h, w) == There => /\ p \in DOMAIN h.files
                                     /\ h.files[p].data = Overlay(DataWas(call), Was(call).pos, SubSeq(call.data, 1, w))
  <2>3. \/ Same(o.r) /\ o.h = host
        \/ \E n \in {Now, Now - 1} : o.r.out = <<n>> /\ o.r.len = 2 /\ o.r.ax = 0 /\ o.h.wrote = Total + n /\ Whole(o.h, Total + n)
    <3>1. CASE o \in OnOpenFile(q)
      <4>1. CASE o = Missing
        BY <4>1 DEF Missing, Outcome, Reply
      <4>2. ASSUME p \in DOMAIN host.files, NEW n \in {Now, Now - 1},
                   o = Outcome(Reply(2, 0, <<n>>), Overwritten(p, q, n))
            PROVE  o.r.out = <<n>> /\ o.r.len = 2 /\ o.r.ax = 0 /\ o.h.wrote = Total + n /\ Whole(o.h, Total + n)
        <5>1. o.r.out = <<n>> /\ o.r.len = 2 /\ o.r.ax = 0 /\ o.h = Overwritten(p, q, n)
          BY <4>2 DEF Outcome, Reply
        <5> HIDE DEF Same, Whole
        <5> DEFINE d == Overlay(host.files[p].data, q.off, SubSeq(q.data, 1, n))
        <5>2. o.h.wrote = Total + n /\ o.h.files = [host.files EXCEPT ![p].data = d]
          BY <1>2, <2>1, <5>1 DEF Overwritten, HostTyped
        <5>3. n \in Nat /\ n <= Now
          BY <2>2, <4>2
        <5>4. There => d = Overlay(DataWas(call), Was(call).pos, SubSeq(call.data, 1, Total + n))
          <6> SUFFICES ASSUME There
                       PROVE  d = Overlay(DataWas(call), Was(call).pos, SubSeq(call.data, 1, Total + n))
            OBVIOUS
          <6>1. SubSeq(q.data, 1, n) = SubSeq(call.data, Total + 1, Total + n)
            <7>1. Total + Now <= Len(call.data)
              BY <1>6, <2>2
            <7>2. SubSeq(SubSeq(call.data, Total + 1, Total + Now), 1, n) = SubSeq(call.data, Total + 1, Total + n)
              BY <1>6, <2>2, <5>3, <7>1, PieceOfPiece
            <7> QED
              BY <2>2, <7>2
          <6>2. Total + n <= Len(call.data)
            BY <1>6, <2>2, <5>3
          <6>3. Overlay(Overlay(DataWas(call), Was(call).pos, SubSeq(call.data, 1, Total)), Was(call).pos + Total,
                        SubSeq(call.data, Total + 1, Total + n))
                  = Overlay(DataWas(call), Was(call).pos, SubSeq(call.data, 1, Total + n))
            <7>1. DataWas(call) \in Seq(Int) /\ Was(call).pos \in Nat /\ call.data \in Seq(Int) /\ Total \in Nat
              BY <1>6
            <7> DEFINE f == DataWas(call)
                       a == Was(call).pos
                       e == call.data
                       t == Total
            <7>2. f \in Seq(Int) /\ a \in Nat /\ e \in Seq(Int) /\ t \in Nat /\ n \in Nat /\ t + n <= Len(e)
              BY <5>3, <6>2, <7>1
            <7> HIDE DEF f, a, e, t
            <7>3. Overlay(Wrote(f, a, e, t), a + t, Following(e, t, n)) = Wrote(f, a, e, t + n)
              BY <7>2, OverlayJoin
            <7> QED
              BY <7>3 DEF f, a, e, t, Wrote, Following
          <6> QED
            BY <2>1, <2>2, <6>1, <6>3
        <5> HIDE DEF d
        <5>5. DOMAIN o.h.files = DOMAIN host.files /\ (IsFolder(host.files) => o.h.files[p].data = d)
          <6>1. o.h.files = [host.files EXCEPT ![p].data = d]
            BY <5>2
          <6>2. IsFolder(host.files) => host.files[p] \in File
            BY <4>2 DEF IsFolder
          <6>3. host.files[p] \in File => [host.files[p] EXCEPT !.data = d].data = d
            BY DEF File
          <6>4. p \in DOMAIN host.files
            BY <4>2
          <6> HIDE DEF p
          <6> QED
            BY <6>1, <6>2, <6>3, <6>4
        <5> QED
          BY <1>2, <4>2, <5>1, <5>2, <5>4, <5>5 DEF HostTyped, Whole
      <4> HIDE DEF Same, Whole, p
      <4>3. p = host.ids[q.id] /\ q.fn = "WRITEFIL" /\ q.n = Now
        BY <1>2, <1>11, <2>2 DEF p
      <4> HIDE DEF q
      <4>4. \/ o = Missing
            \/ p \in DOMAIN host.files /\ \E n \in {Now, Now - 1} : o = Outcome(Reply(2, 0, <<n>>), Overwritten(p, q, n))
        BY <3>1, <4>3, FileWritten
      <4> QED
        BY <4>1, <4>2, <4>4
    <3> HIDE DEF Whole
    <3> QED
      BY <1>9, <3>1
  <2>4. CASE Same(o.r) /\ o.h = host
    <3>1. ~Good' /\ host' = host
      BY <1>1, <2>4 DEF Good
    <3> QED
      BY <1>2, <1>3, <1>5, <1>6, <1>8, <2>1, <3>1 DEF WritePart
  <2>5. ASSUME NEW n \in {Now, Now - 1}, o.r.out = <<n>>, o.r.len = 2, o.r.ax = 0, o.h.wrote = Total + n, Whole(o.h, Total + n)
        PROVE  WritePart'
    <3>1. R'.out[1] = n /\ R'.len = 2 /\ Good' /\ host'.wrote = Total + n /\ Whole(host', Total + n)
      BY <1>1, <2>5 DEF Good
    <3> QED
      BY <1>2, <1>3, <1>5, <1>7, <1>8, <2>1, <3>1 DEF WritePart
  <2> HIDE DEF Same, Whole
  <2> QED
    BY <2>3, <2>4, <2>5
<1> QED
  BY <1>2, <1>3, <1>5, <1>7, <1>10, <1>11 DEF Moving

Ended(t) == t = More(0, Less(call.n, Len(DataWas(call)) - Was(call).pos))
\* What an answer to a read does: the buffer, and at the end the position.
LEMMA ReadStep ==
  ASSUME TypeInv, Protocol, Fits, Moving, ReadOn, NEW t, t = cpu.total + R.len
  PROVE  /\ Served /\ UNCHANGED <<tsr, box, host, call, hist>> /\ dos'.sft[call.h].id = dos.sft[call.h].id
         /\ ~Good => UNCHANGED dos /\ \E c : Return(Fail(c))
         /\ Good => /\ There /\ t \in Nat
                    /\ Alike(dos'.buf, DataWas(call), Was(call).pos, t) /\ Len(dos'.buf) = Len(call.data)
                    /\ t = 0 \/ Was(call).pos + t <= Len(DataWas(call))
                    /\ \/ /\ Ended(t) /\ Return([Success EXCEPT !.cx = t])
                          /\ dos'.sft[call.h].pos = Was(call).pos + t
                       \/ /\ t < call.n /\ cpu' = [cpu EXCEPT !.pc = "work", !.total = t]
                          /\ dos'.sft = dos.sft
<1>1. /\ Served /\ UNCHANGED <<tsr, box, host, call, hist>> /\ call.fn = "READFIL" /\ ~At("out") /\ call.fn \in Moves
      /\ R.len \in Nat /\ R.ax \in Nat
  BY AnswerThere DEF ReadOn, Served, At, Moves
<1>2. /\ call.h \in Handles /\ Was(call).pos \in Nat /\ call.n \in 0..Len(call.data)
      /\ Total \in Nat /\ Total = cpu.total /\ (There => DataWas(call) \in Seq(Int))
  BY <1>1, MovingFacts DEF Total, Served, At
<1>3. ReadPart /\ Total < call.n
  BY <1>1 DEF Moving, Served
<1>4. dos \in Dos
  BY DEF TypeInv, DosTyped
<1>5. CASE ~Good
  <2>1. UNCHANGED dos /\ \E c : Return(Fail(c))
    BY <1>5 DEF ReadOn, Good
  <2> QED
    BY <1>1, <1>5, <2>1
<1>6. CASE Good
  <2> DEFINE f == DataWas(call)
             a == Was(call).pos
             n == R.len
             x == Copied.sft[call.h].pos + t
  <2>1. There /\ R.out = Part(f, a + Total, Now) /\ Now \in Nat \ {0} /\ Total + Now <= call.n
        /\ (Total = 0 \/ a + Total <= Len(f)) /\ Alike(dos.buf, f, a, Total) /\ Len(dos.buf) = Len(call.data)
        /\ dos.sft = hist.before.sft
    BY <1>1, <1>2, <1>3, <1>6, ChunkFits DEF ReadPart, Now
  <2>2. /\ Copied = [dos EXCEPT !.buf = Filled] /\ Copied \in Dos /\ Copied.sft = dos.sft
        /\ R.out \in Seq(Int) /\ n = Len(R.out) /\ Filled \in Seq(Int) /\ Len(Filled) = Len(dos.buf)
    BY <1>1, <1>6, CopiedIs
  <2>3. f \in Seq(Int) /\ a \in Nat /\ Total \in Nat /\ a + Total \in Nat /\ Len(f) \in Nat /\ t = Total + n
    BY <1>2, <2>1
  <2>4. \/ t = call.n /\ dos' = [Copied EXCEPT !.sft[call.h].pos = x] /\ Return([Success EXCEPT !.cx = t])
        \/ n < Now /\ dos' = [Copied EXCEPT !.sft[call.h].pos = x] /\ Return([Success EXCEPT !.cx = t])
        \/ n >= Now /\ t # call.n /\ dos' = Copied /\ cpu' = [cpu EXCEPT !.pc = "work", !.total = t]
    BY <1>1, <1>2, <1>6, <2>1 DEF ReadOn, ReadEnds, Good, Now
  <2>5. Laid(Filled, dos.buf, R.out, Total, n)
    BY <1>2, <1>4 DEF Laid, Filled, Dos
  <2> HIDE DEF f, a, x
  <2>6. /\ IsPiece(R.out, f, a + Total, n) /\ n \in 0..Now
        /\ a + Total <= Len(f) => a + Total + n <= Len(f) /\ (n < Now => a + Total + n = Len(f))
        /\ a + Total > Len(f) => n = 0
    <3>1. /\ IsPiece(R.out, f, a + Total, Len(R.out)) /\ Len(R.out) \in 0..Now
          /\ a + Total <= Len(f) => a + Total + Len(R.out) <= Len(f) /\ (Len(R.out) < Now => a + Total + Len(R.out) = Len(f))
          /\ a + Total > Len(f) => Len(R.out) = 0
      BY <2>1, <2>3, ReadLength
    <3> QED
      BY <2>2, <3>1
  <2> HIDE DEF n
  <2>7. n \in Nat /\ t \in Nat /\ (n = 0 \/ a + Total + n <= Len(f)) /\ (t = 0 \/ a + t <= Len(f)) /\ Total + n <= call.n
    <3>1. n \in 0..Now /\ Now \in Nat /\ Total + Now <= call.n /\ call.n \in Nat
      BY <1>2, <2>1, <2>6
    <3>2. n \in Nat /\ n <= Now
      BY <3>1
    <3>3. t \in Nat /\ Total + n <= call.n
      BY <2>3, <3>1, <3>2
    <3>4. n = 0 \/ a + Total + n <= Len(f)
      BY <2>3, <2>6
    <3>5. t = 0 \/ a + t <= Len(f)
      <4>1. Total = 0 \/ a + Total <= Len(f)
        BY <2>1
      <4>2. a \in Nat /\ Total \in Nat /\ t = Total + n /\ Len(f) \in Nat
        BY <2>3
      <4> QED
        BY <3>2, <3>4, <4>1, <4>2
    <3> QED
      BY <3>2, <3>3, <3>4, <3>5
  <2>8. Alike(Filled, f, a, t)
    <3> DEFINE b == dos.buf
               g == Filled
               out == R.out
               w == Total
    <3>0. b = dos.buf /\ g = Filled /\ out = R.out /\ w = Total
      OBVIOUS
    <3> HIDE DEF b, g, out, w
    <3>1. w + n <= Len(b) /\ b \in Seq(Int)
      <4> DEFINE m == call.n
                 e == Len(call.data)
      <4>1. b \in Seq(Int)
        BY <1>4, <3>0 DEF Dos
      <4>2. w + n <= m /\ m \in 0..e /\ Len(b) = e
        BY <1>2, <2>1, <2>7, <3>0
      <4>3. w \in Nat /\ n \in Nat
        BY <2>3, <2>7, <3>0
      <4> HIDE DEF m, e
      <4>4. e \in Nat
        BY <4>1, <4>2
      <4> QED
        BY <4>1, <4>2, <4>3, <4>4
    <3>3. /\ f \in Seq(Int) /\ a \in Nat /\ w \in Nat /\ g \in Seq(Int) /\ n \in Nat /\ Len(g) = Len(b)
          /\ IsPiece(out, f, a + w, n) /\ Alike(b, f, a, w) /\ Laid(g, b, out, w, n)
      BY <2>1, <2>2, <2>3, <2>5, <2>6, <2>7, <3>0
    <3>4. (w = 0 \/ a + w <= Len(f)) /\ (n = 0 \/ a + w + n <= Len(f))
      BY <2>1, <2>7, <3>0
    <3>5. Alike(g, f, a, w + n)
      BY <3>1, <3>3, <3>4, ReadJoin
    <3>2. Alike(Filled, f, a, Total + n)
      BY <3>0, <3>5
    <3> QED
      BY <2>3, <3>2
  <2>9. n < Now \/ t = call.n => t = More(0, Less(call.n, Len(f) - a))
    <3> DEFINE l == Len(f)
               m == call.n
               s == Total
               w == Now
    <3>1. l \in Nat /\ m \in Nat /\ a \in Nat /\ s \in Nat /\ w \in Nat /\ n \in 0..w /\ s + w <= m /\ s < m /\ t = s + n
      <4>1. m \in Nat /\ s < m
        BY <1>2, <1>3
      <4>2. w \in Nat /\ s + w <= m
        BY <2>1
      <4>3. n \in 0..w
        BY <2>6
      <4>4. l \in Nat /\ a \in Nat /\ s \in Nat /\ t = s + n
        BY <2>3
      <4> QED
        BY <4>1, <4>2, <4>3, <4>4
    <3>2. /\ s = 0 \/ a + s <= l
          /\ a + s <= l => a + s + n <= l /\ (n < w => a + s + n = l)
          /\ a + s > l => n = 0
      BY <2>1, <2>6
    <3> HIDE DEF l, m, s, w
    <3>3. n < w \/ t = m => t = More(0, Less(m, l - a))
      BY <3>1, <3>2 DEF More, Less
    <3> QED
      BY <3>3 DEF l, m, w
  <2>10. ASSUME dos' = [Copied EXCEPT !.sft[call.h].pos = x]
         PROVE  dos'.buf = Filled /\ dos'.sft[call.h].pos = a + t /\ dos'.sft[call.h].id = dos.sft[call.h].id
    <3>1. Copied.buf = Filled /\ x = a + t
      BY <1>2, <1>4, <2>1, <2>2 DEF Dos, x, a, Was
    <3>2. dos'.sft = [dos.sft EXCEPT ![call.h] = [dos.sft[call.h] EXCEPT !.pos = x]] /\ dos'.buf = Copied.buf
      BY <2>2, <2>10, <1>2 DEF Dos
    <3> QED
      BY <1>2, <1>4, <3>1, <3>2 DEF Dos, SftEntry
  <2>11. dos' = Copied => dos'.buf = Filled /\ dos'.sft = dos.sft
    BY <1>4, <2>2 DEF Dos
  <2>12. Was(call).pos = a /\ DataWas(call) = f
    BY DEF a, f
  <2>13. CASE (t = call.n \/ n < Now) /\ dos' = [Copied EXCEPT !.sft[call.h].pos = x] /\ Return([Success EXCEPT !.cx = t])
    <3>1. Ended(t)
      BY <2>9, <2>12, <2>13 DEF Ended
    <3> QED
      BY <1>1, <1>6, <2>1, <2>2, <2>7, <2>8, <2>10, <2>12, <2>13, <3>1
  <2>14. CASE n >= Now /\ t # call.n /\ dos' = Copied /\ cpu' = [cpu EXCEPT !.pc = "work", !.total = t]
    <3>1. t < call.n
      <4> DEFINE w == Total
                   m == call.n
        <4>1. w \in Nat /\ m \in Nat /\ n \in Nat /\ t = w + n /\ w + n <= m /\ t # m
          BY <1>2, <2>3, <2>7, <2>14
        <4> HIDE DEF w, m
        <4>2. t < m
          BY <4>1
        <4> QED
          BY <4>2 DEF m
    <3> QED
      BY <1>1, <1>6, <2>1, <2>2, <2>7, <2>8, <2>11, <2>12, <2>14, <3>1
  <2> QED
    BY <2>4, <2>13, <2>14 DEF n
<1> QED
  BY <1>5, <1>6

\* What an answer to a write does: position, size and count.
LEMMA WriteStep ==
  ASSUME TypeInv, Protocol, Fits, Moving, WriteOn, NEW e, e = dos'.sft[call.h]
  PROVE  /\ Served /\ UNCHANGED <<tsr, box, host, call, hist>> /\ dos'.buf = dos.buf
         /\ e.id = Was(call).id /\ e.pos = Was(call).pos + host.wrote /\ host.wrote \in Nat
         /\ \/ e.size = More(Was(call).size, Was(call).pos + host.wrote)
            \/ host.wrote = 0 /\ e.size = Was(call).size
         /\ \/ \E r : Return(r) /\ (r.cf \/ r.cx = host.wrote)
            \/ host.wrote < call.n /\ cpu' = [cpu EXCEPT !.pc = "work", !.total = host.wrote]
<1>1. /\ Served /\ UNCHANGED <<tsr, box, host, call, hist>> /\ call.fn = "WRITEFIL" /\ ~At("out") /\ call.fn \in Moves
      /\ R.len \in Nat /\ R.ax \in Nat
  BY AnswerThere DEF WriteOn, Served, At, Moves
<1>2. /\ call.h \in Handles /\ Was(call).pos \in Nat /\ call.n \in 0..Len(call.data) /\ Was(call).size \in Nat
      /\ Total \in Nat /\ Total = cpu.total
  BY <1>1, MovingFacts DEF Total, Served, At
<1>3. WritePart /\ Total < call.n
  BY <1>1 DEF Moving, Served
<1>4. dos \in Dos /\ host.wrote \in Nat /\ Now \in Nat \ {0} /\ Total + Now <= call.n
  BY <1>2, <1>3, ChunkFits DEF TypeInv, DosTyped, HostTyped, Now
<1>5. /\ dos.sft[call.h].pos = Was(call).pos + Total /\ dos.sft[call.h].id = Was(call).id
      /\ \/ dos.sft[call.h].size = More(Was(call).size, Was(call).pos + Total)
         \/ Total = 0 /\ dos.sft[call.h].size = Was(call).size
  BY <1>3 DEF WritePart
<1>6. CASE ~(Good /\ R.len = 2)
  <2>1. UNCHANGED dos /\ \E r : Return(r) /\ r.cf
    <3> DEFINE c == IF R.len = 65535 THEN 2 ELSE R.ax
               r == [Fail(c) EXCEPT !.cx = IF cpu.total = 0 THEN @ ELSE cpu.total]
    <3>1. R.len # 2 \/ R.ax # 0
      BY <1>6 DEF Good
    <3>2. UNCHANGED dos /\ Return(r)
      BY <3>1 DEF WriteOn
    <3>3. r.cf
      BY DEF Fail, Success
    <3> HIDE DEF c, r
    <3> QED
      BY <3>2, <3>3
  <2>2. host.wrote = Total
    <3>1. host.wrote = Total + 0
      BY <1>1, <1>3, <1>6 DEF WritePart
    <3> QED
      BY <1>2, <3>1
  <2> QED
    BY <1>1, <1>5, <1>4, <2>1, <2>2
<1>7. CASE Good /\ R.len = 2
  <2> DEFINE n == R.out[1]
             t == cpu.total + n
             x == dos.sft[call.h].pos + n
             y == More(dos.sft[call.h].size, x)
  <2>1. n \in {Now, Now - 1} /\ host.wrote = Total + n
    BY <1>1, <1>3, <1>7 DEF WritePart
  <2>2. dos' = [dos EXCEPT !.sft[call.h].pos = x, !.sft[call.h].size = y]
    BY <1>7 DEF WriteOn, Good, Sft
  <2>3. \/ Return([Success EXCEPT !.cx = t])
        \/ n = Now /\ t # call.n /\ cpu' = [cpu EXCEPT !.pc = "work", !.total = t]
    BY <1>7 DEF WriteOn, Good, Now
  <2> HIDE DEF n, x, y
  <2>4. n \in Nat /\ n <= Now /\ t = host.wrote
    BY <1>2, <1>4, <2>1
  <2>5. x = Was(call).pos + host.wrote
    BY <1>2, <1>5, <2>1, <2>4 DEF x
  <2>6. y = More(Was(call).size, Was(call).pos + host.wrote)
    <3> DEFINE a == Was(call).pos
               z == Was(call).size
    <3>1. CASE dos.sft[call.h].size = More(z, a + Total)
      <4>1. y = More(More(z, a + Total), a + (Total + n)) /\ host.wrote = Total + n
        BY <2>1, <2>5, <3>1 DEF y
      <4>2. a \in Nat /\ z \in Nat
        BY <1>2
      <4> HIDE DEF a, z
      <4>3. More(More(z, a + Total), a + (Total + n)) = More(z, a + (Total + n))
        BY <1>2, <2>4, <4>2 DEF More
      <4> QED
        BY <4>1, <4>3 DEF a, z
    <3>2. CASE Total = 0 /\ dos.sft[call.h].size = z
      BY <2>1, <2>5, <3>2 DEF y
    <3> QED
      BY <1>5, <3>1, <3>2
  <2>7. e.id = dos.sft[call.h].id /\ e.pos = x /\ e.size = y /\ dos'.buf = dos.buf
    <3>1. dos'.sft = [dos.sft EXCEPT ![call.h] = [dos.sft[call.h] EXCEPT !.pos = x, !.size = y]] /\ dos'.buf = dos.buf
      BY <1>4, <2>2, Zenon DEF Dos
    <3> QED
      BY <1>2, <1>4, <3>1 DEF Dos, SftEntry
  <2>8. \/ \E r : Return(r) /\ (r.cf \/ r.cx = host.wrote)
        \/ host.wrote < call.n /\ cpu' = [cpu EXCEPT !.pc = "work", !.total = host.wrote]
    <3>1. CASE Return([Success EXCEPT !.cx = t])
      <4>1. [Success EXCEPT !.cx = t].cx = t
        BY DEF Success
      <4> QED
        BY <2>4, <3>1, <4>1
    <3>2. CASE n = Now /\ t # call.n /\ cpu' = [cpu EXCEPT !.pc = "work", !.total = t]
      BY <1>2, <1>4, <2>1, <2>4, <3>2
    <3> QED
      BY <2>3, <3>1, <3>2
  <2> QED
    BY <1>1, <1>4, <1>5, <2>5, <2>6, <2>7, <2>8
<1> QED
  BY <1>6, <1>7

\* A read goes on with the next chunk.
LEMMA MoveReads ==
  ASSUME TypeInv, Protocol, Fits, Moving, ReadOn, At("work")'
  PROVE  Moving'
<1> DEFINE t == cpu.total + R.len
<1>1. /\ Served /\ UNCHANGED <<tsr, box, host, call, hist>> /\ call.fn = "READFIL" /\ cpu \in Cpu
  BY AnswerThere DEF ReadOn, TypeInv, CpuTyped
<1>2. /\ There /\ t \in Nat /\ Alike(dos'.buf, DataWas(call), Was(call).pos, t) /\ Len(dos'.buf) = Len(call.data)
      /\ t = 0 \/ Was(call).pos + t <= Len(DataWas(call))
      /\ t < call.n /\ cpu' = [cpu EXCEPT !.pc = "work", !.total = t] /\ dos'.sft = dos.sft
  <2> HIDE DEF t
  <2>1. ~(\E c : Return(c))
    BY <1>1, GoesOut DEF At
  <2>2. t = cpu.total + R.len
    BY DEF t
  <2>3. Good
    BY <2>1, <2>2, ReadStep
  <2> QED
    BY <2>1, <2>2, <2>3, ReadStep
<1> HIDE DEF t
<1>3. Total' = t /\ ~Asking' /\ ~Served' /\ ~At("wait")' /\ ~At("out") /\ call.fn \in Moves
  BY <1>1, <1>2, GoesOut DEF At, Total, Asking, Served, Moves
<1>4. Was(call)' = Was(call) /\ There' = There /\ DataWas(call)' = DataWas(call)
  BY <1>1 DEF Was, There, DataWas
<1>5. ReadPart /\ Was(call).id \in 1..Len(host.ids)
  BY <1>1, <1>3 DEF Moving
<1>6. ReadPart'
  BY <1>1, <1>2, <1>3, <1>4, <1>5 DEF ReadPart
<1> QED
  BY <1>1, <1>2, <1>3, <1>4, <1>5, <1>6 DEF Moving

\* So does a write.
LEMMA MoveWrites ==
  ASSUME TypeInv, Protocol, Fits, Moving, WriteOn, At("work")'
  PROVE  Moving'
<1> DEFINE e == dos'.sft[call.h]
           t == host.wrote
<1>1. /\ Served /\ UNCHANGED <<tsr, box, host, call, hist>> /\ call.fn = "WRITEFIL" /\ cpu \in Cpu
  BY AnswerThere DEF WriteOn, TypeInv, CpuTyped
<1>2. /\ e.id = Was(call).id /\ e.pos = Was(call).pos + t /\ t \in Nat /\ dos'.buf = dos.buf
      /\ \/ e.size = More(Was(call).size, Was(call).pos + t)
         \/ t = 0 /\ e.size = Was(call).size
      /\ t < call.n /\ cpu' = [cpu EXCEPT !.pc = "work", !.total = t]
  <2>1. ~(\E c : Return(c))
    BY <1>1, GoesOut DEF At
  <2> HIDE DEF e
  <2>2. e = dos'.sft[call.h]
    BY DEF e
  <2>3. /\ e.id = Was(call).id /\ e.pos = Was(call).pos + host.wrote /\ host.wrote \in Nat /\ dos'.buf = dos.buf
        /\ \/ e.size = More(Was(call).size, Was(call).pos + host.wrote)
           \/ host.wrote = 0 /\ e.size = Was(call).size
    BY <2>2, WriteStep, Zenon
  <2>4. \/ \E r : Return(r) /\ (r.cf \/ r.cx = host.wrote)
        \/ host.wrote < call.n /\ cpu' = [cpu EXCEPT !.pc = "work", !.total = host.wrote]
    BY <2>2, WriteStep, Zenon
  <2> QED
    BY <2>1, <2>3, <2>4
<1>3. Total' = t /\ ~Asking' /\ ~Served' /\ ~At("wait")' /\ ~At("out") /\ call.fn \in Moves
  BY <1>1, <1>2, GoesOut DEF At, Total, Asking, Served, Moves
<1>4. Was(call)' = Was(call) /\ There' = There /\ DataWas(call)' = DataWas(call)
  BY <1>1 DEF Was, There, DataWas
<1>5. WritePart /\ Was(call).id \in 1..Len(host.ids)
  BY <1>1, <1>3 DEF Moving
<1>6. WritePart'
  <2>1. host'.wrote = Total' + (IF Served' /\ Good' /\ R'.len = 2 THEN R'.out[1] ELSE 0)
    BY <1>1, <1>2, <1>3
  <2> QED
    BY <1>1, <1>2, <1>3, <1>4, <1>5, <2>1 DEF WritePart
<1> QED
  BY <1>1, <1>2, <1>3, <1>4, <1>5, <1>6 DEF Moving

\* Every step keeps the moves under way.
LEMMA MovingStep ==
  ASSUME TypeInv, Protocol, Handled, Fits, Chained, Moving, [Next]_vars
  PROVE  Moving'
<1>1. cpu \in Cpu /\ dos \in Dos
  BY DEF TypeInv, CpuTyped, DosTyped
<1>2. CASE \E k \in hist.prog.calls : Begin(k)
  BY <1>2, MoveBegins
<1>3. CASE Enter
  <2>1. CASE At("out")'
    BY <2>1 DEF Moving
  <2>2. CASE At("work")' /\ cpu'.total = 0
    <3>1. At("enter") /\ UNCHANGED <<dos, box, host, call, hist>>
      BY <1>1, <1>3, WhereEnter
    <3>2. ~At("out") /\ Total' = Total /\ ~At("wait")' /\ ~Asking' /\ ~Served' /\ ~Served /\ hist'.before = hist.before
      BY <2>2, <3>1 DEF At, Total, Asking, Served
    <3> QED
      BY <3>1, <3>2, MoveKept
  <2> QED
    BY <1>1, <1>3, <2>1, <2>2, WhereEnter
<1>4. CASE Work
  <2>1. At("work") /\ UNCHANGED <<host, call, hist>> /\ cpu'.total = cpu.total
    BY <1>1, <1>4, WhereWork
  <2>2. CASE At("out")' \/ call.fn \notin Moves
    BY <2>1, <2>2 DEF Moving
  <2>3. CASE At("wait")' /\ call.fn \in Moves
    <3>1. /\ UNCHANGED dos /\ ~Nothing(call) /\ box'.frame = Query(call)
      BY <1>1, <1>4, <2>3, WhereWork DEF At, Moves
    <3>2. call.n # 0
      BY <2>3, <3>1 DEF Nothing
    <3>3. ~At("out") /\ Total' = Total /\ ~Served
      BY <2>1, <2>3 DEF At, Total, Served
    <3>4. ReadQuery(call)' = ReadQuery(call) /\ WriteQuery(call)' = WriteQuery(call)
      BY <2>1, <3>1 DEF ReadQuery, WriteQuery, Sft, Ask
    <3>5. /\ call.fn = "READFIL" => box'.frame = ReadQuery(call)'
          /\ call.fn = "WRITEFIL" => box'.frame = WriteQuery(call)'
      BY <3>1, <3>4, QueryCases
    <3>6. cpu.total < call.n
      BY <2>1, <2>3, <3>2 DEF Moving, Total, At
    <3>7. box'.frame.fn # "answer"
      <4>1. CASE call.fn = "READFIL"
        BY <3>1, <3>6, <4>1, QueryCases, ReadQueryIs, ZenonT(30) DEF TypeInv
      <4>2. CASE call.fn = "WRITEFIL"
        <5>1. dos.buf = call.data
          BY <2>1, <4>2, <2>3 DEF Moving, WritePart, At
        <5> QED
          BY <3>1, <3>6, <4>2, <5>1, QueryCases, WriteQueryIs DEF TypeInv
      <4> QED
        BY <2>3, <4>1, <4>2 DEF Moves
    <3>8. ~Served' /\ hist'.before = hist.before
      BY <2>1, <3>7 DEF Served
    <3> QED
      BY <2>1, <3>1, <3>2, <3>3, <3>5, <3>8, MoveKept
  <2> QED
    BY <1>1, <1>4, <2>2, <2>3, WhereWork
<1>5. CASE Answers
  <2>1. CASE At("out")'
    BY <2>1 DEF Moving
  <2>2. CASE At("work")' /\ (ReadOn \/ WriteOn)
    BY <2>2, MoveReads, MoveWrites
  <2> QED
    BY <1>1, <1>5, <2>1, <2>2, WhereAnswers
<1>6. CASE HostServes
  BY <1>6, MoveServed
<1>7. CASE HostAnswers
  <2>1. /\ UNCHANGED <<dos, tsr, host, cpu, call, ret, hist>> /\ box'.frame = box.frame /\ box.frame.fn = "answer"
    BY <1>7 DEF HostAnswers, TypeInv, BoxTyped
  <2>2. CASE At("out")
    BY <2>1, <2>2 DEF Moving, At
  <2>3. CASE ~At("out")
    <3>1. /\ Total' = Total /\ ~Asking' /\ Served' = Served /\ R' = R /\ (At("wait")' <=> At("wait"))
          /\ hist'.before = hist.before
      BY <2>1 DEF Total, Asking, Served, R, At
    <3> QED
      BY <2>1, <2>3, <3>1, MoveKept
  <2> QED
    BY <2>2, <2>3
<1>8. CASE Leaves
  <2>1. At("out")'
    BY <1>8, WhereLeaves DEF TypeInv, At
  <2> QED
    BY <2>1 DEF Moving
<1>9. CASE UNCHANGED <<dos, tsr, box, host, cpu, call, ret, hist>>
  <2>1. CASE At("out")
    BY <1>9, <2>1 DEF Moving, At
  <2>2. CASE ~At("out")
    <3>1. /\ Total' = Total /\ Asking' = Asking /\ Served' = Served /\ R' = R /\ (At("wait")' <=> At("wait"))
          /\ hist'.before = hist.before
      BY <1>9 DEF Total, Asking, Served, R, At
    <3>2. ReadQuery(call)' = ReadQuery(call) /\ WriteQuery(call)' = WriteQuery(call)
      BY <1>9 DEF ReadQuery, WriteQuery, Sft, Ask
    <3>3. Asking' => /\ call.fn = "READFIL" => box'.frame = ReadQuery(call)'
                     /\ call.fn = "WRITEFIL" => box'.frame = WriteQuery(call)'
      BY <1>9, <2>2, <3>1, <3>2 DEF Moving, ReadPart, WritePart, Moves
    <3>4. At("wait")' /\ call.fn \in Moves => At("wait")
      BY <3>1
    <3> QED
      BY <1>9, <2>2, <3>1, <3>3, <3>4, MoveKept
  <2> QED
    BY <2>1, <2>2
<1> QED
  BY <1>2, <1>3, <1>4, <1>5, <1>6, <1>7, <1>8, <1>9, StepCases

\* What loads and unloads leave alone.
LEMMA LeavesKeep ==
  ASSUME TypeInv, Leaves
  PROVE  /\ dos'.sft = dos.sft /\ dos'.buf = dos.buf /\ hist'.before = hist.before /\ hist'.calls = hist.calls
         /\ hist'.done = hist.done /\ hist'.listed = hist.listed /\ hist'.names = hist.names /\ hist'.prog = hist.prog
<1>1. dos \in Dos /\ hist \in Hist(hist.before)
  BY DEF TypeInv, DosTyped, HistTyped
<1>2. /\ hist'.before = hist.before /\ hist'.calls = hist.calls
      /\ hist'.done = hist.done /\ hist'.listed = hist.listed /\ hist'.names = hist.names /\ hist'.prog = hist.prog
  BY <1>1 DEF Leaves, Loads, Load, LoadFails, Unload, Started, OtherHooks, OtherLeaves, Hist
<1>3. dos'.sft = dos.sft /\ dos'.buf = dos.buf
  <2>1. CASE Loads
    BY <1>1, <2>1 DEF Loads, Load, LoadFails, Unload, Install, Dos
  <2>2. CASE OtherHooks \/ OtherLeaves
    BY <1>1, <2>2 DEF OtherHooks, OtherLeaves, Dos
  <2> QED
    BY <2>1, <2>2 DEF Leaves
<1> QED
  BY <1>2, <1>3

\* A read that returns is right.
LEMMA ReadAnswered ==
  ASSUME TypeInv, Protocol, Fits, Moving, ReadOn, At("out")'
  PROVE  MovesFaithful'
<1> DEFINE t == cpu.total + R.len
<1>1. /\ Served /\ UNCHANGED <<tsr, box, host, call, hist>> /\ call.fn = "READFIL" /\ cpu \in Cpu
  BY AnswerThere DEF ReadOn, TypeInv, CpuTyped
<1>2. ReadPart /\ Was(call)' = Was(call) /\ There' = There /\ DataWas(call)' = DataWas(call)
  BY <1>1 DEF Moving, Served, At, Moves, Was, There, DataWas
<1>3. CASE ~Good
  <2>1. UNCHANGED dos /\ \E c : Return(Fail(c))
    BY <1>3 DEF ReadOn, Good
  <2>2. ret'.cf /\ dos'.sft = hist.before.sft
    BY <1>2, <2>1 DEF Return, Fail, Success, ReadPart
  <2> QED
    BY <1>1, <1>2, <2>2 DEF MovesFaithful, OnFile, Moves, ReadRight, Was
<1>4. CASE Good
  <2> HIDE DEF t
  <2>1. t = cpu.total + R.len
    BY DEF t
  <2>2. /\ Alike(dos'.buf, DataWas(call), Was(call).pos, t)
        /\ \/ /\ Ended(t) /\ Return([Success EXCEPT !.cx = t])
              /\ dos'.sft[call.h].pos = Was(call).pos + t
           \/ cpu' = [cpu EXCEPT !.pc = "work", !.total = t]
    BY <1>4, <2>1, ReadStep, Zenon
  <2>3. ~(cpu' = [cpu EXCEPT !.pc = "work", !.total = t])
    BY <1>1, GoesOut DEF At
  <2>4. ~ret'.cf /\ ret'.cx = t
    BY <2>2, <2>3 DEF Return, Success
  <2>5. ReadRight'
    BY <1>1, <1>2, <2>2, <2>3, <2>4 DEF ReadRight, Ended, Alike
  <2> QED
    BY <1>1, <2>5 DEF MovesFaithful, OnFile, Moves
<1> QED
  BY <1>3, <1>4

\* So is a write.
LEMMA WriteAnswered ==
  ASSUME TypeInv, Protocol, Fits, Moving, WriteOn, At("out")'
  PROVE  MovesFaithful'
<1> DEFINE e == dos'.sft[call.h]
<1>1. /\ Served /\ UNCHANGED <<tsr, box, host, call, hist>> /\ call.fn = "WRITEFIL" /\ cpu \in Cpu
  BY AnswerThere DEF WriteOn, TypeInv, CpuTyped
<1>2. WritePart /\ Was(call)' = Was(call) /\ There' = There /\ DataWas(call)' = DataWas(call)
  BY <1>1 DEF Moving, Served, At, Moves, Was, There, DataWas
<1> HIDE DEF e
<1>3. e = dos'.sft[call.h]
  BY DEF e
<1>4. /\ e.pos = Was(call).pos + host.wrote
      /\ \/ e.size = More(Was(call).size, Was(call).pos + host.wrote)
         \/ host.wrote = 0 /\ e.size = Was(call).size
  BY <1>3, WriteStep, Zenon
<1>5. \/ \E r : Return(r) /\ (r.cf \/ r.cx = host.wrote)
      \/ cpu' = [cpu EXCEPT !.pc = "work", !.total = host.wrote]
  BY <1>3, WriteStep, Zenon
<1>6. ret'.cf \/ ret'.cx = host.wrote
  BY <1>1, <1>5, GoesOut DEF At, Return
<1>7. There => host.files[host.ids[Was(call).id]].data = Overlay(DataWas(call), Was(call).pos, SubSeq(call.data, 1, host.wrote))
  BY <1>2 DEF WritePart
<1>8. There => WriteRight'
  BY <1>1, <1>2, <1>3, <1>4, <1>6, <1>7 DEF WriteRight
<1> QED
  BY <1>1, <1>2, <1>8 DEF MovesFaithful, OnFile, Moves, There

\* And one that is refused before anything is moved.
LEMMA MoveRefused ==
  ASSUME TypeInv, Moving, Work, At("out")'
  PROVE  MovesFaithful'
<1> SUFFICES ASSUME call'.fn \in Moves, There'
             PROVE  /\ call'.fn = "READFIL" => ReadRight'
                    /\ call'.fn = "WRITEFIL" => WriteRight'
  BY DEF MovesFaithful, OnFile, There
<1>1. cpu \in Cpu
  BY DEF TypeInv, CpuTyped
<1>2. At("work") /\ UNCHANGED <<host, call, hist>> /\ call.fn \in Moves
  BY <1>1, WhereWork
<1>3. UNCHANGED dos
  BY <1>1, <1>2, WhereWork DEF Moves
<1>4. ret'.cf \/ (call.n = 0 /\ ~ret'.cf /\ ret'.cx = 0)
  <2>1. call.fn # "2D" /\ ~TooLong(call)
    BY <1>2 DEF Moves, TooLong
  <2>2. ret' = Fail(Refused(call)) \/ (Nothing(call) /\ ret' = Success)
    BY <1>1, <2>1, WhereWork DEF At
  <2> QED
    <3>1. CASE ret' = Fail(Refused(call))
      BY <3>1 DEF Fail, Success
    <3>2. CASE Nothing(call) /\ ret' = Success
      <4>1. call.n = 0
        BY <1>2, <3>2 DEF Nothing, Moves
      <4> QED
        BY <3>2, <4>1 DEF Success
    <3> QED
      BY <2>2, <3>1, <3>2
<1>5. Was(call)' = Was(call) /\ There' = There /\ DataWas(call)' = DataWas(call)
  BY <1>2 DEF Was, There, DataWas
<1>6. ~At("out") /\ ~Served /\ Total = cpu.total
  BY <1>2 DEF At, Served, Total
<1>7. /\ call.h \in Handles /\ Was(call).pos \in Nat /\ call.data \in Seq(Int) /\ dos.buf \in Seq(Int) /\ call.n \in Nat
      /\ DataWas(call) \in Seq(Int) /\ Total \in Nat /\ Len(DataWas(call)) \in Nat
  BY <1>2, <1>5, <1>6, MovingFacts
<1>8. ASSUME call.fn = "READFIL"
      PROVE  ReadRight'
  <2>1. dos.sft = hist.before.sft
    BY <1>2, <1>6, <1>8 DEF Moving, ReadPart
  <2>2. ASSUME call.n = 0
        PROVE  /\ More(0, Less(call.n, Len(DataWas(call)) - Was(call).pos)) = 0 /\ Was(call).pos + 0 = Was(call).pos
               /\ SubSeq(dos.buf, 1, 0) = SubSeq(DataWas(call), Was(call).pos + 1, Was(call).pos + 0)
    <3>1. More(0, Less(0, Len(DataWas(call)) - Was(call).pos)) = 0
      BY <1>7 DEF More, Less
    <3>2. SubSeq(dos.buf, 1, 0) = <<>> /\ SubSeq(DataWas(call), Was(call).pos + 1, Was(call).pos + 0) = <<>>
      BY <1>7
    <3> QED
      BY <1>7, <2>2, <3>1, <3>2
  <2> QED
    BY <1>2, <1>3, <1>4, <1>5, <2>1, <2>2 DEF ReadRight, Was
<1>9. ASSUME call.fn = "WRITEFIL"
      PROVE  WriteRight'
  <2>1. WritePart
    BY <1>2, <1>6, <1>9 DEF Moving
  <2>2. host.wrote = Total
    BY <1>6, <1>7, <2>1 DEF WritePart
  <2>3. call.n = 0 => Total = 0
    BY <1>2, <1>6, <1>7 DEF Moving
  <2> QED
    BY <1>2, <1>3, <1>4, <1>5, <2>1, <2>2, <2>3 DEF WriteRight, WritePart
<1> QED
  BY <1>2, <1>8, <1>9

\* Every step keeps MovesFaithful.
LEMMA MovesStep ==
  ASSUME TypeInv, Protocol, Handled, Fits, Moving, MovesFaithful, [Next]_vars
  PROVE  MovesFaithful'
<1>1. cpu \in Cpu
  BY DEF TypeInv, CpuTyped
<1>2. CASE ~At("out")'
  BY <1>2 DEF MovesFaithful, OnFile, Returned
<1>3. ASSUME NEW k \in hist.prog.calls, Begin(k)
      PROVE  ~At("out")'
  BY <1>1, <1>3 DEF Begin, At, Cpu
<1>4. CASE Enter
  <2>1. At("out")' => ~ret'.ours
    BY <1>1, <1>4, WhereEnter DEF At
  <2> QED
    BY <2>1 DEF MovesFaithful, OnFile, Returned
<1>5. CASE Work
  BY <1>2, <1>5, MoveRefused
<1>6. CASE Answers
  <2>1. CASE ReadOn
    BY <1>2, <2>1, ReadAnswered
  <2>2. CASE WriteOn
    BY <1>2, <2>2, WriteAnswered
  <2>3. CASE ~ReadOn /\ ~WriteOn
    <3>1. UNCHANGED call /\ call.fn \notin Moves
      BY <1>6, <2>3 DEF Answers, OnNames, OnFiles, MadeOrRemoved, AttrSet, Renamed, Deleted, Changed, AttrGot, Space, Named,
           OpenedFile, Closed, Locked, EndSought, Found, Moves, Opens
    <3> QED
      BY <3>1 DEF MovesFaithful, OnFile
  <2> QED
    BY <2>1, <2>2, <2>3
<1>7. CASE HostServes
  <2>1. At("wait") /\ UNCHANGED cpu
    BY <1>7, ServesTypes DEF HostServes, Asking
  <2> QED
    BY <1>2, <2>1 DEF At
<1>8. CASE HostAnswers
  <2>1. At("wait") /\ UNCHANGED cpu
    BY <1>8 DEF HostAnswers, Protocol
  <2> QED
    BY <1>2, <2>1 DEF At
<1>9. CASE Leaves \/ UNCHANGED <<dos, tsr, box, host, cpu, call, ret, hist>>
  <2>1. /\ UNCHANGED <<host, cpu, call, ret>> /\ dos'.sft = dos.sft /\ dos'.buf = dos.buf
        /\ hist'.before = hist.before /\ hist'.calls = hist.calls
    BY <1>9, LeavesKeep, WhereLeaves DEF TypeInv
  <2>2. /\ Was(call)' = Was(call) /\ DataWas(call)' = DataWas(call) /\ OnFile' = OnFile
    BY <2>1 DEF Was, DataWas, OnFile, Returned, At
  <2> QED
    BY <2>1, <2>2 DEF MovesFaithful, ReadRight, WriteRight
<1> QED
  BY <1>2, <1>3, <1>4, <1>5, <1>6, <1>7, <1>8, <1>9, StepCases

----------------------------------------------------------------------------
(* Calls on names.                                                         *)

OnNamesToo == OnPath \cup {"DISKSPACE"}

\* Calls on names are none of the others.
LEMMA NamesAre ==
  ASSUME NEW f \in OnNamesToo
  PROVE  /\ f \notin {"READFIL", "WRITEFIL", "CLSFIL", "SKFMEND", "LOCKFIL", "FINDFIRST", "FINDNEXT", "2D", "CMMTFIL"}
         /\ f \notin OnHandle /\ f \notin Moves
BY DEF OnNamesToo, OnPath, OnHandle, Moves

\* What the folder is meant to be, call by call.
LEMMA MeantCases ==
  LET p == call.path.names
      files == hist.before.files
      dirs == hist.before.dirs
  IN  /\ call.fn = "MKDIR" => Meant(call) = <<files, dirs \cup {p}>>
      /\ call.fn = "RMDIR" => Meant(call) = <<files, dirs \ {p}>>
      /\ call.fn = "DELETE" => Meant(call) = <<Without(files, p), dirs>>
      /\ call.fn = "SETATTR" => Meant(call) = <<[files EXCEPT ![p].attr = call.word], dirs>>
      /\ call.fn = "RENAME" => Meant(call) = <<With(Without(files, p), call.to.names, files[p]), dirs>>
      /\ call.fn = "CREATE" => Meant(call) = <<With(files, p, [data |-> <<>>, attr |-> call.word]), dirs>>
      /\ call.fn \notin {"MKDIR", "RMDIR", "DELETE", "SETATTR", "RENAME", "CREATE"} => Meant(call) = FolderWas
BY DEF Meant, FolderWas

\* A call on names stands as it was when nothing it looks at changes.
LEMMA NameKept ==
  ASSUME Naming, ~At("out"), UNCHANGED <<host, call>>, hist'.before = hist.before, hist'.done = hist.done,
         call.fn \in OnNamesToo /\ ~At("enter")' => tsr'.word = call.word,
         Asking' /\ call.fn \in OnPath =>
           /\ box'.frame.path = call.path.names
           /\ call.fn = "RENAME" => box'.frame.to = call.to.names
           /\ call.fn \in {"SETATTR", "CREATE"} => box'.frame.word = call.word,
         Served' <=> Served, Served => R' = R
  PROVE  Naming'
<1>1. Folder' = Folder /\ FolderWas' = FolderWas /\ Meant(call)' = Meant(call) /\ (Served => Right' = Right)
  BY DEF Folder, FolderWas, Meant, Right, Good
<1>2. call.fn \in OnNamesToo /\ call.fn # "DISKSPACE" => call.fn \in OnPath
  BY DEF OnNamesToo
<1> QED
  BY <1>1, <1>2 DEF Naming, OnNamesToo

\* The folder after what the host does.
LEMMA FolderServed ==
  ASSUME HostTyped(host), NEW p \in Paths
  PROVE  /\ Made(p).files = host.files /\ Made(p).dirs = host.dirs \cup {p}
         /\ Removed(p).files = host.files /\ Removed(p).dirs = host.dirs \ {p}
         /\ Gone(p).files = Without(host.files, p) /\ Gone(p).dirs = host.dirs
         /\ \A a : Marked(p, a).files = [host.files EXCEPT ![p].attr = a] /\ Marked(p, a).dirs = host.dirs
         /\ \A to : Moved(p, to).files = With(Without(host.files, p), to, host.files[p]) /\ Moved(p, to).dirs = host.dirs
         /\ \A a : /\ Handed(New(p, a), p).files = With(host.files, p, [data |-> <<>>, attr |-> a])
                   /\ Handed(New(p, a), p).dirs = host.dirs
         /\ Handed(host, p).files = host.files /\ Handed(host, p).dirs = host.dirs
<1>1. Made(p).files = host.files /\ Made(p).dirs = host.dirs \cup {p}
  BY DEF HostTyped, Made
<1>2. Removed(p).files = host.files /\ Removed(p).dirs = host.dirs \ {p}
  BY DEF HostTyped, Removed
<1>3. Gone(p).files = Without(host.files, p) /\ Gone(p).dirs = host.dirs
  BY DEF HostTyped, Gone
<1>4. \A a : Marked(p, a).files = [host.files EXCEPT ![p].attr = a] /\ Marked(p, a).dirs = host.dirs
  BY DEF HostTyped, Marked
<1>5. \A to : Moved(p, to).files = With(Without(host.files, p), to, host.files[p]) /\ Moved(p, to).dirs = host.dirs
  BY DEF HostTyped, Moved
<1>6. \A a : /\ Handed(New(p, a), p).files = With(host.files, p, [data |-> <<>>, attr |-> a])
             /\ Handed(New(p, a), p).dirs = host.dirs
  BY DEF HostTyped, New, Handed
<1>7. Handed(host, p).files = host.files /\ Handed(host, p).dirs = host.dirs
  BY DEF HostTyped, Handed
<1> QED
  BY <1>1, <1>2, <1>3, <1>4, <1>5, <1>6, <1>7

\* The host serves a call on names.
LEMMA NameServed ==
  ASSUME TypeInv, Protocol, Handled, Moving, Naming, HostServes
  PROVE  Naming'
<1> SUFFICES ASSUME call.fn \in OnNamesToo
             PROVE  Naming'
  BY DEF Naming, HostServes, OnNamesToo
<1>1. PICK o \in Does(box.frame) \cup Refusals : /\ host' = o.h /\ R' = o.r /\ box'.frame.fn = "answer" /\ hist' = Noted(o)
  BY ServesTypes
<1>2. /\ Asking /\ Sound(box.frame) /\ box.frame.fn = call.fn /\ UNCHANGED <<dos, tsr, cpu, call>> /\ HostTyped(host)
  BY ServesTypes, NamesAre DEF HostServes, Put, QueryFn, TypeInv
<1>3. ~At("out") /\ At("wait") /\ ~At("enter") /\ ~Served /\ Served' /\ ~Asking' /\ At("wait")' /\ ~At("enter")'
  BY <1>1, <1>2 DEF Asking, Served, At
<1>4. hist'.before = hist.before /\ hist'.done = DoneBy(o)
  BY <1>1 DEF Noted, TypeInv, HistTyped, Hist
<1>5. /\ host.files = hist.before.files /\ host.dirs = hist.before.dirs /\ hist.done /\ tsr.word = call.word
      /\ call.fn # "DISKSPACE" => /\ box.frame.path = call.path.names
                                  /\ call.fn = "RENAME" => box.frame.to = call.to.names
                                  /\ call.fn \in {"SETATTR", "CREATE"} => box.frame.word = call.word
  BY <1>2, <1>3 DEF Naming, OnNamesToo, Folder, FolderWas
<1> DEFINE q == box.frame
           p == call.path.names
           Well == IF call.fn = "DISKSPACE" THEN o.r.len = 6 ELSE o.r.len # 65535 /\ o.r.ax = 0 /\ o.r.len = GoodLength[call.fn]
<1>6. Right' = Well /\ FolderWas' = FolderWas /\ Meant(call)' = Meant(call) /\ Folder' = <<o.h.files, o.h.dirs>>
  BY <1>1, <1>2, <1>4 DEF Right, Good, FolderWas, Meant, Folder
<1>7. Well => hist'.done
  <2>1. CASE call.fn = "DISKSPACE"
    <3>1. Well => DoneBy(o)
      BY <1>2, <1>5, <2>1 DEF DoneBy
    <3> HIDE DEF Well
    <3> QED
      BY <1>4, <3>1, Zenon
  <2>2. CASE call.fn # "DISKSPACE"
    <3>1. Well => DoneBy(o)
      BY <1>2, <1>5, <2>2 DEF DoneBy
    <3> HIDE DEF Well
    <3> QED
      BY <1>4, <3>1, Zenon
  <2> QED
    BY <2>1, <2>2
<1>8. IF Well THEN <<o.h.files, o.h.dirs>> = Meant(call) ELSE <<o.h.files, o.h.dirs>> = FolderWas
  <2>1. CASE o \in Refusals
    <3>1. o.h = host /\ ~Well
      BY <1>2, <2>1, RefusalServed
    <3> QED
      BY <1>5, <3>1 DEF FolderWas
  <2>2. CASE call.fn = "DISKSPACE" /\ o \in Does(q)
    <3>1. o = Outcome(Reply(6, 4, <<1000, 512, 500>>), host)
      BY <1>2, <2>2, DoesCases
    <3>2. o.h = host /\ Well
      BY <2>2, <3>1 DEF Outcome, Reply
    <3> QED
      BY <1>5, <2>2, <3>2, MeantCases DEF FolderWas
  <2>3. CASE call.fn # "DISKSPACE" /\ o \in Does(q)
    <3>1. o \in OnName(q) /\ call.fn \in OnPath /\ q.path = p /\ p \in Paths
      BY <1>2, <1>5, <2>3, DoesCases DEF OnNamesToo, TypeInv, CallTyped, Call, Place
    <3>2. CASE o = Missing
      <4>1. o.h = host /\ ~Well
        BY <2>3, <3>2 DEF Missing, Outcome, Reply
      <4> QED
        BY <1>5, <4>1 DEF FolderWas
    <3>3. ASSUME NEW h, o = Outcome(Reply(0, 0, <<>>), h), GoodLength[call.fn] = 0
          PROVE  o.h = h /\ Well
      <4>1. o.r.len = 0 /\ o.r.ax = 0 /\ o.h = h
        BY <3>3 DEF Outcome, Reply
      <4> QED
        BY <2>3, <3>3, <4>1
    <3>4. CASE q.fn = "MKDIR" /\ o = Outcome(Reply(0, 0, <<>>), Made(p))
      <4>1. o.h = Made(p) /\ Well
        BY <1>2, <3>3, <3>4, Lengths
      <4>2. Made(p).files = host.files /\ Made(p).dirs = host.dirs \cup {p}
        BY <1>2, <3>1, FolderServed
      <4>3. Meant(call) = <<hist.before.files, hist.before.dirs \cup {p}>>
        BY <1>2, <3>4, MeantCases
      <4> QED
        BY <1>5, <4>1, <4>2, <4>3
    <3>5. CASE q.fn = "RMDIR" /\ o = Outcome(Reply(0, 0, <<>>), Removed(p))
      <4>1. o.h = Removed(p) /\ Well
        BY <1>2, <3>3, <3>5, Lengths
      <4>2. Removed(p).files = host.files /\ Removed(p).dirs = host.dirs \ {p}
        BY <1>2, <3>1, FolderServed
      <4>3. Meant(call) = <<hist.before.files, hist.before.dirs \ {p}>>
        BY <1>2, <3>5, MeantCases
      <4> QED
        BY <1>5, <4>1, <4>2, <4>3
    <3>6. CASE q.fn = "CHDIR" /\ o = Outcome(Reply(0, 0, <<>>), host)
      BY <1>2, <1>5, <3>1, <3>3, <3>6, Lengths, MeantCases DEF FolderWas
    <3>7. CASE q.fn = "DELETE" /\ o = Outcome(Reply(0, 0, <<>>), Gone(p))
      <4>1. o.h = Gone(p) /\ Well
        BY <1>2, <3>3, <3>7, Lengths
      <4>2. Gone(p).files = Without(host.files, p) /\ Gone(p).dirs = host.dirs
        BY <1>2, <3>1, FolderServed
      <4>3. Meant(call) = <<Without(hist.before.files, p), hist.before.dirs>>
        BY <1>2, <3>7, MeantCases
      <4> QED
        BY <1>5, <4>1, <4>2, <4>3
    <3>8. CASE q.fn = "SETATTR" /\ o = Outcome(Reply(0, 0, <<>>), Marked(p, q.word))
      <4>1. o.h = Marked(p, q.word) /\ Well
        BY <1>2, <3>3, <3>8, Lengths
      <4>2. Marked(p, q.word).files = [host.files EXCEPT ![p].attr = q.word] /\ Marked(p, q.word).dirs = host.dirs
        BY <1>2, <3>1, FolderServed
      <4>3. Meant(call) = <<[hist.before.files EXCEPT ![p].attr = call.word], hist.before.dirs>>
        BY <1>2, <3>8, MeantCases
      <4>4. q.word = call.word
        BY <1>2, <1>5, <3>8
      <4> QED
        BY <1>5, <4>1, <4>2, <4>3, <4>4
    <3>9. CASE q.fn = "RENAME" /\ o = Outcome(Reply(0, 0, <<>>), Moved(p, q.to))
      <4>1. o.h = Moved(p, q.to) /\ Well
        BY <1>2, <3>3, <3>9, Lengths
      <4>2. /\ Moved(p, q.to).files = With(Without(host.files, p), q.to, host.files[p])
            /\ Moved(p, q.to).dirs = host.dirs
        BY <1>2, <3>1, FolderServed
      <4>3. Meant(call) = <<With(Without(hist.before.files, p), call.to.names, hist.before.files[p]), hist.before.dirs>>
        BY <1>2, <3>9, MeantCases
      <4>4. q.to = call.to.names
        BY <1>2, <1>5, <3>9
      <4> QED
        BY <1>5, <4>1, <4>2, <4>3, <4>4
    <3>10. CASE q.fn = "GETATTR" /\ o = Outcome(Reply(10, 0, <<host.files[p].attr, Len(host.files[p].data)>>), host)
      <4>1. o.h = host /\ Well
        BY <1>2, <3>10, Lengths DEF Outcome, Reply
      <4> QED
        <5>1. Meant(call) = FolderWas
          BY <1>2, <3>10, MeantCases
        <5> QED
          BY <1>5, <4>1, <5>1 DEF FolderWas
    <3>11. ASSUME NEW h, NEW size, NEW mode, call.fn \in Opens, o = Outcome(Ticket(size, mode), h)
           PROVE  o.h = h /\ Well
      BY <2>3, <3>11, Lengths DEF Outcome, Ticket, Reply
    <3>12. ASSUME NEW size, NEW mode, q.fn \in {"OPEN", "SPOPNFIL"}, o = Outcome(Ticket(size, mode), Handed(host, p))
           PROVE  Well /\ <<o.h.files, o.h.dirs>> = Meant(call)
      <4>1. o.h = Handed(host, p) /\ Well
        BY <1>2, <3>11, <3>12 DEF Opens
      <4> QED
        BY <1>2, <1>5, <3>1, <3>12, <4>1, MeantCases, FolderServed DEF FolderWas
    <3>13. CASE q.fn = "CREATE" /\ o = Outcome(Ticket(0, 2), Handed(New(p, q.word), p))
      <4>1. o.h = Handed(New(p, q.word), p) /\ Well
        BY <1>2, <3>11, <3>13 DEF Opens
      <4>2. /\ Handed(New(p, q.word), p).files = With(host.files, p, [data |-> <<>>, attr |-> q.word])
            /\ Handed(New(p, q.word), p).dirs = host.dirs
        BY <1>2, <3>1, FolderServed
      <4>3. Meant(call) = <<With(hist.before.files, p, [data |-> <<>>, attr |-> call.word]), hist.before.dirs>>
        BY <1>2, <3>13, MeantCases
      <4>4. q.word = call.word
        BY <1>2, <1>5, <3>13
      <4> QED
        BY <1>5, <4>1, <4>2, <4>3, <4>4
    <3> HIDE DEF q, Well
    <3> QED
      BY <3>1, <3>2, <3>4, <3>5, <3>6, <3>7, <3>8, <3>9, <3>10, <3>12, <3>13, OnNameCases
  <2> QED
    BY <1>1, <2>1, <2>2, <2>3
<1> HIDE DEF Well, q, p
<1> QED
  BY <1>2, <1>3, <1>5, <1>6, <1>7, <1>8 DEF Naming

\* What a call on names asks the host for.
LEMMA NameAsked ==
  ASSUME TypeInv, call.fn \in OnPath, tsr.word = call.word
  PROVE  /\ Query(call).fn = call.fn /\ Query(call).path = call.path.names
         /\ call.fn = "RENAME" => Query(call).to = call.to.names
         /\ call.fn \in {"SETATTR", "CREATE"} => Query(call).word = call.word
<1>1. Ask(call) \in Request /\ Ask(call).fn = call.fn
  BY AskTyped DEF TypeInv, CallTyped, Call
<1>2. /\ call.fn \notin Moves \cup {"CLSFIL", "SKFMEND", "LOCKFIL", "FINDFIRST", "FINDNEXT", "DISKSPACE"}
  BY DEF OnPath, Moves
<1>3. CASE call.fn = "RENAME"
  <2>1. Query(call) = [Ask(call) EXCEPT !.path = call.path.names, !.to = call.to.names]
    BY <1>3, QueryCases
  <2> QED
    BY <1>1, <1>3, <2>1 DEF Request
<1>4. CASE call.fn \in Opens
  <2>1. Query(call) = [Ask(call) EXCEPT !.path = call.path.names, !.word = tsr.word, !.mode = call.mode]
    BY <1>4, QueryCases
  <2> QED
    BY <1>1, <1>4, <2>1 DEF Request, Opens
<1>5. CASE call.fn = "SETATTR"
  <2>1. Query(call) = [Ask(call) EXCEPT !.path = call.path.names, !.word = tsr.word]
    BY <1>5, QueryCases
  <2> QED
    BY <1>1, <1>5, <2>1 DEF Request
<1>6. CASE call.fn \notin Opens \cup {"RENAME", "SETATTR"}
  <2>1. Query(call) = [Ask(call) EXCEPT !.path = call.path.names]
    BY <1>2, <1>6, QueryCases
  <2> QED
    BY <1>1, <1>6, <2>1 DEF Request, Opens
<1> QED
  BY <1>3, <1>4, <1>5, <1>6

\* A call on names succeeds exactly when the host's answer says so.
LEMMA NameAnswered ==
  ASSUME TypeInv, Protocol, Naming, Answers, call.fn \in OnNamesToo
  PROVE  /\ UNCHANGED <<tsr, box, host, call, hist>> /\ Served /\ At("out")'
         /\ ret'.cf <=> ~Right
<1>1. call.fn \notin {"READFIL", "WRITEFIL", "CLSFIL", "SKFMEND", "LOCKFIL", "FINDFIRST", "FINDNEXT"}
  BY NamesAre
<1>2. ~Found /\ ~ReadOn /\ ~WriteOn /\ ~Closed /\ ~EndSought /\ ~Locked
  BY <1>1 DEF Found, ReadOn, WriteOn, Closed, EndSought, Locked
<1>3. /\ UNCHANGED <<tsr, box, host, call, hist>> /\ Answered /\ Served
  BY <1>2, AnswersKeep, AnswerThere
<1>4. At("out")'
  BY <1>2, WhereAnswers DEF TypeInv, CpuTyped
<1>5. \A c : Fail(c).cf = TRUE
  BY DEF Fail, Success
<1>6. Success.cf = FALSE
  BY DEF Success
<1>7. Verdict.cf <=> ~(Good /\ R.len = GoodLength[call.fn])
  <2>1. CASE R.len = 65535
    BY <1>5, <2>1 DEF Verdict, Good
  <2>2. CASE R.len # 65535 /\ (R.ax # 0 \/ R.len # GoodLength[call.fn])
    BY <1>5, <2>2 DEF Verdict, Good
  <2>3. CASE R.len # 65535 /\ R.ax = 0 /\ R.len = GoodLength[call.fn]
    BY <1>6, <2>3 DEF Verdict, Good
  <2> QED
    BY <2>1, <2>2, <2>3
<1>8. \A r : Return(r) => ret' = r
  BY DEF Return
<1>9. CASE MadeOrRemoved \/ AttrSet \/ Renamed
  <2>1. \E code : Return(IF R.len # 0 THEN Fail(code) ELSE Verdict)
    BY <1>9 DEF MadeOrRemoved, AttrSet, Renamed, Named
  <2>2. GoodLength[call.fn] = 0 /\ call.fn # "DISKSPACE"
    BY <1>9, Lengths DEF MadeOrRemoved, AttrSet, Renamed, Named
  <2>3. ret'.cf <=> ~(Good /\ R.len = GoodLength[call.fn])
    BY <1>5, <1>7, <1>8, <2>1, <2>2
  <2> QED
    BY <1>3, <1>4, <2>2, <2>3 DEF Right
<1>10. CASE Changed
  <2>1. Return(IF R.len # 0 THEN Fail(3) ELSE Verdict)
    BY <1>10 DEF Changed
  <2>2. GoodLength[call.fn] = 0 /\ call.fn # "DISKSPACE"
    BY <1>10, Lengths DEF Changed
  <2>3. ret'.cf <=> ~(Good /\ R.len = GoodLength[call.fn])
    BY <1>5, <1>7, <1>8, <2>1, <2>2
  <2> QED
    BY <1>3, <1>4, <2>2, <2>3 DEF Right
<1>11. CASE Deleted
  <2>1. ret' = Verdict /\ call.fn # "DISKSPACE"
    BY <1>8, <1>11 DEF Deleted
  <2> QED
    BY <1>3, <1>4, <1>7, <2>1 DEF Right
<1>12. CASE AttrGot
  <2>1. ret' = (IF Verdict.cf THEN Verdict ELSE [Success EXCEPT !.out = R.out]) /\ call.fn # "DISKSPACE"
    BY <1>8, <1>12 DEF AttrGot
  <2>2. [Success EXCEPT !.out = R.out].cf = FALSE
    BY DEF Success
  <2>3. ret'.cf <=> Verdict.cf
    BY <2>1, <2>2
  <2> QED
    BY <1>3, <1>4, <1>7, <2>1, <2>3 DEF Right
<1>13. CASE Space
  <2>1. ret' = (IF R.len = 6 THEN [Success EXCEPT !.ax = R.ax, !.out = R.out] ELSE Fail(2)) /\ call.fn = "DISKSPACE"
    BY <1>8, <1>13 DEF Space
  <2>2. [Success EXCEPT !.ax = R.ax, !.out = R.out].cf = FALSE
    BY DEF Success
  <2>3. ret'.cf <=> R.len # 6
    BY <1>5, <2>1, <2>2
  <2> QED
    BY <1>3, <1>4, <2>1, <2>3 DEF Right
<1>14. CASE OpenedFile
  <2>1. ret' = (IF call.fn = "SPOPNFIL" /\ ~Verdict.cf THEN [Verdict EXCEPT !.cx = R.out[4]] ELSE Verdict) /\ call.fn # "DISKSPACE"
    BY <1>8, <1>14 DEF OpenedFile, Opens
  <2>2. [Verdict EXCEPT !.cx = R.out[4]].cf = Verdict.cf
    BY DEF Verdict, Fail, Success
  <2>3. ret'.cf <=> Verdict.cf
    BY <2>1, <2>2
  <2> QED
    BY <1>3, <1>4, <1>7, <2>1, <2>3 DEF Right
<1> QED
  BY <1>2, <1>9, <1>10, <1>11, <1>12, <1>13, <1>14 DEF Answers, OnNames, OnFiles

\* Every step keeps the calls on names under way.
LEMMA NamingStep ==
  ASSUME TypeInv, Protocol, Handled, Fits, Chained, Moving, Naming, [Next]_vars
  PROVE  Naming'
<1>1. cpu \in Cpu
  BY DEF TypeInv, CpuTyped
<1>2. CASE At("out")'
  BY <1>2 DEF Naming
<1>3. ASSUME NEW k \in hist.prog.calls, Begin(k)
      PROVE  Naming'
  <2>1. At("enter")' /\ ~Served' /\ ~Asking'
    BY <1>1, <1>3 DEF Begin, At, Served, Asking, Cpu
  <2>2. Folder' = FolderWas' /\ hist'.done
    BY <1>3 DEF Begin, Folder, FolderWas, TypeInv, HostTyped, HistTyped, Hist
  <2> QED
    BY <2>1, <2>2 DEF Naming
<1>4. CASE Enter
  <2>1. CASE At("work")' /\ Ours(call)
    <3>1. At("enter") /\ UNCHANGED <<dos, box, host, call, hist>>
      BY <1>1, <1>4, WhereEnter
    <3>2. ~At("out") /\ ~At("wait")' /\ ~Asking' /\ ~Served' /\ ~Served /\ hist'.before = hist.before /\ hist'.done = hist.done
      BY <2>1, <3>1 DEF At, Asking, Served
    <3>3. tsr'.word = call.word
      BY <1>4, <2>1 DEF Enter, Ours, Asked, TypeInv, TsrTyped, Tsr
    <3> QED
      BY <3>1, <3>2, <3>3, NameKept
  <2> QED
    BY <1>1, <1>2, <1>4, <2>1, WhereEnter
<1>5. CASE Work
  <2>1. At("work") /\ UNCHANGED <<host, call, hist>> /\ tsr'.word = tsr.word
    BY <1>1, <1>5, WhereWork DEF TypeInv, TsrTyped, Tsr
  <2>2. CASE At("wait")' /\ box'.frame = Query(call) /\ call.fn \in OnNamesToo
    <3>1. ~At("out") /\ ~At("enter") /\ ~At("enter")' /\ ~Served /\ hist'.before = hist.before /\ hist'.done = hist.done
      BY <2>1, <2>2 DEF At, Served
    <3>2. tsr.word = call.word
      BY <2>2, <3>1 DEF Naming, OnNamesToo
    <3>3. call.fn = "DISKSPACE" => Query(call).fn = "DISKSPACE"
      BY QueryCases, AskTyped DEF TypeInv, CallTyped, Call
    <3>4. Query(call).fn # "answer"
      BY <2>2, <3>2, <3>3, NameAsked DEF OnNamesToo, OnPath
    <3>5. ~Served'
      BY <2>2, <3>4 DEF Served
    <3> QED
      BY <2>1, <2>2, <3>1, <3>2, <3>5, NameAsked, NameKept
  <2>3. CASE call.fn \notin OnNamesToo
    BY <2>1, <2>3 DEF Naming, OnNamesToo
  <2>4. At("out")' \/ (At("wait")' /\ box'.frame = Query(call))
    BY <1>1, <1>5, WhereWork
  <2> QED
    BY <1>2, <2>2, <2>3, <2>4
<1>6. CASE Answers
  <2>1. CASE call.fn \in OnNamesToo
    BY <1>2, <1>6, <2>1, NameAnswered
  <2>2. CASE call.fn \notin OnNamesToo
    BY <1>6, <2>2, AnswersKeep DEF Naming, OnNamesToo
  <2> QED
    BY <2>1, <2>2
<1>7. CASE HostServes
  BY <1>7, NameServed
<1>8. CASE HostAnswers \/ UNCHANGED <<dos, tsr, box, host, cpu, call, ret, hist>>
  <2>1. UNCHANGED <<dos, tsr, host, cpu, call, ret, hist>> /\ box'.frame = box.frame
    BY <1>8 DEF HostAnswers, TypeInv, BoxTyped
  <2>2. CASE At("out")
    BY <2>1, <2>2 DEF Naming, At
  <2>3. CASE ~At("out")
    <3>1. Served' = Served /\ Asking' = Asking /\ At("enter")' = At("enter") /\ R' = R
      BY <2>1 DEF Served, Asking, At, R
    <3>2. /\ hist'.before = hist.before /\ hist'.done = hist.done
          /\ call.fn \in OnNamesToo /\ ~At("enter")' => tsr'.word = call.word
      BY <2>1, <2>3, <3>1 DEF Naming, OnNamesToo
    <3>3. Asking' /\ call.fn \in OnPath =>
           /\ box'.frame.path = call.path.names
           /\ call.fn = "RENAME" => box'.frame.to = call.to.names
           /\ call.fn \in {"SETATTR", "CREATE"} => box'.frame.word = call.word
      BY <2>1, <2>3, <3>1 DEF Naming, OnPath
    <3> QED
      BY <2>1, <2>3, <3>1, <3>2, <3>3, NameKept
  <2> QED
    BY <2>2, <2>3
<1>9. CASE Leaves
  <2>1. At("out")'
    BY <1>9, WhereLeaves DEF TypeInv, At
  <2> QED
    BY <1>2, <2>1
<1> QED
  BY <1>3, <1>4, <1>5, <1>6, <1>7, <1>8, <1>9, StepCases

\* Every step keeps AnswersTrue.
LEMMA AnswersStep ==
  ASSUME TypeInv, Protocol, Handled, Fits, Moving, Naming, AnswersTrue, [Next]_vars
  PROVE  AnswersTrue'
<1>1. cpu \in Cpu
  BY DEF TypeInv, CpuTyped
<1>2. CASE ~At("out")'
  BY <1>2 DEF AnswersTrue, Returned
<1>3. ASSUME NEW k \in hist.prog.calls, Begin(k)
      PROVE  ~At("out")'
  BY <1>1, <1>3 DEF Begin, At, Cpu
<1>4. CASE Enter
  <2>1. At("out")' => ~ret'.ours
    BY <1>1, <1>4, WhereEnter DEF At
  <2> QED
    BY <2>1 DEF AnswersTrue, Returned
<1>5. CASE Work
  <2> SUFFICES ASSUME At("out")', call'.fn \in OnNamesToo
               PROVE  ret'.cf /\ Folder' = FolderWas'
    BY DEF AnswersTrue, Returned, OnNamesToo, Folder, FolderWas
  <2>1. At("work") /\ UNCHANGED <<host, call, hist>>
    BY <1>1, <1>5, WhereWork
  <2>2. call.fn \notin {"READFIL", "WRITEFIL", "2D", "CMMTFIL", "LOCKFIL"} /\ call.fn \notin Moves
    BY <2>1, NamesAre
  <2>3. ret' = Fail(Refused(call))
    <3>1. ~Nothing(call) /\ ~TooLong(call)
      BY <2>2 DEF Nothing, TooLong
    <3> QED
      BY <1>1, <1>5, <2>2, <3>1, WhereWork DEF At
  <2>4. ret'.cf
    BY <2>3 DEF Fail, Success
  <2>5. Folder = FolderWas
    BY <2>1 DEF Naming, OnNamesToo, At, Served
  <2> QED
    BY <2>1, <2>4, <2>5 DEF Folder, FolderWas
<1>6. CASE Answers
  <2>1. CASE call.fn \in OnNamesToo
    <3>1. UNCHANGED <<host, call, hist>> /\ Served /\ (ret'.cf <=> ~Right)
      BY <1>6, <2>1, NameAnswered
    <3>2. IF Right THEN hist.done /\ Folder = Meant(call) ELSE Folder = FolderWas
      BY <2>1, <3>1 DEF Naming, OnNamesToo, Served, At
    <3>3. hist' = hist /\ Folder' = Folder /\ FolderWas' = FolderWas /\ Meant(call)' = Meant(call)
      BY <3>1 DEF Folder, FolderWas, Meant
    <3>4. IF ret'.cf THEN Folder' = FolderWas' ELSE hist'.done /\ Folder' = Meant(call)'
      BY <3>1, <3>2, <3>3
    <3> QED
      BY <3>4 DEF AnswersTrue, Folder, FolderWas
  <2>2. CASE call.fn \notin OnNamesToo
    BY <1>6, <2>2, AnswersKeep DEF AnswersTrue, OnNamesToo
  <2> QED
    BY <2>1, <2>2
<1>7. CASE HostServes \/ HostAnswers
  <2>1. At("wait") /\ UNCHANGED cpu
    <3>1. CASE HostServes
      BY <3>1, ServesTypes DEF HostServes, Asking
    <3>2. CASE HostAnswers
      BY <3>2 DEF HostAnswers, Protocol
    <3> QED
      BY <1>7, <3>1, <3>2
  <2> QED
    BY <1>2, <2>1 DEF At
<1>8. CASE Leaves \/ UNCHANGED <<dos, tsr, box, host, cpu, call, ret, hist>>
  <2>1. /\ UNCHANGED <<host, cpu, call, ret>>
        /\ hist'.before = hist.before /\ hist'.calls = hist.calls /\ hist'.done = hist.done
    BY <1>8, LeavesKeep, WhereLeaves DEF TypeInv
  <2>2. Returned' = Returned /\ Meant(call)' = Meant(call)
    BY <2>1 DEF Returned, At, Meant
  <2> QED
    BY <2>1, <2>2 DEF AnswersTrue
<1> QED
  BY <1>2, <1>3, <1>4, <1>5, <1>6, <1>7, <1>8, StepCases

----------------------------------------------------------------------------
(* Searches.                                                               *)

\* Nothing listed begins any list.
LEMMA PrefixNone ==
  ASSUME NEW t \in Seq(STRING)
  PROVE  IsPrefix(<<>>, t)
BY DEF IsPrefix

\* A beginning as long as the list is the list.
LEMMA PrefixEnd ==
  ASSUME NEW s \in Seq(STRING), NEW t \in Seq(STRING), IsPrefix(s, t), Len(s) >= Len(t)
  PROVE  s = t
<1>1. Len(s) = Len(t) /\ SubSeq(s, 1, Len(s)) = SubSeq(t, 1, Len(s))
  BY DEF IsPrefix
<1>2. SubSeq(s, 1, Len(s)) = s /\ SubSeq(t, 1, Len(t)) = t
  OBVIOUS
<1> QED
  BY <1>1, <1>2

\* A beginning with the next name is a beginning.
LEMMA PrefixGrows ==
  ASSUME NEW s \in Seq(STRING), NEW t \in Seq(STRING), IsPrefix(s, t), Len(s) < Len(t)
  PROVE  IsPrefix(Append(s, t[Len(s) + 1]), t)
<1> DEFINE n == Len(s)
           g == Append(s, t[n + 1])
<1>1. n \in Nat /\ n + 1 <= Len(t) /\ SubSeq(s, 1, n) = SubSeq(t, 1, n) /\ t[n + 1] \in STRING
  BY DEF IsPrefix
<1>2. \A i \in 1..n : s[i] = t[i]
  BY <1>1
<1>3. g \in Seq(STRING) /\ Len(g) = n + 1 /\ g[n + 1] = t[n + 1] /\ \A i \in 1..n : g[i] = s[i]
  BY <1>1
<1>4. \A i \in 1..n + 1 : g[i] = t[i]
  BY <1>1, <1>2, <1>3
<1> HIDE DEF g
<1>5. SubSeq(g, 1, Len(g)) = SubSeq(t, 1, Len(g))
  BY <1>1, <1>3, <1>4
<1> QED
  BY <1>1, <1>3, <1>5 DEF IsPrefix, g

\* What the host becomes with a request on a file, and with one on a name.
LEMMA HostOnFile ==
  ASSUME NEW q, NEW o \in OnOpenFile(q), NEW p, p = host.ids[q.id]
  PROVE  o.h \in {host, Overwritten(p, q, q.n), Overwritten(p, q, q.n - 1)}
<1>1. o = Missing \/ o = Outcome(Reply(Len(Read(p, q)), 0, Read(p, q)), host) => o.h = host
  BY DEF Missing, Outcome
<1>2. CASE q.fn = "READFIL"
  BY <1>1, <1>2, FileRead
<1>3. CASE q.fn = "WRITEFIL"
  <2>1. \/ o = Missing
        \/ o = Outcome(Reply(2, 0, <<q.n>>), Overwritten(p, q, q.n))
        \/ o = Outcome(Reply(2, 0, <<q.n - 1>>), Overwritten(p, q, q.n - 1))
    BY <1>3, FileWritten
  <2> QED
    BY <1>1, <2>1 DEF Outcome
<1>4. CASE q.fn \notin {"READFIL", "WRITEFIL"}
  <2>1. \/ o = Missing
        \/ o = Outcome(Reply(4, 0, <<More(Len(host.files[p].data) + q.off, 0)>>), host)
        \/ o = Outcome(Reply(0, 0, <<>>), host)
    BY <1>4, OnOpenFileCases
  <2> QED
    BY <1>1, <2>1 DEF Outcome
<1> QED
  BY <1>2, <1>3, <1>4

LEMMA HostOnName ==
  ASSUME NEW q, NEW o \in OnName(q), NEW p, p = q.path
  PROVE  o.h \in {host, Made(p), Removed(p), Gone(p), Marked(p, q.word), Moved(p, q.to), Handed(host, p),
                  Handed(New(p, q.word), p)}
BY DEF OnName, NotThere, Done, Opened, Made, Removed, Gone, Marked, Moved, New, Handed, Outcome

\* Only a search changes what the host has found.
LEMMA FoundKept ==
  ASSUME HostTyped(host), NEW q, q.fn \in supportedfunctions \ Finds, NEW o \in Does(q) \cup Refusals
  PROVE  o.h.found = host.found
<1>1. CASE o \in Refusals
  BY <1>1, RefusalServed
<1>2. \A r, h : Outcome(r, h).h = h
  BY DEF Outcome
<1>3. CASE q.fn = "DISKSPACE" /\ o \in Does(q)
  BY <1>2, <1>3, DoesCases
<1>4. CASE o = Missing
  BY <1>2, <1>4 DEF Missing
<1>5. CASE q.fn \in OnHandle /\ o \in Does(q)
  <2> DEFINE p == host.ids[q.id]
  <2>1. \A n : Overwritten(p, q, n).found = host.found
    BY DEF Overwritten, HostTyped
  <2>2. o \in OnOpenFile(q) /\ p = host.ids[q.id]
    BY <1>5, DoesCases
  <2> HIDE DEF p
  <2> QED
    BY <2>1, <2>2, HostOnFile
<1>6. CASE q.fn \in OnPath /\ o \in Does(q)
  <2> DEFINE p == q.path
  <2>1. /\ Made(p).found = host.found /\ Removed(p).found = host.found /\ Gone(p).found = host.found
        /\ \A a : Marked(p, a).found = host.found
        /\ \A to : Moved(p, to).found = host.found
        /\ \A a : Handed(New(p, a), p).found = host.found
        /\ Handed(host, p).found = host.found
    BY DEF HostTyped, Made, Removed, Gone, Marked, Moved, New, Handed
  <2>2. o \in OnName(q) /\ p = q.path
    BY <1>6, DoesCases
  <2> HIDE DEF p
  <2> QED
    BY <2>1, <2>2, HostOnName
<1> QED
  BY <1>1, <1>3, <1>5, <1>6 DEF supportedfunctions, Finds

\* What a search in the works does not touch.
LEMMA ListsKept ==
  ASSUME Searching, dos'.dta = dos.dta, tsr'.token = tsr.token, tsr'.in = tsr.in, host'.found = host.found,
         hist'.listed = hist.listed, hist'.names = hist.names
  PROVE  OwnList' /\ Apart' /\ InOrder' /\ Active' = Active /\ \A t : Fresh(t)' = Fresh(t)
<1>1. Active' = Active
  BY DEF Active
<1>2. \A t : Fresh(t)' = Fresh(t)
  BY <1>1 DEF Fresh
<1> QED
  BY <1>1, <1>2 DEF Searching, OwnList, Apart, InOrder

\* Calls that are no searches leave the searches alone.
LEMMA OthersKeep ==
  ASSUME Searching, UNCHANGED call, call.fn \notin Finds,
         dos'.dta = dos.dta, tsr'.token = tsr.token, tsr'.in = tsr.in, host'.found = host.found,
         hist'.listed = hist.listed, hist'.names = hist.names, hist'.calls = hist.calls, hist'.prog = hist.prog,
         ~At("out")' /\ ~At("enter")' => tsr.in
  PROVE  Searching'
<1>1. OwnList' /\ Apart' /\ InOrder' /\ Active' = Active
  BY ListsKept
<1>2. Counted'
  BY DEF Searching, Counted, Finds
<1>3. Loaded'
  BY <1>1 DEF Searching, Loaded
<1>4. Parts' /\ AtEnd'
  BY DEF Parts, AtEnd, Finds
<1> QED
  BY <1>1, <1>2, <1>3, <1>4 DEF Searching

\* What a directory lists follows from the folder.
LEMMA InsideSame ==
  ASSUME host'.files = host.files, host'.dirs = host.dirs
  PROVE  \A dir : Inside(dir)' = Inside(dir)
BY DEF Inside, Entries

\* A search that begins.
LEMMA SearchBegins ==
  ASSUME TypeInv, Searching, At("out"), NEW k \in hist.prog.calls, Begin(k)
  PROVE  Searching'
<1>1. TypeInv' /\ call' = k /\ k \in Call /\ UNCHANGED <<tsr, box>>
  BY BeginTypes
<1>2. dos \in Dos /\ hist \in Hist(hist.before) /\ cpu \in Cpu /\ k.d \in Searches /\ HostTyped(host)
  BY <1>1 DEF TypeInv, DosTyped, HistTyped, CpuTyped, Call
<1>3. At("enter")' /\ ~At("out")' /\ ~At("work")' /\ ~Asking' /\ ~Served' /\ host'.found = host.found
      /\ host'.files = host.files /\ host'.dirs = host.dirs
  BY <1>2 DEF Begin, At, Cpu, Asking, Served, HostTyped
<1>4. hist'.calls = hist.calls + 1 /\ hist.calls < hist.prog.most /\ hist'.prog = hist.prog /\ hist.prog \in Programs
  BY <1>2 DEF Begin, Hist
<1>5. hist.calls \in Nat /\ hist.prog.most \in Nat /\ tsr.token \in Nat
  BY <1>4, ProgramsAssumption DEF TypeInv, HistTyped, Hist, TsrTyped, Tsr
<1>6. Counted'
  BY <1>1, <1>3, <1>4, <1>5 DEF Searching, Counted
<1>7. CASE k.fn = "FINDFIRST"
  <2>1. /\ dos'.dta = [dos.dta EXCEPT ![k.d] = NoDta] /\ hist'.listed = [hist.listed EXCEPT ![k.d] = <<>>]
        /\ hist'.names = [hist.names EXCEPT ![k.d] = Inside(Front(k.path.names))]
    BY <1>2, <1>7 DEF Begin, Dos, Hist
  <2>2. k.d \notin Active' /\ Active' \subseteq Active
    BY <1>2, <2>1 DEF Active, NoDta, Dos
  <2>3. \A s \in Active' : dos'.dta[s] = dos.dta[s] /\ hist'.listed[s] = hist.listed[s] /\ hist'.names[s] = hist.names[s]
    BY <1>2, <2>1, <2>2 DEF Active, Dos, Hist
  <2>4. OwnList' /\ Apart' /\ Loaded'
    BY <1>1, <1>3, <2>2, <2>3 DEF Searching, OwnList, Apart, Loaded
  <2>5. hist'.listed[k.d] = <<>> /\ hist'.names[k.d] = Inside(Front(k.path.names)) /\ hist'.names[k.d] \in Seq(STRING)
    BY <1>1, <1>2, <2>1 DEF Hist, TypeInv, HistTyped
  <2>6. InOrder'
    <3>1. ASSUME NEW s \in Searches
          PROVE  IsPrefix(hist'.listed[s], hist'.names[s])
      <4>1. CASE s = k.d
        BY <2>5, <4>1, PrefixNone
      <4>2. CASE s # k.d
        BY <1>2, <2>1, <4>2 DEF Searching, InOrder, Hist
      <4> QED
        BY <4>1, <4>2
    <3> QED
      BY <3>1 DEF InOrder
  <2>7. Parts' /\ AtEnd'
    BY <1>1, <1>3, <1>7, <2>2, <2>5, InsideSame DEF Parts, AtEnd, FirstPart
  <2> QED
    BY <1>6, <2>4, <2>6, <2>7 DEF Searching
<1>8. CASE k.fn # "FINDFIRST"
  <2>1. dos'.dta = dos.dta /\ hist'.listed = hist.listed /\ hist'.names = hist.names
    BY <1>2, <1>8 DEF Begin, Dos, Hist
  <2>2. OwnList' /\ Apart' /\ InOrder' /\ Active' = Active
    BY <1>1, <1>3, <2>1, ListsKept
  <2>3. Loaded'
    BY <1>1, <1>3, <2>2 DEF Searching, Loaded
  <2>4. k.fn = "FINDNEXT" => k.d \in Active
    BY <1>2 DEF Begin, Ready, Active
  <2>5. Parts' /\ AtEnd'
    BY <1>1, <1>3, <1>8, <2>2, <2>4 DEF Parts, AtEnd, NextPart
  <2> QED
    BY <1>6, <2>2, <2>3, <2>5 DEF Searching
<1> QED
  BY <1>7, <1>8

\* A search that enters.
LEMMA SearchEnters ==
  ASSUME TypeInv, Searching, Enter
  PROVE  Searching'
<1>1. At("enter") /\ UNCHANGED <<dos, box, host, call, hist>>
  BY WhereEnter DEF TypeInv, CpuTyped
<1>2. tsr'.token = tsr.token /\ tsr'.in = tsr.in
  BY DEF Enter, TypeInv, TsrTyped, Tsr
<1>3. At("out")' \/ (At("work")' /\ tsr.in)
  BY WhereEnter DEF TypeInv, CpuTyped, Ours, Asked
<1>4. OwnList' /\ Apart' /\ InOrder' /\ Active' = Active
  BY <1>1, <1>2, ListsKept
<1>5. Counted' /\ Loaded'
  BY <1>1, <1>2, <1>3, <1>4 DEF Searching, Counted, Loaded, At
<1>6. ~Asking' /\ ~Served' /\ ~At("out")
  BY <1>1, <1>3 DEF Asking, Served, At
<1>7. AtEnd'
  BY <1>6 DEF AtEnd
<1>8. Parts'
  <2>1. call.fn = "FINDFIRST" => FirstPart'
    BY <1>1, <1>4, <1>6, InsideSame DEF Searching, Parts, FirstPart
  <2>2. call.fn = "FINDNEXT" => NextPart'
    BY <1>1, <1>4, <1>6 DEF Searching, Parts, NextPart
  <2> QED
    BY <1>1, <2>1, <2>2 DEF Parts
<1> QED
  BY <1>4, <1>5, <1>7, <1>8 DEF Searching

\* Every call may be a search of its own and there is still a token left.
TokensLast == \A p \in Programs : p.most < Tokens

\* A number below the modulus is its own remainder.
LEMMA SmallMod ==
  ASSUME NEW a \in Nat, NEW b \in Nat \ {0}, a < b
  PROVE  a % b = a
OBVIOUS

\* A token that is taken is a new one.
LEMMA NextToken ==
  ASSUME TypeInv, Searching, TokensLast, At("work"), call.fn = "FINDFIRST"
  PROVE  tsr.token \in Nat /\ TokenAfter(call) = tsr.token + 1 /\ tsr.token < hist.calls
<1>1. tsr.token \in Nat /\ hist.calls \in Nat /\ hist.prog \in Programs /\ Tokens \in Nat \ {0}
  BY FsAssumption DEF TypeInv, TsrTyped, Tsr, HistTyped, Hist
<1>2. hist.prog.most \in Nat /\ hist.prog.most < Tokens
  BY <1>1, ProgramsAssumption DEF TokensLast
<1>3. tsr.token < hist.calls /\ hist.calls <= hist.prog.most
  BY DEF Searching, Counted
<1>4. tsr.token + 1 \in Nat /\ tsr.token + 1 < Tokens
  BY <1>1, <1>2, <1>3
<1>5. (tsr.token + 1) % Tokens = tsr.token + 1
  BY <1>1, <1>4, SmallMod
<1> QED
  BY <1>1, <1>3, <1>5 DEF TokenAfter

\* A search is always asked of the host.
LEMMA FindsGo ==
  ASSUME TypeInv, Work, call.fn \in Finds
  PROVE  /\ At("wait")' /\ box'.frame = Query(call) /\ UNCHANGED dos
<1>1. Refused(call) = 0
  BY DEF Finds, Refused, Moves, Opens
<1>2. call.fn \notin {"2D", "CLSFIL"} /\ ~Nothing(call) /\ ~TooLong(call)
  BY DEF Finds, Nothing, TooLong, Moves
<1> QED
  BY <1>1, <1>2, WhereWork DEF TypeInv, CpuTyped

\* What a search asks the host for.
LEMMA FindsAsk ==
  ASSUME TypeInv
  PROVE  /\ call.fn = "FINDFIRST" => /\ Query(call).path = call.path.names /\ Query(call).token = tsr.token
                                     /\ Query(call).entry = 0 /\ Query(call).fn = "FINDFIRST"
         /\ call.fn = "FINDNEXT" => /\ Query(call).token = dos.dta[call.d].par /\ Query(call).fn = "FINDNEXT"
                                    /\ Query(call).entry = dos.dta[call.d].entry
<1>1. Ask(call) \in Request /\ Ask(call).fn = call.fn /\ Ask(call).entry = 0
  BY AskTyped DEF TypeInv, CallTyped, Call, Ask, NoQuery
<1>2. ASSUME call.fn = "FINDFIRST"
      PROVE  /\ Query(call).path = call.path.names /\ Query(call).token = tsr.token
             /\ Query(call).entry = 0 /\ Query(call).fn = "FINDFIRST"
  <2>1. Query(call) = [Ask(call) EXCEPT !.path = call.path.names, !.token = tsr.token]
    BY <1>2, QueryCases
  <2> QED
    BY <1>1, <1>2, <2>1 DEF Request
<1>3. ASSUME call.fn = "FINDNEXT"
      PROVE  /\ Query(call).token = dos.dta[call.d].par /\ Query(call).fn = "FINDNEXT"
             /\ Query(call).entry = dos.dta[call.d].entry
  <2>1. Query(call) = [Ask(call) EXCEPT !.token = dos.dta[call.d].par, !.entry = dos.dta[call.d].entry]
    BY <1>3, QueryCases
  <2> QED
    BY <1>1, <1>3, <2>1 DEF Request
<1> QED
  BY <1>2, <1>3

\* A search is put to the host.
LEMMA SearchWorks ==
  ASSUME TypeInv, Protocol, Searching, TokensLast, Work
  PROVE  Searching'
<1>1. /\ At("work") /\ ~At("out") /\ ~At("enter") /\ UNCHANGED <<host, call, hist>> /\ tsr.in
      /\ tsr'.token = TokenAfter(call) /\ tsr'.in = tsr.in /\ dos'.dta = dos.dta
  <2>1. At("work") /\ UNCHANGED <<host, call, hist>>
    BY WhereWork DEF TypeInv, CpuTyped
  <2>2. tsr'.token = TokenAfter(call) /\ tsr'.in = tsr.in
    BY DEF Work, TypeInv, TsrTyped, Tsr
  <2>3. dos'.dta = dos.dta
    BY DEF Work, TypeInv, DosTyped, Dos
  <2>4. ~At("out") /\ ~At("enter")
    BY <2>1 DEF At
  <2> QED
    BY <2>1, <2>2, <2>3, <2>4 DEF Searching, Loaded
<1>2. CASE call.fn \notin Finds
  BY <1>1, <1>2, OthersKeep DEF TokenAfter, Finds
<1>3. CASE call.fn = "FINDFIRST"
  <2>1. At("wait")' /\ box'.frame = Query(call)
    BY <1>3, FindsGo DEF Finds
  <2>2. tsr.token \in Nat /\ tsr'.token = tsr.token + 1 /\ tsr.token < hist.calls /\ hist.calls \in Nat
    BY <1>1, <1>3, NextToken DEF TypeInv, HistTyped, Hist
  <2>3. ~Served' /\ ~At("enter")' /\ ~At("work")'
    BY <1>3, <2>1, FindsAsk DEF Served, At
  <2>4. Active' = Active /\ \A s \in Active : dos.dta[s].par \in Nat
    BY <1>1 DEF Active, TypeInv, DosTyped, Dos, DtaEntry
  <2>5. Counted'
    BY <1>1, <2>2, <2>3 DEF Searching, Counted
  <2>6. Loaded' /\ Apart' /\ InOrder'
    BY <1>1, <2>4 DEF Searching, Loaded, Apart, InOrder
  <2>7. \A s \in Active : dos.dta[s].par < tsr.token /\ dos.dta[s].par < tsr.token + 1 /\ dos.dta[s].par # tsr.token
    BY <2>2, <2>4 DEF Searching, OwnList
  <2>8. OwnList'
    BY <1>1, <2>2, <2>4, <2>7 DEF Searching, OwnList
  <2>9. Fresh(box.frame.token)'
    <3>1. box'.frame.token = tsr.token
      BY <1>3, <2>1, FindsAsk
    <3> QED
      BY <1>1, <2>2, <2>4, <2>7, <3>1 DEF Fresh
  <2>10. AtEnd'
    BY <2>3 DEF AtEnd
  <2>11. FirstPart'
    <3>1. FirstPart
      BY <1>1, <1>3 DEF Searching, Parts
    <3>2. Query(call).path = call.path.names /\ Query(call).token = tsr.token /\ Query(call).entry = 0
      BY <1>3, FindsAsk
    <3>3. \A dir : Inside(dir)' = Inside(dir)
      BY <1>1, InsideSame
    <3>4. box'.frame.path = call.path.names /\ box'.frame.entry = 0
      BY <2>1, <3>2
    <3> QED
      BY <1>1, <2>3, <2>4, <2>9, <3>1, <3>3, <3>4 DEF FirstPart
  <2> QED
    BY <1>1, <1>3, <2>5, <2>6, <2>8, <2>10, <2>11 DEF Searching, Parts
<1>4. CASE call.fn = "FINDNEXT"
  <2>1. At("wait")' /\ box'.frame = Query(call)
    BY <1>4, FindsGo DEF Finds
  <2>2. tsr'.token = tsr.token
    BY <1>1, <1>4 DEF TokenAfter
  <2>3. ~Served' /\ ~At("enter")' /\ ~At("work")'
    BY <1>4, <2>1, FindsAsk DEF Served, At
  <2>4. OwnList' /\ Apart' /\ InOrder' /\ Active' = Active
    BY <1>1, <2>2, ListsKept
  <2>5. Counted' /\ Loaded' /\ AtEnd'
    BY <1>1, <2>2, <2>3, <2>4 DEF Searching, Counted, Loaded, AtEnd
  <2>6. NextPart'
    <3>1. NextPart
      BY <1>1, <1>4 DEF Searching, Parts
    <3> QED
      BY <1>1, <1>4, <2>1, <2>3, <2>4, <3>1, FindsAsk DEF NextPart
  <2> QED
    BY <1>1, <1>4, <2>4, <2>5, <2>6 DEF Searching, Parts
<1> QED
  BY <1>2, <1>3, <1>4 DEF Finds

\* The host serves a search.
LEMMA SearchServed ==
  ASSUME TypeInv, Protocol, Handled, Moving, Searching, HostServes
  PROVE  Searching'
<1>1. PICK o \in Does(box.frame) \cup Refusals : /\ host' = o.h /\ R' = o.r /\ box'.frame.fn = "answer" /\ hist' = Noted(o)
  BY ServesTypes
<1>2. /\ Asking /\ Sound(box.frame) /\ box.frame.fn = Put /\ UNCHANGED <<dos, tsr, cpu, call>> /\ HostTyped(host)
      /\ call.fn \in supportedfunctions
  BY ServesTypes DEF HostServes, TypeInv, Asking, Protocol, At
<1>3. ~At("out") /\ At("wait") /\ ~At("enter") /\ ~Served /\ Served' /\ ~Asking' /\ At("wait")' /\ ~At("enter")' /\ ~At("work")'
  BY <1>1, <1>2 DEF Asking, Served, At
<1>4. /\ hist'.done = DoneBy(o) /\ hist'.listed = hist.listed /\ hist'.names = hist.names /\ hist'.calls = hist.calls
      /\ hist'.prog = hist.prog
  BY <1>1 DEF Noted, TypeInv, HistTyped, Hist
<1>5. CASE call.fn \notin Finds
  <2>1. box.frame.fn \in supportedfunctions \ Finds
    BY <1>2, <1>5 DEF Put, QueryFn, supportedfunctions, Finds, OnHandle
  <2>2. host'.found = host.found
    BY <1>1, <1>2, <2>1, FoundKept
  <2>3. tsr.in
    BY <1>3 DEF Searching, Loaded
  <2> QED
    BY <1>2, <1>4, <1>5, <2>2, <2>3, OthersKeep
<1>6. CASE call.fn \in Finds
  <2> DEFINE q == box.frame
             d == call.d
  <2>1. q.fn = call.fn /\ d \in Searches /\ q.entry \in Nat /\ q.token \in 0..Tokens - 1
    BY <1>2, <1>6 DEF Put, QueryFn, Finds, TypeInv, CallTyped, Call, Sound, Request
  <2>2. Counted' /\ Loaded'
    BY <1>2, <1>3, <1>4 DEF Searching, Counted, Loaded, Active
  <2>3. Active' = Active /\ Apart' /\ InOrder'
    BY <1>2, <1>4 DEF Searching, Active, Apart, InOrder
  <2>4. CASE o \in Refusals
    <3>1. o.h = host /\ (o.r.len = 65535 \/ o.r.ax = 5)
      BY <1>2, <2>4, RefusalServed
    <3>2. o.h = host /\ ~Good'
      BY <1>1, <3>1 DEF Good
    <3>3. ~DoneBy(o)
      BY <1>6, <2>1, <3>1 DEF DoneBy, Finds
    <3>4. ~hist'.done
      BY <1>4, <3>3, Zenon
    <3>5. OwnList'
      BY <1>1, <1>2, <1>4, <2>3, <3>2, ListsKept
    <3>6. Parts'
      <4>1. call.fn = "FINDFIRST" => FirstPart'
        BY <1>2, <1>3, <1>4, <2>3, <3>2 DEF Searching, Parts, FirstPart
      <4>2. call.fn = "FINDNEXT" => NextPart'
        BY <1>2, <1>3, <1>4, <2>3, <3>2 DEF Searching, Parts, NextPart
      <4> QED
        BY <1>2, <4>1, <4>2 DEF Parts
    <3> QED
      BY <2>2, <2>3, <3>4, <3>5, <3>6 DEF Searching, AtEnd
  <2>5. ASSUME o \in OnSearch(q)
        PROVE  \/ /\ q.entry >= Len(Listed(q)) /\ o.h = Kept(q) /\ o.r.len = 0 /\ o.r.ax = 18
               \/ /\ ~(q.entry >= Len(Listed(q))) /\ o.h = Kept(q) /\ o.r.len = 24 /\ o.r.ax = 0
                  /\ o.r.out = <<Listed(q)[q.entry + 1], q.token, q.entry + 1>>
    <3> HIDE DEF q
    <3>1. \/ q.entry >= Len(Listed(q)) /\ o = Outcome(Reply(0, 18, <<>>), Kept(q))
          \/ /\ ~(q.entry >= Len(Listed(q)))
             /\ o = Outcome(Reply(24, 0, <<Listed(q)[q.entry + 1], q.token, q.entry + 1>>), Kept(q))
      BY <2>5, OnSearchCases
    <3> QED
      BY <3>1 DEF Outcome, Reply
  <2>6. hist.names[d] \in Seq(STRING) /\ hist.listed[d] \in Seq(STRING) /\ IsPrefix(hist.listed[d], hist.names[d])
    BY <2>1 DEF TypeInv, HistTyped, Hist, Searching, InOrder
  <2>7. ASSUME o \in OnSearch(q), call.fn = "FINDFIRST"
        PROVE  Searching'
    <3>1. FirstPart /\ hist.names[d] = Inside(Front(q.path)) /\ q.entry = 0 /\ Fresh(q.token)
      BY <1>2, <1>3, <2>7 DEF Searching, Parts, FirstPart
    <3>2. Listed(q) = hist.names[d]
      BY <2>1, <2>7, <3>1 DEF Listed
    <3>3. Kept(q) = [host EXCEPT !.found[q.token] = hist.names[d]]
      BY <2>1, <2>7, <3>2 DEF Kept
    <3>4. o.h = Kept(q)
      BY <2>5, <2>7
    <3> HIDE DEF q, d
    <3>5. /\ host'.found[q.token] = hist.names[d]
          /\ \A t \in 0..Tokens - 1 : t # q.token => host'.found[t] = host.found[t]
      <4>1. host.found \in [0..Tokens - 1 -> Seq(STRING)]
        BY <1>2 DEF HostTyped
      <4>2. host'.found = [host.found EXCEPT ![q.token] = hist.names[d]]
        BY <1>1, <1>2, <3>3, <3>4 DEF HostTyped
      <4> QED
        BY <2>1, <4>1, <4>2
    <3>6. \A s \in Active : dos.dta[s].par \in 0..Tokens - 1 /\ dos.dta[s].par # q.token
      BY <3>1 DEF Active, Fresh, TypeInv, DosTyped, Dos, DtaEntry
    <3>7. OwnList'
      BY <1>2, <1>4, <2>3, <3>5, <3>6 DEF Searching, OwnList
    <3>8. Fresh(q.token) => q.token < tsr'.token /\ \A s \in Active' : dos'.dta[s].par # q.token
      BY <1>2, <2>3 DEF Fresh
    <3>9. \/ Len(hist.names[d]) = 0 /\ o.r.len = 0 /\ o.r.ax = 18
          \/ /\ Len(hist.names[d]) > 0 /\ o.r.len = 24 /\ o.r.ax = 0
             /\ o.r.out = <<hist.names[d][1], q.token, 1>>
      <4>1. Len(hist.names[d]) \in Nat /\ 0 + 1 = 1
        BY <2>6
      <4> QED
        BY <2>5, <2>7, <3>1, <3>2, <4>1 DEF q
    <3>10. FirstPart'
      <4>1. d \notin Active' /\ hist'.listed[d] = <<>>
        BY <1>4, <2>3, <3>1 DEF FirstPart, d
      <4>2. Good' => /\ R'.len = 24 /\ Len(hist'.names[d]) > 0 /\ R'.out[1] = hist'.names[d][1] /\ R'.out[3] = 1
                     /\ R'.out[2] = q.token
        BY <1>1, <1>4, <3>9 DEF Good
      <4>3. Good' => Fresh(R.out[2])' /\ host'.found[R'.out[2]] = hist'.names[d]
        BY <1>4, <3>1, <3>5, <3>8, <4>2 DEF Fresh
      <4> QED
        BY <1>2, <1>3, <4>1, <4>2, <4>3 DEF FirstPart, d
    <3>11. AtEnd'
      <4>1. R'.len # 65535 /\ R'.ax \in {0, 18} /\ (R'.ax = 18 => Len(hist.names[d]) = 0)
        BY <1>1, <3>9
      <4>2. Len(hist.names[d]) = 0 => hist.names[d] = hist.listed[d]
        <5>1. hist.listed[d] = <<>>
          BY <3>1 DEF FirstPart, d
        <5> QED
          BY <2>6, <5>1
      <4> QED
        BY <1>2, <1>4, <4>1, <4>2 DEF AtEnd, d
    <3> QED
      BY <1>2, <2>2, <2>3, <2>7, <3>7, <3>10, <3>11 DEF Searching, Parts
  <2>8. ASSUME o \in OnSearch(q), call.fn = "FINDNEXT"
        PROVE  Searching'
    <3>1. NextPart /\ d \in Active /\ q.token = dos.dta[d].par /\ q.entry = dos.dta[d].entry
      BY <1>2, <1>3, <2>8 DEF Searching, Parts, NextPart
    <3>2. Listed(q) = hist.names[d] /\ Kept(q) = host /\ q.entry = Len(hist.listed[d])
      BY <2>1, <2>8, <3>1 DEF Listed, Kept, Searching, OwnList
    <3>3. host' = host
      BY <1>1, <2>5, <2>8, <3>2
    <3>4. OwnList'
      BY <1>2, <1>4, <3>3, ListsKept
    <3> HIDE DEF q, d
    <3>5. \/ Len(hist.listed[d]) >= Len(hist.names[d]) /\ o.r.len = 0 /\ o.r.ax = 18
          \/ /\ dos.dta[d].entry < Len(hist.names[d]) /\ o.r.len = 24 /\ o.r.ax = 0
             /\ o.r.out = <<hist.names[d][dos.dta[d].entry + 1], dos.dta[d].par, dos.dta[d].entry + 1>>
      <4>1. Len(hist.names[d]) \in Nat /\ q.entry \in Nat
        BY <2>1, <2>6
      <4> QED
        BY <2>5, <2>8, <3>1, <3>2, <4>1 DEF q
    <3>6. NextPart'
      <4>1. d \in Active'
        BY <2>3, <3>1
      <4>2. Good' => /\ R'.len = 24 /\ dos'.dta[d].entry < Len(hist'.names[d])
                     /\ R'.out = <<hist'.names[d][dos'.dta[d].entry + 1], dos'.dta[d].par, dos'.dta[d].entry + 1>>
        BY <1>1, <1>2, <1>4, <3>5 DEF Good
      <4> QED
        BY <1>2, <1>3, <4>1, <4>2 DEF NextPart, d
    <3>7. AtEnd'
      <4>1. R'.len # 65535 /\ R'.ax \in {0, 18} /\ (R'.ax = 18 => Len(hist.listed[d]) >= Len(hist.names[d]))
        BY <1>1, <3>5
      <4>2. Len(hist.listed[d]) >= Len(hist.names[d]) => hist.listed[d] = hist.names[d]
        BY <2>6, PrefixEnd
      <4> QED
        BY <1>2, <1>4, <4>1, <4>2 DEF AtEnd, d
    <3> QED
      BY <1>2, <2>2, <2>3, <2>8, <3>4, <3>6, <3>7 DEF Searching, Parts
  <2>9. o \in Does(q) => o \in OnSearch(q)
    <3>1. q.fn \in {"FINDFIRST", "FINDNEXT"}
      BY <1>6, <2>1 DEF Finds
    <3> HIDE DEF q
    <3> QED
      BY <3>1, DoesCases
  <2> QED
    BY <1>1, <1>6, <2>4, <2>7, <2>8, <2>9 DEF Finds
<1> QED
  BY <1>5, <1>6

\* Only the answer to a search touches the searches.
LEMMA OnlyFound ==
  ASSUME TypeInv, Answers
  PROVE  /\ ~Found => dos'.dta = dos.dta /\ call.fn \notin Finds /\ UNCHANGED hist
         /\ UNCHANGED <<tsr, box, host, call>>
<1>1. UNCHANGED <<tsr, box, host, call>> /\ (~Found => UNCHANGED hist)
  BY AnswersKeep
<1>2. dos \in Dos
  BY DEF TypeInv, DosTyped
<1>3. CASE OnNames
  BY <1>1, <1>2, <1>3 DEF OnNames, MadeOrRemoved, AttrSet, Renamed, Deleted, Changed, AttrGot, Space, Named, Finds, Dos
<1>4. CASE OpenedFile \/ Closed \/ Locked \/ EndSought
  BY <1>1, <1>2, <1>4 DEF OpenedFile, Closed, Locked, EndSought, Finds, Opens, Dos
<1>5. CASE ReadOn
  <2> DEFINE c == Copied
             x == c.sft[call.h].pos + (cpu.total + R.len)
  <2>0. c = [dos EXCEPT !.buf = Filled]
    BY DEF Copied, Filled
  <2>2. UNCHANGED dos \/ dos' = c \/ dos' = [c EXCEPT !.sft[call.h].pos = x]
    BY <1>5 DEF ReadOn
  <2> HIDE DEF c, x
  <2>1. c.dta = dos.dta /\ "sft" \in DOMAIN c /\ "dta" \in DOMAIN c
    <3>1. DOMAIN dos = DOMAIN [chain |-> 0, cds |-> 0, sft |-> 0, dta |-> 0, buf |-> 0, cwd |-> 0]
      BY <1>2 DEF Dos
    <3>2. DOMAIN c = DOMAIN dos
      BY <2>0
    <3>3. "dta" \in DOMAIN dos /\ "sft" \in DOMAIN dos
      BY <3>1
    <3> QED
      BY <2>0, <3>2, <3>3
  <2>3. [c EXCEPT !.sft[call.h].pos = x].dta = c.dta
    BY <2>1
  <2>4. dos'.dta = dos.dta
    BY <2>1, <2>2, <2>3
  <2>5. call.fn \notin Finds
    BY <1>5 DEF ReadOn, Finds
  <2>6. UNCHANGED hist
    BY <1>5 DEF ReadOn
  <2> QED
    BY <1>1, <2>4, <2>5, <2>6
<1>6. CASE WriteOn
  <2> DEFINE x == Sft(call).pos + R.out[1]
             y == More(dos.sft[call.h].size, x)
  <2>1. UNCHANGED dos \/ dos' = [dos EXCEPT !.sft[call.h].pos = x, !.sft[call.h].size = y]
    BY <1>6 DEF WriteOn
  <2> HIDE DEF x, y
  <2>2. dos'.dta = dos.dta
    BY <1>2, <2>1 DEF Dos
  <2>3. call.fn \notin Finds
    BY <1>6 DEF WriteOn, Finds
  <2>4. UNCHANGED hist
    BY <1>6 DEF WriteOn
  <2> QED
    BY <1>1, <2>2, <2>3, <2>4
<1> QED
  BY <1>1, <1>3, <1>4, <1>5, <1>6 DEF Answers, OnFiles

\* The answer to a search: one name more, or the end.
LEMMA SearchFound ==
  ASSUME TypeInv, Protocol, Fits, Searching, Found
  PROVE  Searching'
<1> DEFINE d == call.d
<1>1. /\ UNCHANGED <<tsr, box, host, call>> /\ Served /\ call.fn \in Finds /\ d \in Searches /\ At("wait")
      /\ ~Verdict.cf => Good /\ R.len = 24
  <2>1. /\ UNCHANGED <<tsr, box, host, call>> /\ Answered /\ call.fn \in {"FINDFIRST", "FINDNEXT"} /\ d \in Searches
    BY DEF Found, TypeInv, CallTyped, Call
  <2>2. Served /\ (~Verdict.cf => Good /\ R.len = GoodLength[call.fn])
    BY <2>1, AnswerThere
  <2> QED
    BY <2>1, <2>2, Lengths DEF Served, Finds
<1>2. At("out")' /\ ~Served' /\ ~At("out") /\ ~At("enter") /\ ~At("enter")' /\ ~At("work")'
  <2>1. At("out")'
    BY GoesOut DEF Found, TypeInv, CpuTyped
  <2> QED
    BY <1>1, <2>1 DEF At, Served
<1>3. tsr.in
  BY <1>2 DEF Searching, Loaded
<1>4. Parts' /\ AtEnd'
  BY <1>2 DEF Parts, AtEnd
<1>5. hist'.calls = hist.calls /\ hist'.prog = hist.prog
  BY DEF Found, TypeInv, HistTyped, Hist
<1>6. Counted' /\ Loaded'
  BY <1>1, <1>2, <1>3, <1>5 DEF Searching, Counted, Loaded
<1>7. CASE Verdict.cf
  <2>1. UNCHANGED <<dos, hist>>
    BY <1>7 DEF Found
  <2> QED
    BY <1>1, <1>4, <1>6, <2>1, ListsKept DEF Searching
<1>8. CASE ~Verdict.cf
  <2> DEFINE e == [drv |-> IF call.fn = "FINDFIRST" THEN tsr.req ELSE dos.dta[d].drv, par |-> R.out[2], entry |-> R.out[3]]
             l == Append(hist.listed[d], R.out[1])
  <2>1. dos' = [dos EXCEPT !.dta[d] = e] /\ hist' = [hist EXCEPT !.listed[d] = l]
    BY <1>8 DEF Found
  <2>2. dos \in Dos /\ hist \in Hist(hist.before)
    BY DEF TypeInv, DosTyped, HistTyped
  <2>3. e.par = R.out[2] /\ e.entry = R.out[3] /\ (call.fn # "FINDFIRST" => e.drv = dos.dta[d].drv)
    OBVIOUS
  <2>4. R.out \in STRING \X (0..Tokens - 1) \X Nat
    BY <1>1, <1>8 DEF Fits, Finds
  <2>5. /\ hist.names[d] \in Seq(STRING) /\ hist.listed[d] \in Seq(STRING) /\ IsPrefix(hist.listed[d], hist.names[d])
        /\ Len(hist.listed[d]) \in Nat /\ R.out[1] \in STRING
    BY <1>1, <2>2, <2>4 DEF Hist, Searching, InOrder
  \* What was found, whether it is the first entry or the next.
  <2>6. /\ R.out[2] < tsr.token /\ host.found[R.out[2]] = hist.names[d]
        /\ R.out[3] = Len(hist.listed[d]) + 1 /\ R.out[1] = hist.names[d][Len(hist.listed[d]) + 1]
        /\ Len(hist.listed[d]) < Len(hist.names[d])
        /\ \A s \in Active \ {d} : dos.dta[s].par # R.out[2]
    <3>1. CASE call.fn = "FINDFIRST"
      <4>1. /\ hist.listed[d] = <<>> /\ Len(hist.names[d]) > 0 /\ R.out[1] = hist.names[d][1] /\ R.out[3] = 1
            /\ Fresh(R.out[2]) /\ host.found[R.out[2]] = hist.names[d]
        BY <1>1, <1>2, <1>8, <3>1 DEF Searching, Parts, FirstPart
      <4>2. Len(hist.listed[d]) = 0
        BY <4>1
      <4> HIDE DEF d
      <4> QED
        BY <4>1, <4>2 DEF Fresh
    <3>2. CASE call.fn = "FINDNEXT"
      <4>1. /\ d \in Active /\ dos.dta[d].entry < Len(hist.names[d])
            /\ R.out = <<hist.names[d][dos.dta[d].entry + 1], dos.dta[d].par, dos.dta[d].entry + 1>>
        BY <1>1, <1>2, <1>8, <3>2 DEF Searching, Parts, NextPart
      <4>2. dos.dta[d].par < tsr.token /\ host.found[dos.dta[d].par] = hist.names[d] /\ dos.dta[d].entry = Len(hist.listed[d])
        BY <4>1 DEF Searching, OwnList
      <4>3. \A s \in Active \ {d} : dos.dta[s].par # dos.dta[d].par
        BY <4>1 DEF Searching, Apart
      <4>4. R.out[1] = hist.names[d][dos.dta[d].entry + 1] /\ R.out[2] = dos.dta[d].par /\ R.out[3] = dos.dta[d].entry + 1
        BY <4>1
      <4> HIDE DEF d
      <4> QED
        BY <4>1, <4>2, <4>3, <4>4
    <3> QED
      BY <1>1, <3>1, <3>2 DEF Finds
  <2> HIDE DEF e, l, d
  <2>7. /\ dos'.dta[d] = e /\ \A s \in Searches \ {d} : dos'.dta[s] = dos.dta[s]
        /\ hist'.listed[d] = l /\ hist'.names = hist.names /\ \A s \in Searches \ {d} : hist'.listed[s] = hist.listed[s]
    <3>1. dos'.dta = [dos.dta EXCEPT ![d] = e] /\ hist'.listed = [hist.listed EXCEPT ![d] = l] /\ hist'.names = hist.names
      BY <2>1, <2>2 DEF Dos, Hist
    <3> QED
      BY <1>1, <2>2, <3>1 DEF Dos, Hist, d
  <2>8. Len(l) = Len(hist.listed[d]) + 1
    BY <2>5 DEF l
  <2>9. \A s \in Active' : s = d \/ s \in Active \ {d}
    BY <2>7 DEF Active
  <2>10. OwnList'
    <3>1. ASSUME NEW s \in Active'
          PROVE  dos'.dta[s].par < tsr.token /\ host.found[dos'.dta[s].par] = hist.names[s] /\ dos'.dta[s].entry = Len(hist'.listed[s])
      <4>1. CASE s = d
        BY <2>3, <2>6, <2>7, <2>8, <4>1
      <4>2. CASE s \in Active \ {d}
        BY <2>7, <4>2 DEF Searching, OwnList, Active
      <4> QED
        BY <2>9, <4>1, <4>2
    <3> QED
      BY <1>1, <2>7, <3>1 DEF OwnList
  <2>11. Apart'
    <3>1. ASSUME NEW s \in Active', NEW t \in Active', dos'.dta[s].par = dos'.dta[t].par
          PROVE  s = t
      <4>1. s = d \/ s \in Active \ {d}
        BY <2>9
      <4>2. t = d \/ t \in Active \ {d}
        BY <2>9
      <4>3. dos'.dta[d].par = R.out[2] /\ \A u \in Active \ {d} : dos'.dta[u] = dos.dta[u]
        BY <2>3, <2>7 DEF Active
      <4> QED
        BY <2>6, <3>1, <4>1, <4>2, <4>3 DEF Searching, Apart
    <3> QED
      BY <3>1 DEF Apart
  <2>12. InOrder'
    <3>1. IsPrefix(l, hist.names[d])
      <4>1. IsPrefix(Append(hist.listed[d], hist.names[d][Len(hist.listed[d]) + 1]), hist.names[d])
        BY <2>5, <2>6, PrefixGrows
      <4> QED
        BY <2>6, <4>1 DEF l
    <3>2. ASSUME NEW s \in Searches
          PROVE  IsPrefix(hist'.listed[s], hist'.names[s])
      BY <2>7, <3>1 DEF Searching, InOrder
    <3> QED
      BY <3>2 DEF InOrder
  <2> QED
    BY <1>4, <1>6, <2>10, <2>11, <2>12 DEF Searching
<1> QED
  BY <1>7, <1>8

\* Loading takes the tokens from the start, unloading ends all searches.
LEMMA SearchLeaves ==
  ASSUME TypeInv, Chained, Searching, Leaves
  PROVE  Searching'
<1>1. /\ At("out") /\ UNCHANGED <<host, cpu, call>> /\ hist'.calls = hist.calls
      /\ hist'.listed = hist.listed /\ hist'.names = hist.names /\ hist'.prog = hist.prog
  BY LeavesKeep, WhereLeaves DEF TypeInv
<1>2. At("out")' /\ ~At("work")' /\ ~At("enter")' /\ ~Served'
  BY <1>1 DEF At, Served
<1>3. Parts' /\ AtEnd' /\ InOrder'
  BY <1>1, <1>2 DEF Parts, AtEnd, Searching, InOrder
<1>4. tsr.token \in Nat /\ hist.calls \in Nat
  BY DEF TypeInv, TsrTyped, Tsr, HistTyped, Hist
<1>5. \/ dos'.dta = dos.dta /\ tsr'.token = tsr.token /\ tsr'.in = tsr.in
      \/ dos'.dta = dos.dta /\ tsr'.token = 0 /\ tsr'.in /\ ~tsr.in
      \/ (\A s \in Searches : dos'.dta[s] = NoDta) /\ tsr'.token = tsr.token /\ ~tsr'.in
  <2>1. dos \in Dos /\ tsr \in Tsr
    BY DEF TypeInv, DosTyped, TsrTyped
  <2>2. ASSUME NEW g \in Drives \cup {"Z"}, Load(g)
        PROVE  dos'.dta = dos.dta /\ tsr'.token = 0 /\ tsr'.in /\ ~tsr.in
    <3>1. ~Present /\ Install(g)
      BY <2>2 DEF Load
    <3>2. ~tsr.in
      BY <3>1 DEF Present, Chained, Resident
    <3> QED
      BY <2>1, <3>1, <3>2 DEF Install, Dos
  <2>3. CASE LoadFails
    BY <2>3 DEF LoadFails
  <2>4. CASE Unload
    <3>1. CASE UNCHANGED <<dos, tsr>>
      BY <3>1
    <3>2. CASE ~UNCHANGED <<dos, tsr>>
      <4>1. /\ dos' = [dos EXCEPT !.chain = tsr.prev, !.cds[tsr.drv] = "free", !.dta = [s \in Searches |-> NoDta]]
            /\ tsr' = [tsr EXCEPT !.in = FALSE]
        BY <2>4, <3>2 DEF Unload
      <4>2. dos'.dta = [s \in Searches |-> NoDta]
        BY <2>1, <4>1 DEF Dos
      <4>3. tsr'.token = tsr.token /\ ~tsr'.in
        BY <2>1, <4>1 DEF Tsr
      <4> QED
        BY <4>2, <4>3
    <3> QED
      BY <3>1, <3>2
  <2>5. CASE OtherHooks \/ OtherLeaves
    BY <2>1, <2>5 DEF OtherHooks, OtherLeaves, Dos
  <2> QED
    BY <2>2, <2>3, <2>4, <2>5 DEF Leaves, Loads
<1>6. Counted'
  BY <1>1, <1>2, <1>4, <1>5 DEF Searching, Counted
<1>7. CASE dos'.dta = dos.dta /\ tsr'.token = tsr.token /\ tsr'.in = tsr.in
  <2>1. OwnList' /\ Apart' /\ Active' = Active
    BY <1>1, <1>7, ListsKept
  <2> QED
    BY <1>2, <1>3, <1>6, <1>7, <2>1 DEF Searching, Loaded
<1>8. CASE Active' = {}
  BY <1>2, <1>3, <1>6, <1>8 DEF Searching, Loaded, OwnList, Apart
<1>9. CASE dos'.dta = dos.dta /\ tsr'.token = 0 /\ tsr'.in /\ ~tsr.in
  <2>1. Active' = {}
    BY <1>9 DEF Searching, Loaded, Active
  <2> QED
    BY <1>8, <2>1
<1>10. CASE \A s \in Searches : dos'.dta[s] = NoDta
  <2>1. Active' = {}
    BY <1>10 DEF Active, NoDta
  <2> QED
    BY <1>8, <2>1
<1> QED
  BY <1>5, <1>7, <1>9, <1>10

\* Every step keeps the searches.
LEMMA SearchingStep ==
  ASSUME TokensLast, TypeInv, Protocol, Handled, Fits, Chained, Moving, Searching, [Next]_vars
  PROVE  Searching'
<1>1. ASSUME NEW k \in hist.prog.calls, Begin(k)
      PROVE  Searching'
  BY <1>1, SearchBegins DEF Begin
<1>2. CASE Enter \/ Work
  BY <1>2, SearchEnters, SearchWorks
<1>3. CASE Answers
  <2>1. CASE Found
    BY <2>1, SearchFound
  <2>2. CASE ~Found
    <3>1. At("wait") /\ tsr.in
      BY <1>3, WhereAnswers DEF TypeInv, CpuTyped, Searching, Loaded, At
    <3> QED
      BY <1>3, <2>2, <3>1, OnlyFound, OthersKeep
  <2> QED
    BY <2>1, <2>2
<1>4. CASE HostServes
  BY <1>4, SearchServed
<1>5. CASE HostAnswers \/ UNCHANGED <<dos, tsr, box, host, cpu, call, ret, hist>>
  <2>1. UNCHANGED <<dos, tsr, host, cpu, call, ret, hist>> /\ box'.frame = box.frame
    BY <1>5 DEF HostAnswers, TypeInv, BoxTyped
  <2>2. Asking' = Asking /\ Served' = Served /\ R' = R /\ Good' = Good /\ \A pc : At(pc)' = At(pc)
    BY <2>1 DEF Asking, Served, At, R, Good
  <2>3. OwnList' /\ Apart' /\ InOrder' /\ Active' = Active /\ \A t : Fresh(t)' = Fresh(t)
    BY <2>1, ListsKept
  <2>4. Counted' /\ Loaded' /\ AtEnd'
    BY <2>1, <2>2, <2>3 DEF Searching, Counted, Loaded, AtEnd
  <2>5. ~At("out") /\ call.fn = "FINDFIRST" => FirstPart'
    <3>1. \A dir : Inside(dir)' = Inside(dir)
      BY <2>1, InsideSame
    <3> SUFFICES ASSUME ~At("out"), call.fn = "FINDFIRST"
                 PROVE  FirstPart'
      OBVIOUS
    <3>2. FirstPart
      BY DEF Searching, Parts
    <3>3. Fresh(box.frame.token)' = Fresh(box.frame.token) /\ Fresh(R.out[2])' = Fresh(R.out[2])
      BY <2>1, <2>2, <2>3 DEF Fresh
    <3> QED
      BY <2>1, <2>2, <2>3, <3>1, <3>2, <3>3 DEF FirstPart
  <2>6. ~At("out") /\ call.fn = "FINDNEXT" => NextPart'
    BY <2>1, <2>2, <2>3 DEF Searching, Parts, NextPart
  <2> QED
    BY <2>1, <2>2, <2>3, <2>4, <2>5, <2>6 DEF Searching, Parts
<1>6. CASE Leaves
  BY <1>6, SearchLeaves
<1> QED
  BY <1>1, <1>2, <1>3, <1>4, <1>5, <1>6, StepCases

\* Every step keeps SearchComplete.
LEMMA CompleteStep ==
  ASSUME TokensLast, TypeInv, Protocol, Handled, Fits, Chained, Moving, Searching, SearchComplete, [Next]_vars
  PROVE  SearchComplete'
<1>1. Searching'
  BY SearchingStep
<1> SUFFICES ASSUME Returned', call'.fn \in Finds, ret'.cf, hist'.done
             PROVE  hist'.listed[call'.d] = hist'.names[call'.d]
  BY <1>1 DEF SearchComplete, Searching, InOrder, Finds
<1>2. At("out")' /\ call'.fn \in Finds /\ ret'.cf /\ ret'.ours /\ hist'.done
  BY DEF Returned
<1>3. cpu \in Cpu
  BY DEF TypeInv, CpuTyped
<1>4. ASSUME NEW k \in hist.prog.calls, Begin(k)
      PROVE  FALSE
  BY <1>2, <1>3, <1>4 DEF Begin, At, Cpu
<1>5. CASE Enter
  BY <1>2, <1>3, <1>5, WhereEnter DEF At
<1>6. CASE Work
  BY <1>2, <1>3, <1>6, FindsGo, WhereWork DEF At
<1>7. CASE Answers
  <2>1. Found /\ UNCHANGED call
    BY <1>2, <1>7, OnlyFound
  <2>2. Served /\ ~At("out")
    BY <2>1, AnswerThere DEF Found, Served, At
  <2>3. ret' = Verdict
    BY <2>1 DEF Found, Return
  <2>4. UNCHANGED hist /\ Verdict.cf
    BY <1>2, <2>1, <2>3 DEF Found
  <2>5. R.len # 65535 /\ R.ax \in {0, 18} /\ (R.ax = 18 => hist.listed[call.d] = hist.names[call.d])
    BY <1>2, <2>1, <2>2, <2>4 DEF Searching, AtEnd
  <2>6. R.ax # 0
    <3>1. Good => R.len = 24
      BY <1>2, <2>1, <2>2 DEF Searching, Parts, FirstPart, NextPart, Finds
    <3>2. GoodLength[call.fn] = 24
      BY <1>2, <2>1, Lengths DEF Finds
    <3>3. Success.cf = FALSE
      BY DEF Success
    <3> QED
      BY <2>4, <2>5, <3>1, <3>2, <3>3 DEF Verdict, Good
  <2> QED
    BY <2>1, <2>4, <2>5, <2>6
<1>8. CASE HostServes \/ HostAnswers
  <2>1. At("wait") /\ UNCHANGED cpu
    <3>1. CASE HostServes
      BY <3>1, ServesTypes DEF HostServes, Asking
    <3>2. CASE HostAnswers
      BY <3>2 DEF HostAnswers, Protocol
    <3> QED
      BY <1>8, <3>1, <3>2
  <2> QED
    BY <1>2, <2>1 DEF At
<1>9. CASE Leaves \/ UNCHANGED <<dos, tsr, box, host, cpu, call, ret, hist>>
  <2>1. /\ UNCHANGED <<host, cpu, call, ret>> /\ hist'.calls = hist.calls /\ hist'.done = hist.done
        /\ hist'.listed = hist.listed /\ hist'.names = hist.names
    BY <1>9, LeavesKeep, WhereLeaves DEF TypeInv
  <2>2. Returned
    BY <1>2, <2>1 DEF Returned, At
  <2> QED
    BY <1>2, <2>1, <2>2 DEF SearchComplete, Finds
<1> QED
  BY <1>4, <1>5, <1>6, <1>7, <1>8, <1>9, StepCases

----------------------------------------------------------------------------
(* Theorems.                                                               *)

\* Nothing is under way at the start.
LEMMA InitInv == Init => IInv
<1> SUFFICES ASSUME Init PROVE IInv
  OBVIOUS
<1>1. TypeInv /\ Chained
  BY ChainedInit
<1>2. /\ box = [number |-> 0, ack |-> 0, frame |-> NoQuery] /\ cpu.pc = "out" /\ hist.calls = 0
      /\ \A h \in Handles : dos.sft[h] = NoSft
  BY DEF Init
<1>3. At("out") /\ ~At("wait") /\ ~At("work")
  BY <1>2 DEF At
<1>4. Protocol
  BY <1>2, <1>3 DEF Protocol, Mark
<1>5. Handled
  BY <1>2, <1>3 DEF Handled, Asking, NoSft
<1>6. Fits /\ Moving /\ Naming
  BY <1>3 DEF Fits, Served, Moving, Naming
<1>7. MovesFaithful /\ AnswersTrue
  BY <1>2 DEF MovesFaithful, OnFile, AnswersTrue, Returned
<1> QED
  BY <1>1, <1>4, <1>5, <1>6, <1>7 DEF IInv

\* Every part is kept by every step.
LEMMA StepInv == IInv /\ [Next]_vars => IInv'
<1> SUFFICES ASSUME IInv, [Next]_vars PROVE IInv'
  OBVIOUS
<1>1. /\ TypeInv /\ Protocol /\ Handled /\ Fits /\ Chained
      /\ Moving /\ MovesFaithful /\ Naming /\ AnswersTrue
  BY DEF IInv
<1>2. TypeInv' /\ Protocol' /\ Handled' /\ Fits' /\ Chained'
  BY <1>1, TypeStep, ProtocolStep, HandledStep, FitsStep, ChainedStep
<1>3. Moving' /\ MovesFaithful'
  BY <1>1, MovingStep, MovesStep
<1>4. Naming' /\ AnswersTrue'
  BY <1>1, NamingStep, AnswersStep
<1> QED
  BY <1>2, <1>3, <1>4 DEF IInv

\* The invariant that the others follow from: the types; the number and the
\* acknowledge in the shared memory say where a request is; the handles that are
\* open are the host's; an answer holds what its length promises; where the
\* program stands in the chain of INT 2Fh; and how far a read, a write or a call
\* on names has come, against the folder and the handles as they were when it
\* was made.
THEOREM Invariant == Spec => []IInv
<1> QED
  BY InitInv, StepInv, PTL DEF Spec

\* Whatever programs hook INT 2Fh, before this one is loaded, over it and after
\* it is gone, the resident program is in the chain at most once, exactly while
\* it is loaded and its drive is mapped, and leaves the others as they were.
THEOREM AlwaysResident == Spec => []Resident
<1>1. IInv => Resident
  BY DEF IInv, Chained
<1> QED
  BY <1>1, Invariant, PTL

\* A read gives the caller what the file holds and a write leaves in the file
\* what the caller gave, for files and calls of any length against chunks of any
\* length, and the handle's position tells how much, also where the host refuses
\* or stops in the middle.
THEOREM TransfersFaithful == Spec => []MovesFaithful
<1>1. IInv => MovesFaithful
  BY DEF IInv
<1> QED
  BY <1>1, Invariant, PTL

\* A call on names that says it succeeded has done to the folder what it was
\* asked for, and one that says it failed has left the folder as it was.
THEOREM VerdictsTrue == Spec => []AnswersTrue
<1>1. IInv => AnswersTrue
  BY DEF IInv
<1> QED
  BY <1>1, Invariant, PTL

\* No search is under way at the start.
LEMMA InitSearching == Init => Searching /\ SearchComplete
<1> SUFFICES ASSUME Init PROVE Searching /\ SearchComplete
  OBVIOUS
<1>1. TypeInv
  BY TypeInit
<1>2. /\ cpu.pc = "out" /\ hist.calls = 0 /\ tsr.token = 0
      /\ \A s \in Searches : dos.dta[s] = NoDta /\ hist.listed[s] = <<>> /\ hist.names[s] = <<>>
  <2>1. cpu.pc = "out" /\ hist.calls = 0 /\ tsr.token = 0 /\ dos.dta = [s \in Searches |-> NoDta]
    BY DEF Init
  <2>2. hist.listed = [s \in Searches |-> <<>>] /\ hist.names = [s \in Searches |-> <<>>]
    BY DEF Init
  <2> QED
    BY <2>1, <2>2
<1>3. At("out") /\ ~At("wait") /\ ~At("work") /\ ~At("enter")
  BY <1>2 DEF At
<1>4. Active = {}
  BY <1>2 DEF Active, NoDta
<1>5. Counted
  <2>1. hist.prog \in Programs
    BY <1>1 DEF TypeInv, HistTyped, Hist
  <2>2. hist.prog.most \in Nat
    BY <2>1, ProgramsAssumption
  <2> QED
    BY <1>2, <1>3, <2>2 DEF Counted
<1>6. Loaded /\ OwnList /\ Apart
  BY <1>3, <1>4 DEF Loaded, OwnList, Apart
<1>7. InOrder
  <2>0. <<>> \in Seq(STRING)
    OBVIOUS
  <2>1. IsPrefix(<<>>, <<>>)
    BY <2>0, PrefixNone
  <2> QED
    BY <1>2, <2>1 DEF InOrder
<1>8. Parts /\ AtEnd
  BY <1>3 DEF Parts, AtEnd, Served
<1>9. SearchComplete
  BY <1>2, <1>7 DEF SearchComplete, InOrder, Returned
<1> QED
  BY <1>5, <1>6, <1>7, <1>8, <1>9 DEF Searching

\* While the programs make fewer calls than there are tokens, a search that
\* takes turns with another lists its own directory, in the host's order and
\* without a name lost or twice, and is told that there is no more at its end only.
THEOREM SearchesComplete ==
  ASSUME TokensLast
  PROVE  Spec => []SearchComplete
<1>1. Init => IInv /\ Searching /\ SearchComplete
  BY InitInv, InitSearching
<1>2. IInv /\ Searching /\ SearchComplete /\ [Next]_vars => (IInv /\ Searching /\ SearchComplete)'
  BY TokensLast, StepInv, SearchingStep, CompleteStep DEF IInv
<1> QED
  BY <1>1, <1>2, PTL DEF Spec

=============================================================================
