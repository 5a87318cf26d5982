-------------------------- MODULE BiosInputProofs --------------------------
(***************************************************************************)
(* Proofs about the input services, for any number of slots in the BIOS    *)
(* keyboard buffer, any keys and any services called: the buffer is the    *)
(* queue of what was typed and not yet read, and taking a key is atomic    *)
(* for the keyboard's interrupt.                                           *)
(***************************************************************************)
EXTENDS BiosInput, SequenceTheorems, TLAPS

USE InputAssumption

----------------------------------------------------------------------------
(* What the variables hold.                                                *)

Slot    == 0 .. Slots - 1
Octet   == 0 .. 255
Shifts  == {"lshift", "rshift", "ctrl", "alt", "scroll", "num", "caps"}
Flags   == {"lctrl", "lalt", "scroll", "num", "caps"}
States  == {"e0", "e1", "rctrl", "ralt", "mf101"}
Columns == {"break", "stored", "alt", "control", "extended", "normal", "shift"}
Keystroke == (0 .. 127) \X Columns

DataArea == [shift : SUBSET Shifts, flags : SUBSET Flags, state : SUBSET States,
             led : SUBSET Shifts, brk : BOOLEAN, head : Slot, tail : Slot,
             buf : [Slot -> Keystroke]]

\* The bytes on the wires, and the 8042: what its output buffer shows is at
\* the head of a queue.
Wire == [b : Octet, tag : {"code", "move", "key", "mouse", "reply"}]
Controller ==
  [out : {"none", "key", "mouse"}, kq : Seq(Wire), mq : Seq(Wire), irqKey : BOOLEAN,
   irqMouse : BOOLEAN, keyOff : BOOLEAN, mouseOff : BOOLEAN, mouseOffSeen : BOOLEAN,
   translate : BOOLEAN, in : [to : {"none", "key", "mouse"}, b : Octet]]
Showing(c) == (c.out = "key" => c.kq # <<>>) /\ (c.out = "mouse" => c.mq # <<>>)

Wired(c) == c \in Controller /\ Showing(c)

PicLines == [high : SUBSET {1, 12}, irr : SUBSET {1, 12}, isr : SUBSET {1, 12}]

Calls16 == {"read", "check", "store", "id"}
Steps   == {"ask", "inhibit", "enable", "send", "get", "acked", "restore"}
Processor ==
  [pc : {"run", "wait", "leds", "lamps", "lit", "read", "take", "check", "store", "stored",
         "id", "poll", "service"},
   fn : {"none"} \cup Calls16 \cup Services, if : BOOLEAN, sti : BOOLEAN, steps : Seq(Steps),
   slot : Int, got : Keystroke \cup Octet, prev : Octet, led : SUBSET Shifts,
   on9 : {"off", "work"}, on74 : {"off", "read", "call"}, key : Octet]

Readers == {"int09", "identity", "int74", "lamps", "service", "command"}
History ==
  [keys : Nat, moves : Nat, calls : Nat, queue : Seq(Keystroke),
   raced : SUBSET {"lamps", "read", "store"}, first : {"none"} \cup Readers,
   packet : {<<>>} \cup [0 .. 2 -> Octet]]

Known(d) == d \in DataArea /\ "mf101" \in d.state

TypeInv ==
  /\ Wired(ctl)
  /\ line \in PicLines
  /\ kbd \in [held : SUBSET Keys, rest : Seq(Octet)]
  /\ mouse \in [on : BOOLEAN, pos : 0 .. 2]
  /\ Known(bda)
  /\ ebda \in [hooked : BOOLEAN, count : {0, 2}, index : 0 .. 2, data : [0 .. 2 -> Octet]]
  /\ cpu \in Processor
  /\ hist \in History

----------------------------------------------------------------------------
(* The rest of the inductive invariant.                                    *)

\* An interrupt is asked for only while the device's byte is shown.
Requests == /\ 1 \in line.irr => ctl.out = "key"
            /\ 12 \in line.irr => ctl.out = "mouse"

\* Only INT 16h minds the lamps.
Minding == cpu.pc \in {"wait", "leds", "lamps", "lit"} => cpu.fn \in Calls16

\* A key being taken is still at the head; the slot a key is being stored in
\* leaves room before the head.
Holding == /\ cpu.pc = "take" => cpu.slot = bda.head
           /\ cpu.pc = "stored" => cpu.slot \in Slot /\ NextSlot(cpu.slot) # bda.head

\* From the end of the wait to the taking of the key no interrupt comes,
\* unless the lamps turned them on.
TakingKey == (cpu.pc = "leds" /\ cpu.fn = "read") \/ cpu.pc \in {"read", "take"}
Closed ==
  /\ TakingKey /\ ~cpu.sti => ~cpu.if /\ cpu.on9 = "off" /\ cpu.on74 = "off" /\ bda.head # bda.tail
  /\ cpu.pc = "take" /\ ~cpu.sti => cpu.got = bda.buf[bda.head]

IInv == TypeInv /\ Requests /\ Minding /\ Holding /\ Closed /\ BufferIsQueue /\ ReadIsAtomic

----------------------------------------------------------------------------
(* The ring.                                                               *)

LEMMA Division ==
  ASSUME NEW n \in Nat \ {0}, NEW q \in Int, NEW r \in 0 .. n - 1
  PROVE  (q * n + r) % n = r
OBVIOUS

\* A number that went round the ring at most once.
LEMMA Around ==
  ASSUME NEW x \in 0 .. 2 * Slots - 1
  PROVE  x % Slots = IF x < Slots THEN x ELSE x - Slots
<1>1. CASE x < Slots
  <2>1. (0 * Slots + x) % Slots = x
    BY <1>1, Division
  <2> QED
    BY <1>1, <2>1
<1>2. CASE ~(x < Slots)
  <2>1. x - Slots \in 0 .. Slots - 1
    BY <1>2
  <2>2. (1 * Slots + (x - Slots)) % Slots = x - Slots
    BY <2>1, Division
  <2>3. 1 * Slots + (x - Slots) = x
    OBVIOUS
  <2> QED
    BY <1>2, <2>2, <2>3
<1> QED
  BY <1>1, <1>2

LEMMA NextOfSlot ==
  ASSUME NEW i \in Slot
  PROVE  NextSlot(i) = (IF i = Slots - 1 THEN 0 ELSE i + 1) /\ NextSlot(i) \in Slot
<1>1. i + 1 \in 0 .. 2 * Slots - 1
  BY DEF Slot
<1> QED
  BY <1>1, Around DEF NextSlot, Slot

\* The number of keys in a ring with this head and tail, and where key i is.
Depth(h, t) == IF t < h THEN t + Slots - h ELSE t - h
Place(h, i) == IF h + i - 1 < Slots THEN h + i - 1 ELSE h + i - 1 - Slots

LEMMA DepthBounds ==
  ASSUME NEW h \in Slot, NEW t \in Slot
  PROVE  Depth(h, t) \in Slot /\ Depth(h, t) \in Nat /\ (t - h + Slots) % Slots = Depth(h, t)
<1>1. Depth(h, t) \in Slot
  BY DEF Depth, Slot
<1> DEFINE x == t - h + Slots
<1>2. x \in 0 .. 2 * Slots - 1
  BY DEF Slot
<1>3. x % Slots = IF x < Slots THEN x ELSE x - Slots
  BY <1>2, Around
<1> QED
  BY <1>1, <1>3 DEF Depth, Slot

LEMMA PlaceBounds ==
  ASSUME NEW h \in Slot, NEW i \in 1 .. Slots
  PROVE  Place(h, i) \in Slot /\ (h + i - 1) % Slots = Place(h, i)
<1> DEFINE x == h + i - 1
<1>1. x \in 0 .. 2 * Slots - 1
  BY DEF Slot
<1>2. x % Slots = IF x < Slots THEN x ELSE x - Slots
  BY <1>1, Around
<1>3. Place(h, i) = IF x < Slots THEN x ELSE x - Slots
  BY DEF Place, Slot
<1>4. Place(h, i) \in Slot
  BY DEF Place, Slot
<1> QED
  BY <1>2, <1>3, <1>4

\* Storing a key moves the tail and none of the keys before it.
LEMMA DepthUp ==
  ASSUME NEW h \in Slot, NEW t \in Slot, NextSlot(t) # h
  PROVE  /\ Depth(h, NextSlot(t)) = Depth(h, t) + 1
         /\ Place(h, Depth(h, t) + 1) = t
         /\ \A i \in 1 .. Depth(h, t) : Place(h, i) # t
<1>1. NextSlot(t) = IF t = Slots - 1 THEN 0 ELSE t + 1
  BY NextOfSlot
<1>2. Depth(h, NextSlot(t)) = Depth(h, t) + 1
  BY <1>1 DEF Depth, Slot
<1>3. Place(h, Depth(h, t) + 1) = t
  BY DEF Depth, Place, Slot
<1>4. \A i \in 1 .. Depth(h, t) : Place(h, i) # t
  BY DEF Depth, Place, Slot
<1> QED
  BY <1>2, <1>3, <1>4

\* Taking a key moves every other one place forward.
LEMMA DepthDown ==
  ASSUME NEW h \in Slot, NEW t \in Slot, h # t
  PROVE  /\ Depth(NextSlot(h), t) = Depth(h, t) - 1 /\ Depth(h, t) > 0
         /\ Place(h, 1) = h
         /\ \A i \in 1 .. Slots : Place(NextSlot(h), i) = Place(h, i + 1)
<1>1. NextSlot(h) = IF h = Slots - 1 THEN 0 ELSE h + 1
  BY NextOfSlot
<1>2. Depth(NextSlot(h), t) = Depth(h, t) - 1 /\ Depth(h, t) > 0
  BY <1>1 DEF Depth, Slot
<1>3. Place(h, 1) = h
  BY DEF Place, Slot
<1>4. ASSUME NEW i \in 1 .. Slots PROVE Place(NextSlot(h), i) = Place(h, i + 1)
  <2>1. CASE h = Slots - 1
    <3>1. Place(0, i) = Place(h, i + 1)
      BY <2>1 DEF Place, Slot
    <3> QED
      BY <1>1, <2>1, <3>1
  <2>2. CASE h # Slots - 1
    <3>1. Place(h + 1, i) = Place(h, i + 1)
      BY DEF Place, Slot
    <3> QED
      BY <1>1, <2>2, <3>1
  <2> QED
    BY <2>1, <2>2
<1> QED
  BY <1>2, <1>3, <1>4

\* The keys of a ring, oldest first.
RingOf(h, t, buf) == [i \in 1 .. ((t - h + Slots) % Slots) |-> buf[(h + i - 1) % Slots]]

LEMMA ContentsOf ==
  ASSUME NEW d
  PROVE  Contents(d) = RingOf(d.head, d.tail, d.buf)
BY DEF Contents, RingOf

\* The contents are a sequence of the keys in their places.
LEMMA RingSeq ==
  ASSUME NEW h \in Slot, NEW t \in Slot, NEW buf \in [Slot -> Keystroke]
  PROVE  /\ RingOf(h, t, buf) \in Seq(Keystroke) /\ Len(RingOf(h, t, buf)) = Depth(h, t)
         /\ \A i \in 1 .. Depth(h, t) : RingOf(h, t, buf)[i] = buf[Place(h, i)]
<1> DEFINE n == Depth(h, t)
<1>1. n \in Nat /\ n \in Slot /\ (t - h + Slots) % Slots = n
  BY DepthBounds
<1>2. RingOf(h, t, buf) = [i \in 1 .. n |-> buf[(h + i - 1) % Slots]]
  BY <1>1 DEF RingOf
<1> HIDE DEF n
<1>3. ASSUME NEW i \in 1 .. n PROVE (h + i - 1) % Slots = Place(h, i) /\ Place(h, i) \in Slot
  <2>1. i \in 1 .. Slots
    BY <1>1 DEF Slot
  <2> QED
    BY <2>1, PlaceBounds
<1> DEFINE q == [i \in 1 .. n |-> buf[Place(h, i)]]
<1>4. RingOf(h, t, buf) = q
  BY <1>2, <1>3
<1>5. \A i \in 1 .. n : buf[Place(h, i)] \in Keystroke
  BY <1>3
<1>6. q \in Seq(Keystroke) /\ Len(q) = n
  BY <1>1, <1>5
<1> QED
  BY <1>4, <1>6 DEF n

LEMMA RingAt ==
  ASSUME NEW h \in Slot, NEW t \in Slot, NEW buf \in [Slot -> Keystroke], NEW i \in 1 .. Depth(h, t)
  PROVE  RingOf(h, t, buf)[i] = buf[Place(h, i)]
BY RingSeq

\* A key written at the tail of a ring that is not full comes last.
LEMMA RingAppend ==
  ASSUME NEW h \in Slot, NEW t \in Slot, NEW buf \in [Slot -> Keystroke],
         NEW key \in Keystroke, NextSlot(t) # h
  PROVE  RingOf(h, NextSlot(t), [buf EXCEPT ![t] = key]) = Append(RingOf(h, t, buf), key)
<1> DEFINE n == Depth(h, t)
           after == [buf EXCEPT ![t] = key]
           q == RingOf(h, t, buf)
           r == RingOf(h, NextSlot(t), after)
<1>1. n \in Nat /\ n \in Slot
  BY DepthBounds
<1>2. /\ Depth(h, NextSlot(t)) = n + 1 /\ Place(h, n + 1) = t /\ NextSlot(t) \in Slot
      /\ \A i \in 1 .. n : Place(h, i) # t
  BY DepthUp, NextOfSlot
<1> HIDE DEF n
<1>9. ASSUME NEW i \in 1 .. n PROVE Place(h, i) \in Slot
  <2>1. i \in 1 .. Slots
    BY <1>1 DEF Slot
  <2> QED
    BY <2>1, PlaceBounds
<1>3. after \in [Slot -> Keystroke] /\ after[t] = key /\ \A x \in Slot : x # t => after[x] = buf[x]
  OBVIOUS
<1>4. q \in Seq(Keystroke) /\ Len(q) = n /\ \A i \in 1 .. n : q[i] = buf[Place(h, i)]
  BY RingSeq DEF n
<1> HIDE DEF q, r, after
<1>5. r \in Seq(Keystroke) /\ Len(r) = n + 1 /\ \A i \in 1 .. n + 1 : r[i] = after[Place(h, i)]
  <2> DEFINE u == NextSlot(t)
  <2>1. u \in Slot /\ Depth(h, u) = n + 1
    BY <1>2
  <2>2. r = RingOf(h, u, after)
    BY DEF r
  <2> HIDE DEF u
  <2> QED
    <3>1. /\ RingOf(h, u, after) \in Seq(Keystroke) /\ Len(RingOf(h, u, after)) = Depth(h, u)
          /\ \A i \in 1 .. Depth(h, u) : RingOf(h, u, after)[i] = after[Place(h, i)]
      BY <1>3, <2>1, RingSeq
    <3> QED
      BY <2>1, <2>2, <3>1
<1>6. /\ Append(q, key) \in Seq(Keystroke) /\ Len(Append(q, key)) = n + 1
      /\ \A i \in 1 .. n : Append(q, key)[i] = q[i]
      /\ Append(q, key)[n + 1] = key
  BY <1>4, AppendProperties
<1>7. ASSUME NEW i \in 1 .. n + 1 PROVE r[i] = Append(q, key)[i]
  <2>1. CASE i = n + 1
    BY <1>2, <1>3, <1>5, <1>6, <2>1
  <2>2. CASE i # n + 1
    <3>1. i \in 1 .. n
      BY <1>1, <2>2
    <3> QED
      BY <1>2, <1>3, <1>4, <1>5, <1>6, <1>9, <3>1
  <2> QED
    BY <2>1, <2>2
<1>8. r = Append(q, key)
  BY <1>1, <1>5, <1>6, <1>7, SeqEqual
<1> QED
  BY <1>8 DEF q, r, after

\* Moving the head of a ring that is not empty drops the first key.
LEMMA RingTail ==
  ASSUME NEW h \in Slot, NEW t \in Slot, NEW buf \in [Slot -> Keystroke], h # t
  PROVE  /\ RingOf(h, t, buf) # <<>> /\ Head(RingOf(h, t, buf)) = buf[h]
         /\ RingOf(NextSlot(h), t, buf) = Tail(RingOf(h, t, buf))
<1> DEFINE n == Depth(h, t)
           q == RingOf(h, t, buf)
           r == RingOf(NextSlot(h), t, buf)
<1>1. n \in Nat \ {0} /\ n \in Slot
  BY DepthBounds, DepthDown
<1>2. /\ Depth(NextSlot(h), t) = n - 1 /\ Place(h, 1) = h /\ NextSlot(h) \in Slot
      /\ \A i \in 1 .. Slots : Place(NextSlot(h), i) = Place(h, i + 1)
  BY DepthDown, NextOfSlot
<1>3. q \in Seq(Keystroke) /\ Len(q) = n /\ \A i \in 1 .. n : q[i] = buf[Place(h, i)]
  BY RingSeq
<1>4. /\ r \in Seq(Keystroke) /\ Len(r) = n - 1
      /\ \A i \in 1 .. n - 1 : r[i] = buf[Place(NextSlot(h), i)]
  <2> DEFINE u == NextSlot(h)
  <2>1. u \in Slot /\ Depth(u, t) = n - 1 /\ r = RingOf(u, t, buf)
    BY <1>2
  <2> HIDE DEF u
  <2>3. /\ RingOf(u, t, buf) \in Seq(Keystroke) /\ Len(RingOf(u, t, buf)) = Depth(u, t)
        /\ \A i \in 1 .. Depth(u, t) : RingOf(u, t, buf)[i] = buf[Place(u, i)]
    BY <2>1, RingSeq
  <2>2. /\ r \in Seq(Keystroke) /\ Len(r) = Depth(u, t)
        /\ \A i \in 1 .. Depth(u, t) : r[i] = buf[Place(u, i)]
    BY <2>1, <2>3
  <2> QED
    BY <2>1, <2>2 DEF u
<1> HIDE DEF n, q, r
<1>5. q # <<>> /\ Head(q) = buf[h]
  BY <1>1, <1>2, <1>3
<1>6. /\ Tail(q) \in Seq(Keystroke) /\ Len(Tail(q)) = n - 1
      /\ \A i \in 1 .. n - 1 : Tail(q)[i] = q[i + 1]
  BY <1>3, <1>5, HeadTailProperties
<1>7. ASSUME NEW i \in 1 .. n - 1 PROVE r[i] = Tail(q)[i]
  <2>1. i \in 1 .. Slots /\ i + 1 \in 1 .. n
    BY <1>1 DEF Slot
  <2> QED
    BY <1>2, <1>3, <1>4, <1>6, <2>1
<1>8. r = Tail(q)
  BY <1>1, <1>4, <1>6, <1>7, SeqEqual
<1> QED
  BY <1>5, <1>8 DEF q, r

----------------------------------------------------------------------------
(* INT 09h and the ring.                                                   *)

\* A key goes to the tail of the ring, or nowhere when the ring is full.
LEMMA EnqueueRing ==
  ASSUME NEW d \in DataArea, NEW key \in Keystroke
  PROVE  /\ Enqueue(d, key) \in DataArea /\ Enqueue(d, key).head = d.head
         /\ "mf101" \in Enqueue(d, key).state <=> "mf101" \in d.state
         /\ \/ /\ Enqueue(d, key).tail = d.tail /\ Enqueue(d, key).buf = d.buf
            \/ /\ NextSlot(d.tail) # d.head /\ Enqueue(d, key).tail = NextSlot(d.tail)
               /\ Enqueue(d, key).buf = [d.buf EXCEPT ![d.tail] = key]
<1>1. d.head \in Slot /\ d.tail \in Slot /\ d.buf \in [Slot -> Keystroke] /\ NextSlot(d.tail) \in Slot
  BY NextOfSlot DEF DataArea
<1>2. CASE NextSlot(d.tail) = d.head
  BY <1>2 DEF Enqueue
<1>3. CASE NextSlot(d.tail) # d.head
  <2> DEFINE u == NextSlot(d.tail)
             e == [d EXCEPT !.buf = [d.buf EXCEPT ![d.tail] = key], !.tail = u]
  <2> HIDE DEF u
  <2>1. Enqueue(d, key) = e
    BY <1>3 DEF Enqueue, u
  <2>2. e \in DataArea /\ e.head = d.head /\ e.tail = u /\ e.state = d.state
    BY <1>1 DEF DataArea, u
  <2>3. e.buf = [d.buf EXCEPT ![d.tail] = key]
    BY DEF DataArea
  <2> QED
    BY <1>3, <2>1, <2>2, <2>3 DEF u
<1> QED
  BY <1>2, <1>3

\* What INT 09h may do to the data area: nothing to the ring, ...
Kept(d, e) == /\ e \in DataArea /\ "mf101" \in e.state
              /\ e.head = d.head /\ e.tail = d.tail /\ e.buf = d.buf
\* ... or one more key at its tail, ...
Stored(d, e, key) ==
  /\ e \in DataArea /\ "mf101" \in e.state /\ key \in Keystroke
  /\ NextSlot(d.tail) # d.head
  /\ e.head = d.head /\ e.tail = NextSlot(d.tail) /\ e.buf = [d.buf EXCEPT ![d.tail] = key]
\* ... or the null key of a Ctrl-Break alone.
Broken(d, e) ==
  /\ e \in DataArea /\ "mf101" \in e.state
  /\ e.head = d.head /\ e.tail = NextSlot(d.head) /\ e.buf = [d.buf EXCEPT ![d.head] = BreakKey]
LEMMA FlagsKept ==
  ASSUME NEW d, Known(d), NEW down \in BOOLEAN
  PROVE  /\ \A key \in Flags : Kept(d, Held(d, down, key))
         /\ \A key \in Flags \cap Shifts :
              Kept(d, [Held(d, down, key) EXCEPT !.shift = IF down THEN Flip(@, key) ELSE @])
         /\ \A x \in Shifts : Kept(d, [d EXCEPT !.shift = IF down THEN @ \cup {x} ELSE @ \ {x}])
<1> USE DEF Known, Kept
<1>1. ASSUME NEW key \in Flags PROVE Kept(d, Held(d, down, key))
  BY DEF Held, DataArea
<1>2. ASSUME NEW key \in Flags \cap Shifts
      PROVE  Kept(d, [Held(d, down, key) EXCEPT !.shift = IF down THEN Flip(@, key) ELSE @])
  <2> DEFINE h == Held(d, down, key)
  <2>1. h \in DataArea /\ "mf101" \in h.state /\ h.head = d.head /\ h.tail = d.tail /\ h.buf = d.buf
    BY <1>1
  <2> HIDE DEF h
  <2>2. Flip(h.shift, key) \in SUBSET Shifts /\ h.shift \in SUBSET Shifts
    BY <2>1 DEF Flip, DataArea
  <2> DEFINE s == IF down THEN Flip(h.shift, key) ELSE h.shift
  <2>3. s \in SUBSET Shifts
    BY <2>2
  <2> HIDE DEF s
  <2>4. Kept(d, [h EXCEPT !.shift = s])
    BY <2>1, <2>3 DEF DataArea
  <2> QED
    BY <2>4 DEF h, s
<1>3. ASSUME NEW x \in Shifts
      PROVE  Kept(d, [d EXCEPT !.shift = IF down THEN @ \cup {x} ELSE @ \ {x}])
  <2> DEFINE s == IF down THEN d.shift \cup {x} ELSE d.shift \ {x}
  <2>1. s \in SUBSET Shifts
    BY DEF DataArea
  <2> HIDE DEF s
  <2>2. Kept(d, [d EXCEPT !.shift = s])
    BY <2>1 DEF DataArea
  <2> QED
    BY <2>2 DEF s
<1> QED
  BY <1>1, <1>2, <1>3

LEMMA ModifierKept ==
  ASSUME NEW d, Known(d), NEW down \in BOOLEAN
  PROVE  /\ Kept(d, Modifier(d, down, "ctrl", "rctrl", "lctrl"))
         /\ Kept(d, Modifier(d, down, "alt", "ralt", "lalt"))
<1>1. ASSUME NEW flag \in Shifts, NEW right \in States \ {"mf101"}, NEW left \in Flags
      PROVE  Kept(d, Modifier(d, down, flag, right, left))
  <2> DEFINE side(t, x) == IF down THEN t \cup {x} ELSE t \ {x}
             shift == side(d.shift, flag)
             state == side(d.state, right)
             flags == side(d.flags, left)
  <2>1. /\ shift \in SUBSET Shifts /\ flags \in SUBSET Flags
        /\ state \in SUBSET States /\ "mf101" \in state
    BY DEF Known, DataArea
  <2>2. Modifier(d, down, flag, right, left)
          = IF "e0" \in d.state THEN [d EXCEPT !.shift = shift, !.state = state]
            ELSE [d EXCEPT !.shift = shift, !.flags = flags]
    BY DEF Modifier
  <2> HIDE DEF shift, state, flags
  <2>3. /\ Kept(d, [d EXCEPT !.shift = shift, !.state = state])
        /\ Kept(d, [d EXCEPT !.shift = shift, !.flags = flags])
    BY <2>1, ZenonT(30) DEF Known, Kept, DataArea
  <2> QED
    BY <2>2, <2>3
<1> QED
  BY <1>1 DEF Shifts, States, Flags

\* Forgetting the prefixes is nothing to the ring.
LEMMA ForgetKept ==
  ASSUME NEW d, Known(d), NEW code
  PROVE  Kept(d, Forget(d, code))
<1> DEFINE t == (d.state \ {"e0"}) \ (IF code % 128 = 29 THEN {} ELSE {"e1"})
<1>1. t \in SUBSET States /\ "mf101" \in t
  BY DEF Known, DataArea, States
<1>2. Forget(d, code) = [d EXCEPT !.state = t]
  BY DEF Forget
<1> HIDE DEF t
<1> QED
  BY <1>1, <1>2 DEF Known, Kept, DataArea

LEMMA KeptThen ==
  ASSUME NEW d, NEW e, NEW f, Kept(e, f)
  PROVE  /\ Kept(d, e) => Kept(d, f)
         /\ \A key : Stored(d, e, key) => Stored(d, f, key)
BY DEF Kept, Stored

\* An ordinary key is stored under the column that the flags select.
LEMMA OrdinaryRing ==
  ASSUME NEW d, Known(d), NEW code \in 0 .. 127
  PROVE  Kept(d, Ordinary(d, code)) \/ \E key \in Keystroke : Stored(d, Ordinary(d, code), key)
<1> DEFINE col == Column(d, code)
           key == <<code, col>>
           e == Enqueue(d, key)
<1>1. col \in Columns
  BY DEF Column, Columns
<1>2. key \in Keystroke
  BY <1>1 DEF Keystroke
<1>3. CASE code > 88 \/ code \in Missing(col)
  <2>1. Ordinary(d, code) = d
    BY <1>3 DEF Ordinary
  <2> QED
    BY <2>1 DEF Kept, Known
<1>4. CASE ~(code > 88 \/ code \in Missing(col))
  <2>1. Ordinary(d, code) = Forget(e, code)
    BY <1>4 DEF Ordinary
  <2> HIDE DEF key
  <2>2. Known(e) /\ (Kept(d, e) \/ Stored(d, e, key))
    BY <1>2, EnqueueRing DEF Known, Kept, Stored
  <2> HIDE DEF e
  <2>3. Kept(e, Forget(e, code))
    BY <2>2, ForgetKept
  <2> QED
    BY <1>2, <2>1, <2>2, <2>3, KeptThen
<1> QED
  BY <1>3, <1>4

\* Ctrl-Break leaves one key, the null one, whatever the ring held.
LEMMA CtrlBreakRing ==
  ASSUME NEW d, Known(d)
  PROVE  Broken(d, CtrlBreak(d))
<1> DEFINE s == d.state \ {"e0"}
           c == [d EXCEPT !.state = s, !.brk = TRUE, !.tail = d.head]
<1>1. CtrlBreak(d) = Enqueue(c, BreakKey)
  BY DEF CtrlBreak
<1>2. s \in SUBSET States /\ "mf101" \in s /\ d.head \in Slot
  BY DEF Known, DataArea
<1> HIDE DEF s
<1>3. /\ c \in DataArea /\ "mf101" \in c.state
      /\ c.head = d.head /\ c.tail = d.head /\ c.buf = d.buf
  BY <1>2 DEF Known, DataArea
<1>4. NextSlot(d.head) # d.head
  BY <1>2, NextOfSlot DEF Slot
<1>5. BreakKey \in Keystroke
  BY DEF BreakKey, Keystroke, Columns
<1> HIDE DEF c
<1> DEFINE e == Enqueue(c, BreakKey)
<1>6. /\ e \in DataArea /\ "mf101" \in e.state /\ e.head = c.head
      /\ e.tail = NextSlot(c.tail) /\ e.buf = [c.buf EXCEPT ![c.tail] = BreakKey]
  BY <1>3, <1>4, <1>5, EnqueueRing DEF Enqueue, DataArea
<1> QED
  BY <1>1, <1>3, <1>6 DEF Broken

\* INT 09h as a whole.
Heard(d, byte, e) ==
  IF byte = 70 /\ "e0" \in d.state THEN Broken(d, e)
  ELSE Kept(d, e) \/ \E key \in Keystroke : Stored(d, e, key)

LEMMA Int09Ring ==
  ASSUME NEW d, Known(d), NEW byte \in Octet
  PROVE  Heard(d, byte, int09_function(d, byte))
<1> DEFINE down == byte < 128
           code == byte % 128
           break == "e0" \in d.state \/ ("mf101" \notin d.state /\ "ctrl" \in d.shift)
           numlock == d.state \cap {"e0", "e1"} = {}
           toggled(key) == [Held(d, down, key) EXCEPT !.shift = IF down THEN Flip(@, key) ELSE @]
           sided == [d EXCEPT !.shift = IF down THEN @ \cup {ShiftSide[code]}
                                        ELSE @ \ {ShiftSide[code]}]
           f == int09_function(d, byte)
<1>1. /\ code \in 0 .. 127 /\ (byte = 0 => code = 0) /\ down \in BOOLEAN
      /\ byte = 70 <=> code = 70 /\ down
  BY DEF Octet
<1>2. break <=> "e0" \in d.state
  BY DEF Known
<1>3. Kept(d, d)
  BY DEF Kept, Known
<1>4. \A e, c : Kept(d, e) => Kept(d, Forget(e, c))
  <2> TAKE e, c
  <2> HAVE Kept(d, e)
  <2>1. Known(e)
    BY DEF Known, Kept
  <2> QED
    BY <2>1, ForgetKept, KeptThen
<1>5. Kept(d, toggled("caps")) /\ Kept(d, toggled("num")) /\ Kept(d, toggled("scroll"))
  <2> HIDE DEF down, code
  <2>1. \A key \in Flags \cap Shifts : Kept(d, toggled(key))
    BY <1>1, FlagsKept
  <2> HIDE DEF toggled
  <2> QED
    BY <2>1 DEF Flags, Shifts
<1>6. DOMAIN ShiftSide = {42, 54} /\ \A c \in {42, 54} : ShiftSide[c] \in Shifts
  BY DEF ShiftSide, Shifts
<1>7. code \in {42, 54} => Kept(d, sided)
  <2> HIDE DEF down, code
  <2> SUFFICES ASSUME code \in {42, 54} PROVE Kept(d, sided)
    OBVIOUS
  <2> DEFINE x == ShiftSide[code]
  <2>1. x \in Shifts
    BY <1>6
  <2> HIDE DEF x
  <2>2. Kept(d, [d EXCEPT !.shift = IF down THEN @ \cup {x} ELSE @ \ {x}])
    BY <1>1, <2>1, FlagsKept
  <2> QED
    BY <2>2 DEF x
<1>8. /\ Kept(d, Modifier(d, down, "ctrl", "rctrl", "lctrl"))
      /\ Kept(d, Modifier(d, down, "alt", "ralt", "lalt"))
  BY <1>1, ModifierKept
<1>9. CASE byte = 0
  <2>1. f = d
    BY <1>1, <1>6, <1>9 DEF int09_function
  <2> QED
    BY <1>3, <1>9, <2>1 DEF Heard
<1>10. CASE byte # 0 /\ code = 58
  <2>1. f = Forget(toggled("caps"), code)
    BY <1>10, <1>6 DEF int09_function
  <2> QED
    BY <1>1, <1>4, <1>5, <1>10, <2>1 DEF Heard
<1>11. CASE byte # 0 /\ code \in {42, 54}
  <2>1. f = Forget(sided, code)
    BY <1>11, <1>6 DEF int09_function
  <2> QED
    BY <1>1, <1>4, <1>7, <1>11, <2>1 DEF Heard
<1>12. CASE byte # 0 /\ code = 29
  <2>1. f = Forget(IF "e1" \in d.state THEN d ELSE Modifier(d, down, "ctrl", "rctrl", "lctrl"), code)
    BY <1>12, <1>6 DEF int09_function
  <2> QED
    BY <1>1, <1>3, <1>4, <1>8, <1>12, <2>1 DEF Heard
<1>13. CASE byte # 0 /\ code = 56
  <2>1. f = Forget(Modifier(d, down, "alt", "ralt", "lalt"), code)
    BY <1>13, <1>6 DEF int09_function
  <2> QED
    BY <1>1, <1>4, <1>8, <1>13, <2>1 DEF Heard
<1>14. CASE byte # 0 /\ code = 69
  <2>1. f = Forget(IF numlock THEN toggled("num") ELSE d, code)
    BY <1>14, <1>6 DEF int09_function
  <2> QED
    BY <1>1, <1>3, <1>4, <1>5, <1>14, <2>1 DEF Heard
<1>15. CASE byte # 0 /\ code = 70
  <2>1. f = Forget(IF ~break THEN toggled("scroll") ELSE IF down THEN CtrlBreak(d) ELSE d, code)
    BY <1>15, <1>6 DEF int09_function
  <2>2. CASE break /\ down
    <3> DEFINE e == CtrlBreak(d)
    <3>1. Broken(d, e) /\ Known(e)
      BY CtrlBreakRing DEF Broken, Known
    <3> HIDE DEF e
    <3>2. Kept(e, Forget(e, code))
      BY <3>1, ForgetKept
    <3>3. Broken(d, Forget(e, code))
      BY <3>1, <3>2 DEF Broken, Kept
    <3> QED
      BY <1>1, <1>2, <1>15, <2>1, <2>2, <3>3 DEF Heard, e
  <2>3. CASE ~(break /\ down)
    BY <1>1, <1>2, <1>3, <1>4, <1>5, <1>15, <2>1, <2>3 DEF Heard
  <2> QED
    BY <2>2, <2>3
<1>16. CASE byte # 0 /\ code \notin {58, 42, 54, 29, 56, 69, 70}
  <2>1. f = IF down THEN Ordinary(d, code) ELSE Forget(d, code)
    BY <1>16, <1>6 DEF int09_function
  <2> QED
    BY <1>1, <1>3, <1>4, <1>16, <2>1, OrdinaryRing DEF Heard
<1> QED
  BY <1>9, <1>10, <1>11, <1>12, <1>13, <1>14, <1>15, <1>16

\* A prefix or a code: what INT 09h leaves in the data area.
AfterByte(d, byte) ==
  IF byte \in DOMAIN PrefixState THEN [d EXCEPT !.state = @ \cup {PrefixState[byte]}]
  ELSE int09_function(d, byte)

LEMMA AfterByteRing ==
  ASSUME NEW d, Known(d), NEW byte \in Octet
  PROVE  Heard(d, byte, AfterByte(d, byte))
<1>1. DOMAIN PrefixState = {224, 225} /\ \A c \in {224, 225} : PrefixState[c] \in {"e0", "e1"}
  BY DEF PrefixState
<1>2. CASE byte \in {224, 225}
  <2> DEFINE p == PrefixState[byte]
             s == d.state \cup {p}
  <2>1. s \in SUBSET States /\ "mf101" \in s
    BY <1>1, <1>2 DEF Known, DataArea, States
  <2>2. AfterByte(d, byte) = [d EXCEPT !.state = s]
    BY <1>1, <1>2 DEF AfterByte
  <2> HIDE DEF s
  <2>3. Kept(d, [d EXCEPT !.state = s])
    BY <2>1 DEF Known, Kept, DataArea
  <2> QED
    BY <1>2, <2>2, <2>3 DEF Heard
<1>3. CASE byte \notin {224, 225}
  BY <1>1, <1>3, Int09Ring DEF AfterByte
<1> QED
  BY <1>2, <1>3

\* What the keyboard's interrupt does to the queue.
HeardQueue(q, d, byte, e) ==
  IF byte = 70 /\ "e0" \in d.state THEN <<BreakKey>>
  ELSE IF e.tail # d.tail THEN Append(q, e.buf[d.tail]) ELSE q

LEMMA HeardContents ==
  ASSUME NEW d, Known(d), NEW byte \in Octet, NEW e, Heard(d, byte, e)
  PROVE  /\ Known(e) /\ e.head = d.head
         /\ Contents(e) = HeardQueue(Contents(d), d, byte, e)
         /\ Contents(e) \in Seq(Keystroke)
         /\ d.head # d.tail => e.head # e.tail
<1>1. d.head \in Slot /\ d.tail \in Slot /\ d.buf \in [Slot -> Keystroke] /\ d \in DataArea
  BY DEF Known, DataArea
<1> PICK h \in Slot : d.head = h
  BY <1>1
<1> PICK t \in Slot : d.tail = t
  BY <1>1
<1> PICK buf \in [Slot -> Keystroke] : d.buf = buf
  BY <1>1
<1>2. CASE byte = 70 /\ "e0" \in d.state
  <2>1. Broken(d, e)
    BY <1>2 DEF Heard
  <2>2. e \in DataArea /\ "mf101" \in e.state /\ e.head = h
        /\ e.tail = NextSlot(h) /\ e.buf = [buf EXCEPT ![h] = BreakKey]
    BY <2>1 DEF Broken
  <2>3. NextSlot(h) # h /\ NextSlot(h) \in Slot
    BY NextOfSlot DEF Slot
  <2> DEFINE u == NextSlot(h)
             after == [buf EXCEPT ![h] = BreakKey]
  <2>4. Depth(h, u) = 1 /\ Place(h, 1) = h
    <3>1. NextSlot(h) = IF h = Slots - 1 THEN 0 ELSE h + 1
      BY NextOfSlot
    <3> QED
      BY <3>1 DEF Depth, Place, Slot
  <2>5. after \in [Slot -> Keystroke] /\ after[h] = BreakKey
    BY <1>1 DEF BreakKey, Keystroke, Columns
  <2> HIDE DEF u, after
  <2> DEFINE q == RingOf(h, u, after)
  <2>6. q \in Seq(Keystroke) /\ Len(q) = 1 /\ q[1] = BreakKey
    <3>1. PICK v \in Slot : v = u
      BY <2>3 DEF u
    <3>2. PICK kept \in [Slot -> Keystroke] : kept = after
      BY <2>5
    <3>3. RingOf(h, v, kept) \in Seq(Keystroke) /\ Len(RingOf(h, v, kept)) = Depth(h, v)
      BY RingSeq
    <3>4. q = RingOf(h, v, kept) /\ Depth(h, v) = 1
      BY <2>4, <3>1, <3>2
    <3>5. RingOf(h, v, kept)[1] = kept[Place(h, 1)]
      BY <3>4, RingAt
    <3> HIDE DEF q
    <3> QED
      BY <2>4, <2>5, <3>2, <3>3, <3>4, <3>5
  <2> HIDE DEF q
  <2>7. q = <<BreakKey>>
    BY <2>6
  <2>8. Contents(e) = q
    BY <2>2, ContentsOf DEF q, u, after
  <2> QED
    BY <1>2, <2>2, <2>3, <2>6, <2>7, <2>8 DEF HeardQueue, Known
<1>3. CASE ~(byte = 70 /\ "e0" \in d.state) /\ Kept(d, e)
  <2>1. e \in DataArea /\ "mf101" \in e.state /\ e.head = h /\ e.tail = t /\ e.buf = buf
    BY <1>3 DEF Kept
  <2>2. Contents(e) = RingOf(h, t, buf) /\ Contents(d) = RingOf(h, t, buf)
    BY <2>1, ContentsOf
  <2>3. RingOf(h, t, buf) \in Seq(Keystroke)
    BY RingSeq
  <2> QED
    BY <1>3, <2>1, <2>2, <2>3 DEF HeardQueue, Known
<1>4. ASSUME ~(byte = 70 /\ "e0" \in d.state), NEW key \in Keystroke, Stored(d, e, key)
      PROVE  /\ Known(e) /\ e.head = d.head
             /\ Contents(e) = HeardQueue(Contents(d), d, byte, e)
             /\ Contents(e) \in Seq(Keystroke)
             /\ d.head # d.tail => e.head # e.tail
  <2>1. /\ e \in DataArea /\ "mf101" \in e.state /\ e.head = h /\ NextSlot(t) # h
        /\ e.tail = NextSlot(t) /\ e.buf = [buf EXCEPT ![t] = key]
    BY <1>4 DEF Stored
  <2>2. NextSlot(t) # t
    BY <1>1, NextOfSlot DEF Slot
  <2>3. e.buf[t] = key
    BY <1>1, <2>1
  <2>4. Contents(e) = Append(Contents(d), key)
    <3>1. RingOf(h, NextSlot(t), [buf EXCEPT ![t] = key]) = Append(RingOf(h, t, buf), key)
      <4>1. NextSlot(t) # h
        BY <2>1
      <4> QED
        BY <4>1, RingAppend, Zenon
    <3>2. Contents(e) = RingOf(h, NextSlot(t), [buf EXCEPT ![t] = key])
      BY <2>1, ContentsOf
    <3>3. Contents(d) = RingOf(h, t, buf)
      BY ContentsOf
    <3> QED
      BY <3>1, <3>2, <3>3
  <2>5. RingOf(h, t, buf) \in Seq(Keystroke)
    BY RingSeq
  <2>6. Append(Contents(d), key) \in Seq(Keystroke)
    <3>1. Append(RingOf(h, t, buf), key) \in Seq(Keystroke)
      BY <2>5, AppendProperties
    <3> QED
      BY <3>1, ContentsOf
  <2> QED
    BY <1>4, <2>1, <2>2, <2>3, <2>4, <2>6 DEF HeardQueue, Known
<1> QED
  BY <1>2, <1>3, <1>4 DEF Heard

----------------------------------------------------------------------------
(* The 8042.                                                               *)

LEMMA SettleWired ==
  ASSUME NEW c, Wired(c)
  PROVE  /\ Wired(Settle(c))
         /\ c.out # "none" => Settle(c).out = c.out
<1>1. CASE c.out # "none"
  BY <1>1 DEF Settle
<1>2. CASE c.out = "none"
  <2> DEFINE o == IF c.mq # <<>> THEN "mouse" ELSE IF c.kq # <<>> THEN "key" ELSE "none"
  <2>1. /\ o \in {"none", "key", "mouse"}
        /\ (o = "key" => c.kq # <<>>) /\ (o = "mouse" => c.mq # <<>>)
    OBVIOUS
  <2>2. Settle(c) = [c EXCEPT !.out = o]
    BY <1>2 DEF Settle
  <2> HIDE DEF o
  <2>3. Wired([c EXCEPT !.out = o])
    BY <2>1 DEF Wired, Controller, Showing
  <2> QED
    BY <1>2, <2>2, <2>3
<1> QED
  BY <1>1, <1>2

LEMMA ShownWire ==
  ASSUME NEW c, Wired(c), c.out # "none"
  PROVE  Shown(c) \in Wire /\ Shown(c).b \in Octet
<1>1. CASE c.out = "mouse"
  <2>1. c.mq \in Seq(Wire) /\ c.mq # <<>>
    BY <1>1 DEF Wired, Controller, Showing
  <2>2. Head(c.mq) \in Wire
    BY <2>1, HeadTailProperties
  <2> QED
    BY <1>1, <2>2 DEF Shown, Wire
<1>2. CASE c.out # "mouse"
  <2>1. c.kq \in Seq(Wire) /\ c.kq # <<>>
    BY <1>2 DEF Wired, Controller, Showing
  <2>2. Head(c.kq) \in Wire
    BY <2>1, HeadTailProperties
  <2> QED
    BY <1>2, <2>2 DEF Shown, Wire
<1> QED
  BY <1>1, <1>2

LEMMA TakenWired ==
  ASSUME NEW c, Wired(c)
  PROVE  Wired(Taken(c))
<1> DEFINE m == IF c.out = "mouse" THEN Tail(c.mq) ELSE c.mq
           k == IF c.out = "key" THEN Tail(c.kq) ELSE c.kq
           d == [c EXCEPT !.out = "none", !.mq = m, !.kq = k]
<1>1. m \in Seq(Wire)
  <2>1. c.mq \in Seq(Wire) /\ (c.out = "mouse" => c.mq # <<>>)
    BY DEF Wired, Controller, Showing
  <2> QED
    BY <2>1, HeadTailProperties
<1>2. k \in Seq(Wire)
  <2>1. c.kq \in Seq(Wire) /\ (c.out = "key" => c.kq # <<>>)
    BY DEF Wired, Controller, Showing
  <2> QED
    BY <2>1, HeadTailProperties
<1>3. Taken(c) = Settle(d)
  BY DEF Taken
<1> HIDE DEF m, k
<1>4. Wired(d)
  BY <1>1, <1>2 DEF Wired, Controller, Showing
<1> QED
  BY <1>3, <1>4, SettleWired

LEMMA PutWired ==
  ASSUME NEW c, Wired(c), NEW byte \in Wire
  PROVE  Wired(PutKey(c, byte)) /\ Wired(PutMove(c, byte))
<1> DEFINE k == Append(c.kq, byte)
           m == Append(c.mq, byte)
<1>1. /\ k \in Seq(Wire) /\ k # <<>> /\ m \in Seq(Wire) /\ m # <<>>
  <2>1. c.kq \in Seq(Wire) /\ c.mq \in Seq(Wire)
    BY DEF Wired, Controller
  <2> QED
    BY <2>1, AppendProperties
<1> HIDE DEF k, m
<1>2. Wired([c EXCEPT !.kq = k]) /\ Wired([c EXCEPT !.mq = m])
  BY <1>1, ZenonT(30) DEF Wired, Controller, Showing
<1>3. Wired(Settle([c EXCEPT !.kq = k])) /\ Wired(Settle([c EXCEPT !.mq = m]))
  BY <1>2, SettleWired
<1> QED
  BY <1>3 DEF PutKey, PutMove, k, m

LEMMA SendWired ==
  ASSUME NEW c, Wired(c), NEW b \in Octet
  PROVE  Wired(ToKeyboard(c, b)) /\ Wired(ToMouse(c, b))
<1> DEFINE k == [to |-> "key", b |-> b]
           m == [to |-> "mouse", b |-> b]
<1>1. /\ k \in [to : {"none", "key", "mouse"}, b : Octet]
      /\ m \in [to : {"none", "key", "mouse"}, b : Octet]
  OBVIOUS
<1>2. /\ ToKeyboard(c, b) = IF c.in.to # "none" THEN c ELSE [c EXCEPT !.in = k, !.keyOff = FALSE]
      /\ ToMouse(c, b) = IF c.in.to # "none" THEN c ELSE [c EXCEPT !.in = m, !.mouseOff = FALSE]
  BY DEF ToKeyboard, ToMouse
<1> HIDE DEF k, m
<1>3. Wired([c EXCEPT !.in = k, !.keyOff = FALSE])
  <2>1. [c EXCEPT !.in = k, !.keyOff = FALSE] \in Controller
    BY <1>1 DEF Wired, Controller
  <2> QED
    BY <2>1 DEF Wired, Controller, Showing
<1>4. Wired([c EXCEPT !.in = m, !.mouseOff = FALSE])
  <2>1. [c EXCEPT !.in = m, !.mouseOff = FALSE] \in Controller
    BY <1>1 DEF Wired, Controller
  <2> QED
    BY <2>1 DEF Wired, Controller, Showing
<1> QED
  BY <1>2, <1>3, <1>4

LEMMA CommandWired ==
  ASSUME NEW c, Wired(c), NEW b
  PROVE  Wired(SetCommandByte(c, b)) /\ CommandByte(c) \in Octet
<1>1. Wired(SetCommandByte(c, b))
  <2> DEFINE x == Bit(b, 0)
             y == Bit(b, 1)
             z == Bit(b, 4)
             u == Bit(b, 5)
             v == Bit(b, 6)
  <2>1. /\ x \in BOOLEAN /\ y \in BOOLEAN /\ z \in BOOLEAN /\ u \in BOOLEAN /\ v \in BOOLEAN
    BY DEF Bit
  <2>2. SetCommandByte(c, b) = [c EXCEPT !.irqKey = x, !.irqMouse = y, !.keyOff = z,
                                !.mouseOff = u, !.mouseOffSeen = u, !.translate = v]
    BY DEF SetCommandByte
  <2> HIDE DEF x, y, z, u, v
  <2> DEFINE d == [c EXCEPT !.irqKey = x, !.irqMouse = y, !.keyOff = z,
                            !.mouseOff = u, !.mouseOffSeen = u, !.translate = v]
  <2>3. c \in Controller
    BY DEF Wired
  <2>4. d \in Controller
    BY <2>1, <2>3 DEF Controller
  <2>5. d.out = c.out /\ d.kq = c.kq /\ d.mq = c.mq
    BY <2>3 DEF Controller
  <2> HIDE DEF d
  <2>6. Wired(d)
    BY <2>4, <2>5 DEF Wired, Showing
  <2> QED
    BY <2>2, <2>6 DEF d
<1>2. CommandByte(c) \in Octet
  BY DEF CommandByte, Octet
<1> QED
  BY <1>1, <1>2

LEMMA LinesFollow ==
  ASSUME NEW old \in PicLines, NEW c, NEW fell \in BOOLEAN
  PROVE  /\ Lines(old, c, fell) \in PicLines /\ Lines(old, c, fell).isr = old.isr
         /\ 1 \in Lines(old, c, fell).irr => c.out = "key"
         /\ 12 \in Lines(old, c, fell).irr => c.out = "mouse"
<1> DEFINE kept == IF fell THEN {} ELSE old.high
           high == (IF c.out = "key" /\ (c.irqKey \/ 1 \in kept) THEN {1} ELSE {})
                   \cup (IF c.out = "mouse" /\ (c.irqMouse \/ 12 \in kept) THEN {12} ELSE {})
           irr == (old.irr \cap kept \cap high) \cup (high \ kept)
<1>1. /\ high \in SUBSET {1, 12} /\ irr \in SUBSET high
      /\ (1 \in high => c.out = "key") /\ (12 \in high => c.out = "mouse")
  OBVIOUS
<1>2. Lines(old, c, fell) = [old EXCEPT !.high = high, !.irr = irr]
  BY DEF Lines
<1> DEFINE l == [old EXCEPT !.high = high, !.irr = irr]
<1> HIDE DEF kept, high, irr
<1>3. l \in PicLines
  BY <1>1 DEF PicLines
<1>4. l.isr = old.isr
  BY DEF PicLines
<1>5. l.irr = irr
  BY DEF PicLines
<1> HIDE DEF l
<1>6. 1 \in l.irr => c.out = "key"
  BY <1>1, <1>5
<1>7. 12 \in l.irr => c.out = "mouse"
  BY <1>1, <1>5
<1>8. Lines(old, c, fell) = l
  BY <1>2 DEF l
<1> QED
  BY <1>3, <1>4, <1>6, <1>7, <1>8

\* A step that is not a read of data, and one that is.
LEMMA WriteType ==
  ASSUME TypeInv, NEW c, Wired(c), Write(c)
  PROVE  Wired(ctl)' /\ line' \in PicLines /\ Requests'
BY LinesFollow DEF Write, Requests, TypeInv, Wired, Showing

LEMMA FellType ==
  ASSUME TypeInv, NEW c, Wired(c), ctl' = c, line' = Lines(line, c, TRUE)
  PROVE  Wired(ctl)' /\ line' \in PicLines /\ Requests'
BY LinesFollow DEF Requests, TypeInv, Wired, Showing

LEMMA ReadType ==
  ASSUME TypeInv, Read
  PROVE  Wired(ctl)' /\ line' \in PicLines /\ Requests'
BY LinesFollow, TakenWired DEF Read, Requests, TypeInv, Wired, Showing

LEMMA Disturbed ==
  ASSUME NEW h \in History, NEW who \in Readers, NEW did
  PROVE  /\ Disturb(h, who, did) \in History
         /\ Disturb(h, who, did).queue = h.queue /\ Disturb(h, who, did).raced = h.raced
         /\ Disturb(h, who, did).first = "none" => h.first = "none" /\ ~did
<1> DEFINE f == IF h.first = "none" /\ did THEN who ELSE h.first
<1>1. f \in {"none"} \cup Readers /\ (f = "none" => h.first = "none" /\ ~did)
  BY DEF History, Readers
<1>2. Disturb(h, who, did) = [h EXCEPT !.first = f]
  BY DEF Disturb
<1> HIDE DEF f
<1> QED
  BY <1>1, <1>2 DEF History

\* A counter of the history counts one more.
LEMMA Counted ==
  ASSUME NEW h \in History
  PROVE  /\ [h EXCEPT !.keys = @ + 1] \in History
         /\ [h EXCEPT !.moves = @ + 1] \in History
         /\ [h EXCEPT !.calls = @ + 1] \in History
<1>1. \A n \in Nat : [h EXCEPT !.keys = n] \in History
  BY DEF History
<1>2. \A n \in Nat : [h EXCEPT !.moves = n] \in History
  BY DEF History
<1>3. \A n \in Nat : [h EXCEPT !.calls = n] \in History
  BY DEF History
<1>4. h.keys + 1 \in Nat /\ h.moves + 1 \in Nat /\ h.calls + 1 \in Nat
  BY DEF History
<1> QED
  BY <1>1, <1>2, <1>3, <1>4

\* The packet counters of the history are no part of the other invariants.
Untouched(h, g) == g \in History /\ g.queue = h.queue /\ g.raced = h.raced

----------------------------------------------------------------------------
(* Types.                                                                  *)

LEMMA TypeInit == Init => TypeInv /\ Requests
<1> SUFFICES ASSUME NEW driver \in BOOLEAN,
                    ctl = [out |-> "none", kq |-> <<>>, mq |-> <<>>, irqKey |-> TRUE,
                           irqMouse |-> driver, keyOff |-> FALSE, mouseOff |-> ~driver,
                           mouseOffSeen |-> ~driver, translate |-> TRUE,
                           in |-> [to |-> "none", b |-> 0]],
                    Init
             PROVE  TypeInv /\ Requests
  BY DEF Init
<1>1. Wired(ctl)
  BY DEF Wired, Controller, Showing, Octet
<1>2. bda \in DataArea /\ "mf101" \in bda.state
  <2>1. 0 \in Slot
    BY DEF Slot
  <2>2. [i \in 0 .. Slots - 1 |-> BreakKey] \in [Slot -> Keystroke]
    BY DEF Slot, BreakKey, Keystroke, Columns
  <2>3. {"mf101"} \in SUBSET States
    BY DEF States
  <2> QED
    BY <2>1, <2>2, <2>3 DEF Init, DataArea
<1>3. cpu \in Processor
  BY DEF Init, Processor, BreakKey, Keystroke, Columns, Octet
<1>4. hist \in History
  BY DEF Init, History
<1>5. /\ line \in PicLines /\ kbd \in [held : SUBSET Keys, rest : Seq(Octet)]
      /\ mouse \in [on : BOOLEAN, pos : 0 .. 2]
      /\ ebda \in [hooked : BOOLEAN, count : {0, 2}, index : 0 .. 2, data : [0 .. 2 -> Octet]]
  BY DEF Init, PicLines, Octet
<1> QED
  BY <1>1, <1>2, <1>3, <1>4, <1>5 DEF TypeInv, Known, Requests, Init

LEMMA OctetsFit ==
  /\ Ack \in Octet /\ Identify \in Octet /\ Prefix \in Octet
  /\ \A k \in Keys, up \in BOOLEAN :
       /\ KeyBytes(k, up) \in Seq(Octet) /\ KeyBytes(k, up) # <<>>
       /\ Head(KeyBytes(k, up)) \in Octet /\ Tail(KeyBytes(k, up)) \in Seq(Octet)
<1>1. Ack \in Octet /\ Identify \in Octet /\ Prefix \in Octet
  BY DEF Ack, Identify, Prefix, Octet
<1>2. ASSUME NEW k \in Keys, NEW up \in BOOLEAN
      PROVE  KeyBytes(k, up) \in Seq(Octet) /\ KeyBytes(k, up) # <<>>
  <2> DEFINE p == IF k[2] THEN <<Prefix>> ELSE <<>>
             c == k[1] + (IF up THEN 128 ELSE 0)
  <2>1. c \in Octet
    BY DEF Octet
  <2> HIDE DEF c
  <2>2. p \in Seq(Octet) /\ <<c>> \in Seq(Octet) /\ <<c>> # <<>> /\ Len(<<c>>) = 1 /\ Len(p) \in Nat
    BY <1>1, <2>1
  <2>3. KeyBytes(k, up) = p \o <<c>>
    BY DEF KeyBytes, c
  <2> HIDE DEF p
  <2>4. p \o <<c>> \in Seq(Octet) /\ Len(p \o <<c>>) = Len(p) + 1
    BY <2>2, ConcatProperties
  <2> QED
    BY <2>2, <2>3, <2>4
<1>3. ASSUME NEW k \in Keys, NEW up \in BOOLEAN
      PROVE  Head(KeyBytes(k, up)) \in Octet /\ Tail(KeyBytes(k, up)) \in Seq(Octet)
  BY <1>2, HeadTailProperties
<1> QED
  BY <1>1, <1>2, <1>3

LEMMA SendKeyType == TypeInv /\ SendKey => (TypeInv /\ Requests)'
<1> SUFFICES ASSUME TypeInv, SendKey PROVE (TypeInv /\ Requests)'
  OBVIOUS
<1> USE DEF TypeInv
<1>1. \A b \in Octet : Byte(b, "code") \in Wire
  BY DEF Byte, Wire
<1>2. UNCHANGED <<mouse, bda, ebda, cpu>>
  BY DEF SendKey
<1>3. CASE /\ kbd.rest # <<>>
           /\ Write(PutKey(ctl, Byte(Head(kbd.rest), "code")))
           /\ kbd' = [kbd EXCEPT !.rest = Tail(@)]
           /\ UNCHANGED hist
  <2>1. Head(kbd.rest) \in Octet /\ Tail(kbd.rest) \in Seq(Octet)
    BY <1>3, HeadTailProperties
  <2>2. Wired(PutKey(ctl, Byte(Head(kbd.rest), "code")))
    BY <1>1, <2>1, PutWired
  <2>3. Wired(ctl)' /\ line' \in PicLines /\ Requests'
    BY <1>3, <2>2, WriteType
  <2>4. kbd' \in [held : SUBSET Keys, rest : Seq(Octet)]
    BY <1>3, <2>1
  <2> QED
    BY <1>2, <1>3, <2>3, <2>4 DEF Known
<1>4. CASE /\ kbd.rest = <<>> /\ hist.keys < MaxKeys
           /\ \E k \in Keys : LET up == k \in kbd.held IN
                /\ Write(PutKey(ctl, Byte(Head(KeyBytes(k, up)), "code")))
                /\ kbd' = [kbd EXCEPT !.rest = Tail(KeyBytes(k, up)),
                                      !.held = IF up THEN @ \ {k} ELSE @ \cup {k}]
                /\ hist' = [hist EXCEPT !.keys = @ + 1]
  <2> PICK k \in Keys : LET up == k \in kbd.held IN
                /\ Write(PutKey(ctl, Byte(Head(KeyBytes(k, up)), "code")))
                /\ kbd' = [kbd EXCEPT !.rest = Tail(KeyBytes(k, up)),
                                      !.held = IF up THEN @ \ {k} ELSE @ \cup {k}]
                /\ hist' = [hist EXCEPT !.keys = @ + 1]
    BY <1>4
  <2> DEFINE up == k \in kbd.held
             b == Head(KeyBytes(k, up))
             rest == Tail(KeyBytes(k, up))
             held == IF up THEN kbd.held \ {k} ELSE kbd.held \cup {k}
  <2>1. b \in Octet /\ rest \in Seq(Octet) /\ held \in SUBSET Keys
    <3>1. up \in BOOLEAN /\ held \in SUBSET Keys
      OBVIOUS
    <3> HIDE DEF up
    <3> QED
      BY <3>1, OctetsFit
  <2>2. /\ Write(PutKey(ctl, Byte(b, "code"))) /\ kbd' = [kbd EXCEPT !.rest = rest, !.held = held]
        /\ hist' = [hist EXCEPT !.keys = @ + 1]
    OBVIOUS
  <2> HIDE DEF b, rest, held
  <2>3. Wired(ctl)' /\ line' \in PicLines /\ Requests'
    BY <1>1, <2>1, <2>2, PutWired, WriteType
  <2>4. kbd' \in [held : SUBSET Keys, rest : Seq(Octet)]
    BY <2>1, <2>2
  <2>5. hist' \in History
    <3>1. hist \in History
      OBVIOUS
    <3> QED
      BY <2>2, <3>1, Counted
  <2> QED
    BY <1>2, <2>3, <2>4, <2>5 DEF Known
<1> QED
  BY <1>3, <1>4 DEF SendKey

LEMMA PositionFits ==
  ASSUME NEW p \in 0 .. 2
  PROVE  p + 1 \in Octet /\ (p + 1) % 3 \in 0 .. 2
BY DEF Octet

LEMMA SendMoveType == TypeInv /\ SendMove => (TypeInv /\ Requests)'
<1> SUFFICES ASSUME TypeInv, SendMove PROVE (TypeInv /\ Requests)'
  OBVIOUS
<1> USE DEF TypeInv
<1> DEFINE byte == Byte(mouse.pos + 1, "move")
<1>1. byte \in Wire
  <2> DEFINE n == mouse.pos + 1
  <2>1. mouse.pos \in 0 .. 2
    OBVIOUS
  <2>3. n \in Octet
    BY <2>1, PositionFits
  <2> HIDE DEF n
  <2>2. Byte(n, "move") \in Wire
    BY <2>3 DEF Byte, Wire
  <2> QED
    BY <2>2 DEF n
<1>2. Write(PutMove(ctl, byte)) /\ UNCHANGED <<kbd, bda, ebda, cpu>>
  BY DEF SendMove
<1> HIDE DEF byte
<1>3. Wired(ctl)' /\ line' \in PicLines /\ Requests'
  BY <1>1, <1>2, PutWired, WriteType
<1>4. mouse' \in [on : BOOLEAN, pos : 0 .. 2]
  <2>1. (mouse.pos + 1) % 3 \in 0 .. 2
    OBVIOUS
  <2> QED
    BY <2>1 DEF SendMove
<1>5. hist' \in History
  BY Counted DEF SendMove
<1> QED
  BY <1>2, <1>3, <1>4, <1>5 DEF Known

LEMMA AnswerFits ==
  ASSUME NEW to, NEW b, NEW tag \in {"key", "mouse"}
  PROVE  /\ Answer(to, b) \in Seq(Octet) /\ Len(Answer(to, b)) \in 1 .. 3
         /\ [i \in DOMAIN Answer(to, b) |-> Byte(Answer(to, b)[i], tag)] \in Seq(Wire)
<1> DEFINE a == Answer(to, b)
<1>1. a \in Seq(Octet) /\ Len(a) \in 1 .. 3
  <2>1. /\ <<Ack>> \in Seq(Octet) /\ Len(<<Ack>>) = 1
        /\ <<Ack, 0>> \in Seq(Octet) /\ Len(<<Ack, 0>>) = 2
        /\ <<Ack, 171, 131>> \in Seq(Octet) /\ Len(<<Ack, 171, 131>>) = 3
    BY DEF Ack, Octet
  <2>2. a = <<Ack>> \/ a = <<Ack, 0>> \/ a = <<Ack, 171, 131>>
    BY DEF Answer
  <2>3. CASE a = <<Ack>>
    BY <2>1, <2>3
  <2>4. CASE a = <<Ack, 0>>
    BY <2>1, <2>4
  <2>5. CASE a = <<Ack, 171, 131>>
    BY <2>1, <2>5
  <2> QED
    BY <2>2, <2>3, <2>4, <2>5
<1> HIDE DEF a
<1>2. DOMAIN a = 1 .. Len(a) /\ Len(a) \in Nat /\ \A i \in 1 .. Len(a) : a[i] \in Octet
  BY <1>1, LenProperties, ElementOfSeq
<1>3. \A i \in 1 .. Len(a) : Byte(a[i], tag) \in Wire
  BY <1>2 DEF Byte, Wire
<1>4. [i \in 1 .. Len(a) |-> Byte(a[i], tag)] \in Seq(Wire)
  BY <1>2, <1>3
<1> QED
  BY <1>1, <1>2, <1>4 DEF a

LEMMA DeviceAnswersType == TypeInv /\ DeviceAnswers => (TypeInv /\ Requests)'
<1> SUFFICES ASSUME TypeInv, DeviceAnswers PROVE (TypeInv /\ Requests)'
  OBVIOUS
<1> DEFINE told == [ctl EXCEPT !.in.to = "none"]
           answer == Answer(ctl.in.to, ctl.in.b)
           Sent(q) == q \o [i \in DOMAIN answer |-> Byte(answer[i], ctl.in.to)]
<1>1. Wired(ctl) /\ ctl.kq \in Seq(Wire) /\ ctl.mq \in Seq(Wire)
  BY DEF TypeInv, Wired, Controller
<1>2. /\ told \in Controller /\ told.out = ctl.out /\ told.kq = ctl.kq /\ told.mq = ctl.mq
      /\ Showing(ctl)
  <2> DEFINE in == [ctl.in EXCEPT !.to = "none"]
  <2>1. in \in [to : {"none", "key", "mouse"}, b : Octet]
    BY <1>1 DEF Wired, Controller
  <2>2. told = [ctl EXCEPT !.in = in]
    BY <1>1 DEF Wired, Controller
  <2> HIDE DEF in
  <2> QED
    BY <1>1, <2>1, <2>2 DEF Wired, Controller
<1>3. ctl.in.to \in {"key", "mouse"}
  BY DEF DeviceAnswers
<1> DEFINE a == [i \in DOMAIN answer |-> Byte(answer[i], ctl.in.to)]
           k == Sent(ctl.kq)
           m == Sent(ctl.mq)
<1>4. a \in Seq(Wire) /\ a # <<>>
  <2>1. a \in Seq(Wire) /\ answer \in Seq(Octet) /\ Len(answer) \in 1 .. 3
    <3> DEFINE to == ctl.in.to
    <3>1. to \in {"key", "mouse"}
      BY <1>3
    <3> HIDE DEF to
    <3>2. /\ Answer(to, ctl.in.b) \in Seq(Octet) /\ Len(Answer(to, ctl.in.b)) \in 1 .. 3
          /\ [i \in DOMAIN Answer(to, ctl.in.b) |-> Byte(Answer(to, ctl.in.b)[i], to)] \in Seq(Wire)
      BY <3>1, AnswerFits
    <3> QED
      BY <3>2 DEF to
  <2>2. DOMAIN a = 1 .. Len(answer)
    <3> HIDE DEF answer
    <3> QED
      BY <2>1, LenProperties
  <2> HIDE DEF answer
  <2>3. 1 \in DOMAIN a
    BY <2>1, <2>2
  <2> HIDE DEF a
  <2> QED
    BY <2>1, <2>3
<1>5. k \in Seq(Wire) /\ m \in Seq(Wire) /\ k # <<>> /\ m # <<>>
  <2> HIDE DEF a
  <2>1. Len(a) \in Nat \ {0} /\ Len(ctl.kq) \in Nat /\ Len(ctl.mq) \in Nat
    BY <1>1, <1>4
  <2>2. /\ ctl.kq \o a \in Seq(Wire) /\ Len(ctl.kq \o a) = Len(ctl.kq) + Len(a)
        /\ ctl.mq \o a \in Seq(Wire) /\ Len(ctl.mq \o a) = Len(ctl.mq) + Len(a)
    BY <1>1, <1>4, ConcatProperties
  <2>3. ctl.kq \o a # <<>> /\ ctl.mq \o a # <<>>
    BY <2>1, <2>2
  <2> QED
    BY <2>2, <2>3 DEF a
<1> HIDE DEF told, answer, k, m
<1>6. Wired(Settle([told EXCEPT !.kq = k])) /\ Wired(Settle([told EXCEPT !.mq = m]))
  <2>1. Wired([told EXCEPT !.kq = k])
    <3>1. [told EXCEPT !.kq = k] \in Controller
      BY <1>2, <1>5 DEF Controller
    <3>2. Showing([told EXCEPT !.kq = k])
      BY <1>2, <1>5 DEF Controller, Showing
    <3> QED
      BY <3>1, <3>2 DEF Wired
  <2>2. Wired([told EXCEPT !.mq = m])
    <3>1. [told EXCEPT !.mq = m] \in Controller
      BY <1>2, <1>5 DEF Controller
    <3>2. Showing([told EXCEPT !.mq = m])
      BY <1>2, <1>5 DEF Controller, Showing
    <3> QED
      BY <3>1, <3>2 DEF Wired
  <2> QED
    BY <2>1, <2>2, SettleWired
<1>7. CASE /\ ctl.in.to = "key"
           /\ Write(Settle([told EXCEPT !.kq = Sent(@)]))
           /\ UNCHANGED <<kbd, mouse, bda, ebda, cpu, hist>>
  <2>1. Write(Settle([told EXCEPT !.kq = k]))
    BY <1>2, <1>7 DEF k
  <2>2. Wired(ctl)' /\ line' \in PicLines /\ Requests'
    BY <1>6, <2>1, WriteType
  <2> QED
    BY <1>7, <2>2 DEF TypeInv, Known
<1>8. CASE /\ ctl.in.to = "mouse"
           /\ Write(Settle([told EXCEPT !.mq = Sent(@)]))
           /\ mouse' = [on |-> mouse.on \/ ctl.in.b = 244, pos |-> 0]
           /\ hist' = Disturb(hist, "command", Midway)
           /\ UNCHANGED <<kbd, bda, ebda, cpu>>
  <2>1. Write(Settle([told EXCEPT !.mq = m]))
    BY <1>2, <1>8 DEF m
  <2>2. Wired(ctl)' /\ line' \in PicLines /\ Requests'
    BY <1>6, <2>1, WriteType
  <2>3. hist' \in History
    BY <1>8, Disturbed DEF TypeInv, Readers
  <2>4. mouse' \in [on : BOOLEAN, pos : 0 .. 2]
    <3> DEFINE on == mouse.on \/ ctl.in.b = 244
    <3>1. on \in BOOLEAN
      OBVIOUS
    <3> HIDE DEF on
    <3>2. [on |-> on, pos |-> 0] \in [on : BOOLEAN, pos : 0 .. 2]
      BY <3>1
    <3> QED
      BY <1>8, <3>2 DEF on
  <2> QED
    BY <1>8, <2>2, <2>3, <2>4 DEF TypeInv, Known
<1> QED
  BY <1>7, <1>8 DEF DeviceAnswers, told, answer

LEMMA Int09ReadType == TypeInv /\ Requests /\ Int09Read => (TypeInv /\ Requests)'
<1> SUFFICES ASSUME TypeInv, Requests, Int09Read PROVE (TypeInv /\ Requests)'
  OBVIOUS
<1> DEFINE c == [ctl EXCEPT !.keyOff = TRUE]
           l == Lines(line, Taken(c), TRUE)
           who == IF Shown(ctl).tag = "key" THEN "identity" ELSE "int09"
<1>1. Wired(ctl) /\ ctl.out # "none"
  BY DEF TypeInv, Requests, Int09Read
<1>2. Wired(c)
  BY <1>1 DEF Wired, Controller, Showing
<1>3. Wired(Taken(c)) /\ l \in PicLines
      /\ (1 \in l.irr => Taken(c).out = "key") /\ (12 \in l.irr => Taken(c).out = "mouse")
  <2> HIDE DEF c
  <2>1. Wired(Taken(c))
    BY <1>2, TakenWired
  <2> QED
    BY <2>1, LinesFollow DEF TypeInv
<1>4. /\ ctl' = Taken(c) /\ line' = [l EXCEPT !.isr = @ \cup {1}]
      /\ cpu' = [cpu EXCEPT !.on9 = "work", !.key = Shown(ctl).b]
      /\ hist' = Reading(who, "code")
      /\ UNCHANGED <<kbd, mouse, bda, ebda>>
  BY DEF Int09Read
<1>5. cpu' \in Processor
  <2> DEFINE b == Shown(ctl).b
  <2>1. b \in Octet
    BY <1>1, ShownWire
  <2> HIDE DEF b
  <2>2. [cpu EXCEPT !.on9 = "work", !.key = b] \in Processor
    <3>1. cpu \in Processor
      BY DEF TypeInv
    <3> QED
      BY <2>1, <3>1, ZenonT(30) DEF Processor
  <2> QED
    BY <1>4, <2>2 DEF b
<1>6. hist' \in History
  <2>1. who \in Readers
    BY DEF Readers
  <2> HIDE DEF who
  <2> QED
    BY <1>4, <2>1, Disturbed DEF Reading, TypeInv
<1> HIDE DEF c, l
<1>7. line' \in PicLines /\ line'.irr = l.irr
  BY <1>3, <1>4 DEF PicLines
<1>8. Wired(ctl)' /\ Requests'
  <2>1. Wired(ctl')
    BY <1>3, <1>4
  <2> QED
    BY <2>1, <1>3, <1>4, <1>7 DEF Requests, Wired, Showing
<1> QED
  BY <1>4, <1>5, <1>6, <1>7, <1>8 DEF TypeInv, Known

LEMMA Int09WorkType ==
  TypeInv /\ Requests /\ BufferIsQueue /\ Int09Work => (TypeInv /\ Requests /\ BufferIsQueue)'
<1> SUFFICES ASSUME TypeInv, Requests, BufferIsQueue, Int09Work
             PROVE  (TypeInv /\ Requests /\ BufferIsQueue)'
  OBVIOUS
<1> DEFINE e == AfterByte(bda, cpu.key)
           q == HeardQueue(hist.queue, bda, cpu.key, e)
<1>1. /\ bda' = e /\ hist' = [hist EXCEPT !.queue = q]
      /\ ctl' = [ctl EXCEPT !.keyOff = FALSE] /\ line' = [line EXCEPT !.isr = @ \ {1}]
      /\ cpu' = [cpu EXCEPT !.on9 = "off", !.key = 0] /\ UNCHANGED <<kbd, mouse, ebda>>
  BY DEF Int09Work, AfterByte, HeardQueue
<1>2. Known(bda) /\ cpu.key \in Octet /\ Contents(bda) = hist.queue
  BY DEF TypeInv, Processor, BufferIsQueue
<1>3. Heard(bda, cpu.key, e)
  BY <1>2, AfterByteRing
<1>4. Known(e) /\ Contents(e) = q /\ q \in Seq(Keystroke)
  <2> HIDE DEF e
  <2> QED
    BY <1>2, <1>3, HeardContents
<1> HIDE DEF e, q
<1>5. hist' \in History /\ hist'.queue = q
  BY <1>1, <1>4 DEF TypeInv, History
<1>6. cpu' \in Processor
  <2>1. 0 \in Octet
    BY DEF Octet
  <2> QED
    BY <1>1, <2>1, ZenonT(30) DEF TypeInv, Processor
<1>7. Wired(ctl)' /\ ctl'.out = ctl.out
  BY <1>1, ZenonT(30) DEF TypeInv, Wired, Controller, Showing
<1>8. line' \in PicLines /\ Requests'
  BY <1>1, <1>7 DEF TypeInv, PicLines, Requests
<1> QED
  BY <1>1, <1>4, <1>5, <1>6, <1>7, <1>8 DEF TypeInv, Known, BufferIsQueue

LEMMA Int74Type == TypeInv /\ Requests /\ Int74 => (TypeInv /\ Requests)'
<1> SUFFICES ASSUME TypeInv, Requests, Int74 PROVE (TypeInv /\ Requests)'
  OBVIOUS
<1>1. line' \in PicLines /\ Requests'
  BY DEF Int74, TypeInv, PicLines, Requests
<1>2. cpu' \in Processor
  BY DEF Int74, TypeInv, Processor
<1> QED
  BY <1>1, <1>2 DEF Int74, TypeInv, Known, Wired, Showing

LEMMA CollectedType ==
  ASSUME NEW e \in [hooked : BOOLEAN, count : {0, 2}, index : 0 .. 2, data : [0 .. 2 -> Octet]],
         NEW b \in Octet
  PROVE  /\ Collected(e, b) \in [hooked : BOOLEAN, count : {0, 2}, index : 0 .. 2,
                                 data : [0 .. 2 -> Octet]]
         /\ Packet(Collected(e, b)) \in [0 .. 2 -> Octet]
<1> DEFINE data == [e.data EXCEPT ![e.index] = b]
           next == IF e.index >= e.count THEN 0 ELSE e.index + 1
<1>1. data \in [0 .. 2 -> Octet] /\ next \in 0 .. 2
  OBVIOUS
<1>2. Collected(e, b) = IF ~e.hooked THEN e ELSE [e EXCEPT !.data = data, !.index = next]
  BY DEF Collected
<1> HIDE DEF data, next
<1>3. Collected(e, b) \in [hooked : BOOLEAN, count : {0, 2}, index : 0 .. 2, data : [0 .. 2 -> Octet]]
  <2>1. [e EXCEPT !.data = data, !.index = next]
          \in [hooked : BOOLEAN, count : {0, 2}, index : 0 .. 2, data : [0 .. 2 -> Octet]]
    BY <1>1
  <2> QED
    BY <1>2, <2>1
<1> QED
  BY <1>3 DEF Packet

LEMMA int74_functionType == TypeInv /\ Requests /\ int74_function => (TypeInv /\ Requests)'
<1> SUFFICES ASSUME TypeInv, Requests, int74_function PROVE (TypeInv /\ Requests)'
  OBVIOUS
<1>1. cpu' \in Processor /\ UNCHANGED <<kbd, mouse, bda>>
  BY DEF int74_function, TypeInv, Processor
<1>2. CASE ~MouseData(ctl)
  <2>1. UNCHANGED <<ctl, line, ebda, hist>>
    BY <1>2 DEF int74_function
  <2> QED
    BY <1>1, <2>1 DEF TypeInv, Requests, Known, Wired, Showing
<1>3. CASE MouseData(ctl)
  <2> DEFINE e == Collected(ebda, Shown(ctl).b)
             h == Reading("int74", "move")
  <2>1. Read /\ ebda' = e /\ hist' = [h EXCEPT !.packet = IF ebda.hooked /\ ebda.count = 2 /\ ebda.index = 2 THEN Packet(e) ELSE @]
    BY <1>3 DEF int74_function
  <2>2. Shown(ctl).b \in Octet
    BY <1>3, ShownWire DEF MouseData, OutputFull, TypeInv
  <2>3. /\ e \in [hooked : BOOLEAN, count : {0, 2}, index : 0 .. 2, data : [0 .. 2 -> Octet]]
        /\ Packet(e) \in [0 .. 2 -> Octet]
    <3> DEFINE b == Shown(ctl).b
    <3>1. b \in Octet
      BY <2>2
    <3> HIDE DEF b
    <3>2. ebda \in [hooked : BOOLEAN, count : {0, 2}, index : 0 .. 2, data : [0 .. 2 -> Octet]]
      BY DEF TypeInv
    <3>3. /\ Collected(ebda, b) \in [hooked : BOOLEAN, count : {0, 2}, index : 0 .. 2,
                                     data : [0 .. 2 -> Octet]]
          /\ Packet(Collected(ebda, b)) \in [0 .. 2 -> Octet]
      BY <3>1, <3>2, CollectedType
    <3> QED
      BY <3>3 DEF b
  <2>4. h \in History
    BY Disturbed DEF Reading, TypeInv, Readers
  <2> HIDE DEF e, h
  <2>5. hist' \in History
    <3>1. \A x \in {<<>>} \cup [0 .. 2 -> Octet] : [h EXCEPT !.packet = x] \in History
      BY <2>4 DEF History
    <3>2. h.packet \in {<<>>} \cup [0 .. 2 -> Octet]
      BY <2>4 DEF History
    <3> DEFINE x == IF ebda.hooked /\ ebda.count = 2 /\ ebda.index = 2 THEN Packet(e) ELSE h.packet
    <3>3. x \in {<<>>} \cup [0 .. 2 -> Octet] /\ hist' = [h EXCEPT !.packet = x]
      BY <2>1, <2>3, <3>2
    <3> HIDE DEF x
    <3> QED
      BY <3>1, <3>3
  <2>6. Wired(ctl)' /\ line' \in PicLines /\ Requests'
    BY <2>1, ReadType
  <2> QED
    BY <1>1, <2>1, <2>3, <2>5, <2>6 DEF TypeInv, Known
<1> QED
  BY <1>2, <1>3

LEMMA Int74DoneType == TypeInv /\ Requests /\ Int74Done => (TypeInv /\ Requests)'
<1> SUFFICES ASSUME TypeInv, Requests, Int74Done PROVE (TypeInv /\ Requests)'
  OBVIOUS
<1>1. line' \in PicLines /\ Requests'
  BY DEF Int74Done, TypeInv, PicLines, Requests
<1>2. cpu' \in Processor
  BY DEF Int74Done, TypeInv, Processor
<1> QED
  BY <1>1, <1>2 DEF Int74Done, TypeInv, Known, Wired, Showing

----------------------------------------------------------------------------
(* Types: the program's calls.                                             *)

\* A call that returns.
LEMMA ReturnType ==
  cpu \in Processor => Return \in Processor
<1>1. 0 \in Octet /\ 0 \in Int /\ BreakKey \in Keystroke
  BY DEF BreakKey, Keystroke, Columns, Octet
<1> QED
  BY <1>1, ZenonT(30) DEF Return, Processor

LEMMA Int16Type == TypeInv /\ Requests /\ Int16 => (TypeInv /\ Requests)'
<1> SUFFICES ASSUME TypeInv, Requests, Int16 PROVE (TypeInv /\ Requests)'
  OBVIOUS
<1>1. cpu' \in Processor
  <2> PICK fn \in Calls16 : cpu' = [cpu EXCEPT !.pc = IF fn = "read" THEN "wait" ELSE "leds", !.fn = fn]
    BY DEF Int16, Calls16
  <2> DEFINE p == IF fn = "read" THEN "wait" ELSE "leds"
  <2>1. p \in {"wait", "leds"} /\ cpu' = [cpu EXCEPT !.pc = p, !.fn = fn] /\ cpu \in Processor
    BY DEF TypeInv
  <2> HIDE DEF p
  <2>2. [cpu EXCEPT !.pc = p, !.fn = fn] \in Processor
    BY <2>1, ZenonT(30) DEF Processor
  <2> QED
    BY <2>1, <2>2
<1>2. hist' \in History
  BY Counted DEF Int16, TypeInv
<1> QED
  BY <1>1, <1>2 DEF Int16, TypeInv, Requests, Known, Wired, Showing

LEMMA FoundType == TypeInv /\ Requests /\ int16_key_found => (TypeInv /\ Requests)'
<1> SUFFICES ASSUME TypeInv, Requests, int16_key_found PROVE (TypeInv /\ Requests)'
  OBVIOUS
<1>1. cpu' \in Processor
  BY ZenonT(30) DEF int16_key_found, TypeInv, Processor
<1> QED
  BY <1>1 DEF int16_key_found, TypeInv, Requests, Known, Wired, Showing

LEMMA SendLampsType == TypeInv /\ Requests /\ Minding /\ SendLamps => (TypeInv /\ Requests)'
<1> SUFFICES ASSUME TypeInv, Requests, Minding, SendLamps PROVE (TypeInv /\ Requests)'
  OBVIOUS
<1>1. LampsOf(bda) \in SUBSET Shifts
  BY DEF LampsOf, Shifts
<1>2. cpu' \in Processor
  <2> DEFINE l == LampsOf(bda)
  <2>1. cpu.fn \in Calls16 /\ l \in SUBSET Shifts
    BY <1>1 DEF SendLamps, Minding
  <2>2. cpu' = [cpu EXCEPT !.pc = cpu.fn] \/ cpu' = [cpu EXCEPT !.pc = "lamps", !.if = FALSE, !.led = l]
    BY DEF SendLamps
  <2> HIDE DEF l
  <2>3. [cpu EXCEPT !.pc = cpu.fn] \in Processor
    BY <2>1, ZenonT(30) DEF TypeInv, Processor, Calls16
  <2>4. [cpu EXCEPT !.pc = "lamps", !.if = FALSE, !.led = l] \in Processor
    BY <2>1, ZenonT(30) DEF TypeInv, Processor
  <2> QED
    BY <2>2, <2>3, <2>4
<1>3. Wired(ctl)' /\ line' \in PicLines /\ Requests'
  <2>1. CASE LampsOf(bda) = bda.led
    BY <2>1 DEF SendLamps, TypeInv, Requests, Wired, Showing
  <2>2. CASE LampsOf(bda) # bda.led
    <3>1. 237 \in Octet
      BY DEF Octet
    <3>2. Wired(ToKeyboard(ctl, 237)) /\ Write(ToKeyboard(ctl, 237))
      BY <2>2, <3>1, SendWired DEF TypeInv, SendLamps
    <3> QED
      BY <3>2, WriteType
  <2> QED
    BY <2>1, <2>2
<1> QED
  BY <1>2, <1>3 DEF SendLamps, TypeInv, Known

LEMMA LampsAnsweredType ==
  TypeInv /\ Requests /\ Minding /\ LampsAnswered => (TypeInv /\ Requests)'
<1> SUFFICES ASSUME TypeInv, Requests, Minding, LampsAnswered PROVE (TypeInv /\ Requests)'
  OBVIOUS
<1> DEFINE told == Shown(ctl).b = Ack
           c == IF told THEN ToKeyboard(Taken(ctl), 0) ELSE Taken(ctl)
<1>1. /\ ctl' = c /\ line' = Lines(line, c, TRUE)
      /\ cpu' = IF told THEN [cpu EXCEPT !.pc = "lit"]
                ELSE [cpu EXCEPT !.pc = cpu.fn, !.if = TRUE, !.sti = TRUE]
      /\ hist' = Reading("lamps", "key") /\ UNCHANGED <<kbd, mouse, bda, ebda>>
  BY DEF LampsAnswered
<1>2. Wired(c)
  <2>1. 0 \in Octet /\ Wired(Taken(ctl))
    BY TakenWired DEF Octet, TypeInv
  <2>2. Wired(ToKeyboard(Taken(ctl), 0))
    BY <2>1, SendWired
  <2> QED
    BY <2>1, <2>2
<1> HIDE DEF c
<1>3. Wired(ctl)' /\ line' \in PicLines /\ Requests'
  BY <1>1, <1>2, LinesFollow DEF TypeInv, Requests, Wired, Showing
<1>4. cpu' \in Processor
  <2>1. cpu.fn \in Calls16
    BY DEF LampsAnswered, Minding
  <2>2. cpu' = [cpu EXCEPT !.pc = "lit"] \/ cpu' = [cpu EXCEPT !.pc = cpu.fn, !.if = TRUE, !.sti = TRUE]
    BY <1>1
  <2>3. [cpu EXCEPT !.pc = "lit"] \in Processor
    BY ZenonT(30) DEF TypeInv, Processor
  <2>4. [cpu EXCEPT !.pc = cpu.fn, !.if = TRUE, !.sti = TRUE] \in Processor
    BY <2>1, ZenonT(30) DEF TypeInv, Processor, Calls16
  <2> QED
    BY <2>2, <2>3, <2>4
<1>5. hist' \in History
  BY <1>1, Disturbed DEF Reading, TypeInv, Readers
<1> QED
  BY <1>1, <1>3, <1>4, <1>5 DEF TypeInv, Known

LEMMA LampsLitType == TypeInv /\ Requests /\ Minding /\ LampsLit => (TypeInv /\ Requests)'
<1> SUFFICES ASSUME TypeInv, Requests, Minding, LampsLit PROVE (TypeInv /\ Requests)'
  OBVIOUS
<1>1. Wired(ctl)' /\ line' \in PicLines /\ Requests'
  BY ReadType DEF LampsLit
<1>2. cpu' \in Processor
  <2>1. cpu.fn \in Calls16
    BY DEF LampsLit, Minding
  <2> QED
    BY <2>1, ZenonT(30) DEF LampsLit, TypeInv, Processor, Calls16
<1>3. hist' \in History
  BY Disturbed DEF LampsLit, Reading, TypeInv, Readers
<1>4. Known(bda)'
  <2>1. cpu.led \in SUBSET Shifts
    BY DEF TypeInv, Processor
  <2>2. Known(bda')
    BY <2>1 DEF LampsLit, TypeInv, Known, DataArea
  <2> QED
    BY <2>2 DEF Known
<1> QED
  BY <1>1, <1>2, <1>3, <1>4 DEF LampsLit, TypeInv

LEMMA IdentityType ==
  TypeInv /\ Requests /\ (AskIdentity \/ PollIdentity) => (TypeInv /\ Requests)'
<1> SUFFICES ASSUME TypeInv, Requests, AskIdentity \/ PollIdentity PROVE (TypeInv /\ Requests)'
  OBVIOUS
<1>1. cpu.slot \in Int /\ cpu.slot - 1 \in Int
  BY DEF TypeInv, Processor
<1>2. cpu' \in Processor
  <2> DEFINE n == cpu.slot - 1
  <2>1. \/ cpu' = [cpu EXCEPT !.pc = "poll", !.slot = 3]
        \/ cpu' = Return
        \/ cpu' = [cpu EXCEPT !.slot = n]
    BY DEF AskIdentity, PollIdentity
  <2> HIDE DEF n
  <2>2. n \in Int
    BY <1>1 DEF n
  <2>3. [cpu EXCEPT !.pc = "poll", !.slot = 3] \in Processor
    <3> DEFINE m == 3
    <3>1. m \in Int
      OBVIOUS
    <3> HIDE DEF m
    <3>2. [cpu EXCEPT !.pc = "poll", !.slot = m] \in Processor
      BY <3>1, ZenonT(30) DEF TypeInv, Processor
    <3> QED
      BY <3>2 DEF m
  <2>4. [cpu EXCEPT !.slot = n] \in Processor
    BY <2>2 DEF TypeInv, Processor
  <2> QED
    BY <2>1, <2>3, <2>4, ReturnType DEF TypeInv
<1>3. Wired(ctl)' /\ line' \in PicLines /\ Requests'
  <2>1. CASE Write(ToKeyboard(ctl, Identify))
    BY <2>1, OctetsFit, SendWired, WriteType DEF TypeInv
  <2>2. CASE Read
    BY <2>2, ReadType
  <2>3. CASE UNCHANGED <<ctl, line>>
    BY <2>3 DEF TypeInv, Requests, Wired, Showing
  <2> QED
    BY <2>1, <2>2, <2>3 DEF AskIdentity, PollIdentity
<1>4. hist' \in History
  <2>1. hist' = hist \/ hist' = Disturb(hist, "identity", Shown(ctl).tag # "key")
    BY DEF AskIdentity, PollIdentity, Reading
  <2>2. hist \in History /\ "identity" \in Readers
    BY DEF TypeInv, Readers
  <2> QED
    BY <2>1, <2>2, Disturbed
<1> QED
  BY <1>2, <1>3, <1>4 DEF AskIdentity, PollIdentity, TypeInv, Known

\* The lists of steps the mouse services run.
LEMMA ServiceStepsType ==
  ASSUME NEW f
  PROVE  ServiceSteps(f) \in Seq(Steps)
<1>1. Inhibit \in Seq(Steps)
  BY DEF Inhibit, Steps
<1>2. \A t \in Seq(Steps) : Inhibit \o t \in Seq(Steps)
  BY <1>1, ConcatProperties
<1> DEFINE a == <<"send", "get", "acked", "ask", "enable">>
           b == <<"send", "get", "send", "get">>
           c == <<"restore">>
           d == <<"send", "get", "get">>
           e == <<"send", "get", "restore">>
           n == <<>>
<1>3. /\ a \in Seq(Steps) /\ b \in Seq(Steps) /\ c \in Seq(Steps) /\ d \in Seq(Steps)
      /\ e \in Seq(Steps) /\ n \in Seq(Steps)
  BY DEF Steps
<1>4. \/ ServiceSteps(f) = Inhibit \o a \/ ServiceSteps(f) = b \/ ServiceSteps(f) = Inhibit \o c
      \/ ServiceSteps(f) = Inhibit \o d \/ ServiceSteps(f) = Inhibit \o e
      \/ ServiceSteps(f) = Inhibit \/ ServiceSteps(f) = n
  BY DEF ServiceSteps
<1> HIDE DEF a, b, c, d, e, n
<1> QED
  BY <1>1, <1>2, <1>3, <1>4

LEMMA Int15Type == TypeInv /\ Requests /\ Int15C2 => (TypeInv /\ Requests)'
<1> SUFFICES ASSUME TypeInv, Requests, Int15C2 PROVE (TypeInv /\ Requests)'
  OBVIOUS
<1> PICK f \in Services :
       /\ cpu' = [cpu EXCEPT !.pc = "service", !.fn = f, !.if = FALSE, !.steps = ServiceSteps(f)]
       /\ ebda' = IF f = "init" THEN [ebda EXCEPT !.count = 2, !.index = 0] ELSE ebda
       /\ hist' = Disturb([hist EXCEPT !.calls = @ + 1], "command", f = "init" /\ Midway)
  BY DEF Int15C2
<1>1. cpu' \in Processor
  <2> DEFINE s == ServiceSteps(f)
  <2>1. s \in Seq(Steps) /\ cpu' = [cpu EXCEPT !.pc = "service", !.fn = f, !.if = FALSE, !.steps = s]
    BY ServiceStepsType
  <2>2. cpu \in Processor
    BY DEF TypeInv
  <2> HIDE DEF s
  <2>3. [cpu EXCEPT !.pc = "service", !.fn = f, !.if = FALSE, !.steps = s] \in Processor
    BY <2>1, <2>2, ZenonT(30) DEF Processor
  <2> QED
    BY <2>1, <2>3
<1>2. hist' \in History
  <2> DEFINE h == [hist EXCEPT !.calls = @ + 1]
  <2>1. h \in History
    BY Counted DEF TypeInv
  <2> HIDE DEF h
  <2>2. hist' = Disturb(h, "command", f = "init" /\ Midway)
    BY DEF h
  <2> QED
    BY <2>1, <2>2, Disturbed DEF Readers
<1>3. ebda' \in [hooked : BOOLEAN, count : {0, 2}, index : 0 .. 2, data : [0 .. 2 -> Octet]]
  <2>1. \A c \in {0, 2}, i \in 0 .. 2 : [ebda EXCEPT !.count = c, !.index = i]
          \in [hooked : BOOLEAN, count : {0, 2}, index : 0 .. 2, data : [0 .. 2 -> Octet]]
    BY DEF TypeInv
  <2>2. [ebda EXCEPT !.count = 2, !.index = 0]
          \in [hooked : BOOLEAN, count : {0, 2}, index : 0 .. 2, data : [0 .. 2 -> Octet]]
    BY <2>1
  <2> QED
    BY <2>2 DEF TypeInv
<1> QED
  BY <1>1, <1>2, <1>3 DEF Int15C2, TypeInv, Requests, Known, Wired, Showing

LEMMA NextStepType ==
  ASSUME TypeInv, cpu.steps # <<>>
  PROVE  /\ Next1 \in Processor
         /\ \A b \in Octet : [Next1 EXCEPT !.prev = b] \in Processor
                             /\ [Next1 EXCEPT !.got = b] \in Processor
         /\ [cpu EXCEPT !.steps = <<>>] \in Processor
<1> DEFINE t == Tail(cpu.steps)
<1>1. t \in Seq(Steps) /\ <<>> \in Seq(Steps) /\ cpu \in Processor
  <2>1. cpu.steps \in Seq(Steps)
    BY DEF TypeInv, Processor
  <2> QED
    BY <2>1, HeadTailProperties DEF TypeInv
<1>2. Next1 = [cpu EXCEPT !.steps = t]
  BY DEF Next1
<1> HIDE DEF t
<1>3. Next1 \in Processor
  BY <1>1, <1>2 DEF Processor
<1>4. ASSUME NEW b \in Octet PROVE [Next1 EXCEPT !.prev = b] \in Processor /\ [Next1 EXCEPT !.got = b] \in Processor
  <2> PICK next \in Processor : next = Next1
    BY <1>3
  <2>1. [next EXCEPT !.prev = b] \in Processor
    BY ZenonT(30) DEF Processor
  <2>2. [next EXCEPT !.got = b] \in Processor
    BY ZenonT(30) DEF Processor
  <2> QED
    BY <2>1, <2>2
<1>5. [cpu EXCEPT !.steps = <<>>] \in Processor
  BY <1>1 DEF Processor
<1> QED
  BY <1>3, <1>4, <1>5

LEMMA ServiceType == TypeInv /\ Requests /\ Service => (TypeInv /\ Requests)'
<1> SUFFICES ASSUME TypeInv, Requests, Service PROVE (TypeInv /\ Requests)'
  OBVIOUS
<1>1. CASE AskCommandByte
  <2> DEFINE byte == Byte(CommandByte(ctl), "reply")
  <2>1. byte \in Wire
    BY CommandWired DEF Byte, Wire, TypeInv
  <2>2. Write(PutKey(ctl, byte)) /\ cpu' = Next1 /\ UNCHANGED <<kbd, mouse, bda, ebda, hist>>
    BY <1>1 DEF AskCommandByte
  <2> HIDE DEF byte
  <2>3. Wired(ctl)' /\ line' \in PicLines /\ Requests'
    BY <2>1, <2>2, PutWired, WriteType DEF TypeInv
  <2> QED
    BY <1>1, <2>2, <2>3, NextStepType DEF TypeInv, Known, AskCommandByte, InService
<1>2. CASE ChangeCommandByte
  <2> PICK step \in {"inhibit", "enable"} :
       /\ InService(step)
       /\ LET b == Shown(ctl).b
              new == SetCommandByte(Taken(ctl), IF step = "inhibit" THEN Inhibited(b) ELSE Enabled(b))
          IN  ctl' = new /\ line' = Lines(line, new, TRUE)
       /\ cpu' = [Next1 EXCEPT !.prev = Shown(ctl).b]
    BY <1>2 DEF ChangeCommandByte
  <2> DEFINE b == Shown(ctl).b
             new == SetCommandByte(Taken(ctl), IF step = "inhibit" THEN Inhibited(b) ELSE Enabled(b))
  <2>1. b \in Octet
    BY <1>2, ShownWire DEF ChangeCommandByte, OutputFull, TypeInv
  <2>2. Wired(new) /\ ctl' = new /\ line' = Lines(line, new, TRUE)
    BY TakenWired, CommandWired DEF TypeInv
  <2>3. cpu' \in Processor
    BY <2>1, NextStepType DEF InService
  <2> HIDE DEF new
  <2>4. Wired(ctl)' /\ line' \in PicLines /\ Requests'
    BY <2>2, FellType
  <2>5. hist' \in History
    BY <1>2, Disturbed DEF ChangeCommandByte, Reading, TypeInv, Readers
  <2> QED
    BY <1>2, <2>3, <2>4, <2>5 DEF ChangeCommandByte, TypeInv, Known
<1>3. CASE RestoreCommandByte
  <2>1. Wired(ctl)' /\ line' \in PicLines /\ Requests'
    BY <1>3, CommandWired, WriteType DEF RestoreCommandByte, TypeInv
  <2> QED
    BY <1>3, <2>1, NextStepType DEF RestoreCommandByte, InService, TypeInv, Known
<1>4. CASE SendToMouse
  <2>1. ServiceByte(cpu.fn) \in Octet
    BY DEF ServiceByte, Identify, Octet
  <2>2. Wired(ctl)' /\ line' \in PicLines /\ Requests'
    BY <1>4, <2>1, SendWired, WriteType DEF SendToMouse, TypeInv
  <2> QED
    BY <1>4, <2>2, NextStepType DEF SendToMouse, InService, TypeInv, Known
<1>5. CASE GetMouseData
  <2>1. Wired(ctl)' /\ line' \in PicLines /\ Requests'
    BY <1>5, ReadType DEF GetMouseData
  <2>2. Shown(ctl).b \in Octet
    BY <1>5, ShownWire DEF GetMouseData, MouseData, OutputFull, TypeInv
  <2>3. cpu' \in Processor
    BY <1>5, <2>2, NextStepType DEF GetMouseData, InService
  <2>4. hist' \in History
    BY <1>5, Disturbed DEF GetMouseData, Reading, TypeInv, Readers
  <2> QED
    BY <1>5, <2>1, <2>3, <2>4 DEF GetMouseData, TypeInv, Known
<1>6. CASE CheckAck
  <2>1. cpu' \in Processor
    BY <1>6, NextStepType DEF CheckAck, InService
  <2> QED
    BY <1>6, <2>1 DEF CheckAck, TypeInv, Requests, Known, Wired, Showing
<1>7. CASE ServiceDone
  <2>1. ebda' \in [hooked : BOOLEAN, count : {0, 2}, index : 0 .. 2, data : [0 .. 2 -> Octet]]
    <3> DEFINE h == CASE cpu.fn = "hook" -> TRUE [] cpu.fn = "unhook" -> FALSE [] OTHER -> ebda.hooked
    <3>1. h \in BOOLEAN
      BY DEF TypeInv
    <3>2. ebda' = [ebda EXCEPT !.hooked = h]
      BY <1>7 DEF ServiceDone
    <3> HIDE DEF h
    <3> QED
      BY <3>1, <3>2 DEF TypeInv
  <2>2. cpu' \in Processor
    BY <1>7, ReturnType DEF ServiceDone, TypeInv
  <2> QED
    BY <1>7, <2>1, <2>2 DEF ServiceDone, TypeInv, Requests, Known, Wired, Showing
<1> QED
  BY <1>1, <1>2, <1>3, <1>4, <1>5, <1>6, <1>7 DEF Service

----------------------------------------------------------------------------
(* Taking and storing a key.                                               *)

\* The ring of the data area, and its contents.
LEMMA RingNow ==
  ASSUME TypeInv, BufferIsQueue
  PROVE  /\ bda.head \in Slot /\ bda.tail \in Slot /\ bda.buf \in [Slot -> Keystroke]
         /\ hist.queue = RingOf(bda.head, bda.tail, bda.buf)
         /\ hist.queue \in Seq(Keystroke)
         /\ hist.queue # <<>> <=> bda.head # bda.tail
         /\ hist.queue # <<>> => Head(hist.queue) = bda.buf[bda.head]
<1>1. bda.head \in Slot /\ bda.tail \in Slot /\ bda.buf \in [Slot -> Keystroke]
  BY DEF TypeInv, Known, DataArea
<1>2. hist.queue = RingOf(bda.head, bda.tail, bda.buf)
  BY ContentsOf DEF BufferIsQueue
<1> PICK h \in Slot : bda.head = h
  BY <1>1
<1> PICK t \in Slot : bda.tail = t
  BY <1>1
<1> PICK buf \in [Slot -> Keystroke] : bda.buf = buf
  BY <1>1
<1> DEFINE q == RingOf(h, t, buf)
<1>3. q \in Seq(Keystroke) /\ Len(q) = Depth(h, t)
  BY RingSeq
<1>4. h = t => q = <<>>
  <2> SUFFICES ASSUME h = t PROVE q = <<>>
    OBVIOUS
  <2>1. Depth(h, t) = 0
    BY DEF Depth, Slot
  <2> HIDE DEF q
  <2> QED
    BY <1>3, <2>1
<1>5. h # t => q # <<>> /\ Head(q) = buf[h]
  BY RingTail
<1>6. hist.queue = q
  BY <1>2
<1> HIDE DEF q
<1> QED
  BY <1>1, <1>2, <1>3, <1>4, <1>5, <1>6

LEMMA DequeueType ==
  TypeInv /\ Requests /\ (DequeueKey \/ StoreKey \/ CheckKey) => (TypeInv /\ Requests)'
<1> SUFFICES ASSUME TypeInv, Requests, DequeueKey \/ StoreKey \/ CheckKey
             PROVE  (TypeInv /\ Requests)'
  OBVIOUS
<1>1. bda.head \in Int /\ bda.tail \in Int /\ bda.buf[bda.head] \in Keystroke
  <2>1. bda.head \in Slot /\ bda.tail \in Slot /\ bda.buf \in [Slot -> Keystroke]
    BY DEF TypeInv, Known, DataArea
  <2> QED
    BY <2>1 DEF Slot
<1>2. \/ cpu' = Return
      \/ cpu' = [cpu EXCEPT !.pc = "take", !.slot = bda.head, !.got = bda.buf[bda.head]]
      \/ cpu' = [cpu EXCEPT !.pc = "stored", !.slot = bda.tail]
  BY DEF DequeueKey, StoreKey, CheckKey
<1>3. [cpu EXCEPT !.pc = "take", !.slot = bda.head, !.got = bda.buf[bda.head]] \in Processor
  <2> DEFINE k == bda.buf[bda.head]
  <2>1. k \in Keystroke
    BY <1>1
  <2> HIDE DEF k
  <2>2. [cpu EXCEPT !.pc = "take", !.slot = bda.head, !.got = k] \in Processor
    BY <1>1, <2>1 DEF TypeInv, Processor
  <2> QED
    BY <2>2 DEF k
<1>4. [cpu EXCEPT !.pc = "stored", !.slot = bda.tail] \in Processor
  BY <1>1, ZenonT(30) DEF TypeInv, Processor
<1>5. cpu' \in Processor
  BY <1>2, <1>3, <1>4, ReturnType DEF TypeInv
<1> QED
  BY <1>5 DEF DequeueKey, StoreKey, CheckKey, TypeInv, Requests, Known, Wired, Showing

LEMMA MoveHeadStep ==
  IInv /\ MoveHead => (TypeInv /\ Requests /\ BufferIsQueue /\ ReadIsAtomic)'
<1> SUFFICES ASSUME IInv, MoveHead PROVE (TypeInv /\ Requests /\ BufferIsQueue /\ ReadIsAtomic)'
  OBVIOUS
<1> USE DEF IInv
<1>1. PICK h \in Slot : bda.head = h
  BY RingNow
<1>2. PICK t \in Slot : bda.tail = t
  BY RingNow
<1>3. PICK buf \in [Slot -> Keystroke] : bda.buf = buf
  BY RingNow
<1> DEFINE u == NextSlot(h)
           q == RingOf(h, t, buf)
           r == RingOf(u, t, buf)
<1>4. u \in Slot
  BY NextOfSlot
<1>5. bda' = [bda EXCEPT !.head = u]
  BY <1>1 DEF MoveHead, Holding
<1>6. Contents(bda') = r /\ Known(bda')
  <2> HIDE DEF u
  <2>1. /\ bda' \in DataArea /\ "mf101" \in bda'.state
        /\ bda'.head = u /\ bda'.tail = t /\ bda'.buf = buf
    BY <1>2, <1>3, <1>4, <1>5 DEF TypeInv, Known, DataArea
  <2> QED
    BY <2>1, ContentsOf DEF Known
<1>7. r \in Seq(Keystroke)
  <2> HIDE DEF u
  <2> QED
    BY <1>4, RingSeq
<1>8. hist.queue = q /\ (q # <<>> <=> h # t) /\ (q # <<>> => Head(q) = buf[h] /\ r = Tail(q))
  <2>1. hist.queue = q /\ (q # <<>> <=> h # t) /\ (q # <<>> => Head(q) = buf[h])
    BY <1>1, <1>2, <1>3, RingNow
  <2>2. h # t => r = Tail(q)
    BY RingTail
  <2> QED
    BY <2>1, <2>2
<1> HIDE DEF u, q, r
<1>9. hist' = IF hist.queue # <<>> /\ Head(hist.queue) = cpu.got
               THEN [hist EXCEPT !.queue = Tail(@)]
               ELSE [hist EXCEPT !.queue = r,
                                 !.raced = @ \cup {IF cpu.sti THEN "lamps" ELSE "read"}]
  BY <1>6 DEF MoveHead
<1>10. /\ hist' \in History /\ hist'.queue = r /\ "read" \notin hist'.raced
  <2>1. CASE hist.queue # <<>> /\ Head(hist.queue) = cpu.got
    <3>1. hist' = [hist EXCEPT !.queue = r]
      BY <1>8, <1>9, <2>1
    <3> QED
      BY <1>7, <3>1 DEF TypeInv, History, ReadIsAtomic
  <2>2. CASE ~(hist.queue # <<>> /\ Head(hist.queue) = cpu.got)
    <3>1. cpu.sti
      <4> SUFFICES ASSUME ~cpu.sti PROVE FALSE
        OBVIOUS
      <4>1. bda.head # bda.tail /\ cpu.got = bda.buf[bda.head]
        BY DEF MoveHead, Closed, TakingKey
      <4> QED
        BY <1>1, <1>2, <1>3, <1>8, <2>2, <4>1
    <3>2. hist' = [hist EXCEPT !.queue = r, !.raced = @ \cup {"lamps"}]
      BY <1>9, <2>2, <3>1
    <3> QED
      BY <1>7, <3>2 DEF TypeInv, History, ReadIsAtomic
  <2> QED
    BY <2>1, <2>2
<1>11. cpu' \in Processor
  BY ReturnType DEF MoveHead, TypeInv
<1> QED
  BY <1>6, <1>10, <1>11
  DEF MoveHead, TypeInv, Requests, Known, Wired, Showing, BufferIsQueue, ReadIsAtomic

LEMMA MoveTailStep ==
  IInv /\ MoveTail => (TypeInv /\ Requests /\ BufferIsQueue /\ ReadIsAtomic)'
<1> SUFFICES ASSUME IInv, MoveTail PROVE (TypeInv /\ Requests /\ BufferIsQueue /\ ReadIsAtomic)'
  OBVIOUS
<1> USE DEF IInv
<1>1. PICK h \in Slot : bda.head = h
  BY RingNow
<1>2. PICK t \in Slot : bda.tail = t
  BY RingNow
<1>3. PICK buf \in [Slot -> Keystroke] : bda.buf = buf
  BY RingNow
<1>4. PICK s \in Slot : cpu.slot = s /\ NextSlot(s) # h
  BY <1>1 DEF MoveTail, Holding
<1> DEFINE u == NextSlot(s)
           after == [buf EXCEPT ![s] = StoredKey]
           q == RingOf(h, t, buf)
           r == RingOf(h, u, after)
<1>5. u \in Slot /\ StoredKey \in Keystroke /\ after \in [Slot -> Keystroke]
  <2>1. u \in Slot
    BY NextOfSlot
  <2>2. StoredKey \in Keystroke
    BY DEF StoredKey, Keystroke, Columns
  <2> QED
    BY <2>1, <2>2
<1>6. s = t => r = Append(q, StoredKey)
  <2> SUFFICES ASSUME s = t PROVE r = Append(q, StoredKey)
    OBVIOUS
  <2>1. NextSlot(t) # h
    BY <1>4
  <2>2. RingOf(h, NextSlot(t), [buf EXCEPT ![t] = StoredKey]) = Append(RingOf(h, t, buf), StoredKey)
    <3>1. StoredKey \in Keystroke
      BY <1>5
    <3>2. \A k \in Keystroke :
            RingOf(h, NextSlot(t), [buf EXCEPT ![t] = k]) = Append(RingOf(h, t, buf), k)
      BY <2>1, RingAppend, Zenon
    <3> QED
      BY <3>1, <3>2, Zenon
  <2> QED
    BY <2>2
<1>7. bda' = [bda EXCEPT !.buf = after, !.tail = u]
  BY <1>3, <1>4 DEF MoveTail
<1>8. hist.queue = q
  BY <1>1, <1>2, <1>3, RingNow
<1>9. r \in Seq(Keystroke)
  <2> HIDE DEF u, after
  <2> QED
    BY <1>5, RingSeq
<1> HIDE DEF u, after, q
<1>10. Contents(bda') = r /\ Known(bda')
  <2>1. /\ bda' \in DataArea /\ "mf101" \in bda'.state
        /\ bda'.head = h /\ bda'.tail = u /\ bda'.buf = after
    BY <1>1, <1>5, <1>7 DEF TypeInv, Known, DataArea
  <2> QED
    BY <2>1, ContentsOf DEF Known
<1> HIDE DEF r
<1>11. hist' = IF t = s THEN [hist EXCEPT !.queue = Append(@, StoredKey)]
               ELSE [hist EXCEPT !.queue = r, !.raced = @ \cup {"store"}]
  BY <1>2, <1>4, <1>10 DEF MoveTail
<1>12. hist' \in History /\ hist'.queue = r /\ "read" \notin hist'.raced
  <2>1. CASE t = s
    <3>1. hist' = [hist EXCEPT !.queue = r]
      BY <1>6, <1>8, <1>11, <2>1
    <3> QED
      BY <1>9, <3>1 DEF TypeInv, History, ReadIsAtomic
  <2>2. CASE t # s
    <3>1. hist' = [hist EXCEPT !.queue = r, !.raced = @ \cup {"store"}]
      BY <1>11, <2>2
    <3> QED
      BY <1>9, <3>1 DEF TypeInv, History, ReadIsAtomic
  <2> QED
    BY <2>1, <2>2
<1>13. cpu' \in Processor
  BY ReturnType DEF MoveTail, TypeInv
<1> QED
  BY <1>10, <1>12, <1>13
  DEF MoveTail, TypeInv, Requests, Known, Wired, Showing, BufferIsQueue, ReadIsAtomic

----------------------------------------------------------------------------
(* The invariant holds in every state.                                     *)

\* The steps that leave the ring and its history alone.
Elsewhere == \/ Devices \/ Int09Read \/ Int74 \/ int74_function \/ Int74Done
             \/ Int16 \/ int16_key_found \/ SendLamps \/ LampsAnswered \/ LampsLit
             \/ DequeueKey \/ CheckKey \/ StoreKey \/ AskIdentity \/ PollIdentity
             \/ Int15C2 \/ Service

LEMMA ElsewhereKeeps ==
  ASSUME TypeInv, Elsewhere
  PROVE  /\ bda'.head = bda.head /\ bda'.tail = bda.tail /\ bda'.buf = bda.buf
         /\ hist'.queue = hist.queue /\ hist'.raced = hist.raced
<1>1. bda' = bda \/ bda' = [bda EXCEPT !.led = cpu.led]
  BY DEF Elsewhere, Devices, SendKey, SendMove, DeviceAnswers, Int09Read, Int74, int74_function,
         Int74Done, Int16, int16_key_found, SendLamps, LampsAnswered, LampsLit, DequeueKey,
         CheckKey, StoreKey, AskIdentity, PollIdentity, Int15C2, Service, AskCommandByte,
         ChangeCommandByte, RestoreCommandByte, SendToMouse, GetMouseData, CheckAck, ServiceDone
<1>2. hist \in History
  BY DEF TypeInv
<1>3. \A h \in History, who \in Readers : \A did :
        /\ Disturb(h, who, did) \in History
        /\ Disturb(h, who, did).queue = h.queue /\ Disturb(h, who, did).raced = h.raced
  BY Disturbed
<1>4. \A h \in History : \A x :
        /\ [h EXCEPT !.packet = x].queue = h.queue
        /\ [h EXCEPT !.packet = x].raced = h.raced
  BY DEF History
<1>5. /\ [hist EXCEPT !.keys = @ + 1].queue = hist.queue
      /\ [hist EXCEPT !.keys = @ + 1].raced = hist.raced
      /\ [hist EXCEPT !.moves = @ + 1].queue = hist.queue
      /\ [hist EXCEPT !.moves = @ + 1].raced = hist.raced
      /\ [hist EXCEPT !.calls = @ + 1].queue = hist.queue
      /\ [hist EXCEPT !.calls = @ + 1].raced = hist.raced
      /\ [hist EXCEPT !.calls = @ + 1] \in History
  BY <1>2, Counted DEF History
<1>6. hist'.queue = hist.queue /\ hist'.raced = hist.raced
  <2>1. CASE Devices
    <3>1. \/ hist' = hist \/ hist' = [hist EXCEPT !.keys = @ + 1] \/ hist' = [hist EXCEPT !.moves = @ + 1]
          \/ \E did : hist' = Disturb(hist, "command", did)
      BY <2>1 DEF Devices, SendKey, SendMove, DeviceAnswers
    <3>2. \A did : /\ Disturb(hist, "command", did).queue = hist.queue
                   /\ Disturb(hist, "command", did).raced = hist.raced
      BY <1>2, <1>3 DEF Readers
    <3> QED
      BY <1>5, <3>1, <3>2
  <2>2. CASE int74_function
    <3>1. hist' = hist \/ \E x : hist' = [Reading("int74", "move") EXCEPT !.packet = x]
      BY <2>2 DEF int74_function
    <3>2. /\ Reading("int74", "move") \in History
          /\ Reading("int74", "move").queue = hist.queue /\ Reading("int74", "move").raced = hist.raced
      BY <1>2, <1>3 DEF Reading, Readers
    <3>3. CASE hist' = hist
      BY <3>3
    <3>4. CASE \E x : hist' = [Reading("int74", "move") EXCEPT !.packet = x]
      <4> DEFINE h == Reading("int74", "move")
      <4> PICK x : hist' = [h EXCEPT !.packet = x]
        BY <3>4
      <4> HIDE DEF h
      <4>1. h \in History /\ h.queue = hist.queue /\ h.raced = hist.raced
        BY <3>2 DEF h
      <4> QED
        BY <1>4, <4>1
    <3> QED
      BY <3>1, <3>3, <3>4
  <2>3. CASE Int15C2
    <3>1. \E did : hist' = Disturb([hist EXCEPT !.calls = @ + 1], "command", did)
      BY <2>3 DEF Int15C2
    <3> DEFINE h == [hist EXCEPT !.calls = @ + 1]
    <3> HIDE DEF h
    <3>2. h \in History /\ h.queue = hist.queue /\ h.raced = hist.raced
      BY <1>5 DEF h
    <3>3. \E did : hist' = Disturb(h, "command", did)
      BY <3>1 DEF h
    <3> QED
      BY <1>3, <3>2, <3>3 DEF Readers
  <2>4. CASE Int16
    BY <1>5, <2>4 DEF Int16
  <2>5. CASE Int09Read \/ LampsAnswered \/ LampsLit \/ PollIdentity \/ Service
    <3>1. hist' = hist \/ \E who \in Readers : \E tag : hist' = Disturb(hist, who, Shown(ctl).tag # tag)
      BY <2>5 DEF Int09Read, LampsAnswered, LampsLit, PollIdentity, Service, AskCommandByte,
         ChangeCommandByte, RestoreCommandByte, SendToMouse, GetMouseData, CheckAck, ServiceDone,
         Reading, Readers
    <3> QED
      BY <1>2, <1>3, <3>1
  <2>6. CASE \/ Int74 \/ Int74Done \/ int16_key_found \/ SendLamps \/ DequeueKey
             \/ CheckKey \/ StoreKey \/ AskIdentity
    BY <2>6 DEF Int74, Int74Done, int16_key_found, SendLamps, DequeueKey, CheckKey, StoreKey, AskIdentity
  <2> QED
    BY <2>1, <2>2, <2>3, <2>4, <2>5, <2>6 DEF Elsewhere
<1>7. bda \in DataArea
  BY DEF TypeInv, Known
<1> QED
  BY <1>1, <1>6, <1>7 DEF DataArea

LEMMA TypeNext ==
  IInv /\ Next => (TypeInv /\ Requests /\ BufferIsQueue /\ ReadIsAtomic)'
<1> SUFFICES ASSUME IInv, Next PROVE (TypeInv /\ Requests /\ BufferIsQueue /\ ReadIsAtomic)'
  OBVIOUS
<1> USE DEF IInv
<1>1. CASE Elsewhere
  <2>1. (TypeInv /\ Requests)'
    <3>1. CASE Devices
      BY <3>1, SendKeyType, SendMoveType, DeviceAnswersType DEF Devices
    <3>2. CASE Int09Read \/ Int74 \/ int74_function \/ Int74Done
      BY <3>2, Int09ReadType, Int74Type, int74_functionType, Int74DoneType
    <3>3. CASE Int16 \/ int16_key_found \/ SendLamps \/ LampsAnswered \/ LampsLit
      BY <3>3, Int16Type, FoundType, SendLampsType, LampsAnsweredType, LampsLitType
    <3>4. CASE DequeueKey \/ CheckKey \/ StoreKey \/ AskIdentity \/ PollIdentity
      BY <3>4, DequeueType, IdentityType
    <3>5. CASE Int15C2 \/ Service
      BY <3>5, Int15Type, ServiceType
    <3> QED
      BY <1>1, <3>1, <3>2, <3>3, <3>4, <3>5 DEF Elsewhere
  <2>2. /\ bda'.head = bda.head /\ bda'.tail = bda.tail /\ bda'.buf = bda.buf
        /\ hist'.queue = hist.queue /\ hist'.raced = hist.raced
    BY <1>1, ElsewhereKeeps
  <2>3. Contents(bda') = Contents(bda)
    BY <2>2 DEF Contents
  <2> QED
    BY <2>1, <2>2, <2>3 DEF BufferIsQueue, ReadIsAtomic
<1>2. CASE Int09Work
  <2>1. (TypeInv /\ Requests /\ BufferIsQueue)'
    BY <1>2, Int09WorkType
  <2>2. hist'.raced = hist.raced
    BY <1>2 DEF Int09Work, TypeInv, History
  <2> QED
    BY <2>1, <2>2 DEF ReadIsAtomic
<1>3. CASE MoveHead \/ MoveTail
  BY <1>3, MoveHeadStep, MoveTailStep
<1> QED
  BY <1>1, <1>2, <1>3 DEF Next, Elsewhere, Handlers, Keyboard

\* A call that has returned is none of these.
LEMMA Returned ==
  ASSUME TypeInv, cpu' = Return
  PROVE  (Minding /\ Holding /\ Closed)'
<1>1. cpu'.pc = "run"
  BY DEF TypeInv, Processor, Return
<1> QED
  BY <1>1 DEF Minding, Holding, Closed, TakingKey

LEMMA StageNext ==
  IInv /\ Next => (Minding /\ Holding /\ Closed)'
<1> SUFFICES ASSUME IInv, Next PROVE (Minding /\ Holding /\ Closed)'
  OBVIOUS
<1> USE DEF IInv
<1>0. cpu \in Processor /\ bda \in DataArea
  BY DEF TypeInv, Known
<1>1. CASE UNCHANGED cpu /\ Devices
  <2>1. UNCHANGED bda
    BY <1>1 DEF Devices, SendKey, SendMove, DeviceAnswers
  <2> QED
    BY <1>1, <2>1 DEF Minding, Holding, Closed, TakingKey
<1>2. CASE Int09Read
  <2>1. cpu' = [cpu EXCEPT !.on9 = "work", !.key = Shown(ctl).b] /\ UNCHANGED bda
    BY <1>2 DEF Int09Read
  <2>2. ~(TakingKey /\ ~cpu.sti)
    BY <1>2 DEF Int09Read, Open, Delaying, Closed, TakingKey
  <2> QED
    BY <1>0, <2>1, <2>2 DEF Processor, Minding, Holding, Closed, TakingKey
<1>3. CASE Int09Work
  <2>1. cpu' = [cpu EXCEPT !.on9 = "off", !.key = 0] /\ cpu.on9 = "work"
    BY <1>3 DEF Int09Work
  <2>2. ~(TakingKey /\ ~cpu.sti)
    BY <2>1 DEF Closed
  <2>3. bda'.head = bda.head
    <3>1. bda' = AfterByte(bda, cpu.key)
      BY <1>3 DEF Int09Work, AfterByte
    <3>2. Heard(bda, cpu.key, bda')
      BY <1>0, <3>1, AfterByteRing DEF TypeInv, Processor
    <3> QED
      BY <1>0, <3>2, HeardContents DEF TypeInv, Processor
  <2> QED
    BY <1>0, <2>1, <2>2, <2>3 DEF Processor, Minding, Holding, Closed, TakingKey
<1>4. CASE Int74 \/ int74_function \/ Int74Done
  <2>1. \E x \in {"read", "call", "off"} : cpu' = [cpu EXCEPT !.on74 = x]
    BY <1>4 DEF Int74, int74_function, Int74Done
  <2>2. UNCHANGED bda
    BY <1>4 DEF Int74, int74_function, Int74Done
  <2>3. ~(TakingKey /\ ~cpu.sti)
    BY <1>4 DEF Int74, int74_function, Int74Done, Open, Delaying, Closed, TakingKey
  <2> QED
    BY <1>0, <2>1, <2>2, <2>3 DEF Processor, Minding, Holding, Closed, TakingKey
<1>5. CASE Int16
  <2> PICK fn \in Calls16 : cpu' = [cpu EXCEPT !.pc = IF fn = "read" THEN "wait" ELSE "leds", !.fn = fn]
    BY <1>5 DEF Int16, Calls16
  <2>1. UNCHANGED bda
    BY <1>5 DEF Int16
  <2>2. cpu'.pc = (IF fn = "read" THEN "wait" ELSE "leds") /\ cpu'.fn = fn
    BY <1>0 DEF Processor
  <2> QED
    BY <2>1, <2>2 DEF Minding, Holding, Closed, TakingKey
<1>6. CASE int16_key_found
  <2>1. /\ cpu' = [cpu EXCEPT !.pc = "leds", !.if = FALSE] /\ cpu.on9 = "off" /\ cpu.on74 = "off"
        /\ UNCHANGED bda /\ bda.head # bda.tail /\ cpu.pc = "wait"
    BY <1>6 DEF int16_key_found, Running
  <2> QED
    BY <1>0, <2>1 DEF Processor, Minding, Holding, Closed, TakingKey
<1>7. CASE SendLamps
  <2>1. /\ cpu.pc = "leds" /\ cpu.fn \in Calls16 /\ UNCHANGED bda
        /\ \/ cpu' = [cpu EXCEPT !.pc = cpu.fn]
           \/ cpu' = [cpu EXCEPT !.pc = "lamps", !.if = FALSE, !.led = LampsOf(bda)]
    BY <1>7 DEF SendLamps, Minding
  <2> QED
    BY <1>0, <2>1, ZenonT(30) DEF Processor, Minding, Holding, Closed, TakingKey, Calls16
<1>8. CASE LampsAnswered \/ LampsLit
  <2>1. /\ cpu.pc \in {"lamps", "lit"} /\ cpu.fn \in Calls16
        /\ \/ cpu' = [cpu EXCEPT !.pc = "lit"]
           \/ cpu' = [cpu EXCEPT !.pc = cpu.fn, !.if = TRUE, !.sti = TRUE]
    BY <1>8 DEF LampsAnswered, LampsLit, Minding
  <2>2. bda'.head = bda.head /\ bda'.tail = bda.tail /\ bda'.buf = bda.buf
    BY <1>8, ElsewhereKeeps DEF Elsewhere
  <2> QED
    BY <1>0, <2>1, <2>2 DEF Processor, Minding, Holding, Closed, TakingKey, Calls16
<1>9. CASE DequeueKey
  <2>1. UNCHANGED bda /\ cpu.pc = "read"
    BY <1>9 DEF DequeueKey
  <2>2. CASE bda.head = bda.tail
    BY <1>9, <2>2, Returned DEF DequeueKey
  <2>3. CASE bda.head # bda.tail
    <3>1. cpu' = [cpu EXCEPT !.pc = "take", !.slot = bda.head, !.got = bda.buf[bda.head]]
      BY <1>9, <2>3 DEF DequeueKey
    <3> QED
      BY <1>0, <2>1, <3>1 DEF Processor, Minding, Holding, Closed, TakingKey
  <2> QED
    BY <2>2, <2>3
<1>10. CASE StoreKey
  <2>1. UNCHANGED bda
    BY <1>10 DEF StoreKey
  <2>2. CASE NextSlot(bda.tail) = bda.head
    BY <1>10, <2>2, Returned DEF StoreKey
  <2>3. CASE NextSlot(bda.tail) # bda.head
    <3>1. cpu' = [cpu EXCEPT !.pc = "stored", !.slot = bda.tail]
      BY <1>10, <2>3 DEF StoreKey
    <3>2. bda.tail \in Slot
      BY <1>0 DEF DataArea
    <3> QED
      BY <1>0, <2>1, <2>3, <3>1, <3>2 DEF Processor, Minding, Holding, Closed, TakingKey
  <2> QED
    BY <2>2, <2>3
<1>11. CASE MoveHead \/ MoveTail \/ CheckKey \/ ServiceDone
  BY <1>11, Returned DEF MoveHead, MoveTail, CheckKey, ServiceDone
<1>12. CASE AskIdentity \/ PollIdentity
  <2>1. UNCHANGED bda
    BY <1>12 DEF AskIdentity, PollIdentity
  <2>2. CASE cpu' = Return
    BY <2>2, Returned
  <2>3. CASE cpu' = [cpu EXCEPT !.pc = "poll", !.slot = 3]
    BY <1>0, <2>1, <2>3 DEF Processor, Minding, Holding, Closed, TakingKey
  <2>4. CASE cpu.pc = "poll" /\ cpu' = [cpu EXCEPT !.slot = @ - 1]
    BY <1>0, <2>1, <2>4 DEF Processor, Minding, Holding, Closed, TakingKey
  <2> QED
    BY <1>12, <2>2, <2>3, <2>4 DEF AskIdentity, PollIdentity
<1>13. CASE Int15C2
  <2>1. cpu'.pc = "service"
    BY <1>0, <1>13 DEF Int15C2, Processor
  <2> QED
    BY <2>1 DEF Minding, Holding, Closed, TakingKey
<1>14. CASE Service /\ ~ServiceDone
  <2>1. cpu'.pc = "service"
    BY <1>0, <1>14 DEF Service, AskCommandByte, ChangeCommandByte, RestoreCommandByte, SendToMouse,
                       GetMouseData, CheckAck, InService, Next1, Processor
  <2> QED
    BY <2>1 DEF Minding, Holding, Closed, TakingKey
<1> QED
  BY <1>1, <1>2, <1>3, <1>4, <1>5, <1>6, <1>7, <1>8, <1>9, <1>10, <1>11, <1>12, <1>13, <1>14
  DEF Next, Handlers, Keyboard, Devices, SendKey, SendMove, DeviceAnswers
LEMMA Stutter ==
  IInv /\ UNCHANGED vars => IInv'
BY DEF IInv, vars, TypeInv, Requests, Minding, Holding, Closed, TakingKey, BufferIsQueue, Contents,
       ReadIsAtomic, Known, Wired, Showing

LEMMA InitInv == Init => IInv
<1> SUFFICES ASSUME Init PROVE IInv
  OBVIOUS
<1>1. TypeInv /\ Requests
  BY TypeInit
<1>2. Minding /\ Holding /\ Closed /\ ReadIsAtomic
  BY DEF Init, Minding, Holding, Closed, TakingKey, ReadIsAtomic
<1>3. BufferIsQueue
  <2>1. bda.head = 0 /\ bda.tail = 0 /\ hist.queue = <<>>
    BY DEF Init
  <2>2. 0 \in Slot /\ bda.buf \in [Slot -> Keystroke]
    BY <1>1 DEF Slot, TypeInv, Known, DataArea
  <2>3. RingOf(0, 0, bda.buf) \in Seq(Keystroke) /\ Len(RingOf(0, 0, bda.buf)) = Depth(0, 0)
    BY <2>2, RingSeq
  <2>4. Depth(0, 0) = 0
    BY DEF Depth
  <2> DEFINE q == RingOf(0, 0, bda.buf)
  <2> HIDE DEF q
  <2>5. q = <<>>
    BY <2>3, <2>4 DEF q
  <2> QED
    BY <2>1, <2>5, ContentsOf DEF q, BufferIsQueue
<1> QED
  BY <1>1, <1>2, <1>3 DEF IInv

\* The invariant that the others follow from: the types, a line that is
\* asserted only for a byte that is shown, the slot a call has in its hands,
\* and interrupts off from the end of a wait to the taking of its key.
THEOREM Invariant == Spec => []IInv
<1>1. IInv /\ [Next]_vars => IInv'
  <2> SUFFICES ASSUME IInv, [Next]_vars PROVE IInv'
    OBVIOUS
  <2>1. CASE Next
    BY <2>1, TypeNext, StageNext DEF IInv
  <2>2. CASE UNCHANGED vars
    BY <2>2, Stutter
  <2> QED
    BY <2>1, <2>2
<1> QED
  BY <1>1, InitInv, PTL DEF Spec

\* Whatever the size of the ring, whatever is typed and whenever INT 09h comes
\* between the steps of INT 16h, the ring holds the keys accepted and not yet
\* read, in order.
THEOREM RingIsQueue == Spec => []BufferIsQueue
<1>1. IInv => BufferIsQueue
  BY DEF IInv
<1> QED
  BY <1>1, Invariant, PTL

\* A key that INT 16h waited for is the key it takes, unless the lamps were
\* updated in between.
THEOREM KeyNotLost == Spec => []ReadIsAtomic
<1>1. IInv => ReadIsAtomic
  BY DEF IInv
<1> QED
  BY <1>1, Invariant, PTL

=============================================================================
