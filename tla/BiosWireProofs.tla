-------------------------- MODULE BiosWireProofs --------------------------
(***************************************************************************)
(* Proofs about the bytes on the wires of the input services, for any keys *)
(* typed, any services called and any number of packets: the handlers take *)
(* the bytes sent for them and whole packets, nothing but INT 09h keeps    *)
(* the keyboard's clock off, and the flags in the end say which keys are   *)
(* held.                                                                   *)
(***************************************************************************)
EXTENDS BiosInputProofs

----------------------------------------------------------------------------
(* The invariant.  What is said of the traffic is said while it is         *)
(* undisturbed: no reader took a byte meant for another and no command cut *)
(* a packet in two.                                                        *)

\* The steps of a service that follow one another, and how many of the next
\* ones take a byte of the mouse.
Ordered(f, s) ==
  \A i \in DOMAIN s :
    /\ s[i] = "ask"  => i < Len(s) /\ s[i + 1] \in {"inhibit", "enable"}
    /\ s[i] = "send" => /\ i < Len(s) /\ s[i + 1] = "get"
                        /\ f = "identity" => i + 1 < Len(s) /\ s[i + 2] = "get"
    /\ s[i] = "enable" => f = "enable"
    /\ s[i] = "acked" => f # "unhook"
    /\ s[i] = "restore" => f # "unhook" /\ i = Len(s)
Lead(s) == IF s = <<>> \/ s[1] # "get" THEN 0 ELSE IF Len(s) > 1 /\ s[2] = "get" THEN 2 ELSE 1

\* While a call waits for an answer that it asked for, no interrupt comes.
Quiet == \/ cpu.pc \in {"lamps", "lit"}
         \/ cpu.steps # <<>> /\ ~NeedsEmpty(cpu.steps[1])
Busy ==
  /\ cpu.pc \in {"service", "lamps", "lit"} => ~cpu.if
  /\ Quiet => Running
  /\ cpu.pc # "service" => cpu.steps = <<>> /\ cpu.fn # "unhook"
  /\ Ordered(cpu.fn, cpu.steps)
  /\ cpu.pc = "service" /\ cpu.fn = "enable" => ebda.hooked

\* What may wait for whom.
KeyTags(kq)   == \A i \in DOMAIN kq : kq[i].tag \in {"code", "key", "reply"}
MouseTags(mq) == \A i \in DOMAIN mq : mq[i].tag = "mouse" \/ (mq[i].tag = "move" /\ mq[i].b \in 1 .. 3)

\* Where a packet goes on after a byte; the moves that wait follow one another
\* and lead up to where the mouse is, and the first one follows what the
\* handler has.
After(w) == IF w.tag = "move" /\ w.b < 3 THEN w.b ELSE 0
InStep(mq, pos) ==
  \A i \in DOMAIN mq : IF i < Len(mq) THEN mq[i + 1].tag = "move" => mq[i + 1].b = After(mq[i]) + 1
                       ELSE After(mq[i]) = pos
Aligned(mq, pos, index) ==
  IF mq = <<>> THEN pos = index
  ELSE IF mq[1].tag = "move" THEN mq[1].b = index + 1 ELSE index = 0

\* A command byte that leaves the keyboard heard, and the mouse's interrupt off
\* when no program's handler is there.
Fair(b, hooked) == b \in {69, 71, 101, 103} /\ (hooked \/ b \in {69, 101})
\* At most one command byte waits, and the next step takes it.
NoReply(kq) == \A i \in DOMAIN kq : kq[i].tag # "reply"
Replies(kq, s, hooked) ==
  \A i \in DOMAIN kq : kq[i].tag = "reply" =>
    /\ Fair(kq[i].b, hooked)
    /\ s # <<>> /\ s[1] \in {"inhibit", "enable"}
    /\ \A j \in DOMAIN kq : kq[j].tag = "reply" => j = i
\* The next steps take what the mouse answered, or is about to.
NoAnswer(mq) == \A i \in DOMAIN mq : mq[i].tag # "mouse"
Within(mq, n) == \A i, j \in DOMAIN mq : mq[i].tag = "mouse" /\ mq[j].tag = "mouse" => i - j < n
Answered(mq, in, s) ==
  /\ Within(mq, Lead(s))
  /\ in.to = "mouse" => NoAnswer(mq) /\ Len(Answer("mouse", in.b)) <= Lead(s)
Listening(c, on9) == c.irqKey /\ c.translate /\ (c.keyOff => on9 = "work")
\* What will be restored was asked for.
Remembered(s, prev, hooked) ==
  (\E i \in DOMAIN s : s[i] = "restore") /\ (\A i \in DOMAIN s : s[i] # "inhibit") => Fair(prev, hooked)
\* The mouse's interrupt is off without a handler, and when one is about to go.
Leaving(f, s) == f = "unhook" /\ \A i \in DOMAIN s : s[i] # "inhibit"
Deaf(c, l) == ~c.irqMouse /\ 12 \notin l.high
\* The handler has the first bytes of a packet and the queue the next ones.
Whole == [i \in 0 .. 2 |-> i + 1]
Filled(e) == /\ e.count = 0 => e.index = 0
             /\ e.count = 2 => \A i \in 0 .. 2 : i < e.index => e.data[i] = i + 1

Clean ==
  /\ Replies(ctl.kq, cpu.steps, ebda.hooked)
  /\ Answered(ctl.mq, ctl.in, cpu.steps)
  /\ Listening(ctl, cpu.on9)
  /\ Remembered(cpu.steps, cpu.prev, ebda.hooked)
  /\ ~ebda.hooked \/ Leaving(cpu.fn, cpu.steps) => Deaf(ctl, line)
  /\ ~ebda.hooked => cpu.on74 # "read"
  /\ ebda.count = 2 => Aligned(ctl.mq, mouse.pos, ebda.index)
  /\ Filled(ebda)
  /\ hist.packet # <<>> => hist.packet = Whole
Wires ==
  /\ Busy
  /\ cpu.on74 = "read" => ctl.out = "mouse"
  /\ line.irr \subseteq line.high
  /\ KeyTags(ctl.kq) /\ MouseTags(ctl.mq) /\ InStep(ctl.mq, mouse.pos)
  /\ hist.first \notin {"int09", "int74"}
  /\ Undisturbed => Clean

----------------------------------------------------------------------------
(* The steps of a service.                                                 *)

LEMMA TailAt ==
  ASSUME NEW S, NEW q \in Seq(S), q # <<>>
  PROVE  /\ Len(q) \in Nat \ {0} /\ q[1] = Head(q) /\ DOMAIN q = 1 .. Len(q)
         /\ Tail(q) \in Seq(S) /\ Len(Tail(q)) = Len(q) - 1 /\ DOMAIN Tail(q) = 1 .. Len(q) - 1
         /\ \A i \in 1 .. Len(q) - 1 : Tail(q)[i] = q[i + 1]
BY HeadTailProperties, LenProperties

LEMMA ConcatAt ==
  ASSUME NEW S, NEW p \in Seq(S), NEW a \in Seq(S)
  PROVE  /\ p \o a \in Seq(S) /\ Len(p) \in Nat /\ Len(a) \in Nat
         /\ Len(p \o a) = Len(p) + Len(a) /\ DOMAIN (p \o a) = 1 .. Len(p) + Len(a)
         /\ DOMAIN p = 1 .. Len(p) /\ DOMAIN a = 1 .. Len(a)
         /\ \A i \in 1 .. Len(p) : (p \o a)[i] = p[i]
         /\ \A i \in 1 .. Len(a) : (p \o a)[Len(p) + i] = a[i]
<1> DEFINE q == p \o a
<1>1. /\ q \in Seq(S) /\ Len(q) = Len(p) + Len(a)
      /\ \A i \in 1 .. Len(p) + Len(a) : q[i] = IF i <= Len(p) THEN p[i] ELSE a[i - Len(p)]
  BY ConcatProperties
<1>2. /\ Len(p) \in Nat /\ Len(a) \in Nat /\ DOMAIN q = 1 .. Len(q)
      /\ DOMAIN p = 1 .. Len(p) /\ DOMAIN a = 1 .. Len(a)
  BY <1>1, LenProperties
<1> HIDE DEF q
<1> DEFINE n == Len(p)
           m == Len(a)
<1> HIDE DEF n, m
<1>3. \A i \in 1 .. n : q[i] = p[i]
  BY <1>1, <1>2 DEF n
<1>4. \A i \in 1 .. m : q[n + i] = a[i]
  <2> SUFFICES ASSUME NEW i \in 1 .. m PROVE q[n + i] = a[i]
    OBVIOUS
  <2> DEFINE k == n + i
  <2>1. n \in Nat /\ m \in Nat
    BY <1>2 DEF n, m
  <2>2. k \in 1 .. n + m /\ ~(k <= n) /\ k - n = i
    BY <2>1
  <2> HIDE DEF k
  <2>3. q[k] = a[k - n]
    BY <1>1, <2>2 DEF n, m
  <2> QED
    BY <2>2, <2>3 DEF k
<1> QED
  BY <1>1, <1>2, <1>3, <1>4 DEF q, n, m

LEMMA OrderedTail ==
  ASSUME NEW f, NEW s \in Seq(Steps), s # <<>>, Ordered(f, s)
  PROVE  Ordered(f, Tail(s))
<1> DEFINE t == Tail(s)
<1>1. /\ Len(s) \in Nat \ {0} /\ DOMAIN s = 1 .. Len(s)
      /\ Len(t) = Len(s) - 1 /\ DOMAIN t = 1 .. Len(s) - 1
      /\ \A i \in 1 .. Len(s) - 1 : t[i] = s[i + 1]
  BY TailAt
<1> HIDE DEF t
<1> SUFFICES ASSUME NEW i \in DOMAIN t
             PROVE  /\ t[i] = "ask"  => i < Len(t) /\ t[i + 1] \in {"inhibit", "enable"}
                    /\ t[i] = "send" => /\ i < Len(t) /\ t[i + 1] = "get"
                                        /\ f = "identity" => i + 1 < Len(t) /\ t[i + 2] = "get"
                    /\ t[i] = "enable" => f = "enable"
                    /\ t[i] = "acked" => f # "unhook"
                    /\ t[i] = "restore" => f # "unhook" /\ i = Len(t)
  BY DEF Ordered, t
<1>2. i \in 1 .. Len(s) - 1 /\ i + 1 \in DOMAIN s /\ t[i] = s[i + 1]
  BY <1>1
<1>3. /\ s[i + 1] = "ask"  => i + 1 < Len(s) /\ s[i + 2] \in {"inhibit", "enable"}
      /\ s[i + 1] = "send" => /\ i + 1 < Len(s) /\ s[i + 2] = "get"
                              /\ f = "identity" => i + 2 < Len(s) /\ s[i + 3] = "get"
      /\ s[i + 1] = "enable" => f = "enable"
      /\ s[i + 1] = "acked" => f # "unhook"
      /\ s[i + 1] = "restore" => f # "unhook" /\ i + 1 = Len(s)
  <2> DEFINE j == i + 1
  <2>1. j \in DOMAIN s /\ j + 1 = i + 2 /\ j + 2 = i + 3
    BY <1>2
  <2> HIDE DEF j
  <2>2. /\ s[j] = "ask"  => j < Len(s) /\ s[j + 1] \in {"inhibit", "enable"}
        /\ s[j] = "send" => /\ j < Len(s) /\ s[j + 1] = "get"
                            /\ f = "identity" => j + 1 < Len(s) /\ s[j + 2] = "get"
        /\ s[j] = "enable" => f = "enable"
        /\ s[j] = "acked" => f # "unhook"
        /\ s[j] = "restore" => f # "unhook" /\ j = Len(s)
    BY <2>1 DEF Ordered
  <2> QED
    BY <2>1, <2>2 DEF j
<1> QED
  BY <1>1, <1>2, <1>3

\* Inhibiting the mouse's interrupt comes first: the byte is asked for and taken.
LEMMA InhibitThen ==
  ASSUME NEW a \in Seq(Steps)
  PROVE  /\ Inhibit \o a \in Seq(Steps) /\ Len(Inhibit \o a) = Len(a) + 2 /\ Len(a) \in Nat
         /\ DOMAIN (Inhibit \o a) = 1 .. Len(a) + 2
         /\ (Inhibit \o a)[1] = "ask" /\ (Inhibit \o a)[2] = "inhibit"
         /\ \A i \in 1 .. Len(a) : (Inhibit \o a)[i + 2] = a[i]
<1>1. /\ Inhibit \in Seq(Steps) /\ Len(Inhibit) = 2 /\ Inhibit[1] = "ask" /\ Inhibit[2] = "inhibit"
  BY DEF Inhibit, Steps
<1> DEFINE p == Inhibit
<1> HIDE DEF p
<1>2. p \in Seq(Steps) /\ Len(p) = 2 /\ p[1] = "ask" /\ p[2] = "inhibit"
  BY <1>1 DEF p
<1>3. /\ p \o a \in Seq(Steps) /\ Len(a) \in Nat
      /\ Len(p \o a) = Len(p) + Len(a) /\ DOMAIN (p \o a) = 1 .. Len(p) + Len(a)
      /\ \A i \in 1 .. Len(p) : (p \o a)[i] = p[i]
      /\ \A i \in 1 .. Len(a) : (p \o a)[Len(p) + i] = a[i]
  <2>1. p \in Seq(Steps)
    BY <1>2
  <2> QED
    BY <2>1, ConcatAt
<1> DEFINE q == p \o a
<1> HIDE DEF q
<1>4. /\ q[1] = "ask" /\ q[2] = "inhibit" /\ Len(q) = Len(a) + 2 /\ DOMAIN q = 1 .. Len(a) + 2
      /\ \A i \in 1 .. Len(a) : q[i + 2] = a[i]
  BY <1>2, <1>3 DEF q
<1> QED
  BY <1>3, <1>4 DEF p, q

LEMMA OrderedThen ==
  ASSUME NEW f, NEW a \in Seq(Steps), Ordered(f, a)
  PROVE  Ordered(f, Inhibit \o a)
<1> DEFINE s == Inhibit \o a
<1>1. /\ Len(s) = Len(a) + 2 /\ Len(a) \in Nat
      /\ DOMAIN s = 1 .. Len(a) + 2 /\ DOMAIN a = 1 .. Len(a) /\ s[1] = "ask" /\ s[2] = "inhibit"
      /\ \A i \in 1 .. Len(a) : s[i + 2] = a[i]
  BY InhibitThen, LenProperties
<1> HIDE DEF s
<1> SUFFICES ASSUME NEW i \in DOMAIN s
             PROVE  /\ s[i] = "ask"  => i < Len(s) /\ s[i + 1] \in {"inhibit", "enable"}
                    /\ s[i] = "send" => /\ i < Len(s) /\ s[i + 1] = "get"
                                        /\ f = "identity" => i + 1 < Len(s) /\ s[i + 2] = "get"
                    /\ s[i] = "enable" => f = "enable"
                    /\ s[i] = "acked" => f # "unhook"
                    /\ s[i] = "restore" => f # "unhook" /\ i = Len(s)
  BY DEF Ordered, s
<1>2. CASE i <= 2
  <2>1. i = 1 \/ i = 2
    BY <1>1, <1>2
  <2> QED
    BY <1>1, <2>1
<1>3. CASE ~(i <= 2)
  <2> DEFINE j == i - 2
  <2>1. j \in 1 .. Len(a) /\ i = j + 2
    BY <1>1, <1>3
  <2> HIDE DEF j
  <2>2. /\ a[j] = "ask"  => j < Len(a) /\ a[j + 1] \in {"inhibit", "enable"}
        /\ a[j] = "send" => /\ j < Len(a) /\ a[j + 1] = "get"
                            /\ f = "identity" => j + 1 < Len(a) /\ a[j + 2] = "get"
        /\ a[j] = "enable" => f = "enable"
        /\ a[j] = "acked" => f # "unhook"
        /\ a[j] = "restore" => f # "unhook" /\ j = Len(a)
    BY <1>1, <2>1 DEF Ordered
  <2>3. /\ s[j + 2] = a[j]
        /\ j + 1 \in 1 .. Len(a) => s[j + 3] = a[j + 1]
        /\ j + 2 \in 1 .. Len(a) => s[j + 4] = a[j + 2]
    <3>1. s[j + 2] = a[j]
      BY <1>1, <2>1
    <3>2. j + 1 \in 1 .. Len(a) => s[(j + 1) + 2] = a[j + 1]
      BY <1>1
    <3>3. j + 2 \in 1 .. Len(a) => s[(j + 2) + 2] = a[j + 2]
      BY <1>1
    <3> QED
      BY <2>1, <3>1, <3>2, <3>3
  <2>4. s[i] = a[j]
    BY <2>1, <2>3
  <2>5. a[j] = "ask"  => i < Len(s) /\ s[i + 1] \in {"inhibit", "enable"}
    BY <1>1, <2>1, <2>2, <2>3
  <2>6. a[j] = "send" => /\ i < Len(s) /\ s[i + 1] = "get"
                         /\ f = "identity" => i + 1 < Len(s) /\ s[i + 2] = "get"
    BY <1>1, <2>1, <2>2, <2>3
  <2>7. a[j] = "restore" => f # "unhook" /\ i = Len(s)
    BY <1>1, <2>1, <2>2
  <2> QED
    BY <2>2, <2>4, <2>5, <2>6, <2>7
<1> QED
  BY <1>1, <1>2, <1>3

LEMMA OrderedSteps ==
  ASSUME NEW f
  PROVE  Ordered(f, ServiceSteps(f)) /\ Ordered(f, <<>>)
<1> DEFINE a == <<"send", "get", "acked", "ask", "enable">>
           b == <<"send", "get", "send", "get">>
           c == <<"restore">>
           d == <<"send", "get", "get">>
           e == <<"send", "get", "restore">>
           n == <<>>
<1>1. /\ a \in Seq(Steps) /\ b \in Seq(Steps) /\ c \in Seq(Steps) /\ d \in Seq(Steps)
      /\ e \in Seq(Steps) /\ n \in Seq(Steps)
  BY DEF Steps
<1>2. Ordered(f, n)
  BY DEF Ordered
<1>3. f = "enable" => Ordered(f, a)
  BY DEF Ordered
<1>4. f = "rate" => Ordered(f, b)
  BY DEF Ordered
<1>5. f = "resolution" => Ordered(f, c)
  BY DEF Ordered
<1>6. f = "identity" => Ordered(f, d)
  BY DEF Ordered
<1>7. f = "scale" => Ordered(f, e)
  BY DEF Ordered
<1>8. \/ f = "enable" /\ ServiceSteps(f) = Inhibit \o a
      \/ f = "rate" /\ ServiceSteps(f) = b
      \/ f = "resolution" /\ ServiceSteps(f) = Inhibit \o c
      \/ f = "identity" /\ ServiceSteps(f) = Inhibit \o d
      \/ f = "scale" /\ ServiceSteps(f) = Inhibit \o e
      \/ ServiceSteps(f) = Inhibit \/ ServiceSteps(f) = n
  BY DEF ServiceSteps
<1>9. Ordered(f, Inhibit)
  BY DEF Ordered, Inhibit
<1> HIDE DEF a, b, c, d, e
<1> QED
  BY <1>1, <1>2, <1>3, <1>4, <1>5, <1>6, <1>7, <1>8, <1>9, OrderedThen

\* A service that restores a command byte inhibits first, and so does the one
\* that removes a handler.
LEMMA InhibitsFirst ==
  ASSUME NEW f
  PROVE  /\ \A prev, hooked : Remembered(ServiceSteps(f), prev, hooked)
         /\ ebda.hooked => ~Leaving(f, ServiceSteps(f))
<1> DEFINE a == <<"send", "get", "acked", "ask", "enable">>
           b == <<"send", "get", "send", "get">>
           c == <<"restore">>
           d == <<"send", "get", "get">>
           e == <<"send", "get", "restore">>
           Inhibits(s) == \E i \in DOMAIN s : s[i] = "inhibit"
<1>1. /\ a \in Seq(Steps) /\ c \in Seq(Steps) /\ d \in Seq(Steps) /\ e \in Seq(Steps)
  BY DEF Steps
<1>2. \/ ServiceSteps(f) = b /\ f # "unhook"
      \/ ServiceSteps(f) = <<>> /\ (f = "unhook" => ~ebda.hooked)
      \/ ServiceSteps(f) \in {Inhibit, Inhibit \o a, Inhibit \o c, Inhibit \o d, Inhibit \o e}
  BY DEF ServiceSteps
<1>3. ASSUME NEW s \in Seq(Steps) PROVE Inhibits(Inhibit \o s)
  <2>1. (Inhibit \o s)[2] = "inhibit" /\ 2 \in DOMAIN (Inhibit \o s)
    BY InhibitThen
  <2> QED
    BY <2>1
<1>4. Inhibits(Inhibit)
  <2>1. Inhibit[2] = "inhibit" /\ 2 \in DOMAIN Inhibit
    BY DEF Inhibit
  <2> QED
    BY <2>1
<1>5. \A i \in DOMAIN b : b[i] # "restore"
  OBVIOUS
<1> HIDE DEF a, b, c, d, e
<1>6. CASE ServiceSteps(f) = b /\ f # "unhook"
  BY <1>5, <1>6 DEF Remembered, Leaving
<1>7. CASE ServiceSteps(f) = <<>> /\ (f = "unhook" => ~ebda.hooked)
  BY <1>7 DEF Remembered, Leaving
<1>8. CASE ServiceSteps(f) \in {Inhibit, Inhibit \o a, Inhibit \o c, Inhibit \o d, Inhibit \o e}
  <2>1. Inhibits(ServiceSteps(f))
    BY <1>1, <1>3, <1>4, <1>8
  <2> QED
    BY <2>1 DEF Remembered, Leaving
<1> QED
  BY <1>2, <1>6, <1>7, <1>8

LEMMA LeadIs ==
  ASSUME NEW s \in Seq(Steps)
  PROVE  /\ Lead(s) \in 0 .. 2 /\ Lead(<<>>) = 0
         /\ s # <<>> /\ s[1] # "get" => Lead(s) = 0
         /\ s # <<>> => Lead(Tail(s)) >= Lead(s) - 1
<1>1. Lead(s) \in 0 .. 2 /\ Lead(<<>>) = 0 /\ (s # <<>> /\ s[1] # "get" => Lead(s) = 0)
  BY DEF Lead
<1>2. ASSUME s # <<>> PROVE Lead(Tail(s)) >= Lead(s) - 1
  <2> DEFINE t == Tail(s)
  <2>1. /\ Len(s) \in Nat \ {0} /\ Len(t) = Len(s) - 1 /\ t \in Seq(Steps)
        /\ \A i \in 1 .. Len(s) - 1 : t[i] = s[i + 1]
    BY <1>2, TailAt
  <2> HIDE DEF t
  <2>2. Lead(t) \in 0 .. 2
    BY DEF Lead
  <2>3. CASE Lead(s) = 2
    <3>1. Len(s) > 1 /\ s[2] = "get"
      BY <2>3 DEF Lead
    <3>2. Len(t) > 0 /\ t[1] = "get"
      BY <2>1, <3>1
    <3>3. t # <<>>
      BY <3>2
    <3>4. Lead(t) >= 1
      BY <3>2, <3>3 DEF Lead
    <3> QED
      BY <2>3, <3>4 DEF t
  <2>4. CASE Lead(s) # 2
    BY <1>1, <2>2, <2>4 DEF t
  <2> QED
    BY <2>3, <2>4
<1> QED
  BY <1>1, <1>2

\* After the byte for the mouse come as many steps as it has bytes to answer.
LEMMA LeadOfSend ==
  ASSUME NEW f, NEW s \in Seq(Steps), s # <<>>, s[1] = "send", Ordered(f, s)
  PROVE  Len(Answer("mouse", ServiceByte(f))) <= Lead(Tail(s))
<1> DEFINE t == Tail(s)
<1>1. /\ Len(s) \in Nat \ {0} /\ Len(t) = Len(s) - 1 /\ DOMAIN s = 1 .. Len(s) /\ t \in Seq(Steps)
      /\ \A i \in 1 .. Len(s) - 1 : t[i] = s[i + 1]
  BY TailAt
<1> HIDE DEF t
<1>2. 1 \in DOMAIN s
  BY <1>1
<1>3. /\ 1 < Len(s) /\ s[1 + 1] = "get"
      /\ f = "identity" => 1 + 1 < Len(s) /\ s[1 + 2] = "get"
  BY <1>2 DEF Ordered
<1>4. /\ Len(t) > 0 /\ t[1] = "get"
      /\ f = "identity" => 1 < Len(t) /\ t[2] = "get"
  BY <1>1, <1>3
<1>5. t # <<>>
  BY <1>4
<1>6. Lead(t) >= 1 /\ (f = "identity" => Lead(t) = 2)
  BY <1>4, <1>5 DEF Lead
<1>7. Lead(t) \in 0 .. 2
  BY DEF Lead
<1>8. CASE f = "identity"
  <2>1. Answer("mouse", ServiceByte(f)) = <<Ack, 0>>
    BY <1>8 DEF Answer, ServiceByte
  <2>2. Len(<<Ack, 0>>) = 2
    OBVIOUS
  <2>3. Len(Answer("mouse", ServiceByte(f))) = 2
    BY <2>1, <2>2
  <2>4. Lead(t) = 2
    BY <1>6, <1>8
  <2>5. 2 <= Lead(t)
    BY <2>4
  <2> HIDE DEF Lead
  <2> QED
    BY <2>3, <2>5 DEF t
<1>9. CASE f # "identity"
  <2>1. Answer("mouse", ServiceByte(f)) = <<Ack>>
    BY <1>9 DEF Answer, ServiceByte, Identify
  <2>2. Len(<<Ack>>) = 1
    OBVIOUS
  <2> QED
    BY <1>6, <1>7, <2>1, <2>2 DEF t
<1> QED
  BY <1>8, <1>9

----------------------------------------------------------------------------
(* The command byte.                                                       *)

LEMMA BitsOf ==
  ASSUME NEW b \in {69, 71, 101, 103}
  PROVE  /\ Bit(b, 0) /\ Bit(b, 6) /\ ~Bit(b, 4)
         /\ Bit(b, 1) <=> b \in {71, 103}
         /\ Inhibited(b) = 101 /\ Enabled(b) = 71
<1>1. CASE b = 69
  <2>1. Bit(69, 0) /\ Bit(69, 6) /\ ~Bit(69, 4) /\ ~Bit(69, 1) /\ ~Bit(69, 5)
    BY DEF Bit
  <2> HIDE DEF Bit
  <2> QED
    BY <1>1, <2>1 DEF Inhibited, Enabled
<1>2. CASE b = 71
  <2>1. Bit(71, 0) /\ Bit(71, 6) /\ ~Bit(71, 4) /\ Bit(71, 1) /\ ~Bit(71, 5)
    BY DEF Bit
  <2> QED
    BY <1>2, <2>1 DEF Inhibited, Enabled
<1>3. CASE b = 101
  <2>1. Bit(101, 0) /\ Bit(101, 6) /\ ~Bit(101, 4) /\ ~Bit(101, 1) /\ Bit(101, 5)
    BY DEF Bit
  <2> QED
    BY <1>3, <2>1 DEF Inhibited, Enabled
<1>4. CASE b = 103
  <2>1. Bit(103, 0) /\ Bit(103, 6) /\ ~Bit(103, 4) /\ Bit(103, 1) /\ Bit(103, 5)
    BY DEF Bit
  <2> QED
    BY <1>4, <2>1 DEF Inhibited, Enabled
<1> QED
  BY <1>1, <1>2, <1>3, <1>4

\* The command byte of a controller that hears the keyboard.
LEMMA FairCommand ==
  ASSUME NEW c \in Controller, NEW hooked \in BOOLEAN,
         c.irqKey, c.translate, ~c.keyOff, ~hooked => ~c.irqMouse
  PROVE  Fair(CommandByte(c), hooked)
<1>1. c.irqMouse \in BOOLEAN /\ c.mouseOffSeen \in BOOLEAN
  BY DEF Controller
<1>2. CommandByte(c) = 69 + (IF c.irqMouse THEN 2 ELSE 0) + (IF c.mouseOffSeen THEN 32 ELSE 0)
  <2>1. CommandByte(c) = 1 + (IF c.irqMouse THEN 2 ELSE 0) + 4 + 0
                         + (IF c.mouseOffSeen THEN 32 ELSE 0) + 64
    BY DEF CommandByte
  <2> QED
    BY <1>1, <2>1
<1>3. CASE c.irqMouse
  BY <1>1, <1>2, <1>3 DEF Fair
<1>4. CASE ~c.irqMouse
  BY <1>1, <1>2, <1>4 DEF Fair
<1> QED
  BY <1>3, <1>4

LEMMA SetFair ==
  ASSUME NEW c \in Controller, NEW b, NEW hooked, Fair(b, hooked)
  PROVE  LET d == SetCommandByte(c, b)
         IN  /\ d.irqKey /\ d.translate /\ ~d.keyOff /\ (d.irqMouse <=> b \in {71, 103})
             /\ d.kq = c.kq /\ d.mq = c.mq /\ d.out = c.out /\ d.in = c.in
<1> DEFINE x == Bit(b, 0)
           y == Bit(b, 1)
           z == Bit(b, 4)
           u == Bit(b, 5)
           v == Bit(b, 6)
           d == [c EXCEPT !.irqKey = x, !.irqMouse = y, !.keyOff = z, !.mouseOff = u,
                          !.mouseOffSeen = u, !.translate = v]
<1>1. SetCommandByte(c, b) = d
  BY DEF SetCommandByte
<1>2. x /\ v /\ ~z /\ (y <=> b \in {71, 103})
  BY BitsOf DEF Fair
<1> HIDE DEF x, y, z, u, v
<1>3. /\ d.irqKey = x /\ d.translate = v /\ d.keyOff = z /\ d.irqMouse = y
      /\ d.kq = c.kq /\ d.mq = c.mq /\ d.out = c.out /\ d.in = c.in
  BY DEF Controller
<1> HIDE DEF d
<1> QED
  BY <1>1, <1>2, <1>3

----------------------------------------------------------------------------
(* What the operations of the 8042 change.                                 *)

\* All but what the output buffer shows.
SameBut(c, d) ==
  /\ d.irqKey = c.irqKey /\ d.irqMouse = c.irqMouse /\ d.translate = c.translate
  /\ d.keyOff = c.keyOff /\ d.in = c.in

LEMMA SettleKeeps ==
  ASSUME NEW c \in Controller
  PROVE  /\ SameBut(c, Settle(c)) /\ Settle(c).kq = c.kq /\ Settle(c).mq = c.mq
         /\ c.out # "none" => Settle(c).out = c.out
<1>1. CASE c.out # "none"
  BY <1>1 DEF Settle, SameBut
<1>2. CASE c.out = "none"
  <2> DEFINE o == IF c.mq # <<>> THEN "mouse" ELSE IF c.kq # <<>> THEN "key" ELSE "none"
             d == [c EXCEPT !.out = o]
  <2>1. Settle(c) = d
    BY <1>2 DEF Settle
  <2> HIDE DEF o
  <2>2. SameBut(c, d) /\ d.kq = c.kq /\ d.mq = c.mq
    BY DEF Controller, SameBut
  <2> HIDE DEF d
  <2> QED
    BY <1>2, <2>1, <2>2
<1> QED
  BY <1>1, <1>2

LEMMA TakenKeeps ==
  ASSUME NEW c, Wired(c)
  PROVE  /\ SameBut(c, Taken(c))
         /\ Taken(c).mq = IF c.out = "mouse" THEN Tail(c.mq) ELSE c.mq
         /\ Taken(c).kq = IF c.out = "key" THEN Tail(c.kq) ELSE c.kq
<1> DEFINE m == IF c.out = "mouse" THEN Tail(c.mq) ELSE c.mq
           k == IF c.out = "key" THEN Tail(c.kq) ELSE c.kq
           d == [c EXCEPT !.out = "none", !.mq = m, !.kq = k]
<1>1. m \in Seq(Wire)
  <2>1. c.mq \in Seq(Wire) /\ (c.out = "mouse" => c.mq # <<>>)
    BY DEF Wired, Controller, Showing
  <2> QED
    BY <2>1, HeadTailProperties
<1>2. k \in Seq(Wire)
  <2>1. c.kq \in Seq(Wire) /\ (c.out = "key" => c.kq # <<>>)
    BY DEF Wired, Controller, Showing
  <2> QED
    BY <2>1, HeadTailProperties
<1>3. Taken(c) = Settle(d)
  BY DEF Taken
<1> HIDE DEF m, k
<1>4. d \in Controller /\ d.mq = m /\ d.kq = k /\ SameBut(c, d)
  BY <1>1, <1>2 DEF Wired, Controller, SameBut
<1> HIDE DEF d
<1>5. SameBut(d, Settle(d)) /\ Settle(d).mq = m /\ Settle(d).kq = k
  BY <1>4, SettleKeeps
<1> QED
  BY <1>3, <1>4, <1>5 DEF SameBut, m, k

LEMMA PutKeeps ==
  ASSUME NEW c, Wired(c), NEW byte \in Wire
  PROVE  /\ SameBut(c, PutKey(c, byte)) /\ SameBut(c, PutMove(c, byte))
         /\ PutKey(c, byte).kq = Append(c.kq, byte) /\ PutKey(c, byte).mq = c.mq
         /\ PutMove(c, byte).mq = Append(c.mq, byte) /\ PutMove(c, byte).kq = c.kq
         /\ c.out # "none" => PutKey(c, byte).out = c.out /\ PutMove(c, byte).out = c.out
<1> DEFINE k == Append(c.kq, byte)
           m == Append(c.mq, byte)
           d == [c EXCEPT !.kq = k]
           e == [c EXCEPT !.mq = m]
<1>1. k \in Seq(Wire) /\ m \in Seq(Wire)
  <2>1. c.kq \in Seq(Wire) /\ c.mq \in Seq(Wire)
    BY DEF Wired, Controller
  <2> QED
    BY <2>1, AppendProperties
<1>2. PutKey(c, byte) = Settle(d) /\ PutMove(c, byte) = Settle(e)
  BY DEF PutKey, PutMove
<1> HIDE DEF k, m
<1>3. d \in Controller /\ d.kq = k /\ d.mq = c.mq /\ d.out = c.out /\ SameBut(c, d)
  BY <1>1 DEF Wired, Controller, SameBut
<1>4. e \in Controller /\ e.mq = m /\ e.kq = c.kq /\ e.out = c.out /\ SameBut(c, e)
  BY <1>1 DEF Wired, Controller, SameBut
<1> HIDE DEF d, e
<1>5. /\ SameBut(d, Settle(d)) /\ Settle(d).kq = k /\ Settle(d).mq = c.mq
      /\ c.out # "none" => Settle(d).out = c.out
  BY <1>3, SettleKeeps
<1>6. /\ SameBut(e, Settle(e)) /\ Settle(e).mq = m /\ Settle(e).kq = c.kq
      /\ c.out # "none" => Settle(e).out = c.out
  BY <1>4, SettleKeeps
<1>7. SameBut(c, Settle(d)) /\ SameBut(c, Settle(e))
  BY <1>3, <1>4, <1>5, <1>6 DEF SameBut
<1> QED
  BY <1>2, <1>5, <1>6, <1>7 DEF k, m

\* A byte written for a device: it waits, or it is dropped.
LEMMA KeyboardSent ==
  ASSUME NEW c \in Controller, NEW b
  PROVE  /\ ToKeyboard(c, b).irqKey = c.irqKey /\ ToKeyboard(c, b).irqMouse = c.irqMouse
         /\ ToKeyboard(c, b).translate = c.translate
         /\ ToKeyboard(c, b).kq = c.kq /\ ToKeyboard(c, b).mq = c.mq
         /\ ToKeyboard(c, b).keyOff => c.keyOff
         /\ ToKeyboard(c, b).in.to = "mouse" => ToKeyboard(c, b).in = c.in
<1> DEFINE k == [to |-> "key", b |-> b]
           d == [c EXCEPT !.in = k, !.keyOff = FALSE]
<1>1. ToKeyboard(c, b) = IF c.in.to # "none" THEN c ELSE d
  BY DEF ToKeyboard
<1>2. k.to = "key"
  OBVIOUS
<1> HIDE DEF k
<1>3. /\ d.irqKey = c.irqKey /\ d.irqMouse = c.irqMouse /\ d.translate = c.translate
      /\ d.kq = c.kq /\ d.mq = c.mq /\ ~d.keyOff /\ d.in = k
  BY DEF Controller
<1> HIDE DEF d
<1> QED
  BY <1>1, <1>2, <1>3

LEMMA MouseSent ==
  ASSUME NEW c \in Controller, NEW b, c.in.to = "none"
  PROVE  /\ ToMouse(c, b).irqKey = c.irqKey /\ ToMouse(c, b).irqMouse = c.irqMouse
         /\ ToMouse(c, b).translate = c.translate
         /\ ToMouse(c, b).kq = c.kq /\ ToMouse(c, b).mq = c.mq
         /\ ToMouse(c, b).keyOff = c.keyOff
         /\ ToMouse(c, b).in.to = "mouse" /\ ToMouse(c, b).in.b = b
<1> DEFINE m == [to |-> "mouse", b |-> b]
           e == [c EXCEPT !.in = m, !.mouseOff = FALSE]
<1>1. ToMouse(c, b) = e
  BY DEF ToMouse
<1>2. m.to = "mouse" /\ m.b = b
  OBVIOUS
<1> HIDE DEF m
<1>3. /\ e.irqKey = c.irqKey /\ e.irqMouse = c.irqMouse /\ e.translate = c.translate
      /\ e.kq = c.kq /\ e.mq = c.mq /\ e.keyOff = c.keyOff /\ e.in = m
  BY DEF Controller
<1> HIDE DEF e
<1> QED
  BY <1>1, <1>2, <1>3

\* A line that is asserted was raised, and the mouse's only while its
\* interrupt is on.
LEMMA LinesRise ==
  ASSUME NEW old \in PicLines, NEW c, NEW fell \in BOOLEAN
  PROVE  /\ Lines(old, c, fell).irr \subseteq Lines(old, c, fell).high
         /\ 12 \in Lines(old, c, fell).high => c.irqMouse \/ (~fell /\ 12 \in old.high)
<1> DEFINE kept == IF fell THEN {} ELSE old.high
           high == (IF c.out = "key" /\ (c.irqKey \/ 1 \in kept) THEN {1} ELSE {})
                   \cup (IF c.out = "mouse" /\ (c.irqMouse \/ 12 \in kept) THEN {12} ELSE {})
           irr == (old.irr \cap kept \cap high) \cup (high \ kept)
           l == [old EXCEPT !.high = high, !.irr = irr]
<1>1. irr \subseteq high
  OBVIOUS
<1>2. 12 \in high => c.irqMouse \/ (~fell /\ 12 \in old.high)
  <2>1. 12 \in high => c.irqMouse \/ 12 \in kept
    <3> HIDE DEF kept
    <3> QED
      OBVIOUS
  <2> QED
    BY <2>1
<1>3. Lines(old, c, fell) = l
  BY DEF Lines
<1> HIDE DEF kept, high, irr
<1>4. l.high = high /\ l.irr = irr
  BY DEF PicLines
<1> HIDE DEF l
<1> QED
  BY <1>1, <1>2, <1>3, <1>4

\* The mouse's line stays low while its interrupt is off.
LEMMA StaysDeaf ==
  ASSUME NEW old \in PicLines, NEW c, NEW d, NEW fell \in BOOLEAN, Deaf(c, old), d.irqMouse = c.irqMouse
  PROVE  Deaf(d, Lines(old, d, fell))
<1>1. 12 \in Lines(old, d, fell).high => d.irqMouse \/ 12 \in old.high
  BY LinesRise
<1> QED
  BY <1>1 DEF Deaf

----------------------------------------------------------------------------
(* The keyboard's queue.                                                   *)

LEMMA AppendAt ==
  ASSUME NEW S, NEW q \in Seq(S), NEW w \in S
  PROVE  /\ Len(q) \in Nat /\ DOMAIN q = 1 .. Len(q)
         /\ Append(q, w) \in Seq(S) /\ Append(q, w) # <<>> /\ Len(Append(q, w)) = Len(q) + 1
         /\ DOMAIN Append(q, w) = 1 .. Len(q) + 1
         /\ \A i \in 1 .. Len(q) : Append(q, w)[i] = q[i]
         /\ Append(q, w)[Len(q) + 1] = w
BY AppendProperties, LenProperties

LEMMA KeysAppend ==
  ASSUME NEW kq \in Seq(Wire), NEW w \in Wire, KeyTags(kq), w.tag \in {"code", "key", "reply"}
  PROVE  KeyTags(Append(kq, w))
<1> DEFINE q == Append(kq, w)
<1>1. /\ Len(kq) \in Nat /\ DOMAIN kq = 1 .. Len(kq) /\ DOMAIN q = 1 .. Len(kq) + 1
      /\ (\A i \in 1 .. Len(kq) : q[i] = kq[i]) /\ q[Len(kq) + 1] = w
  BY AppendAt
<1> HIDE DEF q
<1>2. KeyTags(q)
  BY <1>1 DEF KeyTags
<1> QED
  BY <1>2 DEF q

LEMMA KeysConcat ==
  ASSUME NEW kq \in Seq(Wire), NEW a \in Seq(Wire), KeyTags(kq), \A i \in DOMAIN a : a[i].tag = "key"
  PROVE  KeyTags(kq \o a)
<1> DEFINE q == kq \o a
<1>1. /\ Len(kq) \in Nat /\ Len(a) \in Nat /\ DOMAIN kq = 1 .. Len(kq) /\ DOMAIN a = 1 .. Len(a)
      /\ DOMAIN q = 1 .. Len(kq) + Len(a)
      /\ (\A i \in 1 .. Len(kq) : q[i] = kq[i]) /\ (\A i \in 1 .. Len(a) : q[Len(kq) + i] = a[i])
  BY ConcatAt
<1> HIDE DEF q
<1>2. ASSUME NEW i \in DOMAIN q PROVE q[i].tag \in {"code", "key", "reply"}
  <2>1. CASE i \in 1 .. Len(kq)
    BY <1>1, <2>1 DEF KeyTags
  <2>2. CASE i \notin 1 .. Len(kq)
    <3> DEFINE j == i - Len(kq)
    <3>1. j \in 1 .. Len(a) /\ Len(kq) + j = i
      BY <1>1, <2>2
    <3> HIDE DEF j
    <3>2. q[Len(kq) + j] = a[j] /\ a[j].tag = "key"
      BY <1>1, <3>1
    <3> QED
      BY <3>1, <3>2
  <2> QED
    BY <2>1, <2>2
<1> QED
  BY <1>2 DEF KeyTags, q

LEMMA KeysTail ==
  ASSUME NEW kq \in Seq(Wire), kq # <<>>, KeyTags(kq)
  PROVE  KeyTags(Tail(kq))
<1> DEFINE q == Tail(kq)
<1>1. /\ Len(kq) \in Nat \ {0} /\ DOMAIN kq = 1 .. Len(kq) /\ DOMAIN q = 1 .. Len(kq) - 1
      /\ \A i \in 1 .. Len(kq) - 1 : q[i] = kq[i + 1]
  BY TailAt
<1> HIDE DEF q
<1>2. KeyTags(q)
  BY <1>1 DEF KeyTags
<1> QED
  BY <1>2 DEF q

\* No command byte waits unless the next step takes it.
LEMMA NoneWaits ==
  ASSUME NEW kq, NEW s, NEW hooked, Replies(kq, s, hooked),
         s = <<>> \/ s[1] \notin {"inhibit", "enable"}
  PROVE  NoReply(kq)
BY DEF Replies, NoReply

LEMMA NoneIsFine ==
  ASSUME NEW kq, NEW s, NEW hooked, NoReply(kq)
  PROVE  Replies(kq, s, hooked)
BY DEF Replies, NoReply

LEMMA RepliesAppend ==
  ASSUME NEW kq \in Seq(Wire), NEW w \in Wire, NEW s, NEW hooked, Replies(kq, s, hooked),
         w.tag # "reply"
  PROVE  Replies(Append(kq, w), s, hooked)
<1> DEFINE q == Append(kq, w)
<1>1. /\ Len(kq) \in Nat /\ DOMAIN kq = 1 .. Len(kq) /\ DOMAIN q = 1 .. Len(kq) + 1
      /\ (\A i \in 1 .. Len(kq) : q[i] = kq[i]) /\ q[Len(kq) + 1] = w
  BY AppendAt
<1> HIDE DEF q
<1>2. \A i \in DOMAIN q : q[i].tag = "reply" => i \in DOMAIN kq /\ q[i] = kq[i]
  BY <1>1
<1>3. Replies(q, s, hooked)
  BY <1>2 DEF Replies
<1> QED
  BY <1>3 DEF q

LEMMA RepliesConcat ==
  ASSUME NEW kq \in Seq(Wire), NEW a \in Seq(Wire), NEW s, NEW hooked, Replies(kq, s, hooked),
         \A i \in DOMAIN a : a[i].tag = "key"
  PROVE  Replies(kq \o a, s, hooked)
<1> DEFINE q == kq \o a
<1>1. /\ Len(kq) \in Nat /\ Len(a) \in Nat /\ DOMAIN kq = 1 .. Len(kq) /\ DOMAIN a = 1 .. Len(a)
      /\ DOMAIN q = 1 .. Len(kq) + Len(a)
      /\ (\A i \in 1 .. Len(kq) : q[i] = kq[i]) /\ (\A i \in 1 .. Len(a) : q[Len(kq) + i] = a[i])
  BY ConcatAt
<1> HIDE DEF q
<1>2. ASSUME NEW i \in DOMAIN q, q[i].tag = "reply" PROVE i \in DOMAIN kq /\ q[i] = kq[i]
  <2>1. CASE i \in 1 .. Len(kq)
    BY <1>1, <2>1
  <2>2. CASE i \notin 1 .. Len(kq)
    <3> DEFINE j == i - Len(kq)
    <3>1. j \in 1 .. Len(a) /\ Len(kq) + j = i
      BY <1>1, <2>2
    <3> HIDE DEF j
    <3>2. q[Len(kq) + j] = a[j] /\ a[j].tag = "key"
      BY <1>1, <3>1
    <3> QED
      BY <1>2, <3>1, <3>2
  <2> QED
    BY <2>1, <2>2
<1>3. Replies(q, s, hooked)
  BY <1>2 DEF Replies
<1> QED
  BY <1>3 DEF q

LEMMA RepliesTail ==
  ASSUME NEW kq \in Seq(Wire), kq # <<>>, NEW s, NEW hooked, Replies(kq, s, hooked)
  PROVE  /\ Replies(Tail(kq), s, hooked)
         /\ Head(kq).tag = "reply" => NoReply(Tail(kq)) /\ Fair(Head(kq).b, hooked)
<1> DEFINE q == Tail(kq)
           v == Head(kq)
<1>1. /\ Len(kq) \in Nat \ {0} /\ DOMAIN kq = 1 .. Len(kq) /\ DOMAIN q = 1 .. Len(kq) - 1
      /\ kq[1] = v /\ \A i \in 1 .. Len(kq) - 1 : q[i] = kq[i + 1]
  BY TailAt
<1> HIDE DEF q, v
<1>2. ASSUME NEW i \in DOMAIN q, q[i].tag = "reply"
      PROVE  /\ Fair(q[i].b, hooked) /\ s # <<>> /\ s[1] \in {"inhibit", "enable"}
             /\ \A j \in DOMAIN q : q[j].tag = "reply" => j = i
             /\ v.tag # "reply"
  <2> DEFINE k == i + 1
  <2>1. k \in DOMAIN kq /\ q[i] = kq[k] /\ k # 1 /\ 1 \in DOMAIN kq
    BY <1>1
  <2> HIDE DEF k
  <2>2. /\ Fair(kq[k].b, hooked) /\ s # <<>> /\ s[1] \in {"inhibit", "enable"}
        /\ \A j \in DOMAIN kq : kq[j].tag = "reply" => j = k
    BY <1>2, <2>1 DEF Replies
  <2>3. v.tag # "reply"
    BY <1>1, <2>1, <2>2
  <2>4. ASSUME NEW j \in DOMAIN q, q[j].tag = "reply" PROVE j = i
    <3>1. j + 1 \in DOMAIN kq /\ kq[j + 1] = q[j]
      BY <1>1
    <3>2. j + 1 = k
      BY <2>2, <2>4, <3>1
    <3> QED
      BY <1>1, <3>2 DEF k
  <2> QED
    BY <2>1, <2>2, <2>3, <2>4
<1>3. Replies(q, s, hooked)
  BY <1>2 DEF Replies
<1>4. v.tag = "reply" => NoReply(q)
  BY <1>2 DEF NoReply
<1>5. v.tag = "reply" => Fair(v.b, hooked)
  <2>1. 1 \in DOMAIN kq
    BY <1>1
  <2> QED
    BY <1>1, <2>1 DEF Replies
<1> QED
  BY <1>3, <1>4, <1>5 DEF q, v

\* The command byte asked for is the only one.
LEMMA ReplyAsked ==
  ASSUME NEW kq \in Seq(Wire), NEW w \in Wire, NEW s, NEW hooked, NoReply(kq),
         w.tag = "reply", Fair(w.b, hooked), s # <<>>, s[1] \in {"inhibit", "enable"}
  PROVE  Replies(Append(kq, w), s, hooked)
<1> DEFINE q == Append(kq, w)
<1>1. /\ Len(kq) \in Nat /\ DOMAIN kq = 1 .. Len(kq) /\ DOMAIN q = 1 .. Len(kq) + 1
      /\ (\A i \in 1 .. Len(kq) : q[i] = kq[i]) /\ q[Len(kq) + 1] = w
  BY AppendAt
<1> HIDE DEF q
<1>2. \A i \in DOMAIN q : q[i].tag = "reply" => i = Len(kq) + 1 /\ q[i] = w
  BY <1>1 DEF NoReply
<1>3. Replies(q, s, hooked)
  BY <1>2 DEF Replies
<1> QED
  BY <1>3 DEF q

----------------------------------------------------------------------------
(* The mouse's queue.                                                      *)

\* A move is appended.
LEMMA MoveAppend ==
  ASSUME NEW mq \in Seq(Wire), NEW pos \in 0 .. 2, NEW w \in Wire, w.tag = "move", w.b = pos + 1,
         MouseTags(mq), InStep(mq, pos)
  PROVE  /\ MouseTags(Append(mq, w)) /\ InStep(Append(mq, w), (pos + 1) % 3)
         /\ \A index : Aligned(mq, pos, index) => Aligned(Append(mq, w), (pos + 1) % 3, index)
         /\ \A n : Within(mq, n) => Within(Append(mq, w), n)
         /\ NoAnswer(mq) => NoAnswer(Append(mq, w))
<1> DEFINE q == Append(mq, w)
           n == Len(mq)
           p == (pos + 1) % 3
<1>1. /\ n \in Nat /\ DOMAIN mq = 1 .. n /\ DOMAIN q = 1 .. n + 1 /\ q # <<>> /\ Len(q) = n + 1
      /\ (\A i \in 1 .. n : q[i] = mq[i]) /\ q[n + 1] = w
  BY AppendAt
<1>2. p = After(w)
  <2>1. pos = 0 \/ pos = 1 \/ pos = 2
    OBVIOUS
  <2> QED
    BY <2>1 DEF After
<1> HIDE DEF q, n, p
<1>3. MouseTags(q)
  BY <1>1 DEF MouseTags
<1>4. InStep(q, p)
  <2> SUFFICES ASSUME NEW i \in DOMAIN q
               PROVE  IF i < Len(q) THEN q[i + 1].tag = "move" => q[i + 1].b = After(q[i]) + 1
                      ELSE After(q[i]) = p
    BY DEF InStep
  <2>1. CASE i < n
    <3>1. i \in 1 .. n /\ i + 1 \in 1 .. n
      BY <1>1, <2>1
    <3>2. mq[i + 1].tag = "move" => mq[i + 1].b = After(mq[i]) + 1
      BY <1>1, <2>1, <3>1 DEF InStep, n
    <3> QED
      BY <1>1, <2>1, <3>1, <3>2
  <2>2. CASE i = n
    <3>1. After(mq[i]) = pos
      BY <1>1, <2>2 DEF InStep, n
    <3> QED
      BY <1>1, <2>2, <3>1
  <2>3. CASE i = n + 1
    BY <1>1, <1>2, <2>3
  <2> QED
    BY <1>1, <2>1, <2>2, <2>3
<1>5. ASSUME NEW index, Aligned(mq, pos, index) PROVE Aligned(q, p, index)
  <2>1. CASE n = 0
    <3>1. mq = <<>>
      BY <2>1 DEF n
    <3>2. pos = index
      BY <1>5, <3>1 DEF Aligned
    <3>3. q[1] = w
      BY <1>1, <2>1
    <3> QED
      BY <1>1, <3>2, <3>3 DEF Aligned
  <2>2. CASE n # 0
    <3>1. mq # <<>> /\ q[1] = mq[1]
      BY <1>1, <2>2 DEF n
    <3> QED
      BY <1>1, <1>5, <3>1 DEF Aligned
  <2> QED
    BY <2>1, <2>2
<1>6. \A i \in DOMAIN q : q[i].tag = "mouse" => i \in DOMAIN mq /\ q[i] = mq[i]
  BY <1>1
<1>7. \A k : Within(mq, k) => Within(q, k)
  BY <1>6 DEF Within
<1>8. NoAnswer(mq) => NoAnswer(q)
  BY <1>6 DEF NoAnswer
<1> QED
  BY <1>3, <1>4, <1>5, <1>7, <1>8 DEF q, p

\* An answer is appended.
LEMMA AnswerAppend ==
  ASSUME NEW mq \in Seq(Wire), NEW pos, NEW a \in Seq(Wire), a # <<>>, \A i \in DOMAIN a : a[i].tag = "mouse",
         MouseTags(mq), InStep(mq, pos)
  PROVE  /\ MouseTags(mq \o a) /\ InStep(mq \o a, 0)
         /\ Aligned(mq, pos, 0) => Aligned(mq \o a, 0, 0)
         /\ NoAnswer(mq) => \A n \in Int : Len(a) <= n => Within(mq \o a, n)
<1> DEFINE q == mq \o a
           n == Len(mq)
           m == Len(a)
<1>1. /\ n \in Nat /\ m \in Nat /\ DOMAIN mq = 1 .. n /\ DOMAIN q = 1 .. n + m /\ Len(q) = n + m
      /\ DOMAIN a = 1 .. m
      /\ (\A i \in 1 .. n : q[i] = mq[i]) /\ \A i \in 1 .. m : q[n + i] = a[i]
  BY ConcatAt
<1>2. m # 0
  OBVIOUS
<1> HIDE DEF q, n, m
<1>3. ASSUME NEW i \in DOMAIN q, i > n PROVE q[i].tag = "mouse"
  <2> DEFINE j == i - n
  <2>1. j \in 1 .. m /\ n + j = i
    BY <1>1, <1>3
  <2> HIDE DEF j
  <2>2. q[n + j] = a[j] /\ a[j].tag = "mouse"
    BY <1>1, <2>1
  <2> QED
    BY <2>1, <2>2
<1>4. \A i \in DOMAIN q : i > n \/ (i \in DOMAIN mq /\ q[i] = mq[i])
  BY <1>1
<1>5. MouseTags(q)
  BY <1>3, <1>4 DEF MouseTags
<1>6. InStep(q, 0)
  <2> SUFFICES ASSUME NEW i \in DOMAIN q
               PROVE  IF i < Len(q) THEN q[i + 1].tag = "move" => q[i + 1].b = After(q[i]) + 1
                      ELSE After(q[i]) = 0
    BY DEF InStep
  <2>1. CASE i < n
    <3>1. i \in 1 .. n /\ i + 1 \in 1 .. n
      BY <1>1, <2>1
    <3>2. mq[i + 1].tag = "move" => mq[i + 1].b = After(mq[i]) + 1
      BY <1>1, <2>1, <3>1 DEF InStep, n
    <3> QED
      BY <1>1, <2>1, <3>1, <3>2
  <2>2. CASE ~(i < n) /\ i < Len(q)
    <3>1. i + 1 \in DOMAIN q /\ i + 1 > n
      BY <1>1, <2>2
    <3> QED
      BY <1>3, <2>2, <3>1
  <2>3. CASE ~(i < Len(q))
    <3>1. i > n
      BY <1>1, <1>2, <2>3
    <3>2. q[i].tag = "mouse"
      BY <1>3, <3>1
    <3> QED
      BY <2>3, <3>2 DEF After
  <2> QED
    BY <2>1, <2>2, <2>3
<1>7. Aligned(mq, pos, 0) => Aligned(q, 0, 0)
  <2>1. q # <<>>
    BY <1>1, <1>2 DEF q
  <2>2. CASE n = 0
    <3>1. q[1].tag = "mouse"
      BY <1>1, <1>2, <1>3, <2>2
    <3> QED
      BY <2>1, <3>1 DEF Aligned
  <2>3. CASE n # 0
    <3>1. mq # <<>> /\ q[1] = mq[1]
      BY <1>1, <2>3 DEF n
    <3> QED
      BY <2>1, <3>1 DEF Aligned
  <2> QED
    BY <2>2, <2>3
<1>8. ASSUME NoAnswer(mq), NEW k \in Int, m <= k PROVE Within(q, k)
  <2> SUFFICES ASSUME NEW i \in DOMAIN q, NEW j \in DOMAIN q, q[i].tag = "mouse", q[j].tag = "mouse"
               PROVE  i - j < k
    BY DEF Within
  <2>1. i > n /\ j > n
    BY <1>4, <1>8 DEF NoAnswer
  <2> QED
    BY <1>1, <1>8, <2>1
<1> QED
  BY <1>5, <1>6, <1>7, <1>8 DEF q, m

\* The first byte is taken.
LEMMA MouseTail ==
  ASSUME NEW mq \in Seq(Wire), mq # <<>>, NEW pos, MouseTags(mq), InStep(mq, pos)
  PROVE  /\ MouseTags(Tail(mq)) /\ InStep(Tail(mq), pos)
         /\ NoAnswer(mq) \/ Head(mq).tag = "mouse" => Aligned(Tail(mq), pos, After(Head(mq)))
         /\ \A n : Within(mq, n) => Within(Tail(mq), n)
         /\ Head(mq).tag = "mouse" => \A n \in Int : Within(mq, n) => Within(Tail(mq), n - 1)
         /\ NoAnswer(mq) => NoAnswer(Tail(mq)) /\ Head(mq).tag = "move"
<1> DEFINE q == Tail(mq)
           v == Head(mq)
           n == Len(mq)
<1>1. /\ n \in Nat \ {0} /\ DOMAIN mq = 1 .. n /\ DOMAIN q = 1 .. n - 1 /\ Len(q) = n - 1
      /\ mq[1] = v /\ \A i \in 1 .. n - 1 : q[i] = mq[i + 1]
  BY TailAt
<1> HIDE DEF q, v, n
<1>2. \A i \in DOMAIN q : i + 1 \in DOMAIN mq /\ q[i] = mq[i + 1] /\ i \in Int
  BY <1>1
<1>3. MouseTags(q)
  BY <1>2 DEF MouseTags
<1>4. InStep(q, pos)
  <2> SUFFICES ASSUME NEW i \in DOMAIN q
               PROVE  IF i < Len(q) THEN q[i + 1].tag = "move" => q[i + 1].b = After(q[i]) + 1
                      ELSE After(q[i]) = pos
    BY DEF InStep
  <2> DEFINE k == i + 1
  <2>1. k \in DOMAIN mq /\ q[i] = mq[k] /\ (i < Len(q) <=> k < n) /\ (k < n => q[i + 1] = mq[k + 1])
    BY <1>1
  <2> HIDE DEF k
  <2>2. IF k < n THEN mq[k + 1].tag = "move" => mq[k + 1].b = After(mq[k]) + 1 ELSE After(mq[k]) = pos
    BY <2>1 DEF InStep, n
  <2> QED
    BY <2>1, <2>2
<1>5. IF 1 < n THEN mq[2].tag = "move" => mq[2].b = After(v) + 1 ELSE After(v) = pos
  <2> DEFINE k == 1
  <2>1. k \in DOMAIN mq /\ k + 1 = 2
    BY <1>1
  <2> HIDE DEF k
  <2>2. IF k < n THEN mq[k + 1].tag = "move" => mq[k + 1].b = After(mq[k]) + 1 ELSE After(mq[k]) = pos
    BY <2>1 DEF InStep, n
  <2> QED
    BY <1>1, <2>1, <2>2 DEF k
<1>6. ASSUME NoAnswer(mq) \/ v.tag = "mouse" PROVE Aligned(q, pos, After(v))
  <2>1. CASE n = 1
    <3>1. q = <<>>
      <4>1. q \in Seq(Wire)
        BY TailAt DEF q
      <4> QED
        BY <1>1, <2>1, <4>1
    <3> QED
      BY <1>5, <2>1, <3>1 DEF Aligned
  <2>2. CASE n # 1
    <3>1. 1 < n /\ q[1] = mq[2] /\ 2 \in DOMAIN mq /\ q # <<>>
      BY <1>1, <2>2
    <3>2. mq[2].tag # "move" => After(v) = 0
      <4>1. mq[2].tag # "move" => mq[2].tag = "mouse"
        BY <3>1 DEF MouseTags
      <4> QED
        BY <1>6, <3>1, <4>1 DEF NoAnswer, After
    <3> QED
      BY <1>5, <3>1, <3>2 DEF Aligned
  <2> QED
    BY <2>1, <2>2
<1>7. ASSUME NEW k, Within(mq, k) PROVE Within(q, k)
  <2> SUFFICES ASSUME NEW i \in DOMAIN q, NEW j \in DOMAIN q, q[i].tag = "mouse", q[j].tag = "mouse"
               PROVE  i - j < k
    BY DEF Within
  <2>1. (i + 1) - (j + 1) < k
    BY <1>2, <1>7 DEF Within
  <2>2. (i + 1) - (j + 1) = i - j
    BY <1>2
  <2> QED
    BY <2>1, <2>2
<1>8. ASSUME v.tag = "mouse", NEW k \in Int, Within(mq, k) PROVE Within(q, k - 1)
  <2> SUFFICES ASSUME NEW i \in DOMAIN q, NEW j \in DOMAIN q, q[i].tag = "mouse", q[j].tag = "mouse"
               PROVE  i - j < k - 1
    BY DEF Within
  <2>1. i \in 1 .. n - 1 /\ j \in 1 .. n - 1 /\ i + 1 \in DOMAIN mq /\ 1 \in DOMAIN mq /\ q[i] = mq[i + 1]
    BY <1>1, <1>2
  <2>2. (i + 1) - 1 < k
    BY <1>1, <1>8, <2>1 DEF Within
  <2> QED
    BY <1>1, <2>1, <2>2
<1>9. NoAnswer(mq) => NoAnswer(q) /\ v.tag = "move"
  BY <1>1, <1>2 DEF NoAnswer, MouseTags
<1> QED
  BY <1>3, <1>4, <1>6, <1>7, <1>8, <1>9 DEF q, v

\* No answer waits, and none is about to come, unless the next step takes one.
LEMMA NoneAnswers ==
  ASSUME NEW mq \in Seq(Wire), NEW in, NEW s, Answered(mq, in, s), Lead(s) = 0
  PROVE  NoAnswer(mq) /\ in.to # "mouse"
<1>1. NoAnswer(mq)
  <2> SUFFICES ASSUME NEW i \in DOMAIN mq, mq[i].tag = "mouse" PROVE FALSE
    BY DEF NoAnswer
  <2>1. i - i < 0
    BY DEF Answered, Within
  <2>2. i \in Int
    BY LenProperties
  <2> QED
    BY <2>1, <2>2
<1>2. in.to # "mouse"
  <2> DEFINE n == Len(Answer("mouse", in.b))
  <2>1. n \in 1 .. 3
    BY AnswerFits
  <2>2. in.to = "mouse" => n <= Lead(s)
    BY DEF Answered
  <2> HIDE DEF n
  <2> QED
    BY <2>1, <2>2
<1> QED
  BY <1>1, <1>2

LEMMA IdleIsFine ==
  ASSUME NEW mq, NEW in, NEW s, NoAnswer(mq), in.to # "mouse"
  PROVE  Answered(mq, in, s)
BY DEF Answered, NoAnswer, Within

----------------------------------------------------------------------------
(* What a state of the invariant says.                                     *)

LEMMA Shape ==
  ASSUME TypeInv
  PROVE  /\ Wired(ctl) /\ ctl \in Controller /\ ctl.kq \in Seq(Wire) /\ ctl.mq \in Seq(Wire)
         /\ line \in PicLines /\ mouse.pos \in 0 .. 2 /\ cpu \in Processor /\ cpu.steps \in Seq(Steps)
         /\ hist \in History /\ ebda.hooked \in BOOLEAN /\ ebda.index \in 0 .. 2 /\ ebda.count \in {0, 2}
         /\ cpu.steps # <<>> => Head(cpu.steps) = cpu.steps[1]
<1>1. cpu.steps \in Seq(Steps) /\ ctl.kq \in Seq(Wire) /\ ctl.mq \in Seq(Wire)
  BY DEF TypeInv, Processor, Wired, Controller
<1>2. cpu.steps # <<>> => Head(cpu.steps) = cpu.steps[1]
  BY <1>1, TailAt
<1> QED
  BY <1>1, <1>2 DEF TypeInv, Wired

\* An interrupt is taken only when no call waits for an answer.
LEMMA OpenIsLoud ==
  ASSUME TypeInv, Busy, Open \/ ~Running
  PROVE  ~Quiet
<1>1. CASE ~Running
  BY <1>1 DEF Busy
<1>2. CASE Running /\ Open
  <2>1. cpu.if \/ Delaying
    BY <1>2 DEF Open, Running
  <2>2. CASE cpu.if
    BY <2>2 DEF Busy, Quiet
  <2>3. CASE Delaying
    <3>1. cpu.pc = "service" /\ cpu.steps # <<>> /\ NeedsEmpty(Head(cpu.steps))
      BY <2>3 DEF Delaying
    <3> QED
      BY <3>1, Shape DEF Quiet
  <2> QED
    BY <2>1, <2>2, <2>3
<1> QED
  BY <1>1, <1>2

\* Then no command byte waits and no answer of the mouse.
LEMMA Unheard ==
  ASSUME TypeInv, Wires, Undisturbed,
         ~Quiet \/ cpu.steps = <<>> \/ cpu.steps[1] \notin {"inhibit", "enable", "get"}
  PROVE  NoReply(ctl.kq) /\ NoAnswer(ctl.mq) /\ ctl.in.to # "mouse"
<1>1. cpu.steps = <<>> \/ cpu.steps[1] \notin {"inhibit", "enable", "get"}
  BY DEF Quiet, NeedsEmpty
<1>2. NoReply(ctl.kq)
  <2>1. Replies(ctl.kq, cpu.steps, ebda.hooked)
    BY DEF Wires, Clean
  <2> QED
    BY <1>1, <2>1, NoneWaits
<1>3. Lead(cpu.steps) = 0
  BY <1>1, Shape, LeadIs
<1>4. Answered(ctl.mq, ctl.in, cpu.steps)
  BY DEF Wires, Clean
<1> QED
  BY <1>2, <1>3, <1>4, Shape, NoneAnswers

\* A byte is read: it was the first of the queue that its tag says.
LEMMA TakenOf ==
  ASSUME TypeInv, NEW c, Wired(c), c.out # "none", KeyTags(c.kq), MouseTags(c.mq)
  PROVE  /\ Shown(c).tag \in {"code", "key", "reply"} =>
              /\ c.out = "key" /\ c.kq # <<>> /\ Shown(c) = Head(c.kq)
              /\ Taken(c).kq = Tail(c.kq) /\ Taken(c).mq = c.mq
         /\ Shown(c).tag \in {"mouse", "move"} =>
              /\ c.out = "mouse" /\ c.mq # <<>> /\ Shown(c) = Head(c.mq)
              /\ Taken(c).mq = Tail(c.mq) /\ Taken(c).kq = c.kq
<1>1. c.out \in {"key", "mouse"} /\ c.kq \in Seq(Wire) /\ c.mq \in Seq(Wire)
  BY DEF Wired, Controller
<1>2. CASE c.out = "key"
  <2>1. c.kq # <<>> /\ Shown(c) = Head(c.kq)
    BY <1>2 DEF Wired, Showing, Shown
  <2>2. c.kq[1] = Head(c.kq) /\ 1 \in DOMAIN c.kq
    BY <1>1, <2>1, TailAt
  <2>3. Shown(c).tag \in {"code", "key", "reply"}
    BY <2>1, <2>2 DEF KeyTags
  <2> QED
    BY <1>2, <2>1, <2>3, TakenKeeps
<1>3. CASE c.out = "mouse"
  <2>1. c.mq # <<>> /\ Shown(c) = Head(c.mq)
    BY <1>3 DEF Wired, Showing, Shown
  <2>2. c.mq[1] = Head(c.mq) /\ 1 \in DOMAIN c.mq
    BY <1>1, <2>1, TailAt
  <2>3. Shown(c).tag \in {"mouse", "move"}
    BY <2>1, <2>2 DEF MouseTags
  <2> QED
    BY <1>3, <2>1, <2>3, TakenKeeps
<1> QED
  BY <1>1, <1>2, <1>3

LEMMA TakenTags ==
  ASSUME NEW c, Wired(c), NEW pos, KeyTags(c.kq), MouseTags(c.mq), InStep(c.mq, pos)
  PROVE  KeyTags(Taken(c).kq) /\ MouseTags(Taken(c).mq) /\ InStep(Taken(c).mq, pos)
<1>1. /\ c.kq \in Seq(Wire) /\ c.mq \in Seq(Wire)
      /\ (c.out = "key" => c.kq # <<>>) /\ (c.out = "mouse" => c.mq # <<>>)
  BY DEF Wired, Controller, Showing
<1>2. KeyTags(Taken(c).kq)
  BY <1>1, TakenKeeps, KeysTail
<1>3. MouseTags(Taken(c).mq) /\ InStep(Taken(c).mq, pos)
  BY <1>1, TakenKeeps, MouseTail
<1> QED
  BY <1>2, <1>3

\* A read that leaves the traffic undisturbed read the byte meant for it.
LEMMA ReadingKeeps ==
  ASSUME TypeInv, NEW who \in Readers, NEW tag, hist' = Reading(who, tag)
  PROVE  /\ hist'.packet = hist.packet
         /\ hist'.first = "none" => hist.first = "none" /\ Shown(ctl).tag = tag
         /\ hist'.first \in {hist.first, who}
<1> DEFINE f == IF hist.first = "none" /\ Shown(ctl).tag # tag THEN who ELSE hist.first
<1>1. hist' = [hist EXCEPT !.first = f]
  BY DEF Reading, Disturb
<1>2. who # "none"
  BY DEF Readers
<1>3. (f = "none" => hist.first = "none" /\ Shown(ctl).tag = tag) /\ f \in {hist.first, who}
  BY <1>2
<1> HIDE DEF f
<1>4. hist'.packet = hist.packet /\ hist'.first = f
  BY <1>1, Shape DEF History
<1> QED
  BY <1>3, <1>4

\* A step that leaves the wires alone while no service's steps wait.
LEMMA PlainStep ==
  ASSUME TypeInv, Wires, UNCHANGED <<ctl, line, mouse, ebda>>,
         hist'.first = hist.first, hist'.packet = hist.packet,
         cpu.steps = <<>>, cpu'.steps = <<>>, cpu'.pc \notin {"service", "lamps", "lit"},
         cpu'.fn # "unhook", cpu'.on9 = cpu.on9, cpu'.on74 = cpu.on74
  PROVE  Wires'
<1>1. Busy'
  <2>1. Ordered(cpu'.fn, <<>>)
    BY OrderedSteps
  <2> QED
    BY <2>1 DEF Busy, Quiet
<1>2. ASSUME Undisturbed' PROVE Clean'
  <2>1. Undisturbed /\ Clean
    BY <1>2 DEF Undisturbed, Wires
  <2>2. Remembered(cpu'.steps, cpu'.prev, ebda'.hooked)
    BY DEF Remembered
  <2>3. ~ebda'.hooked \/ Leaving(cpu'.fn, cpu'.steps) => Deaf(ctl', line')
    BY <2>1 DEF Clean, Leaving
  <2> QED
    BY <2>1, <2>2, <2>3 DEF Clean
<1> QED
  BY <1>1, <1>2 DEF Wires

----------------------------------------------------------------------------
(* The devices.                                                            *)

\* The keyboard sends a byte.
LEMMA CodeSent ==
  ASSUME TypeInv, Wires, NEW w \in Wire, w.tag = "code", Write(PutKey(ctl, w)),
         UNCHANGED <<mouse, ebda, cpu>>, hist'.first = hist.first, hist'.packet = hist.packet
  PROVE  Wires'
<1> DEFINE c == PutKey(ctl, w)
<1>1. /\ SameBut(ctl, c) /\ c.mq = ctl.mq /\ c.kq = Append(ctl.kq, w)
      /\ ctl.out # "none" => c.out = ctl.out
  BY Shape, PutKeeps
<1>2. ctl' = c /\ line' = Lines(line, c, FALSE)
  BY DEF Write
<1> HIDE DEF c
<1>3. Busy'
  BY DEF Wires, Busy, Quiet, Running
<1>4. /\ cpu'.on74 = "read" => ctl'.out = "mouse"
      /\ line'.irr \subseteq line'.high
      /\ KeyTags(ctl'.kq) /\ MouseTags(ctl'.mq) /\ InStep(ctl'.mq, mouse'.pos)
      /\ hist'.first \notin {"int09", "int74"}
  <2>1. KeyTags(c.kq)
    BY <1>1, Shape, KeysAppend DEF Wires
  <2>2. Lines(line, c, FALSE).irr \subseteq Lines(line, c, FALSE).high
    BY Shape, LinesRise
  <2> QED
    BY <1>1, <1>2, <2>1, <2>2 DEF Wires
<1>5. ASSUME Undisturbed' PROVE Clean'
  <2>1. Undisturbed /\ Clean
    BY <1>5 DEF Undisturbed, Wires
  <2>2. Replies(c.kq, cpu.steps, ebda.hooked)
    BY <1>1, <2>1, Shape, RepliesAppend DEF Clean
  <2>3. Listening(c, cpu.on9)
    BY <1>1, <2>1 DEF Clean, Listening, SameBut
  <2>4. ~ebda.hooked \/ Leaving(cpu.fn, cpu.steps) => Deaf(c, Lines(line, c, FALSE))
    BY <1>1, <2>1, Shape, StaysDeaf DEF Clean, SameBut
  <2>5. c.in = ctl.in
    BY <1>1 DEF SameBut
  <2> QED
    BY <1>1, <1>2, <2>1, <2>2, <2>3, <2>4, <2>5 DEF Clean
<1> QED
  BY <1>3, <1>4, <1>5 DEF Wires

LEMMA SendKeyWires == TypeInv /\ Wires /\ SendKey => Wires'
<1> SUFFICES ASSUME TypeInv, Wires, SendKey PROVE Wires'
  OBVIOUS
<1>1. ASSUME NEW b \in Octet PROVE Byte(b, "code") \in Wire /\ Byte(b, "code").tag = "code"
  BY DEF Byte, Wire
<1>2. PICK b \in Octet : Write(PutKey(ctl, Byte(b, "code")))
  <2>1. CASE kbd.rest # <<>> /\ Write(PutKey(ctl, Byte(Head(kbd.rest), "code")))
    <3>1. kbd.rest \in Seq(Octet)
      BY DEF TypeInv
    <3>2. Head(kbd.rest) \in Octet
      BY <2>1, <3>1, HeadTailProperties
    <3> QED
      BY <2>1, <3>2
  <2>2. CASE \E k \in Keys : \E up \in BOOLEAN : Write(PutKey(ctl, Byte(Head(KeyBytes(k, up)), "code")))
    BY <2>2, OctetsFit
  <2>3. CASE \E k \in Keys : Write(PutKey(ctl, Byte(Head(KeyBytes(k, k \in kbd.held)), "code")))
    <3> PICK k \in Keys : Write(PutKey(ctl, Byte(Head(KeyBytes(k, k \in kbd.held)), "code")))
      BY <2>3
    <3> DEFINE up == k \in kbd.held
    <3>1. up \in BOOLEAN /\ Write(PutKey(ctl, Byte(Head(KeyBytes(k, up)), "code")))
      OBVIOUS
    <3> HIDE DEF up
    <3> QED
      BY <2>2, <3>1
  <2> QED
    BY <2>1, <2>3 DEF SendKey
<1>3. hist'.first = hist.first /\ hist'.packet = hist.packet
  <2>1. hist' = hist \/ hist' = [hist EXCEPT !.keys = @ + 1]
    BY DEF SendKey
  <2> QED
    BY <2>1, Shape DEF History
<1>4. UNCHANGED <<mouse, ebda, cpu>>
  BY DEF SendKey
<1> DEFINE w == Byte(b, "code")
<1>5. w \in Wire /\ w.tag = "code" /\ Write(PutKey(ctl, w))
  BY <1>1, <1>2
<1> HIDE DEF w
<1> QED
  BY <1>3, <1>4, <1>5, CodeSent

LEMMA SendMoveWires == TypeInv /\ Wires /\ SendMove => Wires'
<1> SUFFICES ASSUME TypeInv, Wires, SendMove PROVE Wires'
  OBVIOUS
<1> DEFINE w == Byte(mouse.pos + 1, "move")
           p == (mouse.pos + 1) % 3
           c == PutMove(ctl, w)
<1>1. w \in Wire /\ w.tag = "move" /\ w.b = mouse.pos + 1
  <2> DEFINE n == mouse.pos + 1
  <2>1. n \in Octet
    BY Shape, PositionFits
  <2> HIDE DEF n
  <2>2. Byte(n, "move") \in Wire /\ Byte(n, "move").tag = "move" /\ Byte(n, "move").b = n
    BY <2>1 DEF Byte, Wire
  <2> QED
    BY <2>2 DEF n
<1>2. /\ ctl' = c /\ line' = Lines(line, c, FALSE) /\ mouse'.pos = p
      /\ UNCHANGED <<ebda, cpu>>
  <2>1. mouse' = [mouse EXCEPT !.pos = p] /\ mouse \in [on : BOOLEAN, pos : 0 .. 2]
    BY DEF SendMove, TypeInv
  <2> HIDE DEF p
  <2>2. mouse'.pos = p
    BY <2>1
  <2> QED
    BY <2>2 DEF SendMove, Write
<1>3. hist'.first = hist.first /\ hist'.packet = hist.packet
  <2>1. hist' = hist \/ hist' = [hist EXCEPT !.moves = @ + 1]
    BY DEF SendMove
  <2> QED
    BY <2>1, Shape DEF History
<1> HIDE DEF w
<1>4. /\ SameBut(ctl, c) /\ c.kq = ctl.kq /\ c.mq = Append(ctl.mq, w)
      /\ ctl.out # "none" => c.out = ctl.out
  BY <1>1, Shape, PutKeeps
<1>5. /\ MouseTags(c.mq) /\ InStep(c.mq, p)
      /\ \A index : Aligned(ctl.mq, mouse.pos, index) => Aligned(c.mq, p, index)
      /\ \A n : Within(ctl.mq, n) => Within(c.mq, n)
      /\ NoAnswer(ctl.mq) => NoAnswer(c.mq)
  BY <1>1, <1>4, Shape, MoveAppend DEF Wires
<1> HIDE DEF c, p
<1>6. Busy'
  BY <1>2 DEF Wires, Busy, Quiet, Running
<1>7. /\ cpu'.on74 = "read" => ctl'.out = "mouse"
      /\ line'.irr \subseteq line'.high
      /\ KeyTags(ctl'.kq) /\ MouseTags(ctl'.mq) /\ InStep(ctl'.mq, mouse'.pos)
      /\ hist'.first \notin {"int09", "int74"}
  <2>1. Lines(line, c, FALSE).irr \subseteq Lines(line, c, FALSE).high
    BY Shape, LinesRise
  <2> QED
    BY <1>2, <1>3, <1>4, <1>5, <2>1 DEF Wires
<1>8. ASSUME Undisturbed' PROVE Clean'
  <2>1. Undisturbed /\ Clean
    BY <1>3, <1>8 DEF Undisturbed, Wires
  <2>2. Answered(c.mq, c.in, cpu.steps)
    BY <1>4, <1>5, <2>1 DEF Clean, Answered, SameBut
  <2>3. Listening(c, cpu.on9)
    BY <1>4, <2>1 DEF Clean, Listening, SameBut
  <2>4. ~ebda.hooked \/ Leaving(cpu.fn, cpu.steps) => Deaf(c, Lines(line, c, FALSE))
    BY <1>4, <2>1, Shape, StaysDeaf DEF Clean, SameBut
  <2>5. ebda.count = 2 => Aligned(c.mq, p, ebda.index)
    BY <1>5, <2>1 DEF Clean
  <2> QED
    BY <1>2, <1>3, <1>4, <2>1, <2>2, <2>3, <2>4, <2>5 DEF Clean
<1> QED
  BY <1>6, <1>7, <1>8 DEF Wires

\* What a device answers.
LEMMA AnswerBytes ==
  ASSUME NEW to \in {"key", "mouse"}, NEW b
  PROVE  LET a == [i \in DOMAIN Answer(to, b) |-> Byte(Answer(to, b)[i], to)]
         IN  /\ a \in Seq(Wire) /\ a # <<>> /\ Len(a) = Len(Answer(to, b))
             /\ \A i \in DOMAIN a : a[i].tag = to
<1> DEFINE answer == Answer(to, b)
           a == [i \in DOMAIN answer |-> Byte(answer[i], to)]
<1>1. a \in Seq(Wire) /\ answer \in Seq(Octet) /\ Len(answer) \in 1 .. 3
  BY AnswerFits
<1>2. DOMAIN answer = 1 .. Len(answer) /\ DOMAIN a = 1 .. Len(a) /\ Len(a) \in Nat
  <2> HIDE DEF a, answer
  <2> QED
    BY <1>1, LenProperties
<1>3. DOMAIN a = DOMAIN answer
  OBVIOUS
<1>4. \A i \in DOMAIN a : a[i].tag = to
  BY DEF Byte
<1> HIDE DEF a, answer
<1>5. Len(a) = Len(answer)
  <2> DEFINE n == Len(a)
             m == Len(answer)
  <2>1. n \in Nat /\ m \in 1 .. 3 /\ 1 .. n = 1 .. m
    BY <1>1, <1>2, <1>3
  <2> HIDE DEF n, m
  <2>2. m \in 1 .. n
    BY <2>1
  <2>3. n \in 1 .. m
    BY <2>1, <2>2
  <2>4. n = m
    BY <2>1, <2>2, <2>3
  <2> QED
    BY <2>4 DEF n, m
<1>6. a # <<>>
  BY <1>1, <1>5
<1> QED
  BY <1>1, <1>4, <1>5, <1>6 DEF a, answer

LEMMA AnswerWires == TypeInv /\ Wires /\ DeviceAnswers => Wires'
<1> SUFFICES ASSUME TypeInv, Wires, DeviceAnswers PROVE Wires'
  OBVIOUS
<1> DEFINE told == [ctl EXCEPT !.in.to = "none"]
           a == [i \in DOMAIN Answer(ctl.in.to, ctl.in.b) |->
                   Byte(Answer(ctl.in.to, ctl.in.b)[i], ctl.in.to)]
           k == ctl.kq \o a
           m == ctl.mq \o a
           ck == [told EXCEPT !.kq = k]
           cm == [told EXCEPT !.mq = m]
<1>1. ctl.in.to \in {"key", "mouse"}
  BY DEF DeviceAnswers
<1>2. /\ a \in Seq(Wire) /\ a # <<>> /\ Len(a) = Len(Answer(ctl.in.to, ctl.in.b))
      /\ \A i \in DOMAIN a : a[i].tag = ctl.in.to
  <2> DEFINE to == ctl.in.to
             b == ctl.in.b
  <2>1. to \in {"key", "mouse"}
    BY <1>1
  <2> HIDE DEF to, b
  <2>2. LET x == [i \in DOMAIN Answer(to, b) |-> Byte(Answer(to, b)[i], to)]
        IN  /\ x \in Seq(Wire) /\ x # <<>> /\ Len(x) = Len(Answer(to, b))
            /\ \A i \in DOMAIN x : x[i].tag = to
    BY <2>1, AnswerBytes
  <2> QED
    BY <2>2 DEF to, b
<1>3. /\ told \in Controller /\ told.in.to = "none" /\ told.out = ctl.out /\ told.keyOff = ctl.keyOff
      /\ told.kq = ctl.kq /\ told.mq = ctl.mq /\ told.irqKey = ctl.irqKey
      /\ told.irqMouse = ctl.irqMouse /\ told.translate = ctl.translate
  <2> DEFINE in == [ctl.in EXCEPT !.to = "none"]
  <2>1. in \in [to : {"none", "key", "mouse"}, b : Octet] /\ in.to = "none"
    BY Shape DEF Controller
  <2>2. told = [ctl EXCEPT !.in = in]
    BY Shape DEF Controller
  <2> HIDE DEF in
  <2>3. /\ [ctl EXCEPT !.in = in] \in Controller /\ [ctl EXCEPT !.in = in].in = in
    BY <2>1, Shape DEF Controller
  <2>4. LET t == [ctl EXCEPT !.in = in]
        IN  /\ t.out = ctl.out /\ t.keyOff = ctl.keyOff
            /\ t.kq = ctl.kq /\ t.mq = ctl.mq /\ t.irqKey = ctl.irqKey
            /\ t.irqMouse = ctl.irqMouse /\ t.translate = ctl.translate
    BY Shape DEF Controller
  <2> QED
    BY <2>1, <2>2, <2>3, <2>4
<1> HIDE DEF told
<1>4. k \in Seq(Wire) /\ m \in Seq(Wire)
  <2> HIDE DEF a
  <2> QED
    BY <1>2, Shape, ConcatAt
<1>5. \/ /\ ctl.in.to = "key" /\ ctl' = Settle(ck) /\ line' = Lines(line, Settle(ck), FALSE)
         /\ UNCHANGED <<mouse, ebda, cpu, hist>>
      \/ /\ ctl.in.to = "mouse" /\ ctl' = Settle(cm) /\ line' = Lines(line, Settle(cm), FALSE)
         /\ mouse'.pos = 0 /\ hist' = Disturb(hist, "command", Midway) /\ UNCHANGED <<ebda, cpu>>
  <2> DEFINE on == mouse.on \/ ctl.in.b = 244
  <2>1. [on |-> on, pos |-> 0].pos = 0
    OBVIOUS
  <2>2. \/ /\ ctl.in.to = "key" /\ Write(Settle([told EXCEPT !.kq = told.kq \o a]))
           /\ UNCHANGED <<mouse, ebda, cpu, hist>>
        \/ /\ ctl.in.to = "mouse" /\ Write(Settle([told EXCEPT !.mq = told.mq \o a]))
           /\ mouse' = [on |-> on, pos |-> 0] /\ hist' = Disturb(hist, "command", Midway)
           /\ UNCHANGED <<ebda, cpu>>
    <3> HIDE DEF Midway
    <3> QED
      BY DEF DeviceAnswers, told
  <2> HIDE DEF on
  <2> QED
    BY <1>3, <2>1, <2>2 DEF Write
<1> HIDE DEF k, m, a
<1>6. /\ ck \in Controller /\ SameBut(told, ck) /\ ck.kq = k /\ ck.mq = ctl.mq /\ ck.out = ctl.out
      /\ cm \in Controller /\ SameBut(told, cm) /\ cm.kq = ctl.kq /\ cm.mq = m /\ cm.out = ctl.out
  BY <1>3, <1>4 DEF Controller, SameBut
<1> DEFINE c == ctl'
<1>7. /\ c.irqKey = ctl.irqKey /\ c.irqMouse = ctl.irqMouse /\ c.translate = ctl.translate
      /\ c.keyOff = ctl.keyOff /\ c.in.to = "none"
      /\ ctl.out # "none" => c.out = ctl.out
      /\ line' = Lines(line, c, FALSE) /\ UNCHANGED <<ebda, cpu>>
  <2>1. CASE ctl' = Settle(ck)
    <3> HIDE DEF ck
    <3>1. SameBut(ck, Settle(ck)) /\ (ck.out # "none" => Settle(ck).out = ck.out)
      BY <1>6, SettleKeeps
    <3> QED
      BY <1>3, <1>5, <1>6, <2>1, <3>1 DEF SameBut
  <2>2. CASE ctl' = Settle(cm)
    <3> HIDE DEF cm
    <3>1. SameBut(cm, Settle(cm)) /\ (cm.out # "none" => Settle(cm).out = cm.out)
      BY <1>6, SettleKeeps
    <3> QED
      BY <1>3, <1>5, <1>6, <2>2, <3>1 DEF SameBut
  <2> QED
    BY <1>5, <2>1, <2>2
<1>8. \/ /\ ctl.in.to = "key" /\ c.kq = k /\ c.mq = ctl.mq /\ UNCHANGED <<mouse, hist>>
      \/ /\ ctl.in.to = "mouse" /\ c.kq = ctl.kq /\ c.mq = m
         /\ mouse'.pos = 0 /\ hist' = Disturb(hist, "command", Midway)
  <2> HIDE DEF ck, cm
  <2> QED
    BY <1>5, <1>6, SettleKeeps
<1> HIDE DEF c, ck, cm
<1>9. Busy'
  BY <1>7 DEF Wires, Busy, Quiet, Running
<1>10. cpu'.on74 = "read" => c.out = "mouse"
  BY <1>7 DEF Wires
<1>11. line'.irr \subseteq line'.high
  BY <1>7, Shape, LinesRise
<1>12. ASSUME Clean PROVE Listening(c, cpu.on9) /\ (~ebda.hooked \/ Leaving(cpu.fn, cpu.steps) => Deaf(c, line'))
  <2>1. Listening(c, cpu.on9)
    BY <1>7, <1>12 DEF Clean, Listening
  <2>2. ~ebda.hooked \/ Leaving(cpu.fn, cpu.steps) => Deaf(c, Lines(line, c, FALSE))
    BY <1>7, <1>12, Shape, StaysDeaf DEF Clean
  <2> QED
    BY <1>7, <2>1, <2>2
<1>13. CASE ctl.in.to = "key"
  <2>1. c.kq = k /\ c.mq = ctl.mq /\ UNCHANGED <<mouse, hist>>
    BY <1>8, <1>13
  <2>2. KeyTags(c.kq)
    BY <1>2, <1>13, <2>1, Shape, KeysConcat DEF Wires, k
  <2>3. ASSUME Undisturbed' PROVE Clean'
    <3>1. Undisturbed /\ Clean
      BY <2>1, <2>3 DEF Undisturbed, Wires
    <3>2. Replies(c.kq, cpu.steps, ebda.hooked)
      BY <1>2, <1>13, <2>1, <3>1, Shape, RepliesConcat DEF Clean, k
    <3>3. Answered(c.mq, c.in, cpu.steps)
      BY <1>7, <2>1, <3>1 DEF Clean, Answered
    <3> QED
      BY <1>7, <1>12, <2>1, <3>1, <3>2, <3>3 DEF Clean, c
  <2> QED
    BY <1>9, <1>10, <1>11, <2>1, <2>2, <2>3 DEF Wires, c
<1>14. CASE ctl.in.to = "mouse"
  <2>1. c.kq = ctl.kq /\ c.mq = m /\ mouse'.pos = 0 /\ hist' = Disturb(hist, "command", Midway)
    BY <1>8, <1>14
  <2>2. MouseTags(c.mq) /\ InStep(c.mq, 0)
        /\ (Aligned(ctl.mq, mouse.pos, 0) => Aligned(c.mq, 0, 0))
        /\ (NoAnswer(ctl.mq) => \A n \in Int : Len(a) <= n => Within(c.mq, n))
    BY <1>2, <1>14, <2>1, Shape, AnswerAppend DEF Wires, m
  <2>3. /\ hist'.packet = hist.packet /\ hist'.first \in {hist.first, "command"}
        /\ hist'.first = "none" => hist.first = "none" /\ ~Midway
    <3> DEFINE f == IF hist.first = "none" /\ Midway THEN "command" ELSE hist.first
    <3>1. hist' = [hist EXCEPT !.first = f]
      BY <2>1 DEF Disturb
    <3>2. f \in {hist.first, "command"} /\ (f = "none" => hist.first = "none" /\ ~Midway)
      OBVIOUS
    <3> HIDE DEF f
    <3>3. hist'.packet = hist.packet /\ hist'.first = f
      BY <3>1, Shape DEF History
    <3> QED
      BY <3>2, <3>3
  <2>4. ASSUME Undisturbed' PROVE Clean'
    <3>1. Undisturbed /\ Clean /\ ebda.index = 0
      BY <2>3, <2>4 DEF Undisturbed, Wires, Midway
    <3>2. Answered(c.mq, c.in, cpu.steps)
      <4>1. NoAnswer(ctl.mq) /\ Len(a) <= Lead(cpu.steps)
        BY <1>2, <1>14, <3>1 DEF Clean, Answered
      <4>2. Lead(cpu.steps) \in Int
        BY DEF Lead
      <4> QED
        BY <1>7, <2>2, <4>1, <4>2 DEF Answered
    <3>3. ebda.count = 2 => Aligned(c.mq, 0, ebda.index)
      BY <2>2, <3>1 DEF Clean
    <3> QED
      BY <1>7, <1>12, <2>1, <2>3, <3>1, <3>2, <3>3 DEF Clean, c
  <2> QED
    BY <1>9, <1>10, <1>11, <2>1, <2>2, <2>3, <2>4 DEF Wires, c
<1> QED
  BY <1>1, <1>13, <1>14

----------------------------------------------------------------------------
(* The interrupt handlers.                                                 *)

LEMMA Int09ReadWires == IInv /\ Wires /\ Int09Read => Wires'
<1> SUFFICES ASSUME IInv, Wires, Int09Read PROVE Wires'
  OBVIOUS
<1> DEFINE d == [ctl EXCEPT !.keyOff = TRUE]
           c == Taken(d)
           l == Lines(line, c, TRUE)
           who == IF Shown(ctl).tag = "key" THEN "identity" ELSE "int09"
<1>0. TypeInv /\ Requests
  BY DEF IInv
<1>1. /\ ctl' = c /\ line' = [l EXCEPT !.isr = @ \cup {1}]
      /\ cpu' = [cpu EXCEPT !.on9 = "work", !.key = Shown(ctl).b]
      /\ hist' = Reading(who, "code") /\ UNCHANGED <<mouse, ebda>>
  BY DEF Int09Read
<1>2. ctl.out = "key" /\ cpu.on74 # "read"
  BY <1>0 DEF Int09Read, Requests, Wires
<1>3. ~Quiet
  BY <1>0, OpenIsLoud DEF Int09Read, Wires
<1>4. Wired(d) /\ d.kq = ctl.kq /\ d.mq = ctl.mq /\ d.out = ctl.out /\ d.in = ctl.in
      /\ d.irqKey = ctl.irqKey /\ d.irqMouse = ctl.irqMouse /\ d.translate = ctl.translate
  BY <1>0, Shape DEF Wired, Controller, Showing
<1>5. Shown(d) = Shown(ctl)
  BY <1>4 DEF Shown
<1> HIDE DEF d
<1>6. SameBut(d, c) /\ c.mq = ctl.mq /\ c.kq = Tail(ctl.kq)
  BY <1>2, <1>4, TakenKeeps
<1>7. Shown(ctl) = Head(ctl.kq) /\ ctl.kq # <<>>
  BY <1>0, <1>2, Shape DEF Shown, Wired, Showing
<1>8. l.irr \subseteq l.high /\ l \in PicLines /\ line'.high = l.high /\ line'.irr = l.irr
  <2>1. l.irr \subseteq l.high /\ l \in PicLines
    BY <1>0, Shape, LinesRise, LinesFollow
  <2> HIDE DEF l
  <2> QED
    BY <1>1, <2>1 DEF PicLines
<1>9. /\ cpu'.on9 = "work" /\ cpu'.on74 = cpu.on74 /\ cpu'.pc = cpu.pc /\ cpu'.steps = cpu.steps
      /\ cpu'.fn = cpu.fn /\ cpu'.if = cpu.if /\ cpu'.prev = cpu.prev
  BY <1>0, <1>1, Shape DEF Processor
<1>10. who \in Readers /\ who # "int74"
  BY DEF Readers
<1>11. /\ hist'.packet = hist.packet /\ hist'.first \in {hist.first, who}
       /\ hist'.first = "none" => hist.first = "none" /\ Shown(ctl).tag = "code"
       /\ hist'.first # hist.first => hist.first = "none" /\ Shown(ctl).tag # "code"
  <2> HIDE DEF who
  <2>1. /\ hist'.packet = hist.packet /\ hist'.first \in {hist.first, who}
        /\ hist'.first = "none" => hist.first = "none" /\ Shown(ctl).tag = "code"
    BY <1>0, <1>1, <1>10, ReadingKeeps
  <2>2. ~(hist.first = "none" /\ Shown(ctl).tag # "code") => hist' = [hist EXCEPT !.first = hist.first]
    BY <1>1 DEF Reading, Disturb
  <2>3. [hist EXCEPT !.first = hist.first].first = hist.first
    BY <1>0, Shape DEF History
  <2> QED
    BY <2>1, <2>2, <2>3
<1> HIDE DEF c, l
<1>12. hist'.first \notin {"int09", "int74"}
  <2>1. hist.first \notin {"int09", "int74"}
    BY DEF Wires
  <2>2. CASE hist'.first = hist.first
    BY <2>1, <2>2
  <2>3. CASE hist'.first # hist.first
    <3>1. Undisturbed /\ Shown(ctl).tag # "code"
      BY <1>11, <2>3 DEF Undisturbed
    <3>2. NoReply(ctl.kq)
      BY <1>0, <1>3, <3>1, Unheard
    <3>3. 1 \in DOMAIN ctl.kq /\ ctl.kq[1] = Shown(ctl)
      BY <1>0, <1>7, Shape, TailAt
    <3>4. Shown(ctl).tag = "key"
      BY <3>1, <3>2, <3>3 DEF NoReply, Wires, KeyTags
    <3> QED
      BY <1>11, <2>3, <3>4
  <2> QED
    BY <2>2, <2>3
<1>13. Busy'
  BY <1>1, <1>3, <1>9 DEF Wires, Busy, Quiet, Running
<1>14. KeyTags(c.kq)
  BY <1>0, <1>6, <1>7, Shape, KeysTail DEF Wires
<1>15. ASSUME Undisturbed' PROVE Clean'
  <2>1. Undisturbed /\ Clean
    BY <1>11, <1>15 DEF Undisturbed, Wires
  <2>2. Replies(c.kq, cpu.steps, ebda.hooked)
    BY <1>0, <1>6, <1>7, <2>1, Shape, RepliesTail DEF Clean
  <2>3. Listening(c, "work")
    BY <1>4, <1>6, <2>1 DEF Clean, Listening, SameBut
  <2>4. ~ebda.hooked \/ Leaving(cpu.fn, cpu.steps) => Deaf(c, line')
    <3>1. c.irqMouse = ctl.irqMouse
      BY <1>4, <1>6 DEF SameBut
    <3>2. Deaf(ctl, line) => Deaf(c, l)
      BY <1>0, <3>1, Shape, StaysDeaf DEF l
    <3> QED
      BY <1>8, <2>1, <3>2 DEF Clean, Deaf
  <2>5. c.in = ctl.in
    BY <1>4, <1>6 DEF SameBut
  <2> QED
    BY <1>1, <1>6, <1>9, <1>11, <2>1, <2>2, <2>3, <2>4, <2>5 DEF Clean
<1> QED
  BY <1>1, <1>2, <1>6, <1>8, <1>9, <1>12, <1>13, <1>14, <1>15 DEF Wires

LEMMA Int09WorkWires == TypeInv /\ Wires /\ Int09Work => Wires'
<1> SUFFICES ASSUME TypeInv, Wires, Int09Work PROVE Wires'
  OBVIOUS
<1>1. /\ ctl' = [ctl EXCEPT !.keyOff = FALSE] /\ line' = [line EXCEPT !.isr = @ \ {1}]
      /\ cpu' = [cpu EXCEPT !.on9 = "off", !.key = 0] /\ cpu.on9 = "work"
      /\ UNCHANGED <<mouse, ebda>>
      /\ \E q : hist' = [hist EXCEPT !.queue = q]
  BY DEF Int09Work
<1>2. hist'.first = hist.first /\ hist'.packet = hist.packet
  BY <1>1, Shape DEF History
<1>3. /\ ctl'.kq = ctl.kq /\ ctl'.mq = ctl.mq /\ ctl'.out = ctl.out /\ ctl'.in = ctl.in /\ ~ctl'.keyOff
      /\ ctl'.irqKey = ctl.irqKey /\ ctl'.irqMouse = ctl.irqMouse /\ ctl'.translate = ctl.translate
  BY <1>1, Shape DEF Controller
<1>4. line'.high = line.high /\ line'.irr = line.irr
  BY <1>1, Shape DEF PicLines
<1>5. /\ cpu'.on74 = cpu.on74 /\ cpu'.pc = cpu.pc /\ cpu'.steps = cpu.steps
      /\ cpu'.fn = cpu.fn /\ cpu'.if = cpu.if /\ cpu'.prev = cpu.prev
  BY <1>1, Shape DEF Processor
<1>6. ~Quiet
  BY <1>1, OpenIsLoud DEF Running, Wires
<1>7. Busy'
  BY <1>1, <1>5, <1>6 DEF Wires, Busy, Quiet, Running
<1>8. ASSUME Undisturbed' PROVE Clean'
  <2>1. Undisturbed /\ Clean
    BY <1>2, <1>8 DEF Undisturbed, Wires
  <2>2. Listening(ctl', cpu'.on9)
    BY <1>3, <2>1 DEF Clean, Listening
  <2>3. ~ebda.hooked \/ Leaving(cpu.fn, cpu.steps) => Deaf(ctl', line')
    BY <1>3, <1>4, <2>1 DEF Clean, Deaf
  <2> QED
    BY <1>1, <1>2, <1>3, <1>5, <2>1, <2>2, <2>3 DEF Clean
<1> QED
  BY <1>1, <1>2, <1>3, <1>4, <1>5, <1>7, <1>8 DEF Wires

LEMMA Int74Wires == IInv /\ Wires /\ Int74 => Wires'
<1> SUFFICES ASSUME IInv, Wires, Int74 PROVE Wires'
  OBVIOUS
<1>0. TypeInv /\ Requests
  BY DEF IInv
<1>1. /\ line' = [line EXCEPT !.irr = @ \ {12}, !.isr = @ \cup {12}]
      /\ cpu' = [cpu EXCEPT !.on74 = "read"]
      /\ 12 \in line.irr /\ UNCHANGED <<ctl, mouse, ebda, hist>>
  BY DEF Int74
<1>2. line'.high = line.high /\ line'.irr = line.irr \ {12}
  BY <1>0, <1>1, Shape DEF PicLines
<1>3. /\ cpu'.on9 = cpu.on9 /\ cpu'.pc = cpu.pc /\ cpu'.steps = cpu.steps
      /\ cpu'.fn = cpu.fn /\ cpu'.if = cpu.if /\ cpu'.prev = cpu.prev
  BY <1>0, <1>1, Shape DEF Processor
<1>4. ~Quiet
  BY <1>0, OpenIsLoud DEF Int74, Wires
<1>5. Busy'
  BY <1>1, <1>3, <1>4 DEF Wires, Busy, Quiet, Running
<1>6. ctl'.out = "mouse"
  BY <1>0, <1>1 DEF Requests
<1>7. ASSUME Undisturbed' PROVE Clean'
  <2>1. Undisturbed /\ Clean
    BY <1>1, <1>7 DEF Undisturbed, Wires
  <2>2. ebda.hooked
    BY <1>1, <2>1 DEF Clean, Deaf, Wires
  <2>3. ~ebda.hooked \/ Leaving(cpu.fn, cpu.steps) => Deaf(ctl, line')
    BY <1>2, <2>1 DEF Clean, Deaf
  <2> QED
    BY <1>1, <1>3, <2>1, <2>2, <2>3 DEF Clean
<1> QED
  BY <1>1, <1>2, <1>5, <1>6, <1>7 DEF Wires

LEMMA Int74DoneWires == TypeInv /\ Wires /\ Int74Done => Wires'
<1> SUFFICES ASSUME TypeInv, Wires, Int74Done PROVE Wires'
  OBVIOUS
<1>1. /\ line' = [line EXCEPT !.isr = @ \ {12}] /\ cpu' = [cpu EXCEPT !.on74 = "off"]
      /\ cpu.on74 = "call" /\ UNCHANGED <<ctl, mouse, ebda, hist>>
  BY DEF Int74Done
<1>2. line'.high = line.high /\ line'.irr = line.irr
  BY <1>1, Shape DEF PicLines
<1>3. /\ cpu'.on9 = cpu.on9 /\ cpu'.pc = cpu.pc /\ cpu'.steps = cpu.steps /\ cpu'.on74 = "off"
      /\ cpu'.fn = cpu.fn /\ cpu'.if = cpu.if /\ cpu'.prev = cpu.prev
  BY <1>1, Shape DEF Processor
<1>4. ~Quiet
  BY <1>1, OpenIsLoud DEF Running, Wires
<1>5. Busy'
  BY <1>1, <1>3, <1>4 DEF Wires, Busy, Quiet, Running
<1>6. ASSUME Undisturbed' PROVE Clean'
  <2>1. Undisturbed /\ Clean
    BY <1>1, <1>6 DEF Undisturbed, Wires
  <2>2. ~ebda.hooked \/ Leaving(cpu.fn, cpu.steps) => Deaf(ctl, line')
    BY <1>2, <2>1 DEF Clean, Deaf
  <2> QED
    BY <1>1, <1>3, <2>1, <2>2 DEF Clean
<1> QED
  BY <1>1, <1>2, <1>3, <1>5, <1>6 DEF Wires

\* The handler collects the byte that its index asks for.
LEMMA CollectedInOrder ==
  ASSUME NEW e \in [hooked : BOOLEAN, count : {0, 2}, index : 0 .. 2, data : [0 .. 2 -> Octet]],
         NEW w \in Wire, w.tag = "move", w.b \in 1 .. 3, e.hooked, Filled(e),
         e.count = 2 => w.b = e.index + 1
  PROVE  LET f == Collected(e, w.b)
         IN  /\ f.hooked /\ f.count = e.count /\ Filled(f)
             /\ e.count = 2 => f.index = After(w)
             /\ e.count = 2 /\ e.index = 2 => Packet(f) = Whole
<1> DEFINE b == w.b
           data == [e.data EXCEPT ![e.index] = b]
           next == IF e.index >= e.count THEN 0 ELSE e.index + 1
           f == [e EXCEPT !.data = data, !.index = next]
<1>1. Collected(e, b) = f
  BY DEF Collected
<1>2. /\ b \in Octet /\ data \in [0 .. 2 -> Octet] /\ data[e.index] = b
      /\ \A i \in 0 .. 2 : i # e.index => data[i] = e.data[i]
  BY DEF Wire
<1>3. e.count = 2 => (IF e.index = 2 THEN next = 0 ELSE next = e.index + 1) /\ next = After(w)
  BY DEF After
<1>4. e.count = 0 => next = 0
  OBVIOUS
<1> HIDE DEF data, next, b
<1>5. f.hooked = e.hooked /\ f.count = e.count /\ f.index = next /\ f.data = data
  OBVIOUS
<1> HIDE DEF f
<1>6. ASSUME e.count = 2 PROVE \A i \in 0 .. 2 : i <= e.index => data[i] = i + 1
  <2> TAKE i \in 0 .. 2
  <2>1. i < e.index => e.data[i] = i + 1
    BY <1>6 DEF Filled
  <2> QED
    BY <1>2, <1>6, <2>1 DEF b
<1>7. Filled(f)
  BY <1>3, <1>4, <1>5, <1>6 DEF Filled
<1>8. ASSUME e.count = 2, e.index = 2 PROVE Packet(f) = Whole
  <2>1. \A i \in 0 .. 2 : data[i] = i + 1
    BY <1>6, <1>8
  <2> QED
    BY <1>5, <2>1 DEF Packet, Whole
<1>9. f.hooked
  BY <1>5
<1> QED
  BY <1>1, <1>3, <1>5, <1>7, <1>8, <1>9 DEF b

LEMMA int74_functionWires == TypeInv /\ Wires /\ int74_function => Wires'
<1> SUFFICES ASSUME TypeInv, Wires, int74_function PROVE Wires'
  OBVIOUS
<1> DEFINE c == Taken(ctl)
           w == Head(ctl.mq)
           e == Collected(ebda, w.b)
           h == Reading("int74", "move")
           x == IF ebda.hooked /\ ebda.count = 2 /\ ebda.index = 2 THEN Packet(e) ELSE h.packet
<1>1. ctl.out = "mouse" /\ ctl.mq # <<>> /\ cpu.on74 = "read" /\ cpu.on9 = "off"
  BY Shape DEF int74_function, Wires, Wired, Showing
<1>2. MouseData(ctl) /\ Shown(ctl) = w
  BY <1>1 DEF MouseData, OutputFull, Shown
<1>3. /\ ctl' = c /\ line' = Lines(line, c, TRUE) /\ ebda' = e /\ hist' = [h EXCEPT !.packet = x]
      /\ cpu' = [cpu EXCEPT !.on74 = "call"] /\ UNCHANGED mouse
  BY <1>2 DEF int74_function, Read
<1>4. /\ cpu'.on9 = cpu.on9 /\ cpu'.pc = cpu.pc /\ cpu'.steps = cpu.steps /\ cpu'.on74 = "call"
      /\ cpu'.fn = cpu.fn /\ cpu'.if = cpu.if /\ cpu'.prev = cpu.prev
  BY <1>3, Shape DEF Processor
<1>5. ~Quiet
  BY <1>1, OpenIsLoud DEF Running, Wires
<1>6. SameBut(ctl, c) /\ c.kq = ctl.kq /\ c.mq = Tail(ctl.mq)
  BY <1>1, Shape, TakenKeeps
<1>7. KeyTags(c.kq) /\ MouseTags(c.mq) /\ InStep(c.mq, mouse.pos)
  BY Shape, TakenTags DEF Wires
<1>8. Lines(line, c, TRUE).irr \subseteq Lines(line, c, TRUE).high
  BY Shape, LinesRise
<1>9. w \in Wire /\ 1 \in DOMAIN ctl.mq /\ ctl.mq[1] = w
  <2>1. ctl.mq \in Seq(Wire)
    BY Shape
  <2> QED
    BY <1>1, <2>1, TailAt, HeadTailProperties
<1>10. ebda \in [hooked : BOOLEAN, count : {0, 2}, index : 0 .. 2, data : [0 .. 2 -> Octet]]
  BY DEF TypeInv
<1>11. e.hooked = ebda.hooked
  BY <1>10 DEF Collected
<1>12. /\ h \in History /\ h.packet = hist.packet /\ h.first \in {hist.first, "int74"}
       /\ h.first # hist.first => hist.first = "none" /\ w.tag # "move"
       /\ h.first = "none" => hist.first = "none"
  <2> DEFINE f == IF hist.first = "none" /\ w.tag # "move" THEN "int74" ELSE hist.first
  <2>1. h = [hist EXCEPT !.first = f]
    BY <1>2 DEF Reading, Disturb
  <2>2. /\ f \in {hist.first, "int74"} /\ (f # hist.first => hist.first = "none" /\ w.tag # "move")
        /\ f = "none" => hist.first = "none"
    OBVIOUS
  <2> HIDE DEF f, w
  <2>3. h.packet = hist.packet /\ h.first = f
    BY <2>1, Shape DEF History
  <2>4. h \in History
    BY Disturbed, Shape DEF Reading, Readers
  <2> QED
    BY <2>2, <2>3, <2>4
<1>13. Undisturbed => w.tag = "move"
  <2> SUFFICES ASSUME Undisturbed PROVE w.tag = "move"
    OBVIOUS
  <2>1. NoAnswer(ctl.mq)
    BY <1>5, Unheard
  <2> QED
    BY <1>9, <2>1 DEF NoAnswer, Wires, MouseTags
<1> HIDE DEF c, w, e, h
<1>14. hist'.first = h.first /\ hist'.packet = x
  BY <1>3, <1>12 DEF History
<1> HIDE DEF x
<1>15. hist'.first = hist.first
  BY <1>12, <1>13, <1>14 DEF Undisturbed
<1>16. hist'.first \notin {"int09", "int74"}
  BY <1>15 DEF Wires
<1>17. Busy'
  BY <1>3, <1>4, <1>5, <1>11 DEF Wires, Busy, Quiet, Running
<1>18. ASSUME Undisturbed' PROVE Clean'
  <2>1. Undisturbed /\ Clean
    BY <1>15, <1>18 DEF Undisturbed, Wires
  <2>2. ebda.hooked /\ w.tag = "move" /\ w.b \in 1 .. 3
    BY <1>1, <1>9, <1>13, <2>1 DEF Clean, Wires, MouseTags
  <2>3. NoAnswer(ctl.mq) /\ ctl.in.to # "mouse"
    BY <1>5, <2>1, Unheard
  <2>4. ebda.count = 2 => w.b = ebda.index + 1
    BY <1>1, <1>9, <2>1, <2>2 DEF Clean, Aligned
  <2>5. /\ e.hooked /\ e.count = ebda.count /\ Filled(e)
        /\ ebda.count = 2 => e.index = After(w)
        /\ ebda.count = 2 /\ ebda.index = 2 => Packet(e) = Whole
    BY <1>9, <1>10, <2>1, <2>2, <2>4, CollectedInOrder DEF Clean, e
  <2>6. Aligned(c.mq, mouse.pos, After(w)) /\ NoAnswer(c.mq)
    BY <1>1, <1>6, <2>3, Shape, MouseTail DEF Wires, w
  <2>7. Answered(c.mq, c.in, cpu.steps)
    BY <1>6, <2>3, <2>6, IdleIsFine DEF SameBut
  <2>8. Listening(c, cpu.on9)
    BY <1>6, <2>1 DEF Clean, Listening, SameBut
  <2>9. ~ebda.hooked \/ Leaving(cpu.fn, cpu.steps) => Deaf(c, Lines(line, c, TRUE))
    BY <1>6, <2>1, Shape, StaysDeaf DEF Clean, SameBut
  <2>10. x # <<>> => x = Whole
    BY <1>12, <2>1, <2>5 DEF Clean, x
  <2>11. Replies(c.kq, cpu.steps, ebda.hooked) /\ Remembered(cpu.steps, cpu.prev, ebda.hooked)
    BY <1>6, <2>1 DEF Clean
  <2>12. e.hooked = ebda.hooked /\ (e.count = 2 => Aligned(c.mq, mouse.pos, e.index))
    BY <1>11, <2>5, <2>6
  <2> QED
    BY <1>3, <1>4, <1>14, <2>2, <2>5, <2>7, <2>8, <2>9, <2>10, <2>11, <2>12 DEF Clean
<1> QED
  BY <1>3, <1>4, <1>7, <1>8, <1>16, <1>17, <1>18 DEF Wires

----------------------------------------------------------------------------
(* INT 16h.                                                                *)

LEMMA ReturnsTo ==
  ASSUME TypeInv
  PROVE  /\ Return.pc = "run" /\ Return.fn = "none" /\ Return.steps = cpu.steps
         /\ Return.on9 = cpu.on9 /\ Return.on74 = cpu.on74
BY Shape DEF Return, Processor

LEMMA PlainWires ==
  IInv /\ Wires /\ ( \/ Int16 \/ int16_key_found \/ DequeueKey \/ MoveHead
                     \/ CheckKey \/ StoreKey \/ MoveTail ) => Wires'
<1> SUFFICES ASSUME IInv, Wires,
                    \/ Int16 \/ int16_key_found \/ DequeueKey \/ MoveHead
                    \/ CheckKey \/ StoreKey \/ MoveTail
             PROVE  Wires'
  OBVIOUS
<1>0. TypeInv /\ Minding
  BY DEF IInv
<1>1. UNCHANGED <<ctl, line, mouse, ebda>> /\ cpu.pc # "service"
  BY DEF Int16, int16_key_found, DequeueKey, MoveHead, CheckKey, StoreKey, MoveTail
<1>2. cpu.steps = <<>> /\ cpu.fn # "unhook"
  BY <1>1 DEF Wires, Busy
<1>3. hist'.first = hist.first /\ hist'.packet = hist.packet
  <2>1. \/ hist' = hist \/ hist' = [hist EXCEPT !.calls = @ + 1]
        \/ \E q : hist' = [hist EXCEPT !.queue = q]
        \/ \E q, r : hist' = [hist EXCEPT !.queue = q, !.raced = r]
    BY DEF Int16, int16_key_found, DequeueKey, MoveHead, CheckKey, StoreKey, MoveTail
  <2> QED
    BY <1>0, <2>1, Shape DEF History
<1>4. /\ cpu'.steps = cpu.steps /\ cpu'.on9 = cpu.on9 /\ cpu'.on74 = cpu.on74
      /\ cpu'.pc \notin {"service", "lamps", "lit"} /\ cpu'.fn # "unhook"
  <2>1. CASE cpu' = Return
    BY <1>0, <2>1, ReturnsTo
  <2>2. CASE Int16
    <3> PICK fn \in Calls16 : cpu' = [cpu EXCEPT !.pc = IF fn = "read" THEN "wait" ELSE "leds", !.fn = fn]
      BY <2>2 DEF Int16, Calls16
    <3>1. /\ cpu'.steps = cpu.steps /\ cpu'.on9 = cpu.on9 /\ cpu'.on74 = cpu.on74 /\ cpu'.fn = fn
          /\ cpu'.pc = IF fn = "read" THEN "wait" ELSE "leds"
      BY <1>0, Shape DEF Processor
    <3> QED
      BY <3>1 DEF Calls16
  <2>3. CASE cpu' = [cpu EXCEPT !.pc = "leds", !.if = FALSE]
    BY <1>0, <1>2, <2>3, Shape DEF Processor
  <2>4. CASE cpu' = [cpu EXCEPT !.pc = "take", !.slot = bda.head, !.got = bda.buf[bda.head]]
    BY <1>0, <1>2, <2>4, Shape DEF Processor
  <2>5. CASE cpu' = [cpu EXCEPT !.pc = "stored", !.slot = bda.tail]
    BY <1>0, <1>2, <2>5, Shape DEF Processor
  <2> QED
    BY <2>1, <2>2, <2>3, <2>4, <2>5
    DEF int16_key_found, DequeueKey, MoveHead, CheckKey, StoreKey, MoveTail
<1> QED
  BY <1>0, <1>1, <1>2, <1>3, <1>4, PlainStep

\* A call that talks to the keyboard.
LEMMA CallStep ==
  ASSUME TypeInv, Wires, Running, cpu.steps = <<>>, cpu'.steps = <<>>,
         cpu'.pc # "service", cpu'.pc \in {"lamps", "lit"} => ~cpu'.if, cpu'.fn # "unhook",
         cpu'.on9 = cpu.on9, cpu'.on74 = cpu.on74, UNCHANGED <<mouse, ebda>>,
         hist'.first \notin {"int09", "int74"}, Undisturbed' => Undisturbed,
         hist'.packet = hist.packet,
         NEW c, NEW fell \in BOOLEAN, ctl' = c, line' = Lines(line, c, fell),
         c.irqKey = ctl.irqKey, c.irqMouse = ctl.irqMouse, c.translate = ctl.translate,
         c.keyOff => ctl.keyOff, c.in.to = "mouse" => c.in = ctl.in,
         KeyTags(c.kq), MouseTags(c.mq), InStep(c.mq, mouse.pos),
         Undisturbed' => c.mq = ctl.mq /\ (c.kq = ctl.kq \/ (ctl.kq # <<>> /\ c.kq = Tail(ctl.kq)))
  PROVE  Wires'
<1>1. Busy'
  <2>1. Ordered(cpu'.fn, <<>>)
    BY OrderedSteps
  <2> QED
    BY <2>1 DEF Busy, Quiet, Running
<1>2. cpu'.on74 # "read"
  BY DEF Running
<1>3. line'.irr \subseteq line'.high
  BY Shape, LinesRise
<1>4. ASSUME Undisturbed' PROVE Clean'
  <2>1. Undisturbed /\ Clean /\ c.mq = ctl.mq
    BY <1>4 DEF Wires
  <2>2. NoAnswer(ctl.mq) /\ ctl.in.to # "mouse"
    BY <2>1, Unheard
  <2>3. Answered(c.mq, c.in, cpu'.steps)
    BY <2>1, <2>2, IdleIsFine
  <2>4. Replies(c.kq, <<>>, ebda.hooked)
    <3>1. Replies(ctl.kq, <<>>, ebda.hooked)
      BY <2>1 DEF Clean
    <3> QED
      BY <1>4, <3>1, Shape, RepliesTail
  <2>5. Listening(c, cpu'.on9)
    BY <2>1 DEF Clean, Listening
  <2>6. ~ebda.hooked \/ Leaving(cpu'.fn, cpu'.steps) => Deaf(c, line')
    <3>1. Deaf(ctl, line) => Deaf(c, Lines(line, c, fell))
      BY Shape, StaysDeaf
    <3> QED
      BY <2>1, <3>1 DEF Clean, Leaving
  <2>7. Remembered(cpu'.steps, cpu'.prev, ebda.hooked)
    BY DEF Remembered
  <2> QED
    BY <1>2, <2>1, <2>3, <2>4, <2>5, <2>6, <2>7 DEF Clean
<1> QED
  BY <1>1, <1>2, <1>3, <1>4 DEF Wires

\* A byte for the keyboard is written while no service's steps wait.
LEMMA KeyboardTold ==
  ASSUME TypeInv, Wires, NEW b, Write(ToKeyboard(ctl, b)), Running, cpu.steps = <<>>, cpu'.steps = <<>>,
         cpu'.pc # "service", cpu'.pc \in {"lamps", "lit"} => ~cpu'.if, cpu'.fn # "unhook",
         cpu'.on9 = cpu.on9, cpu'.on74 = cpu.on74, UNCHANGED <<mouse, ebda, hist>>
  PROVE  Wires'
<1> DEFINE c == ToKeyboard(ctl, b)
<1>1. /\ c.irqKey = ctl.irqKey /\ c.irqMouse = ctl.irqMouse /\ c.translate = ctl.translate
      /\ c.kq = ctl.kq /\ c.mq = ctl.mq /\ (c.keyOff => ctl.keyOff) /\ (c.in.to = "mouse" => c.in = ctl.in)
  BY Shape, KeyboardSent
<1>2. ctl' = c /\ line' = Lines(line, c, FALSE)
  BY DEF Write
<1> HIDE DEF c
<1>3. KeyTags(c.kq) /\ MouseTags(c.mq) /\ InStep(c.mq, mouse.pos)
  BY <1>1 DEF Wires
<1>4. hist'.first \notin {"int09", "int74"} /\ (Undisturbed' => Undisturbed) /\ hist'.packet = hist.packet
  BY DEF Wires, Undisturbed
<1> QED
  BY <1>1, <1>2, <1>3, <1>4, CallStep

\* A byte is read for the keyboard's answer.
LEMMA AnswerRead ==
  ASSUME TypeInv, Wires, OutputFull(ctl), NEW who \in {"lamps", "identity"},
         hist' = Reading(who, "key"), NEW c, ctl' = c, line' = Lines(line, c, TRUE),
         c = Taken(ctl) \/ c = ToKeyboard(Taken(ctl), 0),
         Running, cpu.steps = <<>>, cpu'.steps = <<>>,
         cpu'.pc # "service", cpu'.pc \in {"lamps", "lit"} => ~cpu'.if, cpu'.fn # "unhook",
         cpu'.on9 = cpu.on9, cpu'.on74 = cpu.on74, UNCHANGED <<mouse, ebda>>
  PROVE  Wires'
<1> DEFINE t == Taken(ctl)
<1>1. SameBut(ctl, t) /\ t \in Controller
  BY Shape, TakenKeeps, TakenWired DEF Wired
<1>2. KeyTags(t.kq) /\ MouseTags(t.mq) /\ InStep(t.mq, mouse.pos)
  BY Shape, TakenTags DEF Wires
<1>3. /\ hist'.packet = hist.packet /\ hist'.first \in {hist.first, who}
      /\ hist'.first = "none" => hist.first = "none" /\ Shown(ctl).tag = "key"
  BY ReadingKeeps DEF Readers
<1>4. Shown(ctl).tag = "key" => ctl.kq # <<>> /\ t.kq = Tail(ctl.kq) /\ t.mq = ctl.mq
  BY Shape, TakenOf DEF OutputFull, Wires
<1> HIDE DEF t
<1>5. /\ c.irqKey = t.irqKey /\ c.irqMouse = t.irqMouse /\ c.translate = t.translate
      /\ c.kq = t.kq /\ c.mq = t.mq /\ (c.keyOff => t.keyOff) /\ (c.in.to = "mouse" => c.in = t.in)
  <2>1. CASE c = t
    BY <2>1
  <2>2. CASE c = ToKeyboard(t, 0)
    BY <1>1, <2>2, KeyboardSent
  <2> QED
    BY <2>1, <2>2 DEF t
<1>6. /\ c.irqKey = ctl.irqKey /\ c.irqMouse = ctl.irqMouse /\ c.translate = ctl.translate
      /\ (c.keyOff => ctl.keyOff) /\ (c.in.to = "mouse" => c.in = ctl.in)
      /\ KeyTags(c.kq) /\ MouseTags(c.mq) /\ InStep(c.mq, mouse.pos)
  BY <1>1, <1>2, <1>5 DEF SameBut
<1>7. hist'.first \notin {"int09", "int74"} /\ (Undisturbed' => Undisturbed)
  BY <1>3 DEF Wires, Undisturbed
<1>8. Undisturbed' => c.mq = ctl.mq /\ (c.kq = ctl.kq \/ (ctl.kq # <<>> /\ c.kq = Tail(ctl.kq)))
  BY <1>3, <1>4, <1>5 DEF Undisturbed
<1> QED
  BY <1>3, <1>6, <1>7, <1>8, CallStep

LEMMA LampsWires ==
  IInv /\ Wires /\ (SendLamps \/ LampsAnswered \/ LampsLit) => Wires'
<1> SUFFICES ASSUME IInv, Wires, SendLamps \/ LampsAnswered \/ LampsLit PROVE Wires'
  OBVIOUS
<1>0. TypeInv /\ Minding
  BY DEF IInv
<1>1. cpu.pc \in {"leds", "lamps", "lit"}
  BY DEF SendLamps, LampsAnswered, LampsLit
<1>2. cpu.fn \in Calls16 /\ cpu.steps = <<>>
  BY <1>0, <1>1 DEF Minding, Wires, Busy
<1>3. Running
  <2>1. CASE SendLamps
    BY <2>1 DEF SendLamps
  <2>2. CASE LampsAnswered \/ LampsLit
    <3>1. Quiet
      BY <2>2 DEF LampsAnswered, LampsLit, Quiet
    <3> QED
      BY <3>1 DEF Wires, Busy
  <2> QED
    BY <2>1, <2>2
<1>4. /\ cpu'.steps = cpu.steps /\ cpu'.on9 = cpu.on9 /\ cpu'.on74 = cpu.on74
      /\ cpu'.pc # "service" /\ cpu'.fn # "unhook"
      /\ cpu'.pc \in {"lamps", "lit"} => ~cpu'.if
  <2>1. CASE cpu' = [cpu EXCEPT !.pc = cpu.fn] \/ cpu' = [cpu EXCEPT !.pc = cpu.fn, !.if = TRUE, !.sti = TRUE]
    <3>1. /\ cpu'.steps = cpu.steps /\ cpu'.on9 = cpu.on9 /\ cpu'.on74 = cpu.on74
          /\ cpu'.pc = cpu.fn /\ cpu'.fn = cpu.fn
      BY <1>0, <2>1, Shape DEF Processor
    <3> QED
      BY <1>2, <3>1 DEF Calls16
  <2>2. CASE cpu' = [cpu EXCEPT !.pc = "lamps", !.if = FALSE, !.led = LampsOf(bda)]
    <3>1. /\ cpu'.steps = cpu.steps /\ cpu'.on9 = cpu.on9 /\ cpu'.on74 = cpu.on74
          /\ cpu'.pc = "lamps" /\ cpu'.fn = cpu.fn /\ ~cpu'.if
      BY <1>0, <2>2, Shape DEF Processor
    <3> QED
      BY <1>2, <3>1 DEF Calls16
  <2>3. CASE LampsAnswered /\ cpu' = [cpu EXCEPT !.pc = "lit"]
    <3>1. /\ cpu'.steps = cpu.steps /\ cpu'.on9 = cpu.on9 /\ cpu'.on74 = cpu.on74
          /\ cpu'.pc = "lit" /\ cpu'.fn = cpu.fn /\ cpu'.if = cpu.if
      BY <1>0, <2>3, Shape DEF Processor
    <3>2. ~cpu.if
      BY <2>3 DEF LampsAnswered, Wires, Busy
    <3> QED
      BY <1>2, <3>1, <3>2 DEF Calls16
  <2> QED
    BY <2>1, <2>2, <2>3 DEF SendLamps, LampsAnswered, LampsLit
<1>5. CASE SendLamps
  <2>1. CASE LampsOf(bda) = bda.led
    <3>1. cpu' = [cpu EXCEPT !.pc = cpu.fn] /\ UNCHANGED <<ctl, line, mouse, ebda, hist>>
      BY <1>5, <2>1 DEF SendLamps
    <3>2. cpu'.pc = cpu.fn
      BY <1>0, <3>1, Shape DEF Processor
    <3>3. cpu'.pc \notin {"service", "lamps", "lit"}
      BY <1>2, <3>2 DEF Calls16
    <3> QED
      BY <1>0, <1>2, <1>4, <3>1, <3>3, PlainStep
  <2>2. CASE LampsOf(bda) # bda.led
    <3>1. Write(ToKeyboard(ctl, 237)) /\ UNCHANGED <<mouse, ebda, hist>>
      BY <1>5, <2>2 DEF SendLamps
    <3> QED
      BY <1>0, <1>2, <1>3, <1>4, <3>1, KeyboardTold
  <2> QED
    BY <2>1, <2>2
<1>6. CASE LampsAnswered
  <2> DEFINE told == Shown(ctl).b = Ack
             c == IF told THEN ToKeyboard(Taken(ctl), 0) ELSE Taken(ctl)
  <2>1. /\ OutputFull(ctl) /\ ctl' = c /\ line' = Lines(line, c, TRUE)
        /\ hist' = Reading("lamps", "key") /\ UNCHANGED <<mouse, ebda>>
    BY <1>6 DEF LampsAnswered
  <2>2. c = Taken(ctl) \/ c = ToKeyboard(Taken(ctl), 0)
    OBVIOUS
  <2> HIDE DEF c
  <2> QED
    BY <1>0, <1>2, <1>3, <1>4, <2>1, <2>2, AnswerRead
<1>7. CASE LampsLit
  <2>1. /\ OutputFull(ctl) /\ ctl' = Taken(ctl) /\ line' = Lines(line, Taken(ctl), TRUE)
        /\ hist' = Reading("lamps", "key") /\ UNCHANGED <<mouse, ebda>>
    BY <1>7 DEF LampsLit, Read
  <2> QED
    BY <1>0, <1>2, <1>3, <1>4, <2>1, AnswerRead
<1> QED
  BY <1>5, <1>6, <1>7

LEMMA IdentityWires ==
  TypeInv /\ Wires /\ (AskIdentity \/ PollIdentity) => Wires'
<1> SUFFICES ASSUME TypeInv, Wires, AskIdentity \/ PollIdentity PROVE Wires'
  OBVIOUS
<1>1. /\ cpu.pc \in {"id", "poll"} /\ Running /\ UNCHANGED <<mouse, ebda>>
  BY DEF AskIdentity, PollIdentity
<1>2. cpu.steps = <<>> /\ cpu.fn # "unhook"
  BY <1>1 DEF Wires, Busy
<1>3. /\ cpu'.steps = cpu.steps /\ cpu'.on9 = cpu.on9 /\ cpu'.on74 = cpu.on74
      /\ cpu'.pc \notin {"service", "lamps", "lit"} /\ cpu'.fn # "unhook"
  <2>1. CASE cpu' = Return
    BY <2>1, ReturnsTo
  <2>2. CASE cpu' = [cpu EXCEPT !.pc = "poll", !.slot = 3]
    BY <1>2, <2>2, Shape DEF Processor
  <2>3. CASE cpu' = [cpu EXCEPT !.slot = @ - 1]
    BY <1>1, <1>2, <2>3, Shape DEF Processor
  <2> QED
    BY <2>1, <2>2, <2>3 DEF AskIdentity, PollIdentity
<1>4. CASE AskIdentity
  <2>1. Write(ToKeyboard(ctl, Identify)) /\ UNCHANGED hist
    BY <1>4 DEF AskIdentity
  <2> QED
    BY <1>1, <1>2, <1>3, <2>1, KeyboardTold
<1>5. CASE OutputFull(ctl) /\ Read /\ hist' = Reading("identity", "key")
  <2>1. ctl' = Taken(ctl) /\ line' = Lines(line, Taken(ctl), TRUE)
    BY <1>5 DEF Read
  <2> QED
    BY <1>1, <1>2, <1>3, <1>5, <2>1, AnswerRead
<1>6. CASE UNCHANGED <<ctl, line, hist>>
  BY <1>1, <1>2, <1>3, <1>6, PlainStep
<1> QED
  BY <1>4, <1>5, <1>6 DEF PollIdentity

----------------------------------------------------------------------------
(* INT 15h, AH = C2h.                                                      *)

LEMMA SetKeeps ==
  ASSUME NEW c \in Controller, NEW b
  PROVE  /\ SetCommandByte(c, b).kq = c.kq /\ SetCommandByte(c, b).mq = c.mq
         /\ SetCommandByte(c, b).out = c.out /\ SetCommandByte(c, b).in = c.in
<1> DEFINE x == Bit(b, 0)
           y == Bit(b, 1)
           z == Bit(b, 4)
           u == Bit(b, 5)
           v == Bit(b, 6)
           d == [c EXCEPT !.irqKey = x, !.irqMouse = y, !.keyOff = z, !.mouseOff = u,
                          !.mouseOffSeen = u, !.translate = v]
<1>1. SetCommandByte(c, b) = d
  BY DEF SetCommandByte
<1> HIDE DEF x, y, z, u, v
<1>2. d.kq = c.kq /\ d.mq = c.mq /\ d.out = c.out /\ d.in = c.in
  BY DEF Controller
<1> HIDE DEF d
<1> QED
  BY <1>1, <1>2

\* The steps after one that does not inhibit.
LEMMA TailLeaves ==
  ASSUME NEW s \in Seq(Steps), s # <<>>, s[1] # "inhibit"
  PROVE  /\ \A f : Leaving(f, Tail(s)) => Leaving(f, s)
         /\ \A prev, hooked : Remembered(s, prev, hooked) => Remembered(Tail(s), prev, hooked)
<1> DEFINE t == Tail(s)
<1>1. /\ Len(s) \in Nat \ {0} /\ DOMAIN s = 1 .. Len(s) /\ DOMAIN t = 1 .. Len(s) - 1
      /\ \A i \in 1 .. Len(s) - 1 : t[i] = s[i + 1]
  BY TailAt
<1> HIDE DEF t
<1>2. \A i \in DOMAIN t : i + 1 \in DOMAIN s /\ t[i] = s[i + 1]
  BY <1>1
<1>3. ASSUME \A i \in DOMAIN t : t[i] # "inhibit" PROVE \A i \in DOMAIN s : s[i] # "inhibit"
  <2> SUFFICES ASSUME NEW i \in DOMAIN s, i # 1 PROVE s[i] # "inhibit"
    OBVIOUS
  <2> DEFINE j == i - 1
  <2>1. j \in DOMAIN t /\ t[j] = s[i]
    BY <1>1
  <2> HIDE DEF j
  <2> QED
    BY <1>3, <2>1
<1>4. \A f : Leaving(f, t) => Leaving(f, s)
  BY <1>3 DEF Leaving
<1>5. (\E i \in DOMAIN t : t[i] = "restore") => \E i \in DOMAIN s : s[i] = "restore"
  BY <1>2
<1>6. \A prev, hooked : Remembered(s, prev, hooked) => Remembered(t, prev, hooked)
  BY <1>3, <1>5 DEF Remembered
<1> QED
  BY <1>4, <1>6 DEF t

\* A step of a service is over; the next ones are left.
LEMMA InStepOf ==
  ASSUME TypeInv, Busy, NEW step, InService(step)
  PROVE  /\ Running /\ cpu.pc = "service" /\ cpu.steps # <<>> /\ cpu.steps[1] = step
         /\ 1 \in DOMAIN cpu.steps
         /\ Tail(cpu.steps) \in Seq(Steps) /\ Ordered(cpu.fn, Tail(cpu.steps))
<1>1. Running /\ cpu.pc = "service" /\ cpu.steps # <<>> /\ cpu.steps[1] = step
  BY Shape DEF InService
<1>2. Tail(cpu.steps) \in Seq(Steps) /\ 1 \in DOMAIN cpu.steps
  BY <1>1, Shape, TailAt
<1>3. Ordered(cpu.fn, Tail(cpu.steps))
  BY <1>1, Shape, OrderedTail DEF Busy
<1> QED
  BY <1>1, <1>2, <1>3

LEMMA NextIs ==
  ASSUME TypeInv, cpu.steps # <<>>, cpu' = Next1
  PROVE  /\ cpu'.steps = Tail(cpu.steps) /\ cpu'.pc = cpu.pc /\ cpu'.fn = cpu.fn /\ cpu'.if = cpu.if
         /\ cpu'.on9 = cpu.on9 /\ cpu'.on74 = cpu.on74 /\ cpu'.prev = cpu.prev
<1> DEFINE t == Tail(cpu.steps)
<1>1. cpu' = [cpu EXCEPT !.steps = t]
  BY DEF Next1
<1> HIDE DEF t
<1>2. /\ cpu'.steps = t /\ cpu'.pc = cpu.pc /\ cpu'.fn = cpu.fn /\ cpu'.if = cpu.if
      /\ cpu'.on9 = cpu.on9 /\ cpu'.on74 = cpu.on74 /\ cpu'.prev = cpu.prev
  BY <1>1, Shape DEF Processor
<1> QED
  BY <1>2 DEF t

\* The next step of a service finds it as it should be.
LEMMA ServiceBusy ==
  ASSUME Busy, Running, cpu.pc = "service", cpu'.pc = "service", cpu'.fn = cpu.fn, cpu'.if = cpu.if,
         cpu'.on9 = cpu.on9, cpu'.on74 = cpu.on74, Ordered(cpu.fn, cpu'.steps), UNCHANGED ebda
  PROVE  Busy'
BY DEF Busy, Running

LEMMA AskWires == TypeInv /\ Wires /\ AskCommandByte => Wires'
<1> SUFFICES ASSUME TypeInv, Wires, AskCommandByte PROVE Wires'
  OBVIOUS
<1> DEFINE s == cpu.steps
           w == Byte(CommandByte(ctl), "reply")
           c == PutKey(ctl, w)
<1>1. Running /\ cpu.pc = "service" /\ s # <<>> /\ s[1] = "ask" /\ 1 \in DOMAIN s
      /\ Tail(s) \in Seq(Steps) /\ Ordered(cpu.fn, Tail(s))
  BY InStepOf DEF AskCommandByte, Wires
<1>2. ctl' = c /\ line' = Lines(line, c, FALSE) /\ UNCHANGED <<mouse, ebda, hist>> /\ cpu' = Next1
  BY DEF AskCommandByte, Write
<1>3. /\ cpu'.steps = Tail(s) /\ cpu'.pc = cpu.pc /\ cpu'.fn = cpu.fn /\ cpu'.if = cpu.if
      /\ cpu'.on9 = cpu.on9 /\ cpu'.on74 = cpu.on74 /\ cpu'.prev = cpu.prev
  BY <1>1, <1>2, NextIs
<1>4. w \in Wire /\ w.tag = "reply" /\ w.b = CommandByte(ctl)
  <2> DEFINE b == CommandByte(ctl)
  <2>1. b \in Octet
    BY Shape, CommandWired
  <2> HIDE DEF b
  <2>2. Byte(b, "reply") \in Wire /\ Byte(b, "reply").tag = "reply" /\ Byte(b, "reply").b = b
    BY <2>1 DEF Byte, Wire
  <2> QED
    BY <2>2 DEF b
<1> HIDE DEF w
<1>5. /\ SameBut(ctl, c) /\ c.mq = ctl.mq /\ c.kq = Append(ctl.kq, w)
  BY <1>4, Shape, PutKeeps
<1> HIDE DEF c
<1>6. KeyTags(c.kq)
  BY <1>4, <1>5, Shape, KeysAppend DEF Wires
<1>7. line'.irr \subseteq line'.high
  BY <1>2, Shape, LinesRise
<1>8. Busy'
  BY <1>1, <1>2, <1>3, ServiceBusy DEF Wires
<1>9. Tail(s) # <<>> /\ Tail(s)[1] \in {"inhibit", "enable"}
  <2>1. 1 < Len(s) /\ s[1 + 1] \in {"inhibit", "enable"}
    BY <1>1 DEF Wires, Busy, Ordered
  <2> DEFINE t == Tail(s)
  <2>2. Len(s) \in Nat /\ Len(t) = Len(s) - 1 /\ \A i \in 1 .. Len(s) - 1 : t[i] = s[i + 1]
    BY <1>1, Shape, TailAt
  <2> HIDE DEF t
  <2>3. t[1] = s[1 + 1] /\ Len(t) # 0
    BY <2>1, <2>2
  <2>4. t # <<>>
    BY <2>3
  <2> QED
    BY <2>1, <2>3, <2>4 DEF t
<1>10. ASSUME Undisturbed' PROVE Clean'
  <2>1. Undisturbed /\ Clean
    BY <1>2, <1>10 DEF Undisturbed, Wires
  <2>2. NoReply(ctl.kq) /\ NoAnswer(ctl.mq) /\ ctl.in.to # "mouse"
    BY <1>1, <2>1, Unheard
  <2>3. Fair(w.b, ebda.hooked)
    BY <1>1, <1>4, <2>1, Shape, FairCommand DEF Clean, Listening, Running, Deaf
  <2>4. Replies(c.kq, Tail(s), ebda.hooked)
    BY <1>4, <1>5, <1>9, <2>2, <2>3, Shape, ReplyAsked
  <2>5. Answered(c.mq, c.in, Tail(s))
    BY <1>5, <2>2, IdleIsFine DEF SameBut
  <2>6. Listening(c, cpu.on9)
    BY <1>5, <2>1 DEF Clean, Listening, SameBut
  <2>7. Remembered(Tail(s), cpu.prev, ebda.hooked) /\ (Leaving(cpu.fn, Tail(s)) => Leaving(cpu.fn, s))
    BY <1>1, <2>1, Shape, TailLeaves DEF Clean
  <2>8. ~ebda.hooked \/ Leaving(cpu.fn, Tail(s)) => Deaf(c, line')
    <3>1. Deaf(ctl, line) => Deaf(c, line')
      BY <1>2, <1>5, Shape, StaysDeaf DEF SameBut
    <3> QED
      BY <2>1, <2>7, <3>1 DEF Clean
  <2> QED
    BY <1>2, <1>3, <1>5, <2>1, <2>4, <2>5, <2>6, <2>7, <2>8 DEF Clean
<1> QED
  BY <1>1, <1>2, <1>3, <1>5, <1>6, <1>7, <1>8, <1>10 DEF Wires, Running

LEMMA ChangeWires == TypeInv /\ Wires /\ ChangeCommandByte => Wires'
<1> SUFFICES ASSUME TypeInv, Wires, ChangeCommandByte PROVE Wires'
  OBVIOUS
<1> DEFINE s == cpu.steps
           b == Shown(ctl).b
           t == Taken(ctl)
<1> PICK step \in {"inhibit", "enable"} :
      /\ InService(step)
      /\ LET v == IF step = "inhibit" THEN Inhibited(b) ELSE Enabled(b)
         IN  ctl' = SetCommandByte(t, v) /\ line' = Lines(line, SetCommandByte(t, v), TRUE)
      /\ cpu' = [Next1 EXCEPT !.prev = b]
  BY DEF ChangeCommandByte
<1> DEFINE v == IF step = "inhibit" THEN Inhibited(b) ELSE Enabled(b)
           c == SetCommandByte(t, v)
<1>1. Running /\ cpu.pc = "service" /\ s # <<>> /\ s[1] = step /\ 1 \in DOMAIN s
      /\ Tail(s) \in Seq(Steps) /\ Ordered(cpu.fn, Tail(s))
  BY InStepOf DEF Wires
<1>2. /\ OutputFull(ctl) /\ ctl' = c /\ line' = Lines(line, c, TRUE) /\ cpu' = [Next1 EXCEPT !.prev = b]
      /\ hist' = Reading("service", "reply") /\ UNCHANGED <<mouse, ebda>>
  BY DEF ChangeCommandByte
<1>3. /\ cpu'.steps = Tail(s) /\ cpu'.pc = cpu.pc /\ cpu'.fn = cpu.fn /\ cpu'.if = cpu.if
      /\ cpu'.on9 = cpu.on9 /\ cpu'.on74 = cpu.on74 /\ cpu'.prev = b
  <2> DEFINE q == Tail(cpu.steps)
  <2>1. cpu' = [cpu EXCEPT !.steps = q, !.prev = b]
    <3>1. [[cpu EXCEPT !.steps = q] EXCEPT !.prev = b] = [cpu EXCEPT !.steps = q, !.prev = b]
      BY Shape DEF Processor
    <3> QED
      BY <1>2, <3>1 DEF Next1
  <2> HIDE DEF q, b
  <2>2. /\ cpu'.steps = q /\ cpu'.pc = cpu.pc /\ cpu'.fn = cpu.fn /\ cpu'.if = cpu.if
        /\ cpu'.on9 = cpu.on9 /\ cpu'.on74 = cpu.on74 /\ cpu'.prev = b
    BY <2>1, Shape DEF Processor
  <2> QED
    BY <2>2 DEF q
<1>4. SameBut(ctl, t) /\ t \in Controller
  BY Shape, TakenKeeps, TakenWired DEF Wired
<1>5. KeyTags(t.kq) /\ MouseTags(t.mq) /\ InStep(t.mq, mouse.pos)
  BY Shape, TakenTags DEF Wires
<1>6. /\ hist'.packet = hist.packet /\ hist'.first \in {hist.first, "service"}
      /\ hist'.first = "none" => hist.first = "none" /\ Shown(ctl).tag = "reply"
  BY <1>2, ReadingKeeps DEF Readers
<1>7. Shown(ctl).tag = "reply" =>
        /\ ctl.kq # <<>> /\ Shown(ctl) = Head(ctl.kq) /\ t.kq = Tail(ctl.kq) /\ t.mq = ctl.mq
  BY <1>2, Shape, TakenOf DEF OutputFull, Wires
<1> HIDE DEF t
<1>8. c.kq = t.kq /\ c.mq = t.mq /\ c.in = t.in
  <2> HIDE DEF v
  <2> QED
    BY <1>4, SetKeeps
<1>9. Busy'
  BY <1>1, <1>2, <1>3, ServiceBusy DEF Wires
<1>10. line'.irr \subseteq line'.high
  <2> HIDE DEF c
  <2> QED
    BY <1>2, Shape, LinesRise
<1>11. ASSUME Undisturbed' PROVE Clean'
  <2>1. Undisturbed /\ Clean /\ Shown(ctl).tag = "reply"
    BY <1>6, <1>11 DEF Undisturbed, Wires
  <2>2. NoReply(t.kq) /\ Fair(b, ebda.hooked)
    BY <1>7, <2>1, Shape, RepliesTail DEF Clean
  <2>3. step = "enable" => ebda.hooked /\ cpu.fn = "enable"
    BY <1>1 DEF Wires, Busy, Ordered
  <2>4. v \in {71, 101} /\ (step = "inhibit" => v = 101) /\ Fair(v, ebda.hooked)
    <3>1. b \in {69, 71, 101, 103}
      BY <2>2 DEF Fair
    <3>2. Inhibited(b) = 101 /\ Enabled(b) = 71
      BY <3>1, BitsOf
    <3> QED
      BY <2>3, <3>2 DEF Fair
  <2> HIDE DEF v
  <2>5. c.irqKey /\ c.translate /\ ~c.keyOff /\ (c.irqMouse <=> v \in {71, 103})
    BY <1>4, <2>4, SetFair
  <2>6. NoAnswer(ctl.mq) /\ ctl.in.to # "mouse"
    <3>1. Lead(s) = 0
      BY <1>1, Shape, LeadIs
    <3> QED
      BY <2>1, <3>1, Shape, NoneAnswers DEF Clean
  <2>7. Replies(c.kq, Tail(s), ebda.hooked)
    BY <1>8, <2>2, NoneIsFine
  <2>8. Answered(c.mq, c.in, Tail(s))
    BY <1>4, <1>7, <1>8, <2>1, <2>6, IdleIsFine DEF SameBut
  <2>9. Listening(c, cpu.on9)
    BY <2>5 DEF Listening
  <2>10. Remembered(Tail(s), b, ebda.hooked)
    BY <2>2 DEF Remembered
  <2>11. ~ebda.hooked \/ Leaving(cpu.fn, Tail(s)) => Deaf(c, line')
    <3>1. CASE step = "inhibit"
      <4>1. ~c.irqMouse
        BY <2>4, <2>5, <3>1
      <4> HIDE DEF c
      <4>2. 12 \notin Lines(line, c, TRUE).high
        BY <4>1, Shape, LinesRise
      <4> QED
        BY <1>2, <4>1, <4>2 DEF Deaf
    <3>2. CASE step = "enable"
      BY <2>3, <3>2 DEF Leaving
    <3> QED
      BY <3>1, <3>2
  <2>12. c.mq = ctl.mq
    BY <1>7, <1>8, <2>1
  <2> HIDE DEF c, b, s
  <2> QED
    BY <1>2, <1>3, <1>6, <2>1, <2>7, <2>8, <2>9, <2>10, <2>11, <2>12 DEF Clean
<1> HIDE DEF c, b, s, v
<1> QED
  BY <1>1, <1>2, <1>3, <1>5, <1>6, <1>8, <1>9, <1>10, <1>11 DEF Wires, Running

LEMMA RestoreWires == TypeInv /\ Wires /\ RestoreCommandByte => Wires'
<1> SUFFICES ASSUME TypeInv, Wires, RestoreCommandByte PROVE Wires'
  OBVIOUS
<1> DEFINE s == cpu.steps
           c == SetCommandByte(ctl, cpu.prev)
<1>1. Running /\ cpu.pc = "service" /\ s # <<>> /\ s[1] = "restore" /\ 1 \in DOMAIN s
      /\ Tail(s) \in Seq(Steps) /\ Ordered(cpu.fn, Tail(s))
  BY InStepOf DEF RestoreCommandByte, Wires
<1>2. ctl' = c /\ line' = Lines(line, c, FALSE) /\ UNCHANGED <<mouse, ebda, hist>> /\ cpu' = Next1
  BY DEF RestoreCommandByte, Write
<1>3. /\ cpu'.steps = Tail(s) /\ cpu'.pc = cpu.pc /\ cpu'.fn = cpu.fn /\ cpu'.if = cpu.if
      /\ cpu'.on9 = cpu.on9 /\ cpu'.on74 = cpu.on74 /\ cpu'.prev = cpu.prev
  BY <1>1, <1>2, NextIs
<1>4. cpu.fn # "unhook" /\ Len(s) = 1 /\ DOMAIN s = 1 .. Len(s)
  <2>1. cpu.fn # "unhook" /\ 1 = Len(s)
    BY <1>1 DEF Wires, Busy, Ordered
  <2>2. DOMAIN s = 1 .. Len(s)
    BY <1>1, Shape, TailAt
  <2> QED
    BY <2>1, <2>2
<1>5. c.kq = ctl.kq /\ c.mq = ctl.mq /\ c.in = ctl.in
  <2> DEFINE b == cpu.prev
  <2> HIDE DEF b
  <2>1. LET d == SetCommandByte(ctl, b) IN d.kq = ctl.kq /\ d.mq = ctl.mq /\ d.in = ctl.in
    BY Shape, SetKeeps
  <2> QED
    BY <2>1 DEF b
<1>6. line'.irr \subseteq line'.high
  <2> HIDE DEF c
  <2> QED
    BY <1>2, Shape, LinesRise
<1>7. Busy'
  BY <1>1, <1>2, <1>3, ServiceBusy DEF Wires
<1>8. ASSUME Undisturbed' PROVE Clean'
  <2>1. Undisturbed /\ Clean
    BY <1>2, <1>8 DEF Undisturbed, Wires
  <2>2. NoReply(ctl.kq) /\ NoAnswer(ctl.mq) /\ ctl.in.to # "mouse"
    BY <1>1, <2>1, Unheard
  <2>3. Fair(cpu.prev, ebda.hooked)
    <3>1. \A i \in DOMAIN s : s[i] = "restore"
      BY <1>1, <1>4
    <3>2. \E i \in DOMAIN s : s[i] = "restore"
      BY <1>1
    <3> QED
      BY <2>1, <3>1, <3>2 DEF Clean, Remembered
  <2>4. c.irqKey /\ c.translate /\ ~c.keyOff /\ (c.irqMouse <=> cpu.prev \in {71, 103})
    BY <2>3, Shape, SetFair
  <2> HIDE DEF c
  <2>5. Replies(c.kq, Tail(s), ebda.hooked) /\ Answered(c.mq, c.in, Tail(s))
    BY <1>5, <2>2, NoneIsFine, IdleIsFine
  <2>6. Listening(c, cpu.on9)
    BY <2>4 DEF Listening
  <2>7. Remembered(Tail(s), cpu.prev, ebda.hooked)
    BY <2>3 DEF Remembered
  <2>8. ~ebda.hooked \/ Leaving(cpu.fn, Tail(s)) => Deaf(c, line')
    <3> SUFFICES ASSUME ~ebda.hooked PROVE Deaf(c, line')
      BY <1>4 DEF Leaving
    <3>1. ~c.irqMouse /\ 12 \notin line.high
      BY <2>1, <2>3, <2>4 DEF Fair, Clean, Deaf
    <3>2. 12 \notin Lines(line, c, FALSE).high
      BY <3>1, Shape, LinesRise
    <3> QED
      BY <1>2, <3>1, <3>2 DEF Deaf
  <2> HIDE DEF s
  <2> QED
    BY <1>2, <1>3, <1>5, <2>1, <2>5, <2>6, <2>7, <2>8 DEF Clean
<1> HIDE DEF c, s
<1> QED
  BY <1>1, <1>2, <1>3, <1>5, <1>6, <1>7, <1>8 DEF Wires, Running

LEMMA SendWires == TypeInv /\ Wires /\ SendToMouse => Wires'
<1> SUFFICES ASSUME TypeInv, Wires, SendToMouse PROVE Wires'
  OBVIOUS
<1> DEFINE s == cpu.steps
           b == ServiceByte(cpu.fn)
           c == ToMouse(ctl, b)
<1>1. Running /\ cpu.pc = "service" /\ s # <<>> /\ s[1] = "send" /\ 1 \in DOMAIN s
      /\ Tail(s) \in Seq(Steps) /\ Ordered(cpu.fn, Tail(s))
  BY InStepOf DEF SendToMouse, Wires
<1>2. ctl' = c /\ line' = Lines(line, c, FALSE) /\ UNCHANGED <<mouse, ebda, hist>> /\ cpu' = Next1
  BY DEF SendToMouse, Write
<1>3. /\ cpu'.steps = Tail(s) /\ cpu'.pc = cpu.pc /\ cpu'.fn = cpu.fn /\ cpu'.if = cpu.if
      /\ cpu'.on9 = cpu.on9 /\ cpu'.on74 = cpu.on74 /\ cpu'.prev = cpu.prev
  BY <1>1, <1>2, NextIs
<1>4. ctl.in.to = "none"
  BY DEF SendToMouse, InService, NeedsEmpty
<1>5. Len(Answer("mouse", b)) <= Lead(Tail(s))
  BY <1>1, Shape, LeadOfSend DEF Wires, Busy
<1> HIDE DEF b
<1>6. /\ c.irqKey = ctl.irqKey /\ c.irqMouse = ctl.irqMouse /\ c.translate = ctl.translate
      /\ c.kq = ctl.kq /\ c.mq = ctl.mq /\ c.keyOff = ctl.keyOff /\ c.in.b = b
  BY <1>4, Shape, MouseSent
<1> HIDE DEF c
<1>7. line'.irr \subseteq line'.high
  BY <1>2, Shape, LinesRise
<1>8. Busy'
  BY <1>1, <1>2, <1>3, ServiceBusy DEF Wires
<1>9. ASSUME Undisturbed' PROVE Clean'
  <2>1. Undisturbed /\ Clean
    BY <1>2, <1>9 DEF Undisturbed, Wires
  <2>2. NoReply(ctl.kq) /\ NoAnswer(ctl.mq)
    BY <1>1, <2>1, Unheard
  <2>3. Replies(c.kq, Tail(s), ebda.hooked)
    BY <1>6, <2>2, NoneIsFine
  <2>4. Answered(c.mq, c.in, Tail(s))
    <3>1. NoAnswer(c.mq)
      BY <1>6, <2>2
    <3>2. Within(c.mq, Lead(Tail(s)))
      BY <3>1 DEF Within, NoAnswer
    <3> QED
      BY <1>5, <1>6, <3>1, <3>2 DEF Answered
  <2>5. Listening(c, cpu.on9)
    BY <1>6, <2>1 DEF Clean, Listening
  <2>6. Remembered(Tail(s), cpu.prev, ebda.hooked) /\ (Leaving(cpu.fn, Tail(s)) => Leaving(cpu.fn, s))
    BY <1>1, <2>1, Shape, TailLeaves DEF Clean
  <2>7. ~ebda.hooked \/ Leaving(cpu.fn, Tail(s)) => Deaf(c, line')
    <3>1. Deaf(ctl, line) => Deaf(c, line')
      BY <1>2, <1>6, Shape, StaysDeaf
    <3> QED
      BY <2>1, <2>6, <3>1 DEF Clean
  <2> HIDE DEF s
  <2> QED
    BY <1>2, <1>3, <1>6, <2>1, <2>3, <2>4, <2>5, <2>6, <2>7 DEF Clean
<1> HIDE DEF s
<1> QED
  BY <1>1, <1>2, <1>3, <1>6, <1>7, <1>8, <1>9 DEF Wires, Running

LEMMA GetWires == TypeInv /\ Wires /\ GetMouseData => Wires'
<1> SUFFICES ASSUME TypeInv, Wires, GetMouseData PROVE Wires'
  OBVIOUS
<1> DEFINE s == cpu.steps
           c == Taken(ctl)
           b == Shown(ctl).b
<1>1. Running /\ cpu.pc = "service" /\ s # <<>> /\ s[1] = "get" /\ 1 \in DOMAIN s
      /\ Tail(s) \in Seq(Steps) /\ Ordered(cpu.fn, Tail(s))
  BY InStepOf DEF GetMouseData, Wires
<1>2. /\ OutputFull(ctl) /\ ctl' = c /\ line' = Lines(line, c, TRUE) /\ UNCHANGED <<mouse, ebda>>
      /\ cpu' = [Next1 EXCEPT !.got = b] /\ hist' = Reading("service", "mouse")
  BY DEF GetMouseData, MouseData, Read
<1>3. /\ cpu'.steps = Tail(s) /\ cpu'.pc = cpu.pc /\ cpu'.fn = cpu.fn /\ cpu'.if = cpu.if
      /\ cpu'.on9 = cpu.on9 /\ cpu'.on74 = cpu.on74 /\ cpu'.prev = cpu.prev
  <2> DEFINE q == Tail(cpu.steps)
  <2>1. cpu' = [cpu EXCEPT !.steps = q, !.got = b]
    <3>1. [[cpu EXCEPT !.steps = q] EXCEPT !.got = b] = [cpu EXCEPT !.steps = q, !.got = b]
      BY Shape DEF Processor
    <3> QED
      BY <1>2, <3>1 DEF Next1
  <2> HIDE DEF q, b
  <2>2. /\ cpu'.steps = q /\ cpu'.pc = cpu.pc /\ cpu'.fn = cpu.fn /\ cpu'.if = cpu.if
        /\ cpu'.on9 = cpu.on9 /\ cpu'.on74 = cpu.on74 /\ cpu'.prev = cpu.prev
    BY <2>1, Shape DEF Processor
  <2> QED
    BY <2>2 DEF q
<1>4. SameBut(ctl, c)
  BY Shape, TakenKeeps
<1>5. KeyTags(c.kq) /\ MouseTags(c.mq) /\ InStep(c.mq, mouse.pos)
  BY Shape, TakenTags DEF Wires
<1>6. /\ hist'.packet = hist.packet /\ hist'.first \in {hist.first, "service"}
      /\ hist'.first = "none" => hist.first = "none" /\ Shown(ctl).tag = "mouse"
  BY <1>2, ReadingKeeps DEF Readers
<1>7. Shown(ctl).tag = "mouse" =>
        /\ ctl.mq # <<>> /\ Shown(ctl) = Head(ctl.mq) /\ c.mq = Tail(ctl.mq) /\ c.kq = ctl.kq
  BY <1>2, Shape, TakenOf DEF OutputFull, Wires
<1> HIDE DEF c
<1>8. line'.irr \subseteq line'.high
  BY <1>2, Shape, LinesRise
<1>9. Busy'
  BY <1>1, <1>2, <1>3, ServiceBusy DEF Wires
<1>10. ASSUME Undisturbed' PROVE Clean'
  <2>1. Undisturbed /\ Clean /\ Shown(ctl).tag = "mouse"
    BY <1>6, <1>10 DEF Undisturbed, Wires
  <2>2. ctl.mq # <<>> /\ Head(ctl.mq).tag = "mouse" /\ c.mq = Tail(ctl.mq) /\ c.kq = ctl.kq
    BY <1>7, <2>1
  <2>3. 1 \in DOMAIN ctl.mq /\ ctl.mq[1].tag = "mouse"
    BY <2>2, Shape, TailAt
  <2>4. /\ Aligned(c.mq, mouse.pos, After(Head(ctl.mq)))
        /\ \A n \in Int : Within(ctl.mq, n) => Within(c.mq, n - 1)
        /\ \A n \in Int : Within(c.mq, n - 1) => \A m \in Int : n - 1 <= m => Within(c.mq, m)
    <3>1. /\ Aligned(c.mq, mouse.pos, After(Head(ctl.mq)))
          /\ \A n \in Int : Within(ctl.mq, n) => Within(c.mq, n - 1)
      BY <2>2, Shape, MouseTail DEF Wires
    <3>2. ASSUME NEW n \in Int, Within(c.mq, n), NEW m \in Int, n <= m PROVE Within(c.mq, m)
      <4> DEFINE q == c.mq
      <4>1. q \in Seq(Wire)
        <5>1. ctl.mq \in Seq(Wire)
          BY Shape
        <5> QED
          BY <2>2, <5>1, HeadTailProperties
      <4> HIDE DEF q
      <4>2. \A i \in DOMAIN q : i \in Int
        BY <4>1, LenProperties
      <4> QED
        BY <3>2, <4>2 DEF Within, q
    <3>3. \A n \in Int : n - 1 \in Int
      OBVIOUS
    <3> QED
      BY <3>1, <3>2, <3>3
  <2>5. Lead(s) \in Int /\ Lead(Tail(s)) \in Int /\ Lead(s) - 1 <= Lead(Tail(s))
    <3>1. Lead(Tail(s)) >= Lead(s) - 1
      BY <1>1, Shape, LeadIs
    <3>2. Lead(s) \in Int /\ Lead(Tail(s)) \in Int
      BY DEF Lead
    <3> HIDE DEF Lead
    <3> QED
      BY <3>1, <3>2
  <2>6. Answered(c.mq, c.in, Tail(s))
    <3>1. Within(ctl.mq, Lead(s)) /\ (ctl.in.to = "mouse" => NoAnswer(ctl.mq))
      BY <2>1 DEF Clean, Answered
    <3>2. Within(c.mq, Lead(Tail(s)))
      BY <2>4, <2>5, <3>1
    <3>3. c.in.to # "mouse"
      BY <1>4, <2>3, <3>1 DEF NoAnswer, SameBut
    <3> QED
      BY <3>2, <3>3 DEF Answered
  <2>7. ebda.count = 2 => Aligned(c.mq, mouse.pos, ebda.index)
    <3>1. After(Head(ctl.mq)) = 0
      BY <2>2 DEF After
    <3>2. ebda.count = 2 => ebda.index = 0
      BY <2>1, <2>2, <2>3 DEF Clean, Aligned
    <3> QED
      BY <2>4, <3>1, <3>2
  <2>8. Replies(c.kq, Tail(s), ebda.hooked)
    <3>1. NoReply(ctl.kq)
      BY <1>1, <2>1, NoneWaits DEF Clean
    <3> QED
      BY <2>2, <3>1, NoneIsFine
  <2>9. Listening(c, cpu.on9)
    BY <1>4, <2>1 DEF Clean, Listening, SameBut
  <2>10. Remembered(Tail(s), cpu.prev, ebda.hooked) /\ (Leaving(cpu.fn, Tail(s)) => Leaving(cpu.fn, s))
    BY <1>1, <2>1, Shape, TailLeaves DEF Clean
  <2>11. ~ebda.hooked \/ Leaving(cpu.fn, Tail(s)) => Deaf(c, line')
    <3>1. Deaf(ctl, line) => Deaf(c, line')
      BY <1>2, <1>4, Shape, StaysDeaf DEF SameBut
    <3> QED
      BY <2>1, <2>10, <3>1 DEF Clean
  <2> HIDE DEF s
  <2> QED
    BY <1>2, <1>3, <1>6, <2>1, <2>6, <2>7, <2>8, <2>9, <2>10, <2>11 DEF Clean
<1> HIDE DEF s, b
<1> QED
  BY <1>1, <1>2, <1>3, <1>5, <1>6, <1>8, <1>9, <1>10 DEF Wires, Running

LEMMA AckWires == TypeInv /\ Wires /\ CheckAck => Wires'
<1> SUFFICES ASSUME TypeInv, Wires, CheckAck PROVE Wires'
  OBVIOUS
<1> DEFINE s == cpu.steps
<1>1. Running /\ cpu.pc = "service" /\ s # <<>> /\ s[1] = "acked" /\ 1 \in DOMAIN s
      /\ Tail(s) \in Seq(Steps) /\ Ordered(cpu.fn, Tail(s))
  BY InStepOf DEF CheckAck, Wires
<1>2. UNCHANGED <<ctl, line, mouse, ebda, hist>> /\ (cpu' = Next1 \/ cpu' = [cpu EXCEPT !.steps = <<>>])
  BY DEF CheckAck
<1>3. /\ cpu'.steps = Tail(s) \/ cpu'.steps = <<>>
      /\ cpu'.pc = cpu.pc /\ cpu'.fn = cpu.fn /\ cpu'.if = cpu.if
      /\ cpu'.on9 = cpu.on9 /\ cpu'.on74 = cpu.on74 /\ cpu'.prev = cpu.prev
  <2>1. CASE cpu' = Next1
    BY <1>1, <2>1, NextIs
  <2>2. CASE cpu' = [cpu EXCEPT !.steps = <<>>]
    BY <2>2, Shape DEF Processor
  <2> QED
    BY <1>2, <2>1, <2>2
<1>4. cpu.fn # "unhook"
  BY <1>1 DEF Wires, Busy, Ordered
<1>5. Ordered(cpu.fn, cpu'.steps)
  BY <1>1, <1>3, OrderedSteps
<1>6. Busy'
  BY <1>1, <1>2, <1>3, <1>5, ServiceBusy DEF Wires
<1>7. ASSUME Undisturbed' PROVE Clean'
  <2>1. Undisturbed /\ Clean
    BY <1>2, <1>7 DEF Undisturbed, Wires
  <2>2. NoReply(ctl.kq) /\ NoAnswer(ctl.mq) /\ ctl.in.to # "mouse"
    BY <1>1, <2>1, Unheard
  <2>3. Replies(ctl.kq, cpu'.steps, ebda.hooked) /\ Answered(ctl.mq, ctl.in, cpu'.steps)
    BY <2>2, NoneIsFine, IdleIsFine
  <2>4. Remembered(cpu'.steps, cpu.prev, ebda.hooked)
    <3>1. Remembered(Tail(s), cpu.prev, ebda.hooked)
      BY <1>1, <2>1, Shape, TailLeaves DEF Clean
    <3>2. Remembered(<<>>, cpu.prev, ebda.hooked)
      BY DEF Remembered
    <3> QED
      BY <1>3, <3>1, <3>2
  <2>5. ~ebda.hooked \/ Leaving(cpu.fn, cpu'.steps) => Deaf(ctl, line)
    BY <1>4, <2>1 DEF Clean, Leaving
  <2> QED
    BY <1>2, <1>3, <2>1, <2>3, <2>4, <2>5 DEF Clean
<1> QED
  BY <1>1, <1>2, <1>3, <1>6, <1>7 DEF Wires

LEMMA DoneWires == TypeInv /\ Wires /\ ServiceDone => Wires'
<1> SUFFICES ASSUME TypeInv, Wires, ServiceDone PROVE Wires'
  OBVIOUS
<1> DEFINE h == CASE cpu.fn = "hook" -> TRUE [] cpu.fn = "unhook" -> FALSE [] OTHER -> ebda.hooked
<1>1. /\ Running /\ cpu.pc = "service" /\ cpu.steps = <<>> /\ cpu' = Return
      /\ ebda' = [ebda EXCEPT !.hooked = h] /\ UNCHANGED <<ctl, line, mouse, hist>>
  BY DEF ServiceDone
<1>2. ~h => ~ebda.hooked \/ cpu.fn = "unhook"
  OBVIOUS
<1> HIDE DEF h
<1>3. /\ ebda'.hooked = h /\ ebda'.count = ebda.count /\ ebda'.index = ebda.index
      /\ ebda'.data = ebda.data
  BY <1>1 DEF TypeInv
<1>4. /\ cpu'.pc = "run" /\ cpu'.fn = "none" /\ cpu'.steps = <<>>
      /\ cpu'.on9 = "off" /\ cpu'.on74 = "off"
  BY <1>1, ReturnsTo DEF Running
<1>5. Busy'
  <2>1. Ordered("none", <<>>)
    BY OrderedSteps
  <2> QED
    BY <1>4, <2>1 DEF Busy, Quiet
<1>6. ASSUME Undisturbed' PROVE Clean'
  <2>1. Undisturbed /\ Clean
    BY <1>1, <1>6 DEF Undisturbed, Wires
  <2>2. NoReply(ctl.kq) /\ NoAnswer(ctl.mq) /\ ctl.in.to # "mouse"
    BY <1>1, <2>1, Unheard
  <2>3. Replies(ctl.kq, <<>>, h) /\ Answered(ctl.mq, ctl.in, <<>>)
    BY <2>2, NoneIsFine, IdleIsFine
  <2>4. Remembered(<<>>, cpu'.prev, h)
    BY DEF Remembered
  <2>5. ~h \/ Leaving("none", <<>>) => Deaf(ctl, line)
    BY <1>1, <1>2, <2>1 DEF Clean, Leaving
  <2>6. Listening(ctl, "off")
    BY <1>1, <2>1 DEF Clean, Running
  <2>7. Filled(ebda')
    BY <1>3, <2>1 DEF Clean, Filled
  <2> QED
    BY <1>1, <1>3, <1>4, <2>1, <2>3, <2>4, <2>5, <2>6, <2>7 DEF Clean
<1> QED
  BY <1>1, <1>4, <1>5, <1>6 DEF Wires

LEMMA Int15Wires == TypeInv /\ Wires /\ Int15C2 => Wires'
<1> SUFFICES ASSUME TypeInv, Wires, Int15C2 PROVE Wires'
  OBVIOUS
<1> PICK f \in Services :
      /\ f # "enable" \/ ebda.hooked
      /\ cpu' = [cpu EXCEPT !.pc = "service", !.fn = f, !.if = FALSE, !.steps = ServiceSteps(f)]
      /\ ebda' = IF f = "init" THEN [ebda EXCEPT !.count = 2, !.index = 0] ELSE ebda
      /\ hist' = Disturb([hist EXCEPT !.calls = @ + 1], "command", f = "init" /\ Midway)
  BY DEF Int15C2
<1>1. Running /\ cpu.pc = "run" /\ UNCHANGED <<ctl, line, mouse>>
  BY DEF Int15C2
<1>2. cpu.steps = <<>>
  BY <1>1 DEF Wires, Busy
<1> DEFINE s == ServiceSteps(f)
<1>3. /\ cpu'.steps = s /\ cpu'.pc = "service" /\ cpu'.fn = f /\ ~cpu'.if
      /\ cpu'.on9 = cpu.on9 /\ cpu'.on74 = cpu.on74 /\ cpu'.prev = cpu.prev
  <2> HIDE DEF s
  <2>1. cpu' = [cpu EXCEPT !.pc = "service", !.fn = f, !.if = FALSE, !.steps = s]
    BY DEF s
  <2> QED
    BY <2>1, Shape DEF Processor
<1>4. ebda'.hooked = ebda.hooked
  BY DEF TypeInv
<1>5. f = "init" => ebda'.count = 2 /\ ebda'.index = 0
  BY DEF TypeInv
<1>6. /\ hist'.packet = hist.packet /\ hist'.first \in {hist.first, "command"}
      /\ hist'.first = "none" => hist.first = "none" /\ ~(f = "init" /\ Midway)
  <2> DEFINE d == f = "init" /\ Midway
             g == [hist EXCEPT !.calls = @ + 1]
             x == IF g.first = "none" /\ d THEN "command" ELSE g.first
  <2>1. hist' = [g EXCEPT !.first = x]
    BY DEF Disturb
  <2>2. g \in History /\ g.first = hist.first /\ g.packet = hist.packet
    <3> DEFINE n == hist.calls + 1
    <3>1. hist \in History
      BY Shape
    <3>2. n \in Nat
      BY <3>1 DEF History
    <3> HIDE DEF n
    <3>3. [hist EXCEPT !.calls = n] \in History
      BY <3>1, <3>2 DEF History
    <3>4. [hist EXCEPT !.calls = n].first = hist.first /\ [hist EXCEPT !.calls = n].packet = hist.packet
      BY <3>1 DEF History
    <3> QED
      BY <3>3, <3>4 DEF n
  <2> HIDE DEF g
  <2>3. x \in {hist.first, "command"} /\ (x = "none" => hist.first = "none" /\ ~d)
    <3> HIDE DEF Midway
    <3>1. CASE g.first = "none" /\ d
      BY <2>2, <3>1
    <3>2. CASE ~(g.first = "none" /\ d)
      BY <2>2, <3>2
    <3> QED
      BY <3>1, <3>2
  <2> HIDE DEF x
  <2>4. hist'.packet = g.packet /\ hist'.first = x
    BY <2>1, <2>2 DEF History
  <2> QED
    BY <2>2, <2>3, <2>4 DEF d
<1>7. Busy'
  <2>1. Ordered(f, s)
    BY OrderedSteps
  <2> QED
    BY <1>1, <1>3, <1>4, <2>1 DEF Busy, Running, Quiet
<1>8. ASSUME Undisturbed' PROVE Clean'
  <2>1. Undisturbed /\ Clean /\ ~(f = "init" /\ Midway)
    BY <1>6, <1>8 DEF Undisturbed, Wires
  <2>2. NoReply(ctl.kq) /\ NoAnswer(ctl.mq) /\ ctl.in.to # "mouse"
    BY <1>2, <2>1, Unheard
  <2>3. Replies(ctl.kq, s, ebda.hooked) /\ Answered(ctl.mq, ctl.in, s)
    BY <2>2, NoneIsFine, IdleIsFine
  <2>4. Remembered(s, cpu.prev, ebda.hooked) /\ (ebda.hooked => ~Leaving(f, s))
    BY InhibitsFirst
  <2>5. ~ebda.hooked \/ Leaving(f, s) => Deaf(ctl, line)
    BY <2>1, <2>4 DEF Clean
  <2>6. (ebda'.count = 2 => Aligned(ctl.mq, mouse.pos, ebda'.index)) /\ Filled(ebda')
    <3>1. CASE f = "init"
      <4>1. mouse.pos = 0 /\ (ctl.mq = <<>> \/ Head(ctl.mq).b = 1)
        BY <2>1, <3>1 DEF Midway
      <4>2. ctl.mq # <<>> => ctl.mq[1].b = 1
        BY <4>1, Shape, TailAt
      <4>3. Aligned(ctl.mq, mouse.pos, 0)
        BY <4>1, <4>2 DEF Aligned
      <4> QED
        BY <1>5, <3>1, <4>3 DEF Filled
    <3>2. CASE f # "init"
      BY <2>1, <3>2 DEF Clean
    <3> QED
      BY <3>1, <3>2
  <2> HIDE DEF s
  <2> QED
    BY <1>1, <1>3, <1>4, <1>6, <2>1, <2>3, <2>4, <2>5, <2>6 DEF Clean
<1> HIDE DEF s
<1> QED
  BY <1>1, <1>3, <1>6, <1>7, <1>8 DEF Wires

----------------------------------------------------------------------------
(* The invariant holds.                                                    *)

\* A step of no action leaves the wires as they are.
LEMMA IdleWires == Wires /\ UNCHANGED vars => Wires'
<1> SUFFICES ASSUME Wires, UNCHANGED vars PROVE Wires'
  OBVIOUS
<1>1. UNCHANGED <<ctl, line, mouse, ebda, cpu, hist>>
  BY DEF vars
<1>2. Busy'
  BY <1>1 DEF Wires, Busy, Quiet, Running
<1>3. Undisturbed' => Clean'
  BY <1>1 DEF Wires, Undisturbed, Clean
<1> QED
  BY <1>1, <1>2, <1>3 DEF Wires

LEMMA WiresNext == IInv /\ Wires /\ [Next]_vars => Wires'
<1> SUFFICES ASSUME IInv, Wires, [Next]_vars PROVE Wires'
  OBVIOUS
<1>0. TypeInv
  BY DEF IInv
<1>1. CASE Devices
  BY <1>0, <1>1, SendKeyWires, SendMoveWires, AnswerWires DEF Devices
<1>2. CASE Handlers
  BY <1>0, <1>2, Int09ReadWires, Int09WorkWires, Int74Wires, int74_functionWires, Int74DoneWires DEF Handlers
<1>3. CASE Int16 \/ Keyboard
  BY <1>0, <1>3, PlainWires, LampsWires, IdentityWires DEF Keyboard
<1>4. CASE Int15C2
  BY <1>0, <1>4, Int15Wires
<1>5. CASE Service
  BY <1>0, <1>5, AskWires, ChangeWires, RestoreWires, SendWires, GetWires, AckWires, DoneWires DEF Service
<1>6. CASE UNCHANGED vars
  BY <1>6, IdleWires
<1> QED
  BY <1>1, <1>2, <1>3, <1>4, <1>5, <1>6 DEF Next

LEMMA InitWires == Init => Wires
<1> SUFFICES ASSUME Init PROVE Wires
  OBVIOUS
<1> PICK driver \in BOOLEAN :
      /\ ctl = [out |-> "none", kq |-> <<>>, mq |-> <<>>, irqKey |-> TRUE, irqMouse |-> driver,
                keyOff |-> FALSE, mouseOff |-> ~driver, mouseOffSeen |-> ~driver,
                translate |-> TRUE, in |-> [to |-> "none", b |-> 0]]
      /\ line = [high |-> {}, irr |-> {}, isr |-> {}]
      /\ mouse = [on |-> driver, pos |-> 0]
      /\ ebda = [hooked |-> driver, count |-> IF driver THEN 2 ELSE 0, index |-> 0,
                 data |-> [i \in 0..2 |-> 0]]
      /\ cpu = [pc |-> "run", fn |-> "none", if |-> TRUE, sti |-> FALSE, steps |-> <<>>, slot |-> 0,
                got |-> BreakKey, prev |-> 0, led |-> {}, on9 |-> "off", on74 |-> "off", key |-> 0]
      /\ hist = [keys |-> 0, moves |-> 0, calls |-> 0, queue |-> <<>>, raced |-> {},
                 first |-> "none", packet |-> <<>>]
  BY DEF Init
<1>1. /\ ctl.out = "none" /\ ctl.kq = <<>> /\ ctl.mq = <<>> /\ ctl.irqKey = TRUE /\ ctl.irqMouse = driver
      /\ ctl.keyOff = FALSE /\ ctl.translate = TRUE /\ ctl.in.to = "none"
  OBVIOUS
<1>2. line.high = {} /\ line.irr = {} /\ mouse.pos = 0 /\ ebda.hooked = driver /\ ebda.index = 0
  OBVIOUS
<1>3. /\ cpu.pc = "run" /\ cpu.fn = "none" /\ cpu.steps = <<>> /\ cpu.on9 = "off" /\ cpu.on74 = "off"
      /\ hist.first = "none" /\ hist.packet = <<>>
  OBVIOUS
<1>4. Busy
  BY <1>3, OrderedSteps DEF Busy, Quiet
<1>5. KeyTags(<<>>) /\ MouseTags(<<>>) /\ InStep(<<>>, 0)
  BY DEF KeyTags, MouseTags, InStep
<1>6. NoReply(<<>>) /\ NoAnswer(<<>>)
  BY DEF NoReply, NoAnswer
<1>7. Replies(ctl.kq, cpu.steps, ebda.hooked) /\ Answered(ctl.mq, ctl.in, cpu.steps)
  BY <1>1, <1>6, NoneIsFine, IdleIsFine
<1>8. Listening(ctl, cpu.on9) /\ Remembered(cpu.steps, cpu.prev, ebda.hooked)
  BY <1>1, <1>3 DEF Listening, Remembered
<1>9. ~ebda.hooked \/ Leaving(cpu.fn, cpu.steps) => Deaf(ctl, line)
  BY <1>1, <1>2, <1>3 DEF Leaving, Deaf
<1>10. Aligned(ctl.mq, mouse.pos, ebda.index) /\ Filled(ebda)
  BY <1>1, <1>2 DEF Aligned, Filled
<1>11. Clean
  BY <1>3, <1>7, <1>8, <1>9, <1>10 DEF Clean
<1> QED
  BY <1>1, <1>2, <1>3, <1>4, <1>5, <1>11 DEF Wires

\* The bytes on the wires are in order, whatever keys are typed, services
\* called and packets sent: while nothing has disturbed the traffic every byte
\* that waits has its reader.  (What the two theorems below follow from.)
THEOREM WiresInOrder == Spec => []Wires
<1>1. Init => Wires
  BY InitWires
<1>2. IInv /\ Wires /\ [Next]_vars => Wires'
  BY WiresNext
<1> QED
  BY <1>1, <1>2, Invariant, PTL DEF Spec

\* Neither interrupt handler is the first to take a byte that was not sent for
\* it, though the 8042's status shows the mouse's bit while a key is in the
\* buffer, and the packets handed to the program's mouse handler are whole:
\* int09_handler and int74_function against inhibit_mouse_int_and_events and the
\* steps of INT 15h, AH = C2h.
THEOREM BytesReachTheirReaders == Spec => []BytesReachReaders
<1>1. Wires => BytesReachReaders
  BY DEF Wires, Clean, Whole, BytesReachReaders
<1> QED
  BY <1>1, WiresInOrder, PTL

\* The mouse services leave the keyboard's interrupt, clock and translation on:
\* the command byte they write back differs from the one they read in the
\* mouse's bits alone.
THEOREM KeyboardIsHeard == Spec => []KeyboardHeard
<1>1. Wires => KeyboardHeard
  BY DEF Wires, Clean, Listening, KeyboardHeard
<1> QED
  BY <1>1, WiresInOrder, PTL

----------------------------------------------------------------------------
(* The flags and the keys held.  A flag agrees with its key once the last  *)
(* byte that speaks of the key was processed: INT 09h may still work on    *)
(* it, it may wait in the keyboard's queue, or in the keyboard.            *)

Watched == {29, 56, 58}
\* One key alone has each of these codes, and no key's release is the prefix
\* after which INT 09h does not look at a control key.
OrdinaryKeys == /\ \A k, m \in Keys : k[1] \in Watched /\ k[1] = m[1] => k = m
                /\ \A k \in Keys : k[1] # 97

Flagged(d) == (IF "ctrl" \in d.shift THEN {29} ELSE {}) \cup (IF "alt" \in d.shift THEN {56} ELSE {})
              \cup (IF "caps" \in d.flags THEN {58} ELSE {})

Speaks(w, C) == w.tag = "code" /\ w.b % 128 = C
Silent(q, C) == \A i \in DOMAIN q : ~Speaks(q[i], C)
\* A byte, and the last of a queue, says of a key whether it is held.
Says(b, C, held) == b % 128 = C => (b < 128 <=> C \in held)
LastSays(q, C, held) ==
  \A i \in DOMAIN q : Speaks(q[i], C) /\ (\A j \in DOMAIN q : Speaks(q[j], C) => j <= i)
                        => Says(q[i].b, C, held)
Followed(C, heard, held, rest, q, on9, key) ==
  /\ rest # <<>> => Says(rest[1], C, held)
  /\ rest = <<>> \/ rest[1] % 128 # C =>
       /\ LastSays(q, C, held)
       /\ Silent(q, C) =>
            /\ on9 = "work" => Says(key, C, held)
            /\ on9 # "work" \/ key % 128 # C => (C \in heard <=> C \in held)
Unescaped(q) == \A i \in DOMAIN q : q[i].tag = "code" => q[i].b # 225

Settling ==
  /\ kbd.rest # <<>> => Tail(kbd.rest) = <<>> /\ kbd.rest[1] # 225
  /\ Undisturbed =>
       /\ Unescaped(ctl.kq) /\ (cpu.on9 = "work" => cpu.key # 225) /\ "e1" \notin bda.state
       /\ \A C \in Watched :
            Followed(C, Flagged(bda), HeldCodes, kbd.rest, ctl.kq, cpu.on9, cpu.key)

\* What happens to the queue without a word of a key: fewer bytes speak of none
\* than before, and the last that does is the same.
Quieter(q, r, C, held) == /\ Silent(r, C) => Silent(q, C)
                          /\ LastSays(q, C, held) => LastSays(r, C, held)
Hushed(q, r, held) == /\ Unescaped(q) => Unescaped(r)
                      /\ \A C \in Watched : Quieter(q, r, C, held)

LEMMA SameHushed ==
  ASSUME NEW q, NEW held
  PROVE  Hushed(q, q, held)
BY DEF Hushed, Quieter

LEMMA AppendQuieter ==
  ASSUME NEW q \in Seq(Wire), NEW w \in Wire, NEW C, NEW held, ~Speaks(w, C)
  PROVE  Quieter(q, Append(q, w), C, held)
<1> DEFINE r == Append(q, w)
           n == Len(q)
<1>1. /\ n \in Nat /\ DOMAIN q = 1 .. n /\ DOMAIN r = 1 .. n + 1
      /\ (\A i \in 1 .. n : r[i] = q[i]) /\ r[n + 1] = w
  BY AppendAt
<1> HIDE DEF r, n
<1>2. Silent(r, C) => Silent(q, C)
  BY <1>1 DEF Silent
<1>3. ASSUME LastSays(q, C, held), NEW i \in DOMAIN r, Speaks(r[i], C),
             \A j \in DOMAIN r : Speaks(r[j], C) => j <= i
      PROVE  Says(r[i].b, C, held)
  <2>1. i # n + 1
    BY <1>1, <1>3
  <2>2. i \in DOMAIN q /\ r[i] = q[i]
    BY <1>1, <2>1
  <2>3. \A j \in DOMAIN q : Speaks(q[j], C) => j <= i
    BY <1>1, <1>3
  <2> QED
    BY <1>3, <2>2, <2>3 DEF LastSays
<1>4. LastSays(q, C, held) => LastSays(r, C, held)
  BY <1>3 DEF LastSays
<1> QED
  BY <1>2, <1>4 DEF Quieter, r

\* The last word on a key is the one that was just added.
LEMMA AppendSpeaks ==
  ASSUME NEW q \in Seq(Wire), NEW w \in Wire, NEW C, NEW held, Speaks(w, C), Says(w.b, C, held)
  PROVE  LastSays(Append(q, w), C, held) /\ ~Silent(Append(q, w), C)
<1> DEFINE r == Append(q, w)
           n == Len(q)
<1>1. /\ n \in Nat /\ DOMAIN r = 1 .. n + 1 /\ r[n + 1] = w
  BY AppendAt
<1> HIDE DEF r, n
<1>2. n + 1 \in DOMAIN r
  BY <1>1
<1>3. ~Silent(r, C)
  BY <1>1, <1>2 DEF Silent
<1>4. ASSUME NEW i \in DOMAIN r, \A j \in DOMAIN r : Speaks(r[j], C) => j <= i
      PROVE  Says(r[i].b, C, held)
  <2>1. n + 1 <= i
    BY <1>1, <1>2, <1>4
  <2>2. i = n + 1
    BY <1>1, <2>1
  <2> QED
    BY <1>1, <2>2
<1>5. LastSays(r, C, held)
  BY <1>4 DEF LastSays
<1> QED
  BY <1>3, <1>5 DEF r

LEMMA TailSpeaks ==
  ASSUME NEW q \in Seq(Wire), q # <<>>, NEW C, NEW held
  PROVE  /\ LastSays(q, C, held) => LastSays(Tail(q), C, held)
         /\ ~Speaks(Head(q), C) /\ Silent(Tail(q), C) => Silent(q, C)
         /\ LastSays(q, C, held) /\ Speaks(Head(q), C) /\ Silent(Tail(q), C) => Says(Head(q).b, C, held)
<1> DEFINE r == Tail(q)
           n == Len(q)
           h == Head(q)
<1>1. /\ n \in Nat \ {0} /\ q[1] = h /\ DOMAIN q = 1 .. n /\ DOMAIN r = 1 .. n - 1
      /\ \A i \in 1 .. n - 1 : r[i] = q[i + 1]
  BY TailAt
<1> HIDE DEF r, n, h
<1>5. ASSUME NEW i \in DOMAIN q, i # 1
      PROVE  i - 1 \in DOMAIN r /\ r[i - 1] = q[i]
  <2> DEFINE k == i - 1
  <2>1. k \in 1 .. n - 1 /\ k + 1 = i
    BY <1>1, <1>5
  <2> HIDE DEF k
  <2> QED
    BY <1>1, <2>1 DEF k
<1>2. ASSUME LastSays(q, C, held), NEW i \in DOMAIN r, Speaks(r[i], C),
             \A j \in DOMAIN r : Speaks(r[j], C) => j <= i
      PROVE  Says(r[i].b, C, held)
  <2> DEFINE k == i + 1
  <2>1. k \in DOMAIN q /\ q[k] = r[i]
    BY <1>1
  <2>2. ASSUME NEW j \in DOMAIN q, Speaks(q[j], C) PROVE j <= k
    <3>1. CASE j = 1
      BY <1>1, <3>1
    <3>2. CASE j # 1
      <4>1. j - 1 \in DOMAIN r /\ Speaks(r[j - 1], C)
        BY <1>5, <2>2, <3>2
      <4>2. j - 1 <= i
        BY <1>2, <4>1
      <4> QED
        BY <1>1, <4>2
    <3> QED
      BY <3>1, <3>2
  <2> HIDE DEF k
  <2> QED
    BY <1>2, <2>1, <2>2 DEF LastSays
<1>3. ASSUME ~Speaks(h, C), Silent(r, C), NEW i \in DOMAIN q PROVE ~Speaks(q[i], C)
  BY <1>1, <1>3, <1>5 DEF Silent
<1>4. ASSUME LastSays(q, C, held), Speaks(h, C), Silent(r, C) PROVE Says(h.b, C, held)
  <2>1. 1 \in DOMAIN q /\ Speaks(q[1], C)
    BY <1>1, <1>4
  <2>2. ASSUME NEW j \in DOMAIN q, Speaks(q[j], C) PROVE j <= 1
    <3>1. j = 1
      BY <1>4, <1>5, <2>2 DEF Silent
    <3> QED
      BY <3>1
  <2>3. Says(q[1].b, C, held)
    BY <1>4, <2>1, <2>2 DEF LastSays
  <2> QED
    BY <1>1, <2>3
<1>6. LastSays(q, C, held) => LastSays(r, C, held)
  BY <1>2 DEF LastSays
<1>7. ~Speaks(h, C) /\ Silent(r, C) => Silent(q, C)
  BY <1>3 DEF Silent
<1>8. LastSays(q, C, held) /\ Speaks(h, C) /\ Silent(r, C) => Says(h.b, C, held)
  BY <1>4
<1> QED
  BY <1>6, <1>7, <1>8 DEF r, h

LEMMA ConcatQuieter ==
  ASSUME NEW q \in Seq(Wire), NEW a \in Seq(Wire), NEW C, NEW held, \A i \in DOMAIN a : ~Speaks(a[i], C)
  PROVE  Quieter(q, q \o a, C, held)
<1> DEFINE r == q \o a
           n == Len(q)
           m == Len(a)
<1>1. /\ n \in Nat /\ m \in Nat /\ DOMAIN q = 1 .. n /\ DOMAIN a = 1 .. m /\ DOMAIN r = 1 .. n + m
      /\ (\A i \in 1 .. n : r[i] = q[i]) /\ (\A i \in 1 .. m : r[n + i] = a[i])
  BY ConcatAt
<1> HIDE DEF r, n, m
<1>2. Silent(r, C) => Silent(q, C)
  <2>1. \A i \in 1 .. n : i \in 1 .. n + m
    BY <1>1
  <2> QED
    BY <1>1, <2>1 DEF Silent
<1>3. ASSUME LastSays(q, C, held), NEW i \in DOMAIN r, Speaks(r[i], C),
             \A j \in DOMAIN r : Speaks(r[j], C) => j <= i
      PROVE  Says(r[i].b, C, held)
  <2>1. i \in DOMAIN q
    <3> SUFFICES ASSUME i \notin 1 .. n PROVE FALSE
      BY <1>1
    <3> DEFINE k == i - n
    <3>1. k \in 1 .. m /\ n + k = i
      BY <1>1
    <3> HIDE DEF k
    <3>2. r[n + k] = a[k] /\ k \in DOMAIN a
      BY <1>1, <3>1
    <3> QED
      BY <1>3, <3>1, <3>2
  <2>2. r[i] = q[i]
    BY <1>1, <2>1
  <2>3. \A j \in DOMAIN q : Speaks(q[j], C) => j <= i
    BY <1>1, <1>3
  <2> QED
    BY <1>3, <2>1, <2>2, <2>3 DEF LastSays
<1>4. LastSays(q, C, held) => LastSays(r, C, held)
  BY <1>3 DEF LastSays
<1> QED
  BY <1>2, <1>4 DEF Quieter, r

\* A byte that is no code is added or taken, or several are added.
LEMMA OtherAppended ==
  ASSUME NEW q \in Seq(Wire), NEW w \in Wire, w.tag # "code", NEW held
  PROVE  Hushed(q, Append(q, w), held)
<1> DEFINE r == Append(q, w)
           n == Len(q)
<1>1. \A C \in Watched : Quieter(q, r, C, held)
  BY AppendQuieter DEF Speaks
<1>2. /\ n \in Nat /\ DOMAIN q = 1 .. n /\ DOMAIN r = 1 .. n + 1
      /\ (\A i \in 1 .. n : r[i] = q[i]) /\ r[n + 1] = w
  BY AppendAt
<1> HIDE DEF r, n
<1>3. Unescaped(q) => Unescaped(r)
  BY <1>2 DEF Unescaped
<1> QED
  BY <1>1, <1>3 DEF Hushed, r

LEMMA OthersAdded ==
  ASSUME NEW q \in Seq(Wire), NEW a \in Seq(Wire), \A i \in DOMAIN a : a[i].tag = "key", NEW held
  PROVE  Hushed(q, q \o a, held)
<1> DEFINE r == q \o a
           n == Len(q)
           m == Len(a)
<1>1. \A C \in Watched : Quieter(q, r, C, held)
  BY ConcatQuieter DEF Speaks
<1>2. /\ n \in Nat /\ m \in Nat /\ DOMAIN q = 1 .. n /\ DOMAIN a = 1 .. m /\ DOMAIN r = 1 .. n + m
      /\ (\A i \in 1 .. n : r[i] = q[i]) /\ (\A i \in 1 .. m : r[n + i] = a[i])
  BY ConcatAt
<1> HIDE DEF r, n, m
<1>3. ASSUME Unescaped(q), NEW i \in DOMAIN r, r[i].tag = "code" PROVE r[i].b # 225
  <2>1. i \in DOMAIN q
    <3> SUFFICES ASSUME i \notin 1 .. n PROVE FALSE
      BY <1>2
    <3> DEFINE k == i - n
    <3>1. k \in 1 .. m /\ n + k = i
      BY <1>2
    <3> HIDE DEF k
    <3>2. r[n + k] = a[k] /\ k \in DOMAIN a
      BY <1>2, <3>1
    <3> QED
      BY <1>3, <3>1, <3>2
  <2> QED
    BY <1>2, <1>3, <2>1 DEF Unescaped
<1> QED
  BY <1>1, <1>3 DEF Hushed, Unescaped, r

LEMMA TailUnescaped ==
  ASSUME NEW q \in Seq(Wire), q # <<>>, Unescaped(q)
  PROVE  Unescaped(Tail(q)) /\ (Head(q).tag = "code" => Head(q).b # 225)
<1> DEFINE r == Tail(q)
           n == Len(q)
           h == Head(q)
<1>1. /\ n \in Nat \ {0} /\ q[1] = h /\ DOMAIN q = 1 .. n /\ DOMAIN r = 1 .. n - 1
      /\ \A i \in 1 .. n - 1 : r[i] = q[i + 1]
  BY TailAt
<1> HIDE DEF r, n, h
<1>2. 1 \in DOMAIN q /\ \A i \in 1 .. n - 1 : i + 1 \in DOMAIN q
  BY <1>1
<1> QED
  <2>1. Unescaped(r)
    BY <1>1, <1>2 DEF Unescaped
  <2>2. h.tag = "code" => h.b # 225
    BY <1>1, <1>2 DEF Unescaped
  <2> QED
    BY <2>1, <2>2 DEF r, h

LEMMA OtherTaken ==
  ASSUME NEW q \in Seq(Wire), q # <<>>, Head(q).tag # "code", NEW held
  PROVE  Hushed(q, Tail(q), held)
<1>1. \A C \in Watched : Quieter(q, Tail(q), C, held)
  BY TailSpeaks DEF Quieter, Speaks
<1> QED
  BY <1>1, TailUnescaped DEF Hushed

----------------------------------------------------------------------------
(* INT 09h and the flags: those of the key that it hears of change, and    *)
(* the others do not.                                                      *)

Obeys(d, e, code, down) ==
  /\ "ctrl" \in e.shift <=> IF code = 29 THEN down ELSE "ctrl" \in d.shift
  /\ "alt" \in e.shift <=> IF code = 56 THEN down ELSE "alt" \in d.shift
  /\ "caps" \in e.flags <=> IF code = 58 THEN down ELSE "caps" \in d.flags
  /\ "e1" \notin e.state

LEMMA ForgetObeys ==
  ASSUME NEW e \in DataArea, NEW c
  PROVE  /\ Forget(e, c).shift = e.shift /\ Forget(e, c).flags = e.flags
         /\ "e1" \in Forget(e, c).state => "e1" \in e.state
<1> DEFINE t == (e.state \ {"e0"}) \ (IF c % 128 = 29 THEN {} ELSE {"e1"})
<1>1. t \subseteq e.state
  OBVIOUS
<1>2. Forget(e, c) = [e EXCEPT !.state = t]
  BY DEF Forget
<1> HIDE DEF t
<1> QED
  BY <1>1, <1>2 DEF DataArea

LEMMA EnqueueObeys ==
  ASSUME NEW e \in DataArea, NEW key
  PROVE  /\ Enqueue(e, key).shift = e.shift /\ Enqueue(e, key).flags = e.flags
         /\ Enqueue(e, key).state = e.state
<1> DEFINE u == NextSlot(e.tail)
           buf == [e.buf EXCEPT ![e.tail] = key]
<1>1. Enqueue(e, key) = IF u = e.head THEN e ELSE [e EXCEPT !.buf = buf, !.tail = u]
  BY DEF Enqueue
<1> HIDE DEF u, buf
<1> QED
  BY <1>1 DEF DataArea

\* A lock key: its flag, and its toggle among the shifts.
LEMMA ToggledObeys ==
  ASSUME NEW d \in DataArea, "e1" \notin d.state, NEW down \in BOOLEAN,
         NEW key \in {"caps", "num", "scroll"}, NEW code, key = "caps" <=> code = 58, code \notin {29, 56}
  PROVE  Obeys(d, [Held(d, down, key) EXCEPT !.shift = IF down THEN Flip(@, key) ELSE @], code, down)
<1> DEFINE h == Held(d, down, key)
           flags == IF down THEN d.flags \cup {key} ELSE d.flags \ {key}
           shift == IF down THEN Flip(d.shift, key) ELSE d.shift
           e == [d EXCEPT !.flags = flags, !.shift = shift]
<1>1. h = [d EXCEPT !.flags = flags] /\ h.shift = d.shift
  BY DEF Held, DataArea
<1>2. [h EXCEPT !.shift = IF down THEN Flip(@, key) ELSE @] = e
  BY <1>1 DEF DataArea
<1>3. /\ "ctrl" \in shift <=> "ctrl" \in d.shift
      /\ "alt" \in shift <=> "alt" \in d.shift
  BY DEF Flip
<1>4. "caps" \in flags <=> IF key = "caps" THEN down ELSE "caps" \in d.flags
  OBVIOUS
<1> HIDE DEF flags, shift
<1>5. e.flags = flags /\ e.shift = shift /\ e.state = d.state
  BY DEF DataArea
<1> HIDE DEF e, h
<1>6. /\ "ctrl" \in e.shift <=> "ctrl" \in d.shift
      /\ "alt" \in e.shift <=> "alt" \in d.shift
      /\ "caps" \in e.flags <=> IF key = "caps" THEN down ELSE "caps" \in d.flags
      /\ "e1" \notin e.state
  BY <1>3, <1>4, <1>5
<1>7. Obeys(d, e, code, down)
  <2>1. CASE code = 58
    BY <1>6, <2>1 DEF Obeys
  <2>2. CASE code # 58
    BY <1>6, <2>2 DEF Obeys
  <2> QED
    BY <2>1, <2>2
<1> QED
  BY <1>2, <1>7 DEF h

LEMMA ModifierObeys ==
  ASSUME NEW d \in DataArea, "e1" \notin d.state, NEW down \in BOOLEAN
  PROVE  /\ Obeys(d, Modifier(d, down, "ctrl", "rctrl", "lctrl"), 29, down)
         /\ Obeys(d, Modifier(d, down, "alt", "ralt", "lalt"), 56, down)
<1>1. ASSUME NEW flag \in {"ctrl", "alt"}, NEW right \in {"rctrl", "ralt"}, NEW left \in {"lctrl", "lalt"}
      PROVE  Obeys(d, Modifier(d, down, flag, right, left), IF flag = "ctrl" THEN 29 ELSE 56, down)
  <2> DEFINE side(t, x) == IF down THEN t \cup {x} ELSE t \ {x}
             shift == side(d.shift, flag)
             state == side(d.state, right)
             flags == side(d.flags, left)
             m == Modifier(d, down, flag, right, left)
  <2>1. /\ "ctrl" \in shift <=> IF flag = "ctrl" THEN down ELSE "ctrl" \in d.shift
        /\ "alt" \in shift <=> IF flag = "alt" THEN down ELSE "alt" \in d.shift
        /\ "caps" \in flags <=> "caps" \in d.flags
        /\ "e1" \notin state
    OBVIOUS
  <2>2. m = IF "e0" \in d.state THEN [d EXCEPT !.shift = shift, !.state = state]
            ELSE [d EXCEPT !.shift = shift, !.flags = flags]
    BY DEF Modifier
  <2> HIDE DEF shift, state, flags
  <2>3. m.shift = shift /\ m.flags \in {d.flags, flags} /\ m.state \in {d.state, state}
    BY <2>2 DEF DataArea
  <2> HIDE DEF m
  <2>4. ("caps" \in m.flags <=> "caps" \in d.flags) /\ "e1" \notin m.state
    BY <2>1, <2>3
  <2>5. Obeys(d, m, IF flag = "ctrl" THEN 29 ELSE 56, down)
    BY <2>1, <2>3, <2>4 DEF Obeys
  <2> QED
    BY <2>5 DEF m
<1>2. Obeys(d, Modifier(d, down, "ctrl", "rctrl", "lctrl"), IF "ctrl" = "ctrl" THEN 29 ELSE 56, down)
  BY <1>1
<1>3. Obeys(d, Modifier(d, down, "alt", "ralt", "lalt"), IF "alt" = "ctrl" THEN 29 ELSE 56, down)
  BY <1>1
<1> QED
  BY <1>2, <1>3

LEMMA Int09Obeys ==
  ASSUME NEW d, Known(d), "e1" \notin d.state, NEW byte \in Octet
  PROVE  Obeys(d, int09_function(d, byte), byte % 128, byte < 128)
<1> DEFINE down == byte < 128
           code == byte % 128
           break == "e0" \in d.state \/ ("mf101" \notin d.state /\ "ctrl" \in d.shift)
           numlock == d.state \cap {"e0", "e1"} = {}
           toggled(key) == [Held(d, down, key) EXCEPT !.shift = IF down THEN Flip(@, key) ELSE @]
           sided == [d EXCEPT !.shift = IF down THEN @ \cup {ShiftSide[code]}
                                        ELSE @ \ {ShiftSide[code]}]
           col == Column(d, code)
           f == int09_function(d, byte)
           OK(e) == Obeys(d, e, code, down)
<1>0. d \in DataArea /\ "mf101" \in d.state
  BY DEF Known
<1>1. code \in 0 .. 127 /\ (byte = 0 => code = 0) /\ down \in BOOLEAN
  BY DEF Octet
<1>2. ASSUME NEW e \in DataArea, NEW c, OK(e) PROVE OK(Forget(e, c))
  BY <1>2, ForgetObeys DEF Obeys
<1>3. code \notin Watched => OK(d)
  BY DEF Obeys, Watched
<1>4. DOMAIN ShiftSide = {42, 54} /\ \A c \in {42, 54} : ShiftSide[c] \in {"lshift", "rshift"}
  BY DEF ShiftSide
<1>5. ASSUME code \in {42, 54} PROVE OK(sided) /\ sided \in DataArea
  <2> HIDE DEF down, code
  <2> DEFINE x == ShiftSide[code]
             s == IF down THEN d.shift \cup {x} ELSE d.shift \ {x}
             e == [d EXCEPT !.shift = s]
  <2>1. x \in {"lshift", "rshift"}
    BY <1>4, <1>5
  <2> HIDE DEF x
  <2>2. s \in SUBSET Shifts /\ ("ctrl" \in s <=> "ctrl" \in d.shift) /\ ("alt" \in s <=> "alt" \in d.shift)
    BY <1>0, <2>1 DEF DataArea, Shifts
  <2>3. sided = e
    BY DEF x
  <2> HIDE DEF s
  <2>4. e \in DataArea /\ e.shift = s /\ e.flags = d.flags /\ e.state = d.state
    BY <1>0, <2>2 DEF DataArea
  <2> HIDE DEF e
  <2>5. /\ "ctrl" \in e.shift <=> "ctrl" \in d.shift
        /\ "alt" \in e.shift <=> "alt" \in d.shift
        /\ "caps" \in e.flags <=> "caps" \in d.flags
        /\ "e1" \notin e.state
    BY <2>2, <2>4
  <2>6. code # 29 /\ code # 56 /\ code # 58
    BY <1>5
  <2>7. OK(e)
    BY <2>5, <2>6 DEF Obeys
  <2> QED
    BY <2>3, <2>4, <2>7
<1>6. ASSUME NEW key \in {"caps", "num", "scroll"} PROVE toggled(key) \in DataArea
  <2> HIDE DEF down
  <2>1. Kept(d, toggled(key))
    BY <1>1, FlagsKept DEF Flags, Shifts
  <2> QED
    BY <2>1 DEF Kept
<1>7. /\ code = 58 => OK(toggled("caps"))
      /\ code = 69 => OK(toggled("num"))
      /\ code = 70 => OK(toggled("scroll"))
  <2> HIDE DEF down, code, toggled
  <2> QED
    BY <1>0, <1>1, ToggledObeys DEF toggled
<1>8. /\ Modifier(d, down, "ctrl", "rctrl", "lctrl") \in DataArea
      /\ Modifier(d, down, "alt", "ralt", "lalt") \in DataArea
  <2> HIDE DEF down
  <2> QED
    BY <1>1, ModifierKept DEF Kept
<1>9. CASE byte = 0
  <2>1. f = d
    BY <1>1, <1>4, <1>9 DEF int09_function
  <2> QED
    BY <1>1, <1>3, <1>9, <2>1 DEF Watched
<1>10. CASE byte # 0 /\ code = 58
  <2>1. f = Forget(toggled("caps"), code)
    BY <1>4, <1>10 DEF int09_function
  <2> HIDE DEF code, down, toggled, f
  <2>2. OK(toggled("caps")) /\ toggled("caps") \in DataArea
    BY <1>6, <1>7, <1>10
  <2>3. OK(Forget(toggled("caps"), code))
    BY <1>2, <2>2
  <2> QED
    BY <2>1, <2>3 DEF code, down, f
<1>11. CASE byte # 0 /\ code \in {42, 54}
  <2>1. f = Forget(sided, code)
    BY <1>4, <1>11 DEF int09_function
  <2> HIDE DEF code, down, sided, f
  <2>2. OK(Forget(sided, code))
    BY <1>2, <1>5, <1>11
  <2> QED
    BY <2>1, <2>2 DEF code, down, f
<1>12. CASE byte # 0 /\ code = 29
  <2>1. f = Forget(Modifier(d, down, "ctrl", "rctrl", "lctrl"), code)
    BY <1>4, <1>12 DEF int09_function
  <2> HIDE DEF code, down, f
  <2>2. OK(Modifier(d, down, "ctrl", "rctrl", "lctrl"))
    BY <1>0, <1>1, <1>12, ModifierObeys
  <2>3. OK(Forget(Modifier(d, down, "ctrl", "rctrl", "lctrl"), code))
    BY <1>2, <1>8, <2>2
  <2> QED
    BY <2>1, <2>3 DEF code, down, f
<1>13. CASE byte # 0 /\ code = 56
  <2>1. f = Forget(Modifier(d, down, "alt", "ralt", "lalt"), code)
    BY <1>4, <1>13 DEF int09_function
  <2> HIDE DEF code, down, f
  <2>2. OK(Modifier(d, down, "alt", "ralt", "lalt"))
    BY <1>0, <1>1, <1>13, ModifierObeys
  <2>3. OK(Forget(Modifier(d, down, "alt", "ralt", "lalt"), code))
    BY <1>2, <1>8, <2>2
  <2> QED
    BY <2>1, <2>3 DEF code, down, f
<1>14. CASE byte # 0 /\ code = 69
  <2>1. f = Forget(IF numlock THEN toggled("num") ELSE d, code)
    BY <1>4, <1>14 DEF int09_function
  <2> HIDE DEF code, down, toggled, numlock, f
  <2>2. OK(Forget(toggled("num"), code)) /\ OK(Forget(d, code))
    BY <1>0, <1>2, <1>3, <1>6, <1>7, <1>14 DEF Watched
  <2> QED
    BY <2>1, <2>2 DEF code, down, f
<1>15. CASE byte # 0 /\ code = 70
  <2>1. f = Forget(IF ~break THEN toggled("scroll") ELSE IF down THEN CtrlBreak(d) ELSE d, code)
    BY <1>4, <1>15 DEF int09_function
  <2> HIDE DEF code, down, toggled, break, f
  <2>2. OK(Forget(toggled("scroll"), code)) /\ OK(Forget(d, code))
    BY <1>0, <1>2, <1>3, <1>6, <1>7, <1>15 DEF Watched
  <2>3. CtrlBreak(d) \in DataArea /\ OK(CtrlBreak(d))
    <3> DEFINE s == d.state \ {"e0"}
               c == [d EXCEPT !.state = s, !.brk = TRUE, !.tail = d.head]
    <3>1. s \in SUBSET States /\ "e1" \notin s
      BY <1>0 DEF DataArea
    <3>2. CtrlBreak(d) = Enqueue(c, BreakKey)
      BY DEF CtrlBreak
    <3> HIDE DEF s
    <3>3. c \in DataArea /\ c.shift = d.shift /\ c.flags = d.flags /\ c.state = s
      BY <1>0, <3>1 DEF DataArea
    <3> HIDE DEF c
    <3>4. CtrlBreak(d).shift = d.shift /\ CtrlBreak(d).flags = d.flags /\ CtrlBreak(d).state = s
      BY <3>2, <3>3, EnqueueObeys
    <3>5. CtrlBreak(d) \in DataArea
      BY CtrlBreakRing DEF Broken
    <3> QED
      BY <1>15, <3>1, <3>4, <3>5 DEF Obeys
  <2>4. OK(Forget(CtrlBreak(d), code))
    BY <1>2, <2>3
  <2> QED
    BY <2>1, <2>2, <2>4 DEF code, down, f
<1>16. CASE byte # 0 /\ code \notin {58, 42, 54, 29, 56, 69, 70}
  <2>1. f = IF down THEN Ordinary(d, code) ELSE Forget(d, code)
    BY <1>4, <1>16 DEF int09_function
  <2>2. OK(d)
    BY <1>3, <1>16 DEF Watched
  <2> DEFINE e == Enqueue(d, <<code, col>>)
  <2>3. Ordinary(d, code) = d \/ Ordinary(d, code) = Forget(e, code)
    BY DEF Ordinary
  <2>4. e \in DataArea
    <3>1. <<code, col>> \in Keystroke
      BY <1>1 DEF Keystroke, Column, Columns
    <3> QED
      BY <1>0, <3>1, EnqueueRing
  <2> HIDE DEF code, down, f
  <2>5. OK(e)
    <3>1. e.shift = d.shift /\ e.flags = d.flags /\ e.state = d.state
      BY <1>0, EnqueueObeys
    <3> HIDE DEF e
    <3> QED
      BY <2>2, <3>1 DEF Obeys
  <2> HIDE DEF e
  <2>6. OK(Forget(d, code)) /\ OK(Forget(e, code))
    BY <1>0, <1>2, <2>2, <2>4, <2>5
  <2> QED
    BY <2>1, <2>2, <2>3, <2>6 DEF code, down, f
<1> QED
  BY <1>9, <1>10, <1>11, <1>12, <1>13, <1>14, <1>15, <1>16

LEMMA ByteObeyed ==
  ASSUME NEW d, Known(d), "e1" \notin d.state, NEW byte \in Octet, byte # 225, NEW C \in Watched
  PROVE  /\ "e1" \notin AfterByte(d, byte).state
         /\ C \in Flagged(AfterByte(d, byte)) <=> IF byte % 128 = C THEN byte < 128 ELSE C \in Flagged(d)
<1> DEFINE e == AfterByte(d, byte)
<1>1. Obeys(d, e, byte % 128, byte < 128)
  <2>1. CASE byte = 224
    <3> DEFINE s == d.state \cup {"e0"}
    <3>1. byte \in DOMAIN PrefixState /\ PrefixState[byte] = "e0"
      BY <2>1 DEF PrefixState
    <3>2. e = [d EXCEPT !.state = s] /\ "e1" \notin s
      BY <3>1 DEF AfterByte
    <3> HIDE DEF s
    <3>3. e.shift = d.shift /\ e.flags = d.flags /\ e.state = s
      BY <3>2 DEF Known, DataArea
    <3>4. byte % 128 = 96
      BY <2>1
    <3> QED
      BY <3>2, <3>3, <3>4 DEF Obeys
  <2>2. CASE byte # 224
    <3>1. byte \notin DOMAIN PrefixState
      BY <2>2 DEF PrefixState
    <3> QED
      BY <3>1, Int09Obeys DEF AfterByte
  <2> QED
    BY <2>1, <2>2
<1> HIDE DEF e
<1>2. "e1" \notin e.state
  BY <1>1 DEF Obeys
<1>3. ASSUME NEW code, NEW down \in BOOLEAN, Obeys(d, e, code, down)
      PROVE  C \in Flagged(e) <=> IF code = C THEN down ELSE C \in Flagged(d)
  BY <1>3 DEF Obeys, Flagged, Watched
<1>4. C \in Flagged(e) <=> IF byte % 128 = C THEN byte < 128 ELSE C \in Flagged(d)
  <2> DEFINE code == byte % 128
             down == byte < 128
  <2>1. down \in BOOLEAN /\ Obeys(d, e, code, down)
    BY <1>1
  <2> HIDE DEF code, down
  <2>2. C \in Flagged(e) <=> IF code = C THEN down ELSE C \in Flagged(d)
    BY <1>3, <2>1
  <2> QED
    BY <2>2 DEF code, down
<1> QED
  BY <1>2, <1>4 DEF e

----------------------------------------------------------------------------
(* The steps.                                                              *)

LEMMA FollowedOn ==
  ASSUME NEW C, NEW heard, NEW held, NEW rest, NEW q, NEW r, NEW on9, NEW key,
         Followed(C, heard, held, rest, q, on9, key), Quieter(q, r, C, held)
  PROVE  Followed(C, heard, held, rest, r, on9, key)
BY DEF Followed, Quieter

\* The keyboard keeps a byte back for later, or has sent it.
LEMMA RestFollowed ==
  ASSUME NEW C, NEW heard, NEW held, NEW rest, NEW q, NEW on9, NEW key, rest # <<>>, Says(rest[1], C, held),
         rest[1] % 128 # C => Followed(C, heard, held, <<>>, q, on9, key)
  PROVE  Followed(C, heard, held, rest, q, on9, key)
BY DEF Followed

LEMMA CodeFollowed ==
  ASSUME NEW C, NEW heard, NEW held, NEW q \in Seq(Wire), NEW on9, NEW key, NEW b \in Octet,
         Says(b, C, held), b % 128 # C => Followed(C, heard, held, <<>>, q, on9, key)
  PROVE  Followed(C, heard, held, <<>>, Append(q, Byte(b, "code")), on9, key)
<1> DEFINE w == Byte(b, "code")
<1>1. w \in Wire /\ w.tag = "code" /\ w.b = b
  BY DEF Byte, Wire
<1> HIDE DEF w
<1>2. CASE b % 128 = C
  <2>1. Speaks(w, C) /\ Says(w.b, C, held)
    BY <1>1, <1>2 DEF Speaks
  <2>2. LastSays(Append(q, w), C, held) /\ ~Silent(Append(q, w), C)
    BY <1>1, <2>1, AppendSpeaks
  <2> QED
    BY <2>2 DEF Followed, w
<1>3. CASE b % 128 # C
  <2>1. ~Speaks(w, C)
    BY <1>1, <1>3 DEF Speaks
  <2>2. Quieter(q, Append(q, w), C, held)
    BY <1>1, <2>1, AppendQuieter
  <2>3. Followed(C, heard, held, <<>>, Append(q, w), on9, key)
    BY <1>3, <2>2, FollowedOn
  <2> QED
    BY <2>3 DEF w
<1> QED
  BY <1>2, <1>3

LEMMA CodeUnescaped ==
  ASSUME NEW q \in Seq(Wire), Unescaped(q), NEW b \in Octet, b # 225
  PROVE  Unescaped(Append(q, Byte(b, "code")))
<1> DEFINE w == Byte(b, "code")
           r == Append(q, w)
           n == Len(q)
<1>1. w \in Wire /\ w.b = b
  BY DEF Byte, Wire
<1> HIDE DEF w
<1>2. /\ n \in Nat /\ DOMAIN q = 1 .. n /\ DOMAIN r = 1 .. n + 1
      /\ (\A i \in 1 .. n : r[i] = q[i]) /\ r[n + 1] = w
  BY <1>1, AppendAt
<1> HIDE DEF r, n
<1>3. Unescaped(r)
  BY <1>1, <1>2 DEF Unescaped
<1> QED
  BY <1>3 DEF r, w

LEMMA PairOf ==
  ASSUME NEW S, NEW x \in S, NEW y \in S
  PROVE  /\ Head(<<x>> \o <<y>>) = x /\ Tail(<<x>> \o <<y>>) # <<>>
         /\ Tail(<<x>> \o <<y>>)[1] = y /\ Tail(Tail(<<x>> \o <<y>>)) = <<>>
<1> DEFINE p == <<x>>
           a == <<y>>
           q == p \o a
           r == Tail(q)
           t == Tail(r)
<1>1. p \in Seq(S) /\ a \in Seq(S) /\ Len(p) = 1 /\ Len(a) = 1 /\ p[1] = x /\ a[1] = y
  OBVIOUS
<1> HIDE DEF p, a
<1>2. /\ q \in Seq(S) /\ Len(q) = Len(p) + Len(a)
      /\ \A i \in 1 .. Len(p) : q[i] = p[i]
      /\ \A i \in 1 .. Len(a) : q[Len(p) + i] = a[i]
  <2>1. p \in Seq(S) /\ a \in Seq(S)
    BY <1>1
  <2> QED
    BY <2>1, ConcatAt
<1>3. Len(q) = 2 /\ q[1] = x /\ q[2] = y
  BY <1>1, <1>2
<1> HIDE DEF q
<1>4. q # <<>>
  BY <1>3
<1>5. /\ q[1] = Head(q) /\ r \in Seq(S) /\ Len(r) = Len(q) - 1
      /\ \A i \in 1 .. Len(q) - 1 : r[i] = q[i + 1]
  BY <1>2, <1>4, TailAt
<1>6. Len(r) = 1 /\ r[1] = y
  BY <1>3, <1>5
<1> HIDE DEF r
<1>7. r # <<>>
  BY <1>6
<1>8. t \in Seq(S) /\ Len(t) = Len(r) - 1
  BY <1>5, <1>7, TailAt
<1> HIDE DEF t
<1>9. t = <<>>
  BY <1>6, <1>8, EmptySeq
<1> QED
  BY <1>3, <1>5, <1>6, <1>7, <1>9 DEF p, a, q, r, t

\* The bytes of a key: the prefix of an extended one, and its code.
LEMMA BytesOfKey ==
  ASSUME OrdinaryKeys, NEW k \in Keys, NEW up \in BOOLEAN
  PROVE  \E b \in Octet :
           /\ b % 128 = k[1] /\ (b < 128 <=> ~up) /\ b # 225
           /\ \/ Head(KeyBytes(k, up)) = b /\ Tail(KeyBytes(k, up)) = <<>>
              \/ /\ Head(KeyBytes(k, up)) = 224
                 /\ Tail(KeyBytes(k, up)) # <<>> /\ Tail(KeyBytes(k, up))[1] = b
                 /\ Tail(Tail(KeyBytes(k, up))) = <<>>
<1> DEFINE b == k[1] + (IF up THEN 128 ELSE 0)
<1>1. k[1] \in 1 .. 127 /\ k[1] # 97
  BY InputAssumption DEF OrdinaryKeys
<1>2. b \in Octet /\ b % 128 = k[1] /\ (b < 128 <=> ~up) /\ b # 225
  BY <1>1 DEF Octet
<1>3. KeyBytes(k, up) = (IF k[2] THEN <<224>> ELSE <<>>) \o <<b>>
  BY DEF KeyBytes, Prefix
<1> HIDE DEF b
<1>4. CASE k[2]
  <2>1. KeyBytes(k, up) = <<224>> \o <<b>>
    BY <1>3, <1>4
  <2>2. 224 \in Octet
    BY DEF Octet
  <2>3. /\ Head(<<224>> \o <<b>>) = 224 /\ Tail(<<224>> \o <<b>>) # <<>>
        /\ Tail(<<224>> \o <<b>>)[1] = b /\ Tail(Tail(<<224>> \o <<b>>)) = <<>>
    BY <1>2, <2>2, PairOf
  <2> QED
    BY <1>2, <2>1, <2>3
<1>5. CASE ~k[2]
  <2>1. KeyBytes(k, up) = <<b>>
    BY <1>3, <1>5
  <2>2. Head(<<b>>) = b /\ Tail(<<b>>) = <<>>
    OBVIOUS
  <2> QED
    BY <1>2, <2>1, <2>2
<1> QED
  BY <1>4, <1>5

\* Pressing or releasing a key is nothing to another one's code.
LEMMA HeldChanges ==
  ASSUME OrdinaryKeys, NEW held \in SUBSET Keys, NEW k \in Keys, NEW C \in Watched
  PROVE  LET up == k \in held
             now == IF up THEN held \ {k} ELSE held \cup {k}
         IN  C \in {m[1] : m \in now} <=> IF k[1] = C THEN ~up ELSE C \in {m[1] : m \in held}
<1>1. \A m \in Keys : m[1] = C /\ k[1] = C => m = k
  BY DEF OrdinaryKeys
<1> QED
  BY <1>1

LEMMA CodeAppended ==
  ASSUME TypeInv, NEW b \in Octet, Write(PutKey(ctl, Byte(b, "code")))
  PROVE  ctl'.kq = Append(ctl.kq, Byte(b, "code"))
<1>1. Byte(b, "code") \in Wire
  BY DEF Byte, Wire
<1>2. PutKey(ctl, Byte(b, "code")).kq = Append(ctl.kq, Byte(b, "code"))
  BY <1>1, Shape, PutKeeps
<1> QED
  BY <1>2 DEF Write

\* A key is pressed or released.
LEMMA KeyPressed ==
  ASSUME OrdinaryKeys, TypeInv, Settling, UNCHANGED <<bda, cpu>>, kbd.rest = <<>>,
         NEW k \in Keys, NEW up \in BOOLEAN, up <=> k \in kbd.held,
         NEW now, now = IF up THEN kbd.held \ {k} ELSE kbd.held \cup {k},
         NEW first, first = Head(KeyBytes(k, up)), NEW rest, rest = Tail(KeyBytes(k, up)),
         Write(PutKey(ctl, Byte(first, "code"))), kbd' = [kbd EXCEPT !.rest = rest, !.held = now],
         hist'.first = hist.first
  PROVE  Settling'
<1> DEFINE heard == Flagged(bda)
           q == ctl.kq
           codes == {m[1] : m \in now}
<1>2. ASSUME NEW C \in Watched PROVE C \in codes <=> IF k[1] = C THEN ~up ELSE C \in HeldCodes
  <2>1. kbd.held \in SUBSET Keys
    BY DEF TypeInv
  <2> QED
    BY <2>1, HeldChanges DEF HeldCodes
<1>1. q \in Seq(Wire)
  BY Shape
<1> PICK b \in Octet :
         /\ b % 128 = k[1] /\ (b < 128 <=> ~up) /\ b # 225
         /\ \/ first = b /\ rest = <<>>
            \/ first = 224 /\ rest # <<>> /\ rest[1] = b /\ Tail(rest) = <<>>
  BY BytesOfKey
<1>4. kbd'.rest = rest /\ HeldCodes' = codes
  <2>1. kbd \in [held : SUBSET Keys, rest : Seq(Octet)]
    BY DEF TypeInv
  <2>2. kbd'.rest = rest /\ kbd'.held = now
    BY <2>1
  <2> QED
    BY <2>2 DEF HeldCodes
<1> HIDE DEF codes
<1>5. first \in Octet /\ first # 225
  BY DEF Octet
<1>6. ctl'.kq = Append(q, Byte(first, "code"))
  BY <1>5, CodeAppended
<1>7. ASSUME Undisturbed' PROVE Undisturbed
  BY <1>7 DEF Undisturbed
<1>8. ASSUME NEW C \in Watched PROVE Says(b, C, codes)
  <2>1. b % 128 = C => (C \in codes <=> ~up)
    BY <1>2, <1>8
  <2> QED
    BY <2>1 DEF Says
<1>9. ASSUME Undisturbed, NEW C \in Watched, k[1] # C
      PROVE  Followed(C, heard, codes, <<>>, q, cpu.on9, cpu.key)
  <2>1. Followed(C, heard, HeldCodes, <<>>, q, cpu.on9, cpu.key)
    BY <1>9 DEF Settling
  <2>2. C \in codes <=> C \in HeldCodes
    BY <1>2, <1>9
  <2>3. \A x : Says(x, C, codes) <=> Says(x, C, HeldCodes)
    BY <2>2 DEF Says
  <2>4. LastSays(q, C, codes) <=> LastSays(q, C, HeldCodes)
    BY <2>3 DEF LastSays
  <2> QED
    BY <2>1, <2>2, <2>3, <2>4 DEF Followed
<1>10. ASSUME Undisturbed, NEW C \in Watched
       PROVE  Followed(C, heard, codes, rest, Append(q, Byte(first, "code")), cpu.on9, cpu.key)
  <2>1. CASE first = b /\ rest = <<>>
    <3>1. b % 128 # C => Followed(C, heard, codes, <<>>, q, cpu.on9, cpu.key)
      BY <1>9, <1>10
    <3>2. Followed(C, heard, codes, <<>>, Append(q, Byte(b, "code")), cpu.on9, cpu.key)
      BY <1>1, <1>8, <1>10, <3>1, CodeFollowed
    <3> QED
      BY <2>1, <3>2
  <2>2. CASE first = 224 /\ rest # <<>> /\ rest[1] = b /\ Tail(rest) = <<>>
    <3>1. 224 \in Octet /\ 224 % 128 # C /\ Says(224, C, codes)
      BY DEF Octet, Says, Watched
    <3>2. b % 128 # C => Followed(C, heard, codes, <<>>, Append(q, Byte(224, "code")), cpu.on9, cpu.key)
      BY <1>1, <1>9, <1>10, <3>1, CodeFollowed
    <3>3. Says(rest[1], C, codes)
      BY <1>8, <1>10, <2>2
    <3>4. rest[1] % 128 # C => Followed(C, heard, codes, <<>>, Append(q, Byte(224, "code")), cpu.on9, cpu.key)
      BY <2>2, <3>2
    <3>5. Followed(C, heard, codes, rest, Append(q, Byte(224, "code")), cpu.on9, cpu.key)
      BY <2>2, <3>3, <3>4 DEF Followed
    <3> QED
      BY <2>2, <3>5
  <2> QED
    BY <2>1, <2>2
<1>11. ASSUME Undisturbed'
       PROVE  /\ Unescaped(ctl'.kq) /\ (cpu'.on9 = "work" => cpu'.key # 225) /\ "e1" \notin bda'.state
              /\ \A C \in Watched :
                   Followed(C, heard, codes, rest, Append(q, Byte(first, "code")), cpu.on9, cpu.key)
  <2>1. Unescaped(Append(q, Byte(first, "code")))
    BY <1>1, <1>5, <1>7, <1>11, CodeUnescaped DEF Settling
  <2> QED
    BY <1>6, <1>7, <1>10, <1>11, <2>1 DEF Settling
<1>12. rest # <<>> => Tail(rest) = <<>> /\ rest[1] # 225
  OBVIOUS
<1>13. Undisturbed' =>
         \A C \in Watched :
           Followed(C, Flagged(bda)', HeldCodes', kbd'.rest, ctl'.kq, cpu'.on9, cpu'.key)
  BY <1>4, <1>6, <1>11
<1> QED
  BY <1>4, <1>11, <1>12, <1>13 DEF Settling

LEMMA SendKeySettles == OrdinaryKeys /\ TypeInv /\ Settling /\ SendKey => Settling'
<1> SUFFICES ASSUME OrdinaryKeys, TypeInv, Settling, SendKey PROVE Settling'
  OBVIOUS
<1> DEFINE heard == Flagged(bda)
           q == ctl.kq
<1>1. UNCHANGED <<bda, cpu>> /\ q \in Seq(Wire) /\ hist \in History
  BY Shape DEF SendKey
<1> HIDE DEF q
<1>3. CASE /\ kbd.rest # <<>>
           /\ Write(PutKey(ctl, Byte(Head(kbd.rest), "code")))
           /\ kbd' = [kbd EXCEPT !.rest = Tail(@)]
           /\ UNCHANGED hist
  <2> DEFINE b == Head(kbd.rest)
             rest == Tail(kbd.rest)
  <2>1. b \in Octet /\ kbd.rest[1] = b
    <3>1. kbd.rest \in Seq(Octet)
      BY DEF TypeInv
    <3> QED
      BY <1>3, <3>1, TailAt, HeadTailProperties
  <2>2. rest = <<>> /\ b # 225
    BY <1>3, <2>1 DEF Settling
  <2>3. kbd'.rest = <<>> /\ HeldCodes' = HeldCodes
    <3>1. kbd' = [kbd EXCEPT !.rest = <<>>]
      BY <1>3, <2>2
    <3>2. kbd'.rest = <<>> /\ kbd'.held = kbd.held
      BY <3>1 DEF TypeInv
    <3> QED
      BY <3>2 DEF HeldCodes
  <2>4. ctl'.kq = Append(q, Byte(b, "code"))
    BY <1>3, <2>1, CodeAppended DEF q
  <2> HIDE DEF b, rest
  <2>5. ASSUME Undisturbed'
        PROVE  /\ Unescaped(ctl'.kq) /\ (cpu'.on9 = "work" => cpu'.key # 225) /\ "e1" \notin bda'.state
               /\ \A C \in Watched :
                    Followed(C, heard, HeldCodes, <<>>, Append(q, Byte(b, "code")), cpu.on9, cpu.key)
    <3>1. Undisturbed
      BY <1>3, <2>5 DEF Undisturbed
    <3>2. Unescaped(Append(q, Byte(b, "code")))
      BY <1>1, <2>1, <2>2, <3>1, CodeUnescaped DEF Settling, q
    <3>3. ASSUME NEW C \in Watched
          PROVE  Followed(C, heard, HeldCodes, <<>>, Append(q, Byte(b, "code")), cpu.on9, cpu.key)
      <4>1. Followed(C, heard, HeldCodes, kbd.rest, q, cpu.on9, cpu.key)
        BY <3>1 DEF Settling, q
      <4>2. Says(b, C, HeldCodes) /\ (b % 128 # C => Followed(C, heard, HeldCodes, <<>>, q, cpu.on9, cpu.key))
        BY <1>3, <2>1, <4>1 DEF Followed
      <4> QED
        BY <1>1, <2>1, <4>2, CodeFollowed
    <3> QED
      BY <1>1, <2>4, <3>1, <3>2, <3>3 DEF Settling
  <2> QED
    BY <1>1, <2>3, <2>4, <2>5 DEF Settling
<1>4. CASE /\ kbd.rest = <<>> /\ hist.keys < MaxKeys
           /\ \E k \in Keys : LET up == k \in kbd.held IN
                /\ Write(PutKey(ctl, Byte(Head(KeyBytes(k, up)), "code")))
                /\ kbd' = [kbd EXCEPT !.rest = Tail(KeyBytes(k, up)),
                                      !.held = IF up THEN @ \ {k} ELSE @ \cup {k}]
                /\ hist' = [hist EXCEPT !.keys = @ + 1]
  <2>0. PICK k \in Keys : LET up == k \in kbd.held IN
                /\ Write(PutKey(ctl, Byte(Head(KeyBytes(k, up)), "code")))
                /\ kbd' = [kbd EXCEPT !.rest = Tail(KeyBytes(k, up)),
                                      !.held = IF up THEN @ \ {k} ELSE @ \cup {k}]
                /\ hist' = [hist EXCEPT !.keys = @ + 1]
    BY <1>4
  <2> DEFINE up == k \in kbd.held
             first == Head(KeyBytes(k, up))
             rest == Tail(KeyBytes(k, up))
             now == IF up THEN kbd.held \ {k} ELSE kbd.held \cup {k}
  <2>1. /\ Write(PutKey(ctl, Byte(first, "code"))) /\ kbd' = [kbd EXCEPT !.rest = rest, !.held = now]
        /\ hist' = [hist EXCEPT !.keys = @ + 1]
    BY <2>0
  <2>2. hist'.first = hist.first
    BY <1>1, <2>1 DEF History
  <2>3. up \in BOOLEAN /\ (up <=> k \in kbd.held)
    OBVIOUS
  <2>4. now = IF up THEN kbd.held \ {k} ELSE kbd.held \cup {k}
    OBVIOUS
  <2> HIDE DEF up
  <2>5. first = Head(KeyBytes(k, up)) /\ rest = Tail(KeyBytes(k, up))
    OBVIOUS
  <2> HIDE DEF first, rest, now
  <2> QED
    BY <1>1, <1>4, <2>1, <2>2, <2>3, <2>4, <2>5, KeyPressed
<1> QED
  BY <1>3, <1>4 DEF SendKey

\* INT 09h reads the first byte of the queue: what that said it has in its
\* hands now.
LEMMA ByteInHand ==
  ASSUME NEW C, NEW heard, NEW held, NEW rest, NEW q \in Seq(Wire), q # <<>>, Head(q).tag = "code",
         NEW on9, on9 # "work", NEW key, Followed(C, heard, held, rest, q, on9, key)
  PROVE  Followed(C, heard, held, rest, Tail(q), "work", Head(q).b)
<1> DEFINE h == Head(q)
           r == Tail(q)
<1>1. /\ LastSays(q, C, held) => LastSays(r, C, held)
      /\ ~Speaks(h, C) /\ Silent(r, C) => Silent(q, C)
      /\ LastSays(q, C, held) /\ Speaks(h, C) /\ Silent(r, C) => Says(h.b, C, held)
  BY TailSpeaks
<1> HIDE DEF h, r
<1>2. Speaks(h, C) <=> h.b % 128 = C
  BY DEF Speaks, h
<1>3. h.b % 128 # C => Says(h.b, C, held)
  BY DEF Says
<1>4. Followed(C, heard, held, rest, r, "work", h.b)
  BY <1>1, <1>2, <1>3 DEF Followed
<1> QED
  BY <1>4 DEF h, r

LEMMA Int09ReadSettles == IInv /\ Wires /\ Settling /\ Int09Read => Settling'
<1> SUFFICES ASSUME IInv, Wires, Settling, Int09Read PROVE Settling'
  OBVIOUS
<1> DEFINE d == [ctl EXCEPT !.keyOff = TRUE]
           q == ctl.kq
           h == Head(q)
           who == IF Shown(ctl).tag = "key" THEN "identity" ELSE "int09"
<1>0. TypeInv /\ Requests
  BY DEF IInv
<1>1. /\ ctl' = Taken(d) /\ cpu' = [cpu EXCEPT !.on9 = "work", !.key = Shown(ctl).b]
      /\ hist' = Reading(who, "code") /\ UNCHANGED <<kbd, bda>>
  BY DEF Int09Read
<1>2. ctl.out = "key" /\ cpu.on9 # "work"
  BY <1>0 DEF Int09Read, Requests, Open
<1>3. q \in Seq(Wire) /\ q # <<>> /\ Shown(ctl) = h
  BY <1>0, <1>2, Shape DEF Shown, Wired, Showing
<1>4. ctl'.kq = Tail(q)
  <2>1. Wired(d) /\ d.kq = q /\ d.out = "key"
    BY <1>0, <1>2, Shape DEF Wired, Controller, Showing
  <2> HIDE DEF d
  <2> QED
    BY <1>1, <2>1, TakenKeeps
<1>5. cpu'.on9 = "work" /\ cpu'.key = h.b
  BY <1>0, <1>1, <1>3, Shape DEF Processor
<1>6. Undisturbed' => Undisturbed /\ h.tag = "code"
  <2>1. who \in Readers
    BY DEF Readers
  <2> HIDE DEF who
  <2>2. hist'.first = "none" => hist.first = "none" /\ Shown(ctl).tag = "code"
    BY <1>0, <1>1, <2>1, ReadingKeeps
  <2> QED
    BY <1>3, <2>2 DEF Undisturbed
<1> HIDE DEF h, q, d, who
<1>7. HeldCodes' = HeldCodes
  BY <1>1 DEF HeldCodes
<1>8. ASSUME Undisturbed'
      PROVE  /\ Unescaped(Tail(q)) /\ h.b # 225 /\ "e1" \notin bda.state
             /\ \A C \in Watched : Followed(C, Flagged(bda), HeldCodes, kbd.rest, Tail(q), "work", h.b)
  <2>1. Undisturbed /\ h.tag = "code"
    BY <1>6, <1>8
  <2>2. Unescaped(q) /\ "e1" \notin bda.state
    BY <2>1 DEF Settling, q
  <2>3. Unescaped(Tail(q)) /\ h.b # 225
    BY <1>3, <2>1, <2>2, TailUnescaped DEF h
  <2>4. ASSUME NEW C \in Watched
        PROVE  Followed(C, Flagged(bda), HeldCodes, kbd.rest, Tail(q), "work", h.b)
    <3>1. Followed(C, Flagged(bda), HeldCodes, kbd.rest, q, cpu.on9, cpu.key)
      BY <2>1 DEF Settling, q
    <3> QED
      BY <1>2, <1>3, <2>1, <3>1, ByteInHand DEF h
  <2> QED
    BY <2>2, <2>3, <2>4
<1> QED
  BY <1>1, <1>4, <1>5, <1>7, <1>8 DEF Settling

\* Its work makes of the flag what the byte said.
LEMMA ByteDone ==
  ASSUME NEW C, NEW heard, NEW now, NEW held, NEW rest, NEW q, NEW key, NEW last,
         C \in now <=> IF key % 128 = C THEN key < 128 ELSE C \in heard,
         Followed(C, heard, held, rest, q, "work", key)
  PROVE  Followed(C, now, held, rest, q, "off", last)
<1>1. CASE key % 128 = C
  <2>1. C \in now <=> key < 128
    BY <1>1
  <2>2. Says(key, C, held) => (C \in now <=> C \in held)
    BY <1>1, <2>1 DEF Says
  <2> QED
    BY <2>2 DEF Followed
<1>2. CASE key % 128 # C
  <2>1. C \in now <=> C \in heard
    BY <1>2
  <2> QED
    BY <1>2, <2>1 DEF Followed
<1> QED
  BY <1>1, <1>2

LEMMA Int09WorkSettles == TypeInv /\ Settling /\ Int09Work => Settling'
<1> SUFFICES ASSUME TypeInv, Settling, Int09Work PROVE Settling'
  OBVIOUS
<1> DEFINE e == AfterByte(bda, cpu.key)
<1>1. /\ ctl' = [ctl EXCEPT !.keyOff = FALSE] /\ cpu' = [cpu EXCEPT !.on9 = "off", !.key = 0]
      /\ cpu.on9 = "work" /\ UNCHANGED kbd /\ \E q : hist' = [hist EXCEPT !.queue = q]
  BY DEF Int09Work
<1>2. bda' = e
  BY DEF Int09Work, AfterByte
<1>3. hist'.first = hist.first
  BY <1>1, Shape DEF History
<1>4. ctl'.kq = ctl.kq /\ cpu'.on9 = "off" /\ cpu'.key = 0
  BY <1>1, Shape DEF Controller, Processor
<1>5. Known(bda) /\ cpu.key \in Octet
  BY Shape DEF TypeInv, Processor
<1>6. HeldCodes' = HeldCodes
  BY <1>1 DEF HeldCodes
<1> HIDE DEF e
<1>7. ASSUME Undisturbed'
      PROVE  /\ Unescaped(ctl.kq) /\ "e1" \notin e.state
             /\ \A C \in Watched : Followed(C, Flagged(e), HeldCodes, kbd.rest, ctl.kq, "off", 0)
  <2>1. Undisturbed
    BY <1>3, <1>7 DEF Undisturbed
  <2>2. Unescaped(ctl.kq) /\ cpu.key # 225 /\ "e1" \notin bda.state
    BY <1>1, <2>1 DEF Settling
  <2>3. ASSUME NEW C \in Watched
        PROVE  /\ "e1" \notin e.state
               /\ Followed(C, Flagged(e), HeldCodes, kbd.rest, ctl.kq, "off", 0)
    <3>1. Followed(C, Flagged(bda), HeldCodes, kbd.rest, ctl.kq, "work", cpu.key)
      BY <1>1, <2>1 DEF Settling
    <3>2. /\ "e1" \notin e.state
          /\ C \in Flagged(e) <=> IF cpu.key % 128 = C THEN cpu.key < 128 ELSE C \in Flagged(bda)
      BY <1>5, <2>2, ByteObeyed DEF e
    <3> QED
      BY <3>1, <3>2, ByteDone
  <2> QED
    BY <2>2, <2>3 DEF Watched
<1> QED
  BY <1>1, <1>2, <1>4, <1>6, <1>7 DEF Settling

\* The other steps: nothing is said of a key, and no flag changes.
SameHands == cpu'.on9 = cpu.on9 /\ cpu'.key = cpu.key
SameFlags == bda'.shift = bda.shift /\ bda'.flags = bda.flags /\ bda'.state = bda.state

LEMMA OtherStep ==
  ASSUME Settling, UNCHANGED kbd, SameHands, SameFlags,
         Undisturbed' => Undisturbed /\ Hushed(ctl.kq, ctl'.kq, HeldCodes)
  PROVE  Settling'
<1>1. HeldCodes' = HeldCodes
  BY DEF HeldCodes
<1>2. Flagged(bda)' = Flagged(bda)
  BY DEF Flagged, SameFlags
<1>3. ASSUME Undisturbed'
      PROVE  /\ Unescaped(ctl'.kq) /\ (cpu.on9 = "work" => cpu.key # 225) /\ "e1" \notin bda.state
             /\ \A C \in Watched :
                  Followed(C, Flagged(bda), HeldCodes, kbd.rest, ctl'.kq, cpu.on9, cpu.key)
  <2>1. Undisturbed /\ Hushed(ctl.kq, ctl'.kq, HeldCodes)
    BY <1>3
  <2>2. /\ Unescaped(ctl.kq) /\ (cpu.on9 = "work" => cpu.key # 225) /\ "e1" \notin bda.state
        /\ \A C \in Watched :
             Followed(C, Flagged(bda), HeldCodes, kbd.rest, ctl.kq, cpu.on9, cpu.key)
    BY <2>1 DEF Settling
  <2> QED
    BY <2>1, <2>2, FollowedOn DEF Hushed
<1> QED
  BY <1>1, <1>2, <1>3 DEF Settling, SameHands, SameFlags

\* A byte is read that is no code: by its reader, while nothing is disturbed.
LEMMA ReadHushed ==
  ASSUME TypeInv, Wires, OutputFull(ctl), NEW who \in Readers, NEW tag, tag # "code",
         hist'.first = Reading(who, tag).first, Undisturbed'
  PROVE  Undisturbed /\ Hushed(ctl.kq, Taken(ctl).kq, HeldCodes)
<1> DEFINE w == Shown(ctl)
           q == ctl.kq
<1>1. hist.first = "none" /\ w.tag = tag
  <2> DEFINE did == w.tag # tag
  <2>1. Disturb(hist, who, did).first = "none"
    BY DEF Reading, Undisturbed
  <2> HIDE DEF did
  <2>2. hist.first = "none" /\ ~did
    BY <2>1, Shape, Disturbed
  <2> QED
    BY <2>2 DEF did
<1>2. w.tag \in {"code", "key", "reply"} => q # <<>> /\ w = Head(q) /\ Taken(ctl).kq = Tail(q)
  BY Shape, TakenOf DEF OutputFull, Wires
<1>3. w.tag \in {"mouse", "move"} => Taken(ctl).kq = q
  BY Shape, TakenOf DEF OutputFull, Wires
<1>4. w \in Wire /\ q \in Seq(Wire)
  BY Shape, ShownWire DEF OutputFull
<1> HIDE DEF w, q
<1>5. CASE w.tag \in {"mouse", "move"}
  BY <1>1, <1>3, <1>5, SameHushed DEF Undisturbed, q
<1>6. CASE w.tag \in {"key", "reply"}
  <2>1. Hushed(q, Tail(q), HeldCodes)
    BY <1>2, <1>4, <1>6, OtherTaken
  <2> QED
    BY <1>1, <1>2, <1>6, <2>1 DEF Undisturbed, q
<1> QED
  BY <1>1, <1>4, <1>5, <1>6 DEF Wire

\* The two forms of an undisturbed step that sends no code.
LEMMA QuietStep ==
  ASSUME Settling, UNCHANGED kbd, SameHands, SameFlags, hist'.first = "none" => hist.first = "none",
         ctl'.kq = ctl.kq
  PROVE  Settling'
BY OtherStep, SameHushed DEF Undisturbed

LEMMA ReadStep ==
  ASSUME TypeInv, Wires, Settling, UNCHANGED kbd, SameHands, SameFlags, OutputFull(ctl),
         NEW who \in Readers, NEW tag, tag # "code", hist'.first = Reading(who, tag).first,
         ctl'.kq = Taken(ctl).kq
  PROVE  Settling'
BY OtherStep, ReadHushed

LEMMA Hands ==
  ASSUME TypeInv, \/ cpu' = Return \/ cpu' = Next1
                  \/ \E got : cpu' = [Next1 EXCEPT !.got = got]
                  \/ \E prev : cpu' = [Next1 EXCEPT !.prev = prev]
                  \/ \E pc, if : cpu' = [cpu EXCEPT !.pc = pc, !.if = if]
                  \/ \E pc, if, led : cpu' = [cpu EXCEPT !.pc = pc, !.if = if, !.led = led]
                  \/ \E pc, if, sti : cpu' = [cpu EXCEPT !.pc = pc, !.if = if, !.sti = sti]
                  \/ \E pc : cpu' = [cpu EXCEPT !.pc = pc]
                  \/ \E pc, fn : cpu' = [cpu EXCEPT !.pc = pc, !.fn = fn]
                  \/ \E pc, slot : cpu' = [cpu EXCEPT !.pc = pc, !.slot = slot]
                  \/ \E pc, slot, got : cpu' = [cpu EXCEPT !.pc = pc, !.slot = slot, !.got = got]
                  \/ \E pc, fn, if, s : cpu' = [cpu EXCEPT !.pc = pc, !.fn = fn, !.if = if, !.steps = s]
                  \/ \E s : cpu' = [cpu EXCEPT !.steps = s]
                  \/ \E slot : cpu' = [cpu EXCEPT !.slot = slot]
                  \/ \E on74 : cpu' = [cpu EXCEPT !.on74 = on74]
  PROVE  SameHands
BY Shape DEF SameHands, Processor, Return, Next1

LEMMA Flagless ==
  ASSUME TypeInv, \/ bda' = bda \/ \E led : bda' = [bda EXCEPT !.led = led]
                  \/ \E head : bda' = [bda EXCEPT !.head = head]
                  \/ \E buf, tail : bda' = [bda EXCEPT !.buf = buf, !.tail = tail]
  PROVE  SameFlags
BY DEF SameFlags, TypeInv, Known, DataArea

LEMMA FirstKept ==
  ASSUME TypeInv, \/ hist' = hist \/ \E x : hist' = [hist EXCEPT !.calls = x]
                  \/ \E x : hist' = [hist EXCEPT !.moves = x]
                  \/ \E q : hist' = [hist EXCEPT !.queue = q]
                  \/ \E q, r : hist' = [hist EXCEPT !.queue = q, !.raced = r]
                  \/ \E did : hist' = Disturb(hist, "command", did)
                  \/ \E x, did : hist' = Disturb([hist EXCEPT !.calls = x], "command", did)
  PROVE  hist'.first = "none" => hist.first = "none"
BY Shape DEF Disturb, History

LEMMA DevicesSettle == TypeInv /\ Wires /\ Settling /\ (SendMove \/ DeviceAnswers) => Settling'
<1> SUFFICES ASSUME TypeInv, Wires, Settling, SendMove \/ DeviceAnswers PROVE Settling'
  OBVIOUS
<1>1. UNCHANGED <<kbd, bda, cpu>>
  BY DEF SendMove, DeviceAnswers
<1>2. SameHands /\ SameFlags
  BY <1>1 DEF SameHands, SameFlags
<1>3. CASE SendMove
  <2> DEFINE w == Byte(mouse.pos + 1, "move")
  <2>1. ctl' = PutMove(ctl, w) /\ (hist' = hist \/ \E x : hist' = [hist EXCEPT !.moves = x])
    BY <1>3 DEF SendMove, Write
  <2>2. w \in Wire
    <3>1. mouse.pos + 1 \in Octet
      BY Shape, PositionFits
    <3> QED
      BY <3>1 DEF Byte, Wire
  <2> HIDE DEF w
  <2>3. ctl'.kq = ctl.kq
    BY <2>1, <2>2, Shape, PutKeeps
  <2>4. hist'.first = "none" => hist.first = "none"
    BY <2>1, FirstKept
  <2> QED
    BY <1>1, <1>2, <2>3, <2>4, QuietStep
<1>4. CASE DeviceAnswers
  <2> DEFINE told == [ctl EXCEPT !.in.to = "none"]
             to == ctl.in.to
             a == [i \in DOMAIN Answer(to, ctl.in.b) |-> Byte(Answer(to, ctl.in.b)[i], to)]
             Sent(s) == s \o a
  <2>1. told \in Controller /\ told.kq = ctl.kq /\ told.mq = ctl.mq
    <3> DEFINE in == [ctl.in EXCEPT !.to = "none"]
    <3>1. in \in [to : {"none", "key", "mouse"}, b : Octet]
      BY Shape DEF Controller
    <3>2. told = [ctl EXCEPT !.in = in]
      BY Shape DEF Controller
    <3> HIDE DEF in
    <3> QED
      BY <3>1, <3>2, Shape DEF Controller
  <2>2. \/ to = "key" /\ ctl' = Settle([told EXCEPT !.kq = Sent(@)]) /\ hist' = hist
        \/ /\ to = "mouse" /\ ctl' = Settle([told EXCEPT !.mq = Sent(@)])
           /\ \E did : hist' = Disturb(hist, "command", did)
    BY <1>4 DEF DeviceAnswers, Write
  <2>3. to \in {"key", "mouse"} => a \in Seq(Wire) /\ \A i \in DOMAIN a : a[i].tag = to
    BY AnswerBytes
  <2>4. hist'.first = "none" => hist.first = "none"
    BY <2>2, FirstKept
  <2> HIDE DEF told, to, a
  <2>5. CASE to = "key" /\ ctl' = Settle([told EXCEPT !.kq = Sent(@)]) /\ hist' = hist
    <3> DEFINE k == told.kq \o a
               c == [told EXCEPT !.kq = k]
    <3>1. k \in Seq(Wire)
      BY <2>1, <2>3, <2>5, Shape, ConcatAt
    <3>2. ctl' = Settle(c)
      BY <2>5
    <3> HIDE DEF k
    <3>3. c \in Controller /\ c.kq = k
      BY <2>1, <3>1 DEF Controller
    <3> HIDE DEF c
    <3>4. ctl'.kq = ctl.kq \o a
      BY <2>1, <3>2, <3>3, SettleKeeps DEF k
    <3>5. Hushed(ctl.kq, ctl'.kq, HeldCodes)
      BY <2>3, <2>5, <3>4, Shape, OthersAdded
    <3> QED
      BY <1>1, <1>2, <2>4, <3>5, OtherStep DEF Undisturbed
  <2>6. CASE to = "mouse" /\ ctl' = Settle([told EXCEPT !.mq = Sent(@)])
    <3> DEFINE m == told.mq \o a
               c == [told EXCEPT !.mq = m]
    <3>1. m \in Seq(Wire)
      BY <2>1, <2>3, <2>6, Shape, ConcatAt
    <3>2. ctl' = Settle(c)
      BY <2>6
    <3> HIDE DEF m
    <3>3. c \in Controller /\ c.kq = told.kq
      BY <2>1, <3>1 DEF Controller
    <3> HIDE DEF c
    <3>4. ctl'.kq = ctl.kq
      BY <2>1, <3>2, <3>3, SettleKeeps
    <3> QED
      BY <1>1, <1>2, <2>4, <3>4, QuietStep
  <2> QED
    BY <2>2, <2>5, <2>6
<1> QED
  BY <1>3, <1>4

\* The calls and the steps of a handler that leave the 8042 alone.
LEMMA AwayStep ==
  ASSUME TypeInv, Settling, UNCHANGED <<ctl, kbd>>, SameHands, SameFlags,
         hist'.first = "none" => hist.first = "none"
  PROVE  Settling'
BY QuietStep

LEMMA MouseHandlerSettles ==
  TypeInv /\ Wires /\ Settling /\ (Int74 \/ int74_function \/ Int74Done) => Settling'
<1> SUFFICES ASSUME TypeInv, Wires, Settling, Int74 \/ int74_function \/ Int74Done PROVE Settling'
  OBVIOUS
<1>1. UNCHANGED <<kbd, bda>> /\ \E on74 : cpu' = [cpu EXCEPT !.on74 = on74]
  BY DEF Int74, int74_function, Int74Done
<1>2. SameHands
  BY <1>1, Hands
<1>3. SameFlags
  BY <1>1, Flagless
<1>4. CASE UNCHANGED <<ctl, hist>>
  BY <1>1, <1>2, <1>3, <1>4, AwayStep
<1>5. CASE int74_function /\ MouseData(ctl)
  <2> DEFINE r == Reading("int74", "move")
             p == IF ebda.hooked /\ ebda.count = 2 /\ ebda.index = 2
                    THEN Packet(Collected(ebda, Shown(ctl).b)) ELSE r.packet
  <2>1. OutputFull(ctl) /\ ctl' = Taken(ctl) /\ hist' = [r EXCEPT !.packet = p]
    BY <1>5 DEF int74_function, MouseData, Read
  <2>2. r \in History
    <3> DEFINE did == Shown(ctl).tag # "move"
    <3>1. Disturb(hist, "int74", did) \in History
      BY Shape, Disturbed DEF Readers
    <3> QED
      BY <3>1 DEF Reading
  <2> HIDE DEF p, r
  <2>3. hist'.first = r.first
    BY <2>1, <2>2 DEF History
  <2>4. hist'.first = Reading("int74", "move").first
    BY <2>3 DEF r
  <2>5. "int74" \in Readers
    BY DEF Readers
  <2> QED
    BY <1>1, <1>2, <1>3, <2>1, <2>4, <2>5, ReadStep
<1> QED
  BY <1>4, <1>5 DEF Int74, int74_function, Int74Done

LEMMA CallsSettle ==
  TypeInv /\ Settling /\ (Int16 \/ int16_key_found \/ DequeueKey \/ MoveHead \/ CheckKey \/ StoreKey \/ MoveTail)
    => Settling'
<1> SUFFICES ASSUME TypeInv, Settling,
                    Int16 \/ int16_key_found \/ DequeueKey \/ MoveHead \/ CheckKey \/ StoreKey \/ MoveTail
             PROVE  Settling'
  OBVIOUS
<1>1. UNCHANGED <<ctl, kbd>>
  BY DEF Int16, int16_key_found, DequeueKey, MoveHead, CheckKey, StoreKey, MoveTail
<1>2. SameHands
  <2>1. \/ cpu' = Return
        \/ \E pc, if : cpu' = [cpu EXCEPT !.pc = pc, !.if = if]
        \/ \E pc, fn : cpu' = [cpu EXCEPT !.pc = pc, !.fn = fn]
        \/ \E pc, slot : cpu' = [cpu EXCEPT !.pc = pc, !.slot = slot]
        \/ \E pc, slot, got : cpu' = [cpu EXCEPT !.pc = pc, !.slot = slot, !.got = got]
    <3>1. CASE Int16
      <4>1. PICK fn : cpu' = [cpu EXCEPT !.pc = IF fn = "read" THEN "wait" ELSE "leds", !.fn = fn]
        BY <3>1 DEF Int16
      <4> QED
        BY <4>1
    <3>2. CASE int16_key_found
      BY <3>2 DEF int16_key_found
    <3>3. CASE DequeueKey
      BY <3>3 DEF DequeueKey
    <3>4. CASE StoreKey
      BY <3>4 DEF StoreKey
    <3>5. CASE MoveHead \/ CheckKey \/ MoveTail
      BY <3>5 DEF MoveHead, CheckKey, MoveTail
    <3> QED
      BY <3>1, <3>2, <3>3, <3>4, <3>5
  <2> QED
    BY <2>1, Hands, ZenonT(30)
<1>3. SameFlags
  <2>1. CASE MoveTail
    <3> DEFINE buf == [bda.buf EXCEPT ![cpu.slot] = StoredKey]
    <3>1. \E tail : bda' = [bda EXCEPT !.buf = buf, !.tail = tail]
      BY <2>1 DEF MoveTail
    <3> HIDE DEF buf
    <3> QED
      BY <3>1, Flagless
  <2>2. CASE ~MoveTail
    <3>1. bda' = bda \/ \E head : bda' = [bda EXCEPT !.head = head]
      BY <2>2 DEF Int16, int16_key_found, DequeueKey, MoveHead, CheckKey, StoreKey
    <3> QED
      BY <3>1, Flagless
  <2> QED
    BY <2>1, <2>2
<1>4. hist'.first = "none" => hist.first = "none"
  <2>1. \/ hist' = hist \/ \E x : hist' = [hist EXCEPT !.calls = x]
        \/ \E q : hist' = [hist EXCEPT !.queue = q]
        \/ \E q, r : hist' = [hist EXCEPT !.queue = q, !.raced = r]
    BY DEF Int16, int16_key_found, DequeueKey, MoveHead, CheckKey, StoreKey, MoveTail
  <2> QED
    BY <2>1, FirstKept
<1> QED
  BY <1>1, <1>2, <1>3, <1>4, AwayStep

LEMMA LampsSettle ==
  TypeInv /\ Wires /\ Settling /\ (SendLamps \/ LampsAnswered \/ LampsLit) => Settling'
<1> SUFFICES ASSUME TypeInv, Wires, Settling, SendLamps \/ LampsAnswered \/ LampsLit PROVE Settling'
  OBVIOUS
<1>1. UNCHANGED kbd
  BY DEF SendLamps, LampsAnswered, LampsLit
<1>2. SameHands
  <2>1. \/ \E pc : cpu' = [cpu EXCEPT !.pc = pc]
        \/ \E pc, if, led : cpu' = [cpu EXCEPT !.pc = pc, !.if = if, !.led = led]
        \/ \E pc, if, sti : cpu' = [cpu EXCEPT !.pc = pc, !.if = if, !.sti = sti]
    <3>1. CASE SendLamps
      BY <3>1 DEF SendLamps
    <3>2. CASE LampsAnswered
      <4> DEFINE told == Shown(ctl).b = Ack
      <4>1. cpu' = IF told THEN [cpu EXCEPT !.pc = "lit"]
                   ELSE [cpu EXCEPT !.pc = cpu.fn, !.if = TRUE, !.sti = TRUE]
        BY <3>2 DEF LampsAnswered
      <4> HIDE DEF told
      <4> QED
        BY <4>1
    <3>3. CASE LampsLit
      BY <3>3 DEF LampsLit
    <3> QED
      BY <3>1, <3>2, <3>3
  <2> QED
    BY <2>1, Hands
<1>3. SameFlags
  <2>1. bda' = bda \/ \E led : bda' = [bda EXCEPT !.led = led]
    BY DEF SendLamps, LampsAnswered, LampsLit
  <2> QED
    BY <2>1, Flagless
<1>4. "lamps" \in Readers
  BY DEF Readers
<1>5. CASE SendLamps
  <2>1. hist' = hist /\ (ctl' = ctl \/ ctl' = ToKeyboard(ctl, 237))
    BY <1>5 DEF SendLamps, Write
  <2>2. ctl'.kq = ctl.kq
    BY <2>1, Shape, KeyboardSent
  <2> QED
    BY <1>1, <1>2, <1>3, <2>1, <2>2, QuietStep
<1>6. CASE LampsAnswered \/ LampsLit
  <2> DEFINE t == Taken(ctl)
  <2>1. OutputFull(ctl) /\ hist' = Reading("lamps", "key") /\ (ctl' = t \/ ctl' = ToKeyboard(t, 0))
    BY <1>6 DEF LampsAnswered, LampsLit, Read
  <2>2. t \in Controller
    BY Shape, TakenWired DEF Wired
  <2> HIDE DEF t
  <2>3. ctl'.kq = t.kq
    BY <2>1, <2>2, KeyboardSent
  <2> QED
    BY <1>1, <1>2, <1>3, <1>4, <2>1, <2>3, ReadStep DEF t
<1> QED
  BY <1>5, <1>6

LEMMA IdentitySettles ==
  TypeInv /\ Wires /\ Settling /\ (AskIdentity \/ PollIdentity) => Settling'
<1> SUFFICES ASSUME TypeInv, Wires, Settling, AskIdentity \/ PollIdentity PROVE Settling'
  OBVIOUS
<1>1. UNCHANGED <<kbd, bda>>
  BY DEF AskIdentity, PollIdentity
<1>2. SameHands
  <2>1. \/ cpu' = Return
        \/ \E pc, slot : cpu' = [cpu EXCEPT !.pc = pc, !.slot = slot]
        \/ \E slot : cpu' = [cpu EXCEPT !.slot = slot]
    BY DEF AskIdentity, PollIdentity
  <2> QED
    BY <2>1, Hands
<1>3. SameFlags
  BY <1>1, Flagless
<1>4. "identity" \in Readers
  BY DEF Readers
<1>5. CASE hist' = hist /\ (ctl' = ctl \/ ctl' = ToKeyboard(ctl, Identify))
  <2>1. ctl'.kq = ctl.kq
    BY <1>5, Shape, KeyboardSent
  <2> QED
    BY <1>1, <1>2, <1>3, <1>5, <2>1, QuietStep
<1>6. CASE OutputFull(ctl) /\ ctl' = Taken(ctl) /\ hist' = Reading("identity", "key")
  BY <1>1, <1>2, <1>3, <1>4, <1>6, ReadStep
<1> QED
  BY <1>5, <1>6 DEF AskIdentity, PollIdentity, Write, Read

\* The mouse's services: a command byte is no code, and the rest is the mouse's.
LEMMA ServiceSettles == TypeInv /\ Wires /\ Settling /\ Service => Settling'
<1> SUFFICES ASSUME TypeInv, Wires, Settling, Service PROVE Settling'
  OBVIOUS
<1>1. UNCHANGED <<kbd, bda>>
  BY DEF Service, AskCommandByte, ChangeCommandByte, RestoreCommandByte, SendToMouse, GetMouseData,
         CheckAck, ServiceDone
<1>2. SameFlags
  BY <1>1, Flagless
<1>3. "service" \in Readers
  BY DEF Readers
<1>4. CASE AskCommandByte
  <2> DEFINE b == CommandByte(ctl)
             w == Byte(b, "reply")
  <2>1. ctl' = PutKey(ctl, w) /\ cpu' = Next1 /\ hist' = hist
    BY <1>4 DEF AskCommandByte, Write
  <2>2. b \in Octet
    BY Shape, CommandWired
  <2> HIDE DEF b
  <2>3. w \in Wire /\ w.tag = "reply"
    BY <2>2 DEF Byte, Wire
  <2> HIDE DEF w
  <2>4. ctl'.kq = Append(ctl.kq, w)
    BY <2>1, <2>3, Shape, PutKeeps
  <2>5. Hushed(ctl.kq, ctl'.kq, HeldCodes)
    BY <2>3, <2>4, Shape, OtherAppended
  <2>6. SameHands
    BY <2>1, Hands
  <2> QED
    BY <1>1, <1>2, <2>1, <2>5, <2>6, OtherStep DEF Undisturbed
<1>5. CASE ChangeCommandByte
  <2> DEFINE t == Taken(ctl)
             b == Shown(ctl).b
  <2>1. OutputFull(ctl) /\ hist' = Reading("service", "reply")
    BY <1>5 DEF ChangeCommandByte
  <2>2. cpu' = [Next1 EXCEPT !.prev = b] /\ \E v : ctl' = SetCommandByte(t, v)
    BY <1>5 DEF ChangeCommandByte
  <2>3. t \in Controller
    BY Shape, TakenWired DEF Wired
  <2> HIDE DEF t, b
  <2>4. ctl'.kq = t.kq
    BY <2>2, <2>3, SetKeeps
  <2>5. SameHands
    BY <2>2, Hands
  <2> QED
    BY <1>1, <1>2, <1>3, <2>1, <2>4, <2>5, ReadStep DEF t
<1>6. CASE RestoreCommandByte
  <2>1. cpu' = Next1 /\ hist' = hist /\ ctl' = SetCommandByte(ctl, cpu.prev)
    BY <1>6 DEF RestoreCommandByte, Write
  <2>2. ctl'.kq = ctl.kq
    BY <2>1, Shape, SetKeeps
  <2>3. SameHands
    BY <2>1, Hands
  <2> QED
    BY <1>1, <1>2, <2>1, <2>2, <2>3, QuietStep
<1>7. CASE SendToMouse
  <2>1. /\ cpu' = Next1 /\ hist' = hist /\ ctl' = ToMouse(ctl, ServiceByte(cpu.fn))
        /\ ctl.in.to = "none"
    BY <1>7 DEF SendToMouse, Write, InService, NeedsEmpty
  <2>2. ctl'.kq = ctl.kq
    BY <2>1, Shape, MouseSent
  <2>3. SameHands
    BY <2>1, Hands
  <2> QED
    BY <1>1, <1>2, <2>1, <2>2, <2>3, QuietStep
<1>8. CASE GetMouseData
  <2> DEFINE b == Shown(ctl).b
  <2>1. /\ OutputFull(ctl) /\ hist' = Reading("service", "mouse") /\ ctl' = Taken(ctl)
        /\ cpu' = [Next1 EXCEPT !.got = b]
    BY <1>8 DEF GetMouseData, MouseData, Read
  <2> HIDE DEF b
  <2>2. SameHands
    BY <2>1, Hands
  <2> QED
    BY <1>1, <1>2, <1>3, <2>1, <2>2, ReadStep
<1>9. CASE CheckAck \/ ServiceDone
  <2>1. UNCHANGED <<ctl, hist>>
    BY <1>9 DEF CheckAck, ServiceDone
  <2>2. cpu' = Return \/ cpu' = Next1 \/ \E s : cpu' = [cpu EXCEPT !.steps = s]
    BY <1>9 DEF CheckAck, ServiceDone
  <2>3. SameHands
    BY <2>2, Hands
  <2> QED
    BY <1>1, <1>2, <2>1, <2>3, QuietStep
<1> QED
  BY <1>4, <1>5, <1>6, <1>7, <1>8, <1>9 DEF Service

LEMMA Int15Settles == TypeInv /\ Settling /\ Int15C2 => Settling'
<1> SUFFICES ASSUME TypeInv, Settling, Int15C2 PROVE Settling'
  OBVIOUS
<1>1. UNCHANGED <<ctl, kbd, bda>>
  BY DEF Int15C2
<1>2. PICK f \in Services :
        /\ cpu' = [cpu EXCEPT !.pc = "service", !.fn = f, !.if = FALSE, !.steps = ServiceSteps(f)]
        /\ hist' = Disturb([hist EXCEPT !.calls = @ + 1], "command", f = "init" /\ Midway)
  BY DEF Int15C2
<1>3. SameHands
  <2> DEFINE s == ServiceSteps(f)
  <2>1. cpu' = [cpu EXCEPT !.pc = "service", !.fn = f, !.if = FALSE, !.steps = s]
    BY <1>2
  <2> HIDE DEF s
  <2> QED
    BY <2>1, Hands
<1>4. hist'.first = "none" => hist.first = "none"
  <2> DEFINE did == f = "init" /\ Midway
             n == hist.calls + 1
  <2>1. hist' = Disturb([hist EXCEPT !.calls = n], "command", did)
    BY <1>2
  <2> HIDE DEF did, n
  <2> QED
    BY <2>1, FirstKept
<1> QED
  BY <1>1, <1>3, <1>4, Flagless, AwayStep

LEMMA IdleSettles == Settling /\ UNCHANGED vars => Settling'
<1> SUFFICES ASSUME Settling, UNCHANGED vars PROVE Settling'
  OBVIOUS
<1>1. UNCHANGED <<ctl, kbd, bda, cpu, hist>>
  BY DEF vars
<1>2. SameHands /\ SameFlags
  BY <1>1 DEF SameHands, SameFlags
<1> QED
  BY <1>1, <1>2, QuietStep

LEMMA SettlingNext == OrdinaryKeys /\ IInv /\ Wires /\ Settling /\ [Next]_vars => Settling'
<1> SUFFICES ASSUME OrdinaryKeys, IInv, Wires, Settling, [Next]_vars PROVE Settling'
  OBVIOUS
<1>0. TypeInv
  BY DEF IInv
<1>1. CASE Devices
  BY <1>0, <1>1, SendKeySettles, DevicesSettle DEF Devices
<1>2. CASE Handlers
  BY <1>0, <1>2, Int09ReadSettles, Int09WorkSettles, MouseHandlerSettles DEF Handlers
<1>3. CASE Int16 \/ Keyboard
  BY <1>0, <1>3, CallsSettle, LampsSettle, IdentitySettles DEF Keyboard
<1>4. CASE Int15C2
  BY <1>0, <1>4, Int15Settles
<1>5. CASE Service
  BY <1>0, <1>5, ServiceSettles
<1>6. CASE UNCHANGED vars
  BY <1>6, IdleSettles
<1> QED
  BY <1>1, <1>2, <1>3, <1>4, <1>5, <1>6 DEF Next

LEMMA InitSettles == Init => Settling
<1> SUFFICES ASSUME Init PROVE Settling
  OBVIOUS
<1>1. PICK driver \in BOOLEAN :
        /\ ctl = [out |-> "none", kq |-> <<>>, mq |-> <<>>, irqKey |-> TRUE, irqMouse |-> driver,
                  keyOff |-> FALSE, mouseOff |-> ~driver, mouseOffSeen |-> ~driver,
                  translate |-> TRUE, in |-> [to |-> "none", b |-> 0]]
  BY DEF Init
<1>2. ctl.kq = <<>>
  BY <1>1
<1>3. kbd.held = {} /\ kbd.rest = <<>> /\ cpu.on9 = "off" /\ cpu.key = 0
  BY DEF Init
<1>4. bda.shift = {} /\ bda.flags = {} /\ bda.state = {"mf101"}
  BY DEF Init
<1>5. HeldCodes = {} /\ Flagged(bda) = {}
  BY <1>3, <1>4 DEF HeldCodes, Flagged
<1>6. Unescaped(<<>>) /\ \A C \in Watched : LastSays(<<>>, C, {})
  BY DEF Unescaped, LastSays
<1> QED
  BY <1>2, <1>3, <1>4, <1>5, <1>6 DEF Settling, Followed

\* Whatever the order of interrupts, calls and packets, once INT 09h has worked
\* through every byte sent the flags say which of Ctrl, Alt and Caps Lock are
\* down: int09_function and the keyboard, for a keyboard on which one key alone
\* has the code of each.
THEOREM FlagsAreTrue ==
  ASSUME OrdinaryKeys
  PROVE  Spec => []FlagsFollowKeys
<1>1. Init => Settling
  BY InitSettles
<1>2. IInv /\ Wires /\ Settling /\ [Next]_vars => Settling'
  BY OrdinaryKeys, SettlingNext
<1>3. Settling => FlagsFollowKeys
  <2> SUFFICES ASSUME Settling, Undisturbed, ctl.kq = <<>>, kbd.rest = <<>>, cpu.on9 = "off"
               PROVE  /\ "ctrl" \in bda.shift <=> 29 \in HeldCodes
                      /\ "alt" \in bda.shift <=> 56 \in HeldCodes
                      /\ "caps" \in bda.flags <=> 58 \in HeldCodes
    BY DEF FlagsFollowKeys
  <2>1. \A C \in Watched : C \in Flagged(bda) <=> C \in HeldCodes
    BY DEF Settling, Followed, Silent
  <2>2. /\ 29 \in Flagged(bda) <=> "ctrl" \in bda.shift
        /\ 56 \in Flagged(bda) <=> "alt" \in bda.shift
        /\ 58 \in Flagged(bda) <=> "caps" \in bda.flags
    BY DEF Flagged
  <2> QED
    BY <2>1, <2>2 DEF Watched
<1> QED
  BY <1>1, <1>2, <1>3, Invariant, WiresInOrder, PTL DEF Spec
=============================================================================
