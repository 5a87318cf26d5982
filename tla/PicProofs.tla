----------------------------- MODULE PicProofs -----------------------------
(***************************************************************************)
(* Proofs about the interrupt path, for any number of lines, any firmware  *)
(* and any software: type correctness, and that the master always has a    *)
(* proper answer to the processor's acknowledge.                           *)
(***************************************************************************)
EXTENDS Pic, WellFoundedInduction, TLAPS

USE NAssumption

----------------------------------------------------------------------------
(* Priorities.                                                             *)

\* A rank is a number below N.
LEMMA RankType == \A l, low \in Line : Rank(l, low) \in 0 .. N - 1
  BY DEF Line, Rank

\* Different lines have different ranks.
LEMMA RankInjective ==
  \A k, l, low \in Line : Rank(k, low) = Rank(l, low) => k = l
  BY DEF Line, Rank

\* Every set of lines that is not empty has a first one.
LEMMA FirstExists ==
  ASSUME NEW S \in SUBSET Line, NEW low \in Line, S # {}
  PROVE  \E l \in S : IsFirst(l, S, low)
<1> DEFINE R == {Rank(l, low) : l \in S}
           Less == {ss \in Nat \X Nat : ss[1] < ss[2]}
<1>1. R \subseteq Nat
  BY RankType
<1>2. R # {}
  OBVIOUS
<1>3. IsWellFoundedOn(Less, Nat)
  BY NatLessThanWellFounded DEF OpToRel
<1> HIDE DEF Less
<1>4. PICK r \in R : \A q \in R : <<q, r>> \notin Less
  BY <1>1, <1>2, <1>3, WFMin
<1>5. \A q \in R : r <= q
  <2> SUFFICES ASSUME NEW q \in R PROVE ~(q < r)
    BY <1>1
  <2> QED
    BY <1>1, <1>4 DEF Less
<1>6. PICK l \in S : r = Rank(l, low)
  OBVIOUS
<1> QED
  BY <1>5, <1>6 DEF IsFirst

\* What First means on a set that is not empty.
LEMMA FirstIsFirst ==
  ASSUME NEW S \in SUBSET Line, NEW low \in Line, S # {}
  PROVE  /\ First(S, low) \in S
         /\ \A k \in S : Rank(First(S, low), low) <= Rank(k, low)
  BY FirstExists DEF First, IsFirst

\* First picks a line.
LEMMA FirstType == \A S \in SUBSET Line, low \in Line : First(S, low) \in Line
  BY FirstIsFirst DEF First

\* What First means on the empty set.
LEMMA FirstOfNone == \A low : First({}, low) = low
  BY DEF First

----------------------------------------------------------------------------
(* Type correctness.                                                       *)

LEMMA IdleType == Idle \in Access
  BY OffsetsAssumption DEF Idle, Access, Kind, Line

LEMMA NextLineType == \A l \in Line : NextLine(l) \in Line
  BY DEF NextLine, Line

\* One clock cycle of a chip keeps its registers in their types.
LEMMA ClockChipType ==
  ASSUME NEW s \in Chip, NEW b \in Access, NEW in \in SUBSET Line,
         NEW done \in BOOLEAN
  PROVE  ClockChip(s, b, in, done) \in Chip
<1> DEFINE irr   == IrrNext(s, b, in, done)
           isr   == IsrNext(s, b, done)
           imr   == ImrNext(s, b)
           wired == Loaded(b, "icw3", b.mask, s.irr_slave)
           low   == LowestPriorityNext(s, b, done)
           do    == InterruptDoNext(s, b, done)
           vec   == InterruptVectorNext(s, b)
           spur  == SpuriousNext(s, b, done)
           act   == SlaveActiveNext(s, b, done)
           off   == Loaded(b, "icw2", b.off, s.interrupt_offset)
           init  == InInitNext(s, b)
           req4  == Loaded(b, "icw1", b.f, s.init_requires_4)
           byte  == InitByteNext(s, b)
           lev   == Loaded(b, "icw1", b.g, s.ltim)
           auto  == Loaded(b, "icw4", b.f, Loaded(b, "icw1", FALSE, s.auto_eoi))
           rot   == Loaded(b, "rotate_on_aeoi", b.f,
                           Loaded(b, "icw1", FALSE, s.rotate_on_aeoi))
           spec  == Loaded(b, "ocw3_mask_mode", b.f,
                           Loaded(b, "icw1", FALSE, s.special_mask))
           poll  == PolledNext(s, b)
           read  == IoReadLastNext(s, b)
<1>1. irr \in SUBSET Line /\ isr \in SUBSET Line /\ imr \in SUBSET Line
  BY DEF IrrNext, IsrNext, ImrNext, Access, Chip, Vector
<1>2. low \in Line
  BY NextLineType DEF LowestPriorityNext, Chip, Access, Line
<1>3. do \in BOOLEAN /\ spur \in BOOLEAN /\ init \in BOOLEAN
  BY DEF InterruptDoNext, SpuriousNext, InInitNext
<1>4. act \in BOOLEAN
  <2>1. s.slave_active \in BOOLEAN
    BY DEF Chip
  <2> QED
    BY <2>1 DEF SlaveActiveNext
<1>5. poll \in BOOLEAN /\ read \in BOOLEAN
  BY DEF PolledNext, IoReadLastNext, ReadValid
<1>6. vec \in Vector
  <2>1. IrqValue(s) \in Line
    BY FirstType DEF IrqValue, Prepared, Chip
  <2>2. ZeroVector \in Vector
    BY OffsetsAssumption DEF ZeroVector, Vector, Line
  <2>3. s.interrupt_vector \in Vector /\ s.interrupt_offset \in Offsets
    BY DEF Chip
  <2> QED
    BY <2>1, <2>2, <2>3 DEF InterruptVectorNext, Vector
<1>7. byte \in {0, 2, 3, 4}
  BY DEF InitByteNext, Chip
<1>8. wired \in SUBSET Line /\ off \in Offsets
  BY DEF Loaded, Chip, Access
<1>9. req4 \in BOOLEAN /\ lev \in BOOLEAN /\ auto \in BOOLEAN
  BY DEF Loaded, Chip, Access
<1>10. rot \in BOOLEAN /\ spec \in BOOLEAN
  BY DEF Loaded, Chip, Access
<1>11. ClockChip(s, b, in, done) =
         [interrupt_last |-> in, irr |-> irr, isr |-> isr, imr |-> imr,
          irr_slave |-> wired, lowest_priority |-> low, interrupt_do |-> do,
          interrupt_vector |-> vec, spurious |-> spur, slave_active |-> act,
          interrupt_offset |-> off, in_init |-> init, init_requires_4 |-> req4,
          init_byte_expected |-> byte, ltim |-> lev, auto_eoi |-> auto,
          rotate_on_aeoi |-> rot, special_mask |-> spec, polled |-> poll,
          io_read_last |-> read]
  BY DEF ClockChip
<1> HIDE DEF irr, isr, imr, wired, low, do, vec, spur, act, off, init, req4,
             byte, lev, auto, rot, spec, poll, read
<1> QED
  BY <1>1, <1>2, <1>3, <1>4, <1>5, <1>6, <1>7, <1>8, <1>9, <1>10, <1>11 DEF Chip

\* Both chips take a step of their own type in every cycle.
LEMMA ClockType ==
  ASSUME TypeOK, NEW bm \in Access, NEW bs \in Access, NEW done \in BOOLEAN,
         Clock(bm, bs, done)
  PROVE  mas' \in Chip /\ sla' \in Chip
<1>1. PICK dm \in SUBSET MasterWired, ds \in SUBSET SlaveWired :
        /\ mas' = ClockChip(mas, bm, MasterInput(dm), done)
        /\ sla' = ClockChip(sla, bs, ds, done /\ SlaveSelect)
  BY DEF Clock, MasterAfter, SlaveAfter
<1>2. MasterInput(dm) \in SUBSET Line /\ ds \in SUBSET Line
  BY WiringAssumption, CascadeAssumption DEF MasterInput
<1>3. (done /\ SlaveSelect) \in BOOLEAN
  BY DEF SlaveSelect
<1> QED
  BY <1>1, <1>2, <1>3, ClockChipType DEF TypeOK

\* A strobed access is one of the chips' accesses.
LEMMA StrobeType ==
  ASSUME TypeOK, NEW x \in Selected, Strobe(x)
  PROVE  mas' \in Chip /\ sla' \in Chip /\ phase' \in Phase /\ vector' \in Vector
<1>1. x.access \in Access
  BY DEF Selected
<1>2. mas' \in Chip /\ sla' \in Chip
  BY <1>1, IdleType, ClockType DEF Strobe
<1> QED
  BY <1>2 DEF Strobe, TypeOK, Phase

LEMMA InitType == Init => TypeOK
<1>1. ZeroVector \in Vector
  BY OffsetsAssumption DEF ZeroVector, Vector, Line
<1>2. ResetChip \in Chip
  BY <1>1, OffsetsAssumption DEF ResetChip, Chip, Line
<1>3. Len(Boot) \in Nat
  BY ProgramAssumption
<1> QED
  BY <1>1, <1>2, <1>3 DEF Init, TypeOK, Phase

\* What a step shows to be in type.
LEMMA NextType == TypeOK /\ [Next]_vars => TypeOK'
<1> SUFFICES ASSUME TypeOK, [Next]_vars PROVE TypeOK'
  OBVIOUS
<1> USE IdleType, ClockType DEF Phase
<1>1. CASE Compute
  BY <1>1 DEF Compute, TypeOK
<1>2. CASE BootAccess
  <2>1. Boot[pc] \in Selected /\ pc' \in 1 .. Len(Boot) + 1
    BY <1>2, ProgramAssumption DEF BootAccess, TypeOK
  <2> QED
    BY <1>2, <2>1, StrobeType DEF BootAccess, TypeOK
<1>3. CASE \E x \in Commands : CommandAccess(x)
  BY <1>3, StrobeType, ProgramAssumption DEF CommandAccess, TypeOK
<1>4. CASE IoDone
  BY <1>4 DEF IoDone, TypeOK
<1>5. CASE Accept
  BY <1>5 DEF Accept, TypeOK
<1>6. CASE Possible
  BY <1>6 DEF Possible, TypeOK
<1>7. CASE Done
  <2>1. PresentedVector \in Vector
    BY DEF PresentedVector, TypeOK, Chip
  <2> QED
    BY <1>7, <2>1 DEF Done, TypeOK
<1>8. CASE Load
  BY <1>8 DEF Load, TypeOK
<1>9. CASE UNCHANGED vars
  BY <1>9 DEF vars, TypeOK
<1> QED
  BY <1>1, <1>2, <1>3, <1>4, <1>5, <1>6, <1>7, <1>8, <1>9 DEF Next

\* The registers of both chips and of the processor stay in their types.
THEOREM TypeCorrect == Spec => []TypeOK
  BY InitType, NextType, PTL DEF Spec

----------------------------------------------------------------------------
(* The acknowledge.                                                        *)

\* A request that interrupts comes from the front of the lines that may.
LEMMA IrqFromFront ==
  ASSUME NEW s \in Chip, Irq(s)
  PROVE  /\ IrqValue(s) \notin s.imr \cup s.isr
         /\ ~s.special_mask =>
              \A k \in s.isr : Rank(IrqValue(s), s.lowest_priority)
                                < Rank(k, s.lowest_priority)
<1> DEFINE l == IrqValue(s)
           low == s.lowest_priority
<1>1. /\ Prepared(s) \in SUBSET Line
      /\ s.isr \in SUBSET Line
      /\ low \in Line
      /\ Prepared(s) # {}
  BY DEF Prepared, Chip, Irq
<1>2. l \in Prepared(s)
  BY <1>1, FirstIsFirst DEF IrqValue
<1>3. l \notin s.imr \cup s.isr
  BY <1>2 DEF Prepared
<1>4. ASSUME ~s.special_mask, NEW k \in s.isr
      PROVE  Rank(l, low) < Rank(k, low)
  <2>1. Rank(l, low) <= Rank(First(s.isr, low), low)
    BY <1>4 DEF Irq
  <2>2. First(s.isr, low) \in Line /\ Rank(First(s.isr, low), low) <= Rank(k, low)
    BY <1>1, FirstIsFirst
  <2>3. l \in Line /\ k \in Line /\ l # k
    BY <1>1, <1>2, <1>3
  <2>4. Rank(l, low) # Rank(k, low)
    BY <1>1, <2>3, RankInjective
  <2>5. /\ Rank(l, low) \in Int
        /\ Rank(k, low) \in Int
        /\ Rank(First(s.isr, low), low) \in Int
    BY <1>1, <2>2, <2>3, RankType
  <2> HIDE DEF l, low
  <2> QED
    BY <2>1, <2>2, <2>4, <2>5
<1> QED
  BY <1>3, <1>4

\* What arbitration names when nothing interrupts is not urgent.
LEMMA NoIrqOutranked ==
  ASSUME NEW s \in Chip, ~Irq(s)
  PROVE  \/ IrqValue(s) = s.lowest_priority
         \/ Rank(First(s.isr, s.lowest_priority), s.lowest_priority)
              < Rank(IrqValue(s), s.lowest_priority)
<1> DEFINE low == s.lowest_priority
<1>1. CASE Prepared(s) = {}
  BY <1>1, FirstOfNone DEF IrqValue
<1>2. CASE Prepared(s) # {}
  <2>1. ~(Rank(IrqValue(s), low) <= Rank(First(s.isr, low), low))
    BY <1>2 DEF Irq
  <2>2. IrqValue(s) \in Line /\ First(s.isr, low) \in Line /\ low \in Line
    BY FirstType DEF IrqValue, Prepared, Chip
  <2>3. /\ Rank(IrqValue(s), low) \in Int
        /\ Rank(First(s.isr, low), low) \in Int
    BY <2>2, RankType
  <2> HIDE DEF low
  <2>4. Rank(First(s.isr, low), low) < Rank(IrqValue(s), low)
    BY <2>1, <2>3
  <2> QED
    BY <2>4 DEF low
<1> QED
  BY <1>1, <1>2

\* A chip with a request to make, or with a proper answer, has a proper answer
\* after a cycle without access and acknowledge, whatever its lines do.
LEMMA AnswerKept ==
  ASSUME NEW s \in Chip, NEW in, s.interrupt_do \/ AnswerOK(s)
  PROVE  AnswerOK(ClockChip(s, Idle, in, FALSE))
<1> DEFINE c == ClockChip(s, Idle, in, FALSE)
<1>1. /\ c.isr = s.isr
      /\ c.imr = s.imr
      /\ c.lowest_priority = s.lowest_priority
      /\ c.special_mask = s.special_mask
  BY DEF ClockChip, IsrNext, ImrNext, LowestPriorityNext, Loaded, Idle,
         PollRead, ReadValid, AcknowledgeNotSpurious
<1>2. /\ c.interrupt_do = Irq(s)
      /\ c.spurious = (~Irq(s) /\ (s.interrupt_do \/ s.spurious))
  BY DEF ClockChip, InterruptDoNext, SpuriousNext, SpuriousStart, Acknowledge,
         PollRead, ReadValid, Idle, Chip, Irq
<1>3. c.interrupt_vector =
        IF Irq(s) \/ s.interrupt_do
          THEN [off |-> s.interrupt_offset, line |-> IrqValue(s)]
          ELSE s.interrupt_vector
  BY DEF ClockChip, InterruptVectorNext, Idle
<1> HIDE DEF c
<1>4. CASE Irq(s)
  <2>1. c.interrupt_vector.line = IrqValue(s)
    BY <1>3, <1>4
  <2>2. PutInService(c)
    BY <1>1, <1>4, <2>1, IrqFromFront DEF PutInService
  <2> QED
    BY <1>2, <1>4, <2>2 DEF AnswerOK, c
<1>5. CASE ~Irq(s) /\ s.interrupt_do
  <2>1. c.interrupt_vector.line = IrqValue(s)
    BY <1>3, <1>5
  <2>2. OutrankedInService(c)
    BY <1>1, <1>5, <2>1, NoIrqOutranked DEF OutrankedInService
  <2> QED
    BY <1>2, <1>5, <2>2 DEF AnswerOK, c
<1>6. CASE ~Irq(s) /\ ~s.interrupt_do
  <2>1. c.interrupt_vector = s.interrupt_vector
    BY <1>3, <1>6
  <2>2. s.spurious /\ OutrankedInService(s)
    BY <1>6 DEF AnswerOK
  <2>3. OutrankedInService(c)
    BY <1>1, <2>1, <2>2 DEF OutrankedInService
  <2> QED
    BY <1>2, <1>6, <2>2, <2>3 DEF AnswerOK, c
<1> QED
  BY <1>4, <1>5, <1>6

\* The strengthening: the answer is ready from the cycle after the processor
\* accepted, not only when it acknowledges.
AnswerReady == phase \in {"possible", "done"} => AnswerOK(mas)

LEMMA NextAnswer == TypeOK /\ AnswerReady /\ [Next]_vars => AnswerReady'
<1> SUFFICES ASSUME TypeOK, AnswerReady, [Next]_vars PROVE AnswerReady'
  OBVIOUS
<1>1. CASE Compute
  BY <1>1 DEF Compute, AnswerReady
<1>2. CASE BootAccess
  BY <1>2 DEF BootAccess, Strobe, AnswerReady
<1>3. CASE \E x \in Commands : CommandAccess(x)
  BY <1>3 DEF CommandAccess, Strobe, AnswerReady
<1>4. CASE IoDone
  BY <1>4 DEF IoDone, AnswerReady
<1>5. CASE Accept
  <2>1. PICK in : mas' = ClockChip(mas, Idle, in, FALSE)
    BY <1>5 DEF Accept, Clock, MasterAfter
  <2>2. AnswerOK(mas')
    BY <1>5, <2>1, AnswerKept DEF Accept, TypeOK
  <2>3. AnswerOK(mas)'
    BY <2>2 DEF AnswerOK, PutInService, OutrankedInService
  <2> QED
    BY <2>3 DEF AnswerReady
<1>6. CASE Possible
  <2>1. PICK in : mas' = ClockChip(mas, Idle, in, FALSE)
    BY <1>6 DEF Possible, Clock, MasterAfter
  <2>2. AnswerOK(mas')
    BY <1>6, <2>1, AnswerKept DEF Possible, AnswerReady, TypeOK
  <2>3. AnswerOK(mas)'
    BY <2>2 DEF AnswerOK, PutInService, OutrankedInService
  <2> QED
    BY <2>3 DEF AnswerReady
<1>7. CASE Done
  BY <1>7 DEF Done, AnswerReady
<1>8. CASE Load
  BY <1>8 DEF Load, AnswerReady
<1>9. CASE UNCHANGED vars
  BY <1>9 DEF vars, AnswerReady, AnswerOK, PutInService, OutrankedInService
<1> QED
  BY <1>1, <1>2, <1>3, <1>4, <1>5, <1>6, <1>7, <1>8, <1>9 DEF Next

\* Whatever the firmware and the software do to the chips and whenever devices
\* come and go, the master answers the processor's acknowledge properly.
THEOREM MasterAnswers == Spec => []MasterAcknowledge
<1>1. Init => AnswerReady
  BY DEF Init, AnswerReady
<1>2. AnswerReady => MasterAcknowledge
  BY DEF AnswerReady, MasterAcknowledge
<1> QED
  BY <1>1, <1>2, InitType, NextType, NextAnswer, PTL DEF Spec
----------------------------------------------------------------------------
(* Requests.                                                               *)

\* A latched request leaves a chip in one cycle only when its line falls, when the chip
\* is initialised, or when it is the line of the vector that is acknowledged or polled.
LEMMA RequestKept ==
  ASSUME NEW s \in Chip, NEW b, NEW in, NEW done \in BOOLEAN, NEW l \in s.irr, l \in in,
         l \notin ClockChip(s, b, in, done).irr
  PROVE  \/ ClockChip(s, b, in, done).in_init
         \/ l = s.interrupt_vector.line /\ PollRead(s, b)
         \/ l = s.interrupt_vector.line /\ done /\ ~s.spurious
<1>1. l \notin IrrNext(s, b, in, done)
  BY DEF ClockChip
<1>2. CASE b.kind = "icw1"
  BY <1>2 DEF ClockChip, InInitNext
<1>3. CASE b.kind # "icw1"
  BY <1>1, <1>3 DEF IrrNext, AcknowledgeNotSpurious
<1>4. QED  BY <1>2, <1>3

\* What the two chips see in a step: there is an acknowledge only when the processor stores
\* the vector.
LEMMA StepSeen ==
  ASSUME TypeOK, Next
  PROVE  \E done \in BOOLEAN : \E bm, bs, in, ds :
           /\ mas' = ClockChip(mas, bm, in, done) /\ in \in SUBSET Line
           /\ sla' = ClockChip(sla, bs, ds, done /\ SlaveSelect)
           /\ Cascade \in in => sla.interrupt_do
           /\ done => phase = "done" /\ vector' = PresentedVector
<1>1. ASSUME NEW bm, NEW bs, NEW done \in BOOLEAN, Clock(bm, bs, done),
             done => phase = "done" /\ vector' = PresentedVector
      PROVE  \E dm, ds :
               /\ mas' = ClockChip(mas, bm, MasterInput(dm), done) /\ MasterInput(dm) \in SUBSET Line
               /\ sla' = ClockChip(sla, bs, ds, done /\ SlaveSelect)
               /\ Cascade \in MasterInput(dm) => sla.interrupt_do
  <2>1. PICK dm \in SUBSET MasterWired, ds \in SUBSET SlaveWired :
          /\ mas' = ClockChip(mas, bm, MasterInput(dm), done)
          /\ sla' = ClockChip(sla, bs, ds, done /\ SlaveSelect)
    BY <1>1 DEF Clock, MasterAfter, SlaveAfter
  <2>2. MasterInput(dm) \in SUBSET Line /\ (Cascade \in MasterInput(dm) => sla.interrupt_do)
    BY WiringAssumption, CascadeAssumption DEF MasterInput
  <2>3. QED  BY <2>1, <2>2
<1>2. \E done \in BOOLEAN : \E bm, bs :
        Clock(bm, bs, done) /\ (done => phase = "done" /\ vector' = PresentedVector)
  <2>1. CASE Compute \/ IoDone \/ Accept \/ Possible \/ Load
    <3>1. Clock(Idle, Idle, FALSE)
      BY <2>1 DEF Compute, IoDone, Accept, Possible, Load
    <3>2. QED  BY <3>1
  <2>2. CASE Done
    <3>1. Clock(Idle, Idle, TRUE) /\ phase = "done" /\ vector' = PresentedVector
      BY <2>2 DEF Done
    <3>2. QED  BY <3>1
  <2>3. ASSUME NEW x, Strobe(x)
        PROVE  Clock(x.access, Idle, FALSE) \/ Clock(Idle, x.access, FALSE)
    BY <2>3 DEF Strobe
  <2>4. CASE BootAccess \/ \E x \in Commands : CommandAccess(x)
    <3>1. PICK x : Strobe(x)
      BY <2>4 DEF BootAccess, CommandAccess
    <3>2. QED  BY <2>3, <3>1
  <2>5. QED  BY <2>1, <2>2, <2>4 DEF Next
<1>3. PICK done \in BOOLEAN : \E bm, bs :
        Clock(bm, bs, done) /\ (done => phase = "done" /\ vector' = PresentedVector)
  BY <1>2
<1>4. PICK bm, bs : Clock(bm, bs, done) /\ (done => phase = "done" /\ vector' = PresentedVector)
  BY <1>3
<1>5. PICK dm, ds :
        /\ mas' = ClockChip(mas, bm, MasterInput(dm), done) /\ MasterInput(dm) \in SUBSET Line
        /\ sla' = ClockChip(sla, bs, ds, done /\ SlaveSelect)
        /\ Cascade \in MasterInput(dm) => sla.interrupt_do
  BY <1>1, <1>4
<1>6. QED  BY <1>5, <1>4

LEMMA NoSwallowStep == TypeOK /\ [Next]_vars =>
  [ /\ \A l \in MasterWired : DeliveredAs(mas, l, mas')
    /\ \A l \in SlaveWired : DeliveredAs(sla, l, sla') ]_vars
<1> SUFFICES ASSUME TypeOK, Next
             PROVE  /\ \A l \in MasterWired : DeliveredAs(mas, l, mas')
                    /\ \A l \in SlaveWired : DeliveredAs(sla, l, sla')
  OBVIOUS
<1>1. PICK done \in BOOLEAN : \E bm, bs, in, ds :
        /\ mas' = ClockChip(mas, bm, in, done) /\ in \in SUBSET Line
        /\ sla' = ClockChip(sla, bs, ds, done /\ SlaveSelect)
        /\ Cascade \in in => sla.interrupt_do
        /\ done => phase = "done" /\ vector' = PresentedVector
  BY StepSeen
<1>2. PICK bm, bs, in, ds :
        /\ mas' = ClockChip(mas, bm, in, done) /\ in \in SUBSET Line
        /\ sla' = ClockChip(sla, bs, ds, done /\ SlaveSelect)
        /\ Cascade \in in => sla.interrupt_do
        /\ done => phase = "done" /\ vector' = PresentedVector
  BY <1>1
<1>3. ASSUME NEW s \in Chip, NEW b, NEW i, NEW d \in BOOLEAN, NEW l, NEW n,
             n = ClockChip(s, b, i, d), l \in s.irr, l \notin n.irr, l \in n.interrupt_last,
             ~n.in_init, ~(s.polled /\ n.io_read_last /\ l = s.interrupt_vector.line)
      PROVE  d /\ ~s.spurious /\ l = s.interrupt_vector.line
  <2>1. n.interrupt_last = i /\ n.io_read_last = ReadValid(s, b)
    BY <1>3 DEF ClockChip, IoReadLastNext
  <2>2. l \in i
    BY <1>3, <2>1
  <2>3. QED  BY <1>3, <2>1, <2>2, RequestKept DEF PollRead
<1>4. mas \in Chip /\ sla \in Chip
  BY DEF TypeOK
<1>5. ASSUME NEW s \in Chip
      PROVE  s.interrupt_vector = [off |-> s.interrupt_vector.off, line |-> s.interrupt_vector.line]
  BY DEF Chip, Vector
<1>6. ASSUME NEW l \in MasterWired, ~DeliveredAs(mas, l, mas')
      PROVE  FALSE
  <2>1. done /\ ~mas.spurious /\ l = mas.interrupt_vector.line
    BY <1>2, <1>3, <1>4, <1>6 DEF DeliveredAs
  <2>2. phase = "done" /\ vector' = PresentedVector /\ l # Cascade
    BY <1>2, <2>1, WiringAssumption
  <2>3. vector' = mas.interrupt_vector
    BY <2>1, <2>2 DEF PresentedVector, SlaveSelect
  <2>4. QED  BY <1>4, <1>5, <1>6, <2>1, <2>2, <2>3 DEF DeliveredAs
<1>7. ASSUME NEW l \in SlaveWired, ~DeliveredAs(sla, l, sla')
      PROVE  FALSE
  <2>1. (done /\ SlaveSelect) \in BOOLEAN
    OBVIOUS
  <2>2. done /\ SlaveSelect /\ ~sla.spurious /\ l = sla.interrupt_vector.line
    BY <1>2, <1>3, <1>4, <1>7, <2>1 DEF DeliveredAs
  <2>3. phase = "done" /\ vector' = sla.interrupt_vector
    BY <1>2, <2>2 DEF PresentedVector
  <2>4. QED  BY <1>4, <1>5, <1>7, <2>2, <2>3 DEF DeliveredAs
<1>8. QED  BY <1>6, <1>7

\* No acknowledge meant for one line consumes the request of another: the line an acknowledge
\* clears is that of the vector the processor stores in the same cycle.
THEOREM NothingSwallowed == Spec => NoRequestSwallowed
  BY InitType, NextType, NoSwallowStep, PTL DEF Spec, NoRequestSwallowed

----------------------------------------------------------------------------
(* The slave's answer.                                                     *)

\* Neither the firmware nor the handlers rotate the priorities of the master, and the slave
\* is not on its lowest line (BIOS: ICWs, masks and the end of interrupt 20h).
FixedPriorities ==
  /\ Cascade # N - 1
  /\ \A x \in Commands \cup {Boot[i] : i \in DOMAIN Boot} :
       x.chip = "master" =>
         x.access.kind \notin {"eoi_rotate", "set_priority", "eoi_rotate_specific",
                               "rotate_on_aeoi"}

Unrotated == mas.lowest_priority = N - 1 /\ mas.rotate_on_aeoi = FALSE

\* While the master shows the slave's request, or its vector names the slave, the slave has
\* a proper answer or is about to.
SlaveReady ==
  /\ phase \in {"run", "possible"} /\ Cascade \in mas.irr => sla.interrupt_do \/ AnswerOK(sla)
  /\ phase \in {"possible", "done"} /\ mas.interrupt_vector.line = Cascade => AnswerOK(sla)

LEMMA UnrotatedNext ==
  ASSUME FixedPriorities, TypeOK, Unrotated, [Next]_vars
  PROVE  Unrotated'
<1>1. ASSUME NEW b, NEW bs, NEW done,
             b.kind \notin {"eoi_rotate", "set_priority", "eoi_rotate_specific", "rotate_on_aeoi"},
             Clock(b, bs, done)
      PROVE  Unrotated'
  <2>1. PICK in : mas' = ClockChip(mas, b, in, done)
    BY <1>1 DEF Clock, MasterAfter
  <2>2. mas'.lowest_priority = LowestPriorityNext(mas, b, done)
    BY <2>1 DEF ClockChip
  <2>3. mas'.rotate_on_aeoi = Loaded(b, "rotate_on_aeoi", b.f, Loaded(b, "icw1", FALSE, mas.rotate_on_aeoi))
    BY <2>1 DEF ClockChip
  <2>4. mas'.rotate_on_aeoi = FALSE
    BY <1>1, <2>3 DEF Loaded, Unrotated
  <2>5. mas'.lowest_priority = N - 1
    BY <1>1, <2>2 DEF LowestPriorityNext, Unrotated
  <2>6. QED  BY <2>4, <2>5 DEF Unrotated
<1>2. Idle.kind \notin {"eoi_rotate", "set_priority", "eoi_rotate_specific", "rotate_on_aeoi"}
  BY DEF Idle
<1>3. ASSUME NEW x \in Commands \cup {Boot[i] : i \in DOMAIN Boot}, Strobe(x)
      PROVE  Unrotated'
  BY <1>1, <1>2, <1>3 DEF Strobe, FixedPriorities
<1>4. CASE Compute \/ IoDone \/ Accept \/ Possible \/ Done \/ Load
  BY <1>1, <1>2, <1>4 DEF Compute, IoDone, Accept, Possible, Done, Load
<1>5. CASE BootAccess
  <2>1. pc \in DOMAIN Boot
    BY <1>5, ProgramAssumption DEF BootAccess, TypeOK
  <2>2. QED  BY <1>3, <1>5, <2>1 DEF BootAccess
<1>6. CASE \E x \in Commands : CommandAccess(x)
  BY <1>3, <1>6 DEF CommandAccess
<1>7. CASE UNCHANGED vars
  BY <1>7 DEF vars, Unrotated
<1>8. QED  BY <1>4, <1>5, <1>6, <1>7 DEF Next

\* Arbitration names the cascade line only for a request of the slave.
LEMMA NamesCascade ==
  ASSUME FixedPriorities, TypeOK, Unrotated, IrqValue(mas) = Cascade
  PROVE  Cascade \in mas.irr
<1>1. Prepared(mas) \in SUBSET Line /\ mas.lowest_priority \in Line /\ mas.lowest_priority # Cascade
  BY DEF TypeOK, Chip, Prepared, Unrotated, FixedPriorities
<1>2. Prepared(mas) # {}
  BY <1>1, FirstOfNone DEF IrqValue
<1>3. IrqValue(mas) \in Prepared(mas)
  BY <1>1, <1>2, FirstIsFirst DEF IrqValue
<1>4. QED  BY <1>3 DEF Prepared

\* A cycle without an access: what the slave may be asked for it can answer.
LEMMA QuietCycle ==
  ASSUME FixedPriorities, TypeOK, Unrotated, Clock(Idle, Idle, FALSE)
  PROVE  /\ sla.interrupt_do \/ AnswerOK(sla) => AnswerOK(sla')
         /\ Cascade \in mas'.irr => AnswerOK(sla')
         /\ mas'.interrupt_vector.line = Cascade =>
              \/ Cascade \in mas.irr
              \/ ~mas.interrupt_do /\ mas.interrupt_vector.line = Cascade
<1>1. PICK dm \in SUBSET MasterWired, ds \in SUBSET SlaveWired :
        /\ mas' = ClockChip(mas, Idle, MasterInput(dm), FALSE)
        /\ sla' = ClockChip(sla, Idle, ds, FALSE /\ SlaveSelect)
  BY DEF Clock, MasterAfter, SlaveAfter
<1>2. (FALSE /\ SlaveSelect) = FALSE
  OBVIOUS
<1>3. sla.interrupt_do \/ AnswerOK(sla) => AnswerOK(sla')
  BY <1>1, <1>2, AnswerKept DEF TypeOK
<1>4. Cascade \in mas'.irr => sla.interrupt_do
  <2>1. mas'.irr = IrrNext(mas, Idle, MasterInput(dm), FALSE)
    BY <1>1 DEF ClockChip
  <2>2. mas'.irr \subseteq MasterInput(dm)
    BY <2>1 DEF IrrNext, Idle
  <2>3. QED  BY <2>2, WiringAssumption DEF MasterInput
<1>5. mas'.interrupt_vector.line = Cascade =>
        \/ Cascade \in mas.irr
        \/ ~mas.interrupt_do /\ mas.interrupt_vector.line = Cascade
  <2>1. mas'.interrupt_vector = IF Irq(mas) \/ mas.interrupt_do
          THEN [off |-> mas.interrupt_offset, line |-> IrqValue(mas)] ELSE mas.interrupt_vector
    BY <1>1 DEF ClockChip, InterruptVectorNext, Idle
  <2>2. QED  BY <2>1, NamesCascade
<1>6. QED  BY <1>3, <1>4, <1>5

LEMMA SlaveReadyNext ==
  ASSUME FixedPriorities, TypeOK, Unrotated, SlaveReady, [Next]_vars
  PROVE  SlaveReady'
<1>1. ASSUME AnswerOK(sla') PROVE AnswerOK(sla)'
  BY <1>1 DEF AnswerOK, PutInService, OutrankedInService
<1>2. CASE Compute \/ IoDone \/ Load
  <2>1. Clock(Idle, Idle, FALSE) /\ phase' = "run"
    BY <1>2 DEF Compute, IoDone, Load
  <2>2. QED  BY <1>1, <2>1, QuietCycle DEF SlaveReady
<1>3. CASE Accept
  <2>1. Clock(Idle, Idle, FALSE) /\ phase = "run" /\ phase' = "possible" /\ mas.interrupt_do
    BY <1>3 DEF Accept
  <2>2. mas'.interrupt_vector.line = Cascade => AnswerOK(sla')
    BY <2>1, QuietCycle DEF SlaveReady
  <2>3. QED  BY <1>1, <2>1, <2>2, QuietCycle DEF SlaveReady
<1>4. CASE Possible
  <2>1. Clock(Idle, Idle, FALSE) /\ phase = "possible" /\ phase' = "done"
    BY <1>4 DEF Possible
  <2>2. mas'.interrupt_vector.line = Cascade => AnswerOK(sla')
    BY <2>1, QuietCycle DEF SlaveReady
  <2>3. QED  BY <1>1, <2>1, <2>2 DEF SlaveReady
<1>5. CASE BootAccess \/ (\E x \in Commands : CommandAccess(x)) \/ Done
  BY <1>5 DEF BootAccess, CommandAccess, Strobe, Done, SlaveReady
<1>6. CASE UNCHANGED vars
  BY <1>6 DEF vars, SlaveReady, AnswerOK, PutInService, OutrankedInService
<1>7. QED  BY <1>2, <1>3, <1>4, <1>5, <1>6 DEF Next

\* With software that does not rotate the master's priorities, the slave is never selected
\* with nothing to say, although the master may have become spurious meanwhile.
THEOREM SlaveAnswers == FixedPriorities /\ Spec => []SlaveAcknowledge
<1>1. Init => Unrotated /\ SlaveReady
  BY DEF Init, ResetChip, Unrotated, SlaveReady
<1>2. FixedPriorities /\ TypeOK /\ Unrotated /\ SlaveReady /\ [Next]_vars => Unrotated' /\ SlaveReady'
  BY UnrotatedNext, SlaveReadyNext
<1>3. SlaveReady => SlaveAcknowledge
  BY DEF SlaveReady, SlaveAcknowledge, SlaveSelect
<1>4. FixedPriorities => []FixedPriorities
  <2>1. FixedPriorities => FixedPriorities'
    OBVIOUS
  <2>2. QED  BY <2>1, PTL
<1> QED
  BY <1>1, <1>2, <1>3, <1>4, InitType, NextType, PTL DEF Spec
=============================================================================
