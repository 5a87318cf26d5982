------------------------------- MODULE I8259 -------------------------------
(***************************************************************************)
(* One 8259 interrupt controller of rtl/soc/pic.v (module i8259), as the   *)
(* function from the registers and the inputs of one clock cycle to the    *)
(* registers of the next.  Every register has an operator of its own, one  *)
(* for each clocked block of the source; ClockChip puts them together.     *)
(* The chip has N request lines (8 in the hardware).  An eight bit register *)
(* with a bit per line is a set of lines, and three bit line arithmetic is *)
(* arithmetic modulo N.                                                    *)
(***************************************************************************)
EXTENDS Integers

CONSTANTS N,            \* number of request lines of a chip
          Offsets,      \* values of the vector base an ICW2 can program
          ResetOffset,  \* the base after reset (0Eh)
          ZeroOffset    \* the base field of a cleared vector register

ASSUME NAssumption == N \in Nat \ {0}
ASSUME OffsetsAssumption == {ResetOffset, ZeroOffset} \subseteq Offsets

Line == 0 .. N - 1

(***************************************************************************)
(* A bus access of one cycle.  The kinds of a write are told apart by the  *)
(* address bit, by bits 3 and 4 of the byte and, for the bytes of address  *)
(* 1, by the initialisation state (Accepts).  The fields are the parts of  *)
(* the byte the access uses: a line number, a bit per line, a vector base  *)
(* and up to two flag bits.                                                *)
(***************************************************************************)
Kind == {"idle", "read", "icw1", "icw2", "icw3", "icw4", "ocw1",
         "ocw3", "ocw3_mask_mode", "eoi", "eoi_specific", "eoi_rotate",
         "set_priority", "eoi_rotate_specific", "rotate_on_aeoi"}

Access == [kind: Kind, line: Line, mask: SUBSET Line, off: Offsets,
           f: BOOLEAN, g: BOOLEAN]

Vector == [off: Offsets, line: Line]

Chip ==
  [interrupt_last: SUBSET Line, irr: SUBSET Line, isr: SUBSET Line,
   imr: SUBSET Line, irr_slave: SUBSET Line, lowest_priority: Line,
   interrupt_do: BOOLEAN, interrupt_vector: Vector, spurious: BOOLEAN,
   slave_active: BOOLEAN, interrupt_offset: Offsets,
   in_init: BOOLEAN, init_requires_4: BOOLEAN, init_byte_expected: {0, 2, 3, 4},
   ltim: BOOLEAN, auto_eoi: BOOLEAN, rotate_on_aeoi: BOOLEAN,
   special_mask: BOOLEAN, polled: BOOLEAN, io_read_last: BOOLEAN]

ZeroVector == [off |-> ZeroOffset, line |-> 0]

\* The registers after reset.
ResetChip ==
  [interrupt_last |-> {}, irr |-> {}, isr |-> {}, imr |-> Line,
   irr_slave |-> {}, lowest_priority |-> N - 1, interrupt_do |-> FALSE,
   interrupt_vector |-> ZeroVector, spurious |-> FALSE,
   slave_active |-> FALSE, interrupt_offset |-> ResetOffset, in_init |-> FALSE,
   init_requires_4 |-> FALSE, init_byte_expected |-> 0, ltim |-> FALSE,
   auto_eoi |-> FALSE, rotate_on_aeoi |-> FALSE, special_mask |-> FALSE,
   polled |-> FALSE, io_read_last |-> FALSE]

----------------------------------------------------------------------------
(* Priorities: the line after the lowest one comes first.                  *)

\* Variant: the adder is a bit too wide.
NextLineUnwrapped(l) == l + 1

NextLine(l) == IF l = N - 1 THEN 0 ELSE l + 1

\* Distance of a line from the top of the priority order, 0 .. N - 1.
Rank(l, low) == IF l > low THEN l - low - 1 ELSE l - low - 1 + N

IsFirst(l, S, low) == l \in S /\ \A k \in S : Rank(l, low) <= Rank(k, low)

\* The first line of S in priority order; the lowest line when S is empty.
First(S, low) == IF S = {} THEN low ELSE CHOOSE l \in S : IsFirst(l, S, low)

Prepared(s) == s.irr \ (s.imr \cup s.isr)

\* Variant: the arbiter scans from the lowest priority up.
IrqValueReversed(s) ==
  LET S == Prepared(s) IN
  IF S = {} THEN s.lowest_priority
  ELSE CHOOSE l \in S : \A k \in S : Rank(k, s.lowest_priority) <= Rank(l, s.lowest_priority)

IrqValue(s) == First(Prepared(s), s.lowest_priority)

\* Variant: no comparison with what is in service.
IrqFlat(s) == Prepared(s) # {}

\* Some unmasked request is at least as urgent as everything in service.
Irq(s) ==
  /\ Prepared(s) # {}
  /\ \/ s.special_mask
     \/ Rank(IrqValue(s), s.lowest_priority) <=
          Rank(First(s.isr, s.lowest_priority), s.lowest_priority)

----------------------------------------------------------------------------
(* Conditions decoded from the access b and the acknowledge input done.    *)

\* Which byte a write to address 1 is depends on the initialisation state.
Accepts(s, b) ==
  CASE b.kind = "icw2" -> s.in_init /\ s.init_byte_expected = 2
    [] b.kind = "icw3" -> s.in_init /\ s.init_byte_expected = 3
    [] b.kind = "icw4" -> s.in_init /\ s.init_byte_expected = 4
    [] b.kind = "ocw1" -> ~s.in_init
    [] OTHER -> TRUE

ReadValid(s, b) == b.kind = "read" /\ ~s.io_read_last

PollRead(s, b) == s.polled /\ ReadValid(s, b)

Acknowledge(s, b, done) == PollRead(s, b) \/ done

AcknowledgeNotSpurious(s, b, done) == PollRead(s, b) \/ (done /\ ~s.spurious)

----------------------------------------------------------------------------
(* The next value of each register.                                        *)

\* Variant: the line the arbiter names now is retired, not the vector's.
IrrNextFresh(s, b, in, done) ==
  LET taken  == IF AcknowledgeNotSpurious(s, b, done) THEN {IrqValue(s)} ELSE {}
      sensed == IF s.ltim THEN in ELSE in \ s.interrupt_last
  IN  IF b.kind = "icw1" THEN {} ELSE ((s.irr \cap in) \ taken) \cup sensed

IrrNext(s, b, in, done) ==
  LET taken  == IF AcknowledgeNotSpurious(s, b, done)
                  THEN {s.interrupt_vector.line} ELSE {}
      sensed == IF s.ltim THEN in ELSE in \ s.interrupt_last
  IN  IF b.kind = "icw1" THEN {} ELSE ((s.irr \cap in) \ taken) \cup sensed

\* An end of interrupt in the cycle of an acknowledge wins over it.
IsrNext(s, b, done) ==
  CASE b.kind = "icw1" -> {}
    [] b.kind \in {"eoi_specific", "eoi_rotate_specific"} -> s.isr \ {b.line}
    [] PollRead(s, b) \/ b.kind \in {"eoi", "eoi_rotate"} ->
         s.isr \ {First(s.isr, s.lowest_priority)}
    [] OTHER -> IF AcknowledgeNotSpurious(s, b, done) /\ ~s.auto_eoi
                  THEN s.isr \cup {s.interrupt_vector.line} ELSE s.isr

ImrNext(s, b) ==
  CASE b.kind = "icw1" -> {} [] b.kind = "ocw1" -> b.mask [] OTHER -> s.imr

LowestPriorityNext(s, b, done) ==
  CASE b.kind = "icw1" -> N - 1
    [] b.kind = "eoi_rotate" -> NextLine(s.lowest_priority)
    [] b.kind \in {"set_priority", "eoi_rotate_specific"} -> b.line
    [] OTHER -> IF AcknowledgeNotSpurious(s, b, done) /\ s.auto_eoi /\ s.rotate_on_aeoi
                  THEN NextLine(s.lowest_priority) ELSE s.lowest_priority

InterruptDoNext(s, b, done) ==
  b.kind # "icw1" /\ ~Acknowledge(s, b, done) /\ Irq(s)

\* The request went away before the processor acknowledged it.
SpuriousStart(s, done) == s.interrupt_do /\ ~done /\ ~Irq(s)

SpuriousNext(s, b, done) ==
  /\ b.kind # "icw1"
  /\ \/ SpuriousStart(s, done)
     \/ s.spurious /\ ~Acknowledge(s, b, done) /\ ~Irq(s)

SlaveActiveNext(s, b, done) ==
  /\ b.kind # "icw1"
  /\ ~Acknowledge(s, b, done)
  /\ IF Irq(s) \/ s.interrupt_do THEN IrqValue(s) \in s.irr_slave
                                 ELSE s.slave_active

InterruptVectorNext(s, b) ==
  CASE b.kind = "icw1" -> ZeroVector
    [] b.kind # "icw1" /\ (Irq(s) \/ s.interrupt_do) ->
         [off |-> s.interrupt_offset, line |-> IrqValue(s)]
    [] OTHER -> s.interrupt_vector

InitByteNext(s, b) ==
  CASE b.kind = "icw1" -> 2
    [] b.kind = "icw2" -> 3
    [] b.kind = "icw3" /\ s.init_requires_4 -> 4
    [] OTHER -> s.init_byte_expected

InInitNext(s, b) ==
  \/ b.kind = "icw1"
  \/ /\ s.in_init
     /\ ~(b.kind = "icw3" /\ ~s.init_requires_4)
     /\ b.kind # "icw4"

\* An OCW3 sets or clears the poll command with its bit 2 (f); one that has
\* bit 2 clear and bit 6 set ("ocw3_mask_mode") also sets the special mask
\* mode from bit 5 (f).
PolledNext(s, b) ==
  /\ ~PollRead(s, b)
  /\ CASE b.kind = "ocw3" -> b.f
       [] b.kind = "ocw3_mask_mode" -> FALSE
       [] OTHER -> s.polled

IoReadLastNext(s, b) == ReadValid(s, b)

\* A register that one kind of access loads.
Loaded(b, kind, new, old) == IF b.kind = kind THEN new ELSE old

----------------------------------------------------------------------------
\* One clock cycle of the chip.
ClockChip(s, b, in, done) ==
  [interrupt_last     |-> in,
   irr                |-> IrrNext(s, b, in, done),
   isr                |-> IsrNext(s, b, done),
   imr                |-> ImrNext(s, b),
   irr_slave          |-> Loaded(b, "icw3", b.mask, s.irr_slave),
   lowest_priority    |-> LowestPriorityNext(s, b, done),
   interrupt_do       |-> InterruptDoNext(s, b, done),
   interrupt_vector   |-> InterruptVectorNext(s, b),
   spurious           |-> SpuriousNext(s, b, done),
   slave_active       |-> SlaveActiveNext(s, b, done),
   interrupt_offset   |-> Loaded(b, "icw2", b.off, s.interrupt_offset),
   in_init            |-> InInitNext(s, b),
   init_requires_4    |-> Loaded(b, "icw1", b.f, s.init_requires_4),
   init_byte_expected |-> InitByteNext(s, b),
   ltim               |-> Loaded(b, "icw1", b.g, s.ltim),
   auto_eoi           |-> Loaded(b, "icw4", b.f, Loaded(b, "icw1", FALSE, s.auto_eoi)),
   rotate_on_aeoi     |-> Loaded(b, "rotate_on_aeoi", b.f,
                               Loaded(b, "icw1", FALSE, s.rotate_on_aeoi)),
   special_mask       |-> Loaded(b, "ocw3_mask_mode", b.f,
                               Loaded(b, "icw1", FALSE, s.special_mask)),
   polled             |-> PolledNext(s, b),
   io_read_last       |-> IoReadLastNext(s, b)]
=============================================================================
