-------------------------------- MODULE Pic --------------------------------
(***************************************************************************)
(* The interrupt path of the machine: the two cascaded 8259 chips of       *)
(* rtl/soc/pic.v, the processor's interrupt acceptance (pipeline/write.v   *)
(* and exception.v) and its programmed accesses to the chips through the   *)
(* I/O bus (iobus.v).  Every action is one cycle of the system clock, in   *)
(* which both chips take a step; the action says what the processor does   *)
(* in that cycle.                                                          *)
(*                                                                         *)
(* The acceptance takes three cycles.  In "run" the write stage sees       *)
(* interrupt_do at an instruction boundary and raises wr_interrupt_possible*)
(* (phase "possible"); exception.v raises interrupt_done (phase "done"),   *)
(* and in that cycle stores the vector the chips present.  Between the     *)
(* first and the last cycle the device may withdraw its request.           *)
(***************************************************************************)
EXTENDS I8259, Sequences

CONSTANTS Cascade,      \* the master's line driven by the slave (2)
          MasterWired,  \* lines of the master with a device behind them
          SlaveWired,   \* lines of the slave with a device behind them
          Boot,         \* the accesses the firmware starts with
          Commands      \* the accesses software makes afterwards

\* A programmed access and the chip it selects.
Selected == [chip: {"master", "slave"}, access: Access]

ASSUME CascadeAssumption == Cascade \in Line
ASSUME WiringAssumption == /\ MasterWired \subseteq Line \ {Cascade}
                           /\ SlaveWired \subseteq Line
ASSUME ProgramAssumption == /\ Boot \in Seq(Selected)
                            /\ Commands \subseteq Selected

VARIABLES mas, sla,  \* the two chips
          phase,     \* where the processor is in accepting an interrupt
          pc,        \* the next access of Boot
          vector     \* the vector the exception unit stored last

vars == <<mas, sla, phase, pc, vector>>

Phase == {"run", "io", "possible", "done", "load"}

Idle == [kind |-> "idle", line |-> 0, mask |-> {}, off |-> ZeroOffset,
         f |-> FALSE, g |-> FALSE]

TypeOK == /\ mas \in Chip
          /\ sla \in Chip
          /\ phase \in Phase
          /\ pc \in 1 .. Len(Boot) + 1
          /\ vector \in Vector

Init == /\ mas = ResetChip
        /\ sla = ResetChip
        /\ phase = "run"
        /\ pc = 1
        /\ vector = ZeroVector

----------------------------------------------------------------------------
\* Variant: the slave is believed to be on the next line.
SlaveSelectOffByOne == mas.interrupt_vector.line = NextLine(Cascade)

\* The master's vector names the cascade line, so the slave answers.
SlaveSelect == mas.slave_active /\ mas.interrupt_vector.line = Cascade

PresentedVector == IF SlaveSelect THEN sla.interrupt_vector ELSE mas.interrupt_vector

\* Variant: the slave's output is not wired to the master.
MasterInputUnwired(devices) == devices

\* The output of the slave is an input line of the master.
MasterInput(devices) == devices \cup (IF sla.interrupt_do THEN {Cascade} ELSE {})

\* One cycle of both chips: the accesses they see, the acknowledge, and any
\* levels of the lines with devices.
MasterAfter(b, done) ==
  {ClockChip(mas, b, MasterInput(devices), done) : devices \in SUBSET MasterWired}

SlaveAfter(b, done) ==
  {ClockChip(sla, b, devices, done /\ SlaveSelect) : devices \in SUBSET SlaveWired}

Clock(bm, bs, done) ==
  \E m \in MasterAfter(bm, done), s \in SlaveAfter(bs, done) : mas' = m /\ sla' = s

\* The processor runs code that makes no access and takes no interrupt.
Compute == /\ phase = "run"
           /\ UNCHANGED <<phase, pc, vector>>
           /\ Clock(Idle, Idle, FALSE)

\* The cycle in which the bus strobes a read or a write of one of the chips.
\* The instruction waits for the bus, so no interrupt is accepted meanwhile.
Strobe(x) == /\ phase = "run"
             /\ Accepts(IF x.chip = "master" THEN mas ELSE sla, x.access)
             /\ phase' = "io"
             /\ UNCHANGED vector
             /\ IF x.chip = "master" THEN Clock(x.access, Idle, FALSE)
                                     ELSE Clock(Idle, x.access, FALSE)

BootAccess == /\ pc <= Len(Boot)
              /\ pc' = pc + 1
              /\ Strobe(Boot[pc])

CommandAccess(x) == /\ pc > Len(Boot)
                    /\ UNCHANGED pc
                    /\ Strobe(x)

\* The bus controller samples the answer in the cycle after the strobe.
IoDone == /\ phase = "io"
          /\ phase' = "run"
          /\ UNCHANGED <<pc, vector>>
          /\ Clock(Idle, Idle, FALSE)

\* An instruction retires with the interrupt flag set and interrupt_do high.
\* The firmware sets the flag only after it has initialised the chips.
Accept == /\ phase = "run"
          /\ pc > Len(Boot)
          /\ mas.interrupt_do
          /\ phase' = "possible"
          /\ UNCHANGED <<pc, vector>>
          /\ Clock(Idle, Idle, FALSE)

Possible == /\ phase = "possible"
            /\ phase' = "done"
            /\ UNCHANGED <<pc, vector>>
            /\ Clock(Idle, Idle, FALSE)

\* interrupt_done is high: the chips retire the request and the exception
\* unit stores the vector.
Done == /\ phase = "done"
        /\ phase' = "load"
        /\ vector' = PresentedVector
        /\ UNCHANGED pc
        /\ Clock(Idle, Idle, TRUE)

\* The pipeline restarts with the vector; it was reset, so nothing retires.
Load == /\ phase = "load"
        /\ phase' = "run"
        /\ UNCHANGED <<pc, vector>>
        /\ Clock(Idle, Idle, FALSE)

Next == \/ Compute \/ BootAccess \/ (\E x \in Commands : CommandAccess(x))
        \/ IoDone \/ Accept \/ Possible \/ Done \/ Load

Spec == Init /\ [][Next]_vars

\* The clock never stops: an access, an acceptance in progress and the boot
\* sequence go on.  Software keeps enabling interrupts at instruction
\* boundaries (Accept) and keeps ending the interrupts it serves.
EndsOfInterrupt == {x \in Commands : x.access.kind = "eoi"}

LiveSpec ==
  /\ Spec
  /\ WF_vars(BootAccess)
  /\ WF_vars(IoDone \/ Possible \/ Done \/ Load)
  /\ SF_vars(Accept)
  /\ \A x \in EndsOfInterrupt : SF_vars(CommandAccess(x))

----------------------------------------------------------------------------
(* Properties.                                                             *)

\* What an acknowledge puts in service is unmasked, was not in service, and in
\* fully nested operation outranks everything in service on its chip.
PutInService(s) ==
  LET l == s.interrupt_vector.line IN
  /\ l \notin s.imr \cup s.isr
  /\ ~s.special_mask =>
       \A k \in s.isr : Rank(l, s.lowest_priority) < Rank(k, s.lowest_priority)

\* A request that went away is answered with a line that is not to be served:
\* the lowest, or one that what is in service outranks.
OutrankedInService(s) ==
  LET l == s.interrupt_vector.line IN
  \/ l = s.lowest_priority
  \/ Rank(First(s.isr, s.lowest_priority), s.lowest_priority)
       < Rank(l, s.lowest_priority)

AnswerOK(s) == /\ s.interrupt_do \/ s.spurious
               /\ ~s.spurious => PutInService(s)
               /\ s.spurious => OutrankedInService(s)

\* When the processor acknowledges, the master still has a request to answer
\* with or has marked it spurious, although devices come and go in the cycles
\* since the processor accepted: a request put in service respects the nesting,
\* a spurious one never claims an urgency it has not.
MasterAcknowledge == phase = "done" => AnswerOK(mas)

\* The same of the slave when the master's vector names it: the slave is never
\* selected with nothing to say.  (The master may be spurious then: a request ahead
\* of the cascade line went away and what is in service outranks that line.)
SlaveAcknowledge == phase = "done" /\ SlaveSelect => AnswerOK(sla)

\* A latched request whose device keeps the line asserted leaves the request
\* register only when its own vector is the one the processor stores, when its
\* chip is initialised, or by a poll (which takes the line of the last vector,
\* IrrNext): no acknowledge meant for one line consumes another.
DeliveredAs(s, l, n) ==
  \/ l \notin s.irr
  \/ l \in n.irr
  \/ l \notin n.interrupt_last
  \/ n.in_init
  \/ phase = "done" /\ ~s.spurious /\ vector' = [off |-> s.interrupt_vector.off, line |-> l]
  \/ s.polled /\ n.io_read_last /\ l = s.interrupt_vector.line

NoRequestSwallowed ==
  [][/\ \A l \in MasterWired : DeliveredAs(mas, l, mas')
     /\ \A l \in SlaveWired : DeliveredAs(sla, l, sla')]_vars

\* Line 0 of the master, the most urgent one, is served whatever the others do:
\* it does not stay requested, unmasked and out of service for ever.  Once the
\* master's own lines fall quiet, the most urgent request of the slave is not
\* lost between the edge triggered chips either: it is served or withdrawn.
TopServed ==
  /\ []<>(0 \notin Prepared(mas))
  /\ <>[](mas.irr \subseteq {Cascade}) => []<>(0 \notin Prepared(sla))

=============================================================================
