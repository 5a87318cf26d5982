----------------------------- MODULE Exceptions -----------------------------
(***************************************************************************)
(* Exceptions, interrupts and the pipeline of the processor, cycle by      *)
(* cycle: exception.v with what it sees of the stages in pipeline/*.v.     *)
(*                                                                         *)
(* A stage holds a command: what it does, the address after it (eip) and   *)
(* its length.  Commands are                                               *)
(*   plain, jump        an instruction; a jump flushes what is behind it   *)
(*   str                one iteration of a repeated string instruction     *)
(*   soft               the first step of INT n                            *)
(*   step0, step, fin   the microcode that enters a handler: its first     *)
(*                      step, the ones that may fault, and the last.       *)
(* In a cycle every stage goes on, waits or signals a fault; an interrupt  *)
(* or a breakpoint may come when an instruction completes.                 *)
(*                                                                         *)
(* pc, event and nest are history: the instruction to complete next, the   *)
(* event being delivered, and the kinds of exceptions met on the way.      *)
(***************************************************************************)
EXTENDS Naturals, Sequences

CONSTANTS P,            \* addresses are 0 .. P - 1
          Handler,      \* where the handlers start
          RealMode,     \* no error codes
          DecFaults, RdFaults, ExeFaults, WrFaults,  \* what a stage signals
          IrqVectors, IntVectors                     \* of interrupts and INT n

Exceptions == {"DE", "DB", "UD", "NM", "BR", "AC", "DF", "TS", "NP", "SS", "GP", "PF"}
Contributory == {"DE", "TS", "NP", "SS", "GP"}
WithErrorCode == {"DF", "TS", "NP", "SS", "GP", "PF", "AC"}

Vectors == Exceptions \cup IrqVectors \cup IntVectors \cup {"none"}

ASSUME AddressAssumption == P \in Nat /\ P > 1 /\ Handler \in 0 .. P - 1
ASSUME ModeAssumption == RealMode \in BOOLEAN
ASSUME FaultAssumption ==
  /\ DecFaults \subseteq {"GP", "UD", "PF"}
  /\ RdFaults  \subseteq {"GP", "SS", "TS", "AC", "PF"}
  /\ ExeFaults \subseteq {"DE", "GP", "TS", "SS", "NP", "NM", "DB", "PF", "BR"}
  /\ WrFaults  \subseteq {"SS", "GP", "AC", "PF"}
ASSUME NoneAssumption == "none" \notin IrqVectors \cup IntVectors

VARIABLES
  eip, decFault,           \* of the decoder
  mc,                      \* the step the microcode issues next
  rd, exe, wr, wrMutex,    \* the stages behind it
  wrString,                \* wr_string_in_progress_last
  possible, done, dbg,     \* wr_interrupt_possible, interrupt_done, wr_debug_init
  load,                    \* exc_load
  intString,               \* interrupt_string_in_progress
  full,                    \* exc_vector_full
  excEip, pushError, softInt,
  errExt,                  \* bit 0 of exc_error_code
  external, count, lastType, shutdown,
  pc, event, nest

stages  == <<eip, decFault, mc, rd, exe, wr, wrMutex, wrString>>
arrival == <<possible, done, dbg, load, intString>>
unit    == <<full, excEip, pushError, softInt, errExt, external, count, lastType, shutdown>>
history == <<pc, event, nest>>
vars    == <<stages, arrival, unit, history>>

Addresses == 0 .. P - 1
Faults    == DecFaults \cup RdFaults \cup ExeFaults \cup WrFaults
Types     == {"benign", "contributory", "page", "double"}
Delivery  == {"step0", "step", "fin"}
Commands  == {"plain", "jump", "str", "soft"}

Command == [cmd : Commands \cup Delivery \cup {"null"}, eip : Addresses, len : {0, 1}]
Null    == [cmd |-> "null", eip |-> 0, len |-> 0]

Busy(s)   == s.cmd # "null"
Origin(s) == (s.eip + P - s.len) % P
After(a)  == (a + 1) % P

Type(v) == CASE v \in Contributory -> "contributory"
             [] v = "DF" -> "double"
             [] v = "PF" -> "page"
             [] OTHER -> "benign"

NoEvent == [vec |-> "none", src |-> "none", ext |-> FALSE]

Init ==
  /\ eip = 0 /\ decFault = "none" /\ mc = Null
  /\ rd = Null /\ exe = Null /\ wr = Null /\ wrMutex = FALSE /\ wrString = FALSE
  /\ possible = FALSE /\ done = FALSE /\ dbg = FALSE /\ load = FALSE /\ intString = FALSE
  /\ full = [valid |-> FALSE, vec |-> "none"]
  /\ excEip = 0 /\ pushError = FALSE /\ softInt = FALSE /\ errExt = FALSE
  /\ external = FALSE /\ count = 0 /\ lastType = "benign" /\ shutdown = FALSE
  /\ pc = 0 /\ event = NoEvent /\ nest = <<>>

----------------------------------------------------------------------------
(* The exception unit's view of a cycle.                                   *)

ExcInit == full.valid \/ possible \/ done \/ dbg
Reset   == full.valid \/ dbg \/ done \/ shutdown

Vector == IF dbg THEN "DB" ELSE full.vec

\* Variant: a fault on the way to the double fault handler does not stop.
ShutdownStartLate == count > 2
ShutdownStart == count > 2 \/ (count > 0 /\ lastType = "double")

\* A second exception that turns into a double fault.
Doubles(first, second) ==
  \/ first \in {"contributory", "page"} /\ second = "contributory"
  \/ first = "page" /\ second = "page"

Convert == /\ full.valid \/ dbg
           /\ ~ShutdownStart /\ count > 0
           /\ Doubles(lastType, Type(Vector))

ExceptionStart == (full.valid \/ dbg) /\ ~Convert /\ ~ShutdownStart

(* What the stages do in a cycle with inputs e: each of e.rd, e.exe, e.wr  *)
(* is "go", "wait" or the fault signalled, which makes the stage wait.     *)

WrReady(e) == Busy(wr) /\ e.wr = "go"

\* The last iteration of a string instruction, jumps and the end of delivery
\* flush what follows.
Flush(e)     == WrReady(e) /\ (wr.cmd \in {"jump", "fin"} \/ (wr.cmd = "str" /\ e.last))
FlushAll(e)  == WrReady(e) /\ wr.cmd \in {"jump", "fin"}
InString(e)  == WrReady(e) /\ wr.cmd = "str" /\ ~e.last

Finished(e)     == WrReady(e) /\ wr.cmd \in {"plain", "jump", "str", "fin"}
DebugPrepare(e) == Finished(e) /\ e.dbg
Prepare(e)      == Finished(e) /\ e.irq /\ ~DebugPrepare(e)

WrBusy(e) == (Busy(wr) /\ e.wr # "go") \/ ExcInit \/ DebugPrepare(e) \/ Prepare(e)

ExeReady(e) == /\ ~Reset /\ ~Flush(e) /\ ~WrBusy(e)
               /\ Busy(exe) /\ e.exe = "go"
RdReady(e)  == /\ ~Reset /\ ~Flush(e)
               /\ Busy(rd) /\ e.rd = "go"
               /\ Busy(exe) => ExeReady(e)

RdBusy(e) == Busy(rd) /\ ~RdReady(e)
Overlay   == Busy(mc)

DecReady(e) == /\ ~Reset /\ ~FlushAll(e)
               /\ decFault = "none" /\ e.dec # "none"
               /\ ~RdBusy(e) /\ ~Overlay

MicroReady(e) == /\ ~Reset /\ ~Flush(e)
                 /\ IF Overlay THEN ~RdBusy(e) ELSE DecReady(e)

\* The command the microcode hands to the read stage.
Micro(e) == [cmd |-> IF Overlay THEN mc.cmd ELSE e.dec,
             eip |-> IF load THEN excEip ELSE IF Overlay THEN mc.eip ELSE After(eip),
             len |-> IF load THEN 0 ELSE IF Overlay THEN mc.len ELSE 1]

NextStep(c) == CASE c = "soft" -> "step0"
                 [] c = "step0" -> "step"
                 [] c = "step" -> "fin"
                 [] OTHER -> c          \* fin and str loop until they flush

WrFront  == Busy(wr)
ExeFront == Busy(exe) /\ ~wrMutex
\* Variant: only the execute stage is looked at.
RdFrontOfExe == Busy(rd) /\ ~Busy(exe)
RdFront  == Busy(rd) /\ ~Busy(exe) /\ ~wrMutex
DecFront == ~Busy(rd) /\ ~Busy(exe) /\ ~wrMutex

WrInt(e) == WrReady(e) /\ wr.cmd = "soft"

ActiveWr(e)  == WrFront  /\ ~ExcInit /\ (e.wr \in WrFaults \/ WrInt(e))
ActiveExe(e) == ExeFront /\ ~ExcInit /\ e.exe \in ExeFaults
ActiveRd(e)  == RdFront  /\ ~ExcInit /\ e.rd \in RdFaults
ActiveDec(e) == DecFront /\ ~ExcInit /\ decFault # "none"

\* The stage whose exception is taken, and the exception.
Source(e) == IF ActiveWr(e) THEN (IF WrInt(e) THEN "int" ELSE "wr")
             ELSE IF ActiveExe(e) THEN "exe"
             ELSE IF ActiveRd(e)  THEN "rd"
             ELSE IF ActiveDec(e) THEN "dec" ELSE "none"
Fault(e)  == CASE Source(e) = "wr" -> e.wr
               [] Source(e) = "exe" -> e.exe
               [] Source(e) = "rd" -> e.rd
               [] OTHER -> decFault

\* The cycle of inputs e, with what its stages signal.
Signals(e) == [dec |-> e.dec, decFault |-> e.decFault, rd |-> e.rd, exe |-> e.exe, wr |-> e.wr,
               irq |-> e.irq, dbg |-> e.dbg, last |-> e.last, vec |-> e.vec, int |-> e.int,
               to |-> e.to, exeReady |-> ExeReady(e), rdReady |-> RdReady(e),
               decReady |-> DecReady(e), microReady |-> MicroReady(e),
               source |-> Source(e), fault |-> Fault(e)]

StringFinal(e) == InString(e) \/ ((dbg \/ possible) /\ wrString)

----------------------------------------------------------------------------
(* The registers of the stages after the cycle.                            *)

EipNext(e) == IF FlushAll(e) THEN wr.eip ELSE IF e.decReady THEN After(eip) ELSE eip

DecFaultNext(e) ==
  IF Reset \/ FlushAll(e) THEN "none" ELSE IF decFault # "none" THEN decFault ELSE e.decFault

McNext(e) ==
  CASE ExcInit -> [Null EXCEPT !.cmd = "step0"]
    [] ~ExcInit /\ (Reset \/ Flush(e)) -> Null
    [] ~ExcInit /\ e.microReady ->
         IF Overlay \/ e.dec \in {"soft", "str"}
           THEN [Micro(e) EXCEPT !.cmd = NextStep(@)] ELSE Null
    [] OTHER -> mc

RdNext(e)  == CASE Reset \/ Flush(e) -> Null
                [] ~Reset /\ e.microReady -> Micro(e)
                [] ~e.microReady /\ e.rdReady -> Null
                [] OTHER -> rd
ExeNext(e) == CASE Reset \/ Flush(e) -> Null
                [] ~Reset /\ e.rdReady -> rd
                [] ~e.rdReady /\ e.exeReady -> Null
                [] OTHER -> exe
WrNext(e)  == CASE e.exeReady ->
                     [exe EXCEPT !.eip = IF exe.cmd \in {"jump", "fin"} THEN e.to ELSE @]
                [] ~e.exeReady /\ (Reset \/ WrReady(e)) -> [wr EXCEPT !.cmd = "null"]
                [] OTHER -> wr

\* An accepted interrupt keeps the stages behind from being the front.
WrMutexNext(e) == CASE Reset -> FALSE
                    [] ~Reset /\ e.exeReady -> TRUE
                    [] ~Reset /\ ~e.exeReady /\ WrReady(e) /\ ~Prepare(e) -> FALSE
                    [] OTHER -> wrMutex

----------------------------------------------------------------------------
(* The registers of the exception unit after the cycle.                    *)

FullNext(e) ==
  CASE e.source = "int" -> [valid |-> FALSE, vec |-> e.int]
    [] e.source \notin {"int", "none"} -> [valid |-> TRUE, vec |-> e.fault]
    [] e.source = "none" /\ Convert -> [valid |-> TRUE, vec |-> "DF"]
    [] e.source = "none" /\ ~Convert /\ (full.valid \/ dbg) -> [valid |-> FALSE, vec |-> Vector]
    [] e.source = "none" /\ ~full.valid /\ ~dbg /\ done -> [valid |-> FALSE, vec |-> e.vec]
    [] OTHER -> full

\* Variant: a string instruction is taken to be complete.
ExcEipNextWhole(e) ==
  CASE e.source \in {"int", "wr"} -> Origin(wr)
    [] e.source = "exe" -> Origin(exe)
    [] e.source = "rd"  -> Origin(rd)
    [] e.source = "dec" -> eip
    [] e.source = "none" /\ (dbg \/ done) -> wr.eip
    [] OTHER -> excEip

ExcEipNext(e) ==
  CASE e.source \in {"int", "wr"} -> Origin(wr)
    [] e.source = "exe" -> Origin(exe)
    [] e.source = "rd"  -> Origin(rd)
    [] e.source = "dec" -> eip
    [] e.source = "none" /\ dbg -> IF StringFinal(e) THEN Origin(wr) ELSE wr.eip
    [] e.source = "none" /\ ~full.valid /\ ~dbg /\ done ->
         IF intString THEN Origin(wr) ELSE wr.eip
    [] OTHER -> excEip

\* Variant: an interrupt inherits the flag.
PushErrorNextSticky(e) == CASE e.source = "int" -> FALSE
                           [] ExceptionStart -> ~RealMode /\ Vector \in WithErrorCode
                           [] OTHER -> pushError
PushErrorNext(e) == CASE e.source = "int" -> FALSE
                      [] ExceptionStart -> ~RealMode /\ Vector \in WithErrorCode
                      [] ~ExceptionStart /\ done -> FALSE
                      [] OTHER -> pushError

SoftIntNext(e) == CASE e.source = "int" -> TRUE
                    [] ExceptionStart \/ done -> FALSE
                    [] OTHER -> softInt

ErrExtNext(e) == CASE ExceptionStart -> ~RealMode /\ Vector \notin {"PF", "DF"} /\ external
                   [] Convert \/ done -> FALSE
                   [] OTHER -> errExt

ExceptionFinished(e) == WrReady(e) /\ wr.cmd = "fin"

ExternalNext(e) == ~ExceptionFinished(e) /\ (full.valid \/ dbg \/ done \/ external)

CountNext(e) == IF ExceptionFinished(e) THEN 0
                ELSE IF ExceptionStart THEN (count + 1) % 4 ELSE count

LastTypeNext == IF ExceptionStart THEN Type(Vector) ELSE lastType
ShutdownNext == shutdown \/ ((full.valid \/ dbg) /\ ShutdownStart)

----------------------------------------------------------------------------
(* History, by the rules of the architecture.                              *)

DoubleFaults == {<<"contributory", "contributory">>, <<"page", "contributory">>,
                 <<"page", "page">>}

Last == nest[Len(nest)]

\* An exception on the way to a handler: the fourth in a row and any on the
\* way to the double fault handler stop the processor.
Raise(v) ==
  CASE Len(nest) = 3 \/ (nest # <<>> /\ Last = "double") ->
         nest' = nest /\ event' = [NoEvent EXCEPT !.src = "halt"]
    [] Len(nest) \in 1 .. 2 /\ <<Last, Type(v)>> \in DoubleFaults ->
         nest' = Append(nest, "double") /\ event' = [vec |-> "DF", src |-> "exc", ext |-> FALSE]
    [] OTHER ->
         /\ nest' = Append(nest, Type(v))
         /\ event' = [vec |-> v, src |-> "exc", ext |-> event.src \in {"irq", "exc"}]

\* The debug exception of a completed instruction is the first of a delivery.
HistoryNext(e) ==
  /\ pc' = IF Finished(e) /\ ~InString(e) THEN wr.eip ELSE pc
  /\ CASE e.source = "int" -> event' = [vec |-> e.int, src |-> "soft", ext |-> FALSE] /\ nest' = <<>>
       [] e.source \notin {"int", "none"} -> Raise(e.fault)
       [] e.source = "none" /\ DebugPrepare(e) ->
            event' = [vec |-> "DB", src |-> "exc", ext |-> FALSE] /\ nest' = <<"benign">>
       [] e.source = "none" /\ ~DebugPrepare(e) /\ done ->
            event' = [vec |-> e.vec, src |-> "irq", ext |-> FALSE] /\ nest' = <<>>
       [] e.source = "none" /\ ~DebugPrepare(e) /\ ExceptionFinished(e) ->
            event' = NoEvent /\ nest' = <<>>
       [] OTHER -> UNCHANGED <<event, nest>>

----------------------------------------------------------------------------

MayFault(s) == s.cmd \in {"plain", "jump", "str", "step"}

\* A fault is held until the stage is reset, so while an exception is
\* initiated the write stage does not go on.  A jump has its target in the
\* write stage, so it neither waits nor faults there.  The first step of a delivery
\* waits in the execute stage until the write stage is empty.
WrInputs  == IF Busy(wr) /\ full.valid THEN {"wait"}
             ELSE IF MayFault(wr) /\ wr.cmd # "jump" THEN {"go", "wait"} \cup WrFaults ELSE {"go"}
ExeInputs == IF Reset THEN {"go"} ELSE IF exe.cmd = "step0" /\ wrMutex THEN {"wait"}
             ELSE IF MayFault(exe) THEN {"go", "wait"} \cup ExeFaults ELSE {"go"}
RdInputs  == IF ~Reset /\ MayFault(rd) THEN {"go", "wait"} \cup RdFaults ELSE {"go"}

\* A stage that is held up by the next one need not wait by itself.
Matters(r, x, w) ==
  /\ r = "wait" /\ Busy(exe) => x = "go" /\ w = "go"
  /\ x = "wait" /\ MayFault(exe) => w = "go" /\ ~ExcInit

Decodable == ~Reset /\ decFault = "none"
DecInputs(r, x, w) ==
  IF Decodable /\ ~Overlay /\ (Busy(rd) => r = "go" /\ (Busy(exe) => x = "go" /\ w = "go"))
    THEN Commands \cup {"none"} ELSE {"none"}

\* What may come when the command in the write stage completes, what an
\* accepted interrupt and INT n ask for, and the target of a jump.
Arrivals(w)   == IF w = "go" /\ wr.cmd \in {"plain", "jump", "str", "fin"}
                   THEN {"none", "irq", "dbg"} ELSE {"none"}
Iterations(w) == IF w = "go" /\ wr.cmd = "str" THEN BOOLEAN ELSE {FALSE}
Acknowledged  == IF done THEN IrqVectors ELSE {CHOOSE v \in IrqVectors : TRUE}
Requested     == IF wr.cmd = "soft" THEN IntVectors ELSE {CHOOSE v \in IntVectors : TRUE}
Targets(x)    == IF exe.cmd = "jump" /\ x = "go" /\ ~Reset THEN Addresses ELSE {Handler}

Cycle(e) ==
  /\ eip' = EipNext(e) /\ decFault' = DecFaultNext(e) /\ mc' = McNext(e)
  /\ rd' = RdNext(e) /\ exe' = ExeNext(e) /\ wr' = WrNext(e)
  /\ wrMutex' = WrMutexNext(e) /\ wrString' = InString(e)
  /\ possible' = (~Reset /\ Prepare(e)) /\ done' = possible /\ dbg' = DebugPrepare(e)
  /\ load' = (ExceptionStart \/ done)
  /\ intString' = IF possible THEN StringFinal(e) ELSE intString
  /\ full' = FullNext(e) /\ excEip' = ExcEipNext(e)
  /\ pushError' = PushErrorNext(e) /\ softInt' = SoftIntNext(e) /\ errExt' = ErrExtNext(e)
  /\ external' = ExternalNext(e) /\ count' = CountNext(e)
  /\ lastType' = LastTypeNext /\ shutdown' = ShutdownNext
  /\ HistoryNext(e)

\* Inputs that cannot matter in a state have one value.
Next ==
  \E r \in RdInputs, x \in ExeInputs, w \in WrInputs :
  /\ Matters(r, x, w)
  /\ \E d \in DecInputs(r, x, w), arrives \in Arrivals(w), last \in Iterations(w),
        vec \in Acknowledged, int \in Requested, to \in Targets(x) :
     \E f \in IF Decodable /\ d = "none" THEN DecFaults \cup {"none"} ELSE {"none"} :
     \E e \in {Signals([dec |-> d, decFault |-> f, rd |-> r, exe |-> x, wr |-> w,
                       irq |-> arrives = "irq", dbg |-> arrives = "dbg", last |-> last,
                       vec |-> vec, int |-> int, to |-> to])} : Cycle(e)

Spec == Init /\ [][Next]_vars

----------------------------------------------------------------------------
(* Properties.                                                             *)

\* Whatever faults, jumps and interrupts came before, the stage that may act
\* next holds the instruction to complete next (or a step of its delivery).
FrontIsNext ==
  /\ WrFront /\ wr.cmd \notin {"jump", "fin"} => Origin(wr) = pc
  /\ ExeFront /\ ~ExcInit => Origin(exe) = pc
  /\ RdFront /\ ~ExcInit => Origin(rd) = pc
  /\ DecFront /\ ~Overlay /\ ~ExcInit /\ ~shutdown => eip = pc

\* A handler is entered with the return address of the instruction to complete
\* next, and with nothing of the interrupted program in the pipeline.  It is the
\* handler of the event, and its frame has the shape that handler expects.
PreciseEntry ==
  /\ load => excEip = pc /\ ~Busy(rd) /\ ~Busy(exe) /\ ~Busy(wr) /\ ~wrMutex
  /\ \A s \in {exe, wr} : ~ExcInit /\ s.cmd \in {"step", "fin"} =>
       /\ full.vec = event.vec
       /\ pushError = (event.src = "exc" /\ ~RealMode /\ event.vec \in WithErrorCode)
       /\ softInt = (event.src = "soft")
       /\ pushError /\ event.vec # "PF" => errExt = event.ext

\* The processor stops exactly when the architecture's rules say so (shutdown_start
\* knows the count and the class of the last exception only).
ShutdownRule ==
  /\ shutdown => event.src = "halt"
  /\ event.src = "halt" => full.valid \/ shutdown

=============================================================================
