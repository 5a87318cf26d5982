-------------------------- MODULE ExceptionsProofs --------------------------
(***************************************************************************)
(* Proofs about Exceptions: a handler is entered precisely and the         *)
(* processor stops when the architecture says so, for every number of      *)
(* addresses and whatever the stages signal, in real and protected mode.   *)
(***************************************************************************)
EXTENDS Exceptions, TLAPS

Empty   == ~Busy(rd) /\ ~Busy(exe) /\ ~Busy(wr)
Running == ~ExcInit /\ ~shutdown

TypeInv ==
  /\ eip \in Addresses /\ decFault \in DecFaults \cup {"none"}
  /\ rd \in Command /\ exe \in Command /\ wr \in Command
  /\ mc \in Command /\ mc.cmd \in {"null", "str"} \cup Delivery
  /\ wrMutex \in BOOLEAN /\ wrString \in BOOLEAN
  /\ possible \in BOOLEAN /\ done \in BOOLEAN /\ dbg \in BOOLEAN
  /\ load \in BOOLEAN /\ intString \in BOOLEAN
  /\ full.valid \in BOOLEAN /\ excEip \in Addresses
  /\ pushError \in BOOLEAN /\ softInt \in BOOLEAN /\ errExt \in BOOLEAN /\ external \in BOOLEAN
  /\ count \in 0 .. 3 /\ lastType \in Types /\ shutdown \in BOOLEAN
  /\ pc \in Addresses /\ nest \in Seq(Types)
  /\ event.src \in {"none", "soft", "irq", "exc", "halt"} /\ event.ext \in BOOLEAN

----------------------------------------------------------------------------
(* The exception unit is in at most one of its modes, and the stages are   *)
(* drained accordingly.                                                    *)

Modes ==
  /\ full.valid => ~possible /\ ~done /\ ~dbg /\ ~load /\ ~shutdown
  /\ possible => ~done /\ ~dbg /\ ~load /\ ~shutdown
  /\ done => ~dbg /\ ~load /\ ~shutdown
  /\ dbg => ~load /\ ~shutdown
  /\ load => ~shutdown

Drained ==
  /\ Busy(wr) => wrMutex
  /\ wrMutex /\ ~Busy(wr) => possible \/ done
  /\ possible \/ done \/ dbg => ~Busy(wr)
  /\ load \/ shutdown => Empty /\ decFault = "none"
  /\ load => mc = [Null EXCEPT !.cmd = "step0"]

\* Where the program goes on; a command that signalled a fault in the write stage
\* stays there until the unit has seen it.
Resume ==
  /\ full.valid \/ load => excEip = pc
  /\ full.valid /\ Busy(wr) /\ wr.cmd \notin {"jump", "fin"} => Origin(wr) = pc
  /\ dbg \/ possible => pc = IF wrString THEN Origin(wr) ELSE wr.eip
  /\ done => pc = IF intString THEN Origin(wr) ELSE wr.eip

----------------------------------------------------------------------------
(* What the unit knows of the event.                                       *)

\* Between exceptions the count and the last class are those of the history.
Counted ==
  /\ event.src \in {"none", "soft", "irq"} => nest = <<>>
  /\ event.src = "exc" => nest # <<>>
  /\ Len(nest) <= 3
  /\ ~full.valid /\ ~dbg /\ ~shutdown =>
       /\ event.src # "halt" /\ count = Len(nest) /\ (nest # <<>> => lastType = Last)
       /\ external = (event.src \in {"irq", "exc"})
  /\ shutdown => event.src = "halt"
  /\ possible \/ done => event.src = "none"
  /\ load => event.src \in {"irq", "exc"}
  /\ dbg => event.src = "exc" /\ event.vec = "DB" /\ nest = <<"benign">> /\ count = 0

\* An exception that was signalled and not started is one more than the unit has
\* counted: the fourth or one after a double fault, one that turns into a double
\* fault, or one to deliver.
Signalled ==
  full.valid =>
    \/ event.src = "halt" /\ ShutdownStart
    \/ event.src = "exc" /\ Convert /\ event.vec = "DF" /\ Last = "double"
       /\ event.ext = FALSE /\ count = Len(nest) - 1
    \/ event.src = "exc" /\ ExceptionStart /\ event.vec = full.vec /\ Last = Type(full.vec)
       /\ count = Len(nest) - 1
       /\ event.ext = (external /\ full.vec # "DF")

\* While a handler is being entered the unit has its vector and its frame.
Entered ==
  Running /\ event.src # "none" =>
    /\ full.vec = event.vec
    /\ pushError = (event.src = "exc" /\ ~RealMode /\ event.vec \in WithErrorCode)
    /\ softInt = (event.src = "soft")
    /\ pushError /\ event.vec # "PF" => errExt = event.ext

----------------------------------------------------------------------------
(* The commands in the stages: each one starts where the older one ends.   *)

\* The oldest command.
First(s) == /\ s.cmd \notin {"jump", "fin"} => Origin(s) = pc
            /\ s.cmd \in Delivery <=> event.src # "none"

Step(s) == [s EXCEPT !.cmd = NextStep(@)]

Behind(s, t) ==
  IF s.cmd \in {"plain", "jump"} THEN t.cmd \in Commands /\ Origin(t) = s.eip ELSE t = Step(s)

\* A jump or the end of a delivery in the write stage has its target.
BehindWr(t) ==
  CASE wr.cmd = "jump" -> t.cmd \in Commands
    [] wr.cmd = "fin"  -> t.cmd = "fin"
    [] OTHER -> Behind(wr, t)

\* A command that follows the one in the write stage, and one that follows that of
\* the execute stage, or the oldest one where these are empty.
AfterWr(t)  == IF Busy(wr) THEN BehindWr(t) ELSE First(t) /\ Origin(t) = pc
AfterExe(t) == IF Busy(exe) THEN Behind(exe, t) ELSE AfterWr(t)

\* The decoder is behind a command that leaves it the next one.
Decoded(s) == s.cmd \in {"plain", "jump"} /\ s.eip = eip

InOrder ==
  /\ Busy(wr) => First(wr)
  /\ Busy(exe) => AfterWr(exe)
  /\ Busy(rd) => AfterExe(rd)
  /\ Overlay => Busy(rd) /\ rd.cmd \notin {"plain", "jump"} /\ mc = Step(rd)
                /\ (mc.cmd = "str" => mc.eip = eip)
  /\ ~Overlay => IF Busy(rd) THEN Decoded(rd)
                 ELSE IF Busy(exe) THEN Decoded(exe)
                 ELSE IF Busy(wr) THEN wr.cmd \in {"plain", "jump"} /\ (wr.cmd = "plain" => wr.eip = eip)
                 ELSE eip = pc /\ event.src = "none"

Chain == Running /\ ~load => InOrder

IInv == TypeInv /\ Modes /\ Drained /\ Resume /\ Counted /\ Signalled /\ Entered /\ Chain

----------------------------------------------------------------------------
(* Addresses and inputs.                                                   *)

LEMMA Behinds ==
  ASSUME NEW a \in Addresses
  PROVE  /\ After(a) \in Addresses
         /\ (After(a) + P - 1) % P = a
         /\ (a + P - 0) % P = a
BY AddressAssumption DEF Addresses, After

LEMMA OriginType ==
  ASSUME NEW s \in Command
  PROVE  Origin(s) \in Addresses /\ (s.len = 0 => Origin(s) = s.eip)
<1>1. s.eip \in 0 .. P - 1 /\ s.len \in {0, 1} /\ P \in Nat /\ P > 1
  BY AddressAssumption DEF Command, Addresses
<1>2. CASE s.len = 0
  BY <1>1, <1>2 DEF Origin, Addresses
<1>3. CASE s.len = 1
  BY <1>1, <1>3 DEF Origin, Addresses
<1>4. QED  BY <1>1, <1>2, <1>3

\* A command decoded at eip starts there.
LEMMA Decodes ==
  ASSUME NEW a \in Addresses, NEW s, s.eip = After(a), s.len = 1
  PROVE  Origin(s) = a
BY Behinds DEF Origin

LEMMA FaultKinds ==
  /\ \A v \in Faults : Type(v) \in {"benign", "contributory", "page"} /\ v # "DF" /\ v # "none"
  /\ \A v \in WrFaults \cup ExeFaults \cup RdFaults \cup DecFaults :
       v \notin {"go", "wait", "none"} /\ v \in Faults
BY FaultAssumption DEF Faults, Type, Contributory

\* What the inputs of a cycle satisfy.
Input(e) ==
  /\ e.wr \in WrInputs /\ e.exe \in ExeInputs /\ e.rd \in RdInputs
  /\ e.dec \in Commands \cup {"none"} /\ (Overlay => e.dec = "none")
  /\ e.decFault \in DecFaults \cup {"none"}
  /\ e.irq \in BOOLEAN /\ e.dbg \in BOOLEAN /\ e.last \in BOOLEAN /\ ~(e.irq /\ e.dbg)
  /\ e.to \in Addresses
  /\ e.exeReady = ExeReady(e) /\ e.rdReady = RdReady(e)
  /\ e.decReady = DecReady(e) /\ e.microReady = MicroReady(e)
  /\ e.source = Source(e) /\ e.fault = Fault(e)

LEMMA Inputs ==
  ASSUME Next
  PROVE  \E e : Input(e) /\ Cycle(e)
<1>1. PICK r \in RdInputs, x \in ExeInputs, w \in WrInputs :
        \E d \in DecInputs(r, x, w), arrives \in Arrivals(w), last \in Iterations(w),
           vec \in Acknowledged, int \in Requested, to \in Targets(x) :
        \E f \in IF Decodable /\ d = "none" THEN DecFaults \cup {"none"} ELSE {"none"} :
        \E e \in {Signals([dec |-> d, decFault |-> f, rd |-> r, exe |-> x, wr |-> w,
                          irq |-> arrives = "irq", dbg |-> arrives = "dbg", last |-> last,
                          vec |-> vec, int |-> int, to |-> to])} : Cycle(e)
  BY DEF Next
<1>2. PICK d \in DecInputs(r, x, w), arrives \in Arrivals(w), last \in Iterations(w),
           vec \in Acknowledged, int \in Requested, to \in Targets(x) :
        \E f \in IF Decodable /\ d = "none" THEN DecFaults \cup {"none"} ELSE {"none"} :
        \E e \in {Signals([dec |-> d, decFault |-> f, rd |-> r, exe |-> x, wr |-> w,
                          irq |-> arrives = "irq", dbg |-> arrives = "dbg", last |-> last,
                          vec |-> vec, int |-> int, to |-> to])} : Cycle(e)
  BY <1>1
<1>3. PICK f \in DecFaults \cup {"none"} :
        \E e \in {Signals([dec |-> d, decFault |-> f, rd |-> r, exe |-> x, wr |-> w,
                          irq |-> arrives = "irq", dbg |-> arrives = "dbg", last |-> last,
                          vec |-> vec, int |-> int, to |-> to])} : Cycle(e)
  BY <1>2
<1> DEFINE b == [dec |-> d, decFault |-> f, rd |-> r, exe |-> x, wr |-> w,
                 irq |-> arrives = "irq", dbg |-> arrives = "dbg", last |-> last,
                 vec |-> vec, int |-> int, to |-> to]
           e == Signals(b)
<1>4. Cycle(e)
  BY <1>3
<1>5. /\ e.dec = d /\ e.decFault = f /\ e.rd = r /\ e.exe = x /\ e.wr = w
      /\ e.irq = (arrives = "irq") /\ e.dbg = (arrives = "dbg") /\ e.last = last
      /\ e.to = to /\ e.exeReady = ExeReady(b) /\ e.rdReady = RdReady(b)
      /\ e.decReady = DecReady(b) /\ e.microReady = MicroReady(b)
      /\ e.source = Source(b) /\ e.fault = Fault(b)
  BY DEF Signals
<1>6. /\ b.dec = d /\ b.decFault = f /\ b.rd = r /\ b.exe = x /\ b.wr = w
      /\ b.irq = (arrives = "irq") /\ b.dbg = (arrives = "dbg") /\ b.last = last
  OBVIOUS
<1> HIDE DEF b, e
<1>7. /\ WrReady(e) = WrReady(b) /\ Flush(e) = Flush(b) /\ FlushAll(e) = FlushAll(b)
      /\ Finished(e) = Finished(b) /\ DebugPrepare(e) = DebugPrepare(b) /\ Prepare(e) = Prepare(b)
  BY <1>5, <1>6 DEF WrReady, Flush, FlushAll, Finished, DebugPrepare, Prepare
<1>8. WrBusy(e) = WrBusy(b)
  BY <1>5, <1>6, <1>7 DEF WrBusy
<1>9. ExeReady(e) = ExeReady(b)
  BY <1>5, <1>6, <1>7, <1>8 DEF ExeReady
<1>10. RdReady(e) = RdReady(b)
  BY <1>5, <1>6, <1>7, <1>9 DEF RdReady
<1>11. RdBusy(e) = RdBusy(b)
  BY <1>10 DEF RdBusy
<1>12. DecReady(e) = DecReady(b)
  BY <1>5, <1>6, <1>7, <1>11 DEF DecReady
<1>13. MicroReady(e) = MicroReady(b)
  BY <1>7, <1>11, <1>12 DEF MicroReady
<1>14. WrInt(e) = WrInt(b)
  BY <1>7 DEF WrInt
<1>15. Source(e) = Source(b) /\ Fault(e) = Fault(b)
  BY <1>5, <1>6, <1>14 DEF Source, Fault, ActiveWr, ActiveExe, ActiveRd, ActiveDec
<1>16. d \in Commands \cup {"none"} /\ (Overlay => d = "none")
  BY DEF DecInputs
<1>17. last \in BOOLEAN /\ to \in Addresses
  BY AddressAssumption DEF Iterations, Targets, Addresses
<1>18. Input(e)
  BY <1>5, <1>9, <1>10, <1>12, <1>13, <1>15, <1>16, <1>17 DEF Input
<1>19. QED  BY <1>4, <1>18

----------------------------------------------------------------------------
(* The cycles in which an exception, a breakpoint or an interrupt is being *)
(* initiated, and the stopped processor.                                   *)

LEMMA Blocked ==
  ASSUME TypeInv, Modes, Drained, NEW e, Input(e), ExcInit
  PROVE  /\ ~WrReady(e) /\ ~Flush(e) /\ ~FlushAll(e) /\ ~InString(e) /\ ~Finished(e)
         /\ ~Prepare(e) /\ ~DebugPrepare(e) /\ ~ExceptionFinished(e)
         /\ e.exeReady = FALSE /\ e.source = "none"
<1>1. Busy(wr) => full.valid
  BY DEF Drained, ExcInit
<1>2. ~WrReady(e)
  BY <1>1 DEF WrReady, Input, WrInputs
<1>3. /\ ~Flush(e) /\ ~FlushAll(e) /\ ~InString(e) /\ ~Finished(e)
      /\ ~Prepare(e) /\ ~DebugPrepare(e) /\ ~ExceptionFinished(e)
  BY <1>2 DEF Flush, FlushAll, InString, Finished, Prepare, DebugPrepare, ExceptionFinished
<1>4. ~ExeReady(e)
  BY DEF ExeReady, WrBusy
<1>5. Source(e) = "none"
  BY DEF Source, ActiveWr, ActiveExe, ActiveRd, ActiveDec
<1>6. QED  BY <1>2, <1>3, <1>4, <1>5 DEF Input

\* A reset empties the stages and keeps where the program goes on.
LEMMA Emptied ==
  ASSUME TypeInv, Modes, Drained, NEW e, Input(e), Cycle(e), Reset,
         ~WrReady(e), ~Flush(e), ~Prepare(e), ~DebugPrepare(e), ~InString(e), ~FlushAll(e)
  PROVE  /\ rd' = Null /\ exe' = Null /\ wr' = [wr EXCEPT !.cmd = "null"]
         /\ Empty' /\ ~wrMutex' /\ decFault' = "none" /\ ~wrString' /\ eip' = eip
         /\ mc' = IF ExcInit THEN [Null EXCEPT !.cmd = "step0"] ELSE Null
         /\ ~possible' /\ ~dbg' /\ done' = possible
<1>1. e.exeReady = FALSE /\ e.rdReady = FALSE /\ e.decReady = FALSE /\ e.microReady = FALSE
  BY DEF Input, ExeReady, RdReady, DecReady, MicroReady
<1>2. rd' = Null /\ exe' = Null /\ wr' = [wr EXCEPT !.cmd = "null"]
  BY <1>1 DEF Cycle, RdNext, ExeNext, WrNext
<1>3. ~Busy(rd') /\ ~Busy(exe') /\ ~Busy(wr')
  BY <1>2 DEF Busy, Null, TypeInv, Command
<1>4. ~wrMutex' /\ decFault' = "none" /\ ~wrString' /\ eip' = eip
  BY <1>1 DEF Cycle, WrMutexNext, DecFaultNext, EipNext
<1>5. mc' = IF ExcInit THEN [Null EXCEPT !.cmd = "step0"] ELSE Null
  <2>1. mc' = McNext(e)
    BY DEF Cycle
  <2>2. CASE ExcInit
    BY <2>1, <2>2 DEF McNext
  <2>3. CASE ~ExcInit
    BY <1>1, <2>1, <2>3 DEF McNext
  <2>4. QED  BY <2>2, <2>3
<1>6. ~possible' /\ ~dbg' /\ done' = possible
  BY DEF Cycle
<1>7. QED  BY <1>2, <1>3, <1>4, <1>5, <1>6 DEF Empty

----------------------------------------------------------------------------
(* Types.                                                                  *)

\* What goes on in a cycle goes on in stages that may.
LEMMA Readies ==
  ASSUME NEW e, Input(e)
  PROVE  /\ e.exeReady => ~Reset /\ ~Flush(e) /\ ~WrBusy(e) /\ Busy(exe) /\ e.exe = "go"
         /\ e.rdReady => /\ ~Reset /\ ~Flush(e) /\ Busy(rd) /\ e.rd = "go"
                         /\ (Busy(exe) => e.exeReady)
         /\ e.decReady => /\ ~Reset /\ ~FlushAll(e) /\ decFault = "none" /\ e.dec \in Commands
                          /\ (Busy(rd) => e.rdReady) /\ ~Overlay
         /\ e.microReady => /\ ~Reset /\ ~Flush(e)
                            /\ Overlay => (Busy(rd) => e.rdReady)
                            /\ ~Overlay => e.decReady
         /\ Overlay /\ ~Reset /\ ~Flush(e) /\ (Busy(rd) => e.rdReady) => e.microReady
         /\ ~Overlay /\ ~Flush(e) /\ e.decReady => e.microReady
         /\ e.exeReady \in BOOLEAN /\ e.rdReady \in BOOLEAN
         /\ e.decReady \in BOOLEAN /\ e.microReady \in BOOLEAN
<1>1. e.exeReady = ExeReady(e) /\ e.exeReady \in BOOLEAN
  BY DEF Input, ExeReady
<1>2. e.rdReady = RdReady(e) /\ e.rdReady \in BOOLEAN
  BY DEF Input, RdReady
<1>3. e.decReady = DecReady(e) /\ e.decReady \in BOOLEAN
  BY DEF Input, DecReady
<1>4. e.microReady = MicroReady(e) /\ e.microReady \in BOOLEAN
  BY <1>3 DEF Input, MicroReady
<1>5. e.dec \in Commands \cup {"none"}
  BY DEF Input
<1>6. e.exeReady => ~Reset /\ ~Flush(e) /\ ~WrBusy(e) /\ Busy(exe) /\ e.exe = "go"
  BY <1>1 DEF ExeReady
<1>7. e.rdReady => ~Reset /\ ~Flush(e) /\ Busy(rd) /\ e.rd = "go" /\ (Busy(exe) => e.exeReady)
  BY <1>1, <1>2 DEF RdReady
<1>8. e.decReady => /\ ~Reset /\ ~FlushAll(e) /\ decFault = "none" /\ e.dec \in Commands
                    /\ (Busy(rd) => e.rdReady) /\ ~Overlay
  BY <1>2, <1>3, <1>5 DEF DecReady, RdBusy
<1>9. /\ e.microReady => /\ ~Reset /\ ~Flush(e)
                         /\ Overlay => (Busy(rd) => e.rdReady)
                         /\ ~Overlay => e.decReady
      /\ Overlay /\ ~Reset /\ ~Flush(e) /\ (Busy(rd) => e.rdReady) => e.microReady
      /\ ~Overlay /\ ~Flush(e) /\ e.decReady => e.microReady
  BY <1>2, <1>3, <1>4, <1>8 DEF MicroReady, RdBusy
<1>10. QED  BY <1>1, <1>2, <1>3, <1>4, <1>6, <1>7, <1>8, <1>9

LEMMA MicroType ==
  ASSUME TypeInv, NEW e, Input(e), e.microReady
  PROVE  /\ Micro(e) \in Command
         /\ Overlay => Micro(e).cmd = mc.cmd
         /\ ~Overlay => Micro(e).cmd = e.dec /\ e.dec \in Commands
<1>1. ~Overlay => e.dec \in Commands
  BY Readies
<1>2. After(eip) \in Addresses
  BY Behinds DEF TypeInv
<1>3. QED  BY <1>1, <1>2 DEF Micro, TypeInv, Command

LEMMA StageTypes ==
  ASSUME TypeInv, NEW e, Input(e), Cycle(e)
  PROVE  /\ eip' \in Addresses /\ decFault' \in DecFaults \cup {"none"}
         /\ rd' \in Command /\ exe' \in Command /\ wr' \in Command
         /\ mc' \in Command /\ mc'.cmd \in {"null", "str"} \cup Delivery
<1>1. Null \in Command /\ [Null EXCEPT !.cmd = "step0"] \in Command
  BY AddressAssumption DEF Null, Command, Addresses, Delivery
<1>2. eip' \in Addresses
  <2>1. After(eip) \in Addresses
    BY Behinds DEF TypeInv
  <2>2. QED  BY <2>1 DEF Cycle, EipNext, TypeInv, Command
<1>3. decFault' \in DecFaults \cup {"none"}
  BY DEF Cycle, DecFaultNext, TypeInv, Input
<1>4. rd' \in Command
  BY <1>1, MicroType, Readies DEF Cycle, RdNext, TypeInv
<1>5. exe' \in Command
  BY <1>1, Readies DEF Cycle, ExeNext, TypeInv
<1>6. wr' \in Command
  <2>1. CASE e.exeReady
    BY <2>1, Readies DEF Cycle, WrNext, TypeInv, Command, Input
  <2>2. CASE ~e.exeReady
    BY <2>2, Readies DEF Cycle, WrNext, TypeInv, Command
  <2>3. QED  BY <2>1, <2>2
<1>7. mc' \in Command /\ mc'.cmd \in {"null", "str"} \cup Delivery
  <2>1. mc' = McNext(e)
    BY DEF Cycle
  <2>2. CASE e.microReady /\ ~ExcInit /\ (Overlay \/ e.dec \in {"soft", "str"})
    <3>1. mc' = [Micro(e) EXCEPT !.cmd = NextStep(@)]
      BY <2>1, <2>2, Readies DEF McNext
    <3>2. Micro(e).cmd \in {"str", "soft"} \cup Delivery
      BY <2>2, MicroType DEF TypeInv, Overlay, Busy
    <3>3. NextStep(Micro(e).cmd) \in {"str"} \cup Delivery
      BY <3>2 DEF NextStep, Delivery
    <3>4. Micro(e) \in Command
      BY <2>2, MicroType
    <3>5. mc' = [cmd |-> NextStep(Micro(e).cmd), eip |-> Micro(e).eip, len |-> Micro(e).len]
      BY <3>1, <3>4 DEF Command
    <3>6. NextStep(Micro(e).cmd) \in Commands \cup Delivery \cup {"null"}
      BY <3>3 DEF Commands
    <3>7. QED  BY <3>3, <3>4, <3>5, <3>6 DEF Command
  <2>3. CASE ~(e.microReady /\ ~ExcInit /\ (Overlay \/ e.dec \in {"soft", "str"}))
    <3>1. mc' \in {Null, [Null EXCEPT !.cmd = "step0"], mc}
      BY <2>1, <2>3, Readies DEF McNext
    <3>2. QED  BY <1>1, <3>1 DEF TypeInv, Null, Delivery
  <2>4. QED  BY <2>2, <2>3
<1>8. QED  BY <1>2, <1>3, <1>4, <1>5, <1>6, <1>7

LEMMA UnitTypes ==
  ASSUME TypeInv, NEW e, Input(e), Cycle(e)
  PROVE  /\ wrMutex' \in BOOLEAN /\ wrString' \in BOOLEAN
         /\ possible' \in BOOLEAN /\ done' \in BOOLEAN /\ dbg' \in BOOLEAN
         /\ load' \in BOOLEAN /\ intString' \in BOOLEAN
         /\ full'.valid \in BOOLEAN /\ excEip' \in Addresses
         /\ pushError' \in BOOLEAN /\ softInt' \in BOOLEAN
         /\ errExt' \in BOOLEAN /\ external' \in BOOLEAN
         /\ count' \in 0 .. 3 /\ lastType' \in Types /\ shutdown' \in BOOLEAN
<1> USE DEF TypeInv
<1>1. wrMutex' \in BOOLEAN
  BY DEF Cycle, WrMutexNext
<1>2. wrString' \in BOOLEAN /\ dbg' \in BOOLEAN
  BY DEF Cycle, InString, DebugPrepare
<1>3. possible' \in BOOLEAN /\ done' \in BOOLEAN /\ load' \in BOOLEAN
  BY DEF Cycle
<1>4. intString' \in BOOLEAN
  BY DEF Cycle, StringFinal
<1>5. full'.valid \in BOOLEAN
  BY DEF Cycle, FullNext
<1>6. excEip' \in Addresses
  <2>1. Origin(wr) \in Addresses /\ Origin(exe) \in Addresses /\ Origin(rd) \in Addresses
    BY OriginType
  <2>2. wr.eip \in Addresses
    BY DEF Command
  <2>3. QED  BY <2>1, <2>2 DEF Cycle, ExcEipNext
<1>7. pushError' \in BOOLEAN
  BY DEF Cycle, PushErrorNext
<1>8. softInt' \in BOOLEAN /\ errExt' \in BOOLEAN /\ external' \in BOOLEAN
  BY DEF Cycle, SoftIntNext, ErrExtNext, ExternalNext
<1>9. count' \in 0 .. 3
  <2>1. (count + 1) % 4 \in 0 .. 3
    OBVIOUS
  <2>2. QED  BY <2>1 DEF Cycle, CountNext
<1>10. lastType' \in Types
  BY DEF Cycle, LastTypeNext, Type, Types
<1>11. shutdown' \in BOOLEAN
  BY DEF Cycle, ShutdownNext
<1>12. QED
  BY <1>1, <1>2, <1>3, <1>4, <1>5, <1>6, <1>7, <1>8, <1>9, <1>10, <1>11

LEMMA HistoryTypes ==
  ASSUME TypeInv, NEW e, Input(e), Cycle(e)
  PROVE  /\ pc' \in Addresses /\ nest' \in Seq(Types)
         /\ event'.src \in {"none", "soft", "irq", "exc", "halt"} /\ event'.ext \in BOOLEAN
<1> USE DEF TypeInv
<1>1. pc' \in Addresses
  BY DEF Cycle, HistoryNext, Command
<1>2. <<>> \in Seq(Types) /\ <<"benign">> \in Seq(Types)
  BY DEF Types
<1>3. ASSUME NEW t \in Types
      PROVE  Append(nest, t) \in Seq(Types)
  OBVIOUS
<1>4. ASSUME NEW v, Raise(v)
      PROVE  /\ nest' \in Seq(Types)
             /\ event'.src \in {"none", "soft", "irq", "exc", "halt"} /\ event'.ext \in BOOLEAN
  <2> DEFINE x == event.src \in {"irq", "exc"}
  <2>1. Type(v) \in Types /\ "double" \in Types
    BY DEF Type, Types
  <2>2. nest' \in {nest, Append(nest, "double"), Append(nest, Type(v))}
    BY <1>4 DEF Raise
  <2>3. \/ event' = [vec |-> "none", src |-> "halt", ext |-> FALSE]
        \/ event' = [vec |-> "DF", src |-> "exc", ext |-> FALSE]
        \/ event' = [vec |-> v, src |-> "exc", ext |-> x]
    BY <1>4 DEF Raise, NoEvent
  <2>4. nest' \in Seq(Types)
    BY <1>3, <2>1, <2>2
  <2>5. x \in BOOLEAN
    OBVIOUS
  <2> HIDE DEF x
  <2>6. event'.src \in {"halt", "exc"}
    BY <2>3
  <2>7. event'.ext \in BOOLEAN
    <3>1. ASSUME NEW y \in BOOLEAN, NEW w, NEW r, event' = [vec |-> w, src |-> r, ext |-> y]
          PROVE  event'.ext \in BOOLEAN
      BY <3>1
    <3>2. FALSE \in BOOLEAN
      OBVIOUS
    <3>3. QED  BY <2>3, <2>5, <3>1, <3>2, Zenon
  <2>8. QED  BY <2>4, <2>6, <2>7
<1>5. \/ \E v : Raise(v)
      \/ /\ event'.src \in {"none", "soft", "irq", "exc"} /\ event'.ext = FALSE
         /\ nest' \in {<<>>, <<"benign">>}
      \/ event' = event /\ nest' = nest
  BY DEF Cycle, HistoryNext, NoEvent
<1>6. CASE \E v : Raise(v)
  BY <1>1, <1>4, <1>6
<1>7. CASE /\ event'.src \in {"none", "soft", "irq", "exc"} /\ event'.ext = FALSE
           /\ nest' \in {<<>>, <<"benign">>}
  BY <1>1, <1>2, <1>7
<1>8. CASE event' = event /\ nest' = nest
  BY <1>1, <1>8
<1>9. QED  BY <1>5, <1>6, <1>7, <1>8

LEMMA TypeNext ==
  ASSUME TypeInv, NEW e, Input(e), Cycle(e)
  PROVE  TypeInv'
BY StageTypes, UnitTypes, HistoryTypes DEF TypeInv

----------------------------------------------------------------------------
(* The modes of the unit.                                                  *)

\* While something is initiated the history stands still, but for the
\* acknowledge of an interrupt.
LEMMA Still ==
  ASSUME TypeInv, Modes, Drained, NEW e, Input(e), Cycle(e), ExcInit \/ shutdown
  PROVE  /\ pc' = pc
         /\ ~done => event' = event /\ nest' = nest
         /\ done => event'.src = "irq" /\ event'.vec = e.vec /\ event'.ext = FALSE /\ nest' = <<>>
         /\ ~WrReady(e) /\ ~Flush(e) /\ ~FlushAll(e) /\ ~InString(e) /\ ~Finished(e)
         /\ ~Prepare(e) /\ ~DebugPrepare(e) /\ ~ExceptionFinished(e)
         /\ e.source = "none" /\ e.exeReady = FALSE
<1>1. /\ ~WrReady(e) /\ ~Flush(e) /\ ~FlushAll(e) /\ ~InString(e) /\ ~Finished(e)
      /\ ~Prepare(e) /\ ~DebugPrepare(e) /\ ~ExceptionFinished(e)
      /\ e.source = "none" /\ e.exeReady = FALSE
  <2>1. CASE ExcInit
    BY <2>1, Blocked
  <2>2. CASE ~ExcInit /\ shutdown
    <3>1. ~Busy(rd) /\ ~Busy(exe) /\ ~Busy(wr) /\ decFault = "none"
      BY <2>2 DEF Drained, Empty
    <3>2. ~WrReady(e)
      BY <3>1 DEF WrReady
    <3>3. Source(e) = "none"
      BY <3>1, <3>2 DEF Source, ActiveWr, ActiveExe, ActiveRd, ActiveDec, WrFront, ExeFront, RdFront
    <3>4. ~ExeReady(e)
      BY <3>1 DEF ExeReady
    <3>5. QED
      BY <3>2, <3>3, <3>4 DEF Input, Flush, FlushAll, InString, Finished, Prepare, DebugPrepare,
                              ExceptionFinished
  <2>3. QED  BY <2>1, <2>2
<1>2. pc' = pc
  BY <1>1 DEF Cycle, HistoryNext
<1>3. ~done => event' = event /\ nest' = nest
  BY <1>1 DEF Cycle, HistoryNext
<1>4. done => event'.src = "irq" /\ event'.vec = e.vec /\ event'.ext = FALSE /\ nest' = <<>>
  BY <1>1 DEF Cycle, HistoryNext
<1>5. QED  BY <1>1, <1>2, <1>3, <1>4

LEMMA FullMode ==
  ASSUME IInv, NEW e, Input(e), Cycle(e), full.valid
  PROVE  IInv'
<1>1. TypeInv' /\ ~possible /\ ~done /\ ~dbg /\ ~load /\ ~shutdown /\ ExcInit /\ Reset
  BY TypeNext DEF IInv, Modes, ExcInit, Reset
<1>2. /\ pc' = pc /\ event' = event /\ nest' = nest /\ e.source = "none"
      /\ ~WrReady(e) /\ ~ExceptionFinished(e)
  BY <1>1, Still DEF IInv
<1>3. /\ Empty' /\ ~wrMutex' /\ decFault' = "none" /\ mc' = [Null EXCEPT !.cmd = "step0"]
      /\ ~possible' /\ ~dbg' /\ ~done'
  BY <1>1, Emptied, Still DEF IInv
<1>4. excEip' = pc /\ excEip' = excEip
  BY <1>1, <1>2 DEF Cycle, ExcEipNext, IInv, Resume
<1>5. Vector = full.vec
  BY <1>1 DEF Vector
<1>6. count \in 0 .. 3 /\ nest \in Seq(Types) /\ Len(nest) \in Nat /\ Len(nest) <= 3
  BY DEF IInv, TypeInv, Counted
<1>7. CASE ShutdownStart
  <2>1. event.src = "halt"
    BY <1>7 DEF IInv, Signalled, Convert, ExceptionStart
  <2>2. ~full'.valid /\ shutdown' /\ ~load'
    BY <1>1, <1>2, <1>7 DEF Cycle, FullNext, Convert, ShutdownNext, ExceptionStart
  <2>3. QED
    BY <1>1, <1>2, <1>3, <1>6, <2>1, <2>2
    DEF IInv, Modes, Drained, Resume, Counted, Signalled, Entered, Chain, Running, ExcInit, Empty
<1>8. CASE Convert
  <2>1. /\ event.src = "exc" /\ event.vec = "DF" /\ Last = "double"
        /\ event.ext = FALSE /\ count = Len(nest) - 1
    BY <1>8 DEF IInv, Signalled, Convert, ExceptionStart, ShutdownStart
  <2>2. full'.valid /\ full'.vec = "DF" /\ ~shutdown' /\ ~load' /\ count' = count /\ lastType' = lastType
    BY <1>1, <1>2, <1>8
    DEF Cycle, FullNext, Convert, ShutdownNext, ExceptionStart, CountNext, LastTypeNext
  <2>3. Type("DF") = "double" /\ ~Doubles(lastType, "double") /\ Last' = "double"
    BY <1>2, <2>1 DEF Type, Contributory, Doubles, Last
  <2>4. ExceptionStart'
    BY <1>3, <1>8, <2>2, <2>3 DEF ExceptionStart, Convert, ShutdownStart, Vector
  <2>5. nest' # <<>>
    BY <1>2, <1>6, <2>1 DEF IInv, Counted
  <2>6. QED
    BY <1>1, <1>2, <1>3, <1>4, <1>6, <2>1, <2>2, <2>3, <2>4, <2>5
    DEF IInv, Modes, Drained, Resume, Counted, Signalled, Entered, Chain, Running, ExcInit, Empty
<1>9. CASE ExceptionStart
  <2>1. /\ event.src = "exc" /\ event.vec = full.vec /\ Last = Type(full.vec)
        /\ count = Len(nest) - 1 /\ event.ext = (external /\ full.vec # "DF")
    BY <1>9 DEF IInv, Signalled, Convert, ExceptionStart, ShutdownStart
  <2>2. ~ShutdownStart /\ ~Convert
    BY <1>9 DEF ExceptionStart
  <2>3. /\ ~full'.valid /\ full'.vec = full.vec /\ ~shutdown' /\ load' /\ external'
        /\ lastType' = Type(full.vec)
    BY <1>1, <1>2, <1>5, <1>9, <2>2
    DEF Cycle, FullNext, ShutdownNext, LastTypeNext, ExternalNext
  <2>4. count' = Len(nest)
    BY <1>2, <1>6, <1>9, <2>1, <2>2 DEF Cycle, CountNext, ShutdownStart
  <2>5. /\ pushError' = (~RealMode /\ full.vec \in WithErrorCode) /\ ~softInt'
        /\ errExt' = (~RealMode /\ full.vec \notin {"PF", "DF"} /\ external)
    <3>1. PushErrorNext(e) = (~RealMode /\ Vector \in WithErrorCode)
      BY <1>1, <1>2, <1>9 DEF PushErrorNext
    <3>2. ErrExtNext(e) = (~RealMode /\ Vector \notin {"PF", "DF"} /\ external)
      BY <1>1, <1>9, <2>2 DEF ErrExtNext
    <3>3. ~SoftIntNext(e)
      BY <1>2, <1>9 DEF SoftIntNext
    <3>4. QED  BY <1>5, <3>1, <3>2, <3>3 DEF Cycle
  <2>6. Entered'
    <3>1. event'.src = "exc" /\ event'.vec = full.vec /\ full'.vec = event'.vec /\ ~softInt'
      BY <1>2, <2>1, <2>3, <2>5
    <3>2. pushError' = (event'.src = "exc" /\ ~RealMode /\ event'.vec \in WithErrorCode)
      BY <2>5, <3>1, ModeAssumption
    <3>3. softInt' = (event'.src = "soft")
      BY <3>1, <1>1 DEF TypeInv
    <3>4. event'.ext = (external /\ full.vec # "DF")
      BY <1>2, <2>1
    <3>5. external \in BOOLEAN /\ errExt' \in BOOLEAN /\ event'.ext \in BOOLEAN
      BY <1>1 DEF IInv, TypeInv
    <3>6. pushError' /\ event'.vec # "PF" => errExt' = event'.ext
      BY <2>5, <3>1, <3>2, <3>4, <3>5, ModeAssumption
    <3>7. QED  BY <3>1, <3>2, <3>3, <3>6 DEF Entered
  <2>7. nest # <<>> /\ Last' = Last
    BY <1>2, <2>1 DEF IInv, Counted, Last
  <2>8. QED
    BY <1>1, <1>2, <1>3, <1>4, <1>6, <2>1, <2>3, <2>4, <2>6, <2>7
    DEF IInv, Modes, Drained, Resume, Counted, Signalled, Chain, ExcInit, Empty
<1>10. QED
  BY <1>7, <1>8, <1>9 DEF ExceptionStart

LEMMA DbgMode ==
  ASSUME IInv, NEW e, Input(e), Cycle(e), dbg
  PROVE  IInv'
<1>1. TypeInv' /\ ~possible /\ ~done /\ ~full.valid /\ ~load /\ ~shutdown /\ ExcInit /\ Reset
  BY TypeNext DEF IInv, Modes, ExcInit, Reset
<1>2. /\ pc' = pc /\ event' = event /\ nest' = nest /\ e.source = "none"
      /\ ~InString(e) /\ ~ExceptionFinished(e)
  BY <1>1, Still DEF IInv
<1>3. /\ Empty' /\ ~wrMutex' /\ decFault' = "none" /\ mc' = [Null EXCEPT !.cmd = "step0"]
      /\ ~possible' /\ ~dbg' /\ ~done'
  BY <1>1, Emptied, Still DEF IInv
<1>4. event.src = "exc" /\ event.vec = "DB" /\ nest = <<"benign">> /\ count = 0
  BY DEF IInv, Counted
<1>5. ~Convert /\ ~ShutdownStart /\ ExceptionStart /\ Vector = "DB"
  BY <1>1, <1>4 DEF Convert, ShutdownStart, ExceptionStart, Vector
<1>6. StringFinal(e) = wrString
  BY <1>2 DEF StringFinal, IInv, TypeInv
<1>7. excEip' = pc
  BY <1>1, <1>2, <1>6 DEF Cycle, ExcEipNext, IInv, Resume
<1>8. Type("DB") = "benign" /\ "DB" \notin WithErrorCode
  BY DEF Type, Contributory, WithErrorCode
<1>9. ~full'.valid /\ full'.vec = "DB" /\ ~shutdown' /\ load' /\ external' /\ lastType' = "benign"
  BY <1>1, <1>2, <1>5, <1>8 DEF Cycle, FullNext, ShutdownNext, LastTypeNext, ExternalNext
<1>10. count' = 1
  BY <1>2, <1>4, <1>5 DEF Cycle, CountNext
<1>11. ~pushError' /\ ~softInt'
  <2>1. ~PushErrorNext(e)
    BY <1>2, <1>5, <1>8 DEF PushErrorNext
  <2>2. ~SoftIntNext(e)
    BY <1>2, <1>5 DEF SoftIntNext
  <2>3. QED  BY <2>1, <2>2 DEF Cycle
<1>12. Entered'
  BY <1>1, <1>2, <1>4, <1>8, <1>9, <1>11 DEF Entered, TypeInv
<1>13. Len(nest) = 1 /\ nest # <<>> /\ Last' = "benign" /\ Len(nest') = 1
  BY <1>2, <1>4 DEF Last
<1>14. QED
  BY <1>1, <1>2, <1>3, <1>4, <1>7, <1>9, <1>10, <1>12, <1>13
  DEF IInv, Modes, Drained, Resume, Counted, Signalled, Chain, ExcInit, Empty

LEMMA PossibleMode ==
  ASSUME IInv, NEW e, Input(e), Cycle(e), possible
  PROVE  IInv'
<1>1. TypeInv' /\ ~dbg /\ ~done /\ ~full.valid /\ ~load /\ ~shutdown /\ ExcInit /\ ~Reset
  BY TypeNext DEF IInv, Modes, ExcInit, Reset
<1>2. /\ pc' = pc /\ event' = event /\ nest' = nest /\ e.source = "none" /\ e.exeReady = FALSE
      /\ ~WrReady(e) /\ ~InString(e) /\ ~Prepare(e) /\ ~DebugPrepare(e) /\ ~ExceptionFinished(e)
  BY <1>1, Still DEF IInv
<1>3. wr' = wr /\ wrMutex' = wrMutex /\ ~Busy(wr)
  BY <1>1, <1>2 DEF Cycle, WrNext, WrMutexNext, IInv, Drained
<1>4. ~possible' /\ ~dbg' /\ done'
  BY <1>2 DEF Cycle
<1>5. ~Convert /\ ~ExceptionStart
  BY <1>1 DEF Convert, ExceptionStart
<1>6. ~full'.valid /\ ~load' /\ ~shutdown'
  BY <1>1, <1>2, <1>5 DEF Cycle, FullNext, ShutdownNext
<1>7. count' = count /\ lastType' = lastType /\ external' = external
  BY <1>1, <1>2, <1>5 DEF Cycle, CountNext, LastTypeNext, ExternalNext, IInv, TypeInv
<1>8. StringFinal(e) = wrString
  BY <1>1, <1>2 DEF StringFinal, IInv, TypeInv
<1>9. intString' = wrString
  BY <1>8 DEF Cycle
<1>10. Origin(wr') = Origin(wr) /\ wr'.eip = wr.eip /\ ~Busy(wr')
  BY <1>3
<1>11. Resume'
  BY <1>1, <1>2, <1>4, <1>6, <1>9, <1>10 DEF IInv, Resume
<1>12. Counted'
  BY <1>1, <1>2, <1>4, <1>6, <1>7 DEF IInv, Counted, Last
<1>13. QED
  BY <1>1, <1>4, <1>6, <1>10, <1>11, <1>12
  DEF IInv, Modes, Drained, Signalled, Entered, Chain, Running, ExcInit

LEMMA DoneMode ==
  ASSUME IInv, NEW e, Input(e), Cycle(e), done
  PROVE  IInv'
<1>1. TypeInv' /\ ~dbg /\ ~possible /\ ~full.valid /\ ~load /\ ~shutdown /\ ExcInit /\ Reset
  BY TypeNext DEF IInv, Modes, ExcInit, Reset
<1>2. /\ pc' = pc /\ event'.src = "irq" /\ event'.vec = e.vec /\ nest' = <<>>
      /\ e.source = "none" /\ ~ExceptionFinished(e)
  BY <1>1, Still DEF IInv
<1>3. /\ Empty' /\ ~wrMutex' /\ decFault' = "none" /\ mc' = [Null EXCEPT !.cmd = "step0"]
      /\ ~possible' /\ ~dbg' /\ ~done'
  BY <1>1, Emptied, Still DEF IInv
<1>4. ~Convert /\ ~ExceptionStart
  BY <1>1 DEF Convert, ExceptionStart
<1>5. /\ ~full'.valid /\ full'.vec = e.vec /\ load' /\ ~shutdown' /\ external'
      /\ ~pushError' /\ ~softInt'
  BY <1>1, <1>2, <1>4
  DEF Cycle, FullNext, ShutdownNext, ExternalNext, PushErrorNext, SoftIntNext
<1>6. count' = 0
  BY <1>1, <1>2, <1>4 DEF Cycle, CountNext, IInv, Counted
<1>7. excEip' = pc
  BY <1>1, <1>2 DEF Cycle, ExcEipNext, IInv, Resume
<1>8. Entered'
  BY <1>1, <1>2, <1>5 DEF Entered, TypeInv
<1>9. QED
  BY <1>1, <1>2, <1>3, <1>5, <1>6, <1>7, <1>8
  DEF IInv, Modes, Drained, Resume, Counted, Signalled, Chain, ExcInit, Empty

LEMMA StopMode ==
  ASSUME IInv, NEW e, Input(e), Cycle(e), shutdown
  PROVE  IInv'
<1>1. TypeInv' /\ ~dbg /\ ~possible /\ ~done /\ ~full.valid /\ ~load /\ ~ExcInit /\ Reset
  BY TypeNext DEF IInv, Modes, ExcInit, Reset
<1>2. /\ pc' = pc /\ event' = event /\ nest' = nest /\ e.source = "none"
  BY <1>1, Still DEF IInv
<1>3. Empty' /\ ~wrMutex' /\ decFault' = "none" /\ ~possible' /\ ~dbg' /\ ~done'
  BY <1>1, Emptied, Still DEF IInv
<1>4. ~Convert /\ ~ExceptionStart
  BY <1>1 DEF Convert, ExceptionStart
<1>5. ~full'.valid /\ ~load' /\ shutdown'
  BY <1>1, <1>2, <1>4 DEF Cycle, FullNext, ShutdownNext
<1>6. QED
  BY <1>1, <1>2, <1>3, <1>5
  DEF IInv, Modes, Drained, Resume, Counted, Signalled, Entered, Chain, Running, ExcInit, Empty

----------------------------------------------------------------------------
(* The running processor.                                                  *)

LEMMA RunBasics ==
  ASSUME IInv, NEW e, Input(e), Cycle(e), Running
  PROVE  /\ TypeInv' /\ ~ExcInit /\ ~Reset
         /\ ~full.valid /\ ~possible /\ ~done /\ ~dbg /\ ~shutdown /\ ~Convert /\ ~ExceptionStart
         /\ ~load' /\ ~done' /\ ~shutdown' /\ possible' = Prepare(e) /\ dbg' = DebugPrepare(e)
         /\ wrMutex = Busy(wr)
         /\ lastType' = lastType
         /\ count' = (IF ExceptionFinished(e) THEN 0 ELSE count)
         /\ external' = (~ExceptionFinished(e) /\ external)
<1>1. TypeInv' /\ ~ExcInit /\ ~Reset
      /\ ~full.valid /\ ~possible /\ ~done /\ ~dbg /\ ~shutdown /\ ~Convert /\ ~ExceptionStart
  BY TypeNext DEF IInv, Running, ExcInit, Reset, Convert, ExceptionStart
<1>2. ~load' /\ ~done' /\ ~shutdown' /\ dbg' = DebugPrepare(e)
  BY <1>1 DEF Cycle, ShutdownNext
<1>3. possible' = Prepare(e)
  BY <1>1 DEF Cycle, Prepare, Finished, WrReady
<1>4. wrMutex = Busy(wr)
  BY <1>1 DEF IInv, Drained, TypeInv, Busy
<1>5. lastType' = lastType /\ count' = (IF ExceptionFinished(e) THEN 0 ELSE count)
  BY <1>1 DEF Cycle, LastTypeNext, CountNext
<1>6. external' = (~ExceptionFinished(e) /\ external)
  BY <1>1 DEF Cycle, ExternalNext, IInv, TypeInv
<1>7. QED  BY <1>1, <1>2, <1>3, <1>4, <1>5, <1>6

\* Whose exception is taken.
LEMMA Taken ==
  ASSUME IInv, NEW e, Input(e), Cycle(e), Running
  PROVE  /\ e.source \in {"int", "wr", "exe", "rd", "dec", "none"}
         /\ e.source = "int" => WrReady(e) /\ wr.cmd = "soft"
         /\ e.source = "wr" => /\ Busy(wr) /\ wr.cmd \notin {"jump", "fin"}
                               /\ ~WrReady(e) /\ e.fault \in Faults
         /\ e.source = "exe" => /\ ~Busy(wr) /\ Busy(exe) /\ ~ExeReady(e) /\ e.fault \in Faults
         /\ e.source = "rd" => /\ ~Busy(wr) /\ ~Busy(exe) /\ Busy(rd) /\ e.fault \in Faults
         /\ e.source = "dec" => Empty /\ e.fault = decFault /\ e.fault \in Faults
         /\ e.source = "none" => ~WrInt(e)
<1>1. ~ExcInit /\ ~full.valid /\ wrMutex = Busy(wr)
  BY RunBasics
<1>2. e.source = Source(e) /\ e.fault = Fault(e)
  BY DEF Input
<1>3. WrInt(e) => WrReady(e) /\ wr.cmd = "soft" /\ ActiveWr(e)
  BY <1>1 DEF WrInt, ActiveWr, WrReady, WrFront
<1>4. ActiveWr(e) /\ ~WrInt(e) =>
        /\ Busy(wr) /\ e.wr \in WrFaults /\ wr.cmd \notin {"jump", "fin"} /\ ~WrReady(e)
  <2> SUFFICES ASSUME ActiveWr(e), ~WrInt(e)
               PROVE  Busy(wr) /\ e.wr \in WrFaults /\ wr.cmd \notin {"jump", "fin"} /\ ~WrReady(e)
    OBVIOUS
  <2>1. Busy(wr) /\ e.wr \in WrFaults
    BY DEF ActiveWr, WrFront
  <2>2. e.wr \notin {"go", "wait"}
    BY <2>1, FaultKinds
  <2>3. MayFault(wr) /\ wr.cmd # "jump"
    BY <2>2 DEF Input, WrInputs
  <2>4. QED  BY <2>1, <2>2, <2>3 DEF MayFault, WrReady
<1>5. ActiveExe(e) => ~Busy(wr) /\ Busy(exe) /\ e.exe \in ExeFaults /\ ~ExeReady(e)
  BY <1>1, FaultKinds DEF ActiveExe, ExeFront, ExeReady
<1>6. ActiveRd(e) => ~Busy(wr) /\ ~Busy(exe) /\ Busy(rd) /\ e.rd \in RdFaults
  BY <1>1 DEF ActiveRd, RdFront
<1>7. ActiveDec(e) => Empty /\ decFault \in DecFaults
  BY <1>1 DEF ActiveDec, DecFront, Empty, IInv, TypeInv
<1>8. CASE ActiveWr(e)
  BY <1>2, <1>3, <1>4, <1>8, FaultKinds DEF Source, Fault
<1>9. CASE ~ActiveWr(e) /\ ActiveExe(e)
  BY <1>2, <1>3, <1>5, <1>9, FaultKinds DEF Source, Fault
<1>10. CASE ~ActiveWr(e) /\ ~ActiveExe(e) /\ ActiveRd(e)
  BY <1>2, <1>3, <1>6, <1>10, FaultKinds DEF Source, Fault
<1>11. CASE ~ActiveWr(e) /\ ~ActiveExe(e) /\ ~ActiveRd(e) /\ ActiveDec(e)
  BY <1>2, <1>3, <1>7, <1>11, FaultKinds DEF Source, Fault
<1>12. CASE ~ActiveWr(e) /\ ~ActiveExe(e) /\ ~ActiveRd(e) /\ ~ActiveDec(e)
  BY <1>2, <1>3, <1>12 DEF Source
<1>13. QED  BY <1>8, <1>9, <1>10, <1>11, <1>12

\* A stage signals a fault.
LEMMA FaultMode ==
  ASSUME IInv, NEW e, Input(e), Cycle(e), Running, e.source \in {"wr", "exe", "rd", "dec"}
  PROVE  IInv'
<1> DEFINE v == e.fault
<1>1. /\ TypeInv' /\ ~ExcInit /\ ~Reset
      /\ ~full.valid /\ ~possible /\ ~done /\ ~dbg /\ ~shutdown /\ ~ExceptionStart
      /\ ~load' /\ ~done' /\ ~shutdown' /\ possible' = Prepare(e) /\ dbg' = DebugPrepare(e)
      /\ wrMutex = Busy(wr)
      /\ lastType' = lastType
      /\ count' = (IF ExceptionFinished(e) THEN 0 ELSE count)
      /\ external' = (~ExceptionFinished(e) /\ external)
  BY RunBasics
<1>2. ~WrReady(e) /\ ~ExeReady(e) /\ v \in Faults
  <2>1. ~WrReady(e) /\ v \in Faults
    BY Taken DEF WrReady, Empty
  <2>2. CASE e.source \in {"wr", "exe"}
    BY <2>1, <2>2, Taken DEF ExeReady, WrBusy, WrReady
  <2>3. CASE e.source \in {"rd", "dec"}
    <3>1. ~Busy(exe)
      BY <2>3, Taken DEF Empty
    <3>2. QED  BY <2>1, <3>1 DEF ExeReady
  <2>4. QED  BY <2>1, <2>2, <2>3
<1>3. /\ ~Finished(e) /\ ~Prepare(e) /\ ~DebugPrepare(e) /\ ~ExceptionFinished(e) /\ ~InString(e)
      /\ e.exeReady = FALSE
  BY <1>2 DEF Finished, Prepare, DebugPrepare, ExceptionFinished, InString, Input
<1>4. wr' = wr /\ wrMutex' = wrMutex /\ ~possible' /\ ~dbg' /\ pc' = pc
  BY <1>1, <1>2, <1>3 DEF Cycle, WrNext, WrMutexNext, HistoryNext
<1>5. full'.valid /\ full'.vec = v
  BY DEF Cycle, FullNext
<1>6. ~load /\ InOrder
  <2>1. load => Empty /\ decFault = "none"
    BY DEF IInv, Drained
  <2>2. ~Empty \/ decFault # "none"
    <3>1. CASE e.source \in {"wr", "exe", "rd"}
      BY <3>1, Taken DEF Empty
    <3>2. CASE e.source = "dec"
      BY <1>2, <3>2, Taken, FaultKinds
    <3>3. QED  BY <3>1, <3>2
  <2>3. ~load
    BY <2>1, <2>2
  <2>4. QED  BY <2>3 DEF IInv, Chain
<1>7. excEip' = pc
  <2>1. excEip' = CASE e.source = "wr" -> Origin(wr) [] e.source = "exe" -> Origin(exe)
                    [] e.source = "rd" -> Origin(rd) [] OTHER -> eip
    BY DEF Cycle, ExcEipNext
  <2>2. CASE e.source = "wr"
    BY <1>6, <2>1, <2>2, Taken DEF InOrder, First
  <2>3. CASE e.source = "exe"
    BY <1>6, <2>1, <2>3, Taken DEF InOrder, AfterWr, AfterExe
  <2>4. CASE e.source = "rd"
    BY <1>6, <2>1, <2>4, Taken DEF InOrder, AfterWr, AfterExe
  <2>5. CASE e.source = "dec"
    BY <1>6, <2>1, <2>5, Taken DEF InOrder, Empty
  <2>6. QED  BY <2>2, <2>3, <2>4, <2>5
<1>8. Raise(v)
  BY DEF Cycle, HistoryNext
<1>9. /\ event.src # "halt" /\ count = Len(nest) /\ (nest # <<>> => lastType = Last)
      /\ external = (event.src \in {"irq", "exc"}) /\ Len(nest) \in 0 .. 3 /\ nest \in Seq(Types)
  BY <1>1 DEF IInv, Counted, TypeInv
<1>10. /\ count' = count /\ external' = external
       /\ nest # <<>> <=> Len(nest) > 0
  <2>1. count' = count /\ external' = external
    BY <1>1, <1>3 DEF IInv, TypeInv
  <2>2. nest # <<>> <=> Len(nest) > 0
    BY <1>9
  <2>3. QED  BY <2>1, <2>2
<1>11. Type(v) \in {"benign", "contributory", "page"} /\ v # "DF"
  BY <1>2, FaultKinds
<1>12. ASSUME NEW t \in Types
       PROVE  /\ Append(nest, t) # <<>> /\ Len(Append(nest, t)) = Len(nest) + 1
              /\ Append(nest, t)[Len(nest) + 1] = t
  <2>1. nest \in Seq(Types) /\ Len(nest) \in Nat
    BY <1>9
  <2>2. Len(Append(nest, t)) = Len(nest) + 1 /\ Append(nest, t)[Len(nest) + 1] = t
    BY <2>1
  <2>3. Append(nest, t) # <<>>
    BY <2>1, <2>2
  <2>4. QED  BY <2>2, <2>3
<1>13. ShutdownStart' <=> (count > 2 \/ (count > 0 /\ lastType = "double"))
  BY <1>1, <1>10 DEF ShutdownStart
<1>14. Convert' <=> ~ShutdownStart' /\ count > 0 /\ Doubles(lastType, Type(v))
  BY <1>1, <1>4, <1>5, <1>10 DEF Convert, Vector
<1>15. ExceptionStart' <=> ~Convert' /\ ~ShutdownStart'
  BY <1>5 DEF ExceptionStart
<1>16. Counted' /\ Signalled'
  <2>1. CASE Len(nest) = 3 \/ (nest # <<>> /\ Last = "double")
    <3>1. nest' = nest /\ event'.src = "halt"
      BY <1>8, <1>9, <1>10, <1>11, <2>1 DEF Raise, DoubleFaults, NoEvent
    <3>2. ShutdownStart'
      <4>1. count = Len(nest) /\ (nest # <<>> => lastType = Last)
        BY <1>9
      <4>2. CASE Len(nest) = 3
        BY <4>1, <4>2, <1>13
      <4>3. CASE nest # <<>> /\ Last = "double"
        <5>1. count > 0 /\ lastType = "double"
          BY <4>1, <4>3, <1>10
        <5>2. QED  BY <5>1, <1>13
      <4>4. QED  BY <2>1, <4>2, <4>3
    <3>3. QED  BY <1>1, <1>4, <1>5, <1>9, <3>1, <3>2 DEF Counted, Signalled
  <2>2. CASE /\ ~(Len(nest) = 3 \/ (nest # <<>> /\ Last = "double"))
             /\ Len(nest) > 0 /\ <<Last, Type(v)>> \in DoubleFaults
    <3>1. nest' = Append(nest, "double") /\ event'.src = "exc" /\ event'.vec = "DF" /\ event'.ext = FALSE
      BY <1>8, <1>9, <1>10, <2>2 DEF Raise
    <3>2. nest' # <<>> /\ Len(nest') = Len(nest) + 1 /\ Last' = "double"
      BY <1>12, <3>1 DEF Last, Types
    <3>3. ~ShutdownStart' /\ Convert'
      BY <1>9, <1>10, <1>13, <1>14, <2>2 DEF DoubleFaults, Doubles
    <3>4. QED  BY <1>1, <1>4, <1>5, <1>9, <1>10, <2>2, <3>1, <3>2, <3>3 DEF Counted, Signalled
  <2>3. CASE /\ ~(Len(nest) = 3 \/ (nest # <<>> /\ Last = "double"))
             /\ ~(Len(nest) > 0 /\ <<Last, Type(v)>> \in DoubleFaults)
    <3>1. /\ nest' = Append(nest, Type(v)) /\ event'.src = "exc" /\ event'.vec = v
          /\ event'.ext = (event.src \in {"irq", "exc"})
      BY <1>8, <1>9, <1>10, <2>3 DEF Raise
    <3>2. nest' # <<>> /\ Len(nest') = Len(nest) + 1 /\ Last' = Type(v)
      BY <1>11, <1>12, <3>1 DEF Last, Types
    <3>3. ~ShutdownStart' /\ ~Convert' /\ ExceptionStart'
      BY <1>9, <1>10, <1>11, <1>13, <1>14, <1>15, <2>3 DEF DoubleFaults, Doubles
    <3>4. event'.ext = (external' /\ full'.vec # "DF")
      <4>1. event'.ext = external'
        BY <1>9, <1>10, <3>1
      <4>2. full'.vec # "DF" /\ event'.ext \in BOOLEAN
        BY <1>1, <1>5, <1>11 DEF TypeInv
      <4>3. QED  BY <4>1, <4>2
    <3>5. QED  BY <1>1, <1>4, <1>5, <1>9, <1>10, <2>3, <3>1, <3>2, <3>3, <3>4 DEF Counted, Signalled
  <2>4. QED  BY <2>1, <2>2, <2>3
<1>17. Drained' /\ Modes'
  BY <1>1, <1>4, <1>5, <1>7 DEF Drained, Modes, Busy
<1>18. Resume'
  <2>1. Busy(wr) /\ wr.cmd \notin {"jump", "fin"} => Origin(wr) = pc
    BY <1>6 DEF InOrder, First
  <2>2. QED  BY <1>1, <1>4, <1>5, <1>7, <2>1 DEF Resume, Busy, Origin
<1>19. Entered' /\ Chain'
  BY <1>5 DEF Entered, Chain, Running, ExcInit
<1>20. QED  BY <1>1, <1>16, <1>17, <1>18, <1>19 DEF IInv

\* Without a fault, an interrupt or a breakpoint the unit keeps what it holds.
LEMMA UnitStill ==
  ASSUME IInv, NEW e, Input(e), Cycle(e), Running, e.source = "none"
  PROVE  /\ full' = full /\ pushError' = pushError /\ softInt' = softInt /\ errExt' = errExt
         /\ ~DebugPrepare(e) /\ ExceptionFinished(e) => event' = NoEvent /\ nest' = <<>>
         /\ ~DebugPrepare(e) /\ ~ExceptionFinished(e) => event' = event /\ nest' = nest
<1>1. /\ ~full.valid /\ ~possible /\ ~done /\ ~dbg /\ ~shutdown /\ ~Convert /\ ~ExceptionStart
  BY RunBasics
<1>2. full' = full
  BY <1>1 DEF Cycle, FullNext
<1>3. pushError' = pushError
  BY <1>1 DEF Cycle, PushErrorNext
<1>4. softInt' = softInt
  BY <1>1 DEF Cycle, SoftIntNext
<1>5. errExt' = errExt
  BY <1>1 DEF Cycle, ErrExtNext
<1>6. HistoryNext(e)
  BY DEF Cycle
<1>7. ~DebugPrepare(e) /\ ExceptionFinished(e) => event' = NoEvent /\ nest' = <<>>
  BY <1>1, <1>6 DEF HistoryNext
<1>8. ~DebugPrepare(e) /\ ~ExceptionFinished(e) => event' = event /\ nest' = nest
  BY <1>1, <1>6 DEF HistoryNext
<1>9. QED  BY <1>2, <1>3, <1>4, <1>5, <1>7, <1>8

\* The pipeline starts at the handler.
LEMMA LoadMode ==
  ASSUME IInv, NEW e, Input(e), Cycle(e), Running, load
  PROVE  IInv'
<1>1. /\ TypeInv' /\ ~ExcInit /\ ~Reset
      /\ ~full.valid /\ ~possible /\ ~done /\ ~dbg /\ ~shutdown
      /\ ~load' /\ ~done' /\ ~shutdown' /\ possible' = Prepare(e) /\ dbg' = DebugPrepare(e)
      /\ wrMutex = Busy(wr) /\ lastType' = lastType
      /\ count' = (IF ExceptionFinished(e) THEN 0 ELSE count)
      /\ external' = (~ExceptionFinished(e) /\ external)
  BY RunBasics
<1>2. /\ ~Busy(rd) /\ ~Busy(exe) /\ ~Busy(wr) /\ decFault = "none"
      /\ mc = [cmd |-> "step0", eip |-> 0, len |-> 0] /\ Overlay
  BY DEF IInv, Drained, Empty, Null, Overlay, Busy
<1>3. /\ ~WrReady(e) /\ ~Flush(e) /\ ~FlushAll(e) /\ ~InString(e) /\ ~Finished(e)
      /\ ~Prepare(e) /\ ~DebugPrepare(e) /\ ~ExceptionFinished(e)
  BY <1>2 DEF WrReady, Flush, FlushAll, InString, Finished, Prepare, DebugPrepare, ExceptionFinished
<1>4. e.exeReady = FALSE /\ e.rdReady = FALSE /\ e.decReady = FALSE /\ e.microReady = TRUE
  BY <1>1, <1>2, <1>3, Readies
<1>5. e.source = "none"
  <2>1. e.source \notin {"int", "wr", "exe", "rd"}
    BY <1>2, <1>3, Taken
  <2>2. e.source # "dec"
    <3>1. "none" \notin Faults
      BY FaultKinds
    <3>2. QED  BY <1>2, <3>1, Taken
  <2>3. QED  BY <2>1, <2>2, Taken
<1>6. /\ full' = full /\ pushError' = pushError /\ softInt' = softInt /\ errExt' = errExt
      /\ event' = event /\ nest' = nest
  BY <1>3, <1>5, UnitStill
<1>7. pc' = pc /\ wr' = wr /\ exe' = exe /\ wrMutex' = wrMutex
  BY <1>1, <1>3, <1>4 DEF Cycle, HistoryNext, WrNext, ExeNext, WrMutexNext
<1>8. Micro(e) = [cmd |-> "step0", eip |-> excEip, len |-> 0]
  BY <1>2 DEF Micro
<1>9. rd' = [cmd |-> "step0", eip |-> excEip, len |-> 0]
  BY <1>1, <1>3, <1>4, <1>8 DEF Cycle, RdNext
<1>10. mc' = [rd' EXCEPT !.cmd = "step"]
  BY <1>1, <1>2, <1>3, <1>4, <1>8, <1>9 DEF Cycle, McNext, NextStep
<1>11. excEip = pc /\ event.src \in {"irq", "exc"}
  BY DEF IInv, Resume, Counted
<1>12. rd'.cmd = "step0" /\ Origin(rd') = pc
  BY <1>1, <1>9, <1>11, OriginType DEF Origin, TypeInv, Addresses
<1>13. mc'.cmd = "step" /\ mc' = [rd' EXCEPT !.cmd = NextStep(@)]
  BY <1>9, <1>10 DEF NextStep
<1>14. InOrder'
  BY <1>2, <1>6, <1>7, <1>11, <1>12, <1>13
  DEF InOrder, AfterWr, AfterExe, First, Step, Overlay, Busy, Origin, Delivery
<1>15. Modes' /\ Drained' /\ Resume'
  BY <1>1, <1>2, <1>3, <1>6, <1>7 DEF Modes, Drained, Resume, Busy, IInv, TypeInv
<1>16. count' = count /\ external' = external
  BY <1>1, <1>3 DEF IInv, TypeInv
<1>17. Counted' /\ Signalled'
  BY <1>1, <1>3, <1>6, <1>16 DEF IInv, Counted, Signalled, Last
<1>18. Entered'
  BY <1>1, <1>6 DEF IInv, Entered, Running, ExcInit
<1>19. QED  BY <1>1, <1>14, <1>15, <1>17, <1>18 DEF IInv, Chain

\* An interrupt or a breakpoint comes when an instruction completes.
LEMMA ArriveMode ==
  ASSUME IInv, NEW e, Input(e), Cycle(e), Running, Prepare(e) \/ DebugPrepare(e)
  PROVE  IInv'
<1>1. /\ TypeInv' /\ ~ExcInit /\ ~Reset
      /\ ~full.valid /\ ~possible /\ ~done /\ ~dbg /\ ~shutdown
      /\ ~load' /\ ~done' /\ ~shutdown' /\ possible' = Prepare(e) /\ dbg' = DebugPrepare(e)
      /\ wrMutex = Busy(wr) /\ lastType' = lastType
      /\ count' = (IF ExceptionFinished(e) THEN 0 ELSE count)
      /\ external' = (~ExceptionFinished(e) /\ external)
  BY RunBasics
<1>2. WrReady(e) /\ Busy(wr) /\ wr.cmd \in {"plain", "jump", "str", "fin"} /\ Finished(e)
  BY DEF Prepare, DebugPrepare, Finished, WrReady
<1>3. ~(Prepare(e) /\ DebugPrepare(e))
  BY DEF Prepare
<1>4. e.source = "none"
  BY <1>2, Taken DEF Empty
<1>5. e.exeReady = FALSE
  BY DEF Input, ExeReady, WrBusy
<1>6. wr' = [wr EXCEPT !.cmd = "null"] /\ wrString' = InString(e) /\ wrMutex' = Prepare(e)
  <2>1. wr' = [wr EXCEPT !.cmd = "null"] /\ wrString' = InString(e)
    BY <1>2, <1>5 DEF Cycle, WrNext
  <2>2. wrMutex' = Prepare(e)
    BY <1>1, <1>2, <1>5 DEF Cycle, WrMutexNext
  <2>3. QED  BY <2>1, <2>2
<1>7. wr'.cmd = "null" /\ wr'.eip = wr.eip /\ wr'.len = wr.len
  BY <1>6 DEF IInv, TypeInv, Command
<1>8. ~Busy(wr') /\ Origin(wr') = Origin(wr)
  BY <1>7 DEF Busy, Origin
<1>9. ~load
  BY <1>2 DEF IInv, Drained, Empty
<1>10. First(wr)
  BY <1>2, <1>9 DEF IInv, Chain, InOrder
<1>11. pc' = IF wrString' THEN Origin(wr') ELSE wr'.eip
  <2>1. InString(e) => Origin(wr) = pc
    BY <1>10 DEF First, InString
  <2>2. QED  BY <1>2, <1>6, <1>7, <1>8, <2>1 DEF Cycle, HistoryNext
<1>12. full' = full
  BY <1>4, UnitStill
<1>13. Resume' /\ Modes' /\ Drained'
  BY <1>1, <1>3, <1>6, <1>8, <1>11, <1>12 DEF Resume, Modes, Drained
<1>14. ~ExceptionFinished(e) => event.src = "none" /\ nest = <<>> /\ count = 0 /\ ~external
  <2> SUFFICES ASSUME ~ExceptionFinished(e)
               PROVE  event.src = "none" /\ nest = <<>> /\ count = 0 /\ ~external
    OBVIOUS
  <2>1. wr.cmd \notin Delivery
    BY <1>2 DEF ExceptionFinished, Delivery
  <2>2. event.src = "none"
    BY <1>10, <2>1 DEF First
  <2>3. nest = <<>> /\ count = Len(nest) /\ external = (event.src \in {"irq", "exc"})
    BY <1>1, <2>2 DEF IInv, Counted
  <2>4. ~external
    BY <2>2, <2>3
  <2>5. QED  BY <2>2, <2>3, <2>4
<1>15. count' = 0 /\ ~external'
  BY <1>1, <1>14
<1>16. ~DebugPrepare(e) => event'.src = "none" /\ nest' = <<>>
  BY <1>4, <1>14, UnitStill DEF NoEvent
<1>17. DebugPrepare(e) => event'.src = "exc" /\ event'.vec = "DB" /\ nest' = <<"benign">>
  BY <1>4 DEF Cycle, HistoryNext
<1>18. Len(<<"benign">>) = 1 /\ <<"benign">> # <<>> /\ Len(<<>>) = 0
  OBVIOUS
<1>19. Counted' /\ Signalled'
  <2>1. CASE DebugPrepare(e)
    <3>1. dbg' /\ ~possible' /\ ~done' /\ ~load' /\ ~shutdown' /\ ~full'.valid
      BY <1>1, <1>3, <1>12, <2>1
    <3>2. /\ event'.src = "exc" /\ event'.vec = "DB" /\ nest' = <<"benign">> /\ count' = 0
          /\ nest' # <<>> /\ Len(nest') = 1
      BY <1>15, <1>17, <1>18, <2>1
    <3>3. QED  BY <3>1, <3>2 DEF Counted, Signalled
  <2>2. CASE ~DebugPrepare(e)
    <3>1. external' = (event'.src \in {"irq", "exc"})
      <4>1. external' = FALSE
        BY <1>1, <1>15 DEF TypeInv
      <4>2. (event'.src \in {"irq", "exc"}) = FALSE
        BY <1>16, <2>2
      <4>3. QED  BY <4>1, <4>2, Zenon
    <3>2. ~dbg' /\ ~load' /\ ~shutdown' /\ ~full'.valid
      BY <1>1, <1>12, <2>2
    <3>3. event'.src = "none" /\ nest' = <<>> /\ Len(nest') = 0 /\ count' = 0
      BY <1>15, <1>16, <1>18, <2>2
    <3>4. Signalled'
      BY <3>2 DEF Signalled
    <3>5. Counted'
      <4>1. Len(nest') <= 3
        BY <3>3
      <4>2. QED  BY <3>1, <3>2, <3>3, <4>1, Zenon DEF Counted
    <3>6. QED  BY <3>4, <3>5
  <2>3. QED  BY <2>1, <2>2
<1>20. Entered' /\ Chain'
  BY <1>1, <1>3 DEF Entered, Chain, Running, ExcInit
<1>21. QED  BY <1>1, <1>13, <1>19, <1>20 DEF IInv

----------------------------------------------------------------------------
(* The stages of the running processor.                                    *)

Going(e) == Running /\ ~load /\ e.source \in {"none", "int"} /\ ~Prepare(e) /\ ~DebugPrepare(e)

LEMMA GoStages ==
  ASSUME IInv, NEW e, Input(e), Cycle(e), Going(e)
  PROVE  /\ InOrder
         /\ WrReady(e) => Busy(wr)
         /\ e.exeReady => /\ ~Flush(e) /\ Busy(exe) /\ (Busy(wr) => WrReady(e))
                          /\ wr'.cmd = exe.cmd /\ wr'.len = exe.len
                          /\ (exe.cmd \notin {"jump", "fin"} => wr' = exe)
         /\ ~e.exeReady /\ WrReady(e) => ~Busy(wr')
         /\ ~e.exeReady /\ ~WrReady(e) => wr' = wr
         /\ wrMutex' = Busy(wr')
<1>1. ~ExcInit /\ ~Reset /\ InOrder /\ wrMutex = Busy(wr)
  BY RunBasics DEF Going, IInv, Chain
<1>2. WrReady(e) => Busy(wr)
  BY DEF WrReady
<1>3. e.exeReady => ~Flush(e) /\ Busy(exe) /\ (Busy(wr) => WrReady(e))
  BY Readies DEF WrBusy, WrReady
<1>4. e.exeReady => wr'.cmd = exe.cmd /\ wr'.len = exe.len /\ (exe.cmd \notin {"jump", "fin"} => wr' = exe)
  <2>1. exe = [cmd |-> exe.cmd, eip |-> exe.eip, len |-> exe.len]
    BY DEF IInv, TypeInv, Command
  <2>2. e.exeReady =>
          wr' = [exe EXCEPT !.eip = IF exe.cmd \in {"jump", "fin"} THEN e.to ELSE @]
    BY DEF Cycle, WrNext
  <2>3. QED  BY <2>1, <2>2
<1>5. ~e.exeReady /\ WrReady(e) => ~Busy(wr')
  BY DEF Cycle, WrNext, Busy, IInv, TypeInv, Command
<1>6. ~e.exeReady /\ ~WrReady(e) => wr' = wr
  BY <1>1 DEF Cycle, WrNext
<1>7. wrMutex' = Busy(wr')
  <2>1. wrMutex' = WrMutexNext(e)
    BY DEF Cycle
  <2>2. CASE e.exeReady
    BY <1>1, <1>3, <1>4, <2>1, <2>2 DEF WrMutexNext, Busy
  <2>3. CASE ~e.exeReady /\ WrReady(e)
    <3>1. ~Prepare(e)
      BY DEF Going
    <3>2. WrMutexNext(e) = FALSE
      BY <1>1, <2>3, <3>1 DEF WrMutexNext
    <3>3. QED  BY <1>5, <2>1, <2>3, <3>2 DEF Busy
  <2>4. CASE ~e.exeReady /\ ~WrReady(e)
    BY <1>1, <1>6, <2>1, <2>4 DEF WrMutexNext
  <2>5. QED  BY <2>2, <2>3, <2>4
<1>8. QED  BY <1>1, <1>2, <1>3, <1>4, <1>5, <1>6, <1>7

LEMMA GoHistory ==
  ASSUME IInv, NEW e, Input(e), Cycle(e), Going(e)
  PROVE  /\ ~WrReady(e) => pc' = pc /\ event' = event
         /\ WrReady(e) =>
              /\ wr.cmd \in {"plain", "jump", "fin"} => pc' = wr.eip
              /\ wr.cmd = "str" => pc' = IF e.last THEN wr.eip ELSE pc
              /\ wr.cmd \in {"soft", "step0", "step"} => pc' = pc
              /\ wr.cmd = "soft" => event'.src = "soft"
              /\ wr.cmd = "fin" => event' = NoEvent
              /\ wr.cmd \notin {"soft", "fin"} => event' = event
<1>1. pc' = IF Finished(e) /\ ~InString(e) THEN wr.eip ELSE pc
  BY DEF Cycle, HistoryNext
<1>2. /\ ~WrReady(e) => pc' = pc
      /\ WrReady(e) =>
           /\ wr.cmd \in {"plain", "jump", "fin"} => pc' = wr.eip
           /\ wr.cmd = "str" => pc' = IF e.last THEN wr.eip ELSE pc
           /\ wr.cmd \in {"soft", "step0", "step"} => pc' = pc
  BY <1>1 DEF Finished, InString
<1>3. e.source = "int" => event'.src = "soft"
  BY DEF Cycle, HistoryNext
<1>4. e.source = "int" <=> WrReady(e) /\ wr.cmd = "soft"
  BY Taken DEF Going, WrInt
<1>5. e.source # "int" => e.source = "none"
  BY DEF Going
<1>6. e.source = "none" => event' = IF ExceptionFinished(e) THEN NoEvent ELSE event
  BY UnitStill DEF Going
<1>7. QED  BY <1>2, <1>3, <1>4, <1>5, <1>6 DEF ExceptionFinished

\* The oldest command completes and the next one is the oldest.
LEMMA Completes ==
  ASSUME IInv, NEW e, Input(e), Cycle(e), Going(e), WrReady(e), ~Flush(e),
         NEW t, BehindWr(t)
  PROVE  /\ Origin(t) = pc'
         /\ t.cmd \in Delivery <=> event'.src # "none"
<1>1. First(wr) /\ Busy(wr)
  BY GoStages DEF InOrder
<1>2. wr.cmd \in {"plain", "str", "soft", "step0", "step"}
  BY <1>1 DEF IInv, TypeInv, Command, Commands, Delivery, Busy, Flush
<1>3. wr.cmd # "plain" => t = Step(wr) /\ t.cmd = NextStep(wr.cmd) /\ Origin(t) = Origin(wr)
  <2>1. wr.cmd # "plain" => t = Step(wr)
    BY <1>2 DEF BehindWr, Behind
  <2>2. Step(wr) = [cmd |-> NextStep(wr.cmd), eip |-> wr.eip, len |-> wr.len]
    BY DEF Step, IInv, TypeInv, Command
  <2>3. QED  BY <2>1, <2>2 DEF Origin
<1>4. CASE wr.cmd = "plain"
  <2>1. t.cmd \in Commands /\ Origin(t) = wr.eip
    BY <1>4 DEF BehindWr, Behind
  <2>2. event'.src = "none" /\ pc' = wr.eip
    BY <1>1, <1>4, GoHistory DEF First, Delivery
  <2>3. QED  BY <2>1, <2>2 DEF Commands, Delivery
<1>5. CASE wr.cmd = "str"
  <2>1. pc' = pc /\ event' = event
    BY <1>5, GoHistory DEF Flush
  <2>2. QED  BY <1>1, <1>3, <1>5, <2>1 DEF First, NextStep, Delivery
<1>6. CASE wr.cmd = "soft"
  <2>1. pc' = pc /\ event'.src = "soft"
    BY <1>6, GoHistory
  <2>2. QED  BY <1>1, <1>3, <1>6, <2>1 DEF First, NextStep, Delivery
<1>7. CASE wr.cmd \in {"step0", "step"}
  <2>1. pc' = pc /\ event' = event
    BY <1>7, GoHistory
  <2>2. QED  BY <1>1, <1>3, <1>7, <2>1 DEF First, NextStep, Delivery
<1>8. QED  BY <1>2, <1>4, <1>5, <1>6, <1>7

\* What follows the write stage still does when nothing leaves the execute stage.
LEMMA Waits ==
  ASSUME IInv, NEW e, Input(e), Cycle(e), Going(e), ~Flush(e), ~e.exeReady,
         NEW t, AfterWr(t)
  PROVE  AfterWr(t)'
<1>1. CASE WrReady(e)
  <2>1. Busy(wr) /\ ~Busy(wr')
    BY <1>1, GoStages
  <2>2. BehindWr(t)
    BY <2>1 DEF AfterWr
  <2>3. Origin(t) = pc' /\ (t.cmd \in Delivery <=> event'.src # "none")
    BY <1>1, <2>2, Completes
  <2>4. QED  BY <2>1, <2>3 DEF AfterWr, First
<1>2. CASE ~WrReady(e)
  <2>1. wr' = wr /\ pc' = pc /\ event' = event
    BY <1>2, GoStages, GoHistory
  <2>2. QED  BY <2>1 DEF AfterWr, First, BehindWr, Busy, Behind
<1>3. QED  BY <1>1, <1>2

\* The command of the execute stage enters the write stage.
LEMMA Enters ==
  ASSUME IInv, NEW e, Input(e), Cycle(e), Going(e), e.exeReady
  PROVE  Busy(wr') /\ First(wr)' /\ \A t : Behind(exe, t) => BehindWr(t)'
<1>1. /\ ~Flush(e) /\ Busy(exe) /\ (Busy(wr) => WrReady(e)) /\ InOrder
      /\ wr'.cmd = exe.cmd /\ wr'.len = exe.len /\ (exe.cmd \notin {"jump", "fin"} => wr' = exe)
  BY GoStages
<1>2. Origin(exe) = pc' /\ (exe.cmd \in Delivery <=> event'.src # "none")
  <2>1. CASE Busy(wr)
    <3>1. WrReady(e) /\ BehindWr(exe)
      BY <1>1, <2>1 DEF InOrder, AfterWr
    <3>2. QED  BY <1>1, <3>1, Completes
  <2>2. CASE ~Busy(wr)
    <3>1. First(exe) /\ Origin(exe) = pc
      BY <1>1, <2>2 DEF InOrder, AfterWr
    <3>2. pc' = pc /\ event' = event
      BY <2>2, GoStages, GoHistory
    <3>3. QED  BY <3>1, <3>2 DEF First
  <2>3. QED  BY <2>1, <2>2
<1>3. First(wr)'
  BY <1>1, <1>2 DEF First
<1>4. ASSUME NEW t, Behind(exe, t)
      PROVE  BehindWr(t)'
  <2>1. CASE exe.cmd = "jump"
    BY <1>1, <1>4, <2>1 DEF BehindWr, Behind
  <2>2. CASE exe.cmd = "fin"
    <3>1. t = Step(exe)
      BY <1>4, <2>2 DEF Behind
    <3>2. t.cmd = "fin"
      BY <2>2, <3>1 DEF Step, NextStep, IInv, TypeInv, Command
    <3>3. QED  BY <1>1, <2>2, <3>2 DEF BehindWr
  <2>3. CASE exe.cmd \notin {"jump", "fin"}
    BY <1>1, <1>4, <2>3 DEF BehindWr, Behind
  <2>4. QED  BY <2>1, <2>2, <2>3
<1>5. QED  BY <1>1, <1>3, <1>4 DEF Busy

LEMMA GoMoves ==
  ASSUME IInv, NEW e, Input(e), Cycle(e), Going(e), ~Flush(e)
  PROVE  /\ exe' = IF e.rdReady THEN rd ELSE IF e.exeReady THEN Null ELSE exe
         /\ rd' = IF e.microReady THEN Micro(e) ELSE IF e.rdReady THEN Null ELSE rd
         /\ eip' = IF e.decReady THEN After(eip) ELSE eip
         /\ e.rdReady => Busy(rd) /\ (Busy(exe) => e.exeReady)
         /\ e.exeReady => Busy(exe)
         /\ e.microReady => (Busy(rd) => e.rdReady) /\ (~Overlay => e.decReady)
         /\ e.decReady => e.microReady /\ ~Overlay
         /\ Overlay /\ Busy(rd) /\ ~e.microReady => ~e.rdReady
         /\ e.microReady /\ Overlay => mc' = Step(rd') /\ rd' = mc
         /\ e.microReady /\ ~Overlay =>
              /\ rd'.cmd = e.dec /\ rd'.cmd \in Commands /\ rd'.eip = After(eip) /\ Origin(rd') = eip
              /\ mc' = IF e.dec \in {"soft", "str"} THEN Step(rd') ELSE Null
         /\ ~e.microReady => mc' = mc
<1>1. ~ExcInit /\ ~Reset /\ ~load
  BY RunBasics DEF Going
<1>2. ~FlushAll(e)
  BY DEF Flush, FlushAll
<1>3. exe' = IF e.rdReady THEN rd ELSE IF e.exeReady THEN Null ELSE exe
  BY <1>1 DEF Cycle, ExeNext
<1>4. rd' = IF e.microReady THEN Micro(e) ELSE IF e.rdReady THEN Null ELSE rd
  BY <1>1 DEF Cycle, RdNext
<1>5. eip' = IF e.decReady THEN After(eip) ELSE eip
  BY <1>2 DEF Cycle, EipNext
<1>6. /\ e.rdReady => Busy(rd) /\ (Busy(exe) => e.exeReady)
      /\ e.exeReady => Busy(exe)
      /\ e.microReady => (Busy(rd) => e.rdReady) /\ (~Overlay => e.decReady)
      /\ e.decReady => e.microReady /\ ~Overlay
      /\ Overlay /\ Busy(rd) /\ ~e.microReady => ~e.rdReady
  BY <1>1, Readies
<1>7. mc' = McNext(e)
  BY DEF Cycle
<1>8. ~e.microReady => mc' = mc
  BY <1>1, <1>7 DEF McNext
<1>9. e.microReady =>
        mc' = IF Overlay \/ e.dec \in {"soft", "str"} THEN Step(Micro(e)) ELSE Null
  BY <1>1, <1>7 DEF McNext, Step
<1>10. e.microReady /\ Overlay => mc' = Step(rd') /\ rd' = mc
  <2> SUFFICES ASSUME e.microReady, Overlay
               PROVE  mc' = Step(rd') /\ rd' = mc
    OBVIOUS
  <2>1. Micro(e) = [cmd |-> mc.cmd, eip |-> mc.eip, len |-> mc.len]
    BY <1>1 DEF Micro
  <2>2. mc = [cmd |-> mc.cmd, eip |-> mc.eip, len |-> mc.len]
    BY DEF IInv, TypeInv, Command
  <2>3. QED  BY <1>4, <1>9, <2>1, <2>2
<1>11. e.microReady /\ ~Overlay =>
         /\ rd'.cmd = e.dec /\ rd'.cmd \in Commands /\ rd'.eip = After(eip) /\ Origin(rd') = eip
         /\ mc' = IF e.dec \in {"soft", "str"} THEN Step(rd') ELSE Null
  <2> SUFFICES ASSUME e.microReady, ~Overlay
               PROVE  /\ rd'.cmd = e.dec /\ rd'.cmd \in Commands /\ rd'.eip = After(eip)
                      /\ Origin(rd') = eip
                      /\ mc' = IF e.dec \in {"soft", "str"} THEN Step(rd') ELSE Null
    OBVIOUS
  <2>1. rd' = [cmd |-> e.dec, eip |-> After(eip), len |-> 1]
    BY <1>1, <1>4 DEF Micro
  <2>2. e.dec \in Commands
    BY Readies
  <2>3. Origin(rd') = eip
    BY <2>1, Decodes DEF IInv, TypeInv
  <2>4. QED  BY <1>4, <1>9, <2>1, <2>2, <2>3
<1>12. QED  BY <1>3, <1>4, <1>5, <1>6, <1>8, <1>10, <1>11

\* A flush leaves the decoder where the program goes on.
LEMMA Flushed ==
  ASSUME IInv, NEW e, Input(e), Cycle(e), Going(e), Flush(e)
  PROVE  InOrder'
<1>1. /\ WrReady(e) /\ Busy(wr) /\ ~e.exeReady /\ ~Busy(wr') /\ InOrder /\ First(wr)
  BY GoStages DEF Flush, InOrder
<1>2. ~ExcInit /\ ~Reset /\ ~load
  BY RunBasics DEF Going
<1>3. exe' = Null /\ rd' = Null
  BY Readies DEF Cycle, ExeNext, RdNext
<1>4. ~e.microReady
  BY Readies
<1>5. mc' = Null
  BY <1>2, <1>4 DEF Cycle, McNext
<1>6. event'.src = "none"
  <2>1. CASE wr.cmd = "fin"
    BY <1>1, <2>1, GoHistory DEF NoEvent
  <2>2. CASE wr.cmd # "fin"
    <3>1. wr.cmd \in {"jump", "str"}
      BY <2>2 DEF Flush
    <3>2. event' = event
      BY <1>1, <3>1, GoHistory
    <3>3. QED  BY <1>1, <3>1, <3>2 DEF First, Delivery
  <2>3. QED  BY <2>1, <2>2
<1>7. eip' = pc'
  <2>1. CASE FlushAll(e)
    <3>1. eip' = wr.eip
      BY <2>1 DEF Cycle, EipNext
    <3>2. pc' = wr.eip
      BY <1>1, <2>1, GoHistory DEF FlushAll
    <3>3. QED  BY <3>1, <3>2
  <2>2. CASE ~FlushAll(e)
    <3>1. wr.cmd = "str" /\ e.last /\ pc' = wr.eip
      BY <1>1, <2>2, GoHistory DEF Flush, FlushAll
    <3>2. Step(wr) = wr
      BY <3>1 DEF Step, NextStep, IInv, TypeInv, Command
    <3>3. Busy(exe) => exe = wr
      BY <1>1, <3>1, <3>2 DEF InOrder, AfterWr, BehindWr, Behind
    <3>4. Busy(rd) => rd = wr
      BY <1>1, <3>1, <3>2, <3>3 DEF InOrder, AfterExe, AfterWr, BehindWr, Behind
    <3>5. Overlay
      BY <1>1, <3>1, <3>3, <3>4 DEF InOrder, Decoded
    <3>6. mc = wr /\ mc.eip = eip
      BY <1>1, <3>1, <3>2, <3>4, <3>5 DEF InOrder
    <3>7. eip' = eip
      BY <2>2, <3>5, Readies DEF Cycle, EipNext
    <3>8. QED  BY <3>1, <3>6, <3>7
  <2>3. QED  BY <2>1, <2>2
<1>8. QED  BY <1>1, <1>3, <1>5, <1>6, <1>7 DEF InOrder, Null, Busy, Overlay

\* Otherwise every command still follows the older one.
LEMMA Ordered ==
  ASSUME IInv, NEW e, Input(e), Cycle(e), Going(e), ~Flush(e)
  PROVE  InOrder'
<1>1. InOrder /\ (WrReady(e) => Busy(wr))
  BY GoStages
<1>2. /\ exe' = IF e.rdReady THEN rd ELSE IF e.exeReady THEN Null ELSE exe
      /\ rd' = IF e.microReady THEN Micro(e) ELSE IF e.rdReady THEN Null ELSE rd
      /\ eip' = IF e.decReady THEN After(eip) ELSE eip
      /\ e.rdReady => Busy(rd) /\ (Busy(exe) => e.exeReady)
      /\ e.exeReady => Busy(exe)
      /\ e.microReady => (Busy(rd) => e.rdReady) /\ (~Overlay => e.decReady)
      /\ e.decReady => e.microReady /\ ~Overlay
      /\ Overlay /\ Busy(rd) /\ ~e.microReady => ~e.rdReady
      /\ e.microReady /\ Overlay => mc' = Step(rd') /\ rd' = mc
      /\ e.microReady /\ ~Overlay =>
           /\ rd'.cmd = e.dec /\ rd'.cmd \in Commands /\ rd'.eip = After(eip) /\ Origin(rd') = eip
           /\ mc' = IF e.dec \in {"soft", "str"} THEN Step(rd') ELSE Null
      /\ ~e.microReady => mc' = mc
  BY GoMoves
<1>3. ~Busy(Null)
  BY DEF Busy, Null
<1>4. /\ e.exeReady => Busy(wr') /\ First(wr)' /\ \A t : Behind(exe, t) => BehindWr(t)'
      /\ ~e.exeReady => \A t : AfterWr(t) => AfterWr(t)'
  BY Enters, Waits
<1>5. ASSUME NEW t, AfterExe(t)
      PROVE  IF e.exeReady \/ ~Busy(exe) THEN AfterWr(t)' ELSE Behind(exe, t)
  BY <1>2, <1>4, <1>5 DEF AfterExe, AfterWr
<1>6. Busy(wr') => First(wr)'
  <2>1. CASE e.exeReady
    BY <1>4, <2>1
  <2>2. CASE ~e.exeReady /\ ~WrReady(e)
    <3>1. wr' = wr /\ pc' = pc /\ event' = event
      BY <2>2, GoStages, GoHistory
    <3>2. QED  BY <1>1, <3>1 DEF InOrder, First, Busy
  <2>3. CASE ~e.exeReady /\ WrReady(e)
    BY <2>3, GoStages
  <2>4. QED  BY <2>1, <2>2, <2>3
<1>7. Busy(exe') => AfterWr(exe)'
  <2>1. CASE e.rdReady
    BY <1>1, <1>2, <1>4, <1>5, <2>1 DEF InOrder, AfterExe, AfterWr
  <2>2. CASE ~e.rdReady /\ e.exeReady
    BY <1>2, <1>3, <2>2
  <2>3. CASE ~e.rdReady /\ ~e.exeReady
    BY <1>1, <1>2, <1>4, <2>3 DEF InOrder, AfterWr
  <2>4. QED  BY <2>1, <2>2, <2>3
<1>8. Busy(rd') => AfterExe(rd)'
  <2>1. CASE e.microReady /\ Overlay
    <3>1. Busy(rd) /\ rd.cmd \notin {"plain", "jump"} /\ mc = Step(rd)
      BY <1>1, <2>1 DEF InOrder
    <3>2. exe' = rd /\ rd' = Step(rd)
      BY <1>2, <2>1, <3>1
    <3>3. QED  BY <3>1, <3>2 DEF AfterExe, Behind, Busy
  <2>2. CASE e.microReady /\ ~Overlay
    <3>1. rd'.cmd \in Commands /\ Origin(rd') = eip
      BY <1>2, <2>2
    <3>2. CASE Busy(rd)
      <4>1. exe' = rd /\ Decoded(rd)
        BY <1>1, <1>2, <2>2, <3>2 DEF InOrder
      <4>2. QED  BY <3>1, <3>2, <4>1 DEF AfterExe, Behind, Busy, Decoded
    <3>3. CASE ~Busy(rd) /\ Busy(exe)
      <4>1. Decoded(exe) /\ ~e.rdReady
        BY <1>1, <1>2, <2>2, <3>3 DEF InOrder
      <4>2. Behind(exe, rd')
        BY <3>1, <4>1 DEF Decoded, Behind
      <4>3. CASE e.exeReady
        <5>1. exe' = Null /\ BehindWr(rd)' /\ Busy(wr')
          BY <1>2, <1>4, <4>1, <4>2, <4>3 DEF BehindWr, Behind
        <5>2. QED  BY <1>3, <5>1 DEF AfterExe, AfterWr, Busy
      <4>4. CASE ~e.exeReady
        BY <1>2, <3>3, <4>1, <4>2, <4>4 DEF AfterExe, Behind, Busy
      <4>5. QED  BY <4>3, <4>4
    <3>4. CASE ~Busy(rd) /\ ~Busy(exe)
      <4>1. ~e.rdReady /\ ~e.exeReady /\ exe' = exe
        BY <1>2, <3>4
      <4>2. AfterWr(rd')
        <5>1. CASE Busy(wr)
          <6>1. wr.cmd \in {"plain", "jump"} /\ (wr.cmd = "plain" => wr.eip = eip)
            BY <1>1, <2>2, <3>4, <5>1 DEF InOrder
          <6>2. QED  BY <3>1, <5>1, <6>1 DEF AfterWr, BehindWr, Behind
        <5>2. CASE ~Busy(wr)
          <6>1. eip = pc /\ event.src = "none"
            BY <1>1, <2>2, <3>4, <5>2 DEF InOrder
          <6>2. QED  BY <3>1, <5>2, <6>1 DEF AfterWr, First, Commands, Delivery
        <5>3. QED  BY <5>1, <5>2
      <4>3. AfterWr(rd)'
        BY <1>4, <4>1, <4>2 DEF AfterWr, First, BehindWr, Behind, Busy
      <4>4. QED  BY <3>4, <4>1, <4>3 DEF AfterExe, Busy
    <3>5. QED  BY <3>2, <3>3, <3>4
  <2>3. CASE ~e.microReady /\ e.rdReady
    BY <1>2, <1>3, <2>3
  <2>4. CASE ~e.microReady /\ ~e.rdReady
    <3>1. rd' = rd
      BY <1>2, <2>4
    <3>2. QED  BY <1>1, <1>2, <1>3, <1>5, <2>4, <3>1 DEF InOrder, AfterExe, AfterWr, First, BehindWr, Behind, Busy
  <2>5. QED  BY <2>1, <2>2, <2>3, <2>4
<1>9. Overlay' => /\ Busy(rd') /\ rd'.cmd \notin {"plain", "jump"} /\ mc' = Step(rd')
                  /\ (mc'.cmd = "str" => mc'.eip = eip')
  <2>1. CASE e.microReady /\ Overlay
    <3>1. mc' = Step(rd') /\ rd' = mc /\ eip' = eip
      BY <1>2, <2>1
    <3>2. mc.cmd \in {"str"} \cup Delivery /\ mc \in Command /\ (mc.cmd = "str" => mc.eip = eip)
      BY <1>1, <2>1 DEF InOrder, IInv, TypeInv, Overlay, Busy
    <3>3. mc'.cmd = NextStep(mc.cmd) /\ mc'.eip = mc.eip
      BY <3>1, <3>2 DEF Step, Command
    <3>4. QED  BY <3>1, <3>2, <3>3 DEF NextStep, Busy, Delivery
  <2>2. CASE e.microReady /\ ~Overlay
    <3>1. CASE e.dec \in {"soft", "str"}
      <4>1. rd'.cmd = e.dec /\ rd'.eip = After(eip) /\ mc' = Step(rd') /\ eip' = After(eip)
        BY <1>2, <2>2, <3>1
      <4>2. rd' \in Command
        BY RunBasics DEF Going, TypeInv
      <4>3. mc'.eip = rd'.eip
        BY <4>1, <4>2 DEF Step, Command
      <4>4. QED  BY <3>1, <4>1, <4>3 DEF Busy
    <3>2. CASE e.dec \notin {"soft", "str"}
      BY <1>2, <1>3, <2>2, <3>2 DEF Overlay, Busy
    <3>3. QED  BY <3>1, <3>2
  <2>3. CASE ~e.microReady
    <3>1. mc' = mc /\ eip' = eip
      BY <1>2, <2>3
    <3>2. Overlay => rd' = rd
      BY <1>1, <1>2, <2>3 DEF InOrder
    <3>3. QED  BY <1>1, <3>1, <3>2 DEF InOrder, Overlay, Busy
  <2>4. QED  BY <2>1, <2>2, <2>3
<1>10. ~Overlay' =>
         IF Busy(rd') THEN Decoded(rd)'
         ELSE IF Busy(exe') THEN Decoded(exe)'
         ELSE IF Busy(wr') THEN wr'.cmd \in {"plain", "jump"} /\ (wr'.cmd = "plain" => wr'.eip = eip')
         ELSE eip' = pc' /\ event'.src = "none"
  <2>1. CASE e.microReady /\ Overlay
    <3>1. mc' = Step(mc)
      BY <1>2, <2>1
    <3>2. mc.cmd \in {"str"} \cup Delivery /\ mc \in Command
      BY <2>1 DEF IInv, TypeInv, Overlay, Busy
    <3>3. Overlay'
      BY <3>1, <3>2 DEF Overlay, Busy, Step, NextStep, Delivery, Command
    <3>4. QED  BY <3>3
  <2>2. CASE e.microReady /\ ~Overlay
    <3>1. rd'.cmd = e.dec /\ rd'.cmd \in Commands /\ rd'.eip = After(eip) /\ eip' = After(eip)
      BY <1>2, <2>2
    <3>2. CASE e.dec \in {"soft", "str"}
      <4>1. mc' = Step(rd') /\ rd' \in Command
        BY <1>2, <2>2, <3>2, RunBasics DEF Going, TypeInv
      <4>2. Overlay'
        BY <3>1, <3>2, <4>1 DEF Overlay, Busy, Step, NextStep, Command
      <4>3. QED  BY <4>2
    <3>3. CASE e.dec \notin {"soft", "str"}
      BY <3>1, <3>3 DEF Busy, Decoded, Commands
    <3>4. QED  BY <3>2, <3>3
  <2>3. CASE ~e.microReady
    <3> SUFFICES ASSUME ~Overlay'
                 PROVE  IF Busy(rd') THEN Decoded(rd)'
                        ELSE IF Busy(exe') THEN Decoded(exe)'
                        ELSE IF Busy(wr') THEN /\ wr'.cmd \in {"plain", "jump"}
                                               /\ (wr'.cmd = "plain" => wr'.eip = eip')
                        ELSE eip' = pc' /\ event'.src = "none"
      OBVIOUS
    <3>1. ~Overlay /\ eip' = eip /\ rd' = (IF e.rdReady THEN Null ELSE rd)
      BY <1>2, <2>3 DEF Overlay
    <3>2. CASE Busy(rd)
      BY <1>1, <1>2, <1>3, <3>1, <3>2 DEF InOrder, Decoded, Busy
    <3>3. CASE ~Busy(rd) /\ Busy(exe)
      <4>1. Decoded(exe) /\ rd' = rd /\ ~e.rdReady
        BY <1>1, <1>2, <3>1, <3>3 DEF InOrder
      <4>2. CASE e.exeReady
        <5>1. exe' = Null /\ Busy(wr') /\ wr'.cmd = exe.cmd /\ (exe.cmd = "plain" => wr' = exe)
          BY <1>2, <1>4, <4>1, <4>2, GoStages
        <5>2. QED  BY <1>3, <3>1, <3>3, <4>1, <5>1 DEF Decoded, Busy
      <4>3. CASE ~e.exeReady
        BY <1>2, <3>1, <3>3, <4>1, <4>3 DEF Decoded, Busy
      <4>4. QED  BY <4>2, <4>3
    <3>4. CASE ~Busy(rd) /\ ~Busy(exe)
      <4>1. rd' = rd /\ exe' = exe /\ ~e.exeReady
        BY <1>2, <3>1, <3>4
      <4>2. CASE WrReady(e)
        <5>1. Busy(wr) /\ ~Busy(wr') /\ First(wr)
          BY <1>1, <4>1, <4>2, GoStages DEF InOrder
        <5>2. wr.cmd = "plain" /\ wr.eip = eip
          BY <1>1, <3>1, <3>4, <4>2, <5>1 DEF InOrder, Flush
        <5>3. pc' = wr.eip /\ event' = event /\ event.src = "none"
          BY <4>2, <5>1, <5>2, GoHistory DEF First, Delivery
        <5>4. QED  BY <3>1, <3>4, <4>1, <5>1, <5>2, <5>3 DEF Busy
      <4>3. CASE ~WrReady(e)
        <5>1. wr' = wr /\ pc' = pc /\ event' = event
          BY <4>1, <4>3, GoStages, GoHistory
        <5>2. QED  BY <1>1, <3>1, <3>4, <4>1, <5>1 DEF InOrder, Busy
      <4>4. QED  BY <4>2, <4>3
    <3>5. QED  BY <3>2, <3>3, <3>4
  <2>4. QED  BY <2>1, <2>2, <2>3
<1>11. QED  BY <1>6, <1>7, <1>8, <1>9, <1>10 DEF InOrder

LEMMA GoingMode ==
  ASSUME IInv, NEW e, Input(e), Cycle(e), Going(e)
  PROVE  IInv'
<1>1. /\ TypeInv' /\ ~full.valid /\ ~possible /\ ~done /\ ~dbg /\ ~shutdown
      /\ ~load' /\ ~done' /\ ~shutdown' /\ possible' = Prepare(e) /\ dbg' = DebugPrepare(e)
      /\ wrMutex = Busy(wr) /\ lastType' = lastType
      /\ count' = (IF ExceptionFinished(e) THEN 0 ELSE count)
      /\ external' = (~ExceptionFinished(e) /\ external)
  BY RunBasics DEF Going
<1>2. ~possible' /\ ~dbg' /\ ~DebugPrepare(e)
  BY <1>1 DEF Going
<1>3. e.source = "int" <=> WrReady(e) /\ wr.cmd = "soft"
  BY Taken DEF Going, WrInt
<1>4. e.source = "int" \/ e.source = "none"
  BY DEF Going
<1>5. /\ e.source = "int" => /\ event' = [vec |-> e.int, src |-> "soft", ext |-> FALSE] /\ nest' = <<>>
                             /\ full' = [valid |-> FALSE, vec |-> e.int]
                             /\ pushError' = FALSE /\ softInt' = TRUE
  <2> SUFFICES ASSUME e.source = "int"
               PROVE  /\ event' = [vec |-> e.int, src |-> "soft", ext |-> FALSE] /\ nest' = <<>>
                      /\ full' = [valid |-> FALSE, vec |-> e.int]
                      /\ pushError' = FALSE /\ softInt' = TRUE
    OBVIOUS
  <2>1. event' = [vec |-> e.int, src |-> "soft", ext |-> FALSE] /\ nest' = <<>>
    BY DEF Cycle, HistoryNext
  <2>2. full' = [valid |-> FALSE, vec |-> e.int]
    BY DEF Cycle, FullNext
  <2>3. ~ExceptionStart
    BY RunBasics DEF Going
  <2>4. pushError' = FALSE
    BY <2>3 DEF Cycle, PushErrorNext
  <2>5. softInt' = TRUE
    BY <1>1, <2>3 DEF Cycle, SoftIntNext
  <2>6. QED  BY <2>1, <2>2, <2>4, <2>5
<1>6. e.source = "none" =>
        /\ full' = full /\ pushError' = pushError /\ softInt' = softInt /\ errExt' = errExt
        /\ ExceptionFinished(e) => event' = NoEvent /\ nest' = <<>>
        /\ ~ExceptionFinished(e) => event' = event /\ nest' = nest
  BY <1>2, UnitStill DEF Going
<1>7. ~full'.valid
  BY <1>1, <1>4, <1>5, <1>6
<1>8. Modes' /\ Drained' /\ Resume'
  <2>1. wrMutex' = Busy(wr')
    BY GoStages
  <2>2. QED  BY <1>1, <1>2, <1>7, <2>1 DEF Modes, Drained, Resume
<1>9. First(wr) \/ ~Busy(wr)
  BY GoStages DEF InOrder
<1>10. Counted' /\ Signalled'
  <2>1. Signalled'
    BY <1>7 DEF Signalled
  <2>2. /\ event.src # "halt" /\ count = Len(nest) /\ (nest # <<>> => lastType = Last)
        /\ external = (event.src \in {"irq", "exc"}) /\ Len(nest) <= 3
        /\ (event.src \in {"none", "soft", "irq"} => nest = <<>>)
        /\ (event.src = "exc" => nest # <<>>)
    BY <1>1 DEF IInv, Counted
  <2>3. CASE e.source = "int"
    <3>1. event.src = "none" /\ ~ExceptionFinished(e)
      BY <1>3, <1>9, <2>3, GoStages DEF First, ExceptionFinished, Delivery
    <3>2. count = 0
      BY <2>2, <3>1
    <3>3. (event.src \in {"irq", "exc"}) = FALSE
      BY <3>1
    <3>4. external = FALSE
      BY <2>2, <3>3
    <3>5. count' = 0 /\ external' = FALSE
      BY <1>1, <3>1, <3>2, <3>4
    <3>6. event'.src = "soft" /\ nest' = <<>> /\ Len(nest') = 0 /\ Len(nest') <= 3
      BY <1>5, <2>3
    <3>7. (event'.src \in {"irq", "exc"}) = FALSE
      BY <3>6
    <3>8. Counted'
      BY <1>1, <1>2, <3>5, <3>6, <3>7, Zenon DEF Counted
    <3>9. QED  BY <2>1, <3>8
  <2>4. CASE e.source = "none" /\ ExceptionFinished(e)
    <3>1. count' = 0 /\ external' = FALSE
      BY <1>1, <2>4
    <3>2. event'.src = "none" /\ nest' = <<>> /\ Len(nest') = 0 /\ Len(nest') <= 3
      BY <1>6, <2>4 DEF NoEvent
    <3>3. (event'.src \in {"irq", "exc"}) = FALSE
      BY <3>2
    <3>4. Counted'
      BY <1>1, <1>2, <3>1, <3>2, <3>3, Zenon DEF Counted
    <3>5. QED  BY <2>1, <3>4
  <2>5. CASE e.source = "none" /\ ~ExceptionFinished(e)
    <3>1. count' = count /\ external' = external
      BY <1>1, <2>5 DEF IInv, TypeInv
    <3>2. event' = event /\ nest' = nest /\ lastType' = lastType /\ Last' = Last
      BY <1>1, <1>6, <2>5 DEF Last
    <3>3. Counted'
      BY <1>1, <1>2, <2>2, <3>1, <3>2, Zenon DEF Counted
    <3>4. QED  BY <2>1, <3>3
  <2>6. QED  BY <1>4, <2>3, <2>4, <2>5
<1>11. Entered'
  <2>1. CASE e.source = "int"
    <3>1. event'.vec = e.int /\ full'.vec = e.int /\ event'.src = "soft"
      BY <1>5, <2>1
    <3>2. pushError' = FALSE /\ softInt' = TRUE
      BY <1>5, <2>1
    <3>3. QED  BY <3>1, <3>2 DEF Entered
  <2>2. CASE e.source = "none" /\ ExceptionFinished(e)
    BY <1>6, <2>2 DEF Entered, NoEvent
  <2>3. CASE e.source = "none" /\ ~ExceptionFinished(e)
    <3>1. /\ event' = event /\ full' = full /\ pushError' = pushError
          /\ softInt' = softInt /\ errExt' = errExt
      BY <1>6, <2>3
    <3>2. Running
      BY DEF Going
    <3>3. QED  BY <3>1, <3>2 DEF IInv, Entered
  <2>4. QED  BY <1>4, <2>1, <2>2, <2>3
<1>12. InOrder'
  BY Flushed, Ordered
<1>13. QED  BY <1>1, <1>8, <1>10, <1>11, <1>12 DEF IInv, Chain

----------------------------------------------------------------------------
(* The theorems.                                                           *)

LEMMA InitIInv == Init => IInv
<1> SUFFICES ASSUME Init
             PROVE  IInv
  OBVIOUS
<1> USE DEF Init
<1>1. Null \in Command
  BY AddressAssumption DEF Null, Command, Addresses
<1>2. 0 \in Addresses
  BY AddressAssumption DEF Addresses
<1>3. TypeInv
  <2>1. event.src = "none" /\ event.ext = FALSE /\ full.valid = FALSE /\ mc.cmd = "null"
    BY DEF NoEvent, Null
  <2>2. nest \in Seq(Types)
    OBVIOUS
  <2>3. lastType \in Types /\ count \in 0 .. 3
    BY DEF Types
  <2>4. QED  BY <1>1, <1>2, <2>1, <2>2, <2>3 DEF TypeInv
<1>4. ~Busy(rd) /\ ~Busy(exe) /\ ~Busy(wr) /\ ~Overlay
  BY DEF Busy, Null, Overlay
<1>5. Modes /\ Drained /\ Resume
  BY <1>4 DEF Modes, Drained, Resume
<1>6. event.src = "none" /\ Len(nest) = 0
  BY DEF NoEvent
<1>7. Counted /\ Signalled /\ Entered
  <2>1. external = (event.src \in {"irq", "exc"})
    <3>1. external = FALSE /\ (event.src \in {"irq", "exc"}) = FALSE
      BY <1>6
    <3>2. QED  BY <3>1, Zenon
  <2>2. QED  BY <1>6, <2>1 DEF Counted, Signalled, Entered
<1>8. Chain
  BY <1>4, <1>6 DEF Chain, InOrder
<1>9. QED  BY <1>3, <1>5, <1>7, <1>8 DEF IInv

LEMMA NextIInv == IInv /\ [Next]_vars => IInv'
<1> SUFFICES ASSUME IInv, [Next]_vars
             PROVE  IInv'
  OBVIOUS
<1>1. CASE Next
  <2>1. PICK e : Input(e) /\ Cycle(e)
    BY <1>1, Inputs
  <2>2. CASE full.valid
    BY <2>1, <2>2, FullMode
  <2>3. CASE dbg
    BY <2>1, <2>3, DbgMode
  <2>4. CASE possible
    BY <2>1, <2>4, PossibleMode
  <2>5. CASE done
    BY <2>1, <2>5, DoneMode
  <2>6. CASE shutdown
    BY <2>1, <2>6, StopMode
  <2>7. CASE Running
    <3>1. CASE load
      BY <2>1, <2>7, <3>1, LoadMode
    <3>2. CASE e.source \in {"wr", "exe", "rd", "dec"}
      BY <2>1, <2>7, <3>2, FaultMode
    <3>3. CASE Prepare(e) \/ DebugPrepare(e)
      BY <2>1, <2>7, <3>3, ArriveMode
    <3>4. CASE Going(e)
      BY <2>1, <3>4, GoingMode
    <3>5. e.source \in {"int", "wr", "exe", "rd", "dec", "none"}
      BY <2>1, <2>7, Taken
    <3>6. QED  BY <2>7, <3>1, <3>2, <3>3, <3>4, <3>5 DEF Going
  <2>8. QED  BY <2>2, <2>3, <2>4, <2>5, <2>6, <2>7 DEF Running, ExcInit
<1>2. CASE UNCHANGED vars
  <2>1. /\ eip' = eip /\ decFault' = decFault /\ mc' = mc /\ rd' = rd /\ exe' = exe /\ wr' = wr
        /\ wrMutex' = wrMutex /\ wrString' = wrString /\ possible' = possible /\ done' = done
        /\ dbg' = dbg /\ load' = load /\ intString' = intString /\ full' = full
        /\ excEip' = excEip /\ pushError' = pushError /\ softInt' = softInt /\ errExt' = errExt
        /\ external' = external /\ count' = count /\ lastType' = lastType
        /\ shutdown' = shutdown /\ pc' = pc /\ event' = event /\ nest' = nest
    BY <1>2 DEF vars, stages, arrival, unit, history
  <2>2. TypeInv' /\ Modes' /\ Drained' /\ Resume'
    BY <2>1 DEF IInv, TypeInv, Modes, Drained, Resume, Empty
  <2>3. Counted' /\ Entered'
    BY <2>1 DEF IInv, Counted, Entered, Last, Running, ExcInit
  <2>4. /\ ShutdownStart' <=> ShutdownStart
        /\ Convert' <=> Convert
        /\ ExceptionStart' <=> ExceptionStart
        /\ Last' = Last
    BY <2>1 DEF ShutdownStart, Convert, ExceptionStart, Vector, Last
  <2>5. Signalled'
    BY <2>1, <2>4 DEF IInv, Signalled
  <2>6. Chain'
    BY <2>1 DEF IInv, Chain, Running, ExcInit, InOrder, First, AfterWr, AfterExe, BehindWr, Behind,
                Decoded, Overlay
  <2>7. QED  BY <2>2, <2>3, <2>5, <2>6 DEF IInv
<1>3. QED  BY <1>1, <1>2

\* The inductive invariant of exception.v and the stages, in every reachable state.
THEOREM Invariant == Spec => []IInv
BY InitIInv, NextIInv, PTL DEF Spec

LEMMA FrontLemma == IInv => FrontIsNext
<1> SUFFICES ASSUME IInv
             PROVE  FrontIsNext
  OBVIOUS
<1>1. ~ExcInit /\ ~load /\ ~shutdown => InOrder
  BY DEF IInv, Chain, Running
<1>2. load \/ shutdown => ~Busy(rd) /\ ~Busy(exe) /\ ~Busy(wr)
  BY DEF IInv, Drained, Empty
<1>3. ~ExcInit => wrMutex = Busy(wr)
  BY DEF IInv, Drained, TypeInv, Busy, ExcInit
<1>4. load => Overlay
  BY DEF IInv, Drained, Overlay, Busy, Null
<1>5. Busy(wr) /\ wr.cmd \notin {"jump", "fin"} => Origin(wr) = pc
  <2>1. CASE ExcInit
    BY <2>1 DEF IInv, Drained, Resume, ExcInit
  <2>2. CASE ~ExcInit
    BY <1>1, <1>2, <2>2 DEF InOrder, First
  <2>3. QED  BY <2>1, <2>2
<1>6. ExeFront /\ ~ExcInit => Origin(exe) = pc
  BY <1>1, <1>2, <1>3 DEF ExeFront, InOrder, AfterWr
<1>7. RdFront /\ ~ExcInit => Origin(rd) = pc
  BY <1>1, <1>2, <1>3 DEF RdFront, InOrder, AfterExe, AfterWr
<1>8. DecFront /\ ~Overlay /\ ~ExcInit /\ ~shutdown => eip = pc
  BY <1>1, <1>3, <1>4 DEF DecFront, InOrder
<1>9. QED  BY <1>5, <1>6, <1>7, <1>8 DEF FrontIsNext, WrFront

\* An exception, an interrupt and a return address are always those of the instruction
\* that completes next: exc_eip is taken from the stage at the front (exception.v).
THEOREM FrontTrue == Spec => []FrontIsNext
BY Invariant, FrontLemma, PTL

LEMMA EntryLemma == IInv => PreciseEntry
<1> SUFFICES ASSUME IInv
             PROVE  PreciseEntry
  OBVIOUS
<1>1. load => excEip = pc /\ ~Busy(rd) /\ ~Busy(exe) /\ ~Busy(wr) /\ ~wrMutex
  BY DEF IInv, Modes, Drained, Resume, Empty
<1>2. ASSUME NEW s \in {exe, wr}, ~ExcInit, s.cmd \in {"step", "fin"}
      PROVE  /\ full.vec = event.vec
             /\ pushError = (event.src = "exc" /\ ~RealMode /\ event.vec \in WithErrorCode)
             /\ softInt = (event.src = "soft")
             /\ pushError /\ event.vec # "PF" => errExt = event.ext
  <2>1. Busy(s)
    BY <1>2 DEF Busy
  <2>2. ~load /\ ~shutdown
    BY <1>2, <2>1 DEF IInv, Drained, Empty
  <2>3. Running /\ InOrder
    BY <1>2, <2>2 DEF IInv, Chain, Running
  <2>4. event.src # "none"
    <3>1. CASE Busy(wr) /\ wr.cmd \in Delivery
      BY <2>3, <3>1 DEF InOrder, First
    <3>2. CASE s = wr
      BY <1>2, <2>1, <3>1, <3>2 DEF Delivery
    <3>3. CASE s = exe /\ ~Busy(wr)
      BY <1>2, <2>1, <2>3, <3>3 DEF InOrder, AfterWr, First, Delivery
    <3>4. CASE s = exe /\ Busy(wr) /\ wr.cmd \notin Delivery
      <4>1. BehindWr(exe) /\ exe.cmd \in {"step", "fin"}
        BY <1>2, <2>1, <2>3, <3>4 DEF InOrder, AfterWr
      <4>2. wr.cmd \in {"plain", "jump", "str", "soft"}
        BY <3>4 DEF IInv, TypeInv, Command, Commands, Delivery, Busy
      <4>3. CASE wr.cmd \in {"plain", "jump"}
        BY <4>1, <4>3 DEF BehindWr, Behind, Commands
      <4>4. CASE wr.cmd \in {"str", "soft"}
        <5>1. exe = Step(wr)
          BY <4>1, <4>4 DEF BehindWr, Behind
        <5>2. exe.cmd = NextStep(wr.cmd)
          BY <5>1 DEF Step, IInv, TypeInv, Command
        <5>3. QED  BY <4>1, <4>4, <5>2 DEF NextStep
      <4>5. QED  BY <4>2, <4>3, <4>4
    <3>5. QED  BY <3>1, <3>2, <3>3, <3>4
  <2>5. QED  BY <2>3, <2>4 DEF IInv, Entered
<1>3. QED  BY <1>1, <1>2 DEF PreciseEntry

\* A handler is entered with an empty pipeline, the address of the next instruction, the
\* vector of the event and a frame of its shape (exception.v and the microcode).
THEOREM EntryPrecise == Spec => []PreciseEntry
BY Invariant, EntryLemma, PTL

LEMMA ShutdownLemma == IInv => ShutdownRule
<1> SUFFICES ASSUME IInv
             PROVE  ShutdownRule
  OBVIOUS
<1>1. shutdown => event.src = "halt"
  BY DEF IInv, Counted
<1>2. event.src = "halt" => full.valid \/ shutdown
  BY DEF IInv, Counted
<1>3. QED  BY <1>1, <1>2 DEF ShutdownRule

\* The count and the class of the last exception, all that shutdown_start knows
\* (exception.v), stop the processor exactly where the rules of the architecture do.
THEOREM ShutdownRight == Spec => []ShutdownRule
BY Invariant, ShutdownLemma, PTL

=============================================================================
