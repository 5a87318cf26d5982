----------------------------- MODULE BiosFloppy -----------------------------
(***************************************************************************)
(* The diskette services of the system BIOS (INT 13h for drives 0 and 1)   *)
(* with the two interrupt handlers they share the BIOS data area with: INT *)
(* 0Eh, which reports that the controller is done, and INT 08h, which      *)
(* counts the motor's timeout.  Below them are the controller of floppy.v, *)
(* channel 2 of the DMA controller and the host that holds the disk images.*)
(***************************************************************************)
EXTENDS Integers, Sequences, FiniteSets

CONSTANTS Calls,       \* the calls a program makes, with their arguments
          DriveTypes,  \* the pairs of types the CMOS may name
          Disks,       \* what may be in a drive
          MotorTicks,  \* BX_FLOPPY_ON_CNT
          AnswerTicks, \* the ticks a command may take
          HostStalls,  \* whether the host may take longer than that
          MaxCalls     \* bound: calls made

\* A command's ticks and the two the count starts late by are fewer than the
\* motor's, as in the BIOS (37 of them).

VARIABLES fdc,    \* the controller
          irr,    \* IRQ 6, as the PIC latched it
          dma,    \* channel 2
          disk,   \* the disk in each drive
          types,  \* CMOS byte 10h
          bda,    \* the diskette part of the BIOS data area
          cpu,    \* where the program and INT 0Eh are
          call, ret,   \* the call under way and what the last one returned
          hist    \* history: what moved, what happened to the call
vars == <<fdc, irr, dma, disk, types, bda, cpu, call, ret, hist>>

Drives == {0, 1}
Sector == 512
Page   == 65536
Heads  == 2
Bit(b, i) == (b \div 2^i) % 2 = 1

----------------------------------------------------------------------------
(* The controller: `state` is its state machine, which a reset leaves      *)
(* alone; `cmd` the command under way, which a reset forgets.              *)

Result(f, st) == [f EXCEPT !.state = "idle", !.cmd = 0, !.busy = TRUE,
                           !.reply = 7, !.st = st, !.irq = TRUE]
\* Main status register, bits 7 and 6: bytes can be written, can be read.
CanWrite(f) == f.cmd = 0 /\ f.reply = 0
CanRead(f)  == f.reply > 0
Listens(f)  == f.state = "idle" /\ ~f.busy

\* The digital output register: drive, motors, and the enable whose rise
\* raises the interrupt.
WriteDor(f, sel, motors) ==
  [f EXCEPT !.sel = sel, !.motor = motors, !.enable = TRUE, !.irq = @ \/ ~f.enable]
Reset(f) == [f EXCEPT !.busy = FALSE, !.cmd = 0, !.reply = 0, !.enable = TRUE, !.irq = TRUE]
ReadAll(f) == [f EXCEPT !.reply = 0, !.busy = FALSE, !.irq = FALSE]
Recalibrate(f, d) == IF Listens(f) THEN [f EXCEPT !.seek = TRUE, !.sel = d] ELSE f

Lba(d, t, h, s) == (t * Heads + h) * disk[d].spt + s - 1
Total(d) == disk[d].cyls * Heads * disk[d].spt
\* A command the drive cannot begin is never answered; one for a sector that
\* is not there, or that would write a protected disk, fails at once.
Access(f, c, d) ==
  LET hangs == d \notin f.motor \/ ~disk[d].in
               \/ (c.fn = 5 /\ c.num # disk[d].spt)
               \/ (c.fn # 5 /\ c.track >= disk[d].cyls)
  IN  IF ~Listens(f) THEN f
      ELSE IF hangs THEN [f EXCEPT !.sel = d, !.busy = TRUE]
      ELSE IF c.fn # 5 /\ c.sector > disk[d].spt THEN Result([f EXCEPT !.sel = d], "bad")
      ELSE IF c.fn # 2 /\ disk[d].wp THEN Result([f EXCEPT !.sel = d], "wp")
      ELSE [f EXCEPT !.sel = d, !.busy = TRUE, !.cmd = c.fn, !.state = "host", !.age = 0,
                     !.at = IF c.fn = 5 THEN Lba(d, c.track, c.head, 1)
                            ELSE Lba(d, c.track, c.head, c.sector)]
Unit(fn) == IF fn = 5 THEN 4 ELSE Sector

\* One sector is moved: to or from the host, and over channel 2.  The
\* terminal count ends the command.  A sector past the end of the disk is
\* its last.
MoveSector ==
  /\ fdc.state = "host" /\ fdc.cmd # 0
  /\ LET at == IF fdc.at >= Total(fdc.sel) THEN Total(fdc.sel) - 1 ELSE fdc.at
         left == dma.count - Unit(fdc.cmd)
     IN  /\ hist' = [hist EXCEPT !.moved = Append(@, <<at, dma.page * Page + dma.addr>>)]
         /\ dma' = [dma EXCEPT !.addr = (@ + Unit(fdc.cmd)) % Page, !.count = left]
         /\ fdc' = IF left <= 0 THEN Result(fdc, "ok") ELSE [fdc EXCEPT !.at = @ + 1]
         /\ irr' = (irr \/ (left <= 0 /\ ~fdc.irq))
  /\ UNCHANGED <<disk, types, bda, cpu, call, ret>>
SeekDone ==
  /\ fdc.seek
  /\ fdc' = [fdc EXCEPT !.seek = FALSE, !.irq = TRUE]
  /\ irr' = (irr \/ ~fdc.irq)
  /\ UNCHANGED <<dma, disk, types, bda, cpu, call, ret, hist>>

----------------------------------------------------------------------------
(* The interrupt handlers.  INT 0Eh runs with interrupts off; INT 08h does *)
(* not, but IRQ 6 waits for its end.                                       *)

Open == cpu.if /\ cpu.h = "none"
\* Either the result bytes are there and INT 13h will read them, or the
\* handler has the controller say why it interrupted.
\* Variant: the handler leaves the controller its reason.
SaidNothing == fdc
SaidWhy == IF CanRead(fdc) THEN fdc ELSE ReadAll(fdc)
Int0e ==
  /\ \/ /\ Open /\ irr
        /\ irr' = FALSE
        /\ \/ /\ CanRead(fdc) \/ Listens(fdc)
              /\ fdc' = SaidWhy
              /\ bda' = [bda EXCEPT !.done = TRUE] /\ UNCHANGED cpu
           \/ /\ ~CanRead(fdc) /\ ~Listens(fdc)
              /\ cpu' = [cpu EXCEPT !.h = "sense"] /\ UNCHANGED <<fdc, bda>>
     \/ /\ cpu.h = "sense" /\ CanRead(fdc)
        /\ fdc' = ReadAll(fdc) /\ irr' = irr
        /\ bda' = [bda EXCEPT !.done = TRUE]
        /\ cpu' = [cpu EXCEPT !.h = "none"]
  /\ UNCHANGED <<dma, disk, types, call, ret, hist>>

\* The program is between calls, or waits for an interrupt or the count.
Waiting == \/ cpu.pc = "released" /\ ~bda.done
           \/ cpu.pc = "sought" /\ ~bda.done
           \/ cpu.pc = "ready"
           \/ cpu.pc = "wait" /\ ~bda.done /\ bda.count > 0

\* One tick.  A command takes at most AnswerTicks of them, unless the host
\* stalls; and at most one falls on the program between two waits.
Int08 ==
  /\ Open /\ ~irr
  /\ Waiting \/ ~cpu.ticked
  /\ fdc.seek => fdc.age < AnswerTicks
  /\ fdc.state = "host" /\ fdc.cmd # 0 => fdc.age < AnswerTicks \/ HostStalls
  /\ bda' = [bda EXCEPT !.count = IF @ = 0 THEN 0 ELSE @ - 1]
  /\ LET off == bda.count = 1 IN
     /\ fdc' = [fdc EXCEPT !.motor = IF off THEN {} ELSE @,
                           !.age = IF @ < AnswerTicks THEN @ + 1 ELSE @]
     /\ hist' = [hist EXCEPT !.cut = @ \/ (off /\ cpu.pc = "count"),
                             !.late = @ \/ (fdc.state = "host" /\ fdc.cmd # 0 /\ fdc.age = AnswerTicks)]
  /\ cpu' = [cpu EXCEPT !.ticked = ~Waiting]
  /\ UNCHANGED <<irr, dma, disk, types, call, ret>>

----------------------------------------------------------------------------
(* What the media services work out.                                       *)

Type(d) == IF d = 0 THEN types[1] ELSE types[2]
Exists(d) == Type(d) # 0
Slot(d) == IF d = 0 THEN 0 ELSE 1
Known(d) == Slot(d) \in bda.cal /\ Bit(bda.media[Slot(d)], 4)
\* floppy_media_sense takes the medium for the one the drive is made for.
Sensed(t) == CASE t \in {1, 2} -> 37 [] t \in {3, 4} -> 23 [] t = 5 -> 215
               [] t \in 6..8 -> 39 [] OTHER -> 0

\* Function 08h: cylinders, sectors and heads less one, by type.
Geometry == <<<<40, 9, 1>>, <<80, 15, 1>>, <<80, 9, 1>>, <<80, 18, 1>>, <<80, 36, 1>>,
              <<40, 8, 0>>, <<40, 9, 0>>, <<40, 8, 1>>>>
\* Function 18h: the bits that say a medium is established, 0 when the drive
\* does not take it.
Established(t, last, spt) ==
  CASE t \in {1, 6, 7, 8} /\ last = 39 /\ spt \in {8, 9} -> 144
    [] t = 2 /\ last = 39 /\ spt \in {8, 9} -> 112
    [] t = 2 /\ last = 79 /\ spt = 15 -> 16
    [] t \in {3, 4, 5} /\ last = 79 /\ spt = 9 -> 144
    [] t \in {4, 5} /\ last = 79 /\ spt = 18 -> 16
    [] t = 5 /\ last = 79 /\ spt = 36 -> 208
    [] OTHER -> 0
\* Function 17h.
Established17(al, state) ==
  CASE al = 1 -> 144 [] al = 2 -> 112 [] al = 3 -> 16
    [] al = 4 -> IF Bit(state, 4) /\ Bit(state, 1) THEN 80 ELSE 144
    [] OTHER -> 0

----------------------------------------------------------------------------
(* INT 13h.  A step's outcome: where the program goes on, the data area,   *)
(* channel 2, and the answer.                                              *)

Goto(pc, then, b, m) == [pc |-> pc, then |-> then, bda |-> b, dma |-> m, ret |-> ret]
Answer(b, ah, cf, dl) == [pc |-> "ready", then |-> "none", bda |-> b, dma |-> dma,
                          ret |-> [ah |-> ah, cf |-> cf, dl |-> dl]]
Succeed(b) == Answer(b, 0, FALSE, 0)
Fail(b, code) == Answer([b EXCEPT !.status = code], code, TRUE, 0)
Follow(o) == /\ cpu' = [cpu EXCEPT !.pc = o.pc, !.then = o.then, !.if = o.pc = "ready" \/ (o.pc # "halt" /\ @)]
             /\ bda' = o.bda /\ dma' = o.dma /\ ret' = o.ret

BaseEs(c) == (c.es * 16) % Page
\* Variant: the page without the carry.
ChannelNoCarry(c) == [page |-> c.es \div 4096, addr |-> (BaseEs(c) + c.bx) % Page,
                      count |-> c.num * Unit(c.fn)]

\* The transfer in the form channel 2 wants it; the page takes the carry.
Channel(c) ==
  LET addr == (BaseEs(c) + c.bx) % Page
  IN  [page |-> c.es \div 4096 + (IF addr < BaseEs(c) THEN 1 ELSE 0), addr |-> addr,
       count |-> c.num * Unit(c.fn)]
Overruns(c) == Channel(c).addr + Channel(c).count - 1 >= Page

\* What follows once the medium is known.
SetMedia(c, b) ==
  LET bits == Established(Type(c.drive), c.track, c.sector)
      slot == Slot(c.drive)
  IN  IF bits = 0 THEN Fail(b, 12)
      ELSE Succeed([b EXCEPT !.status = 0, !.media[slot] = (@ % 16) + bits])
Transfer(c, b) ==
  IF Overruns(c) THEN Fail(b, 9) ELSE Goto("motor", "command", b, Channel(c))
OnceKnown(c, b) ==
  CASE c.fn = 4 -> Succeed([b EXCEPT !.cyl[c.drive] = c.track])
    [] c.fn = 24 -> SetMedia(c, b)
    [] OTHER -> Transfer(c, b)

OutOfRange(c) == c.drive > 1 \/ c.head > 1 \/ c.sector = 0 \/ c.num = 0 \/ c.num > 72
FormatOutOfRange(c) == c.drive > 1 \/ c.head > 1 \/ c.track > 79 \/ c.num = 0 \/ c.num > 18
Media(c, b) == IF Known(c.drive) THEN OnceKnown(c, b) ELSE Goto("motor", "recal", b, dma)

\* The functions that only look at and set the data area.
ResetDisk(c) ==
  IF c.drive > 1 THEN Fail(bda, 1)
  ELSE IF ~Exists(c.drive) THEN Fail(bda, 128)
  ELSE Succeed([bda EXCEPT !.status = 0, !.cyl[c.drive] = 0])
ReadStatus == Answer(bda, bda.status, bda.status # 0, 0)
Parameters(c) ==
  IF c.drive > 1 THEN Answer(bda, 0, TRUE, 0)
  ELSE Answer(bda, 0, FALSE, Cardinality({d \in Drives : Exists(d)}))
DriveKind(c) == IF c.drive > 1 THEN Answer(bda, 0, TRUE, 0)
                ELSE Answer(bda, IF Exists(c.drive) THEN 1 ELSE 0, FALSE, 0)
ChangeLine(c) == Fail(bda, IF c.drive > 1 THEN 1 ELSE 6)
SetType(c) ==
  LET state == bda.media[Slot(c.drive)]
      bits == Established17(c.num, state)
  IN  IF c.drive > 1 THEN Fail(bda, 1)
      ELSE IF ~Exists(c.drive) THEN Fail(bda, 128)
      ELSE IF bits = 0 THEN Fail(bda, 1)
      ELSE Succeed([bda EXCEPT !.status = 0, !.media[Slot(c.drive)] = (state % 16) + bits])

\* The functions that reach the drive.  A format out of range is reported,
\* and goes on.
Accessing(c) ==
  IF OutOfRange(c) THEN Fail(bda, 1)
  ELSE IF ~Exists(c.drive) THEN Fail(bda, 128) ELSE Media(c, bda)
Formatting(c) ==
  LET b == IF FormatOutOfRange(c) THEN [bda EXCEPT !.status = 1] ELSE bda
  IN  IF ~Exists(c.drive) THEN Fail(b, 128) ELSE Media(c, b)
SettingMedia(c) ==
  IF c.drive > 1 THEN Fail(bda, 1)
  ELSE IF ~Exists(c.drive) THEN Fail(bda, 128) ELSE Media(c, bda)

Function(c) ==
  CASE c.fn = 0 -> ResetDisk(c) [] c.fn = 1 -> ReadStatus
    [] c.fn \in {2, 3, 4} -> Accessing(c) [] c.fn = 5 -> Formatting(c)
    [] c.fn = 8 -> Parameters(c) [] c.fn = 21 -> DriveKind(c)
    [] c.fn = 22 -> ChangeLine(c) [] c.fn = 23 -> SetType(c)
    [] c.fn = 24 -> SettingMedia(c) [] OTHER -> Fail(bda, 1)

Ready == cpu.h = "none" /\ ~(cpu.if /\ irr)
At(pc) == Ready /\ cpu.pc = pc
int13_diskette_function ==
  /\ At("ready") /\ hist.calls < MaxCalls
  /\ \E c \in Calls : call' = c /\ Follow(Function(c))
  /\ hist' = [calls |-> hist.calls + 1, moved |-> <<>>, cut |-> FALSE, late |-> hist.late]
  /\ UNCHANGED <<fdc, irr, disk, types>>

\* floppy_prepare_controller: forget an old completion, start the motor,
\* then its count; a controller just out of reset interrupts first.
Select(d) == fdc' = WriteDor(fdc, d % 2, {Slot(d)})
\* Variant: an old completion is kept.
StartMotorKeeps ==
  /\ At("motor")
  /\ Select(call.drive)
  /\ irr' = (irr \/ ~fdc.enable)
  /\ cpu' = [cpu EXCEPT !.pc = "count", !.prev = fdc.enable]
  /\ UNCHANGED <<dma, disk, types, bda, call, ret, hist>>

StartMotor ==
  /\ At("motor")
  /\ bda' = [bda EXCEPT !.done = FALSE]
  /\ Select(call.drive)
  /\ irr' = (irr \/ ~fdc.enable)
  /\ cpu' = [cpu EXCEPT !.pc = "count", !.prev = fdc.enable]
  /\ UNCHANGED <<dma, disk, types, call, ret, hist>>
Prepared(p) == IF p.prev THEN [p EXCEPT !.pc = p.then] ELSE [p EXCEPT !.pc = "released", !.if = TRUE]
\* Variant: the count runs on from the last command.
ReloadIfOff(b) == [b EXCEPT !.count = IF @ = 0 THEN MotorTicks ELSE @]
Reload(b) == [b EXCEPT !.count = MotorTicks]
StartCount ==
  /\ At("count") /\ CanWrite(fdc)
  /\ bda' = Reload(bda)
  /\ cpu' = Prepared(cpu)
  /\ UNCHANGED <<fdc, irr, dma, disk, types, call, ret, hist>>
Released ==
  /\ At("released") /\ bda.done
  /\ bda' = [bda EXCEPT !.done = FALSE]
  /\ cpu' = [cpu EXCEPT !.pc = cpu.then, !.if = FALSE, !.ticked = FALSE]
  /\ UNCHANGED <<fdc, irr, dma, disk, types, call, ret, hist>>

\* floppy_drive_recal, whose wait has no end of its own, and
\* floppy_media_sense.
SendRecal ==
  /\ At("recal")
  /\ fdc' = [Recalibrate(fdc, call.drive % 2) EXCEPT !.age = 0]
  /\ cpu' = [cpu EXCEPT !.pc = "sought", !.if = TRUE]
  /\ UNCHANGED <<irr, dma, disk, types, bda, call, ret, hist>>
RecalDone ==
  /\ At("sought") /\ bda.done
  /\ LET d == Slot(call.drive)
         media == Sensed(Type(call.drive))
         b == [bda EXCEPT !.done = FALSE, !.cal = @ \cup {d}, !.cyl[d] = 0, !.media[d] = media]
         o == IF media = 0 THEN Fail(b, 12) ELSE OnceKnown(call, b)
     IN  /\ bda' = o.bda /\ dma' = o.dma /\ ret' = o.ret
         /\ cpu' = [cpu EXCEPT !.pc = o.pc, !.then = o.then, !.if = (o.pc = "ready"),
                               !.ticked = FALSE]
  /\ UNCHANGED <<fdc, irr, disk, types, call, hist>>

SendCommand ==
  /\ At("command")
  /\ fdc' = Access(fdc, call, call.drive % 2)
  /\ irr' = (irr \/ (fdc'.irq /\ ~fdc.irq))
  /\ cpu' = [cpu EXCEPT !.pc = "wait", !.if = TRUE]
  /\ UNCHANGED <<dma, disk, types, bda, call, ret, hist>>

\* Variant: the controller is left as it is.
ResetFdcKeeps(f) == f
\* The motor's count ran out first: floppy_reset_controller.
ResetFdc(f) == Reset(f)
TimeOut ==
  /\ At("wait") /\ bda.count = 0
  /\ fdc' = ResetFdc(fdc) /\ irr' = (irr \/ fdc'.irq)
  /\ cpu' = [cpu EXCEPT !.pc = "reset"]
  /\ UNCHANGED <<dma, disk, types, bda, call, ret, hist>>
TimedOut ==
  /\ At("reset") /\ CanWrite(fdc)
  /\ Follow(Fail(bda, 128))
  /\ UNCHANGED <<fdc, irr, disk, types, call, hist>>

\* The result bytes.  A write that fails for anything but the protection is
\* fatal, and so are results that are not there.
Finished(c, b) ==
  CASE fdc.st = "ok" /\ c.fn = 5 -> IF c.drive > 1 THEN Goto("halt", "none", b, dma)
                                    ELSE Succeed([b EXCEPT !.status = 0, !.cyl[c.drive] = 0])
    [] fdc.st = "ok" /\ c.fn # 5 -> Succeed([b EXCEPT !.cyl[c.drive] = c.track])
    [] fdc.st # "ok" /\ c.fn = 2 -> Fail(b, 32)
    [] fdc.st = "wp" /\ c.fn # 2 -> Answer(b, 3, TRUE, 0)
    [] OTHER -> Goto("halt", "none", b, dma)
GetResults ==
  /\ At("wait") /\ bda.done
  /\ Follow(IF CanRead(fdc) THEN Finished(call, [bda EXCEPT !.done = FALSE])
            ELSE Goto("halt", "early", [bda EXCEPT !.done = FALSE], dma))
  /\ fdc' = ReadAll(fdc)
  /\ UNCHANGED <<irr, disk, types, call, hist>>

----------------------------------------------------------------------------
\* As floppy_drive_post leaves it, or after a program has left the
\* controller in reset.
NoCall == [fn |-> 1, drive |-> 0, track |-> 0, head |-> 0, sector |-> 1, num |-> 1,
           es |-> 0, bx |-> 0]
Init ==
  /\ types \in DriveTypes /\ disk \in [Drives -> Disks]
  /\ \E on \in BOOLEAN : fdc = [enable |-> on, sel |-> 0, motor |-> {}, state |-> "idle",
       cmd |-> 0, busy |-> FALSE, seek |-> FALSE, reply |-> 0, st |-> "ok", irq |-> FALSE,
       at |-> 0, age |-> 0]
  /\ irr = FALSE
  /\ dma = [page |-> 0, addr |-> 0, count |-> 0]
  /\ bda = [done |-> FALSE, cal |-> {}, count |-> 0, status |-> 0,
            media |-> [d \in Drives |-> 0], cyl |-> [d \in Drives |-> 0]]
  /\ cpu = [pc |-> "ready", then |-> "none", if |-> TRUE, prev |-> TRUE,
            ticked |-> FALSE, h |-> "none"]
  /\ call = NoCall /\ ret = [ah |-> 0, cf |-> FALSE, dl |-> 0]
  /\ hist = [calls |-> 0, moved |-> <<>>, cut |-> FALSE, late |-> FALSE]

Controller == MoveSector \/ SeekDone
Program == int13_diskette_function \/ StartMotor \/ StartCount \/ Released \/ SendRecal
           \/ RecalDone \/ SendCommand \/ TimeOut \/ TimedOut \/ GetResults
Next == Controller \/ Int0e \/ Int08 \/ Program
Spec == Init /\ [][Next]_vars /\ WF_vars(Next)

----------------------------------------------------------------------------
(* What the services promise.                                              *)

\* A read or write that succeeds moved the sectors asked for, in their
\* order, to or from the very bytes of the caller's buffer; a format took its
\* fields from there (rombios.c:7276-7366, 7478-7522).
Within(c) == c.fn = 5 \/ Lba(c.drive, c.track, c.head, c.sector) + c.num <= Total(c.drive)
DataWhereAsked ==
  /\ cpu.pc = "ready" /\ hist.calls > 0 /\ ~ret.cf /\ call.fn \in {2, 3, 5}
  /\ call.drive \in Drives /\ Within(call)
  => hist.moved = [i \in 1..call.num |->
       <<Lba(call.drive, call.track, call.head, IF call.fn = 5 THEN 1 ELSE call.sector) + i - 1,
         call.es * 16 + call.bx + (i - 1) * Unit(call.fn)>>]

\* The driver never takes for its own the completion of an earlier command:
\* when it goes to read the results they are there (rombios.c:7398-7401).
ResultsAwaited == ~(cpu.pc = "halt" /\ cpu.then = "early")

\* Drive not ready is answered only for a command the drive cannot begin,
\* for a host too slow, or when the tick that stops the motor fell between
\* starting it and setting its count (rombios.c:6946-6949).
NeverBegins(c) ==
  \/ c.drive > 1 \/ ~disk[c.drive].in
  \/ c.fn = 5 /\ c.num # disk[c.drive].spt
  \/ c.fn # 5 /\ c.track >= disk[c.drive].cyls
TimeOutMeansNoAnswer ==
  cpu.pc = "ready" /\ ret.ah = 128 /\ call.fn \in {2, 3, 5} /\ Exists(call.drive)
  => NeverBegins(call) \/ hist.cut \/ hist.late

\* Between calls the controller is idle, with nothing left to read and its
\* line down, so that the next command is heard and its end interrupts.
Quiet ==
  Ready /\ cpu.pc = "ready" /\ ~hist.late => Listens(fdc) /\ fdc.reply = 0 /\ ~fdc.irq

\* Every call comes back, or ends in a message and a halt.
CallsEnd == cpu.pc # "ready" ~> cpu.pc \in {"ready", "halt"}

=============================================================================
