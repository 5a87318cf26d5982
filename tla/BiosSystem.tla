----------------------------- MODULE BiosSystem -----------------------------
(***************************************************************************)
(* The rest of the system BIOS around the clock: what a reset does (the    *)
(* shutdown code, POST, the expansion ROMs, the way back from protected    *)
(* mode), the memory services of INT 15h, and the serial and parallel ports *)
(* of INT 14h and INT 17h.  INT 15h and POST run with interrupts off.      *)
(***************************************************************************)
EXTENDS BiosClock, TLC

CONSTANTS VideoEnd,   \* the last slot the scan for the video ROM looks at
          OptionEnd,  \* the last slot of the scan for the others
          IplMax,     \* entries in the table of boot devices
          Timeout     \* what detect_serial and detect_parport store

VARIABLES sys,        \* A20, memory and its size, CMOS 0Fh, the ROMs, POST's progress
          port        \* the UART and the printer
systemVars == <<clockVars, sys, port>>

None == [len |-> 0, good |-> FALSE, kind |-> "none"]
Slots == 0..OptionEnd

----------------------------------------------------------------------------
(* Memory.                                                                 *)

\* With A20 held low an odd megabyte is the even one below it.
Reach(a20, a) == IF a20 THEN a ELSE a - (a % 2)
\* Variant: the setting returned is the new one.
set_enable_a20Late(m, val) == [m |-> [m EXCEPT !.a20 = val], prev |-> val]
set_enable_a20(m, val) == [m |-> [m EXCEPT !.a20 = val], prev |-> m.a20]
Copied(m, from, to) == [m EXCEPT !.mem[Reach(m.a20, to)] = m.mem[Reach(m.a20, from)]]

Quick(k, fns) == CanCall(k) /\ k.fn \in fns /\ UNCHANGED <<rtc, bda, cpu, port>>
Replies(k, r) == call' = k /\ ret' = r /\ hist' = [hist EXCEPT !.plan = Tail(@)]

\* INT 15h/24h; `wants` is what a program set.
A20Call(k) ==
  /\ Quick(k, {"24"})
  /\ sys' = [set_enable_a20(sys, k.n = 1).m EXCEPT !.wants = k.n = 1]
  /\ Replies(k, NoAnswer)
\* INT 15h/87h; `flat` is memory as a program that knows no A20 sees it.
BlockMove(k) ==
  /\ Quick(k, {"87"})
  /\ LET on   == set_enable_a20(sys, TRUE)
         done == Copied(on.m, k.time[1], k.time[2])
     IN  sys' = [set_enable_a20(done, on.prev).m EXCEPT !.flat[k.time[2]] = sys.flat[k.time[1]]]
  /\ Replies(k, NoAnswer)
\* What the CMOS says of a machine's memory: KB above 1M, and 64K blocks above 16M.
Least(a, b) == IF a < b THEN a ELSE b
Cmos30(kb) == Least(kb - 1024, 65535)
Cmos34(kb) == IF kb > 16384 THEN (kb - 16384) \div 64 ELSE 0
\* INT 15h/88h, and E801h with its two counts.
SizeCall(k) ==
  /\ Quick(k, {"88", "E801"})
  /\ Replies(k, Answer(FALSE, IF k.fn = "88" THEN <<Least(Cmos30(sys.kb), 65472)>>
                              ELSE <<Least(Cmos30(sys.kb), 15360), Cmos34(sys.kb)>>))
  /\ UNCHANGED sys

\* INT 15h/E820h: one range for each value of EBX, in KB, and the next value.
Top == LET high == Least(Cmos34(sys.kb) * 64, 3129344) + 16384
       IN  IF high <= 16384 THEN Cmos30(sys.kb) + 1024 ELSE high
Range820(start, end, type) == [start |-> start, size |-> end - start, type |-> type]
E820(ebx) ==
  CASE ebx = 0 -> [range |-> Range820(0, 636, "ram"), next |-> 1]
    [] ebx = 1 -> [range |-> Range820(636, 640, "reserved"), next |-> 2]
    [] ebx = 2 -> [range |-> Range820(824, 832, "reserved"), next |-> 3]
    [] ebx = 3 -> [range |-> Range820(960, 1024, "reserved"), next |-> IF Top <= 1024 THEN 0 ELSE 4]
    [] ebx = 4 -> [range |-> Range820(1024, Top, "ram"), next |-> 0]
MapCall(k) ==
  /\ CanCall(k) /\ k.fn = "E820"
  /\ Begin(k)
  /\ cpu' = [cpu EXCEPT !.pc = "map", !.prev = 0]
  /\ UNCHANGED <<rtc, bda, sys, port>>
\* The program calls again until EBX is zero.
MapNext ==
  /\ cpu.pc = "map"
  /\ LET e == E820(cpu.prev) IN
     IF e.next = 0 THEN Done(Answer(FALSE, Append(cpu.got, e.range)))
     ELSE cpu' = [cpu EXCEPT !.prev = e.next, !.got = Append(@, e.range)] /\ UNCHANGED ret
  /\ UNCHANGED <<rtc, bda, call, hist, sys, port>>

\* INT 15h/89h: all interrupts masked, and the program goes on in protected mode.
ProtectedMode(k) ==
  /\ CanCall(k) /\ k.fn = "89"
  /\ Replies(k, NoAnswer)
  /\ sys' = [set_enable_a20(sys, TRUE).m EXCEPT !.wants = TRUE]
  /\ rtc' = [rtc EXCEPT !.masks = {0, 8}, !.irr = FALSE]
  /\ cpu' = [cpu EXCEPT !.pc = "protected"]
  /\ UNCHANGED <<bda, port>>
MemoryService(k) == A20Call(k) \/ BlockMove(k) \/ SizeCall(k) \/ MapCall(k) \/ ProtectedMode(k)

----------------------------------------------------------------------------
(* The ports.                                                              *)

SerialFns == {"14/0", "14/1", "14/2", "14/3", "17/0", "17/1"}
\* A port POST did not find has no address, and the call fails.
PortCall(k) ==
  /\ CanCall(k) /\ k.fn \in SerialFns
  /\ Begin(k)
  /\ LET found == IF k.fn \in {"17/0", "17/1"} THEN port.lpt ELSE port.com IN
     /\ cpu' = [Entered(k, "busy", Timeout, bda.ticks) EXCEPT !.script = <<Op(IF found THEN k.fn ELSE "fail", "", 0)>>]
     /\ port' = IF found /\ k.fn = "17/0" THEN [port EXCEPT !.strobed = TRUE] ELSE port
  /\ UNCHANGED <<rtc, bda, sys>>
Divisor(n) == IF n = 0 THEN 1536 ELSE 1536 \div 2^n
PortSetUp ==
  /\ At("14/0") \/ At("14/3") \/ At("17/1")
  /\ port' = [port EXCEPT !.divisor = IF At("14/0") THEN Divisor(call.n) ELSE @,
                          !.strobed = IF At("17/1") THEN FALSE ELSE @]
  /\ Done(Answer(FALSE, <<"status">>))
  /\ UNCHANGED <<rtc, bda, call, hist, sys>>
Ready == CASE At("14/1") -> port.ready [] At("14/2") -> port.got # 0 [] At("17/0") -> ~port.strobed
\* A new tick takes one off the time-out.  Variant: it is noted and not counted.
CountedNot == [cpu EXCEPT !.prev = bda.ticks]
Counted == [cpu EXCEPT !.wait = @ - 1, !.prev = bda.ticks]
SerialWaits ==
  /\ At("14/1") \/ At("14/2")
  /\ ~Ready /\ cpu.wait > 0 /\ bda.ticks # cpu.prev
  /\ cpu' = Counted
  /\ UNCHANGED <<rtc, bda, call, ret, hist, sys, port>>
\* INT 17h counts its polls: 256 of them for each of the time-out, here one.
PrinterWaits ==
  /\ At("17/0") /\ ~Ready /\ cpu.wait > 0
  /\ cpu' = [cpu EXCEPT !.wait = @ - 1]
  /\ UNCHANGED <<rtc, bda, call, ret, hist, sys, port>>
PortDone ==
  /\ At("14/1") \/ At("14/2") \/ At("17/0")
  /\ Ready \/ cpu.wait = 0
  /\ IF cpu.wait = 0 THEN Done(Answer(FALSE, <<"timed out">>)) /\ UNCHANGED port
     ELSE /\ Done(Answer(FALSE, <<"status", port.got>>))
          /\ port' = CASE At("14/1") -> [port EXCEPT !.ready = FALSE]
                       [] At("14/2") -> [port EXCEPT !.got = 0]
                       [] OTHER -> port
  /\ UNCHANGED <<rtc, bda, call, hist, sys>>
PortService == PortSetUp \/ SerialWaits \/ PrinterWaits \/ PortDone
\* The far ends: the line takes the byte or sends one, the printer acknowledges.
FarEnd ==
  /\ cpu.pc = "busy" /\ call.fn \in SerialFns
  /\ \/ ~port.ready /\ port' = [port EXCEPT !.ready = TRUE]
     \/ port.got = 0 /\ port' = [port EXCEPT !.got = 1]
     \/ port.strobed /\ port' = [port EXCEPT !.strobed = FALSE]
  /\ UNCHANGED <<rtc, bda, cpu, call, ret, hist, sys>>

----------------------------------------------------------------------------
(* Reset and POST.                                                         *)

\* A program leaves a code in CMOS 0Fh, with an address at 40:67 (or for S3 at
\* 40:B2), or leaves nothing.
Reset(k) ==
  /\ k.fn = "reset" /\ cpu.pc \in {"idle", "protected"} /\ cpu.h = "none"
  /\ hist.plan # <<>> /\ k \in Head(hist.plan)
  /\ Begin(k)
  /\ cpu' = [Entered(k, "reset", 0, 0) EXCEPT !.got = <<>>]
  /\ sys' = IF k.n = 0 THEN sys ELSE [sys EXCEPT !.code = k.n, !.s3 = k.time[1]]
  /\ UNCHANGED <<rtc, bda, port>>
Posted == [rtc EXCEPT !.masks = {8}, !.irr = FALSE]
Resumes(how) == Done(Answer(FALSE, <<how>>))
\* The code is cleared before it is acted upon.
DispatchKept == sys' = [sys EXCEPT !.saved = sys.code]
Dispatch == sys' = [sys EXCEPT !.code = 0, !.saved = sys.code]
Normal(code) == code = 0 \/ code >= 13
ShutdownCode ==
  /\ cpu.pc = "reset"
  /\ Dispatch
  /\ CASE Normal(sys.code) -> cpu' = [cpu EXCEPT !.pc = "normal"] /\ UNCHANGED <<rtc, ret>>
       [] sys.code = 5 -> rtc' = Posted /\ Resumes("jmp")
       [] sys.code = 10 -> Resumes("jmp") /\ UNCHANGED rtc
       [] sys.code = 11 -> Resumes("iret") /\ UNCHANGED rtc
       [] sys.code = 12 -> Resumes("retf") /\ UNCHANGED rtc
       [] OTHER -> cpu' = [cpu EXCEPT !.pc = "halted"] /\ UNCHANGED <<rtc, ret>>
  /\ UNCHANGED <<bda, call, hist, port>>
\* s3_resume; without a vector the start goes on as a normal one.
S3Resume ==
  /\ cpu.pc = "normal" /\ sys.saved = 254 /\ sys.s3 # 0
  /\ Resumes("s3")
  /\ sys' = [sys EXCEPT !.saved = 0]
  /\ UNCHANGED <<rtc, bda, call, hist, port>>
\* The data area is cleared, the ports that answer get an address; then timer_tick_post.
Cleared == [bda EXCEPT !.ticks = 0, !.midnight = 0, !.active = FALSE, !.left = 0]
Detected == [port EXCEPT !.com = port.uart, !.lpt = port.printer]
NormalPost ==
  /\ cpu.pc = "normal" /\ ~(sys.saved = 254 /\ sys.s3 # 0)
  /\ bda' = Cleared /\ port' = Detected
  /\ cpu' = [cpu EXCEPT !.pc = "post", !.script = Script([call EXCEPT !.fn = "post"])]
  /\ sys' = [sys EXCEPT !.saved = 0, !.s3 = 0]
  /\ UNCHANGED <<rtc, call, ret, hist>>
TimerTickPost ==
  /\ cpu.pc = "post" /\ cpu.script = <<>>
  /\ LET n == TicksAt(<<cpu.got[3], cpu.got[2], cpu.got[1]>>) IN
     /\ bda' = [bda EXCEPT !.ticks = n, !.midnight = 0]
     /\ hist' = [hist EXCEPT !.total = n]
  /\ rtc' = Posted
  /\ cpu' = [cpu EXCEPT !.pc = "roms", !.got = <<>>]
  /\ sys' = [sys EXCEPT !.ran = <<>>, !.scan = 0, !.ipl = <<>>, !.pass = "video"]
  /\ UNCHANGED <<call, ret, port>>

\* A ROM's length, in blocks of 512 bytes, rounded up to whole slots in a byte: more
\* than 252 blocks come to none, and the scan runs the same ROM for ever.
\* Variant: one slot more, whatever is left over.
RoundedOver(len) == len \div 4 + 1
Rounded(len) == (((len + 3) \div 4) * 4 % 256) \div 4
\* The signature, and the sum of all bytes.
Valid(rom) == rom.len > 0 /\ rom.good
Last == IF sys.pass = "video" THEN VideoEnd ELSE OptionEnd
Scan ==
  /\ cpu.pc = "roms" /\ sys.scan <= Last
  /\ LET rom == sys.area[sys.scan] IN
     sys' = IF Valid(rom)
            THEN [sys EXCEPT !.scan = @ + Rounded(rom.len),
                    !.ran = @ \o <<<<sys.scan, "init">>>>
                              \o (IF rom.kind = "bcv" THEN <<<<sys.scan, "bcv">>>> ELSE <<>>),
                    !.ipl = IF rom.kind = "bev" /\ Len(@) < IplMax THEN Append(@, sys.scan) ELSE @]
            ELSE [sys EXCEPT !.scan = @ + 1]
  /\ UNCHANGED <<rtc, bda, cpu, call, ret, hist, port>>
\* init_boot_vectors lists the drives anew; then the other ROMs.
BootVectors ==
  /\ cpu.pc = "roms" /\ sys.pass = "video" /\ sys.scan > VideoEnd
  /\ sys' = [sys EXCEPT !.ipl = <<"floppy", "disk", "cd">>, !.scan = VideoEnd + 1, !.pass = "option"]
  /\ UNCHANGED <<rtc, bda, cpu, call, ret, hist, port>>
Boot ==
  /\ cpu.pc = "roms" /\ sys.pass = "option" /\ sys.scan > OptionEnd
  /\ Done(Answer(FALSE, <<"booted">>))
  /\ UNCHANGED <<rtc, bda, call, hist, sys, port>>
Post == ShutdownCode \/ S3Resume \/ NormalPost \/ TimerTickPost \/ Scan \/ BootVectors \/ Boot

----------------------------------------------------------------------------
Init ==
  \E m \in Machines :
    /\ ClockInit(m)
    /\ sys = [a20 |-> FALSE, wants |-> FALSE, mem |-> [a \in 0..3 |-> a], flat |-> [a \in 0..3 |-> a],
              kb |-> m.kb, code |-> 0, saved |-> 0, s3 |-> 0, area |-> m.area, scan |-> 0,
              ran |-> <<>>, ipl |-> <<>>, pass |-> "video"]
    /\ port = [com |-> m.uart, lpt |-> m.printer, uart |-> m.uart, printer |-> m.printer,
               ready |-> TRUE, got |-> 0, strobed |-> FALSE, divisor |-> 0]

Call(k) == \/ ClockCall(k) /\ UNCHANGED <<sys, port>>
           \/ MemoryService(k) \/ PortCall(k) \/ Reset(k)
AtClock == Service /\ UNCHANGED <<sys, port>>
Next ==
  \/ (Chip \/ Int08 \/ Handlers \/ RefreshToggles) /\ UNCHANGED <<sys, port>>
  \/ AtClock \/ MapNext \/ PortService \/ FarEnd \/ Post
  \/ hist.plan # <<>> /\ \E k \in Head(hist.plan) : Call(k)

\* The chip and the timer go on, and a handler or a service that can always go
\* on at some time does.  Nothing is asked of the far end of a port.
Fairness ==
  /\ WF_rtc(Periodic) /\ WF_rtc(RefreshToggles) /\ WF_bda(Int08)
  /\ SF_<<rtc, cpu>>(Handlers)
  /\ SF_<<cpu, sys>>(AtClock \/ MapNext \/ PortService \/ Post)
Spec == Init /\ [][Next]_systemVars /\ Fairness

----------------------------------------------------------------------------
(* Properties.                                                             *)

Free == cpu.pc = "idle"

\* What a program is told of the time was true at one instant of its call: the
\* time and date of INT 1Ah are never put together from two sides of an update,
\* a time it sets is set whole, and no tick is lost between a count read by
\* function 0, its midnight flag and the next count.  Left out (`torn`) are calls
\* in which IRQ 8 came between the two port accesses of a CMOS access, which moves
\* the index, and those in which a program's own handler ran after the look at the
\* update bit, which is good for 244 microseconds.
TimeTrue ==
  LET clean == Free /\ ~ret.cf /\ ~hist.torn
      got   == ret.v
  IN  /\ clean /\ call.fn = "02" /\ got # <<>> => \E r \in hist.seen : <<got[1], got[2], got[3]>> = Time(r)
      /\ clean /\ call.fn = "04" /\ got # <<>> => \E r \in hist.seen : got = Date(r)
      /\ (cpu.pc = "busy" /\ call.fn = "03" /\ cpu.script = <<>> /\ cpu.window /\ ~hist.torn /\ ~hist.reset)
            => Time(rtc.reg) = call.time
      /\ (Free /\ call.fn = "00" /\ got # <<>>) => Cycle(got[1] * Day + got[2]) \in hist.totals

\* No wait is given up early: delay_ticks and a serial time-out end after that many
\* ticks, INT 15h/86h after that many toggles.  The flag byte of INT 15h/83h is set
\* only when, of the whole periods in the time asked for, all but one have passed: a
\* flag left from before counts for one, and the end of the period under way for
\* another, and the handler takes one interrupt more than there are periods.
Atleast(n, asked) == n >= Least(asked, 3)
WaitsKept ==
  [][/\ (~bda.flag /\ bda'.flag) => hist.passed > (hist.asked \div Period - 1) * Period
     /\ (cpu.pc = "hlt" /\ cpu'.pc = "idle") => Atleast(hist.ticks, call.n)
     /\ (cpu.pc = "busy" /\ cpu'.pc = "idle" /\ call.fn = "86") => Atleast(hist.toggles, call.n \div Toggle)
     /\ (cpu.pc = "busy" /\ cpu'.pc = "idle" /\ call.fn \in {"14/1", "14/2"} /\ ret'.v = <<"timed out">>)
           => Atleast(hist.ticks, Timeout)]_<<bda, cpu, call, ret, hist>>

\* The three memory services tell of the same memory, the map's ranges are apart,
\* and a block move goes where it was asked whatever A20 was, and leaves A20 as the
\* program set it.
MemoryTrue ==
  LET map == ret.v
      Ram == {i \in DOMAIN map : map[i].type = "ram"}
      End(r) == r.start + r.size
  IN  /\ sys.mem = sys.flat /\ sys.a20 = sys.wants
      /\ (Free /\ call.fn = "E820" /\ map # <<>>) =>
           /\ \A i \in DOMAIN map : map[i].size > 0 /\ (i > 1 => End(map[i - 1]) <= map[i].start)
           /\ map[1].start = 0 /\ \A i \in Ram \ {1} : map[i].start = 1024 /\ End(map[i]) = sys.kb
           /\ sys.kb > 1024 => Len(map) \in Ram
      /\ (Free /\ call.fn = "88" /\ map # <<>>) => map[1] = Least(sys.kb - 1024, 65472)
      /\ (Free /\ call.fn = "E801" /\ map # <<>>) => map[1] + 64 * map[2] = sys.kb - 1024

\* A reset goes on where the program's shutdown code says, once: without a new code
\* the next one starts the system, with every expansion ROM run once, in order, and
\* nothing run that lies inside another ROM (of the lengths that fit, up to 252
\* blocks: see Rounded).
Taken[p \in Slots] == /\ Valid(sys.area[p])
                      /\ \A q \in 0..(p - 1) : Taken[q] => sys.area[q].len * 512 <= (p - q) * 2048
Resume == (5 :> "jmp") @@ (10 :> "jmp") @@ (11 :> "iret") @@ (12 :> "retf")
HowItStarts(k) == IF k.n \in DOMAIN Resume THEN Resume[k.n]
                  ELSE IF k.n = 254 /\ k.time[1] # 0 THEN "s3" ELSE "booted"
StartsRight ==
  /\ (Free /\ call.fn = "reset") => ret.v = <<HowItStarts(call)>>
  /\ cpu.pc = "halted" => call.n \in 1..12 \ DOMAIN Resume
  /\ (Free /\ call.fn = "reset" /\ ret.v = <<"booted">>) =>
       /\ \A i, j \in DOMAIN sys.ran : i < j => sys.ran[i] # sys.ran[j] /\ sys.ran[i][1] <= sys.ran[j][1]
       /\ {sys.ran[i][1] : i \in DOMAIN sys.ran} = {p \in Slots : Taken[p]}

\* Every call ends, whatever the far end of a port does, and so does a wait begun
\* with INT 15h/83h unless a torn access, init_rtc or a reset stopped its interrupt.
Stopped == hist.stopped \/ 8 \in rtc.masks \/ cpu.pc = "halted" \/ (rtc.irq /\ ~rtc.irr)
CallsEnd ==
  /\ []<>(cpu.pc \in {"idle", "protected", "halted"})
  /\ bda.active ~> (~bda.active \/ Stopped)
=============================================================================
