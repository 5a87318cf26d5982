----------------------------- MODULE BiosClock -----------------------------
(***************************************************************************)
(* The clock services of the system BIOS: INT 1Ah (the tick count and the  *)
(* CMOS clock), INT 15h/83h and 86h (waits) and delay_ticks, with the two   *)
(* interrupt handlers below them: INT 08h counts ticks and days, INT 70h    *)
(* serves the alarm and the periodic interrupt of rtc.v.  INT 1Ah runs with *)
(* interrupts on, and every CMOS access is two port accesses: the register  *)
(* is selected, then read or written.                                       *)
(***************************************************************************)
EXTENDS Integers, Sequences

CONSTANTS Machines,   \* what the clock shows and which interrupts are let through at the
                      \* start, the plan of the programs (a sequence of the calls each
                      \* step may choose from) and, a bound, the seconds that pass
          Base,       \* seconds, minutes, ... count to this
          Rate,       \* ticks in a second (18.2)
          Day,        \* ticks in a day (1800B0h)
          FlagMod,    \* the midnight flag is a byte
          Period,     \* microseconds between periodic interrupts (3D1h)
          Toggle,     \* microseconds between toggles of the refresh bit (15)
          MaxPolls    \* the reads rtc_updating makes (25000)

VARIABLES rtc,    \* the clock chip, and IRQ 8 as the PIC holds it
          bda,    \* the tick count, the midnight flag, the interval wait
          cpu,    \* what is left of the service, what it read, the handler on top of it
          call, ret,
          hist    \* history: what passed since the call or the wait began
clockVars == <<rtc, bda, cpu, call, ret, hist>>

Order == <<"s", "m", "h", "day", "month">>  \* the registers, each carrying into the next
Lower(k) == {Order[i] : i \in {j \in 1..5 : \E n \in (j + 1)..5 : Order[n] = k}}
BBits == {"freeze", "pie", "aie"}           \* status register B

----------------------------------------------------------------------------
(* The clock chip.  `uip` is the update bit of register A, `late` says that *)
(* it rose after rtc_updating had looked: the update is then longer off     *)
(* than a service that is not interrupted takes.                            *)

Wanted(r) == ("pie" \in r.b /\ r.pf) \/ ("aie" \in r.b /\ r.af)
\* The request rises, and its edge is latched.
Raise(r) == [r EXCEPT !.irq = @ \/ Wanted(r), !.irr = @ \/ (Wanted(r) /\ ~r.irq)]
ReadC(r) == [r EXCEPT !.irq = FALSE, !.pf = FALSE, !.af = FALSE]
WriteB(r, b) == Raise([r EXCEPT !.b = b, !.uip = @ /\ "freeze" \notin b])

Ticked(reg) ==
  [k \in DOMAIN reg |->
     IF (\E i \in 1..5 : Order[i] = k) /\ \A j \in Lower(k) : reg[j] = Base - 1
     THEN (reg[k] + 1) % Base ELSE reg[k]]
Time(reg) == <<reg.s, reg.m, reg.h>>
Date(reg) == <<reg.month, reg.day>>
AlarmDue(reg) == Time(reg) = <<reg.as, reg.am, reg.ah>>

\* The ticks from midnight to a time, as timer_tick_post counts them.
TicksAt(t) == ((t[3] * Base + t[2]) * Base + t[1]) * Rate

UpdateStarts ==
  /\ ~rtc.uip /\ "freeze" \notin rtc.b /\ hist.seconds > 0
  /\ rtc' = [rtc EXCEPT !.uip = TRUE, !.late = cpu.window]
  /\ UNCHANGED <<bda, cpu, call, ret, hist>>
ClockCalls == {"00", "01", "02", "03", "04", "05", "06", "07", "83", "83c", "86", "delay"}
Reads(fn) == fn \in {"02", "04"}
Update ==
  /\ rtc.uip /\ ~(cpu.window /\ rtc.late)
  /\ LET reg == Ticked(rtc.reg) IN
     /\ rtc' = Raise([rtc EXCEPT !.uip = FALSE, !.reg = reg, !.af = @ \/ AlarmDue(reg)])
     /\ hist' = [hist EXCEPT !.seconds = @ - 1,
                             !.seen = IF Reads(call.fn) THEN @ \cup {reg} ELSE @]
  /\ UNCHANGED <<bda, cpu, call, ret>>
Capped(n) == IF n < 3 THEN n + 1 ELSE n
\* The divider runs freely, and its flag is set whether or not B lets it interrupt.
\* `passed` is the time from the start of a wait to the last period's end: of the
\* period under way at the start anything may be left, of the later ones all passes
\* (a bound: three of them are counted).
Periodic ==
  /\ ~rtc.pf \/ bda.active
  /\ rtc' = Raise([rtc EXCEPT !.pf = TRUE])
  /\ \E left \in {1, Period} :
       hist' = [hist EXCEPT !.passed = CASE ~bda.active -> 0 [] bda.active /\ @ = 0 -> left
                                         [] bda.active /\ @ # 0 -> IF @ > 2 * Period THEN @ ELSE @ + Period]
  /\ UNCHANGED <<bda, cpu, call, ret>>

----------------------------------------------------------------------------
(* The interrupt handlers.  A program's own (INT 1Ch and INT 4Ah, which     *)
(* INT 08h and INT 70h call) may take longer than the update bit leaves.    *)

Cycle(n) == n % (Day * FlagMod)
Open == {"idle", "busy", "hlt"}  \* where interrupts are on

\* INT 08h, which nothing interrupts: IRQ 0 is the first in the order.  (The
\* motor it also counts is in BiosFloppy.)  A loop that waits for a tick looks
\* at the count more than once a day.
Tick(d) == IF d.ticks + 1 < Day THEN [d EXCEPT !.ticks = @ + 1]
           ELSE [d EXCEPT !.ticks = 0, !.midnight = (@ + 1) % FlagMod]
Int08 ==
  /\ cpu.h \in {"none", "alarm"} /\ cpu.pc \in Open /\ 0 \notin rtc.masks
  /\ cpu.pc = "hlt" => (bda.ticks + 1) % Day # cpu.prev
  /\ bda' = Tick(bda)
  /\ cpu' = [cpu EXCEPT !.woken = cpu.pc = "hlt", !.window = FALSE]
  /\ hist' = [hist EXCEPT !.total = Cycle(@ + 1),
                          !.ticks = IF cpu.pc \in {"hlt", "busy"} THEN Capped(@) ELSE 0,
                          !.torn = @ \/ cpu.window,
                          !.totals = IF call.fn = "00" /\ cpu.pc = "busy"
                                     THEN @ \cup {Cycle(hist.total + 1)} ELSE @]
  /\ UNCHANGED <<rtc, call, ret>>

\* INT 70h reads registers B and C with interrupts off.  It leaves C selected,
\* whatever the service it interrupts had selected.
MidAccess == cpu.script # <<>> /\ Head(cpu.script).op \in {"take", "put", "put new", "test"}
Int70 ==
  /\ cpu.h = "none" /\ cpu.pc \in Open
  /\ rtc.irr /\ 8 \notin rtc.masks
  /\ rtc' = [ReadC(rtc) EXCEPT !.irr = FALSE, !.idx = "C"]
  /\ LET any   == rtc.b \cap {"pie", "aie"} # {}
         alarm == any /\ rtc.af
     IN  /\ cpu' = [cpu EXCEPT !.h = IF alarm THEN "alarm" ELSE "rest", !.b = rtc.b, !.due = any /\ rtc.pf,
                               !.window = @ /\ ~alarm, !.woken = cpu.pc = "hlt"]
         /\ hist' = [hist EXCEPT !.torn = @ \/ MidAccess \/ (alarm /\ cpu.window),
                                 !.stopped = @ \/ (bda.active /\ MidAccess)]
  /\ UNCHANGED <<bda, call, ret>>
\* The program's INT 4Ah, with interrupts on: it may turn the alarm off.
Int4a ==
  /\ cpu.h = "alarm"
  /\ rtc' \in {rtc, [rtc EXCEPT !.b = @ \cap {"pie"}, !.idx = "B"]}
  /\ cpu' = [cpu EXCEPT !.h = "rest"]
  /\ UNCHANGED <<bda, call, ret, hist>>
\* Variant: a wait of exactly one period is over with the first interrupt.
OverSoon(left) == left <= Period
Over(left) == left < Period
\* The periodic part.  Ending the wait writes back the register B read at the
\* start, less the periodic bit.
Int70Rest ==
  /\ cpu.h = "rest"
  /\ cpu' = [cpu EXCEPT !.h = "none", !.b = {}, !.due = FALSE]
  /\ IF cpu.due /\ bda.active
     THEN IF Over(bda.left)
          THEN /\ bda' = [bda EXCEPT !.active = FALSE, !.flag = TRUE]
               /\ rtc' = [WriteB(rtc, cpu.b \cap {"aie"}) EXCEPT !.idx = "B"]
          ELSE bda' = [bda EXCEPT !.left = @ - Period] /\ UNCHANGED rtc
     ELSE UNCHANGED <<bda, rtc>>
  /\ UNCHANGED <<call, ret, hist>>

----------------------------------------------------------------------------
(* The CMOS accesses of a service are a script: select a register, take or *)
(* put a value, test the update bit.                                       *)

Op(op, reg, val) == [op |-> op, reg |-> reg, val |-> val]
Read(r) == <<Op("select", r, 0), Op("take", r, 0)>>
Write(r, v) == <<Op("select", r, 0), Op("put", r, v)>>
\* Variant: register A is read and not looked at.
rtc_updatingHasty == <<Op("select", "A", 0)>>
rtc_updating == <<Op("select", "A", 0), Op("test", "A", 0)>>
\* Register B gets the value a service works out; init_rtc, which also reads D,
\* clears it.
WriteNewB == <<Op("select", "B", 0), Op("put new", "B", 0)>>
init_rtc == Write("A", 0) \o Write("B", 0) \o Read("C")
WriteTime(c) == Write("s", c.time[1]) \o Write("m", c.time[2]) \o Write("h", c.time[3])
WriteDate(c) == Write("month", c.time[1]) \o Write("day", c.time[2])
WriteAlarm(c) == Write("as", c.time[1]) \o Write("am", c.time[2]) \o Write("ah", c.time[3])

\* Variant: the midnight flag is cleared in a critical section of its own.
ReadTicksSplit == <<Op("ticks", "", 0), Op("clear", "", 0)>>
ReadTicks == <<Op("ticks+clear", "", 0)>>
Script(c) ==
  CASE c.fn = "00" -> ReadTicks
    [] c.fn = "01" -> <<Op("set ticks", "", 0)>>
    [] c.fn = "02" -> rtc_updating \o Read("s") \o Read("m") \o Read("h") \o Read("B")
    [] c.fn = "03" -> rtc_updating \o WriteTime(c) \o Read("B") \o WriteNewB
    [] c.fn = "04" -> rtc_updating \o Read("month") \o Read("day")
    [] c.fn = "05" -> rtc_updating \o WriteDate(c) \o Read("B") \o WriteNewB
    [] c.fn = "06" -> Read("B") \o <<Op("refuse", "", 0)>> \o rtc_updating \o WriteAlarm(c)
                        \o <<Op("unmask", "", 0)>> \o WriteNewB
    [] c.fn = "07" -> Read("B") \o WriteNewB
    [] c.fn = "83" -> <<Op("interval", "", 0)>>
    [] c.fn = "83c" -> <<Op("interval clear", "", 0)>>
    [] c.fn = "post" -> Read("h") \o Read("m") \o Read("s")
    [] OTHER -> <<>>
\* What is left when the update did not end: an error, or a clock set anew.
GivesUp(fn, rest) ==
  CASE fn \in {"02", "04"} -> <<Op("fail", "", 0)>>
    [] fn = "05" -> init_rtc \o <<Op("fail", "", 0)>>
    [] OTHER -> init_rtc \o rest

\* What register B becomes, from the value read before: by functions 06 and 07
\* at the start, by 03 and 05 just now.
Flags(r) == {x \in BBits : (x = "freeze" /\ r.irq) \/ (x = "pie" /\ r.pf) \/ (x = "aie" /\ r.af)}
NewB(fn, got) ==
  LET was == IF fn \in {"06", "07"} THEN got[1] ELSE got[Len(got)] IN
  CASE fn = "03" -> was \cap {"pie", "aie"}
    [] fn = "05" -> was \ {"freeze"}
    [] fn = "06" -> (was \ {"freeze"}) \cup {"aie"}
    [] fn = "07" -> was \cap {"pie"}
At(op) == /\ cpu.h = "none" /\ cpu.pc \in {"busy", "post"} /\ cpu.script # <<>>
          /\ Head(cpu.script).op = op
Rest == Tail(cpu.script)

Select ==
  /\ At("select")
  /\ rtc' = [rtc EXCEPT !.idx = Head(cpu.script).reg]
  /\ cpu' = [cpu EXCEPT !.script = Rest]
  /\ UNCHANGED <<bda, call, ret, hist>>
Selected ==
  CASE rtc.idx = "A" -> rtc.uip [] rtc.idx = "B" -> rtc.b [] rtc.idx = "C" -> Flags(rtc)
    [] OTHER -> rtc.reg[rtc.idx]
AfterRead == IF rtc.idx = "C" THEN ReadC(rtc) ELSE rtc
Take ==
  /\ At("take")
  /\ rtc' = AfterRead
  /\ cpu' = [cpu EXCEPT !.script = Rest, !.got = Append(@, Selected)]
  /\ UNCHANGED <<bda, call, ret, hist>>
\* Bit 7 of what is selected; INT 70h may have changed what that is.
Busy == CASE rtc.idx = "A" -> rtc.uip [] rtc.idx = "C" -> rtc.irq [] OTHER -> "freeze" \in rtc.b
Test ==
  /\ At("test")
  /\ rtc' = AfterRead
  /\ cpu' = CASE ~Busy -> [cpu EXCEPT !.script = Rest, !.window = TRUE]
              [] Busy /\ cpu.polls < MaxPolls ->
                   [cpu EXCEPT !.script = rtc_updating \o Rest, !.polls = @ + 1]
              [] OTHER -> [cpu EXCEPT !.script = GivesUp(call.fn, Rest)]
  /\ hist' = [hist EXCEPT !.reset = @ \/ (Busy /\ cpu.polls = MaxPolls),
                          !.stopped = @ \/ (bda.active /\ Busy /\ cpu.polls = MaxPolls)]
  /\ UNCHANGED <<bda, call, ret>>
\* A value meant for another register that lands in B sets what its bits say.
Put ==
  /\ At("put") \/ At("put new")
  /\ LET op == Head(cpu.script)
     IN  rtc' \in CASE rtc.idx \in {"A", "C"} -> {rtc}
                    [] rtc.idx = "B" /\ op.reg = "B" ->
                         {WriteB(rtc, IF op.op = "put" THEN {} ELSE NewB(call.fn, cpu.got))}
                    [] rtc.idx = "B" /\ op.reg # "B" -> {WriteB(rtc, b) : b \in SUBSET BBits}
                    [] OTHER -> {[rtc EXCEPT !.reg[rtc.idx] = op.val]}
  /\ cpu' = [cpu EXCEPT !.script = Rest]
  /\ UNCHANGED <<bda, call, ret, hist>>
\* INT 1Ah/06h: an alarm is in use; IRQ 8 is let through.
Refuse ==
  /\ At("refuse")
  /\ cpu' = [cpu EXCEPT !.script = IF "aie" \in cpu.got[1] THEN <<Op("fail", "", 0)>> ELSE Rest]
  /\ UNCHANGED <<rtc, bda, call, ret, hist>>
Unmask ==
  /\ At("unmask")
  /\ rtc' = [rtc EXCEPT !.masks = @ \ {8}]
  /\ cpu' = [cpu EXCEPT !.script = Rest]
  /\ UNCHANGED <<bda, call, ret, hist>>

----------------------------------------------------------------------------
(* The tick count, read and set with interrupts off, and the answers.      *)

Answer(cf, v) == [cf |-> cf, v |-> v]
NoAnswer == Answer(FALSE, <<>>)
Done(r) == /\ cpu' = [cpu EXCEPT !.pc = "idle", !.script = <<>>, !.got = <<>>, !.window = FALSE,
                                 !.polls = 0, !.woken = FALSE, !.wait = 0, !.prev = 0]
           /\ ret' = r
TicksRead ==
  /\ At("ticks+clear") \/ At("ticks")
  /\ cpu' = [cpu EXCEPT !.script = Rest, !.got = <<bda.midnight, bda.ticks>>]
  /\ bda' = [bda EXCEPT !.midnight = IF At("ticks") THEN @ ELSE 0]
  /\ UNCHANGED <<rtc, call, ret, hist>>
TicksClear ==
  /\ At("clear") \/ At("set ticks")
  /\ cpu' = [cpu EXCEPT !.script = Rest]
  /\ bda' = [bda EXCEPT !.midnight = 0, !.ticks = IF At("clear") THEN @ ELSE call.n]
  /\ hist' = IF At("clear") THEN hist ELSE [hist EXCEPT !.total = call.n]
  /\ UNCHANGED <<rtc, call, ret>>
Failed ==
  /\ At("fail")
  /\ Done(Answer(TRUE, <<>>))
  /\ UNCHANGED <<rtc, bda, call, hist>>
Returns ==
  /\ cpu.h = "none" /\ cpu.pc = "busy" /\ cpu.script = <<>>
  /\ call.fn \in {"00", "01", "02", "03", "04", "05", "06", "07"}
  /\ Done(Answer(FALSE, cpu.got))
  /\ hist' = IF call.fn = "00" THEN [hist EXCEPT !.total = Cycle(@ - cpu.got[1] * Day)]
             ELSE hist
  /\ UNCHANGED <<rtc, bda, call>>

----------------------------------------------------------------------------
(* The waits.  INT 15h is entered with interrupts off.                     *)

\* INT 15h/83h.  A periodic flag that was set before raises the interrupt at once.
Interval ==
  /\ At("interval")
  /\ IF bda.active
     THEN Done(Answer(TRUE, <<>>)) /\ UNCHANGED <<rtc, bda, hist>>
     ELSE /\ bda' = [bda EXCEPT !.active = TRUE, !.left = call.n, !.flag = FALSE]
          /\ rtc' = [WriteB(rtc, rtc.b \cup {"pie"}) EXCEPT !.masks = @ \ {8}, !.idx = "B"]
          /\ hist' = [hist EXCEPT !.passed = 0, !.asked = call.n, !.stopped = FALSE]
          /\ Done(Answer(FALSE, <<>>))
  /\ UNCHANGED call
IntervalClear ==
  /\ At("interval clear")
  /\ bda' = [bda EXCEPT !.active = FALSE]
  /\ rtc' = [rtc EXCEPT !.b = @ \ {"pie"}, !.idx = "B"]
  /\ Done(Answer(FALSE, <<>>))
  /\ UNCHANGED <<call, hist>>

\* delay_ticks: what the count grew by is taken off, or after midnight what it is.
\* Variant: the wrapped count is not looked at.
PassedCyclic(t, prev) == IF t >= prev THEN t - prev ELSE t + Day
Passed(t, prev) == IF t >= prev THEN t - prev ELSE t
DelayLoop ==
  /\ cpu.h = "none" /\ cpu.pc = "hlt" /\ cpu.woken
  /\ LET left == cpu.wait - Passed(bda.ticks, cpu.prev) IN
     IF left > 0 THEN cpu' = [cpu EXCEPT !.wait = left, !.prev = bda.ticks, !.woken = FALSE]
                      /\ UNCHANGED ret
     ELSE Done(Answer(FALSE, <<>>))
  /\ UNCHANGED <<rtc, bda, call, hist>>

\* INT 15h/86h counts the toggles of the refresh bit in port 61h that it sees.
RefreshToggles ==
  /\ cpu.pc = "busy" /\ call.fn = "86" /\ (rtc.refresh = cpu.prev \/ cpu.h # "none")
  /\ rtc' = [rtc EXCEPT !.refresh = 1 - @]
  /\ hist' = [hist EXCEPT !.toggles = Capped(@)]
  /\ UNCHANGED <<bda, cpu, call, ret>>
RefreshWait ==
  /\ cpu.h = "none" /\ cpu.pc = "busy" /\ call.fn = "86" /\ (cpu.wait = 0 \/ rtc.refresh # cpu.prev)
  /\ IF cpu.wait = 0 THEN Done(Answer(FALSE, <<>>))
     ELSE cpu' = [cpu EXCEPT !.wait = @ - 1, !.prev = rtc.refresh] /\ UNCHANGED ret
  /\ UNCHANGED <<rtc, bda, call, hist>>

CanCall(k) == /\ cpu.pc = "idle" /\ cpu.h = "none"
              /\ hist.plan # <<>> /\ k \in Head(hist.plan)
Begin(k) ==
  /\ call' = k
  /\ ret' = NoAnswer
  /\ hist' = [hist EXCEPT !.plan = Tail(@), !.ticks = 0, !.toggles = 0, !.torn = FALSE, !.reset = FALSE,
                          !.totals = {hist.total}, !.seen = IF Reads(k.fn) THEN {rtc.reg} ELSE {}]
Entered(k, pc, wait, prev) ==
  [cpu EXCEPT !.pc = pc, !.script = Script(k), !.wait = wait, !.prev = prev]
ClockCall(k) ==
  /\ CanCall(k) /\ k.fn \in ClockCalls
  /\ Begin(k)
  /\ cpu' = CASE k.fn = "86" -> Entered(k, "busy", k.n \div Toggle, rtc.refresh)
              [] k.fn = "delay" -> Entered(k, "hlt", k.n, bda.ticks)
              [] OTHER -> Entered(k, "busy", 0, 0)
  /\ UNCHANGED <<rtc, bda>>

----------------------------------------------------------------------------
ClockInit(m) ==
  /\ rtc = [reg |-> m.start, b |-> {}, uip |-> FALSE, late |-> FALSE, pf |-> TRUE, af |-> FALSE,
            irq |-> FALSE, irr |-> FALSE, masks |-> m.masks, idx |-> "C", refresh |-> 0]
  /\ bda = [ticks |-> TicksAt(Time(rtc.reg)), midnight |-> 0, active |-> FALSE, left |-> 0, flag |-> FALSE]
  /\ cpu = [pc |-> "idle", script |-> <<>>, got |-> <<>>, h |-> "none", b |-> {}, due |-> FALSE,
            window |-> FALSE, polls |-> 0, woken |-> FALSE, wait |-> 0, prev |-> 0]
  /\ call = [fn |-> "none", time |-> <<0, 0, 0>>, n |-> 0]
  /\ ret = NoAnswer
  /\ hist = [plan |-> m.plan, seen |-> {}, totals |-> {}, total |-> bda.ticks,
             passed |-> 0, asked |-> 0, ticks |-> 0, toggles |-> 0, seconds |-> m.seconds,
             torn |-> FALSE, reset |-> FALSE, stopped |-> FALSE]

Chip == UpdateStarts \/ Update \/ Periodic
Handlers == Int70 \/ Int4a \/ Int70Rest
Service ==
  \/ Select \/ Take \/ Test \/ Put \/ Refuse \/ Unmask \/ TicksRead \/ TicksClear \/ Failed \/ Returns
  \/ Interval \/ IntervalClear \/ DelayLoop \/ RefreshWait
=============================================================================
