----------------------------- MODULE BiosInput -----------------------------
(***************************************************************************)
(* The input services of the system BIOS (INT 09h, INT 74h, INT 16h and    *)
(* the mouse part of INT 15h) on the 8042 they drive, its two queues, a    *)
(* keyboard and a mouse.  One program runs; the two interrupt handlers run *)
(* over it where the code lets them.  Every byte is the number on the      *)
(* wire; the tag beside it says what it is and no action reads the tag but *)
(* to keep `stray`.                                                        *)
(***************************************************************************)
EXTENDS Integers, Sequences

CONSTANTS Keys,       \* the keys typed, <<make code, extended>>
          Services,   \* the mouse services the program calls
          Slots,      \* entries of the BIOS keyboard buffer
          MaxKeys, MaxMoves, MaxCalls   \* bounds: key events, packets, calls

ASSUME InputAssumption ==
  /\ Keys \subseteq (1..127) \X BOOLEAN
  /\ Slots \in Nat /\ Slots > 1
  /\ MaxKeys \in Nat /\ MaxMoves \in Nat /\ MaxCalls \in Nat

VARIABLES ctl,    \* the 8042
          line,   \* its two interrupt lines, as the PIC latched them
          kbd, mouse,   \* the devices
          bda,    \* the keyboard's part of the BIOS data area
          ebda,   \* the mouse's part of the extended one
          cpu,    \* where the program and the two handlers are
          hist    \* history: what was typed, read and delivered
vars == <<ctl, line, kbd, mouse, bda, ebda, cpu, hist>>

Bit(b, i) == (b \div 2^i) % 2 = 1
Byte(b, tag) == [b |-> b, tag |-> tag]
Prefix  == 224
Ack     == 250
ExtKeys == 71..83

----------------------------------------------------------------------------
(* The 8042.  The mouse's queue goes first; a byte stays at the head of    *)
(* its queue while the output buffer shows it.                             *)

Settle(c) ==
  IF c.out # "none" THEN c
  ELSE [c EXCEPT !.out = IF c.mq # <<>> THEN "mouse"
                         ELSE IF c.kq # <<>> THEN "key" ELSE "none"]
Shown(c) == IF c.out = "mouse" THEN Head(c.mq) ELSE Head(c.kq)
Taken(c) == Settle([c EXCEPT !.out = "none",
                             !.mq = IF c.out = "mouse" THEN Tail(@) ELSE @,
                             !.kq = IF c.out = "key" THEN Tail(@) ELSE @])
PutKey(c, byte)  == Settle([c EXCEPT !.kq = Append(@, byte)])
PutMove(c, byte) == Settle([c EXCEPT !.mq = Append(@, byte)])

\* Status bits 0 and 5: a byte is shown; the mouse's queue holds something.
OutputFull(c) == c.out # "none"
MouseData(c)  == OutputFull(c) /\ c.mq # <<>>

CommandByte(c) == (IF c.irqKey THEN 1 ELSE 0) + (IF c.irqMouse THEN 2 ELSE 0) + 4
                  + (IF c.keyOff THEN 16 ELSE 0) + (IF c.mouseOffSeen THEN 32 ELSE 0)
                  + (IF c.translate THEN 64 ELSE 0)
SetCommandByte(c, b) ==
  [c EXCEPT !.irqKey = Bit(b, 0), !.irqMouse = Bit(b, 1), !.keyOff = Bit(b, 4),
            !.mouseOff = Bit(b, 5), !.mouseOffSeen = Bit(b, 5), !.translate = Bit(b, 6)]

\* A byte for a device waits in the input buffer; one written while another
\* waits is dropped.  Writing turns the device's clock on, but for the mouse
\* the command byte goes on showing it off.
ToKeyboard(c, b) == IF c.in.to # "none" THEN c
                    ELSE [c EXCEPT !.in = [to |-> "key", b |-> b], !.keyOff = FALSE]
\* Variant: a byte for the mouse leaves its clock as it is.
ToMouseAsleep(c, b) == IF c.in.to # "none" THEN c ELSE [c EXCEPT !.in = [to |-> "mouse", b |-> b]]

ToMouse(c, b) == IF c.in.to # "none" THEN c
                 ELSE [c EXCEPT !.in = [to |-> "mouse", b |-> b], !.mouseOff = FALSE]

\* Variant: the mouse's line follows its queue and not the output buffer.
LinesOfQueue(old, c, fell) ==
  LET kept == IF fell THEN {} ELSE old.high
      high == (IF c.out = "key" /\ (c.irqKey \/ 1 \in kept) THEN {1} ELSE {})
              \cup (IF c.mq # <<>> /\ (c.irqMouse \/ 12 \in kept) THEN {12} ELSE {})
  IN  [old EXCEPT !.high = high, !.irr = (@ \cap kept \cap high) \cup (high \ kept)]

\* The lines follow the buffer and the enables; the PIC keeps a rise until
\* it is acknowledged or the line falls.
Lines(old, c, fell) ==
  LET kept == IF fell THEN {} ELSE old.high
      high == (IF c.out = "key" /\ (c.irqKey \/ 1 \in kept) THEN {1} ELSE {})
              \cup (IF c.out = "mouse" /\ (c.irqMouse \/ 12 \in kept) THEN {12} ELSE {})
  IN  [old EXCEPT !.high = high, !.irr = (@ \cap kept \cap high) \cup (high \ kept)]
\* After an access that is not a read of data the lines only rise; after a
\* read they fall first.
Write(c) == ctl' = c /\ line' = Lines(line, c, FALSE)
Read     == ctl' = Taken(ctl) /\ line' = Lines(line, Taken(ctl), TRUE)

\* The first to disturb the traffic: it read a byte meant for another, or
\* cut a packet in two.
Disturb(h, who, did) == [h EXCEPT !.first = IF @ = "none" /\ did THEN who ELSE @]
Reading(who, tag) == Disturb(hist, who, Shown(ctl).tag # tag)
\* A packet is partly sent, partly handed over, or partly waiting.
Midway == mouse.pos # 0 \/ ebda.index # 0 \/ (ctl.mq # <<>> /\ Head(ctl.mq).b # 1)

----------------------------------------------------------------------------
(* The devices.                                                            *)

KeyBytes(k, up) == (IF k[2] THEN <<Prefix>> ELSE <<>>) \o <<k[1] + (IF up THEN 128 ELSE 0)>>

\* The keyboard sends the next byte of a key pressed or released; it is held
\* back while its clock is off.  Without translation its codes are another
\* alphabet, which is not modelled.
SendKey ==
  /\ ~ctl.keyOff /\ ctl.in.to # "key" /\ ctl.translate
  /\ \/ /\ kbd.rest # <<>>
        /\ Write(PutKey(ctl, Byte(Head(kbd.rest), "code")))
        /\ kbd' = [kbd EXCEPT !.rest = Tail(@)]
        /\ UNCHANGED hist
     \/ /\ kbd.rest = <<>> /\ hist.keys < MaxKeys
        /\ \E k \in Keys : LET up == k \in kbd.held IN
             /\ Write(PutKey(ctl, Byte(Head(KeyBytes(k, up)), "code")))
             /\ kbd' = [kbd EXCEPT !.rest = Tail(KeyBytes(k, up)),
                                   !.held = IF up THEN @ \ {k} ELSE @ \cup {k}]
             /\ hist' = [hist EXCEPT !.keys = @ + 1]
  /\ UNCHANGED <<mouse, bda, ebda, cpu>>

\* The mouse sends the next byte of a packet, numbered from 1; its clock
\* must be on.
SendMove ==
  /\ mouse.on /\ ~ctl.mouseOff /\ ctl.in.to # "mouse"
  /\ mouse.pos > 0 \/ hist.moves < MaxMoves
  /\ Write(PutMove(ctl, Byte(mouse.pos + 1, "move")))
  /\ mouse' = [mouse EXCEPT !.pos = (@ + 1) % 3]
  /\ hist' = IF mouse.pos = 0 THEN [hist EXCEPT !.moves = @ + 1] ELSE hist
  /\ UNCHANGED <<kbd, bda, ebda, cpu>>

\* A device takes the byte it is sent, once its clock is on, and answers.
\* The mouse drops the rest of the packet it was sending.
Identify == 242
Answer(to, b) == IF b # Identify THEN <<Ack>>
                 ELSE IF to = "mouse" THEN <<Ack, 0>> ELSE <<Ack, 171, 131>>
DeviceAnswers ==
  LET told == [ctl EXCEPT !.in.to = "none"]
      answer == Answer(ctl.in.to, ctl.in.b)
      Sent(q) == q \o [i \in DOMAIN answer |-> Byte(answer[i], ctl.in.to)]
  IN  \/ /\ ctl.in.to = "key" /\ ~ctl.keyOff
         /\ Write(Settle([told EXCEPT !.kq = Sent(@)]))
         /\ UNCHANGED <<kbd, mouse, bda, ebda, cpu, hist>>
      \/ /\ ctl.in.to = "mouse" /\ ~ctl.mouseOff
         /\ Write(Settle([told EXCEPT !.mq = Sent(@)]))
         /\ mouse' = [on |-> mouse.on \/ ctl.in.b = 244, pos |-> 0]
         /\ hist' = Disturb(hist, "command", Midway)
         /\ UNCHANGED <<kbd, bda, ebda, cpu>>
Devices == SendKey \/ SendMove \/ DeviceAnswers

----------------------------------------------------------------------------
(* INT 09h.                                                                *)

\* The ring of the BIOS data area: empty when head = tail, so that one of
\* its slots is never used.
NextSlot(i) == (i + 1) % Slots
Contents(d) == [i \in 1..((d.tail - d.head + Slots) % Slots) |-> d.buf[(d.head + i - 1) % Slots]]
Enqueue(d, key) == IF NextSlot(d.tail) = d.head THEN d
                   ELSE [d EXCEPT !.buf[d.tail] = key, !.tail = NextSlot(@)]

\* scan_to_scanascii: which codes have nothing in a column, and which are
\* shifted by Caps Lock or Num Lock.
NoPlain   == {29, 42, 54, 56, 58, 69, 70, 84, 85}
NoControl == NoPlain \cup {2, 4, 5, 6, 8, 9, 10, 11, 13, 15, 39, 40, 41, 51, 52, 53, 55,
                           72, 74, 76, 78, 80, 82, 83, 86}
NoAlt     == NoPlain \cup {14, 15, 26, 27, 28, 39, 40, 41, 43, 51, 52, 53, 55, 86} \cup ExtKeys
Missing(col) == CASE col = "alt" -> NoAlt [] col = "control" -> NoControl [] OTHER -> NoPlain
LockOf(code) == IF code \in (16..25) \cup (30..38) \cup (44..50) THEN {"caps"}
                ELSE IF code \in ExtKeys \ {74, 78} THEN {"num"} ELSE {}

Column(d, code) ==
  LET shifted == d.shift \cap {"lshift", "rshift"} # {}
      locked  == d.shift \cap LockOf(code) # {}
  IN  IF "alt" \in d.shift THEN "alt"
      ELSE IF "ctrl" \in d.shift THEN "control"
      ELSE IF "e0" \in d.state /\ code \in ExtKeys THEN "extended"
      ELSE IF shifted = locked THEN "normal" ELSE "shift"

\* A control or alt key: the right one if the prefix came before it.
Modifier(d, down, flag, right, left) ==
  LET side(s, x) == IF down THEN s \cup {x} ELSE s \ {x}
  IN  IF "e0" \in d.state
        THEN [d EXCEPT !.shift = side(@, flag), !.state = side(@, right)]
        ELSE [d EXCEPT !.shift = side(@, flag), !.flags = side(@, left)]
\* Variant: the release of a lock key is not seen.
HeldForever(d, down, key) == [d EXCEPT !.flags = @ \cup {key}]

Held(d, down, key) == [d EXCEPT !.flags = IF down THEN @ \cup {key} ELSE @ \ {key}]
Flip(s, x) == IF x \in s THEN s \ {x} ELSE s \cup {x}

\* The prefixes are forgotten at the end of every code that reaches it.
Forget(d, code) == [d EXCEPT !.state = (@ \ {"e0"}) \ (IF code % 128 = 29 THEN {} ELSE {"e1"})]

\* Ctrl-Break empties the buffer at its head and leaves one null key.
BreakKey == <<0, "break">>
\* Variant: Ctrl-Break leaves what was typed before it.
CtrlBreakKeeps(d) == Enqueue([d EXCEPT !.state = @ \ {"e0"}, !.brk = TRUE], BreakKey)

CtrlBreak(d) == Enqueue([d EXCEPT !.state = @ \ {"e0"}, !.brk = TRUE, !.tail = d.head], BreakKey)

ShiftSide == [code \in {42, 54} |-> IF code = 42 THEN "lshift" ELSE "rshift"]
Ordinary(d, code) ==
  LET col == Column(d, code)
  IN  IF code > 88 \/ code \in Missing(col) THEN d
      ELSE Forget(Enqueue(d, <<code, col>>), code)

int09_function(d, byte) ==
  LET down  == byte < 128
      code  == byte % 128
      break == "e0" \in d.state \/ ("mf101" \notin d.state /\ "ctrl" \in d.shift)
      numlock == d.state \cap {"e0", "e1"} = {}
      toggled(key) == [Held(d, down, key) EXCEPT !.shift = IF down THEN Flip(@, key) ELSE @]
  IN  CASE byte = 0 -> d
        [] code = 58 -> Forget(toggled("caps"), code)
        [] code \in DOMAIN ShiftSide ->
             Forget([d EXCEPT !.shift = IF down THEN @ \cup {ShiftSide[code]}
                                        ELSE @ \ {ShiftSide[code]}], code)
        [] code = 29 -> Forget(IF "e1" \in d.state THEN d
                               ELSE Modifier(d, down, "ctrl", "rctrl", "lctrl"), code)
        [] code = 56 -> Forget(Modifier(d, down, "alt", "ralt", "lalt"), code)
        [] code = 69 -> Forget(IF numlock THEN toggled("num") ELSE d, code)
        [] code = 70 -> Forget(IF ~break THEN toggled("scroll")
                               ELSE IF down THEN CtrlBreak(d) ELSE d, code)
        [] OTHER -> IF down THEN Ordinary(d, code) ELSE Forget(d, code)

----------------------------------------------------------------------------
(* The interrupt handlers.  IRQ 1 is the more urgent; an interrupt is      *)
(* taken when the code under it has interrupts on.                         *)

\* A step of a service that must find the input buffer empty waits with
\* interrupts on until it is.
NeedsEmpty(step) == step \notin {"inhibit", "enable", "get", "acked"}
Delaying == cpu.pc = "service" /\ cpu.steps # <<>> /\ ctl.in.to # "none" /\ NeedsEmpty(Head(cpu.steps))
Open == cpu.on9 = "off" /\ (cpu.on74 # "off" \/ cpu.if \/ Delaying)

\* int09_handler up to its sti: the keyboard's clock off, the byte read.  The look
\* at the in-service bit (rombios.c:11132-11140) is left out: it finds the bit set
\* unless a program issues INT 09h itself.
Int09Read ==
  /\ Open /\ 1 \in line.irr /\ 1 \notin line.isr
  /\ LET c == [ctl EXCEPT !.keyOff = TRUE] IN
       /\ ctl' = Taken(c)
       /\ line' = [Lines(line, Taken(c), TRUE) EXCEPT !.isr = @ \cup {1}]
  /\ cpu' = [cpu EXCEPT !.on9 = "work", !.key = Shown(ctl).b]
  /\ hist' = Reading(IF Shown(ctl).tag = "key" THEN "identity" ELSE "int09", "code")
  /\ UNCHANGED <<kbd, mouse, bda, ebda>>

\* The rest of it: nothing that runs meanwhile writes what it uses.  Ctrl-Alt-Del,
\* which jumps to POST (rombios.c:5121-5128), is left out.
PrefixState == [code \in {224, 225} |-> IF code = 224 THEN "e0" ELSE "e1"]
Int09Work ==
  /\ cpu.on9 = "work"
  /\ LET code == cpu.key
         after == IF code \in DOMAIN PrefixState
                    THEN [bda EXCEPT !.state = @ \cup {PrefixState[code]}]
                    ELSE int09_function(bda, code)
     IN  /\ bda' = after
         /\ hist' = [hist EXCEPT !.queue =
              IF code = 70 /\ "e0" \in bda.state THEN <<BreakKey>>
              ELSE IF after.tail # bda.tail THEN Append(@, after.buf[bda.tail]) ELSE @]
  /\ ctl' = [ctl EXCEPT !.keyOff = FALSE]
  /\ line' = [line EXCEPT !.isr = @ \ {1}]
  /\ cpu' = [cpu EXCEPT !.on9 = "off", !.key = 0]
  /\ UNCHANGED <<kbd, mouse, ebda>>

\* INT 74h turns interrupts on at once, reads a byte if status shows one
\* of the mouse, and collects a packet.
Int74 ==
  /\ Open /\ cpu.on9 = "off" /\ cpu.on74 = "off" /\ 12 \in line.irr /\ line.isr = {}
  /\ line' = [line EXCEPT !.irr = @ \ {12}, !.isr = @ \cup {12}]
  /\ cpu' = [cpu EXCEPT !.on74 = "read"]
  /\ UNCHANGED <<ctl, kbd, mouse, bda, ebda, hist>>

\* Variant: the index moves before the byte is stored.
CollectedAhead(e, b) ==
  IF ~e.hooked THEN e
  ELSE [e EXCEPT !.data[e.index + 1] = b, !.index = IF e.index >= e.count THEN 0 ELSE @ + 1]

Collected(e, b) ==
  IF ~e.hooked THEN e
  ELSE [e EXCEPT !.data[e.index] = b, !.index = IF e.index >= e.count THEN 0 ELSE @ + 1]
Packet(e) == [i \in 0..2 |-> e.data[i]]
int74_function ==
  /\ cpu.on9 = "off" /\ cpu.on74 = "read"
  /\ IF ~MouseData(ctl) THEN UNCHANGED <<ctl, line, ebda, hist>>
     ELSE LET e == Collected(ebda, Shown(ctl).b) IN
          /\ Read
          /\ ebda' = e
          /\ hist' = [Reading("int74", "move") EXCEPT !.packet =
               IF ebda.hooked /\ ebda.count = 2 /\ ebda.index = 2 THEN Packet(e) ELSE @]
  /\ cpu' = [cpu EXCEPT !.on74 = "call"]
  /\ UNCHANGED <<kbd, mouse, bda>>

\* The far call of the program's handler is over; both PICs get their EOI.
Int74Done ==
  /\ cpu.on9 = "off" /\ cpu.on74 = "call"
  /\ line' = [line EXCEPT !.isr = @ \ {12}]
  /\ cpu' = [cpu EXCEPT !.on74 = "off"]
  /\ UNCHANGED <<ctl, kbd, mouse, bda, ebda, hist>>

Handlers == Int09Read \/ Int09Work \/ Int74 \/ int74_function \/ Int74Done
Running == cpu.on9 = "off" /\ cpu.on74 = "off"

----------------------------------------------------------------------------
(* INT 16h.                                                                *)

Int16 ==
  /\ Running /\ cpu.pc = "run" /\ hist.calls < MaxCalls
  /\ \E fn \in {"read", "check", "store", "id"} :
       cpu' = [cpu EXCEPT !.pc = IF fn = "read" THEN "wait" ELSE "leds", !.fn = fn]
  /\ hist' = [hist EXCEPT !.calls = @ + 1]
  /\ UNCHANGED <<ctl, line, kbd, mouse, bda, ebda>>

\* Variant: the wait ends with interrupts on.
int16_key_found_open ==
  /\ Running /\ cpu.pc = "wait" /\ bda.head # bda.tail
  /\ cpu' = [cpu EXCEPT !.pc = "leds"]
  /\ UNCHANGED <<ctl, line, kbd, mouse, bda, ebda, hist>>

\* A read waits for a key and goes on with interrupts off.
int16_key_found ==
  /\ Running /\ cpu.pc = "wait" /\ bda.head # bda.tail
  /\ cpu' = [cpu EXCEPT !.pc = "leds", !.if = FALSE]
  /\ UNCHANGED <<ctl, line, kbd, mouse, bda, ebda, hist>>

\* Lamps that disagree with the locks are sent to the keyboard with
\* interrupts off; afterwards they are on.
LampsOf(d) == d.shift \cap {"scroll", "num", "caps"}
SendLamps ==
  /\ Running /\ cpu.pc = "leds"
  /\ IF LampsOf(bda) = bda.led
       THEN cpu' = [cpu EXCEPT !.pc = cpu.fn] /\ UNCHANGED <<ctl, line>>
       ELSE /\ cpu' = [cpu EXCEPT !.pc = "lamps", !.if = FALSE, !.led = LampsOf(bda)]
            /\ Write(ToKeyboard(ctl, 237))
  /\ UNCHANGED <<kbd, mouse, bda, ebda, hist>>
LampsAnswered ==
  /\ cpu.pc = "lamps" /\ OutputFull(ctl)
  /\ LET told == Shown(ctl).b = Ack
         c == IF told THEN ToKeyboard(Taken(ctl), 0) ELSE Taken(ctl)
     IN  /\ ctl' = c /\ line' = Lines(line, c, TRUE)
         /\ cpu' = IF told THEN [cpu EXCEPT !.pc = "lit"]
                   ELSE [cpu EXCEPT !.pc = cpu.fn, !.if = TRUE, !.sti = TRUE]
  /\ hist' = Reading("lamps", "key")
  /\ UNCHANGED <<kbd, mouse, bda, ebda>>
LampsLit ==
  /\ cpu.pc = "lit" /\ OutputFull(ctl)
  /\ Read /\ hist' = Reading("lamps", "key")
  /\ bda' = [bda EXCEPT !.led = cpu.led]
  /\ cpu' = [cpu EXCEPT !.pc = cpu.fn, !.if = TRUE, !.sti = TRUE]
  /\ UNCHANGED <<kbd, mouse, ebda>>

Return == [cpu EXCEPT !.pc = "run", !.fn = "none", !.if = TRUE, !.sti = FALSE, !.slot = 0, !.got = BreakKey,
                      !.prev = 0, !.led = {}]
\* dequeue_key reads the key and then moves the head past it.  Without a
\* key, a read returns nothing.
DequeueKey ==
  /\ Running /\ cpu.pc = "read"
  /\ cpu' = IF bda.head = bda.tail THEN Return
            ELSE [cpu EXCEPT !.pc = "take", !.slot = bda.head, !.got = bda.buf[bda.head]]
  /\ UNCHANGED <<ctl, line, kbd, mouse, bda, ebda, hist>>
MoveHead ==
  /\ Running /\ cpu.pc = "take"
  /\ bda' = [bda EXCEPT !.head = NextSlot(cpu.slot)]
  /\ hist' = IF hist.queue # <<>> /\ Head(hist.queue) = cpu.got
               THEN [hist EXCEPT !.queue = Tail(@)]
               ELSE [hist EXCEPT !.queue = Contents(bda'),
                                 !.raced = @ \cup {IF cpu.sti THEN "lamps" ELSE "read"}]
  /\ cpu' = Return
  /\ UNCHANGED <<ctl, line, kbd, mouse, ebda>>

CheckKey ==
  /\ Running /\ cpu.pc = "check" /\ cpu' = Return
  /\ UNCHANGED <<ctl, line, kbd, mouse, bda, ebda, hist>>

\* Function 05h runs enqueue_key with interrupts on: the tail it read may
\* be old when it writes.
StoredKey == <<1, "stored">>
StoreKey ==
  /\ Running /\ cpu.pc = "store"
  /\ cpu' = IF NextSlot(bda.tail) = bda.head THEN Return
            ELSE [cpu EXCEPT !.pc = "stored", !.slot = bda.tail]
  /\ UNCHANGED <<ctl, line, kbd, mouse, bda, ebda, hist>>
MoveTail ==
  /\ Running /\ cpu.pc = "stored"
  /\ bda' = [bda EXCEPT !.buf[cpu.slot] = StoredKey, !.tail = NextSlot(cpu.slot)]
  /\ hist' = IF bda.tail = cpu.slot THEN [hist EXCEPT !.queue = Append(@, StoredKey)]
             ELSE [hist EXCEPT !.queue = Contents(bda'), !.raced = @ \cup {"store"}]
  /\ cpu' = Return
  /\ UNCHANGED <<ctl, line, kbd, mouse, ebda>>

\* Function 0Ah asks the keyboard's identity with interrupts on and polls
\* for up to three bytes, giving up when none comes in time.
AskIdentity ==
  /\ Running /\ cpu.pc = "id"
  /\ Write(ToKeyboard(ctl, Identify))
  /\ cpu' = [cpu EXCEPT !.pc = "poll", !.slot = 3]
  /\ UNCHANGED <<kbd, mouse, bda, ebda, hist>>
PollIdentity ==
  /\ Running /\ cpu.pc = "poll"
  /\ \/ /\ OutputFull(ctl) /\ Read /\ hist' = Reading("identity", "key")
        /\ cpu' = IF cpu.slot = 1 \/ (cpu.slot = 3 /\ Shown(ctl).b # Ack)
                    THEN Return ELSE [cpu EXCEPT !.slot = @ - 1]
     \/ /\ ~OutputFull(ctl) /\ UNCHANGED <<ctl, line, hist>>
        /\ cpu' = IF cpu.slot \in {1, 3} THEN Return ELSE [cpu EXCEPT !.slot = @ - 1]
  /\ UNCHANGED <<kbd, mouse, bda, ebda>>

----------------------------------------------------------------------------
(* INT 15h, AH = C2h: each service is a list of steps, run with interrupts *)
(* off but while it waits for the input buffer.                            *)

Inhibit == <<"ask", "inhibit">>
ServiceSteps(f) ==
  CASE f = "enable"     -> Inhibit \o <<"send", "get", "acked", "ask", "enable">>
    [] f = "rate"       -> <<"send", "get", "send", "get">>
    [] f = "resolution" -> Inhibit \o <<"restore">>
    [] f = "identity"   -> Inhibit \o <<"send", "get", "get">>
    [] f = "scale"      -> Inhibit \o <<"send", "get", "restore">>
    [] f = "unhook"     -> IF ebda.hooked THEN Inhibit ELSE <<>>
    [] f = "hook"       -> <<>>
    [] OTHER            -> Inhibit
ServiceByte(f) == CASE f = "enable" -> 244 [] f = "identity" -> Identify [] OTHER -> 230

\* Enabling needs a handler; initialising sets the packet's length and
\* starts a new packet; the handler's flag is written after its steps.
Int15C2 ==
  /\ Running /\ cpu.pc = "run" /\ hist.calls < MaxCalls
  /\ \E f \in Services :
       /\ f # "enable" \/ ebda.hooked
       /\ cpu' = [cpu EXCEPT !.pc = "service", !.fn = f, !.if = FALSE,
                             !.steps = ServiceSteps(f)]
       /\ ebda' = IF f = "init" THEN [ebda EXCEPT !.count = 2, !.index = 0] ELSE ebda
       /\ hist' = Disturb([hist EXCEPT !.calls = @ + 1], "command", f = "init" /\ Midway)
  /\ UNCHANGED <<ctl, line, kbd, mouse, bda>>

\* Variant: the bit masked out is the keyboard's.
InhibitedKeys(b) == b - (IF Bit(b, 0) THEN 1 ELSE 0) + (IF Bit(b, 5) THEN 0 ELSE 32)

\* inhibit_mouse_int_and_events and enable_mouse_int_and_events take
\* whatever byte is shown for the command byte they asked for.
Inhibited(b) == b - (IF Bit(b, 1) THEN 2 ELSE 0) + (IF Bit(b, 5) THEN 0 ELSE 32)
Enabled(b)   == b + (IF Bit(b, 1) THEN 0 ELSE 2) - (IF Bit(b, 5) THEN 32 ELSE 0)
Next1 == [cpu EXCEPT !.steps = Tail(@)]
InService(step) ==
  /\ Running /\ cpu.pc = "service" /\ cpu.steps # <<>> /\ Head(cpu.steps) = step
  /\ NeedsEmpty(step) => ctl.in.to = "none"

AskCommandByte ==
  /\ InService("ask")
  /\ Write(PutKey(ctl, Byte(CommandByte(ctl), "reply")))
  /\ cpu' = Next1
  /\ UNCHANGED <<kbd, mouse, bda, ebda, hist>>
ChangeCommandByte ==
  /\ OutputFull(ctl)
  /\ \E step \in {"inhibit", "enable"} :
       /\ InService(step)
       /\ LET b == Shown(ctl).b
              new == SetCommandByte(Taken(ctl), IF step = "inhibit" THEN Inhibited(b) ELSE Enabled(b))
          IN  ctl' = new /\ line' = Lines(line, new, TRUE)
       /\ cpu' = [Next1 EXCEPT !.prev = Shown(ctl).b]
  /\ hist' = Reading("service", "reply")
  /\ UNCHANGED <<kbd, mouse, bda, ebda>>
RestoreCommandByte ==
  /\ InService("restore")
  /\ Write(SetCommandByte(ctl, cpu.prev))
  /\ cpu' = Next1
  /\ UNCHANGED <<kbd, mouse, bda, ebda, hist>>
SendToMouse ==
  /\ InService("send")
  /\ Write(ToMouse(ctl, ServiceByte(cpu.fn)))
  /\ cpu' = Next1
  /\ UNCHANGED <<kbd, mouse, bda, ebda, hist>>
GetMouseData ==
  /\ InService("get") /\ MouseData(ctl)
  /\ Read /\ hist' = Reading("service", "mouse")
  /\ cpu' = [Next1 EXCEPT !.got = Shown(ctl).b]
  /\ UNCHANGED <<kbd, mouse, bda, ebda>>
CheckAck ==
  /\ InService("acked")
  /\ cpu' = IF cpu.got = Ack THEN Next1 ELSE [cpu EXCEPT !.steps = <<>>]
  /\ UNCHANGED <<ctl, line, kbd, mouse, bda, ebda, hist>>
ServiceDone ==
  /\ Running /\ cpu.pc = "service" /\ cpu.steps = <<>>
  /\ ebda' = [ebda EXCEPT !.hooked = CASE cpu.fn = "hook" -> TRUE
                                      [] cpu.fn = "unhook" -> FALSE [] OTHER -> @]
  /\ cpu' = Return
  /\ UNCHANGED <<ctl, line, kbd, mouse, bda, hist>>

Service == AskCommandByte \/ ChangeCommandByte \/ RestoreCommandByte \/ SendToMouse
           \/ GetMouseData \/ CheckAck \/ ServiceDone
Keyboard == int16_key_found \/ SendLamps \/ LampsAnswered \/ LampsLit \/ DequeueKey \/ MoveHead
            \/ CheckKey \/ StoreKey \/ MoveTail \/ AskIdentity \/ PollIdentity

----------------------------------------------------------------------------
\* As the power-on code leaves it (keyboard_init wrote 65h), or with a mouse
\* driver loaded as well: it has called init, hook and enable.
Init == \E driver \in BOOLEAN :
  /\ ctl = [out |-> "none", kq |-> <<>>, mq |-> <<>>, irqKey |-> TRUE, irqMouse |-> driver,
            keyOff |-> FALSE, mouseOff |-> ~driver, mouseOffSeen |-> ~driver,
            translate |-> TRUE, in |-> [to |-> "none", b |-> 0]]
  /\ line = [high |-> {}, irr |-> {}, isr |-> {}]
  /\ kbd = [held |-> {}, rest |-> <<>>]
  /\ mouse = [on |-> driver, pos |-> 0]
  /\ bda = [shift |-> {}, flags |-> {}, state |-> {"mf101"}, led |-> {}, brk |-> FALSE,
            head |-> 0, tail |-> 0, buf |-> [i \in 0..Slots - 1 |-> BreakKey]]
  /\ ebda = [hooked |-> driver, count |-> IF driver THEN 2 ELSE 0, index |-> 0,
             data |-> [i \in 0..2 |-> 0]]
  /\ cpu = [pc |-> "run", fn |-> "none", if |-> TRUE, sti |-> FALSE, steps |-> <<>>, slot |-> 0,
            got |-> BreakKey, prev |-> 0, led |-> {}, on9 |-> "off", on74 |-> "off", key |-> 0]
  /\ hist = [keys |-> 0, moves |-> 0, calls |-> 0, queue |-> <<>>, raced |-> {},
             first |-> "none", packet |-> <<>>]
Next == Devices \/ Handlers \/ Int16 \/ Keyboard \/ Int15C2 \/ Service
\* The processor runs and a device answers what it is sent; nobody need type
\* or move the mouse.
System == DeviceAnswers \/ Handlers \/ Keyboard \/ Service
Spec == Init /\ [][Next]_vars /\ WF_vars(System)

----------------------------------------------------------------------------
Undisturbed == hist.first = "none"

\* The ring that INT 09h fills and INT 16h empties holds exactly the keys
\* accepted and not yet read, in order, a Ctrl-Break leaving its null key
\* alone, and goes on doing so after one of the races that lose a key.
BufferIsQueue == Contents(bda) = hist.queue

\* Waiting for a key and taking it is one step for the interrupt handler:
\* only a call that updated the lamps on the way, and so turned interrupts
\* on, can find the buffer emptied under it.
ReadIsAtomic == "read" \notin hist.raced

\* The 8042's status shows the mouse's bit while a key is in the buffer;
\* all the same neither interrupt handler is the first to take a byte that
\* was not sent for it, and every packet handed to the program's mouse handler
\* is the three bytes of one packet of the mouse, in order.
BytesReachReaders ==
  /\ hist.first \notin {"int09", "int74"}
  /\ Undisturbed /\ hist.packet # <<>> => hist.packet = [i \in 0..2 |-> i + 1]

\* With every byte processed, the flags agree with the keys held down.
HeldCodes == {k[1] : k \in kbd.held}
FlagsFollowKeys ==
  Undisturbed /\ ctl.kq = <<>> /\ kbd.rest = <<>> /\ cpu.on9 = "off" =>
    /\ "ctrl" \in bda.shift <=> 29 \in HeldCodes
    /\ "alt" \in bda.shift <=> 56 \in HeldCodes
    /\ "caps" \in bda.flags <=> 58 \in HeldCodes

\* The mouse services and the handlers leave the keyboard able to be heard.
KeyboardHeard ==
  Undisturbed => ctl.irqKey /\ ctl.translate /\ (ctl.keyOff => cpu.on9 # "off")

\* A call of a service that talks to a device comes back: the loops that
\* wait for an answer have no limit.
CallsEnd == cpu.pc \in {"service", "lamps", "lit", "poll"} ~> cpu.pc = "run"

=============================================================================
