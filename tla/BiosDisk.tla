------------------------------ MODULE BiosDisk ------------------------------
(***************************************************************************)
(* The disk services of the system BIOS: INT 13h for hard disks, CD-ROMs   *)
(* and the drive that a bootable CD-ROM emulates, the ATA and ATAPI driver *)
(* below them, and INT 19h/18h, which boot from them.  The driver polls the *)
(* channels of ide.v, behind which a host holds the images; it may be busy *)
(* for longer than the driver waits.                                       *)
(***************************************************************************)
EXTENDS Integers, Sequences

CONSTANTS Calls,      \* the calls a program makes
          Machines,   \* what is attached, how the CMOS is set, what is bootable
          Chunks,     \* sectors of 512 bytes a CD-ROM may deliver at once
          Retries,    \* the attempts of atapi_is_ready ...
          Longer,     \* ... while the drive says the disc is becoming ready
          MaxCalls,   \* bound: calls made
          MaxStalls   \* bound: waits that time out though the host will answer

ASSUME DiskAssumption ==
  /\ Retries \in Nat \ {0} /\ Longer \in Nat /\ Longer >= Retries /\ MaxCalls \in Nat /\ MaxStalls \in Nat
  /\ Chunks \subseteq Nat \ {0}

VARIABLES mach,   \* the machine
          ide,    \* the two channels
          host,   \* what the host is working on, by channel
          ebda,   \* the tables and the emulation, and the status byte [74]
          cpu,    \* where the program is
          call, ret,
          hist    \* history: what moved for this call, what was tried to boot
vars == <<mach, ide, host, ebda, cpu, call, ret, hist>>

None == 8            \* BX_MAX_ATA_DEVICES: no device
Channels == {0, 1}
Devices == 0..3
Sector == 512
Lba28 == 2^28
CountMod == 2^16

----------------------------------------------------------------------------
(* Detection: ata_detect numbers the devices by kind and works out the     *)
(* geometry the services show; hard_drive_post fills the tables of INT 41h *)
(* and 46h from the CMOS.                                                  *)

Kind(d) == mach.dev[d].kind
Pchs(d) == mach.dev[d].pchs
Total(d) == mach.dev[d].total
Limit(x, n) == IF x > n THEN n ELSE x
Capped(g) == [g EXCEPT !.c = Limit(@, 1024)]

\* Halved and doubled until the cylinders fit, or the heads are too many.
Large(g) ==
  LET fits(k) == g.c \div 2^k <= 1024 \/ (k > 0 /\ g.h * 2^k > 127)
      k == CHOOSE i \in 0..7 : fits(i) /\ \A j \in 0..(i - 1) : ~fits(j)
  IN  [g EXCEPT !.c = @ \div 2^k, !.h = @ * 2^k]
Rechs(g) ==
  IF g.h = 16 THEN [g EXCEPT !.c = (Limit(@, 61439) * 16) \div 15, !.h = 15] ELSE g
ByLba(total) ==
  LET tracks == total \div 63
      need == tracks \div 1024
      heads == IF need > 128 THEN 255
               ELSE CHOOSE h \in {16, 32, 64, 128} :
                      need <= h /\ \A k \in {16, 32, 64, 128} : need <= k => h <= k
  IN  [c |-> (tracks \div heads) % CountMod, h |-> heads, s |-> 63]
\* Variant: the cylinders are not capped.
LchsUncapped(d) ==
  CASE mach.dev[d].trans = "none" -> Pchs(d)
    [] mach.dev[d].trans = "lba" -> ByLba(Total(d))
    [] mach.dev[d].trans = "large" -> Large(Pchs(d))
    [] mach.dev[d].trans = "rechs" -> Large(Rechs(Pchs(d)))
Lchs(d) ==
  Capped(CASE mach.dev[d].trans = "none" -> Pchs(d)
           [] mach.dev[d].trans = "lba" -> ByLba(Total(d))
           [] mach.dev[d].trans = "large" -> Large(Pchs(d))
           [] mach.dev[d].trans = "rechs" -> Large(Rechs(Pchs(d))))

\* The fixed disk parameter table: heads are a byte.
Fdpt(g) ==
  LET k == IF g.c <= 1024 THEN 0 ELSE IF g.c <= 2048 THEN 1 ELSE IF g.c <= 4096 THEN 2
           ELSE IF g.c <= 8192 THEN 3 ELSE 4
  IN  [g EXCEPT !.c = @ \div 2^k, !.h = (@ * 2^k) % 256]
\* What the CMOS says of the two drives, and the tables of INT 41h and 46h made
\* of it: any other type than the one the host sets is a message and no more.
Blank == [c |-> 0, h |-> 0, s |-> 0]
FirstTable == IF mach.cmos[0].type = 15 THEN Fdpt(mach.cmos[0].chs) ELSE Blank
SecondTable == IF mach.cmos[1].type # 0 THEN Fdpt(mach.cmos[1].chs) ELSE Blank

----------------------------------------------------------------------------
(* A channel of ide.v and the host behind it.  `status` is busy, drq (data *)
(* wanted or there), ready, error, or nil (no bit set).                    *)

ChannelOf(d) == d \div 2
AtOr(n, zero) == IF n = 0 THEN zero ELSE n

\* A command register write: busy, and a request to the host.
Command(ch, task) ==
  [ch EXCEPT !.status = "busy", !.request = "new", !.task = task]
SoftReset(ch) == [ch EXCEPT !.status = "busy", !.request = "reset", !.last = FALSE]
\* The data register has been read or written to the end.
DataDone(ch) ==
  IF ch.last THEN [ch EXCEPT !.status = "ready", !.last = FALSE]
  ELSE [ch EXCEPT !.status = "busy", !.request = "data"]

\* The host takes a request as it stands ...
HostTakes(c) ==
  /\ ide[c].request # "none" /\ host[c].req = "none"
  /\ host' = [host EXCEPT ![c] = [req |-> ide[c].request, task |-> ide[c].task]]
  /\ UNCHANGED <<mach, ide, ebda, cpu, call, ret, hist>>

Readable(t) ==
  t.op = "identify" \/ (t.at < Total(t.dev) /\ t.at \notin mach.dev[t.dev].bad)
\* A sector to read or write, the last of a read completes by itself.
NextSector(t) ==
  IF t.left = 0 THEN [status |-> "ready", last |-> FALSE, units |-> 0]
  ELSE IF ~Readable(t) THEN [status |-> "error", last |-> FALSE, units |-> 0]
  ELSE [status |-> "drq", last |-> t.op # "write" /\ t.left = 1, units |-> 1]
\* What a CD-ROM says to a command it was given: a disc that is not in, or
\* has not been seen yet, is an error whose reason is asked for next.
Answers(t) ==
  CASE t.op = "packet" -> {[status |-> "drq", last |-> FALSE, units |-> 0]}
    [] t.op = "sense" -> {[status |-> IF t.left = 0 THEN "ready" ELSE "drq", last |-> FALSE,
                           units |-> t.left]}
    [] t.op = "capacity" -> {[status |-> IF ~mach.disc.in THEN "error"
                              ELSE IF t.left = 0 THEN "ready" ELSE "drq", last |-> FALSE,
                              units |-> t.left]}
    [] t.op = "read10" ->
         IF ~mach.disc.in \/ t.at + t.left > mach.disc.total * 4
         THEN {[status |-> "error", last |-> FALSE, units |-> 0]}
         ELSE IF t.left = 0 THEN {[status |-> "ready", last |-> FALSE, units |-> 0]}
         ELSE {[status |-> "drq", last |-> FALSE, units |-> Limit(k, t.left)] : k \in Chunks}
    [] OTHER -> {NextSector(t)}

\* ... and later writes the status, which withdraws whatever request is there.
HostAnswers(c) ==
  /\ host[c].req # "none"
  /\ host' = [host EXCEPT ![c] = [@ EXCEPT !.req = "none"]]
  /\ \E a \in IF host[c].req = "reset"
              THEN {[status |-> IF mach.dev[2 * c].kind = "ata" THEN "ready" ELSE "nil",
                     last |-> FALSE, units |-> 0]}
              ELSE Answers(host[c].task) :
       ide' = [ide EXCEPT ![c] = [@ EXCEPT !.status = a.status, !.last = a.last,
                 !.units = IF a.units = 0 THEN @ ELSE a.units,
                 !.request = "none", !.task = host[c].task]]
  /\ UNCHANGED <<mach, ebda, cpu, call, ret, hist>>

----------------------------------------------------------------------------
(* await_ide: the wait ends when the status is right, shows an error, or   *)
(* after its time.  `Seen` is what the driver reads next.                  *)

Pending(c) == ide[c].request # "none" \/ host[c].req # "none"
Met(c, wanted) == ide[c].status \in wanted \cup {"error"}
TimesOut(c, wanted) == ~Met(c, wanted) /\ (~Pending(c) \/ hist.stalls < MaxStalls)
Await(c, wanted) == Met(c, wanted) \/ TimesOut(c, wanted)
Waited(c, wanted, h) == IF ~Met(c, wanted) /\ Pending(c) THEN [h EXCEPT !.stalls = @ + 1] ELSE h
Refused(c) == ide[c].status = "busy"
NotBusy == {"drq", "ready", "nil"}

At(pc) == cpu.pc = pc
C == ChannelOf(cpu.req.dev)
Return(code) == cpu' = [cpu EXCEPT !.pc = "back", !.code = code]

----------------------------------------------------------------------------
(* The transfers.  `Store` records what they move: from which device, from  *)
(* which sector of 512 bytes on, to which address, and whether in one piece.*)

Store(dev, at, seg, off, n) ==
  LET to == seg * 16 + off
      whole == off + n * Sector <= 65536
      m == hist.moved
  IN  [hist EXCEPT !.moved =
         IF n = 0 THEN m
         ELSE IF m.n = 0 THEN [dev |-> dev, at |-> at, to |-> to, n |-> n, ok |-> whole]
         ELSE [m EXCEPT !.n = @ + n, !.ok = @ /\ whole /\ dev = m.dev /\ at = m.at + m.n
                                            /\ to = m.to + m.n * Sector]]

\* ata_cmd_data_io: a channel that is busy refuses; the count of a 48-bit
\* command is cut to its low byte for the loop as well.
Is48(r) == r.sector = 0 /\ (r.count \div 256 >= 1 \/ r.lba >= Lba28 - r.count)
AtaTask(r) ==
  LET g == Pchs(r.dev) IN
  [dev |-> r.dev, op |-> r.op,
   at |-> IF r.sector # 0 THEN (r.cyl * g.h + r.head) * g.s + r.sector - 1
          ELSE IF Is48(r) THEN r.lba ELSE r.lba % Lba28,
   left |-> IF Is48(r) THEN r.count ELSE AtOr(r.count % 256, 256)]
AtaIssue(r) ==
  /\ ide' = [ide EXCEPT ![C] = Command(@, AtaTask(r))]
  /\ cpu' = [cpu EXCEPT !.pc = "await", !.trsf = 0, !.count = IF Is48(r) THEN r.count % 256 ELSE r.count]
AtaStart ==
  /\ At("ata")
  /\ IF Refused(C) THEN ide' = ide /\ cpu' = [cpu EXCEPT !.pc = "back", !.code = 1, !.trsf = 0]
     ELSE AtaIssue(cpu.req)
  /\ UNCHANGED <<mach, host, ebda, call, ret, hist>>
AtaAwait ==
  /\ At("await") /\ Await(C, {"drq"})
  /\ hist' = Waited(C, {"drq"}, hist)
  /\ CASE ide[C].status = "drq" -> cpu' = [cpu EXCEPT !.pc = "data"]
       [] ide[C].status = "error" -> Return(2)
       [] OTHER -> Return(3)
  /\ UNCHANGED <<mach, ide, host, ebda, call, ret>>

\* Variant: the pointer wraps.
AdjustedNever(r) == r
\* The pointer is moved back by 2 KB where it would wrap.
Adjusted(r) == IF r.off > 63488 THEN [r EXCEPT !.off = @ - 2048, !.seg = @ + 128] ELSE r
AtaSector ==
  /\ At("data")
  /\ LET r == Adjusted(cpu.req)
         t == ide[C].task
     IN  /\ hist' = Store(t.dev, t.at, r.seg, r.off, 1)
         /\ cpu' = [cpu EXCEPT !.pc = "more", !.trsf = (@ + 1) % 256,
                      !.count = (@ + CountMod - 1) % CountMod,
                      !.req = [r EXCEPT !.off = @ + Sector]]
         /\ ide' = [ide EXCEPT ![C] = [DataDone(@) EXCEPT !.task.at = @ + 1, !.task.left = @ - 1]]
  /\ UNCHANGED <<mach, host, ebda, call, ret>>
AtaMore ==
  /\ At("more") /\ Await(C, NotBusy)
  /\ hist' = Waited(C, NotBusy, hist)
  /\ LET st == ide[C].status
         code == IF cpu.req.op = "write" THEN 6 ELSE 4
     IN  IF cpu.count = 0 THEN Return(IF st = "ready" THEN 0 ELSE code)
         ELSE IF st = "drq" THEN cpu' = [cpu EXCEPT !.pc = "data"] ELSE Return(code + 1)
  /\ UNCHANGED <<mach, ide, host, ebda, call, ret>>

\* ata_cmd_packet.
PacketStart ==
  /\ At("packet")
  /\ IF Refused(C) THEN ide' = ide /\ cpu' = [cpu EXCEPT !.pc = "back", !.code = 2, !.trsf = 0]
     ELSE /\ ide' = [ide EXCEPT ![C] = [Command(@, [dev |-> cpu.req.dev, op |-> "packet",
                                                    at |-> 0, left |-> 0]) EXCEPT !.units = 127]]
          /\ cpu' = [cpu EXCEPT !.pc = "ask", !.trsf = 0]
  /\ UNCHANGED <<mach, host, ebda, call, ret, hist>>
PacketAsk ==
  /\ At("ask") /\ Await(C, {"drq"})
  /\ hist' = Waited(C, {"drq"}, hist)
  /\ CASE ide[C].status = "drq" ->
            /\ cpu' = [cpu EXCEPT !.pc = "first"]
            /\ ide' = [ide EXCEPT ![C] = [DataDone(@) EXCEPT
                         !.task = [dev |-> cpu.req.dev, op |-> cpu.req.op,
                                   at |-> cpu.req.lba * 4, left |-> cpu.req.units]]]
       [] ide[C].status = "error" -> Return(3) /\ UNCHANGED ide
       [] OTHER -> Return(4) /\ UNCHANGED ide
  /\ UNCHANGED <<mach, host, ebda, call, ret>>

\* A part of the data: what comes before the header's end and what comes
\* after the length is read and dropped.  A wait that timed out is not
\* noticed: the count is as it was and the data register reads as zero.
Taken(r, units) ==
  LET before == Limit(r.header, units)
  IN  [r |-> [r EXCEPT !.header = @ - before], before |-> before,
       n |-> Limit(units - before, r.length)]
Wait(pc) == IF pc = "first" THEN {"drq"} ELSE NotBusy
PacketPart ==
  /\ cpu.pc \in {"first", "next"} /\ Await(C, Wait(cpu.pc))
  /\ LET st == ide[C].status
         t == ide[C].task
         units == ide[C].units
         p == Taken(cpu.req, units)
         seg == cpu.req.seg + cpu.req.off \div 16
         off == cpu.req.off % 16
     IN  \/ /\ st \in {"ready", "error"}
            /\ Return(IF st = "ready" THEN 0 ELSE 3)
            /\ hist' = Waited(C, Wait(cpu.pc), hist) /\ UNCHANGED ide
         \/ /\ st \notin {"ready", "error"}
            /\ cpu' = [cpu EXCEPT !.pc = "next", !.trsf = @ + p.n,
                 !.req = [p.r EXCEPT !.length = @ - p.n, !.seg = seg, !.off = off + p.n * Sector]]
            /\ hist' = [Waited(C, Wait(cpu.pc), Store(t.dev, t.at + p.before, seg, off, p.n))
                          EXCEPT !.zeros = @ \/ st # "drq"]
            /\ ide' = IF st # "drq" THEN ide
                      ELSE [ide EXCEPT ![C] = [DataDone(@) EXCEPT !.task.at = @ + units,
                                                                  !.task.left = @ - units]]
  /\ UNCHANGED <<mach, host, ebda, call, ret>>

\* ata_reset, which waits until the channel is not busy, or long enough.
Reset ==
  /\ At("reset")
  /\ ide' = [ide EXCEPT ![C] = SoftReset(@)]
  /\ cpu' = [cpu EXCEPT !.pc = "rest"]
  /\ UNCHANGED <<mach, host, ebda, call, ret, hist>>
Rested ==
  /\ At("rest") /\ Await(C, NotBusy)
  /\ hist' = Waited(C, NotBusy, hist)
  /\ Return(0)
  /\ UNCHANGED <<mach, ide, host, ebda, call, ret>>

----------------------------------------------------------------------------
(* A transfer of a service: what it is for, and nothing moved yet.         *)

Nothing == [dev |-> None, at |-> 0, to |-> 0, n |-> 0, ok |-> TRUE]
Begin(pc, then, r) ==
  /\ cpu' = [cpu EXCEPT !.pc = pc, !.then = then, !.req = r]
  /\ hist' = [hist EXCEPT !.moved = Nothing, !.zeros = FALSE]
Came(then) == At("back") /\ cpu.then = then
Stack == 61440
AtaRequest(dev, op, count, lba, seg, off) ==
  [dev |-> dev, op |-> op, count |-> count, sector |-> 0, cyl |-> 0, head |-> 0,
   lba |-> lba, seg |-> seg, off |-> off]
Packet(dev, op, lba, units, header, length, seg, off) ==
  [dev |-> dev, op |-> op, lba |-> lba, units |-> units, header |-> header,
   length |-> length, seg |-> seg, off |-> off]
Small(dev, op) == Packet(dev, op, 0, 1, 0, 1, 0, Stack)
Block(dev, lba) == Packet(dev, "read10", lba, 4, 0, 4, 0, Stack)

\* POST: hard_drive_post fills the tables and forgets the last status.
HardDrivePost ==
  /\ At("post")
  /\ ebda' = [ebda EXCEPT !.table = <<FirstTable, SecondTable>>, !.status = 0]
  /\ cpu' = [cpu EXCEPT !.pc = "detect"]
  /\ UNCHANGED <<mach, ide, host, call, ret, hist>>
\* ... and then ata_detect resets and identifies the devices one after the other.
Detect ==
  /\ At("detect")
  /\ IF cpu.dev \notin Devices
     THEN cpu' = [cpu EXCEPT !.pc = "int19", !.seq = 0] /\ UNCHANGED hist
     ELSE IF Kind(cpu.dev) = "none"
     THEN cpu' = [cpu EXCEPT !.dev = @ + 1] /\ UNCHANGED hist
     ELSE Begin("reset", "detect", AtaRequest(cpu.dev, "identify", 1, 0, 0, Stack))
  /\ UNCHANGED <<mach, ide, host, ebda, call, ret>>
Identify ==
  /\ Came("detect")
  /\ Begin("ata", "identify", cpu.req)
  /\ UNCHANGED <<mach, ide, host, ebda, call, ret>>
Identified ==
  /\ Came("identify")
  /\ IF cpu.code # 0 THEN cpu' = [cpu EXCEPT !.pc = "panic"] /\ UNCHANGED ebda
     ELSE /\ cpu' = [cpu EXCEPT !.pc = "detect", !.dev = @ + 1]
          /\ ebda' = IF Kind(cpu.dev) = "ata"
                     THEN [ebda EXCEPT !.hd = Append(@, cpu.dev), !.hdcount = @ + 1]
                     ELSE [ebda EXCEPT !.cd = Append(@, cpu.dev)]
  /\ UNCHANGED <<mach, ide, host, call, ret, hist>>

----------------------------------------------------------------------------
(* INT 13h.  A service answers with AH, AL, the carry and what it tells;   *)
(* the status byte keeps AH for function 01h.                              *)

NoAnswer == [ah |-> 0, al |-> 0, cf |-> FALSE, out |-> <<>>]
Says(ah, al, cf, status, out) ==
  /\ ret' = [ah |-> ah, al |-> al, cf |-> cf, out |-> out]
  /\ ebda' = [ebda EXCEPT !.status = status]
  /\ cpu' = [cpu EXCEPT !.pc = IF cpu.boot THEN "loaded" ELSE "idle"]
  /\ UNCHANGED hist
Fails(ah, al) == Says(ah, al, TRUE, ah, <<>>)
Succeeds(al) == Says(0, al, FALSE, 0, <<>>)
Tells(ah, out) == Says(ah, call.al, FALSE, 0, out)
\* Function 01h, the status byte then being cleared.
LastStatus(status) == Says(status, call.al, status # 0, 0, <<>>)

\* The relocated entry: the calls of the emulation, the emulated drive, or
\* a real drive, whose number is one more while its class is emulated.
Class(dl) == (dl \div 32) * 32
Eldl == IF ebda.active /\ Class(call.dl) = ebda.drive THEN call.dl - 1 ELSE call.dl
Route ==
  IF call.fn \in {"4A", "4B", "4C", "4D"} THEN "eltorito"
  ELSE IF ebda.active /\ call.dl = ebda.drive THEN "emu"
  ELSE IF Eldl < 128 THEN "floppy" ELSE IF Eldl < 224 THEN "hd" ELSE "cd"
Enter(route) ==
  At("int13") /\ Route = route /\ UNCHANGED <<mach, ide, host, call>>
Mapped(map, n) == IF n < Len(map) THEN map[n + 1] ELSE None
Hardware == IF call.al \in {1, 3, 4, 6} THEN Succeeds(call.al) ELSE Fails(1, call.al)

\* Geometry as function 08h packs it into CX and DH.
Packed(g) == [c |-> ((g.c - 1) % 1024) + 1, h |-> ((g.h - 1) % 256) + 1, s |-> g.s % 64]
\* int13_edd: the size it says it filled, and the sectors.
Edd(sectors) ==
  IF call.size < 26 THEN Fails(1, call.al)
  ELSE Says(0, call.al, FALSE, 0, <<"edd", IF call.size < 30 THEN 26 ELSE 30, sectors>>)

HdDevice == Mapped(ebda.hd, Eldl - 128)
\* Variant: the last cylinder is out of range.
HdOutLast(lchs) == call.c >= lchs.c - 1 \/ call.h >= lchs.h \/ call.s > lchs.s
HdOut(lchs) == call.c >= lchs.c \/ call.h >= lchs.h \/ call.s > lchs.s
HdChs(d) ==
  LET g == Lchs(d)
      r == AtaRequest(d, IF call.fn = "02" THEN "read" ELSE "write", call.al,
                      (call.c * g.h + call.h) * g.s + call.s - 1, call.seg, call.off)
  IN  IF Pchs(d).h # g.h \/ Pchs(d).s # g.s THEN r
      ELSE [r EXCEPT !.sector = call.s, !.cyl = call.c, !.head = call.h]
HdBasic ==
  /\ Enter("hd")
  /\ LET d == HdDevice
         g == Lchs(d)
     IN  \/ d = None /\ Fails(1, call.al)
         \/ d # None /\ call.fn = "00" /\ UNCHANGED <<ebda, ret>>
            /\ Begin("reset", "hd", AtaRequest(d, "read", 0, 0, 0, 0))
         \/ d # None /\ call.fn = "01" /\ LastStatus(ebda.status)
         \/ /\ d # None /\ call.fn \in {"02", "03", "04"}
            /\ IF call.al > 128 \/ call.al = 0 \/ call.s = 0 \/ HdOut(g) THEN Fails(1, call.al)
               ELSE IF call.fn = "04" THEN Succeeds(call.al)
               ELSE Begin("ata", "hd", HdChs(d)) /\ UNCHANGED <<ebda, ret>>
         \/ d # None /\ call.fn = "08" /\ Tells(0, <<"geometry", d, Packed(g), ebda.hdcount>>)
         \/ /\ d # None /\ call.fn = "10"
            /\ IF ide[ChannelOf(d)].status \in {"busy", "nil"} THEN Fails(170, call.al)
               ELSE Succeeds(call.al)
         \/ d # None /\ call.fn = "15" /\ Tells(3, <<"size", d, (g.c - 1) * g.h * g.s>>)
         \/ d # None /\ call.fn \in {"05", "09", "0C", "0D", "11", "14"} /\ Succeeds(call.al)

\* Only where the sectors start is checked.
HdExtended ==
  /\ Enter("hd") /\ HdDevice # None
  /\ LET d == HdDevice
     IN  \/ call.fn = "41" /\ Tells(48, <<>>)
         \/ /\ call.fn \in {"42", "43", "44", "47"}
            /\ IF call.high > 0 \/ call.lba >= Total(d) THEN Fails(1, call.al)
               ELSE IF call.fn \in {"44", "47"} THEN Succeeds(call.al)
               ELSE /\ Begin("ata", "hd", AtaRequest(d, IF call.fn = "42" THEN "read" ELSE "write",
                                                     call.count, call.lba, call.seg, call.off))
                    /\ UNCHANGED <<ebda, ret>>
         \/ call.fn \in {"45", "49"} /\ Succeeds(call.al)
         \/ call.fn = "46" /\ Fails(178, call.al)
         \/ call.fn = "48" /\ Edd(Total(d))
         \/ call.fn = "4E" /\ Hardware
         \/ call.fn \in {"0A", "0B", "18", "50"} /\ Fails(1, call.al)
HdDone ==
  /\ Came("hd")
  /\ IF call.fn = "00" THEN Succeeds(call.al)
     ELSE IF cpu.code # 0 THEN Fails(12, cpu.trsf) ELSE Succeeds(cpu.trsf)
  /\ UNCHANGED <<mach, ide, host, call>>

\* The status byte is cleared before it is looked at.
CdDevice == Mapped(ebda.cd, Eldl - 224)
Lock(d) ==
  LET locks == ebda.lock[d]
      to(n) == /\ ebda' = [ebda EXCEPT !.status = 0, !.lock[d] = n]
               /\ ret' = [ah |-> 0, al |-> IF n = 0 THEN 0 ELSE 1, cf |-> FALSE, out |-> <<>>]
               /\ cpu' = [cpu EXCEPT !.pc = "idle"] /\ UNCHANGED hist
  IN  CASE call.al > 2 -> Fails(1, call.al)
        [] call.al = 0 -> IF locks = 255 THEN Fails(180, 1) ELSE to(locks + 1)
        [] call.al = 1 -> IF locks = 0 THEN Fails(176, 0) ELSE to(locks - 1)
        [] call.al = 2 -> to(locks)
CdRom ==
  /\ Enter("cd")
  /\ LET d == CdDevice
     IN  \/ d = None /\ Fails(1, call.al)
         \/ d # None /\ call.fn \in {"00", "09", "0C", "0D", "10", "11", "14", "16"} /\ Succeeds(call.al)
         \/ d # None /\ call.fn \in {"03", "05", "43"} /\ Fails(3, call.al)
         \/ d # None /\ call.fn = "01" /\ LastStatus(0)
         \/ d # None /\ call.fn = "15" /\ Fails(2, call.al)
         \/ d # None /\ call.fn = "41" /\ Tells(48, <<>>)
         \/ /\ d # None /\ call.fn \in {"42", "44", "47"}
            /\ IF call.high # 0 THEN cpu' = [cpu EXCEPT !.pc = "panic"] /\ UNCHANGED <<ebda, ret, hist>>
               ELSE IF call.fn # "42" THEN Succeeds(call.al)
               ELSE Begin("packet", "cd", Packet(d, "read10", call.lba, call.count * 4, 0,
                                                 call.count * 4, call.seg, call.off))
                    /\ UNCHANGED <<ebda, ret>>
         \/ d # None /\ call.fn = "45" /\ Lock(d)
\* Ejecting asks INT 15h AH=52h, which has nothing against it.
CdOther ==
  /\ Enter("cd") /\ CdDevice # None
  /\ \/ /\ call.fn = "46"
        /\ IF ebda.lock[CdDevice] # 0 THEN Fails(177, call.al) ELSE Succeeds(call.al)
     \/ call.fn = "48" /\ Edd(0)
     \/ call.fn = "49" /\ Says(6, call.al, TRUE, 0, <<>>)
     \/ call.fn = "4E" /\ Hardware
     \/ call.fn \in {"02", "04", "08", "0A", "0B", "18", "50"} /\ Fails(1, call.al)
CdDone ==
  /\ Came("cd")
  /\ IF cpu.code # 0 THEN Fails(12, cpu.trsf \div 4) ELSE Succeeds(cpu.trsf \div 4)
  /\ UNCHANGED <<mach, ide, host, call>>

\* The emulated drive: sectors of an image on the CD-ROM.
Vlba == (call.c * ebda.v.h + call.h) * ebda.v.s + call.s - 1
CdEmu ==
  /\ Enter("emu")
  /\ \/ call.fn \in {"00", "09", "0C", "0D", "10", "11", "14", "16"} /\ Succeeds(call.al)
     \/ call.fn \in {"03", "05"} /\ Fails(3, call.al)
     \/ call.fn = "01" /\ LastStatus(0)
     \/ /\ call.fn \in {"02", "04"}
        /\ IF call.al = 0 THEN Succeeds(call.al)
           ELSE IF call.s > ebda.v.s \/ call.c >= ebda.v.c \/ call.h >= ebda.v.h THEN Fails(1, call.al)
           ELSE IF call.fn = "04" THEN Succeeds(call.al)
           ELSE /\ Begin("packet", "emu",
                     Packet(ebda.edev, "read10", ebda.ilba + Vlba \div 4,
                            4 * ((Vlba + call.al - 1) \div 4 - Vlba \div 4 + 1), Vlba % 4, call.al,
                            call.seg + call.off \div 16, call.off % 16))
                /\ UNCHANGED <<ebda, ret>>
\* The calls that do not touch the disc.
CdEmuOther ==
  /\ Enter("emu")
  /\ \/ call.fn = "08" /\ Says(0, 0, FALSE, 0, <<"emulated", Packed(ebda.v)>>)
     \/ call.fn = "15" /\ Tells(3, <<>>)
     \/ /\ call.fn \in {"0A", "0B", "18", "41", "42", "43", "44", "45", "46", "47", "48", "49", "4E", "50"}
        /\ Fails(1, call.al)
EmuDone ==
  /\ Came("emu")
  /\ IF cpu.code # 0 THEN Fails(2, 0) ELSE Succeeds(call.al)
  /\ UNCHANGED <<mach, ide, host, call>>

ElTorito ==
  /\ Enter("eltorito") /\ UNCHANGED hist
  /\ IF call.fn # "4B" THEN cpu' = [cpu EXCEPT !.pc = "panic"] /\ UNCHANGED <<ebda, ret>>
     ELSE /\ ebda' = [ebda EXCEPT !.status = 0, !.active = @ /\ call.al # 0]
          /\ ret' = [ah |-> 0, al |-> call.al, cf |-> FALSE, out |-> <<"packet", ebda.media, ebda.drive>>]
          /\ cpu' = [cpu EXCEPT !.pc = "idle"]

\* The diskette services; all that matters here is the boot sector.
Diskette == 9
Floppy ==
  /\ Enter("floppy")
  /\ LET cf == mach.floppy = "none" IN
     /\ ret' = [ah |-> IF cf THEN 128 ELSE 0, al |-> call.al, cf |-> cf, out |-> <<>>]
     /\ cpu' = [cpu EXCEPT !.pc = IF cpu.boot THEN "loaded" ELSE "idle"]
     /\ hist' = [hist EXCEPT !.moved = [Nothing EXCEPT !.dev = Diskette]]
  /\ UNCHANGED ebda

----------------------------------------------------------------------------
(* INT 19h tries the devices in the order of the CMOS, each failure and    *)
(* each INT 18h of what was booted going on with the next.                 *)

\* The IPL table of init_boot_vectors, and get_boot_vector.
IplTable == <<"floppy", "harddisk", "cdrom">>
GetBootVector(i) == IF i \in DOMAIN IplTable THEN IplTable[i] ELSE "none"
Choice == IF ebda.first # 0 THEN ebda.first ELSE IF cpu.seq < 3 THEN mach.order[cpu.seq + 1] ELSE 0
BootCall(dl) ==
  [fn |-> "02", al |-> 1, dl |-> dl, c |-> 0, h |-> 0, s |-> 1, lba |-> 0, high |-> 0,
   count |-> 0, seg |-> 1984, off |-> 0, size |-> 0]
\* Variant: the choice is not forgotten.
SequenceKept == ebda
Sequence == [ebda EXCEPT !.first = 0]
Int19 ==
  /\ At("int19")
  /\ ebda' = Sequence
  /\ LET seq == IF ebda.first # 0 THEN CountMod - 1 ELSE cpu.seq
         kind == GetBootVector(Choice)
         there == [hist EXCEPT !.tried = Append(@, Choice),
                               !.emu = IF ebda.active THEN @ \cup {Len(hist.tried) + 1} ELSE @,
                               !.moved = Nothing, !.zeros = FALSE]
     IN  \/ Choice = 0 /\ cpu' = [cpu EXCEPT !.pc = "panic"] /\ UNCHANGED <<call, hist>>
         \/ /\ Choice # 0 /\ (kind = "none" \/ (kind = "cdrom" /\ ebda.cd = <<>>))
            /\ cpu' = [cpu EXCEPT !.pc = "int18", !.seq = seq] /\ UNCHANGED call /\ hist' = there
         \/ /\ kind \in {"floppy", "harddisk"}
            /\ cpu' = [cpu EXCEPT !.pc = "int13", !.seq = seq, !.boot = TRUE]
            /\ call' = BootCall(IF kind = "floppy" THEN 0 ELSE 128) /\ hist' = there
         \/ /\ kind = "cdrom" /\ ebda.cd # <<>>
            /\ cpu' = [cpu EXCEPT !.pc = "packet", !.seq = seq, !.then = "capacity",
                         !.tries = 0, !.limit = Retries, !.req = Small(Head(ebda.cd), "capacity")]
            /\ UNCHANGED call /\ hist' = there
  /\ UNCHANGED <<mach, ide, host, ret>>
Int18 ==
  /\ At("int18")
  /\ cpu' = [cpu EXCEPT !.pc = "int19", !.seq = (@ + 1) % CountMod, !.boot = FALSE]
  /\ UNCHANGED <<mach, ide, host, ebda, call, ret, hist>>

Signed == IF hist.moved.dev = Diskette THEN mach.floppy = "boot" ELSE mach.dev[hist.moved.dev].boot
Boots(h) == [h EXCEPT !.booted = @ \cup {[try |-> Len(h.tried), dev |-> h.moved.dev]}]
SignatureRight(choice) == (choice = 1 /\ ~mach.check) \/ Signed
Loaded ==
  /\ At("loaded")
  /\ IF ~ret.cf /\ SignatureRight(hist.tried[Len(hist.tried)])
     THEN cpu' = [cpu EXCEPT !.pc = "idle", !.boot = FALSE] /\ hist' = Boots(hist)
     ELSE cpu' = [cpu EXCEPT !.pc = "int18"] /\ UNCHANGED hist
  /\ UNCHANGED <<mach, ide, host, ebda, call, ret>>

\* cdrom_boot.  What READ CAPACITY says is not used, nor that it failed.
BootStep(then, r) == Begin("packet", then, r) /\ UNCHANGED ebda
BootFailed == cpu' = [cpu EXCEPT !.pc = "int18"] /\ UNCHANGED <<ebda, hist>>
CdReady ==
  /\ Came("capacity")
  /\ IF cpu.code = 0 THEN BootStep("volume", Block(cpu.req.dev, 17))
     ELSE BootStep("sense", Small(cpu.req.dev, "sense"))
  /\ UNCHANGED <<mach, ide, host, call, ret>>
\* Variant: the attempts are not counted.
UncountedAttempt == [cpu EXCEPT !.limit = IF mach.disc.reason = "becoming" THEN Longer ELSE @]
Attempt == [cpu EXCEPT !.tries = @ + 1,
              !.limit = IF cpu.code = 0 /\ mach.disc.reason = "becoming" THEN Longer ELSE @]
CdSense ==
  /\ Came("sense") /\ UNCHANGED <<mach, ide, host, ebda, call, ret>>
  /\ hist' = [hist EXCEPT !.moved = Nothing, !.zeros = FALSE]
  /\ LET next == Attempt IN
     IF (cpu.code = 0 /\ mach.disc.reason = "absent") \/ next.tries >= next.limit
     THEN cpu' = [cpu EXCEPT !.pc = "packet", !.then = "volume", !.req = Block(cpu.req.dev, 17)]
     ELSE cpu' = [next EXCEPT !.pc = "packet", !.then = "capacity", !.req = Small(cpu.req.dev, "capacity")]
Good(part) == cpu.code = 0 /\ ~hist.zeros /\ part
CdVolume ==
  /\ Came("volume")
  /\ IF Good(mach.disc.volume) THEN BootStep("catalog", Block(cpu.req.dev, mach.disc.cat)) ELSE BootFailed
  /\ UNCHANGED <<mach, ide, host, call, ret>>
CdCatalog ==
  /\ Came("catalog")
  /\ LET m == mach.disc.media
         d == cpu.req.dev
         nb == mach.disc.nb
     IN  IF ~Good(mach.disc.catalog) THEN BootFailed
         ELSE /\ ebda' = [ebda EXCEPT !.media = m, !.edev = d, !.ilba = mach.disc.lba,
                            !.drive = IF m = 0 THEN 224 ELSE IF m < 4 THEN 0 ELSE 128]
              /\ Begin("packet", "image", Packet(d, "read10", mach.disc.lba, 4 * (1 + (nb - 1) \div 4), 0,
                                                 nb, mach.disc.seg, 0))
  /\ UNCHANGED <<mach, ide, host, call, ret>>
Emulate ==
  LET m == ebda.media IN
  IF m = 0 THEN ebda
  ELSE [ebda EXCEPT !.active = TRUE, !.v = mach.disc.v, !.hdcount = IF m = 4 THEN @ + 1 ELSE @]
CdImage ==
  /\ Came("image")
  /\ IF cpu.code # 0 THEN BootFailed
     ELSE ebda' = Emulate /\ cpu' = [cpu EXCEPT !.pc = "idle"] /\ hist' = Boots(hist)
  /\ UNCHANGED <<mach, ide, host, call, ret>>

----------------------------------------------------------------------------
(* What was booted: it calls, or it gives up.                              *)

Call(k) ==
  /\ At("idle") /\ hist.calls < MaxCalls
  /\ call' = k
  /\ cpu' = [cpu EXCEPT !.pc = "int13"]
  /\ ret' = NoAnswer
  /\ hist' = [hist EXCEPT !.calls = @ + 1, !.moved = Nothing, !.zeros = FALSE]
  /\ UNCHANGED <<mach, ide, host, ebda>>
GivesUp ==
  /\ At("idle") /\ hist.calls < MaxCalls
  /\ cpu' = [cpu EXCEPT !.pc = "int18"]
  /\ hist' = [hist EXCEPT !.calls = @ + 1, !.moved = Nothing, !.zeros = FALSE]
  /\ call' = BootCall(0) /\ ret' = NoAnswer
  /\ UNCHANGED <<mach, ide, host, ebda>>

----------------------------------------------------------------------------
NoTask == [dev |-> 0, op |-> "none", at |-> 0, left |-> 0]
Init ==
  /\ mach \in Machines
  /\ ide = [c \in Channels |-> [status |-> "nil", request |-> "none", task |-> NoTask,
                                last |-> FALSE, units |-> 0]]
  /\ host = [c \in Channels |-> [req |-> "none", task |-> NoTask]]
  /\ ebda = [hd |-> <<>>, cd |-> <<>>, hdcount |-> 0, status |-> 0, lock |-> [d \in Devices |-> 0],
             table |-> <<Blank, Blank>>, first |-> mach.first, active |-> FALSE, drive |-> 0, edev |-> 0, media |-> 0, ilba |-> 0,
             v |-> Blank]
  /\ cpu = [pc |-> "post", req |-> AtaRequest(0, "identify", 0, 0, 0, 0), count |-> 0, trsf |-> 0,
            code |-> 0, then |-> "none", tries |-> 0, limit |-> 0, dev |-> 0, seq |-> 0, boot |-> FALSE]
  /\ call = BootCall(0)
  /\ ret = NoAnswer
  /\ hist = [moved |-> Nothing, zeros |-> FALSE, stalls |-> 0, calls |-> 0,
             tried |-> <<>>, emu |-> {}, booted |-> {}]

Driver ==
  \/ AtaStart \/ AtaAwait \/ AtaSector \/ AtaMore
  \/ PacketStart \/ PacketAsk \/ PacketPart \/ Reset \/ Rested
Services ==
  \/ HdBasic \/ HdExtended \/ HdDone \/ CdRom \/ CdOther \/ CdDone \/ CdEmu \/ CdEmuOther \/ EmuDone \/ ElTorito \/ Floppy
Boot ==
  \/ HardDrivePost \/ Detect \/ Identify \/ Identified \/ Int19 \/ Int18 \/ Loaded
  \/ CdReady \/ CdSense \/ CdVolume \/ CdCatalog \/ CdImage
Steps == Driver \/ Services \/ Boot \/ \E c \in Channels : HostTakes(c) \/ HostAnswers(c)
Next == Steps \/ (\E k \in Calls : Call(k)) \/ GivesUp
\* The driver runs, and the host answers what it was asked.
Spec == Init /\ [][Next]_vars /\ WF_vars(Steps)

----------------------------------------------------------------------------
(* Properties.                                                             *)

\* What a transfer is asked for: from where on the disk, to which address.
Asked ==
  LET to == call.seg * 16 + call.off
      chs(g) == (call.c * g.h + call.h) * g.s + call.s - 1
  IN  CASE Route = "emu" -> [dev |-> ebda.edev, at |-> ebda.ilba * 4 + chs(ebda.v), to |-> to, n |-> call.al]
        [] Route = "cd" -> [dev |-> CdDevice, at |-> call.lba * 4, to |-> to, n |-> call.count * 4]
        [] Route = "hd" /\ call.fn \in {"02", "03"} ->
             [dev |-> HdDevice, at |-> chs(Lchs(HdDevice)), to |-> to, n |-> call.al]
        [] OTHER -> [dev |-> HdDevice, at |-> call.lba, to |-> to, n |-> call.count]
Answers13 == cpu'.pc # "back" /\ cpu.pc = "back" /\ cpu.then \in {"hd", "cd", "emu"} /\ call.fn # "00"

\* A transfer service that answers has moved the sectors it was asked for, in
\* order, from the right device and to consecutive addresses, none of them past
\* the end of its segment: all of them if it reports success, and in a failure
\* of a hard disk as many as it reports, whatever an earlier call that failed
\* or timed out left on the channel.  (A packet whose waits time out is
\* excepted: see PacketPart.)
TransfersFaithful ==
  [][Answers13 /\ ~hist.zeros =>
       LET m == hist.moved
           a == Asked
       IN  /\ m.n <= a.n /\ (ret'.cf \/ m.n = a.n)
           /\ m.n > 0 => m.ok /\ m.dev = a.dev /\ m.at = a.at /\ m.to = a.to
           /\ Route = "hd" => ret'.al = m.n]_vars

\* A transfer of one to 255 sectors that are there and readable succeeds when
\* no wait times out, whatever the calls before it were: a sector at the edge
\* of 28 bits, a buffer at the end of its segment, a channel left with data.
Transfers ==
  CASE Route = "emu" -> call.fn = "02"
    [] Route = "cd" -> CdDevice # None /\ call.fn = "42"
    [] Route = "hd" -> HdDevice # None /\ call.fn \in {"02", "03", "42", "43"}
    [] OTHER -> FALSE
InGeometry ==
  LET g == IF Route = "emu" THEN ebda.v ELSE Lchs(HdDevice)
  IN  call.fn \in {"02", "03"} => call.s \in 1..g.s /\ call.c < g.c /\ call.h < g.h /\ call.al <= 128
Servable(a) ==
  /\ call.high = 0 /\ a.n \in 1..255 /\ InGeometry
  /\ IF Kind(a.dev) = "ata"
     THEN a.at + a.n <= Total(a.dev) /\ \A i \in 0..(a.n - 1) : a.at + i \notin mach.dev[a.dev].bad
     ELSE mach.disc.in /\ a.at + a.n <= mach.disc.total * 4
GoodTransfersSucceed ==
  [][Answers13 \/ (cpu.pc = "int13" /\ cpu'.pc \in {"idle", "loaded"})
       => (Transfers /\ hist.stalls = 0 /\ Servable(Asked) => ~ret'.cf)]_vars

\* The devices are tried in the order of the setup, one chosen by hand coming
\* first and once, and each is booted from exactly if it can be, from the
\* device the entry means, unless a wait timed out or a CD-ROM booted before
\* still stands in for the drive.
Right(choice) == IF choice = 1 THEN Diskette ELSE IF choice = 2 THEN Head(ebda.hd) ELSE Head(ebda.cd)
CanBoot(choice) ==
  CASE choice = 1 -> mach.floppy = "boot" \/ (mach.floppy = "data" /\ ~mach.check)
    [] choice = 2 -> ebda.hd # <<>> /\ mach.dev[ebda.hd[1]].boot /\ 0 \notin mach.dev[ebda.hd[1]].bad
    [] choice = 3 -> ebda.cd # <<>> /\ mach.disc.in /\ mach.disc.volume /\ mach.disc.catalog
    [] OTHER -> FALSE
BootsInOrder ==
  LET order == IF mach.first = 0 THEN mach.order ELSE <<mach.first>> \o mach.order
      finished(i) == i < Len(hist.tried) \/ cpu.pc \in {"idle", "int18"}
  IN  \A i \in DOMAIN hist.tried :
        /\ hist.tried[i] = order[i]
        /\ hist.stalls = 0 /\ finished(i) /\ i \notin hist.emu =>
             {b \in hist.booted : b.try = i} =
               IF CanBoot(order[i]) THEN {[try |-> i, dev |-> Right(order[i])]} ELSE {}

\* The geometry function 08h gives is one a program can use: every address in
\* it is accepted and on the disk, and it is not smaller than the size that
\* function 15h gives.  A disk that needs no translation, or is set to LARGE
\* and has up to 8192 cylinders, has the same geometry in the table of INT 41h
\* or 46h.
SameEverywhere(d) ==
  \/ mach.dev[d].trans = "large" /\ Pchs(d).c <= 8192
  \/ mach.dev[d].trans = "none" /\ Pchs(d).c <= 1024
GeometryUsable ==
  /\ ret.out # <<>> /\ ret.out[1] = "geometry" =>
       LET d == ret.out[2]
           g == ret.out[3]
       IN  /\ g = Lchs(d) /\ g.c * g.h * g.s <= Total(d)
           /\ d \in {0, 1} /\ SameEverywhere(d) => ebda.table[d + 1] = g
  /\ ret.out # <<>> /\ ret.out[1] = "size" => ret.out[3] <= Total(ret.out[2])

\* Every call and every boot ends, though waits time out and discs are not
\* ready: in an answer, or where the BIOS says it stops.
CallsEnd == cpu.pc \in {"int13", "int19"} ~> cpu.pc \in {"idle", "loaded", "panic"}
=============================================================================
