-------------------------------- MODULE Dma --------------------------------
(***************************************************************************)
(* The DMA controllers (rtl/soc/dma.v): the slave i8237 (channels 0 to 3,  *)
(* bytes) and the master (channels 5 to 7, words), their page registers,   *)
(* the registered port to the memory bus, and the part of the bus          *)
(* (avalon_mem.v) that serves them after the processor.                    *)
(*                                                                         *)
(* A step is a clock cycle.  Every register has an operator that gives its *)
(* next value from the registers and from the inputs of the cycle: the     *)
(* access of the software, the requests of the devices, and what the       *)
(* processor and the memory make of the bus.                               *)
(***************************************************************************)
EXTENDS Integers, Sequences

CONSTANTS Channels,    \* the channels with a device
          B,           \* values of a byte of an address or counter (256)
          Pages,       \* values of a page register
          Content,     \* the memory at the start
          DeviceData,  \* what devices write
          Programs,    \* sequences of accesses that set up a channel
          MinLatency,  \* cycles from a read of the bus to its data, at least
          MaxLatency   \* and at most

ASSUME ChannelsAssumption == Channels \subseteq 0 .. 7 \ {4}
ASSUME BoundsAssumption == /\ B \in Nat \ {0} /\ Pages \subseteq Nat /\ 0 \in Pages
                           /\ \A p \in Pages : p \div 2 \in Pages
                           /\ MinLatency \in Nat \ {0} /\ MaxLatency \in Nat
                           /\ MinLatency <= MaxLatency

W == B * B              \* values of an address or a counter
Addr == 0 .. W - 1

Slave == {c \in Channels : c < 4}
Master == {c \in Channels : c > 4}
Controller == {"sla", "mas"}
ControllerOf(c) == IF c < 4 THEN "sla" ELSE "mas"
\* The channels of a controller with a mask bit; 4 cascades the slave.
Masks(k) == IF k = "sla" THEN Slave ELSE Master \cup {4}

\* The memory cell a channel means: words ignore the low bit of the page.
Cell(c, p, a) == IF c < 4 THEN <<8, p, a>> ELSE <<16, p \div 2, a>>
Cells == {8, 16} \X Pages \X Addr

ASSUME DataAssumption == Content \in [Cells -> Int] /\ DeviceData \subseteq Int

ModeWord == [dec : BOOLEAN, auto : BOOLEAN, transfer : 0 .. 3]

\* An access of the software, to the ports of the controller of its channel.
WellFormed(x) ==
  /\ x.kind \in {"master_clear", "clear_flip_flop", "enable", "disable", "status",
                 "request_set", "request_clear", "mask_set", "mask_clear", "mask_clear_all",
                 "mask_all", "mode", "address", "counter", "page", "read_address", "read_counter"}
  /\ x.ch \in Channels \cup {4} /\ x.ctl = ControllerOf(x.ch)
  /\ x.kind = "mask_all" => x.val \subseteq Masks(x.ctl)
  /\ x.kind = "mode" => x.val \in ModeWord
  /\ x.kind \in {"address", "counter"} => x.val \in 0 .. B - 1
  /\ x.kind = "page" => x.val \in Pages

Loads(c, x, kind) == x.kind = kind /\ x.ch = c
Sets(c, x) == x.kind \in {"mode", "address", "counter"} /\ x.ch = c
Unmasks(c, x) == \/ x.kind = "mask_clear" /\ x.ch = c
                 \/ x.kind = "mask_clear_all" /\ x.ctl = ControllerOf(c)
                 \/ x.kind = "mask_all" /\ x.ctl = ControllerOf(c) /\ c \notin x.val

\* The accesses of program p before the one at i, since channel c was last unmasked.
Window(p, c, i) == {j \in 1 .. i - 1 : \A k \in j .. i - 1 : ~Unmasks(c, p[k])}
Dirty(p, c, i) == \E j \in Window(p, c, i) : Sets(c, p[j])
Whole(p, c, i, kind) ==
  \E j \in Window(p, c, i) : /\ j + 1 \in Window(p, c, i)
                             /\ Loads(c, p[j], kind) /\ Loads(c, p[j + 1], kind)

\* Software that sets a channel up writes its address and its counter whole, a byte
\* after the other, before it lets the channel go, as the BIOS does for the diskette.
Orderly(p) ==
  \A c \in Channels, i \in 1 .. Len(p) + 1 :
    /\ i = Len(p) + 1 \/ Unmasks(c, p[i])
    /\ Dirty(p, c, i)
    => Whole(p, c, i, "address") /\ Whole(p, c, i, "counter")

ASSUME ProgramsAssumption ==
  \A p \in Programs : /\ p \in Seq({p[i] : i \in DOMAIN p})
                      /\ \A i \in DOMAIN p : WellFormed(p[i])
                      /\ Orderly(p)

VARIABLES ch,          \* the channels
          page, flip_flop, disabled, pending, mask, terminated,
          mem_cell, mem_read, mem_write, mem_writedata,    \* the port
          bus, latency, reply,    \* the bus; reply is the data of a read under way
          mem,
          script,      \* the accesses the software has still to make
          finished     \* channels that reached their terminal count

registers == <<page, flip_flop, disabled, pending, mask, terminated>>
port == <<mem_cell, mem_read, mem_write, mem_writedata>>
vars == <<ch, registers, port, bus, latency, reply, mem, script, finished>>

ResetChannel ==
  [base_address |-> 0, current_address |-> 0, base_counter |-> 0, current_counter |-> 0,
   dec |-> FALSE, auto |-> FALSE, transfer |-> 0, state |-> 0, ack |-> FALSE,
   ack_data |-> 0, dma_address |-> 0, dma_read |-> FALSE, dma_write |-> FALSE,
   dma_writedata |-> 0]

Init ==
  /\ ch = [c \in Channels |-> ResetChannel]
  /\ page = [c \in Channels |-> 0]
  /\ flip_flop = [k \in Controller |-> FALSE]
  /\ disabled = {} /\ pending = {} /\ terminated = {}
  /\ mask = Channels \cup {4}
  /\ mem_cell = <<8, 0, 0>> /\ mem_read = FALSE /\ mem_write = FALSE /\ mem_writedata = 0
  /\ bus = "IDLE" /\ latency = 0 /\ reply = 0
  /\ mem = Content
  /\ script = <<>>
  /\ finished = {}

Channel ==
  [base_address: Addr, current_address: Addr, base_counter: Addr, current_counter: Addr,
   dec: BOOLEAN, auto: BOOLEAN, transfer: 0 .. 3, state: 0 .. 7, ack: BOOLEAN,
   ack_data: Int, dma_address: Addr, dma_read: BOOLEAN, dma_write: BOOLEAN,
   dma_writedata: Int]

----------------------------------------------------------------------------
(* The wires of a cycle.  An access x has a kind, a controller ctl, a      *)
(* channel ch and a value val.                                             *)

NoAccess == [kind |-> "none", ctl |-> "sla", ch |-> 0, val |-> 0]
Is(x, kind, k) == x.kind = kind /\ x.ctl = k
Reset(x, c) == Is(x, "master_clear", ControllerOf(c))

busy(c) == ch[c].state # 0
update(c) == ch[c].state = 4
tc(c) == update(c) /\ ch[c].current_counter = 0

waitrequest == bus \notin {"READ_DMA", "WRITE_DMA"}
readdatavalid == bus = "READ_DMA" /\ latency = 0

Muted(c) == \/ "mas" \in disabled
            \/ c < 4 /\ ("sla" \in disabled \/ 4 \in mask)

Requesting == {c \in pending \ mask : ~Muted(c)}

\* Variant: a channel is granted while another one is busy.
GrantedAnyway(c) == c \in Requesting /\ \A d \in Requesting : c <= d

\* The first requesting channel, when none is busy.
Granted(c) == /\ \A d \in Channels : ~busy(d)
              /\ c \in Requesting
              /\ \A d \in Requesting : c <= d

----------------------------------------------------------------------------
(* The registers of a channel.                                             *)

SetByte(v, high, byte) == IF high THEN byte * B + (v % B) ELSE (v \div B) * B + byte

Written(c, x, kind, v) == IF x.kind = kind /\ x.ch = c
                            THEN SetByte(v, flip_flop[ControllerOf(c)], x.val) ELSE v

\* Variant: the address is not reloaded at the terminal count.
AddressNextRunsOn(c, x) ==
  LET s == ch[c] IN
  CASE Loads(c, x, "address") -> Written(c, x, "address", s.current_address)
    [] update(c) /\ ~Loads(c, x, "address") ->
         (s.current_address + (IF s.dec THEN W - 1 ELSE 1)) % W
    [] OTHER -> s.current_address

AddressNext(c, x) ==
  LET s == ch[c] IN
  IF Loads(c, x, "address") THEN Written(c, x, "address", s.current_address)
  ELSE IF tc(c) /\ s.auto THEN s.base_address
  ELSE IF update(c) THEN (s.current_address + (IF s.dec THEN W - 1 ELSE 1)) % W
  ELSE s.current_address

CounterNext(c, x) ==
  LET s == ch[c] IN
  IF Loads(c, x, "counter") THEN Written(c, x, "counter", s.current_counter)
  ELSE IF tc(c) /\ s.auto THEN s.base_counter
  ELSE IF update(c) THEN (s.current_counter + W - 1) % W
  ELSE s.current_counter

\* Read: 1 2 3 4 5; write: 1 6 4 5; verify: 1 7 4 5.
StateNext(c, x) ==
  LET s == ch[c] IN
  IF Reset(x, c) THEN 0
  ELSE CASE s.state = 0 -> IF Granted(c) THEN 1 ELSE 0
         [] s.state = 1 -> (CASE s.transfer = 2 -> 2 [] s.transfer = 1 -> 6 [] OTHER -> 7)
         [] s.state = 2 -> IF waitrequest THEN 2 ELSE 3
         [] s.state = 3 -> IF readdatavalid THEN 4 ELSE 3
         [] s.state = 4 -> 5
         [] s.state = 5 -> 0
         [] s.state = 6 -> IF waitrequest THEN 6 ELSE 4
         [] s.state = 7 -> 4

AckNext(c) == \/ ch[c].state = 3 /\ readdatavalid
              \/ ch[c].state = 6 /\ ~waitrequest
              \/ ch[c].state = 7

\* Variant: the strobe lasts a cycle.
ReadStrobeNextPulse(c) == ch[c].state = 1 /\ ch[c].transfer = 2

ReadStrobeNext(c) ==
  \/ ch[c].state = 1 /\ ch[c].transfer = 2
  \/ ch[c].dma_read /\ busy(c) /\ ~(ch[c].state = 2 /\ ~waitrequest)

WriteStrobeNext(c) ==
  \/ ch[c].state = 1 /\ ch[c].transfer = 1
  \/ ch[c].dma_write /\ busy(c) /\ ~(ch[c].state = 6 /\ ~waitrequest)

\* data is what the device of the channel has to write.
ChannelNext(c, x, data) ==
  LET s == ch[c] mode == Loads(c, x, "mode") IN
  [base_address    |-> Written(c, x, "address", s.base_address),
   current_address |-> AddressNext(c, x),
   base_counter    |-> Written(c, x, "counter", s.base_counter),
   current_counter |-> CounterNext(c, x),
   dec             |-> IF mode THEN x.val.dec ELSE s.dec,
   auto            |-> IF mode THEN x.val.auto ELSE s.auto,
   transfer        |-> IF mode THEN x.val.transfer ELSE s.transfer,
   state           |-> StateNext(c, x),
   ack             |-> AckNext(c),
   ack_data        |-> IF s.state = 3 /\ readdatavalid THEN reply ELSE s.ack_data,
   dma_address     |-> IF ~busy(c) THEN 0
                       ELSE IF s.state = 1 THEN s.current_address ELSE s.dma_address,
   dma_read        |-> ReadStrobeNext(c),
   dma_write       |-> WriteStrobeNext(c),
   dma_writedata   |-> IF ~busy(c) THEN 0
                       ELSE IF s.state = 1 /\ s.transfer = 1 THEN data ELSE s.dma_writedata]

----------------------------------------------------------------------------
(* The registers of the controllers.                                       *)

\* Every access to an address or a counter, also a read and also of a channel without
\* a device, goes on to the other byte.
FlipFlopNext(k, x) ==
  IF x.ctl # k THEN flip_flop[k]
  ELSE CASE x.kind \in {"master_clear", "clear_flip_flop"} -> FALSE
         [] x.kind \in {"address", "counter", "read_address", "read_counter"} -> ~flip_flop[k]
         [] OTHER -> flip_flop[k]

DisabledNext(x) ==
  CASE x.kind \in {"master_clear", "enable"} -> disabled \ {x.ctl}
    [] x.kind = "disable" -> disabled \cup {x.ctl}
    [] OTHER -> disabled

\* The requests of the devices, req, but in the cycle of a software request.
PendingNext(x, req) ==
  {c \in Channels :
     LET k == ControllerOf(c) IN
     CASE Is(x, "master_clear", k) -> FALSE
       [] Is(x, "request_set", k) -> c \in pending \cup {x.ch}
       [] Is(x, "request_clear", k) -> c \in pending \ {x.ch}
       [] OTHER -> c \in req}

AtTerminalCount == {c \in Channels : tc(c)}

\* Variant: the terminal count masks the channels that start again.
MaskNextSwapped(x) ==
  CASE x.kind = "mask_set" -> mask \cup {x.ch}
    [] x.kind = "mask_clear" -> mask \ {x.ch}
    [] x.kind \notin {"mask_set", "mask_clear"} -> mask \cup {c \in AtTerminalCount : ch[c].auto}

\* A terminal count masks its channel, but in the cycle of a write to the mask.
MaskNext(x) ==
  LET others == {c \in AtTerminalCount : ~ch[c].auto /\ ControllerOf(c) # x.ctl}
      own    == {c \in AtTerminalCount : ~ch[c].auto /\ ControllerOf(c) = x.ctl}
  IN  others \cup
      (CASE x.kind = "master_clear" -> mask \cup Masks(x.ctl)
         [] x.kind = "mask_clear_all" -> mask \ Masks(x.ctl)
         [] x.kind = "mask_all" -> (mask \ Masks(x.ctl)) \cup x.val
         [] x.kind = "mask_set" -> mask \cup {x.ch}
         [] x.kind = "mask_clear" -> mask \ {x.ch}
         [] OTHER -> mask \cup own)

TerminatedNext(x) ==
  {c \in Channels : /\ ~(x.kind \in {"master_clear", "status"} /\ x.ctl = ControllerOf(c))
                    /\ c \in terminated \/ tc(c)}

----------------------------------------------------------------------------
(* The port to the bus: the lines of the busy channel, a cycle late.  Were *)
(* several busy, the page would be the first one's and the code would put  *)
(* their addresses together with OR; at most one is (see Granted), and the *)
(* others' lines are 0.                                                    *)

Busy(S) == {c \in S : busy(c)}

\* Variant: every channel has the page of the first.
PageFirst(c) == page[CHOOSE d \in Channels : \A e \in Channels : d <= e]

Page(c) == page[c]

PortNext ==
  LET S == IF Busy(Master) # {} THEN Busy(Master) ELSE Busy(Slave) IN
  IF S = {} THEN /\ mem_read' = FALSE /\ mem_write' = FALSE
                 /\ UNCHANGED <<mem_cell, mem_writedata>>
  ELSE \E c \in S :
         /\ \A d \in S : c <= d
         /\ mem_cell' = Cell(c, Page(c), ch[c].dma_address)
         /\ mem_read' = (\E d \in S : ch[d].dma_read)
         /\ mem_write' = (\E d \in S : ch[d].dma_write)
         /\ mem_writedata' = ch[c].dma_writedata

\* The bus takes the port's request in a cycle in which the processor has none
\* and the memory is free; the processor may hold it as long as it likes.
AcceptWrite == /\ bus = "IDLE" /\ mem_write
               /\ bus' = "WRITE_DMA" /\ UNCHANGED <<latency, reply>>
               /\ mem' = [mem EXCEPT ![mem_cell] = mem_writedata]

AcceptRead == /\ bus = "IDLE" /\ mem_read /\ ~mem_write
              /\ bus' = "READ_DMA" /\ latency' \in MinLatency - 1 .. MaxLatency - 1
              /\ reply' = mem[mem_cell]
              /\ UNCHANGED mem

ProcessorBegins == bus = "IDLE" /\ bus' = "CPU" /\ UNCHANGED <<latency, reply, mem>>
ProcessorEnds == bus = "CPU" /\ bus' = "IDLE" /\ UNCHANGED <<latency, reply, mem>>
BusWaits == bus \in {"IDLE", "CPU"} /\ UNCHANGED <<bus, latency, reply, mem>>

WriteDone == bus = "WRITE_DMA" /\ bus' = "IDLE" /\ UNCHANGED <<latency, reply, mem>>

ReadGoesOn == /\ bus = "READ_DMA"
              /\ IF latency = 0 THEN bus' = "IDLE" /\ UNCHANGED latency
                                ELSE latency' = latency - 1 /\ UNCHANGED bus
              /\ UNCHANGED <<reply, mem>>

BusNext == \/ AcceptWrite \/ AcceptRead \/ WriteDone \/ ReadGoesOn
           \/ ProcessorBegins \/ ProcessorEnds \/ BusWaits

----------------------------------------------------------------------------
(* A clock cycle, with the access x of the software.                       *)

MaskAccess(x) == x.kind \in {"mask_set", "mask_clear", "mask_clear_all", "mask_all", "master_clear"}

FinishedNext(x) ==
  (finished \cup {c \in AtTerminalCount : ~MaskAccess(x) \/ x.ctl # ControllerOf(c)})
    \ {c \in Channels : Unmasks(c, x)}

Tick(x) ==
  /\ \E data \in DeviceData : ch' = [c \in Channels |-> ChannelNext(c, x, data)]
  /\ page' = IF x.kind = "page" THEN [page EXCEPT ![x.ch] = x.val] ELSE page
  /\ flip_flop' = [k \in Controller |-> FlipFlopNext(k, x)]
  /\ disabled' = DisabledNext(x)
  /\ mask' = MaskNext(x)
  /\ terminated' = TerminatedNext(x)
  /\ finished' = FinishedNext(x)
  /\ PortNext
  /\ BusNext
  /\ pending' \in {PendingNext(x, req) : req \in SUBSET Channels}

Compute == Tick(NoAccess) /\ UNCHANGED script

Begin(p) == /\ script = <<>>
            /\ script' = p
            /\ UNCHANGED <<ch, registers, port, bus, latency, reply, mem, finished>>

\* Software masks a channel before it programs it, and goes on only when a
\* transfer under way is over: a channel is programmed at rest.
Settled(x) ==
  /\ x.kind \in {"address", "counter", "mode", "page"} /\ x.ch \in Channels
       => ~busy(x.ch) /\ x.ch \in mask
  /\ x.kind = "master_clear" => Busy(Channels) = {}

Access == /\ script # <<>>
          /\ Settled(Head(script))
          /\ Tick(Head(script))
          /\ script' = Tail(script)

Next == Compute \/ Access \/ \E p \in Programs : Begin(p)

Spec == Init /\ [][Next]_vars

\* The clock never stops, the bus takes a request that waits, and the processor
\* leaves it.
BusTakes == /\ bus = "IDLE" /\ (mem_read \/ mem_write)
            /\ bus' = IF mem_write THEN "WRITE_DMA" ELSE "READ_DMA"
ProcessorLeaves == bus = "CPU" /\ bus' = "IDLE"
LiveSpec == Spec /\ WF_vars(Compute) /\ SF_bus(BusTakes) /\ SF_bus(ProcessorLeaves)

----------------------------------------------------------------------------
(* Properties.                                                             *)

CurrentCell(c) == Cell(c, page[c], ch[c].current_address)

\* When a device is acknowledged, a read has brought it the content of the
\* channel's own cell and a write has already put its data there, although the
\* port is a cycle late and the processor takes the bus in between.
TransferFaithful ==
  \A c \in Channels : ch[c].ack =>
    /\ ch[c].transfer = 2 => ch[c].ack_data = mem[CurrentCell(c)]
    /\ ch[c].transfer = 1 => ch[c].dma_writedata = mem[CurrentCell(c)]

\* Memory changes only in the cell of a channel that is writing, although the
\* request stays on the port for a cycle after the bus took it and can be taken
\* once more.
OnlyOwnCell ==
  [][\A l \in Cells : mem'[l] # mem[l] =>
       \E c \in Channels : busy(c) /\ ch[c].transfer = 1 /\ l = CurrentCell(c)]_vars

Displacement(c) == (ch[c].base_counter - ch[c].current_counter) % W

\* While a channel may move, its address is as far from its base as its counter
\* is, also when both start again.  One that reached its terminal count and does
\* not start again moves nothing until software unmasks it.  (When software writes
\* a mask in the very cycle of the terminal count the mask is lost: finished
\* leaves that case out.)
RunsInStep ==
  /\ \A c \in Channels \ mask :
       ch[c].current_address =
         (IF ch[c].dec THEN ch[c].base_address - Displacement(c)
                       ELSE ch[c].base_address + Displacement(c)) % W
  /\ \A c \in finished : ~ch[c].auto => ch[c].state \in {0, 5}

\* A transfer that was started ends.
TransferEnds == \A c \in Channels : busy(c) ~> ~busy(c)
=============================================================================
