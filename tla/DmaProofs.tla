------------------------------ MODULE DmaProofs ------------------------------
(***************************************************************************)
(* Proofs about Dma: what a channel moves is its own cell, memory changes  *)
(* nowhere else, and its address and counter stay in step, for every width *)
(* of the registers, every latency of the memory and every program that    *)
(* sets its channels up whole.                                             *)
(***************************************************************************)
EXTENDS Dma, TLAPS

TypeInv ==
  /\ ch \in [Channels -> Channel]
  /\ page \in [Channels -> Pages]
  /\ flip_flop \in [Controller -> BOOLEAN]
  /\ disabled \subseteq Controller
  /\ pending \subseteq Channels /\ terminated \subseteq Channels /\ finished \subseteq Channels
  /\ mask \subseteq Channels \cup {4}
  /\ mem_cell \in Cells /\ mem_read \in BOOLEAN /\ mem_write \in BOOLEAN
  /\ mem_writedata \in Int
  /\ bus \in {"IDLE", "CPU", "READ_DMA", "WRITE_DMA"} /\ latency \in Nat /\ reply \in Int
  /\ mem \in [Cells -> Int]

----------------------------------------------------------------------------
(* The transfer: at most one channel is busy, and where it is in its       *)
(* transfer says what the port and the bus are doing.                      *)

Alone == \A c, d \in Channels : busy(c) /\ busy(d) => c = d

Steps == \A c \in Channels :
  LET s == ch[c] IN
  /\ s.state \in {2, 3} => s.transfer = 2
  /\ s.state = 6 => s.transfer = 1
  /\ s.state = 7 => s.transfer \notin {1, 2}
  /\ s.state \in {2, 3, 4, 6} /\ s.transfer \in {1, 2} => s.dma_address = s.current_address
  /\ s.ack => s.state = 4
  /\ s.dma_read => s.state = 2
  /\ s.dma_write => s.state = 6

\* What the device and the memory have of the unit that was moved.
Moved == \A c \in Channels :
  ch[c].state = 4 => /\ ch[c].transfer = 2 => ch[c].ack_data = mem[CurrentCell(c)]
                     /\ ch[c].transfer = 1 => ch[c].dma_writedata = mem[CurrentCell(c)]

Port ==
  /\ mem_read => \E c \in Channels : ch[c].state \in {2, 3} /\ mem_cell = CurrentCell(c)
  /\ mem_write => \E c \in Channels : /\ ch[c].state \in {4, 6} /\ ch[c].transfer = 1
                                      /\ mem_cell = CurrentCell(c)
                                      /\ mem_writedata = ch[c].dma_writedata
  /\ bus = "READ_DMA" => \E c \in Channels : ch[c].state \in {2, 3} /\ reply = mem[CurrentCell(c)]
  /\ bus = "WRITE_DMA" => \E c \in Channels :
       \/ ch[c].state = 6 /\ ch[c].dma_writedata = mem[CurrentCell(c)]
       \/ ch[c].state = 5

Resting == \A c \in finished : ~ch[c].auto => c \in mask /\ ch[c].state \in {0, 5}

----------------------------------------------------------------------------
(* The registers: what the software has still to write to a channel that   *)
(* it is setting up.                                                       *)

InStep(c) ==
  ch[c].current_address =
    (IF ch[c].dec THEN ch[c].base_address - Displacement(c)
                  ELSE ch[c].base_address + Displacement(c)) % W

\* The byte of the two registers that was written last.
SameByte(u, v, high) == IF high THEN u % B = v % B ELSE u \div B = v \div B

ProgrammedChannel(p, i, c) ==
  LET s == ch[c]
      f == flip_flop[ControllerOf(c)]
  IN
  /\ Dirty(p, c, i) => c \in mask /\ ~busy(c)
  /\ ~Dirty(p, c, i) => InStep(c)
  /\ Whole(p, c, i, "address") => s.base_address = s.current_address
  /\ Whole(p, c, i, "counter") => s.base_counter = s.current_counter
  /\ i > 1 /\ Loads(c, p[i - 1], "address") => SameByte(s.base_address, s.current_address, f)
  /\ i > 1 /\ Loads(c, p[i - 1], "counter") => SameByte(s.base_counter, s.current_counter, f)

Programmed(p, i) == \A c \in Channels : ProgrammedChannel(p, i, c)

\* script is what is left of p from i.
Rest(p, i) == /\ script \in Seq({p[k] : k \in 1 .. Len(p)})
              /\ Len(script) = Len(p) + 1 - i
              /\ \A k \in 1 .. Len(script) : script[k] = p[i + k - 1]

Scripted == \/ script = <<>> /\ \A c \in Channels : InStep(c)
            \/ \E p \in Programs : \E i \in 1 .. Len(p) + 1 : Rest(p, i) /\ Programmed(p, i)

IInv == TypeInv /\ Alone /\ Steps /\ Moved /\ Port /\ Resting /\ Scripted
----------------------------------------------------------------------------
(* Addresses and counters.                                                 *)

LEMMA Widths == B \in Nat \ {0} /\ W \in Nat \ {0} /\ Addr = 0 .. W - 1 /\ 0 \in Addr
BY BoundsAssumption DEF W, Addr

LEMMA Division ==
  ASSUME NEW n \in Nat \ {0}, NEW x \in Int
  PROVE  /\ x \div n \in Int /\ x % n \in 0 .. n - 1
         /\ x = (x \div n) * n + (x % n)
OBVIOUS

LEMMA Quotient ==
  ASSUME NEW n \in Nat \ {0}, NEW q \in Int, NEW r \in 0 .. n - 1
  PROVE  (q * n + r) % n = r /\ (q * n + r) \div n = q
OBVIOUS

LEMMA Monotone ==
  ASSUME NEW n \in Nat, NEW x \in Int, NEW y \in Int, x <= y
  PROVE  x * n <= y * n
OBVIOUS

LEMMA HighByte ==
  ASSUME NEW v \in Addr
  PROVE  v \div B \in 0 .. B - 1 /\ v % B \in 0 .. B - 1 /\ v = (v \div B) * B + (v % B)
<1> DEFINE q == v \div B
           r == v % B
<1>1. v \in Int /\ 0 <= v /\ v < B * B /\ B \in Nat \ {0}
  BY Widths DEF Addr, W
<1>2. q \in Int /\ r \in 0 .. B - 1 /\ v = q * B + r
  BY <1>1, Division
<1> HIDE DEF q, r
<1>3. q >= 0
  <2> DEFINE m == q * B
  <2>1. m \in Int /\ v = m + r
    BY <1>1, <1>2
  <2>2. q <= -1 => m <= 0 - B
    <3>1. q <= -1 => m <= (-1) * B
      BY <1>1, <1>2, Monotone
    <3>2. QED  BY <1>1, <3>1
  <2> HIDE DEF m
  <2>3. QED  BY <1>1, <1>2, <2>1, <2>2
<1>4. q < B
  <2>1. B <= q => B * B <= q * B
    BY <1>1, <1>2, Monotone
  <2>2. QED  BY <1>1, <1>2, <2>1
<1>5. QED  BY <1>1, <1>2, <1>3, <1>4 DEF q, r

LEMMA Bytes ==
  ASSUME NEW h \in 0 .. B - 1, NEW l \in 0 .. B - 1
  PROVE  /\ h * B + l \in Addr
         /\ (h * B + l) \div B = h /\ (h * B + l) % B = l
<1>1. B \in Nat \ {0} /\ h \in Int
  BY Widths
<1>2. h * B <= (B - 1) * B
  BY <1>1
<1>3. h * B >= 0
  BY <1>1
<1>4. h * B + l \in Addr
  BY <1>1, <1>2, <1>3 DEF Addr, W
<1>5. QED  BY <1>1, <1>4, Quotient

LEMMA ByteSet ==
  ASSUME NEW v \in Addr, NEW high \in BOOLEAN, NEW byte \in 0 .. B - 1
  PROVE  LET u == SetByte(v, high, byte)
         IN  /\ u \in Addr
             /\ u \div B = IF high THEN byte ELSE v \div B
             /\ u % B = IF high THEN v % B ELSE byte
BY HighByte, Bytes DEF SetByte

LEMMA SameBytes ==
  ASSUME NEW u \in Addr, NEW v \in Addr, u \div B = v \div B, u % B = v % B
  PROVE  u = v
BY HighByte

LEMMA Wrap ==
  ASSUME NEW v \in Addr
  PROVE  /\ (v + (W - 1)) % W = IF v = 0 THEN W - 1 ELSE v - 1
         /\ (v + 1) % W = IF v = W - 1 THEN 0 ELSE v + 1
         /\ (v + (W - 1)) % W \in Addr /\ (v + 1) % W \in Addr
BY Widths

----------------------------------------------------------------------------
(* What a cycle with access x does to a channel.                           *)

Legal(x) == x = NoAccess \/ (WellFormed(x) /\ Settled(x))

\* A program is a sequence of well-formed accesses.
LEMMA ProgramFacts ==
  ASSUME NEW p \in Programs
  PROVE  /\ p \in Seq({p[k] : k \in DOMAIN p})
         /\ Len(p) \in Nat /\ DOMAIN p = 1 .. Len(p)
         /\ \A k \in 1 .. Len(p) : WellFormed(p[k])
         /\ Orderly(p)
<1> DEFINE S == {p[k] : k \in DOMAIN p}
<1>1. p \in Seq(S) /\ \A k \in DOMAIN p : WellFormed(p[k])
  BY ProgramsAssumption
<1>2. Orderly(p)
  BY ProgramsAssumption
<1> HIDE DEF S
<1>3. Len(p) \in Nat /\ DOMAIN p = 1 .. Len(p)
  BY <1>1
<1>4. QED  BY <1>1, <1>2, <1>3 DEF S

LEMMA LegalNext ==
  ASSUME Scripted, Access
  PROVE  Legal(Head(script))
<1>1. script # <<>> /\ Settled(Head(script))
  BY DEF Access
<1>2. PICK p \in Programs : \E i \in 1 .. Len(p) + 1 : Rest(p, i)
  BY <1>1 DEF Scripted
<1>3. PICK i \in 1 .. Len(p) + 1 : Rest(p, i)
  BY <1>2
<1>4. Len(p) \in Nat /\ DOMAIN p = 1 .. Len(p) /\ \A k \in DOMAIN p : WellFormed(p[k])
  BY ProgramFacts
<1>5. Len(script) > 0 /\ script[1] = p[i] /\ Head(script) = script[1]
  BY <1>1, <1>3, <1>4 DEF Rest
<1>6. i \in 1 .. Len(p)
  BY <1>3, <1>4, <1>5 DEF Rest
<1>7. QED  BY <1>1, <1>4, <1>5, <1>6 DEF Legal

LEMMA Fields ==
  ASSUME TypeInv, NEW x, Tick(x), NEW c \in Channels
  PROVE  /\ ch'[c].base_address = Written(c, x, "address", ch[c].base_address)
         /\ ch'[c].current_address = AddressNext(c, x)
         /\ ch'[c].base_counter = Written(c, x, "counter", ch[c].base_counter)
         /\ ch'[c].current_counter = CounterNext(c, x)
         /\ ch'[c].dec = (IF Loads(c, x, "mode") THEN x.val.dec ELSE ch[c].dec)
         /\ ch'[c].auto = (IF Loads(c, x, "mode") THEN x.val.auto ELSE ch[c].auto)
         /\ ch'[c].transfer = (IF Loads(c, x, "mode") THEN x.val.transfer ELSE ch[c].transfer)
         /\ ch'[c].state = StateNext(c, x)
         /\ ch'[c].ack = AckNext(c)
         /\ ch'[c].ack_data = (IF ch[c].state = 3 /\ readdatavalid THEN reply ELSE ch[c].ack_data)
         /\ ch'[c].dma_address = (IF ~busy(c) THEN 0 ELSE IF ch[c].state = 1
                                    THEN ch[c].current_address ELSE ch[c].dma_address)
         /\ ch'[c].dma_read = ReadStrobeNext(c)
         /\ ch'[c].dma_write = WriteStrobeNext(c)
         /\ ch[c].state \in {4, 6} => ch'[c].dma_writedata = ch[c].dma_writedata
         /\ ch'[c].dma_writedata \in Int
         /\ DOMAIN ch' = Channels
<1>1. PICK data \in DeviceData : ch' = [d \in Channels |-> ChannelNext(d, x, data)]
  BY DEF Tick
<1>2. ch'[c] = ChannelNext(c, x, data)
  BY <1>1
<1>3. data \in Int /\ ch[c].dma_writedata \in Int
  BY DataAssumption DEF TypeInv, Channel
<1>4. QED  BY <1>1, <1>2, <1>3 DEF ChannelNext, busy

LEMMA StateType ==
  ASSUME TypeInv, NEW x, NEW c \in Channels
  PROVE  StateNext(c, x) \in 0 .. 7
<1>1. ch[c].state \in 0 .. 7
  BY DEF TypeInv, Channel
<1>2. QED  BY <1>1 DEF StateNext

LEMMA WrittenType ==
  ASSUME TypeInv, NEW x, Legal(x), NEW c \in Channels, NEW v \in Addr,
         NEW kind \in {"address", "counter"}
  PROVE  Written(c, x, kind, v) \in Addr
<1>1. flip_flop[ControllerOf(c)] \in BOOLEAN
  BY DEF TypeInv, ControllerOf, Controller
<1>2. x.kind = kind => x.val \in 0 .. B - 1
  BY DEF Legal, WellFormed, NoAccess
<1>3. QED  BY <1>1, <1>2, ByteSet DEF Written

LEMMA AddressType ==
  ASSUME TypeInv, NEW x, Legal(x), NEW c \in Channels
  PROVE  AddressNext(c, x) \in Addr /\ CounterNext(c, x) \in Addr
<1>1. /\ ch[c].base_address \in Addr /\ ch[c].current_address \in Addr
      /\ ch[c].base_counter \in Addr /\ ch[c].current_counter \in Addr
  BY DEF TypeInv, Channel
<1>2. /\ Written(c, x, "address", ch[c].current_address) \in Addr
      /\ Written(c, x, "counter", ch[c].current_counter) \in Addr
  BY <1>1, WrittenType
<1>3. \A v \in Addr : /\ (v + (W - 1)) % W \in Addr /\ (v + 1) % W \in Addr
                      /\ (v + W - 1) % W \in Addr
  BY Wrap, Widths
<1>4. AddressNext(c, x) \in Addr
  BY <1>1, <1>2, <1>3 DEF AddressNext
<1>5. CounterNext(c, x) \in Addr
  BY <1>1, <1>2, <1>3 DEF CounterNext
<1>6. QED  BY <1>4, <1>5

LEMMA ChannelType ==
  ASSUME TypeInv, NEW x, Legal(x), Tick(x)
  PROVE  ch' \in [Channels -> Channel]
<1> SUFFICES ASSUME NEW c \in Channels
             PROVE  ch'[c] \in Channel
  BY DEF Tick
<1>1. PICK data \in DeviceData : ch' = [d \in Channels |-> ChannelNext(d, x, data)]
  BY DEF Tick
<1>2. ch'[c] = ChannelNext(c, x, data)
  BY <1>1
<1>3. ch[c] \in Channel
  BY DEF TypeInv
<1>4. /\ Written(c, x, "address", ch[c].base_address) \in Addr
      /\ Written(c, x, "counter", ch[c].base_counter) \in Addr
  BY <1>3, WrittenType DEF Channel
<1>5. AddressNext(c, x) \in Addr /\ CounterNext(c, x) \in Addr /\ StateNext(c, x) \in 0 .. 7
  BY AddressType, StateType
<1>6. Loads(c, x, "mode") => x.val \in ModeWord
  BY DEF Loads, Legal, WellFormed, NoAccess
<1>7. AckNext(c) \in BOOLEAN /\ ReadStrobeNext(c) \in BOOLEAN /\ WriteStrobeNext(c) \in BOOLEAN
  BY DEF AckNext, ReadStrobeNext, WriteStrobeNext
<1>8. data \in Int /\ reply \in Int /\ 0 \in Addr
  BY DataAssumption, Widths DEF TypeInv
<1>9. QED
  BY <1>2, <1>3, <1>4, <1>5, <1>6, <1>7, <1>8 DEF ChannelNext, Channel, ModeWord

LEMMA CellType ==
  ASSUME NEW c \in Channels, NEW p \in Pages, NEW a \in Addr
  PROVE  Cell(c, p, a) \in Cells
<1>1. p \div 2 \in Pages
  BY BoundsAssumption
<1>2. QED  BY <1>1 DEF Cell, Cells

LEMMA TickType ==
  ASSUME TypeInv, NEW x, Legal(x), Tick(x)
  PROVE  TypeInv'
<1>1. ch' \in [Channels -> Channel]
  BY ChannelType
<1>2. page' \in [Channels -> Pages]
  <2>1. x.kind = "page" => x.val \in Pages
    BY DEF Legal, WellFormed, NoAccess
  <2>2. page \in [Channels -> Pages] /\ page' = IF x.kind = "page" THEN [page EXCEPT ![x.ch] = x.val] ELSE page
    BY DEF Tick, TypeInv
  <2>3. QED  BY <2>1, <2>2
<1>3. flip_flop' \in [Controller -> BOOLEAN]
  BY DEF Tick, TypeInv, FlipFlopNext
<1>4. x.ctl \in Controller /\ (x.kind # "none" => x.ch \in Channels \cup {4})
  BY DEF Legal, WellFormed, NoAccess, ControllerOf, Controller
<1>5. disabled' \subseteq Controller
  BY <1>4 DEF Tick, TypeInv, DisabledNext
<1>6. Slave \subseteq Channels /\ Master \subseteq Channels /\ AtTerminalCount \subseteq Channels
  BY DEF Slave, Master, AtTerminalCount
<1>7. mask' \subseteq Channels \cup {4}
  <2>1. mask \subseteq Channels \cup {4} /\ Masks(x.ctl) \subseteq Channels \cup {4}
    BY <1>6 DEF TypeInv, Masks
  <2>2. mask' = MaskNext(x)
    BY DEF Tick
  <2>3. x.kind = "mask_all" => x.val \subseteq Channels \cup {4}
    BY <2>1 DEF Legal, WellFormed, NoAccess
  <2>4. QED  BY <1>4, <1>6, <2>1, <2>2, <2>3 DEF MaskNext
<1>8. pending' \subseteq Channels
  BY DEF Tick, PendingNext
<1>9. terminated' \subseteq Channels
  BY DEF Tick, TerminatedNext
<1>10. finished' \subseteq Channels
  BY <1>6 DEF Tick, TypeInv, FinishedNext
<1>11. /\ mem_cell' \in Cells /\ mem_read' \in BOOLEAN /\ mem_write' \in BOOLEAN
       /\ mem_writedata' \in Int
  <2> DEFINE S == IF Busy(Master) # {} THEN Busy(Master) ELSE Busy(Slave)
  <2>1. S \subseteq Channels
    BY <1>6 DEF Busy
  <2>2. CASE S = {}
    BY <2>2 DEF Tick, PortNext, TypeInv
  <2>3. CASE S # {}
    <3>1. PICK c \in S : /\ mem_cell' = Cell(c, Page(c), ch[c].dma_address)
                         /\ mem_read' = (\E d \in S : ch[d].dma_read)
                         /\ mem_write' = (\E d \in S : ch[d].dma_write)
                         /\ mem_writedata' = ch[c].dma_writedata
      BY <2>3 DEF Tick, PortNext
    <3>2. c \in Channels /\ ch[c].dma_address \in Addr /\ ch[c].dma_writedata \in Int /\ page[c] \in Pages
      BY <2>1 DEF TypeInv, Channel
    <3>3. mem_cell' \in Cells
      BY <3>1, <3>2, CellType DEF Page
    <3>4. QED  BY <3>1, <3>2, <3>3
  <2>4. QED  BY <2>2, <2>3
<1>12. /\ bus' \in {"IDLE", "CPU", "READ_DMA", "WRITE_DMA"} /\ latency' \in Nat /\ reply' \in Int
       /\ mem' \in [Cells -> Int]
  <2> USE DEF TypeInv
  <2>1. CASE AcceptWrite
    BY <2>1 DEF AcceptWrite
  <2>2. CASE AcceptRead
    BY <2>2, BoundsAssumption DEF AcceptRead
  <2>3. CASE ReadGoesOn
    BY <2>3 DEF ReadGoesOn
  <2>4. CASE WriteDone \/ ProcessorBegins \/ ProcessorEnds \/ BusWaits
    BY <2>4 DEF WriteDone, ProcessorBegins, ProcessorEnds, BusWaits
  <2>5. QED  BY <2>1, <2>2, <2>3, <2>4 DEF Tick, BusNext
<1>13. QED
  BY <1>1, <1>2, <1>3, <1>5, <1>7, <1>8, <1>9, <1>10, <1>11, <1>12 DEF TypeInv

----------------------------------------------------------------------------
(* The transfer.                                                           *)

\* A cycle changes nothing that a transfer under way relies on.
LEMMA AtRest ==
  ASSUME TypeInv, NEW x, Legal(x), NEW c \in Channels, busy(c)
  PROVE  /\ ~Sets(c, x) /\ ~(x.kind = "page" /\ x.ch = c) /\ ~Reset(x, c)
         /\ ~Loads(c, x, "mode") /\ ~Loads(c, x, "address") /\ ~Loads(c, x, "counter")
<1>1. x.kind # "master_clear"
  BY DEF Legal, NoAccess, Settled, Busy
<1>2. x.kind \in {"address", "counter", "mode", "page"} => x.ch # c
  BY DEF Legal, NoAccess, Settled
<1>3. QED  BY <1>1, <1>2 DEF Sets, Loads, Reset, Is

\* While a channel is busy its cell changes only at the end of state 4.
LEMMA CellKept ==
  ASSUME TypeInv, NEW x, Legal(x), Tick(x), NEW c \in Channels, busy(c), ch[c].state # 4
  PROVE  /\ CurrentCell(c)' = CurrentCell(c)
         /\ ch'[c].current_address = ch[c].current_address
         /\ ch'[c].transfer = ch[c].transfer /\ ch'[c].auto = ch[c].auto
<1>1. page'[c] = page[c]
  BY AtRest DEF Tick, TypeInv
<1>2. /\ ch'[c].current_address = ch[c].current_address
      /\ ch'[c].transfer = ch[c].transfer /\ ch'[c].auto = ch[c].auto
  BY AtRest, Fields DEF AddressNext, tc, update
<1>3. QED  BY <1>1, <1>2 DEF CurrentCell

LEMMA AloneNext ==
  ASSUME TypeInv, Alone, NEW x, Legal(x), Tick(x)
  PROVE  Alone'
<1> SUFFICES ASSUME NEW c \in Channels, NEW d \in Channels, ch'[c].state # 0, ch'[d].state # 0
             PROVE  c = d
  BY DEF Alone, busy
<1>1. ASSUME NEW e \in Channels, ch'[e].state # 0
      PROVE  busy(e) \/ Granted(e)
  BY <1>1, Fields DEF StateNext, busy
<1>2. c \in Int /\ d \in Int
  BY ChannelsAssumption
<1>3. QED  BY <1>1, <1>2 DEF Alone, Granted, Requesting

LEMMA StepsNext ==
  ASSUME TypeInv, Alone, Steps, Port, NEW x, Legal(x), Tick(x)
  PROVE  Steps'
<1> SUFFICES ASSUME NEW c \in Channels
             PROVE  LET s == ch'[c] IN
                    /\ s.state \in {2, 3} => s.transfer = 2
                    /\ s.state = 6 => s.transfer = 1
                    /\ s.state = 7 => s.transfer \notin {1, 2}
                    /\ s.state \in {2, 3, 4, 6} /\ s.transfer \in {1, 2}
                         => s.dma_address = s.current_address
                    /\ s.ack => s.state = 4
                    /\ s.dma_read => s.state = 2
                    /\ s.dma_write => s.state = 6
  BY DEF Steps
<1> DEFINE s == ch[c]
           t == ch'[c]
<1>1. /\ s.state \in 0 .. 7 /\ s.transfer \in 0 .. 3 /\ s \in Channel
  BY DEF TypeInv, Channel
<1>2. /\ t.state = StateNext(c, x) /\ t.ack = AckNext(c)
      /\ t.dma_read = ReadStrobeNext(c) /\ t.dma_write = WriteStrobeNext(c)
      /\ t.dma_address = (IF ~busy(c) THEN 0 ELSE IF s.state = 1
                           THEN s.current_address ELSE s.dma_address)
  BY Fields
<1>3. /\ s.state \in {2, 3} => s.transfer = 2
      /\ s.state = 6 => s.transfer = 1
      /\ s.state = 7 => s.transfer \notin {1, 2}
      /\ s.state \in {2, 3, 4, 6} /\ s.transfer \in {1, 2} => s.dma_address = s.current_address
      /\ s.dma_read => s.state = 2
      /\ s.dma_write => s.state = 6
  BY DEF Steps
<1>4. busy(c) => ~Reset(x, c)
  BY AtRest
<1>5. CASE s.state = 0
  BY <1>1, <1>2, <1>3, <1>5 DEF StateNext, AckNext, ReadStrobeNext, WriteStrobeNext, busy
<1>6. CASE s.state = 4
  BY <1>1, <1>2, <1>3, <1>4, <1>6 DEF StateNext, AckNext, ReadStrobeNext, WriteStrobeNext, busy
<1>7. CASE s.state \notin {0, 4}
  <2>1. busy(c) /\ t.current_address = s.current_address /\ t.transfer = s.transfer
    BY <1>7, CellKept DEF busy
  <2>2. CASE s.state = 1
    BY <1>1, <1>2, <1>3, <1>4, <2>1, <2>2 DEF StateNext, AckNext, ReadStrobeNext, WriteStrobeNext
  <2>3. CASE s.state \in {2, 3}
    BY <1>1, <1>2, <1>3, <1>4, <2>1, <2>3 DEF StateNext, AckNext, ReadStrobeNext, WriteStrobeNext
  <2>4. CASE s.state \in {5, 6, 7}
    BY <1>1, <1>2, <1>3, <1>4, <2>1, <2>4 DEF StateNext, AckNext, ReadStrobeNext, WriteStrobeNext
  <2>5. QED  BY <1>1, <1>7, <2>2, <2>3, <2>4
<1>8. QED  BY <1>5, <1>6, <1>7

\* The port takes the lines of the busy channel.
LEMMA PortLines ==
  ASSUME TypeInv, Alone, NEW x, Tick(x)
  PROVE  /\ \A c \in Channels : busy(c) =>
              /\ mem_cell' = Cell(c, page[c], ch[c].dma_address)
              /\ mem_read' = ch[c].dma_read /\ mem_write' = ch[c].dma_write
              /\ mem_writedata' = ch[c].dma_writedata
         /\ (\A c \in Channels : ~busy(c)) => mem_read' = FALSE /\ mem_write' = FALSE
<1> DEFINE S == IF Busy(Master) # {} THEN Busy(Master) ELSE Busy(Slave)
<1>1. ASSUME NEW c \in Channels
      PROVE  (c \in Slave \/ c \in Master) /\ ch[c].dma_read \in BOOLEAN /\ ch[c].dma_write \in BOOLEAN
  <2>1. c \in 0 .. 7 /\ c # 4
    BY ChannelsAssumption
  <2>2. QED  BY <2>1 DEF Slave, Master, TypeInv, Channel
<1>2. Busy(Slave) \subseteq Channels /\ Busy(Master) \subseteq Channels
  BY DEF Busy, Slave, Master
<1>3. ASSUME NEW c \in Channels, busy(c)
      PROVE  S = {c}
  BY <1>1, <1>2, <1>3 DEF Alone, Busy
<1>4. (\A c \in Channels : ~busy(c)) => S = {}
  BY <1>2 DEF Busy
<1>5. ASSUME NEW c \in Channels, busy(c)
      PROVE  /\ mem_cell' = Cell(c, page[c], ch[c].dma_address)
             /\ mem_read' = ch[c].dma_read /\ mem_write' = ch[c].dma_write
             /\ mem_writedata' = ch[c].dma_writedata
  <2>1. S = {c}
    BY <1>3, <1>5
  <2>2. PICK e \in S : /\ mem_cell' = Cell(e, Page(e), ch[e].dma_address)
                       /\ mem_read' = (\E d \in S : ch[d].dma_read)
                       /\ mem_write' = (\E d \in S : ch[d].dma_write)
                       /\ mem_writedata' = ch[e].dma_writedata
    BY <2>1 DEF Tick, PortNext
  <2> HIDE DEF S
  <2>3. e = c /\ mem_read' = ch[c].dma_read /\ mem_write' = ch[c].dma_write
    BY <1>1, <2>1, <2>2
  <2>4. QED  BY <2>2, <2>3 DEF Page
<1>6. (\A c \in Channels : ~busy(c)) => mem_read' = FALSE /\ mem_write' = FALSE
  BY <1>4 DEF Tick, PortNext
<1>7. QED  BY <1>5, <1>6

\* Memory changes only where a channel is writing, and only to what it writes.
LEMMA MemoryStep ==
  ASSUME TypeInv, Port, NEW x, Tick(x)
  PROVE  \/ mem' = mem
         \/ \E c \in Channels : /\ ch[c].state \in {4, 6} /\ ch[c].transfer = 1
                                /\ mem' = [mem EXCEPT ![CurrentCell(c)] = ch[c].dma_writedata]
                                /\ bus' = "WRITE_DMA" /\ bus = "IDLE"
<1>1. CASE AcceptWrite
  BY <1>1 DEF AcceptWrite, Port
<1>2. CASE ~AcceptWrite
  BY <1>2 DEF Tick, BusNext, AcceptRead, WriteDone, ReadGoesOn, ProcessorBegins, ProcessorEnds, BusWaits
<1>3. QED  BY <1>1, <1>2

LEMMA CurrentCellType ==
  ASSUME TypeInv, NEW c \in Channels
  PROVE  CurrentCell(c) \in Cells
<1>1. page[c] \in Pages /\ ch[c].current_address \in Addr
  BY DEF TypeInv, Channel
<1>2. QED  BY <1>1, CellType DEF CurrentCell

LEMMA MovedNext ==
  ASSUME TypeInv, Alone, Steps, Moved, Port, NEW x, Legal(x), Tick(x)
  PROVE  Moved'
<1> SUFFICES ASSUME NEW c \in Channels, ch'[c].state = 4
             PROVE  /\ ch'[c].transfer = 2 => ch'[c].ack_data = mem'[CurrentCell(c)']
                    /\ ch'[c].transfer = 1 => ch'[c].dma_writedata = mem'[CurrentCell(c)']
  BY DEF Moved
<1>1. ch'[c].state = StateNext(c, x) /\ ch[c].state \in 0 .. 7
  BY Fields DEF TypeInv, Channel
<1>2. \/ ch[c].state = 3 /\ readdatavalid
      \/ ch[c].state = 6 /\ ~waitrequest
      \/ ch[c].state = 7
  BY <1>1 DEF StateNext
<1>3. busy(c) /\ CurrentCell(c)' = CurrentCell(c) /\ ch'[c].transfer = ch[c].transfer
  BY <1>2, CellKept DEF busy
<1>4. \A d \in Channels : ch[d].state # 0 => d = c
  BY <1>3 DEF Alone, busy
<1>5. CASE ch[c].state = 3 /\ readdatavalid
  <2>1. ch[c].transfer = 2 /\ ch'[c].ack_data = reply
    BY <1>5, Fields DEF Steps
  <2>2. reply = mem[CurrentCell(c)]
    BY <1>4, <1>5 DEF Port, readdatavalid
  <2>3. mem' = mem
    BY <1>4, <1>5, MemoryStep
  <2>4. QED  BY <1>3, <2>1, <2>2, <2>3
<1>6. CASE ch[c].state = 6 /\ ~waitrequest
  <2>1. ch[c].transfer = 1 /\ ch'[c].dma_writedata = ch[c].dma_writedata
    BY <1>6, Fields DEF Steps
  <2>2. bus = "WRITE_DMA" /\ ch[c].dma_writedata = mem[CurrentCell(c)]
    BY <1>4, <1>6 DEF Port, waitrequest
  <2>3. mem' = mem
    BY <2>2, MemoryStep
  <2>4. QED  BY <1>3, <2>1, <2>2, <2>3
<1>7. CASE ch[c].state = 7
  BY <1>3, <1>7 DEF Steps
<1>8. QED  BY <1>2, <1>5, <1>6, <1>7

LEMMA PortNextInv ==
  ASSUME TypeInv, Alone, Steps, Moved, Port, NEW x, Legal(x), Tick(x)
  PROVE  Port'
<1>1. ASSUME NEW c \in Channels, ch[c].state \in {2, 3, 6}
      PROVE  /\ busy(c) /\ CurrentCell(c)' = CurrentCell(c)
             /\ ch[c].dma_address = ch[c].current_address
  BY <1>1, CellKept DEF busy, Steps
<1>2. mem_read' => \E c \in Channels : ch'[c].state \in {2, 3} /\ mem_cell' = CurrentCell(c)'
  <2> SUFFICES ASSUME mem_read'
               PROVE  \E c \in Channels : ch'[c].state \in {2, 3} /\ mem_cell' = CurrentCell(c)'
    OBVIOUS
  <2>1. PICK c \in Channels : busy(c) /\ ch[c].dma_read
    BY PortLines
  <2>2. ch[c].state = 2
    BY <2>1 DEF Steps
  <2>3. ch'[c].state \in {2, 3}
    BY <2>1, <2>2, Fields, AtRest DEF StateNext
  <2>4. mem_cell' = CurrentCell(c)'
    BY <1>1, <2>1, <2>2, PortLines DEF CurrentCell
  <2>5. QED  BY <2>3, <2>4
<1>3. mem_write' => \E c \in Channels : /\ ch'[c].state \in {4, 6} /\ ch'[c].transfer = 1
                                        /\ mem_cell' = CurrentCell(c)'
                                        /\ mem_writedata' = ch'[c].dma_writedata
  <2> SUFFICES ASSUME mem_write'
               PROVE  \E c \in Channels : /\ ch'[c].state \in {4, 6} /\ ch'[c].transfer = 1
                                         /\ mem_cell' = CurrentCell(c)'
                                         /\ mem_writedata' = ch'[c].dma_writedata
    OBVIOUS
  <2>1. PICK c \in Channels : busy(c) /\ ch[c].dma_write
    BY PortLines
  <2>2. ch[c].state = 6 /\ ch[c].transfer = 1
    BY <2>1 DEF Steps
  <2>3. ch'[c].state \in {4, 6}
    BY <2>1, <2>2, Fields, AtRest DEF StateNext
  <2>4. mem_cell' = CurrentCell(c)'
    BY <1>1, <2>1, <2>2, PortLines, ZenonT(30) DEF CurrentCell
  <2>5. mem_writedata' = ch'[c].dma_writedata
    BY <2>1, <2>2, PortLines, Fields
  <2>6. ch'[c].transfer = 1
    BY <2>1, <2>2, CellKept
  <2>7. QED  BY <2>3, <2>4, <2>5, <2>6
<1>4. bus' = "READ_DMA" => \E c \in Channels : ch'[c].state \in {2, 3} /\ reply' = mem'[CurrentCell(c)']
  <2> SUFFICES ASSUME bus' = "READ_DMA"
               PROVE  \E c \in Channels : ch'[c].state \in {2, 3} /\ reply' = mem'[CurrentCell(c)']
    OBVIOUS
  <2>1. CASE AcceptRead
    <3>1. PICK c \in Channels : ch[c].state \in {2, 3} /\ mem_cell = CurrentCell(c)
      BY <2>1 DEF AcceptRead, Port
    <3>2. ch'[c].state = ch[c].state
      BY <1>1, <2>1, <3>1, Fields, AtRest DEF AcceptRead, StateNext, waitrequest, readdatavalid
    <3>3. QED  BY <1>1, <2>1, <3>1, <3>2 DEF AcceptRead
  <2>2. CASE ReadGoesOn
    <3>1. PICK c \in Channels : ch[c].state \in {2, 3} /\ reply = mem[CurrentCell(c)]
      BY <2>2 DEF ReadGoesOn, Port
    <3>2. latency # 0
      BY <2>2 DEF ReadGoesOn
    <3>3. ch'[c].state \in {2, 3}
      BY <1>1, <3>1, <3>2, Fields, AtRest DEF StateNext, readdatavalid
    <3>4. QED  BY <1>1, <2>2, <3>1, <3>3 DEF ReadGoesOn
  <2>3. QED
    BY <2>1, <2>2 DEF Tick, BusNext, AcceptWrite, WriteDone, ProcessorBegins, ProcessorEnds, BusWaits
<1>5. bus' = "WRITE_DMA" => \E c \in Channels :
        \/ ch'[c].state = 6 /\ ch'[c].dma_writedata = mem'[CurrentCell(c)']
        \/ ch'[c].state = 5
  <2>1. SUFFICES ASSUME AcceptWrite
        PROVE  \E c \in Channels :
                 \/ ch'[c].state = 6 /\ ch'[c].dma_writedata = mem'[CurrentCell(c)']
                 \/ ch'[c].state = 5
    BY DEF Tick, BusNext, AcceptRead, ReadGoesOn, WriteDone, ProcessorBegins, ProcessorEnds, BusWaits
  <2>2. PICK c \in Channels : /\ ch[c].state \in {4, 6} /\ ch[c].transfer = 1
                              /\ mem_cell = CurrentCell(c)
                              /\ mem_writedata = ch[c].dma_writedata
    BY <2>1 DEF AcceptWrite, Port
  <2>3. busy(c) /\ ~Reset(x, c)
    BY <2>2, AtRest DEF busy
  <2>4. CASE ch[c].state = 4
    BY <2>3, <2>4, Fields DEF StateNext
  <2>5. CASE ch[c].state = 6
    <3>1. ch'[c].state = 6
      BY <2>1, <2>3, <2>5, Fields DEF AcceptWrite, StateNext, waitrequest
    <3>2. mem'[CurrentCell(c)] = ch[c].dma_writedata
      BY <2>1, <2>2, CurrentCellType DEF AcceptWrite, TypeInv
    <3>3. ch'[c].dma_writedata = ch[c].dma_writedata
      BY <2>5, Fields
    <3>4. QED  BY <1>1, <2>5, <3>1, <3>2, <3>3
  <2>6. QED  BY <2>2, <2>4, <2>5
<1>6. QED  BY <1>2, <1>3, <1>4, <1>5 DEF Port

\* Only an access that unmasks a channel takes it out of the mask.
LEMMA MaskKept ==
  ASSUME TypeInv, NEW x, Legal(x), Tick(x), NEW c \in Channels, c \in mask, ~Unmasks(c, x)
  PROVE  c \in mask'
<1>1. mask' = MaskNext(x)
  BY DEF Tick
<1>2. \/ x.kind \notin {"mask_clear_all", "mask_all"}
      \/ c \notin Masks(x.ctl)
      \/ x.kind = "mask_all" /\ c \in x.val
  <2>1. c \in 0 .. 7 /\ c # 4
    BY ChannelsAssumption
  <2>2. x.kind \in {"mask_clear_all", "mask_all"} => x.ctl \in Controller
    BY DEF Legal, WellFormed, NoAccess, ControllerOf, Controller
  <2>3. x.ctl \in Controller /\ x.ctl # ControllerOf(c) => c \notin Masks(x.ctl)
    BY <2>1 DEF Masks, Slave, Master, ControllerOf, Controller
  <2>4. QED  BY <2>2, <2>3 DEF Unmasks
<1>3. x.kind = "mask_clear" => x.ch # c
  BY DEF Unmasks
<1>4. QED  BY <1>1, <1>2, <1>3 DEF MaskNext

LEMMA RestingNext ==
  ASSUME TypeInv, Steps, Resting, NEW x, Legal(x), Tick(x)
  PROVE  Resting'
<1> SUFFICES ASSUME NEW c \in finished', ~ch'[c].auto
             PROVE  c \in mask' /\ ch'[c].state \in {0, 5}
  BY DEF Resting
<1>1. c \in Channels
  BY TickType DEF TypeInv
<1>2. c \in FinishedNext(x) /\ ~Unmasks(c, x)
  <2>1. c \in FinishedNext(x)
    BY DEF Tick
  <2>2. QED  BY <1>1, <2>1 DEF FinishedNext
<1>3. CASE c \in AtTerminalCount
  <2>1. ch[c].state = 4 /\ busy(c)
    BY <1>3 DEF AtTerminalCount, tc, update, busy
  <2>2. ch'[c].auto = ch[c].auto /\ ch'[c].state = 5
    BY <1>1, <2>1, Fields, AtRest DEF StateNext
  <2>3. ~ch[c].auto
    BY <2>2
  <2>4. CASE c \in finished
    BY <2>1, <2>3, <2>4 DEF Resting
  <2>5. CASE c \notin finished
    <3>1. ~MaskAccess(x) \/ x.ctl # ControllerOf(c)
      BY <1>2, <2>5 DEF FinishedNext
    <3>2. c \in mask'
      BY <1>3, <2>3, <3>1 DEF Tick, MaskNext, MaskAccess
    <3>3. QED  BY <2>2, <3>2
  <2>6. QED  BY <2>4, <2>5
<1>4. CASE c \notin AtTerminalCount
  <2>1. c \in finished
    BY <1>2, <1>4 DEF FinishedNext
  <2>2. CASE Loads(c, x, "mode")
    <3>1. c \in mask /\ ~busy(c)
      BY <1>1, <2>2 DEF Loads, Legal, NoAccess, Settled
    <3>2. ch'[c].state = 0
      BY <1>1, <3>1, Fields DEF StateNext, busy, Granted, Requesting
    <3>3. QED  BY <1>1, <1>2, <3>1, <3>2, MaskKept
  <2>3. CASE ~Loads(c, x, "mode")
    <3>1. ch'[c].auto = ch[c].auto
      BY <1>1, <2>3, Fields
    <3>2. c \in mask /\ ch[c].state \in {0, 5}
      BY <2>1, <3>1 DEF Resting
    <3>3. ch'[c].state = 0
      BY <1>1, <3>2, Fields DEF StateNext, Granted, Requesting
    <3>4. QED  BY <1>1, <1>2, <3>2, <3>3, MaskKept
  <2>4. QED  BY <2>2, <2>3
<1>5. QED  BY <1>3, <1>4

----------------------------------------------------------------------------
(* The registers run in step.                                              *)

LEMMA Ring ==
  ASSUME NEW u \in Addr, NEW v \in Addr
  PROVE  /\ (u - v) % W = (IF v <= u THEN u - v ELSE u - v + W)
         /\ (u + v) % W = (IF u + v < W THEN u + v ELSE u + v - W)
         /\ (u - v) % W \in Addr /\ (u + v) % W \in Addr
<1>1. u \in 0 .. W - 1 /\ v \in 0 .. W - 1 /\ W \in Nat \ {0}
  BY Widths
<1> HIDE DEF W
<1>2. (u - v) % W = (IF v <= u THEN u - v ELSE u - v + W)
  BY <1>1
<1>3. (u + v) % W = (IF u + v < W THEN u + v ELSE u + v - W)
  BY <1>1
<1>4. QED  BY <1>1, <1>2, <1>3 DEF Addr

\* A unit more moves the address and the counter by one, either way round the ring.
LEMMA OneMore ==
  ASSUME NEW b \in Addr, NEW u \in Addr, NEW v \in Addr
  PROVE  LET d == (u - v) % W
             e == (u - ((v + W - 1) % W)) % W
         IN  /\ (((b + d) % W) + 1) % W = (b + e) % W
             /\ (((b - d) % W) + (W - 1)) % W = (b - e) % W
             /\ d \in Addr /\ e \in Addr
<1> DEFINE d == (u - v) % W
           w == (v + W - 1) % W
           e == (u - w) % W
           m == (b + d) % W
           n == (b - d) % W
<1>1. /\ u \in 0 .. W - 1 /\ v \in 0 .. W - 1 /\ b \in 0 .. W - 1 /\ W \in Nat \ {0}
      /\ d \in Addr /\ d = (IF v <= u THEN u - v ELSE u - v + W)
  BY Widths, Ring
<1>2. w = (v + (W - 1)) % W
  BY <1>1
<1>3. w \in Addr /\ w = IF v = 0 THEN W - 1 ELSE v - 1
  BY <1>2, Wrap
<1> HIDE DEF d, w
<1>4. e \in Addr /\ e = (IF w <= u THEN u - w ELSE u - w + W)
  BY <1>3, Ring
<1>5. /\ m \in Addr /\ m = (IF b + d < W THEN b + d ELSE b + d - W)
      /\ n \in Addr /\ n = (IF d <= b THEN b - d ELSE b - d + W)
  BY <1>1, Ring
<1> HIDE DEF e, m, n
<1>6. /\ (b + e) % W = (IF b + e < W THEN b + e ELSE b + e - W)
      /\ (b - e) % W = (IF e <= b THEN b - e ELSE b - e + W)
  BY <1>4, Ring
<1>7. /\ (m + 1) % W = IF m = W - 1 THEN 0 ELSE m + 1
      /\ (n + (W - 1)) % W = IF n = 0 THEN W - 1 ELSE n - 1
  BY <1>5, Wrap
<1>8. d \in 0 .. W - 1 /\ e \in 0 .. W - 1
  BY <1>1, <1>4, Widths
<1>9. e = IF d = W - 1 THEN 0 ELSE d + 1
  BY <1>1, <1>3, <1>4, <1>8
<1>10. (m + 1) % W = (b + e) % W
  BY <1>1, <1>5, <1>6, <1>7, <1>8, <1>9
<1>11. (n + (W - 1)) % W = (b - e) % W
  BY <1>1, <1>5, <1>6, <1>7, <1>8, <1>9
<1>12. QED  BY <1>1, <1>4, <1>10, <1>11 DEF d, e, w, m, n

\* Registers that are equal to their bases are in step.
LEMMA FreshInStep ==
  ASSUME TypeInv, NEW c \in Channels,
         ch[c].base_address = ch[c].current_address, ch[c].base_counter = ch[c].current_counter
  PROVE  InStep(c)
<1>1. ch[c].base_address \in Addr /\ ch[c].base_counter \in Addr
  BY DEF TypeInv, Channel
<1>2. Displacement(c) = 0
  BY <1>1, Ring, Widths DEF Displacement
<1>3. QED  BY <1>1, <1>2, Ring, Widths DEF InStep

LEMMA InStepKept ==
  ASSUME TypeInv, NEW x, Legal(x), Tick(x), NEW c \in Channels, InStep(c), ~Sets(c, x)
  PROVE  InStep(c)'
<1> DEFINE s == ch[c]
           t == ch'[c]
<1>1. /\ s.base_address \in Addr /\ s.current_address \in Addr
      /\ s.base_counter \in Addr /\ s.current_counter \in Addr /\ s.dec \in BOOLEAN
  BY DEF TypeInv, Channel
<1>2. ~Loads(c, x, "mode") /\ ~Loads(c, x, "address") /\ ~Loads(c, x, "counter")
  BY DEF Sets, Loads
<1>3. /\ t.base_address = s.base_address /\ t.base_counter = s.base_counter /\ t.dec = s.dec
      /\ t.current_address = AddressNext(c, x) /\ t.current_counter = CounterNext(c, x)
  BY <1>2, Fields DEF Written, Loads
<1>4. CASE tc(c) /\ s.auto
  <2>1. t.current_address = s.base_address /\ t.current_counter = s.base_counter
    BY <1>2, <1>3, <1>4 DEF AddressNext, CounterNext
  <2>2. (s.base_counter - s.base_counter) % W = 0
    <3>1. s.base_counter - s.base_counter = 0
      BY <1>1, Widths
    <3>2. 0 % W = 0
      BY Widths
    <3>3. QED  BY <3>1, <3>2
  <2>3. (s.base_address - 0) % W = s.base_address /\ (s.base_address + 0) % W = s.base_address
    BY <1>1, Ring, Widths
  <2>4. QED  BY <1>3, <2>1, <2>2, <2>3 DEF InStep, Displacement
<1>5. CASE ~(tc(c) /\ s.auto) /\ update(c)
  <2>1. /\ t.current_address = (s.current_address + (IF s.dec THEN W - 1 ELSE 1)) % W
        /\ t.current_counter = (s.current_counter + W - 1) % W
    BY <1>2, <1>3, <1>5 DEF AddressNext, CounterNext
  <2> DEFINE b == s.base_address
             d == (s.base_counter - s.current_counter) % W
             e == (s.base_counter - ((s.current_counter + W - 1) % W)) % W
  <2>2. /\ (((b + d) % W) + 1) % W = (b + e) % W
        /\ (((b - d) % W) + (W - 1)) % W = (b - e) % W
    BY <1>1, OneMore
  <2>3. s.current_address = (IF s.dec THEN b - d ELSE b + d) % W
    BY DEF InStep, Displacement
  <2>4. InStep(c)' <=> t.current_address = (IF s.dec THEN b - e ELSE b + e) % W
    BY <1>3, <2>1 DEF InStep, Displacement
  <2> HIDE DEF d, e, b
  <2>5. CASE s.dec
    BY <2>1, <2>2, <2>3, <2>4, <2>5
  <2>6. CASE ~s.dec
    BY <2>1, <2>2, <2>3, <2>4, <2>6
  <2>7. QED  BY <1>1, <2>5, <2>6
<1>6. CASE ~update(c)
  <2>1. t.current_address = s.current_address /\ t.current_counter = s.current_counter
    BY <1>2, <1>3, <1>6 DEF AddressNext, CounterNext, tc
  <2>2. QED  BY <1>3, <2>1 DEF InStep, Displacement
<1>7. QED  BY <1>4, <1>5, <1>6

\* The bytes written to a channel at rest, one after the other.
LEMMA Writing ==
  ASSUME TypeInv, NEW x, Legal(x), Tick(x), NEW c \in Channels, ~busy(c)
  PROVE  LET s == ch[c]
             t == ch'[c]
             f == flip_flop[ControllerOf(c)]
             g == flip_flop'[ControllerOf(c)]
         IN  /\ IF Loads(c, x, "address")
                   THEN /\ SameByte(t.base_address, t.current_address, g)
                        /\ SameByte(s.base_address, s.current_address, f)
                             => t.base_address = t.current_address
                   ELSE t.base_address = s.base_address /\ t.current_address = s.current_address
             /\ IF Loads(c, x, "counter")
                   THEN /\ SameByte(t.base_counter, t.current_counter, g)
                        /\ SameByte(s.base_counter, s.current_counter, f)
                             => t.base_counter = t.current_counter
                   ELSE t.base_counter = s.base_counter /\ t.current_counter = s.current_counter
<1> DEFINE s == ch[c]
           t == ch'[c]
           f == flip_flop[ControllerOf(c)]
           g == flip_flop'[ControllerOf(c)]
<1>1. /\ s.base_address \in Addr /\ s.current_address \in Addr
      /\ s.base_counter \in Addr /\ s.current_counter \in Addr /\ f \in BOOLEAN
  BY DEF TypeInv, Channel, ControllerOf, Controller
<1>2. /\ t.base_address = Written(c, x, "address", s.base_address)
      /\ t.current_address = AddressNext(c, x)
      /\ t.base_counter = Written(c, x, "counter", s.base_counter)
      /\ t.current_counter = CounterNext(c, x)
  BY Fields
<1>3. ~update(c) /\ ~tc(c)
  BY DEF update, tc, busy
<1>4. Loads(c, x, "address") \/ Loads(c, x, "counter") =>
        x.val \in 0 .. B - 1 /\ g = ~f
  <2>1. g = FlipFlopNext(ControllerOf(c), x)
    BY DEF Tick, ControllerOf, Controller
  <2> SUFFICES ASSUME Loads(c, x, "address") \/ Loads(c, x, "counter")
               PROVE  x.val \in 0 .. B - 1 /\ g = ~f
    OBVIOUS
  <2>2. /\ x.kind \in {"address", "counter"} /\ x.ch = c
        /\ x.ctl = ControllerOf(c) /\ x.val \in 0 .. B - 1
    BY DEF Loads, Legal, WellFormed, NoAccess
  <2>3. FlipFlopNext(ControllerOf(c), x) = ~f
    BY <2>2 DEF FlipFlopNext
  <2>4. QED  BY <2>1, <2>2, <2>3
<1>5. ASSUME NEW u \in Addr, NEW v \in Addr, NEW b \in 0 .. B - 1
      PROVE  /\ SameByte(SetByte(u, f, b), SetByte(v, f, b), ~f)
             /\ SameByte(u, v, f) => SetByte(u, f, b) = SetByte(v, f, b)
  <2>1. /\ SetByte(u, f, b) \in Addr /\ SetByte(v, f, b) \in Addr
        /\ SetByte(u, f, b) \div B = (IF f THEN b ELSE u \div B)
        /\ SetByte(v, f, b) \div B = (IF f THEN b ELSE v \div B)
        /\ SetByte(u, f, b) % B = (IF f THEN u % B ELSE b)
        /\ SetByte(v, f, b) % B = (IF f THEN v % B ELSE b)
    BY <1>1, <1>5, ByteSet
  <2>2. QED  BY <1>1, <2>1, SameBytes DEF SameByte
<1>6. CASE Loads(c, x, "address")
  <2>1. /\ t.base_address = SetByte(s.base_address, f, x.val)
        /\ t.current_address = SetByte(s.current_address, f, x.val)
    BY <1>2, <1>6 DEF Written, AddressNext, Loads
  <2>2. /\ t.base_counter = s.base_counter /\ t.current_counter = s.current_counter
        /\ ~Loads(c, x, "counter")
    BY <1>2, <1>3, <1>6 DEF Written, CounterNext, Loads
  <2>3. x.val \in 0 .. B - 1 /\ g = ~f
    BY <1>4, <1>6
  <2>4. /\ SameByte(t.base_address, t.current_address, g)
        /\ SameByte(s.base_address, s.current_address, f) => t.base_address = t.current_address
    <3> HIDE DEF s, t, f, g
    <3>1. QED  BY <1>1, <1>5, <2>1, <2>3
  <2>5. QED  BY <1>6, <2>2, <2>4
<1>7. CASE Loads(c, x, "counter")
  <2>1. /\ t.base_counter = SetByte(s.base_counter, f, x.val)
        /\ t.current_counter = SetByte(s.current_counter, f, x.val)
    BY <1>2, <1>7 DEF Written, CounterNext, Loads
  <2>2. /\ t.base_address = s.base_address /\ t.current_address = s.current_address
        /\ ~Loads(c, x, "address")
    BY <1>2, <1>3, <1>7 DEF Written, AddressNext, Loads
  <2>3. x.val \in 0 .. B - 1 /\ g = ~f
    BY <1>4, <1>7
  <2>4. /\ SameByte(t.base_counter, t.current_counter, g)
        /\ SameByte(s.base_counter, s.current_counter, f) => t.base_counter = t.current_counter
    <3> HIDE DEF s, t, f, g
    <3>1. QED  BY <1>1, <1>5, <2>1, <2>3
  <2>5. QED  BY <1>7, <2>2, <2>4
<1>8. CASE ~Loads(c, x, "address") /\ ~Loads(c, x, "counter")
  BY <1>2, <1>3, <1>8 DEF Written, AddressNext, CounterNext, Loads
<1>9. QED  BY <1>6, <1>7, <1>8

LEMMA MaskedRests ==
  ASSUME TypeInv, NEW x, Legal(x), Tick(x), NEW c \in Channels, ~busy(c), c \in mask
  PROVE  ~busy(c)'
BY Fields DEF StateNext, busy, Granted, Requesting

\* How the window of a channel grows by an access.
LEMMA Windows ==
  ASSUME NEW p \in Programs, NEW i \in 1 .. Len(p), NEW c \in Channels
  PROVE  /\ Dirty(p, c, i + 1) <=> ~Unmasks(c, p[i]) /\ (Dirty(p, c, i) \/ Sets(c, p[i]))
         /\ \A kind \in {"address", "counter"} : Whole(p, c, i + 1, kind) =>
              /\ ~Unmasks(c, p[i])
              /\ \/ Whole(p, c, i, kind)
                 \/ i > 1 /\ Loads(c, p[i - 1], kind) /\ Loads(c, p[i], kind)
         /\ \A kind \in {"address", "counter"} : Whole(p, c, i, kind) => Dirty(p, c, i)
<1>1. Len(p) \in Nat /\ i \in Nat /\ i >= 1
  BY ProgramFacts
<1>2. Window(p, c, i + 1) = IF Unmasks(c, p[i]) THEN {} ELSE Window(p, c, i) \cup {i}
  <2>1. CASE Unmasks(c, p[i])
    BY <1>1, <2>1 DEF Window
  <2>2. CASE ~Unmasks(c, p[i])
    <3>1. ASSUME NEW j \in Window(p, c, i + 1)
          PROVE  j \in Window(p, c, i) \cup {i}
      BY <1>1, <3>1 DEF Window
    <3>2. ASSUME NEW j \in Window(p, c, i)
          PROVE  j \in Window(p, c, i + 1)
      BY <1>1, <2>2, <3>2 DEF Window
    <3>3. i \in Window(p, c, i + 1)
      BY <1>1, <2>2 DEF Window
    <3>4. QED  BY <2>2, <3>1, <3>2, <3>3
  <2>3. QED  BY <2>1, <2>2
<1>3. Window(p, c, i) \subseteq 1 .. i - 1
  BY DEF Window
<1>4. Dirty(p, c, i + 1) <=> ~Unmasks(c, p[i]) /\ (Dirty(p, c, i) \/ Sets(c, p[i]))
  BY <1>2 DEF Dirty
<1>5. ASSUME NEW kind \in {"address", "counter"}, Whole(p, c, i + 1, kind)
      PROVE  /\ ~Unmasks(c, p[i])
             /\ \/ Whole(p, c, i, kind)
                \/ i > 1 /\ Loads(c, p[i - 1], kind) /\ Loads(c, p[i], kind)
  <2>1. PICK j \in Window(p, c, i + 1) : /\ j + 1 \in Window(p, c, i + 1)
                                        /\ Loads(c, p[j], kind) /\ Loads(c, p[j + 1], kind)
    BY <1>5 DEF Whole
  <2>2. ~Unmasks(c, p[i]) /\ j \in Window(p, c, i) \cup {i} /\ j + 1 \in Window(p, c, i) \cup {i}
    BY <1>2, <2>1
  <2>3. j \in 1 .. i - 1
    BY <1>1, <1>3, <2>2
  <2>4. CASE j + 1 = i
    BY <1>1, <2>1, <2>2, <2>3, <2>4
  <2>5. CASE j + 1 # i
    BY <1>1, <2>1, <2>2, <2>3, <2>5 DEF Whole
  <2>6. QED  BY <2>4, <2>5
<1>6. \A kind \in {"address", "counter"} : Whole(p, c, i, kind) => Dirty(p, c, i)
  BY DEF Whole, Dirty, Loads, Sets
<1>7. QED  BY <1>4, <1>5, <1>6

LEMMA LastWritten ==
  ASSUME NEW p \in Programs, NEW i \in 1 .. Len(p) + 1, NEW c \in Channels, i > 1,
         Loads(c, p[i - 1], "address") \/ Loads(c, p[i - 1], "counter")
  PROVE  Dirty(p, c, i)
<1>1. Sets(c, p[i - 1]) /\ ~Unmasks(c, p[i - 1])
  BY DEF Loads, Sets, Unmasks
<1>2. i - 1 \in Window(p, c, i)
  BY <1>1, ProgramFacts DEF Window
<1>3. QED  BY <1>1, <1>2 DEF Dirty

\* A cycle in which the software does nothing.
LEMMA ProgrammedIdle ==
  ASSUME TypeInv, Tick(NoAccess), NEW p \in Programs, NEW i \in 1 .. Len(p) + 1,
         NEW c \in Channels, ProgrammedChannel(p, i, c)
  PROVE  ProgrammedChannel(p, i, c)'
<1> DEFINE s == ch[c]
           t == ch'[c]
           f == flip_flop[ControllerOf(c)]
           g == flip_flop'[ControllerOf(c)]
<1>1. /\ Legal(NoAccess) /\ ~Sets(c, NoAccess) /\ ~Unmasks(c, NoAccess)
      /\ ~Loads(c, NoAccess, "address") /\ ~Loads(c, NoAccess, "counter")
  BY DEF Legal, NoAccess, Sets, Unmasks, Loads
<1>2. g = f
  <2>1. ControllerOf(c) \in Controller
    BY DEF ControllerOf, Controller
  <2>2. FlipFlopNext(ControllerOf(c), NoAccess) = f
    BY DEF FlipFlopNext, NoAccess
  <2>3. QED  BY <2>1, <2>2 DEF Tick
<1>3. CASE Dirty(p, c, i)
  <2>1. c \in mask /\ ~busy(c)
    BY <1>3 DEF ProgrammedChannel
  <2>2. c \in mask' /\ ~busy(c)'
    BY <1>1, <2>1, MaskKept, MaskedRests
  <2>3. /\ t.base_address = s.base_address /\ t.current_address = s.current_address
        /\ t.base_counter = s.base_counter /\ t.current_counter = s.current_counter
    BY <1>1, <2>1, Writing
  <2>4. QED  BY <1>2, <1>3, <2>2, <2>3 DEF ProgrammedChannel
<1>4. CASE ~Dirty(p, c, i)
  <2>1. InStep(c)'
    BY <1>1, <1>4, InStepKept DEF ProgrammedChannel
  <2>2. ~Whole(p, c, i, "address") /\ ~Whole(p, c, i, "counter")
    BY <1>4 DEF Whole, Dirty, Loads, Sets
  <2>3. ~(i > 1 /\ (Loads(c, p[i - 1], "address") \/ Loads(c, p[i - 1], "counter")))
    BY <1>4, LastWritten
  <2>4. QED  BY <1>4, <2>1, <2>2, <2>3 DEF ProgrammedChannel
<1>5. QED  BY <1>3, <1>4

\* A cycle with the access at i.
LEMMA ProgrammedAccess ==
  ASSUME TypeInv, NEW p \in Programs, NEW i \in 1 .. Len(p), Settled(p[i]), Tick(p[i]),
         NEW c \in Channels, ProgrammedChannel(p, i, c)
  PROVE  ProgrammedChannel(p, i + 1, c)'
<1> DEFINE x == p[i]
           s == ch[c]
           t == ch'[c]
           f == flip_flop[ControllerOf(c)]
           g == flip_flop'[ControllerOf(c)]
<1>1. /\ Legal(x) /\ i \in Nat /\ i >= 1 /\ (i + 1) - 1 = i /\ i # Len(p) + 1
      /\ i \in 1 .. Len(p) + 1
  <2>1. Len(p) \in Nat /\ WellFormed(p[i])
    BY ProgramFacts
  <2>2. QED  BY <2>1 DEF Legal
<1>2. /\ Dirty(p, c, i + 1) <=> ~Unmasks(c, x) /\ (Dirty(p, c, i) \/ Sets(c, x))
      /\ \A kind \in {"address", "counter"} :
           /\ Whole(p, c, i + 1, kind) =>
                /\ ~Unmasks(c, x)
                /\ \/ Whole(p, c, i, kind)
                   \/ i > 1 /\ Loads(c, p[i - 1], kind) /\ Loads(c, x, kind)
           /\ Whole(p, c, i, kind) => Dirty(p, c, i)
  BY Windows
<1>3. CASE Unmasks(c, x)
  <2>1. ~Sets(c, x) /\ ~Loads(c, x, "address") /\ ~Loads(c, x, "counter")
    BY <1>3 DEF Unmasks, Sets, Loads
  <2>2. InStep(c)
    <3>1. CASE Dirty(p, c, i)
      <4>1. Whole(p, c, i, "address") /\ Whole(p, c, i, "counter")
        BY <1>1, <1>3, <3>1, ProgramFacts DEF Orderly
      <4>2. QED  BY <4>1, FreshInStep DEF ProgrammedChannel
    <3>2. QED  BY <3>1 DEF ProgrammedChannel
  <2>3. InStep(c)'
    BY <1>1, <2>1, <2>2, InStepKept
  <2>4. ~Dirty(p, c, i + 1) /\ ~Whole(p, c, i + 1, "address") /\ ~Whole(p, c, i + 1, "counter")
    BY <1>2, <1>3
  <2>5. QED  BY <1>1, <2>1, <2>3, <2>4 DEF ProgrammedChannel
<1>4. CASE ~Unmasks(c, x) /\ (Sets(c, x) \/ Dirty(p, c, i))
  <2>1. c \in mask /\ ~busy(c)
    <3>1. CASE Sets(c, x)
      BY <3>1 DEF Settled, Sets
    <3>2. CASE Dirty(p, c, i)
      BY <3>2 DEF ProgrammedChannel
    <3>3. QED  BY <1>4, <3>1, <3>2
  <2>2. c \in mask' /\ ~busy(c)' /\ Dirty(p, c, i + 1)
    BY <1>1, <1>2, <1>4, <2>1, MaskKept, MaskedRests
  <2>3. /\ IF Loads(c, x, "address")
             THEN /\ SameByte(t.base_address, t.current_address, g)
                  /\ SameByte(s.base_address, s.current_address, f)
                       => t.base_address = t.current_address
             ELSE t.base_address = s.base_address /\ t.current_address = s.current_address
        /\ IF Loads(c, x, "counter")
             THEN /\ SameByte(t.base_counter, t.current_counter, g)
                  /\ SameByte(s.base_counter, s.current_counter, f)
                       => t.base_counter = t.current_counter
             ELSE t.base_counter = s.base_counter /\ t.current_counter = s.current_counter
    BY <1>1, <2>1, Writing
  <2>4. Whole(p, c, i + 1, "address") => t.base_address = t.current_address
    <3>1. SUFFICES ASSUME Whole(p, c, i + 1, "address")
                   PROVE  t.base_address = t.current_address
      OBVIOUS
    <3>2. CASE Whole(p, c, i, "address")
      BY <2>3, <3>2 DEF ProgrammedChannel, SameByte
    <3>3. CASE i > 1 /\ Loads(c, p[i - 1], "address") /\ Loads(c, x, "address")
      BY <2>3, <3>3 DEF ProgrammedChannel
    <3>4. QED  BY <1>2, <3>1, <3>2, <3>3
  <2>5. Whole(p, c, i + 1, "counter") => t.base_counter = t.current_counter
    <3>1. SUFFICES ASSUME Whole(p, c, i + 1, "counter")
                   PROVE  t.base_counter = t.current_counter
      OBVIOUS
    <3>2. CASE Whole(p, c, i, "counter")
      BY <2>3, <3>2 DEF ProgrammedChannel, SameByte
    <3>3. CASE i > 1 /\ Loads(c, p[i - 1], "counter") /\ Loads(c, x, "counter")
      BY <2>3, <3>3 DEF ProgrammedChannel
    <3>4. QED  BY <1>2, <3>1, <3>2, <3>3
  <2>6. QED  BY <1>1, <2>2, <2>3, <2>4, <2>5 DEF ProgrammedChannel
<1>5. CASE ~Unmasks(c, x) /\ ~Sets(c, x) /\ ~Dirty(p, c, i)
  <2>1. InStep(c)'
    BY <1>1, <1>5, InStepKept DEF ProgrammedChannel
  <2>2. ~Loads(c, x, "address") /\ ~Loads(c, x, "counter")
    BY <1>5 DEF Loads, Sets
  <2>3. ~Dirty(p, c, i + 1) /\ ~Whole(p, c, i + 1, "address") /\ ~Whole(p, c, i + 1, "counter")
    BY <1>2, <1>5, <2>2
  <2>4. QED  BY <1>1, <2>1, <2>2, <2>3 DEF ProgrammedChannel
<1>6. QED  BY <1>3, <1>4, <1>5

LEMMA ScriptedNext ==
  ASSUME TypeInv, Scripted, Compute \/ Access
  PROVE  Scripted'
<1>1. CASE script = <<>> /\ \A c \in Channels : InStep(c)
  <2>1. Tick(NoAccess) /\ script' = <<>>
    BY <1>1 DEF Compute, Access
  <2>2. \A c \in Channels : Legal(NoAccess) /\ ~Sets(c, NoAccess)
    BY DEF Legal, NoAccess, Sets
  <2>3. \A c \in Channels : InStep(c)'
    BY <1>1, <2>1, <2>2, InStepKept
  <2>4. QED  BY <2>1, <2>3 DEF Scripted
<1>2. ASSUME NEW p \in Programs, NEW i \in 1 .. Len(p) + 1, Rest(p, i), Programmed(p, i)
      PROVE  Scripted'
  <2>1. CASE Compute
    <3>1. Tick(NoAccess) /\ script' = script
      BY <2>1 DEF Compute
    <3>2. Programmed(p, i)'
      BY <1>2, <3>1, ProgrammedIdle DEF Programmed
    <3>3. Rest(p, i)'
      BY <1>2, <3>1 DEF Rest
    <3>4. QED  BY <3>2, <3>3 DEF Scripted
  <2>2. CASE Access
    <3>1. /\ script # <<>> /\ script' = Tail(script) /\ Len(p) \in Nat
          /\ Settled(Head(script)) /\ Tick(Head(script))
      BY <2>2, ProgramFacts DEF Access
    <3>2. Len(script) > 0 /\ script[1] = p[i] /\ Head(script) = script[1]
      BY <1>2, <3>1 DEF Rest
    <3>3. i \in 1 .. Len(p) /\ i + 1 \in 1 .. Len(p) + 1
      BY <1>2, <3>1, <3>2 DEF Rest
    <3>4. Programmed(p, i + 1)'
      BY <1>2, <3>1, <3>2, <3>3, ProgrammedAccess DEF Programmed
    <3>5. Rest(p, i + 1)'
      <4>1. /\ Tail(script) \in Seq({p[k] : k \in 1 .. Len(p)})
            /\ Len(Tail(script)) = Len(script) - 1
            /\ \A k \in 1 .. Len(script) - 1 : Tail(script)[k] = script[k + 1]
        BY <1>2, <3>1 DEF Rest
      <4>2. Len(script) = Len(p) + 1 - i
        BY <1>2 DEF Rest
      <4>3. \A k \in 1 .. Len(script) - 1 : Tail(script)[k] = p[(i + 1) + k - 1]
        <5> SUFFICES ASSUME NEW k \in 1 .. Len(script) - 1
                     PROVE  Tail(script)[k] = p[(i + 1) + k - 1]
          OBVIOUS
        <5>1. k + 1 \in 1 .. Len(script) /\ i + (k + 1) - 1 = (i + 1) + k - 1
          BY <3>1, <3>3, <4>2
        <5>2. script[k + 1] = p[i + (k + 1) - 1]
          BY <1>2, <5>1 DEF Rest
        <5>3. QED  BY <4>1, <5>1, <5>2
      <4>4. Len(Tail(script)) = Len(p) + 1 - (i + 1)
        BY <3>1, <3>3, <4>1, <4>2
      <4>5. QED  BY <3>1, <4>1, <4>3, <4>4 DEF Rest
    <3>6. QED  BY <3>3, <3>4, <3>5 DEF Scripted
  <2>3. QED  BY <2>1, <2>2
<1>3. QED  BY <1>1, <1>2 DEF Scripted

\* A new program finds every channel in step.
LEMMA ScriptedBegin ==
  ASSUME TypeInv, Scripted, NEW q \in Programs, Begin(q)
  PROVE  Scripted'
<1>1. script = <<>> /\ script' = q /\ ch' = ch /\ flip_flop' = flip_flop /\ mask' = mask
  BY DEF Begin, registers
<1>2. ASSUME NEW c \in Channels
      PROVE  InStep(c)
  <2>1. CASE \E p \in Programs : \E i \in 1 .. Len(p) + 1 : Rest(p, i) /\ Programmed(p, i)
    <3>1. PICK p \in Programs : \E i \in 1 .. Len(p) + 1 : Rest(p, i) /\ Programmed(p, i)
      BY <2>1
    <3>2. PICK i \in 1 .. Len(p) + 1 : Rest(p, i) /\ Programmed(p, i)
      BY <3>1
    <3>3. Len(p) \in Nat /\ Orderly(p)
      BY ProgramFacts
    <3>4. i = Len(p) + 1
      BY <1>1, <3>2, <3>3 DEF Rest
    <3>5. ProgrammedChannel(p, i, c)
      BY <3>2 DEF Programmed
    <3>6. CASE Dirty(p, c, i)
      <4>1. Whole(p, c, i, "address") /\ Whole(p, c, i, "counter")
        BY <3>3, <3>4, <3>6 DEF Orderly
      <4>2. QED  BY <3>5, <4>1, FreshInStep DEF ProgrammedChannel
    <3>7. QED  BY <3>5, <3>6 DEF ProgrammedChannel
  <2>2. QED  BY <2>1 DEF Scripted
<1>3. Len(q) \in Nat /\ DOMAIN q = 1 .. Len(q)
  BY ProgramFacts
<1>4. 1 \in 1 .. Len(q) + 1
  BY <1>3
<1>5. Programmed(q, 1)'
  <2> SUFFICES ASSUME NEW c \in Channels
               PROVE  ProgrammedChannel(q, 1, c)'
    BY DEF Programmed
  <2>1. Window(q, c, 1) = {}
    BY DEF Window
  <2>2. InStep(c)'
    BY <1>1, <1>2 DEF InStep, Displacement
  <2>3. QED  BY <2>1, <2>2 DEF ProgrammedChannel, Dirty, Whole
<1>6. Rest(q, 1)'
  <2>1. q \in Seq({q[k] : k \in 1 .. Len(q)})
    BY <1>3, ProgramFacts
  <2>2. QED  BY <1>1, <1>3, <2>1 DEF Rest
<1>7. QED  BY <1>4, <1>5, <1>6 DEF Scripted

----------------------------------------------------------------------------
(* The invariant.                                                          *)

LEMMA InitIInv == Init => IInv
<1> SUFFICES ASSUME Init
             PROVE  IInv
  OBVIOUS
<1>1. TypeInv
  <2>1. ResetChannel \in Channel
    BY Widths DEF ResetChannel, Channel
  <2>2. ch \in [Channels -> Channel] /\ page \in [Channels -> Pages]
    BY <2>1, BoundsAssumption DEF Init
  <2>3. mem_cell \in Cells
    BY Widths, BoundsAssumption DEF Init, Cells
  <2>4. flip_flop \in [Controller -> BOOLEAN] /\ mem \in [Cells -> Int]
    BY DataAssumption DEF Init
  <2>5. /\ bus \in {"IDLE", "CPU", "READ_DMA", "WRITE_DMA"} /\ latency \in Nat /\ reply \in Int
        /\ mem_writedata \in Int /\ disabled \subseteq Controller /\ mask \subseteq Channels \cup {4}
        /\ pending = {} /\ terminated = {} /\ finished = {}
    BY DEF Init
  <2>6. mem_read \in BOOLEAN /\ mem_write \in BOOLEAN
    BY DEF Init
  <2>7. QED  BY <2>2, <2>3, <2>4, <2>5, <2>6 DEF TypeInv
<1>2. \A c \in Channels : /\ ch[c].state = 0 /\ ~ch[c].ack /\ ~ch[c].dma_read /\ ~ch[c].dma_write
                          /\ ch[c].base_address = ch[c].current_address
                          /\ ch[c].base_counter = ch[c].current_counter
  BY DEF Init, ResetChannel
<1>3. Alone /\ Steps /\ Moved /\ Port /\ Resting
  BY <1>2 DEF Init, Alone, Steps, Moved, Port, Resting, busy
<1>4. Scripted
  BY <1>1, <1>2, FreshInStep DEF Init, Scripted
<1>5. QED  BY <1>1, <1>3, <1>4 DEF IInv

LEMMA Quiet ==
  ASSUME IInv, \/ \E p \in Programs : Begin(p)
               \/ UNCHANGED vars
  PROVE  (TypeInv /\ Alone /\ Steps /\ Moved /\ Port /\ Resting)'
<1>1. UNCHANGED <<ch, registers, port, bus, latency, reply, mem, finished>>
  BY DEF Begin, vars
<1>2. TypeInv'
  BY <1>1 DEF IInv, TypeInv, registers, port
<1>3. Alone' /\ Steps' /\ Resting'
  BY <1>1 DEF IInv, Alone, Steps, Resting, registers, busy
<1>4. Moved' /\ Port'
  BY <1>1 DEF IInv, Moved, Port, CurrentCell, registers, port
<1>5. QED  BY <1>2, <1>3, <1>4

LEMMA NextIInv == IInv /\ [Next]_vars => IInv'
<1> SUFFICES ASSUME IInv, [Next]_vars
             PROVE  IInv'
  OBVIOUS
<1> USE DEF IInv
<1>1. ASSUME NEW x, Legal(x), Tick(x), Compute \/ Access
      PROVE  IInv'
  BY <1>1, TickType, AloneNext, StepsNext, MovedNext, PortNextInv, RestingNext, ScriptedNext
<1>2. CASE Compute
  BY <1>1, <1>2 DEF Compute, Legal
<1>3. CASE Access
  BY <1>1, <1>3, LegalNext DEF Access
<1>4. ASSUME NEW p \in Programs, Begin(p)
      PROVE  IInv'
  BY <1>4, Quiet, ScriptedBegin
<1>5. CASE UNCHANGED vars
  <2>1. Scripted'
    <3>1. ch' = ch /\ flip_flop' = flip_flop /\ mask' = mask /\ script' = script
      BY <1>5 DEF vars, registers
    <3>2. \A c \in Channels : InStep(c)' <=> InStep(c)
      BY <3>1 DEF InStep, Displacement
    <3>3. ASSUME NEW p, NEW i
          PROVE  Rest(p, i)' <=> Rest(p, i)
      BY <3>1 DEF Rest
    <3>4. ASSUME NEW p, NEW i
          PROVE  Programmed(p, i) => Programmed(p, i)'
      BY <3>1, <3>2 DEF Programmed, ProgrammedChannel, busy
    <3>5. CASE script = <<>> /\ \A c \in Channels : InStep(c)
      BY <3>1, <3>2, <3>5 DEF Scripted
    <3>6. ASSUME NEW p \in Programs, NEW i \in 1 .. Len(p) + 1, Rest(p, i), Programmed(p, i)
          PROVE  Scripted'
      BY <3>3, <3>4, <3>6 DEF Scripted
    <3>7. QED  BY <3>5, <3>6 DEF Scripted
  <2>2. QED  BY <1>5, <2>1, Quiet
<1>6. QED  BY <1>2, <1>3, <1>4, <1>5 DEF Next

\* In every reachable state at most one channel is in a transfer, the port and the
\* bus serve that channel's cell (dma.v:735-781, avalon_mem.v), and what a program
\* has still to write accounts for every channel whose registers are out of step.
THEOREM Invariant == Spec => []IInv
<1>1. Init => IInv
  BY InitIInv
<1>2. IInv /\ [Next]_vars => IInv'
  BY NextIInv
<1>3. QED  BY <1>1, <1>2, PTL DEF Spec

\* Whatever the latency of the memory and however the processor takes the bus in
\* between, an acknowledged device has the content of its channel's own cell, or
\* has its data there (dma.v:443-560).
THEOREM Faithful == Spec => []TransferFaithful
<1>1. IInv => TransferFaithful
  BY DEF IInv, Steps, Moved, TransferFaithful
<1>2. QED  BY <1>1, Invariant, PTL

\* Memory changes only in the cell of a channel that is writing, also when the
\* bus takes a request that is on the port a cycle too long (dma.v:735-781).
THEOREM OwnCell == Spec => OnlyOwnCell
<1>1. ASSUME IInv, [Next]_vars
      PROVE  [\A l \in Cells : mem'[l] # mem[l] =>
                \E c \in Channels : busy(c) /\ ch[c].transfer = 1 /\ l = CurrentCell(c)]_vars
  <2> SUFFICES ASSUME NEW l \in Cells, mem'[l] # mem[l]
               PROVE  \E c \in Channels : busy(c) /\ ch[c].transfer = 1 /\ l = CurrentCell(c)
    OBVIOUS
  <2>1. PICK x : Tick(x)
    BY <1>1 DEF Next, Compute, Access, Begin, vars
  <2>2. PICK c \in Channels : /\ ch[c].state \in {4, 6} /\ ch[c].transfer = 1
                              /\ mem' = [mem EXCEPT ![CurrentCell(c)] = ch[c].dma_writedata]
    BY <1>1, <2>1, MemoryStep DEF IInv
  <2>3. l = CurrentCell(c)
    BY <1>1, <2>2 DEF IInv, TypeInv
  <2>4. QED  BY <2>2, <2>3 DEF busy
<1>2. QED  BY <1>1, Invariant, PTL DEF Spec, OnlyOwnCell

\* A channel that may move is as far from its base as its counter is, at any width
\* of the registers and after any number of terminal counts, and one that is
\* finished moves nothing (dma.v:377-442).
THEOREM InStepAlways == Spec => []RunsInStep
<1>1. ASSUME IInv
      PROVE  RunsInStep
  <2>1. ASSUME NEW c \in Channels \ mask
        PROVE  InStep(c)
    BY <1>1, <2>1 DEF IInv, Scripted, Programmed, ProgrammedChannel
  <2>2. QED  BY <1>1, <2>1 DEF IInv, Resting, RunsInStep, InStep
<1>2. QED  BY <1>1, Invariant, PTL

=============================================================================
