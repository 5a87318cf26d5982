# A TLA+ development of the ao486 core and its firmware

This directory holds TLA+ models of the ao486 PC (a 486 class processor with the
chipset of a PC, written in Verilog under `rtl/`, and the system BIOS, the video BIOS and the
shared folder's DOS driver that run on it, under `sw/`), the TLC configurations that check
them, and proofs checked by TLAPS.  `PROJECT.json` lists the runs, which source lines each
definition models, the mutants that show that each property can fail, and the hazards.

## 1. The system

### The hardware

The whole core is synchronous.  Almost every register is written by one `always` block on
one clock, so concurrency is not a scheduler's: it is that *all* components take a step in
every cycle, that a value registered by one is seen by the next a cycle later, and that
the processor, eight DMA channels, the devices and the board's management processor meet at
a few shared places.

    devices --lines--> PIC --interrupt_do--> write stage --> exception unit --> pipeline
       |                ^ <--interrupt_done------------------------|               |
       |                |  port accesses (iobus)  <--------------------------------|
       |--dma_req--> DMA channels --port--> memory bus arbiter <-- data r/w, TLB, code fetch
                                               |  \--snoop--> L1 instruction cache
                                               v                    |  reset_prefetch
                                            L2 cache --> SDRAM      v
                                                               prefetcher --> decode

| Component | Source | State it keeps | Operations | What makes it correct |
|---|---|---|---|---|
| Interrupt controllers | `soc/pic.v` | request, service and mask registers, priority order, modes, initialisation position, the registered output and answer | port writes ICW1-4, OCW1-3, reads, poll; edges on lines; acknowledge | every acknowledge is answered by a request that may be served, or marked spurious; no request is lost; the urgent are served |
| Interrupt acceptance | `pipeline/write.v`, `exception.v` | three cycles from seeing the request to loading the vector | accept at an instruction boundary | the vector belongs to the request that is retired |
| Exception unit | `exception.v` | pending vector, error code, count and class of faults in delivery, shutdown | faults of four stages, interrupt, delivery finished | oldest fault wins; double fault and shutdown exactly when due |
| Port bus | `soc/iobus.v` | state, byte counter | split wide accesses into bytes, wait for devices | one strobe per byte, answers in place |
| Memory bus arbiter | `memory/avalon_mem.v` | state, burst counter, collected doublewords, the second half of a split write | data write, data read, code line, DMA read and write | behaves as a byte memory that does one request at a time |
| DMA controllers | `soc/dma.v` | per channel: base and current address and count, mode, state; masks, requests, terminal counts, pages; the registered port | port accesses, device requests, bus cycles | data moves between the right device and the right cell, count and address together, and stops at the end |
| Prefetcher, L1 cache | `memory/prefetch*.v`, `icache.v`, `cache/l1_icache.v`, `pipeline/fetch.v` | fetch window, limit, instruction FIFO, lines and tags, snoop FIFO | fetch, fill, snoop, restart | what is executed is what memory holds, in order, inside the segment |
| Paging | `memory/tlb.v`, `tlb_regs.v` | walker state, 32 entries, accessed and dirty bits | translate for four users, flush | agrees with the tables up to flushes; faults go to the access that asked |
| Data accesses | `memory/memory_read.v`, `memory_write.v` | halves of an access across a line | split, merge, abort | both halves or a fault |
| L2 cache | `cache/l2_cache.v` | tags, LRU, fill state, VGA serialiser | read, write through, VGA bytes, tag clearing | is the memory the arbiter assumes |
| Interval timer | `soc/pit*.v` | counting element, count and output latches, byte sequence flags | six modes, gate, latch and read back | periods and pulses as documented; latched values stay |
| Floppy controller | `soc/floppy.v` | command and result bytes, phase, sector buffer | commands, DMA or polled data, seeks | every command ends in its result phase |
| Disk controller | `soc/ide.v` | task file, buffer counters, status, request, irq | guest and management accesses | each command reaches the manager, each interrupt the guest |
| Clock, keyboard, joystick, serial, sound, video, FPU, host interface | `soc/*`, `ao486/fpu/*`, `hps_ext.v` | see the component notes in `PROJECT.json` | | |
| Instruction pipeline | `ao486/pipeline/*`, `autogen/*` | the architecture | the x86 instruction set | the x86 manuals |

### The firmware

The BIOS is one program with interrupt handlers on top of it: `sti` and the ends of services are
where they may come in, and what they share is the BIOS data area, the extended one and the
registers of the devices.  There is no scheduler and no lock but `cli`.  Below it are the same devices
the hardware section lists; a part of each is modelled with the service that drives it.

    program --INT n--> service ---ports---> 8042, floppy.v, ide.v, rtc.v, pit.v, vga.v
                         |   ^                        |
              BDA, EBDA  |   +--- handler <---IRQ-----+
                                                      +---- host (images, keys, clock)
    DOS --INT 2Fh--> MiSTerFS --shared memory--> host's file server

| Component | Source | State it keeps | Operations | What makes it correct |
|---|---|---|---|---|
| Keyboard and mouse services | `sw/sysbios/rombios.c` (INT 09h, 16h, 74h, 15h/C2h), `soc/ps2.v` | key buffer, shift and lamp flags, packet under way, mouse hook; both queues of the 8042, its output buffer and command byte | key and mouse interrupts, read, look, store, flags, mouse services | keys come out in order; bytes reach their readers; every call comes back |
| Diskette services | `rombios.c` (INT 13h, 0Eh, 08h), `soc/floppy.v`, channel 2 | recalibration and interrupt flags, motor count, media; the controller's command, results, line | reset, status, read, write, verify, format, parameters, type | data goes where it was asked; completions are not mixed up; the controller is left idle |
| Disk services and boot | `rombios.c` (INT 13h, 18h, 19h), `soc/ide.v` | device tables, geometry, CD emulation, status byte, boot sequence; both channels | detection, CHS and extended transfers, packets, emulation, boot | what moves is what was asked for; geometry is usable; the boot order is kept |
| Video services | `sw/vgabios/vgabios.c`, `soc/vga.v` | mode, page, cursors, size, fonts; the CRTC, attribute controller, DAC, memory | modes, cursor, pages, characters, scrolling, strings, pixels, colours, fonts, save and restore | the screen is the one the calls describe |
| Clock services | `rombios.c` (INT 1Ah, 08h, 70h, 15h/83h, 86h), `soc/rtc.v`, `soc/pit.v` | tick count, midnight flag, interval wait; registers, flags and enables of the clock | read and set ticks, time, date, alarm; waits | times are never half of one second and half of the next; no wait is given up early, and that of INT 15h/83h by less than two periods |
| Memory, ports, reset, POST | `rombios.c` | A20, sizes, shutdown code, ROM area, boot table; UART and printer | INT 15h/24h, 87h, 88h, E8xxh, 89h, INT 14h, INT 17h, reset | sizes agree, moves go where asked, a reset goes on where it was told |
| Shared folder | `sw/MiSTerFS/MiSTerFS.C` | chain of INT 2Fh, mapped drive, request number, searches, open files; shared memory | the redirector's functions, loading and unloading | files, positions and lists are the host's; loading disturbs nobody |
| Guest tools, VBE | `sw/sysctl`, `sw/sbctl`, `sw/mpuctl`, `sw/imgset`; `sw/vgabios/vbe.c`, `clext.c` | | | not modelled, see 6 |

**Hard behaviour**, and where it bites, is listed under `hazards` in `PROJECT.json`.
Most belong to six families:

* *one-cycle races*: two blocks want to change a register in the same cycle, and the order of
  the `else if`s decides (end of interrupt and acknowledge, terminal count and a mask or
  status access, register C of the clock, the disk's status);
* *registered handshakes*: a request is seen, or withdrawn, a cycle late (the DMA port, the
  three cycles of interrupt acceptance, the prefetch window);
* *split operations*: an access in pieces among others (unaligned words, cache line halves,
  byte pairs of timer counts);
* *things that must come*: an edge on the cascade line, an answer to a read, the end of
  a command, the end of a loop that has no limit;
* *state kept twice*: the screen in the data area and in the CRTC, a disk's geometry in three
  tables, the address of a buffer in a segment and in page registers, a search's token here and at the host;
* *handlers in between*: a BIOS service that turned interrupts on and reads, waits or writes back
  around what a handler changes.

What outlives a reset is little and modelled where it bites: the shutdown code and the clock in the CMOS, memory, and the
interrupt line of the clock (`BiosSystem`).  Resets of devices are operations.

## 2. The plan

Order of the modules.  Done:

1. `I8259`, `Pic` - the interrupt path: the most interleaved part, and where a lost or
   wrong answer stops a machine.  Proofs in `PicProofs`.
2. `AvalonMem` implementing `ByteMemory` - the shared memory bus.  Proofs in `AvalonMemProofs`.
3. `Dma` - the channels on that bus.  Proofs in `DmaProofs`.
4. `Exceptions` - oldest fault, classes, double fault, shutdown, and the arrival of
   interrupts between; continues the acceptance in `Pic`.  Proofs in `ExceptionsProofs`.
5. `BiosInput`, `BiosFloppy`, `BiosDisk` - the services with a device and a handler below them;
   `MCInt13` puts the two that share INT 13h side by side.  Proofs in `BiosInputProofs` and `BiosWireProofs`.
6. `VgaBios` implementing `TextScreen` - one screen kept in three places.
7. `MisterFs` - the redirector with its host.  Proofs in `MisterFsTypes` and `MisterFsProofs`.
8. `BiosClock`, and `BiosSystem` on top of it - the clock and the rest of the system BIOS.

Left, in this order: `Fetch` (prefetcher, instruction FIFO, L1 cache and snooping over a changing memory; abstract
specification: a reader that receives, in order, bytes that memory held after the last serialising restart);
`Paging` (the walker and its users with the TLB, against a reference translation); `L2Cache`, which implements the
external memory of `AvalonMem`; the counters of the interval timer.

Theorems.  Done: every safety property of `Pic`, `Dma`, `Exceptions`, `MisterFs` and `BiosInput`, and the refinement of `ByteMemory` by
`AvalonMem`.  Left, in this order: `MemoryTrue` and `StartsRight` of `BiosSystem`, `GeometryUsable` and `BootsInOrder` of `BiosDisk`.

## 3. The modules

A clocked design has one natural step, the clock edge.  In `Pic`, `Dma` and `Exceptions` a step *is* a
cycle, and the modules follow the source register by register: an operator `XNext` gives
the value register `X` takes at the edge from the registers and inputs before it, exactly the
`always` block of that register, and the actions say what the environment (processor, devices,
memory) does in the cycle.  In `AvalonMem` cycles in which the bus waits change nothing, so an
action is a cycle in which something happens.

In the modules of the firmware a step is as large as nothing can come between: a service that runs with
interrupts off and waits for no device is one action, one that turns interrupts on, waits or polls is cut
there, with `cpu.pc` (and a list of what is still to do) saying where it is.  Handlers are actions on top of it.  Each of
these modules has a variable `hist` with the history the properties speak of (what was typed, what moved, what passed),
which no other variable depends on except where it enforces a bound.

### I8259 and Pic

`I8259` is one chip: a record with a field for every register of `i8259` in `pic.v`, and an
operator for each `always` block; `ClockChip(s, b, in, done)` is the chip after a cycle with
port access `b`, line levels `in` and acknowledge `done`.  A port access is a record: the
decoding of a byte to ICW or OCW is done by its `kind`, the bits that matter are its other
fields.  `Accepts` is the environment's: initialisation words come in their order.

`Pic` has two chips, wired as in the module `pic` (the slave's `interrupt_do` is an input
line of the master, `SlaveSelect` picks the vector), and the processor: `phase` counts the
cycles of the acceptance (`Accept`, `Possible`, `Done`, `Load`: `wr_interrupt_possible_prepare`,
`wr_interrupt_possible`, `interrupt_done`, `interrupt_load`), `Strobe` and `IoDone` are the
cycles of a port access on `iobus`, `Compute` is every other cycle.  In every step each
device sets its line as it likes.  `Boot` is what the BIOS writes before it enables
interrupts (`sw/sysbios/rombios.c`, `post_init_pic`).

Simplifications: `N` lines per chip rather than eight; the bytes a read returns are not
modelled, only what a read does to the chip; offsets of vectors are model values.

Facts a reader of the code may not expect, and that the model has: a poll clears the request
of the vector answered *last*, not of the highest request, and clears its service bit rather
than setting it; the answer to a vanished request names a line that may be another pending
but outranked one, which the processor then takes for a normal interrupt of that line.

### AvalonMem and ByteMemory

`AvalonMem` has the arbiter's states and registers; the ports raise requests of given
addresses and lengths, and the memory behind it (external: the L2 cache) answers bursts in
order.  Byte lanes, the shift of write data, the split of writes and the assembly of reads are
modelled by what they do, byte by byte.  `ByteMemory` is the promise: a byte memory that does one
request of one port at a time.  Under the refinement mapping the second half of a split write
has happened when the first has (nobody can look between: the property), and a DMA write when
memory took it.

### Dma

Two controllers and their channels.  Address, count and page registers have the code's byte
structure (`SetByte` with the flip-flop) over a byte of `B` values.  The channel's machine
(`StateNext`), its strobes and the *registered* port (`PortNext`: a cycle late) follow
`i8237_chan` and `pc_dma`; the bus is the part of `AvalonMem` a channel sees: it accepts when the
processor does not use it, and answers after a latency.  An access has the kind of what the decoder of `i8237` does with
it: every write to ports 0 to 0Fh (`mask_all` is port 0Fh), the read of the status, which clears it, and the reads of an address or a counter, which turn the flip-flop as
writes do.  Left out: the bytes a read returns, the page registers that no channel uses (`pag_extra`), and the registered terminal count lines to the
devices.  Software is a set of `Programs`,
sequences of accesses that are `Orderly`: address and counter are written whole, a byte after the other, before the
channel is unmasked, as the BIOS does for the diskette (rombios.c:7299-7325).  `Settled` is the assumption on when they come: a channel is programmed while masked
and idle, and master clear comes when no channel works; masks, requests, commands, reads and the flip-flop come at any time.  Without it, rewriting an address or
a page during an access moves the access; the code has no protection and the 8237 has none.
Eight- and sixteen-bit cells do not overlap in this model; lanes are `AvalonMem`'s subject.

### Exceptions

The exception unit (`exception.v`) with what it sees of the pipeline: in every stage a
command, which is what it does to the others (`plain`, `jump`, `str`, `soft` or a step of the microcode that
enters a handler), the address after it and its length.  A cycle takes inputs: what is decoded, which stages go on,
wait or fault, whether an interrupt or a breakpoint is there.  `Signals` computes from them what the
stages tell each other in the cycle (`exe_ready`, `rd_ready`, `dec_ready`, `micro_ready`, the active fault); the
operators named `XNext` are the registers at its end.  `rd_mutex`, `exe_mutex` and `wr_mutex` carry many
bits in the code; here only the active bit of `wr_mutex` matters, which makes a stage behind wait for being the front.

`pc`, `event` and `nest` are history, written from the architecture's point of view: the instruction to
complete next, the event whose handler is being entered, and the classes of the exceptions met on
the way.  They read the stages and no register of the exception unit but the selected source; the
properties compare the unit's registers (`exc_eip`, `exc_vector`, `exc_push_error`, `exc_soft_int`, the
external bit, `shutdown`) with them.

Facts of the code the model has: a stage that faults is not emptied but held, and its fault signal with it,
until the reset a cycle later; the stage in front must be idle and without a
mutex, so of the faults of a cycle the oldest instruction's is taken and the rest are dropped with their
instructions.  An accepted interrupt keeps `wr_mutex` active (`~wr_interrupt_possible_prepare`), which is
what stops a younger fault in the two cycles until its vector is there.  A breakpoint of a completed
instruction (`wr_debug_init`) starts like an exception, and counts as one.

Simplifications: every instruction is one long, and `P` addresses wrap; the delivery has three kinds of steps, of which
the first waits for the write stage, the middle ones may fault and the last flushes; task switches
and with them `wr_exception_external_set`, `HLT`, and the inhibition of interrupts after `MOV SS` and `STI` are left out
(an interrupt may be inhibited at any boundary, since its arrival is an input).  `wr_one_cycle_wait` is
one of the waits of the execute stage.  An instruction that jumps neither waits nor faults in the write stage: its target is
already in `wr_eip` there, so `exception_eip_from_wr` would not be its own address; the jumps in
`commands/` are made so.

### BiosInput

The 8042 (`ctl`: two queues, what its output buffer shows, the byte in its input buffer, the command byte's bits), the
two lines to the PIC, the keyboard and the mouse as senders, the parts of the data areas, and `cpu` with the program's service
and the two handlers over it.  `Int09Read` and `Int09Work` are INT 09h before and after its `sti`, `Int74` to `Int74Done` the mouse's handler; `Int16` to
`PollIdentity` are INT 16h with its lamps; `Int15C2` makes a mouse service a list of steps (`ServiceSteps`) that wait for the input buffer with interrupts on.  Every
byte is the number on the wire with a tag beside it that says what it is; no action reads the tag but to keep `hist.first`, the
first reader to take a byte that was meant for another.  After such a theft (the code has two: the lamps' acknowledge, and the mouse
services' command byte) the flags and packets are nobody's promise; `BufferIsQueue` is checked regardless.

Simplifications: the translation table is cut to the classes the control flow tells apart (`Missing`, `Column`); shifts and
control keys are one key each.  Two branches of INT 09h are left out: Ctrl-Alt-Del, which jumps to POST (rombios.c:5121-5128), and the
look at the PIC's in-service bit (rombios.c:11132-11140), which finds it set unless a program issues INT 09h itself.

### BiosFloppy, BiosDisk and MCInt13

`BiosFloppy`: the controller as `floppy.v` has it (`state`, which a reset leaves alone, apart from `cmd`, which it forgets), IRQ 6, channel 2,
the host's images.  A call runs through `StartMotor` to `Released` (the motor, its count, a reset's interrupt), recalibration and media sense, the command and the wait, whose
end is `Int0e` or the motor count of `Int08`.  `MoveSector` moves one sector over the channel.  A tick may fall between any two waits, and
`hist.cut` and `hist.late` note the two cases in which a command is cut off: the tick that stops the motor between its start and its new count
(rombios.c:6946), and a host slower than the motor's count.

`BiosDisk`: the two channels of `ide.v` with the request that the host polls (`HostTakes`, `HostAnswers`), the driver (`AtaStart` to `AtaMore`,
`PacketStart` to `PacketPart`, `Reset`), detection with the geometry translations and the tables of INT 41h/46h from the CMOS, INT 13h for hard disks, CD-ROMs and the
emulated drive, INT 19h and 18h.  `Await` ends with the status, with an error, or with a time-out though the host would have answered (`MaxStalls` of them).
Numbers are the code's own, with their widths (a count modulo 65536, a byte for what was transferred, 28 bits of address).

A behaviour of `MCInt13` is of one of the two halves: INT 13h sends a call to one of them by its drive number, they share no state (each
keeps its status in a byte of its own), and one program makes one call at a time.

### VgaBios and TextScreen

INT 10h runs to its end before the next call, so an action is a call.  What is hard is that the screen is described in three places: the data
area, the ports, the memory.  `vga` has the ports with their own memory: the flip-flop of 3C0h, cleared by a read of 3DAh only when the card
is at 3Dxh; the two indices of the DAC; the CRTC's two addresses.  `mem` holds cells in text modes and pixels in graphics modes at
the addresses the BIOS computes.  `TextScreen` is what a program sees of it: pages of cells with a cursor each, one of them shown.
`Screen` is the refinement: what the CRTC *shows*, with its own start and cursor, and what the calls answer, implements that.

Scaled down: text screens of 4 columns and 2 rows with two pages and 16-line characters, pictures of 2 to 4 characters of 2 lines, four palette registers, a DAC
of four entries, tab stops every 2, a page rounded to 16 bytes; the constants name each (80x25, 8 pages, 256, ... in the code).

### MisterFs

DOS (the chain of INT 2Fh, drives, open files, two searches), the resident program (`tsr`), the frame in shared memory (`box`) and the host's
server.  A redirector call is made by `Begin`, goes through `Enter` and `Work`, is answered at once, or builds a query and waits for the host; reads and writes go
round by chunks.  LOCKFIL asks for a lock or, by BL, for an unlock (`QueryFn`); the host grants both, since the program does not look.  The host may refuse (`MaxRefusals`) or do less than asked.  `Load` and `Unload` change the chain, with other programs that do so in any order.
`DOS` and the host are external and have what the program relies on.  Names are sequences of components, data are sequences of units, dates and the
layout of the entry are left out.  The host lists a directory in an order of its own (`Listing`), the same as long as the directory holds the same names
(`Entries`).  Scaled: chunks of 2 units, 2 locks in a frame, request numbers of 8 values, tokens of 7, two multiplex numbers.

### BiosClock and BiosSystem

`BiosClock` has the clock chip (registers that count, the update bit, register B's enables, the flags of register C, the line), the tick count and the
wait's fields, and the services as scripts of port accesses: `Script(k)` is the list of CMOS reads and writes a function of INT 1Ah makes, `Op` makes the next
one, in two port accesses (`Select`, then `Take` or `Put`), and INT 70h may come between any two.  `late` is the assumption behind `rtc_updating`: an update whose
warning bit rises after the BIOS looked does not complete before the service ends unless a program's own handler (INT 1Ch, INT 4Ah) came in, since the chip raises the bit
well over 200 microseconds before.  `torn` notes such a handler, and an IRQ 8 between the two halves of an access, which leaves another register selected; the code has
nothing against either.  `passed` is the time since a wait of INT 15h/83h began, to the last edge of the chip's periodic part: that part runs freely, so of the period
under way at the start anything from a microsecond to all of it may be left, and its flag may be up from before.

`BiosSystem` EXTENDS it with A20 and memory, the sizes in the CMOS (consistent with one machine), INT 14h and INT 17h against a far end that may do nothing,
the reset: a shutdown code, the three ways back, POST with the ticks from the clock, the scan of expansion ROMs for their signature and length (not zero, and the video
ROM inside its own area), the boot table.  `flat` is memory as a program that knows no A20 sees it.  Fields count to 2, a day has 8 ticks, one tick a
second, the midnight flag is a bit, and the periodic flag is set at the start because the chip's periodic part always runs.  A machine is a small instance with a plan of one to
three calls, which is what keeps the product of services from being explored for its own sake.  IRQ 0 is masked in those machines whose question does not involve ticks: INT 08h
touches neither the chip nor what INT 1Ah reads of it.  IRQ 8 is let through by the calls that use it; in the machines `Woken` and `Waits` it comes into reads and settings of time and date.
The time-out of INT 17h counts 256 polls for each of the byte POST stores; here one.  The rounding of a ROM's length is a byte's, as in the code: a length
above 252 blocks rounds to nothing and the scan stays where it is (rombios.c:10459), so `StartsRight` is checked for lengths below.

## 4. The runs

| Run | Question | Bounds |
|---|---|---|
| `PicCascade` | Is every acknowledge that reaches the slave answered properly, and is no request lost between the chips? | 4 lines a chip, cascade on line 2, two devices of the master ahead of it and one on the slave; masking and ends of interrupt of both chips |
| `PicSingle` | The same of one chip in all its modes, and types | 3 lines, two devices; rotation, specific and automatic ends, special mask, poll, level sensing, initialisation again |
| `PicLive` | Are the top lines of both chips served for ever? | 2 lines a chip, one device each |
| `Avalon` | Do reads, writes, code fetches and DMA see one byte memory that does one thing at a time? | 3 doublewords, reads that end in their first doubleword, the next and the one after, a whole write and two that are split; code lines of 8, DMA of both widths |
| `Dma` | Does a channel move the right data, count right, stop and end, with another on the port? | a byte channel that starts again and a word channel, counts of 4 values, four pages, latency 2; programs that use every kind of access, port 0Fh and reads that turn the flip-flop among them |
| `Exceptions` | Is the right handler entered, with the right return address and frame, and does the processor stop when it must? | 3 addresses, protected mode, a fault of each stage: two page faults, a contributory and a benign one; an interrupt with the vector 8, INT 13 |
| `Input` | Do keys and mouse bytes reach their readers, in order and whole, and does every call come back? | 4 keys (plain, control, lock, break), 2 key events, 1 packet, 1 call of any service, 3 slots |
| `Int13` | Is what a diskette or disk call moves what it was asked for, is the boot order kept, does every call end? | 2 calls of any service; seven machines; one wait that times out; motor count 4 (37 in the code), a command of 1 tick |
| `Video` | Is the screen, are the colours and the pictures those the calls asked for? | 3 calls: one that sets a scene, one of some, one of any |
| `VideoMono` | After a mode has been set, is the picture on? (violated) | 3 calls |
| `SharedFolder` | Are files, positions, lists and the INT 2Fh chain right, whatever the host refuses? | programs of 4 to 6 calls or 5 loadings, one refusal |
| `System` | Are times, sizes, waits and starts what was asked, and does every call end? | 1 to 3 calls a machine, 0 to 2 seconds, seconds count to 2 |

Why these bounds are enough to be interesting: four lines of the master are the least with two that compete above
the cascade and one below it, which is the lowest and so the line of a spurious answer; one chip shows nesting, preemption, rotation and wrap with three; three
doublewords hold the longest access (8 bytes at offset 3) with addresses that wrap; a counter of
four values counts through several transfers and wraps; latency 2 is the least the L2
cache has and the smallest the channel's machine works with; three addresses tell an
instruction from the one before and the one after it, and the four stages' faults have every pair of classes
that makes a double fault, with vectors of an interrupt and an INT that look like faults with error codes.

For the firmware: two key events are a press and its release or two keys, and with a buffer of two usable entries fill it; the second
of two calls of INT 13h meets whatever the first, failed or timed out, left in the controller and on the channel; a mode, a call and another
call are what it takes to leave the ports or the data area wrong and to see it; a file of three units and chunks of two have a whole chunk, a rest
and a short answer; two values of each clock field carry from the seconds to the month, a day of eight ticks is passed within a wait; the memory sizes
are those at which the services change their formula (1, 4, 16 MB and a block above, 65 and 256 MB).

What the runs show beyond "no error":

* `NoRequestSwallowed` allows a request to leave the request register only as the vector the
  processor stores, at initialisation or by a poll.  The acknowledge clears the bit of the
  *registered* vector, a cycle older than the highest request; it is the vector the processor
  stores in the same cycle, so what is retired is what is delivered.
* `SlaveAcknowledge`: the slave is never selected with nothing to say.  The master may have gone spurious meanwhile and name the
  cascade all the same, since the vector of a spurious answer is that of a line still pending (pic.v:335).  It is claimed without rotation only
  (`FixedPriorities` in the proof): once the cascade line is the lowest of the master, a spurious answer with nothing pending names it and the
  processor asks a slave that has nothing (pic.v:78).  This is why the two PIC runs are apart.
* A channel of the DMA controller needs a read latency of at least two: it reaches the state in
  which it takes data one cycle after the bus accepts.  With a latency of one the data
  would come while it is in state 2 and `TransferEnds` fails.  The L2 cache's
  hits take exactly two cycles, so there is no slack.
* The port's strobe falls a cycle after the bus took a write, so a write may be done
  twice.  `OnlyOwnCell` and `TransferFaithful` hold nevertheless: the second is to the same cell with
  the same data.
* A write to the mask register in the cycle of a terminal count wins, so automatic masking is lost;
  `RunsInStep` excludes this one cycle by `finished`, which the model keeps for it.  A status read in
  that cycle clears the terminal count bit for good.
* `FrontIsNext` is what makes exceptions precise: the only stage that may raise one holds the instruction
  that is due, whatever jumps, string iterations and flushes came before.  `PreciseEntry` adds the address that
  is saved and the frame; for a string instruction interrupted between iterations the address is its own, which
  `interrupt_string_in_progress` has to remember for two cycles.
* `ShutdownRule` compares the two-bit `count` and `last_type`, which keep the last class only and are cleared by
  the end of delivery, with the whole list of classes.
* `BytesReachReaders` holds of the two handlers and not of the program's services, which read the output buffer directly: a scan code
  that comes before the acknowledge of the lamps is lost.  A command to the mouse, or a call of the `init` service, in the middle of a packet
  (`Midway`) counts as a disturbance too: what comes after it is out of step with the handler's index, so of the packets nothing is said from then on.  `ReadIsAtomic` has one exception for the same reason.
* `CompletionsMatched` names the one way in which a command that could be done is answered with "not ready": the old motor count runs out
  between the motor's start and its new count.
* `TransfersFaithful` excepts a packet whose waits time out: the driver does not look at the result of those waits, counts the old
  length again and reports zeros as data (rombios.c:3236).
* `VideoMono` is a disagreement of code and comment: after mode 7 the next mode set leaves the picture off, because both the
  reset of the flip-flop and the "Enable video" of `vgabios.c:927` read a port the card ignores at that moment.  `ColoursKept` holds for every other
  sequence, and says so by `hist.sure`.
* A wait of INT 15h/83h may end before its time.  A periodic flag left from before interrupts as soon as the wait enables it, and is taken for a
  period that passed (rombios.c:8551-8563), and so is the rest of the period under way.  Against that the handler waits for one interrupt more than there are whole
  periods in the time.  Of a wait of `k` whole periods and a bit, `k - 1` periods and the rest of another pass for certain: that is the clause of `WaitsKept`, and no more holds.
* `TimeTrue` leaves out calls in which IRQ 8 came between the two halves of an access or a program's handler after the look at the update bit (`torn`), and `CallsEnd` of `BiosSystem` a wait whose interrupt was stopped: by such an
  access, by `init_rtc`, or by a reset that found the clock's line already up (`Stopped`).

Each property of each passing run has a mutant in `PROJECT.json`: a change of one definition, of the kind an
editing mistake in the source would make, that the run then reports.  Where a property has two halves, as the merged ones of `Int13` and `TimeTrue` have, there
is one for each.

`CHECK_DEADLOCK FALSE` is said in the firmware's runs: a program that has made its calls, a BIOS that has stopped with a message and a
machine in protected mode really stop.

**Fairness.** `Pic!LiveSpec`: the clock runs, so an access or an acceptance in progress goes on
(WF); software comes back to instruction boundaries with interrupts enabled (`SF(Accept)`:
strong, because a request may come and go) and ends the interrupts it serves (SF of each end of
interrupt command, since a command can be made only when no other cycle is under way).  This is
software's obligation, not the code's.  Only the *top* line is claimed: lower ones starve if
higher ones keep coming, by design.  For the slave's top line `TopServed` assumes that the master's own
lines fall quiet, for the same reason.  `Dma!LiveSpec`: the clock runs, the processor's use of the
bus ends, and the bus is often enough left to DMA (SF of `BusTakes` and of `ProcessorLeaves`): the arbiter gives DMA the lowest
priority, so without this a busy processor starves it.

In the firmware the processor runs and devices answer what they are sent: WF of the system's steps in `BiosInput`, of each half in `MCInt13` (the host answers, and the ticks go on),
of the service and of the host in `MisterFs`.  Nobody need type, move the mouse or call.  `BiosSystem`: the chip, the refresh bit and the timer go on (WF), and a handler or a
service that can go on again and again, interrupts coming between, at some time does (SF: interrupts are rarer than
instructions).  A loop that waits for a tick looks at the count at least once a day.  Nothing is asked of the far end of a port.

## 5. The proofs

Every theorem holds for all values of the constants that satisfy the named assumptions beside their declarations; TLC evaluates
those on each run.  Most safety properties speak of one moment (an acknowledge, the return of a call) and are not inductive; each module below has an
`IInv` that is, whose parts are named for what they say.  Those were checked with TLC on the instances of the runs before they were proved.

### PicProofs

For any number of lines, any wiring, any boot sequence and any set of commands, from the assumptions declared in `I8259` and `Pic`:

* `TypeCorrect`: `Spec => []TypeOK`.  Types are inductive here as they stand.  The work is in the
  priority order: `First` picks the line of least rank by CHOOSE, so `FirstExists` shows that there
  is one (by well-foundedness of `<`), and `RankInjective` that it is unique.
* `MasterAnswers`: `Spec => []MasterAcknowledge`.  `MasterAcknowledge` speaks of the cycle of
  the acknowledge only and is not inductive.  The strengthening is `AnswerReady`: from the cycle
  after the processor accepted, the master's answer is *already* proper and stays so.  `AnswerKept` is
  the step: in a cycle without a port access or an acknowledge (there are none during acceptance) a proper
  answer remains proper whatever the lines do.  There are
  three cases.  While a request is there (`Irq`), the new vector is the first line prepared, neither
  masked nor in service, and it outranks what is in service (`IrqFromFront`).  If it has just gone,
  the chip marks the answer spurious and re-points it to the first line that is pending, which by
  `NoIrqOutranked` does not outrank what is in service, or to the lowest line if none is.  If it went
  earlier, vector and mark stay as they are.
* `NothingSwallowed`: `Spec => NoRequestSwallowed`.  `RequestKept` says what may clear a bit of a chip's request register in one cycle;
  `StepSeen` what the two chips see in each action.  Together: a bit goes only with the vector the processor stores.
* `SlaveAnswers`: `FixedPriorities /\ Spec => []SlaveAcknowledge`.  `FixedPriorities` says that no command rotates the master's priorities and that the
  cascade is not on its last line, which is so for the BIOS (ICWs, masks, the end of interrupt 20h).  Then the master's lowest line stays the last one
  (`Unrotated`), so arbitration names the cascade only for a request of the slave (`NamesCascade`).  `SlaveReady` is the strengthening: while that request is latched, the
  slave has a proper answer or is about to have one in the next cycle; from the acceptance on, if the master's vector names the slave, it has one.

### AvalonMemProofs

From `BusAssumption` and `RequestsAssumption`, which say what the ports may ask (`pipeline` and `icache` split their accesses so): any size of memory, any length of a code line.

* `Refinement`: `Spec => IsByteMemory`.  Every step is one access of one port done whole, a piece of a code line, or a stutter.  `IInv` says which request the burst under way serves, which
  beat comes next, what has been collected and what the second half of a split write still owes.  The rest is arithmetic of lanes: `ByteOf`
  finds byte `i` of an access in its doubleword.

### DmaProofs

From `ChannelsAssumption`, `BoundsAssumption`, `DataAssumption` and `ProgramsAssumption`: any width of the registers, any latency of the memory, any orderly programs.

* `Faithful` and `OwnCell` (`TransferFaithful`, `OnlyOwnCell`): at most one channel is in a transfer (`Alone`); what each state of its machine
  means for its address and strobes (`Steps`); what the registered port and the bus hold is that channel's cell, also in the cycle the strobe falls late (`Port`, `Moved`).
* `InStepAlways` (`RunsInStep`): `Scripted` relates the registers to what the program has still to write: a channel out of step is one that will be set up whole before it is
  unmasked, be it alone, with its whole controller or by port 0Fh.  Reads may turn the flip-flop at any time, since `Orderly` wants the bytes of an address or a counter next to each other: in whichever order they land, both are written.  This is where `Orderly` is needed; `Resting` says that a channel that ended stays masked and idle.

### ExceptionsProofs

For any addresses, any vectors and any sets of faults of the kinds named in `FaultAssumption`, in either mode of the processor:

* `FrontTrue`, `EntryPrecise`, `ShutdownRight` (`FrontIsNext`, `PreciseEntry`, `ShutdownRule`).  `IInv` has, of the unit: it is in one mode at a
  time (`Modes`), the stages are drained accordingly (`Drained`), where the address to go on at is held (`Resume`), that count and last class abstract the whole list of
  classes (`Counted`, `Signalled`), and what the registers say of the event being delivered (`Entered`).  Of the pipeline: `Chain`, each command starts where the older one ends.  Each
  cycle is a step of all registers at once, so the proof goes by what the cycle is and not by register: one lemma for each mode of the unit (`FullMode`, `DbgMode`, `PossibleMode`,
`DoneMode`, `LoadMode`, `StopMode`), and of the running processor one for a fault (`FaultMode`), an arrival (`ArriveMode`) and a cycle that goes on (`GoingMode`).

### BiosInputProofs

From `InputAssumption`: any keys, a ring of any size above 1, any number of keys, mouse moves and calls.

* `RingIsQueue`, `KeyNotLost` (`BufferIsQueue`, `ReadIsAtomic`).  `Holding` says what a service that was cut by an interrupt still has in its hands: the slot it
  takes from is the head, the slot it stores to leaves room; `Closed`, that from the end of a wait to the taking of its key interrupts stay off unless the lamps turned them on;
  `Requests`, that the PIC asks for a byte only while it is shown.  The ring itself is arithmetic modulo its size, in lemmas of its own.

### BiosWireProofs

From `InputAssumption` and the invariant of `BiosInputProofs`; about the bytes on their way, whoever sent them.

* `BytesReachTheirReaders`, `KeyboardIsHeard` (`BytesReachReaders`, `KeyboardHeard`), both from `WiresInOrder`: `Spec => []Wires`.  Neither property is inductive: that a handler does
  not take another's byte depends on who may still run when it is shown.  `Wires` says so in parts.  Always: the keyboard's queue holds codes, answers of the keyboard and command bytes, the
  mouse's the rest (`KeyTags`, `MouseTags`); the moves that wait follow one another up to where the mouse is (`InStep`); a service's steps come in a fixed order and no interrupt is taken while one waits
  for its byte (`Busy`, `Quiet`).  While nothing was disturbed (`Clean`): at most one command byte waits, it is one that leaves the keyboard on, and the very next step takes it (`Replies`); the next
  steps take all the mouse has answered or will (`Answered`); the mouse's interrupt is off when the program has no handler or is about to have none (`Deaf`, `Leaving`), and what a service will restore
  keeps it so (`Remembered`); the handler's index is where the first waiting move goes on (`Aligned`), so that a packet is whole when it is handed over (`Filled`, `Whole`).
* `FlagsAreTrue`: `OrdinaryKeys => (Spec => []FlagsFollowKeys)`.  `Settling` follows each of the three keys through the four places a byte of it can be: what the keyboard has
  still to send, its queue, the handler's register, the flag.  The last byte that speaks of the key, in that order, says whether it is held; where none does, the flag says it (`Followed`).  `Hushed` is what all
  steps but three do to the queue: they leave what is said in it as it was.  `OrdinaryKeys` says that one key alone has each of the codes 29, 56 and 58, and none the code 97.  The code needs both: the release of
  one of two control keys clears the flag of both (`Modifier`), and the release of a key with code 97 would send 225, which INT 09h takes for a prefix after which a control key is not looked at.  So for a keyboard with
  a left and a right control key the theorem says that the flags are right as long as only one of them is used.

### MisterFsTypes, MisterFsProofs

From `FsAssumption`, `FolderAssumption` and `ProgramsAssumption` (a caller's buffer has as many units as it asks to be moved): any folder, any programs,
any chunk, any number of refusals, any sequence of loads and unloads.  `MisterFsTypes` has the parts of the invariant and the lemmas about what the host does with each
request; `MisterFsProofs` the rest.

* `AlwaysResident`: `Spec => []Resident`.  `Chained` adds that the bottom of the chain is DOS and that the program is in it once.  The cases that matter are those of
  others on top: `PopMfs` needs that what the program kept at its loading is still all that is below it.
* `TransfersFaithful`: `Spec => []MovesFaithful`.  `Moving` says, in every state of a read or write between its making and its return, how the chunks so far add up: the
  buffer, or the file, is what one transfer of `Total` units would have made of it (`ReadPart`, `WritePart`), the request asks for the next
  chunk, and the answer is that chunk.  `ReadJoin` and `OverlayJoin` put a chunk behind what was moved.  A file that is deleted while it is open is excepted, as in the property.
* `VerdictsTrue`: `Spec => []AnswersTrue`.  `Naming`: until the host has served it the folder is what it was, after it the folder is what was meant exactly when the answer
  has no error and the length of its kind.  That length is what tells "done" from "refused" where the error field is also a result (`DISKSPACE`).
* `SearchesComplete`: `TokensLast => (Spec => []SearchComplete)`.  `TokensLast` says that a program makes fewer calls than there are tokens (65536): the
  counter goes round without a look at which tokens are in use, so that a search left open over as many others would go on in another's list.  `Searching` has that searches in
  progress have different tokens (`Apart`), all below the next one, each with its own list at the host (`OwnList`), of which it has listed a beginning (`InOrder`), and what
  the request and the answer under way add to that (`Parts`, `AtEnd`).  `Unload` ends all searches, which is why the counter may start again at 0 with the next `Load`.

What all of these rest on: a handle that is open was given by the host (`Handled`), number and acknowledge say whose turn it is (`Protocol`), and an answer
without error holds what its length promises (`Fits`).

### Only model-checked

* Liveness (`TopServed`, `TransferEnds`, `Int13Ends` and `CallsEnd` of three modules): liveness under fairness and ENABLED are not for this prover.
* `VgaBios`: it computes with `Bitwise`, whose operators are RECURSIVE and take the SMT backend away.
* `BiosDisk`, `BiosFloppy` and `MCInt13`: the properties compare what moved with what was asked over whole machines with their tables; the machines are given by the instance,
  so a theorem for all of them needs assumptions on the tables first.
* `BiosSystem`: `MemoryTrue` and `StartsRight` are in the plan; `TimeTrue` and `WaitsKept`, over scripts of accesses cut anywhere by an interrupt, come after them.

There is no RECURSIVE operator in any module.  Induction over data is out of this prover's reach, so what a recursive function computes for every input would stay with TLC.

## 6. What is not modelled

The component notes in `PROJECT.json` give the reason part by part.  In short:

* the instruction set, the FPU and the sound and raster data paths are arithmetic whose reference is a manual, not a
  protocol; the 16550 and the board framework are vendored;
* prefetching, caches and paging, and the modes of the timer's counters are the rest of the plan of section 2;
* of the firmware, what is not built: `vbe.c` and `clext.c` (neither `VBE` nor `CIRRUS` is defined), the 32-bit BIOS, the PCI, APM and Plug and
  Play services (`BX_ROMBIOS32`, `BX_PCIBIOS`, `BX_APM`, `BX_PNPBIOS` are 0), and the disk driver for no ATA (`BX_USE_ATADRV` is 1); what
  has no state: messages, fonts, the vectors POST writes, tables that are copied to the caller; and the guest tools, which send one fixed request each;
* corners of what is modelled, each named at its definition: in INT 09h Ctrl-Alt-Del and the in-service check; ROMs above 252 blocks; the time-out
  of INT 17h in polls; searches whose token comes round or that outlive a loading; a poll that retires what it did not report is modelled and excepted by `NoRequestSwallowed`;
* the host (images, file server, keyboard, clock setting) is external everywhere and modelled as far as this code relies on it.

What a combination of two models would add is left out where the code joins them through nothing but registers that
both have: the PIC under the BIOS is the latch of one line, and channel 2 under the diskettes is its programmed transfer.
