------------------------------ MODULE VgaBios ------------------------------
(***************************************************************************)
(* The video BIOS (INT 10h, vgabios.c) on the registers of vga.v.  A call  *)
(* runs to its end before the next: what is hard is that one screen is     *)
(* described in three places, the BIOS data area, the ports and the memory,*)
(* and that the ports have a memory of their own (the flip-flop of port    *)
(* 3C0h, the address the CRTC answers at, the two indices of the DAC).     *)
(*                                                                         *)
(* Memory holds cells <<character, attribute>> in text modes and pixels in *)
(* graphics modes, each at the address the BIOS computes; -1 is a value    *)
(* nobody knows.  A palette entry is one value, as its three parts are     *)
(* always written together.                                                *)
(***************************************************************************)
EXTENDS Integers, Sequences, SequencesExt, Bitwise

CONSTANTS ModeTable,  \* vga_modes with the parameter table of each mode
          Calls,      \* the n-th call a program may make in each mode
          FirstModes, \* the modes it starts in
          LastPage,   \* 7
          Stop,       \* 8, the distance of tab stops
          Round,      \* 256, to which the size of a page is rounded
          CgaRow, CgaBank, CgaLines, \* 80, 8192 and 8
          DacSize,    \* 256
          LastReg,    \* 15, the last register of the palette
          Glyph,      \* Glyph[h][c][i]: what line i of a character has set
          MaxCalls    \* bound: calls made

ASSUME VgaAssumption ==
  /\ MaxCalls \in Nat /\ LastPage \in 0..7 /\ DacSize \in Nat \ {0}
  /\ LastReg \in 1..15 /\ FirstModes \subseteq DOMAIN ModeTable
  /\ \A m \in DOMAIN ModeTable : ModeTable[m].class \in {"text", "graph"}

VARIABLES vga,   \* the registers
          bda,   \* the video part of the BIOS data area, with two vectors
          mem,   \* video memory
          buf,   \* where a program keeps the saved state
          call, ret, got,  \* the last call, the answers about text and colours
          hist   \* history: what the calls should have left
vars == <<vga, bda, mem, buf, call, ret, got, hist>>

Bit(x, i) == (x \div 2^i) % 2 = 1
WithBit(x, i, on) == x - (IF Bit(x, i) THEN 2^i ELSE 0) + (IF on THEN 2^i ELSE 0)
Pages == 0..LastPage
Space == 32
Text(m) == ModeTable[m].class = "text"
Mono(m) == ModeTable[m].model = "mtext"

----------------------------------------------------------------------------
(* The ports.                                                              *)

\* A read of 3DAh clears the flip-flop of 3C0h, if the card is at 3Dxh.
AcReset(v) == IF v.colour THEN [v EXCEPT !.ff = FALSE] ELSE v
\* A write to 3C0h is an index, whose bit 5 turns the picture on and closes
\* the palette, and the next one data.
AcWrite(v, x) ==
  IF ~v.ff THEN [v EXCEPT !.ff = TRUE, !.pas = Bit(x, 5), !.idx = x % 32]
  ELSE [v EXCEPT !.ff = FALSE,
                 !.ac = IF v.idx \notin DOMAIN @ \/ (v.idx < 16 /\ v.pas) THEN @
                        ELSE [@ EXCEPT ![v.idx] = x % (IF v.idx < 16 THEN 64 ELSE IF v.idx = 20 THEN 16
                                                         ELSE 256)]]
AcWrites(v, xs) == FoldLeft(AcWrite, v, xs)
AcRead(v) == IF v.idx \in DOMAIN v.ac THEN v.ac[v.idx] ELSE 0

DacAt(v) == IF v.isread THEN v.rindex ELSE v.windex
DacRead(v) == [v EXCEPT !.rindex = (@ + 1) % DacSize]
DacWrite(v, x) == [v EXCEPT !.dac[DacAt(v)] = x, !.windex = (@ + 1) % DacSize]
DacReadFrom(v, i)  == [v EXCEPT !.rindex = i, !.isread = TRUE]
DacWriteFrom(v, i) == [v EXCEPT !.windex = i, !.isread = FALSE]

\* The CRTC answers at 3D4h or 3B4h, as the miscellaneous register says.
CrtcWrite(v, colour, r, x) == IF colour = v.colour THEN [v EXCEPT !.crtc[r] = x] ELSE v

----------------------------------------------------------------------------
(* Colours: group 10h and group 0Bh.                                       *)

\* A loop over registers, each read and written back changed.
AcEach(v, rs, F(_)) ==
  FoldLeft(LAMBDA u, r : LET w == AcWrite(u, r) IN AcWrite(w, F(AcRead(w))), v, rs)

SetPaletteReg(v, r, x) == IF r > 20 THEN v ELSE AcWrites(AcReset(v), <<r, x, 32>>)
Pairs(f, rs) == FlattenSeq([k \in DOMAIN rs |-> <<rs[k], f[rs[k]]>>])
PaletteRegs == [k \in 1..(LastReg + 1) |-> k - 1] \o <<17>>
SetAllPalette(v, f) == AcWrites(AcReset(v), Pairs(f, PaletteRegs) \o <<32>>)
\* Mutant: the flip-flop is taken to be where it should.
PeekUnreset(v, r) == AcWrite(v, r)
\* A register is read with the picture off; it comes back on.
Peek(v, r) == AcWrite(AcReset(v), r)
Unpeek(v)  == AcWrite(AcReset(v), 32)
ChangeMode(v, F(_)) == LET w == Peek(v, 16) IN AcWrites(w, <<F(AcRead(w)), 32>>)
SelectDacPage(v, pg) ==
  LET w == Peek(v, 16) IN
  AcWrites(Peek(w, 20), <<(IF Bit(AcRead(w), 7) THEN pg ELSE pg * 4) % 16, 32>>)
DacPage(v) ==
  LET w == Peek(v, 16)
      all == Bit(AcRead(w), 7)
      n == AcRead(Peek(w, 20)) % 16
  IN  <<all, IF all THEN n ELSE n \div 4>>
SetBorder(v, x) ==
  LET low == x % 16
      w == AcWrites(AcReset(v), <<0, IF low >= 8 THEN low + 8 ELSE low>>)
      Bright(r) == WithBit(r, 4, Bit(x, 4))
  IN  AcWrite(AcEach(w, <<1, 2, 3>>, Bright), 32)
SetCgaPalette(v, x) ==
  LET Choose(r) == WithBit(r, 0, Bit(x, 0))
  IN  AcWrite(AcEach(AcReset(v), <<1, 2, 3>>, Choose), 32)

Gray(x) == IF x = -1 \/ x >= 1000 THEN x ELSE 1000 + x
SumGray(v, i) == LET r == DacReadFrom(v, i)
                 IN  DacWrite(DacWriteFrom(DacRead(r), i), Gray(r.dac[DacAt(r)]))
GraySumming(v, at, n) ==
  Unpeek(FoldLeft(SumGray, AcWrite(AcReset(v), 0), [k \in 1..n |-> (at + k - 1) % DacSize]))
SetDac(v, at, xs) == FoldLeft(DacWrite, DacWriteFrom(v, at), xs)
DacTake(v, n) ==
  [k \in 1..n |-> v.dac[IF v.isread THEN (v.rindex + k - 1) % DacSize ELSE v.windex]]
DefaultDac(model) == [i \in 1..DacSize |-> 10 * model + i]
LoadDacPalette(v, model) == SetDac(v, 0, DefaultDac(model))

----------------------------------------------------------------------------
(* The text screen.  s = [v, b, m] is the state a call works on.           *)

CellAt(b, p, x, y) == (b.pgsize * p) \div 2 + y * b.cols + x
Store(m, A, F(_)) == [a \in DOMAIN m |-> IF a \in A THEN F(m[a]) ELSE m[a]]

\* The shape is for characters of 8 lines and is stretched to higher ones.
SetCursorShape(s, from, to) ==
  LET h == s.b.height
      stretch == Bit(s.b.modeset, 0) /\ h >= 8 /\ to < 8 /\ from < 32
      end == IF stretch THEN ((to + 1) * h) \div 8 - 1 ELSE to
      start == IF ~stretch THEN from
               ELSE IF to = from + 1 THEN end - 1 ELSE ((from + 1) * h) \div 8 - 1
      c == s.b.crtc
  IN  [s EXCEPT !.b.shape = <<from, to>>,
                !.v = CrtcWrite(CrtcWrite(@, c, "first", start), c, "last", end)]

SetCursorPos(s, p, at) ==
  IF p > LastPage THEN s
  ELSE [s EXCEPT !.b.pos[p] = at,
                 !.v = IF p # s.b.page THEN @
                       ELSE CrtcWrite(@, s.b.crtc, "cursor",
                                      s.b.start \div 2 + at[2] * s.b.cols + at[1])]
GetCursorPos(b, p) == IF p > LastPage THEN <<0, 0>> ELSE b.pos[p]

\* Mutant: the cursor stays on the page that was shown.
SetActivePageOnly(s, p) ==
  IF p > LastPage THEN s
  ELSE LET from == IF Text(s.b.mode) THEN s.b.pgsize * p ELSE s.b.start
       IN  [s EXCEPT !.b.start = from, !.b.page = p,
                     !.v = CrtcWrite(@, s.b.crtc, "start", from \div 2)]
SetActivePage(s, p) ==
  IF p > LastPage THEN s
  ELSE LET text == Text(s.b.mode)
           from == s.b.pgsize * p
           start == IF text THEN from \div 2 ELSE p * ModeTable[s.b.mode].page
           t == [s EXCEPT !.b.start = IF text THEN from ELSE @,
                          !.v = CrtcWrite(@, s.b.crtc, "start", start), !.b.page = p]
       IN  SetCursorPos(t, p, GetCursorPos(s.b, p))

\* Rows are copied from the first page, whichever page is scrolled.
ScrollText(s, p, n, attr, ul, lr, up) ==
  LET b == s.b
      Line(a) == (a - CellAt(b, p, 0, 0)) \div b.cols
      Col(a)  == (a - CellAt(b, p, 0, 0)) % b.cols
      In(a)   == a >= CellAt(b, p, 0, 0) /\ Line(a) \in ul[2]..lr[2] /\ Col(a) \in ul[1]..lr[1]
      From(a) == IF up THEN Line(a) + n ELSE Line(a) - n
  IN  [s EXCEPT !.m = [a \in DOMAIN @ |->
         IF ~In(a) THEN @[a]
         ELSE IF n = 0 \/ From(a) \notin ul[2]..lr[2] THEN <<Space, attr>>
         ELSE @[CellAt(b, 0, Col(a), From(a))]]]

----------------------------------------------------------------------------
(* The graphics screen.  The functions ignore the page.                    *)

Ppb(md) == 8 \div md.bits
\* Where the pixel x of a scan line is: even and odd lines of the CGA modes
\* are in banks of their own.
PixelAddr(md, cols, x, line) ==
  IF md.model = "cga"
  THEN ((line % 2) * CgaBank + (line \div 2) * CgaRow + x \div Ppb(md)) * Ppb(md) + (x % Ppb(md))
  ELSE line * cols * 8 + x
Planar(md) == md.model \in {"planar1", "planar4"}
Ink(md, c) == IF Planar(md) THEN c % 16 ELSE IF md.model = "cga" THEN c % 2^md.bits ELSE c
Xors(md, c) == c >= 128 /\ md.model # "linear8"
Blend(md, c, set, old) ==
  LET ink == IF set THEN Ink(md, c) ELSE 0 IN
  IF ~Xors(md, c) THEN ink ELSE IF old = -1 THEN -1 ELSE old ^^ ink

\* The pixel at an address.
PixelOf(md, cols, a) ==
  LET row == CgaRow * Ppb(md)
      r == a % (CgaBank * Ppb(md))
  IN  IF md.model = "cga" THEN <<r % row, (r \div row) * 2 + a \div (CgaBank * Ppb(md))>>
      ELSE <<a % (cols * 8), a \div (cols * 8)>>
\* New values F(a, d) for the pixels d in columns x1..x2 of characters of
\* the row y of characters of h lines.
Paint(s, x1, x2, y, h, F(_, _)) ==
  LET md == ModeTable[s.b.mode] IN
  [s EXCEPT !.m = [a \in DOMAIN @ |->
     LET d == PixelOf(md, s.b.cols, a)
     IN  IF d[1] \div 8 \in x1..x2 /\ d[2] \div h = y THEN F(a, d) ELSE @[a]]]

\* The font the glyphs come from: the CGA modes have their own.
Lines(md, b) == IF md.model = "cga" THEN CgaLines ELSE b.height
Font(md, b)  == IF md.model = "cga" THEN CgaLines ELSE b.vec43
DrawChar(s, c, attr, x, y) ==
  LET md == ModeTable[s.b.mode]
      h == Lines(md, s.b)
      Dot(a, d) == Blend(md, attr, d[1] % 8 \in Glyph[Font(md, s.b)][c][d[2] % h], s.m[a])
  IN  Paint(s, x, x, y, h, Dot)

\* One row of characters copied or filled.
CopyRow(s, x1, x2, from, to) ==
  LET Src(a, d) == s.m[PixelAddr(ModeTable[s.b.mode], s.b.cols, d[1],
                                 d[2] + (from - to) * s.b.height)]
  IN  Paint(s, x1, x2, to, s.b.height, Src)
FillPixel(md, attr, a) ==
  IF Planar(md) THEN attr % 16
  ELSE IF md.model = "linear8" THEN attr
  ELSE (attr \div 2^((Ppb(md) - 1 - (a % Ppb(md))) * md.bits)) % 2^md.bits
FillRow(s, x1, x2, y, attr) ==
  LET F(a, d) == FillPixel(ModeTable[s.b.mode], attr, a)
  IN  Paint(s, x1, x2, y, s.b.height, F)
\* Mutant: the rows are always copied from the last to the first.
ScrollGraphBackwards(s, n, attr, ul, lr, up) ==
  LET Row(t, i) == IF n # 0 /\ i + n <= lr[2] THEN CopyRow(t, ul[1], lr[1], i + n, i)
                   ELSE FillRow(t, ul[1], lr[1], i, attr)
  IN  FoldLeft(Row, s, [k \in 1..(lr[2] - ul[2] + 1) |-> lr[2] - k + 1])
\* Down, rows are copied from row i to row i - n, as they are up.
ScrollGraph(s, n, attr, ul, lr, up) ==
  LET md == ModeTable[s.b.mode]
      whole == n = 0 /\ ul = <<0, 0>> /\ lr = <<s.b.cols - 1, s.b.rows - 1>>
      count == s.b.rows * s.b.cols * s.b.height * 8
      Row(t, i) ==
        IF up /\ n # 0 /\ i + n <= lr[2] THEN CopyRow(t, ul[1], lr[1], i + n, i)
        ELSE IF ~up /\ n # 0 /\ i >= ul[2] + n THEN CopyRow(t, ul[1], lr[1], i, i - n)
        ELSE FillRow(t, ul[1], lr[1], i, attr)
      order == [k \in 1..(lr[2] - ul[2] + 1) |-> IF up THEN ul[2] + k - 1 ELSE lr[2] - k + 1]
  IN  IF whole THEN [s EXCEPT !.m = [a \in DOMAIN @ |-> IF a < count THEN FillPixel(md, attr, a)
                                                       ELSE @[a]]]
      ELSE FoldLeft(Row, s, order)

WritePixel(s, x, line, c) ==
  LET md == ModeTable[s.b.mode]
  IN  IF Text(s.b.mode) THEN s
      ELSE [s EXCEPT !.m[PixelAddr(md, s.b.cols, x, line)] = Blend(md, c, TRUE, @)]
\* The CGA modes look for a byte of four pixels, whatever they hold.
ReadPixel(s, x, line) ==
  LET md == ModeTable[s.b.mode]
      a == IF md.model = "cga"
           THEN ((line % 2) * CgaBank + (line \div 2) * CgaRow + x \div 4) * Ppb(md) + (x % Ppb(md))
           ELSE PixelAddr(md, s.b.cols, x, line)
  IN  s.m[a]

----------------------------------------------------------------------------
(* Both screens: scroll, characters, teletype, strings.                    *)

Scroll(s, p, n, attr, ul, lr, up) ==
  LET rows == s.b.rows
      last == <<IF lr[1] >= s.b.cols THEN s.b.cols - 1 ELSE lr[1],
                IF lr[2] >= rows THEN rows - 1 ELSE lr[2]>>
      lines == IF n > rows THEN 0 ELSE n
  IN  IF ul[1] > lr[1] \/ ul[2] > lr[2] THEN s
      ELSE IF Text(s.b.mode) THEN ScrollText(s, p, lines, attr, ul, last, up)
      ELSE ScrollGraph(s, lines, attr, ul, last, up)

\* attr = -1 leaves the attributes of a text screen.
WriteChar(s, p, c, attr, ink, n) ==
  LET at == GetCursorPos(s.b, p)
      from == CellAt(s.b, p, at[1], at[2])
      F(old) == <<c, IF attr = -1 THEN old[2] ELSE attr>>
      Draw(t, k) == DrawChar(t, c, ink, at[1] + k - 1, at[2])
  IN  IF Text(s.b.mode) THEN [s EXCEPT !.m = Store(@, from..(from + n - 1), F)]
      ELSE FoldLeft(Draw, s, [k \in 1..(IF n > s.b.cols - at[1] THEN s.b.cols - at[1] ELSE n) |-> k])

\* The cursor goes on from <<x, y>>; `known` says that the address of the
\* page was worked out, which the control characters leave undone.
Settle(s, p, x0, y0, known) ==
  LET b == s.b
      x == IF x0 = b.cols THEN 0 ELSE x0
      y == IF x0 = b.cols THEN y0 + 1 ELSE y0
      attr == IF ~Text(b.mode) THEN 0
              ELSE IF known \/ p = 0 THEN s.m[CellAt(b, p, x, y - 1)][2] ELSE -1
  IN  IF y = b.rows
      THEN SetCursorPos(Scroll(s, p, 1, attr, <<0, 0>>, <<b.cols - 1, b.rows - 1>>, TRUE),
                        p, <<x, y - 1>>)
      ELSE SetCursorPos(s, p, <<x, y>>)
TypePlain(s, p, c, attr, ink) ==
  LET at == GetCursorPos(s.b, p) IN
  Settle(WriteChar(s, p, c, attr, ink, 1), p, at[1] + 1, at[2], TRUE)
GoOn(s, p, x, y) == Settle(s, p, x, y, FALSE)
Stay(s, p) == GoOn(s, p, GetCursorPos(s.b, p)[1], GetCursorPos(s.b, p)[2])
\* A tab goes to the next stop, with one more space when it is there.
TabOn(s, p, attr, ink) ==
  IF GetCursorPos(s.b, p)[1] % Stop = 0 THEN TypePlain(s, p, Space, attr, ink) ELSE s
WriteTeletype(s, p, c, attr, ink) ==
  LET at == GetCursorPos(s.b, p) IN
  CASE c = 7  -> Stay(s, p)
    [] c = 8  -> GoOn(s, p, IF at[1] > 0 THEN at[1] - 1 ELSE 0, at[2])
    [] c = 13 -> GoOn(s, p, 0, at[2])
    [] c = 10 -> GoOn(s, p, at[1], at[2] + 1)
    [] c = 9  -> Stay(TabOn(TypePlain(s, p, Space, attr, ink), p, attr, ink), p)
    [] OTHER  -> TypePlain(s, p, c, attr, ink)
WriteString(s, p, at, chars, back) ==
  LET old == GetCursorPos(s.b, p)
      One(t, ca) == WriteTeletype(t, p, ca[1], ca[2], ca[2])
      end == FoldLeft(One, SetCursorPos(s, p, IF at = "here" THEN old ELSE at), chars)
  IN  IF back THEN SetCursorPos(end, p, old) ELSE end

----------------------------------------------------------------------------
(* Modes and fonts.                                                        *)

ScreenSize(rows, cols) == ((rows * cols * 2) \div Round + 1) * Round
SetScanLines(s, h) ==
  LET v == CrtcWrite(s.v, s.b.crtc, "max", h)
      \* The shape is fitted to the height that is still in the data area.
      t == IF h = 8 THEN SetCursorShape([s EXCEPT !.v = v], 6, 7)
           ELSE SetCursorShape([s EXCEPT !.v = v], h - 4, h - 3)
      rows == ModeTable[v.crtc.base].lines \div h
  IN  [t EXCEPT !.b.height = h, !.b.rows = rows, !.b.pgsize = ScreenSize(rows, s.b.cols)]
LoadTextFont(s, h, block, resize) ==
  LET t == [s EXCEPT !.v.font[block] = IF s.v.ram THEN h ELSE @]
  IN  IF resize THEN SetScanLines(t, h) ELSE t
LoadGraphFont(s, h, rows) == [s EXCEPT !.b.vec43 = h, !.b.height = h, !.b.rows = rows]

\* As much memory as the largest mode of its kind uses.
TextSize == Max({LastPage * md.page + ScreenSize(md.lines \div 8, md.cols) :
                   md \in {ModeTable[m] : m \in {k \in DOMAIN ModeTable : Text(k)}}})
Size(md) == IF md.class = "text" THEN TextSize
            ELSE IF md.model = "cga" THEN 2 * CgaBank * Ppb(md)
            ELSE md.rows * md.height * md.cols * 8
Blank(md) == IF md.class = "text" THEN <<Space, 7>> ELSE 0
Unknown(md) == IF md.class = "text" THEN <<-1, -1>> ELSE -1
SetVideoMode(s, m, keep) ==
  LET md == ModeTable[m]
      d == LoadDacPalette([s.v EXCEPT !.mask = 255], md.dac)
      v1 == IF Bit(s.b.modeset, 3) THEN s.v
            ELSE IF Bit(s.b.modeset, 1) THEN GraySumming(d, 0, DacSize) ELSE d
      v2 == AcWrites(AcReset(v1), Pairs(md.ac, PaletteRegs \o <<16>>) \o <<20, 0>>)
      \* The CRTC is written before the address it answers at is set.
      v3 == IF Mono(m) = v2.colour THEN v2
            ELSE [v2 EXCEPT !.crtc = [base |-> m, max |-> md.height, first |-> 13, last |-> 14,
                                      start |-> 0, cursor |-> 0]]
      v4 == AcReset(AcWrite([v3 EXCEPT !.colour = ~Mono(m), !.ram = TRUE], 32))
      same == md.model = ModeTable[s.b.mode].model
      mem1 == IF keep /\ same THEN s.m
              ELSE [a \in 0..(Size(md) - 1) |-> IF keep THEN Unknown(md) ELSE Blank(md)]
      b == [s.b EXCEPT !.mode = m, !.cols = md.cols, !.pgsize = md.page, !.crtc = ~Mono(m),
                       !.rows = md.rows, !.height = md.height, !.noclear = keep,
                       !.modeset = WithBit(@, 7, FALSE), !.switches = 9,
                       !.pos = [p \in Pages |-> <<0, 0>>],
                       !.vec43 = IF md.height \in DOMAIN Glyph THEN md.height ELSE @]
      t == [v |-> v4, b |-> b, m |-> mem1]
      u == SetActivePage(IF Text(m) THEN SetCursorShape(t, 6, 7) ELSE t, 0)
  IN  IF Text(m) THEN [LoadTextFont(u, 16, 0, FALSE) EXCEPT !.v.block = 0] ELSE u

\* The video part of INT 10h, function 12h.
SelectVertRes(b, n) ==
  CASE n = 2 -> [b EXCEPT !.modeset = WithBit(WithBit(@, 7, FALSE), 4, TRUE), !.switches = 9]
    [] n = 1 -> [b EXCEPT !.modeset = WithBit(WithBit(@, 7, FALSE), 4, FALSE), !.switches = 9]
    [] n = 0 -> [b EXCEPT !.modeset = WithBit(WithBit(@, 7, TRUE), 4, FALSE), !.switches = 8]
    [] OTHER -> b
Alternate(s, what, on) ==
  CASE what = 48 -> [s EXCEPT !.b = SelectVertRes(@, on)]
    [] what = 49 -> [s EXCEPT !.b.modeset = WithBit(@, 3, Bit(on, 0))]
    [] what = 50 -> [s EXCEPT !.v.ram = ~Bit(on, 0)]
    [] what = 51 -> [s EXCEPT !.b.modeset = WithBit(@, 1, ~Bit(on, 0))]
    [] what = 52 -> [s EXCEPT !.b.modeset = WithBit(@, 0, ~Bit(on, 0))]
    [] OTHER -> s

----------------------------------------------------------------------------
(* Save and restore, function 1Ch, by parts: ports, data area, colours.    *)

SavedRegs == PaletteRegs \o <<16>>
ArIndex(v) == (IF v.pas THEN 32 ELSE 0) + v.idx
High(ar) == IF Bit(ar, 5) THEN 32 ELSE 0
SavedPorts(s) ==
  LET v == AcReset(s.v)
      \* Register after register is read, with the picture on.
      One(u, r) == LET w == Peek(u.v, r + High(ArIndex(v)))
                   IN  [v |-> w, ac |-> (r :> AcRead(w)) @@ u.ac]
      all == FoldLeft(One, [v |-> v, ac |-> <<>>], SavedRegs)
  IN  [v |-> AcReset(all.v),
       ports |-> [ac |-> all.ac, ar |-> ArIndex(v), crtc |-> v.crtc, at |-> s.b.crtc]]
\* The colours are read after the address to write has been set.
SavedDac(v) == LET w == DacWriteFrom(v, 0) IN
               [mask |-> v.mask, at |-> v.windex, dac |-> DacTake(w, DacSize)]
SaveState(s, what) ==
  LET p == SavedPorts(s)
      v == IF "ports" \in what THEN p.v ELSE s.v
  IN  [s |-> [s EXCEPT !.v = IF "dac" \in what THEN DacWriteFrom(v, 0) ELSE v],
       buf |-> [what |-> what, ports |-> p.ports, bda |-> s.b, dac |-> SavedDac(v)]]
\* The CRTC is written at the saved address, which afterwards is always the
\* one of colour.
RestorePorts(v0, p) ==
  LET v1 == AcReset(v0)
      v2 == IF p.at = v1.colour THEN [v1 EXCEPT !.crtc = p.crtc] ELSE v1
      v3 == AcReset([v2 EXCEPT !.colour = TRUE])
      regs == FlattenSeq([k \in DOMAIN SavedRegs |->
                            <<SavedRegs[k] + High(p.ar), p.ac[SavedRegs[k]]>>])
  IN  AcReset(AcWrite(AcWrites(v3, regs), p.ar))
RestoreDac(v, d) ==
  DacWriteFrom(SetDac([v EXCEPT !.mask = d.mask], 0, d.dac), d.at)
RestoreState(s, f) ==
  LET v == IF "ports" \in f.what THEN RestorePorts(s.v, f.ports) ELSE s.v IN
  [s EXCEPT !.v = IF "dac" \in f.what THEN RestoreDac(v, f.dac) ELSE v,
            !.b = IF "bda" \in f.what THEN f.bda ELSE @]

----------------------------------------------------------------------------
(* What the calls should leave: the colours, and in graphics modes the     *)
(* picture by column and line, <<>> when it is not known.                  *)

Mask == 64  \* the pixel mask, kept with the palette registers
PaletteOf(md) == [r \in DOMAIN md.ac \cup {20, Mask} |->
                    IF r = 20 THEN 0 ELSE IF r = Mask THEN 255 ELSE md.ac[r]]
DacOf(b, md) == [i \in 0..(DacSize - 1) |->
                   LET x == DefaultDac(md.dac)[i + 1] IN IF Bit(b.modeset, 1) THEN Gray(x) ELSE x]
PaletteAsked(pal, c) ==
  LET Low(bit, on) == [r \in DOMAIN pal |-> IF r \in {1, 2, 3} THEN WithBit(pal[r], bit, on)
                                            ELSE pal[r]] IN
  CASE c.what = "reg"     -> [pal EXCEPT ![c.r] = c.x]
    [] c.what = "all"     -> [r \in DOMAIN pal |-> IF r \in DOMAIN c.f THEN c.f[r] ELSE pal[r]]
    [] c.what = "blink"   -> [pal EXCEPT ![16] = WithBit(@, 3, c.on)]
    [] c.what = "dacmode" -> [pal EXCEPT ![16] = WithBit(@, 7, c.on)]
    [] c.what = "dacpage" -> [pal EXCEPT ![20] = (IF Bit(pal[16], 7) THEN c.x ELSE c.x * 4) % 16]
    [] c.what = "border"  -> [Low(4, Bit(c.x, 4))
                                EXCEPT ![0] = (c.x % 16) + (IF Bit(c.x, 3) THEN 8 ELSE 0)]
    [] c.what = "cga"     -> Low(0, Bit(c.x, 0))
    [] c.what = "mask"    -> [pal EXCEPT ![Mask] = c.x]
    [] OTHER              -> pal
DacAsked(dac, c) ==
  CASE c.what = "dac"  -> [i \in DOMAIN dac |-> IF i - c.at + 1 \in DOMAIN c.xs
                                                THEN c.xs[i - c.at + 1] ELSE dac[i]]
    [] c.what = "gray" -> [i \in DOMAIN dac |-> IF i \in c.at..(c.at + c.n - 1)
                                                THEN Gray(dac[i]) ELSE dac[i]]
    [] OTHER           -> dac
ColoursAsked(pal, dac, c) ==
  CASE c.what = "reg"   -> pal[c.r]
    [] c.what = "all"   -> [k \in DOMAIN PaletteRegs |-> pal[PaletteRegs[k]]]
    [] c.what = "page"  -> <<Bit(pal[16], 7), IF Bit(pal[16], 7) THEN pal[20] ELSE pal[20] \div 4>>
    [] c.what = "dac"   -> [k \in 1..c.n |-> dac[c.at + k - 1]]
    [] c.what = "mask"  -> pal[Mask]

Blanked(md) == IF md.class = "text" THEN <<>>
               ELSE [d \in (0..(md.cols * 8 - 1)) \X (0..(md.rows * md.height - 1)) |-> 0]
\* A drawing d = [pic, at] with the cursor it goes on from.
Drawn(d, b, c, ink, x, y) ==
  LET md == ModeTable[b.mode]
      h == Lines(md, b)
  IN  [d EXCEPT !.pic = [k \in DOMAIN @ |->
         IF k[1] \div 8 = x /\ k[2] \div h = y
         THEN Blend(md, ink, k[1] % 8 \in Glyph[Font(md, b)][c][k[2] % h], @[k]) ELSE @[k]]]
Rolled(pic, b, n, attr, ul, lr) ==
  LET h == b.height
      From(k) == <<k[1], k[2] + n * h>>
      In(k) == k[1] \in (ul[1] * 8)..(lr[1] * 8 + 7) /\ k[2] \in (ul[2] * h)..(lr[2] * h + h - 1)
  IN  [k \in DOMAIN pic |->
         IF ~In(k) THEN pic[k]
         ELSE IF n # 0 /\ In(From(k)) /\ From(k) \in DOMAIN pic THEN pic[From(k)]
         ELSE FillPixel(ModeTable[b.mode], attr, k[1])]
\* Not known: what scrolls down, and what a CGA mode has cleared as a whole.
RolledBy(pic, b, c) ==
  IF pic = <<>> \/ (~c.up /\ c.n # 0) \/ (c.n = 0 /\ ModeTable[b.mode].model = "cga") THEN <<>>
  ELSE Rolled(pic, b, c.n, c.attr, c.ul, c.lr)
TypedOn(d, b, c, ink) ==
  LET On(e) == LET x == IF e.at[1] = b.cols THEN 0 ELSE e.at[1]
                   y == IF e.at[1] = b.cols THEN e.at[2] + 1 ELSE e.at[2]
               IN  IF y < b.rows THEN [e EXCEPT !.at = <<x, y>>]
                   ELSE [pic |-> Rolled(e.pic, b, 1, 0, <<0, 0>>, <<b.cols - 1, b.rows - 1>>),
                         at |-> <<x, y - 1>>]
  IN  CASE c = 13 -> [d EXCEPT !.at[1] = 0]
        [] c = 10 -> On([d EXCEPT !.at[2] = @ + 1])
        [] OTHER  -> On([Drawn(d, b, c, ink, d.at[1], d.at[2]) EXCEPT !.at[1] = @ + 1])

----------------------------------------------------------------------------
(* The calls, one action for each function of INT 10h.                     *)

Asked(fn) == IF hist.n = MaxCalls THEN {}
             ELSE {c \in Calls[bda.mode][hist.n + 1] : c.fn = fn}
Serves(c) == call' = c
Now == [v |-> vga, b |-> bda, m |-> mem]
\* Writes are lost while the memory does not answer.
Becomes(s) == vga' = s.v /\ bda' = s.b /\ mem' = IF s.v.ram THEN s.m ELSE mem
Silent == UNCHANGED <<buf, ret, got>>
Recall(h) == hist' = [h EXCEPT !.n = @ + 1]
Paints(pic) == Recall([hist EXCEPT !.pic = IF vga.ram THEN pic ELSE <<>>])

SetMode == \E c \in Asked("mode") :
  LET md == ModeTable[c.m]
      sure == hist.sure /\ ~Mono(c.m)
      load == ~Bit(bda.modeset, 3) IN
  /\ Serves(c) /\ Becomes(SetVideoMode(Now, c.m, c.keep)) /\ Silent
  /\ Recall([hist EXCEPT
       !.sure = sure, !.dac = IF load THEN DacOf(bda, md) ELSE @,
       !.pal = [PaletteOf(md) EXCEPT ![Mask] = IF load THEN @ ELSE hist.pal[Mask]],
       !.pic = IF c.keep \/ ~sure THEN <<>> ELSE Blanked(md)])
CursorShape == \E c \in Asked("shape") :
  Serves(c) /\ Becomes(SetCursorShape(Now, c.from, c.to)) /\ Silent /\ Recall(hist)
CursorPos == \E c \in Asked("cursor") :
  Serves(c) /\ Becomes(SetCursorPos(Now, c.page, c.at)) /\ Silent /\ Recall(hist)
ActivePage == \E c \in Asked("page") :
  Serves(c) /\ Becomes(SetActivePage(Now, c.page)) /\ Silent /\ Recall(hist)
ScrollWindow == \E c \in Asked("scroll") :
  /\ Serves(c) /\ Silent
  /\ Becomes(Scroll(Now, bda.page, c.n, c.attr, c.ul, c.lr, c.up))
  /\ Paints(RolledBy(hist.pic, bda, c))
ReadChar == \E c \in Asked("read") :
  LET at == GetCursorPos(bda, c.page) IN
  /\ Serves(c) /\ Text(bda.mode)
  /\ ret' = <<mem[CellAt(bda, c.page, at[1], at[2])], at>>
  /\ UNCHANGED <<vga, bda, mem, buf, got>> /\ Recall(hist)
\* Where the screen is, and its size: functions 0Fh and 1Bh.
Info == \E c \in Asked("info") :
  /\ Serves(c) /\ ret' = <<bda.cols, bda.rows, bda.page, bda.pos>>
  /\ UNCHANGED <<vga, bda, mem, buf, got>> /\ Recall(hist)
WriteChars == \E c \in Asked("write") :
  LET at == GetCursorPos(bda, c.page)
      One(d, k) == Drawn(d, bda, c.c, c.ink, at[1] + k - 1, at[2])
  IN  /\ Serves(c) /\ Becomes(WriteChar(Now, c.page, c.c, c.attr, c.ink, c.n)) /\ Silent
      /\ Paints(FoldLeft(One, [pic |-> hist.pic, at |-> at], [k \in 1..c.n |-> k]).pic)
Teletype == \E c \in Asked("type") :
  /\ Serves(c) /\ Becomes(WriteTeletype(Now, bda.page, c.c, -1, c.ink)) /\ Silent
  /\ Paints(IF hist.pic = <<>> THEN <<>>
            ELSE TypedOn([pic |-> hist.pic, at |-> bda.pos[bda.page]], bda, c.c, c.ink).pic)
WriteText == \E c \in Asked("string") :
  LET One(d, ca) == TypedOn(d, bda, ca[1], ca[2])
      at == IF c.at = "here" THEN bda.pos[c.page] ELSE c.at
  IN  /\ Serves(c) /\ Becomes(WriteString(Now, c.page, c.at, c.chars, c.back)) /\ Silent
      /\ Paints(IF hist.pic = <<>> THEN <<>>
                ELSE FoldLeft(One, [pic |-> hist.pic, at |-> at], c.chars).pic)
PutPixel == \E c \in Asked("pixel") :
  /\ Serves(c) /\ Becomes(WritePixel(Now, c.at[1], c.at[2], c.c)) /\ Silent
  /\ Paints(IF hist.pic = <<>> THEN <<>>
            ELSE [hist.pic EXCEPT ![c.at] = Blend(ModeTable[bda.mode], c.c, TRUE, @)])
\* With one bit for a pixel the answer is another pixel's.
GetPixel == \E c \in Asked("dot") :
  LET x == ReadPixel(Now, c.at[1], c.at[2]) IN
  /\ Serves(c) /\ ~Text(bda.mode) /\ got' = <<x>> /\ UNCHANGED <<vga, bda, mem, buf, ret>>
  /\ Recall([hist EXCEPT !.want = IF hist.pic = <<>> \/ ModeTable[bda.mode].bits = 1 THEN <<x>>
                                  ELSE <<hist.pic[c.at]>>])

ColoursSet(c) ==
  LET Blink(x) == WithBit(x, 3, c.on)
      Whole(x) == WithBit(x, 7, c.on)
  IN  CASE c.what = "reg"     -> SetPaletteReg(vga, c.r, c.x)
        [] c.what = "all"     -> SetAllPalette(vga, c.f)
        [] c.what = "blink"   -> ChangeMode(vga, Blink)
        [] c.what = "dacmode" -> ChangeMode(vga, Whole)
        [] c.what = "dacpage" -> SelectDacPage(vga, c.x)
        [] c.what = "border"  -> SetBorder(vga, c.x)
        [] c.what = "cga"     -> SetCgaPalette(vga, c.x)
        [] c.what = "dac"     -> SetDac(vga, c.at, c.xs)
        [] c.what = "mask"    -> [vga EXCEPT !.mask = c.x]
        [] c.what = "gray"    -> GraySumming(vga, c.at, c.n)
SetColours == \E c \in Asked("colours") :
  /\ Serves(c) /\ vga' = ColoursSet(c) /\ UNCHANGED <<bda, mem>> /\ Silent
  /\ Recall([hist EXCEPT !.pal = PaletteAsked(@, c), !.dac = DacAsked(@, c)])
\* The answer, and the ports after it.
ColoursGot(c) ==
  LET One(u, r) == LET w == Peek(u.v, r)
                   IN  [v |-> Unpeek(w), x |-> Append(u.x, AcRead(w))]
  IN  CASE c.what = "reg"  -> LET w == Peek(vga, c.r) IN [v |-> Unpeek(w), x |-> AcRead(w)]
        [] c.what = "all"  -> FoldLeft(One, [v |-> vga, x |-> <<>>], PaletteRegs)
        [] c.what = "page" -> [v |-> Unpeek(Peek(Peek(vga, 16), 20)), x |-> DacPage(vga)]
        [] c.what = "dac"  -> LET w == DacReadFrom(vga, c.at)
                              IN  [v |-> [w EXCEPT !.rindex = (@ + c.n) % DacSize],
                                   x |-> DacTake(w, c.n)]
        [] c.what = "mask" -> [v |-> vga, x |-> vga.mask]
GetColours == \E c \in Asked("palette") :
  /\ Serves(c) /\ vga' = ColoursGot(c).v /\ got' = <<ColoursGot(c).x>>
  /\ UNCHANGED <<bda, mem, buf, ret>>
  /\ Recall([hist EXCEPT !.want = <<ColoursAsked(hist.pal, hist.dac, c)>>])

\* A program that changes the height of the lines has its cursors on lines
\* that stay, and the first page on the screen.
FontText == \E c \in Asked("font") :
  LET s == LoadTextFont(Now, c.h, c.block, c.resize) IN
  /\ Serves(c) /\ Text(bda.mode) /\ Becomes(s) /\ Silent /\ Recall(hist)
  /\ c.resize => bda.page = 0 /\ \A p \in Pages : bda.pos[p][2] < s.b.rows
FontBlock == \E c \in Asked("block") :
  /\ Serves(c) /\ Becomes([Now EXCEPT !.v.block = c.block]) /\ Silent /\ Recall(hist)
FontGraph == \E c \in Asked("glyphs") :
  /\ Serves(c) /\ ~Text(bda.mode) /\ Silent /\ Recall(hist)
  /\ Becomes(LoadGraphFont(Now, c.h, c.rows))
AlternateSelect == \E c \in Asked("alternate") :
  /\ Serves(c) /\ Becomes(Alternate(Now, c.what, c.on)) /\ Silent
  /\ Recall([hist EXCEPT !.pic = IF c.what = 50 THEN <<>> ELSE @])
Save == \E c \in Asked("save") :
  LET r == SaveState(Now, c.what) IN
  Serves(c) /\ Becomes(r.s) /\ buf' = r.buf /\ UNCHANGED <<ret, got>> /\ Recall(hist)
Restore == \E c \in Asked("restore") :
  /\ Serves(c) /\ buf.what # {} /\ Becomes(RestoreState(Now, buf)) /\ Silent
  /\ Recall([hist EXCEPT !.pic = <<>>, !.sure = @ /\ buf.what = {"bda"}])

\* As init_vga_card and init_bios_area leave the card before a first mode.
Regs == {SavedRegs[k] : k \in DOMAIN SavedRegs} \cup {20}
Boot == [v |-> [colour |-> TRUE, ff |-> FALSE, pas |-> FALSE, idx |-> 0, ac |-> [r \in Regs |-> 0],
                dac |-> [i \in 0..(DacSize - 1) |-> -1], windex |-> 0, rindex |-> 0, isread |-> FALSE,
                mask |-> 0, ram |-> TRUE, font |-> [k \in 0..1 |-> -1], block |-> 0,
                crtc |-> [base |-> 3, max |-> 0, first |-> 0, last |-> 0, start |-> 0, cursor |-> 0]],
         b |-> [mode |-> 3, cols |-> 0, pgsize |-> 0, crtc |-> TRUE, rows |-> 0, height |-> 0,
                noclear |-> FALSE, modeset |-> 81, switches |-> 9, pos |-> [p \in Pages |-> <<0, 0>>],
                page |-> 0, start |-> 0, shape |-> <<0, 0>>, vec43 |-> -1],
         m |-> <<>>]
Init == \E m \in FirstModes :
  LET s == SetVideoMode(Boot, m, FALSE) IN
  /\ vga = s.v /\ bda = s.b /\ mem = s.m /\ call = [fn |-> "mode", m |-> m, keep |-> FALSE]
  /\ buf = [what |-> {}] /\ ret = <<>> /\ got = <<>>
  /\ hist = [n |-> 0, pal |-> PaletteOf(ModeTable[m]), dac |-> DacOf(Boot.b, ModeTable[m]),
             want |-> <<>>, pic |-> Blanked(ModeTable[m]), sure |-> ~Mono(m)]
Next == SetMode \/ CursorShape \/ CursorPos \/ ActivePage \/ ScrollWindow \/ ReadChar \/ Info
        \/ WriteChars \/ Teletype \/ WriteText \/ PutPixel \/ GetPixel \/ SetColours \/ GetColours
        \/ FontText \/ FontBlock \/ FontGraph \/ AlternateSelect \/ Save \/ Restore
Spec == Init /\ [][Next]_vars

----------------------------------------------------------------------------
(* The screen the program thinks of.                                       *)

Crt == ModeTable[vga.crtc.base]
\* The card shows a text screen as the data area describes it.
TextOn == /\ Text(bda.mode) /\ vga.ram /\ Crt.class = "text" /\ Crt.cols = bda.cols
          /\ Crt.lines \div vga.crtc.max = bda.rows
OnScreen == IF TextOn THEN CHOOSE p \in Pages : bda.pgsize * p = 2 * vga.crtc.start ELSE bda.page
ShownAt(p, c) == IF p = OnScreen THEN vga.crtc.start + c[2] * Crt.cols + c[1]
                 ELSE CellAt(bda, p, c[1], c[2])
CursorShown == LET k == vga.crtc.cursor - vga.crtc.start IN <<k % Crt.cols, k \div Crt.cols>>
TextCells == [p \in Pages |-> IF ~TextOn THEN <<>>
                ELSE [c \in (0..(bda.cols - 1)) \X (0..(bda.rows - 1)) |-> mem[ShownAt(p, c)]]]
Cursors == [p \in Pages |-> IF TextOn /\ p = OnScreen THEN CursorShown ELSE bda.pos[p]]

\* The text calls are those of a screen of pages of cells: what the CRTC
\* shows of the memory, with its cursor, and what the calls answer, always
\* are the text, the page and the cursor the calls asked for, through
\* changes of mode, page and height of the lines.  Only the content of
\* other pages than the first after a scroll is left open.
Abstract == INSTANCE TextScreen WITH text <- TextCells, curs <- Cursors, shown <- OnScreen,
                                     answer <- ret, asked <- call
Screen == Abstract!TSpec

\* As long as no monochrome mode was set and no ports were restored, the
\* palette and the DAC hold what the calls put there, the answers about
\* them are right, and the picture is on after every call, whatever a call
\* left of the flip-flop and the indices.
ColoursKept ==
  hist.sure => /\ vga.pas /\ vga.mask = hist.pal[Mask] /\ vga.dac = hist.dac
               /\ \A r \in DOMAIN vga.ac : vga.ac[r] = hist.pal[r]
               /\ call.fn = "palette" => got = hist.want

\* After a mode has been set the picture is on.
VideoEnabled == call.fn = "mode" => vga.pas

\* In graphics modes the picture the card scans out of the first page is
\* the one drawn by the calls, and pixels read back are those drawn.
Lit(d) == mem[PixelAddr(Crt, Crt.cols, d[1], d[2])]
DrawnAsAsked ==
  /\ hist.pic # <<>> /\ vga.crtc.start = 0 => \A d \in DOMAIN hist.pic : Lit(d) = hist.pic[d]
  /\ call.fn = "dot" => got = hist.want
=============================================================================
