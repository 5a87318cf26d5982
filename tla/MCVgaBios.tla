----------------------------- MODULE MCVgaBios -----------------------------
(* Small screens: two pages of 4 by 2 cells, pictures of a few characters  *)
(* of two lines of eight pixels, a palette of four and a DAC of four.      *)
EXTENDS VgaBios

Bars(a, b) == [i \in 0..1 |-> IF i = 0 THEN a ELSE b]
MCGlyph == [h \in {1, 2} |-> [c \in {32, 65, 66} |->
              CASE c = 32 -> [i \in 0..(h - 1) |-> {}]
                [] c = 65 -> [i \in 0..(h - 1) |-> IF i = 0 THEN {0, 5} ELSE {1}]
                [] c = 66 -> [i \in 0..(h - 1) |-> 0..7]]]

Ac(a, b, c, mode) == (0 :> 0) @@ (1 :> a) @@ (2 :> b) @@ (3 :> c) @@ (16 :> mode) @@ (17 :> 0)
TextMode(model, cols, page, dac) ==
  [class |-> "text", model |-> model, bits |-> 4, cols |-> cols, rows |-> 2, height |-> 16,
   page |-> page, lines |-> 32, dac |-> dac, ac |-> Ac(1, 2, 20, 12)]
GraphMode(model, bits, cols, mode) ==
  [class |-> "graph", model |-> model, bits |-> bits, cols |-> cols, rows |-> 2, height |-> 2,
   page |-> 32, lines |-> 4, dac |-> 1, ac |-> Ac(19, 21, 23, mode)]
MCModeTable ==
  (1  :> TextMode("ctext", 2, 16, 2)) @@ (3 :> TextMode("ctext", 4, 32, 2)) @@
  (7  :> TextMode("mtext", 4, 32, 0)) @@ (4 :> GraphMode("cga", 2, 2, 1)) @@
  (6  :> GraphMode("cga", 1, 4, 1))   @@ (18 :> GraphMode("planar4", 4, 2, 1)) @@
  (19 :> GraphMode("linear8", 8, 2, 65))

Mode(m, keep) == [fn |-> "mode", m |-> m, keep |-> keep]
Cursor(p, x, y) == [fn |-> "cursor", page |-> p, at |-> <<x, y>>]
Window(up, n, attr, ul, lr) ==
  [fn |-> "scroll", up |-> up, n |-> n, attr |-> attr, ul |-> ul, lr |-> lr]
Write(p, c, attr, ink, n) ==
  [fn |-> "write", page |-> p, c |-> c, attr |-> attr, ink |-> ink, n |-> n]
TypeOf(c, ink) == [fn |-> "type", c |-> c, ink |-> ink]
StringOf(p, at, chars, back) ==
  [fn |-> "string", page |-> p, at |-> at, chars |-> chars, back |-> back]
SaveOf(what) == [fn |-> "save", what |-> what]
Alt(what, on) == [fn |-> "alternate", what |-> what, on |-> on]

ColourCalls ==
  {[fn |-> "colours", what |-> "reg", r |-> 1, x |-> 9],
   [fn |-> "colours", what |-> "reg", r |-> 17, x |-> 5],
   [fn |-> "colours", what |-> "all", f |-> [r \in {0, 1, 2, 3, 17} |-> 30 + r]],
   [fn |-> "colours", what |-> "blink", on |-> FALSE],
   [fn |-> "colours", what |-> "dacmode", on |-> TRUE],
   [fn |-> "colours", what |-> "dacpage", x |-> 1],
   [fn |-> "colours", what |-> "border", x |-> 9],
   [fn |-> "colours", what |-> "cga", x |-> 1],
   [fn |-> "colours", what |-> "dac", at |-> 1, xs |-> <<7, 8>>],
   [fn |-> "colours", what |-> "gray", at |-> 2, n |-> 2],
   [fn |-> "colours", what |-> "mask", x |-> 15],
   [fn |-> "palette", what |-> "reg", r |-> 1],
   [fn |-> "palette", what |-> "all"], [fn |-> "palette", what |-> "page"],
   [fn |-> "palette", what |-> "dac", at |-> 1, n |-> 2],
   [fn |-> "palette", what |-> "mask"]}
TextCalls(x) ==
  {Cursor(0, x, 1), Cursor(1, 1, 1),
   [fn |-> "shape", from |-> 0, to |-> 7],
   [fn |-> "page", page |-> 1], [fn |-> "page", page |-> 9],
   Window(TRUE, 1, 4, <<0, 0>>, <<9, 9>>), Window(FALSE, 1, 4, <<1, 0>>, <<2, 1>>),
   Window(TRUE, 0, 4, <<0, 0>>, <<9, 9>>),
   [fn |-> "read", page |-> 0], [fn |-> "info"],
   Write(0, 65, 4, 0, 2), Write(1, 65, -1, 0, 1),
   TypeOf(66, 0), TypeOf(10, 0), TypeOf(8, 0), TypeOf(9, 0), TypeOf(13, 0), TypeOf(7, 0),
   StringOf(1, <<x, 1>>, <<<<65, 4>>>>, TRUE), StringOf(0, "here", <<<<65, 4>>, <<66, 2>>>>, FALSE),
   [fn |-> "font", h |-> 8, block |-> 1, resize |-> TRUE],
   [fn |-> "font", h |-> 14, block |-> 1, resize |-> FALSE],
   [fn |-> "block", block |-> 1]}
GraphCalls ==
  {Cursor(0, 1, 1), [fn |-> "page", page |-> 1],
   Window(TRUE, 1, 2, <<0, 0>>, <<9, 9>>), Window(FALSE, 1, 2, <<0, 0>>, <<9, 9>>),
   Window(TRUE, 1, 1, <<1, 0>>, <<1, 1>>), Window(TRUE, 0, 3, <<0, 0>>, <<9, 9>>),
   Write(0, 65, 3, 3, 2), Write(0, 65, 129, 129, 1),
   TypeOf(65, 2), TypeOf(10, 2),
   StringOf(0, <<1, 0>>, <<<<66, 1>>, <<65, 2>>>>, FALSE),
   [fn |-> "pixel", at |-> <<9, 1>>, c |-> 2], [fn |-> "pixel", at |-> <<9, 1>>, c |-> 131],
   [fn |-> "pixel", at |-> <<9, 2>>, c |-> 1],
   [fn |-> "dot", at |-> <<9, 1>>],
   [fn |-> "glyphs", h |-> 1, rows |-> 4]}
AnyCalls ==
  {SaveOf({"ports", "bda", "dac"}), SaveOf({"bda"}),
   [fn |-> "restore"],
   Alt(48, 0), Alt(48, 1), Alt(48, 2), Alt(49, 1), Alt(50, 1), Alt(51, 0), Alt(52, 1)}
Modes(m) ==
  CASE m = 3 -> {Mode(1, FALSE), Mode(3, TRUE), Mode(7, FALSE), Mode(18, FALSE)}
    [] m = 1 -> {Mode(3, FALSE), Mode(3, TRUE)}
    [] m = 7 -> {Mode(3, FALSE), Mode(18, FALSE)}
    [] OTHER -> {Mode(3, FALSE), Mode(m, TRUE), Mode(19, FALSE)}
\* The first call sets the scene: a cursor, text or a picture to lose, a
\* state to restore, other lines or another mode.
Scene(m) ==
  CASE m = 3 -> {Cursor(0, 3, 1), Mode(1, FALSE), Mode(7, FALSE), [fn |-> "page", page |-> 1],
                 StringOf(0, "here", <<<<65, 4>>, <<66, 2>>>>, FALSE), SaveOf({"ports", "bda", "dac"}),
                 [fn |-> "font", h |-> 8, block |-> 1, resize |-> TRUE], Alt(49, 1), Alt(51, 0)}
    [] OTHER -> {Cursor(0, 1, 1), StringOf(0, <<1, 0>>, <<<<66, 1>>, <<65, 2>>>>, FALSE),
                 SaveOf({"bda"})}
\* Then come two calls, the last of them any.
AnyOf(m) == AnyCalls \cup ColourCalls \cup Modes(m) \cup
            (IF MCModeTable[m].class = "text" THEN TextCalls(MCModeTable[m].cols - 1) ELSE GraphCalls)
SomeOf(m) ==
  {c \in AnyOf(m) : c.fn \in {"mode", "restore", "font", "glyphs", "string", "pixel"}
                    \/ c \in {[fn |-> "colours", what |-> "dacmode", on |-> TRUE],
                              [fn |-> "colours", what |-> "gray", at |-> 2, n |-> 2],
                              [fn |-> "palette", what |-> "dac", at |-> 1, n |-> 2],
                              SaveOf({"bda"}), Alt(50, 1), [fn |-> "page", page |-> 1],
                              Cursor(0, MCModeTable[m].cols - 1, 1), Cursor(1, 1, 1),
                              Window(TRUE, 1, 2, <<0, 0>>, <<9, 9>>), TypeOf(10, 0), TypeOf(65, 2)}}
MCCalls == [m \in DOMAIN MCModeTable |-> <<Scene(m), SomeOf(m), AnyOf(m)>>]
=============================================================================
