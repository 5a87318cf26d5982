------------------------------- MODULE MCPic -------------------------------
(* Instances of Pic: three or four lines a chip, the slave on a line of its   *)
(* own, and the accesses each run lets the software make.                    *)
EXTENDS Pic

CONSTANTS base, mbase, sbase

A(kind) == [Idle EXCEPT !.kind = kind]

OnMaster(a) == [chip |-> "master", access |-> a]
OnSlave(a) == [chip |-> "slave", access |-> a]

\* The sequence of the firmware: ICW1 with ICW4, base, wiring, ICW4, masks.
MCBoot ==
  <<OnMaster([A("icw1") EXCEPT !.f = TRUE]), OnSlave([A("icw1") EXCEPT !.f = TRUE]),
    OnMaster([A("icw2") EXCEPT !.off = mbase]), OnSlave([A("icw2") EXCEPT !.off = sbase]),
    OnMaster([A("icw3") EXCEPT !.mask = {Cascade}]), OnSlave([A("icw3") EXCEPT !.mask = {Cascade}]),
    OnMaster(A("icw4")), OnSlave(A("icw4")),
    OnMaster(A("ocw1")), OnSlave(A("ocw1"))>>

\* A master alone: no line is declared to carry a slave.
MCBootAlone ==
  <<OnMaster([A("icw1") EXCEPT !.f = TRUE]), OnMaster([A("icw2") EXCEPT !.off = mbase]),
    OnMaster(A("icw3")), OnMaster(A("icw4")), OnMaster(A("ocw1"))>>

\* Cascaded operation: masking and non-specific end of interrupt on both chips.
CascadeCommands ==
  {OnMaster(A("eoi")), OnSlave(A("eoi")),
   OnMaster(A("ocw1")), OnMaster([A("ocw1") EXCEPT !.mask = {Cascade}]),
   OnSlave(A("ocw1")), OnSlave([A("ocw1") EXCEPT !.mask = {0}])}

\* One chip alone: masking, every end of interrupt, polling and the special mask
\* mode, rotation in all its forms, and initialisation again with level sensing
\* and, if its ICW4 is written, automatic end of interrupt.
SingleCommands ==
  {OnMaster(A(k)) : k \in {"eoi", "read", "eoi_rotate", "icw2", "icw3"}}
    \cup {OnMaster([A("ocw1") EXCEPT !.mask = m]) : m \in {{}, {0}}}
    \cup {OnMaster([A(k) EXCEPT !.f = TRUE]) :
           k \in {"ocw3", "ocw3_mask_mode", "rotate_on_aeoi", "icw4"}}
    \cup {OnMaster([A(k) EXCEPT !.line = 2]) :
           k \in {"eoi_specific", "set_priority", "eoi_rotate_specific"}}
    \cup {OnMaster([A("icw1") EXCEPT !.f = TRUE, !.g = TRUE])}

\* The handlers do nothing but end their interrupts.
HandlerCommands == {OnMaster(A("eoi")), OnSlave(A("eoi"))}
=============================================================================
