---------------------------- MODULE MCBiosInput ----------------------------
(* Constants for BiosInput. *)
EXTENDS BiosInput
A     == <<30, FALSE>>
Ctrl  == <<29, FALSE>>
Caps  == <<58, FALSE>>
Break == <<70, TRUE>>
KeysMC == {A, Ctrl, Caps, Break}
=============================================================================
