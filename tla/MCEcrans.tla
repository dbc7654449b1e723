------------------------------ MODULE MCEcrans -------------------------------
(* Two loops: the one shown, the one asked for. *)
EXTENDS Ecrans
CONSTANTS b1, b2
MCIds == {b1, b2}
=============================================================================
