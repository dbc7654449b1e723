------------------------------ MODULE MCDepart -------------------------------
(* Two points, one of them outside the region: where one goes, and elsewhere. *)
EXTENDS Depart
CONSTANTS ici, mer
MCPoints == {ici, mer}
MCZone == {ici}
=============================================================================
