---------------------------- MODULE MCPageDepart -----------------------------
(* Two points, one of them outside the region: where one goes, and elsewhere. *)
EXTENDS PageDepart
CONSTANTS ici, mer
MCPoints == {ici, mer}
MCZone == {ici}
=============================================================================
