----------------------------- MODULE MCService ------------------------------
(***************************************************************************)
(* Two artefacts; a place with one or two loops, or none when one result   *)
(* is asked for, a place out of the zone, and a distance out of bounds.    *)
(* Distances are in units of 500 m.                                        *)
(***************************************************************************)
EXTENDS Service

Ici == [lat |-> 48, lon |-> 2, distance |-> 100, resultats |-> 0]
DemandesMC ==
  {Ici, [Ici EXCEPT !.resultats = 1], [Ici EXCEPT !.lat = 0], [Ici EXCEPT !.distance = 101]}
Vers(b) == [err |-> "nil", boucles |-> b]
Sans(e) == [err |-> e, boucles |-> <<>>]
MondeMC ==
  [v \in 1 .. 2 |->
    [d \in DemandesMC |->
       CASE d = Ici -> Vers(IF v = 1 THEN <<"a", "b">> ELSE <<"b">>)
         [] d.resultats = 1 -> IF v = 1 THEN Vers(<<"b">>) ELSE Sans("ErrNoLoopFound")
         [] OTHER -> Sans("ErrStartOutOfRange")]]
IdsMC ==
  {[demande |-> Ici, index |-> i] : i \in -1 .. 1}
    \cup {[demande |-> d, index |-> 0] : d \in {[Ici EXCEPT !.resultats = 1], [Ici EXCEPT !.distance = 101]}}
=============================================================================
