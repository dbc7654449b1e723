-------------------------------- MODULE Cout ---------------------------------
(***************************************************************************)
(* The cost of an edge: EdgeAttrs.Cost (internal/adapter/network/csr/      *)
(* attrs.go) and Preferences.Weights (internal/domain/profile.go), on      *)
(* which the optimality of the search rests.                               *)
(*                                                                         *)
(* Preferences and weights are counted in tenths, penalties in 510ths:     *)
(* every constant of the code is then an integer. NaN compares with        *)
(* nothing: a comparison with it is FALSE.                                 *)
(***************************************************************************)
EXTENDS Integers

NaN == -100
Moins(x, y) == x # NaN /\ y # NaN /\ x < y

maxPavedWeight == 6
minTrafficWeight == 2
maxTrafficWeight == 12

\* Mutant: NaN is not looked at.
Clamp01SansNaN(v) == IF Moins(v, 0) THEN 0 ELSE IF Moins(10, v) THEN 10 ELSE v
Clamp01(v) == IF v = NaN \/ Moins(v, 0) THEN 0 ELSE IF Moins(10, v) THEN 10 ELSE v

Weights(avoidPaved) ==
  [Paved   |-> Clamp01(avoidPaved) * maxPavedWeight,
   Traffic |-> 10 * minTrafficWeight + Clamp01(avoidPaved) * (maxTrafficWeight - minTrafficWeight)]

\* The byte of a surface; any other one is a surface not told.
pavedPenalty(surface) ==
  CASE surface = 1 -> 510 [] surface = 2 -> 153 [] surface = 3 -> 0 [] OTHER -> 255
trafficPenalty(traffic) == 2 * traffic

\* Length times Echelle times one plus the penalty.
Echelle == 5100
Cost(a, w) ==
  a.longueur * (Echelle + w.Paved * pavedPenalty(a.surface) + w.Traffic * trafficPenalty(a.traffic))
=============================================================================
