------------------------------ MODULE MCReseau -------------------------------
(* Every graph of up to NMax nodes and SegmentsMax segments, up to the         *)
(* direction in which a segment is added; segments may be double, or loops.    *)
(* Up to two nodes stand anywhere at the edges of the cells of three rings;    *)
(* more of them, in two places of which the nearest is not where the first     *)
(* hit is. The point asked for is in the corner of its cell.                   *)
EXTENDS Proche
CONSTANTS NMax, SegmentsMax
Segments(n) == {s \in (0 .. n - 1) \X (0 .. n - 1) : s[1] <= s[2]}
Bouts(s) == LET Arete(i) == s[i \div 2] IN
  [from |-> [i \in 0 .. 2 * Cardinality(DOMAIN s) - 1 |-> Arete(i)[1 + (i % 2)]],
   to   |-> [i \in 0 .. 2 * Cardinality(DOMAIN s) - 1 |-> Arete(i)[2 - (i % 2)]]]
MCBuilders == UNION {
  {[n |-> n, m |-> 2 * k, from |-> Bouts(s).from, to |-> Bouts(s).to] :
     s \in [0 .. k - 1 -> Segments(n)]} : n \in 0 .. NMax, k \in 0 .. SegmentsMax}
Partout == {-5, 0, 3, 4, 8} \X {-8, 0, 3, 4, 11}
DeuxPlaces == {<<0, 0>>, <<8, 3>>}
MCPlacements == UNION {[0 .. n - 1 -> IF n <= 2 THEN Partout ELSE DeuxPlaces] : n \in 0 .. NMax}
MCDeparts == {<<3, 3>>}
=============================================================================
