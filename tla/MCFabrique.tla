----------------------------- MODULE MCFabrique ------------------------------
(***************************************************************************)
(* Two versions of an extract of nodes 10 .. 13. The first has a way that  *)
(* leaves it, one that repeats a node and comes back over itself, one with *)
(* no access and one that is not a way; in the second a way is longer and  *)
(* a node has moved.                                                       *)
(***************************************************************************)
EXTENDS Fabrique

Way(nodes, highway, access, surface) ==
  [nodes |-> nodes, tags |-> [highway |-> highway, access |-> access, surface |-> surface]]
MCExtraits == <<
  [ways |-> <<Way(<<10, 99, 11, 11, 10, 11>>, "path", "", "gravel"),
              Way(<<11, 12>>, "secondary", "no", ""), Way(<<12, 10>>, "motorway", "", "")>>,
   noeuds |-> [n \in {10, 11, 12} |-> n - 10]],
  [ways |-> <<Way(<<10, 11, 12>>, "track", "", ""), Way(<<12>>, "path", "", "")>>,
   noeuds |-> [n \in {10, 11, 12, 13} |-> (n - 10) * 3]]>>
\* A damaged word: zero, or an edge of negative length (as anything else, out of bounds).
MCMots == {0, 257 * 256 * 256 + 256}
MCAvoidPaved == {NaN, -2, 0, 5, 10, 13}
=============================================================================
