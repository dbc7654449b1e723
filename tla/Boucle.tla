------------------------------- MODULE Boucle -------------------------------
(***************************************************************************)
(* Generator.tryLoop and appendSegment, internal/app/generateloop/         *)
(* generate.go: a loop glued together from the paths between waypoints.    *)
(*                                                                         *)
(* FindPath is used by its contract, what module AStar establishes: any    *)
(* simple path between its ends, whose RetracedM counts the edges already  *)
(* used in either direction. NearestNode may return any node, or none.     *)
(***************************************************************************)
EXTENDS Integers, Sequences, FiniteSets, Functions

CONSTANTS
  Nodes, Edges, Src, Tgt, Rev, Long,    \* the graph, as in AStar
  NumWaypoints                          \* numWaypoints

ASSUME GrapheAssumption ==
  /\ IsFiniteSet(Nodes)
  /\ Src \in [Edges -> Nodes] /\ Tgt \in [Edges -> Nodes]
  /\ Rev \in [Edges -> Edges] /\ Long \in [Edges -> Nat]
  /\ \A e \in Edges : /\ Rev[Rev[e]] = e /\ Rev[e] # e
                      /\ Src[Rev[e]] = Tgt[e] /\ Long[Rev[e]] = Long[e]
  /\ NumWaypoints \in Nat

VARIABLES
  start,
  kWp,              \* the next waypoint, NumWaypoints for the way back
  current, used, loop,
  fin               \* "aucune", "ok", "ErrNoLoopFound" or "err"

varsBoucle == <<start, kWp, current, used, loop, fin>>

Vide(n) == [nodes |-> <<n>>, edges |-> <<>>, lengthM |-> 0, retracedM |-> 0]

\* The simple paths from one node to another, as sequences of edges.
Enchaine(p) == \A i \in 1 .. Len(p) - 1 : Tgt[p[i]] = Src[p[i + 1]]
Simple(p) == /\ Enchaine(p)
             /\ \A i, j \in DOMAIN p : i < j => Src[p[i]] # Src[p[j]]
             /\ \A i, j \in DOMAIN p : i <= j => Src[p[i]] # Tgt[p[j]]
Simples == {p \in UNION {[1 .. n -> Edges] : n \in 1 .. Cardinality(Nodes) - 1} : Simple(p)}
Chemins(a, b) ==
  IF a = b THEN {<<>>} ELSE {p \in Simples : Src[p[1]] = a /\ Tgt[p[Len(p)]] = b}

DejaPris(e) == e \in used \/ Rev[e] \in used
Longueur(p) == SumFunction([i \in DOMAIN p |-> Long[p[i]]])
Repasse(p) == SumFunction([i \in DOMAIN p |-> IF DejaPris(p[i]) THEN Long[p[i]] ELSE 0])

\* Mutant: the joint is repeated.
appendSegmentEntier(p) ==
  /\ loop' = [nodes     |-> loop.nodes \o <<current>> \o [i \in DOMAIN p |-> Tgt[p[i]]],
              edges     |-> loop.edges \o p,
              lengthM   |-> loop.lengthM + Longueur(p),
              retracedM |-> loop.retracedM + Repasse(p)]
  /\ used' = used \cup Range(p)
\* appendSegment: the joint is not repeated, the edges become used.
appendSegment(p) ==
  /\ loop' = [nodes     |-> loop.nodes \o [i \in DOMAIN p |-> Tgt[p[i]]],
              edges     |-> loop.edges \o p,
              lengthM   |-> loop.lengthM + Longueur(p),
              retracedM |-> loop.retracedM + Repasse(p)]
  /\ used' = used \cup Range(p)

----------------------------------------------------------------------------
InitBoucle ==
  /\ start \in Nodes
  /\ kWp = 0
  /\ current = start
  /\ used = {}
  /\ loop = Vide(start)
  /\ fin = "aucune"

EnRoute == fin = "aucune" /\ kWp < NumWaypoints
\* No node near the waypoint, or the one we stand on: the waypoint is skipped.
Sauter ==
  /\ EnRoute
  /\ kWp' = kWp + 1
  /\ UNCHANGED <<start, current, used, loop, fin>>
Gagner(wp) ==
  /\ EnRoute
  /\ wp # current
  /\ \E p \in Chemins(current, wp) : appendSegment(p)
  /\ current' = wp
  /\ kWp' = kWp + 1
  /\ UNCHANGED <<start, fin>>
\* FindPath fails, on a waypoint or on the way back.
Renoncer ==
  /\ fin = "aucune"
  /\ fin' = "err"
  /\ UNCHANGED <<start, kWp, current, used, loop>>
Rentrer ==
  /\ fin = "aucune" /\ kWp = NumWaypoints
  /\ \E p \in Chemins(current, start) : appendSegment(p)
  /\ fin' = IF loop'.nodes[Len(loop'.nodes)] # start THEN "ErrNoLoopFound" ELSE "ok"
  /\ UNCHANGED <<start, kWp, current>>

NextBoucle == Sauter \/ (\E wp \in Nodes : Gagner(wp)) \/ Renoncer \/ Rentrer

----------------------------------------------------------------------------
\* The nodes and the edges of a loop tell the same closed walk, segment after
\* segment, so that its geometry has no gap and no repeated joint; the final
\* guard of tryLoop (generate.go:222) rejects nothing.
Recollee ==
  /\ loop.nodes[1] = start
  /\ Len(loop.nodes) = Len(loop.edges) + 1
  /\ \A i \in DOMAIN loop.edges : /\ Src[loop.edges[i]] = loop.nodes[i]
                                  /\ Tgt[loop.edges[i]] = loop.nodes[i + 1]
  /\ fin = "ok" => loop.nodes[Len(loop.nodes)] = start
  /\ fin # "ErrNoLoopFound"

\* RetracedM is exactly what the loop walks more than once: its length without
\* it is that of the segments it covers, either direction counting for the
\* same segment (track.go:63-69, generate.go:235-243).
Segments(es) == {{e, Rev[e]} : e \in es}
RetraceJuste ==
  loop.lengthM - loop.retracedM
    = SumFunction([s \in Segments(Range(loop.edges)) |-> Long[CHOOSE e \in s : TRUE]])

\* The loop that is served, its geometry and its figures, is a loop walked.
BoucleJuste == Recollee /\ RetraceJuste

----------------------------------------------------------------------------
\* The inductive invariant: the walk ends where tryLoop stands, and used holds
\* its edges.
Marche ==
  /\ start \in Nodes /\ current \in Nodes
  /\ loop \in [nodes : Seq(Nodes), edges : Seq(Edges), lengthM : Nat, retracedM : Nat]
  /\ used = Range(loop.edges)
  /\ loop.nodes[Len(loop.nodes)] = IF fin = "ok" THEN start ELSE current
IInvBoucle == Marche /\ BoucleJuste
=============================================================================
