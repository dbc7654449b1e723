------------------------------- MODULE Proche --------------------------------
(***************************************************************************)
(* Graph.NearestNode (internal/adapter/network/csr/nearest.go) on a graph  *)
(* Construction has built: the node of the main component nearest to a     *)
(* point, looked for ring of cells by ring of cells.                       *)
(*                                                                         *)
(* Points are integers, cote of them to the side of a cell. A metre of     *)
(* longitude is worth less than one of latitude: HaversineM is abstracted  *)
(* to the norm where they weigh poidsLon and poidsLat. Nothing reads the   *)
(* coordinates before the call: they are chosen when it begins.            *)
(***************************************************************************)
EXTENDS Construction

CONSTANTS
  Placements,           \* where nodes may be: functions from Noeuds(b) to <<lon, lat>>
  Departs,              \* the points asked for
  cote,                 \* cellSizeDeg
  maxRings,
  poidsLon, poidsLat

ASSUME PointsAssumption ==
  /\ Departs \subseteq Int \X Int
  /\ \A f \in Placements : \A n \in DOMAIN f : f[n] \in Int \X Int
ASSUME CelluleAssumption == /\ cote \in Nat \ {0} /\ maxRings \in Nat
                            /\ poidsLon \in 1 .. poidsLat /\ poidsLat \in Nat

VARIABLES
  appel,                \* "avant", "cours", "rendu"
  coords,               \* of the graph
  c,                    \* the point
  ring, best, bestDist, firstHit

varsAppel == <<appel, coords, c, ring, best, bestDist, firstHit>>
varsReseau == <<vars, varsAppel>>

Infini == -1            \* math.MaxFloat64
----------------------------------------------------------------------------
keyOf(p) == [i \in {1, 2} |-> p[i] \div cote]

Carre(a) == a * a
\* The square of the distance.
Distance(p, q) == Carre(poidsLon * (p[1] - q[1])) + Carre(poidsLat * (p[2] - q[2]))

Ecart(a) == IF a < 0 THEN -a ELSE a
\* The ring a cell is in, seen from the cell of c.
Anneau(p) ==
  LET dx == Ecart(keyOf(p)[1] - keyOf(c)[1])
      dy == Ecart(keyOf(p)[2] - keyOf(c)[2])
  IN  IF dx < dy THEN dy ELSE dx

\* The order cells are visited in, then that of insertion in a cell.
VuAvant(n, m) ==
  LET k == keyOf(coords[n])
      l == keyOf(coords[m])
  IN  \/ k[1] < l[1]
      \/ k[1] = l[1] /\ k[2] < l[2]
      \/ k = l /\ n < m

InitReseau ==
  /\ Init
  /\ appel = "avant"
  /\ coords = Vide /\ c = <<0, 0>>
  /\ ring = 0 /\ best = 0 /\ bestDist = Infini
  /\ firstHit = -1

----------------------------------------------------------------------------
Demander ==
  /\ phase = "fini" /\ appel = "avant"
  /\ appel' = "cours"
  /\ coords' \in {f \in Placements : DOMAIN f = Noeuds(b)}
  /\ c' \in Departs
  /\ UNCHANGED <<vars, ring, best, bestDist, firstHit>>

\* Mutant: every node is a candidate.
CandidatsTous == {n \in Noeuds(b) : Anneau(coords[n]) = ring}
Candidats == {n \in Noeuds(b) : Anneau(coords[n]) = ring /\ n \in bits}

\* The nodes of the ring that beat what the previous rings left.
Meilleurs == {n \in Candidats : bestDist = Infini \/ Distance(c, coords[n]) < bestDist}
\* The first of the nearest, < being strict.
Gagnant(n) ==
  /\ n \in Meilleurs
  /\ \A m \in Meilleurs : \/ Distance(c, coords[n]) < Distance(c, coords[m])
                          \/ Distance(c, coords[n]) = Distance(c, coords[m]) /\ ~VuAvant(m, n)

\* Mutant: no ring after that of the first hit.
ContinuerSansMarge == appel = "cours" /\ ring <= maxRings /\ firstHit = -1
Continuer == appel = "cours" /\ ring <= maxRings /\ ~(firstHit >= 0 /\ ring > firstHit + 1)

Balayer ==
  /\ Continuer
  /\ \E n \in Noeuds(b) :
       /\ Gagnant(n)
       /\ best' = n
       /\ bestDist' = Distance(c, coords[n])
       /\ firstHit' = IF firstHit < 0 THEN ring ELSE firstHit
  /\ ring' = ring + 1
  /\ UNCHANGED <<vars, appel, coords, c>>
BalayerEnVain ==
  /\ Continuer
  /\ Meilleurs = {}
  /\ ring' = ring + 1
  /\ UNCHANGED <<vars, appel, coords, c, best, bestDist, firstHit>>
Rendre ==
  /\ appel = "cours" /\ ~Continuer
  /\ appel' = "rendu"
  /\ UNCHANGED <<vars, coords, c, ring, best, bestDist, firstHit>>

Construire == Etape /\ UNCHANGED varsAppel
Avancer == Construire \/ Demander \/ Balayer \/ BalayerEnVain \/ Rendre
NextReseau == Avancer \/ (appel = "rendu" /\ UNCHANGED varsReseau)
SpecReseau == InitReseau /\ [][NextReseau]_varsReseau
FairReseau == SpecReseau /\ WF_varsReseau(Avancer)

----------------------------------------------------------------------------
\* A node is found exactly when the main component has one in the rings looked
\* at, and it is one of them: never a stretch cut from the rest, however near
\* (nearest.go:39-43, 70-72).
Ancree ==
  appel = "rendu" =>
    /\ firstHit # -1 <=> \E n \in bits : Anneau(coords[n]) <= maxRings
    /\ firstHit # -1 => best \in bits /\ bestDist = Distance(c, coords[best])

\* What that is worth: the graph has no larger connected set than what the node
\* a search is anchored to leads to (graph.go:175-181).
NonPiege ==
  /\ ComposantePrincipale
  /\ Ancree
  /\ appel = "rendu" /\ firstHit # -1 =>
       \A n \in Noeuds(b) :
         Cardinality(Atteints(n, Aretes)) <= Cardinality(Atteints(best, Aretes))

\* One more ring after the first hit does not make the node found the nearest,
\* but keeps it within the ratio of a cell's diagonal to its shorter side: the
\* hit is within firstHit + 1 diagonals, what was not looked at is more than
\* firstHit + 1 sides away (nearest.go:55-60).
Diagonale == Distance(<<0, 0>>, <<cote, cote>>)
ErreurBornee ==
  appel = "rendu" /\ firstHit # -1 =>
    \A n \in bits :
      Anneau(coords[n]) <= maxRings =>
        bestDist * Carre(poidsLon * cote) <= Diagonale * Distance(c, coords[n])

\* Build and NearestNode return: no find turns in circles and the rings end.
Reponse == <>(appel = "rendu")

----------------------------------------------------------------------------
\* The inductive invariant of the proofs. The rings are integers once the points
\* are placed.
Places ==
  /\ c \in Int \X Int
  /\ \A n \in Noeuds(b) : coords[n] \in Int \X Int

\* As long as nothing is found, the main component has nothing in the rings
\* that were swept; what is found is in it.
InvAnneaux ==
  /\ ring \in Nat
  /\ appel # "avant" => phase = "fini" /\ Places
  /\ appel = "avant" => ring = 0 /\ firstHit = -1 /\ bestDist = Infini
  /\ firstHit = -1 =>
       /\ bestDist = Infini
       /\ appel # "avant" => \A n \in bits : ring <= Anneau(coords[n])
  /\ firstHit # -1 =>
       /\ firstHit \in Nat
       /\ best \in bits /\ Anneau(coords[best]) <= maxRings
       /\ bestDist = Distance(c, coords[best])
  /\ appel = "rendu" /\ firstHit = -1 => maxRings < ring

\* Nothing swept is nearer than what is found; the ring of the first hit holds
\* a node, and one more is swept unless the rings end.
InvMeilleur == firstHit # -1 =>
  /\ firstHit < ring
  /\ \E n \in bits : Anneau(coords[n]) = firstHit
  /\ \A n \in bits : Anneau(coords[n]) < ring => bestDist <= Distance(c, coords[n])
  /\ appel = "rendu" => maxRings < ring \/ firstHit + 1 < ring

IInvReseau == IInvUnion /\ InvAnneaux /\ InvMeilleur
----------------------------------------------------------------------------
\* What NearestNode promises (nearest.go:34): the nearest routable node.
PlusProche ==
  appel = "rendu" /\ firstHit # -1 =>
    \A n \in bits : bestDist <= Distance(c, coords[n])
=============================================================================
