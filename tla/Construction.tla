---------------------------- MODULE Construction -----------------------------
(***************************************************************************)
(* Builder.Build (internal/adapter/network/csr/graph.go): the edges sorted *)
(* by source into a CSR graph, the table of reverse edges, and the largest *)
(* connected component by union-find.                                      *)
(*                                                                         *)
(* Nodes, edges and positions are counted from 0, as in the code. The      *)
(* attributes of an edge are its index in the builder. find is one action  *)
(* per half-hop, union one more: the loops of computeMainComponent.        *)
(***************************************************************************)
EXTENDS Integers, FiniteSets

CONSTANT Builders    \* what may be built: n nodes, edges i from from[i] to to[i]

\* i ^ 1
Jumelle(i) == IF i % 2 = 0 THEN i + 1 ELSE i - 1
Noeuds(c) == 0 .. c.n - 1

\* The contract of AddEdge: a segment is two consecutive calls, (u, v), (v, u).
Contrat(c) ==
  /\ c.n \in Nat /\ c.m \in Nat
  /\ c.from \in [0 .. c.m - 1 -> Noeuds(c)] /\ c.to \in [0 .. c.m - 1 -> Noeuds(c)]
  /\ \A i \in 0 .. c.m - 1 : /\ Jumelle(i) \in 0 .. c.m - 1
                             /\ c.from[Jumelle(i)] = c.to[i]
                             /\ c.to[Jumelle(i)] = c.from[i]
ASSUME BuilderAssumption == \A c \in Builders : Contrat(c)

VARIABLES
  b,               \* the builder
  g,               \* the graph: offsets, targets, attrs, reverse
  parent, size,    \* the union-find
  phase,           \* "tri", "union", "choix", "bits", "fini"
  rang,            \* the edge or the node the loop is at
  x, ra,           \* find: the node it is at; the root already found, or -1
  mainRoot, mainSize, bits

vars == <<b, g, parent, size, phase, rang, x, ra, mainRoot, mainSize, bits>>

Aretes == 0 .. b.m - 1
----------------------------------------------------------------------------
\* A stable sort by source: newIndex is the rank of an edge.
Avant(j, i) == b.from[j] < b.from[i] \/ (b.from[j] = b.from[i] /\ j < i)
newIndex == [i \in Aretes |-> Cardinality({j \in Aretes : Avant(j, i)})]
order == [p \in Aretes |-> CHOOSE i \in Aretes : newIndex[i] = p]

\* Mutant: the reverse edge is looked up among the sorted edges.
reverseTriee(ni, o) == [p \in Aretes |-> Jumelle(p)]
reverse(ni, o) == [p \in Aretes |-> ni[Jumelle(o[p])]]
\* Counts, then their prefix sum.
offsets == [n \in 0 .. b.n |-> Cardinality({i \in Aretes : b.from[i] < n})]

Build(ni, o) == [offsets |-> offsets, attrs |-> o, reverse |-> reverse(ni, o),
                 targets |-> [p \in Aretes |-> b.to[o[p]]]]
EdgeRange(n) == g.offsets[n] .. g.offsets[n + 1] - 1
Source(e) == CHOOSE n \in Noeuds(b) : e \in EdgeRange(n)

Vide == [n \in {} |-> 0]
Init ==
  /\ b \in Builders
  /\ g = Vide
  /\ parent = [n \in Noeuds(b) |-> n] /\ size = [n \in Noeuds(b) |-> 1]
  /\ phase = "tri"
  /\ rang = 0 /\ x = -1 /\ ra = -1
  /\ mainRoot = -1 /\ mainSize = 0
  /\ bits = {}

----------------------------------------------------------------------------
Trier ==
  /\ phase = "tri"
  /\ phase' = "union"
  /\ g' = Build(newIndex, order)
  /\ UNCHANGED <<b, parent, size, rang, x, ra, mainRoot, mainSize, bits>>

\* find starts from n; it moves by half-hops; it has found a root.
Chercher(n) == x = -1 /\ x' = n /\ UNCHANGED <<parent, ra>>
\* Mutant: the half-hop leaves x where it is.
SauterSurPlace ==
  /\ x # -1 /\ parent[x] # x
  /\ parent' = [parent EXCEPT ![x] = parent[parent[x]]]
  /\ UNCHANGED <<b, g, size, phase, rang, x, ra, mainRoot, mainSize, bits>>
Sauter ==
  /\ x # -1 /\ parent[x] # x
  /\ parent' = [parent EXCEPT ![x] = parent[parent[x]]]
  /\ x' = parent[parent[x]]
  /\ UNCHANGED <<b, g, size, phase, rang, ra, mainRoot, mainSize, bits>>
Trouvee == x # -1 /\ parent[x] = x

\* union of the ends of edge rang: find, find, link.
ChercherSource ==
  /\ phase = "union" /\ rang < b.m /\ ra = -1
  /\ Chercher(Source(rang))
  /\ UNCHANGED <<b, g, size, phase, rang, mainRoot, mainSize, bits>>
ChercherCible ==
  /\ phase = "union" /\ ra = -1 /\ Trouvee
  /\ ra' = x
  /\ x' = g.targets[rang]
  /\ UNCHANGED <<b, g, parent, size, phase, rang, mainRoot, mainSize, bits>>
MemeRacine ==
  /\ phase = "union" /\ ra # -1 /\ Trouvee
  /\ x = ra
  /\ rang' = rang + 1 /\ x' = -1 /\ ra' = -1
  /\ UNCHANGED <<b, g, parent, size, phase, mainRoot, mainSize, bits>>
Lier ==
  /\ phase = "union" /\ ra # -1 /\ Trouvee
  /\ x # ra
  /\ \E haut, bas \in {ra, x} :
       /\ haut # bas
       /\ IF size[ra] < size[x] THEN haut = x ELSE haut = ra
       /\ parent' = [parent EXCEPT ![bas] = haut]
       /\ size' = [size EXCEPT ![haut] = size[haut] + size[bas]]
  /\ rang' = rang + 1 /\ x' = -1 /\ ra' = -1
  /\ UNCHANGED <<b, g, phase, mainRoot, mainSize, bits>>
FinUnion ==
  /\ phase = "union" /\ rang = b.m /\ x = -1
  /\ phase' = "choix"
  /\ rang' = 0
  /\ UNCHANGED <<b, g, parent, size, x, ra, mainRoot, mainSize, bits>>

\* The two loops over the nodes, each with a find of its own.
ChercherNoeud ==
  /\ phase \in {"choix", "bits"} /\ rang < b.n
  /\ Chercher(rang)
  /\ UNCHANGED <<b, g, size, phase, rang, mainRoot, mainSize, bits>>
Retenir ==
  /\ phase = "choix" /\ Trouvee
  /\ IF x = rang /\ size[rang] > mainSize
     THEN mainRoot' = rang /\ mainSize' = size[rang]
     ELSE UNCHANGED <<mainRoot, mainSize>>
  /\ rang' = rang + 1 /\ x' = -1
  /\ UNCHANGED <<b, g, parent, size, phase, ra, bits>>
FinChoix ==
  /\ phase = "choix" /\ rang = b.n /\ x = -1
  /\ phase' = "bits"
  /\ rang' = 0
  /\ UNCHANGED <<b, g, parent, size, x, ra, mainRoot, mainSize, bits>>
Marquer ==
  /\ phase = "bits" /\ Trouvee
  /\ bits' = IF x = mainRoot THEN bits \cup {rang} ELSE bits
  /\ rang' = rang + 1 /\ x' = -1
  /\ UNCHANGED <<b, g, parent, size, phase, ra, mainRoot, mainSize>>
FinBits ==
  /\ phase = "bits" /\ rang = b.n /\ x = -1
  /\ phase' = "fini"
  /\ UNCHANGED <<b, g, parent, size, rang, x, ra, mainRoot, mainSize, bits>>

Etape ==
  \/ Trier \/ Sauter \/ ChercherSource \/ ChercherCible \/ MemeRacine \/ Lier
  \/ FinUnion \/ ChercherNoeud \/ Retenir \/ FinChoix \/ Marquer \/ FinBits
Next == Etape \/ (phase = "fini" /\ UNCHANGED vars)
Spec == Init /\ [][Next]_vars

----------------------------------------------------------------------------
TypeOK ==
  /\ parent \in [Noeuds(b) -> Noeuds(b)]
  /\ size \in [Noeuds(b) -> Nat]
  /\ phase \in {"tri", "union", "choix", "bits", "fini"}
  /\ rang \in 0 .. (IF phase \in {"tri", "union"} THEN b.m ELSE b.n)
  /\ x \in Noeuds(b) \cup {-1} /\ ra \in Noeuds(b) \cup {-1}
  /\ mainRoot \in Noeuds(b) \cup {-1} /\ mainSize \in Nat
  /\ bits \subseteq Noeuds(b)

\* The graph is the one that was added: the edges of a node are those it is
\* the source of, and Reverse leads to the same segment walked the other way
\* (graph.go:82-89, 129-142).
GrapheFidele == phase # "tri" => \A p \in Aretes :
  /\ p \in EdgeRange(b.from[g.attrs[p]])
  /\ g.reverse[p] \in Aretes
  /\ g.attrs[g.reverse[p]] = Jumelle(g.attrs[p])
  /\ g.reverse[g.reverse[p]] = p
  /\ g.targets[g.reverse[p]] = b.from[g.attrs[p]]

\* Every link goes to a node of strictly larger size: there is no cycle, and
\* the loop of find ends (graph.go:191-198).
LiensMontants == \A n \in Noeuds(b) : parent[n] # n => size[n] < size[parent[n]]

\* What an edge set leads to: the smallest set that holds n and is closed.
Ferme(S, E) == \A i \in E : Source(i) \in S => g.targets[i] \in S
Atteints(n, E) ==
  CHOOSE S \in SUBSET Noeuds(b) :
    /\ n \in S /\ Ferme(S, E)
    /\ \A T \in SUBSET S : n \in T /\ Ferme(T, E) => T = S

\* What NearestNode relies on: the main component is as large as any, and each
\* of its nodes leads to every other one, and nowhere else (graph.go:175-181).
ComposantePrincipale == phase = "fini" =>
  /\ Noeuds(b) # {} => bits # {}
  /\ \A n \in bits : Atteints(n, Aretes) = bits
  /\ \A n \in Noeuds(b) : Cardinality(Atteints(n, Aretes)) <= Cardinality(bits)

----------------------------------------------------------------------------
\* The inductive invariant of the proofs.
IInv ==
  /\ Contrat(b)
  /\ TypeOK /\ LiensMontants /\ GrapheFidele
  /\ \A n \in Noeuds(b) : size[n] > 0
  /\ ra # -1 => x # -1 /\ parent[ra] = ra
  /\ phase = "union" /\ x # -1 => rang < b.m
  /\ phase \in {"choix", "bits"} => ra = -1 /\ (x # -1 => rang < b.n)
  /\ phase \in {"tri", "fini"} => x = -1 /\ ra = -1
  /\ phase # "tri" => g.attrs \in [Aretes -> Aretes] /\ g.targets \in [Aretes -> Noeuds(b)]

\* The union-find, seen from the function r that tells where each find ends: a
\* root carries the size of its tree, the edges united so far join trees, and
\* no tree joins what these edges do not.
Classe(r, h) == {n \in Noeuds(b) : r[n] = h}
Unies == IF phase = "tri" THEN {} ELSE IF phase = "union" THEN 0 .. rang - 1 ELSE Aretes
Sature(S, E) == \A i \in E : Source(i) \in S <=> g.targets[i] \in S
Arbres(r) ==
  \A n \in Noeuds(b) : r[n] = r[parent[n]] /\ parent[r[n]] = r[n] /\ (parent[n] = n => r[n] = n)
Poids(r) == \A h \in Noeuds(b) : parent[h] = h => size[h] = Cardinality(Classe(r, h))
Jointes(r) ==
  /\ \A i \in Unies : r[Source(i)] = r[g.targets[i]]
  /\ \A S \in SUBSET Noeuds(b) : Sature(S, Unies) => \A n \in Noeuds(b) : n \in S <=> r[n] \in S
\* A find stays in the tree it began in.
EnChemin(r) ==
  /\ phase = "union" /\ x # -1 =>
       IF ra = -1 THEN r[x] = r[Source(rang)]
       ELSE ra = r[Source(rang)] /\ r[x] = r[g.targets[rang]]
  /\ phase \in {"choix", "bits"} /\ x # -1 => r[x] = r[rang]
\* The largest root so far, then the nodes that lead to it.
Retenue(r) ==
  /\ phase \in {"tri", "union"} => mainRoot = -1 /\ mainSize = 0
  /\ IF mainRoot = -1 THEN mainSize = 0
     ELSE r[mainRoot] = mainRoot /\ mainSize = size[mainRoot]
  /\ \A h \in Noeuds(b) :
       r[h] = h /\ (phase = "choix" => h < rang) /\ phase \notin {"tri", "union"} =>
         size[h] <= mainSize
  /\ bits = {n \in Noeuds(b) : /\ phase \in {"bits", "fini"}
                               /\ phase = "bits" => n < rang
                               /\ r[n] = mainRoot}
Foret(r) == Arbres(r) /\ Poids(r) /\ Jointes(r) /\ EnChemin(r) /\ Retenue(r)
IInvUnion ==
  /\ IInv
  /\ IF phase = "tri" THEN rang = 0 ELSE g = Build(newIndex, order)
  /\ \E r \in [Noeuds(b) -> Noeuds(b)] : Foret(r)
=============================================================================
