------------------------------- MODULE AStar -------------------------------
(***************************************************************************)
(* One call of Graph.FindPath, internal/adapter/network/csr/astar.go:   *)
(* the A* search over the CSR graph, its budget, its cancellation through  *)
(* the context, and the rebuilding of the path from the parent arrays.     *)
(*                                                                         *)
(* Lengths, costs and distances are integers; the code uses float64.       *)
(* The heap of container/heap is the set pq of its items: popping returns  *)
(* an item of minimal f, and which one on a tie is left open.              *)
(***************************************************************************)
EXTENDS Integers, Sequences, FiniteSets

CONSTANTS
  Nodes,            \* the NodeRefs of the graph: 0 .. len(coords)-1
  Refs,             \* the NodeRefs a caller may pass, in range or not
  Edges,            \* the EdgeRefs: 0 .. len(targets)-1, in CSR order
  Src, Tgt, Rev,    \* origin, targets[e] and Reverse(e) of each edge
  Poids,            \* the Weights a caller may pass
  Cout,             \* Cout[w][e]: attrs[e].Cost(w)
  Long,             \* Long[e]: attrs[e].LengthM
  H,                \* H[n][t]: HaversineM between two nodes
  Consommes,        \* the sets UsedEdges a caller may pass
  Plafonds,         \* the MaxNodes options a caller may pass
  Facteurs,         \* the ReuseFactor options a caller may pass
  DefaultMaxNodes,  \* defaultMaxNodes
  CtxCheckInterval  \* ctxCheckInterval

ASSUME GrapheAssumption ==
  /\ Edges \subseteq Nat
  /\ Nodes \subseteq Refs
  /\ Src \in [Edges -> Nodes]
  /\ Tgt \in [Edges -> Nodes]
  /\ Rev \in [Edges -> Edges]
  /\ IsFiniteSet(Nodes)
ASSUME PoidsAssumption ==
  /\ Cout \in [Poids -> [Edges -> Nat]]
  /\ Long \in [Edges -> Nat]
  /\ H \in [Nodes -> [Nodes -> Nat]]
ASSUME OptionsAssumption ==
  /\ Consommes \subseteq SUBSET Edges
  /\ Plafonds \subseteq Int
  /\ Facteurs \subseteq Int
  /\ DefaultMaxNodes \in Nat \ {0}
  /\ CtxCheckInterval \in Nat \ {0}
\* The invariant EdgeAttrs.Cost states: a metre never costs less than 1.
ASSUME CoutMinimalAssumption ==
  \A w \in Poids, e \in Edges : Cout[w][e] >= Long[e]

Infini == -1        \* math.MaxFloat64: the node was never reached

VARIABLES
  etape,            \* where FindPath is: see Etapes
  entree,           \* the arguments of the call
  annule,           \* ctx.Err() != nil
  gScore, parentNode, parentEdge, settled, explored, pq,
  n, chemin, lengthM, retracedM,      \* rebuild: its cursor and its Path
  issue,            \* what the call returned
  exploredTotal,    \* Graph.exploredTotal
  rang,             \* history: the value of explored when a node was settled
  exploreAnnule     \* history: the value of explored at the cancellation

recherche == <<gScore, parentNode, parentEdge, settled, explored, pq, rang>>
remontee == <<n, chemin, lengthM, retracedM>>
vars == <<etape, entree, annule, recherche, remontee, issue, exploredTotal,
          exploreAnnule>>

Etapes == {"appel", "test", "depile", "remonte", "retour"}
Issues == {"aucune", "ok", "ErrNoPath", "ErrBudgetExceeded", "ctx"}
Entrees == [from : Refs, to : Refs, w : Poids, used : Consommes,
            max : Plafonds, reuse : Facteurs]

\* The options after their defaults.
MaxNodes == IF entree.max <= 0 THEN DefaultMaxNodes ELSE entree.max
Reuse == IF entree.reuse < 1 THEN 1 ELSE entree.reuse

\* Both EdgeRefs of a segment count as used.
DejaPris(e) == e \in entree.used \/ Rev[e] \in entree.used
Depense(e) == Cout[entree.w][e] * (IF DejaPris(e) THEN Reuse ELSE 1)
Dist(m) == H[m][entree.to]

----------------------------------------------------------------------------
Init ==
  /\ etape = "appel"
  /\ entree \in Entrees
  /\ annule = FALSE
  /\ gScore = [m \in Nodes |-> Infini]
  /\ parentNode = [m \in Nodes |-> m]      \* zeroed arrays: never read unset
  /\ parentEdge = [m \in Nodes |-> Infini]
  /\ settled = {}
  /\ explored = 0
  /\ pq = {}
  /\ rang = [m \in Nodes |-> 0]
  /\ n = entree.to
  /\ chemin = <<>>
  /\ lengthM = 0
  /\ retracedM = 0
  /\ issue = "aucune"
  /\ exploredTotal = 0
  /\ exploreAnnule = Infini

\* The request context ends: timeout, client gone or sibling failure.
Annuler ==
  /\ etape # "retour"
  /\ ~annule
  /\ annule' = TRUE
  /\ exploreAnnule' = explored
  /\ UNCHANGED <<etape, entree, recherche, remontee, issue, exploredTotal>>

\* Mutant: the argument of the defer is evaluated on entry.
RetournerImmediat(i) ==
  /\ issue' = i
  /\ etape' = "retour"
  /\ exploredTotal' = exploredTotal
\* Any return runs the deferred exploredTotal.Add(explored).
Retourner(i) ==
  /\ issue' = i
  /\ etape' = "retour"
  /\ exploredTotal' = exploredTotal + explored'
Continuer(e) == etape' = e /\ UNCHANGED <<issue, exploredTotal>>

EnBornes == entree.from \in Nodes /\ entree.to \in Nodes

\* The early returns, in the order of the code.
AppelHorsBornes ==
  /\ etape = "appel"
  /\ ~EnBornes
  /\ UNCHANGED <<entree, annule, recherche, remontee, exploreAnnule>>
  /\ Retourner("ErrNoPath")
AppelAnnule ==
  /\ etape = "appel"
  /\ EnBornes
  /\ annule
  /\ UNCHANGED <<entree, annule, recherche, remontee, exploreAnnule>>
  /\ Retourner("ctx")
AppelTrivial ==
  /\ etape = "appel"
  /\ EnBornes
  /\ ~annule
  /\ entree.from = entree.to
  /\ UNCHANGED <<entree, annule, recherche, remontee, exploreAnnule>>
  /\ Retourner("ok")
AppelRecherche ==
  /\ etape = "appel"
  /\ EnBornes
  /\ ~annule
  /\ entree.from # entree.to
  /\ gScore' = [gScore EXCEPT ![entree.from] = 0]
  /\ pq' = {[node |-> entree.from, f |-> Dist(entree.from)]}
  /\ UNCHANGED <<entree, annule, parentNode, parentEdge, settled, explored,
                 rang, remontee, exploreAnnule>>
  /\ Continuer("test")

\* Head of the loop: the queue is empty, or the context is looked at every
\* CtxCheckInterval settled nodes.
Verifie == explored % CtxCheckInterval = 0 /\ annule
FileVide ==
  /\ etape = "test"
  /\ pq = {}
  /\ UNCHANGED <<entree, annule, recherche, remontee, exploreAnnule>>
  /\ Retourner("ErrNoPath")
ConstaterAnnulation ==
  /\ etape = "test"
  /\ pq # {}
  /\ Verifie
  /\ UNCHANGED <<entree, annule, recherche, remontee, exploreAnnule>>
  /\ Retourner("ctx")
Poursuivre ==
  /\ etape = "test"
  /\ pq # {}
  /\ ~Verifie
  /\ UNCHANGED <<entree, annule, recherche, remontee, exploreAnnule>>
  /\ Continuer("depile")

----------------------------------------------------------------------------
\* Relaxation of the outgoing edges of u, in the order of the EdgeRefs. An
\* edge is retained when it beats the score of its target as the edges before
\* it left it: a segment may have parallel edges.
Cand(u, e) == gScore[u] + Depense(e)
Essais(u) == {e \in Edges : Src[e] = u /\ Tgt[e] \notin settled \cup {u}}
Retenues(u) ==
  {e \in Essais(u) :
     /\ gScore[Tgt[e]] = Infini \/ Cand(u, e) < gScore[Tgt[e]]
     /\ \A a \in Essais(u) :
          Tgt[a] = Tgt[e] /\ a < e => Cand(u, e) < Cand(u, a)}
Touches(u) == {Tgt[e] : e \in Retenues(u)}
\* The edge that has the last word on node m: the cheapest one retained.
Derniere(u, m, e) ==
  /\ Tgt[e] = m
  /\ \A a \in Retenues(u) : Tgt[a] = m => Cand(u, e) <= Cand(u, a)
Choisie(u, m) == CHOOSE e \in Retenues(u) : Derniere(u, m, e)

Relacher(u, it) ==
  /\ gScore' = [m \in Nodes |-> IF m \in Touches(u)
                                THEN Cand(u, Choisie(u, m)) ELSE gScore[m]]
  /\ parentNode' = [m \in Nodes |-> IF m \in Touches(u)
                                    THEN u ELSE parentNode[m]]
  /\ parentEdge' = [m \in Nodes |-> IF m \in Touches(u)
                                    THEN Choisie(u, m) ELSE parentEdge[m]]
  /\ pq' = (pq \ {it}) \cup
             {[node |-> Tgt[e], f |-> Cand(u, e) + Dist(Tgt[e])] :
                e \in Retenues(u)}

\* Mutant: Less compares the wrong way round.
DernierItem(it) == it \in pq /\ \A autre \in pq : it.f >= autre.f
\* heap.Pop.
Premier(it) == it \in pq /\ \A autre \in pq : it.f <= autre.f
Fixer(u) ==
  /\ settled' = settled \cup {u}
  /\ explored' = explored + 1
  /\ rang' = [rang EXCEPT ![u] = explored + 1]

\* Mutant: the superseded item is looked at and left in the queue.
DepilerPerimeReste(it) ==
  /\ etape = "depile"
  /\ Premier(it)
  /\ it.node \in settled
  /\ UNCHANGED <<entree, annule, recherche, remontee, exploreAnnule>>
  /\ Continuer("test")
\* An item superseded by a cheaper one of the same node.
DepilerPerime(it) ==
  /\ etape = "depile"
  /\ Premier(it)
  /\ it.node \in settled
  /\ pq' = pq \ {it}
  /\ UNCHANGED <<entree, annule, gScore, parentNode, parentEdge, settled,
                 explored, rang, remontee, exploreAnnule>>
  /\ Continuer("test")
DepilerBut(it) ==
  /\ etape = "depile"
  /\ Premier(it)
  /\ it.node \notin settled
  /\ it.node = entree.to
  /\ Fixer(it.node)
  /\ pq' = pq \ {it}
  /\ n' = it.node
  /\ UNCHANGED <<entree, annule, gScore, parentNode, parentEdge, chemin,
                 lengthM, retracedM, exploreAnnule>>
  /\ Continuer("remonte")
\* Mutant: the error is the one of an empty queue.
DepilerPlafondMuet(it) ==
  /\ etape = "depile"
  /\ Premier(it)
  /\ it.node \notin settled
  /\ it.node # entree.to
  /\ explored + 1 > MaxNodes
  /\ Fixer(it.node)
  /\ pq' = pq \ {it}
  /\ UNCHANGED <<entree, annule, gScore, parentNode, parentEdge, remontee,
                 exploreAnnule>>
  /\ Retourner("ErrNoPath")
DepilerPlafond(it) ==
  /\ etape = "depile"
  /\ Premier(it)
  /\ it.node \notin settled
  /\ it.node # entree.to
  /\ explored + 1 > MaxNodes
  /\ Fixer(it.node)
  /\ pq' = pq \ {it}
  /\ UNCHANGED <<entree, annule, gScore, parentNode, parentEdge, remontee,
                 exploreAnnule>>
  /\ Retourner("ErrBudgetExceeded")
DepilerEtRelacher(it) ==
  /\ etape = "depile"
  /\ Premier(it)
  /\ it.node \notin settled
  /\ it.node # entree.to
  /\ explored + 1 <= MaxNodes
  /\ Fixer(it.node)
  /\ Relacher(it.node, it)
  /\ UNCHANGED <<entree, annule, remontee, exploreAnnule>>
  /\ Continuer("test")

\* Mutant: the edges are not reversed.
RemonterEnvers ==
  /\ etape = "remonte"
  /\ n # entree.from
  /\ LET e == parentEdge[n] IN
       /\ chemin' = Append(chemin, e)
       /\ lengthM' = lengthM + Long[e]
       /\ retracedM' = retracedM + (IF DejaPris(e) THEN Long[e] ELSE 0)
  /\ n' = parentNode[n]
  /\ UNCHANGED <<entree, annule, recherche, exploreAnnule>>
  /\ Continuer("remonte")
\* rebuild: one edge per step, from the target up to the start.
Remonter ==
  /\ etape = "remonte"
  /\ n # entree.from
  /\ LET e == parentEdge[n] IN
       /\ chemin' = <<e>> \o chemin
       /\ lengthM' = lengthM + Long[e]
       /\ retracedM' = retracedM + (IF DejaPris(e) THEN Long[e] ELSE 0)
  /\ n' = parentNode[n]
  /\ UNCHANGED <<entree, annule, recherche, exploreAnnule>>
  /\ Continuer("remonte")
FinRemontee ==
  /\ etape = "remonte"
  /\ n = entree.from
  /\ UNCHANGED <<entree, annule, recherche, remontee, exploreAnnule>>
  /\ Retourner("ok")

FindPath ==
  \/ AppelHorsBornes \/ AppelAnnule \/ AppelTrivial \/ AppelRecherche
  \/ FileVide \/ ConstaterAnnulation \/ Poursuivre
  \/ \E it \in pq : \/ DepilerPerime(it) \/ DepilerBut(it)
                    \/ DepilerPlafond(it) \/ DepilerEtRelacher(it)
  \/ Remonter \/ FinRemontee
\* The call has returned: nothing more happens.
Fini == etape = "retour" /\ UNCHANGED vars
Next == FindPath \/ Annuler \/ Fini

Spec == Init /\ [][Next]_vars
\* The goroutine that runs FindPath is scheduled.
FairSpec == Spec /\ WF_vars(FindPath)

----------------------------------------------------------------------------
TypeOK ==
  /\ etape \in Etapes
  /\ entree \in Entrees
  /\ annule \in BOOLEAN
  /\ gScore \in [Nodes -> Nat \cup {Infini}]
  /\ parentNode \in [Nodes -> Nodes]
  /\ parentEdge \in [Nodes -> Edges \cup {Infini}]
  /\ settled \subseteq Nodes
  /\ explored \in Nat
  /\ pq \subseteq [node : Nodes, f : Nat]
  /\ rang \in [Nodes -> Nat]
  /\ n \in Refs
  /\ etape = "remonte" => n \in Nodes
  /\ chemin \in Seq(Edges)
  /\ lengthM \in Nat
  /\ retracedM \in Nat
  /\ issue \in Issues
  /\ exploredTotal \in Nat
  /\ exploreAnnule \in Nat \cup {Infini}

Atteint(m) == gScore[m] # Infini
Consistante ==
  \A w \in Poids, t \in Nodes :
    /\ H[t][t] = 0
    /\ \A e \in Edges : H[Src[e]][t] <= Cout[w][e] + H[Tgt[e]][t]

\* The parent arrays form a tree rooted at the start: the parent of a reached
\* node was settled, and settled before it, by the very edge recorded, at the
\* cost recorded. It holds for any lengths (zero included) and any heuristic,
\* and is what lets rebuild (astar.go:187) trust arrays it never checks.
ArbreParents ==
  \A m \in Nodes \ {entree.from} : Atteint(m) =>
    LET e == parentEdge[m]
        p == parentNode[m] IN
      /\ e \in Edges
      /\ Tgt[e] = m
      /\ Src[e] = p
      /\ p \in settled
      /\ m \in settled => rang[p] < rang[m]
      /\ gScore[m] = gScore[p] + Depense(e)

\* Each step of rebuild's loop (astar.go:187-190) moves to a node settled
\* strictly earlier, so the loop cannot turn in circles.
RemonteeProgresse ==
  [][chemin' # chemin => rang[n'] < rang[n]]_vars

\* What rebuild has collected is a chain of edges from its cursor to the
\* target, and from the start to the target once the call returns a path.
CheminConnexe ==
  /\ \A i \in 1 .. Len(chemin) - 1 : Tgt[chemin[i]] = Src[chemin[i + 1]]
  /\ chemin # <<>> => /\ Src[chemin[1]] = n
                      /\ Tgt[chemin[Len(chemin)]] = entree.to
  /\ etape = "remonte" /\ chemin = <<>> => n = entree.to
  /\ issue = "ok" => n = entree.from

\* A path that is returned is a cheapest one: its cost is the value at the
\* target of a potential that no edge overshoots, which bounds every other
\* path from below. It needs the two hypotheses FindPath's comment names
\* (astar.go:57-67), gathered in Consistante.
Potentiel(m) ==
  IF m \in settled THEN gScore[m] ELSE gScore[entree.to] - Dist(m)
CertificatOptimal ==
  issue = "ok" /\ entree.from # entree.to /\ Consistante =>
    /\ Potentiel(entree.from) = 0
    /\ Potentiel(entree.to) = gScore[entree.to]
    /\ Atteint(entree.to)
    /\ \A e \in Edges : Potentiel(Tgt[e]) <= Potentiel(Src[e]) + Depense(e)

\* ErrNoPath is never an abandoned search: the settled nodes hold the start,
\* not the target, and no edge leaves them (or an argument is no node).
CoupeSansIssue ==
  issue = "ErrNoPath" /\ EnBornes =>
    /\ entree.from \in settled
    /\ entree.to \notin settled
    /\ \A e \in Edges : Src[e] \in settled => Tgt[e] \in settled

\* Search and rebuild agree on what is used twice: the cost of the path pays
\* at least its length and the surcharge of every metre counted in RetracedM,
\* and exactly that when a metre costs 1 (astar.go:148-159 and 212-219).
Neutre == \A e \in Edges : Cout[entree.w][e] = Long[e]
CoutEtRetour ==
  issue = "ok" /\ entree.from # entree.to =>
    LET du == lengthM + (Reuse - 1) * retracedM IN
      /\ gScore[entree.to] >= du
      /\ Neutre => gScore[entree.to] = du

\* The reference: <<node, cost>> for every walk from the start of at most k
\* edges.
Prolongees(S) ==
  S \cup UNION {{<<Tgt[e], p[2] + Depense(e)>> : p \in {q \in S : q[1] = Src[e]}} :
                e \in Edges}
Marches[k \in Nat] ==
  IF k = 0 THEN {<<entree.from, 0>>} ELSE Prolongees(Marches[k - 1])

\* FindPath against the reference: under a consistent heuristic it returns a
\* path of least cost, of fewer edges than there are nodes, and it says
\* ErrNoPath only when there is none (TestFindPathEstOptimal on one graph).
PlusCourtChemin ==
  etape = "retour" /\ EnBornes /\ entree.from # entree.to =>
    LET couts == {p[2] : p \in {q \in Marches[Cardinality(Nodes) - 1] :
                                  q[1] = entree.to}}
    IN /\ issue = "ok" => /\ gScore[entree.to] \in couts
                          /\ \A c \in couts : gScore[entree.to] <= c
       /\ issue = "ErrNoPath" => couts = {}

\* What a caller is given: a walk of the network without a gap, whose cost and
\* retraced length agree, and that no walk beats.
CheminRendu == CheminConnexe /\ CoutEtRetour /\ PlusCourtChemin

\* The budget: at most MaxNodes + 1 nodes are settled (the test of astar.go:139
\* comes after the increment), the search gives up on no other occasion, and
\* the node beyond the budget is never expanded.
Plafond ==
  /\ explored <= MaxNodes + 1
  /\ issue = "ErrBudgetExceeded" => explored = MaxNodes + 1
  /\ explored = MaxNodes + 1 => \/ issue = "ErrBudgetExceeded"
                                 \/ entree.to \in settled

\* A cancelled search settles at most CtxCheckInterval more nodes before it
\* returns (astar.go:120-124), whatever the stale items it pops meanwhile.
ReactiviteAnnulation ==
  annule => explored - exploreAnnule <= CtxCheckInterval

\* The deferred add (astar.go:84) counts each settled node once, whichever way
\* the call returns.
CompteExact ==
  etape = "retour" => exploredTotal = Cardinality(settled)

\* What a call may cost, cut short or not, and what /metrics tells of it.
CompteJuste == Plafond /\ ReactiviteAnnulation /\ CompteExact

\* The call returns: the queue empties, since a node is expanded once.
Termine == <>(etape = "retour")

----------------------------------------------------------------------------
\* The inductive invariant of the proofs, one part per idea.
EnBoucle == etape \in {"test", "depile"}

InvBornes ==
  /\ EnBoucle \/ etape = "remonte" \/ issue = "ErrBudgetExceeded" =>
       EnBornes /\ entree.from # entree.to /\ gScore[entree.from] = 0
  /\ pq # {} => EnBornes
InvAppel ==
  /\ issue # "aucune" <=> etape = "retour"
  /\ etape = "appel" => /\ pq = {} /\ settled = {} /\ explored = 0
                        /\ \A m \in Nodes : ~Atteint(m)
InvArbre ==
  /\ ArbreParents
  /\ \A m \in settled : Atteint(m) /\ rang[m] <= explored
  /\ etape = "remonte" => n \in settled
\* The queue holds every open node at its present score, and no bargain.
InvFile ==
  /\ \A it \in pq : /\ Atteint(it.node)
                    /\ gScore[it.node] + Dist(it.node) <= it.f
  /\ EnBoucle => \A m \in Nodes \ settled : Atteint(m) =>
                   [node |-> m, f |-> gScore[m] + Dist(m)] \in pq
\* The settled nodes have been expanded, and none of them comes after the queue.
InvFront ==
  EnBoucle =>
    /\ entree.to \notin settled
    /\ entree.from \in settled \/ \A it \in pq : it.node = entree.from
    /\ \A e \in Edges : Src[e] \in settled =>
         /\ Atteint(Tgt[e])
         /\ Consistante => gScore[Tgt[e]] <= gScore[Src[e]] + Depense(e)
    /\ Consistante => \A u \in settled, it \in pq : gScore[u] + Dist(u) <= it.f
InvBut ==
  etape = "remonte" \/ (issue = "ok" /\ entree.from # entree.to) =>
    /\ gScore[entree.from] = 0
    /\ entree.from \in settled
    /\ entree.to \in settled
    /\ Consistante => \A e \in Edges :
                        Potentiel(Tgt[e]) <= Potentiel(Src[e]) + Depense(e)
IInv ==
  /\ TypeOK /\ InvBornes /\ InvAppel /\ InvArbre /\ InvFile
  /\ InvFront /\ InvBut /\ CoupeSansIssue

\* What CheminRendu rests on besides: between its cursor and the target,
\* rebuild has collected what separates their scores; and the k-th node to be
\* settled is reached by fewer than k edges.
InvRemontee ==
  /\ etape \in {"appel", "test", "depile"} \/ (issue = "ok" /\ entree.from = entree.to) =>
       n = entree.to /\ chemin = <<>> /\ lengthM = 0 /\ retracedM = 0
  /\ CheminConnexe
  /\ etape = "remonte" \/ (issue = "ok" /\ entree.from # entree.to) =>
       LET du == gScore[n] + lengthM + (Reuse - 1) * retracedM IN
         /\ Atteint(entree.to) /\ gScore[entree.to] >= du
         /\ Neutre => gScore[entree.to] = du
InvRang == \A m \in settled : rang[m] >= 1

\* What CompteJuste rests on: a settled node is counted once, and between the
\* cancellation and the next examination of the context there is no multiple of
\* CtxCheckInterval.
DernierMultiple(x) == x - (x % CtxCheckInterval)
InvCompte ==
  /\ IsFiniteSet(settled) /\ explored = Cardinality(settled)
  /\ exploredTotal = IF etape = "retour" THEN explored ELSE 0
  /\ Plafond
  /\ annule => exploreAnnule \in 0 .. explored /\ ReactiviteAnnulation
  /\ annule /\ etape = "depile" /\ explored # exploreAnnule =>
       DernierMultiple(explored) <= exploreAnnule
  /\ annule /\ etape = "test" /\ explored # exploreAnnule =>
       DernierMultiple(explored - 1) <= exploreAnnule
=============================================================================
