----------------------------- MODULE Generateur -----------------------------
(***************************************************************************)
(* One call of Generator.Generate, internal/app/generateloop/generate.go:  *)
(* twenty directions explored by the goroutines of an errgroup, under a    *)
(* context that may end at any moment, then dedupe.go and the ranking.     *)
(*                                                                         *)
(* What a direction comes to without cancellation is a function of the     *)
(* request (the random angles are seeded by it): the variable terrain. A   *)
(* candidate is its succession of FindPath calls (module AStar).           *)
(***************************************************************************)
EXTENDS Integers, Sequences, FiniteSets, Functions

CONSTANTS
  NumCandidates,    \* numCandidates
  Limite,           \* runtime.NumCPU()
  Terrains,         \* what the directions may come to: see Direction
  MaxResults,       \* req.MaxResults after withDefaults
  Seuil             \* jaccardThreshold, in tenths

Candidates == 1 .. NumCandidates
Aucune == [aretes |-> {}, nonBitume |-> 0]
Direction(d) ==
  /\ d.appels \in Nat \ {0}       \* FindPath calls before the verdict
  /\ d.trouve \in BOOLEAN         \* a loop within the tolerance?
  /\ d.boucle.nonBitume \in Nat

ASSUME TaillesAssumption ==
  /\ NumCandidates \in Nat \ {0}
  /\ Limite \in Nat \ {0}
  /\ MaxResults \in Nat \ {0}
  /\ Seuil \in Nat
ASSUME TerrainsAssumption ==
  \A t \in Terrains : DOMAIN t = Candidates /\ \A i \in Candidates : Direction(t[i])

VARIABLES
  etape,            \* Generate: "debut", "lance", "attend" or "retour"
  enZone,           \* NearestNode finds a start
  terrain,
  ctx, gctx,        \* Err() of the request's context and of the group's
  prochain,         \* the next candidate to hand to group.Go
  etat,             \* etat[i]: where goroutine i is
  reste,            \* FindPath calls before its verdict
  errGroupe,        \* the first error of the group
  found,            \* the results slots written
  dropped,          \* Generator.dropped
  sortie, issue     \* what Generate returns

contexte == <<enZone, terrain>>
vars == <<etape, contexte, ctx, gctx, prochain, etat, reste, errGroupe, found,
          dropped, sortie, issue>>

Fins == {"Canceled", "DeadlineExceeded"}
\* "entre" is about to call FindPath, "cherche" is in it; "trouve", "vide" and
\* "coupe": candidate has returned a loop, an error, an error of the context.
Etats == {"absent", "entre", "cherche", "trouve", "vide", "coupe", "fini"}
Actifs == {i \in Candidates : etat[i] \notin {"absent", "fini"}}

----------------------------------------------------------------------------
\* dedupe.go: jaccard(a, b) >= jaccardThreshold.
Doublon(a, b) ==
  /\ a.aretes # {} /\ b.aretes # {}
  /\ 10 * Cardinality(a.aretes \cap b.aretes)
       >= Seuil * Cardinality(a.aretes \cup b.aretes)
\* The k-th element of a set of integers.
Nieme(set, k) == CHOOSE i \in set : Cardinality({j \in set : j < i}) = k - 1
\* A loop is kept when it doubles none of those kept before it.
Gardees(boucles) ==
  CHOOSE K \in SUBSET DOMAIN boucles : \A k \in DOMAIN boucles :
    k \in K <=> \A i \in K : i < k => ~Doublon(boucles[k], boucles[i])
Dedupe(boucles) ==
  LET K == Gardees(boucles) IN [k \in 1 .. Cardinality(K) |-> boucles[Nieme(K, k)]]

\* Mutant: the most paved loop comes first.
PreferableInverse(a, b) == a.nonBitume < b.nonBitume
\* Score.Preferable between loops that candidate has found within the
\* tolerance. sort.Slice is not stable, but it is a function.
Preferable(a, b) == a.nonBitume > b.nonBitume
Permute(s, p) == [i \in DOMAIN s |-> s[p[i]]]
Trier(s) ==
  LET perms == {p \in [DOMAIN s -> DOMAIN s] : Range(p) = DOMAIN s} IN
  CHOOSE r \in {Permute(s, p) : p \in perms} :
    \A i, j \in DOMAIN r : i < j => ~Preferable(r[j], r[i])

Tronquer(s) == SubSeq(s, 1, IF Len(s) > MaxResults THEN MaxResults ELSE Len(s))
\* The loops of a set of candidates, in the order of the candidates.
Collecter(set) ==
  [k \in 1 .. Cardinality(set) |-> terrain[Nieme(set, k)].boucle]
Propositions(set) == Tronquer(Trier(Dedupe(Collecter(set))))

----------------------------------------------------------------------------
Init ==
  /\ etape = "debut"
  /\ enZone \in BOOLEAN
  /\ terrain \in Terrains
  /\ ctx = "nil" /\ gctx = "nil"
  /\ prochain = 1
  /\ etat = [i \in Candidates |-> "absent"]
  /\ reste = [i \in Candidates |-> terrain[i].appels]
  /\ errGroupe = "nil"
  /\ found = {}
  /\ dropped = 0
  /\ sortie = <<>>
  /\ issue = "aucune"

\* The five seconds are up, or the client is gone (external).
FinirContexte(fin) ==
  /\ ctx = "nil"
  /\ etape # "retour"
  /\ ctx' = fin
  /\ UNCHANGED <<etape, contexte, gctx, prochain, etat, reste, errGroupe,
                 found, dropped, sortie, issue>>
\* The cancellation reaches the child context (external: package context).
Propager ==
  /\ ctx # "nil"
  /\ gctx = "nil"
  /\ etape \in {"lance", "attend"}
  /\ gctx' = ctx
  /\ UNCHANGED <<etape, contexte, ctx, prochain, etat, reste, errGroupe,
                 found, dropped, sortie, issue>>

Rendre(i, s) == etape' = "retour" /\ issue' = i /\ sortie' = s

RefuserCtx ==
  /\ etape = "debut"
  /\ ctx # "nil"
  /\ Rendre(ctx, <<>>)
  /\ UNCHANGED <<contexte, ctx, gctx, prochain, etat, reste, errGroupe, found,
                 dropped>>
HorsZone ==
  /\ etape = "debut"
  /\ ~enZone
  /\ ctx = "nil"
  /\ Rendre("ErrStartOutOfRange", <<>>)
  /\ UNCHANGED <<contexte, ctx, gctx, prochain, etat, reste, errGroupe, found,
                 dropped>>
\* errgroup.WithContext.
Commencer ==
  /\ etape = "debut"
  /\ ctx = "nil"
  /\ enZone
  /\ etape' = "lance"
  /\ UNCHANGED <<contexte, ctx, gctx, prochain, etat, reste, errGroupe, found,
                 dropped, sortie, issue>>

\* group.Go, which blocks while Limite goroutines run.
Lancer ==
  /\ etape = "lance"
  /\ Cardinality(Actifs) < Limite
  /\ etat' = [etat EXCEPT ![prochain] = "entre"]
  /\ prochain' = prochain + 1
  /\ etape' = IF prochain = NumCandidates THEN "attend" ELSE "lance"
  /\ UNCHANGED <<contexte, ctx, gctx, reste, errGroupe, found, dropped,
                 sortie, issue>>

\* FindPath looks at the context as it starts (astar.go:89)...
Entrer(i) ==
  /\ etat[i] = "entre"
  /\ etat' = [etat EXCEPT ![i] = IF gctx # "nil" THEN "coupe" ELSE "cherche"]
  /\ UNCHANGED <<etape, contexte, ctx, gctx, prochain, reste, errGroupe,
                 found, dropped, sortie, issue>>
\* ...then every ctxCheckInterval nodes: a search may end before it notices.
Aboutir(i) ==
  /\ etat[i] = "cherche"
  /\ reste' = [reste EXCEPT ![i] = @ - 1]
  /\ etat' = [etat EXCEPT ![i] = IF reste[i] > 1 THEN "entre"
                                 ELSE IF terrain[i].trouve THEN "trouve"
                                 ELSE "vide"]
  /\ UNCHANGED <<etape, contexte, ctx, gctx, prochain, errGroupe, found,
                 dropped, sortie, issue>>
Couper(i) ==
  /\ etat[i] = "cherche"
  /\ gctx # "nil"
  /\ etat' = [etat EXCEPT ![i] = "coupe"]
  /\ UNCHANGED <<etape, contexte, ctx, gctx, prochain, reste, errGroupe,
                 found, dropped, sortie, issue>>

\* The end of the goroutine's function: its slot, its error or the counter.
Ecrire(i) ==
  /\ etat[i] = "trouve"
  /\ found' = found \cup {i}
  /\ UNCHANGED <<errGroupe, dropped>>
\* Mutant: the error is always the one a sibling's failure would give.
EchouerCanceled(i) ==
  /\ etat[i] \in {"vide", "coupe"}
  /\ gctx # "nil"
  /\ errGroupe' = "Canceled"
  /\ UNCHANGED <<found, dropped>>
Echouer(i) ==
  /\ etat[i] \in {"vide", "coupe"}
  /\ gctx # "nil"
  /\ errGroupe' = IF errGroupe = "nil" THEN gctx ELSE errGroupe
  /\ UNCHANGED <<found, dropped>>
\* Mutant: a search that was cut short counts as a direction without a loop.
AbandonnerToujours(i) ==
  /\ etat[i] \in {"vide", "coupe"}
  /\ dropped' = dropped + 1
  /\ UNCHANGED <<found, errGroupe>>
Abandonner(i) ==
  /\ etat[i] \in {"vide", "coupe"}
  /\ gctx = "nil"
  /\ dropped' = dropped + 1
  /\ UNCHANGED <<found, errGroupe>>
\* Mutant: a goroutine with a loop to give never ends.
ConclureBloque(i) ==
  /\ Ecrire(i) \/ Echouer(i) \/ Abandonner(i)
  /\ etat' = [etat EXCEPT ![i] = IF @ = "trouve" THEN @ ELSE "fini"]
  /\ UNCHANGED <<etape, contexte, ctx, gctx, prochain, reste, sortie, issue>>
Conclure(i) ==
  /\ Ecrire(i) \/ Echouer(i) \/ Abandonner(i)
  /\ etat' = [etat EXCEPT ![i] = "fini"]
  /\ UNCHANGED <<etape, contexte, ctx, gctx, prochain, reste, sortie, issue>>

\* Mutant: the error of group.Wait is dropped.
AttendreSansErreur ==
  /\ etape = "attend"
  /\ Actifs = {}
  /\ \/ found = {} /\ Rendre("ErrNoLoopFound", <<>>)
     \/ found # {} /\ Rendre("ok", Propositions(found))
  /\ UNCHANGED <<contexte, ctx, gctx, prochain, etat, reste, errGroupe, found,
                 dropped>>
\* group.Wait returns: every goroutine is done.
Attendre ==
  /\ etape = "attend"
  /\ Actifs = {}
  /\ \/ errGroupe # "nil" /\ Rendre(errGroupe, <<>>)
     \/ errGroupe = "nil" /\ found = {} /\ Rendre("ErrNoLoopFound", <<>>)
     \/ errGroupe = "nil" /\ found # {} /\ Rendre("ok", Propositions(found))
  /\ UNCHANGED <<contexte, ctx, gctx, prochain, etat, reste, errGroupe, found,
                 dropped>>

Candidate(i) == Entrer(i) \/ Aboutir(i) \/ Couper(i) \/ Conclure(i)
Generate == RefuserCtx \/ HorsZone \/ Commencer \/ Lancer \/ Attendre
Fini == etape = "retour" /\ UNCHANGED vars
Next ==
  \/ \E fin \in Fins : FinirContexte(fin)
  \/ Propager
  \/ Generate
  \/ \E i \in Candidates : Candidate(i)
  \/ Fini

Spec == Init /\ [][Next]_vars
\* The goroutines are scheduled, the handler's among them; the context need
\* not end.
FairSpec == /\ Spec
            /\ WF_vars(Generate)
            /\ \A i \in Candidates : WF_vars(Candidate(i))

----------------------------------------------------------------------------
TypeOK ==
  /\ etape \in {"debut", "lance", "attend", "retour"}
  /\ enZone \in BOOLEAN
  /\ terrain \in Terrains
  /\ ctx \in Fins \cup {"nil"} /\ gctx \in Fins \cup {"nil"}
  /\ prochain \in 1 .. NumCandidates + 1
  /\ etat \in [Candidates -> Etats]
  /\ reste \in [Candidates -> Nat]
  /\ errGroupe \in Fins \cup {"nil"}
  /\ found \subseteq Candidates
  /\ dropped \in Nat
  /\ issue \in Fins \cup {"aucune", "ok", "ErrNoLoopFound", "ErrStartOutOfRange"}

SansIssue == {i \in Candidates : ~terrain[i].trouve}
Issues == Candidates \ SansIssue

\* The same request gives the same loops, which makes the answers cachable and
\* the links replayable (generate.go:69-70): whatever the interleaving and
\* wherever the context ends, what is returned comes from every direction that
\* has a loop, or is no loop at all.
ReponseComplete ==
  /\ issue = "ok" => sortie = Propositions(Issues)
  /\ issue = "ErrNoLoopFound" => Issues = {}
  /\ issue # "ok" => sortie = <<>>

\* dropped counts directions without a loop, never a search the context cut
\* short (generate.go:86-91), and all of them when the answer is complete.
Explorees == {i \in SansIssue : etat[i] = "fini"}
PertesJustes ==
  /\ dropped <= Cardinality(Explorees)
  /\ issue \in {"ok", "ErrNoLoopFound"} => dropped = Cardinality(SansIssue)

\* The error of a cut search is the one of the request's context, never the
\* Canceled of a sibling: postLoops tells a 504 from a 500 by it
\* (generate.go:87-88, handler.go:237-241).
ErreurDuContexte == issue \in Fins => ctx = issue

\* When Generate returns, no goroutine of its own is left to write in results
\* or to move a counter (generate.go:97).
AucunOrphelin == etape = "retour" => Actifs = {}

\* The loops returned are pairwise different proposals, each loop left out
\* doubles one that was kept before the cut, and the order is by terrain
\* (dedupe.go:5-7, generate.go:111-119).
PropositionsDistinctes ==
  issue = "ok" =>
    LET gardees == Dedupe(Collecter(found)) IN
    /\ sortie # <<>>
    /\ \A i, j \in DOMAIN sortie :
         i < j => /\ ~Doublon(sortie[i], sortie[j])
                  /\ sortie[i].nonBitume >= sortie[j].nonBitume
    /\ \A i \in found : \/ \E g \in Range(gardees) : Doublon(terrain[i].boucle, g)
                        \/ terrain[i].boucle \in Range(gardees)
    /\ \A g \in Range(gardees) \ Range(sortie) :
         \A i \in DOMAIN sortie : sortie[i].nonBitume >= g.nonBitume

\* Generate returns, blocked on the limit or not.
Termine == <>(etape = "retour")

----------------------------------------------------------------------------
\* The inductive invariant of the proofs.
InvContexte ==
  /\ gctx # "nil" => gctx = ctx
  /\ errGroupe # "nil" => errGroupe = gctx
  /\ \A i \in Candidates : etat[i] = "coupe" => gctx # "nil"
InvEtapes ==
  /\ issue = "aucune" <=> etape # "retour"
  /\ etape = "debut" =>
       /\ gctx = "nil" /\ errGroupe = "nil" /\ found = {} /\ dropped = 0
       /\ prochain = 1
  /\ etape # "retour" =>
       \A i \in Candidates : etat[i] = "absent" <=> i >= prochain
  /\ etape = "lance" => prochain <= NumCandidates
  /\ etape = "attend" => prochain = NumCandidates + 1
InvDirections ==
  \A i \in Candidates :
    /\ etat[i] \in {"absent", "entre", "cherche"} => reste[i] > 0
    /\ etat[i] = "trouve" => terrain[i].trouve
    /\ etat[i] = "vide" => ~terrain[i].trouve
    /\ i \in found => terrain[i].trouve /\ etat[i] = "fini"
    /\ errGroupe = "nil" /\ etat[i] = "fini" /\ terrain[i].trouve => i \in found
InvPertes ==
  /\ dropped <= Cardinality(Explorees)
  /\ errGroupe = "nil" => dropped = Cardinality(Explorees)
InvRetour ==
  /\ issue \in {"ok", "ErrNoLoopFound"} =>
       errGroupe = "nil" /\ \A i \in Candidates : etat[i] = "fini"
  /\ issue = "ok" => found # {}
IInv ==
  /\ TypeOK /\ InvContexte /\ InvEtapes /\ InvDirections /\ InvPertes
  /\ InvRetour /\ ReponseComplete /\ ErreurDuContexte /\ AucunOrphelin
=============================================================================
