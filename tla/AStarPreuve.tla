---------------------------- MODULE AStarPreuve ----------------------------
(***************************************************************************)
(* Theorems about AStar, for every graph, weighting and option.            *)
(***************************************************************************)
EXTENDS AStar, TLAPS, WellFoundedInduction, FiniteSetTheorems

LEMMA MinNat ==
  ASSUME NEW T \in SUBSET Nat, T # {}
  PROVE  \E x \in T : \A y \in T : x <= y
<1>1. PICK x \in T : \A y \in T : ~ (<<y, x>> \in OpToRel(<, Nat))
  BY NatLessThanWellFounded, WFMin
<1>2. ASSUME NEW y \in T
      PROVE  x <= y
  <2>1. ~ (y < x)
    BY <1>1 DEF OpToRel
  <2> QED BY <2>1
<1> QED BY <1>2

LEMMA DepenseBornee ==
  ASSUME TypeOK, NEW e \in Edges
  PROVE  /\ Depense(e) \in Nat
         /\ Depense(e) >= Cout[entree.w][e]
         /\ Cout[entree.w][e] \in Nat
<1>0. entree.w \in Poids /\ entree.reuse \in Int
  BY OptionsAssumption DEF TypeOK, Entrees
<1>1. Cout[entree.w][e] \in Nat
  BY <1>0, PoidsAssumption
<1>2. Reuse \in Nat /\ Reuse >= 1
  BY <1>0 DEF Reuse
<1>3. \A c, r \in Nat : r >= 1 => c * r \in Nat /\ c * r >= c
  OBVIOUS
<1>4. CASE DejaPris(e)
  BY <1>1, <1>2, <1>3, <1>4 DEF Depense
<1>5. CASE ~DejaPris(e)
  BY <1>1, <1>5 DEF Depense
<1> QED BY <1>1, <1>4, <1>5

LEMMA CandType ==
  ASSUME TypeOK, NEW u \in Nodes, Atteint(u), NEW e \in Edges
  PROVE  Cand(u, e) \in Nat /\ Cand(u, e) >= gScore[u]
<1>1. gScore[u] \in Nat
  BY DEF TypeOK, Atteint
<1> QED BY <1>1, DepenseBornee DEF Cand

\* Among the edges of u to m that are tried, one is cheapest and, of those,
\* first; it is retained unless m already has a score as good.
LEMMA Meilleure ==
  ASSUME TypeOK, NEW u \in Nodes, Atteint(u), NEW e \in Essais(u)
  PROVE  \E a \in Essais(u) :
           /\ Tgt[a] = Tgt[e]
           /\ Cand(u, a) <= Cand(u, e)
           /\ a \in Retenues(u) \/ (Atteint(Tgt[a]) /\ gScore[Tgt[a]] <= Cand(u, a))
<1> DEFINE E == {a \in Essais(u) : Tgt[a] = Tgt[e]}
           C == {Cand(u, a) : a \in E}
<1>1. /\ E \subseteq Edges
      /\ e \in E
      /\ \A a \in E : Cand(u, a) \in Nat
  BY CandType DEF Essais
<1>2. PICK c \in C : \A d \in C : c <= d
  <2> C \in SUBSET Nat /\ C # {}
    BY <1>1
  <2> HIDE DEF C
  <2> QED BY MinNat
<1> DEFINE M == {a \in E : Cand(u, a) = c}
<1>3. M \in SUBSET Nat /\ M # {}
  BY <1>1, <1>2, GrapheAssumption
<1>4. PICK a \in M : \A b \in M : a <= b
  <2> HIDE DEF M
  <2> QED BY <1>3, MinNat
<1>5. \A b \in E : Cand(u, a) <= Cand(u, b)
  BY <1>2, <1>4
<1>6. \A b \in E : b < a => Cand(u, a) < Cand(u, b)
  <2> SUFFICES ASSUME NEW b \in E, b < a
               PROVE  Cand(u, a) # Cand(u, b)
    BY <1>1, <1>4, <1>5
  <2>1. b \in Nat /\ a \in Nat
    BY <1>1, <1>4, GrapheAssumption
  <2>2. b \notin M
    BY <2>1, <1>4
  <2> QED BY <2>2, <1>4
<1>7. a \in Essais(u) /\ Tgt[a] = Tgt[e] /\ Cand(u, a) <= Cand(u, e)
  BY <1>1, <1>4, <1>5
<1>8. gScore[Tgt[a]] \in Nat \cup {Infini} /\ Cand(u, a) \in Nat
  BY <1>1, <1>4, GrapheAssumption DEF TypeOK
<1>9. a \in Retenues(u) \/ (Atteint(Tgt[a]) /\ gScore[Tgt[a]] <= Cand(u, a))
  BY <1>6, <1>7, <1>8 DEF Retenues, Atteint, Infini
<1> QED BY <1>7, <1>9

\* Choisie picks a retained edge of least cost.
LEMMA ChoisieProps ==
  ASSUME TypeOK, NEW u \in Nodes, Atteint(u), NEW m \in Touches(u)
  PROVE  /\ Choisie(u, m) \in Retenues(u)
         /\ Derniere(u, m, Choisie(u, m))
<1> DEFINE E == {a \in Retenues(u) : Tgt[a] = m}
           C == {Cand(u, a) : a \in E}
<1>1. E \subseteq Edges /\ E # {} /\ \A a \in E : Cand(u, a) \in Nat
  BY CandType DEF Retenues, Essais, Touches
<1>2. PICK c \in C : \A d \in C : c <= d
  <2> C \in SUBSET Nat /\ C # {}
    BY <1>1
  <2> HIDE DEF C
  <2> QED BY MinNat
<1>3. \E a \in Retenues(u) : Derniere(u, m, a)
  BY <1>2 DEF Derniere
<1> QED BY <1>3 DEF Choisie

LEMMA EntreeType ==
  ASSUME TypeOK
  PROVE  /\ entree.from \in Refs /\ entree.to \in Refs
         /\ entree.w \in Poids /\ entree.used \in SUBSET Edges
         /\ entree.max \in Int /\ entree.reuse \in Int
         /\ MaxNodes \in Nat /\ MaxNodes >= 1
         /\ Reuse \in Nat /\ Reuse >= 1
<1>1. /\ entree.from \in Refs /\ entree.to \in Refs
      /\ entree.w \in Poids /\ entree.used \in SUBSET Edges
      /\ entree.max \in Int /\ entree.reuse \in Int
  BY OptionsAssumption DEF TypeOK, Entrees
<1> QED BY <1>1, OptionsAssumption DEF MaxNodes, Reuse

LEMMA DistType ==
  ASSUME EnBornes, NEW m \in Nodes
  PROVE  Dist(m) \in Nat
BY PoidsAssumption DEF EnBornes, Dist

\* What relaxing the edges of u does to the scores, the parents and the queue.
LEMMA RelacheFaits ==
  ASSUME TypeOK, EnBornes, NEW u \in Nodes, Atteint(u), NEW it \in pq,
         Relacher(u, it)
  PROVE  /\ gScore' \in [Nodes -> Nat \cup {Infini}]
         /\ parentNode' \in [Nodes -> Nodes]
         /\ parentEdge' \in [Nodes -> Edges \cup {Infini}]
         /\ pq' \subseteq [node : Nodes, f : Nat]
         /\ \A m \in Nodes \ Touches(u) :
              /\ gScore'[m] = gScore[m]
              /\ parentNode'[m] = parentNode[m]
              /\ parentEdge'[m] = parentEdge[m]
         /\ \A m \in Touches(u) : \E e \in Essais(u) :
              /\ Tgt[e] = m
              /\ gScore'[m] = Cand(u, e)
              /\ parentNode'[m] = u
              /\ parentEdge'[m] = e
              /\ ~Atteint(m) \/ Cand(u, e) < gScore[m]
              /\ [node |-> m, f |-> Cand(u, e) + Dist(m)] \in pq'
         /\ \A e \in Essais(u) :
              gScore'[Tgt[e]] \in Nat /\ gScore'[Tgt[e]] <= Cand(u, e)
         /\ \A o \in pq' : o \in pq \ {it} \/
              \E e \in Essais(u) : o = [node |-> Tgt[e],
                                        f |-> Cand(u, e) + Dist(Tgt[e])]
         /\ pq \ {it} \subseteq pq'
<1>1. \A e \in Edges : Cand(u, e) \in Nat /\ Tgt[e] \in Nodes
  BY CandType, GrapheAssumption
<1>2. Retenues(u) \subseteq Essais(u) /\ Essais(u) \subseteq Edges
  BY DEF Retenues, Essais
<1>3. \A m \in Touches(u) : /\ m \in Nodes
                            /\ Choisie(u, m) \in Retenues(u)
                            /\ Tgt[Choisie(u, m)] = m
                            /\ \A a \in Retenues(u) : Tgt[a] = m =>
                                 Cand(u, Choisie(u, m)) <= Cand(u, a)
  BY <1>1, <1>2, ChoisieProps DEF Touches, Derniere
<1>4. gScore' \in [Nodes -> Nat \cup {Infini}]
  BY <1>1, <1>2, <1>3 DEF Relacher, TypeOK
<1>5. /\ parentNode' \in [Nodes -> Nodes]
      /\ parentEdge' \in [Nodes -> Edges \cup {Infini}]
  BY <1>2, <1>3 DEF Relacher, TypeOK
<1>6. pq' \subseteq [node : Nodes, f : Nat]
  BY <1>1, <1>2, DistType DEF Relacher, TypeOK
<1>7. \A m \in Nodes \ Touches(u) : /\ gScore'[m] = gScore[m]
                                    /\ parentNode'[m] = parentNode[m]
                                    /\ parentEdge'[m] = parentEdge[m]
  BY DEF Relacher
<1>8. ASSUME NEW m \in Touches(u)
      PROVE  \E e \in Essais(u) :
              /\ Tgt[e] = m
              /\ gScore'[m] = Cand(u, e)
              /\ parentNode'[m] = u
              /\ parentEdge'[m] = e
              /\ ~Atteint(m) \/ Cand(u, e) < gScore[m]
              /\ [node |-> m, f |-> Cand(u, e) + Dist(m)] \in pq'
  <2> DEFINE e == Choisie(u, m)
  <2>1. m \in Nodes /\ e \in Retenues(u) /\ e \in Essais(u) /\ Tgt[e] = m
    BY <1>2, <1>3
  <2>2. gScore'[m] = Cand(u, e) /\ parentNode'[m] = u /\ parentEdge'[m] = e
    BY <2>1 DEF Relacher
  <2>3. ~Atteint(m) \/ Cand(u, e) < gScore[m]
    BY <2>1 DEF Retenues, Atteint
  <2>4. [node |-> m, f |-> Cand(u, e) + Dist(m)] \in pq'
    BY <2>1 DEF Relacher
  <2> QED BY <2>1, <2>2, <2>3, <2>4
<1>9. ASSUME NEW e \in Essais(u)
      PROVE  gScore'[Tgt[e]] \in Nat /\ gScore'[Tgt[e]] <= Cand(u, e)
  <2>1. PICK a \in Essais(u) :
           /\ Tgt[a] = Tgt[e]
           /\ Cand(u, a) <= Cand(u, e)
           /\ a \in Retenues(u) \/ (Atteint(Tgt[a]) /\ gScore[Tgt[a]] <= Cand(u, a))
    BY Meilleure
  <2>2. /\ Tgt[e] \in Nodes /\ Cand(u, e) \in Nat /\ Cand(u, a) \in Nat
        /\ gScore[Tgt[e]] \in Nat \cup {Infini}
    BY <1>1, <1>2 DEF TypeOK
  <2>3. CASE Tgt[e] \in Touches(u)
    <3> DEFINE c == Choisie(u, Tgt[e])
    <3>1. gScore'[Tgt[e]] = Cand(u, c) /\ c \in Retenues(u)
      BY <2>2, <2>3, <1>3 DEF Relacher
    <3>2. Cand(u, c) \in Nat /\ c \in Edges
      BY <3>1, <1>1, <1>2
    <3>3. CASE a \in Retenues(u)
      <4>1. Cand(u, c) <= Cand(u, a)
        BY <3>3, <2>1, <2>3, <1>3
      <4> HIDE DEF c
      <4> QED BY <4>1, <3>1, <3>2, <2>1, <2>2
    <3>4. CASE Atteint(Tgt[a]) /\ gScore[Tgt[a]] <= Cand(u, a)
      <4>1. Tgt[c] = Tgt[e]
        BY <2>3, <1>3
      <4>2. Cand(u, c) < gScore[Tgt[e]]
        BY <3>1, <3>4, <4>1, <2>1 DEF Retenues, Atteint
      <4>3. gScore[Tgt[e]] \in Nat
        BY <3>4, <2>1, <2>2 DEF Atteint
      <4> HIDE DEF c
      <4> QED BY <4>2, <4>3, <3>1, <3>2, <3>4, <2>1, <2>2
    <3> QED BY <3>3, <3>4, <2>1
  <2>4. CASE Tgt[e] \notin Touches(u)
    <3>1. a \notin Retenues(u)
      BY <2>1, <2>4 DEF Touches
    <3>2. gScore'[Tgt[e]] = gScore[Tgt[e]]
      BY <1>7, <2>2, <2>4
    <3> QED BY <3>1, <3>2, <2>1, <2>2 DEF Atteint
  <2> QED BY <2>3, <2>4
<1>10. ASSUME NEW o \in pq', o \notin pq \ {it}
       PROVE  \E e \in Essais(u) : o = [node |-> Tgt[e],
                                        f |-> Cand(u, e) + Dist(Tgt[e])]
  BY <1>10, <1>2 DEF Relacher
<1>11. pq \ {it} \subseteq pq'
  BY DEF Relacher
<1> QED BY <1>4, <1>5, <1>6, <1>7, <1>8, <1>9, <1>10, <1>11

----------------------------------------------------------------------------
\* The steps that touch neither the search nor the rebuilding.
Neutres ==
  \/ AppelHorsBornes \/ AppelAnnule \/ AppelTrivial \/ FileVide
  \/ ConstaterAnnulation \/ Poursuivre \/ FinRemontee

LEMMA InitIInv == Init => IInv
<1> SUFFICES ASSUME Init
             PROVE  IInv
  OBVIOUS
<1>0. entree.to \in Refs
  BY DEF Init, Entrees
<1>1. TypeOK
  <2>1. /\ gScore \in [Nodes -> Nat \cup {Infini}]
        /\ parentNode \in [Nodes -> Nodes]
        /\ parentEdge \in [Nodes -> Edges \cup {Infini}]
        /\ rang \in [Nodes -> Nat]
    BY DEF Init
  <2>2. /\ etape \in Etapes /\ issue \in Issues
        /\ chemin \in Seq(Edges) /\ pq \subseteq [node : Nodes, f : Nat]
    BY DEF Init, Etapes, Issues
  <2> QED BY <1>0, <2>1, <2>2 DEF Init, TypeOK
<1>2. InvBornes /\ InvAppel /\ InvFront /\ InvBut
  BY DEF Init, InvBornes, InvAppel, InvFront, InvBut, EnBoucle, Atteint
<1>4. InvArbre /\ InvFile
  BY DEF Init, InvArbre, InvFile, ArbreParents, Atteint, EnBoucle
<1>3. CoupeSansIssue
  BY DEF Init, CoupeSansIssue
<1> QED BY <1>1, <1>2, <1>3, <1>4 DEF IInv

\* An item of the queue is popped in a call whose arguments are in range, and
\* its node has a score.
LEMMA DepileFaits ==
  ASSUME IInv, etape = "depile", NEW it \in pq
  PROVE  /\ TypeOK /\ EnBornes /\ entree.from # entree.to
         /\ gScore[entree.from] = 0
         /\ it.node \in Nodes /\ it.f \in Nat /\ Atteint(it.node)
         /\ gScore[it.node] \in Nat
<1>1. it \in [node : Nodes, f : Nat]
  BY DEF IInv, TypeOK
<1>2. /\ TypeOK /\ EnBornes /\ entree.from # entree.to
      /\ gScore[entree.from] = 0 /\ Atteint(it.node)
  BY DEF IInv, InvBornes, InvFile, EnBoucle
<1> QED BY <1>1, <1>2 DEF TypeOK, Atteint

LEMMA TypeOKStep == IInv /\ [Next]_vars => TypeOK'
<1> SUFFICES ASSUME IInv, [Next]_vars
             PROVE  TypeOK'
  OBVIOUS
<1>0. TypeOK
  BY DEF IInv
<1> USE <1>0
<1>1. CASE UNCHANGED vars
  BY <1>1 DEF TypeOK, vars, recherche, remontee
<1>2. CASE Annuler
  BY <1>2 DEF Annuler, TypeOK, recherche, remontee
<1>3. CASE Neutres
  <2> USE <1>3 DEF TypeOK, recherche, remontee, Retourner, Continuer, Etapes,
                   Issues
  <2>1. CASE AppelHorsBornes
    BY <2>1 DEF AppelHorsBornes
  <2>2. CASE AppelAnnule
    BY <2>2 DEF AppelAnnule
  <2>3. CASE AppelTrivial
    BY <2>3 DEF AppelTrivial
  <2>4. CASE FileVide
    BY <2>4 DEF FileVide
  <2>5. CASE ConstaterAnnulation
    BY <2>5 DEF ConstaterAnnulation
  <2>6. CASE Poursuivre
    BY <2>6 DEF Poursuivre
  <2>7. CASE FinRemontee
    BY <2>7 DEF FinRemontee
  <2> QED BY <2>1, <2>2, <2>3, <2>4, <2>5, <2>6, <2>7 DEF Neutres
<1>4. CASE AppelRecherche
  <2>1. /\ gScore' \in [Nodes -> Nat \cup {Infini}]
        /\ pq' \subseteq [node : Nodes, f : Nat]
    BY <1>4, DistType DEF AppelRecherche, EnBornes, TypeOK
  <2> QED BY <1>4, <2>1 DEF AppelRecherche, TypeOK, Continuer, Etapes, remontee
<1>5. ASSUME NEW it \in pq, DepilerPerime(it)
      PROVE  TypeOK'
  BY <1>5 DEF DepilerPerime, TypeOK, Continuer, Etapes, remontee
<1>6. ASSUME NEW it \in pq, it.node \in Nodes, Fixer(it.node)
      PROVE  /\ settled' \subseteq Nodes /\ explored' \in Nat
             /\ rang' \in [Nodes -> Nat]
  BY <1>6 DEF TypeOK, Fixer
<1>7. ASSUME NEW it \in pq, DepilerBut(it)
      PROVE  TypeOK'
  <2>1. it.node \in Nodes
    BY <1>7, DepileFaits DEF DepilerBut
  <2>2. Nodes \subseteq Refs
    BY GrapheAssumption
  <2> QED BY <1>6, <1>7, <2>1, <2>2 DEF DepilerBut, TypeOK, Continuer, Etapes
<1>8. ASSUME NEW it \in pq, DepilerPlafond(it)
      PROVE  TypeOK'
  <2>1. it.node \in Nodes
    BY <1>8, DepileFaits DEF DepilerPlafond
  <2> QED BY <1>6, <1>8, <2>1
          DEF DepilerPlafond, TypeOK, Retourner, Etapes, Issues, remontee
<1>9. ASSUME NEW it \in pq, DepilerEtRelacher(it)
      PROVE  TypeOK'
  <2>1. it.node \in Nodes /\ EnBornes /\ Atteint(it.node)
    BY <1>9, DepileFaits DEF DepilerEtRelacher
  <2>2. /\ gScore' \in [Nodes -> Nat \cup {Infini}]
        /\ parentNode' \in [Nodes -> Nodes]
        /\ parentEdge' \in [Nodes -> Edges \cup {Infini}]
        /\ pq' \subseteq [node : Nodes, f : Nat]
    <3>1. Relacher(it.node, it)
      BY <1>9 DEF DepilerEtRelacher
    <3> QED BY <2>1, <3>1, RelacheFaits
  <2>3. /\ settled' \subseteq Nodes /\ explored' \in Nat
        /\ rang' \in [Nodes -> Nat]
    BY <1>6, <1>9, <2>1 DEF DepilerEtRelacher
  <2> QED BY <1>9, <2>2, <2>3
          DEF DepilerEtRelacher, TypeOK, Continuer, Etapes, remontee
<1>10. CASE Remonter
  <2>1. n \in Nodes /\ n # entree.from /\ n \in settled
    BY <1>10 DEF Remonter, TypeOK, IInv, InvArbre
  <2>2. parentEdge[n] \in Edges /\ parentNode[n] \in Nodes
    BY <2>1 DEF IInv, InvArbre, ArbreParents, TypeOK
  <2>3. Long[parentEdge[n]] \in Nat /\ Nodes \subseteq Refs
    BY <2>2, PoidsAssumption, GrapheAssumption
  <2>4. /\ chemin' \in Seq(Edges) /\ lengthM' \in Nat /\ retracedM' \in Nat
        /\ n' \in Nodes
    BY <1>10, <2>2, <2>3 DEF Remonter, TypeOK
  <2> QED BY <1>10, <2>3, <2>4 DEF Remonter, TypeOK, Continuer, Etapes, recherche
<1> QED
  BY <1>1, <1>2, <1>3, <1>4, <1>5, <1>7, <1>8, <1>9, <1>10
  DEF Next, FindPath, Fini, Neutres

LEMMA NeutreFaits ==
  ASSUME Neutres
  PROVE  /\ entree' = entree /\ annule' = annule
         /\ gScore' = gScore /\ parentNode' = parentNode
         /\ parentEdge' = parentEdge /\ settled' = settled
         /\ explored' = explored /\ pq' = pq /\ rang' = rang
         /\ n' = n /\ chemin' = chemin /\ lengthM' = lengthM
         /\ retracedM' = retracedM
         /\ \/ etape = "test" /\ etape' = "depile" /\ issue' = issue
            \/ etape' = "retour" /\ \/ issue' = "ErrNoPath" /\ ~EnBornes
                                    \/ issue' = "ErrNoPath" /\ etape = "test" /\ pq = {}
                                    \/ issue' = "ctx"
                                    \/ issue' = "ok" /\ entree.from = entree.to
                                    \/ issue' = "ok" /\ etape = "remonte" /\ n = entree.from
<1> USE DEF recherche, remontee, Retourner, Continuer
<1>1. CASE AppelHorsBornes
  BY <1>1 DEF AppelHorsBornes
<1>2. CASE AppelAnnule
  BY <1>2 DEF AppelAnnule
<1>3. CASE AppelTrivial
  BY <1>3 DEF AppelTrivial
<1>4. CASE FileVide
  BY <1>4 DEF FileVide
<1>5. CASE ConstaterAnnulation
  BY <1>5 DEF ConstaterAnnulation
<1>6. CASE Poursuivre
  BY <1>6 DEF Poursuivre
<1>7. CASE FinRemontee
  BY <1>7 DEF FinRemontee
<1> QED BY <1>1, <1>2, <1>3, <1>4, <1>5, <1>6, <1>7 DEF Neutres

\* Next, by what its steps change.
LEMMA CasDeNext ==
  ASSUME [Next]_vars
  PROVE  \/ UNCHANGED vars
         \/ Annuler
         \/ Neutres
         \/ AppelRecherche
         \/ \E it \in pq : \/ DepilerPerime(it) \/ DepilerBut(it)
                           \/ DepilerPlafond(it) \/ DepilerEtRelacher(it)
         \/ Remonter
BY DEF Next, FindPath, Fini, Neutres

\* A step that leaves the search alone leaves alone what is said of it.
LEMMA Inchange ==
  ASSUME entree' = entree, gScore' = gScore, settled' = settled
  PROVE  /\ EnBornes' <=> EnBornes
         /\ \A m : Dist(m)' = Dist(m)
         /\ \A e : Depense(e)' = Depense(e)
         /\ \A m : Atteint(m)' <=> Atteint(m)
         /\ \A m : Potentiel(m)' = Potentiel(m)
BY DEF EnBornes, Dist, Depense, DejaPris, Reuse, Atteint, Potentiel

LEMMA EntreeConstante ==
  ASSUME entree' = entree
  PROVE  /\ EnBornes' <=> EnBornes
         /\ \A m : Dist(m)' = Dist(m)
         /\ \A e : Depense(e)' = Depense(e)
         /\ MaxNodes' = MaxNodes
         /\ Reuse' = Reuse
BY DEF EnBornes, Dist, Depense, DejaPris, Reuse, MaxNodes

LEMMA EntreeFixe == [Next]_vars => entree' = entree
<1> SUFFICES ASSUME [Next]_vars
             PROVE  entree' = entree
  OBVIOUS
<1> QED
  BY CasDeNext, NeutreFaits
  DEF vars, Annuler, AppelRecherche, DepilerPerime, DepilerBut, DepilerPlafond,
      DepilerEtRelacher, Remonter

\* The start keeps its score: no cost is negative.
LEMMA DepartGarde ==
  ASSUME IInv, NEW it \in pq, DepilerEtRelacher(it)
  PROVE  gScore'[entree.from] = 0
<1> DEFINE u == it.node
<1>1. /\ TypeOK /\ EnBornes /\ u \in Nodes /\ Atteint(u) /\ Relacher(u, it)
      /\ gScore[entree.from] = 0
  BY DepileFaits DEF DepilerEtRelacher
<1>2. \A e \in Essais(u) : Cand(u, e) \in Nat /\ Cand(u, e) >= 0
  BY <1>1, CandType DEF Essais
<1>3. entree.from \notin Touches(u)
  <2> SUFFICES ASSUME entree.from \in Touches(u)
               PROVE  FALSE
    OBVIOUS
  <2>1. PICK e \in Essais(u) :
          ~Atteint(entree.from) \/ Cand(u, e) < gScore[entree.from]
    BY <1>1, RelacheFaits
  <2> QED BY <2>1, <1>1, <1>2 DEF Atteint, Infini
<1> QED BY <1>1, <1>3, RelacheFaits DEF EnBornes

LEMMA InvBornesStep == IInv /\ [Next]_vars => InvBornes'
<1> SUFFICES ASSUME IInv, [Next]_vars
             PROVE  InvBornes'
  OBVIOUS
<1>0. entree' = entree /\ InvBornes /\ InvAppel
  BY EntreeFixe DEF IInv
<1>a. EnBornes' <=> EnBornes
  BY <1>0, EntreeConstante
<1> USE <1>0, <1>a DEF InvBornes, InvAppel, EnBoucle
<1>1. CASE UNCHANGED vars
  BY <1>1 DEF vars, recherche
<1>2. CASE Annuler
  BY <1>2 DEF Annuler, recherche
<1>3. CASE Neutres
  BY <1>3, NeutreFaits
<1>4. CASE AppelRecherche
  BY <1>4 DEF AppelRecherche, Continuer, EnBornes, IInv, TypeOK
<1>5. ASSUME NEW it \in pq, DepilerPerime(it)
      PROVE  InvBornes'
  BY <1>5 DEF DepilerPerime, Continuer
<1>6. ASSUME NEW it \in pq, DepilerBut(it)
      PROVE  InvBornes'
  BY <1>6 DEF DepilerBut, Continuer
<1>7. ASSUME NEW it \in pq, DepilerPlafond(it)
      PROVE  InvBornes'
  BY <1>7 DEF DepilerPlafond, Retourner
<1>8. ASSUME NEW it \in pq, DepilerEtRelacher(it)
      PROVE  InvBornes'
  BY <1>8, DepartGarde DEF DepilerEtRelacher, Continuer
<1>9. CASE Remonter
  BY <1>9 DEF Remonter, Continuer, recherche
<1> QED BY <1>1, <1>2, <1>3, <1>4, <1>5, <1>6, <1>7, <1>8, <1>9, CasDeNext

LEMMA InvAppelStep == IInv /\ [Next]_vars => InvAppel'
<1> SUFFICES ASSUME IInv, [Next]_vars
             PROVE  InvAppel'
  OBVIOUS
<1>0. InvAppel
  BY DEF IInv
<1> USE <1>0 DEF InvAppel, Atteint
<1>1. CASE UNCHANGED vars
  BY <1>1 DEF vars, recherche
<1>2. CASE Annuler
  BY <1>2 DEF Annuler, recherche
<1>3. CASE Neutres
  BY <1>3, NeutreFaits
<1>4. CASE AppelRecherche
  BY <1>4 DEF AppelRecherche, Continuer
<1>5. ASSUME NEW it \in pq, DepilerPerime(it)
      PROVE  InvAppel'
  BY <1>5 DEF DepilerPerime, Continuer
<1>6. ASSUME NEW it \in pq, DepilerBut(it)
      PROVE  InvAppel'
  BY <1>6 DEF DepilerBut, Continuer
<1>7. ASSUME NEW it \in pq, DepilerPlafond(it)
      PROVE  InvAppel'
  BY <1>7 DEF DepilerPlafond, Retourner
<1>8. ASSUME NEW it \in pq, DepilerEtRelacher(it)
      PROVE  InvAppel'
  BY <1>8 DEF DepilerEtRelacher, Continuer
<1>9. CASE Remonter
  BY <1>9 DEF Remonter, Continuer, recherche
<1> QED BY <1>1, <1>2, <1>3, <1>4, <1>5, <1>6, <1>7, <1>8, <1>9, CasDeNext

LEMMA RelacheArbre ==
  ASSUME IInv, NEW it \in pq, DepilerEtRelacher(it)
  PROVE  /\ \A m \in Nodes \ Touches(it.node) :
              /\ gScore'[m] = gScore[m]
              /\ parentNode'[m] = parentNode[m]
              /\ parentEdge'[m] = parentEdge[m]
         /\ \A m \in Touches(it.node) : \E e \in Essais(it.node) :
              /\ Tgt[e] = m
              /\ gScore'[m] = Cand(it.node, e)
              /\ parentNode'[m] = it.node
              /\ parentEdge'[m] = e
<1>1. /\ TypeOK /\ EnBornes /\ it.node \in Nodes /\ Atteint(it.node)
      /\ Relacher(it.node, it)
  BY DepileFaits DEF DepilerEtRelacher
<1>2. \A m \in Nodes \ Touches(it.node) :
        /\ gScore'[m] = gScore[m]
        /\ parentNode'[m] = parentNode[m]
        /\ parentEdge'[m] = parentEdge[m]
  BY <1>1, RelacheFaits
<1>3. ASSUME NEW m \in Touches(it.node)
      PROVE  \E e \in Essais(it.node) :
              /\ Tgt[e] = m
              /\ gScore'[m] = Cand(it.node, e)
              /\ parentNode'[m] = it.node
              /\ parentEdge'[m] = e
  <2>1. PICK e \in Essais(it.node) :
              /\ Tgt[e] = m
              /\ gScore'[m] = Cand(it.node, e)
              /\ parentNode'[m] = it.node
              /\ parentEdge'[m] = e
              /\ ~Atteint(m) \/ Cand(it.node, e) < gScore[m]
              /\ [node |-> m, f |-> Cand(it.node, e) + Dist(m)] \in pq'
    BY <1>1, RelacheFaits
  <2> QED BY <2>1
<1> QED BY <1>2, <1>3

\* Settling a node that is not settled yet keeps the tree.
LEMMA InvArbreStep == IInv /\ [Next]_vars => InvArbre'
<1> SUFFICES ASSUME IInv, [Next]_vars
             PROVE  InvArbre'
  OBVIOUS
<1>0. TypeOK /\ InvArbre /\ InvAppel /\ entree' = entree
  BY EntreeFixe DEF IInv
<1>a. \A e : Depense(e)' = Depense(e)
  BY <1>0, EntreeConstante
<1> USE <1>0, <1>a DEF InvArbre, ArbreParents, Atteint
<1>1. CASE UNCHANGED vars
  BY <1>1 DEF vars, recherche, remontee
<1>2. CASE Annuler
  BY <1>2 DEF Annuler, recherche, remontee
<1>3. CASE Neutres
  BY <1>3, NeutreFaits
<1>4. CASE AppelRecherche
  BY <1>4 DEF AppelRecherche, Continuer, InvAppel
<1>5. ASSUME NEW it \in pq, DepilerPerime(it)
      PROVE  InvArbre'
  BY <1>5 DEF DepilerPerime, Continuer
<1>b. ASSUME NEW it \in pq, it.node \in Nodes, it.node \notin settled,
             Fixer(it.node)
      PROVE  /\ \A m \in settled : rang'[m] = rang[m] /\ rang'[m] <= explored'
             /\ rang'[it.node] = explored' /\ explored' = explored + 1
             /\ explored \in Nat
             /\ settled' = settled \cup {it.node}
             /\ \A m \in settled : rang'[m] < explored'
  BY <1>b DEF Fixer, TypeOK
<1>6. ASSUME NEW it \in pq, DepilerBut(it)
      PROVE  InvArbre'
  <2>1. it.node \in Nodes /\ Atteint(it.node)
    BY <1>6, DepileFaits DEF DepilerBut
  <2> QED BY <1>6, <1>b, <2>1 DEF DepilerBut, Continuer
<1>7. ASSUME NEW it \in pq, DepilerPlafond(it)
      PROVE  InvArbre'
  <2>1. it.node \in Nodes /\ Atteint(it.node)
    BY <1>7, DepileFaits DEF DepilerPlafond
  <2> QED BY <1>7, <1>b, <2>1 DEF DepilerPlafond, Retourner
<1>8. ASSUME NEW it \in pq, DepilerEtRelacher(it)
      PROVE  InvArbre'
  <2> DEFINE u == it.node
  <2>1. /\ u \in Nodes /\ Atteint(u) /\ EnBornes /\ Relacher(u, it)
        /\ u \notin settled /\ etape' = "test"
    BY <1>8, DepileFaits DEF DepilerEtRelacher, Continuer
  <2>2. /\ \A m \in settled : rang'[m] = rang[m] /\ rang'[m] <= explored'
        /\ rang'[u] = explored' /\ explored' = explored + 1 /\ explored \in Nat
        /\ settled' = settled \cup {u}
        /\ \A m \in settled : rang'[m] < explored'
    BY <1>8, <1>b, <2>1 DEF DepilerEtRelacher
  <2>3. \A m \in Touches(u) : m \in Nodes /\ m \notin settled'
    BY <2>2, GrapheAssumption DEF Touches, Retenues, Essais
  <2>4. /\ \A m \in Nodes \ Touches(u) : /\ gScore'[m] = gScore[m]
                                         /\ parentNode'[m] = parentNode[m]
                                         /\ parentEdge'[m] = parentEdge[m]
        /\ \A m \in Touches(u) : \E e \in Essais(u) :
              /\ Tgt[e] = m
              /\ gScore'[m] = Cand(u, e)
              /\ parentNode'[m] = u
              /\ parentEdge'[m] = e
    BY <1>8, RelacheArbre
  <2>5. \A m \in settled' : m \in Nodes /\ gScore'[m] = gScore[m] /\ Atteint(m)
    BY <2>1, <2>2, <2>3, <2>4 DEF TypeOK
  <2>6. ASSUME NEW m \in Nodes \ {entree.from}, gScore'[m] # Infini
        PROVE  /\ parentEdge'[m] \in Edges
               /\ Tgt[parentEdge'[m]] = m
               /\ Src[parentEdge'[m]] = parentNode'[m]
               /\ parentNode'[m] \in settled'
               /\ m \in settled' => rang'[parentNode'[m]] < rang'[m]
               /\ gScore'[m] = gScore'[parentNode'[m]] + Depense(parentEdge'[m])
    <3>1. CASE m \in Touches(u)
      <4>1. PICK e \in Essais(u) : /\ Tgt[e] = m
                                   /\ gScore'[m] = Cand(u, e)
                                   /\ parentNode'[m] = u
                                   /\ parentEdge'[m] = e
        BY <3>1, <2>4
      <4>2. gScore'[u] = gScore[u] /\ u \in settled' /\ m \notin settled'
        BY <2>2, <2>5, <2>3, <3>1
      <4> QED BY <4>1, <4>2 DEF Essais, Cand
    <3>2. CASE m \notin Touches(u)
      <4>1. /\ gScore'[m] = gScore[m] /\ parentNode'[m] = parentNode[m]
            /\ parentEdge'[m] = parentEdge[m] /\ Atteint(m)
        BY <2>6, <3>2, <2>4
      <4>2. /\ parentNode[m] \in settled
            /\ gScore'[parentNode[m]] = gScore[parentNode[m]]
        BY <4>1, <2>2, <2>5
      <4> QED BY <4>1, <4>2, <2>2
    <3> QED BY <3>1, <3>2
  <2>7. \A m \in settled' : gScore'[m] # Infini /\ rang'[m] <= explored'
    BY <2>1, <2>2, <2>5
  <2> QED BY <2>1, <2>6, <2>7
<1>9. CASE Remonter
  <2>1. n \in settled /\ n \in Nodes /\ n # entree.from /\ etape = "remonte"
    BY <1>9 DEF Remonter, TypeOK
  <2>2. parentNode[n] \in settled
    BY <2>1
  <2> QED BY <1>9, <2>2 DEF Remonter, Continuer, recherche
<1> QED BY <1>1, <1>2, <1>3, <1>4, <1>5, <1>6, <1>7, <1>8, <1>9, CasDeNext

\* A fresh item carries the present score of its node.
LEMMA FExact ==
  ASSUME IInv, etape = "depile", NEW it \in pq, Premier(it),
         it.node \notin settled
  PROVE  it.f = gScore[it.node] + Dist(it.node)
<1> DEFINE u == it.node
           exact == [node |-> u, f |-> gScore[u] + Dist(u)]
<1>1. /\ u \in Nodes /\ it.f \in Nat /\ Atteint(u) /\ gScore[u] \in Nat
      /\ EnBornes
  BY DepileFaits
<1>2. exact \in pq /\ gScore[u] + Dist(u) <= it.f
  BY <1>1 DEF IInv, InvFile, EnBoucle
<1>3. it.f <= gScore[u] + Dist(u)
  BY <1>2 DEF Premier
<1> QED BY <1>1, <1>2, <1>3, DistType

LEMMA InvFileStep == IInv /\ [Next]_vars => InvFile'
<1> SUFFICES ASSUME IInv, [Next]_vars
             PROVE  InvFile'
  OBVIOUS
<1>0. TypeOK /\ InvFile /\ InvAppel /\ InvBornes /\ entree' = entree
  BY EntreeFixe DEF IInv
<1>a. \A m : Dist(m)' = Dist(m)
  BY <1>0, EntreeConstante
<1>1. CASE UNCHANGED vars
  BY <1>0, <1>a, <1>1 DEF vars, recherche, InvFile, Atteint, EnBoucle
<1>2. CASE Annuler
  BY <1>0, <1>a, <1>2 DEF Annuler, recherche, InvFile, Atteint, EnBoucle
<1>3. CASE Neutres
  BY <1>0, <1>a, <1>3, NeutreFaits DEF InvFile, Atteint, EnBoucle
<1>4. CASE AppelRecherche
  <2>1. /\ entree.from \in Nodes /\ EnBornes /\ \A m \in Nodes : ~Atteint(m)
        /\ gScore' = [gScore EXCEPT ![entree.from] = 0]
        /\ pq' = {[node |-> entree.from, f |-> Dist(entree.from)]}
    BY <1>0, <1>4 DEF AppelRecherche, InvAppel, EnBornes
  <2>2. /\ gScore'[entree.from] = 0
        /\ \A m \in Nodes : gScore'[m] # Infini => m = entree.from
    BY <1>0, <2>1 DEF TypeOK, Atteint
  <2>3. Dist(entree.from) \in Nat
    BY <2>1, DistType
  <2> QED BY <1>a, <2>1, <2>2, <2>3 DEF InvFile, Atteint, Infini
<1>5. ASSUME NEW it \in pq, DepilerPerime(it)
      PROVE  InvFile'
  BY <1>0, <1>a, <1>5 DEF DepilerPerime, Continuer, InvFile, Atteint, EnBoucle
<1>6. ASSUME NEW it \in pq, DepilerBut(it)
      PROVE  InvFile'
  BY <1>0, <1>a, <1>6 DEF DepilerBut, Continuer, InvFile, Atteint, EnBoucle
<1>7. ASSUME NEW it \in pq, DepilerPlafond(it)
      PROVE  InvFile'
  BY <1>0, <1>a, <1>7 DEF DepilerPlafond, Retourner, InvFile, Atteint, EnBoucle
<1>8. ASSUME NEW it \in pq, DepilerEtRelacher(it)
      PROVE  InvFile'
  <2> DEFINE u == it.node
  <2>1. /\ u \in Nodes /\ Atteint(u) /\ EnBornes /\ Relacher(u, it)
        /\ u \notin settled /\ settled' = settled \cup {u} /\ EnBoucle
    BY <1>8, DepileFaits DEF DepilerEtRelacher, Fixer, EnBoucle
  <2>2. \A e \in Essais(u) : Tgt[e] \in Nodes /\ Cand(u, e) \in Nat
    BY <1>0, <2>1, CandType, GrapheAssumption DEF Essais
  <2>3. ASSUME NEW m \in Nodes
        PROVE  /\ gScore[m] \in Nat \cup {Infini} /\ Dist(m) \in Nat
               /\ Atteint(m) => gScore'[m] \in Nat /\ gScore'[m] <= gScore[m]
               /\ gScore'[m] # Infini => \/ gScore'[m] = gScore[m]
                                         \/ [node |-> m, f |-> gScore'[m] + Dist(m)] \in pq'
    <3>1. gScore[m] \in Nat \cup {Infini} /\ Dist(m) \in Nat
      BY <1>0, <2>1, DistType DEF TypeOK
    <3>2. CASE m \in Touches(u)
      <4>1. PICK e \in Essais(u) :
              /\ gScore'[m] = Cand(u, e)
              /\ ~Atteint(m) \/ Cand(u, e) < gScore[m]
              /\ [node |-> m, f |-> Cand(u, e) + Dist(m)] \in pq'
        BY <1>0, <2>1, <3>2, RelacheFaits
      <4> QED BY <2>2, <3>1, <4>1 DEF Atteint, Infini
    <3>3. CASE m \notin Touches(u)
      <4>1. gScore'[m] = gScore[m]
        BY <1>0, <2>1, <3>3, RelacheFaits
      <4> QED BY <3>1, <4>1 DEF Atteint
    <3> QED BY <3>2, <3>3
  <2>4. ASSUME NEW o \in pq'
        PROVE  gScore'[o.node] # Infini /\ gScore'[o.node] + Dist(o.node) <= o.f
    <3>1. CASE o \in pq
      <4>1. /\ o.node \in Nodes /\ o.f \in Nat /\ Atteint(o.node)
            /\ gScore[o.node] + Dist(o.node) <= o.f
        BY <1>0, <3>1 DEF InvFile, TypeOK
      <4>2. /\ gScore'[o.node] \in Nat /\ gScore'[o.node] <= gScore[o.node]
            /\ Dist(o.node) \in Nat /\ gScore[o.node] \in Nat
        BY <4>1, <2>3 DEF Atteint
      <4> QED BY <4>1, <4>2 DEF Infini
    <3>2. CASE o \notin pq
      <4>1. PICK e \in Essais(u) : o = [node |-> Tgt[e],
                                        f |-> Cand(u, e) + Dist(Tgt[e])]
        BY <1>0, <2>1, <3>2, RelacheFaits
      <4>2. gScore'[Tgt[e]] \in Nat /\ gScore'[Tgt[e]] <= Cand(u, e)
        BY <1>0, <2>1, RelacheFaits
      <4>3. o.node = Tgt[e] /\ o.f = Cand(u, e) + Dist(Tgt[e])
        BY <4>1
      <4>4. Tgt[e] \in Nodes /\ Cand(u, e) \in Nat /\ Dist(Tgt[e]) \in Nat
        BY <2>2, <2>3
      <4>5. gScore'[Tgt[e]] # Infini
        BY <4>2 DEF Infini
      <4> QED BY <4>2, <4>3, <4>4, <4>5
    <3> QED BY <3>1, <3>2
  <2>5. ASSUME NEW m \in Nodes \ settled', gScore'[m] # Infini
        PROVE  [node |-> m, f |-> gScore'[m] + Dist(m)] \in pq'
    <3>1. CASE gScore'[m] = gScore[m]
      <4>1. m \notin settled /\ m # u /\ Atteint(m)
        BY <2>1, <2>5, <3>1 DEF Atteint
      <4>2. [node |-> m, f |-> gScore[m] + Dist(m)] \in pq \ {it}
        BY <1>0, <2>1, <4>1 DEF InvFile
      <4>3. pq \ {it} \subseteq pq'
        BY <1>0, <2>1, RelacheFaits
      <4> QED BY <3>1, <4>2, <4>3
    <3> QED BY <2>3, <2>5, <3>1
  <2> QED BY <1>a, <2>4, <2>5 DEF InvFile, Atteint
<1>9. CASE Remonter
  BY <1>0, <1>a, <1>9 DEF Remonter, Continuer, recherche, InvFile, Atteint, EnBoucle
<1> QED BY <1>1, <1>2, <1>3, <1>4, <1>5, <1>6, <1>7, <1>8, <1>9, CasDeNext

\* With a consistent heuristic, a popped node comes after the settled ones.
LEMMA OrdreDepile ==
  ASSUME IInv, etape = "depile", NEW it \in pq, Premier(it),
         it.node \notin settled, Consistante
  PROVE  /\ \A v \in settled : gScore[v] + Dist(v) <= gScore[it.node] + Dist(it.node)
         /\ \A e \in Edges : Dist(Src[e]) <= Depense(e) + Dist(Tgt[e])
         /\ Dist(entree.to) = 0
<1>1. TypeOK /\ EnBornes /\ entree.w \in Poids
  BY DepileFaits, EntreeType
<1>2. \A v \in settled : gScore[v] + Dist(v) <= it.f
  BY DEF IInv, InvFront, EnBoucle
<1>3. it.f = gScore[it.node] + Dist(it.node)
  BY FExact
<1>4. ASSUME NEW e \in Edges
      PROVE  Dist(Src[e]) <= Depense(e) + Dist(Tgt[e])
  <2>1. Dist(Src[e]) <= Cout[entree.w][e] + Dist(Tgt[e])
    BY <1>1 DEF Consistante, Dist, EnBornes
  <2>2. /\ Depense(e) \in Nat /\ Depense(e) >= Cout[entree.w][e]
        /\ Cout[entree.w][e] \in Nat
    BY <1>1, DepenseBornee
  <2>3. Dist(Src[e]) \in Nat /\ Dist(Tgt[e]) \in Nat
    BY <1>1, DistType, GrapheAssumption
  <2> QED BY <2>1, <2>2, <2>3
<1>5. Dist(entree.to) = 0
  BY <1>1 DEF Consistante, Dist, EnBornes
<1> QED BY <1>2, <1>3, <1>4, <1>5

LEMMA RelacheFront ==
  ASSUME IInv, NEW it \in pq, DepilerEtRelacher(it)
  PROVE  /\ entree.from \in settled'
         /\ \A e \in Edges : Src[e] \in settled' =>
              /\ gScore'[Tgt[e]] # Infini
              /\ Consistante => gScore'[Tgt[e]] <= gScore'[Src[e]] + Depense(e)
         /\ Consistante => \A v \in settled', o \in pq' :
                             gScore'[v] + Dist(v) <= o.f
<1> DEFINE u == it.node
<1>1. /\ TypeOK /\ u \in Nodes /\ Atteint(u) /\ EnBornes /\ Relacher(u, it)
      /\ u \notin settled /\ settled' = settled \cup {u} /\ EnBoucle
      /\ etape = "depile" /\ Premier(it) /\ gScore[u] \in Nat
  BY DepileFaits DEF DepilerEtRelacher, Fixer, EnBoucle
<1>2. \A m \in Nodes : /\ gScore[m] \in Nat \cup {Infini} /\ Dist(m) \in Nat
                       /\ gScore'[m] \in Nat \cup {Infini}
  BY <1>1, DistType, RelacheFaits DEF TypeOK
<1>3. \A e \in Edges : /\ Src[e] \in Nodes /\ Tgt[e] \in Nodes
                       /\ Depense(e) \in Nat /\ Cand(u, e) \in Nat
  BY <1>1, DepenseBornee, CandType, GrapheAssumption
<1>4. entree.from \in settled'
  BY <1>1 DEF IInv, InvFront
<1>5. ASSUME NEW m \in Nodes, Atteint(m)
      PROVE  /\ gScore'[m] \in Nat /\ gScore[m] \in Nat
             /\ gScore'[m] <= gScore[m]
  <2>1. CASE m \in Touches(u)
    <3>1. PICK e \in Essais(u) : gScore'[m] = Cand(u, e) /\ Cand(u, e) < gScore[m]
      BY <1>1, <1>5, <2>1, RelacheFaits
    <3>2. Cand(u, e) \in Nat
      BY <1>3 DEF Essais
    <3> QED BY <3>1, <3>2, <1>2, <1>5 DEF Atteint
  <2>2. CASE m \notin Touches(u)
    <3>1. gScore'[m] = gScore[m]
      BY <1>1, <2>2, RelacheFaits
    <3> QED BY <3>1, <1>2, <1>5 DEF Atteint
  <2> QED BY <2>1, <2>2
<1>6. \A v \in settled' : v \in Nodes /\ Atteint(v) /\ gScore'[v] = gScore[v]
  <2>1. \A v \in settled' : v \in Nodes /\ Atteint(v)
    BY <1>1 DEF IInv, InvArbre, TypeOK
  <2>2. \A v \in settled' : v \notin Touches(u)
    BY <1>1 DEF Touches, Retenues, Essais
  <2>3. \A m \in Nodes \ Touches(u) : gScore'[m] = gScore[m]
    BY RelacheArbre
  <2> QED BY <2>1, <2>2, <2>3
<1>7. ASSUME NEW e \in Edges, Src[e] \in settled'
      PROVE  /\ gScore'[Tgt[e]] # Infini
             /\ Consistante => gScore'[Tgt[e]] <= gScore'[Src[e]] + Depense(e)
  <2>1. CASE Src[e] \in settled
    <3>1. /\ Atteint(Tgt[e])
          /\ Consistante => gScore[Tgt[e]] <= gScore[Src[e]] + Depense(e)
      BY <1>1, <2>1 DEF IInv, InvFront
    <3>2. /\ gScore'[Tgt[e]] \in Nat /\ gScore[Tgt[e]] \in Nat
          /\ gScore'[Tgt[e]] <= gScore[Tgt[e]]
      BY <3>1, <1>3, <1>5
    <3>3. gScore'[Src[e]] = gScore[Src[e]] /\ gScore[Src[e]] \in Nat
      BY <1>5, <1>6, <1>7
    <3> QED BY <3>1, <3>2, <3>3, <1>3 DEF Infini
  <2>2. CASE Src[e] = u /\ e \in Essais(u)
    <3>1. gScore'[Tgt[e]] \in Nat /\ gScore'[Tgt[e]] <= Cand(u, e)
      BY <1>1, <2>2, RelacheFaits
    <3>2. gScore'[u] = gScore[u]
      BY <1>1, <1>6
    <3> QED BY <3>1, <3>2, <2>2 DEF Cand, Infini
  <2>3. CASE Src[e] = u /\ Tgt[e] \in settled'
    <3> DEFINE b == Tgt[e]
    <3>1. /\ gScore'[b] = gScore[b] /\ gScore[b] \in Nat /\ gScore'[u] = gScore[u]
          /\ b \in Nodes /\ Dist(b) \in Nat /\ Dist(u) \in Nat /\ Depense(e) \in Nat
      BY <1>1, <1>2, <1>3, <1>5, <1>6, <2>3
    <3>2. CASE b = u
      BY <3>1, <3>2, <2>3, <1>1 DEF Infini
    <3>3. CASE b # u
      <4>1. b \in settled
        BY <3>3, <1>1, <2>3
      <4>2. Consistante => /\ gScore[b] + Dist(b) <= gScore[u] + Dist(u)
                           /\ Dist(u) <= Depense(e) + Dist(b)
        BY <4>1, <1>1, <2>3, OrdreDepile
      <4> HIDE DEF b
      <4>3. Consistante => gScore'[b] <= gScore'[u] + Depense(e)
        BY <4>2, <3>1, <1>1
      <4>4. gScore'[b] # Infini
        BY <3>1 DEF Infini
      <4> QED BY <4>3, <4>4, <2>3 DEF b
    <3> QED BY <3>2, <3>3
  <2> QED BY <1>1, <1>7, <2>1, <2>2, <2>3 DEF Essais
<1>8. ASSUME Consistante, NEW v \in settled', NEW o \in pq'
      PROVE  gScore'[v] + Dist(v) <= o.f
  <2>1. gScore[v] + Dist(v) <= gScore[u] + Dist(u)
    <3>1. CASE v \in settled
      BY <3>1, <1>1, <1>8, OrdreDepile
    <3>2. CASE v = u
      BY <3>2, <1>1, <1>2
    <3> QED BY <1>1, <3>1, <3>2
  <2>2. /\ gScore[v] \in Nat /\ Dist(v) \in Nat /\ gScore'[v] = gScore[v]
        /\ Dist(u) \in Nat
    BY <1>1, <1>2, <1>5, <1>6
  <2>3. gScore[u] + Dist(u) <= o.f /\ o.f \in Nat
    <3>1. CASE o \in pq
      <4>1. it.f <= o.f /\ it.f = gScore[u] + Dist(u) /\ o.f \in Nat
        BY <1>1, <3>1, FExact DEF Premier, TypeOK
      <4> QED BY <4>1
    <3>2. CASE o \notin pq
      <4>1. PICK e \in Essais(u) : o = [node |-> Tgt[e],
                                        f |-> Cand(u, e) + Dist(Tgt[e])]
        BY <1>1, <3>2, RelacheFaits
      <4>2. e \in Edges /\ Src[e] = u
        BY DEF Essais
      <4>3. Dist(u) <= Depense(e) + Dist(Tgt[e])
        BY <4>2, <1>1, <1>8, OrdreDepile
      <4>4. /\ o.f = gScore[u] + Depense(e) + Dist(Tgt[e])
            /\ Dist(Tgt[e]) \in Nat /\ Depense(e) \in Nat
        BY <4>1, <4>2, <1>2, <1>3 DEF Cand
      <4> QED BY <4>3, <4>4, <1>1, <2>2
    <3> QED BY <3>1, <3>2
  <2> QED BY <2>1, <2>2, <2>3, <1>1
<1> QED BY <1>4, <1>7, <1>8

LEMMA InvFrontStep == IInv /\ [Next]_vars => InvFront'
<1> SUFFICES ASSUME IInv, [Next]_vars
             PROVE  InvFront'
  OBVIOUS
<1>0. InvFront /\ InvAppel /\ entree' = entree
  BY EntreeFixe DEF IInv
<1>a. (\A m : Dist(m)' = Dist(m)) /\ (\A e : Depense(e)' = Depense(e))
  BY <1>0, EntreeConstante
<1>1. CASE UNCHANGED vars
  BY <1>0, <1>a, <1>1 DEF vars, recherche, InvFront, Atteint, EnBoucle
<1>2. CASE Annuler
  BY <1>0, <1>a, <1>2 DEF Annuler, recherche, InvFront, Atteint, EnBoucle
<1>3. CASE Neutres
  BY <1>0, <1>a, <1>3, NeutreFaits DEF InvFront, Atteint, EnBoucle
<1>4. CASE AppelRecherche
  BY <1>0, <1>4 DEF AppelRecherche, InvAppel, InvFront
<1>5. ASSUME NEW it \in pq, DepilerPerime(it)
      PROVE  InvFront'
  BY <1>0, <1>a, <1>5 DEF DepilerPerime, Continuer, InvFront, Atteint, EnBoucle
<1>6. ASSUME NEW it \in pq, DepilerBut(it)
      PROVE  InvFront'
  BY <1>6 DEF DepilerBut, Continuer, InvFront, EnBoucle
<1>7. ASSUME NEW it \in pq, DepilerPlafond(it)
      PROVE  InvFront'
  BY <1>7 DEF DepilerPlafond, Retourner, InvFront, EnBoucle
<1>8. ASSUME NEW it \in pq, DepilerEtRelacher(it)
      PROVE  InvFront'
  <2>1. entree.to \notin settled'
    BY <1>0, <1>8 DEF DepilerEtRelacher, Fixer, InvFront, EnBoucle
  <2> QED BY <1>0, <1>a, <1>8, <2>1, RelacheFront DEF InvFront, Atteint
<1>9. CASE Remonter
  BY <1>9 DEF Remonter, Continuer, InvFront, EnBoucle
<1> QED BY <1>1, <1>2, <1>3, <1>4, <1>5, <1>6, <1>7, <1>8, <1>9, CasDeNext

\* When the target is popped, Potentiel overshoots no edge.
LEMMA ButAtteint ==
  ASSUME IInv, NEW it \in pq, DepilerBut(it), Consistante,
         NEW e \in Edges
  PROVE  Potentiel(Tgt[e])' <= Potentiel(Src[e])' + Depense(e)
<1> DEFINE to == entree.to
           a == Src[e]
           b == Tgt[e]
           P(m) == IF m \in settled \cup {to} THEN gScore[m] ELSE gScore[to] - Dist(m)
<1>1. /\ TypeOK /\ EnBornes /\ it.node = to /\ Atteint(to) /\ gScore[to] \in Nat
      /\ to \notin settled /\ settled' = settled \cup {to} /\ gScore' = gScore
      /\ entree' = entree /\ etape = "depile" /\ Premier(it) /\ EnBoucle
  BY DepileFaits DEF DepilerBut, Fixer, EnBoucle
<1>2. Potentiel(a)' = P(a) /\ Potentiel(b)' = P(b)
  BY <1>1, EntreeConstante DEF Potentiel
<1>3. /\ a \in Nodes /\ b \in Nodes /\ Dist(a) \in Nat /\ Dist(b) \in Nat
      /\ Depense(e) \in Nat
      /\ gScore[a] \in Nat \cup {Infini} /\ gScore[b] \in Nat \cup {Infini}
  BY <1>1, GrapheAssumption, DistType, DepenseBornee DEF TypeOK
<1>4. /\ Dist(a) <= Depense(e) + Dist(b) /\ Dist(to) = 0
      /\ \A v \in settled : gScore[v] + Dist(v) <= gScore[to]
  BY <1>1, OrdreDepile
<1>5. \A v \in settled : Atteint(v)
  BY DEF IInv, InvArbre
<1>6. SUFFICES P(b) <= P(a) + Depense(e)
  BY <1>2
<1>7. CASE a \in settled
  <2>1. Atteint(b) /\ gScore[b] <= gScore[a] + Depense(e) /\ gScore[a] \in Nat
    BY <1>1, <1>3, <1>5, <1>7 DEF IInv, InvFront, Atteint
  <2>2. CASE b \in settled \cup {to}
    BY <1>7, <2>1, <2>2
  <2>3. CASE b \notin settled \cup {to}
    <3>1. [node |-> b, f |-> gScore[b] + Dist(b)] \in pq
      BY <1>1, <1>3, <2>1, <2>3 DEF IInv, InvFile
    <3>2. it.f <= gScore[b] + Dist(b) /\ it.f = gScore[to] + Dist(to)
      BY <1>1, <3>1, FExact DEF Premier
    <3>3. gScore[b] \in Nat
      BY <1>3, <2>1 DEF Atteint
    <3>4. P(b) = gScore[to] - Dist(b) /\ P(a) = gScore[a]
      BY <1>7, <2>3
    <3>5. gScore[to] <= gScore[b] + Dist(b)
      BY <3>2, <1>4, <1>1
    <3> HIDE DEF P, a, b, to
    <3> QED BY <1>1, <1>3, <2>1, <3>3, <3>4, <3>5
  <2> QED BY <2>2, <2>3
<1>8. CASE a \notin settled
  <2>1. P(a) \in Int /\ gScore[to] - Dist(a) <= P(a)
    BY <1>1, <1>3, <1>4, <1>8
  <2>2. P(b) \in Int /\ P(b) <= gScore[to] - Dist(b)
    <3>1. CASE b \in settled
      <4>1. gScore[b] \in Nat /\ gScore[b] + Dist(b) <= gScore[to]
        BY <3>1, <1>3, <1>4, <1>5 DEF Atteint
      <4> QED BY <3>1, <4>1, <1>1, <1>3
    <3>2. CASE b = to
      BY <3>2, <1>1, <1>3, <1>4
    <3>3. CASE b \notin settled /\ b # to
      BY <3>3, <1>1, <1>3
    <3> QED BY <3>1, <3>2, <3>3
  <2> HIDE DEF P, a, b, to
  <2> QED BY <2>1, <2>2, <1>1, <1>3, <1>4
<1> QED BY <1>7, <1>8

LEMMA InvButStep == IInv /\ [Next]_vars => InvBut'
<1> SUFFICES ASSUME IInv, [Next]_vars
             PROVE  InvBut'
  OBVIOUS
<1>0. InvBut /\ InvAppel /\ entree' = entree
  BY EntreeFixe DEF IInv
<1>a. \A e : Depense(e)' = Depense(e)
  BY <1>0, EntreeConstante
<1>b. ASSUME gScore' = gScore, settled' = settled
      PROVE  \A m : Potentiel(m)' = Potentiel(m)
  BY <1>0, <1>b, Inchange
<1>1. CASE UNCHANGED vars
  BY <1>0, <1>a, <1>b, <1>1 DEF vars, recherche, InvBut
<1>2. CASE Annuler
  BY <1>0, <1>a, <1>b, <1>2 DEF Annuler, recherche, InvBut
<1>3. CASE Neutres
  BY <1>0, <1>a, <1>b, <1>3, NeutreFaits DEF InvBut, InvAppel
<1>4. CASE AppelRecherche
  BY <1>0, <1>4 DEF AppelRecherche, Continuer, InvBut, InvAppel
<1>5. ASSUME NEW it \in pq, DepilerPerime(it)
      PROVE  InvBut'
  BY <1>0, <1>5 DEF DepilerPerime, Continuer, InvBut, InvAppel
<1>6. ASSUME NEW it \in pq, DepilerBut(it)
      PROVE  InvBut'
  <2>1. /\ gScore' = gScore /\ gScore[entree.from] = 0
        /\ settled' = settled \cup {entree.to}
        /\ entree.from # entree.to /\ it.node = entree.to
    BY <1>6, DepileFaits DEF DepilerBut, Fixer
  <2>2. entree.from \in settled
    BY <1>6, <2>1 DEF IInv, InvFront, EnBoucle, DepilerBut
  <2>3. Consistante => \A e \in Edges :
          Potentiel(Tgt[e])' <= Potentiel(Src[e])' + Depense(e)
    BY <1>6, ButAtteint
  <2> QED BY <1>0, <1>a, <2>1, <2>2, <2>3 DEF InvBut
<1>7. ASSUME NEW it \in pq, DepilerPlafond(it)
      PROVE  InvBut'
  BY <1>7 DEF DepilerPlafond, Retourner, InvBut
<1>8. ASSUME NEW it \in pq, DepilerEtRelacher(it)
      PROVE  InvBut'
  BY <1>0, <1>8 DEF DepilerEtRelacher, Continuer, InvBut, InvAppel
<1>9. CASE Remonter
  BY <1>0, <1>a, <1>b, <1>9 DEF Remonter, Continuer, recherche, InvBut
<1> QED BY <1>1, <1>2, <1>3, <1>4, <1>5, <1>6, <1>7, <1>8, <1>9, CasDeNext

LEMMA CoupeStep == IInv /\ [Next]_vars => CoupeSansIssue'
<1> SUFFICES ASSUME IInv, [Next]_vars
             PROVE  CoupeSansIssue'
  OBVIOUS
<1>0. CoupeSansIssue /\ InvAppel /\ entree' = entree /\ (EnBornes' <=> EnBornes)
  BY EntreeFixe, EntreeConstante DEF IInv
<1>1. CASE UNCHANGED vars
  BY <1>0, <1>1 DEF vars, recherche, CoupeSansIssue
<1>2. CASE Annuler
  BY <1>0, <1>2 DEF Annuler, InvAppel, CoupeSansIssue
<1>3. CASE Neutres
  <2>1. CASE etape = "test" /\ pq = {}
    <3>1. /\ EnBornes /\ EnBoucle /\ gScore[entree.from] = 0
          /\ entree.to \notin settled
      BY <2>1 DEF IInv, InvBornes, InvFront, EnBoucle
    <3>2. \A m \in Nodes : Atteint(m) => m \in settled
      BY <2>1, <3>1 DEF IInv, InvFile
    <3>3. entree.from \in settled
      BY <3>1, <3>2 DEF EnBornes, Atteint, Infini
    <3>4. \A e \in Edges : Src[e] \in settled => Tgt[e] \in settled
      BY <3>1, <3>2, GrapheAssumption DEF IInv, InvFront
    <3> QED BY <1>0, <1>3, <3>1, <3>3, <3>4, NeutreFaits DEF CoupeSansIssue
  <2>2. CASE ~(etape = "test" /\ pq = {})
    BY <1>0, <1>3, <2>2, NeutreFaits DEF CoupeSansIssue
  <2> QED BY <2>1, <2>2
<1>4. CASE AppelRecherche
  BY <1>0, <1>4 DEF AppelRecherche, Continuer, InvAppel, CoupeSansIssue
<1>5. ASSUME NEW it \in pq, \/ DepilerPerime(it) \/ DepilerBut(it)
                            \/ DepilerPlafond(it) \/ DepilerEtRelacher(it)
      PROVE  CoupeSansIssue'
  BY <1>0, <1>5
  DEF DepilerPerime, DepilerBut, DepilerPlafond, DepilerEtRelacher, Continuer,
      Retourner, InvAppel, CoupeSansIssue
<1>6. CASE Remonter
  BY <1>0, <1>6 DEF Remonter, Continuer, InvAppel, CoupeSansIssue
<1> QED BY <1>1, <1>2, <1>3, <1>4, <1>5, <1>6, CasDeNext

----------------------------------------------------------------------------
\* The multiples of CtxCheckInterval, between which the context is not looked at.
LEMMA DivMod ==
  ASSUME NEW c \in Int, c > 0, NEW x \in Int
  PROVE  x \div c \in Int /\ x % c \in 0 .. c - 1 /\ x % c = x - c * (x \div c)
OBVIOUS

LEMMA MemeQuotient ==
  ASSUME NEW c \in Int, NEW q \in Int, NEW r \in Int, NEW q2 \in Int, NEW r2 \in Int,
         c * q + r + 1 = c * q2 + r2, r >= 0, r < c, r2 >= 1, r2 < c
  PROVE  q = q2
<1>1. c * q - c * q2 = c * (q - q2) /\ c * q2 - c * q = c * (q2 - q)
  OBVIOUS
<1>2. CASE q - q2 >= 1
  <2>1. c * (q - q2) >= c
    BY <1>2
  <2> QED BY <2>1, <1>1
<1>3. CASE q2 - q >= 1
  <2>1. c * (q2 - q) >= c
    BY <1>3
  <2> QED BY <2>1, <1>1
<1> QED BY <1>2, <1>3

LEMMA MultipleBorne ==
  ASSUME NEW x \in Nat
  PROVE  /\ DernierMultiple(x) \in Int /\ DernierMultiple(x) <= x
         /\ x < DernierMultiple(x) + CtxCheckInterval
         /\ x % CtxCheckInterval = 0 => DernierMultiple(x) = x
<1>1. CtxCheckInterval \in Int /\ CtxCheckInterval > 0
  BY OptionsAssumption
<1>2. x % CtxCheckInterval \in 0 .. CtxCheckInterval - 1
  BY <1>1, DivMod
<1> QED BY <1>1, <1>2 DEF DernierMultiple

LEMMA MultipleSuivant ==
  ASSUME NEW x \in Nat, (x + 1) % CtxCheckInterval # 0
  PROVE  DernierMultiple(x + 1) = DernierMultiple(x)
<1> DEFINE c == CtxCheckInterval
           q == x \div c
           q2 == (x + 1) \div c
<1>0. c \in Int /\ c > 0
  BY OptionsAssumption
<1> HIDE DEF c
<1>1. /\ q \in Int /\ x % c \in 0 .. c - 1 /\ x % c = x - c * q
      /\ q2 \in Int /\ (x + 1) % c \in 0 .. c - 1 /\ (x + 1) % c = x + 1 - c * q2
  BY <1>0, DivMod
<1> HIDE DEF q, q2
<1>2. c * q \in Int /\ c * q2 \in Int /\ (x + 1) % c # 0
  BY <1>0, <1>1 DEF c
<1>3. q = q2
  BY <1>0, <1>1, <1>2, MemeQuotient
<1> QED BY <1>1, <1>2, <1>3 DEF DernierMultiple, c

\* The steps that neither settle nor score, for what they count.
LEMMA NeutreCompte ==
  ASSUME Neutres
  PROVE  /\ exploreAnnule' = exploreAnnule
         /\ \/ /\ etape = "test" /\ etape' = "depile" /\ ~Verifie
               /\ exploredTotal' = exploredTotal
            \/ /\ etape # "retour" /\ etape' = "retour"
               /\ exploredTotal' = exploredTotal + explored'
<1> USE DEF Retourner, Continuer
<1>1. CASE AppelHorsBornes
  BY <1>1 DEF AppelHorsBornes
<1>2. CASE AppelAnnule
  BY <1>2 DEF AppelAnnule
<1>3. CASE AppelTrivial
  BY <1>3 DEF AppelTrivial
<1>4. CASE FileVide
  BY <1>4 DEF FileVide
<1>5. CASE ConstaterAnnulation
  BY <1>5 DEF ConstaterAnnulation
<1>6. CASE Poursuivre
  BY <1>6 DEF Poursuivre
<1>7. CASE FinRemontee
  BY <1>7 DEF FinRemontee
<1> QED BY <1>1, <1>2, <1>3, <1>4, <1>5, <1>6, <1>7 DEF Neutres

\* Before it is expanded a node is within the budget, and its settling comes at
\* most CtxCheckInterval nodes after the cancellation.
LEMMA FixerCompte ==
  ASSUME IInv, InvCompte, etape = "depile",
         NEW it \in pq, it.node \notin settled, Fixer(it.node)
  PROVE  /\ IsFiniteSet(settled') /\ explored' = Cardinality(settled')
         /\ explored' = explored + 1 /\ explored \in Nat /\ exploredTotal = 0
         /\ MaxNodes \in Nat /\ explored <= MaxNodes
         /\ annule => exploreAnnule \in 0 .. explored
                      /\ explored' - exploreAnnule <= CtxCheckInterval
                      /\ DernierMultiple(explored) <= exploreAnnule
<1>1. explored \in Nat /\ issue = "aucune" /\ entree.to \notin settled
  BY DEF IInv, TypeOK, InvAppel, InvFront, EnBoucle
<1>2. MaxNodes \in Nat
  BY OptionsAssumption, EntreeType DEF MaxNodes, IInv
<1>3. explored <= MaxNodes
  BY <1>1, <1>2 DEF InvCompte, Plafond
<1>4. IsFiniteSet(settled') /\ Cardinality(settled') = Cardinality(settled) + 1
  BY FS_AddElement DEF Fixer, InvCompte
<1>5. annule => exploreAnnule \in 0 .. explored /\ DernierMultiple(explored) <= exploreAnnule
  BY <1>1, MultipleBorne DEF InvCompte
<1>6. annule => explored + 1 - exploreAnnule <= CtxCheckInterval
  BY <1>1, <1>5, MultipleBorne, OptionsAssumption
<1> QED BY <1>1, <1>2, <1>3, <1>4, <1>5, <1>6 DEF Fixer, InvCompte

LEMMA InvCompteStep == IInv /\ InvCompte /\ [Next]_vars => InvCompte'
<1> SUFFICES ASSUME IInv, InvCompte, [Next]_vars
             PROVE  InvCompte'
  OBVIOUS
<1>0. entree' = entree /\ explored \in Nat /\ (issue # "aucune" <=> etape = "retour")
  BY EntreeFixe DEF IInv, TypeOK, InvAppel
<1>a. MaxNodes' = MaxNodes
  BY <1>0, EntreeConstante
<1> USE <1>0, <1>a DEF InvCompte, Plafond, ReactiviteAnnulation
<1>1. CASE UNCHANGED vars
  BY <1>1 DEF vars, recherche
<1>2. CASE Annuler
  BY <1>2, OptionsAssumption DEF Annuler, recherche
<1>3. CASE Neutres
  <2>1. CASE etape = "test" /\ etape' = "depile" /\ ~Verifie /\ exploredTotal' = exploredTotal
    <3>1. annule /\ explored # exploreAnnule =>
            DernierMultiple(explored) <= exploreAnnule
      <4> SUFFICES ASSUME annule, explored # exploreAnnule
                   PROVE  DernierMultiple(explored) <= exploreAnnule
        OBVIOUS
      <4>1. explored - 1 \in Nat /\ (explored - 1) + 1 = explored
        <5>1. exploreAnnule \in 0 .. explored
          OBVIOUS
        <5> QED BY <5>1
      <4>2. explored % CtxCheckInterval # 0
        BY <2>1 DEF Verifie
      <4>3. DernierMultiple((explored - 1) + 1) = DernierMultiple(explored - 1)
        BY <4>1, <4>2, MultipleSuivant
      <4>4. DernierMultiple(explored) = DernierMultiple(explored - 1)
        BY <4>1, <4>3
      <4> QED BY <2>1, <4>4
    <3>2. exploreAnnule' = exploreAnnule
      BY <1>3, NeutreCompte
    <3> QED BY <1>3, <2>1, <3>1, <3>2, NeutreFaits
  <2>2. CASE /\ etape # "retour" /\ etape' = "retour"
             /\ exploredTotal' = exploredTotal + explored'
    <3>1. exploreAnnule' = exploreAnnule
      BY <1>3, NeutreCompte
    <3>2. /\ annule' = annule /\ settled' = settled /\ explored' = explored
          /\ exploredTotal' = explored' /\ issue' # "ErrBudgetExceeded"
      BY <1>3, <2>2, NeutreFaits
    <3> QED BY <2>2, <3>1, <3>2
  <2> QED BY <1>3, <2>1, <2>2, NeutreCompte
<1>4. CASE AppelRecherche
  BY <1>4 DEF AppelRecherche, Continuer
<1>5. ASSUME NEW it \in pq, DepilerPerime(it)
      PROVE  InvCompte'
  <2>1. annule /\ explored # exploreAnnule =>
          DernierMultiple(explored - 1) <= exploreAnnule
    <3> SUFFICES ASSUME annule, explored # exploreAnnule
                 PROVE  DernierMultiple(explored - 1) <= exploreAnnule
      OBVIOUS
    <3>1. explored - 1 \in Nat /\ (explored - 1) + 1 = explored
          /\ DernierMultiple(explored) <= exploreAnnule /\ exploreAnnule \in 0 .. explored
      BY <1>5 DEF DepilerPerime
    <3>2. explored % CtxCheckInterval # 0
      BY <3>1, MultipleBorne
    <3>3. DernierMultiple((explored - 1) + 1) = DernierMultiple(explored - 1)
      BY <3>1, <3>2, MultipleSuivant
    <3> QED BY <3>1, <3>3
  <2> QED BY <1>5, <2>1 DEF DepilerPerime, Continuer
<1>6. ASSUME NEW it \in pq, DepilerBut(it)
      PROVE  InvCompte'
  <2>1. /\ etape = "depile" /\ etape' = "remonte" /\ Fixer(it.node)
        /\ it.node \notin settled /\ it.node = entree.to
        /\ annule' = annule /\ exploreAnnule' = exploreAnnule /\ issue' = issue
        /\ exploredTotal' = exploredTotal
    BY <1>6 DEF DepilerBut, Continuer
  <2>2. entree.to \in settled'
    BY <2>1 DEF Fixer
  <2> HIDE DEF Fixer
  <2>3. /\ IsFiniteSet(settled') /\ explored' = Cardinality(settled')
        /\ explored' = explored + 1 /\ exploredTotal = 0
        /\ MaxNodes \in Nat /\ explored <= MaxNodes
        /\ annule => exploreAnnule \in 0 .. explored
                     /\ explored' - exploreAnnule <= CtxCheckInterval
    BY <2>1, FixerCompte
  <2>4. issue' = "aucune"
    BY <2>1
  <2> QED BY <2>1, <2>2, <2>3, <2>4
<1>7. ASSUME NEW it \in pq, DepilerPlafond(it)
      PROVE  InvCompte'
  BY <1>7, FixerCompte DEF DepilerPlafond, Retourner
<1>8. ASSUME NEW it \in pq, DepilerEtRelacher(it)
      PROVE  InvCompte'
  BY <1>8, FixerCompte DEF DepilerEtRelacher, Continuer
<1>9. CASE Remonter
  BY <1>9 DEF Remonter, Continuer, recherche
<1> QED BY <1>1, <1>2, <1>3, <1>4, <1>5, <1>6, <1>7, <1>8, <1>9, CasDeNext

----------------------------------------------------------------------------
\* What rebuild collects.

\* A metre used again costs Reuse times its price, and its price is at least 1.
LEMMA DepenseEtRetour ==
  ASSUME TypeOK, NEW e \in Edges
  PROVE  /\ Long[e] \in Nat /\ Depense(e) \in Nat
         /\ Depense(e) >= Long[e] + (Reuse - 1) * (IF DejaPris(e) THEN Long[e] ELSE 0)
         /\ Neutre => Depense(e) = Long[e] + (Reuse - 1) * (IF DejaPris(e) THEN Long[e] ELSE 0)
<1>1. /\ Cout[entree.w][e] \in Nat /\ Long[e] \in Nat /\ Depense(e) \in Nat
      /\ Cout[entree.w][e] >= Long[e] /\ Reuse \in Nat /\ Reuse >= 1
  BY EntreeType, DepenseBornee, PoidsAssumption, CoutMinimalAssumption
<1>2. \A c, l, r \in Nat : r >= 1 /\ c >= l =>
        c * r >= l + (r - 1) * l /\ l * r = l + (r - 1) * l
  <2> TAKE c, l, r \in Nat
  <2> HAVE r >= 1 /\ c >= l
  <2>1. PICK d \in Nat : c = l + d
    BY c - l \in Nat
  <2>2. c * r = l * r + d * r /\ d * r \in Nat /\ (r - 1) * l = l * r - l /\ l * r \in Nat
    BY <2>1
  <2> QED BY <2>2
<1>3. CASE DejaPris(e)
  <2>1. Depense(e) = Cout[entree.w][e] * Reuse
    BY <1>3 DEF Depense
  <2> QED BY <1>1, <1>2, <1>3, <2>1 DEF Neutre
<1>4. CASE ~DejaPris(e)
  <2>1. Depense(e) = Cout[entree.w][e] /\ (Reuse - 1) * 0 = 0
    BY <1>1, <1>4 DEF Depense
  <2> QED BY <1>1, <1>4, <2>1 DEF Neutre
<1> QED BY <1>3, <1>4

\* An edge put in front of a chain that starts where it ends makes a chain.
LEMMA ChaineProlongee ==
  ASSUME NEW c \in Seq(Edges), NEW e \in Edges, NEW but, NEW ici,
         \A i \in 1 .. Len(c) - 1 : Tgt[c[i]] = Src[c[i + 1]],
         c # <<>> => Src[c[1]] = ici /\ Tgt[c[Len(c)]] = but,
         c = <<>> => ici = but,
         Tgt[e] = ici
  PROVE  LET d == <<e>> \o c IN
           /\ d # <<>> /\ Src[d[1]] = Src[e] /\ Tgt[d[Len(d)]] = but
           /\ \A i \in 1 .. Len(d) - 1 : Tgt[d[i]] = Src[d[i + 1]]
<1> DEFINE d == <<e>> \o c
<1>1. /\ Len(d) = Len(c) + 1 /\ d[1] = e /\ Len(c) \in Nat
      /\ \A i \in 2 .. Len(c) + 1 : d[i] = c[i - 1]
  OBVIOUS
<1>2. d # <<>>
  BY <1>1
<1>3. CASE c = <<>>
  <2>1. Len(d) = 1
    BY <1>1, <1>3
  <2> QED BY <1>1, <1>2, <1>3, <2>1
<1>4. CASE c # <<>>
  <2>1. Len(c) >= 1
    BY <1>4
  <2>2. d[Len(d)] = c[Len(c)] /\ d[2] = c[1]
    BY <1>1, <2>1
  <2>3. ASSUME NEW i \in 1 .. Len(d) - 1
        PROVE  Tgt[d[i]] = Src[d[i + 1]]
    <3>1. CASE i = 1
      BY <3>1, <1>1, <1>4, <2>2
    <3>2. CASE i > 1
      <4>1. i \in 2 .. Len(c) + 1 /\ i + 1 \in 2 .. Len(c) + 1 /\ i - 1 \in 1 .. Len(c) - 1
        BY <3>2, <1>1
      <4>2. d[i] = c[i - 1] /\ d[i + 1] = c[i] /\ (i - 1) + 1 = i
        BY <4>1, <1>1
      <4>3. Tgt[c[i - 1]] = Src[c[(i - 1) + 1]]
        BY <4>1
      <4> QED BY <4>2, <4>3
    <3> QED BY <3>1, <3>2
  <2> QED BY <1>1, <1>2, <1>4, <2>2, <2>3
<1> QED BY <1>3, <1>4

\* rebuild has one more edge: the one that settled the score of its cursor.
LEMMA RemonterRemontee ==
  ASSUME IInv, InvRemontee, Remonter
  PROVE  InvRemontee'
<1> DEFINE e == parentEdge[n]
           p == parentNode[n]
           r == IF DejaPris(e) THEN Long[e] ELSE 0
<1>1. /\ TypeOK /\ n \in Nodes /\ n \in settled /\ n # entree.from
      /\ etape = "remonte" /\ issue = "aucune"
  BY DEF Remonter, IInv, TypeOK, InvArbre, InvAppel
<1>2. /\ e \in Edges /\ Tgt[e] = n /\ Src[e] = p /\ p \in settled /\ p \in Nodes
      /\ gScore[n] = gScore[p] + Depense(e) /\ Atteint(p) /\ Atteint(n)
  BY <1>1 DEF IInv, InvArbre, ArbreParents, TypeOK
<1>3. /\ chemin' = <<e>> \o chemin /\ lengthM' = lengthM + Long[e]
      /\ retracedM' = retracedM + r /\ n' = p
      /\ entree' = entree /\ gScore' = gScore /\ etape' = "remonte" /\ issue' = issue
  BY DEF Remonter, Continuer, recherche
<1>4. /\ chemin \in Seq(Edges) /\ lengthM \in Nat /\ retracedM \in Nat
      /\ gScore[n] \in Nat /\ gScore[p] \in Nat
  BY <1>1, <1>2 DEF TypeOK, Atteint
<1>5. /\ Long[e] \in Nat /\ Depense(e) \in Nat
      /\ Depense(e) >= Long[e] + (Reuse - 1) * r
      /\ Neutre => Depense(e) = Long[e] + (Reuse - 1) * r
  BY <1>1, <1>2, DepenseEtRetour
<1>6. /\ Reuse \in Nat /\ Reuse >= 1 /\ r \in Nat
  BY <1>1, <1>5, EntreeType
<1>7. CheminConnexe'
  <2>1. /\ \A i \in 1 .. Len(chemin) - 1 : Tgt[chemin[i]] = Src[chemin[i + 1]]
        /\ chemin # <<>> => /\ Src[chemin[1]] = n
                            /\ Tgt[chemin[Len(chemin)]] = entree.to
        /\ chemin = <<>> => n = entree.to
    BY <1>1 DEF InvRemontee, CheminConnexe
  <2>2. /\ chemin' # <<>> /\ Src[chemin'[1]] = Src[e]
        /\ Tgt[chemin'[Len(chemin')]] = entree.to
        /\ \A i \in 1 .. Len(chemin') - 1 : Tgt[chemin'[i]] = Src[chemin'[i + 1]]
    <3> HIDE DEF e
    <3> QED BY <1>2, <1>3, <1>4, <2>1, ChaineProlongee
  <2> HIDE DEF e, p
  <2> QED BY <1>1, <1>2, <1>3, <2>2 DEF CheminConnexe
<1>8. /\ Reuse' = Reuse /\ (Neutre' <=> Neutre) /\ (Atteint(entree.to)' <=> Atteint(entree.to))
  BY <1>3 DEF Reuse, Neutre, Atteint
<1>9. /\ Atteint(entree.to) /\ gScore[entree.to] \in Int
      /\ gScore[entree.to] >= gScore[n] + lengthM + (Reuse - 1) * retracedM
      /\ Neutre => gScore[entree.to] = gScore[n] + lengthM + (Reuse - 1) * retracedM
  BY <1>1 DEF InvRemontee, IInv, InvBornes, EnBornes, TypeOK, Infini
<1>10. (Reuse - 1) * (retracedM + r) = (Reuse - 1) * retracedM + (Reuse - 1) * r
  BY <1>4, <1>6
<1>11. (Reuse - 1) * retracedM \in Int /\ (Reuse - 1) * r \in Int
  BY <1>4, <1>6
<1> HIDE DEF e, p, r
<1>13. \A g, gn, gp, d, l, lm, x, y, z \in Int :
         /\ gn = gp + d /\ z = x + y
         => /\ d >= l + y /\ g >= gn + lm + x => g >= gp + (lm + l) + z
            /\ d = l + y /\ g = gn + lm + x => g = gp + (lm + l) + z
  OBVIOUS
<1>14. /\ gScore[n] \in Int /\ gScore[p] \in Int /\ Depense(e) \in Int
       /\ Long[e] \in Int /\ lengthM \in Int
       /\ (Reuse - 1) * (retracedM + r) \in Int
  BY <1>4, <1>5, <1>6
<1>15. gScore[n] = gScore[p] + Depense(e)
  BY <1>2
<1>16. gScore[entree.to] >= gScore[p] + (lengthM + Long[e]) + (Reuse - 1) * (retracedM + r)
  BY <1>5, <1>9, <1>10, <1>11, <1>13, <1>14, <1>15
<1>17. Neutre => gScore[entree.to]
                   = gScore[p] + (lengthM + Long[e]) + (Reuse - 1) * (retracedM + r)
  BY <1>5, <1>9, <1>10, <1>11, <1>13, <1>14, <1>15
<1> QED BY <1>1, <1>3, <1>7, <1>8, <1>9, <1>16, <1>17 DEF InvRemontee

LEMMA InvRemonteeStep == IInv /\ InvRemontee /\ [Next]_vars => InvRemontee'
<1> SUFFICES ASSUME IInv, InvRemontee, [Next]_vars
             PROVE  InvRemontee'
  OBVIOUS
<1>0. /\ entree' = entree /\ TypeOK /\ (issue # "aucune" <=> etape = "retour")
      /\ etape \in Etapes
  BY EntreeFixe DEF IInv, InvAppel, TypeOK
<1>a. Reuse' = Reuse /\ (Neutre' <=> Neutre)
  BY <1>0, EntreeConstante DEF Neutre
<1> USE <1>0, <1>a DEF InvRemontee, CheminConnexe, Atteint
<1>1. CASE UNCHANGED vars
  BY <1>1 DEF vars, recherche, remontee
<1>2. CASE Annuler
  BY <1>2 DEF Annuler, recherche, remontee
<1>3. CASE Neutres
  <2>1. /\ gScore' = gScore /\ n' = n /\ chemin' = chemin
        /\ lengthM' = lengthM /\ retracedM' = retracedM
    BY <1>3, NeutreFaits
  <2>2. CASE etape = "test" /\ etape' = "depile" /\ issue' = issue
    BY <2>1, <2>2
  <2>3. CASE etape' = "retour" /\ issue' \in {"ErrNoPath", "ctx"}
    BY <2>1, <2>3
  <2>4. CASE etape' = "retour" /\ issue' = "ok" /\ entree.from = entree.to
    <3>1. etape \in {"appel", "test", "depile"}
      <4>1. etape # "retour"
        BY <1>3, <2>4, NeutreCompte
      <4>2. etape # "remonte"
        BY <2>4 DEF IInv, InvBornes
      <4> QED BY <1>0, <4>1, <4>2 DEF Etapes
    <3> QED BY <2>1, <2>4, <3>1
  <2>5. CASE /\ etape' = "retour" /\ issue' = "ok"
             /\ etape = "remonte" /\ n = entree.from
    <3>1. entree.from # entree.to
      BY <2>5 DEF IInv, InvBornes
    <3> QED BY <2>1, <2>5, <3>1
  <2> QED BY <1>3, <2>2, <2>3, <2>4, <2>5, NeutreFaits
<1>4. CASE AppelRecherche
  BY <1>4 DEF AppelRecherche, Continuer, remontee
<1>5. ASSUME NEW it \in pq, DepilerPerime(it)
      PROVE  InvRemontee'
  BY <1>5 DEF DepilerPerime, Continuer, remontee
<1>6. ASSUME NEW it \in pq, DepilerBut(it)
      PROVE  InvRemontee'
  <2>1. /\ etape' = "remonte" /\ issue' = issue /\ issue = "aucune" /\ n' = entree.to
        /\ chemin' = chemin /\ chemin = <<>> /\ lengthM' = 0 /\ retracedM' = 0
        /\ gScore' = gScore
    BY <1>6 DEF DepilerBut, Continuer
  <2>2. gScore[entree.to] \in Nat /\ gScore[entree.to] # Infini
    BY <1>6, DepileFaits DEF DepilerBut
  <2>3. Reuse \in Nat /\ (Reuse - 1) * 0 = 0
    BY EntreeType
  <2>4. gScore[entree.to] + 0 + (Reuse - 1) * 0 = gScore[entree.to]
    BY <2>2, <2>3
  <2>5. Len(chemin) = 0
    BY <2>1
  <2> QED BY <2>1, <2>2, <2>4, <2>5
<1>7. ASSUME NEW it \in pq, DepilerPlafond(it)
      PROVE  InvRemontee'
  BY <1>7 DEF DepilerPlafond, Retourner, remontee
<1>8. ASSUME NEW it \in pq, DepilerEtRelacher(it)
      PROVE  InvRemontee'
  BY <1>8 DEF DepilerEtRelacher, Continuer, remontee
<1>9. CASE Remonter
  BY <1>9, RemonterRemontee
<1> QED BY <1>1, <1>2, <1>3, <1>4, <1>5, <1>6, <1>7, <1>8, <1>9, CasDeNext

LEMMA InvRangStep == IInv /\ InvRang /\ [Next]_vars => InvRang'
<1> SUFFICES ASSUME IInv, InvRang, [Next]_vars
             PROVE  InvRang'
  OBVIOUS
<1>0. TypeOK
  BY DEF IInv
<1>1. CASE rang' = rang /\ settled' = settled
  BY <1>1 DEF InvRang
<1>2. ASSUME NEW it \in pq, it.node \in Nodes, Fixer(it.node)
      PROVE  InvRang'
  BY <1>0, <1>2 DEF Fixer, InvRang, TypeOK
<1>3. ASSUME NEW it \in pq, DepilerBut(it) \/ DepilerPlafond(it) \/ DepilerEtRelacher(it)
      PROVE  InvRang'
  BY <1>2, <1>3, DepileFaits DEF DepilerBut, DepilerPlafond, DepilerEtRelacher
<1> QED BY <1>1, <1>3, CasDeNext, NeutreFaits
        DEF vars, recherche, Annuler, AppelRecherche, DepilerPerime, Remonter

----------------------------------------------------------------------------
\* The reference: walks of at most k edges.

\* g is the recursion up to k.
Jusque(g, k, S, a, F) ==
  /\ g \in [0 .. k -> S] /\ g[0] = a
  /\ \A i \in 0 .. k - 1 : g[i + 1] = F[g[i]]

\* A recursion on the naturals defines a function.
LEMMA Recurrence ==
  ASSUME NEW S, NEW a \in S, NEW F \in [S -> S]
  PROVE  \E f \in [Nat -> S] : /\ f[0] = a
                               /\ \A k \in Nat : f[k + 1] = F[f[k]]
<1>1. ASSUME NEW k \in Nat
      PROVE  \E g : Jusque(g, k, S, a, F)
  <2> DEFINE T == {i \in Nat : ~\E g : Jusque(g, i, S, a, F)}
  <2>1. SUFFICES ASSUME T # {}
                 PROVE  FALSE
    OBVIOUS
  <2>2. PICK x \in T : \A y \in T : x <= y
    <3> HIDE DEF T
    <3>1. T \in SUBSET Nat
      BY DEF T
    <3> QED BY <2>1, <3>1, MinNat
  <2>3. x # 0
    <3>1. Jusque([i \in 0 .. 0 |-> a], 0, S, a, F)
      BY DEF Jusque
    <3> QED BY <3>1
  <2>4. x - 1 \in Nat /\ x - 1 \notin T
    BY <2>2, <2>3
  <2>5. PICK g : Jusque(g, x - 1, S, a, F)
    BY <2>4
  <2> DEFINE h == [i \in 0 .. x |-> IF i = x THEN F[g[x - 1]] ELSE g[i]]
  <2>6. \A i \in 0 .. x - 1 : i \in 0 .. x /\ i # x /\ h[i] = g[i] /\ g[i] \in S
    BY <2>4, <2>5 DEF Jusque
  <2>7. x \in 0 .. x /\ x - 1 \in 0 .. x - 1 /\ 0 \in 0 .. x - 1
    BY <2>4
  <2>8. h[x] = F[g[x - 1]] /\ h[x] \in S /\ h[0] = a
    BY <2>5, <2>6, <2>7 DEF Jusque
  <2>9. h \in [0 .. x -> S]
    <3>1. ASSUME NEW i \in 0 .. x
          PROVE  h[i] \in S
      <4>1. i = x \/ i \in 0 .. x - 1
        BY <2>4
      <4> HIDE DEF h
      <4> QED BY <4>1, <2>6, <2>8
    <3>2. \A i \in 0 .. x : (IF i = x THEN F[g[x - 1]] ELSE g[i]) \in S
      BY <3>1
    <3> QED BY <3>2
  <2>10. ASSUME NEW i \in 0 .. x - 1
         PROVE  h[i + 1] = F[h[i]]
    <3>1. CASE i = x - 1
      <4>1. i + 1 = x /\ h[i] = g[x - 1]
        BY <2>4, <2>6, <3>1
      <4> QED BY <2>8, <4>1
    <3>2. CASE i # x - 1
      <4>1. i \in 0 .. (x - 1) - 1 /\ i + 1 \in 0 .. x - 1
        BY <2>4, <3>2
      <4>2. h[i + 1] = g[i + 1] /\ h[i] = g[i]
        BY <4>1, <2>6
      <4> QED BY <4>1, <4>2, <2>5 DEF Jusque
    <3> QED BY <3>1, <3>2
  <2>11. Jusque(h, x, S, a, F)
    <3> HIDE DEF h
    <3> QED BY <2>8, <2>9, <2>10 DEF Jusque
  <2> QED BY <2>11
<1>2. ASSUME NEW j \in Nat, NEW k \in Nat, NEW g, NEW h, Jusque(g, j, S, a, F), Jusque(h, k, S, a, F), j <= k
      PROVE  \A i \in 0 .. j : g[i] = h[i]
  <2> DEFINE T == {i \in 0 .. j : g[i] # h[i]}
  <2>1. SUFFICES ASSUME T # {}
                 PROVE  FALSE
    OBVIOUS
  <2>2. PICK x \in T : \A y \in T : x <= y
    <3> HIDE DEF T
    <3>1. T \in SUBSET Nat
      BY DEF T
    <3> QED BY <2>1, <3>1, MinNat
  <2>3. x \in 0 .. j /\ g[x] # h[x] /\ x # 0
    BY <2>2, <1>2 DEF Jusque
  <2>4. x - 1 \in 0 .. j /\ x - 1 \in 0 .. j - 1 /\ x - 1 \in 0 .. k - 1 /\ (x - 1) + 1 = x
    BY <2>3, <1>2
  <2>5. g[x - 1] = h[x - 1]
    BY <2>2, <2>4
  <2>6. g[(x - 1) + 1] = F[g[x - 1]] /\ h[(x - 1) + 1] = F[h[x - 1]]
    BY <2>4, <1>2 DEF Jusque
  <2> QED BY <2>3, <2>4, <2>5, <2>6
<1> DEFINE G(k) == CHOOSE g : Jusque(g, k, S, a, F)
<1>3. \A k \in Nat : Jusque(G(k), k, S, a, F)
  BY <1>1
<1> HIDE DEF G
<1> DEFINE f == [k \in Nat |-> G(k)[k]]
<1>4. \A k \in Nat : f[k] \in S
  <2> TAKE k \in Nat
  <2>1. Jusque(G(k), k, S, a, F) /\ k \in 0 .. k
    BY <1>3
  <2> QED BY <2>1 DEF Jusque
<1>5. f[0] = a
  <2>1. Jusque(G(0), 0, S, a, F)
    BY <1>3
  <2> QED BY <2>1 DEF Jusque
<1>6. ASSUME NEW k \in Nat
      PROVE  f[k + 1] = F[f[k]]
  <2>1. Jusque(G(k), k, S, a, F) /\ Jusque(G(k + 1), k + 1, S, a, F) /\ k + 1 \in Nat
    BY <1>3
  <2>2. k \in 0 .. k /\ k \in 0 .. (k + 1) - 1 /\ k <= k + 1
    OBVIOUS
  <2>3. G(k)[k] = G(k + 1)[k]
    <3> QED BY <1>2, <2>1, <2>2
  <2>4. G(k + 1)[k + 1] = F[G(k + 1)[k]]
    BY <2>1, <2>2 DEF Jusque
  <2> QED BY <2>1, <2>3, <2>4
<1>7. f \in [Nat -> S]
  BY <1>4
<1> HIDE DEF f
<1> QED BY <1>5, <1>6, <1>7

LEMMA ProlongeesFaits ==
  ASSUME NEW S
  PROVE  /\ S \subseteq Prolongees(S)
         /\ \A e \in Edges, q \in S :
              q[1] = Src[e] => <<Tgt[e], q[2] + Depense(e)>> \in Prolongees(S)
         /\ \A x \in Prolongees(S) : x \in S \/
              \E e \in Edges, q \in S :
                q[1] = Src[e] /\ x = <<Tgt[e], q[2] + Depense(e)>>
<1>1. S \subseteq Prolongees(S)
  BY DEF Prolongees
<1>2. ASSUME NEW e \in Edges, NEW q \in S, q[1] = Src[e]
      PROVE  <<Tgt[e], q[2] + Depense(e)>> \in Prolongees(S)
  <2>1. q \in {r \in S : r[1] = Src[e]}
    BY <1>2
  <2> QED BY <2>1 DEF Prolongees
<1>3. ASSUME NEW x \in Prolongees(S), x \notin S
      PROVE  \E e \in Edges, q \in S :
                q[1] = Src[e] /\ x = <<Tgt[e], q[2] + Depense(e)>>
  <2>1. PICK e \in Edges :
          x \in {<<Tgt[e], q[2] + Depense(e)>> : q \in {r \in S : r[1] = Src[e]}}
    BY <1>3 DEF Prolongees
  <2> QED BY <2>1
<1> QED BY <1>1, <1>2, <1>3

\* Marches is the recursion its definition writes.
LEMMA MarchesFaits ==
  ASSUME TypeOK, entree.from \in Nodes
  PROVE  /\ Marches[0] = {<<entree.from, 0>>}
         /\ \A k \in Nat : Marches[k + 1] = Prolongees(Marches[k])
<1> DEFINE S == SUBSET (Nodes \X Nat)
           F == [s \in S |-> Prolongees(s)]
           a == {<<entree.from, 0>>}
           R(f) == [k \in Nat |-> IF k = 0 THEN a ELSE Prolongees(f[k - 1])]
<1>1. a \in S
  OBVIOUS
<1>2. ASSUME NEW s \in S
      PROVE  Prolongees(s) \in S
  <2>1. ASSUME NEW x \in Prolongees(s)
        PROVE  x \in Nodes \X Nat
    <3>1. CASE x \in s
      BY <3>1
    <3>2. ASSUME NEW e \in Edges, NEW q \in s, x = <<Tgt[e], q[2] + Depense(e)>>
          PROVE  x \in Nodes \X Nat
      <4>1. q \in Nodes \X Nat /\ Depense(e) \in Nat /\ Tgt[e] \in Nodes
        BY DepenseBornee, GrapheAssumption
      <4> QED BY <3>2, <4>1
    <3> QED BY <3>1, <3>2, ProlongeesFaits
  <2> QED BY <2>1
<1>3. F \in [S -> S]
  BY <1>2
<1>4. \E f \in [Nat -> S] : f[0] = a /\ \A k \in Nat : f[k + 1] = F[f[k]]
  <2> HIDE DEF S, F, a
  <2> QED BY <1>1, <1>3, Recurrence
<1>5. PICK f \in [Nat -> S] : f[0] = a /\ \A k \in Nat : f[k + 1] = F[f[k]]
  BY <1>4
<1>6. \A k \in Nat : f[k] = IF k = 0 THEN a ELSE Prolongees(f[k - 1])
  <2> TAKE k \in Nat
  <2>1. CASE k = 0
    BY <1>5, <2>1
  <2>2. CASE k # 0
    <3>1. k - 1 \in Nat /\ (k - 1) + 1 = k
      BY <2>2
    <3>2. f[k - 1] \in S /\ f[(k - 1) + 1] = F[f[k - 1]]
      BY <1>5, <3>1
    <3>3. F[f[k - 1]] = Prolongees(f[k - 1])
      BY <3>2
    <3> QED BY <2>2, <3>1, <3>2, <3>3
  <2> QED BY <2>1, <2>2
<1>7. f = R(f)
  <2>1. f = [k \in Nat |-> f[k]]
    BY <1>5
  <2> HIDE DEF a
  <2> QED BY <1>6, <2>1
<1>8. Marches = CHOOSE g : g = R(g)
  BY DEF Marches
<1>9. Marches = R(Marches)
  <2> HIDE DEF R
  <2> QED BY <1>7, <1>8
<1>10. \A k \in Nat : Marches[k] = IF k = 0 THEN a ELSE Prolongees(Marches[k - 1])
  <2> TAKE k \in Nat
  <2>1. R(Marches)[k] = IF k = 0 THEN a ELSE Prolongees(Marches[k - 1])
    OBVIOUS
  <2> HIDE DEF R
  <2> QED BY <1>9, <2>1
<1>11. ASSUME NEW k \in Nat
       PROVE  Marches[k + 1] = Prolongees(Marches[k])
  <2>1. k + 1 \in Nat /\ k + 1 # 0 /\ (k + 1) - 1 = k
    OBVIOUS
  <2> QED BY <1>10, <2>1
<1> QED BY <1>10, <1>11

\* What holds of the start and of one more edge holds of every walk.
LEMMA MarchesInvariant ==
  ASSUME TypeOK, entree.from \in Nodes, NEW S, <<entree.from, 0>> \in S,
         \A e \in Edges, q \in S :
           q[1] = Src[e] => <<Tgt[e], q[2] + Depense(e)>> \in S,
         NEW k \in Nat
  PROVE  Marches[k] \subseteq S
<1> DEFINE T == {i \in Nat : ~ (Marches[i] \subseteq S)}
<1>1. SUFFICES ASSUME T # {}
               PROVE  FALSE
  OBVIOUS
<1>2. PICK x \in T : \A y \in T : x <= y
  <2>1. T \in SUBSET Nat
    OBVIOUS
  <2> HIDE DEF T
  <2> QED BY <1>1, <2>1, MinNat
<1>3. x \in Nat /\ x # 0
  BY <1>2, MarchesFaits
<1>4. x - 1 \in Nat /\ x - 1 \notin T /\ (x - 1) + 1 = x
  BY <1>2, <1>3
<1>5. Marches[x - 1] \subseteq S /\ Marches[x] = Prolongees(Marches[x - 1])
  <2>1. Marches[(x - 1) + 1] = Prolongees(Marches[x - 1])
    BY <1>4, MarchesFaits
  <2> QED BY <1>4, <2>1
<1>6. Marches[x] \subseteq S
  BY <1>5, ProlongeesFaits
<1> QED BY <1>2, <1>6

LEMMA MarchesCroissent ==
  ASSUME TypeOK, entree.from \in Nodes, NEW j \in Nat, NEW k \in Nat, j <= k
  PROVE  Marches[j] \subseteq Marches[k]
<1> DEFINE T == {i \in Nat : j <= i /\ ~ (Marches[j] \subseteq Marches[i])}
<1>1. SUFFICES ASSUME T # {}
               PROVE  FALSE
  OBVIOUS
<1>2. PICK x \in T : \A y \in T : x <= y
  <2>1. T \in SUBSET Nat
    OBVIOUS
  <2> HIDE DEF T
  <2> QED BY <1>1, <2>1, MinNat
<1>3. x \in Nat /\ x # j /\ j <= x
  BY <1>2
<1>4. x - 1 \in Nat /\ j <= x - 1 /\ x - 1 \notin T /\ (x - 1) + 1 = x
  BY <1>2, <1>3
<1>5. Marches[(x - 1) + 1] = Prolongees(Marches[x - 1])
  BY <1>4, MarchesFaits
<1>6. Marches[j] \subseteq Marches[x - 1] /\ Marches[x] = Prolongees(Marches[x - 1])
  BY <1>4, <1>5
<1> QED BY <1>2, <1>6, ProlongeesFaits

\* The k-th node to be settled is reached, at its score, by fewer than k edges:
\* up the tree of parents, each node was settled before the next.
LEMMA FixeAtteint ==
  ASSUME IInv, InvRang, entree.from \in Nodes, gScore[entree.from] = 0
  PROVE  \A m \in settled : <<m, gScore[m]>> \in Marches[rang[m] - 1]
<1> DEFINE P(m) == <<m, gScore[m]>> \in Marches[rang[m] - 1]
           T == {r \in Nat : \E m \in settled : rang[m] = r /\ ~P(m)}
<1>0. TypeOK /\ \A m \in settled : m \in Nodes /\ rang[m] \in Nat /\ rang[m] >= 1
  BY DEF IInv, TypeOK, InvRang
<1>1. SUFFICES ASSUME T # {}
               PROVE  FALSE
  <2> SUFFICES ASSUME T = {}, NEW m \in settled
               PROVE  P(m)
    OBVIOUS
  <2>1. rang[m] \in Nat /\ rang[m] \notin T
    BY <1>0
  <2> HIDE DEF P
  <2> QED BY <2>1
<1>2. PICK r \in T : \A s \in T : r <= s
  <2>1. T \in SUBSET Nat
    OBVIOUS
  <2> HIDE DEF T
  <2> QED BY <1>1, <2>1, MinNat
<1>3. PICK m \in settled : rang[m] = r /\ ~P(m)
  BY <1>2
<1>4. m # entree.from
  <2> SUFFICES ASSUME m = entree.from
               PROVE  P(m)
    BY <1>3
  <2>1. 0 <= rang[m] - 1 /\ rang[m] - 1 \in Nat
    BY <1>0
  <2>2. Marches[0] \subseteq Marches[rang[m] - 1] /\ Marches[0] = {<<entree.from, 0>>}
    BY <1>0, <2>1, MarchesCroissent, MarchesFaits
  <2> QED BY <2>2
<1> DEFINE e == parentEdge[m]
           p == parentNode[m]
<1>5. /\ e \in Edges /\ Tgt[e] = m /\ Src[e] = p /\ p \in settled
      /\ rang[p] < rang[m] /\ gScore[m] = gScore[p] + Depense(e)
  BY <1>0, <1>4 DEF IInv, InvArbre, ArbreParents
<1>6. rang[p] \in Nat /\ rang[p] >= 1 /\ rang[m] \in Nat
  BY <1>0, <1>5
<1>7. P(p)
  <2> HIDE DEF P, e, p
  <2>1. rang[p] \notin T
    BY <1>2, <1>3, <1>5, <1>6
  <2> QED BY <2>1, <1>5, <1>6
<1> HIDE DEF e, p
<1>8. <<m, gScore[m]>> \in Prolongees(Marches[rang[p] - 1])
  <2> DEFINE q == <<p, gScore[p]>>
  <2>1. q \in Marches[rang[p] - 1] /\ q[1] = Src[e] /\ q[2] = gScore[p]
    BY <1>5, <1>7
  <2>2. <<Tgt[e], q[2] + Depense(e)>> \in Prolongees(Marches[rang[p] - 1])
    <3> HIDE DEF q
    <3> QED BY <1>5, <2>1, ProlongeesFaits
  <2> QED BY <1>5, <2>1, <2>2
<1>9. /\ rang[p] - 1 \in Nat /\ rang[p] \in Nat /\ (rang[p] - 1) + 1 = rang[p]
      /\ rang[m] - 1 \in Nat /\ rang[p] <= rang[m] - 1
  BY <1>5, <1>6
<1>10. Marches[(rang[p] - 1) + 1] = Prolongees(Marches[rang[p] - 1])
  BY <1>0, <1>9, MarchesFaits
<1>11. Marches[rang[p]] \subseteq Marches[rang[m] - 1]
  BY <1>0, <1>9, MarchesCroissent
<1>12. P(m)
  BY <1>8, <1>9, <1>10, <1>11
<1> QED BY <1>3, <1>12

\* No walk costs less than the score of the target of a path that is returned.
LEMMA RienDeMoinsCher ==
  ASSUME IInv, Consistante, issue = "ok", EnBornes, entree.from # entree.to,
         NEW k \in Nat, NEW q \in Marches[k], q[1] = entree.to
  PROVE  gScore[entree.to] <= q[2]
<1>1. /\ TypeOK /\ CertificatOptimal
  BY DEF IInv, InvBut, InvArbre, CertificatOptimal, Potentiel
<1>2. /\ Potentiel(entree.from) = 0 /\ Potentiel(entree.to) = gScore[entree.to]
      /\ Atteint(entree.to)
      /\ \A e \in Edges : Potentiel(Tgt[e]) <= Potentiel(Src[e]) + Depense(e)
  BY <1>1 DEF CertificatOptimal
<1>3. \A m \in Nodes : Potentiel(m) \in Int
  <2> TAKE m \in Nodes
  <2>1. Dist(m) \in Nat /\ gScore[entree.to] \in Nat
    BY <1>1, <1>2, DistType DEF TypeOK, EnBornes, Atteint
  <2>2. gScore[m] \in Int
    BY <1>1 DEF TypeOK, Infini
  <2> QED BY <2>1, <2>2 DEF Potentiel
<1> DEFINE S == {x \in Nodes \X Nat : Potentiel(x[1]) <= x[2]}
<1>4. <<entree.from, 0>> \in S
  BY <1>2 DEF EnBornes
<1>5. ASSUME NEW e \in Edges, NEW x \in S, x[1] = Src[e]
      PROVE  <<Tgt[e], x[2] + Depense(e)>> \in S
  <2>1. /\ x[2] \in Nat /\ Depense(e) \in Nat /\ Tgt[e] \in Nodes /\ Src[e] \in Nodes
        /\ Potentiel(Src[e]) <= x[2]
    BY <1>1, <1>5, DepenseBornee, GrapheAssumption
  <2>2. Potentiel(Tgt[e]) <= x[2] + Depense(e) /\ x[2] + Depense(e) \in Nat
    BY <1>2, <1>3, <2>1
  <2> QED BY <2>1, <2>2
<1>6. q \in S
  <2> HIDE DEF S
  <2>1. entree.from \in Nodes
    BY DEF EnBornes
  <2> QED BY <1>1, <1>4, <1>5, <2>1, MarchesInvariant
<1> QED BY <1>2, <1>6

\* No walk leaves the nodes a search without issue has settled.
LEMMA RienDehors ==
  ASSUME IInv, issue = "ErrNoPath", EnBornes, NEW k \in Nat, NEW q \in Marches[k]
  PROVE  q[1] # entree.to
<1>1. TypeOK /\ CoupeSansIssue
  BY DEF IInv
<1> DEFINE S == {x \in Nodes \X Nat : x[1] \in settled}
<1>2. <<entree.from, 0>> \in S
  BY <1>1 DEF CoupeSansIssue, EnBornes
<1>3. ASSUME NEW e \in Edges, NEW x \in S, x[1] = Src[e]
      PROVE  <<Tgt[e], x[2] + Depense(e)>> \in S
  <2>1. x[2] \in Nat /\ Depense(e) \in Nat /\ Tgt[e] \in Nodes /\ Src[e] \in settled
    BY <1>1, <1>3, DepenseBornee, GrapheAssumption
  <2> QED BY <1>1, <2>1 DEF CoupeSansIssue
<1>4. q \in S
  <2> HIDE DEF S
  <2>1. entree.from \in Nodes
    BY DEF EnBornes
  <2> QED BY <1>1, <1>2, <1>3, <2>1, MarchesInvariant
<1> QED BY <1>1, <1>4 DEF CoupeSansIssue

LEMMA PlusCourt ==
  ASSUME IInv, InvRang, InvCompte, Consistante
  PROVE  PlusCourtChemin
<1> SUFFICES ASSUME etape = "retour", EnBornes, entree.from # entree.to
             PROVE  LET couts == {p[2] : p \in {q \in Marches[Cardinality(Nodes) - 1] :
                                                  q[1] = entree.to}}
                    IN /\ issue = "ok" => /\ gScore[entree.to] \in couts
                                          /\ \A c \in couts : gScore[entree.to] <= c
                       /\ issue = "ErrNoPath" => couts = {}
  BY DEF PlusCourtChemin
<1> DEFINE N == Cardinality(Nodes)
<1>1. TypeOK /\ entree.from \in Nodes
  BY DEF IInv, EnBornes
<1>2. N \in Nat /\ N >= 1
  <2>1. IsFiniteSet(Nodes) /\ Nodes # {}
    BY <1>1, GrapheAssumption
  <2>2. N \in Nat /\ N # 0
    BY <2>1, FS_CardinalityType, FS_EmptySet
  <2> HIDE DEF N
  <2> QED BY <2>2
<1>3. ASSUME issue = "ok"
      PROVE  <<entree.to, gScore[entree.to]>> \in Marches[N - 1]
  <2>1. gScore[entree.from] = 0 /\ entree.to \in settled /\ entree.to \in Nodes
    BY <1>1, <1>3 DEF IInv, InvBut, EnBornes
  <2>2. <<entree.to, gScore[entree.to]>> \in Marches[rang[entree.to] - 1]
    BY <1>1, <2>1, FixeAtteint
  <2>3. rang[entree.to] <= explored /\ rang[entree.to] >= 1 /\ rang[entree.to] \in Nat
    BY <1>1, <2>1 DEF IInv, InvArbre, InvRang, TypeOK
  <2>4. explored <= N /\ explored \in Nat
    <3>1. settled \in SUBSET Nodes /\ IsFiniteSet(Nodes) /\ explored = Cardinality(settled)
      BY <1>1, GrapheAssumption DEF TypeOK, InvCompte
    <3>2. Cardinality(settled) <= Cardinality(Nodes)
      BY <3>1, FS_Subset
    <3> QED BY <1>1, <3>1, <3>2 DEF TypeOK
  <2> HIDE DEF N
  <2>5. rang[entree.to] - 1 \in Nat /\ N - 1 \in Nat /\ rang[entree.to] - 1 <= N - 1
    BY <1>2, <2>3, <2>4
  <2>6. Marches[rang[entree.to] - 1] \subseteq Marches[N - 1]
    BY <1>1, <2>5, MarchesCroissent
  <2> QED BY <2>2, <2>6
<1> DEFINE M == Marches[N - 1]
<1>4. N - 1 \in Nat
  BY <1>2
<1> HIDE DEF N
<1>5. CASE issue = "ok"
  <2>1. gScore[entree.to] \in {p[2] : p \in {q \in M : q[1] = entree.to}}
    <3> DEFINE q == <<entree.to, gScore[entree.to]>>
    <3>1. q \in M /\ q[1] = entree.to /\ q[2] = gScore[entree.to]
      BY <1>3, <1>5
    <3> HIDE DEF q
    <3> QED BY <3>1
  <2>2. \A q \in M : q[1] = entree.to => gScore[entree.to] <= q[2]
    BY <1>4, <1>5, RienDeMoinsCher
  <2> QED BY <1>5, <2>1, <2>2 DEF N
<1>6. CASE issue = "ErrNoPath"
  <2>1. \A q \in M : q[1] # entree.to
    BY <1>4, <1>6, RienDehors
  <2> QED BY <1>6, <2>1 DEF N
<1> QED BY <1>5, <1>6

----------------------------------------------------------------------------
\* The inductive invariant holds of every call of FindPath.
THEOREM Invariant == Spec => []IInv
<1>1. Init => IInv
  BY InitIInv
<1>2. IInv /\ [Next]_vars => IInv'
  BY TypeOKStep, InvBornesStep, InvAppelStep, InvArbreStep, InvFileStep,
     InvFrontStep, InvButStep, CoupeStep
  DEF IInv
<1> QED BY <1>1, <1>2, PTL DEF Spec

\* Every variable keeps its type.
THEOREM TypeCorrect == Spec => []TypeOK
<1>1. IInv => TypeOK
  BY DEF IInv
<1> QED BY <1>1, Invariant, PTL

\* The parent arrays are a tree, whatever the lengths and the heuristic.
THEOREM ArbreCorrect == Spec => []ArbreParents
<1>1. IInv => ArbreParents
  BY DEF IInv, InvArbre
<1> QED BY <1>1, Invariant, PTL

\* rebuild always moves to a node settled strictly earlier: it terminates.
THEOREM RemonteeCorrecte == Spec => RemonteeProgresse
<1>1. IInv /\ [Next]_vars => [chemin' # chemin => rang[n'] < rang[n]]_vars
  <2> SUFFICES ASSUME IInv, [Next]_vars, chemin' # chemin
               PROVE  rang[n'] < rang[n]
    OBVIOUS
  <2>1. Remonter
    BY CasDeNext, NeutreFaits
    DEF vars, remontee, Annuler, AppelRecherche, DepilerPerime, DepilerBut,
        DepilerPlafond, DepilerEtRelacher
  <2>2. n \in settled /\ n \in Nodes /\ n # entree.from /\ n' = parentNode[n]
    BY <2>1 DEF Remonter, IInv, InvArbre, TypeOK
  <2> QED BY <2>2 DEF IInv, InvArbre, ArbreParents
<1> QED BY <1>1, Invariant, PTL DEF Spec, RemonteeProgresse

\* A path that is returned has the least cost, if the heuristic is consistent.
THEOREM Optimalite == Spec => []CertificatOptimal
<1>1. IInv => CertificatOptimal
  BY DEF IInv, InvBut, InvArbre, CertificatOptimal, Potentiel
<1> QED BY <1>1, Invariant, PTL

\* ErrNoPath is returned only when a cut separates the two nodes.
THEOREM SansIssueCorrect == Spec => []CoupeSansIssue
<1>1. IInv => CoupeSansIssue
  BY DEF IInv
<1> QED BY <1>1, Invariant, PTL

\* Each settled node is counted once, whatever happens to the context.
LEMMA CompteInvariant == Spec => []InvCompte
<1>1. Init => InvCompte
  <2> SUFFICES ASSUME Init
               PROVE  InvCompte
    OBVIOUS
  <2>1. MaxNodes \in Nat /\ MaxNodes >= 1
    BY InitIInv, EntreeType DEF IInv
  <2>2. IsFiniteSet(settled) /\ Cardinality(settled) = 0
    BY FS_EmptySet DEF Init
  <2> QED BY <2>1, <2>2 DEF Init, InvCompte, Plafond
<1>2. IInv /\ InvCompte /\ [Next]_vars => InvCompte'
  BY InvCompteStep
<1> QED BY <1>1, <1>2, Invariant, PTL DEF Spec

\* What a call settles is capped by MaxNodes (astar.go:139), stops soon after
\* its context (astar.go:120), and is counted exactly (astar.go:84).
THEOREM CompteCorrect == Spec => []CompteJuste
<1>1. IInv /\ InvCompte => CompteJuste
  BY DEF InvCompte, CompteJuste, CompteExact, Plafond, ReactiviteAnnulation
<1> QED BY <1>1, CompteInvariant, Invariant, PTL

LEMMA InitRemontee == Init => InvRemontee /\ InvRang
<1> SUFFICES ASSUME Init
             PROVE  InvRemontee /\ InvRang
  OBVIOUS
<1>1. Len(chemin) = 0
  BY DEF Init
<1> QED BY <1>1 DEF Init, InvRemontee, InvRang, CheminConnexe

\* What rebuild returns is a walk from the start to the target, and its length
\* and retraced length are those its cost was made of, for any heuristic.
THEOREM RetourCorrect == Spec => [](CheminConnexe /\ CoutEtRetour)
<1>1. IInv /\ InvRemontee => CheminConnexe /\ CoutEtRetour
  <2> SUFFICES ASSUME IInv, InvRemontee
               PROVE  CheminConnexe /\ CoutEtRetour
    OBVIOUS
  <2>1. CheminConnexe
    BY DEF InvRemontee
  <2>2. ASSUME issue = "ok", entree.from # entree.to
        PROVE  gScore[n] = 0 /\ lengthM \in Nat /\ (Reuse - 1) * retracedM \in Int
    <3>1. n = entree.from /\ gScore[entree.from] = 0
      BY <2>1, <2>2 DEF CheminConnexe, IInv, InvBut
    <3>2. Reuse \in Nat /\ lengthM \in Nat /\ retracedM \in Nat
      BY EntreeType DEF IInv, TypeOK
    <3> QED BY <3>1, <3>2
  <2> QED BY <2>1, <2>2 DEF InvRemontee, CoutEtRetour
<1>2. Spec => []InvRemontee
  BY InitRemontee, InvRemonteeStep, Invariant, PTL DEF Spec
<1> QED BY <1>1, <1>2, Invariant, PTL

\* What a caller of FindPath is given, under a consistent heuristic: a walk
\* without a gap that no walk beats, or ErrNoPath when there is none.
THEOREM CheminCorrect == Spec => [](Consistante => CheminRendu)
<1>1. Spec => []InvRang
  BY InitRemontee, InvRangStep, Invariant, PTL DEF Spec
<1>2. IInv /\ InvRang /\ InvCompte /\ CheminConnexe /\ CoutEtRetour
        => (Consistante => CheminRendu)
  BY PlusCourt DEF CheminRendu
<1> QED BY <1>1, <1>2, Invariant, CompteInvariant, RetourCorrect, PTL
=============================================================================
