-------------------------- MODULE GenerateurPreuve --------------------------
(***************************************************************************)
(* Theorems about Generateur, for any number of directions, any limit on   *)
(* the goroutines and any terrain; and about Direction, for any network    *)
(* any bounds of the bisection and, for Converge, any as fine as the code. *)
(***************************************************************************)
EXTENDS Generateur, Direction, TLAPS, WellFoundedInduction, FiniteSetTheorems, FunctionTheorems

LEMMA TerrainFaits ==
  ASSUME TypeOK, NEW i \in Candidates
  PROVE  terrain[i].appels \in Nat \ {0} /\ terrain[i].trouve \in BOOLEAN
BY TerrainsAssumption DEF TypeOK, Direction

LEMMA InitIInv == Init => IInv
<1> SUFFICES ASSUME Init
             PROVE  IInv
  OBVIOUS
<1>1. /\ etape = "debut" /\ ctx = "nil" /\ gctx = "nil" /\ errGroupe = "nil" /\ issue = "aucune"
      /\ prochain = 1 /\ found = {} /\ dropped = 0
  BY DEF Init
<1>2. /\ etat = [i \in Candidates |-> "absent"]
      /\ reste = [i \in Candidates |-> terrain[i].appels]
      /\ terrain \in Terrains /\ enZone \in BOOLEAN
  BY DEF Init
<1>a. \A i \in Candidates : terrain[i].appels \in Nat \ {0}
  BY <1>2, TerrainsAssumption DEF Direction
<1>b. /\ etat \in [Candidates -> Etats]
      /\ \A i \in Candidates : etat[i] = "absent" /\ reste[i] > 0
      /\ reste \in [Candidates -> Nat]
  BY <1>2, <1>a DEF Etats
<1>3. TypeOK
  <2>1. prochain \in 1 .. NumCandidates + 1
    BY <1>1, TaillesAssumption
  <2> QED BY <1>1, <1>2, <1>b, <2>1 DEF TypeOK
<1>4. Explorees = {} /\ Cardinality(Explorees) = 0
  <2>1. Explorees = {}
    BY <1>b DEF Explorees, SansIssue
  <2> QED BY <2>1, FS_EmptySet
<1>5. InvContexte /\ InvDirections /\ InvPertes
  BY <1>1, <1>b, <1>4 DEF InvContexte, InvDirections, InvPertes
<1>c. InvEtapes
  <2>1. \A i \in Candidates : i >= prochain
    BY <1>1 DEF Candidates
  <2> QED BY <1>1, <1>b, <2>1 DEF InvEtapes
<1>6. InvRetour /\ ErreurDuContexte /\ AucunOrphelin
  BY <1>1 DEF InvRetour, ErreurDuContexte, AucunOrphelin, Fins
<1>7. ReponseComplete
  <2>1. sortie = <<>>
    BY DEF Init
  <2> QED BY <1>1, <2>1 DEF ReponseComplete
<1> QED BY <1>3, <1>5, <1>c, <1>6, <1>7 DEF IInv

\* The part of the invariant that is about the answer is not disturbed by a
\* step that does not return.
LEMMA SansRetour ==
  ASSUME IInv, etape # "retour", etape' # "retour", issue' = issue, sortie' = sortie
  PROVE  InvRetour' /\ ReponseComplete' /\ ErreurDuContexte' /\ AucunOrphelin'
BY DEF IInv, InvEtapes, InvRetour, ReponseComplete, ErreurDuContexte, AucunOrphelin, Fins

\* A goroutine is done: what becomes of the two accounts, the loops found and
\* the directions dropped.
LEMMA ConclureIInv ==
  ASSUME IInv, NEW i \in Candidates, Conclure(i)
  PROVE  IInv'
<1>0. /\ TypeOK /\ InvContexte /\ InvEtapes /\ InvDirections /\ InvPertes
      /\ AucunOrphelin
  BY DEF IInv
<1>1. /\ etat' = [etat EXCEPT ![i] = "fini"]
      /\ UNCHANGED <<etape, contexte, ctx, gctx, prochain, reste, sortie, issue>>
      /\ etat[i] \in {"trouve", "vide", "coupe"}
  BY DEF Conclure, Ecrire, Echouer, Abandonner
<1>2. etape # "retour" /\ etape' # "retour"
  BY <1>0, <1>1 DEF AucunOrphelin, Actifs
<1>3. \/ Ecrire(i) \/ Echouer(i) \/ Abandonner(i)
  BY DEF Conclure
<1>4. /\ etat'[i] = "fini" /\ etat[i] # "fini"
      /\ \A j \in Candidates : j # i => etat'[j] = etat[j]
      /\ terrain' = terrain /\ enZone' = enZone
  BY <1>0, <1>1 DEF TypeOK, contexte
<1>5. Explorees' = IF terrain[i].trouve THEN Explorees ELSE Explorees \cup {i}
  BY <1>4, <1>0, TerrainFaits DEF Explorees, SansIssue
<1>d. dropped \in Nat /\ found \subseteq Candidates /\ errGroupe \in Fins \cup {"nil"}
      /\ gctx \in Fins \cup {"nil"}
  BY <1>0 DEF TypeOK
<1>e. TypeOK' <=> /\ dropped' \in Nat /\ found' \subseteq Candidates
                  /\ errGroupe' \in Fins \cup {"nil"}
  <2>1. etat' \in [Candidates -> Etats]
    BY <1>0, <1>1 DEF TypeOK, Etats
  <2> QED BY <1>0, <1>1, <1>4, <2>1 DEF TypeOK
<1>6. i \notin Explorees /\ IsFiniteSet(Explorees) /\ Cardinality(Explorees) \in Nat
  <2>1. IsFiniteSet(Candidates)
    BY FS_Interval, TaillesAssumption DEF Candidates
  <2>2. Explorees \subseteq Candidates /\ i \notin Explorees
    BY <1>4 DEF Explorees, SansIssue
  <2> QED BY <2>1, <2>2, FS_Subset, FS_CardinalityType
<1>7. Cardinality(Explorees') = IF terrain[i].trouve THEN Cardinality(Explorees)
                                ELSE Cardinality(Explorees) + 1
  BY <1>5, <1>6, FS_AddElement
<1>8. terrain[i].trouve \in BOOLEAN
  BY <1>0, TerrainFaits
<1>9. InvRetour' /\ ReponseComplete' /\ ErreurDuContexte' /\ AucunOrphelin'
  BY <1>1, <1>2, SansRetour
<1>10. InvEtapes'
  <2>1. ~(i >= prochain)
    <3>1. etat[i] = "absent" <=> i >= prochain
      BY <1>0, <1>2 DEF InvEtapes
    <3> QED BY <1>1, <3>1
  <2>2. etape' = etape /\ prochain' = prochain /\ issue' = issue
    BY <1>1
  <2>3. \A j \in Candidates : etat'[j] = "absent" <=> j >= prochain
    <3>1. \A j \in Candidates : etat[j] = "absent" <=> j >= prochain
      BY <1>0, <1>2 DEF InvEtapes
    <3> QED BY <1>4, <2>1, <3>1
  <2>4. etape # "debut"
    <3>1. etape = "debut" => etat[i] = "absent"
      BY <1>0 DEF InvEtapes, Candidates
    <3> QED BY <1>1, <3>1
  <2> QED BY <1>0, <1>2, <2>2, <2>3, <2>4 DEF InvEtapes
<1>11. CASE Ecrire(i)
  <2>1. /\ etat[i] = "trouve" /\ found' = found \cup {i}
        /\ errGroupe' = errGroupe /\ dropped' = dropped /\ terrain[i].trouve
    BY <1>0, <1>11 DEF Ecrire, InvDirections
  <2>2. TypeOK'
    BY <1>d, <1>e, <2>1
  <2>3. InvContexte' /\ InvDirections'
    BY <1>0, <1>1, <1>4, <2>1 DEF InvContexte, InvDirections
  <2>4. InvPertes'
    BY <1>0, <1>7, <2>1 DEF InvPertes
  <2> QED BY <1>9, <1>10, <2>2, <2>3, <2>4 DEF IInv
<1>12. CASE Echouer(i)
  <2>1. /\ gctx # "nil" /\ found' = found /\ dropped' = dropped
        /\ errGroupe' = IF errGroupe = "nil" THEN gctx ELSE errGroupe
        /\ etat[i] \in {"vide", "coupe"}
    BY <1>12 DEF Echouer
  <2>2. errGroupe' # "nil" /\ errGroupe' = gctx
    BY <1>0, <2>1 DEF InvContexte
  <2>3. TypeOK'
    BY <1>d, <1>e, <2>1, <2>2
  <2>4. InvContexte' /\ InvDirections'
    BY <1>0, <1>1, <1>4, <2>1, <2>2 DEF InvContexte, InvDirections
  <2>5. InvPertes'
    BY <1>0, <1>6, <1>7, <1>8, <1>d, <2>1, <2>2 DEF InvPertes
  <2> QED BY <1>9, <1>10, <2>3, <2>4, <2>5 DEF IInv
<1>13. CASE Abandonner(i)
  <2>1. /\ gctx = "nil" /\ found' = found /\ errGroupe' = errGroupe
        /\ dropped' = dropped + 1 /\ etat[i] = "vide" /\ ~terrain[i].trouve
    BY <1>0, <1>13 DEF Abandonner, InvContexte, InvDirections
  <2>2. TypeOK'
    BY <1>d, <1>e, <2>1
  <2>3. InvContexte' /\ InvDirections'
    BY <1>0, <1>1, <1>4, <2>1 DEF InvContexte, InvDirections
  <2>4. InvPertes'
    BY <1>0, <1>6, <1>7, <1>d, <2>1 DEF InvPertes
  <2> QED BY <1>9, <1>10, <2>2, <2>3, <2>4 DEF IInv
<1> QED BY <1>3, <1>11, <1>12, <1>13

\* A goroutine goes on, without concluding.
LEMMA AvancerIInv ==
  ASSUME IInv, NEW i \in Candidates, Entrer(i) \/ Aboutir(i) \/ Couper(i)
  PROVE  IInv'
<1>0. /\ TypeOK /\ InvContexte /\ InvEtapes /\ InvDirections /\ InvPertes
      /\ AucunOrphelin
  BY DEF IInv
<1> PICK s \in Etats : etat' = [etat EXCEPT ![i] = s]
                       /\ s \in {"entre", "cherche", "trouve", "vide", "coupe"}
  BY DEF Entrer, Aboutir, Couper, Etats
<1>1. /\ UNCHANGED <<etape, contexte, ctx, gctx, prochain, errGroupe, found,
                     dropped, sortie, issue>>
      /\ etat[i] \in {"entre", "cherche"}
  BY DEF Entrer, Aboutir, Couper
<1>2. /\ etat'[i] = s /\ \A j \in Candidates : j # i => etat'[j] = etat[j]
      /\ terrain' = terrain /\ enZone' = enZone
  BY <1>0, <1>1 DEF TypeOK, contexte
<1>3. etape # "retour" /\ etape' # "retour"
  BY <1>0, <1>1 DEF AucunOrphelin, Actifs
<1>4. /\ reste' \in [Candidates -> Nat]
      /\ \A j \in Candidates : j # i => reste'[j] = reste[j]
      /\ s \in {"entre", "cherche"} => reste'[i] > 0
      /\ s = "trouve" => terrain[i].trouve
      /\ s = "vide" => ~terrain[i].trouve
      /\ s = "coupe" => gctx # "nil"
  <2>0. reste \in [Candidates -> Nat] /\ reste[i] \in Nat /\ reste[i] > 0
    BY <1>0, <1>1 DEF TypeOK, InvDirections
  <2>1. CASE Entrer(i)
    <3>1. reste' = reste /\ s = IF gctx # "nil" THEN "coupe" ELSE "cherche"
      BY <1>0, <1>2, <2>1 DEF Entrer, TypeOK
    <3> QED BY <2>0, <3>1
  <2>2. CASE Aboutir(i)
    <3>1. /\ reste' = [reste EXCEPT ![i] = @ - 1]
          /\ s = IF reste[i] > 1 THEN "entre"
                 ELSE IF terrain[i].trouve THEN "trouve" ELSE "vide"
      BY <1>0, <1>2, <2>2 DEF Aboutir, TypeOK
    <3> QED BY <2>0, <3>1
  <2>3. CASE Couper(i)
    <3>1. reste' = reste /\ s = "coupe" /\ gctx # "nil"
      BY <1>0, <1>2, <2>3 DEF Couper, TypeOK
    <3> QED BY <2>0, <3>1
  <2> QED BY <2>1, <2>2, <2>3
<1>5. TypeOK'
  BY <1>0, <1>1, <1>2, <1>4 DEF TypeOK
<1>6. InvContexte' /\ InvDirections'
  BY <1>0, <1>1, <1>2, <1>4 DEF InvContexte, InvDirections
<1>7. InvEtapes'
  <2>1. ~(i >= prochain)
    <3>1. etat[i] = "absent" <=> i >= prochain
      BY <1>0, <1>3 DEF InvEtapes
    <3> QED BY <1>1, <3>1
  <2>2. \A j \in Candidates : etat'[j] = "absent" <=> j >= prochain
    <3>1. \A j \in Candidates : etat[j] = "absent" <=> j >= prochain
      BY <1>0, <1>3 DEF InvEtapes
    <3> QED BY <1>2, <2>1, <3>1
  <2>3. etape # "debut"
    <3>1. etape = "debut" => etat[i] = "absent"
      BY <1>0 DEF InvEtapes, Candidates
    <3> QED BY <1>1, <3>1
  <2> QED BY <1>0, <1>1, <1>3, <2>2, <2>3 DEF InvEtapes
<1>8. InvPertes'
  <2>1. Explorees' = Explorees
    BY <1>1, <1>2 DEF Explorees, SansIssue
  <2> QED BY <1>0, <1>1, <2>1 DEF InvPertes
<1> QED BY <1>1, <1>3, <1>5, <1>6, <1>7, <1>8, SansRetour DEF IInv

LEMMA NextIInv == IInv /\ [Next]_vars => IInv'
<1> SUFFICES ASSUME IInv, [Next]_vars
             PROVE  IInv'
  OBVIOUS
<1>0. /\ TypeOK /\ InvContexte /\ InvEtapes /\ InvDirections /\ InvPertes
      /\ InvRetour /\ ReponseComplete /\ ErreurDuContexte /\ AucunOrphelin
  BY DEF IInv
<1> USE DEF contexte
<1>1. CASE UNCHANGED vars
  <2>1. Explorees' = Explorees
    BY <1>1 DEF vars, Explorees, SansIssue
  <2>2. TypeOK' /\ InvContexte' /\ InvEtapes' /\ InvDirections' /\ InvPertes'
    BY <1>0, <1>1, <2>1
       DEF vars, TypeOK, InvContexte, InvEtapes, InvDirections, InvPertes
  <2>3. InvRetour' /\ ErreurDuContexte' /\ AucunOrphelin'
    BY <1>0, <1>1 DEF vars, InvRetour, ErreurDuContexte, AucunOrphelin, Actifs
  <2>4. ReponseComplete'
    BY <1>0, <1>1 DEF vars, ReponseComplete, Propositions, Collecter, Issues, SansIssue
  <2> QED BY <2>2, <2>3, <2>4 DEF IInv
<1>2. ASSUME NEW cause \in Fins, FinirContexte(cause)
      PROVE  IInv'
  <2>1. /\ ctx = "nil" /\ ctx' = cause /\ cause # "nil" /\ etape # "retour"
        /\ UNCHANGED <<etape, enZone, terrain, gctx, prochain, etat, reste,
                       errGroupe, found, dropped, sortie, issue>>
    BY <1>2 DEF FinirContexte, Fins
  <2>2. TypeOK' /\ InvEtapes' /\ InvDirections'
    BY <1>0, <1>2, <2>1 DEF TypeOK, InvEtapes, InvDirections
  <2>3. InvContexte'
    BY <1>0, <2>1 DEF InvContexte
  <2>4. InvPertes'
    BY <1>0, <2>1 DEF InvPertes, Explorees, SansIssue
  <2> QED BY <2>1, <2>2, <2>3, <2>4, SansRetour DEF IInv
<1>3. CASE Propager
  <2>1. /\ ctx # "nil" /\ gctx = "nil" /\ gctx' = ctx /\ etape \in {"lance", "attend"}
        /\ UNCHANGED <<etape, enZone, terrain, ctx, prochain, etat, reste,
                       errGroupe, found, dropped, sortie, issue>>
    BY <1>3 DEF Propager
  <2>2. errGroupe = "nil"
    BY <1>0, <2>1 DEF InvContexte
  <2>3. TypeOK' /\ InvEtapes' /\ InvDirections' /\ InvContexte'
    BY <1>0, <2>1, <2>2 DEF TypeOK, InvEtapes, InvDirections, InvContexte
  <2>4. InvPertes'
    BY <1>0, <2>1 DEF InvPertes, Explorees, SansIssue
  <2> QED BY <2>1, <2>3, <2>4, SansRetour DEF IInv
<1>4. CASE RefuserCtx \/ HorsZone
  <2>1. /\ etape = "debut" /\ etape' = "retour" /\ sortie' = <<>>
        /\ \/ issue' = ctx /\ ctx \in Fins
           \/ issue' = "ErrStartOutOfRange"
        /\ UNCHANGED <<enZone, terrain, ctx, gctx, prochain, etat, reste,
                       errGroupe, found, dropped>>
    BY <1>0, <1>4 DEF RefuserCtx, HorsZone, Rendre, TypeOK
  <2>2. TypeOK' /\ InvContexte' /\ InvDirections'
    BY <1>0, <2>1 DEF TypeOK, InvContexte, InvDirections
  <2>3. InvEtapes'
    BY <1>0, <2>1 DEF InvEtapes, Fins
  <2>4. InvPertes'
    BY <1>0, <2>1 DEF InvPertes, Explorees, SansIssue
  <2>5. InvRetour' /\ ReponseComplete' /\ ErreurDuContexte'
    BY <2>1 DEF InvRetour, ReponseComplete, ErreurDuContexte, Fins
  <2>6. AucunOrphelin'
    <3>1. \A i \in Candidates : etat[i] = "absent"
      BY <1>0, <2>1 DEF InvEtapes, Candidates
    <3> QED BY <2>1, <3>1 DEF AucunOrphelin, Actifs
  <2> QED BY <2>2, <2>3, <2>4, <2>5, <2>6 DEF IInv
<1>5. CASE Commencer
  <2>1. /\ etape = "debut" /\ etape' = "lance"
        /\ UNCHANGED <<enZone, terrain, ctx, gctx, prochain, etat, reste,
                       errGroupe, found, dropped, sortie, issue>>
    BY <1>5 DEF Commencer
  <2>2. TypeOK' /\ InvContexte' /\ InvDirections' /\ InvEtapes'
    BY <1>0, <2>1, TaillesAssumption
       DEF TypeOK, InvContexte, InvDirections, InvEtapes
  <2>3. InvPertes'
    BY <1>0, <2>1 DEF InvPertes, Explorees, SansIssue
  <2> QED BY <2>1, <2>2, <2>3, SansRetour DEF IInv
<1>6. CASE Lancer
  <2>1. /\ etape = "lance" /\ etat' = [etat EXCEPT ![prochain] = "entre"]
        /\ prochain' = prochain + 1
        /\ etape' = IF prochain = NumCandidates THEN "attend" ELSE "lance"
        /\ UNCHANGED <<enZone, terrain, ctx, gctx, reste, errGroupe, found,
                       dropped, sortie, issue>>
    BY <1>6 DEF Lancer
  <2>2. prochain \in Candidates /\ prochain <= NumCandidates
        /\ etat[prochain] = "absent"
    BY <1>0, <2>1, TaillesAssumption DEF InvEtapes, TypeOK, Candidates
  <2>3. /\ etat'[prochain] = "entre"
        /\ \A i \in Candidates : i # prochain => etat'[i] = etat[i]
    BY <1>0, <2>1, <2>2 DEF TypeOK
  <2>4. TypeOK'
    BY <1>0, <2>1, <2>2, TaillesAssumption DEF TypeOK, Etats
  <2>5. InvContexte' /\ InvDirections'
    BY <1>0, <2>1, <2>2, <2>3 DEF InvContexte, InvDirections
  <2>6. InvEtapes'
    BY <1>0, <2>1, <2>2, <2>3, TaillesAssumption DEF InvEtapes, TypeOK, Candidates
  <2>7. Explorees' = Explorees
    BY <2>1, <2>2, <2>3 DEF Explorees, SansIssue
  <2>8. InvPertes'
    BY <1>0, <2>1, <2>7 DEF InvPertes
  <2> QED BY <2>1, <2>4, <2>5, <2>6, <2>8, SansRetour DEF IInv
<1>7. CASE Attendre
  <2>1. /\ etape = "attend" /\ etape' = "retour" /\ Actifs = {}
        /\ UNCHANGED <<enZone, terrain, ctx, gctx, prochain, etat, reste,
                       errGroupe, found, dropped>>
        /\ \/ errGroupe # "nil" /\ issue' = errGroupe /\ sortie' = <<>>
           \/ errGroupe = "nil" /\ found = {} /\ issue' = "ErrNoLoopFound" /\ sortie' = <<>>
           \/ errGroupe = "nil" /\ found # {} /\ issue' = "ok" /\ sortie' = Propositions(found)
    BY <1>7 DEF Attendre, Rendre
  <2>2. \A i \in Candidates : etat[i] = "fini"
    <3>1. \A i \in Candidates : etat[i] # "absent"
      BY <1>0, <2>1, TaillesAssumption DEF InvEtapes, Candidates
    <3> QED BY <2>1, <3>1 DEF Actifs
  <2>3. errGroupe = "nil" => found = Issues
    <3>1. \A i \in found : i \in Candidates /\ terrain[i].trouve
      BY <1>0 DEF InvDirections, TypeOK
    <3>2. errGroupe = "nil" => \A i \in Candidates : terrain[i].trouve => i \in found
      BY <1>0, <2>2 DEF InvDirections
    <3> QED BY <3>1, <3>2 DEF Issues, SansIssue
  <2>4. TypeOK' /\ InvContexte' /\ InvDirections'
    BY <1>0, <2>1 DEF TypeOK, InvContexte, InvDirections
  <2>5. InvEtapes'
    <3>1. errGroupe # "aucune"
      BY <1>0 DEF TypeOK, Fins
    <3> QED BY <2>1, <3>1 DEF InvEtapes
  <2>6. InvPertes'
    BY <1>0, <2>1 DEF InvPertes, Explorees, SansIssue
  <2>7. InvRetour' /\ ErreurDuContexte'
    BY <1>0, <2>1, <2>2 DEF InvRetour, ErreurDuContexte, InvContexte, TypeOK, Fins
  <2>8. ReponseComplete'
    <3>1. Issues' = Issues /\ Propositions(Issues)' = Propositions(Issues)
      BY <2>1 DEF Issues, SansIssue, Propositions, Collecter
    <3>2. errGroupe \in Fins \cup {"nil"} /\ "ok" \notin Fins /\ "ErrNoLoopFound" \notin Fins
      BY <1>0 DEF TypeOK, Fins
    <3> QED BY <2>1, <2>3, <3>1, <3>2 DEF ReponseComplete, Fins
  <2>9. AucunOrphelin'
    BY <2>1 DEF AucunOrphelin, Actifs
  <2> QED BY <2>4, <2>5, <2>6, <2>7, <2>8, <2>9 DEF IInv
<1>8. ASSUME NEW i \in Candidates, Candidate(i)
      PROVE  IInv'
  BY <1>8, AvancerIInv, ConclureIInv DEF Candidate
<1> QED BY <1>1, <1>2, <1>3, <1>4, <1>5, <1>6, <1>7, <1>8
        DEF Next, Generate, Fini

\* Types and the inductive invariant, for ever.
THEOREM Invariant == Spec => []IInv
BY InitIInv, NextIInv, PTL DEF Spec

\* The answer is that of the request, not of the schedule: all the directions
\* that have a loop, or an error and no loop at all.
THEOREM ReponseCorrecte == Spec => []ReponseComplete
<1>1. IInv => ReponseComplete
  BY DEF IInv
<1> QED BY <1>1, Invariant, PTL

\* The error of a request that was cut short is that of its own context.
THEOREM ErreurCorrecte == Spec => []ErreurDuContexte
<1>1. IInv => ErreurDuContexte
  BY DEF IInv
<1> QED BY <1>1, Invariant, PTL

\* No goroutine survives Generate.
THEOREM SansOrphelin == Spec => []AucunOrphelin
<1>1. IInv => AucunOrphelin
  BY DEF IInv
<1> QED BY <1>1, Invariant, PTL

\* The counter of dropped directions is exact, cancellations left out.
THEOREM PertesCorrectes == Spec => []PertesJustes
<1>1. IInv => PertesJustes
  <2> SUFFICES ASSUME IInv
               PROVE  PertesJustes
    OBVIOUS
  <2>1. InvPertes /\ InvRetour
    BY DEF IInv
  <2>2. issue \in {"ok", "ErrNoLoopFound"} => Explorees = SansIssue
    BY <2>1 DEF InvRetour, Explorees, SansIssue
  <2> QED BY <2>1, <2>2 DEF PertesJustes, InvPertes, InvRetour
<1> QED BY <1>1, Invariant, PTL

----------------------------------------------------------------------------
\* The answer is made of distinct proposals, in order.

LEMMA MinNat ==
  ASSUME NEW T \in SUBSET Nat, T # {}
  PROVE  \E x \in T : \A y \in T : x <= y
<1>1. PICK x \in T : \A y \in T : ~ (<<y, x>> \in OpToRel(<, Nat))
  BY NatLessThanWellFounded, WFMin
<1>2. ASSUME NEW y \in T
      PROVE  x <= y
  <2>1. ~ (y < x)
    BY <1>1 DEF OpToRel
  <2> QED BY <2>1
<1> QED BY <1>2

\* R orders S strictly and totally.
OrdreTotal(R, S) ==
  /\ \A i \in S : <<i, i>> \notin R
  /\ \A i, j, k \in S : <<i, j>> \in R /\ <<j, k>> \in R => <<i, k>> \in R
  /\ \A i, j \in S : i = j \/ <<i, j>> \in R \/ <<j, i>> \in R
Avant(R, S, i) == {j \in S : <<j, i>> \in R}

\* In a finite set, each element has its rank and each rank its element.
LEMMA Rangs ==
  ASSUME NEW S, IsFiniteSet(S), NEW R, OrdreTotal(R, S)
  PROVE  /\ Cardinality(S) \in Nat
         /\ \A i \in S : Cardinality(Avant(R, S, i)) \in 0 .. Cardinality(S) - 1
         /\ \A i, j \in S : <<i, j>> \in R <=>
              Cardinality(Avant(R, S, i)) < Cardinality(Avant(R, S, j))
         /\ \A k \in 1 .. Cardinality(S) : \E i \in S :
              Cardinality(Avant(R, S, i)) = k - 1
<1> DEFINE C(i) == Cardinality(Avant(R, S, i))
           N == Cardinality(S)
<1>1. N \in Nat
  BY FS_CardinalityType
<1>2. ASSUME NEW i \in S
      PROVE  /\ IsFiniteSet(Avant(R, S, i)) /\ C(i) \in Nat
             /\ i \notin Avant(R, S, i) /\ Avant(R, S, i) \in SUBSET S
  <2>1. Avant(R, S, i) \in SUBSET S /\ i \notin Avant(R, S, i)
    BY DEF Avant, OrdreTotal
  <2> QED BY <2>1, FS_Subset, FS_CardinalityType
<1>3. ASSUME NEW i \in S
      PROVE  IsFiniteSet(Avant(R, S, i) \cup {i}) /\ Cardinality(Avant(R, S, i) \cup {i}) = C(i) + 1
  BY <1>2, FS_AddElement
<1>4. ASSUME NEW i \in S, NEW j \in S, <<i, j>> \in R
      PROVE  C(i) < C(j)
  <2>1. (Avant(R, S, i) \cup {i}) \in SUBSET Avant(R, S, j)
    BY <1>4 DEF Avant, OrdreTotal
  <2>2. Cardinality(Avant(R, S, i) \cup {i}) <= C(j)
    BY <1>2, <2>1, FS_Subset
  <2>3. C(i) + 1 <= C(j) /\ C(i) \in Nat /\ C(j) \in Nat
    <3> HIDE DEF C
    <3> QED BY <1>2, <1>3, <2>2
  <2> HIDE DEF C
  <2> QED BY <2>3
<1>5. ASSUME NEW i \in S
      PROVE  C(i) \in 0 .. N - 1
  <2>1. (Avant(R, S, i) \cup {i}) \in SUBSET S
    BY <1>2
  <2>2. Cardinality(Avant(R, S, i) \cup {i}) <= N
    BY <2>1, FS_Subset
  <2> HIDE DEF C, N
  <2>3. C(i) + 1 <= N /\ C(i) \in Nat
    BY <1>2, <1>3, <2>2
  <2> QED BY <1>1, <2>3
<1>6. ASSUME NEW i \in S, NEW j \in S, C(i) < C(j)
      PROVE  <<i, j>> \in R
  <2>1. i # j /\ ~ (C(j) < C(i))
    BY <1>2, <1>6
  <2> HIDE DEF C
  <2> QED BY <1>4, <2>1 DEF OrdreTotal
<1> DEFINE f == [i \in S |-> C(i)]
<1>7. f \in Injection(S, 0 .. N - 1)
  <2>1. f \in [S -> 0 .. N - 1]
    <3> HIDE DEF C
    <3> QED BY <1>5
  <2>2. ASSUME NEW i \in S, NEW j \in S, f[i] = f[j]
        PROVE  i = j
    <3>1. C(i) = C(j) /\ C(i) \in Nat
      BY <1>2, <2>2
    <3>2. ~ (C(i) < C(j)) /\ ~ (C(j) < C(i))
      BY <3>1
    <3> HIDE DEF C
    <3> QED BY <1>4, <3>2 DEF OrdreTotal
  <2> HIDE DEF f, N
  <2> QED BY <2>1, <2>2, Fun_IsInj
<1>8. f \in Surjection(S, 0 .. N - 1)
  <2>1. IsFiniteSet(0 .. N - 1) /\ Cardinality(0 .. N - 1) = N
    <3>1. 0 \in Int /\ N - 1 \in Int
      BY <1>1
    <3>2. IsFiniteSet(0 .. N - 1) /\ Cardinality(0 .. N - 1) = IF 0 > N - 1 THEN 0 ELSE N - 1 - 0 + 1
      BY <3>1, FS_Interval
    <3> QED BY <1>1, <3>2
  <2>2. Cardinality(S) = Cardinality(0 .. N - 1)
    BY <2>1
  <2> HIDE DEF f, N
  <2> QED BY <1>7, <2>1, <2>2, FS_Injection
<1>9. ASSUME NEW k \in 1 .. N
      PROVE  \E i \in S : C(i) = k - 1
  <2>1. k - 1 \in 0 .. N - 1
    BY <1>1
  <2>2. \A t \in 0 .. N - 1 : \E i \in S : f[i] = t
    <3> HIDE DEF f, N
    <3> QED BY <1>8, Fun_SurjectionProperties
  <2>3. \E i \in S : f[i] = k - 1
    <3> HIDE DEF f
    <3> QED BY <2>1, <2>2
  <2>4. \A i \in S : f[i] = C(i)
    OBVIOUS
  <2> HIDE DEF f, C
  <2> QED BY <2>3, <2>4
<1> HIDE DEF N
<1>10. \A i, j \in S : <<i, j>> \in R <=> C(i) < C(j)
  <2> HIDE DEF C
  <2> QED BY <1>4, <1>6
<1> QED BY <1>1, <1>5, <1>9, <1>10 DEF N

\* Nieme enumerates a finite set of integers in order.
LEMMA NiemeFaits ==
  ASSUME NEW S \in SUBSET Int, IsFiniteSet(S)
  PROVE  /\ Cardinality(S) \in Nat
         /\ \A k \in 1 .. Cardinality(S) : Nieme(S, k) \in S
         /\ \A k, l \in 1 .. Cardinality(S) : k < l => Nieme(S, k) < Nieme(S, l)
         /\ \A i \in S : \E k \in 1 .. Cardinality(S) : Nieme(S, k) = i
<1> DEFINE R == {q \in S \X S : q[1] < q[2]}
           N == Cardinality(S)
           C(i) == Cardinality(Avant(R, S, i))
<1>0. \A i, j \in S : <<i, j>> \in R <=> i < j
  OBVIOUS
<1>1. OrdreTotal(R, S)
  BY <1>0 DEF OrdreTotal
<1>2. \A i \in S : Avant(R, S, i) = {j \in S : j < i}
  BY <1>0 DEF Avant
<1> HIDE DEF R
<1>3. /\ N \in Nat
      /\ \A i \in S : C(i) \in 0 .. N - 1
      /\ \A i, j \in S : <<i, j>> \in R <=> C(i) < C(j)
      /\ \A k \in 1 .. N : \E i \in S : C(i) = k - 1
  BY <1>1, Rangs
<1> HIDE DEF N
<1>4. \A k : Nieme(S, k) = CHOOSE i \in S : C(i) = k - 1
  BY <1>2 DEF Nieme
<1> HIDE DEF C
<1>5. \A k \in 1 .. N : Nieme(S, k) \in S /\ C(Nieme(S, k)) = k - 1
  BY <1>3, <1>4
<1>6. ASSUME NEW k \in 1 .. N, NEW l \in 1 .. N, k < l
      PROVE  Nieme(S, k) < Nieme(S, l)
  <2>1. C(Nieme(S, k)) < C(Nieme(S, l))
    BY <1>5, <1>6
  <2> QED BY <1>0, <1>3, <1>5, <2>1
<1>7. ASSUME NEW i \in S
      PROVE  \E k \in 1 .. N : Nieme(S, k) = i
  <2>1. C(i) \in 0 .. N - 1
    BY <1>3
  <2> DEFINE k == C(i) + 1
  <2>2. k \in 1 .. N /\ C(Nieme(S, k)) = C(i) /\ Nieme(S, k) \in S
    BY <1>3, <1>5, <2>1
  <2>3. ~ (C(i) < C(Nieme(S, k))) /\ ~ (C(Nieme(S, k)) < C(i))
    BY <2>1, <2>2
  <2>4. <<i, Nieme(S, k)>> \notin R /\ <<Nieme(S, k), i>> \notin R
    BY <1>3, <2>2, <2>3
  <2>5. Nieme(S, k) = i
    BY <1>1, <2>2, <2>4 DEF OrdreTotal
  <2> QED BY <2>2, <2>5
<1> QED BY <1>3, <1>5, <1>6, <1>7 DEF N


\* There is a way to keep what conflicts with nothing kept before it.
LEMMA NoyauExiste ==
  ASSUME NEW n \in Nat, NEW D
  PROVE  \E K \in SUBSET (1 .. n) : \A k \in 1 .. n :
           k \in K <=> \A i \in K : i < k => <<k, i>> \notin D
<1> DEFINE Noyau(K, m) == /\ K \in SUBSET (1 .. m)
                          /\ \A k \in 1 .. m :
                               k \in K <=> \A i \in K : i < k => <<k, i>> \notin D
           T == {m \in Nat : ~ \E K : Noyau(K, m)}
<1>1. SUFFICES ASSUME T # {}
               PROVE  FALSE
  OBVIOUS
<1>2. PICK x \in T : \A y \in T : x <= y
  <2>1. T \in SUBSET Nat
    OBVIOUS
  <2> HIDE DEF T
  <2> QED BY <1>1, <2>1, MinNat
<1>3. x # 0
  <2>1. Noyau({}, 0)
    OBVIOUS
  <2> QED BY <1>2, <2>1
<1>4. x \in Nat /\ x - 1 \in Nat /\ x - 1 \notin T
  <2> HIDE DEF Noyau
  <2>1. x \in Nat /\ x - 1 \in Nat /\ ~ (x <= x - 1)
    BY <1>2, <1>3
  <2> HIDE DEF T
  <2> QED BY <1>2, <2>1
<1>5. PICK K : Noyau(K, x - 1)
  BY <1>4
<1> DEFINE A == \A i \in K : <<x, i>> \notin D
           L == IF A THEN K \cup {x} ELSE K
<1>6. \A i \in K : i \in 1 .. x - 1 /\ i < x /\ i \in Int
  BY <1>4, <1>5
<1>7. L \in SUBSET (1 .. x)
  BY <1>4, <1>6
<1>8. ASSUME NEW k \in 1 .. x
      PROVE  k \in L <=> \A i \in L : i < k => <<k, i>> \notin D
  <2>1. CASE k = x
    <3>1. x \notin K
      BY <1>4, <1>6
    <3> QED BY <1>4, <1>6, <2>1, <3>1
  <2>2. CASE k # x
    <3>1. k \in 1 .. x - 1 /\ ~ (x < k)
      BY <1>4, <2>2
    <3> QED BY <1>5, <2>2, <3>1
  <2> QED BY <2>1, <2>2
<1>9. Noyau(L, x)
  BY <1>7, <1>8
<1> HIDE DEF Noyau
<1> QED BY <1>2, <1>9

LEMMA DoublonSymetrique ==
  ASSUME NEW a, NEW c, Doublon(a, c)
  PROVE  Doublon(c, a)
<1>1. a.aretes \cap c.aretes = c.aretes \cap a.aretes
      /\ a.aretes \cup c.aretes = c.aretes \cup a.aretes
  OBVIOUS
<1> QED BY <1>1 DEF Doublon

\* dedupe keeps loops that do not double each other, and every loop it leaves
\* out doubles one it has kept.
LEMMA DedupeFaits ==
  ASSUME NEW n \in Nat, NEW f, DOMAIN f = 1 .. n
  PROVE  \E m \in Nat :
           /\ DOMAIN Dedupe(f) = 1 .. m
           /\ \A k \in 1 .. m : \E i \in 1 .. n : Dedupe(f)[k] = f[i]
           /\ \A k, l \in 1 .. m : k < l => ~ Doublon(Dedupe(f)[l], Dedupe(f)[k])
           /\ \A i \in 1 .. n : \E k \in 1 .. m :
                Dedupe(f)[k] = f[i] \/ Doublon(f[i], Dedupe(f)[k])
<1> DEFINE D == {q \in (1 .. n) \X (1 .. n) : Doublon(f[q[1]], f[q[2]])}
           K == Gardees(f)
           m == Cardinality(K)
<1>1. PICK L \in SUBSET (1 .. n) : \A k \in 1 .. n :
         k \in L <=> \A i \in L : i < k => <<k, i>> \notin D
  <2> HIDE DEF D
  <2> QED BY NoyauExiste
<1>2. \A k \in 1 .. n : \A i \in 1 .. n : <<k, i>> \in D <=> Doublon(f[k], f[i])
  OBVIOUS
<1>3. \E M \in SUBSET DOMAIN f : \A k \in DOMAIN f :
        k \in M <=> \A i \in M : i < k => ~Doublon(f[k], f[i])
  <2> HIDE DEF D
  <2> QED BY <1>1, <1>2
<1>4. /\ K \in SUBSET (1 .. n)
      /\ \A k \in 1 .. n : k \in K <=> \A i \in K : i < k => ~Doublon(f[k], f[i])
  <2> DEFINE Q(M) == \A k \in DOMAIN f : k \in M <=> \A i \in M : i < k => ~Doublon(f[k], f[i])
  <2>1. K = CHOOSE M \in SUBSET DOMAIN f : Q(M)
    BY DEF Gardees
  <2>2. \E M \in SUBSET DOMAIN f : Q(M)
    BY <1>3
  <2>3. K \in SUBSET DOMAIN f /\ Q(K)
    <3> HIDE DEF Q, K
    <3> QED BY <2>1, <2>2
  <2> QED BY <2>3
<1>5. IsFiniteSet(K) /\ K \in SUBSET Int
  <2>1. IsFiniteSet(1 .. n) /\ 1 .. n \in SUBSET Int
    BY FS_Interval
  <2> HIDE DEF K
  <2> QED BY <1>4, <2>1, FS_Subset
<1> HIDE DEF K
<1>6. /\ m \in Nat
      /\ \A k \in 1 .. m : Nieme(K, k) \in K
      /\ \A k, l \in 1 .. m : k < l => Nieme(K, k) < Nieme(K, l)
      /\ \A i \in K : \E k \in 1 .. m : Nieme(K, k) = i
  BY <1>5, NiemeFaits
<1>7. Dedupe(f) = [k \in 1 .. m |-> f[Nieme(K, k)]]
  BY DEF Dedupe, K
<1>8. DOMAIN Dedupe(f) = 1 .. m /\ \A k \in 1 .. m : Dedupe(f)[k] = f[Nieme(K, k)]
  BY <1>7
<1> HIDE DEF m
<1>9. \A k \in 1 .. m : \E i \in 1 .. n : Dedupe(f)[k] = f[i]
  BY <1>4, <1>6, <1>8
<1>10. ASSUME NEW k \in 1 .. m, NEW l \in 1 .. m, k < l
       PROVE  ~ Doublon(Dedupe(f)[l], Dedupe(f)[k])
  <2>1. Nieme(K, k) \in K /\ Nieme(K, l) \in K /\ Nieme(K, k) < Nieme(K, l)
    BY <1>6, <1>10
  <2> QED BY <1>4, <1>8, <2>1
<1>11. ASSUME NEW i \in 1 .. n
       PROVE  \E k \in 1 .. m : Dedupe(f)[k] = f[i] \/ Doublon(f[i], Dedupe(f)[k])
  <2>1. PICK j \in K : j = i \/ Doublon(f[i], f[j])
    BY <1>4
  <2>2. PICK k \in 1 .. m : Nieme(K, k) = j
    BY <1>6
  <2> QED BY <1>8, <2>1, <2>2
<1> QED BY <1>6, <1>8, <1>9, <1>10, <1>11

\* What sort.Slice is asked for exists: the same loops, none before a better one.
LEMMA TrierFaits ==
  ASSUME NEW n \in Nat, NEW s, DOMAIN s = 1 .. n,
         \A k \in 1 .. n : s[k].nonBitume \in Nat
  PROVE  \E p \in [1 .. n -> 1 .. n] :
           /\ Trier(s) = [k \in 1 .. n |-> s[p[k]]]
           /\ DOMAIN Trier(s) = 1 .. n
           /\ \A k \in 1 .. n : Trier(s)[k] = s[p[k]]
           /\ \A k \in 1 .. n : \E i \in 1 .. n : p[i] = k
           /\ \A i, j \in 1 .. n : i # j => p[i] # p[j]
           /\ \A i, j \in 1 .. n : i < j => ~Preferable(Trier(s)[j], Trier(s)[i])
<1> DEFINE S == 1 .. n
           R == {q \in S \X S : \/ Preferable(s[q[1]], s[q[2]])
                                \/ ~Preferable(s[q[2]], s[q[1]]) /\ q[1] < q[2]}
<1>1. \A i, j \in S : <<i, j>> \in R <=>
        \/ s[i].nonBitume > s[j].nonBitume
        \/ ~ (s[j].nonBitume > s[i].nonBitume) /\ i < j
  BY DEF Preferable
<1> DEFINE C(i) == Cardinality(Avant(R, S, i))
<1>2. OrdreTotal(R, S)
  <2> HIDE DEF R
  <2> QED BY <1>1 DEF OrdreTotal
<1>3. IsFiniteSet(S) /\ Cardinality(S) = n
  BY FS_Interval
<1> HIDE DEF R
<1>4. /\ \A i \in S : C(i) \in 0 .. n - 1
      /\ \A i, j \in S : <<i, j>> \in R <=> C(i) < C(j)
      /\ \A k \in S : \E i \in S : C(i) = k - 1
  <2> HIDE DEF S, C
  <2>1. /\ \A i \in S : Cardinality(Avant(R, S, i)) \in 0 .. Cardinality(S) - 1
        /\ \A i, j \in S : <<i, j>> \in R <=>
             Cardinality(Avant(R, S, i)) < Cardinality(Avant(R, S, j))
        /\ \A k \in 1 .. Cardinality(S) : \E i \in S :
             Cardinality(Avant(R, S, i)) = k - 1
    BY <1>2, <1>3, Rangs
  <2> QED BY <1>3, <2>1 DEF C, S
<1> HIDE DEF C
<1> DEFINE p == [k \in S |-> CHOOSE i \in S : C(i) = k - 1]
<1>5. \A k \in S : p[k] \in S /\ C(p[k]) = k - 1
  BY <1>4
<1>6. p \in [S -> S]
  BY <1>5
<1>7. ASSUME NEW k \in S
      PROVE  p[C(k) + 1] = k /\ C(k) + 1 \in S
  <2>1. C(k) \in 0 .. n - 1
    BY <1>4
  <2>2. C(k) + 1 \in S
    BY <2>1
  <2> HIDE DEF p, S
  <2>3. p[C(k) + 1] \in S /\ C(p[C(k) + 1]) = C(k)
    BY <1>5, <2>1, <2>2
  <2>4. ~ (C(k) < C(k))
    BY <2>1
  <2>5. <<k, p[C(k) + 1]>> \notin R /\ <<p[C(k) + 1], k>> \notin R
    BY <1>4, <2>3, <2>4
  <2> QED BY <1>2, <2>2, <2>3, <2>5 DEF OrdreTotal
<1> HIDE DEF p
<1>8. Range(p) = S
  BY <1>6, <1>7 DEF Range
<1> DEFINE perms == {q \in [DOMAIN s -> DOMAIN s] : Range(q) = DOMAIN s}
           r == Permute(s, p)
<1>9. r \in {Permute(s, q) : q \in perms}
  BY <1>6, <1>8
<1>10. DOMAIN r = S /\ \A i \in S : r[i] = s[p[i]]
  BY DEF Permute
<1>11. \A i, j \in DOMAIN r : i < j => ~Preferable(r[j], r[i])
  <2> SUFFICES ASSUME NEW i \in S, NEW j \in S, i < j
               PROVE  ~Preferable(r[j], r[i])
    BY <1>10
  <2>1. C(p[i]) < C(p[j]) /\ p[i] \in S /\ p[j] \in S
    BY <1>5
  <2>2. <<p[i], p[j]>> \in R
    BY <1>4, <2>1
  <2>3. /\ s[p[i]].nonBitume \in Nat /\ s[p[j]].nonBitume \in Nat
        /\ \/ s[p[i]].nonBitume > s[p[j]].nonBitume
           \/ ~ (s[p[j]].nonBitume > s[p[i]].nonBitume)
    BY <1>1, <2>1, <2>2
  <2>4. ~ (s[p[j]].nonBitume > s[p[i]].nonBitume)
    BY <2>3
  <2> QED BY <1>10, <2>4 DEF Preferable
<1>12. /\ Trier(s) \in {Permute(s, q) : q \in perms}
       /\ \A i, j \in DOMAIN Trier(s) : i < j => ~Preferable(Trier(s)[j], Trier(s)[i])
  <2>1. Trier(s) = CHOOSE t \in {Permute(s, q) : q \in perms} :
          \A i, j \in DOMAIN t : i < j => ~Preferable(t[j], t[i])
    BY DEF Trier
  <2> HIDE DEF perms, r
  <2> QED BY <1>9, <1>11, <2>1
<1>13. PICK q \in [S -> S] : Range(q) = S /\ Trier(s) = Permute(s, q)
  BY <1>12
<1>14. /\ Trier(s) = [k \in S |-> s[q[k]]]
      /\ DOMAIN Trier(s) = S /\ \A k \in S : Trier(s)[k] = s[q[k]]
  BY <1>13 DEF Permute
<1>15. \A k \in S : \E i \in S : q[i] = k
  BY <1>13 DEF Range
<1>16. \A i, j \in S : i # j => q[i] # q[j]
  <2> HIDE DEF S
  <2>1. q \in Surjection(S, S)
    BY <1>15, Fun_IsSurj
  <2>2. q \in Injection(S, S)
    BY <1>3, <2>1, FS_SurjSameCardinalityImpliesInj
  <2> QED BY <2>2, Fun_InjectionProperties
<1> QED BY <1>12, <1>13, <1>14, <1>15, <1>16

\* The cut keeps the first ones.
LEMMA TronquerFaits ==
  ASSUME NEW n \in Nat, NEW s, DOMAIN s = 1 .. n, s = [k \in 1 .. n |-> s[k]]
  PROVE  LET m == IF n > MaxResults THEN MaxResults ELSE n IN
         /\ DOMAIN Tronquer(s) = 1 .. m
         /\ \A k \in 1 .. m : Tronquer(s)[k] = s[k]
<1> DEFINE X == {s[k] : k \in 1 .. n}
           m == IF n > MaxResults THEN MaxResults ELSE n
<1>1. s \in [1 .. n -> X]
  OBVIOUS
<1> HIDE DEF X
<1>2. s \in Seq(X) /\ Len(s) = n
  BY <1>1
<1>3. m \in Nat /\ m <= n
  BY TaillesAssumption
<1>4. Tronquer(s) = SubSeq(s, 1, m)
  BY <1>2 DEF Tronquer
<1> HIDE DEF m
<1>5. Len(SubSeq(s, 1, m)) = m /\ \A k \in 1 .. m : SubSeq(s, 1, m)[k] = s[k]
  BY <1>2, <1>3
<1>6. DOMAIN SubSeq(s, 1, m) = 1 .. m
  BY <1>2, <1>3, <1>5
<1> QED BY <1>4, <1>5, <1>6 DEF m

\* What the invariant says of the answer, put together with what the collection,
\* the deduplication, the sort and the cut each return.
LEMMA DistinctesDeInv ==
  ASSUME IInv
  PROVE  PropositionsDistinctes
<1> SUFFICES ASSUME issue = "ok"
             PROVE  LET gardees == Dedupe(Collecter(found)) IN
               /\ sortie # <<>>
               /\ \A i, j \in DOMAIN sortie :
                    i < j => /\ ~Doublon(sortie[i], sortie[j])
                             /\ sortie[i].nonBitume >= sortie[j].nonBitume
               /\ \A i \in found :
                    \/ \E g \in Range(gardees) : Doublon(terrain[i].boucle, g)
                    \/ terrain[i].boucle \in Range(gardees)
               /\ \A g \in Range(gardees) \ Range(sortie) :
                    \A i \in DOMAIN sortie : sortie[i].nonBitume >= g.nonBitume
  BY DEF PropositionsDistinctes
<1> DEFINE f == Collecter(found)
           n == Cardinality(found)
           d == Dedupe(f)
           r == Trier(d)
<1>1. found = Issues /\ found # {} /\ found \in SUBSET Candidates
  <2>1. /\ found # {} /\ errGroupe = "nil" /\ \A i \in Candidates : etat[i] = "fini"
        /\ found \subseteq Candidates
    BY DEF IInv, InvRetour, TypeOK
  <2>2. \A i \in Candidates : i \in found <=> terrain[i].trouve
    BY <2>1 DEF IInv, InvDirections
  <2> QED BY <2>1, <2>2 DEF Issues, SansIssue
<1>2. sortie = Tronquer(r)
  BY <1>1 DEF IInv, ReponseComplete, Propositions
<1>3. IsFiniteSet(found) /\ found \in SUBSET Int
  <2>1. IsFiniteSet(Candidates) /\ Candidates \in SUBSET Int
    BY FS_Interval, TaillesAssumption DEF Candidates
  <2> QED BY <1>1, <2>1, FS_Subset
<1>4. /\ n \in Nat
      /\ \A k \in 1 .. n : Nieme(found, k) \in found
      /\ \A i \in found : \E k \in 1 .. n : Nieme(found, k) = i
  BY <1>3, NiemeFaits
<1>5. \A i \in Candidates : terrain[i].boucle.nonBitume \in Nat
  BY TerrainsAssumption DEF IInv, TypeOK, Direction
<1>6. /\ DOMAIN f = 1 .. n
      /\ \A k \in 1 .. n : f[k] = terrain[Nieme(found, k)].boucle
  BY DEF Collecter
<1> HIDE DEF f, n
<1>7. \A k \in 1 .. n : f[k].nonBitume \in Nat
  BY <1>1, <1>4, <1>5, <1>6
<1>8. PICK m \in Nat :
        /\ DOMAIN d = 1 .. m
        /\ \A k \in 1 .. m : \E i \in 1 .. n : d[k] = f[i]
        /\ \A k, l \in 1 .. m : k < l => ~ Doublon(d[l], d[k])
        /\ \A i \in 1 .. n : \E k \in 1 .. m : d[k] = f[i] \/ Doublon(f[i], d[k])
  BY <1>4, <1>6, DedupeFaits
<1> HIDE DEF d
<1>9. \A k \in 1 .. m : d[k].nonBitume \in Nat
  BY <1>7, <1>8
<1>10. PICK p \in [1 .. m -> 1 .. m] :
         /\ r = [k \in 1 .. m |-> d[p[k]]]
         /\ DOMAIN r = 1 .. m
         /\ \A k \in 1 .. m : r[k] = d[p[k]]
         /\ \A k \in 1 .. m : \E i \in 1 .. m : p[i] = k
         /\ \A i, j \in 1 .. m : i # j => p[i] # p[j]
         /\ \A i, j \in 1 .. m : i < j => ~Preferable(r[j], r[i])
  BY <1>8, <1>9, TrierFaits
<1>11. r = [k \in 1 .. m |-> r[k]]
  BY <1>10
<1> HIDE DEF r
<1> DEFINE c == IF m > MaxResults THEN MaxResults ELSE m
<1>12. DOMAIN sortie = 1 .. c /\ \A k \in 1 .. c : sortie[k] = r[k]
  BY <1>2, <1>10, <1>11, TronquerFaits
<1>13. m >= 1
  <2>1. PICK i \in found : TRUE
    BY <1>1
  <2>2. PICK k \in 1 .. n : Nieme(found, k) = i
    BY <1>4
  <2>3. \E l \in 1 .. m : TRUE
    BY <1>8
  <2> QED BY <1>8, <2>3
<1>14. c \in Nat /\ c >= 1 /\ c <= m /\ (c = m \/ c = MaxResults)
  BY <1>8, <1>13, TaillesAssumption
<1> HIDE DEF c
<1>15. \A k \in 1 .. m : r[k].nonBitume \in Nat
  BY <1>9, <1>10
<1>16. \A i, j \in 1 .. m : i < j => r[i].nonBitume >= r[j].nonBitume
  <2> SUFFICES ASSUME NEW i \in 1 .. m, NEW j \in 1 .. m, i < j
               PROVE  r[i].nonBitume >= r[j].nonBitume
    OBVIOUS
  <2>1. ~ (r[j].nonBitume > r[i].nonBitume)
    BY <1>10 DEF Preferable
  <2>2. r[i].nonBitume \in Nat /\ r[j].nonBitume \in Nat
    BY <1>15
  <2> DEFINE x == r[i].nonBitume
             y == r[j].nonBitume
  <2>3. ~ (y > x) /\ x \in Nat /\ y \in Nat
    BY <2>1, <2>2
  <2> HIDE DEF x, y
  <2>4. x >= y
    BY <2>3
  <2> QED BY <2>4 DEF x, y
<1>17. \A i, j \in 1 .. m : i # j => ~Doublon(r[i], r[j])
  <2> SUFFICES ASSUME NEW i \in 1 .. m, NEW j \in 1 .. m, i # j, Doublon(r[i], r[j])
               PROVE  FALSE
    OBVIOUS
  <2>1. /\ p[i] \in 1 .. m /\ p[j] \in 1 .. m /\ p[i] # p[j]
        /\ Doublon(d[p[i]], d[p[j]])
    BY <1>10
  <2>2. Doublon(d[p[j]], d[p[i]])
    BY <2>1, DoublonSymetrique
  <2>3. p[i] < p[j] \/ p[j] < p[i]
    BY <1>8, <2>1
  <2> QED BY <1>8, <2>1, <2>2, <2>3
<1>18. \A k \in 1 .. c : k \in 1 .. m
  BY <1>8, <1>14
<1>19. sortie # <<>>
  BY <1>12, <1>14
<1>20. \A i, j \in DOMAIN sortie :
         i < j => /\ ~Doublon(sortie[i], sortie[j])
                  /\ sortie[i].nonBitume >= sortie[j].nonBitume
  <2> SUFFICES ASSUME NEW i \in 1 .. c, NEW j \in 1 .. c, i < j
               PROVE  /\ ~Doublon(sortie[i], sortie[j])
                      /\ sortie[i].nonBitume >= sortie[j].nonBitume
    BY <1>12
  <2>1. i # j
    BY <1>14
  <2> QED BY <1>12, <1>16, <1>17, <1>18, <2>1
<1>21. \A k \in 1 .. m : d[k] \in Range(d)
  BY <1>8 DEF Range
<1>22. ASSUME NEW i \in found
       PROVE  \/ \E g \in Range(d) : Doublon(terrain[i].boucle, g)
              \/ terrain[i].boucle \in Range(d)
  <2>1. PICK k \in 1 .. n : Nieme(found, k) = i
    BY <1>4
  <2>2. f[k] = terrain[i].boucle
    BY <1>6, <2>1
  <2>3. PICK l \in 1 .. m : d[l] = f[k] \/ Doublon(f[k], d[l])
    BY <1>8
  <2> QED BY <1>21, <2>2, <2>3
<1>23. ASSUME NEW g \in Range(d), g \notin Range(sortie), NEW i \in DOMAIN sortie
       PROVE  sortie[i].nonBitume >= g.nonBitume
  <2>1. PICK l \in 1 .. m : d[l] = g
    BY <1>8 DEF Range
  <2>2. PICK k \in 1 .. m : p[k] = l
    BY <1>10
  <2>3. r[k] = g
    BY <1>10, <2>1, <2>2
  <2>4. k \notin 1 .. c
    BY <1>12, <1>23, <2>3 DEF Range
  <2>5. i \in 1 .. c /\ i \in 1 .. m
    BY <1>12, <1>18, <1>23
  <2>6. i < k
    BY <1>8, <1>14, <2>4, <2>5
  <2> QED BY <1>12, <1>16, <2>3, <2>5, <2>6
<1> QED BY <1>19, <1>20, <1>22, <1>23 DEF d, f

\* The proposals are distinct, ranked by terrain, and nothing better was cut:
\* for any loops, threshold and number of results.
THEOREM DistinctesCorrectes == Spec => []PropositionsDistinctes
<1>1. IInv => PropositionsDistinctes
  BY DistinctesDeInv
<1> QED BY <1>1, Invariant, PTL

----------------------------------------------------------------------------
\* One unit for each metre that f counts: a sum of naturals is the number of
\* its units.
Unites(f, T) == {q \in T \X Nat : q[2] \in 1 .. f[q[1]]}

LEMMA UnitesDUn ==
  ASSUME NEW S, NEW f \in [S -> Nat], NEW T \in SUBSET S, IsFiniteSet(Unites(f, T)), NEW x \in T
  PROVE  Cardinality(Unites(f, T)) = f[x] + Cardinality(Unites(f, T \ {x}))
<1> DEFINE A == Unites(f, T \ {x})
           B == {x} \X (1 .. f[x])
<1>1. Unites(f, T) = A \cup B /\ A \cap B = {}
  BY DEF Unites
<1>2. f[x] \in Nat
  OBVIOUS
<1>3. IsFiniteSet(B) /\ Cardinality(B) = f[x]
  <2>1. IsFiniteSet(1 .. f[x]) /\ Cardinality(1 .. f[x]) = f[x]
    BY <1>2, FS_Interval
  <2>2. IsFiniteSet({x}) /\ Cardinality({x}) = 1
    BY FS_Singleton
  <2>3. IsFiniteSet(B) /\ Cardinality(B) = 1 * Cardinality(1 .. f[x])
    BY <2>1, <2>2, FS_Product
  <2> QED BY <1>2, <2>1, <2>3
<1> HIDE DEF A, B
<1>4. IsFiniteSet(A)
  BY <1>1, FS_Subset
<1>5. Cardinality(A \cup B) = Cardinality(A) + Cardinality(B) - Cardinality(A \cap B)
  BY <1>3, <1>4, FS_Union
<1>6. Cardinality(A \cap B) = 0
  BY <1>1, FS_EmptySet
<1>7. Cardinality(A) \in Nat
  BY <1>4, FS_CardinalityType
<1> QED BY <1>1, <1>2, <1>3, <1>5, <1>6, <1>7 DEF A

LEMMA UnitesFinies ==
  ASSUME NEW S, IsFiniteSet(S), NEW f \in [S -> Nat]
  PROVE  \A T \in SUBSET S : IsFiniteSet(Unites(f, T))
<1> DEFINE h == [x \in S |-> {x} \X (1 .. f[x])]
           E == {h[x] : x \in S}
<1>1. \A X \in E : IsFiniteSet(X)
  <2> SUFFICES ASSUME NEW x \in S
               PROVE  IsFiniteSet({x} \X (1 .. f[x]))
    OBVIOUS
  <2>1. f[x] \in Int
    OBVIOUS
  <2>2. IsFiniteSet(1 .. f[x])
    BY <2>1, FS_Interval
  <2>3. IsFiniteSet({x})
    BY FS_Singleton
  <2> QED BY <2>2, <2>3, FS_Product
<1>2. IsFiniteSet(E)
  <2>1. h \in [S -> E]
    OBVIOUS
  <2>3. \A X \in E : \E x \in S : h[x] = X
    OBVIOUS
  <2> HIDE DEF h, E
  <2>2. h \in Surjection(S, E)
    BY <2>1, <2>3, Fun_IsSurj
  <2> QED BY <2>2, FS_Surjection
<1>3. IsFiniteSet(UNION E)
  <2> HIDE DEF E, h
  <2> QED BY <1>1, <1>2, FS_UNION
<1>4. ASSUME NEW T \in SUBSET S
      PROVE  Unites(f, T) \in SUBSET UNION E
  BY DEF Unites
<1> HIDE DEF E
<1> QED BY <1>3, <1>4, FS_Subset

\* SumFunction adds the values in the order CHOOSE picks: the sum of naturals
\* is the number of their units, whatever the order.
LEMMA SommeCompte ==
  ASSUME NEW S, IsFiniteSet(S), NEW f \in [S -> Nat]
  PROVE  SumFunction(f) = Cardinality(Unites(f, S))
<1> DEFINE c(s) == CHOOSE x \in s : TRUE
           Pas(g) == [s \in SUBSET S |-> IF s = {} THEN 0 ELSE f[c(s)] + g[s \ {c(s)}]]
           u == [s \in SUBSET S |-> Cardinality(Unites(f, s))]
<1>1. \A s \in SUBSET S : s # {} => c(s) \in s /\ s \ {c(s)} \in SUBSET S
  OBVIOUS
<1>2. SumFunction(f) = (CHOOSE g : g = Pas(g))[S]
  BY DEF SumFunction, SumFunctionOnSet, FoldFunctionOnSet, MapThenFoldSet
<1> HIDE DEF c
<1>3. u = Pas(u)
  <2>1. ASSUME NEW s \in SUBSET S
        PROVE  Cardinality(Unites(f, s)) = IF s = {} THEN 0 ELSE f[c(s)] + u[s \ {c(s)}]
    <3>1. CASE s = {}
      <4>1. Unites(f, s) = {}
        BY <3>1 DEF Unites
      <4> QED BY <3>1, <4>1, FS_EmptySet
    <3>2. CASE s # {}
      <4>1. c(s) \in s /\ s \ {c(s)} \in SUBSET S
        BY <1>1, <3>2
      <4>2. IsFiniteSet(Unites(f, s))
        BY UnitesFinies
      <4>3. Cardinality(Unites(f, s)) = f[c(s)] + Cardinality(Unites(f, s \ {c(s)}))
        BY <4>1, <4>2, UnitesDUn
      <4> QED BY <3>2, <4>1, <4>3
    <3> QED BY <3>1, <3>2
  <2> QED BY <2>1
<1> DEFINE g == CHOOSE g : g = Pas(g)
<1>4. g = Pas(g)
  <2> HIDE DEF Pas, u
  <2> QED BY <1>3
<1> HIDE DEF g, u
<1>5. /\ \A s \in SUBSET S : g[s] = IF s = {} THEN 0 ELSE f[c(s)] + g[s \ {c(s)}]
      /\ \A s \in SUBSET S : u[s] = IF s = {} THEN 0 ELSE f[c(s)] + u[s \ {c(s)}]
  BY <1>3, <1>4
<1> HIDE DEF Pas
<1> DEFINE T == {n \in Nat : \E s \in SUBSET S : Cardinality(s) = n /\ g[s] # u[s]}
<1>6. T = {}
  <2> SUFFICES ASSUME T # {}
               PROVE  FALSE
    OBVIOUS
  <2>1. PICK n \in T : \A m \in T : n <= m
    <3> HIDE DEF T
    <3>1. T \in SUBSET Nat
      BY DEF T
    <3> QED BY <3>1, MinNat
  <2>2. PICK s \in SUBSET S : Cardinality(s) = n /\ g[s] # u[s]
    BY <2>1
  <2>3. s # {}
    BY <1>5, <2>2
  <2>4. c(s) \in s /\ s \ {c(s)} \in SUBSET S /\ IsFiniteSet(s)
    BY <1>1, <2>3, FS_Subset
  <2>5. Cardinality(s \ {c(s)}) = n - 1 /\ Cardinality(s \ {c(s)}) \in Nat
    BY <2>2, <2>4, FS_RemoveElement, FS_CardinalityType
  <2>6. n \in Nat /\ n - 1 \notin T
    BY <2>1
  <2>7. g[s \ {c(s)}] = u[s \ {c(s)}]
    BY <2>4, <2>5, <2>6
  <2> QED BY <1>5, <2>2, <2>3, <2>7
<1>7. Cardinality(S) \in Nat
  BY FS_CardinalityType
<1>8. g[S] = u[S]
  BY <1>6, <1>7
<1> QED BY <1>2, <1>8 DEF g, u

\* The units of two disjoint sets add up.
LEMMA UnitesReunion ==
  ASSUME NEW S, IsFiniteSet(S), NEW f \in [S -> Nat],
         NEW A \in SUBSET S, NEW B \in SUBSET S, A \cap B = {}
  PROVE  Cardinality(Unites(f, A \cup B))
           = Cardinality(Unites(f, A)) + Cardinality(Unites(f, B))
<1>1. IsFiniteSet(Unites(f, A)) /\ IsFiniteSet(Unites(f, B))
  BY UnitesFinies
<1>2. /\ Unites(f, A \cup B) = Unites(f, A) \cup Unites(f, B)
      /\ Unites(f, A) \cap Unites(f, B) = {}
  BY DEF Unites
<1> DEFINE U == Unites(f, A)
           V == Unites(f, B)
<1> HIDE DEF U, V
<1>3. Cardinality(U \cup V) = Cardinality(U) + Cardinality(V) - Cardinality(U \cap V)
  BY <1>1, FS_Union DEF U, V
<1>4. Cardinality(U \cap V) = 0
  BY <1>2, FS_EmptySet DEF U, V
<1>5. Cardinality(U) \in Nat /\ Cardinality(V) \in Nat
  BY <1>1, FS_CardinalityType DEF U, V
<1>6. Cardinality(U \cup V) = Cardinality(U) + Cardinality(V)
  BY <1>3, <1>4, <1>5
<1> QED BY <1>2, <1>6 DEF U, V

\* One unit for one unit, along a bijection that keeps the values.
LEMMA UnitesBijection ==
  ASSUME NEW S, IsFiniteSet(S), NEW f \in [S -> Nat], NEW A \in SUBSET S,
         NEW B, NEW h, \A y \in B : h[y] \in Nat,
         NEW b \in [A -> B],
         \A x, y \in A : b[x] = b[y] => x = y,
         \A y \in B : \E x \in A : b[x] = y,
         \A x \in A : f[x] = h[b[x]]
  PROVE  Cardinality(Unites(f, A)) = Cardinality(Unites(h, B))
<1> DEFINE U == Unites(f, A)
           V == Unites(h, B)
           c == [q \in U |-> <<b[q[1]], q[2]>>]
<1>1. IsFiniteSet(U)
  BY UnitesFinies
<1>2. \A q \in U : q[1] \in A /\ q[2] \in Nat /\ q[2] \in 1 .. f[q[1]] /\ q = <<q[1], q[2]>>
  BY DEF Unites
<1>3. c \in [U -> V]
  <2> SUFFICES ASSUME NEW q \in U
               PROVE  <<b[q[1]], q[2]>> \in V
    OBVIOUS
  <2> HIDE DEF U
  <2>1. b[q[1]] \in B /\ f[q[1]] = h[b[q[1]]]
    BY <1>2
  <2> QED BY <1>2, <2>1 DEF Unites
<1>4. ASSUME NEW q \in U, NEW r \in U, c[q] = c[r]
      PROVE  q = r
  <2>1. b[q[1]] = b[r[1]] /\ q[2] = r[2]
    BY <1>4
  <2> HIDE DEF U
  <2>2. q[1] = r[1]
    BY <1>2, <2>1
  <2> QED BY <1>2, <2>1, <2>2
<1>5. ASSUME NEW v \in V
      PROVE  \E q \in U : c[q] = v
  <2>1. v[1] \in B /\ v[2] \in Nat /\ v[2] \in 1 .. h[v[1]] /\ v = <<v[1], v[2]>>
    BY DEF Unites
  <2>2. PICK x \in A : b[x] = v[1]
    BY <2>1
  <2>3. f[x] = h[v[1]]
    BY <2>2
  <2>4. <<x, v[2]>> \in U
    BY <2>1, <2>3 DEF Unites
  <2>5. c[<<x, v[2]>>] = <<b[x], v[2]>>
    BY <2>4
  <2> QED BY <2>1, <2>2, <2>4, <2>5
<1> HIDE DEF U, V, c
<1>6. c \in Bijection(U, V)
  BY <1>3, <1>4, <1>5, Fun_IsBij
<1>7. ExistsBijection(U, V)
  BY <1>6 DEF ExistsBijection
<1> QED BY <1>1, <1>7, FS_Bijection DEF U, V

LEMMA ImageFinie ==
  ASSUME NEW S, IsFiniteSet(S), NEW h, DOMAIN h = S
  PROVE  IsFiniteSet(Range(h))
<1>1. \A X \in Range(h) : \E x \in S : h[x] = X
  BY DEF Range
<1> DEFINE g == [x \in S |-> h[x]]
<1>2. g \in [S -> Range(h)]
  BY DEF Range
<1>3. \A X \in Range(h) : \E x \in S : g[x] = X
  BY <1>1
<1> HIDE DEF g
<1>4. g \in Surjection(S, Range(h))
  BY <1>2, <1>3, Fun_IsSurj
<1> QED BY <1>4, FS_Surjection

Poids(s) == Long[CHOOSE e \in s : TRUE]
Segment(e) == {e, Rev[e]}

LEMMA SegmentFaits ==
  ASSUME NEW e \in Edges
  PROVE  /\ Rev[e] \in Edges
         /\ Segment(e) = Segment(Rev[e])
         /\ Poids(Segment(e)) = Long[e]
<1>1. Rev[e] \in Edges /\ Rev[Rev[e]] = e /\ Long[Rev[e]] = Long[e]
  BY GrapheAssumption
<1>2. (CHOOSE x \in Segment(e) : TRUE) \in Segment(e)
  BY DEF Segment
<1>3. (CHOOSE x \in Segment(e) : TRUE) = e \/ (CHOOSE x \in Segment(e) : TRUE) = Rev[e]
  BY <1>2 DEF Segment
<1> QED BY <1>1, <1>3 DEF Segment, Poids

\* A path walks each of its segments once.
LEMMA SegmentsDistincts ==
  ASSUME NEW p, DOMAIN p \in SUBSET Int, \A i \in DOMAIN p : p[i] \in Edges, Simple(p),
         NEW x \in DOMAIN p, NEW y \in DOMAIN p, Segment(p[x]) = Segment(p[y])
  PROVE  x = y
<1>1. ASSUME NEW a \in DOMAIN p, NEW b \in DOMAIN p, a < b
      PROVE  Segment(p[a]) # Segment(p[b])
  <2>1. Src[p[a]] # Src[p[b]] /\ Src[p[a]] # Tgt[p[b]]
    <3>1. a <= b
      BY <1>1
    <3> QED BY <1>1, <3>1 DEF Simple
  <2>2. Src[Rev[p[b]]] = Tgt[p[b]]
    BY GrapheAssumption
  <2>3. p[a] # p[b] /\ p[a] # Rev[p[b]]
    BY <2>1, <2>2
  <2> QED BY <2>3 DEF Segment
<1>2. x < y \/ y < x \/ x = y
  OBVIOUS
<1> QED BY <1>1, <1>2

\* What a set of edges covers, either direction counting for the same segment.
Couvert(E) == SumFunction([s \in Segments(E) |-> Poids(s)])

\* Beyond what is retraced, a path adds the length of its new segments.
LEMMA CouvertAjoute ==
  ASSUME NEW E \in SUBSET Edges, IsFiniteSet(E), used = E,
         NEW n \in Nat, NEW p \in [1 .. n -> Edges], Simple(p)
  PROVE  /\ Longueur(p) \in Nat /\ Repasse(p) \in Nat
         /\ Couvert(E) \in Nat /\ Couvert(E \cup Range(p)) \in Nat
         /\ Longueur(p) - Repasse(p) = Couvert(E \cup Range(p)) - Couvert(E)
<1> DEFINE D == 1 .. n
           G == E \cup Range(p)
           S == Segments(G)
           V == Segments(E)
           N == S \ V
           F == [s \in S |-> Poids(s)]
           Nouveaux == {i \in D : ~DejaPris(p[i])}
           Deja == D \ Nouveaux
           fL == [i \in D |-> Long[p[i]]]
           fR == [i \in D |-> IF DejaPris(p[i]) THEN Long[p[i]] ELSE 0]
           b == [i \in Nouveaux |-> Segment(p[i])]
<1>1. IsFiniteSet(D)
  BY FS_Interval
<1>2. G \in SUBSET Edges /\ IsFiniteSet(G) /\ E \in SUBSET G
  <2>1. IsFiniteSet(Range(p))
    BY <1>1, ImageFinie
  <2>2. Range(p) \in SUBSET Edges
    BY DEF Range
  <2> QED BY <2>1, <2>2, FS_Union
<1>3. \A X \in SUBSET Edges : Segments(X) = {Segment(e) : e \in X}
  BY DEF Segments, Segment
<1>4. IsFiniteSet(S) /\ V \in SUBSET S
  <2> DEFINE g == [e \in G |-> Segment(e)]
  <2>1. Range(g) = S
    BY <1>2, <1>3 DEF Range
  <2>2. DOMAIN g = G
    OBVIOUS
  <2> HIDE DEF g, G, S
  <2>3. IsFiniteSet(S)
    BY <1>2, <2>1, <2>2, ImageFinie
  <2> QED BY <1>2, <1>3, <2>3 DEF S
<1>5. \A s \in S : Poids(s) \in Nat
  <2> SUFFICES ASSUME NEW s \in S
               PROVE  Poids(s) \in Nat
    OBVIOUS
  <2>1. PICK e \in Edges : s = Segment(e)
    BY <1>2, <1>3
  <2>2. Long[e] \in Nat
    BY GrapheAssumption
  <2> QED BY <2>1, <2>2, SegmentFaits
<1>6. F \in [S -> Nat]
  BY <1>5
<1>7. fL \in [D -> Nat] /\ fR \in [D -> Nat]
  BY GrapheAssumption
<1>8. /\ Longueur(p) = Cardinality(Unites(fL, D))
      /\ Repasse(p) = Cardinality(Unites(fR, D))
  <2>1. Longueur(p) = SumFunction(fL) /\ Repasse(p) = SumFunction(fR)
    BY DEF Longueur, Repasse
  <2> HIDE DEF D, fL, fR
  <2> QED BY <1>1, <1>7, <2>1, SommeCompte
<1>9. /\ Couvert(G) = Cardinality(Unites(F, S))
      /\ Couvert(E) = Cardinality(Unites(F, V))
  <2> DEFINE H == [s \in V |-> Poids(s)]
  <2>1. H \in [V -> Nat] /\ IsFiniteSet(V)
    BY <1>4, <1>5, FS_Subset
  <2>2. Couvert(G) = SumFunction(F) /\ Couvert(E) = SumFunction(H)
    BY DEF Couvert
  <2>3. Unites(F, V) = Unites(H, V)
    BY <1>4 DEF Unites
  <2> HIDE DEF F, H, S, V
  <2> QED BY <1>4, <1>6, <2>1, <2>2, <2>3, SommeCompte
<1>10. Cardinality(Unites(F, S)) = Cardinality(Unites(F, V)) + Cardinality(Unites(F, N))
  <2>1. S = V \cup N /\ V \cap N = {} /\ N \in SUBSET S
    BY <1>4
  <2> HIDE DEF F, S, V, N
  <2> QED BY <1>4, <1>6, <2>1, UnitesReunion
<1>11. /\ Nouveaux \in SUBSET D /\ Deja \in SUBSET D
       /\ D = Nouveaux \cup Deja /\ Nouveaux \cap Deja = {}
  OBVIOUS
<1>12. Cardinality(Unites(fL, D)) = Cardinality(Unites(fL, Nouveaux)) + Cardinality(Unites(fL, Deja))
  <2> HIDE DEF D, fL, Nouveaux, Deja
  <2> QED BY <1>1, <1>7, <1>11, UnitesReunion
<1>13. Unites(fR, D) = Unites(fL, Deja)
  <2>1. \A i \in Deja : i \in D /\ fR[i] = fL[i]
    OBVIOUS
  <2>2. \A i \in D : i \notin Deja => fR[i] = 0
    OBVIOUS
  <2>3. \A i \in D : i \notin Deja => 1 .. fR[i] = {}
    BY <2>2
  <2> HIDE DEF D, fL, fR, Deja
  <2> QED BY <2>1, <2>3 DEF Unites
<1>14. \A i \in D : p[i] \in G /\ p[i] \in Edges
  BY DEF Range
<1>15. ASSUME NEW i \in Nouveaux
       PROVE  Segment(p[i]) \in N
  <2>1. Segment(p[i]) \in S
    BY <1>2, <1>3, <1>14
  <2>2. ASSUME NEW e \in E, Segment(p[i]) = Segment(e)
        PROVE  FALSE
    <3>1. p[i] = e \/ p[i] = Rev[e]
      BY <2>2 DEF Segment
    <3>2. Rev[Rev[e]] = e
      BY GrapheAssumption
    <3> QED BY <3>1, <3>2 DEF DejaPris
  <2> QED BY <1>3, <2>1, <2>2
<1>16. ASSUME NEW s \in N
       PROVE  \E i \in Nouveaux : b[i] = s
  <2>1. PICK e \in G : s = Segment(e)
    BY <1>2, <1>3
  <2>2. e \notin E
    BY <1>3, <2>1
  <2>3. PICK i \in D : p[i] = e
    BY <2>2 DEF Range
  <2>4. Rev[e] \notin E
    BY <1>3, <1>14, <2>1, <2>3, SegmentFaits
  <2>5. i \in Nouveaux
    BY <2>2, <2>3, <2>4 DEF DejaPris
  <2> QED BY <2>1, <2>3, <2>5
<1>17. \A i \in Nouveaux : fL[i] = F[b[i]]
  <2> SUFFICES ASSUME NEW i \in Nouveaux
               PROVE  fL[i] = F[b[i]]
    OBVIOUS
  <2>1. b[i] = Segment(p[i]) /\ b[i] \in S
    BY <1>15
  <2>2. Poids(Segment(p[i])) = Long[p[i]]
    BY <1>14, SegmentFaits
  <2> QED BY <2>1, <2>2
<1>18. \A x, y \in Nouveaux : b[x] = b[y] => x = y
  BY SegmentsDistincts
<1>19. b \in [Nouveaux -> N]
  BY <1>15
<1>20. Cardinality(Unites(fL, Nouveaux)) = Cardinality(Unites(F, N))
  <2>1. \A s \in N : F[s] \in Nat
    BY <1>6
  <2> HIDE DEF D, fL, F, b, N, Nouveaux
  <2> QED BY <1>1, <1>7, <1>11, <1>16, <1>17, <1>18, <1>19, <2>1, UnitesBijection
<1>21. /\ IsFiniteSet(Unites(F, N)) /\ IsFiniteSet(Unites(F, V)) /\ IsFiniteSet(Unites(F, S))
       /\ IsFiniteSet(Unites(fL, D)) /\ IsFiniteSet(Unites(fR, D))
  <2>1. N \in SUBSET S /\ V \in SUBSET S /\ S \in SUBSET S /\ D \in SUBSET D
    BY <1>4
  <2> HIDE DEF D, fL, fR, F, N, V, S
  <2> QED BY <1>1, <1>4, <1>6, <1>7, <2>1, UnitesFinies
<1> HIDE DEF D, G, S, V, N, F, Nouveaux, Deja, fL, fR, b
<1>22. /\ Cardinality(Unites(F, S)) \in Nat /\ Cardinality(Unites(F, V)) \in Nat
       /\ Cardinality(Unites(F, N)) \in Nat
       /\ Cardinality(Unites(fL, D)) \in Nat /\ Cardinality(Unites(fR, D)) \in Nat
  BY <1>21, FS_CardinalityType
<1>23. Longueur(p) - Repasse(p) = Couvert(G) - Couvert(E)
  BY <1>8, <1>9, <1>10, <1>12, <1>13, <1>20, <1>22
<1> QED BY <1>8, <1>9, <1>22, <1>23 DEF G

Boucles == [nodes : Seq(Nodes), edges : Seq(Edges), lengthM : Nat, retracedM : Nat]
\* A walk of l from a to z, without a gap.
Collee(l, a, z) ==
  /\ l \in Boucles
  /\ l.nodes[1] = a
  /\ Len(l.nodes) = Len(l.edges) + 1
  /\ \A j \in DOMAIN l.edges : /\ Src[l.edges[j]] = l.nodes[j]
                               /\ Tgt[l.edges[j]] = l.nodes[j + 1]
  /\ l.nodes[Len(l.nodes)] = z
Collage(l, p, x, y) ==
  [nodes |-> l.nodes \o [j \in DOMAIN p |-> Tgt[p[j]]], edges |-> l.edges \o p,
   lengthM |-> x, retracedM |-> y]

LEMMA CheminFaits ==
  ASSUME NEW a \in Nodes, NEW z \in Nodes, NEW p \in Chemins(a, z)
  PROVE  /\ p \in Seq(Edges) /\ Simple(p)
         /\ Len(p) = 0 => a = z
         /\ Len(p) > 0 => Src[p[1]] = a /\ Tgt[p[Len(p)]] = z
<1>1. CASE a = z
  <2>1. p = <<>>
    BY <1>1 DEF Chemins
  <2> QED BY <1>1, <2>1 DEF Simple, Enchaine
<1>2. CASE a # z
  <2>1. p \in Simples /\ Src[p[1]] = a /\ Tgt[p[Len(p)]] = z
    BY <1>2 DEF Chemins
  <2>2. Cardinality(Nodes) \in Nat
    BY GrapheAssumption, FS_CardinalityType
  <2>3. PICK n \in 1 .. Cardinality(Nodes) - 1 : p \in [1 .. n -> Edges]
    BY <2>1 DEF Simples
  <2>4. n \in Nat /\ n > 0
    BY <2>2, <2>3
  <2>5. p \in Seq(Edges) /\ Len(p) = n
    BY <2>3, <2>4
  <2> QED BY <2>1, <2>4, <2>5 DEF Simples
<1> QED BY <1>1, <1>2

LEMMA CollageFaits ==
  ASSUME NEW a \in Nodes, NEW c \in Nodes, NEW z \in Nodes, NEW l, Collee(l, a, c),
         NEW p \in Chemins(c, z), NEW x \in Nat, NEW y \in Nat
  PROVE  Collee(Collage(l, p, x, y), a, z)
<1> DEFINE ns == l.nodes
           es == l.edges
           q == [j \in DOMAIN p |-> Tgt[p[j]]]
           n == Len(es)
           m == Len(p)
<1>1. /\ ns \in Seq(Nodes) /\ es \in Seq(Edges) /\ n \in Nat
      /\ ns[1] = a /\ Len(ns) = n + 1 /\ ns[n + 1] = c
      /\ \A j \in 1 .. n : Src[es[j]] = ns[j] /\ Tgt[es[j]] = ns[j + 1]
  BY DEF Collee, Boucles
<1>2. /\ p \in Seq(Edges) /\ m \in Nat /\ DOMAIN p = 1 .. m
      /\ m = 0 => c = z
      /\ m > 0 => Src[p[1]] = c /\ Tgt[p[m]] = z
      /\ \A j \in 1 .. m - 1 : Tgt[p[j]] = Src[p[j + 1]]
  BY CheminFaits DEF Simple, Enchaine
<1>3. q \in Seq(Nodes) /\ Len(q) = m /\ \A j \in 1 .. m : q[j] = Tgt[p[j]]
  <2>1. \A j \in 1 .. m : Tgt[p[j]] \in Nodes
    BY <1>2, GrapheAssumption
  <2> HIDE DEF m
  <2>2. q = [j \in 1 .. m |-> Tgt[p[j]]]
    BY <1>2
  <2>3. q \in [1 .. m -> Nodes]
    BY <2>1, <2>2
  <2> QED BY <1>2, <2>2, <2>3
<1> HIDE DEF ns, es, q, n, m
<1> DEFINE NS == ns \o q
           ES == es \o p
<1>4. /\ NS \in Seq(Nodes) /\ Len(NS) = n + 1 + m
      /\ \A j \in 1 .. n + 1 : NS[j] = ns[j]
      /\ \A j \in 1 .. m : NS[n + 1 + j] = q[j]
  <2>1. n \in Nat /\ m \in Nat
    BY <1>1, <1>2
  <2>2. ns \in Seq(Nodes) /\ q \in Seq(Nodes) /\ Len(ns) = n + 1 /\ Len(q) = m
    BY <1>1, <1>3
  <2>3. NS \in Seq(Nodes) /\ Len(NS) = n + 1 + m
    BY <2>1, <2>2
  <2>4. \A j \in 1 .. n + 1 : NS[j] = ns[j]
    BY <2>1, <2>2
  <2>5. \A j \in 1 .. m : NS[n + 1 + j] = q[j]
    BY <2>1, <2>2
  <2> QED BY <2>3, <2>4, <2>5
<1>5. /\ ES \in Seq(Edges) /\ Len(ES) = n + m
      /\ \A j \in 1 .. n : ES[j] = es[j]
      /\ \A j \in 1 .. m : ES[n + j] = p[j]
  BY <1>1, <1>2 DEF n, m
<1> HIDE DEF NS, ES
<1>6. NS[1] = a /\ NS[Len(NS)] = z
  <2>1. NS[1] = a
    BY <1>1, <1>4
  <2>2. CASE m = 0
    BY <1>1, <1>2, <1>4, <2>2
  <2>3. CASE m # 0
    <3>1. m \in 1 .. m /\ m > 0
      BY <1>2, <2>3
    <3>2. NS[n + 1 + m] = q[m] /\ q[m] = Tgt[p[m]]
      BY <1>3, <1>4, <3>1
    <3> QED BY <1>2, <1>4, <2>1, <3>1, <3>2
  <2> QED BY <2>1, <2>2, <2>3
<1>7. ASSUME NEW j \in 1 .. n + m
      PROVE  Src[ES[j]] = NS[j] /\ Tgt[ES[j]] = NS[j + 1]
  <2>1. CASE j \in 1 .. n
    <3>1. j + 1 \in 1 .. n + 1 /\ j \in 1 .. n + 1
      BY <1>1, <2>1
    <3> QED BY <1>1, <1>4, <1>5, <2>1, <3>1
  <2>2. CASE j \notin 1 .. n
    <3>1. PICK t \in 1 .. m : j = n + t
      <4>1. j - n \in 1 .. m /\ j = n + (j - n)
        BY <1>1, <1>2, <2>2
      <4> QED BY <4>1
    <3>2. ES[j] = p[t]
      BY <1>5, <3>1
    <3>3. j + 1 = n + 1 + t
      BY <1>1, <3>1
    <3>4. NS[j + 1] = Tgt[p[t]]
      BY <1>3, <1>4, <3>3
    <3>5. CASE t = 1
      <4>1. j = n + 1 /\ n + 1 \in 1 .. n + 1 /\ m > 0
        BY <1>1, <1>2, <3>1, <3>5
      <4>2. NS[j] = c
        BY <1>1, <1>4, <4>1
      <4> QED BY <1>2, <3>2, <3>4, <3>5, <4>1, <4>2
    <3>6. CASE t # 1
      <4>1. t - 1 \in 1 .. m - 1 /\ t - 1 \in 1 .. m /\ j = n + 1 + (t - 1) /\ (t - 1) + 1 = t
        BY <1>1, <1>2, <3>1, <3>6
      <4>2. NS[j] = Tgt[p[t - 1]]
        BY <1>3, <1>4, <4>1
      <4>3. Tgt[p[t - 1]] = Src[p[(t - 1) + 1]]
        BY <1>2, <4>1
      <4> QED BY <3>2, <3>4, <4>1, <4>2, <4>3
    <3> QED BY <3>5, <3>6
  <2> QED BY <2>1, <2>2
<1>8. Collage(l, p, x, y) = [nodes |-> NS, edges |-> ES, lengthM |-> x, retracedM |-> y]
  BY DEF Collage, NS, ES, ns, es, q
<1>9. DOMAIN ES = 1 .. n + m /\ Len(NS) = Len(ES) + 1
  BY <1>1, <1>2, <1>4, <1>5
<1> QED BY <1>4, <1>5, <1>6, <1>7, <1>8, <1>9 DEF Collee, Boucles

\* The invariant of a try, in the words of the lemmas.
LEMMA InvEnCollee ==
  IInvBoucle <=>
    /\ start \in Nodes /\ current \in Nodes
    /\ Collee(loop, start, IF fin = "ok" THEN start ELSE current)
    /\ used = Range(loop.edges)
    /\ fin # "ErrNoLoopFound"
    /\ loop.lengthM - loop.retracedM = Couvert(Range(loop.edges))
<1>1. loop \in Boucles => loop.edges \in Seq(Edges)
  BY DEF Boucles
<1>2. RetraceJuste <=> loop.lengthM - loop.retracedM = Couvert(Range(loop.edges))
  BY DEF RetraceJuste, Couvert, Poids
<1>3. Marche /\ Recollee <=>
        /\ start \in Nodes /\ current \in Nodes
        /\ Collee(loop, start, IF fin = "ok" THEN start ELSE current)
        /\ used = Range(loop.edges)
        /\ fin # "ErrNoLoopFound"
  BY DEF Marche, Recollee, Collee, Boucles
<1> QED BY <1>2, <1>3 DEF IInvBoucle, BoucleJuste

\* A loop of one node covers nothing.
LEMMA VideFaits ==
  ASSUME NEW n \in Nodes
  PROVE  /\ Collee(Vide(n), n, n)
         /\ {} = Range(Vide(n).edges)
         /\ Vide(n).lengthM - Vide(n).retracedM = Couvert(Range(Vide(n).edges))
<1>1. Vide(n).edges = <<>> /\ Vide(n).nodes = <<n>> /\ Vide(n).lengthM = 0 /\ Vide(n).retracedM = 0
  BY DEF Vide
<1>2. Range(Vide(n).edges) = {}
  BY <1>1 DEF Range
<1>3. Couvert({}) = 0
  <2> DEFINE F == [s \in Segments({}) |-> Poids(s)]
  <2>1. Segments({}) = {}
    BY DEF Segments
  <2>2. F \in [{} -> Nat] /\ IsFiniteSet({})
    BY <2>1, FS_EmptySet
  <2>3. SumFunction(F) = Cardinality(Unites(F, {}))
    <3> HIDE DEF F
    <3> QED BY <2>2, SommeCompte
  <2>4. Unites(F, {}) = {}
    BY DEF Unites
  <2> QED BY <2>3, <2>4, FS_EmptySet DEF Couvert
<1>4. Collee(Vide(n), n, n)
  <2>1. <<n>> \in Seq(Nodes) /\ <<>> \in Seq(Edges) /\ Len(<<n>>) = 1 /\ Len(<<>>) = 0
    OBVIOUS
  <2>2. Vide(n) \in Boucles
    BY <2>1 DEF Vide, Boucles
  <2> QED BY <1>1, <2>1, <2>2 DEF Collee
<1>5. Vide(n).lengthM - Vide(n).retracedM = 0
  BY <1>1
<1> QED BY <1>2, <1>3, <1>4, <1>5

\* appendSegment keeps the walk and its figures.
LEMMA SegmentAjoute ==
  ASSUME IInvBoucle, fin # "ok", NEW z \in Nodes, NEW p \in Chemins(current, z),
         appendSegment(p)
  PROVE  /\ Collee(loop', start, z)
         /\ used' = Range(loop'.edges)
         /\ loop'.lengthM - loop'.retracedM = Couvert(Range(loop'.edges))
<1>1. /\ start \in Nodes /\ current \in Nodes /\ Collee(loop, start, current)
      /\ used = Range(loop.edges)
      /\ loop.lengthM - loop.retracedM = Couvert(Range(loop.edges))
  BY InvEnCollee
<1>2. /\ loop.edges \in Seq(Edges) /\ loop.lengthM \in Nat /\ loop.retracedM \in Nat
  BY <1>1 DEF Collee, Boucles
<1>3. /\ p \in Seq(Edges) /\ Simple(p)
  BY <1>1, CheminFaits
<1> DEFINE E == Range(loop.edges)
           x == loop.lengthM + Longueur(p)
           y == loop.retracedM + Repasse(p)
<1>4. E \in SUBSET Edges /\ IsFiniteSet(E)
  <2>1. DOMAIN loop.edges = 1 .. Len(loop.edges) /\ Len(loop.edges) \in Nat
    BY <1>2
  <2>2. IsFiniteSet(DOMAIN loop.edges)
    BY <2>1, FS_Interval
  <2>3. \A j \in DOMAIN loop.edges : loop.edges[j] \in Edges
    BY <1>2
  <2> QED BY <2>2, <2>3, ImageFinie DEF Range
<1>5. p \in [1 .. Len(p) -> Edges] /\ Len(p) \in Nat
  BY <1>3
<1>6. /\ Longueur(p) \in Nat /\ Repasse(p) \in Nat
      /\ Couvert(E) \in Nat /\ Couvert(E \cup Range(p)) \in Nat
      /\ Longueur(p) - Repasse(p) = Couvert(E \cup Range(p)) - Couvert(E)
  <2> HIDE DEF E
  <2>1. used = E
    BY <1>1 DEF E
  <2> QED BY <1>3, <1>4, <1>5, <2>1, CouvertAjoute
<1>7. loop' = Collage(loop, p, x, y) /\ used' = used \cup Range(p)
  BY DEF appendSegment, Collage
<1>8. x \in Nat /\ y \in Nat
  BY <1>2, <1>6
<1>9. /\ loop'.edges = loop.edges \o p /\ loop'.lengthM = x /\ loop'.retracedM = y
  BY <1>7 DEF Collage
<1>10. Range(loop.edges \o p) = E \cup Range(p)
  <2> DEFINE es == loop.edges
             n == Len(es)
             m == Len(p)
  <2>1. es \in Seq(Edges) /\ n \in Nat /\ m \in Nat
    BY <1>2, <1>3
  <2> HIDE DEF es
  <2>2. /\ DOMAIN es = 1 .. n /\ DOMAIN p = 1 .. m /\ DOMAIN (es \o p) = 1 .. n + m
        /\ \A j \in 1 .. n : (es \o p)[j] = es[j]
        /\ \A j \in 1 .. m : (es \o p)[n + j] = p[j]
    BY <1>3, <2>1
  <2> HIDE DEF n, m
  <2>3. \A j \in 1 .. n + m : (es \o p)[j] \in Range(es) \cup Range(p)
    <3> SUFFICES ASSUME NEW j \in 1 .. n + m
                 PROVE  (es \o p)[j] \in Range(es) \cup Range(p)
      OBVIOUS
    <3>1. CASE j \in 1 .. n
      BY <2>2, <3>1 DEF Range
    <3>2. CASE j \notin 1 .. n
      <4>1. j - n \in 1 .. m /\ n + (j - n) = j
        BY <2>1, <3>2
      <4> QED BY <2>2, <4>1 DEF Range
    <3> QED BY <3>1, <3>2
  <2>4. \A j \in 1 .. n : j \in 1 .. n + m
    BY <2>1
  <2>5. \A j \in 1 .. m : n + j \in 1 .. n + m
    BY <2>1
  <2>6. Range(es \o p) = Range(es) \cup Range(p)
    <3>1. ASSUME NEW e \in Range(es \o p)
          PROVE  e \in Range(es) \cup Range(p)
      BY <2>2, <2>3 DEF Range
    <3>2. ASSUME NEW e \in Range(es)
          PROVE  e \in Range(es \o p)
      <4>1. PICK j \in 1 .. n : es[j] = e
        BY <2>2 DEF Range
      <4>2. (es \o p)[j] = e /\ j \in 1 .. n + m
        BY <2>2, <2>4, <4>1
      <4> QED BY <2>2, <4>2 DEF Range
    <3>3. ASSUME NEW e \in Range(p)
          PROVE  e \in Range(es \o p)
      <4>1. PICK j \in 1 .. m : p[j] = e
        BY <2>2 DEF Range
      <4>2. (es \o p)[n + j] = e /\ n + j \in 1 .. n + m
        BY <2>2, <2>5, <4>1
      <4> QED BY <2>2, <4>2 DEF Range
    <3> QED BY <3>1, <3>2, <3>3
  <2> QED BY <2>6 DEF es
<1>11. Collee(loop', start, z)
  <2> HIDE DEF x, y
  <2> QED BY <1>1, <1>7, <1>8, CollageFaits
<1>12. used' = Range(loop'.edges)
  BY <1>1, <1>7, <1>9, <1>10
<1>13. x - y = Couvert(E \cup Range(p))
  <2> DEFINE a == loop.lengthM
             b == loop.retracedM
             c == Longueur(p)
             d == Repasse(p)
             u == Couvert(E)
             v == Couvert(E \cup Range(p))
  <2>1. /\ a \in Nat /\ b \in Nat /\ c \in Nat /\ d \in Nat /\ u \in Nat /\ v \in Nat
        /\ a - b = u /\ c - d = v - u
    BY <1>1, <1>2, <1>6
  <2> HIDE DEF a, b, c, d, u, v
  <2>2. (a + c) - (b + d) = v
    BY <2>1
  <2> QED BY <2>2 DEF a, b, c, d, v
<1> QED BY <1>9, <1>10, <1>11, <1>12, <1>13

\* The other way, in the next state.
LEMMA InvDeCollee ==
  ASSUME start' \in Nodes, current' \in Nodes,
         Collee(loop', start', IF fin' = "ok" THEN start' ELSE current'),
         used' = Range(loop'.edges),
         fin' # "ErrNoLoopFound",
         loop'.lengthM - loop'.retracedM = Couvert(Range(loop'.edges))
  PROVE  IInvBoucle'
<1>1. loop' \in Boucles
  BY DEF Collee
<1>2. RetraceJuste'
  BY DEF RetraceJuste, Couvert, Poids
<1>3. Marche'
  BY <1>1 DEF Marche, Collee, Boucles
<1>4. Recollee'
  BY <1>1 DEF Recollee, Collee, Boucles
<1> QED BY <1>2, <1>3, <1>4 DEF IInvBoucle, BoucleJuste

LEMMA BoucleStep ==
  ASSUME IInvBoucle, NextBoucle
  PROVE  IInvBoucle'
<1>0. /\ start \in Nodes /\ current \in Nodes
      /\ Collee(loop, start, IF fin = "ok" THEN start ELSE current)
      /\ used = Range(loop.edges)
      /\ fin # "ErrNoLoopFound"
      /\ loop.lengthM - loop.retracedM = Couvert(Range(loop.edges))
  BY InvEnCollee
<1>1. CASE Sauter
  <2>1. UNCHANGED <<start, current, used, loop, fin>>
    BY <1>1 DEF Sauter
  <2> QED BY <1>0, <2>1, InvDeCollee
<1>2. ASSUME NEW wp \in Nodes, Gagner(wp)
      PROVE  IInvBoucle'
  <2>1. PICK p \in Chemins(current, wp) : appendSegment(p)
    BY <1>2 DEF Gagner
  <2>2. /\ fin = "aucune" /\ fin' = fin /\ start' = start /\ current' = wp
    BY <1>2 DEF Gagner, EnRoute
  <2>3. /\ Collee(loop', start, wp)
        /\ used' = Range(loop'.edges)
        /\ loop'.lengthM - loop'.retracedM = Couvert(Range(loop'.edges))
    BY <2>1, <2>2, SegmentAjoute
  <2> QED BY <1>0, <2>2, <2>3, InvDeCollee
<1>3. CASE Renoncer
  <2>1. UNCHANGED <<start, current, used, loop>> /\ fin = "aucune" /\ fin' = "err"
    BY <1>3 DEF Renoncer
  <2> QED BY <1>0, <2>1, InvDeCollee
<1>4. CASE Rentrer
  <2>1. PICK p \in Chemins(current, start) : appendSegment(p)
    BY <1>4 DEF Rentrer
  <2>2. /\ fin = "aucune" /\ start' = start /\ current' = current
        /\ fin' = IF loop'.nodes[Len(loop'.nodes)] # start THEN "ErrNoLoopFound" ELSE "ok"
    BY <1>4 DEF Rentrer
  <2>3. /\ Collee(loop', start, start)
        /\ used' = Range(loop'.edges)
        /\ loop'.lengthM - loop'.retracedM = Couvert(Range(loop'.edges))
    BY <1>0, <2>1, <2>2, SegmentAjoute
  <2>4. fin' = "ok"
    BY <2>2, <2>3 DEF Collee
  <2> QED BY <1>0, <2>2, <2>3, <2>4, InvDeCollee
<1> QED BY <1>1, <1>2, <1>3, <1>4 DEF NextBoucle

\* g is the recursion up to k.
Jusque(g, k, S, a, F) ==
  /\ g \in [0 .. k -> S] /\ g[0] = a
  /\ \A i \in 0 .. k - 1 : g[i + 1] = F[g[i]]

\* A recursion on the naturals defines a function.
LEMMA Recurrence ==
  ASSUME NEW S, NEW a \in S, NEW F \in [S -> S]
  PROVE  \E f \in [Nat -> S] : /\ f[0] = a
                               /\ \A k \in Nat : f[k + 1] = F[f[k]]
<1>1. ASSUME NEW k \in Nat
      PROVE  \E g : Jusque(g, k, S, a, F)
  <2> DEFINE T == {i \in Nat : ~\E g : Jusque(g, i, S, a, F)}
  <2>1. SUFFICES ASSUME T # {}
                 PROVE  FALSE
    OBVIOUS
  <2>2. PICK x \in T : \A y \in T : x <= y
    <3> HIDE DEF T
    <3>1. T \in SUBSET Nat
      BY DEF T
    <3> QED BY <2>1, <3>1, MinNat
  <2>3. x # 0
    <3>1. Jusque([i \in 0 .. 0 |-> a], 0, S, a, F)
      BY DEF Jusque
    <3> QED BY <3>1
  <2>4. x - 1 \in Nat /\ x - 1 \notin T
    BY <2>2, <2>3
  <2>5. PICK g : Jusque(g, x - 1, S, a, F)
    BY <2>4
  <2> DEFINE h == [i \in 0 .. x |-> IF i = x THEN F[g[x - 1]] ELSE g[i]]
  <2>6. \A i \in 0 .. x - 1 : i \in 0 .. x /\ i # x /\ h[i] = g[i] /\ g[i] \in S
    BY <2>4, <2>5 DEF Jusque
  <2>7. x \in 0 .. x /\ x - 1 \in 0 .. x - 1 /\ 0 \in 0 .. x - 1
    BY <2>4
  <2>8. h[x] = F[g[x - 1]] /\ h[x] \in S /\ h[0] = a
    BY <2>5, <2>6, <2>7 DEF Jusque
  <2>9. h \in [0 .. x -> S]
    <3>1. ASSUME NEW i \in 0 .. x
          PROVE  h[i] \in S
      <4>1. i = x \/ i \in 0 .. x - 1
        BY <2>4
      <4> HIDE DEF h
      <4> QED BY <4>1, <2>6, <2>8
    <3>2. \A i \in 0 .. x : (IF i = x THEN F[g[x - 1]] ELSE g[i]) \in S
      BY <3>1
    <3> QED BY <3>2
  <2>10. ASSUME NEW i \in 0 .. x - 1
         PROVE  h[i + 1] = F[h[i]]
    <3>1. CASE i = x - 1
      <4>1. i + 1 = x /\ h[i] = g[x - 1]
        BY <2>4, <2>6, <3>1
      <4> QED BY <2>8, <4>1
    <3>2. CASE i # x - 1
      <4>1. i \in 0 .. (x - 1) - 1 /\ i + 1 \in 0 .. x - 1
        BY <2>4, <3>2
      <4>2. h[i + 1] = g[i + 1] /\ h[i] = g[i]
        BY <4>1, <2>6
      <4> QED BY <4>1, <4>2, <2>5 DEF Jusque
    <3> QED BY <3>1, <3>2
  <2>11. Jusque(h, x, S, a, F)
    <3> HIDE DEF h
    <3> QED BY <2>8, <2>9, <2>10 DEF Jusque
  <2> QED BY <2>11
<1>2. ASSUME NEW j \in Nat, NEW k \in Nat, NEW g, NEW h, Jusque(g, j, S, a, F), Jusque(h, k, S, a, F), j <= k
      PROVE  \A i \in 0 .. j : g[i] = h[i]
  <2> DEFINE T == {i \in 0 .. j : g[i] # h[i]}
  <2>1. SUFFICES ASSUME T # {}
                 PROVE  FALSE
    OBVIOUS
  <2>2. PICK x \in T : \A y \in T : x <= y
    <3> HIDE DEF T
    <3>1. T \in SUBSET Nat
      BY DEF T
    <3> QED BY <2>1, <3>1, MinNat
  <2>3. x \in 0 .. j /\ g[x] # h[x] /\ x # 0
    BY <2>2, <1>2 DEF Jusque
  <2>4. x - 1 \in 0 .. j /\ x - 1 \in 0 .. j - 1 /\ x - 1 \in 0 .. k - 1 /\ (x - 1) + 1 = x
    BY <2>3, <1>2
  <2>5. g[x - 1] = h[x - 1]
    BY <2>2, <2>4
  <2>6. g[(x - 1) + 1] = F[g[x - 1]] /\ h[(x - 1) + 1] = F[h[x - 1]]
    BY <2>4, <1>2 DEF Jusque
  <2> QED BY <2>3, <2>4, <2>5, <2>6
<1> DEFINE G(k) == CHOOSE g : Jusque(g, k, S, a, F)
<1>3. \A k \in Nat : Jusque(G(k), k, S, a, F)
  BY <1>1
<1> HIDE DEF G
<1> DEFINE f == [k \in Nat |-> G(k)[k]]
<1>4. \A k \in Nat : f[k] \in S
  <2> TAKE k \in Nat
  <2>1. Jusque(G(k), k, S, a, F) /\ k \in 0 .. k
    BY <1>3
  <2> QED BY <2>1 DEF Jusque
<1>5. f[0] = a
  <2>1. Jusque(G(0), 0, S, a, F)
    BY <1>3
  <2> QED BY <2>1 DEF Jusque
<1>6. ASSUME NEW k \in Nat
      PROVE  f[k + 1] = F[f[k]]
  <2>1. Jusque(G(k), k, S, a, F) /\ Jusque(G(k + 1), k + 1, S, a, F) /\ k + 1 \in Nat
    BY <1>3
  <2>2. k \in 0 .. k /\ k \in 0 .. (k + 1) - 1 /\ k <= k + 1
    OBVIOUS
  <2>3. G(k)[k] = G(k + 1)[k]
    <3> QED BY <1>2, <2>1, <2>2
  <2>4. G(k + 1)[k + 1] = F[G(k + 1)[k]]
    BY <2>1, <2>2 DEF Jusque
  <2> QED BY <2>1, <2>3, <2>4
<1>7. f \in [Nat -> S]
  BY <1>4
<1> HIDE DEF f
<1> QED BY <1>5, <1>6, <1>7

\* Moities[n] doubles at each n, and is never 0.
LEMMA MoitiesFaits ==
  /\ Moities[0] = 1
  /\ \A n \in Nat : Moities[n] \in Nat \ {0} /\ Moities[n + 1] = 2 * Moities[n]
<1> DEFINE Pas(g) == [n \in Nat |-> IF n = 0 THEN 1 ELSE 2 * g[n - 1]]
           F == [x \in Nat |-> 2 * x]
<1>1. Moities = CHOOSE g : g = Pas(g)
  BY DEF Moities
<1>2. F \in [Nat -> Nat]
  OBVIOUS
<1>3. PICK h \in [Nat -> Nat] : h[0] = 1 /\ \A n \in Nat : h[n + 1] = F[h[n]]
  <2> DEFINE S == Nat
             a == 1
  <2>1. a \in S /\ F \in [S -> S]
    BY <1>2
  <2> HIDE DEF F, S, a
  <2>2. \E h \in [Nat -> S] : h[0] = a /\ \A n \in Nat : h[n + 1] = F[h[n]]
    BY <2>1, Recurrence
  <2> QED BY <2>2 DEF S, a
<1>4. ASSUME NEW n \in Nat
      PROVE  h[n] = IF n = 0 THEN 1 ELSE 2 * h[n - 1]
  <2>1. CASE n = 0
    BY <1>3, <2>1
  <2>2. CASE n # 0
    <3>1. n - 1 \in Nat /\ (n - 1) + 1 = n
      BY <2>2
    <3>2. h[(n - 1) + 1] = F[h[n - 1]]
      BY <1>3, <3>1
    <3> QED BY <2>2, <3>1, <3>2
  <2> QED BY <2>1, <2>2
<1>5. h = Pas(h)
  BY <1>4
<1>6. Moities = Pas(Moities)
  <2> HIDE DEF Pas
  <2> QED BY <1>1, <1>5
<1>7. /\ Moities[0] = 1
      /\ \A n \in Nat : Moities[n + 1] = 2 * Moities[n]
  <2>1. \A n \in Nat : Moities[n] = IF n = 0 THEN 1 ELSE 2 * Moities[n - 1]
    BY <1>6
  <2> HIDE DEF Pas
  <2> QED BY <2>1
<1>8. \A n \in Nat : Moities[n] \in Nat \ {0}
  <2> DEFINE T == {n \in Nat : Moities[n] \notin Nat \ {0}}
  <2> SUFFICES ASSUME T # {}
               PROVE  FALSE
    OBVIOUS
  <2>1. PICK n \in T : \A m \in T : n <= m
    <3>1. T \in SUBSET Nat
      OBVIOUS
    <3> HIDE DEF T
    <3> QED BY <3>1, MinNat
  <2>2. n # 0
    BY <1>7, <2>1
  <2>3. n - 1 \in Nat /\ (n - 1) + 1 = n /\ n - 1 \notin T
    BY <2>1, <2>2
  <2>4. Moities[n - 1] \in Nat \ {0}
    BY <2>3
  <2>5. Moities[n] = 2 * Moities[n - 1]
    BY <1>7, <2>3
  <2> DEFINE x == Moities[n - 1]
  <2>6. 2 * x \in Nat \ {0}
    <3> HIDE DEF x
    <3>1. x \in Nat \ {0}
      BY <2>4 DEF x
    <3> QED BY <3>1
  <2> QED BY <2>1, <2>5, <2>6
<1> QED BY <1>7, <1>8

\* A correction leaves half of the width on each side of the new factor.
LEMMA MoitieDuReste ==
  ASSUME NEW a \in Nat, NEW b \in Nat, NEW w \in Nat \ {0}, b - a >= 2 * w
  PROVE  /\ (a + b) \div 2 \in Nat
         /\ (a + b) \div 2 - a >= w /\ b - (a + b) \div 2 >= w
<1>1. (a + b) \div 2 \in Nat /\ 2 * ((a + b) \div 2) <= a + b /\ a + b <= 2 * ((a + b) \div 2) + 1
  OBVIOUS
<1> DEFINE m == (a + b) \div 2
<1>2. m \in Nat /\ 2 * m <= a + b /\ a + b <= 2 * m + 1
  BY <1>1
<1> HIDE DEF m
<1>3. m - a >= w /\ b - m >= w
  BY <1>2
<1> QED BY <1>2, <1>3 DEF m

LEMMA InitBissection == InitDirection => IInvDirection
<1> SUFFICES ASSUME InitDirection
             PROVE  IInvDirection
  OBVIOUS
<1>1. /\ start \in Nodes /\ current = start /\ used = {} /\ loop = Vide(start) /\ fin = "aucune"
      /\ iter = 0 /\ lo = DetourLo /\ hi = DetourHi /\ detour = DetourInitial /\ essais = {}
  BY DEF InitDirection, InitBoucle
<1>2. IInvBoucle
  BY <1>1, VideFaits, InvEnCollee
<1> DEFINE M == Moities[MaxRadiusIterations]
<1>3. M \in Nat \ {0} /\ MaxRadiusIterations - 0 = MaxRadiusIterations
  BY DetoursAssumption, MoitiesFaits
<1>4. /\ DetourLo \in Nat /\ DetourHi \in Nat /\ DetourInitial \in Nat
      /\ DetourInitial - DetourLo >= M /\ DetourHi - DetourInitial >= M
      /\ MaxRadiusIterations \in Nat
  BY DetoursAssumption
<1>5. Largeur
  BY <1>1, <1>3, <1>4 DEF Largeur
<1> HIDE DEF M
<1>6. Encadrement
  BY <1>1, <1>3, <1>4 DEF Encadrement
<1> QED BY <1>2, <1>5, <1>6 DEF IInvDirection

LEMMA ReprendreEncadre ==
  ASSUME IInvDirection, Reprendre
  PROVE  Largeur' /\ Encadrement'
<1> DEFINE long == loop.lengthM > DistanceM
           W == Moities[MaxRadiusIterations - iter]
           V == Moities[MaxRadiusIterations - (iter + 1)]
<1>1. /\ iter \in 0 .. MaxRadiusIterations /\ iter < MaxRadiusIterations
      /\ MaxRadiusIterations \in Nat
  BY DetoursAssumption DEF IInvDirection, Largeur, Reprendre, EnCours
<1>2. /\ iter' = iter + 1
      /\ lo' = (IF long THEN detour ELSE lo)
      /\ hi' = (IF long THEN hi ELSE detour)
      /\ detour' = (lo' + hi') \div 2
      /\ essais' = essais \cup {<<detour, long>>}
  BY DEF Reprendre, Corriger, Mesurer
<1>3. /\ lo \in Nat /\ hi \in Nat /\ detour \in Nat
      /\ detour - lo >= W /\ hi - detour >= W
      /\ DetourLo <= lo /\ hi <= DetourHi
      /\ \A e \in essais : /\ e[1] \in Nat /\ e[2] \in BOOLEAN
                           /\ IF e[2] THEN e[1] <= lo ELSE e[1] >= hi
  BY DEF IInvDirection, Largeur, Encadrement
<1>4. V \in Nat \ {0} /\ W = 2 * V
  <2>1. MaxRadiusIterations - (iter + 1) \in Nat
    BY <1>1
  <2>2. (MaxRadiusIterations - (iter + 1)) + 1 = MaxRadiusIterations - iter
    BY <1>1
  <2> QED BY <2>1, <2>2, MoitiesFaits
<1>5. iter' \in 0 .. MaxRadiusIterations /\ Moities[MaxRadiusIterations - iter'] = V
  BY <1>1, <1>2
<1>6. long \in BOOLEAN
  OBVIOUS
<1>7. DetourLo \in Nat /\ DetourHi \in Nat
  BY DetoursAssumption
<1> HIDE DEF long, W, V
<1>8. lo' \in Nat /\ hi' \in Nat /\ hi' - lo' >= 2 * V /\ DetourLo <= lo' /\ hi' <= DetourHi
      /\ lo <= lo' /\ hi' <= hi
  <2>1. CASE long
    BY <1>2, <1>3, <1>4, <1>7, <2>1
  <2>2. CASE ~long
    BY <1>2, <1>3, <1>4, <1>7, <2>2
  <2> QED BY <2>1, <2>2
<1>9. detour' \in Nat /\ detour' - lo' >= V /\ hi' - detour' >= V
  <2> DEFINE a == lo'
             b == hi'
  <2>1. a \in Nat /\ b \in Nat /\ b - a >= 2 * V
    BY <1>8
  <2> HIDE DEF a, b
  <2>2. /\ (a + b) \div 2 \in Nat
        /\ (a + b) \div 2 - a >= V /\ b - (a + b) \div 2 >= V
    BY <1>4, <2>1, MoitieDuReste
  <2> QED BY <1>2, <2>2 DEF a, b
<1>10. lo' < detour' /\ detour' < hi'
  <2> DEFINE a == lo'
             b == hi'
             d == detour'
  <2>1. a \in Nat /\ b \in Nat /\ d \in Nat /\ d - a >= V /\ b - d >= V
    BY <1>8, <1>9
  <2>2. V \in Nat \ {0}
    BY <1>4
  <2> HIDE DEF a, b, d
  <2>3. a < d /\ d < b
    BY <2>1, <2>2
  <2> QED BY <2>3 DEF a, b, d
<1>11. \A e \in essais' : /\ e[1] \in Nat /\ e[2] \in BOOLEAN
                          /\ IF e[2] THEN e[1] <= lo' ELSE e[1] >= hi'
  <2> SUFFICES ASSUME NEW e \in essais'
               PROVE  /\ e[1] \in Nat /\ e[2] \in BOOLEAN
                      /\ IF e[2] THEN e[1] <= lo' ELSE e[1] >= hi'
    OBVIOUS
  <2>1. CASE e \in essais
    <3>1. /\ e[1] \in Nat /\ e[2] \in BOOLEAN
          /\ IF e[2] THEN e[1] <= lo ELSE e[1] >= hi
      BY <1>3, <2>1
    <3> QED BY <1>3, <1>8, <3>1
  <2>2. CASE e = <<detour, long>>
    <3>1. e[1] = detour /\ e[2] = long
      BY <2>2
    <3>2. CASE long
      BY <1>2, <1>3, <1>6, <3>1, <3>2
    <3>3. CASE ~long
      BY <1>2, <1>3, <1>6, <3>1, <3>3
    <3> QED BY <3>2, <3>3
  <2> QED BY <1>2, <2>1, <2>2
<1>12. \A e \in essais' : e[1] # detour'
  <2> SUFFICES ASSUME NEW e \in essais', e[1] = detour'
               PROVE  FALSE
    OBVIOUS
  <2>1. /\ e[1] \in Nat
        /\ IF e[2] THEN e[1] <= lo' ELSE e[1] >= hi'
    BY <1>11
  <2> QED BY <1>8, <1>9, <1>10, <2>1
<1>13. Largeur'
  BY <1>5, <1>8, <1>9, <1>11 DEF Largeur
<1>14. Encadrement'
  BY <1>8, <1>9, <1>10, <1>11, <1>12 DEF Encadrement
<1> QED BY <1>13, <1>14

LEMMA BissectionStep == IInvDirection /\ [NextDirection]_varsDirection => IInvDirection'
<1> SUFFICES ASSUME IInvDirection, [NextDirection]_varsDirection
             PROVE  IInvDirection'
  OBVIOUS
<1>1. ASSUME UNCHANGED bisection
      PROVE  Largeur' /\ Encadrement'
  BY <1>1 DEF IInvDirection, Largeur, Encadrement, bisection
<1>2. ASSUME UNCHANGED varsBoucle
      PROVE  IInvBoucle'
  BY <1>2 DEF IInvDirection, IInvBoucle, BoucleJuste, Marche, Recollee, RetraceJuste, varsBoucle
<1>3. ASSUME UNCHANGED <<iter, lo, hi, detour, essais>>
      PROVE  Largeur' /\ Encadrement'
  BY <1>3 DEF IInvDirection, Largeur, Encadrement
<1>4. CASE Essayer
  <2>1. IInvBoucle'
    BY <1>4, BoucleStep DEF IInvDirection, Essayer
  <2> QED BY <1>1, <1>4, <2>1 DEF IInvDirection, Essayer
<1>5. CASE Rater \/ Retenir \/ Epuiser
  <2>1. UNCHANGED varsBoucle /\ UNCHANGED <<iter, lo, hi, detour, essais>>
    BY <1>5 DEF Rater, Retenir, Epuiser
  <2> QED BY <1>2, <1>3, <2>1 DEF IInvDirection
<1>6. CASE Reprendre
  <2>1. /\ current' = start /\ used' = {} /\ loop' = Vide(start) /\ fin' = "aucune"
        /\ start' = start
    BY <1>6 DEF Reprendre, Recommencer
  <2>2. start \in Nodes
    BY DEF IInvDirection, IInvBoucle, Marche
  <2>3. IInvBoucle'
    BY <2>1, <2>2, VideFaits, InvDeCollee
  <2> QED BY <1>6, <2>3, ReprendreEncadre DEF IInvDirection
<1>7. CASE FinDirection \/ UNCHANGED varsDirection
  <2>1. UNCHANGED varsBoucle /\ UNCHANGED bisection
    BY <1>7 DEF FinDirection, varsDirection
  <2> QED BY <1>1, <1>2, <2>1 DEF IInvDirection
<1> QED BY <1>4, <1>5, <1>6, <1>7 DEF NextDirection

\* The inductive invariant of a direction: the walk tryLoop glues and the bounds
\* of the bisection.
THEOREM InvariantDirection == SpecDirection => []IInvDirection
<1> QED BY InitBissection, BissectionStep, PTL DEF SpecDirection

\* Every loop of a direction is one closed walk without a gap, and RetracedM is
\* what it walks more than once: for any graph, waypoints and paths.
THEOREM BoucleCorrecte == SpecDirection => []BoucleJuste
<1>1. IInvDirection => BoucleJuste
  BY DEF IInvDirection, IInvBoucle
<1> QED BY <1>1, InvariantDirection, PTL

\* The bisection keeps its tries apart and its next try strictly between its
\* bounds: for any bounds that leave room for its iterations.
THEOREM EncadrementCorrect == SpecDirection => []Encadrement
<1>1. IInvDirection => Encadrement
  BY DEF IInvDirection
<1> QED BY <1>1, InvariantDirection, PTL

----------------------------------------------------------------------------
(* The corrections are enough. *)

\* The greater and the lesser of two integers.
LEMMA ExtremesDeux ==
  ASSUME NEW x \in Int, NEW y \in Int
  PROVE  /\ Max({x, y}) = IF x >= y THEN x ELSE y
         /\ Min({x, y}) = IF x <= y THEN x ELSE y
<1>1. PICK u : u = IF x >= y THEN x ELSE y
  OBVIOUS
<1>2. \A k \in {x, y} : (\A j \in {x, y} : k >= j) <=> k = u
  BY <1>1
<1>3. Max({x, y}) = u
  BY <1>1, <1>2 DEF Max
<1>4. PICK l : l = IF x <= y THEN x ELSE y
  OBVIOUS
<1>5. \A k \in {x, y} : (\A j \in {x, y} : k <= j) <=> k = l
  BY <1>4
<1>6. Min({x, y}) = l
  BY <1>4, <1>5 DEF Min
<1> QED BY <1>1, <1>3, <1>4, <1>6

\* What a try that is a tenth off says of a factor, rounded either way.
LEMMA MesureLongue ==
  ASSUME NEW l \in Nat, NEW d \in Nat \ {0}, NEW D \in Nat \ {0}, 11 * D < 10 * l
  PROVE  11 * d < 10 * ((l * d + D - 1) \div D)
<1>1. PICK m \in Nat : m = l * d
  OBVIOUS
<1>2. PICK c \in Nat : c = (m + D - 1) \div D
  OBVIOUS
<1>3. c * D >= m
  BY <1>1, <1>2
<1>4. (11 * D) * d < (10 * l) * d
  OBVIOUS
<1>5. (11 * d) * D < (10 * c) * D
  BY <1>1, <1>3, <1>4
<1>6. 11 * d < 10 * c
  BY <1>5
<1> QED BY <1>1, <1>2, <1>6

LEMMA MesureCourte ==
  ASSUME NEW l \in Nat, NEW d \in Nat \ {0}, NEW D \in Nat \ {0}, 10 * l < 9 * D
  PROVE  10 * ((l * d) \div D) < 9 * d
<1>1. PICK m \in Nat : m = l * d
  OBVIOUS
<1>2. PICK c \in Nat : c = m \div D
  OBVIOUS
<1>3. c * D <= m
  BY <1>1, <1>2
<1>4. (10 * l) * d < (9 * D) * d
  OBVIOUS
<1>5. (10 * c) * D < (9 * d) * D
  BY <1>1, <1>3, <1>4
<1>6. 10 * c < 9 * d
  BY <1>5
<1> QED BY <1>1, <1>2, <1>6

\* A correction halves what separates the bounds.
LEMMA ReprendreResserre ==
  ASSUME IInvDirection, Resserree, Reprendre
  PROVE  Resserree'
<1>1. PICK a, z, d, n, q : a = lo /\ z = hi /\ d = detour /\ n = iter /\ q = Moities[iter - 1]
  OBVIOUS
<1> DEFINE long == loop.lengthM > DistanceM
<1>2. long \in BOOLEAN
  OBVIOUS
<1>3. /\ lo' = (IF long THEN d ELSE a) /\ hi' = (IF long THEN z ELSE d)
      /\ detour' = (lo' + hi') \div 2 /\ iter' = n + 1
  BY <1>1 DEF Reprendre, Corriger
<1> HIDE DEF long
<1>4. n \in Nat /\ a \in Nat /\ z \in Nat /\ d \in Nat /\ a <= d /\ d <= z /\ a < z
  BY <1>1, DetoursAssumption DEF IInvDirection, Largeur, Encadrement
<1>5. PICK A, Z, I : A = DetourLo /\ Z = DetourHi /\ I = DetourInitial
  OBVIOUS
<1>6. A \in Nat /\ Z \in Nat /\ I \in Nat
  BY <1>5, DetoursAssumption
<1>7. PICK c, e : c = lo' /\ e = hi'
  OBVIOUS
<1>8. c = (IF long THEN d ELSE a) /\ e = (IF long THEN z ELSE d)
  BY <1>3, <1>7
<1>9. n + 1 > 0 /\ (n + 1) - 1 = n
  BY <1>4
<1>10. \/ e <= I /\ (e - c - 1) * Moities[n] < I - A
       \/ I <= c /\ (e - c - 1) * Moities[n] < Z - I
  <2>1. CASE n = 0
    <3>1. a = A /\ z = Z /\ d = I /\ Moities[n] = 1
      BY <1>1, <1>5, <2>1, MoitiesFaits DEF Resserree
    <3>2. (e - c - 1) * 1 = e - c - 1
      BY <1>4, <1>8
    <3>3. CASE long
      BY <1>4, <1>6, <1>8, <3>1, <3>2, <3>3
    <3>4. CASE ~long
      BY <1>4, <1>6, <1>8, <3>1, <3>2, <3>4
    <3> QED BY <3>3, <3>4
  <2>2. CASE n > 0
    <3>1. /\ d = (a + z) \div 2
          /\ \/ z <= I /\ (z - a - 1) * q < I - A
             \/ I <= a /\ (z - a - 1) * q < Z - I
      BY <1>1, <1>5, <2>2 DEF Resserree
    <3>2. q \in Nat \ {0} /\ Moities[n] = 2 * q
      <4>1. n - 1 \in Nat /\ (n - 1) + 1 = n
        BY <1>4, <2>2
      <4> QED BY <1>1, <4>1, MoitiesFaits
    <3>3. 2 * (e - c - 1) <= z - a - 1
      <4>1. 2 * d <= a + z /\ a + z <= 2 * d + 1
        BY <1>4, <3>1
      <4>2. CASE long
        BY <1>4, <1>8, <4>1, <4>2
      <4>3. CASE ~long
        BY <1>4, <1>8, <4>1, <4>3
      <4> QED BY <4>2, <4>3
    <3>4. c \in Nat /\ e \in Nat /\ a <= c /\ e <= z
      BY <1>4, <1>8
    <3>5. (e - c - 1) * (2 * q) <= (z - a - 1) * q
      <4>1. PICK x \in Int, y \in Int : x = e - c - 1 /\ y = z - a - 1
        BY <1>4, <3>4
      <4>2. 2 * x <= y
        BY <3>3, <4>1
      <4>3. (2 * x) * q <= y * q
        BY <3>2, <4>2
      <4>4. x * (2 * q) = (2 * x) * q
        BY <3>2
      <4> QED BY <4>1, <4>3, <4>4
    <3>6. PICK r \in Int, s \in Int : r = (e - c - 1) * (2 * q) /\ s = (z - a - 1) * q
      BY <1>4, <3>2, <3>4
    <3> QED BY <1>4, <1>6, <3>1, <3>2, <3>4, <3>5, <3>6
  <2> QED BY <1>4, <2>1, <2>2
<1>11. /\ detour' = (c + e) \div 2 /\ iter' = n + 1
       /\ \/ hi' <= DetourInitial /\ (hi' - lo' - 1) * Moities[iter' - 1] < DetourInitial - DetourLo
          \/ DetourInitial <= lo' /\ (hi' - lo' - 1) * Moities[iter' - 1] < DetourHi - DetourInitial
  BY <1>3, <1>5, <1>7, <1>9, <1>10
<1>12. iter' # 0
  BY <1>4, <1>11
<1> QED BY <1>7, <1>11, <1>12 DEF Resserree

\* What a try measures leaves, of the terrains that explained the others, those
\* that are a tenth beyond its factor at least.
LEMMA MesurerExplique ==
  ASSUME IInvDirection, Expliquee, Reprendre
  PROVE  Expliquee'
<1>1. PICK a, z, d, l, D, B, t1, t2 :
        /\ a = lo /\ z = hi /\ d = detour /\ l = loop.lengthM /\ D = DistanceM /\ B = Bruit
        /\ t1 = terrains[1] /\ t2 = terrains[2]
  OBVIOUS
<1> DEFINE long == loop.lengthM > DistanceM
<1>2. long <=> l > D
  BY <1>1
<1>3. PICK m, c, f : m = l * d /\ c = (m + D - 1) \div D /\ f = m \div D
  OBVIOUS
<1>4. /\ a \in Nat /\ z \in Nat /\ d \in Nat \ {0} /\ l \in Nat /\ D \in Nat \ {0} /\ B \in Nat
      /\ m \in Nat /\ c \in Nat /\ f \in Nat
  <2>1. lo \in Nat /\ hi \in Nat /\ detour \in Nat /\ DetourLo <= lo /\ lo <= detour
    BY DEF IInvDirection, Largeur, Encadrement
  <2>2. loop.lengthM \in Nat
    BY DEF IInvDirection, IInvBoucle, Marche
  <2>3. DetourLo \in Nat \ {0} /\ DistanceM \in Nat \ {0} /\ Bruit \in Nat
    BY DetoursAssumption
  <2>4. /\ a \in Nat /\ z \in Nat /\ d \in Nat \ {0} /\ l \in Nat /\ D \in Nat \ {0} /\ B \in Nat
    BY <1>1, <2>1, <2>2, <2>3
  <2>5. m \in Nat
    BY <1>3, <2>4
  <2> QED BY <1>3, <2>4, <2>5
<1>5. PICK u, v : u = Max({t1, c - B}) /\ v = Min({t2, f + B})
  OBVIOUS
<1>6. ASSUME t1 \in Int, t2 \in Int
      PROVE  /\ u \in Int /\ v \in Int /\ u >= t1 /\ u >= c - B /\ v <= t2 /\ v <= f + B
  <2>1. PICK x \in Int, y \in Int : x = c - B /\ y = f + B
    BY <1>4
  <2>2. u = Max({t1, x}) /\ v = Min({t2, y})
    BY <1>5, <2>1
  <2>3. u = (IF t1 >= x THEN t1 ELSE x) /\ v = (IF t2 <= y THEN t2 ELSE y)
    BY <1>6, <2>2, ExtremesDeux
  <2> QED BY <1>6, <2>1, <2>3
<1>7. /\ lo' = (IF long THEN d ELSE a) /\ hi' = (IF long THEN z ELSE d)
      /\ terrains' = IF u > v THEN Aucun ELSE <<u, v>>
  BY <1>1, <1>3, <1>5 DEF Reprendre, Corriger, Mesurer
<1> HIDE DEF long
<1>8. CASE terrains = Aucun
  <2>1. t1 = 1 /\ t2 = 0
    BY <1>1, <1>8 DEF Aucun
  <2>2. u >= 1 /\ v <= 0 /\ u \in Int /\ v \in Int
    BY <1>6, <2>1
  <2>3. u > v
    BY <2>2
  <2> QED BY <1>7, <2>3 DEF Expliquee
<1>9. CASE terrains # Aucun /\ u <= v
  <2>1. PICK A, Z : A = DetourLo /\ Z = DetourHi
    OBVIOUS
  <2>2. /\ A \in Nat /\ Z \in Nat /\ t1 \in Nat /\ t2 \in Nat /\ A <= t1 /\ t1 <= t2 /\ t2 <= Z
        /\ Tolerance >= 10 => /\ a = A \/ 11 * a < 10 * (t1 + B)
                              /\ z = Z \/ 10 * t2 < 9 * z + 10 * B
    BY <1>1, <1>9, <2>1, DetoursAssumption DEF Expliquee
  <2>3. /\ u \in Int /\ v \in Int /\ u >= t1 /\ u >= c - B /\ v <= t2 /\ v <= f + B
    BY <1>6, <2>2
  <2>4. u \in Nat /\ v \in Nat /\ A <= u /\ v <= Z
    BY <1>9, <2>2, <2>3
  <2>5. terrains' = <<u, v>>
    BY <1>7, <1>9, <2>4
  <2>6. ASSUME Tolerance >= 10
        PROVE  /\ lo' = A \/ 11 * lo' < 10 * (u + B)
               /\ hi' = Z \/ 10 * v < 9 * hi' + 10 * B
    <3>1. 100 * Distance(l, D) > Tolerance * D /\ Tolerance \in Nat
      <4>1. ~(100 * Distance(l, D) <= Tolerance * D)
        BY <1>1 DEF Reprendre, DansTolerance
      <4>2. Tolerance \in Nat /\ Distance(l, D) \in Int
        BY <1>4, DetoursAssumption DEF Distance
      <4> QED BY <1>4, <4>1, <4>2
    <3>2. Tolerance * D >= 10 * D
      BY <1>4, <2>6, <3>1
    <3>3. CASE long
      <4>1. 11 * D < 10 * l
        BY <1>2, <1>4, <3>1, <3>2, <3>3 DEF Distance
      <4>2. 11 * d < 10 * c
        BY <1>3, <1>4, <4>1, MesureLongue
      <4> QED BY <1>4, <1>7, <2>2, <2>3, <2>6, <3>3, <4>2
    <3>4. CASE ~long
      <4>1. 10 * l < 9 * D
        BY <1>2, <1>4, <3>1, <3>2, <3>4 DEF Distance
      <4>2. 10 * f < 9 * d
        BY <1>3, <1>4, <4>1, MesureCourte
      <4> QED BY <1>4, <1>7, <2>2, <2>3, <2>6, <3>4, <4>2
    <3> QED BY <3>3, <3>4
  <2>7. terrains'[1] = u /\ terrains'[2] = v /\ terrains' \in Nat \X Nat
    BY <2>4, <2>5
  <2> QED BY <1>1, <1>9, <2>1, <2>4, <2>6, <2>7 DEF Expliquee
<1>10. CASE terrains # Aucun /\ u > v
  BY <1>7, <1>10 DEF Expliquee
<1>11. u > v \/ u <= v \/ terrains = Aucun
  <2>1. ASSUME terrains # Aucun PROVE t1 \in Int /\ t2 \in Int
    BY <1>1, <2>1 DEF Expliquee
  <2>2. ASSUME terrains # Aucun PROVE u \in Int /\ v \in Int
    BY <1>6, <2>1, <2>2
  <2> QED BY <2>2
<1> QED BY <1>8, <1>9, <1>10, <1>11

\* No step of a direction loses what its tries say of the terrain.
LEMMA ConvergeStep ==
  IInvConverge /\ IInvDirection' /\ [NextDirection]_varsDirection => IInvConverge'
<1> SUFFICES ASSUME IInvConverge, IInvDirection', [NextDirection]_varsDirection
             PROVE  IInvConverge'
  OBVIOUS
<1>1. ASSUME UNCHANGED <<iter, lo, hi, detour, terrains>>,
             verdict' = "ErrNoLoopFound" => iter = MaxRadiusIterations
      PROVE  IInvConverge'
  BY <1>1 DEF IInvConverge, Resserree, Expliquee
<1>2. CASE Essayer \/ FinDirection \/ UNCHANGED varsDirection
  BY <1>1, <1>2 DEF IInvConverge, Essayer, FinDirection, varsDirection, bisection
<1>3. CASE Rater
  <2>1. fin # "ErrNoLoopFound"
    BY DEF IInvConverge, IInvDirection, IInvBoucle, BoucleJuste, Recollee
  <2> QED BY <1>1, <1>3, <2>1 DEF Rater
<1>4. CASE Retenir \/ Epuiser
  BY <1>1, <1>4 DEF Retenir, Epuiser
<1>5. CASE Reprendre
  <2>1. verdict' = "aucun"
    BY <1>5 DEF Reprendre, EnCours
  <2> QED BY <1>5, <2>1, ReprendreResserre, MesurerExplique DEF IInvConverge
<1> QED BY <1>2, <1>3, <1>4, <1>5 DEF NextDirection

\* Once the tries are all made, no terrain explains them.
LEMMA PlusDeTerrain ==
  ASSUME IInvConverge, iter = MaxRadiusIterations, Tolerance >= 10, terrains # Aucun
  PROVE  FALSE
<1>1. PICK a, z, t1, t2, A, Z, I, B :
        /\ a = lo /\ z = hi /\ t1 = terrains[1] /\ t2 = terrains[2]
        /\ A = DetourLo /\ Z = DetourHi /\ I = DetourInitial /\ B = Bruit
  OBVIOUS
<1>2. PICK q : q = Moities[MaxRadiusIterations - 1]
  OBVIOUS
<1>3. A \in Nat /\ Z \in Nat /\ I \in Nat /\ B \in Nat /\ A < I /\ I < Z
  <2>1. Moities[MaxRadiusIterations] \in Nat \ {0} /\ MaxRadiusIterations \in Nat
    BY DetoursAssumption, MoitiesFaits
  <2> QED BY <1>1, <2>1, DetoursAssumption
<1>4. a \in Nat /\ z \in Nat /\ A <= a /\ a < z /\ z <= Z
  BY <1>1 DEF IInvConverge, IInvDirection, Largeur, Encadrement
<1>5. /\ t1 \in Nat /\ t2 \in Nat /\ A <= t1 /\ t1 <= t2 /\ t2 <= Z
      /\ a = A \/ 11 * a < 10 * (t1 + B)
      /\ z = Z \/ 10 * t2 < 9 * z + 10 * B
  BY <1>1 DEF IInvConverge, Expliquee
<1>6. PICK w : w = z - a
  OBVIOUS
<1>7. w \in 1 .. Z
  BY <1>3, <1>4, <1>6
<1>8. \/ z <= I /\ (w - 1) * q < I - A
      \/ I <= a /\ (w - 1) * q < Z - I
  <2>1. iter > 0
    BY DetoursAssumption
  <2> QED BY <1>1, <1>2, <1>6, <2>1 DEF IInvConverge, Resserree
<1>9. /\ (w - 1) * q < I - A => 9 * w + 10 * B <= A
      /\ (w - 1) * q < Z - I => 9 * w + 20 * B <= 2 * I /\ 11 * w + 10 * B <= Z
  BY <1>1, <1>2, <1>7, FinesseAssumption
<1>10. CASE z <= I /\ 9 * w + 10 * B <= A
  BY <1>3, <1>4, <1>5, <1>6, <1>7, <1>10
<1>11. CASE I <= a /\ 9 * w + 20 * B <= 2 * I /\ 11 * w + 10 * B <= Z
  BY <1>3, <1>4, <1>5, <1>6, <1>7, <1>11
<1> QED BY <1>8, <1>9, <1>10, <1>11

\* What the tries of a direction say of its terrain, however it is measured.
THEOREM InvariantConverge == SpecDirection => []IInvConverge
<1>1. InitDirection => IInvConverge
  <2> SUFFICES ASSUME InitDirection PROVE IInvConverge
    OBVIOUS
  <2>1. IInvDirection
    BY InitBissection
  <2>2. /\ iter = 0 /\ lo = DetourLo /\ hi = DetourHi /\ detour = DetourInitial
        /\ verdict = "aucun" /\ terrains = <<DetourLo, DetourHi>>
    BY DEF InitDirection
  <2>3. Resserree
    BY <2>2 DEF Resserree
  <2>4. DetourLo \in Nat /\ DetourHi \in Nat /\ DetourLo <= DetourHi
    <3>1. lo \in Nat /\ hi \in Nat /\ lo < hi
      BY <2>1 DEF IInvDirection, Largeur, Encadrement
    <3> QED BY <2>2, <3>1
  <2>5. Expliquee
    BY <2>2, <2>4 DEF Expliquee
  <2> QED BY <2>1, <2>2, <2>3, <2>5 DEF IInvConverge
<1> QED BY <1>1, ConvergeStep, InvariantDirection, PTL DEF SpecDirection

\* The corrections of the code are enough for any uniform terrain between its
\* bounds: a direction is only given up on one that no factor explains.
THEOREM ConvergeCorrect == SpecDirection => []Converge
<1>1. IInvConverge => Converge
  BY PlusDeTerrain DEF IInvConverge, Converge
<1> QED BY <1>1, InvariantConverge, PTL

\* The bisection of candidate is right in both respects.
THEOREM BissectionCorrecte == SpecDirection => []BissectionJuste
<1>1. Encadrement /\ Converge => BissectionJuste
  BY DEF BissectionJuste
<1> QED BY <1>1, EncadrementCorrect, ConvergeCorrect, PTL

=============================================================================
