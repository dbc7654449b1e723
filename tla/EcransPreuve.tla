---------------------------- MODULE EcransPreuve -----------------------------
(***************************************************************************)
(* Theorems about the store of results, the page of a loop and the two     *)
(* together, for any number of searches and any set of loops.              *)
(***************************************************************************)
EXTENDS Ecrans, TLAPS

LEMMA InitIInv == Init => IInv
BY BornesAssumption
   DEF Init, IInv, TypeOK, DernierSeulEcrit, AttenteVivante, AnnuleSansBoucles,
       Etat, EnVol, Generations, Phases, Genres

\* What the end of a call leaves, for a search that was in flight.
LEMMA ContinuerIInv ==
  ASSUME IInv, NEW g \in Generations, EnVol(g),
         NEW s \in {"vide", "ok", "erreur"},
         g = generation /\ s = "ok" => g \notin annules,
         Continuer(g, s)
  PROVE  IInv'
<1>0. /\ TypeOK /\ DernierSeulEcrit /\ AttenteVivante /\ AnnuleSansBoucles
      /\ g \in Nat /\ g # 0
  BY DEF IInv, Generations
<1>1. /\ phase' = [phase EXCEPT ![g] = "fini"]
      /\ etat' = IF g = generation THEN Etat(s, g) ELSE etat
      /\ enCours' = IF enCours = g THEN 0 ELSE enCours
      /\ UNCHANGED <<generation, avorte, annules>>
  BY DEF Continuer
<1>2. /\ ~EnVol(g)'
      /\ \A h \in Generations : h # g => phase'[h] = phase[h] /\ (EnVol(h)' <=> EnVol(h))
  BY <1>0, <1>1 DEF EnVol, TypeOK
<1>3. TypeOK'
  BY <1>0, <1>1, BornesAssumption DEF TypeOK, Etat, Phases, Generations
<1>4. DernierSeulEcrit' /\ AnnuleSansBoucles'
  BY <1>0, <1>1 DEF DernierSeulEcrit, AnnuleSansBoucles, Etat
<1>5. AttenteVivante'
  <2>1. CASE g = generation
    BY <1>0, <1>1, <2>1 DEF AttenteVivante, Etat
  <2>2. CASE g # generation
    <3>1. etat' = etat /\ etat.de # g /\ etat.de = generation
      BY <1>0, <1>1, <2>2 DEF DernierSeulEcrit
    <3>2. ASSUME etat.statut = "calcul"
          PROVE  EnVol(etat.de)' /\ enCours' = etat.de
      <4>1. EnVol(etat.de) /\ enCours = etat.de
        BY <1>0, <3>2 DEF AttenteVivante
      <4>2. enCours # g /\ enCours' = enCours
        BY <1>1, <3>1, <4>1
      <4>3. phase'[etat.de] = phase[etat.de]
        BY <1>0, <1>1, <3>1 DEF TypeOK
      <4> QED BY <3>1, <4>1, <4>2, <4>3 DEF EnVol
    <3> QED BY <3>1, <3>2 DEF AttenteVivante
  <2> QED BY <2>1, <2>2
<1>6. enCours' # 0 => EnVol(enCours)'
  <2> SUFFICES ASSUME enCours' # 0
               PROVE  EnVol(enCours)'
    OBVIOUS
  <2>1. enCours' = enCours /\ enCours # g /\ EnVol(enCours)
    BY <1>1 DEF IInv
  <2>2. phase'[enCours] = phase[enCours]
    BY <1>0, <1>1, <2>1 DEF TypeOK, Generations
  <2> QED BY <2>1, <2>2 DEF EnVol
<1>7. ASSUME NEW h \in Generations
      PROVE  /\ h > generation' => phase'[h] = "absent" /\ h \notin avorte'
             /\ EnVol(h)' /\ h \notin avorte' => h = generation' /\ enCours' = h
             /\ EnVol(h)' /\ h = generation' => etat'.statut = "calcul"
  <2>1. /\ h > generation => phase[h] = "absent" /\ h \notin avorte
        /\ EnVol(h) /\ h \notin avorte => h = generation /\ enCours = h
        /\ EnVol(h) /\ h = generation => etat.statut = "calcul"
    BY DEF IInv
  <2>2. CASE h = g
    BY <1>1, <1>2, <2>1, <2>2 DEF EnVol
  <2>3. CASE h # g
    BY <1>1, <1>2, <2>1, <2>3
  <2> QED BY <2>2, <2>3
<1> QED BY <1>1, <1>3, <1>4, <1>5, <1>6, <1>7 DEF IInv

\* What a gesture that opens a new generation leaves.
LEMMA OuvrirIInv ==
  ASSUME IInv, lancer \/ poser \/ reinitialiser
  PROVE  IInv'
<1>0. /\ TypeOK /\ DernierSeulEcrit /\ AttenteVivante /\ AnnuleSansBoucles
      /\ generation \in Nat /\ generation + 1 \in Generations
      /\ annules \subseteq avorte
  BY BornesAssumption DEF IInv, TypeOK, Generations, lancer, poser, reinitialiser, Effacer
<1>1. /\ generation' = generation + 1 /\ annules' = annules
      /\ avorte' = avorte \cup ({enCours} \ {0})
  BY DEF lancer, poser, reinitialiser, Effacer, Avorter
<1>2. \A h \in Generations :
        /\ h > generation => phase[h] = "absent" /\ h \notin avorte
        /\ EnVol(h) /\ h \notin avorte => h = generation /\ enCours = h
  BY DEF IInv
<1>3. enCours # 0 => EnVol(enCours) /\ enCours <= generation /\ enCours \in Generations
  <2> SUFFICES ASSUME enCours # 0
               PROVE  EnVol(enCours) /\ enCours <= generation /\ enCours \in Generations
    OBVIOUS
  <2>1. EnVol(enCours) /\ enCours \in Generations /\ enCours \in Nat
    BY <1>0 DEF IInv, TypeOK, Generations
  <2> QED BY <1>0, <1>2, <2>1 DEF EnVol
<1>4. generation + 1 \notin annules
  BY <1>0, <1>2
<1>5. CASE lancer
  <2>1. /\ enCours' = generation + 1
        /\ phase' = [phase EXCEPT ![generation + 1] = "fetch"]
        /\ etat' = Etat("calcul", generation + 1)
    BY <1>5 DEF lancer
  <2>2. TypeOK'
    <3>1. generation + 1 \in 0 .. MaxGeneration
      BY <1>0 DEF Generations
    <3>2. avorte' \subseteq Generations
      BY <1>0, <1>1, <1>3 DEF TypeOK
    <3>3. phase' \in [Generations -> Phases]
      BY <1>0, <2>1 DEF TypeOK, Phases
    <3> QED BY <1>0, <1>1, <2>1, <3>1, <3>2, <3>3 DEF TypeOK, Etat
  <2>4. DernierSeulEcrit' /\ AnnuleSansBoucles' /\ AttenteVivante'
    <3>1. DernierSeulEcrit' /\ AnnuleSansBoucles'
      BY <1>1, <2>1 DEF DernierSeulEcrit, AnnuleSansBoucles, Etat
    <3>2. phase'[generation + 1] = "fetch"
      BY <1>0, <2>1 DEF TypeOK
    <3>3. AttenteVivante'
      BY <2>1, <3>2 DEF AttenteVivante, Etat, EnVol
    <3> QED BY <3>1, <3>3
  <2>5. annules' \subseteq avorte'
    BY <1>0, <1>1
  <2>6. enCours' # 0 => EnVol(enCours)'
    BY <1>0, <2>1 DEF EnVol, TypeOK
  <2>7. ASSUME NEW h \in Generations
        PROVE  /\ h > generation' => phase'[h] = "absent" /\ h \notin avorte'
               /\ EnVol(h)' /\ h \notin avorte' => h = generation' /\ enCours' = h
               /\ EnVol(h)' /\ h = generation' => etat'.statut = "calcul"
    <3>1. h \in Nat /\ h # 0
      BY DEF Generations
    <3>2. CASE h = generation + 1
      BY <1>0, <1>1, <2>1, <3>1, <3>2 DEF Etat
    <3>3. CASE h # generation + 1
      <4>1. phase'[h] = phase[h] /\ (EnVol(h)' <=> EnVol(h))
        BY <1>0, <2>1, <3>3 DEF TypeOK, EnVol
      <4>2. EnVol(h) => h \in avorte'
        BY <1>1, <1>2, <3>1
      <4>3. h > generation + 1 => phase[h] = "absent" /\ h \notin avorte'
        BY <1>0, <1>1, <1>2, <1>3, <3>1
      <4> QED BY <1>1, <3>3, <4>1, <4>2, <4>3
    <3> QED BY <3>2, <3>3
  <2> QED BY <2>2, <2>4, <2>5, <2>6, <2>7 DEF IInv
<1>6. CASE poser \/ reinitialiser
  <2>1. /\ enCours' = enCours /\ phase' = phase
        /\ \E s \in {"ok", "vide"} : etat' = Etat(s, generation + 1)
    BY <1>6 DEF poser, reinitialiser, Effacer
  <2>2. TypeOK'
    BY <1>0, <1>1, <1>3, <2>1 DEF TypeOK, Etat, Phases, Generations
  <2>3. DernierSeulEcrit' /\ AnnuleSansBoucles' /\ AttenteVivante'
    BY <1>1, <1>4, <2>1 DEF DernierSeulEcrit, AnnuleSansBoucles, AttenteVivante, Etat
  <2>4. annules' \subseteq avorte' /\ (enCours' # 0 => EnVol(enCours)')
    BY <1>0, <1>1, <1>3, <2>1 DEF EnVol
  <2>5. ASSUME NEW h \in Generations
        PROVE  /\ h > generation' => phase'[h] = "absent" /\ h \notin avorte'
               /\ EnVol(h)' /\ h \notin avorte' => h = generation' /\ enCours' = h
               /\ EnVol(h)' /\ h = generation' => etat'.statut = "calcul"
    <3>1. h \in Nat /\ h # 0 /\ (EnVol(h)' <=> EnVol(h))
      BY <2>1 DEF Generations, EnVol
    <3>2. EnVol(h) => h \in avorte' /\ h <= generation
      BY <1>0, <1>1, <1>2, <3>1 DEF EnVol
    <3>3. h > generation + 1 => phase[h] = "absent" /\ h \notin avorte'
      BY <1>0, <1>1, <1>2, <1>3, <3>1
    <3> QED BY <1>0, <1>1, <2>1, <3>1, <3>2, <3>3
  <2> QED BY <2>2, <2>3, <2>4, <2>5 DEF IInv
<1> QED BY <1>5, <1>6

LEMMA NextIInv == IInv /\ [Next]_vars => IInv'
<1> SUFFICES ASSUME IInv, [Next]_vars
             PROVE  IInv'
  OBVIOUS
<1>0. /\ TypeOK /\ DernierSeulEcrit /\ AttenteVivante /\ AnnuleSansBoucles
      /\ annules \subseteq avorte
  BY DEF IInv
<1>1. CASE UNCHANGED vars
  BY <1>1 DEF vars, IInv, TypeOK, DernierSeulEcrit, AttenteVivante,
              AnnuleSansBoucles, EnVol
<1>2. CASE lancer \/ poser \/ reinitialiser
  BY <1>2, OuvrirIInv
<1>3. CASE annuler
  <2>1. /\ avorte' = avorte \cup ({enCours} \ {0})
        /\ annules' = annules \cup ({enCours} \ {0})
        /\ UNCHANGED <<etat, enCours, generation, phase>>
    BY <1>3 DEF annuler, Avorter
  <2>2. enCours # 0 => enCours \in Generations /\ EnVol(enCours)
    BY <1>0 DEF IInv, TypeOK, Generations
  <2>3. TypeOK'
    BY <1>0, <2>1, <2>2 DEF TypeOK
  <2>4. DernierSeulEcrit' /\ AttenteVivante'
    BY <1>0, <2>1 DEF DernierSeulEcrit, AttenteVivante, EnVol
  <2>5. AnnuleSansBoucles'
    <3>1. enCours # 0 /\ etat.de = enCours => etat.statut = "calcul"
      BY <1>0, <2>2 DEF IInv, DernierSeulEcrit
    <3> QED BY <1>0, <2>1, <3>1 DEF AnnuleSansBoucles
  <2>6. ASSUME NEW h \in Generations
        PROVE  /\ h > generation' => phase'[h] = "absent" /\ h \notin avorte'
               /\ EnVol(h)' /\ h \notin avorte' => h = generation' /\ enCours' = h
               /\ EnVol(h)' /\ h = generation' => etat'.statut = "calcul"
    BY <2>1, <2>2 DEF IInv, EnVol
  <2> QED BY <1>0, <2>1, <2>3, <2>4, <2>5, <2>6 DEF IInv, EnVol
<1>4. ASSUME NEW g \in Generations, NEW s \in Statuts, Repondre(g, s)
      PROVE  IInv'
  <2> DEFINE p == IF s = 200 THEN "corps" ELSE parStatut(s)
  <2>1. /\ phase' = [phase EXCEPT ![g] = p] /\ phase[g] = "fetch"
        /\ UNCHANGED <<etat, enCours, generation, avorte, annules>>
    BY <1>4 DEF Repondre
  <2>2. p \in {"corps"} \cup Genres
    BY DEF parStatut, Genres
  <2> HIDE DEF p
  <2>3. p \in Phases /\ p \notin {"absent", "fini"}
    BY <2>2 DEF Genres, Phases
  <2>4. \A h \in Generations : (EnVol(h)' <=> EnVol(h))
                              /\ (phase[h] = "absent" => phase'[h] = "absent")
    BY <1>0, <2>1, <2>3 DEF TypeOK, EnVol
  <2>5. TypeOK'
    BY <1>0, <2>1, <2>3 DEF TypeOK
  <2>6. DernierSeulEcrit' /\ AnnuleSansBoucles'
    BY <1>0, <2>1 DEF DernierSeulEcrit, AnnuleSansBoucles
  <2>7. AttenteVivante' /\ (enCours' # 0 => EnVol(enCours)')
    <3>1. enCours # 0 => enCours \in Generations /\ EnVol(enCours)
      BY <1>0 DEF IInv, TypeOK, Generations
    <3>2. enCours # 0 => EnVol(enCours)'
      BY <2>1, <2>4, <3>1 DEF EnVol
    <3>3. etat.statut = "calcul" => etat.de = enCours /\ EnVol(etat.de)
      BY <1>0 DEF AttenteVivante
    <3>4. etat.statut = "calcul" => etat.de \in Generations
      <4>1. etat.de \in Generations \/ etat.de = 0
        BY <1>0 DEF TypeOK, Generations
      <4>2. 0 \notin Generations
        BY DEF Generations
      <4>3. ASSUME etat.statut = "calcul", etat.de = 0
            PROVE  FALSE
        <5>1. enCours = 0 /\ generation = 0
          BY <1>0, <3>3, <4>3 DEF DernierSeulEcrit
        <5>2. phase[g] = "absent"
          BY <5>1 DEF IInv, Generations
        <5> QED BY <2>1, <5>2
      <4> QED BY <4>1, <4>3
    <3>5. etat.statut = "calcul" => EnVol(etat.de)'
      BY <2>1, <2>4, <3>3, <3>4 DEF EnVol
    <3> QED BY <2>1, <3>2, <3>3, <3>5 DEF AttenteVivante, EnVol
  <2>8. ASSUME NEW h \in Generations
        PROVE  /\ h > generation' => phase'[h] = "absent" /\ h \notin avorte'
               /\ EnVol(h)' /\ h \notin avorte' => h = generation' /\ enCours' = h
               /\ EnVol(h)' /\ h = generation' => etat'.statut = "calcul"
    BY <2>1, <2>4 DEF IInv
  <2> QED BY <1>0, <2>1, <2>5, <2>6, <2>7, <2>8 DEF IInv
<1>5. ASSUME NEW g \in Generations,
             Rompre(g) \/ Interrompre(g) \/ Livrer(g) \/ Refuser(g)
      PROVE  IInv'
  <2>1. EnVol(g)
    BY <1>5 DEF Rompre, Interrompre, Livrer, Refuser, EnVol, Genres
  <2>2. \E s \in {"vide", "ok", "erreur"} :
          Continuer(g, s) /\ (s = "ok" => g \notin avorte)
    BY <1>5 DEF Rompre, Interrompre, Livrer, Refuser
  <2> QED BY <1>0, <2>1, <2>2, ContinuerIInv
<1> QED BY <1>1, <1>2, <1>3, <1>4, <1>5 DEF Next, Geste, Reponse

\* Types and the inductive invariant, for ever.
THEOREM Invariant == Spec => []IInv
BY InitIInv, NextIInv, PTL DEF Spec

\* Only the last search or gesture writes the state that is shown.
THEOREM DernierCorrect == Spec => []DernierSeulEcrit
<1>1. IInv => DernierSeulEcrit
  BY DEF IInv
<1> QED BY <1>1, Invariant, PTL

\* A wait that is shown is a search in flight, which annuler would stop.
THEOREM AttenteCorrecte == Spec => []AttenteVivante
<1>1. IInv => AttenteVivante
  BY DEF IInv
<1> QED BY <1>1, Invariant, PTL

\* A search that was replaced has been aborted.
THEOREM UnSeulCorrect == Spec => []UnSeulEnVol
<1>1. IInv => UnSeulEnVol
  BY DEF IInv, UnSeulEnVol
<1> QED BY <1>1, Invariant, PTL

\* Waits and searches go together: no wait for nothing, no search for nobody
\* (resultats.svelte.ts:60-81).
THEOREM RienEnVainCorrect == Spec => []RienEnVain
<1>1. AttenteVivante /\ UnSeulEnVol => RienEnVain
  BY DEF RienEnVain
<1> QED BY AttenteCorrecte, UnSeulCorrect, <1>1, PTL

\* A search that was cancelled never shows its loops.
THEOREM AnnuleCorrect == Spec => []AnnuleSansBoucles
<1>1. IInv => AnnuleSansBoucles
  BY DEF IInv
<1> QED BY <1>1, Invariant, PTL

----------------------------------------------------------------------------
\* The page of a loop.

LEMMA InitDetailIInv == InitDetail => IInvDetail
BY DEF InitDetail, IInvDetail, TypeDetail, EcranDeLId, AttenteDuDetail, ErreurSansAttente

\* A run of the effect, whatever the page showed before.
LEMMA EffetIInv ==
  ASSUME IInvDetail, NEW i \in Ids, id' = i, Effet(i), connus' = connus
  PROVE  IInvDetail'
<1>1. silencieux' \subseteq Ids
  <2>1. CASE appel = "vol"
    BY <2>1 DEF Effet, Demonter, IInvDetail, TypeDetail, AttenteDuDetail
  <2>2. CASE appel # "vol"
    BY <2>2 DEF Effet, Demonter, IInvDetail, TypeDetail
  <2> QED BY <2>1, <2>2
<1>2. i # Aucun
  BY IdsAssumption
<1>3. CASE Reconnaitre(i)
  BY <1>1, <1>2, <1>3
     DEF Reconnaitre, IInvDetail, TypeDetail, EcranDeLId, AttenteDuDetail, ErreurSansAttente
<1>4. CASE Ouvrir(i)
  BY <1>1, <1>2, <1>4
     DEF Ouvrir, IInvDetail, TypeDetail, EcranDeLId, AttenteDuDetail, ErreurSansAttente
<1> QED BY <1>3, <1>4 DEF Effet

LEMMA NextDetailIInv == IInvDetail /\ [NextDetail]_varsDetail => IInvDetail'
<1> SUFFICES ASSUME IInvDetail, [NextDetail]_varsDetail
             PROVE  IInvDetail'
  OBVIOUS
<1> USE DEF IInvDetail, TypeDetail, EcranDeLId, AttenteDuDetail, ErreurSansAttente
<1>1. ASSUME NEW i \in Ids, Naviguer(i) \/ Arriver(i)
      PROVE  IInvDetail'
  BY <1>1, EffetIInv DEF Naviguer, Arriver
<1>2. CASE reessayer
  <2>1. id \in Ids /\ id' = id /\ Effet(id) /\ connus' = connus
    BY <1>2 DEF reessayer
  <2> QED BY <2>1, EffetIInv
<1>3. CASE Partir
  <2>1. silencieux' \subseteq Ids
    BY <1>3 DEF Partir, Demonter
  <2> QED BY <1>3, <2>1 DEF Partir
<1>4. CASE Montrer
  BY <1>4 DEF Montrer
<1>5. CASE Echouer
  BY <1>5 DEF Echouer
<1>6. CASE Finir
  BY <1>6 DEF Finir
<1>7. ASSUME NEW i \in Ids, Ignorer(i)
      PROVE  IInvDetail'
  BY <1>7 DEF Ignorer
<1>8. CASE Rechercher
  BY <1>8 DEF Rechercher
<1>9. CASE UNCHANGED varsDetail
  BY <1>9 DEF varsDetail
<1> QED BY <1>1, <1>2, <1>3, <1>4, <1>5, <1>6, <1>7, <1>8, <1>9 DEF NextDetail, GesteDetail

\* IInvDetail, the inductive invariant of the page of a loop, holds.
THEOREM InvariantDetail == SpecDetail => []IInvDetail
BY InitDetailIInv, NextDetailIInv, PTL DEF SpecDetail

\* The screen is of the address, for any number of loops and any order of the
\* answers (+page.svelte:56-58).
THEOREM EcranCorrect == SpecDetail => []EcranDeLId
<1>1. IInvDetail => EcranDeLId
  BY DEF IInvDetail
<1> QED BY InvariantDetail, <1>1, PTL

\* The wait always has a call to end it (+page.svelte:26-32).
THEOREM AttenteDetailCorrecte == SpecDetail => []AttenteDuDetail
<1>1. IInvDetail => AttenteDuDetail
  BY DEF IInvDetail
<1> QED BY InvariantDetail, <1>1, PTL

----------------------------------------------------------------------------
\* The two together.

LEMMA InitEcransIInv == InitEcrans => IInvEcrans
<1> SUFFICES ASSUME InitEcrans
             PROVE  IInvEcrans
  OBVIOUS
<1>1. IInv /\ IInvDetail /\ connus = {}
  BY InitIInv, InitDetailIInv DEF InitEcrans
<1>2. id = Aucun /\ appel = "aucun"
  BY DEF InitEcrans, InitDetail
<1> QED BY <1>1, <1>2 DEF IInvEcrans, BoucleRetrouvee

\* Each component takes one of its own steps, or none.
LEMMA PasDesDeux == NextEcrans => [Next]_vars /\ [NextDetail]_varsDetail
<1> SUFFICES ASSUME NextEcrans
             PROVE  [Next]_vars /\ [NextDetail]_varsDetail
  OBVIOUS
<1>1. ASSUME UNCHANGED varsPage, Suivre, etat' = etat \/ connus' = {} \/ connus' \in SUBSET Ids
      PROVE  [NextDetail]_varsDetail
  <2>1. CASE connus' = connus
    BY <1>1, <2>1 DEF varsPage, varsDetail
  <2>2. CASE connus' # connus
    BY <1>1, <2>2 DEF varsPage, Suivre, NextDetail, GesteDetail, Rechercher
  <2> QED BY <2>1, <2>2
<1>2. CASE Chercher
  BY <1>1, <1>2 DEF Chercher, Suivre, Next, Geste
<1>3. ASSUME NEW g \in Generations, Recevoir(g)
      PROVE  [Next]_vars /\ [NextDetail]_varsDetail
  BY <1>1, <1>3 DEF Recevoir, Suivre, Next
<1>4. CASE Parcourir
  BY <1>4 DEF Parcourir, NextDetail, GesteDetail
<1>5. CASE Ouvert
  BY <1>5 DEF Ouvert, Next, Geste, NextDetail
<1>6. CASE Suite /\ UNCHANGED vars
  BY <1>6 DEF Suite, NextDetail
<1> QED BY <1>2, <1>3, <1>4, <1>5, <1>6 DEF NextEcrans

\* A search only ends in the store while the store shows it: never over loops.
LEMMA RecevoirSansEcraser ==
  ASSUME IInv, NEW g \in Generations, Reponse(g), etat.statut = "ok"
  PROVE  etat' = etat
<1>1. CASE \E s \in Statuts : Repondre(g, s)
  BY <1>1 DEF Repondre
<1>2. CASE Rompre(g) \/ Interrompre(g) \/ Livrer(g) \/ Refuser(g)
  <2>1. EnVol(g)
    BY <1>2 DEF Rompre, Interrompre, Livrer, Refuser, EnVol, Genres
  <2>2. g # generation
    BY <2>1 DEF IInv
  <2>3. \E s \in {"vide", "ok", "erreur"} : Continuer(g, s)
    BY <1>2 DEF Rompre, Interrompre, Livrer, Refuser
  <2> QED BY <2>2, <2>3 DEF Continuer
<1> QED BY <1>1, <1>2 DEF Reponse

LEMMA NextEcransIInv == IInvEcrans /\ [NextEcrans]_varsEcrans => IInvEcrans'
<1> SUFFICES ASSUME IInvEcrans, [NextEcrans]_varsEcrans
             PROVE  IInvEcrans'
  OBVIOUS
<1>0. /\ IInv /\ IInvDetail /\ BoucleRetrouvee
      /\ connus # {} => etat.statut = "ok"
      /\ appel = "ecrit" /\ erreur = Aucun => etat.statut = "ok" /\ id \in connus
  BY DEF IInvEcrans
<1>1. IInv' /\ IInvDetail'
  <2>1. CASE NextEcrans
    BY <1>0, <2>1, PasDesDeux, NextIInv, NextDetailIInv
  <2>2. CASE UNCHANGED varsEcrans
    BY <1>0, <2>2, NextIInv, NextDetailIInv DEF varsEcrans
  <2> QED BY <2>1, <2>2
<1>2. /\ appel = "vol" => chargement /\ id # Aucun
      /\ chargement <=> appel # "aucun"
      /\ appel \in {"aucun", "vol", "ecrit"}
  BY <1>0 DEF IInvDetail, AttenteDuDetail, TypeDetail
<1> DEFINE Reste == /\ BoucleRetrouvee
                    /\ connus # {} => etat.statut = "ok"
                    /\ appel = "ecrit" /\ erreur = Aucun => etat.statut = "ok" /\ id \in connus
<1>3. SUFFICES Reste'
  BY <1>1 DEF IInvEcrans
<1>4. ASSUME UNCHANGED varsPage, Suivre, etat.statut = "ok" => etat' = etat
      PROVE  Reste'
  <2>1. CASE etat' = etat /\ connus' = connus
    BY <1>0, <1>4, <2>1 DEF varsPage, BoucleRetrouvee
  <2>2. CASE etat' # etat
    BY <1>0, <1>4, <2>2 DEF varsPage, BoucleRetrouvee, Suivre
  <2> QED BY <1>4, <2>1, <2>2 DEF Suivre
<1>5. CASE Chercher
  <2>1. id = Aucun /\ appel = "aucun"
    BY <1>0, <1>2, <1>5 DEF Chercher, IInvDetail
  <2>2. id' = Aucun /\ appel' = "aucun" /\ Suivre
    BY <2>1, <1>5 DEF Chercher, varsPage
  <2> QED BY <1>0, <2>2 DEF BoucleRetrouvee, Suivre
<1>6. ASSUME NEW g \in Generations, Recevoir(g)
      PROVE  Reste'
  BY <1>0, <1>4, <1>6, RecevoirSansEcraser DEF Recevoir
<1>7. CASE Parcourir
  <2>1. etat' = etat /\ connus' = connus
    BY <1>7 DEF Parcourir, vars, Partir, reessayer, Naviguer, Arriver
  <2>2. CASE Partir
    BY <1>0, <2>1, <2>2 DEF Partir, BoucleRetrouvee
  <2>3. ASSUME NEW i, id' = i, Effet(i)
        PROVE  Reste'
    BY <1>0, <2>1, <2>3 DEF Effet, Reconnaitre, Ouvrir, BoucleRetrouvee
  <2>4. CASE reessayer
    BY <2>3, <2>4 DEF reessayer
  <2>5. ASSUME NEW i \in Ids, Naviguer(i) \/ Arriver(i)
        PROVE  Reste'
    BY <2>3, <2>5 DEF Naviguer, Arriver
  <2> QED BY <1>7, <2>2, <2>4, <2>5 DEF Parcourir
<1>8. CASE Ouvert
  <2>1. etat'.statut = "ok"
    BY <1>8 DEF Ouvert, poser, Effacer, Etat
  <2>2. connus' = {id} /\ id' = id /\ chargement' = chargement /\ appel' = "ecrit" /\ chargement
    BY <1>2, <1>8 DEF Ouvert, Montrer
  <2> QED BY <2>1, <2>2 DEF BoucleRetrouvee
<1>9. CASE Suite /\ UNCHANGED vars
  <2>1. etat' = etat /\ connus' = connus /\ id' = id
    BY <1>9 DEF Suite, vars, Echouer, Finir, Ignorer
  <2>2. CASE Echouer
    BY <1>0, <1>2, <2>1, <2>2 DEF Echouer, BoucleRetrouvee
  <2>3. CASE Finir
    BY <1>0, <2>1, <2>3 DEF Finir, BoucleRetrouvee
  <2>4. ASSUME NEW i \in Ids, Ignorer(i)
        PROVE  Reste'
    BY <1>0, <2>1, <2>4 DEF Ignorer, BoucleRetrouvee
  <2> QED BY <1>9, <2>2, <2>3, <2>4 DEF Suite
<1>10. CASE UNCHANGED varsEcrans
  BY <1>0, <1>10 DEF varsEcrans, vars, varsDetail, BoucleRetrouvee
<1> QED BY <1>5, <1>6, <1>7, <1>8, <1>9, <1>10 DEF NextEcrans

\* Together, the store and the page each do as specified alone: what is proved
\* of either above holds of the application.
THEOREM Composition == SpecEcrans => Spec /\ SpecDetail
<1>1. InitEcrans => Init /\ InitDetail
  BY DEF InitEcrans
<1>2. [NextEcrans]_varsEcrans => [Next]_vars /\ [NextDetail]_varsDetail
  BY PasDesDeux DEF varsEcrans
<1> QED BY <1>1, <1>2, PTL DEF SpecEcrans, Spec, SpecDetail

\* The loop on the screen is in the list the page leads back to.
THEOREM BoucleCorrecte == SpecEcrans => []BoucleRetrouvee
<1>1. IInvEcrans => BoucleRetrouvee
  BY DEF IInvEcrans
<1> QED BY InitEcransIInv, NextEcransIInv, <1>1, PTL DEF SpecEcrans
=============================================================================
