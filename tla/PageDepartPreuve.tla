-------------------------- MODULE PageDepartPreuve --------------------------
(***************************************************************************)
(* Theorems about the page of the start, for any set of points, any number *)
(* of geolocations under way and any number of keystrokes: first those of  *)
(* the list under the field (Recherche), then those of the page (Depart).  *)
(***************************************************************************)
EXTENDS PageDepart, TLAPS

----------------------------------------------------------------------------
LEMMA InitIInv == Init => IInv
BY BornesAssumption
   DEF Init, IInv, TypeOK, AttenteVivante, UnSeulAppel, Etat, Generations

\* What a keystroke finds, whatever it then shows.
LEMMA ArreterFaits ==
  ASSUME IInv, arreter
  PROVE  /\ generation \in Nat /\ generation' = generation + 1
         /\ generation' \in Generations
         /\ enCours' = 0
         /\ appels' = appels /\ appels' \subseteq avortes'
         /\ avortes' \subseteq 1 .. generation /\ appels' \subseteq 1 .. generation
         /\ avortes' \subseteq Generations
<1>1. generation \in Nat /\ generation < MaxGeneration /\ generation' = generation + 1
  BY BornesAssumption DEF IInv, TypeOK, arreter
<1>2. enCours' = 0 /\ appels' = appels /\ avortes' = avortes \cup ({enCours} \ {0})
  BY DEF arreter
<1>3. appels \ avortes \subseteq {enCours}
  BY DEF IInv, UnSeulAppel
<1>4. 0 \notin appels /\ appels \subseteq 1 .. generation /\ avortes \subseteq 1 .. generation
  BY <1>1 DEF IInv
<1>5. appels \subseteq avortes'
  BY <1>2, <1>3, <1>4
<1>6. enCours # 0 => enCours \in 1 .. generation
  BY <1>1 DEF IInv, TypeOK
<1>7. avortes' \subseteq 1 .. generation
  BY <1>2, <1>4, <1>6
<1>8. 1 .. generation \subseteq Generations /\ generation + 1 \in Generations
  BY <1>1, BornesAssumption DEF Generations
<1> QED BY <1>1, <1>2, <1>4, <1>5, <1>7, <1>8

LEMMA FrappeIInv ==
  ASSUME IInv, saisir \/ saisirCourt
  PROVE  IInv'
<1>0. arreter
  BY DEF saisir, saisirCourt
<1>1. /\ generation \in Nat /\ generation' = generation + 1
      /\ generation' \in Generations
      /\ enCours' = 0
      /\ appels' \subseteq avortes'
      /\ avortes' \subseteq 1 .. generation /\ appels' \subseteq 1 .. generation
      /\ avortes' \subseteq Generations
  BY <1>0, ArreterFaits
<1>2. /\ minuterie' \in {0, generation'}
      /\ \/ etat' = etat /\ etat.statut = "ok"
         \/ etat' = Etat("attente", generation') /\ minuterie' = generation'
         \/ etat' = Etat("vide", generation')
  BY DEF saisir, saisirCourt
<1>3. TypeOK'
  <2>1. etat' \in [statut : {"vide", "attente", "ok", "erreur"}, de : 0 .. MaxGeneration]
    BY <1>1, <1>2, BornesAssumption DEF IInv, TypeOK, Etat, Generations
  <2> QED BY <1>1, <1>2, <2>1, BornesAssumption DEF TypeOK, Generations
<1>4. AttenteVivante'
  BY <1>1, <1>2 DEF AttenteVivante, Etat
<1>5. UnSeulAppel'
  BY <1>1, <1>2 DEF UnSeulAppel
<1>6. etat'.de <= generation'
  BY <1>1, <1>2 DEF IInv, TypeOK, Etat
<1>7. generation' \notin appels' \cup avortes'
  BY <1>1
<1> QED BY <1>1, <1>3, <1>4, <1>5, <1>6, <1>7 DEF IInv

LEMMA DeclencherIInv ==
  ASSUME IInv, Declencher
  PROVE  IInv'
<1>1. /\ minuterie = generation /\ generation \in 1 .. MaxGeneration
      /\ appels \subseteq avortes /\ generation \notin appels \cup avortes
  BY BornesAssumption DEF IInv, TypeOK, UnSeulAppel, Declencher
<1>2. /\ minuterie' = 0 /\ enCours' = generation /\ appels' = appels \cup {generation}
      /\ UNCHANGED <<etat, generation, avortes>>
  BY <1>1 DEF Declencher
<1>3. TypeOK'
  <2>1. TypeOK /\ 0 \in 0 .. MaxGeneration /\ generation \in 0 .. MaxGeneration
        /\ generation \in Generations
    BY <1>1, BornesAssumption DEF IInv, Generations
  <2> QED BY <1>2, <2>1 DEF TypeOK
<1>4. AttenteVivante' /\ UnSeulAppel'
  BY <1>1, <1>2 DEF IInv, AttenteVivante, UnSeulAppel
<1>5. /\ etat'.de <= generation' /\ appels' \cup avortes' \subseteq 1 .. generation'
      /\ generation' \notin avortes'
  BY <1>1, <1>2 DEF IInv
<1> QED BY <1>2, <1>3, <1>4, <1>5 DEF IInv

\* The end of a call, which writes or not.
LEMMA FinIInv ==
  ASSUME IInv, NEW g \in appels,
         appels' = appels \ {g},
         enCours' = IF enCours = g THEN 0 ELSE enCours,
         UNCHANGED <<minuterie, generation, avortes>>,
         \/ \E s \in {"ok", "erreur"} : etat' = IF g = generation THEN Etat(s, g) ELSE etat
         \/ g \in avortes /\ etat' = etat
  PROVE  IInv'
<1>1. g \in 1 .. generation /\ generation \in 0 .. MaxGeneration
  BY DEF IInv, TypeOK
<1>2. \/ etat' = etat /\ g # generation
      \/ g = generation /\ etat'.statut # "attente" /\ etat'.de = generation
         /\ etat' \in [statut : {"vide", "attente", "ok", "erreur"}, de : 0 .. MaxGeneration]
  BY <1>1 DEF IInv, Etat
<1>3. TypeOK'
  BY <1>2 DEF IInv, TypeOK
<1>4. AttenteVivante'
  BY <1>2 DEF IInv, AttenteVivante
<1>5. UnSeulAppel'
  <2>1. ASSUME NEW h \in appels' \ avortes'
        PROVE  h = generation' /\ h = enCours'
    BY <2>1 DEF IInv, UnSeulAppel
  <2>2. minuterie' # 0 => minuterie' = generation' /\ appels' \subseteq avortes'
    BY DEF IInv, UnSeulAppel
  <2> QED BY <2>1, <2>2 DEF UnSeulAppel
<1>6. etat'.de <= generation'
  BY <1>1, <1>2 DEF IInv
<1>7. /\ appels' \cup avortes' \subseteq 1 .. generation'
      /\ (enCours' # 0 => enCours' = generation')
      /\ (minuterie' # 0 => generation' \notin appels' \cup avortes')
      /\ generation' \notin avortes'
  BY DEF IInv
<1> QED BY <1>3, <1>4, <1>5, <1>6, <1>7 DEF IInv

LEMMA NextIInv == IInv /\ [Next]_vars => IInv'
<1> SUFFICES ASSUME IInv, [Next]_vars
             PROVE  IInv'
  OBVIOUS
<1>1. CASE saisir \/ saisirCourt \/ effacer
  BY <1>1, FrappeIInv DEF effacer
<1>2. CASE Declencher
  BY <1>2, DeclencherIInv
<1>3. ASSUME NEW g \in Generations, Repondre(g)
      PROVE  IInv'
  <2>1. /\ g \in appels /\ appels' = appels \ {g}
        /\ enCours' = IF enCours = g THEN 0 ELSE enCours
        /\ UNCHANGED <<minuterie, generation, avortes>>
    BY <1>3 DEF Repondre, Ecrire, Abandonner
  <2>2. \/ \E s \in {"ok", "erreur"} : etat' = IF g = generation THEN Etat(s, g) ELSE etat
        \/ g \in avortes /\ etat' = etat
    BY <1>3 DEF Repondre, Ecrire, Abandonner
  <2> QED BY <2>1, <2>2, FinIInv
<1>4. CASE UNCHANGED vars
  BY <1>4 DEF vars, IInv, TypeOK, AttenteVivante, UnSeulAppel
<1> QED BY <1>1, <1>2, <1>3, <1>4 DEF Next

\* IInv, the inductive invariant of the search of an address, holds.
THEOREM Invariant == Spec => []IInv
BY InitIInv, NextIInv, PTL DEF Spec

\* The variables keep their types (recherche.svelte.ts:30-33).
THEOREM TypeCorrect == Spec => []TypeOK
<1>1. IInv => TypeOK
  BY DEF IInv
<1> QED BY Invariant, <1>1, PTL

\* "attente" always has a timer or a call to end it (recherche.svelte.ts:53-73).
THEOREM AttenteCorrecte == Spec => []AttenteVivante
<1>1. IInv => AttenteVivante
  BY DEF IInv
<1> QED BY Invariant, <1>1, PTL

\* Every keystroke stops the timer and the call before it
\* (recherche.svelte.ts:35-41).
THEOREM UnSeulCorrect == Spec => []UnSeulAppel
<1>1. IInv => UnSeulAppel
  BY DEF IInv
<1> QED BY Invariant, <1>1, PTL

\* Only the last keystroke writes in the state (recherche.svelte.ts:61-68).
THEOREM EcritureCorrecte == Spec => DernierEcrit
<1>1. [Next]_vars => [etat' # etat => etat'.de = generation']_vars
  <2> SUFFICES ASSUME Next, etat' # etat
               PROVE  etat'.de = generation'
    BY DEF vars
  <2>1. CASE saisir \/ saisirCourt \/ effacer
    BY <2>1 DEF saisir, effacer, saisirCourt, Etat
  <2>2. CASE Declencher
    BY <2>2 DEF Declencher
  <2>3. ASSUME NEW g \in Generations, Repondre(g)
        PROVE  etat'.de = generation'
    BY <2>3 DEF Repondre, Ecrire, Abandonner, Etat
  <2> QED BY <2>1, <2>2, <2>3 DEF Next
<1> QED BY <1>1, PTL DEF Spec, DernierEcrit

----------------------------------------------------------------------------
\* What nommer leaves of a page.
LEMMA NommerFaits ==
  ASSUME NEW s, Saine(s), NEW p \in Points
  PROVE  /\ Saine(nommer(s, p))
         /\ nommer(s, p).centre = s.centre
         /\ nommer(s, p).commande = s.commande
         /\ nommer(s, p).ecoute = s.ecoute
         /\ nommer(s, p).nommageEnCours = p
<1> DEFINE t == nommer(s, p)
<1>1. t \in Page
  BY DEF Saine, Page, nommer
<1>2. /\ t.centre = s.centre /\ t.commande = s.commande /\ t.ecoute = s.ecoute
      /\ t.nommageEnCours = p
      /\ t.nommages = (s.nommages \ {s.nommageEnCours}) \cup {p}
  BY DEF Saine, Page, nommer
<1>3. p # Aucun
  BY PointsAssumption
<1> HIDE DEF t
<1>4. Saine(t)
  BY <1>1, <1>2, <1>3 DEF Saine
<1> QED BY <1>2, <1>4 DEF t

\* A page that hears the map come to rest takes the point for its centre, and
\* keeps or asks its name.
LEMMA EntendreFaits ==
  ASSUME NEW s, Saine(s), NEW q \in Points
  PROVE  /\ Saine(Entendre(s, q))
         /\ Entendre(s, q).ecoute = s.ecoute
         /\ ~s.ecoute => Entendre(s, q) = s
         /\ s.ecoute => Entendre(s, q).centre = q /\ Entendre(s, q).commande = Aucun
         /\ Juste(s) \/ (s.ecoute /\ s.commande = Aucun) => Juste(Entendre(s, q))
<1>0. q # Aucun /\ s \in Page
  BY PointsAssumption DEF Saine
<1>1. CASE ~s.ecoute
  BY <1>1 DEF Entendre
<1>2. CASE s.ecoute /\ s.commande = q
  <2> DEFINE t == [s EXCEPT !.commande = Aucun]
  <2>1. Entendre(s, q) = t
    BY <1>2 DEF Entendre
  <2>2. /\ t \in Page /\ t.commande = Aucun /\ t.centre = s.centre /\ t.ecoute = s.ecoute
        /\ t.nommages = s.nommages /\ t.nommageEnCours = s.nommageEnCours
        /\ t.libelle = s.libelle /\ t.perime = s.perime
    BY <1>0 DEF Page
  <2>3. s.centre = q
    BY <1>0, <1>2 DEF Saine
  <2> HIDE DEF t
  <2> QED BY <1>0, <1>2, <2>1, <2>2, <2>3 DEF Saine, Juste
<1>3. CASE s.ecoute /\ s.commande # q
  <2> DEFINE u == [s EXCEPT !.commande = Aucun, !.centre = q]
  <2>1. Entendre(s, q) = nommer(u, q)
    BY <1>3 DEF Entendre
  <2>2. Saine(u) /\ u.commande = Aucun /\ u.centre = q /\ u.ecoute = s.ecoute
    BY <1>0 DEF Saine, Page
  <2> HIDE DEF u
  <2>3. /\ Saine(nommer(u, q)) /\ nommer(u, q).centre = q
        /\ nommer(u, q).commande = Aucun /\ nommer(u, q).ecoute = s.ecoute
        /\ nommer(u, q).nommageEnCours = q
    BY <2>2, NommerFaits
  <2>4. Juste(nommer(u, q))
    BY <1>0, <2>3 DEF Juste
  <2> QED BY <1>3, <2>1, <2>3, <2>4
<1> QED BY <1>1, <1>2, <1>3

\* Whatever animation is interrupted, and whether the map moves at once or not.
LEMMA CentrerFaits ==
  ASSUME carte \in Carte,
         NEW s, Saine(s), s.ecoute => carte.la,
         NEW p \in Points, NEW r \in Centrer(s, p)
  PROVE  /\ Tenue(r[1], r[2])
         /\ Juste(s) \/ (s.ecoute /\ s.commande = Aucun) => Nommee(r[1], r[2])
         /\ r[1].ecoute = s.ecoute
         /\ ~s.ecoute => r[1] = s
         /\ carte.la => r[2].la /\ (r[2].cible = Aucun => r[2].vue = p)
         /\ s.centre = p =>
              r[1].centre = p \/ (r[1].ecoute /\ r[1].commande = Aucun /\ r[2].cible # Aucun)
<1> DEFINE Arrets == IF carte.cible = Aucun THEN {s} ELSE {Entendre(s, q) : q \in Points}
           allant == [carte EXCEPT !.cible = p]
           posee == [carte EXCEPT !.vue = p, !.cible = Aucun]
<1>0. p # Aucun
  BY PointsAssumption
<1>1. CASE ~carte.la
  <2>1. r = <<s, carte>>
    BY <1>1 DEF Centrer
  <2> QED BY <1>1, <2>1 DEF Tenue, Nommee
<1>2. ASSUME NEW t \in Arrets
      PROVE  /\ Saine(t) /\ t.ecoute = s.ecoute /\ (~s.ecoute => t = s)
             /\ t = s \/ (s.ecoute => t.commande = Aucun)
             /\ Juste(s) \/ (s.ecoute /\ s.commande = Aucun) =>
                  Juste(t) \/ (t.ecoute /\ t.commande = Aucun)
  <2>1. CASE carte.cible = Aucun
    BY <1>2, <2>1
  <2>2. CASE carte.cible # Aucun
    <3>1. PICK q \in Points : t = Entendre(s, q)
      BY <1>2, <2>2
    <3> QED BY <3>1, EntendreFaits
  <2> QED BY <2>1, <2>2
<1>3. /\ allant \in Carte /\ allant.la = carte.la /\ allant.cible = p
      /\ posee \in Carte /\ posee.la = carte.la /\ posee.vue = p /\ posee.cible = Aucun
  BY DEF Carte
<1>4. ASSUME carte.la
      PROVE  \E t \in Arrets : r = <<t, allant>> \/ r = <<Entendre(t, p), posee>>
  BY <1>4 DEF Centrer
<1> HIDE DEF Arrets, allant, posee
<1>5. ASSUME NEW t \in Arrets, carte.la, r = <<t, allant>>
      PROVE  /\ Tenue(r[1], r[2])
             /\ Juste(s) \/ (s.ecoute /\ s.commande = Aucun) => Nommee(r[1], r[2])
             /\ r[1].ecoute = s.ecoute /\ r[2].la /\ r[2].cible # Aucun
             /\ ~s.ecoute => r[1] = s
             /\ r[1] = s \/ (r[1].ecoute /\ r[1].commande = Aucun)
  <2>1. r[1] = t /\ r[2] = allant
    BY <1>5
  <2> QED BY <1>0, <1>2, <1>3, <1>5, <2>1 DEF Tenue, Nommee
<1>6. ASSUME NEW t \in Arrets, carte.la, r = <<Entendre(t, p), posee>>
      PROVE  /\ Tenue(r[1], r[2])
             /\ Juste(s) \/ (s.ecoute /\ s.commande = Aucun) => Nommee(r[1], r[2])
             /\ r[1].ecoute = s.ecoute /\ r[2].la /\ r[2].vue = p
             /\ ~s.ecoute => r[1] = s
             /\ s.centre = p => r[1].centre = p
  <2>1. r[1] = Entendre(t, p) /\ r[2] = posee
    BY <1>6
  <2>2. /\ Saine(r[1]) /\ r[1].ecoute = t.ecoute
        /\ ~t.ecoute => r[1] = t
        /\ t.ecoute => r[1].centre = p
        /\ Juste(t) \/ (t.ecoute /\ t.commande = Aucun) => Juste(r[1])
    BY <1>2, <2>1, EntendreFaits
  <2> QED BY <1>2, <1>3, <1>6, <2>1, <2>2 DEF Tenue, Nommee
<1> QED BY <1>1, <1>4, <1>5, <1>6

\* The centre is p, or the page has taken the place where an animation was
\* interrupted, and the map goes on.
EnRoute(r, p) ==
  r[1].centre = p \/ (r[1].ecoute /\ r[1].commande = Aucun /\ r[2].cible # Aucun)
\* The map, if there is one, shows p or goes somewhere.
Dirigee(r, p) == carte.la => r[2].la /\ (r[2].cible = Aucun => r[2].vue = p)

\* The page on which aller centres the map.
Ordonnee(s, p) == [s EXCEPT !.commande = p, !.centre = p]

\* The same after aller, whose order is for the centre.
LEMMA AllerFaits ==
  ASSUME carte \in Carte,
         NEW s, Saine(s), s.ecoute => carte.la,
         NEW p \in Points, NEW r \in Aller(s, p)
  PROVE  /\ Tenue(r[1], r[2])
         /\ Juste(Ordonnee(s, p)) => Nommee(r[1], r[2])
         /\ ~s.ecoute => r[1] = Ordonnee(s, p)
         /\ Dirigee(r, p) /\ EnRoute(r, p)
<1> DEFINE u == Ordonnee(s, p)
<1>1. Saine(u) /\ u.centre = p /\ u.ecoute = s.ecoute
  BY DEF Saine, Page, Ordonnee
<1>2. r \in Centrer(u, p)
  BY DEF Aller, Ordonnee
<1> HIDE DEF u
<1>3. /\ Tenue(r[1], r[2])
      /\ Juste(u) => Nommee(r[1], r[2])
      /\ ~s.ecoute => r[1] = u
      /\ carte.la => r[2].la /\ (r[2].cible = Aucun => r[2].vue = p)
      /\ r[1].centre = p \/ (r[1].ecoute /\ r[1].commande = Aucun /\ r[2].cible # Aucun)
  BY <1>1, <1>2, CentrerFaits
<1> QED BY <1>3 DEF u, Dirigee, EnRoute

----------------------------------------------------------------------------
\* A page newly mounted shows the start, under the name it was set with.
LEMMA NeuveFaits ==
  ASSUME NEW d \in Lieux \cup {Aucun}
  PROVE  Saine(Neuve(d)) /\ Juste(Neuve(d)) /\ ~Neuve(d).ecoute
<1>1. PICK l \in Lieux : Neuve(d) = [centre |-> l.coord, libelle |-> l.libelle, commande |-> Aucun,
          nommages |-> {}, avortes |-> {}, nommageEnCours |-> Aucun, ecoute |-> FALSE,
          perime |-> l.libelle # l.coord]
  <2>1. CASE d = Aucun
    <3>1. [coord |-> CENTRE_BRETAGNE, libelle |-> CENTRE_BRETAGNE] \in Lieux
      BY PointsAssumption DEF Lieux
    <3> QED BY <2>1, <3>1 DEF Neuve
  <2>2. CASE d # Aucun
    BY <2>2 DEF Neuve
  <2> QED BY <2>1, <2>2
<1>2. l.coord \in Points /\ l.libelle \in Points
  BY DEF Lieux
<1>3. Neuve(d) \in Page
  BY <1>1, <1>2 DEF Page
<1>4. /\ Neuve(d).centre = l.coord /\ Neuve(d).libelle = l.libelle
      /\ Neuve(d).commande = Aucun /\ Neuve(d).nommages = {}
      /\ Neuve(d).nommageEnCours = Aucun
      /\ Neuve(d).perime = (l.libelle # l.coord) /\ Neuve(d).ecoute = FALSE
  BY <1>1
<1>5. Saine(Neuve(d))
  BY <1>3, <1>4 DEF Saine
<1>6. Juste(Neuve(d))
  <2>1. CASE l.libelle = l.coord
    BY <1>4, <2>1 DEF Juste
  <2>2. CASE l.libelle # l.coord
    BY <1>4, <2>2 DEF Juste
  <2> QED BY <2>1, <2>2
<1> QED BY <1>4, <1>5, <1>6

LEMMA InitDepartIInv == InitDepart => IInvDepart
<1> SUFFICES ASSUME InitDepart
             PROVE  IInvDepart
  OBVIOUS
<1>1. carte \in Carte
  BY PointsAssumption DEF InitDepart, Carte
<1>2. page = Neuve(Aucun) /\ depart = Aucun
  BY DEF InitDepart
<1> QED BY <1>1, <1>2, NeuveFaits DEF IInvDepart, Tenue, Nommee

\* The map is created, and the page wired to it.
LEMMA CarteIInv ==
  ASSUME IInvDepart, MonterCarte \/ Cabler
  PROVE  IInvDepart'
<1>1. CASE MonterCarte
  <2>1. /\ page' = page /\ depart' = depart /\ ~page.ecoute
        /\ carte' \in Carte
    BY <1>1 DEF MonterCarte, IInvDepart, Tenue, Carte
  <2> QED BY <2>1 DEF IInvDepart, Tenue, Nommee
<1>2. CASE Cabler
  <2> DEFINE u == Ordonnee(page, page.centre)
  <2>1. PICK r \in Aller(page, page.centre) :
          page' = [r[1] EXCEPT !.ecoute = TRUE] /\ carte' = r[2]
    BY <1>2 DEF Cabler
  <2>2. carte.la /\ ~page.ecoute /\ depart' = depart
    BY <1>2 DEF Cabler
  <2>3. Saine(page) /\ Juste(page) /\ carte \in Carte /\ page.centre \in Points
    BY <2>2 DEF IInvDepart, Tenue, Nommee, Saine, Page
  <2>4. Tenue(r[1], r[2]) /\ r[1] = u /\ r[2].la /\ (r[2].cible = Aucun => r[2].vue = page.centre)
    <3>0. page.ecoute => carte.la
      BY <2>2
    <3> HIDE DEF u
    <3>1. Tenue(r[1], r[2]) /\ Dirigee(r, page.centre)
      BY <2>3, <3>0, AllerFaits
    <3>2. r[1] = u
      BY <2>2, <2>3, <3>0, AllerFaits DEF u
    <3> QED BY <2>2, <3>1, <3>2 DEF Dirigee
  <2>5. Juste(u) /\ Saine(u) /\ u.centre = page.centre
    BY <2>3 DEF Saine, Page, Juste, Ordonnee
  <2> HIDE DEF u
  <2>6. Saine(page') /\ Juste(page') /\ page'.centre = page.centre /\ page'.ecoute
    <3>1. page' = [u EXCEPT !.ecoute = TRUE]
      BY <2>1, <2>4
    <3>2. /\ page' \in Page
          /\ \A c \in DOMAIN u \ {"ecoute"} : page'[c] = u[c]
          /\ page'.centre = u.centre /\ page'.commande = u.commande
          /\ page'.nommages = u.nommages /\ page'.nommageEnCours = u.nommageEnCours
          /\ page'.libelle = u.libelle /\ page'.perime = u.perime /\ page'.ecoute
      BY <2>5, <3>1 DEF Saine, Page
    <3> QED BY <2>5, <3>2 DEF Saine, Juste
  <2> QED BY <2>1, <2>2, <2>4, <2>6 DEF IInvDepart, Tenue, Nommee
<1> QED BY <1>1, <1>2

\* A place is chosen: it comes with its name.
LEMMA ChoisirIInv ==
  ASSUME IInvDepart, NEW p \in Points, choisir(p)
  PROVE  IInvDepart'
<1> DEFINE s == [page EXCEPT !.libelle = p, !.perime = page.nommageEnCours # Aucun]
           u == Ordonnee(s, p)
<1>1. PICK r \in Aller(s, p) : page' = r[1] /\ carte' = r[2]
  BY DEF choisir
<1>2. Saine(s) /\ s.ecoute = page.ecoute
  BY DEF IInvDepart, Tenue, Saine, Page
<1>3. Juste(u)
  BY DEF IInvDepart, Tenue, Saine, Page, Juste, Ordonnee
<1>4. carte \in Carte /\ (s.ecoute => carte.la) /\ depart' = depart
  BY <1>2 DEF IInvDepart, Tenue, choisir
<1> HIDE DEF s
<1>5. Tenue(r[1], r[2]) /\ Nommee(r[1], r[2])
  BY <1>1, <1>2, <1>3, <1>4, AllerFaits
<1> QED BY <1>1, <1>4, <1>5 DEF IInvDepart

\* The position comes: the map goes there, and its name is asked at once.
LEMMA PositionIInv ==
  ASSUME IInvDepart, NEW p \in Points, PositionObtenue(p)
  PROVE  IInvDepart'
<1>1. PICK r \in Aller(page, p) : page' = nommer(r[1], p) /\ carte' = r[2]
  BY DEF PositionObtenue
<1>2. Saine(page) /\ carte \in Carte /\ (page.ecoute => carte.la) /\ depart' = depart
  BY DEF IInvDepart, Tenue, PositionObtenue
<1>3. /\ Tenue(r[1], r[2])
      /\ r[1].centre = p \/ (r[1].ecoute /\ r[1].commande = Aucun /\ r[2].cible # Aucun)
  <2>1. Tenue(r[1], r[2]) /\ EnRoute(r, p)
    BY <1>1, <1>2, AllerFaits
  <2> QED BY <2>1 DEF EnRoute
<1>4. /\ Saine(page') /\ page'.centre = r[1].centre /\ page'.commande = r[1].commande
      /\ page'.ecoute = r[1].ecoute /\ page'.nommageEnCours = p
  BY <1>1, <1>3, NommerFaits DEF Tenue
<1>5. Tenue(page', carte')
  BY <1>1, <1>3, <1>4 DEF Tenue
<1>6. Nommee(page', carte')
  BY <1>1, <1>3, <1>4, PointsAssumption DEF Nommee, Juste
<1> QED BY <1>2, <1>5, <1>6 DEF IInvDepart

\* A position asked by a page that is gone moves the map of this one.
LEMMA OrphelineIInv ==
  ASSUME IInvDepart, NEW p \in Points, PositionOrpheline(p)
  PROVE  IInvDepart'
<1>1. PICK r \in Centrer(page, p) : page' = r[1] /\ carte' = r[2]
  BY DEF PositionOrpheline
<1>2. /\ Saine(page) /\ carte \in Carte /\ (page.ecoute => carte.la) /\ depart' = depart
      /\ Juste(page) \/ (page.ecoute /\ page.commande = Aucun)
  BY DEF IInvDepart, Tenue, Nommee, PositionOrpheline
<1>3. Tenue(r[1], r[2]) /\ Nommee(r[1], r[2])
  BY <1>1, <1>2, CentrerFaits
<1> QED BY <1>1, <1>2, <1>3 DEF IInvDepart

\* The camera comes to rest.
LEMMA BougerIInv ==
  ASSUME IInvDepart, NEW p \in Points, Bouger(p), page.ecoute => carte.la
  PROVE  IInvDepart'
<1>1. page' = Entendre(page, p) /\ carte' = [carte EXCEPT !.vue = p, !.cible = Aucun]
      /\ depart' = depart
  BY DEF Bouger
<1>2. carte' \in Carte /\ carte'.la = carte.la /\ carte'.vue = p
  BY <1>1 DEF IInvDepart, Tenue, Carte
<1>3. /\ Saine(page') /\ page'.ecoute = page.ecoute
      /\ (page.ecoute => page'.centre = p)
      /\ Juste(page')
  BY <1>1, EntendreFaits DEF IInvDepart, Tenue, Nommee
<1> QED BY <1>1, <1>2, <1>3 DEF IInvDepart, Tenue, Nommee

\* A call of nommer settles.
LEMMA RepondreIInv ==
  ASSUME IInvDepart, NEW p \in Points, RepondreNom(p) \/ RepondreAvorte(p)
  PROVE  IInvDepart'
<1>0. Saine(page) /\ carte' = carte /\ depart' = depart /\ p # Aucun
  BY PointsAssumption DEF IInvDepart, Tenue, RepondreNom, RepondreAvorte
<1>1. CASE RepondreNom(p)
  <2>1. p = page.nommageEnCours
    BY <1>1 DEF RepondreNom, IInvDepart, Tenue, Saine
  <2>2. page' = [page EXCEPT !.nommages = @ \ {p}, !.libelle = p,
                             !.nommageEnCours = IF @ = p THEN Aucun ELSE @]
    BY <1>1 DEF RepondreNom
  <2>3. /\ page' \in Page /\ page'.nommages = page.nommages \ {p} /\ page'.libelle = p
        /\ page'.nommageEnCours = Aucun /\ page'.centre = page.centre
        /\ page'.commande = page.commande /\ page'.ecoute = page.ecoute
        /\ page'.perime = page.perime
    BY <1>0, <2>1, <2>2 DEF Saine, Page
  <2>4. Saine(page')
    BY <1>0, <2>1, <2>3 DEF Saine
  <2>5. Juste(page) => Juste(page')
    BY <1>0, <2>1, <2>3 DEF Juste
  <2> QED BY <1>0, <2>3, <2>4, <2>5 DEF IInvDepart, Tenue, Nommee
<1>2. CASE RepondreAvorte(p)
  <2>1. page' = [page EXCEPT !.avortes = @ \ {p}]
    BY <1>2 DEF RepondreAvorte
  <2>2. /\ page' \in Page /\ page'.nommages = page.nommages /\ page'.libelle = page.libelle
        /\ page'.nommageEnCours = page.nommageEnCours /\ page'.centre = page.centre
        /\ page'.commande = page.commande /\ page'.ecoute = page.ecoute
        /\ page'.perime = page.perime
    BY <1>0, <2>1 DEF Saine, Page
  <2>3. Saine(page') /\ (Juste(page) => Juste(page'))
    BY <1>0, <2>2 DEF Saine, Juste
  <2> QED BY <1>0, <2>2, <2>3 DEF IInvDepart, Tenue, Nommee
<1> QED BY <1>1, <1>2

\* The start is set; the page is left, or found again.
LEMMA VisiteIInv ==
  ASSUME IInvDepart, partir \/ Quitter \/ Revenir
  PROVE  IInvDepart'
<1>1. CASE partir
  <2>1. page' = page /\ carte' = carte /\ depart' = [coord |-> page.centre, libelle |-> page.libelle]
    BY <1>1 DEF partir
  <2>2. page.centre \in Points /\ page.libelle \in Points
    BY DEF IInvDepart, Tenue, Saine, Page
  <2>3. depart' \in Lieux
    BY <2>1, <2>2 DEF Lieux
  <2> QED BY <2>1, <2>3 DEF IInvDepart
<1>2. CASE Quitter \/ Revenir
  <2>1. page' = Neuve(depart) /\ carte' = carte /\ depart' = depart
    BY <1>2 DEF Quitter, Revenir
  <2>2. Saine(page') /\ Juste(page') /\ ~page'.ecoute
    BY <2>1, NeuveFaits DEF IInvDepart
  <2> QED BY <2>1, <2>2 DEF IInvDepart, Tenue, Nommee
<1> QED BY <1>1, <1>2

LEMMA NextDepartIInv == IInvDepart /\ [NextDepart]_varsDepart => IInvDepart'
<1> SUFFICES ASSUME IInvDepart, [NextDepart]_varsDepart
             PROVE  IInvDepart'
  OBVIOUS
<1>0. page.ecoute => carte.la
  BY DEF IInvDepart, Tenue
<1>1. CASE MonterCarte \/ Cabler
  BY <1>1, CarteIInv
<1>2. ASSUME NEW p \in Points, choisir(p) \/ PositionObtenue(p) \/ PositionOrpheline(p)
      PROVE  IInvDepart'
  BY <1>2, ChoisirIInv, PositionIInv, OrphelineIInv
<1>3. ASSUME NEW p \in Points, Glisser(p)
      PROVE  IInvDepart'
  BY <1>0, <1>3, BougerIInv DEF Glisser
<1>4. CASE FinAnimation
  <2>1. carte.cible \in Points
    BY <1>4 DEF FinAnimation, IInvDepart, Tenue, Carte
  <2> QED BY <1>0, <1>4, <2>1, BougerIInv DEF FinAnimation
<1>5. ASSUME NEW p \in Points, RepondreNom(p) \/ RepondreAvorte(p)
      PROVE  IInvDepart'
  BY <1>5, RepondreIInv
<1>6. CASE partir \/ Quitter \/ Revenir
  BY <1>6, VisiteIInv
<1>7. CASE ZoneArrive \/ autourDeMoi \/ PositionRefusee \/ OrphelineRefusee \/ UNCHANGED varsDepart
  BY <1>7 DEF ZoneArrive, autourDeMoi, PositionRefusee, OrphelineRefusee, varsDepart, IInvDepart
<1> QED BY <1>1, <1>2, <1>3, <1>4, <1>5, <1>6, <1>7 DEF NextDepart, Geste

----------------------------------------------------------------------------
\* Each step of the page is one of its map and label, or leaves them alone, and
\* so for its list.
LEMMA PasDesParties == NextPage => [NextDepart]_varsDepart /\ [Next]_vars
<1> SUFFICES ASSUME NextPage
             PROVE  [NextDepart]_varsDepart /\ [Next]_vars
  OBVIOUS
<1>1. CASE DuReticule /\ UNCHANGED <<vars, texte, revenue>>
  BY <1>1 DEF DuReticule, NextDepart, Geste
<1>2. CASE (Saisir \/ (DeLaListe /\ UNCHANGED <<texte, revenue>>)) /\ UNCHANGED varsDepart
  BY <1>2 DEF Saisir, DeLaListe, Next
<1>3. CASE Echapper
  BY <1>3 DEF Echapper, fermerListe, Next
<1>4. CASE QuitterPage
  BY <1>4 DEF QuitterPage, NextDepart, Geste
<1>5. ASSUME NEW p \in Points, Choisir(p)
      PROVE  [NextDepart]_varsDepart /\ [Next]_vars
  BY <1>5 DEF Choisir, fermerListe, Next, NextDepart, Geste
<1> QED BY <1>1, <1>2, <1>3, <1>4, <1>5 DEF NextPage

\* The last text has written, is awaited by the timer or is called for.
LEMMA DerniereSuivie ==
  ASSUME IInv, IInvTexte, [Next]_vars
  PROVE  (etat.de = generation \/ minuterie = generation \/ generation \in appels)'
<1>1. CASE saisir \/ saisirCourt
  BY <1>1 DEF saisir, saisirCourt, Etat
<1>2. CASE Declencher
  BY <1>2 DEF Declencher, IInvTexte, IInv, UnSeulAppel
<1>3. ASSUME NEW g \in Generations, \E s \in {"ok", "erreur"} : Ecrire(g, s)
      PROVE  (etat.de = generation \/ minuterie = generation \/ generation \in appels)'
  BY <1>3 DEF Ecrire, Etat, IInvTexte
<1>4. ASSUME NEW g \in Generations, Abandonner(g)
      PROVE  (etat.de = generation \/ minuterie = generation \/ generation \in appels)'
  BY <1>4 DEF Abandonner, IInvTexte, IInv
<1>5. CASE UNCHANGED vars
  BY <1>5 DEF vars, IInvTexte
<1> QED BY <1>1, <1>2, <1>3, <1>4, <1>5 DEF Next, effacer, Repondre

\* A field emptied stays without a timer and without a call of the last text.
LEMMA NextTexte ==
  ASSUME IInv, IInvTexte, [NextPage]_varsPage
  PROVE  IInvTexte'
<1>1. (etat.de = generation \/ minuterie = generation \/ generation \in appels)'
  BY PasDesParties, DerniereSuivie DEF varsPage
<1>2. CASE Saisir
  <2>1. generation' \in Nat /\ generation' # 0
    BY <1>2, ArreterFaits DEF Saisir, saisir, saisirCourt
  <2> QED BY <1>1, <1>2, <2>1 DEF Saisir, IInvTexte
<1>3. ASSUME fermerListe
      PROVE  IInvTexte'
  <2>1. generation' \notin appels'
    BY <1>3, ArreterFaits DEF fermerListe, effacer, saisirCourt
  <2>2. etat'.statut = "vide" /\ minuterie' = 0 /\ texte' = 0
    BY <1>3 DEF fermerListe, effacer, saisirCourt, Etat
  <2> QED BY <1>1, <2>1, <2>2 DEF IInvTexte
<1>4. CASE UNCHANGED <<vars, texte, revenue>>
  BY <1>4 DEF IInvTexte, vars
<1>5. CASE DeLaListe /\ UNCHANGED <<texte, revenue>>
  <2>1. generation' = generation
    BY <1>5 DEF DeLaListe, Declencher, Repondre, Ecrire, Abandonner
  <2>2. ASSUME texte = 0, ~revenue
        PROVE  (etat.statut = "vide" /\ minuterie = 0 /\ generation \notin appels)'
    <3>1. etat.statut = "vide" /\ minuterie = 0 /\ generation \notin appels
      BY <2>2 DEF IInvTexte
    <3>2. PICK g \in Generations : Repondre(g)
      BY <1>5, <3>1 DEF DeLaListe, Declencher
    <3>3. /\ g \in appels /\ appels' = appels \ {g}
          /\ minuterie' = minuterie /\ etat' = etat
      BY <3>1, <3>2 DEF Repondre, Ecrire, Abandonner
    <3> QED BY <2>1, <3>1, <3>3
  <2> QED BY <1>1, <1>5, <2>1, <2>2 DEF IInvTexte
<1>6. CASE QuitterPage
  BY <1>1, <1>6 DEF QuitterPage, IInvTexte
<1>7. CASE UNCHANGED varsPage
  BY <1>4, <1>7 DEF varsPage
<1>8. CASE Echapper \/ \E p \in Points : Choisir(p)
  BY <1>3, <1>8 DEF Echapper, Choisir
<1> QED BY <1>2, <1>4, <1>5, <1>6, <1>7, <1>8 DEF NextPage

\* The page and its list keep their invariants together.
THEOREM InvariantPage == FairSpecPage => [](IInvDepart /\ IInv /\ IInvTexte)
<1>1. InitPage => IInvDepart /\ IInv /\ IInvTexte
  BY InitDepartIInv, InitIInv DEF InitPage, IInvTexte, Init, Etat
<1>2. IInvDepart /\ IInv /\ IInvTexte /\ [NextPage]_varsPage
        => (IInvDepart /\ IInv /\ IInvTexte)'
  <2> SUFFICES ASSUME IInvDepart, IInv, IInvTexte, [NextPage]_varsPage
               PROVE  (IInvDepart /\ IInv /\ IInvTexte)'
    OBVIOUS
  <2>1. [NextDepart]_varsDepart /\ [Next]_vars
    BY PasDesParties DEF varsPage
  <2> QED BY <2>1, NextDepartIInv, NextIInv, NextTexte
<1> QED BY <1>1, <1>2, PTL DEF FairSpecPage

\* A map at rest shows the retained centre, whatever gestures, late positions
\* and interrupted animations have crossed (depart/+page.svelte:78-120).
THEOREM CentreCorrect == FairSpecPage => []CentreSousLeReticule
<1>1. IInvDepart => CentreSousLeReticule
  BY DEF IInvDepart, Tenue, CentreSousLeReticule
<1> QED BY InvariantPage, <1>1, PTL

\* At rest the label names the centre, or the naming under way will
\* (depart/+page.svelte:40-56).
THEOREM NomCorrect == FairSpecPage => []NomTenu
<1>1. IInvDepart => NomTenu
  BY DEF IInvDepart, Nommee, Juste, NomTenu, Repos
<1> QED BY InvariantPage, <1>1, PTL

\* A field emptied by a choice or by Escape leaves nothing shown and nothing to
\* come; under a text, what is shown is what it found or its search is on its
\* way (depart/+page.svelte:92-103).
THEOREM ListeCorrecte == FairSpecPage => []ListeDuChamp
<1>1. IInv /\ IInvTexte => ListeDuChamp
  <2> SUFFICES ASSUME IInv, IInvTexte, ~revenue
               PROVE  ListeDuChamp
    BY DEF ListeDuChamp
  <2>1. CASE texte = 0
    BY <2>1 DEF IInvTexte, IInv, UnSeulAppel, ListeDuChamp
  <2>2. CASE texte # 0
    BY <2>2 DEF IInvTexte, IInv, ListeDuChamp
  <2> QED BY <2>1, <2>2
<1> QED BY InvariantPage, <1>1, PTL
=============================================================================
