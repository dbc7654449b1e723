------------------------------- MODULE Depart --------------------------------
(***************************************************************************)
(* The page where the start is chosen (web/src/routes/depart/+page.svelte):*)
(* a reticle over a map, a label that names what lies under it, reverse    *)
(* geocodings and geolocations that answer when they can.                  *)
(*                                                                         *)
(* A label is abstracted to the point it names: the name the geocoder      *)
(* gives a point and the coordinates that stand in for it (poser.ts) are   *)
(* the same. The map is MapLibre: a movement that replaces a running       *)
(* animation ends it first, wherever the camera is, and both ends fire     *)
(* 'moveend', inside the call. The list of places is module Recherche.     *)
(***************************************************************************)
EXTENDS Integers

CONSTANTS Points, Aucun,
          CENTRE_BRETAGNE,
          Zone,             \* the points the region covers
          MaxPositions      \* bound on the geolocations under way

ASSUME PointsAssumption ==
  /\ Aucun \notin Points /\ CENTRE_BRETAGNE \in Zone /\ Zone \subseteq Points
ASSUME PositionsAssumption == MaxPositions \in Nat

VARIABLES
  page,         \* what the mounted page remembers, see Page
  carte,        \* la: created; vue: its centre at rest; cible: of the animation
  monte,
  attendues,    \* geolocations asked by this visit
  orphelines,   \* geolocations asked by a visit that is over
  zoneConnue,   \* appEtat.zone() has answered
  depart        \* appEtat.depart: coord and libelle, or Aucun

varsDepart == <<page, carte, monte, attendues, orphelines, zoneConnue, depart>>

Lieux == [coord : Points, libelle : Points]
\* commande: the movement ordered and not yet heard of. nommages and avortes:
\* the points of the calls of nommer in flight, not aborted and aborted (two
\* calls with one point and one fate are one). nommageEnCours: the call whose
\* controller is current. ecoute: surDeplacement is wired. perime: history,
\* see NomTenu.
Page == [centre : Points, libelle : Points, commande : Points \cup {Aucun},
         nommages : SUBSET Points, avortes : SUBSET Points,
         nommageEnCours : Points \cup {Aucun}, ecoute : BOOLEAN, perime : BOOLEAN]

Neuve(d) ==
  LET lieu == IF d # Aucun THEN d
              ELSE [coord |-> CENTRE_BRETAGNE, libelle |-> CENTRE_BRETAGNE] IN
  [centre |-> lieu.coord, libelle |-> lieu.libelle, commande |-> Aucun,
   nommages |-> {}, avortes |-> {}, nommageEnCours |-> Aucun, ecoute |-> FALSE,
   perime |-> lieu.libelle # lieu.coord]

InitDepart ==
  /\ depart = Aucun
  /\ page = Neuve(depart)
  /\ carte = [la |-> FALSE, vue |-> CENTRE_BRETAGNE, cible |-> Aucun]
  /\ monte = TRUE
  /\ attendues = 0 /\ orphelines = 0
  /\ zoneConnue = FALSE

----------------------------------------------------------------------------
nommer(s, p) ==
  [s EXCEPT !.avortes = @ \cup ({s.nommageEnCours} \ {Aucun}),
            !.nommages = (@ \ {s.nommageEnCours}) \cup {p},
            !.nommageEnCours = p, !.perime = FALSE]

\* Mutant: the order stays once the movement is heard.
EntendreSansOublier(s, c) ==
  IF ~s.ecoute \/ s.commande = c THEN s ELSE nommer([s EXCEPT !.centre = c], c)
\* The listener of surDeplacement.
Entendre(s, c) ==
  IF ~s.ecoute THEN s
  ELSE IF s.commande = c THEN [s EXCEPT !.commande = Aucun]
  ELSE nommer([s EXCEPT !.commande = Aucun, !.centre = c], c)

\* What centrer may lead to: a running animation ends at some q, then the new
\* movement is animated, or is a jump (prefers-reduced-motion).
Centrer(s, p) ==
  LET Arrets == IF carte.cible = Aucun THEN {s} ELSE {Entendre(s, q) : q \in Points}
  IN  IF ~carte.la THEN {<<s, carte>>}
      ELSE {<<t, [carte EXCEPT !.cible = p]>> : t \in Arrets} \cup
           {<<Entendre(t, p), [carte EXCEPT !.vue = p, !.cible = Aucun]>> : t \in Arrets}

\* aller: what the page and the map may be after it.
Aller(s, p) == Centrer([s EXCEPT !.commande = p, !.centre = p], p)

----------------------------------------------------------------------------
\* The layout creates the map, when WebGL and the import allow.
MonterCarte ==
  /\ ~carte.la
  /\ carte' = [carte EXCEPT !.la = TRUE]
  /\ UNCHANGED <<page, monte, attendues, orphelines, zoneConnue, depart>>
\* The effect that waits for the map: it centres it, then listens.
Cabler ==
  /\ monte /\ carte.la /\ ~page.ecoute
  /\ \E r \in Aller(page, page.centre) :
       page' = [r[1] EXCEPT !.ecoute = TRUE] /\ carte' = r[2]
  /\ UNCHANGED <<monte, attendues, orphelines, zoneConnue, depart>>
ZoneArrive ==
  /\ monte /\ ~zoneConnue
  /\ zoneConnue' = TRUE
  /\ UNCHANGED <<page, carte, monte, attendues, orphelines, depart>>

choisir(p) ==
  /\ monte
  /\ \E r \in Aller([page EXCEPT !.libelle = p, !.perime = page.nommageEnCours # Aucun], p) :
       page' = r[1] /\ carte' = r[2]
  /\ UNCHANGED <<monte, attendues, orphelines, zoneConnue, depart>>

autourDeMoi ==
  /\ monte /\ attendues + orphelines < MaxPositions
  /\ attendues' = attendues + 1
  /\ UNCHANGED <<page, carte, monte, orphelines, zoneConnue, depart>>
\* Refused or unavailable: only a panel says so.
PositionRefusee ==
  /\ attendues > 0
  /\ attendues' = attendues - 1
  /\ UNCHANGED <<page, carte, monte, orphelines, zoneConnue, depart>>
PositionObtenue(p) ==
  /\ attendues > 0
  /\ attendues' = attendues - 1
  /\ \E r \in Aller(page, p) : page' = nommer(r[1], p) /\ carte' = r[2]
  /\ UNCHANGED <<monte, orphelines, zoneConnue, depart>>
\* The answer of a page that is gone: nothing stops it from moving the map,
\* which the page mounted since hears as a gesture.
PositionOrpheline(p) ==
  /\ orphelines > 0
  /\ orphelines' = orphelines - 1
  /\ \E r \in Centrer(page, p) : page' = r[1] /\ carte' = r[2]
  /\ UNCHANGED <<monte, attendues, zoneConnue, depart>>
OrphelineRefusee ==
  /\ orphelines > 0
  /\ orphelines' = orphelines - 1
  /\ UNCHANGED <<page, carte, monte, attendues, zoneConnue, depart>>

\* The camera comes to rest: a gesture, the end of an animation, a gesture
\* that interrupts one.
Bouger(p) ==
  /\ carte' = [carte EXCEPT !.vue = p, !.cible = Aucun]
  /\ page' = Entendre(page, p)
  /\ UNCHANGED <<monte, attendues, orphelines, zoneConnue, depart>>
\* (What other pages do with the map they share is not followed.)
Glisser(p) == monte /\ carte.la /\ Bouger(p)
FinAnimation == carte.cible # Aucun /\ Bouger(carte.cible)

\* Mutant: the controller is never cleared.
RepondreNomSansFin(p) ==
  /\ p \in page.nommages
  /\ page' = [page EXCEPT !.nommages = @ \ {p}, !.libelle = p]
  /\ UNCHANGED <<carte, monte, attendues, orphelines, zoneConnue, depart>>
\* nommerPoint settles: with a name, or with the coordinates.
RepondreNom(p) ==
  /\ p \in page.nommages
  /\ page' = [page EXCEPT !.nommages = @ \ {p}, !.libelle = p,
                          !.nommageEnCours = IF @ = p THEN Aucun ELSE @]
  /\ UNCHANGED <<carte, monte, attendues, orphelines, zoneConnue, depart>>
\* Mutant: the signal is not looked at.
RepondreQuandMeme(p) ==
  /\ p \in page.avortes
  /\ page' = [page EXCEPT !.avortes = @ \ {p}, !.libelle = p]
  /\ UNCHANGED <<carte, monte, attendues, orphelines, zoneConnue, depart>>
\* An aborted call settles, with AbortError or with an answer that is dropped.
RepondreAvorte(p) ==
  /\ p \in page.avortes
  /\ page' = [page EXCEPT !.avortes = @ \ {p}]
  /\ UNCHANGED <<carte, monte, attendues, orphelines, zoneConnue, depart>>

partir ==
  /\ monte
  /\ ~(zoneConnue /\ page.centre \notin Zone)
  /\ depart' = [coord |-> page.centre, libelle |-> page.libelle]
  /\ UNCHANGED <<page, carte, monte, attendues, orphelines, zoneConnue>>
\* The page is left, by goto or by a link, and comes back later.
Quitter ==
  /\ monte
  /\ monte' = FALSE
  /\ page' = Neuve(depart)
  /\ orphelines' = attendues + orphelines
  /\ attendues' = 0
  /\ UNCHANGED <<carte, zoneConnue, depart>>
Revenir ==
  /\ ~monte
  /\ monte' = TRUE
  /\ page' = Neuve(depart)
  /\ zoneConnue' = FALSE
  /\ UNCHANGED <<carte, attendues, orphelines, depart>>

\* What a person does, or a geolocation answers.
Geste ==
  \/ \E p \in Points : choisir(p) \/ PositionObtenue(p) \/ PositionOrpheline(p)
                         \/ Glisser(p)
  \/ autourDeMoi \/ PositionRefusee \/ OrphelineRefusee
  \/ partir \/ Quitter \/ Revenir
NextDepart ==
  \/ Geste \/ MonterCarte \/ Cabler \/ ZoneArrive \/ FinAnimation
  \/ \E p \in Points : RepondreNom(p) \/ RepondreAvorte(p)
SpecDepart == InitDepart /\ [][NextDepart]_varsDepart

----------------------------------------------------------------------------
Repos == monte /\ (page.ecoute => carte.cible = Aucun)

\* Whatever gestures, orders, late positions and interrupted animations have
\* crossed, a map at rest shows the retained centre under the reticle.
CentreSousLeReticule == page.ecoute /\ carte.cible = Aucun => page.centre = carte.vue

\* At rest the label names the centre, or the naming under way will. Excused
\* (perime), until the next naming: a place chosen while a naming was in
\* flight, see NomDuReticule, and a start set while its label was old, which
\* the page takes back as it is.
NomTenu ==
  Repos /\ ~page.perime =>
    page.centre = IF page.nommageEnCours = Aucun THEN page.libelle
                  ELSE page.nommageEnCours

\* When gestures cease, the label ends up naming the centre.
NomArrive ==
  []<><<Geste>>_varsDepart \/
  <>[](~monte \/ page.perime
       \/ (Repos /\ page.nommageEnCours = Aucun /\ page.libelle = page.centre))

\* What the comment of nommer promises (+page.svelte:36-38): a slow answer
\* never gives the reticle the name of a place it has left.
NomDuReticule ==
  [][Repos /\ monte' /\ page'.libelle # page.libelle
       /\ (\E p \in Points : RepondreNom(p))
     => page'.libelle = page.centre]_varsDepart
----------------------------------------------------------------------------
\* The inductive invariant of the proofs, on a page and a map. An order not
\* heard yet is for the centre, and the one call of nommer that is not aborted
\* is the current one; what the label will name is the centre, but while the
\* map goes to a place named in advance (PositionObtenue), whose arrival will
\* then be heard as a gesture.
Carte == [la : BOOLEAN, vue : Points, cible : Points \cup {Aucun}]
Saine(s) ==
  /\ s \in Page
  /\ s.commande # Aucun => s.commande = s.centre
  /\ s.nommages = {s.nommageEnCours} \ {Aucun}
Juste(s) ==
  s.perime \/ s.centre = IF s.nommageEnCours = Aucun THEN s.libelle ELSE s.nommageEnCours
Tenue(s, c) ==
  /\ Saine(s) /\ c \in Carte
  /\ s.ecoute => c.la
  /\ s.ecoute /\ c.cible = Aucun => s.centre = c.vue
Nommee(s, c) ==
  \/ Juste(s)
  \/ s.ecoute /\ c.cible # Aucun /\ s.commande = Aucun
IInvDepart == Tenue(page, carte) /\ Nommee(page, carte) /\ depart \in Lieux \cup {Aucun}
=============================================================================
