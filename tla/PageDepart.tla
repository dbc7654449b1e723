----------------------------- MODULE PageDepart ------------------------------
(***************************************************************************)
(* The page of the start as a whole (web/src/routes/depart/+page.svelte):  *)
(* its map and its label are Depart, the list under its field is that of   *)
(* Recherche, which the application keeps when the page goes. A place is   *)
(* chosen from that list.                                                  *)
(***************************************************************************)
EXTENDS Depart, Recherche

VARIABLES
  texte,        \* the keystroke that typed what the field shows, 0 when the
                \* page empties it or opens
  revenue       \* history: the page was left since the last keystroke or erasure

varsPage == <<varsDepart, vars, texte, revenue>>

InitPage == InitDepart /\ Init /\ texte = 0 /\ revenue = FALSE

----------------------------------------------------------------------------
Saisir ==
  /\ monte
  /\ saisir \/ saisirCourt
  /\ texte' = generation' /\ revenue' = FALSE
fermerListe == effacer /\ texte' = 0 /\ revenue' = FALSE
\* Escape, in the field.
Echapper == monte /\ fermerListe /\ UNCHANGED varsDepart
\* Mutant: the list stays.
ChoisirSansFermer(p) ==
  /\ etat.statut = "ok" /\ choisir(p)
  /\ texte' = 0 /\ revenue' = FALSE
  /\ UNCHANGED vars
\* A click on a place of the list.
Choisir(p) == etat.statut = "ok" /\ fermerListe /\ choisir(p)
QuitterPage == Quitter /\ texte' = 0 /\ revenue' = TRUE /\ UNCHANGED vars

\* The rest of either part, which the other does not see.
DuReticule ==
  \/ \E p \in Points : PositionObtenue(p) \/ PositionOrpheline(p) \/ Glisser(p)
                         \/ RepondreNom(p) \/ RepondreAvorte(p)
  \/ autourDeMoi \/ PositionRefusee \/ OrphelineRefusee \/ partir \/ Revenir
  \/ MonterCarte \/ Cabler \/ ZoneArrive \/ FinAnimation
DeLaListe == Declencher \/ \E g \in Generations : Repondre(g)

NextPage ==
  \/ DuReticule /\ UNCHANGED <<vars, texte, revenue>>
  \/ (Saisir \/ (DeLaListe /\ UNCHANGED <<texte, revenue>>)) /\ UNCHANGED varsDepart
  \/ Echapper \/ QuitterPage
  \/ \E p \in Points : Choisir(p)

\* Effects run, animations end and calls settle, on either side: whichever of
\* them comes, one does.
SuiteDuReticule ==
  Cabler \/ FinAnimation \/ \E p \in Points : RepondreNom(p) \/ RepondreAvorte(p)
FairSpecPage ==
  /\ InitPage /\ [][NextPage]_varsPage
  /\ WF_varsPage(SuiteDuReticule /\ UNCHANGED <<vars, texte, revenue>>)
  /\ WF_varsPage(DeLaListe /\ UNCHANGED <<varsDepart, texte, revenue>>)

----------------------------------------------------------------------------
\* The list follows the field (depart/+page.svelte:92-103). Emptied by a choice
\* or by Escape, it leaves nothing shown and nothing to come: no timer, and no
\* call that was not told to stop. Under a text, what is shown is what that text
\* found, or the search for that text is on its way, not told to stop: until
\* then the places of an older text may stay (recherche.svelte.ts:26-27), never
\* after. A page left and found again is apart: its field is empty over what its
\* former visit asked for, even what arrives only then.
ListeDuChamp ==
  ~revenue =>
    /\ texte = 0 => etat.statut = "vide" /\ minuterie = 0 /\ appels \subseteq avortes
    /\ texte # 0 => \/ etat.de = texte
                    \/ minuterie = texte
                    \/ texte \in appels \ avortes

\* When gestures cease the label ends up naming the centre, and when typing
\* does the list ends up that of the last text: none of the calls that one of
\* the two has aborted holds the other back.
PageArrive == NomArrive /\ ListeAJour
----------------------------------------------------------------------------
\* The inductive invariant of the proofs, with those of the two parts: the last
\* text has written or will, and once the field is emptied nothing can.
IInvTexte ==
  /\ etat.de = generation \/ minuterie = generation \/ generation \in appels
  /\ texte \in {0, generation} \/ revenue
  /\ texte = 0 /\ ~revenue =>
       etat.statut = "vide" /\ minuterie = 0 /\ generation \notin appels
=============================================================================
