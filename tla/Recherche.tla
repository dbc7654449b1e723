------------------------------ MODULE Recherche ------------------------------
(***************************************************************************)
(* creerRecherche (web/src/lib/app/depart/recherche.svelte.ts): the search *)
(* of an address while it is typed. A keystroke stops the timer and the    *)
(* call of the previous one; a call starts DELAI_MS after the last one;    *)
(* the geocoder answers when it can, and may ignore the signal.            *)
(*                                                                         *)
(* A text is abstracted to the generation of the keystroke that typed it.  *)
(***************************************************************************)
EXTENDS Integers

CONSTANT MaxGeneration    \* bound on the keystrokes and erasures

ASSUME BornesAssumption == MaxGeneration \in Nat

VARIABLES
  etat,         \* EtatRecherche: statut, and the generation that wrote it
  minuterie,    \* the generation whose timer is armed, 0 for null
  enCours,      \* the generation whose controller is current, 0 for null
  generation,
  appels,       \* the generations whose call of chercher has not settled
  avortes       \* those whose controller is aborted

vars == <<etat, minuterie, enCours, generation, appels, avortes>>

Generations == 1 .. MaxGeneration
Etat(s, g) == [statut |-> s, de |-> g]

Init ==
  /\ etat = Etat("vide", 0)
  /\ minuterie = 0 /\ enCours = 0 /\ generation = 0
  /\ appels = {} /\ avortes = {}

----------------------------------------------------------------------------
arreter ==
  /\ generation < MaxGeneration
  /\ avortes' = avortes \cup ({enCours} \ {0})
  /\ enCours' = 0
  /\ generation' = generation + 1
  /\ UNCHANGED appels

\* A text shorter than MIN_CARACTERES, once trimmed.
saisirCourt ==
  /\ arreter
  /\ minuterie' = 0
  /\ etat' = Etat("vide", generation')
\* The places already shown stay while the text is refined.
saisir ==
  /\ arreter
  /\ minuterie' = generation'
  /\ etat' = IF etat.statut = "ok" THEN etat ELSE Etat("attente", generation')
effacer == saisirCourt

\* The timer fires.
Declencher ==
  /\ minuterie # 0
  /\ minuterie' = 0
  /\ enCours' = minuterie
  /\ appels' = appels \cup {minuterie}
  /\ UNCHANGED <<etat, generation, avortes>>

\* Mutants: any call writes; finally clears another call's controller.
EcrireToujours(g, statut) ==
  /\ g \in appels
  /\ etat' = Etat(statut, g)
  /\ appels' = appels \ {g}
  /\ enCours' = IF enCours = g THEN 0 ELSE enCours
  /\ UNCHANGED <<minuterie, generation, avortes>>
EcrireLibre(g, statut) ==
  /\ g \in appels
  /\ etat' = IF g = generation THEN Etat(statut, g) ELSE etat
  /\ appels' = appels \ {g}
  /\ enCours' = 0
  /\ UNCHANGED <<minuterie, generation, avortes>>
\* chercher settles: only the last call writes, then finally.
Ecrire(g, statut) ==
  /\ g \in appels
  /\ etat' = IF g = generation THEN Etat(statut, g) ELSE etat
  /\ appels' = appels \ {g}
  /\ enCours' = IF enCours = g THEN 0 ELSE enCours
  /\ UNCHANGED <<minuterie, generation, avortes>>
\* AbortError: nothing is written.
Abandonner(g) ==
  /\ g \in appels \cap avortes
  /\ appels' = appels \ {g}
  /\ enCours' = IF enCours = g THEN 0 ELSE enCours
  /\ UNCHANGED <<etat, minuterie, generation, avortes>>
\* An aborted call answers all the same when the geocoder ignores the signal.
Repondre(g) == Ecrire(g, "ok") \/ Ecrire(g, "erreur") \/ Abandonner(g)

Next == saisir \/ saisirCourt \/ effacer \/ Declencher
        \/ \E g \in Generations : Repondre(g)
Spec == Init /\ [][Next]_vars

----------------------------------------------------------------------------
TypeOK ==
  /\ etat \in [statut : {"vide", "attente", "ok", "erreur"}, de : 0 .. MaxGeneration]
  /\ minuterie \in 0 .. MaxGeneration
  /\ enCours \in 0 .. MaxGeneration
  /\ generation \in 0 .. MaxGeneration
  /\ appels \subseteq Generations /\ avortes \subseteq Generations

\* Only the last keystroke writes: a slow answer never replaces what a later
\* text shows (recherche.svelte.ts:20-24).
DernierEcrit == [][etat' # etat => etat'.de = generation']_vars

\* "attente" is shown only for the last text, and something will end it: its
\* timer, or its call, which the next keystroke would abort.
AttenteVivante ==
  etat.statut = "attente" =>
    /\ etat.de = generation
    /\ \/ minuterie = generation
       \/ generation \in appels /\ enCours = generation

\* A keystroke stops both the timer and the call before it: the geocoder, a
\* public service, never has two calls nobody told to stop.
UnSeulAppel ==
  /\ \A g \in appels \ avortes : g = generation /\ g = enCours
  /\ minuterie # 0 => minuterie = generation /\ appels \subseteq avortes

\* When typing ceases, what is shown ends up that of the last text.
ListeAJour == <>[](etat.de = generation)

----------------------------------------------------------------------------
\* The inductive invariant of the proofs.
IInv ==
  /\ TypeOK /\ AttenteVivante /\ UnSeulAppel
  /\ etat.de <= generation
  /\ appels \cup avortes \subseteq 1 .. generation
  /\ enCours # 0 => enCours = generation
  /\ minuterie # 0 => generation \notin appels \cup avortes
  /\ generation \notin avortes
=============================================================================
