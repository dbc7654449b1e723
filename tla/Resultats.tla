----------------------------- MODULE Resultats ------------------------------
(***************************************************************************)
(* creerResultats (web/src/lib/app/generation/resultats.svelte.ts) over    *)
(* the HTTP engine (web/src/lib/infra/hent-api.ts): searches are launched, *)
(* cancelled, replaced, and their answers come back in any order.          *)
(*                                                                         *)
(* The event loop runs one callback at a time: each action is one. A       *)
(* search is a fetch, then the reading of a body, then the continuation of *)
(* lancer. Searches are numbered by the generation they belong to.         *)
(***************************************************************************)
EXTENDS Integers

CONSTANT MaxGeneration    \* bound on the searches launched and results posed

ASSUME BornesAssumption == MaxGeneration \in Nat

VARIABLES
  etat,             \* EtatResultats: statut, and the generation it speaks of
  enCours,          \* the generation whose controller is current, 0 for null
  generation,
  phase,            \* phase[g]: where the call of generer is
  avorte,           \* the generations whose controller is aborted
  annules           \* history: the generations aborted by annuler alone

vars == <<etat, enCours, generation, phase, avorte, annules>>

Generations == 1 .. MaxGeneration
Genres == {"HorsZone", "AucuneBoucle", "TropDeDemandes", "DelaiDepasse",
           "Serveur", "Reseau"}
Statuts == {200, 400, 404, 429, 500, 504}
\* parStatut: any other status is the server's.
parStatut(s) == CASE s = 400 -> "HorsZone"       [] s = 404 -> "AucuneBoucle"
                  [] s = 429 -> "TropDeDemandes" [] s = 504 -> "DelaiDepasse"
                  [] OTHER -> "Serveur"

\* "absent" (no search bears the number), "fetch", "corps" (a good answer),
\* a genre (the body of an error is being read), "fini".
Phases == {"absent", "fetch", "corps", "fini"} \cup Genres
EnVol(g) == phase[g] \notin {"absent", "fini"}

Etat(s, g) == [statut |-> s, de |-> g]
Init ==
  /\ etat = Etat("vide", 0)
  /\ enCours = 0
  /\ generation = 0
  /\ phase = [g \in Generations |-> "absent"]
  /\ avorte = {}
  /\ annules = {}

Avorter == avorte' = avorte \cup ({enCours} \ {0})

lancer ==
  /\ generation < MaxGeneration
  /\ Avorter
  /\ generation' = generation + 1
  /\ enCours' = generation + 1
  /\ phase' = [phase EXCEPT ![generation + 1] = "fetch"]
  /\ etat' = Etat("calcul", generation + 1)
  /\ UNCHANGED annules
annuler ==
  /\ Avorter
  /\ annules' = annules \cup ({enCours} \ {0})
  /\ UNCHANGED <<etat, enCours, generation, phase>>
\* Mutant: the generation does not move.
EffacerSurPlace(statut) ==
  /\ generation < MaxGeneration
  /\ Avorter
  /\ etat' = Etat(statut, generation)
  /\ UNCHANGED <<enCours, generation, phase, annules>>
Effacer(statut) ==
  /\ generation < MaxGeneration
  /\ Avorter
  /\ generation' = generation + 1
  /\ etat' = Etat(statut, generation + 1)
  /\ UNCHANGED <<enCours, phase, annules>>
poser == Effacer("ok")
reinitialiser == Effacer("vide")

\* Mutants: whoever ends writes; whoever ends clears the controller.
ContinuerToujours(g, statut) ==
  /\ phase' = [phase EXCEPT ![g] = "fini"]
  /\ etat' = Etat(statut, g)
  /\ enCours' = IF enCours = g THEN 0 ELSE enCours
  /\ UNCHANGED <<generation, avorte, annules>>
ContinuerLibre(g, statut) ==
  /\ phase' = [phase EXCEPT ![g] = "fini"]
  /\ etat' = IF g = generation THEN Etat(statut, g) ELSE etat
  /\ enCours' = 0
  /\ UNCHANGED <<generation, avorte, annules>>
\* The end of lancer: catch or not, then finally.
Continuer(g, statut) ==
  /\ phase' = [phase EXCEPT ![g] = "fini"]
  /\ etat' = IF g = generation THEN Etat(statut, g) ELSE etat
  /\ enCours' = IF enCours = g THEN 0 ELSE enCours
  /\ UNCHANGED <<generation, avorte, annules>>

\* fetch resolves with a status: an error answer has its body read first.
Repondre(g, s) ==
  /\ phase[g] = "fetch"
  /\ g \notin avorte
  /\ phase' = [phase EXCEPT ![g] = IF s = 200 THEN "corps" ELSE parStatut(s)]
  /\ UNCHANGED <<etat, enCours, generation, avorte, annules>>
\* The transport fails before an answer, or while a good one is read.
Rompre(g) ==
  /\ phase[g] \in {"fetch", "corps"}
  /\ g \notin avorte
  /\ Continuer(g, "erreur")
\* Mutant: an abort ends the search without a word.
InterrompreMuet(g) ==
  /\ phase[g] \in {"fetch", "corps"}
  /\ g \in avorte
  /\ phase' = [phase EXCEPT ![g] = "fini"]
  /\ UNCHANGED <<etat, enCours, generation, avorte, annules>>
\* An aborted controller rejects the fetch, and the reading of a good body,
\* with AbortError, which appeler and generer let through.
Interrompre(g) ==
  /\ phase[g] \in {"fetch", "corps"}
  /\ g \in avorte
  /\ Continuer(g, "vide")
Livrer(g) ==
  /\ phase[g] = "corps"
  /\ g \notin avorte
  /\ Continuer(g, "ok")
\* erreurDe: whatever happens to the body, an abort included, the error of the
\* status is thrown.
Refuser(g) ==
  /\ phase[g] \in Genres
  /\ Continuer(g, "erreur")

Geste == lancer \/ annuler \/ poser \/ reinitialiser
Reponse(g) == \/ \E s \in Statuts : Repondre(g, s)
              \/ Rompre(g) \/ Interrompre(g) \/ Livrer(g) \/ Refuser(g)
Next == Geste \/ \E g \in Generations : Reponse(g)
Spec == Init /\ [][Next]_vars
\* A fetch settles, a body is read: the server bounds its requests at 5 s and
\* its writes at 30 s (cmd/routed/main.go).
FairSpec == Spec /\ \A g \in Generations : WF_vars(Reponse(g))

----------------------------------------------------------------------------
TypeOK ==
  /\ etat \in [statut : {"vide", "calcul", "ok", "erreur"}, de : 0 .. MaxGeneration]
  /\ enCours \in 0 .. MaxGeneration
  /\ generation \in 0 .. MaxGeneration
  /\ phase \in [Generations -> Phases]
  /\ avorte \subseteq Generations
  /\ annules \subseteq Generations

\* Only the last search or the last gesture writes: what is shown never comes
\* from a search that another one, or a reset, has replaced
\* (resultats.svelte.ts:43-46).
DernierSeulEcrit == etat.de = generation

\* "calcul" is never shown for nothing: the search it speaks of is still in
\* flight, and it is the one annuler would abort.
AttenteVivante ==
  etat.statut = "calcul" => EnVol(etat.de) /\ enCours = etat.de

\* A search that has been replaced has been told to stop: no answer that
\* nobody awaits is left running (resultats.svelte.ts:61, 89, 99).
UnSeulEnVol == \A g \in Generations : EnVol(g) /\ g \notin avorte => g = generation

\* Whoever waits, waits for a search that can still be cancelled, and the server
\* computes for nobody else.
RienEnVain == AttenteVivante /\ UnSeulEnVol

\* A cancelled search does not answer with loops, however late they come
\* (resultats.svelte.ts:83).
AnnuleSansBoucles == etat.statut = "ok" => etat.de \notin annules

\* The wait ends: a search that is launched leaves "calcul".
AttenteBornee == \A g \in Generations :
  (etat = Etat("calcul", g)) ~> (etat # Etat("calcul", g))

\* What the comments say of annuler: cancelling leads back to "vide", never to
\* an error (resultats.svelte.ts:43-44, hent-api.ts:95-100).
AnnulationSansErreur == etat.statut = "erreur" => etat.de \notin annules

----------------------------------------------------------------------------
\* The inductive invariant of the proofs: the numbers in use, the controller
\* that is current, and the state of the search it controls.
IInv ==
  /\ TypeOK /\ DernierSeulEcrit /\ AttenteVivante /\ AnnuleSansBoucles
  /\ annules \subseteq avorte
  /\ enCours # 0 => EnVol(enCours)
  /\ \A g \in Generations :
       /\ g > generation => phase[g] = "absent" /\ g \notin avorte
       /\ EnVol(g) /\ g \notin avorte => g = generation /\ enCours = g
       /\ EnVol(g) /\ g = generation => etat.statut = "calcul"
=============================================================================
