------------------------------- MODULE Ecrans --------------------------------
(***************************************************************************)
(* The page of a loop (Detail) over the store of results (Resultats) it    *)
(* reads and writes. A search launched on another page goes on, and ends,  *)
(* while the page is open: its answer and the one the page waits for meet  *)
(* in the store.                                                           *)
(*                                                                         *)
(* The page that launches (web/src/routes/reglage/+page.svelte) goes to    *)
(* the list when its search ends well, wherever the person is by then: a   *)
(* Partir, which may come at any time.                                     *)
(***************************************************************************)
EXTENDS Resultats, Detail

varsEcrans == <<vars, varsDetail>>
\* What the page keeps to itself.
varsPage == <<id, boucle, erreur, chargement, appel, silencieux>>

InitEcrans == Init /\ InitDetail /\ connus = {}

\* The loops of the store are those of its state.
Suivre ==
  \/ etat' = etat /\ connus' = connus
  \/ etat' # etat /\ etat'.statut # "ok" /\ connus' = {}
  \/ etat' # etat /\ etat'.statut = "ok" /\ connus' \in SUBSET Ids

\* The pages that search, cancel or start anew are others.
Chercher == (lancer \/ annuler \/ reinitialiser) /\ id = Aucun /\ Suivre /\ UNCHANGED varsPage
Recevoir(g) == Reponse(g) /\ Suivre /\ UNCHANGED varsPage
Parcourir == (Partir \/ reessayer \/ \E i \in Ids : Naviguer(i) \/ Arriver(i)) /\ UNCHANGED vars
\* The answer the page waits for: it is posed, and what is in flight dropped.
Ouvert == Montrer /\ poser
Suite == Echouer \/ Finir \/ \E i \in Ids : Ignorer(i)

NextEcrans ==
  \/ Chercher \/ Parcourir \/ Ouvert
  \/ Suite /\ UNCHANGED vars
  \/ \E g \in Generations : Recevoir(g)
SpecEcrans == InitEcrans /\ [][NextEcrans]_varsEcrans
\* Calls settle, and what follows runs.
FairEcrans ==
  /\ SpecEcrans
  /\ \A g \in Generations : WF_varsEcrans(Recevoir(g))
  /\ WF_varsEcrans(Ouvert \/ (Echouer /\ UNCHANGED vars))
  /\ WF_varsEcrans(Finir /\ UNCHANGED vars)

----------------------------------------------------------------------------
\* The loop on the screen is in the list the page leads back to, whatever
\* search was in flight when it was opened (resultats.svelte.ts:87-92,
\* +page.svelte:70, 108).
BoucleRetrouvee ==
  id # Aucun /\ ~chargement /\ erreur = Aucun =>
    etat.statut = "ok" /\ id \in connus

\* Neither wait is without end: that of a search, that of the page of a loop.
AttentesBornees == AttenteBornee /\ DetailArrive

----------------------------------------------------------------------------
\* The inductive invariant of the proofs.
IInvEcrans ==
  /\ IInv /\ IInvDetail /\ BoucleRetrouvee
  /\ connus # {} => etat.statut = "ok"
  /\ appel = "ecrit" /\ erreur = Aucun => etat.statut = "ok" /\ id \in connus
=============================================================================
