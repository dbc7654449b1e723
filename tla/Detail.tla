------------------------------- MODULE Detail --------------------------------
(***************************************************************************)
(* The page of one loop (web/src/routes/b/[id]/+page.svelte). Its effect   *)
(* runs again whenever the id of the address or tentative changes: it      *)
(* finds the loop among the results already there, or asks the engine for  *)
(* it. The teardown of the previous run comes first, and silences its call.*)
(*                                                                         *)
(* A loop, its request and its error are abstracted to the id they are of. *)
(* connus is what this page reads and writes of the store of module        *)
(* Resultats: the loops of statut 'ok', the empty set otherwise.           *)
(***************************************************************************)
CONSTANTS Ids, Aucun

ASSUME IdsAssumption == Aucun \notin Ids

VARIABLES
  id,           \* the id of the address; Aucun when another page is mounted
  boucle, erreur, chargement,
  appel,        \* the call of the last run: "aucun", "vol", "ecrit" (then or
                \* catch has run, finally has not)
  silencieux,      \* the ids of the calls in flight that a teardown silenced
  connus

varsDetail == <<id, boucle, erreur, chargement, appel, silencieux, connus>>

InitDetail ==
  /\ id = Aucun /\ boucle = Aucun /\ erreur = Aucun
  /\ chargement = FALSE
  /\ appel = "aucun" /\ silencieux = {}
  /\ connus \in SUBSET Ids

----------------------------------------------------------------------------
Demonter == silencieux' = silencieux \cup (IF appel = "vol" THEN {id} ELSE {})

Reconnaitre(i) ==
  /\ i \in connus
  /\ boucle' = i /\ erreur' = Aucun
  /\ chargement' = FALSE
  /\ appel' = "aucun"
Ouvrir(i) ==
  /\ i \notin connus
  /\ chargement' = TRUE /\ erreur' = Aucun
  /\ appel' = "vol"
  /\ UNCHANGED boucle
Effet(i) == Demonter /\ (Reconnaitre(i) \/ Ouvrir(i))

\* The same component serves two addresses of the same route.
Naviguer(i) ==
  /\ id # Aucun /\ i # id
  /\ id' = i
  /\ Effet(i)
  /\ UNCHANGED connus
\* The button is there with the error.
reessayer ==
  /\ erreur # Aucun /\ ~chargement
  /\ Effet(id)
  /\ UNCHANGED <<id, connus>>
\* The page is mounted anew, its state with it; the page is left.
Arriver(i) ==
  /\ id = Aucun
  /\ id' = i
  /\ Effet(i)
  /\ UNCHANGED connus
Partir ==
  /\ id # Aucun
  /\ Demonter
  /\ id' = Aucun /\ boucle' = Aucun /\ erreur' = Aucun
  /\ chargement' = FALSE /\ appel' = "aucun"
  /\ UNCHANGED connus

\* then, which shows the loop and poses it in the store; catch; finally.
Montrer ==
  /\ appel = "vol"
  /\ boucle' = id /\ connus' = {id}
  /\ appel' = "ecrit"
  /\ UNCHANGED <<id, erreur, chargement, silencieux>>
Echouer ==
  /\ appel = "vol"
  /\ erreur' = id
  /\ appel' = "ecrit"
  /\ UNCHANGED <<id, boucle, chargement, silencieux, connus>>
Finir ==
  /\ appel = "ecrit"
  /\ chargement' = FALSE
  /\ appel' = "aucun"
  /\ UNCHANGED <<id, boucle, erreur, silencieux, connus>>
\* Mutant: annulee is not looked at.
MontrerAnnule(i) ==
  /\ i \in silencieux
  /\ silencieux' = silencieux \ {i}
  /\ boucle' = i /\ connus' = {i}
  /\ UNCHANGED <<id, erreur, chargement, appel>>
\* The call of an earlier run settles, late or aborted.
Ignorer(i) ==
  /\ i \in silencieux
  /\ silencieux' = silencieux \ {i}
  /\ UNCHANGED <<id, boucle, erreur, chargement, appel, connus>>
\* A search launched from another page ends; the effect does not depend on
\* what it reads under untrack.
Rechercher ==
  /\ connus' \in SUBSET Ids
  /\ UNCHANGED <<id, boucle, erreur, chargement, appel, silencieux>>

GesteDetail == Partir \/ reessayer \/ Rechercher \/ \E i \in Ids : Naviguer(i) \/ Arriver(i)
NextDetail == GesteDetail \/ Montrer \/ Echouer \/ Finir \/ \E i \in Ids : Ignorer(i)
SpecDetail == InitDetail /\ [][NextDetail]_varsDetail
----------------------------------------------------------------------------
TypeDetail ==
  /\ id \in Ids \cup {Aucun} /\ boucle \in Ids \cup {Aucun}
  /\ erreur \in Ids \cup {Aucun} /\ chargement \in BOOLEAN
  /\ appel \in {"aucun", "vol", "ecrit"}
  /\ silencieux \subseteq Ids /\ connus \subseteq Ids

\* What is on the screen is of the id of the address: never the loop or the
\* error of another one, and never an empty screen (+page.svelte:56-58, 110).
EcranDeLId ==
  id # Aucun /\ ~chargement =>
    IF erreur # Aucun THEN erreur = id ELSE boucle = id

\* The wait has a call to end it, whatever run is interrupted and by what
\* (+page.svelte:26-32).
AttenteDuDetail == chargement <=> appel # "aucun"

\* An error is not shown with the wait of the call that follows it.
ErreurSansAttente == chargement /\ erreur # Aucun => appel = "ecrit"

\* The wait for a loop ends, unless the page is left for another address.
DetailArrive ==
  \A i \in Ids : (id = i /\ chargement) ~> (id # i \/ ~chargement)

----------------------------------------------------------------------------
\* The inductive invariant of the proofs.
IInvDetail ==
  /\ TypeDetail /\ EcranDeLId /\ AttenteDuDetail /\ ErreurSansAttente
  /\ id = Aucun => boucle = Aucun /\ erreur = Aucun /\ ~chargement
  /\ appel = "ecrit" => erreur = id \/ (erreur = Aucun /\ boucle = id)
=============================================================================
