-------------------------- MODULE LimiteurFenetre ---------------------------
(***************************************************************************)
(* Limiteur watched over a window of time that opens at an arbitrary       *)
(* instant: what rate does a client get, evictions and all?                *)
(***************************************************************************)
EXTENDS Limiteur

VARIABLES
  repere,             \* history: when the window opened, or -1
  compte              \* history: requests admitted since, per remote address

varsF == <<vars, repere, compte>>

InitF ==
  /\ Init
  /\ repere = -1
  /\ compte = [h \in Hotes |-> 0]

Ouvrir ==
  /\ repere = -1
  /\ repere' = now
  /\ UNCHANGED <<vars, compte>>

\* The requests that a directly connected client gets through.
Compter(r) ==
  /\ repere' = repere
  /\ compte' = IF repere # -1 /\ verdict'.admis /\ ~r.sonde
                  /\ r.remote \notin ProxysSurs
               THEN [compte EXCEPT ![r.remote] = @ + 1] ELSE compte

NextF ==
  \/ Ouvrir
  \/ (Passer \/ Nettoyer) /\ UNCHANGED <<repere, compte>>
  \/ \E r \in Requetes : Requete(r) /\ Compter(r)
SpecF == InitF /\ [][NextF]_varsF

\* Over any window, a directly connected client gets no more than its burst
\* and one request per Unite, whatever headers it sends and even if it is
\* evicted in between (perIPRate, perIPBurst, ratelimit.go:14-15).
DebitBorne ==
  \A h \in Hotes : repere # -1 =>
    compte[h] * Unite <= Plein + (now - repere)
=============================================================================
