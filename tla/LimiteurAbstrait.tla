-------------------------- MODULE LimiteurAbstrait --------------------------
(***************************************************************************)
(* What the rate limiter of internal/adapter/httpapi/ratelimit.go promises *)
(* each address: a token bucket of its own, kept for ever. No table, no    *)
(* eviction, no clock of last sight.                                       *)
(***************************************************************************)
EXTENDS Integers

CONSTANTS
  Hotes,            \* the addresses
  Unite,            \* instants to earn one token: 1 / perIPRate
  Rafale,           \* perIPBurst
  Horizon           \* bound on the clock

VARIABLES
  now,
  niveau,           \* niveau[h]: the content of the bucket, in instants
  verdict           \* the last decision taken

varsA == <<now, niveau, verdict>>
PleinA == Rafale * Unite

InitA ==
  /\ now = 0
  /\ niveau = [h \in Hotes |-> PleinA]
  /\ verdict \in [hote : Hotes, admis : BOOLEAN]

PasserA ==
  /\ now < Horizon
  /\ now' = now + 1
  /\ niveau' = [h \in Hotes |-> IF niveau[h] < PleinA THEN niveau[h] + 1
                                ELSE PleinA]
  /\ UNCHANGED verdict

AdmettreA(h) ==
  /\ niveau[h] >= Unite
  /\ niveau' = [niveau EXCEPT ![h] = @ - Unite]
  /\ verdict' = [hote |-> h, admis |-> TRUE]
  /\ UNCHANGED now

\* A request is turned away for want of a token, or because the address is
\* not tracked and there is no room left: its bucket is then full.
RefuserA(h) ==
  /\ niveau[h] < Unite \/ niveau[h] = PleinA
  /\ verdict' = [hote |-> h, admis |-> FALSE]
  /\ UNCHANGED <<now, niveau>>

NextA == PasserA \/ \E h \in Hotes : AdmettreA(h) \/ RefuserA(h)
SpecA == InitA /\ [][NextA]_varsA
=============================================================================
