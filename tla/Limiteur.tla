------------------------------ MODULE Limiteur ------------------------------
(***************************************************************************)
(* internal/adapter/httpapi/ratelimit.go: one token bucket per client      *)
(* address in a bounded table, swept every idleTTL.                        *)
(*                                                                         *)
(* Time is discrete. A bucket is counted in instants: it gains one per     *)
(* instant, a request costs Unite of them. allow and a pass of cleanup are *)
(* one step each: both run with the mutex held.                            *)
(***************************************************************************)
EXTENDS Integers, Sequences, FiniteSets

CONSTANTS
  Hotes,              \* the addresses
  ProxysSurs,         \* trustedProxies
  Entetes,            \* the X-Forwarded-For headers: sequences of addresses
  Unite,              \* instants to earn one token: 1 / perIPRate
  Rafale,             \* perIPBurst
  IdleTTL,            \* idleTTL
  MaxTrackedClients,  \* maxTrackedClients
  Horizon             \* bound on the clock

ASSUME HotesAssumption ==
  /\ IsFiniteSet(Hotes)
  /\ ProxysSurs \subseteq Hotes
  /\ Entetes \subseteq Seq(Hotes)
ASSUME DureesAssumption ==
  /\ Unite \in Nat \ {0}
  /\ Rafale \in Nat \ {0}
  /\ IdleTTL \in Nat \ {0}
  /\ MaxTrackedClients \in Nat
  /\ Horizon \in Nat
\* 5 requests at 1/s against ten minutes: an idle bucket has long been full.
ASSUME TTLAssumption == IdleTTL >= Rafale * Unite

VARIABLES
  now,
  tick,               \* a tick of time.Tick(idleTTL) awaits cleanup
  clients,            \* limiter.clients: the client of each tracked address
  verdict             \* the last decision of allow

vars == <<now, tick, clients, verdict>>

Plein == Rafale * Unite
Requetes == [sonde : BOOLEAN, remote : Hotes, fwd : Entetes]
Suivis == DOMAIN clients

\* Mutant: the header is believed whoever sends it.
clientIPCredule(r) == IF r.fwd # <<>> THEN r.fwd[Len(r.fwd)] ELSE r.remote
\* The header counts only behind a trusted proxy, and only its last entry.
clientIP(r) ==
  IF r.remote \in ProxysSurs /\ r.fwd # <<>>
  THEN r.fwd[Len(r.fwd)] ELSE r.remote

\* rate.Limiter: the tokens of c at this instant.
Jetons(c) == LET t == c.tokens + (now - c.last)
             IN IF t < Plein THEN t ELSE Plein
Neuf == [tokens |-> Plein, last |-> now, seen |-> now]

----------------------------------------------------------------------------
Init ==
  /\ now = 0
  /\ tick = FALSE
  /\ clients = [h \in {} |-> Neuf]
  /\ verdict \in [hote : Hotes, admis : BOOLEAN]

\* The clock. The goroutine of cleanup wakes within the instant of its tick.
Passer ==
  /\ now < Horizon
  /\ ~tick
  /\ now' = now + 1
  /\ tick' = (now' % IdleTTL = 0)
  /\ UNCHANGED <<clients, verdict>>

\* /healthz and /metrics go through untouched.
Sonder(r) ==
  /\ r.sonde
  /\ UNCHANGED vars

SansPlace(ip) ==
  /\ ip \notin Suivis
  /\ Cardinality(Suivis) >= MaxTrackedClients

\* allow, when the address is new and the table full.
Deborder(r) ==
  LET ip == clientIP(r) IN
  /\ ~r.sonde
  /\ SansPlace(ip)
  /\ verdict' = [hote |-> ip, admis |-> FALSE]
  /\ UNCHANGED <<now, tick, clients>>

\* Mutant: Reserve for Allow, a refused request is charged all the same.
DeciderReserve(r) ==
  LET ip == clientIP(r)
      c == IF ip \in Suivis THEN clients[ip] ELSE Neuf
      suite == [tokens |-> Jetons(c) - Unite, last |-> now, seen |-> now]
  IN
  /\ ~r.sonde
  /\ ~SansPlace(ip)
  /\ clients' = [h \in Suivis \cup {ip} |-> IF h = ip THEN suite ELSE clients[h]]
  /\ verdict' = [hote |-> ip, admis |-> Jetons(c) >= Unite]
  /\ UNCHANGED <<now, tick>>
\* allow, otherwise: the client is found or created, then asks for a token.
Decider(r) ==
  LET ip == clientIP(r)
      c == IF ip \in Suivis THEN clients[ip] ELSE Neuf
      admis == Jetons(c) >= Unite
      suite == IF admis
               THEN [tokens |-> Jetons(c) - Unite, last |-> now, seen |-> now]
               ELSE [c EXCEPT !.seen = now]
  IN
  /\ ~r.sonde
  /\ ~SansPlace(ip)
  /\ clients' = [h \in Suivis \cup {ip} |-> IF h = ip THEN suite ELSE clients[h]]
  /\ verdict' = [hote |-> ip, admis |-> admis]
  /\ UNCHANGED <<now, tick>>

Requete(r) == Sonder(r) \/ Deborder(r) \/ Decider(r)

\* Mutants: the operands are swapped; an address is forgotten too soon.
OisifJamais(h) == clients[h].seen - now > IdleTTL
OisifTropTot(h) == now - clients[h].seen >= Unite
\* One pass of cleanup.
Oisif(h) == now - clients[h].seen > IdleTTL
Nettoyer ==
  /\ tick
  /\ tick' = FALSE
  /\ clients' = [h \in {s \in Suivis : ~Oisif(s)} |-> clients[h]]
  /\ UNCHANGED <<now, verdict>>

Next == Passer \/ Nettoyer \/ \E r \in Requetes : Requete(r)
Spec == Init /\ [][Next]_vars

----------------------------------------------------------------------------
Client == [tokens : 0 .. Plein, last : Nat, seen : Nat]
TypeOK ==
  /\ now \in Nat
  /\ tick \in BOOLEAN
  /\ Suivis \subseteq Hotes
  /\ clients \in [Suivis -> Client]
  /\ verdict \in [hote : Hotes, admis : BOOLEAN]

\* The table never outgrows its cap, whatever addresses call (ratelimit.go:72).
TableBornee == Cardinality(Suivis) <= MaxTrackedClients

\* Nothing stays in the table longer than two periods of the sweep: an address
\* that just missed a pass is removed by the next (ratelimit.go:82-92).
EntreesRecentes == \A h \in Suivis : now - clients[h].seen <= 2 * IdleTTL

\* A full table always has room again: it is capped, and swept.
TableTenue == TableBornee /\ EntreesRecentes

\* Retry-After: 1 (ratelimit.go:47) is kept to: a tracked client that lets one
\* Unite go by since its last request, refused or not, has a token. An address
\* refused because the table is full reads the same header, and nothing keeps it.
RetryAfterTenu ==
  \A h \in Suivis : now - clients[h].seen >= Unite => Jetons(clients[h]) >= Unite

\* The clocks of an entry are in order.
HorlogesOrdonnees ==
  \A h \in Suivis : clients[h].last <= clients[h].seen /\ clients[h].seen <= now

\* Eviction forgets nothing: seen from outside, every address has its bucket,
\* the tracked ones in the table, the others full.
Niveau(h) == IF h \in Suivis THEN Jetons(clients[h]) ELSE Plein
niveauAbstrait == [h \in Hotes |-> Niveau(h)]
Abstrait == INSTANCE LimiteurAbstrait WITH niveau <- niveauAbstrait
ImplementeAbstrait == Abstrait!SpecA
=============================================================================
