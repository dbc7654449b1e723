--------------------------- MODULE LimiteurPreuve ---------------------------
(***************************************************************************)
(* Theorems about Limiteur and LimiteurFenetre, for any set of addresses,  *)
(* any rate, burst and table size, and any idleTTL no shorter than a       *)
(* refill.                                                                 *)
(***************************************************************************)
EXTENDS LimiteurFenetre, TLAPS, FiniteSetTheorems

\* The inductive invariant: the clocks are in order and the table is capped.
IInv == TypeOK /\ HorlogesOrdonnees /\ TableBornee

LEMMA PleinType == Plein \in Nat /\ Plein >= Unite /\ Unite \in Nat
<1>1. \A a, b \in Nat \ {0} : a * b \in Nat /\ a * b >= b
  OBVIOUS
<1> QED BY <1>1, DureesAssumption DEF Plein

LEMMA JetonsType ==
  ASSUME NEW c \in Client, now \in Nat, c.last <= now
  PROVE  Jetons(c) \in 0 .. Plein
BY PleinType DEF Jetons, Client

LEMMA clientIPType == ASSUME NEW r \in Requetes PROVE clientIP(r) \in Hotes
BY HotesAssumption DEF clientIP, Requetes

\* What allow leaves in the table.
LEMMA DeciderFaits ==
  ASSUME IInv, NEW r \in Requetes, Decider(r)
  PROVE  LET ip == clientIP(r) IN
         /\ ip \in Hotes
         /\ Suivis' = Suivis \cup {ip}
         /\ clients' \in [Suivis' -> Client]
         /\ \A h \in Suivis \ {ip} : clients'[h] = clients[h]
         /\ clients'[ip].last <= now /\ clients'[ip].seen = now
         /\ verdict' = [hote |-> ip, admis |-> Niveau(ip) >= Unite]
         /\ Niveau(ip) \in 0 .. Plein
         /\ clients'[ip].tokens \in 0 .. Plein
         /\ Jetons(clients'[ip]) = IF Niveau(ip) >= Unite THEN Niveau(ip) - Unite
                                   ELSE Niveau(ip)
<1> DEFINE ip == clientIP(r)
           c == IF ip \in Suivis THEN clients[ip] ELSE Neuf
           admis == Jetons(c) >= Unite
           suite == IF admis
               THEN [tokens |-> Jetons(c) - Unite, last |-> now, seen |-> now]
               ELSE [c EXCEPT !.seen = now]
<1>1. ip \in Hotes
  BY clientIPType
<1>2. c \in Client /\ c.last <= now /\ now \in Nat
  BY PleinType DEF IInv, TypeOK, HorlogesOrdonnees, Neuf, Client
<1>3. Jetons(c) \in 0 .. Plein
  BY <1>2, JetonsType
<1>4. Jetons(c) = Niveau(ip)
  <2>1. ip \notin Suivis => Jetons(Neuf) = Plein
    BY <1>2, PleinType DEF Neuf, Jetons
  <2> QED BY <2>1 DEF Niveau
<1>5. /\ suite \in Client /\ suite.last <= now /\ suite.seen = now
      /\ suite.tokens \in 0 .. Plein
  BY <1>2, <1>3, PleinType DEF Client
<1>6. Jetons(suite) = IF admis THEN Jetons(c) - Unite ELSE Jetons(c)
  <2>1. CASE admis
    BY <2>1, <1>2, <1>3, PleinType DEF Jetons
  <2>2. CASE ~admis
    <3>1. suite.tokens = c.tokens /\ suite.last = c.last
      BY <2>2, <1>2 DEF Client
    <3> QED BY <2>2, <3>1 DEF Jetons
  <2> QED BY <2>1, <2>2
<1>7. clients' = [h \in Suivis \cup {ip} |-> IF h = ip THEN suite ELSE clients[h]]
      /\ verdict' = [hote |-> ip, admis |-> admis] /\ now' = now
  BY DEF Decider
<1> HIDE DEF suite, admis, c
<1>8. /\ Suivis' = Suivis \cup {ip}
      /\ clients'[ip] = suite
      /\ \A h \in Suivis \ {ip} : clients'[h] = clients[h]
      /\ clients' \in [Suivis' -> Client]
  BY <1>5, <1>7 DEF Suivis, IInv, TypeOK
<1> QED BY <1>1, <1>3, <1>4, <1>5, <1>6, <1>7, <1>8 DEF admis

LEMMA InitIInv == Init => IInv
<1> SUFFICES ASSUME Init
             PROVE  IInv
  OBVIOUS
<1>1. Suivis = {}
  BY DEF Init, Suivis
<1>2. TypeOK
  BY <1>1 DEF Init, TypeOK, Suivis
<1>3. HorlogesOrdonnees
  BY <1>1 DEF HorlogesOrdonnees
<1>4. TableBornee
  BY <1>1, FS_EmptySet, DureesAssumption DEF TableBornee
<1> QED BY <1>2, <1>3, <1>4 DEF IInv

LEMMA NextIInv == IInv /\ [Next]_vars => IInv'
<1> SUFFICES ASSUME IInv, [Next]_vars
             PROVE  IInv'
  OBVIOUS
<1>0. TypeOK /\ HorlogesOrdonnees /\ TableBornee
  BY DEF IInv
<1>a. IsFiniteSet(Suivis) /\ Cardinality(Suivis) \in Nat
  BY <1>0, HotesAssumption, FS_Subset, FS_CardinalityType DEF TypeOK
<1>1. CASE UNCHANGED vars
  BY <1>0, <1>1 DEF vars, IInv, TypeOK, HorlogesOrdonnees, TableBornee, Suivis
<1>2. CASE Passer
  <2>1. TypeOK'
    BY <1>0, <1>2 DEF Passer, TypeOK, Suivis
  <2>2. HorlogesOrdonnees'
    BY <1>0, <1>2 DEF Passer, TypeOK, HorlogesOrdonnees, Suivis, Client
  <2>3. TableBornee'
    BY <1>0, <1>2 DEF Passer, TableBornee, Suivis
  <2> QED BY <2>1, <2>2, <2>3 DEF IInv
<1>3. CASE Nettoyer
  <2>1. /\ Suivis' \subseteq Suivis
        /\ \A h \in Suivis' : clients'[h] = clients[h]
        /\ clients' \in [Suivis' -> Client]
        /\ now' = now /\ verdict' = verdict /\ tick' = FALSE
    BY <1>0, <1>3 DEF Nettoyer, Suivis, TypeOK
  <2>2. Cardinality(Suivis') <= Cardinality(Suivis) /\ Cardinality(Suivis') \in Nat
    BY <2>1, <1>a, FS_Subset, FS_CardinalityType
  <2>3. TypeOK' /\ HorlogesOrdonnees'
    BY <1>0, <2>1 DEF TypeOK, HorlogesOrdonnees
  <2>4. TableBornee'
    BY <1>0, <1>a, <2>2, DureesAssumption DEF TableBornee
  <2> QED BY <2>3, <2>4 DEF IInv
<1>4. ASSUME NEW r \in Requetes, Sonder(r)
      PROVE  IInv'
  BY <1>0, <1>4 DEF Sonder, vars, IInv, TypeOK, HorlogesOrdonnees, TableBornee, Suivis
<1>5. ASSUME NEW r \in Requetes, Deborder(r)
      PROVE  IInv'
  <2>1. /\ now' = now /\ tick' = tick /\ clients' = clients
        /\ verdict' = [hote |-> clientIP(r), admis |-> FALSE]
    BY <1>5 DEF Deborder
  <2> QED BY <1>0, <2>1, clientIPType
          DEF IInv, TypeOK, HorlogesOrdonnees, TableBornee, Suivis
<1>6. ASSUME NEW r \in Requetes, Decider(r)
      PROVE  IInv'
  <2> DEFINE ip == clientIP(r)
  <2>1. /\ ip \in Hotes
        /\ Suivis' = Suivis \cup {ip}
        /\ clients' \in [Suivis' -> Client]
        /\ \A h \in Suivis \ {ip} : clients'[h] = clients[h]
        /\ clients'[ip].last <= now /\ clients'[ip].seen = now
        /\ verdict' = [hote |-> ip, admis |-> Niveau(ip) >= Unite]
    BY <1>6, DeciderFaits
  <2>2. now' = now /\ tick' = tick /\ ~SansPlace(ip)
    BY <1>6 DEF Decider
  <2>3. TypeOK'
    BY <1>0, <2>1, <2>2 DEF TypeOK
  <2>4. HorlogesOrdonnees'
    <3> SUFFICES ASSUME NEW h \in Suivis'
                 PROVE  clients'[h].last <= clients'[h].seen /\ clients'[h].seen <= now
      BY <2>2 DEF HorlogesOrdonnees
    <3>1. CASE h = ip
      BY <3>1, <2>1, <1>0 DEF TypeOK
    <3>2. CASE h # ip
      BY <3>2, <2>1, <1>0 DEF HorlogesOrdonnees
    <3> QED BY <3>1, <3>2
  <2>5. Cardinality(Suivis') <= MaxTrackedClients
    <3>1. Cardinality(Suivis') = IF ip \in Suivis THEN Cardinality(Suivis)
                                 ELSE Cardinality(Suivis) + 1
      BY <2>1, <1>a, FS_AddElement
    <3> QED BY <3>1, <2>2, <1>0, <1>a, DureesAssumption DEF SansPlace, TableBornee
  <2> QED BY <2>3, <2>4, <2>5 DEF IInv, TableBornee
<1> QED BY <1>1, <1>2, <1>3, <1>4, <1>5, <1>6 DEF Next, Requete

\* Types, clocks in order and the cap of the table, for ever.
THEOREM Invariant == Spec => []IInv
BY InitIInv, NextIInv, PTL DEF Spec

THEOREM TypeCorrect == Spec => []TypeOK
<1>1. IInv => TypeOK
  BY DEF IInv
<1> QED BY <1>1, Invariant, PTL

\* The sweeps come at the multiples of IdleTTL, and one that is done has left
\* only what was seen since the one before it.
DernierPassage == now - (now % IdleTTL)
InvPassage ==
  /\ tick => now % IdleTTL = 0
  /\ \A h \in Suivis :
       clients[h].seen >= DernierPassage - (IF tick THEN 2 * IdleTTL ELSE IdleTTL)

LEMMA DivMod ==
  ASSUME NEW c \in Int, c > 0, NEW x \in Int
  PROVE  x \div c \in Int /\ x % c \in 0 .. c - 1 /\ x % c = x - c * (x \div c)
OBVIOUS

LEMMA ResteSuivant ==
  ASSUME NEW x \in Nat
  PROVE  /\ x % IdleTTL \in 0 .. IdleTTL - 1
         /\ (x + 1) % IdleTTL = IF x % IdleTTL = IdleTTL - 1 THEN 0 ELSE (x % IdleTTL) + 1
<1> DEFINE c == IdleTTL
           q == x \div c
           r == x % c
           q2 == (x + 1) \div c
           r2 == (x + 1) % c
<1>0. c \in Int /\ c > 0
  BY DureesAssumption
<1> HIDE DEF c
<1>1. /\ q \in Int /\ r \in 0 .. c - 1 /\ r = x - c * q
      /\ q2 \in Int /\ r2 \in 0 .. c - 1 /\ r2 = x + 1 - c * q2
  BY <1>0, DivMod
<1> HIDE DEF q, r, q2, r2
<1>2. c * q \in Int /\ c * q2 \in Int /\ c * (q2 - q) = c * q2 - c * q
  BY <1>0, <1>1
<1>3. c * (q2 - q) = r + 1 - r2
  BY <1>0, <1>1, <1>2
<1>4. q2 - q >= 2 => c * (q2 - q) >= 2 * c
  BY <1>0, <1>1
<1>5. q2 - q <= -1 => c * (q2 - q) <= -c
  BY <1>0, <1>1
<1>6. q2 - q \in {0, 1}
  BY <1>0, <1>1, <1>3, <1>4, <1>5
<1>7. CASE q2 - q = 0
  <2>1. c * (q2 - q) = 0
    BY <1>0, <1>7
  <2> QED BY <1>0, <1>1, <1>3, <2>1 DEF c, r, r2
<1>8. CASE q2 - q = 1
  <2>1. c * (q2 - q) = c
    BY <1>0, <1>8
  <2> QED BY <1>0, <1>1, <1>3, <2>1 DEF c, r, r2
<1> QED BY <1>6, <1>7, <1>8

LEMMA PassageStep == IInv /\ InvPassage /\ [Next]_vars => InvPassage'
<1> SUFFICES ASSUME IInv, InvPassage, [Next]_vars
             PROVE  InvPassage'
  OBVIOUS
<1>0. /\ TypeOK /\ now \in Nat /\ IdleTTL \in Nat \ {0}
      /\ \A h \in Suivis : clients[h].seen \in Nat
  BY DureesAssumption DEF IInv, TypeOK, Client
<1>a. now % IdleTTL \in 0 .. IdleTTL - 1
  BY <1>0, ResteSuivant
<1>1. CASE UNCHANGED vars
  BY <1>1 DEF vars, InvPassage, DernierPassage, Suivis
<1>2. CASE Passer
  <2> DEFINE r == now % IdleTTL
             s == (now + 1) % IdleTTL
  <2>1. ~tick /\ now' = now + 1 /\ clients' = clients
    BY <1>2 DEF Passer
  <2>2. now' % IdleTTL = s /\ (tick' <=> s = 0)
    BY <1>2 DEF Passer
  <2>3. r \in 0 .. IdleTTL - 1 /\ s = IF r = IdleTTL - 1 THEN 0 ELSE r + 1
    BY <1>0, ResteSuivant
  <2>4. \A h \in Suivis : clients[h].seen >= now - r - IdleTTL
    BY <2>1 DEF InvPassage, DernierPassage
  <2> HIDE DEF r, s
  <2>5. now' - (now' % IdleTTL) = now + 1 - s
    BY <1>0, <2>1, <2>2, <2>3
  <2>6. now + 1 - s - (IF s = 0 THEN 2 * IdleTTL ELSE IdleTTL) = now - r - IdleTTL
    BY <1>0, <2>3
  <2>7. ASSUME NEW h \in Suivis
        PROVE  clients[h].seen >= now + 1 - s - (IF tick' THEN 2 * IdleTTL ELSE IdleTTL)
    BY <2>2, <2>4, <2>6
  <2>8. Suivis' = Suivis /\ DernierPassage' = now + 1 - s
    BY <2>1, <2>5 DEF Suivis, DernierPassage
  <2>9. tick' => (now % IdleTTL)' = 0
    BY <2>2
  <2>10. \A h \in Suivis' :
           clients'[h].seen >= DernierPassage' - (IF tick' THEN 2 * IdleTTL ELSE IdleTTL)
    <3> SUFFICES ASSUME NEW h \in Suivis'
                 PROVE  clients'[h].seen >=
                          DernierPassage' - (IF tick' THEN 2 * IdleTTL ELSE IdleTTL)
      OBVIOUS
    <3>1. h \in Suivis /\ clients'[h].seen = clients[h].seen
      BY <2>1, <2>8
    <3>2. clients[h].seen >= now + 1 - s - (IF tick' THEN 2 * IdleTTL ELSE IdleTTL)
      BY <2>7, <3>1
    <3>3. CASE tick'
      BY <1>0, <2>3, <2>8, <3>1, <3>2, <3>3
    <3>4. CASE ~tick'
      BY <1>0, <2>3, <2>8, <3>1, <3>2, <3>4
    <3> QED BY <3>3, <3>4
  <2> QED BY <2>9, <2>10 DEF InvPassage
<1>3. CASE Nettoyer
  <2>1. tick /\ ~tick' /\ now' = now /\ DernierPassage' = now
    BY <1>0, <1>3 DEF Nettoyer, InvPassage, DernierPassage
  <2>2. ASSUME NEW h \in Suivis'
        PROVE  clients'[h].seen >= now - IdleTTL
    <3>1. h \in Suivis /\ ~Oisif(h) /\ clients'[h] = clients[h]
      BY <1>3 DEF Nettoyer, Suivis
    <3> QED BY <1>0, <3>1 DEF Oisif
  <2> QED BY <2>1, <2>2 DEF InvPassage
<1>4. ASSUME NEW r \in Requetes, Sonder(r) \/ Deborder(r)
      PROVE  InvPassage'
  BY <1>4 DEF Sonder, Deborder, vars, InvPassage, DernierPassage, Suivis
<1>5. ASSUME NEW r \in Requetes, Decider(r)
      PROVE  InvPassage'
  <2>1. /\ Suivis' = Suivis \cup {clientIP(r)}
        /\ \A h \in Suivis \ {clientIP(r)} : clients'[h] = clients[h]
        /\ clients'[clientIP(r)].seen = now
    BY <1>5, DeciderFaits
  <2>2. now' = now /\ tick' = tick /\ DernierPassage' = DernierPassage
    BY <1>5 DEF Decider, DernierPassage
  <2>3. DernierPassage \in Int /\ DernierPassage <= now
    BY <1>0, <1>a DEF DernierPassage
  <2> QED BY <1>0, <2>1, <2>2, <2>3 DEF InvPassage
<1> QED BY <1>1, <1>2, <1>3, <1>4, <1>5 DEF Next, Requete

\* The table never holds more than maxTrackedClients entries, and none that
\* was idle for two periods of the sweep (ratelimit.go:72-92).
THEOREM TableCorrecte == Spec => []TableTenue
<1>1. Init => InvPassage
  BY DureesAssumption DEF Init, InvPassage, Suivis
<1>2. IInv /\ InvPassage /\ [Next]_vars => InvPassage'
  BY PassageStep
<1>3. IInv /\ InvPassage => TableTenue
  <2> SUFFICES ASSUME IInv, InvPassage, NEW h \in Suivis
               PROVE  now - clients[h].seen <= 2 * IdleTTL
    BY DEF TableTenue, EntreesRecentes, IInv
  <2>1. now \in Nat /\ clients[h].seen \in Nat
    BY DEF IInv, TypeOK, Client
  <2>2. now % IdleTTL \in 0 .. IdleTTL - 1 /\ IdleTTL \in Nat
    BY <2>1, ResteSuivant, DureesAssumption
  <2> QED BY <2>1, <2>2 DEF InvPassage, DernierPassage
<1>4. Spec => []InvPassage
  BY <1>1, <1>2, Invariant, PTL DEF Spec
<1> QED BY <1>3, <1>4, Invariant, PTL

\* A tracked client that waits for Unite after its last request has a token.
THEOREM RetryAfterCorrect == Spec => []RetryAfterTenu
<1>1. IInv => RetryAfterTenu
  <2> SUFFICES ASSUME IInv, NEW h \in Suivis, now - clients[h].seen >= Unite
               PROVE  Jetons(clients[h]) >= Unite
    BY DEF RetryAfterTenu
  <2>1. /\ clients[h] \in Client /\ now \in Nat
        /\ clients[h].last <= clients[h].seen
    BY DEF IInv, TypeOK, HorlogesOrdonnees
  <2>2. now - clients[h].last >= Unite
    BY <2>1, PleinType DEF Client
  <2> QED BY <2>1, <2>2, PleinType DEF Jetons, Client
<1> QED BY <1>1, Invariant, PTL

----------------------------------------------------------------------------
\* Refinement: the effect of each step on the buckets seen from outside.

LEMMA NiveauType ==
  ASSUME IInv, NEW h \in Hotes
  PROVE  Niveau(h) \in 0 .. Plein
<1>1. CASE h \in Suivis
  <2>1. /\ clients[h] \in Client /\ now \in Nat
        /\ clients[h].last <= clients[h].seen /\ clients[h].seen <= now
    BY <1>1 DEF IInv, TypeOK, HorlogesOrdonnees
  <2>2. clients[h].last <= now
    BY <2>1 DEF Client
  <2> QED BY <1>1, <2>1, <2>2, JetonsType DEF Niveau
<1>2. CASE h \notin Suivis
  BY <1>2, PleinType DEF Niveau
<1> QED BY <1>1, <1>2

\* An entry that is swept away had a full bucket.
LEMMA OisifPlein ==
  ASSUME IInv, NEW h \in Suivis, Oisif(h)
  PROVE  Niveau(h) = Plein
<1>1. /\ clients[h] \in Client /\ clients[h].last <= clients[h].seen
      /\ now \in Nat
  BY DEF IInv, TypeOK, HorlogesOrdonnees
<1>2. now - clients[h].seen > IdleTTL
  BY DEF Oisif
<1>3. now - clients[h].last > Plein
  <2>1. IdleTTL >= Plein /\ IdleTTL \in Nat
    BY TTLAssumption, DureesAssumption DEF Plein
  <2> QED BY <1>1, <1>2, <2>1, PleinType DEF Client
<1>4. Jetons(clients[h]) = Plein
  BY <1>1, <1>3, PleinType DEF Jetons, Client
<1> QED BY <1>4 DEF Niveau

LEMMA PasserNiveau ==
  ASSUME IInv, Passer, NEW h \in Hotes
  PROVE  Niveau(h)' = IF Niveau(h) < Plein THEN Niveau(h) + 1 ELSE Plein
<1>1. Suivis' = Suivis /\ clients' = clients /\ now' = now + 1 /\ now \in Nat
  BY DEF Passer, Suivis, IInv, TypeOK
<1>2. CASE h \in Suivis
  <2>1. clients[h] \in Client /\ clients[h].last <= now
    BY <1>2 DEF IInv, TypeOK, HorlogesOrdonnees, Client
  <2>2. Niveau(h) = Jetons(clients[h]) /\ Niveau(h)' = Jetons(clients[h])'
    BY <1>1, <1>2 DEF Niveau
  <2> QED BY <1>1, <2>1, <2>2, PleinType DEF Jetons, Client, Plein
<1>3. CASE h \notin Suivis
  BY <1>1, <1>3, PleinType DEF Niveau, Plein
<1> QED BY <1>2, <1>3

LEMMA NettoyerNiveau ==
  ASSUME IInv, Nettoyer, NEW h \in Hotes
  PROVE  Niveau(h)' = Niveau(h)
<1>1. /\ Suivis' = {s \in Suivis : ~Oisif(s)} /\ now' = now
      /\ \A s \in Suivis' : clients'[s] = clients[s]
  BY DEF Nettoyer, Suivis
<1>2. CASE h \in Suivis'
  BY <1>1, <1>2 DEF Niveau, Jetons, Plein
<1>3. CASE h \notin Suivis'
  <2>1. Niveau(h)' = Plein
    BY <1>3 DEF Niveau, Plein
  <2>2. CASE h \in Suivis
    BY <1>1, <1>3, <2>1, <2>2, OisifPlein
  <2>3. CASE h \notin Suivis
    BY <2>1, <2>3 DEF Niveau
  <2> QED BY <2>2, <2>3
<1> QED BY <1>2, <1>3

LEMMA DeciderNiveau ==
  ASSUME IInv, NEW r \in Requetes, Decider(r), NEW h \in Hotes
  PROVE  /\ h # clientIP(r) => Niveau(h)' = Niveau(h)
         /\ h = clientIP(r) => Niveau(h)' = IF Niveau(h) >= Unite
                                            THEN Niveau(h) - Unite ELSE Niveau(h)
<1> DEFINE ip == clientIP(r)
<1>1. /\ Suivis' = Suivis \cup {ip}
      /\ \A s \in Suivis \ {ip} : clients'[s] = clients[s]
      /\ Jetons(clients'[ip]) = IF Niveau(ip) >= Unite THEN Niveau(ip) - Unite
                                ELSE Niveau(ip)
  BY DeciderFaits
<1>2. now' = now
  BY DEF Decider
<1>3. \A s \in Suivis' : Niveau(s)' = Jetons(clients'[s])
  BY <1>2 DEF Niveau, Jetons, Plein
<1>4. CASE h = ip
  BY <1>1, <1>3, <1>4
<1>5. CASE h # ip /\ h \in Suivis
  BY <1>1, <1>3, <1>5 DEF Niveau
<1>6. CASE h # ip /\ h \notin Suivis
  BY <1>1, <1>6 DEF Niveau, Plein
<1> QED BY <1>4, <1>5, <1>6

\* The limiter implements a bucket per address that is never forgotten.
THEOREM Raffinement == Spec => ImplementeAbstrait
<1>1. Init => Abstrait!InitA
  <2> SUFFICES ASSUME Init
               PROVE  Abstrait!InitA
    OBVIOUS
  <2>1. Suivis = {}
    BY DEF Init, Suivis
  <2>2. niveauAbstrait = [h \in Hotes |-> Plein]
    BY <2>1 DEF niveauAbstrait, Niveau
  <2> QED BY <2>2 DEF Init, Abstrait!InitA, Abstrait!PleinA, Plein
<1>2. IInv /\ [Next]_vars => [Abstrait!NextA]_Abstrait!varsA
  <2> SUFFICES ASSUME IInv, [Next]_vars
               PROVE  [Abstrait!NextA]_Abstrait!varsA
    OBVIOUS
  <2> USE DEF Abstrait!NextA, Abstrait!varsA
  <2>0. /\ \A h \in Hotes : niveauAbstrait[h] = Niveau(h)
        /\ \A h \in Hotes : niveauAbstrait'[h] = Niveau(h)'
    BY DEF niveauAbstrait
  <2>a. ASSUME \A h \in Hotes : Niveau(h)' = Niveau(h)
        PROVE  niveauAbstrait' = niveauAbstrait
    BY <2>a DEF niveauAbstrait
  <2>1. CASE UNCHANGED vars
    <3>1. \A h \in Hotes : Niveau(h)' = Niveau(h)
      BY <2>1 DEF vars, Niveau, Suivis, Jetons, Plein
    <3> QED BY <2>1, <2>a, <3>1 DEF vars
  <2>2. CASE Passer
    <3>1. niveauAbstrait' = [h \in Hotes |->
             IF niveauAbstrait[h] < Plein THEN niveauAbstrait[h] + 1 ELSE Plein]
      BY <2>2, PasserNiveau DEF niveauAbstrait
    <3>2. Abstrait!PasserA
      BY <2>2, <3>1 DEF Passer, Abstrait!PasserA, Abstrait!PleinA, Plein
    <3> QED BY <3>2
  <2>3. CASE Nettoyer
    <3>1. niveauAbstrait' = niveauAbstrait
      BY <2>3, <2>a, NettoyerNiveau
    <3> QED BY <2>3, <3>1 DEF Nettoyer
  <2>4. ASSUME NEW r \in Requetes, Sonder(r)
        PROVE  [Abstrait!NextA]_Abstrait!varsA
    <3>1. \A h \in Hotes : Niveau(h)' = Niveau(h)
      BY <2>4 DEF Sonder, vars, Niveau, Suivis, Jetons, Plein
    <3> QED BY <2>4, <2>a, <3>1 DEF Sonder, vars
  <2>5. ASSUME NEW r \in Requetes, Deborder(r)
        PROVE  [Abstrait!NextA]_Abstrait!varsA
    <3> DEFINE ip == clientIP(r)
    <3>1. \A h \in Hotes : Niveau(h)' = Niveau(h)
      BY <2>5 DEF Deborder, Niveau, Suivis, Jetons, Plein
    <3>2. niveauAbstrait' = niveauAbstrait /\ ip \in Hotes
      BY <2>a, <3>1, clientIPType
    <3>3. niveauAbstrait[ip] = Plein
      BY <2>5, <2>0, <3>2 DEF Deborder, SansPlace, Niveau
    <3>4. Abstrait!RefuserA(ip)
      BY <2>5, <3>2, <3>3 DEF Deborder, Abstrait!RefuserA, Abstrait!PleinA, Plein
    <3> QED BY <3>2, <3>4
  <2>6. ASSUME NEW r \in Requetes, Decider(r)
        PROVE  [Abstrait!NextA]_Abstrait!varsA
    <3> DEFINE ip == clientIP(r)
    <3>1. ip \in Hotes /\ Niveau(ip) \in 0 .. Plein
          /\ verdict' = [hote |-> ip, admis |-> Niveau(ip) >= Unite]
      BY <2>6, DeciderFaits
    <3>2. now' = now
      BY <2>6 DEF Decider
    <3>3. CASE Niveau(ip) >= Unite
      <4>1. niveauAbstrait' = [niveauAbstrait EXCEPT ![ip] = @ - Unite]
        <5>1. ASSUME NEW h \in Hotes
              PROVE  niveauAbstrait'[h] = IF h = ip THEN niveauAbstrait[ip] - Unite
                                          ELSE niveauAbstrait[h]
          BY <2>6, <2>0, <3>1, <3>3, DeciderNiveau
        <5> HIDE DEF ip
        <5> QED BY <5>1, <3>1 DEF niveauAbstrait
      <4>2. Abstrait!AdmettreA(ip)
        BY <2>0, <3>1, <3>2, <3>3, <4>1 DEF Abstrait!AdmettreA
      <4> QED BY <3>1, <4>2
    <3>4. CASE ~(Niveau(ip) >= Unite)
      <4>1. niveauAbstrait' = niveauAbstrait
        BY <2>6, <2>a, <3>4, DeciderNiveau
      <4>2. Niveau(ip) < Unite
        BY <3>1, <3>4, PleinType
      <4>3. verdict' = [hote |-> ip, admis |-> FALSE]
        <5>1. (Niveau(ip) >= Unite) = FALSE
          BY <3>1, <3>4, PleinType
        <5> QED BY <3>1, <5>1, Zenon
      <4>4. niveauAbstrait[ip] < Unite
        BY <2>0, <3>1, <4>2
      <4> HIDE DEF ip
      <4>5. Abstrait!RefuserA(ip)
        BY <3>2, <4>1, <4>3, <4>4 DEF Abstrait!RefuserA
      <4> QED BY <3>1, <4>5
    <3> QED BY <3>3, <3>4
  <2> QED BY <2>1, <2>2, <2>3, <2>4, <2>5, <2>6 DEF Next, Requete
<1> QED BY <1>1, <1>2, Invariant, PTL DEF Spec, ImplementeAbstrait, Abstrait!SpecA

----------------------------------------------------------------------------
\* The rate over a window. What a client has been granted since the window
\* opened, plus what is left in its bucket, never exceeds a full bucket and
\* what time has earned: eviction replaces a bucket by one no fuller.
Bilan ==
  /\ compte \in [Hotes -> Nat]
  /\ repere \in Nat \cup {-1}
  /\ repere <= now
  /\ repere = -1 => \A h \in Hotes : compte[h] = 0
  /\ repere # -1 => \A h \in Hotes :
       compte[h] * Unite + Niveau(h) <= Plein + (now - repere)
FInv == IInv /\ Bilan

LEMMA ProduitType == \A a, b \in Nat : a * b \in Nat /\ (a + 1) * b = a * b + b
OBVIOUS

\* One address: its account holds as long as a step earns it one at most per
\* instant and every request counted costs its bucket Unite.
LEMMA BilanStable ==
  ASSUME IInv, IInv', Bilan, repere # -1, UNCHANGED repere,
         NEW h \in Hotes, compte'[h] \in Nat, Niveau(h)' \in Nat,
         \/ compte'[h] = compte[h] /\ Niveau(h)' - Niveau(h) <= now' - now
         \/ compte'[h] = compte[h] + 1 /\ Niveau(h)' + Unite - Niveau(h) <= now' - now
  PROVE  compte'[h] * Unite + Niveau(h)' <= Plein + (now' - repere)
<1>1. /\ compte[h] \in Nat /\ repere \in Nat /\ now \in Nat /\ now' \in Nat
      /\ compte[h] * Unite + Niveau(h) <= Plein + (now - repere)
  BY DEF Bilan, IInv, TypeOK
<1>2. Niveau(h) \in 0 .. Plein /\ Unite \in Nat /\ Plein \in Nat
  BY NiveauType, PleinType
<1> DEFINE x == compte[h] * Unite
           y == compte'[h] * Unite
<1>4. x \in Nat /\ y \in Nat
      /\ (compte'[h] = compte[h] => y = x)
      /\ (compte'[h] = compte[h] + 1 => y = x + Unite)
  BY <1>1, <1>2, ProduitType
<1>5. x + Niveau(h) <= Plein + (now - repere)
  BY <1>1
<1> SUFFICES y + Niveau(h)' <= Plein + (now' - repere)
  OBVIOUS
<1> HIDE DEF x, y
<1> QED BY <1>1, <1>2, <1>4, <1>5

LEMMA InitFInv == InitF => FInv
<1> SUFFICES ASSUME InitF
             PROVE  FInv
  OBVIOUS
<1>1. IInv
  BY InitIInv DEF InitF
<1>2. Bilan
  BY <1>1 DEF InitF, Init, Bilan
<1> QED BY <1>1, <1>2 DEF FInv

LEMMA NextFInv == FInv /\ [NextF]_varsF => FInv'
<1> SUFFICES ASSUME FInv, [NextF]_varsF
             PROVE  FInv'
  OBVIOUS
<1>0. IInv /\ Bilan /\ now \in Nat
  BY DEF FInv, IInv, TypeOK
<1>1. IInv'
  <2>1. [Next]_vars
    BY DEF NextF, varsF, Ouvrir, Next
  <2> QED BY <1>0, <2>1, NextIInv
<1>2. now' \in Nat
  BY <1>1 DEF IInv, TypeOK
<1>3. CASE UNCHANGED varsF
  <2>1. \A h \in Hotes : Niveau(h)' = Niveau(h)
    BY <1>3 DEF varsF, vars, Niveau, Suivis, Jetons, Plein
  <2>2. Bilan'
    BY <1>0, <1>3, <2>1 DEF varsF, vars, Bilan, Plein
  <2> QED BY <1>1, <2>2 DEF FInv
<1>4. CASE Ouvrir
  <2>1. /\ now' = now /\ compte' = compte /\ repere' = now /\ repere = -1
        /\ \A h \in Hotes : Niveau(h)' = Niveau(h)
    BY <1>4 DEF Ouvrir, vars, Niveau, Suivis, Jetons, Plein
  <2>2. \A h \in Hotes : compte'[h] * Unite = 0
    BY <1>0, <2>1, PleinType DEF Bilan
  <2>3. \A h \in Hotes : compte'[h] * Unite + Niveau(h)' <= Plein + (now' - repere')
    BY <1>0, <2>1, <2>2, NiveauType, PleinType
  <2>4. Bilan'
    BY <1>0, <2>1, <2>3 DEF Bilan, Plein
  <2> QED BY <1>1, <2>4 DEF FInv
<1>5. CASE (Passer \/ Nettoyer) /\ UNCHANGED <<repere, compte>>
  <2>1. ASSUME NEW h \in Hotes
        PROVE  Niveau(h)' \in Nat /\ Niveau(h)' - Niveau(h) <= now' - now
    <3>1. Niveau(h) \in 0 .. Plein
      BY <1>0, NiveauType
    <3>2. CASE Passer
      BY <1>0, <3>1, <3>2, PasserNiveau, PleinType DEF Passer
    <3>3. CASE Nettoyer
      <4>1. now' = now
        BY <3>3 DEF Nettoyer
      <4>2. Niveau(h)' = Niveau(h)
        BY <1>0, <3>3, NettoyerNiveau
      <4> QED BY <1>0, <3>1, <4>1, <4>2, PleinType
    <3> QED BY <1>5, <3>2, <3>3
  <2>2. now <= now'
    BY <1>0, <1>5 DEF Passer, Nettoyer
  <2>3. compte' = compte /\ repere' = repere
    BY <1>5
  <2>4. ASSUME repere # -1, NEW h \in Hotes
        PROVE  compte'[h] * Unite + Niveau(h)' <= Plein + (now' - repere)
    <3>1. compte'[h] \in Nat
      BY <1>0, <2>3 DEF Bilan
    <3> QED BY <1>0, <1>1, <2>1, <2>3, <2>4, <3>1, BilanStable
  <2>5. Bilan'
    BY <1>0, <1>2, <2>2, <2>3, <2>4 DEF Bilan, Plein
  <2> QED BY <1>1, <2>5 DEF FInv
<1>6. ASSUME NEW r \in Requetes, Requete(r), Compter(r)
      PROVE  FInv'
  <2>1. repere' = repere /\ now' = now
    <3>1. repere' = repere
      BY <1>6 DEF Compter
    <3>2. now' = now
      BY <1>6 DEF Requete, Sonder, Deborder, Decider, vars
    <3> QED BY <3>1, <3>2
  <2>2. \/ compte' = compte
        \/ /\ compte' = [compte EXCEPT ![r.remote] = @ + 1]
           /\ verdict'.admis /\ ~r.sonde /\ r.remote \notin ProxysSurs
    BY <1>6 DEF Compter
  <2>3. compte' \in [Hotes -> Nat]
    BY <1>0, <2>2 DEF Bilan
  <2>4. ASSUME NEW h \in Hotes
        PROVE  /\ Niveau(h)' \in Nat
               /\ Niveau(h)' <= Niveau(h)
               /\ compte'[h] # compte[h] => /\ compte'[h] = compte[h] + 1
                                           /\ Niveau(h)' = Niveau(h) - Unite
    <3>1. Niveau(h) \in 0 .. Plein
      BY <1>0, NiveauType
    <3>2. compte'[h] # compte[h] => /\ h = r.remote /\ compte'[h] = compte[h] + 1
                                   /\ verdict'.admis /\ ~r.sonde
                                   /\ clientIP(r) = h
      BY <1>0, <2>2 DEF Bilan, clientIP
    <3>3. CASE Sonder(r)
      <4>1. Niveau(h)' = Niveau(h) /\ compte'[h] = compte[h]
        BY <3>2, <3>3 DEF Sonder, vars, Niveau, Suivis, Jetons, Plein
      <4> QED BY <3>1, <4>1, PleinType
    <3>4. CASE Deborder(r)
      <4>1. Niveau(h)' = Niveau(h) /\ ~verdict'.admis
        BY <3>4 DEF Deborder, Niveau, Suivis, Jetons, Plein
      <4> QED BY <3>1, <3>2, <4>1, PleinType
    <3>5. CASE Decider(r)
      <4>1. /\ h # clientIP(r) => Niveau(h)' = Niveau(h)
            /\ h = clientIP(r) => Niveau(h)' = IF Niveau(h) >= Unite
                                               THEN Niveau(h) - Unite ELSE Niveau(h)
        BY <1>0, <3>5, DeciderNiveau
      <4>2. verdict' = [hote |-> clientIP(r), admis |-> Niveau(clientIP(r)) >= Unite]
        BY <1>0, <3>5, DeciderFaits
      <4>3. compte'[h] # compte[h] => Niveau(h) >= Unite
        BY <3>2, <4>2
      <4> QED BY <3>1, <3>2, <4>1, <4>3, PleinType
    <3> QED BY <1>6, <3>3, <3>4, <3>5 DEF Requete
  <2>5. ASSUME repere # -1, NEW h \in Hotes
        PROVE  compte'[h] * Unite + Niveau(h)' <= Plein + (now' - repere)
    <3>1. compte'[h] \in Nat /\ Niveau(h) \in 0 .. Plein
      BY <1>0, <2>3, NiveauType
    <3>2. \/ compte'[h] = compte[h] /\ Niveau(h)' - Niveau(h) <= now' - now
          \/ compte'[h] = compte[h] + 1 /\ Niveau(h)' + Unite - Niveau(h) <= now' - now
      BY <1>0, <2>1, <2>4, <3>1, PleinType
    <3> QED BY <1>0, <1>1, <2>1, <2>4, <2>5, <3>1, <3>2, BilanStable
  <2>6. repere = -1 => \A h \in Hotes : compte'[h] = 0
    BY <1>0, <1>6, <2>2 DEF Bilan, Compter
  <2>7. Bilan'
    BY <1>0, <2>1, <2>3, <2>5, <2>6 DEF Bilan, Plein
  <2> QED BY <1>1, <2>7 DEF FInv
<1> QED BY <1>3, <1>4, <1>5, <1>6 DEF NextF

\* No directly connected client exceeds its burst and its rate over a window
\* that opens at any instant, whatever evictions happen in between.
THEOREM DebitCorrect == SpecF => []DebitBorne
<1>1. FInv => DebitBorne
  <2> SUFFICES ASSUME FInv, NEW h \in Hotes, repere # -1
               PROVE  compte[h] * Unite <= Plein + (now - repere)
    BY DEF DebitBorne
  <2>1. /\ IInv /\ compte[h] \in Nat /\ repere \in Nat /\ now \in Nat
        /\ compte[h] * Unite + Niveau(h) <= Plein + (now - repere)
    BY DEF FInv, Bilan, IInv, TypeOK
  <2>2. Niveau(h) \in 0 .. Plein /\ compte[h] * Unite \in Nat /\ Plein \in Nat
    BY <2>1, NiveauType, PleinType, ProduitType
  <2> DEFINE x == compte[h] * Unite
  <2>3. x \in Nat /\ x + Niveau(h) <= Plein + (now - repere)
    BY <2>1, <2>2
  <2> SUFFICES x <= Plein + (now - repere)
    OBVIOUS
  <2> HIDE DEF x
  <2> QED BY <2>1, <2>2, <2>3
<1> QED BY <1>1, InitFInv, NextFInv, PTL DEF SpecF
=============================================================================
