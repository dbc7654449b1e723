------------------------------- MODULE Service -------------------------------
(***************************************************************************)
(* The service: cmd/routed/main.go starts on the artefact of the disk,     *)
(* listens, stops on a signal; httpapi/handler.go answers POST /v1/loops   *)
(* and GET /v1/loops/{id} (JSON or GPX) and keeps nothing between the two: *)
(* an id encodes the request and the rank of the loop, and is replayed.    *)
(*                                                                         *)
(* Generate is taken by what Generateur checks of it: what it comes to is  *)
(* a function of the artefact and of the request, or the error of its      *)
(* context, within a tick of its end. withRateLimit is the module Limiteur.*)
(***************************************************************************)
EXTENDS Integers, Sequences, FiniteSets

CONSTANTS
  NumRequetes,      \* bound: how many requests clients send, numbered as they come
  Demandes,         \* what their bodies or their ids carry, valid or not
  Illisible,        \* ... and what does not decode
  Versions,         \* artefacts graphbuild may leave, 1 .. n
  Monde,            \* Monde[v][d]: what Generate comes to, [err, boucles]
  MinDistance, MaxDistance, MaxResults,
  Ids,              \* the ids clients may send, issued or not
  TTL,              \* requestTTL, 5 s
  Grace,            \* the context of Shutdown, 10 s
  Lancements,       \* bound: how many times routed is started
  WriteTimeout      \* 30 s, from the head of the request (in ticks, all three)

Requetes == 1 .. NumRequetes
Valide(d) ==
  /\ d.lat \in -90 .. 90 /\ d.lon \in -180 .. 180
  /\ d.distance \in MinDistance .. MaxDistance
  /\ d.resultats <= MaxResults
ASSUME DureesAssumption ==
  /\ TTL \in Nat \ {0} /\ Grace \in Nat /\ WriteTimeout \in Nat
  /\ TTL < Grace
ASSUME DemandesAssumption ==
  /\ MinDistance \in Int /\ MaxDistance \in Int /\ MaxResults \in Int
  /\ \A d \in Demandes : {d.lat, d.lon, d.distance, d.resultats} \subseteq Int
  /\ \A id \in Ids : id.demande \in Demandes \cup {Illisible} /\ id.index \in Int
ASSUME MondeAssumption ==
  /\ Illisible \notin Demandes
  /\ \A v \in Versions : \A d \in {e \in Demandes : Valide(e)} :
       /\ Monde[v][d].err \in {"nil", "ErrStartOutOfRange", "ErrNoLoopFound"}
       /\ Monde[v][d].err # "nil" <=> Monde[v][d].boucles = <<>>
       /\ Monde[v][d].boucles \in Seq({Monde[v][d].boucles[i] : i \in DOMAIN Monde[v][d].boucles})

VARIABLES
  version,          \* the artefact routed has loaded
  processus,        \* "arrete", "pret" (waits for a signal) or "arret" (in Shutdown)
  ecoute,           \* ListenAndServe: "non", "ouverte", "refusee" or "fermee"
  signal,           \* the channel stop, of capacity 1
  lancements,
  grace,            \* ticks since Shutdown was called
  req,              \* the requests
  requests, errors, totalMs,
  emis              \* history: the ids answered to a POST, with their loops

varsRouted == <<version, processus, ecoute, signal, lancements, grace>>
compteurs == <<requests, errors, totalMs>>
vars == <<varsRouted, req, compteurs, emis>>

\* corps: its age when its body has come; recu: the grace elapsed by then.
\* Once answered, a request leaves nothing in the process but the counters.
Attendue ==
  [etat |-> "a venir", genre |-> "post", demande |-> Illisible, index |-> 0,
   age |-> 0, attente |-> 0, corps |-> -1, recu |-> -1, ctx |-> "nil",
   parti |-> FALSE, statut |-> 0, boucles |-> <<>>]
Actives == {r \in Requetes : req[r].etat \in {"lue", "generation"}}

----------------------------------------------------------------------------
\* Mutant: an id without the number of results, which seedOf hashes.
encodeIDParDefaut(d, i) == [demande |-> [d EXCEPT !.resultats = 0], index |-> i]
encodeID(d, i) == [demande |-> d, index |-> i]

\* loopsRequest.validate. JSON carries neither NaN nor infinities; the tolerance
\* and the activity are refused the same way and left out.
validate(d) ==
  /\ ~ (d.lat < -90 \/ d.lat > 90)
  /\ ~ (d.lon < -180 \/ d.lon > 180)
  /\ ~ (d.distance < MinDistance \/ d.distance > MaxDistance)
  /\ ~ (d.resultats > MaxResults)

\* Whether decodeID returns a request.
decodeID(id) == id.index >= 0 /\ id.demande # Illisible /\ validate(id.demande)

\* The answer goes out, or the write deadline has closed the connection.
Repondre(r, q, statut, boucles) ==
  req' = [req EXCEPT ![r] =
            [Attendue EXCEPT
                      !.etat = IF q.age > WriteTimeout THEN "muette" ELSE "rendue",
                      !.statut = statut, !.boucles = boucles]]
fail(r, q, statut) == errors' = errors + 1 /\ Repondre(r, q, statut, <<>>)
\* The handler calls Generate, under the context of the request.
Engager(r, q) ==
  /\ req' = [req EXCEPT ![r] = [q EXCEPT !.etat = "generation"]]
  /\ UNCHANGED errors

----------------------------------------------------------------------------
Init ==
  /\ version = 0
  /\ processus = "arrete" /\ ecoute = "non" /\ signal = FALSE
  /\ lancements = 0 /\ grace = 0
  /\ req = [r \in Requetes |-> Attendue]
  /\ requests = 0 /\ errors = 0 /\ totalMs = 0
  /\ emis = {}

\* run, up to the wait for a signal: on the artefact graphbuild has left, which
\* may be another one. A refused artefact is Fabrique's.
Demarrer ==
  /\ processus = "arrete" /\ lancements < Lancements
  /\ lancements' = lancements + 1
  /\ processus' = "pret" /\ version' \in {v \in Versions : v >= version}
  /\ ecoute' = "non" /\ signal' = FALSE /\ grace' = 0
  /\ requests' = 0 /\ errors' = 0 /\ totalMs' = 0
  /\ UNCHANGED <<req, emis>>
\* The goroutine that listens: a failure is logged, and the process stays.
Ecouter ==
  /\ processus = "pret" /\ ecoute = "non"
  /\ ecoute' \in {"ouverte", "refusee"}
  /\ UNCHANGED <<version, processus, signal, lancements, grace, req, compteurs, emis>>
\* A second signal finds the channel full, or read by nobody.
Signaler ==
  /\ processus = "pret" /\ ~signal
  /\ signal' = TRUE
  /\ UNCHANGED <<version, processus, ecoute, lancements, grace, req, compteurs, emis>>
\* Shutdown closes the listener; a ListenAndServe yet to come is refused.
RecevoirSignal ==
  /\ processus = "pret" /\ signal
  /\ processus' = "arret" /\ signal' = FALSE /\ grace' = 0
  /\ ecoute' = IF ecoute = "refusee" THEN "refusee" ELSE "fermee"
  /\ UNCHANGED <<version, lancements, req, compteurs, emis>>

\* The process ends, and what it had in flight with it.
Finir(fin) ==
  /\ processus' = "arrete" /\ ecoute' = "non" /\ signal' = FALSE /\ grace' = 0
  /\ req' = [r \in Requetes |-> IF r \in Actives THEN [Attendue EXCEPT !.etat = fin] ELSE req[r]]
  /\ UNCHANGED <<version, lancements, compteurs, emis>>
\* Mutants: Close for Shutdown, then Shutdown without a deadline.
FinArretBrutale ==
  /\ processus = "arret"
  /\ Finir("coupee")
FinArretSansDelai ==
  /\ processus = "arret" /\ Actives = {}
  /\ Finir("coupee")
FinArret ==
  /\ processus = "arret"
  /\ Actives = {} \/ grace >= Grace
  /\ Finir("coupee")
Planter == processus # "arrete" /\ Finir("perdue")

----------------------------------------------------------------------------
Arrive(r) ==
  /\ \A a \in Requetes : req[a].etat = "a venir" <=> a >= r
  /\ processus = "pret" /\ ecoute = "ouverte"
Nouvelle(r, q) == req' = [req EXCEPT ![r] = q]
\* postLoops, up to its reading of the body; the mux finds getLoop.
Poster(r) ==
  /\ Arrive(r)
  /\ requests' = requests + 1
  /\ \E d \in Demandes \cup {Illisible} : Nouvelle(r, [Attendue EXCEPT !.etat = "lue", !.demande = d])
  /\ UNCHANGED <<varsRouted, errors, totalMs, emis>>
Ouvrir(r) ==
  /\ Arrive(r)
  /\ \E id \in Ids :
       Nouvelle(r, [Attendue EXCEPT !.etat = "lue", !.genre = "get", !.demande = id.demande, !.index = id.index])
  /\ UNCHANGED <<varsRouted, compteurs, emis>>

Decodable(q) ==
  IF q.genre = "post" THEN q.demande # Illisible /\ validate(q.demande)
  ELSE decodeID([demande |-> q.demande, index |-> q.index])
Duree(q) == IF q.genre = "post" THEN q.age ELSE 0
\* The body has come whole, or the id: decoded, validated, generated from.
Decoder(r) ==
  LET q == [req[r] EXCEPT !.corps = req[r].age,
              !.recu = IF processus = "arret" THEN grace ELSE 0] IN
  /\ q.etat = "lue" /\ (q.genre = "post" => ~ q.parti)
  /\ IF Decodable(q)
     THEN Engager(r, q) /\ UNCHANGED totalMs
     ELSE fail(r, q, 400) /\ totalMs' = totalMs + Duree(q)
  /\ UNCHANGED <<varsRouted, requests, emis>>
\* A body comes when its client sends it; an id is there.
LireCorps(r) == req[r].genre = "post" /\ Decoder(r)
LireId(r) == req[r].genre = "get" /\ Decoder(r)

\* The timer of the context, or the connection lost (external).
Echoir(r) ==
  /\ req[r].etat = "generation" /\ req[r].ctx = "nil" /\ req[r].attente >= TTL
  /\ req' = [req EXCEPT ![r].ctx = "DeadlineExceeded"]
  /\ UNCHANGED <<varsRouted, compteurs, emis>>
Partir(r) ==
  /\ r \in Actives /\ ~ req[r].parti
  /\ req' = [req EXCEPT ![r].parti = TRUE, ![r].ctx = IF @ = "nil" THEN "Canceled" ELSE @]
  /\ UNCHANGED <<varsRouted, compteurs, emis>>
\* A body cut short does not decode.
CorpsPerdu(r) ==
  /\ req[r].etat = "lue" /\ req[r].genre = "post" /\ req[r].parti
  /\ fail(r, req[r], 400) /\ totalMs' = totalMs + req[r].age
  /\ UNCHANGED <<varsRouted, requests, emis>>

\* What Generate may return: what it comes to, or the error of its context.
Resultats(q) ==
  {Monde[version][q.demande]} \cup
    (IF q.ctx = "nil" THEN {} ELSE {[err |-> q.ctx, boucles |-> <<>>]})
\* The rest of postLoops. Mutant: a context that ended is a loop not found.
StatutSansDelai(err) ==
  CASE err = "ErrStartOutOfRange" -> 400
    [] err \in {"ErrNoLoopFound", "DeadlineExceeded"} -> 404
    [] OTHER -> 500
Statut(err) ==
  CASE err = "ErrStartOutOfRange" -> 400
    [] err = "ErrNoLoopFound" -> 404
    [] err = "DeadlineExceeded" -> 504
    [] OTHER -> 500
FinPoster(r) ==
  LET q == req[r] IN
  /\ q.etat = "generation" /\ q.genre = "post"
  /\ \E res \in Resultats(q) :
       IF res.err = "nil"
       THEN /\ Repondre(r, q, 200, res.boucles)
            /\ emis' = emis \cup {[id |-> encodeID(q.demande, i - 1), version |-> version,
                                   boucle |-> res.boucles[i]] : i \in DOMAIN res.boucles}
            /\ UNCHANGED errors
       ELSE fail(r, q, Statut(res.err)) /\ UNCHANGED emis
  /\ totalMs' = totalMs + q.age
  /\ UNCHANGED <<varsRouted, requests>>
\* The rest of getLoop, in either representation: any error is a 404.
FinOuvrir(r) ==
  LET q == req[r] IN
  /\ q.etat = "generation" /\ q.genre = "get"
  /\ \E res \in Resultats(q) :
       IF res.err # "nil" \/ q.index >= Len(res.boucles)
       THEN fail(r, q, 404)
       ELSE Repondre(r, q, 200, <<res.boucles[q.index + 1]>>) /\ UNCHANGED errors
  /\ UNCHANGED <<varsRouted, requests, totalMs, emis>>

\* Time passes, when no timer is due, no context is over that Generate has not
\* returned from (Generateur) and only a body makes a handler wait.
Passer ==
  /\ \A r \in Actives :
       IF req[r].etat = "generation" THEN req[r].attente < TTL ELSE req[r].genre = "post"
  /\ processus = "arret" => grace < Grace
  /\ processus = "arret" \/ Actives # {}
  /\ grace' = IF processus = "arret" THEN grace + 1 ELSE grace
  /\ req' = [r \in Requetes |->
        IF r \notin Actives THEN req[r]
        ELSE [req[r] EXCEPT !.age = IF @ > WriteTimeout THEN @ ELSE @ + 1,
                            !.attente = IF req[r].etat = "generation" THEN @ + 1 ELSE @]]
  /\ UNCHANGED <<version, processus, ecoute, signal, lancements, compteurs, emis>>

Client(r) == Poster(r) \/ Ouvrir(r) \/ Partir(r)
Handler(r) == LireCorps(r) \/ LireId(r) \/ CorpsPerdu(r) \/ Echoir(r) \/ FinPoster(r) \/ FinOuvrir(r)
Routed == Demarrer \/ Ecouter \/ RecevoirSignal \/ FinArret
Exterieur == Signaler \/ Planter
Next ==
  \/ Routed \/ Exterieur \/ Passer
  \/ \E r \in Requetes : Client(r) \/ Handler(r)

\* The process and its handlers go on, time passes; a client owes nothing.
Equite ==
  /\ WF_vars(RecevoirSignal) /\ WF_vars(FinArret) /\ WF_vars(Passer)
  /\ \A r \in Requetes : WF_vars(LireId(r) \/ FinPoster(r) \/ FinOuvrir(r))
Spec == Init /\ [][Next]_vars /\ Equite

----------------------------------------------------------------------------
Repondue(r) == r \in Actives /\ ~ req[r].parti /\ req'[r].etat = "rendue"
Expire(r) == req[r].ctx = "DeadlineExceeded" /\ req[r].attente >= TTL

\* An id is as good as the loop: replayed on the artefact it was issued on, by
\* another process or not, it gives that very loop and no other, and is refused
\* only if its own five seconds ran out (handler.go, encodeID and getLoop).
IdRejouable ==
  [][\A r \in Requetes, e \in emis :
       (/\ Repondue(r) /\ req[r].genre = "get"
        /\ e.id = [demande |-> req[r].demande, index |-> req[r].index] /\ e.version = version) =>
         \/ req'[r].statut = 200 /\ req'[r].boucles = <<e.boucle>>
         \/ req'[r].statut = 404 /\ Expire(r)]_vars

\* Whoever still waits is told the truth: a request out of bounds goes no
\* further by either road, the status is the one its request calls for, and
\* nothing else replaces it than the deadline, once it is over. A 500 is for
\* nobody.
ReponseJuste ==
  [][\A r \in Requetes :
      LET q == req[r]
          rendue == req'[r]
          valide == q.demande # Illisible /\ Valide(q.demande) /\ q.index >= 0
          tout == Monde[version][q.demande]
      IN
      /\ rendue.etat = "generation" => valide
      /\ Repondue(r) /\ ~ valide => rendue.statut = 400
      /\ Repondue(r) /\ valide =>
           \/ Expire(r) /\ rendue.statut = (IF q.genre = "post" THEN 504 ELSE 404)
           \/ q.genre = "post" /\ tout.err = "ErrStartOutOfRange" /\ rendue.statut = 400
           \/ q.genre = "post" /\ tout.err = "ErrNoLoopFound" /\ rendue.statut = 404
           \/ q.genre = "post" /\ tout.err = "nil" /\ rendue.statut = 200 /\ rendue.boucles = tout.boucles
           \/ q.genre = "get" /\ q.index < Len(tout.boucles) /\ rendue.statut = 200
                /\ rendue.boucles = <<tout.boucles[q.index + 1]>>
           \/ q.genre = "get" /\ q.index >= Len(tout.boucles) /\ rendue.statut = 404]_vars

\* Nobody who sent a request in time goes without an answer: Shutdown cuts only
\* those whose body came less than a requestTTL before its own deadline, and
\* WriteTimeout mutes only those whose body took too long (main.go, run).
AucuneCoupee ==
  [][\A r \in Actives :
       /\ req'[r].etat = "coupee" => req[r].recu = -1 \/ req[r].recu >= Grace - TTL
       /\ req'[r].etat = "muette" => 
            (IF req[r].corps = -1 THEN req[r].age ELSE req[r].corps) > WriteTimeout - TTL]_vars

\* A signal ends the process, though its listener has failed or a client never
\* sends the body it has announced.
FinApresSignal == (processus = "pret" /\ signal) ~> (processus = "arrete")

----------------------------------------------------------------------------
\* The inductive invariant of the proofs. A request that Generate serves was
\* found valid, its wait is bounded by requestTTL, and its age and the grace
\* went by with that wait since its body came.
DemandeValide(q) == q.demande \in Demandes /\ Valide(q.demande) /\ q.index >= 0
Tenue(q) ==
  /\ DemandeValide(q)
  /\ q.attente <= TTL
  /\ q.corps \in Nat /\ q.age <= q.corps + q.attente
  /\ q.recu \in Nat /\ (processus = "arret" => grace <= q.recu + q.attente)
  /\ q.ctx = "DeadlineExceeded" => q.attente >= TTL
Finies == {"a venir", "rendue", "muette", "coupee", "perdue"}
Saine(q) ==
  /\ DOMAIN q = DOMAIN Attendue
  /\ q.etat \in Finies \cup {"lue", "generation"}
  /\ q.genre \in {"post", "get"}
  /\ q.demande \in Demandes \cup {Illisible} /\ q.index \in Int /\ (q.genre = "post" => q.index = 0)
  /\ q.age \in Nat /\ q.attente \in Nat /\ q.parti \in BOOLEAN
  /\ q.ctx \in {"nil", "DeadlineExceeded", "Canceled"} /\ (q.ctx = "Canceled" => q.parti)
  /\ q.etat = "lue" => q.attente = 0 /\ q.corps = -1 /\ q.recu = -1 /\ q.ctx # "DeadlineExceeded"
  /\ q.etat = "generation" => Tenue(q)
Emise(e) ==
  LET tout == Monde[e.version][e.id.demande] IN
  /\ e.version \in Versions /\ DOMAIN e.id = {"demande", "index"}
  /\ DemandeValide(e.id)
  /\ tout.err = "nil" /\ e.id.index + 1 \in DOMAIN tout.boucles
  /\ e.boucle = tout.boucles[e.id.index + 1]
IInv ==
  /\ processus \in {"arrete", "pret", "arret"} /\ grace \in Nat
  /\ processus # "arrete" => version \in Versions
  /\ processus = "arrete" => Actives = {}
  /\ DOMAIN req = Requetes /\ \A r \in Requetes : Saine(req[r])
  /\ \A e \in emis : Emise(e)
=============================================================================
