---------------------------- MODULE ServicePreuve ----------------------------
(***************************************************************************)
(* Theorems about Service, for any number of requests, whatever they ask,  *)
(* whatever the artefacts hold and however long the delays are.            *)
(***************************************************************************)
EXTENDS Service, TLAPS

\* What validate lets through is what the documentation of the API allows.
LEMMA ValideJuste ==
  ASSUME NEW d \in Demandes
  PROVE  validate(d) <=> Valide(d)
<1>1. /\ d.lat \in Int /\ d.lon \in Int /\ d.distance \in Int /\ d.resultats \in Int
      /\ MinDistance \in Int /\ MaxDistance \in Int /\ MaxResults \in Int
  BY DemandesAssumption
<1> QED BY <1>1 DEF validate, Valide

\* A request gets to Generate exactly when it is valid, by either road.
LEMMA DecodableJuste ==
  ASSUME NEW q, Saine(q)
  PROVE  Decodable(q) <=> DemandeValide(q)
<1>1. q.demande # Illisible <=> q.demande \in Demandes
  BY MondeAssumption DEF Saine
<1>2. q.demande \in Demandes => (validate(q.demande) <=> Valide(q.demande))
  BY ValideJuste
<1>3. q.index \in Int /\ q.genre \in {"post", "get"} /\ (q.genre = "post" => q.index = 0)
  BY DEF Saine
<1>4. [demande |-> q.demande, index |-> q.index].demande = q.demande
      /\ [demande |-> q.demande, index |-> q.index].index = q.index
  OBVIOUS
<1> QED BY <1>1, <1>2, <1>3, <1>4 DEF Decodable, decodeID, DemandeValide

----------------------------------------------------------------------------
\* A request that is not yet sent, or is answered, keeps nothing to be checked.
LEMMA SaineVide ==
  ASSUME NEW q,
         DOMAIN q = DOMAIN Attendue, q.etat \in Finies,
         q.genre = "post", q.demande = Illisible, q.index = 0,
         q.age = 0, q.attente = 0, q.parti \in BOOLEAN, q.ctx = "nil"
  PROVE  Saine(q)
<1>1. q.age \in Nat /\ q.attente \in Nat /\ q.index \in Int
  OBVIOUS
<1>2. q.etat \notin {"lue", "generation"}
  BY DEF Finies
<1>3. q.ctx \in {"nil", "DeadlineExceeded", "Canceled"} /\ q.ctx # "Canceled"
  OBVIOUS
<1> QED BY <1>1, <1>2, <1>3, Zenon DEF Saine

\* What Repondre and Finir leave of a request.
Rendue(e, s, l) == [Attendue EXCEPT !.etat = e, !.statut = s, !.boucles = l]
Quittee(e) == [Attendue EXCEPT !.etat = e]
LEMMA RenduVide ==
  ASSUME NEW e \in Finies, NEW s, NEW l
  PROVE  /\ Saine(Rendue(e, s, l))
         /\ Rendue(e, s, l).etat = e
         /\ Rendue(e, s, l).statut = s
         /\ Rendue(e, s, l).boucles = l
<1> DEFINE u == Rendue(e, s, l)
<1>1. /\ DOMAIN u = DOMAIN Attendue /\ u.etat = e /\ u.statut = s /\ u.boucles = l
      /\ u.genre = "post" /\ u.demande = Illisible /\ u.index = 0
      /\ u.age = 0 /\ u.attente = 0 /\ u.parti \in BOOLEAN /\ u.ctx = "nil"
  BY DEF Attendue, Rendue
<1> HIDE DEF u
<1>2. Saine(u)
  BY <1>1, SaineVide
<1> QED BY <1>1, <1>2 DEF u

LEMMA QuitteeVide ==
  ASSUME NEW e \in Finies
  PROVE  Saine(Quittee(e)) /\ Quittee(e).etat = e
<1> DEFINE u == Quittee(e)
<1>1. /\ DOMAIN u = DOMAIN Attendue /\ u.etat = e
      /\ u.genre = "post" /\ u.demande = Illisible /\ u.index = 0
      /\ u.age = 0 /\ u.attente = 0 /\ u.parti \in BOOLEAN /\ u.ctx = "nil"
  BY DEF Attendue, Quittee
<1> HIDE DEF u
<1>2. Saine(u)
  BY <1>1, SaineVide
<1> QED BY <1>1, <1>2 DEF u

\* A step that touches one request only.
LEMMA Remplacee ==
  ASSUME IInv, NEW r \in Requetes, NEW v,
         req' = [req EXCEPT ![r] = v],
         UNCHANGED varsRouted,
         Saine(v),
         v.etat \in {"lue", "generation"} => processus # "arrete",
         \A e \in emis' : Emise(e)
  PROVE  IInv'
<1>1. /\ processus' = processus /\ grace' = grace /\ version' = version
  BY DEF varsRouted
<1>2. DOMAIN req' = Requetes /\ \A s \in Requetes : req'[s] = IF s = r THEN v ELSE req[s]
  BY DEF IInv
<1>3. ASSUME NEW s \in Requetes PROVE Saine(req[s])'
  <2>1. Saine(req'[s])
    BY <1>2 DEF IInv
  <2> QED BY <1>1, <2>1 DEF Saine, Tenue
<1>4. Actives' \subseteq Actives \cup {r}
  BY <1>2 DEF Actives
<1>5. processus = "arrete" => Actives' = {}
  BY <1>2 DEF Actives, IInv
<1> QED BY <1>1, <1>2, <1>3, <1>5 DEF IInv

LEMMA InitIInv == Init => IInv
<1> SUFFICES ASSUME Init PROVE IInv
  OBVIOUS
<1>1. Saine(Attendue)
  <2> DEFINE q == Attendue
  <2>1. /\ DOMAIN q = DOMAIN Attendue /\ q.etat \in Finies
        /\ q.genre = "post" /\ q.demande = Illisible /\ q.index = 0
        /\ q.age = 0 /\ q.attente = 0 /\ q.parti \in BOOLEAN /\ q.ctx = "nil"
    BY DEF Attendue, Finies
  <2> HIDE DEF q
  <2>2. Saine(q)
    BY <2>1, SaineVide
  <2> QED BY <2>2 DEF q
<1>2. \A r \in Requetes : req[r] = Attendue /\ req[r].etat = "a venir"
  BY DEF Init, Attendue
<1> QED BY <1>1, <1>2 DEF Init, IInv, Actives

\* The answer, or the silence, to a request.
Issue(q) == IF q.age > WriteTimeout THEN "muette" ELSE "rendue"
LEMMA RepondreFaits ==
  ASSUME NEW r, NEW q, NEW s, NEW l, Repondre(r, q, s, l)
  PROVE  /\ req' = [req EXCEPT ![r] = Rendue(Issue(q), s, l)]
         /\ Saine(Rendue(Issue(q), s, l))
         /\ Rendue(Issue(q), s, l).etat = Issue(q)
         /\ Rendue(Issue(q), s, l).statut = s
         /\ Rendue(Issue(q), s, l).boucles = l
         /\ Issue(q) \in {"muette", "rendue"}
<1>1. Issue(q) \in Finies /\ Issue(q) \in {"muette", "rendue"}
  BY DEF Issue, Finies
<1>2. req' = [req EXCEPT ![r] = Rendue(Issue(q), s, l)]
  BY DEF Repondre, Rendue, Issue
<1> QED BY <1>1, <1>2, RenduVide

LEMMA RepondreIInv ==
  ASSUME IInv, NEW r \in Requetes, NEW q, NEW s, NEW l, Repondre(r, q, s, l),
         UNCHANGED varsRouted, \A e \in emis' : Emise(e)
  PROVE  IInv'
<1> DEFINE v == Rendue(Issue(q), s, l)
<1>1. /\ req' = [req EXCEPT ![r] = v] /\ Saine(v)
      /\ v.etat \in {"muette", "rendue"}
  BY RepondreFaits
<1>2. v.etat \notin {"lue", "generation"}
  BY <1>1
<1> HIDE DEF v
<1> QED BY <1>1, <1>2, Remplacee

----------------------------------------------------------------------------
\* The requests as they come, and as they are decoded.
LEMMA SaineLue ==
  ASSUME NEW u,
         DOMAIN u = DOMAIN Attendue, u.etat = "lue",
         u.genre \in {"post", "get"}, u.demande \in Demandes \cup {Illisible},
         u.index \in Int, u.genre = "post" => u.index = 0,
         u.age = 0, u.attente = 0, u.parti \in BOOLEAN, u.ctx = "nil",
         u.corps = -1, u.recu = -1
  PROVE  Saine(u)
<1>1. u.age \in Nat /\ u.attente \in Nat
  OBVIOUS
<1>2. u.etat \in Finies \cup {"lue", "generation"} /\ u.etat # "generation"
  OBVIOUS
<1>3. u.ctx \in {"nil", "DeadlineExceeded", "Canceled"}
      /\ u.ctx # "Canceled" /\ u.ctx # "DeadlineExceeded"
  OBVIOUS
<1> QED BY <1>1, <1>2, <1>3, Zenon DEF Saine

LEMMA PosterIInv ==
  ASSUME IInv, NEW r \in Requetes, Poster(r)
  PROVE  IInv'
<1>1. PICK d \in Demandes \cup {Illisible} :
        req' = [req EXCEPT ![r] = [Attendue EXCEPT !.etat = "lue", !.demande = d]]
  BY DEF Poster, Nouvelle
<1> DEFINE u == [Attendue EXCEPT !.etat = "lue", !.demande = d]
<1>2. /\ DOMAIN u = DOMAIN Attendue /\ u.etat = "lue"
      /\ u.genre = "post" /\ u.demande = d /\ u.index = 0
      /\ u.age = 0 /\ u.attente = 0 /\ u.parti \in BOOLEAN /\ u.ctx = "nil"
      /\ u.corps = -1 /\ u.recu = -1
  BY DEF Attendue
<1>3. req' = [req EXCEPT ![r] = u]
  BY <1>1
<1> HIDE DEF u
<1>4. Saine(u)
  BY <1>2, SaineLue
<1>5. processus = "pret" /\ UNCHANGED varsRouted /\ emis' = emis
  BY DEF Poster, Arrive
<1>6. processus # "arrete" /\ \A e \in emis' : Emise(e)
  BY <1>5 DEF IInv
<1> QED BY <1>3, <1>4, <1>5, <1>6, Remplacee

LEMMA OuvrirIInv ==
  ASSUME IInv, NEW r \in Requetes, Ouvrir(r)
  PROVE  IInv'
<1>1. PICK id \in Ids :
        req' = [req EXCEPT ![r] = [Attendue EXCEPT !.etat = "lue", !.genre = "get",
                                            !.demande = id.demande, !.index = id.index]]
  BY DEF Ouvrir, Nouvelle
<1> DEFINE u == [Attendue EXCEPT !.etat = "lue", !.genre = "get",
                                 !.demande = id.demande, !.index = id.index]
<1>2. /\ DOMAIN u = DOMAIN Attendue /\ u.etat = "lue"
      /\ u.genre = "get" /\ u.demande = id.demande /\ u.index = id.index
      /\ u.age = 0 /\ u.attente = 0 /\ u.parti \in BOOLEAN /\ u.ctx = "nil"
      /\ u.corps = -1 /\ u.recu = -1
  BY DEF Attendue
<1>3. req' = [req EXCEPT ![r] = u] /\ id.demande \in Demandes \cup {Illisible} /\ id.index \in Int
  BY <1>1, DemandesAssumption
<1> HIDE DEF u
<1>4. Saine(u)
  BY <1>2, <1>3, SaineLue
<1>5. processus = "pret" /\ UNCHANGED varsRouted /\ emis' = emis
  BY DEF Ouvrir, Arrive
<1>6. processus # "arrete" /\ \A e \in emis' : Emise(e)
  BY <1>5 DEF IInv
<1> QED BY <1>3, <1>4, <1>5, <1>6, Remplacee

\* What Decoder hands to Generate.
Engagee(q, c, g) == [[q EXCEPT !.corps = c, !.recu = g] EXCEPT !.etat = "generation"]
Reprise(q, c, g) == [q EXCEPT !.corps = c, !.recu = g]
LEMMA EngageeSaine ==
  ASSUME NEW q, Saine(q), q.etat = "lue", DemandeValide(q),
         NEW c, c = q.age, NEW g \in Nat, grace \in Nat,
         processus = "arret" => g = grace
  PROVE  Saine(Engagee(q, c, g)) /\ Engagee(q, c, g).etat = "generation"
<1> DEFINE u == Engagee(q, c, g)
<1>1. /\ DOMAIN u = DOMAIN q /\ u.etat = "generation"
      /\ u.genre = q.genre /\ u.demande = q.demande /\ u.index = q.index
      /\ u.age = q.age /\ u.attente = q.attente /\ u.parti = q.parti /\ u.ctx = q.ctx
      /\ u.corps = c /\ u.recu = g
  BY DEF Saine, Attendue, Engagee
<1> HIDE DEF u
<1>2. q.age \in Nat /\ q.attente = 0 /\ q.ctx # "DeadlineExceeded"
  BY DEF Saine
<1>3. u.attente <= TTL
  BY <1>1, <1>2, DureesAssumption
<1>4. u.age <= u.corps + u.attente
  BY <1>1, <1>2
<1>5. processus = "arret" => grace <= u.recu + u.attente
  BY <1>1, <1>2
<1>6. DemandeValide(u)
  BY <1>1 DEF DemandeValide
<1>7. Tenue(u)
  BY <1>1, <1>2, <1>3, <1>4, <1>5, <1>6, Zenon DEF Tenue
<1>8. Saine(u)
  BY <1>1, <1>2, <1>7, Zenon DEF Saine
<1> QED BY <1>1, <1>8 DEF u

\* Decoder, as the rest reads it.
LEMMA DecoderFaits ==
  ASSUME IInv, NEW r \in Requetes, Decoder(r)
  PROVE  LET c == req[r].age
             g == IF processus = "arret" THEN grace ELSE 0
             q == req[r]
         IN  /\ q.etat = "lue" /\ (q.genre = "post" => ~q.parti)
             /\ UNCHANGED varsRouted /\ emis' = emis
             /\ \/ DemandeValide(q) /\ req' = [req EXCEPT ![r] = Engagee(q, c, g)]
                \/ ~DemandeValide(q) /\ Repondre(r, Reprise(q, c, g), 400, <<>>)
<1> DEFINE c == req[r].age
           g == IF processus = "arret" THEN grace ELSE 0
           q == req[r]
           p == Reprise(q, c, g)
<1>1. Saine(q)
  BY DEF IInv
<1>2. /\ DOMAIN p = DOMAIN q /\ p.etat = q.etat
      /\ p.genre = q.genre /\ p.demande = q.demande /\ p.index = q.index
      /\ p.parti = q.parti
  BY <1>1 DEF Saine, Attendue, Reprise
<1>3. /\ p.etat = "lue" /\ (p.genre = "post" => ~p.parti)
      /\ IF Decodable(p) THEN Engager(r, p) ELSE fail(r, p, 400)
      /\ UNCHANGED varsRouted /\ emis' = emis
  BY DEF Decoder, Reprise
<1>4. Decodable(p) <=> Decodable(q)
  BY <1>2 DEF Decodable
<1>5. Decodable(q) <=> DemandeValide(q)
  BY <1>1, DecodableJuste
<1>6. Engager(r, p) => req' = [req EXCEPT ![r] = Engagee(q, c, g)]
  BY DEF Engager, Engagee, Reprise
<1>7. fail(r, p, 400) => Repondre(r, p, 400, <<>>)
  BY DEF fail
<1> HIDE DEF p
<1> QED BY <1>2, <1>3, <1>4, <1>5, <1>6, <1>7 DEF p

LEMMA DecoderIInv ==
  ASSUME IInv, NEW r \in Requetes, Decoder(r)
  PROVE  IInv'
<1> DEFINE c == req[r].age
           g == IF processus = "arret" THEN grace ELSE 0
           q == req[r]
<1>1. /\ q.etat = "lue" /\ UNCHANGED varsRouted /\ emis' = emis
      /\ \/ DemandeValide(q) /\ req' = [req EXCEPT ![r] = Engagee(q, c, g)]
         \/ ~DemandeValide(q) /\ Repondre(r, Reprise(q, c, g), 400, <<>>)
  BY DecoderFaits
<1>2. \A e \in emis' : Emise(e)
  BY <1>1 DEF IInv
<1>3. CASE Repondre(r, Reprise(q, c, g), 400, <<>>)
  BY <1>1, <1>2, <1>3, RepondreIInv
<1>4. CASE DemandeValide(q) /\ req' = [req EXCEPT ![r] = Engagee(q, c, g)]
  <2>1. Saine(q) /\ grace \in Nat /\ g \in Nat /\ (processus = "arret" => g = grace)
    BY DEF IInv
  <2>2. Saine(Engagee(q, c, g))
    BY <1>1, <1>4, <2>1, EngageeSaine
  <2>3. processus # "arrete"
    BY <1>1 DEF IInv, Actives
  <2> QED BY <1>1, <1>2, <1>4, <2>2, <2>3, Remplacee
<1> QED BY <1>1, <1>3, <1>4

LEMMA EchoirIInv ==
  ASSUME IInv, NEW r \in Requetes, Echoir(r)
  PROVE  IInv'
<1> DEFINE q == req[r]
           u == [q EXCEPT !.ctx = "DeadlineExceeded"]
<1>1. /\ q.etat = "generation" /\ q.attente >= TTL /\ UNCHANGED varsRouted /\ emis' = emis
      /\ req' = [req EXCEPT ![r] = u]
  BY DEF Echoir
<1>2. Saine(q) /\ Tenue(q)
  BY <1>1 DEF IInv, Saine
<1>3. /\ DOMAIN u = DOMAIN q /\ u.etat = "generation"
      /\ u.genre = q.genre /\ u.demande = q.demande /\ u.index = q.index
      /\ u.age = q.age /\ u.attente = q.attente /\ u.parti = q.parti
      /\ u.corps = q.corps /\ u.recu = q.recu /\ u.ctx = "DeadlineExceeded"
  BY <1>1, <1>2 DEF Saine, Attendue
<1> HIDE DEF u
<1>4. Tenue(u)
  BY <1>1, <1>2, <1>3, Zenon DEF Tenue, DemandeValide
<1>5. u.ctx \in {"nil", "DeadlineExceeded", "Canceled"} /\ u.ctx # "Canceled" /\ u.etat # "lue"
  BY <1>3
<1>6. Saine(u)
  BY <1>2, <1>3, <1>4, <1>5, Zenon DEF Saine
<1>7. processus # "arrete"
  BY <1>1 DEF IInv, Actives
<1>8. \A e \in emis' : Emise(e)
  BY <1>1 DEF IInv
<1> QED BY <1>1, <1>6, <1>7, <1>8, Remplacee

LEMMA PartirIInv ==
  ASSUME IInv, NEW r \in Requetes, Partir(r)
  PROVE  IInv'
<1> DEFINE q == req[r]
           k == IF q.ctx = "nil" THEN "Canceled" ELSE q.ctx
           u == [q EXCEPT !.parti = TRUE, !.ctx = k]
<1>1. /\ q.etat \in {"lue", "generation"} /\ UNCHANGED varsRouted /\ emis' = emis
      /\ req' = [req EXCEPT ![r] = u]
  BY DEF Partir, Actives
<1>2. Saine(q)
  BY DEF IInv
<1>3. /\ DOMAIN u = DOMAIN q /\ u.etat = q.etat
      /\ u.genre = q.genre /\ u.demande = q.demande /\ u.index = q.index
      /\ u.age = q.age /\ u.attente = q.attente
      /\ u.corps = q.corps /\ u.recu = q.recu /\ u.ctx = k
  BY <1>2 DEF Saine, Attendue
<1>4. u.parti /\ u.parti \in BOOLEAN
  BY <1>2 DEF Saine, Attendue
<1> HIDE DEF u
<1>5. k \in {"nil", "DeadlineExceeded", "Canceled"} /\ (k = "DeadlineExceeded" => q.ctx = k)
  BY <1>2 DEF Saine
<1> HIDE DEF k
<1>6. q.etat = "generation" => Tenue(u)
  BY <1>2, <1>3, <1>5, Zenon DEF Saine, Tenue, DemandeValide
<1>7. Saine(u)
  BY <1>2, <1>3, <1>4, <1>5, <1>6, Zenon DEF Saine
<1>8. processus # "arrete"
  BY <1>1 DEF IInv, Actives
<1>9. \A e \in emis' : Emise(e)
  BY <1>1 DEF IInv
<1> QED BY <1>1, <1>7, <1>8, <1>9, Remplacee

LEMMA CorpsPerduIInv ==
  ASSUME IInv, NEW r \in Requetes, CorpsPerdu(r)
  PROVE  IInv'
<1>1. Repondre(r, req[r], 400, <<>>) /\ UNCHANGED varsRouted /\ emis' = emis
  BY DEF CorpsPerdu, fail
<1>2. \A e \in emis' : Emise(e)
  BY <1>1 DEF IInv
<1> QED BY <1>1, <1>2, RepondreIInv

----------------------------------------------------------------------------
\* What is in the hands of Generate, and what it may return.
LEMMA EnGeneration ==
  ASSUME IInv, NEW r \in Requetes, req[r].etat = "generation"
  PROVE  LET q == req[r]
             tout == Monde[version][q.demande]
         IN  /\ Saine(q) /\ Tenue(q) /\ DemandeValide(q)
             /\ processus # "arrete" /\ version \in Versions
             /\ tout.err \in {"nil", "ErrStartOutOfRange", "ErrNoLoopFound"}
             /\ tout.err # "nil" <=> tout.boucles = <<>>
             /\ DOMAIN tout.boucles = 1 .. Len(tout.boucles) /\ Len(tout.boucles) \in Nat
             /\ \A res \in Resultats(q) :
                  \/ res = tout
                  \/ res.err = q.ctx /\ q.ctx \in {"DeadlineExceeded", "Canceled"}
<1> DEFINE q == req[r]
           tout == Monde[version][q.demande]
<1>1. Saine(q) /\ Tenue(q) /\ DemandeValide(q)
  BY DEF IInv, Saine, Tenue
<1>2. processus # "arrete" /\ version \in Versions
  BY DEF IInv, Actives
<1>3. /\ tout.err \in {"nil", "ErrStartOutOfRange", "ErrNoLoopFound"}
      /\ tout.err # "nil" <=> tout.boucles = <<>>
      /\ tout.boucles \in Seq({tout.boucles[i] : i \in DOMAIN tout.boucles})
  BY <1>1, <1>2, MondeAssumption DEF DemandeValide
<1>4. ASSUME NEW res \in Resultats(q)
      PROVE  res = tout \/ (res.err = q.ctx /\ q.ctx \in {"DeadlineExceeded", "Canceled"})
  BY <1>1 DEF Resultats, Saine
<1>5. ASSUME NEW f, f \in Seq({f[i] : i \in DOMAIN f})
      PROVE  DOMAIN f = 1 .. Len(f) /\ Len(f) \in Nat
  BY <1>5
<1>6. DOMAIN tout.boucles = 1 .. Len(tout.boucles) /\ Len(tout.boucles) \in Nat
  BY <1>3, <1>5
<1> QED BY <1>1, <1>2, <1>3, <1>4, <1>6

\* FinPoster, as the rest reads it.
LEMMA FinPosterFaits ==
  ASSUME IInv, NEW r \in Requetes, FinPoster(r)
  PROVE  LET q == req[r]
             tout == Monde[version][q.demande]
         IN  /\ q.etat = "generation" /\ q.genre = "post" /\ UNCHANGED varsRouted
             /\ \/ /\ tout.err = "nil" /\ Repondre(r, q, 200, tout.boucles)
                   /\ emis' = emis \cup {[id |-> encodeID(q.demande, i - 1), version |-> version,
                                          boucle |-> tout.boucles[i]] : i \in DOMAIN tout.boucles}
                \/ /\ tout.err # "nil" /\ Repondre(r, q, Statut(tout.err), <<>>)
                   /\ emis' = emis
                \/ /\ q.ctx \in {"DeadlineExceeded", "Canceled"}
                   /\ Repondre(r, q, Statut(q.ctx), <<>>) /\ emis' = emis
<1> DEFINE q == req[r]
           tout == Monde[version][q.demande]
<1>1. q.etat = "generation" /\ q.genre = "post" /\ UNCHANGED varsRouted
  BY DEF FinPoster
<1>2. PICK res \in Resultats(q) :
       IF res.err = "nil"
       THEN /\ Repondre(r, q, 200, res.boucles)
            /\ emis' = emis \cup {[id |-> encodeID(q.demande, i - 1), version |-> version,
                                   boucle |-> res.boucles[i]] : i \in DOMAIN res.boucles}
       ELSE Repondre(r, q, Statut(res.err), <<>>) /\ emis' = emis
  BY DEF FinPoster, fail
<1>3. res = tout \/ (res.err = q.ctx /\ q.ctx \in {"DeadlineExceeded", "Canceled"})
  BY <1>1, EnGeneration
<1>4. CASE res = tout
  BY <1>1, <1>2, <1>4
<1>5. CASE res.err = q.ctx /\ q.ctx \in {"DeadlineExceeded", "Canceled"}
  <2>1. res.err # "nil"
    BY <1>5
  <2> QED BY <1>1, <1>2, <1>5, <2>1
<1> QED BY <1>3, <1>4, <1>5

LEMMA FinPosterIInv ==
  ASSUME IInv, NEW r \in Requetes, FinPoster(r)
  PROVE  IInv'
<1> DEFINE q == req[r]
           tout == Monde[version][q.demande]
           neufs == {[id |-> encodeID(q.demande, i - 1), version |-> version,
                      boucle |-> tout.boucles[i]] : i \in DOMAIN tout.boucles}
<1>1. /\ q.etat = "generation" /\ UNCHANGED varsRouted
      /\ \E s, l : Repondre(r, q, s, l)
      /\ emis' = emis \/ (tout.err = "nil" /\ emis' = emis \cup neufs)
  BY FinPosterFaits
<1>2. ASSUME tout.err = "nil", NEW e \in neufs PROVE Emise(e)
  <2>1. PICK i \in DOMAIN tout.boucles :
          e = [id |-> encodeID(q.demande, i - 1), version |-> version, boucle |-> tout.boucles[i]]
    OBVIOUS
  <2>2. /\ e.version = version /\ e.boucle = tout.boucles[i]
        /\ e.id = [demande |-> q.demande, index |-> i - 1]
    BY <2>1 DEF encodeID
  <2>3. DOMAIN e.id = {"demande", "index"} /\ e.id.demande = q.demande /\ e.id.index = i - 1
    BY <2>2
  <2>4. i \in Nat /\ i >= 1
    <3>1. DOMAIN tout.boucles = 1 .. Len(tout.boucles) /\ Len(tout.boucles) \in Nat
      BY <1>1, EnGeneration
    <3> QED BY <3>1
  <2>5. e.id.index + 1 = i /\ e.id.index >= 0
    BY <2>3, <2>4
  <2>6. version \in Versions /\ q.demande \in Demandes /\ Valide(q.demande)
    BY <1>1, EnGeneration DEF DemandeValide
  <2> QED BY <1>2, <2>2, <2>3, <2>5, <2>6 DEF Emise, DemandeValide
<1>3. \A e \in emis' : Emise(e)
  BY <1>1, <1>2 DEF IInv
<1> QED BY <1>1, <1>3, RepondreIInv

LEMMA FinOuvrirFaits ==
  ASSUME IInv, NEW r \in Requetes, FinOuvrir(r)
  PROVE  LET q == req[r]
             tout == Monde[version][q.demande]
         IN  /\ q.etat = "generation" /\ q.genre = "get" /\ UNCHANGED varsRouted /\ emis' = emis
             /\ \/ /\ q.index < Len(tout.boucles)
                   /\ Repondre(r, q, 200, <<tout.boucles[q.index + 1]>>)
                \/ q.index >= Len(tout.boucles) /\ Repondre(r, q, 404, <<>>)
                \/ q.ctx \in {"DeadlineExceeded", "Canceled"} /\ Repondre(r, q, 404, <<>>)
<1> DEFINE q == req[r]
           tout == Monde[version][q.demande]
<1>1. q.etat = "generation" /\ q.genre = "get" /\ UNCHANGED varsRouted /\ emis' = emis
  BY DEF FinOuvrir
<1>2. PICK res \in Resultats(q) :
       IF res.err # "nil" \/ q.index >= Len(res.boucles)
       THEN Repondre(r, q, 404, <<>>)
       ELSE Repondre(r, q, 200, <<res.boucles[q.index + 1]>>)
  BY DEF FinOuvrir, fail
<1>3. res = tout \/ (res.err = q.ctx /\ q.ctx \in {"DeadlineExceeded", "Canceled"})
  BY <1>1, EnGeneration
<1>4. CASE res = tout
  <2>1. /\ tout.err # "nil" => tout.boucles = <<>>
        /\ Len(tout.boucles) \in Nat /\ q.index \in Int /\ q.index >= 0
    BY <1>1, EnGeneration DEF Saine, DemandeValide
  <2>2. tout.boucles = <<>> => Len(tout.boucles) = 0
    OBVIOUS
  <2>3. CASE q.index >= Len(tout.boucles)
    BY <1>1, <1>2, <1>4, <2>3
  <2>4. CASE q.index < Len(tout.boucles)
    <3>1. tout.err = "nil" /\ ~(q.index >= Len(tout.boucles))
      BY <2>1, <2>2, <2>4
    <3> QED BY <1>1, <1>2, <1>4, <2>4, <3>1
  <2> QED BY <2>1, <2>3, <2>4
<1>5. CASE res.err = q.ctx /\ q.ctx \in {"DeadlineExceeded", "Canceled"}
  <2>1. res.err # "nil"
    BY <1>5
  <2> QED BY <1>1, <1>2, <1>5, <2>1
<1> QED BY <1>3, <1>4, <1>5

LEMMA FinOuvrirIInv ==
  ASSUME IInv, NEW r \in Requetes, FinOuvrir(r)
  PROVE  IInv'
<1>1. UNCHANGED varsRouted /\ emis' = emis /\ \E s, l : Repondre(r, req[r], s, l)
  BY FinOuvrirFaits
<1>2. \A e \in emis' : Emise(e)
  BY <1>1 DEF IInv
<1> QED BY <1>1, <1>2, RepondreIInv

\* The end of the process, whatever the reason.
LEMMA FinirIInv ==
  ASSUME IInv, NEW fin \in {"coupee", "perdue"}, Finir(fin)
  PROVE  IInv'
<1>1. /\ processus' = "arrete" /\ grace' = 0 /\ emis' = emis
      /\ req' = [r \in Requetes |-> IF r \in Actives THEN Quittee(fin) ELSE req[r]]
  BY DEF Finir, Quittee
<1>2. fin \in Finies /\ fin \notin {"lue", "generation"}
  BY DEF Finies
<1>3. Saine(Quittee(fin)) /\ Quittee(fin).etat = fin
  BY <1>2, QuitteeVide
<1>4. \A r \in Requetes : Saine(req'[r]) /\ req'[r].etat \notin {"lue", "generation"}
  BY <1>1, <1>2, <1>3 DEF IInv, Actives
<1>5. Actives' = {}
  BY <1>4 DEF Actives
<1>6. ASSUME NEW r \in Requetes PROVE Saine(req[r])'
  BY <1>4 DEF Saine
<1>7. grace' \in Nat /\ processus' \in {"arrete", "pret", "arret"} /\ DOMAIN req' = Requetes
  BY <1>1
<1> QED BY <1>1, <1>5, <1>6, <1>7 DEF IInv

\* The process, its requests left alone.
LEMMA RoutedIInv ==
  ASSUME IInv, Demarrer \/ Ecouter \/ Signaler \/ RecevoirSignal
  PROVE  IInv'
<1>1. req' = req /\ emis' = emis
  BY DEF Demarrer, Ecouter, Signaler, RecevoirSignal
<1>2. CASE Demarrer
  <2>1. processus = "arrete" /\ processus' = "pret" /\ version' \in Versions /\ grace' = 0
    BY <1>2 DEF Demarrer
  <2>2. \A r \in Requetes : req[r].etat # "generation"
    BY <2>1 DEF IInv, Actives
  <2>3. ASSUME NEW r \in Requetes PROVE Saine(req[r])'
    BY <1>1, <2>2 DEF IInv, Saine
  <2> QED BY <1>1, <2>1, <2>3 DEF IInv
<1>3. CASE Ecouter \/ Signaler
  <2>1. UNCHANGED <<processus, version, grace>>
    BY <1>3 DEF Ecouter, Signaler
  <2>2. ASSUME NEW r \in Requetes PROVE Saine(req[r])'
    BY <1>1, <2>1 DEF IInv, Saine, Tenue
  <2>3. Actives' = Actives
    BY <1>1 DEF Actives
  <2> QED BY <1>1, <2>1, <2>2, <2>3 DEF IInv
<1>4. CASE RecevoirSignal
  <2>1. processus = "pret" /\ processus' = "arret" /\ grace' = 0 /\ version' = version
    BY <1>4 DEF RecevoirSignal
  <2>2. ASSUME NEW r \in Requetes PROVE Saine(req[r])'
    <3>1. Saine(req[r]) /\ req'[r] = req[r]
      BY <1>1 DEF IInv
    <3>2. req[r].etat = "generation" => grace' <= req[r].recu + req[r].attente
      BY <2>1, <3>1 DEF Saine, Tenue
    <3> QED BY <2>1, <3>1, <3>2 DEF Saine, Tenue
  <2> QED BY <1>1, <2>1, <2>2 DEF IInv
<1> QED BY <1>2, <1>3, <1>4

\* A tick: the grace, the age and the wait go on together.
LEMMA TicSain ==
  ASSUME NEW q, Saine(q), NEW u, DOMAIN u = DOMAIN q,
         u.etat = q.etat, u.genre = q.genre, u.demande = q.demande, u.index = q.index,
         u.parti = q.parti, u.corps = q.corps, u.recu = q.recu, u.ctx = q.ctx,
         u.age = IF q.age > WriteTimeout THEN q.age ELSE q.age + 1,
         u.attente = IF q.etat = "generation" THEN q.attente + 1 ELSE q.attente,
         q.etat = "generation" => q.attente < TTL,
         processus' = processus, grace \in Nat,
         grace' = IF processus = "arret" THEN grace + 1 ELSE grace
  PROVE  Saine(u)'
<1>0. q.age \in Nat /\ q.attente \in Nat /\ TTL \in Nat /\ WriteTimeout \in Nat
  BY DureesAssumption DEF Saine
<1>1. /\ u.age \in Nat /\ u.age <= q.age + 1
      /\ u.attente \in Nat /\ (q.etat # "generation" => u.attente = q.attente)
      /\ (q.etat = "generation" => u.attente = q.attente + 1)
  BY <1>0
<1>2. ASSUME q.etat = "generation" PROVE Tenue(u)'
  <2>1. q.attente < TTL /\ Tenue(q) /\ u.attente = q.attente + 1
    BY <1>1, <1>2 DEF Saine
  <2>2. u.attente <= TTL
    BY <1>0, <2>1
  <2>3. u.corps \in Nat /\ u.age <= u.corps + u.attente
    BY <1>0, <1>1, <2>1 DEF Tenue
  <2>4. u.recu \in Nat /\ (processus' = "arret" => grace' <= u.recu + u.attente)
    BY <1>0, <2>1 DEF Tenue
  <2>5. u.ctx = "DeadlineExceeded" => u.attente >= TTL
    BY <1>0, <2>1 DEF Tenue
  <2>6. DemandeValide(u)
    BY <2>1 DEF Tenue, DemandeValide
  <2> QED BY <2>2, <2>3, <2>4, <2>5, <2>6, Zenon DEF Tenue, DemandeValide
<1>3. q.etat = "lue" => u.attente = 0
  BY <1>1 DEF Saine
<1> QED BY <1>1, <1>2, <1>3, Zenon DEF Saine

LEMMA PasserIInv ==
  ASSUME IInv, Passer
  PROVE  IInv'
<1>1. UNCHANGED <<processus, version, emis>> /\ grace \in Nat
      /\ grace' = IF processus = "arret" THEN grace + 1 ELSE grace
  BY DEF IInv, Passer
<1>2. ASSUME NEW r \in Requetes
      PROVE  Saine(req[r])' /\ req'[r].etat = req[r].etat
  <2>1. Saine(req[r])
    BY DEF IInv
  <2>2. CASE r \notin Actives
    <3>1. req'[r] = req[r] /\ req[r].etat # "generation"
      BY <2>2 DEF Passer, Actives
    <3> QED BY <2>1, <3>1 DEF Saine
  <2>3. CASE r \in Actives
    <3>1. PICK q : q = req[r]
      OBVIOUS
    <3>2. PICK u : u = req'[r]
      OBVIOUS
    <3>3. u = [q EXCEPT !.age = IF @ > WriteTimeout THEN @ ELSE @ + 1,
                        !.attente = IF q.etat = "generation" THEN @ + 1 ELSE @]
      BY <2>3, <3>1, <3>2 DEF Passer
    <3>4. Saine(q) /\ DOMAIN q = DOMAIN Attendue
      BY <2>1, <3>1 DEF Saine
    <3>5. /\ DOMAIN u = DOMAIN q
          /\ u.etat = q.etat /\ u.genre = q.genre /\ u.demande = q.demande /\ u.index = q.index
          /\ u.parti = q.parti /\ u.corps = q.corps /\ u.recu = q.recu /\ u.ctx = q.ctx
          /\ u.age = (IF q.age > WriteTimeout THEN q.age ELSE q.age + 1)
          /\ u.attente = IF q.etat = "generation" THEN q.attente + 1 ELSE q.attente
      BY <3>3, <3>4 DEF Attendue
    <3>6. q.etat = "generation" => q.attente < TTL
      BY <2>3, <3>1 DEF Passer
    <3>7. Saine(u)'
      BY <1>1, <3>4, <3>5, <3>6, TicSain
    <3> QED BY <3>1, <3>2, <3>5, <3>7
  <2> QED BY <2>2, <2>3
<1>3. Actives' = Actives
  BY <1>2 DEF Actives
<1>4. DOMAIN req' = Requetes
  BY DEF Passer
<1>5. grace' \in Nat
  BY <1>1
<1> QED BY <1>1, <1>2, <1>3, <1>4, <1>5 DEF IInv

LEMMA NextIInv == IInv /\ [Next]_vars => IInv'
<1> SUFFICES ASSUME IInv, [Next]_vars PROVE IInv'
  OBVIOUS
<1>1. CASE Demarrer \/ Ecouter \/ Signaler \/ RecevoirSignal
  BY <1>1, RoutedIInv
<1>2. CASE FinArret \/ Planter
  BY <1>2, FinirIInv DEF FinArret, Planter
<1>3. CASE Passer
  BY <1>3, PasserIInv
<1>4. CASE \E r \in Requetes : Client(r) \/ Handler(r)
  <2>1. PICK r \in Requetes : Client(r) \/ Handler(r)
    BY <1>4
  <2>2. CASE Client(r)
    BY <2>2, PosterIInv, OuvrirIInv, PartirIInv DEF Client
  <2>3. CASE LireCorps(r) \/ LireId(r)
    BY <2>3, DecoderIInv DEF LireCorps, LireId
  <2>4. CASE CorpsPerdu(r) \/ Echoir(r) \/ FinPoster(r) \/ FinOuvrir(r)
    BY <2>4, CorpsPerduIInv, EchoirIInv, FinPosterIInv, FinOuvrirIInv
  <2> QED BY <2>1, <2>2, <2>3, <2>4 DEF Handler
<1>5. CASE UNCHANGED vars
  <2>1. Actives' = Actives
    BY <1>5 DEF vars, Actives
  <2>2. ASSUME NEW r \in Requetes PROVE Saine(req[r])'
    BY <1>5 DEF vars, varsRouted, IInv, Saine, Tenue
  <2> QED BY <1>5, <2>1, <2>2 DEF vars, varsRouted, IInv
<1> QED BY <1>1, <1>2, <1>3, <1>4, <1>5 DEF Next, Routed, Exterieur

\* The inductive invariant of the service: a request that Generate serves was
\* found valid and its wait is bounded; what was answered stays what the
\* artefact it was answered on says (handler.go, main.go).
THEOREM Invariant == Spec => []IInv
<1>1. Init => IInv
  BY InitIInv
<1>2. IInv /\ [Next]_vars => IInv'
  BY NextIInv
<1> QED BY <1>1, <1>2, PTL DEF Spec

----------------------------------------------------------------------------
\* What may be answered to request q: status s and loops l.
Verdict(q, s, l) ==
  LET tout == Monde[version][q.demande] IN
  \/ q.etat = "lue" /\ (q.parti \/ ~DemandeValide(q)) /\ s = 400
  \/ q.etat = "generation" /\ q.ctx \in {"DeadlineExceeded", "Canceled"}
       /\ s = IF q.genre = "post" THEN Statut(q.ctx) ELSE 404
  \/ q.etat = "generation" /\ q.genre = "post" /\ tout.err = "nil" /\ s = 200 /\ l = tout.boucles
  \/ q.etat = "generation" /\ q.genre = "post" /\ tout.err # "nil" /\ s = Statut(tout.err)
  \/ q.etat = "generation" /\ q.genre = "get" /\ q.index < Len(tout.boucles)
       /\ s = 200 /\ l = <<tout.boucles[q.index + 1]>>
  \/ q.etat = "generation" /\ q.genre = "get" /\ q.index >= Len(tout.boucles) /\ s = 404

\* What a step makes of a request.
Reste(r) == req'[r].etat = req[r].etat \/ req'[r].etat = "lue"
Engage(r) == req[r].etat = "lue" /\ req'[r].etat = "generation" /\ DemandeValide(req[r])
Coupe(r) == req'[r].etat = "coupee" /\ processus = "arret" /\ grace >= Grace
Perd(r) == req'[r].etat = "perdue"
Repond(r) ==
  /\ r \in Actives
  /\ req'[r].etat = Issue(req[r])
  /\ Verdict(req[r], req'[r].statut, req'[r].boucles)

LEMMA RepondreRepond ==
  ASSUME IInv, NEW r \in Requetes, r \in Actives, NEW p, p.age = req[r].age, NEW s, NEW l,
         Repondre(r, p, s, l), Verdict(req[r], s, l)
  PROVE  Repond(r)
<1>1. /\ req' = [req EXCEPT ![r] = Rendue(Issue(p), s, l)]
      /\ Rendue(Issue(p), s, l).etat = Issue(p)
      /\ Rendue(Issue(p), s, l).statut = s
      /\ Rendue(Issue(p), s, l).boucles = l
  BY RepondreFaits
<1>2. Issue(p) = Issue(req[r])
  BY DEF Issue
<1>3. req'[r] = Rendue(Issue(p), s, l)
  BY <1>1 DEF IInv
<1> QED BY <1>1, <1>2, <1>3 DEF Repond

LEMMA HandlerPas ==
  ASSUME IInv, NEW r \in Requetes, Handler(r)
  PROVE  Reste(r) \/ Engage(r) \/ Repond(r)
<1> DEFINE q == req[r]
           tout == Monde[version][q.demande]
<1>0. Saine(q) /\ DOMAIN req = Requetes
  BY DEF IInv
<1>1. CASE LireCorps(r) \/ LireId(r)
  <2> DEFINE c == req[r].age
             g == IF processus = "arret" THEN grace ELSE 0
  <2>1. /\ q.etat = "lue"
        /\ \/ DemandeValide(q) /\ req' = [req EXCEPT ![r] = Engagee(q, c, g)]
           \/ ~DemandeValide(q) /\ Repondre(r, Reprise(q, c, g), 400, <<>>)
    BY <1>1, DecoderFaits DEF LireCorps, LireId
  <2>2. CASE DemandeValide(q) /\ req' = [req EXCEPT ![r] = Engagee(q, c, g)]
    <3>1. Engagee(q, c, g).etat = "generation"
      BY <1>0 DEF Saine, Attendue, Engagee
    <3> QED BY <1>0, <2>1, <2>2, <3>1 DEF Engage
  <2>3. CASE ~DemandeValide(q) /\ Repondre(r, Reprise(q, c, g), 400, <<>>)
    <3>1. Reprise(q, c, g).age = q.age
      BY <1>0 DEF Saine, Attendue, Reprise
    <3>2. Verdict(q, 400, <<>>) /\ r \in Actives
      BY <2>1, <2>3 DEF Verdict, Actives
    <3>3. Repond(r)
      BY <2>3, <3>1, <3>2, RepondreRepond
    <3> QED BY <3>3
  <2> QED BY <2>1, <2>2, <2>3
<1>2. CASE CorpsPerdu(r)
  <2>1. q.etat = "lue" /\ q.parti /\ Repondre(r, q, 400, <<>>)
    BY <1>2 DEF CorpsPerdu, fail
  <2>2. Verdict(q, 400, <<>>) /\ r \in Actives
    BY <2>1 DEF Verdict, Actives
  <2> QED BY <2>1, <2>2, RepondreRepond
<1>3. CASE Echoir(r)
  <2>1. req'[r] = [q EXCEPT !.ctx = "DeadlineExceeded"]
    BY <1>0, <1>3 DEF Echoir
  <2> QED BY <1>0, <2>1 DEF Saine, Attendue, Reste
<1>4. CASE FinPoster(r)
  <2>1. /\ q.etat = "generation" /\ q.genre = "post"
        /\ \/ tout.err = "nil" /\ Repondre(r, q, 200, tout.boucles)
           \/ tout.err # "nil" /\ Repondre(r, q, Statut(tout.err), <<>>)
           \/ q.ctx \in {"DeadlineExceeded", "Canceled"} /\ Repondre(r, q, Statut(q.ctx), <<>>)
    BY <1>4, FinPosterFaits
  <2>2. r \in Actives
    BY <2>1 DEF Actives
  <2>3. CASE tout.err = "nil" /\ Repondre(r, q, 200, tout.boucles)
    <3>1. Verdict(q, 200, tout.boucles)
      BY <2>1, <2>3 DEF Verdict
    <3> QED BY <2>2, <2>3, <3>1, RepondreRepond
  <2>4. CASE tout.err # "nil" /\ Repondre(r, q, Statut(tout.err), <<>>)
    <3>1. Verdict(q, Statut(tout.err), <<>>)
      BY <2>1, <2>4 DEF Verdict
    <3> QED BY <2>2, <2>4, <3>1, RepondreRepond
  <2>5. CASE q.ctx \in {"DeadlineExceeded", "Canceled"} /\ Repondre(r, q, Statut(q.ctx), <<>>)
    <3>1. Verdict(q, Statut(q.ctx), <<>>)
      BY <2>1, <2>5 DEF Verdict
    <3> QED BY <2>2, <2>5, <3>1, RepondreRepond
  <2> QED BY <2>1, <2>3, <2>4, <2>5
<1>5. CASE FinOuvrir(r)
  <2>1. /\ q.etat = "generation" /\ q.genre = "get"
        /\ \/ q.index < Len(tout.boucles) /\ Repondre(r, q, 200, <<tout.boucles[q.index + 1]>>)
           \/ q.index >= Len(tout.boucles) /\ Repondre(r, q, 404, <<>>)
           \/ q.ctx \in {"DeadlineExceeded", "Canceled"} /\ Repondre(r, q, 404, <<>>)
    BY <1>5, FinOuvrirFaits
  <2>2. r \in Actives
    BY <2>1 DEF Actives
  <2>3. CASE q.index < Len(tout.boucles) /\ Repondre(r, q, 200, <<tout.boucles[q.index + 1]>>)
    <3>1. Verdict(q, 200, <<tout.boucles[q.index + 1]>>)
      BY <2>1, <2>3 DEF Verdict
    <3> QED BY <2>2, <2>3, <3>1, RepondreRepond
  <2>4. CASE q.index >= Len(tout.boucles) /\ Repondre(r, q, 404, <<>>)
    <3>1. Verdict(q, 404, <<>>)
      BY <2>1, <2>4 DEF Verdict
    <3> QED BY <2>2, <2>4, <3>1, RepondreRepond
  <2>5. CASE q.ctx \in {"DeadlineExceeded", "Canceled"} /\ Repondre(r, q, 404, <<>>)
    <3>1. Verdict(q, 404, <<>>)
      BY <2>1, <2>5 DEF Verdict
    <3> QED BY <2>2, <2>5, <3>1, RepondreRepond
  <2> QED BY <2>1, <2>3, <2>4, <2>5
<1> QED BY <1>1, <1>2, <1>3, <1>4, <1>5 DEF Handler

\* A step of one request leaves the others alone.
LEMMA AutreReste ==
  ASSUME IInv, NEW r \in Requetes, NEW s \in Requetes, s # r, Client(s) \/ Handler(s)
  PROVE  Reste(r)
<1>1. \E v : req' = [req EXCEPT ![s] = v]
  <2>1. Poster(s) \/ Ouvrir(s) \/ Partir(s) \/ Echoir(s) => \E v : req' = [req EXCEPT ![s] = v]
    BY DEF Poster, Ouvrir, Nouvelle, Partir, Echoir
  <2>2. \A q, t, l : Repondre(s, q, t, l) => \E v : req' = [req EXCEPT ![s] = v]
    BY DEF Repondre
  <2>3. LireCorps(s) \/ LireId(s) \/ CorpsPerdu(s) => \E v : req' = [req EXCEPT ![s] = v]
    BY <2>2, DecoderFaits DEF LireCorps, LireId, CorpsPerdu, fail
  <2>4. FinPoster(s) \/ FinOuvrir(s) => \E v : req' = [req EXCEPT ![s] = v]
    BY <2>2, FinPosterFaits, FinOuvrirFaits
  <2> QED BY <2>1, <2>3, <2>4 DEF Client, Handler
<1>2. req'[r] = req[r]
  BY <1>1 DEF IInv
<1> QED BY <1>2 DEF Reste

LEMMA Pas ==
  ASSUME IInv, [Next]_vars, NEW r \in Requetes
  PROVE  Reste(r) \/ Engage(r) \/ Coupe(r) \/ Perd(r) \/ Repond(r)
<1>0. Saine(req[r]) /\ DOMAIN req = Requetes
  BY DEF IInv
<1>1. CASE req' = req
  BY <1>1 DEF Reste
<1>2. ASSUME NEW fin, Finir(fin)
      PROVE  req'[r].etat = req[r].etat \/ (r \in Actives /\ req'[r].etat = fin)
  <2>1. req'[r] = IF r \in Actives THEN Quittee(fin) ELSE req[r]
    BY <1>2 DEF Finir, Quittee
  <2>2. Quittee(fin).etat = fin
    BY DEF Quittee, Attendue
  <2> QED BY <2>1, <2>2
<1>3. CASE FinArret
  <2>1. /\ processus = "arret" /\ (Actives = {} \/ grace >= Grace)
        /\ req'[r].etat = req[r].etat \/ (r \in Actives /\ req'[r].etat = "coupee")
    BY <1>2, <1>3 DEF FinArret
  <2> QED BY <2>1 DEF Reste, Coupe
<1>4. CASE Planter
  <2>1. req'[r].etat = req[r].etat \/ req'[r].etat = "perdue"
    BY <1>2, <1>4 DEF Planter
  <2> QED BY <2>1 DEF Reste, Perd
<1>5. CASE Passer
  <2>1. req'[r] = req[r] \/ \E a, t : req'[r] = [req[r] EXCEPT !.age = a, !.attente = t]
    BY <1>5 DEF Passer
  <2> QED BY <1>0, <2>1 DEF Saine, Attendue, Reste
<1>6. CASE Handler(r)
  BY <1>6, HandlerPas
<1>7. CASE Client(r)
  <2>1. CASE Poster(r)
    <3>1. PICK d : req'[r] = [Attendue EXCEPT !.etat = "lue", !.demande = d]
      BY <1>0, <2>1 DEF Poster, Nouvelle
    <3> QED BY <3>1 DEF Reste, Attendue
  <2>2. CASE Ouvrir(r)
    <3>1. PICK id : req'[r] = [Attendue EXCEPT !.etat = "lue", !.genre = "get", !.demande = id.demande,
                                               !.index = id.index]
      BY <1>0, <2>2 DEF Ouvrir, Nouvelle
    <3> QED BY <3>1 DEF Reste, Attendue
  <2>3. CASE Partir(r)
    <3>1. PICK k : req'[r] = [req[r] EXCEPT !.parti = TRUE, !.ctx = k]
      BY <1>0, <2>3 DEF Partir
    <3> QED BY <1>0, <3>1 DEF Saine, Attendue, Reste
  <2> QED BY <1>7, <2>1, <2>2, <2>3 DEF Client
<1>8. CASE \E s \in Requetes : s # r /\ (Client(s) \/ Handler(s))
  BY <1>8, AutreReste
<1>9. CASE Demarrer \/ Ecouter \/ Signaler \/ RecevoirSignal \/ UNCHANGED vars
  BY <1>1, <1>9 DEF Demarrer, Ecouter, Signaler, RecevoirSignal, vars
<1> QED BY <1>3, <1>4, <1>5, <1>6, <1>7, <1>8, <1>9 DEF Next, Routed, Exterieur

----------------------------------------------------------------------------
\* What an answer that somebody waits for can be: the deadline's, or the truth.
LEMMA Attendu ==
  ASSUME IInv, [Next]_vars, NEW r \in Requetes, Repondue(r)
  PROVE  /\ Verdict(req[r], req'[r].statut, req'[r].boucles)
         /\ Saine(req[r])
         /\ req[r].ctx # "Canceled"
         /\ req[r].etat = "lue" => ~DemandeValide(req[r])
         /\ req[r].etat = "generation" /\ req[r].ctx = "DeadlineExceeded" => Expire(r)
<1>1. req[r].etat \in {"lue", "generation"} /\ ~req[r].parti /\ req'[r].etat = "rendue"
  BY DEF Repondue, Actives
<1>2. ~Reste(r) /\ ~Engage(r) /\ ~Coupe(r) /\ ~Perd(r)
  BY <1>1 DEF Reste, Engage, Coupe, Perd
<1>3. Verdict(req[r], req'[r].statut, req'[r].boucles)
  BY <1>2, Pas DEF Repond
<1>4. Saine(req[r]) /\ req[r].ctx # "Canceled"
  BY <1>1 DEF IInv, Saine
<1>5. req[r].etat = "lue" => ~DemandeValide(req[r])
  BY <1>1, <1>3 DEF Verdict
<1>6. req[r].etat = "generation" /\ req[r].ctx = "DeadlineExceeded" => Expire(r)
  BY <1>4 DEF Saine, Tenue, Expire
<1> QED BY <1>3, <1>4, <1>5, <1>6

\* For any world and any requests, an id replayed on the artefact it was issued
\* on gives that very loop, or its own deadline is over (handler.go, encodeID,
\* decodeID and getLoop).
THEOREM RejeuCorrect == Spec => IdRejouable
<1> DEFINE A == \A r \in Requetes, e \in emis :
       (/\ Repondue(r) /\ req[r].genre = "get"
        /\ e.id = [demande |-> req[r].demande, index |-> req[r].index] /\ e.version = version) =>
         \/ req'[r].statut = 200 /\ req'[r].boucles = <<e.boucle>>
         \/ req'[r].statut = 404 /\ Expire(r)
<1>1. IInv /\ [Next]_vars => A
  <2> SUFFICES ASSUME IInv, [Next]_vars, NEW r \in Requetes, NEW e \in emis,
                      Repondue(r), req[r].genre = "get",
                      e.id = [demande |-> req[r].demande, index |-> req[r].index],
                      e.version = version
               PROVE  \/ req'[r].statut = 200 /\ req'[r].boucles = <<e.boucle>>
                      \/ req'[r].statut = 404 /\ Expire(r)
    OBVIOUS
  <2> DEFINE q == req[r]
             tout == Monde[version][q.demande]
  <2>1. /\ Verdict(q, req'[r].statut, req'[r].boucles) /\ Saine(q) /\ q.ctx # "Canceled"
        /\ q.etat = "lue" => ~DemandeValide(q)
        /\ q.etat = "generation" /\ q.ctx = "DeadlineExceeded" => Expire(r)
    BY Attendu
  <2>2. e.id.demande = q.demande /\ e.id.index = q.index
    OBVIOUS
  <2>3. /\ DemandeValide(q)
        /\ q.index + 1 \in DOMAIN tout.boucles /\ e.boucle = tout.boucles[q.index + 1]
    BY <2>2 DEF IInv, Emise, DemandeValide
  <2>4. q.etat = "generation"
    BY <2>1, <2>3 DEF Repondue, Actives
  <2>5. q.index < Len(tout.boucles)
    <3>1. DOMAIN tout.boucles = 1 .. Len(tout.boucles) /\ Len(tout.boucles) \in Nat
      BY <2>4, EnGeneration
    <3>2. q.index \in Int
      BY <2>1 DEF Saine
    <3> QED BY <2>3, <3>1, <3>2
  <2>6. q.index \in Int /\ Len(tout.boucles) \in Nat
    BY <2>1, <2>4, EnGeneration DEF Saine
  <2>7. ~(q.index >= Len(tout.boucles))
    BY <2>5, <2>6
  <2>8. \/ q.ctx = "DeadlineExceeded" /\ req'[r].statut = 404
        \/ req'[r].statut = 200 /\ req'[r].boucles = <<tout.boucles[q.index + 1]>>
    BY <2>1, <2>4, <2>7 DEF Verdict
  <2> QED BY <2>1, <2>3, <2>4, <2>8
<1>2. Spec => []IInv
  BY Invariant
<1> QED BY <1>1, <1>2, PTL DEF Spec, IdRejouable

\* For any world and any requests, who still waits is told the status its
\* request calls for, and nothing replaces it but the deadline, once over
\* (handler.go, postLoops and getLoop).
THEOREM ReponseCorrecte == Spec => ReponseJuste
<1> DEFINE A == \A r \in Requetes :
      LET q == req[r]
          rendue == req'[r]
          valide == q.demande # Illisible /\ Valide(q.demande) /\ q.index >= 0
          tout == Monde[version][q.demande]
      IN
      /\ rendue.etat = "generation" => valide
      /\ Repondue(r) /\ ~ valide => rendue.statut = 400
      /\ Repondue(r) /\ valide =>
           \/ Expire(r) /\ rendue.statut = (IF q.genre = "post" THEN 504 ELSE 404)
           \/ q.genre = "post" /\ tout.err = "ErrStartOutOfRange" /\ rendue.statut = 400
           \/ q.genre = "post" /\ tout.err = "ErrNoLoopFound" /\ rendue.statut = 404
           \/ q.genre = "post" /\ tout.err = "nil" /\ rendue.statut = 200 /\ rendue.boucles = tout.boucles
           \/ q.genre = "get" /\ q.index < Len(tout.boucles) /\ rendue.statut = 200
                /\ rendue.boucles = <<tout.boucles[q.index + 1]>>
           \/ q.genre = "get" /\ q.index >= Len(tout.boucles) /\ rendue.statut = 404
<1>1. IInv /\ [Next]_vars => A
  <2> SUFFICES ASSUME IInv, [Next]_vars, NEW r \in Requetes
               PROVE  A!(r)
    BY Zenon
  <2> DEFINE q == req[r]
             rendue == req'[r]
             valide == q.demande # Illisible /\ Valide(q.demande) /\ q.index >= 0
             tout == Monde[version][q.demande]
  <2>0. Saine(q)
    BY DEF IInv
  <2>1. valide <=> DemandeValide(q)
    BY <2>0, MondeAssumption DEF Saine, DemandeValide
  <2> HIDE DEF valide
  <2>2. rendue.etat = "generation" => valide
    <3>1. ~Coupe(r) \/ rendue.etat # "generation"
      BY DEF Coupe
    <3>2. ~Perd(r) \/ rendue.etat # "generation"
      BY DEF Perd
    <3>3. ~Repond(r) \/ rendue.etat # "generation"
      BY DEF Repond, Issue
    <3>4. Reste(r) /\ rendue.etat = "generation" => DemandeValide(q)
      BY <2>0 DEF Reste, Saine, Tenue
    <3>5. Engage(r) => DemandeValide(q)
      BY DEF Engage
    <3> QED BY <2>1, <3>1, <3>2, <3>3, <3>4, <3>5, Pas
  <2>3. ASSUME Repondue(r), ~valide PROVE rendue.statut = 400
    <3>1. q.etat # "generation"
      BY <2>0, <2>1, <2>3 DEF Saine, Tenue
    <3> QED BY <2>3, <3>1, Attendu DEF Verdict
  <2>4. ASSUME Repondue(r), valide
        PROVE  \/ Expire(r) /\ rendue.statut = (IF q.genre = "post" THEN 504 ELSE 404)
               \/ q.genre = "post" /\ tout.err = "ErrStartOutOfRange" /\ rendue.statut = 400
               \/ q.genre = "post" /\ tout.err = "ErrNoLoopFound" /\ rendue.statut = 404
               \/ q.genre = "post" /\ tout.err = "nil" /\ rendue.statut = 200
                    /\ rendue.boucles = tout.boucles
               \/ q.genre = "get" /\ q.index < Len(tout.boucles) /\ rendue.statut = 200
                    /\ rendue.boucles = <<tout.boucles[q.index + 1]>>
               \/ q.genre = "get" /\ q.index >= Len(tout.boucles) /\ rendue.statut = 404
    <3>1. /\ Verdict(q, rendue.statut, rendue.boucles) /\ q.ctx # "Canceled"
          /\ q.etat = "lue" => ~DemandeValide(q)
          /\ q.etat = "generation" /\ q.ctx = "DeadlineExceeded" => Expire(r)
      BY <2>4, Attendu
    <3>2. q.etat = "generation"
      BY <2>1, <2>4, <3>1 DEF Repondue, Actives
    <3>3. tout.err \in {"nil", "ErrStartOutOfRange", "ErrNoLoopFound"}
      BY <3>2, EnGeneration
    <3>4. /\ Statut("ErrStartOutOfRange") = 400 /\ Statut("ErrNoLoopFound") = 404
          /\ Statut("DeadlineExceeded") = 504
      BY DEF Statut
    <3>5. CASE q.ctx \in {"DeadlineExceeded", "Canceled"}
                 /\ rendue.statut = IF q.genre = "post" THEN Statut(q.ctx) ELSE 404
      BY <3>1, <3>2, <3>4, <3>5
    <3>6. CASE q.genre = "post" /\ tout.err = "nil" /\ rendue.statut = 200
                 /\ rendue.boucles = tout.boucles
      BY <3>6
    <3>7. CASE q.genre = "post" /\ tout.err # "nil" /\ rendue.statut = Statut(tout.err)
      BY <3>3, <3>4, <3>7
    <3>8. CASE q.genre = "get" /\ q.index < Len(tout.boucles)
                 /\ rendue.statut = 200 /\ rendue.boucles = <<tout.boucles[q.index + 1]>>
      BY <3>8
    <3>9. CASE q.genre = "get" /\ q.index >= Len(tout.boucles) /\ rendue.statut = 404
      BY <3>9
    <3> QED BY <3>1, <3>2, <3>5, <3>6, <3>7, <3>8, <3>9 DEF Verdict
  <2> QED BY <2>2, <2>3, <2>4 DEF valide
<1>2. Spec => []IInv
  BY Invariant
<1> QED BY <1>1, <1>2, PTL DEF Spec, ReponseJuste

\* For any delays, Shutdown cuts only those whose body came less than requestTTL
\* before its own deadline, and WriteTimeout mutes only those whose body took
\* all but requestTTL of it (main.go, run).
THEOREM CoupeCorrecte == Spec => AucuneCoupee
<1> DEFINE A == \A r \in Actives :
       /\ req'[r].etat = "coupee" => req[r].recu = -1 \/ req[r].recu >= Grace - TTL
       /\ req'[r].etat = "muette" =>
            (IF req[r].corps = -1 THEN req[r].age ELSE req[r].corps) > WriteTimeout - TTL
<1>1. IInv /\ [Next]_vars => A
  <2> SUFFICES ASSUME IInv, [Next]_vars, NEW r \in Actives
               PROVE  A!(r)
    BY Zenon
  <2> DEFINE q == req[r]
  <2>0. r \in Requetes /\ q.etat \in {"lue", "generation"} /\ Saine(q)
    BY DEF IInv, Actives
  <2>1. TTL \in Nat /\ Grace \in Nat /\ WriteTimeout \in Nat /\ q.age \in Nat /\ q.attente \in Nat
        /\ grace \in Nat
    BY <2>0, DureesAssumption DEF Saine, IInv
  <2>2. ASSUME req'[r].etat = "coupee" PROVE q.recu = -1 \/ q.recu >= Grace - TTL
    <3>1. Coupe(r)
      BY <2>0, <2>2, Pas DEF Reste, Engage, Perd, Repond, Issue
    <3>2. q.etat = "lue" => q.recu = -1
      BY <2>0 DEF Saine
    <3>3. q.etat = "generation" => q.recu >= Grace - TTL
      <4>1. q.etat = "generation" => q.recu \in Nat /\ q.attente <= TTL /\ grace <= q.recu + q.attente
        BY <2>0, <3>1 DEF Saine, Tenue, Coupe
      <4> QED BY <2>1, <3>1, <4>1 DEF Coupe
    <3> QED BY <2>0, <3>2, <3>3
  <2>3. ASSUME req'[r].etat = "muette"
        PROVE  (IF q.corps = -1 THEN q.age ELSE q.corps) > WriteTimeout - TTL
    <3>1. Repond(r)
      BY <2>0, <2>3, Pas DEF Reste, Engage, Coupe, Perd
    <3>2. q.age > WriteTimeout
      BY <2>3, <3>1 DEF Repond, Issue
    <3>3. CASE q.etat = "lue"
      <4>1. q.corps = -1
        BY <2>0, <3>3 DEF Saine
      <4> QED BY <2>1, <3>2, <4>1
    <3>4. CASE q.etat = "generation"
      <4>1. q.corps \in Nat /\ q.age <= q.corps + q.attente /\ q.attente <= TTL
        BY <2>0, <3>4 DEF Saine, Tenue
      <4> QED BY <2>1, <3>2, <4>1
    <3> QED BY <2>0, <3>3, <3>4
  <2> QED BY <2>2, <2>3
<1>2. Spec => []IInv
  BY Invariant
<1> QED BY <1>1, <1>2, PTL DEF Spec, AucuneCoupee
=============================================================================
