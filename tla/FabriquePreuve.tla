--------------------------- MODULE FabriquePreuve ----------------------------
(***************************************************************************)
(* What routed serves is within its slices, whatever bytes graph.bin holds *)
(* and whenever they change, and no edge of it costs less than its length. *)
(* The builder osmsource fills keeps the contract Build relies on, the     *)
(* words Write makes of it are whole and are the network of the extract,   *)
(* and nothing else is served from a sound disk.                           *)
(***************************************************************************)
EXTENDS Fabrique, FiniteSetTheorems, TLAPS

----------------------------------------------------------------------------
(* The artefact. *)

\* Every slice ends before the artefact does.
LEMMA Place ==
  ASSUME NEW n \in Nat, NEW m \in Nat, NEW o \in Nat, NEW l, l = 7 + 2 * n + 3 * m + o
  PROVE  /\ \A k \in 0 .. n : 6 + n + k \in 1 .. l
         /\ \A e \in 0 .. m - 1 : /\ 8 + 2 * n + e \in 1 .. l
                                /\ 8 + 2 * n + m + e \in 1 .. l
                                /\ 8 + 2 * n + 2 * m + e \in 1 .. l
  OBVIOUS

\* The slices of a complete artefact are where the layout says, and hold words.
LEMMA Disposition ==
  ASSUME NEW w \in Seq(Nat), Complet(w)
  PROVE  /\ numNodes(w) \in Nat /\ numEdges(w) \in Nat
         /\ \A k \in 0 .. numNodes(w) : offsets(w)[k] \in Nat
         /\ \A e \in 0 .. numEdges(w) - 1 : /\ targets(w)[e] \in Nat /\ reverse(w)[e] \in Nat
                                         /\ attrs(w)[e] \in Nat
<1>1. /\ \A j \in 1 .. Len(w) : w[j] \in Nat
      /\ Len(w) \in Nat
  OBVIOUS
<1>2. numNodes(w) \in Nat
  BY <1>1 DEF Complet, EnTeteLu, numNodes
<1>3. numEdges(w) \in Nat
  BY <1>1, <1>2 DEF Complet, EnTeteLu, numEdges
<1>4. octets(numNodes(w)) \in Nat
  BY <1>2 DEF octets
<1>5. Len(w) = 7 + 2 * numNodes(w) + 3 * numEdges(w) + octets(numNodes(w))
  BY DEF Complet, longueur
<1>6. \A k \in 0 .. numNodes(w) : offsets(w)[k] \in Nat
  <2>1. ASSUME NEW k \in 0 .. numNodes(w) PROVE offsets(w)[k] \in Nat
    <3>1. 6 + numNodes(w) + k \in 1 .. Len(w)
      BY <1>1, <1>2, <1>3, <1>4, <1>5, Place
    <3>2. offsets(w)[k] = w[6 + numNodes(w) + k]
      BY DEF offsets
    <3> QED  BY <1>1, <3>1, <3>2
  <2> QED  BY <2>1
<1>7. ASSUME NEW e \in 0 .. numEdges(w) - 1
      PROVE  targets(w)[e] \in Nat /\ reverse(w)[e] \in Nat /\ attrs(w)[e] \in Nat
  <2>1. /\ 8 + 2 * numNodes(w) + e \in 1 .. Len(w)
        /\ 8 + 2 * numNodes(w) + numEdges(w) + e \in 1 .. Len(w)
        /\ 8 + 2 * numNodes(w) + 2 * numEdges(w) + e \in 1 .. Len(w)
    BY <1>1, <1>2, <1>3, <1>4, <1>5, Place
  <2>2. /\ targets(w)[e] = w[8 + 2 * numNodes(w) + e]
        /\ attrs(w)[e] = w[8 + 2 * numNodes(w) + numEdges(w) + e]
        /\ reverse(w)[e] = w[8 + 2 * numNodes(w) + 2 * numEdges(w) + e]
    BY DEF targets, attrs, reverse
  <2> QED  BY <1>1, <2>1, <2>2
<1> QED  BY <1>2, <1>3, <1>6, <1>7

\* A refusal, and the end of routed, forget everything.
LEMMA RefuserGarde ==
  ASSUME IInvArtefact, Refuser
  PROVE  IInvArtefact'
  BY DEF IInvArtefact, Refuser

\* What is written while routed reads does not touch what it has read.
LEMMA EnvironnementGarde ==
  ASSUME IInvArtefact, Environnement
  PROVE  IInvArtefact'
<1>1. CASE Creer
  BY <1>1 DEF IInvArtefact, Creer
<1>2. ASSUME NEW mot \in Nat, Ecrire(mot) PROVE IInvArtefact'
  BY <1>2 DEF IInvArtefact, Ecrire
<1>3. ASSUME NEW mot \in Nat, NEW k \in DOMAIN fichier, Abimer(k, mot) PROVE IInvArtefact'
  <2>1. fichier' \in Seq(Nat)
    BY <1>3 DEF IInvArtefact, Abimer
  <2> QED  BY <1>3, <2>1 DEF IInvArtefact, Abimer
<1> QED  BY <1>1, <1>2, <1>3 DEF Environnement

LEMMA LireGarde ==
  ASSUME IInvArtefact, LireMot
  PROVE  IInvArtefact'
<1> DEFINE w == Append(recu, fichier[Len(recu) + 1])
<1>1. w \in Seq(Nat)
  <2>1. Len(recu) + 1 \in 1 .. Len(fichier)
    BY DEF LireMot, IInvArtefact
  <2>2. fichier[Len(recu) + 1] \in Nat
    BY <2>1 DEF IInvArtefact
  <2> QED  BY <2>2 DEF IInvArtefact
<1>2. CASE Rejet(w) /\ Refuser
  BY <1>2, RefuserGarde
<1>3. CASE /\ ~Rejet(w)
           /\ recu' = w
           /\ serveur' = IF Complet(w) THEN "valide" ELSE "lit"
           /\ UNCHANGED <<fichier, i, degats, abime, trouble>>
  <2> HIDE DEF w
  <2>1. i' = 1
    BY <1>3 DEF IInvArtefact, LireMot
  <2>2. CASE Complet(w)
    <3>1. Complet(recu') /\ numNodes(recu') \in Nat
      BY <1>1, <1>3, <2>2, Disposition
    <3>2. \A k \in 0 .. i' - 1 : Croissants(recu', k)
      BY <2>1 DEF Croissants
    <3> QED  BY <1>1, <1>3, <2>1, <2>2, <3>1, <3>2 DEF IInvArtefact
  <2>3. CASE ~Complet(w)
    BY <1>1, <1>3, <2>1, <2>3 DEF IInvArtefact
  <2> QED  BY <2>2, <2>3
<1> QED  BY <1>2, <1>3 DEF LireMot

\* The loop of validateGraph: what it has passed is sorted.
LEMMA OffsetGarde ==
  ASSUME IInvArtefact, ValiderOffset
  PROVE  IInvArtefact'
<1>1. CASE Refuser
  BY <1>1, RefuserGarde
<1>2. CASE /\ offsets(recu)[i] >= offsets(recu)[i - 1]
           /\ i' = i + 1
           /\ UNCHANGED <<fichier, serveur, recu, degats, abime, trouble>>
  <2>1. /\ serveur = "valide" /\ recu \in Seq(Nat) /\ Complet(recu)
        /\ i \in Nat \ {0} /\ i <= numNodes(recu)
        /\ \A k \in 0 .. i - 1 : Croissants(recu, k)
    BY DEF IInvArtefact, ValiderOffset
  <2>2. /\ numNodes(recu) \in Nat
        /\ \A k \in 0 .. numNodes(recu) : offsets(recu)[k] \in Nat
    BY <2>1, Disposition
  <2>3. Croissants(recu, i)
    <3> SUFFICES ASSUME NEW n \in 0 .. i - 1 PROVE offsets(recu)[n] <= offsets(recu)[i]
      BY DEF Croissants
    <3>1. n \in 0 .. numNodes(recu) /\ i \in 0 .. numNodes(recu) /\ i - 1 \in 0 .. numNodes(recu)
      BY <2>1, <2>2
    <3>2. /\ offsets(recu)[n] \in Nat /\ offsets(recu)[i] \in Nat
          /\ offsets(recu)[i - 1] \in Nat
      BY <2>2, <3>1
    <3>3. n = i - 1 \/ offsets(recu)[n] <= offsets(recu)[i - 1]
      BY <2>1 DEF Croissants
    <3> QED  BY <1>2, <3>2, <3>3
  <2>4. \A k \in 0 .. i' - 1 : Croissants(recu', k)
    BY <1>2, <2>1, <2>3
  <2>5. i' <= numNodes(recu') + 1
    BY <1>2, <2>1, <2>2
  <2> QED  BY <1>2, <2>1, <2>4, <2>5 DEF IInvArtefact
<1> QED  BY <1>1, <1>2 DEF ValiderOffset

LEMMA ChargerGarde ==
  ASSUME IInvArtefact, Charger
  PROVE  IInvArtefact'
<1>1. CASE Refuser
  BY <1>1, RefuserGarde
<1>2. CASE /\ Bornes(recu)
           /\ serveur' = "sert"
           /\ UNCHANGED <<fichier, recu, i, degats, abime, trouble>>
  <2>1. numNodes(recu) \in Nat
    BY Disposition DEF IInvArtefact, Charger
  <2>2. i = numNodes(recu) + 1
    BY <2>1 DEF IInvArtefact, Charger
  <2> QED  BY <1>2, <2>2 DEF IInvArtefact, Charger
<1> QED  BY <1>1, <1>2 DEF Charger

LEMMA ArtefactGarde ==
  ASSUME IInvArtefact, [Environnement \/ Ouvrir \/ ReadGraph \/ Arreter]_varsArtefact
  PROVE  IInvArtefact'
<1>1. CASE Ouvrir
  BY <1>1 DEF IInvArtefact, Ouvrir
<1>2. CASE FinDeFichier \/ Arreter
  BY <1>2, RefuserGarde DEF FinDeFichier, Arreter
<1>3. CASE UNCHANGED varsArtefact
  BY <1>3 DEF IInvArtefact, varsArtefact, Complet, EnTeteLu, longueur, Bornes, Croissants
<1> QED
  BY <1>1, <1>2, <1>3, EnvironnementGarde, LireGarde, OffsetGarde, ChargerGarde DEF ReadGraph

\* What routed has read and compared, at every moment, whoever writes the file.
THEOREM LectureCorrecte == SpecLibre => []IInvArtefact
<1>1. InitArtefact => IInvArtefact
  BY DEF InitArtefact, IInvArtefact
<1> QED  BY <1>1, ArtefactGarde, PTL DEF SpecLibre

\* A served graph leads no search out of its slices, whatever bytes the file
\* holds, and whenever they change.
THEOREM ServiSurCorrect == SpecLibre => []ServiSur
<1>1. IInvArtefact => ServiSur
  <2> SUFFICES ASSUME IInvArtefact, serveur = "sert" PROVE ServiSur
    BY DEF ServiSur
  <2>1. /\ recu \in Seq(Nat) /\ Complet(recu) /\ Bornes(recu)
        /\ \A k \in 0 .. numNodes(recu) : Croissants(recu, k)
    <3>1. i - 1 = numNodes(recu) /\ recu \in Seq(Nat) /\ Complet(recu) /\ Bornes(recu)
      BY Disposition DEF IInvArtefact
    <3> QED  BY <3>1 DEF IInvArtefact
  <2>2. /\ numNodes(recu) \in Nat /\ numEdges(recu) \in Nat
        /\ \A k \in 0 .. numNodes(recu) : offsets(recu)[k] \in Nat
    BY <2>1, Disposition
  <2>3. ASSUME NEW n \in 0 .. numNodes(recu) - 1
        PROVE  /\ offsets(recu)[n] <= offsets(recu)[n + 1]
               /\ offsets(recu)[n + 1] <= numEdges(recu)
               /\ n \div 8 < octets(numNodes(recu))
    <3>1. /\ n \in 0 .. n + 1 - 1 /\ n + 1 \in 0 .. numNodes(recu)
          /\ n + 1 = numNodes(recu) \/ n + 1 \in 0 .. numNodes(recu) - 1
          /\ numNodes(recu) \in 0 .. numNodes(recu)
      BY <2>2
    <3>2. offsets(recu)[n] <= offsets(recu)[n + 1]
      BY <2>1, <3>1 DEF Croissants
    <3>3. offsets(recu)[numNodes(recu)] = numEdges(recu)
      BY <2>1 DEF Bornes
    <3>4. offsets(recu)[n + 1] <= numEdges(recu)
      <4>1. CASE n + 1 = numNodes(recu)
        BY <2>2, <3>3, <4>1
      <4>2. CASE n + 1 \in 0 .. numNodes(recu) - 1
        BY <2>1, <3>1, <3>3, <4>2 DEF Croissants
      <4> QED  BY <3>1, <4>1, <4>2
    <3>5. n \div 8 < octets(numNodes(recu))
      BY <2>2 DEF octets
    <3> QED  BY <3>2, <3>4, <3>5
  <2>4. \A e \in 0 .. numEdges(recu) - 1 :
          targets(recu)[e] < numNodes(recu) /\ reverse(recu)[e] < numEdges(recu)
    BY <2>1 DEF Bornes
  <2> QED  BY <2>3, <2>4 DEF ServiSur
<1> QED  BY <1>1, LectureCorrecte, PTL
----------------------------------------------------------------------------
(* The cost. *)

LEMMA Produit ==
  ASSUME NEW l \in Nat, NEW x \in Nat, NEW y \in Nat, x <= y
  PROVE  l * x \in Nat /\ l * x <= l * y
  OBVIOUS

LEMMA PoidsBornes ==
  ASSUME NEW p \in Int
  PROVE  Weights(p).Paved \in 0 .. 60 /\ Weights(p).Traffic \in 20 .. 120
<1>1. Clamp01(p) \in 0 .. 10
  BY DEF Clamp01, Moins, NaN
<1> QED  BY <1>1 DEF Weights, maxPavedWeight, minTrafficWeight, maxTrafficWeight

\* The factor of an edge is at least one, and at most 19, whatever its bytes.
LEMMA FacteurBorne ==
  ASSUME NEW p \in Int, NEW s \in Nat, NEW t \in 0 .. 255
  PROVE  LET f == Echelle + Weights(p).Paved * pavedPenalty(s) + Weights(p).Traffic * trafficPenalty(t)
         IN  f \in Nat /\ Echelle <= f /\ f <= 19 * Echelle
<1> DEFINE u == Weights(p).Paved
           v == Weights(p).Traffic
           q == pavedPenalty(s)
           r == trafficPenalty(t)
<1>1. u \in 0 .. 60 /\ v \in 20 .. 120
  BY PoidsBornes
<1>2. q \in 0 .. 510 /\ r \in 0 .. 510
  BY DEF pavedPenalty, trafficPenalty
<1> HIDE DEF u, v, q, r
<1>3. q * u \in Nat /\ q * u <= q * 60
  BY <1>1, <1>2, Produit
<1>4. r * v \in Nat /\ r * v <= r * 120
  BY <1>1, <1>2, Produit
<1>5. u * q = q * u /\ v * r = r * v
  BY <1>1, <1>2
<1>6. /\ Echelle + u * q + v * r \in Nat /\ Echelle <= Echelle + u * q + v * r
      /\ Echelle + u * q + v * r <= 19 * Echelle
  BY <1>2, <1>3, <1>4, <1>5 DEF Echelle
<1> QED  BY <1>6 DEF u, v, q, r

\* No edge of a served graph costs less than its length, for any preference and
\* any bytes: the hypothesis of the search's optimality.
THEOREM CoutCorrect == SpecLibre => []CoutAdmissible
<1>1. IInvArtefact => CoutAdmissible
  <2> SUFFICES ASSUME IInvArtefact, serveur = "sert",
                      NEW e \in 0 .. numEdges(recu) - 1, Attrs(attrs(recu)[e]).longueur >= 0,
                      NEW p \in AvoidPaved
               PROVE  LET a == Attrs(attrs(recu)[e])
                      IN  /\ Cost(a, Weights(p)) >= Echelle * a.longueur
                          /\ Cost(a, Weights(p)) <= 19 * Echelle * a.longueur
    BY DEF CoutAdmissible
  <2> DEFINE a == Attrs(attrs(recu)[e])
             f == Echelle + Weights(p).Paved * pavedPenalty(a.surface)
                    + Weights(p).Traffic * trafficPenalty(a.traffic)
  <2>1. attrs(recu)[e] \in Nat
    BY Disposition DEF IInvArtefact
  <2>2. a.longueur \in Nat /\ a.surface \in Nat /\ a.traffic \in 0 .. 255
    <3>1. a.longueur \in Int /\ a.surface \in Nat /\ a.traffic \in 0 .. 255
      BY <2>1 DEF Attrs, Reel
    <3> QED  BY <3>1
  <2>3. f \in Nat /\ Echelle <= f /\ f <= 19 * Echelle
    <3> HIDE DEF a
    <3> QED  BY <2>2, FacteurBorne, PreferencesAssumption
  <2>4. Cost(a, Weights(p)) = a.longueur * f
    BY DEF Cost
  <2> HIDE DEF a, f
  <2>5. Echelle \in Nat /\ 19 * Echelle \in Nat
    BY DEF Echelle
  <2>6. /\ a.longueur * Echelle <= a.longueur * f
        /\ a.longueur * f <= a.longueur * (19 * Echelle)
    BY <2>2, <2>3, <2>5, Produit
  <2>7. /\ a.longueur * Echelle = Echelle * a.longueur
        /\ a.longueur * (19 * Echelle) = 19 * Echelle * a.longueur
    BY <2>2 DEF Echelle
  <2>8. a.longueur * f \in Nat /\ Echelle * a.longueur \in Nat /\ 19 * Echelle * a.longueur \in Nat
    BY <2>2, <2>3 DEF Echelle
  <2> QED  BY <2>4, <2>6, <2>7, <2>8 DEF a
<1> QED  BY <1>1, LectureCorrecte, PTL

----------------------------------------------------------------------------
(* The builder. *)

LEMMA NoeudAjoute ==
  ASSUME NEW r, NEW c, Bon(r, c), NEW p
  PROVE  /\ Bon(r, AddNode(c, p))
         /\ AddNode(c, p).n = c.n + 1 /\ c.n \in Nat
<1>1. /\ DOMAIN AddNode(c, p) = {"n", "m", "from", "to", "attrs", "coords"}
      /\ AddNode(c, p).n = c.n + 1 /\ AddNode(c, p).m = c.m
      /\ AddNode(c, p).from = c.from /\ AddNode(c, p).to = c.to
  BY DEF Bon, AddNode
<1>2. /\ c.n \in Nat /\ c.m \in Nat
      /\ c.from \in [0 .. c.m - 1 -> 0 .. c.n - 1] /\ c.to \in [0 .. c.m - 1 -> 0 .. c.n - 1]
  BY DEF Bon, C!Contrat, C!Noeuds
<1>3. \A id \in DOMAIN r : r[id] \in 0 .. (c.n + 1) - 1
  BY <1>2 DEF Bon
<1>4. /\ c.from \in [0 .. c.m - 1 -> 0 .. (c.n + 1) - 1]
      /\ c.to \in [0 .. c.m - 1 -> 0 .. (c.n + 1) - 1]
  BY <1>2
<1>5. C!Contrat(AddNode(c, p))
  BY <1>1, <1>2, <1>4 DEF Bon, C!Contrat, C!Noeuds
<1> QED  BY <1>1, <1>2, <1>3, <1>5 DEF Bon

\* nodeRef gives a node of the builder, or none to a node out of the extract.
LEMMA NodeRefBon ==
  ASSUME NEW e, Bon(e.refs, e.b), NEW id
  PROVE  /\ Bon(NodeRef(e, id).refs, NodeRef(e, id).b)
         /\ DOMAIN e.refs \subseteq DOMAIN NodeRef(e, id).refs
         /\ id \in DOMAIN coords => id \in DOMAIN NodeRef(e, id).refs
<1>1. CASE id \in DOMAIN e.refs \/ id \notin DOMAIN coords
  BY <1>1 DEF NodeRef
<1>2. CASE ~(id \in DOMAIN e.refs \/ id \notin DOMAIN coords)
  <2> DEFINE r == [j \in DOMAIN e.refs \cup {id} |-> IF j = id THEN e.b.n ELSE e.refs[j]]
             c == AddNode(e.b, coords[id])
  <2>1. NodeRef(e, id).refs = r /\ NodeRef(e, id).b = c
    BY <1>2 DEF NodeRef
  <2>2. Bon(e.refs, c) /\ c.n = e.b.n + 1 /\ e.b.n \in Nat
    BY NoeudAjoute
  <2>3. \A j \in DOMAIN r : r[j] \in 0 .. c.n - 1
    BY <2>2 DEF Bon
  <2> HIDE DEF c
  <2>4. Bon(r, c)
    BY <2>2, <2>3 DEF Bon
  <2> QED  BY <2>1, <2>4
<1> QED  BY <1>1, <1>2

\* h is slice f of length m and x, then h is f, x and y.
Suivi(h, f, m, S, x) ==
  h \in [0 .. (m + 1) - 1 -> S] /\ (\A k \in 0 .. m - 1 : h[k] = f[k]) /\ h[m] = x
Suivis(h, f, m, S, x, y) ==
  /\ h \in [0 .. (m + 1 + 1) - 1 -> S]
  /\ \A k \in 0 .. m - 1 : h[k] = f[k]
  /\ h[m] = x /\ h[m + 1] = y

LEMMA Ajout ==
  ASSUME NEW m \in Nat, NEW S, NEW f \in [0 .. m - 1 -> S], NEW x \in S
  PROVE  Suivi(Ajouter(f, m, x), f, m, S, x)
<1>1. 0 .. (m + 1) - 1 = 0 .. m
  OBVIOUS
<1>2. ASSUME NEW k \in 0 .. m PROVE (IF k = m THEN x ELSE f[k]) \in S
  <2>1. k = m \/ k \in 0 .. m - 1
    OBVIOUS
  <2> QED  BY <2>1
<1>3. Ajouter(f, m, x) \in [0 .. m -> S]
  BY <1>2, Zenon DEF Ajouter
<1>4. /\ \A k \in 0 .. m - 1 : Ajouter(f, m, x)[k] = f[k]
      /\ Ajouter(f, m, x)[m] = x
  BY DEF Ajouter
<1> QED  BY <1>1, <1>3, <1>4 DEF Suivi

\* A slice after two appends.
LEMMA Ajouts ==
  ASSUME NEW m \in Nat, NEW S, NEW f \in [0 .. m - 1 -> S], NEW x \in S, NEW y \in S
  PROVE  Suivis(Ajouter(Ajouter(f, m, x), m + 1, y), f, m, S, x, y)
<1>1. PICK j : j = Ajouter(f, m, x)
  OBVIOUS
<1>2. Suivi(j, f, m, S, x)
  BY <1>1, Ajout
<1>3. m + 1 \in Nat /\ j \in [0 .. (m + 1) - 1 -> S]
  BY <1>2 DEF Suivi
<1>4. PICK h : h = Ajouter(j, m + 1, y)
  OBVIOUS
<1>5. Suivi(h, j, m + 1, S, y)
  BY <1>3, <1>4, Ajout
<1>6. m \in 0 .. (m + 1) - 1 /\ \A k \in 0 .. m - 1 : k \in 0 .. (m + 1) - 1
  OBVIOUS
<1>7. Suivis(h, f, m, S, x, y)
  BY <1>2, <1>5, <1>6 DEF Suivi, Suivis
<1> QED  BY <1>1, <1>4, <1>7

\* The two edges of a segment are each other's twin.
LEMMA Paire ==
  ASSUME NEW m \in Nat, m % 2 = 0
  PROVE  C!Jumelle(m) = m + 1 /\ C!Jumelle(m + 1) = m
  BY DEF C!Jumelle

LEMMA SegmentAjoute ==
  ASSUME NEW r, NEW c, Bon(r, c), NEW a, NEW u \in 0 .. c.n - 1, NEW v \in 0 .. c.n - 1
  PROVE  Bon(r, DeuxSens(c, u, v, a))
<1>1. PICK d : d = DeuxSens(c, u, v, a)
  OBVIOUS
<1>2. PICK m : m = c.m
  OBVIOUS
<1>3. PICK S : S = 0 .. c.n - 1
  OBVIOUS
<1>4. /\ c.n \in Nat /\ m \in Nat /\ m % 2 = 0 /\ u \in S /\ v \in S
      /\ c.from \in [0 .. m - 1 -> S] /\ c.to \in [0 .. m - 1 -> S]
  BY <1>2, <1>3 DEF Bon, C!Contrat, C!Noeuds
<1>5. \A k \in 0 .. m - 1 : /\ C!Jumelle(k) \in 0 .. m - 1
                            /\ c.from[C!Jumelle(k)] = c.to[k]
                            /\ c.to[C!Jumelle(k)] = c.from[k]
  BY <1>2 DEF Bon, C!Contrat
<1>6. /\ DOMAIN d = {"n", "m", "from", "to", "attrs", "coords"}
      /\ d.n = c.n /\ d.m = m + 1 + 1
      /\ d.from = Ajouter(Ajouter(c.from, m, u), m + 1, v)
      /\ d.to = Ajouter(Ajouter(c.to, m, v), m + 1, u)
  BY <1>1, <1>2 DEF Bon, DeuxSens, AddEdge
<1>7. /\ d.from \in [0 .. (m + 1 + 1) - 1 -> S]
      /\ \A k \in 0 .. m - 1 : d.from[k] = c.from[k]
      /\ d.from[m] = u /\ d.from[m + 1] = v
  <2>1. Suivis(Ajouter(Ajouter(c.from, m, u), m + 1, v), c.from, m, S, u, v)
    BY <1>4, Ajouts
  <2> QED  BY <1>6, <2>1 DEF Suivis
<1>8. /\ d.to \in [0 .. (m + 1 + 1) - 1 -> S]
      /\ \A k \in 0 .. m - 1 : d.to[k] = c.to[k]
      /\ d.to[m] = v /\ d.to[m + 1] = u
  <2>1. Suivis(Ajouter(Ajouter(c.to, m, v), m + 1, u), c.to, m, S, v, u)
    BY <1>4, Ajouts
  <2> QED  BY <1>6, <2>1 DEF Suivis
<1>9. C!Jumelle(m) = m + 1 /\ C!Jumelle(m + 1) = m
  BY <1>4, Paire
<1>10. /\ m \in 0 .. (m + 1 + 1) - 1 /\ m + 1 \in 0 .. (m + 1 + 1) - 1
       /\ 0 .. m - 1 \subseteq 0 .. (m + 1 + 1) - 1
       /\ \A k \in 0 .. (m + 1 + 1) - 1 : k \in 0 .. m - 1 \/ k = m \/ k = m + 1
  BY <1>4
<1>11. ASSUME NEW k \in 0 .. (m + 1 + 1) - 1
       PROVE  /\ C!Jumelle(k) \in 0 .. (m + 1 + 1) - 1
              /\ d.from[C!Jumelle(k)] = d.to[k] /\ d.to[C!Jumelle(k)] = d.from[k]
  <2>1. CASE k \in 0 .. m - 1
    <3>1. PICK j : j = C!Jumelle(k)
      OBVIOUS
    <3>2. j \in 0 .. m - 1 /\ c.from[j] = c.to[k] /\ c.to[j] = c.from[k]
      BY <1>5, <2>1, <3>1
    <3>3. d.from[j] = d.to[k] /\ d.to[j] = d.from[k]
      BY <1>7, <1>8, <2>1, <3>2
    <3> QED  BY <1>10, <3>1, <3>2, <3>3
  <2>2. CASE k = m
    BY <1>7, <1>8, <1>9, <1>10, <2>2, Zenon
  <2>3. CASE k = m + 1
    BY <1>7, <1>8, <1>9, <1>10, <2>3, Zenon
  <2> QED  BY <1>10, <2>1, <2>2, <2>3
<1>12. C!Contrat(d)
  <2>1. d.n \in Nat /\ d.m \in Nat
    BY <1>4, <1>6
  <2>2. /\ d.from \in [0 .. d.m - 1 -> 0 .. d.n - 1]
        /\ d.to \in [0 .. d.m - 1 -> 0 .. d.n - 1]
    BY <1>3, <1>6, <1>7, <1>8
  <2>3. \A k \in 0 .. d.m - 1 : /\ C!Jumelle(k) \in 0 .. d.m - 1
                                /\ d.from[C!Jumelle(k)] = d.to[k]
                                /\ d.to[C!Jumelle(k)] = d.from[k]
    BY <1>6, <1>11
  <2> QED  BY <2>1, <2>2, <2>3 DEF C!Contrat, C!Noeuds
<1>13. d.m % 2 = 0
  BY <1>4, <1>6
<1>14. \A id \in DOMAIN r : r[id] \in 0 .. d.n - 1
  BY <1>6 DEF Bon
<1> QED  BY <1>1, <1>6, <1>12, <1>13, <1>14 DEF Bon

LEMMA SegmentBon ==
  ASSUME Bon(refs, b), Segment
  PROVE  Bon(refs', b')
<1> DEFINE w == ways[iw]
           u == w.nodes[is]
           v == w.nodes[is + 1]
           e1 == NodeRef([refs |-> refs, b |-> b], u)
           e == NodeRef(e1, v)
           a == [longueur |-> Longueur(coords[u], coords[v]),
                 surface |-> Classify(w.tags).surface, traffic |-> Classify(w.tags).traffic]
<1>1. /\ refs' = e.refs
      /\ b' = IF {u, v} \subseteq DOMAIN coords /\ e.refs[u] # e.refs[v]
              THEN DeuxSens(e.b, e.refs[u], e.refs[v], a) ELSE e.b
  BY DEF Segment
<1>2. Bon(e1.refs, e1.b) /\ (u \in DOMAIN coords => u \in DOMAIN e1.refs)
  BY NodeRefBon
<1>3. /\ Bon(e.refs, e.b) /\ DOMAIN e1.refs \subseteq DOMAIN e.refs
      /\ v \in DOMAIN coords => v \in DOMAIN e.refs
  <2> HIDE DEF e1, v
  <2> QED  BY <1>2, NodeRefBon
<1> HIDE DEF e, e1, u, v, a
<1>4. CASE {u, v} \subseteq DOMAIN coords /\ e.refs[u] # e.refs[v]
  <2>1. e.refs[u] \in 0 .. e.b.n - 1 /\ e.refs[v] \in 0 .. e.b.n - 1
    BY <1>2, <1>3, <1>4 DEF Bon
  <2>2. Bon(e.refs, DeuxSens(e.b, e.refs[u], e.refs[v], a))
    BY <1>3, <2>1, SegmentAjoute
  <2> QED  BY <1>1, <1>4, <2>2
<1>5. CASE ~({u, v} \subseteq DOMAIN coords /\ e.refs[u] # e.refs[v])
  BY <1>1, <1>3, <1>5
<1> QED  BY <1>4, <1>5

LEMMA MemoireBonne ==
  ASSUME NEW l, Memoire(l)
  PROVE  Bon(refs', b')
<1>1. Bon(Vide, Bati)
  BY DEF Bon, Vide, Bati, C!Contrat, C!Noeuds
<1> QED  BY <1>1 DEF Memoire

\* Whatever the extract, its replacements and the crashes, the builder keeps the
\* contract the reverse edges are deduced from.
THEOREM ContratCorrect == SpecFabrique => []ContratTenu
<1>1. InitFabrique => Bon(refs, b)
  BY DEF InitFabrique, InitLecture, Bon, Vide, Bati, C!Contrat, C!Noeuds
<1>2. Bon(refs, b) /\ [NextFabrique]_varsFabrique => Bon(refs, b)'
  <2> SUFFICES ASSUME Bon(refs, b), [NextFabrique]_varsFabrique
               PROVE  Bon(refs', b')
    OBVIOUS
  <2>1. CASE UNCHANGED <<refs, b>>
    BY <2>1
  <2>2. CASE Lancer \/ Hacher \/ Finir \/ Tomber
    BY <2>2, MemoireBonne DEF Lancer, Hacher, Finir, Tomber
  <2>3. CASE Lire
    <3>1. CASE Segment
      BY <3>1, SegmentBon
    <3>2. CASE ScanWay \/ FinWays \/ ScanNodes \/ LectureRatee \/ WaySuivant \/ FinLecture
      BY <3>2, <2>1 DEF ScanWay, FinWays, ScanNodes, LectureRatee, WaySuivant, FinLecture
    <3> QED  BY <2>3, <3>1, <3>2 DEF Lire, Read
  <2>4. CASE CreerArtefact \/ EcrireArtefact \/ RemplacerExtrait
    BY <2>1, <2>4 DEF CreerArtefact, EcrireArtefact, RemplacerExtrait, Remplacer, varsLecture
  <2>5. CASE Routed /\ UNCHANGED <<varsLecture, gb, builds, mots, stable, produits>>
    BY <2>1, <2>5 DEF varsLecture
  <2>6. CASE UNCHANGED varsFabrique
    BY <2>1, <2>6 DEF varsFabrique, varsLecture
  <2> QED  BY <2>2, <2>3, <2>4, <2>5, <2>6 DEF NextFabrique, Graphbuild
<1>3. Bon(refs, b) => ContratTenu
  BY DEF Bon, ContratTenu
<1> QED  BY <1>1, <1>2, <1>3, PTL DEF SpecFabrique
----------------------------------------------------------------------------
(* What is read and assembled may be written. *)

\* A way that is kept is classified.
LEMMA ClasseBonne ==
  ASSUME NEW t, Praticable(t)
  PROVE  Classify(t).surface \in {"paved", "gravel", "ground"} /\ Classify(t).traffic \in 0 .. 255
<1> DEFINE h == t.highway
           k == wayClasses[h]
<1>1. h \in DOMAIN wayClasses
  BY DEF Praticable
<1>2. /\ k[1] \in {"path", "track", "footway", "residential", "tertiary", "secondary"}
      /\ k[2] \in 0 .. 255
  <2> HIDE DEF h
  <2>1. \/ h \in {"path", "bridleway", "track", "footway", "pedestrian", "cycleway"}
        \/ h \in {"living_street", "service", "residential", "unclassified", "tertiary", "secondary"}
    BY <1>1 DEF wayClasses
  <2>2. CASE h \in {"path", "bridleway", "track", "footway", "pedestrian", "cycleway"}
    BY <2>2 DEF wayClasses
  <2>3. CASE h \in {"living_street", "service", "residential", "unclassified", "tertiary", "secondary"}
    BY <2>3 DEF wayClasses
  <2> QED  BY <2>1, <2>2, <2>3
<1>3. defaultSurfaces[k[1]] \in {"paved", "gravel", "ground"}
  <2> HIDE DEF k
  <2> QED  BY <1>2 DEF defaultSurfaces
<1>4. DOMAIN surfaceValues = {"paved", "gravel", "ground"}
  BY DEF surfaceValues
<1>5. Revetement(t) \in {"paved", "gravel", "ground"}
  <2>1. CASE \E s \in DOMAIN surfaceValues : t.surface \in surfaceValues[s]
    BY <1>4, <2>1, Zenon DEF Revetement
  <2>2. CASE ~ \E s \in DOMAIN surfaceValues : t.surface \in surfaceValues[s]
    BY <1>3, <2>2, Zenon DEF Revetement
  <2> QED  BY <2>1, <2>2
<1> QED  BY <1>2, <1>5 DEF Classify

LEMMA NoeudChiffre ==
  ASSUME NEW r, NEW c, Bon(r, c), Chiffre(c), NEW p \in Nat
  PROVE  Chiffre(AddNode(c, p))
<1>1. c.n \in Nat /\ c.m \in Nat /\ DOMAIN c = {"n", "m", "from", "to", "attrs", "coords"}
  BY DEF Bon, C!Contrat
<1>2. /\ AddNode(c, p).n = c.n + 1 /\ AddNode(c, p).m = c.m
      /\ AddNode(c, p).coords = Ajouter(c.coords, c.n, p) /\ AddNode(c, p).attrs = c.attrs
  BY <1>1 DEF AddNode
<1>3. Ajouter(c.coords, c.n, p) \in [0 .. (c.n + 1) - 1 -> Nat]
  BY <1>1, Ajout DEF Suivi, Chiffre
<1> QED  BY <1>2, <1>3 DEF Chiffre

LEMMA SegmentChiffre ==
  ASSUME NEW r, NEW c, Bon(r, c), Chiffre(c), NEW u, NEW v, NEW a \in Attributs
  PROVE  Chiffre(DeuxSens(c, u, v, a))
<1>1. c.n \in Nat /\ c.m \in Nat /\ DOMAIN c = {"n", "m", "from", "to", "attrs", "coords"}
  BY DEF Bon, C!Contrat
<1>2. /\ DeuxSens(c, u, v, a).n = c.n /\ DeuxSens(c, u, v, a).m = c.m + 1 + 1
      /\ DeuxSens(c, u, v, a).coords = c.coords
      /\ DeuxSens(c, u, v, a).attrs = Ajouter(Ajouter(c.attrs, c.m, a), c.m + 1, a)
  BY <1>1 DEF DeuxSens, AddEdge
<1>3. c.attrs \in [0 .. c.m - 1 -> Attributs] /\ c.coords \in [0 .. c.n - 1 -> Nat]
  BY DEF Chiffre
<1>4. Ajouter(Ajouter(c.attrs, c.m, a), c.m + 1, a) \in [0 .. (c.m + 1 + 1) - 1 -> Attributs]
  <2>1. Suivis(Ajouter(Ajouter(c.attrs, c.m, a), c.m + 1, a), c.attrs, c.m, Attributs, a, a)
    BY <1>1, <1>3, Ajouts
  <2> QED  BY <2>1 DEF Suivis
<1> QED  BY <1>2, <1>3, <1>4 DEF Chiffre

LEMMA NodeRefChiffre ==
  ASSUME NEW e, Bon(e.refs, e.b), Chiffre(e.b), NEW id,
         \A j \in DOMAIN coords : coords[j] \in Nat
  PROVE  Chiffre(NodeRef(e, id).b)
<1>1. CASE id \in DOMAIN e.refs \/ id \notin DOMAIN coords
  BY <1>1 DEF NodeRef
<1>2. CASE ~(id \in DOMAIN e.refs \/ id \notin DOMAIN coords)
  <2>1. NodeRef(e, id).b = AddNode(e.b, coords[id])
    BY <1>2 DEF NodeRef
  <2>2. coords[id] \in Nat
    BY <1>2
  <2>3. Chiffre(AddNode(e.b, coords[id]))
    BY <2>2, NoeudChiffre
  <2> QED  BY <2>1, <2>3
<1> QED  BY <1>1, <1>2

\* A segment of a way that is kept.
LEMMA SegmentLu ==
  ASSUME IInvLecture, Segment
  PROVE  Chiffre(b')
<1> DEFINE w == ways[iw]
           u == w.nodes[is]
           v == w.nodes[is + 1]
           e1 == NodeRef([refs |-> refs, b |-> b], u)
           e == NodeRef(e1, v)
           a == [longueur |-> Longueur(coords[u], coords[v]),
                 surface |-> Classify(w.tags).surface, traffic |-> Classify(w.tags).traffic]
<1>1. b' = IF {u, v} \subseteq DOMAIN coords /\ e.refs[u] # e.refs[v]
           THEN DeuxSens(e.b, e.refs[u], e.refs[v], a) ELSE e.b
  BY DEF Segment
<1>2. Bon(e1.refs, e1.b) /\ Chiffre(e1.b)
  BY NodeRefBon, NodeRefChiffre DEF IInvLecture
<1>3. Bon(e.refs, e.b) /\ Chiffre(e.b)
  <2> HIDE DEF e1, v
  <2> QED  BY <1>2, NodeRefBon, NodeRefChiffre DEF IInvLecture
<1>4. Praticable(w.tags)
  <2>1. iw \in DOMAIN ways
    BY DEF IInvLecture, Segment, SegmentCourant
  <2>2. ways[iw] \in {y \in Voies : Retenu(y)}
    BY <2>1 DEF IInvLecture
  <2> QED  BY <2>2 DEF Retenu
<1> HIDE DEF e1, e, w
<1>5. ASSUME {u, v} \subseteq DOMAIN coords PROVE a \in Attributs
  <2> HIDE DEF u, v
  <2>1. coords[u] \in Nat /\ coords[v] \in Nat
    BY <1>5 DEF IInvLecture
  <2>2. Longueur(coords[u], coords[v]) \in Nat
    BY <2>1 DEF Longueur
  <2> QED  BY <1>4, <2>2, ClasseBonne DEF Attributs
<1> HIDE DEF u, v, a
<1> QED  BY <1>1, <1>3, <1>5, SegmentChiffre

LEMMA MemoireLue ==
  ASSUME NEW l, Memoire(l), IInvLecture, UNCHANGED extrait
  PROVE  IInvLecture'
<1>1. Bon(refs', b')
  BY MemoireBonne
<1>2. Chiffre(b')
  BY DEF Memoire, Chiffre, Bati, Vide
<1>3. \A id \in DOMAIN coords' : coords'[id] \in Nat
  BY DEF Memoire, Vide
<1> QED  BY <1>1, <1>2, <1>3 DEF Memoire, IInvLecture

LEMMA FichierBon ==
  ASSUME IInvLecture
  PROVE  /\ extrait \in DOMAIN Extraits
         /\ \A j \in DOMAIN Fichier.noeuds : j \in Nat /\ Fichier.noeuds[j] \in Nat
         /\ Len(Fichier.ways) \in Nat
         /\ \A j \in 1 .. Len(Fichier.ways) : Fichier.ways[j] \in Voies
<1>1. extrait \in DOMAIN Extraits
  BY ExtraitsAssumption DEF IInvLecture, Suite
<1>2. Suite(Fichier.ways)
  BY <1>1, ExtraitsAssumption DEF Fichier
<1>3. Len(Fichier.ways) \in Nat /\ DOMAIN Fichier.ways = 1 .. Len(Fichier.ways)
  BY <1>2 DEF Suite
<1> QED  BY <1>1, <1>3, ExtraitsAssumption DEF Fichier, Voies

LEMMA ReadLu ==
  ASSUME IInvLecture, Read
  PROVE  IInvLecture'
<1>1. CASE ScanWay
  <2>1. ways' \in Seq({w \in Voies : Retenu(w)})
    <3>1. iw \in 1 .. Len(Fichier.ways)
      BY <1>1, FichierBon DEF IInvLecture, ScanWay
    <3>2. Fichier.ways[iw] \in Voies
      BY <3>1, FichierBon
    <3> QED  BY <1>1, <3>2 DEF IInvLecture, ScanWay
  <2> QED  BY <1>1, <2>1 DEF IInvLecture, ScanWay
<1>2. CASE FinWays \/ LectureRatee \/ FinLecture \/ WaySuivant
  BY <1>2 DEF IInvLecture, FinWays, LectureRatee, FinLecture, WaySuivant
<1>3. CASE ScanNodes
  <2>1. \A id \in DOMAIN coords' : coords'[id] \in Nat
    BY <1>3, FichierBon DEF ScanNodes
  <2> QED  BY <1>3, <2>1 DEF IInvLecture, ScanNodes
<1>4. CASE Segment
  <2>1. Bon(refs', b') /\ Chiffre(b')
    BY <1>4, SegmentBon, SegmentLu DEF IInvLecture
  <2>2. is' = is + 1 /\ UNCHANGED <<extrait, ways, coords, iw>>
    BY <1>4 DEF Segment
  <2> QED  BY <2>1, <2>2 DEF IInvLecture
<1> QED  BY <1>1, <1>2, <1>3, <1>4 DEF Read

\* Construction's theorems, about the builder of Lecture.
Tri == INSTANCE ConstructionPreuve WITH
  Builders <- {}, g <- Vide, parent <- Vide, size <- Vide, phase <- "tri", rang <- 0, x <- -1,
  ra <- -1, mainRoot <- -1, mainSize <- 0, bits <- {},
  Placements <- {}, Departs <- {}, cote <- 1, maxRings <- 0, poidsLon <- 1, poidsLat <- 1,
  appel <- "avant", coords <- Vide, c <- <<0, 0>>, ring <- 0, best <- 0, bestDist <- 0, firstHit <- -1

LEMMA MemeCardinal ==
  ASSUME NEW S
  PROVE  Tri!Cardinality(S) = C!Cardinality(S)
  BY DEF Tri!Cardinality, C!Cardinality, Tri!IsFiniteSet, C!IsFiniteSet

LEMMA MemeTri ==
  /\ Tri!Aretes = C!Aretes /\ Tri!Noeuds(b) = C!Noeuds(b)
  /\ Tri!newIndex = C!newIndex /\ Tri!order = C!order /\ Tri!offsets = C!offsets
  /\ \A ni, o : Tri!reverse(ni, o) = C!reverse(ni, o) /\ Tri!Build(ni, o) = C!Build(ni, o)
<1>1. Tri!Aretes = C!Aretes /\ Tri!Noeuds(b) = C!Noeuds(b)
  BY DEF Tri!Aretes, C!Aretes, Tri!Noeuds, C!Noeuds
<1>2. \A a : {j \in Tri!Aretes : Tri!Avant(j, a)} = {j \in C!Aretes : C!Avant(j, a)}
  <2>1. \A j, k : Tri!Avant(j, k) <=> C!Avant(j, k)
    BY DEF Tri!Avant, C!Avant
  <2> QED  BY <1>1, <2>1
<1>3. Tri!newIndex = C!newIndex
  BY <1>1, <1>2, MemeCardinal DEF Tri!newIndex, C!newIndex
<1>4. Tri!order = C!order
  BY <1>1, <1>3 DEF Tri!order, C!order
<1>5. Tri!offsets = C!offsets
  BY <1>1, MemeCardinal DEF Tri!offsets, C!offsets
<1>6. \A ni, o : Tri!reverse(ni, o) = C!reverse(ni, o)
  BY <1>1 DEF Tri!reverse, C!reverse, Tri!Jumelle, C!Jumelle
<1>7. \A ni, o : Tri!Build(ni, o) = C!Build(ni, o)
  BY <1>1, <1>5, <1>6 DEF Tri!Build, C!Build
<1> QED  BY <1>1, <1>3, <1>4, <1>5, <1>6, <1>7

LEMMA MemeContrat ==
  ASSUME C!Contrat(b)
  PROVE  Tri!Contrat(b)
  BY DEF Tri!Contrat, C!Contrat, Tri!Noeuds, C!Noeuds, Tri!Jumelle, C!Jumelle

\* The graph of a builder: the fields Write reads.
LEMMA BuildLu ==
  ASSUME Bon(refs, b), Chiffre(b)
  PROVE  /\ Build.n = b.n /\ Build.m = b.m /\ b.n \in Nat /\ b.m \in Nat
         /\ Build.coords \in [0 .. b.n - 1 -> Nat] /\ Build.offsets \in [0 .. b.n -> Nat]
         /\ Build.targets \in [0 .. b.m - 1 -> Nat] /\ Build.reverse \in [0 .. b.m - 1 -> Nat]
         /\ Build.attrs \in [0 .. b.m - 1 -> Attributs]
<1>1. C!Contrat(b) /\ b.n \in Nat /\ b.m \in Nat
  BY DEF Bon, C!Contrat
<1>2. /\ C!offsets \in [0 .. b.n -> Nat]
      /\ C!order \in [C!Aretes -> C!Aretes]
      /\ C!reverse(C!newIndex, C!order) \in [C!Aretes -> C!Aretes]
      /\ C!Build(C!newIndex, C!order).targets \in [C!Aretes -> C!Noeuds(b)]
  BY <1>1, MemeContrat, MemeTri, Tri!BuildJuste
<1>3. C!Aretes = 0 .. b.m - 1 /\ C!Noeuds(b) = 0 .. b.n - 1
  BY DEF C!Aretes, C!Noeuds
<1>4. PICK h : h = C!Build(C!newIndex, C!order)
  OBVIOUS
<1>5. /\ h.offsets = C!offsets /\ h.attrs = C!order
      /\ h.reverse = C!reverse(C!newIndex, C!order) /\ h.targets \in [C!Aretes -> C!Noeuds(b)]
  BY <1>2, <1>4 DEF C!Build
<1>6. /\ Build.n = b.n /\ Build.m = b.m /\ Build.coords = b.coords
      /\ Build.offsets = h.offsets /\ Build.targets = h.targets /\ Build.reverse = h.reverse
      /\ Build.attrs = [e \in 0 .. b.m - 1 |-> b.attrs[h.attrs[e]]]
  BY <1>4 DEF Build
<1>7. b.coords \in [0 .. b.n - 1 -> Nat] /\ b.attrs \in [0 .. b.m - 1 -> Attributs]
  BY DEF Chiffre
<1>8. h.targets \in [0 .. b.m - 1 -> Nat] /\ h.reverse \in [0 .. b.m - 1 -> Nat]
  BY <1>1, <1>2, <1>3, <1>5
<1>9. \A e \in 0 .. b.m - 1 : b.attrs[h.attrs[e]] \in Attributs
  BY <1>2, <1>3, <1>5, <1>7
<1>10. Build.attrs \in [0 .. b.m - 1 -> Attributs]
  BY <1>6, <1>9
<1> QED  BY <1>1, <1>2, <1>5, <1>6, <1>7, <1>8, <1>10

LEMMA TrancheMots ==
  ASSUME NEW n \in Nat, NEW f \in [0 .. n - 1 -> Nat]
  PROVE  Tranche(f, n) \in Seq(Nat) /\ Len(Tranche(f, n)) = n
<1>1. \A k \in 1 .. n : f[k - 1] \in Nat
  OBVIOUS
<1> QED  BY <1>1 DEF Tranche

LEMMA ArrondiNat ==
  ASSUME NEW l \in Nat
  PROVE  Arrondi(l) \in Nat
<1>1. Pas \in Nat /\ Pas # 0
  BY FormatAssumption
<1>2. 2 * Pas \in Nat /\ 2 * Pas # 0 /\ 2 * l + Pas \in Nat
  BY <1>1
<1>3. (2 * l + Pas) \div (2 * Pas) \in Nat
  BY <1>2
<1> QED  BY <1>1, <1>3 DEF Arrondi

\* What is packed is a word.
LEMMA PaquetMot ==
  ASSUME NEW a \in Attributs
  PROVE  Paquet(a) \in Nat
<1>1. /\ a.longueur \in Nat /\ a.traffic \in Nat
      /\ a.surface \in {"paved", "gravel", "ground"}
  BY DEF Attributs
<1>2. CodeSurface[a.surface] \in Nat
  BY <1>1 DEF CodeSurface
<1>3. Arrondi(a.longueur) \in Nat
  BY <1>1, ArrondiNat
<1> QED  BY <1>1, <1>2, <1>3 DEF Paquet

LEMMA OctetMot ==
  ASSUME NEW S, NEW k \in Int
  PROVE  Octet(S, k) \in Nat
  BY DEF Octet

\* Word sequence w holds sequence s from position d + 1 on.
Porte(w, d, s) == \A k \in 1 .. Len(s) : w[d + k] = s[k]

LEMMA Bout ==
  ASSUME NEW s \in Seq(Nat), NEW t \in Seq(Nat)
  PROVE  /\ s \o t \in Seq(Nat) /\ Len(s \o t) = Len(s) + Len(t)
         /\ \A k \in 1 .. Len(s) : (s \o t)[k] = s[k]
         /\ Porte(s \o t, Len(s), t)
<1>1. s \o t \in Seq(Nat) /\ Len(s \o t) = Len(s) + Len(t) /\ Len(s) \in Nat /\ Len(t) \in Nat
  OBVIOUS
<1>2. \A k \in 1 .. Len(s) + Len(t) : (s \o t)[k] = IF k <= Len(s) THEN s[k] ELSE t[k - Len(s)]
  OBVIOUS
<1>3. \A k \in 1 .. Len(s) : (s \o t)[k] = s[k]
  BY <1>1, <1>2
<1>4. ASSUME NEW k \in 1 .. Len(t) PROVE (s \o t)[Len(s) + k] = t[k]
  <2>1. Len(s) + k \in 1 .. Len(s) + Len(t) /\ ~(Len(s) + k <= Len(s)) /\ (Len(s) + k) - Len(s) = k
    BY <1>1
  <2> QED  BY <1>2, <2>1
<1> QED  BY <1>1, <1>3, <1>4 DEF Porte

\* Sequence w starts with u.
Prolonge(w, u) == Len(u) <= Len(w) /\ \A k \in 1 .. Len(u) : w[k] = u[k]

Collee(v, u, t) ==
  v \in Seq(Nat) /\ Len(v) = Len(u) + Len(t) /\ Porte(v, Len(u), t) /\ Prolonge(v, u)

LEMMA Colle ==
  ASSUME NEW u \in Seq(Nat), NEW t \in Seq(Nat)
  PROVE  Collee(u \o t, u, t)
<1>1. /\ u \o t \in Seq(Nat) /\ Len(u \o t) = Len(u) + Len(t) /\ Porte(u \o t, Len(u), t)
      /\ \A k \in 1 .. Len(u) : (u \o t)[k] = u[k]
  BY Bout
<1>2. Len(u) \in Nat /\ Len(t) \in Nat
  OBVIOUS
<1> QED  BY <1>1, <1>2 DEF Collee, Prolonge

\* What a sequence holds, it still holds with more after it.
LEMMA PorteGardee ==
  ASSUME NEW w \in Seq(Nat), NEW u \in Seq(Nat), Prolonge(w, u),
         NEW d \in Nat, NEW r \in Seq(Nat), d + Len(r) <= Len(u), Porte(u, d, r)
  PROVE  Porte(w, d, r)
<1> SUFFICES ASSUME NEW k \in 1 .. Len(r) PROVE w[d + k] = r[k]
  BY DEF Porte
<1>1. d + k \in 1 .. Len(u)
  OBVIOUS
<1> QED  BY <1>1 DEF Porte, Prolonge

LEMMA Rallonge ==
  ASSUME NEW w \in Seq(Nat), NEW u \in Seq(Nat), Prolonge(w, u),
         NEW v \in Seq(Nat), Prolonge(u, v)
  PROVE  Prolonge(w, v)
<1>1. Len(v) \in Nat /\ Len(u) \in Nat /\ Len(w) \in Nat
  OBVIOUS
<1> QED  BY <1>1 DEF Prolonge

\* The words of an artefact, slice by slice.
Tete(p, n) == <<magic, formatVersion, 1, p, n>>
Ecrits(p, n, m, s1, s2, s3, s4, s5, s6) ==
  Tete(p, n) \o s1 \o s2 \o <<m>> \o s3 \o s4 \o s5 \o s6

Tranches(p, n, m, s1, s2, s3, s4, s5, s6) ==
  /\ p \in Nat /\ n \in Nat /\ m \in Nat
  /\ s1 \in Seq(Nat) /\ Len(s1) = n /\ s2 \in Seq(Nat) /\ Len(s2) = n + 1
  /\ s3 \in Seq(Nat) /\ Len(s3) = m /\ s4 \in Seq(Nat) /\ Len(s4) = m
  /\ s5 \in Seq(Nat) /\ Len(s5) = m /\ s6 \in Seq(Nat)
Dispose(w, p, n, m, s1, s2, s3, s4, s5, s6) ==
  /\ w \in Seq(Nat) /\ Len(w) = 7 + 2 * n + 3 * m + Len(s6)
  /\ w[4] = p /\ w[5] = n /\ w[7 + 2 * n] = m
  /\ Porte(w, 5, s1) /\ Porte(w, 5 + n, s2)
  /\ Porte(w, 7 + 2 * n, s3) /\ Porte(w, 7 + 2 * n + m, s4)
  /\ Porte(w, 7 + 2 * n + 2 * m, s5)

LEMMA EcritMots ==
  ASSUME NEW p, NEW n, NEW m, NEW s1, NEW s2, NEW s3, NEW s4, NEW s5, NEW s6,
         Tranches(p, n, m, s1, s2, s3, s4, s5, s6)
  PROVE  Dispose(Ecrits(p, n, m, s1, s2, s3, s4, s5, s6), p, n, m, s1, s2, s3, s4, s5, s6)
<1> PICK w : w = Ecrits(p, n, m, s1, s2, s3, s4, s5, s6)
  OBVIOUS
<1>1. /\ p \in Nat /\ n \in Nat /\ m \in Nat
      /\ s1 \in Seq(Nat) /\ Len(s1) = n /\ s2 \in Seq(Nat) /\ Len(s2) = n + 1
      /\ s3 \in Seq(Nat) /\ Len(s3) = m /\ s4 \in Seq(Nat) /\ Len(s4) = m
      /\ s5 \in Seq(Nat) /\ Len(s5) = m /\ s6 \in Seq(Nat)
  BY DEF Tranches
<1> PICK o \in Nat : o = Len(s6)
  BY <1>1
<1>2. PICK u1 : u1 = Tete(p, n)
  OBVIOUS
<1>3. PICK u2 : u2 = u1 \o s1
  OBVIOUS
<1>4. PICK u3 : u3 = u2 \o s2
  OBVIOUS
<1>5. PICK u4 : u4 = u3 \o <<m>>
  OBVIOUS
<1>6. PICK u5 : u5 = u4 \o s3
  OBVIOUS
<1>7. PICK u6 : u6 = u5 \o s4
  OBVIOUS
<1>8. PICK u7 : u7 = u6 \o s5
  OBVIOUS
<1>9. w = u7 \o s6
  BY <1>1, <1>2, <1>3, <1>4, <1>5, <1>6, <1>7, <1>8 DEF Ecrits
<1>10. u1 \in Seq(Nat) /\ Len(u1) = 5 /\ u1[4] = p /\ u1[5] = n
  BY <1>1, <1>2 DEF Tete, magic, formatVersion
<1>11. <<m>> \in Seq(Nat) /\ Len(<<m>>) = 1 /\ <<m>>[1] = m
  BY <1>1
<1>12. u2 \in Seq(Nat) /\ Len(u2) = 5 + n /\ Porte(u2, 5, s1) /\ Prolonge(u2, u1)
  <2>1. Collee(u2, u1, s1)
    BY <1>1, <1>3, <1>10, Colle
  <2>2. u2 \in Seq(Nat) /\ Len(u2) = 5 + n /\ Porte(u2, 5, s1) /\ Prolonge(u2, u1)
    BY <1>1, <1>10, <2>1 DEF Collee
  <2> QED  BY <1>1, <2>2
<1>13. u3 \in Seq(Nat) /\ Len(u3) = 6 + 2 * n /\ Porte(u3, 5 + n, s2) /\ Prolonge(u3, u2)
  <2>1. Collee(u3, u2, s2)
    BY <1>1, <1>4, <1>12, Colle
  <2>2. u3 \in Seq(Nat) /\ Len(u3) = (5 + n) + (n + 1) /\ Porte(u3, 5 + n, s2) /\ Prolonge(u3, u2)
    BY <1>1, <1>12, <2>1 DEF Collee
  <2> QED  BY <1>1, <2>2
<1>14. u4 \in Seq(Nat) /\ Len(u4) = 7 + 2 * n /\ Porte(u4, 6 + 2 * n, <<m>>) /\ Prolonge(u4, u3)
  <2>1. Collee(u4, u3, <<m>>)
    BY <1>1, <1>5, <1>13, <1>11, Colle
  <2>2. u4 \in Seq(Nat) /\ Len(u4) = (6 + 2 * n) + 1 /\ Porte(u4, 6 + 2 * n, <<m>>) /\ Prolonge(u4, u3)
    BY <1>1, <1>13, <1>11, <2>1 DEF Collee
  <2> QED  BY <1>1, <2>2
<1>15. u5 \in Seq(Nat) /\ Len(u5) = 7 + 2 * n + m /\ Porte(u5, 7 + 2 * n, s3) /\ Prolonge(u5, u4)
  <2>1. Collee(u5, u4, s3)
    BY <1>1, <1>6, <1>14, Colle
  <2>2. u5 \in Seq(Nat) /\ Len(u5) = (7 + 2 * n) + m /\ Porte(u5, 7 + 2 * n, s3) /\ Prolonge(u5, u4)
    BY <1>1, <1>14, <2>1 DEF Collee
  <2> QED  BY <1>1, <2>2
<1>16. u6 \in Seq(Nat) /\ Len(u6) = 7 + 2 * n + 2 * m /\ Porte(u6, 7 + 2 * n + m, s4) /\ Prolonge(u6, u5)
  <2>1. Collee(u6, u5, s4)
    BY <1>1, <1>7, <1>15, Colle
  <2>2. u6 \in Seq(Nat) /\ Len(u6) = (7 + 2 * n + m) + m /\ Porte(u6, 7 + 2 * n + m, s4) /\ Prolonge(u6, u5)
    BY <1>1, <1>15, <2>1 DEF Collee
  <2> QED  BY <1>1, <2>2
<1>17. u7 \in Seq(Nat) /\ Len(u7) = 7 + 2 * n + 3 * m /\ Porte(u7, 7 + 2 * n + 2 * m, s5) /\ Prolonge(u7, u6)
  <2>1. Collee(u7, u6, s5)
    BY <1>1, <1>8, <1>16, Colle
  <2>2. u7 \in Seq(Nat) /\ Len(u7) = (7 + 2 * n + 2 * m) + m /\ Porte(u7, 7 + 2 * n + 2 * m, s5) /\ Prolonge(u7, u6)
    BY <1>1, <1>16, <2>1 DEF Collee
  <2> QED  BY <1>1, <2>2
<1>18. w \in Seq(Nat) /\ Len(w) = 7 + 2 * n + 3 * m + o /\ Porte(w, 7 + 2 * n + 3 * m, s6) /\ Prolonge(w, u7)
  <2>1. Collee(w, u7, s6)
    BY <1>1, <1>9, <1>17, Colle
  <2>2. w \in Seq(Nat) /\ Len(w) = (7 + 2 * n + 3 * m) + o /\ Porte(w, 7 + 2 * n + 3 * m, s6) /\ Prolonge(w, u7)
    BY <1>1, <1>17, <2>1 DEF Collee
  <2> QED  BY <1>1, <2>2
<1>19. Prolonge(w, u7) /\ Prolonge(w, u6) /\ Prolonge(w, u5)
  BY <1>1, <1>15, <1>16, <1>17, <1>18, Rallonge
<1>20. Prolonge(w, u4) /\ Prolonge(w, u3) /\ Prolonge(w, u2)
  BY <1>1, <1>12, <1>13, <1>14, <1>15, <1>18, <1>19, Rallonge
<1>21. Prolonge(w, u1)
  BY <1>1, <1>10, <1>12, <1>18, <1>20, Rallonge
<1>22. w[4] = p /\ w[5] = n
  BY <1>1, <1>10, <1>21 DEF Prolonge
<1>23. w[7 + 2 * n] = m
  <2>1. u4[(6 + 2 * n) + 1] = m
    BY <1>1, <1>11, <1>14 DEF Porte
  <2>2. 7 + 2 * n \in 1 .. Len(u4) /\ (6 + 2 * n) + 1 = 7 + 2 * n
    BY <1>1, <1>14
  <2>3. w[7 + 2 * n] = u4[7 + 2 * n]
    BY <1>1, <1>20, <2>2 DEF Prolonge
  <2> QED  BY <1>1, <2>1, <2>2, <2>3
<1>24. Porte(w, 5, s1)
  <2>1. 5 \in Nat /\ (5) + Len(s1) <= Len(u2)
    BY <1>1, <1>12
  <2> QED  BY <1>1, <1>12, <1>18, <1>20, <2>1, PorteGardee
<1>25. Porte(w, 5 + n, s2)
  <2>1. 5 + n \in Nat /\ (5 + n) + Len(s2) <= Len(u3)
    BY <1>1, <1>13
  <2> QED  BY <1>1, <1>13, <1>18, <1>20, <2>1, PorteGardee
<1>26. Porte(w, 7 + 2 * n, s3)
  <2>1. 7 + 2 * n \in Nat /\ (7 + 2 * n) + Len(s3) <= Len(u5)
    BY <1>1, <1>15
  <2> QED  BY <1>1, <1>15, <1>18, <1>19, <2>1, PorteGardee
<1>27. Porte(w, 7 + 2 * n + m, s4)
  <2>1. 7 + 2 * n + m \in Nat /\ (7 + 2 * n + m) + Len(s4) <= Len(u6)
    BY <1>1, <1>16
  <2> QED  BY <1>1, <1>16, <1>18, <1>19, <2>1, PorteGardee
<1>28. Porte(w, 7 + 2 * n + 2 * m, s5)
  <2>1. 7 + 2 * n + 2 * m \in Nat /\ (7 + 2 * n + 2 * m) + Len(s5) <= Len(u7)
    BY <1>1, <1>17
  <2> QED  BY <1>1, <1>17, <1>18, <1>19, <2>1, PorteGardee
<1> QED  BY <1>18, <1>22, <1>23, <1>24, <1>25, <1>26, <1>27, <1>28 DEF Dispose

\* The words of the builder.
Ecriture(w) ==
  /\ w[4] = extrait /\ numNodes(w) = b.n /\ numEdges(w) = b.m
  /\ \A n \in 0 .. b.n - 1 : w[6 + n] = b.coords[n]
  /\ \A n \in 0 .. b.n : offsets(w)[n] = C!offsets[n]
  /\ \A e \in 0 .. b.m - 1 : /\ targets(w)[e] = b.to[C!order[e]]
                             /\ attrs(w)[e] = Paquet(b.attrs[C!order[e]])
                             /\ reverse(w)[e] = C!reverse(C!newIndex, C!order)[e]

Lues(w, p, n, m, s1, s2, s3, s4, s5) ==
  /\ w[4] = p /\ numNodes(w) = n /\ numEdges(w) = m
  /\ \A k \in 0 .. n - 1 : w[6 + k] = s1[k + 1]
  /\ \A k \in 0 .. n : offsets(w)[k] = s2[k + 1]
  /\ \A e \in 0 .. m - 1 : /\ targets(w)[e] = s3[e + 1] /\ attrs(w)[e] = s4[e + 1]
                           /\ reverse(w)[e] = s5[e + 1]

LEMMA DisposeLu ==
  ASSUME NEW w, NEW p, NEW n, NEW m, NEW s1, NEW s2, NEW s3, NEW s4, NEW s5, NEW s6,
         Tranches(p, n, m, s1, s2, s3, s4, s5, s6), Dispose(w, p, n, m, s1, s2, s3, s4, s5, s6)
  PROVE  Lues(w, p, n, m, s1, s2, s3, s4, s5)
<1>1. /\ n \in Nat /\ m \in Nat /\ Len(s1) = n /\ Len(s2) = n + 1
      /\ Len(s3) = m /\ Len(s4) = m /\ Len(s5) = m
  BY DEF Tranches
<1>2. w[4] = p /\ numNodes(w) = n /\ numEdges(w) = m
  BY DEF Dispose, numNodes, numEdges
<1>3. ASSUME NEW k \in 0 .. n - 1 PROVE w[6 + k] = s1[k + 1]
  <2>1. k + 1 \in 1 .. n /\ 5 + (k + 1) = 6 + k
    BY <1>1
  <2> QED  BY <1>1, <2>1 DEF Dispose, Porte
<1>4. ASSUME NEW k \in 0 .. n PROVE offsets(w)[k] = s2[k + 1]
  <2>1. k + 1 \in 1 .. n + 1 /\ (5 + n) + (k + 1) = 6 + n + k
    BY <1>1
  <2>2. w[6 + n + k] = s2[k + 1]
    BY <1>1, <2>1 DEF Dispose, Porte
  <2> QED  BY <1>2, <2>2 DEF offsets
<1>5. ASSUME NEW e \in 0 .. m - 1
      PROVE  targets(w)[e] = s3[e + 1] /\ attrs(w)[e] = s4[e + 1] /\ reverse(w)[e] = s5[e + 1]
  <2>1. /\ e + 1 \in 1 .. m
        /\ (7 + 2 * n) + (e + 1) = 8 + 2 * n + e
        /\ (7 + 2 * n + m) + (e + 1) = 8 + 2 * n + m + e
        /\ (7 + 2 * n + 2 * m) + (e + 1) = 8 + 2 * n + 2 * m + e
    BY <1>1
  <2>2. w[8 + 2 * n + e] = s3[e + 1]
    BY <1>1, <2>1 DEF Dispose, Porte
  <2>3. w[8 + 2 * n + m + e] = s4[e + 1]
    BY <1>1, <2>1 DEF Dispose, Porte
  <2>4. w[8 + 2 * n + 2 * m + e] = s5[e + 1]
    BY <1>1, <2>1 DEF Dispose, Porte
  <2> QED  BY <1>2, <2>2, <2>3, <2>4 DEF targets, attrs, reverse
<1> QED  BY <1>2, <1>3, <1>4, <1>5 DEF Lues

\* What graphbuild writes is whole, its length being the one its counts tell, and
\* it is the builder, its edges sorted.
LEMMA WriteComplet ==
  ASSUME IInvLecture
  PROVE  /\ Write(Build, extrait) \in Seq(Nat) /\ Complet(Write(Build, extrait))
         /\ Ecriture(Write(Build, extrait))
<1> DEFINE s4 == [e \in 1 .. Build.m |-> Paquet(Build.attrs[e - 1])]
           s6 == [k \in 1 .. octets(Build.n) |-> Octet(Build.bits, k - 1)]
<1>1. PICK n \in Nat, m \in Nat : n = Build.n /\ m = Build.m /\ n = b.n /\ m = b.m
  BY BuildLu DEF IInvLecture
<1>2. /\ Build.coords \in [0 .. n - 1 -> Nat] /\ Build.offsets \in [0 .. n -> Nat]
      /\ Build.targets \in [0 .. m - 1 -> Nat] /\ Build.reverse \in [0 .. m - 1 -> Nat]
      /\ Build.attrs \in [0 .. m - 1 -> Attributs]
  BY <1>1, BuildLu DEF IInvLecture
<1>3. octets(n) \in Nat
  BY DEF octets
<1>4. s4 \in Seq(Nat) /\ Len(s4) = m
  <2>1. ASSUME NEW e \in 1 .. m PROVE Paquet(Build.attrs[e - 1]) \in Nat
    <3>1. Build.attrs[e - 1] \in Attributs
      BY <1>2
    <3> QED  BY <3>1, PaquetMot
  <2> QED  BY <1>1, <2>1
<1>5. s6 \in Seq(Nat) /\ Len(s6) = octets(n)
  <2>1. \A k \in 1 .. octets(n) : Octet(Build.bits, k - 1) \in Nat
    BY <1>3, OctetMot
  <2> QED  BY <1>1, <1>3, <2>1
<1>6. /\ Tranche(Build.coords, n) \in Seq(Nat) /\ Len(Tranche(Build.coords, n)) = n
      /\ Tranche(Build.targets, m) \in Seq(Nat) /\ Len(Tranche(Build.targets, m)) = m
      /\ Tranche(Build.reverse, m) \in Seq(Nat) /\ Len(Tranche(Build.reverse, m)) = m
  BY <1>2, TrancheMots
<1>7. Tranche(Build.offsets, n + 1) \in Seq(Nat) /\ Len(Tranche(Build.offsets, n + 1)) = n + 1
  BY <1>2, TrancheMots, n + 1 \in Nat, (n + 1) - 1 = n
<1>8. PICK p \in Nat : p = extrait
  BY ExtraitsAssumption DEF IInvLecture
<1>9. PICK w : w = Write(Build, extrait)
  OBVIOUS
<1>10. PICK t1, t2, t3, t4, t5, t6 :
         /\ t1 = Tranche(Build.coords, n) /\ t2 = Tranche(Build.offsets, n + 1)
         /\ t3 = Tranche(Build.targets, m) /\ t4 = s4 /\ t5 = Tranche(Build.reverse, m) /\ t6 = s6
  OBVIOUS
<1>11. w = Ecrits(p, n, m, t1, t2, t3, t4, t5, t6)
  BY <1>1, <1>8, <1>9, <1>10 DEF Write, Ecrits, Tete
<1> HIDE DEF s4, s6
<1>12. /\ w \in Seq(Nat) /\ Len(w) = 7 + 2 * n + 3 * m + octets(n)
       /\ w[5] = n /\ w[7 + 2 * n] = m
       /\ Tranches(p, n, m, t1, t2, t3, t4, t5, t6) /\ Dispose(w, p, n, m, t1, t2, t3, t4, t5, t6)
  <2>1. PICK o \in Nat : o = octets(n)
    BY <1>3
  <2>2. Tranches(p, n, m, t1, t2, t3, t4, t5, t6) /\ Len(t6) = o
    BY <1>4, <1>5, <1>6, <1>7, <1>10, <2>1 DEF Tranches
  <2>3. Dispose(w, p, n, m, t1, t2, t3, t4, t5, t6)
    BY <1>11, <2>2, EcritMots
  <2> QED  BY <2>1, <2>2, <2>3 DEF Dispose
<1>13. Complet(w)
  BY <1>3, <1>12 DEF Complet, EnTeteLu, longueur, numNodes, numEdges
<1>14. /\ w[4] = p /\ numNodes(w) = n /\ numEdges(w) = m
       /\ \A k \in 0 .. n - 1 : w[6 + k] = t1[k + 1]
       /\ \A k \in 0 .. n : offsets(w)[k] = t2[k + 1]
       /\ \A e \in 0 .. m - 1 : /\ targets(w)[e] = t3[e + 1] /\ attrs(w)[e] = t4[e + 1]
                                /\ reverse(w)[e] = t5[e + 1]
  <2>1. Lues(w, p, n, m, t1, t2, t3, t4, t5)
    BY <1>12, DisposeLu
  <2> QED  BY <2>1 DEF Lues
<1>15. /\ \A k \in 0 .. n - 1 : t1[k + 1] = Build.coords[k]
       /\ \A k \in 0 .. n : t2[k + 1] = Build.offsets[k]
  <2>1. ASSUME NEW k \in 0 .. n - 1 PROVE t1[k + 1] = Build.coords[k]
    <3>1. k + 1 \in 1 .. n /\ (k + 1) - 1 = k
      OBVIOUS
    <3> QED  BY <1>10, <3>1 DEF Tranche
  <2>2. ASSUME NEW k \in 0 .. n PROVE t2[k + 1] = Build.offsets[k]
    <3>1. k + 1 \in 1 .. n + 1 /\ (k + 1) - 1 = k
      OBVIOUS
    <3> QED  BY <1>10, <3>1 DEF Tranche
  <2> QED  BY <2>1, <2>2
<1>16. ASSUME NEW e \in 0 .. m - 1
       PROVE  /\ t3[e + 1] = Build.targets[e] /\ t4[e + 1] = Paquet(Build.attrs[e])
              /\ t5[e + 1] = Build.reverse[e]
  <2>1. e + 1 \in 1 .. m /\ (e + 1) - 1 = e
    OBVIOUS
  <2> QED  BY <1>1, <1>10, <2>1 DEF Tranche, s4
<1>17. /\ Build.coords = b.coords /\ Build.offsets = C!offsets
       /\ \A e \in 0 .. m - 1 : /\ Build.targets[e] = b.to[C!order[e]]
                                /\ Build.attrs[e] = b.attrs[C!order[e]]
                                /\ Build.reverse[e] = C!reverse(C!newIndex, C!order)[e]
  BY <1>1 DEF Build, C!Build, C!Aretes
<1>18. Ecriture(w)
  BY <1>1, <1>8, <1>14, <1>15, <1>16, <1>17 DEF Ecriture
<1> QED  BY <1>9, <1>12, <1>13, <1>18

----------------------------------------------------------------------------
(* From the extract to the service. *)

LEMMA DebutDe ==
  ASSUME NEW w \in Seq(Nat), NEW k \in 0 .. Len(w)
  PROVE  /\ Debut(w, k) \in Seq(Nat) /\ Len(Debut(w, k)) = k
         /\ \A j \in 1 .. k : Debut(w, k)[j] = w[j]
  BY DEF Debut

LEMMA DebutEntier ==
  ASSUME NEW w \in Seq(Nat)
  PROVE  Debut(w, Len(w)) = w
<1>1. Len(w) \in 0 .. Len(w)
  OBVIOUS
<1> QED  BY <1>1, DebutDe

LEMMA SuitesEgales ==
  ASSUME NEW u \in Seq(Nat), NEW v \in Seq(Nat), Len(u) = Len(v),
         \A j \in 1 .. Len(u) : u[j] = v[j]
  PROVE  u = v
<1>1. u = [j \in 1 .. Len(u) |-> u[j]] /\ v = [j \in 1 .. Len(v) |-> v[j]]
  OBVIOUS
<1> QED  BY <1>1, Zenon

LEMMA DebutAllonge ==
  ASSUME NEW w \in Seq(Nat), NEW x \in Nat, NEW k \in 0 .. Len(w)
  PROVE  Debut(Append(w, x), k) = Debut(w, k)
<1>1. /\ Append(w, x) \in Seq(Nat) /\ Len(Append(w, x)) = Len(w) + 1
      /\ \A j \in 1 .. Len(w) : Append(w, x)[j] = w[j]
  OBVIOUS
<1>2. k \in 0 .. Len(Append(w, x)) /\ \A j \in 1 .. k : j \in 1 .. Len(w)
  BY <1>1
<1>3. PICK u : u = Append(w, x)
  OBVIOUS
<1>4. /\ Debut(u, k) \in Seq(Nat) /\ Len(Debut(u, k)) = k
      /\ \A j \in 1 .. k : Debut(u, k)[j] = w[j]
  BY <1>1, <1>2, <1>3, DebutDe
<1>5. PICK p, q : p = Debut(u, k) /\ q = Debut(w, k)
  OBVIOUS
<1>6. /\ q \in Seq(Nat) /\ Len(q) = k /\ \A j \in 1 .. k : q[j] = w[j]
  BY <1>5, DebutDe
<1>7. /\ p \in Seq(Nat) /\ Len(p) = k /\ \A j \in 1 .. k : p[j] = w[j]
  BY <1>4, <1>5
<1>8. p = q
  BY <1>6, <1>7, SuitesEgales
<1> QED  BY <1>3, <1>5, <1>8

\* The start of a sequence, one word further.
LEMMA DebutSuivant ==
  ASSUME NEW w \in Seq(Nat), NEW k \in 0 .. Len(w), k < Len(w)
  PROVE  Append(Debut(w, k), w[k + 1]) = Debut(w, k + 1)
<1>1. /\ Debut(w, k) \in Seq(Nat) /\ Len(Debut(w, k)) = k
      /\ \A j \in 1 .. k : Debut(w, k)[j] = w[j]
  BY DebutDe
<1>2. k + 1 \in 0 .. Len(w)
  OBVIOUS
<1>3. /\ Debut(w, k + 1) \in Seq(Nat) /\ Len(Debut(w, k + 1)) = k + 1
      /\ \A j \in 1 .. k + 1 : Debut(w, k + 1)[j] = w[j]
  BY <1>2, DebutDe
<1>4. PICK x \in Nat : x = w[k + 1]
  OBVIOUS
<1>5. PICK d \in Seq(Nat) : d = Debut(w, k)
  BY <1>1
<1>6. /\ Append(d, x) \in Seq(Nat) /\ Len(Append(d, x)) = k + 1
      /\ \A j \in 1 .. k + 1 : Append(d, x)[j] = IF j = k + 1 THEN x ELSE d[j]
  BY <1>1, <1>5
<1>7. \A j \in 1 .. k + 1 : Append(d, x)[j] = w[j]
  <2>1. \A j \in 1 .. k + 1 : j = k + 1 \/ j \in 1 .. k
    OBVIOUS
  <2> QED  BY <1>1, <1>4, <1>5, <1>6, <2>1
<1>8. PICK u \in Seq(Nat) : u = Append(d, x)
  BY <1>6
<1>9. Len(u) = k + 1 /\ \A j \in 1 .. k + 1 : u[j] = w[j]
  BY <1>6, <1>7, <1>8
<1>10. u = Debut(w, k + 1)
  <2>1. PICK v \in Seq(Nat) : /\ v = Debut(w, k + 1) /\ Len(v) = k + 1
                              /\ \A j \in 1 .. k + 1 : v[j] = w[j]
    BY <1>3
  <2>2. Len(u) = Len(v) /\ \A j \in 1 .. Len(u) : u[j] = v[j]
    BY <1>9, <2>1
  <2>3. u = v
    BY <2>2, SuitesEgales
  <2> QED  BY <2>1, <2>3
<1> QED  BY <1>4, <1>5, <1>8, <1>10

\* An artefact has no part that looks whole: its counts are in its first words.
LEMMA SeulEntier ==
  ASSUME NEW w \in Seq(Nat), Complet(w), NEW k \in 0 .. Len(w), Complet(Debut(w, k))
  PROVE  k = Len(w)
<1>1. PICK u \in Seq(Nat) : u = Debut(w, k) /\ Len(u) = k /\ \A j \in 1 .. k : u[j] = w[j]
  BY DebutDe
<1>2. Complet(u) /\ numNodes(u) \in Nat /\ numNodes(w) \in Nat
  BY <1>1, Disposition
<1>3. 5 \in 1 .. k /\ 7 + 2 * numNodes(u) \in 1 .. k
  <2>1. PICK n \in Nat : n = numNodes(u)
    BY <1>2
  <2>2. Len(u) >= 7 /\ Len(u) >= 7 + 2 * numNodes(u)
    BY <1>2 DEF Complet, EnTeteLu
  <2>3. k >= 7 /\ k >= 7 + 2 * n
    BY <1>1, <2>1, <2>2
  <2>4. 5 \in 1 .. k /\ 7 + 2 * n \in 1 .. k
    BY <2>3
  <2> QED  BY <2>1, <2>4
<1>4. numNodes(u) = numNodes(w)
  BY <1>1, <1>3 DEF numNodes
<1>5. numEdges(u) = numEdges(w)
  BY <1>1, <1>3, <1>4 DEF numEdges
<1>6. longueur(u) = longueur(w)
  BY <1>4, <1>5 DEF longueur
<1> QED  BY <1>1, <1>2, <1>6 DEF Complet

LEMMA LectureGarde ==
  ASSUME IInvLecture, [NextFabrique]_varsFabrique
  PROVE  IInvLecture'
<1>1. CASE Lire
  BY <1>1, ReadLu DEF Lire
<1>2. CASE Lancer \/ Hacher \/ Finir \/ Tomber
  BY <1>2, MemoireLue DEF Lancer, Hacher, Finir, Tomber
<1>3. CASE UNCHANGED varsLecture
  BY <1>3 DEF varsLecture, IInvLecture, Voies, Bon, Chiffre
<1>4. CASE RemplacerExtrait
  <2>1. /\ extrait <= RemplacementsMax /\ extrait' = extrait + 1
        /\ UNCHANGED <<ways, coords, iw, is, refs, b>>
    BY <1>4 DEF RemplacerExtrait, Remplacer
  <2>2. extrait' \in 1 .. RemplacementsMax + 1
    BY <2>1, ExtraitsAssumption DEF IInvLecture
  <2> QED  BY <2>1, <2>2 DEF IInvLecture
<1>5. CASE CreerArtefact \/ EcrireArtefact
  BY <1>3, <1>5 DEF CreerArtefact, EcrireArtefact
<1>6. CASE Routed /\ UNCHANGED <<varsLecture, gb, builds, mots, stable, produits>>
  BY <1>3, <1>6
<1>7. CASE UNCHANGED varsFabrique
  BY <1>3, <1>7 DEF varsFabrique
<1> QED  BY <1>1, <1>2, <1>4, <1>5, <1>6, <1>7 DEF NextFabrique, Graphbuild

\* What graphbuild does to the file is what whoever writes words may do.
LEMMA PasLibre ==
  ASSUME IInvFabrique, [NextFabrique]_varsFabrique
  PROVE  [Environnement \/ Ouvrir \/ ReadGraph \/ Arreter]_varsArtefact
<1>1. CASE CreerArtefact
  BY <1>1 DEF CreerArtefact, Environnement
<1>2. CASE EcrireArtefact
  <2>1. Len(fichier) + 1 \in 1 .. Len(mots)
    BY <1>2 DEF EcrireArtefact, IInvFabrique, IInvArtefact
  <2>2. mots[Len(fichier) + 1] \in Nat
    BY <2>1 DEF IInvFabrique
  <2> QED  BY <1>2, <2>2 DEF EcrireArtefact, Environnement
<1>3. CASE Degrader
  BY <1>3, FormatAssumption DEF Degrader, Environnement
<1>4. CASE Ouvrir \/ ReadGraph \/ Arreter
  BY <1>4
<1>5. CASE Lancer \/ Lire \/ Hacher \/ Finir \/ Tomber \/ RemplacerExtrait
  BY <1>5 DEF Lancer, Lire, Hacher, Finir, Tomber, RemplacerExtrait
<1>6. CASE UNCHANGED varsFabrique
  BY <1>6 DEF varsFabrique
<1> QED  BY <1>1, <1>2, <1>3, <1>4, <1>5, <1>6 DEF NextFabrique, Graphbuild, Routed

\* The rest of the invariant: what is on disk, in what is to be written and read.
Disque ==
  /\ mots \in Seq(Nat)
  /\ gb \in {"repos", "lit", "cree", "ecrit"}
  /\ gb \in {"cree", "ecrit"} => Complet(mots)
  /\ gb = "ecrit" => /\ ~abime /\ Len(fichier) <= Len(mots)
                     /\ fichier = Debut(mots, Len(fichier))
  /\ ~abime => Propre(fichier, produits)
  /\ serveur = "lit" /\ ~trouble =>
       /\ ~abime /\ Len(recu) <= Len(fichier)
       /\ recu = Debut(fichier, Len(recu))
  /\ serveur \in {"valide", "sert"} /\ ~trouble => recu \in produits
LEMMA InvEnDeux == IInvFabrique <=> IInvLecture /\ IInvArtefact /\ Disque
  BY DEF IInvFabrique, Disque

\* graphbuild, when it does not touch the file.
LEMMA SansEcrire ==
  ASSUME Disque, UNCHANGED <<varsArtefact, produits>>,
         mots' \in Seq(Nat), gb' \in {"repos", "lit", "cree"}, gb' = "cree" => Complet(mots')
  PROVE  Disque'
  BY DEF Disque, varsArtefact

\* Nothing in an empty file looks whole.
LEMMA RienDePropre ==
  ASSUME NEW p
  PROVE  Propre(<<>>, p)
<1> SUFFICES ASSUME NEW k \in 0 .. Len(<<>>), Complet(Debut(<<>>, k)) PROVE FALSE
  BY DEF Propre
<1>1. <<>> \in Seq(Nat) /\ k \in 0 .. Len(<<>>) /\ k = 0
  OBVIOUS
<1>2. Len(Debut(<<>>, k)) = 0
  BY <1>1, DebutDe
<1> QED  BY <1>2 DEF Complet, EnTeteLu

LEMMA CreerDisque ==
  ASSUME Disque, CreerArtefact, IInvArtefact
  PROVE  Disque'
<1>1. Propre(<<>>, produits)
  BY RienDePropre
<1>2. <<>> = Debut(mots, 0) /\ Len(<<>>) = 0 /\ Len(mots) \in Nat
  BY DEF Disque, Debut
<1>3. /\ fichier' = <<>> /\ ~abime' /\ trouble' = (trouble \/ serveur = "lit")
      /\ gb = "cree" /\ gb' = "ecrit" /\ UNCHANGED <<serveur, recu, mots, produits>>
  BY DEF CreerArtefact, Creer
<1>4. ~(serveur' = "lit" /\ ~trouble')
  BY <1>3
<1>5. serveur' \in {"valide", "sert"} /\ ~trouble' => recu' \in produits'
  BY <1>3 DEF Disque
<1>6. Len(fichier') <= Len(mots') /\ fichier' = Debut(mots', Len(fichier')) /\ mots' = mots
  BY <1>2, <1>3
<1>7. mots \in Seq(Nat) /\ Complet(mots)
  BY <1>3 DEF Disque
<1> QED  BY <1>1, <1>3, <1>4, <1>5, <1>6, <1>7 DEF Disque

LEMMA EcrireDisque ==
  ASSUME Disque, EcrireArtefact, IInvArtefact
  PROVE  Disque'
<1> DEFINE k == Len(fichier)
           x == mots[k + 1]
<1>1. /\ gb = "ecrit" /\ ~abime /\ fichier = Debut(mots, k) /\ k < Len(mots)
      /\ mots \in Seq(Nat) /\ Complet(mots) /\ fichier \in Seq(Nat) /\ k \in Nat
      /\ Propre(fichier, produits)
  BY DEF Disque, EcrireArtefact, IInvArtefact
<1>2. k \in 0 .. Len(mots) /\ x \in Nat /\ k + 1 \in 0 .. Len(mots)
  BY <1>1
<1>3. /\ fichier' = Append(fichier, x)
      /\ produits' = IF Len(fichier') = Len(mots) THEN produits \cup {mots} ELSE produits
      /\ UNCHANGED <<serveur, recu, abime, trouble, gb, mots>>
  BY DEF EcrireArtefact, Ecrire
<1>4. fichier' = Debut(mots, k + 1) /\ Len(fichier') = k + 1 /\ fichier' \in Seq(Nat)
  BY <1>1, <1>2, <1>3, DebutSuivant
<1>5. \A j \in 0 .. k : Debut(fichier', j) = Debut(fichier, j)
  BY <1>1, <1>2, <1>3, DebutAllonge
<1>6. Propre(fichier', produits')
  <2> SUFFICES ASSUME NEW j \in 0 .. k + 1, Complet(Debut(fichier', j))
               PROVE  Debut(fichier', j) \in produits'
    BY <1>4 DEF Propre
  <2>1. CASE j \in 0 .. k
    BY <1>1, <1>3, <1>5, <2>1 DEF Propre
  <2>2. CASE j = k + 1
    <3>1. Debut(fichier', j) = Debut(mots, k + 1)
      BY <1>4, <2>2, DebutEntier
    <3>2. k + 1 = Len(mots)
      BY <1>1, <1>2, <3>1, SeulEntier
    <3>3. Debut(mots, k + 1) = mots
      BY <1>1, <3>2, DebutEntier
    <3> QED  BY <1>3, <1>4, <3>1, <3>2, <3>3
  <2> QED  BY <1>1, <2>1, <2>2
<1>7. serveur = "lit" /\ ~trouble => Len(recu) <= Len(fichier') /\ recu = Debut(fichier', Len(recu))
  <2> SUFFICES ASSUME serveur = "lit", ~trouble
               PROVE  Len(recu) <= Len(fichier') /\ recu = Debut(fichier', Len(recu))
    OBVIOUS
  <2>1. Len(recu) \in 0 .. k /\ recu = Debut(fichier, Len(recu))
    BY <1>1 DEF Disque, IInvArtefact
  <2> QED  BY <1>1, <1>4, <1>5, <2>1
<1>8. serveur \in {"valide", "sert"} /\ ~trouble => recu \in produits'
  BY <1>3 DEF Disque
<1>9. Len(fichier') <= Len(mots) /\ fichier' = Debut(mots, Len(fichier'))
  BY <1>2, <1>4
<1> QED  BY <1>1, <1>3, <1>6, <1>7, <1>8, <1>9 DEF Disque

LEMMA RefuserDisque ==
  ASSUME Disque, Refuser, UNCHANGED <<gb, mots, produits>>
  PROVE  Disque'
  BY DEF Disque, Refuser

\* What routed has read of a sound file starts it, and when it is whole it is
\* one that was written to its end.
LEMMA LireDisque ==
  ASSUME Disque, LireMot, IInvArtefact, UNCHANGED <<gb, mots, produits>>
  PROVE  Disque'
<1> DEFINE k == Len(recu)
           w == Append(recu, fichier[k + 1])
<1>1. CASE Rejet(w) /\ Refuser
  BY <1>1, RefuserDisque
<1>2. CASE /\ ~Rejet(w)
           /\ recu' = w
           /\ serveur' = IF Complet(w) THEN "valide" ELSE "lit"
           /\ UNCHANGED <<fichier, i, degats, abime, trouble>>
  <2>1. CASE trouble
    BY <1>2, <2>1 DEF Disque
  <2>2. CASE ~trouble
    <3>1. /\ ~abime /\ k < Len(fichier) /\ k \in Nat /\ recu = Debut(fichier, k)
          /\ fichier \in Seq(Nat) /\ Propre(fichier, produits)
      BY <2>2 DEF Disque, LireMot, IInvArtefact
    <3>2. k \in 0 .. Len(fichier) /\ k + 1 \in 0 .. Len(fichier)
      BY <3>1
    <3>3. w = Debut(fichier, k + 1) /\ Len(w) = k + 1
      <4>1. Append(Debut(fichier, k), fichier[k + 1]) = Debut(fichier, k + 1)
        BY <3>1, <3>2, DebutSuivant
      <4>2. Len(Debut(fichier, k + 1)) = k + 1
        BY <3>1, <3>2, DebutDe
      <4> QED  BY <3>1, <4>1, <4>2, Zenon
    <3>4. Complet(w) => w \in produits
      BY <3>1, <3>2, <3>3 DEF Propre
    <3> HIDE DEF w, k
    <3>5. Len(recu') <= Len(fichier) /\ recu' = Debut(fichier, Len(recu'))
      BY <1>2, <3>2, <3>3
    <3> QED  BY <1>2, <2>2, <3>1, <3>4, <3>5 DEF Disque
  <2> QED  BY <2>1, <2>2
<1> QED  BY <1>1, <1>2 DEF LireMot

LEMMA RoutedDisque ==
  ASSUME Disque, Routed, IInvArtefact, UNCHANGED <<gb, mots, produits>>
  PROVE  Disque'
<1>1. CASE Ouvrir
  <2>1. recu = <<>> /\ fichier \in Seq(Nat) /\ Len(fichier) \in Nat
    BY <1>1 DEF Ouvrir, IInvArtefact
  <2>2. Len(recu) = 0 /\ recu = Debut(fichier, 0)
    BY <2>1 DEF Debut
  <2> QED  BY <1>1, <2>1, <2>2 DEF Ouvrir, Disque
<1>2. CASE FinDeFichier \/ Arreter
  BY <1>2, RefuserDisque DEF FinDeFichier, Arreter
<1>3. CASE LireMot
  BY <1>3, LireDisque
<1>4. CASE ValiderOffset
  BY <1>4, RefuserDisque DEF ValiderOffset, Disque
<1>5. CASE Charger
  BY <1>5, RefuserDisque DEF Charger, Disque
<1>6. CASE Degrader
  BY <1>6 DEF Degrader, Abimer, Disque
<1> QED  BY <1>1, <1>2, <1>3, <1>4, <1>5, <1>6 DEF Routed, ReadGraph

\* Through kills, restarts, replaced extracts and damaged words, no whole
\* artefact is ever on a sound disk but those graphbuild has finished.
THEOREM InvariantFabrique == SpecFabrique => []IInvFabrique
<1>1. InitFabrique => IInvFabrique
  <2> SUFFICES ASSUME InitFabrique PROVE IInvFabrique
    OBVIOUS
  <2>1. IInvArtefact
    BY DEF InitFabrique, InitArtefact, IInvArtefact
  <2>2. IInvLecture
    <3>1. Bon(refs, b)
      BY DEF InitFabrique, InitLecture, Bon, Vide, Bati, C!Contrat, C!Noeuds
    <3>2. Chiffre(b)
      BY DEF InitFabrique, InitLecture, Chiffre, Bati, Vide
    <3>3. \A id \in DOMAIN coords : coords[id] \in Nat
      BY DEF InitFabrique, InitLecture, Vide
    <3> QED  BY <3>1, <3>2, <3>3, ExtraitsAssumption DEF InitFabrique, InitLecture, IInvLecture
  <2>3. Propre(<<>>, produits)
    BY RienDePropre
  <2>4. Disque
    BY <2>3 DEF InitFabrique, InitArtefact, Disque
  <2> QED  BY <2>1, <2>2, <2>4, InvEnDeux
<1>2. IInvFabrique /\ [NextFabrique]_varsFabrique => IInvFabrique'
  <2> SUFFICES ASSUME IInvFabrique, [NextFabrique]_varsFabrique PROVE IInvFabrique'
    OBVIOUS
  <2>1. IInvLecture /\ IInvArtefact /\ Disque
    BY InvEnDeux
  <2>2. IInvLecture' /\ IInvArtefact'
    BY <2>1, LectureGarde, PasLibre, ArtefactGarde
  <2>3. Disque'
    <3>1. CASE Hacher
      <4>1. Write(Build, extrait) \in Seq(Nat) /\ Complet(Write(Build, extrait))
        BY <2>1, WriteComplet
      <4> QED  BY <2>1, <3>1, <4>1, SansEcrire DEF Hacher
    <3>2. CASE Lancer \/ Finir \/ Tomber
      <4>1. UNCHANGED <<varsArtefact, produits>> /\ gb' \in {"repos", "lit"}
        BY <3>2 DEF Lancer, Finir, Tomber
      <4>2. mots' \in Seq(Nat)
        <5>1. mots \in Seq(Nat) /\ <<>> \in Seq(Nat)
          BY <2>1 DEF Disque
        <5>2. CASE Lancer
          BY <5>1, <5>2 DEF Lancer
        <5>3. CASE Finir
          BY <5>1, <5>3 DEF Finir
        <5>4. CASE Tomber
          BY <5>1, <5>4 DEF Tomber
        <5> QED  BY <3>2, <5>2, <5>3, <5>4
      <4> QED  BY <2>1, <4>1, <4>2, SansEcrire
    <3>3. CASE Lire \/ RemplacerExtrait
      <4>1. UNCHANGED <<varsArtefact, gb, mots, produits>>
        BY <3>3 DEF Lire, RemplacerExtrait
      <4> QED  BY <2>1, <4>1 DEF Disque, varsArtefact
    <3>4. CASE CreerArtefact
      BY <2>1, <3>4, CreerDisque
    <3>5. CASE EcrireArtefact
      BY <2>1, <3>5, EcrireDisque
    <3>6. CASE Routed /\ UNCHANGED <<varsLecture, gb, builds, mots, stable, produits>>
      BY <2>1, <3>6, RoutedDisque
    <3>7. CASE UNCHANGED varsFabrique
      BY <2>1, <3>7 DEF varsFabrique, varsArtefact, Disque
    <3> QED  BY <3>1, <3>2, <3>4, <3>5, <3>6, <3>7, <3>3 DEF NextFabrique, Graphbuild
  <2> QED  BY <2>2, <2>3, InvEnDeux DEF IInvFabrique, Disque
<1> QED  BY <1>1, <1>2, PTL DEF SpecFabrique

\* The artefact under graphbuild and the disk is one anybody may write: what is
\* proved of the second holds of the first.
THEOREM FabriqueEstLibre == SpecFabrique => SpecLibre
<1>1. InitFabrique => InitArtefact
  BY DEF InitFabrique
<1>2. IInvFabrique /\ [NextFabrique]_varsFabrique
        => [Environnement \/ Ouvrir \/ ReadGraph \/ Arreter]_varsArtefact
  BY PasLibre
<1> QED  BY <1>1, <1>2, InvariantFabrique, PTL DEF SpecFabrique, SpecLibre

\* A served graph is one that graphbuild wrote to its end.
THEOREM ServiEntierCorrect == SpecFabrique => []ServiEntier
<1>1. IInvFabrique => ServiEntier
  BY DEF IInvFabrique, ServiEntier
<1> QED  BY <1>1, InvariantFabrique, PTL

\* And its slices and its costs are in order.
THEOREM ServiceCorrect == SpecFabrique => [](ServiSur /\ CoutAdmissible)
  BY FabriqueEstLibre, ServiSurCorrect, CoutCorrect, PTL

----------------------------------------------------------------------------
(* What an artefact says of the extract it was built from. *)

\* What is packed is told back, a length being rounded.
LEMMA PaquetRelu ==
  ASSUME NEW a \in Attributs
  PROVE  /\ Attrs(Paquet(a)).longueur = Arrondi(a.longueur)
         /\ Attrs(Paquet(a)).surface = CodeSurface[a.surface]
<1>1. /\ a.longueur \in Nat /\ a.traffic \in 0 .. 255
      /\ a.surface \in {"paved", "gravel", "ground"}
  BY DEF Attributs
<1>2. PICK k \in 0 .. 255 : k = CodeSurface[a.surface]
  BY <1>1 DEF CodeSurface
<1>3. PICK l \in Nat : l = Arrondi(a.longueur)
  BY <1>1, ArrondiNat
<1>4. PICK t \in 0 .. 255 : t = a.traffic
  BY <1>1
<1>5. PICK p \in Nat : p = 256 * 256 * (2 * l) + 256 * k + t
  OBVIOUS
<1>6. Paquet(a) = p
  BY <1>2, <1>3, <1>4, <1>5 DEF Paquet
<1>7. p \div (256 * 256) = 2 * l
  BY <1>5
<1>8. (p \div 256) % 256 = k
  <2>1. p \div 256 = 256 * (2 * l) + k
    BY <1>5
  <2>2. PICK q \in Nat : q = 2 * l
    OBVIOUS
  <2>3. (256 * q + k) % 256 = k
    OBVIOUS
  <2> QED  BY <2>1, <2>2, <2>3
<1>9. (2 * l) % 2 = 0 /\ (2 * l) \div 2 = l
  OBVIOUS
<1>10. Reel(2 * l) = l
  BY <1>9 DEF Reel
<1> QED  BY <1>2, <1>3, <1>6, <1>7, <1>8, <1>10 DEF Attrs

\* nodeRef numbers a node once, after those that have a number.
LEMMA NodeRefNumerote ==
  ASSUME NEW e, Bon(e.refs, e.b), Chiffre(e.b), Numerotes(e.refs, e.b), NEW id,
         \A j \in DOMAIN coords : coords[j] \in Nat
  PROVE  LET f == NodeRef(e, id) IN
         /\ Numerotes(f.refs, f.b)
         /\ DOMAIN f.refs = DOMAIN e.refs \cup ({id} \cap DOMAIN coords)
         /\ \A j \in DOMAIN e.refs : f.refs[j] = e.refs[j]
         /\ f.b.m = e.b.m /\ f.b.from = e.b.from /\ f.b.to = e.b.to /\ f.b.attrs = e.b.attrs
         /\ Bon(f.refs, f.b) /\ Chiffre(f.b)
<1>1. Bon(NodeRef(e, id).refs, NodeRef(e, id).b) /\ Chiffre(NodeRef(e, id).b)
  BY NodeRefBon, NodeRefChiffre
<1>2. CASE id \in DOMAIN e.refs \/ id \notin DOMAIN coords
  BY <1>1, <1>2 DEF NodeRef, Numerotes
<1>3. CASE ~(id \in DOMAIN e.refs \/ id \notin DOMAIN coords)
  <2>1. PICK r : r = [j \in DOMAIN e.refs \cup {id} |-> IF j = id THEN e.b.n ELSE e.refs[j]]
    OBVIOUS
  <2>2. PICK d : d = AddNode(e.b, coords[id])
    OBVIOUS
  <2>3. NodeRef(e, id).refs = r /\ NodeRef(e, id).b = d
    BY <1>3, <2>1, <2>2 DEF NodeRef
  <2>4. /\ DOMAIN e.b = {"n", "m", "from", "to", "attrs", "coords"}
        /\ \A j \in DOMAIN e.refs : e.refs[j] \in 0 .. e.b.n - 1
        /\ e.b.coords \in [0 .. e.b.n - 1 -> Nat]
    <3>1. PICK c : c = e.b
      OBVIOUS
    <3>2. PICK z : z = e.refs
      OBVIOUS
    <3>3. /\ DOMAIN c = {"n", "m", "from", "to", "attrs", "coords"}
          /\ \A j \in DOMAIN z : z[j] \in 0 .. c.n - 1
          /\ c.coords \in [0 .. c.n - 1 -> Nat]
      BY <3>1, <3>2 DEF Bon, Chiffre
    <3> QED  BY <3>1, <3>2, <3>3
  <2>5. PICK n \in Nat : n = e.b.n
    BY DEF Bon, C!Contrat
  <2>6. /\ d.n = n + 1 /\ d.m = e.b.m /\ d.from = e.b.from /\ d.to = e.b.to /\ d.attrs = e.b.attrs
        /\ d.coords = Ajouter(e.b.coords, n, coords[id])
    <3>1. PICK c : c = e.b
      OBVIOUS
    <3>2. /\ d = [c EXCEPT !.n = n + 1, !.coords = Ajouter(c.coords, n, coords[id])]
          /\ DOMAIN c = {"n", "m", "from", "to", "attrs", "coords"}
      BY <2>2, <2>4, <2>5, <3>1 DEF AddNode
    <3>3. /\ d.n = n + 1 /\ d.m = c.m /\ d.from = c.from /\ d.to = c.to /\ d.attrs = c.attrs
          /\ d.coords = Ajouter(c.coords, n, coords[id])
      BY <3>2
    <3> QED  BY <3>1, <3>3
  <2>7. /\ \A k \in 0 .. n - 1 : d.coords[k] = e.b.coords[k]
        /\ d.coords[n] = coords[id]
    <3>1. PICK f \in [0 .. n - 1 -> Nat] : f = e.b.coords
      BY <2>4, <2>5
    <3>2. PICK z \in Nat : z = coords[id]
      BY <1>3
    <3>3. PICK h : h = Ajouter(f, n, z)
      OBVIOUS
    <3>4. Suivi(h, f, n, Nat, z)
      BY <3>3, Ajout
    <3> QED  BY <2>6, <3>1, <3>2, <3>3, <3>4 DEF Suivi
  <2>8. /\ DOMAIN r = DOMAIN e.refs \cup {id} /\ id \notin DOMAIN e.refs
        /\ r[id] = n /\ \A j \in DOMAIN e.refs : r[j] = e.refs[j] /\ r[j] \in 0 .. n - 1
    BY <1>3, <2>1, <2>4, <2>5
  <2>9. Numerotes(r, d)
    <3>1. DOMAIN r \subseteq DOMAIN coords
      BY <1>3, <2>8 DEF Numerotes
    <3>2. \A i1, i2 \in DOMAIN r : r[i1] = r[i2] => i1 = i2
      <4>1. n \notin 0 .. n - 1
        OBVIOUS
      <4> QED  BY <2>8, <4>1 DEF Numerotes
    <3>3. \A k \in 0 .. d.n - 1 : \E j \in DOMAIN r : r[j] = k
      <4> SUFFICES ASSUME NEW k \in 0 .. d.n - 1 PROVE \E j \in DOMAIN r : r[j] = k
        OBVIOUS
      <4>1. k = n \/ k \in 0 .. n - 1
        BY <2>6
      <4> QED  BY <2>5, <2>8, <4>1 DEF Numerotes
    <3>4. \A j \in DOMAIN r : d.coords[r[j]] = coords[j]
      BY <2>7, <2>8 DEF Numerotes
    <3> QED  BY <3>1, <3>2, <3>3, <3>4 DEF Numerotes
  <2>10. DOMAIN r = DOMAIN e.refs \cup ({id} \cap DOMAIN coords)
    BY <1>3, <2>8
  <2> QED  BY <1>1, <2>3, <2>6, <2>8, <2>9, <2>10
<1> QED  BY <1>2, <1>3

\* One more value at the end of an enumeration.
Allongee(f, h, q, S, s) ==
  Bijective(f, q + 1, S \cup {s}) /\ f[q] = s /\ \A t \in 0 .. q - 1 : f[t] = h[t]
LEMMA BijectifAllonge ==
  ASSUME NEW q \in Nat, NEW S, NEW h, Bijective(h, q, S), NEW s, s \notin S
  PROVE  \E f : Allongee(f, h, q, S, s)
<1>1. PICK f : f = [t \in 0 .. (q + 1) - 1 |-> IF t = q THEN s ELSE h[t]]
  OBVIOUS
<1>2. q \in 0 .. (q + 1) - 1 /\ q \notin 0 .. q - 1
      /\ \A t : t \in 0 .. (q + 1) - 1 <=> t = q \/ t \in 0 .. q - 1
  OBVIOUS
<1>3. f[q] = s /\ \A t \in 0 .. q - 1 : f[t] = h[t] /\ f[t] \in S
  BY <1>1, <1>2 DEF Bijective
<1>4. f \in [0 .. (q + 1) - 1 -> S \cup {s}]
  BY <1>1, <1>2, <1>3
<1>5. \A t, u \in 0 .. (q + 1) - 1 : f[t] = f[u] => t = u
  BY <1>2, <1>3 DEF Bijective
<1>6. \A y \in S \cup {s} : \E t \in 0 .. (q + 1) - 1 : f[t] = y
  BY <1>2, <1>3 DEF Bijective
<1>7. Bijective(f, q + 1, S \cup {s})
  BY <1>4, <1>5, <1>6 DEF Bijective
<1> QED  BY <1>3, <1>7 DEF Allongee

\* The slices of a builder after a segment.
LEMMA DeuxSensFaits ==
  ASSUME NEW r, NEW d, Bon(r, d), Chiffre(d), NEW u \in 0 .. d.n - 1, NEW v \in 0 .. d.n - 1,
         NEW a \in Attributs
  PROVE  LET f == DeuxSens(d, u, v, a) IN
         /\ d.m \in Nat /\ d.m % 2 = 0 /\ f.n = d.n /\ f.m = d.m + 2 /\ f.coords = d.coords
         /\ \A k \in 0 .. d.m - 1 : f.from[k] = d.from[k] /\ f.to[k] = d.to[k] /\ f.attrs[k] = d.attrs[k]
         /\ f.from[d.m] = u /\ f.to[d.m] = v /\ f.attrs[d.m] = a /\ f.attrs[d.m + 1] = a
<1>1. PICK f : f = DeuxSens(d, u, v, a)
  OBVIOUS
<1>2. PICK m \in Nat : m = d.m /\ m % 2 = 0
  BY DEF Bon, C!Contrat
<1>3. /\ DOMAIN d = {"n", "m", "from", "to", "attrs", "coords"}
      /\ d.from \in [0 .. m - 1 -> 0 .. d.n - 1] /\ d.to \in [0 .. m - 1 -> 0 .. d.n - 1]
      /\ d.attrs \in [0 .. m - 1 -> Attributs]
  BY <1>2 DEF Bon, C!Contrat, C!Noeuds, Chiffre
<1>4. /\ f.n = d.n /\ f.m = m + 1 + 1 /\ f.coords = d.coords
      /\ f.from = Ajouter(Ajouter(d.from, m, u), m + 1, v)
      /\ f.to = Ajouter(Ajouter(d.to, m, v), m + 1, u)
      /\ f.attrs = Ajouter(Ajouter(d.attrs, m, a), m + 1, a)
  BY <1>1, <1>2, <1>3 DEF DeuxSens, AddEdge
<1>5. /\ Suivis(f.from, d.from, m, 0 .. d.n - 1, u, v)
      /\ Suivis(f.to, d.to, m, 0 .. d.n - 1, v, u)
      /\ Suivis(f.attrs, d.attrs, m, Attributs, a, a)
  BY <1>3, <1>4, Ajouts
<1>6. m + 1 + 1 = m + 2
  OBVIOUS
<1> QED  BY <1>1, <1>2, <1>4, <1>5, <1>6 DEF Suivis

\* The two ends of a pair get their NodeRefs.
LEMMA PaireRencontree ==
  ASSUME NEW P, NEW r, NEW c, Assemblable(P, r, c), Bon(r, c), Chiffre(c), NEW s,
         \A j \in DOMAIN coords : coords[j] \in Nat
  PROVE  LET e == NodeRef(NodeRef([refs |-> r, b |-> c], Amont(s)), Aval(s)) IN
         /\ Bon(e.refs, e.b) /\ Chiffre(e.b) /\ Numerotes(e.refs, e.b)
         /\ DOMAIN e.refs = Rencontres(P \cup {s})
         /\ Enumerees(P, e.refs, e.b)
<1>1. PICK e0 : e0 = [refs |-> r, b |-> c]
  OBVIOUS
<1>2. PICK u, y : u = Amont(s) /\ y = Aval(s)
  OBVIOUS
<1>3. PICK e1 : e1 = NodeRef(e0, u)
  OBVIOUS
<1>4. PICK e : e = NodeRef(e1, y)
  OBVIOUS
<1>5. e0.refs = r /\ e0.b = c
  BY <1>1
<1>6. Bon(e0.refs, e0.b) /\ Chiffre(e0.b) /\ Numerotes(e0.refs, e0.b)
  BY <1>5 DEF Assemblable
<1>7. /\ Numerotes(e1.refs, e1.b) /\ Bon(e1.refs, e1.b) /\ Chiffre(e1.b)
      /\ DOMAIN e1.refs = DOMAIN e0.refs \cup ({u} \cap DOMAIN coords)
      /\ \A j \in DOMAIN e0.refs : e1.refs[j] = e0.refs[j]
      /\ e1.b.m = e0.b.m /\ e1.b.from = e0.b.from /\ e1.b.to = e0.b.to /\ e1.b.attrs = e0.b.attrs
  BY <1>3, <1>6, NodeRefNumerote
<1>8. /\ Numerotes(e.refs, e.b) /\ Bon(e.refs, e.b) /\ Chiffre(e.b)
      /\ DOMAIN e.refs = DOMAIN e1.refs \cup ({y} \cap DOMAIN coords)
      /\ \A j \in DOMAIN e1.refs : e.refs[j] = e1.refs[j]
      /\ e.b.m = e1.b.m /\ e.b.from = e1.b.from /\ e.b.to = e1.b.to /\ e.b.attrs = e1.b.attrs
  BY <1>4, <1>7, NodeRefNumerote
<1>9. PICK k, d : k = e.refs /\ d = e.b
  OBVIOUS
<1>10. /\ DOMAIN k = DOMAIN r \cup ({u, y} \cap DOMAIN coords)
       /\ \A j \in DOMAIN r : k[j] = r[j]
       /\ d.m = c.m /\ d.from = c.from /\ d.to = c.to /\ d.attrs = c.attrs
  BY <1>5, <1>7, <1>8, <1>9
<1>11. DOMAIN k = Rencontres(P \cup {s})
  <2>1. DOMAIN r = Rencontres(P)
    BY DEF Assemblable
  <2> QED  BY <1>2, <1>10, <2>1 DEF Rencontres
<1>12. Enumerees(P, k, d)
  <2>1. PICK h \in [0 .. c.m \div 2 - 1 -> Utiles(P)] :
          Bijective(h, c.m \div 2, Utiles(P)) /\ Assemblees(h, r, c)
    BY DEF Assemblable, Enumerees
  <2>2. \A t \in 0 .. c.m \div 2 - 1 : Amont(h[t]) \in DOMAIN r /\ Aval(h[t]) \in DOMAIN r
    <3> SUFFICES ASSUME NEW t \in 0 .. c.m \div 2 - 1
                 PROVE  Amont(h[t]) \in DOMAIN r /\ Aval(h[t]) \in DOMAIN r
      OBVIOUS
    <3>1. h[t] \in P /\ Utile(h[t])
      BY <2>1 DEF Utiles
    <3>2. {Amont(h[t]), Aval(h[t])} \subseteq DOMAIN coords
      BY <3>1 DEF Utile
    <3> QED  BY <3>1, <3>2 DEF Assemblable, Rencontres
  <2>3. Assemblees(h, k, d)
    BY <1>10, <2>1, <2>2 DEF Assemblees
  <2> QED  BY <1>10, <2>1, <2>3 DEF Enumerees
<1> QED  BY <1>1, <1>2, <1>3, <1>4, <1>8, <1>9, <1>11, <1>12

\* And the segment between them is made.
LEMMA PaireAssemblee ==
  ASSUME NEW P, NEW s, s \notin P, Utile(s), NEW r, NEW d, Bon(r, d), Chiffre(d), Numerotes(r, d),
         DOMAIN r = Rencontres(P \cup {s}), Enumerees(P, r, d), Attribut(s) \in Attributs
  PROVE  Assemblable(P \cup {s}, r, DeuxSens(d, r[Amont(s)], r[Aval(s)], Attribut(s)))
<1>1. PICK u, y, a : u = r[Amont(s)] /\ y = r[Aval(s)] /\ a = Attribut(s)
  OBVIOUS
<1>2. PICK c : c = DeuxSens(d, u, y, a)
  OBVIOUS
<1>3. u \in 0 .. d.n - 1 /\ y \in 0 .. d.n - 1 /\ a \in Attributs
  <2>1. Amont(s) \in DOMAIN r /\ Aval(s) \in DOMAIN r
    BY DEF Utile, Rencontres
  <2> QED  BY <1>1, <2>1 DEF Bon
<1>4. PICK m \in Nat : m = d.m /\ m % 2 = 0
  BY DEF Bon, C!Contrat
<1>5. /\ c.n = d.n /\ c.m = m + 2 /\ c.coords = d.coords
      /\ \A k \in 0 .. m - 1 : c.from[k] = d.from[k] /\ c.to[k] = d.to[k] /\ c.attrs[k] = d.attrs[k]
      /\ c.from[m] = u /\ c.to[m] = y /\ c.attrs[m] = a /\ c.attrs[m + 1] = a
  BY <1>2, <1>3, <1>4, DeuxSensFaits
<1>6. PICK q \in Nat : q = m \div 2 /\ m = 2 * q /\ (m + 2) \div 2 = q + 1
  BY <1>4
<1>7. PICK h \in [0 .. q - 1 -> Utiles(P)] : Bijective(h, q, Utiles(P)) /\ Assemblees(h, r, d)
  BY <1>4, <1>6 DEF Enumerees
<1>8. Utiles(P \cup {s}) = Utiles(P) \cup {s} /\ s \notin Utiles(P)
  BY DEF Utiles
<1>9. PICK f : Allongee(f, h, q, Utiles(P), s)
  BY <1>7, <1>8, BijectifAllonge
<1>10. /\ f \in [0 .. (q + 1) - 1 -> Utiles(P) \cup {s}]
       /\ Bijective(f, q + 1, Utiles(P) \cup {s}) /\ f[q] = s
       /\ \A t \in 0 .. q - 1 : f[t] = h[t]
  BY <1>9 DEF Allongee, Bijective
<1>11. ASSUME NEW t \in 0 .. (q + 1) - 1
       PROVE  /\ c.from[2 * t] = r[Amont(f[t])] /\ c.to[2 * t] = r[Aval(f[t])]
              /\ c.attrs[2 * t] = Attribut(f[t]) /\ c.attrs[2 * t + 1] = Attribut(f[t])
  <2>1. t = q \/ t \in 0 .. q - 1
    OBVIOUS
  <2>2. CASE t = q
    <3>1. 2 * t = m /\ 2 * t + 1 = m + 1
      BY <1>6, <2>2
    <3> QED  BY <1>1, <1>5, <1>10, <2>2, <3>1
  <2>3. CASE t \in 0 .. q - 1
    <3>1. 2 * t \in 0 .. m - 1 /\ 2 * t + 1 \in 0 .. m - 1
      BY <1>6, <2>3
    <3>2. PICK x : x = h[t] /\ f[t] = x
      BY <1>10, <2>3
    <3>3. /\ d.from[2 * t] = r[Amont(x)] /\ d.to[2 * t] = r[Aval(x)]
          /\ d.attrs[2 * t] = Attribut(x) /\ d.attrs[2 * t + 1] = Attribut(x)
      BY <1>4, <1>6, <1>7, <2>3, <3>2 DEF Assemblees
    <3> QED  BY <1>5, <3>1, <3>2, <3>3
  <2> QED  BY <2>1, <2>2, <2>3
<1>12. Assemblees(f, r, c)
  <2>1. c.m \div 2 = q + 1
    BY <1>5, <1>6
  <2> QED  BY <1>11, <2>1 DEF Assemblees
<1>13. Enumerees(P \cup {s}, r, c)
  <2>1. c.m \div 2 = q + 1
    BY <1>5, <1>6
  <2> QED  BY <1>8, <1>10, <1>12, <2>1 DEF Enumerees
<1>14. Numerotes(r, c)
  BY <1>5 DEF Numerotes
<1> QED  BY <1>1, <1>2, <1>13, <1>14 DEF Assemblable

\* A pair of consecutive nodes, by its way and its place.
LEMMA PaireDe ==
  ASSUME NEW s
  PROVE  s \in Passees <=> \E j \in 1 .. Len(ways) : \E p \in 1 .. Len(ways[j].nodes) - 1 :
           s = <<j, p>> /\ (j < iw \/ (j = iw /\ p < is))
<1>1. s \in Paires <=> \E j \in 1 .. Len(ways) : \E p \in 1 .. Len(ways[j].nodes) - 1 : s = <<j, p>>
  BY DEF Paires
<1>2. \A j, p : <<j, p>>[1] = j /\ <<j, p>>[2] = p
  OBVIOUS
<1> QED  BY <1>1, <1>2 DEF Passees

\* A way that was kept has two nodes or more.
LEMMA VoieLue ==
  ASSUME IInvLecture, NEW j \in 1 .. Len(ways)
  PROVE  ways[j] \in Voies /\ Retenu(ways[j]) /\ ways[j].nodes \in Seq(Nat) /\ Len(ways[j].nodes) \in Nat
<1>1. ways[j] \in Voies /\ Retenu(ways[j])
  BY DEF IInvLecture
<1>2. ways[j].nodes \in Seq(Nat)
  BY <1>1, ExtraitsAssumption DEF Voies
<1> QED  BY <1>1, <1>2

\* What a step of assemble adds to the pairs met.
LEMMA PasseesSuivantes ==
  ASSUME IInvLecture, Segment
  PROVE  /\ Passees' = Passees \cup {<<iw, is>>} /\ <<iw, is>> \notin Passees
         /\ Amont(<<iw, is>>) = ways[iw].nodes[is] /\ Aval(<<iw, is>>) = ways[iw].nodes[is + 1]
<1>1. /\ iw \in 1 .. Len(ways) /\ is \in 1 .. Len(ways[iw].nodes) - 1
      /\ iw' = iw /\ is' = is + 1 /\ ways' = ways
  <2>1. iw \in 1 .. Len(ways)
    BY DEF Segment, SegmentCourant, IInvLecture
  <2>2. Len(ways[iw].nodes) \in Nat
    BY <2>1, VoieLue
  <2> QED  BY <2>1, <2>2 DEF Segment, SegmentCourant, IInvLecture
<1>2. \A s : s \in Passees <=> \E j \in 1 .. Len(ways) : \E p \in 1 .. Len(ways[j].nodes) - 1 :
           s = <<j, p>> /\ (j < iw \/ (j = iw /\ p < is))
  BY PaireDe
<1>3. \A s : s \in Passees' <=> \E j \in 1 .. Len(ways') : \E p \in 1 .. Len(ways'[j].nodes) - 1 :
           s = <<j, p>> /\ (j < iw' \/ (j = iw' /\ p < is'))
  <2>1. \A s : s \in Paires' <=> \E j \in 1 .. Len(ways') : \E p \in 1 .. Len(ways'[j].nodes) - 1 : s = <<j, p>>
    BY DEF Paires
  <2>2. \A j, p : <<j, p>>[1] = j /\ <<j, p>>[2] = p
    OBVIOUS
  <2> QED  BY <2>1, <2>2 DEF Passees
<1>4. \A j \in 1 .. Len(ways) : \A p \in 1 .. Len(ways[j].nodes) - 1 :
        (j < iw \/ (j = iw /\ p < is + 1)) <=> (j < iw \/ (j = iw /\ p < is) \/ (j = iw /\ p = is))
  <2>1. \A p \in Int : p < is + 1 <=> p < is \/ p = is
    BY <1>1
  <2> QED  BY <2>1
<1>5. Passees' = Passees \cup {<<iw, is>>}
  <2>1. ASSUME NEW s PROVE s \in Passees' <=> s \in Passees \cup {<<iw, is>>}
    BY <1>1, <1>2, <1>3, <1>4
  <2> QED  BY <2>1
<1>6. <<iw, is>> \notin Passees
  <2>1. ~(iw < iw \/ (iw = iw /\ is < is))
    BY <1>1
  <2> QED  BY <1>2, <2>1
<1> QED  BY <1>5, <1>6 DEF Amont, Aval

\* What was met and made does not change while the passes' slices do not.
LEMMA MemesPaires ==
  ASSUME UNCHANGED <<ways, coords>>, NEW P, NEW r, NEW c, Assemblable(P, r, c)
  PROVE  Assemblable(P, r, c)'
<1>1. \A s : Amont(s)' = Amont(s) /\ Aval(s)' = Aval(s)
  BY DEF Amont, Aval
<1>2. \A s : Attribut(s)' = Attribut(s) /\ (Utile(s)' <=> Utile(s))
  BY <1>1 DEF Attribut, Utile
<1>3. Rencontres(P)' = Rencontres(P)
  BY <1>1 DEF Rencontres
<1>4. Utiles(P)' = Utiles(P)
  BY <1>2 DEF Utiles
<1>5. Numerotes(r, c)' <=> Numerotes(r, c)
  BY DEF Numerotes
<1>6. \A h : Assemblees(h, r, c)' <=> Assemblees(h, r, c)
  BY <1>1, <1>2 DEF Assemblees
<1>7. Enumerees(P, r, c)' <=> Enumerees(P, r, c)
  BY <1>4, <1>6 DEF Enumerees
<1> QED  BY <1>3, <1>5, <1>7 DEF Assemblable

\* Segment meets one more pair, and makes its segment if it is one.
LEMMA SegmentAssemble ==
  ASSUME IInvLecture, NEW v, IInvAssemblee(v), Segment
  PROVE  IInvAssemblee(v)'
<1>1. /\ SegmentCourant /\ is' = is + 1 /\ UNCHANGED <<lecture, ways, coords, iw>>
      /\ iw <= Len(ways) /\ is < Len(ways[iw].nodes)
  BY DEF Segment, SegmentCourant
<1>2. PICK P : P = Passees
  OBVIOUS
<1>3. PICK s : s = <<iw, is>>
  OBVIOUS
<1>4. /\ Passees' = P \cup {s} /\ s \notin P
      /\ Amont(s) = ways[iw].nodes[is] /\ Aval(s) = ways[iw].nodes[is + 1] /\ s[1] = iw
  BY <1>2, <1>3, PasseesSuivantes
<1>5. /\ Assemblable(P, refs, b) /\ Bon(refs, b) /\ Chiffre(b)
      /\ \A j \in DOMAIN coords : coords[j] \in Nat
  BY <1>2 DEF IInvAssemblee, IInvLecture
<1>6. PICK e : e = NodeRef(NodeRef([refs |-> refs, b |-> b], Amont(s)), Aval(s))
  OBVIOUS
<1>7. /\ Bon(e.refs, e.b) /\ Chiffre(e.b) /\ Numerotes(e.refs, e.b)
      /\ DOMAIN e.refs = Rencontres(P \cup {s}) /\ Enumerees(P, e.refs, e.b)
  BY <1>5, <1>6, PaireRencontree
<1>8. PICK r, d : r = e.refs /\ d = e.b
  OBVIOUS
<1>9. /\ refs' = r
      /\ b' = IF {Amont(s), Aval(s)} \subseteq DOMAIN coords /\ r[Amont(s)] # r[Aval(s)]
              THEN DeuxSens(d, r[Amont(s)], r[Aval(s)], Attribut(s)) ELSE d
  BY <1>4, <1>6, <1>8 DEF Segment, Attribut
<1>10. {Amont(s), Aval(s)} \subseteq DOMAIN coords /\ r[Amont(s)] # r[Aval(s)] <=> Utile(s)
  <2>1. {Amont(s), Aval(s)} \subseteq DOMAIN coords => Amont(s) \in DOMAIN r /\ Aval(s) \in DOMAIN r
    BY <1>7, <1>8 DEF Rencontres
  <2> QED  BY <1>7, <1>8, <2>1 DEF Numerotes, Utile
<1>11. Assemblable(P \cup {s}, refs', b')
  <2>1. CASE Utile(s)
    <3>1. Attribut(s) \in Attributs
      <4>1. coords[Amont(s)] \in Nat /\ coords[Aval(s)] \in Nat
        BY <1>5, <2>1 DEF Utile
      <4>2. Longueur(coords[Amont(s)], coords[Aval(s)]) \in Nat
        BY <4>1 DEF Longueur
      <4>3. Praticable(ways[s[1]].tags)
        <5>1. iw \in 1 .. Len(ways)
          BY <1>1 DEF IInvLecture
        <5> QED  BY <1>4, <5>1, VoieLue DEF Retenu
      <4> QED  BY <4>2, <4>3, ClasseBonne DEF Attribut, Attributs
    <3>2. Assemblable(P \cup {s}, r, DeuxSens(d, r[Amont(s)], r[Aval(s)], Attribut(s)))
      BY <1>4, <1>7, <1>8, <2>1, <3>1, PaireAssemblee
    <3> QED  BY <1>9, <1>10, <2>1, <3>2
  <2>2. CASE ~Utile(s)
    <3>1. Utiles(P \cup {s}) = Utiles(P)
      BY <2>2 DEF Utiles
    <3>2. Enumerees(P \cup {s}, r, d)
      BY <1>7, <1>8, <3>1 DEF Enumerees
    <3> QED  BY <1>7, <1>8, <1>9, <1>10, <2>2, <3>2 DEF Assemblable
  <2> QED  BY <2>1, <2>2
<1>12. PICK P2, r2, b2 : P2 = P \cup {s} /\ r2 = refs' /\ b2 = b'
  OBVIOUS
<1>13. Assemblable(P2, r2, b2)'
  BY <1>1, <1>11, <1>12, MemesPaires
<1>14. Assemblable(Passees, refs, b)'
  BY <1>4, <1>12, <1>13
<1>15. coords' = [id \in Needed(ways') \cap DOMAIN Extraits[v].noeuds |-> Extraits[v].noeuds[id]]
  BY <1>1 DEF IInvAssemblee
<1>16. iw' <= Len(ways') => is' <= Len(ways'[iw'].nodes)
  <2>1. iw \in 1 .. Len(ways) /\ is \in Nat
    BY <1>1 DEF IInvLecture
  <2>2. Len(ways[iw].nodes) \in Nat
    BY <2>1, VoieLue
  <2> QED  BY <1>1, <2>1, <2>2
<1>17. lecture' # "lu"
  BY <1>1 DEF SegmentCourant
<1> QED  BY <1>14, <1>15, <1>16, <1>17 DEF IInvAssemblee

\* The way read, and kept if it may be.
LEMMA ScanSuit ==
  ASSUME IInvLecture, NEW v, v = extrait, IInvPasses(v), ScanWay
  PROVE  IInvPasses(v)'
<1>1. PICK G : G = Gardables(v)
  OBVIOUS
<1>2. PICK n \in Nat : n = Len(ways)
  BY DEF IInvLecture
<1>3. PICK f \in [1 .. n -> G] : Gardees(f, v)
  BY <1>1, <1>2 DEF IInvPasses
<1>4. /\ \A j, k \in 1 .. n : f[j] = f[k] => j = k
      /\ \A id \in G : \E j \in 1 .. n : f[j] = id
      /\ \A j \in 1 .. n : ways[j] = Extraits[v].ways[f[j]]
  BY <1>1, <1>2, <1>3 DEF Gardees
<1>5. PICK w : w = Extraits[v].ways[iw]
  OBVIOUS
<1>6. /\ lecture = "ways" /\ lecture' = "ways" /\ iw \in Nat /\ iw' = iw + 1
      /\ UNCHANGED <<is, refs, b>>
      /\ ways' = IF Retenu(w) THEN Append(ways, w) ELSE ways
  BY <1>5 DEF ScanWay, Fichier, IInvLecture
<1>7. iw \in DOMAIN Extraits[v].ways /\ DOMAIN Extraits[v].ways \subseteq Nat
  <2>1. Suite(Extraits[v].ways)
    BY FichierBon, ExtraitsAssumption
  <2>2. DOMAIN Extraits[v].ways = 1 .. Len(Extraits[v].ways) /\ Len(Extraits[v].ways) \in Nat
    BY <2>1 DEF Suite
  <2> QED  BY <1>6, <2>2 DEF ScanWay, Fichier, IInvLecture
<1>8. G = {id \in DOMAIN Extraits[v].ways : Retenu(Extraits[v].ways[id]) /\ id < iw}
  BY <1>1, <1>6 DEF Gardables
<1>9. Gardables(v)' = {id \in DOMAIN Extraits[v].ways : Retenu(Extraits[v].ways[id]) /\ id < iw + 1}
  BY <1>6 DEF Gardables
<1>10. \A id \in DOMAIN Extraits[v].ways : id < iw + 1 <=> id < iw \/ id = iw
  BY <1>6, <1>7
<1>11. \E h \in [1 .. Len(ways') -> Gardables(v)'] : Gardees(h, v)'
  <2>1. CASE Retenu(w)
    <3>1. PICK h : h = [j \in 1 .. n + 1 |-> IF j = n + 1 THEN iw ELSE f[j]]
      OBVIOUS
    <3>2. Gardables(v)' = G \cup {iw} /\ iw \notin G
      BY <1>5, <1>6, <1>7, <1>8, <1>9, <1>10, <2>1
    <3>3. ways \in Seq(Voies) /\ w \in Voies
      <4>1. Fichier.ways[iw] \in Voies
        <5>1. iw \in 1 .. Len(Fichier.ways)
          BY FichierBon DEF IInvLecture, ScanWay
        <5> QED  BY <5>1, FichierBon
      <4> QED  BY <1>5, <4>1 DEF IInvLecture, Fichier
    <3>4. /\ Len(ways') = n + 1 /\ ways'[n + 1] = w
          /\ \A j \in 1 .. n : ways'[j] = ways[j]
      <4>1. ways' = Append(ways, w)
        BY <1>6, <2>1
      <4> QED  BY <1>2, <3>3, <4>1
    <3>5. /\ n + 1 \in 1 .. n + 1 /\ n + 1 \notin 1 .. n
          /\ \A j : j \in 1 .. n + 1 <=> j = n + 1 \/ j \in 1 .. n
      OBVIOUS
    <3>6. h[n + 1] = iw /\ \A j \in 1 .. n : h[j] = f[j] /\ h[j] \in G
      BY <1>3, <3>1, <3>5
    <3>7. h \in [1 .. n + 1 -> G \cup {iw}]
      BY <3>1, <3>5, <3>6
    <3>8. /\ \A j, k \in 1 .. n + 1 : h[j] = h[k] => j = k
          /\ \A id \in G \cup {iw} : \E j \in 1 .. n + 1 : h[j] = id
          /\ \A j \in 1 .. n + 1 : ways'[j] = Extraits[v].ways[h[j]]
      <4>1. \A j, k \in 1 .. n + 1 : h[j] = h[k] => j = k
        <5>1. \A j \in 1 .. n : h[j] # iw
          BY <3>2, <3>6
        <5> QED  BY <1>4, <3>5, <3>6, <5>1
      <4>2. \A id \in G \cup {iw} : \E j \in 1 .. n + 1 : h[j] = id
        BY <1>4, <3>5, <3>6
      <4>3. \A j \in 1 .. n + 1 : ways'[j] = Extraits[v].ways[h[j]]
        BY <1>4, <1>5, <3>4, <3>5, <3>6
      <4> QED  BY <4>1, <4>2, <4>3
    <3>9. Gardees(h, v)'
      BY <3>2, <3>4, <3>8 DEF Gardees
    <3> QED  BY <3>2, <3>4, <3>7, <3>9
  <2>2. CASE ~Retenu(w)
    <3>1. Gardables(v)' = G /\ ways' = ways
      BY <1>5, <1>6, <1>8, <1>9, <1>10, <2>2
    <3>2. Gardees(f, v)'
      BY <1>2, <1>4, <3>1 DEF Gardees
    <3> QED  BY <1>2, <1>3, <3>1, <3>2
  <2> QED  BY <2>1, <2>2
<1> QED  BY <1>6, <1>11 DEF IInvPasses

\* Nothing is met before the first pair.
LEMMA RienDePasse ==
  ASSUME IInvLecture, IInvLecture', NEW v, v = extrait, ScanNodes, iw = 1, is = 1, refs = Vide, b = Bati
  PROVE  IInvAssemblee(v)'
<1>1. /\ lecture' = "assemble" /\ UNCHANGED <<ways, iw, is, refs, b>>
      /\ coords' = [id \in Needed(ways') \cap DOMAIN Extraits[v].noeuds |-> Extraits[v].noeuds[id]]
  BY DEF ScanNodes, Fichier
<1>2. Passees' = {}
  <2>1. ASSUME NEW j \in 1 .. Len(ways'), NEW p PROVE ~(<<j, p>>[1] < 1)
    <3>1. Len(ways') \in Nat
      BY DEF IInvLecture
    <3> QED  BY <3>1
  <2>2. \A s : s \in Paires' => \E j \in 1 .. Len(ways') : \E p \in 1 .. Len(ways'[j].nodes) - 1 : s = <<j, p>>
    BY DEF Paires
  <2>3. \A s \in Paires' : ~(s[1] < 1 \/ (s[1] = 1 /\ s[2] < 1))
    <3> SUFFICES ASSUME NEW j \in 1 .. Len(ways'), NEW p \in 1 .. Len(ways'[j].nodes) - 1
                 PROVE  ~(<<j, p>>[1] < 1 \/ (<<j, p>>[1] = 1 /\ <<j, p>>[2] < 1))
      BY <2>2
    <3>1. j \in 1 .. Len(ways)
      BY <1>1
    <3>2. Len(ways'[j].nodes) \in Nat /\ Len(ways') \in Nat
      BY <1>1, <3>1, VoieLue DEF IInvLecture
    <3>3. <<j, p>>[1] = j /\ <<j, p>>[2] = p
      OBVIOUS
    <3>4. ~(j < 1) /\ ~(p < 1)
      BY <3>2
    <3> QED  BY <3>3, <3>4
  <2> QED  BY <1>1, <2>3 DEF Passees
<1>3. Assemblable({}, Vide, Bati)'
  <2>1. Rencontres({})' = {} /\ Utiles({})' = {}
    BY DEF Rencontres, Utiles
  <2>2. Numerotes(Vide, Bati)'
    BY DEF Numerotes, Vide, Bati
  <2>3. Bati.m \div 2 = 0
    BY DEF Bati
  <2>4. 0 .. 0 - 1 = {}
    OBVIOUS
  <2>5. PICK h : h = [t \in {} |-> 0]
    OBVIOUS
  <2>6. h \in [{} -> {}]
    BY <2>5
  <2>7. Bijective(h, 0, {}) /\ Assemblees(h, Vide, Bati)'
    BY <2>3, <2>4, <2>6 DEF Bijective, Assemblees
  <2>8. Enumerees({}, Vide, Bati)'
    BY <2>1, <2>3, <2>4, <2>6, <2>7 DEF Enumerees
  <2> QED  BY <2>1, <2>2, <2>8 DEF Assemblable, Vide
<1>4. iw' <= Len(ways') => is' <= Len(ways'[iw'].nodes)
  <2> SUFFICES ASSUME iw' <= Len(ways') PROVE 1 <= Len(ways[1].nodes)
    BY <1>1
  <2>1. 1 \in 1 .. Len(ways)
    BY <1>1 DEF IInvLecture
  <2>2. Retenu(ways[1]) /\ Len(ways[1].nodes) \in Nat
    BY <2>1, VoieLue
  <2> QED  BY <2>2 DEF Retenu
<1>5. Assemblable(Passees, refs, b)'
  BY <1>1, <1>2, <1>3
<1> QED  BY <1>1, <1>4, <1>5 DEF IInvAssemblee

\* From one way to the next, no pair is missed.
LEMMA WayAssemble ==
  ASSUME IInvLecture, NEW v, IInvAssemblee(v), WaySuivant
  PROVE  IInvAssemblee(v)'
<1>1. /\ lecture = "assemble" /\ iw <= Len(ways) /\ is = Len(ways[iw].nodes)
      /\ iw' = iw + 1 /\ is' = 1
      /\ UNCHANGED <<lecture, ways, coords, refs, b>>
  BY DEF WaySuivant
<1>2. iw \in 1 .. Len(ways) /\ Len(ways) \in Nat
  BY <1>1 DEF IInvLecture
<1>3. Passees' = Passees
  <2>1. \A s : s \in Passees <=> \E j \in 1 .. Len(ways) : \E p \in 1 .. Len(ways[j].nodes) - 1 :
             s = <<j, p>> /\ (j < iw \/ (j = iw /\ p < is))
    BY PaireDe
  <2>2. \A s : s \in Passees' <=> \E j \in 1 .. Len(ways') : \E p \in 1 .. Len(ways'[j].nodes) - 1 :
             s = <<j, p>> /\ (j < iw' \/ (j = iw' /\ p < is'))
    <3>1. \A s : s \in Paires' <=> \E j \in 1 .. Len(ways') : \E p \in 1 .. Len(ways'[j].nodes) - 1 : s = <<j, p>>
      BY DEF Paires
    <3>2. \A j, p : <<j, p>>[1] = j /\ <<j, p>>[2] = p
      OBVIOUS
    <3> QED  BY <3>1, <3>2 DEF Passees
  <2>3. ASSUME NEW j \in 1 .. Len(ways), NEW p \in 1 .. Len(ways[j].nodes) - 1
        PROVE  (j < iw \/ (j = iw /\ p < is)) <=> (j < iw + 1 \/ (j = iw + 1 /\ p < 1))
    <3>1. Len(ways[j].nodes) \in Nat
      BY VoieLue
    <3>2. j = iw => p < is
      BY <1>1, <3>1
    <3>3. ~(p < 1)
      BY <3>1
    <3>4. j < iw + 1 <=> j < iw \/ j = iw
      BY <1>2
    <3> QED  BY <3>2, <3>3, <3>4
  <2>4. ASSUME NEW s PROVE s \in Passees' <=> s \in Passees
    BY <1>1, <2>1, <2>2, <2>3
  <2> QED  BY <2>4
<1>4. Assemblable(Passees, refs, b)'
  <2>1. PICK P, r, c : P = Passees /\ r = refs /\ c = b
    OBVIOUS
  <2>2. Assemblable(P, r, c)
    BY <2>1 DEF IInvAssemblee
  <2>3. Assemblable(P, r, c)'
    BY <1>1, <2>2, MemesPaires
  <2> QED  BY <1>1, <1>3, <2>1, <2>3
<1>5. iw' <= Len(ways') => is' <= Len(ways'[iw'].nodes)
  <2> SUFFICES ASSUME iw + 1 <= Len(ways) PROVE 1 <= Len(ways[iw + 1].nodes)
    BY <1>1
  <2>1. iw + 1 \in 1 .. Len(ways)
    BY <1>2
  <2>2. Retenu(ways[iw + 1]) /\ Len(ways[iw + 1].nodes) \in Nat
    BY <2>1, VoieLue
  <2> QED  BY <2>2 DEF Retenu
<1>6. coords' = [id \in Needed(ways') \cap DOMAIN Extraits[v].noeuds |-> Extraits[v].noeuds[id]]
  BY <1>1 DEF IInvAssemblee
<1> QED  BY <1>1, <1>4, <1>5, <1>6 DEF IInvAssemblee

\* The passes over one version.
Suivie(v) ==
  lecture # "echec" => IInvPasses(v) /\ (lecture \in {"assemble", "lu"} => IInvAssemblee(v))

\* What was kept stays kept.
LEMMA PassesGardees ==
  ASSUME NEW v, IInvPasses(v), ways' = ways, Gardables(v)' = Gardables(v),
         lecture' \in {"ways", "noeuds"} => is' = 1 /\ refs' = Vide /\ b' = Bati,
         lecture' = "noeuds" => iw' = 1
  PROVE  IInvPasses(v)'
<1>1. \A f : Gardees(f, v)' <=> Gardees(f, v)
  BY DEF Gardees
<1>2. (\E f \in [1 .. Len(ways') -> Gardables(v)'] : Gardees(f, v)')
  BY <1>1 DEF IInvPasses
<1> QED  BY <1>2 DEF IInvPasses

\* A step that assembles nothing.
LEMMA MemeAssemblee ==
  ASSUME NEW v, IInvAssemblee(v), UNCHANGED <<ways, coords, iw, is, refs, b>>,
         lecture' = "lu" => iw > Len(ways)
  PROVE  IInvAssemblee(v)'
<1>1. Passees' = Passees
  <2>1. Paires' = Paires
    BY DEF Paires
  <2> QED  BY <2>1 DEF Passees
<1>2. PICK P, r, c : P = Passees /\ r = refs /\ c = b
  OBVIOUS
<1>3. Assemblable(P, r, c)
  BY <1>2 DEF IInvAssemblee
<1>4. Assemblable(P, r, c)'
  BY <1>3, MemesPaires
<1>5. Assemblable(Passees, refs, b)'
  BY <1>1, <1>2, <1>4
<1> QED  BY <1>5 DEF IInvAssemblee

\* No step of Read loses what the passes say of their version.
LEMMA ReadSuit ==
  ASSUME IInvLecture, IInvLecture', NEW v, v = extrait, Suivie(v), Read
  PROVE  Suivie(v)'
<1>1. CASE ScanWay
  <2>1. lecture = "ways" /\ lecture' = "ways"
    BY <1>1 DEF ScanWay
  <2> QED  BY <1>1, <2>1, ScanSuit DEF Suivie
<1>2. CASE FinWays
  <2>1. /\ lecture = "ways" /\ lecture' = "noeuds" /\ iw' = 1 /\ UNCHANGED <<ways, is, refs, b>>
        /\ iw > Len(Fichier.ways)
    BY <1>2 DEF FinWays
  <2>2. IInvPasses(v)
    BY <2>1 DEF Suivie
  <2>3. \A id \in DOMAIN Extraits[v].ways : id < iw
    <3>1. Suite(Extraits[v].ways)
      BY FichierBon, ExtraitsAssumption
    <3>2. DOMAIN Extraits[v].ways = 1 .. Len(Extraits[v].ways) /\ Len(Extraits[v].ways) \in Nat
      BY <3>1 DEF Suite
    <3> QED  BY <2>1, <3>2 DEF Fichier, IInvLecture
  <2>4. Gardables(v)' = Gardables(v)
    BY <2>1, <2>3 DEF Gardables
  <2>5. is' = 1 /\ refs' = Vide /\ b' = Bati
    BY <2>1, <2>2 DEF IInvPasses
  <2>6. IInvPasses(v)'
    BY <2>1, <2>2, <2>4, <2>5, PassesGardees
  <2> QED  BY <2>1, <2>6 DEF Suivie
<1>3. CASE LectureRatee
  BY <1>3 DEF LectureRatee, Suivie
<1>4. CASE ScanNodes \/ Segment \/ WaySuivant \/ FinLecture
  <2>1. /\ lecture \in {"noeuds", "assemble"} /\ lecture' \in {"assemble", "lu", "echec"}
        /\ ways' = ways
    BY <1>4 DEF ScanNodes, Segment, SegmentCourant, WaySuivant, FinLecture
  <2>2. IInvPasses(v)
    BY <2>1 DEF Suivie
  <2>3. Gardables(v)' = Gardables(v)
    BY <2>1 DEF Gardables
  <2>4. IInvPasses(v)'
    BY <2>1, <2>2, <2>3, PassesGardees
  <2>5. ASSUME lecture' # "echec" PROVE IInvAssemblee(v)'
    <3>1. CASE ScanNodes
      BY <2>2, <3>1, RienDePasse DEF IInvPasses, ScanNodes
    <3>2. CASE Segment
      BY <3>2, SegmentAssemble DEF Suivie, Segment, SegmentCourant
    <3>3. CASE WaySuivant
      BY <3>3, WayAssemble DEF Suivie, WaySuivant
    <3>4. CASE FinLecture
      BY <3>4, MemeAssemblee DEF Suivie, FinLecture, IInvLecture
    <3> QED  BY <1>4, <3>1, <3>2, <3>3, <3>4
  <2> QED  BY <2>4, <2>5 DEF Suivie
<1> QED  BY <1>1, <1>2, <1>3, <1>4 DEF Read

\* graphbuild starts with nothing kept.
LEMMA RienDeGarde ==
  ASSUME NEW v \in DOMAIN Extraits, Memoire("ways")
  PROVE  Suivie(v)'
<1>1. /\ lecture' = "ways" /\ ways' = <<>> /\ iw' = 1 /\ is' = 1 /\ refs' = Vide /\ b' = Bati
  BY DEF Memoire
<1>2. \A id \in DOMAIN Extraits[v].ways : ~(id < 1)
  <2>1. Suite(Extraits[v].ways)
    BY ExtraitsAssumption
  <2> QED  BY <2>1 DEF Suite
<1>3. Gardables(v)' = {}
  BY <1>1, <1>2 DEF Gardables
<1>4. Len(ways') = 0 /\ 1 .. 0 = {}
  BY <1>1
<1>5. PICK f : f = [j \in {} |-> 0]
  OBVIOUS
<1>6. f \in [1 .. Len(ways') -> Gardables(v)']
  BY <1>3, <1>4, <1>5
<1>7. Gardees(f, v)'
  BY <1>3, <1>4 DEF Gardees
<1> QED  BY <1>1, <1>6, <1>7 DEF Suivie, IInvPasses

\* A set that is numbered from zero has as many elements as numbers.
LEMMA BijectiveCardinal ==
  ASSUME NEW q \in Nat, NEW S, NEW h, Bijective(h, q, S)
  PROVE  Cardinality(S) = q
<1>1. PICK D : D = 0 .. q - 1
  OBVIOUS
<1>2. IsFiniteSet(D) /\ Cardinality(D) = q
  <2>1. 0 \in Int /\ q - 1 \in Int
    OBVIOUS
  <2>2. IsFiniteSet(D) /\ Cardinality(D) = IF 0 > q - 1 THEN 0 ELSE (q - 1) - 0 + 1
    BY <1>1, <2>1, FS_Interval
  <2> QED  BY <2>2
<1>3. h \in [D -> S] /\ (\A t, u \in D : h[t] = h[u] => t = u) /\ \A s \in S : \E t \in D : h[t] = s
  BY <1>1 DEF Bijective
<1>4. h \in Injection(D, S)
  BY <1>3 DEF Injection, IsInjective
<1>5. h \in Surjection(D, S)
  BY <1>3 DEF Surjection
<1>6. Cardinality(S) = Cardinality(D)
  BY <1>2, <1>4, <1>5, FS_Surjection
<1> QED  BY <1>2, <1>6

\* A segment of the extract, step by step.
LEMMA SegmentDe ==
  ASSUME NEW v \in DOMAIN Extraits, NEW s
  PROVE  s \in Segments(v) <=>
           \E id \in DOMAIN Extraits[v].ways : \E p \in 1 .. Len(Extraits[v].ways[id].nodes) - 1 :
             /\ s = <<id, p>> /\ Retenu(Extraits[v].ways[id])
             /\ {Extraits[v].ways[id].nodes[p], Extraits[v].ways[id].nodes[p + 1]} \subseteq DOMAIN Extraits[v].noeuds
             /\ Extraits[v].ways[id].nodes[p] # Extraits[v].ways[id].nodes[p + 1]
<1>1. PICK W, N : W = Extraits[v].ways /\ N = Extraits[v].noeuds
  OBVIOUS
<1>2. \A id \in DOMAIN W : W[id].nodes \in Seq(Nat)
  BY <1>1, ExtraitsAssumption
<1>3. ASSUME NEW id \in DOMAIN W
      PROVE  /\ \A p : p \in DOMAIN W[id].nodes /\ p < Len(W[id].nodes) <=> p \in 1 .. Len(W[id].nodes) - 1
             /\ \A p \in 1 .. Len(W[id].nodes) - 1 : Len(W[id].nodes) >= 2
  <2>1. PICK y \in Seq(Nat) : y = W[id].nodes
    BY <1>2, <1>3
  <2>2. /\ \A p : p \in DOMAIN y /\ p < Len(y) <=> p \in 1 .. Len(y) - 1
        /\ \A p \in 1 .. Len(y) - 1 : Len(y) >= 2
    OBVIOUS
  <2> QED  BY <2>1, <2>2
<1>4. s \in Segments(v) <=>
        \E id \in DOMAIN W : \E p \in DOMAIN W[id].nodes :
          /\ s = <<id, p>> /\ Praticable(W[id].tags) /\ p < Len(W[id].nodes)
          /\ {W[id].nodes[p], W[id].nodes[p + 1]} \subseteq DOMAIN N
          /\ W[id].nodes[p] # W[id].nodes[p + 1]
  <2>1. \A id, p : <<id, p>>[1] = id /\ <<id, p>>[2] = p
    OBVIOUS
  <2>2. PICK U : U = UNION {{<<id, j>> : j \in DOMAIN W[id].nodes} : id \in DOMAIN W}
    OBVIOUS
  <2>3. s \in U <=> \E id \in DOMAIN W : \E p \in DOMAIN W[id].nodes : s = <<id, p>>
    BY <2>2
  <2>4. s \in Segments(v) <=>
          /\ s \in U
          /\ Praticable(W[s[1]].tags) /\ s[2] < Len(W[s[1]].nodes)
          /\ {W[s[1]].nodes[s[2]], W[s[1]].nodes[s[2] + 1]} \subseteq DOMAIN N
          /\ W[s[1]].nodes[s[2]] # W[s[1]].nodes[s[2] + 1]
    BY <1>1, <2>2 DEF Segments
  <2> QED  BY <2>1, <2>3, <2>4
<1> QED  BY <1>1, <1>3, <1>4 DEF Retenu

\* A pair of a way that was kept, and the same in the extract.
LEMMA PaireTraduite ==
  ASSUME IInvLecture, NEW v \in DOMAIN Extraits, IInvAssemblee(v), lecture = "lu",
         NEW f \in [1 .. Len(ways) -> Gardables(v)], Gardees(f, v),
         NEW j \in 1 .. Len(ways), NEW p \in 1 .. Len(ways[j].nodes) - 1
  PROVE  /\ f[j] \in DOMAIN Extraits[v].ways /\ Extraits[v].ways[f[j]] = ways[j]
         /\ {Amont(<<j, p>>), Aval(<<j, p>>)} \subseteq Needed(ways)
         /\ <<j, p>> \in Passees /\ (Utile(<<j, p>>) <=> <<f[j], p>> \in Segments(v))
<1>1. /\ f[j] \in DOMAIN Extraits[v].ways /\ Extraits[v].ways[f[j]] = ways[j] /\ Retenu(ways[j])
  BY DEF Gardees, Gardables
<1>2. Amont(<<j, p>>) = ways[j].nodes[p] /\ Aval(<<j, p>>) = ways[j].nodes[p + 1]
  BY DEF Amont, Aval
<1>3. Len(ways) \in Nat /\ ways[j].nodes \in Seq(Nat) /\ j \in DOMAIN ways
  BY VoieLue DEF IInvLecture
<1>4. p \in DOMAIN ways[j].nodes /\ p + 1 \in DOMAIN ways[j].nodes
  <2>1. PICK y \in Seq(Nat) : y = ways[j].nodes
    BY <1>3
  <2>2. p \in DOMAIN y /\ p + 1 \in DOMAIN y
    BY <2>1
  <2> QED  BY <2>1, <2>2
<1>5. {Amont(<<j, p>>), Aval(<<j, p>>)} \subseteq Needed(ways)
  <2>1. PICK W : W = ways
    OBVIOUS
  <2>2. \A k \in DOMAIN W[j].nodes : W[j].nodes[k] \in Needed(W)
    <3>1. j \in DOMAIN W
      BY <1>3, <2>1
    <3> QED  BY <3>1 DEF Needed
  <2> QED  BY <1>2, <1>4, <2>1, <2>2
<1>6. <<j, p>> \in Passees
  <2>1. j < iw
    BY <1>3 DEF IInvAssemblee, IInvLecture
  <2> QED  BY <2>1, PaireDe
<1>7. Utile(<<j, p>>) <=> /\ {ways[j].nodes[p], ways[j].nodes[p + 1]} \subseteq DOMAIN Extraits[v].noeuds
                          /\ ways[j].nodes[p] # ways[j].nodes[p + 1]
  <2>1. DOMAIN coords = Needed(ways) \cap DOMAIN Extraits[v].noeuds
    BY DEF IInvAssemblee
  <2> QED  BY <1>2, <1>5, <2>1 DEF Utile
<1>8. <<f[j], p>> \in Segments(v) <=>
        /\ {ways[j].nodes[p], ways[j].nodes[p + 1]} \subseteq DOMAIN Extraits[v].noeuds
        /\ ways[j].nodes[p] # ways[j].nodes[p + 1]
  <2>1. PICK y, id : y = <<id, p>> /\ id = f[j]
    OBVIOUS
  <2>2. PICK W, N : W = Extraits[v].ways /\ N = Extraits[v].noeuds
    OBVIOUS
  <2>3. y \in Segments(v) <=>
          \E a \in DOMAIN W : \E k \in 1 .. Len(W[a].nodes) - 1 :
            /\ y = <<a, k>> /\ Retenu(W[a])
            /\ {W[a].nodes[k], W[a].nodes[k + 1]} \subseteq DOMAIN N
            /\ W[a].nodes[k] # W[a].nodes[k + 1]
    BY <2>2, SegmentDe
  <2>4. \A a, k : y = <<a, k>> <=> a = id /\ k = p
    BY <2>1
  <2>5. id \in DOMAIN W /\ W[id] = ways[j] /\ Retenu(W[id])
    BY <1>1, <2>1, <2>2
  <2> QED  BY <2>1, <2>2, <2>3, <2>4, <2>5
<1> QED  BY <1>1, <1>5, <1>6, <1>7, <1>8

\* The t-th segment of the builder is segment G[t] of version v.
SegmentsEcrits(v, G) == \A t \in 0 .. b.m \div 2 - 1 :
  LET c == Extraits[v].noeuds
      y == Extraits[v].ways[G[t][1]]
      p == c[y.nodes[G[t][2]]]
      q == c[y.nodes[G[t][2] + 1]]
  IN  /\ b.coords[b.from[2 * t]] = p /\ b.coords[b.to[2 * t]] = q
      /\ b.attrs[2 * t].longueur = Longueur(p, q) /\ b.attrs[2 * t].surface = Revetement(y.tags)
      /\ b.attrs[2 * t + 1] = b.attrs[2 * t]

\* Once it is read, the builder numbers the segments of the file.
LEMMA SegmentsDuFichier ==
  ASSUME IInvLecture, NEW v, v = extrait, IInvPasses(v), IInvAssemblee(v), lecture = "lu"
  PROVE  \E G : Bijective(G, b.m \div 2, Segments(v)) /\ SegmentsEcrits(v, G)
<1>1. v \in DOMAIN Extraits
  BY FichierBon
<1>2. PICK q : q = b.m \div 2
  OBVIOUS
<1>3. PICK f \in [1 .. Len(ways) -> Gardables(v)] : Gardees(f, v)
  BY DEF IInvPasses
<1>4. PICK U : U = Utiles(Passees)
  OBVIOUS
<1>5. PICK h \in [0 .. q - 1 -> U] : Bijective(h, q, U) /\ Assemblees(h, refs, b)
  BY <1>2, <1>4 DEF IInvAssemblee, Assemblable, Enumerees
<1>6. PICK G : G = [t \in 0 .. q - 1 |-> <<f[h[t][1]], h[t][2]>>]
  OBVIOUS
<1>7. ASSUME NEW s \in U
      PROVE  \E j \in 1 .. Len(ways) : \E p \in 1 .. Len(ways[j].nodes) - 1 :
               /\ s = <<j, p>> /\ s[1] = j /\ s[2] = p /\ Utile(s)
               /\ <<f[j], p>> \in Segments(v) /\ Extraits[v].ways[f[j]] = ways[j]
  <2>1. s \in Passees /\ Utile(s)
    BY <1>4 DEF Utiles
  <2>2. PICK j, p : j \in 1 .. Len(ways) /\ p \in 1 .. Len(ways[j].nodes) - 1 /\ s = <<j, p>>
    BY <2>1, PaireDe
  <2>3. <<f[j], p>> \in Segments(v) /\ Extraits[v].ways[f[j]] = ways[j]
    BY <1>1, <1>3, <2>1, <2>2, PaireTraduite
  <2>4. s[1] = j /\ s[2] = p
    BY <2>2
  <2> QED  BY <2>1, <2>2, <2>3, <2>4
<1>8. Bijective(G, q, Segments(v))
  <2>1. ASSUME NEW t \in 0 .. q - 1
        PROVE  G[t] \in Segments(v) /\ G[t] = <<f[h[t][1]], h[t][2]>> /\ h[t] \in U
    <3>1. h[t] \in U
      BY <1>5
    <3>2. G[t] = <<f[h[t][1]], h[t][2]>>
      BY <1>6
    <3> QED  BY <1>7, <3>1, <3>2
  <2>2. G \in [0 .. q - 1 -> Segments(v)]
    BY <1>6, <2>1
  <2>3. ASSUME NEW t \in 0 .. q - 1, NEW u \in 0 .. q - 1, G[t] = G[u]
        PROVE  t = u
    <3>1. f[h[t][1]] = f[h[u][1]] /\ h[t][2] = h[u][2]
      <4>1. <<f[h[t][1]], h[t][2]>> = <<f[h[u][1]], h[u][2]>>
        BY <2>1, <2>3
      <4> QED  BY <4>1
    <3>2. \A s \in U : \E j \in 1 .. Len(ways) : \E p : s = <<j, p>> /\ s[1] = j /\ s[2] = p
      BY <1>7
    <3>3. PICK j \in 1 .. Len(ways) : \E p : h[t] = <<j, p>> /\ h[t][1] = j /\ h[t][2] = p
      BY <2>1, <3>2, Zenon
    <3>4. PICK k \in 1 .. Len(ways) : \E p : h[u] = <<k, p>> /\ h[u][1] = k /\ h[u][2] = p
      BY <2>1, <3>2, Zenon
    <3>5. j = k
      BY <1>3, <3>1, <3>3, <3>4 DEF Gardees
    <3>6. h[t] = h[u]
      BY <3>1, <3>3, <3>4, <3>5
    <3> QED  BY <1>5, <3>6 DEF Bijective
  <2>4. ASSUME NEW s \in Segments(v)
        PROVE  \E t \in 0 .. q - 1 : G[t] = s
    <3>1. PICK id, p : /\ id \in DOMAIN Extraits[v].ways /\ p \in 1 .. Len(Extraits[v].ways[id].nodes) - 1
                      /\ s = <<id, p>> /\ Retenu(Extraits[v].ways[id])
      BY <1>1, SegmentDe
    <3>2. PICK j \in 1 .. Len(ways) : f[j] = id
      BY <1>3, <3>1 DEF Gardees, Gardables
    <3>3. ways[j] = Extraits[v].ways[id]
      BY <1>3, <3>2 DEF Gardees
    <3>4. <<j, p>> \in U
      BY <1>1, <1>3, <1>4, <3>1, <3>2, <3>3, PaireTraduite DEF Utiles
    <3>5. PICK t \in 0 .. q - 1 : h[t] = <<j, p>>
      BY <1>5, <3>4 DEF Bijective
    <3>6. <<j, p>>[1] = j /\ <<j, p>>[2] = p
      OBVIOUS
    <3> QED  BY <2>1, <3>1, <3>2, <3>5, <3>6
  <2> QED  BY <2>2, <2>3, <2>4 DEF Bijective
<1>9. SegmentsEcrits(v, G)
  <2> SUFFICES ASSUME NEW t \in 0 .. q - 1
               PROVE  LET c == Extraits[v].noeuds
                          y == Extraits[v].ways[G[t][1]]
                          p == c[y.nodes[G[t][2]]]
                          r == c[y.nodes[G[t][2] + 1]]
                      IN  /\ b.coords[b.from[2 * t]] = p /\ b.coords[b.to[2 * t]] = r
                          /\ b.attrs[2 * t].longueur = Longueur(p, r)
                          /\ b.attrs[2 * t].surface = Revetement(y.tags)
                          /\ b.attrs[2 * t + 1] = b.attrs[2 * t]
    BY <1>2, Zenon DEF SegmentsEcrits
  <2>1. PICK c, y : c = Extraits[v].noeuds /\ y = Extraits[v].ways[G[t][1]]
    OBVIOUS
  <2>2. PICK p, r : p = c[y.nodes[G[t][2]]] /\ r = c[y.nodes[G[t][2] + 1]]
    OBVIOUS
  <2>3. PICK s : s = h[t] /\ s \in U
    BY <1>5
  <2>4. PICK j, k :
          /\ j \in 1 .. Len(ways) /\ k \in 1 .. Len(ways[j].nodes) - 1
          /\ s = <<j, k>> /\ s[1] = j /\ s[2] = k /\ Utile(s)
          /\ <<f[j], k>> \in Segments(v) /\ Extraits[v].ways[f[j]] = ways[j]
    BY <1>7, <2>3
  <2>5. G[t][1] = f[j] /\ G[t][2] = k
    <3>1. G[t] = <<f[j], k>>
      BY <1>6, <2>3, <2>4
    <3> QED  BY <3>1
  <2>6. y = ways[j] /\ Amont(s) = y.nodes[k] /\ Aval(s) = y.nodes[k + 1]
    BY <2>1, <2>4, <2>5 DEF Amont, Aval
  <2>7. Amont(s) \in DOMAIN coords /\ Aval(s) \in DOMAIN coords
    BY <2>4 DEF Utile
  <2>8. coords[Amont(s)] = p /\ coords[Aval(s)] = r
    <3>1. coords = [a \in Needed(ways) \cap DOMAIN c |-> c[a]]
      BY <2>1 DEF IInvAssemblee
    <3> QED  BY <2>2, <2>5, <2>6, <2>7, <3>1
  <2>9. Amont(s) \in DOMAIN refs /\ Aval(s) \in DOMAIN refs
    BY <1>4, <2>3, <2>7 DEF IInvAssemblee, Assemblable, Rencontres, Utiles
  <2>10. b.coords[refs[Amont(s)]] = p /\ b.coords[refs[Aval(s)]] = r
    BY <2>8, <2>9 DEF IInvAssemblee, Assemblable, Numerotes
  <2>11. /\ b.from[2 * t] = refs[Amont(s)] /\ b.to[2 * t] = refs[Aval(s)]
        /\ b.attrs[2 * t] = Attribut(s) /\ b.attrs[2 * t + 1] = Attribut(s)
    BY <1>2, <1>5, <2>3 DEF Assemblees
  <2>12. Attribut(s).longueur = Longueur(p, r) /\ Attribut(s).surface = Revetement(y.tags)
    BY <2>4, <2>6, <2>8 DEF Attribut, Classify
  <2> QED  BY <2>1, <2>2, <2>10, <2>11, <2>12
<1> QED  BY <1>2, <1>8, <1>9

\* The nodes that have a NodeRef are those of the extract.
LEMMA NoeudsDuFichier ==
  ASSUME IInvLecture, NEW v, v = extrait, IInvPasses(v), IInvAssemblee(v), lecture = "lu"
  PROVE  Cardinality(Noeuds(v)) = b.n
<1>1. v \in DOMAIN Extraits
  BY FichierBon
<1>2. PICK f \in [1 .. Len(ways) -> Gardables(v)] : Gardees(f, v)
  BY DEF IInvPasses
<1>3. PICK W, N : W = Extraits[v].ways /\ N = Extraits[v].noeuds
  OBVIOUS
<1>4. DOMAIN coords = Needed(ways) \cap DOMAIN N
  BY <1>3 DEF IInvAssemblee
<1>5. ASSUME NEW j \in 1 .. Len(ways)
      PROVE  f[j] \in DOMAIN W /\ W[f[j]] = ways[j] /\ Retenu(ways[j]) /\ ways[j].nodes \in Seq(Nat)
  <2>1. f[j] \in Gardables(v) /\ ways[j] = W[f[j]]
    BY <1>2, <1>3 DEF Gardees
  <2>2. f[j] \in DOMAIN W /\ Retenu(W[f[j]])
    BY <1>3, <2>1 DEF Gardables
  <2>3. ways[j].nodes \in Seq(Nat)
    BY VoieLue
  <2> QED  BY <2>1, <2>2, <2>3
<1>6. DOMAIN refs \subseteq Noeuds(v)
  <2> SUFFICES ASSUME NEW id \in DOMAIN refs PROVE id \in Noeuds(v)
    OBVIOUS
  <2>1. id \in DOMAIN coords /\ \E s \in Passees : id \in {Amont(s), Aval(s)}
    BY DEF IInvAssemblee, Assemblable, Rencontres
  <2>2. PICK s \in Passees : id \in {Amont(s), Aval(s)}
    BY <2>1
  <2>3. PICK j, p : j \in 1 .. Len(ways) /\ p \in 1 .. Len(ways[j].nodes) - 1 /\ s = <<j, p>>
    BY <2>2, PaireDe
  <2>4. id = ways[j].nodes[p] \/ id = ways[j].nodes[p + 1]
    BY <2>2, <2>3 DEF Amont, Aval
  <2>5. PICK y \in Seq(Nat) : y = ways[j].nodes
    BY <1>5, <2>3
  <2>6. \E k \in DOMAIN y : id = y[k]
    <3>1. p \in DOMAIN y /\ p + 1 \in DOMAIN y
      BY <2>3, <2>5
    <3> QED  BY <2>4, <2>5, <3>1
  <2>7. \E k \in DOMAIN W[f[j]].nodes : id = W[f[j]].nodes[k]
    BY <1>5, <2>3, <2>5, <2>6
  <2>8. f[j] \in DOMAIN W /\ Retenu(W[f[j]]) /\ id \in DOMAIN N
    BY <1>4, <1>5, <2>1, <2>3
  <2> QED  BY <1>3, <2>7, <2>8 DEF Noeuds
<1>7. Noeuds(v) \subseteq DOMAIN refs
  <2> SUFFICES ASSUME NEW id \in Noeuds(v) PROVE id \in DOMAIN refs
    OBVIOUS
  <2>1. id \in DOMAIN N /\ \E a \in DOMAIN W : Retenu(W[a]) /\ \E k \in DOMAIN W[a].nodes : id = W[a].nodes[k]
    BY <1>3 DEF Noeuds
  <2>2. PICK a \in DOMAIN W : Retenu(W[a]) /\ \E k \in DOMAIN W[a].nodes : id = W[a].nodes[k]
    BY <2>1
  <2>3. PICK j \in 1 .. Len(ways) : f[j] = a
    BY <1>2, <1>3, <2>2 DEF Gardees, Gardables
  <2>4. PICK y \in Seq(Nat) : y = ways[j].nodes /\ y = W[a].nodes /\ Len(y) >= 2
    BY <1>5, <2>2, <2>3 DEF Retenu
  <2>5. PICK k \in DOMAIN y : id = y[k]
    BY <2>2, <2>4
  <2>6. id \in DOMAIN coords
    <3>1. id \in Needed(ways)
      <4>1. PICK V : V = ways
        OBVIOUS
      <4>2. j \in DOMAIN V /\ k \in DOMAIN V[j].nodes /\ id = V[j].nodes[k]
        <5>1. j \in DOMAIN ways
          BY <2>3 DEF IInvLecture
        <5> QED  BY <2>4, <2>5, <4>1, <5>1
      <4>3. id \in Needed(V)
        BY <4>2 DEF Needed
      <4> QED  BY <4>1, <4>3
    <3> QED  BY <1>4, <2>1, <3>1
  <2>7. \E p \in 1 .. Len(y) - 1 : id = y[p] \/ id = y[p + 1]
    <3>1. k \in 1 .. Len(y) /\ Len(y) \in Nat
      BY <2>4
    <3>2. CASE k < Len(y)
      BY <2>5, <3>1, <3>2
    <3>3. CASE k = Len(y)
      <4>1. k - 1 \in 1 .. Len(y) - 1 /\ (k - 1) + 1 = k
        BY <2>4, <3>1, <3>3
      <4> QED  BY <2>5, <4>1
    <3> QED  BY <3>1, <3>2, <3>3
  <2>8. PICK p \in 1 .. Len(y) - 1 : id = y[p] \/ id = y[p + 1]
    BY <2>7
  <2>9. <<j, p>> \in Passees
    BY <1>1, <1>2, <2>4, <2>8, PaireTraduite
  <2>10. id \in {Amont(<<j, p>>), Aval(<<j, p>>)}
    BY <2>4, <2>8 DEF Amont, Aval
  <2> QED  BY <2>6, <2>9, <2>10 DEF IInvAssemblee, Assemblable, Rencontres
<1>8. PICK n \in Nat : n = b.n
  BY DEF IInvLecture, Bon, C!Contrat
<1>9. PICK r : r = refs
  OBVIOUS
<1>10. /\ \A id \in DOMAIN r : r[id] \in 0 .. n - 1
       /\ \A id, j \in DOMAIN r : r[id] = r[j] => id = j
       /\ \A k \in 0 .. n - 1 : \E id \in DOMAIN r : r[id] = k
  BY <1>8, <1>9 DEF IInvAssemblee, Assemblable, Numerotes, IInvLecture, Bon
<1>11. PICK h : h = [k \in 0 .. n - 1 |-> CHOOSE id \in DOMAIN r : r[id] = k]
  OBVIOUS
<1>12. \A k \in 0 .. n - 1 : h[k] \in DOMAIN r /\ r[h[k]] = k
  BY <1>10, <1>11
<1>13. Bijective(h, n, DOMAIN r)
  <2>1. h \in [0 .. n - 1 -> DOMAIN r]
    BY <1>11, <1>12
  <2>2. \A t, u \in 0 .. n - 1 : h[t] = h[u] => t = u
    BY <1>12
  <2>3. \A id \in DOMAIN r : \E t \in 0 .. n - 1 : h[t] = id
    BY <1>10, <1>12
  <2> QED  BY <2>1, <2>2, <2>3 DEF Bijective
<1>14. Cardinality(DOMAIN r) = n
  BY <1>13, BijectiveCardinal
<1>15. DOMAIN r = Noeuds(v)
  BY <1>6, <1>7, <1>9
<1> QED  BY <1>8, <1>14, <1>15

\* An edge of the words is one of the builder.
LEMMA AreteEcrite ==
  ASSUME IInvLecture, NEW w, Ecriture(w), NEW e \in 0 .. b.m - 1
  PROVE  LET o == C!order[e] IN
         /\ o \in 0 .. b.m - 1 /\ C!newIndex[o] = e
         /\ Depart(w, e) = b.from[o] /\ targets(w)[e] = b.to[o]
         /\ Ecrite(w, e) = <<b.coords[b.from[o]], b.coords[b.to[o]],
                             Arrondi(b.attrs[o].longueur), CodeSurface[b.attrs[o].surface]>>
<1>1. PICK o, n, x, y : o = C!order[e] /\ n = b.n /\ x = b.from[o] /\ y = b.to[o]
  OBVIOUS
<1>2. /\ C!Contrat(b) /\ n \in Nat /\ e \in C!Aretes /\ e \in Tri!Aretes /\ C!Aretes = 0 .. b.m - 1
      /\ b.attrs \in [0 .. b.m - 1 -> Attributs]
  BY <1>1, MemeTri DEF IInvLecture, Bon, C!Contrat, C!Aretes, Chiffre
<1>3. o \in C!Aretes /\ C!newIndex[o] = e
  BY <1>1, <1>2, MemeTri, MemeContrat, Tri!Permutation
<1>4. /\ x \in 0 .. n - 1 /\ y \in 0 .. n - 1
      /\ C!offsets[x] <= e /\ e < C!offsets[x + 1]
      /\ \A k \in 0 .. n - 1 : C!offsets[k] <= e /\ e < C!offsets[k + 1] => k = x
  <2>1. Tri!Noeuds(b) = 0 .. n - 1
    BY <1>1, MemeTri DEF C!Noeuds
  <2> QED  BY <1>1, <1>2, <2>1, MemeTri, MemeContrat, Tri!DepartSeul
<1>5. /\ numNodes(w) = n /\ \A k \in 0 .. n : offsets(w)[k] = C!offsets[k]
      /\ \A k \in 0 .. n - 1 : w[6 + k] = b.coords[k]
      /\ targets(w)[e] = y /\ attrs(w)[e] = Paquet(b.attrs[o])
  BY <1>1 DEF Ecriture
<1>6. \A k \in 0 .. n - 1 : offsets(w)[k] = C!offsets[k] /\ offsets(w)[k + 1] = C!offsets[k + 1]
  <2>1. \A k \in 0 .. n - 1 : k \in 0 .. n /\ k + 1 \in 0 .. n
    BY <1>2
  <2> QED  BY <1>5, <2>1
<1>7. Depart(w, e) = x
  <2>1. Depart(w, e) = CHOOSE k \in 0 .. n - 1 : offsets(w)[k] <= e /\ e < offsets(w)[k + 1]
    BY <1>5 DEF Depart
  <2>2. \A k \in 0 .. n - 1 : offsets(w)[k] <= e /\ e < offsets(w)[k + 1] <=> k = x
    BY <1>4, <1>6
  <2> QED  BY <1>4, <2>1, <2>2
<1>8. Attrs(attrs(w)[e]).longueur = Arrondi(b.attrs[o].longueur)
      /\ Attrs(attrs(w)[e]).surface = CodeSurface[b.attrs[o].surface]
  <2>1. b.attrs[o] \in Attributs
    BY <1>2, <1>3
  <2> QED  BY <1>5, <2>1, PaquetRelu
<1>9. Ecrite(w, e) = <<b.coords[x], b.coords[y], Arrondi(b.attrs[o].longueur), CodeSurface[b.attrs[o].surface]>>
  BY <1>4, <1>5, <1>7, <1>8 DEF Ecrite
<1> QED  BY <1>1, <1>2, <1>3, <1>5, <1>7, <1>9

\* Its reverse is the same segment walked the other way.
LEMMA InverseEcrite ==
  ASSUME IInvLecture, NEW w, Ecriture(w), NEW e \in 0 .. b.m - 1,
         \A t \in 0 .. b.m \div 2 - 1 : b.attrs[2 * t + 1] = b.attrs[2 * t]
  PROVE  LET r == reverse(w)[e] IN
         /\ r # e /\ reverse(w)[r] = e /\ Depart(w, r) = targets(w)[e] /\ attrs(w)[r] = attrs(w)[e]
<1>1. PICK o, r, m : o = C!order[e] /\ r = C!reverse(C!newIndex, C!order)[e] /\ m = b.m
  OBVIOUS
<1>2. /\ C!Contrat(b) /\ m \in Nat /\ m % 2 = 0 /\ e \in C!Aretes /\ e \in Tri!Aretes
      /\ C!Aretes = 0 .. m - 1 /\ Tri!Aretes = C!Aretes
  BY <1>1, MemeTri DEF IInvLecture, Bon, C!Contrat, C!Aretes
<1>3. /\ r \in 0 .. m - 1 /\ C!order[r] = C!Jumelle(o)
      /\ C!reverse(C!newIndex, C!order)[r] = e /\ b.to[C!order[r]] = b.from[o]
  <2>1. \A k : Tri!Jumelle(k) = C!Jumelle(k)
    BY DEF Tri!Jumelle, C!Jumelle
  <2> QED  BY <1>1, <1>2, <2>1, MemeTri, MemeContrat, Tri!ReverseJuste
<1>4. o \in 0 .. m - 1 /\ C!newIndex[o] = e
  BY <1>1, AreteEcrite
<1>5. C!Jumelle(o) # o /\ b.attrs[C!Jumelle(o)] = b.attrs[o]
  <2>1. PICK t \in 0 .. m \div 2 - 1 : (o = 2 * t /\ C!Jumelle(o) = 2 * t + 1)
                                    \/ (o = 2 * t + 1 /\ C!Jumelle(o) = 2 * t)
    <3>1. o \div 2 \in 0 .. m \div 2 - 1
      BY <1>2, <1>4
    <3>2. o % 2 = 0 => o = 2 * (o \div 2) /\ o + 1 = 2 * (o \div 2) + 1
      BY <1>4
    <3>3. o % 2 # 0 => o = 2 * (o \div 2) + 1 /\ o - 1 = 2 * (o \div 2)
      BY <1>4
    <3> QED  BY <3>1, <3>2, <3>3 DEF C!Jumelle
  <2>2. 2 * t # 2 * t + 1
    OBVIOUS
  <2> QED  BY <1>1, <2>1, <2>2
<1>6. r # e
  BY <1>1, <1>3, <1>5
<1>7. /\ reverse(w)[e] = r /\ reverse(w)[r] = e /\ attrs(w)[e] = Paquet(b.attrs[o])
      /\ attrs(w)[r] = Paquet(b.attrs[C!Jumelle(o)])
  BY <1>1, <1>3 DEF Ecriture
<1>8. Depart(w, r) = b.from[C!Jumelle(o)] /\ targets(w)[e] = b.to[o]
  BY <1>1, <1>3, AreteEcrite
<1>9. b.from[C!Jumelle(o)] = b.to[o]
  BY <1>1, <1>2, <1>4 DEF C!Contrat
<1> QED  BY <1>5, <1>6, <1>7, <1>8, <1>9

\* What the words tell of the o-th edge that was added.
Quadruplet(o) ==
  <<b.coords[b.from[o]], b.coords[b.to[o]], Arrondi(b.attrs[o].longueur), CodeSurface[b.attrs[o].surface]>>

\* The two edges of a segment are the two an extract asks for.
LEMMA SegmentAttendu ==
  ASSUME C!Contrat(b), NEW v, NEW G, SegmentsEcrits(v, G), NEW t \in 0 .. b.m \div 2 - 1
  PROVE  Attendues(v, G[t]) = {Quadruplet(2 * t), Quadruplet(2 * t + 1)}
<1>1. PICK c, y, s : c = Extraits[v].noeuds /\ y = Extraits[v].ways[G[t][1]] /\ s = G[t]
  OBVIOUS
<1>2. PICK p, q : p = c[y.nodes[s[2]]] /\ q = c[y.nodes[s[2] + 1]]
  OBVIOUS
<1>3. PICK o, u : o = 2 * t /\ u = 2 * t + 1
  OBVIOUS
<1>4. /\ b.coords[b.from[o]] = p /\ b.coords[b.to[o]] = q
      /\ b.attrs[o].longueur = Longueur(p, q) /\ b.attrs[o].surface = Revetement(y.tags)
      /\ b.attrs[u] = b.attrs[o]
  BY <1>1, <1>2, <1>3, Zenon DEF SegmentsEcrits
<1>5. b.from[u] = b.to[o] /\ b.to[u] = b.from[o]
  <2>1. o \in 0 .. b.m - 1 /\ o % 2 = 0 /\ u = o + 1
    BY <1>3 DEF C!Contrat
  <2>2. C!Jumelle(o) = u
    BY <2>1 DEF C!Jumelle
  <2> QED  BY <2>1, <2>2 DEF C!Contrat
<1>6. PICK l, r : l = Arrondi(Longueur(p, q)) /\ r = CodeSurface[Revetement(y.tags)]
  OBVIOUS
<1>7. Attendues(v, G[t]) = {<<p, q, l, r>>, <<q, p, l, r>>}
  BY <1>1, <1>2, <1>6, Zenon DEF Attendues
<1>8. Quadruplet(o) = <<p, q, l, r>> /\ Quadruplet(u) = <<q, p, l, r>>
  BY <1>4, <1>5, <1>6 DEF Quadruplet
<1> QED  BY <1>3, <1>7, <1>8

\* What is hashed is what was read: the words are the network of their version.
LEMMA EcritAuthentique ==
  ASSUME IInvLecture, NEW v, v = extrait, IInvPasses(v), IInvAssemblee(v), lecture = "lu",
         NEW w, Ecriture(w)
  PROVE  Authentique(w)
<1>1. PICK G : Bijective(G, b.m \div 2, Segments(v)) /\ SegmentsEcrits(v, G)
  BY SegmentsDuFichier
<1>2. PICK q \in Nat : q = b.m \div 2 /\ b.m = 2 * q
  <2>1. PICK m \in Nat : m = b.m /\ m % 2 = 0
    BY DEF IInvLecture, Bon, C!Contrat
  <2>2. m \div 2 \in Nat /\ m = 2 * (m \div 2)
    BY <2>1
  <2> QED  BY <2>1, <2>2
<1>3. C!Contrat(b) /\ SegmentsEcrits(v, G)
  BY <1>1 DEF IInvLecture, Bon
<1>4. w[4] = v /\ v \in DOMAIN Extraits /\ numNodes(w) = b.n /\ numEdges(w) = 2 * q
  BY <1>2, FichierBon DEF Ecriture
<1>5. numNodes(w) = Cardinality(Noeuds(v)) /\ numEdges(w) = 2 * Cardinality(Segments(v))
  BY <1>1, <1>2, <1>4, BijectiveCardinal, NoeudsDuFichier
<1>6. PICK E : E = 0 .. numEdges(w) - 1
  OBVIOUS
<1>7. ASSUME NEW e \in E
      PROVE  C!order[e] \in E /\ Ecrite(w, e) = Quadruplet(C!order[e])
  BY <1>2, <1>4, <1>6, <1>7, AreteEcrite DEF Quadruplet
<1>8. \A o \in E : \E e \in E : C!order[e] = o
  <2>1. C!Aretes = E
    BY <1>2, <1>4, <1>6 DEF C!Aretes
  <2> QED  BY <1>3, <2>1, MemeTri, MemeContrat, Tri!Permutation
<1>9. \A t \in 0 .. q - 1 : Attendues(v, G[t]) = {Quadruplet(2 * t), Quadruplet(2 * t + 1)}
  <2> SUFFICES ASSUME NEW t \in 0 .. q - 1
               PROVE  Attendues(v, G[t]) = {Quadruplet(2 * t), Quadruplet(2 * t + 1)}
    OBVIOUS
  <2>1. t \in 0 .. b.m \div 2 - 1
    BY <1>2
  <2> QED  BY <1>3, <2>1, SegmentAttendu
<1>10. \A t \in 0 .. q - 1 : 2 * t \in E /\ 2 * t + 1 \in E
  BY <1>4, <1>6
<1>11. \A o \in E : \E t \in 0 .. q - 1 : o = 2 * t \/ o = 2 * t + 1
  <2> SUFFICES ASSUME NEW o \in E PROVE \E t \in 0 .. q - 1 : o = 2 * t \/ o = 2 * t + 1
    OBVIOUS
  <2>1. o \in 0 .. 2 * q - 1
    BY <1>4, <1>6
  <2>2. o \div 2 \in 0 .. q - 1 /\ (o = 2 * (o \div 2) \/ o = 2 * (o \div 2) + 1)
    BY <2>1
  <2> QED  BY <2>2
<1>12. PICK X, Y : X = {Ecrite(w, e) : e \in E} /\ Y = UNION {Attendues(v, s) : s \in Segments(v)}
  OBVIOUS
<1>13. X \subseteq Y
  <2> SUFFICES ASSUME NEW e \in E PROVE Ecrite(w, e) \in Y
    BY <1>12
  <2>1. PICK t \in 0 .. q - 1 : C!order[e] = 2 * t \/ C!order[e] = 2 * t + 1
    BY <1>7, <1>11
  <2>2. Ecrite(w, e) = Quadruplet(2 * t) \/ Ecrite(w, e) = Quadruplet(2 * t + 1)
    BY <1>7, <2>1
  <2>3. Ecrite(w, e) \in Attendues(v, G[t])
    BY <1>9, <2>2
  <2>4. G[t] \in Segments(v)
    BY <1>1, <1>2 DEF Bijective
  <2> QED  BY <1>12, <2>3, <2>4
<1>14. Y \subseteq X
  <2> SUFFICES ASSUME NEW s \in Segments(v), NEW z \in Attendues(v, s) PROVE z \in X
    BY <1>12
  <2>1. PICK t \in 0 .. q - 1 : G[t] = s
    BY <1>1, <1>2 DEF Bijective
  <2>2. PICK o \in E : z = Quadruplet(o)
    BY <1>9, <1>10, <2>1
  <2>3. PICK e \in E : C!order[e] = o
    BY <1>8
  <2>4. z = Ecrite(w, e)
    BY <1>7, <2>2, <2>3
  <2> QED  BY <1>12, <2>4
<1>15. \A t \in 0 .. b.m \div 2 - 1 : b.attrs[2 * t + 1] = b.attrs[2 * t]
  BY <1>1, Zenon DEF SegmentsEcrits
<1>16. ASSUME NEW e \in E
       PROVE  LET r == reverse(w)[e] IN
              /\ r # e /\ reverse(w)[r] = e /\ Depart(w, r) = targets(w)[e] /\ attrs(w)[r] = attrs(w)[e]
  BY <1>2, <1>4, <1>6, <1>15, InverseEcrite
<1> QED  BY <1>4, <1>5, <1>6, <1>12, <1>13, <1>14, <1>16 DEF Authentique

\* No step of the code loses what the artefact says of its extract.
LEMMA ProvenanceGardee ==
  ASSUME IInvLecture, IInvLecture', IInvProvenance, [NextFabrique]_varsFabrique
  PROVE  IInvProvenance'
<1>1. PICK v : v = extrait
  OBVIOUS
<1>2. gb = "lit" /\ stable => Suivie(v)
  BY <1>1 DEF IInvProvenance, Suivie
<1>3. /\ gb = "lit" => lecture # "repos"
      /\ gb \in {"cree", "ecrit"} /\ stable => Authentique(mots)
  BY DEF IInvProvenance
<1>4. ASSUME extrait' = v, gb' = "lit" => lecture' # "repos", gb' = "lit" /\ stable' => Suivie(v)',
             gb' \in {"cree", "ecrit"} /\ stable' => Authentique(mots')
      PROVE  IInvProvenance'
  <2>1. Suivie(v)' <=> Suivie(extrait)'
    BY <1>4 DEF Suivie, IInvPasses, IInvAssemblee, Gardables, Gardees
  <2> QED  BY <1>4, <2>1 DEF IInvProvenance, Suivie, Authentique
<1>5. CASE Lancer
  <2>1. v \in DOMAIN Extraits
    BY <1>1, FichierBon
  <2>2. Suivie(v)'
    BY <1>5, <2>1, RienDeGarde DEF Lancer
  <2> QED  BY <1>1, <1>4, <1>5, <2>2 DEF Lancer, Memoire
<1>6. CASE Lire
  <2>1. extrait' = extrait /\ lecture' # "repos"
    BY <1>6 DEF Lire, Read, ScanWay, FinWays, ScanNodes, LectureRatee, Segment, SegmentCourant,
               WaySuivant, FinLecture
  <2>2. gb' = gb /\ stable' = stable /\ mots' = mots /\ gb = "lit" /\ Read
    BY <1>6 DEF Lire
  <2>3. gb' = "lit" /\ stable' => Suivie(v)'
    BY <1>1, <1>2, <2>2, ReadSuit
  <2> QED  BY <1>1, <1>3, <1>4, <2>1, <2>2, <2>3
<1>7. CASE Hacher
  <2>1. /\ gb = "lit" /\ lecture = "lu" /\ gb' = "cree" /\ mots' = Write(Build, extrait)
        /\ stable' = stable /\ extrait' = extrait
    BY <1>7 DEF Hacher
  <2>2. PICK w : w = Write(Build, extrait)
    OBVIOUS
  <2>3. Ecriture(w)
    BY <2>2, WriteComplet
  <2>4. stable => Authentique(w)
    BY <1>1, <1>2, <2>1, <2>3, EcritAuthentique DEF Suivie
  <2> QED  BY <1>1, <1>4, <2>1, <2>2, <2>4
<1>8. CASE Finir \/ Tomber
  BY <1>1, <1>4, <1>8 DEF Finir, Tomber
<1>9. CASE CreerArtefact \/ EcrireArtefact
  BY <1>1, <1>3, <1>4, <1>9 DEF CreerArtefact, EcrireArtefact, varsLecture
<1>10. CASE RemplacerExtrait
  <2>1. /\ gb' = gb /\ lecture' = lecture /\ mots' = mots /\ stable' = (stable /\ gb # "lit")
    BY <1>10 DEF RemplacerExtrait, Remplacer
  <2>2. ~(gb' = "lit" /\ stable')
    BY <2>1
  <2>3. gb' \in {"cree", "ecrit"} /\ stable' => Authentique(mots')
    BY <1>3, <2>1
  <2> QED  BY <1>3, <2>1, <2>2, <2>3 DEF IInvProvenance, Authentique
<1>11. CASE UNCHANGED <<varsLecture, gb, mots, stable>>
  <2>1. UNCHANGED <<lecture, ways, coords, iw, is, refs, b>>
    BY <1>11 DEF varsLecture
  <2>2. IInvPasses(v)' <=> IInvPasses(v)
    <3>1. Gardables(v)' = Gardables(v)
      BY <2>1 DEF Gardables
    <3>2. \A f : Gardees(f, v)' <=> Gardees(f, v)
      BY <2>1, <3>1 DEF Gardees
    <3> QED  BY <2>1, <3>1, <3>2 DEF IInvPasses
  <2>3. ASSUME IInvAssemblee(v) PROVE IInvAssemblee(v)'
    <3>1. lecture' = "lu" => iw > Len(ways)
      BY <2>1, <2>3 DEF IInvAssemblee
    <3> QED  BY <2>1, <2>3, <3>1, MemeAssemblee
  <2>4. Suivie(v) => Suivie(v)'
    BY <2>1, <2>2, <2>3 DEF Suivie
  <2> QED  BY <1>1, <1>2, <1>3, <1>4, <1>11, <2>4 DEF varsLecture
<1> QED  BY <1>5, <1>6, <1>7, <1>8, <1>9, <1>10, <1>11 DEF NextFabrique, Graphbuild, varsFabrique

\* What graphbuild assembles, and what it writes, is the network of the one
\* version it read, as long as there was only one.
THEOREM InvariantProvenance == SpecFabrique => []IInvProvenance
<1>1. InitFabrique => IInvProvenance
  BY DEF InitFabrique, IInvProvenance
<1>2. IInvFabrique /\ IInvFabrique' /\ IInvProvenance /\ [NextFabrique]_varsFabrique => IInvProvenance'
  BY ProvenanceGardee DEF IInvFabrique
<1> QED  BY <1>1, <1>2, InvariantFabrique, PTL DEF SpecFabrique

\* A whole artefact holds the network of the version its provenance names.
THEOREM ProvenanceCorrecte == SpecFabrique => []ProvenanceJuste
<1>1. IInvProvenance => ProvenanceJuste
  BY DEF IInvProvenance, ProvenanceJuste
<1> QED  BY <1>1, InvariantProvenance, PTL
=============================================================================
