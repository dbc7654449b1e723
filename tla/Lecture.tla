------------------------------- MODULE Lecture -------------------------------
(***************************************************************************)
(* osmsource.Read (internal/adapter/osmsource): an extract read twice, the *)
(* ways first, then the nodes they need, and assembled into the builder of *)
(* module Construction; a step reads a way or assembles a segment.         *)
(*                                                                         *)
(* An extract is what the PBF scanner gives: ways with their nodes and     *)
(* tags (an absent tag is "", as in a Go map), and the positions of the    *)
(* nodes that lie in it, integers for which HaversineM is the distance on  *)
(* a line. The file may be replaced at any step, even under a pass.        *)
(***************************************************************************)
EXTENDS Integers, Sequences, FiniteSets

CONSTANTS
  Extraits,             \* the versions of the file, in order
  RemplacementsMax      \* bound: how many of them may follow the first

\* f is a sequence.
Suite(f) == f \in Seq({f[i] : i \in DOMAIN f})
ASSUME ExtraitsAssumption ==
  /\ RemplacementsMax \in Nat /\ Suite(Extraits) /\ Len(Extraits) > RemplacementsMax
  /\ \A v \in DOMAIN Extraits :
       /\ \A i \in DOMAIN Extraits[v].noeuds : i \in Nat /\ Extraits[v].noeuds[i] \in Nat
       /\ Suite(Extraits[v].ways)
       /\ \A i \in DOMAIN Extraits[v].ways : Extraits[v].ways[i].nodes \in Seq(Nat)

VARIABLES
  extrait,         \* the version the file holds
  lecture,         \* "repos", "ways", "noeuds", "assemble", "lu" or "echec"
  ways, coords,    \* what the passes kept
  iw, is,          \* assemble: the way and the segment it is at
  refs,            \* assemble: NodeRef of the nodes met
  b                \* the builder

varsLecture == <<extrait, lecture, ways, coords, iw, is, refs, b>>

Vide == [x \in {} |-> 0]
Bati == [n |-> 0, m |-> 0, from |-> Vide, to |-> Vide, attrs |-> Vide, coords |-> Vide]
C == INSTANCE Construction WITH Builders <- {}, g <- Vide, parent <- Vide, size <- Vide,
       phase <- "tri", rang <- 0, x <- -1, ra <- -1, mainRoot <- -1, mainSize <- 0, bits <- {}
----------------------------------------------------------------------------
wayClasses ==
  [path |-> <<"path", 0>>, bridleway |-> <<"path", 0>>, track |-> <<"track", 0>>,
   footway |-> <<"footway", 0>>, pedestrian |-> <<"footway", 10>>, cycleway |-> <<"footway", 10>>,
   living_street |-> <<"residential", 40>>, service |-> <<"residential", 60>>,
   residential |-> <<"residential", 90>>, unclassified |-> <<"residential", 120>>,
   tertiary |-> <<"tertiary", 180>>, secondary |-> <<"secondary", 255>>]
defaultSurfaces ==
  [path |-> "ground", track |-> "ground", footway |-> "paved", residential |-> "paved",
   tertiary |-> "paved", secondary |-> "paved"]
surfaceValues ==
  [paved  |-> {"asphalt", "paved", "concrete", "paving_stones", "cobblestone", "sett"},
   gravel |-> {"gravel", "fine_gravel", "compacted", "pebblestone"},
   ground |-> {"ground", "dirt", "earth", "grass", "sand", "mud", "unpaved", "woodchips"}]

\* Classify, in two halves: whether a way is kept, and as what.
Praticable(t) == t.highway \in DOMAIN wayClasses /\ t.access \notin {"private", "no"}
Revetement(t) ==
  IF \E s \in DOMAIN surfaceValues : t.surface \in surfaceValues[s]
  THEN CHOOSE s \in DOMAIN surfaceValues : t.surface \in surfaceValues[s]
  ELSE defaultSurfaces[wayClasses[t.highway][1]]
Classify(t) == [surface |-> Revetement(t), traffic |-> wayClasses[t.highway][2]]

Retenu(w) == Len(w.nodes) >= 2 /\ Praticable(w.tags)
Needed(ws) == UNION {{ws[i].nodes[j] : j \in DOMAIN ws[i].nodes} : i \in DOMAIN ws}

\* Builder: append to a slice of length n.
Ajouter(f, n, v) == [i \in 0 .. n |-> IF i = n THEN v ELSE f[i]]
AddNode(c, p) == [c EXCEPT !.n = c.n + 1, !.coords = Ajouter(c.coords, c.n, p)]
AddEdge(c, u, v, a) ==
  [c EXCEPT !.m = c.m + 1, !.from = Ajouter(c.from, c.m, u), !.to = Ajouter(c.to, c.m, v),
            !.attrs = Ajouter(c.attrs, c.m, a)]

InitLecture ==
  /\ extrait = 1
  /\ lecture = "repos"
  /\ ways = <<>> /\ coords = Vide
  /\ iw = 1 /\ is = 1
  /\ refs = Vide /\ b = Bati

\* The download: a new version of the file.
Remplacer ==
  /\ extrait <= RemplacementsMax
  /\ extrait' = extrait + 1
  /\ UNCHANGED <<lecture, ways, coords, iw, is, refs, b>>

Fichier == Extraits[extrait]
\* The first pass, way by way: a file replaced under it gives some of both.
ScanWay ==
  /\ lecture = "ways" /\ iw <= Len(Fichier.ways)
  /\ ways' = IF Retenu(Fichier.ways[iw]) THEN Append(ways, Fichier.ways[iw]) ELSE ways
  /\ iw' = iw + 1
  /\ UNCHANGED <<extrait, lecture, coords, is, refs, b>>
FinWays ==
  /\ lecture = "ways" /\ iw > Len(Fichier.ways)
  /\ lecture' = "noeuds" /\ iw' = 1
  /\ UNCHANGED <<extrait, ways, coords, is, refs, b>>
ScanNodes ==
  /\ lecture = "noeuds"
  /\ lecture' = "assemble"
  /\ coords' = [i \in Needed(ways) \cap DOMAIN Fichier.noeuds |-> Fichier.noeuds[i]]
  /\ UNCHANGED <<extrait, ways, iw, is, refs, b>>
\* The file cannot be opened or decoded to its end.
LectureRatee ==
  /\ lecture \in {"ways", "noeuds"}
  /\ lecture' = "echec"
  /\ UNCHANGED <<extrait, ways, coords, iw, is, refs, b>>

\* nodeRef: a node of the extract gets its NodeRef the first time it is met.
NodeRef(e, id) ==
  IF id \in DOMAIN e.refs \/ id \notin DOMAIN coords THEN e
  ELSE [refs |-> [i \in DOMAIN e.refs \cup {id} |-> IF i = id THEN e.b.n ELSE e.refs[i]],
        b    |-> AddNode(e.b, coords[id])]
Longueur(p, q) == IF p < q THEN q - p ELSE p - q
\* Mutant: the second edge of a segment is forgotten when it exists already.
DeuxSensUnique(c, u, v, a) ==
  IF \E i \in 0 .. c.m - 1 : c.from[i] = v /\ c.to[i] = u THEN AddEdge(c, u, v, a)
  ELSE AddEdge(AddEdge(c, u, v, a), v, u, a)
DeuxSens(c, u, v, a) == AddEdge(AddEdge(c, u, v, a), v, u, a)

SegmentCourant == lecture = "assemble" /\ iw <= Len(ways) /\ is < Len(ways[iw].nodes)
Segment ==
  /\ SegmentCourant
  /\ LET w  == ways[iw]
         u  == w.nodes[is]
         v  == w.nodes[is + 1]
         e  == NodeRef(NodeRef([refs |-> refs, b |-> b], u), v)
     IN  /\ refs' = e.refs
         /\ b' = IF {u, v} \subseteq DOMAIN coords /\ e.refs[u] # e.refs[v]
                 THEN DeuxSens(e.b, e.refs[u], e.refs[v],
                        [longueur |-> Longueur(coords[u], coords[v]),
                         surface |-> Classify(w.tags).surface, traffic |-> Classify(w.tags).traffic])
                 ELSE e.b
  /\ is' = is + 1
  /\ UNCHANGED <<extrait, lecture, ways, coords, iw>>
WaySuivant ==
  /\ lecture = "assemble" /\ iw <= Len(ways) /\ is = Len(ways[iw].nodes)
  /\ iw' = iw + 1 /\ is' = 1
  /\ UNCHANGED <<extrait, lecture, ways, coords, refs, b>>
\* No segment at all is an error.
FinLecture ==
  /\ lecture = "assemble" /\ iw > Len(ways)
  /\ lecture' = IF b.m = 0 THEN "echec" ELSE "lu"
  /\ UNCHANGED <<extrait, ways, coords, iw, is, refs, b>>

Read == ScanWay \/ FinWays \/ ScanNodes \/ LectureRatee \/ Segment \/ WaySuivant \/ FinLecture
----------------------------------------------------------------------------
\* Whatever the ways share, repeat or lose at the edge of the extract, the
\* builder is one that Build may trust: every segment is a pair (u, v), (v, u)
\* of nodes it has (graph.go:82-89, read.go:111-157).
ContratTenu == C!Contrat(b)

\* The network of an extract: its segments, two consecutive nodes it holds, not
\* the same, of a way one may walk; and the nodes of those ways.
Segments(v) ==
  {s \in UNION {{<<i, j>> : j \in DOMAIN Extraits[v].ways[i].nodes} : i \in DOMAIN Extraits[v].ways} :
     LET w == Extraits[v].ways[s[1]]
     IN  /\ Praticable(w.tags) /\ s[2] < Len(w.nodes)
         /\ {w.nodes[s[2]], w.nodes[s[2] + 1]} \subseteq DOMAIN Extraits[v].noeuds
         /\ w.nodes[s[2]] # w.nodes[s[2] + 1]}
Noeuds(v) ==
  LET w == Extraits[v].ways
  IN  {id \in DOMAIN Extraits[v].noeuds :
         \E j \in DOMAIN w : Retenu(w[j]) /\ \E k \in DOMAIN w[j].nodes : id = w[j].nodes[k]}

----------------------------------------------------------------------------
\* The inductive invariant of the proofs: a builder, and NodeRefs it has given.
Bon(r, c) ==
  /\ DOMAIN c = {"n", "m", "from", "to", "attrs", "coords"}
  /\ C!Contrat(c) /\ c.m % 2 = 0
  /\ \A id \in DOMAIN r : r[id] \in 0 .. c.n - 1
\* What the passes keep comes from the extract, and what they build may be written.
Attributs == [longueur : Nat, surface : {"paved", "gravel", "ground"}, traffic : 0 .. 255]
Chiffre(c) == c.coords \in [0 .. c.n - 1 -> Nat] /\ c.attrs \in [0 .. c.m - 1 -> Attributs]
Voies == UNION {{Extraits[v].ways[i] : i \in DOMAIN Extraits[v].ways} : v \in DOMAIN Extraits}
IInvLecture ==
  /\ extrait \in 1 .. RemplacementsMax + 1
  /\ ways \in Seq({w \in Voies : Retenu(w)})
  /\ iw \in Nat \ {0} /\ is \in Nat \ {0}
  /\ \A id \in DOMAIN coords : coords[id] \in Nat
  /\ Bon(refs, b) /\ Chiffre(b)

\* The passes over version v, if it is the only one they read: f tells of every
\* way that was kept which one of the file it is.
Gardables(v) ==
  {i \in DOMAIN Extraits[v].ways : Retenu(Extraits[v].ways[i]) /\ (lecture = "ways" => i < iw)}
Gardees(f, v) ==
  /\ \A j, k \in 1 .. Len(ways) : f[j] = f[k] => j = k
  /\ \A i \in Gardables(v) : \E j \in 1 .. Len(ways) : f[j] = i
  /\ \A j \in 1 .. Len(ways) : ways[j] = Extraits[v].ways[f[j]]

\* The pairs of consecutive nodes met, the p-th of way j being <<j, p>>, and
\* those that made a segment.
Amont(s) == ways[s[1]].nodes[s[2]]
Aval(s) == ways[s[1]].nodes[s[2] + 1]
Paires == UNION {{<<j, p>> : p \in 1 .. Len(ways[j].nodes) - 1} : j \in 1 .. Len(ways)}
Passees == {s \in Paires : s[1] < iw \/ (s[1] = iw /\ s[2] < is)}
Utile(s) == {Amont(s), Aval(s)} \subseteq DOMAIN coords /\ Amont(s) # Aval(s)
Attribut(s) == [longueur |-> Longueur(coords[Amont(s)], coords[Aval(s)]),
                surface |-> Classify(ways[s[1]].tags).surface,
                traffic |-> Classify(ways[s[1]].tags).traffic]
\* NodeRefs number the nodes they are given to.
Numerotes(r, c) ==
  /\ DOMAIN r \subseteq DOMAIN coords
  /\ \A i, j \in DOMAIN r : r[i] = r[j] => i = j
  /\ \A n \in 0 .. c.n - 1 : \E i \in DOMAIN r : r[i] = n
  /\ \A i \in DOMAIN r : c.coords[r[i]] = coords[i]
\* The t-th segment of builder c is h[t], walked both ways.
Assemblees(h, r, c) == \A t \in 0 .. c.m \div 2 - 1 :
  /\ c.from[2 * t] = r[Amont(h[t])] /\ c.to[2 * t] = r[Aval(h[t])]
  /\ c.attrs[2 * t] = Attribut(h[t]) /\ c.attrs[2 * t + 1] = Attribut(h[t])
Bijective(h, q, S) ==
  /\ h \in [0 .. q - 1 -> S]
  /\ \A t, u \in 0 .. q - 1 : h[t] = h[u] => t = u
  /\ \A s \in S : \E t \in 0 .. q - 1 : h[t] = s
\* The nodes met and the segments made are those of the pairs P.
Rencontres(P) == {i \in DOMAIN coords : \E s \in P : i \in {Amont(s), Aval(s)}}
Utiles(P) == {s \in P : Utile(s)}
Enumerees(P, r, c) == \E h \in [0 .. c.m \div 2 - 1 -> Utiles(P)] :
  Bijective(h, c.m \div 2, Utiles(P)) /\ Assemblees(h, r, c)
Assemblable(P, r, c) == DOMAIN r = Rencontres(P) /\ Numerotes(r, c) /\ Enumerees(P, r, c)
IInvPasses(v) ==
  /\ \E f \in [1 .. Len(ways) -> Gardables(v)] : Gardees(f, v)
  /\ lecture \in {"ways", "noeuds"} => is = 1 /\ refs = Vide /\ b = Bati
  /\ lecture = "noeuds" => iw = 1
IInvAssemblee(v) ==
  /\ coords = [i \in Needed(ways) \cap DOMAIN Extraits[v].noeuds |-> Extraits[v].noeuds[i]]
  /\ iw <= Len(ways) => is <= Len(ways[iw].nodes)
  /\ lecture = "lu" => iw > Len(ways)
  /\ Assemblable(Passees, refs, b)
=============================================================================
