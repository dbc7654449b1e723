------------------------------ MODULE Fabrique -------------------------------
(***************************************************************************)
(* From the extract to the service: graphbuild (cmd/graphbuild/main.go)    *)
(* reads the extract, builds the graph, hashes the extract and writes the  *)
(* artefact; routed (cmd/routed/main.go) reads it when it starts. Nothing  *)
(* keeps the two apart: graphbuild may be killed at any step, the extract  *)
(* replaced and routed restarted at any other.                             *)
(*                                                                         *)
(* A provenance is the version its hash tells. Build is what Construction  *)
(* establishes of it; union-find is taken by its result, a largest set of  *)
(* nodes that lead to each other.                                          *)
(***************************************************************************)
EXTENDS Lecture, Artefact, Cout

CONSTANTS
  BuildsMax,        \* bound: how many times graphbuild is run
  AvoidPaved        \* the preferences requests may carry, NaN included
ASSUME PreferencesAssumption == AvoidPaved \subseteq Int

VARIABLES
  gb,               \* graphbuild: "repos", "lit", "cree" or "ecrit"
  builds,
  mots,             \* what it has to write
  stable,           \* history: the extract has not changed since it was started
  produits          \* history: the artefacts written to the end

varsFabrique == <<varsLecture, varsArtefact, gb, builds, mots, stable, produits>>

----------------------------------------------------------------------------
Fermes(c) == {S \in SUBSET (0 .. c.n - 1) : \A k \in 0 .. c.m - 1 : c.from[k] \in S => c.to[k] \in S}
Composantes(c) ==
  {S \in Fermes(c) \ {{}} : \A T \in Fermes(c) \ {{}} : T \subseteq S => T = S}
mainComponent(c) ==
  CHOOSE S \in Composantes(c) : \A T \in Composantes(c) : Cardinality(T) <= Cardinality(S)
Build ==
  LET g == C!Build(C!newIndex, C!order)
  IN  [n |-> b.n, m |-> b.m, coords |-> b.coords, offsets |-> g.offsets, targets |-> g.targets,
       attrs |-> [e \in 0 .. b.m - 1 |-> b.attrs[g.attrs[e]]], reverse |-> g.reverse,
       bits |-> mainComponent(b)]

InitFabrique ==
  /\ InitLecture /\ InitArtefact
  /\ gb = "repos" /\ builds = 0 /\ mots = <<>>
  /\ stable = TRUE
  /\ produits = {}

\* A process starts, or ends, with nothing read.
Memoire(l) ==
  /\ lecture' = l
  /\ ways' = <<>> /\ coords' = Vide /\ iw' = 1 /\ is' = 1
  /\ refs' = Vide /\ b' = Bati
Lancer ==
  /\ gb = "repos" /\ builds < BuildsMax
  /\ gb' = "lit" /\ builds' = builds + 1
  /\ stable' = TRUE
  /\ Memoire("ways")
  /\ UNCHANGED <<extrait, varsArtefact, mots, produits>>
Lire ==
  /\ gb = "lit" /\ Read
  /\ UNCHANGED <<varsArtefact, gb, builds, mots, stable, produits>>
\* hashFile reads the extract a third time. Mutant: a hash kept from before.
HacherSansRelire ==
  /\ gb = "lit" /\ lecture = "lu"
  /\ gb' = "cree"
  /\ mots' = Write(Build, 1)
  /\ Memoire("repos")
  /\ UNCHANGED <<extrait, varsArtefact, builds, stable, produits>>
Hacher ==
  /\ gb = "lit" /\ lecture = "lu"
  /\ gb' = "cree"
  /\ mots' = Write(Build, extrait)
  /\ Memoire("repos")
  /\ UNCHANGED <<extrait, varsArtefact, builds, stable, produits>>
CreerArtefact ==
  /\ gb = "cree" /\ Creer
  /\ gb' = "ecrit"
  /\ UNCHANGED <<varsLecture, builds, mots, stable, produits>>
EcrireArtefact ==
  /\ gb = "ecrit" /\ Len(fichier) < Len(mots)
  /\ Ecrire(mots[Len(fichier) + 1])
  /\ produits' = IF Len(fichier') = Len(mots)
                 THEN produits \cup {mots} ELSE produits
  /\ UNCHANGED <<varsLecture, gb, builds, mots, stable>>
Finir ==
  /\ \/ gb = "ecrit" /\ Len(fichier) = Len(mots)
     \/ gb = "lit" /\ lecture = "echec"
  /\ gb' = "repos" /\ mots' = <<>>
  /\ Memoire("repos")
  /\ UNCHANGED <<extrait, varsArtefact, builds, stable, produits>>
\* graphbuild is killed, or one of its writes fails: what is written stays.
Tomber ==
  /\ gb # "repos"
  /\ gb' = "repos" /\ mots' = <<>>
  /\ Memoire("repos")
  /\ UNCHANGED <<extrait, varsArtefact, builds, stable, produits>>
RemplacerExtrait ==
  /\ Remplacer
  /\ stable' = (stable /\ gb # "lit")
  /\ UNCHANGED <<varsArtefact, gb, builds, mots, produits>>

Graphbuild == Lancer \/ Lire \/ Hacher \/ CreerArtefact \/ EcrireArtefact \/ Finir \/ Tomber
\* Disks rot. Bound: once the last build is over, or was cut.
Degrader == gb = "repos" /\ builds = BuildsMax /\ \E k \in DOMAIN fichier, mot \in Mots : Abimer(k, mot)
Routed == Ouvrir \/ ReadGraph \/ Arreter \/ Degrader
NextFabrique ==
  \/ Graphbuild \/ RemplacerExtrait
  \/ Routed /\ UNCHANGED <<varsLecture, gb, builds, mots, stable, produits>>
SpecFabrique == InitFabrique /\ [][NextFabrique]_varsFabrique

----------------------------------------------------------------------------
\* routed serves one artefact that graphbuild wrote to its end, never the rest
\* of a killed build nor pieces of two, as long as none was created under its
\* reading and the disk is sound (codec.go:76-81, graphbuild main.go:60-68).
ServiEntier ==
  serveur = "sert" /\ ~trouble => recu \in produits

\* An edge as the words tell it: its ends by their positions, its length and
\* its ground; and as a segment of the extract does, either way.
Depart(w, e) == CHOOSE n \in 0 .. numNodes(w) - 1 : offsets(w)[n] <= e /\ e < offsets(w)[n + 1]
Ecrite(w, e) ==
  <<w[6 + Depart(w, e)], w[6 + targets(w)[e]], Attrs(attrs(w)[e]).longueur, Attrs(attrs(w)[e]).surface>>
Attendues(v, s) ==
  LET c == Extraits[v].noeuds
      y == Extraits[v].ways[s[1]]
      p == c[y.nodes[s[2]]]
      q == c[y.nodes[s[2] + 1]]
      l == Arrondi(Longueur(p, q))
      r == CodeSurface[Revetement(y.tags)]
  IN  {<<p, q, l, r>>, <<q, p, l, r>>}

\* The words are those of the network of the version they name.
Authentique(w) ==
  LET v == w[4]
      E == 0 .. numEdges(w) - 1
  IN  /\ v \in DOMAIN Extraits
      /\ numNodes(w) = Cardinality(Noeuds(v))
      /\ numEdges(w) = 2 * Cardinality(Segments(v))
      /\ {Ecrite(w, e) : e \in E} = UNION {Attendues(v, s) : s \in Segments(v)}
      /\ \A e \in E : LET r == reverse(w)[e]
                      IN  /\ r # e /\ reverse(w)[r] = e
                          /\ Depart(w, r) = targets(w)[e]
                          /\ attrs(w)[r] = attrs(w)[e]

\* An artefact holds the network of the extract its provenance names, provided
\* the file did not change while it was built: its segments, in both directions
\* that are each other's reverse, and nothing else, no node twice; through the
\* two passes, the sort of Build, the encoding and the third reading that hashes
\* the file (read.go:28-33, main.go:40-58).
ProvenanceJuste ==
  gb = "ecrit" /\ Len(fichier) = Len(mots) /\ stable => Authentique(mots)

\* On any graph that is served, damaged or not, and for any preference, NaN
\* included, no edge costs less than its length, nor more than 19 times it: the
\* heuristic of the search stays below every cost (attrs.go:19-26). Only the
\* sign of a damaged length is trusted; that of a sound one is right.
CoutAdmissible ==
  serveur = "sert" => \A e \in 0 .. numEdges(recu) - 1 :
    LET a == Attrs(attrs(recu)[e])
    IN  a.longueur >= 0 => \A p \in AvoidPaved :
          /\ Cost(a, Weights(p)) >= Echelle * a.longueur
          /\ Cost(a, Weights(p)) <= 19 * Echelle * a.longueur

----------------------------------------------------------------------------
\* The inductive invariant of the proofs: no part of graph.bin looks like a
\* whole artefact but those that were written to their end.
Debut(w, k) == SubSeq(w, 1, k)
Propre(f, p) == \A k \in 0 .. Len(f) : Complet(Debut(f, k)) => Debut(f, k) \in p
IInvFabrique ==
  /\ IInvLecture /\ IInvArtefact
  /\ mots \in Seq(Nat)
  /\ gb \in {"repos", "lit", "cree", "ecrit"}
  /\ gb \in {"cree", "ecrit"} => Complet(mots)
  /\ gb = "ecrit" => /\ ~abime /\ Len(fichier) <= Len(mots)
                     /\ fichier = Debut(mots, Len(fichier))
  /\ ~abime => Propre(fichier, produits)
  /\ serveur = "lit" /\ ~trouble =>
       /\ ~abime /\ Len(recu) <= Len(fichier)
       /\ recu = Debut(fichier, Len(recu))
  /\ serveur \in {"valide", "sert"} /\ ~trouble => recu \in produits
\* What is built from one version is the network of that version.
IInvProvenance ==
  /\ gb = "lit" => lecture # "repos"
  /\ gb = "lit" /\ stable /\ lecture # "echec" =>
       IInvPasses(extrait) /\ (lecture \in {"assemble", "lu"} => IInvAssemblee(extrait))
  /\ gb \in {"cree", "ecrit"} /\ stable => Authentique(mots)
=============================================================================
