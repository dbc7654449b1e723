------------------------------ MODULE Artefact -------------------------------
(***************************************************************************)
(* Write, ReadGraph and validateGraph, internal/adapter/network/csr/       *)
(* codec.go: the artefact graph.bin, written and read in place, word by    *)
(* word, by two processes that do not know of each other.                  *)
(*                                                                         *)
(* A word is one value of the format, whatever its width: the header, a    *)
(* node's coordinates, an offset, an edge's attributes... The header is    *)
(* the provenance, one word; a header of another length is not JSON. The   *)
(* class of a way is left out: nothing reads it back; so is a length NaN.  *)
(***************************************************************************)
EXTENDS Integers, Sequences

CONSTANTS
  Mots,                \* what a damaged word may hold
  Provenances,         \* the headers json.Unmarshal decodes
  maxNodes, maxEdges,
  Pas,                 \* lengths are rounded to a multiple of it by float32
  DegatsMax            \* bound: damaged words

ASSUME FormatAssumption ==
  /\ Mots \subseteq Nat /\ Provenances \subseteq Nat
  /\ maxNodes \in Nat /\ maxEdges \in Nat
  /\ Pas \in Nat \ {0}
  /\ DegatsMax \in Nat

VARIABLES
  fichier,             \* the words of graph.bin; none: empty or absent
  serveur,             \* routed: "eteint", "lit", "valide", "sert"
  recu,                \* the words it has read
  i,                   \* validateGraph: the offset it compares
  degats,
  abime,               \* history: the file holds a damaged word
  trouble              \* history: what routed reads was damaged or rebuilt under it

varsArtefact == <<fichier, serveur, recu, i, degats, abime, trouble>>

magic == 7
formatVersion == 2
----------------------------------------------------------------------------
Arrondi(l) == Pas * ((2 * l + Pas) \div (2 * Pas))
CodeSurface == [paved |-> 1, gravel |-> 2, ground |-> 3]
Paquet(a) == 256 * 256 * (2 * Arrondi(a.longueur)) + 256 * CodeSurface[a.surface] + a.traffic
\* A float32 has a sign: the low bit.
Reel(x) == IF x % 2 = 0 THEN x \div 2 ELSE -(x \div 2)
Attrs(mot) ==
  [longueur |-> Reel(mot \div (256 * 256)), surface |-> (mot \div 256) % 256, traffic |-> mot % 256]

Tranche(f, n) == [k \in 1 .. n |-> f[k - 1]]
octets(n) == (n + 7) \div 8
Octet(bits, k) ==
  LET Bit(j) == IF 8 * k + j \in bits THEN 1 ELSE 0
  IN  Bit(0) + 2 * Bit(1) + 4 * Bit(2) + 8 * Bit(3)
        + 16 * Bit(4) + 32 * Bit(5) + 64 * Bit(6) + 128 * Bit(7)

\* The words of graph g with provenance p.
Write(g, p) ==
  <<magic, formatVersion, 1, p, g.n>> \o Tranche(g.coords, g.n) \o Tranche(g.offsets, g.n + 1)
    \o <<g.m>> \o Tranche(g.targets, g.m) \o [e \in 1 .. g.m |-> Paquet(g.attrs[e - 1])]
    \o Tranche(g.reverse, g.m) \o [k \in 1 .. octets(g.n) |-> Octet(g.bits, k - 1)]

\* Where a reader finds them.
numNodes(w) == w[5]
numEdges(w) == w[7 + 2 * numNodes(w)]
offsets(w) == [k \in 0 .. numNodes(w) |-> w[6 + numNodes(w) + k]]
targets(w) == [e \in 0 .. numEdges(w) - 1 |-> w[8 + 2 * numNodes(w) + e]]
attrs(w) == [e \in 0 .. numEdges(w) - 1 |-> w[8 + 2 * numNodes(w) + numEdges(w) + e]]
reverse(w) == [e \in 0 .. numEdges(w) - 1 |-> w[8 + 2 * numNodes(w) + 2 * numEdges(w) + e]]
\* Mutant: the component bits, whose length is not written, are forgotten.
longueurSansBits(w) == 7 + 2 * numNodes(w) + 3 * numEdges(w)
longueur(w) == 7 + 2 * numNodes(w) + 3 * numEdges(w) + octets(numNodes(w))
EnTeteLu(w) == Len(w) >= 7 /\ Len(w) >= 7 + 2 * numNodes(w)
Complet(w) == EnTeteLu(w) /\ Len(w) = longueur(w)

\* The exits of ReadGraph, each at the word that shows it.
Rejet(w) ==
  \/ Len(w) = 1 /\ w[1] # magic
  \/ Len(w) = 2 /\ w[2] # formatVersion
  \/ Len(w) = 3 /\ w[3] # 1
  \/ Len(w) = 4 /\ w[4] \notin Provenances
  \/ Len(w) = 5 /\ w[5] > maxNodes
  \/ Len(w) >= 7 /\ Len(w) = 7 + 2 * numNodes(w) /\ numEdges(w) > maxEdges

InitArtefact ==
  /\ fichier = <<>>
  /\ serveur = "eteint" /\ recu = <<>> /\ i = 1
  /\ degats = 0 /\ abime = FALSE /\ trouble = FALSE

----------------------------------------------------------------------------
\* os.Create: an existing file is emptied in place, under whoever reads it.
Creer ==
  /\ fichier' = <<>>
  /\ abime' = FALSE
  /\ trouble' = (trouble \/ serveur = "lit")
  /\ UNCHANGED <<serveur, recu, i, degats>>
Ecrire(mot) ==
  /\ fichier' = Append(fichier, mot)
  /\ UNCHANGED <<serveur, recu, i, degats, abime, trouble>>
Abimer(k, mot) ==
  /\ degats < DegatsMax
  /\ fichier' = [fichier EXCEPT ![k] = mot]
  /\ degats' = degats + 1 /\ abime' = TRUE
  /\ trouble' = (trouble \/ serveur = "lit")
  /\ UNCHANGED <<serveur, recu, i>>

----------------------------------------------------------------------------
\* routed starts. Without a file os.Open fails, as the first word does here.
Ouvrir ==
  /\ serveur = "eteint"
  /\ serveur' = "lit"
  /\ trouble' = abime
  /\ UNCHANGED <<fichier, recu, i, degats, abime>>
Refuser ==
  /\ serveur' = "eteint"
  /\ recu' = <<>> /\ i' = 1
  /\ UNCHANGED <<fichier, degats, abime, trouble>>
FinDeFichier == serveur = "lit" /\ Len(recu) >= Len(fichier) /\ Refuser
LireMot ==
  /\ serveur = "lit" /\ Len(recu) < Len(fichier)
  /\ LET w == Append(recu, fichier[Len(recu) + 1])
     IN  \/ Rejet(w) /\ Refuser
         \/ /\ ~Rejet(w)
            /\ recu' = w
            /\ serveur' = IF Complet(w) THEN "valide" ELSE "lit"
            /\ UNCHANGED <<fichier, i, degats, abime, trouble>>
\* validateGraph.
ValiderOffset ==
  /\ serveur = "valide" /\ i <= numNodes(recu)
  /\ \/ offsets(recu)[i] < offsets(recu)[i - 1] /\ Refuser
     \/ /\ offsets(recu)[i] >= offsets(recu)[i - 1]
        /\ i' = i + 1
        /\ UNCHANGED <<fichier, serveur, recu, degats, abime, trouble>>
\* Mutant: the last offset is not compared with the number of edges.
BornesSansFin(w) ==
  \A e \in 0 .. numEdges(w) - 1 : targets(w)[e] < numNodes(w) /\ reverse(w)[e] < numEdges(w)
Bornes(w) ==
  /\ offsets(w)[numNodes(w)] = numEdges(w)
  /\ \A e \in 0 .. numEdges(w) - 1 : /\ targets(w)[e] < numNodes(w)
                                    /\ reverse(w)[e] < numEdges(w)
Charger ==
  /\ serveur = "valide" /\ i > numNodes(recu)
  /\ \/ ~Bornes(recu) /\ Refuser
     \/ /\ Bornes(recu)
        /\ serveur' = "sert"
        /\ UNCHANGED <<fichier, recu, i, degats, abime, trouble>>
Arreter == serveur = "sert" /\ Refuser

ReadGraph == FinDeFichier \/ LireMot \/ ValiderOffset \/ Charger
\* Whoever writes the file, and whatever: the proofs are about this one.
Environnement ==
  \/ Creer
  \/ \E mot \in Nat : Ecrire(mot) \/ (\E k \in DOMAIN fichier : Abimer(k, mot))
SpecLibre ==
  InitArtefact /\ [][Environnement \/ Ouvrir \/ ReadGraph \/ Arreter]_varsArtefact
----------------------------------------------------------------------------
\* Whatever graph.bin holds, a graph that is served leads no search out of its
\* slices: EdgeRange, Target, Reverse and the component bit of every node and
\* edge are in bounds (codec.go:272-306).
ServiSur ==
  serveur = "sert" =>
    /\ \A n \in 0 .. numNodes(recu) - 1 :
         /\ offsets(recu)[n] <= offsets(recu)[n + 1]
         /\ offsets(recu)[n + 1] <= numEdges(recu)
         /\ n \div 8 < octets(numNodes(recu))
    /\ \A e \in 0 .. numEdges(recu) - 1 : /\ targets(recu)[e] < numNodes(recu)
                                         /\ reverse(recu)[e] < numEdges(recu)

\* The inductive invariant of the proofs: what has been compared is in order.
Croissants(w, k) == \A n \in 0 .. k - 1 : offsets(w)[n] <= offsets(w)[k]
IInvArtefact ==
  /\ fichier \in Seq(Nat) /\ recu \in Seq(Nat)
  /\ serveur \in {"eteint", "lit", "valide", "sert"}
  /\ i \in Nat \ {0}
  /\ serveur = "eteint" => recu = <<>>
  /\ serveur \in {"eteint", "lit"} => i = 1
  /\ serveur \in {"valide", "sert"} => Complet(recu) /\ i <= numNodes(recu) + 1
  /\ serveur \in {"valide", "sert"} => \A k \in 0 .. i - 1 : Croissants(recu, k)
  /\ serveur = "sert" => i = numNodes(recu) + 1 /\ Bornes(recu)
=============================================================================
