------------------------- MODULE ConstructionPreuve -------------------------
(***************************************************************************)
(* Theorems about Construction, for every builder that keeps the contract  *)
(* of AddEdge, of any size, and about Proche on the graph it builds.       *)
(***************************************************************************)
EXTENDS Proche, FiniteSetTheorems, TLAPS

\* i ^ 1 undoes itself.
LEMMA JumelleInvolution ==
  ASSUME NEW i \in Nat
  PROVE  Jumelle(i) \in Nat /\ Jumelle(Jumelle(i)) = i
<1>1. CASE i % 2 = 0
  <2>1. (i + 1) % 2 = 1
    BY <1>1, Z3
  <2> QED BY <1>1, <2>1 DEF Jumelle
<1>2. CASE i % 2 # 0
  <2>1. i >= 1 /\ (i - 1) % 2 = 0
    BY <1>2, Z3
  <2> QED BY <1>2, <2>1 DEF Jumelle
<1> QED BY <1>1, <1>2

LEMMA AretesFinies ==
  ASSUME Contrat(b)
  PROVE  /\ b.n \in Nat /\ b.m \in Nat
         /\ IsFiniteSet(Aretes) /\ Cardinality(Aretes) = b.m
         /\ Aretes \subseteq Nat
         /\ \A i \in Aretes : b.from[i] \in Nat /\ b.from[i] < b.n
<1>1. b.n \in Nat /\ b.m \in Nat
  BY DEF Contrat
<1>2. IsFiniteSet(Aretes) /\ Cardinality(Aretes) = b.m
  <2> DEFINE k == b.m - 1
  <2>1. k \in Int /\ 0 \in Int
    BY <1>1
  <2> HIDE DEF k
  <2>2. IsFiniteSet(0 .. k) /\ Cardinality(0 .. k) = IF 0 > k THEN 0 ELSE k - 0 + 1
    BY <2>1, FS_Interval
  <2>3. Aretes = 0 .. k /\ k = b.m - 1
    BY DEF Aretes, k
  <2> QED BY <1>1, <2>1, <2>2, <2>3
<1>3. \A i \in Aretes : b.from[i] \in Nat /\ b.from[i] < b.n
  <2> SUFFICES ASSUME NEW i \in Aretes
               PROVE  b.from[i] \in Nat /\ b.from[i] < b.n
    OBVIOUS
  <2>1. b.from[i] \in 0 .. b.n - 1
    BY DEF Contrat, Aretes, Noeuds
  <2> QED BY <1>1, <2>1
<1> QED BY <1>1, <1>2, <1>3 DEF Aretes

\* The ranks are those of the edges before, which are fewer than the edges.
LEMMA RangBorne ==
  ASSUME Contrat(b), NEW i \in Aretes
  PROVE  newIndex[i] \in Aretes
<1> DEFINE S == {j \in Aretes : Avant(j, i)}
<1>1. IsFiniteSet(Aretes) /\ Cardinality(Aretes) = b.m /\ b.m \in Nat /\ i \in Nat
  BY AretesFinies
<1>2. i \notin S
  BY <1>1, AretesFinies DEF Avant
<1>3. IsFiniteSet(S) /\ Cardinality(S) \in Nat /\ Cardinality(S) <= b.m
      /\ (Cardinality(S) = b.m => S = Aretes)
  BY <1>1, FS_Subset, FS_CardinalityType, S \in SUBSET Aretes
<1>4. Cardinality(S) < b.m
  BY <1>1, <1>2, <1>3
<1>5. newIndex[i] = Cardinality(S)
  BY DEF newIndex
<1> QED BY <1>1, <1>3, <1>4, <1>5 DEF Aretes

\* An edge before another one has a smaller rank.
LEMMA RangCroissant ==
  ASSUME Contrat(b), NEW i \in Aretes, NEW k \in Aretes, Avant(i, k)
  PROVE  newIndex[i] < newIndex[k]
<1> DEFINE S == {j \in Aretes : Avant(j, i)}
           T == {j \in Aretes : Avant(j, k)}
<1>1. /\ IsFiniteSet(Aretes) /\ i \in Nat /\ k \in Nat
      /\ \A j \in Aretes : j \in Nat /\ b.from[j] \in Nat
  BY AretesFinies
<1>2. S \subseteq T /\ i \in T /\ i \notin S
  <2>1. ASSUME NEW j \in Aretes, Avant(j, i)
        PROVE  Avant(j, k)
    <3>1. /\ j \in Nat /\ i \in Nat /\ k \in Nat
          /\ b.from[j] \in Nat /\ b.from[i] \in Nat /\ b.from[k] \in Nat
      BY <1>1
    <3> DEFINE u == b.from[j]  v == b.from[i]  w == b.from[k]
    <3>2. (u < v \/ (u = v /\ j < i)) /\ (v < w \/ (v = w /\ i < k))
      BY <2>1 DEF Avant
    <3> HIDE DEF u, v, w
    <3>3. u \in Nat /\ v \in Nat /\ w \in Nat
      BY <3>1 DEF u, v, w
    <3>4. u < w \/ (u = w /\ j < k)
      BY <3>1, <3>2, <3>3
    <3> QED BY <3>4 DEF Avant, u, w
  <2>2. ~Avant(i, i)
    BY <1>1 DEF Avant
  <2> QED BY <2>1, <2>2
<1>3. IsFiniteSet(T) /\ IsFiniteSet(S)
  BY <1>1, FS_Subset, S \in SUBSET Aretes, T \in SUBSET Aretes
<1>4. Cardinality(S) <= Cardinality(T) /\ Cardinality(S) # Cardinality(T)
  BY <1>2, <1>3, FS_Subset, S \in SUBSET T
<1>5. Cardinality(S) \in Nat /\ Cardinality(T) \in Nat
  BY <1>3, FS_CardinalityType
<1>6. newIndex[i] = Cardinality(S) /\ newIndex[k] = Cardinality(T)
  BY DEF newIndex
<1> QED BY <1>4, <1>5, <1>6

\* order and newIndex are inverse permutations of the edges.
LEMMA Permutation ==
  ASSUME Contrat(b)
  PROVE  /\ newIndex \in [Aretes -> Aretes] /\ order \in [Aretes -> Aretes]
         /\ \A p \in Aretes : newIndex[order[p]] = p
         /\ \A i \in Aretes : order[newIndex[i]] = i
<1>1. newIndex \in [Aretes -> Aretes]
  BY RangBorne DEF newIndex
<1>2. \A i, k \in Aretes : newIndex[i] = newIndex[k] => i = k
  <2> SUFFICES ASSUME NEW i \in Aretes, NEW k \in Aretes, i # k
               PROVE  newIndex[i] # newIndex[k]
    OBVIOUS
  <2>1. Avant(i, k) \/ Avant(k, i)
    BY AretesFinies DEF Avant
  <2>2. newIndex[i] \in Nat /\ newIndex[k] \in Nat
    BY RangBorne, AretesFinies
  <2>3. newIndex[i] < newIndex[k] \/ newIndex[k] < newIndex[i]
    BY <2>1, RangCroissant
  <2> QED BY <2>2, <2>3
<1>3. \A p \in Aretes : \E i \in Aretes : newIndex[i] = p
  <2>1. newIndex \in Injection(Aretes, Aretes)
    BY <1>1, <1>2 DEF Injection, IsInjective
  <2>2. newIndex \in Surjection(Aretes, Aretes)
    BY <2>1, FS_Injection, AretesFinies
  <2> QED BY <2>2 DEF Surjection
<1>4. order \in [Aretes -> Aretes] /\ \A p \in Aretes : newIndex[order[p]] = p
  BY <1>3 DEF order
<1>5. \A i \in Aretes : order[newIndex[i]] = i
  BY <1>1, <1>2, <1>4
<1> QED BY <1>1, <1>4, <1>5

\* The sorted edges of a node are those of its range.
LEMMA Plage ==
  ASSUME Contrat(b), NEW i \in Aretes
  PROVE  newIndex[i] \in offsets[b.from[i]] .. offsets[b.from[i] + 1] - 1
<1> DEFINE n == b.from[i]
           A == {j \in Aretes : b.from[j] < n}
           B == {j \in Aretes : b.from[j] < n + 1}
           S == {j \in Aretes : Avant(j, i)}
<1>1. /\ IsFiniteSet(Aretes) /\ i \in Nat /\ n \in Nat /\ n < b.n /\ b.n \in Nat
      /\ \A j \in Aretes : j \in Nat /\ b.from[j] \in Nat
  BY AretesFinies
<1>2. A \subseteq S /\ S \subseteq B /\ i \in B /\ i \notin S
  <2>1. ASSUME NEW j \in Aretes
        PROVE  /\ b.from[j] < n => Avant(j, i)
               /\ Avant(j, i) => b.from[j] < n + 1
    BY <1>1 DEF Avant
  <2>2. ~Avant(i, i) /\ b.from[i] < n + 1
    BY <1>1 DEF Avant
  <2> QED BY <2>1, <2>2
<1>3. IsFiniteSet(B) /\ IsFiniteSet(S) /\ IsFiniteSet(A)
  BY <1>1, FS_Subset, S \in SUBSET Aretes, A \in SUBSET Aretes, B \in SUBSET Aretes
<1>4. Cardinality(A) <= Cardinality(S)
  BY <1>2, <1>3, FS_Subset, A \in SUBSET S
<1>5. Cardinality(S) <= Cardinality(B) /\ Cardinality(S) # Cardinality(B)
  BY <1>2, <1>3, FS_Subset, S \in SUBSET B
<1>6. Cardinality(A) \in Nat /\ Cardinality(S) \in Nat /\ Cardinality(B) \in Nat
  BY <1>3, FS_CardinalityType
<1>7. newIndex[i] = Cardinality(S) /\ offsets[n] = Cardinality(A)
      /\ offsets[n + 1] = Cardinality(B)
  BY <1>1 DEF newIndex, offsets
<1> QED BY <1>4, <1>5, <1>6, <1>7

----------------------------------------------------------------------------
LEMMA InitIInv == Init => IInv
<1> SUFFICES ASSUME Init
             PROVE  IInv
  OBVIOUS
<1>1. Contrat(b) /\ b.n \in Nat /\ b.m \in Nat
  BY BuilderAssumption DEF Init, Contrat
<1>2. TypeOK
  BY <1>1 DEF Init, TypeOK, Noeuds
<1>3. LiensMontants /\ GrapheFidele /\ \A n \in Noeuds(b) : size[n] > 0
  BY DEF Init, LiensMontants, GrapheFidele
<1> QED BY <1>1, <1>2, <1>3 DEF Init, IInv

LEMMA ReverseJuste ==
  ASSUME Contrat(b), NEW p \in Aretes
  PROVE  /\ reverse(newIndex, order)[p] \in Aretes
         /\ order[reverse(newIndex, order)[p]] = Jumelle(order[p])
         /\ reverse(newIndex, order)[reverse(newIndex, order)[p]] = p
         /\ b.to[order[reverse(newIndex, order)[p]]] = b.from[order[p]]
<1> DEFINE i == order[p]
           q == newIndex[Jumelle(i)]
<1>1. i \in Aretes /\ i \in Nat /\ newIndex[i] = p
  BY Permutation, AretesFinies
<1>2. Jumelle(i) \in Aretes /\ b.to[Jumelle(i)] = b.from[i] /\ Jumelle(Jumelle(i)) = i
  BY <1>1, JumelleInvolution DEF Contrat, Aretes
<1>3. q \in Aretes /\ order[q] = Jumelle(i)
  BY <1>2, Permutation
<1>4. reverse(newIndex, order)[p] = q
  BY DEF reverse
<1>5. reverse(newIndex, order)[q] = p
  <2>1. reverse(newIndex, order)[q] = newIndex[Jumelle(order[q])]
    BY <1>3 DEF reverse
  <2> QED BY <1>1, <1>2, <1>3, <2>1
<1> QED BY <1>2, <1>3, <1>4, <1>5

\* The slices of the graph, and what Reverse and the ranges are worth.
LEMMA BuildJuste ==
  ASSUME Contrat(b)
  PROVE  /\ offsets \in [0 .. b.n -> Nat]
         /\ order \in [Aretes -> Aretes] /\ newIndex \in [Aretes -> Aretes]
         /\ reverse(newIndex, order) \in [Aretes -> Aretes]
         /\ Build(newIndex, order).targets \in [Aretes -> Noeuds(b)]
<1>1. offsets \in [0 .. b.n -> Nat]
  <2> SUFFICES ASSUME NEW n \in 0 .. b.n PROVE Cardinality({i \in Aretes : b.from[i] < n}) \in Nat
    BY DEF offsets
  <2>1. IsFiniteSet({i \in Aretes : b.from[i] < n})
    BY AretesFinies, FS_Subset, {i \in Aretes : b.from[i] < n} \in SUBSET Aretes
  <2> QED  BY <2>1, FS_CardinalityType
<1>2. order \in [Aretes -> Aretes] /\ newIndex \in [Aretes -> Aretes]
  BY Permutation
<1>3. reverse(newIndex, order) \in [Aretes -> Aretes]
  <2>1. \A p \in Aretes : newIndex[Jumelle(order[p])] \in Aretes
    BY <1>2 DEF Contrat, Aretes
  <2> QED  BY <2>1 DEF reverse
<1>4. \A p \in Aretes : b.to[order[p]] \in Noeuds(b)
  BY <1>2 DEF Contrat, Aretes
<1> QED  BY <1>1, <1>2, <1>3, <1>4 DEF Build

LEMMA TrierIInv ==
  ASSUME IInv, Trier
  PROVE  IInv'
<1>1. /\ Contrat(b) /\ TypeOK /\ LiensMontants
      /\ x = -1 /\ ra = -1 /\ \A n \in Noeuds(b) : size[n] > 0
  BY DEF IInv, Trier
<1>2. /\ g' = Build(newIndex, order) /\ phase' = "union"
      /\ UNCHANGED <<b, parent, size, rang, x, ra, mainRoot, mainSize, bits>>
  BY DEF Trier
<1>3. /\ g'.offsets = offsets /\ g'.attrs = order
      /\ g'.reverse = reverse(newIndex, order)
      /\ g'.targets = [p \in Aretes |-> b.to[order[p]]]
  BY <1>2 DEF Build
<1>4. Aretes' = Aretes /\ Noeuds(b)' = Noeuds(b) /\ Contrat(b)'
  BY <1>1, <1>2 DEF Aretes
<1>5. g'.attrs \in [Aretes -> Aretes] /\ g'.targets \in [Aretes -> Noeuds(b)]
  <2>1. \A p \in Aretes : b.to[order[p]] \in Noeuds(b)
    BY <1>1, Permutation DEF Contrat, Aretes
  <2> QED BY <1>1, <1>3, <2>1, Permutation
<1>6. GrapheFidele'
  <2> SUFFICES ASSUME NEW p \in Aretes
               PROVE  /\ p \in g'.offsets[b.from[g'.attrs[p]]]
                                .. g'.offsets[b.from[g'.attrs[p]] + 1] - 1
                      /\ g'.reverse[p] \in Aretes
                      /\ g'.attrs[g'.reverse[p]] = Jumelle(g'.attrs[p])
                      /\ g'.reverse[g'.reverse[p]] = p
                      /\ g'.targets[g'.reverse[p]] = b.from[g'.attrs[p]]
    BY <1>2, <1>4 DEF GrapheFidele, EdgeRange
  <2>1. order[p] \in Aretes /\ newIndex[order[p]] = p
    BY <1>1, Permutation
  <2>2. p \in offsets[b.from[order[p]]] .. offsets[b.from[order[p]] + 1] - 1
    BY <1>1, <2>1, Plage
  <2>3. /\ g'.reverse[p] \in Aretes
        /\ order[g'.reverse[p]] = Jumelle(order[p])
        /\ g'.reverse[g'.reverse[p]] = p
        /\ b.to[order[g'.reverse[p]]] = b.from[order[p]]
    BY <1>1, <1>3, ReverseJuste
  <2> QED BY <1>3, <2>2, <2>3
<1>7. TypeOK' /\ LiensMontants' /\ \A n \in Noeuds(b)' : size'[n] > 0
  BY <1>1, <1>2, <1>4 DEF TypeOK, LiensMontants, Trier
<1> QED BY <1>1, <1>2, <1>4, <1>5, <1>6, <1>7 DEF IInv

\* What the steps of the union-find leave alone.
LEMMA GrapheGarde ==
  ASSUME GrapheFidele, UNCHANGED <<b, g>>, phase # "tri"
  PROVE  GrapheFidele'
BY DEF GrapheFidele, EdgeRange, Aretes

\* The ends of an edge are nodes.
LEMMA BoutsNoeuds ==
  ASSUME IInv, phase # "tri", NEW e \in Aretes
  PROVE  Source(e) \in Noeuds(b) /\ g.targets[e] \in Noeuds(b)
<1>1. g.attrs[e] \in Aretes /\ g.targets[e] \in Noeuds(b)
  BY DEF IInv
<1>2. b.from[g.attrs[e]] \in Noeuds(b)
  BY <1>1 DEF IInv, Contrat, Aretes
<1>3. e \in EdgeRange(b.from[g.attrs[e]])
  BY DEF IInv, GrapheFidele
<1> QED BY <1>1, <1>2, <1>3 DEF Source

LEMMA SauterIInv ==
  ASSUME IInv, Sauter
  PROVE  IInv'
<1>1. /\ Contrat(b) /\ TypeOK /\ LiensMontants /\ GrapheFidele /\ phase # "tri"
      /\ x \in Noeuds(b) /\ parent[x] # x /\ x # -1
  BY DEF IInv, Sauter, TypeOK
<1> DEFINE y == parent[x]
           z == parent[y]
<1>2. y \in Noeuds(b) /\ z \in Noeuds(b)
  BY <1>1 DEF TypeOK
<1>3. /\ parent' = [parent EXCEPT ![x] = z] /\ x' = z
      /\ UNCHANGED <<b, g, size, phase, rang, ra, mainRoot, mainSize, bits>>
  BY DEF Sauter
<1>4. -1 \notin Noeuds(b)
  BY DEF Noeuds
<1>5. TypeOK'
  BY <1>1, <1>2, <1>3 DEF TypeOK
<1>6. LiensMontants'
  <2> SUFFICES ASSUME NEW n \in Noeuds(b), parent'[n] # n
               PROVE  size[n] < size[parent'[n]]
    BY <1>3 DEF LiensMontants
  <2>1. CASE n # x
    BY <1>1, <1>3, <2>1 DEF LiensMontants, TypeOK
  <2>2. CASE n = x
    <3>1. parent'[n] = z
      BY <1>1, <1>3, <2>2 DEF TypeOK
    <3>2. size[x] < size[y] /\ (z # y => size[y] < size[z])
      BY <1>1, <1>2 DEF LiensMontants
    <3>3. size[x] \in Nat /\ size[y] \in Nat /\ size[z] \in Nat
      BY <1>1, <1>2 DEF TypeOK
    <3>4. size[x] < size[z]
      <4>1. CASE z = y
        BY <3>2, <4>1
      <4>2. CASE z # y
        <5> DEFINE sx == size[x]  sy == size[y]  sz == size[z]
        <5>1. sx < sy /\ sy < sz /\ sx \in Nat /\ sy \in Nat /\ sz \in Nat
          BY <3>2, <3>3, <4>2
        <5> HIDE DEF sx, sy, sz
        <5>2. sx < sz
          BY <5>1
        <5> QED BY <5>2 DEF sx, sz
      <4> QED BY <4>1, <4>2
    <3> QED BY <2>2, <3>1, <3>4
  <2> QED BY <2>1, <2>2
<1>7. GrapheFidele'
  BY <1>1, <1>3, GrapheGarde
<1>8. ra' # -1 => x' # -1 /\ parent'[ra'] = ra'
  <2> SUFFICES ASSUME ra # -1
               PROVE  z # -1 /\ parent'[ra] = ra
    BY <1>3
  <2>1. parent[ra] = ra /\ ra \in Noeuds(b)
    BY <1>1 DEF IInv, TypeOK
  <2> QED BY <1>1, <1>2, <1>3, <1>4, <2>1 DEF TypeOK
<1> QED BY <1>1, <1>2, <1>3, <1>4, <1>5, <1>6, <1>7, <1>8 DEF IInv, Aretes

LEMMA LierIInv ==
  ASSUME IInv, Lier
  PROVE  IInv'
<1>1. /\ Contrat(b) /\ TypeOK /\ LiensMontants /\ GrapheFidele
      /\ phase = "union" /\ rang < b.m /\ b.m \in Nat
      /\ x \in Noeuds(b) /\ ra \in Noeuds(b) /\ x # ra
      /\ parent[x] = x /\ parent[ra] = ra
  BY DEF IInv, Lier, Trouvee, TypeOK, Contrat
<1>2. /\ phase' = "union" /\ rang' = rang + 1 /\ x' = -1 /\ ra' = -1
      /\ UNCHANGED <<b, g, mainRoot, mainSize, bits>>
  BY <1>1 DEF Lier
<1>3. PICK haut \in {ra, x}, bas \in {ra, x} :
        /\ haut # bas
        /\ parent' = [parent EXCEPT ![bas] = haut]
        /\ size' = [size EXCEPT ![haut] = size[haut] + size[bas]]
  BY DEF Lier
<1>4. /\ haut \in Noeuds(b) /\ bas \in Noeuds(b)
      /\ parent[haut] = haut /\ parent[bas] = bas
      /\ size[haut] \in Nat /\ size[bas] \in Nat /\ size[haut] > 0 /\ size[bas] > 0
  BY <1>1, <1>3 DEF IInv, TypeOK
<1>5. /\ size'[haut] = size[haut] + size[bas]
      /\ \A n \in Noeuds(b) : n # haut => size'[n] = size[n]
      /\ parent'[bas] = haut
      /\ \A n \in Noeuds(b) : n # bas => parent'[n] = parent[n]
  BY <1>1, <1>3, <1>4 DEF TypeOK
<1>6. size'[haut] > size[haut] /\ size'[haut] > size[bas] /\ size'[haut] \in Nat
  BY <1>4, <1>5
<1>7. TypeOK'
  <2>1. parent' \in [Noeuds(b) -> Noeuds(b)] /\ size' \in [Noeuds(b) -> Nat]
    BY <1>1, <1>3, <1>4, <1>5, <1>6 DEF TypeOK
  <2>2. rang' \in 0 .. b.m
    BY <1>1, <1>2 DEF TypeOK
  <2> QED BY <1>1, <1>2, <2>1, <2>2 DEF TypeOK
<1>8. LiensMontants'
  <2> SUFFICES ASSUME NEW n \in Noeuds(b), parent'[n] # n
               PROVE  size'[n] < size'[parent'[n]]
    BY <1>2 DEF LiensMontants
  <2>1. CASE n = bas
    BY <1>3, <1>4, <1>5, <1>6, <2>1
  <2>2. CASE n # bas
    <3>1. parent'[n] = parent[n] /\ parent[n] # n /\ n # haut /\ parent[n] \in Noeuds(b)
      BY <1>1, <1>4, <1>5, <2>2 DEF TypeOK
    <3>2. size'[n] = size[n] /\ size[n] < size[parent[n]]
      BY <1>1, <1>5, <3>1 DEF LiensMontants
    <3>3. CASE parent[n] = haut
      <4>1. size[n] \in Nat
        BY <1>1 DEF TypeOK
      <4> QED BY <1>4, <1>6, <3>1, <3>2, <3>3, <4>1
    <3>4. CASE parent[n] # haut
      BY <1>5, <3>1, <3>2, <3>4
    <3> QED BY <3>3, <3>4
  <2> QED BY <2>1, <2>2
<1>9. \A n \in Noeuds(b) : size'[n] > 0
  BY <1>4, <1>5, <1>6 DEF IInv
<1>10. GrapheFidele'
  BY <1>1, <1>2, GrapheGarde
<1>11. g.attrs \in [Aretes -> Aretes] /\ g.targets \in [Aretes -> Noeuds(b)]
  BY <1>1 DEF IInv
<1> QED BY <1>1, <1>2, <1>7, <1>8, <1>9, <1>10, <1>11 DEF IInv, Aretes

\* The steps that touch neither tree nor size.
LEMMA AutresIInv ==
  ASSUME IInv,
         \/ ChercherSource \/ ChercherCible \/ MemeRacine \/ FinUnion
         \/ ChercherNoeud \/ Retenir \/ FinChoix \/ Marquer \/ FinBits
         \/ UNCHANGED vars
  PROVE  IInv'
<1>1. /\ Contrat(b) /\ TypeOK /\ LiensMontants /\ GrapheFidele
      /\ b.n \in Nat /\ b.m \in Nat /\ -1 \notin Noeuds(b)
  <2>1. Contrat(b) /\ TypeOK /\ LiensMontants /\ GrapheFidele
    BY DEF IInv
  <2>2. b.n \in Nat /\ b.m \in Nat
    BY <2>1 DEF Contrat
  <2>3. -1 \notin Noeuds(b)
    BY <2>2 DEF Noeuds
  <2> QED BY <2>1, <2>2, <2>3
<1>2. UNCHANGED <<b, parent, size, g>>
  BY DEF ChercherSource, ChercherCible, MemeRacine, FinUnion, ChercherNoeud, Chercher,
         Retenir, FinChoix, Marquer, FinBits, vars
<1>3. /\ Contrat(b)' /\ LiensMontants' /\ \A n \in Noeuds(b)' : size'[n] > 0
      /\ (phase # "tri" => GrapheFidele')
      /\ (phase # "tri" => (g.attrs \in [Aretes -> Aretes])' /\ (g.targets \in [Aretes -> Noeuds(b)])')
  <2>1. Contrat(b)' /\ LiensMontants' /\ \A n \in Noeuds(b)' : size'[n] > 0
    BY <1>1, <1>2 DEF LiensMontants, IInv
  <2>2. phase # "tri" => GrapheFidele'
    BY <1>1, <1>2, GrapheGarde
  <2>3. Aretes' = Aretes /\ Noeuds(b)' = Noeuds(b) /\ g' = g
    BY <1>2 DEF Aretes
  <2>4. phase # "tri" => g'.attrs \in [Aretes' -> Aretes']
                         /\ g'.targets \in [Aretes' -> Noeuds(b)']
    BY <2>3 DEF IInv
  <2> QED BY <2>1, <2>2, <2>4
<1> DEFINE Reste ==
      /\ TypeOK
      /\ ra # -1 => x # -1 /\ parent[ra] = ra
      /\ phase = "union" /\ x # -1 => rang < b.m
      /\ phase \in {"choix", "bits"} => ra = -1 /\ (x # -1 => rang < b.n)
      /\ phase \in {"tri", "fini"} => x = -1 /\ ra = -1
<1>4. ASSUME Reste', phase # "tri"
      PROVE  IInv'
  BY <1>3, <1>4 DEF IInv
<1>5. CASE ChercherSource
  <2>1. rang \in Aretes
    BY <1>1, <1>5 DEF ChercherSource, Aretes, TypeOK
  <2>2. Source(rang) \in Noeuds(b)
    BY <1>5, <2>1, BoutsNoeuds DEF ChercherSource
  <2>3. Reste'
    BY <1>1, <1>2, <1>5, <2>2 DEF ChercherSource, Chercher, TypeOK, IInv
  <2> QED BY <1>4, <1>5, <2>3 DEF ChercherSource
<1>6. CASE ChercherCible
  <2>1. rang \in Aretes /\ rang < b.m /\ x \in Noeuds(b)
    BY <1>1, <1>6 DEF ChercherCible, Trouvee, Aretes, TypeOK, IInv
  <2>2. g.targets[rang] \in Noeuds(b)
    BY <1>6, <2>1, BoutsNoeuds DEF ChercherCible
  <2>3. Reste'
    BY <1>1, <1>2, <1>6, <2>1, <2>2 DEF ChercherCible, Trouvee, TypeOK
  <2> QED BY <1>4, <1>6, <2>3 DEF ChercherCible
<1>7. CASE MemeRacine
  <2>1. rang' \in 0 .. b.m
    BY <1>1, <1>7 DEF MemeRacine, Trouvee, TypeOK, IInv
  <2>2. Reste'
    BY <1>1, <1>2, <1>7, <2>1 DEF MemeRacine, TypeOK
  <2> QED BY <1>4, <1>7, <2>2 DEF MemeRacine
<1>8. CASE FinUnion
  <2>1. Reste'
    BY <1>1, <1>2, <1>8 DEF FinUnion, TypeOK, IInv
  <2> QED BY <1>4, <1>8, <2>1 DEF FinUnion
<1>9. CASE ChercherNoeud
  <2>1. rang \in Noeuds(b)
    BY <1>1, <1>9 DEF ChercherNoeud, TypeOK, Noeuds
  <2>2. Reste'
    BY <1>1, <1>2, <1>9, <2>1 DEF ChercherNoeud, Chercher, TypeOK, IInv
  <2> QED BY <1>4, <1>9, <2>2 DEF ChercherNoeud
<1>10. CASE Retenir
  <2>1. rang < b.n /\ rang \in Nat /\ rang \in Noeuds(b) /\ ra = -1
    BY <1>1, <1>10 DEF Retenir, Trouvee, TypeOK, IInv, Noeuds
  <2>2. rang' \in 0 .. b.n /\ mainRoot' \in Noeuds(b) \cup {-1} /\ mainSize' \in Nat
    BY <1>1, <1>10, <2>1 DEF Retenir, TypeOK
  <2>3. Reste'
    BY <1>1, <1>2, <1>10, <2>1, <2>2 DEF Retenir, TypeOK
  <2> QED BY <1>4, <1>10, <2>3 DEF Retenir
<1>11. CASE FinChoix
  <2>1. Reste'
    BY <1>1, <1>2, <1>11 DEF FinChoix, TypeOK, IInv
  <2> QED BY <1>4, <1>11, <2>1 DEF FinChoix
<1>12. CASE Marquer
  <2>1. rang < b.n /\ rang \in Nat /\ rang \in Noeuds(b) /\ ra = -1
    BY <1>1, <1>12 DEF Marquer, Trouvee, TypeOK, IInv, Noeuds
  <2>2. rang' \in 0 .. b.n /\ bits' \subseteq Noeuds(b)
    BY <1>1, <1>12, <2>1 DEF Marquer, TypeOK
  <2>3. Reste'
    BY <1>1, <1>2, <1>12, <2>1, <2>2 DEF Marquer, TypeOK
  <2> QED BY <1>4, <1>12, <2>3 DEF Marquer
<1>13. CASE FinBits
  <2>1. Reste'
    BY <1>1, <1>2, <1>13 DEF FinBits, TypeOK, IInv
  <2> QED BY <1>4, <1>13, <2>1 DEF FinBits
<1>14. CASE UNCHANGED vars
  BY <1>14 DEF vars, IInv, TypeOK, LiensMontants, GrapheFidele, EdgeRange, Aretes
<1> QED BY <1>5, <1>6, <1>7, <1>8, <1>9, <1>10, <1>11, <1>12, <1>13, <1>14

LEMMA NextIInv == IInv /\ [Next]_vars => IInv'
BY TrierIInv, SauterIInv, LierIInv, AutresIInv DEF Next, Etape

----------------------------------------------------------------------------
\* IInv, the inductive invariant of Build, holds for every builder.
THEOREM Invariant == Spec => []IInv
BY InitIInv, NextIInv, PTL DEF Spec

\* The CSR graph is the one that was added, and Reverse an involution that
\* turns every edge around (graph.go:82-89, 129-142). Only the ranks of the
\* edges matter, not how the sort reached them.
THEOREM GrapheCorrect == Spec => []GrapheFidele
<1>1. IInv => GrapheFidele
  BY DEF IInv
<1> QED BY Invariant, <1>1, PTL

\* The links of the union-find strictly climb: no cycle, every find ends
\* (graph.go:191-209).
THEOREM LiensCorrects == Spec => []LiensMontants
<1>1. IInv => LiensMontants
  BY DEF IInv
<1> QED BY Invariant, <1>1, PTL

----------------------------------------------------------------------------
\* The offsets climb from one node to the next.
LEMMA OffsetsCroissants ==
  ASSUME Contrat(b), NEW u \in 0 .. b.n, NEW v \in 0 .. b.n, u <= v
  PROVE  offsets[u] \in Nat /\ offsets[v] \in Nat /\ offsets[u] <= offsets[v]
<1> DEFINE A == {i \in Aretes : b.from[i] < u}
           B == {i \in Aretes : b.from[i] < v}
<1>1. /\ IsFiniteSet(Aretes) /\ b.n \in Nat
      /\ \A i \in Aretes : b.from[i] \in Nat
  BY AretesFinies
<1>2. A \in SUBSET B
  BY <1>1
<1>3. B \in SUBSET Aretes /\ IsFiniteSet(B)
  <2>1. B \in SUBSET Aretes
    OBVIOUS
  <2> HIDE DEF B
  <2> QED BY <1>1, <2>1, FS_Subset
<1>4. offsets[u] = Cardinality(A) /\ offsets[v] = Cardinality(B)
  BY DEF offsets
<1> HIDE DEF A, B
<1>5. IsFiniteSet(A) /\ Cardinality(A) <= Cardinality(B)
  BY <1>2, <1>3, FS_Subset
<1> QED BY <1>3, <1>4, <1>5, FS_CardinalityType

\* One node has an edge in its range: the one it was added from.
LEMMA DepartSeul ==
  ASSUME Contrat(b), NEW e \in Aretes
  PROVE  /\ b.from[order[e]] \in Noeuds(b) /\ b.to[order[e]] \in Noeuds(b)
         /\ offsets[b.from[order[e]]] <= e /\ e < offsets[b.from[order[e]] + 1]
         /\ \A n \in Noeuds(b) : offsets[n] <= e /\ e < offsets[n + 1] => n = b.from[order[e]]
<1> DEFINE m == b.from[order[e]]
<1>1. order[e] \in Aretes /\ newIndex[order[e]] = e /\ e \in Nat
  BY Permutation, AretesFinies
<1>2. m \in Noeuds(b) /\ b.to[order[e]] \in Noeuds(b) /\ b.n \in Nat
  BY <1>1 DEF Contrat, Aretes
<1>3. /\ m \in 0 .. b.n /\ m + 1 \in 0 .. b.n /\ m \in Int
      /\ \A n \in Noeuds(b) : n \in 0 .. b.n /\ n + 1 \in 0 .. b.n /\ n \in Int
  BY <1>2 DEF Noeuds
<1>4. \A n \in 0 .. b.n : offsets[n] \in Nat
  BY OffsetsCroissants
<1>5. e \in offsets[m] .. offsets[m + 1] - 1
  BY <1>1, Plage
<1>6. offsets[m] <= e /\ e < offsets[m + 1]
  BY <1>1, <1>3, <1>4, <1>5
<1>7. ASSUME NEW n \in Noeuds(b), offsets[n] <= e, e < offsets[n + 1]
      PROVE  n = m
  <2>1. ~(n + 1 <= m)
    BY <1>1, <1>3, <1>4, <1>6, <1>7, OffsetsCroissants
  <2>2. ~(m + 1 <= n)
    BY <1>1, <1>3, <1>4, <1>6, <1>7, OffsetsCroissants
  <2> HIDE DEF m
  <2> QED BY <1>3, <2>1, <2>2
<1> QED BY <1>2, <1>6, <1>7

\* The source of an edge is the node it was added from.
LEMMA SourceJuste ==
  ASSUME Contrat(b), g = Build(newIndex, order), NEW e \in Aretes
  PROVE  /\ Source(e) = b.from[order[e]] /\ g.targets[e] = b.to[order[e]]
         /\ Source(e) \in Noeuds(b) /\ g.targets[e] \in Noeuds(b)
<1>1. g.targets[e] = b.to[order[e]] /\ g.offsets = offsets
  BY DEF Build
<1>2. \A n \in Noeuds(b) : e \in EdgeRange(n) <=> offsets[n] <= e /\ e < offsets[n + 1]
  <2> TAKE n \in Noeuds(b)
  <2>1. n \in 0 .. b.n /\ n + 1 \in 0 .. b.n /\ e \in Nat
    BY AretesFinies DEF Noeuds
  <2>2. offsets[n] \in Nat /\ offsets[n + 1] \in Nat
    BY <2>1, OffsetsCroissants
  <2> QED BY <1>1, <2>1, <2>2 DEF EdgeRange
<1>3. Source(e) = b.from[order[e]]
  BY <1>2, DepartSeul DEF Source
<1> QED BY <1>1, <1>3, DepartSeul

\* Each edge has one that turns it around.
LEMMA Renverse ==
  ASSUME Contrat(b), g = Build(newIndex, order), NEW e \in Aretes
  PROVE  \E f \in Aretes : Source(f) = g.targets[e] /\ g.targets[f] = Source(e)
<1> DEFINE f == reverse(newIndex, order)[e]
<1>1. /\ f \in Aretes /\ order[f] = Jumelle(order[e]) /\ b.to[order[f]] = b.from[order[e]]
  BY ReverseJuste
<1>2. order[e] \in Aretes
  BY Permutation
<1>3. b.from[Jumelle(order[e])] = b.to[order[e]]
  BY <1>2 DEF Contrat, Aretes
<1> HIDE DEF f
<1> QED BY <1>1, <1>3, SourceJuste

LEMMA NoeudsFinis ==
  ASSUME Contrat(b)
  PROVE  IsFiniteSet(Noeuds(b)) /\ Cardinality(Noeuds(b)) = b.n
<1> DEFINE k == b.n - 1
<1>1. b.n \in Nat /\ k \in Int /\ 0 \in Int
  BY DEF Contrat
<1>2. Noeuds(b) = 0 .. k /\ k = b.n - 1
  BY DEF Noeuds
<1> HIDE DEF k
<1>3. IsFiniteSet(0 .. k) /\ Cardinality(0 .. k) = IF 0 > k THEN 0 ELSE k - 0 + 1
  BY <1>1, FS_Interval
<1> QED BY <1>1, <1>2, <1>3

\* Facts of every state of the union-find, for its steps.
LEMMA ForetFaits ==
  ASSUME IInv, phase # "tri", g = Build(newIndex, order)
  PROVE  /\ b.n \in Nat /\ b.m \in Nat /\ Aretes \subseteq Nat
         /\ \A e \in Aretes : Source(e) \in Noeuds(b) /\ g.targets[e] \in Noeuds(b)
         /\ \A n \in Noeuds(b) : n \in Nat /\ n < b.n /\ n # -1
         /\ parent \in [Noeuds(b) -> Noeuds(b)]
         /\ x \in Noeuds(b) \cup {-1} /\ ra \in Noeuds(b) \cup {-1}
         /\ phase = "union" => rang \in 0 .. b.m
         /\ phase # "union" => rang \in 0 .. b.n
<1>1. Contrat(b) /\ TypeOK
  BY DEF IInv
<1>2. \A e \in Aretes : Source(e) \in Noeuds(b) /\ g.targets[e] \in Noeuds(b)
  BY <1>1, SourceJuste
<1>3. b.n \in Nat /\ b.m \in Nat /\ Aretes \subseteq Nat
  BY <1>1, AretesFinies
<1>4. \A n \in Noeuds(b) : n \in Nat /\ n < b.n /\ n # -1
  BY <1>3 DEF Noeuds
<1>5. /\ parent \in [Noeuds(b) -> Noeuds(b)]
      /\ x \in Noeuds(b) \cup {-1} /\ ra \in Noeuds(b) \cup {-1}
  BY <1>1 DEF TypeOK
<1>6. /\ phase = "union" => rang \in 0 .. b.m
      /\ phase # "union" => rang \in 0 .. b.n
  BY <1>1 DEF TypeOK
<1> QED BY <1>2, <1>3, <1>4, <1>5, <1>6

LEMMA InitForet == Init => IInvUnion
<1> SUFFICES ASSUME Init
             PROVE  IInvUnion
  OBVIOUS
<1>1. IInv
  BY InitIInv
<1>2. /\ parent = [n \in Noeuds(b) |-> n] /\ size = [n \in Noeuds(b) |-> 1] /\ phase = "tri"
      /\ rang = 0 /\ x = -1 /\ mainRoot = -1 /\ mainSize = 0 /\ bits = {}
  BY DEF Init
<1> DEFINE r == [n \in Noeuds(b) |-> n]
<1>3. Arbres(r) /\ Jointes(r) /\ EnChemin(r) /\ Retenue(r)
  BY <1>2 DEF Arbres, Jointes, Unies, EnChemin, Retenue
<1>4. Poids(r)
  <2> SUFFICES ASSUME NEW h \in Noeuds(b)
               PROVE  size[h] = Cardinality(Classe(r, h))
    BY DEF Poids
  <2>1. Classe(r, h) = {h}
    BY DEF Classe
  <2> QED BY <1>2, <2>1, FS_Singleton
<1>5. r \in [Noeuds(b) -> Noeuds(b)]
  OBVIOUS
<1> HIDE DEF r
<1> QED BY <1>1, <1>2, <1>3, <1>4, <1>5 DEF IInvUnion, Foret

\* The sort gives the graph, and no edge is united yet.
LEMMA TrierForet ==
  ASSUME NEW r, Foret(r), Trier, rang = 0, x = -1
  PROVE  Foret(r)'
<1>1. /\ phase = "tri" /\ phase' = "union" /\ UNCHANGED <<b, parent, size, rang, x, ra, mainRoot, mainSize, bits>>
  BY DEF Trier
<1>2. Arbres(r)' /\ Poids(r)'
  BY <1>1 DEF Foret, Arbres, Poids, Classe
<1>3. Unies = {} /\ Unies' = {}
  BY <1>1 DEF Unies
<1>4. Jointes(r)'
  BY <1>1, <1>3 DEF Foret, Jointes, Sature
<1>5. Retenue(r)'
  BY <1>1 DEF Foret, Retenue
<1> QED BY <1>1, <1>2, <1>4, <1>5 DEF Foret, EnChemin

\* A half-hop: the tree of x is what it was.
LEMMA SauterForet ==
  ASSUME IInv, NEW r \in [Noeuds(b) -> Noeuds(b)], Foret(r), Sauter,
         g = Build(newIndex, order)
  PROVE  Foret(r)'
<1> DEFINE y == parent[x]
           z == parent[y]
<1>1. /\ phase # "tri" /\ x \in Noeuds(b) /\ x # -1 /\ y # x
      /\ parent' = [parent EXCEPT ![x] = z] /\ x' = z
      /\ UNCHANGED <<b, g, size, phase, rang, ra, mainRoot, mainSize, bits>>
  BY DEF IInv, Sauter, TypeOK
<1>2. /\ parent \in [Noeuds(b) -> Noeuds(b)]
      /\ \A n \in Noeuds(b) : n # -1
  BY <1>1, ForetFaits
<1>3. y \in Noeuds(b) /\ z \in Noeuds(b)
  BY <1>1, <1>2
<1>4. z # x
  <2>1. size[x] < size[y] /\ (z # y => size[y] < size[z])
    BY <1>1, <1>3 DEF IInv, LiensMontants
  <2>2. size[x] \in Nat /\ size[y] \in Nat /\ size[z] \in Nat
    BY <1>1, <1>3 DEF IInv, TypeOK
  <2> QED BY <1>1, <2>1, <2>2
<1>5. /\ \A n \in Noeuds(b) : n # x => parent'[n] = parent[n]
      /\ parent'[x] = z
  BY <1>1, <1>2
<1>6. Arbres(r)
  BY DEF Foret
<1>7. r[x] = r[y] /\ r[y] = r[z]
  BY <1>1, <1>3, <1>6 DEF Arbres
<1>8. Noeuds(b)' = Noeuds(b)
  BY <1>1
<1> HIDE DEF y, z
<1>9. Arbres(r)'
  <2> SUFFICES ASSUME NEW n \in Noeuds(b)
               PROVE  r[n] = r[parent'[n]] /\ parent'[r[n]] = r[n] /\ (parent'[n] = n => r[n] = n)
    BY <1>8 DEF Arbres
  <2>1. r[n] = r[parent[n]] /\ parent[r[n]] = r[n] /\ (parent[n] = n => r[n] = n) /\ r[n] \in Noeuds(b)
    BY <1>6 DEF Arbres
  <2>2. r[n] # x
    BY <1>1, <2>1 DEF y
  <2>3. CASE n = x
    BY <1>1, <1>4, <1>5, <1>7, <2>1, <2>2, <2>3
  <2>4. CASE n # x
    BY <1>5, <2>1, <2>2, <2>4
  <2> QED BY <2>3, <2>4
<1>10. Poids(r)'
  <2>1. \A h \in Noeuds(b) : parent'[h] = h => parent[h] = h
    BY <1>4, <1>5
  <2> QED BY <1>1, <1>8, <2>1 DEF Foret, Poids, Classe
<1>11. \A e \in Aretes : Source(e)' = Source(e)
  BY <1>1 DEF Source, EdgeRange
<1>12. Unies' = Unies /\ Aretes' = Aretes
  BY <1>1 DEF Unies, Aretes
<1>13. Jointes(r)'
  BY <1>1 DEF Foret, Jointes, Sature, Source, EdgeRange, Unies, Aretes
<1>14. EnChemin(r)'
  <2>1. EnChemin(r)
    BY DEF Foret
  <2>2. Source(rang)' = Source(rang)
    BY <1>1 DEF Source, EdgeRange
  <2> QED BY <1>1, <1>7, <2>1, <2>2 DEF EnChemin
<1>15. Retenue(r)'
  BY <1>1 DEF Foret, Retenue
<1> QED BY <1>9, <1>10, <1>13, <1>14, <1>15 DEF Foret

\* The edges united after a step decide what is joined.
LEMMA JointesApres ==
  ASSUME NEW r, NEW U, UNCHANGED <<b, g>>, Unies' = U,
         \A i \in U : r[Source(i)] = r[g.targets[i]],
         \A S \in SUBSET Noeuds(b) : Sature(S, U) => \A n \in Noeuds(b) : n \in S <=> r[n] \in S
  PROVE  Jointes(r)'
<1>1. \A e : Source(e)' = Source(e)
  BY DEF Source, EdgeRange
<1>2. ASSUME NEW S PROVE (\A i \in U : (Source(i) \in S)' <=> (g.targets[i] \in S)') <=> Sature(S, U)
  BY <1>1 DEF Sature
<1>3. \A i \in Unies' : r[Source(i)'] = r[g'.targets[i]]
  BY <1>1
<1> QED BY <1>1, <1>2, <1>3 DEF Jointes, Sature

\* The steps that move no tree: what is left to show of them.
LEMMA GardeForet ==
  ASSUME NEW r, Foret(r), UNCHANGED <<b, g, parent, size>>
  PROVE  /\ Arbres(r)' /\ Poids(r)'
         /\ \A e : Source(e)' = Source(e)
         /\ Unies' = Unies => Jointes(r)'
<1>1. Arbres(r)' /\ Poids(r)'
  BY DEF Foret, Arbres, Poids, Classe
<1>2. \A e : Source(e)' = Source(e)
  BY DEF Source, EdgeRange
<1>3. Unies' = Unies => Jointes(r)'
  BY JointesApres DEF Foret, Jointes
<1> QED BY <1>1, <1>2, <1>3

LEMMA ChercherForet ==
  ASSUME IInv, NEW r \in [Noeuds(b) -> Noeuds(b)], Foret(r), g = Build(newIndex, order),
         ChercherSource \/ ChercherCible \/ ChercherNoeud
  PROVE  Foret(r)'
<1>1. /\ UNCHANGED <<b, g, parent, size, phase, rang, mainRoot, mainSize, bits>>
      /\ phase \in {"union", "choix", "bits"}
  BY DEF ChercherSource, ChercherCible, ChercherNoeud, Chercher
<1>2. Unies' = Unies
  BY <1>1 DEF Unies, Aretes
<1>3. Retenue(r)'
  BY <1>1 DEF Foret, Retenue
<1>4. EnChemin(r)'
  <2>0. /\ x \in Noeuds(b) \cup {-1} /\ \A n \in Noeuds(b) : n # -1
        /\ Source(rang)' = Source(rang)
    BY <1>1, ForetFaits, GardeForet
  <2>1. CASE ChercherSource
    BY <1>1, <2>0, <2>1 DEF ChercherSource, Chercher, EnChemin
  <2>2. CASE ChercherCible
    <3>1. /\ phase = "union" /\ ra = -1 /\ x # -1 /\ parent[x] = x
          /\ ra' = x /\ x' = g.targets[rang]
      BY <2>2 DEF ChercherCible, Trouvee
    <3>2. r[x] = r[Source(rang)] /\ r[x] = x
      BY <2>0, <3>1 DEF Foret, EnChemin, Arbres
    <3> QED BY <1>1, <2>0, <3>1, <3>2 DEF EnChemin
  <2>3. CASE ChercherNoeud
    BY <1>1, <2>0, <2>3 DEF ChercherNoeud, Chercher, EnChemin
  <2> QED BY <2>1, <2>2, <2>3
<1> QED BY <1>1, <1>2, <1>3, <1>4, GardeForet DEF Foret

\* The two finds have ended: at the roots of the ends of the edge.
LEMMA DeuxRacines ==
  ASSUME IInv, NEW r \in [Noeuds(b) -> Noeuds(b)], Foret(r), g = Build(newIndex, order),
         phase = "union", ra # -1, Trouvee
  PROVE  /\ rang \in Aretes /\ x \in Noeuds(b) /\ ra \in Noeuds(b)
         /\ parent[x] = x /\ parent[ra] = ra /\ r[x] = x /\ r[ra] = ra
         /\ r[Source(rang)] = ra /\ r[g.targets[rang]] = x
         /\ Unies = 0 .. rang - 1 /\ Unies \subseteq Aretes
         /\ Unies \cup {rang} = 0 .. rang + 1 - 1
<1>1. x # -1 /\ parent[x] = x /\ parent[ra] = ra /\ rang < b.m
  BY DEF Trouvee, IInv
<1>2. /\ x \in Noeuds(b) /\ ra \in Noeuds(b) /\ rang \in 0 .. b.m /\ b.m \in Nat
  BY <1>1, ForetFaits
<1>3. r[x] = x /\ r[ra] = ra
  BY <1>1, <1>2 DEF Foret, Arbres
<1>4. r[Source(rang)] = ra /\ r[g.targets[rang]] = x
  BY <1>1, <1>3 DEF Foret, EnChemin
<1>5. Unies = 0 .. rang - 1
  BY DEF Unies
<1>6. rang \in Aretes /\ Unies \subseteq Aretes /\ Unies \cup {rang} = 0 .. rang + 1 - 1
  BY <1>1, <1>2, <1>5 DEF Aretes
<1> QED BY <1>1, <1>2, <1>3, <1>4, <1>5, <1>6

LEMMA MemeRacineForet ==
  ASSUME IInv, NEW r \in [Noeuds(b) -> Noeuds(b)], Foret(r), g = Build(newIndex, order),
         MemeRacine
  PROVE  Foret(r)'
<1>1. /\ UNCHANGED <<b, g, parent, size, phase, mainRoot, mainSize, bits>>
      /\ phase = "union" /\ ra # -1 /\ Trouvee /\ x = ra
      /\ rang' = rang + 1 /\ x' = -1
  BY DEF MemeRacine
<1>2. /\ rang \in Aretes /\ r[Source(rang)] = r[g.targets[rang]]
      /\ Unies' = Unies \cup {rang}
  BY <1>1, DeuxRacines DEF Unies
<1>3. \A e : Source(e)' = Source(e)
  BY <1>1, GardeForet
<1>4. Jointes(r)'
  <2>1. \A i \in Unies' : r[Source(i)] = r[g.targets[i]]
    BY <1>2 DEF Foret, Jointes
  <2>2. ASSUME NEW S \in SUBSET Noeuds(b), Sature(S, Unies \cup {rang})
        PROVE  \A n \in Noeuds(b) : n \in S <=> r[n] \in S
    <3>1. Sature(S, Unies)
      BY <2>2 DEF Sature
    <3> QED BY <3>1 DEF Foret, Jointes
  <2> QED BY <1>1, <1>2, <2>1, <2>2, JointesApres
<1>5. Retenue(r)' /\ EnChemin(r)'
  BY <1>1 DEF Foret, Retenue, EnChemin
<1> QED BY <1>1, <1>4, <1>5, GardeForet DEF Foret

\* Two trees become one.
LEMMA LierForet ==
  ASSUME IInv, NEW r \in [Noeuds(b) -> Noeuds(b)], Foret(r), g = Build(newIndex, order), Lier
  PROVE  \E q \in [Noeuds(b) -> Noeuds(b)] : Foret(q)'
<1>1. PICK haut \in {ra, x}, bas \in {ra, x} :
        /\ haut # bas
        /\ parent' = [parent EXCEPT ![bas] = haut]
        /\ size' = [size EXCEPT ![haut] = size[haut] + size[bas]]
  BY DEF Lier
<1>2. /\ phase = "union" /\ phase' = "union" /\ ra # -1 /\ Trouvee
      /\ rang' = rang + 1 /\ x' = -1 /\ ra' = -1
      /\ UNCHANGED <<b, g, mainRoot, mainSize, bits>>
  BY DEF Lier
<1>3. /\ rang \in Aretes /\ x \in Noeuds(b) /\ ra \in Noeuds(b)
      /\ parent[x] = x /\ parent[ra] = ra /\ r[x] = x /\ r[ra] = ra
      /\ r[Source(rang)] = ra /\ r[g.targets[rang]] = x
      /\ Unies \subseteq Aretes /\ Unies' = Unies \cup {rang}
  BY <1>2, DeuxRacines DEF Unies
<1>4. /\ haut \in Noeuds(b) /\ bas \in Noeuds(b) /\ {haut, bas} = {ra, x}
      /\ parent[haut] = haut /\ parent[bas] = bas /\ r[haut] = haut /\ r[bas] = bas
  BY <1>1, <1>3
<1>5. /\ parent \in [Noeuds(b) -> Noeuds(b)] /\ size \in [Noeuds(b) -> Nat]
      /\ Noeuds(b)' = Noeuds(b)
  BY <1>2 DEF IInv, TypeOK
<1>6. /\ parent'[bas] = haut
      /\ \A n \in Noeuds(b) : n # bas => parent'[n] = parent[n]
      /\ size'[haut] = size[haut] + size[bas]
      /\ \A n \in Noeuds(b) : n # haut => size'[n] = size[n]
  BY <1>1, <1>4, <1>5
<1>7. PICK q \in [Noeuds(b) -> Noeuds(b)] :
        \A n \in Noeuds(b) : q[n] = IF r[n] = bas THEN haut ELSE r[n]
  <2> DEFINE w == [n \in Noeuds(b) |-> IF r[n] = bas THEN haut ELSE r[n]]
  <2>1. w \in [Noeuds(b) -> Noeuds(b)]
    BY <1>4
  <2>2. \A n \in Noeuds(b) : w[n] = IF r[n] = bas THEN haut ELSE r[n]
    OBVIOUS
  <2> HIDE DEF w
  <2> QED BY <2>1, <2>2
<1>8. Arbres(r) /\ Poids(r) /\ Jointes(r) /\ Retenue(r)
  BY DEF Foret
<1>9. Arbres(q)'
  <2> SUFFICES ASSUME NEW n \in Noeuds(b)
               PROVE  q[n] = q[parent'[n]] /\ parent'[q[n]] = q[n] /\ (parent'[n] = n => q[n] = n)
    BY <1>5 DEF Arbres
  <2>1. /\ r[n] = r[parent[n]] /\ parent[r[n]] = r[n] /\ (parent[n] = n => r[n] = n)
        /\ r[n] \in Noeuds(b) /\ parent[n] \in Noeuds(b)
    BY <1>5, <1>8 DEF Arbres
  <2>2. q[n] = q[parent'[n]]
    <3>1. CASE n = bas
      BY <1>1, <1>4, <1>6, <1>7, <3>1
    <3>2. CASE n # bas
      BY <1>6, <1>7, <2>1, <3>2
    <3> QED BY <3>1, <3>2
  <2>3. parent'[q[n]] = q[n]
    BY <1>1, <1>4, <1>6, <1>7, <2>1
  <2>4. parent'[n] = n => q[n] = n
    BY <1>1, <1>4, <1>6, <1>7, <2>1
  <2> QED BY <2>2, <2>3, <2>4
<1>10. Poids(q)'
  <2> SUFFICES ASSUME NEW h \in Noeuds(b), parent'[h] = h
               PROVE  size'[h] = Cardinality(Classe(q, h))
    BY <1>5 DEF Poids, Classe
  <2>1. h # bas /\ parent[h] = h
    BY <1>1, <1>6
  <2>2. CASE h # haut
    <3>1. Classe(q, h) = Classe(r, h)
      BY <1>7, <2>1, <2>2 DEF Classe
    <3> QED BY <1>6, <1>8, <2>1, <2>2, <3>1 DEF Poids
  <2>3. CASE h = haut
    <3> DEFINE H == Classe(r, haut)
               B == Classe(r, bas)
    <3>1. Classe(q, h) = H \cup B /\ H \cap B = {}
      BY <1>1, <1>7, <2>3 DEF Classe
    <3>2. size[haut] = Cardinality(H) /\ size[bas] = Cardinality(B)
      BY <1>4, <1>8 DEF Poids
    <3>3. IsFiniteSet(H) /\ IsFiniteSet(B)
      <4>1. H \in SUBSET Noeuds(b) /\ B \in SUBSET Noeuds(b)
        BY DEF Classe
      <4>2. IsFiniteSet(Noeuds(b))
        BY NoeudsFinis DEF IInv
      <4> HIDE DEF H, B
      <4> QED BY <4>1, <4>2, FS_Subset
    <3> HIDE DEF H, B
    <3>4. Cardinality(H \cup B) = Cardinality(H) + Cardinality(B) - 0
      BY <3>1, <3>3, FS_Union, FS_EmptySet
    <3>5. Cardinality(H) \in Nat /\ Cardinality(B) \in Nat
      BY <3>3, FS_CardinalityType
    <3>6. Cardinality(H \cup B) = Cardinality(H) + Cardinality(B)
      BY <3>4, <3>5
    <3> QED BY <1>6, <2>3, <3>1, <3>2, <3>6
  <2> QED BY <2>2, <2>3
<1>11. Jointes(q)'
  <2> DEFINE U == Unies \cup {rang}
  <2>1. \A i \in Aretes : Source(i) \in Noeuds(b) /\ g.targets[i] \in Noeuds(b)
    BY <1>2, ForetFaits
  <2>2. \A i \in U : q[Source(i)] = q[g.targets[i]]
    <3>1. ASSUME NEW i \in Unies PROVE q[Source(i)] = q[g.targets[i]]
      <4>1. r[Source(i)] = r[g.targets[i]]
        BY <1>8 DEF Jointes
      <4> QED BY <1>3, <1>7, <2>1, <4>1
    <3>2. q[Source(rang)] = haut /\ q[g.targets[rang]] = haut
      BY <1>3, <1>4, <1>7, <2>1
    <3> QED BY <3>1, <3>2
  <2>3. ASSUME NEW S \in SUBSET Noeuds(b), Sature(S, U)
        PROVE  \A n \in Noeuds(b) : n \in S <=> q[n] \in S
    <3>1. Sature(S, Unies)
      BY <2>3 DEF Sature
    <3>2. \A n \in Noeuds(b) : n \in S <=> r[n] \in S
      BY <1>8, <3>1 DEF Jointes
    <3>3. Source(rang) \in S <=> g.targets[rang] \in S
      BY <2>3 DEF Sature
    <3>4. ra \in S <=> x \in S
      BY <1>3, <2>1, <3>2, <3>3
    <3>5. haut \in S <=> bas \in S
      BY <1>1, <3>4
    <3> QED BY <1>7, <3>2, <3>5
  <2> QED BY <1>2, <1>3, <2>2, <2>3, JointesApres
<1>12. EnChemin(q)' /\ Retenue(q)'
  BY <1>2, <1>8 DEF EnChemin, Retenue
<1> QED BY <1>7, <1>9, <1>10, <1>11, <1>12 DEF Foret

\* A find over the nodes has ended, at the root of its node.
LEMMA UneRacine ==
  ASSUME IInv, NEW r \in [Noeuds(b) -> Noeuds(b)], Foret(r), g = Build(newIndex, order),
         phase \in {"choix", "bits"}, Trouvee
  PROVE  rang \in Noeuds(b) /\ x \in Noeuds(b) /\ r[rang] = x /\ rang \in Nat
<1>1. x # -1 /\ parent[x] = x /\ rang < b.n
  BY DEF Trouvee, IInv
<1>2. x \in Noeuds(b) /\ rang \in 0 .. b.n /\ b.n \in Nat
  BY <1>1, ForetFaits
<1>3. r[x] = x /\ r[x] = r[rang]
  BY <1>1, <1>2 DEF Foret, Arbres, EnChemin
<1> QED BY <1>1, <1>2, <1>3 DEF Noeuds

LEMMA FinUnionForet ==
  ASSUME IInv, NEW r \in [Noeuds(b) -> Noeuds(b)], Foret(r), g = Build(newIndex, order), FinUnion
  PROVE  Foret(r)'
<1>1. /\ UNCHANGED <<b, g, parent, size, x, ra, mainRoot, mainSize, bits>>
      /\ phase = "union" /\ phase' = "choix" /\ x = -1 /\ rang = b.m /\ rang' = 0
  BY DEF FinUnion
<1>2. Unies' = Unies
  BY <1>1 DEF Unies, Aretes
<1>3. \A h \in Noeuds(b) : h \in Nat
  BY <1>1, ForetFaits
<1>4. Retenue(r)' /\ EnChemin(r)'
  BY <1>1, <1>3 DEF Foret, Retenue, EnChemin
<1> QED BY <1>1, <1>2, <1>4, GardeForet DEF Foret

LEMMA RetenirForet ==
  ASSUME IInv, NEW r \in [Noeuds(b) -> Noeuds(b)], Foret(r), g = Build(newIndex, order), Retenir
  PROVE  Foret(r)'
<1>1. /\ UNCHANGED <<b, g, parent, size, phase, ra, bits>>
      /\ phase = "choix" /\ Trouvee /\ rang' = rang + 1 /\ x' = -1
      /\ IF x = rang /\ size[rang] > mainSize
         THEN mainRoot' = rang /\ mainSize' = size[rang]
         ELSE UNCHANGED <<mainRoot, mainSize>>
  BY DEF Retenir
<1>2. rang \in Noeuds(b) /\ x \in Noeuds(b) /\ r[rang] = x /\ rang \in Nat
  BY <1>1, UneRacine
<1>3. \A h \in Noeuds(b) : h \in Nat /\ size[h] \in Nat /\ h # -1
  BY <1>1, ForetFaits DEF IInv, TypeOK
<1>4. mainSize \in Nat
  BY DEF IInv, TypeOK
<1>5. Unies' = Unies
  BY <1>1 DEF Unies, Aretes
<1>6. Retenue(r)
  BY DEF Foret
<1>7. IF mainRoot' = -1 THEN mainSize' = 0
      ELSE r[mainRoot'] = mainRoot' /\ mainSize' = size[mainRoot']
  BY <1>1, <1>2, <1>3, <1>6 DEF Retenue
<1>8. ASSUME NEW h \in Noeuds(b), r[h] = h, h < rang'
      PROVE  size[h] <= mainSize'
  <2>1. h < rang \/ h = rang
    BY <1>1, <1>2, <1>3, <1>8
  <2>2. h < rang => size[h] <= mainSize
    BY <1>1, <1>6, <1>8 DEF Retenue
  <2>3. mainSize <= mainSize' /\ mainSize' \in Nat
    BY <1>1, <1>2, <1>3, <1>4
  <2>4. h = rang => size[h] <= mainSize'
    BY <1>1, <1>2, <1>3, <1>4, <1>8
  <2> QED BY <1>3, <1>4, <2>1, <2>2, <2>3, <2>4
<1>9. Retenue(r)'
  BY <1>1, <1>6, <1>7, <1>8 DEF Retenue
<1>10. EnChemin(r)'
  BY <1>1 DEF EnChemin
<1> QED BY <1>1, <1>5, <1>9, <1>10, GardeForet DEF Foret

LEMMA MarquerForet ==
  ASSUME IInv, NEW r \in [Noeuds(b) -> Noeuds(b)], Foret(r), g = Build(newIndex, order), Marquer
  PROVE  Foret(r)'
<1>1. /\ UNCHANGED <<b, g, parent, size, phase, ra, mainRoot, mainSize>>
      /\ phase = "bits" /\ Trouvee /\ rang' = rang + 1 /\ x' = -1
      /\ bits' = IF x = mainRoot THEN bits \cup {rang} ELSE bits
  BY DEF Marquer
<1>2. rang \in Noeuds(b) /\ x \in Noeuds(b) /\ r[rang] = x /\ rang \in Nat
  BY <1>1, UneRacine
<1>3. \A h \in Noeuds(b) : h \in Nat
  BY <1>1, ForetFaits
<1>4. Unies' = Unies
  BY <1>1 DEF Unies, Aretes
<1>5. Retenue(r)
  BY DEF Foret
<1>6. \A n \in Noeuds(b) : n < rang' <=> n < rang \/ n = rang
  BY <1>1, <1>2, <1>3
<1>7. bits' = {n \in Noeuds(b) : n < rang' /\ r[n] = mainRoot}
  <2>1. bits = {n \in Noeuds(b) : n < rang /\ r[n] = mainRoot}
    BY <1>1, <1>5 DEF Retenue
  <2> QED BY <1>1, <1>2, <1>6, <2>1
<1>8. Retenue(r)' /\ EnChemin(r)'
  BY <1>1, <1>5, <1>7 DEF Retenue, EnChemin
<1> QED BY <1>1, <1>4, <1>8, GardeForet DEF Foret

LEMMA FinsForet ==
  ASSUME IInv, NEW r \in [Noeuds(b) -> Noeuds(b)], Foret(r), g = Build(newIndex, order),
         FinChoix \/ FinBits
  PROVE  Foret(r)'
<1>1. /\ UNCHANGED <<b, g, parent, size, x, ra, mainRoot, mainSize, bits>>
      /\ x = -1 /\ rang = b.n
      /\ \/ phase = "choix" /\ phase' = "bits" /\ rang' = 0
         \/ phase = "bits" /\ phase' = "fini" /\ rang' = rang
  BY DEF FinChoix, FinBits
<1>2. \A h \in Noeuds(b) : h \in Nat /\ h < b.n
  BY <1>1, ForetFaits
<1>3. Unies' = Unies
  BY <1>1 DEF Unies, Aretes
<1>4. \A h \in Noeuds(b) : ~(h < 0) /\ h < rang
  BY <1>1, <1>2
<1>5. bits' = {n \in Noeuds(b) : /\ phase' \in {"bits", "fini"}
                                 /\ phase' = "bits" => n < rang'
                                 /\ r[n] = mainRoot}
  BY <1>1, <1>4 DEF Foret, Retenue
<1>6. Retenue(r)' /\ EnChemin(r)'
  BY <1>1, <1>4, <1>5 DEF Foret, Retenue, EnChemin
<1> QED BY <1>1, <1>3, <1>6, GardeForet DEF Foret

LEMMA InchangeForet ==
  ASSUME NEW r, Foret(r), UNCHANGED vars
  PROVE  Foret(r)'
<1>1. UNCHANGED <<b, g, parent, size, phase, rang, x, ra, mainRoot, mainSize, bits>>
  BY DEF vars
<1>2. Unies' = Unies
  BY <1>1 DEF Unies, Aretes
<1>3. Retenue(r)' /\ EnChemin(r)'
  BY <1>1, GardeForet DEF Foret, Retenue, EnChemin
<1> QED BY <1>1, <1>2, <1>3, GardeForet DEF Foret

LEMMA MemeGraphe ==
  ASSUME UNCHANGED b
  PROVE  Build(newIndex, order)' = Build(newIndex, order)
<1>1. Aretes' = Aretes /\ offsets' = offsets
  BY DEF Aretes, offsets
<1>2. \A i, j : Avant(j, i)' <=> Avant(j, i)
  BY DEF Avant
<1>3. newIndex' = newIndex
  BY <1>1, <1>2 DEF newIndex
<1>4. order' = order
  BY <1>1, <1>3 DEF order
<1>5. reverse(newIndex, order)' = reverse(newIndex, order)
  BY <1>1, <1>3, <1>4 DEF reverse
<1> QED BY <1>1, <1>3, <1>4, <1>5 DEF Build

LEMMA NextForet == IInvUnion /\ [Next]_vars => IInvUnion'
<1> SUFFICES ASSUME IInvUnion, [Next]_vars
             PROVE  IInvUnion'
  OBVIOUS
<1>1. IInv /\ IInv'
  BY NextIInv DEF IInvUnion
<1>2. PICK r \in [Noeuds(b) -> Noeuds(b)] : Foret(r)
  BY DEF IInvUnion
<1>3. phase # "tri" => g = Build(newIndex, order)
  BY DEF IInvUnion
<1>4. Noeuds(b)' = Noeuds(b)
  BY DEF Next, Etape, Trier, Sauter, ChercherSource, ChercherCible, MemeRacine, Lier, FinUnion,
         ChercherNoeud, Retenir, FinChoix, Marquer, FinBits, vars
<1>5. \E q \in [Noeuds(b) -> Noeuds(b)] : Foret(q)'
  <2>1. CASE Trier
    <3>1. rang = 0 /\ x = -1
      BY <1>1, <2>1 DEF IInvUnion, IInv, Trier
    <3> QED BY <1>2, <2>1, <3>1, TrierForet
  <2>2. CASE Sauter
    <3>1. phase # "tri"
      BY <1>1, <2>2 DEF IInv, Sauter
    <3> QED BY <1>1, <1>2, <1>3, <2>2, <3>1, SauterForet
  <2>3. CASE ChercherSource \/ ChercherCible \/ ChercherNoeud
    <3>1. phase # "tri"
      BY <2>3 DEF ChercherSource, ChercherCible, ChercherNoeud
    <3> QED BY <1>1, <1>2, <1>3, <2>3, <3>1, ChercherForet
  <2>4. CASE MemeRacine
    BY <1>1, <1>2, <1>3, <2>4, MemeRacineForet DEF MemeRacine
  <2>5. CASE Lier
    BY <1>1, <1>2, <1>3, <2>5, LierForet DEF Lier
  <2>6. CASE FinUnion
    BY <1>1, <1>2, <1>3, <2>6, FinUnionForet DEF FinUnion
  <2>7. CASE Retenir
    BY <1>1, <1>2, <1>3, <2>7, RetenirForet DEF Retenir
  <2>8. CASE Marquer
    BY <1>1, <1>2, <1>3, <2>8, MarquerForet DEF Marquer
  <2>9. CASE FinChoix \/ FinBits
    BY <1>1, <1>2, <1>3, <2>9, FinsForet DEF FinChoix, FinBits
  <2>10. CASE UNCHANGED vars
    BY <1>2, <2>10, InchangeForet
  <2> QED BY <2>1, <2>2, <2>3, <2>4, <2>5, <2>6, <2>7, <2>8, <2>9, <2>10 DEF Next, Etape
<1>6. (IF phase = "tri" THEN rang = 0 ELSE g = Build(newIndex, order))'
  <2>1. CASE Trier
    BY <2>1, MemeGraphe DEF Trier
  <2>2. CASE phase = "tri" /\ UNCHANGED vars
    BY <2>2 DEF IInvUnion, vars
  <2>3. CASE ~Trier /\ ~(phase = "tri" /\ UNCHANGED vars)
    <3>1. phase # "tri" /\ phase' # "tri" /\ UNCHANGED <<b, g>>
      BY <1>1, <2>3 DEF IInv, Next, Etape, Sauter, ChercherSource, ChercherCible, MemeRacine,
         Lier, FinUnion, ChercherNoeud, Retenir, FinChoix, Marquer, FinBits, vars
    <3> QED BY <1>3, <3>1, MemeGraphe
  <2> QED BY <2>1, <2>2, <2>3
<1> QED BY <1>1, <1>4, <1>5, <1>6 DEF IInvUnion

----------------------------------------------------------------------------
\* A set that the edges do not leave, they do not enter: each has its reverse.
LEMMA FermeSature ==
  ASSUME IInv, phase # "tri", g = Build(newIndex, order),
         NEW S, Ferme(S, Aretes)
  PROVE  Sature(S, Aretes)
<1> SUFFICES ASSUME NEW e \in Aretes
             PROVE  Source(e) \in S <=> g.targets[e] \in S
  BY DEF Sature
<1>1. PICK f \in Aretes : Source(f) = g.targets[e] /\ g.targets[f] = Source(e)
  BY Renverse DEF IInv
<1> QED BY <1>1 DEF Ferme

\* What a node leads to is its tree.
LEMMA AtteintsClasse ==
  ASSUME IInv, phase = "fini", g = Build(newIndex, order),
         NEW r \in [Noeuds(b) -> Noeuds(b)], Foret(r), NEW n \in Noeuds(b)
  PROVE  Atteints(n, Aretes) = Classe(r, r[n])
<1> DEFINE K == Classe(r, r[n])
           P(S) == /\ n \in S /\ Ferme(S, Aretes)
                   /\ \A T \in SUBSET S : n \in T /\ Ferme(T, Aretes) => T = S
<1>1. Unies = Aretes /\ Jointes(r)
  BY DEF Unies, Foret
<1>2. K \in SUBSET Noeuds(b) /\ n \in K
  BY DEF Classe
<1>3. Ferme(K, Aretes)
  <2> SUFFICES ASSUME NEW e \in Aretes, Source(e) \in K
               PROVE  g.targets[e] \in K
    BY DEF Ferme
  <2>1. g.targets[e] \in Noeuds(b) /\ r[Source(e)] = r[g.targets[e]]
    BY <1>1, ForetFaits DEF Jointes
  <2> QED BY <2>1 DEF Classe
<1>4. ASSUME NEW T \in SUBSET Noeuds(b), n \in T, Ferme(T, Aretes)
      PROVE  K \subseteq T
  <2>1. \A m \in Noeuds(b) : m \in T <=> r[m] \in T
    BY <1>1, <1>4, FermeSature DEF Jointes
  <2> QED BY <1>4, <2>1 DEF Classe
<1>5. P(K)
  BY <1>2, <1>3, <1>4
<1>6. ASSUME NEW S \in SUBSET Noeuds(b), P(S)
      PROVE  S = K
  BY <1>2, <1>3, <1>4, <1>6
<1> HIDE DEF K
<1>7. (CHOOSE S \in SUBSET Noeuds(b) : P(S)) = K
  <2> HIDE DEF P
  <2> QED BY <1>2, <1>5, <1>6
<1> QED BY <1>7 DEF Atteints, K

\* What the sizes are worth once the union-find has ended.
LEMMA ComposanteJuste == IInvUnion => ComposantePrincipale
<1> SUFFICES ASSUME IInvUnion, phase = "fini"
             PROVE  /\ Noeuds(b) # {} => bits # {}
                    /\ \A n \in bits : Atteints(n, Aretes) = bits
                    /\ \A n \in Noeuds(b) : Cardinality(Atteints(n, Aretes)) <= Cardinality(bits)
  BY DEF ComposantePrincipale
<1>1. IInv /\ g = Build(newIndex, order) /\ Contrat(b) /\ TypeOK
  BY DEF IInvUnion, IInv
<1>2. PICK r \in [Noeuds(b) -> Noeuds(b)] : Foret(r)
  BY DEF IInvUnion
<1>3. Arbres(r) /\ Poids(r) /\ Retenue(r)
  BY <1>2 DEF Foret
<1>4. bits = {n \in Noeuds(b) : r[n] = mainRoot}
  BY <1>3 DEF Retenue
<1>5. \A n \in Noeuds(b) : Atteints(n, Aretes) = Classe(r, r[n])
  BY <1>1, <1>2, AtteintsClasse
<1>6. \A n \in bits : Atteints(n, Aretes) = bits
  BY <1>4, <1>5 DEF Classe
<1>7. \A n \in Noeuds(b) :
        /\ r[n] \in Noeuds(b) /\ r[r[n]] = r[n]
        /\ size[r[n]] = Cardinality(Classe(r, r[n])) /\ size[r[n]] <= mainSize
        /\ size[r[n]] > 0 /\ size[r[n]] \in Nat
  <2> TAKE n \in Noeuds(b)
  <2>1. r[n] \in Noeuds(b) /\ parent[r[n]] = r[n]
    BY <1>3 DEF Arbres
  <2>2. r[r[n]] = r[n]
    BY <1>3, <2>1 DEF Arbres
  <2>3. size[r[n]] = Cardinality(Classe(r, r[n])) /\ size[r[n]] <= mainSize
    BY <1>3, <2>1, <2>2 DEF Poids, Retenue
  <2> QED BY <1>1, <2>1, <2>2, <2>3 DEF IInv, TypeOK
<1>8. ASSUME Noeuds(b) # {}
      PROVE  bits # {} /\ mainSize = Cardinality(bits)
  <2>1. PICK n \in Noeuds(b) : TRUE
    BY <1>8
  <2>2. mainSize # 0 /\ mainRoot # -1
    <3>1. mainSize # 0
      <4> DEFINE h == size[r[n]]
      <4>1. h \in Nat /\ h > 0 /\ h <= mainSize /\ mainSize \in Nat
        BY <1>1, <1>7 DEF TypeOK
      <4> HIDE DEF h
      <4> QED BY <4>1
    <3> QED BY <1>3, <3>1 DEF Retenue
  <2>3. mainRoot \in Noeuds(b) /\ r[mainRoot] = mainRoot /\ mainSize = size[mainRoot]
    BY <1>1, <1>3, <2>2 DEF TypeOK, Retenue
  <2>4. bits = Classe(r, mainRoot)
    BY <1>4 DEF Classe
  <2> QED BY <1>4, <1>7, <2>3, <2>4
<1>9. \A n \in Noeuds(b) : Cardinality(Atteints(n, Aretes)) <= Cardinality(bits)
  BY <1>5, <1>7, <1>8
<1> QED BY <1>6, <1>8, <1>9

\* The union-find of every builder: each find ends at the root of its tree, a
\* root carries the size of its tree, and the trees of the edges united so far
\* are the sets these edges connect (graph.go:154-226).
THEOREM UnionCorrecte == Spec => []IInvUnion
<1>1. Init => IInvUnion
  BY InitForet
<1>2. IInvUnion /\ [Next]_vars => IInvUnion'
  BY NextForet
<1> QED BY <1>1, <1>2, PTL DEF Spec

\* The main component of a graph of any size is as large as any set a node leads
\* to, and each of its nodes leads to all of it and nowhere else.
THEOREM ComposanteCorrecte == Spec => []ComposantePrincipale
BY UnionCorrecte, ComposanteJuste, PTL

----------------------------------------------------------------------------
\* NearestNode leaves the graph alone: with it, Build is still Build.
THEOREM Composition == SpecReseau => Spec
<1>1. InitReseau => Init
  BY DEF InitReseau
<1>2. [NextReseau]_varsReseau => [Next]_vars
  BY DEF NextReseau, Avancer, Construire, Demander, Balayer, BalayerEnVain, Rendre,
         varsReseau, Next
<1> QED BY <1>1, <1>2, PTL DEF SpecReseau, Spec

\* The graph a search reads is the one that was added (graph.go:82-89).
THEOREM GrapheDuReseau == SpecReseau => []GrapheFidele
BY Composition, GrapheCorrect, PTL

LEMMA AnneauEntier ==
  ASSUME Places, NEW n \in Noeuds(b)
  PROVE  Anneau(coords[n]) \in Int
<1>1. \A p \in Int \X Int : keyOf(p)[1] \in Int /\ keyOf(p)[2] \in Int
  BY CelluleAssumption DEF keyOf
<1>2. /\ keyOf(coords[n])[1] \in Int /\ keyOf(coords[n])[2] \in Int
      /\ keyOf(c)[1] \in Int /\ keyOf(c)[2] \in Int
  BY <1>1 DEF Places
<1> QED BY <1>2 DEF Anneau, Ecart

LEMMA InitAnneaux == InitReseau => InvAnneaux
BY DEF InitReseau, InvAnneaux, Infini

\* Build does not concern the search, which begins when it is over.
LEMMA ConstruireAnneaux == IInv /\ InvAnneaux /\ Construire => InvAnneaux'
<1> SUFFICES ASSUME IInv, InvAnneaux, Construire PROVE InvAnneaux'
  OBVIOUS
<1>1. phase # "fini"
  BY DEF Construire, Etape, Trier, Sauter, ChercherSource, ChercherCible, MemeRacine,
         Lier, FinUnion, ChercherNoeud, Retenir, FinChoix, Marquer, FinBits, IInv
<1>2. appel = "avant" /\ appel' = appel
  BY <1>1 DEF InvAnneaux, Construire, varsAppel
<1> QED BY <1>2 DEF InvAnneaux, Construire, varsAppel, Infini

LEMMA DemanderAnneaux == IInv /\ InvAnneaux /\ Demander => InvAnneaux'
<1> SUFFICES ASSUME IInv, InvAnneaux, Demander PROVE InvAnneaux'
  OBVIOUS
<1>1. /\ appel' = "cours" /\ phase' = "fini" /\ b' = b /\ bits' = bits
      /\ ring' = 0 /\ firstHit' = -1 /\ bestDist' = Infini
  BY DEF Demander, vars, InvAnneaux
<1>2. Places'
  BY PointsAssumption, <1>1 DEF Demander, Places, Noeuds
<1>3. bits \subseteq Noeuds(b) /\ Noeuds(b)' = Noeuds(b)
  BY <1>1 DEF IInv, TypeOK, Noeuds
<1>4. ASSUME NEW n \in Noeuds(b)
      PROVE  0 <= Anneau(coords[n])'
  <2>1. Anneau(coords[n])' \in Int
    BY <1>2, <1>3, <1>4, CelluleAssumption DEF Places, Anneau, Ecart, keyOf
  <2> QED BY <1>2, <1>3, <1>4, CelluleAssumption DEF Places, Anneau, Ecart, keyOf
<1> QED BY <1>1, <1>2, <1>3, <1>4 DEF InvAnneaux

\* A ring that is swept has either no candidate or a best one.
LEMMA BalayerAnneaux == IInv /\ InvAnneaux /\ (Balayer \/ BalayerEnVain) => InvAnneaux'
<1> SUFFICES ASSUME IInv, InvAnneaux, Balayer \/ BalayerEnVain PROVE InvAnneaux'
  OBVIOUS
<1>1. /\ appel = "cours" /\ appel' = "cours" /\ ring' = ring + 1 /\ ring \in Nat
      /\ phase' = "fini" /\ UNCHANGED <<b, bits, coords, c, phase>>
      /\ ring <= maxRings
  BY DEF Balayer, BalayerEnVain, Continuer, vars, InvAnneaux
<1>2. Places /\ Places' /\ Noeuds(b)' = Noeuds(b) /\ bits \subseteq Noeuds(b)
  BY <1>1 DEF InvAnneaux, Places, Noeuds, IInv, TypeOK
<1>3. \A n \in Noeuds(b) : /\ Anneau(coords[n])' = Anneau(coords[n])
                           /\ Distance(c, coords[n])' = Distance(c, coords[n])
  BY <1>1 DEF Anneau, Distance
<1>4. \A n \in Noeuds(b) : Anneau(coords[n]) \in Int
  BY <1>2, AnneauEntier
<1>5. CASE Balayer
  <2>1. PICK n \in Noeuds(b) : /\ n \in Meilleurs /\ best' = n
                               /\ bestDist' = Distance(c, coords[n])
                               /\ firstHit' = IF firstHit < 0 THEN ring ELSE firstHit
    BY <1>5 DEF Balayer, Gagnant
  <2>2. n \in bits /\ Anneau(coords[n]) = ring
    BY <2>1 DEF Meilleurs, Candidats
  <2>3. firstHit' \in Nat
    BY <1>1, <2>1 DEF InvAnneaux
  <2>4. /\ best' \in bits' /\ Anneau(coords[best])' <= maxRings
        /\ bestDist' = Distance(c, coords[best])'
    BY <1>1, <1>3, <2>1, <2>2
  <2>5. firstHit' # -1
    BY <2>3
  <2> QED BY <1>1, <1>2, <2>3, <2>4, <2>5 DEF InvAnneaux
<1>6. CASE BalayerEnVain
  <2>1. UNCHANGED <<best, bestDist, firstHit>> /\ Meilleurs = {}
    BY <1>6 DEF BalayerEnVain
  <2>2. ASSUME firstHit = -1, NEW n \in bits
        PROVE  ring + 1 <= Anneau(coords[n])
    <3>1. bestDist = Infini /\ ring <= Anneau(coords[n])
      BY <1>1, <2>2 DEF InvAnneaux
    <3>2. Anneau(coords[n]) # ring
      BY <1>2, <2>1, <2>2, <3>1 DEF Meilleurs, Candidats
    <3> QED BY <1>1, <1>2, <1>4, <2>2, <3>1, <3>2
  <2>3. firstHit # -1 => best \in Noeuds(b)
    BY <1>2 DEF InvAnneaux
  <2>4. firstHit # -1 => Anneau(coords[best])' = Anneau(coords[best])
                         /\ Distance(c, coords[best])' = Distance(c, coords[best])
    BY <1>1, <2>1 DEF Anneau, Distance
  <2>5. firstHit = -1 => \A n \in bits' : ring' <= Anneau(coords[n])'
    BY <1>1, <1>2, <1>3, <2>2
  <2> QED BY <1>1, <1>2, <2>1, <2>4, <2>5 DEF InvAnneaux
<1> QED BY <1>5, <1>6

LEMMA ResteAnneaux ==
  IInv /\ InvAnneaux /\ (Rendre \/ UNCHANGED varsReseau) => InvAnneaux'
<1> SUFFICES ASSUME IInv, InvAnneaux, Rendre \/ UNCHANGED varsReseau PROVE InvAnneaux'
  OBVIOUS
<1>1. UNCHANGED <<vars, coords, c, ring, best, bestDist, firstHit>>
  BY DEF Rendre, varsReseau, varsAppel
<1>2. /\ InvAnneaux!1 /\ InvAnneaux!1'
  BY <1>1 DEF InvAnneaux
<1>3. CASE Rendre
  <2>1. appel = "cours" /\ appel' = "rendu" /\ (firstHit = -1 => maxRings < ring)
    BY <1>2, <1>3, CelluleAssumption DEF Rendre, Continuer
  <2> QED BY <1>1, <2>1 DEF InvAnneaux, vars, Places, Noeuds, Anneau, Distance
<1>4. CASE UNCHANGED varsReseau
  BY <1>4 DEF InvAnneaux, varsReseau, varsAppel, vars, Places, Noeuds, Anneau, Distance
<1> QED BY <1>3, <1>4

----------------------------------------------------------------------------
\* What the searches preserve, with what Build has left them.
LEMMA EtapeReseau == [NextReseau]_varsReseau => [Next]_vars
BY DEF NextReseau, Avancer, Construire, Demander, Balayer, BalayerEnVain, Rendre, varsReseau, Next

LEMMA CarreNat ==
  ASSUME NEW a \in Int
  PROVE  Carre(a) \in Nat
<1>1. CASE a >= 0
  BY <1>1 DEF Carre
<1>2. CASE a < 0
  <2>1. Carre(a) = (-a) * (-a) /\ -a \in Nat
    BY <1>2 DEF Carre
  <2> QED BY <2>1
<1> QED BY <1>1, <1>2

\* The points are in the plane: their distances are naturals.
LEMMA DistanceNat ==
  ASSUME NEW p \in Int \X Int, NEW q \in Int \X Int
  PROVE  Distance(p, q) \in Nat
<1> DEFINE u == poidsLon * (p[1] - q[1])
           v == poidsLat * (p[2] - q[2])
<1>1. u \in Int /\ v \in Int
  BY CelluleAssumption
<1>2. Distance(p, q) = Carre(u) + Carre(v)
  BY DEF Distance
<1> HIDE DEF u, v
<1>3. Carre(u) \in Nat /\ Carre(v) \in Nat
  BY <1>1, CarreNat
<1> QED BY <1>2, <1>3

\* A ring that is swept: what wins beats all the ring holds, and what came before.
LEMMA BalayerMeilleur ==
  ASSUME IInv, InvAnneaux, InvMeilleur, Balayer
  PROVE  InvMeilleur'
<1>1. /\ appel = "cours" /\ appel' = "cours" /\ ring' = ring + 1 /\ ring \in Nat
      /\ UNCHANGED <<b, bits, coords, c>> /\ Places /\ bits \subseteq Noeuds(b)
  BY DEF Balayer, Continuer, vars, InvAnneaux, IInv, TypeOK
<1>2. PICK n \in Noeuds(b) : /\ Gagnant(n)
                             /\ bestDist' = Distance(c, coords[n])
                             /\ firstHit' = IF firstHit < 0 THEN ring ELSE firstHit
  BY DEF Balayer
<1>3. /\ n \in bits /\ Anneau(coords[n]) = ring
      /\ bestDist = Infini \/ Distance(c, coords[n]) < bestDist
      /\ \A m \in Meilleurs : ~(Distance(c, coords[m]) < Distance(c, coords[n]))
  <2>1. \A m \in Noeuds(b) : Distance(c, coords[m]) \in Nat
    BY <1>1, DistanceNat DEF Places
  <2>2. n \in Meilleurs /\ Meilleurs \subseteq Noeuds(b)
    BY <1>2 DEF Gagnant, Meilleurs, Candidats
  <2>3. \A m \in Meilleurs : \/ Distance(c, coords[n]) < Distance(c, coords[m])
                             \/ Distance(c, coords[n]) = Distance(c, coords[m])
    BY <1>2 DEF Gagnant
  <2> HIDE DEF Meilleurs
  <2>4. \A m \in Meilleurs : ~(Distance(c, coords[m]) < Distance(c, coords[n]))
    BY <2>1, <2>2, <2>3
  <2>5. /\ n \in bits /\ Anneau(coords[n]) = ring
        /\ bestDist = Infini \/ Distance(c, coords[n]) < bestDist
    BY <2>2 DEF Meilleurs, Candidats
  <2> QED BY <2>4, <2>5
<1>4. \A m \in Noeuds(b) : Distance(c, coords[m]) \in Nat /\ Anneau(coords[m]) \in Int
  BY <1>1, DistanceNat, AnneauEntier DEF Places
<1>5. /\ firstHit # -1 => /\ firstHit \in Nat /\ firstHit < ring
                          /\ \E m \in bits : Anneau(coords[m]) = firstHit
                          /\ bestDist # Infini /\ bestDist \in Nat
                          /\ \A m \in bits : Anneau(coords[m]) < ring =>
                               bestDist <= Distance(c, coords[m])
  BY <1>1, <1>4 DEF InvAnneaux, InvMeilleur, Infini
<1>6. firstHit = -1 => bestDist = Infini /\ \A m \in bits : ring <= Anneau(coords[m])
  BY <1>1 DEF InvAnneaux
<1>7. firstHit' < ring' /\ \E m \in bits : Anneau(coords[m]) = firstHit'
  <2>1. CASE firstHit = -1
    BY <1>1, <1>2, <1>3, <2>1
  <2>2. CASE firstHit # -1
    <3>1. firstHit' = firstHit /\ firstHit \in Nat
      BY <1>2, <1>5, <2>2
    <3> QED BY <1>1, <1>5, <2>2, <3>1
  <2> QED BY <2>1, <2>2
<1>8. ASSUME NEW m \in bits, Anneau(coords[m]) < ring'
      PROVE  bestDist' <= Distance(c, coords[m])
  <2> DEFINE d == Distance(c, coords[m])
             w == Distance(c, coords[n])
             k == Anneau(coords[m])
  <2>1. d \in Nat /\ w \in Nat /\ k \in Int /\ bestDist' = w /\ k < ring + 1
    BY <1>1, <1>2, <1>4, <1>8
  <2>2. m \in Meilleurs <=> k = ring /\ (bestDist = Infini \/ d < bestDist)
    BY <1>1, <1>8 DEF Meilleurs, Candidats
  <2>3. ~(k = ring /\ (bestDist = Infini \/ d < bestDist) /\ d < w)
    BY <1>3, <2>2
  <2>4. firstHit # -1 => w < bestDist /\ bestDist \in Nat /\ (k < ring => bestDist <= d)
    BY <1>3, <1>5, <1>8
  <2>5. firstHit = -1 => bestDist = Infini /\ ring <= k
    BY <1>6, <1>8
  <2> HIDE DEF d, w, k
  <2>6. w <= d
    <3>1. CASE firstHit = -1
      BY <1>1, <2>1, <2>3, <2>5, <3>1
    <3>2. CASE firstHit # -1
      BY <1>1, <2>1, <2>3, <2>4, <3>2
    <3> QED BY <3>1, <3>2
  <2> QED BY <2>1, <2>6 DEF d
<1>9. \A m : /\ Anneau(coords[m])' = Anneau(coords[m])
             /\ Distance(c, coords[m])' = Distance(c, coords[m])
  BY <1>1 DEF Anneau, Distance
<1> QED BY <1>1, <1>7, <1>8, <1>9 DEF InvMeilleur

\* A ring that gives nothing better has nothing nearer.
LEMMA BalayerEnVainMeilleur ==
  ASSUME IInv, InvAnneaux, InvMeilleur, BalayerEnVain
  PROVE  InvMeilleur'
<1>1. /\ appel = "cours" /\ appel' = "cours" /\ ring' = ring + 1 /\ ring \in Nat
      /\ UNCHANGED <<b, bits, coords, c, best, bestDist, firstHit>>
      /\ Places /\ bits \subseteq Noeuds(b) /\ Meilleurs = {}
  BY DEF BalayerEnVain, Continuer, vars, InvAnneaux, IInv, TypeOK
<1> SUFFICES ASSUME firstHit # -1
             PROVE  InvMeilleur'
  BY <1>1 DEF InvMeilleur
<1>2. \A m \in Noeuds(b) : Distance(c, coords[m]) \in Nat /\ Anneau(coords[m]) \in Int
  BY <1>1, DistanceNat, AnneauEntier DEF Places
<1>3. /\ firstHit \in Nat /\ firstHit < ring
      /\ \E m \in bits : Anneau(coords[m]) = firstHit
      /\ bestDist \in Nat
      /\ \A m \in bits : Anneau(coords[m]) < ring => bestDist <= Distance(c, coords[m])
  BY <1>1, <1>2 DEF InvAnneaux, InvMeilleur
<1>4. ASSUME NEW m \in bits, Anneau(coords[m]) < ring + 1
      PROVE  bestDist <= Distance(c, coords[m])
  <2> DEFINE d == Distance(c, coords[m])
             k == Anneau(coords[m])
  <2>1. ~(k = ring /\ d < bestDist)
    BY <1>1, <1>4 DEF Meilleurs, Candidats
  <2>2. d \in Nat /\ k \in Int /\ k < ring + 1 /\ (k < ring => bestDist <= d)
    BY <1>1, <1>2, <1>3, <1>4
  <2> HIDE DEF d, k
  <2>3. bestDist <= d
    BY <1>1, <1>3, <2>1, <2>2
  <2> QED BY <2>3 DEF d
<1>5. \A m : /\ Anneau(coords[m])' = Anneau(coords[m])
             /\ Distance(c, coords[m])' = Distance(c, coords[m])
  BY <1>1 DEF Anneau, Distance
<1> QED BY <1>1, <1>3, <1>4, <1>5 DEF InvMeilleur

\* The other steps leave the search alone, or end it where the rings end.
LEMMA ResteMeilleur ==
  ASSUME IInv, InvAnneaux, InvMeilleur,
         Construire \/ Demander \/ Rendre \/ UNCHANGED varsReseau
  PROVE  InvMeilleur'
<1> SUFFICES ASSUME firstHit' # -1
             PROVE  InvMeilleur'
  BY DEF InvMeilleur
<1>1. firstHit # -1 /\ firstHit \in Nat /\ ring \in Nat
  <2>1. firstHit' = firstHit
    BY DEF Construire, Demander, Rendre, varsReseau, varsAppel
  <2> QED BY <2>1 DEF InvAnneaux
<1>2. appel # "avant" /\ phase = "fini"
  BY <1>1 DEF InvAnneaux
<1>3. ~Construire
  BY <1>2 DEF Construire, Etape, Trier, Sauter, ChercherSource, ChercherCible, MemeRacine,
         Lier, FinUnion, ChercherNoeud, Retenir, FinChoix, Marquer, FinBits, IInv
<1>4. Rendre \/ UNCHANGED varsReseau
  BY <1>2, <1>3 DEF Demander
<1>5. UNCHANGED <<b, bits, coords, c, ring, best, bestDist, firstHit>>
  BY <1>4 DEF Rendre, varsReseau, varsAppel, vars
<1>6. appel' = "rendu" => maxRings < ring \/ firstHit + 1 < ring
  <2>1. CASE Rendre
    BY <1>1, <2>1, CelluleAssumption DEF Rendre, Continuer
  <2>2. CASE UNCHANGED varsReseau
    BY <1>1, <2>2 DEF InvMeilleur, varsReseau, varsAppel
  <2> QED BY <1>4, <2>1, <2>2
<1>7. \A m : /\ Anneau(coords[m])' = Anneau(coords[m])
             /\ Distance(c, coords[m])' = Distance(c, coords[m])
  BY <1>5 DEF Anneau, Distance
<1> QED BY <1>1, <1>5, <1>6, <1>7 DEF InvMeilleur

----------------------------------------------------------------------------
\* A little arithmetic: products, squares, and the cells of two coordinates.
LEMMA ProduitMonte ==
  ASSUME NEW u \in Int, NEW v \in Int, NEW k \in Nat, u <= v
  PROVE  u * k <= v * k /\ k * u <= k * v /\ u * k \in Int /\ v * k \in Int
<1>1. PICK d \in Nat : v = u + d
  <2>1. v - u \in Nat /\ v = u + (v - u)
    OBVIOUS
  <2> QED BY <2>1
<1>2. d * k \in Nat /\ v * k = u * k + d * k /\ k * v = k * u + d * k
  BY <1>1
<1> QED BY <1>2

LEMMA CarreMonte ==
  ASSUME NEW u \in Nat, NEW v \in Nat, u <= v
  PROVE  Carre(u) <= Carre(v)
<1>1. u * u <= v * u /\ v * u <= v * v
  BY ProduitMonte
<1>2. u * u \in Int /\ v * u \in Int /\ v * v \in Int
  OBVIOUS
<1> QED BY <1>1, <1>2 DEF Carre

LEMMA CarreEcart ==
  ASSUME NEW u \in Int, NEW k \in Nat
  PROVE  /\ Ecart(u) \in Nat /\ Carre(Ecart(u)) = Carre(u)
         /\ Ecart(u) <= k => Carre(u) <= Carre(k)
         /\ k <= Ecart(u) => Carre(k) <= Carre(u)
<1>1. Ecart(u) \in Nat /\ (Ecart(u) = u \/ Ecart(u) = -u)
  BY DEF Ecart
<1>2. Carre(Ecart(u)) = Carre(u)
  <2>1. (-u) * (-u) = u * u
    OBVIOUS
  <2> QED BY <1>1, <2>1 DEF Carre
<1>3. Ecart(u) <= k => Carre(Ecart(u)) <= Carre(k)
  BY <1>1, CarreMonte
<1>4. k <= Ecart(u) => Carre(k) <= Carre(Ecart(u))
  BY <1>1, CarreMonte
<1> QED BY <1>1, <1>2, <1>3, <1>4

\* Two coordinates less than h + 1 cells away, or more.
LEMMA EcartCellules ==
  ASSUME NEW u \in Int, NEW v \in Int, NEW h \in Nat
  PROVE  /\ u \div cote \in Int /\ v \div cote \in Int
         /\ Ecart(u \div cote - v \div cote) <= h => Ecart(u - v) <= (h + 1) * cote
         /\ h + 2 <= Ecart(u \div cote - v \div cote) => (h + 1) * cote <= Ecart(u - v)
<1> DEFINE i == u \div cote
           j == v \div cote
<1>1. cote \in Nat /\ cote > 0
  BY CelluleAssumption
<1>2. i \in Int /\ cote * i <= u /\ u < cote * i + cote
  BY <1>1
<1>3. j \in Int /\ cote * j <= v /\ v < cote * j + cote
  BY <1>1
<1> HIDE DEF i, j
<1>4. cote * i - cote * j = cote * (i - j) /\ cote * (i - j) \in Int
      /\ cote * i \in Int /\ cote * j \in Int /\ cote * h \in Nat
  BY <1>1, <1>2, <1>3
<1> DEFINE z == cote * (i - j)
           y == cote * h
<1>5. z \in Int /\ y \in Nat /\ (h + 1) * cote = y + cote
      /\ u - v < z + cote /\ z - cote < u - v
  <2>1. (h + 1) * cote = y + cote
    BY <1>1
  <2> DEFINE p == cote * i
             q == cote * j
  <2>2. p \in Int /\ q \in Int /\ z = p - q /\ z \in Int /\ y \in Nat
        /\ p <= u /\ u < p + cote /\ q <= v /\ v < q + cote
    BY <1>2, <1>3, <1>4
  <2> HIDE DEF p, q, y, z
  <2> QED BY <1>1, <2>1, <2>2
<1>6. Ecart(i - j) <= h => z <= y /\ -y <= z
  <2> SUFFICES ASSUME Ecart(i - j) <= h
               PROVE  z <= y /\ -y <= z
    OBVIOUS
  <2>1. i - j \in Int /\ i - j <= h /\ -h <= i - j /\ -h \in Int
    BY <1>2, <1>3 DEF Ecart
  <2>2. cote * (i - j) <= cote * h /\ cote * (-h) <= cote * (i - j)
    BY <1>1, <2>1, ProduitMonte
  <2>3. cote * (-h) = -(cote * h)
    BY <1>1
  <2> QED BY <2>2, <2>3
<1>7. h + 2 <= Ecart(i - j) => y + cote + cote <= z \/ z <= -(y + cote + cote)
  <2> SUFFICES ASSUME h + 2 <= Ecart(i - j)
               PROVE  y + cote + cote <= z \/ z <= -(y + cote + cote)
    OBVIOUS
  <2>1. i - j \in Int /\ h + 2 \in Int /\ -(h + 2) \in Int
        /\ (h + 2 <= i - j \/ i - j <= -(h + 2))
    BY <1>2, <1>3 DEF Ecart
  <2>2. cote * (h + 2) <= cote * (i - j) \/ cote * (i - j) <= cote * (-(h + 2))
    BY <1>1, <2>1, ProduitMonte
  <2>3. cote * (h + 2) = y + cote + cote /\ cote * (-(h + 2)) = -(y + cote + cote)
    BY <1>1
  <2> HIDE DEF y
  <2> QED BY <2>2, <2>3
<1> DEFINE e == Ecart(i - j)
<1> HIDE DEF z, y
<1>8. e <= h => Ecart(u - v) <= (h + 1) * cote
  BY <1>1, <1>5, <1>6 DEF Ecart
<1>9. h + 2 <= e => (h + 1) * cote <= Ecart(u - v)
  BY <1>1, <1>5, <1>7 DEF Ecart
<1> QED BY <1>2, <1>3, <1>8, <1>9 DEF e, i, j

LEMMA CarreProduit ==
  ASSUME NEW u \in Int, NEW v \in Int
  PROVE  Carre(u * v) = Carre(u) * Carre(v) /\ Carre(-u) = Carre(u)
BY DEF Carre

\* A weighted coordinate against that many sides of a cell.
LEMMA CotesPeses ==
  ASSUME NEW w \in Nat, NEW d \in Int, NEW H \in Nat
  PROVE  /\ Carre(H) * Carre(w * cote) \in Nat /\ Carre(w * d) \in Nat
         /\ Ecart(d) <= H * cote => Carre(w * d) <= Carre(H) * Carre(w * cote)
         /\ H * cote <= Ecart(d) => Carre(H) * Carre(w * cote) <= Carre(w * d)
<1> DEFINE s == Carre(H * cote)
           t == Carre(d)
           x2 == Carre(w)
<1>1. cote \in Nat /\ cote \in Int /\ H * cote \in Nat /\ w \in Int /\ w * cote \in Int
      /\ w * d \in Int /\ H \in Int
  BY CelluleAssumption
<1>2. s \in Nat /\ t \in Nat /\ x2 \in Nat /\ Carre(w * d) \in Nat /\ Carre(H) \in Nat
      /\ Carre(w * cote) \in Nat /\ Carre(cote) \in Nat
  BY <1>1, CarreNat
<1>3. Carre(w * d) = x2 * t
  BY <1>1, CarreProduit
<1>4. Carre(H) * Carre(w * cote) = x2 * s
  <2>1. s = Carre(H) * Carre(cote) /\ Carre(w * cote) = x2 * Carre(cote)
    BY <1>1, CarreProduit
  <2> DEFINE a2 == Carre(H)  c2 == Carre(cote)
  <2>2. a2 \in Nat /\ c2 \in Nat /\ s = a2 * c2 /\ Carre(w * cote) = x2 * c2
    BY <1>2, <2>1
  <2> HIDE DEF a2, c2, s, x2
  <2>3. a2 * (x2 * c2) = x2 * (a2 * c2)
    BY <1>2, <2>2
  <2> QED BY <2>2, <2>3 DEF a2
<1>5. /\ Ecart(d) <= H * cote => t <= s
      /\ H * cote <= Ecart(d) => s <= t
  BY <1>1, CarreEcart
<1> HIDE DEF s, t, x2
<1>6. /\ t <= s => x2 * t <= x2 * s
      /\ s <= t => x2 * s <= x2 * t
  BY <1>2, ProduitMonte
<1>7. x2 * s \in Nat
  BY <1>2
<1> QED BY <1>2, <1>3, <1>4, <1>5, <1>6, <1>7

\* What a ring says of a distance: at most that many diagonals and one, at least
\* that many of the shorter sides less one.
LEMMA AnneauDistance ==
  ASSUME NEW p \in Int \X Int, c \in Int \X Int, NEW h \in Nat
  PROVE  /\ Diagonale \in Nat /\ Carre(poidsLon * cote) \in Nat
         /\ Carre(poidsLon * cote) <= Diagonale
         /\ Anneau(p) <= h => Distance(c, p) <= Carre(h + 1) * Diagonale
         /\ h + 2 <= Anneau(p) => Carre(h + 1) * Carre(poidsLon * cote) <= Distance(c, p)
<1> DEFINE d1 == p[1] - c[1]
           d2 == p[2] - c[2]
           e1 == Ecart(p[1] \div cote - c[1] \div cote)
           e2 == Ecart(p[2] \div cote - c[2] \div cote)
           H == h + 1
           P1 == Carre(poidsLon * cote)
           P2 == Carre(poidsLat * cote)
           D1 == Carre(poidsLon * d1)
           D2 == Carre(poidsLat * d2)
<1>1. /\ p[1] \in Int /\ p[2] \in Int /\ c[1] \in Int /\ c[2] \in Int
      /\ d1 \in Int /\ d2 \in Int /\ H \in Nat
  OBVIOUS
<1>2. /\ cote \in Nat /\ poidsLon \in Nat /\ poidsLat \in Nat /\ poidsLon <= poidsLat
  BY CelluleAssumption
<1>3. Distance(c, p) = D1 + D2
  <2>1. /\ poidsLon * (c[1] - p[1]) = -(poidsLon * d1) /\ poidsLon * d1 \in Int
        /\ poidsLat * (c[2] - p[2]) = -(poidsLat * d2) /\ poidsLat * d2 \in Int
    BY <1>1, <1>2
  <2>2. /\ Carre(poidsLon * (c[1] - p[1])) = D1
        /\ Carre(poidsLat * (c[2] - p[2])) = D2
    BY <2>1, CarreProduit
  <2> QED BY <2>2 DEF Distance
<1>4. Diagonale = P1 + P2
  <2>1. /\ poidsLon * (0 - cote) = -(poidsLon * cote) /\ poidsLon * cote \in Int
        /\ poidsLat * (0 - cote) = -(poidsLat * cote) /\ poidsLat * cote \in Int
    BY <1>2
  <2>2. Carre(poidsLon * (0 - cote)) = P1 /\ Carre(poidsLat * (0 - cote)) = P2
    BY <2>1, CarreProduit
  <2> QED BY <2>2 DEF Diagonale, Distance
<1>5. P1 \in Nat /\ P2 \in Nat /\ D1 \in Nat /\ D2 \in Nat /\ P1 <= P2
  <2>1. poidsLon * cote \in Nat /\ poidsLat * cote \in Nat /\ poidsLon * cote <= poidsLat * cote
    BY <1>2, ProduitMonte
  <2>2. poidsLon * d1 \in Int /\ poidsLat * d2 \in Int
    BY <1>1, <1>2
  <2> QED BY <2>1, <2>2, CarreNat, CarreMonte
<1>6. /\ e1 <= h => Ecart(d1) <= H * cote
      /\ e2 <= h => Ecart(d2) <= H * cote
      /\ h + 2 <= e1 => H * cote <= Ecart(d1)
      /\ h + 2 <= e2 => H * cote <= Ecart(d2)
      /\ p[1] \div cote \in Int /\ c[1] \div cote \in Int
      /\ p[2] \div cote \in Int /\ c[2] \div cote \in Int
  BY <1>1, EcartCellules
<1>7. e1 \in Nat /\ e2 \in Nat
  BY <1>6 DEF Ecart
<1>8. Anneau(p) = IF e1 < e2 THEN e2 ELSE e1
  BY DEF Anneau, keyOf
<1>9. /\ Ecart(d1) <= H * cote => D1 <= Carre(H) * P1
      /\ H * cote <= Ecart(d1) => Carre(H) * P1 <= D1
      /\ Ecart(d2) <= H * cote => D2 <= Carre(H) * P2
      /\ H * cote <= Ecart(d2) => Carre(H) * P2 <= D2
  BY <1>1, <1>2, CotesPeses
<1>10. Carre(H) \in Nat
  BY <1>1, CarreNat
<1> HIDE DEF d1, d2, e1, e2, P1, P2, D1, D2, H
<1>11. /\ Carre(H) * P1 \in Nat /\ Carre(H) * P2 \in Nat
       /\ Carre(H) * P1 <= Carre(H) * P2
       /\ Carre(H) * (P1 + P2) = Carre(H) * P1 + Carre(H) * P2
  <2>1. Carre(H) * P1 <= Carre(H) * P2
    BY <1>5, <1>10, ProduitMonte
  <2> QED BY <1>5, <1>10, <2>1
<1>12. Anneau(p) <= h => Distance(c, p) <= Carre(H) * Diagonale
  <2> SUFFICES ASSUME Anneau(p) <= h
               PROVE  D1 + D2 <= Carre(H) * P1 + Carre(H) * P2
    BY <1>3, <1>4, <1>11
  <2>1. e1 <= h /\ e2 <= h
    BY <1>7, <1>8
  <2> QED BY <1>5, <1>6, <1>9, <1>11, <2>1
<1>13. h + 2 <= Anneau(p) => Carre(H) * P1 <= Distance(c, p)
  <2> SUFFICES ASSUME h + 2 <= Anneau(p)
               PROVE  Carre(H) * P1 <= D1 + D2
    BY <1>3
  <2>1. h + 2 <= e1 \/ h + 2 <= e2
    BY <1>8
  <2>2. Carre(H) * P1 <= D1 \/ Carre(H) * P2 <= D2
    BY <1>6, <1>9, <2>1
  <2> QED BY <1>5, <1>11, <2>2
<1> QED BY <1>4, <1>5, <1>12, <1>13 DEF P1, H

\* The ring after that of the first hit bounds the error.
LEMMA ErreurJuste == IInv /\ InvAnneaux /\ InvMeilleur => ErreurBornee
<1> SUFFICES ASSUME IInv, InvAnneaux, InvMeilleur, appel = "rendu", firstHit # -1,
                    NEW n \in bits, Anneau(coords[n]) <= maxRings
             PROVE  bestDist * Carre(poidsLon * cote) <= Diagonale * Distance(c, coords[n])
  BY DEF ErreurBornee
<1> DEFINE H == firstHit + 1
           P == Carre(poidsLon * cote)
           w == Distance(c, coords[n])
           k == Anneau(coords[n])
<1>1. /\ Places /\ bits \subseteq Noeuds(b) /\ firstHit \in Nat /\ ring \in Nat
      /\ best \in bits /\ bestDist = Distance(c, coords[best])
  BY DEF InvAnneaux, IInv, TypeOK
<1>2. PICK m \in bits : Anneau(coords[m]) = firstHit
  BY DEF InvMeilleur
<1>3. /\ firstHit < ring /\ (k < ring => bestDist <= w)
      /\ bestDist <= Distance(c, coords[m])
      /\ maxRings < ring \/ H < ring
  BY <1>1, <1>2 DEF InvMeilleur
<1>4. /\ c \in Int \X Int /\ coords[n] \in Int \X Int /\ coords[m] \in Int \X Int
      /\ coords[best] \in Int \X Int
  BY <1>1 DEF Places
<1>5. w \in Nat /\ bestDist \in Nat /\ k \in Int
  BY <1>1, <1>4, DistanceNat, AnneauEntier
<1>6. /\ Diagonale \in Nat /\ P \in Nat /\ P <= Diagonale
      /\ Distance(c, coords[m]) <= Carre(H) * Diagonale
      /\ firstHit + 2 <= k => Carre(H) * P <= w
  <2>1. Anneau(coords[m]) <= firstHit
    BY <1>1, <1>2
  <2> QED BY <1>1, <1>4, <2>1, AnneauDistance
<1>7. Carre(H) \in Nat /\ Distance(c, coords[m]) \in Nat
  <2>1. H \in Int
    BY <1>1
  <2> QED BY <1>4, <2>1, CarreNat, DistanceNat
<1> HIDE DEF P, w, k, Diagonale
<1>8. CASE k < ring
  <2>1. bestDist * P <= w * P
    BY <1>3, <1>5, <1>6, <1>8, ProduitMonte
  <2>2. w * P <= w * Diagonale
    BY <1>5, <1>6, ProduitMonte
  <2>3. w * Diagonale = Diagonale * w /\ bestDist * P \in Int /\ w * P \in Int /\ w * Diagonale \in Int
    BY <1>5, <1>6
  <2>4. bestDist * P <= Diagonale * w
    BY <2>1, <2>2, <2>3
  <2> QED BY <2>4 DEF P, w
<1>9. CASE ring <= k
  <2>1. firstHit + 2 <= k
    BY <1>1, <1>3, <1>5, <1>9, CelluleAssumption DEF k
  <2> DEFINE s == Carre(H)
  <2>2. s \in Nat /\ s * P <= w /\ bestDist <= s * Diagonale
    <3>1. s * Diagonale \in Nat
      BY <1>6, <1>7
    <3> QED BY <1>3, <1>5, <1>6, <1>7, <2>1, <3>1
  <2> HIDE DEF s
  <2>3. bestDist * P <= (s * Diagonale) * P
    <3>1. s * Diagonale \in Int
      BY <1>6, <2>2
    <3> QED BY <1>5, <1>6, <2>2, <3>1, ProduitMonte
  <2>4. Diagonale * (s * P) <= Diagonale * w
    <3>1. s * P \in Int
      BY <1>6, <2>2
    <3> QED BY <1>5, <1>6, <2>2, <3>1, ProduitMonte
  <2>5. /\ (s * Diagonale) * P = Diagonale * (s * P) /\ bestDist * P \in Int
        /\ Diagonale * (s * P) \in Int /\ Diagonale * w \in Int
    BY <1>5, <1>6, <2>2
  <2>6. bestDist * P <= Diagonale * w
    BY <2>3, <2>4, <2>5
  <2> QED BY <2>6 DEF P, w
<1> QED BY <1>1, <1>5, <1>8, <1>9

\* The search over a graph that Build has made, with all that is known of both.
THEOREM InvariantReseau == SpecReseau => []IInvReseau
<1>1. InitReseau => IInvReseau
  <2>1. InitReseau => InvMeilleur
    BY DEF InitReseau, InvMeilleur
  <2>2. InitReseau => Init
    BY DEF InitReseau
  <2> QED BY <2>1, <2>2, InitForet, InitAnneaux DEF IInvReseau
<1>2. IInvReseau /\ [NextReseau]_varsReseau => IInvReseau'
  <2> SUFFICES ASSUME IInvReseau, [NextReseau]_varsReseau
               PROVE  IInvReseau'
    OBVIOUS
  <2>1. IInvUnion /\ IInv /\ InvAnneaux /\ InvMeilleur
    BY DEF IInvReseau, IInvUnion
  <2>2. IInvUnion'
    BY <2>1, EtapeReseau, NextForet
  <2>3. InvAnneaux'
    BY <2>1, ConstruireAnneaux, DemanderAnneaux, BalayerAnneaux, ResteAnneaux
    DEF NextReseau, Avancer
  <2>4. InvMeilleur'
    BY <2>1, BalayerMeilleur, BalayerEnVainMeilleur, ResteMeilleur DEF NextReseau, Avancer
  <2> QED BY <2>2, <2>3, <2>4 DEF IInvReseau
<1> QED BY <1>1, <1>2, PTL DEF SpecReseau

\* NearestNode finds exactly when the main component has a node in the rings it
\* may look at, and what it finds is one (nearest.go:39-43, 54-84), for every
\* graph, every placement and every point.
THEOREM AncreCorrecte == SpecReseau => []Ancree
<1>1. IInv /\ InvAnneaux => Ancree
  <2> SUFFICES ASSUME IInv, InvAnneaux, appel = "rendu"
               PROVE  /\ firstHit # -1 <=> \E n \in bits : Anneau(coords[n]) <= maxRings
                      /\ firstHit # -1 => best \in bits /\ bestDist = Distance(c, coords[best])
    BY DEF Ancree
  <2>1. bits \subseteq Noeuds(b) /\ Places
    BY DEF IInv, TypeOK, InvAnneaux
  <2>2. ASSUME firstHit = -1, NEW n \in bits
        PROVE  ~(Anneau(coords[n]) <= maxRings)
    <3>1. maxRings < ring /\ ring <= Anneau(coords[n]) /\ ring \in Nat
      BY <2>2 DEF InvAnneaux
    <3>2. Anneau(coords[n]) \in Int
      BY <2>1, <2>2, AnneauEntier
    <3> QED BY <3>1, <3>2, CelluleAssumption
  <2>3. firstHit # -1 => best \in bits /\ Anneau(coords[best]) <= maxRings
                         /\ bestDist = Distance(c, coords[best])
    BY DEF InvAnneaux
  <2> QED BY <2>2, <2>3
<1>2. IInvReseau => IInv /\ InvAnneaux
  BY DEF IInvReseau, IInvUnion
<1> QED BY <1>1, <1>2, InvariantReseau, PTL

\* A search is never anchored to a node cut from the rest of the graph, whatever
\* the graph, the placement and the point (nearest.go:39-43, graph.go:175-181).
THEOREM NonPiegeCorrect == SpecReseau => []NonPiege
<1>1. IInvReseau /\ Ancree => NonPiege
  <2> SUFFICES ASSUME IInvReseau, Ancree
               PROVE  NonPiege
    OBVIOUS
  <2>1. ComposantePrincipale
    BY ComposanteJuste DEF IInvReseau
  <2>2. ASSUME appel = "rendu", firstHit # -1
        PROVE  \A n \in Noeuds(b) :
                 Cardinality(Atteints(n, Aretes)) <= Cardinality(Atteints(best, Aretes))
    <3>1. phase = "fini" /\ best \in bits
      BY <2>2 DEF Ancree, IInvReseau, InvAnneaux
    <3>2. Atteints(best, Aretes) = bits
      BY <2>1, <3>1 DEF ComposantePrincipale
    <3> QED BY <2>1, <3>1, <3>2 DEF ComposantePrincipale
  <2> QED BY <2>1, <2>2 DEF NonPiege
<1> QED BY <1>1, InvariantReseau, AncreCorrecte, PTL

\* The node found is at most a diagonal for a side farther than the nearest one,
\* for every size of cell and every weight of the two axes (nearest.go:55-60).
THEOREM ErreurCorrecte == SpecReseau => []ErreurBornee
<1>1. IInvReseau => ErreurBornee
  BY ErreurJuste DEF IInvReseau, IInvUnion
<1> QED BY <1>1, InvariantReseau, PTL
=============================================================================
