------------------------------ MODULE MCAStar ------------------------------
(***************************************************************************)
(* A small network for AStar: a square a-b-d-c of two-way segments and its *)
(* diagonal b-c, a parallel segment a-b, a dead end d-x and an island z.   *)
(***************************************************************************)
EXTENDS AStar

NoeudsMC == 0 .. 5
RefsMC == 0 .. 6       \* 6 is out of range
\* Segments, each giving two EdgeRefs, one per direction. The CSR
\* order groups them by origin.
SrcMC == <<0, 0, 0, 1, 1, 1, 1, 2, 2, 2, 3, 3, 3, 4>>
TgtMC == <<1, 1, 2, 0, 0, 2, 3, 0, 1, 3, 1, 2, 4, 3>>
RevMC == <<4, 5, 8, 1, 2, 9, 11, 3, 6, 12, 7, 10, 14, 13>>
AretesMC == 1 .. 14
LongMC == <<3, 2, 2, 3, 2, 3, 2, 2, 3, 3, 2, 3, 0, 0>>
CoutMC == [neutre |-> LongMC,
           route |-> <<3, 5, 2, 3, 5, 4, 3, 2, 4, 4, 3, 4, 1, 1>>]
\* Distances as the crow flies: 0 at (0,0), 1 and 2 across, 3 and 4 together.
HBon == [m \in NoeudsMC |-> [t \in NoeudsMC |->
  IF m = t THEN 0
  ELSE IF {m, t} = {3, 4} THEN 0
  ELSE IF {m, t} \in {{0, 1}, {0, 2}, {1, 2}, {1, 3}, {1, 4}} THEN 2
  ELSE IF 5 \in {m, t} THEN 9
  ELSE 3]]
ASSUME HBonConsistante == H = HBon => Consistante

ConsommesMC == {{}, {1, 2, 10}, {5}, {7, 3}, {11, 12}, {1, 2, 3, 14}}
=============================================================================
