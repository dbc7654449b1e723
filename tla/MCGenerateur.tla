---------------------------- MODULE MCGenerateur ----------------------------
(***************************************************************************)
(* Four directions, two goroutines at a time. The loops are chosen to meet *)
(* the cases of dedupe: the same loop twice, an overlap of exactly the     *)
(* threshold, a doublet of a doublet that is not one of the first.         *)
(***************************************************************************)
EXTENDS Generateur

Boucle(a, nb) == [aretes |-> a, nonBitume |-> nb]
Va(k, b) == [appels |-> k, trouve |-> TRUE, boucle |-> b]
Bute(k) == [appels |-> k, trouve |-> FALSE, boucle |-> Aucune]

TerrainsMC == {
  <<Va(1, Boucle(1 .. 10, 1)), Va(2, Boucle(2 .. 11, 2)),
    Va(1, Boucle(4 .. 12, 4)), Bute(2)>>,
  <<Va(2, Boucle(1 .. 7, 1)), Va(1, Boucle(1 .. 10, 3)),
    Va(1, Boucle(21 .. 24, 2)), Va(1, Boucle(31 .. 34, 2))>>,
  <<Bute(2), Bute(1), Bute(1), Bute(2)>>,
  <<Bute(1), Va(2, Boucle({}, 2)), Bute(1), Va(1, Boucle(1 .. 3, 0))>> }
=============================================================================
