----------------------------- MODULE MCDirection -----------------------------
(***************************************************************************)
(* A triangle a-b-c with a second segment a-b, of lengths that add up to   *)
(* almost any loop.                                                        *)
(***************************************************************************)
EXTENDS Direction

NoeudsMC == 0 .. 2
AretesMC == 1 .. 8
SrcMC == <<0, 0, 0, 1, 1, 1, 2, 2>>
TgtMC == <<1, 1, 2, 0, 0, 2, 0, 1>>
RevMC == <<4, 5, 7, 1, 2, 8, 3, 6>>
LongMC == <<1, 2, 5, 1, 2, 11, 5, 11>>
=============================================================================
