----------------------------- MODULE MCLimiteur -----------------------------
(***************************************************************************)
(* Two clients and a trusted proxy, a table of two, buckets of two tokens. *)
(***************************************************************************)
EXTENDS LimiteurFenetre

CONSTANTS a, b, p
EntetesMC == {<<>>, <<a, b>>, <<b>>}
=============================================================================
