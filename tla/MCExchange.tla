----------------------------- MODULE MCExchange -----------------------------
(* A small instance of Exchange for TLC. *)
EXTENDS Exchange, TLC

CONSTANTS c1, c2

Interchangeable == Permutations(Xids) \cup Permutations(Clients)
=============================================================================
