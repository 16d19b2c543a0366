---------------------------- MODULE MCLinkState ----------------------------
(* A small instance of LinkState for TLC. *)
EXTENDS LinkState

CONSTANTS f1, f2
=============================================================================
