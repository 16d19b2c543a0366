----------------------------- MODULE MCClntTrans -----------------------------
(* Small instances of ClntTrans for TLC. *)
EXTENDS ClntTrans

CONSTANTS a1, a2
=============================================================================
