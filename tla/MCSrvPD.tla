------------------------------ MODULE MCSrvPD ------------------------------
(* A small instance of SrvPD for TLC. *)
EXTENDS SrvPD

CONSTANTS c1, c2, i1, i2

Prefix(k, n, l) == [pool |-> k, part |-> n, low |-> l]

(* No hint, so that the cache has a say, and one that is drawn for others too. *)
SomeHints == {NoPrefix, Prefix(1, 0, 0)}

ThreeIAs == {<<c1, i1>>, <<c1, i2>>, <<c2, i1>>}

(* A prefix that is drawn for others is reserved for c2. *)
SecondFixed == [c \in Clients |-> IF c = c2 THEN Prefix(2, 0, 0) ELSE NoPrefix]
=============================================================================
