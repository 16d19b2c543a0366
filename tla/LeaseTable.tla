----------------------------- MODULE LeaseTable -----------------------------
(***************************************************************************)
(* What the server promises about addresses and prefixes, without the way    *)
(* it chooses them: a table that says who an address belongs to, the copy of *)
(* it that survives a crash, the promises made to clients, and who is asking. *)
(* An address goes from one owner to another only by being free in between,  *)
(* an owner that has some gets no more, and an address is not taken back      *)
(* while it is promised, but from an owner that asks for addresses again      *)
(* although it has some (its SOLICIT is answered, and the answer undone).     *)
(* SrvLease and SrvPD implement this module (ImplementsTable).               *)
(***************************************************************************)
EXTENDS Naturals, FiniteSets

CONSTANTS
  Addrs,
  Owners,       \* whoever an address may be leased to: an IA of a client
  Free,         \* the owner of an address that is not leased
  Quarantined,  \* the owner of an address that was declined
  MaxEach       \* how many addresses one owner may have

VARIABLES
  up,           \* is the server running?
  table,        \* address -> its owner
  saved,        \* the copy of the table on disk
  promised,     \* pairs <<owner, address>> the owner may rely on
  asking        \* owners whose SOLICIT is being answered

tableVars == <<up, table, saved, promised, asking>>

AllFree == [a \in Addrs |-> Free]
Has(o, t) == {a \in Addrs : t[a] = o}
BoundPairs(t) == {<<t[a], a>> : a \in {a \in Addrs : t[a] \in Owners}}
PartOf(t) == {[a \in Addrs |-> IF a \in kept THEN t[a] ELSE Free] : kept \in SUBSET Addrs}
Changed == LET was == table  is == table' IN {a \in Addrs : is[a] # was[a]}

TableInit == up = TRUE /\ table = AllFree /\ saved = AllFree /\ promised = {} /\ asking = {}

Ask ==
  /\ up /\ asking = {} /\ asking' \subseteq Owners
  /\ UNCHANGED <<up, table, saved, promised>>

(* An answer, or a part of it, is finished. *)
Answered ==
  /\ asking' \subseteq asking
  /\ UNCHANGED <<up, table, saved, promised>>

(* Free addresses go to an owner that has none; an owner that still believes *)
(* in a lease the server lost has it again.                                  *)
Grant(o) ==
  /\ Changed # {}
  /\ up /\ Has(o, table) = {}
  /\ \A a \in Changed : table[a] = Free /\ table'[a] = o
  /\ Cardinality(Changed) <= MaxEach
  /\ promised \subseteq promised' /\ promised' \subseteq promised \cup BoundPairs(table')
  /\ UNCHANGED <<up, saved, asking>>

(* Only what belongs to an owner is promised to it. *)
Promise ==
  /\ up /\ promised \subseteq promised' /\ promised' \subseteq promised \cup BoundPairs(table)
  /\ UNCHANGED <<up, table, saved, asking>>

(* Promises end by time, or because the owner gives the address up.          *)
Lapse ==
  /\ promised' \subseteq promised
  /\ UNCHANGED <<up, table, saved, asking>>

(* Addresses that are promised to nobody are taken back, and those of an      *)
(* owner that is asking, promised or not.                                    *)
TakeBack ==
  /\ Changed # {}
  /\ up
  /\ \A a \in Changed :
       table'[a] = Free /\ (<<table[a], a>> \notin promised \/ table[a] \in asking)
  /\ promised' = promised \ {<<table[a], a>> : a \in Changed}
  /\ asking' \subseteq asking
  /\ UNCHANGED <<up, saved>>

Quarantine ==
  /\ up
  /\ \E a \in Changed :
       /\ table[a] \in Owners /\ <<table[a], a>> \notin promised
       /\ table' = [table EXCEPT ![a] = Quarantined]
  /\ UNCHANGED <<up, saved, promised, asking>>

Save ==
  /\ up
  /\ saved' = table /\ asking' = {}
  /\ UNCHANGED <<up, table, promised>>

(* A planned stop keeps every promise.  A crash keeps what the file has (and  *)
(* gives back what was taken from an asking owner and not saved yet); a crash *)
(* while the table is being saved leaves a part of it there.                  *)
Stop ==
  /\ up /\ up' = FALSE
  /\ saved' = table /\ table' = AllFree
  /\ UNCHANGED <<promised, asking>>

CrashStop ==
  /\ up /\ up' = FALSE
  /\ saved' = saved \/ saved' \in PartOf(table)
  /\ table' = AllFree /\ asking' = {}
  /\ promised' \subseteq BoundPairs(saved')

Start ==
  /\ ~up /\ up' = TRUE
  /\ table' = saved
  /\ UNCHANGED <<saved, promised, asking>>

TableNext ==
  \/ Ask \/ Answered \/ Promise \/ Lapse \/ \E o \in Owners : Grant(o)
  \/ Quarantine \/ TakeBack \/ Save \/ Stop \/ CrashStop \/ Start

TableSpec == TableInit /\ [][TableNext]_tableVars
=============================================================================
