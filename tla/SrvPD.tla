------------------------------- MODULE SrvPD -------------------------------
(***************************************************************************)
(* Prefix delegation in the Dibbler server, for one pd-class on one          *)
(* interface: the IA_PD handlers (SrvOptIA_PD), the random choice of a       *)
(* prefix from every pool of the class (SrvCfgPD, HostRange), the prefixes   *)
(* in the address database (AddrMgr, SrvAddrMgr), the usage counter          *)
(* (SrvCfgIface), RELEASE (SrvMsgReply), expiry and the restart.             *)
(*                                                                         *)
(* A prefix is the pool it is in (0: none), its number among the prefixes of *)
(* the delegated length that the pool consists of, and the bits behind that  *)
(* length, which are 0 in a proper prefix.  The server compares all of it.   *)
(* A message has one IA_PD, and its handler is one step: the server is one    *)
(* thread.  A SOLICIT arrives in a step of its own, for what it puts at stake: *)
(* its handler takes back whatever the ADVERTISE lists, a prefix the client   *)
(* already had among it.  The server only stops when it is told: what a crash *)
(* loses, between the answer and the dump or inside the dump, SrvLease has    *)
(* for addresses, which are in the same file.                                *)
(***************************************************************************)
EXTENDS Integers, Sequences, FiniteSets, FiniteSetsExt, SequencesExt, Functions

CONSTANTS
  Clients,       \* DUIDs of the clients
  IAIDs,
  IAs,           \* pairs <<client, IAID>>: the IAs the clients have
  NPools,        \* number of pools of the class
  NParts,        \* number of prefixes in a pool
  Lows,          \* what the bits behind the delegated length may be: 0 and more
  NoPrefix,      \* "no prefix": in a hint, the address ::
  Useless,       \* a hint that is a multicast or link-local address
  Hints,         \* the hints clients send
  FixedPrefix,   \* client -> the prefix reserved for it, or NoPrefix
  ClntMaxLease,  \* client-max-lease
  Valid,         \* valid lifetime, in ticks
  MaxAssigned    \* bound: no message arrives once the counter passes it

PDPrefixes == [pool : 0 .. NPools, part : 0 .. NParts - 1, low : Lows]
Bindings == [duid : Clients, iaid : IAIDs, prefix : PDPrefixes]

ASSUME PDNamesAssumption ==
  NoPrefix \notin PDPrefixes /\ Useless \notin PDPrefixes /\ Useless # NoPrefix

(* The delegated length is below 128: a prefix has bits behind it.            *)
ASSUME PDLengthAssumption == \E l \in Lows : l # 0

ASSUME PDConfigAssumption ==
  /\ IsFiniteSet(Clients) /\ IsFiniteSet(IAIDs) /\ IsFiniteSet(Lows) /\ 0 \in Lows
  /\ IAs \subseteq Clients \X IAIDs
  /\ NPools \in Nat \ {0} /\ NParts \in Nat \ {0}
  /\ Hints \subseteq PDPrefixes \cup {NoPrefix, Useless}
  /\ FixedPrefix \in [Clients -> PDPrefixes \cup {NoPrefix}]
  /\ ClntMaxLease \in Nat /\ Valid \in Nat \ {0}
  /\ MaxAssigned \in Nat

VARIABLES
  db,        \* binding -> ticks until its valid lifetime ends
  assigned,  \* usage counter of the class
  cache,     \* client -> the prefix it had last, or NoPrefix
  held,      \* binding a client was told of -> what it believes of it
  asking     \* the IA whose SOLICIT is being answered, or none

vars == <<db, assigned, cache, held, asking>>

Binding(c, i, p) == [duid |-> c, iaid |-> i, prefix |-> p]
NoDB == [b \in {} |-> 0]
NoCache == [c \in Clients |-> NoPrefix]

-----------------------------------------------------------------------------
(* The database, the counter and the pools *)

PDOf(c, i) == {b \in DOMAIN db : b.duid = c /\ b.iaid = i}
LeaseCount(c) == Cardinality({b \in DOMAIN db : b.duid = c})
PrefixIsFreeOnceExpired(p) == \A b \in DOMAIN db : b.prefix = p => db[b] = 0 \* mutant
PrefixIsFree(p) == \A b \in DOMAIN db : b.prefix # p

InPool(p) == p.pool # 0
Counted(bs) == Cardinality({b \in bs : InPool(b.prefix)})
Recount(d) == Counted(DOMAIN d)

(* checkReservedPrefix(): is there a reservation for another client? *)
ReservedForOther(p, c) ==
  /\ \E x \in Clients : FixedPrefix[x] = p
  /\ FixedPrefix[c] # p

(* getRandomList() keeps the lower half of a pool (truncate() clears one bit  *)
(* too many) and never draws the last prefix of that half, but takes nothing *)
(* else once all but one of the prefixes of the whole pool are assigned.     *)
Half == Max({1, NParts \div 2})
PartsDrawn ==
  IF assigned + 1 = NParts THEN {Half - 1}
  ELSE IF Half = 1 THEN {0} ELSE 0 .. Half - 2
OneOfEach(n) == [k \in 1 .. NPools |-> [pool |-> k, part |-> n, low |-> 0]]
AllFree(ps) == \A k \in DOMAIN ps : PrefixIsFree(ps[k])

(* getRandomPrefix() draws an address of the first pool: bits behind the      *)
(* delegated length are set.                                                 *)
AnyOfFirstPool == {p \in PDPrefixes : p.pool = 1 /\ p.low # 0}

-----------------------------------------------------------------------------
Init == db = NoDB /\ assigned = 0 /\ cache = NoCache /\ held = NoDB /\ asking = {}

Believed(c, i, ps, left, fresh) ==
  LET told == {Binding(c, i, p) : p \in ps} IN
    [b \in DOMAIN held \cup told |->
       IF b \in told THEN [left |-> left, fresh |-> fresh] ELSE held[b]]

(* existingLease(): the answer has the full lifetimes again, but no timestamp *)
(* is set.                                                                   *)
GiveExisting(c, i) ==
  /\ PDOf(c, i) # {}
  /\ held' = Believed(c, i, {b.prefix : b \in PDOf(c, i)}, Valid, FALSE)
  /\ UNCHANGED <<db, assigned, cache>>

(* releaseAllPrefixes() of an ADVERTISE: what was leased before goes too, and *)
(* the client is not told.                                                   *)
Doubted(bs) ==
  [b \in DOMAIN held |-> IF b \in bs THEN [held[b] EXCEPT !.fresh = FALSE] ELSE held[b]]

UndoExisting(c, i) ==
  /\ PDOf(c, i) # {}
  /\ db' = Restrict(db, DOMAIN db \ PDOf(c, i))
  /\ assigned' = assigned - Counted(PDOf(c, i))
  /\ \E b \in PDOf(c, i) : cache' = [cache EXCEPT ![c] = b.prefix]
  /\ held' = Doubted(PDOf(c, i))

(* addPrefix() and incrPrefixCount() for every prefix of the answer. *)
Register(c, i, ps) ==
  LET new == {Binding(c, i, p) : p \in Range(ps)} IN
    /\ db' = [b \in DOMAIN db \cup new |-> IF b \in new THEN Valid ELSE db[b]]
    /\ assigned' = assigned + Counted(new)
    /\ held' = Believed(c, i, Range(ps), Valid, TRUE)
    /\ UNCHANGED cache

(* An ADVERTISE takes the new prefixes back, and the cache keeps the last one. *)
UndoNew(c, ps) ==
  /\ cache' = [cache EXCEPT ![c] = Last(ps)]
  /\ UNCHANGED <<db, assigned, held>>

Refuse == UNCHANGED <<db, assigned, cache, held>>

-----------------------------------------------------------------------------
(* What solicitRequest() gives a client without a binding for the IA.         *)

NoBinding(c, i) == PDOf(c, i) = {}
NotFixed(c, i) == NoBinding(c, i) /\ FixedPrefix[c] = NoPrefix
MayHaveMore(c, i) == NotFixed(c, i) /\ LeaseCount(c) < ClntMaxLease
NotFull(c, i) == MayHaveMore(c, i) /\ assigned < NParts

(* A client without a hint is given the hint it was last assigned. *)
Hint(c, h) == IF h = NoPrefix THEN cache[c] ELSE h
HintValid(c, h) ==
  /\ Hint(c, h) \in PDPrefixes /\ InPool(Hint(c, h))
  /\ ~ReservedForOther(Hint(c, h), c)

(* The sequences of prefixes that may be assigned: the reserved one, the hint, *)
(* some prefix of the first pool instead of a hint that is used, one prefix   *)
(* of every pool.  The draw instead of a used hint has no limit of attempts:   *)
(* that it ends (HintDrawEnds) is due to the counter, which lets nobody draw   *)
(* once as many prefixes are leased as a pool has.                           *)
FixedChoice(c, i) ==
  {<<FixedPrefix[x]>> : x \in {x \in {c} : NoBinding(x, i) /\ FixedPrefix[x] # NoPrefix}}
HintChoice(c, i, h) ==
  IF ~(NotFull(c, i) /\ HintValid(c, h)) THEN {}
  ELSE IF PrefixIsFree(Hint(c, h)) THEN {<<Hint(c, h)>>}
  ELSE {<<p>> : p \in {p \in AnyOfFirstPool : PrefixIsFree(p)}}
RandomChoice(c, i, h) ==
  IF NotFull(c, i) /\ ~HintValid(c, h)
  THEN {ps \in {OneOfEach(n) : n \in PartsDrawn} : AllFree(ps)} ELSE {}
Assignments(c, i, h) == FixedChoice(c, i) \cup HintChoice(c, i, h) \cup RandomChoice(c, i, h)

(* No choice: over the limit, the counter says the class is full, or a        *)
(* hundred draws each hit a prefix in use.                                   *)
NothingLeft(c, i, h) ==
  /\ NotFixed(c, i)
  /\ \/ ~NotFull(c, i)
     \/ ~HintValid(c, h) /\ \E n \in PartsDrawn : ~AllFree(OneOfEach(n))

-----------------------------------------------------------------------------
Solicit(c, i, h) ==
  \/ UndoExisting(c, i)
  \/ \E ps \in Assignments(c, i, h) : UndoNew(c, ps)
  \/ NothingLeft(c, i, h) /\ Refuse

(* REQUEST, and SOLICIT answered by a REPLY (rapid commit). *)
Request(c, i, h) ==
  /\ \/ GiveExisting(c, i)
     \/ \E ps \in Assignments(c, i, h) : Register(c, i, ps)
     \/ NothingLeft(c, i, h) /\ Refuse

RenewStale(c, i) == \* mutant
  /\ IF NoBinding(c, i) THEN Refuse
     ELSE /\ held' = Believed(c, i, {b.prefix : b \in PDOf(c, i)}, Valid, TRUE)
          /\ UNCHANGED <<db, assigned, cache>>

Renew(c, i) ==
  /\ IF NoBinding(c, i) THEN Refuse
     ELSE /\ db' = [b \in DOMAIN db |-> IF b \in PDOf(c, i) THEN Valid ELSE db[b]]
          /\ held' = Believed(c, i, {b.prefix : b \in PDOf(c, i)}, Valid, TRUE)
          /\ UNCHANGED <<assigned, cache>>

(* REBIND is answered with an IA_PD that has nothing in it. *)
Rebind == UNCHANGED <<db, assigned, cache, held>>

(* A client stops using the prefixes before it releases them.                *)
ReleaseUncounted(c, i, ps) == \* mutant
  LET bs == PDOf(c, i) \cap {Binding(c, i, p) : p \in ps} IN
    /\ \A p \in ps : Binding(c, i, p) \notin DOMAIN held
    /\ db' = Restrict(db, DOMAIN db \ bs)
    /\ assigned' = assigned - Cardinality(ps)
    /\ UNCHANGED <<held, cache>>

ReleaseOfAnyone(c, i, ps) == \* mutant
  LET bs == {b \in DOMAIN db : b.prefix \in ps} IN
    /\ \A p \in ps : Binding(c, i, p) \notin DOMAIN held
    /\ db' = Restrict(db, DOMAIN db \ bs)
    /\ assigned' = assigned - Counted(bs)
    /\ UNCHANGED <<held, cache>>

Release(c, i, ps) ==
  LET bs == PDOf(c, i) \cap {Binding(c, i, p) : p \in ps} IN
    /\ \A p \in ps : Binding(c, i, p) \notin DOMAIN held
    /\ db' = Restrict(db, DOMAIN db \ bs)
    /\ assigned' = assigned - Counted(bs)
    /\ IF bs = {} THEN UNCHANGED cache
       ELSE \E b \in bs : cache' = [cache EXCEPT ![c] = b.prefix]
    /\ UNCHANGED held

-----------------------------------------------------------------------------
(* The main loop *)

(* doDuties(): the expired prefixes leave the database and enter the cache;   *)
(* the counter stays as it is.                                               *)
Expired == {b \in DOMAIN db : db[b] = 0}

RemoveExpired ==
  /\ Expired # {}
  /\ db' = Restrict(db, DOMAIN db \ Expired)
  /\ \E last \in [{b.duid : b \in Expired} -> Expired] :
       /\ \A c \in DOMAIN last : last[c].duid = c
       /\ cache' = [c \in Clients |-> IF c \in DOMAIN last THEN last[c].prefix ELSE cache[c]]
  /\ UNCHANGED <<assigned, held>>

(* The file has the database and the cache; setCounters() counts again.       *)
Restart == assigned' = Recount(db) /\ UNCHANGED <<db, cache, held>>

(* Time, and clients that lose or give up what they hold. *)
AgedBelowZero(d) == [b \in DOMAIN d |-> d[b] - 1] \* mutant
Aged(d) == [b \in DOMAIN d |-> Max({0, d[b] - 1})]
StillHeld == {b \in DOMAIN held : held[b].left > 1}

Tick ==
  /\ db' = Aged(db)
  /\ held' = [b \in StillHeld |-> [held[b] EXCEPT !.left = @ - 1]]
  /\ UNCHANGED <<assigned, cache>>

Forget(b) ==
  /\ held' = Restrict(held, DOMAIN held \ {b})
  /\ UNCHANGED <<db, assigned, cache>>

-----------------------------------------------------------------------------
Known(c, i) == {b.prefix : b \in PDOf(c, i)} \cup ({cache[c]} \cap PDPrefixes)

SolicitArrives(ia) ==
  /\ asking' = {ia}
  /\ UNCHANGED <<db, assigned, cache, held>>

AnswerSolicit ==
  /\ \E ia \in asking, h \in Hints : Solicit(ia[1], ia[2], h)
  /\ asking' = {}

Message(c, i) ==
  \/ \E h \in Hints : Request(c, i, h)
  \/ Renew(c, i) \/ Rebind
  \/ \E ps \in SUBSET Known(c, i) : Release(c, i, ps)

NoMessage == RemoveExpired \/ Restart \/ Tick \/ \E b \in DOMAIN held : Forget(b)

Next ==
  \/ asking = {} /\ assigned <= MaxAssigned /\ \E ia \in IAs : SolicitArrives(ia)
  \/ AnswerSolicit
  \/ /\ asking = {} /\ UNCHANGED asking
     /\ \/ assigned <= MaxAssigned /\ \E ia \in IAs : Message(ia[1], ia[2])
        \/ NoMessage

Spec == Init /\ [][Next]_vars

-----------------------------------------------------------------------------
(* Every variable has its type. *)
TypeOK ==
  /\ DOMAIN db \subseteq Bindings /\ db \in [DOMAIN db -> 0 .. Valid]
  /\ assigned \in Nat
  /\ cache \in [Clients -> PDPrefixes \cup {NoPrefix}]
  /\ DOMAIN held \subseteq Bindings
  /\ held \in [DOMAIN held -> [left : 1 .. Valid, fresh : BOOLEAN]]
  /\ asking \subseteq IAs

(* One prefix is in two IAs only if it is reserved for the client of one of   *)
(* them: assignFixedLease() does not look whether the prefix is free, and a   *)
(* draw does not look whether it is reserved; the cache, hints and the undoing *)
(* of an ADVERTISE lead to no other way.                                     *)
SharedOnlyIfReserved ==
  \A b1, b2 \in DOMAIN db :
    b1.prefix = b2.prefix =>
      b1 = b2 \/ FixedPrefix[b1.duid] = b1.prefix \/ FixedPrefix[b2.duid] = b1.prefix

(* The counter is never below the number of prefixes leased from the pools,   *)
(* whatever an ADVERTISE gives back, a client releases that it does not have, *)
(* or a restart counts again (expired prefixes stay counted).                *)
CountersCover == Counted(DOMAIN db) <= assigned

(* A message that may have a prefix instead of its hint gets one: there is     *)
(* always a free prefix to draw, so the draw ends.                           *)
HintDrawEnds ==
  \A c \in Clients, i \in IAIDs, h \in Hints :
    NotFull(c, i) /\ HintValid(c, h) => HintChoice(c, i, h) # {}

(* What a client was told when a prefix was assigned or renewed is kept for   *)
(* as long as it was told, but for what its own SOLICIT put at stake: only an *)
(* answer with an existing lease may promise more than the database has, and  *)
(* only the SOLICIT of an IA takes back a prefix that IA relies on.           *)
FreshPromiseKept ==
  \A b \in DOMAIN held :
    held[b].fresh => b \in DOMAIN db /\ held[b].left <= db[b]

(* No answer promises more than the database has. *)
PromiseKept ==
  \A b \in DOMAIN held : b \in DOMAIN db /\ held[b].left <= db[b]

(* "returns list of free prefixes for this client": no two IAs have prefixes  *)
(* that overlap.                                                             *)
Overlap(p, q) == p.pool = q.pool /\ p.part = q.part
NoOverlap == \A b1, b2 \in DOMAIN db : Overlap(b1.prefix, b2.prefix) => b1 = b2

(* The prefixes nobody has reserved are a table of leases: an IA gets its     *)
(* prefixes at once and none while it has some, a prefix changes hands only by *)
(* being free in between, and nothing promised is taken back but from the IA  *)
(* whose own SOLICIT is being answered.                                      *)
Unreserved == {p \in PDPrefixes : \A c \in Clients : FixedPrefix[c] # p}
OwnerIn(d, p) ==
  IF \E b \in DOMAIN d : b.prefix = p
  THEN LET b == CHOOSE b \in DOMAIN d : b.prefix = p IN <<b.duid, b.iaid>>
  ELSE <<>>
Kept == {b \in DOMAIN held : b \in DOMAIN db /\ held[b].left <= db[b]}
Table == INSTANCE LeaseTable
  WITH Addrs <- Unreserved, Owners <- Clients \X IAIDs, Free <- <<>>,
       Quarantined <- <<0>>, MaxEach <- NPools,
       up <- TRUE,
       table <- [p \in Unreserved |-> OwnerIn(db, p)],
       saved <- [p \in Unreserved |-> <<>>],
       promised <- {<<<<b.duid, b.iaid>>, b.prefix>> : b \in {b \in Kept : b.prefix \in Unreserved}}
ImplementsTable == Table!TableSpec
=============================================================================
