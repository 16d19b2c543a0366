------------------------------ MODULE SrvLease ------------------------------
(***************************************************************************)
(* The lease engine of the Dibbler server for IA_NA options on one          *)
(* interface: the address database (SrvAddrMgr), the pool usage counters     *)
(* and the reservations (SrvCfgMgr), the assignment policy of SOLICIT and    *)
(* REQUEST (SrvOptIA_NA), the handlers of RENEW, REBIND, RELEASE and DECLINE *)
(* (SrvMsgReply), the ADVERTISE that undoes what it assigned                 *)
(* (SrvMsgAdvertise), and the main loop with expiry, the dump of the         *)
(* database to disk, crash and restart (SrvTransMgr, DHCPServer).            *)
(*                                                                         *)
(* The server is one thread.  A message is handled by the micro-steps of     *)
(* pc = "options", "undo", "dump", in that order and with nothing but a      *)
(* crash between them; each micro-step handles one IA option or one address. *)
(* The database and the cache are two files, truncated and then written from *)
(* the start; a crash in the middle of that leaves a part (Torn).            *)
(* `held' is what the clients were told in REPLY messages and still rely on: *)
(* it is the environment's knowledge, no state of the server.                *)
(***************************************************************************)
EXTENDS Integers, Sequences, FiniteSets, FiniteSetsExt, SequencesExt, Functions

CONSTANTS
  Clients,          \* DUIDs of the clients
  DeclinedDUID,     \* DUID of the dummy client that owns declined addresses
  IAIDs,            \* IAIDs the clients use
  DeclinedIAID,     \* IAID of the dummy client's only IA
  Addrs,            \* the addresses that occur
  NoAddr,           \* "no address": a status code instead of an IAADDR
  Pools,            \* address classes of the interface
  NoPool,
  PoolOf,           \* address -> the class whose range it is in, or NoPool
  ClassMaxLease,    \* class -> class-max-lease, at most the size of the range
  ClntMaxLease,     \* client-max-lease
  Supported,        \* client -> the classes that accept it
  Preferred,        \* client -> the first class that whitelists it, or NoPool
  FixedAddr,        \* client -> the address reserved for it, or NoAddr
  Valid,            \* valid lifetime of a lease, in ticks
  DeclinedTimeout,  \* quarantine of a declined address, in ticks
  CacheMaxSize,     \* number of entries of the address cache
  CounterMod,       \* 2^w, for a usage counter of w bits
  MsgIAs,           \* sequences of IA options a message may carry
  MaxAssigned,      \* bound: no message arrives once a counter passes it
  MaxCrashes,       \* bound on the number of crashes
  StaleClients      \* clients that may SOLICIT for an IA they hold

DUIDs == Clients \cup {DeclinedDUID}
Bindings == [duid : DUIDs, iaid : IAIDs \cup {DeclinedIAID}, addr : Addrs]
IAOptions == [iaid : IAIDs, addrs : Seq(Addrs)]
CacheEntries == [duid : DUIDs, addr : Addrs]
Counts == 0 .. CounterMod - 1
Lifetimes == (0 .. Valid) \cup (0 .. DeclinedTimeout)
MsgTypes == {"SOLICIT", "RAPID", "REQUEST", "RENEW", "REBIND", "RELEASE", "DECLINE"}

ASSUME NamesAssumption ==
  /\ DeclinedDUID \notin Clients
  /\ DeclinedIAID \notin IAIDs
  /\ NoAddr \notin Addrs
  /\ NoPool \notin Pools

ASSUME FiniteAssumption ==
  IsFiniteSet(Clients) /\ IsFiniteSet(IAIDs) /\ IsFiniteSet(Addrs)

ASSUME ConfigAssumption ==
  /\ PoolOf \in [Addrs -> Pools \cup {NoPool}]
  /\ ClassMaxLease \in [Pools -> Nat]
  /\ ClntMaxLease \in Nat
  /\ Supported \in [Clients -> SUBSET Pools]
  /\ Preferred \in [Clients -> Pools \cup {NoPool}]
  /\ FixedAddr \in [Clients -> Addrs \cup {NoAddr}]
  /\ CacheMaxSize \in Nat
  /\ StaleClients \subseteq Clients

ASSUME BoundsAssumption ==
  /\ Valid \in Nat \ {0} /\ DeclinedTimeout \in Nat \ {0}
  /\ CounterMod \in Nat \ {0} /\ MaxAssigned \in Nat /\ MaxCrashes \in Nat
  /\ MsgIAs \subseteq Seq(IAOptions)

VARIABLES
  pc,        \* where the server's single thread is
  db,        \* binding -> ticks until its valid lifetime ends
  cache,     \* addresses clients used before, oldest entry first
  assigned,  \* pool -> usage counter
  disk,      \* what the last dump wrote
  msg,       \* the message being handled: its type, client and IAs left
  ans,       \* addresses put in the answer so far
  held,      \* binding a client was told of -> ticks it may still use it
  crashes

srvVars == <<db, cache, assigned, msg, ans>>
vars == <<pc, db, cache, assigned, disk, msg, ans, held, crashes>>

Binding(c, i, a) == [duid |-> c, iaid |-> i, addr |-> a]
NoMsg == [type |-> "NONE", duid |-> DeclinedDUID, ias |-> <<>>]
NoDB == [b \in {} |-> 0]
Zero == [p \in Pools |-> 0]

-----------------------------------------------------------------------------
(* The address database and the cache *)

AddrIsFreeOfDeclined(a) == \A b \in DOMAIN db : b.duid # DeclinedDUID => b.addr # a \* mutant
AddrIsFree(a) == \A b \in DOMAIN db : b.addr # a
FreeIn(p) == {a \in Addrs : PoolOf[a] = p /\ AddrIsFree(a)}
ClientKnown(c) == \E b \in DOMAIN db : b.duid = c
BindingsOf(c, i) == {b \in DOMAIN db : b.duid = c /\ b.iaid = i}
LeaseCount(c) == Cardinality({b \in DOMAIN db : b.duid = c})

(* A binding is added; an IA or client that has none yet comes with it. *)
WithLease(d, b, t) == [x \in DOMAIN d \cup {b} |-> IF x = b THEN t ELSE d[x]]
WithoutLease(d, b) == Restrict(d, DOMAIN d \ {b})
RefreshedNothing(d, bs) == d \* mutant
Refreshed(d, bs) == [b \in DOMAIN d |-> IF b \in bs THEN Valid ELSE d[b]]

Without(ch, i) == IF i \in DOMAIN ch THEN RemoveAt(ch, i) ELSE ch
FirstOf(S) == IF S = {} THEN 0 ELSE Min(S)
EntryOf(ch, c) == FirstOf({i \in DOMAIN ch : ch[i].duid = c})
EntryFor(ch, a) == FirstOf({i \in DOMAIN ch : ch[i].addr = a})

Evicted(ch) == IF Len(ch) > CacheMaxSize THEN Tail(ch) ELSE ch
WithCachedAgain(ch, c, a) == Evicted(Append(ch, [duid |-> c, addr |-> a])) \* mutant
WithCached(ch, c, a) ==
  IF CacheMaxSize = 0 THEN ch
  ELSE Evicted(Append(Without(ch, EntryOf(ch, c)), [duid |-> c, addr |-> a]))

(* Reservations and usage counters *)

AddrReserved(a) == \E c \in Clients : FixedAddr[c] = a

Incr(n) == IF n = CounterMod - 1 THEN 0 ELSE n + 1
Decr(n) == IF n = 0 THEN CounterMod - 1 ELSE n - 1
CountedIn(a) ==
  [p \in Pools |-> IF p = PoolOf[a] THEN Incr(assigned[p]) ELSE assigned[p]]
CountedOut(a) ==
  [p \in Pools |-> IF p = PoolOf[a] THEN Decr(assigned[p]) ELSE assigned[p]]
LeasedIn(p, d) == {b \in DOMAIN d : PoolOf[b.addr] = p}
RecountNothing(d) == Zero \* mutant
Recount(d) == [p \in Pools |-> Cardinality(LeasedIn(p, d)) % CounterMod]

-----------------------------------------------------------------------------
Init ==
  /\ pc = "select" /\ msg = NoMsg /\ ans = <<>> /\ crashes = 0
  /\ db = NoDB /\ cache = <<>> /\ assigned = Zero
  /\ disk = [db |-> NoDB, cache |-> <<>>]
  /\ held = NoDB

(* A message comes out of select().  A client stops using what it releases   *)
(* or declines before it sends the message; a RELEASE or DECLINE of a client *)
(* that is not in the database is not answered.                              *)
GivenUp(c, ias) ==
  {b \in DOMAIN held : /\ b.duid = c
                       /\ \E i \in DOMAIN ias : /\ ias[i].iaid = b.iaid
                                                /\ b.addr \in Range(ias[i].addrs)}
HoldsIA(c, ias) ==
  \E b \in DOMAIN held : b.duid = c /\ \E i \in DOMAIN ias : ias[i].iaid = b.iaid
WithinBound(n) ==
  \A p \in Pools : assigned[p] + n <= MaxAssigned \/ assigned[p] > MaxAssigned

Receive(t, c, ias) ==
  /\ pc = "select"
  /\ WithinBound(Len(ias))
  /\ (t = "SOLICIT" /\ c \notin StaleClients) => ~HoldsIA(c, ias)
  /\ held' = IF t \in {"RELEASE", "DECLINE"}
             THEN Restrict(held, DOMAIN held \ GivenUp(c, ias)) ELSE held
  /\ IF t \in {"RELEASE", "DECLINE"} /\ ~ClientKnown(c)
     THEN pc' = "dump" /\ msg' = NoMsg
     ELSE pc' = "options" /\ msg' = [type |-> t, duid |-> c, ias |-> ias]
  /\ UNCHANGED <<db, cache, assigned, disk, ans, crashes>>

-----------------------------------------------------------------------------
(* One IA option of the message: c and i name the client and the IA.         *)

Handling(types) == pc = "options" /\ msg.ias # <<>> /\ msg.type \in types
AssignTypes == {"SOLICIT", "RAPID", "REQUEST"}

Answer(a) ==
  /\ ans' = Append(ans, [iaid |-> Head(msg.ias).iaid, addr |-> a])
  /\ msg' = [msg EXCEPT !.ias = Tail(@)]
  /\ UNCHANGED <<pc, disk, held, crashes>>

(* renew() and rebind(): every timestamp of the IA is set to now.  The IA     *)
(* has one address (OneAddrPerIA).                                           *)
RenewBinding ==
  /\ Handling(AssignTypes \cup {"RENEW", "REBIND"})
  /\ LET bs == BindingsOf(msg.duid, Head(msg.ias).iaid) IN
       \E b \in bs : Answer(b.addr) /\ db' = Refreshed(db, bs)
  /\ UNCHANGED <<cache, assigned>>

NoBindingForgotten(types) == Handling(types) \* mutant
NoBindingFor(types) ==
  Handling(types) /\ BindingsOf(msg.duid, Head(msg.ias).iaid) = {}

RenewNoBinding ==
  NoBindingFor({"RENEW"}) /\ Answer(NoAddr) /\ UNCHANGED <<db, cache, assigned>>

(* A REBIND with an unknown IA is discarded, whatever its other IAs say.     *)
RebindDiscarded ==
  /\ NoBindingFor({"REBIND"})
  /\ pc' = "dump" /\ ans' = <<>>
  /\ UNCHANGED <<db, cache, assigned, disk, msg, held, crashes>>

(* Assignment, step 4: a reserved address is answered and registered nowhere. *)
AssignFixedLease ==
  /\ NoBindingFor(AssignTypes)
  /\ FixedAddr[msg.duid] # NoAddr /\ Answer(FixedAddr[msg.duid])
  /\ UNCHANGED <<db, cache, assigned>>

NotFixed == NoBindingFor(AssignTypes) /\ FixedAddr[msg.duid] = NoAddr

(* Step 5: client-max-lease. *)
RefuseMaxLease ==
  /\ NotFixed /\ LeaseCount(msg.duid) >= ClntMaxLease
  /\ Answer(NoAddr)
  /\ UNCHANGED <<db, cache, assigned>>

MayHaveOneMore == NotFixed /\ LeaseCount(msg.duid) <= ClntMaxLease \* mutant
MayHaveMore == NotFixed /\ LeaseCount(msg.duid) < ClntMaxLease

(* assignAddr(): database and counter; ch is the cache as step 6 left it.     *)
AssignAddr(a, ch) ==
  /\ Answer(a)
  /\ db' = WithLease(db, Binding(msg.duid, Head(msg.ias).iaid, a), Valid)
  /\ assigned' = CountedIn(a)
  /\ cache' = ch

(* Step 6: the address the client had before, if it is in a pool and free.   *)
(* Otherwise the first entry with that address leaves the cache.             *)
CachedEntry == EntryOf(cache, msg.duid)
CachedUsable ==
  /\ CachedEntry # 0
  /\ PoolOf[cache[CachedEntry].addr] # NoPool
  /\ AddrIsFree(cache[CachedEntry].addr)
CacheAfterMiss ==
  IF CachedEntry = 0 THEN cache
  ELSE Without(cache, EntryFor(cache, cache[CachedEntry].addr))

AssignCachedAddr ==
  MayHaveMore /\ CachedUsable /\ AssignAddr(cache[CachedEntry].addr, cache)

(* Step 7: the first hint that is reserved ends the search; the first one in *)
(* a supported class is taken if it is free, and stands for any free address *)
(* of its class if it is not and the class is not full.                      *)
NotFull(p) == assigned[p] < ClassMaxLease[p]
HintUnchecked(a) == PoolOf[a] # NoPool /\ (AddrIsFree(a) \/ NotFull(PoolOf[a])) \* mutant
HintUsable(a) ==
  /\ PoolOf[a] \in Supported[msg.duid]
  /\ AddrIsFree(a) \/ NotFull(PoolOf[a])
HintTaken(hints, k) ==
  /\ HintUsable(hints[k])
  /\ \A j \in 1 .. k : ~AddrReserved(hints[j])
  /\ \A j \in 1 .. k - 1 : ~HintUsable(hints[j])
Candidates(hint) == IF AddrIsFree(hint) THEN {hint} ELSE FreeIn(PoolOf[hint])

CacheMissed == MayHaveMore /\ ~CachedUsable
Hints == Head(msg.ias).addrs

AssignRequestedAddr ==
  /\ CacheMissed
  /\ \E k \in DOMAIN Hints :
       /\ HintTaken(Hints, k)
       /\ \E a \in Candidates(Hints[k]) : AssignAddr(a, CacheAfterMiss)

(* Step 8: a random free address of a preferred or, failing that, a          *)
(* supported class that is not full.                                         *)
HintsFailed == CacheMissed /\ \A k \in DOMAIN Hints : ~HintTaken(Hints, k)
RandomClass ==
  IF Preferred[msg.duid] # NoPool THEN {Preferred[msg.duid]}
  ELSE {p \in Supported[msg.duid] : NotFull(p)}
SuitableClass == {p \in RandomClass : p \in Supported[msg.duid] /\ NotFull(p)}

AssignRandomAddr ==
  /\ HintsFailed
  /\ \E p \in SuitableClass : \E a \in FreeIn(p) : AssignAddr(a, CacheAfterMiss)

NoAddrsAvail ==
  /\ HintsFailed /\ SuitableClass = {}
  /\ Answer(NoAddr) /\ cache' = CacheAfterMiss
  /\ UNCHANGED <<db, assigned>>

(* Both loops draw addresses until one is free: with none, they never end.   *)
DrawForever ==
  /\ \/ /\ CacheMissed
        /\ \E k \in DOMAIN Hints : HintTaken(Hints, k) /\ Candidates(Hints[k]) = {}
     \/ HintsFailed /\ \E p \in SuitableClass : FreeIn(p) = {}
  /\ pc' = "hung" /\ cache' = CacheAfterMiss
  /\ UNCHANGED <<db, assigned, disk, msg, ans, held, crashes>>

-----------------------------------------------------------------------------
(* RELEASE and DECLINE handle one address after the other.                   *)

RestOfAddrsKept == msg.ias \* mutant
RestOfAddrs ==
  LET ia == Head(msg.ias) IN
    IF Len(ia.addrs) > 1 THEN <<[ia EXCEPT !.addrs = Tail(@)]>> \o Tail(msg.ias)
    ELSE Tail(msg.ias)

(* delClntAddr(): out of the database, into the cache.                       *)
DelAddrOfAnyone(b) == \* mutant
  LET bs == {x \in DOMAIN db : x.addr = b.addr} IN
    /\ db' = Restrict(db, DOMAIN db \ bs)
    /\ cache' = IF bs = {} THEN cache ELSE WithCached(cache, b.duid, b.addr)
DelClntAddr(b) ==
  IF b \in DOMAIN db
  THEN db' = WithoutLease(db, b) /\ cache' = WithCached(cache, b.duid, b.addr)
  ELSE UNCHANGED <<db, cache>>

NextAddr == Binding(msg.duid, Head(msg.ias).iaid, Head(Head(msg.ias).addrs))

SkipEmptyIA ==
  /\ Handling({"RELEASE", "DECLINE"}) /\ Head(msg.ias).addrs = <<>>
  /\ msg' = [msg EXCEPT !.ias = Tail(@)]
  /\ UNCHANGED <<pc, db, cache, assigned, disk, ans, held, crashes>>

ReleaseAddrUncounted == \* mutant
  /\ Handling({"RELEASE"}) /\ Head(msg.ias).addrs # <<>>
  /\ DelClntAddr(NextAddr)
  /\ assigned' = CountedOut(NextAddr.addr)
  /\ msg' = [msg EXCEPT !.ias = RestOfAddrs]
  /\ UNCHANGED <<pc, disk, ans, held, crashes>>

ReleaseAddr ==
  /\ Handling({"RELEASE"}) /\ Head(msg.ias).addrs # <<>>
  /\ DelClntAddr(NextAddr)
  /\ assigned' = IF NextAddr \in DOMAIN db THEN CountedOut(NextAddr.addr) ELSE assigned
  /\ msg' = [msg EXCEPT !.ias = RestOfAddrs]
  /\ UNCHANGED <<pc, disk, ans, held, crashes>>

(* A declined address moves to the dummy client; its pool still counts it.   *)
Quarantine(b) == Binding(DeclinedDUID, DeclinedIAID, b.addr)
DeclineAddr ==
  /\ Handling({"DECLINE"}) /\ Head(msg.ias).addrs # <<>>
  /\ IF NextAddr \in DOMAIN db
     THEN /\ db' = WithLease(WithoutLease(db, NextAddr), Quarantine(NextAddr), DeclinedTimeout)
          /\ cache' = WithCached(cache, NextAddr.duid, NextAddr.addr)
     ELSE UNCHANGED <<db, cache>>
  /\ msg' = [msg EXCEPT !.ias = RestOfAddrs]
  /\ UNCHANGED <<pc, assigned, disk, ans, held, crashes>>

-----------------------------------------------------------------------------
(* The end of a message *)

Told ==
  {b \in Bindings : /\ b.duid = msg.duid
                    /\ \E k \in DOMAIN ans : ans[k] = [iaid |-> b.iaid, addr |-> b.addr]}
Holding(bs) == [b \in DOMAIN held \cup bs |-> IF b \in bs THEN Valid ELSE held[b]]

SendReply ==
  /\ pc = "options" /\ msg.ias = <<>> /\ msg.type # "SOLICIT"
  /\ held' = Holding(Told)
  /\ pc' = "dump"
  /\ UNCHANGED <<db, cache, assigned, disk, msg, ans, crashes>>

StartUndo ==
  /\ pc = "options" /\ msg.ias = <<>> /\ msg.type = "SOLICIT"
  /\ pc' = "undo"
  /\ UNCHANGED <<srvVars, disk, held, crashes>>

(* ADVERTISE: releaseAllAddrs() for every address in the answer.  The usage  *)
(* counter goes down whether or not the address was in the database.         *)
UndoAddr ==
  /\ pc = "undo" /\ ans # <<>>
  /\ LET b == Binding(msg.duid, Head(ans).iaid, Head(ans).addr) IN
       IF b.addr = NoAddr THEN UNCHANGED <<db, cache, assigned>>
       ELSE DelClntAddr(b) /\ assigned' = CountedOut(b.addr)
  /\ ans' = Tail(ans)
  /\ UNCHANGED <<pc, disk, msg, held, crashes>>

SendAdvertise ==
  /\ pc = "undo" /\ ans = <<>>
  /\ pc' = "dump"
  /\ UNCHANGED <<srvVars, disk, held, crashes>>

(* The answer is on the wire when the database is written. *)
DumpSkipped == \* mutant
  /\ pc = "dump"
  /\ msg' = NoMsg /\ ans' = <<>> /\ pc' = "duties"
  /\ UNCHANGED <<db, cache, assigned, disk, held, crashes>>

Dump ==
  /\ pc = "dump"
  /\ disk' = [db |-> db, cache |-> cache]
  /\ msg' = NoMsg /\ ans' = <<>> /\ pc' = "duties"
  /\ UNCHANGED <<db, cache, assigned, held, crashes>>

-----------------------------------------------------------------------------
(* The main loop: doDuties() before every select().                          *)

ExpiredEarly == {b \in DOMAIN db : db[b] <= 1} \* mutant
Expired == {b \in DOMAIN db : db[b] = 0}

Wake ==
  /\ pc = "select" /\ Expired # {}
  /\ pc' = "duties"
  /\ UNCHANGED <<srvVars, disk, held, crashes>>

RemoveExpiredOfClients == \* mutant
  /\ pc \in {"duties", "expire"} /\ pc' = "expire"
  /\ \E b \in Expired : b.duid \in Clients /\ DelClntAddr(b)
  /\ UNCHANGED <<assigned, disk, msg, ans, held, crashes>>

(* removeExpired() takes the expired leases out one by one and then dumps.    *)
RemoveExpired ==
  /\ pc \in {"duties", "expire"} /\ pc' = "expire"
  /\ \E b \in Expired : DelClntAddr(b)
  /\ UNCHANGED <<assigned, disk, msg, ans, held, crashes>>

ExpiryUnsaved == \* mutant
  /\ pc = "expire" /\ Expired = {}
  /\ pc' = "select"
  /\ UNCHANGED <<srvVars, disk, held, crashes>>

SaveExpired ==
  /\ pc = "expire" /\ Expired = {}
  /\ disk' = [db |-> db, cache |-> cache]
  /\ pc' = "select"
  /\ UNCHANGED <<srvVars, held, crashes>>

(* getValidTimeout() is not 0: nothing is removed and nothing written.        *)
NothingExpired ==
  /\ pc = "duties" /\ Expired = {}
  /\ pc' = "select"
  /\ UNCHANGED <<srvVars, disk, held, crashes>>

Spin == pc = "hung" /\ UNCHANGED vars

(* SIGTERM: the database is dumped and the process ends. *)
Shutdown ==
  /\ pc = "select"
  /\ disk' = [db |-> db, cache |-> cache]
  /\ pc' = "down" /\ db' = NoDB /\ cache' = <<>> /\ assigned' = Zero
  /\ UNCHANGED <<msg, ans, held, crashes>>

(* A dump truncates the database file and writes it client by client, in no   *)
(* order the model knows; then it does the same with the cache, oldest entry  *)
(* first.  Read back, a file that ends early has every client that was         *)
(* complete, of the one it breaks off in some of the leases or none, and of    *)
(* the cache the entries that are there.  A dump may be under way after a     *)
(* message or a start, after the last expired lease, and in select(), where a *)
(* shutdown begins.                                                          *)
Writing == pc \in {"dump", "select"} \/ (pc = "expire" /\ Expired = {})
Written ==
  {S \in SUBSET DOMAIN db :
     \E last \in DUIDs : \A b \in S, x \in DOMAIN db \ S : x.duid = b.duid => b.duid = last}
Torn ==
  {[db |-> Restrict(db, S), cache |-> disk.cache] : S \in Written}
  \cup {[db |-> db, cache |-> SubSeq(cache, 1, n)] : n \in 0 .. Len(cache)}

Crash ==
  /\ pc # "down" /\ crashes < MaxCrashes
  /\ crashes' = crashes + 1
  /\ disk' \in {disk} \cup (IF Writing THEN Torn ELSE {})
  /\ pc' = "down" /\ db' = NoDB /\ cache' = <<>> /\ assigned' = Zero
  /\ msg' = NoMsg /\ ans' = <<>>
  /\ UNCHANGED held

(* The database is read back, setCounters() recounts the pools, and what was  *)
(* read is written again.                                                    *)
Restart ==
  /\ pc = "down"
  /\ db' = disk.db /\ cache' = disk.cache /\ assigned' = Recount(disk.db)
  /\ pc' = "dump"
  /\ UNCHANGED <<disk, msg, ans, held, crashes>>

-----------------------------------------------------------------------------
(* The environment: time, and clients that lose or drop what they hold.      *)

AgedBelowZero(d) == [b \in DOMAIN d |-> d[b] - 1] \* mutant
Aged(d) == [b \in DOMAIN d |-> IF d[b] = 0 THEN 0 ELSE d[b] - 1]
StillHeld == {b \in DOMAIN held : held[b] > 1}

Tick ==
  /\ pc \in {"select", "down"}
  /\ db' = Aged(db) /\ disk' = [disk EXCEPT !.db = Aged(@)]
  /\ held' = [b \in StillHeld |-> held[b] - 1]
  /\ UNCHANGED <<pc, cache, assigned, msg, ans, crashes>>

Forget(b) ==
  /\ pc = "select"
  /\ held' = Restrict(held, DOMAIN held \ {b})
  /\ UNCHANGED <<pc, srvVars, disk, crashes>>

-----------------------------------------------------------------------------
Assign ==
  \/ RenewBinding \/ AssignFixedLease \/ RefuseMaxLease \/ AssignCachedAddr
  \/ AssignRequestedAddr \/ AssignRandomAddr \/ NoAddrsAvail \/ DrawForever

HandleOption ==
  \/ Assign \/ RenewNoBinding \/ RebindDiscarded
  \/ SkipEmptyIA \/ ReleaseAddr \/ DeclineAddr

Server ==
  \/ HandleOption \/ SendReply \/ StartUndo \/ UndoAddr \/ SendAdvertise \/ Dump
  \/ Wake \/ RemoveExpired \/ SaveExpired \/ NothingExpired \/ Spin

Environment ==
  \/ \E t \in MsgTypes, c \in Clients, ias \in MsgIAs : Receive(t, c, ias)
  \/ Tick
  \/ \E b \in DOMAIN held : Forget(b)
  \/ Shutdown \/ Crash \/ Restart

Next == Server \/ Environment

Spec == Init /\ [][Next]_vars

(* The thread never rests inside a handler, and an operator starts a stopped *)
(* server again; nothing makes clients send or time pass.                    *)
FairSpec == Spec /\ WF_vars(Server) /\ WF_vars(Restart)

-----------------------------------------------------------------------------
(* Every variable has its type. *)
TypeOK ==
  /\ pc \in {"select", "options", "undo", "dump", "duties", "expire", "hung", "down"}
  /\ DOMAIN db \subseteq Bindings /\ db \in [DOMAIN db -> Lifetimes]
  /\ cache \in Seq(CacheEntries)
  /\ assigned \in [Pools -> Counts]
  /\ disk = [db |-> disk.db, cache |-> disk.cache]
  /\ DOMAIN disk.db \subseteq Bindings /\ disk.db \in [DOMAIN disk.db -> Lifetimes]
  /\ disk.cache \in Seq(CacheEntries)
  /\ msg \in [type : MsgTypes, duid : Clients, ias : Seq(IAOptions)] \cup {NoMsg}
  /\ ans \in Seq([iaid : IAIDs, addr : Addrs \cup {NoAddr}])
  /\ DOMAIN held \subseteq Bindings /\ held \in [DOMAIN held -> 1 .. Valid]
  /\ crashes \in Nat

(* The server's memory, or the file it will start from. *)
Store == IF pc = "down" THEN disk.db ELSE db

(* No address is bound twice, whatever the assignment step, the undoing of    *)
(* an ADVERTISE, the quarantine or a restart did (addrIsFree() guards only    *)
(* the steps that assign).                                                   *)
Unique(d) == \A b1, b2 \in DOMAIN d : b1.addr = b2.addr => b1 = b2
UniqueBinding == Unique(db) /\ Unique(disk.db)

(* An IA of a client has one address: renew() and the handlers that look for  *)
(* "the" address of an IA rely on it, and addClntAddr() does not see to it.   *)
OnePerIA(d) ==
  \A b1, b2 \in DOMAIN d :
    (b1.duid \in Clients /\ b1.duid = b2.duid /\ b1.iaid = b2.iaid) => b1 = b2
OneAddrPerIA == OnePerIA(Store)

(* As long as the server does not crash, what a REPLY promised a client stays *)
(* bound to it, for at least as long as the client relies on it, across       *)
(* renewals, expiry, ADVERTISEs, declines and planned restarts; but for a     *)
(* client that solicits for what it holds (ExistingLeaseSurvivesSolicit),     *)
(* which harms nobody else.                                                  *)
HeldLeaseIsBound ==
  crashes = 0 =>
    \A b \in DOMAIN held :
      b.duid \notin StaleClients /\ b.addr # FixedAddr[b.duid] =>
        b \in DOMAIN Store /\ held[b] <= Store[b]

(* The usage counter of a class is never below its number of leases (expired  *)
(* leases stay counted), so a class that is not full has a free address and   *)
(* the loops that draw addresses end; but for a class that has a reserved     *)
(* address in it, whose counter the undoing of an ADVERTISE lowers for nothing. *)
(* Such a class spoils no other, and the server hangs in one of them only.     *)
HasReserved(p) == \E a \in Addrs : PoolOf[a] = p /\ AddrReserved(a)
CountersCover ==
  pc # "down" =>
    \A p \in Pools : ~HasReserved(p) => Cardinality(LeasedIn(p, db)) <= assigned[p]
NeverHung ==
  pc = "hung" => \E p \in Pools : HasReserved(p) /\ NotFull(p) /\ FreeIn(p) = {}

(* client-max-lease is never exceeded, neither by the IAs of one message nor  *)
(* across messages and restarts.                                             *)
LeaseLimit ==
  \A c \in Clients : Cardinality({b \in DOMAIN Store : b.duid = c}) <= ClntMaxLease

(* The cache has one entry per client and never more than CacheMaxSize.      *)
CacheBounded ==
  /\ Len(cache) <= CacheMaxSize
  /\ \A i, j \in DOMAIN cache : cache[i].duid = cache[j].duid => i = j

(* A lease is always in a class that accepts its client, though the cached    *)
(* address and the random one in place of a hint are taken on other grounds.  *)
SupportedOnly ==
  \A b \in DOMAIN db : b.duid \in Clients => PoolOf[b.addr] \in Supported[b.duid]

(* While select() waits, the file on disk is the database: the handlers and    *)
(* removeExpired() write it, nothing else in the loop does, and a turn in      *)
(* which nothing expired writes nothing.                                     *)
DiskCurrent == pc = "select" => disk = [db |-> db, cache |-> cache]

(* A declined address stays with the dummy client until its quarantine ends.  *)
QuarantineHolds ==
  [][pc' # "down" =>
       \A b \in DOMAIN db : b.duid = DeclinedDUID /\ db[b] > 0 => b \in DOMAIN db']_vars

(* A crash that does not interrupt the writing of the file loses no promise   *)
(* but those to the client whose message is being handled: its REPLY was sent *)
(* and is not in the file yet, or the promise had been lost before and was    *)
(* just restored in memory.  (One that does may lose anybody's.)              *)
KeptBy(d, b) == b \in DOMAIN d /\ held[b] <= d[b]
CrashLosesOnlyInFlight ==
  [][pc' = "down" /\ pc # "down" /\ disk' = disk =>
       \A b \in DOMAIN held : KeptBy(db, b) /\ ~KeptBy(disk.db, b) => b.duid = msg.duid]_vars

(* The server implements a table of leases: an address changes hands only by  *)
(* being free in between, an IA has one address, the file is a past state of  *)
(* the table or, after a crash, a part of one, and what is promised to a      *)
(* client and known to the table is not taken back, by no step of a handler,  *)
(* expiry, a decline, a restart or the undoing of an ADVERTISE to anyone else; *)
(* the undoing of its own ADVERTISE may take it back, and a crash may lose     *)
(* what the file does not have.                                              *)
OwnerIn(d, a) ==
  IF \E b \in DOMAIN d : b.addr = a
  THEN LET b == CHOOSE b \in DOMAIN d : b.addr = a IN <<b.duid, b.iaid>>
  ELSE <<>>
Promised == {<<<<b.duid, b.iaid>>, b.addr>> : b \in {b \in DOMAIN held : KeptBy(Store, b)}}
Asking ==
  IF msg.type # "SOLICIT" THEN {}
  ELSE {<<msg.duid, msg.ias[k].iaid>> : k \in DOMAIN msg.ias}
         \cup {<<msg.duid, ans[k].iaid>> : k \in DOMAIN ans}
Table == INSTANCE LeaseTable
  WITH Owners <- Clients \X IAIDs, Free <- <<>>,
       Quarantined <- <<DeclinedDUID, DeclinedIAID>>, MaxEach <- 1,
       up <- pc # "down",
       table <- [a \in Addrs |-> OwnerIn(db, a)],
       saved <- [a \in Addrs |-> OwnerIn(disk.db, a)],
       promised <- Promised,
       asking <- Asking
ImplementsTable == Table!TableSpec

(* user-features "Address and prefix assignment policy": an existing lease    *)
(* is assigned again.  So a SOLICIT never takes away a lease that was there   *)
(* before it came.                                                           *)
ExistingLeaseSurvivesSolicit ==
  [][pc = "undo" => \A b \in DOMAIN disk.db : b \in DOMAIN db => b \in DOMAIN db']_vars

(* "class-max-lease: how many addresses can be assigned from that class".    *)
ClassMaxRespected ==
  \A p \in Pools : Cardinality(LeasedIn(p, db)) <= ClassMaxLease[p]

(* "instructs server to reserve this particular address for defined client". *)
ReservedExclusive ==
  \A b \in DOMAIN db : \A c \in Clients : FixedAddr[c] = b.addr => b.duid = c

(* "we are out of addresses, or we really don't like this client": a client   *)
(* below its limit gets no address only if every class that supports it has   *)
(* class-max-lease leases.                                                   *)
RefusedOnlyWhenFull ==
  [][HintsFailed /\ msg'.ias = Tail(msg.ias) /\ ans' = Append(ans, [iaid |-> Head(msg.ias).iaid, addr |-> NoAddr])
       => \A p \in Supported[msg.duid] : Cardinality(LeasedIn(p, db)) >= ClassMaxLease[p]]_vars

(* Expiry is acted upon: whenever leases have run out, a time comes when none *)
(* of them is in the database any more, unless it was renewed first.          *)
ExpiredLeaseGoes == (Expired # {}) ~> (Expired = {})

(* Every message is handled to its end. *)
HandlerEnds == (pc = "options") ~> (pc \in {"select", "down"})
=============================================================================
