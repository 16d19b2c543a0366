# A verification project for Dibbler

Dibbler is a DHCPv6 implementation in C++: a server that leases IPv6 addresses
and prefixes, a client that obtains and keeps them, a relay that forwards
messages between links, and a requestor that asks the server about leases.  This
directory holds TLA+ modules that model the program, TLC configurations that check
small instances of them, and TLAPS proofs that hold for every instance.
`PROJECT.json` maps each definition to the lines it models.  All paths below are
relative to the root of the repository.

## 1. Inventory

| Component | State | Operations | Talks to | Hard behaviour |
|---|---|---|---|---|
| Server lease engine (`SrvOptions/SrvOptIA_NA.cpp`, `SrvMessages/SrvMsgReply.cpp`, `SrvMsgAdvertise.cpp`) | none of its own: works on the two next rows | policy steps 3-8 of SOLICIT and REQUEST, RENEW, REBIND, RELEASE, DECLINE, CONFIRM | address manager, configuration | an ADVERTISE assigns and undoes; two books (database, counters) that must agree |
| Server address manager (`SrvAddrMgr/`, `AddrMgr/`) | clients with their IAs, TAs, PDs and leases; the cache of former leases; an XML file | add, delete, expire, look up, dump, load | | dump after the answer is on the wire, to a file that is truncated first; crash and restart |
| Server configuration (`SrvCfgMgr/`, `CfgMgr/`) | classes and their usage counters, prefix pools, reservations, FQDN pool | class choice, counting, recount at start | parser | unsigned counters, order of the checks |
| Server main loop (`Misc/DHCPServer.cpp`, `SrvTransMgr/`) | list of answers, shutdown flag | doDuties, select, relayMsg, shutdown | all of the above | answers kept and sent again by transaction id |
| Prefix delegation (`SrvOptions/SrvOptIA_PD.cpp`) | as the lease engine | solicit, request, renew, rebind, release | as above | several prefixes per IA, their own counters |
| Temporary addresses, FQDN, lease query (`SrvOptTA.cpp`, `SrvOptFQDN.cpp`, `SrvMsgLeaseQuery*.cpp`) | as above | assign, DNS update, report | DNS server | partial failure of an update |
| Client transactions (`ClntTransMgr/`) | running messages, list of ADVERTISEs, state of each IA | checkSolicit, checkConfirm, checkRenew, checkDecline, doDuties, relayMsg, shutdown | messages, address manager | several exchanges at a time, late and duplicate answers |
| Client messages (`ClntMessages/`) | RT, RC, MRC, MRD, time of the last transmission of each | send, retransmit, time out, answer | network | retransmission racing an answer, failover to the next server |
| Client address manager (`ClntAddrMgr/`, `AddrMgr/`) | IAs, TAs, PDs and leases, state per IA; an XML file | add, expire, load and confirm after restart | interface manager (kernel) | duplicate address detection, crash and restart |
| Relay (`RelTransMgr/`, `RelMessages/`) | none per message | wrap RELAY-FORW, unwrap RELAY-REPL | both sides | nesting, hop limit, interface-id |
| Requestor (`Requestor/`) | one query | send, wait, print | server | |
| Options and messages (`Options/`, `Messages/`) | | parse and build | | lengths |
| Interfaces, sockets (`IfaceMgr/`, `Port-*`), DNS update (`IfaceMgr/DNSUpdate.cpp`, `poslib/`), authentication (`Misc/KeyList.cpp`, `AuthMessages`) | sockets, keys | | kernel, DNS | |

The server is one thread that alternates `doDuties()` and `select()`; nothing
interleaves with a handler except a crash.  The client is built the same way.
The concurrency of the system is that of its processes: clients and servers that
crash and restart, messages that are lost, repeated or late, time that passes.

What makes each part correct, in one sentence each:

* lease engine: no two clients use an address at a time, what a REPLY promised is
  kept, limits and reservations are respected, refused only when full;
* address manager: an address is bound once, the file is the database whenever
  the server waits;
* configuration counters: never below the number of leases, so that drawing a
  free address ends;
* main loop: every message is handled to its end, every expired lease goes;
* client transactions: one exchange per IA, retransmissions end, every IA that
  lost its lease is asked for again;
* relay: what comes back goes where it came from.

## 2. The modules

| Module | Models | Run by | Proved about in |
|---|---|---|---|
| `LeaseTable` | abstract: what the server promises, a table of owners, its saved copy and the promises made | implemented by `SrvLease` and `SrvPD` | |
| `SrvLease` | the lease engine with database, cache, counters, disk, crash | `MCSrvLease` | `SrvLeaseProofs`, `SrvPromiseProofs` |
| `SrvPD` | prefix delegation: several prefixes per IA, their counter, ADVERTISE undo, expiry | `MCSrvPD` | `SrvPDProofs` |
| `ClntTrans` | the client: states of IAs, running messages with their timers, ADVERTISEs, confirm, renew, rebind, decline, crash, link changes | `MCClntTrans` | `ClntTransProofs`, `ClntExchangeProofs` |
| `LinkState` | the thread that watches the links and the main loop, at every access of the table they share | `MCLinkState` | `LinkStateProofs` |
| `Exchange` | clients and server composed over a network that loses, repeats, reorders and delays; the list of answers | `MCExchange` | `ExchangeProofs` |
| `Relay` | clients, nested relays and server composed; interface-ids, hop limit | `MCRelay` | `RelayProofs` |

The detailed modules keep the control of one component each; `Exchange` and `Relay` compose the
components over a network and keep of each what the others can see: of the lease engine only what a
message does to the table of leases, of the client the exchange under way and the lifetimes it counts.
`LeaseTable` is what joins the two levels: `SrvLease` and `SrvPD` are proved to take its steps only.

## 3. The lease engine: `SrvLease`

One interface, options IA_NA.  The state is that of the code:

| Variable | In the code |
|---|---|
| `pc` | where `TDHCPServer::run()` and the constructor of the answer are |
| `db` | `TAddrMgr::ClntsLst`, flattened to bindings (client, IA, address) with the ticks left of the valid lifetime; IAs and clients exist as long as they have a binding, as `delClntAddr()` sees to |
| `cache` | `TSrvAddrMgr::Cache` |
| `assigned` | `TSrvCfgAddrClass::AddrsAssigned_` per class, modulo `CounterMod` |
| `disk` | server-AddrMgr.xml and server-cache.xml, as they would be read back: after the last dump, or after one that a crash cut off |
| `msg`, `ans` | the message being handled with the IA options left, and the addresses put in its answer |
| `held` | what clients were told in REPLYs and still rely on; no state of the server, it is what the promises are about |

A message is handled in micro-steps: `Receive` (the first part of `relayMsg()`),
one step per IA option (`RenewBinding`, `AssignFixedLease`, `RefuseMaxLease`,
`AssignCachedAddr`, `AssignRequestedAddr`, `AssignRandomAddr`, `NoAddrsAvail` are the
outcomes of the constructor of `TSrvOptIA_NA`; `ReleaseAddr` and `DeclineAddr` take one
address each), for an ADVERTISE the undoing of every address it lists (`UndoAddr`),
and `Dump`.  Then the main loop: when something expired, `RemoveExpired` for each such binding and
`SaveExpired`, which dumps; when nothing did (`getValidTimeout()` is not 0), `NothingExpired`, which writes
nothing; and `select` again.  Nothing but a crash comes between.  `Tick` lets
time pass while the server waits or is down; lifetimes are in ticks and the handlers take
no time.  `DrawForever` is the loop `do getRandomAddr() while (!addrIsFree())`
entered when no address of the range is free.

A dump is one step as long as nothing interrupts it, since nobody else reads the files.  A crash may interrupt it:
`TAddrMgr::dump()` truncates the database and writes it client by client, and `cacheDump()` then does the same with the
cache.  `Torn` is what is read back after that: every client that was written to its end, some or none of
the leases of the one the file breaks off in, and the old cache; or all of the database and the first entries of the
cache.  `Crash` may leave any of these wherever a dump may be under way (`Writing`): after a message or a start, after the last
expired lease, and in `select()`, where a shutdown begins.  `Restart` reads the files, recounts, and goes on with
a dump, as the constructor of `TDHCPServer` does.

The environment cheats nobody: a client stops using what it releases or declines before it says so.
`StaleClients` are the clients that may SOLICIT for an IA they hold a lease for (they lost their own state).  Such
a client loses its lease by the undoing of its own ADVERTISE (the finding `SrvLeaseSolicit`); `HeldLeaseIsBound` says that
whoever is not one of them loses nothing, whatever these do.

### Runs

| Run | Shows | Instance |
|---|---|---|
| `SrvLease` | a client holds only what is bound to it, nothing is bound twice, cache size, file, quarantine; a crash between two dumps loses only promises to the client whose message is being handled; `ImplementsTable` | 2 clients, one of which solicits for what it holds, 1 IA each, 2 addresses, all message types, up to two crashes between any two steps or in the middle of a dump |
| `SrvLeasePools` | addresses only from classes that accept the client, one address per IA; expired leases go and every handler ends (`FairSpec`) | 2 classes, one closed to the second client, an address in no class, client-max-lease 2, both clients solicit for what they hold |
| `SrvLeaseReserved` | client-max-lease between the IAs of one message; the counter of a class covers its leases and drawing an address ends, but in a class that has a reserved address in it | messages with 2 IAs, client-max-lease 1, a class with the address reserved for client 1, a class without, one address each, a crash |
| `SrvLeaseSolicit` | the violation of a documented promise (section 9) | |

Two clients and two addresses are enough for every conflict the code
distinguishes (mine, another's, free, none left); lifetimes of two ticks let a lease be fresh,
about to end and expired; a quarantine of the same length lets it end before or
after a lease.  `MaxAssigned` stops messages once a counter has drifted that far,
`MaxCrashes` bounds crashes (two: the second may lose what was promised after the first, and may fall on the start that
reads what the first one cut off), `CounterMod` is small, so that the counter of the class with the reserved address wraps below zero.  Deadlock is checked in every run.  `HeldLeaseIsBound`
speaks of runs in which the server did not crash: what a crash may lose is the
subject of `CrashLosesOnlyInFlight`.  A promise that an earlier crash lost may be renewed by
the message being handled, and is then lost once more by a crash before the dump; so the property
names the client of that message, not its last REPLY.  It does not speak of a crash that interrupts a dump: that one loses whatever
was not written yet, of anybody (section 9), and what still holds after it, `UniqueBinding` and `ImplementsTable` say.  `CountersCover` and
`NeverHung` speak class by class: the wrapped counter of the class with the reserved address (the finding at `SrvOptIA_NA.cpp:314`) may hang the
server in that class, and must not do any harm to the other.  `ClassMaxRespected`, which states class-max-lease,
is violated within two steps (section 9); no run is spent on it.

A planned shutdown ends with one more turn of the main loop; its steps are those of any
turn, so `Shutdown` comes after them.

Fairness (`FairSpec`): the server thread goes on while it is inside a handler or
has something expired to remove (`select()` has that timeout), and a stopped server
is started again.  Nothing obliges clients to send or time to pass.

### What it implements: `LeaseTable`

`LeaseTable` knows nothing of messages, classes, caches or counters.  An address has one owner, is
free or is quarantined; a free one is granted to an owner that has none; what is promised to an owner
is not taken back, but from an owner that is `asking`, that is, whose own SOLICIT is being answered; a crash replaces the table by
its saved copy, or by a part of the table when it interrupts the saving (`PartOf`), and forgets only promises that are not in it.  `SrvLease!ImplementsTable` maps `table` to the owner of each address in `db`,
`saved` to the same on `disk`, `promised` to the leases clients hold, and `asking` to the IAs of the SOLICIT in hand; every micro-step of a
handler is then a step of the table or a stutter.  It says what no invariant of `SrvLease` says: an
address never goes from one client to another in one step, and the way it goes is the same
for assignment, ADVERTISE, decline, expiry and restart.  `MaxEach` is 1 there and the number of pools in `SrvPD`.

## 4. The client: `ClntTrans`

One interface with the IA_NAs 1 .. N.  The state is that of the code:

| Variable | In the code |
|---|---|
| `pc`, `pos` | the turn of `TDHCPClient::run()` and `TClntTransMgr::doDuties()`, and the cursor of a walk over a list |
| `cfg` | state of each IA in `ClntCfgMgr`: what `checkSolicit()` looks at |
| `ia` | `TAddrIA` in `ClntAddrMgr`: state, addresses, those whose duplicate detection is not over, ticks since the timestamp, ticks left, the `TDUID` object of its server |
| `trans` | `Transactions`; of a message its type, IAs, number of SERVERIDs, CLIENTID, RC, the time until its timeout, MRD |
| `advs` | length of `AdvertiseLst` |
| `disk` | client-AddrMgr.xml, as it would be read back |
| `declines`, `links`, `crashes` | counters that bound the faults |

The thread takes one step per message that is due (`Resend`, `TryServer`, `StartRebind`,
`ReleaseIA`, `EndDecline`, `AcceptUnheard`), then one per check (`Expire`, `CheckConfirm`,
`Decline`, `NoneTentative`, `CheckSolicit`, `CheckRenew`), then waits; an answer is handled by the
action of the message it answers, and the database is dumped after it.  `checkRequest()`
returns at its first line and is left out.  Servers are the environment:
they answer or not, now or later, every message whose SERVERID and CLIENTID are as
`TMsg::check()` wants them (`Answerable`).  Two assumptions make them honest: a status of
success comes with an address, and a server that extends a lease extends the one that is there
(`Extends`).  Left out: other identity associations (TA, PD), INFORMATION-REQUEST,
several interfaces, authentication, collisions of transaction ids.

A null pointer that the code uses ends the process (`Dies`): an IA of a CONFIRM without address
(`AddrsAccepted`) or a RENEW of an IA without a server (`CheckRenew`).

| Run | Shows | Instance |
|---|---|---|
| `ClntTrans` | whenever the client waits every IA has a lease or an exchange, and never two; RENEW and REBIND end at T2 and at the end of the lease; no address is dropped before its time | 2 IAs, rapid-commit, 2 ADVERTISEs, T1 = 1, T2 = 3, lease 5, RT 1 or 2; no faults |
| `ClntTransFaults` | no expired address is used; what is used is on disk; an undisturbed client asks again and again for an IA without a lease; CONFIRM ends | 1 IA, 2 addresses, a failed address detection, a link change, a crash at any step; `FairSpec` |

The constants are ratios, not seconds: T1 < T2 < lease, two retransmissions fit between T1 and
T2 and between T2 and the end.  T2 - T1 is at least N, since RENEWs are created
one per turn.  CNF_MAX_RD is shorter than the lease.  More transmissions than `RcCap` change
nothing.  `Partial` lets a server treat the IAs of one RENEW differently; it is off in
both runs, because such an answer makes the client forget an IA (section 9).

`LostIAAskedAgain` speaks of clients that neither crashed nor changed their link, and of one IA.
TLC shows why: with two IAs a REQUEST that no server accepts can use up, for ever, the ADVERTISEs that
belong to the SOLICIT of the other IA, since `AdvertiseLst` is shared and never cleared; after a restart
with little time left, or when a CONFIRM or REBIND ends together with a lease, the address expires
while the configuration says INPROCESS, and the IA is forgotten.

Fairness (`FairSpec`): the thread goes on (weak fairness of `Duties`), and time passes (strong
fairness of `Tick`, which is only possible while the thread waits).  Nothing obliges servers to answer.

## 5. Prefix delegation: `SrvPD`

One pd-class on one interface.  A prefix is the pool it is in, its number in the pool and the bits
behind the delegated length, since the server compares whole addresses and one of its paths sets those bits.

| Variable | In the code |
|---|---|
| `db` | the `TAddrPrefix` lists of all clients, with the ticks left |
| `assigned` | `TSrvCfgPD::PD_Assigned_` |
| `cache` | the prefix entry of each client in `TSrvAddrMgr::Cache` |
| `held` | what clients were told, with `fresh`: was it an assignment or a RENEW, which set a timestamp, and not the repetition of an existing lease? |
| `asking` | the IA whose SOLICIT is being answered |

One IA_PD option is one step; its outcomes are `FixedChoice`, `HintChoice`, `RandomChoice` and `NothingLeft`,
followed by `Register` (REQUEST), `UndoNew` (SOLICIT) or, with a binding, `GiveExisting` and `UndoExisting`.
A SOLICIT comes in a step of its own (`SolicitArrives`, then
`AnswerSolicit`), so that the table knows who put its prefixes at stake: the undoing of an ADVERTISE takes back every prefix it lists, those the IA
already held among them (`UndoExisting`), and the client that relies on them is not told (`Doubted`).  So a client that
solicits for what it holds loses it, here as in `SrvLease`.  `FreshPromiseKept` and `ImplementsTable` say that this is the only way to lose it, and that
no SOLICIT takes a prefix from any other IA.
Nothing else of the server interleaves with a handler.  What a crash between the answer and the dump, or in the middle of
the dump, loses is in `SrvLease` (prefixes are in the same file), so the server only restarts between messages.
The draw in place of a used hint has no limit of attempts in the code; it is a choice among the free prefixes of the first pool in
the model, and `HintDrawEnds` (proved) says that there always is one: whoever gets that far found the counter below the size of
the pool, and the counter covers the leases.  `RandomChoice` draws the same number
in every pool; `PartsDrawn` has the halved range of `TSrvCfgPD`.

| Run | Shows | Instance |
|---|---|---|
| `SrvPD` | a prefix is in two IAs only through its reservation; the counter covers the leases; a fresh promise is kept; the unreserved prefixes implement `LeaseTable` | 3 IAs of 2 clients, 2 pools of 2 prefixes, one of them reserved, no hint or one that is drawn for others, holders solicit, lifetime 1 |

With two prefixes per pool the half that is drawn from is one prefix, so every draw conflicts with every other; a
pool of four with two IAs gave nothing new.  `MaxAssigned` stops messages once the counter has
drifted that far from the database.

## 6. Client and server over a network: `Exchange`

| Variable | In the code |
|---|---|
| `db` | the leases of the server, as `LeaseTable` has them, with ticks left |
| `file`, `busy` | the same in server-AddrMgr.xml, and whether the thread has it still to write |
| `answers` | `TSrvTransMgr::MsgLst` |
| `net` | messages under way; each may arrive any number of times until it is older than `MaxDelay` |
| `trans`, `held`, `bound` | the client's exchange (type, transaction id, what it asks for, age), the ticks left it counts, and whether its IA is CONFIGURED |
| `lost` | history: leases, or renewals, that a kill of the server took and their client still counts on |

A REPLY is sent and kept while it is built; the file is written after it (`Dump`), also after messages that are not answered and after leases that
expired.  `RestartServer` is a kill at any moment and the start from the file: between the REPLY and the write the file has the state before it, and
a kill in the middle of the write leaves the leases of some clients only (`CutOff`).  The answers kept are gone.  What such
a kill takes from a client is in `lost` until the server grants it again, and is the one exception of `OverhangBounded`.

| Run | Shows | Instance |
|---|---|---|
| `Exchange` | `OverhangBounded`: a client counts on a lease no longer than the server, but for the age of an answer that was kept or under way; with clients that share transaction ids, releases that overtake answers, and a server that is killed before, in and after the write of its file; only what a kill took is counted on for longer | 2 clients, 1 address, 2 ids, lease 3, answers kept for 2 ticks, delay 1, patience 2 |
| `ExchangeFair` | `AskerIsServed`: a client without a lease gets one, though the server may answer with what it kept for another client, and may be killed any number of times | 2 clients, 2 addresses, one id for both, lease 1, patience 3 |

The overhang is tight: one tick less is violated (a REQUEST that is answered, repeated, answered from the list a tick later and heard a tick after that).  One address makes the clients compete; one id
makes every collision happen.  The ids are symmetric and so are the clients.

Fairness (`FairSpec`): the thread of the server comes to the end of its write, time passes (strong fairness of `Tick`, which waits for the
thread), a client that wants a lease asks, and of messages sent again and again
some are handled afresh and some answers are heard (strong fairness: the network may lose any message but not all
of them).  Nothing obliges clients to renew, release or forget.

## 7. Relays: `Relay`

A relay keeps nothing, so the state is in the messages: `chain` is the nesting, the outermost RELAY message first, with
hop count, peer address and interface-id of each level.  A relay looks its interfaces up three ways, and always
takes the first that fits: by the link a message came on (`OnLink`), by interface-id (`WithId`), and in guess-mode, when
a RELAY-REPL has no interface-id, as the first on another link (`OffLink`), whose own id is then looked up.  `Omits` are the
relays configured to leave the interface-id out; with `ServerOmits` the server, which has the same option, returns
none of the ids it got (`Echoed`), so that every relay must guess.  The server keeps the first answer for each client
in `kept`, together with the way its first copy came (`TSrvMsg::copyRelayInfo()`).

| Run | Shows | Instance |
|---|---|---|
| `Relay` | an answer reaches the client that asked, and no other with the same link-local address, and is made for its link; it never comes to a relay that cannot pass it on; a client is answered although messages are lost and a relay on the way is stopped | a tree of 3 relays, two on one link, one without interface-ids and in guess-mode; 2 clients with the same address; 2 losses |
| `RelayLoop` | `NestingBounded`: relays that send to each other nest at most one level more than the limit | 2 relays in guess-mode, a server that guesses and omits ids, limit 3 |

The configurations are those the user's guide calls correct: interface-ids are unique among the relays that
the server can tell apart, and every interface a relay listens to is known to the server.  HOP_COUNT_LIMIT is 32 in
the code; the actions compare with the limit only, so 2 and 3 show its every use.

Fairness (`FairSpec`): clients repeat their message until they have the answer, what is under way gets on if it
is not lost (losses are bounded), and the server forgets its answers after SERVER_REPLY_CACHE_TIMEOUT.

## 8. Link changes: `LinkState`

The one place where two threads of the program share data.  The table and the flag are `volatile`, so
each access is a step and the accesses of a thread keep their order; the model takes
them as sequentially consistent.  Only the thread takes the mutex, so it orders nothing and is left out.

| Variable | In the code |
|---|---|
| `cnt`, `ifindex` | `struct state` (`link_state_notify_t`) |
| `linkstateChange` | the flag `TDHCPClient::linkstateChange` |
| `mon`, `changed`, `at` | the thread: where it is in `link_state_changed()`, its argument, the index it read |
| `run`, `todo`, `ia`, `i`, `found` | the main loop: where it is in `run()`, `setIA2Confirm()` and `resetLinkstate()` |
| `state` | what `TAddrIA::getState()` says: CONFIGURED or INPROCESS (`INUSE`), CONFIRMME, or any other |
| `owed`, `excused` | history: who came back and is not marked yet; whose report met a full table or the main loop at it |

`run` LinkState (2 interfaces, 3 slots, so that the table fills while both still fit): no store is outside of the
table, although its count may change between test and use; a report that met neither a full table nor the
main loop at the table is not lost (`LostOnlyInRace`), and its IA is marked if it is in use and stays so (`EventuallyMarked`): `setIA2Confirm()` passes over an IA in
another state and its report is used up.  What else the client does to its IAs is left open: `DoDuties` and `Wake` may give each
any state but CONFIRMME.  The interfaces have one IA each.  Fairness: each of the two threads goes on; a link need not change.

## 9. Findings

Server:

* `SrvLeaseSolicit` (run): a SOLICIT of a client that has a lease ends with that lease
  deleted (`SrvMsgAdvertise.cpp:56`), though the user's guide says it is assigned again.
* The undoing decrements the counter of a class for a reserved address nobody
  counted; the server can then draw addresses for ever (`SrvOptIA_NA.cpp:314`).
* Expiry does not decrement the counter; a class fills up with leases that ended (`SrvTransMgr.cpp:427`).
* A dump truncates the only copy of the database and writes it client by client, after every message; a crash while it writes loses leases
  of clients that had nothing to do with the message (`AddrMgr.cpp:77`, `Torn`).
* A reserved address is handed to others by the random step (`SrvOptIA_NA.cpp:683`).
* class-max-lease is not compared for a free hint or a cached address (`ClassMaxRespected`).
* The prefix given instead of a used hint is not cut to the delegated length, so prefixes overlap
  (`SrvOptIA_PD.cpp:583`, `NoOverlap`); only half of a pool is drawn from (`SrvCfgPD.cpp:129`, `PartsDrawn`);
  an existing lease is answered with lifetimes the server does not keep (`SrvOptIA_PD.cpp:132`, `PromiseKept`).

Client:

* When a REQUEST is given up, the next one carries the SERVERIDs of both servers
  (`ClntMsgRequest.cpp:222`), and no server accepts it.
* A RENEW for several IAs lasts until the T2 of the first one, also when another is older (`ClntMsgRenew.cpp:62`); the comment
  there takes T2 to be the same for all.  Two IAs never differ so (this is proved), three do: TLC violates
  `ExchangeEndsInTime` with N = 3, T1 = 2, T2 = 5.
* A RENEW answered with a status other than NoBinding leaves the IA INPROCESS; its address
  expires and it is never asked for again (`ClntMsgRenew.cpp:125`).
* Accepting a CONFIRM of an IA that has no address yet uses a null pointer (`ClntMsgConfirm.cpp:116`).
* `getTimeout()` of CONFIRM is 0 (`ClntMsgConfirm.cpp:177`), so its transmissions follow each other
  at once and silence is acceptance before an answer can come.
* `resetLinkstate()` wipes out reports it has not looked at (`DHCPClient.cpp:150`), and the first filling of the
  table is not bounded (`DHCPClient.cpp:84`).

Relay:

* At the hop limit a message is logged as dropped, but the relay goes on with an object without addresses and ends
  (`RelMsgRelayForw.cpp:28`, `DieAtLimit`).
* The server writes a level of nesting before it compares their number (`SrvIfaceMgr.cpp:474`), and in guess-mode notes the interface
  one slot further, behind the table already at exactly HOP_COUNT_LIMIT levels (line 530; both in `Overrun`).
* Without an interface-id the length of the RELAY-MSG option leaves the echoed options out (`SrvMsg.cpp:435`).

## 10. Proofs

### `SrvLeaseProofs`

For every value of the constants that satisfies the assumptions of `SrvLease`
(names distinct, finitely many clients, IAIDs and addresses, lifetimes positive):

* `TypeCorrect`: the type invariant is inductive as it stands.  The lemmas go
  along the code: what each operator on the database, the cache and the counters
  returns, then `Answer` and `AssignAddr`, then one lemma per group of actions.
* `AddressesUnique` and `OneAddressPerIA`: inductive together with the type, for the database
  in memory and the one on disk (`GoodInv`).  Removing bindings keeps both; a binding is added
  only for an address that `addrIsFree()` accepted, to an IA that
  `renew()` found without one, or to the dummy client for an address just taken from its owner.
  Both databases are needed: a restart replaces one by the other.
* `QuarantineKept` rests on `FlowInv`: a handler works for a client, never for the dummy one, and a stopped server has nothing
  in memory.  `DiskCurrentInSelect` adds where file and memory may differ: in a handler and while expired leases are removed, and both
  end with a write; a turn of the loop that writes nothing is one that changed nothing since the last write.

* `LimitRespected`, `CacheKeptSmall` and `OnlySupportedClasses` (the properties `LeaseLimit`,
  `CacheBounded`, `SupportedOnly`) rest on `StepEffects`: what any one step may do to the database
  (`LeasesStep`), the cache (`CacheStep`) and the file (`DiskStep`). Each is inductive for memory and file together
  (`LimitInv`, `CacheInv`, `FitInv`).  An address from the cache fits its client because only a lease
  that is given back enters the cache, under the name of its own client (`FitInv` has the entries as well).

Least elements of sets of positions come from the library's fact that strict
inclusion of finite sets is well-founded.

### `SrvPromiseProofs`

These follow a message through its handler.  `Phases` says what a server between two messages has left of
the last one, and `OptionAnswered` what one IA option may come to: refused, answered from a reservation, renewed, or bound.

* `CountersKeepUp` (`CountersCover`) and `ServerNeverHangs` (`NeverHung`).  An ADVERTISE counts out every address it
  lists, so the counter covers the leases only if each was counted in: `Undoable` says that what a SOLICIT has
  listed so far is bound, each under an IA of its own.  Reservations may be anywhere: what an undoing counts out for nothing is a reserved
  address, so the argument goes class by class, for the classes without one (`Plain`), whatever the counters of the others have come to (the
  finding at `SrvOptIA_NA.cpp:314`).  `Countable` is what is left to assume: no message
  names an IA twice, and the messages stop before the counter wraps (`unsigned long` in the code).  A draw ends
  because a class that is not full has a free address: `RangeSized` is what `setOptions()` enforces.  In a class with a reserved address it may not
  end, and `NeverHung` says that the server hangs nowhere else.
* `CrashLosesLittle` (`CrashLosesOnlyInFlight`): `OwnInv` says whose leases there are.  When nothing is in hand
  file and memory agree; from `Receive` to `Dump` they differ in bindings of one client only (`InFlight`), or in ones nobody relies on.
  Crashes that leave a torn file are among the steps; the property speaks of a crash that does not, before or after such ones.
* `HeldLeasesStayBound` (`HeldLeaseIsBound`) is about the clients that do not solicit for an IA they hold (not in `StaleClients`, any set of
  clients, because of the finding `SrvLeaseSolicit`).  `HandlerInv` says what a message in hand can do to a lease they hold: a SOLICIT is about
  other IAs, a RELEASE or DECLINE is about a lease its client gave up when it sent it, and every address in a REPLY was
  renewed or bound a moment ago.
* `ServerImplementsTable` (`ImplementsTable`) has no hypothesis: `RInv` adds that the file has no promise that memory lacks, but for an IA that is
  asking (`FileKept`); a crash before the dump gives such an IA back what the undoing took.  Each action is mapped to a step of `LeaseTable` or a stutter; that the table's `Promise` takes only
  pairs of the table follows from `GoodInv`, which makes `OwnerIn` the owner.
* `HandlersEnd` is the safety core of `HandlerEnds` and `ExpiredLeaseGoes`: phases, items and addresses left, in that order,
  decrease with every step of the thread until it waits, hangs (which `ServerNeverHangs` excludes) or ends; the order is well-founded.
* `NobodySharesALease`: without a crash, no two IAs rely on one address, those of `StaleClients` aside.  It follows from
  `HeldLeasesStayBound` and `AddressesUnique`.

### `ClntTransProofs`

For every number of IAs, every set of addresses, all timer values and all bounds that
`ConstantsAssumption` allows (the caps on declines, link changes and crashes included, so for
any number of them):

* `TypeCorrect`: inductive as it stands.  The list of messages is handled once for any family of
  messages that is closed under sending and waiting (`Family`, `MessagesIn`); the other variables
  follow action by action (`RestStep`).  That a REPLY finds an object for its server's DUID is the
  pigeonhole principle: the IAs that keep theirs use fewer than `N`.
* `OnDisk` and `NoneExpired` (the properties `LeaseOnDisk` and `NoExpiredInUse`) rest on `Flow`:
  from `Expire` on until the client waits, the file holds every address of the database and no
  address is over.  Neither property is inductive alone.  The file drops an IA without a server, so
  every IA with an address must know its server; RENEW keeps that only because it is sent for such
  IAs and none loses its server meanwhile (the family `KnownMessages`); and a restart may not find
  old messages (`NoneUnderWay`).  Most steps are covered by one lemma: what only takes
  addresses away (`Shrinks`) preserves `Flow`.
* `TurnsEnd`: every step of `Duties` decreases the phase, or in it the number of messages that are due and ahead of the pass
  (or of addresses in detection).  A handler may remove the message at hand, so that the others move up, and append a new one;
  what was just sent is never due, CONFIRM aside, which the pass leaves behind (`OneFewerDue`, `RemovalWearsOff`).
  `LostIAAskedAgain` and `ConfirmEnds` need that; `Addrs` is finite here.

### `ClntExchangeProofs`

A client that is left in peace (`Calm`: no address in use elsewhere, no link change, no crash, and no server that treats the IAs of
one RENEW differently; the other runs and the findings show what each of these breaks).  For any number of IAs, any timers and
any answers, late, repeated or missing:

* `NoTwoExchanges` (`OneExchange`) from `Orderly`: messages have disjoint IAs (`Listed`), an IA in an exchange is asked for and holds
  no lease in peace (`InOrder`), and a client without a thread has nothing (`Resting`).
* `NoneForgotten` (`EveryIACared`) from `AllCared`: each IA is marked for `CheckSolicit`, in an exchange, or holds its lease.  That
  a lease never ends while it waits for its RENEW is the hard part: `CheckRenew` sends one RENEW per turn, so a lease may have to
  wait for others.  `Aging` bounds the wait: as many ticks as a lease is older than T1, so many other IAs are in an
  exchange or have been renewed since (`Passed`), so it is less than N.
  `Spaced` (N - 1 <= T1, T1 + N <= T2) gives this bound its room; without it a lease can still
  wait for its RENEW when T2 is reached (N = 2, T1 = 1, T2 = 2).
* `ValidLeasesKept` (`KeptWhileValid`) and `ExchangesEndInTime` (`ExchangeEndsInTime`) from `Punctual`: a message that waits has time
  left or is still to be come to in this turn (`Attended`); a REBIND has exactly the time its longest lease has (`RebindInTime`),
  a RENEW exactly the time up to T2 of one of its IAs (`RenewInTime`).  For up to two IAs this one stands for all, and the theorem
  has that hypothesis; for three it does not (section 9).

The run `ClntTrans` satisfies every hypothesis (N = 2, T1 = 1, T2 = 3).  None of the four parts of `Calm` can be dropped:
with one crash, one DECLINE, one link change or `Partial` in that instance, TLC finds `OneExchange`, `ExchangeEndsInTime` and
`KeptWhileValid` violated, and with all but the DECLINE `EveryIACared` as well.

### `SrvPDProofs`

For every pool, every set of clients and reservations, and every bound:

* `TypeCorrect` and `CounterCorrect` (`TypeOK`, `CountersCover`) need each other: the pool's counter
  is lowered with every prefix that goes, so it stays a number only because it covers the leases. `IInv` is
  both, and that the leases are finitely many, since the counter is compared with a cardinality.
* `NoOtherSharing` (`SharedOnlyIfReserved`): only `Register` adds a lease (`OnlyRegisterAdds`), and only
  of a prefix that is `Assignable`: free, or reserved for the client.
* `FreshPromisesKept` (`FreshPromiseKept`): a promise ends when its client is told something else or its
  time is over (`KeptWhenTold`), and leases nobody relies on may go (`KeptWhenUnheldGo`).  A SOLICIT of the IA itself ends it as well: what the
  undoing takes is fresh no more.
* `DrawForHintEnds` (`HintDrawEnds`), from `CountersCover`: fewer prefixes are leased than the first pool has, so one of that pool is in no lease.
  It needs a delegated length below 128 (`PDLengthAssumption`).
* `Implements`: SrvPD refines `LeaseTable`. `RInv` adds to `IInv` that the leases of an IA
  have the same time left, so that renewing one renews them all. Each action is mapped to Grant, Promise, Lapse,
  TakeBack, Ask, Answered or a stutter; the undoing of a held prefix is a TakeBack from the IA that is asking.

### `LinkStateProofs`

For any number of interfaces and slots: `TypeCorrect` (the thread stores inside the table although the count may
change between its test and its use) and `NothingElseLost` (`LostOnlyInRace`).  The inductive
invariant says where a report that nothing excuses is: the main loop is not at the table while it is made
(`NoRace`), the thread appends (`Appends`), it is in its slot before the flag is raised (`AlmostReported`), then it is in the
table with the flag up and the scan has yet to come to it (`Made`), and the table is cleared only when no
such report is in it (`ClearsSeen`).

### `ExchangeProofs`

For any clients, addresses, ids (shared or not) and all times: `TypeCorrect`, and `OverhangHasBound`
(`OverhangBounded`).  The property alone is not inductive: it is about leases, and what may break it are
answers.  `AnswersSent` bounds the age of a REPLY under way, which was kept for less than `CacheTime` before it was
sent; `AnswersKept` bounds one in the list, if its client still waits for it; fresh ids keep an old answer from becoming
one that is awaited.  The server takes a lease back on RELEASE only, and `ReleasedGone` says that whoever has a RELEASE
under way counts on nothing.  So the bound rests on a client that starts again only when its RELEASE is off
the network.  A kill of the server breaks the bound for what it took, and for nothing else: `Known` is the three bounds with the exception of
`lost`, a lease joins `lost` only by a kill (`Taken`), and leaves it only when the server grants it anew or nobody counts on it and no answer under
way promises it, so the bounds hold again by then.  `Saved` says that an idle server has the file equal to its table, and so a kill takes something only
while the thread has the file to write.

`SharingIsBrief` and `LeaseIsNotTaken` say what this means to clients.  An address has one owner, so of two clients that count on it
one has nothing left at the server, and is within the bound or has lost the lease to a kill; and a lease with time left ends only by a RELEASE whose sender
is `Gone`, or by a kill before it was written.  `Exchange` is not shown to implement `LeaseTable`: there a promise ends before its lease, here a client may outlive
its lease by the age of an answer, and that bound is the point of the module.

### `RelayProofs`

`NestingHasBound` (`NestingBounded`) for any network of relays, loops included, any configuration and any hop limit.  The invariant
counts the levels of a chain: the hop count of each is the number of levels inside it, and its peer is a relay except in the
innermost one, so that a RELAY-REPL that comes to a relay has a level to take off.  It holds of what is under way
and of the answers kept.

`RepliesGoOn` (`EveryReplyGoesOn`) and `AnswersReachAskers` (`OnlyForAsker`) are about a network that is `Answerable`: clients of one link have
different addresses, who is sent to listens there, and an interface-id names one link of a relay or the relay
can guess.  `WayInv` gives every message the way it went (`IsWay`, the places where relays heard it) with the chain that way
writes (`ChainOf`); it holds of the answers kept too, and a RELAY-REPL has the rest of such a way before it.  `Destination` then finds the
link of the way's next place, by id or by guess, and the peer of that level is on it.  Of what the server returns
only the ids may be missing (`Echoed`): the levels and peers are those of the way (`EchoOfWay`), and `FollowedBack` is a step back along it, with ids or without;
when `ServerOmits`, `Answerable` asks of every relay what it asks else of those that omit their ids.  `PoolInv` adds the pool: with
`ServerKnowsLinks`, an answer made for the relay interface that a chain leads to is for the link of its client, whichever copy
was answered.  TLC evaluates the hypotheses on the tree of the run (`TreeIsAnswerable` in `MCRelay`).

`TypeCorrect` (`TypeOK`) needs only that whoever is sent to listens there (`SendersReach`).  That the server answers for one of its
interfaces is a fact about all levels of a chain; `IfaceAt` is a function over the levels, and `LevelsExist` and `IfaceAtIs` do
the induction over them by the least level that would be wrong.  In the same way `IdsTellPath`: where all relays write ids and the
server does not guess, it finds the relay interface whose path is those ids, or none.
`TrafficEnds` is about any network: the rank of a copy (levels that can still be put on, or are still to be taken off) goes down with
every handling and is at most 2 * HopLimit + 4, so relays in a loop stop.

### Model-checked only

* Liveness and what rests on fairness: `ExpiredLeaseGoes`, `HandlerEnds`, `LostIAAskedAgain`, `ConfirmEnds`, `AskerIsServed`,
  `AskerIsAnswered`, `EventuallyMarked`.  What they rest on besides fairness is proved: the loops end (`HandlersEnd`, `TurnsEnd`,
  `TrafficEnds`), draws end (`ServerNeverHangs`), nothing is lost on the way (`NoneForgotten`, `NothingElseLost`).  That a
  fair step is enabled and brings the goal nearer needs ENABLED, which the provers do not have.
* What the findings show is outside of the theorems, by a hypothesis or in the statement: a client that solicits for what it holds, a class with a
  reserved address in it, a crash that interrupts a dump (for `CrashLosesLittle`), a lease that a kill took (for `Exchange`), RENEWs with
  mixed results, three IAs of different age.

## 11. Not modelled

* Parsing and printing of options, configuration and XML; sockets and interfaces; DNS messages;
  cryptography.  They are input and output around the logic above; what they deliver is the alphabet of the models.
* Temporary addresses: answered, but never registered, so there is no state.  FQDN: its state is in an external DNS server.
  Lease query and the requestor: one question, one answer, read only.
* INFORMATION-REQUEST and CONFIRM on the server change no state; prefix delegation and temporary addresses on the
  client run through the same transactions as IA_NA with the same states.
* Several server interfaces; they share only the client limit.

Most of the repository's lines are no logic of the program: the lexers and parsers of the four configuration files are
generated, `bison++/` is the generator itself, `poslib/` is an external DNS library, and `Port-win32/`, `Port-bsd/` and
`Port-linux/` wrap system calls.  The modules cover what decides, promises and waits.
