------------------------------ MODULE Exchange ------------------------------
(***************************************************************************)
(* Clients and one server over a network that loses, repeats, reorders and   *)
(* delays messages.  Of the client it has the exchange under way and the      *)
(* lifetimes it counts (ClntTransMgr, ClntMsg), of the server  the list of     *)
(* answers that are kept for a while and sent again to whatever message has   *)
(* the transaction id of one of them (SrvTransMgr), and of the lease engine   *)
(* only what a message does to the table of leases (SrvLease, LeaseTable) and  *)
(* to the file it is written to.  The REPLY is sent while it is built, the     *)
(* file is written after it: a server that is killed in between, or in the     *)
(* middle of the write, starts again without what it has promised.            *)
(*                                                                         *)
(* Time is discrete.  A message in `net' may be delivered any number of        *)
(* times, in any order, or never, until it is older than MaxDelay.            *)
(***************************************************************************)
EXTENDS Integers, Sequences, FiniteSets, FiniteSetsExt

CONSTANTS
  Clients, Nobody,
  Addrs,
  Xids,         \* transaction ids
  Valid,        \* valid lifetime, in ticks
  RenewAt,      \* ticks left when RENEW may start (T1)
  RebindAt,     \* ticks left when REBIND replaces it (T2)
  CacheTime,    \* SERVER_REPLY_CACHE_TIMEOUT
  MaxDelay,     \* age at which the network has lost a message
  Patience,     \* ticks a client sends a REQUEST before it gives up
  Collisions    \* may two clients draw the same transaction id?

ASSUME NobodyAssumption == Nobody \notin Clients
ASSUME TimesAssumption ==
  /\ Valid \in Nat /\ RenewAt \in 1 .. Valid /\ RebindAt \in 1 .. RenewAt
  /\ CacheTime \in Nat \ {0} /\ MaxDelay \in Nat /\ Patience \in Nat \ {0}
  /\ Collisions \in BOOLEAN

ToServer == {"REQUEST", "RENEW", "REBIND", "RELEASE"}
Messages(types, n) ==
  [type : types, clnt : Clients, xid : Xids, addrs : SUBSET Addrs, age : 0 .. n]

VARIABLES
  db,       \* address -> its owner and the ticks left, as the server counts
  file,     \* the same, as server-AddrMgr.xml has it
  busy,     \* has the thread of the server the file still to write?
  answers,  \* TSrvTransMgr::MsgLst: the REPLYs kept, with their age
  net,      \* the messages under way
  trans,    \* client -> the exchange under way
  held,     \* client -> address -> ticks left, as the client counts
  bound,    \* client -> is its IA configured?
  lost      \* <<client, address>>: a kill of the server took it (history)

clntVars == <<trans, held, bound>>
srvVars == <<db, file, busy, answers>>
sysVars == <<srvVars, net, clntVars>>
vars == <<sysVars, lost>>

Unleased == [owner |-> Nobody, left |-> 0]
NoTrans == [type |-> "NONE", age |-> 0]
Msg(t, c, x, as) == [type |-> t, clnt |-> c, xid |-> x, addrs |-> as, age |-> 0]

Init ==
  /\ db = [a \in Addrs |-> Unleased] /\ file = db /\ busy = FALSE /\ lost = {}
  /\ answers = <<>> /\ net = {}
  /\ trans = [c \in Clients |-> NoTrans]
  /\ held = [c \in Clients |-> [a \in Addrs |-> 0]]
  /\ bound = [c \in Clients |-> FALSE]

-----------------------------------------------------------------------------
(* Clients *)

Running(c) == trans[c] # NoTrans
HeldBy(c) == {a \in Addrs : held[c][a] > 0}
LeftOf(c) == Max({0} \cup {held[c][a] : a \in Addrs})

(* A REPLY to an exchange that is over is ignored: it leaves the network.     *)
Wanted(S, tr) ==
  {m \in S : m.type = "REPLY" => tr[m.clnt] # NoTrans /\ tr[m.clnt].xid = m.xid}

(* An id is drawn at random.  A client does not draw one of its own again      *)
(* while copies of its message or of the answer exist; two clients may.       *)
IdsOf(c) ==
  {m.xid : m \in {m \in net : m.clnt = c}}
  \cup {answers[k].xid : k \in {k \in DOMAIN answers : answers[k].clnt = c}}
  \cup (IF Running(c) THEN {trans[c].xid} ELSE {})
Fresh(c) ==
  Xids \ (IF Collisions THEN IdsOf(c) ELSE UNION {IdsOf(d) : d \in Clients})

Begin(c, t, as) ==
  \E x \in Fresh(c) :
    /\ trans' = [trans EXCEPT ![c] = [type |-> t, xid |-> x, addrs |-> as, age |-> 0]]
    /\ net' = Wanted(net \cup {Msg(t, c, x, as)}, trans')

(* REQUEST, or SOLICIT with rapid-commit.  A client that released its lease    *)
(* is started again only when no copy of that RELEASE is on its way.          *)
Ask(c) ==
  /\ ~Running(c) /\ ~bound[c]
  /\ ~\E m \in net : m.type = "RELEASE" /\ m.clnt = c
  /\ Begin(c, "REQUEST", {})
  /\ UNCHANGED <<srvVars, held, bound>>

GiveUp(c) ==
  /\ trans[c].type = "REQUEST" /\ trans[c].age = Patience
  /\ trans' = [trans EXCEPT ![c] = NoTrans]
  /\ net' = Wanted(net, trans')
  /\ UNCHANGED <<srvVars, held, bound>>

Renew(c) ==
  /\ ~Running(c) /\ bound[c] /\ LeftOf(c) \in 1 .. RenewAt
  /\ Begin(c, "RENEW", HeldBy(c))
  /\ UNCHANGED <<srvVars, held, bound>>

Rebind(c) ==
  /\ trans[c].type = "RENEW" /\ LeftOf(c) \in 1 .. RebindAt
  /\ Begin(c, "REBIND", HeldBy(c))
  /\ UNCHANGED <<srvVars, held, bound>>

(* The client ends: one RELEASE, not repeated.                               *)
Release(c) ==
  /\ bound[c] /\ HeldBy(c) # {}
  /\ trans' = [trans EXCEPT ![c] = NoTrans]
  /\ \E x \in Fresh(c) : net' = Wanted(net \cup {Msg("RELEASE", c, x, HeldBy(c))}, trans')
  /\ held' = [held EXCEPT ![c] = [a \in Addrs |-> 0]]
  /\ bound' = [bound EXCEPT ![c] = FALSE]
  /\ UNCHANGED srvVars

(* A client ends otherwise and knows nothing when it starts again.           *)
Forget(c) ==
  /\ bound[c]
  /\ trans' = [trans EXCEPT ![c] = NoTrans]
  /\ held' = [held EXCEPT ![c] = [a \in Addrs |-> 0]]
  /\ bound' = [bound EXCEPT ![c] = FALSE]
  /\ net' = Wanted(net, trans')
  /\ UNCHANGED srvVars

(* A REPLY belongs to the exchange whose id it has; one without an address     *)
(* leaves the client what it had and makes it ask again.                      *)
Accept(m) ==
  /\ m.type = "REPLY" /\ Running(m.clnt) /\ trans[m.clnt].xid = m.xid
  /\ held' = [held EXCEPT ![m.clnt] =
                [a \in Addrs |-> IF a \in m.addrs THEN Valid ELSE @[a]]]
  /\ bound' = [bound EXCEPT ![m.clnt] = m.addrs # {}]
  /\ trans' = [trans EXCEPT ![m.clnt] = NoTrans]
  /\ net' = Wanted(net, trans')
  /\ UNCHANGED srvVars

-----------------------------------------------------------------------------
(* The server *)

FreeAddrs == {a \in Addrs : db[a].owner = Nobody}
AddrsOf(c) == {a \in Addrs : db[a].owner = c}

(* The positions of the answers kept that have the id of the message.         *)
Kept(m) == {k \in DOMAIN answers : m.type # "RELEASE" /\ answers[k].xid = m.xid}

(* The first of them, to the client that got it before.  Nothing is written.  *)
AnswerAgain(m) ==
  /\ ~busy /\ m.type \in ToServer
  /\ \E k \in Kept(m) :
       /\ \A j \in Kept(m) : k <= j
       /\ net' = Wanted(net \cup {[answers[k] EXCEPT !.age = 0]}, trans)
  /\ UNCHANGED <<srvVars, clntVars>>

Arrived(m, types) == ~busy /\ m.type \in types /\ Kept(m) = {}

Reply(m, as) ==
  LET r == Msg("REPLY", m.clnt, m.xid, as) IN
    /\ net' = Wanted(net \cup {r}, trans) /\ answers' = Append(answers, r)
    /\ busy' = TRUE

Extend(m) ==
  /\ Arrived(m, {"REQUEST", "RENEW", "REBIND"}) /\ AddrsOf(m.clnt) # {}
  /\ db' = [a \in Addrs |-> IF a \in AddrsOf(m.clnt) THEN [db[a] EXCEPT !.left = Valid] ELSE db[a]]
  /\ Reply(m, AddrsOf(m.clnt))
  /\ UNCHANGED <<file, clntVars>>

Assign(m) ==
  /\ Arrived(m, {"REQUEST"}) /\ AddrsOf(m.clnt) = {}
  /\ \E a \in FreeAddrs :
       /\ db' = [db EXCEPT ![a] = [owner |-> m.clnt, left |-> Valid]]
       /\ Reply(m, {a})
  /\ UNCHANGED <<file, clntVars>>

Refuse(m) ==
  /\ \/ Arrived(m, {"REQUEST"}) /\ AddrsOf(m.clnt) = {} /\ FreeAddrs = {}
     \/ Arrived(m, {"RENEW"}) /\ AddrsOf(m.clnt) = {}
  /\ Reply(m, {})
  /\ UNCHANGED <<db, file, clntVars>>

(* RELEASE or REBIND of a client that has no lease is not answered, but the     *)
(* file is written all the same.                                             *)
Ignore(m) ==
  /\ Arrived(m, {"RELEASE", "REBIND"}) /\ AddrsOf(m.clnt) = {}
  /\ busy' = TRUE
  /\ UNCHANGED <<db, file, answers, net, clntVars>>

EndAnyLease(m) ==  \* mutant: whoever has the address
  /\ Arrived(m, {"RELEASE"})
  /\ db' = [a \in Addrs |-> IF a \in m.addrs THEN Unleased ELSE db[a]]
  /\ Reply(m, {})
  /\ UNCHANGED <<file, clntVars>>
EndLease(m) ==
  /\ Arrived(m, {"RELEASE"}) /\ AddrsOf(m.clnt) # {}
  /\ db' = [a \in Addrs |-> IF a \in m.addrs \cap AddrsOf(m.clnt) THEN Unleased ELSE db[a]]
  /\ Reply(m, {})
  /\ UNCHANGED <<file, clntVars>>

Dump ==
  /\ busy
  /\ file' = db /\ busy' = FALSE
  /\ UNCHANGED <<db, answers, net, clntVars>>

(* What a file has that is cut off in the middle: the clients written so far.  *)
CutOff(cs) == [a \in Addrs |-> IF db[a].owner \in cs THEN db[a] ELSE Unleased]

(* What the server has left of the lease of a client. *)
ServerLeft(c, a) == IF db[a].owner = c THEN db[a].left ELSE 0

(* The server is killed and started again from its file.  A file that is being  *)
(* written was emptied first and is written client by client.  Of the answers   *)
(* nothing is left, and the start writes the file, too.                        *)
RestartServer ==
  /\ \/ db' = file
     \/ busy /\ \E cs \in SUBSET Clients : db' = CutOff(cs)
  /\ file' = db' /\ busy' = TRUE /\ answers' = <<>>
  /\ UNCHANGED <<net, clntVars>>

-----------------------------------------------------------------------------
(* The network and time *)

Older(m) == [m EXCEPT !.age = @ + 1]

(* doDuties() drops the answers that are too old, the first ones of the list.  *)
AgedAnswersKept ==  \* mutant: never dropped
  answers' = [k \in DOMAIN answers |->
                IF answers[k].age = CacheTime - 1 THEN answers[k] ELSE Older(answers[k])]
AgedAnswers ==
  \E n \in 0 .. Len(answers) :
    /\ \A k \in DOMAIN answers : k <= n <=> answers[k].age + 1 >= CacheTime
    /\ answers' = [k \in 1 .. Len(answers) - n |-> Older(answers[k + n])]

LeaseAgedBelowZero(l) == [l EXCEPT !.left = @ - 1]  \* mutant
LeaseAged(l) == IF l.left <= 1 THEN Unleased ELSE [l EXCEPT !.left = @ - 1]

(* With its last address a client loses the exchange that was to extend it.   *)
Ends(c) == bound[c] /\ LeftOf(c) <= 1
Outlived(c) == Ends(c) /\ Running(c)

(* Everybody ages by one tick, and every client that waits for an answer       *)
(* sends its message again.  The file has the time each lease was given: it    *)
(* ages, too.  The server writes it when it has removed leases.  A handler of   *)
(* the server is over before the next tick.                                  *)
Again(c) == Msg(trans[c].type, c, trans[c].xid, trans[c].addrs)
Tick ==
  /\ ~busy
  /\ \A c \in Clients : trans[c].type = "REQUEST" => trans[c].age < Patience
  /\ db' = [a \in Addrs |-> LeaseAged(db[a])]
  /\ file' = [a \in Addrs |-> LeaseAged(file[a])]
  /\ busy' = (\E a \in Addrs \ FreeAddrs : db[a].left <= 1)
  /\ AgedAnswers
  /\ held' = [c \in Clients |-> [a \in Addrs |-> Max({0, held[c][a] - 1})]]
  /\ bound' = [c \in Clients |-> bound[c] /\ ~Ends(c)]
  /\ trans' = [c \in Clients |->
       IF Outlived(c) THEN NoTrans
       ELSE IF trans[c].type = "REQUEST" THEN [trans[c] EXCEPT !.age = @ + 1] ELSE trans[c]]
  /\ net' = Wanted({Older(m) : m \in {m \in net : m.age < MaxDelay}}
                    \cup {Again(c) : c \in {c \in Clients : Running(c) /\ ~Outlived(c)}}, trans')

-----------------------------------------------------------------------------
Client(c) == Ask(c) \/ GiveUp(c) \/ Renew(c) \/ Rebind(c) \/ Release(c) \/ Forget(c)
Serve(m) == AnswerAgain(m) \/ Extend(m) \/ Assign(m) \/ Refuse(m) \/ EndLease(m) \/ Ignore(m)

(* A lease, or the renewal of one, that a kill takes is lost as long as its     *)
(* client counts on it, or will with an answer under way, and has no new one.  *)
Taken == {p \in Clients \X Addrs : ServerLeft(p[1], p[2])' < ServerLeft(p[1], p[2])}
Counted(c, a) ==
  held[c][a] > 0 \/ \E m \in net : m.type = "REPLY" /\ m.clnt = c /\ a \in m.addrs
StillLost(ps) == {p \in ps : ServerLeft(p[1], p[2])' < Valid /\ Counted(p[1], p[2])'}

Step ==
  \/ \E c \in Clients : Client(c)
  \/ \E m \in net : Accept(m) \/ Serve(m)
  \/ Dump \/ Tick

Next ==
  \/ Step /\ lost' = StillLost(lost)
  \/ RestartServer /\ lost' = StillLost(lost \cup Taken)

Spec == Init /\ [][Next]_vars

(* The thread of the server goes on until it waits for the next message.  A     *)
(* client without a lease keeps asking, time passes, and of messages sent      *)
(* again and again some arrive: a REQUEST whose sender still waits to be       *)
(* handled afresh, and some of the answers.                                   *)
ServedAfresh(c) ==
  \E m \in net : /\ m.type = "REQUEST" /\ m.clnt = c
                 /\ trans[c].type = "REQUEST" /\ trans[c].xid = m.xid
                 /\ Extend(m) \/ Assign(m) \/ Refuse(m)
Heard(c) == \E m \in net : m.clnt = c /\ Accept(m)
FairSpec ==
  /\ Spec /\ SF_sysVars(Tick) /\ WF_sysVars(Dump)
  /\ \A c \in Clients :
       WF_sysVars(Ask(c)) /\ WF_sysVars(GiveUp(c)) /\ SF_sysVars(ServedAfresh(c)) /\ SF_sysVars(Heard(c))

-----------------------------------------------------------------------------
Lease == [owner : Clients \cup {Nobody}, left : 0 .. Valid]
Sent == Messages(ToServer \cup {"REPLY"}, MaxDelay)
Stored == Messages({"REPLY"}, CacheTime - 1)
Trans ==
  [type : {"REQUEST", "RENEW", "REBIND"}, xid : Xids, addrs : SUBSET Addrs, age : 0 .. Patience]

(* Every variable has its type. *)
TypeOK ==
  /\ db \in [Addrs -> Lease] /\ file \in [Addrs -> Lease]
  /\ busy \in BOOLEAN /\ lost \in SUBSET (Clients \X Addrs)
  /\ answers \in Seq(Stored)
  /\ net \in SUBSET Sent
  /\ trans \in [Clients -> {NoTrans} \cup Trans]
  /\ held \in [Clients -> [Addrs -> 0 .. Valid]]
  /\ bound \in [Clients -> BOOLEAN]

(* A REPLY that was kept, or was long under way, gives its lifetimes from the  *)
(* time it arrives: the client counts on more than the server has, but never   *)
(* by more than the time the server keeps an answer and the network a message. *)
(* Only a lease that a kill took, between the answer and the end of the write, *)
(* is counted on beyond that, until the server grants it again.               *)
Overhang == CacheTime - 1 + MaxDelay
OverhangBounded ==
  \A c \in Clients, a \in Addrs :
    <<c, a>> \notin lost => held[c][a] <= ServerLeft(c, a) + Overhang

(* A client that wants a lease gets an answer to it, whatever is lost, and     *)
(* though its id may be one the server keeps the answer of another client for. *)
AskerIsServed == \A c \in Clients : ~bound[c] ~> bound[c]
=============================================================================
