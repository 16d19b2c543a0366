--------------------------- MODULE ExchangeProofs ---------------------------
(***************************************************************************)
(* Proofs about Exchange, for any number of clients, addresses and           *)
(* transaction ids and for all times: the types, and the bound on how much     *)
(* longer than the server a client counts on a lease.                        *)
(***************************************************************************)
EXTENDS Exchange, SequenceTheorems, TLAPS

-----------------------------------------------------------------------------
(* Messages *)

(* The times are numbers, and no time at all is one of each range. *)
LEMMA Times ==
  /\ Valid \in Nat /\ CacheTime \in Nat /\ CacheTime > 0 /\ MaxDelay \in Nat /\ Patience \in Nat
  /\ 0 \in 0 .. MaxDelay /\ 0 \in 0 .. CacheTime - 1 /\ 0 \in 0 .. Patience
  /\ 0 \in 0 .. Valid /\ Valid \in 0 .. Valid
  BY TimesAssumption

(* A message just written is one the network may have. *)
LEMMA MsgType ==
  ASSUME NEW t \in ToServer \cup {"REPLY"}, NEW c \in Clients, NEW x \in Xids, NEW as \in SUBSET Addrs
  PROVE  Msg(t, c, x, as) \in Sent /\ (t = "REPLY" => Msg(t, c, x, as) \in Stored)
  BY Times DEF Msg, Messages, Sent, Stored

(* What a message has; and what one has that ages or is sent again. *)
LEMMA SentFacts ==
  ASSUME NEW m \in Sent
  PROVE  /\ m.type \in ToServer \cup {"REPLY"} /\ m.clnt \in Clients /\ m.xid \in Xids
         /\ m.addrs \in SUBSET Addrs /\ m.age \in Nat /\ m.age <= MaxDelay
  BY Times DEF Messages, Sent

LEMMA StoredFacts ==
  ASSUME NEW r \in Stored
  PROVE  /\ r.type = "REPLY" /\ r.clnt \in Clients /\ r.xid \in Xids
         /\ r.addrs \in SUBSET Addrs /\ r.age \in Nat /\ r.age <= CacheTime - 1
  BY Times DEF Messages, Stored

LEMMA OlderSent ==
  ASSUME NEW m \in Sent, m.age < MaxDelay
  PROVE  /\ Older(m) \in Sent /\ Older(m).type = m.type /\ Older(m).clnt = m.clnt
         /\ Older(m).xid = m.xid /\ Older(m).addrs = m.addrs /\ Older(m).age = m.age + 1
<1>1. m.age + 1 \in 0 .. MaxDelay
  BY Times, SentFacts
<1>2. QED
  BY <1>1 DEF Messages, Sent, Older

LEMMA OlderStored ==
  ASSUME NEW r \in Stored, r.age + 1 < CacheTime
  PROVE  /\ Older(r) \in Stored /\ Older(r).clnt = r.clnt
         /\ Older(r).xid = r.xid /\ Older(r).addrs = r.addrs /\ Older(r).age = r.age + 1
<1>1. r.age + 1 \in 0 .. CacheTime - 1
  BY Times, StoredFacts
<1>2. QED
  BY <1>1 DEF Messages, Stored, Older

LEMMA SentAgain ==
  ASSUME NEW r \in Stored
  PROVE  LET m == [r EXCEPT !.age = 0] IN
           m \in Sent /\ m.type = "REPLY" /\ m.clnt = r.clnt /\ m.xid = r.xid /\ m.addrs = r.addrs /\ m.age = 0
  BY Times DEF Messages, Stored, Sent

(* The ids a client may draw are ids, and none of those of its own messages. *)
LEMMA FreshFacts ==
  ASSUME NEW c \in Clients, NEW x \in Fresh(c)
  PROVE  /\ x \in Xids
         /\ \A m \in net : m.clnt = c => m.xid # x
         /\ \A k \in DOMAIN answers : answers[k].clnt = c => answers[k].xid # x
<1>1. x \in Xids /\ x \notin IdsOf(c)
  BY DEF Fresh
<1>2. QED
  BY <1>1 DEF IdsOf

(* What is wanted is part of what there is. *)
LEMMA WantedFacts ==
  ASSUME NEW S, NEW tr
  PROVE  /\ Wanted(S, tr) \subseteq S
         /\ \A m \in Wanted(S, tr) : m.type = "REPLY" => tr[m.clnt] # NoTrans /\ tr[m.clnt].xid = m.xid
  BY DEF Wanted

(* No exchange is mistaken for none: it has an id. *)
LEMMA TransIsSome == \A t \in Trans : t # NoTrans
  BY DEF Trans, NoTrans

-----------------------------------------------------------------------------
(* Types: of the history variable apart from the others *)

SysType ==
  /\ db \in [Addrs -> Lease] /\ file \in [Addrs -> Lease] /\ busy \in BOOLEAN
  /\ answers \in Seq(Stored)
  /\ net \in SUBSET Sent
  /\ trans \in [Clients -> {NoTrans} \cup Trans]
  /\ held \in [Clients -> [Addrs -> 0 .. Valid]]
  /\ bound \in [Clients -> BOOLEAN]

LEMMA InitType == Init => TypeOK /\ SysType
<1> SUFFICES ASSUME Init PROVE TypeOK /\ SysType
  OBVIOUS
<1>1. answers \in Seq(Stored)
  BY DEF Init
<1>2. db \in [Addrs -> Lease]
  BY Times DEF Init, Unleased, Lease
<1>3. held \in [Clients -> [Addrs -> 0 .. Valid]]
  BY Times DEF Init
<1>4. QED
  BY <1>1, <1>2, <1>3 DEF Init, TypeOK, SysType, Lease

(* What the network has with one message more. *)
LEMMA OneMoreType ==
  ASSUME SysType, NEW m \in Sent, NEW tr
  PROVE  Wanted(net \cup {m}, tr) \in SUBSET Sent
<1>1. net \cup {m} \subseteq Sent
  BY DEF SysType
<1>2. QED
  BY <1>1 DEF Wanted

(* A client that begins an exchange. *)
LEMMA BeginType ==
  ASSUME SysType, NEW c \in Clients, NEW t \in {"REQUEST", "RENEW", "REBIND"},
         NEW as \in SUBSET Addrs, Begin(c, t, as), UNCHANGED <<srvVars, held, bound>>
  PROVE  SysType'
<1>1. PICK x \in Fresh(c) :
        /\ trans' = [trans EXCEPT ![c] = [type |-> t, xid |-> x, addrs |-> as, age |-> 0]]
        /\ net' = Wanted(net \cup {Msg(t, c, x, as)}, trans')
  BY DEF Begin
<1>2. x \in Xids
  BY FreshFacts
<1>3. [type |-> t, xid |-> x, addrs |-> as, age |-> 0] \in Trans
  BY <1>2, Times DEF Trans
<1>4. trans' \in [Clients -> {NoTrans} \cup Trans]
  BY <1>1, <1>3 DEF SysType, Trans
<1>5. Msg(t, c, x, as) \in Sent
  BY <1>2, MsgType DEF ToServer
<1>6. net' \in SUBSET Sent
  BY <1>1, <1>5, OneMoreType
<1>7. QED
  BY <1>4, <1>6 DEF SysType, srvVars

(* A client that ends its exchange. *)
LEMMA EndType ==
  ASSUME SysType, NEW c \in Clients, trans' = [trans EXCEPT ![c] = NoTrans],
         net' \in SUBSET Sent,
         held' \in [Clients -> [Addrs -> 0 .. Valid]], bound' \in [Clients -> BOOLEAN],
         UNCHANGED srvVars
  PROVE  SysType'
  BY DEF SysType, srvVars

(* What the network has without what nobody wants. *)
LEMMA FewerType ==
  ASSUME SysType, NEW tr, NEW S \in SUBSET net
  PROVE  Wanted(S, tr) \in SUBSET Sent
  BY WantedFacts DEF SysType

LEMMA ClientType ==
  ASSUME SysType, NEW c \in Clients, Client(c)
  PROVE  SysType'
<1>1. HeldBy(c) \in SUBSET Addrs /\ {} \in SUBSET Addrs
  BY DEF HeldBy
<1>2. CASE Ask(c)
  BY <1>1, <1>2, BeginType DEF Ask
<1>3. CASE GiveUp(c)
  <2>1. net' \in SUBSET Sent
    BY <1>3, FewerType DEF GiveUp
  <2>2. QED
    BY <1>3, <2>1, EndType DEF GiveUp, SysType
<1>4. CASE Renew(c)
  BY <1>1, <1>4, BeginType DEF Renew
<1>5. CASE Rebind(c)
  BY <1>1, <1>5, BeginType DEF Rebind
<1>6. held' = [held EXCEPT ![c] = [a \in Addrs |-> 0]] => held' \in [Clients -> [Addrs -> 0 .. Valid]]
  BY Times DEF SysType
<1>7. CASE Release(c)
  <2>1. PICK x \in Fresh(c) : net' = Wanted(net \cup {Msg("RELEASE", c, x, HeldBy(c))}, trans')
    BY <1>7 DEF Release
  <2>2. Msg("RELEASE", c, x, HeldBy(c)) \in Sent
    BY <1>1, FreshFacts, MsgType DEF ToServer
  <2>3. net' \in SUBSET Sent
    BY <2>1, <2>2, OneMoreType
  <2>4. bound' \in [Clients -> BOOLEAN]
    BY <1>7 DEF Release, SysType
  <2>5. QED
    BY <1>6, <1>7, <2>3, <2>4, EndType DEF Release
<1>8. CASE Forget(c)
  <2>1. net' \in SUBSET Sent
    BY <1>8, FewerType DEF Forget
  <2>2. bound' \in [Clients -> BOOLEAN]
    BY <1>8 DEF Forget, SysType
  <2>3. QED
    BY <1>6, <1>8, <2>1, <2>2, EndType DEF Forget
<1>9. QED
  BY <1>2, <1>3, <1>4, <1>5, <1>7, <1>8 DEF Client

LEMMA AcceptType ==
  ASSUME SysType, NEW m \in net, Accept(m)
  PROVE  SysType'
<1>1. m.clnt \in Clients
  BY SentFacts DEF SysType
<1>2. net' \in SUBSET Sent
  BY FewerType DEF Accept
<1>3. held' \in [Clients -> [Addrs -> 0 .. Valid]]
  BY Times, <1>1 DEF Accept, SysType
<1>4. bound' \in [Clients -> BOOLEAN]
  BY <1>1 DEF Accept, SysType
<1>5. QED
  BY <1>1, <1>2, <1>3, <1>4, EndType DEF Accept

(* What the server writes has its type, in the network and in the list. *)
LEMMA ReplyType ==
  ASSUME SysType, NEW m \in net, NEW as \in SUBSET Addrs, Reply(m, as),
         db' \in [Addrs -> Lease], UNCHANGED <<file, clntVars>>
  PROVE  SysType'
<1> DEFINE r == Msg("REPLY", m.clnt, m.xid, as)
<1>1. m.clnt \in Clients /\ m.xid \in Xids
  BY SentFacts DEF SysType
<1>2. r \in Stored /\ r \in Sent
  BY <1>1, MsgType
<1>4. answers' \in Seq(Stored)
  <2>1. answers' = Append(answers, r)
    BY DEF Reply
  <2>2. answers \in Seq(Stored)
    BY DEF SysType
  <2>3. QED
    BY <1>2, <2>1, <2>2, AppendProperties
<1>5. net' \in SUBSET Sent
  <2>1. net' = Wanted(net \cup {r}, trans)
    BY DEF Reply
  <2>2. QED
    BY <1>2, <2>1, OneMoreType
<1>6. busy' = TRUE
  BY DEF Reply
<1>7. QED
  BY <1>4, <1>5, <1>6 DEF SysType, clntVars

LEMMA ServeType ==
  ASSUME SysType, NEW m \in net, Serve(m)
  PROVE  SysType'
<1>1. m.clnt \in Clients
  BY SentFacts DEF SysType
<1>2. AddrsOf(m.clnt) \in SUBSET Addrs /\ FreeAddrs \in SUBSET Addrs /\ {} \in SUBSET Addrs
  BY DEF AddrsOf, FreeAddrs
<1>3. Unleased \in Lease
  BY Times DEF Unleased, Lease
<1>4. db \in [Addrs -> Lease]
  BY DEF SysType, Lease
<1>5. CASE AnswerAgain(m)
  <2>1. PICK k \in DOMAIN answers : net' = Wanted(net \cup {[answers[k] EXCEPT !.age = 0]}, trans)
    BY <1>5 DEF AnswerAgain, Kept
  <2>2. answers[k] \in Stored
    BY DEF SysType
  <2>3. [answers[k] EXCEPT !.age = 0] \in Sent
    BY <2>2, SentAgain
  <2>4. net' \in SUBSET Sent
    BY <2>1, <2>3, OneMoreType
  <2>5. QED
    BY <1>5, <2>4 DEF AnswerAgain, SysType, srvVars, clntVars
<1>6. CASE Extend(m)
  <2>1. db' \in [Addrs -> Lease]
    BY <1>4, <1>6, Times DEF Extend, Lease
  <2>2. QED
    BY <1>2, <1>6, <2>1, ReplyType DEF Extend
<1>7. CASE Assign(m)
  <2>1. PICK a \in FreeAddrs : /\ db' = [db EXCEPT ![a] = [owner |-> m.clnt, left |-> Valid]]
                               /\ Reply(m, {a})
    BY <1>7 DEF Assign
  <2>2. db' \in [Addrs -> Lease]
    BY <1>1, <1>4, <2>1, Times DEF Lease
  <2>3. {a} \in SUBSET Addrs
    BY <1>2
  <2>4. QED
    BY <1>7, <2>1, <2>2, <2>3, ReplyType DEF Assign
<1>8. CASE Refuse(m)
  BY <1>2, <1>4, <1>8, ReplyType DEF Refuse
<1>9. CASE EndLease(m)
  <2>1. db' \in [Addrs -> Lease]
    BY <1>3, <1>4, <1>9 DEF EndLease
  <2>2. QED
    BY <1>2, <1>9, <2>1, ReplyType DEF EndLease
<1>10. CASE Ignore(m)
  BY <1>10 DEF Ignore, SysType, clntVars
<1>11. QED
  BY <1>5, <1>6, <1>7, <1>8, <1>9, <1>10 DEF Serve

(* The list without its first answers, which are those too old. *)
LEMMA AgedAnswersType ==
  ASSUME SysType, AgedAnswers
  PROVE  answers' \in Seq(Stored)
<1>1. PICK n \in 0 .. Len(answers) :
        /\ \A k \in DOMAIN answers : k <= n <=> answers[k].age + 1 >= CacheTime
        /\ answers' = [k \in 1 .. Len(answers) - n |-> Older(answers[k + n])]
  BY DEF AgedAnswers
<1>2. Len(answers) \in Nat /\ DOMAIN answers = 1 .. Len(answers)
  BY DEF SysType
<1>3. ASSUME NEW k \in 1 .. Len(answers) - n
      PROVE  Older(answers[k + n]) \in Stored
  <2>1. k + n \in DOMAIN answers /\ ~(k + n <= n)
    BY <1>2
  <2>2. answers[k + n] \in Stored /\ answers[k + n].age + 1 < CacheTime
    <3>1. answers[k + n] \in Stored
      BY <1>2, <2>1 DEF SysType
    <3>2. ~(answers[k + n].age + 1 >= CacheTime)
      BY <1>1, <2>1
    <3>3. QED
      BY <3>1, <3>2, StoredFacts, Times
  <2>3. QED
    BY <2>2, OlderStored
<1>4. QED
  BY <1>1, <1>2, <1>3

(* Two of what a client counts. *)
LEMMA MaxOfZero ==
  ASSUME NEW n \in Int
  PROVE  Max({0, n}) = IF n > 0 THEN n ELSE 0
<1> DEFINE w == IF n > 0 THEN n ELSE 0
<1>1. w \in {0, n} /\ \A y \in {0, n} : w >= y
  OBVIOUS
<1>2. \A x \in {0, n} : (\A y \in {0, n} : x >= y) => x = w
  OBVIOUS
<1>3. QED
  BY <1>1, <1>2 DEF Max

LEMMA AgedHeld ==
  ASSUME SysType, Tick
  PROVE  /\ held' \in [Clients -> [Addrs -> 0 .. Valid]]
         /\ \A c \in Clients, a \in Addrs : held'[c][a] = IF held[c][a] > 1 THEN held[c][a] - 1 ELSE 0
<1>1. held' = [c \in Clients |-> [a \in Addrs |-> Max({0, held[c][a] - 1})]]
  BY DEF Tick
<1>2. \A c \in Clients, a \in Addrs : held[c][a] \in 0 .. Valid
  BY DEF SysType
<1>3. \A c \in Clients, a \in Addrs :
        Max({0, held[c][a] - 1}) = IF held[c][a] > 1 THEN held[c][a] - 1 ELSE 0
  <2> SUFFICES ASSUME NEW c \in Clients, NEW a \in Addrs
               PROVE  Max({0, held[c][a] - 1}) = IF held[c][a] > 1 THEN held[c][a] - 1 ELSE 0
    OBVIOUS
  <2> DEFINE n == held[c][a] - 1
  <2>1. n \in Int /\ (n > 0 <=> held[c][a] > 1)
    BY <1>2, Times
  <2>2. Max({0, n}) = IF n > 0 THEN n ELSE 0
    <3> HIDE DEF n
    <3> QED BY <2>1, MaxOfZero
  <2>3. QED
    BY <2>1, <2>2
<1>4. \A c \in Clients, a \in Addrs : Max({0, held[c][a] - 1}) \in 0 .. Valid
  BY <1>2, <1>3, Times
<1>5. QED
  BY <1>1, <1>3, <1>4

(* A lease ages until it is over. *)
LEMMA AgedLease ==
  ASSUME NEW l \in Lease
  PROVE  /\ LeaseAged(l) \in Lease
         /\ l.left > 1 => LeaseAged(l).owner = l.owner /\ LeaseAged(l).left = l.left - 1
         /\ l.left <= 1 => LeaseAged(l) = Unleased
<1>1. l.owner \in Clients \cup {Nobody} /\ l.left \in Nat /\ l.left <= Valid
  BY Times DEF Lease
<1>2. CASE l.left <= 1
  BY <1>2, Times DEF LeaseAged, Unleased, Lease
<1>3. CASE ~(l.left <= 1)
  <2>1. l.left - 1 \in 0 .. Valid
    BY <1>1, <1>3, Times
  <2>2. LeaseAged(l) = [l EXCEPT !.left = @ - 1]
    BY <1>3 DEF LeaseAged
  <2>3. QED
    BY <1>1, <1>3, <2>1, <2>2 DEF Lease
<1>4. QED
  BY <1>2, <1>3

LEMMA TickTrans ==
  ASSUME SysType, Tick
  PROVE  /\ trans' \in [Clients -> {NoTrans} \cup Trans]
         /\ \A c \in Clients : trans'[c] # NoTrans => trans[c] # NoTrans /\ trans'[c].xid = trans[c].xid
<1>1. trans' = [c \in Clients |->
        IF Outlived(c) THEN NoTrans
        ELSE IF trans[c].type = "REQUEST" THEN [trans[c] EXCEPT !.age = @ + 1] ELSE trans[c]]
  BY DEF Tick
<1>2. ASSUME NEW c \in Clients
      PROVE  /\ trans'[c] \in {NoTrans} \cup Trans
             /\ trans'[c] # NoTrans => trans[c] # NoTrans /\ trans'[c].xid = trans[c].xid
  <2>1. CASE Outlived(c) \/ trans[c].type # "REQUEST"
    BY <1>1, <2>1 DEF SysType, Trans
  <2>2. CASE ~Outlived(c) /\ trans[c].type = "REQUEST"
    <3>1. trans[c] \in Trans
      BY <2>2 DEF SysType, Trans, NoTrans
    <3>2. trans[c].age < Patience
      BY <2>2 DEF Tick
    <3>3. [trans[c] EXCEPT !.age = @ + 1] \in Trans
      BY <3>1, <3>2, Times DEF Trans
    <3>4. QED
      BY <1>1, <2>2, <3>1, <3>3, TransIsSome DEF Trans
  <2>3. QED
    BY <2>1, <2>2
<1>3. QED
  BY <1>1, <1>2

LEMMA TickType ==
  ASSUME SysType, Tick
  PROVE  SysType'
<1>1. db' \in [Addrs -> Lease] /\ file' \in [Addrs -> Lease]
  <2>1. db' = [a \in Addrs |-> LeaseAged(db[a])] /\ file' = [a \in Addrs |-> LeaseAged(file[a])]
    BY DEF Tick
  <2>2. \A a \in Addrs : db[a] \in Lease /\ file[a] \in Lease
    BY DEF SysType
  <2>3. QED
    BY <2>1, <2>2, AgedLease
<1>2. \A c \in Clients : Running(c) => Again(c) \in Sent
  <2> SUFFICES ASSUME NEW c \in Clients, Running(c)
               PROVE  Again(c) \in Sent
    OBVIOUS
  <2>1. trans[c] \in Trans
    BY DEF SysType, Trans, Running
  <2>2. QED
    BY <2>1, MsgType DEF Trans, Again, ToServer
<1>3. \A m \in net : m.age < MaxDelay => Older(m) \in Sent
  BY OlderSent DEF SysType
<1>4. net' \subseteq {Older(m) : m \in {m \in net : m.age < MaxDelay}}
                     \cup {Again(c) : c \in {c \in Clients : Running(c) /\ ~Outlived(c)}}
  BY WantedFacts DEF Tick
<1>5. net' \in SUBSET Sent
  BY <1>2, <1>3, <1>4
<1>6. bound' \in [Clients -> BOOLEAN] /\ busy' \in BOOLEAN
  BY DEF Tick, SysType
<1>7. answers' \in Seq(Stored)
  BY AgedAnswersType DEF Tick
<1>8. QED
  BY <1>1, <1>5, <1>6, <1>7, AgedHeld, TickTrans DEF SysType

(* What a file that is cut off has is a table of leases. *)
LEMMA RestartType ==
  ASSUME SysType, RestartServer
  PROVE  SysType'
<1>1. db' \in [Addrs -> Lease]
  <2>1. CASE db' = file
    BY <2>1 DEF SysType
  <2>2. ASSUME NEW cs, db' = CutOff(cs) PROVE db' \in [Addrs -> Lease]
    <3>1. \A a \in Addrs : db[a] \in Lease
      BY DEF SysType
    <3>2. Unleased \in Lease
      BY Times DEF Unleased, Lease
    <3>3. QED
      BY <2>2, <3>1, <3>2 DEF CutOff
  <2>3. QED
    BY <2>1, <2>2 DEF RestartServer
<1>2. answers' \in Seq(Stored)
  BY DEF RestartServer
<1>3. QED
  BY <1>1, <1>2 DEF RestartServer, SysType, clntVars

LEMMA StepType ==
  ASSUME SysType, Step \/ RestartServer
  PROVE  SysType'
<1>1. CASE Dump
  BY <1>1 DEF Dump, SysType, clntVars
<1>2. QED
  BY <1>1, RestartType, ClientType, AcceptType, ServeType, TickType DEF Step

LEMMA NextType == TypeOK /\ [Next]_vars => TypeOK' /\ SysType /\ SysType'
<1> SUFFICES ASSUME TypeOK, [Next]_vars PROVE TypeOK' /\ SysType /\ SysType'
  OBVIOUS
<1>1. SysType
  BY DEF TypeOK, SysType
<1>2. CASE UNCHANGED vars
  BY <1>1, <1>2 DEF vars, sysVars, srvVars, clntVars, TypeOK, SysType
<1>3. CASE Next
  <2>1. SysType'
    BY <1>1, <1>3, StepType DEF Next
  <2>2. lost' \subseteq lost \cup Taken
    BY <1>3 DEF Next, StillLost
  <2>3. lost' \in SUBSET (Clients \X Addrs)
    BY <2>2 DEF Taken, TypeOK
  <2>4. QED
    BY <1>1, <2>1, <2>3 DEF TypeOK, SysType
<1>4. QED
  BY <1>2, <1>3

(* The types hold in every state, for any number of clients, addresses, ids    *)
(* and for all times the assumptions allow.                                  *)
THEOREM TypeCorrect == Spec => []TypeOK
<1>1. QED
  BY InitType, NextType, PTL DEF Spec

-----------------------------------------------------------------------------
(* How long a client counts on a lease *)

(* The client waits for an answer with this id. *)
Awaits(c, x) == trans[c] # NoTrans /\ trans[c].xid = x

(* An answer with these addresses may be accepted by now: of each lease of it  *)
(* that is not lost the server has all but n ticks.                           *)
Covered(c, as, n, ps) == \A a \in as : <<c, a>> \in ps \/ Valid <= ServerLeft(c, a) + n

HeldBounded(ps) ==
  \A c \in Clients, a \in Addrs : <<c, a>> \in ps \/ held[c][a] <= ServerLeft(c, a) + Overhang

(* An answer under way was kept for less than CacheTime before it was sent, one *)
(* in the list has the age it has; and no kill came after it was written.      *)
AnswersSent(ps) ==
  \A m \in net : m.type = "REPLY" =>
    Awaits(m.clnt, m.xid) /\ Covered(m.clnt, m.addrs, CacheTime - 1 + m.age, ps)
AnswersKept ==
  \A k \in DOMAIN answers :
    Awaits(answers[k].clnt, answers[k].xid) =>
      Covered(answers[k].clnt, answers[k].addrs, answers[k].age, {})

(* Whoever has a RELEASE under way counts on nothing and waits for nothing.   *)
Gone(c) == ~Running(c) /\ ~bound[c] /\ \A a \in Addrs : held[c][a] = 0
ReleasedGone == \A m \in net : m.type = "RELEASE" => Gone(m.clnt)

(* What holds whatever else is lost than these leases; and with those that are. *)
Known(ps) == HeldBounded(ps) /\ AnswersSent(ps) /\ AnswersKept /\ ReleasedGone
IInv == Known(lost)

LEMMA InitIInv == Init => IInv
<1> SUFFICES ASSUME Init PROVE Known(lost)
  BY DEF IInv
<1>1. \A c \in Clients, a \in Addrs : ServerLeft(c, a) = 0 /\ held[c][a] = 0
  BY NobodyAssumption DEF Init, Unleased, ServerLeft
<1>2. HeldBounded(lost)
  BY <1>1, Times DEF HeldBounded, Overhang
<1>3. AnswersSent(lost) /\ ReleasedGone
  BY DEF Init, AnswersSent, ReleasedGone
<1>4. AnswersKept
  BY DEF Init, AnswersKept
<1>5. QED
  BY <1>2, <1>3, <1>4 DEF Known

(* What the server has left is a number. *)
LEMMA LeftType ==
  ASSUME SysType, NEW c \in Clients, NEW a \in Addrs
  PROVE  ServerLeft(c, a) \in Nat /\ held[c][a] \in Nat /\ held[c][a] <= Valid /\ Overhang \in Nat
<1>1. db[a] \in Lease /\ held[c][a] \in 0 .. Valid
  BY DEF SysType
<1>2. QED
  BY <1>1, Times DEF ServerLeft, Lease, Overhang

LEMMA LeftTypeNext ==
  ASSUME SysType', NEW c \in Clients, NEW a \in Addrs
  PROVE  ServerLeft(c, a)' \in Nat
<1>1. db'[a] \in Lease
  BY DEF SysType
<1>2. QED
  BY <1>1, Times DEF ServerLeft, Lease

(* A step of a client that leaves the server alone, adds no answer and begins   *)
(* no exchange but under a fresh id.                                         *)
LEMMA ClientKeeps ==
  ASSUME SysType, SysType', NEW ps, Known(ps), UNCHANGED srvVars,
         \A d \in Clients : trans'[d] \in {trans[d], NoTrans} \/ trans'[d].xid \in Fresh(d),
         \A m \in net' : m.type = "REPLY" => m \in net /\ Awaits(m.clnt, m.xid)',
         HeldBounded(ps)', ReleasedGone'
  PROVE  Known(ps)'
<1>1. \A c, a : ServerLeft(c, a)' = ServerLeft(c, a)
  BY DEF ServerLeft, srvVars
<1>2. \A c, as, n, qs : Covered(c, as, n, qs)' <=> Covered(c, as, n, qs)
  BY <1>1 DEF Covered
<1>3. AnswersSent(ps)'
  BY <1>2 DEF Known, AnswersSent
<1>4. AnswersKept'
  <2> SUFFICES ASSUME NEW k \in DOMAIN answers, Awaits(answers[k].clnt, answers[k].xid)'
               PROVE  Covered(answers[k].clnt, answers[k].addrs, answers[k].age, {})
    BY <1>2 DEF AnswersKept, srvVars
  <2> DEFINE c == answers[k].clnt
  <2>1. answers[k] \in Stored
    BY DEF SysType
  <2>2. c \in Clients
    BY <2>1, StoredFacts
  <2>3. trans'[c] # NoTrans /\ trans'[c].xid = answers[k].xid
    BY DEF Awaits, srvVars
  <2>4. trans'[c] = trans[c]
    BY <2>2, <2>3, FreshFacts
  <2>5. Awaits(c, answers[k].xid)
    BY <2>3, <2>4 DEF Awaits
  <2>6. QED
    BY <2>5 DEF Known, AnswersKept
<1>5. QED
  BY <1>3, <1>4 DEF Known

(* Of the answers under way, those wanted are awaited. *)
LEMMA WantedAwaited ==
  ASSUME NEW S, net' = Wanted(S, trans')
  PROVE  net' \subseteq S /\ \A m \in net' : m.type = "REPLY" => Awaits(m.clnt, m.xid)'
  BY DEF Wanted, Awaits

LEMMA BeginKeeps ==
  ASSUME SysType, SysType', NEW ps, Known(ps), NEW c \in Clients, NEW t \in {"REQUEST", "RENEW", "REBIND"}, NEW as,
         Begin(c, t, as), UNCHANGED <<srvVars, held, bound>>,
         \A m \in net : m.type = "RELEASE" => m.clnt # c
  PROVE  Known(ps)'
<1>1. PICK x \in Fresh(c) :
        /\ trans' = [trans EXCEPT ![c] = [type |-> t, xid |-> x, addrs |-> as, age |-> 0]]
        /\ net' = Wanted(net \cup {Msg(t, c, x, as)}, trans')
  BY DEF Begin
<1>2. \A d \in Clients : trans'[d] \in {trans[d], NoTrans} \/ trans'[d].xid \in Fresh(d)
  BY <1>1 DEF SysType
<1>3. Msg(t, c, x, as).type = t
  BY DEF Msg
<1>4. net' \subseteq net \cup {Msg(t, c, x, as)} /\ \A m \in net' : m.type = "REPLY" => Awaits(m.clnt, m.xid)'
  BY <1>1, WantedAwaited
<1>5. \A m \in net' : m.type \in {"REPLY", "RELEASE"} => m \in net
  BY <1>3, <1>4
<1>6. HeldBounded(ps)'
  BY DEF Known, HeldBounded, ServerLeft, srvVars
<1>7. ReleasedGone'
  <2> SUFFICES ASSUME NEW m \in net, m.type = "RELEASE" PROVE Gone(m.clnt)'
    BY <1>5 DEF ReleasedGone
  <2>1. Gone(m.clnt) /\ m.clnt # c /\ m.clnt \in Clients
    BY SentFacts DEF Known, ReleasedGone, SysType
  <2>2. trans'[m.clnt] = trans[m.clnt]
    BY <1>1, <2>1 DEF SysType
  <2>3. QED
    BY <2>1, <2>2 DEF Gone, Running
<1>8. QED
  BY <1>2, <1>4, <1>5, <1>6, <1>7, ClientKeeps

(* A client that ends its exchange, and counts on what it did or on nothing. *)
LEMMA EndKeeps ==
  ASSUME SysType, SysType', NEW ps, Known(ps), NEW c \in Clients, UNCHANGED srvVars,
         trans' = [trans EXCEPT ![c] = NoTrans],
         \A d \in Clients, a \in Addrs : held'[d][a] \in {held[d][a], 0},
         \A d \in Clients : bound'[d] => bound[d],
         NEW S, net' = Wanted(S, trans'),
         \A m \in S : m \in net \/ (m.type = "RELEASE" /\ m.clnt = c),
         (\E m \in S : m \notin net) => Gone(c)'
  PROVE  Known(ps)'
<1>1. \A d \in Clients : trans'[d] \in {trans[d], NoTrans}
  BY DEF SysType
<1>2. net' \subseteq S /\ \A m \in net' : m.type = "REPLY" => Awaits(m.clnt, m.xid)'
  BY WantedAwaited
<1>3. HeldBounded(ps)'
  <2>1. \A d, a : ServerLeft(d, a)' = ServerLeft(d, a)
    BY DEF ServerLeft, srvVars
  <2> SUFFICES ASSUME NEW d \in Clients, NEW a \in Addrs, <<d, a>> \notin ps
               PROVE  held'[d][a] <= ServerLeft(d, a) + Overhang
    BY <2>1 DEF HeldBounded, Overhang
  <2>2. held[d][a] <= ServerLeft(d, a) + Overhang
    BY DEF Known, HeldBounded
  <2>3. QED
    BY <2>2, LeftType
<1>4. ReleasedGone'
  <2> SUFFICES ASSUME NEW m \in net', m.type = "RELEASE" PROVE Gone(m.clnt)'
    BY DEF ReleasedGone
  <2>1. CASE m \in net
    <3>1. Gone(m.clnt) /\ m.clnt \in Clients
      BY <2>1, SentFacts DEF Known, ReleasedGone, SysType
    <3>2. QED
      BY <1>1, <3>1 DEF Gone, Running
  <2>2. CASE m \notin net
    BY <1>2, <2>2
  <2>3. QED
    BY <2>1, <2>2
<1>5. \A m \in net' : m.type = "REPLY" => m \in net
  BY <1>2
<1>6. QED
  BY <1>1, <1>2, <1>3, <1>4, <1>5, ClientKeeps

LEMMA ClientIInv ==
  ASSUME SysType, SysType', NEW ps, Known(ps), NEW c \in Clients, Client(c)
  PROVE  Known(ps)'
<1>1. bound[c] \/ Running(c) => \A m \in net : m.type = "RELEASE" => m.clnt # c
  BY DEF Known, ReleasedGone, Gone
<1>2. CASE Ask(c)
  BY <1>2, BeginKeeps DEF Ask
<1>3. CASE GiveUp(c)
  <2>1. net' = Wanted(net, trans') /\ UNCHANGED <<srvVars, held, bound>>
        /\ trans' = [trans EXCEPT ![c] = NoTrans]
    BY <1>3 DEF GiveUp
  <2>2. QED
    BY <2>1, EndKeeps
<1>4. CASE Renew(c)
  BY <1>1, <1>4, BeginKeeps DEF Renew
<1>5. CASE Rebind(c)
  <2>1. Running(c)
    BY <1>5 DEF Rebind, Running, NoTrans
  <2>2. QED
    BY <1>1, <1>5, <2>1, BeginKeeps DEF Rebind
<1>6. ASSUME held' = [held EXCEPT ![c] = [a \in Addrs |-> 0]], bound' = [bound EXCEPT ![c] = FALSE],
             trans' = [trans EXCEPT ![c] = NoTrans]
      PROVE  /\ \A d \in Clients, a \in Addrs : held'[d][a] \in {held[d][a], 0}
             /\ \A d \in Clients : bound'[d] => bound[d]
             /\ Gone(c)'
  BY <1>6 DEF SysType, Gone, Running
<1>7. CASE Release(c)
  <2>1. PICK x \in Fresh(c) : net' = Wanted(net \cup {Msg("RELEASE", c, x, HeldBy(c))}, trans')
    BY <1>7 DEF Release
  <2> DEFINE S == net \cup {Msg("RELEASE", c, x, HeldBy(c))}
  <2>2. \A m \in S : m \in net \/ (m.type = "RELEASE" /\ m.clnt = c)
    BY DEF Msg
  <2>3. net' = Wanted(S, trans')
    BY <2>1
  <2> HIDE DEF S
  <2>4. QED
    BY <1>6, <1>7, <2>2, <2>3, EndKeeps DEF Release
<1>8. CASE Forget(c)
  <2>1. net' = Wanted(net, trans')
    BY <1>8 DEF Forget
  <2>2. QED
    BY <1>6, <1>8, <2>1, EndKeeps DEF Forget
<1>9. QED
  BY <1>2, <1>3, <1>4, <1>5, <1>7, <1>8 DEF Client

(* An answer that is accepted: what the client counts from now on is covered. *)
LEMMA AcceptIInv ==
  ASSUME SysType, SysType', NEW ps, Known(ps), NEW m \in net, Accept(m)
  PROVE  Known(ps)'
<1> DEFINE c == m.clnt
<1>1. m \in Sent /\ c \in Clients /\ m.addrs \in SUBSET Addrs /\ m.age \in Nat /\ m.age <= MaxDelay
  BY SentFacts DEF SysType
<1>2. Running(c) /\ Covered(c, m.addrs, CacheTime - 1 + m.age, ps)
  BY DEF Accept, Known, AnswersSent
<1>3. /\ held' = [held EXCEPT ![c] = [a \in Addrs |-> IF a \in m.addrs THEN Valid ELSE @[a]]]
      /\ bound' = [bound EXCEPT ![c] = m.addrs # {}]
      /\ trans' = [trans EXCEPT ![c] = NoTrans]
      /\ net' = Wanted(net, trans')
      /\ UNCHANGED srvVars
  BY DEF Accept
<1>4. HeldBounded(ps)'
  <2> SUFFICES ASSUME NEW d \in Clients, NEW a \in Addrs, <<d, a>> \notin ps
               PROVE  held'[d][a] <= ServerLeft(d, a) + Overhang
    BY <1>3 DEF HeldBounded, ServerLeft, Overhang, srvVars
  <2>1. held[d][a] <= ServerLeft(d, a) + Overhang
    BY DEF Known, HeldBounded
  <2>2. CASE d = c /\ a \in m.addrs
    <3>1. held'[d][a] = Valid
      BY <1>1, <1>3, <2>2 DEF SysType
    <3>2. Valid <= ServerLeft(d, a) + (CacheTime - 1 + m.age)
      BY <1>2, <2>2 DEF Covered
    <3>3. QED
      BY <1>1, <3>1, <3>2, LeftType, Times DEF Overhang
  <2>3. CASE ~(d = c /\ a \in m.addrs)
    <3>1. held'[d][a] = held[d][a]
      BY <1>1, <1>3, <2>3 DEF SysType
    <3>2. QED
      BY <2>1, <3>1
  <2>4. QED
    BY <2>2, <2>3
<1>5. net' \subseteq net /\ \A n \in net' : n.type = "REPLY" => Awaits(n.clnt, n.xid)'
  BY <1>3, WantedAwaited
<1>6. ReleasedGone'
  <2> SUFFICES ASSUME NEW n \in net, n.type = "RELEASE" PROVE Gone(n.clnt)'
    BY <1>5 DEF ReleasedGone
  <2>1. Gone(n.clnt) /\ n.clnt # c /\ n.clnt \in Clients
    BY <1>2, SentFacts DEF Known, ReleasedGone, SysType, Gone
  <2>2. QED
    BY <1>3, <2>1 DEF SysType, Gone, Running
<1>7. \A d \in Clients : trans'[d] \in {trans[d], NoTrans}
  BY <1>3 DEF SysType
<1>8. QED
  BY <1>3, <1>4, <1>5, <1>6, <1>7, ClientKeeps

(* A step of the server takes leases only from who is gone, and what it sends   *)
(* and keeps is covered.                                                     *)
LEMMA ServerKeeps ==
  ASSUME SysType, SysType', NEW ps, Known(ps), UNCHANGED clntVars,
         \A c \in Clients, a \in Addrs : ServerLeft(c, a)' >= ServerLeft(c, a) \/ Gone(c),
         NEW r \in Sent, r.type = "REPLY", net' = Wanted(net \cup {r}, trans),
         Awaits(r.clnt, r.xid) => Covered(r.clnt, r.addrs, CacheTime - 1 + r.age, ps)',
         \A k \in DOMAIN answers' :
           \/ k \in DOMAIN answers /\ answers'[k] = answers[k]
           \/ answers'[k] = r /\ Covered(r.clnt, r.addrs, r.age, {})'
  PROVE  Known(ps)'
<1>1. trans' = trans /\ held' = held /\ bound' = bound
  BY DEF clntVars
<1>2. \A c, x : Awaits(c, x)' <=> Awaits(c, x)
  BY <1>1 DEF Awaits
<1>3. \A c : Gone(c)' <=> Gone(c)
  BY <1>1 DEF Gone, Running
<1>4. ASSUME NEW c \in Clients, NEW as \in SUBSET Addrs, NEW n \in Nat, NEW qs, ~Gone(c), Covered(c, as, n, qs)
      PROVE  Covered(c, as, n, qs)'
  <2> SUFFICES ASSUME NEW a \in as, <<c, a>> \notin qs PROVE Valid <= ServerLeft(c, a)' + n
    BY DEF Covered
  <2>1. a \in Addrs /\ ServerLeft(c, a)' >= ServerLeft(c, a) /\ Valid <= ServerLeft(c, a) + n
    BY <1>4 DEF Covered
  <2>2. ServerLeft(c, a) \in Nat /\ ServerLeft(c, a)' \in Nat
    BY <2>1, LeftType, LeftTypeNext
  <2>3. QED
    BY <2>1, <2>2, Times
<1>5. \A c, x : Awaits(c, x) => ~Gone(c)
  BY DEF Awaits, Gone, Running
<1>6. HeldBounded(ps)'
  <2> SUFFICES ASSUME NEW c \in Clients, NEW a \in Addrs, <<c, a>> \notin ps
               PROVE  held[c][a] <= ServerLeft(c, a)' + Overhang
    BY <1>1 DEF HeldBounded, Overhang
  <2>1. held[c][a] <= ServerLeft(c, a) + Overhang
    BY DEF Known, HeldBounded
  <2>2. ServerLeft(c, a)' >= ServerLeft(c, a) \/ held[c][a] = 0
    BY DEF Gone
  <2>3. QED
    BY <2>1, <2>2, LeftType, LeftTypeNext
<1>7. net' \subseteq net \cup {r} /\ \A m \in net' : m.type = "REPLY" => Awaits(m.clnt, m.xid)'
  BY <1>1, WantedAwaited
<1>8. AnswersSent(ps)'
  <2> SUFFICES ASSUME NEW m \in net', m.type = "REPLY"
               PROVE  Covered(m.clnt, m.addrs, CacheTime - 1 + m.age, ps)'
    BY <1>7 DEF AnswersSent
  <2>1. Awaits(m.clnt, m.xid)
    BY <1>2, <1>7
  <2>2. CASE m \in net
    <3>1. m.clnt \in Clients /\ m.addrs \in SUBSET Addrs /\ CacheTime - 1 + m.age \in Nat
      BY <2>2, SentFacts, Times DEF SysType
    <3>2. Covered(m.clnt, m.addrs, CacheTime - 1 + m.age, ps)
      BY <2>2 DEF Known, AnswersSent
    <3>3. QED
      BY <1>4, <1>5, <2>1, <3>1, <3>2
  <2>3. CASE m = r
    BY <2>1, <2>3
  <2>4. QED
    BY <1>7, <2>2, <2>3
<1>9. AnswersKept'
  <2> SUFFICES ASSUME NEW k \in DOMAIN answers', NEW q, q = answers'[k], Awaits(q.clnt, q.xid)'
               PROVE  Covered(q.clnt, q.addrs, q.age, {})'
    BY DEF AnswersKept, Awaits, Covered, ServerLeft
  <2>1. Awaits(q.clnt, q.xid)
    BY <1>2
  <2>2. CASE k \in DOMAIN answers /\ q = answers[k]
    <3>1. q \in Stored
      BY <2>2 DEF SysType
    <3>2. Covered(q.clnt, q.addrs, q.age, {})
      BY <2>1, <2>2 DEF Known, AnswersKept
    <3>3. QED
      BY <1>4, <1>5, <2>1, <3>1, <3>2, StoredFacts
  <2>3. QED
    BY <2>2
<1>10. ReleasedGone'
  BY <1>3, <1>7 DEF Known, ReleasedGone
<1>11. QED
  BY <1>6, <1>8, <1>9, <1>10 DEF Known

(* The same of a new answer with these addresses. *)
LEMMA ReplyKeeps ==
  ASSUME SysType, SysType', NEW ps, Known(ps), UNCHANGED clntVars, NEW m \in net, NEW as \in SUBSET Addrs, Reply(m, as),
         \A c \in Clients, a \in Addrs : ServerLeft(c, a)' >= ServerLeft(c, a) \/ Gone(c),
         \A a \in as : ServerLeft(m.clnt, a)' = Valid
  PROVE  Known(ps)'
<1> DEFINE r == Msg("REPLY", m.clnt, m.xid, as)
<1>1. m.clnt \in Clients /\ m.xid \in Xids
  BY SentFacts DEF SysType
<1>2. r \in Sent /\ r.type = "REPLY" /\ r.clnt = m.clnt /\ r.xid = m.xid /\ r.addrs = as /\ r.age = 0
  BY <1>1, MsgType DEF Msg
<1>3. net' = Wanted(net \cup {r}, trans) /\ answers' = Append(answers, r)
  BY DEF Reply
<1> HIDE DEF r
<1>4. \A n \in Nat : \A qs : Covered(m.clnt, as, n, qs)'
  <2> SUFFICES ASSUME NEW n \in Nat, NEW qs, NEW a \in as PROVE Valid <= ServerLeft(m.clnt, a)' + n
    BY DEF Covered
  <2>1. ServerLeft(m.clnt, a)' = Valid
    OBVIOUS
  <2>2. QED
    BY <2>1, Times
<1>5. Covered(r.clnt, r.addrs, r.age, {})' /\ Covered(r.clnt, r.addrs, CacheTime - 1 + r.age, ps)'
  <2>1. CacheTime - 1 + r.age \in Nat /\ r.age \in Nat
    BY <1>2, Times
  <2>2. QED
    BY <1>2, <1>4, <2>1
<1>6. \A k \in DOMAIN answers' : (k \in DOMAIN answers /\ answers'[k] = answers[k]) \/ answers'[k] = r
  <2>1. answers \in Seq(Sent \cup Stored) /\ r \in Sent \cup Stored
    BY <1>2 DEF SysType
  <2>2. QED
    BY <1>3, <2>1, AppendProperties
<1>7. QED
  BY <1>2, <1>3, <1>5, <1>6, ServerKeeps

LEMMA ServeIInv ==
  ASSUME SysType, SysType', NEW ps, Known(ps), NEW m \in net, Serve(m)
  PROVE  Known(ps)'
<1>1. m.clnt \in Clients /\ m.clnt # Nobody
  BY SentFacts, NobodyAssumption DEF SysType
<1>2. AddrsOf(m.clnt) \in SUBSET Addrs /\ FreeAddrs \in SUBSET Addrs /\ {} \in SUBSET Addrs
  BY DEF AddrsOf, FreeAddrs
<1>3. \A a \in Addrs : db[a].left \in Nat /\ db[a].left <= Valid
  BY Times DEF SysType, Lease
<1>4. CASE AnswerAgain(m)
  <2>1. PICK k \in DOMAIN answers : net' = Wanted(net \cup {[answers[k] EXCEPT !.age = 0]}, trans)
    BY <1>4 DEF AnswerAgain, Kept
  <2>2. answers[k] \in Stored
    BY DEF SysType
  <2>r. PICK r \in Sent : r = [answers[k] EXCEPT !.age = 0]
    BY <2>2, SentAgain
  <2>3. /\ r \in Sent /\ r.type = "REPLY" /\ r.clnt = answers[k].clnt /\ r.xid = answers[k].xid
        /\ r.addrs = answers[k].addrs /\ r.age = 0
    BY <2>2, <2>r, SentAgain
  <2>4. db' = db /\ answers' = answers /\ UNCHANGED clntVars
    BY <1>4 DEF AnswerAgain, srvVars
  <2>5. \A c, a : ServerLeft(c, a)' = ServerLeft(c, a)
    BY <2>4 DEF ServerLeft
  <2>6. Awaits(r.clnt, r.xid) => Covered(r.clnt, r.addrs, CacheTime - 1 + r.age, ps)'
    <3> SUFFICES ASSUME Awaits(r.clnt, r.xid), NEW a \in r.addrs
                 PROVE  Valid <= ServerLeft(r.clnt, a) + (CacheTime - 1 + r.age)
      BY <2>5 DEF Covered
    <3>1. Covered(answers[k].clnt, answers[k].addrs, answers[k].age, {})
      BY <2>3 DEF Known, AnswersKept
    <3>2. Valid <= ServerLeft(r.clnt, a) + answers[k].age
      BY <2>3, <3>1 DEF Covered
    <3>3. r.clnt \in Clients /\ a \in Addrs /\ answers[k].age \in Nat /\ answers[k].age <= CacheTime - 1
      BY <2>2, <2>3, StoredFacts
    <3>4. QED
      BY <2>3, <3>2, <3>3, LeftType, Times
  <2>7. net' = Wanted(net \cup {r}, trans)
    BY <2>1, <2>r
  <2>8. \A c \in Clients, a \in Addrs : ServerLeft(c, a)' >= ServerLeft(c, a)
    BY <2>5, LeftType
  <2>9. QED
    BY <2>3, <2>4, <2>6, <2>7, <2>8, ServerKeeps
<1>5. CASE Extend(m)
  <2>1. db' = [a \in Addrs |-> IF a \in AddrsOf(m.clnt) THEN [db[a] EXCEPT !.left = Valid] ELSE db[a]]
    BY <1>5 DEF Extend
  <2>2. \A a \in Addrs : db[a] \in Lease
    BY DEF SysType
  <2>3. \A c \in Clients, a \in Addrs : ServerLeft(c, a)' >= ServerLeft(c, a)
    BY <1>3, <2>1, <2>2, Times DEF ServerLeft, Lease
  <2>4. \A a \in AddrsOf(m.clnt) : ServerLeft(m.clnt, a)' = Valid
    BY <1>2, <2>1, <2>2 DEF ServerLeft, AddrsOf, Lease
  <2>5. QED
    BY <1>2, <1>5, <2>3, <2>4, ReplyKeeps DEF Extend
<1>6. CASE Assign(m)
  <2>1. PICK a \in FreeAddrs : /\ db' = [db EXCEPT ![a] = [owner |-> m.clnt, left |-> Valid]]
                               /\ Reply(m, {a})
    BY <1>6 DEF Assign
  <2>2. a \in Addrs /\ db[a].owner = Nobody
    BY DEF FreeAddrs
  <2>3. db'[a] = [owner |-> m.clnt, left |-> Valid] /\ \A b \in Addrs : b # a => db'[b] = db[b]
    BY <2>1, <2>2 DEF SysType
  <2>4. \A c \in Clients, b \in Addrs : ServerLeft(c, b)' >= ServerLeft(c, b)
    <3> SUFFICES ASSUME NEW c \in Clients, NEW b \in Addrs
                 PROVE  ServerLeft(c, b)' >= ServerLeft(c, b)
      OBVIOUS
    <3>1. CASE b = a
      BY <2>2, <3>1, LeftTypeNext, NobodyAssumption DEF ServerLeft
    <3>2. CASE b # a
      BY <1>3, <2>3, <3>2 DEF ServerLeft
    <3>3. QED
      BY <3>1, <3>2
  <2>5. ServerLeft(m.clnt, a)' = Valid
    BY <2>3 DEF ServerLeft
  <2>6. {a} \in SUBSET Addrs /\ UNCHANGED clntVars
    BY <1>6, <2>2 DEF Assign
  <2>7. QED
    BY <2>1, <2>4, <2>5, <2>6, ReplyKeeps
<1>7. CASE Refuse(m)
  <2>1. db' = db /\ UNCHANGED clntVars /\ Reply(m, {})
    BY <1>7 DEF Refuse
  <2>2. \A c \in Clients, a \in Addrs : ServerLeft(c, a)' >= ServerLeft(c, a)
    BY <1>3, <2>1 DEF ServerLeft
  <2>3. QED
    BY <1>2, <2>1, <2>2, ReplyKeeps
<1>8. CASE EndLease(m)
  <2>1. /\ db' = [a \in Addrs |-> IF a \in m.addrs \cap AddrsOf(m.clnt) THEN Unleased ELSE db[a]]
        /\ Reply(m, {}) /\ UNCHANGED clntVars
    BY <1>8 DEF EndLease
  <2>2. Gone(m.clnt)
    BY <1>8 DEF EndLease, Arrived, Known, ReleasedGone
  <2>3. \A c \in Clients, a \in Addrs : ServerLeft(c, a)' >= ServerLeft(c, a) \/ Gone(c)
    <3> SUFFICES ASSUME NEW c \in Clients, NEW a \in Addrs, c # m.clnt
                 PROVE  ServerLeft(c, a)' >= ServerLeft(c, a)
      BY <2>2
    <3>1. a \in AddrsOf(m.clnt) => ServerLeft(c, a) = 0
      BY DEF AddrsOf, ServerLeft
    <3>2. a \notin AddrsOf(m.clnt) => ServerLeft(c, a)' = ServerLeft(c, a)
      BY <2>1 DEF ServerLeft
    <3>3. QED
      BY <3>1, <3>2, LeftType, LeftTypeNext
  <2>4. QED
    BY <1>2, <2>1, <2>3, ReplyKeeps
<1>9. CASE Ignore(m)
  <2>1. UNCHANGED <<db, answers, net, trans, held, bound>>
    BY <1>9 DEF Ignore, clntVars
  <2>2. QED
    BY <2>1 DEF Known, HeldBounded, ServerLeft, AnswersSent, AnswersKept, ReleasedGone,
                Awaits, Covered, Gone, Running
<1>10. QED
  BY <1>4, <1>5, <1>6, <1>7, <1>8, <1>9 DEF Serve

(* What a server that starts again does not have is lost, and it has no answers. *)
LEMMA RestartIInv ==
  ASSUME SysType, SysType', NEW ps, Known(ps), NEW qs, qs = ps \cup Taken, RestartServer
  PROVE  Known(qs)'
<1>1. answers' = <<>> /\ UNCHANGED <<net, trans, held, bound>>
  BY DEF RestartServer, clntVars
<1>2. ASSUME NEW c \in Clients, NEW a \in Addrs, <<c, a>> \notin qs
      PROVE  <<c, a>> \notin ps /\ ServerLeft(c, a)' >= ServerLeft(c, a)
  <2>1. ~(ServerLeft(c, a)' < ServerLeft(c, a))
    BY <1>2 DEF Taken
  <2>2. QED
    BY <1>2, <2>1, LeftType, LeftTypeNext
<1>3. HeldBounded(qs)'
  <2> SUFFICES ASSUME NEW c \in Clients, NEW a \in Addrs, <<c, a>> \notin qs
               PROVE  held[c][a] <= ServerLeft(c, a)' + Overhang
    BY <1>1 DEF HeldBounded, Overhang
  <2>1. held[c][a] <= ServerLeft(c, a) + Overhang
    BY <1>2 DEF Known, HeldBounded
  <2>2. QED
    BY <1>2, <2>1, LeftType, LeftTypeNext
<1>4. AnswersSent(qs)'
  <2> SUFFICES ASSUME NEW m \in net, m.type = "REPLY", NEW a \in m.addrs, <<m.clnt, a>> \notin qs
               PROVE  Awaits(m.clnt, m.xid) /\ Valid <= ServerLeft(m.clnt, a)' + (CacheTime - 1 + m.age)
    <3>1. \A m \in net : m.type = "REPLY" => Awaits(m.clnt, m.xid)
      BY DEF Known, AnswersSent
    <3>2. \A c, x : Awaits(c, x)' <=> Awaits(c, x)
      BY <1>1 DEF Awaits
    <3>3. QED
      BY <1>1, <3>1, <3>2 DEF AnswersSent, Covered
  <2>1. m.clnt \in Clients /\ a \in Addrs /\ m.age \in Nat
    BY SentFacts DEF SysType
  <2>2. Awaits(m.clnt, m.xid) /\ Covered(m.clnt, m.addrs, CacheTime - 1 + m.age, ps)
    BY DEF Known, AnswersSent
  <2>3. <<m.clnt, a>> \notin ps /\ ServerLeft(m.clnt, a)' >= ServerLeft(m.clnt, a)
    BY <1>2, <2>1
  <2>4. Valid <= ServerLeft(m.clnt, a) + (CacheTime - 1 + m.age)
    BY <2>2, <2>3 DEF Covered
  <2>5. QED
    BY <2>1, <2>2, <2>3, <2>4, LeftType, LeftTypeNext, Times
<1>5. AnswersKept'
  BY <1>1 DEF AnswersKept
<1>6. ReleasedGone'
  BY <1>1 DEF Known, ReleasedGone, Gone, Running
<1>7. QED
  BY <1>3, <1>4, <1>5, <1>6 DEF Known

(* Time passes alike for the leases of the server, what clients count and the   *)
(* answers.                                                                  *)
LEMMA TickLeft ==
  ASSUME SysType, Tick, NEW c \in Clients, NEW a \in Addrs
  PROVE  ServerLeft(c, a)' = IF ServerLeft(c, a) > 1 THEN ServerLeft(c, a) - 1 ELSE 0
<1>1. db'[a] = LeaseAged(db[a]) /\ db[a] \in Lease
  BY DEF Tick, SysType
<1>2. db[a].left \in Nat
  BY <1>1, Times DEF Lease
<1>3. CASE db[a].left > 1
  BY <1>1, <1>2, <1>3, AgedLease DEF ServerLeft
<1>4. CASE ~(db[a].left > 1)
  <2>1. db'[a] = Unleased
    BY <1>1, <1>2, <1>4, AgedLease
  <2>2. ServerLeft(c, a)' = 0
    BY <2>1, NobodyAssumption DEF ServerLeft, Unleased
  <2>3. QED
    BY <1>2, <1>4, <2>2 DEF ServerLeft
<1>5. QED
  BY <1>3, <1>4

LEMMA TickCovered ==
  ASSUME SysType, Tick, NEW c \in Clients, NEW as \in SUBSET Addrs, NEW n \in Nat, NEW ps,
         Covered(c, as, n, ps)
  PROVE  Covered(c, as, n + 1, ps)'
<1> SUFFICES ASSUME NEW a \in as, <<c, a>> \notin ps PROVE Valid <= ServerLeft(c, a)' + (n + 1)
  BY DEF Covered
<1>1. Valid <= ServerLeft(c, a) + n /\ a \in Addrs
  BY DEF Covered
<1>2. QED
  BY <1>1, TickLeft, LeftType, Times

LEMMA TickIInv ==
  ASSUME SysType, SysType', NEW ps, Known(ps), Tick
  PROVE  Known(ps)'
<1>1. HeldBounded(ps)'
  <2> SUFFICES ASSUME NEW c \in Clients, NEW a \in Addrs, <<c, a>> \notin ps
               PROVE  held'[c][a] <= ServerLeft(c, a)' + Overhang
    BY DEF HeldBounded, Overhang
  <2>1. held[c][a] <= ServerLeft(c, a) + Overhang
    BY DEF Known, HeldBounded
  <2>2. held'[c][a] = IF held[c][a] > 1 THEN held[c][a] - 1 ELSE 0
    BY AgedHeld
  <2>3. QED
    BY <2>1, <2>2, TickLeft, LeftType
<1>2. net' \subseteq {Older(m) : m \in {m \in net : m.age < MaxDelay}}
                     \cup {Again(c) : c \in {c \in Clients : Running(c) /\ ~Outlived(c)}}
      /\ \A m \in net' : m.type = "REPLY" => Awaits(m.clnt, m.xid)'
  BY WantedAwaited DEF Tick
<1>3. \A c \in Clients : Running(c) => Again(c).type \in {"REQUEST", "RENEW", "REBIND"}
  BY DEF SysType, Trans, Running, Again, Msg
<1>4. \A m \in net' : m.type \in {"REPLY", "RELEASE"} =>
        \E p \in net : p.age < MaxDelay /\ m = Older(p)
  BY <1>2, <1>3
<1>5. AnswersSent(ps)'
  <2> SUFFICES ASSUME NEW m \in net', m.type = "REPLY"
               PROVE  Covered(m.clnt, m.addrs, CacheTime - 1 + m.age, ps)'
    BY <1>2 DEF AnswersSent
  <2>1. PICK p \in net : p.age < MaxDelay /\ m = Older(p)
    BY <1>4
  <2>2. p \in Sent
    BY DEF SysType
  <2>3. p.type = "REPLY" /\ p.clnt = m.clnt /\ p.addrs = m.addrs /\ m.age = p.age + 1
    BY <2>1, <2>2, OlderSent
  <2>4. p.clnt \in Clients /\ p.addrs \in SUBSET Addrs /\ p.age \in Nat
    BY <2>2, SentFacts
  <2>5. CacheTime - 1 + p.age \in Nat /\ (CacheTime - 1 + p.age) + 1 = CacheTime - 1 + m.age
    BY <2>3, <2>4, Times
  <2>6. Covered(p.clnt, p.addrs, CacheTime - 1 + p.age, ps)
    BY <2>3 DEF Known, AnswersSent
  <2>7. Covered(p.clnt, p.addrs, (CacheTime - 1 + p.age) + 1, ps)'
    BY <2>4, <2>5, <2>6, TickCovered
  <2>8. QED
    BY <2>3, <2>5, <2>7
<1>6. AnswersKept'
  <2>1. PICK n \in 0 .. Len(answers) :
          /\ \A k \in DOMAIN answers : k <= n <=> answers[k].age + 1 >= CacheTime
          /\ answers' = [k \in 1 .. Len(answers) - n |-> Older(answers[k + n])]
    BY DEF Tick, AgedAnswers
  <2>2. Len(answers) \in Nat /\ DOMAIN answers = 1 .. Len(answers)
    BY DEF SysType
  <2> SUFFICES ASSUME NEW k \in DOMAIN answers', NEW q, q = answers'[k], Awaits(q.clnt, q.xid)'
               PROVE  Covered(q.clnt, q.addrs, q.age, {})'
    BY DEF AnswersKept, Awaits, Covered, ServerLeft
  <2>3. k \in 1 .. Len(answers) - n
    BY <2>1
  <2>4. k + n \in DOMAIN answers /\ ~(k + n <= n)
    BY <2>2, <2>3
  <2>5. PICK r \in Stored : r = answers[k + n]
    BY <2>4 DEF SysType
  <2>6. ~(r.age + 1 >= CacheTime) /\ q = Older(r)
    BY <2>1, <2>3, <2>4, <2>5
  <2>7. r.clnt \in Clients /\ r.addrs \in SUBSET Addrs /\ r.age \in Nat /\ r.age + 1 < CacheTime
    BY <2>6, StoredFacts, Times
  <2>8. q.clnt = r.clnt /\ q.xid = r.xid /\ q.addrs = r.addrs /\ q.age = r.age + 1
    BY <2>6, <2>7, OlderStored
  <2>9. Awaits(r.clnt, r.xid)
    BY <2>7, <2>8, TickTrans DEF Awaits
  <2>10. Covered(r.clnt, r.addrs, r.age, {})
    BY <2>4, <2>5, <2>9 DEF Known, AnswersKept
  <2>11. Covered(r.clnt, r.addrs, r.age + 1, {})'
    BY <2>7, <2>10, TickCovered
  <2>12. QED
    BY <2>8, <2>11
<1>7. ReleasedGone'
  <2> SUFFICES ASSUME NEW m \in net', m.type = "RELEASE" PROVE Gone(m.clnt)'
    BY DEF ReleasedGone
  <2>1. PICK p \in net : p.age < MaxDelay /\ m = Older(p)
    BY <1>4
  <2>2. p \in Sent
    BY DEF SysType
  <2>3. p.type = "RELEASE" /\ p.clnt = m.clnt /\ m.clnt \in Clients
    BY <2>1, <2>2, OlderSent, SentFacts
  <2>4. Gone(m.clnt)
    BY <2>3 DEF Known, ReleasedGone
  <2>5. bound' = [c \in Clients |-> bound[c] /\ ~Ends(c)]
    BY DEF Tick
  <2>6. \A a \in Addrs : held'[m.clnt][a] = 0
    BY <2>3, <2>4, AgedHeld DEF Gone
  <2>7. QED
    BY <2>3, <2>4, <2>5, <2>6, TickTrans DEF Gone, Running
<1>8. QED
  BY <1>1, <1>5, <1>6, <1>7 DEF Known

(* A lease leaves the history when the server has granted it again, or when its *)
(* client counts on it no more.                                              *)
LEMMA LostKeeps ==
  ASSUME SysType', NEW ps, Known(ps)', lost' = StillLost(ps)
  PROVE  IInv'
<1>1. ASSUME NEW c \in Clients, NEW a \in Addrs, <<c, a>> \in ps, <<c, a>> \notin lost',
             Counted(c, a)'
      PROVE  ServerLeft(c, a)' >= Valid
  <2>1. ~(ServerLeft(c, a)' < Valid)
    BY <1>1 DEF StillLost
  <2>2. QED
    BY <2>1, LeftTypeNext, Times
<1>2. HeldBounded(lost)'
  <2> SUFFICES ASSUME NEW c \in Clients, NEW a \in Addrs, <<c, a>> \notin lost'
               PROVE  held'[c][a] <= ServerLeft(c, a)' + Overhang
    BY DEF HeldBounded, Overhang
  <2>1. held'[c][a] \in Nat /\ held'[c][a] <= Valid /\ Overhang \in Nat /\ ServerLeft(c, a)' \in Nat
    BY LeftTypeNext, Times DEF SysType, Overhang
  <2>2. CASE <<c, a>> \notin ps
    BY <2>2 DEF Known, HeldBounded, Overhang
  <2>3. CASE <<c, a>> \in ps
    <3>1. held'[c][a] > 0 => ServerLeft(c, a)' >= Valid
      BY <1>1, <2>3 DEF Counted
    <3>2. QED
      BY <2>1, <3>1, Times
  <2>4. QED
    BY <2>2, <2>3
<1>3. AnswersSent(lost)'
  <2> SUFFICES ASSUME NEW m \in net', m.type = "REPLY", NEW a \in m.addrs, <<m.clnt, a>> \notin lost'
               PROVE  Valid <= ServerLeft(m.clnt, a)' + (CacheTime - 1 + m.age)
    BY DEF Known, AnswersSent, Covered
  <2>1. m.clnt \in Clients /\ a \in Addrs /\ m.age \in Nat
    BY SentFacts DEF SysType
  <2>2. CASE <<m.clnt, a>> \notin ps
    BY <2>2 DEF Known, AnswersSent, Covered
  <2>3. CASE <<m.clnt, a>> \in ps
    <3>1. ServerLeft(m.clnt, a)' >= Valid
      BY <1>1, <2>1, <2>3 DEF Counted
    <3>2. QED
      BY <2>1, <3>1, LeftTypeNext, Times
  <2>4. QED
    BY <2>2, <2>3
<1>4. QED
  BY <1>2, <1>3 DEF IInv, Known

LEMMA NextIInv == SysType /\ SysType' /\ IInv /\ [Next]_vars => IInv'
<1> SUFFICES ASSUME SysType, SysType', Known(lost), [Next]_vars PROVE IInv'
  BY DEF IInv
<1>1. CASE UNCHANGED vars
  BY <1>1 DEF vars, sysVars, srvVars, clntVars, IInv, Known, HeldBounded, Overhang, ServerLeft,
              AnswersSent, AnswersKept, ReleasedGone, Awaits, Covered, Gone, Running
<1>2. CASE Step /\ lost' = StillLost(lost)
  <2>1. PICK ps : ps = lost
    OBVIOUS
  <2>2. Known(ps) /\ lost' = StillLost(ps)
    BY <1>2, <2>1
  <2>3. ASSUME Dump PROVE Known(ps)'
    BY <2>2, <2>3 DEF Dump, clntVars, Known, HeldBounded, Overhang, ServerLeft,
                      AnswersSent, AnswersKept, ReleasedGone, Awaits, Covered, Gone, Running
  <2>4. Known(ps)'
    BY <1>2, <2>2, <2>3, ClientIInv, AcceptIInv, ServeIInv, TickIInv DEF Step
  <2>5. QED
    BY <2>2, <2>4, LostKeeps
<1>3. CASE RestartServer /\ lost' = StillLost(lost \cup Taken)
  <2>1. PICK ps, qs : ps = lost /\ qs = ps \cup Taken
    OBVIOUS
  <2>2. Known(ps) /\ lost' = StillLost(qs)
    BY <1>3, <2>1
  <2>3. Known(qs)'
    BY <1>3, <2>1, <2>2, RestartIInv
  <2>4. QED
    BY <2>2, <2>3, LostKeeps
<1>4. QED
  BY <1>1, <1>2, <1>3 DEF Next

(* While the server waits for a message the file has what it counts. *)
Saved == busy \/ file = db

LEMMA NextSaved == SysType /\ Saved /\ [Next]_vars => Saved'
<1> SUFFICES ASSUME SysType, Saved, [Next]_vars PROVE Saved'
  OBVIOUS
<1>1. CASE UNCHANGED srvVars
  BY <1>1 DEF srvVars, Saved
<1>2. CASE Dump \/ RestartServer
  BY <1>2 DEF Dump, RestartServer, Saved
<1>3. CASE Tick
  BY <1>3 DEF Tick, Saved
<1>4. ASSUME NEW m \in net, Serve(m) PROVE Saved'
  BY <1>1, <1>4 DEF Serve, AnswerAgain, Extend, Assign, Refuse, EndLease, Ignore, Reply, Saved
<1>5. ASSUME NEW c \in Clients, Client(c) PROVE Saved'
  BY <1>1, <1>5 DEF Client, Ask, GiveUp, Renew, Rebind, Release, Forget
<1>6. ASSUME NEW m \in net, Accept(m) PROVE Saved'
  BY <1>1, <1>6 DEF Accept
<1>7. QED
  BY <1>1, <1>2, <1>3, <1>4, <1>5, <1>6 DEF Next, Step, vars, sysVars

(* For any number of clients, addresses and ids, clients that share ids or not,  *)
(* and all times: but for a lease that a kill of the server took, no client     *)
(* counts on one for longer than the server does and the age an answer may have. *)
THEOREM OverhangHasBound == Spec => []OverhangBounded
<1>1. IInv => OverhangBounded
  BY DEF IInv, Known, HeldBounded, OverhangBounded
<1>2. Init => TypeOK /\ IInv
  BY InitType, InitIInv
<1>3. TypeOK /\ IInv /\ [Next]_vars => TypeOK' /\ IInv'
  BY NextType, NextIInv
<1>4. QED
  BY <1>1, <1>2, <1>3, PTL DEF Spec

-----------------------------------------------------------------------------
(* What follows for two clients, and for one lease *)

(* Two clients that both count on an address: one of them has none of it left   *)
(* at the server, and counts on it for the age of an answer at most, or a kill  *)
(* took it before the file was written.                                       *)
SharedBriefly ==
  \A c, d \in Clients, a \in Addrs :
    c # d /\ held[c][a] > 0 /\ held[d][a] > 0 =>
      \/ held[c][a] <= Overhang \/ held[d][a] <= Overhang
      \/ <<c, a>> \in lost \/ <<d, a>> \in lost

(* A lease that has time left at the server ends only when its client released  *)
(* it, and then that client neither holds the address nor waits for an answer   *)
(* that would give it back, or in a kill before the file is written: a copy of  *)
(* an old RELEASE, a reused transaction id, another client or a start of a      *)
(* server that was waiting never takes it.                                   *)
EndedByItsOwner ==
  [][\A c \in Clients, a \in Addrs :
       db[a].owner = c /\ db[a].left > 1 /\ db'[a].owner # c =>
         (Gone(c) /\ Gone(c)') \/ (busy /\ RestartServer)]_vars

(* For any clients, addresses, ids and times: an address has one owner at the    *)
(* server, so of two clients that count on it, and lost it in no kill, one is   *)
(* within the bound above.                                                   *)
THEOREM SharingIsBrief == Spec => []SharedBriefly
<1>1. TypeOK /\ IInv => SharedBriefly
  <2> SUFFICES ASSUME TypeOK, IInv, NEW c \in Clients, NEW d \in Clients, NEW a \in Addrs, c # d,
                      <<c, a>> \notin lost, <<d, a>> \notin lost
               PROVE  held[c][a] <= Overhang \/ held[d][a] <= Overhang
    BY DEF SharedBriefly
  <2>1. /\ held[c][a] <= ServerLeft(c, a) + Overhang
        /\ held[d][a] <= ServerLeft(d, a) + Overhang
    BY DEF IInv, Known, HeldBounded
  <2>2. ServerLeft(c, a) = 0 \/ ServerLeft(d, a) = 0
    BY DEF ServerLeft
  <2>3. Overhang \in Int
    BY Times DEF Overhang
  <2>4. 0 + Overhang = Overhang
    BY <2>3
  <2>5. CASE ServerLeft(c, a) = 0
    BY <2>1, <2>4, <2>5
  <2>6. CASE ServerLeft(d, a) = 0
    BY <2>1, <2>4, <2>6
  <2>7. QED
    BY <2>2, <2>5, <2>6
<1>2. Init => TypeOK /\ IInv
  BY InitType, InitIInv
<1>3. TypeOK /\ IInv /\ [Next]_vars => TypeOK' /\ IInv'
  BY NextType, NextIInv
<1>4. QED
  BY <1>1, <1>2, <1>3, PTL DEF Spec

(* For any clients, addresses, ids and times the server takes no running lease    *)
(* from a client that still counts on it, unless it is killed while it has the   *)
(* file to write.                                                            *)
THEOREM LeaseIsNotTaken == Spec => EndedByItsOwner
<1> DEFINE A == \A c \in Clients, a \in Addrs :
                  db[a].owner = c /\ db[a].left > 1 /\ db'[a].owner # c =>
                    (Gone(c) /\ Gone(c)') \/ (busy /\ RestartServer)
<1>1. TypeOK /\ IInv /\ Saved /\ [Next]_vars => [A]_vars
  <2> SUFFICES ASSUME TypeOK, IInv, Saved, [Next]_vars, NEW c \in Clients, NEW a \in Addrs,
                      db[a].owner = c, db[a].left > 1, db'[a].owner # c
               PROVE  (Gone(c) /\ Gone(c)') \/ (busy /\ RestartServer)
    OBVIOUS
  <2>1. db \in [Addrs -> Lease] /\ db[a] \in Lease /\ c # Nobody
    BY NobodyAssumption DEF TypeOK
  <2>2. ASSUME UNCHANGED db PROVE FALSE
    BY <2>2
  <2>3. CASE \E d \in Clients : Client(d)
    BY <2>2, <2>3 DEF Client, Ask, GiveUp, Renew, Rebind, Release, Forget, srvVars
  <2>4. CASE RestartServer
    <3>1. busy \/ db' = db
      BY <2>4 DEF RestartServer, Saved
    <3>2. QED
      BY <2>2, <2>4, <3>1
  <2>4a. CASE UNCHANGED vars \/ Dump
    BY <2>2, <2>4a DEF vars, sysVars, srvVars, Dump
  <2>5. CASE Tick
    BY <2>1, <2>5, AgedLease DEF Tick
  <2>6. CASE \E m \in net : Accept(m)
    BY <2>2, <2>6 DEF Accept, srvVars
  <2>7. ASSUME NEW m \in net, Serve(m) PROVE Gone(c) /\ Gone(c)'
    <3>1. CASE AnswerAgain(m) \/ Refuse(m) \/ Ignore(m)
      BY <2>2, <3>1 DEF AnswerAgain, Refuse, Ignore, srvVars
    <3>2. CASE Extend(m)
      <4>1. db'[a] = db[a] \/ db'[a] = [db[a] EXCEPT !.left = Valid]
        BY <2>1, <3>2 DEF Extend
      <4>2. db'[a].owner = db[a].owner
        BY <2>1, <4>1 DEF Lease
      <4>3. QED
        BY <4>2
    <3>3. CASE Assign(m)
      <4>1. PICK b \in FreeAddrs : db' = [db EXCEPT ![b] = [owner |-> m.clnt, left |-> Valid]]
        BY <3>3 DEF Assign
      <4>2. b # a
        BY <2>1 DEF FreeAddrs
      <4>3. QED
        BY <2>1, <4>1, <4>2
    <3>4. CASE EndLease(m)
      <4>1. db' = [e \in Addrs |-> IF e \in m.addrs \cap AddrsOf(m.clnt) THEN Unleased ELSE db[e]]
        BY <3>4 DEF EndLease
      <4>2. a \in AddrsOf(m.clnt)
        BY <4>1
      <4>3. m.clnt = c
        BY <4>2 DEF AddrsOf
      <4>4. m.type = "RELEASE" /\ UNCHANGED clntVars
        BY <3>4 DEF EndLease, Arrived
      <4>5. Gone(c)
        BY <4>3, <4>4 DEF IInv, Known, ReleasedGone
      <4>6. QED
        BY <4>4, <4>5 DEF Gone, Running, clntVars
    <3>5. QED
      BY <2>7, <3>1, <3>2, <3>3, <3>4 DEF Serve
  <2>8. QED
    BY <2>3, <2>4, <2>4a, <2>5, <2>6, <2>7 DEF Next, Step
<1>2. Init => TypeOK /\ IInv /\ Saved
  BY InitType, InitIInv DEF Init, Saved
<1>3. TypeOK /\ IInv /\ Saved /\ [Next]_vars => TypeOK' /\ IInv' /\ Saved'
  BY NextType, NextIInv, NextSaved
<1>4. QED
  BY <1>1, <1>2, <1>3, PTL DEF Spec, EndedByItsOwner
=============================================================================
