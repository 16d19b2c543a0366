-------------------------- MODULE SrvPromiseProofs --------------------------
(***************************************************************************)
(* Proofs about SrvLease that follow a message through its handler: what a   *)
(* REPLY promises stays bound, what an ADVERTISE did is undone and no more,   *)
(* the counters of the classes keep up with the leases, and the whole is a    *)
(* table of leases (LeaseTable).                                             *)
(***************************************************************************)
EXTENDS SrvLeaseProofs

-----------------------------------------------------------------------------
(* What handling one IA option comes to.                                     *)

HeadIAID == Head(msg.ias).iaid
Refused(a) == a = NoAddr /\ UNCHANGED <<db, assigned>>
Reserved(a) == msg.type \in AssignTypes /\ a = FixedAddr[msg.duid] /\ UNCHANGED <<db, assigned>>
Renewed(a) ==
  /\ Binding(msg.duid, HeadIAID, a) \in DOMAIN db
  /\ db' = Refreshed(db, BindingsOf(msg.duid, HeadIAID)) /\ UNCHANGED assigned
Bound(a) ==
  /\ a \in Addrs /\ AddrIsFree(a) /\ FixedAddr[msg.duid] = NoAddr
  /\ BindingsOf(msg.duid, HeadIAID) = {} /\ msg.type \in AssignTypes
  /\ db' = WithLease(db, Binding(msg.duid, HeadIAID, a), Valid) /\ assigned' = CountedIn(a)
OptionAnswered(a) ==
  /\ Handling(MsgTypes \ {"RELEASE", "DECLINE"}) /\ Answer(a)
  /\ Refused(a) \/ Reserved(a) \/ Renewed(a) \/ Bound(a)

LEMMA AssignAnswers ==
  ASSUME TypeOK, Assign, ~DrawForever
  PROVE  \E a \in Addrs \cup {NoAddr} : OptionAnswered(a)
<1> USE DEF NotFixed, MayHaveMore, CacheMissed, HintsFailed
<1>0. /\ Handling(AssignTypes \cup {"RENEW", "REBIND"}) => Handling(MsgTypes \ {"RELEASE", "DECLINE"})
      /\ NoBindingFor(AssignTypes) =>
           /\ Handling(MsgTypes \ {"RELEASE", "DECLINE"}) /\ msg.type \in AssignTypes /\ msg.ias # <<>>
           /\ BindingsOf(msg.duid, HeadIAID) = {}
  BY DEF NoBindingFor, Handling, AssignTypes, MsgTypes, HeadIAID
<1>1. ASSUME NEW a \in Addrs, NEW ch, AddrIsFree(a), MayHaveMore, AssignAddr(a, ch)
      PROVE  OptionAnswered(a)
  BY <1>0, <1>1 DEF AssignAddr, OptionAnswered, Bound, HeadIAID
<1>2. CASE RenewBinding
  <2>1. PICK b \in BindingsOf(msg.duid, HeadIAID) :
          Answer(b.addr) /\ db' = Refreshed(db, BindingsOf(msg.duid, HeadIAID))
    BY <1>2 DEF RenewBinding, HeadIAID
  <2>2. b \in DOMAIN db /\ b.duid = msg.duid /\ b.iaid = HeadIAID
    BY DEF BindingsOf
  <2>3. b = Binding(msg.duid, HeadIAID, b.addr) /\ b.addr \in Addrs
    BY <2>2, TypeFacts DEF Binding, Bindings
  <2>4. Renewed(b.addr)
    BY <1>2, <2>1, <2>2, <2>3 DEF RenewBinding, Renewed
  <2> QED BY <1>0, <1>2, <2>1, <2>3, <2>4 DEF RenewBinding, OptionAnswered
<1>3. CASE AssignFixedLease
  <2>1. FixedAddr[msg.duid] \in Addrs \cup {NoAddr}
    BY <1>0, <1>3, HeadIA, ConfigAssumption DEF AssignFixedLease, Messages
  <2> QED BY <1>0, <1>3, <2>1 DEF AssignFixedLease, OptionAnswered, Reserved
<1>4. CASE RefuseMaxLease \/ NoAddrsAvail
  BY <1>0, <1>4 DEF RefuseMaxLease, NoAddrsAvail, OptionAnswered, Refused
<1>5. CASE AssignCachedAddr
  BY <1>1, <1>5, CacheEntryType DEF AssignCachedAddr, CachedUsable
<1>6. CASE AssignRequestedAddr
  <2>1. PICK k \in DOMAIN Hints : \E a \in Candidates(Hints[k]) : AssignAddr(a, CacheAfterMiss)
    BY <1>6 DEF AssignRequestedAddr
  <2>2. \A a \in Candidates(Hints[k]) : AddrIsFree(a) /\ a \in Addrs
    BY <1>0, <1>6, HintType DEF AssignRequestedAddr, Candidates, FreeIn
  <2> QED BY <1>1, <1>6, <2>1, <2>2 DEF AssignRequestedAddr
<1>7. CASE AssignRandomAddr
  <2>1. \A p : \A a \in FreeIn(p) : AddrIsFree(a) /\ a \in Addrs
    BY DEF FreeIn
  <2> QED BY <1>1, <1>7, <2>1 DEF AssignRandomAddr
<1> QED BY <1>2, <1>3, <1>4, <1>5, <1>6, <1>7 DEF Assign

(* Every way an option may end; the first is the answer to it. *)
LEMMA OptionOutcomes ==
  ASSUME TypeOK, HandleOption
  PROVE  \/ \E a \in Addrs \cup {NoAddr} : OptionAnswered(a)
         \/ DrawForever \/ RebindDiscarded \/ SkipEmptyIA \/ ReleaseAddr \/ DeclineAddr
<1>1. CASE RenewNoBinding
  BY <1>1 DEF RenewNoBinding, NoBindingFor, Handling, MsgTypes, OptionAnswered, Refused
<1> QED BY <1>1, AssignAnswers DEF HandleOption

(* What a list of answers gains, and what is left of the options.            *)
LEMMA OneAnswerMore ==
  ASSUME TypeOK, msg.ias # <<>>, NEW a \in Addrs \cup {NoAddr}, Answer(a)
  PROVE  /\ DOMAIN ans = 1 .. Len(ans) /\ Len(ans) \in Nat
         /\ DOMAIN ans' = 1 .. Len(ans) + 1
         /\ \A k \in 1 .. Len(ans) : ans'[k] = ans[k]
         /\ ans'[Len(ans) + 1] = [iaid |-> HeadIAID, addr |-> a]
         /\ msg' = [type |-> msg.type, duid |-> msg.duid, ias |-> Tail(msg.ias)]
<1> DEFINE x == [iaid |-> HeadIAID, addr |-> a]
           T == [iaid : IAIDs, addr : Addrs \cup {NoAddr}]
<1>1. x \in T /\ ans \in Seq(T)
  BY HeadIA DEF HeadIAID, TypeOK
<1>2. ans' = Append(ans, x)
  BY DEF Answer, HeadIAID
<1> HIDE DEF x, T
<1>3. /\ DOMAIN ans = 1 .. Len(ans) /\ Len(ans) \in Nat /\ DOMAIN ans' = 1 .. Len(ans) + 1
      /\ \A k \in 1 .. Len(ans) : ans'[k] = ans[k]
      /\ ans'[Len(ans) + 1] = x
  BY <1>1, <1>2, AppendProperties, LenProperties
<1>4. msg' = [msg EXCEPT !.ias = Tail(msg.ias)] /\ msg \in Messages
  BY HeadIA DEF Answer
<1>5. msg' = [type |-> msg.type, duid |-> msg.duid, ias |-> Tail(msg.ias)]
  BY <1>4 DEF Messages
<1> QED BY <1>3, <1>5 DEF x

LEMMA TailOfOptions ==
  ASSUME TypeOK, msg.ias # <<>>
  PROVE  /\ DOMAIN msg.ias = 1 .. Len(msg.ias) /\ Len(msg.ias) \in Nat \ {0}
         /\ Len(Tail(msg.ias)) = Len(msg.ias) - 1
         /\ DOMAIN Tail(msg.ias) = 1 .. Len(msg.ias) - 1
         /\ \A k \in 1 .. Len(msg.ias) - 1 : Tail(msg.ias)[k] = msg.ias[k + 1]
         /\ Head(msg.ias) = msg.ias[1]
<1>1. msg.ias \in Seq(IAOptions)
  BY TypeFacts
<1>2. Tail(msg.ias) \in Seq(IAOptions)
  BY <1>1, HeadTailProperties
<1>3. Len(msg.ias) \in Nat /\ Len(msg.ias) # 0
  BY <1>1, LenProperties, EmptySeq
<1> QED BY <1>1, <1>2, <1>3, HeadTailProperties, LenProperties

(* An answered option leaves the message, and its answer joins the others.    *)
LEMMA AnswerShape ==
  ASSUME TypeOK, NEW a \in Addrs \cup {NoAddr}, OptionAnswered(a)
  PROVE  /\ pc = "options" /\ pc' = pc /\ msg.ias # <<>> /\ msg \in Messages
         /\ disk' = disk /\ held' = held
         /\ msg.type \notin {"RELEASE", "DECLINE"}
         /\ DOMAIN ans = 1 .. Len(ans) /\ Len(ans) \in Nat /\ DOMAIN ans' = 1 .. Len(ans) + 1
         /\ \A k \in 1 .. Len(ans) : ans'[k] = ans[k]
         /\ ans'[Len(ans) + 1] = [iaid |-> HeadIAID, addr |-> a]
         /\ msg'.type = msg.type /\ msg'.duid = msg.duid
         /\ DOMAIN msg.ias = 1 .. Len(msg.ias) /\ Len(msg.ias) \in Nat \ {0}
         /\ Len(msg'.ias) = Len(msg.ias) - 1
         /\ DOMAIN msg'.ias = 1 .. Len(msg.ias) - 1
         /\ \A k \in 1 .. Len(msg.ias) - 1 : msg'.ias[k] = msg.ias[k + 1]
         /\ HeadIAID = msg.ias[1].iaid
<1>1. /\ pc = "options" /\ pc' = pc /\ msg.ias # <<>> /\ disk' = disk /\ held' = held
      /\ Answer(a) /\ msg \in Messages /\ msg.type \notin {"RELEASE", "DECLINE"}
  BY HeadIA DEF OptionAnswered, Handling, Answer
<1>2. /\ DOMAIN ans = 1 .. Len(ans) /\ Len(ans) \in Nat /\ DOMAIN ans' = 1 .. Len(ans) + 1
      /\ \A k \in 1 .. Len(ans) : ans'[k] = ans[k]
      /\ ans'[Len(ans) + 1] = [iaid |-> HeadIAID, addr |-> a]
      /\ msg' = [type |-> msg.type, duid |-> msg.duid, ias |-> Tail(msg.ias)]
  BY <1>1, OneAnswerMore
<1>m. msg'.type = msg.type /\ msg'.duid = msg.duid /\ msg'.ias = Tail(msg.ias)
  BY <1>2
<1>3. /\ DOMAIN msg.ias = 1 .. Len(msg.ias) /\ Len(msg.ias) \in Nat \ {0}
      /\ Len(msg'.ias) = Len(msg.ias) - 1
      /\ DOMAIN msg'.ias = 1 .. Len(msg.ias) - 1
      /\ \A k \in 1 .. Len(msg.ias) - 1 : msg'.ias[k] = msg.ias[k + 1]
      /\ HeadIAID = msg.ias[1].iaid
  BY <1>1, <1>m, TailOfOptions DEF HeadIAID
<1> QED BY <1>1, <1>2, <1>m, <1>3

LEMMA TailOfAnswers ==
  ASSUME TypeOK, ans # <<>>
  PROVE  /\ DOMAIN ans = 1 .. Len(ans) /\ Len(ans) \in Nat \ {0} /\ Head(ans) = ans[1]
         /\ ans[1] \in [iaid : IAIDs, addr : Addrs \cup {NoAddr}]
         /\ DOMAIN Tail(ans) = 1 .. Len(ans) - 1
         /\ \A k \in 1 .. Len(ans) - 1 : Tail(ans)[k] = ans[k + 1]
<1> DEFINE T == [iaid : IAIDs, addr : Addrs \cup {NoAddr}]
<1>1. ans \in Seq(T)
  BY DEF TypeOK
<1> HIDE DEF T
<1>2. Tail(ans) \in Seq(T) /\ Len(ans) \in Nat /\ Len(ans) # 0
  BY <1>1, HeadTailProperties, LenProperties, EmptySeq
<1>3. ans[1] \in T
  BY <1>1, <1>2, ElementOfSeq
<1>4. Len(Tail(ans)) = Len(ans) - 1
  BY <1>1, HeadTailProperties
<1>5. DOMAIN ans = 1 .. Len(ans) /\ DOMAIN Tail(ans) = 1 .. Len(Tail(ans))
  BY <1>1, <1>2, LenProperties
<1> QED BY <1>1, <1>2, <1>3, <1>4, <1>5, HeadTailProperties DEF T

(* RELEASE and DECLINE: what is left of the options asks for no more.         *)
LEMMA RestOfOptions ==
  ASSUME TypeOK, msg.ias # <<>>, Head(msg.ias).addrs # <<>>
  PROVE  /\ RestOfAddrs \in Seq(IAOptions) /\ Len(RestOfAddrs) <= Len(msg.ias)
         /\ \A k \in DOMAIN RestOfAddrs : \E j \in DOMAIN msg.ias :
              /\ RestOfAddrs[k].iaid = msg.ias[j].iaid
              /\ Range(RestOfAddrs[k].addrs) \subseteq Range(msg.ias[j].addrs)
<1> DEFINE s == Head(msg.ias).addrs
           one == [Head(msg.ias) EXCEPT !.addrs = Tail(s)]
           rest == Tail(msg.ias)
<1>1. /\ DOMAIN msg.ias = 1 .. Len(msg.ias) /\ Len(msg.ias) \in Nat \ {0}
      /\ rest \in Seq(IAOptions) /\ Len(rest) = Len(msg.ias) - 1 /\ DOMAIN rest = 1 .. Len(msg.ias) - 1
      /\ \A k \in 1 .. Len(msg.ias) - 1 : rest[k] = msg.ias[k + 1]
      /\ Head(msg.ias) = msg.ias[1]
  BY TailOfOptions, HeadIA
<1>2. s \in Seq(Addrs) /\ Tail(s) \in Seq(Addrs)
  BY HeadIA, HeadTailProperties
<1>3. one \in IAOptions /\ one.iaid = msg.ias[1].iaid /\ one.addrs = Tail(s)
  BY <1>1, <1>2, HeadIA DEF IAOptions
<1>4. Range(Tail(s)) \subseteq Range(s)
  <2>1. DOMAIN s = 1 .. Len(s) /\ DOMAIN Tail(s) = 1 .. Len(s) - 1 /\ Len(s) \in Nat
        /\ \A k \in 1 .. Len(s) - 1 : Tail(s)[k] = s[k + 1]
    BY <1>2, HeadTailProperties, LenProperties
  <2>2. \A k \in DOMAIN Tail(s) : k + 1 \in DOMAIN s /\ Tail(s)[k] = s[k + 1]
    BY <2>1
  <2> HIDE DEF s
  <2> QED BY <2>2 DEF Range
<1>5. Range(one.addrs) \subseteq Range(msg.ias[1].addrs)
  BY <1>1, <1>3, <1>4
<1> HIDE DEF one, rest
<1>6. CASE Len(s) > 1
  <2>1. RestOfAddrs = <<one>> \o rest
    BY <1>6 DEF RestOfAddrs, one, rest
  <2>2. <<one>> \in Seq(IAOptions) /\ Len(<<one>>) = 1 /\ <<one>>[1] = one
    BY <1>3
  <2>3. /\ RestOfAddrs \in Seq(IAOptions) /\ Len(RestOfAddrs) = 1 + Len(rest)
        /\ \A k \in 1 .. Len(RestOfAddrs) : RestOfAddrs[k] = IF k <= 1 THEN <<one>>[k] ELSE rest[k - 1]
    BY <1>1, <2>1, <2>2, ConcatProperties
  <2>4. DOMAIN RestOfAddrs = 1 .. Len(msg.ias) /\ Len(RestOfAddrs) = Len(msg.ias)
    BY <1>1, <2>3, LenProperties
  <2>5. ASSUME NEW k \in DOMAIN RestOfAddrs, k # 1
        PROVE  k \in DOMAIN msg.ias /\ RestOfAddrs[k] = msg.ias[k]
    <3>1. k \in 1 .. Len(msg.ias) /\ k - 1 \in 1 .. Len(msg.ias) - 1 /\ (k - 1) + 1 = k
      BY <1>1, <2>4, <2>5
    <3>2. RestOfAddrs[k] = rest[k - 1]
      BY <2>3, <2>4, <3>1
    <3> QED BY <1>1, <3>1, <3>2
  <2>6. 1 \in DOMAIN msg.ias /\ RestOfAddrs[1] = one
    BY <1>1, <2>2, <2>3, <2>4
  <2> QED BY <1>1, <1>3, <1>5, <2>3, <2>4, <2>5, <2>6
<1>7. CASE ~(Len(s) > 1)
  <2>1. RestOfAddrs = rest
    BY <1>7 DEF RestOfAddrs, rest
  <2>2. \A k \in DOMAIN rest : k + 1 \in DOMAIN msg.ias /\ rest[k] = msg.ias[k + 1]
    BY <1>1
  <2> QED BY <1>1, <2>1, <2>2
<1> QED BY <1>6, <1>7

-----------------------------------------------------------------------------
(* A server between two messages keeps nothing of the last one, and undoes only *)
(* what it did for a SOLICIT.                                                *)
Phases ==
  /\ pc \in {"select", "duties", "expire", "down"} => msg = NoMsg /\ ans = <<>>
  /\ pc = "undo" => msg.type = "SOLICIT"

LEMMA OptionKeepsPlace ==
  ASSUME TypeOK, HandleOption
  PROVE  pc = "options" /\ pc' \in {"options", "dump", "hung"}
<1>1. CASE \E a \in Addrs \cup {NoAddr} : OptionAnswered(a)
  BY <1>1 DEF OptionAnswered, Handling, Answer
<1>2. CASE DrawForever \/ RebindDiscarded \/ SkipEmptyIA \/ ReleaseAddr \/ DeclineAddr
  BY <1>2 DEF DrawForever, CacheMissed, HintsFailed, MayHaveMore, NotFixed, RebindDiscarded,
       NoBindingFor, SkipEmptyIA, ReleaseAddr, DeclineAddr, Handling
<1> QED BY <1>1, <1>2, OptionOutcomes

LEMMA PhasesStep ==
  ASSUME TypeOK, Phases, [Next]_vars
  PROVE  Phases'
<1>1. CASE HandleOption
  BY <1>1, OptionKeepsPlace DEF Phases
<1>2. CASE SendReply \/ StartUndo \/ UndoAddr \/ SendAdvertise
  BY <1>2 DEF SendReply, StartUndo, UndoAddr, SendAdvertise, srvVars, Phases
<1>3. CASE Dump \/ Wake \/ RemoveExpired \/ SaveExpired \/ NothingExpired \/ Spin
  BY <1>3 DEF Dump, Wake, RemoveExpired, SaveExpired, NothingExpired, Spin, srvVars, vars, Phases
<1>4. CASE \E t \in MsgTypes, c \in Clients, ias \in MsgIAs : Receive(t, c, ias)
  BY <1>4 DEF Receive, Phases
<1>5. CASE Tick \/ \E b \in DOMAIN held : Forget(b)
  BY <1>5 DEF Tick, Forget, srvVars, Phases
<1>6. CASE Shutdown \/ Crash \/ Restart
  BY <1>6 DEF Shutdown, Crash, Restart, Phases
<1>7. CASE UNCHANGED vars
  BY <1>7 DEF vars, Phases
<1> QED BY <1>1, <1>2, <1>3, <1>4, <1>5, <1>6, <1>7 DEF Next, Server, Environment

-----------------------------------------------------------------------------
(* How many leases a class has.                                              *)

LeasesIn(p, d) == Cardinality(LeasedIn(p, d))

LEMMA LeasesType ==
  ASSUME NEW d, DBType(d), NEW p
  PROVE  IsFiniteSet(LeasedIn(p, d)) /\ LeasesIn(p, d) \in Nat
<1>1. LeasedIn(p, d) \in SUBSET Bindings
  BY DEF LeasedIn, DBType
<1> QED BY <1>1, BindingsFinite, FS_Subset, FS_CardinalityType DEF LeasesIn

LEMMA LeasesOfFewer ==
  ASSUME NEW d, DBType(d), NEW e, DOMAIN e \subseteq DOMAIN d, NEW p
  PROVE  LeasesIn(p, e) \in Nat /\ LeasesIn(p, e) <= LeasesIn(p, d)
<1>1. LeasedIn(p, e) \in SUBSET LeasedIn(p, d)
  BY DEF LeasedIn
<1> QED BY <1>1, LeasesType, FS_Subset, FS_CardinalityType DEF LeasesIn

LEMMA LeasesOfOneMore ==
  ASSUME NEW d, DBType(d), NEW e, NEW b, DOMAIN e = DOMAIN d \cup {b}, NEW p
  PROVE  /\ LeasesIn(p, e) \in Nat
         /\ LeasesIn(p, e) <= LeasesIn(p, d) + (IF p = PoolOf[b.addr] THEN 1 ELSE 0)
<1>1. IsFiniteSet(LeasedIn(p, d)) /\ LeasesIn(p, d) \in Nat
  BY LeasesType
<1>2. CASE p = PoolOf[b.addr]
  <2>1. LeasedIn(p, e) = LeasedIn(p, d) \cup {b}
    BY <1>2 DEF LeasedIn
  <2>2. Cardinality(LeasedIn(p, d) \cup {b}) = LeasesIn(p, d) \/ Cardinality(LeasedIn(p, d) \cup {b}) = LeasesIn(p, d) + 1
    BY <1>1, FS_AddElement DEF LeasesIn
  <2>3. LeasesIn(p, e) = LeasesIn(p, d) \/ LeasesIn(p, e) = LeasesIn(p, d) + 1
    BY <2>1, <2>2 DEF LeasesIn
  <2> QED BY <1>1, <1>2, <2>3
<1>3. CASE p # PoolOf[b.addr]
  <2>1. LeasedIn(p, e) = LeasedIn(p, d)
    BY <1>3 DEF LeasedIn
  <2> QED BY <1>1, <1>3, <2>1 DEF LeasesIn
<1> QED BY <1>2, <1>3

LEMMA LeasesOfOneLess ==
  ASSUME NEW d, DBType(d), NEW e, NEW b \in DOMAIN d, DOMAIN e = DOMAIN d \ {b}, NEW p
  PROVE  /\ LeasesIn(p, e) = LeasesIn(p, d) - (IF p = PoolOf[b.addr] THEN 1 ELSE 0)
         /\ p = PoolOf[b.addr] => LeasesIn(p, d) > 0
<1>1. IsFiniteSet(LeasedIn(p, d)) /\ LeasesIn(p, d) \in Nat
  BY LeasesType
<1>2. CASE p = PoolOf[b.addr]
  <2>1. LeasedIn(p, e) = LeasedIn(p, d) \ {b} /\ b \in LeasedIn(p, d)
    BY <1>2 DEF LeasedIn
  <2>2. LeasesIn(p, d) # 0
    BY <1>1, <2>1, FS_EmptySet DEF LeasesIn
  <2>3. Cardinality(LeasedIn(p, d) \ {b}) = LeasesIn(p, d) - 1
    BY <1>1, <2>1, FS_RemoveElement DEF LeasesIn
  <2>4. LeasesIn(p, e) = LeasesIn(p, d) - 1
    BY <2>1, <2>3 DEF LeasesIn
  <2> QED BY <1>1, <1>2, <2>2, <2>4
<1>3. CASE p # PoolOf[b.addr]
  <2>1. LeasedIn(p, e) = LeasedIn(p, d)
    BY <1>3 DEF LeasedIn
  <2> QED BY <1>1, <1>3, <2>1 DEF LeasesIn
<1> QED BY <1>2, <1>3

Distinct(ias) == \A j, k \in DOMAIN ias : ias[j].iaid = ias[k].iaid => j = k

(* The counters are wide enough for the leases they count, and no message     *)
(* names an IA twice, or its lease would be counted out twice.               *)
Countable == MaxAssigned < CounterMod /\ \A ias \in MsgIAs : Distinct(ias)

(* A class without a reserved address: the undoing of an ADVERTISE counts an   *)
(* address out of it only if it was counted in.                              *)
Plain == {p \in Pools : ~HasReserved(p)}
Covers(d, n) == \A p \in Plain : LeasesIn(p, d) <= n[p]

(* A counter has room for the IAs of the message that are not handled yet.    *)
Room == IF pc = "options" THEN Len(msg.ias) ELSE 0
InRange ==
  \A p \in Plain : assigned[p] + Room <= MaxAssigned /\ LeasesIn(p, disk.db) <= MaxAssigned

(* What a SOLICIT put in the answer and a class without reservations counts is *)
(* leased, each of them once, so that counting it out is right.               *)
Listed(k) == Binding(msg.duid, ans[k].iaid, ans[k].addr)
CountedOnce ==
  /\ \A k \in DOMAIN ans :
       ans[k].addr # NoAddr /\ PoolOf[ans[k].addr] \in Plain => Listed(k) \in DOMAIN db
  /\ Distinct(ans)
  /\ pc = "options" =>
       /\ Distinct(msg.ias)
       /\ \A j \in DOMAIN ans, k \in DOMAIN msg.ias : ans[j].iaid # msg.ias[k].iaid
Undoable == pc \in {"options", "undo"} /\ msg.type = "SOLICIT" => CountedOnce

CountInv == Phases /\ InRange /\ Undoable /\ Covers(db, assigned)

LEMMA CountersType ==
  ASSUME TypeOK
  PROVE  /\ \A p \in Pools : assigned[p] \in Nat
         /\ MaxAssigned \in Nat /\ CounterMod \in Nat \ {0} /\ NoPool \notin Pools
         /\ Room \in Nat
<1>1. \A p \in Pools : assigned[p] \in Nat
  BY BoundsAssumption DEF TypeOK, Counts
<1>2. Room \in Nat
  BY TypeFacts, LenProperties DEF Room
<1> QED BY <1>1, <1>2, BoundsAssumption, NamesAssumption

(* Counting in and out, away from the ends of the range.                      *)
LEMMA CountedInIs ==
  ASSUME TypeOK, Countable, NEW a, NEW p \in Pools, assigned[p] < MaxAssigned
  PROVE  CountedIn(a)[p] = assigned[p] + (IF p = PoolOf[a] THEN 1 ELSE 0)
BY CountersType DEF Countable, CountedIn, Incr

LEMMA CountedOutIs ==
  ASSUME TypeOK, NEW a, NEW p \in Pools, p = PoolOf[a] => assigned[p] > 0
  PROVE  CountedOut(a)[p] = assigned[p] - (IF p = PoolOf[a] THEN 1 ELSE 0)
BY CountersType DEF CountedOut, Decr

(* A lease that goes and is counted out.                                     *)
LEMMA CountedOutWithLease ==
  ASSUME TypeOK, Covers(db, assigned), NEW b \in DOMAIN db,
         db' = WithoutLease(db, b), assigned' = CountedOut(b.addr)
  PROVE  /\ Covers(db', assigned') /\ DOMAIN db' = DOMAIN db \ {b}
         /\ \A p \in Plain : assigned'[p] <= assigned[p]
<1>1. DBType(db) /\ DOMAIN db' = DOMAIN db \ {b}
  BY TypeFacts DEF WithoutLease, Restrict
<1>2. ASSUME NEW p \in Plain
      PROVE  LeasesIn(p, db') <= assigned'[p] /\ assigned'[p] <= assigned[p]
  <2>0. p \in Pools
    BY DEF Plain
  <2>1. /\ LeasesIn(p, db') = LeasesIn(p, db) - (IF p = PoolOf[b.addr] THEN 1 ELSE 0)
        /\ p = PoolOf[b.addr] => LeasesIn(p, db) > 0
    BY <1>1, LeasesOfOneLess
  <2>2. LeasesIn(p, db) \in Nat /\ assigned[p] \in Nat /\ LeasesIn(p, db) <= assigned[p]
    BY <1>1, <2>0, LeasesType, CountersType DEF Covers
  <2>3. p = PoolOf[b.addr] => assigned[p] > 0
    BY <2>1, <2>2
  <2>4. assigned'[p] = assigned[p] - (IF p = PoolOf[b.addr] THEN 1 ELSE 0)
    BY <2>0, <2>3, CountedOutIs
  <2> QED BY <2>1, <2>2, <2>4
<1> QED BY <1>1, <1>2 DEF Covers

(* The leases become no more and the counters stay.                          *)
LEMMA FewerLeases ==
  ASSUME TypeOK, InRange, Covers(db, assigned), assigned' = assigned,
         DOMAIN db' \subseteq DOMAIN db,
         DOMAIN disk'.db \subseteq DOMAIN disk.db \/ DOMAIN disk'.db \subseteq DOMAIN db,
         Room' \in Nat, Room' <= Room
  PROVE  InRange' /\ Covers(db', assigned')
<1>1. DBType(db) /\ DBType(disk.db)
  BY TypeFacts
<1>2. ASSUME NEW p \in Plain
      PROVE  /\ LeasesIn(p, db') <= assigned'[p]
             /\ assigned'[p] + Room' <= MaxAssigned /\ LeasesIn(p, disk'.db) <= MaxAssigned
  <2>1. assigned[p] \in Nat /\ MaxAssigned \in Nat /\ Room \in Nat
    BY CountersType DEF Plain
  <2>2. /\ LeasesIn(p, db) <= assigned[p] /\ assigned[p] + Room <= MaxAssigned
        /\ LeasesIn(p, disk.db) <= MaxAssigned
    BY DEF InRange, Covers
  <2>3. LeasesIn(p, db) \in Nat /\ LeasesIn(p, disk.db) \in Nat
    BY <1>1, LeasesType
  <2>4. LeasesIn(p, db') \in Nat /\ LeasesIn(p, db') <= LeasesIn(p, db)
    BY <1>1, LeasesOfFewer
  <2>5. LeasesIn(p, disk'.db) <= MaxAssigned
    <3>1. CASE DOMAIN disk'.db \subseteq DOMAIN disk.db
      <4>1. LeasesIn(p, disk'.db) \in Nat /\ LeasesIn(p, disk'.db) <= LeasesIn(p, disk.db)
        BY <1>1, <3>1, LeasesOfFewer
      <4> QED BY <2>1, <2>2, <2>3, <4>1
    <3>2. CASE DOMAIN disk'.db \subseteq DOMAIN db
      <4>1. LeasesIn(p, db) <= MaxAssigned
        BY <2>1, <2>2, <2>3
      <4>2. LeasesIn(p, disk'.db) \in Nat /\ LeasesIn(p, disk'.db) <= LeasesIn(p, db)
        BY <1>1, <3>2, LeasesOfFewer
      <4> QED BY <2>1, <2>3, <4>1, <4>2
    <3> QED BY <3>1, <3>2
  <2> QED BY <2>1, <2>2, <2>3, <2>4, <2>5
<1> QED BY <1>2 DEF InRange, Covers

(* An answer to an option: a new lease is counted, and comes with the answer. *)
LEMMA AnswerCounts ==
  ASSUME TypeOK, Countable, CountInv, NEW a \in Addrs \cup {NoAddr}, OptionAnswered(a)
  PROVE  InRange' /\ Undoable' /\ Covers(db', assigned')
<1>1. /\ pc = "options" /\ pc' = pc /\ msg.ias # <<>> /\ disk' = disk /\ msg \in Messages
  BY AnswerShape
<1>2. /\ DOMAIN ans = 1 .. Len(ans) /\ Len(ans) \in Nat /\ DOMAIN ans' = 1 .. Len(ans) + 1
      /\ \A k \in 1 .. Len(ans) : ans'[k] = ans[k]
      /\ ans'[Len(ans) + 1] = [iaid |-> HeadIAID, addr |-> a]
  BY AnswerShape
<1>m. msg'.type = msg.type /\ msg'.duid = msg.duid
  BY AnswerShape
<1>3. /\ DOMAIN msg.ias = 1 .. Len(msg.ias) /\ Len(msg.ias) \in Nat \ {0}
      /\ Len(msg'.ias) = Len(msg.ias) - 1
      /\ DOMAIN msg'.ias = 1 .. Len(msg.ias) - 1
      /\ \A k \in 1 .. Len(msg.ias) - 1 : msg'.ias[k] = msg.ias[k + 1]
      /\ HeadIAID = msg.ias[1].iaid
  BY AnswerShape
<1>4. Room = Len(msg.ias) /\ Room' = Len(msg.ias) - 1
  BY <1>1, <1>3 DEF Room
<1>5. DOMAIN db \subseteq DOMAIN db'
  BY DEF OptionAnswered, Refused, Reserved, Renewed, Bound, Refreshed, WithLease
<1>6. InRange' /\ Covers(db', assigned')
  <2>1. CASE Bound(a)
    <3> DEFINE b == Binding(msg.duid, HeadIAID, a)
    <3>1. DOMAIN db' = DOMAIN db \cup {b} /\ b.addr = a /\ assigned' = CountedIn(a)
      BY <2>1 DEF Bound, WithLease, Binding
    <3> HIDE DEF b
    <3> SUFFICES ASSUME NEW p \in Pools, p \in Plain
                 PROVE  /\ LeasesIn(p, db') <= assigned'[p]
                        /\ assigned'[p] + Room' <= MaxAssigned /\ LeasesIn(p, disk'.db) <= MaxAssigned
      BY DEF InRange, Covers, Plain
    <3>2. /\ LeasesIn(p, db) <= assigned[p] /\ assigned[p] + Len(msg.ias) <= MaxAssigned
          /\ LeasesIn(p, disk.db) <= MaxAssigned
      BY <1>4 DEF CountInv, InRange, Covers
    <3>3. assigned[p] \in Nat /\ MaxAssigned \in Nat /\ LeasesIn(p, db) \in Nat
      BY CountersType, LeasesType, TypeFacts
    <3>a. \A x, m \in Nat : \A n \in Nat \ {0} : x + n <= m => x < m
      OBVIOUS
    <3>b. assigned[p] < MaxAssigned
      BY <1>3, <3>2, <3>3, <3>a, Zenon
    <3>c. CountedIn(a)[p] = assigned[p] + (IF p = PoolOf[a] THEN 1 ELSE 0)
      BY <3>b, CountedInIs
    <3>4. assigned'[p] = assigned[p] + (IF p = PoolOf[a] THEN 1 ELSE 0)
      BY <3>1, <3>c, Zenon
    <3>5. LeasesIn(p, db') <= LeasesIn(p, db) + (IF p = PoolOf[a] THEN 1 ELSE 0)
          /\ LeasesIn(p, db') \in Nat
      BY <3>1, LeasesOfOneMore, TypeFacts
    <3> QED BY <1>1, <1>3, <1>4, <3>2, <3>3, <3>4, <3>5
  <2>2. CASE ~Bound(a)
    <3>1. DOMAIN db' \subseteq DOMAIN db /\ assigned' = assigned
      BY <2>2 DEF OptionAnswered, Refused, Reserved, Renewed, Refreshed
    <3> QED BY <1>1, <1>3, <1>4, <3>1, FewerLeases DEF CountInv
  <2> QED BY <2>1, <2>2
<1>7. ASSUME msg.type = "SOLICIT" PROVE CountedOnce'
  <2>1. /\ CountedOnce
        /\ \A k \in 1 .. Len(ans) : ans[k].iaid # HeadIAID
    BY <1>1, <1>2, <1>3, <1>7 DEF CountInv, Undoable, CountedOnce
  <2>2. \A k \in 1 .. Len(ans) + 1 : k \in 1 .. Len(ans) \/ k = Len(ans) + 1
    BY <1>2
  <2>3. ASSUME NEW k \in DOMAIN ans', ans'[k].addr # NoAddr, PoolOf[ans'[k].addr] \in Plain
        PROVE  Binding(msg'.duid, ans'[k].iaid, ans'[k].addr) \in DOMAIN db'
    <3>1. CASE k \in 1 .. Len(ans)
      <4>1. Binding(msg.duid, ans[k].iaid, ans[k].addr) \in DOMAIN db
        BY <1>2, <2>1, <2>3, <3>1 DEF CountedOnce, Listed
      <4> QED BY <1>2, <1>m, <1>5, <3>1, <4>1
    <3>2. CASE k = Len(ans) + 1
      <4>1. a # NoAddr /\ PoolOf[a] \in Plain /\ msg.duid \in Clients
        BY <1>1, <1>2, <2>3, <3>2 DEF Messages
      <4>2. a \in Addrs /\ ~AddrReserved(a)
        BY <4>1 DEF Plain, HasReserved
      <4>3. Renewed(a) \/ Bound(a)
        BY <4>1, <4>2 DEF OptionAnswered, Refused, Reserved, AddrReserved
      <4>4. Binding(msg.duid, HeadIAID, a) \in DOMAIN db'
        BY <4>3, <1>5 DEF Renewed, Bound, WithLease
      <4> QED BY <1>2, <1>m, <3>2, <4>4
    <3> QED BY <1>2, <2>2, <3>1, <3>2
  <2>4. Distinct(ans')
    <3> SUFFICES ASSUME NEW j \in DOMAIN ans', NEW k \in DOMAIN ans', ans'[j].iaid = ans'[k].iaid
                 PROVE  j = k
      BY DEF Distinct
    <3>1. CASE j \in 1 .. Len(ans) /\ k \in 1 .. Len(ans)
      BY <1>2, <2>1, <3>1 DEF CountedOnce, Distinct
    <3> QED BY <1>2, <2>1, <2>2, <3>1
  <2>5. Distinct(msg'.ias)
    <3> SUFFICES ASSUME NEW j \in DOMAIN msg'.ias, NEW k \in DOMAIN msg'.ias, msg'.ias[j].iaid = msg'.ias[k].iaid
                 PROVE  j = k
      BY DEF Distinct
    <3>0. j \in 1 .. Len(msg.ias) - 1 /\ k \in 1 .. Len(msg.ias) - 1
      BY <1>3
    <3>1. j + 1 \in DOMAIN msg.ias /\ k + 1 \in DOMAIN msg.ias /\ j \in Nat /\ k \in Nat
      <4>1. \A n \in Nat \ {0} : \A i \in 1 .. n - 1 : i + 1 \in 1 .. n /\ i \in Nat
        OBVIOUS
      <4> QED BY <1>3, <3>0, <4>1, Zenon
    <3>2. msg'.ias[j] = msg.ias[j + 1] /\ msg'.ias[k] = msg.ias[k + 1]
      BY <1>3, <3>0
    <3>3. Distinct(msg.ias) /\ msg.ias[j + 1].iaid = msg.ias[k + 1].iaid
      BY <1>1, <2>1, <3>2 DEF CountedOnce
    <3>4. j + 1 = k + 1
      BY <3>1, <3>3, Zenon DEF Distinct
    <3> QED BY <3>1, <3>4
  <2>6. \A j \in DOMAIN ans', k \in DOMAIN msg'.ias : ans'[j].iaid # msg'.ias[k].iaid
    <3> SUFFICES ASSUME NEW j \in DOMAIN ans', NEW k \in DOMAIN msg'.ias, ans'[j].iaid = msg'.ias[k].iaid
                 PROVE  FALSE
      OBVIOUS
    <3>1. k + 1 \in DOMAIN msg.ias /\ k + 1 # 1 /\ 1 \in DOMAIN msg.ias /\ msg'.ias[k] = msg.ias[k + 1]
      BY <1>3
    <3>2. CASE j \in 1 .. Len(ans)
      BY <1>1, <1>2, <2>1, <3>1, <3>2 DEF CountedOnce
    <3>3. CASE j = Len(ans) + 1
      BY <1>1, <1>2, <1>3, <2>1, <3>1, <3>3 DEF CountedOnce, Distinct
    <3> QED BY <1>2, <2>2, <3>2, <3>3
  <2> QED BY <2>3, <2>4, <2>5, <2>6 DEF CountedOnce, Listed
<1> QED BY <1>1, <1>m, <1>6, <1>7 DEF Undoable

(* An ADVERTISE counts out what it takes back; what it does not take back is   *)
(* in no class, or in one with a reserved address.                           *)
LEMMA UndoCounts ==
  ASSUME TypeOK, Countable, CountInv, UndoAddr
  PROVE  InRange' /\ Undoable' /\ Covers(db', assigned')
<1> DEFINE b == Binding(msg.duid, Head(ans).iaid, Head(ans).addr)
<1>1. /\ pc = "undo" /\ pc' = pc /\ msg' = msg /\ disk' = disk /\ ans' = Tail(ans) /\ ans # <<>>
      /\ \/ b.addr = NoAddr /\ UNCHANGED <<db, assigned>>
         \/ b.addr # NoAddr /\ DelClntAddr(b) /\ assigned' = CountedOut(b.addr)
  BY DEF UndoAddr
<1>2. /\ DOMAIN ans = 1 .. Len(ans) /\ Len(ans) \in Nat \ {0} /\ Head(ans) = ans[1]
      /\ DOMAIN ans' = 1 .. Len(ans) - 1
      /\ \A k \in 1 .. Len(ans) - 1 : ans'[k] = ans[k + 1]
  BY <1>1, TailOfAnswers
<1>3. msg.type = "SOLICIT" /\ CountedOnce /\ Room = 0 /\ Room' = 0
  BY <1>1 DEF CountInv, Phases, Undoable, Room
<1>4. b = Listed(1) /\ b.addr = ans[1].addr /\ b.iaid = ans[1].iaid
  BY <1>2 DEF Listed, Binding
<1> HIDE DEF b
<1>5. DOMAIN db \ {b} \subseteq DOMAIN db' /\ DOMAIN db' \subseteq DOMAIN db
  <2>1. CASE b.addr = NoAddr
    BY <1>1, <2>1
  <2>2. CASE b.addr # NoAddr
    BY <1>1, <2>2, DelClntAddrRemoves, DelClntAddrType
  <2> QED BY <2>1, <2>2
<1>6. InRange' /\ Covers(db', assigned')
  <2>1. CASE b.addr # NoAddr /\ PoolOf[b.addr] \in Plain
    <3>1. b \in DOMAIN db
      BY <1>2, <1>3, <1>4, <2>1 DEF CountedOnce
    <3>2. db' = WithoutLease(db, b) /\ assigned' = CountedOut(b.addr)
      BY <1>1, <2>1, <3>1 DEF DelClntAddr
    <3>3. Covers(db', assigned') /\ \A p \in Plain : assigned'[p] <= assigned[p]
      BY <3>1, <3>2, CountedOutWithLease DEF CountInv
    <3>4. InRange'
      <4> SUFFICES ASSUME NEW p \in Pools, p \in Plain
                   PROVE  assigned'[p] + Room' <= MaxAssigned /\ LeasesIn(p, disk'.db) <= MaxAssigned
        BY DEF InRange, Plain
      <4>1. assigned[p] + Room <= MaxAssigned /\ LeasesIn(p, disk.db) <= MaxAssigned
            /\ assigned'[p] <= assigned[p]
        BY <3>3 DEF CountInv, InRange
      <4>2. assigned[p] \in Nat /\ MaxAssigned \in Nat /\ assigned'[p] \in Nat
        BY <3>2, CountersType, CountedType, BoundsAssumption DEF TypeOK, Counts
      <4> QED BY <1>1, <1>3, <4>1, <4>2
    <3> QED BY <3>3, <3>4
  <2>2. CASE b.addr = NoAddr \/ PoolOf[b.addr] \notin Plain
    <3>1. \A p \in Plain : assigned'[p] = assigned[p]
      <4>1. \A p \in Plain : p \in Pools /\ (b.addr # NoAddr => p # PoolOf[b.addr])
        BY <2>2 DEF Plain
      <4> QED BY <1>1, <4>1 DEF CountedOut
    <3> SUFFICES ASSUME NEW p \in Plain
                 PROVE  /\ LeasesIn(p, db') <= assigned'[p]
                        /\ assigned'[p] + Room' <= MaxAssigned /\ LeasesIn(p, disk'.db) <= MaxAssigned
      BY DEF InRange, Covers
    <3>2. /\ LeasesIn(p, db) <= assigned[p] /\ assigned[p] + Room <= MaxAssigned
          /\ LeasesIn(p, disk.db) <= MaxAssigned /\ assigned'[p] = assigned[p]
      BY <3>1 DEF CountInv, InRange, Covers
    <3>3. LeasesIn(p, db') \in Nat /\ LeasesIn(p, db') <= LeasesIn(p, db)
      BY <1>5, TypeFacts, LeasesOfFewer
    <3>4. LeasesIn(p, db) \in Nat /\ assigned[p] \in Nat /\ MaxAssigned \in Nat
      BY CountersType, LeasesType, TypeFacts DEF Plain
    <3> QED BY <1>1, <1>3, <3>2, <3>3, <3>4
  <2> QED BY <2>1, <2>2
<1>7. CountedOnce'
  <2>1. \A k \in 1 .. Len(ans) - 1 : k + 1 \in DOMAIN ans /\ k + 1 # 1 /\ 1 \in DOMAIN ans
    BY <1>2
  <2>2. ASSUME NEW k \in DOMAIN ans', ans'[k].addr # NoAddr, PoolOf[ans'[k].addr] \in Plain
        PROVE  Binding(msg'.duid, ans'[k].iaid, ans'[k].addr) \in DOMAIN db'
    <3>1. k + 1 \in DOMAIN ans /\ ans'[k] = ans[k + 1] /\ ans[k + 1].iaid # ans[1].iaid
      BY <1>2, <1>3, <2>1 DEF CountedOnce, Distinct
    <3>2. Binding(msg.duid, ans[k + 1].iaid, ans[k + 1].addr) \in DOMAIN db
      BY <1>3, <2>2, <3>1 DEF CountedOnce, Listed
    <3>3. Binding(msg.duid, ans[k + 1].iaid, ans[k + 1].addr) # b
      BY <1>4, <3>1 DEF Binding
    <3> QED BY <1>1, <1>5, <3>1, <3>2, <3>3
  <2>3. Distinct(ans')
    <3> SUFFICES ASSUME NEW j \in DOMAIN ans', NEW k \in DOMAIN ans', ans'[j].iaid = ans'[k].iaid
                 PROVE  j = k
      BY DEF Distinct
    <3>1. j \in 1 .. Len(ans) - 1 /\ k \in 1 .. Len(ans) - 1 /\ j \in Nat /\ k \in Nat
      BY <1>2
    <3>2. j + 1 = k + 1
      BY <1>2, <1>3, <2>1, <3>1 DEF CountedOnce, Distinct
    <3> QED BY <3>1, <3>2
  <2> QED BY <1>1, <2>2, <2>3 DEF CountedOnce, Listed
<1> QED BY <1>1, <1>3, <1>6, <1>7 DEF Undoable

(* RELEASE counts out the leases it finds, and only those.                    *)
LEMMA ReleaseCounts ==
  ASSUME TypeOK, CountInv, ReleaseAddr
  PROVE  InRange' /\ Covers(db', assigned') /\ Room' \in Nat /\ Room' <= Room
<1>1. /\ pc = "options" /\ pc' = pc /\ disk' = disk /\ msg.ias # <<>> /\ Head(msg.ias).addrs # <<>>
      /\ DelClntAddr(NextAddr) /\ msg' = [msg EXCEPT !.ias = RestOfAddrs]
  BY DEF ReleaseAddr, Handling
<1>2. msg \in Messages /\ RestOfAddrs \in Seq(IAOptions) /\ Len(RestOfAddrs) <= Len(msg.ias)
  BY <1>1, HeadIA, RestOfOptions
<1>3. msg'.ias = RestOfAddrs
  BY <1>1, <1>2 DEF Messages
<1>4. Room = Len(msg.ias) /\ Room' = Len(RestOfAddrs) /\ Len(RestOfAddrs) \in Nat
  BY <1>1, <1>2, <1>3, LenProperties DEF Room
<1>5. CASE NextAddr \in DOMAIN db
  <2>1. db' = WithoutLease(db, NextAddr) /\ assigned' = CountedOut(NextAddr.addr)
    BY <1>1, <1>5 DEF DelClntAddr, ReleaseAddr
  <2>2. Covers(db', assigned') /\ \A p \in Plain : assigned'[p] <= assigned[p]
    BY <1>5, <2>1, CountedOutWithLease DEF CountInv
  <2>3. InRange'
    <3> SUFFICES ASSUME NEW p \in Pools, p \in Plain
                 PROVE  assigned'[p] + Room' <= MaxAssigned /\ LeasesIn(p, disk'.db) <= MaxAssigned
      BY DEF InRange, Plain
    <3>1. assigned[p] + Room <= MaxAssigned /\ LeasesIn(p, disk.db) <= MaxAssigned
          /\ assigned'[p] <= assigned[p]
      BY <2>2 DEF CountInv, InRange
    <3>2. assigned[p] \in Nat /\ MaxAssigned \in Nat /\ assigned'[p] \in Nat /\ Room \in Nat
      BY <2>1, CountersType, CountedType, BoundsAssumption DEF TypeOK, Counts
    <3> QED BY <1>1, <1>2, <1>4, <3>1, <3>2
  <2> QED BY <1>2, <1>4, <2>2, <2>3
<1>6. CASE NextAddr \notin DOMAIN db
  <2>1. db' = db /\ assigned' = assigned
    BY <1>1, <1>6 DEF DelClntAddr, ReleaseAddr
  <2> QED BY <1>1, <1>2, <1>4, <2>1, FewerLeases DEF CountInv
<1> QED BY <1>5, <1>6

(* A declined address stays counted, and leased in its class.                 *)
LEMMA DeclineCounts ==
  ASSUME TypeOK, CountInv, DeclineAddr
  PROVE  InRange' /\ Covers(db', assigned')
<1>1. /\ pc = "options" /\ pc' = pc /\ disk' = disk /\ msg.ias # <<>> /\ Head(msg.ias).addrs # <<>>
      /\ msg' = [msg EXCEPT !.ias = RestOfAddrs] /\ assigned' = assigned
  BY DEF DeclineAddr, Handling
<1>2. msg \in Messages /\ RestOfAddrs \in Seq(IAOptions) /\ Len(RestOfAddrs) <= Len(msg.ias)
  BY <1>1, HeadIA, RestOfOptions
<1>3. msg'.ias = RestOfAddrs
  BY <1>1, <1>2 DEF Messages
<1>4. Room = Len(msg.ias) /\ Room' = Len(RestOfAddrs) /\ Len(RestOfAddrs) \in Nat
  BY <1>1, <1>2, <1>3, LenProperties DEF Room
<1>5. \A p \in Pools : LeasesIn(p, db') \in Nat /\ LeasesIn(p, db') <= LeasesIn(p, db)
  <2> TAKE p \in Pools
  <2>1. CASE NextAddr \in DOMAIN db
    <3> DEFINE rest == WithoutLease(db, NextAddr)
    <3>1. DBType(rest) /\ DOMAIN rest = DOMAIN db \ {NextAddr}
      BY TypeFacts, WithoutLeaseType
    <3>2. DOMAIN db' = DOMAIN rest \cup {Quarantine(NextAddr)}
      BY <2>1 DEF DeclineAddr, WithLease
    <3> HIDE DEF rest
    <3>3. Quarantine(NextAddr).addr = NextAddr.addr
      BY DEF Quarantine, Binding
    <3>4. LeasesIn(p, rest) = LeasesIn(p, db) - (IF p = PoolOf[NextAddr.addr] THEN 1 ELSE 0)
      BY <2>1, <3>1, TypeFacts, LeasesOfOneLess
    <3>5. /\ LeasesIn(p, db') \in Nat
          /\ LeasesIn(p, db') <= LeasesIn(p, rest) + (IF p = PoolOf[NextAddr.addr] THEN 1 ELSE 0)
      BY <3>1, <3>2, <3>3, LeasesOfOneMore
    <3>6. LeasesIn(p, db) \in Nat
      BY TypeFacts, LeasesType
    <3> QED BY <3>4, <3>5, <3>6
  <2>2. CASE NextAddr \notin DOMAIN db
    <3>1. db' = db
      BY <2>2 DEF DeclineAddr
    <3>2. LeasesIn(p, db) \in Nat
      BY TypeFacts, LeasesType
    <3> QED BY <3>1, <3>2
  <2> QED BY <2>1, <2>2
<1> SUFFICES ASSUME NEW p \in Pools, p \in Plain
             PROVE  /\ LeasesIn(p, db') <= assigned'[p]
                    /\ assigned'[p] + Room' <= MaxAssigned /\ LeasesIn(p, disk'.db) <= MaxAssigned
  BY DEF InRange, Covers, Plain
<1>6. /\ LeasesIn(p, db) <= assigned[p] /\ LeasesIn(p, db) \in Nat
      /\ assigned[p] + Room <= MaxAssigned /\ LeasesIn(p, disk.db) <= MaxAssigned
      /\ assigned[p] \in Nat /\ MaxAssigned \in Nat /\ Room \in Nat
  BY CountersType, TypeFacts, LeasesType DEF CountInv, InRange, Covers
<1>7. LeasesIn(p, db') \in Nat /\ LeasesIn(p, db') <= LeasesIn(p, db)
  BY <1>5
<1> QED BY <1>1, <1>2, <1>4, <1>6, <1>7

LEMMA CountInit == Init /\ TypeOK => CountInv
<1> SUFFICES ASSUME Init, TypeOK PROVE CountInv
  OBVIOUS
<1>1. \A p : LeasesIn(p, NoDB) = 0
  <2>1. \A p : LeasedIn(p, NoDB) = {}
    BY DEF LeasedIn, NoDB
  <2> QED BY <2>1, FS_EmptySet DEF LeasesIn
<1>2. db = NoDB /\ disk.db = NoDB /\ assigned = Zero /\ Room = 0 /\ pc = "select"
  BY DEF Init, Room
<1>3. Phases /\ Undoable
  BY DEF Init, Phases, Undoable
<1> QED BY <1>1, <1>2, <1>3, BoundsAssumption DEF CountInv, InRange, Covers, Plain, Zero

LEMMA CountStep == Countable /\ FlowInv /\ CountInv /\ [Next]_vars => CountInv'
<1> SUFFICES ASSUME Countable, FlowInv, CountInv, [Next]_vars PROVE CountInv'
  OBVIOUS
<1>0. /\ TypeOK /\ Phases /\ InRange /\ Undoable /\ Covers(db, assigned)
      /\ Phases'
  BY PhasesStep DEF FlowInv, CountInv
<1> SUFFICES InRange' /\ Undoable' /\ Covers(db', assigned')
  BY <1>0 DEF CountInv
<1>r. Room \in Nat /\ (pc' # "options" => Room' = 0) /\ (pc' \notin {"options", "undo"} => Undoable')
  BY <1>0, CountersType DEF Room, Undoable
<1>q. ASSUME pc' \notin {"options", "undo"}, assigned' = assigned, DOMAIN db' \subseteq DOMAIN db,
             DOMAIN disk'.db \subseteq DOMAIN disk.db \/ DOMAIN disk'.db \subseteq DOMAIN db
      PROVE  InRange' /\ Undoable' /\ Covers(db', assigned')
  BY <1>0, <1>r, <1>q, FewerLeases
<1>s. ASSUME srvVars' = srvVars, pc' = pc \/ pc' \in {"select", "duties", "dump"},
             DOMAIN disk'.db \subseteq DOMAIN disk.db
      PROVE  InRange' /\ Undoable' /\ Covers(db', assigned')
  <2>1. UNCHANGED <<db, assigned, msg, ans>>
    BY <1>s DEF srvVars
  <2>2. Room' \in Nat /\ Room' <= Room
    BY <1>r, <1>s, <2>1 DEF Room
  <2>3. Undoable'
    BY <1>0, <1>s, <2>1 DEF Undoable, CountedOnce, Listed
  <2> QED BY <1>0, <1>s, <2>1, <2>2, <2>3, FewerLeases
<1>z. /\ Covers(NoDB, Zero)
      /\ \A p \in Pools : Zero[p] = 0
  <2>1. \A p : LeasedIn(p, NoDB) = {}
    BY DEF LeasedIn, NoDB
  <2> QED BY <2>1, FS_EmptySet DEF LeasesIn, Covers, Plain, Zero
<1>1. CASE HandleOption
  <2>1. CASE \E a \in Addrs \cup {NoAddr} : OptionAnswered(a)
    BY <1>0, <2>1, AnswerCounts
  <2>2. CASE DrawForever \/ RebindDiscarded
    BY <1>q, <2>2 DEF DrawForever, RebindDiscarded
  <2>3. CASE SkipEmptyIA
    <3>1. /\ pc = "options" /\ pc' = pc /\ msg.ias # <<>> /\ UNCHANGED <<db, assigned, disk, ans>>
          /\ msg' = [msg EXCEPT !.ias = Tail(msg.ias)] /\ msg.type # "SOLICIT"
      BY <2>3 DEF SkipEmptyIA, Handling
    <3>2. msg \in Messages
      BY <1>0, <3>1, HeadIA
    <3>3. msg'.type # "SOLICIT" /\ msg'.ias = Tail(msg.ias)
      BY <3>1, <3>2 DEF Messages
    <3>4. Room' = Len(msg.ias) - 1 /\ Room = Len(msg.ias) /\ Len(msg.ias) \in Nat \ {0}
      BY <1>0, <3>1, <3>3, TailOfOptions DEF Room
    <3> QED BY <1>0, <3>1, <3>3, <3>4, FewerLeases DEF Undoable
  <2>4. CASE ReleaseAddr
    <3>1. pc' = "options" /\ msg' = [msg EXCEPT !.ias = RestOfAddrs] /\ msg.type # "SOLICIT" /\ msg \in Messages
      BY <1>0, <2>4, HeadIA DEF ReleaseAddr, Handling
    <3>2. msg'.type # "SOLICIT"
      BY <3>1 DEF Messages
    <3> QED BY <1>0, <2>4, <3>1, <3>2, ReleaseCounts DEF CountInv, Undoable
  <2>5. CASE DeclineAddr
    <3>1. pc' = "options" /\ msg' = [msg EXCEPT !.ias = RestOfAddrs] /\ msg.type # "SOLICIT" /\ msg \in Messages
      BY <1>0, <2>5, HeadIA DEF DeclineAddr, Handling
    <3>2. msg'.type # "SOLICIT"
      BY <3>1 DEF Messages
    <3> QED BY <1>0, <2>5, <3>1, <3>2, DeclineCounts DEF CountInv, Undoable
  <2> QED BY <1>0, <1>1, <2>1, <2>2, <2>3, <2>4, <2>5, OptionOutcomes
<1>2. CASE SendReply
  BY <1>q, <1>2 DEF SendReply
<1>3. CASE StartUndo
  <2>1. pc = "options" /\ msg.type = "SOLICIT" /\ pc' = "undo" /\ UNCHANGED <<db, assigned, msg, ans, disk>>
    BY <1>3 DEF StartUndo, srvVars
  <2>2. Undoable'
    BY <1>0, <2>1 DEF Undoable, CountedOnce, Listed
  <2> QED BY <1>0, <1>r, <2>1, <2>2, FewerLeases
<1>4. CASE UndoAddr
  BY <1>0, <1>4, UndoCounts
<1>5. CASE SendAdvertise \/ Wake
  BY <1>5, <1>s DEF SendAdvertise, Wake
<1>6. CASE Dump \/ SaveExpired \/ NothingExpired
  BY <1>q, <1>6 DEF Dump, SaveExpired, NothingExpired, srvVars
<1>7. CASE RemoveExpired
  BY <1>0, <1>q, <1>7, DelClntAddrType DEF RemoveExpired
<1>8. CASE Spin \/ UNCHANGED vars \/ \E b \in DOMAIN held : Forget(b)
  BY <1>8, <1>s DEF Spin, vars, srvVars, Forget
<1>9. ASSUME NEW t \in MsgTypes, NEW c \in Clients, NEW ias \in MsgIAs, Receive(t, c, ias)
      PROVE  InRange' /\ Undoable' /\ Covers(db', assigned')
  <2>1. pc = "select" /\ WithinBound(Len(ias)) /\ UNCHANGED <<db, assigned, disk, ans>> /\ ans = <<>>
    BY <1>0, <1>9 DEF Receive, Phases
  <2>2. \/ pc' = "dump"
        \/ pc' = "options" /\ msg'.type = t /\ msg'.ias = ias
    BY <1>9 DEF Receive
  <2>3. Len(ias) \in Nat /\ Distinct(ias)
    BY BoundsAssumption, LenProperties DEF Countable
  <2>4. Undoable'
    <3>1. DOMAIN ans' = {} /\ Distinct(ans')
      BY <2>1 DEF Distinct
    <3> QED BY <2>2, <2>3, <3>1 DEF Undoable, CountedOnce
  <2>5. Room' \in {0, Len(ias)}
    BY <2>2 DEF Room
  <2> SUFFICES ASSUME NEW p \in Pools, p \in Plain
               PROVE  /\ LeasesIn(p, db') <= assigned'[p]
                      /\ assigned'[p] + Room' <= MaxAssigned /\ LeasesIn(p, disk'.db) <= MaxAssigned
    BY <2>4 DEF InRange, Covers, Plain
  <2>6. /\ LeasesIn(p, db) <= assigned[p] /\ assigned[p] + Room <= MaxAssigned
        /\ LeasesIn(p, disk.db) <= MaxAssigned
        /\ assigned[p] + Len(ias) <= MaxAssigned \/ assigned[p] > MaxAssigned
    BY <1>0, <2>1 DEF InRange, Covers, WithinBound
  <2>7. assigned[p] \in Nat /\ MaxAssigned \in Nat
    BY <1>0, CountersType
  <2> QED BY <1>r, <2>1, <2>3, <2>5, <2>6, <2>7
<1>10. CASE Tick
  <2>1. /\ pc' = pc /\ pc \in {"select", "down"} /\ assigned' = assigned /\ DOMAIN db' = DOMAIN db
        /\ disk' = [disk EXCEPT !.db = Aged(disk.db)]
    BY <1>10 DEF Tick, Aged
  <2>2. DOMAIN disk'.db = DOMAIN disk.db
    BY <1>0, <2>1 DEF TypeOK, Aged
  <2> QED BY <1>0, <1>r, <2>1, <2>2, FewerLeases
<1>11. CASE Shutdown \/ Crash
  <2>1. /\ pc' = "down" /\ db' = NoDB /\ assigned' = Zero
        /\ DOMAIN disk'.db \subseteq DOMAIN disk.db \/ DOMAIN disk'.db \subseteq DOMAIN db
    BY <1>0, <1>11, CrashFile, TornFile DEF Shutdown, Crash
  <2> SUFFICES ASSUME NEW p \in Pools, p \in Plain
               PROVE  assigned'[p] + Room' <= MaxAssigned /\ LeasesIn(p, disk'.db) <= MaxAssigned
    BY <1>r, <1>z, <2>1 DEF InRange, Plain
  <2>2. /\ LeasesIn(p, db) <= assigned[p] /\ assigned[p] + Room <= MaxAssigned
        /\ LeasesIn(p, disk.db) <= MaxAssigned
        /\ assigned[p] \in Nat /\ MaxAssigned \in Nat /\ LeasesIn(p, db) \in Nat
    BY <1>0, CountersType, TypeFacts, LeasesType DEF InRange, Covers
  <2>3. assigned'[p] + Room' <= MaxAssigned
    BY <1>r, <1>z, <2>1, <2>2
  <2>4. LeasesIn(p, db) <= MaxAssigned
    BY <1>r, <2>2
  <2>5. LeasesIn(p, disk'.db) <= MaxAssigned
    <3>1. \A x \in {db, disk.db} : DBType(x) /\ LeasesIn(p, x) \in Nat /\ LeasesIn(p, x) <= MaxAssigned
      BY <1>0, <2>2, <2>4, TypeFacts, LeasesType
    <3>2. PICK x \in {db, disk.db} : DOMAIN disk'.db \subseteq DOMAIN x
      BY <2>1
    <3>3. LeasesIn(p, disk'.db) \in Nat /\ LeasesIn(p, disk'.db) <= LeasesIn(p, x)
      BY <3>1, <3>2, LeasesOfFewer
    <3> QED BY <2>2, <3>1, <3>3
  <2> QED BY <2>3, <2>5
<1>12. CASE Restart
  <2>1. pc' = "dump" /\ db' = disk.db /\ assigned' = Recount(disk.db) /\ disk' = disk
    BY <1>12 DEF Restart
  <2> SUFFICES ASSUME NEW p \in Pools, p \in Plain
               PROVE  /\ LeasesIn(p, db') <= assigned'[p]
                      /\ assigned'[p] + Room' <= MaxAssigned /\ LeasesIn(p, disk'.db) <= MaxAssigned
    BY <1>r, <2>1 DEF InRange, Covers, Plain
  <2>2. assigned'[p] = LeasesIn(p, disk.db) % CounterMod
    BY <2>1 DEF Recount, LeasesIn
  <2>3. LeasesIn(p, disk.db) \in Nat /\ LeasesIn(p, disk.db) <= MaxAssigned
    BY <1>0, TypeFacts, LeasesType DEF InRange
  <2>4. LeasesIn(p, disk.db) % CounterMod = LeasesIn(p, disk.db)
    <3>1. \A n, m \in Nat : n < m => n % m = n
      OBVIOUS
    <3>2. LeasesIn(p, disk.db) < CounterMod /\ CounterMod \in Nat
      BY <1>0, <2>3, CountersType DEF Countable
    <3> QED BY <2>3, <3>1, <3>2
  <2> QED BY <1>r, <2>1, <2>2, <2>3, <2>4
<1> QED BY <1>1, <1>2, <1>3, <1>4, <1>5, <1>6, <1>7, <1>8, <1>9, <1>10, <1>11, <1>12
    DEF Next, Server, Environment

LEMMA CountCorrect ==
  ASSUME Countable
  PROVE  Spec => [](FlowInv /\ CountInv)
<1>1. Init => FlowInv /\ CountInv
  BY FlowInit, CountInit DEF FlowInv
<1>2. FlowInv /\ CountInv /\ [Next]_vars => (FlowInv /\ CountInv)'
  BY FlowStep, CountStep
<1> QED BY <1>1, <1>2, PTL DEF Spec

(* The usage counter of a class without a reserved address is never below its  *)
(* number of leases, through ADVERTISEs that count out what they counted in,   *)
(* RELEASEs, expiry (which counts nothing out), crashes, and restarts that     *)
(* count anew, and whatever becomes of the counters of the other classes.     *)
THEOREM CountersKeepUp ==
  ASSUME Countable
  PROVE  Spec => []CountersCover
<1>1. CountInv => CountersCover
  BY DEF CountInv, Covers, Plain, LeasesIn, CountersCover
<1> QED BY <1>1, CountCorrect, PTL

-----------------------------------------------------------------------------
(* A class that is not full has a free address.                              *)

(* TSrvCfgAddrClass::setOptions() caps class-max-lease at the number of       *)
(* addresses of the range, so this holds of every configuration it accepts.   *)
AddrsIn(p) == {a \in Addrs : PoolOf[a] = p}
RangeSized == \A p \in Pools : ClassMaxLease[p] <= Cardinality(AddrsIn(p))

LEMMA FreeIfNotFull ==
  ASSUME RangeSized, TypeOK, Covers(db, assigned), NEW p \in Pools, ~HasReserved(p), NotFull(p)
  PROVE  FreeIn(p) # {}
<1> SUFFICES ASSUME FreeIn(p) = {} PROVE FALSE
  OBVIOUS
<1> DEFINE f == [b \in LeasedIn(p, db) |-> b.addr]
<1>1. AddrsIn(p) = {b.addr : b \in LeasedIn(p, db)}
  <2>1. \A a \in AddrsIn(p) : \E b \in LeasedIn(p, db) : a = b.addr
    BY DEF AddrsIn, FreeIn, AddrIsFree, LeasedIn
  <2>2. \A b \in LeasedIn(p, db) : b.addr \in AddrsIn(p)
    BY TypeFacts DEF AddrsIn, LeasedIn
  <2> QED BY <2>1, <2>2
<1>2. f \in Surjection(LeasedIn(p, db), AddrsIn(p))
  BY <1>1 DEF Surjection
<1>3. IsFiniteSet(LeasedIn(p, db)) /\ LeasesIn(p, db) \in Nat
  BY TypeFacts, LeasesType
<1> HIDE DEF f
<1>4. IsFiniteSet(AddrsIn(p)) /\ Cardinality(AddrsIn(p)) <= LeasesIn(p, db)
  BY <1>2, <1>3, FS_Surjection DEF LeasesIn
<1>5. LeasesIn(p, db) <= assigned[p] /\ assigned[p] < ClassMaxLease[p]
      /\ ClassMaxLease[p] <= Cardinality(AddrsIn(p))
  BY DEF Covers, Plain, NotFull, RangeSized
<1>6. Cardinality(AddrsIn(p)) \in Nat /\ assigned[p] \in Nat /\ ClassMaxLease[p] \in Nat
  BY <1>4, FS_CardinalityType, CountersType, ConfigAssumption
<1> QED BY <1>3, <1>4, <1>5, <1>6

LEMMA DrawsEnd ==
  ASSUME RangeSized, TypeOK, Covers(db, assigned), DrawForever
  PROVE  \E p \in Pools : HasReserved(p) /\ NotFull(p) /\ FreeIn(p) = {}
<1>1. msg \in Messages /\ msg.ias # <<>>
  BY HeadIA DEF DrawForever, CacheMissed, HintsFailed, MayHaveMore, NotFixed, NoBindingFor, Handling
<1>2. \A p \in Supported[msg.duid] : p \in Pools
  BY <1>1, ConfigAssumption DEF Messages
<1>3. ASSUME NEW k \in DOMAIN Hints, HintTaken(Hints, k), Candidates(Hints[k]) = {}
      PROVE  \E p \in Pools : NotFull(p) /\ FreeIn(p) = {}
  <2>1. ~AddrIsFree(Hints[k]) /\ FreeIn(PoolOf[Hints[k]]) = {}
    BY <1>3 DEF Candidates
  <2>2. PoolOf[Hints[k]] \in Supported[msg.duid] /\ NotFull(PoolOf[Hints[k]])
    BY <1>3, <2>1 DEF HintTaken, HintUsable
  <2> QED BY <1>2, <2>1, <2>2
<1>4. ASSUME NEW p \in SuitableClass, FreeIn(p) = {}
      PROVE  p \in Pools /\ NotFull(p)
  BY <1>2 DEF SuitableClass
<1>5. PICK p \in Pools : NotFull(p) /\ FreeIn(p) = {}
  BY <1>3, <1>4 DEF DrawForever
<1> QED BY <1>5, FreeIfNotFull

LEMMA HungStep ==
  ASSUME RangeSized, TypeOK, Covers(db, assigned), NeverHung, [Next]_vars
  PROVE  NeverHung'
<1> SUFFICES ASSUME pc' = "hung"
             PROVE  \E p \in Pools : HasReserved(p) /\ (NotFull(p) /\ FreeIn(p) = {})'
  BY DEF NeverHung
<1>s. ASSUME UNCHANGED <<db, assigned>>, \E p \in Pools : HasReserved(p) /\ NotFull(p) /\ FreeIn(p) = {}
      PROVE  \E p \in Pools : HasReserved(p) /\ (NotFull(p) /\ FreeIn(p) = {})'
  BY <1>s DEF NotFull, FreeIn, AddrIsFree
<1>1. CASE HandleOption
  <2>1. CASE \E a \in Addrs \cup {NoAddr} : OptionAnswered(a)
    BY <2>1 DEF OptionAnswered, Handling, Answer
  <2>2. CASE RebindDiscarded \/ SkipEmptyIA \/ ReleaseAddr \/ DeclineAddr
    BY <2>2 DEF RebindDiscarded, SkipEmptyIA, ReleaseAddr, DeclineAddr, Handling
  <2>3. CASE DrawForever
    BY <1>s, <2>3, DrawsEnd DEF DrawForever
  <2> QED BY <1>1, <2>1, <2>2, <2>3, OptionOutcomes
<1>2. CASE SendReply \/ StartUndo \/ UndoAddr \/ SendAdvertise \/ Dump \/ Wake
  BY <1>2 DEF SendReply, StartUndo, UndoAddr, SendAdvertise, Dump, Wake
<1>3. CASE RemoveExpired \/ SaveExpired \/ NothingExpired
  BY <1>3 DEF RemoveExpired, SaveExpired, NothingExpired
<1>4. CASE Environment
  BY <1>4 DEF Environment, Receive, Tick, Forget, Shutdown, Crash, Restart
<1>5. CASE Spin \/ UNCHANGED vars
  BY <1>s, <1>5 DEF Spin, vars, NeverHung
<1> QED BY <1>1, <1>2, <1>3, <1>4, <1>5 DEF Next, Server

(* The loops that draw an address until one is free come to an end in every    *)
(* class without a reserved address, because they run only for a class whose   *)
(* counter says that it is not full; in a class with one the thread may hang.  *)
THEOREM ServerNeverHangs ==
  ASSUME Countable, RangeSized
  PROVE  Spec => []NeverHung
<1>1. Init => NeverHung
  BY DEF Init, NeverHung
<1>2. FlowInv /\ CountInv /\ NeverHung /\ [Next]_vars => NeverHung'
  BY HungStep DEF FlowInv, CountInv
<1> QED BY <1>1, <1>2, CountCorrect, PTL DEF Spec

-----------------------------------------------------------------------------
(* Who is told what.                                                         *)

LEMMA ToldFacts ==
  ASSUME TypeOK, msg \in Messages, NEW b \in Told
  PROVE  /\ b \in Bindings /\ b.duid = msg.duid /\ b.duid \in Clients /\ b.iaid \in IAIDs
         /\ \E k \in DOMAIN ans :
              Listed(k) = b /\ ans[k].addr = b.addr /\ ans[k].addr # NoAddr
<1>1. b \in Bindings /\ b.duid = msg.duid /\ msg.duid \in Clients /\ b.addr \in Addrs
  BY DEF Told, Messages, Bindings
<1>2. PICK k \in DOMAIN ans : ans[k] = [iaid |-> b.iaid, addr |-> b.addr]
  BY DEF Told
<1>3. ans[k] \in [iaid : IAIDs, addr : Addrs \cup {NoAddr}]
  <2> DEFINE T == [iaid : IAIDs, addr : Addrs \cup {NoAddr}]
  <2>1. ans \in Seq(T)
    BY DEF TypeOK
  <2> HIDE DEF T
  <2>2. ans[k] \in T
    BY <2>1, ElementOfSeq, LenProperties
  <2> QED BY <2>2 DEF T
<1>4. ans[k].iaid = b.iaid /\ ans[k].addr = b.addr /\ b.iaid \in IAIDs
  BY <1>2, <1>3
<1>5. Listed(k) = b
  BY <1>1, <1>4 DEF Listed, Binding, Bindings
<1> QED BY <1>1, <1>4, <1>5, NamesAssumption

(* Only a REPLY adds to what clients hold, and only time shortens it.          *)
LEMMA HeldEffects ==
  ASSUME TypeOK, [Next]_vars
  PROVE  \/ SendReply \/ Tick
         \/ /\ DOMAIN held' \subseteq DOMAIN held
            /\ \A b \in DOMAIN held' : held'[b] = held[b]
<1>1. CASE HandleOption
  <2>1. CASE \E a \in Addrs \cup {NoAddr} : OptionAnswered(a)
    BY <2>1 DEF OptionAnswered, Answer
  <2>2. CASE DrawForever \/ RebindDiscarded \/ SkipEmptyIA \/ ReleaseAddr \/ DeclineAddr
    BY <2>2 DEF DrawForever, RebindDiscarded, SkipEmptyIA, ReleaseAddr, DeclineAddr
  <2> QED BY <1>1, <2>1, <2>2, OptionOutcomes
<1>2. CASE \/ StartUndo \/ UndoAddr \/ SendAdvertise \/ Dump
           \/ Wake \/ RemoveExpired \/ SaveExpired \/ NothingExpired
  BY <1>2 DEF StartUndo, UndoAddr, SendAdvertise, Dump, Wake, RemoveExpired, SaveExpired, NothingExpired
<1>3. CASE \E t \in MsgTypes, c \in Clients, ias \in MsgIAs : Receive(t, c, ias)
  BY <1>3 DEF Receive, Restrict
<1>4. CASE \E b \in DOMAIN held : Forget(b)
  BY <1>4 DEF Forget, Restrict
<1>5. CASE Shutdown \/ Crash \/ Restart
  BY <1>5 DEF Shutdown, Crash, Restart
<1>6. CASE Spin \/ UNCHANGED vars
  BY <1>6 DEF Spin, vars
<1> QED BY <1>1, <1>2, <1>3, <1>4, <1>5, <1>6 DEF Next, Server, Environment

(* Clients hold leases of their own, and a client with a reserved address has   *)
(* none in the database.                                                     *)
OfClients == \A b \in DOMAIN held : b.duid \in Clients /\ b.iaid \in IAIDs
Proper(d) ==
  \A b \in DOMAIN d :
    \/ b.duid \in Clients /\ b.iaid \in IAIDs /\ FixedAddr[b.duid] = NoAddr
    \/ b.duid = DeclinedDUID /\ b.iaid = DeclinedIAID
OwnInv == OfClients /\ Proper(db) /\ Proper(disk.db)

LEMMA OwnInit == Init => OwnInv
BY DEF Init, OwnInv, OfClients, Proper, NoDB

LEMMA OwnStep == FlowInv /\ OwnInv /\ [Next]_vars => OwnInv'
<1> SUFFICES ASSUME FlowInv, OwnInv, [Next]_vars PROVE OwnInv'
  OBVIOUS
<1>0. TypeOK /\ OfClients /\ Proper(db) /\ Proper(disk.db) /\ LeasesStep /\ DiskStep
  BY StepEffects DEF FlowInv, OwnInv
<1>1. OfClients'
  <2>1. CASE SendReply
    <3>1. msg \in Messages /\ DOMAIN held' = DOMAIN held \cup Told
      BY <2>1 DEF SendReply, FlowInv, Holding
    <3> QED BY <1>0, <3>1, ToldFacts DEF OfClients
  <2>2. CASE Tick
    BY <1>0, <2>2 DEF Tick, StillHeld, OfClients
  <2> QED BY <1>0, <2>1, <2>2, HeldEffects DEF OfClients
<1>2. Proper(disk'.db)
  BY <1>0 DEF DiskStep, Proper
<1>3. ASSUME NEW b \in DOMAIN db, DOMAIN db' \subseteq DOMAIN db \cup {Quarantine(b)}
      PROVE  Proper(db')
  BY <1>0, <1>3 DEF Proper, Quarantine, Binding
<1>4. ASSUME NEW a, Granted(a) PROVE Proper(db')
  <2> DEFINE x == Binding(msg.duid, Head(msg.ias).iaid, a)
  <2>1. msg.duid \in Clients /\ FixedAddr[msg.duid] = NoAddr /\ msg.ias # <<>>
        /\ DOMAIN db' = DOMAIN db \cup {x}
    BY <1>4 DEF Granted, MayHaveMore, NotFixed, NoBindingFor, Handling, Messages
  <2>2. x.duid = msg.duid /\ x.iaid \in IAIDs
    BY <1>0, <2>1, HeadIA DEF Binding
  <2> HIDE DEF x
  <2> QED BY <1>0, <2>1, <2>2 DEF Proper
<1>5. Proper(db')
  <2>1. CASE DOMAIN db' \subseteq DOMAIN db
    BY <1>0, <2>1 DEF Proper
  <2>2. CASE db' = disk.db
    BY <1>0, <2>2
  <2> QED BY <1>0, <1>3, <1>4, <2>1, <2>2 DEF LeasesStep
<1> QED BY <1>1, <1>2, <1>5 DEF OwnInv

-----------------------------------------------------------------------------
(* What a crash may lose.                                                    *)

InFlight ==
  pc # "down" => \A b \in DOMAIN held : KeptBy(db, b) /\ ~KeptBy(disk.db, b) => b.duid = msg.duid

(* A decline moves one address, and touches no other lease.                   *)
LEMMA DeclineEffects ==
  ASSUME DeclineAddr
  PROVE  \/ NextAddr \notin DOMAIN db /\ db' = db
         \/ /\ NextAddr \in DOMAIN db
            /\ DOMAIN db' = (DOMAIN db \ {NextAddr}) \cup {Quarantine(NextAddr)}
            /\ \A b \in DOMAIN db' : b # Quarantine(NextAddr) => db'[b] = db[b]
<1> DEFINE rest == WithoutLease(db, NextAddr)
<1>1. CASE NextAddr \in DOMAIN db
  <2>1. db' = WithLease(rest, Quarantine(NextAddr), DeclinedTimeout)
    BY <1>1 DEF DeclineAddr
  <2>2. DOMAIN rest = DOMAIN db \ {NextAddr} /\ \A b \in DOMAIN rest : rest[b] = db[b]
    BY DEF WithoutLease, Restrict
  <2> HIDE DEF rest
  <2> QED BY <1>1, <2>1, <2>2 DEF WithLease
<1>2. CASE NextAddr \notin DOMAIN db
  BY <1>2 DEF DeclineAddr
<1> QED BY <1>1, <1>2

(* A handler gives new time to nobody but the client of its message.          *)
LEMMA OnlyOwnLeases ==
  ASSUME TypeOK, OfClients, HandleOption, NEW b \in DOMAIN held, b.duid # msg.duid,
         b \in DOMAIN db', held[b] <= db'[b]
  PROVE  KeptBy(db, b)
<1>1. ASSUME NEW a \in Addrs \cup {NoAddr}, OptionAnswered(a) PROVE KeptBy(db, b)
  <2>1. CASE Refused(a) \/ Reserved(a)
    BY <2>1 DEF Refused, Reserved, KeptBy
  <2>2. CASE Renewed(a)
    BY <2>2 DEF Renewed, Refreshed, BindingsOf, KeptBy
  <2>3. CASE Bound(a)
    BY <2>3 DEF Bound, WithLease, Binding, KeptBy
  <2> QED BY <1>1, <2>1, <2>2, <2>3 DEF OptionAnswered
<1>2. CASE DrawForever \/ RebindDiscarded \/ SkipEmptyIA
  BY <1>2 DEF DrawForever, RebindDiscarded, SkipEmptyIA, KeptBy
<1>3. CASE ReleaseAddr
  BY <1>3 DEF ReleaseAddr, DelClntAddr, WithoutLease, Restrict, KeptBy
<1>4. CASE DeclineAddr
  <2>1. b # Quarantine(NextAddr)
    BY NamesAssumption DEF OfClients, Quarantine, Binding
  <2> QED BY <1>4, <2>1, DeclineEffects DEF KeptBy
<1> QED BY <1>1, <1>2, <1>3, <1>4, OptionOutcomes

(* Every step of handling an option is one for the same client. *)
LEMMA SameClient ==
  ASSUME TypeOK, HandleOption
  PROVE  msg'.duid = msg.duid /\ msg'.type = msg.type /\ held' = held /\ disk' = disk
<1>1. ASSUME NEW a \in Addrs \cup {NoAddr}, OptionAnswered(a)
      PROVE  msg'.duid = msg.duid /\ msg'.type = msg.type /\ held' = held /\ disk' = disk
  <2>1. msg.ias # <<>> /\ Answer(a)
    BY <1>1 DEF OptionAnswered, Handling
  <2>2. msg' = [type |-> msg.type, duid |-> msg.duid, ias |-> Tail(msg.ias)]
    BY <2>1, OneAnswerMore
  <2> QED BY <2>1, <2>2 DEF Answer
<1>2. CASE DrawForever \/ RebindDiscarded
  BY <1>2 DEF DrawForever, RebindDiscarded
<1>3. CASE SkipEmptyIA \/ ReleaseAddr \/ DeclineAddr
  <2>1. /\ msg \in Messages /\ held' = held /\ disk' = disk
        /\ \E rest : msg' = [msg EXCEPT !.ias = rest]
    BY <1>3, HeadIA DEF SkipEmptyIA, ReleaseAddr, DeclineAddr, Handling
  <2> QED BY <2>1 DEF Messages
<1> QED BY <1>1, <1>2, <1>3, OptionOutcomes

LEMMA InFlightStep == FlowInv /\ OwnInv /\ InFlight /\ [Next]_vars => InFlight'
<1> SUFFICES ASSUME FlowInv, OwnInv, InFlight, [Next]_vars, pc' # "down",
                    NEW b \in DOMAIN held',
                    b \in DOMAIN db', held'[b] <= db'[b],
                    ~(b \in DOMAIN disk'.db /\ held'[b] <= disk'.db[b])
             PROVE  b.duid = msg'.duid
  BY DEF InFlight, KeptBy
<1>0. TypeOK /\ OfClients /\ (pc \in {"select", "duties"} => disk.db = db)
  BY DEF FlowInv, OwnInv, FileCurrent
<1>1. CASE HandleOption
  <2>1. /\ msg'.duid = msg.duid /\ held' = held /\ disk' = disk /\ pc # "down"
    BY <1>0, <1>1, SameClient, OptionKeepsPlace
  <2>2. ASSUME b.duid # msg.duid PROVE FALSE
    <3>1. KeptBy(db, b)
      BY <1>0, <1>1, <2>1, <2>2, OnlyOwnLeases
    <3> QED BY <2>1, <2>2, <3>1 DEF InFlight, KeptBy
  <2> QED BY <2>1, <2>2
<1>2. CASE SendReply
  <2>1. /\ pc # "down" /\ UNCHANGED <<db, disk, msg>> /\ msg \in Messages
        /\ held' = [x \in DOMAIN held \cup Told |-> IF x \in Told THEN Valid ELSE held[x]]
    BY <1>2 DEF SendReply, Holding, FlowInv
  <2>2. CASE b \in Told
    BY <1>0, <2>1, <2>2, ToldFacts
  <2>3. CASE b \notin Told
    BY <2>1, <2>3 DEF InFlight, KeptBy
  <2> QED BY <2>2, <2>3
<1>3. CASE StartUndo \/ SendAdvertise \/ Spin \/ UNCHANGED vars
  BY <1>3 DEF StartUndo, SendAdvertise, Spin, srvVars, vars, InFlight, KeptBy
<1>4. CASE UndoAddr \/ RemoveExpired
  <2>1. pc # "down" /\ UNCHANGED <<disk, msg, held>>
    BY <1>4 DEF UndoAddr, RemoveExpired
  <2>2. \A x : DelClntAddr(x) => b \in DOMAIN db /\ db'[b] = db[b]
    BY DEF DelClntAddr, WithoutLease, Restrict
  <2>3. b \in DOMAIN db /\ db'[b] = db[b]
    BY <1>4, <2>2 DEF UndoAddr, RemoveExpired
  <2> QED BY <2>1, <2>3 DEF InFlight, KeptBy
<1>5. CASE Dump \/ SaveExpired \/ NothingExpired
  <2>1. disk'.db = db /\ db' = db /\ held' = held
    BY <1>0, <1>5 DEF Dump, SaveExpired, NothingExpired, srvVars
  <2> QED BY <2>1
<1>6. CASE Wake \/ \E x \in DOMAIN held : Forget(x)
  BY <1>0, <1>6 DEF Wake, Forget, srvVars
<1>7. CASE \E t \in MsgTypes, c \in Clients, ias \in MsgIAs : Receive(t, c, ias)
  BY <1>0, <1>7 DEF Receive
<1>8. CASE Tick
  <2>1. pc = "select" /\ db' = Aged(db) /\ disk' = [disk EXCEPT !.db = Aged(disk.db)]
    BY <1>8 DEF Tick
  <2>2. disk'.db = Aged(disk.db)
    BY <1>0, <2>1 DEF TypeOK
  <2> QED BY <1>0, <2>1, <2>2
<1>9. CASE Shutdown \/ Crash
  BY <1>9 DEF Shutdown, Crash
<1>10. CASE Restart
  <2>1. db' = disk.db /\ disk' = disk
    BY <1>10 DEF Restart
  <2> QED BY <2>1
<1> QED BY <1>1, <1>2, <1>3, <1>4, <1>5, <1>6, <1>7, <1>8, <1>9, <1>10 DEF Next, Server, Environment

LEMMA OwnCorrect == Spec => [](FlowInv /\ OwnInv)
<1>1. Init => FlowInv /\ OwnInv
  BY FlowInit, OwnInit
<1>2. FlowInv /\ OwnInv /\ [Next]_vars => (FlowInv /\ OwnInv)'
  BY FlowStep, OwnStep
<1> QED BY <1>1, <1>2, PTL DEF Spec

(* A crash that does not interrupt the writing of the file, at any other point *)
(* of any handler, loses no promise but those to the client whose message is   *)
(* being handled, for any number of crashes, also of a start on a file that an *)
(* interrupted dump left.                                                    *)
THEOREM CrashLosesLittle == Spec => CrashLosesOnlyInFlight
<1>1. Init => InFlight
  BY DEF Init, InFlight, NoDB
<1>2. InFlight => [pc' = "down" /\ pc # "down" /\ disk' = disk =>
                     \A b \in DOMAIN held : KeptBy(db, b) /\ ~KeptBy(disk.db, b) => b.duid = msg.duid]_vars
  BY DEF InFlight
<1> QED BY <1>1, <1>2, OwnCorrect, InFlightStep, PTL DEF Spec, CrashLosesOnlyInFlight

-----------------------------------------------------------------------------
(* While a message is handled: the SOLICIT of a client that does not solicit    *)
(* for what it holds is not about that,                                      *)
(* a RELEASE or DECLINE is about what its client gave up, and every address   *)
(* that a REPLY is going to carry is reserved for the client or bound to it   *)
(* for the full lifetime.                                                    *)

SolicitsOthers ==
  pc \in {"options", "undo"} /\ msg.type = "SOLICIT" /\ msg.duid \notin StaleClients =>
    \A b \in DOMAIN held : b.duid = msg.duid =>
      /\ \A k \in DOMAIN ans : ans[k].iaid # b.iaid
      /\ pc = "options" => \A k \in DOMAIN msg.ias : msg.ias[k].iaid # b.iaid
GaveUp ==
  pc = "options" /\ msg.type \in {"RELEASE", "DECLINE"} =>
    \A b \in DOMAIN held : b.duid = msg.duid =>
      \A k \in DOMAIN msg.ias : msg.ias[k].iaid = b.iaid => b.addr \notin Range(msg.ias[k].addrs)
Vouched ==
  pc = "options" /\ msg.type # "SOLICIT" =>
    /\ msg.type \in {"RELEASE", "DECLINE"} => ans = <<>>
    /\ \A k \in DOMAIN ans :
         \/ ans[k].addr \in {NoAddr, FixedAddr[msg.duid]}
         \/ Listed(k) \in DOMAIN db /\ db[Listed(k)] = Valid
HandlerInv == SolicitsOthers /\ GaveUp /\ Vouched

LEMMA HandlerAway ==
  ASSUME pc \notin {"options", "undo"}
  PROVE  HandlerInv
BY DEF HandlerInv, SolicitsOthers, GaveUp, Vouched

LEMMA AnswerHandler ==
  ASSUME TypeOK, HandlerInv, NEW a \in Addrs \cup {NoAddr}, OptionAnswered(a)
  PROVE  HandlerInv'
<1>1. /\ pc = "options" /\ pc' = pc /\ msg.ias # <<>> /\ msg \in Messages /\ held' = held
      /\ msg'.type = msg.type /\ msg'.duid = msg.duid /\ msg.type \notin {"RELEASE", "DECLINE"}
  BY AnswerShape
<1>2. /\ DOMAIN ans = 1 .. Len(ans) /\ Len(ans) \in Nat /\ DOMAIN ans' = 1 .. Len(ans) + 1
      /\ \A k \in 1 .. Len(ans) : ans'[k] = ans[k]
      /\ ans'[Len(ans) + 1] = [iaid |-> HeadIAID, addr |-> a]
  BY AnswerShape
<1>3. /\ DOMAIN msg.ias = 1 .. Len(msg.ias) /\ Len(msg.ias) \in Nat \ {0}
      /\ DOMAIN msg'.ias = 1 .. Len(msg.ias) - 1
      /\ \A k \in 1 .. Len(msg.ias) - 1 : msg'.ias[k] = msg.ias[k + 1]
      /\ HeadIAID = msg.ias[1].iaid
  BY AnswerShape
<1>4. \A k \in 1 .. Len(ans) + 1 : k \in 1 .. Len(ans) \/ k = Len(ans) + 1
  BY <1>2
<1>5. SolicitsOthers'
  <2> SUFFICES ASSUME msg.type = "SOLICIT", msg.duid \notin StaleClients,
                      NEW b \in DOMAIN held, b.duid = msg.duid
               PROVE  /\ \A k \in DOMAIN ans' : ans'[k].iaid # b.iaid
                      /\ \A k \in DOMAIN msg'.ias : msg'.ias[k].iaid # b.iaid
    BY <1>1 DEF SolicitsOthers
  <2>1. /\ \A k \in DOMAIN ans : ans[k].iaid # b.iaid
        /\ \A k \in DOMAIN msg.ias : msg.ias[k].iaid # b.iaid
    BY <1>1 DEF HandlerInv, SolicitsOthers
  <2>2. \A k \in 1 .. Len(msg.ias) - 1 : k + 1 \in DOMAIN msg.ias
    BY <1>3
  <2>3. HeadIAID # b.iaid
    BY <1>3, <2>1
  <2>4. \A k \in DOMAIN ans' : ans'[k].iaid # b.iaid
    BY <1>2, <1>4, <2>1, <2>3
  <2> QED BY <1>3, <2>1, <2>2, <2>4
<1>6. Vouched'
  <2> SUFFICES ASSUME msg.type # "SOLICIT", NEW k \in DOMAIN ans'
               PROVE  \/ ans'[k].addr \in {NoAddr, FixedAddr[msg.duid]}
                      \/ /\ Binding(msg.duid, ans'[k].iaid, ans'[k].addr) \in DOMAIN db'
                         /\ db'[Binding(msg.duid, ans'[k].iaid, ans'[k].addr)] = Valid
    BY <1>1 DEF Vouched, Listed
  <2>1. \A b \in DOMAIN db : db[b] = Valid => b \in DOMAIN db' /\ db'[b] = Valid
    BY DEF OptionAnswered, Refused, Reserved, Renewed, Bound, Refreshed, WithLease
  <2>2. CASE k \in 1 .. Len(ans)
    <3>1. \/ ans[k].addr \in {NoAddr, FixedAddr[msg.duid]}
          \/ Listed(k) \in DOMAIN db /\ db[Listed(k)] = Valid
      BY <1>1, <1>2, <2>2 DEF HandlerInv, Vouched
    <3> QED BY <1>2, <2>1, <2>2, <3>1 DEF Listed
  <2>3. CASE k = Len(ans) + 1
    <3>1. ans'[k].iaid = HeadIAID /\ ans'[k].addr = a
      BY <1>2, <2>3
    <3> DEFINE x == Binding(msg.duid, HeadIAID, a)
    <3>2. a \in {NoAddr, FixedAddr[msg.duid]} \/ (x \in DOMAIN db' /\ db'[x] = Valid)
      <4>1. CASE Refused(a) \/ Reserved(a)
        BY <4>1 DEF Refused, Reserved
      <4>2. CASE Renewed(a)
        <5>1. x \in DOMAIN db /\ db' = Refreshed(db, BindingsOf(msg.duid, HeadIAID))
          BY <4>2 DEF Renewed
        <5>2. x \in BindingsOf(msg.duid, HeadIAID)
          BY <5>1 DEF BindingsOf, Binding
        <5> HIDE DEF x
        <5> QED BY <5>1, <5>2 DEF Refreshed
      <4>3. CASE Bound(a)
        BY <4>3 DEF Bound, WithLease
      <4> QED BY <4>1, <4>2, <4>3 DEF OptionAnswered
    <3> QED BY <3>1, <3>2
  <2> QED BY <1>2, <1>4, <2>2, <2>3
<1> QED BY <1>1, <1>5, <1>6 DEF HandlerInv, GaveUp

LEMMA RestHandler ==
  ASSUME TypeOK, HandlerInv, SkipEmptyIA \/ ReleaseAddr \/ DeclineAddr
  PROVE  HandlerInv'
<1> DEFINE rest == IF Head(msg.ias).addrs = <<>> THEN Tail(msg.ias) ELSE RestOfAddrs
<1>1. /\ pc = "options" /\ pc' = pc /\ msg.ias # <<>> /\ held' = held /\ ans' = ans
      /\ msg.type \in {"RELEASE", "DECLINE"} /\ msg' = [msg EXCEPT !.ias = rest]
  BY DEF SkipEmptyIA, ReleaseAddr, DeclineAddr, Handling
<1>2. \A k \in DOMAIN rest : \E j \in DOMAIN msg.ias :
        /\ rest[k].iaid = msg.ias[j].iaid
        /\ Range(rest[k].addrs) \subseteq Range(msg.ias[j].addrs)
  <2>1. CASE Head(msg.ias).addrs = <<>>
    <3>1. \A k \in DOMAIN Tail(msg.ias) : k + 1 \in DOMAIN msg.ias /\ Tail(msg.ias)[k] = msg.ias[k + 1]
      BY <1>1, TailOfOptions
    <3>2. rest = Tail(msg.ias)
      BY <2>1
    <3> HIDE DEF rest
    <3> QED BY <3>1, <3>2
  <2>2. CASE Head(msg.ias).addrs # <<>>
    <3>1. rest = RestOfAddrs
      BY <2>2
    <3> HIDE DEF rest
    <3> QED BY <1>1, <2>2, <3>1, RestOfOptions
  <2> QED BY <2>1, <2>2
<1> HIDE DEF rest
<1>3. msg \in Messages
  BY <1>1, HeadIA
<1>4. msg'.type = msg.type /\ msg'.duid = msg.duid /\ msg'.ias = rest
  BY <1>1, <1>3 DEF Messages
<1>5. ans = <<>>
  BY <1>1 DEF HandlerInv, Vouched
<1>6. Vouched' /\ SolicitsOthers'
  BY <1>1, <1>4, <1>5 DEF Vouched, SolicitsOthers
<1>7. GaveUp'
  <2> SUFFICES ASSUME NEW b \in DOMAIN held, b.duid = msg.duid, NEW k \in DOMAIN rest, rest[k].iaid = b.iaid
               PROVE  b.addr \notin Range(rest[k].addrs)
    BY <1>1, <1>4 DEF GaveUp
  <2>1. PICK j \in DOMAIN msg.ias :
          /\ rest[k].iaid = msg.ias[j].iaid
          /\ Range(rest[k].addrs) \subseteq Range(msg.ias[j].addrs)
    BY <1>2
  <2>2. b.addr \notin Range(msg.ias[j].addrs)
    BY <1>1, <2>1 DEF HandlerInv, GaveUp
  <2> QED BY <2>1, <2>2
<1> QED BY <1>6, <1>7 DEF HandlerInv

LEMMA HandlerStep == TypeOK /\ Phases /\ HandlerInv /\ [Next]_vars => HandlerInv'
<1> SUFFICES ASSUME TypeOK, Phases, HandlerInv, [Next]_vars PROVE HandlerInv'
  OBVIOUS
<1>a. ASSUME pc' \notin {"options", "undo"} PROVE HandlerInv'
  BY <1>a DEF HandlerInv, SolicitsOthers, GaveUp, Vouched
<1>1. CASE HandleOption
  <2>1. CASE DrawForever \/ RebindDiscarded
    BY <1>a, <2>1 DEF DrawForever, RebindDiscarded
  <2> QED BY <1>1, <2>1, OptionOutcomes, AnswerHandler, RestHandler
<1>2. CASE StartUndo
  <2>1. pc = "options" /\ pc' = "undo" /\ UNCHANGED <<msg, ans, held>> /\ msg.type = "SOLICIT"
    BY <1>2 DEF StartUndo, srvVars
  <2> QED BY <2>1 DEF HandlerInv, SolicitsOthers, GaveUp, Vouched
<1>3. CASE UndoAddr
  <2>1. pc = "undo" /\ pc' = pc /\ UNCHANGED <<msg, held>> /\ ans # <<>> /\ ans' = Tail(ans)
    BY <1>3 DEF UndoAddr
  <2>2. \A k \in DOMAIN ans' : k + 1 \in DOMAIN ans /\ ans'[k] = ans[k + 1]
    BY <2>1, TailOfAnswers
  <2>3. SolicitsOthers'
    BY <2>1, <2>2 DEF HandlerInv, SolicitsOthers
  <2> QED BY <2>1, <2>3 DEF HandlerInv, GaveUp, Vouched
<1>4. CASE SendReply \/ SendAdvertise \/ Dump \/ Wake \/ Shutdown \/ Crash \/ Restart
  BY <1>a, <1>4 DEF SendReply, SendAdvertise, Dump, Wake, Shutdown, Crash, Restart
<1>8. CASE SaveExpired \/ NothingExpired
  BY <1>a, <1>8 DEF SaveExpired, NothingExpired
<1>5. CASE RemoveExpired \/ Tick \/ \E b \in DOMAIN held : Forget(b)
  BY <1>a, <1>5 DEF RemoveExpired, Tick, Forget
<1>6. CASE Spin \/ UNCHANGED vars
  BY <1>6 DEF Spin, vars, HandlerInv, SolicitsOthers, GaveUp, Vouched, Listed
<1>7. ASSUME NEW t \in MsgTypes, NEW c \in Clients, NEW ias \in MsgIAs, Receive(t, c, ias)
      PROVE  HandlerInv'
  <2>1. pc = "select" /\ ans' = <<>>
    BY <1>7 DEF Receive, Phases
  <2>2. CASE pc' = "options"
    <3>1. msg'.type = t /\ msg'.duid = c /\ msg'.ias = ias
      BY <1>7, <2>2 DEF Receive
    <3>2. Vouched'
      BY <2>1, <2>2 DEF Vouched
    <3>3. SolicitsOthers'
      <4>1. t = "SOLICIT" /\ c \notin StaleClients => held' = held /\ ~HoldsIA(c, ias)
        BY <1>7 DEF Receive
      <4> QED BY <2>1, <3>1, <4>1 DEF SolicitsOthers, HoldsIA
    <3>4. GaveUp'
      <4>1. t \in {"RELEASE", "DECLINE"} => DOMAIN held' = DOMAIN held \ GivenUp(c, ias)
        BY <1>7 DEF Receive, Restrict
      <4> QED BY <3>1, <4>1 DEF GaveUp, GivenUp
    <3> QED BY <3>2, <3>3, <3>4 DEF HandlerInv
  <2>3. CASE pc' # "options"
    BY <1>a, <1>7, <2>3 DEF Receive
  <2> QED BY <2>2, <2>3
<1> QED BY <1>1, <1>2, <1>3, <1>4, <1>5, <1>6, <1>7, <1>8 DEF Next, Server, Environment

-----------------------------------------------------------------------------
(* What a client holds stays bound to it.                                    *)

LEMMA HeldTimes ==
  ASSUME TypeOK, NEW b \in DOMAIN held
  PROVE  held[b] \in 1 .. Valid /\ held[b] \in Nat \ {0} /\ held[b] <= Valid /\ Valid \in Nat \ {0}
BY BoundsAssumption DEF TypeOK

LEMMA LeaseTimes ==
  ASSUME NEW d, DBType(d), NEW b \in DOMAIN d
  PROVE  d[b] \in Nat
BY BoundsAssumption DEF DBType, Lifetimes

(* The address a RELEASE or DECLINE is about is one its client gave up. *)
LEMMA NextGivenUp ==
  ASSUME TypeOK, HandlerInv, Handling({"RELEASE", "DECLINE"}), Head(msg.ias).addrs # <<>>,
         NEW b \in DOMAIN held
  PROVE  b # NextAddr
<1> SUFFICES ASSUME b = NextAddr PROVE FALSE
  OBVIOUS
<1>1. /\ pc = "options" /\ msg.type \in {"RELEASE", "DECLINE"} /\ msg.ias # <<>>
      /\ Head(msg.ias).addrs \in Seq(Addrs)
  BY HeadIA DEF Handling
<1>2. 1 \in DOMAIN msg.ias /\ Head(msg.ias) = msg.ias[1]
  BY <1>1, TailOfOptions
<1>3. Head(Head(msg.ias).addrs) \in Range(Head(msg.ias).addrs)
  <2> DEFINE s == Head(msg.ias).addrs
  <2>1. s \in Seq(Addrs) /\ s # <<>>
    BY <1>1
  <2> HIDE DEF s
  <2>2. 1 \in DOMAIN s /\ Head(s) = s[1]
    BY <2>1, HeadTailProperties, LenProperties, EmptySeq
  <2>3. Head(s) \in Range(s)
    BY <2>2 DEF Range
  <2> QED BY <2>3 DEF s
<1>4. b.duid = msg.duid /\ b.iaid = msg.ias[1].iaid /\ b.addr \in Range(msg.ias[1].addrs)
  BY <1>2, <1>3 DEF NextAddr, Binding
<1> QED BY <1>1, <1>2, <1>4 DEF HandlerInv, GaveUp

(* Neither the handlers nor expiry take or shorten a lease its client holds.    *)
LEMMA LeasesSurvive ==
  ASSUME TypeOK, Phases, OfClients, HandlerInv, HandleOption \/ UndoAddr \/ RemoveExpired,
         NEW b \in DOMAIN held, b.duid \notin StaleClients, KeptBy(db, b)
  PROVE  b \in DOMAIN db' /\ held[b] <= db'[b]
<1>0. b \in DOMAIN db /\ held[b] <= db[b] /\ held[b] \in Nat \ {0} /\ held[b] <= Valid
  BY HeldTimes DEF KeptBy
<1>d. ASSUME NEW x, DelClntAddr(x), x # b
      PROVE  b \in DOMAIN db' /\ db'[b] = db[b]
  BY <1>0, <1>d DEF DelClntAddr, WithoutLease, Restrict
<1>1. ASSUME NEW a \in Addrs \cup {NoAddr}, OptionAnswered(a)
      PROVE  b \in DOMAIN db' /\ held[b] <= db'[b]
  BY <1>0, <1>1 DEF OptionAnswered, Refused, Reserved, Renewed, Bound, Refreshed, WithLease
<1>2. CASE DrawForever \/ RebindDiscarded \/ SkipEmptyIA
  BY <1>0, <1>2 DEF DrawForever, RebindDiscarded, SkipEmptyIA
<1>3. CASE ReleaseAddr
  <2>1. b # NextAddr
    BY <1>3, NextGivenUp DEF ReleaseAddr, Handling
  <2> QED BY <1>0, <1>3, <1>d, <2>1 DEF ReleaseAddr
<1>4. CASE DeclineAddr
  <2>1. b # NextAddr /\ b # Quarantine(NextAddr)
    BY <1>4, NextGivenUp, NamesAssumption DEF DeclineAddr, Handling, OfClients, Quarantine, Binding
  <2> QED BY <1>0, <1>4, <2>1, DeclineEffects
<1>5. CASE UndoAddr
  <2> DEFINE x == Binding(msg.duid, Head(ans).iaid, Head(ans).addr)
  <2>1. pc = "undo" /\ ans # <<>> /\ (UNCHANGED db \/ DelClntAddr(x))
    BY <1>5 DEF UndoAddr
  <2>2. 1 \in DOMAIN ans /\ Head(ans) = ans[1] /\ msg.type = "SOLICIT"
    BY <2>1, TailOfAnswers DEF Phases
  <2>3. b # x
    BY <2>1, <2>2 DEF HandlerInv, SolicitsOthers, Binding
  <2> HIDE DEF x
  <2> QED BY <1>0, <1>d, <2>1, <2>3
<1>6. CASE RemoveExpired
  <2>1. PICK x \in Expired : DelClntAddr(x)
    BY <1>6 DEF RemoveExpired
  <2>2. b # x
    BY <1>0 DEF Expired
  <2> QED BY <1>0, <1>d, <2>1, <2>2
<1> QED BY <1>1, <1>2, <1>3, <1>4, <1>5, <1>6, OptionOutcomes

LEMMA ReplyVouched ==
  ASSUME FlowInv, HandlerInv, SendReply, NEW b \in Told
  PROVE  b.addr = FixedAddr[b.duid] \/ (b \in DOMAIN db /\ db[b] = Valid)
<1>1. TypeOK /\ msg \in Messages /\ pc = "options" /\ msg.type # "SOLICIT"
  BY DEF FlowInv, SendReply
<1>2. PICK k \in DOMAIN ans : Listed(k) = b /\ ans[k].addr = b.addr /\ ans[k].addr # NoAddr
  BY <1>1, ToldFacts
<1>3. b.duid = msg.duid
  BY <1>1, ToldFacts
<1> QED BY <1>1, <1>2, <1>3 DEF HandlerInv, Vouched

LEMMA BoundStep ==
  ASSUME FlowInv, Phases, OfClients, HandlerInv, HeldLeaseIsBound, [Next]_vars
  PROVE  HeldLeaseIsBound'
<1> SUFFICES ASSUME crashes' = 0, NEW b \in DOMAIN held',
                    b.duid \notin StaleClients, b.addr # FixedAddr[b.duid]
             PROVE  b \in DOMAIN Store' /\ held'[b] <= Store'[b]
  BY DEF HeldLeaseIsBound
<1>0. TypeOK /\ (pc = "down" => DOMAIN db = {})
  BY DEF FlowInv
<1>h. ASSUME crashes = 0, b \in DOMAIN held
      PROVE  b \in DOMAIN Store /\ held[b] <= Store[b]
  BY <1>h DEF HeldLeaseIsBound
<1>1. CASE HandleOption \/ UndoAddr \/ RemoveExpired
  <2>1. pc \notin {"down"} /\ pc' # "down" /\ crashes' = crashes /\ held' = held
    <3>1. CASE HandleOption
      <4>1. crashes' = crashes
        <5>1. CASE DrawForever \/ RebindDiscarded \/ SkipEmptyIA \/ ReleaseAddr \/ DeclineAddr
          BY <5>1 DEF DrawForever, RebindDiscarded, SkipEmptyIA, ReleaseAddr, DeclineAddr
        <5> QED BY <1>0, <3>1, <5>1, OptionOutcomes DEF OptionAnswered, Answer
      <4> QED BY <1>0, <3>1, <4>1, OptionKeepsPlace, SameClient
    <3>2. CASE UndoAddr \/ RemoveExpired
      BY <3>2 DEF UndoAddr, RemoveExpired
    <3> QED BY <1>1, <3>1, <3>2
  <2>2. KeptBy(db, b) /\ b \in DOMAIN held
    BY <1>h, <2>1 DEF Store, KeptBy
  <2> QED BY <1>0, <1>1, <2>1, <2>2, LeasesSurvive DEF Store
<1>2. CASE SendReply
  <2>1. /\ pc = "options" /\ pc' = "dump" /\ crashes' = crashes /\ db' = db
        /\ held' = [x \in DOMAIN held \cup Told |-> IF x \in Told THEN Valid ELSE held[x]]
    BY <1>2 DEF SendReply, Holding
  <2>2. CASE b \in Told
    <3>1. b \in DOMAIN db /\ db[b] = Valid /\ held'[b] = Valid
      BY <1>2, <2>1, <2>2, ReplyVouched
    <3> QED BY <2>1, <3>1, BoundsAssumption DEF Store
  <2>3. CASE b \notin Told
    BY <1>h, <2>1, <2>3 DEF Store
  <2> QED BY <2>2, <2>3
<1>3. CASE StartUndo \/ SendAdvertise \/ Dump \/ Wake \/ SaveExpired \/ NothingExpired \/ Spin \/ UNCHANGED vars
  <2>1. UNCHANGED <<db, held, crashes>> /\ (pc' = "down" => pc = "down" /\ disk' = disk)
        /\ (pc = "down" => pc' = "down")
    BY <1>3 DEF StartUndo, SendAdvertise, Dump, Wake, SaveExpired, NothingExpired, Spin, srvVars, vars
  <2> QED BY <1>h, <2>1 DEF Store
<1>4. CASE (\E t \in MsgTypes, c \in Clients, ias \in MsgIAs : Receive(t, c, ias))
             \/ \E x \in DOMAIN held : Forget(x)
  <2>1. /\ UNCHANGED <<db, crashes>> /\ pc = "select" /\ pc' # "down"
    BY <1>4 DEF Receive, Forget, srvVars
  <2>2. b \in DOMAIN held /\ held'[b] = held[b]
    BY <1>4 DEF Receive, Forget, Restrict
  <2> QED BY <1>h, <2>1, <2>2 DEF Store
<1>5. CASE Tick
  <2>1. /\ pc' = pc /\ crashes' = crashes /\ db' = Aged(db) /\ disk' = [disk EXCEPT !.db = Aged(disk.db)]
        /\ held' = [x \in StillHeld |-> held[x] - 1]
    BY <1>5 DEF Tick
  <2>2. disk'.db = Aged(disk.db)
    BY <1>0, <2>1 DEF TypeOK
  <2>3. Store' = Aged(Store)
    BY <2>1, <2>2 DEF Store
  <2>4. b \in DOMAIN held /\ held[b] > 1 /\ held'[b] = held[b] - 1 /\ held[b] \in Nat
    BY <1>0, <2>1, HeldTimes DEF StillHeld
  <2>5. b \in DOMAIN Store /\ held[b] <= Store[b]
    BY <1>h, <2>1, <2>4
  <2>6. Store[b] \in Nat
    BY <1>0, <2>5, TypeFacts, LeaseTimes DEF Store
  <2>7. b \in DOMAIN Aged(Store) /\ Aged(Store)[b] = Store[b] - 1
    BY <2>4, <2>5, <2>6 DEF Aged
  <2> QED BY <2>3, <2>4, <2>5, <2>6, <2>7
<1>6. CASE Shutdown
  BY <1>h, <1>6 DEF Shutdown, Store
<1>7. CASE Crash
  BY <1>0, <1>7 DEF Crash, TypeOK
<1>8. CASE Restart
  BY <1>h, <1>8 DEF Restart, Store
<1> QED BY <1>1, <1>2, <1>3, <1>4, <1>5, <1>6, <1>7, <1>8 DEF Next, Server, Environment

PromiseInv == FlowInv /\ Phases /\ OwnInv /\ HandlerInv

LEMMA PromiseInit == Init => PromiseInv
<1> SUFFICES ASSUME Init PROVE PromiseInv
  OBVIOUS
<1>1. Phases /\ pc = "select"
  BY DEF Init, Phases
<1> QED BY <1>1, FlowInit, OwnInit, HandlerAway DEF PromiseInv

LEMMA PromiseStep == PromiseInv /\ [Next]_vars => PromiseInv'
BY FlowStep, OwnStep, PhasesStep, HandlerStep DEF PromiseInv, FlowInv

(* Without a crash, what a REPLY told a client stays bound to it for as long    *)
(* as the client relies on it, if it does not solicit for an IA it holds;      *)
(* that others do, and lose their leases by it, changes nothing for it.       *)
THEOREM HeldLeasesStayBound == Spec => []HeldLeaseIsBound
<1>1. Init => HeldLeaseIsBound
  BY DEF Init, HeldLeaseIsBound, NoDB
<1>2. PromiseInv /\ [Next]_vars => PromiseInv'
  BY PromiseStep
<1>3. PromiseInv /\ HeldLeaseIsBound /\ [Next]_vars => HeldLeaseIsBound'
  BY BoundStep DEF PromiseInv, OwnInv
<1> QED BY <1>1, <1>2, <1>3, PromiseInit, PTL DEF Spec

-----------------------------------------------------------------------------
(* The server implements the table of leases.                                *)

RInv == PromiseInv /\ GoodInv

LEMMA RInit == Init => RInv
BY PromiseInit, GoodInit DEF RInv

LEMMA RStep == RInv /\ [Next]_vars => RInv'
BY PromiseStep, GoodStep DEF RInv

(* Who is asking: the IAs of a SOLICIT, until their part of the answer is done. *)
LEMMA AskingKept ==
  ASSUME TypeOK,
         \/ HandleOption \/ SendReply \/ StartUndo \/ SendAdvertise
         \/ Wake \/ RemoveExpired \/ SaveExpired \/ NothingExpired \/ Spin
         \/ Tick \/ Shutdown \/ Restart \/ UNCHANGED vars \/ \E b \in DOMAIN held : Forget(b)
  PROVE  Asking' = Asking
<1>1. ASSUME NEW a \in Addrs \cup {NoAddr}, OptionAnswered(a) PROVE Asking' = Asking
  <2> DEFINE I == {msg.ias[k].iaid : k \in DOMAIN msg.ias}
             J == {ans[k].iaid : k \in DOMAIN ans}
  <2>1. /\ DOMAIN ans = 1 .. Len(ans) /\ Len(ans) \in Nat /\ DOMAIN ans' = 1 .. Len(ans) + 1
        /\ \A k \in 1 .. Len(ans) : ans'[k] = ans[k]
        /\ ans'[Len(ans) + 1].iaid = HeadIAID
        /\ msg'.type = msg.type /\ msg'.duid = msg.duid
        /\ DOMAIN msg.ias = 1 .. Len(msg.ias) /\ Len(msg.ias) \in Nat \ {0}
        /\ DOMAIN msg'.ias = 1 .. Len(msg.ias) - 1
        /\ \A k \in 1 .. Len(msg.ias) - 1 : msg'.ias[k] = msg.ias[k + 1]
        /\ HeadIAID = msg.ias[1].iaid
    <3>1. /\ DOMAIN ans = 1 .. Len(ans) /\ Len(ans) \in Nat /\ DOMAIN ans' = 1 .. Len(ans) + 1
          /\ \A k \in 1 .. Len(ans) : ans'[k] = ans[k]
          /\ msg'.type = msg.type /\ msg'.duid = msg.duid
          /\ DOMAIN msg.ias = 1 .. Len(msg.ias) /\ Len(msg.ias) \in Nat \ {0}
          /\ DOMAIN msg'.ias = 1 .. Len(msg.ias) - 1
          /\ \A k \in 1 .. Len(msg.ias) - 1 : msg'.ias[k] = msg.ias[k + 1]
          /\ HeadIAID = msg.ias[1].iaid
      BY <1>1, AnswerShape, Zenon
    <3>2. ans'[Len(ans) + 1] = [iaid |-> HeadIAID, addr |-> a]
      BY <1>1, AnswerShape, Zenon
    <3>3. ans'[Len(ans) + 1].iaid = HeadIAID
      BY <3>2
    <3> QED BY <3>1, <3>3, Zenon
  <2>2. J' = J \cup {HeadIAID}
    <3>1. \A k \in DOMAIN ans' : k \in DOMAIN ans \/ k = Len(ans) + 1
      BY <2>1
    <3>2. Len(ans) + 1 \in DOMAIN ans' /\ \A k \in DOMAIN ans : k \in DOMAIN ans' /\ ans'[k] = ans[k]
      BY <2>1
    <3> QED BY <2>1, <3>1, <3>2
  <2>3. I = I' \cup {HeadIAID}
    <3>1. \A k \in DOMAIN msg'.ias : k + 1 \in DOMAIN msg.ias /\ msg'.ias[k] = msg.ias[k + 1]
      BY <2>1
    <3>2. \A n \in Nat \ {0} : \A k \in 1 .. n : k = 1 \/ (k - 1 \in 1 .. n - 1 /\ (k - 1) + 1 = k)
      OBVIOUS
    <3>3. \A k \in DOMAIN msg.ias :
            k = 1 \/ (k - 1 \in DOMAIN msg'.ias /\ msg'.ias[k - 1] = msg.ias[k])
      BY <2>1, <3>2
    <3>4. 1 \in DOMAIN msg.ias /\ HeadIAID = msg.ias[1].iaid
      BY <2>1
    <3>5. I' = {msg'.ias[k].iaid : k \in DOMAIN msg'.ias}
      OBVIOUS
    <3>6. \A i \in I : i \in I' \/ i = HeadIAID
      BY <3>3, <3>4, <3>5, Zenon
    <3>7. \A i \in I' : i \in I
      BY <3>1, <3>5, Zenon
    <3>8. HeadIAID \in I
      BY <3>4, Zenon
    <3> HIDE DEF I
    <3> QED BY <3>6, <3>7, <3>8
  <2>4. Asking = IF msg.type # "SOLICIT" THEN {} ELSE {<<msg.duid, i>> : i \in I \cup J}
    BY DEF Asking
  <2>5. Asking' = IF msg.type # "SOLICIT" THEN {} ELSE {<<msg.duid, i>> : i \in I' \cup J'}
    <3>1. msg'.type = msg.type /\ msg'.duid = msg.duid
      BY <2>1, Zenon
    <3> QED BY <3>1 DEF Asking
  <2> HIDE DEF I, J
  <2>6. I' \cup J' = I \cup J
    BY <2>2, <2>3
  <2> QED BY <2>4, <2>5, <2>6
<1>2. CASE DrawForever
  BY <1>2 DEF DrawForever, Asking
<1>3. CASE RebindDiscarded
  BY <1>3 DEF RebindDiscarded, NoBindingFor, Handling, Asking
<1>4. CASE SkipEmptyIA \/ ReleaseAddr \/ DeclineAddr
  <2>1. msg.type \in {"RELEASE", "DECLINE"} /\ HandleOption
    BY <1>4 DEF SkipEmptyIA, ReleaseAddr, DeclineAddr, Handling, HandleOption
  <2>2. msg'.type = msg.type
    BY <2>1, SameClient
  <2> QED BY <2>1, <2>2 DEF Asking
<1>5. CASE \/ SendReply \/ StartUndo \/ SendAdvertise
           \/ Wake \/ RemoveExpired \/ SaveExpired \/ NothingExpired \/ Spin
           \/ Tick \/ Shutdown \/ Restart \/ UNCHANGED vars \/ \E b \in DOMAIN held : Forget(b)
  BY <1>5 DEF SendReply, StartUndo, SendAdvertise, Wake, RemoveExpired, SaveExpired, NothingExpired,
       Spin, Tick, Shutdown, Restart, Forget, srvVars, vars, Asking
<1> QED BY <1>1, <1>2, <1>3, <1>4, <1>5, OptionOutcomes

(* Between two messages nobody is. *)
LEMMA NobodyAsking ==
  ASSUME msg = NoMsg
  PROVE  Asking = {}
BY DEF NoMsg, Asking

(* The table that a database is. *)
TableOf(d) == [a \in Addrs |-> OwnerIn(d, a)]
Owner(b) == <<b.duid, b.iaid>>
TB == TableOf(db)
SV == TableOf(disk.db)
Kept == {b \in DOMAIN held : KeptBy(Store, b)}
PR == {<<Owner(b), b.addr>> : b \in Kept}

LEMMA OwnerFacts ==
  ASSUME NEW d, Unique(d), NEW a \in Addrs
  PROVE  /\ \A b \in DOMAIN d : b.addr = a => TableOf(d)[a] = Owner(b)
         /\ (\A b \in DOMAIN d : b.addr # a) => TableOf(d)[a] = <<>>
<1>1. ASSUME NEW b \in DOMAIN d, b.addr = a PROVE OwnerIn(d, a) = Owner(b)
  <2>1. (CHOOSE x \in DOMAIN d : x.addr = a) = b
    <3>1. \A x \in DOMAIN d : x.addr = a => x = b
      BY <1>1 DEF Unique
    <3> QED BY <1>1, <3>1
  <2> QED BY <1>1, <2>1 DEF OwnerIn, Owner
<1>2. ASSUME \A b \in DOMAIN d : b.addr # a PROVE OwnerIn(d, a) = <<>>
  BY <1>2 DEF OwnerIn
<1> QED BY <1>1, <1>2 DEF TableOf

LEMMA SameTable ==
  ASSUME NEW d, NEW e, Unique(d), DOMAIN e = DOMAIN d
  PROVE  TableOf(e) = TableOf(d)
<1>1. Unique(e)
  BY DEF Unique
<1>2. \A a \in Addrs : TableOf(e)[a] = TableOf(d)[a]
  <2> TAKE a \in Addrs
  <2>1. CASE \E b \in DOMAIN d : b.addr = a
    BY <1>1, <2>1, OwnerFacts
  <2>2. CASE \A b \in DOMAIN d : b.addr # a
    BY <1>1, <2>2, OwnerFacts
  <2> QED BY <2>1, <2>2
<1> QED BY <1>2 DEF TableOf

Pairs(t) == {<<t[a], a>> : a \in {a \in Addrs : t[a] \in Clients \X IAIDs}}

LEMMA PairsOfLeases ==
  ASSUME NEW d, DBType(d), Unique(d), NEW b \in DOMAIN d, b.duid \in Clients, b.iaid \in IAIDs
  PROVE  <<Owner(b), b.addr>> \in Pairs(TableOf(d))
<1>1. b.addr \in Addrs
  BY DEF DBType, Bindings
<1>2. TableOf(d)[b.addr] = Owner(b) /\ Owner(b) \in Clients \X IAIDs
  BY <1>1, OwnerFacts DEF Owner
<1> QED BY <1>1, <1>2 DEF Pairs

LEMMA RFacts ==
  ASSUME RInv
  PROVE  /\ TypeOK /\ Unique(db) /\ Unique(disk.db) /\ DBType(db) /\ DBType(disk.db)
         /\ OfClients /\ Phases /\ HandlerInv /\ FlowInv
         /\ \A b \in DOMAIN held : b.duid \in Clients /\ b.iaid \in IAIDs
BY TypeFacts DEF RInv, GoodInv, Good, PromiseInv, OwnInv, OfClients

(* What the steps of the table are in terms of the server. *)
TStep == [Table!TableNext]_(Table!tableVars)
TBChanged == {a \in Addrs : TB'[a] # TB[a]}

LEMMA PromisedIs == Promised = PR
BY DEF Promised, PR, Kept, Owner

LEMMA PromisedIsNext == Promised' = PR'
BY DEF Promised, PR, Kept, Owner

LEMMA ChangedIs == Table!Changed = TBChanged
BY DEF Table!Changed, TBChanged, TB, TableOf

LEMMA ToPromise ==
  ASSUME pc # "down", pc' # "down", TB' = TB, SV' = SV, Asking' = Asking,
         PR \subseteq PR', PR' \subseteq PR \cup Pairs(TB)
  PROVE  TStep
<1>1. Table!Promise
  BY PromisedIs, PromisedIsNext DEF Table!Promise, Table!BoundPairs, TB, SV, TableOf, Pairs
<1> QED BY <1>1 DEF TStep, Table!TableNext

LEMMA ToLapse ==
  ASSUME (pc' # "down") <=> (pc # "down"), TB' = TB, SV' = SV, PR' \subseteq PR, Asking' = Asking
  PROVE  TStep
<1>1. Table!Lapse
  BY PromisedIs, PromisedIsNext DEF Table!Lapse, TB, SV, TableOf
<1> QED BY <1>1 DEF TStep, Table!TableNext

LEMMA ToAsk ==
  ASSUME pc # "down", pc' # "down", TB' = TB, SV' = SV, PR' = PR,
         Asking = {}, Asking' \subseteq Clients \X IAIDs
  PROVE  TStep
<1>1. Table!Ask
  BY PromisedIs, PromisedIsNext DEF Table!Ask, TB, SV, TableOf
<1> QED BY <1>1 DEF TStep, Table!TableNext

LEMMA ToAnswered ==
  ASSUME pc # "down", pc' # "down", TB' = TB, SV' = SV, PR' = PR, Asking' \subseteq Asking
  PROVE  TStep
<1>1. Table!Answered
  BY PromisedIs, PromisedIsNext DEF Table!Answered, TB, SV, TableOf
<1> QED BY <1>1 DEF TStep, Table!TableNext

LEMMA ToTakeBack ==
  ASSUME pc # "down", pc' # "down", SV' = SV, NEW a0 \in Addrs, TBChanged = {a0},
         TB'[a0] = <<>>, PR' = PR \ {<<TB[a0], a0>>},
         <<TB[a0], a0>> \notin PR \/ TB[a0] \in Asking, Asking' \subseteq Asking
  PROVE  TStep
<1>1. {<<TB[a], a>> : a \in TBChanged} = {<<TB[a0], a0>>}
  OBVIOUS
<1>2. Table!TakeBack
  BY <1>1, ChangedIs, PromisedIs, PromisedIsNext DEF Table!TakeBack, TB, SV, TableOf
<1> QED BY <1>2 DEF TStep, Table!TableNext

LEMMA ToGrant ==
  ASSUME pc # "down", pc' # "down", SV' = SV, Asking' = Asking,
         NEW o \in Clients \X IAIDs, NEW a0 \in Addrs,
         {a \in Addrs : TB[a] = o} = {}, TBChanged = {a0},
         TB[a0] = <<>> /\ TB'[a0] = o,
         PR \subseteq PR', PR' \subseteq PR \cup Pairs(TB')
  PROVE  TStep
<1>0. Table!Cardinality(TBChanged) = Cardinality(TBChanged)
  BY DEF Table!Cardinality, Cardinality
<1>1. Cardinality(TBChanged) <= 1 /\ TBChanged # {}
  <2>1. Cardinality({a0}) = 1
    BY FS_Singleton
  <2>2. Cardinality(TBChanged) = 1
    BY <2>1
  <2> QED BY <2>2
<1>2. Table!Grant(o)
  BY <1>0, <1>1, ChangedIs, PromisedIs, PromisedIsNext
     DEF Table!Grant, Table!Has, Table!BoundPairs, TB, SV, TableOf, Pairs
<1> QED BY <1>2 DEF TStep, Table!TableNext

LEMMA ToQuarantine ==
  ASSUME pc # "down", pc' # "down", SV' = SV, PR' = PR, Asking' = Asking, NEW a0 \in Addrs,
         TBChanged = {a0}, TB[a0] \in Clients \X IAIDs, <<TB[a0], a0>> \notin PR,
         TB'[a0] = <<DeclinedDUID, DeclinedIAID>>
  PROVE  TStep
<1>1. TB' = [TB EXCEPT ![a0] = <<DeclinedDUID, DeclinedIAID>>]
  BY DEF TBChanged, TB, TableOf
<1>2. Table!Quarantine
  BY <1>1, ChangedIs, PromisedIs, PromisedIsNext DEF Table!Quarantine, TB, SV, TableOf
<1> QED BY <1>2 DEF TStep, Table!TableNext

LEMMA ToSave ==
  ASSUME pc # "down", pc' # "down", SV' = TB, TB' = TB, PR' = PR, Asking' = {}
  PROVE  TStep
<1>1. Table!Save
  BY PromisedIs, PromisedIsNext DEF Table!Save, TB, SV, TableOf
<1> QED BY <1>1 DEF TStep, Table!TableNext

LEMMA EmptyTable == TableOf(NoDB) = [a \in Addrs |-> <<>>]
BY DEF TableOf, OwnerIn, NoDB

LEMMA ToStop ==
  ASSUME pc # "down", pc' = "down", SV' = TB, db' = NoDB, PR' = PR, Asking' = Asking
  PROVE  TStep
<1>1. TB' = [a \in Addrs |-> <<>>]
  BY EmptyTable DEF TB, TableOf
<1>2. Table!Stop
  BY <1>1, PromisedIs, PromisedIsNext DEF Table!Stop, Table!AllFree, TB, SV, TableOf
<1> QED BY <1>2 DEF TStep, Table!TableNext

LEMMA ToCrashStop ==
  ASSUME pc # "down", pc' = "down", db' = NoDB, Asking' = {}, PR' \subseteq Pairs(SV'),
         SV' = SV \/ \E kept \in SUBSET Addrs : SV' = [a \in Addrs |-> IF a \in kept THEN TB[a] ELSE <<>>]
  PROVE  TStep
<1>1. TB' = [a \in Addrs |-> <<>>]
  BY EmptyTable DEF TB, TableOf
<1>2. PR' \subseteq Table!BoundPairs(SV')
  BY DEF Table!BoundPairs, Pairs
<1>3. SV' = SV \/ SV' \in Table!PartOf(TB)
  BY DEF Table!PartOf
<1>4. Table!CrashStop
  BY <1>1, <1>2, <1>3, PromisedIs, PromisedIsNext
     DEF Table!CrashStop, Table!AllFree, TB, SV, TableOf
<1> QED BY <1>4 DEF TStep, Table!TableNext

LEMMA ToStart ==
  ASSUME pc = "down", pc' # "down", TB' = SV, SV' = SV, PR' = PR, Asking' = Asking
  PROVE  TStep
<1>1. Table!Start
  BY PromisedIs, PromisedIsNext DEF Table!Start, TB, SV, TableOf
<1> QED BY <1>1 DEF TStep, Table!TableNext

(* A lease goes that its owner does not rely on, or that it asked about again. *)
LEMMA RemovalIsTakeBack ==
  ASSUME RInv, RInv', pc # "down", pc' # "down", held' = held, disk' = disk, NEW x, DelClntAddr(x),
         Asking' \subseteq Asking, x \notin Kept \/ Owner(x) \in Asking
  PROVE  TStep
<1>0. Unique(db) /\ Unique(db') /\ DBType(db)
  BY RFacts DEF RInv, GoodInv, Good
<1>s. SV' = SV
  BY DEF SV, TableOf
<1>1. CASE x \notin DOMAIN db
  <2>1. db' = db
    BY <1>1 DEF DelClntAddr
  <2>2. TB' = TB /\ Kept' = Kept
    BY <2>1 DEF TB, TableOf, Kept, KeptBy, Store
  <2>3. PR' = PR
    BY <2>2 DEF PR
  <2> QED BY <1>s, <2>2, <2>3, ToAnswered
<1>2. CASE x \in DOMAIN db
  <2>1. /\ DOMAIN db' = DOMAIN db \ {x}
        /\ \A b \in DOMAIN db' : db'[b] = db[b]
    BY <1>2 DEF DelClntAddr, WithoutLease, Restrict
  <2>2. x.addr \in Addrs
    BY <1>0, <1>2 DEF DBType, Bindings
  <2>3. TB = TableOf(db) /\ TB' = TableOf(db')
    BY DEF TB, TableOf
  <2>4. \A b \in DOMAIN db : b.addr = x.addr => b = x
    BY <1>0, <1>2 DEF Unique
  <2>5. TB[x.addr] = Owner(x) /\ TB'[x.addr] = <<>>
    <3>1. \A b \in DOMAIN db' : b.addr # x.addr
      BY <2>1, <2>4
    <3> QED BY <1>0, <1>2, <2>2, <2>3, <3>1, OwnerFacts
  <2>6. ASSUME NEW y \in Addrs, y # x.addr PROVE TB'[y] = TB[y]
    <3>1. CASE \E b \in DOMAIN db : b.addr = y
      <4>1. PICK b \in DOMAIN db : b.addr = y
        BY <3>1
      <4>2. b \in DOMAIN db'
        BY <2>1, <2>6, <4>1
      <4> QED BY <1>0, <2>3, <4>1, <4>2, OwnerFacts
    <3>2. CASE \A b \in DOMAIN db : b.addr # y
      <4>1. \A b \in DOMAIN db' : b.addr # y
        BY <2>1, <3>2
      <4> QED BY <1>0, <2>3, <3>2, <4>1, OwnerFacts
    <3> QED BY <3>1, <3>2
  <2>7. TBChanged = {x.addr}
    <3>1. Owner(x) # <<>>
      BY DEF Owner
    <3> QED BY <2>2, <2>5, <2>6, <3>1 DEF TBChanged
  <2>8. Kept' = Kept \ {x}
    BY <2>1 DEF Kept, KeptBy, Store
  <2>9. \A b \in Kept : b \in DOMAIN db
    BY DEF Kept, KeptBy, Store
  <2>10. \A b \in Kept : <<Owner(b), b.addr>> = <<Owner(x), x.addr>> => b = x
    BY <2>4, <2>9
  <2>11. PR' = PR \ {<<Owner(x), x.addr>>}
    BY <2>8, <2>10 DEF PR
  <2>12. <<Owner(x), x.addr>> \notin PR \/ Owner(x) \in Asking
    BY <2>10 DEF PR
  <2> QED BY <1>s, <2>2, <2>5, <2>7, <2>11, <2>12, ToTakeBack
<1> QED BY <1>1, <1>2

(* A step that only tells, or gives new time. *)
LEMMA TellIsPromise ==
  ASSUME RInv, RInv', pc # "down", pc' # "down", disk' = disk, DOMAIN db' = DOMAIN db,
         Asking' = Asking, Kept \subseteq Kept'
  PROVE  TStep
<1>0. Unique(db) /\ DBType(db)
  BY RFacts
<1>1. TB' = TB
  BY <1>0, SameTable DEF TB
<1>2. SV' = SV
  BY DEF SV, TableOf
<1>3. PR \subseteq PR'
  BY DEF PR
<1>4. ASSUME NEW b \in Kept' PROVE <<Owner(b), b.addr>> \in Pairs(TB)
  <2>1. b \in DOMAIN db /\ b \in DOMAIN held'
    BY DEF Kept, KeptBy, Store
  <2>2. b.duid \in Clients /\ b.iaid \in IAIDs
    BY <2>1 DEF RInv, PromiseInv, OwnInv, OfClients
  <2> QED BY <1>0, <2>1, <2>2, PairsOfLeases DEF TB
<1>5. PR' \subseteq PR \cup Pairs(TB)
  BY <1>4 DEF PR
<1> QED BY <1>1, <1>2, <1>3, <1>5, ToPromise

LEMMA QuietIsPromise ==
  ASSUME RInv, RInv', pc # "down", pc' # "down", UNCHANGED <<db, disk, held>>, Asking' = Asking
  PROVE  TStep
<1>1. Kept' = Kept
  BY DEF Kept, KeptBy, Store
<1> QED BY <1>1, TellIsPromise

LEMMA AnswerIsStep ==
  ASSUME RInv, RInv', NEW a \in Addrs \cup {NoAddr}, OptionAnswered(a), Asking' = Asking
  PROVE  TStep
<1>0. /\ TypeOK /\ Unique(db) /\ Unique(db') /\ DBType(db) /\ DBType(db')
      /\ \A b \in DOMAIN held : b.duid \in Clients /\ b.iaid \in IAIDs
  BY RFacts, TypeFacts DEF RInv, GoodInv, Good, TypeOK, DBType
<1>1. pc = "options" /\ pc' = pc /\ disk' = disk /\ held' = held /\ msg \in Messages /\ msg.ias # <<>>
  BY <1>0, AnswerShape
<1>2. CASE Refused(a) \/ Reserved(a)
  BY <1>1, <1>2, QuietIsPromise DEF Refused, Reserved
<1>3. CASE Renewed(a)
  <2>1. DOMAIN db' = DOMAIN db /\ \A b \in DOMAIN db : db'[b] = db[b] \/ db'[b] = Valid
    BY <1>3 DEF Renewed, Refreshed
  <2>2. ASSUME NEW b \in Kept PROVE b \in Kept'
    <3>1. b \in DOMAIN held /\ b \in DOMAIN db /\ held[b] <= db[b] /\ held[b] <= Valid
      BY <1>0, <1>1, HeldTimes DEF Kept, KeptBy, Store
    <3> QED BY <1>1, <2>1, <3>1 DEF Kept, KeptBy, Store
  <2> QED BY <1>1, <2>1, <2>2, TellIsPromise
<1>4. CASE Bound(a)
  <2> DEFINE x == Binding(msg.duid, HeadIAID, a)
             o == <<msg.duid, HeadIAID>>
  <2>1. /\ db' = WithLease(db, x, Valid) /\ a \in Addrs /\ BindingsOf(msg.duid, HeadIAID) = {}
        /\ \A b \in DOMAIN db : b.addr # a
    BY <1>4 DEF Bound, AddrIsFree
  <2>2. msg.duid \in Clients /\ HeadIAID \in IAIDs
    BY <1>0, <1>1, HeadIA DEF Messages, HeadIAID
  <2>3. Owner(x) = o /\ o \in Clients \X IAIDs /\ x.addr = a /\ x.duid = msg.duid /\ x.iaid = HeadIAID
    BY <2>2 DEF Owner, Binding
  <2>4. \A b \in DOMAIN db : Owner(b) # o
    BY <2>1 DEF Owner, BindingsOf
  <2>5. o # <<>>
    OBVIOUS
  <2> HIDE DEF x, o
  <2>6. /\ DOMAIN db' = DOMAIN db \cup {x} /\ x \notin DOMAIN db
        /\ \A b \in DOMAIN db : db'[b] = db[b]
    BY <2>1, <2>3 DEF WithLease
  <2>7. \A y \in Addrs :
          /\ TB[y] = TableOf(db)[y] /\ TB'[y] = TableOf(db')[y]
          /\ TB[y] = <<>> \/ \E b \in DOMAIN db : b.addr = y /\ TB[y] = Owner(b)
    BY <1>0, OwnerFacts DEF TB, TableOf
  <2>8. {y \in Addrs : TB[y] = o} = {}
    BY <2>4, <2>5, <2>7
  <2>9. TB[a] = <<>> /\ TB'[a] = o
    <3>1. TableOf(db)[a] = <<>>
      BY <1>0, <2>1, OwnerFacts
    <3>2. TableOf(db')[a] = Owner(x)
      BY <1>0, <2>1, <2>3, <2>6, OwnerFacts
    <3> QED BY <2>1, <2>3, <2>7, <3>1, <3>2
  <2>10. ASSUME NEW y \in Addrs, y # a PROVE TB'[y] = TB[y]
    <3>1. CASE \E b \in DOMAIN db : b.addr = y
      BY <1>0, <2>6, <2>7, <3>1, OwnerFacts
    <3>2. CASE \A b \in DOMAIN db : b.addr # y
      <4>1. \A b \in DOMAIN db' : b.addr # y
        BY <2>3, <2>6, <2>10, <3>2
      <4> QED BY <1>0, <2>7, <3>2, <4>1, OwnerFacts
    <3> QED BY <3>1, <3>2
  <2>11. TBChanged = {a}
    BY <2>1, <2>5, <2>9, <2>10 DEF TBChanged
  <2>12. Kept \subseteq Kept' /\ Kept' \subseteq Kept \cup {x}
    BY <1>1, <2>6 DEF Kept, KeptBy, Store
  <2>13. PR \subseteq PR'
    BY <2>12 DEF PR
  <2>14. PR' \subseteq PR \cup Pairs(TB')
    <3>1. <<Owner(x), x.addr>> \in Pairs(TableOf(db'))
      BY <1>0, <2>2, <2>3, <2>6, PairsOfLeases
    <3>2. TB' = TableOf(db')
      BY DEF TB, TableOf
    <3> QED BY <2>12, <3>1, <3>2 DEF PR
  <2>15. SV' = SV
    BY <1>1 DEF SV, TableOf
  <2> QED BY <1>1, <2>1, <2>3, <2>8, <2>9, <2>11, <2>13, <2>14, <2>15, ToGrant
<1> QED BY <1>2, <1>3, <1>4 DEF OptionAnswered

(* A declined address goes to the dummy client; its client had given it up. *)
LEMMA DeclineIsStep ==
  ASSUME RInv, RInv', DeclineAddr, Asking' = Asking
  PROVE  TStep
<1>0. /\ TypeOK /\ Unique(db) /\ Unique(db') /\ DBType(db) /\ OfClients /\ HandlerInv
      /\ \A b \in DOMAIN held : b.duid \in Clients /\ b.iaid \in IAIDs
  BY RFacts DEF RInv, GoodInv, Good
<1>1. /\ Handling({"RELEASE", "DECLINE"}) /\ Handling({"DECLINE"}) /\ Head(msg.ias).addrs # <<>>
      /\ pc = "options" /\ pc' = pc /\ held' = held /\ disk' = disk
  BY DEF DeclineAddr, Handling
<1>2. \A b \in DOMAIN held : b # NextAddr /\ b # Quarantine(NextAddr)
  BY <1>0, <1>1, NextGivenUp, NamesAssumption DEF Quarantine, Binding
<1> DEFINE x == NextAddr
           q == Quarantine(NextAddr)
           a0 == NextAddr.addr
<1>3. /\ q.addr = a0 /\ q.duid = DeclinedDUID /\ q.iaid = DeclinedIAID
      /\ x.duid = msg.duid /\ x.iaid = Head(msg.ias).iaid /\ x.addr = a0
  BY DEF Quarantine, NextAddr, Binding
<1>4. msg.duid \in Clients /\ Head(msg.ias).iaid \in IAIDs
  BY <1>0, <1>1, HeadIA DEF Handling, Messages
<1>5. CASE NextAddr \notin DOMAIN db
  <2>1. db' = db
    BY <1>5, DeclineEffects
  <2> QED BY <1>1, <2>1, QuietIsPromise
<1>6. CASE NextAddr \in DOMAIN db
  <2>1. /\ x \in DOMAIN db /\ DOMAIN db' = (DOMAIN db \ {x}) \cup {q}
        /\ \A b \in DOMAIN db' : b # q => db'[b] = db[b]
    BY <1>6, DeclineEffects
  <2>2. \A b \in DOMAIN held : b # x /\ b # q
    BY <1>2
  <2> HIDE DEF x, q, a0
  <2>3. a0 \in Addrs
    BY <1>0, <1>3, <2>1 DEF DBType, Bindings
  <2>4. Kept' = Kept
    BY <1>1, <2>1, <2>2 DEF Kept, KeptBy, Store
  <2>5. PR' = PR
    BY <2>4 DEF PR
  <2>6. TB = TableOf(db) /\ TB' = TableOf(db')
    BY DEF TB, TableOf
  <2>7. TB[a0] = Owner(x) /\ TB'[a0] = Owner(q)
    BY <1>0, <1>3, <2>1, <2>3, <2>6, OwnerFacts
  <2>8. Owner(x) \in Clients \X IAIDs /\ Owner(q) = <<DeclinedDUID, DeclinedIAID>> /\ Owner(x) # Owner(q)
    BY <1>3, <1>4, NamesAssumption DEF Owner
  <2>9. ASSUME NEW y \in Addrs, y # a0 PROVE TB'[y] = TB[y]
    <3>1. CASE \E b \in DOMAIN db : b.addr = y
      <4>1. PICK b \in DOMAIN db : b.addr = y
        BY <3>1
      <4>2. b \in DOMAIN db'
        BY <1>3, <2>1, <2>9, <4>1
      <4> QED BY <1>0, <2>6, <4>1, <4>2, OwnerFacts
    <3>2. CASE \A b \in DOMAIN db : b.addr # y
      <4>1. \A b \in DOMAIN db' : b.addr # y
        BY <1>3, <2>1, <2>9, <3>2
      <4> QED BY <1>0, <2>6, <3>2, <4>1, OwnerFacts
    <3> QED BY <3>1, <3>2
  <2>10. TBChanged = {a0}
    BY <2>3, <2>7, <2>8, <2>9 DEF TBChanged
  <2>11. <<TB[a0], a0>> \notin PR
    <3>1. \A b \in Kept : b.addr # a0
      BY <1>0, <1>1, <1>3, <2>1, <2>2 DEF Kept, KeptBy, Store, Unique
    <3> QED BY <3>1 DEF PR
  <2>12. SV' = SV
    BY <1>1 DEF SV, TableOf
  <2> QED BY <1>1, <2>3, <2>5, <2>7, <2>8, <2>10, <2>11, <2>12, ToQuarantine
<1> QED BY <1>5, <1>6

(* What a handler or expiry removes is relied on by nobody. *)
LEMMA ReleaseIsStep ==
  ASSUME RInv, RInv', ReleaseAddr, Asking' = Asking
  PROVE  TStep
<1>0. TypeOK /\ HandlerInv
  BY RFacts
<1>1. /\ Handling({"RELEASE", "DECLINE"}) /\ Head(msg.ias).addrs # <<>> /\ DelClntAddr(NextAddr)
      /\ pc = "options" /\ pc' = pc /\ held' = held /\ disk' = disk
  BY DEF ReleaseAddr, Handling
<1>2. NextAddr \notin Kept
  BY <1>0, <1>1, NextGivenUp DEF Kept
<1> QED BY <1>1, <1>2, RemovalIsTakeBack

LEMMA UndoIsStep ==
  ASSUME RInv, RInv', UndoAddr
  PROVE  TStep
<1>0. TypeOK /\ Phases
  BY RFacts
<1> DEFINE x == Binding(msg.duid, Head(ans).iaid, Head(ans).addr)
<1>1. /\ pc = "undo" /\ ans # <<>> /\ ans' = Tail(ans) /\ msg' = msg
      /\ UNCHANGED db \/ DelClntAddr(x)
      /\ pc' = pc /\ held' = held /\ disk' = disk
  BY DEF UndoAddr
<1>2. /\ 1 \in DOMAIN ans /\ Head(ans) = ans[1] /\ msg.type = "SOLICIT"
      /\ \A k \in DOMAIN ans' : k + 1 \in DOMAIN ans /\ ans'[k] = ans[k + 1]
  BY <1>0, <1>1, TailOfAnswers DEF Phases
<1>3. Owner(x) \in Asking
  BY <1>2 DEF Owner, Binding, Asking
<1>4. Asking' \subseteq Asking
  BY <1>1, <1>2 DEF Asking
<1> HIDE DEF x
<1>5. CASE UNCHANGED db
  <2>1. TB' = TB /\ SV' = SV /\ Kept' = Kept
    BY <1>1, <1>5 DEF TB, SV, TableOf, Kept, KeptBy, Store
  <2>2. PR' = PR
    BY <2>1 DEF PR
  <2> QED BY <1>1, <1>4, <2>1, <2>2, ToAnswered
<1> QED BY <1>1, <1>3, <1>4, <1>5, RemovalIsTakeBack

LEMMA ExpiryIsStep ==
  ASSUME RInv, RInv', RemoveExpired, Asking' = Asking
  PROVE  TStep
<1>0. TypeOK
  BY RFacts
<1>1. /\ pc # "down" /\ pc' # "down" /\ held' = held /\ disk' = disk
      /\ \E x \in Expired : DelClntAddr(x)
  BY DEF RemoveExpired
<1>2. PICK x \in Expired : DelClntAddr(x)
  BY <1>1
<1>3. x \notin Kept
  BY <1>0, <1>1, HeldTimes DEF Kept, KeptBy, Store, Expired
<1> QED BY <1>1, <1>2, <1>3, RemovalIsTakeBack

LEMMA ReplyIsStep ==
  ASSUME RInv, RInv', SendReply, Asking' = Asking
  PROVE  TStep
<1>0. TypeOK /\ HandlerInv /\ FlowInv /\ Proper(db) /\ msg \in Messages
  BY RFacts DEF RInv, PromiseInv, OwnInv, SendReply, FlowInv
<1>1. /\ pc = "options" /\ pc' = "dump" /\ UNCHANGED <<db, disk>>
      /\ held' = [b \in DOMAIN held \cup Told |-> IF b \in Told THEN Valid ELSE held[b]]
  BY DEF SendReply, Holding
<1>2. ASSUME NEW b \in Kept PROVE b \in Kept'
  <2>1. b \in DOMAIN held /\ b \in DOMAIN db /\ held[b] <= db[b]
    BY <1>1 DEF Kept, KeptBy, Store
  <2>2. CASE b \in Told
    <3>1. b.duid \in Clients /\ b.addr \in Addrs
      BY <1>0, <2>2, ToldFacts DEF Bindings
    <3>2. b.addr # FixedAddr[b.duid]
      BY <1>0, <2>1, <3>1, NamesAssumption DEF Proper
    <3>3. db[b] = Valid
      BY <1>0, <2>2, <3>2, ReplyVouched
    <3> QED BY <1>1, <2>1, <2>2, <3>3, BoundsAssumption DEF Kept, KeptBy, Store
  <2>3. CASE b \notin Told
    BY <1>1, <2>1, <2>3 DEF Kept, KeptBy, Store
  <2> QED BY <2>2, <2>3
<1> QED BY <1>1, <1>2, TellIsPromise

(* What is promised may lapse: clients drop it, give it up, or its time ends.  *)
LEMMA DropIsStep ==
  ASSUME RInv, RInv', pc # "down", pc' # "down", UNCHANGED <<db, disk>>,
         DOMAIN held' \subseteq DOMAIN held, \A b \in DOMAIN held' : held'[b] = held[b],
         Asking' = Asking
  PROVE  TStep
<1>1. Kept' \subseteq Kept
  BY DEF Kept, KeptBy, Store
<1>2. PR' \subseteq PR
  BY <1>1 DEF PR
<1> QED BY <1>2, ToLapse DEF TB, SV, TableOf

LEMMA TickIsStep ==
  ASSUME RInv, RInv', Tick, Asking' = Asking
  PROVE  TStep
<1>0. /\ TypeOK /\ Unique(db) /\ Unique(disk.db) /\ DBType(db) /\ DBType(disk.db)
  BY RFacts
<1>1. /\ pc' = pc /\ db' = Aged(db) /\ disk' = [disk EXCEPT !.db = Aged(disk.db)]
      /\ held' = [b \in StillHeld |-> held[b] - 1]
  BY DEF Tick
<1>2. disk'.db = Aged(disk.db)
  BY <1>0, <1>1 DEF TypeOK
<1>3. Store' = Aged(Store) /\ DBType(Store)
  BY <1>0, <1>1, <1>2 DEF Store
<1>4. ASSUME NEW b \in Kept' PROVE b \in Kept
  <2>1. b \in DOMAIN held' /\ b \in DOMAIN Aged(Store) /\ held'[b] <= Aged(Store)[b]
    BY <1>3 DEF Kept, KeptBy
  <2>2. b \in DOMAIN held /\ held[b] > 1 /\ held'[b] = held[b] - 1 /\ held[b] \in Nat
    BY <1>0, <1>1, <2>1, HeldTimes DEF StillHeld
  <2>3. b \in DOMAIN Store /\ Aged(Store)[b] = IF Store[b] = 0 THEN 0 ELSE Store[b] - 1
    BY <2>1 DEF Aged
  <2>4. Store[b] \in Nat
    BY <1>3, <2>3, LeaseTimes
  <2>5. held[b] <= Store[b]
    BY <2>1, <2>2, <2>3, <2>4
  <2> QED BY <2>2, <2>3, <2>5 DEF Kept, KeptBy
<1>5. PR' \subseteq PR
  BY <1>4 DEF PR
<1>6. TB' = TB
  BY <1>0, <1>1, SameTable DEF TB, Aged
<1>7. SV' = SV
  BY <1>0, <1>2, SameTable DEF SV, Aged
<1> QED BY <1>1, <1>5, <1>6, <1>7, ToLapse

LEMMA SaveIsStep ==
  ASSUME RInv, RInv', Dump \/ SaveExpired
  PROVE  TStep
<1>1. pc # "down" /\ pc' # "down" /\ disk'.db = db /\ UNCHANGED <<db, held>>
  BY DEF Dump, SaveExpired, srvVars
<1>a. Asking' = {}
  <2>1. msg' = NoMsg
    BY RFacts DEF Dump, SaveExpired, srvVars, Phases
  <2> QED BY <2>1 DEF NoMsg, Asking
<1>2. Kept' = Kept
  BY <1>1 DEF Kept, KeptBy, Store
<1>3. TB' = TB /\ SV' = TB /\ PR' = PR
  BY <1>1, <1>2 DEF TB, SV, PR, TableOf
<1> QED BY <1>1, <1>3, <1>a, ToSave

(* A planned stop and a restart keep what is promised.                       *)
LEMMA StopIsStep ==
  ASSUME RInv, RInv', Shutdown, Asking' = Asking
  PROVE  TStep
<1>1. pc # "down" /\ pc' = "down" /\ disk'.db = db /\ db' = NoDB /\ held' = held
  BY DEF Shutdown
<1>2. Kept' = Kept
  BY <1>1 DEF Kept, KeptBy, Store
<1>3. SV' = TB /\ PR' = PR
  BY <1>1, <1>2 DEF TB, SV, PR, TableOf
<1> QED BY <1>1, <1>3, ToStop

LEMMA StartIsStep ==
  ASSUME RInv, RInv', Restart, Asking' = Asking
  PROVE  TStep
<1>1. pc = "down" /\ pc' # "down" /\ db' = disk.db /\ disk' = disk /\ held' = held
  BY DEF Restart
<1>2. Kept' = Kept
  BY <1>1 DEF Kept, KeptBy, Store
<1>3. TB' = SV /\ SV' = SV /\ PR' = PR
  BY <1>1, <1>2 DEF TB, SV, PR, TableOf
<1> QED BY <1>1, <1>3, ToStart

(* A crash keeps of the promises what the file has, and a file that was being   *)
(* written is a part of the table.                                           *)
LEMMA CrashIsStep ==
  ASSUME RInv, RInv', Crash
  PROVE  TStep
<1>0. /\ TypeOK /\ Unique(db) /\ DBType(db)
      /\ Unique(disk'.db) /\ DBType(disk'.db)
      /\ \A b \in DOMAIN held : b.duid \in Clients /\ b.iaid \in IAIDs
  BY RFacts DEF RInv, GoodInv, Good, TypeOK, DBType
<1>1. pc # "down" /\ pc' = "down" /\ db' = NoDB /\ held' = held /\ msg' = NoMsg
  BY DEF Crash
<1>3. ASSUME NEW b \in Kept'
      PROVE  <<Owner(b), b.addr>> \in Pairs(SV')
  <2>1. b \in DOMAIN held /\ b \in DOMAIN disk'.db
    BY <1>1 DEF Kept, KeptBy, Store
  <2>2. b.duid \in Clients /\ b.iaid \in IAIDs
    BY <1>0, <2>1
  <2>3. SV' = TableOf(disk'.db)
    BY DEF SV, TableOf
  <2> QED BY <1>0, <2>1, <2>2, <2>3, PairsOfLeases
<1>4. PR' \subseteq Pairs(SV')
  BY <1>3 DEF PR
<1>5. SV' = SV \/ \E kept \in SUBSET Addrs : SV' = [a \in Addrs |-> IF a \in kept THEN TB[a] ELSE <<>>]
  <2>1. CASE disk' = disk
    BY <2>1 DEF SV, TableOf
  <2>2. CASE disk' \in Torn
    <3> DEFINE kept == {a \in Addrs : \E b \in DOMAIN disk'.db : b.addr = a}
    <3>1. DOMAIN disk'.db \subseteq DOMAIN db
      BY <1>0, <2>2, TornFile
    <3>2. \A a \in Addrs : TableOf(disk'.db)[a] = IF a \in kept THEN TableOf(db)[a] ELSE <<>>
      <4> TAKE a \in Addrs
      <4>1. CASE \E b \in DOMAIN disk'.db : b.addr = a
        BY <1>0, <3>1, <4>1, OwnerFacts
      <4>2. CASE \A b \in DOMAIN disk'.db : b.addr # a
        BY <1>0, <4>2, OwnerFacts
      <4> QED BY <4>1, <4>2
    <3>3. SV' = [a \in Addrs |-> IF a \in kept THEN TB[a] ELSE <<>>]
      BY <3>2 DEF SV, TB, TableOf
    <3> QED BY <3>3
  <2> QED BY <1>0, <2>1, <2>2, CrashFile
<1>6. Asking' = {}
  BY <1>1 DEF NoMsg, Asking
<1> QED BY <1>1, <1>4, <1>5, <1>6, ToCrashStop

(* A message that arrives asks for addresses, or gives some up.               *)
LEMMA ReceiveIsStep ==
  ASSUME RInv, RInv', NEW t \in MsgTypes, NEW c \in Clients, NEW ias \in MsgIAs, Receive(t, c, ias)
  PROVE  TStep
<1>0. Phases /\ ias \in Seq(IAOptions)
  BY RFacts, BoundsAssumption
<1>1. /\ pc = "select" /\ pc' # "down" /\ UNCHANGED <<db, disk, ans>>
      /\ DOMAIN held' \subseteq DOMAIN held /\ \A b \in DOMAIN held' : held'[b] = held[b]
  BY DEF Receive, Restrict
<1>2. msg = NoMsg /\ ans = <<>> /\ Asking = {}
  BY <1>0, <1>1, NobodyAsking DEF Phases
<1>3. CASE t = "SOLICIT"
  <2>1. held' = held /\ msg' = [type |-> t, duid |-> c, ias |-> ias]
    BY <1>3 DEF Receive
  <2>2. \A k \in DOMAIN ias : ias[k].iaid \in IAIDs
    <3>1. \A k \in DOMAIN ias : ias[k] \in IAOptions
      BY <1>0, ElementOfSeq, LenProperties
    <3> QED BY <3>1 DEF IAOptions
  <2>3. Asking' \subseteq Clients \X IAIDs
    BY <1>1, <1>2, <2>1, <2>2 DEF Asking
  <2>4. TB' = TB /\ SV' = SV /\ Kept' = Kept
    BY <1>1, <2>1 DEF TB, SV, TableOf, Kept, KeptBy, Store
  <2>5. PR' = PR
    BY <2>4 DEF PR
  <2> QED BY <1>1, <1>2, <2>3, <2>4, <2>5, ToAsk
<1>4. CASE t # "SOLICIT"
  <2>1. msg'.type # "SOLICIT"
    BY <1>4 DEF Receive, NoMsg
  <2>2. Asking' = Asking
    BY <1>2, <2>1 DEF Asking
  <2> QED BY <1>1, <2>2, DropIsStep
<1> QED BY <1>3, <1>4

LEMMA NextIsStep ==
  ASSUME RInv, RInv', [Next]_vars
  PROVE  TStep
<1>0. TypeOK
  BY RFacts
<1>1. CASE HandleOption
  <2>0. Asking' = Asking
    BY <1>0, <1>1, AskingKept
  <2>1. CASE \E a \in Addrs \cup {NoAddr} : OptionAnswered(a)
    BY <2>0, <2>1, AnswerIsStep
  <2>2. CASE DrawForever \/ RebindDiscarded \/ SkipEmptyIA
    <3>1. pc # "down" /\ pc' # "down" /\ UNCHANGED <<db, disk, held>>
      BY <1>0, <1>1, <2>2, OptionKeepsPlace DEF DrawForever, RebindDiscarded, SkipEmptyIA
    <3> QED BY <2>0, <3>1, QuietIsPromise
  <2> QED BY <1>0, <1>1, <2>0, <2>1, <2>2, OptionOutcomes, ReleaseIsStep, DeclineIsStep
<1>2. CASE StartUndo \/ SendAdvertise \/ Wake \/ NothingExpired
  <2>1. pc # "down" /\ pc' # "down" /\ UNCHANGED <<db, disk, held>>
    BY <1>2 DEF StartUndo, SendAdvertise, Wake, NothingExpired, srvVars
  <2>2. Asking' = Asking
    BY <1>0, <1>2, AskingKept
  <2> QED BY <2>1, <2>2, QuietIsPromise
<1>3. CASE \E b \in DOMAIN held : Forget(b)
  <2>1. pc # "down" /\ pc' # "down" /\ UNCHANGED <<db, disk>>
    BY <1>3 DEF Forget, srvVars
  <2>2. DOMAIN held' \subseteq DOMAIN held /\ \A b \in DOMAIN held' : held'[b] = held[b]
    BY <1>3 DEF Forget, Restrict
  <2>3. Asking' = Asking
    BY <1>0, <1>3, AskingKept
  <2> QED BY <2>1, <2>2, <2>3, DropIsStep
<1>4. CASE Spin \/ UNCHANGED vars
  <2>1. UNCHANGED <<pc, db, disk, held>>
    BY <1>4 DEF Spin, vars
  <2>2. Kept' = Kept
    BY <2>1 DEF Kept, KeptBy, Store
  <2>3. TB' = TB /\ SV' = SV /\ PR' \subseteq PR
    BY <2>1, <2>2 DEF TB, SV, PR, TableOf
  <2>4. Asking' = Asking
    BY <1>0, <1>4, AskingKept
  <2> QED BY <2>1, <2>3, <2>4, ToLapse
<1>5. CASE SendReply \/ RemoveExpired \/ Tick \/ Shutdown \/ Restart
  <2>1. Asking' = Asking
    BY <1>0, <1>5, AskingKept
  <2> QED BY <1>5, <2>1, ReplyIsStep, ExpiryIsStep, TickIsStep, StopIsStep, StartIsStep
<1> QED BY <1>1, <1>2, <1>3, <1>4, <1>5, ReceiveIsStep, UndoIsStep, SaveIsStep, CrashIsStep
    DEF Next, Server, Environment

LEMMA InitIsInit == Init => Table!TableInit
<1> SUFFICES ASSUME Init PROVE Table!TableInit
  OBVIOUS
<1>1. pc # "down" /\ db = NoDB /\ disk.db = NoDB /\ DOMAIN held = {} /\ Asking = {}
  BY NobodyAsking DEF Init, NoDB
<1>2. Promised = {}
  BY <1>1 DEF Promised
<1>3. TB = [a \in Addrs |-> <<>>] /\ SV = [a \in Addrs |-> <<>>]
  BY <1>1, EmptyTable DEF TB, SV
<1> QED BY <1>1, <1>2, <1>3 DEF Table!TableInit, Table!AllFree, TB, SV, TableOf

(* The server is a table of leases: whatever the assignment policy, the         *)
(* undoing of an ADVERTISE, declines, expiry, crashes (also those that leave a  *)
(* file half written) and restarts do, an address changes hands only by being  *)
(* free in between, an IA has one address, and what a client was promised and   *)
(* the table knows is taken back by a crash only, or by the undoing of an       *)
(* ADVERTISE to that very IA.                                                *)
THEOREM ServerImplementsTable == Spec => ImplementsTable
<1>1. RInv /\ [Next]_vars => RInv'
  BY RStep
<1>2. RInv /\ RInv' /\ [Next]_vars => [Table!TableNext]_(Table!tableVars)
  BY NextIsStep DEF TStep
<1> QED BY <1>1, <1>2, RInit, InitIsInit, PTL DEF Spec, ImplementsTable, Table!TableSpec

-----------------------------------------------------------------------------
(* What is left to do before select() waits again: the phases, the IAs of the    *)
(* message (the addresses of an ADVERTISE, the leases that have run out) and    *)
(* the addresses of its first IA, the former before the latter.               *)
PhasesLeft ==
  CASE pc = "options" -> 4 [] pc = "undo" -> 3 [] pc = "dump" -> 2
    [] pc \in {"duties", "expire"} -> 1 [] OTHER -> 0
ItemsLeft ==
  CASE pc = "options" -> Len(msg.ias) [] pc = "undo" -> Len(ans)
    [] pc \in {"duties", "expire"} -> Cardinality(Expired) [] OTHER -> 0
AddrsLeft == IF pc = "options" /\ msg.ias # <<>> THEN Len(Head(msg.ias).addrs) ELSE 0
WorkLeft == <<PhasesLeft, <<ItemsLeft, AddrsLeft>>>>

LessNat == {p \in Nat \X Nat : p[1] < p[2]}
WorkOrder == LexPairOrdering(LessNat, LexPairOrdering(LessNat, LessNat, Nat, Nat), Nat, Nat \X Nat)

LEMMA WorkOrderEnds == IsWellFoundedOn(WorkOrder, Nat \X (Nat \X Nat))
<1>1. IsWellFoundedOn(LessNat, Nat)
  <2>1. ASSUME NEW T \in SUBSET Nat, T # {}
        PROVE  \E x \in T : \A y \in T : ~ (<<y, x>> \in LessNat)
    <3>1. Min(T) \in T /\ \A y \in T : Min(T) <= y /\ Min(T) \in Nat /\ y \in Nat
      BY <2>1, MinInSet
    <3>2. \A y \in T : ~ (<<y, Min(T)>> \in LessNat)
      BY <3>1 DEF LessNat
    <3> QED BY <3>1, <3>2
  <2> QED BY <2>1, MinWF
<1>2. IsWellFoundedOn(LexPairOrdering(LessNat, LessNat, Nat, Nat), Nat \X Nat)
  BY <1>1, WFLexPairOrdering
<1> QED BY <1>1, <1>2, WFLexPairOrdering DEF WorkOrder

LEMMA ComesBefore ==
  ASSUME NEW i \in Nat, NEW j \in Nat, NEW k \in Nat, NEW x \in Nat, NEW y \in Nat, NEW z \in Nat,
         i < x \/ (i = x /\ (j < y \/ (j = y /\ k < z)))
  PROVE  <<<<i, <<j, k>>>>, <<x, <<y, z>>>>>> \in WorkOrder
  BY DEF WorkOrder, LexPairOrdering, LessNat

WorkType == PhasesLeft \in Nat /\ ItemsLeft \in Nat /\ AddrsLeft \in Nat

LEMMA WorkLeftType ==
  ASSUME TypeOK
  PROVE  WorkType
<1>1. msg.ias \in Seq(IAOptions) /\ Len(msg.ias) \in Nat
  BY TypeFacts, LenProperties
<1>2. Len(ans) \in Nat
  BY LenProperties DEF TypeOK
<1>3. IsFiniteSet(Expired) /\ Cardinality(Expired) \in Nat
  <2>1. Expired \subseteq Bindings
    BY DEF Expired, TypeOK
  <2>2. IsFiniteSet(Expired)
    BY <2>1, BindingsFinite, FS_Subset
  <2> QED BY <2>2, FS_CardinalityType
<1>4. AddrsLeft \in Nat
  <2>1. CASE msg.ias = <<>>
    BY <2>1 DEF AddrsLeft
  <2>2. CASE msg.ias # <<>>
    BY <2>2, HeadIA, LenProperties DEF AddrsLeft
  <2> QED BY <2>1, <2>2
<1>5. PhasesLeft \in Nat
  BY DEF PhasesLeft
<1>6. ItemsLeft \in Nat
  BY <1>1, <1>2, <1>3 DEF ItemsLeft
<1> QED BY <1>4, <1>5, <1>6 DEF WorkType

(* An IA of a RELEASE or DECLINE loses an address, or leaves the message.      *)
LEMMA RestIsLess ==
  ASSUME TypeOK, msg.ias # <<>>, Head(msg.ias).addrs # <<>>
  PROVE  \/ Len(RestOfAddrs) < Len(msg.ias)
         \/ /\ Len(RestOfAddrs) = Len(msg.ias) /\ RestOfAddrs # <<>>
            /\ Len(Head(RestOfAddrs).addrs) < Len(Head(msg.ias).addrs)
<1> DEFINE s == Head(msg.ias).addrs
           one == [Head(msg.ias) EXCEPT !.addrs = Tail(s)]
           rest == Tail(msg.ias)
<1>1. /\ Len(msg.ias) \in Nat \ {0} /\ rest \in Seq(IAOptions) /\ Len(rest) = Len(msg.ias) - 1
  BY TailOfOptions, HeadIA
<1>2. s \in Seq(Addrs) /\ Tail(s) \in Seq(Addrs) /\ Len(Tail(s)) = Len(s) - 1 /\ Len(s) \in Nat
  BY HeadIA, HeadTailProperties, LenProperties
<1>3. one \in IAOptions /\ one.addrs = Tail(s)
  BY <1>2, HeadIA DEF IAOptions
<1> HIDE DEF one, rest
<1>4. CASE Len(s) > 1
  <2>1. RestOfAddrs = <<one>> \o rest
    BY <1>4 DEF RestOfAddrs, one, rest
  <2>2. <<one>> \in Seq(IAOptions) /\ Len(<<one>>) = 1 /\ <<one>>[1] = one
    BY <1>3
  <2>3. /\ RestOfAddrs \in Seq(IAOptions) /\ Len(RestOfAddrs) = Len(msg.ias)
        /\ RestOfAddrs[1] = one
    BY <1>1, <2>1, <2>2, ConcatProperties
  <2>4. RestOfAddrs # <<>> /\ Head(RestOfAddrs) = one
    BY <1>1, <2>3
  <2>5. Len(Head(RestOfAddrs).addrs) = Len(s) - 1
    BY <1>2, <1>3, <2>4
  <2>6. \A n \in Nat : n - 1 < n
    OBVIOUS
  <2>7. Len(Head(RestOfAddrs).addrs) < Len(s)
    BY <1>2, <2>5, <2>6, Zenon
  <2> HIDE DEF s
  <2> QED BY <2>3, <2>4, <2>7 DEF s
<1>5. CASE ~(Len(s) > 1)
  BY <1>1, <1>5 DEF RestOfAddrs, rest
<1> QED BY <1>4, <1>5

Shrinks ==
  pc \in {"options", "undo", "dump", "duties", "expire"} /\ pc' \notin {"hung", "down"}
    => <<WorkLeft', WorkLeft>> \in WorkOrder
HandlersWearOff == [][Shrinks]_vars

LEMMA OptionShrinks ==
  ASSUME TypeOK, HandleOption, pc' # "hung"
  PROVE  \/ PhasesLeft' < PhasesLeft
         \/ /\ PhasesLeft' = PhasesLeft
            /\ \/ ItemsLeft' < ItemsLeft
               \/ ItemsLeft' = ItemsLeft /\ AddrsLeft' < AddrsLeft
<1>1. pc = "options" /\ pc' \in {"options", "dump"}
  BY OptionKeepsPlace
<1>2. CASE pc' = "dump"
  BY <1>1, <1>2 DEF PhasesLeft
<1>3. CASE pc' = "options"
  <2>1. PhasesLeft' = PhasesLeft /\ ItemsLeft = Len(msg.ias) /\ ItemsLeft' = Len(msg'.ias)
    BY <1>1, <1>3 DEF PhasesLeft, ItemsLeft
  <2>2. CASE \E a \in Addrs \cup {NoAddr} : OptionAnswered(a)
    <3>1. Len(msg'.ias) = Len(msg.ias) - 1 /\ Len(msg.ias) \in Nat
      BY <2>2, AnswerShape
    <3> QED BY <2>1, <3>1
  <2>3. CASE SkipEmptyIA
    <3>1. msg.ias # <<>> /\ msg' = [msg EXCEPT !.ias = Tail(msg.ias)]
      BY <2>3 DEF SkipEmptyIA, Handling
    <3>2. msg'.ias = Tail(msg.ias)
      BY <3>1, HeadIA DEF Messages
    <3>3. Len(msg'.ias) = Len(msg.ias) - 1 /\ Len(msg.ias) \in Nat
      BY <3>1, <3>2, TailOfOptions
    <3> QED BY <2>1, <3>3
  <2>4. CASE ReleaseAddr \/ DeclineAddr
    <3>1. /\ msg.ias # <<>> /\ Head(msg.ias).addrs # <<>>
          /\ msg' = [msg EXCEPT !.ias = RestOfAddrs]
      BY <2>4 DEF ReleaseAddr, DeclineAddr, Handling
    <3>2. msg'.ias = RestOfAddrs
      BY <3>1, HeadIA DEF Messages
    <3>3. AddrsLeft = Len(Head(msg.ias).addrs)
          /\ (RestOfAddrs # <<>> => AddrsLeft' = Len(Head(RestOfAddrs).addrs))
      BY <1>1, <1>3, <3>1, <3>2 DEF AddrsLeft
    <3> QED BY <2>1, <3>1, <3>2, <3>3, RestIsLess
  <2>5. CASE DrawForever \/ RebindDiscarded
    BY <1>3, <2>5 DEF DrawForever, RebindDiscarded
  <2> QED BY <2>2, <2>3, <2>4, <2>5, OptionOutcomes
<1> QED BY <1>1, <1>2, <1>3

LEMMA ExpiryShrinks ==
  ASSUME TypeOK, RemoveExpired
  PROVE  PhasesLeft' = PhasesLeft /\ ItemsLeft' < ItemsLeft
<1>1. PICK b \in Expired : DelClntAddr(b)
  BY DEF RemoveExpired
<1>2. pc \in {"duties", "expire"} /\ pc' = "expire"
  BY DEF RemoveExpired
<1>3. b \in DOMAIN db /\ db' = WithoutLease(db, b)
  BY <1>1 DEF DelClntAddr, Expired
<1>4. Expired' = Expired \ {b}
  BY <1>3 DEF Expired, WithoutLease, Restrict
<1>5. IsFiniteSet(Expired)
  <2>1. Expired \subseteq Bindings
    BY DEF Expired, TypeOK
  <2> QED BY <2>1, BindingsFinite, FS_Subset
<1>6. Cardinality(Expired') = Cardinality(Expired) - 1 /\ Cardinality(Expired) \in Nat
  BY <1>4, <1>5, FS_RemoveElement, FS_CardinalityType
<1> QED BY <1>2, <1>6 DEF PhasesLeft, ItemsLeft

(* However many IAs and addresses a message has and however many leases have run *)
(* out, every step of the thread on its way back to select() leaves less to do  *)
(* than there was: HandlerEnds and ExpiredLeaseGoes need no more than a thread  *)
(* that goes on, if it does not draw addresses for ever (NeverHung).           *)
THEOREM HandlersEnd ==
  IsWellFoundedOn(WorkOrder, Nat \X (Nat \X Nat)) /\ (Spec => HandlersWearOff)
<1>0. TypeOK => WorkType
  BY WorkLeftType
<1>1. ASSUME TypeOK, WorkType, WorkType', Next PROVE Shrinks
  <2>1. /\ PhasesLeft \in Nat /\ ItemsLeft \in Nat /\ AddrsLeft \in Nat
        /\ PhasesLeft' \in Nat /\ ItemsLeft' \in Nat /\ AddrsLeft' \in Nat
    BY <1>1 DEF WorkType
  <2> SUFFICES ASSUME pc \in {"options", "undo", "dump", "duties", "expire"}, pc' \notin {"hung", "down"}
               PROVE  \/ PhasesLeft' < PhasesLeft
                      \/ /\ PhasesLeft' = PhasesLeft
                         /\ \/ ItemsLeft' < ItemsLeft
                            \/ ItemsLeft' = ItemsLeft /\ AddrsLeft' < AddrsLeft
    BY <2>1, ComesBefore DEF Shrinks, WorkLeft
  <2>2. CASE HandleOption
    BY <1>1, <2>2, OptionShrinks
  <2>3. CASE SendReply \/ StartUndo \/ SendAdvertise \/ Dump \/ SaveExpired \/ NothingExpired
    BY <2>3 DEF SendReply, StartUndo, SendAdvertise, Dump, SaveExpired, NothingExpired, PhasesLeft
  <2>4. CASE UndoAddr
    <3>1. pc = "undo" /\ pc' = "undo" /\ ans # <<>> /\ ans' = Tail(ans)
      BY <2>4 DEF UndoAddr
    <3>2. Len(ans') = Len(ans) - 1 /\ Len(ans) \in Nat
      BY <1>1, <3>1, HeadTailProperties, LenProperties DEF TypeOK
    <3>3. /\ PhasesLeft' = PhasesLeft /\ ItemsLeft = Len(ans) /\ ItemsLeft' = Len(ans')
      BY <3>1 DEF PhasesLeft, ItemsLeft
    <3> QED BY <3>2, <3>3
  <2>5. CASE RemoveExpired
    BY <1>1, <2>5, ExpiryShrinks
  <2>6. CASE Wake \/ Spin \/ Environment
    BY <2>6 DEF Wake, Spin, vars, Environment, Receive, Tick, Forget, Shutdown, Crash, Restart
  <2> QED BY <1>1, <2>2, <2>3, <2>4, <2>5, <2>6 DEF Next, Server
<1>2. TypeOK /\ WorkType /\ WorkType' /\ [Next]_vars => [Shrinks]_vars
  BY <1>1
<1>3. Spec => HandlersWearOff
  BY TypeCorrect, <1>0, <1>2, PTL DEF Spec, HandlersWearOff
<1> QED BY <1>3, WorkOrderEnds

-----------------------------------------------------------------------------
(* What it is all for: as long as the server does not crash, no two clients, of  *)
(* those that do not solicit for what they hold, and                          *)
(* no two IAs of a client, rely on one address at the same time, whatever they   *)
(* solicited, renewed, declined and released and however often the server was   *)
(* restarted as planned; reserved addresses, which the server answers without   *)
(* a lease, aside.                                                           *)
THEOREM NobodySharesALease ==
  Spec => [](crashes = 0 =>
    \A b1, b2 \in DOMAIN held :
      /\ b1.addr # FixedAddr[b1.duid] /\ b2.addr # FixedAddr[b2.duid]
      /\ b1.duid \notin StaleClients /\ b2.duid \notin StaleClients
      /\ b1.addr = b2.addr
      => b1 = b2)
<1> DEFINE Alone == \A b1, b2 \in DOMAIN held :
                      /\ b1.addr # FixedAddr[b1.duid] /\ b2.addr # FixedAddr[b2.duid]
                      /\ b1.duid \notin StaleClients /\ b2.duid \notin StaleClients
                      /\ b1.addr = b2.addr
                      => b1 = b2
<1>1. UniqueBinding /\ HeldLeaseIsBound => (crashes = 0 => Alone)
  <2> SUFFICES ASSUME UniqueBinding, HeldLeaseIsBound, crashes = 0,
                      NEW b1 \in DOMAIN held, NEW b2 \in DOMAIN held,
                      b1.addr # FixedAddr[b1.duid], b2.addr # FixedAddr[b2.duid],
                      b1.duid \notin StaleClients, b2.duid \notin StaleClients,
                      b1.addr = b2.addr
               PROVE  b1 = b2
    OBVIOUS
  <2>1. b1 \in DOMAIN Store /\ b2 \in DOMAIN Store
    BY DEF HeldLeaseIsBound
  <2>2. Unique(Store)
    BY DEF UniqueBinding, Store
  <2> QED BY <2>1, <2>2 DEF Unique
<1> HIDE DEF Alone
<1>2. Spec => [](crashes = 0 => Alone)
  BY <1>1, AddressesUnique, HeldLeasesStayBound, PTL
<1> QED BY <1>2 DEF Alone
=============================================================================
