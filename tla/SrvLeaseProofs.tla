--------------------------- MODULE SrvLeaseProofs ---------------------------
(***************************************************************************)
(* Proofs about SrvLease for every value of its constants.                  *)
(***************************************************************************)
EXTENDS SrvLease, SequenceTheorems, FiniteSetTheorems,
        WellFoundedInduction, TLAPS

(* The operators on the database keep its type. *)
DBType(d) == DOMAIN d \subseteq Bindings /\ d \in [DOMAIN d -> Lifetimes]

LEMMA BindingType ==
  ASSUME NEW c \in DUIDs, NEW i \in IAIDs \cup {DeclinedIAID}, NEW a \in Addrs
  PROVE  Binding(c, i, a) \in Bindings
BY DEF Binding, Bindings

LEMMA WithLeaseType ==
  ASSUME NEW d, DBType(d), NEW b \in Bindings, NEW t \in Lifetimes
  PROVE  DBType(WithLease(d, b, t)) /\ DOMAIN WithLease(d, b, t) = DOMAIN d \cup {b}
BY DEF DBType, WithLease

LEMMA WithoutLeaseType ==
  ASSUME NEW d, DBType(d), NEW b
  PROVE  DBType(WithoutLease(d, b)) /\ DOMAIN WithoutLease(d, b) = DOMAIN d \ {b}
BY DEF DBType, WithoutLease, Restrict

LEMMA ValidIsLifetime == Valid \in Lifetimes /\ DeclinedTimeout \in Lifetimes
BY BoundsAssumption DEF Lifetimes

LEMMA RefreshedType ==
  ASSUME NEW d, DBType(d), NEW bs
  PROVE  DBType(Refreshed(d, bs)) /\ DOMAIN Refreshed(d, bs) = DOMAIN d
BY ValidIsLifetime DEF DBType, Refreshed

LEMMA AgedType ==
  ASSUME NEW d, DBType(d)
  PROVE  DBType(Aged(d)) /\ DOMAIN Aged(d) = DOMAIN d
<1>1. \A n \in Lifetimes : n # 0 => n - 1 \in Lifetimes
  BY BoundsAssumption DEF Lifetimes
<1>2. 0 \in Lifetimes
  BY BoundsAssumption DEF Lifetimes
<1> QED BY <1>1, <1>2 DEF DBType, Aged

(* So do the operators on the cache and on the counters. *)
LEMMA WithoutType ==
  ASSUME NEW ch \in Seq(CacheEntries), NEW i
  PROVE  Without(ch, i) \in Seq(CacheEntries)
<1>1. CASE i \notin DOMAIN ch
  BY <1>1 DEF Without
<1>2. CASE i \in DOMAIN ch
  <2>1. Len(ch) \in Nat /\ DOMAIN ch = 1 .. Len(ch)
    BY LenProperties
  <2>2. SubSeq(ch, 1, i - 1) \in Seq(CacheEntries)
    BY <1>2, <2>1, SubSeqProperties
  <2>3. SubSeq(ch, i + 1, Len(ch)) \in Seq(CacheEntries)
    BY <1>2, <2>1, SubSeqProperties
  <2> QED BY <1>2, <2>2, <2>3, ConcatProperties DEF Without, RemoveAt
<1> QED BY <1>1, <1>2

LEMMA WithCachedType ==
  ASSUME NEW ch \in Seq(CacheEntries), NEW c \in DUIDs, NEW a \in Addrs
  PROVE  WithCached(ch, c, a) \in Seq(CacheEntries)
<1> DEFINE kept == Without(ch, EntryOf(ch, c))
           entry == [duid |-> c, addr |-> a]
           longer == Append(kept, entry)
<1>0. kept \in Seq(CacheEntries) /\ entry \in CacheEntries
  BY WithoutType DEF CacheEntries
<1>1. longer \in Seq(CacheEntries) /\ longer # <<>>
  <2> HIDE DEF kept, entry
  <2> QED BY <1>0, AppendProperties
<1>2. Tail(longer) \in Seq(CacheEntries)
  BY <1>1, HeadTailProperties
<1> QED BY <1>1, <1>2 DEF WithCached, Evicted

LEMMA CountedType ==
  ASSUME assigned \in [Pools -> Counts], NEW a
  PROVE  CountedIn(a) \in [Pools -> Counts] /\ CountedOut(a) \in [Pools -> Counts]
<1>1. \A n \in Counts : Incr(n) \in Counts /\ Decr(n) \in Counts
  BY BoundsAssumption DEF Counts, Incr, Decr
<1> QED BY <1>1 DEF CountedIn, CountedOut

(* There are finitely many bindings. *)
LEMMA BindingsFinite == IsFiniteSet(Bindings)
<1> DEFINE Parts == (DUIDs \X (IAIDs \cup {DeclinedIAID})) \X Addrs
           f == [t \in Parts |-> Binding(t[1][1], t[1][2], t[2])]
<1>1. IsFiniteSet(DUIDs) /\ IsFiniteSet(IAIDs \cup {DeclinedIAID})
  BY FiniteAssumption, FS_AddElement DEF DUIDs
<1>2. IsFiniteSet(Parts)
  BY <1>1, FiniteAssumption, FS_Product
<1>3. f \in Surjection(Parts, Bindings)
  <2>1. \A t \in Parts : f[t] \in Bindings
    BY BindingType
  <2>2. \A b \in Bindings : <<<<b.duid, b.iaid>>, b.addr>> \in Parts /\ f[<<<<b.duid, b.iaid>>, b.addr>>] = b
    BY DEF Bindings, Binding
  <2> QED BY <2>1, <2>2 DEF Surjection
<1> QED BY <1>2, <1>3, FS_Surjection

LEMMA RecountType ==
  ASSUME NEW d, DBType(d)
  PROVE  Recount(d) \in [Pools -> Counts]
<1>1. \A p \in Pools : IsFiniteSet(LeasedIn(p, d))
  BY BindingsFinite, FS_Subset DEF LeasedIn, DBType
<1>2. \A n \in Nat : n % CounterMod \in Counts
  BY BoundsAssumption DEF Counts
<1> QED BY <1>1, <1>2, FS_CardinalityType DEF Recount

-----------------------------------------------------------------------------
(* The type invariant, action by action.  A step of an assignment goes        *)
(* through Answer and, when it registers an address, through AssignAddr.      *)

Messages == [type : MsgTypes, duid : Clients, ias : Seq(IAOptions)]
Answers == Seq([iaid : IAIDs, addr : Addrs \cup {NoAddr}])

LEMMA TypeFacts ==
  ASSUME TypeOK
  PROVE  /\ DBType(db) /\ DBType(disk.db)
         /\ \A b \in DOMAIN db : b \in Bindings /\ b.duid \in DUIDs /\ b.addr \in Addrs
         /\ msg.ias \in Seq(IAOptions) /\ msg.duid \in DUIDs
<1>1. DBType(db) /\ DBType(disk.db)
  BY DEF TypeOK, DBType
<1>2. \A b \in DOMAIN db : b \in Bindings /\ b.duid \in DUIDs /\ b.addr \in Addrs
  BY <1>1 DEF DBType, Bindings
<1>3. CASE msg = NoMsg
  BY <1>1, <1>2, <1>3 DEF NoMsg, DUIDs
<1>4. CASE msg \in Messages
  BY <1>1, <1>2, <1>4 DEF Messages, DUIDs
<1> QED BY <1>3, <1>4 DEF TypeOK, Messages

LEMMA HeadIA ==
  ASSUME TypeOK, msg.ias # <<>>
  PROVE  /\ msg \in Messages
         /\ Head(msg.ias) \in IAOptions /\ Head(msg.ias).iaid \in IAIDs
         /\ Head(msg.ias).addrs \in Seq(Addrs)
         /\ Tail(msg.ias) \in Seq(IAOptions)
         /\ [msg EXCEPT !.ias = Tail(msg.ias)] \in Messages
<1>1. msg \in Messages
  BY DEF TypeOK, NoMsg, Messages
<1>2. Head(msg.ias) \in IAOptions /\ Tail(msg.ias) \in Seq(IAOptions)
  BY TypeFacts, HeadTailProperties
<1> QED BY <1>1, <1>2 DEF IAOptions, Messages

LEMMA AnswerType ==
  ASSUME TypeOK, msg.ias # <<>>, NEW a \in Addrs \cup {NoAddr}, Answer(a)
  PROVE  /\ ans' \in Answers /\ msg' \in Messages
         /\ pc' = pc /\ disk' = disk /\ held' = held /\ crashes' = crashes
<1>1. [iaid |-> Head(msg.ias).iaid, addr |-> a] \in [iaid : IAIDs, addr : Addrs \cup {NoAddr}]
  BY HeadIA
<1>2. ans' \in Answers
  BY <1>1, AppendProperties DEF Answer, TypeOK, Answers
<1>3. msg' = [msg EXCEPT !.ias = Tail(msg.ias)]
  BY DEF Answer
<1> QED BY <1>2, <1>3, HeadIA DEF Answer

LEMMA AnswerOnlyType ==
  ASSUME TypeOK, msg.ias # <<>>, NEW a \in Addrs \cup {NoAddr}, Answer(a),
         UNCHANGED <<db, assigned>>, cache' \in Seq(CacheEntries)
  PROVE  TypeOK'
BY AnswerType DEF TypeOK, Messages, Answers

LEMMA AssignAddrType ==
  ASSUME TypeOK, msg.ias # <<>>, NEW a \in Addrs, NEW ch \in Seq(CacheEntries),
         AssignAddr(a, ch)
  PROVE  TypeOK'
<1>1. DBType(db')
  BY TypeFacts, HeadIA, BindingType, WithLeaseType, ValidIsLifetime DEF AssignAddr
<1>2. assigned' \in [Pools -> Counts]
  BY CountedType DEF AssignAddr, TypeOK
<1> QED BY <1>1, <1>2, AnswerType DEF AssignAddr, TypeOK, DBType, Messages, Answers

LEMMA DelClntAddrType ==
  ASSUME TypeOK, NEW b, DelClntAddr(b)
  PROVE  DBType(db') /\ cache' \in Seq(CacheEntries) /\ DOMAIN db' \subseteq DOMAIN db
<1>1. CASE b \in DOMAIN db
  <2>1. db' = WithoutLease(db, b) /\ cache' = WithCached(cache, b.duid, b.addr)
    BY <1>1 DEF DelClntAddr
  <2>2. cache \in Seq(CacheEntries) /\ b.duid \in DUIDs /\ b.addr \in Addrs
    BY <1>1, TypeFacts DEF TypeOK
  <2> QED BY <2>1, <2>2, TypeFacts, WithoutLeaseType, WithCachedType
<1>2. CASE b \notin DOMAIN db
  BY <1>2, TypeFacts DEF DelClntAddr, TypeOK
<1> QED BY <1>1, <1>2

(* RELEASE and DECLINE keep the rest of the IA's addresses. *)
LEMMA RestOfAddrsType ==
  ASSUME TypeOK, msg.ias # <<>>, Head(msg.ias).addrs # <<>>
  PROVE  /\ [msg EXCEPT !.ias = RestOfAddrs] \in Messages
         /\ NextAddr \in Bindings
<1> DEFINE ia == Head(msg.ias)
<1>1. Head(ia.addrs) \in Addrs /\ Tail(ia.addrs) \in Seq(Addrs)
  BY HeadIA, HeadTailProperties
<1>2. [ia EXCEPT !.addrs = Tail(ia.addrs)] \in IAOptions
  BY <1>1, HeadIA DEF IAOptions
<1>3. <<[ia EXCEPT !.addrs = Tail(ia.addrs)]>> \o Tail(msg.ias) \in Seq(IAOptions)
  <2> DEFINE one == [ia EXCEPT !.addrs = Tail(ia.addrs)]
  <2>1. one \in IAOptions
    BY <1>2
  <2>2. <<one>> \in Seq(IAOptions)
    <3> HIDE DEF one
    <3> QED BY <2>1
  <2> HIDE DEF one, ia
  <2>3. <<one>> \o Tail(msg.ias) \in Seq(IAOptions)
    BY <2>2, HeadIA, ConcatProperties
  <2> QED BY <2>3 DEF one
<1>4. RestOfAddrs \in Seq(IAOptions)
  BY <1>3, HeadIA DEF RestOfAddrs
<1>5. msg \in Messages /\ msg.duid \in DUIDs
  BY HeadIA, TypeFacts
<1>6. NextAddr \in Bindings
  BY <1>1, <1>5, HeadIA, BindingType DEF NextAddr
<1> QED BY <1>4, <1>5, <1>6 DEF Messages

(* A hint is an address, and so is what stands for it. *)
LEMMA HintType ==
  ASSUME TypeOK, msg.ias # <<>>, NEW k \in DOMAIN Hints
  PROVE  Hints[k] \in Addrs /\ Candidates(Hints[k]) \subseteq Addrs
<1>1. Hints[k] \in Addrs
  BY HeadIA, ElementOfSeq DEF Hints
<1> QED BY <1>1 DEF Candidates, FreeIn

(* A set of naturals has a least element: the intervals up to its elements    *)
(* have a minimal one, because strict inclusion of finite sets is            *)
(* well-founded.                                                             *)
LEMMA MinInSet ==
  ASSUME NEW S \in SUBSET Nat, S # {}
  PROVE  Min(S) \in S /\ \A y \in S : Min(S) <= y
<1> DEFINE T == {1 .. i : i \in S}
<1>1. T \subseteq FiniteSubsetsOf(Nat) /\ T # {}
  <2>1. \A i \in S : 1 .. i \in SUBSET Nat /\ IsFiniteSet(1 .. i)
    BY FS_Interval
  <2> QED BY <2>1 DEF FiniteSubsetsOf
<1>2. PICK I \in T : \A J \in T : ~ (<<J, I>> \in StrictSubsetOrdering(Nat))
  <2> HIDE DEF T
  <2> QED BY <1>1, FS_StrictSubsetOrderingWellFounded, WFMin
<1>3. PICK x \in S : I = 1 .. x
  OBVIOUS
<1>4. \A y \in S : ~ (y < x)
  <2> SUFFICES ASSUME NEW y \in S, y < x PROVE FALSE
    OBVIOUS
  <2>1. 1 .. y \in SUBSET Nat /\ 1 .. x \in SUBSET Nat /\ 1 .. y \subseteq 1 .. x
    OBVIOUS
  <2>2. x \in 1 .. x /\ x \notin 1 .. y
    OBVIOUS
  <2>3. <<1 .. y, 1 .. x>> \in StrictSubsetOrdering(Nat)
    BY <2>1, <2>2, Zenon DEF StrictSubsetOrdering
  <2> QED BY <1>2, <1>3, <2>3
<1>5. \A y \in S : x <= y
  BY <1>4
<1> QED BY <1>5 DEF Min

LEMMA CacheEntryType ==
  ASSUME TypeOK, CachedEntry # 0
  PROVE  CachedEntry \in DOMAIN cache /\ cache[CachedEntry].addr \in Addrs
<1> DEFINE S == {i \in DOMAIN cache : cache[i].duid = msg.duid}
<1>1. cache \in Seq(CacheEntries) /\ DOMAIN cache \subseteq Nat
  BY LenProperties DEF TypeOK
<1>2. S # {} /\ CachedEntry = Min(S)
  BY DEF CachedEntry, EntryOf, FirstOf
<1>3. CachedEntry \in S
  <2> HIDE DEF S
  <2>1. S \in SUBSET Nat
    BY <1>1 DEF S
  <2> QED BY <1>2, <2>1, MinInSet
<1>4. CachedEntry \in DOMAIN cache
  BY <1>3
<1>5. cache[CachedEntry] \in CacheEntries
  BY <1>1, <1>4, ElementOfSeq, LenProperties
<1> QED BY <1>4, <1>5 DEF CacheEntries

(* The steps that answer an IA option of an assignment. *)
LEMMA AssignType ==
  ASSUME TypeOK, Assign
  PROVE  TypeOK'
<1> USE DEF NotFixed, MayHaveMore, CacheMissed, HintsFailed
<1>0. /\ \A types : NoBindingFor(types) => Handling(types)
      /\ \A types : Handling(types) => msg.ias # <<>>
  BY DEF NoBindingFor, Handling
<1>1. cache \in Seq(CacheEntries) /\ CacheAfterMiss \in Seq(CacheEntries)
  BY WithoutType DEF CacheAfterMiss, TypeOK
<1>2. CASE RenewBinding
  <2>1. PICK b \in BindingsOf(msg.duid, Head(msg.ias).iaid) :
          Answer(b.addr) /\ db' = Refreshed(db, BindingsOf(msg.duid, Head(msg.ias).iaid))
    BY <1>2 DEF RenewBinding
  <2>2. msg.ias # <<>> /\ UNCHANGED <<cache, assigned>>
    BY <1>2 DEF RenewBinding, Handling
  <2>3. b.addr \in Addrs
    BY TypeFacts DEF BindingsOf
  <2>4. DBType(db')
    BY <2>1, TypeFacts, RefreshedType
  <2> QED BY <2>1, <2>2, <2>3, <2>4, AnswerType DEF TypeOK, DBType, Messages, Answers
<1>3. CASE AssignFixedLease
  <2>1. msg.ias # <<>> /\ Answer(FixedAddr[msg.duid]) /\ UNCHANGED <<db, cache, assigned>>
    BY <1>0, <1>3 DEF AssignFixedLease
  <2>2. FixedAddr[msg.duid] \in Addrs \cup {NoAddr}
    BY <2>1, HeadIA, ConfigAssumption DEF Messages
  <2> QED BY <1>1, <2>1, <2>2, AnswerOnlyType
<1>4. CASE RefuseMaxLease
  BY <1>0, <1>1, <1>4, AnswerOnlyType DEF RefuseMaxLease
<1>5. CASE AssignCachedAddr
  BY <1>0, <1>1, <1>5, CacheEntryType, AssignAddrType DEF AssignCachedAddr, CachedUsable
<1>6. CASE AssignRequestedAddr
  <2>1. msg.ias # <<>>
    BY <1>0, <1>6 DEF AssignRequestedAddr
  <2>2. PICK k \in DOMAIN Hints : \E a \in Candidates(Hints[k]) : AssignAddr(a, CacheAfterMiss)
    BY <1>6 DEF AssignRequestedAddr
  <2> QED BY <1>1, <2>1, <2>2, HintType, AssignAddrType
<1>7. CASE AssignRandomAddr
  <2>1. msg.ias # <<>>
    BY <1>0, <1>7 DEF AssignRandomAddr
  <2>2. \E p \in SuitableClass : \E a \in FreeIn(p) : AssignAddr(a, CacheAfterMiss)
    BY <1>7 DEF AssignRandomAddr
  <2>3. \A p : FreeIn(p) \subseteq Addrs
    BY DEF FreeIn
  <2> QED BY <1>1, <2>1, <2>2, <2>3, AssignAddrType
<1>8. CASE NoAddrsAvail
  BY <1>0, <1>1, <1>8, AnswerOnlyType DEF NoAddrsAvail
<1>9. CASE DrawForever
  BY <1>1, <1>9 DEF DrawForever, TypeOK
<1> QED BY <1>2, <1>3, <1>4, <1>5, <1>6, <1>7, <1>8, <1>9 DEF Assign

LEMMA HandleOptionType ==
  ASSUME TypeOK, HandleOption
  PROVE  TypeOK'
<1>1. CASE Assign
  BY <1>1, AssignType
<1>2. CASE RenewNoBinding
  BY <1>2, AnswerOnlyType DEF RenewNoBinding, NoBindingFor, Handling, TypeOK
<1>3. CASE RebindDiscarded
  BY <1>3 DEF RebindDiscarded, TypeOK
<1>4. CASE SkipEmptyIA
  BY <1>4, HeadIA DEF SkipEmptyIA, Handling, TypeOK, Messages
<1>5. CASE ReleaseAddr
  <2>1. msg.ias # <<>> /\ Head(msg.ias).addrs # <<>> /\ DelClntAddr(NextAddr)
    BY <1>5 DEF ReleaseAddr, Handling
  <2>2. assigned' \in [Pools -> Counts]
    BY <1>5, CountedType DEF ReleaseAddr, TypeOK
  <2>3. msg' \in Messages
    BY <1>5, <2>1, RestOfAddrsType DEF ReleaseAddr
  <2> QED BY <1>5, <2>1, <2>2, <2>3, DelClntAddrType DEF ReleaseAddr, TypeOK, DBType, Messages
<1>6. CASE DeclineAddr
  <2>1. msg.ias # <<>> /\ Head(msg.ias).addrs # <<>>
    BY <1>6 DEF DeclineAddr, Handling
  <2>2. NextAddr \in Bindings /\ msg' \in Messages
    BY <1>6, <2>1, RestOfAddrsType DEF DeclineAddr
  <2>3. Quarantine(NextAddr) \in Bindings /\ NextAddr.duid \in DUIDs /\ NextAddr.addr \in Addrs
    BY <2>2 DEF Quarantine, Binding, Bindings, DUIDs
  <2>4. DBType(db') /\ cache' \in Seq(CacheEntries)
    <3>1. cache \in Seq(CacheEntries)
      BY DEF TypeOK
    <3>2. CASE NextAddr \in DOMAIN db
      <4>1. /\ db' = WithLease(WithoutLease(db, NextAddr), Quarantine(NextAddr), DeclinedTimeout)
            /\ cache' = WithCached(cache, NextAddr.duid, NextAddr.addr)
        BY <1>6, <3>2 DEF DeclineAddr
      <4> QED BY <2>3, <3>1, <4>1, TypeFacts, WithLeaseType, WithoutLeaseType,
                 WithCachedType, ValidIsLifetime
    <3>3. CASE NextAddr \notin DOMAIN db
      BY <1>6, <3>1, <3>3, TypeFacts DEF DeclineAddr
    <3> QED BY <3>2, <3>3
  <2> QED BY <1>6, <2>2, <2>4 DEF DeclineAddr, TypeOK, DBType, Messages
<1> QED BY <1>1, <1>2, <1>3, <1>4, <1>5, <1>6 DEF HandleOption

LEMMA ServerType ==
  ASSUME TypeOK, Server
  PROVE  TypeOK'
<1>1. CASE HandleOption
  BY <1>1, HandleOptionType
<1>2. CASE SendReply
  <2>1. Told \subseteq Bindings
    BY DEF Told
  <2>2. DOMAIN held' \subseteq Bindings /\ held' \in [DOMAIN held' -> 1 .. Valid]
    BY <1>2, <2>1, BoundsAssumption DEF SendReply, Holding, TypeOK
  <2> QED BY <1>2, <2>2 DEF SendReply, TypeOK
<1>3. CASE StartUndo
  BY <1>3 DEF StartUndo, srvVars, TypeOK
<1>4. CASE UndoAddr
  <2>1. ans' \in Answers
    BY <1>4, HeadTailProperties DEF UndoAddr, TypeOK, Answers
  <2>2. DBType(db') /\ cache' \in Seq(CacheEntries) /\ assigned' \in [Pools -> Counts]
    <3> DEFINE b == Binding(msg.duid, Head(ans).iaid, Head(ans).addr)
    <3>1. \/ UNCHANGED <<db, cache, assigned>>
          \/ DelClntAddr(b) /\ assigned' = CountedOut(b.addr)
      BY <1>4 DEF UndoAddr
    <3> HIDE DEF b
    <3>2. CASE UNCHANGED <<db, cache, assigned>>
      BY <3>2, TypeFacts DEF TypeOK
    <3>3. CASE DelClntAddr(b) /\ assigned' = CountedOut(b.addr)
      <4>1. assigned \in [Pools -> Counts]
        BY DEF TypeOK
      <4> QED BY <3>3, <4>1, DelClntAddrType, CountedType
    <3> QED BY <3>1, <3>2, <3>3
  <2> QED BY <1>4, <2>1, <2>2 DEF UndoAddr, TypeOK, DBType, Answers
<1>5. CASE SendAdvertise
  BY <1>5 DEF SendAdvertise, srvVars, TypeOK
<1>6. CASE Dump
  BY <1>6 DEF Dump, TypeOK
<1>7. CASE Wake
  BY <1>7 DEF Wake, srvVars, TypeOK
<1>8. CASE RemoveExpired
  BY <1>8, DelClntAddrType DEF RemoveExpired, TypeOK, DBType
<1>9. CASE SaveExpired
  BY <1>9 DEF SaveExpired, srvVars, TypeOK
<1>10. CASE NothingExpired
  BY <1>10 DEF NothingExpired, srvVars, TypeOK
<1>11. CASE Spin
  BY <1>11 DEF Spin, vars, TypeOK
<1> QED BY <1>1, <1>2, <1>3, <1>4, <1>5, <1>6, <1>7, <1>8, <1>9, <1>10, <1>11 DEF Server

(* What a crash leaves of a file that is being written is a part of the       *)
(* memory, with the cache of the file before or a beginning of the cache.     *)
Begins(c, ch) ==
  c \in Seq(CacheEntries) /\ Len(c) <= Len(ch) /\ \A k \in 1 .. Len(c) : c[k] = ch[k]

LEMMA SubSeqBegins ==
  ASSUME NEW ch \in Seq(CacheEntries), NEW n \in 0 .. Len(ch)
  PROVE  Begins(SubSeq(ch, 1, n), ch)
<1> DEFINE c == SubSeq(ch, 1, n)
<1>1. Len(ch) \in Nat /\ n \in Int /\ 1 \in Int /\ \A i \in 1 .. n : ch[i] \in CacheEntries
  BY LenProperties, ElementOfSeq
<1>2. /\ c \in Seq(CacheEntries) /\ Len(c) = IF 1 <= n THEN n - 1 + 1 ELSE 0
      /\ \A i \in 1 .. n - 1 + 1 : c[i] = ch[1 + i - 1]
  <2> HIDE DEF c
  <2> QED BY <1>1, SubSeqProperties DEF c
<1> HIDE DEF c
<1>3. Len(c) = n /\ n - 1 + 1 = n
  BY <1>1, <1>2
<1>4. \A i \in 1 .. n : 1 + i - 1 = i
  BY <1>1
<1>5. \A i \in 1 .. n : c[i] = ch[i]
  BY <1>2, <1>3, <1>4
<1>6. Len(c) <= Len(ch)
  BY <1>1, <1>3
<1> QED BY <1>2, <1>3, <1>5, <1>6 DEF Begins, c

LEMMA TornFile ==
  ASSUME TypeOK, NEW x \in Torn
  PROVE  /\ x = [db |-> x.db, cache |-> x.cache]
         /\ DBType(x.db) /\ DOMAIN x.db \subseteq DOMAIN db
         /\ \A b \in DOMAIN x.db : x.db[b] = db[b]
         /\ x.cache \in Seq(CacheEntries)
         /\ x.cache = disk.cache \/ Begins(x.cache, cache)
<1>0. DBType(db) /\ cache \in Seq(CacheEntries) /\ disk.cache \in Seq(CacheEntries)
  BY TypeFacts DEF TypeOK
<1>1. ASSUME NEW S \in Written, x = [db |-> Restrict(db, S), cache |-> disk.cache]
      PROVE  /\ x = [db |-> x.db, cache |-> x.cache] /\ x.cache = disk.cache
             /\ DBType(x.db) /\ DOMAIN x.db \subseteq DOMAIN db
             /\ \A b \in DOMAIN x.db : x.db[b] = db[b]
  <2>1. S \subseteq DOMAIN db
    BY DEF Written
  <2>2. x.db = [b \in S |-> db[b]] /\ x = [db |-> x.db, cache |-> x.cache] /\ x.cache = disk.cache
    BY <1>1 DEF Restrict
  <2> QED BY <1>0, <2>1, <2>2 DEF DBType
<1>2. ASSUME NEW n \in 0 .. Len(cache), x = [db |-> db, cache |-> SubSeq(cache, 1, n)]
      PROVE  /\ x = [db |-> x.db, cache |-> x.cache] /\ x.db = db
             /\ Begins(x.cache, cache)
  BY <1>0, <1>2, SubSeqBegins
<1> QED BY <1>0, <1>1, <1>2 DEF Torn, Begins

LEMMA CrashFile ==
  ASSUME TypeOK, Crash
  PROVE  disk' = disk \/ disk' \in Torn
BY DEF Crash

LEMMA EnvironmentType ==
  ASSUME TypeOK, Environment
  PROVE  TypeOK'
<1>1. ASSUME NEW t \in MsgTypes, NEW c \in Clients, NEW ias \in MsgIAs, Receive(t, c, ias)
      PROVE  TypeOK'
  <2>1. [type |-> t, duid |-> c, ias |-> ias] \in Messages
    BY BoundsAssumption DEF Messages
  <2>2. pc' \in {"dump", "options"} /\ msg' \in Messages \cup {NoMsg}
    BY <1>1, <2>1 DEF Receive
  <2>3. DOMAIN held' \subseteq Bindings /\ held' \in [DOMAIN held' -> 1 .. Valid]
    BY <1>1 DEF Receive, TypeOK, Restrict
  <2> QED BY <1>1, <2>2, <2>3 DEF Receive, TypeOK, Messages
<1>2. CASE Tick
  <2>1. DBType(db') /\ DBType(Aged(disk.db))
    BY <1>2, TypeFacts, AgedType DEF Tick
  <2>2. disk' = [db |-> Aged(disk.db), cache |-> disk.cache]
    BY <1>2 DEF Tick, TypeOK
  <2>3. DOMAIN held' \subseteq Bindings /\ held' \in [DOMAIN held' -> 1 .. Valid]
    BY <1>2, BoundsAssumption DEF Tick, StillHeld, TypeOK
  <2> QED BY <1>2, <2>1, <2>2, <2>3 DEF Tick, TypeOK, DBType
<1>3. ASSUME NEW b \in DOMAIN held, Forget(b)
      PROVE  TypeOK'
  BY <1>3 DEF Forget, Restrict, srvVars, TypeOK
<1>4. DBType(NoDB) /\ Zero \in [Pools -> Counts] /\ <<>> \in Seq(CacheEntries)
  BY BoundsAssumption DEF NoDB, DBType, Zero, Counts
<1>5. CASE Shutdown
  BY <1>4, <1>5 DEF Shutdown, TypeOK, DBType
<1>6. CASE Crash
  <2>1. disk' = [db |-> disk'.db, cache |-> disk'.cache] /\ DBType(disk'.db) /\ disk'.cache \in Seq(CacheEntries)
    <3>1. CASE disk' = disk
      BY <3>1, TypeFacts DEF TypeOK
    <3> QED BY <1>6, <3>1, CrashFile, TornFile
  <2> QED BY <1>4, <1>6, <2>1 DEF Crash, TypeOK, DBType
<1>7. CASE Restart
  BY <1>7, TypeFacts, RecountType DEF Restart, TypeOK, DBType
<1> QED BY <1>1, <1>2, <1>3, <1>5, <1>6, <1>7 DEF Environment

LEMMA TypeInit == Init => TypeOK
<1>1. DBType(NoDB) /\ Zero \in [Pools -> Counts]
  BY BoundsAssumption DEF NoDB, DBType, Zero, Counts
<1> QED BY <1>1 DEF Init, TypeOK, DBType, NoDB

LEMMA TypeStep == TypeOK /\ [Next]_vars => TypeOK'
<1>1. ASSUME TypeOK, UNCHANGED vars PROVE TypeOK'
  BY <1>1 DEF vars, TypeOK
<1> QED BY <1>1, ServerType, EnvironmentType DEF Next

(* Every variable keeps its type, whatever the constants. *)
THEOREM TypeCorrect == Spec => []TypeOK
BY TypeInit, TypeStep, PTL DEF Spec

-----------------------------------------------------------------------------
(* No address is bound twice and no IA has two addresses.  The two are        *)
(* inductive together with the type, in memory and on disk: removing          *)
(* bindings keeps them, and a binding is added only for a free address, to    *)
(* an IA without one or to the dummy client.                                 *)
Good(d) == Unique(d) /\ OnePerIA(d)
GoodInv == TypeOK /\ Good(db) /\ Good(disk.db)

LEMMA GoodOfFewer ==
  ASSUME NEW d, NEW e, Good(d), DOMAIN e \subseteq DOMAIN d
  PROVE  Good(e)
BY DEF Good, Unique, OnePerIA

LEMMA GoodOfOneMore ==
  ASSUME NEW d, NEW e, NEW b, Good(d), DOMAIN e = DOMAIN d \cup {b},
         \A x \in DOMAIN d : x.addr # b.addr,
         b.duid \in Clients => \A x \in DOMAIN d : x.duid # b.duid \/ x.iaid # b.iaid
  PROVE  Good(e)
BY DEF Good, Unique, OnePerIA

LEMMA AssignAddrGood ==
  ASSUME GoodInv, NoBindingFor(AssignTypes), NEW a \in Addrs, AddrIsFree(a),
         NEW ch, AssignAddr(a, ch)
  PROVE  Good(db') /\ disk' = disk
<1> DEFINE b == Binding(msg.duid, Head(msg.ias).iaid, a)
<1>1. msg.ias # <<>> /\ BindingsOf(msg.duid, Head(msg.ias).iaid) = {}
  BY DEF NoBindingFor, Handling
<1>2. db' = WithLease(db, b, Valid) /\ disk' = disk
  BY DEF AssignAddr, Answer
<1>3. DOMAIN db' = DOMAIN db \cup {b}
  BY <1>2 DEF WithLease
<1>4. \A x \in DOMAIN db : x.addr # b.addr
  BY DEF AddrIsFree, Binding
<1>5. \A x \in DOMAIN db : x.duid # b.duid \/ x.iaid # b.iaid
  BY <1>1 DEF BindingsOf, Binding
<1> QED BY <1>2, <1>3, <1>4, <1>5, GoodOfOneMore DEF GoodInv

LEMMA AssignGood ==
  ASSUME GoodInv, Assign
  PROVE  Good(db') /\ disk' = disk
<1> USE DEF NotFixed, MayHaveMore, CacheMissed, HintsFailed
<1>0. TypeOK /\ Good(db)
  BY DEF GoodInv
<1>1. NoBindingFor(AssignTypes) => msg.ias # <<>>
  BY DEF NoBindingFor, Handling
<1>2. CASE RenewBinding
  <2>1. DOMAIN db' = DOMAIN db
    BY <1>2 DEF RenewBinding, Refreshed
  <2> QED BY <1>0, <1>2, <2>1, GoodOfFewer DEF RenewBinding, Answer
<1>3. CASE AssignFixedLease
  BY <1>0, <1>3 DEF AssignFixedLease, Answer
<1>4. CASE RefuseMaxLease
  BY <1>0, <1>4 DEF RefuseMaxLease, Answer
<1>5. CASE AssignCachedAddr
  BY <1>0, <1>5, CacheEntryType, AssignAddrGood DEF AssignCachedAddr, CachedUsable
<1>6. CASE AssignRequestedAddr
  <2>1. NoBindingFor(AssignTypes) /\ msg.ias # <<>>
    BY <1>1, <1>6 DEF AssignRequestedAddr
  <2>2. PICK k \in DOMAIN Hints :
          \E a \in Candidates(Hints[k]) : AssignAddr(a, CacheAfterMiss)
    BY <1>6 DEF AssignRequestedAddr
  <2>3. \A a \in Candidates(Hints[k]) : AddrIsFree(a)
    BY DEF Candidates, FreeIn
  <2> QED BY <1>0, <2>1, <2>2, <2>3, HintType, AssignAddrGood
<1>7. CASE AssignRandomAddr
  <2>1. NoBindingFor(AssignTypes)
    BY <1>7 DEF AssignRandomAddr
  <2>2. \E p \in SuitableClass : \E a \in FreeIn(p) : AssignAddr(a, CacheAfterMiss)
    BY <1>7 DEF AssignRandomAddr
  <2>3. \A p : \A a \in FreeIn(p) : a \in Addrs /\ AddrIsFree(a)
    BY DEF FreeIn
  <2> QED BY <2>1, <2>2, <2>3, AssignAddrGood
<1>8. CASE NoAddrsAvail
  BY <1>0, <1>8 DEF NoAddrsAvail, Answer
<1>9. CASE DrawForever
  BY <1>0, <1>9 DEF DrawForever
<1> QED BY <1>2, <1>3, <1>4, <1>5, <1>6, <1>7, <1>8, <1>9 DEF Assign

(* A declined address is taken from its client before the dummy has it. *)
LEMMA DeclineGood ==
  ASSUME GoodInv, DeclineAddr
  PROVE  Good(db')
<1>1. CASE NextAddr \in DOMAIN db
  <2> DEFINE rest == WithoutLease(db, NextAddr)
             q == Quarantine(NextAddr)
  <2>1. DOMAIN rest = DOMAIN db \ {NextAddr}
    BY DEF WithoutLease, Restrict
  <2>2. db' = WithLease(rest, q, DeclinedTimeout)
    BY <1>1 DEF DeclineAddr
  <2>3. DOMAIN db' = DOMAIN rest \cup {q}
    BY <2>2 DEF WithLease
  <2>4. Good(rest)
    BY <2>1, GoodOfFewer DEF GoodInv
  <2>5. \A x \in DOMAIN rest : x.addr # q.addr
    BY <1>1, <2>1 DEF GoodInv, Good, Unique, Quarantine, Binding
  <2>6. q.duid \notin Clients
    BY NamesAssumption DEF Quarantine, Binding
  <2> HIDE DEF rest, q
  <2> QED BY <2>3, <2>4, <2>5, <2>6, GoodOfOneMore
<1>2. CASE NextAddr \notin DOMAIN db
  BY <1>2 DEF DeclineAddr, GoodInv
<1> QED BY <1>1, <1>2

LEMMA GoodStep == GoodInv /\ [Next]_vars => GoodInv'
<1> SUFFICES ASSUME GoodInv, [Next]_vars PROVE GoodInv'
  OBVIOUS
<1>0. TypeOK /\ TypeOK' /\ Good(db) /\ Good(disk.db)
  BY TypeStep DEF GoodInv
<1> SUFFICES Good(db') /\ Good(disk'.db)
  BY <1>0 DEF GoodInv
<1>d. \A b : DelClntAddr(b) => Good(db')
  BY <1>0, DelClntAddrType, GoodOfFewer
<1>n. Good(NoDB)
  BY DEF Good, Unique, OnePerIA, NoDB
<1>1. CASE Assign
  BY <1>0, <1>1, AssignGood
<1>2. CASE RenewNoBinding \/ RebindDiscarded \/ SkipEmptyIA
  BY <1>0, <1>2 DEF RenewNoBinding, RebindDiscarded, SkipEmptyIA, Answer
<1>3. CASE ReleaseAddr
  BY <1>0, <1>3, <1>d DEF ReleaseAddr
<1>4. CASE DeclineAddr
  BY <1>0, <1>4, DeclineGood DEF DeclineAddr
<1>5. CASE SendReply \/ StartUndo \/ SendAdvertise \/ Wake \/ Spin
  BY <1>0, <1>5 DEF SendReply, StartUndo, SendAdvertise, Wake, Spin, srvVars, vars
<1>6. CASE UndoAddr
  BY <1>0, <1>6, <1>d DEF UndoAddr
<1>7. CASE Dump \/ SaveExpired \/ NothingExpired
  BY <1>0, <1>7 DEF Dump, SaveExpired, NothingExpired, srvVars
<1>8. CASE RemoveExpired
  BY <1>0, <1>8, <1>d DEF RemoveExpired
<1>9. CASE \E t \in MsgTypes, c \in Clients, ias \in MsgIAs : Receive(t, c, ias)
  BY <1>0, <1>9 DEF Receive
<1>10. CASE Tick
  <2>1. DOMAIN db' = DOMAIN db /\ disk'.db = Aged(disk.db)
    BY <1>10, TypeFacts, <1>0, AgedType DEF Tick, TypeOK
  <2>2. DOMAIN Aged(disk.db) = DOMAIN disk.db
    BY <1>0, TypeFacts, AgedType
  <2> QED BY <1>0, <2>1, <2>2, GoodOfFewer
<1>11. CASE \E b \in DOMAIN held : Forget(b)
  BY <1>0, <1>11 DEF Forget, srvVars
<1>12. CASE Shutdown
  BY <1>0, <1>n, <1>12 DEF Shutdown
<1>c. CASE Crash
  <2>1. Good(disk'.db)
    <3>1. CASE disk' = disk
      BY <1>0, <3>1
    <3>2. CASE disk' \in Torn
      <4>1. DOMAIN disk'.db \subseteq DOMAIN db
        BY <1>0, <3>2, TornFile
      <4> QED BY <1>0, <4>1, GoodOfFewer
    <3> QED BY <1>0, <1>c, <3>1, <3>2, CrashFile
  <2> QED BY <1>n, <1>c, <2>1 DEF Crash
<1>13. CASE Restart
  BY <1>0, <1>13 DEF Restart
<1>14. CASE UNCHANGED vars
  BY <1>0, <1>14 DEF vars
<1> QED BY <1>1, <1>2, <1>3, <1>4, <1>5, <1>6, <1>7, <1>8, <1>9, <1>10, <1>11, <1>12,
           <1>13, <1>14, <1>c DEF Next, Server, HandleOption, Environment

LEMMA GoodInit == Init => GoodInv
BY TypeInit DEF Init, GoodInv, Good, Unique, OnePerIA, NoDB

LEMMA GoodCorrect == Spec => []GoodInv
BY GoodInit, GoodStep, PTL DEF Spec

(* At most one client and IA is bound to an address, and the dummy client     *)
(* counts, in memory and in the file a restart reads.                         *)
THEOREM AddressesUnique == Spec => []UniqueBinding
<1>1. GoodInv => UniqueBinding
  BY DEF GoodInv, Good, UniqueBinding
<1> QED BY <1>1, GoodCorrect, PTL

(* An IA of a client never gets a second address, through a crash as well. *)
THEOREM OneAddressPerIA == Spec => []OneAddrPerIA
<1>1. GoodInv => OneAddrPerIA
  BY DEF GoodInv, Good, OneAddrPerIA, Store
<1> QED BY <1>1, GoodCorrect, PTL

-----------------------------------------------------------------------------
(* What is on disk when the server waits, and what may leave the database.    *)
(* A handler works for a client, never for the dummy one, and a stopped       *)
(* server has no database in memory.  The turn in which nothing expires       *)
(* writes nothing, so the file must be current before doDuties() as well.     *)
FileCurrent == pc \in {"select", "duties"} => disk = [db |-> db, cache |-> cache]
FlowInv ==
  /\ TypeOK
  /\ pc \in {"options", "undo"} => msg \in Messages
  /\ pc = "down" => DOMAIN db = {}
  /\ FileCurrent

LEMMA FlowInit == Init => FlowInv
BY TypeInit DEF Init, FlowInv, FileCurrent

LEMMA MessagesClosed ==
  ASSUME TypeOK, msg \in Messages, NEW ias \in Seq(IAOptions)
  PROVE  [msg EXCEPT !.ias = ias] \in Messages
BY DEF Messages

LEMMA HandleOptionFlow ==
  ASSUME FlowInv, HandleOption
  PROVE  pc = "options" /\ (pc' = "options" => msg' \in Messages) /\ pc' \in {"options", "dump", "hung"}
<1> USE DEF NoBindingFor, NotFixed, MayHaveMore, CacheMissed, HintsFailed
<1>0. TypeOK /\ (Handling(MsgTypes) => msg.ias # <<>> /\ pc = "options" /\ msg \in Messages)
  BY HeadIA DEF FlowInv, Handling
<1>1. \A types \in SUBSET MsgTypes : Handling(types) => Handling(MsgTypes)
  BY DEF Handling
<1>2. /\ AssignTypes \in SUBSET MsgTypes /\ AssignTypes \cup {"RENEW", "REBIND"} \in SUBSET MsgTypes
      /\ {"RENEW"} \in SUBSET MsgTypes /\ {"REBIND"} \in SUBSET MsgTypes
      /\ {"RELEASE"} \in SUBSET MsgTypes /\ {"RELEASE", "DECLINE"} \in SUBSET MsgTypes
      /\ {"DECLINE"} \in SUBSET MsgTypes
  BY DEF AssignTypes, MsgTypes
<1>3. \A a : Handling(MsgTypes) /\ Answer(a) => pc' = "options" /\ msg' \in Messages
  BY <1>0, HeadIA DEF Answer
<1>4. CASE RenewBinding
  BY <1>0, <1>1, <1>2, <1>3, <1>4 DEF RenewBinding
<1>5. CASE AssignFixedLease
  BY <1>0, <1>1, <1>2, <1>3, <1>5 DEF AssignFixedLease
<1>6. CASE RefuseMaxLease
  BY <1>0, <1>1, <1>2, <1>3, <1>6 DEF RefuseMaxLease
<1>7. CASE AssignCachedAddr
  BY <1>0, <1>1, <1>2, <1>3, <1>7 DEF AssignCachedAddr, AssignAddr
<1>8. CASE AssignRequestedAddr
  BY <1>0, <1>1, <1>2, <1>3, <1>8 DEF AssignRequestedAddr, AssignAddr
<1>9. CASE AssignRandomAddr
  BY <1>0, <1>1, <1>2, <1>3, <1>9 DEF AssignRandomAddr, AssignAddr
<1>10. CASE NoAddrsAvail
  BY <1>0, <1>1, <1>2, <1>3, <1>10 DEF NoAddrsAvail
<1>11. CASE DrawForever
  BY <1>0, <1>1, <1>2, <1>11 DEF DrawForever
<1>12. CASE RenewNoBinding
  BY <1>0, <1>1, <1>2, <1>3, <1>12 DEF RenewNoBinding
<1>13. CASE RebindDiscarded
  BY <1>0, <1>1, <1>2, <1>13 DEF RebindDiscarded
<1>14. CASE SkipEmptyIA
  BY <1>0, <1>1, <1>2, <1>14, HeadIA DEF SkipEmptyIA
<1>15. CASE ReleaseAddr
  BY <1>0, <1>1, <1>2, <1>15, RestOfAddrsType DEF ReleaseAddr
<1>16. CASE DeclineAddr
  BY <1>0, <1>1, <1>2, <1>16, RestOfAddrsType DEF DeclineAddr
<1> QED BY <1>4, <1>5, <1>6, <1>7, <1>8, <1>9, <1>10, <1>11, <1>12, <1>13, <1>14, <1>15,
           <1>16 DEF HandleOption, Assign

LEMMA FlowStep == FlowInv /\ [Next]_vars => FlowInv'
<1> SUFFICES ASSUME FlowInv, [Next]_vars PROVE FlowInv'
  OBVIOUS
<1>0. TypeOK /\ TypeOK'
  BY TypeStep DEF FlowInv
<1>1. CASE HandleOption
  BY <1>0, <1>1, HandleOptionFlow DEF FlowInv, FileCurrent
<1>2. CASE SendReply \/ StartUndo \/ SendAdvertise \/ Wake \/ Spin
  BY <1>0, <1>2 DEF FlowInv, FileCurrent, SendReply, StartUndo, SendAdvertise, Wake, Spin, srvVars, vars
<1>3. CASE UndoAddr
  BY <1>0, <1>3 DEF FlowInv, FileCurrent, UndoAddr
<1>4. CASE Dump \/ RemoveExpired \/ SaveExpired \/ NothingExpired
  BY <1>0, <1>4 DEF FlowInv, FileCurrent, Dump, RemoveExpired, SaveExpired, NothingExpired, srvVars
<1>5. ASSUME NEW t \in MsgTypes, NEW c \in Clients, NEW ias \in MsgIAs, Receive(t, c, ias)
      PROVE  FlowInv'
  <2>1. [type |-> t, duid |-> c, ias |-> ias] \in Messages
    BY BoundsAssumption DEF Messages
  <2>2. pc' = "dump" \/ (pc' = "options" /\ msg' \in Messages)
    BY <1>5, <2>1 DEF Receive
  <2> QED BY <1>0, <2>2 DEF FlowInv, FileCurrent
<1>6. CASE Tick
  <2>1. pc = "down" => DOMAIN db' = {}
    BY <1>6 DEF Tick, FlowInv, Aged
  <2>2. FileCurrent'
    BY <1>6 DEF Tick, FlowInv, FileCurrent
  <2> QED BY <1>0, <1>6, <2>1, <2>2 DEF Tick, FlowInv
<1>7. CASE \E b \in DOMAIN held : Forget(b)
  BY <1>0, <1>7 DEF Forget, FlowInv, FileCurrent, srvVars
<1>8. CASE Shutdown \/ Crash
  BY <1>0, <1>8 DEF Shutdown, Crash, FlowInv, FileCurrent, NoDB
<1>9. CASE Restart
  BY <1>0, <1>9 DEF Restart, FlowInv, FileCurrent
<1>10. CASE UNCHANGED vars
  BY <1>0, <1>10 DEF vars, FlowInv, FileCurrent
<1> QED BY <1>1, <1>2, <1>3, <1>4, <1>5, <1>6, <1>7, <1>8, <1>9, <1>10 DEF Next, Server, Environment

LEMMA FlowCorrect == Spec => []FlowInv
BY FlowInit, FlowStep, PTL DEF Spec

(* Whenever the server waits in select(), the file is the database, after a   *)
(* turn that wrote nothing as well.                                          *)
THEOREM DiskCurrentInSelect == Spec => []DiskCurrent
<1>1. FlowInv => DiskCurrent
  BY DEF FlowInv, FileCurrent, DiskCurrent
<1> QED BY <1>1, FlowCorrect, PTL

(* What leaves the database is a client's binding, unless its time is over. *)
LEMMA DelClntAddrRemoves ==
  ASSUME NEW b, DelClntAddr(b)
  PROVE  DOMAIN db \ {b} \subseteq DOMAIN db'
BY DEF DelClntAddr, WithoutLease, Restrict

LEMMA AssignKeeps ==
  ASSUME Assign
  PROVE  DOMAIN db \subseteq DOMAIN db'
<1>1. \A a, ch : AssignAddr(a, ch) => DOMAIN db \subseteq DOMAIN db'
  BY DEF AssignAddr, WithLease
<1>2. CASE RenewBinding
  BY <1>2 DEF RenewBinding, Refreshed
<1>3. CASE AssignCachedAddr \/ AssignRequestedAddr \/ AssignRandomAddr
  BY <1>1, <1>3 DEF AssignCachedAddr, AssignRequestedAddr, AssignRandomAddr
<1>4. CASE AssignFixedLease \/ RefuseMaxLease \/ NoAddrsAvail \/ DrawForever
  BY <1>4 DEF AssignFixedLease, RefuseMaxLease, NoAddrsAvail, DrawForever
<1> QED BY <1>2, <1>3, <1>4 DEF Assign

LEMMA QuarantineStep ==
  ASSUME FlowInv, [Next]_vars, pc' # "down",
         NEW q \in DOMAIN db, q.duid = DeclinedDUID, db[q] > 0
  PROVE  q \in DOMAIN db'
<1>0. msg \in Messages => msg.duid # DeclinedDUID
  BY NamesAssumption DEF Messages
<1>1. CASE Assign
  BY <1>1, AssignKeeps
<1>2. CASE RenewNoBinding \/ RebindDiscarded \/ SkipEmptyIA
  BY <1>2 DEF RenewNoBinding, RebindDiscarded, SkipEmptyIA
<1>3. CASE ReleaseAddr \/ DeclineAddr
  <2>1. msg \in Messages
    BY <1>3, HeadIA DEF ReleaseAddr, DeclineAddr, Handling, FlowInv
  <2>2. NextAddr.duid # DeclinedDUID
    BY <1>0, <2>1 DEF NextAddr, Binding
  <2>3. CASE ReleaseAddr
    BY <2>2, <2>3, DelClntAddrRemoves DEF ReleaseAddr
  <2>4. CASE DeclineAddr
    BY <2>2, <2>4 DEF DeclineAddr, WithLease, WithoutLease, Restrict
  <2> QED BY <1>3, <2>3, <2>4
<1>4. CASE \/ SendReply \/ StartUndo \/ SendAdvertise \/ Dump
           \/ Wake \/ SaveExpired \/ NothingExpired \/ Spin
  BY <1>4 DEF SendReply, StartUndo, SendAdvertise, Dump, Wake, SaveExpired, NothingExpired, Spin, srvVars, vars
<1>5. CASE UndoAddr
  <2>1. msg.duid # DeclinedDUID
    BY <1>0, <1>5 DEF UndoAddr, FlowInv
  <2>2. Binding(msg.duid, Head(ans).iaid, Head(ans).addr).duid # DeclinedDUID
    BY <2>1 DEF Binding
  <2> QED BY <1>5, <2>2, DelClntAddrRemoves DEF UndoAddr
<1>6. CASE RemoveExpired
  <2>1. PICK b \in Expired : DelClntAddr(b)
    BY <1>6 DEF RemoveExpired
  <2> QED BY <2>1, DelClntAddrRemoves DEF Expired
<1>7. CASE Tick
  BY <1>7 DEF Tick, Aged
<1>8. CASE Shutdown \/ Crash
  BY <1>8 DEF Shutdown, Crash
<1>9. CASE Restart
  BY <1>9 DEF Restart, FlowInv
<1>10. CASE UNCHANGED db
  BY <1>10
<1> QED BY <1>1, <1>2, <1>3, <1>4, <1>5, <1>6, <1>7, <1>8, <1>9, <1>10
    DEF Next, Server, HandleOption, Environment, Receive, Forget, srvVars, vars

(* A declined address is kept from everybody until its quarantine is over,    *)
(* whatever messages and cancellations come in between.                       *)
THEOREM QuarantineKept == Spec => QuarantineHolds
<1>1. FlowInv /\ [Next]_vars =>
        [pc' # "down" =>
           \A b \in DOMAIN db : b.duid = DeclinedDUID /\ db[b] > 0 => b \in DOMAIN db']_vars
  BY QuarantineStep
<1> QED BY <1>1, FlowCorrect, PTL DEF Spec, QuarantineHolds

-----------------------------------------------------------------------------
(* What one step may do to the leases and to the cache.                      *)

(* A lease is added by an assignment, and one of the dummy client by a decline; *)
(* a restart reads the file.                                                 *)
Granted(a) ==
  /\ MayHaveMore /\ msg \in Messages
  /\ PoolOf[a] \in Supported[msg.duid] \/ (CachedUsable /\ a = cache[CachedEntry].addr)
  /\ DOMAIN db' = DOMAIN db \cup {Binding(msg.duid, Head(msg.ias).iaid, a)}
LeasesStep ==
  \/ DOMAIN db' \subseteq DOMAIN db
  \/ \E b \in DOMAIN db : DOMAIN db' \subseteq DOMAIN db \cup {Quarantine(b)}
  \/ \E a : Granted(a)
  \/ db' = disk.db
CacheStep ==
  \/ cache' \in {cache, CacheAfterMiss, disk.cache, <<>>}
  \/ \E b \in DOMAIN db : cache' = WithCached(cache, b.duid, b.addr)
DiskStep ==
  /\ DOMAIN disk'.db \subseteq DOMAIN disk.db \/ DOMAIN disk'.db \subseteq DOMAIN db
  /\ disk'.cache \in {disk.cache, cache} \/ Begins(disk'.cache, cache)

LEMMA AssignEffects ==
  ASSUME TypeOK, Assign
  PROVE  LeasesStep /\ CacheStep /\ disk' = disk
<1> USE DEF NotFixed, MayHaveMore, CacheMissed, HintsFailed
<1>0. NoBindingFor(AssignTypes) => msg \in Messages /\ msg.ias # <<>>
  BY HeadIA DEF NoBindingFor, Handling, AssignTypes
<1>1. ASSUME NEW a, NEW ch, MayHaveMore, AssignAddr(a, ch), ch \in {cache, CacheAfterMiss},
             PoolOf[a] \in Supported[msg.duid] \/ (CachedUsable /\ a = cache[CachedEntry].addr)
      PROVE  LeasesStep /\ CacheStep /\ disk' = disk
  <2>1. DOMAIN db' = DOMAIN db \cup {Binding(msg.duid, Head(msg.ias).iaid, a)}
    BY <1>1 DEF AssignAddr, WithLease
  <2>2. Granted(a)
    BY <1>0, <1>1, <2>1 DEF Granted
  <2>3. cache' \in {cache, CacheAfterMiss} /\ disk' = disk
    BY <1>1 DEF AssignAddr, Answer
  <2> QED BY <2>2, <2>3 DEF LeasesStep, CacheStep
<1>2. CASE RenewBinding
  BY <1>2 DEF RenewBinding, Refreshed, Answer, LeasesStep, CacheStep
<1>3. CASE AssignFixedLease \/ RefuseMaxLease \/ NoAddrsAvail \/ DrawForever
  BY <1>3 DEF AssignFixedLease, RefuseMaxLease, NoAddrsAvail, DrawForever, Answer, LeasesStep, CacheStep
<1>4. CASE AssignCachedAddr
  BY <1>1, <1>4 DEF AssignCachedAddr
<1>5. CASE AssignRequestedAddr
  <2>1. PICK k \in DOMAIN Hints :
          /\ HintTaken(Hints, k)
          /\ \E a \in Candidates(Hints[k]) : AssignAddr(a, CacheAfterMiss)
    BY <1>5 DEF AssignRequestedAddr
  <2>2. PICK a \in Candidates(Hints[k]) : AssignAddr(a, CacheAfterMiss)
    BY <2>1
  <2>3. PoolOf[a] = PoolOf[Hints[k]]
    BY DEF Candidates, FreeIn
  <2>4. PoolOf[a] \in Supported[msg.duid]
    BY <2>1, <2>3 DEF HintTaken, HintUsable
  <2> QED BY <1>1, <1>5, <2>2, <2>4 DEF AssignRequestedAddr
<1>6. CASE AssignRandomAddr
  <2>1. PICK p \in SuitableClass : \E a \in FreeIn(p) : AssignAddr(a, CacheAfterMiss)
    BY <1>6 DEF AssignRandomAddr
  <2>2. PICK a \in FreeIn(p) : AssignAddr(a, CacheAfterMiss)
    BY <2>1
  <2>3. PoolOf[a] \in Supported[msg.duid]
    BY DEF SuitableClass, FreeIn
  <2> QED BY <1>1, <1>6, <2>2, <2>3 DEF AssignRandomAddr
<1> QED BY <1>2, <1>3, <1>4, <1>5, <1>6 DEF Assign

LEMMA StepEffects ==
  ASSUME TypeOK, [Next]_vars
  PROVE  LeasesStep /\ CacheStep /\ DiskStep
<1> USE DEF LeasesStep, CacheStep, DiskStep
<1>d. ASSUME NEW b, DelClntAddr(b)
      PROVE  DOMAIN db' \subseteq DOMAIN db
             /\ (cache' = cache \/ \E x \in DOMAIN db : cache' = WithCached(cache, x.duid, x.addr))
  BY <1>d DEF DelClntAddr, WithoutLease, Restrict
<1>1. CASE Assign
  BY <1>1, AssignEffects
<1>2. CASE RenewNoBinding \/ RebindDiscarded \/ SkipEmptyIA
  BY <1>2 DEF RenewNoBinding, RebindDiscarded, SkipEmptyIA, Answer
<1>3. CASE ReleaseAddr
  BY <1>3, <1>d DEF ReleaseAddr
<1>4. CASE DeclineAddr
  <2>1. CASE NextAddr \in DOMAIN db
    <3>1. DOMAIN db' \subseteq DOMAIN db \cup {Quarantine(NextAddr)}
      BY <1>4, <2>1 DEF DeclineAddr, WithLease, WithoutLease, Restrict
    <3> QED BY <1>4, <2>1, <3>1 DEF DeclineAddr
  <2>2. CASE NextAddr \notin DOMAIN db
    BY <1>4, <2>2 DEF DeclineAddr
  <2> QED BY <2>1, <2>2
<1>5. CASE SendReply \/ StartUndo \/ SendAdvertise \/ Wake \/ Spin
  BY <1>5 DEF SendReply, StartUndo, SendAdvertise, Wake, Spin, srvVars, vars
<1>6. CASE UndoAddr
  BY <1>6, <1>d DEF UndoAddr
<1>7. CASE Dump \/ SaveExpired \/ NothingExpired
  BY <1>7 DEF Dump, SaveExpired, NothingExpired, srvVars
<1>8. CASE RemoveExpired
  BY <1>8, <1>d DEF RemoveExpired
<1>9. CASE \E t \in MsgTypes, c \in Clients, ias \in MsgIAs : Receive(t, c, ias)
  BY <1>9 DEF Receive
<1>10. CASE Tick
  <2>1. DOMAIN db' = DOMAIN db /\ disk' = [disk EXCEPT !.db = Aged(disk.db)] /\ cache' = cache
    BY <1>10 DEF Tick, Aged
  <2>2. disk'.db = Aged(disk.db) /\ disk'.cache = disk.cache
    BY <2>1 DEF TypeOK
  <2>3. DOMAIN disk'.db = DOMAIN disk.db
    BY <2>2 DEF Aged
  <2> QED BY <2>1, <2>2, <2>3
<1>11. CASE \E b \in DOMAIN held : Forget(b)
  BY <1>11 DEF Forget, srvVars
<1>12. CASE Shutdown
  BY <1>12 DEF Shutdown, NoDB
<1>c. CASE Crash
  <2>1. DiskStep
    BY <1>c, CrashFile, TornFile
  <2> QED BY <1>c, <2>1 DEF Crash, NoDB
<1>13. CASE Restart
  BY <1>13 DEF Restart
<1>14. CASE UNCHANGED vars
  BY <1>14 DEF vars
<1> QED BY <1>1, <1>2, <1>3, <1>4, <1>5, <1>6, <1>7, <1>8, <1>9, <1>10, <1>11, <1>12,
           <1>13, <1>14, <1>c DEF Next, Server, HandleOption, Environment

-----------------------------------------------------------------------------
(* client-max-lease                                                          *)

LeasesOf(d, c) == {b \in DOMAIN d : b.duid = c}
WithinLimit(d) ==
  \A c \in Clients : IsFiniteSet(LeasesOf(d, c)) /\ Cardinality(LeasesOf(d, c)) <= ClntMaxLease
LimitInv == WithinLimit(db) /\ WithinLimit(disk.db)

LEMMA LimitOfFewer ==
  ASSUME NEW d, NEW e, WithinLimit(d), \A c \in Clients : LeasesOf(e, c) \subseteq LeasesOf(d, c)
  PROVE  WithinLimit(e)
<1> SUFFICES ASSUME NEW c \in Clients
             PROVE  IsFiniteSet(LeasesOf(e, c)) /\ Cardinality(LeasesOf(e, c)) <= ClntMaxLease
  BY DEF WithinLimit
<1>1. IsFiniteSet(LeasesOf(d, c)) /\ Cardinality(LeasesOf(d, c)) <= ClntMaxLease
  BY DEF WithinLimit
<1>2. IsFiniteSet(LeasesOf(e, c)) /\ Cardinality(LeasesOf(e, c)) <= Cardinality(LeasesOf(d, c))
  BY <1>1, FS_Subset
<1>3. Cardinality(LeasesOf(d, c)) \in Nat /\ Cardinality(LeasesOf(e, c)) \in Nat /\ ClntMaxLease \in Nat
  BY <1>1, <1>2, FS_CardinalityType, ConfigAssumption
<1> QED BY <1>1, <1>2, <1>3

LEMMA LimitInit == Init => LimitInv
<1> SUFFICES ASSUME Init PROVE WithinLimit(NoDB)
  BY DEF Init, LimitInv
<1>1. \A c \in Clients : LeasesOf(NoDB, c) = {}
  BY DEF LeasesOf, NoDB
<1>2. IsFiniteSet({}) /\ Cardinality({}) = 0
  BY FS_EmptySet
<1>3. 0 <= ClntMaxLease
  BY ConfigAssumption
<1> QED BY <1>1, <1>2, <1>3 DEF WithinLimit

LEMMA LimitStep == TypeOK /\ LimitInv /\ [Next]_vars => LimitInv'
<1> SUFFICES ASSUME TypeOK, LimitInv, [Next]_vars PROVE LimitInv'
  OBVIOUS
<1>0. LeasesStep /\ DiskStep /\ WithinLimit(db) /\ WithinLimit(disk.db)
  BY StepEffects DEF LimitInv
<1>1. WithinLimit(disk'.db)
  <2>1. CASE DOMAIN disk'.db \subseteq DOMAIN disk.db
    BY <1>0, <2>1, LimitOfFewer DEF LeasesOf
  <2>2. CASE DOMAIN disk'.db \subseteq DOMAIN db
    BY <1>0, <2>2, LimitOfFewer DEF LeasesOf
  <2> QED BY <1>0, <2>1, <2>2 DEF DiskStep
<1>2. CASE DOMAIN db' \subseteq DOMAIN db
  <2>1. WithinLimit(db')
    BY <1>0, <1>2, LimitOfFewer DEF LeasesOf
  <2> QED BY <1>1, <2>1 DEF LimitInv
<1>3. ASSUME NEW b \in DOMAIN db, DOMAIN db' \subseteq DOMAIN db \cup {Quarantine(b)}
      PROVE  WithinLimit(db')
  <2>1. Quarantine(b).duid \notin Clients
    BY NamesAssumption DEF Quarantine, Binding
  <2>2. \A c \in Clients : LeasesOf(db', c) \subseteq LeasesOf(db, c)
    BY <1>3, <2>1 DEF LeasesOf
  <2> QED BY <1>0, <2>2, LimitOfFewer
<1>4. ASSUME NEW a, Granted(a)
      PROVE  WithinLimit(db')
  <2> DEFINE x == Binding(msg.duid, Head(msg.ias).iaid, a)
  <2>1. DOMAIN db' = DOMAIN db \cup {x} /\ x.duid = msg.duid /\ Cardinality(LeasesOf(db, msg.duid)) < ClntMaxLease
    BY <1>4 DEF Granted, MayHaveMore, LeaseCount, LeasesOf, Binding
  <2> HIDE DEF x
  <2> SUFFICES ASSUME NEW c \in Clients
               PROVE  IsFiniteSet(LeasesOf(db', c)) /\ Cardinality(LeasesOf(db', c)) <= ClntMaxLease
    BY DEF WithinLimit
  <2>2. IsFiniteSet(LeasesOf(db, c)) /\ Cardinality(LeasesOf(db, c)) <= ClntMaxLease
    BY <1>0 DEF WithinLimit
  <2>3. CASE c = msg.duid
    <3>1. LeasesOf(db', c) = LeasesOf(db, c) \cup {x}
      BY <2>1, <2>3 DEF LeasesOf
    <3>2. IsFiniteSet(LeasesOf(db', c)) /\ Cardinality(LeasesOf(db', c)) <= Cardinality(LeasesOf(db, c)) + 1
      BY <2>2, <3>1, FS_AddElement, FS_CardinalityType
    <3>3. Cardinality(LeasesOf(db', c)) \in Nat /\ Cardinality(LeasesOf(db, c)) \in Nat /\ ClntMaxLease \in Nat
      BY <2>2, <3>2, FS_CardinalityType, ConfigAssumption
    <3> QED BY <2>1, <2>3, <3>2, <3>3
  <2>4. CASE c # msg.duid
    <3>1. LeasesOf(db', c) = LeasesOf(db, c)
      BY <2>1, <2>4 DEF LeasesOf
    <3> QED BY <2>2, <3>1
  <2> QED BY <2>3, <2>4
<1> QED BY <1>0, <1>1, <1>2, <1>3, <1>4 DEF LimitInv, LeasesStep

(* No client has more leases than client-max-lease, neither in memory nor in   *)
(* the file a restart reads, through declines, ADVERTISEs and crashes.        *)
THEOREM LimitRespected == Spec => []LeaseLimit
<1>1. LimitInv => LeaseLimit
  BY DEF LimitInv, WithinLimit, LeasesOf, LeaseLimit, Store
<1>2. Spec => []TypeOK
  BY TypeCorrect
<1> QED BY <1>1, <1>2, LimitInit, LimitStep, PTL DEF Spec

-----------------------------------------------------------------------------
(* The cache                                                                 *)

(* The first entry with a property is there, when there is one. *)
LEMMA FirstOfSet ==
  ASSUME NEW S \in SUBSET (Nat \ {0})
  PROVE  (S = {} => FirstOf(S) = 0) /\ (S # {} => FirstOf(S) \in S)
BY MinInSet DEF FirstOf

(* A cache without one of its entries. *)
LEMMA WithoutElements ==
  ASSUME NEW ch \in Seq(CacheEntries), NEW i
  PROVE  LET r == Without(ch, i) IN
           /\ r \in Seq(CacheEntries) /\ Len(r) <= Len(ch)
           /\ i \notin DOMAIN ch => r = ch
           /\ i \in DOMAIN ch =>
                /\ Len(r) = Len(ch) - 1
                /\ \A k \in 1 .. Len(r) : r[k] = IF k < i THEN ch[k] ELSE ch[k + 1]
<1> DEFINE r == Without(ch, i)
<1>1. Len(ch) \in Nat /\ DOMAIN ch = 1 .. Len(ch) /\ r \in Seq(CacheEntries)
  BY LenProperties, WithoutType
<1>2. CASE i \notin DOMAIN ch
  <2>1. r = ch
    BY <1>2 DEF Without
  <2> HIDE DEF r
  <2>2. Len(r) <= Len(ch)
    BY <1>1, <2>1
  <2> QED BY <1>1, <1>2, <2>1, <2>2, Zenon DEF r
<1>3. CASE i \in DOMAIN ch
  <2> DEFINE front == SubSeq(ch, 1, i - 1)
             back == SubSeq(ch, i + 1, Len(ch))
  <2>1. i \in 1 .. Len(ch) /\ i \in Nat
    BY <1>1, <1>3
  <2>2. /\ front \in Seq(CacheEntries) /\ Len(front) = i - 1
        /\ \A k \in 1 .. i - 1 : front[k] = ch[k]
    BY <1>1, <2>1, SubSeqProperties
  <2>3. /\ back \in Seq(CacheEntries) /\ Len(back) = Len(ch) - i
        /\ \A k \in 1 .. Len(ch) - i : back[k] = ch[k + i]
    <3>1. /\ i + 1 \in 1 .. Len(ch) + 1 /\ Len(ch) \in i + 1 - 1 .. Len(ch)
          /\ Len(ch) - (i + 1) + 1 = Len(ch) - i
      BY <1>1, <2>1
    <3>2. /\ back \in Seq(CacheEntries)
          /\ Len(back) = IF i + 1 <= Len(ch) THEN Len(ch) - (i + 1) + 1 ELSE 0
          /\ \A k \in 1 .. Len(ch) - (i + 1) + 1 : back[k] = ch[(i + 1) + k - 1]
      BY <3>1, SubSeqProperties
    <3>3. \A k \in 1 .. Len(ch) - i : (i + 1) + k - 1 = k + i
      BY <1>1, <2>1
    <3> HIDE DEF back
    <3>4. Len(back) = Len(ch) - i
      <4> DEFINE n == Len(ch)
                 m == Len(back)
      <4>1. n \in Nat /\ i \in 1 .. n /\ m = IF i + 1 <= n THEN n - (i + 1) + 1 ELSE 0
        BY <1>1, <2>1, <3>2
      <4> HIDE DEF n, m
      <4>2. m = n - i
        BY <4>1
      <4> QED BY <4>2, Zenon DEF n, m
    <3>5. ASSUME NEW k \in 1 .. Len(ch) - i PROVE back[k] = ch[k + i]
      <4>1. back[k] = ch[(i + 1) + k - 1]
        BY <3>1, <3>2
      <4> QED BY <3>3, <4>1
    <3> QED BY <3>2, <3>4, <3>5
  <2>4. r = front \o back
    BY <1>3 DEF Without, RemoveAt
  <2> HIDE DEF r, front, back
  <2>5. /\ Len(r) = Len(front) + Len(back)
        /\ \A k \in 1 .. Len(front) + Len(back) :
             r[k] = IF k <= Len(front) THEN front[k] ELSE back[k - Len(front)]
    BY <2>2, <2>3, <2>4, ConcatProperties
  <2>6. Len(r) = Len(ch) - 1
    BY <1>1, <2>1, <2>2, <2>3, <2>5
  <2>7. ASSUME NEW k \in 1 .. Len(r) PROVE r[k] = IF k < i THEN ch[k] ELSE ch[k + 1]
    <3>1. k \in 1 .. Len(front) + Len(back) /\ k \in Nat
      BY <1>1, <2>1, <2>2, <2>3, <2>6
    <3>2. CASE k < i
      BY <2>1, <2>2, <2>5, <3>1, <3>2
    <3>3. CASE ~(k < i)
      <4>1. ~(k <= Len(front)) /\ k - Len(front) \in 1 .. Len(ch) - i /\ (k - Len(front)) + i = k + 1
        BY <1>1, <2>1, <2>2, <2>6, <3>1, <3>3
      <4> QED BY <2>3, <2>5, <3>1, <3>3, <4>1
    <3> QED BY <3>2, <3>3
  <2> QED BY <1>1, <1>3, <2>6, <2>7 DEF r
<1> QED BY <1>2, <1>3

(* At most CacheMaxSize entries, one per client. *)
OneEach(ch) == \A i, j \in 1 .. Len(ch) : ch[i].duid = ch[j].duid => i = j
Bounded(ch) == ch \in Seq(CacheEntries) /\ Len(ch) <= CacheMaxSize /\ OneEach(ch)

LEMMA WithoutBounded ==
  ASSUME NEW ch, Bounded(ch), NEW i
  PROVE  Bounded(Without(ch, i))
<1> DEFINE r == Without(ch, i)
<1>1. ch \in Seq(CacheEntries) /\ Len(ch) \in Nat /\ DOMAIN ch = 1 .. Len(ch) /\ OneEach(ch)
  BY LenProperties DEF Bounded
<1>2. CASE i \notin DOMAIN ch
  BY <1>1, <1>2, WithoutElements
<1>3. CASE i \in DOMAIN ch
  <2>1. /\ r \in Seq(CacheEntries) /\ Len(r) = Len(ch) - 1
        /\ \A k \in 1 .. Len(r) : r[k] = IF k < i THEN ch[k] ELSE ch[k + 1]
    BY <1>1, <1>3, WithoutElements
  <2> HIDE DEF r
  <2>2. OneEach(r)
    <3> SUFFICES ASSUME NEW j \in 1 .. Len(r), NEW k \in 1 .. Len(r), r[j].duid = r[k].duid
                 PROVE  j = k
      BY DEF OneEach
    <3> DEFINE at(n) == IF n < i THEN n ELSE n + 1
    <3>1. at(j) \in 1 .. Len(ch) /\ at(k) \in 1 .. Len(ch) /\ r[j] = ch[at(j)] /\ r[k] = ch[at(k)]
      BY <1>1, <1>3, <2>1
    <3>2. at(j) = at(k)
      BY <1>1, <3>1 DEF OneEach
    <3> QED BY <1>1, <1>3, <3>2
  <2>3. Len(r) <= CacheMaxSize
    BY <1>1, <2>1, ConfigAssumption DEF Bounded
  <2> QED BY <2>1, <2>2, <2>3 DEF Bounded, r
<1> QED BY <1>2, <1>3

(* After its entry is taken out, a client has none. *)
LEMMA NoneLeft ==
  ASSUME NEW ch, Bounded(ch), NEW c
  PROVE  \A k \in 1 .. Len(Without(ch, EntryOf(ch, c))) : Without(ch, EntryOf(ch, c))[k].duid # c
<1> DEFINE S == {i \in DOMAIN ch : ch[i].duid = c}
           e == EntryOf(ch, c)
           r == Without(ch, e)
<1>1. ch \in Seq(CacheEntries) /\ Len(ch) \in Nat /\ DOMAIN ch = 1 .. Len(ch) /\ OneEach(ch)
  BY LenProperties DEF Bounded
<1>2. e = FirstOf(S) /\ S \in SUBSET (Nat \ {0})
  BY <1>1 DEF EntryOf
<1>3. (S = {} => e = 0) /\ (S # {} => e \in S)
  <2> HIDE DEF S, e
  <2> QED BY <1>2, FirstOfSet
<1>4. CASE S = {}
  <2>1. e \notin DOMAIN ch
    BY <1>1, <1>3, <1>4
  <2>2. r = ch
    <3> HIDE DEF e
    <3> QED BY <1>1, <2>1, WithoutElements
  <2> QED BY <1>1, <1>4, <2>2
<1>5. CASE S # {}
  <2>1. e \in DOMAIN ch /\ ch[e].duid = c
    BY <1>3, <1>5
  <2> HIDE DEF e
  <2>2. /\ Len(r) = Len(ch) - 1
        /\ \A k \in 1 .. Len(r) : r[k] = IF k < e THEN ch[k] ELSE ch[k + 1]
    BY <1>1, <2>1, WithoutElements
  <2> HIDE DEF r
  <2>3. ASSUME NEW k \in 1 .. Len(r) PROVE r[k].duid # c
    <3> DEFINE at == IF k < e THEN k ELSE k + 1
    <3>1. at \in 1 .. Len(ch) /\ at # e /\ r[k] = ch[at]
      BY <1>1, <2>1, <2>2
    <3> QED BY <1>1, <2>1, <3>1 DEF OneEach
  <2> QED BY <2>3 DEF r, e
<1> QED BY <1>4, <1>5

LEMMA WithCachedBounded ==
  ASSUME NEW ch, Bounded(ch), NEW c \in DUIDs, NEW a \in Addrs
  PROVE  Bounded(WithCached(ch, c, a))
<1> DEFINE r == Without(ch, EntryOf(ch, c))
           entry == [duid |-> c, addr |-> a]
           l == Append(r, entry)
<1>1. CASE CacheMaxSize = 0
  BY <1>1 DEF WithCached
<1>2. CASE CacheMaxSize # 0
  <2>1. Bounded(r) /\ \A k \in 1 .. Len(r) : r[k].duid # c
    BY WithoutBounded, NoneLeft
  <2>2. entry \in CacheEntries /\ entry.duid = c
    BY DEF CacheEntries
  <2> HIDE DEF r, entry
  <2>3. r \in Seq(CacheEntries) /\ Len(r) \in Nat /\ Len(r) <= CacheMaxSize /\ OneEach(r)
    BY <2>1, LenProperties DEF Bounded
  <2>4. /\ l \in Seq(CacheEntries) /\ Len(l) = Len(r) + 1 /\ l # <<>>
        /\ \A k \in 1 .. Len(r) : l[k] = r[k] /\ l[Len(r) + 1] = entry
    BY <2>2, <2>3, AppendProperties
  <2>5. l[Len(r) + 1] = entry
    BY <2>2, <2>3, AppendProperties
  <2> HIDE DEF l
  <2>6. OneEach(l)
    <3> SUFFICES ASSUME NEW j \in 1 .. Len(l), NEW k \in 1 .. Len(l), l[j].duid = l[k].duid
                 PROVE  j = k
      BY DEF OneEach
    <3>1. \A n \in 1 .. Len(l) : n \in 1 .. Len(r) \/ n = Len(r) + 1
      BY <2>3, <2>4
    <3> QED BY <2>1, <2>2, <2>3, <2>4, <2>5, <3>1 DEF OneEach
  <2>7. WithCached(ch, c, a) = Evicted(l)
    BY <1>2 DEF WithCached, l, r, entry
  <2>8. CASE Len(l) > CacheMaxSize
    <3>1. /\ Tail(l) \in Seq(CacheEntries) /\ Len(Tail(l)) = Len(r)
          /\ \A k \in 1 .. Len(Tail(l)) : Tail(l)[k] = l[k + 1]
      BY <2>3, <2>4, HeadTailProperties
    <3>2. OneEach(Tail(l))
      <4> SUFFICES ASSUME NEW j \in 1 .. Len(r), NEW k \in 1 .. Len(r), Tail(l)[j].duid = Tail(l)[k].duid
                   PROVE  j = k
        BY <3>1 DEF OneEach
      <4>1. j + 1 \in 1 .. Len(l) /\ k + 1 \in 1 .. Len(l)
        BY <2>3, <2>4
      <4>2. j + 1 = k + 1
        BY <2>6, <3>1, <4>1 DEF OneEach
      <4> QED BY <2>3, <4>2
    <3> QED BY <2>3, <2>7, <2>8, <3>1, <3>2 DEF Evicted, Bounded
  <2>9. CASE ~(Len(l) > CacheMaxSize)
    BY <2>3, <2>4, <2>6, <2>7, <2>9, ConfigAssumption DEF Evicted, Bounded
  <2> QED BY <2>8, <2>9
<1> QED BY <1>1, <1>2

LEMMA BeginsBounded ==
  ASSUME NEW ch, Bounded(ch), NEW c, Begins(c, ch)
  PROVE  Bounded(c)
<1>1. Len(c) \in Nat /\ Len(ch) \in Nat /\ Len(c) <= Len(ch) /\ Len(ch) <= CacheMaxSize /\ CacheMaxSize \in Nat
  BY LenProperties, ConfigAssumption DEF Begins, Bounded
<1>2. Len(c) <= CacheMaxSize /\ 1 .. Len(c) \subseteq 1 .. Len(ch)
  BY <1>1
<1>3. OneEach(c)
  BY <1>2 DEF Begins, Bounded, OneEach
<1> QED BY <1>2, <1>3 DEF Bounded, Begins

CacheInv == Bounded(cache) /\ Bounded(disk.cache)

LEMMA EmptyBounded == Bounded(<<>>)
<1>1. <<>> \in Seq(CacheEntries) /\ Len(<<>>) = 0
  OBVIOUS
<1> QED BY <1>1, ConfigAssumption DEF Bounded, OneEach

LEMMA CacheInit == Init => CacheInv
BY EmptyBounded DEF Init, CacheInv

LEMMA CacheInvStep == TypeOK /\ CacheInv /\ [Next]_vars => CacheInv'
<1> SUFFICES ASSUME TypeOK, CacheInv, [Next]_vars PROVE CacheInv'
  OBVIOUS
<1>0. CacheStep /\ DiskStep /\ Bounded(cache) /\ Bounded(disk.cache)
  BY StepEffects DEF CacheInv
<1>1. Bounded(disk'.cache)
  BY <1>0, BeginsBounded DEF DiskStep
<1>2. Bounded(CacheAfterMiss)
  BY <1>0, WithoutBounded DEF CacheAfterMiss
<1>3. \A b \in DOMAIN db : Bounded(WithCached(cache, b.duid, b.addr))
  BY <1>0, TypeFacts, WithCachedBounded
<1>4. Bounded(cache')
  BY <1>0, <1>2, <1>3, EmptyBounded DEF CacheStep
<1> QED BY <1>1, <1>4 DEF CacheInv

(* For every size the cache keeps to it, with one entry per client, although   *)
(* entries are taken out by client and by address.                            *)
THEOREM CacheKeptSmall == Spec => []CacheBounded
<1>1. CacheInv => CacheBounded
  <2> SUFFICES ASSUME CacheInv PROVE CacheBounded
    OBVIOUS
  <2>1. DOMAIN cache = 1 .. Len(cache)
    BY LenProperties DEF CacheInv, Bounded
  <2> QED BY <2>1 DEF CacheInv, Bounded, OneEach, CacheBounded
<1>2. Spec => []TypeOK
  BY TypeCorrect
<1> QED BY <1>1, <1>2, CacheInit, CacheInvStep, PTL DEF Spec

-----------------------------------------------------------------------------
(* Only supported classes                                                    *)

(* An entry for a client is an address of a class that accepts it. *)
EntryFits(e) == e.duid \in Clients => PoolOf[e.addr] \in Supported[e.duid]
DBFits(d) == \A b \in DOMAIN d : EntryFits(b)
CacheFits(ch) == \A k \in DOMAIN ch : EntryFits(ch[k])
FitInv == DBFits(db) /\ DBFits(disk.db) /\ CacheFits(cache) /\ CacheFits(disk.cache)

LEMMA WithoutFits ==
  ASSUME NEW ch \in Seq(CacheEntries), CacheFits(ch), NEW i
  PROVE  CacheFits(Without(ch, i))
<1> DEFINE r == Without(ch, i)
<1>1. Len(ch) \in Nat /\ DOMAIN ch = 1 .. Len(ch)
  BY LenProperties
<1>2. CASE i \notin DOMAIN ch
  BY <1>2, WithoutElements
<1>3. CASE i \in DOMAIN ch
  <2>1. /\ r \in Seq(CacheEntries) /\ Len(r) = Len(ch) - 1
        /\ \A k \in 1 .. Len(r) : r[k] = IF k < i THEN ch[k] ELSE ch[k + 1]
    BY <1>3, WithoutElements
  <2> HIDE DEF r
  <2>2. DOMAIN r = 1 .. Len(r)
    BY <2>1, LenProperties
  <2>3. ASSUME NEW k \in 1 .. Len(r) PROVE EntryFits(r[k])
    <3>1. (IF k < i THEN k ELSE k + 1) \in DOMAIN ch
      BY <1>1, <1>3, <2>1
    <3> QED BY <1>3, <2>1, <3>1 DEF CacheFits
  <2> QED BY <2>2, <2>3 DEF CacheFits, r
<1> QED BY <1>2, <1>3

LEMMA WithCachedFits ==
  ASSUME NEW ch \in Seq(CacheEntries), CacheFits(ch), NEW c \in DUIDs, NEW a \in Addrs,
         c \in Clients => PoolOf[a] \in Supported[c]
  PROVE  CacheFits(WithCached(ch, c, a))
<1> DEFINE r == Without(ch, EntryOf(ch, c))
           entry == [duid |-> c, addr |-> a]
           l == Append(r, entry)
<1>1. CASE CacheMaxSize = 0
  BY <1>1 DEF WithCached
<1>2. CASE CacheMaxSize # 0
  <2>1. r \in Seq(CacheEntries) /\ CacheFits(r)
    BY WithoutType, WithoutFits
  <2>2. entry \in CacheEntries /\ EntryFits(entry)
    BY DEF CacheEntries, EntryFits
  <2>3. WithCached(ch, c, a) = Evicted(l)
    BY <1>2 DEF WithCached
  <2> HIDE DEF r, entry
  <2>4. DOMAIN r = 1 .. Len(r) /\ Len(r) \in Nat
    BY <2>1, LenProperties
  <2>5. /\ l \in Seq(CacheEntries) /\ Len(l) = Len(r) + 1 /\ l # <<>>
        /\ \A k \in 1 .. Len(r) : l[k] = r[k]
    BY <2>1, <2>2, AppendProperties
  <2>6. l[Len(r) + 1] = entry /\ DOMAIN l = 1 .. Len(l)
    BY <2>1, <2>2, <2>5, AppendProperties, LenProperties
  <2> HIDE DEF l
  <2>7. CacheFits(l)
    <3>1. \A k \in 1 .. Len(l) : k \in 1 .. Len(r) \/ k = Len(r) + 1
      BY <2>4, <2>5
    <3> QED BY <2>1, <2>2, <2>4, <2>5, <2>6, <3>1 DEF CacheFits
  <2>8. CacheFits(Tail(l))
    <3>1. /\ Tail(l) \in Seq(CacheEntries) /\ Len(Tail(l)) = Len(r)
          /\ \A k \in 1 .. Len(Tail(l)) : Tail(l)[k] = l[k + 1]
      BY <2>4, <2>5, HeadTailProperties
    <3>2. DOMAIN Tail(l) = 1 .. Len(r)
      BY <3>1, LenProperties
    <3>3. \A k \in 1 .. Len(r) : k + 1 \in DOMAIN l
      BY <2>4, <2>5, <2>6
    <3> QED BY <2>7, <3>1, <3>2, <3>3 DEF CacheFits
  <2> QED BY <2>3, <2>7, <2>8 DEF Evicted
<1> QED BY <1>1, <1>2

(* The cached address of a client is of a class that accepts it. *)
LEMMA CachedFits ==
  ASSUME TypeOK, CacheFits(cache), CachedUsable, msg.duid \in Clients
  PROVE  PoolOf[cache[CachedEntry].addr] \in Supported[msg.duid]
<1> DEFINE S == {i \in DOMAIN cache : cache[i].duid = msg.duid}
<1>1. cache \in Seq(CacheEntries) /\ DOMAIN cache = 1 .. Len(cache) /\ Len(cache) \in Nat
  BY LenProperties DEF TypeOK
<1>2. CachedEntry = FirstOf(S) /\ CachedEntry # 0 /\ S \in SUBSET (Nat \ {0})
  BY <1>1 DEF CachedUsable, CachedEntry, EntryOf
<1>3. CachedEntry \in S
  <2> HIDE DEF S
  <2> QED BY <1>2, FirstOfSet
<1>4. CachedEntry \in DOMAIN cache /\ cache[CachedEntry].duid = msg.duid
  BY <1>3
<1> QED BY <1>4 DEF CacheFits, EntryFits

LEMMA FitInit == Init => FitInv
BY DEF Init, FitInv, DBFits, CacheFits, NoDB

LEMMA FitStep == TypeOK /\ FitInv /\ [Next]_vars => FitInv'
<1> SUFFICES ASSUME TypeOK, FitInv, [Next]_vars PROVE FitInv'
  OBVIOUS
<1>0. /\ LeasesStep /\ CacheStep /\ DiskStep
      /\ DBFits(db) /\ DBFits(disk.db) /\ CacheFits(cache) /\ CacheFits(disk.cache)
      /\ cache \in Seq(CacheEntries)
  BY StepEffects DEF FitInv, TypeOK
<1>1. DBFits(disk'.db) /\ CacheFits(disk'.cache)
  <2>1. ASSUME Begins(disk'.cache, cache)
        PROVE  CacheFits(disk'.cache)
    <3>1. Len(disk'.cache) \in Nat /\ Len(cache) \in Nat /\ Len(disk'.cache) <= Len(cache)
      BY <1>0, <2>1, LenProperties DEF Begins
    <3>2. 1 .. Len(disk'.cache) \subseteq 1 .. Len(cache)
      BY <3>1
    <3>3. DOMAIN disk'.cache = 1 .. Len(disk'.cache) /\ DOMAIN cache = 1 .. Len(cache)
      BY <1>0, <2>1, LenProperties DEF Begins
    <3> QED BY <1>0, <2>1, <3>2, <3>3 DEF CacheFits, Begins
  <2> QED BY <1>0, <2>1 DEF DiskStep, DBFits
<1>2. CacheFits(CacheAfterMiss)
  BY <1>0, WithoutFits DEF CacheAfterMiss
<1>3. ASSUME NEW b \in DOMAIN db PROVE CacheFits(WithCached(cache, b.duid, b.addr))
  <2>1. b.duid \in DUIDs /\ b.addr \in Addrs
    BY TypeFacts
  <2>2. b.duid \in Clients => PoolOf[b.addr] \in Supported[b.duid]
    BY <1>0 DEF DBFits, EntryFits
  <2> QED BY <1>0, <2>1, <2>2, WithCachedFits
<1>4. CacheFits(cache')
  <2>1. CacheFits(<<>>)
    BY DEF CacheFits
  <2> QED BY <1>0, <1>2, <1>3, <2>1 DEF CacheStep
<1>5. ASSUME NEW b \in DOMAIN db, DOMAIN db' \subseteq DOMAIN db \cup {Quarantine(b)}
      PROVE  DBFits(db')
  <2>1. EntryFits(Quarantine(b))
    BY NamesAssumption DEF Quarantine, Binding, EntryFits
  <2> QED BY <1>0, <1>5, <2>1 DEF DBFits
<1>6. ASSUME NEW a, Granted(a) PROVE DBFits(db')
  <2> DEFINE x == Binding(msg.duid, Head(msg.ias).iaid, a)
  <2>1. msg.duid \in Clients
    BY <1>6 DEF Granted, Messages
  <2>2. PoolOf[a] \in Supported[msg.duid]
    BY <1>0, <1>6, <2>1, CachedFits DEF Granted
  <2>3. EntryFits(x)
    BY <2>2 DEF EntryFits, Binding
  <2>4. DOMAIN db' = DOMAIN db \cup {x}
    BY <1>6 DEF Granted
  <2> HIDE DEF x
  <2> QED BY <1>0, <2>3, <2>4 DEF DBFits
<1>7. DBFits(db')
  <2>1. CASE DOMAIN db' \subseteq DOMAIN db
    BY <1>0, <2>1 DEF DBFits
  <2>2. CASE db' = disk.db
    BY <1>0, <2>2
  <2> QED BY <1>0, <1>5, <1>6, <2>1, <2>2 DEF LeasesStep
<1> QED BY <1>1, <1>4, <1>7 DEF FitInv

(* A client has leases only in classes that accept it, also through the cache,  *)
(* which does not say for whom an address was fit, and through the file.      *)
THEOREM OnlySupportedClasses == Spec => []SupportedOnly
<1>1. FitInv => SupportedOnly
  BY DEF FitInv, DBFits, EntryFits, SupportedOnly
<1>2. Spec => []TypeOK
  BY TypeCorrect
<1> QED BY <1>1, <1>2, FitInit, FitStep, PTL DEF Spec
=============================================================================
