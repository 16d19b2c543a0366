---------------------------- MODULE SrvPDProofs ----------------------------
(***************************************************************************)
(* Proofs about SrvPD for every value of its constants: types, the usage     *)
(* counter, reserved prefixes, and the promises of assignments and RENEW.    *)
(***************************************************************************)
EXTENDS SrvPD, FiniteSetTheorems, TLAPS

(* Only finitely many prefixes are leased: what Cardinality needs. *)
Finite == IsFiniteSet(DOMAIN db)
IInv == TypeOK /\ Finite /\ CountersCover

-----------------------------------------------------------------------------
(* The counting of prefixes *)

LEMMA CountedSubset ==
  ASSUME NEW S, IsFiniteSet(S), NEW T, T \subseteq S
  PROVE  /\ Counted(S) \in Nat /\ Counted(T) \in Nat
         /\ Counted(S \ T) = Counted(S) - Counted(T)
<1> DEFINE C(bs) == {b \in bs : InPool(b.prefix)}
<1>1. IsFiniteSet(C(S)) /\ IsFiniteSet(C(T))
  BY FS_Subset
<1>2. C(S \ T) = C(S) \ C(T) /\ C(S) \cap C(T) = C(T)
  OBVIOUS
<1>3. Cardinality(C(S) \ C(T)) = Cardinality(C(S)) - Cardinality(C(S) \cap C(T))
  BY <1>1, FS_Difference
<1>4. Cardinality(C(S)) \in Nat /\ Cardinality(C(T)) \in Nat
  BY <1>1, FS_CardinalityType
<1> QED BY <1>2, <1>3, <1>4 DEF Counted

LEMMA CountedUnion ==
  ASSUME NEW S, IsFiniteSet(S), NEW T, IsFiniteSet(T)
  PROVE  /\ Counted(S) \in Nat /\ Counted(T) \in Nat /\ Counted(S \cup T) \in Nat
         /\ Counted(S \cup T) <= Counted(S) + Counted(T)
<1> DEFINE C(bs) == {b \in bs : InPool(b.prefix)}
<1>1. IsFiniteSet(C(S)) /\ IsFiniteSet(C(T))
  BY FS_Subset
<1>2. C(S \cup T) = C(S) \cup C(T)
  OBVIOUS
<1>3. /\ IsFiniteSet(C(S) \cup C(T)) /\ IsFiniteSet(C(S) \cap C(T))
      /\ Cardinality(C(S) \cup C(T))
           = Cardinality(C(S)) + Cardinality(C(T)) - Cardinality(C(S) \cap C(T))
  BY <1>1, FS_Union, FS_Intersection
<1>4. /\ Cardinality(C(S)) \in Nat /\ Cardinality(C(T)) \in Nat
      /\ Cardinality(C(S) \cap C(T)) \in Nat /\ Cardinality(C(S) \cup C(T)) \in Nat
  BY <1>1, <1>3, FS_CardinalityType
<1>5. /\ Counted(S) = Cardinality(C(S)) /\ Counted(T) = Cardinality(C(T))
      /\ Counted(S \cup T) = Cardinality(C(S) \cup C(T))
  BY <1>2 DEF Counted
<1> HIDE DEF C
<1> QED BY <1>3, <1>4, <1>5

-----------------------------------------------------------------------------
(* What may be assigned *)

LEMMA MaxOfTwo ==
  ASSUME NEW n \in Int, NEW k \in Int
  PROVE  Max({n, k}) = IF n >= k THEN n ELSE k
<1>1. \E x \in {n, k} : \A y \in {n, k} : x >= y
  OBVIOUS
<1> QED BY <1>1 DEF Max

LEMMA PartsDrawnType == assigned \in Nat => PartsDrawn \subseteq 0 .. NParts - 1
<1>1. NParts \div 2 \in Nat /\ (NParts \div 2) * 2 <= NParts /\ NParts \in Nat \ {0}
  BY PDConfigAssumption
<1>2. Half = IF 1 >= NParts \div 2 THEN 1 ELSE NParts \div 2
  BY <1>1, MaxOfTwo DEF Half
<1>3. Half \in 1 .. NParts
  BY <1>1, <1>2
<1> QED BY <1>1, <1>3 DEF PartsDrawn

(* A sequence of prefixes that may be assigned to an IA that has none: each is *)
(* free, or it is the one reserved for the client.                            *)
Assignable(c, ps) ==
  /\ \E n \in 1 .. NPools : ps \in [1 .. n -> PDPrefixes] /\ Len(ps) = n
  /\ \A k \in DOMAIN ps : PrefixIsFree(ps[k]) \/ FixedPrefix[c] = ps[k]

LEMMA OneIsAssignable ==
  ASSUME NEW c, NEW p \in PDPrefixes, PrefixIsFree(p) \/ FixedPrefix[c] = p
  PROVE  Assignable(c, <<p>>)
<1>1. 1 \in 1 .. NPools
  BY PDConfigAssumption
<1>2. <<p>> \in [1 .. 1 -> PDPrefixes] /\ Len(<<p>>) = 1
  OBVIOUS
<1> QED BY <1>1, <1>2 DEF Assignable

LEMMA AssignmentsAssignable ==
  ASSUME TypeOK, NEW c \in Clients, NEW i \in IAIDs, NEW h \in Hints,
         NEW ps \in Assignments(c, i, h)
  PROVE  Assignable(c, ps) /\ NoBinding(c, i)
<1>1. CASE ps \in FixedChoice(c, i)
  <2>1. ps = <<FixedPrefix[c]>> /\ NoBinding(c, i) /\ FixedPrefix[c] # NoPrefix
    BY <1>1 DEF FixedChoice
  <2>2. FixedPrefix[c] \in PDPrefixes
    BY <2>1, PDConfigAssumption
  <2> QED BY <2>1, <2>2, OneIsAssignable
<1>2. CASE ps \in HintChoice(c, i, h)
  <2>1. NoBinding(c, i) /\ HintValid(c, h)
    BY <1>2 DEF HintChoice, NotFull, MayHaveMore, NotFixed
  <2>2. \E p \in PDPrefixes : ps = <<p>> /\ PrefixIsFree(p)
    BY <1>2, <2>1 DEF HintChoice, HintValid, AnyOfFirstPool
  <2> QED BY <2>1, <2>2, OneIsAssignable
<1>3. CASE ps \in RandomChoice(c, i, h)
  <2>1. NoBinding(c, i) /\ AllFree(ps) /\ \E n \in PartsDrawn : ps = OneOfEach(n)
    BY <1>3 DEF RandomChoice, NotFull, MayHaveMore, NotFixed
  <2>2. PICK n \in PartsDrawn : ps = OneOfEach(n)
    BY <2>1
  <2>3. n \in 0 .. NParts - 1
    BY <2>2, PartsDrawnType DEF TypeOK
  <2>4. ps \in [1 .. NPools -> PDPrefixes]
    BY <2>2, <2>3, PDConfigAssumption DEF OneOfEach, PDPrefixes
  <2>5. Len(ps) = NPools
    BY <2>2, PDConfigAssumption DEF OneOfEach
  <2> QED BY <2>1, <2>4, <2>5, PDConfigAssumption DEF Assignable, AllFree
<1> QED BY <1>1, <1>2, <1>3 DEF Assignments

LEMMA AssignableFacts ==
  ASSUME NEW c \in Clients, NEW i \in IAIDs, NEW ps, Assignable(c, ps)
  PROVE  /\ Range(ps) \subseteq PDPrefixes /\ Last(ps) \in PDPrefixes
         /\ IsFiniteSet({Binding(c, i, p) : p \in Range(ps)})
         /\ IsFiniteSet(Range(ps)) /\ Cardinality(Range(ps)) <= NPools
         /\ {Binding(c, i, p) : p \in Range(ps)} \subseteq Bindings
<1>1. PICK n \in 1 .. NPools : ps \in [1 .. n -> PDPrefixes] /\ Len(ps) = n
  BY DEF Assignable
<1> DEFINE T == {Binding(c, i, p) : p \in Range(ps)}
           f == [k \in 1 .. n |-> Binding(c, i, ps[k])]
<1>2. f \in Surjection(1 .. n, T)
  BY <1>1 DEF Surjection, Range
<1>3. IsFiniteSet(1 .. n)
  BY FS_Interval
<1>4. IsFiniteSet(T)
  BY <1>2, <1>3, FS_Surjection
<1>5. Range(ps) \subseteq PDPrefixes /\ Last(ps) \in PDPrefixes
  BY <1>1 DEF Range, Last
<1>6. T \subseteq Bindings
  BY <1>5 DEF Binding, Bindings
<1>7. ps \in Surjection(1 .. n, Range(ps))
  BY <1>1 DEF Surjection, Range
<1>8. IsFiniteSet(Range(ps)) /\ Cardinality(Range(ps)) <= Cardinality(1 .. n)
  BY <1>3, <1>7, FS_Surjection
<1>9. Cardinality(1 .. n) = n /\ n <= NPools /\ Cardinality(Range(ps)) \in Nat
  BY <1>1, <1>8, FS_Interval, FS_CardinalityType, PDConfigAssumption
<1>10. Cardinality(Range(ps)) <= NPools
  BY <1>8, <1>9, PDConfigAssumption
<1> HIDE DEF T
<1>11. T = {Binding(c, i, p) : p \in Range(ps)}
  BY DEF T
<1> QED BY <1>4, <1>5, <1>6, <1>8, <1>10, <1>11

-----------------------------------------------------------------------------
(* Types, and the counter, which has to cover the leases to stay a number.    *)

LEMMA InitIInv == Init => IInv
<1> SUFFICES ASSUME Init PROVE IInv
  OBVIOUS
<1>1. DOMAIN db = {} /\ DOMAIN held = {}
  BY DEF Init, NoDB
<1>2. Counted({}) = 0
  BY FS_EmptySet DEF Counted
<1>3. IsFiniteSet({})
  BY FS_EmptySet
<1> QED BY <1>1, <1>2, <1>3 DEF Init, NoDB, NoCache, IInv, TypeOK, Finite, CountersCover

LEMMA BelievedType ==
  ASSUME TypeOK, NEW c \in Clients, NEW i \in IAIDs, NEW ps \in SUBSET PDPrefixes,
         NEW fresh \in BOOLEAN,
         held' = Believed(c, i, ps, Valid, fresh)
  PROVE  DOMAIN held' \subseteq Bindings
         /\ held' \in [DOMAIN held' -> [left : 1 .. Valid, fresh : BOOLEAN]]
<1> DEFINE told == {Binding(c, i, p) : p \in ps}
<1>1. told \subseteq Bindings
  BY DEF Binding, Bindings
<1>2. [left |-> Valid, fresh |-> fresh] \in [left : 1 .. Valid, fresh : BOOLEAN]
  BY PDConfigAssumption
<1> HIDE DEF told
<1>3. held' = [b \in DOMAIN held \cup told |->
                 IF b \in told THEN [left |-> Valid, fresh |-> fresh] ELSE held[b]]
  BY DEF Believed, told
<1> QED BY <1>1, <1>2, <1>3 DEF TypeOK

(* Leases that end, with a counter that is lowered by no more than them.      *)
LEMMA RemovalKeeps ==
  ASSUME IInv, NEW bs \in SUBSET DOMAIN db,
         db' = Restrict(db, DOMAIN db \ bs),
         assigned' \in {assigned, assigned - Counted(bs)}
  PROVE  /\ DOMAIN db' \subseteq Bindings /\ db' \in [DOMAIN db' -> 0 .. Valid]
         /\ assigned' \in Nat /\ Finite' /\ CountersCover'
<1>1. DOMAIN db' = DOMAIN db \ bs /\ db' \in [DOMAIN db \ bs -> 0 .. Valid]
  BY DEF Restrict, IInv, TypeOK
<1>2. Counted(DOMAIN db) \in Nat /\ Counted(bs) \in Nat
      /\ Counted(DOMAIN db \ bs) = Counted(DOMAIN db) - Counted(bs)
      /\ Counted(DOMAIN db \ bs) \in Nat
  BY CountedSubset DEF IInv, Finite
<1>3. IsFiniteSet(DOMAIN db \ bs)
  BY FS_Subset DEF IInv, Finite
<1>4. assigned \in Nat /\ Counted(DOMAIN db) <= assigned
  BY DEF IInv, TypeOK, CountersCover
<1>5. assigned' \in Nat /\ Counted(DOMAIN db \ bs) <= assigned'
  BY <1>2, <1>4
<1> QED BY <1>1, <1>3, <1>5 DEF Finite, CountersCover, IInv, TypeOK

LEMMA RegisterKeeps ==
  ASSUME IInv, NEW c \in Clients, NEW i \in IAIDs, NEW ps, Assignable(c, ps),
         Register(c, i, ps), asking' \subseteq IAs
  PROVE  IInv'
<1> DEFINE new == {Binding(c, i, p) : p \in Range(ps)}
<1>1. new \subseteq Bindings /\ IsFiniteSet(new) /\ Range(ps) \subseteq PDPrefixes
  BY AssignableFacts
<1>2. /\ db' = [b \in DOMAIN db \cup new |-> IF b \in new THEN Valid ELSE db[b]]
      /\ assigned' = assigned + Counted(new)
      /\ held' = Believed(c, i, Range(ps), Valid, TRUE)
      /\ cache' = cache
  BY DEF Register
<1> HIDE DEF new
<1>3. DOMAIN db' = DOMAIN db \cup new
  BY <1>2
<1>4. Valid \in 0 .. Valid
  BY PDConfigAssumption
<1>5. DOMAIN db' \subseteq Bindings /\ db' \in [DOMAIN db' -> 0 .. Valid]
  BY <1>1, <1>2, <1>4 DEF IInv, TypeOK
<1>6. /\ Counted(DOMAIN db) \in Nat /\ Counted(new) \in Nat /\ Counted(DOMAIN db \cup new) \in Nat
      /\ Counted(DOMAIN db \cup new) <= Counted(DOMAIN db) + Counted(new)
  BY <1>1, CountedUnion DEF IInv, Finite
<1>7. assigned' \in Nat /\ Counted(DOMAIN db \cup new) <= assigned'
  BY <1>2, <1>6 DEF IInv, TypeOK, CountersCover
<1>8. Finite'
  BY <1>1, <1>3, FS_Union DEF IInv, Finite
<1>9. DOMAIN held' \subseteq Bindings
      /\ held' \in [DOMAIN held' -> [left : 1 .. Valid, fresh : BOOLEAN]]
  BY <1>1, <1>2, BelievedType DEF IInv
<1> QED BY <1>2, <1>3, <1>5, <1>7, <1>8, <1>9 DEF IInv, TypeOK, CountersCover

(* Nothing but the database, or nothing at all, changes its domain. *)
LEMMA SameLeasesKeep ==
  ASSUME IInv, DOMAIN db' = DOMAIN db, db' \in [DOMAIN db -> 0 .. Valid], assigned' = assigned
  PROVE  /\ DOMAIN db' \subseteq Bindings /\ db' \in [DOMAIN db' -> 0 .. Valid]
         /\ assigned' \in Nat /\ Finite' /\ CountersCover'
BY DEF IInv, TypeOK, Finite, CountersCover

LEMMA DoubtedType ==
  ASSUME TypeOK, NEW bs
  PROVE  /\ DOMAIN Doubted(bs) = DOMAIN held
         /\ Doubted(bs) \in [DOMAIN held -> [left : 1 .. Valid, fresh : BOOLEAN]]
         /\ \A b \in DOMAIN held : /\ Doubted(bs)[b].left = held[b].left
                                   /\ Doubted(bs)[b].fresh => held[b].fresh /\ b \notin bs
<1>1. \A b \in DOMAIN held : held[b] \in [left : 1 .. Valid, fresh : BOOLEAN]
  BY DEF TypeOK
<1>2. DOMAIN Doubted(bs) = DOMAIN held
  BY DEF Doubted
<1>3. ASSUME NEW b \in DOMAIN held
      PROVE  /\ Doubted(bs)[b] \in [left : 1 .. Valid, fresh : BOOLEAN]
             /\ Doubted(bs)[b].left = held[b].left
             /\ Doubted(bs)[b].fresh => held[b].fresh /\ b \notin bs
  <2>1. CASE b \in bs
    BY <1>1, <2>1 DEF Doubted
  <2>2. CASE b \notin bs
    BY <1>1, <2>2 DEF Doubted
  <2> QED BY <2>1, <2>2
<1>4. Doubted(bs) \in [DOMAIN held -> [left : 1 .. Valid, fresh : BOOLEAN]]
  BY <1>3 DEF Doubted
<1> QED BY <1>2, <1>3, <1>4, Zenon

LEMMA SolicitKeeps ==
  ASSUME IInv, NEW c \in Clients, NEW i \in IAIDs, NEW h \in Hints, Solicit(c, i, h),
         asking' \subseteq IAs
  PROVE  IInv'
<1>1. CASE UndoExisting(c, i)
  <2>1. PDOf(c, i) \in SUBSET DOMAIN db
    BY DEF PDOf
  <2>2. /\ DOMAIN db' \subseteq Bindings /\ db' \in [DOMAIN db' -> 0 .. Valid]
        /\ assigned' \in Nat /\ Finite' /\ CountersCover'
    BY <1>1, <2>1, RemovalKeeps DEF UndoExisting
  <2>3. \A b \in PDOf(c, i) : b.prefix \in PDPrefixes
    BY DEF PDOf, IInv, TypeOK, Bindings
  <2>4. held' = Doubted(PDOf(c, i)) /\ \E b \in PDOf(c, i) : cache' = [cache EXCEPT ![c] = b.prefix]
    BY <1>1 DEF UndoExisting
  <2>5. cache' \in [Clients -> PDPrefixes \cup {NoPrefix}]
    BY <2>3, <2>4 DEF IInv, TypeOK
  <2>6. DOMAIN held' \subseteq Bindings
        /\ held' \in [DOMAIN held' -> [left : 1 .. Valid, fresh : BOOLEAN]]
    <3>1. TypeOK /\ DOMAIN held \subseteq Bindings
      BY DEF IInv, TypeOK
    <3> DEFINE D == Doubted(PDOf(c, i))
    <3>2. DOMAIN D = DOMAIN held /\ D \in [DOMAIN held -> [left : 1 .. Valid, fresh : BOOLEAN]]
      BY <3>1, DoubtedType
    <3> HIDE DEF D
    <3>3. held' = D
      BY <2>4 DEF D
    <3> QED BY <3>1, <3>2, <3>3
  <2> QED BY <2>2, <2>5, <2>6 DEF IInv, TypeOK
<1>2. CASE \E ps \in Assignments(c, i, h) : UndoNew(c, ps)
  <2>1. PICK ps \in Assignments(c, i, h) : UndoNew(c, ps)
    BY <1>2
  <2>2. Last(ps) \in PDPrefixes
    BY AssignmentsAssignable, AssignableFacts DEF IInv
  <2> QED BY <2>1, <2>2 DEF UndoNew, IInv, TypeOK, Finite, CountersCover
<1>3. CASE NothingLeft(c, i, h) /\ Refuse
  BY <1>3 DEF Refuse, IInv, TypeOK, Finite, CountersCover
<1> QED BY <1>1, <1>2, <1>3 DEF Solicit

LEMMA TellKeeps ==
  ASSUME IInv, NEW c \in Clients, NEW i \in IAIDs, NEW fresh \in BOOLEAN,
         DOMAIN db' = DOMAIN db, db' \in [DOMAIN db -> 0 .. Valid],
         held' = Believed(c, i, {b.prefix : b \in PDOf(c, i)}, Valid, fresh),
         UNCHANGED <<assigned, cache>>, asking' \subseteq IAs
  PROVE  IInv'
<1>1. {b.prefix : b \in PDOf(c, i)} \in SUBSET PDPrefixes
  BY DEF PDOf, IInv, TypeOK, Bindings
<1>2. DOMAIN held' \subseteq Bindings
      /\ held' \in [DOMAIN held' -> [left : 1 .. Valid, fresh : BOOLEAN]]
  BY <1>1, BelievedType DEF IInv
<1>3. /\ DOMAIN db' \subseteq Bindings /\ db' \in [DOMAIN db' -> 0 .. Valid]
      /\ assigned' \in Nat /\ Finite' /\ CountersCover'
  BY SameLeasesKeep
<1> QED BY <1>2, <1>3 DEF IInv, TypeOK

LEMMA MessageKeeps ==
  ASSUME IInv, NEW c \in Clients, NEW i \in IAIDs, Message(c, i), asking' \subseteq IAs
  PROVE  IInv'
<1>2. ASSUME NEW h \in Hints, Request(c, i, h) PROVE IInv'
  <2>1. CASE GiveExisting(c, i)
    BY <2>1, TellKeeps DEF GiveExisting, IInv, TypeOK
  <2>2. CASE \E ps \in Assignments(c, i, h) : Register(c, i, ps)
    <3>1. PICK ps \in Assignments(c, i, h) : Register(c, i, ps)
      BY <2>2
    <3>2. Assignable(c, ps)
      BY AssignmentsAssignable DEF IInv
    <3> QED BY <3>1, <3>2, RegisterKeeps
  <2>3. CASE NothingLeft(c, i, h) /\ Refuse
    BY <2>3 DEF Refuse, IInv, TypeOK, Finite, CountersCover
  <2> QED BY <1>2, <2>1, <2>2, <2>3 DEF Request
<1>3. CASE Renew(c, i)
  <2>1. CASE NoBinding(c, i)
    BY <1>3, <2>1 DEF Renew, Refuse, IInv, TypeOK, Finite, CountersCover
  <2>2. CASE ~NoBinding(c, i)
    <3>1. db' = [b \in DOMAIN db |-> IF b \in PDOf(c, i) THEN Valid ELSE db[b]]
      BY <1>3, <2>2 DEF Renew
    <3>2. db' \in [DOMAIN db -> 0 .. Valid] /\ DOMAIN db' = DOMAIN db
      BY <3>1, PDConfigAssumption DEF IInv, TypeOK
    <3> QED BY <1>3, <2>2, <3>2, TellKeeps DEF Renew
  <2> QED BY <2>1, <2>2
<1>4. CASE Rebind
  BY <1>4 DEF Rebind, vars, IInv, TypeOK, Finite, CountersCover
<1>5. ASSUME NEW ps \in SUBSET Known(c, i), Release(c, i, ps) PROVE IInv'
  <2> DEFINE bs == PDOf(c, i) \cap {Binding(c, i, p) : p \in ps}
  <2>1. bs \in SUBSET DOMAIN db
    BY DEF PDOf
  <2>2. db' = Restrict(db, DOMAIN db \ bs) /\ assigned' = assigned - Counted(bs) /\ held' = held
    BY <1>5 DEF Release
  <2>3. cache' = cache \/ \E b \in bs : cache' = [cache EXCEPT ![c] = b.prefix]
    BY <1>5 DEF Release
  <2> HIDE DEF bs
  <2>4. /\ DOMAIN db' \subseteq Bindings /\ db' \in [DOMAIN db' -> 0 .. Valid]
        /\ assigned' \in Nat /\ Finite' /\ CountersCover'
    BY <2>1, <2>2, RemovalKeeps
  <2>5. \A b \in bs : b.prefix \in PDPrefixes
    BY <2>1 DEF IInv, TypeOK, Bindings
  <2>6. cache' \in [Clients -> PDPrefixes \cup {NoPrefix}]
    BY <2>3, <2>5 DEF IInv, TypeOK
  <2> QED BY <2>2, <2>4, <2>6 DEF IInv, TypeOK
<1> QED BY <1>2, <1>3, <1>4, <1>5 DEF Message

LEMMA AgedType ==
  ASSUME TypeOK
  PROVE  /\ DOMAIN Aged(db) = DOMAIN db /\ Aged(db) \in [DOMAIN db -> 0 .. Valid]
         /\ \A b \in DOMAIN db : Aged(db)[b] = IF db[b] = 0 THEN 0 ELSE db[b] - 1
<1>1. \A n \in 0 .. Valid : Max({0, n - 1}) = IF n = 0 THEN 0 ELSE n - 1
  BY MaxOfTwo, PDConfigAssumption
<1> QED BY <1>1, PDConfigAssumption DEF Aged, TypeOK

(* The steps, with the names of the IA that has a message. *)
SolicitStep ==
  \E c \in Clients, i \in IAIDs, h \in Hints : Solicit(c, i, h) /\ <<c, i>> \in asking /\ asking' = {}
MessageStep == \E c \in Clients, i \in IAIDs : Message(c, i) /\ asking' = asking
OtherStep ==
  \/ NoMessage /\ asking' = asking
  \/ UNCHANGED <<db, assigned, cache, held>> /\ asking = {} /\ asking' \subseteq IAs
  \/ UNCHANGED vars

LEMMA StepCases ==
  ASSUME TypeOK, [Next]_vars
  PROVE  SolicitStep \/ MessageStep \/ OtherStep
<1>1. \A ia \in IAs : ia[1] \in Clients /\ ia[2] \in IAIDs /\ ia = <<ia[1], ia[2]>>
  BY PDConfigAssumption
<1>2. CASE AnswerSolicit
  <2>1. PICK ia \in asking, h \in Hints : Solicit(ia[1], ia[2], h)
    BY <1>2 DEF AnswerSolicit
  <2>2. ia \in IAs
    BY DEF TypeOK
  <2>3. Solicit(ia[1], ia[2], h) /\ <<ia[1], ia[2]>> \in asking /\ asking' = {}
    BY <1>1, <1>2, <2>1, <2>2 DEF AnswerSolicit
  <2> QED BY <1>1, <2>2, <2>3 DEF SolicitStep
<1>3. ASSUME NEW ia \in IAs, Message(ia[1], ia[2]), asking' = asking PROVE MessageStep
  BY <1>1, <1>3 DEF MessageStep
<1>4. ASSUME NEW ia \in IAs, asking = {}, SolicitArrives(ia) PROVE OtherStep
  BY <1>4 DEF OtherStep, SolicitArrives
<1> QED BY <1>2, <1>3, <1>4 DEF Next, OtherStep

LEMMA NextIInv == IInv /\ [Next]_vars => IInv'
<1> SUFFICES ASSUME IInv, [Next]_vars PROVE IInv'
  OBVIOUS
<1>0. CASE SolicitStep
  BY <1>0, SolicitKeeps DEF SolicitStep
<1>1. CASE MessageStep
  <2>1. PICK c \in Clients, i \in IAIDs : Message(c, i) /\ asking' = asking
    BY <1>1 DEF MessageStep
  <2>2. asking' \subseteq IAs
    BY <2>1 DEF IInv, TypeOK
  <2> QED BY <2>1, <2>2, MessageKeeps
<1> SUFFICES ASSUME OtherStep PROVE IInv'
  BY <1>0, <1>1, StepCases DEF IInv
<1>a. asking' \subseteq IAs
  BY DEF OtherStep, vars, IInv, TypeOK
<1>2. CASE RemoveExpired
  <2>1. Expired \in SUBSET DOMAIN db
    BY DEF Expired
  <2>2. /\ DOMAIN db' \subseteq Bindings /\ db' \in [DOMAIN db' -> 0 .. Valid]
        /\ assigned' \in Nat /\ Finite' /\ CountersCover'
    BY <1>2, <2>1, RemovalKeeps DEF RemoveExpired
  <2>3. PICK last \in [{b.duid : b \in Expired} -> Expired] :
          cache' = [c \in Clients |-> IF c \in DOMAIN last THEN last[c].prefix ELSE cache[c]]
    BY <1>2 DEF RemoveExpired
  <2>4. \A c \in DOMAIN last : last[c].prefix \in PDPrefixes
    BY <2>1, <2>3 DEF IInv, TypeOK, Bindings
  <2>5. cache' \in [Clients -> PDPrefixes \cup {NoPrefix}]
    BY <2>3, <2>4 DEF IInv, TypeOK
  <2> QED BY <1>2, <1>a, <2>2, <2>5 DEF RemoveExpired, IInv, TypeOK
<1>3. CASE Restart
  <2>1. Counted(DOMAIN db) \in Nat
    BY CountedSubset DEF IInv, Finite
  <2> QED BY <1>3, <1>a, <2>1 DEF Restart, Recount, IInv, TypeOK, Finite, CountersCover
<1>4. CASE Tick
  <2>1. DOMAIN db' = DOMAIN db /\ db' \in [DOMAIN db -> 0 .. Valid]
    BY <1>4, AgedType DEF Tick, IInv
  <2>2. /\ DOMAIN db' \subseteq Bindings /\ db' \in [DOMAIN db' -> 0 .. Valid]
        /\ assigned' \in Nat /\ Finite' /\ CountersCover'
    BY <1>4, <2>1, SameLeasesKeep DEF Tick
  <2>3. \A b \in StillHeld : [held[b] EXCEPT !.left = @ - 1] \in [left : 1 .. Valid, fresh : BOOLEAN]
    BY PDConfigAssumption DEF StillHeld, IInv, TypeOK
  <2>4. DOMAIN held' \subseteq Bindings
        /\ held' \in [DOMAIN held' -> [left : 1 .. Valid, fresh : BOOLEAN]]
    BY <1>4, <2>3 DEF Tick, StillHeld, IInv, TypeOK
  <2> QED BY <1>4, <1>a, <2>2, <2>4 DEF Tick, IInv, TypeOK
<1>5. ASSUME NEW b \in DOMAIN held, Forget(b) PROVE IInv'
  BY <1>5, <1>a DEF Forget, Restrict, IInv, TypeOK, Finite, CountersCover
<1>6. CASE UNCHANGED <<db, assigned, cache, held>>
  BY <1>6, <1>a DEF IInv, TypeOK, Finite, CountersCover
<1> QED BY <1>2, <1>3, <1>4, <1>5, <1>6 DEF OtherStep, NoMessage, vars

LEMMA Invariant == Spec => []IInv
<1> QED BY InitIInv, NextIInv, PTL DEF Spec

(* Every variable of prefix delegation keeps its type, for any pools, hints,  *)
(* reservations and limits.                                                  *)
THEOREM TypeCorrect == Spec => []TypeOK
<1>1. IInv => TypeOK
  BY DEF IInv
<1> QED BY <1>1, Invariant, PTL

(* The counter of the class is never below the number of prefixes leased from  *)
(* its pools: what an ADVERTISE takes back, a RELEASE ends and a restart counts *)
(* again is what the database has.                                           *)
THEOREM CounterCorrect == Spec => []CountersCover
<1>1. IInv => CountersCover
  BY DEF IInv
<1> QED BY <1>1, Invariant, PTL

(* The draw that replaces a used hint finds a free prefix: one of the first     *)
(* pool's for every number of the pool, and fewer leases than numbers.         *)
LEMMA DrawFinds ==
  ASSUME IInv, NEW c \in Clients, NEW i \in IAIDs, NEW h \in Hints,
         NotFull(c, i), HintValid(c, h)
  PROVE  HintChoice(c, i, h) # {}
<1>1. PICK l \in Lows : l # 0
  BY PDLengthAssumption
<1>2. NParts \in Nat \ {0} /\ NPools \in Nat \ {0}
  BY PDConfigAssumption
<1> DEFINE P(n) == [pool |-> 1, part |-> n, low |-> l]
           N == 0 .. NParts - 1
           used == {b \in DOMAIN db : InPool(b.prefix)}
<1>3. ASSUME \A n \in N : ~PrefixIsFree(P(n)) PROVE FALSE
  <2>1. \A n \in N : \E b \in used : b.prefix = P(n)
    <3> TAKE n \in N
    <3>1. PICK b \in DOMAIN db : b.prefix = P(n)
      BY <1>3 DEF PrefixIsFree
    <3>2. InPool(P(n))
      BY DEF InPool
    <3> QED BY <3>1, <3>2
  <2> DEFINE f == [n \in N |-> CHOOSE b \in used : b.prefix = P(n)]
  <2>2. \A n \in N : f[n] \in used /\ f[n].prefix = P(n)
    BY <2>1
  <2>3. \A m, n \in N : P(m) = P(n) => m = n
    OBVIOUS
  <2>4. f \in [N -> used]
    BY <2>2
  <2> HIDE DEF f, P, N, used
  <2>a. \A m, n \in N : f[m] = f[n] => m = n
    BY <2>2, <2>3
  <2>5. f \in Injection(N, used)
    BY <2>4, <2>a DEF Injection, IsInjective
  <2>6. IsFiniteSet(used)
    BY FS_Subset DEF used, IInv, Finite
  <2>7. IsFiniteSet(N) /\ Cardinality(N) = NParts
    BY <1>2, FS_Interval DEF N
  <2>8. Cardinality(N) <= Cardinality(used)
    BY <2>5, <2>6, FS_Injection
  <2>9. Cardinality(used) <= assigned /\ assigned < NParts /\ assigned \in Nat
    BY DEF used, IInv, TypeOK, CountersCover, Counted, NotFull
  <2>10. Cardinality(used) \in Nat
    BY <2>6, FS_CardinalityType
  <2> QED BY <1>2, <2>7, <2>8, <2>9, <2>10
<1>4. PICK n \in N : PrefixIsFree(P(n))
  BY <1>3
<1>5. P(n) \in AnyOfFirstPool
  BY <1>1, <1>2, <1>4 DEF AnyOfFirstPool, PDPrefixes
<1> HIDE DEF P
<1> QED BY <1>4, <1>5 DEF HintChoice

(* With the delegated length below 128, the draw of a prefix instead of a hint  *)
(* that is used ends, for any pools, hints and reservations: the counter never   *)
(* lets a message draw once as many prefixes are leased as a pool has.         *)
THEOREM DrawForHintEnds == Spec => []HintDrawEnds
<1>1. IInv => HintDrawEnds
  BY DrawFinds DEF HintDrawEnds
<1> QED BY <1>1, Invariant, PTL

-----------------------------------------------------------------------------
(* What a step does to the database: it takes leases away or gives them times, *)
(* or it adds assignable prefixes to an IA that has none.                     *)

Adds ==
  \E c \in Clients, i \in IAIDs :
    \E ps : Assignable(c, ps) /\ NoBinding(c, i) /\ Register(c, i, ps)

LEMMA OnlyRegisterAdds ==
  ASSUME IInv, [Next]_vars
  PROVE  DOMAIN db' \subseteq DOMAIN db \/ Adds
<1>0. CASE SolicitStep
  BY <1>0 DEF SolicitStep, Solicit, UndoExisting, UndoNew, Refuse, Restrict
<1>1. ASSUME NEW c \in Clients, NEW i \in IAIDs, Message(c, i)
      PROVE  DOMAIN db' \subseteq DOMAIN db \/ Adds
  <2>2. ASSUME NEW h \in Hints, Request(c, i, h) PROVE DOMAIN db' \subseteq DOMAIN db \/ Adds
    <3>1. CASE \E ps \in Assignments(c, i, h) : Register(c, i, ps)
      <4>1. PICK ps \in Assignments(c, i, h) : Register(c, i, ps)
        BY <3>1
      <4>2. Assignable(c, ps) /\ NoBinding(c, i)
        BY AssignmentsAssignable DEF IInv
      <4> QED BY <4>1, <4>2 DEF Adds
    <3>2. CASE GiveExisting(c, i) \/ (NothingLeft(c, i, h) /\ Refuse)
      BY <3>2 DEF GiveExisting, Refuse
    <3> QED BY <2>2, <3>1, <3>2 DEF Request
  <2>3. CASE Renew(c, i)
    BY <2>3 DEF Renew, Refuse
  <2>4. ASSUME NEW ps, Release(c, i, ps) PROVE DOMAIN db' \subseteq DOMAIN db
    BY <2>4 DEF Release, Restrict
  <2> QED BY <1>1, <2>2, <2>3, <2>4 DEF Message, Rebind
<1>2. CASE RemoveExpired
  BY <1>2 DEF RemoveExpired, Restrict
<1>3. CASE Tick
  BY <1>3, AgedType DEF Tick, IInv
<1>4. CASE Restart \/ (\E b \in DOMAIN held : Forget(b)) \/ UNCHANGED <<db, assigned, cache, held>>
  BY <1>4 DEF Restart, Forget
<1> QED BY <1>0, <1>1, <1>2, <1>3, <1>4, StepCases DEF MessageStep, OtherStep, NoMessage, vars, IInv

LEMMA NextShared ==
  ASSUME IInv, SharedOnlyIfReserved, [Next]_vars
  PROVE  SharedOnlyIfReserved'
<1>1. CASE DOMAIN db' \subseteq DOMAIN db
  BY <1>1 DEF SharedOnlyIfReserved
<1>2. CASE Adds
  <2>c. PICK c \in Clients, i \in IAIDs : \E ps : Assignable(c, ps) /\ NoBinding(c, i) /\ Register(c, i, ps)
    BY <1>2 DEF Adds
  <2>1. PICK ps : Assignable(c, ps) /\ Register(c, i, ps)
    BY <2>c
  <2>2. DOMAIN db' = DOMAIN db \cup {Binding(c, i, p) : p \in Range(ps)}
    BY <2>1 DEF Register
  <2>3. \A p \in Range(ps) : PrefixIsFree(p) \/ FixedPrefix[c] = p
    BY <2>1 DEF Assignable, Range
  <2> SUFFICES ASSUME NEW b1 \in DOMAIN db', NEW b2 \in DOMAIN db',
                      b1.prefix = b2.prefix, b1 # b2
               PROVE  FixedPrefix[b1.duid] = b1.prefix \/ FixedPrefix[b2.duid] = b1.prefix
    BY DEF SharedOnlyIfReserved
  <2>4. \A b \in DOMAIN db' \ DOMAIN db : b.duid = c /\ b.prefix \in Range(ps)
    BY <2>2 DEF Binding
  <2>5. CASE b1 \in DOMAIN db /\ b2 \in DOMAIN db
    BY <2>5 DEF SharedOnlyIfReserved
  <2>6. CASE b1 \in DOMAIN db /\ b2 \notin DOMAIN db
    BY <2>3, <2>4, <2>6 DEF PrefixIsFree
  <2>7. CASE b1 \notin DOMAIN db /\ b2 \in DOMAIN db
    BY <2>3, <2>4, <2>7 DEF PrefixIsFree
  <2>8. CASE b1 \notin DOMAIN db /\ b2 \notin DOMAIN db
    BY <2>2, <2>8 DEF Binding
  <2> QED BY <2>5, <2>6, <2>7, <2>8
<1> QED BY <1>1, <1>2, OnlyRegisterAdds

(* A prefix is leased to two IAs only if it is reserved for the client of one  *)
(* of them, however many pools, clients, IAs and hints there are.             *)
THEOREM NoOtherSharing == Spec => []SharedOnlyIfReserved
<1>1. Init => SharedOnlyIfReserved
  BY DEF Init, NoDB, SharedOnlyIfReserved
<1> QED BY <1>1, NextShared, Invariant, PTL DEF Spec

-----------------------------------------------------------------------------
(* Promises *)

(* Leases that no client holds may go, and leases may be prolonged, without     *)
(* breaking a promise.                                                       *)
LEMMA KeptWhenUnheldGo ==
  ASSUME IInv, FreshPromiseKept, NEW bs, bs \cap DOMAIN held = {},
         db' = Restrict(db, DOMAIN db \ bs), held' = held
  PROVE  FreshPromiseKept'
BY DEF FreshPromiseKept, Restrict

LEMMA KeptWhenTold ==
  ASSUME IInv, FreshPromiseKept, NEW c \in Clients, NEW i \in IAIDs, NEW ps, NEW fresh \in BOOLEAN,
         held' = Believed(c, i, ps, Valid, fresh),
         DOMAIN db \subseteq DOMAIN db',
         \A b \in DOMAIN db : db'[b] \in {db[b], Valid},
         fresh => \A p \in ps : Binding(c, i, p) \in DOMAIN db' /\ db'[Binding(c, i, p)] = Valid
  PROVE  FreshPromiseKept'
<1> DEFINE told == {Binding(c, i, p) : p \in ps}
<1>1. held' = [b \in DOMAIN held \cup told |->
                 IF b \in told THEN [left |-> Valid, fresh |-> fresh] ELSE held[b]]
  BY DEF Believed
<1>2. fresh => \A b \in told : b \in DOMAIN db' /\ db'[b] = Valid
  OBVIOUS
<1> HIDE DEF told
<1> SUFFICES ASSUME NEW b \in DOMAIN held', held'[b].fresh
             PROVE  b \in DOMAIN db' /\ held'[b].left <= db'[b]
  BY DEF FreshPromiseKept
<1>3. CASE b \in told
  BY <1>1, <1>2, <1>3, PDConfigAssumption
<1>4. CASE b \notin told
  <2>1. b \in DOMAIN held /\ held'[b] = held[b]
    BY <1>1, <1>4
  <2>2. b \in DOMAIN db /\ held[b].left <= db[b]
    BY <2>1 DEF FreshPromiseKept
  <2>3. held[b].left \in 1 .. Valid /\ db[b] \in 0 .. Valid
    BY <2>1, <2>2 DEF IInv, TypeOK
  <2> QED BY <2>1, <2>2, <2>3, PDConfigAssumption
<1> QED BY <1>3, <1>4

LEMMA NextFresh ==
  ASSUME IInv, FreshPromiseKept, [Next]_vars
  PROVE  FreshPromiseKept'
<1>0. ASSUME NEW c \in Clients, NEW i \in IAIDs, NEW h \in Hints, Solicit(c, i, h)
      PROVE  FreshPromiseKept'
  <2>1. CASE UndoExisting(c, i)
    <3>1. db' = Restrict(db, DOMAIN db \ PDOf(c, i)) /\ held' = Doubted(PDOf(c, i))
      BY <2>1 DEF UndoExisting
    <3>2. \A b \in DOMAIN held' : /\ b \in DOMAIN held /\ held'[b].left = held[b].left
                                  /\ held'[b].fresh => held[b].fresh /\ b \notin PDOf(c, i)
      BY <3>1, DoubtedType DEF IInv
    <3>3. \A b \in DOMAIN db \ PDOf(c, i) : b \in DOMAIN db' /\ db'[b] = db[b]
      BY <3>1 DEF Restrict
    <3> QED BY <3>2, <3>3 DEF FreshPromiseKept
  <2>2. CASE (\E ps \in Assignments(c, i, h) : UndoNew(c, ps)) \/ (NothingLeft(c, i, h) /\ Refuse)
    BY <2>2 DEF UndoNew, Refuse, FreshPromiseKept
  <2> QED BY <1>0, <2>1, <2>2 DEF Solicit
<1>1. ASSUME NEW c \in Clients, NEW i \in IAIDs, Message(c, i)
      PROVE  FreshPromiseKept'
  <2>2. ASSUME NEW h \in Hints, Request(c, i, h) PROVE FreshPromiseKept'
    <3>1. CASE GiveExisting(c, i)
      BY <3>1, KeptWhenTold DEF GiveExisting
    <3>2. CASE \E ps \in Assignments(c, i, h) : Register(c, i, ps)
      <4>1. PICK ps \in Assignments(c, i, h) : Register(c, i, ps)
        BY <3>2
      <4>2. held' = Believed(c, i, Range(ps), Valid, TRUE)
            /\ DOMAIN db \subseteq DOMAIN db'
            /\ (\A b \in DOMAIN db : db'[b] \in {db[b], Valid})
            /\ \A p \in Range(ps) : Binding(c, i, p) \in DOMAIN db' /\ db'[Binding(c, i, p)] = Valid
        BY <4>1 DEF Register
      <4> QED BY <4>2, KeptWhenTold
    <3>3. CASE NothingLeft(c, i, h) /\ Refuse
      BY <3>3 DEF Refuse, FreshPromiseKept
    <3> QED BY <2>2, <3>1, <3>2, <3>3 DEF Request
  <2>3. CASE Renew(c, i)
    <3>1. CASE NoBinding(c, i)
      BY <2>3, <3>1 DEF Renew, Refuse, FreshPromiseKept
    <3>2. CASE ~NoBinding(c, i)
      <4>1. db' = [b \in DOMAIN db |-> IF b \in PDOf(c, i) THEN Valid ELSE db[b]]
        BY <2>3, <3>2 DEF Renew
      <4>2. \A b \in PDOf(c, i) : b \in DOMAIN db /\ b = Binding(c, i, b.prefix)
        BY DEF PDOf, IInv, TypeOK, Bindings, Binding
      <4>3. \A p \in {b.prefix : b \in PDOf(c, i)} :
              Binding(c, i, p) \in DOMAIN db' /\ db'[Binding(c, i, p)] = Valid
        BY <4>1, <4>2
      <4> QED BY <2>3, <3>2, <4>1, <4>3, KeptWhenTold DEF Renew
    <3> QED BY <3>1, <3>2
  <2>4. ASSUME NEW ps, Release(c, i, ps) PROVE FreshPromiseKept'
    <3> DEFINE bs == PDOf(c, i) \cap {Binding(c, i, p) : p \in ps}
    <3>1. db' = Restrict(db, DOMAIN db \ bs) /\ held' = held /\ bs \cap DOMAIN held = {}
      BY <2>4 DEF Release
    <3> QED BY <3>1, KeptWhenUnheldGo
  <2>5. CASE Rebind
    BY <2>5 DEF Rebind, FreshPromiseKept
  <2> QED BY <1>1, <2>2, <2>3, <2>4, <2>5 DEF Message
<1>2. CASE RemoveExpired
  <2>1. db' = Restrict(db, DOMAIN db \ Expired) /\ held' = held
    BY <1>2 DEF RemoveExpired
  <2> SUFFICES ASSUME NEW b \in DOMAIN held, held[b].fresh
               PROVE  b \in DOMAIN db' /\ held[b].left <= db'[b]
    BY <2>1 DEF FreshPromiseKept
  <2>2. b \in DOMAIN db /\ held[b].left <= db[b] /\ held[b].left \in 1 .. Valid /\ db[b] \in Nat
    BY DEF FreshPromiseKept, IInv, TypeOK
  <2>3. b \notin Expired
    BY <2>2, PDConfigAssumption DEF Expired
  <2>4. b \in DOMAIN db' /\ db'[b] = db[b]
    BY <2>1, <2>2, <2>3 DEF Restrict
  <2> QED BY <2>2, <2>4
<1>3. CASE Tick
  <2>1. db' = Aged(db) /\ held' = [b \in StillHeld |-> [held[b] EXCEPT !.left = @ - 1]]
    BY <1>3 DEF Tick
  <2> SUFFICES ASSUME NEW b \in DOMAIN held', held'[b].fresh
               PROVE  b \in DOMAIN db' /\ held'[b].left <= db'[b]
    BY DEF FreshPromiseKept
  <2>2. /\ b \in DOMAIN held /\ held[b] \in [left : 1 .. Valid, fresh : BOOLEAN]
        /\ held[b].left > 1 /\ held'[b] = [held[b] EXCEPT !.left = @ - 1]
    BY <2>1 DEF StillHeld, IInv, TypeOK
  <2>3. held[b].fresh /\ held'[b].left = held[b].left - 1
    BY <2>2
  <2>4. b \in DOMAIN db /\ held[b].left <= db[b] /\ db[b] \in 0 .. Valid
    BY <2>2, <2>3 DEF FreshPromiseKept, IInv, TypeOK
  <2>5. DOMAIN db' = DOMAIN db /\ db'[b] = IF db[b] = 0 THEN 0 ELSE db[b] - 1
    BY <2>1, <2>4, AgedType DEF IInv
  <2> QED BY <2>2, <2>3, <2>4, <2>5, PDConfigAssumption
<1>4. ASSUME NEW b \in DOMAIN held, Forget(b) PROVE FreshPromiseKept'
  BY <1>4 DEF Forget, Restrict, FreshPromiseKept
<1>5. CASE Restart \/ UNCHANGED <<db, assigned, cache, held>>
  BY <1>5 DEF Restart, FreshPromiseKept
<1> QED BY <1>0, <1>1, <1>2, <1>3, <1>4, <1>5, StepCases
        DEF SolicitStep, MessageStep, OtherStep, NoMessage, vars, IInv

(* A prefix that was assigned or renewed stays leased for as long as its client *)
(* was told, through expiry, restarts and the messages of everybody, unless the *)
(* IA that has it sends a SOLICIT: the undoing of the ADVERTISE takes it back.   *)
THEOREM FreshPromisesKept == Spec => []FreshPromiseKept
<1>1. Init => FreshPromiseKept
  BY DEF Init, NoDB, FreshPromiseKept
<1> QED BY <1>1, NextFresh, Invariant, PTL DEF Spec

-----------------------------------------------------------------------------
(* The leases of an IA were made, and are renewed, together.                  *)
SameTimes ==
  \A b1, b2 \in DOMAIN db :
    b1.duid = b2.duid /\ b1.iaid = b2.iaid => db[b1] = db[b2]

RInv == IInv /\ SharedOnlyIfReserved /\ SameTimes

LEMMA InitRInv == Init => RInv
BY InitIInv DEF Init, NoDB, SharedOnlyIfReserved, SameTimes, RInv

(* Some leases go, and the others keep their times. *)
LEMMA SameTimesOfFewer ==
  ASSUME SameTimes, DOMAIN db' \subseteq DOMAIN db, \A b \in DOMAIN db' : db'[b] = db[b]
  PROVE  SameTimes'
BY DEF SameTimes

LEMMA NextSameTimes ==
  ASSUME IInv, SameTimes, [Next]_vars
  PROVE  SameTimes'
<1>0. CASE SolicitStep
  BY <1>0, SameTimesOfFewer DEF SolicitStep, Solicit, UndoExisting, UndoNew, Refuse, Restrict
<1>1. ASSUME NEW c \in Clients, NEW i \in IAIDs, Message(c, i)
      PROVE  SameTimes'
  <2>2. ASSUME NEW h \in Hints, Request(c, i, h) PROVE SameTimes'
    <3>1. CASE \E ps \in Assignments(c, i, h) : Register(c, i, ps)
      <4>1. PICK ps \in Assignments(c, i, h) : Register(c, i, ps)
        BY <3>1
      <4>2. \A b \in DOMAIN db : ~(b.duid = c /\ b.iaid = i)
        BY AssignmentsAssignable DEF NoBinding, PDOf, IInv
      <4> DEFINE new == {Binding(c, i, p) : p \in Range(ps)}
      <4>3. \A b \in new : b.duid = c /\ b.iaid = i
        BY DEF Binding
      <4>4. db' = [b \in DOMAIN db \cup new |-> IF b \in new THEN Valid ELSE db[b]]
        BY <4>1 DEF Register
      <4> HIDE DEF new
      <4> QED BY <4>2, <4>3, <4>4 DEF SameTimes
    <3>2. CASE GiveExisting(c, i) \/ (NothingLeft(c, i, h) /\ Refuse)
      BY <3>2, SameTimesOfFewer DEF GiveExisting, Refuse
    <3> QED BY <2>2, <3>1, <3>2 DEF Request
  <2>3. CASE Renew(c, i)
    <3>1. CASE NoBinding(c, i)
      BY <2>3, <3>1, SameTimesOfFewer DEF Renew, Refuse
    <3>2. CASE ~NoBinding(c, i)
      BY <2>3, <3>2 DEF Renew, PDOf, SameTimes
    <3> QED BY <3>1, <3>2
  <2>4. ASSUME NEW ps, Release(c, i, ps) PROVE SameTimes'
    BY <2>4, SameTimesOfFewer DEF Release, Restrict
  <2>5. CASE Rebind
    BY <2>5, SameTimesOfFewer DEF Rebind
  <2> QED BY <1>1, <2>2, <2>3, <2>4, <2>5 DEF Message
<1>2. CASE RemoveExpired
  BY <1>2, SameTimesOfFewer DEF RemoveExpired, Restrict
<1>3. CASE Tick
  <2>1. DOMAIN db' = DOMAIN db
        /\ \A b \in DOMAIN db : db'[b] = IF db[b] = 0 THEN 0 ELSE db[b] - 1
    BY <1>3, AgedType DEF Tick, IInv
  <2> QED BY <2>1 DEF SameTimes
<1>4. CASE Restart \/ (\E b \in DOMAIN held : Forget(b)) \/ UNCHANGED <<db, assigned, cache, held>>
  BY <1>4, SameTimesOfFewer DEF Restart, Forget
<1> QED BY <1>0, <1>1, <1>2, <1>3, <1>4, StepCases DEF MessageStep, OtherStep, NoMessage, vars, IInv

LEMMA NextRInv == RInv /\ [Next]_vars => RInv'
BY NextIInv, NextShared, NextSameTimes DEF RInv

-----------------------------------------------------------------------------
(* The table of owners that the database is, and the promises.                *)
TB == [p \in Unreserved |-> OwnerIn(db, p)]
Owner(b) == <<b.duid, b.iaid>>
PR == {<<Owner(b), b.prefix>> : b \in {b \in Kept : b.prefix \in Unreserved}}

Single(d) ==
  \A b1, b2 \in DOMAIN d :
    b1.prefix = b2.prefix /\ b1.prefix \in Unreserved => b1 = b2

LEMMA OwnerFacts ==
  ASSUME NEW d, Single(d), NEW p \in Unreserved
  PROVE  /\ \A b \in DOMAIN d : b.prefix = p => OwnerIn(d, p) = Owner(b)
         /\ (\A b \in DOMAIN d : b.prefix # p) => OwnerIn(d, p) = <<>>
<1>1. ASSUME NEW b \in DOMAIN d, b.prefix = p PROVE OwnerIn(d, p) = Owner(b)
  <2>1. (CHOOSE x \in DOMAIN d : x.prefix = p) = b
    <3>1. \A x \in DOMAIN d : x.prefix = p => x = b
      BY <1>1 DEF Single
    <3> QED BY <1>1, <3>1
  <2> QED BY <1>1, <2>1 DEF OwnerIn, Owner
<1>2. ASSUME \A b \in DOMAIN d : b.prefix # p PROVE OwnerIn(d, p) = <<>>
  BY <1>2 DEF OwnerIn
<1> QED BY <1>1, <1>2

LEMMA SingleDB ==
  ASSUME RInv
  PROVE  Single(db)
<1>1. \A b \in DOMAIN db : b.duid \in Clients
  BY DEF RInv, IInv, TypeOK, Bindings
<1> QED BY <1>1 DEF RInv, SharedOnlyIfReserved, Single, Unreserved

LEMMA OwnerIsNotFree == \A b : Owner(b) # <<>>
BY DEF Owner

LEMMA TableFacts ==
  ASSUME RInv
  PROVE  /\ \A b \in DOMAIN db : b.prefix \in Unreserved => TB[b.prefix] = Owner(b)
         /\ \A p \in Unreserved : TB[p] # <<>> => \E b \in DOMAIN db : b.prefix = p /\ TB[p] = Owner(b)
         /\ \A p \in Unreserved : (\A b \in DOMAIN db : b.prefix # p) => TB[p] = <<>>
<1>1. \A p \in Unreserved :
        /\ \A b \in DOMAIN db : b.prefix = p => TB[p] = Owner(b)
        /\ (\A b \in DOMAIN db : b.prefix # p) => TB[p] = <<>>
  BY SingleDB, OwnerFacts DEF TB
<1> QED BY <1>1

LEMMA TableFactsNext ==
  ASSUME RInv'
  PROVE  /\ \A b \in DOMAIN db' : b.prefix \in Unreserved => TB'[b.prefix] = Owner(b)
         /\ \A p \in Unreserved : (\A b \in DOMAIN db' : b.prefix # p) => TB'[p] = <<>>
<1>1. \A b \in DOMAIN db' : b.duid \in Clients
  BY DEF RInv, IInv, TypeOK, Bindings
<1>2. Single(db')
  BY <1>1 DEF RInv, SharedOnlyIfReserved, Single, Unreserved
<1>3. \A p \in Unreserved : TB'[p] = OwnerIn(db', p)
  BY DEF TB
<1> QED BY <1>2, <1>3, OwnerFacts

LEMMA SameTable ==
  ASSUME RInv, RInv', DOMAIN db' = DOMAIN db
  PROVE  TB' = TB
<1>1. \A p \in Unreserved : TB'[p] = TB[p]
  BY TableFacts, TableFactsNext
<1> QED BY <1>1 DEF TB

Pairs(t) == {<<t[a], a>> : a \in {a \in Unreserved : t[a] \in Clients \X IAIDs}}

(* A held lease that the database has is a pair of the table. *)
LEMMA PairsOfLeases ==
  ASSUME RInv, NEW b \in DOMAIN db, b.prefix \in Unreserved
  PROVE  <<Owner(b), b.prefix>> \in Pairs(TB)
<1>1. TB[b.prefix] = Owner(b)
  BY TableFacts
<1>2. Owner(b) \in Clients \X IAIDs
  BY DEF Owner, RInv, IInv, TypeOK, Bindings
<1> QED BY <1>1, <1>2 DEF Pairs

LEMMA PairsOfLeasesNext ==
  ASSUME RInv', NEW b \in DOMAIN db', b.prefix \in Unreserved
  PROVE  <<Owner(b), b.prefix>> \in Pairs(TB')
<1>1. TB'[b.prefix] = Owner(b)
  BY TableFactsNext
<1>2. Owner(b) \in Clients \X IAIDs
  BY DEF Owner, RInv, IInv, TypeOK, Bindings
<1> QED BY <1>1, <1>2 DEF Pairs

-----------------------------------------------------------------------------
(* The steps of the table *)

Step == [Table!TableNext]_(Table!tableVars)

LEMMA ToStutter ==
  ASSUME TB' = TB, PR' = PR, asking' = asking
  PROVE  Step
BY DEF Step, Table!tableVars, TB, PR, Owner

LEMMA ToAsk ==
  ASSUME TB' = TB, PR' = PR, asking = {}, asking' \subseteq Clients \X IAIDs
  PROVE  Step
<1>1. Table!Ask
  BY DEF Table!Ask, TB, PR, Owner
<1> QED BY <1>1 DEF Step, Table!TableNext

LEMMA ToAnswered ==
  ASSUME TB' = TB, PR' = PR, asking' \subseteq asking
  PROVE  Step
<1>1. Table!Answered
  BY DEF Table!Answered, TB, PR, Owner
<1> QED BY <1>1 DEF Step, Table!TableNext

LEMMA ToPromise ==
  ASSUME TB' = TB, PR \subseteq PR', PR' \subseteq PR \cup Pairs(TB), asking' = asking
  PROVE  Step
<1>1. Table!Promise
  BY DEF Table!Promise, Table!BoundPairs, TB, PR, Owner, Pairs
<1> QED BY <1>1 DEF Step, Table!TableNext

LEMMA ToLapse ==
  ASSUME TB' = TB, PR' \subseteq PR, asking' = asking
  PROVE  Step
<1>1. Table!Lapse
  BY DEF Table!Lapse, TB, PR, Owner
<1> QED BY <1>1 DEF Step, Table!TableNext

TBChanged == {a \in Unreserved : TB'[a] # TB[a]}
LEMMA ChangedIs == Table!Changed = TBChanged
BY DEF Table!Changed, TBChanged, TB

LEMMA ToTakeBack ==
  ASSUME \A a \in TBChanged : TB'[a] = <<>> /\ (<<TB[a], a>> \notin PR \/ TB[a] \in asking),
         PR' = PR \ {<<TB[a], a>> : a \in TBChanged}, asking' \subseteq asking
  PROVE  Step
<1>1. CASE TBChanged = {}
  <2>1. TB' = TB /\ PR' = PR
    BY <1>1 DEF TBChanged, TB
  <2> QED BY <2>1, ToAnswered
<1>2. CASE TBChanged # {}
  <2>1. Table!TakeBack
    BY <1>2, ChangedIs DEF Table!TakeBack, TB, PR, Owner
  <2> QED BY <2>1 DEF Step, Table!TableNext
<1> QED BY <1>1, <1>2

LEMMA ToGrant ==
  ASSUME NEW o \in Clients \X IAIDs,
         {a \in Unreserved : TB[a] = o} = {},
         \A a \in TBChanged : TB[a] = <<>> /\ TB'[a] = o,
         Cardinality(TBChanged) <= NPools,
         PR \subseteq PR', PR' \subseteq PR \cup Pairs(TB'), asking' = asking
  PROVE  Step
<1>1. CASE TBChanged = {}
  <2>1. TB' = TB
    BY <1>1 DEF TBChanged, TB
  <2> QED BY <2>1, ToPromise
<1>2. CASE TBChanged # {}
  <2>0. Table!Cardinality(TBChanged) = Cardinality(TBChanged)
    BY DEF Table!Cardinality, Cardinality
  <2>1. Table!Grant(o)
    BY <1>2, <2>0, ChangedIs DEF Table!Grant, Table!Has, Table!BoundPairs, TB, PR, Owner, Pairs
  <2> QED BY <2>1 DEF Step, Table!TableNext
<1> QED BY <1>1, <1>2

(* Leases go that nobody relies on, or that are of the IA that is asking.      *)
LEMMA RemovalIsTakeBack ==
  ASSUME RInv, RInv', NEW bs \in SUBSET DOMAIN db,
         db' = Restrict(db, DOMAIN db \ bs),
         DOMAIN held' = DOMAIN held, \A b \in DOMAIN held : held'[b].left = held[b].left,
         \A b \in bs : b \notin Kept \/ Owner(b) \in asking,
         asking' \subseteq asking
  PROVE  Step
<1>1. DOMAIN db' = DOMAIN db \ bs /\ \A b \in DOMAIN db' : db'[b] = db[b]
  BY DEF Restrict
<1>2. Kept' = Kept \ bs
  BY <1>1 DEF Kept
<1>3. ASSUME NEW a \in TBChanged
      PROVE  \E b \in bs : b.prefix = a /\ TB[a] = Owner(b) /\ TB'[a] = <<>>
  <2>1. a \in Unreserved /\ TB'[a] # TB[a]
    BY <1>3 DEF TBChanged
  <2>2. \A b \in DOMAIN db' : b.prefix # a
    <3> SUFFICES ASSUME NEW b \in DOMAIN db', b.prefix = a PROVE FALSE
      OBVIOUS
    <3>1. b \in DOMAIN db
      BY <1>1
    <3>2. TB[a] = Owner(b)
      BY <2>1, <3>1, TableFacts
    <3>3. TB'[a] = Owner(b)
      BY <2>1, TableFactsNext
    <3> QED BY <2>1, <3>2, <3>3
  <2>3. TB'[a] = <<>>
    BY <2>1, <2>2, TableFactsNext
  <2>4. PICK b \in DOMAIN db : b.prefix = a /\ TB[a] = Owner(b)
    BY <2>1, <2>3, TableFacts
  <2>5. b \in bs
    BY <1>1, <2>2, <2>4
  <2> QED BY <2>3, <2>4, <2>5
<1>4. ASSUME NEW b \in bs, b.prefix \in Unreserved
      PROVE  b.prefix \in TBChanged /\ TB[b.prefix] = Owner(b)
  <2>1. b \in DOMAIN db /\ TB[b.prefix] = Owner(b)
    BY <1>4, TableFacts
  <2>2. \A x \in DOMAIN db' : x.prefix # b.prefix
    <3> SUFFICES ASSUME NEW x \in DOMAIN db', x.prefix = b.prefix PROVE FALSE
      OBVIOUS
    <3>1. x \in DOMAIN db /\ x \notin bs
      BY <1>1
    <3> QED BY <1>4, <2>1, <3>1, SingleDB DEF Single
  <2>3. TB'[b.prefix] = <<>>
    BY <1>4, <2>2, TableFactsNext
  <2> QED BY <1>4, <2>1, <2>3, OwnerIsNotFree DEF TBChanged
<1>5. \A a \in TBChanged : TB'[a] = <<>> /\ (<<TB[a], a>> \notin PR \/ TB[a] \in asking)
  <2> SUFFICES ASSUME NEW a \in TBChanged, <<TB[a], a>> \in PR, TB[a] \notin asking
               PROVE  FALSE
    BY <1>3
  <2>1. PICK b \in bs : b.prefix = a /\ TB[a] = Owner(b)
    BY <1>3
  <2>2. PICK x \in Kept : x.prefix = a /\ x.prefix \in Unreserved
    BY DEF PR
  <2>3. x \in DOMAIN db
    BY <2>2 DEF Kept
  <2>4. x = b
    BY <2>1, <2>2, <2>3, SingleDB DEF Single
  <2> QED BY <2>1, <2>2, <2>4
<1>6. PR' = PR \ {<<TB[a], a>> : a \in TBChanged}
  <2>1. ASSUME NEW b \in Kept, b.prefix \in Unreserved
        PROVE  b \in bs <=> <<Owner(b), b.prefix>> \in {<<TB[a], a>> : a \in TBChanged}
    <3>1. CASE b \in bs
      BY <1>4, <2>1, <3>1
    <3>2. ASSUME NEW a \in TBChanged, <<Owner(b), b.prefix>> = <<TB[a], a>> PROVE b \in bs
      <4>1. PICK x \in bs : x.prefix = a
        BY <1>3
      <4>2. b.prefix = a /\ b \in DOMAIN db
        BY <3>2 DEF Kept
      <4> QED BY <2>1, <4>1, <4>2, SingleDB DEF Single
    <3> QED BY <3>1, <3>2
  <2>2. \A pr \in PR' : pr \in PR /\ pr \notin {<<TB[a], a>> : a \in TBChanged}
    BY <1>2, <2>1 DEF PR
  <2>3. \A pr \in PR : pr \notin {<<TB[a], a>> : a \in TBChanged} => pr \in PR'
    BY <1>2, <2>1 DEF PR
  <2> QED BY <2>2, <2>3
<1> QED BY <1>5, <1>6, ToTakeBack

LEMMA KeptFacts ==
  ASSUME IInv
  PROVE  /\ Kept \subseteq DOMAIN db
         /\ \A b \in Kept : /\ b \in DOMAIN held /\ held[b].left <= db[b]
                            /\ held[b].left \in 1 .. Valid /\ db[b] \in 1 .. Valid
<1>1. \A b \in Kept : /\ b \in DOMAIN held /\ b \in DOMAIN db /\ held[b].left <= db[b]
                      /\ held[b].left \in 1 .. Valid /\ db[b] \in 0 .. Valid
  BY DEF Kept, IInv, TypeOK
<1> QED BY <1>1, PDConfigAssumption

LEMMA RegisterIsGrant ==
  ASSUME RInv, RInv', NEW c \in Clients, NEW i \in IAIDs, NEW ps, Assignable(c, ps),
         NoBinding(c, i), Register(c, i, ps), asking' = asking
  PROVE  Step
<1> DEFINE new == {Binding(c, i, p) : p \in Range(ps)}
           o == <<c, i>>
<1>1. \A b \in new : Owner(b) = o /\ b.prefix \in Range(ps)
  BY DEF Binding, Owner
<1>2. \A b \in DOMAIN db : Owner(b) # o
  BY DEF Owner, NoBinding, PDOf
<1>3. /\ db' = [b \in DOMAIN db \cup new |-> IF b \in new THEN Valid ELSE db[b]]
      /\ held' = [b \in DOMAIN held \cup new |->
                    IF b \in new THEN [left |-> Valid, fresh |-> TRUE] ELSE held[b]]
  BY DEF Register, Believed
<1>4. \A p \in Range(ps) \cap Unreserved : PrefixIsFree(p)
  BY DEF Assignable, Range, Unreserved
<1> HIDE DEF new, o
<1>5. {a \in Unreserved : TB[a] = o} = {}
  <2> SUFFICES ASSUME NEW a \in Unreserved, TB[a] = o PROVE FALSE
    OBVIOUS
  <2>1. o # <<>>
    BY DEF o
  <2>2. PICK b \in DOMAIN db : TB[a] = Owner(b)
    BY <2>1, TableFacts
  <2> QED BY <1>2, <2>2
<1>6. ASSUME NEW a \in TBChanged PROVE a \in Range(ps) /\ TB[a] = <<>> /\ TB'[a] = o
  <2>1. a \in Unreserved /\ TB'[a] # TB[a]
    BY <1>6 DEF TBChanged
  <2>2. PICK b \in new : b.prefix = a
    BY <1>3, <2>1, TableFacts, TableFactsNext
  <2>3. a \in Range(ps) /\ Owner(b) = o /\ b \in DOMAIN db'
    BY <1>1, <1>3, <2>2
  <2>4. TB'[a] = o
    BY <2>1, <2>2, <2>3, TableFactsNext
  <2>5. \A x \in DOMAIN db : x.prefix # a
    BY <1>4, <2>1, <2>3 DEF PrefixIsFree
  <2> QED BY <2>1, <2>3, <2>4, <2>5, TableFacts
<1>7. Cardinality(TBChanged) <= NPools
  <2>1. TBChanged \in SUBSET Range(ps)
    BY <1>6
  <2>2. IsFiniteSet(Range(ps)) /\ Cardinality(Range(ps)) <= NPools
    BY AssignableFacts
  <2>3. /\ IsFiniteSet(TBChanged) /\ Cardinality(TBChanged) <= Cardinality(Range(ps))
        /\ Cardinality(TBChanged) \in Nat /\ Cardinality(Range(ps)) \in Nat
    BY <2>1, <2>2, FS_Subset, FS_CardinalityType
  <2> QED BY <2>2, <2>3, PDConfigAssumption
<1>8. new \cap DOMAIN db = {}
  BY <1>1, <1>2
<1>9. Kept \subseteq Kept' /\ Kept' \subseteq Kept \cup new
  BY <1>3, <1>8 DEF Kept
<1>10. PR \subseteq PR'
  BY <1>9 DEF PR
<1>11. PR' \subseteq PR \cup Pairs(TB')
  <2>1. \A b \in Kept' : b.prefix \in Unreserved /\ b \in new => <<Owner(b), b.prefix>> \in Pairs(TB')
    BY <1>3, PairsOfLeasesNext
  <2> QED BY <1>9, <2>1 DEF PR
<1>12. o \in Clients \X IAIDs
  BY DEF o
<1> QED BY <1>5, <1>6, <1>7, <1>10, <1>11, <1>12, ToGrant

(* An answer to a client that has leases is a promise, if it was given new       *)
(* times, and otherwise may be one that the server does not keep.             *)
LEMMA TellIsPromise ==
  ASSUME RInv, RInv', NEW c \in Clients, NEW i \in IAIDs, NEW fresh \in BOOLEAN,
         DOMAIN db' = DOMAIN db,
         \A b \in DOMAIN db \ PDOf(c, i) : db'[b] = db[b],
         \A b \in PDOf(c, i) : db'[b] = Valid,
         held' = Believed(c, i, {b.prefix : b \in PDOf(c, i)}, Valid, fresh), asking' = asking
  PROVE  Step
<1>1. {Binding(c, i, p) : p \in {b.prefix : b \in PDOf(c, i)}} = PDOf(c, i)
  <2>1. \A b \in PDOf(c, i) : Binding(c, i, b.prefix) = b
    BY DEF PDOf, Binding, RInv, IInv, TypeOK, Bindings
  <2> QED BY <2>1
<1>2. held' = [b \in DOMAIN held \cup PDOf(c, i) |->
                 IF b \in PDOf(c, i) THEN [left |-> Valid, fresh |-> fresh] ELSE held[b]]
  BY <1>1 DEF Believed
<1>3. PDOf(c, i) \subseteq DOMAIN db
  BY DEF PDOf
<1>4. Valid <= Valid
  BY PDConfigAssumption
<1>5. \A b \in PDOf(c, i) : b \in Kept'
  BY <1>2, <1>3, <1>4 DEF Kept
<1>6. \A b \in DOMAIN db \ PDOf(c, i) : b \in Kept' <=> b \in Kept
  BY <1>2 DEF Kept
<1>7. Kept \subseteq Kept'
  BY <1>5, <1>6 DEF Kept
<1>8. Kept' \subseteq Kept \cup PDOf(c, i)
  BY <1>6 DEF Kept
<1>9. TB' = TB
  BY SameTable
<1>10. PR \subseteq PR'
  BY <1>7 DEF PR
<1>11. PR' \subseteq PR \cup Pairs(TB)
  BY <1>3, <1>8, PairsOfLeases DEF PR
<1> QED BY <1>9, <1>10, <1>11, ToPromise

LEMMA ExistingIsPromiseOrLapse ==
  ASSUME RInv, RInv', NEW c \in Clients, NEW i \in IAIDs, GiveExisting(c, i), asking' = asking
  PROVE  Step
<1>1. db' = db /\ PDOf(c, i) \subseteq DOMAIN db
      /\ held' = Believed(c, i, {b.prefix : b \in PDOf(c, i)}, Valid, FALSE)
  BY DEF GiveExisting, PDOf
<1>2. CASE \A b \in PDOf(c, i) : db[b] = Valid
  BY <1>1, <1>2, TellIsPromise
<1>3. CASE \E b \in PDOf(c, i) : db[b] # Valid
  <2>1. \A b \in PDOf(c, i) : db[b] # Valid
    BY <1>3 DEF RInv, SameTimes, PDOf
  <2>2. {Binding(c, i, p) : p \in {b.prefix : b \in PDOf(c, i)}} = PDOf(c, i)
    <3>1. \A b \in PDOf(c, i) : Binding(c, i, b.prefix) = b
      BY DEF PDOf, Binding, RInv, IInv, TypeOK, Bindings
    <3> QED BY <3>1
  <2>3. held' = [b \in DOMAIN held \cup PDOf(c, i) |->
                 IF b \in PDOf(c, i) THEN [left |-> Valid, fresh |-> FALSE] ELSE held[b]]
    BY <1>1, <2>2 DEF Believed
  <2>4. \A b \in PDOf(c, i) : ~(Valid <= db[b])
    BY <1>1, <2>1, PDConfigAssumption DEF RInv, IInv, TypeOK
  <2>5. ASSUME NEW b \in Kept' PROVE b \in Kept
    <3>1. b \in DOMAIN held' /\ b \in DOMAIN db /\ held'[b].left <= db[b]
      BY <1>1, <2>5 DEF Kept
    <3>2. b \notin PDOf(c, i)
      BY <2>3, <2>4, <3>1
    <3>3. b \in DOMAIN held /\ held'[b] = held[b]
      BY <2>3, <3>1, <3>2
    <3> QED BY <3>1, <3>3 DEF Kept
  <2>6. PR' \subseteq PR
    BY <2>5 DEF PR
  <2> QED BY <1>1, <2>6, SameTable, ToLapse
<1> QED BY <1>2, <1>3

(* What clients forget, and what time ends. *)
LEMMA FewerKeptIsLapse ==
  ASSUME RInv, RInv', DOMAIN db' = DOMAIN db, Kept' \subseteq Kept, asking' = asking
  PROVE  Step
<1>1. PR' \subseteq PR
  BY DEF PR
<1> QED BY <1>1, SameTable, ToLapse

LEMMA SolicitIsStep ==
  ASSUME RInv, RInv', NEW c \in Clients, NEW i \in IAIDs, NEW h \in Hints, Solicit(c, i, h),
         <<c, i>> \in asking, asking' = {}
  PROVE  Step
<1>1. CASE UndoExisting(c, i)
  <2>1. PDOf(c, i) \in SUBSET DOMAIN db /\ \A b \in PDOf(c, i) : Owner(b) \in asking
    BY DEF PDOf, Owner
  <2>2. DOMAIN held' = DOMAIN held /\ \A b \in DOMAIN held : held'[b].left = held[b].left
    BY <1>1, DoubtedType DEF UndoExisting, RInv, IInv
  <2> QED BY <1>1, <2>1, <2>2, RemovalIsTakeBack DEF UndoExisting
<1>2. CASE (\E ps \in Assignments(c, i, h) : UndoNew(c, ps)) \/ (NothingLeft(c, i, h) /\ Refuse)
  <2>1. db' = db /\ held' = held
    BY <1>2 DEF UndoNew, Refuse
  <2>2. TB' = TB /\ PR' = PR
    BY <2>1 DEF TB, PR, Kept
  <2> QED BY <2>2, ToAnswered
<1> QED BY <1>1, <1>2 DEF Solicit

LEMMA MessageIsStep ==
  ASSUME RInv, RInv', NEW c \in Clients, NEW i \in IAIDs, Message(c, i), asking' = asking
  PROVE  Step
<1>2. ASSUME NEW h \in Hints, Request(c, i, h) PROVE Step
  <2>1. CASE GiveExisting(c, i)
    BY <2>1, ExistingIsPromiseOrLapse
  <2>2. CASE \E ps \in Assignments(c, i, h) : Register(c, i, ps)
    <3>1. PICK ps \in Assignments(c, i, h) : Register(c, i, ps)
      BY <2>2
    <3>2. Assignable(c, ps) /\ NoBinding(c, i)
      BY AssignmentsAssignable DEF RInv, IInv
    <3> QED BY <3>1, <3>2, RegisterIsGrant
  <2>3. CASE NothingLeft(c, i, h) /\ Refuse
    BY <2>3, FewerKeptIsLapse DEF Refuse, Kept
  <2> QED BY <1>2, <2>1, <2>2, <2>3 DEF Request
<1>3. CASE Renew(c, i)
  <2>1. CASE NoBinding(c, i)
    BY <1>3, <2>1, FewerKeptIsLapse DEF Renew, Refuse, Kept
  <2>2. CASE ~NoBinding(c, i)
    <3>1. /\ db' = [b \in DOMAIN db |-> IF b \in PDOf(c, i) THEN Valid ELSE db[b]]
          /\ held' = Believed(c, i, {b.prefix : b \in PDOf(c, i)}, Valid, TRUE)
      BY <1>3, <2>2 DEF Renew
    <3>2. PDOf(c, i) \subseteq DOMAIN db
      BY DEF PDOf
    <3>3. /\ DOMAIN db' = DOMAIN db
          /\ \A b \in DOMAIN db \ PDOf(c, i) : db'[b] = db[b]
          /\ \A b \in PDOf(c, i) : db'[b] = Valid
      BY <3>1, <3>2
    <3> QED BY <3>1, <3>3, TellIsPromise
  <2> QED BY <2>1, <2>2
<1>4. ASSUME NEW ps, Release(c, i, ps) PROVE Step
  <2> DEFINE bs == PDOf(c, i) \cap {Binding(c, i, p) : p \in ps}
  <2>1. db' = Restrict(db, DOMAIN db \ bs) /\ held' = held /\ bs \cap Kept = {}
    BY <1>4 DEF Release, Kept
  <2>2. bs \in SUBSET DOMAIN db
    BY DEF PDOf
  <2> QED BY <2>1, <2>2, RemovalIsTakeBack
<1>5. CASE Rebind
  BY <1>5, FewerKeptIsLapse DEF Rebind, Kept
<1> QED BY <1>2, <1>3, <1>4, <1>5 DEF Message

LEMMA NextIsStep ==
  ASSUME RInv, RInv', [Next]_vars
  PROVE  Step
<1>0. CASE SolicitStep
  BY <1>0, SolicitIsStep DEF SolicitStep
<1>1. CASE MessageStep
  BY <1>1, MessageIsStep DEF MessageStep
<1>2. CASE RemoveExpired /\ asking' = asking
  <2>1. \A b \in Kept : b \notin Expired
    BY KeptFacts, PDConfigAssumption DEF Expired, RInv
  <2>2. Expired \in SUBSET DOMAIN db /\ Expired \cap Kept = {}
    BY <2>1 DEF Expired
  <2> QED BY <1>2, <2>2, RemovalIsTakeBack DEF RemoveExpired
<1>3. CASE Tick /\ asking' = asking
  <2>1. db' = Aged(db) /\ held' = [b \in StillHeld |-> [held[b] EXCEPT !.left = @ - 1]]
    BY <1>3 DEF Tick
  <2>2. DOMAIN db' = DOMAIN db
        /\ \A b \in DOMAIN db : db'[b] = IF db[b] = 0 THEN 0 ELSE db[b] - 1
    BY <2>1, AgedType DEF RInv, IInv
  <2>3. ASSUME NEW b \in Kept' PROVE b \in Kept
    <3>1. b \in DOMAIN held' /\ b \in DOMAIN db /\ held'[b].left <= db'[b]
      BY <2>2, <2>3 DEF Kept
    <3>2. /\ b \in DOMAIN held /\ held[b] \in [left : 1 .. Valid, fresh : BOOLEAN]
          /\ held[b].left > 1 /\ held'[b] = [held[b] EXCEPT !.left = @ - 1]
      BY <2>1, <3>1 DEF StillHeld, RInv, IInv, TypeOK
    <3>3. held'[b].left = held[b].left - 1 /\ held[b].left \in 1 .. Valid
      BY <3>2
    <3>4. db[b] \in 0 .. Valid /\ db'[b] = IF db[b] = 0 THEN 0 ELSE db[b] - 1
      BY <2>2, <3>1 DEF RInv, IInv, TypeOK
    <3>5. held[b].left <= db[b]
      BY <3>1, <3>2, <3>3, <3>4, PDConfigAssumption
    <3> QED BY <3>1, <3>2, <3>5 DEF Kept
  <2> QED BY <1>3, <2>2, <2>3, FewerKeptIsLapse
<1>4. ASSUME NEW b \in DOMAIN held, Forget(b), asking' = asking PROVE Step
  <2>1. DOMAIN db' = DOMAIN db /\ Kept' \subseteq Kept
    BY <1>4 DEF Forget, Restrict, Kept
  <2> QED BY <1>4, <2>1, FewerKeptIsLapse
<1>5. CASE Restart /\ asking' = asking
  BY <1>5, FewerKeptIsLapse DEF Restart, Kept
<1>6. CASE UNCHANGED <<db, assigned, cache, held>> /\ asking = {} /\ asking' \subseteq IAs
  <2>1. TB' = TB /\ PR' = PR
    BY <1>6 DEF TB, PR, Kept
  <2>2. asking' \subseteq Clients \X IAIDs
    BY <1>6, PDConfigAssumption
  <2> QED BY <1>6, <2>1, <2>2, ToAsk
<1>7. CASE UNCHANGED vars
  <2>1. TB' = TB /\ PR' = PR /\ asking' = asking
    BY <1>7 DEF vars, TB, PR, Kept
  <2> QED BY <2>1, ToStutter
<1> QED BY <1>0, <1>1, <1>2, <1>3, <1>4, <1>5, <1>6, <1>7, StepCases
        DEF OtherStep, NoMessage, RInv, IInv

LEMMA InitIsInit == Init => Table!TableInit
BY DEF Init, NoDB, Table!TableInit, Table!AllFree, OwnerIn, Kept

(* Prefix delegation implements the table of leases, for every value of the    *)
(* constants: an unreserved prefix goes to an IA that has none and only when   *)
(* it is free, to no more than one at a time, and none is taken back while it  *)
(* is promised, but from the IA whose own SOLICIT is being answered.            *)
THEOREM Implements == Spec => ImplementsTable
<1>1. RInv /\ RInv' /\ [Next]_vars => [Table!TableNext]_(Table!tableVars)
  BY NextIsStep DEF Step
<1> QED BY <1>1, InitRInv, NextRInv, InitIsInit, PTL DEF Spec, ImplementsTable, Table!TableSpec
=============================================================================
