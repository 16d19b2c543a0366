-------------------------- MODULE ClntTransProofs --------------------------
(***************************************************************************)
(* Proofs about ClntTrans for every value of its constants.                 *)
(***************************************************************************)
EXTENDS ClntTrans, SequenceTheorems, FiniteSetTheorems,
        WellFoundedInduction, TLAPS

-----------------------------------------------------------------------------
(* Least and greatest elements.  A set of numbers has them because strict     *)
(* inclusion of finite sets is well-founded.                                  *)
LEMMA MinIn ==
  ASSUME NEW S \in SUBSET Nat, S # {}
  PROVE  Min(S) \in S /\ \A y \in S : Min(S) =< y
<1> DEFINE T == {1 .. i : i \in S}
<1>1. T \subseteq FiniteSubsetsOf(Nat) /\ T # {}
  <2>1. \A i \in S : 1 .. i \in SUBSET Nat /\ IsFiniteSet(1 .. i)
    BY FS_Interval
  <2> QED BY <2>1 DEF FiniteSubsetsOf
<1>2. PICK I \in T : \A J \in T : ~ (<<J, I>> \in StrictSubsetOrdering(Nat))
  <2> HIDE DEF T
  <2> QED BY <1>1, FS_StrictSubsetOrderingWellFounded, WFMin
<1>3. PICK x \in S : I = 1 .. x
  OBVIOUS
<1>4. \A y \in S : ~ (y < x)
  <2> SUFFICES ASSUME NEW y \in S, y < x PROVE FALSE
    OBVIOUS
  <2>1. 1 .. y \in SUBSET Nat /\ 1 .. x \in SUBSET Nat /\ 1 .. y \subseteq 1 .. x
    OBVIOUS
  <2>2. x \in 1 .. x /\ x \notin 1 .. y
    OBVIOUS
  <2>3. <<1 .. y, 1 .. x>> \in StrictSubsetOrdering(Nat)
    BY <2>1, <2>2, Zenon DEF StrictSubsetOrdering
  <2> QED BY <1>2, <1>3, <2>3
<1>5. \A y \in S : x =< y
  BY <1>4
<1> QED BY <1>5 DEF Min

LEMMA MaxIn ==
  ASSUME NEW n \in Nat, NEW S \in SUBSET (0 .. n), S # {}
  PROVE  Max(S) \in S /\ \A y \in S : y =< Max(S)
<1> DEFINE T == {x + 1 .. n : x \in S}
<1>1. T \subseteq FiniteSubsetsOf(Nat) /\ T # {}
  <2>1. \A x \in S : x + 1 .. n \in SUBSET Nat /\ IsFiniteSet(x + 1 .. n)
    BY FS_Interval
  <2> QED BY <2>1 DEF FiniteSubsetsOf
<1>2. PICK I \in T : \A J \in T : ~ (<<J, I>> \in StrictSubsetOrdering(Nat))
  <2> HIDE DEF T
  <2> QED BY <1>1, FS_StrictSubsetOrderingWellFounded, WFMin
<1>3. PICK x \in S : I = x + 1 .. n
  OBVIOUS
<1>4. \A y \in S : ~ (x < y)
  <2> SUFFICES ASSUME NEW y \in S, x < y PROVE FALSE
    OBVIOUS
  <2>1. /\ y + 1 .. n \in SUBSET Nat /\ x + 1 .. n \in SUBSET Nat
        /\ y + 1 .. n \subseteq x + 1 .. n
    OBVIOUS
  <2>2. y \in x + 1 .. n /\ y \notin y + 1 .. n
    OBVIOUS
  <2>3. <<y + 1 .. n, x + 1 .. n>> \in StrictSubsetOrdering(Nat)
    BY <2>1, <2>2, Zenon DEF StrictSubsetOrdering
  <2> QED BY <1>2, <1>3, <2>3
<1>5. x \in S /\ \A y \in S : x >= y
  BY <1>4
<1>6. Max(S) \in S /\ \A y \in S : Max(S) >= y
  BY <1>5 DEF Max
<1> QED BY <1>6

LEMMA Caps ==
  /\ RcCap \in Nat /\ RcCap >= 2
  /\ MaxMRD \in Nat /\ CnfMaxRD =< MaxMRD /\ T2 =< MaxMRD /\ Valid =< MaxMRD
<1> USE ConstantsAssumption
<1>1. RcCap \in {ReqMaxRC + 1, DecMaxRC, 2} /\ 2 =< RcCap
  <2> DEFINE n == ReqMaxRC + DecMaxRC + 2
             S == {ReqMaxRC + 1, DecMaxRC, 2}
  <2>1. n \in Nat /\ S \in SUBSET (0 .. n) /\ S # {} /\ 2 \in S
    OBVIOUS
  <2>2. Max(S) \in S /\ \A y \in S : y =< Max(S)
    <3> HIDE DEF n, S
    <3> QED BY <2>1, MaxIn
  <2> QED BY <2>1, <2>2 DEF RcCap
<1>2. /\ MaxMRD \in {CnfMaxRD, T2, Valid}
      /\ \A y \in {CnfMaxRD, T2, Valid} : y =< MaxMRD
  <2> DEFINE n == CnfMaxRD + T2 + Valid
             S == {CnfMaxRD, T2, Valid}
  <2>1. n \in Nat /\ S \in SUBSET (0 .. n) /\ S # {}
    OBVIOUS
  <2>2. Max(S) \in S /\ \A y \in S : y =< Max(S)
    <3> HIDE DEF n, S
    <3> QED BY <2>1, MaxIn
  <2> QED BY <2>2 DEF MaxMRD
<1> QED BY <1>1, <1>2

-----------------------------------------------------------------------------
(* Messages.  A family of messages holds every message that is no RENEW, the  *)
(* RENEWs to known servers, and with a message what sending and waiting make  *)
(* of it.  Whatever the client does, its messages stay in the family.         *)
Family(M) ==
  /\ M \subseteq Messages
  /\ \A m \in Messages : m.type # "RENEW" => m \in M
  /\ \A m \in M : /\ \A rt \in Timeouts : Sent(m, rt) \in M
                  /\ [m EXCEPT !.wait = Less(@)] \in M
  /\ \A S \in SUBSET IAs, d \in 0 .. MaxMRD :
       (\A i \in S : ia[i].duid # 0) => New("RENEW", S, 1, TRUE, d) \in M
KnownMessages ==
  {m \in Messages : m.type = "RENEW" => \A i \in m.ias : ia[i].duid # 0}

LEMMA SentType ==
  ASSUME NEW m \in Messages, NEW rt \in Timeouts
  PROVE  /\ Sent(m, rt) \in Messages
         /\ Sent(m, rt).type = m.type /\ Sent(m, rt).ias = m.ias
<1> USE ConstantsAssumption, Caps
<1>1. /\ m.rc \in 0 .. RcCap /\ m.wait \in 0 .. MaxRT /\ m.mrd \in 0 .. MaxMRD
      /\ rt \in 1 .. MaxRT
  BY DEF Messages, Timeouts
<1>2. Capped(m, rt) \in 0 .. MaxRT /\ (m.mrd # 0 => m.mrd - Capped(m, rt) \in 0 .. MaxMRD)
  BY <1>1 DEF Capped
<1>3. (IF m.rc < RcCap THEN m.rc + 1 ELSE m.rc) \in 0 .. RcCap
  BY <1>1
<1>4. (IF m.mrd = 0 THEN 0 ELSE m.mrd - Capped(m, rt)) \in 0 .. MaxMRD
  BY <1>1, <1>2
<1> QED BY <1>2, <1>3, <1>4 DEF Messages, Sent

LEMMA WaitType ==
  ASSUME NEW m \in Messages
  PROVE  LET w == [m EXCEPT !.wait = Less(@)]
         IN  w \in Messages /\ w.type = m.type /\ w.ias = m.ias
<1>1. m.wait \in 0 .. MaxRT /\ MaxRT \in Nat
  BY ConstantsAssumption DEF Messages
<1>2. Less(m.wait) \in 0 .. MaxRT
  BY <1>1 DEF Less
<1> QED BY <1>2 DEF Messages

LEMMA RenewType ==
  ASSUME NEW S \in SUBSET IAs, NEW d \in 0 .. MaxMRD
  PROVE  /\ New("RENEW", S, 1, TRUE, d) \in Messages
         /\ New("RENEW", S, 1, TRUE, d).ias = S
BY ConstantsAssumption, Caps DEF New, Messages, Types

LEMMA FamilyOfAll == Family(Messages)
<1>1. \A m \in Messages : [m EXCEPT !.wait = Less(@)] \in Messages
  BY WaitType
<1>2. \A m \in Messages, rt \in Timeouts : Sent(m, rt) \in Messages
  BY SentType
<1> QED BY <1>1, <1>2, RenewType, Zenon DEF Family

LEMMA FamilyOfKnown == Family(KnownMessages)
<1>1. \A m \in KnownMessages, rt \in Timeouts : Sent(m, rt) \in KnownMessages
  BY SentType DEF KnownMessages
<1>2. \A m \in KnownMessages : [m EXCEPT !.wait = Less(@)] \in KnownMessages
  BY WaitType DEF KnownMessages
<1>3. \A S \in SUBSET IAs, d \in 0 .. MaxMRD :
        (\A i \in S : ia[i].duid # 0) => New("RENEW", S, 1, TRUE, d) \in KnownMessages
  BY RenewType DEF KnownMessages
<1>4. /\ KnownMessages \subseteq Messages
      /\ \A m \in Messages : m.type # "RENEW" => m \in KnownMessages
  BY DEF KnownMessages
<1> QED BY <1>1, <1>2, <1>3, <1>4, Zenon DEF Family

LEMMA NotRenewIn ==
  ASSUME NEW M, Family(M), NEW t \in Types, t # "RENEW", NEW S \in SUBSET IAs,
         NEW s \in 0 .. 2, NEW d \in 0 .. MaxMRD
  PROVE  New(t, S, s, TRUE, d) \in M /\ New(t, S, s, FALSE, d) \in M
<1>1. /\ New(t, S, s, TRUE, d) \in Messages /\ New(t, S, s, FALSE, d) \in Messages
      /\ New(t, S, s, TRUE, d).type # "RENEW" /\ New(t, S, s, FALSE, d).type # "RENEW"
  BY ConstantsAssumption, Caps DEF New, Messages
<1>2. \A m \in Messages : m.type # "RENEW" => m \in M
  BY DEF Family
<1> QED BY <1>1, <1>2

(* The list of messages. *)
LEMMA WithoutIn ==
  ASSUME NEW M, trans \in Seq(M), NEW k \in DOMAIN trans
  PROVE  Without(k) \in Seq(M)
<1>1. Len(trans) \in Nat /\ DOMAIN trans = 1 .. Len(trans) /\ \A i \in DOMAIN trans : trans[i] \in M
  BY LenProperties, ElementOfSeq
<1>2. SubSeq(trans, 1, k - 1) \in Seq(M)
  BY <1>1, SubSeqProperties
<1>3. SubSeq(trans, k + 1, Len(trans)) \in Seq(M)
  BY <1>1, SubSeqProperties
<1> QED BY <1>2, <1>3, ConcatProperties DEF Without, RemoveAt

LEMMA SentIn ==
  ASSUME NEW M, Family(M), NEW ts \in Seq(M), NEW m \in M, NEW rt \in Timeouts
  PROVE  Append(ts, Sent(m, rt)) \in Seq(M)
<1>1. Sent(m, rt) \in M
  BY DEF Family
<1> QED BY <1>1, AppendProperties

LEMMA StartIn ==
  ASSUME NEW M, Family(M), trans \in Seq(M), NEW m \in M, Start(m)
  PROVE  trans' \in Seq(M)
BY SentIn DEF Start

LEMMA SendRequestIn ==
  ASSUME NEW M, Family(M), trans \in Seq(M), NEW k \in DOMAIN trans,
         NEW S \in SUBSET IAs, NEW s \in 0 .. 2, NEW cid \in BOOLEAN, NEW c, NEW n,
         SendRequest(k, S, s, cid, c, n)
  PROVE  trans' \in Seq(M)
<1>1. Without(k) \in Seq(M)
  BY WithoutIn
<1>2. CASE n = 0
  BY <1>1, <1>2 DEF SendRequest
<1>3. CASE n # 0
  <2> DEFINE m == New("REQUEST", S, Min({s + 1, 2}), cid, 0)
  <2>1. PICK rt \in Timeouts : trans' = Append(Without(k), Sent(m, rt))
    BY <1>3 DEF SendRequest
  <2>2. Min({s + 1, 2}) \in 0 .. 2
    <3>1. {s + 1, 2} \in SUBSET Nat /\ {s + 1, 2} # {}
      OBVIOUS
    <3>2. Min({s + 1, 2}) \in {s + 1, 2}
      BY <3>1, MinIn
    <3>3. \A x \in {s + 1, 2} : x =< 2 => x \in 0 .. 2
      OBVIOUS
    <3>4. Min({s + 1, 2}) =< 2
      <4>1. \E x \in {s + 1, 2} : \A y \in {s + 1, 2} : x =< y
        <5>1. CASE s + 1 =< 2
          BY <5>1
        <5>2. CASE 2 =< s + 1
          BY <5>2
        <5> QED BY <5>1, <5>2
      <4>2. \A y \in {s + 1, 2} : Min({s + 1, 2}) =< y
        BY <4>1 DEF Min
      <4> QED BY <4>2
    <3> QED BY <3>2, <3>3, <3>4
  <2>3. m \in M
    <3>1. "REQUEST" \in Types /\ 0 \in 0 .. MaxMRD
      BY Caps DEF Types
    <3>2. cid = TRUE \/ cid = FALSE
      OBVIOUS
    <3> QED BY <2>2, <3>1, <3>2, NotRenewIn
  <2> HIDE DEF m
  <2> QED BY <1>1, <2>1, <2>3, SentIn
<1> QED BY <1>2, <1>3

(* What the type invariant says of a message and of an IA. *)
LEMMA MessageFacts ==
  ASSUME TypeOK, NEW k \in DOMAIN trans
  PROVE  /\ trans[k] \in Messages /\ trans[k].ias \in SUBSET IAs
         /\ trans[k].sids \in 0 .. 2 /\ trans[k].cid \in BOOLEAN
         /\ k \in Nat \ {0}
<1>1. trans[k] \in Messages /\ k \in Nat \ {0}
  BY LenProperties, ElementOfSeq DEF TypeOK
<1> QED BY <1>1 DEF Messages

LEMMA TimeLeftType ==
  ASSUME TypeOK, NEW S \in SUBSET IAs
  PROVE  TimeLeft(S) \in 0 .. MaxMRD
<1> DEFINE T == {0} \cup {ia[i].left : i \in {j \in S : ia[j].addrs # {}}}
<1>1. T \in SUBSET (0 .. Valid) /\ T # {}
  BY ConstantsAssumption DEF TypeOK, Bindings
<1>2. Max(T) \in T
  <2> HIDE DEF T
  <2> QED BY <1>1, ConstantsAssumption, MaxIn
<1>3. Max(T) \in 0 .. Valid
  BY <1>1, <1>2
<1> QED BY <1>3, Caps, ConstantsAssumption DEF TimeLeft

LEMMA FirstToRenew ==
  ASSUME TypeOK, ToRenew # {}
  PROVE  /\ Min(ToRenew) \in IAs /\ ia[Min(ToRenew)] \in Bindings
         /\ T2 - ia[Min(ToRenew)].age \in 0 .. MaxMRD
<1>1. ToRenew \in SUBSET Nat
  BY DEF ToRenew, IAs
<1>2. Min(ToRenew) \in ToRenew
  BY <1>1, MinIn
<1>3. Min(ToRenew) \in IAs /\ ia[Min(ToRenew)] \in Bindings
  BY <1>2 DEF ToRenew, TypeOK
<1>4. ia[Min(ToRenew)].age \in 0 .. T2
  BY <1>3 DEF Bindings
<1> QED BY <1>3, <1>4, Caps, ConstantsAssumption

(* The messages stay in the family: first the duties ... *)
LEMMA DutiesIn ==
  ASSUME TypeOK, NEW M, Family(M), trans \in Seq(M), Duties
  PROVE  trans' \in Seq(M)
<1>0. \A k \in DOMAIN trans : trans[k] \in M /\ k \in 1 .. Len(trans) /\ Len(trans) \in Nat
  BY LenProperties, ElementOfSeq
<1>1. ASSUME NEW k \in DOMAIN trans, Resend(k) PROVE trans' \in Seq(M)
  <2>1. PICK rt \in Timeouts : trans' = [trans EXCEPT ![k] = Sent(@, rt)]
    BY <1>1 DEF Resend
  <2>2. Sent(trans[k], rt) \in M
    BY <1>0 DEF Family
  <2> QED BY <1>0, <2>1, <2>2, ExceptSeq
<1>2. ASSUME NEW k \in DOMAIN trans, TryServer(k) PROVE trans' \in Seq(M)
  BY <1>2, MessageFacts, SendRequestIn DEF TryServer
<1>3. ASSUME NEW k \in DOMAIN trans, StartRebind(k) PROVE trans' \in Seq(M)
  <2> DEFINE m == New("REBIND", trans[k].ias, 0, TRUE, TimeLeft(trans[k].ias))
  <2>1. PICK rt \in Timeouts : trans' = Append(Without(k), Sent(m, rt))
    BY <1>3 DEF StartRebind
  <2>2. m \in M
    <3>1. "REBIND" \in Types /\ 0 \in 0 .. 2
      BY DEF Types
    <3> QED BY <3>1, MessageFacts, TimeLeftType, NotRenewIn
  <2> HIDE DEF m
  <2> QED BY <2>1, <2>2, WithoutIn, SentIn
<1>4. ASSUME NEW k \in DOMAIN trans, ReleaseIA(k) \/ EndDecline(k) PROVE trans' \in Seq(M)
  BY <1>4, WithoutIn DEF ReleaseIA, EndDecline
<1>5. ASSUME NEW k \in DOMAIN trans, AcceptUnheard(k) PROVE trans' \in Seq(M)
  BY <1>5, WithoutIn, EmptySeq DEF AcceptUnheard, AddrsAccepted, Dies, Gone
<1>6. CASE MessagesDone \/ Expire \/ NoneTentative \/ NothingToRenew \/ Dump
  BY <1>6 DEF MessagesDone, Expire, NoneTentative, NothingToRenew, Dump
<1>7. CASE CheckConfirm
  <2> DEFINE S == {i \in IAs : ia[i].state = "CONFIRMME"}
             m == New("CONFIRM", S, 0, TRUE, CnfMaxRD)
  <2>1. Start(m) \/ trans' = trans
    BY <1>7 DEF CheckConfirm
  <2>2. m \in M
    <3>1. "CONFIRM" \in Types /\ 0 \in 0 .. 2 /\ CnfMaxRD \in 0 .. MaxMRD /\ S \in SUBSET IAs
      BY Caps, ConstantsAssumption DEF Types
    <3> HIDE DEF S
    <3> QED BY <3>1, NotRenewIn
  <2> HIDE DEF m
  <2> QED BY <2>1, <2>2, StartIn
<1>8. ASSUME NEW f \in IAs, NEW S \in SUBSET IAs, NEW b \in [IAs -> Addrs], Decline(f, S, b)
      PROVE  trans' \in Seq(M)
  <2> DEFINE d == New("DECLINE", S \cup {f}, 1, TRUE, 0)
             r == New("REQUEST", S \cup {f}, 1, TRUE, 0)
  <2>1. PICK rt \in Timeouts, ru \in Timeouts : trans' = trans \o <<Sent(d, rt), Sent(r, ru)>>
    BY <1>8 DEF Decline
  <2>2. d \in M /\ r \in M
    <3>1. /\ "DECLINE" \in Types /\ "REQUEST" \in Types /\ 1 \in 0 .. 2 /\ 0 \in 0 .. MaxMRD
          /\ S \cup {f} \in SUBSET IAs
      BY Caps DEF Types
    <3> QED BY <3>1, NotRenewIn
  <2>3. Sent(d, rt) \in M /\ Sent(r, ru) \in M
    <3> HIDE DEF d, r
    <3> QED BY <2>2 DEF Family
  <2>4. <<Sent(d, rt), Sent(r, ru)>> \in Seq(M)
    <3>1. \A x, y \in M : <<x, y>> \in Seq(M)
      OBVIOUS
    <3> HIDE DEF d, r
    <3> QED BY <2>3, <3>1, Zenon
  <2> QED BY <2>1, <2>4, ConcatProperties
<1>9. CASE CheckSolicit
  <2> DEFINE S == {i \in IAs : cfg[i] = "NOTCONFIGURED"}
             m == New("SOLICIT", S, 0, TRUE, 0)
  <2>1. Start(m) \/ trans' = trans
    BY <1>9 DEF CheckSolicit
  <2>2. m \in M
    <3>1. "SOLICIT" \in Types /\ 0 \in 0 .. 2 /\ 0 \in 0 .. MaxMRD /\ S \in SUBSET IAs
      BY Caps DEF Types
    <3> HIDE DEF S
    <3> QED BY <3>1, NotRenewIn
  <2> HIDE DEF m
  <2> QED BY <2>1, <2>2, StartIn
<1>10. CASE CheckRenew
  <2> DEFINE first == ia[Min(ToRenew)]
             S == {i \in ToRenew : ia[i].duid = first.duid}
             m == New("RENEW", S, 1, TRUE, T2 - first.age)
  <2>1. (first.duid # 0 /\ Start(m)) \/ trans' = <<>>
    BY <1>10 DEF CheckRenew, Dies, Gone
  <2>2. CASE trans' = <<>>
    BY <2>2, EmptySeq
  <2>3. CASE first.duid # 0 /\ Start(m)
    <3>1. /\ S \in SUBSET IAs /\ T2 - first.age \in 0 .. MaxMRD
          /\ \A i \in S : ia[i].duid # 0
      BY <1>10, <2>3, FirstToRenew DEF CheckRenew, ToRenew
    <3>2. m \in M
      <4> HIDE DEF first, S
      <4> QED BY <3>1 DEF Family
    <3> HIDE DEF m
    <3> QED BY <2>3, <3>2, StartIn
  <2> QED BY <2>1, <2>2, <2>3
<1> QED BY <1>1, <1>2, <1>3, <1>4, <1>5, <1>6, <1>7, <1>8, <1>9, <1>10 DEF Duties

(* ... then the answers ... *)
LEMMA AnswersIn ==
  ASSUME TypeOK, NEW M, Family(M), trans \in Seq(M), Answer
  PROVE  trans' \in Seq(M)
<1>1. ASSUME NEW k \in DOMAIN trans, Advertise(k) PROVE trans' \in Seq(M)
  <2>1. trans' = trans \/ SendRequest(k, trans[k].ias, 0, TRUE, cfg, advs + 1)
    BY <1>1 DEF Advertise
  <2>2. trans[k].ias \in SUBSET IAs /\ 0 \in 0 .. 2
    BY MessageFacts
  <2>3. \A cid \in BOOLEAN : SendRequest(k, trans[k].ias, 0, cid, cfg, advs + 1)
                                => trans' \in Seq(M)
    BY <2>2, SendRequestIn
  <2>4. SendRequest(k, trans[k].ias, 0, TRUE, cfg, advs + 1) => trans' \in Seq(M)
    BY <2>3, Zenon
  <2> QED BY <2>1, <2>4
<1>2. ASSUME NEW k \in DOMAIN trans, ConfirmReply(k) PROVE trans' \in Seq(M)
  BY <1>2, WithoutIn, EmptySeq DEF ConfirmReply, AddrsAccepted, Dies, Gone
<1>3. ASSUME NEW k \in DOMAIN trans, NotOnLink(k) \/ DeclineReply(k) PROVE trans' \in Seq(M)
  BY <1>3, WithoutIn DEF NotOnLink, DeclineReply
<1>4. ASSUME NEW k \in DOMAIN trans, NEW S \in SUBSET IAs, NEW a, Reply(k, S, a)
      PROVE  trans' \in Seq(M)
  <2> DEFINE c == Set(cfg, S, "CONFIGURED")
             T == trans[k].ias \ S
  <2>1. trans' = Without(k) \/ SendRequest(k, T, 0, FALSE, c, advs)
    BY <1>4 DEF Reply
  <2>2. T \in SUBSET IAs /\ 0 \in 0 .. 2
    BY MessageFacts
  <2> HIDE DEF c, T
  <2>3. \A cid \in BOOLEAN : SendRequest(k, T, 0, cid, c, advs) => trans' \in Seq(M)
    BY <2>2, SendRequestIn
  <2>4. SendRequest(k, T, 0, FALSE, c, advs) => trans' \in Seq(M)
    BY <2>3, Zenon
  <2>5. Without(k) \in Seq(M)
    BY WithoutIn
  <2> QED BY <2>1, <2>4, <2>5
<1>5. ASSUME NEW k \in DOMAIN trans, NEW S \in SUBSET IAs, NEW a, RenewReply(k, S, a)
      PROVE  trans' \in Seq(M)
  BY <1>5, WithoutIn DEF RenewReply
<1>6. ASSUME NEW k \in DOMAIN trans, NEW S \in SUBSET IAs, NEW a, RenewNoBinding(k, S, a)
      PROVE  trans' \in Seq(M)
  <2> DEFINE c == Set(cfg, S, "CONFIGURED")
  <2>1. SendRequest(k, trans[k].ias, trans[k].sids, trans[k].cid, c, advs)
    BY <1>6 DEF RenewNoBinding
  <2> HIDE DEF c
  <2> QED BY <2>1, MessageFacts, SendRequestIn
<1> QED BY <1>1, <1>2, <1>3, <1>4, <1>5, <1>6 DEF Answer

(* ... and the rest. *)
LEMMA MessagesIn ==
  ASSUME TypeOK, NEW M, Family(M), trans \in Seq(M), [Next]_vars
  PROVE  trans' \in Seq(M)
<1>1. CASE Tick
  <2> DEFINE t == [k \in DOMAIN trans |-> [trans[k] EXCEPT !.wait = Less(@)]]
  <2>1. Len(trans) \in Nat /\ DOMAIN trans = 1 .. Len(trans) /\ \A k \in DOMAIN trans : trans[k] \in M
    BY LenProperties, ElementOfSeq
  <2>2. \A k \in 1 .. Len(trans) : [trans[k] EXCEPT !.wait = Less(@)] \in M
    BY <2>1 DEF Family
  <2>3. t \in [1 .. Len(trans) -> M]
    BY <2>1, <2>2
  <2>4. trans' = t
    BY <1>1 DEF Tick
  <2> HIDE DEF t
  <2> QED BY <2>1, <2>3, <2>4, SeqDef
<1>2. CASE TickDown \/ LinkChange \/ Restart \/ UNCHANGED vars
  BY <1>2 DEF TickDown, LinkChange, Restart, vars
<1>3. CASE Shutdown \/ Crash
  BY <1>3, EmptySeq DEF Shutdown, Crash, Gone
<1> QED BY <1>1, <1>2, <1>3, DutiesIn, AnswersIn DEF Next

-----------------------------------------------------------------------------
(* The other variables. *)
Places == {"msgs", "expire", "confirm", "decline", "solicit", "renew", "select",
           "dump", "down", "dead"}
RestOK ==
  /\ pc \in Places /\ pos \in Nat \ {0}
  /\ cfg \in [IAs -> CfgStates] /\ ia \in [IAs -> Bindings]
  /\ advs \in 0 .. MaxAdvs
  /\ disk \in [IAs -> Stored]
  /\ declines \in 0 .. MaxDeclines /\ links \in 0 .. MaxLinkChanges
  /\ crashes \in 0 .. MaxCrashes

LEMMA TypeSplit == TypeOK <=> RestOK /\ trans \in Seq(Messages)
BY DEF TypeOK, RestOK, Places

LEMMA SetType ==
  ASSUME NEW c \in [IAs -> CfgStates], NEW S, NEW v \in CfgStates
  PROVE  Set(c, S, v) \in [IAs -> CfgStates]
BY DEF Set

LEMMA CfgStateFacts ==
  /\ "NOTCONFIGURED" \in CfgStates /\ "INPROCESS" \in CfgStates
  /\ "CONFIGURED" \in CfgStates
BY DEF CfgStates

LEMMA BindingFacts ==
  ASSUME NEW b \in Bindings
  PROVE  /\ b.state \in CfgStates \cup {"CONFIRMME"} /\ b.addrs \in SUBSET Addrs
         /\ b.unk \in SUBSET Addrs /\ b.age \in 0 .. T2 /\ b.left \in 0 .. Valid
         /\ b.duid \in 0 .. N
BY DEF Bindings

LEMMA BindingUpdates ==
  ASSUME NEW b \in Bindings
  PROVE  /\ \A A \in SUBSET Addrs : [b EXCEPT !.addrs = A] \in Bindings
         /\ \A U \in SUBSET Addrs : [b EXCEPT !.unk = U] \in Bindings
         /\ \A l \in 0 .. Valid : [b EXCEPT !.left = l] \in Bindings
         /\ \A g \in 0 .. T2 : [b EXCEPT !.age = g] \in Bindings
         /\ \A st \in CfgStates \cup {"CONFIRMME"} : [b EXCEPT !.state = st] \in Bindings
BY DEF Bindings

LEMMA InStateType ==
  ASSUME RestOK, NEW S, NEW v \in CfgStates \cup {"CONFIRMME"}
  PROVE  InState(S, v) \in [IAs -> Bindings]
<1>1. \A i \in IAs : [ia[i] EXCEPT !.state = v] \in Bindings /\ ia[i] \in Bindings
  BY DEF RestOK, Bindings
<1> QED BY <1>1 DEF InState

LEMMA EmptiedType ==
  ASSUME RestOK, NEW S
  PROVE  Emptied(S) \in [IAs -> Bindings]
<1> DEFINE e(i) == [ia[i] EXCEPT !.addrs = {}, !.unk = {}, !.left = 0,
                                 !.state = "NOTCONFIGURED"]
<1>1. \A i \in IAs : e(i) \in Bindings /\ ia[i] \in Bindings
  <2>1. \A b \in Bindings : [b EXCEPT !.addrs = {}, !.unk = {}, !.left = 0,
                                      !.state = "NOTCONFIGURED"] \in Bindings
    <3>1. {} \in SUBSET Addrs /\ 0 \in 0 .. Valid
      BY ConstantsAssumption
    <3> QED BY <3>1, BindingUpdates, CfgStateFacts
  <2> QED BY <2>1 DEF RestOK
<1>2. Emptied(S) = [i \in IAs |-> IF i \in S THEN e(i) ELSE ia[i]]
  BY DEF Emptied
<1> HIDE DEF e
<1> QED BY <1>1, <1>2

LEMMA NoLeaseType == NoLease \in Bindings
BY ConstantsAssumption, CfgStateFacts DEF NoLease, Bindings

LEMMA DumpedType ==
  ASSUME NEW db \in [IAs -> Bindings]
  PROVE  Dumped(db) \in [IAs -> Stored]
BY ConstantsAssumption DEF Dumped, Stored, NotStored, Bindings

LEMMA LoadedType ==
  ASSUME RestOK, NEW i \in IAs
  PROVE  Loaded(i) \in Bindings
<1>1. /\ disk[i].addrs \in SUBSET Addrs /\ disk[i].left \in 0 .. Valid
      /\ i \in 0 .. N /\ 0 \in 0 .. T2
  BY ConstantsAssumption DEF RestOK, Stored, IAs
<1> QED BY <1>1, NoLeaseType DEF Loaded, Bindings, CfgStates

(* A new object for the DUID of a server: one that no other IA refers to.     *)
(* There is one, for the IAs of a non-empty S leave fewer than N objects in   *)
(* use.                                                                      *)
LEMMA NewDUIDType ==
  ASSUME RestOK, NEW S \in SUBSET IAs, S # {}
  PROVE  NewDUID(S) \in [IAs -> 1 .. N]
<1> DEFINE Used == {ia[i].duid : i \in IAs \ S}
           f == [i \in IAs \ S |-> ia[i].duid]
<1>1. IsFiniteSet(IAs) /\ Cardinality(IAs) = N
  BY ConstantsAssumption, FS_Interval DEF IAs
<1>2. IsFiniteSet(IAs \ S) /\ Cardinality(IAs \ S) < N
  <2>1. IAs \ S \subseteq IAs /\ IAs \ S # IAs
    OBVIOUS
  <2>2. /\ IsFiniteSet(IAs \ S) /\ Cardinality(IAs \ S) =< Cardinality(IAs)
        /\ Cardinality(IAs) = Cardinality(IAs \ S) => IAs = IAs \ S
    BY <1>1, <2>1, FS_Subset
  <2>3. Cardinality(IAs \ S) \in Nat /\ N \in Nat
    BY <2>2, FS_CardinalityType, ConstantsAssumption
  <2> QED BY <1>1, <2>1, <2>2, <2>3
<1>3. IsFiniteSet(Used) /\ Cardinality(Used) =< Cardinality(IAs \ S)
  <2>1. f \in Surjection(IAs \ S, Used)
    BY DEF Surjection
  <2> HIDE DEF f, Used
  <2> QED BY <1>2, <2>1, FS_Surjection
<1>4. (1 .. N) \ Used # {}
  <2> SUFFICES ASSUME 1 .. N \subseteq Used PROVE FALSE
    OBVIOUS
  <2>1. Cardinality(1 .. N) =< Cardinality(Used)
    <3> HIDE DEF Used
    <3> QED BY <1>3, FS_Subset
  <2> QED BY <1>1, <1>2, <1>3, <2>1, FS_CardinalityType, ConstantsAssumption DEF IAs
<1>5. Min((1 .. N) \ Used) \in (1 .. N) \ Used
  <2>1. (1 .. N) \ Used \in SUBSET Nat
    OBVIOUS
  <2> HIDE DEF Used
  <2> QED BY <1>4, <2>1, MinIn
<1>6. NewDUID(S) = [i \in IAs |-> Min((1 .. N) \ Used)]
  BY DEF NewDUID
<1> HIDE DEF Used
<1> QED BY <1>5, <1>6

LEMMA GrantedType ==
  ASSUME RestOK, NEW S \in SUBSET IAs, NEW a \in [IAs -> Addrs], NEW d,
         \A i \in S : a[i] \notin ia[i].addrs => d[i] \in 0 .. N
  PROVE  Granted(S, a, d) \in [IAs -> Bindings]
<1> DEFINE g(i) == [state |-> "CONFIGURED", addrs |-> ia[i].addrs \cup {a[i]},
                    unk |-> IF a[i] \in ia[i].addrs THEN ia[i].unk ELSE ia[i].unk \cup {a[i]},
                    age |-> 0, left |-> Valid,
                    duid |-> IF a[i] \in ia[i].addrs THEN ia[i].duid ELSE d[i]]
<1>1. \A i \in IAs : ia[i] \in Bindings
  BY DEF RestOK
<1>2. \A i \in S : g(i) \in Bindings
  <2> SUFFICES ASSUME NEW i \in S PROVE g(i) \in Bindings
    OBVIOUS
  <2>1. a[i] \in Addrs /\ ia[i].addrs \in SUBSET Addrs /\ ia[i].unk \in SUBSET Addrs
    BY <1>1, BindingFacts
  <2>2. (IF a[i] \in ia[i].addrs THEN ia[i].duid ELSE d[i]) \in 0 .. N
    BY <1>1, BindingFacts
  <2>3. 0 \in 0 .. T2 /\ Valid \in 0 .. Valid
    BY ConstantsAssumption
  <2> QED BY <2>1, <2>2, <2>3, CfgStateFacts DEF Bindings
<1>3. Granted(S, a, d) = [i \in IAs |-> IF i \in S THEN g(i) ELSE ia[i]]
  BY DEF Granted
<1> HIDE DEF g
<1> QED BY <1>1, <1>2, <1>3

LEMMA ReplyGrants ==
  ASSUME RestOK, NEW S \in SUBSET IAs, NEW a \in [IAs -> Addrs]
  PROVE  /\ Granted(S, a, NewDUID({i \in S : a[i] \notin ia[i].addrs})) \in [IAs -> Bindings]
         /\ Granted(S, a, OldDUID) \in [IAs -> Bindings]
<1> DEFINE F == {i \in S : a[i] \notin ia[i].addrs}
<1>1. \A i \in F : NewDUID(F)[i] \in 0 .. N
  <2> SUFFICES ASSUME NEW i \in F PROVE NewDUID(F)[i] \in 0 .. N
    OBVIOUS
  <2>1. F \in SUBSET IAs /\ F # {} /\ i \in IAs
    OBVIOUS
  <2> HIDE DEF F
  <2>2. NewDUID(F) \in [IAs -> 1 .. N]
    BY <2>1, NewDUIDType
  <2> QED BY <2>1, <2>2, ConstantsAssumption
<1>2. \A i \in S : OldDUID[i] \in 0 .. N
  BY BindingFacts DEF OldDUID, RestOK
<1>3. \A i \in S : a[i] \notin ia[i].addrs => NewDUID(F)[i] \in 0 .. N
  BY <1>1
<1> HIDE DEF F
<1>4. Granted(S, a, NewDUID(F)) \in [IAs -> Bindings]
  BY <1>3, GrantedType
<1>5. Granted(S, a, OldDUID) \in [IAs -> Bindings]
  BY <1>2, GrantedType
<1> QED BY <1>4, <1>5 DEF F

LEMMA SendRequestRest ==
  ASSUME NEW c \in [IAs -> CfgStates], NEW n \in 0 .. MaxAdvs + 1,
         NEW k, NEW S, NEW s, NEW cid, SendRequest(k, S, s, cid, c, n)
  PROVE  cfg' \in [IAs -> CfgStates] /\ advs' \in 0 .. MaxAdvs
BY ConstantsAssumption, SetType, CfgStateFacts DEF SendRequest

LEMMA GoneType ==
  ASSUME Gone
  PROVE  /\ cfg' \in [IAs -> CfgStates] /\ ia' \in [IAs -> Bindings]
         /\ advs' \in 0 .. MaxAdvs
BY NoLeaseType, CfgStateFacts, ConstantsAssumption DEF Gone

LEMMA AcceptedType ==
  ASSUME RestOK, NEW k, NEW p \in Places, NEW n \in Nat \ {0}, AddrsAccepted(k, p, n)
  PROVE  /\ pc' \in Places /\ pos' \in Nat \ {0}
         /\ cfg' \in [IAs -> CfgStates] /\ ia' \in [IAs -> Bindings]
         /\ advs' \in 0 .. MaxAdvs /\ crashes' \in 0 .. MaxCrashes
<1>1. CASE Dies
  <2>1. crashes' \in 0 .. MaxCrashes /\ pc' \in Places /\ pos' \in Nat \ {0}
    BY <1>1, ConstantsAssumption DEF Dies, Goto, RestOK, Places
  <2> QED BY <1>1, <2>1, GoneType DEF Dies
<1>2. CASE /\ ia' = InState(trans[k].ias, "CONFIGURED") /\ pc' = p /\ pos' = n
           /\ UNCHANGED <<cfg, advs, crashes>>
  BY <1>2, InStateType, CfgStateFacts DEF RestOK
<1> QED BY <1>1, <1>2 DEF AddrsAccepted

LEMMA RestStep ==
  ASSUME TypeOK, [Next]_vars
  PROVE  RestOK'
<1> USE ConstantsAssumption, CfgStateFacts
<1>0. RestOK /\ \A k \in DOMAIN trans : k \in Nat \ {0} /\ trans[k].ias \in SUBSET IAs
  BY TypeSplit, MessageFacts
<1>1. ASSUME NEW k \in DOMAIN trans, Resend(k) \/ StartRebind(k) \/ EndDecline(k)
      PROVE  RestOK'
  <2>1. k \in Nat \ {0} /\ k + 1 \in Nat \ {0}
    BY <1>0
  <2>2. pos' \in Nat \ {0} /\ UNCHANGED <<pc, cfg, ia, advs, disk, bounds>>
    BY <1>1, <2>1 DEF Resend, StartRebind, EndDecline
  <2> QED BY <1>0, <2>2 DEF RestOK, bounds
<1>2. ASSUME NEW k \in DOMAIN trans, TryServer(k) PROVE RestOK'
  <2>1. /\ pos' = k
        /\ UNCHANGED <<pc, ia, disk, bounds>>
        /\ SendRequest(k, trans[k].ias, trans[k].sids, trans[k].cid, cfg, advs)
    BY <1>2 DEF TryServer
  <2>2. cfg' \in [IAs -> CfgStates] /\ advs' \in 0 .. MaxAdvs
    BY <1>0, <2>1, SendRequestRest DEF RestOK
  <2> QED BY <1>0, <2>1, <2>2 DEF RestOK, bounds
<1>3. ASSUME NEW k \in DOMAIN trans, ReleaseIA(k) PROVE RestOK'
  <2>1. cfg' \in [IAs -> CfgStates] /\ ia' \in [IAs -> Bindings]
    BY <1>0, <1>3, SetType, EmptiedType DEF ReleaseIA, RestOK
  <2> QED BY <1>0, <1>3, <2>1 DEF ReleaseIA, RestOK, bounds
<1>4. ASSUME NEW k \in DOMAIN trans, AcceptUnheard(k) \/ ConfirmReply(k) PROVE RestOK'
  <2>1. /\ AddrsAccepted(k, pc, k) \/ AddrsAccepted(k, "dump", 1)
        /\ UNCHANGED <<disk, declines, links>>
    BY <1>4 DEF AcceptUnheard, ConfirmReply
  <2>2. /\ pc \in Places /\ "dump" \in Places
        /\ k \in Nat \ {0} /\ 1 \in Nat \ {0}
    BY <1>0 DEF RestOK, Places
  <2> QED BY <1>0, <2>1, <2>2, AcceptedType DEF RestOK
<1>5. CASE MessagesDone \/ NothingToRenew
  BY <1>0, <1>5 DEF MessagesDone, NothingToRenew, RestOK, bounds, Goto, Places
<1>6. CASE Expire \/ Dump
  <2>1. ia' \in [IAs -> Bindings] /\ (disk' = Dumped(ia') \/ disk' = Dumped(ia))
    BY <1>0, <1>6, EmptiedType DEF Expire, Dump, RestOK
  <2>2. disk' \in [IAs -> Stored]
    BY <1>0, <2>1, DumpedType DEF RestOK
  <2> QED BY <1>0, <1>6, <2>1, <2>2 DEF Expire, Dump, RestOK, bounds, Goto, Places
<1>7. CASE CheckConfirm \/ CheckSolicit
  <2>1. /\ ia' = ia \/ \E S : ia' = InState(S, "INPROCESS")
        /\ \/ cfg' = cfg \/ cfg' = [cfg EXCEPT ![1] = "INPROCESS"]
           \/ \E S : cfg' = Set(cfg, S, "INPROCESS")
        /\ Goto("decline") \/ Goto("renew")
        /\ UNCHANGED <<advs, disk, bounds>>
    <3>1. CASE CheckConfirm
      BY <3>1, Zenon DEF CheckConfirm
    <3>2. CASE CheckSolicit
      BY <3>2, Zenon DEF CheckSolicit
    <3> QED BY <1>7, <3>1, <3>2
  <2>2. ia' \in [IAs -> Bindings]
    BY <1>0, <2>1, InStateType DEF RestOK
  <2>3. cfg' \in [IAs -> CfgStates]
    BY <1>0, <2>1, SetType DEF RestOK
  <2> QED BY <1>0, <2>1, <2>2, <2>3 DEF RestOK, bounds, Goto, Places
<1>8. ASSUME NEW f \in IAs, NEW S \in SUBSET IAs, NEW b \in [IAs -> Addrs], Decline(f, S, b)
      PROVE  RestOK'
  <2> DEFINE e(i) == [ia[i] EXCEPT !.addrs = @ \ {b[i]}, !.unk = @ \ {b[i]},
                                   !.left = IF ia[i].addrs = {b[i]} THEN 0 ELSE @]
  <2>1. ia' = [i \in IAs |-> IF i \in S \cup {f} THEN e(i) ELSE ia[i]]
    BY <1>8 DEF Decline
  <2>2. \A i \in IAs : e(i) \in Bindings /\ ia[i] \in Bindings
    <3>1. \A x \in Bindings : \A y :
            [x EXCEPT !.addrs = @ \ {y}, !.unk = @ \ {y},
                      !.left = IF x.addrs = {y} THEN 0 ELSE @] \in Bindings
      <4> SUFFICES ASSUME NEW x \in Bindings, NEW y
                   PROVE  [x EXCEPT !.addrs = @ \ {y}, !.unk = @ \ {y},
                             !.left = IF x.addrs = {y} THEN 0 ELSE @] \in Bindings
        OBVIOUS
      <4>1. /\ x.addrs \ {y} \in SUBSET Addrs /\ x.unk \ {y} \in SUBSET Addrs
            /\ (IF x.addrs = {y} THEN 0 ELSE x.left) \in 0 .. Valid
        BY BindingFacts
      <4> QED BY <4>1, BindingUpdates
    <3> QED BY <1>0, <3>1 DEF RestOK
  <2>3. ia' \in [IAs -> Bindings]
    <3> HIDE DEF e
    <3> QED BY <2>1, <2>2
  <2>4. /\ declines < MaxDeclines /\ declines' = declines + 1 /\ pos' = f
        /\ UNCHANGED <<pc, cfg, advs, disk, links, crashes>>
    BY <1>8 DEF Decline
  <2>5. declines' \in 0 .. MaxDeclines /\ pos' \in Nat \ {0}
    BY <1>0, <2>4 DEF RestOK, IAs
  <2> QED BY <1>0, <2>3, <2>4, <2>5 DEF RestOK
<1>9. CASE NoneTentative
  <2> DEFINE e(i) == [ia[i] EXCEPT !.unk = {}]
  <2>1. ia' = [i \in IAs |-> IF DadEnds(i) THEN e(i) ELSE ia[i]]
    BY <1>9 DEF NoneTentative
  <2>2. \A i \in IAs : e(i) \in Bindings /\ ia[i] \in Bindings
    <3>1. \A x \in Bindings : [x EXCEPT !.unk = {}] \in Bindings
      BY DEF Bindings
    <3> QED BY <1>0, <3>1 DEF RestOK
  <2>3. ia' \in [IAs -> Bindings]
    <3> HIDE DEF e
    <3> QED BY <2>1, <2>2
  <2> QED BY <1>0, <1>9, <2>3 DEF NoneTentative, RestOK, bounds, Goto, Places
<1>10. CASE CheckRenew
  <2>1. UNCHANGED <<disk, declines, links>>
    BY <1>10 DEF CheckRenew
  <2>2. CASE Dies
    <3>1. crashes' \in 0 .. MaxCrashes /\ pc' \in Places /\ pos' \in Nat \ {0}
      BY <1>0, <2>2 DEF Dies, Goto, RestOK, Places
    <3> QED BY <1>0, <2>1, <2>2, <3>1, GoneType DEF Dies, RestOK
  <2>3. CASE ~ Dies
    <3>1. /\ \E S : ia' = InState(S, "INPROCESS")
          /\ Goto("select") /\ UNCHANGED <<cfg, advs, crashes>>
      BY <1>10, <2>3, Zenon DEF CheckRenew
    <3>2. ia' \in [IAs -> Bindings]
      BY <1>0, <3>1, InStateType
    <3> QED BY <1>0, <2>1, <3>1, <3>2 DEF RestOK, Goto, Places
  <2> QED BY <2>2, <2>3
<1>11. ASSUME NEW k \in DOMAIN trans, Advertise(k) PROVE RestOK'
  <2>1. cfg' \in [IAs -> CfgStates] /\ advs' \in 0 .. MaxAdvs
    <3>1. advs + 1 \in 0 .. MaxAdvs /\ cfg \in [IAs -> CfgStates]
      BY <1>0, <1>11 DEF Advertise, RestOK
    <3>2. CASE UNCHANGED cfg /\ advs' = advs + 1
      BY <3>1, <3>2
    <3>3. ASSUME NEW S, NEW cid, SendRequest(k, S, 0, cid, cfg, advs + 1)
          PROVE  cfg' \in [IAs -> CfgStates] /\ advs' \in 0 .. MaxAdvs
      <4>1. advs + 1 \in 0 .. MaxAdvs + 1
        BY <3>1
      <4> QED BY <3>1, <3>3, <4>1, SendRequestRest
    <3> QED BY <1>11, <3>2, <3>3, Zenon DEF Advertise
  <2> QED BY <1>0, <1>11, <2>1 DEF Advertise, RestOK, bounds, Goto, Places
<1>12. ASSUME NEW k \in DOMAIN trans, NEW S \in SUBSET IAs, NEW a \in [IAs -> Addrs],
              Reply(k, S, a) \/ RenewReply(k, S, a) \/ RenewNoBinding(k, S, a)
       PROVE  RestOK'
  <2> DEFINE c == Set(cfg, S, "CONFIGURED")
  <2>1. c \in [IAs -> CfgStates]
    BY <1>0, SetType DEF RestOK
  <2>2. ia' \in [IAs -> Bindings]
    <3>1. \/ ia' = Granted(S, a, NewDUID({i \in S : a[i] \notin ia[i].addrs}))
          \/ ia' = Granted(S, a, OldDUID)
      BY <1>12 DEF Reply, RenewReply, RenewNoBinding
    <3> QED BY <1>0, <3>1, ReplyGrants
  <2>3. /\ Goto("dump") /\ UNCHANGED <<disk, bounds>>
        /\ \/ cfg' = c /\ UNCHANGED advs
           \/ \E T, s, cid : SendRequest(k, T, s, cid, c, advs)
    <3> HIDE DEF c
    <3>1. CASE Reply(k, S, a)
      BY <3>1, Zenon DEF Reply, c
    <3>2. CASE RenewReply(k, S, a)
      BY <3>2, Zenon DEF RenewReply, c
    <3>3. CASE RenewNoBinding(k, S, a)
      BY <3>3, Zenon DEF RenewNoBinding, c
    <3> QED BY <1>12, <3>1, <3>2, <3>3
  <2>4. cfg' \in [IAs -> CfgStates] /\ advs' \in 0 .. MaxAdvs
    <3> HIDE DEF c
    <3>1. advs \in 0 .. MaxAdvs + 1 /\ advs \in 0 .. MaxAdvs
      BY <1>0 DEF RestOK
    <3> QED BY <2>1, <2>3, <3>1, SendRequestRest
  <2> QED BY <1>0, <2>2, <2>3, <2>4 DEF RestOK, bounds, Goto, Places
<1>13. ASSUME NEW k \in DOMAIN trans, NotOnLink(k) \/ DeclineReply(k) PROVE RestOK'
  <2>1. cfg' \in [IAs -> CfgStates] /\ ia' \in [IAs -> Bindings]
    BY <1>0, <1>13, SetType, EmptiedType DEF NotOnLink, DeclineReply, RestOK
  <2> QED BY <1>0, <1>13, <2>1 DEF NotOnLink, DeclineReply, RestOK, bounds, Goto, Places
<1>14. CASE Tick \/ TickDown
  <2>1. disk' \in [IAs -> Stored]
    <3>1. \A x \in Stored : [x EXCEPT !.left = Less(@)] \in Stored
      BY DEF Stored, Less
    <3>2. disk' = [i \in IAs |-> [disk[i] EXCEPT !.left = Less(@)]]
      BY <1>14 DEF Tick, TickDown, DiskAged
    <3>3. \A i \in IAs : [disk[i] EXCEPT !.left = Less(@)] \in Stored
      BY <1>0, <3>1 DEF RestOK
    <3> QED BY <3>2, <3>3, Zenon
  <2>2. ia' \in [IAs -> Bindings]
    <3> DEFINE e(i) == [ia[i] EXCEPT !.left = Less(@), !.age = IF @ < T2 THEN @ + 1 ELSE @]
    <3>1. \A x \in Bindings :
            [x EXCEPT !.left = Less(@), !.age = IF @ < T2 THEN @ + 1 ELSE @] \in Bindings
      <4> SUFFICES ASSUME NEW x \in Bindings
                   PROVE  [x EXCEPT !.left = Less(@), !.age = IF @ < T2 THEN @ + 1 ELSE @]
                            \in Bindings
        OBVIOUS
      <4>1. /\ Less(x.left) \in 0 .. Valid
            /\ (IF x.age < T2 THEN x.age + 1 ELSE x.age) \in 0 .. T2
        BY BindingFacts DEF Less
      <4> QED BY <4>1, BindingUpdates
    <3>2. \A i \in IAs : e(i) \in Bindings
      BY <1>0, <3>1 DEF RestOK
    <3>3. ia' = ia \/ ia' = [i \in IAs |-> e(i)]
      BY <1>14 DEF Tick, TickDown
    <3> HIDE DEF e
    <3> QED BY <1>0, <3>2, <3>3 DEF RestOK
  <2>3. /\ Goto("msgs") \/ UNCHANGED <<pc, pos>>
        /\ UNCHANGED <<cfg, advs, bounds>>
    BY <1>14 DEF Tick, TickDown, bounds
  <2> QED BY <1>0, <2>1, <2>2, <2>3 DEF RestOK, bounds, Goto, Places
<1>15. CASE LinkChange
  <2>1. ia' \in [IAs -> Bindings]
    BY <1>0, <1>15, InStateType DEF LinkChange
  <2> QED BY <1>0, <1>15, <2>1 DEF LinkChange, RestOK
<1>16. CASE Shutdown \/ Crash
  <2>1. disk' \in [IAs -> Stored]
    <3>1. NotStored \in Stored
      BY DEF Stored, NotStored
    <3>2. disk' = disk \/ disk' = [i \in IAs |-> NotStored]
      BY <1>16 DEF Shutdown, Crash
    <3> QED BY <1>0, <3>1, <3>2 DEF RestOK
  <2>2. /\ Gone /\ Goto("down")
        /\ crashes' = crashes \/ (crashes < MaxCrashes /\ crashes' = crashes + 1)
        /\ UNCHANGED <<declines, links>>
    <3>1. CASE Shutdown
      BY <3>1 DEF Shutdown, bounds
    <3>2. CASE Crash
      BY <3>2 DEF Crash
    <3> QED BY <1>16, <3>1, <3>2
  <2>3. crashes' \in 0 .. MaxCrashes
    BY <1>0, <2>2 DEF RestOK, bounds
  <2> QED BY <1>0, <2>1, <2>2, <2>3, GoneType DEF RestOK, Goto, Places
<1>17. CASE Restart
  <2>1. ia' \in [IAs -> Bindings]
    BY <1>0, <1>17, LoadedType DEF Restart
  <2> QED BY <1>0, <1>17, <2>1 DEF Restart, RestOK, bounds, Goto, Places
<1>18. CASE UNCHANGED vars
  BY <1>0, <1>18 DEF vars, bounds, RestOK
<1> QED
  BY <1>1, <1>2, <1>3, <1>4, <1>5, <1>6, <1>7, <1>8, <1>9, <1>10, <1>11, <1>12, <1>13,
     <1>14, <1>15, <1>16, <1>17, <1>18, Zenon DEF Next, Duties, Answer

(* Every variable keeps its type: in particular the lists of ADVERTISEs and   *)
(* of messages under way, the timeouts and the lifetimes never leave their    *)
(* range, and there is always an object left for the DUID of a REPLY.         *)
THEOREM TypeCorrect == Spec => []TypeOK
<1>1. Init => TypeOK
  <2> SUFFICES ASSUME Init PROVE TypeOK
    OBVIOUS
  <2>1. RestOK
    BY ConstantsAssumption, NoLeaseType, CfgStateFacts
       DEF Init, RestOK, Places, Stored, NotStored
  <2>2. trans \in Seq(Messages)
    BY EmptySeq DEF Init
  <2> QED BY <2>1, <2>2, TypeSplit
<1>2. TypeOK /\ [Next]_vars => TypeOK'
  <2> SUFFICES ASSUME TypeOK, [Next]_vars PROVE TypeOK'
    OBVIOUS
  <2>1. trans' \in Seq(Messages)
    BY MessagesIn, FamilyOfAll DEF TypeOK
  <2>2. RestOK'
    BY RestStep
  <2> QED BY <2>1, <2>2 DEF TypeOK, RestOK, Places
<1> QED BY <1>1, <1>2, PTL DEF Spec

-----------------------------------------------------------------------------
(* What the client holds while it waits is on the disk and in time.  The      *)
(* invariant is about the whole turn of the loop: Expire brings the file and  *)
(* the database together, and no later duty adds an address.  For the file,   *)
(* which drops the IAs without a server, it also needs that each IA with an   *)
(* address knows its server; RENEW keeps that because it is sent for such IAs *)
(* only, and while one is under way no IA loses its server.                   *)
AfterExpire == {"confirm", "decline", "solicit", "renew", "select"}
Ended == {"down", "dead"}

ServersKnown ==
  /\ trans \in Seq(KnownMessages)
  /\ \A i \in IAs : ia[i].addrs # {} => ia[i].duid # 0
NoneUnderWay == pc \in Ended => trans = <<>>
StoredInTime ==
  pc \in AfterExpire =>
    \A i \in IAs : /\ ia[i].addrs \subseteq disk[i].addrs
                   /\ ia[i].addrs # {} => ia[i].left > 0
Flow == ServersKnown /\ NoneUnderWay /\ StoredInTime

(* The IAs lose addresses at most, and no server. *)
Shrinks ==
  \A i \in IAs : /\ ia'[i].duid = ia[i].duid /\ ia'[i].addrs \subseteq ia[i].addrs
                 /\ ia'[i].addrs # {} => ia'[i].left = ia[i].left

LEMMA KnownKept ==
  ASSUME trans' \in Seq(KnownMessages), \A i \in IAs : ia[i].duid # 0 => ia'[i].duid # 0
  PROVE  trans' \in Seq(KnownMessages')
<1>1. \A m \in Messages : m.ias \in SUBSET IAs
  BY DEF Messages
<1>2. \A m \in KnownMessages : m \in KnownMessages'
  BY <1>1 DEF KnownMessages
<1>3. /\ Len(trans') \in Nat /\ trans' \in [1 .. Len(trans') -> KnownMessages]
  BY LenProperties
<1>4. trans' \in [1 .. Len(trans') -> KnownMessages']
  BY <1>2, <1>3
<1> QED BY <1>3, <1>4, SeqDef

LEMMA ShrinkingFlow ==
  ASSUME Flow, Shrinks, trans' \in Seq(KnownMessages), disk' = disk,
         pc' \in AfterExpire => pc \in AfterExpire, pc' \notin Ended
  PROVE  Flow'
<1>1. trans' \in Seq(KnownMessages')
  BY KnownKept DEF Shrinks
<1>2. \A i \in IAs : ia'[i].addrs # {} => ia'[i].duid # 0
  BY DEF Flow, ServersKnown, Shrinks
<1>3. StoredInTime'
  BY DEF Flow, StoredInTime, Shrinks
<1> QED BY <1>1, <1>2, <1>3 DEF Flow, ServersKnown, NoneUnderWay

LEMMA GoneFlow ==
  ASSUME Gone, pc' \in Ended
  PROVE  Flow'
<1>1. trans' = <<>> /\ \A i \in IAs : ia'[i].addrs = {}
  BY DEF Gone, NoLease
<1>2. pc' \notin AfterExpire
  BY DEF Ended, AfterExpire
<1> QED BY <1>1, <1>2, EmptySeq DEF Flow, ServersKnown, NoneUnderWay, StoredInTime

LEMMA InStateShrinks ==
  ASSUME TypeOK, NEW S, NEW v, ia' = InState(S, v)
  PROVE  Shrinks
<1>1. \A b \in Bindings : LET e == [b EXCEPT !.state = v] IN
        e.duid = b.duid /\ e.addrs = b.addrs /\ e.left = b.left
  BY DEF Bindings
<1>2. \A i \in IAs : ia[i] \in Bindings /\ ia'[i] \in {ia[i], [ia[i] EXCEPT !.state = v]}
  BY DEF InState, TypeOK
<1> QED BY <1>1, <1>2 DEF Shrinks

LEMMA EmptiedFacts ==
  ASSUME TypeOK, NEW S, NEW i \in IAs
  PROVE  /\ Emptied(S)[i].duid = ia[i].duid
         /\ i \in S => Emptied(S)[i].addrs = {}
         /\ i \notin S => Emptied(S)[i] = ia[i]
<1>1. \A b \in Bindings :
        LET e == [b EXCEPT !.addrs = {}, !.unk = {}, !.left = 0, !.state = "NOTCONFIGURED"]
        IN  e.duid = b.duid /\ e.addrs = {}
  BY DEF Bindings
<1>2. ia[i] \in Bindings
  BY DEF TypeOK
<1> QED BY <1>1, <1>2 DEF Emptied

LEMMA EmptiedShrinks ==
  ASSUME TypeOK, NEW S, ia' = Emptied(S)
  PROVE  Shrinks
BY EmptiedFacts DEF Shrinks

(* What a REPLY grants has a server. *)
LEMMA GrantedServers ==
  ASSUME TypeOK, Flow, NEW S \in SUBSET IAs, NEW a, NEW d,
         \A i \in S : a[i] \notin ia[i].addrs => d[i] # 0,
         ia' = Granted(S, a, d)
  PROVE  /\ \A i \in IAs : ia[i].duid # 0 => ia'[i].duid # 0
         /\ \A i \in IAs : ia'[i].addrs # {} => ia'[i].duid # 0
<1> SUFFICES ASSUME NEW i \in IAs
             PROVE  /\ ia[i].duid # 0 => ia'[i].duid # 0
                    /\ ia'[i].addrs # {} => ia'[i].duid # 0
  OBVIOUS
<1>1. CASE i \notin S
  BY <1>1 DEF Granted, Flow, ServersKnown
<1>2. CASE i \in S
  <2>1. ia'[i].duid = IF a[i] \in ia[i].addrs THEN ia[i].duid ELSE d[i]
    BY <1>2 DEF Granted
  <2> QED BY <1>2, <2>1 DEF Flow, ServersKnown
<1> QED BY <1>1, <1>2

LEMMA DeclineShrinks ==
  ASSUME TypeOK, NEW f \in IAs, NEW S \in SUBSET IAs, NEW b, Decline(f, S, b)
  PROVE  Shrinks
<1>1. \A i \in IAs :
        /\ ia[i] \in Bindings
        /\ ia'[i] \in {ia[i], [ia[i] EXCEPT !.addrs = @ \ {b[i]}, !.unk = @ \ {b[i]},
                              !.left = IF ia[i].addrs = {b[i]} THEN 0 ELSE @]}
  BY DEF Decline, TypeOK
<1>2. ASSUME NEW i \in IAs
      PROVE  /\ ia'[i].duid = ia[i].duid /\ ia'[i].addrs \subseteq ia[i].addrs
             /\ ia'[i].addrs # {} => ia'[i].left = ia[i].left
  <2>1. CASE ia'[i] = ia[i]
    BY <2>1
  <2>2. CASE ia'[i] = [ia[i] EXCEPT !.addrs = @ \ {b[i]}, !.unk = @ \ {b[i]},
                                    !.left = IF ia[i].addrs = {b[i]} THEN 0 ELSE @]
    <3>1. /\ ia'[i].duid = ia[i].duid /\ ia'[i].addrs = ia[i].addrs \ {b[i]}
          /\ ia'[i].left = IF ia[i].addrs = {b[i]} THEN 0 ELSE ia[i].left
      <4> DEFINE x == ia[i]
                 y == b[i]
      <4>1. x \in Bindings /\ ia'[i] = [x EXCEPT !.addrs = @ \ {y}, !.unk = @ \ {y},
                                               !.left = IF x.addrs = {y} THEN 0 ELSE @]
        BY <1>1, <2>2
      <4> HIDE DEF x, y
      <4>2. /\ ia'[i].duid = x.duid /\ ia'[i].addrs = x.addrs \ {y}
            /\ ia'[i].left = IF x.addrs = {y} THEN 0 ELSE x.left
        BY <4>1 DEF Bindings
      <4> QED BY <4>2 DEF x, y
    <3> QED BY <3>1
  <2> QED BY <1>1, <2>1, <2>2
<1> QED BY <1>2 DEF Shrinks

LEMMA FlowStep ==
  ASSUME TypeOK, Flow, [Next]_vars
  PROVE  Flow'
<1>0. trans' \in Seq(KnownMessages)
  BY MessagesIn, FamilyOfKnown DEF Flow, ServersKnown
<1>1. ASSUME NEW k \in DOMAIN trans,
             Resend(k) \/ TryServer(k) \/ StartRebind(k) \/ EndDecline(k)
      PROVE  Flow'
  <2>1. ia' = ia /\ disk' = disk /\ pc' = pc /\ pc = "msgs"
    BY <1>1 DEF Resend, TryServer, StartRebind, EndDecline, NextDue
  <2> QED BY <1>0, <2>1, ShrinkingFlow DEF Shrinks, AfterExpire, Ended
<1>2. ASSUME NEW k \in DOMAIN trans, ReleaseIA(k) \/ NotOnLink(k)
      PROVE  Flow'
  <2>1. /\ ia' = Emptied(trans[k].ias) /\ disk' = disk
        /\ pc' \in {"msgs", "dump"}
    BY <1>2 DEF ReleaseIA, NotOnLink, NextDue, Goto
  <2>2. pc' \notin AfterExpire /\ pc' \notin Ended
    BY <2>1 DEF AfterExpire, Ended
  <2> QED BY <1>0, <2>1, <2>2, EmptiedShrinks, ShrinkingFlow
<1>3. ASSUME NEW k \in DOMAIN trans, AcceptUnheard(k) \/ ConfirmReply(k)
      PROVE  Flow'
  <2>1. CASE Dies
    BY <2>1, GoneFlow DEF Dies, Goto, Ended
  <2>2. CASE ~ Dies
    <3>1. /\ ia' = InState(trans[k].ias, "CONFIGURED") /\ disk' = disk
          /\ pc' \in {"msgs", "dump"}
      BY <1>3, <2>2 DEF AcceptUnheard, ConfirmReply, AddrsAccepted, NextDue
    <3>2. pc' \notin AfterExpire /\ pc' \notin Ended
      BY <3>1 DEF AfterExpire, Ended
    <3> QED BY <1>0, <3>1, <3>2, InStateShrinks, ShrinkingFlow
  <2> QED BY <2>1, <2>2
<1>4. CASE MessagesDone \/ NothingToRenew
  <2>1. /\ ia' = ia /\ disk' = disk
        /\ pc' = "expire" \/ (pc = "renew" /\ pc' = "select")
    BY <1>4 DEF MessagesDone, NothingToRenew, Goto
  <2> QED BY <1>0, <2>1, ShrinkingFlow DEF Shrinks, AfterExpire, Ended
<1>5. CASE Expire
  <2>1. ia' = Emptied(Expired) /\ disk' = Dumped(ia') /\ pc' = "confirm"
    BY <1>5 DEF Expire, Goto
  <2>2. Shrinks
    BY <2>1, EmptiedShrinks
  <2>3. trans' \in Seq(KnownMessages')
    BY <1>0, <2>2, KnownKept DEF Shrinks
  <2>4. \A i \in IAs : ia'[i].addrs # {} => ia'[i].duid # 0
    BY <2>2 DEF Flow, ServersKnown, Shrinks
  <2>5. \A i \in IAs : ia'[i].addrs # {} => ia'[i].left > 0
    <3> SUFFICES ASSUME NEW i \in IAs, ia'[i].addrs # {} PROVE ia'[i].left > 0
      OBVIOUS
    <3>1. i \notin Expired /\ ia'[i] = ia[i]
      BY <2>1, EmptiedFacts
    <3>2. ia[i].left \in Nat
      BY ConstantsAssumption DEF TypeOK, Bindings
    <3> QED BY <3>1, <3>2 DEF Expired
  <2>6. \A i \in IAs : ia'[i].addrs \subseteq disk'[i].addrs
    BY <2>1, <2>4 DEF Dumped
  <2> QED BY <2>1, <2>3, <2>4, <2>5, <2>6
          DEF Flow, ServersKnown, NoneUnderWay, StoredInTime, Ended
<1>6. CASE Dump
  <2>1. ia' = ia /\ pc' = "msgs"
    BY <1>6 DEF Dump, Goto
  <2>2. trans' \in Seq(KnownMessages')
    BY <1>0, <2>1, KnownKept
  <2> QED BY <2>1, <2>2
          DEF Flow, ServersKnown, NoneUnderWay, StoredInTime, Ended, AfterExpire
<1>7. CASE CheckConfirm \/ CheckSolicit
  <2>1. /\ ia' = ia \/ \E S : ia' = InState(S, "INPROCESS")
        /\ disk' = disk
        /\ pc = "confirm" \/ pc = "solicit"
        /\ pc' = "decline" \/ pc' = "renew"
    <3>1. CASE CheckConfirm
      BY <3>1, Zenon DEF CheckConfirm, Goto
    <3>2. CASE CheckSolicit
      BY <3>2, Zenon DEF CheckSolicit, Goto
    <3> QED BY <1>7, <3>1, <3>2
  <2>2. Shrinks
    <3>1. CASE ia' = ia
      BY <3>1 DEF Shrinks
    <3> QED BY <2>1, <3>1, InStateShrinks
  <2>3. pc \in AfterExpire /\ pc' \notin Ended
    BY <2>1 DEF AfterExpire, Ended
  <2> QED BY <1>0, <2>1, <2>2, <2>3, ShrinkingFlow
<1>8. ASSUME NEW f \in IAs, NEW S \in SUBSET IAs, NEW b \in [IAs -> Addrs], Decline(f, S, b)
      PROVE  Flow'
  <2>1. disk' = disk /\ pc' = pc /\ pc = "decline"
    BY <1>8 DEF Decline
  <2>2. Shrinks
    BY <1>8, DeclineShrinks
  <2> QED BY <1>0, <2>1, <2>2, ShrinkingFlow DEF AfterExpire, Ended
<1>9. CASE NoneTentative
  <2>1. /\ disk' = disk /\ pc = "decline" /\ pc' = "solicit"
        /\ \A i \in IAs : ia'[i] \in {ia[i], [ia[i] EXCEPT !.unk = {}]} /\ ia[i] \in Bindings
    BY <1>9 DEF NoneTentative, Goto, TypeOK
  <2>2. \A x \in Bindings : LET e == [x EXCEPT !.unk = {}] IN
          e.duid = x.duid /\ e.addrs = x.addrs /\ e.left = x.left
    BY DEF Bindings
  <2>3. Shrinks
    BY <2>1, <2>2 DEF Shrinks
  <2> QED BY <1>0, <2>1, <2>3, ShrinkingFlow DEF AfterExpire, Ended
<1>10. CASE CheckRenew
  <2>1. CASE Dies
    BY <2>1, GoneFlow DEF Dies, Goto, Ended
  <2>2. CASE ~ Dies
    <3>1. /\ \E S : ia' = InState(S, "INPROCESS")
          /\ disk' = disk /\ pc = "renew" /\ pc' = "select"
      BY <1>10, <2>2, Zenon DEF CheckRenew, Goto
    <3>2. Shrinks
      BY <3>1, InStateShrinks
    <3> QED BY <1>0, <3>1, <3>2, ShrinkingFlow DEF AfterExpire, Ended
  <2> QED BY <2>1, <2>2
<1>11. ASSUME NEW k \in DOMAIN trans, Advertise(k) \/ DeclineReply(k) PROVE Flow'
  <2>1. ia' = ia /\ disk' = disk /\ pc' = "dump"
    BY <1>11 DEF Advertise, DeclineReply, Goto
  <2> QED BY <1>0, <2>1, ShrinkingFlow DEF Shrinks, AfterExpire, Ended
<1>12. ASSUME NEW k \in DOMAIN trans, NEW S \in SUBSET IAs, NEW a \in [IAs -> Addrs],
              Reply(k, S, a) \/ RenewReply(k, S, a) \/ RenewNoBinding(k, S, a)
       PROVE  Flow'
  <2>1. pc' = "dump"
    BY <1>12 DEF Reply, RenewReply, RenewNoBinding, Goto
  <2>2. /\ \A i \in IAs : ia[i].duid # 0 => ia'[i].duid # 0
        /\ \A i \in IAs : ia'[i].addrs # {} => ia'[i].duid # 0
    <3>1. CASE Reply(k, S, a)
      <4> DEFINE F == {i \in S : a[i] \notin ia[i].addrs}
      <4>1. \A i \in F : NewDUID(F)[i] # 0
        <5> SUFFICES ASSUME NEW i \in F PROVE NewDUID(F)[i] # 0
          OBVIOUS
        <5>1. F \in SUBSET IAs /\ F # {} /\ i \in IAs
          OBVIOUS
        <5> HIDE DEF F
        <5>2. NewDUID(F) \in [IAs -> 1 .. N]
          BY <5>1, NewDUIDType, TypeSplit
        <5> QED BY <5>1, <5>2
      <4>2. ia' = Granted(S, a, NewDUID(F))
        BY <3>1 DEF Reply
      <4>3. \A i \in S : a[i] \notin ia[i].addrs => NewDUID(F)[i] # 0
        BY <4>1
      <4> HIDE DEF F
      <4> QED BY <4>2, <4>3, GrantedServers
    <3>2. CASE RenewReply(k, S, a) \/ RenewNoBinding(k, S, a)
      <4>1. /\ ia' = Granted(S, a, OldDUID)
            /\ trans[k].type = "RENEW" /\ S \subseteq trans[k].ias
        BY <3>2 DEF RenewReply, RenewNoBinding, Answered
      <4>2. trans[k] \in KnownMessages
        BY LenProperties, ElementOfSeq DEF Flow, ServersKnown
      <4>3. \A i \in S : OldDUID[i] # 0
        BY <4>1, <4>2 DEF KnownMessages, OldDUID
      <4>4. \A i \in S : a[i] \notin ia[i].addrs => OldDUID[i] # 0
        BY <4>3
      <4> DEFINE d == OldDUID
      <4> HIDE DEF d
      <4>5. ia' = Granted(S, a, d) /\ \A i \in S : a[i] \notin ia[i].addrs => d[i] # 0
        BY <4>1, <4>4 DEF d
      <4> QED BY <4>5, GrantedServers
    <3> QED BY <1>12, <3>1, <3>2
  <2>3. trans' \in Seq(KnownMessages')
    BY <1>0, <2>2, KnownKept
  <2> QED BY <2>1, <2>2, <2>3
          DEF Flow, ServersKnown, NoneUnderWay, StoredInTime, Ended, AfterExpire
<1>13. CASE Tick
  <2>1. /\ pc' = "msgs"
        /\ \A i \in IAs : /\ ia[i] \in Bindings
                          /\ ia'[i] = [ia[i] EXCEPT !.left = Less(@),
                                                   !.age = IF @ < T2 THEN @ + 1 ELSE @]
    BY <1>13 DEF Tick, Goto, TypeOK
  <2>2. \A x \in Bindings :
          LET e == [x EXCEPT !.left = Less(@), !.age = IF @ < T2 THEN @ + 1 ELSE @]
          IN  e.duid = x.duid /\ e.addrs = x.addrs
    BY DEF Bindings
  <2>3. \A i \in IAs : ia'[i].duid = ia[i].duid /\ ia'[i].addrs = ia[i].addrs
    BY <2>1, <2>2
  <2>4. trans' \in Seq(KnownMessages')
    BY <1>0, <2>3, KnownKept
  <2> QED BY <2>1, <2>3, <2>4
          DEF Flow, ServersKnown, NoneUnderWay, StoredInTime, Ended, AfterExpire
<1>14. CASE TickDown
  <2>1. ia' = ia /\ trans' = trans /\ pc' = pc /\ pc \in Ended
    BY <1>14 DEF TickDown, Ended
  <2>2. trans' \in Seq(KnownMessages')
    BY <1>0, <2>1, KnownKept
  <2> QED BY <2>1, <2>2
          DEF Flow, ServersKnown, NoneUnderWay, StoredInTime, Ended, AfterExpire
<1>15. CASE LinkChange
  <2>1. disk' = disk /\ pc' = "msgs"
    BY <1>15 DEF LinkChange
  <2>2. Shrinks
    BY <1>15, InStateShrinks DEF LinkChange
  <2> QED BY <1>0, <2>1, <2>2, ShrinkingFlow DEF AfterExpire, Ended
<1>16. CASE Shutdown \/ Crash
  BY <1>16, GoneFlow DEF Shutdown, Crash, Goto, Ended
<1>17. CASE Restart
  <2>1. pc' = "msgs" /\ trans' = <<>>
    BY <1>17 DEF Restart, Goto, Flow, NoneUnderWay, Ended
  <2>2. \A i \in IAs : ia'[i].addrs # {} => ia'[i].duid # 0
    <3> SUFFICES ASSUME NEW i \in IAs, Loaded(i).addrs # {} PROVE Loaded(i).duid # 0
      BY <1>17 DEF Restart
    <3> QED BY DEF Loaded, NoLease, IAs
  <2> QED BY <2>1, <2>2, EmptySeq
          DEF Flow, ServersKnown, NoneUnderWay, StoredInTime, Ended, AfterExpire
<1>18. CASE UNCHANGED vars
  BY <1>18 DEF vars, Flow, ServersKnown, NoneUnderWay, StoredInTime, KnownMessages
<1> QED
  BY <1>1, <1>2, <1>3, <1>4, <1>5, <1>6, <1>7, <1>8, <1>9, <1>10, <1>11, <1>12, <1>13,
     <1>14, <1>15, <1>16, <1>17, <1>18, Zenon DEF Next, Duties, Answer

LEMMA FlowHolds == Spec => []Flow
<1>1. Init => Flow
  BY EmptySeq DEF Init, Flow, ServersKnown, NoneUnderWay, StoredInTime, NoLease, AfterExpire
<1>2. TypeOK /\ Flow /\ [Next]_vars => Flow'
  BY FlowStep
<1> QED BY <1>1, <1>2, TypeCorrect, PTL DEF Spec

(* Whatever the client waits with, a restart would find: the file written on  *)
(* the last turn holds every address of the database, in whatever order       *)
(* answers, DECLINEs, crashes, link changes and restarts came.                *)
THEOREM OnDisk == Spec => []LeaseOnDisk
<1>1. Flow => LeaseOnDisk
  BY DEF Flow, StoredInTime, LeaseOnDisk, AfterExpire
<1> QED BY <1>1, FlowHolds, PTL

(* The client never waits with an address whose valid lifetime is over, the   *)
(* ones read back after a crash or kept through a link change included.       *)
THEOREM NoneExpired == Spec => []NoExpiredInUse
<1>1. Flow => NoExpiredInUse
  BY DEF Flow, StoredInTime, NoExpiredInUse, AfterExpire
<1> QED BY <1>1, FlowHolds, PTL
-----------------------------------------------------------------------------
(* The list without a message, and with one more. *)
LEMMA WithoutAt ==
  ASSUME trans \in Seq(Messages), NEW k \in DOMAIN trans
  PROVE  /\ Without(k) \in Seq(Messages) /\ Len(trans) \in Nat /\ k \in 1 .. Len(trans)
         /\ Len(Without(k)) = Len(trans) - 1 /\ DOMAIN Without(k) = 1 .. Len(trans) - 1
         /\ \A j \in 1 .. Len(trans) - 1 : Without(k)[j] = trans[IF j < k THEN j ELSE j + 1]
<1>1. Len(trans) \in Nat /\ DOMAIN trans = 1 .. Len(trans) /\ \A i \in DOMAIN trans : trans[i] \in Messages
  BY LenProperties, ElementOfSeq
<1> DEFINE A == SubSeq(trans, 1, k - 1)
           B == SubSeq(trans, k + 1, Len(trans))
<1>2. /\ A \in Seq(Messages) /\ Len(A) = k - 1
      /\ \A i \in 1 .. k - 1 : A[i] = trans[i]
  <2>1. /\ A \in Seq(Messages) /\ Len(A) = IF 1 <= k - 1 THEN (k - 1) - 1 + 1 ELSE 0
        /\ \A i \in 1 .. (k - 1) - 1 + 1 : A[i] = trans[1 + i - 1]
    BY <1>1, SubSeqProperties
  <2> HIDE DEF A
  <2>2. \A i \in 1 .. k - 1 : 1 + i - 1 = i /\ i \in 1 .. (k - 1) - 1 + 1
    BY <1>1
  <2> QED BY <1>1, <2>1, <2>2
<1>3. /\ B \in Seq(Messages) /\ Len(B) = Len(trans) - k
      /\ \A i \in 1 .. Len(trans) - k : B[i] = trans[k + i]
  <2>1. /\ B \in Seq(Messages)
        /\ Len(B) = IF k + 1 <= Len(trans) THEN Len(trans) - (k + 1) + 1 ELSE 0
        /\ \A i \in 1 .. Len(trans) - (k + 1) + 1 : B[i] = trans[(k + 1) + i - 1]
    BY <1>1, SubSeqProperties
  <2> HIDE DEF B
  <2>2. \A i \in 1 .. Len(trans) - k :
          (k + 1) + i - 1 = k + i /\ i \in 1 .. Len(trans) - (k + 1) + 1
    BY <1>1
  <2> QED BY <1>1, <2>1, <2>2
<1> HIDE DEF A, B
<1>4. /\ A \o B \in Seq(Messages) /\ Len(A \o B) = (k - 1) + (Len(trans) - k)
      /\ \A i \in 1 .. (k - 1) + (Len(trans) - k) :
           (A \o B)[i] = IF i <= k - 1 THEN A[i] ELSE B[i - (k - 1)]
  <2>1. /\ A \o B \in Seq(Messages) /\ Len(A \o B) = Len(A) + Len(B)
        /\ \A i \in 1 .. Len(A) + Len(B) :
             (A \o B)[i] = IF i <= Len(A) THEN A[i] ELSE B[i - Len(A)]
    BY <1>2, <1>3, ConcatProperties, Zenon
  <2>2. Len(A) = k - 1 /\ Len(B) = Len(trans) - k
    BY <1>2, <1>3
  <2> QED BY <2>1, <2>2
<1>5. Without(k) = A \o B
  BY DEF Without, RemoveAt, A, B
<1>6. ASSUME NEW j \in 1 .. Len(trans) - 1
      PROVE  Without(k)[j] = trans[IF j < k THEN j ELSE j + 1]
  <2>1. CASE j < k
    <3>1. j <= k - 1 /\ j \in 1 .. k - 1 /\ j \in 1 .. (k - 1) + (Len(trans) - k)
      BY <1>1, <2>1
    <3> QED BY <1>2, <1>4, <1>5, <2>1, <3>1
  <2>2. CASE ~(j < k)
    <3>1. /\ ~(j <= k - 1) /\ j - (k - 1) \in 1 .. Len(trans) - k /\ k + (j - (k - 1)) = j + 1
          /\ j \in 1 .. (k - 1) + (Len(trans) - k)
      BY <1>1, <2>2
    <3> QED BY <1>3, <1>4, <1>5, <2>2, <3>1
  <2> QED BY <2>1, <2>2
<1>7. (k - 1) + (Len(trans) - k) = Len(trans) - 1
  BY <1>1
<1>8. Without(k) \in Seq(Messages) /\ Len(Without(k)) = Len(trans) - 1
  BY <1>4, <1>5, <1>7
<1>9. DOMAIN Without(k) = 1 .. Len(trans) - 1
  BY <1>8, LenProperties
<1> QED BY <1>1, <1>6, <1>8, <1>9

LEMMA AppendAt ==
  ASSUME NEW ts \in Seq(Messages), NEW m \in Messages
  PROVE  /\ Append(ts, m) \in Seq(Messages) /\ Len(ts) \in Nat /\ DOMAIN ts = 1 .. Len(ts)
         /\ DOMAIN Append(ts, m) = 1 .. Len(ts) + 1
         /\ Append(ts, m)[Len(ts) + 1] = m
         /\ \A j \in 1 .. Len(ts) : Append(ts, m)[j] = ts[j]
BY LenProperties, AppendProperties

-----------------------------------------------------------------------------
(* What is left of a turn of the loop before the client waits again: the phases; *)
(* in "msgs" the messages that are due and that the pass has yet to come to,    *)
(* in "decline" the addresses whose detection is not over.                    *)
PhasesLeft ==
  CASE pc = "dump" -> 7 [] pc = "msgs" -> 6 [] pc = "expire" -> 5 [] pc = "confirm" -> 4
    [] pc = "decline" -> 3 [] pc = "solicit" -> 2 [] pc = "renew" -> 1 [] OTHER -> 0
DueAhead == {k \in pos .. Len(trans) : Due(trans[k])}
Tentative == {p \in IAs \X Addrs : p[2] \in ia[p[1]].unk}
ItemsLeft ==
  CASE pc = "msgs" -> Cardinality(DueAhead) [] pc = "decline" -> Cardinality(Tentative)
    [] OTHER -> 0

LessNat == {p \in Nat \X Nat : p[1] < p[2]}
TurnOrder == LexPairOrdering(LessNat, LessNat, Nat, Nat)
LessLeft == <<<<PhasesLeft', ItemsLeft'>>, <<PhasesLeft, ItemsLeft>>>> \in TurnOrder
TurnWearsOff == [][Duties => LessLeft]_vars

LEMMA TurnOrderEnds == IsWellFoundedOn(TurnOrder, Nat \X Nat)
<1>1. ASSUME NEW T \in SUBSET Nat, T # {}
      PROVE  \E x \in T : \A y \in T : ~ (<<y, x>> \in LessNat)
  <2>1. Min(T) \in T /\ \A y \in T : Min(T) =< y /\ Min(T) \in Nat /\ y \in Nat
    BY <1>1, MinIn
  <2>2. \A y \in T : ~ (<<y, Min(T)>> \in LessNat)
    BY <2>1 DEF LessNat
  <2> QED BY <2>1, <2>2
<1>2. IsWellFoundedOn(LessNat, Nat)
  BY <1>1, MinWF
<1> QED BY <1>2, WFLexPairOrdering DEF TurnOrder

LEMMA DueFinite ==
  ASSUME TypeOK
  PROVE  IsFiniteSet(DueAhead) /\ Cardinality(DueAhead) \in Nat
<1>1. pos \in Nat \ {0} /\ Len(trans) \in Nat
  BY LenProperties DEF TypeOK
<1>2. IsFiniteSet(pos .. Len(trans)) /\ DueAhead \in SUBSET (pos .. Len(trans))
  BY <1>1, FS_Interval DEF DueAhead
<1>3. IsFiniteSet(DueAhead)
  BY <1>2, FS_Subset
<1> QED BY <1>3, FS_CardinalityType

LEMMA TentativeFinite ==
  ASSUME TypeOK, IsFiniteSet(Addrs)
  PROVE  IsFiniteSet(Tentative) /\ Cardinality(Tentative) \in Nat
<1>1. IsFiniteSet(IAs)
  BY ConstantsAssumption, FS_Interval DEF IAs
<1>2. IsFiniteSet(IAs \X Addrs)
  BY <1>1, FS_Product
<1>3. IsFiniteSet(Tentative)
  BY <1>2, FS_Subset DEF Tentative
<1> QED BY <1>3, FS_CardinalityType

(* The message that was due is dealt with: those due behind it are the ones that *)
(* were, where they were (shift 0) or one place further up (shift 1).          *)
LEMMA OneFewerDue ==
  ASSUME TypeOK, NEW k \in DueAhead, NEW shift \in {0, 1},
         \A j \in DueAhead' : j + shift \in DueAhead \ {k}
  PROVE  Cardinality(DueAhead') < Cardinality(DueAhead)
<1> DEFINE f == [j \in DueAhead' |-> j + shift]
           rest == DueAhead \ {k}
<1>1. DueAhead' \subseteq Int
  BY DEF DueAhead
<1>2. f \in Injection(DueAhead', rest)
  <2>1. f \in [DueAhead' -> rest]
    OBVIOUS
  <2>2. \A i, j \in DueAhead' : f[i] = f[j] => i = j
    BY <1>1
  <2> HIDE DEF f
  <2> QED BY <2>1, <2>2 DEF Injection, IsInjective
<1>3. /\ IsFiniteSet(rest) /\ Cardinality(rest) = Cardinality(DueAhead) - 1
      /\ Cardinality(DueAhead) \in Nat
  BY DueFinite, FS_RemoveElement
<1>4. IsFiniteSet(DueAhead') /\ Cardinality(DueAhead') <= Cardinality(rest)
  <2> HIDE DEF f, rest
  <2> QED BY <1>2, <1>3, FS_Injection
<1>5. Cardinality(DueAhead') \in Nat
  BY <1>4, FS_CardinalityType
<1> QED BY <1>3, <1>4, <1>5

(* What was just sent is not due. *)
LEMMA SentWaits ==
  ASSUME NEW m \in Messages, NEW rt \in Timeouts
  PROVE  Sent(m, rt).wait # 0
<1>1. m.mrd \in Nat /\ rt \in Nat \ {0}
  BY Caps, ConstantsAssumption DEF Messages, Timeouts
<1>2. Capped(m, rt) # 0
  BY <1>1 DEF Capped
<1> QED BY <1>2 DEF Sent, Messages

LEMMA NewWaits ==
  ASSUME NEW t \in Types, t # "CONFIRM", NEW S, NEW s, NEW c, NEW d \in Nat, NEW rt \in Timeouts
  PROVE  ~Due(Sent(New(t, S, s, c, d), rt))
<1>1. rt \in Nat \ {0}
  BY ConstantsAssumption DEF Timeouts
<1>2. New(t, S, s, c, d).mrd = d /\ New(t, S, s, c, d).type = t
  BY DEF New
<1>3. Capped(New(t, S, s, c, d), rt) # 0
  BY <1>1, <1>2 DEF Capped
<1>4. /\ Sent(New(t, S, s, c, d), rt).wait = Capped(New(t, S, s, c, d), rt)
      /\ Sent(New(t, S, s, c, d), rt).type = t
  BY DEF Sent, New
<1> QED BY <1>3, <1>4 DEF Due

(* A message sent again: the pass goes on behind it. *)
LEMMA ResendWearsOff ==
  ASSUME TypeOK, NEW k \in DOMAIN trans, Resend(k)
  PROVE  Cardinality(DueAhead') < Cardinality(DueAhead)
<1>1. /\ Len(trans) \in Nat /\ DOMAIN trans = 1 .. Len(trans) /\ trans \in Seq(Messages)
      /\ trans[k] \in Messages /\ pos \in Nat \ {0}
  BY LenProperties, MessageFacts DEF TypeOK
<1>2. k \in DueAhead /\ pos' = k + 1
  BY DEF Resend, NextDue, DueAhead
<1>3. PICK rt \in Timeouts : trans' = [trans EXCEPT ![k] = Sent(@, rt)]
  BY DEF Resend
<1>4. Sent(trans[k], rt) \in Messages
  BY <1>1, SentType
<1>5. Len(trans') = Len(trans) /\ \A j \in DOMAIN trans : j # k => trans'[j] = trans[j]
  BY <1>1, <1>3, <1>4, ExceptSeq
<1>6. \A j \in DueAhead' : j + 0 \in DueAhead \ {k}
  <2> SUFFICES ASSUME NEW j \in DueAhead' PROVE j + 0 \in DueAhead \ {k}
    OBVIOUS
  <2>1. j \in k + 1 .. Len(trans) /\ Due(trans'[j])
    BY <1>2, <1>5 DEF DueAhead, Due
  <2>2. j \in pos .. Len(trans) /\ j # k /\ j \in DOMAIN trans /\ j + 0 = j
    BY <1>1, <1>2, <2>1 DEF DueAhead
  <2> QED BY <1>5, <2>1, <2>2 DEF DueAhead
<1> QED BY <1>2, <1>6, OneFewerDue

(* A message that goes, with or without one that takes its place at the end of    *)
(* the list: the pass goes on with the one that moved up.                     *)
LEMMA RemovalWearsOff ==
  ASSUME TypeOK, NEW k \in DOMAIN trans, NextDue(k), pos' = k,
         \/ trans' = Without(k)
         \/ \E m : ~Due(m) /\ trans' = Append(Without(k), m)
  PROVE  Cardinality(DueAhead') < Cardinality(DueAhead)
<1>1. Len(trans) \in Nat /\ trans \in Seq(Messages) /\ pos \in Nat \ {0} /\ k \in Nat \ {0}
  BY LenProperties, MessageFacts DEF TypeOK
<1>2. k \in DueAhead /\ k \in 1 .. Len(trans) /\ k >= pos
  BY <1>1, LenProperties DEF NextDue, DueAhead
<1> DEFINE n == Len(trans) - 1
<1>3. /\ Without(k) \in Seq(Messages) /\ Len(Without(k)) = n
      /\ \A j \in 1 .. n : Without(k)[j] = trans[IF j < k THEN j ELSE j + 1]
  BY <1>1, WithoutAt
<1>4. \A j \in k .. Len(trans') : Due(trans'[j]) => j \in k .. n /\ trans'[j] = trans[j + 1]
  <2>1. CASE trans' = Without(k)
    <3>1. \A j \in k .. n : j \in 1 .. n /\ ~(j < k)
      BY <1>1
    <3> QED BY <1>3, <2>1, <3>1
  <2>2. CASE \E m : ~Due(m) /\ trans' = Append(Without(k), m)
    <3>1. PICK m : ~Due(m) /\ trans' = Append(Without(k), m)
      BY <2>2
    <3>2. Without(k) \in Seq(Messages \cup {m})
      BY <1>3
    <3>3. /\ Len(trans') = n + 1 /\ trans'[n + 1] = m
          /\ \A j \in 1 .. n : trans'[j] = Without(k)[j]
      BY <1>3, <3>1, <3>2, AppendProperties
    <3>4. \A j \in k .. n + 1 : j # n + 1 => j \in k .. n /\ j \in 1 .. n /\ ~(j < k)
      BY <1>1
    <3> QED BY <1>3, <3>1, <3>3, <3>4
  <2> QED BY <2>1, <2>2
<1>5. \A j \in DueAhead' : j + 1 \in DueAhead \ {k}
  <2> SUFFICES ASSUME NEW j \in DueAhead' PROVE j + 1 \in DueAhead \ {k}
    OBVIOUS
  <2>1. j \in k .. Len(trans') /\ Due(trans'[j])
    BY DEF DueAhead, Due
  <2>2. j \in k .. n /\ Due(trans[j + 1])
    BY <1>4, <2>1
  <2>3. j + 1 \in pos .. Len(trans) /\ j + 1 # k
    BY <1>1, <1>2, <2>2
  <2> QED BY <2>2, <2>3 DEF DueAhead
<1> QED BY <1>2, <1>5, OneFewerDue

(* A DECLINE settles at least the address it is sent for. *)
LEMMA DeclineWearsOff ==
  ASSUME TypeOK, IsFiniteSet(Addrs), NEW f \in IAs, NEW S \in SUBSET IAs,
         NEW b \in [IAs -> Addrs], Decline(f, S, b)
  PROVE  Cardinality(Tentative') < Cardinality(Tentative)
<1>1. /\ b[f] \in ia[f].unk
      /\ ia' = [i \in IAs |->
                  IF i \in S \cup {f}
                  THEN [ia[i] EXCEPT !.addrs = @ \ {b[i]}, !.unk = @ \ {b[i]},
                                     !.left = IF ia[i].addrs = {b[i]} THEN 0 ELSE @]
                  ELSE ia[i]]
  BY DEF Decline
<1>2. \A i \in IAs : ia[i] \in Bindings
  BY DEF TypeOK
<1>3. \A i \in IAs : ia'[i].unk \subseteq ia[i].unk
  BY <1>1, <1>2 DEF Bindings
<1>4. b[f] \notin ia'[f].unk
  BY <1>1, <1>2 DEF Bindings
<1> DEFINE p == <<f, b[f]>>
<1>5. p \in Tentative /\ p \notin Tentative'
  BY <1>1, <1>4 DEF Tentative
<1>6. Tentative' \in SUBSET (Tentative \ {p})
  BY <1>3, <1>5 DEF Tentative
<1>7. IsFiniteSet(Tentative) /\ Cardinality(Tentative) \in Nat
  BY TentativeFinite
<1>8. /\ IsFiniteSet(Tentative \ {p})
      /\ Cardinality(Tentative \ {p}) = Cardinality(Tentative) - 1
  BY <1>5, <1>7, FS_RemoveElement
<1>9. /\ IsFiniteSet(Tentative')
      /\ Cardinality(Tentative') <= Cardinality(Tentative \ {p})
  BY <1>6, <1>8, FS_Subset
<1>10. Cardinality(Tentative') \in Nat
  BY <1>9, FS_CardinalityType
<1> QED BY <1>7, <1>8, <1>9, <1>10

(* The pass over the messages: one less is due, or the process ends. *)
LEMMA PassWearsOff ==
  ASSUME TypeOK, NEW k \in DOMAIN trans,
         \/ Resend(k) \/ TryServer(k) \/ StartRebind(k) \/ ReleaseIA(k)
         \/ EndDecline(k) \/ AcceptUnheard(k)
  PROVE  /\ pc = "msgs"
         /\ \/ pc' = "msgs" /\ Cardinality(DueAhead') < Cardinality(DueAhead)
            \/ pc' = "dead"
<1>1. pc = "msgs" /\ NextDue(k)
  BY DEF Resend, TryServer, StartRebind, ReleaseIA, EndDecline, AcceptUnheard, NextDue
<1>2. CASE Resend(k)
  BY <1>1, <1>2, ResendWearsOff DEF Resend
<1>3. CASE TryServer(k)
  <2>1. /\ SendRequest(k, trans[k].ias, trans[k].sids, trans[k].cid, cfg, advs)
        /\ pos' = k /\ pc' = pc
    BY <1>3 DEF TryServer
  <2>2. \/ trans' = Without(k)
        \/ \E rt \in Timeouts :
             trans' = Append(Without(k),
                        Sent(New("REQUEST", trans[k].ias, Min({trans[k].sids + 1, 2}), trans[k].cid, 0), rt))
    BY <2>1 DEF SendRequest
  <2>3. \A rt \in Timeouts :
          ~Due(Sent(New("REQUEST", trans[k].ias, Min({trans[k].sids + 1, 2}), trans[k].cid, 0), rt))
    BY NewWaits DEF Types
  <2> QED BY <1>1, <2>1, <2>2, <2>3, RemovalWearsOff
<1>4. CASE StartRebind(k)
  <2> DEFINE m(rt) == Sent(New("REBIND", trans[k].ias, 0, TRUE, TimeLeft(trans[k].ias)), rt)
  <2>1. pos' = k /\ pc' = pc /\ \E rt \in Timeouts : trans' = Append(Without(k), m(rt))
    BY <1>4 DEF StartRebind
  <2>2. TimeLeft(trans[k].ias) \in Nat
    BY MessageFacts, TimeLeftType, Caps
  <2>3. \A rt \in Timeouts : ~Due(m(rt))
    BY <2>2, NewWaits DEF Types
  <2> HIDE DEF m
  <2> QED BY <1>1, <2>1, <2>3, RemovalWearsOff
<1>5. CASE ReleaseIA(k) \/ EndDecline(k)
  BY <1>1, <1>5, RemovalWearsOff DEF ReleaseIA, EndDecline
<1>6. CASE AcceptUnheard(k)
  <2>1. AddrsAccepted(k, pc, k)
    BY <1>6 DEF AcceptUnheard
  <2>2. (trans' = Without(k) /\ pc' = pc /\ pos' = k) \/ pc' = "dead"
    BY <2>1 DEF AddrsAccepted, Dies, Goto
  <2> QED BY <1>1, <2>2, RemovalWearsOff
<1> QED BY <1>2, <1>3, <1>4, <1>5, <1>6

TurnType == PhasesLeft \in Nat /\ ItemsLeft \in Nat

(* Whatever is under way, and though handlers take messages out of the list and   *)
(* put others in while the pass goes over it, each step of the thread leaves     *)
(* less to do in this turn of the loop: a thread that goes on comes back to where *)
(* it waits.  LostIAAskedAgain and ConfirmEnds build on that.                  *)
THEOREM TurnsEnd ==
  ASSUME IsFiniteSet(Addrs)
  PROVE  IsWellFoundedOn(TurnOrder, Nat \X Nat) /\ (Spec => TurnWearsOff)
<1>1. TypeOK => TurnType
  BY DueFinite, TentativeFinite DEF TurnType, PhasesLeft, ItemsLeft
<1>2. ASSUME TypeOK, TurnType, TurnType', Duties PROVE LessLeft
  <2> SUFFICES \/ PhasesLeft' < PhasesLeft
               \/ PhasesLeft' = PhasesLeft /\ ItemsLeft' < ItemsLeft
    BY <1>2 DEF TurnType, LessLeft, TurnOrder, LexPairOrdering, LessNat
  <2>1. ASSUME NEW k \in DOMAIN trans,
               \/ Resend(k) \/ TryServer(k) \/ StartRebind(k) \/ ReleaseIA(k)
               \/ EndDecline(k) \/ AcceptUnheard(k)
        PROVE  \/ PhasesLeft' < PhasesLeft
               \/ PhasesLeft' = PhasesLeft /\ ItemsLeft' < ItemsLeft
    <3>1. /\ pc = "msgs"
          /\ \/ pc' = "msgs" /\ Cardinality(DueAhead') < Cardinality(DueAhead)
             \/ pc' = "dead"
      BY <1>2, <2>1, PassWearsOff
    <3> QED BY <3>1 DEF PhasesLeft, ItemsLeft
  <2>2. CASE MessagesDone \/ Expire \/ CheckConfirm \/ NoneTentative \/ CheckSolicit
             \/ NothingToRenew \/ Dump
    <3>1. <<pc, pc'>> \in {<<"dump", "msgs">>, <<"msgs", "expire">>, <<"expire", "confirm">>,
                           <<"confirm", "decline">>, <<"decline", "solicit">>,
                           <<"solicit", "renew">>, <<"renew", "select">>}
      <4>1. CASE MessagesDone
        BY <4>1 DEF MessagesDone, Goto
      <4>2. CASE Expire
        BY <4>2 DEF Expire, Goto
      <4>3. CASE CheckConfirm
        BY <4>3 DEF CheckConfirm, Goto
      <4>4. CASE NoneTentative
        BY <4>4 DEF NoneTentative, Goto
      <4>5. CASE CheckSolicit
        BY <4>5 DEF CheckSolicit, Goto
      <4>6. CASE NothingToRenew \/ Dump
        BY <4>6 DEF NothingToRenew, Dump, Goto
      <4> QED BY <2>2, <4>1, <4>2, <4>3, <4>4, <4>5, <4>6
    <3> QED BY <3>1 DEF PhasesLeft
  <2>3. CASE CheckRenew
    <3>1. pc = "renew" /\ pc' \in {"select", "dead"}
      BY <2>3 DEF CheckRenew, Dies, Goto
    <3> QED BY <3>1 DEF PhasesLeft
  <2>4. ASSUME NEW f \in IAs, NEW S \in SUBSET IAs, NEW b \in [IAs -> Addrs], Decline(f, S, b)
        PROVE  PhasesLeft' = PhasesLeft /\ ItemsLeft' < ItemsLeft
    <3>1. pc = "decline" /\ pc' = "decline"
      BY <2>4 DEF Decline
    <3>2. Cardinality(Tentative') < Cardinality(Tentative)
      BY <1>2, <2>4, DeclineWearsOff
    <3> QED BY <3>1, <3>2 DEF PhasesLeft, ItemsLeft
  <2> QED BY <1>2, <2>1, <2>2, <2>3, <2>4 DEF Duties
<1>3. TypeOK /\ TurnType /\ TurnType' /\ [Next]_vars => [Duties => LessLeft]_vars
  BY <1>2
<1>4. Spec => TurnWearsOff
  BY TypeCorrect, <1>1, <1>3, PTL DEF Spec, TurnWearsOff
<1> QED BY <1>4, TurnOrderEnds
=============================================================================
