------------------------- MODULE ClntExchangeProofs -------------------------
(***************************************************************************)
(* The exchanges of a client that is left in peace: its link does not change, *)
(* no address turns out to be in use, nobody kills it, and its servers treat   *)
(* the IAs of one RENEW alike.  Whatever they answer, however late and in      *)
(* whatever order, no IA is in two exchanges or in none, and no lease is lost.  *)
(***************************************************************************)
EXTENDS ClntTransProofs

Calm == MaxDeclines = 0 /\ MaxLinkChanges = 0 /\ MaxCrashes = 0 /\ ~Partial

(* The client sends one RENEW per turn of its loop: there is time for that of  *)
(* each IA.                                                                  *)
Spaced == N =< T1 + 1 /\ T1 + N =< T2

-----------------------------------------------------------------------------
(* The list of messages *)
Carried(ts) == {i \in IAs : \E k \in DOMAIN ts : i \in ts[k].ias}
Apart(ts) == \A j, k \in DOMAIN ts : j # k => ts[j].ias \cap ts[k].ias = {}

(* A message that goes leaves the others as they were ... *)
LEMMA Gone1 ==
  ASSUME trans \in Seq(Messages), NEW k \in DOMAIN trans
  PROVE  /\ Without(k) \in Seq(Messages)
         /\ \A j \in DOMAIN Without(k) :
              \E i \in DOMAIN trans : i # k /\ Without(k)[j] = trans[i]
         /\ \A i \in DOMAIN trans : i # k => \E j \in DOMAIN Without(k) : Without(k)[j] = trans[i]
<1>0. DOMAIN trans = 1 .. Len(trans) /\ Len(trans) \in Nat
  BY LenProperties
<1>1. ASSUME NEW j \in DOMAIN Without(k)
      PROVE  \E i \in DOMAIN trans : i # k /\ Without(k)[j] = trans[i]
  <2> DEFINE i == IF j < k THEN j ELSE j + 1
  <2>1. j \in 1 .. Len(trans) - 1 /\ Without(k)[j] = trans[i]
    BY WithoutAt
  <2>2. i \in 1 .. Len(trans) /\ i # k
    BY <1>0, <2>1
  <2> HIDE DEF i
  <2> QED BY <1>0, <2>1, <2>2
<1>2. ASSUME NEW i \in DOMAIN trans, i # k
      PROVE  \E j \in DOMAIN Without(k) : Without(k)[j] = trans[i]
  <2> DEFINE j == IF i < k THEN i ELSE i - 1
  <2>1. j \in 1 .. Len(trans) - 1 /\ (IF j < k THEN j ELSE j + 1) = i
    BY <1>0, <1>2
  <2> HIDE DEF j
  <2>2. Without(k)[j] = trans[i] /\ DOMAIN Without(k) = 1 .. Len(trans) - 1
    BY <2>1, WithoutAt
  <2> QED BY <2>1, <2>2
<1> QED BY <1>1, <1>2, WithoutAt

LEMMA ApartWithout ==
  ASSUME trans \in Seq(Messages), NEW k \in DOMAIN trans, Apart(trans)
  PROVE  Apart(Without(k)) /\ Carried(Without(k)) = Carried(trans) \ trans[k].ias
<1>0. DOMAIN trans = 1 .. Len(trans) /\ Len(trans) \in Nat
  BY LenProperties
<1>1. ASSUME NEW i \in DOMAIN Without(k), NEW j \in DOMAIN Without(k), i # j
      PROVE  Without(k)[i].ias \cap Without(k)[j].ias = {}
  <2> DEFINE f(x) == IF x < k THEN x ELSE x + 1
  <2>1. /\ i \in 1 .. Len(trans) - 1 /\ Without(k)[i] = trans[f(i)]
        /\ j \in 1 .. Len(trans) - 1 /\ Without(k)[j] = trans[f(j)]
    BY WithoutAt
  <2>2. f(i) \in 1 .. Len(trans) /\ f(j) \in 1 .. Len(trans) /\ f(i) # f(j)
    BY <1>0, <1>1, <2>1
  <2> HIDE DEF f
  <2> QED BY <1>0, <2>1, <2>2 DEF Apart
<1>2. ASSUME NEW x \in IAs
      PROVE  x \in Carried(Without(k)) <=> x \in Carried(trans) /\ x \notin trans[k].ias
  <2>1. ASSUME NEW j \in DOMAIN Without(k), x \in Without(k)[j].ias
        PROVE  x \in Carried(trans) /\ x \notin trans[k].ias
    <3>1. PICK i \in DOMAIN trans : i # k /\ Without(k)[j] = trans[i]
      BY Gone1
    <3>2. x \in trans[i].ias /\ trans[i].ias \cap trans[k].ias = {}
      BY <2>1, <3>1 DEF Apart
    <3> QED BY <3>2 DEF Carried
  <2>2. ASSUME NEW i \in DOMAIN trans, x \in trans[i].ias, x \notin trans[k].ias
        PROVE  x \in Carried(Without(k))
    <3>1. PICK j \in DOMAIN Without(k) : Without(k)[j] = trans[i]
      BY <2>2, Gone1
    <3> QED BY <2>2, <3>1 DEF Carried
  <2> QED BY <2>1, <2>2 DEF Carried
<1>3. Carried(Without(k)) \subseteq IAs /\ Carried(trans) \subseteq IAs
  BY DEF Carried
<1> QED BY <1>1, <1>2, <1>3 DEF Apart

(* ... and one that comes for IAs that nothing asks for shares none. *)
LEMMA ApartAppend ==
  ASSUME NEW ts \in Seq(Messages), Apart(ts), NEW m \in Messages, m.ias \cap Carried(ts) = {}
  PROVE  Apart(Append(ts, m)) /\ Carried(Append(ts, m)) = Carried(ts) \cup m.ias
<1> DEFINE us == Append(ts, m)
           n == Len(ts) + 1
<1>1. /\ Len(ts) \in Nat /\ DOMAIN ts = 1 .. Len(ts) /\ DOMAIN us = 1 .. n /\ us[n] = m
      /\ \A j \in 1 .. Len(ts) : us[j] = ts[j]
  BY AppendAt
<1>2. m.ias \in SUBSET IAs /\ \A j \in DOMAIN ts : ts[j].ias \in SUBSET IAs
  <2>1. \A x \in Messages : x.ias \in SUBSET IAs
    BY DEF Messages
  <2>2. \A j \in DOMAIN ts : ts[j] \in Messages
    BY ElementOfSeq, LenProperties
  <2> QED BY <2>1, <2>2
<1> HIDE DEF us
<1>3. \A j \in 1 .. Len(ts) : ts[j].ias \cap m.ias = {}
  BY <1>1, <1>2 DEF Carried
<1>4. \A j \in 1 .. n : j # n => j \in 1 .. Len(ts)
  BY <1>1
<1>5. n \in 1 .. n /\ \A j \in 1 .. Len(ts) : j \in 1 .. n
  BY <1>1
<1> HIDE DEF n
<1>6. Apart(us)
  BY <1>1, <1>3, <1>4 DEF Apart
<1>7. \A x \in IAs : x \in Carried(us) <=> x \in Carried(ts) \/ x \in m.ias
  BY <1>1, <1>4, <1>5 DEF Carried
<1>8. Carried(us) \subseteq IAs /\ Carried(ts) \subseteq IAs
  BY DEF Carried
<1> QED BY <1>2, <1>6, <1>7, <1>8 DEF us

LEMMA SentFacts ==
  ASSUME NEW m \in Messages, NEW rt \in Timeouts
  PROVE  /\ Sent(m, rt) \in Messages /\ Sent(m, rt).type = m.type /\ Sent(m, rt).ias = m.ias
         /\ Sent(m, rt).wait > 0
         /\ m.mrd # 0 => Sent(m, rt).wait + Sent(m, rt).mrd = m.mrd
<1>1. Sent(m, rt) \in Messages /\ Sent(m, rt).type = m.type /\ Sent(m, rt).ias = m.ias
  BY SentType
<1>2. m.mrd \in 0 .. MaxMRD /\ MaxMRD \in Nat /\ rt \in 1 .. MaxRT /\ MaxRT \in Nat
  BY Caps, ConstantsAssumption DEF Messages, Timeouts
<1>3. /\ Sent(m, rt).wait = Capped(m, rt)
      /\ Sent(m, rt).mrd = IF m.mrd = 0 THEN 0 ELSE m.mrd - Capped(m, rt)
  BY DEF Sent, Messages
<1>4. Capped(m, rt) \in Nat /\ Capped(m, rt) > 0
  BY <1>2 DEF Capped
<1> QED BY <1>1, <1>2, <1>3, <1>4

LEMMA NewMessage ==
  ASSUME NEW t \in Types, NEW S \in SUBSET IAs, NEW s \in 0 .. 2, NEW c \in BOOLEAN,
         NEW d \in 0 .. MaxMRD
  PROVE  /\ New(t, S, s, c, d) \in Messages /\ New(t, S, s, c, d).ias = S
         /\ New(t, S, s, c, d).type = t /\ New(t, S, s, c, d).mrd = d
BY ConstantsAssumption, Caps DEF New, Messages

-----------------------------------------------------------------------------
(* The exchanges.  CONFIRM and DECLINE are not sent.  An IA that holds its      *)
(* lease in peace, or that CheckSolicit is to ask for, is in no exchange; and   *)
(* only an IA whose configuration says so holds a lease.                      *)
Quiet == {"SOLICIT", "REQUEST", "RENEW", "REBIND"}
Held(i) == ia[i].state = "CONFIGURED"
Listed(ts) ==
  ts \in Seq(Messages) /\ Apart(ts) /\ \A k \in DOMAIN ts : ts[k].type \in Quiet
InOrder(i) ==
  /\ ia[i].state # "CONFIRMME"
  /\ Held(i) => cfg[i] = "CONFIGURED" /\ ia[i].addrs # {}
  /\ i \in Carried(trans) => cfg[i] # "NOTCONFIGURED" /\ ~Held(i)
Resting ==
  /\ pc # "dead"
  /\ pc = "down" =>
       \A i \in IAs : ia[i] = NoLease /\ cfg[i] = "NOTCONFIGURED" /\ ~disk[i].stored
Orderly == Resting /\ Listed(trans) /\ \A i \in IAs : InOrder(i)

LEMMA Removed ==
  ASSUME Listed(trans), NEW k \in DOMAIN trans
  PROVE  Listed(Without(k)) /\ Carried(Without(k)) = Carried(trans) \ trans[k].ias
<1>1. trans \in Seq(Messages) /\ Apart(trans)
  BY DEF Listed
<1>2. \A j \in DOMAIN Without(k) : Without(k)[j].type \in Quiet
  BY <1>1, Gone1 DEF Listed
<1> QED BY <1>1, <1>2, WithoutAt, ApartWithout DEF Listed

LEMMA Added ==
  ASSUME NEW ts, Listed(ts), NEW m \in Messages, m.type \in Quiet, m.ias \cap Carried(ts) = {},
         NEW rt \in Timeouts
  PROVE  /\ Listed(Append(ts, Sent(m, rt)))
         /\ Carried(Append(ts, Sent(m, rt))) = Carried(ts) \cup m.ias
<1> DEFINE x == Sent(m, rt)
<1>1. x \in Messages /\ x.type = m.type /\ x.ias = m.ias
  BY SentFacts
<1> HIDE DEF x
<1>2. Apart(Append(ts, x)) /\ Carried(Append(ts, x)) = Carried(ts) \cup m.ias
  BY <1>1, ApartAppend DEF Listed
<1>3. /\ Append(ts, x) \in Seq(Messages) /\ Len(ts) \in Nat /\ DOMAIN ts = 1 .. Len(ts)
      /\ DOMAIN Append(ts, x) = 1 .. Len(ts) + 1 /\ Append(ts, x)[Len(ts) + 1] = x
      /\ \A j \in 1 .. Len(ts) : Append(ts, x)[j] = ts[j]
  BY <1>1, AppendAt DEF Listed
<1>4. ASSUME NEW j \in 1 .. Len(ts) + 1 PROVE Append(ts, x)[j].type \in Quiet
  <2>1. j = Len(ts) + 1 \/ j \in 1 .. Len(ts)
    BY <1>3
  <2> QED BY <1>1, <1>3, <2>1 DEF Listed
<1> QED BY <1>2, <1>3, <1>4 DEF Listed, x

(* Message k gives way to one for the IAs S of its. *)
LEMMA Replaced ==
  ASSUME Listed(trans), NEW k \in DOMAIN trans, NEW m \in Messages, m.type \in Quiet,
         m.ias \subseteq trans[k].ias, NEW rt \in Timeouts
  PROVE  /\ Listed(Append(Without(k), Sent(m, rt)))
         /\ Carried(Append(Without(k), Sent(m, rt))) = (Carried(trans) \ trans[k].ias) \cup m.ias
<1>1. Listed(Without(k)) /\ Carried(Without(k)) = Carried(trans) \ trans[k].ias
  BY Removed
<1>2. m.ias \cap Carried(Without(k)) = {}
  BY <1>1
<1> QED BY <1>1, <1>2, Added

(* Messages that are sent again, or wait, are for the same IAs. *)
LEMMA Reshaped ==
  ASSUME Listed(trans), NEW ts \in Seq(Messages), DOMAIN ts = DOMAIN trans,
         \A k \in DOMAIN trans : ts[k].type = trans[k].type /\ ts[k].ias = trans[k].ias
  PROVE  Listed(ts) /\ Carried(ts) = Carried(trans)
BY DEF Listed, Apart, Carried

(* A REQUEST, or none, instead of message k, whatever options it takes over. *)
Requests(k, S, c, n) == \E s \in 0 .. 2, cid \in BOOLEAN : SendRequest(k, S, s, cid, c, n)

(* Message k is gone, or a REQUEST has come for it. *)
GivesWay(k) ==
  \/ trans' = Without(k)
  \/ \E m \in Messages :
       trans' = Append(Without(k), m) /\ m.type = "REQUEST" /\ m.wait > 0

LEMMA Requested ==
  ASSUME Listed(trans), NEW k \in DOMAIN trans, NEW S \in SUBSET trans[k].ias,
         NEW c, NEW n, Requests(k, S, c, n)
  PROVE  /\ Listed(trans') /\ GivesWay(k)
         /\ \/ /\ cfg' = Set(c, S, "NOTCONFIGURED")
               /\ Carried(trans') = Carried(trans) \ trans[k].ias
            \/ cfg' = c /\ Carried(trans') = (Carried(trans) \ trans[k].ias) \cup S
<1>0. S \in SUBSET IAs
  <2>1. \A m \in Messages : m.ias \in SUBSET IAs
    BY DEF Messages
  <2> QED BY <2>1, LenProperties, ElementOfSeq DEF Listed
<1>a. PICK s \in 0 .. 2, cid \in BOOLEAN : SendRequest(k, S, s, cid, c, n)
  BY DEF Requests
<1>1. CASE n = 0
  BY <1>a, <1>1, Removed DEF SendRequest, GivesWay
<1>2. CASE n # 0
  <2> DEFINE m == New("REQUEST", S, Min({s + 1, 2}), cid, 0)
  <2>1. PICK rt \in Timeouts : trans' = Append(Without(k), Sent(m, rt)) /\ cfg' = c
    BY <1>a, <1>2 DEF SendRequest
  <2>2. Min({s + 1, 2}) \in 0 .. 2
    <3>1. /\ {s + 1, 2} \in SUBSET Nat /\ {s + 1, 2} # {}
          /\ s = 2 \/ s + 1 =< 2
      OBVIOUS
    <3>2. Min({s + 1, 2}) \in {s + 1, 2}
      BY <3>1, MinIn
    <3>3. CASE s = 2
      <4>1. {s + 1, 2} = {3, 2}
        BY <3>3
      <4>2. \E x \in {3, 2} : \A y \in {3, 2} : x =< y
        OBVIOUS
      <4>3. \A y \in {3, 2} : Min({3, 2}) =< y
        BY <4>2 DEF Min
      <4> QED BY <3>2, <4>1, <4>3
    <3>4. CASE s + 1 =< 2
      BY <3>2, <3>4
    <3> QED BY <3>1, <3>3, <3>4
  <2>3. m \in Messages /\ m.ias = S /\ m.type = "REQUEST" /\ m.type \in Quiet
    <3>1. "REQUEST" \in Types /\ 0 \in 0 .. MaxMRD
      BY Caps DEF Types
    <3> DEFINE z == Min({s + 1, 2})
    <3>2. m = New("REQUEST", S, z, cid, 0) /\ z \in 0 .. 2
      BY <2>2
    <3> HIDE DEF m, z
    <3>3. /\ New("REQUEST", S, z, cid, 0) \in Messages /\ New("REQUEST", S, z, cid, 0).ias = S
          /\ New("REQUEST", S, z, cid, 0).type = "REQUEST"
      BY <1>0, <3>1, <3>2, NewMessage
    <3> QED BY <3>2, <3>3 DEF Quiet
  <2> HIDE DEF m
  <2>4. /\ Listed(trans') /\ Carried(trans') = (Carried(trans) \ trans[k].ias) \cup S
    BY <2>1, <2>3, Replaced
  <2>5. Sent(m, rt) \in Messages /\ Sent(m, rt).type = "REQUEST" /\ Sent(m, rt).wait > 0
    BY <2>3, SentFacts
  <2> QED BY <2>1, <2>4, <2>5 DEF GivesWay
<1> QED BY <1>1, <1>2

LEMMA InStateFacts ==
  ASSUME TypeOK, NEW S, NEW v, NEW i \in IAs
  PROVE  /\ InState(S, v)[i].state = IF i \in S THEN v ELSE ia[i].state
         /\ InState(S, v)[i].addrs = ia[i].addrs /\ InState(S, v)[i].unk = ia[i].unk
         /\ InState(S, v)[i].age = ia[i].age /\ InState(S, v)[i].left = ia[i].left
<1>1. ia[i] \in Bindings
  BY DEF TypeOK
<1>2. InState(S, v)[i] = IF i \in S THEN [ia[i] EXCEPT !.state = v] ELSE ia[i]
  BY DEF InState
<1> QED BY <1>1, <1>2 DEF Bindings

LEMMA EmptiedIs ==
  ASSUME TypeOK, NEW S, NEW i \in IAs
  PROVE  /\ i \notin S => Emptied(S)[i] = ia[i]
         /\ i \in S => /\ Emptied(S)[i].state = "NOTCONFIGURED" /\ Emptied(S)[i].addrs = {}
                       /\ Emptied(S)[i].unk = {} /\ Emptied(S)[i].left = 0
                       /\ Emptied(S)[i].age = ia[i].age
<1>1. ia[i] \in Bindings
  BY DEF TypeOK
<1>2. Emptied(S)[i] = IF i \in S
        THEN [ia[i] EXCEPT !.addrs = {}, !.unk = {}, !.left = 0, !.state = "NOTCONFIGURED"]
        ELSE ia[i]
  BY DEF Emptied
<1> QED BY <1>1, <1>2 DEF Bindings

LEMMA GrantedIs ==
  ASSUME TypeOK, NEW S, NEW a, NEW d, NEW i \in IAs
  PROVE  /\ i \notin S => Granted(S, a, d)[i] = ia[i]
         /\ i \in S => /\ Granted(S, a, d)[i].state = "CONFIGURED"
                       /\ Granted(S, a, d)[i].addrs # {}
                       /\ Granted(S, a, d)[i].age = 0 /\ Granted(S, a, d)[i].left = Valid
BY DEF Granted

LEMMA SetIs ==
  ASSUME NEW c, NEW S, NEW v, NEW i \in IAs
  PROVE  Set(c, S, v)[i] = IF i \in S THEN v ELSE c[i]
BY DEF Set

(* What does not happen to a client that is left in peace. *)
LEMMA LeftInPeace ==
  ASSUME Calm, TypeOK
  PROVE  /\ \A f, S, b : ~Decline(f, S, b)
         /\ ~LinkChange /\ ~Crash
<1>1. declines = 0 /\ links = 0 /\ crashes = 0
  BY DEF Calm, TypeOK
<1> QED BY <1>1 DEF Calm, Decline, LinkChange, Crash

(* The lease of an IA is no bare state: there is an address, and its server. *)
LEMMA NeverDies ==
  ASSUME TypeOK, Flow, Orderly, CheckRenew
  PROVE  /\ ~Dies
         /\ LET first == ia[Min(ToRenew)]
                S == {i \in ToRenew : ia[i].duid = first.duid}
            IN /\ ia' = InState(S, "INPROCESS")
               /\ Start(New("RENEW", S, 1, TRUE, T2 - first.age))
               /\ pc = "renew" /\ pc' = "select" /\ cfg' = cfg /\ disk' = disk
               /\ Min(ToRenew) \in S
<1>1. ToRenew \in SUBSET Nat /\ ToRenew # {}
  BY DEF ToRenew, IAs, CheckRenew
<1> DEFINE f == Min(ToRenew)
<1>2. f \in ToRenew
  BY <1>1, MinIn
<1>3. f \in IAs /\ ia[f].state = "CONFIGURED"
  BY <1>2 DEF ToRenew
<1>4. ia[f].duid # 0
  BY <1>3 DEF Flow, ServersKnown, Orderly, InOrder, Held
<1> HIDE DEF f
<1> DEFINE S == {i \in ToRenew : ia[i].duid = ia[f].duid}
<1>5. /\ ia' = InState(S, "INPROCESS")
      /\ Start(New("RENEW", S, 1, TRUE, T2 - ia[f].age))
      /\ pc = "renew" /\ pc' = "select" /\ cfg' = cfg /\ disk' = disk
  BY <1>4 DEF CheckRenew, Goto, f
<1>6. ~Dies
  BY <1>5 DEF Dies, Goto
<1>7. f \in S
  BY <1>2
<1> QED BY <1>5, <1>6, <1>7 DEF f

LEMMA TickFacts ==
  ASSUME TypeOK, Tick, NEW i \in IAs
  PROVE  /\ ia'[i].state = ia[i].state /\ ia'[i].addrs = ia[i].addrs /\ ia'[i].unk = ia[i].unk
         /\ ia'[i].left = Less(ia[i].left)
         /\ ia'[i].age = IF ia[i].age < T2 THEN ia[i].age + 1 ELSE ia[i].age
         /\ ia'[i].duid = ia[i].duid
<1>1. ia'[i] = [ia[i] EXCEPT !.left = Less(@), !.age = IF @ < T2 THEN @ + 1 ELSE @]
  BY DEF Tick
<1>2. ia[i] \in Bindings
  BY DEF TypeOK
<1> QED BY <1>1, <1>2 DEF Bindings

(* What each step does to the exchanges. *)
LEMMA ExchangeFacts ==
  ASSUME TypeOK, Orderly
  PROVE  /\ Listed(trans) /\ trans \in Seq(Messages)
         /\ \A k \in DOMAIN trans :
              /\ trans[k] \in Messages /\ trans[k].ias \in SUBSET IAs
              /\ trans[k].sids \in 0 .. 2 /\ trans[k].cid \in BOOLEAN
              /\ trans[k].type \in Quiet /\ trans[k].ias \subseteq Carried(trans)
         /\ \A i \in IAs : InOrder(i) /\ ia[i] \in Bindings
  BY MessageFacts DEF Orderly, Listed, Carried, TypeOK

LEMMA ResendDoes ==
  ASSUME TypeOK, Orderly, NEW k \in DOMAIN trans, Resend(k)
  PROVE  /\ Listed(trans') /\ Carried(trans') = Carried(trans)
         /\ pc' = "msgs" /\ ia' = ia /\ cfg' = cfg
<1>1. PICK rt \in Timeouts : trans' = [trans EXCEPT ![k] = Sent(@, rt)]
  BY DEF Resend
<1>2. pc' = "msgs" /\ ia' = ia /\ cfg' = cfg
  BY DEF Resend, NextDue
<1>3. Sent(trans[k], rt) \in Messages /\ Sent(trans[k], rt).type = trans[k].type
      /\ Sent(trans[k], rt).ias = trans[k].ias
  BY ExchangeFacts, SentFacts
<1>4. trans' \in Seq(Messages)
  BY ExchangeFacts, <1>1, <1>3, ExceptSeq
<1>5. DOMAIN trans' = DOMAIN trans
      /\ \A j \in DOMAIN trans : trans'[j].type = trans[j].type /\ trans'[j].ias = trans[j].ias
  BY <1>1, <1>3
<1> QED BY ExchangeFacts, <1>2, <1>4, <1>5, Reshaped

LEMMA TryServerDoes ==
  ASSUME TypeOK, Orderly, NEW k \in DOMAIN trans, TryServer(k)
  PROVE  /\ Listed(trans') /\ GivesWay(k) /\ pc' = "msgs" /\ ia' = ia
         /\ \/ /\ cfg' = Set(cfg, trans[k].ias, "NOTCONFIGURED")
               /\ Carried(trans') = Carried(trans) \ trans[k].ias
            \/ /\ cfg' = cfg
               /\ Carried(trans') = (Carried(trans) \ trans[k].ias) \cup trans[k].ias
<1>1. /\ SendRequest(k, trans[k].ias, trans[k].sids, trans[k].cid, cfg, advs)
      /\ pc' = "msgs" /\ ia' = ia
  BY DEF TryServer, NextDue
<1>2. Requests(k, trans[k].ias, cfg, advs)
  BY ExchangeFacts, <1>1 DEF Requests
<1> QED BY ExchangeFacts, <1>1, <1>2, Requested

LEMMA StartRebindDoes ==
  ASSUME TypeOK, Orderly, NEW k \in DOMAIN trans, StartRebind(k)
  PROVE  /\ Listed(trans') /\ Carried(trans') = Carried(trans)
         /\ pc' = "msgs" /\ ia' = ia /\ cfg' = cfg
<1> DEFINE m == New("REBIND", trans[k].ias, 0, TRUE, TimeLeft(trans[k].ias))
<1>1. PICK rt \in Timeouts : trans' = Append(Without(k), Sent(m, rt))
  BY DEF StartRebind
<1>2. pc' = "msgs" /\ ia' = ia /\ cfg' = cfg
  BY DEF StartRebind, NextDue
<1>3. m \in Messages /\ m.ias = trans[k].ias /\ m.type \in Quiet
  <2> DEFINE d == TimeLeft(trans[k].ias)
  <2>1. d \in 0 .. MaxMRD
    BY ExchangeFacts, TimeLeftType
  <2> HIDE DEF d
  <2>2. m = New("REBIND", trans[k].ias, 0, TRUE, d)
    BY DEF d
  <2> QED
    BY ExchangeFacts, <2>1, <2>2, ConstantsAssumption, Caps DEF New, Messages, Types, Quiet
<1> HIDE DEF m
<1>4. Listed(trans') /\ Carried(trans') = (Carried(trans) \ trans[k].ias) \cup trans[k].ias
  BY ExchangeFacts, <1>1, <1>3, Replaced
<1> QED BY ExchangeFacts, <1>2, <1>4

LEMMA ReleaseDoes ==
  ASSUME TypeOK, Orderly, NEW k \in DOMAIN trans, ReleaseIA(k) \/ NotOnLink(k)
  PROVE  /\ Listed(trans') /\ Carried(trans') = Carried(trans) \ trans[k].ias
         /\ ia' = Emptied(trans[k].ias) /\ cfg' = Set(cfg, trans[k].ias, "NOTCONFIGURED")
         /\ pc' \in {"msgs", "dump"} /\ GivesWay(k)
<1>1. /\ ia' = Emptied(trans[k].ias) /\ cfg' = Set(cfg, trans[k].ias, "NOTCONFIGURED")
      /\ trans' = Without(k) /\ pc' \in {"msgs", "dump"}
  BY DEF ReleaseIA, NotOnLink, NextDue, Goto
<1> QED BY ExchangeFacts, <1>1, Removed DEF GivesWay

(* DECLINE and CONFIRM are not under way. *)
LEMMA NotSent ==
  ASSUME TypeOK, Orderly, NEW k \in DOMAIN trans
  PROVE  ~EndDecline(k) /\ ~AcceptUnheard(k) /\ ~ConfirmReply(k) /\ ~DeclineReply(k) /\ ~NotOnLink(k)
BY ExchangeFacts DEF Quiet, EndDecline, AcceptUnheard, ConfirmReply, DeclineReply, NotOnLink,
                     Answered

LEMMA CheckConfirmDoes ==
  ASSUME TypeOK, Orderly, CheckConfirm
  PROVE  ia' = ia /\ cfg' = cfg /\ trans' = trans /\ pc' = "decline"
<1>1. {i \in IAs : ia[i].state = "CONFIRMME"} = {}
  BY ExchangeFacts DEF InOrder
<1> QED BY <1>1 DEF CheckConfirm, Goto

LEMMA CheckSolicitDoes ==
  ASSUME TypeOK, Orderly, CheckSolicit
  PROVE  LET S == {i \in IAs : cfg[i] = "NOTCONFIGURED"}
         IN /\ pc' = "renew" /\ Listed(trans')
            /\ \/ S = {} /\ ia' = ia /\ cfg' = cfg /\ trans' = trans
               \/ /\ ia' = InState(S, "INPROCESS") /\ cfg' = Set(cfg, S, "INPROCESS")
                  /\ Carried(trans') = Carried(trans) \cup S
<1> DEFINE S == {i \in IAs : cfg[i] = "NOTCONFIGURED"}
           m == New("SOLICIT", S, 0, TRUE, 0)
<1>1. CASE S = {}
  BY ExchangeFacts, <1>1 DEF CheckSolicit, Goto
<1>2. CASE S # {}
  <2>1. /\ ia' = InState(S, "INPROCESS") /\ cfg' = Set(cfg, S, "INPROCESS")
        /\ Start(m) /\ pc' = "renew"
    BY <1>2 DEF CheckSolicit, Goto
  <2>2. PICK rt \in Timeouts : trans' = Append(trans, Sent(m, rt))
    BY <2>1 DEF Start
  <2>3. S \in SUBSET IAs /\ S \cap Carried(trans) = {}
    BY ExchangeFacts DEF InOrder
  <2> HIDE DEF S
  <2>4. m \in Messages /\ m.ias = S /\ m.type \in Quiet
    BY <2>3, ConstantsAssumption, Caps DEF New, Messages, Types, Quiet
  <2> HIDE DEF m
  <2>5. Listed(trans') /\ Carried(trans') = Carried(trans) \cup S
    BY ExchangeFacts, <2>2, <2>3, <2>4, Added
  <2> QED BY <2>1, <2>5 DEF S
<1> QED BY <1>1, <1>2

LEMMA CheckRenewDoes ==
  ASSUME TypeOK, Flow, Orderly, CheckRenew
  PROVE  \E S \in SUBSET IAs :
           /\ \A i \in S : ia[i].state = "CONFIGURED"
           /\ ia' = InState(S, "INPROCESS") /\ cfg' = cfg /\ pc' = "select"
           /\ Listed(trans') /\ Carried(trans') = Carried(trans) \cup S
<1> DEFINE f == Min(ToRenew)
           S == {i \in ToRenew : ia[i].duid = ia[f].duid}
           m == New("RENEW", S, 1, TRUE, T2 - ia[f].age)
<1>1. ia' = InState(S, "INPROCESS") /\ Start(m) /\ pc' = "select" /\ cfg' = cfg
  BY NeverDies
<1>2. PICK rt \in Timeouts : trans' = Append(trans, Sent(m, rt))
  BY <1>1 DEF Start
<1>3. T2 - ia[f].age \in 0 .. MaxMRD
  BY FirstToRenew DEF CheckRenew
<1>4. S \in SUBSET IAs /\ \A i \in S : ia[i].state = "CONFIGURED"
  BY DEF ToRenew
<1>5. S \cap Carried(trans) = {}
  BY ExchangeFacts, <1>4 DEF InOrder, Held
<1> HIDE DEF f, S
<1>6. m \in Messages /\ m.ias = S /\ m.type \in Quiet
  <2> DEFINE d == T2 - ia[f].age
  <2>1. m = New("RENEW", S, 1, TRUE, d) /\ d \in 0 .. MaxMRD
    BY <1>3
  <2> HIDE DEF d
  <2> QED BY <1>4, <2>1, ConstantsAssumption, Caps DEF New, Messages, Types, Quiet
<1> HIDE DEF m
<1>7. Listed(trans') /\ Carried(trans') = Carried(trans) \cup S
  BY ExchangeFacts, <1>2, <1>5, <1>6, Added
<1> QED BY <1>1, <1>4, <1>7

LEMMA AdvertiseDoes ==
  ASSUME TypeOK, Orderly, NEW k \in DOMAIN trans, Advertise(k)
  PROVE  /\ Listed(trans') /\ pc' = "dump" /\ ia' = ia /\ (trans' = trans \/ GivesWay(k))
         /\ \/ cfg' = cfg /\ Carried(trans') = Carried(trans)
            \/ /\ cfg' = Set(cfg, trans[k].ias, "NOTCONFIGURED")
               /\ Carried(trans') = Carried(trans) \ trans[k].ias
            \/ /\ cfg' = cfg
               /\ Carried(trans') = (Carried(trans) \ trans[k].ias) \cup trans[k].ias
<1>1. ia' = ia /\ pc' = "dump"
  BY DEF Advertise, Goto
<1>2. CASE trans' = trans /\ cfg' = cfg
  BY ExchangeFacts, <1>1, <1>2
<1>3. CASE SendRequest(k, trans[k].ias, 0, TRUE, cfg, advs + 1)
  <2>1. 0 \in 0 .. 2
    OBVIOUS
  <2>2. Requests(k, trans[k].ias, cfg, advs + 1)
    <3> SUFFICES \E s \in 0 .. 2, cid \in BOOLEAN :
                   SendRequest(k, trans[k].ias, s, cid, cfg, advs + 1)
      BY DEF Requests
    <3> WITNESS 0 \in 0 .. 2, TRUE \in BOOLEAN
    <3> QED BY <1>3
  <2> QED BY ExchangeFacts, <1>1, <2>2, Requested
<1> QED BY <1>2, <1>3 DEF Advertise

(* The IAs of a REPLY: those of S are granted, the others asked for again. *)
LEMMA ReplyDoes ==
  ASSUME Calm, TypeOK, Orderly, NEW k \in DOMAIN trans, NEW S \in SUBSET IAs,
         NEW a \in [IAs -> Addrs], Reply(k, S, a) \/ RenewReply(k, S, a) \/ RenewNoBinding(k, S, a)
  PROVE  /\ Listed(trans') /\ GivesWay(k)
         /\ pc = "select" /\ pc' = "dump" /\ S \subseteq trans[k].ias
         /\ \E d : ia' = Granted(S, a, d)
         /\ \A i \in IAs :
              /\ i \in S => cfg'[i] = "CONFIGURED" /\ i \notin Carried(trans')
              /\ i \in trans[k].ias \ S =>
                   \/ cfg'[i] = "NOTCONFIGURED" /\ i \notin Carried(trans')
                   \/ cfg'[i] = cfg[i] /\ i \in Carried(trans')
              /\ i \notin trans[k].ias =>
                   cfg'[i] = cfg[i] /\ (i \in Carried(trans') <=> i \in Carried(trans))
<1>1. PICK d : ia' = Granted(S, a, d)
  BY DEF Reply, RenewReply, RenewNoBinding
<1>2. pc = "select" /\ pc' = "dump" /\ S \subseteq trans[k].ias
  BY DEF Reply, RenewReply, RenewNoBinding, Goto, Answered
<1>3. CASE trans' = Without(k) /\ cfg' = Set(cfg, S, "CONFIGURED") /\ S = trans[k].ias
  <2>1. Listed(trans') /\ Carried(trans') = Carried(trans) \ trans[k].ias
    BY ExchangeFacts, <1>3, Removed
  <2> QED BY <1>1, <1>2, <1>3, <2>1, SetIs DEF GivesWay
<1>4. CASE \E s \in 0 .. 2, cid \in BOOLEAN :
             SendRequest(k, trans[k].ias \ S, s, cid, Set(cfg, S, "CONFIGURED"), advs)
  <2> DEFINE R == trans[k].ias \ S
             c == Set(cfg, S, "CONFIGURED")
  <2>1. /\ Listed(trans') /\ GivesWay(k)
        /\ \/ /\ cfg' = Set(c, R, "NOTCONFIGURED")
              /\ Carried(trans') = Carried(trans) \ trans[k].ias
           \/ cfg' = c /\ Carried(trans') = (Carried(trans) \ trans[k].ias) \cup R
    <3>1. Requests(k, R, c, advs) /\ R \in SUBSET trans[k].ias
      BY <1>4 DEF Requests
    <3> HIDE DEF R, c
    <3> QED BY ExchangeFacts, <3>1, Requested
  <2>2. \A i \in IAs : Set(c, R, "NOTCONFIGURED")[i] = IF i \in R THEN "NOTCONFIGURED" ELSE c[i]
    BY SetIs
  <2>3. \A i \in IAs : c[i] = IF i \in S THEN "CONFIGURED" ELSE cfg[i]
    BY SetIs
  <2> HIDE DEF c
  <2>4. trans[k].ias \subseteq IAs
    BY ExchangeFacts
  <2> QED BY <1>1, <1>2, <2>1, <2>2, <2>3, <2>4
<1>5. CASE Reply(k, S, a)
  <2>1. 0 \in 0 .. 2 /\ FALSE \in BOOLEAN
    OBVIOUS
  <2> QED BY <1>3, <1>4, <1>5, <2>1, Zenon DEF Reply
<1>6. CASE RenewReply(k, S, a)
  BY <1>3, <1>6 DEF RenewReply, Calm
<1>7. CASE RenewNoBinding(k, S, a)
  <2>1. S = {} /\ SendRequest(k, trans[k].ias, trans[k].sids, trans[k].cid,
                              Set(cfg, S, "CONFIGURED"), advs)
    BY <1>7 DEF RenewNoBinding, Calm
  <2>2. trans[k].ias \ S = trans[k].ias
    BY <2>1
  <2> QED BY ExchangeFacts, <1>4, <2>1, <2>2, Zenon
<1> QED BY <1>5, <1>6, <1>7

LEMMA TickDoes ==
  ASSUME TypeOK, Orderly, Tick
  PROVE  /\ Listed(trans') /\ Carried(trans') = Carried(trans)
         /\ pc = "select" /\ pc' = "msgs" /\ cfg' = cfg
<1>1. /\ pc = "select" /\ pc' = "msgs" /\ cfg' = cfg
      /\ trans' = [k \in DOMAIN trans |-> [trans[k] EXCEPT !.wait = Less(@)]]
  BY DEF Tick, Goto
<1>2. trans' \in Seq(Messages)
  <2>1. [Next]_vars
    BY DEF Next
  <2> QED BY <2>1, MessagesIn, FamilyOfAll DEF TypeOK
<1>3. \A j \in DOMAIN trans : trans'[j].type = trans[j].type /\ trans'[j].ias = trans[j].ias
  BY ExchangeFacts, <1>1, WaitType
<1>4. DOMAIN trans' = DOMAIN trans
  BY <1>1
<1> QED BY ExchangeFacts, <1>1, <1>2, <1>3, <1>4, Reshaped

LEMMA EndDoes ==
  ASSUME TypeOK, Flow, Orderly
  PROVE  /\ Shutdown => /\ pc' = "down" /\ trans' = <<>> /\ Listed(trans') /\ Carried(trans') = {}
                        /\ \A i \in IAs : /\ ia'[i] = NoLease /\ cfg'[i] = "NOTCONFIGURED"
                                          /\ ~disk'[i].stored
         /\ Restart => /\ pc' = "msgs" /\ trans' = trans /\ trans = <<>> /\ cfg' = cfg
                       /\ \A i \in IAs : /\ ia'[i] = ia[i] /\ ia[i] = NoLease
                                         /\ cfg[i] = "NOTCONFIGURED"
<1>1. Listed(<<>>) /\ Carried(<<>>) = {}
  BY EmptySeq DEF Listed, Apart, Carried
<1>2. Shutdown => /\ pc' = "down" /\ trans' = <<>>
                  /\ \A i \in IAs : /\ ia'[i] = NoLease /\ cfg'[i] = "NOTCONFIGURED"
                                    /\ ~disk'[i].stored
  BY DEF Shutdown, Gone, Goto, NotStored
<1>3. Restart => /\ pc' = "msgs" /\ trans' = trans /\ cfg' = cfg /\ pc = "down"
                 /\ \A i \in IAs : ia'[i] = Loaded(i)
  BY DEF Restart, Goto, Orderly, Resting
<1>4. Restart => /\ trans = <<>>
                 /\ \A i \in IAs : ia[i] = NoLease /\ cfg[i] = "NOTCONFIGURED" /\ Loaded(i) = NoLease
  BY <1>3 DEF Orderly, Resting, Loaded, Flow, NoneUnderWay, Ended
<1> QED BY <1>1, <1>2, <1>3, <1>4

LEMMA OrderlyStep ==
  ASSUME Calm, TypeOK, Flow, Orderly, [Next]_vars
  PROVE  Orderly'
<1>0. \A k \in DOMAIN trans : trans[k].ias \subseteq Carried(trans)
  BY ExchangeFacts
<1>a. \A i \in IAs : InOrder(i) /\ ia[i] \in Bindings
  BY ExchangeFacts
<1>b. ASSUME Listed(trans'), pc' \notin Ended, \A i \in IAs : InOrder(i)'
      PROVE  Orderly'
  BY <1>b DEF Orderly, Resting, Ended
<1>c. ASSUME Listed(trans'), pc' \notin Ended, cfg' = cfg, Carried(trans') \subseteq Carried(trans),
             \A i \in IAs : ia'[i].state = ia[i].state /\ ia'[i].addrs = ia[i].addrs
      PROVE  Orderly'
  BY <1>a, <1>b, <1>c DEF InOrder, Held
<1>1. ASSUME NEW k \in DOMAIN trans, Resend(k) \/ StartRebind(k) PROVE Orderly'
  BY <1>c, <1>1, ResendDoes, StartRebindDoes DEF Ended
<1>2. ASSUME NEW k \in DOMAIN trans, TryServer(k) PROVE Orderly'
  <2>1. \A i \in IAs : InOrder(i)'
    BY <1>0, <1>a, <1>2, TryServerDoes, SetIs DEF InOrder, Held
  <2> QED BY <1>b, <1>2, <2>1, TryServerDoes DEF Ended
<1>4. ASSUME NEW k \in DOMAIN trans, ReleaseIA(k) \/ NotOnLink(k) PROVE Orderly'
  <2>1. \A i \in IAs : InOrder(i)'
    BY <1>a, <1>4, ReleaseDoes, EmptiedIs, SetIs DEF InOrder, Held
  <2> QED BY <1>b, <1>4, <2>1, ReleaseDoes DEF Ended
<1>5. ASSUME NEW k \in DOMAIN trans,
             EndDecline(k) \/ AcceptUnheard(k) \/ ConfirmReply(k) \/ DeclineReply(k)
      PROVE  Orderly'
  BY <1>5, NotSent
<1>6. CASE MessagesDone \/ NothingToRenew \/ Dump
  <2>1. /\ ia' = ia /\ cfg' = cfg /\ trans' = trans
        /\ pc' \in {"expire", "select", "msgs"}
    BY <1>6 DEF MessagesDone, NothingToRenew, Dump, Goto
  <2> QED BY <1>c, <2>1, ExchangeFacts DEF Ended
<1>7. CASE Expire
  <2>1. ia' = Emptied(Expired) /\ cfg' = cfg /\ trans' = trans /\ pc' = "confirm"
    BY <1>7 DEF Expire, Goto
  <2>2. \A i \in IAs : InOrder(i)'
    BY <1>a, <2>1, EmptiedIs DEF InOrder, Held
  <2> QED BY <1>b, <2>1, <2>2, ExchangeFacts DEF Ended
<1>8. CASE CheckConfirm
  BY <1>c, <1>8, CheckConfirmDoes, ExchangeFacts DEF Ended
<1>9. CASE NoneTentative
  <2>1. /\ cfg' = cfg /\ trans' = trans /\ pc' = "solicit"
        /\ \A i \in IAs : ia'[i] \in {ia[i], [ia[i] EXCEPT !.unk = {}]}
    BY <1>9 DEF NoneTentative, Goto
  <2>2. \A i \in IAs : ia'[i].state = ia[i].state /\ ia'[i].addrs = ia[i].addrs
    BY <1>a, <2>1 DEF Bindings
  <2> QED BY <1>c, <2>1, <2>2, ExchangeFacts DEF Ended
<1>10. CASE CheckSolicit
  <2> DEFINE S == {i \in IAs : cfg[i] = "NOTCONFIGURED"}
  <2>1. /\ pc' = "renew" /\ Listed(trans')
        /\ \/ S = {} /\ ia' = ia /\ cfg' = cfg /\ trans' = trans
           \/ /\ ia' = InState(S, "INPROCESS") /\ cfg' = Set(cfg, S, "INPROCESS")
              /\ Carried(trans') = Carried(trans) \cup S
    BY <1>10, CheckSolicitDoes
  <2>2. \A i \in S : cfg[i] = "NOTCONFIGURED"
    OBVIOUS
  <2> HIDE DEF S
  <2>3. \A i \in IAs : InOrder(i)'
    BY <1>a, <2>1, <2>2, InStateFacts, SetIs DEF InOrder, Held
  <2> QED BY <1>b, <2>1, <2>3 DEF Ended
<1>11. CASE CheckRenew
  <2>1. PICK S \in SUBSET IAs :
          /\ \A i \in S : ia[i].state = "CONFIGURED"
          /\ ia' = InState(S, "INPROCESS") /\ cfg' = cfg /\ pc' = "select"
          /\ Listed(trans') /\ Carried(trans') = Carried(trans) \cup S
    BY <1>11, CheckRenewDoes
  <2>2. \A i \in IAs : InOrder(i)'
    BY <1>a, <2>1, InStateFacts DEF InOrder, Held
  <2> QED BY <1>b, <2>1, <2>2 DEF Ended
<1>12. ASSUME NEW k \in DOMAIN trans, Advertise(k) PROVE Orderly'
  <2>1. \A i \in IAs : InOrder(i)'
    BY <1>0, <1>a, <1>12, AdvertiseDoes, SetIs DEF InOrder, Held
  <2> QED BY <1>b, <1>12, <2>1, AdvertiseDoes DEF Ended
<1>13. ASSUME NEW k \in DOMAIN trans, NEW S \in SUBSET IAs, NEW a \in [IAs -> Addrs],
              Reply(k, S, a) \/ RenewReply(k, S, a) \/ RenewNoBinding(k, S, a)
       PROVE  Orderly'
  <2>1. /\ Listed(trans') /\ pc' = "dump" /\ S \subseteq trans[k].ias
        /\ \E d : ia' = Granted(S, a, d)
    BY <1>13, ReplyDoes
  <2>2. PICK d : ia' = Granted(S, a, d)
    BY <2>1
  <2>3. ASSUME NEW i \in IAs PROVE InOrder(i)'
    <3>1. /\ i \in S => cfg'[i] = "CONFIGURED" /\ i \notin Carried(trans')
          /\ i \in trans[k].ias \ S =>
               \/ cfg'[i] = "NOTCONFIGURED" /\ i \notin Carried(trans')
               \/ cfg'[i] = cfg[i] /\ i \in Carried(trans')
          /\ i \notin trans[k].ias =>
               cfg'[i] = cfg[i] /\ (i \in Carried(trans') <=> i \in Carried(trans))
      BY <1>13, ReplyDoes
    <3>2. CASE i \in S
      BY <2>2, <3>1, <3>2, GrantedIs DEF InOrder, Held
    <3>3. CASE i \notin S
      <4>1. ia'[i] = ia[i]
        BY <2>2, <3>3, GrantedIs
      <4> QED BY <1>0, <1>a, <3>1, <3>3, <4>1 DEF InOrder, Held
    <3> QED BY <3>2, <3>3
  <2> QED BY <1>b, <2>1, <2>3 DEF Ended
<1>14. CASE Tick
  BY <1>c, <1>14, TickDoes, TickFacts DEF Ended
<1>15. CASE TickDown
  <2>1. /\ ia' = ia /\ cfg' = cfg /\ trans' = trans /\ pc' = pc
        /\ \A i \in IAs : disk'[i] = [disk[i] EXCEPT !.left = Less(@)]
    BY <1>15 DEF TickDown, DiskAged
  <2>2. \A i \in IAs : disk'[i].stored = disk[i].stored
    <3>1. \A i \in IAs : disk[i] \in Stored
      BY DEF TypeOK
    <3> QED BY <2>1, <3>1 DEF Stored
  <2> QED BY <1>a, <2>1, <2>2, ExchangeFacts DEF Orderly, Resting, InOrder, Held
<1>16. CASE Shutdown
  <2>1. \A i \in IAs : InOrder(i)'
    BY <1>16, EndDoes DEF InOrder, Held, NoLease
  <2> QED BY <1>16, <2>1, EndDoes DEF Orderly, Resting
<1>17. CASE Restart
  BY <1>c, <1>17, EndDoes, ExchangeFacts DEF Ended
<1>18. CASE UNCHANGED vars
  BY <1>18 DEF vars, Orderly, Resting, InOrder, Held
<1>19. \A f \in IAs, S \in SUBSET IAs, b \in [IAs -> Addrs] : ~Decline(f, S, b)
  BY LeftInPeace
<1>20. ~LinkChange /\ ~Crash
  BY LeftInPeace
<1> QED
  BY <1>1, <1>2, <1>4, <1>5, <1>6, <1>7, <1>8, <1>9, <1>10, <1>11, <1>12, <1>13,
     <1>14, <1>15, <1>16, <1>17, <1>18, <1>19, <1>20, Zenon DEF Next, Duties, Answer

LEMMA OrderlyHolds ==
  ASSUME Calm
  PROVE  Spec => []Orderly
<1>1. Init => Orderly
  <2> SUFFICES ASSUME Init PROVE Orderly
    OBVIOUS
  <2>1. trans = <<>> /\ pc = "msgs" /\ \A i \in IAs : ia[i] = NoLease
    BY DEF Init
  <2>2. Listed(trans) /\ Carried(trans) = {}
    BY <2>1, EmptySeq DEF Listed, Apart, Carried
  <2> QED BY <2>1, <2>2 DEF Orderly, Resting, InOrder, Held, NoLease
<1>2. TypeOK /\ Flow /\ Orderly /\ [Next]_vars => Orderly'
  BY OrderlyStep
<1> QED BY <1>1, <1>2, TypeCorrect, FlowHolds, PTL DEF Spec

(* Whatever is answered, late or never, an IA of a client that is left in      *)
(* peace is in at most one exchange: the client never has two answers for one  *)
(* IA to reconcile.                                                          *)
THEOREM NoTwoExchanges ==
  ASSUME Calm
  PROVE  Spec => []OneExchange
<1>1. Orderly => OneExchange
  BY DEF Orderly, Listed, Apart, OneExchange, Carries
<1> QED BY <1>1, OrderlyHolds, PTL

-----------------------------------------------------------------------------
(* Leases grow old together.  A lease that is due for its RENEW waits for those *)
(* before it, one turn each: as old as it may be, as many IAs have meanwhile     *)
(* been asked for, or were and are fresh again.  So none waits until T2.         *)
Aged(b, i) == b[i].state = "CONFIGURED" => b[i].left + b[i].age = Valid
Fresh(b, i) == {j \in IAs : b[j].state = "CONFIGURED" /\ b[j].age + T1 =< b[i].age}
Passed(b, i) == {j \in IAs : b[j].state # "CONFIGURED"} \cup Fresh(b, i)
Queued(b, i, t) ==
  b[i].state = "CONFIGURED" /\ b[i].age >= T1 =>
    /\ b[i].age - T1 + t =< Cardinality(Passed(b, i))
    /\ Fresh(b, i) # {} => b[i].age - T1 + t + 1 =< Cardinality(Passed(b, i))
Turn(p) == IF p = "select" THEN 1 ELSE 0
Detected(p, b, i) == p \in {"solicit", "renew"} /\ b[i].age > 0 => b[i].unk = {}
Aging ==
  \A i \in IAs : Aged(ia, i) /\ Queued(ia, i, Turn(pc)) /\ Detected(pc, ia, i)

LEMMA TurnIn == ASSUME NEW p PROVE Turn(p) \in {0, 1} /\ (p # "select" => Turn(p) = 0)
BY DEF Turn

LEMMA PassedFinite ==
  ASSUME NEW b \in [IAs -> Bindings], NEW i \in IAs
  PROVE  /\ IsFiniteSet(Passed(b, i)) /\ Cardinality(Passed(b, i)) \in Nat
         /\ b[i].state = "CONFIGURED" =>
              i \notin Passed(b, i) /\ Cardinality(Passed(b, i)) =< N - 1
<1>1. IsFiniteSet(IAs) /\ Cardinality(IAs) = N /\ N \in Nat
  BY ConstantsAssumption, FS_Interval DEF IAs
<1>2. Passed(b, i) \in SUBSET IAs
  BY DEF Passed, Fresh
<1>3. IsFiniteSet(Passed(b, i)) /\ Cardinality(Passed(b, i)) \in Nat
  BY <1>1, <1>2, FS_Subset, FS_CardinalityType
<1>4. ASSUME b[i].state = "CONFIGURED"
      PROVE  i \notin Passed(b, i) /\ Cardinality(Passed(b, i)) =< N - 1
  <2>1. b[i].age \in 0 .. T2 /\ T2 \in Nat
    BY BindingFacts, ConstantsAssumption
  <2>2. ~(b[i].age + T1 =< b[i].age)
    BY <2>1, ConstantsAssumption
  <2>3. i \notin Passed(b, i)
    BY <1>4, <2>2 DEF Passed, Fresh
  <2>4. Passed(b, i) \in SUBSET (IAs \ {i})
    BY <1>2, <2>3
  <2>5. IsFiniteSet(IAs \ {i}) /\ Cardinality(IAs \ {i}) = N - 1
    BY <1>1, FS_RemoveElement
  <2>6. Cardinality(Passed(b, i)) =< Cardinality(IAs \ {i})
    BY <2>4, <2>5, FS_Subset
  <2> QED BY <2>3, <2>5, <2>6
<1> QED BY <1>3, <1>4

LEMMA NotYetT2 ==
  ASSUME Spaced, NEW b \in [IAs -> Bindings], NEW i \in IAs, b[i].state = "CONFIGURED",
         Aged(b, i), NEW t \in {0, 1}, Queued(b, i, t)
  PROVE  b[i].age + t < T2 /\ b[i].age < T2 /\ b[i].left > 0 /\ b[i].left = Valid - b[i].age
<1>1. b[i].age \in 0 .. T2 /\ b[i].left \in 0 .. Valid /\ T1 \in Nat /\ T2 \in Nat
      /\ Valid \in Nat /\ T1 < T2 /\ T2 < Valid /\ N \in Nat /\ T1 + N =< T2
  BY BindingFacts, ConstantsAssumption DEF Spaced
<1>2. b[i].age + t < T2
  <2>1. CASE b[i].age >= T1
    <3>1. b[i].age - T1 + t =< Cardinality(Passed(b, i))
      BY <2>1 DEF Queued
    <3>2. Cardinality(Passed(b, i)) \in Nat /\ Cardinality(Passed(b, i)) =< N - 1
      BY PassedFinite
    <3> QED BY <1>1, <3>1, <3>2
  <2>2. CASE ~(b[i].age >= T1)
    BY <1>1, <2>2
  <2> QED BY <2>1, <2>2
<1>3. b[i].left + b[i].age = Valid
  BY DEF Aged
<1> QED BY <1>1, <1>2, <1>3

(* No lease that is due has been passed by another that is. *)
LEMMA DueNotPassed ==
  ASSUME Spaced, NEW b \in [IAs -> Bindings], NEW i \in IAs, NEW f \in IAs,
         Queued(b, i, 0), b[i].state = "CONFIGURED", b[f].state = "CONFIGURED",
         b[i].age >= T1, b[f].age >= T1
  PROVE  f \notin Passed(b, i)
<1>1. b[i].age \in 0 .. T2 /\ b[f].age \in 0 .. T2 /\ T1 \in Nat /\ T2 \in Nat
      /\ N \in Nat /\ N =< T1 + 1
  BY BindingFacts, ConstantsAssumption DEF Spaced
<1>2. SUFFICES ASSUME f \in Passed(b, i) PROVE FALSE
  OBVIOUS
<1>3. f \in Fresh(b, i) /\ b[f].age + T1 =< b[i].age
  BY <1>2 DEF Passed, Fresh
<1>4. b[i].age - T1 + 0 + 1 =< Cardinality(Passed(b, i))
  BY <1>3 DEF Queued
<1>5. Cardinality(Passed(b, i)) \in Nat /\ Cardinality(Passed(b, i)) =< N - 1
  BY PassedFinite
<1> QED BY <1>1, <1>3, <1>4, <1>5

(* No lease is granted, none is lost, no time passes. *)
Steady(b, c) ==
  \A i \in IAs : /\ c[i].state = "CONFIGURED" <=> b[i].state = "CONFIGURED"
                 /\ c[i].age = b[i].age
                 /\ b[i].state = "CONFIGURED" => c[i].left = b[i].left

LEMMA SteadyKeeps ==
  ASSUME NEW b, NEW c, Steady(b, c), NEW i \in IAs
  PROVE  /\ Aged(b, i) => Aged(c, i)
         /\ \A t \in {0, 1} : Queued(b, i, t) => Queued(c, i, t)
<1>1. Fresh(c, i) = Fresh(b, i)
  BY DEF Fresh, Steady
<1>2. Passed(c, i) = Passed(b, i)
  BY <1>1 DEF Passed, Steady
<1>3. Aged(b, i) => Aged(c, i)
  BY DEF Aged, Steady
<1>4. \A t \in {0, 1} : Queued(b, i, t) => Queued(c, i, t)
  BY <1>1, <1>2 DEF Queued, Steady
<1> QED BY <1>3, <1>4

LEMMA QueuedEarlier ==
  ASSUME NEW b \in [IAs -> Bindings], NEW i \in IAs, NEW t \in {0, 1}, Queued(b, i, t)
  PROVE  Queued(b, i, 0)
<1>1. b[i].age \in 0 .. T2 /\ T1 \in Nat /\ T2 \in Nat
  BY BindingFacts, ConstantsAssumption
<1>2. Cardinality(Passed(b, i)) \in Nat
  BY PassedFinite
<1> QED BY <1>1, <1>2 DEF Queued

LEMMA SteadyAging ==
  ASSUME TypeOK, Aging, Steady(ia, ia'), pc' # "select",
         \A i \in IAs : Detected(pc', ia', i)
  PROVE  Aging'
<1>1. ia \in [IAs -> Bindings]
  BY DEF TypeOK
<1>2. Turn(pc) \in {0, 1} /\ Turn(pc') = 0
  BY TurnIn
<1>3. ASSUME NEW i \in IAs PROVE Aged(ia', i) /\ Queued(ia', i, Turn(pc'))
  <2>1. Aged(ia, i) /\ Queued(ia, i, Turn(pc))
    BY DEF Aging
  <2>2. Queued(ia, i, 0)
    BY <1>1, <1>2, <2>1, QueuedEarlier
  <2>3. 0 \in {0, 1}
    OBVIOUS
  <2>4. Aged(ia', i) /\ Queued(ia', i, 0)
    BY <2>1, <2>2, <2>3, SteadyKeeps
  <2> QED BY <1>2, <2>4
<1> QED BY <1>3 DEF Aging

(* What the duties other than RENEW do to the leases that are held: nothing. *)
LEMMA DutiesSteady ==
  ASSUME Calm, Spaced, TypeOK, Orderly, Aging,
         NEW k \in DOMAIN trans,
         \/ Resend(k) \/ TryServer(k) \/ StartRebind(k) \/ ReleaseIA(k) \/ NotOnLink(k)
         \/ EndDecline(k) \/ AcceptUnheard(k) \/ Advertise(k) \/ ConfirmReply(k) \/ DeclineReply(k)
  PROVE  Steady(ia, ia') /\ pc' \in {"msgs", "dump"}
<1>0. trans[k].type \in Quiet /\ trans[k].ias \subseteq Carried(trans)
  BY MessageFacts DEF Orderly, Listed, Carried
<1>1. \/ ia' = ia /\ pc' \in {"msgs", "dump"}
      \/ ia' = Emptied(trans[k].ias) /\ pc' \in {"msgs", "dump"}
  BY <1>0 DEF Quiet, Resend, TryServer, StartRebind, ReleaseIA, NotOnLink, EndDecline,
              AcceptUnheard, Advertise, ConfirmReply, DeclineReply, NextDue, Goto, Answered
<1>2. CASE ia' = ia
  BY <1>1, <1>2 DEF Steady
<1>3. CASE ia' = Emptied(trans[k].ias)
  <2>1. \A i \in trans[k].ias : ia[i].state # "CONFIGURED"
    BY <1>0, MessageFacts DEF Orderly, InOrder, Held
  <2> QED BY <1>1, <1>3, <2>1, EmptiedIs DEF Steady
<1> QED BY <1>1, <1>2, <1>3

LEMMA ExpireSteady ==
  ASSUME Calm, Spaced, TypeOK, Orderly, Aging, Expire
  PROVE  Steady(ia, ia') /\ pc' = "confirm"
<1>1. ia' = Emptied(Expired) /\ pc' = "confirm"
  BY DEF Expire, Goto
<1>2. ASSUME NEW i \in IAs, ia[i].state = "CONFIGURED" PROVE i \notin Expired
  <2>1. ia \in [IAs -> Bindings] /\ Turn(pc) \in {0, 1} /\ Aged(ia, i) /\ Queued(ia, i, Turn(pc))
    BY TurnIn DEF TypeOK, Aging
  <2>2. ia[i].left > 0
    BY <1>2, <2>1, NotYetT2
  <2> QED BY <2>2 DEF Expired
<1> QED BY <1>1, <1>2, EmptiedIs DEF Steady

(* One RENEW leaves: all the others that wait have been passed by one more. *)
LEMMA RenewAging ==
  ASSUME Spaced, TypeOK, Flow, Orderly, Aging, CheckRenew
  PROVE  Aging'
<1> DEFINE f == Min(ToRenew)
           S == {i \in ToRenew : ia[i].duid = ia[f].duid}
<1>1. ia' = InState(S, "INPROCESS") /\ f \in S /\ pc = "renew" /\ pc' = "select"
  BY NeverDies
<1>2. /\ f \in IAs /\ S \subseteq IAs /\ ia[f].state = "CONFIGURED" /\ ia[f].age >= T1
      /\ \A i \in S : ia[i].state = "CONFIGURED"
  BY <1>1 DEF ToRenew
<1>3. Turn(pc) = 0 /\ Turn(pc') = 1
  BY <1>1 DEF Turn
<1> HIDE DEF f, S
<1>4. \A i \in IAs : /\ ia'[i].state = IF i \in S THEN "INPROCESS" ELSE ia[i].state
                     /\ ia'[i].age = ia[i].age /\ ia'[i].left = ia[i].left
  BY <1>1, InStateFacts
<1>5. ia \in [IAs -> Bindings] /\ RestOK'
  <2>1. [Next]_vars
    BY DEF Next, Duties
  <2> QED BY <2>1, RestStep DEF TypeOK
<1>6. ASSUME NEW i \in IAs, ia'[i].state = "CONFIGURED"
      PROVE  Aged(ia', i) /\ Queued(ia', i, 1)
  <2>1. ia[i].state = "CONFIGURED" /\ i \notin S
    BY <1>4, <1>6
  <2>2. Aged(ia, i) /\ Queued(ia, i, 0)
    BY <1>3 DEF Aging
  <2>3. Aged(ia', i)
    BY <1>4, <2>1, <2>2 DEF Aged
  <2>4. ASSUME ia'[i].age >= T1
        PROVE  /\ ia'[i].age - T1 + 1 =< Cardinality(Passed(ia', i))
               /\ Fresh(ia', i) # {} => ia'[i].age - T1 + 1 + 1 =< Cardinality(Passed(ia', i))
    <3>1. f \notin Passed(ia, i)
      BY <1>2, <1>4, <1>5, <2>1, <2>2, <2>4, DueNotPassed
    <3>2. Passed(ia, i) \cup {f} \in SUBSET Passed(ia', i) /\ Fresh(ia', i) \subseteq Fresh(ia, i)
      <4>1. f \in Passed(ia', i)
        <5>1. ia'[f].state # "CONFIGURED"
          BY <1>1, <1>2, <1>4
        <5> QED BY <1>2, <5>1 DEF Passed
      <4>2. ASSUME NEW j \in Passed(ia, i) PROVE j \in Passed(ia', i)
        BY <1>4 DEF Passed, Fresh
      <4>3. Fresh(ia', i) \subseteq Fresh(ia, i)
        BY <1>4 DEF Fresh
      <4> QED BY <4>1, <4>2, <4>3
    <3>3. ia' \in [IAs -> Bindings]
      BY <1>5 DEF RestOK
    <3>4. /\ IsFiniteSet(Passed(ia, i)) /\ Cardinality(Passed(ia, i)) \in Nat
          /\ IsFiniteSet(Passed(ia', i)) /\ Cardinality(Passed(ia', i)) \in Nat
      BY <1>5, <3>3, PassedFinite
    <3>5. Cardinality(Passed(ia, i) \cup {f}) = Cardinality(Passed(ia, i)) + 1
      BY <3>1, <3>4, FS_AddElement
    <3>6. Cardinality(Passed(ia, i)) + 1 =< Cardinality(Passed(ia', i))
      BY <3>2, <3>4, <3>5, FS_Subset
    <3>7. ia[i].age \in 0 .. T2 /\ T1 \in Nat /\ T2 \in Nat /\ ia'[i].age = ia[i].age
      BY <1>4, <1>5, BindingFacts, ConstantsAssumption
    <3>8. ia[i].age - T1 + 0 =< Cardinality(Passed(ia, i))
      BY <2>1, <2>2, <2>4, <3>7 DEF Queued
    <3>9. ASSUME Fresh(ia', i) # {} PROVE ia[i].age - T1 + 0 + 1 =< Cardinality(Passed(ia, i))
      BY <2>1, <2>2, <2>4, <3>2, <3>7, <3>9 DEF Queued
    <3> QED BY <3>4, <3>6, <3>7, <3>8, <3>9
  <2> QED BY <2>3, <2>4 DEF Queued
<1>7. \A i \in IAs : ia'[i].state # "CONFIGURED" => Aged(ia', i) /\ Queued(ia', i, 1)
  BY DEF Aged, Queued
<1>8. \A i \in IAs : Detected(pc', ia', i)
  BY <1>1 DEF Detected
<1> QED BY <1>3, <1>6, <1>7, <1>8 DEF Aging

(* A REPLY makes leases fresh that had been passed on already. *)
LEMMA ReplyAging ==
  ASSUME TypeOK, Aging, NEW S \in SUBSET IAs, NEW a, NEW d, ia' = Granted(S, a, d),
         \A i \in S : ia[i].state # "CONFIGURED",
         pc = "select", pc' = "dump", ia' \in [IAs -> Bindings]
  PROVE  Aging'
<1>1. Turn(pc) = 1 /\ Turn(pc') = 0
  BY DEF Turn
<1>2. ia \in [IAs -> Bindings]
  BY DEF TypeOK
<1>3. \A i \in S : ia'[i].state = "CONFIGURED" /\ ia'[i].age = 0 /\ ia'[i].left = Valid
  BY GrantedIs
<1>4. \A i \in IAs : i \notin S => ia'[i] = ia[i]
  BY GrantedIs
<1>5. ASSUME NEW i \in S PROVE Aged(ia', i) /\ Queued(ia', i, 0)
  BY <1>3, ConstantsAssumption DEF Aged, Queued
<1>6. ASSUME NEW i \in IAs, i \notin S, ia[i].state = "CONFIGURED"
      PROVE  Aged(ia', i) /\ Queued(ia', i, 0)
  <2>1. Aged(ia, i) /\ Queued(ia, i, 1) /\ ia'[i] = ia[i]
    BY <1>1, <1>4, <1>6 DEF Aging
  <2>2. ASSUME ia'[i].age >= T1
        PROVE  /\ ia'[i].age - T1 + 0 =< Cardinality(Passed(ia', i))
               /\ Fresh(ia', i) # {} => ia'[i].age - T1 + 0 + 1 =< Cardinality(Passed(ia', i))
    <3>1. ia[i].age \in 0 .. T2 /\ T1 \in Nat /\ T2 \in Nat
      BY <1>2, BindingFacts, ConstantsAssumption
    <3>2. ASSUME NEW j \in IAs PROVE j \in Passed(ia', i) <=> j \in Passed(ia, i)
      <4>1. CASE j \in S
        <5>1. j \in Passed(ia, i)
          BY <4>1 DEF Passed
        <5>2. j \in Fresh(ia', i)
          BY <1>3, <2>1, <2>2, <3>1, <4>1 DEF Fresh
        <5> QED BY <5>1, <5>2 DEF Passed
      <4>2. CASE j \notin S
        BY <1>4, <2>1, <4>2 DEF Passed, Fresh
      <4> QED BY <4>1, <4>2
    <3>3. Passed(ia', i) = Passed(ia, i)
      BY <3>2 DEF Passed, Fresh
    <3>4. Cardinality(Passed(ia, i)) \in Nat
      BY <1>2, PassedFinite
    <3>5. ia[i].age - T1 + 1 =< Cardinality(Passed(ia, i))
      BY <1>6, <2>1, <2>2 DEF Queued
    <3> QED BY <2>1, <3>1, <3>3, <3>4, <3>5
  <2>3. Aged(ia', i)
    BY <2>1 DEF Aged
  <2> QED BY <2>2, <2>3 DEF Queued
<1>7. ASSUME NEW i \in IAs, i \notin S, ia[i].state # "CONFIGURED"
      PROVE  Aged(ia', i) /\ Queued(ia', i, 0)
  BY <1>4, <1>7 DEF Aged, Queued
<1>8. \A i \in IAs : Detected(pc', ia', i)
  BY DEF Detected
<1> QED BY <1>1, <1>5, <1>6, <1>7, <1>8 DEF Aging

(* Time passes for all alike, and nobody waits in "select" without end. *)
LEMMA TickAging ==
  ASSUME Spaced, TypeOK, Orderly, Aging, Tick
  PROVE  Aging'
<1>1. pc = "select" /\ pc' = "msgs" /\ Turn(pc) = 1 /\ Turn(pc') = 0
  BY DEF Tick, Goto, Turn
<1>2. ia \in [IAs -> Bindings]
  BY DEF TypeOK
<1>3. T1 \in Nat \ {0} /\ T2 \in Nat /\ Valid \in Nat
  BY ConstantsAssumption
<1>4. ASSUME NEW i \in IAs, ia[i].state = "CONFIGURED"
      PROVE  /\ ia'[i].state = "CONFIGURED" /\ ia'[i].age = ia[i].age + 1
             /\ ia[i].age \in 0 .. T2 /\ ia[i].left \in 0 .. Valid
             /\ ia'[i].left = ia[i].left - 1 /\ Aged(ia, i) /\ Queued(ia, i, 1)
  <2>1. Aged(ia, i) /\ Queued(ia, i, 1)
    BY <1>1 DEF Aging
  <2>2. ia[i].age < T2 /\ ia[i].left > 0 /\ ia[i].age \in 0 .. T2 /\ ia[i].left \in 0 .. Valid
    <3>1. 1 \in {0, 1}
      OBVIOUS
    <3> QED BY <1>2, <1>4, <2>1, <3>1, NotYetT2, BindingFacts
  <2> QED BY <1>4, <2>1, <2>2, TickFacts DEF Less
<1>5. ASSUME NEW i \in IAs, ia[i].state = "CONFIGURED"
      PROVE  Aged(ia', i) /\ Queued(ia', i, 0)
  <2>1. Aged(ia', i)
    BY <1>3, <1>4, <1>5 DEF Aged
  <2>2. Fresh(ia', i) = Fresh(ia, i)
    <3>1. ASSUME NEW j \in IAs PROVE j \in Fresh(ia', i) <=> j \in Fresh(ia, i)
      <4>1. CASE ia[j].state = "CONFIGURED"
        BY <1>3, <1>4, <1>5, <4>1 DEF Fresh
      <4>2. CASE ia[j].state # "CONFIGURED"
        BY <4>2, TickFacts DEF Fresh
      <4> QED BY <4>1, <4>2
    <3> QED BY <3>1 DEF Fresh
  <2>3. Passed(ia', i) = Passed(ia, i)
    BY <2>2, TickFacts DEF Passed
  <2>4. IsFiniteSet(Passed(ia, i)) /\ Cardinality(Passed(ia, i)) \in Nat
    BY <1>2, PassedFinite
  <2>5. ASSUME ia'[i].age >= T1
        PROVE  /\ ia'[i].age - T1 + 0 =< Cardinality(Passed(ia, i))
               /\ Fresh(ia, i) # {} => ia'[i].age - T1 + 0 + 1 =< Cardinality(Passed(ia, i))
    <3>1. CASE ia[i].age >= T1
      BY <1>3, <1>4, <1>5, <2>4, <3>1 DEF Queued
    <3>2. CASE ~(ia[i].age >= T1)
      <4>1. ia'[i].age - T1 = 0
        BY <1>3, <1>4, <1>5, <2>5, <3>2
      <4>2. Fresh(ia, i) # {} => Cardinality(Passed(ia, i)) >= 1
        <5>1. Fresh(ia, i) # {} => Passed(ia, i) # {}
          BY DEF Passed
        <5>2. Passed(ia, i) # {} => Cardinality(Passed(ia, i)) # 0
          BY <2>4, FS_EmptySet
        <5> QED BY <2>4, <5>1, <5>2
      <4> QED BY <2>4, <4>1, <4>2
    <3> QED BY <3>1, <3>2
  <2> QED BY <2>1, <2>2, <2>3, <2>5 DEF Queued
<1>6. ASSUME NEW i \in IAs, ia[i].state # "CONFIGURED"
      PROVE  Aged(ia', i) /\ Queued(ia', i, 0)
  BY <1>6, TickFacts DEF Aged, Queued
<1>7. \A i \in IAs : Detected(pc', ia', i)
  BY <1>1 DEF Detected
<1> QED BY <1>1, <1>5, <1>6, <1>7 DEF Aging

(* Nothing is due: nobody waits. *)
LEMMA NobodyDue ==
  ASSUME TypeOK, Aging, NothingToRenew
  PROVE  Aging'
<1>1. ia' = ia /\ pc = "renew" /\ pc' = "select" /\ ToRenew = {}
  BY DEF NothingToRenew, Goto
<1>2. ASSUME NEW i \in IAs, ia[i].state = "CONFIGURED", ia[i].age >= T1
      PROVE  FALSE
  <2>1. ia[i].age > 0 /\ ia[i].unk = {}
    <3>1. ia[i].age \in 0 .. T2
      BY BindingFacts DEF TypeOK
    <3> QED BY <1>1, <1>2, <3>1, ConstantsAssumption DEF Aging, Detected
  <2> QED BY <1>1, <1>2, <2>1 DEF ToRenew
<1>3. \A i \in IAs : Aged(ia', i) /\ Queued(ia', i, Turn(pc'))
  BY <1>1, <1>2 DEF Aging, Aged, Queued
<1> QED BY <1>1, <1>3 DEF Aging, Detected

LEMMA AgingStep ==
  ASSUME Calm, Spaced, TypeOK, Flow, Orderly, Aging, [Next]_vars
  PROVE  Aging'
<1>0. \A i \in IAs : ia[i] \in Bindings
  BY DEF TypeOK
<1>a. ASSUME Steady(ia, ia'), pc' \notin {"solicit", "renew", "select"}
      PROVE  Aging'
  BY <1>a, SteadyAging DEF Detected
<1>1. ASSUME NEW k \in DOMAIN trans,
             \/ Resend(k) \/ TryServer(k) \/ StartRebind(k) \/ ReleaseIA(k) \/ NotOnLink(k)
             \/ EndDecline(k) \/ AcceptUnheard(k) \/ Advertise(k) \/ ConfirmReply(k)
             \/ DeclineReply(k)
      PROVE  Aging'
  BY <1>a, <1>1, DutiesSteady
<1>2. CASE MessagesDone \/ Dump
  <2>1. ia' = ia /\ pc' \in {"expire", "msgs"}
    BY <1>2 DEF MessagesDone, Dump, Goto
  <2> QED BY <1>a, <2>1 DEF Steady
<1>3. CASE Expire
  BY <1>a, <1>3, ExpireSteady
<1>4. CASE CheckConfirm
  <2>1. {i \in IAs : ia[i].state = "CONFIRMME"} = {}
    BY DEF Orderly, InOrder
  <2>2. ia' = ia /\ pc' = "decline"
    BY <1>4, <2>1 DEF CheckConfirm, Goto
  <2> QED BY <1>a, <2>2 DEF Steady
<1>5. CASE NoneTentative
  <2>1. /\ pc' = "solicit"
        /\ \A i \in IAs : ia'[i] = IF DadEnds(i) THEN [ia[i] EXCEPT !.unk = {}] ELSE ia[i]
    BY <1>5 DEF NoneTentative, Goto
  <2>2. \A b \in Bindings : LET e == [b EXCEPT !.unk = {}] IN
          e.state = b.state /\ e.age = b.age /\ e.left = b.left /\ e.unk = {}
    BY DEF Bindings
  <2>3. Steady(ia, ia')
    BY <1>0, <2>1, <2>2 DEF Steady
  <2>4. \A i \in IAs : Detected(pc', ia', i)
    BY <1>0, <2>1, <2>2 DEF Detected, DadEnds
  <2> QED BY <2>1, <2>3, <2>4, SteadyAging
<1>6. CASE CheckSolicit
  <2> DEFINE S == {i \in IAs : cfg[i] = "NOTCONFIGURED"}
  <2>1. pc = "solicit" /\ pc' = "renew" /\ (ia' = ia \/ ia' = InState(S, "INPROCESS"))
    BY <1>6 DEF CheckSolicit, Goto
  <2>2. \A i \in S : ia[i].state # "CONFIGURED"
    BY DEF Orderly, InOrder, Held
  <2> HIDE DEF S
  <2>3. Steady(ia, ia') /\ \A i \in IAs : ia'[i].unk = ia[i].unk /\ ia'[i].age = ia[i].age
    BY <2>1, <2>2, InStateFacts DEF Steady
  <2>4. \A i \in IAs : Detected(pc', ia', i)
    BY <2>1, <2>3 DEF Aging, Detected
  <2> QED BY <2>1, <2>3, <2>4, SteadyAging
<1>7. CASE CheckRenew
  BY <1>7, RenewAging
<1>8. CASE NothingToRenew
  BY <1>8, NobodyDue
<1>9. ASSUME NEW k \in DOMAIN trans, NEW S \in SUBSET IAs, NEW a \in [IAs -> Addrs],
             Reply(k, S, a) \/ RenewReply(k, S, a) \/ RenewNoBinding(k, S, a)
      PROVE  Aging'
  <2>1. PICK d : ia' = Granted(S, a, d)
    BY <1>9 DEF Reply, RenewReply, RenewNoBinding
  <2>2. pc = "select" /\ pc' = "dump" /\ S \subseteq trans[k].ias
    BY <1>9 DEF Reply, RenewReply, RenewNoBinding, Goto, Answered
  <2>3. \A i \in S : ia[i].state # "CONFIGURED"
    <3>1. \A i \in S : i \in Carried(trans)
      BY <2>2 DEF Carried
    <3> QED BY <3>1 DEF Orderly, InOrder, Held
  <2>4. ia' \in [IAs -> Bindings]
    BY RestStep DEF RestOK
  <2> QED BY <2>1, <2>2, <2>3, <2>4, ReplyAging
<1>10. CASE Tick
  BY <1>10, TickAging
<1>11. CASE TickDown \/ UNCHANGED vars
  BY <1>11 DEF TickDown, vars, Aging
<1>12. CASE Shutdown \/ Restart
  <2>1. pc' \in {"down", "msgs"} /\ \A i \in IAs : ia'[i].state # "CONFIGURED"
    BY <1>12 DEF Shutdown, Restart, Gone, Goto, NoLease, Orderly, Resting, Loaded
  <2> QED BY <2>1 DEF Aging, Aged, Queued, Detected
<1>13. \A f \in IAs, S \in SUBSET IAs, b \in [IAs -> Addrs] : ~Decline(f, S, b)
  BY LeftInPeace
<1>14. ~LinkChange /\ ~Crash
  BY LeftInPeace
<1> QED
  BY <1>1, <1>2, <1>3, <1>4, <1>5, <1>6, <1>7, <1>8, <1>9, <1>10, <1>11, <1>12, <1>13,
     <1>14, Zenon DEF Next, Duties, Answer

LEMMA AgingHolds ==
  ASSUME Calm, Spaced
  PROVE  Spec => []Aging
<1>1. Init => Aging
  BY DEF Init, Aging, Aged, Queued, Detected, NoLease
<1>2. TypeOK /\ Flow /\ Orderly /\ Aging /\ [Next]_vars => Aging'
  BY AgingStep
<1> QED BY <1>1, <1>2, TypeCorrect, FlowHolds, OrderlyHolds, PTL DEF Spec

-----------------------------------------------------------------------------
(* No IA is forgotten: it has its lease, or is in an exchange, or CheckSolicit  *)
(* is to ask for it, which leaves none unasked.                               *)
Cared(i) ==
  /\ cfg[i] = "NOTCONFIGURED" \/ i \in Carried(trans) \/ Held(i)
  /\ pc \in {"renew", "select"} => cfg[i] # "NOTCONFIGURED"
AllCared == \A i \in IAs : Cared(i)

LEMMA CaredStep ==
  ASSUME Calm, Spaced, TypeOK, Flow, Orderly, Aging, AllCared, [Next]_vars
  PROVE  AllCared'
<1>0. \A k \in DOMAIN trans : trans[k].ias \subseteq Carried(trans)
  BY ExchangeFacts
<1>a. \A i \in IAs : Cared(i)
  BY DEF AllCared
<1>b. ASSUME pc' \notin {"renew", "select"}, cfg' = cfg, Carried(trans') = Carried(trans),
             \A i \in IAs : Held(i) => ia'[i].state = "CONFIGURED"
      PROVE  AllCared'
  BY <1>a, <1>b DEF AllCared, Cared, Held
<1>1. ASSUME NEW k \in DOMAIN trans, Resend(k) \/ StartRebind(k) PROVE AllCared'
  BY <1>b, <1>1, ResendDoes, StartRebindDoes DEF Held
<1>2. ASSUME NEW k \in DOMAIN trans, TryServer(k) PROVE AllCared'
  BY <1>a, <1>2, TryServerDoes, SetIs DEF AllCared, Cared, Held
<1>3. ASSUME NEW k \in DOMAIN trans, ReleaseIA(k) PROVE AllCared'
  <2>1. /\ Carried(trans') = Carried(trans) \ trans[k].ias
        /\ ia' = Emptied(trans[k].ias) /\ cfg' = Set(cfg, trans[k].ias, "NOTCONFIGURED")
        /\ pc' \in {"msgs", "dump"}
    BY <1>3, ReleaseDoes
  <2>2. \A i \in IAs : IF i \in trans[k].ias THEN cfg'[i] = "NOTCONFIGURED"
                       ELSE cfg'[i] = cfg[i] /\ ia'[i] = ia[i]
    BY <2>1, EmptiedIs, SetIs
  <2> QED BY <1>a, <2>1, <2>2 DEF AllCared, Cared, Held
<1>4. ASSUME NEW k \in DOMAIN trans,
             EndDecline(k) \/ AcceptUnheard(k) \/ ConfirmReply(k) \/ DeclineReply(k) \/ NotOnLink(k)
      PROVE  AllCared'
  BY <1>4, NotSent
<1>5. CASE MessagesDone \/ Dump
  <2>1. /\ ia' = ia /\ cfg' = cfg /\ trans' = trans /\ pc' \in {"expire", "msgs"}
    BY <1>5 DEF MessagesDone, Dump, Goto
  <2> QED BY <1>b, <2>1 DEF Held
<1>6. CASE NothingToRenew
  <2>1. ia' = ia /\ cfg' = cfg /\ trans' = trans /\ pc = "renew"
    BY <1>6 DEF NothingToRenew, Goto
  <2> QED BY <1>a, <2>1 DEF AllCared, Cared, Held
<1>7. CASE Expire
  <2>1. cfg' = cfg /\ trans' = trans
    BY <1>7 DEF Expire
  <2> QED BY <1>b, <1>7, <2>1, ExpireSteady DEF Steady, Held
<1>8. CASE CheckConfirm
  BY <1>b, <1>8, CheckConfirmDoes DEF Held
<1>9. CASE NoneTentative
  <2>1. /\ cfg' = cfg /\ trans' = trans /\ pc' = "solicit"
        /\ \A i \in IAs : ia'[i] \in {ia[i], [ia[i] EXCEPT !.unk = {}]}
    BY <1>9 DEF NoneTentative, Goto
  <2>2. \A i \in IAs : ia'[i].state = ia[i].state
    BY <2>1, ExchangeFacts DEF Bindings
  <2> QED BY <1>b, <2>1, <2>2 DEF Held
<1>10. CASE CheckSolicit
  <2> DEFINE S == {i \in IAs : cfg[i] = "NOTCONFIGURED"}
  <2>1. /\ pc' = "renew"
        /\ \/ S = {} /\ ia' = ia /\ cfg' = cfg /\ trans' = trans
           \/ /\ ia' = InState(S, "INPROCESS") /\ cfg' = Set(cfg, S, "INPROCESS")
              /\ Carried(trans') = Carried(trans) \cup S
    BY <1>10, CheckSolicitDoes
  <2>2. CASE S = {} /\ ia' = ia /\ cfg' = cfg /\ trans' = trans
    BY <1>a, <2>2 DEF AllCared, Cared, Held
  <2>3. CASE /\ ia' = InState(S, "INPROCESS") /\ cfg' = Set(cfg, S, "INPROCESS")
             /\ Carried(trans') = Carried(trans) \cup S
    <3>1. \A i \in IAs : i \in S <=> cfg[i] = "NOTCONFIGURED"
      OBVIOUS
    <3> HIDE DEF S
    <3>2. \A i \in IAs : /\ cfg'[i] = IF i \in S THEN "INPROCESS" ELSE cfg[i]
                         /\ ia'[i].state = IF i \in S THEN "INPROCESS" ELSE ia[i].state
      BY <2>3, SetIs, InStateFacts
    <3> QED BY <1>a, <2>3, <3>1, <3>2 DEF AllCared, Cared, Held
  <2> QED BY <2>1, <2>2, <2>3
<1>11. CASE CheckRenew
  <2>1. PICK S \in SUBSET IAs :
          /\ ia' = InState(S, "INPROCESS") /\ cfg' = cfg /\ pc' = "select"
          /\ Carried(trans') = Carried(trans) \cup S
    BY <1>11, CheckRenewDoes
  <2>2. pc = "renew"
    BY <1>11 DEF CheckRenew
  <2> QED BY <1>a, <2>1, <2>2, InStateFacts DEF AllCared, Cared, Held
<1>12. ASSUME NEW k \in DOMAIN trans, Advertise(k) PROVE AllCared'
  BY <1>a, <1>12, AdvertiseDoes, SetIs DEF AllCared, Cared, Held
<1>13. ASSUME NEW k \in DOMAIN trans, NEW S \in SUBSET IAs, NEW a \in [IAs -> Addrs],
              Reply(k, S, a) \/ RenewReply(k, S, a) \/ RenewNoBinding(k, S, a)
       PROVE  AllCared'
  <2>1. pc' = "dump" /\ \E d : ia' = Granted(S, a, d)
    BY <1>13, ReplyDoes
  <2>2. PICK d : ia' = Granted(S, a, d)
    BY <2>1
  <2>3. ASSUME NEW i \in IAs PROVE Cared(i)'
    <3>1. /\ i \in S => cfg'[i] = "CONFIGURED" /\ i \notin Carried(trans')
          /\ i \in trans[k].ias \ S =>
               \/ cfg'[i] = "NOTCONFIGURED" /\ i \notin Carried(trans')
               \/ cfg'[i] = cfg[i] /\ i \in Carried(trans')
          /\ i \notin trans[k].ias =>
               cfg'[i] = cfg[i] /\ (i \in Carried(trans') <=> i \in Carried(trans))
      BY <1>13, ReplyDoes
    <3>2. CASE i \in S
      BY <2>1, <2>2, <3>2, GrantedIs DEF Cared, Held
    <3>3. CASE i \notin S
      <4>1. ia'[i] = ia[i]
        BY <2>2, <3>3, GrantedIs
      <4> QED BY <1>a, <2>1, <3>1, <3>3, <4>1 DEF Cared, Held
    <3> QED BY <3>2, <3>3
  <2> QED BY <2>3 DEF AllCared
<1>14. CASE Tick
  BY <1>b, <1>14, TickDoes, TickFacts DEF Held
<1>15. CASE TickDown \/ UNCHANGED vars
  BY <1>15 DEF TickDown, vars, AllCared, Cared, Held
<1>16. CASE Shutdown \/ Restart
  <2>1. pc' \in {"down", "msgs"} /\ \A i \in IAs : cfg'[i] = "NOTCONFIGURED"
    BY <1>16, EndDoes
  <2> QED BY <2>1 DEF AllCared, Cared
<1>17. \A f \in IAs, S \in SUBSET IAs, b \in [IAs -> Addrs] : ~Decline(f, S, b)
  BY LeftInPeace
<1>18. ~LinkChange /\ ~Crash
  BY LeftInPeace
<1> QED
  BY <1>1, <1>2, <1>3, <1>4, <1>5, <1>6, <1>7, <1>8, <1>9, <1>10, <1>11, <1>12, <1>13,
     <1>14, <1>15, <1>16, <1>17, <1>18, Zenon DEF Next, Duties, Answer

(* Whenever the client waits, each IA has its lease or is asked for in an      *)
(* exchange: whatever is answered or is not, no path of the handlers leaves    *)
(* an IA aside.                                                             *)
THEOREM NoneForgotten ==
  ASSUME Calm, Spaced
  PROVE  Spec => []EveryIACared
<1>1. Init => AllCared
  BY DEF Init, AllCared, Cared
<1>2. TypeOK /\ Flow /\ Orderly /\ Aging /\ AllCared /\ [Next]_vars => AllCared'
  BY CaredStep
<1>3. TypeOK /\ Orderly /\ AllCared => EveryIACared
  <2> SUFFICES ASSUME TypeOK, Orderly, AllCared, pc = "select", NEW i \in IAs
               PROVE  Leased(i) \/ \E k \in DOMAIN trans : Carries(k, i)
    BY DEF EveryIACared
  <2>1. i \in Carried(trans) \/ Held(i)
    BY DEF AllCared, Cared
  <2>2. CASE Held(i)
    BY <2>2 DEF Orderly, InOrder, Held, Leased
  <2>3. CASE i \in Carried(trans)
    <3>1. PICK k \in DOMAIN trans : i \in trans[k].ias
      BY <2>3 DEF Carried
    <3>2. trans[k].type # "DECLINE"
      BY ExchangeFacts DEF Quiet
    <3> QED BY <3>1, <3>2 DEF Carries
  <2> QED BY <2>1, <2>2, <2>3
<1> QED BY <1>1, <1>2, <1>3, TypeCorrect, FlowHolds, OrderlyHolds, AgingHolds, PTL DEF Spec

-----------------------------------------------------------------------------
(* Every message that waits has its time yet, or the pass over the list is to   *)
(* come to it; RENEW and REBIND last as long as the leases they are for.        *)
RenewInTime(m, b) ==
  /\ \E i \in m.ias : /\ m.wait + m.mrd = T2 - b[i].age
                      /\ b[i].left + b[i].age = Valid /\ b[i].addrs # {}
  /\ N =< 2 => \A i \in m.ias : m.wait + m.mrd = T2 - b[i].age
RebindInTime(m, b) ==
  /\ \A i \in m.ias : b[i].addrs # {} => b[i].left =< m.wait + m.mrd
  /\ \/ m.wait + m.mrd = 0
     \/ \E i \in m.ias : b[i].addrs # {} /\ b[i].left = m.wait + m.mrd
InTime(m, b) ==
  /\ m.type = "RENEW" => RenewInTime(m, b)
  /\ m.type = "REBIND" => RebindInTime(m, b)
Attended(k) == trans[k].wait > 0 \/ (pc = "msgs" /\ k >= pos)
Punctual == \A k \in DOMAIN trans : Attended(k) /\ InTime(trans[k], ia)

LEMMA InTimeKept ==
  ASSUME NEW m, NEW b, NEW c, InTime(m, b),
         \A i \in m.ias : /\ c[i].age = b[i].age /\ c[i].left = b[i].left
                          /\ c[i].addrs = b[i].addrs
  PROVE  InTime(m, c)
BY DEF InTime, RenewInTime, RebindInTime

LEMMA InTimeSent ==
  ASSUME NEW m \in Messages, NEW b, InTime(m, b), m.wait = 0, m.mrd # 0, NEW rt \in Timeouts
  PROVE  InTime(Sent(m, rt), b)
<1>1. /\ Sent(m, rt).type = m.type /\ Sent(m, rt).ias = m.ias
      /\ Sent(m, rt).wait + Sent(m, rt).mrd = m.mrd
  BY SentFacts
<1>2. m.wait + m.mrd = m.mrd
  <2>1. m.mrd \in 0 .. MaxMRD
    BY DEF Messages
  <2> QED BY <2>1, Caps
<1> QED BY <1>1, <1>2 DEF InTime, RenewInTime, RebindInTime

LEMMA ShiftedTo ==
  ASSUME trans \in Seq(Messages), NEW k \in DOMAIN trans
  PROVE  /\ \A j \in DOMAIN Without(k) :
              \E i \in DOMAIN trans : /\ i # k /\ Without(k)[j] = trans[i]
                                      /\ ((j = i /\ i < k) \/ j >= k)
         /\ \A m \in Messages : \A j \in DOMAIN Append(Without(k), m) :
              \/ Append(Without(k), m)[j] = m /\ j >= k
              \/ \E i \in DOMAIN trans : /\ i # k /\ Append(Without(k), m)[j] = trans[i]
                                         /\ ((j = i /\ i < k) \/ j >= k)
<1>0. DOMAIN trans = 1 .. Len(trans) /\ Len(trans) \in Nat
  BY LenProperties
<1>1. ASSUME NEW j \in DOMAIN Without(k)
      PROVE  \E i \in DOMAIN trans : /\ i # k /\ Without(k)[j] = trans[i]
                                     /\ ((j = i /\ i < k) \/ j >= k)
  <2> DEFINE i == IF j < k THEN j ELSE j + 1
  <2>1. j \in 1 .. Len(trans) - 1 /\ Without(k)[j] = trans[i]
    BY WithoutAt
  <2>2. i \in 1 .. Len(trans) /\ i # k /\ ((j = i /\ i < k) \/ j >= k)
    BY <1>0, <2>1
  <2> HIDE DEF i
  <2> QED BY <1>0, <2>1, <2>2
<1>2. ASSUME NEW m \in Messages, NEW j \in DOMAIN Append(Without(k), m)
      PROVE  \/ Append(Without(k), m)[j] = m /\ j >= k
             \/ \E i \in DOMAIN trans : /\ i # k /\ Append(Without(k), m)[j] = trans[i]
                                        /\ ((j = i /\ i < k) \/ j >= k)
  <2>1. Without(k) \in Seq(Messages) /\ Len(Without(k)) = Len(trans) - 1
        /\ DOMAIN Without(k) = 1 .. Len(trans) - 1
    BY WithoutAt
  <2>2. /\ DOMAIN Append(Without(k), m) = 1 .. Len(Without(k)) + 1
        /\ Append(Without(k), m)[Len(Without(k)) + 1] = m
        /\ \A x \in 1 .. Len(Without(k)) : Append(Without(k), m)[x] = Without(k)[x]
    BY <2>1, AppendAt
  <2>3. (j = Len(trans) /\ j >= k) \/ j \in 1 .. Len(trans) - 1
    <3> DEFINE n == Len(trans)
               D == DOMAIN Append(Without(k), m)
    <3>1. D = 1 .. (n - 1) + 1 /\ k \in 1 .. n /\ n \in Nat /\ j \in D
      BY <1>0, <2>1, <2>2
    <3> HIDE DEF n, D
    <3>2. (j = n /\ j >= k) \/ j \in 1 .. n - 1
      BY <3>1
    <3> QED BY <3>2 DEF n
  <2>4. CASE j \in 1 .. Len(trans) - 1
    <3>1. Append(Without(k), m)[j] = Without(k)[j] /\ j \in DOMAIN Without(k)
      BY <2>1, <2>2, <2>4
    <3> QED BY <1>1, <3>1
  <2>5. CASE j = Len(trans) /\ j >= k
    <3>1. Len(Without(k)) + 1 = Len(trans)
      BY <1>0, <2>1
    <3> QED BY <2>2, <2>5, <3>1
  <2> QED BY <2>3, <2>4, <2>5
<1> QED BY <1>1, <1>2

(* The pass over the list has attended to all messages before the one that is  *)
(* due.                                                                      *)
LEMMA DueFacts ==
  ASSUME TypeOK, Orderly, Punctual, NEW k \in DOMAIN trans, NextDue(k)
  PROVE  /\ trans[k].wait = 0
         /\ \A i \in DOMAIN trans : i < k => trans[i].wait > 0
<1>1. \A i \in DOMAIN trans : /\ trans[i].type # "CONFIRM" /\ trans[i].wait \in 0 .. MaxRT
                              /\ i \in Nat
  <2>1. \A m \in Messages : m.wait \in 0 .. MaxRT
    BY DEF Messages
  <2> QED BY <2>1, ExchangeFacts, MessageFacts DEF Quiet
<1>2. pc = "msgs" /\ k \in pos .. Len(trans) /\ trans[k].wait = 0
  BY <1>1 DEF NextDue, Due
<1>3. pos \in Nat /\ MaxRT \in Nat
  BY ConstantsAssumption DEF TypeOK
<1>4. ASSUME NEW i \in DOMAIN trans, i < k PROVE trans[i].wait > 0
  <2>1. CASE i >= pos
    <3>1. i \in pos .. k - 1
      BY <1>1, <1>2, <1>3, <1>4, <2>1
    <3>2. trans[i].wait # 0
      BY <3>1 DEF NextDue, Due
    <3> QED BY <1>1, <1>3, <3>2
  <2>2. CASE ~(i >= pos)
    BY <2>2 DEF Punctual, Attended
  <2> QED BY <2>1, <2>2
<1> QED BY <1>2, <1>4

(* A message that gives way leaves the others their time. *)
LEMMA OthersInTime ==
  ASSUME TypeOK, Orderly, Punctual, NEW k \in DOMAIN trans,
         \A i \in IAs : i \notin trans[k].ias => ia'[i] = ia[i],
         NEW j \in DOMAIN trans, j # k
  PROVE  InTime(trans[j], ia')
<1>1. \A i \in trans[j].ias : i \in IAs /\ i \notin trans[k].ias
  BY ExchangeFacts DEF Listed, Apart
<1>2. InTime(trans[j], ia)
  BY DEF Punctual
<1> QED BY <1>1, <1>2, InTimeKept

LEMMA GivingWay ==
  ASSUME TypeOK, Orderly, Punctual, NEW k \in DOMAIN trans, GivesWay(k),
         \A i \in IAs : i \notin trans[k].ias => ia'[i] = ia[i],
         (pc = "msgs" /\ NextDue(k) /\ pc' = "msgs" /\ pos' = k) \/ pc = "select"
  PROVE  Punctual'
<1>1. SUFFICES ASSUME NEW j \in DOMAIN trans'
               PROVE  (trans'[j].wait > 0 \/ (pc' = "msgs" /\ j >= pos')) /\ InTime(trans'[j], ia')
  BY DEF Punctual, Attended
<1>2. \/ trans'[j].type = "REQUEST" /\ trans'[j].wait > 0
      \/ \E i \in DOMAIN trans : i # k /\ trans'[j] = trans[i] /\ ((j = i /\ i < k) \/ j >= k)
  BY ExchangeFacts, <1>1, ShiftedTo DEF GivesWay
<1>3. CASE trans'[j].type = "REQUEST" /\ trans'[j].wait > 0
  BY <1>3 DEF InTime
<1>4. CASE \E i \in DOMAIN trans : i # k /\ trans'[j] = trans[i] /\ ((j = i /\ i < k) \/ j >= k)
  <2>1. PICK i \in DOMAIN trans : i # k /\ trans'[j] = trans[i] /\ ((j = i /\ i < k) \/ j >= k)
    BY <1>4
  <2>2. InTime(trans'[j], ia')
    BY <2>1, OthersInTime
  <2>3. CASE pc = "select"
    BY <2>1, <2>2, <2>3 DEF Punctual, Attended
  <2>4. CASE pc = "msgs" /\ NextDue(k) /\ pc' = "msgs" /\ pos' = k
    BY <2>1, <2>2, <2>4, DueFacts
  <2> QED BY <2>3, <2>4
<1> QED BY <1>2, <1>3, <1>4

LEMMA ResendPunctual ==
  ASSUME TypeOK, Orderly, Punctual, NEW k \in DOMAIN trans, Resend(k)
  PROVE  Punctual'
<1>1. PICK rt \in Timeouts : trans' = [trans EXCEPT ![k] = Sent(@, rt)]
  BY DEF Resend
<1>2. NextDue(k) /\ ~GivesUp(trans[k]) /\ pos' = k + 1 /\ pc' = "msgs" /\ pc = "msgs" /\ ia' = ia
  BY DEF Resend, NextDue
<1>3. trans[k] \in Messages /\ k \in Nat /\ \A j \in DOMAIN trans : j \in Nat
  BY ExchangeFacts, MessageFacts
<1>4. Sent(trans[k], rt).wait > 0 /\ Sent(trans[k], rt).type = trans[k].type
  BY <1>3, SentFacts
<1>5. InTime(trans[k], ia) /\ trans[k].wait = 0
  BY <1>2, DueFacts DEF Punctual
<1>6. InTime(Sent(trans[k], rt), ia)
  <2>1. CASE trans[k].type \in {"RENEW", "REBIND"}
    <3>1. trans[k].mrd # 0
      BY <1>2, <2>1 DEF GivesUp
    <3> QED BY <1>3, <1>5, <3>1, InTimeSent
  <2>2. CASE trans[k].type \notin {"RENEW", "REBIND"}
    BY <1>4, <2>2 DEF InTime
  <2> QED BY <2>1, <2>2
<1>7. ASSUME NEW j \in DOMAIN trans
      PROVE  (trans'[j].wait > 0 \/ j >= k + 1) /\ InTime(trans'[j], ia)
  <2>1. CASE j = k
    BY <1>1, <1>4, <1>6, <2>1
  <2>2. CASE j # k
    <3>1. trans'[j] = trans[j]
      BY <1>1, <2>2
    <3>2. j < k \/ j >= k + 1
      BY <1>3, <2>2
    <3> QED BY <1>2, <3>1, <3>2, DueFacts DEF Punctual
  <2> QED BY <2>1, <2>2
<1>8. DOMAIN trans' = DOMAIN trans
  BY <1>1
<1> QED BY <1>2, <1>7, <1>8 DEF Punctual, Attended

LEMMA StartPunctual ==
  ASSUME TypeOK, Orderly, Punctual, NEW m \in Messages, NEW rt \in Timeouts,
         trans' = Append(trans, Sent(m, rt)), pc # "msgs", InTime(Sent(m, rt), ia'),
         \A i \in IAs : /\ ia'[i].age = ia[i].age /\ ia'[i].left = ia[i].left
                        /\ ia'[i].addrs = ia[i].addrs
  PROVE  Punctual'
<1> DEFINE x == Sent(m, rt)
<1>1. x \in Messages /\ x.wait > 0
  BY SentFacts
<1>2. /\ DOMAIN trans' = 1 .. Len(trans) + 1 /\ trans'[Len(trans) + 1] = x
      /\ \A j \in 1 .. Len(trans) : trans'[j] = trans[j]
      /\ DOMAIN trans = 1 .. Len(trans) /\ Len(trans) \in Nat
  BY ExchangeFacts, <1>1, AppendAt
<1>3. InTime(x, ia')
  OBVIOUS
<1> HIDE DEF x
<1>4. ASSUME NEW j \in 1 .. Len(trans) PROVE trans'[j].wait > 0 /\ InTime(trans'[j], ia')
  <2>1. j \in DOMAIN trans /\ trans'[j] = trans[j]
    BY <1>2
  <2>2. trans[j].wait > 0 /\ InTime(trans[j], ia)
    BY <2>1 DEF Punctual, Attended
  <2>3. \A i \in trans[j].ias : i \in IAs
    BY <2>1, ExchangeFacts
  <2>4. InTime(trans[j], ia')
    BY <2>2, <2>3, InTimeKept
  <2> QED BY <2>1, <2>2, <2>4
<1>5. \A j \in DOMAIN trans' : j \in 1 .. Len(trans) \/ j = Len(trans) + 1
  BY <1>2
<1> QED BY <1>1, <1>2, <1>3, <1>4, <1>5 DEF Punctual, Attended

LEMMA TimeLeftIs ==
  ASSUME TypeOK, NEW S \in SUBSET IAs
  PROVE  /\ TimeLeft(S) \in Nat
         /\ \A i \in S : ia[i].addrs # {} => ia[i].left =< TimeLeft(S)
         /\ TimeLeft(S) = 0 \/ \E i \in S : ia[i].addrs # {} /\ ia[i].left = TimeLeft(S)
<1> DEFINE T == {0} \cup {ia[i].left : i \in {j \in S : ia[j].addrs # {}}}
<1>1. Valid \in Nat /\ T \in SUBSET (0 .. Valid) /\ T # {}
  BY ConstantsAssumption DEF TypeOK, Bindings
<1>2. TimeLeft(S) = Max(T)
  BY DEF TimeLeft
<1>3. \A i \in S : ia[i].addrs # {} => ia[i].left \in T
  OBVIOUS
<1>4. \A t \in T : t = 0 \/ \E i \in S : ia[i].addrs # {} /\ ia[i].left = t
  OBVIOUS
<1> HIDE DEF T
<1>5. Max(T) \in T /\ \A y \in T : y =< Max(T)
  BY <1>1, MaxIn
<1>6. Max(T) \in Nat
  <2>1. \A x \in 0 .. Valid : x \in Nat
    BY <1>1
  <2>2. Max(T) \in 0 .. Valid
    BY <1>1, <1>5
  <2> QED BY <2>1, <2>2
<1> QED BY <1>2, <1>3, <1>4, <1>5, <1>6

LEMMA RebindPunctual ==
  ASSUME TypeOK, Orderly, Punctual, NEW k \in DOMAIN trans, StartRebind(k)
  PROVE  Punctual'
<1> DEFINE S == trans[k].ias
           d == TimeLeft(S)
           m == New("REBIND", S, 0, TRUE, d)
<1>0. /\ trans[k] \in Messages /\ S \in SUBSET IAs /\ trans \in Seq(Messages)
      /\ k \in Nat
  BY ExchangeFacts, MessageFacts
<1>1. PICK rt \in Timeouts : trans' = Append(Without(k), Sent(m, rt))
  BY DEF StartRebind
<1>2. /\ NextDue(k) /\ GivesUp(trans[k]) /\ trans[k].type = "RENEW" /\ pos' = k
      /\ pc' = "msgs" /\ ia' = ia
  BY DEF StartRebind, NextDue
<1>3. d \in Nat /\ (\A i \in S : ia[i].addrs # {} => ia[i].left =< d)
      /\ (d = 0 \/ \E i \in S : ia[i].addrs # {} /\ ia[i].left = d)
  BY <1>0, TimeLeftIs
<1>4. d # 0
  <2>1. trans[k].wait = 0 /\ trans[k].mrd = 0 /\ InTime(trans[k], ia)
    BY <1>2, DueFacts DEF GivesUp, Punctual
  <2>2. PICK i \in S : /\ 0 + 0 = T2 - ia[i].age /\ ia[i].left + ia[i].age = Valid
                       /\ ia[i].addrs # {}
    BY <1>2, <2>1 DEF InTime, RenewInTime
  <2>3. ia[i].age \in 0 .. T2 /\ ia[i].left \in 0 .. Valid
    BY <1>0, BindingFacts DEF TypeOK
  <2>4. ia[i].left > 0
    BY <2>2, <2>3, ConstantsAssumption
  <2>5. ia[i].left =< d
    BY <1>3, <2>2
  <2> HIDE DEF d
  <2> QED BY <2>4, <2>5, <2>3
<1>5. d \in 0 .. MaxMRD
  BY <1>0, TimeLeftType
<1> HIDE DEF d
<1>6. m \in Messages /\ m.ias = S /\ m.type = "REBIND" /\ m.mrd = d
  BY <1>0, <1>5, ConstantsAssumption, Caps DEF New, Messages, Types
<1> HIDE DEF m
<1>7. /\ Sent(m, rt) \in Messages /\ Sent(m, rt).wait > 0 /\ Sent(m, rt).type = "REBIND"
      /\ Sent(m, rt).ias = S /\ Sent(m, rt).wait + Sent(m, rt).mrd = d
  BY <1>4, <1>6, SentFacts
<1>8. InTime(Sent(m, rt), ia)
  BY <1>3, <1>4, <1>7 DEF InTime, RebindInTime
<1>9. ASSUME NEW j \in DOMAIN trans'
      PROVE  (trans'[j].wait > 0 \/ j >= k) /\ InTime(trans'[j], ia)
  <2>1. \/ trans'[j] = Sent(m, rt)
        \/ \E i \in DOMAIN trans : i # k /\ trans'[j] = trans[i] /\ ((j = i /\ i < k) \/ j >= k)
    BY <1>0, <1>1, <1>7, <1>9, ShiftedTo
  <2>2. CASE trans'[j] = Sent(m, rt)
    BY <1>7, <1>8, <2>2
  <2>3. CASE \E i \in DOMAIN trans : i # k /\ trans'[j] = trans[i] /\ ((j = i /\ i < k) \/ j >= k)
    <3>1. PICK i \in DOMAIN trans : i # k /\ trans'[j] = trans[i] /\ ((j = i /\ i < k) \/ j >= k)
      BY <2>3
    <3> QED BY <1>2, <3>1, DueFacts DEF Punctual
  <2> QED BY <2>1, <2>2, <2>3
<1> QED BY <1>2, <1>9 DEF Punctual, Attended

LEMMA SolicitPunctual ==
  ASSUME TypeOK, Orderly, Punctual, CheckSolicit
  PROVE  Punctual'
<1> DEFINE S == {i \in IAs : cfg[i] = "NOTCONFIGURED"}
           m == New("SOLICIT", S, 0, TRUE, 0)
<1>1. CASE S = {}
  <2>1. ia' = ia /\ trans' = trans /\ pc = "solicit"
    BY <1>1 DEF CheckSolicit
  <2> QED BY <2>1 DEF Punctual, Attended
<1>2. CASE S # {}
  <2>1. ia' = InState(S, "INPROCESS") /\ Start(m) /\ pc = "solicit"
    BY <1>2 DEF CheckSolicit
  <2>2. PICK rt \in Timeouts : trans' = Append(trans, Sent(m, rt))
    BY <2>1 DEF Start
  <2>3. S \in SUBSET IAs
    OBVIOUS
  <2> HIDE DEF S
  <2>4. m \in Messages /\ m.type = "SOLICIT"
    BY <2>3, ConstantsAssumption, Caps DEF New, Messages, Types
  <2> HIDE DEF m
  <2>5. InTime(Sent(m, rt), ia')
    BY <2>4, SentFacts DEF InTime
  <2>6. \A i \in IAs : /\ ia'[i].age = ia[i].age /\ ia'[i].left = ia[i].left
                       /\ ia'[i].addrs = ia[i].addrs
    BY <2>1, InStateFacts
  <2>7. pc # "msgs"
    BY <2>1
  <2> QED BY <2>2, <2>4, <2>5, <2>6, <2>7, StartPunctual
<1> QED BY <1>1, <1>2

(* Of two IAs, both due, neither has been passed: they are equally old. *)
LEMMA DueTogether ==
  ASSUME Spaced, TypeOK, Aging, pc = "renew", N =< 2, NEW i \in ToRenew, NEW j \in ToRenew
  PROVE  ia[i].age = ia[j].age
<1>1. ia \in [IAs -> Bindings] /\ Turn(pc) = 0
  BY DEF TypeOK, Turn
<1>2. ASSUME NEW x \in ToRenew, NEW y \in ToRenew, x # y
      PROVE  ia[x].age = T1
  <2>1. /\ x \in IAs /\ y \in IAs /\ ia[x].state = "CONFIGURED" /\ ia[y].state = "CONFIGURED"
        /\ ia[x].age >= T1 /\ ia[y].age >= T1
    BY DEF ToRenew
  <2>2. Queued(ia, x, 0)
    BY <1>1, <2>1 DEF Aging
  <2>3. y \notin Passed(ia, x)
    BY <1>1, <2>1, <2>2, DueNotPassed
  <2>4. x \notin Passed(ia, x)
    BY <1>1, <2>1, PassedFinite
  <2>5. \A z \in IAs : z = x \/ z = y
    <3>1. N \in Nat /\ IAs = 1 .. N
      BY ConstantsAssumption DEF IAs
    <3> QED BY <1>2, <2>1, <3>1
  <2>6. Passed(ia, x) = {}
    <3>1. Passed(ia, x) \subseteq IAs
      BY DEF Passed, Fresh
    <3> QED BY <2>3, <2>4, <2>5, <3>1
  <2>7. ia[x].age - T1 + 0 =< 0
    BY <2>1, <2>2, <2>6, FS_EmptySet DEF Queued
  <2>8. ia[x].age \in 0 .. T2 /\ T1 \in Nat /\ T2 \in Nat
    BY <1>1, <2>1, BindingFacts, ConstantsAssumption
  <2> QED BY <2>1, <2>7, <2>8
<1> QED BY <1>2

LEMMA RenewPunctual ==
  ASSUME Spaced, TypeOK, Flow, Orderly, Aging, Punctual, CheckRenew
  PROVE  Punctual'
<1> DEFINE f == Min(ToRenew)
           S == {i \in ToRenew : ia[i].duid = ia[f].duid}
           d == T2 - ia[f].age
           m == New("RENEW", S, 1, TRUE, d)
<1>1. ia' = InState(S, "INPROCESS") /\ Start(m) /\ pc = "renew" /\ f \in S
  BY NeverDies
<1>2. PICK rt \in Timeouts : trans' = Append(trans, Sent(m, rt))
  BY <1>1 DEF Start
<1>3. d \in 0 .. MaxMRD
  BY FirstToRenew DEF CheckRenew
<1>4. S \in SUBSET IAs /\ f \in ToRenew /\ f \in IAs /\ Held(f) /\ \A i \in S : i \in ToRenew
  BY <1>1 DEF ToRenew, Held
<1>5. ia[f].age < T2 /\ Aged(ia, f) /\ ia[f].age \in 0 .. T2 /\ T2 \in Nat
  <2>1. ia \in [IAs -> Bindings] /\ Turn(pc) \in {0, 1} /\ Aged(ia, f) /\ Queued(ia, f, Turn(pc))
    BY <1>4, TurnIn DEF TypeOK, Aging
  <2>2. ia[f].state = "CONFIGURED"
    BY <1>4 DEF Held
  <2>3. ia[f].age < T2
    BY <1>4, <2>1, <2>2, NotYetT2
  <2> QED BY <1>4, <2>1, <2>3, BindingFacts, ConstantsAssumption
<1>6. d # 0 /\ d = T2 - ia[f].age
  BY <1>5
<1>7. \A i \in IAs : /\ ia'[i].age = ia[i].age /\ ia'[i].left = ia[i].left
                     /\ ia'[i].addrs = ia[i].addrs
  BY <1>1, InStateFacts
<1>8. /\ ia'[f].left + ia'[f].age = Valid /\ ia'[f].addrs # {} /\ d = T2 - ia'[f].age
  BY <1>4, <1>5, <1>6, <1>7 DEF Aged, Held, Orderly, InOrder
<1>9. N =< 2 => \A i \in S : d = T2 - ia'[i].age
  <2> SUFFICES ASSUME N =< 2, NEW i \in S PROVE d = T2 - ia'[i].age
    OBVIOUS
  <2>1. ia[i].age = ia[f].age
    BY <1>1, <1>4, DueTogether
  <2>2. ia'[i].age = ia[i].age
    BY <1>4, <1>7
  <2> QED BY <1>6, <2>1, <2>2
<1> HIDE DEF f, S, d
<1>10. m \in Messages /\ m.ias = S /\ m.type = "RENEW" /\ m.mrd = d
  BY <1>3, <1>4, ConstantsAssumption, Caps DEF New, Messages, Types
<1> HIDE DEF m
<1>11. /\ Sent(m, rt).type = "RENEW" /\ Sent(m, rt).ias = S
       /\ Sent(m, rt).wait + Sent(m, rt).mrd = d
  BY <1>6, <1>10, SentFacts
<1>12. InTime(Sent(m, rt), ia')
  BY <1>1, <1>8, <1>9, <1>11 DEF InTime, RenewInTime
<1>13. pc # "msgs"
  BY <1>1
<1> QED BY <1>2, <1>7, <1>10, <1>12, <1>13, StartPunctual

(* What expires is not what a message lasts for. *)
LEMMA ExpirePunctual ==
  ASSUME TypeOK, Orderly, Punctual, Expire
  PROVE  Punctual'
<1>1. ia' = Emptied(Expired) /\ trans' = trans /\ pc = "expire"
  BY DEF Expire
<1>2. ASSUME NEW i \in IAs
      PROVE  /\ ia'[i].age = ia[i].age
             /\ i \notin Expired => ia'[i] = ia[i]
             /\ i \in Expired => ia[i].left = 0 /\ ia'[i].addrs = {}
             /\ ia[i].age \in 0 .. T2 /\ ia[i].left \in 0 .. Valid
  <2>1. ia[i].age \in 0 .. T2 /\ ia[i].left \in 0 .. Valid
    BY BindingFacts DEF TypeOK
  <2>2. i \in Expired => ia[i].left = 0
    BY DEF Expired
  <2> QED BY <1>1, <2>1, <2>2, EmptiedIs
<1>3. ASSUME NEW j \in DOMAIN trans PROVE trans[j].wait > 0 /\ InTime(trans[j], ia')
  <2> DEFINE m == trans[j]
  <2>1. m.wait > 0 /\ InTime(m, ia)
    BY <1>1 DEF Punctual, Attended
  <2>2. m \in Messages /\ m.ias \in SUBSET IAs
    BY ExchangeFacts
  <2>3. m.wait \in Nat /\ m.mrd \in Nat /\ m.wait + m.mrd # 0
    <3>1. m.wait \in 0 .. MaxRT /\ m.mrd \in 0 .. MaxMRD
      BY <2>2 DEF Messages
    <3> QED BY <2>1, <3>1
  <2> SUFFICES InTime(m, ia')
    BY <2>1
  <2> HIDE DEF m
  <2>4. CASE m.type = "RENEW"
    <3>1. RenewInTime(m, ia)
      BY <2>1, <2>4 DEF InTime
    <3>2. PICK i \in m.ias : /\ m.wait + m.mrd = T2 - ia[i].age
                             /\ ia[i].left + ia[i].age = Valid /\ ia[i].addrs # {}
      BY <3>1 DEF RenewInTime
    <3>3. i \notin Expired
      BY <1>2, <2>2, <3>2, ConstantsAssumption
    <3>4. /\ m.wait + m.mrd = T2 - ia'[i].age
          /\ ia'[i].left + ia'[i].age = Valid /\ ia'[i].addrs # {}
      BY <1>2, <2>2, <3>2, <3>3
    <3>5. N =< 2 => \A x \in m.ias : m.wait + m.mrd = T2 - ia'[x].age
      BY <1>2, <2>2, <3>1 DEF RenewInTime
    <3> QED BY <2>4, <3>4, <3>5 DEF InTime, RenewInTime
  <2>5. CASE m.type = "REBIND"
    <3>1. RebindInTime(m, ia)
      BY <2>1, <2>5 DEF InTime
    <3>2. PICK i \in m.ias : ia[i].addrs # {} /\ ia[i].left = m.wait + m.mrd
      BY <2>3, <3>1 DEF RebindInTime
    <3>3. ia'[i].addrs # {} /\ ia'[i].left = m.wait + m.mrd
      BY <1>2, <2>2, <2>3, <3>2
    <3>4. \A x \in m.ias : ia'[x].addrs # {} => ia'[x].left =< m.wait + m.mrd
      BY <1>2, <2>2, <3>1 DEF RebindInTime
    <3> QED BY <2>5, <3>3, <3>4 DEF InTime, RebindInTime
  <2>6. CASE m.type \notin {"RENEW", "REBIND"}
    BY <2>6 DEF InTime
  <2> QED BY <2>4, <2>5, <2>6
<1> QED BY <1>1, <1>3 DEF Punctual, Attended

LEMMA TickPunctual ==
  ASSUME TypeOK, Orderly, Punctual, Tick
  PROVE  Punctual'
<1>1. /\ pc = "select" /\ pc' = "msgs" /\ pos' = 1
      /\ trans' = [k \in DOMAIN trans |-> [trans[k] EXCEPT !.wait = Less(@)]]
  BY DEF Tick, Goto
<1>2. ASSUME NEW i \in IAs
      PROVE  /\ ia'[i].addrs = ia[i].addrs
             /\ ia[i].age \in 0 .. T2 /\ ia[i].left \in 0 .. Valid
             /\ ia[i].age < T2 => ia'[i].age = ia[i].age + 1
             /\ ia[i].left # 0 => ia'[i].left = ia[i].left - 1
             /\ ia[i].left = 0 => ia'[i].left = 0
  <2>1. ia[i].age \in 0 .. T2 /\ ia[i].left \in 0 .. Valid
    BY BindingFacts DEF TypeOK
  <2> QED BY <2>1, TickFacts DEF Less
<1>3. ASSUME NEW j \in DOMAIN trans PROVE InTime(trans'[j], ia') /\ j >= 1
  <2> DEFINE m == trans[j]
             w == trans'[j]
  <2>1. m.wait > 0 /\ InTime(m, ia)
    BY <1>1 DEF Punctual, Attended
  <2>2. m \in Messages /\ m.ias \in SUBSET IAs /\ j \in Nat \ {0}
    BY ExchangeFacts, MessageFacts
  <2>3. m.wait \in Nat /\ m.mrd \in Nat /\ m.wait + m.mrd > 0
    <3>1. m.wait \in 0 .. MaxRT /\ m.mrd \in 0 .. MaxMRD
      BY <2>2 DEF Messages
    <3> QED BY <2>1, <3>1
  <2>4. w.type = m.type /\ w.ias = m.ias /\ w.wait = m.wait - 1 /\ w.mrd = m.mrd
    <3>1. w = [m EXCEPT !.wait = Less(@)]
      BY <1>1
    <3>2. Less(m.wait) = m.wait - 1
      BY <2>1, <2>3 DEF Less
    <3> HIDE DEF m, w
    <3> QED BY <2>2, <3>1, <3>2 DEF Messages
  <2> SUFFICES InTime(w, ia')
    BY <2>2
  <2> HIDE DEF m, w
  <2>5. w.wait + w.mrd = m.wait + m.mrd - 1
    BY <2>3, <2>4
  <2>6. CASE m.type = "RENEW"
    <3>1. RenewInTime(m, ia)
      BY <2>1, <2>6 DEF InTime
    <3>2. PICK i \in m.ias : /\ m.wait + m.mrd = T2 - ia[i].age
                             /\ ia[i].left + ia[i].age = Valid /\ ia[i].addrs # {}
      BY <3>1 DEF RenewInTime
    <3>3. T2 \in Nat /\ Valid \in Nat /\ T2 < Valid
      BY ConstantsAssumption
    <3>4. \A x \in m.ias : m.wait + m.mrd = T2 - ia[x].age => w.wait + w.mrd = T2 - ia'[x].age
      <4> SUFFICES ASSUME NEW x \in m.ias, m.wait + m.mrd = T2 - ia[x].age
                   PROVE  w.wait + w.mrd = T2 - ia'[x].age
        OBVIOUS
      <4>1. ia[x].age < T2 /\ ia[x].age \in 0 .. T2
        BY <1>2, <2>2, <2>3, <3>3
      <4>2. ia'[x].age = ia[x].age + 1
        BY <1>2, <2>2, <4>1
      <4> QED BY <2>3, <2>5, <3>3, <4>1, <4>2
    <3>5. ia'[i].left + ia'[i].age = Valid /\ ia'[i].addrs # {}
      <4>1. ia[i].age < T2 /\ ia[i].left # 0 /\ ia[i].age \in 0 .. T2 /\ ia[i].left \in 0 .. Valid
        BY <1>2, <2>2, <2>3, <3>2, <3>3
      <4>2. ia'[i].age = ia[i].age + 1 /\ ia'[i].left = ia[i].left - 1
        BY <1>2, <2>2, <4>1
      <4>3. ia'[i].addrs # {}
        BY <1>2, <2>2, <3>2
      <4> QED BY <3>2, <3>3, <4>1, <4>2, <4>3
    <3>6. N =< 2 => \A x \in m.ias : w.wait + w.mrd = T2 - ia'[x].age
      BY <3>1, <3>4 DEF RenewInTime
    <3> QED BY <2>4, <2>6, <3>2, <3>4, <3>5, <3>6 DEF InTime, RenewInTime
  <2>7. CASE m.type = "REBIND"
    <3>1. RebindInTime(m, ia)
      BY <2>1, <2>7 DEF InTime
    <3>2. PICK i \in m.ias : ia[i].addrs # {} /\ ia[i].left = m.wait + m.mrd
      BY <2>3, <3>1 DEF RebindInTime
    <3>3. ia'[i].addrs # {} /\ ia'[i].left = w.wait + w.mrd
      <4>1. ia[i].left # 0
        BY <2>3, <3>2
      <4>2. ia'[i].addrs = ia[i].addrs /\ ia'[i].left = ia[i].left - 1
        BY <1>2, <2>2, <4>1
      <4> QED BY <2>3, <2>5, <3>2, <4>1, <4>2
    <3>4. ASSUME NEW x \in m.ias, ia'[x].addrs # {} PROVE ia'[x].left =< w.wait + w.mrd
      <4>1. ia[x].left =< m.wait + m.mrd /\ ia[x].left \in 0 .. Valid
        BY <1>2, <2>2, <3>1, <3>4 DEF RebindInTime
      <4>2. ia'[x].left = 0 \/ ia'[x].left = ia[x].left - 1
        BY <1>2, <2>2
      <4> QED BY <2>3, <2>5, <4>1, <4>2
    <3> QED BY <2>4, <2>7, <3>3, <3>4 DEF InTime, RebindInTime
  <2>8. CASE m.type \notin {"RENEW", "REBIND"}
    BY <2>4, <2>8 DEF InTime
  <2> QED BY <2>6, <2>7, <2>8
<1>4. DOMAIN trans' = DOMAIN trans
  BY <1>1
<1> QED BY <1>1, <1>3, <1>4 DEF Punctual, Attended

LEMMA PunctualStep ==
  ASSUME Calm, Spaced, TypeOK, Flow, Orderly, Aging, Punctual, [Next]_vars
  PROVE  Punctual'
<1>a. ASSUME trans' = trans, pc # "msgs",
             \A i \in IAs : /\ ia'[i].age = ia[i].age /\ ia'[i].left = ia[i].left
                            /\ ia'[i].addrs = ia[i].addrs
      PROVE  Punctual'
  <2>1. ASSUME NEW j \in DOMAIN trans PROVE trans[j].wait > 0 /\ InTime(trans[j], ia')
    <3>1. trans[j].wait > 0 /\ InTime(trans[j], ia)
      BY <1>a DEF Punctual, Attended
    <3>2. \A i \in trans[j].ias : i \in IAs
      BY ExchangeFacts
    <3> QED BY <1>a, <3>1, <3>2, InTimeKept
  <2> QED BY <1>a, <2>1 DEF Punctual, Attended
<1>1. ASSUME NEW k \in DOMAIN trans, Resend(k) PROVE Punctual'
  BY <1>1, ResendPunctual
<1>2. ASSUME NEW k \in DOMAIN trans, StartRebind(k) PROVE Punctual'
  BY <1>2, RebindPunctual
<1>3. ASSUME NEW k \in DOMAIN trans, TryServer(k) PROVE Punctual'
  <2>1. NextDue(k) /\ pc = "msgs" /\ pos' = k
    BY <1>3 DEF TryServer, NextDue
  <2>2. GivesWay(k) /\ pc' = "msgs" /\ ia' = ia
    BY <1>3, TryServerDoes
  <2> QED BY <2>1, <2>2, GivingWay
<1>4. ASSUME NEW k \in DOMAIN trans, ReleaseIA(k) PROVE Punctual'
  <2>1. NextDue(k) /\ pc = "msgs" /\ pos' = k /\ pc' = "msgs"
    BY <1>4 DEF ReleaseIA, NextDue
  <2>2. GivesWay(k) /\ ia' = Emptied(trans[k].ias)
    BY <1>4, ReleaseDoes
  <2>3. \A i \in IAs : i \notin trans[k].ias => ia'[i] = ia[i]
    BY <2>2, EmptiedIs
  <2> QED BY <2>1, <2>2, <2>3, GivingWay
<1>5. ASSUME NEW k \in DOMAIN trans,
             EndDecline(k) \/ AcceptUnheard(k) \/ ConfirmReply(k) \/ DeclineReply(k) \/ NotOnLink(k)
      PROVE  Punctual'
  BY <1>5, NotSent
<1>6. CASE MessagesDone
  <2>1. trans' = trans /\ ia' = ia /\ pc = "msgs" /\ \A k \in pos .. Len(trans) : ~Due(trans[k])
    BY <1>6 DEF MessagesDone
  <2>2. ASSUME NEW j \in DOMAIN trans PROVE trans[j].wait > 0
    <3>1. trans[j].wait \in 0 .. MaxRT /\ j \in 1 .. Len(trans) /\ Len(trans) \in Nat
      <4>1. \A m \in Messages : m.wait \in 0 .. MaxRT
        BY DEF Messages
      <4> QED BY <4>1, ExchangeFacts, LenProperties
    <3>2. CASE j >= pos
      <4>1. j \in pos .. Len(trans)
        BY <3>1, <3>2 DEF TypeOK
      <4>2. trans[j].wait # 0
        BY <2>1, <4>1 DEF Due
      <4> QED BY <3>1, <4>2, ConstantsAssumption
    <3>3. CASE ~(j >= pos)
      BY <3>3 DEF Punctual, Attended
    <3> QED BY <3>2, <3>3
  <2> QED BY <2>1, <2>2 DEF Punctual, Attended
<1>7. CASE Expire
  BY <1>7, ExpirePunctual
<1>8. CASE CheckConfirm
  <2>1. pc = "confirm"
    BY <1>8 DEF CheckConfirm
  <2> QED BY <1>a, <1>8, <2>1, CheckConfirmDoes
<1>9. CASE NoneTentative
  <2>1. /\ trans' = trans /\ pc = "decline"
        /\ \A i \in IAs : ia'[i] \in {ia[i], [ia[i] EXCEPT !.unk = {}]}
    BY <1>9 DEF NoneTentative
  <2>2. \A i \in IAs : /\ ia'[i].age = ia[i].age /\ ia'[i].left = ia[i].left
                       /\ ia'[i].addrs = ia[i].addrs
    BY <2>1, ExchangeFacts DEF Bindings
  <2> QED BY <1>a, <2>1, <2>2
<1>10. CASE CheckSolicit
  BY <1>10, SolicitPunctual
<1>11. CASE CheckRenew
  BY <1>11, RenewPunctual
<1>12. CASE NothingToRenew \/ Dump
  <2>1. ia' = ia /\ trans' = trans /\ pc \in {"renew", "dump"}
    BY <1>12 DEF NothingToRenew, Dump
  <2> QED BY <1>a, <2>1
<1>13. ASSUME NEW k \in DOMAIN trans, Advertise(k) PROVE Punctual'
  <2>1. pc = "select"
    BY <1>13 DEF Advertise, Answered
  <2>2. ia' = ia /\ (trans' = trans \/ GivesWay(k))
    BY <1>13, AdvertiseDoes
  <2> QED BY <1>a, <2>1, <2>2, GivingWay
<1>14. ASSUME NEW k \in DOMAIN trans, NEW S \in SUBSET IAs, NEW a \in [IAs -> Addrs],
              Reply(k, S, a) \/ RenewReply(k, S, a) \/ RenewNoBinding(k, S, a)
       PROVE  Punctual'
  <2>1. GivesWay(k) /\ pc = "select" /\ S \subseteq trans[k].ias /\ \E d : ia' = Granted(S, a, d)
    BY <1>14, ReplyDoes
  <2>2. PICK d : ia' = Granted(S, a, d)
    BY <2>1
  <2>3. \A i \in IAs : i \notin trans[k].ias => ia'[i] = ia[i]
    BY <2>1, <2>2, GrantedIs
  <2> QED BY <2>1, <2>3, GivingWay
<1>15. CASE Tick
  BY <1>15, TickPunctual
<1>16. CASE TickDown \/ UNCHANGED vars
  BY <1>16 DEF TickDown, vars, Punctual, Attended
<1>17. CASE Shutdown \/ Restart
  <2>1. trans' = <<>>
    BY <1>17, EndDoes
  <2> QED BY <2>1, EmptySeq DEF Punctual
<1>18. \A f \in IAs, S \in SUBSET IAs, b \in [IAs -> Addrs] : ~Decline(f, S, b)
  BY LeftInPeace
<1>19. ~LinkChange /\ ~Crash
  BY LeftInPeace
<1> QED
  BY <1>1, <1>2, <1>3, <1>4, <1>5, <1>6, <1>7, <1>8, <1>9, <1>10, <1>11, <1>12, <1>13,
     <1>14, <1>15, <1>16, <1>17, <1>18, <1>19, Zenon DEF Next, Duties, Answer

LEMMA PunctualHolds ==
  ASSUME Calm, Spaced
  PROVE  Spec => []Punctual
<1>1. Init => Punctual
  <2> SUFFICES ASSUME Init PROVE Punctual
    OBVIOUS
  <2>1. trans = <<>>
    BY DEF Init
  <2> QED BY <2>1, EmptySeq DEF Punctual
<1>2. TypeOK /\ Flow /\ Orderly /\ Aging /\ Punctual /\ [Next]_vars => Punctual'
  BY PunctualStep
<1> QED BY <1>1, <1>2, TypeCorrect, FlowHolds, OrderlyHolds, AgingHolds, PTL DEF Spec

LEMMA KeptStep ==
  ASSUME Calm, Spaced, TypeOK, Flow, Orderly, Aging, Punctual, [Next]_vars
  PROVE  [\A i \in IAs : ia[i].left > 0 /\ ia'[i].addrs = {} /\ ia[i].addrs # {}
                           => pc' \in {"down", "dead"}]_vars
<1> SUFFICES ASSUME NEW i \in IAs, ia[i].left > 0, ia'[i].addrs = {}, ia[i].addrs # {}
             PROVE  pc' \in {"down", "dead"}
  OBVIOUS
<1>1. ASSUME NEW k \in DOMAIN trans, ReleaseIA(k) PROVE FALSE
  <2>1. NextDue(k) /\ trans[k].type = "REBIND" /\ GivesUp(trans[k])
    BY <1>1 DEF ReleaseIA
  <2>2. trans[k].wait = 0 /\ trans[k].mrd = 0 /\ RebindInTime(trans[k], ia)
    BY <2>1, DueFacts DEF GivesUp, Punctual, InTime
  <2>3. i \in trans[k].ias
    BY <1>1, ReleaseDoes, EmptiedIs
  <2>4. ia[i].left =< 0 + 0
    BY <2>2, <2>3 DEF RebindInTime
  <2>5. ia[i].left \in 0 .. Valid
    BY BindingFacts DEF TypeOK
  <2> QED BY <2>4, <2>5, ConstantsAssumption
<1>2. CASE Expire
  <2>1. i \notin Expired
    <3>1. ia[i].left # 0
      OBVIOUS
    <3> QED BY <3>1 DEF Expired
  <2>2. ia' = Emptied(Expired)
    BY <1>2 DEF Expire
  <2> QED BY <2>1, <2>2, EmptiedIs
<1>3. ASSUME NEW k \in DOMAIN trans, NEW S \in SUBSET IAs, NEW a \in [IAs -> Addrs],
             Reply(k, S, a) \/ RenewReply(k, S, a) \/ RenewNoBinding(k, S, a)
      PROVE  FALSE
  <2>1. PICK d : ia' = Granted(S, a, d)
    BY <1>3, ReplyDoes
  <2> QED BY <2>1, GrantedIs
<1>4. CASE Tick
  BY <1>4, TickFacts
<1>5. CASE NoneTentative
  <2>1. ia'[i] \in {ia[i], [ia[i] EXCEPT !.unk = {}]}
    BY <1>5 DEF NoneTentative
  <2> QED BY <2>1, ExchangeFacts DEF Bindings
<1>6. CASE CheckSolicit
  <2>1. ia' = ia \/ \E S : ia' = InState(S, "INPROCESS")
    BY <1>6 DEF CheckSolicit
  <2> QED BY <2>1, InStateFacts
<1>7. CASE CheckRenew
  BY <1>7, CheckRenewDoes, InStateFacts
<1>8. CASE CheckConfirm
  BY <1>8, CheckConfirmDoes
<1>9. ASSUME NEW k \in DOMAIN trans,
             EndDecline(k) \/ AcceptUnheard(k) \/ ConfirmReply(k) \/ DeclineReply(k) \/ NotOnLink(k)
      PROVE  FALSE
  BY <1>9, NotSent
<1>10. ASSUME NEW k \in DOMAIN trans, Resend(k) \/ TryServer(k) \/ StartRebind(k) \/ Advertise(k)
       PROVE  FALSE
  BY <1>10, ResendDoes, TryServerDoes, StartRebindDoes, AdvertiseDoes
<1>11. CASE MessagesDone \/ NothingToRenew \/ Dump \/ TickDown \/ UNCHANGED vars
  BY <1>11 DEF MessagesDone, NothingToRenew, Dump, TickDown, vars
<1>12. CASE Shutdown \/ Restart
  BY <1>12, EndDoes
<1>13. \A f \in IAs, S \in SUBSET IAs, b \in [IAs -> Addrs] : ~Decline(f, S, b)
  BY LeftInPeace
<1>14. ~LinkChange /\ ~Crash
  BY LeftInPeace
<1> QED
  BY <1>1, <1>2, <1>3, <1>4, <1>5, <1>6, <1>7, <1>8, <1>9, <1>10, <1>11, <1>12, <1>13,
     <1>14, Zenon DEF Next, Duties, Answer

(* The client gives up an address only when its time is over: a REBIND that     *)
(* nobody answers lasts as long as the longest lease it is for, however its      *)
(* retransmissions fell, and so releaseIA() takes nothing that is valid.        *)
THEOREM ValidLeasesKept ==
  ASSUME Calm, Spaced
  PROVE  Spec => KeptWhileValid
<1>1. TypeOK /\ Flow /\ Orderly /\ Aging /\ Punctual /\ [Next]_vars
        => [\A i \in IAs : ia[i].left > 0 /\ ia'[i].addrs = {} /\ ia[i].addrs # {}
                             => pc' \in {"down", "dead"}]_vars
  BY KeptStep
<1> QED
  BY <1>1, TypeCorrect, FlowHolds, OrderlyHolds, AgingHolds, PunctualHolds, PTL
  DEF Spec, KeptWhileValid

(* RENEW stops when REBIND is due and REBIND when the last lease ends, not a     *)
(* tick later.  For more IAs than two this is not so: a RENEW that serves two of *)
(* them lasts as long as the first one has, which need not be the older.        *)
THEOREM ExchangesEndInTime ==
  ASSUME Calm, Spaced, N =< 2
  PROVE  Spec => []ExchangeEndsInTime
<1>1. TypeOK /\ Orderly /\ Punctual => ExchangeEndsInTime
  <2> SUFFICES ASSUME TypeOK, Orderly, Punctual, NEW k \in DOMAIN trans
               PROVE  /\ trans[k].type = "RENEW" =>
                           \A i \in trans[k].ias : trans[k].wait + trans[k].mrd <= T2 - ia[i].age
                      /\ trans[k].type = "REBIND" =>
                           trans[k].wait + trans[k].mrd <= TimeLeft(trans[k].ias)
    BY DEF ExchangeEndsInTime
  <2>1. InTime(trans[k], ia) /\ trans[k] \in Messages /\ trans[k].ias \in SUBSET IAs
    BY ExchangeFacts DEF Punctual
  <2>2. trans[k].wait + trans[k].mrd \in Int
    BY <2>1 DEF Messages
  <2>3. ASSUME trans[k].type = "RENEW", NEW i \in trans[k].ias
        PROVE  trans[k].wait + trans[k].mrd <= T2 - ia[i].age
    <3>1. trans[k].wait + trans[k].mrd = T2 - ia[i].age
      BY <2>1, <2>3 DEF InTime, RenewInTime
    <3> QED BY <2>2, <3>1
  <2>4. ASSUME trans[k].type = "REBIND"
        PROVE  trans[k].wait + trans[k].mrd <= TimeLeft(trans[k].ias)
    <3>1. TimeLeft(trans[k].ias) \in Nat
          /\ \A i \in trans[k].ias : ia[i].addrs # {} => ia[i].left =< TimeLeft(trans[k].ias)
      BY <2>1, TimeLeftIs
    <3> QED BY <2>1, <2>2, <2>4, <3>1 DEF InTime, RebindInTime
  <2> QED BY <2>3, <2>4
<1> QED BY <1>1, TypeCorrect, OrderlyHolds, PunctualHolds, PTL
=============================================================================
