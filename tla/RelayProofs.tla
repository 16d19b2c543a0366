---------------------------- MODULE RelayProofs ----------------------------
(***************************************************************************)
(* Proofs about Relay, for any network, any configuration and any number of  *)
(* messages: relays do not nest a message without end, and what comes back    *)
(* goes the way the message came, to the client it is for.                   *)
(***************************************************************************)
EXTENDS Relay, SequenceTheorems, FiniteSetTheorems, WellFoundedInduction, TLAPS

IsChain(chain) == \E S : chain \in Seq(S)

(* The hop count of a level is the number of levels inside it; the innermost    *)
(* one has the client as its peer, the others a relay.                       *)
Counted(chain) ==
  \A k \in 1 .. Len(chain) :
    chain[k].hop = Len(chain) - k /\ (chain[k].peer \in Relays <=> k < Len(chain))

(* A chain a relay or the server may have written. *)
Nested(chain) == IsChain(chain) /\ Counted(chain) /\ Len(chain) <= HopLimit + 1

(* A message comes from a client until a relay wrapped it, a RELAY-REPL has a    *)
(* level to take off, and nothing that is on its way back goes to the server.  *)
GoodPacket(p) ==
  /\ Nested(p.chain) /\ p.clnt \in Clients
  /\ p.type = "CLNT" => p.chain = <<>> /\ p.from \notin Relays
  /\ p.type = "FORW" => p.chain # <<>> /\ p.from \in Relays
  /\ p.type = "REPL" => p.chain # <<>>
  /\ p.to = Server => p.type \in {"CLNT", "FORW"}
GoodAnswer(a) == Nested(a.chain) /\ (a.chain # <<>> => a.from \in Relays)

IInv ==
  /\ \A p \in net : GoodPacket(p)
  /\ DOMAIN kept = Clients /\ \A c \in Clients : GoodAnswer(kept[c])

-----------------------------------------------------------------------------
(* Chains *)

LEMMA LimitType == HopLimit \in Nat /\ HopLimit > 0
  BY HopLimitAssumption

LEMMA EmptyNested == Nested(<<>>)
<1>1. <<>> \in Seq({}) /\ Len(<<>>) = 0
  OBVIOUS
<1>2. QED
  BY <1>1, LimitType DEF Nested, IsChain, Counted

LEMMA LenType ==
  ASSUME NEW chain, IsChain(chain)
  PROVE  Len(chain) \in Nat /\ (chain # <<>> <=> Len(chain) > 0)
<1>1. PICK S : chain \in Seq(S)
  BY DEF IsChain
<1>2. QED
  BY <1>1, EmptySeq

(* A relay adds a level. *)
LEMMA Wrapped ==
  ASSUME NEW chain, Nested(chain), Len(chain) <= HopLimit,
         NEW l, l.hop = Len(chain), l.peer \in Relays <=> chain # <<>>
  PROVE  Nested(<<l>> \o chain) /\ <<l>> \o chain # <<>>
<1> DEFINE w == <<l>> \o chain
<1>1. PICK S : chain \in Seq(S)
  BY DEF Nested, IsChain
<1>2. chain \in Seq(S \cup {l}) /\ <<l>> \in Seq(S \cup {l}) /\ Len(<<l>>) = 1 /\ <<l>>[1] = l
  BY <1>1
<1>3. w \in Seq(S \cup {l}) /\ Len(w) = 1 + Len(chain)
      /\ \A k \in 1 .. Len(w) : w[k] = IF k <= 1 THEN l ELSE chain[k - 1]
  BY <1>2, ConcatProperties
<1>4. Len(chain) \in Nat
  BY <1>1
<1> HIDE DEF w
<1>5. Counted(w)
  <2> SUFFICES ASSUME NEW k \in 1 .. Len(w)
               PROVE  w[k].hop = Len(w) - k /\ (w[k].peer \in Relays <=> k < Len(w))
    BY DEF Counted
  <2>1. CASE k = 1
    BY <1>1, <1>3, <1>4, <2>1, EmptySeq
  <2>2. CASE k # 1
    <3>1. k - 1 \in 1 .. Len(chain) /\ w[k] = chain[k - 1]
      BY <1>3, <1>4, <2>2
    <3>2. chain[k - 1].hop = Len(chain) - (k - 1) /\ (chain[k - 1].peer \in Relays <=> k - 1 < Len(chain))
      BY <3>1 DEF Nested, Counted
    <3>3. QED
      BY <1>3, <1>4, <3>1, <3>2
  <2>3. QED
    BY <2>1, <2>2
<1>6. w # <<>> /\ Len(w) <= HopLimit + 1
  BY <1>3, <1>4, LimitType, EmptySeq
<1>7. QED
  BY <1>3, <1>5, <1>6 DEF Nested, IsChain, w

(* A relay takes the outermost level off. *)
LEMMA Peeled ==
  ASSUME NEW chain, Nested(chain), chain # <<>>
  PROVE  /\ Nested(Tail(chain)) /\ Head(chain).hop = Len(chain) - 1
         /\ Head(chain).peer \in Relays => Tail(chain) # <<>>
<1> DEFINE t == Tail(chain)
<1>1. PICK S : chain \in Seq(S)
  BY DEF Nested, IsChain
<1>2. Len(chain) \in Nat /\ Len(chain) > 0
  BY <1>1, EmptySeq
<1>3. /\ t \in Seq(S) /\ Len(t) = Len(chain) - 1 /\ \A k \in 1 .. Len(t) : t[k] = chain[k + 1]
      /\ Head(chain) = chain[1]
  BY <1>1, HeadTailProperties
<1> HIDE DEF t
<1>4. Counted(t)
  <2> SUFFICES ASSUME NEW k \in 1 .. Len(t)
               PROVE  t[k].hop = Len(t) - k /\ (t[k].peer \in Relays <=> k < Len(t))
    BY DEF Counted
  <2>1. k + 1 \in 1 .. Len(chain) /\ t[k] = chain[k + 1]
    BY <1>2, <1>3
  <2>2. chain[k + 1].hop = Len(chain) - (k + 1) /\ (chain[k + 1].peer \in Relays <=> k + 1 < Len(chain))
    BY <2>1 DEF Nested, Counted
  <2>3. QED
    BY <1>2, <1>3, <2>1, <2>2
<1>5. Nested(t)
  BY <1>2, <1>3, <1>4, LimitType DEF Nested, IsChain
<1>6. chain[1].hop = Len(chain) - 1 /\ (chain[1].peer \in Relays <=> 1 < Len(chain))
  BY <1>2 DEF Nested, Counted
<1>7. chain[1].peer \in Relays => t # <<>>
  BY <1>2, <1>3, <1>6, EmptySeq
<1>8. QED
  BY <1>3, <1>5, <1>6, <1>7 DEF t

(* What the server echoes has the levels it was sent, with or without ids. *)
LEMMA EchoIs ==
  ASSUME NEW chain, IsChain(chain)
  PROVE  /\ IsChain(Echoed(chain)) /\ Len(Echoed(chain)) = Len(chain)
         /\ Echoed(chain) = <<>> <=> chain = <<>>
         /\ \A k \in 1 .. Len(chain) :
              /\ Echoed(chain)[k].hop = chain[k].hop /\ Echoed(chain)[k].peer = chain[k].peer
              /\ Echoed(chain)[k].id = IF ServerOmits THEN NoId ELSE chain[k].id
<1> DEFINE E == Echoed(chain)
           S == {E[k] : k \in DOMAIN chain}
<1>1. /\ Len(chain) \in Nat /\ (chain # <<>> <=> Len(chain) > 0) /\ DOMAIN chain = 1 .. Len(chain)
  BY LenType DEF IsChain
<1>2. CASE ServerOmits
  <2>1. \A k \in 1 .. Len(chain) : E[k] = [hop |-> chain[k].hop, peer |-> chain[k].peer, id |-> NoId]
    BY <1>1, <1>2 DEF Echoed
  <2>2. E \in [1 .. Len(chain) -> S]
    BY <1>1, <1>2 DEF Echoed
  <2>3. E \in Seq(S) /\ Len(E) = Len(chain)
    <3> HIDE DEF E, S
    <3>1. QED
      BY <1>1, <2>2
  <2>4. E = <<>> <=> Len(E) = 0
    <3> HIDE DEF E, S
    <3>1. QED
      BY <2>3, EmptySeq
  <2>5. IsChain(E)
    BY <2>3 DEF IsChain
  <2> HIDE DEF E, S
  <2>6. E = <<>> <=> chain = <<>>
    BY <1>1, <2>3, <2>4
  <2>7. ASSUME NEW k \in 1 .. Len(chain)
        PROVE  E[k].hop = chain[k].hop /\ E[k].peer = chain[k].peer /\ E[k].id = NoId
    <3>1. E[k] = [hop |-> chain[k].hop, peer |-> chain[k].peer, id |-> NoId]
      BY <2>1
    <3>2. QED
      BY <3>1
  <2>8. QED
    BY <1>2, <2>3, <2>5, <2>6, <2>7 DEF E
<1>3. CASE ~ServerOmits
  BY <1>3 DEF Echoed
<1>4. QED
  BY <1>2, <1>3

LEMMA EchoNested ==
  ASSUME NEW chain, Nested(chain)
  PROVE  Nested(Echoed(chain)) /\ (Echoed(chain) = <<>> <=> chain = <<>>)
<1>1. IsChain(chain) /\ Counted(chain) /\ Len(chain) <= HopLimit + 1
  BY DEF Nested
<1>2. Counted(Echoed(chain))
  BY <1>1, EchoIs DEF Counted
<1>3. QED
  BY <1>1, <1>2, EchoIs DEF Nested

-----------------------------------------------------------------------------
(* Packets *)

LEMMA PacketFacts ==
  ASSUME NEW t, NEW c, NEW f, NEW d, NEW l, NEW chain, NEW at
  PROVE  LET p == Packet(t, c, f, d, l, chain, at) IN
           p.type = t /\ p.clnt = c /\ p.from = f /\ p.to = d /\ p.chain = chain
  BY DEF Packet

(* Steps that write no message and keep no answer. *)
LEMMA FewerGood ==
  ASSUME IInv, net' \subseteq net,
         kept' = kept \/ \E c \in Clients : kept' = [kept EXCEPT ![c] = NoAnswer]
  PROVE  IInv'
<1>1. GoodAnswer(NoAnswer)
  BY EmptyNested DEF NoAnswer, GoodAnswer
<1>2. DOMAIN kept' = Clients /\ \A c \in Clients : GoodAnswer(kept'[c])
  BY <1>1 DEF IInv
<1>3. QED
  BY <1>2 DEF IInv, GoodPacket

LEMMA AskGood ==
  ASSUME IInv, NEW c \in Clients, Ask(c)
  PROVE  IInv'
<1>1. \A p \in net' : p \in net \/ \E n \in Listeners(LinkOf[c]) \ stopped :
                                     p = Packet("CLNT", c, AddrOf[c], n, LinkOf[c], <<>>, <<NoId>>)
  BY DEF Ask
<1>2. AddrOf[c] \notin Relays
  BY NamesAssumption
<1>3. \A p \in net' : GoodPacket(p)
  BY <1>1, <1>2, PacketFacts, EmptyNested DEF IInv, GoodPacket
<1>4. kept' = kept
  BY DEF Ask
<1>5. QED
  BY <1>3, <1>4 DEF IInv

LEMMA ForwardGood ==
  ASSUME IInv, NEW p \in net, Forward(p)
  PROVE  IInv'
<1> DEFINE w == <<Layer(p)>> \o p.chain
<1>1. GoodPacket(p) /\ p.type \in {"CLNT", "FORW"} /\ p.to \in Relays /\ ~AtLimit(p.chain)
  BY DEF IInv, Forward, AtRelay
<1>2. Layer(p).hop = HopCount(p) /\ Layer(p).peer = p.from
  BY DEF Layer
<1>3. HopCount(p) = Len(p.chain) /\ Len(p.chain) <= HopLimit
  <2>1. CASE p.type = "CLNT"
    <3>1. p.chain = <<>> /\ Len(<<>>) = 0
      BY <1>1, <2>1 DEF GoodPacket
    <3>2. QED
      BY <2>1, <3>1, LimitType DEF HopCount
  <2>2. CASE p.type = "FORW"
    <3>1. p.chain # <<>> /\ Nested(p.chain)
      BY <1>1, <2>2 DEF GoodPacket
    <3>2. Head(p.chain).hop = Len(p.chain) - 1 /\ Len(p.chain) \in Nat
      BY <3>1, Peeled, LenType DEF Nested
    <3>3. ~(Len(p.chain) - 1 >= HopLimit)
      BY <1>1, <3>1, <3>2 DEF AtLimit
    <3>4. QED
      BY <2>2, <3>2, <3>3, LimitType DEF HopCount
  <2>3. QED
    BY <1>1, <2>1, <2>2
<1>4. p.from \in Relays <=> p.chain # <<>>
  BY <1>1 DEF GoodPacket
<1>5. Nested(w) /\ w # <<>>
  BY <1>1, <1>2, <1>3, <1>4, Wrapped DEF GoodPacket
<1>6. \A q \in net' : q \in net \/ \E d \in SendsTo(p.to) :
                                     q = Packet("FORW", p.clnt, p.to, d.node, d.link, w, <<NoId>>)
  BY DEF Forward
<1> HIDE DEF w
<1>7. \A q \in net' : GoodPacket(q)
  BY <1>1, <1>5, <1>6, PacketFacts DEF IInv, GoodPacket
<1>8. kept' = kept
  BY DEF Forward
<1>9. QED
  BY <1>7, <1>8 DEF IInv

LEMMA BackwardGood ==
  ASSUME IInv, NEW p \in net, Backward(p)
  PROVE  IInv'
<1> DEFINE t == Tail(p.chain)
<1>1. GoodPacket(p) /\ p.chain # <<>>
  BY DEF IInv, Backward, AtRelay, GoodPacket
<1>2. Nested(t) /\ (Head(p.chain).peer \in Relays => t # <<>>)
  BY <1>1, Peeled DEF GoodPacket
<1> HIDE DEF t
<1>0. \A n \in Recipients(p) : n # Server
  BY NamesAssumption DEF Recipients, Neighbours
<1>3. ASSUME NEW n \in Recipients(p), n \in Relays PROVE t # <<>>
  <2>1. n \in Neighbours(p.to, Destination(p)[1].link, Head(p.chain).peer)
    BY DEF Recipients
  <2>2. n = Head(p.chain).peer
    BY <1>3, <2>1, NamesAssumption DEF Neighbours
  <2>3. QED
    BY <1>2, <1>3, <2>2
<1>4. ASSUME NEW n \in Recipients(p) PROVE GoodPacket(Unwrapped(p, n))
  <2>1. Unwrapped(p, n) = Packet(IF n \in Relays THEN "REPL" ELSE "ANSW", p.clnt, p.to, n,
                                 Destination(p)[1].link, t, p.at)
    BY DEF Unwrapped, t
  <2>2. QED
    BY <1>0, <1>1, <1>2, <1>3, <2>1, PacketFacts DEF GoodPacket
<1>5. \A q \in net' : q \in net \/ \E n \in Recipients(p) : q = Unwrapped(p, n)
  BY DEF Backward
<1>6. kept' = kept
  BY DEF Backward
<1>7. QED
  BY <1>4, <1>5, <1>6 DEF IInv

LEMMA ServeGood ==
  ASSUME IInv, NEW p \in net, Serve(p)
  PROVE  IInv'
<1>1. PICK a : /\ a = IF kept[p.clnt] = NoAnswer THEN AnswerOf(p) ELSE kept[p.clnt]
               /\ kept' = [kept EXCEPT ![p.clnt] = a]
               /\ net' = (net \ {p}) \cup Reply(p.clnt, p.link, a)
  BY DEF Serve
<1>2. GoodPacket(p) /\ p.to = Server
  BY DEF IInv, Serve, AtServer
<1>3. GoodAnswer(a)
  BY <1>1, <1>2 DEF IInv, GoodPacket, GoodAnswer, AnswerOf
<1>4. \A q \in Reply(p.clnt, p.link, a) : GoodPacket(q)
  <2>1. CASE a.chain = <<>>
    BY <1>2, <2>1, EmptyNested, PacketFacts, NamesAssumption DEF Reply, GoodPacket
  <2>2. CASE a.chain # <<>>
    <3>1. Nested(Echoed(a.chain)) /\ Echoed(a.chain) # <<>>
      BY <1>3, <2>2, EchoNested DEF GoodAnswer
    <3>2. QED
      BY <1>2, <1>3, <2>2, <3>1, PacketFacts, NamesAssumption DEF Reply, GoodPacket, GoodAnswer
  <2>3. QED
    BY <2>1, <2>2
<1>5. DOMAIN kept' = Clients /\ \A c \in Clients : GoodAnswer(kept'[c])
  BY <1>1, <1>3 DEF IInv
<1>6. QED
  BY <1>1, <1>4, <1>5 DEF IInv

LEMMA InitIInv == Init => IInv
  BY EmptyNested DEF Init, IInv, NoAnswer, GoodAnswer

LEMMA NextIInv == IInv /\ [Next]_vars => IInv'
<1> SUFFICES ASSUME IInv, [Next]_vars PROVE IInv'
  OBVIOUS
<1>1. CASE UNCHANGED vars
  BY <1>1, FewerGood DEF vars
<1>2. ASSUME NEW c \in Clients, Ask(c) \/ AskAnew(c) \/ Expire(c) PROVE IInv'
  <2>1. CASE AskAnew(c)
    BY <2>1, FewerGood DEF AskAnew
  <2>2. CASE Expire(c)
    BY <2>2, FewerGood DEF Expire
  <2>3. QED
    BY <1>2, <2>1, <2>2, AskGood
<1>3. ASSUME NEW p \in net, Deliver(p) \/ Lose(p) PROVE IInv'
  <2>1. CASE Hear(p)
    BY <2>1, FewerGood DEF Hear
  <2>2. CASE DieAtLimit(p)
    BY <2>2, FewerGood DEF DieAtLimit
  <2>3. CASE Refuse(p)
    BY <2>3, FewerGood DEF Refuse
  <2>4. CASE Overrun(p)
    BY <2>4, FewerGood DEF Overrun
  <2>5. CASE Lose(p)
    BY <2>5, FewerGood DEF Lose
  <2>6. QED
    BY <1>3, <2>1, <2>2, <2>3, <2>4, <2>5, ForwardGood, BackwardGood, ServeGood DEF Deliver
<1>4. ASSUME NEW r \in Mortal, Stop(r) PROVE IInv'
  BY <1>4, FewerGood DEF Stop
<1>5. QED
  BY <1>1, <1>2, <1>3, <1>4 DEF Next

(* In any network of relays, loops included, no message is nested more than one *)
(* level beyond the limit, and its hop counts are its depths.                *)
THEOREM NestingHasBound == Spec => []NestingBounded
<1>1. IInv => NestingBounded
  <2> SUFFICES ASSUME IInv, NEW p \in net
               PROVE  /\ Len(p.chain) <= HopLimit + 1
                      /\ \A k \in DOMAIN p.chain : p.chain[k].hop = Len(p.chain) - k
    BY DEF NestingBounded
  <2>1. Nested(p.chain)
    BY DEF IInv, GoodPacket
  <2>2. PICK S : p.chain \in Seq(S)
    BY <2>1 DEF Nested, IsChain
  <2>3. DOMAIN p.chain = 1 .. Len(p.chain)
    BY <2>2
  <2>4. QED
    BY <2>1, <2>3 DEF Nested, Counted
<1>2. QED
  BY InitIInv, NextIInv, <1>1, PTL DEF Spec

-----------------------------------------------------------------------------
(* The way back.  In a network that is Answerable the chain of a message tells  *)
(* each relay on its way whom the answer is for.                             *)

(* A set of naturals has a least element.                                    *)
LEMMA LeastInSet ==
  ASSUME NEW S \in SUBSET Nat, S # {}
  PROVE  Min(S) \in S /\ \A y \in S : Min(S) <= y
<1> DEFINE T == {1 .. i : i \in S}
<1>1. T \subseteq FiniteSubsetsOf(Nat) /\ T # {}
  <2>1. \A i \in S : 1 .. i \in SUBSET Nat /\ IsFiniteSet(1 .. i)
    BY FS_Interval
  <2>2. QED
    BY <2>1 DEF FiniteSubsetsOf
<1>2. PICK I \in T : \A J \in T : ~ (<<J, I>> \in StrictSubsetOrdering(Nat))
  <2> HIDE DEF T
  <2>1. QED
    BY <1>1, FS_StrictSubsetOrderingWellFounded, WFMin
<1>3. PICK x \in S : I = 1 .. x
  OBVIOUS
<1>4. \A y \in S : ~ (y < x)
  <2> SUFFICES ASSUME NEW y \in S, y < x PROVE FALSE
    OBVIOUS
  <2>1. 1 .. y \in SUBSET Nat /\ 1 .. x \in SUBSET Nat /\ 1 .. y \subseteq 1 .. x
    OBVIOUS
  <2>2. x \in 1 .. x /\ x \notin 1 .. y
    OBVIOUS
  <2>3. <<1 .. y, 1 .. x>> \in StrictSubsetOrdering(Nat)
    BY <2>1, <2>2, Zenon DEF StrictSubsetOrdering
  <2>4. QED
    BY <1>2, <1>3, <2>3
<1>5. \A y \in S : x <= y
  BY <1>4
<1>6. QED
  BY <1>5 DEF Min

LEMMA FirstIfaceIs ==
  ASSUME NEW r \in Relays, NEW wanted, NEW i \in Ifaces(r), i \in wanted
  PROVE  \E j \in Ifaces(r) : j \in wanted /\ FirstIface(r, wanted) = <<j>>
<1> DEFINE I == {k \in 1 .. Len(Config[r]) : Config[r][k] \in wanted}
<1>1. Config[r] \in Seq(Interfaces)
  BY ConfigAssumption
<1>2. DOMAIN Config[r] = 1 .. Len(Config[r])
  BY <1>1
<1>3. PICK k0 \in DOMAIN Config[r] : Config[r][k0] = i
  BY DEF Ifaces, ToSet
<1>4. I # {} /\ I \in SUBSET Nat
  BY <1>2, <1>3
<1>5. SelectInSeq(Config[r], LAMBDA x : x \in wanted) = Min(I)
  BY <1>4 DEF SelectInSeq
<1> DEFINE k == Min(I)
<1>6. k \in I
  <2> HIDE DEF I
  <2>1. QED
    BY <1>4, LeastInSet
<1>7. FirstIface(r, wanted) = <<Config[r][k]>>
  <2>1. k # 0
    BY <1>6
  <2> HIDE DEF k
  <2>2. QED
    BY <1>5, <2>1 DEF FirstIface, k
<1>8. Config[r][k] \in Ifaces(r) /\ Config[r][k] \in wanted
  <2>1. k \in DOMAIN Config[r] /\ Config[r][k] \in wanted
    BY <1>2, <1>6
  <2> HIDE DEF k
  <2>2. QED
    BY <2>1 DEF Ifaces, ToSet
<1>9. QED
  BY <1>7, <1>8

LEMMA IfaceFacts ==
  ASSUME NEW r \in Relays, NEW i \in Ifaces(r)
  PROVE  /\ i.link \in Links /\ i.id \in Ids /\ i.to \subseteq Places
         /\ IfaceOn(r, i.link) \in Ifaces(r) /\ IfaceOn(r, i.link).link = i.link
<1>1. Config[r] \in Seq(Interfaces)
  BY ConfigAssumption
<1>2. i \in Interfaces
  BY <1>1 DEF Ifaces, ToSet
<1>3. i.link \in Links /\ i.to \subseteq Places
  BY <1>2 DEF Interfaces
<1>4. i.id \in Ids
  BY DEF Ids
<1> DEFINE W == {j \in Ifaces(r) : j.link = i.link}
<1>5. PICK j \in Ifaces(r) : j \in W /\ FirstIface(r, W) = <<j>>
  <2>1. i \in W
    OBVIOUS
  <2> HIDE DEF W
  <2>2. QED
    BY <2>1, FirstIfaceIs
<1>6. OnLink[r][i.link] = <<j>>
  BY <1>3, <1>5 DEF OnLink
<1>7. IfaceOn(r, i.link) = j
  BY <1>6 DEF IfaceOn
<1>8. QED
  BY <1>3, <1>4, <1>5, <1>7

(* An id that is used on one link leads to it. *)
LEMMA IdLeads ==
  ASSUME NEW r \in Relays, NEW x \in Ifaces(r), NEW l,
         \A j \in Ifaces(r) : j.id = x.id => j.link = l
  PROVE  \E j \in Ifaces(r) : WithId[r][x.id] = <<j>> /\ j.link = l
<1> DEFINE W == {j \in Ifaces(r) : j.id = x.id}
<1>1. PICK j \in Ifaces(r) : j \in W /\ FirstIface(r, W) = <<j>>
  <2>1. x \in W
    OBVIOUS
  <2> HIDE DEF W
  <2>2. QED
    BY <2>1, FirstIfaceIs
<1>2. x.id \in Ids
  BY IfaceFacts
<1>3. WithId[r][x.id] = <<j>>
  BY <1>1, <1>2 DEF WithId
<1>4. QED
  BY <1>1, <1>3

(* A relay finds the link it heard a message on again. *)
LEMMA FoundBack ==
  ASSUME IdsTellLinks, NEW r \in Relays, NEW l, Heard([node |-> r, link |-> l]),
         NEW d \in SendsTo(r), NEW p, p.to = r, p.link = d.link,
         Head(p.chain).id = IF ServerOmits THEN NoId ELSE WrittenId(r, l)
  PROVE  \E j \in Ifaces(r) : Destination(p) = <<j>> /\ j.link = l
<1>1. PICK i \in Ifaces(r) : i.link = l /\ i.hears # {}
  BY DEF Heard
<1> DEFINE x == IfaceOn(r, l)
<1>2. x \in Ifaces(r) /\ x.link = l
  BY <1>1, IfaceFacts
<1>3. /\ x.id # NoId /\ \A j \in Ifaces(r) : j.id = x.id => j.link = l
      /\ ServerOmits \/ r \in Omits =>
           r \in Guess /\ l # d.link /\ \A j \in Ifaces(r) : j.link \in {l, d.link}
  BY <1>1 DEF IdsTellLinks
<1>4. PICK j \in Ifaces(r) : WithId[r][x.id] = <<j>> /\ j.link = l
  <2>1. \A j \in Ifaces(r) : j.id = x.id => j.link = l
    BY <1>3
  <2> HIDE DEF x
  <2>2. x \in Ifaces(r)
    BY <1>2
  <2>3. QED
    BY <2>1, <2>2, IdLeads
<1>5. CASE ~(ServerOmits \/ r \in Omits)
  <2>1. Head(p.chain).id = x.id
    BY <1>5 DEF WrittenId
  <2> HIDE DEF x
  <2>2. QED
    BY <1>3, <1>4, <2>1 DEF Destination
<1>6. CASE ServerOmits \/ r \in Omits
  <2>1. Head(p.chain).id = NoId
    BY <1>6 DEF WrittenId
  <2>2. l \in Links /\ d.link \in Links
    <3>1. PICK y \in Ifaces(r) : d \in y.to
      BY DEF SendsTo
    <3>2. QED
      BY <1>1, <3>1, IfaceFacts DEF Places
  <2> DEFINE W == {k \in Ifaces(r) : k.link # d.link}
  <2>3. W = {k \in Ifaces(r) : k.link = l}
    BY <1>3, <1>6
  <2>4. OffLink[r][d.link] = OnLink[r][l]
    BY <2>2, <2>3 DEF OffLink, OnLink
  <2>5. PICK k \in Ifaces(r) : k \in W /\ FirstIface(r, W) = <<k>>
    <3>1. i \in W
      BY <1>1, <1>3, <1>6
    <3> HIDE DEF W
    <3>2. QED
      BY <3>1, FirstIfaceIs
  <2>6. OffLink[r][d.link] = <<k>>
    BY <2>2, <2>5 DEF OffLink
  <2>7. k = x
    BY <2>4, <2>6 DEF IfaceOn
  <2> HIDE DEF x, W
  <2>8. QED
    BY <1>3, <1>4, <1>6, <2>1, <2>6, <2>7 DEF Destination
<1>7. QED
  BY <1>5, <1>6

(* The chain of a way. *)
Spots == [node : Relays, link : Links]

LEMMA ChainIs ==
  ASSUME NEW c, NEW w \in Seq(Spots)
  PROVE  /\ \E S : ChainOf(c, w) \in Seq(S)
         /\ Len(ChainOf(c, w)) = Len(w) /\ DOMAIN w = 1 .. Len(w) /\ Len(w) \in Nat
         /\ w = <<>> <=> Len(w) = 0
         /\ ChainOf(c, w) = <<>> <=> w = <<>>
         /\ \A k \in 1 .. Len(w) :
              /\ w[k] \in Spots
              /\ ChainOf(c, w)[k].hop = Len(w) - k
              /\ ChainOf(c, w)[k].peer = IF k = Len(w) THEN AddrOf[c] ELSE w[k + 1].node
              /\ ChainOf(c, w)[k].id = WrittenId(w[k].node, w[k].link)
<1> DEFINE C == ChainOf(c, w)
           S == {C[k] : k \in DOMAIN w}
<1>1. DOMAIN w = 1 .. Len(w) /\ Len(w) \in Nat /\ (w = <<>> <=> Len(w) = 0)
      /\ \A k \in 1 .. Len(w) : w[k] \in Spots
  BY EmptySeq, LenProperties, ElementOfSeq
<1>2. C \in [1 .. Len(w) -> S]
  BY <1>1 DEF ChainOf
<1>3. C \in Seq(S) /\ Len(C) = Len(w)
  <2> HIDE DEF C, S
  <2>1. QED
    BY <1>1, <1>2
<1>4. C = <<>> <=> w = <<>>
  <2> HIDE DEF C, S
  <2>1. QED
    BY <1>1, <1>3, EmptySeq
<1>5. \A k \in 1 .. Len(w) :
        /\ C[k].hop = Len(w) - k
        /\ C[k].peer = IF k = Len(w) THEN AddrOf[c] ELSE w[k + 1].node
        /\ C[k].id = WrittenId(w[k].node, w[k].link)
  BY <1>1 DEF ChainOf
<1> HIDE DEF S
<1>6. QED
  BY <1>1, <1>3, <1>4, <1>5

LEMMA ChainLonger ==
  ASSUME NEW c, NEW w \in Seq(Spots), IsWay(c, w), NEW s \in Spots, Heard(s),
         w = <<>> => s.link = LinkOf[c], w # <<>> => s \in SendsTo(w[1].node),
         NEW from, from = IF w = <<>> THEN AddrOf[c] ELSE w[1].node,
         NEW y, y = [hop |-> Len(w), peer |-> from, id |-> WrittenId(s.node, s.link)]
  PROVE  LET v == <<s>> \o w IN
           /\ v \in Seq(Spots) /\ IsWay(c, v) /\ v # <<>> /\ v[1] = s
           /\ <<y>> \o ChainOf(c, w) = ChainOf(c, v)
<1> DEFINE v == <<s>> \o w
           C == ChainOf(c, w)
           D == ChainOf(c, v)
<1>0. s.node \in Relays
  BY DEF Spots
<1>1. <<s>> \in Seq(Spots) /\ Len(<<s>>) = 1 /\ <<s>>[1] = s
  OBVIOUS
<1>2. /\ v \in Seq(Spots) /\ Len(v) = 1 + Len(w)
      /\ \A k \in 1 .. 1 + Len(w) : v[k] = IF k <= 1 THEN s ELSE w[k - 1]
  BY <1>1, ConcatProperties
<1>3. /\ Len(w) \in Nat /\ DOMAIN w = 1 .. Len(w) /\ (w = <<>> <=> Len(w) = 0)
      /\ Len(C) = Len(w)
      /\ \A k \in 1 .. Len(w) :
           C[k] = [hop |-> Len(w) - k, peer |-> IF k = Len(w) THEN AddrOf[c] ELSE w[k + 1].node,
                   id |-> WrittenId(w[k].node, w[k].link)]
  BY ChainIs DEF ChainOf
<1>4. PICK S : C \in Seq(S)
  BY ChainIs
<1> HIDE DEF v
<1>5. /\ DOMAIN v = 1 .. Len(v) /\ (v = <<>> <=> Len(v) = 0) /\ Len(D) = Len(v)
      /\ \A k \in 1 .. Len(v) :
           D[k] = [hop |-> Len(v) - k, peer |-> IF k = Len(v) THEN AddrOf[c] ELSE v[k + 1].node,
                   id |-> WrittenId(v[k].node, v[k].link)]
  BY <1>2, ChainIs DEF ChainOf
<1>6. PICK T : D \in Seq(T)
  BY <1>2, ChainIs
<1>7. IsWay(c, v)
  <2> SUFFICES ASSUME NEW k \in 1 .. Len(v)
               PROVE  /\ v[k].node \in Relays /\ Heard(v[k])
                      /\ IF k = Len(v) THEN v[k].link = LinkOf[c] ELSE v[k] \in SendsTo(v[k + 1].node)
    BY <1>5 DEF IsWay
  <2>1. CASE k = 1
    BY <1>0, <1>2, <1>3, <2>1
  <2>2. CASE k # 1
    <3>0. Len(w) \in Nat /\ Len(v) = 1 + Len(w)
      BY <1>2, <1>3
    <3>1. /\ k - 1 \in 1 .. Len(w) /\ k \in 1 .. 1 + Len(w) /\ ~(k <= 1) /\ (k - 1) + 1 = k
          /\ (k = Len(v) <=> k - 1 = Len(w)) /\ (k # Len(v) => k + 1 \in 1 .. 1 + Len(w) /\ (k + 1) - 1 = k)
      BY <2>2, <3>0
    <3>2. v[k] = w[k - 1] /\ (k # Len(v) => v[k + 1] = w[k])
      <4>1. v[k] = w[k - 1]
        BY <1>2, <3>1
      <4>2. k # Len(v) => v[k + 1] = w[k]
        <5>1. ~(k + 1 <= 1)
          BY <3>0
        <5>2. QED
          BY <1>2, <3>1, <5>1
      <4>3. QED
        BY <4>1, <4>2
    <3>3. /\ w[k - 1].node \in Relays /\ Heard(w[k - 1])
          /\ IF k - 1 = Len(w) THEN w[k - 1].link = LinkOf[c] ELSE w[k - 1] \in SendsTo(w[(k - 1) + 1].node)
      BY <1>3, <3>1 DEF IsWay
    <3>4. QED
      BY <3>1, <3>2, <3>3
  <2>3. QED
    BY <2>1, <2>2
<1>8. <<y>> \o C = D
  <2> DEFINE U == S \cup T \cup {y}
             E == <<y>> \o C
  <2>1. <<y>> \in Seq(U) /\ C \in Seq(U) /\ D \in Seq(U) /\ Len(<<y>>) = 1 /\ <<y>>[1] = y
    BY <1>4, <1>6
  <2> HIDE DEF C, D, U
  <2>2. /\ E \in Seq(U) /\ Len(E) = 1 + Len(C)
        /\ \A k \in 1 .. 1 + Len(C) : E[k] = IF k <= 1 THEN y ELSE C[k - 1]
    BY <2>1, ConcatProperties
  <2>3. ASSUME NEW k \in 1 .. Len(E) PROVE E[k] = D[k]
    <3>1. CASE k = 1
      <4>1. E[k] = y /\ k \in 1 .. Len(v) /\ v[1] = s /\ (1 # Len(v) => v[2] = w[1]) /\ (1 = Len(v) <=> w = <<>>)
        BY <1>2, <1>3, <2>2, <3>1
      <4>2. D[k] = [hop |-> Len(w), peer |-> IF w = <<>> THEN AddrOf[c] ELSE w[1].node,
                    id |-> WrittenId(s.node, s.link)]
        BY <1>2, <1>3, <1>5, <3>1, <4>1
      <4>3. QED
        BY <4>1, <4>2
    <3>2. CASE k # 1
      <4>1. k - 1 \in 1 .. Len(w) /\ E[k] = C[k - 1] /\ k \in 1 .. Len(v)
            /\ v[k] = w[k - 1] /\ (k # Len(v) => v[k + 1] = w[k]) /\ (k = Len(v) <=> k - 1 = Len(w))
            /\ Len(v) - k = Len(w) - (k - 1) /\ (k - 1) + 1 = k
        BY <1>2, <1>3, <2>2, <3>2
      <4>2. C[k - 1] = [hop |-> Len(w) - (k - 1),
                        peer |-> IF k - 1 = Len(w) THEN AddrOf[c] ELSE w[(k - 1) + 1].node,
                        id |-> WrittenId(w[k - 1].node, w[k - 1].link)]
        BY <1>3, <4>1
      <4>3. D[k] = [hop |-> Len(v) - k, peer |-> IF k = Len(v) THEN AddrOf[c] ELSE v[k + 1].node,
                   id |-> WrittenId(v[k].node, v[k].link)]
        BY <1>5, <4>1
      <4>4. QED
        BY <4>1, <4>2, <4>3
    <3>3. QED
      BY <3>1, <3>2
  <2>4. E = D
    <3> HIDE DEF E
    <3>1. QED
      BY <1>2, <1>3, <1>5, <2>1, <2>2, <2>3, SeqEqual
  <2>5. QED
    BY <2>4
<1>9. v # <<>> /\ v[1] = s
  BY <1>2, <1>3, <1>5
<1>10. QED
  BY <1>2, <1>7, <1>8, <1>9 DEF v

LEMMA ChainShorter ==
  ASSUME NEW c, NEW w \in Seq(Spots), IsWay(c, w), w # <<>>
  PROVE  /\ Tail(w) \in Seq(Spots) /\ IsWay(c, Tail(w)) /\ Tail(ChainOf(c, w)) = ChainOf(c, Tail(w))
         /\ Tail(w) # <<>> => Tail(w)[1] = w[2] /\ w[1] \in SendsTo(w[2].node)
         /\ Tail(w) = <<>> => w[1].link = LinkOf[c]
<1> DEFINE t == Tail(w)
           C == ChainOf(c, w)
           D == ChainOf(c, t)
<1>1. /\ t \in Seq(Spots) /\ Len(t) = Len(w) - 1 /\ \A k \in 1 .. Len(t) : t[k] = w[k + 1]
  BY HeadTailProperties
<1>2. /\ Len(w) \in Nat /\ DOMAIN w = 1 .. Len(w) /\ (w = <<>> <=> Len(w) = 0)
      /\ Len(C) = Len(w) /\ (C = <<>> <=> w = <<>>)
      /\ \A k \in 1 .. Len(w) :
           C[k] = [hop |-> Len(w) - k, peer |-> IF k = Len(w) THEN AddrOf[c] ELSE w[k + 1].node,
                   id |-> WrittenId(w[k].node, w[k].link)]
  BY ChainIs DEF ChainOf
<1>3. PICK S : C \in Seq(S)
  BY ChainIs
<1> HIDE DEF t
<1>4. /\ DOMAIN t = 1 .. Len(t) /\ (t = <<>> <=> Len(t) = 0) /\ Len(D) = Len(t)
      /\ \A k \in 1 .. Len(t) :
           D[k] = [hop |-> Len(t) - k, peer |-> IF k = Len(t) THEN AddrOf[c] ELSE t[k + 1].node,
                   id |-> WrittenId(t[k].node, t[k].link)]
  BY <1>1, ChainIs DEF ChainOf
<1>5. PICK T : D \in Seq(T)
  BY <1>1, ChainIs
<1>6. IsWay(c, t)
  <2> SUFFICES ASSUME NEW k \in 1 .. Len(t)
               PROVE  /\ t[k].node \in Relays /\ Heard(t[k])
                      /\ IF k = Len(t) THEN t[k].link = LinkOf[c] ELSE t[k] \in SendsTo(t[k + 1].node)
    BY <1>4 DEF IsWay
  <2>1. /\ k + 1 \in 1 .. Len(w) /\ t[k] = w[k + 1]
        /\ (k = Len(t) <=> k + 1 = Len(w)) /\ (k # Len(t) => t[k + 1] = w[(k + 1) + 1])
    BY <1>1, <1>2
  <2>2. QED
    BY <1>2, <2>1 DEF IsWay
<1>7. Tail(C) = D
  <2> DEFINE U == S \cup T
             E == Tail(C)
  <2>1. C \in Seq(U) /\ D \in Seq(U)
    BY <1>3, <1>5
  <2> HIDE DEF C, D, U
  <2>2. E \in Seq(U) /\ Len(E) = Len(C) - 1 /\ \A k \in 1 .. Len(E) : E[k] = C[k + 1]
    BY <1>2, <2>1, HeadTailProperties
  <2>3. ASSUME NEW k \in 1 .. Len(E) PROVE E[k] = D[k]
    <3>1. k + 1 \in 1 .. Len(w) /\ E[k] = C[k + 1] /\ k \in 1 .. Len(t) /\ t[k] = w[k + 1]
          /\ (k # Len(t) => t[k + 1] = w[(k + 1) + 1]) /\ (k = Len(t) <=> k + 1 = Len(w))
          /\ Len(t) - k = Len(w) - (k + 1)
      BY <1>1, <1>2, <2>2
    <3>2. C[k + 1] = [hop |-> Len(w) - (k + 1),
                      peer |-> IF k + 1 = Len(w) THEN AddrOf[c] ELSE w[(k + 1) + 1].node,
                      id |-> WrittenId(w[k + 1].node, w[k + 1].link)]
      BY <1>2, <3>1
    <3>3. D[k] = [hop |-> Len(t) - k, peer |-> IF k = Len(t) THEN AddrOf[c] ELSE t[k + 1].node,
                 id |-> WrittenId(t[k].node, t[k].link)]
      BY <1>4, <3>1
    <3>4. QED
      BY <3>1, <3>2, <3>3
  <2>4. E = D
    <3>1. Len(E) = Len(D)
      BY <1>1, <1>2, <1>4, <2>2
    <3> HIDE DEF E
    <3>2. QED
      BY <2>1, <2>2, <2>3, <3>1, SeqEqual
  <2>5. QED
    BY <2>4
<1>8. 1 \in 1 .. Len(w) /\ (t # <<>> => 1 # Len(w) /\ t[1] = w[1 + 1]) /\ (t = <<>> => Len(w) = 1)
  BY <1>1, <1>2, <1>4
<1>9. (t # <<>> => w[1] \in SendsTo(w[1 + 1].node)) /\ (t = <<>> => w[1].link = LinkOf[c])
  BY <1>2, <1>8 DEF IsWay
<1>10. QED
  BY <1>1, <1>6, <1>7, <1>8, <1>9 DEF t

(* The same of what the server echoes of a way. *)
LEMMA EchoOfWay ==
  ASSUME NEW c, NEW w \in Seq(Spots)
  PROVE  /\ \E S : Echoed(ChainOf(c, w)) \in Seq(S)
         /\ Len(Echoed(ChainOf(c, w))) = Len(w)
         /\ Echoed(ChainOf(c, w)) = <<>> <=> w = <<>>
         /\ \A k \in 1 .. Len(w) :
              /\ Echoed(ChainOf(c, w))[k].peer = IF k = Len(w) THEN AddrOf[c] ELSE w[k + 1].node
              /\ Echoed(ChainOf(c, w))[k].id =
                   IF ServerOmits THEN NoId ELSE WrittenId(w[k].node, w[k].link)
<1>1. IsChain(ChainOf(c, w))
  BY ChainIs DEF IsChain
<1>2. /\ Len(ChainOf(c, w)) = Len(w) /\ (ChainOf(c, w) = <<>> <=> w = <<>>)
      /\ \A k \in 1 .. Len(w) :
           /\ ChainOf(c, w)[k].peer = IF k = Len(w) THEN AddrOf[c] ELSE w[k + 1].node
           /\ ChainOf(c, w)[k].id = WrittenId(w[k].node, w[k].link)
  BY ChainIs
<1>3. QED
  BY <1>1, <1>2, EchoIs DEF IsChain

LEMMA EchoShorter ==
  ASSUME NEW c, NEW w \in Seq(Spots), IsWay(c, w), w # <<>>
  PROVE  Tail(Echoed(ChainOf(c, w))) = Echoed(ChainOf(c, Tail(w)))
<1> DEFINE t == Tail(w)
           C == ChainOf(c, w)
           D == ChainOf(c, t)
           E == Echoed(C)
<1>1. t \in Seq(Spots) /\ Tail(C) = D /\ Len(C) \in Nat /\ C # <<>>
  BY ChainShorter, ChainIs
<1>2. PICK S : C \in Seq(S)
  BY ChainIs
<1>3. CASE ~ServerOmits
  BY <1>1, <1>3 DEF Echoed
<1>4. CASE ServerOmits
  <2>1. /\ Len(D) = Len(C) - 1 /\ Len(C) > 0 /\ DOMAIN D = 1 .. Len(D) /\ DOMAIN C = 1 .. Len(C)
        /\ \A k \in 1 .. Len(D) : D[k] = C[k + 1]
    <3> HIDE DEF C, D
    <3>1. QED
      BY <1>1, <1>2, HeadTailProperties, EmptySeq
  <2>2. /\ IsChain(E) /\ Len(E) = Len(C) /\ (E = <<>> <=> C = <<>>)
        /\ IsChain(Echoed(D)) /\ Len(Echoed(D)) = Len(D)
    <3>1. IsChain(C) /\ IsChain(D)
      BY <1>1, ChainIs DEF IsChain
    <3> HIDE DEF C, D
    <3>2. QED
      BY <3>1, EchoIs
  <2>3. PICK U : E \in Seq(U)
    BY <2>2 DEF IsChain
  <2>4. PICK V : Echoed(D) \in Seq(V)
    BY <2>2 DEF IsChain
  <2>5. \A k \in DOMAIN C : E[k] = [hop |-> C[k].hop, peer |-> C[k].peer, id |-> NoId]
    BY <1>4 DEF Echoed
  <2>6. \A k \in DOMAIN D : Echoed(D)[k] = [hop |-> D[k].hop, peer |-> D[k].peer, id |-> NoId]
    BY <1>4 DEF Echoed
  <2> HIDE DEF C, D, E
  <2>7. /\ Tail(E) \in Seq(U) /\ Len(Tail(E)) = Len(E) - 1
        /\ \A k \in 1 .. Len(Tail(E)) : Tail(E)[k] = E[k + 1]
    BY <1>1, <2>2, <2>3, HeadTailProperties
  <2>8. Len(Tail(E)) = Len(Echoed(D)) /\ Len(Tail(E)) = Len(D)
    BY <2>1, <2>2, <2>7
  <2>9. ASSUME NEW k \in 1 .. Len(Tail(E)) PROVE Tail(E)[k] = Echoed(D)[k]
    <3>1. k \in DOMAIN D /\ k + 1 \in DOMAIN C /\ D[k] = C[k + 1]
      BY <1>1, <2>1, <2>8
    <3>2. QED
      BY <2>5, <2>6, <2>7, <3>1
  <2>10. Tail(E) \in Seq(U \cup V) /\ Echoed(D) \in Seq(U \cup V)
    BY <2>4, <2>7
  <2>11. Tail(E) = Echoed(D)
    BY <2>8, <2>9, <2>10, SeqEqual
  <2>12. QED
    BY <2>11 DEF C, D, E, t
<1>5. QED
  BY <1>3, <1>4

(* Where a message comes from, where an answer goes, and what the server keeps   *)
(* for the answers to come.                                                  *)
Followed(c, chain, w) == w \in Seq(Spots) /\ IsWay(c, w) /\ chain = ChainOf(c, w)
OnWayUp(p) ==
  \E w : /\ Followed(p.clnt, p.chain, w) /\ w # <<>>
         /\ p.from = w[1].node /\ [node |-> p.to, link |-> p.link] \in SendsTo(p.from)
FollowedBack(c, chain, w) == w \in Seq(Spots) /\ IsWay(c, w) /\ chain = Echoed(ChainOf(c, w))
OnWayDown(p) ==
  \E w : /\ FollowedBack(p.clnt, p.chain, w) /\ w # <<>>
         /\ p.to = w[1].node /\ \E n : [node |-> n, link |-> p.link] \in SendsTo(p.to)
PacketOnWay(p) ==
  /\ p.clnt \in Clients /\ p.type \in {"CLNT", "FORW", "REPL", "ANSW"}
  /\ p.type = "CLNT" =>
       /\ p.chain = <<>> /\ p.from = AddrOf[p.clnt]
       /\ p.link = LinkOf[p.clnt] /\ p.to \in Listeners(p.link)
  /\ p.type = "FORW" => OnWayUp(p)
  /\ p.type = "REPL" => OnWayDown(p)
  /\ p.type = "ANSW" => p.to = p.clnt
AnswerOnWay(c, a) ==
  \E w : /\ Followed(c, a.chain, w) /\ EndsAtServer(c, w)
         /\ a.from = IF w = <<>> THEN AddrOf[c] ELSE w[1].node
WayInv ==
  /\ \A p \in net : PacketOnWay(p)
  /\ DOMAIN kept = Clients /\ \A c \in Clients : kept[c] # NoAnswer => AnswerOnWay(c, kept[c])

LEMMA PacketIs ==
  ASSUME NEW t, NEW c, NEW f, NEW d, NEW l, NEW chain, NEW at
  PROVE  LET p == Packet(t, c, f, d, l, chain, at) IN
           /\ p.type = t /\ p.clnt = c /\ p.from = f /\ p.to = d /\ p.link = l
           /\ p.chain = chain /\ p.at = at
  BY DEF Packet

LEMMA NoWay == ASSUME NEW c PROVE Followed(c, <<>>, <<>>)
<1>1. <<>> \in Seq(Spots) /\ DOMAIN <<>> = {}
  OBVIOUS
<1>2. ChainOf(c, <<>>) = <<>>
  BY <1>1, ChainIs
<1>3. QED
  BY <1>1, <1>2 DEF Followed, IsWay

(* What comes to the server ends a way; what comes to a relay makes one longer. *)
LEMMA ServerOnWay ==
  ASSUME SendersReach, NEW p, PacketOnWay(p), p.to = Server
  PROVE  AnswerOnWay(p.clnt, [from |-> p.from, chain |-> p.chain, at |-> IfaceAt(p.chain)])
         /\ p.link = ServerLink
<1> DEFINE a == [from |-> p.from, chain |-> p.chain, at |-> IfaceAt(p.chain)]
<1>0. a.from = p.from /\ a.chain = p.chain /\ Server \notin Relays /\ Server \notin Clients
  BY NamesAssumption
<1> HIDE DEF a
<1>1. CASE p.type = "CLNT"
  <2>1. p.link = ServerLink /\ p.chain = <<>> /\ p.from = AddrOf[p.clnt] /\ LinkOf[p.clnt] = ServerLink
    BY <1>0, <1>1 DEF PacketOnWay, Listeners, Hearing
  <2>2. QED
    BY <1>0, <2>1, NoWay DEF AnswerOnWay, EndsAtServer, a
<1>2. CASE p.type = "FORW"
  <2>1. PICK w : /\ Followed(p.clnt, p.chain, w) /\ w # <<>>
                 /\ p.from = w[1].node /\ [node |-> p.to, link |-> p.link] \in SendsTo(p.from)
    BY <1>2 DEF PacketOnWay, OnWayUp
  <2>2. p.from \in Relays
    <3>1. w \in Seq(Spots)
      BY <2>1 DEF Followed
    <3>2. 1 \in 1 .. Len(w) /\ \A k \in 1 .. Len(w) : w[k] \in Spots
      BY <2>1, <3>1, ChainIs
    <3>3. QED
      BY <2>1, <3>2 DEF Spots
  <2>3. p.link = ServerLink
    <3> DEFINE d == [node |-> p.to, link |-> p.link]
    <3>1. d \in SendsTo(p.from) /\ d.node = Server /\ d.link = p.link
      BY <2>1
    <3> HIDE DEF d
    <3>2. QED
      BY <2>2, <3>1 DEF SendersReach
  <2>4. QED
    BY <1>0, <2>1, <2>3 DEF AnswerOnWay, EndsAtServer, a
<1>3. CASE p.type = "REPL"
  <2>1. PICK w : FollowedBack(p.clnt, p.chain, w) /\ w # <<>> /\ p.to = w[1].node
    BY <1>3 DEF PacketOnWay, OnWayDown
  <2>2. w \in Seq(Spots)
    BY <2>1 DEF FollowedBack
  <2>3. 1 \in 1 .. Len(w) /\ \A k \in 1 .. Len(w) : w[k] \in Spots
    BY <2>1, <2>2, ChainIs
  <2>4. QED
    BY <1>0, <2>1, <2>3 DEF Spots
<1>4. CASE p.type = "ANSW"
  BY <1>0, <1>4 DEF PacketOnWay
<1>5. QED
  BY <1>1, <1>2, <1>3, <1>4 DEF PacketOnWay, a

LEMMA ForwardOnWay ==
  ASSUME SendersReach, IInv, WayInv, NEW p \in net, Forward(p)
  PROVE  WayInv'
<1>0. /\ PacketOnWay(p) /\ GoodPacket(p) /\ p.type \in {"CLNT", "FORW"} /\ p.to \in Relays
      /\ Layer(p) = [hop |-> HopCount(p), peer |-> p.from, id |-> WrittenId(p.to, p.link)]
      /\ Server \notin Relays
  BY NamesAssumption DEF WayInv, IInv, Forward, AtRelay, Layer
<1> DEFINE s == [node |-> p.to, link |-> p.link]
           c == p.clnt
           y == Layer(p)
<1>s. s.node = p.to /\ s.link = p.link
  OBVIOUS
<1>1. \E w \in Seq(Spots) :
        /\ IsWay(c, w) /\ p.chain = ChainOf(c, w) /\ s \in Spots /\ Heard(s)
        /\ IF w = <<>> THEN s.link = LinkOf[c] ELSE s \in SendsTo(w[1].node)
        /\ HopCount(p) = Len(w) /\ p.from = IF w = <<>> THEN AddrOf[c] ELSE w[1].node
  <2>1. CASE p.type = "CLNT"
    <3>1. /\ p.chain = <<>> /\ p.from = AddrOf[c] /\ p.link = LinkOf[c] /\ p.to \in Listeners(p.link)
          /\ HopCount(p) = 0 /\ p.link \in Links
      BY <1>0, <2>1, ConfigAssumption DEF PacketOnWay, HopCount
    <3>2. \E i \in Ifaces(p.to) : i.link = p.link /\ i.hears # {}
      BY <1>0, <3>1 DEF Listeners, Hearing
    <3>3. Followed(c, <<>>, <<>>) /\ Len(<<>>) = 0
      BY NoWay
    <3>4. QED
      BY <1>0, <1>s, <3>1, <3>2, <3>3 DEF Followed, Heard, Spots
  <2>2. CASE p.type = "FORW"
    <3>1. PICK w : /\ Followed(c, p.chain, w) /\ w # <<>>
                   /\ p.from = w[1].node /\ s \in SendsTo(p.from)
      BY <1>0, <2>2 DEF PacketOnWay, OnWayUp
    <3>2. w \in Seq(Spots) /\ IsWay(c, w) /\ p.chain = ChainOf(c, w)
      BY <3>1 DEF Followed
    <3>3. /\ 1 \in 1 .. Len(w) /\ Len(w) \in Nat /\ w[1] \in Spots /\ ChainOf(c, w) # <<>>
          /\ Len(ChainOf(c, w)) = Len(w)
      BY <3>1, <3>2, ChainIs
    <3>4. w[1].node \in Relays
      BY <3>3 DEF Spots
    <3>5. Heard(s) /\ s \in Places
      <4>1. PICK i \in Ifaces(p.from) : s \in i.to
        BY <3>1 DEF SendsTo
      <4>2. s \in Places
        BY <3>1, <3>4, <4>1, IfaceFacts
      <4>3. s.node # Server
        BY <1>0, <1>s
      <4> HIDE DEF s
      <4>4. Heard(s)
        BY <3>1, <3>4, <4>3 DEF SendersReach
      <4>5. QED
        BY <4>2, <4>4
    <3>6. s \in Spots
      BY <1>0, <3>5 DEF Places, Spots
    <3>7. HopCount(p) = Len(w)
      <4>1. Nested(p.chain) /\ p.chain # <<>>
        BY <1>0, <3>2, <3>3 DEF GoodPacket
      <4>2. Head(p.chain).hop = Len(p.chain) - 1
        BY <4>1, Peeled
      <4>3. QED
        BY <2>2, <3>2, <3>3, <4>2 DEF HopCount
    <3> HIDE DEF s, c
    <3>8. QED
      BY <3>1, <3>2, <3>5, <3>6, <3>7
  <2>3. QED
    BY <1>0, <2>1, <2>2
<1>2. PICK w \in Seq(Spots) :
        /\ IsWay(c, w) /\ p.chain = ChainOf(c, w) /\ s \in Spots /\ Heard(s)
        /\ IF w = <<>> THEN s.link = LinkOf[c] ELSE s \in SendsTo(w[1].node)
        /\ HopCount(p) = Len(w) /\ p.from = IF w = <<>> THEN AddrOf[c] ELSE w[1].node
  BY <1>1
<1>3. y = [hop |-> Len(w), peer |-> p.from, id |-> WrittenId(s.node, s.link)]
  BY <1>0, <1>s, <1>2
<1>4. net' = (net \ {p}) \cup
         {Packet("FORW", c, p.to, d.node, d.link, <<y>> \o p.chain, <<NoId>>) :
            d \in {d \in SendsTo(p.to) : d.node \notin stopped}}
      /\ kept' = kept
  BY DEF Forward
<1>c. c \in Clients
  BY <1>0 DEF PacketOnWay
<1> HIDE DEF s, c, y
<1> DEFINE v == <<s>> \o w
<1>5. v \in Seq(Spots) /\ IsWay(c, v) /\ v # <<>> /\ v[1] = s /\ <<y>> \o p.chain = ChainOf(c, v)
  <2>1. /\ w \in Seq(Spots) /\ IsWay(c, w) /\ s \in Spots /\ Heard(s)
        /\ w = <<>> => s.link = LinkOf[c]
        /\ w # <<>> => s \in SendsTo(w[1].node)
        /\ p.from = IF w = <<>> THEN AddrOf[c] ELSE w[1].node
    BY <1>2
  <2>2. v \in Seq(Spots) /\ IsWay(c, v) /\ v # <<>> /\ v[1] = s /\ <<y>> \o ChainOf(c, w) = ChainOf(c, v)
    BY <2>1, <1>3, ChainLonger, SMTT(60)
  <2>3. QED
    BY <1>2, <2>2
<1> HIDE DEF v
<1>6. ASSUME NEW d \in SendsTo(p.to)
      PROVE  PacketOnWay(Packet("FORW", c, p.to, d.node, d.link, <<y>> \o p.chain, <<NoId>>))
  <2> DEFINE q == Packet("FORW", c, p.to, d.node, d.link, <<y>> \o p.chain, <<NoId>>)
  <2>1. q.type = "FORW" /\ q.clnt = c /\ q.from = p.to /\ q.to = d.node /\ q.link = d.link
        /\ q.chain = <<y>> \o p.chain
    BY DEF Packet
  <2>2. [node |-> d.node, link |-> d.link] = d
    <3>1. PICK i \in Ifaces(p.to) : d \in i.to
      BY DEF SendsTo
    <3>2. d \in Places
      BY <1>0, <3>1, IfaceFacts
    <3>3. QED
      BY <3>2 DEF Places
  <2> HIDE DEF q
  <2>3. OnWayUp(q)
    <3>1. Followed(q.clnt, q.chain, v)
      BY <1>5, <2>1 DEF Followed
    <3>2. q.from = v[1].node /\ [node |-> q.to, link |-> q.link] \in SendsTo(q.from)
      BY <1>5, <1>s, <2>1, <2>2
    <3>3. QED
      BY <1>5, <3>1, <3>2 DEF OnWayUp
  <2>4. PacketOnWay(q)
    BY <1>c, <2>1, <2>3 DEF PacketOnWay
  <2>5. QED
    BY <2>4 DEF q
<1>7. \A q \in net' : PacketOnWay(q)
  BY <1>4, <1>6 DEF WayInv
<1>8. QED
  BY <1>4, <1>7 DEF WayInv

(* At a relay the answer finds the link and the neighbour it is for. *)
LEMMA WayDown ==
  ASSUME IdsTellLinks, NEW p, PacketOnWay(p), p.type = "REPL"
  PROVE  \E w : /\ FollowedBack(p.clnt, p.chain, w) /\ w # <<>> /\ p.to = w[1].node /\ p.to \in Relays
                /\ Destination(p)[1].link = w[1].link
                /\ Recipients(p) = Neighbours(p.to, w[1].link, Head(p.chain).peer)
                /\ Head(p.chain).peer = IF Tail(w) = <<>> THEN AddrOf[p.clnt] ELSE w[2].node
<1>1. PICK w : /\ FollowedBack(p.clnt, p.chain, w) /\ w # <<>>
               /\ p.to = w[1].node /\ \E n : [node |-> n, link |-> p.link] \in SendsTo(p.to)
  BY DEF PacketOnWay, OnWayDown
<1>2. w \in Seq(Spots) /\ IsWay(p.clnt, w) /\ p.chain = Echoed(ChainOf(p.clnt, w))
  BY <1>1 DEF FollowedBack
<1>3. /\ 1 \in 1 .. Len(w) /\ Len(w) \in Nat /\ DOMAIN w = 1 .. Len(w) /\ w[1] \in Spots
      /\ p.chain # <<>> /\ (\E S : p.chain \in Seq(S))
      /\ p.chain[1].peer = IF 1 = Len(w) THEN AddrOf[p.clnt] ELSE w[1 + 1].node
      /\ p.chain[1].id = IF ServerOmits THEN NoId ELSE WrittenId(w[1].node, w[1].link)
  <2>1. /\ Len(w) \in Nat /\ DOMAIN w = 1 .. Len(w) /\ 1 \in 1 .. Len(w) /\ w[1] \in Spots
    BY <1>1, <1>2, ChainIs
  <2>2. \E S : p.chain \in Seq(S)
    BY <1>2, EchoOfWay
  <2>3. p.chain # <<>>
    BY <1>1, <1>2, <2>1, EchoOfWay
  <2>4. /\ p.chain[1].peer = IF 1 = Len(w) THEN AddrOf[p.clnt] ELSE w[1 + 1].node
        /\ p.chain[1].id = IF ServerOmits THEN NoId ELSE WrittenId(w[1].node, w[1].link)
    BY <1>2, <2>1, EchoOfWay
  <2>5. QED
    BY <1>2, <2>1, <2>2, <2>3, <2>4
<1>4. Head(p.chain) = p.chain[1]
  BY <1>3
<1>5. Tail(w) = <<>> <=> 1 = Len(w)
  <2>1. Tail(w) \in Seq(Spots) /\ Len(Tail(w)) = Len(w) - 1
    BY <1>1, <1>2, HeadTailProperties
  <2>2. Tail(w) = <<>> <=> Len(Tail(w)) = 0
    BY <2>1, ChainIs
  <2>3. QED
    BY <1>3, <2>1, <2>2
<1>6. p.to \in Relays /\ Heard([node |-> p.to, link |-> w[1].link])
  <2>1. w[1] = [node |-> p.to, link |-> w[1].link] /\ p.to \in Relays
    BY <1>1, <1>3 DEF Spots
  <2>2. Heard(w[1])
    BY <1>2, <1>3 DEF IsWay
  <2>3. QED
    BY <2>1, <2>2
<1>7. PICK n : [node |-> n, link |-> p.link] \in SendsTo(p.to)
  BY <1>1
<1> DEFINE d == [node |-> n, link |-> p.link]
<1>8. d \in SendsTo(p.to) /\ p.link = d.link 
      /\ Head(p.chain).id = IF ServerOmits THEN NoId ELSE WrittenId(p.to, w[1].link)
  BY <1>1, <1>3, <1>4, <1>7
<1> HIDE DEF d
<1>9. PICK j \in Ifaces(p.to) : Destination(p) = <<j>> /\ j.link = w[1].link
  BY <1>6, <1>8, FoundBack
<1>10. /\ Destination(p) # <<>> /\ Destination(p)[1].link = w[1].link
       /\ Recipients(p) = Neighbours(p.to, w[1].link, Head(p.chain).peer)
  BY <1>9 DEF Recipients
<1>11. Head(p.chain).peer = IF Tail(w) = <<>> THEN AddrOf[p.clnt] ELSE w[2].node
  BY <1>3, <1>4, <1>5
<1>12. QED
  BY <1>1, <1>6, <1>10, <1>11

LEMMA BackwardOnWay ==
  ASSUME Answerable, WayInv, NEW p \in net, Backward(p)
  PROVE  WayInv'
<1>0. /\ PacketOnWay(p) /\ p.type = "REPL" /\ IdsTellLinks /\ AddressesDiffer
      /\ p.clnt \in Clients
  BY DEF WayInv, Backward, AtRelay, Answerable, PacketOnWay
<1>1. PICK w : /\ FollowedBack(p.clnt, p.chain, w) /\ w # <<>> /\ p.to = w[1].node /\ p.to \in Relays
               /\ Destination(p)[1].link = w[1].link
               /\ Recipients(p) = Neighbours(p.to, w[1].link, Head(p.chain).peer)
               /\ Head(p.chain).peer = IF Tail(w) = <<>> THEN AddrOf[p.clnt] ELSE w[2].node
  BY <1>0, WayDown
<1>2. w \in Seq(Spots) /\ IsWay(p.clnt, w) /\ p.chain = Echoed(ChainOf(p.clnt, w))
  BY <1>1 DEF FollowedBack
<1>3. /\ FollowedBack(p.clnt, Tail(p.chain), Tail(w))
      /\ Tail(w) # <<>> => Tail(w)[1] = w[2] /\ w[1] \in SendsTo(w[2].node)
      /\ Tail(w) = <<>> => w[1].link = LinkOf[p.clnt]
  BY <1>1, <1>2, ChainShorter, EchoShorter DEF FollowedBack
<1>4. /\ w[1] = [node |-> p.to, link |-> w[1].link]
      /\ Tail(w) # <<>> => w[2].node \in Relays
  <2>1. Tail(w) \in Seq(Spots) /\ (Tail(w) # <<>> => 1 \in 1 .. Len(Tail(w)))
    BY <1>1, <1>2, ChainShorter, ChainIs
  <2>2. Tail(w) # <<>> => Tail(w)[1] \in Spots
    BY <2>1, ElementOfSeq
  <2>3. w[1] \in Spots
    BY <1>1, <1>2, ChainIs
  <2>4. QED
    BY <1>1, <1>3, <2>2, <2>3 DEF Spots
<1>5. ASSUME NEW n \in Recipients(p) PROVE PacketOnWay(Unwrapped(p, n))
  <2> DEFINE q == Unwrapped(p, n)
  <2>1. /\ q.type = IF n \in Relays THEN "REPL" ELSE "ANSW"
        /\ q.clnt = p.clnt /\ q.to = n /\ q.link = w[1].link /\ q.chain = Tail(p.chain)
    BY <1>1 DEF Unwrapped, Packet
  <2> HIDE DEF q
  <2>2. n \in Neighbours(p.to, w[1].link, Head(p.chain).peer)
    BY <1>1
  <2>3. CASE n \in Relays
    <3>1. n = Head(p.chain).peer
      BY <2>2, <2>3, NamesAssumption DEF Neighbours
    <3>2. Tail(w) # <<>> /\ n = w[2].node
      BY <1>0, <1>1, <2>3, <3>1, NamesAssumption
    <3>3. q.to = Tail(w)[1].node /\ [node |-> p.to, link |-> q.link] \in SendsTo(q.to)
      BY <1>3, <1>4, <2>1, <3>2
    <3>4. OnWayDown(q)
      BY <1>3, <2>1, <3>2, <3>3 DEF OnWayDown
    <3>5. PacketOnWay(q)
      BY <1>0, <2>1, <2>3, <3>4 DEF PacketOnWay
    <3>6. QED
      BY <3>5 DEF q
  <2>4. CASE n \notin Relays
    <3>1. n \in Clients /\ LinkOf[n] = w[1].link /\ AddrOf[n] = Head(p.chain).peer
      BY <2>2, <2>4 DEF Neighbours
    <3>2. AddrOf[n] \notin Relays
      BY <3>1, NamesAssumption
    <3>3. Tail(w) = <<>>
      BY <1>1, <1>4, <3>1, <3>2
    <3>4. n = p.clnt
      BY <1>0, <1>1, <1>3, <3>1, <3>3 DEF AddressesDiffer
    <3>5. PacketOnWay(q)
      BY <1>0, <2>1, <2>4, <3>4 DEF PacketOnWay
    <3>6. QED
      BY <3>5 DEF q
  <2>5. QED
    BY <2>3, <2>4
<1>6. \A q \in net' : q \in net \/ \E n \in Recipients(p) : q = Unwrapped(p, n)
  BY DEF Backward
<1>7. kept' = kept
  BY DEF Backward
<1>8. \A q \in net' : PacketOnWay(q)
  BY <1>5, <1>6 DEF WayInv
<1>9. QED
  BY <1>7, <1>8 DEF WayInv

(* The server answers the way the first copy came, and sends by its only link.  *)
LEMMA AnswerIs ==
  ASSUME NEW c \in Clients, NEW a, AnswerOnWay(c, a), AddressesDiffer, NEW q \in Reply(c, ServerLink, a)
  PROVE  PacketOnWay(q) /\ q.at = a.at /\ q.type \in {"REPL", "ANSW"} /\ q.clnt = c
<1>1. PICK w : /\ Followed(c, a.chain, w) /\ EndsAtServer(c, w)
               /\ a.from = IF w = <<>> THEN AddrOf[c] ELSE w[1].node
  BY DEF AnswerOnWay
<1>2. w \in Seq(Spots) /\ a.chain = ChainOf(c, w)
  BY <1>1 DEF Followed
<1>3. a.chain = <<>> <=> w = <<>>
  BY <1>2, ChainIs
<1>4. CASE w = <<>>
  <2>1. PICK d \in Clients : /\ LinkOf[d] = ServerLink /\ AddrOf[d] = a.from
                             /\ q = Packet("ANSW", c, Server, d, ServerLink, <<>>, a.at)
    BY <1>3, <1>4 DEF Reply
  <2>2. d = c
    BY <1>1, <1>4, <2>1 DEF EndsAtServer, AddressesDiffer
  <2>3. QED
    BY <2>1, <2>2 DEF Packet, PacketOnWay
<1>5. CASE w # <<>>
  <2>1. q = Packet("REPL", c, Server, a.from, ServerLink, Echoed(a.chain), a.at)
    BY <1>3, <1>5 DEF Reply
  <2>2. /\ q.type = "REPL" /\ q.clnt = c /\ q.to = a.from /\ q.link = ServerLink
        /\ q.chain = Echoed(a.chain) /\ q.at = a.at
    BY <2>1 DEF Packet
  <2>3. q.to = w[1].node /\ [node |-> Server, link |-> q.link] \in SendsTo(q.to)
    BY <1>1, <1>5, <2>2 DEF EndsAtServer
  <2>4. OnWayDown(q)
    BY <1>1, <1>5, <2>2, <2>3 DEF OnWayDown, Followed, FollowedBack
  <2>5. QED
    BY <2>2, <2>4 DEF PacketOnWay
<1>6. QED
  BY <1>4, <1>5

LEMMA ServeOnWay ==
  ASSUME Answerable, WayInv, NEW p \in net, Serve(p)
  PROVE  WayInv'
<1>0. /\ PacketOnWay(p) /\ p.to = Server /\ SendersReach /\ AddressesDiffer /\ p.clnt \in Clients
  BY DEF WayInv, Serve, AtServer, Answerable, PacketOnWay
<1>1. AnswerOnWay(p.clnt, AnswerOf(p)) /\ p.link = ServerLink
  BY <1>0, ServerOnWay DEF AnswerOf
<1>2. PICK a : /\ a = IF kept[p.clnt] = NoAnswer THEN AnswerOf(p) ELSE kept[p.clnt]
               /\ kept' = [kept EXCEPT ![p.clnt] = a]
               /\ net' = (net \ {p}) \cup Reply(p.clnt, p.link, a)
  BY DEF Serve
<1>3. AnswerOnWay(p.clnt, a)
  BY <1>0, <1>1, <1>2 DEF WayInv
<1>4. \A q \in net' : PacketOnWay(q)
  BY <1>0, <1>1, <1>2, <1>3, AnswerIs DEF WayInv
<1>5. DOMAIN kept' = Clients /\ \A c \in Clients : kept'[c] # NoAnswer => AnswerOnWay(c, kept'[c])
  BY <1>2, <1>3 DEF WayInv
<1>6. QED
  BY <1>4, <1>5 DEF WayInv

LEMMA FewerOnWay ==
  ASSUME WayInv, net' \subseteq net,
         kept' = kept \/ \E c \in Clients : kept' = [kept EXCEPT ![c] = NoAnswer]
  PROVE  WayInv'
<1>1. DOMAIN kept' = Clients /\ \A c \in Clients : kept'[c] # NoAnswer => kept'[c] = kept[c]
  BY DEF WayInv
<1>2. QED
  BY <1>1 DEF WayInv

LEMMA AskOnWay ==
  ASSUME WayInv, NEW c \in Clients, Ask(c)
  PROVE  WayInv'
<1>1. ASSUME NEW n \in Listeners(LinkOf[c])
      PROVE  PacketOnWay(Packet("CLNT", c, AddrOf[c], n, LinkOf[c], <<>>, <<NoId>>))
  BY DEF Packet, PacketOnWay
<1>2. \A q \in net' : PacketOnWay(q)
  BY <1>1 DEF Ask, WayInv
<1>3. kept' = kept
  BY DEF Ask
<1>4. QED
  BY <1>2, <1>3 DEF WayInv

LEMMA WayInit == Init => WayInv
  BY DEF Init, WayInv

LEMMA WayNext == Answerable /\ IInv /\ WayInv /\ [Next]_vars => WayInv'
<1> SUFFICES ASSUME Answerable, IInv, WayInv, [Next]_vars PROVE WayInv'
  OBVIOUS
<1>1. CASE UNCHANGED vars
  BY <1>1, FewerOnWay DEF vars
<1>2. ASSUME NEW c \in Clients, Ask(c) \/ AskAnew(c) \/ Expire(c) PROVE WayInv'
  <2>1. CASE AskAnew(c)
    BY <2>1, FewerOnWay DEF AskAnew
  <2>2. CASE Expire(c)
    BY <2>2, FewerOnWay DEF Expire
  <2>3. QED
    BY <1>2, <2>1, <2>2, AskOnWay
<1>3. ASSUME NEW p \in net, Deliver(p) \/ Lose(p) PROVE WayInv'
  <2>1. CASE Hear(p)
    BY <2>1, FewerOnWay DEF Hear
  <2>2. CASE DieAtLimit(p)
    BY <2>2, FewerOnWay DEF DieAtLimit
  <2>3. CASE Refuse(p)
    BY <2>3, FewerOnWay DEF Refuse
  <2>4. CASE Overrun(p)
    BY <2>4, FewerOnWay DEF Overrun
  <2>5. CASE Lose(p)
    BY <2>5, FewerOnWay DEF Lose
  <2>6. QED
    BY <1>3, <2>1, <2>2, <2>3, <2>4, <2>5, ForwardOnWay, BackwardOnWay, ServeOnWay DEF Deliver, Answerable
<1>4. ASSUME NEW r \in Mortal, Stop(r) PROVE WayInv'
  BY <1>4, FewerOnWay DEF Stop
<1>5. QED
  BY <1>1, <1>2, <1>3, <1>4 DEF Next

(* In a network that is Answerable, whatever its shape and its depth, a relay    *)
(* that gets an answer has somebody to hand it to.                           *)
THEOREM RepliesGoOn ==
  ASSUME Answerable
  PROVE  Spec => []EveryReplyGoesOn
<1>1. WayInv => EveryReplyGoesOn
  <2> SUFFICES ASSUME WayInv, NEW p \in net, p.type = "REPL" PROVE Recipients(p) # {}
    BY DEF EveryReplyGoesOn
  <2>1. PacketOnWay(p) /\ IdsTellLinks /\ p.clnt \in Clients
    BY DEF WayInv, Answerable, PacketOnWay
  <2>2. PICK w : /\ FollowedBack(p.clnt, p.chain, w) /\ w # <<>> /\ p.to = w[1].node /\ p.to \in Relays
                 /\ Recipients(p) = Neighbours(p.to, w[1].link, Head(p.chain).peer)
                 /\ Head(p.chain).peer = IF Tail(w) = <<>> THEN AddrOf[p.clnt] ELSE w[2].node
    BY <2>1, WayDown
  <2>3. w \in Seq(Spots) /\ IsWay(p.clnt, w)
    BY <2>2 DEF FollowedBack
  <2>4. CASE Tail(w) = <<>>
    <3>1. w[1].link = LinkOf[p.clnt]
      BY <2>2, <2>3, <2>4, ChainShorter
    <3>2. QED
      BY <2>1, <2>2, <2>4, <3>1 DEF Neighbours
  <2>5. CASE Tail(w) # <<>>
    <3>1. w[1] \in SendsTo(w[2].node) /\ Tail(w)[1] = w[2] /\ Tail(w) \in Seq(Spots)
      BY <2>2, <2>3, <2>5, ChainShorter
    <3>2. w[1] = [node |-> p.to, link |-> w[1].link] /\ w[2].node \in Relays
      <4>1. w[1] \in Spots /\ Tail(w)[1] \in Spots
        BY <2>2, <2>3, <2>5, <3>1, ChainIs
      <4>2. QED
        BY <2>2, <3>1, <4>1 DEF Spots
    <3>3. w[2].node \in Neighbours(p.to, w[1].link, w[2].node)
      BY <3>1, <3>2 DEF Neighbours
    <3>4. QED
      BY <2>2, <2>5, <3>3
  <2>6. QED
    BY <2>4, <2>5
<1>2. IInv /\ WayInv /\ [Next]_vars => (IInv /\ WayInv)'
  BY NextIInv, WayNext
<1>3. QED
  BY InitIInv, WayInit, <1>1, <1>2, PTL DEF Spec

-----------------------------------------------------------------------------
(* The pool of an answer is the one of its client's link.                     *)

PoolInv ==
  /\ \A p \in net : p.type \in {"REPL", "ANSW"} => LinkServed[p.at] = LinkOf[p.clnt]
  /\ \A c \in Clients : kept[c] # NoAnswer => LinkServed[kept[c].at] = LinkOf[c]

LEMMA ServedRight ==
  ASSUME Answerable, ServerKnowsLinks, WayInv, NEW p \in net, Serve(p)
  PROVE  LinkServed[AnswerOf(p).at] = LinkOf[p.clnt]
<1>0. PacketOnWay(p) /\ p.to = Server /\ p.clnt \in Clients /\ SendersReach
      /\ Fits(p.chain) /\ IfaceAt(p.chain) # NoIface
  BY DEF WayInv, Serve, AtServer, Answerable, PacketOnWay
<1>1. AnswerOnWay(p.clnt, [from |-> p.from, chain |-> p.chain, at |-> IfaceAt(p.chain)])
  BY <1>0, ServerOnWay
<1>2. PICK w : Followed(p.clnt, p.chain, w) /\ EndsAtServer(p.clnt, w)
  BY <1>1 DEF AnswerOnWay
<1>3. w \in Seq(Spots) /\ IsWay(p.clnt, w) /\ p.chain = ChainOf(p.clnt, w)
  BY <1>2 DEF Followed
<1>4. w \in BoundedSeq([node : Relays, link : Links], HopLimit)
  <2>1. Len(w) \in Nat /\ Len(w) <= HopLimit /\ w \in [1 .. Len(w) -> Spots]
    BY <1>0, <1>3, ChainIs, LenProperties DEF Fits
  <2>2. Len(w) \in 0 .. HopLimit
    BY <2>1, LimitType
  <2>3. QED
    BY <2>1, <2>2 DEF BoundedSeq, SeqOf, Spots
<1>5. LinkServed[IfaceAt(p.chain)] = LinkOf[p.clnt]
  BY <1>0, <1>2, <1>3, <1>4 DEF ServerKnowsLinks
<1>6. QED
  BY <1>5 DEF AnswerOf

LEMMA FewerRight ==
  ASSUME PoolInv, WayInv, net' \subseteq net,
         kept' = kept \/ \E c \in Clients : kept' = [kept EXCEPT ![c] = NoAnswer]
  PROVE  PoolInv'
<1>1. \A c \in Clients : kept'[c] # NoAnswer => kept'[c] = kept[c]
  BY DEF WayInv
<1>2. QED
  BY <1>1 DEF PoolInv

LEMMA PoolNext == Answerable /\ ServerKnowsLinks /\ WayInv /\ PoolInv /\ [Next]_vars => PoolInv'
<1> SUFFICES ASSUME Answerable, ServerKnowsLinks, WayInv, PoolInv, [Next]_vars PROVE PoolInv'
  OBVIOUS
<1>1. CASE UNCHANGED vars
  BY <1>1, FewerRight DEF vars
<1>2. ASSUME NEW c \in Clients, Ask(c) \/ AskAnew(c) \/ Expire(c) PROVE PoolInv'
  <2>1. CASE Ask(c)
    <3>1. \A p \in net' : p \in net \/ p.type = "CLNT"
      BY <2>1 DEF Ask, Packet
    <3>2. kept' = kept
      BY <2>1 DEF Ask
    <3>3. QED
      BY <3>1, <3>2 DEF PoolInv
  <2>2. CASE AskAnew(c)
    BY <2>2, FewerRight DEF AskAnew
  <2>3. CASE Expire(c)
    BY <2>3, FewerRight DEF Expire
  <2>4. QED
    BY <1>2, <2>1, <2>2, <2>3
<1>3. ASSUME NEW p \in net, Deliver(p) \/ Lose(p) PROVE PoolInv'
  <2>1. CASE Forward(p)
    <3>1. \A q \in net' : q \in net \/ q.type = "FORW"
      BY <2>1 DEF Forward, Packet
    <3>2. kept' = kept
      BY <2>1 DEF Forward
    <3>3. QED
      BY <3>1, <3>2 DEF PoolInv
  <2>2. CASE Backward(p)
    <3>1. \A q \in net' : q \in net \/ (q.at = p.at /\ q.clnt = p.clnt)
      BY <2>2 DEF Backward, Unwrapped, Packet
    <3>2. kept' = kept /\ p.type = "REPL"
      BY <2>2 DEF Backward, AtRelay
    <3>3. QED
      BY <3>1, <3>2 DEF PoolInv
  <2>3. CASE Serve(p)
    <3>1. PICK a : /\ a = IF kept[p.clnt] = NoAnswer THEN AnswerOf(p) ELSE kept[p.clnt]
                   /\ kept' = [kept EXCEPT ![p.clnt] = a]
                   /\ net' = (net \ {p}) \cup Reply(p.clnt, p.link, a)
      BY <2>3 DEF Serve
    <3>2. LinkServed[a.at] = LinkOf[p.clnt]
      BY <2>3, <3>1, ServedRight DEF PoolInv, WayInv, PacketOnWay
    <3>3. \A q \in Reply(p.clnt, p.link, a) : q.at = a.at /\ q.clnt = p.clnt
      BY DEF Reply, Packet
    <3>4. DOMAIN kept = Clients
      BY DEF WayInv
    <3>5. QED
      BY <3>1, <3>2, <3>3, <3>4 DEF PoolInv
  <2>4. CASE Hear(p)
    BY <2>4, FewerRight DEF Hear
  <2>5. CASE DieAtLimit(p)
    BY <2>5, FewerRight DEF DieAtLimit
  <2>6. CASE Refuse(p)
    BY <2>6, FewerRight DEF Refuse
  <2>7. CASE Overrun(p)
    BY <2>7, FewerRight DEF Overrun
  <2>8. CASE Lose(p)
    BY <2>8, FewerRight DEF Lose
  <2>9. QED
    BY <1>3, <2>1, <2>2, <2>3, <2>4, <2>5, <2>6, <2>7, <2>8 DEF Deliver
<1>4. ASSUME NEW r \in Mortal, Stop(r) PROVE PoolInv'
  BY <1>4, FewerRight DEF Stop
<1>5. QED
  BY <1>1, <1>2, <1>3, <1>4 DEF Next

(* In a network that is Answerable, with a server whose relay interfaces match   *)
(* the links, the answer reaches the client that asked and nobody else, and    *)
(* is for the link of that client, though the copies of its message came on    *)
(* several ways and another client has the same address on its own link.      *)
THEOREM AnswersReachAskers ==
  ASSUME Answerable, ServerKnowsLinks
  PROVE  Spec => []OnlyForAsker
<1>1. WayInv /\ PoolInv => OnlyForAsker
  BY DEF WayInv, PoolInv, OnlyForAsker, PacketOnWay
<1>2. Init => PoolInv
  BY DEF Init, PoolInv
<1>3. IInv /\ WayInv /\ PoolInv /\ [Next]_vars => (IInv /\ WayInv /\ PoolInv)'
  BY NextIInv, WayNext, PoolNext
<1>4. QED
  BY InitIInv, WayInit, <1>1, <1>2, <1>3, PTL DEF Spec

-----------------------------------------------------------------------------
(* The relay interface the server comes to, level by level.                   *)

IsLevels(at, chain, n) ==
  at = [k \in 0 .. n |-> IF k = 0 THEN <<>> ELSE Switched(at[k - 1], chain[k].id)]

(* The first n levels have relay interfaces, however many there are: the least   *)
(* n without would be one more than a number of levels that have them.          *)
LEMMA LevelsExist ==
  ASSUME NEW chain, NEW n \in Nat
  PROVE  \E at : IsLevels(at, chain, n)
<1> DEFINE Bad == {m \in Nat : ~ \E at : IsLevels(at, chain, m)}
<1>1. SUFFICES ASSUME Bad # {} PROVE FALSE
  BY <1>1
<1> DEFINE m == Min(Bad)
<1>2. m \in Bad /\ \A x \in Bad : m <= x
  <2> HIDE DEF Bad
  <2>1. Bad \in SUBSET Nat
    BY DEF Bad
  <2>2. QED
    BY <1>1, <2>1, LeastInSet
<1> HIDE DEF m
<1>3. m \in Nat /\ ~ \E at : IsLevels(at, chain, m)
  BY <1>2
<1>4. m # 0
  <2>1. IsLevels([k \in 0 .. 0 |-> <<>>], chain, 0)
    BY DEF IsLevels
  <2>2. QED
    BY <1>3, <2>1
<1>5. m - 1 \in Nat /\ m - 1 \notin Bad
  BY <1>2, <1>3, <1>4
<1>6. PICK f : IsLevels(f, chain, m - 1)
  BY <1>5
<1> DEFINE g == [k \in 0 .. m |-> IF k = m THEN Switched(f[m - 1], chain[m].id) ELSE f[k]]
<1>7. \A k \in 0 .. m - 1 : f[k] = IF k = 0 THEN <<>> ELSE Switched(f[k - 1], chain[k].id)
  BY <1>6 DEF IsLevels
<1>8. \A k \in 0 .. m : g[k] = IF k = 0 THEN <<>> ELSE Switched(g[k - 1], chain[k].id)
  <2> SUFFICES ASSUME NEW k \in 0 .. m
               PROVE  g[k] = IF k = 0 THEN <<>> ELSE Switched(g[k - 1], chain[k].id)
    OBVIOUS
  <2>1. CASE k = m
    BY <1>3, <1>4, <2>1
  <2>2. CASE k # m
    <3>1. k \in 0 .. m - 1 /\ g[k] = f[k]
      BY <1>3, <2>2
    <3>2. k # 0 => k - 1 \in 0 .. m /\ k - 1 # m
      BY <1>3
    <3>3. k # 0 => g[k - 1] = f[k - 1]
      BY <3>2
    <3>4. QED
      BY <1>7, <3>1, <3>3
  <2>3. QED
    BY <2>1, <2>2
<1>9. IsLevels(g, chain, m)
  <2>1. g = [k \in 0 .. m |-> g[k]]
    OBVIOUS
  <2> HIDE DEF g
  <2>2. QED
    BY <1>8, <2>1 DEF IsLevels
<1>10. QED
  BY <1>3, <1>9

LEMMA LevelsOf ==
  ASSUME NEW chain, Len(chain) \in Nat
  PROVE  \E at : /\ IfaceAt(chain) = at[Len(chain)] /\ at[0] = <<>>
                 /\ \A k \in 1 .. Len(chain) : at[k] = Switched(at[k - 1], chain[k].id)
<1> DEFINE at == CHOOSE f : IsLevels(f, chain, Len(chain))
<1>1. IsLevels(at, chain, Len(chain))
  BY LevelsExist
<1>2. IfaceAt(chain) = at[Len(chain)]
  BY DEF IfaceAt, IsLevels
<1> HIDE DEF at
<1>3. \A k \in 0 .. Len(chain) :
        at[k] = IF k = 0 THEN <<>> ELSE Switched(at[k - 1], chain[k].id)
  BY <1>1 DEF IsLevels
<1>4. at[0] = <<>> /\ \A k \in 1 .. Len(chain) : at[k] = Switched(at[k - 1], chain[k].id)
  BY <1>3
<1>5. QED
  BY <1>2, <1>4

LEMMA FirstRelayIs ==
  ASSUME NEW at
  PROVE  FirstRelay(at) \in {NoIface} \cup ToSet(Known)
<1> DEFINE I == {k \in 1 .. Len(Known) : Known[k] # <<>> /\ Front(Known[k]) = at}
           k == SelectInSeq(Known, LAMBDA s : s # <<>> /\ Front(s) = at)
<1>1. DOMAIN Known = 1 .. Len(Known)
  BY ConfigAssumption
<1>2. k = IF I # {} THEN Min(I) ELSE 0
  BY DEF SelectInSeq
<1>3. FirstRelay(at) = IF k = 0 THEN NoIface ELSE Known[k]
  BY DEF FirstRelay
<1>4. I \in SUBSET Nat /\ I \subseteq DOMAIN Known
  BY <1>1
<1> HIDE DEF I, k
<1>5. k # 0 => k \in DOMAIN Known
  BY <1>2, <1>4, LeastInSet
<1>6. QED
  BY <1>3, <1>5 DEF ToSet

(* It is none, the server's own interface, or one of server.conf.               *)
LEMMA IfaceAtIs ==
  ASSUME NEW chain, Len(chain) \in Nat
  PROVE  IfaceAt(chain) \in {NoIface, <<>>} \cup ToSet(Known)
<1> DEFINE Known0 == {NoIface, <<>>} \cup ToSet(Known)
<1>1. PICK at : /\ IfaceAt(chain) = at[Len(chain)] /\ at[0] = <<>>
                /\ \A k \in 1 .. Len(chain) : at[k] = Switched(at[k - 1], chain[k].id)
  BY LevelsOf
<1>2. CASE Len(chain) = 0
  BY <1>1, <1>2
<1>3. CASE Len(chain) # 0
  <2>1. IfaceAt(chain) = Switched(at[Len(chain) - 1], chain[Len(chain)].id)
    BY <1>1, <1>3
  <2>2. QED
    BY <2>1, FirstRelayIs DEF Switched
<1>4. QED
  BY <1>2, <1>3

-----------------------------------------------------------------------------
(* Types.  A message goes to where somebody listens, and an answer is kept with  *)
(* the relay it goes back to.                                                *)

IsAt(at) == at = NoIface \/ at \in ToSet(Known) \cup {<<>>}
TypedPacket(p) ==
  /\ p.type \in {"CLNT", "FORW", "REPL", "ANSW"} /\ p.link \in Links
  /\ p.chain \in Seq(Layers) /\ IsAt(p.at)
  /\ p.type = "CLNT" => p.from = AddrOf[p.clnt]
  /\ p.type \in {"CLNT", "FORW"} =>
       p.to \in Relays \cup {Server} /\ (p.to \in Relays => Heard([node |-> p.to, link |-> p.link]))
  /\ p.type = "REPL" => p.to \in Relays
  /\ p.type = "ANSW" => p.to \in Clients
TypedAnswer(a) ==
  a.chain \in Seq(Layers) /\ (a.chain # <<>> => a.from \in Relays) /\ IsAt(a.at)
TypeInv ==
  /\ \A p \in net : TypedPacket(p)
  /\ \A c \in Clients : TypedAnswer(kept[c])
  /\ heard \in [Clients -> BOOLEAN]
  /\ stopped \in SUBSET (Relays \cup {Server}) /\ losses \in 0 .. MaxLosses

LEMMA NothingTyped == TypedAnswer(NoAnswer)
<1>1. NoAnswer.chain = <<>> /\ NoAnswer.at = NoIface
  BY DEF NoAnswer, NoIface
<1>2. QED
  BY <1>1, EmptySeq DEF TypedAnswer, IsAt

LEMMA WrittenIdType ==
  ASSUME NEW r \in Relays, NEW l, Heard([node |-> r, link |-> l])
  PROVE  WrittenId(r, l) \in Nat \cup {NoId}
<1>1. PICK i \in Ifaces(r) : i.link = l
  BY DEF Heard
<1>2. IfaceOn(r, l) \in Ifaces(r)
  BY <1>1, IfaceFacts
<1>3. Config[r] \in Seq(Interfaces)
  BY ConfigAssumption
<1>4. IfaceOn(r, l) \in Interfaces
  BY <1>2, <1>3 DEF Ifaces, ToSet
<1>5. QED
  BY <1>4 DEF WrittenId, Interfaces

LEMMA SendsToPlaces ==
  ASSUME NEW r \in Relays, NEW d \in SendsTo(r)
  PROVE  d.node \in Relays \cup {Server} /\ d.link \in Links /\ d = [node |-> d.node, link |-> d.link]
<1>1. PICK i \in Ifaces(r) : d \in i.to
  BY DEF SendsTo
<1>2. d \in Places
  BY <1>1, IfaceFacts
<1>3. QED
  BY <1>2 DEF Places

LEMMA AskTyped ==
  ASSUME TypeInv, NEW c \in Clients, Ask(c)
  PROVE  TypeInv'
<1>1. LinkOf[c] \in Links
  BY ConfigAssumption
<1>2. ASSUME NEW n \in Listeners(LinkOf[c])
      PROVE  TypedPacket(Packet("CLNT", c, AddrOf[c], n, LinkOf[c], <<>>, <<NoId>>))
  <2> DEFINE q == Packet("CLNT", c, AddrOf[c], n, LinkOf[c], <<>>, <<NoId>>)
  <2>1. /\ q.type = "CLNT" /\ q.clnt = c /\ q.from = AddrOf[c] /\ q.to = n /\ q.link = LinkOf[c]
        /\ q.chain = <<>> /\ q.at = NoIface
    BY DEF Packet, NoIface
  <2>2. n \in Relays \cup {Server} /\ (n \in Relays => Heard([node |-> n, link |-> LinkOf[c]]))
    BY NamesAssumption DEF Listeners, Hearing, Heard
  <2>3. <<>> \in Seq(Layers)
    OBVIOUS
  <2> HIDE DEF q
  <2>4. TypedPacket(q)
    BY <1>1, <2>1, <2>2, <2>3 DEF TypedPacket, IsAt
  <2>5. QED
    BY <2>4 DEF q
<1>3. \A p \in net' : TypedPacket(p)
  BY <1>2 DEF Ask, TypeInv
<1>4. UNCHANGED <<kept, heard, stopped, losses>>
  BY DEF Ask
<1>5. QED
  BY <1>3, <1>4 DEF TypeInv

LEMMA ForwardTyped ==
  ASSUME SendersReach, IInv, TypeInv, NEW p \in net, Forward(p)
  PROVE  TypeInv'
<1>1. /\ TypedPacket(p) /\ GoodPacket(p) /\ p.type \in {"CLNT", "FORW"} /\ p.to \in Relays
      /\ p.clnt \in Clients
  BY DEF IInv, TypeInv, Forward, AtRelay, GoodPacket
<1>2. Layer(p) \in Layers
  <2>1. HopCount(p) \in Nat
    <3>1. CASE p.type = "CLNT"
      BY <3>1 DEF HopCount
    <3>2. CASE p.type = "FORW"
      <4>1. Nested(p.chain) /\ p.chain # <<>>
        BY <1>1, <3>2 DEF GoodPacket
      <4>2. Head(p.chain).hop = Len(p.chain) - 1 /\ Len(p.chain) \in Nat
        BY <4>1, Peeled, LenType DEF Nested
      <4>3. QED
        BY <3>2, <4>2 DEF HopCount
    <3>3. QED
      BY <1>1, <3>1, <3>2
  <2>2. p.from \in Relays \cup {AddrOf[c] : c \in Clients}
    BY <1>1 DEF TypedPacket, GoodPacket
  <2>3. WrittenId(p.to, p.link) \in Nat \cup {NoId}
    BY <1>1, WrittenIdType DEF TypedPacket
  <2>4. QED
    BY <2>1, <2>2, <2>3 DEF Layer, Layers
<1> DEFINE w == <<Layer(p)>> \o p.chain
<1>3. w \in Seq(Layers)
  BY <1>1, <1>2 DEF TypedPacket
<1> HIDE DEF w
<1>4. ASSUME NEW d \in SendsTo(p.to)
      PROVE  TypedPacket(Packet("FORW", p.clnt, p.to, d.node, d.link, w, <<NoId>>))
  <2> DEFINE q == Packet("FORW", p.clnt, p.to, d.node, d.link, w, <<NoId>>)
  <2>1. q.type = "FORW" /\ q.to = d.node /\ q.link = d.link /\ q.chain = w /\ q.at = NoIface
    BY DEF Packet, NoIface
  <2>2. /\ d.node \in Relays \cup {Server} /\ d.link \in Links
        /\ d = [node |-> d.node, link |-> d.link]
    BY <1>1, SendsToPlaces
  <2>3. d.node \in Relays => Heard(d)
    BY <1>1, NamesAssumption DEF SendersReach
  <2> HIDE DEF q
  <2>4. TypedPacket(q)
    BY <1>3, <2>1, <2>2, <2>3 DEF TypedPacket, IsAt
  <2>5. QED
    BY <2>4 DEF q
<1>5. \A q \in net' : q \in net \/ \E d \in SendsTo(p.to) :
                                     q = Packet("FORW", p.clnt, p.to, d.node, d.link, w, <<NoId>>)
  BY DEF Forward, w
<1>6. \A q \in net' : TypedPacket(q)
  BY <1>4, <1>5 DEF TypeInv
<1>7. UNCHANGED <<kept, heard, stopped, losses>>
  BY DEF Forward
<1>8. QED
  BY <1>6, <1>7 DEF TypeInv

LEMMA BackwardTyped ==
  ASSUME IInv, TypeInv, NEW p \in net, Backward(p)
  PROVE  TypeInv'
<1>1. TypedPacket(p) /\ GoodPacket(p) /\ p.type = "REPL" /\ p.chain # <<>> /\ p.clnt \in Clients
  BY DEF IInv, TypeInv, Backward, AtRelay, GoodPacket
<1> DEFINE t == Tail(p.chain)
<1>2. t \in Seq(Layers)
  BY <1>1 DEF TypedPacket
<1> HIDE DEF t
<1>3. ASSUME NEW n \in Recipients(p) PROVE TypedPacket(Unwrapped(p, n))
  <2> DEFINE q == Unwrapped(p, n)
             l == Destination(p)[1].link
  <2>1. /\ q.type = IF n \in Relays THEN "REPL" ELSE "ANSW"
        /\ q.to = n /\ q.link = l /\ q.chain = t /\ q.at = p.at
    BY DEF Unwrapped, Packet, t
  <2>2. n \in Neighbours(p.to, l, Head(p.chain).peer)
    BY DEF Recipients
  <2> HIDE DEF q, l
  <2>3. n \in Relays \/ (n \in Clients /\ LinkOf[n] = l)
    BY <2>2 DEF Neighbours
  <2>4. l \in Links
    <3>1. CASE n \in Relays
      <4>1. [node |-> p.to, link |-> l] \in SendsTo(n)
        BY <2>2, <3>1, NamesAssumption DEF Neighbours
      <4>2. QED
        BY <3>1, <4>1, SendsToPlaces
    <3>2. CASE n \notin Relays
      BY <2>3, <3>2, ConfigAssumption
    <3>3. QED
      BY <3>1, <3>2
  <2>5. TypedPacket(q)
    BY <1>1, <1>2, <2>1, <2>3, <2>4 DEF TypedPacket
  <2>6. QED
    BY <2>5 DEF q
<1>4. \A q \in net' : q \in net \/ \E n \in Recipients(p) : q = Unwrapped(p, n)
  BY DEF Backward
<1>5. \A q \in net' : TypedPacket(q)
  BY <1>3, <1>4 DEF TypeInv
<1>6. UNCHANGED <<kept, heard, stopped, losses>>
  BY DEF Backward
<1>7. QED
  BY <1>5, <1>6 DEF TypeInv

LEMMA EchoTyped ==
  ASSUME NEW chain \in Seq(Layers)
  PROVE  Echoed(chain) \in Seq(Layers)
<1>1. CASE ServerOmits
  <2>1. Len(chain) \in Nat /\ DOMAIN chain = 1 .. Len(chain) /\ \A k \in 1 .. Len(chain) : chain[k] \in Layers
    BY LenProperties, ElementOfSeq
  <2>2. \A k \in 1 .. Len(chain) : [hop |-> chain[k].hop, peer |-> chain[k].peer, id |-> NoId] \in Layers
    BY <2>1 DEF Layers
  <2>3. Echoed(chain) \in [1 .. Len(chain) -> Layers]
    BY <1>1, <2>1, <2>2 DEF Echoed
  <2>4. QED
    BY <2>1, <2>3
<1>2. CASE ~ServerOmits
  BY <1>2 DEF Echoed
<1>3. QED
  BY <1>1, <1>2

LEMMA ServeTyped ==
  ASSUME IInv, TypeInv, NEW p \in net, Serve(p)
  PROVE  TypeInv'
<1>1. TypedPacket(p) /\ GoodPacket(p) /\ p.clnt \in Clients /\ p.to = Server
  BY DEF IInv, TypeInv, Serve, AtServer, GoodPacket
<1>2. p.type \in {"CLNT", "FORW"}
  BY <1>1, NamesAssumption DEF TypedPacket
<1>3. p.chain # <<>> => p.from \in Relays
  BY <1>1, <1>2 DEF GoodPacket
<1>4. TypedAnswer(AnswerOf(p))
  <2>1. Len(p.chain) \in Nat
    BY <1>1 DEF TypedPacket
  <2>2. IsAt(IfaceAt(p.chain))
    BY <2>1, IfaceAtIs DEF IsAt
  <2>3. QED
    BY <1>1, <1>3, <2>2 DEF AnswerOf, TypedAnswer, TypedPacket
<1>5. PICK a : /\ a = IF kept[p.clnt] = NoAnswer THEN AnswerOf(p) ELSE kept[p.clnt]
               /\ kept' = [kept EXCEPT ![p.clnt] = a]
               /\ net' = (net \ {p}) \cup Reply(p.clnt, p.link, a)
  BY DEF Serve
<1>6. TypedAnswer(a)
  BY <1>1, <1>4, <1>5 DEF TypeInv
<1>7. ASSUME NEW q \in Reply(p.clnt, p.link, a) PROVE TypedPacket(q)
  <2>1. CASE a.chain = <<>>
    <3>1. PICK d \in Clients : q = Packet("ANSW", p.clnt, Server, d, p.link, <<>>, a.at)
      BY <2>1 DEF Reply
    <3>2. q.type = "ANSW" /\ q.to = d /\ q.link = p.link /\ q.chain = <<>> /\ q.at = a.at
      BY <3>1 DEF Packet
    <3>3. <<>> \in Seq(Layers)
      OBVIOUS
    <3>4. QED
      BY <1>1, <1>6, <3>2, <3>3 DEF TypedPacket, TypedAnswer
  <2>2. CASE a.chain # <<>>
    <3>1. q = Packet("REPL", p.clnt, Server, a.from, p.link, Echoed(a.chain), a.at)
      BY <2>2 DEF Reply
    <3>2. /\ q.type = "REPL" /\ q.to = a.from /\ q.link = p.link /\ q.chain = Echoed(a.chain)
          /\ q.at = a.at
      BY <3>1 DEF Packet
    <3>3. Echoed(a.chain) \in Seq(Layers)
      BY <1>6, EchoTyped DEF TypedAnswer
    <3>4. QED
      BY <1>1, <1>6, <2>2, <3>2, <3>3 DEF TypedPacket, TypedAnswer
  <2>3. QED
    BY <2>1, <2>2
<1>8. \A q \in net' : TypedPacket(q)
  BY <1>5, <1>7 DEF TypeInv
<1>9. \A c \in Clients : TypedAnswer(kept'[c])
  BY <1>5, <1>6 DEF TypeInv, IInv
<1>10. UNCHANGED <<heard, stopped, losses>>
  BY DEF Serve
<1>11. QED
  BY <1>8, <1>9, <1>10 DEF TypeInv

(* Steps that write no message and keep no answer. *)
LEMMA FewerTyped ==
  ASSUME IInv, TypeInv, net' \subseteq net,
         kept' = kept \/ \E c \in Clients : kept' = [kept EXCEPT ![c] = NoAnswer]
  PROVE  (\A p \in net' : TypedPacket(p)) /\ \A c \in Clients : TypedAnswer(kept'[c])
  BY NothingTyped DEF TypeInv, IInv

LEMMA TypeInit == Init => TypeInv
  BY NothingTyped, FaultAssumption DEF Init, TypeInv

LEMMA TypeNext == SendersReach /\ IInv /\ TypeInv /\ [Next]_vars => TypeInv'
<1> SUFFICES ASSUME SendersReach, IInv, TypeInv, [Next]_vars PROVE TypeInv'
  OBVIOUS
<1>0. /\ heard \in [Clients -> BOOLEAN] /\ stopped \in SUBSET (Relays \cup {Server})
      /\ losses \in 0 .. MaxLosses
  BY DEF TypeInv
<1>1. CASE UNCHANGED vars
  BY <1>0, <1>1, FewerTyped DEF vars, TypeInv
<1>2. ASSUME NEW c \in Clients, Ask(c) \/ AskAnew(c) \/ Expire(c) PROVE TypeInv'
  <2>1. CASE AskAnew(c)
    BY <1>0, <2>1, FewerTyped DEF AskAnew, TypeInv
  <2>2. CASE Expire(c)
    BY <1>0, <2>2, FewerTyped DEF Expire, TypeInv
  <2>3. QED
    BY <1>2, <2>1, <2>2, AskTyped
<1>3. ASSUME NEW p \in net, Deliver(p) \/ Lose(p) PROVE TypeInv'
  <2>1. CASE Hear(p)
    <3>1. heard' \in [Clients -> BOOLEAN]
      <4>1. p.to \in Clients /\ heard' = [heard EXCEPT ![p.to] = @ \/ p.to = p.clnt]
        BY <2>1 DEF Hear, TypeInv, TypedPacket
      <4>2. (heard[p.to] \/ p.to = p.clnt) \in BOOLEAN
        OBVIOUS
      <4>3. QED
        BY <1>0, <4>1, <4>2
    <3>2. net' \subseteq net /\ UNCHANGED <<kept, stopped, losses>>
      BY <2>1 DEF Hear
    <3>3. QED
      BY <1>0, <3>1, <3>2, FewerTyped DEF TypeInv
  <2>2. CASE DieAtLimit(p)
    <3>1. p.to \in Relays
      BY <2>2 DEF DieAtLimit, AtRelay
    <3>2. QED
      BY <1>0, <2>2, <3>1, FewerTyped DEF DieAtLimit, TypeInv
  <2>3. CASE Refuse(p)
    BY <1>0, <2>3, FewerTyped DEF Refuse, TypeInv
  <2>4. CASE Overrun(p)
    BY <1>0, <2>4, FewerTyped DEF Overrun, TypeInv
  <2>5. CASE Lose(p)
    BY <1>0, <2>5, FewerTyped, FaultAssumption DEF Lose, TypeInv
  <2>6. QED
    BY <1>3, <2>1, <2>2, <2>3, <2>4, <2>5, ForwardTyped, BackwardTyped, ServeTyped DEF Deliver
<1>4. ASSUME NEW r \in Mortal, Stop(r) PROVE TypeInv'
  <2>1. r \in Relays \cup {Server}
    BY FaultAssumption
  <2>2. QED
    BY <1>0, <1>4, <2>1, FewerTyped DEF Stop, TypeInv
<1>5. QED
  BY <1>1, <1>2, <1>3, <1>4 DEF Next

(* If whoever is sent to listens there, every message is well formed: what a     *)
(* relay or the server takes out of one (a level, a peer, an interface-id, the  *)
(* place to send on to) is there, and what the server answers for is one of     *)
(* its interfaces, however deep the nesting.                                  *)
THEOREM TypeCorrect ==
  ASSUME SendersReach
  PROVE  Spec => []TypeOK
<1>1. IInv /\ TypeInv => TypeOK
  BY DEF IInv, TypeInv, TypeOK, TypedPacket, GoodPacket, IsAt
<1>2. IInv /\ TypeInv /\ [Next]_vars => (IInv /\ TypeInv)'
  BY NextIInv, TypeNext
<1>3. QED
  BY InitIInv, TypeInit, <1>1, <1>2, PTL DEF Spec

-----------------------------------------------------------------------------
(* A server that does not guess takes a message whose relays all write their     *)
(* interface-ids to the relay interface whose path these ids are, or refuses    *)
(* it: no level is skipped or taken for another, at any depth, so that         *)
(* ServerKnowsLinks is a matter of what server.conf says of each path.         *)
THEOREM IdsTellPath ==
  ASSUME ~ServerGuess, NEW chain \in Seq(Layers),
         \A k \in 1 .. Len(chain) : chain[k].id # NoId
  PROVE  IfaceAt(chain) \in {NoIface, [k \in 1 .. Len(chain) |-> chain[k].id]}
<1>1. Len(chain) \in Nat
  OBVIOUS
<1> DEFINE path(n) == [k \in 1 .. n |-> chain[k].id]
<1>2. PICK at : /\ IfaceAt(chain) = at[Len(chain)] /\ at[0] = <<>>
                /\ \A k \in 1 .. Len(chain) : at[k] = Switched(at[k - 1], chain[k].id)
  BY <1>1, LevelsOf
<1> DEFINE Bad == {n \in 0 .. Len(chain) : at[n] \notin {NoIface, path(n)}}
<1>3. SUFFICES ASSUME Bad # {} PROVE FALSE
  BY <1>1, <1>2, <1>3
<1>4. PICK n \in Bad : \A m \in Bad : n <= m
  <2>1. Bad \in SUBSET Nat
    BY <1>1
  <2> HIDE DEF Bad
  <2>2. QED
    BY <1>3, <2>1, LeastInSet
<1>5. n \in 0 .. Len(chain) /\ at[n] # NoIface /\ at[n] # path(n)
  OBVIOUS
<1>6. n # 0
  <2>1. path(0) = <<>>
    OBVIOUS
  <2>2. QED
    BY <1>2, <1>5, <2>1
<1>7. n \in 1 .. Len(chain) /\ n - 1 \in 0 .. Len(chain) /\ n - 1 \notin Bad
  BY <1>1, <1>4, <1>5, <1>6
<1>8. at[n - 1] \in {NoIface, path(n - 1)}
  BY <1>7
<1>9. at[n] = Switched(at[n - 1], chain[n].id) /\ chain[n].id # NoId
  BY <1>2, <1>7
<1> HIDE DEF Bad, path
<1>10. at[n] = Append(at[n - 1], chain[n].id) /\ at[n - 1] = path(n - 1)
  BY <1>5, <1>8, <1>9 DEF Switched
<1>11. Append(path(n - 1), chain[n].id) = path(n)
  <2>1. \A k \in 1 .. n : chain[k] \in Layers
    BY <1>1, <1>7
  <2>2. path(n - 1) \in [1 .. n - 1 -> Nat \cup {NoId}]
    BY <1>7, <2>1 DEF path, Layers
  <2>3. path(n - 1) \in Seq(Nat \cup {NoId}) /\ Len(path(n - 1)) = n - 1
    BY <1>7, <2>2
  <2>4. chain[n].id \in Nat \cup {NoId} /\ path(n) \in [1 .. n -> Nat \cup {NoId}]
    BY <1>7, <2>1 DEF path, Layers
  <2>5. path(n) \in Seq(Nat \cup {NoId}) /\ Len(path(n)) = n
    BY <1>7, <2>4
  <2> DEFINE s == Append(path(n - 1), chain[n].id)
  <2>6. s \in Seq(Nat \cup {NoId}) /\ Len(s) = n
    BY <1>7, <2>3, <2>4
  <2>7. \A k \in 1 .. n : s[k] = path(n)[k]
    <3> SUFFICES ASSUME NEW k \in 1 .. n PROVE s[k] = path(n)[k]
      OBVIOUS
    <3>1. path(n)[k] = chain[k].id
      BY DEF path
    <3>2. CASE k = n
      BY <1>7, <2>3, <2>4, <3>1, <3>2
    <3>3. CASE k # n
      <4>1. k \in 1 .. n - 1
        BY <1>7, <3>3
      <4>2. path(n - 1)[k] = chain[k].id
        BY <4>1 DEF path
      <4>3. s[k] = path(n - 1)[k]
        BY <2>3, <2>4, <4>1
      <4>4. QED
        BY <3>1, <4>2, <4>3
    <3>4. QED
      BY <3>2, <3>3
  <2> HIDE DEF s
  <2>8. s = path(n)
    BY <2>5, <2>6, <2>7, SeqEqual
  <2>9. QED
    BY <2>8 DEF s
<1>12. QED
  BY <1>5, <1>10, <1>11

-----------------------------------------------------------------------------
(* How often a copy of a message can still be handled: on its way to the server  *)
(* its nesting grows, on its way back it shrinks.                             *)
Rank(p) ==
  IF p.type \in {"CLNT", "FORW"} THEN 2 * HopLimit + 4 - Len(p.chain) ELSE Len(p.chain)
CopiesWearOff ==
  \A p \in net : Deliver(p) => \A q \in net' : q \in net \ {p} \/ Rank(q) < Rank(p)

LEMMA NestedLen ==
  ASSUME NEW chain, Nested(chain)
  PROVE  Len(chain) \in 0 .. HopLimit + 1 /\ (chain # <<>> <=> Len(chain) > 0)
  BY LenType, LimitType DEF Nested

LEMMA RankType ==
  ASSUME NEW p, Nested(p.chain)
  PROVE  Rank(p) \in 0 .. 2 * HopLimit + 4
<1>1. Len(p.chain) \in 0 .. HopLimit + 1 /\ HopLimit \in Nat
  BY NestedLen, LimitType
<1>2. Rank(p) = 2 * HopLimit + 4 - Len(p.chain) \/ Rank(p) = Len(p.chain)
  BY DEF Rank
<1>3. ASSUME NEW n \in 0 .. HopLimit + 1
      PROVE  2 * HopLimit + 4 - n \in 0 .. 2 * HopLimit + 4 /\ n \in 0 .. 2 * HopLimit + 4
  BY <1>1
<1>4. QED
  BY <1>1, <1>2, <1>3

LEMMA RankOrder ==
  ASSUME NEW n \in 0 .. HopLimit + 1
  PROVE  /\ 2 * HopLimit + 4 - (n + 1) < 2 * HopLimit + 4 - n
         /\ \A m \in 0 .. HopLimit + 1 : m < 2 * HopLimit + 4 - n
  BY LimitType

(* Handling a copy of a message, in any network, with loops, guesses and kept    *)
(* answers, writes only messages that can be handled less often than it, and     *)
(* no message more than 2 * HopLimit + 4 times: the traffic a message causes   *)
(* comes to an end, which AskerIsAnswered rests on.                          *)
THEOREM TrafficEnds ==
  Spec => [](\A p \in net : Rank(p) \in 0 .. 2 * HopLimit + 4) /\ [][CopiesWearOff]_vars
<1>1. IInv => \A p \in net : Rank(p) \in 0 .. 2 * HopLimit + 4
  BY RankType DEF IInv, GoodPacket
<1>2. ASSUME IInv, NEW p \in net, Deliver(p), NEW q \in net', q \notin net \ {p}
      PROVE  Rank(q) < Rank(p)
  <2>1. GoodPacket(p) /\ p.clnt \in Clients /\ Nested(kept[p.clnt].chain)
    BY <1>2 DEF IInv, GoodPacket, GoodAnswer
  <2>2. Len(p.chain) \in 0 .. HopLimit + 1
    BY <2>1, NestedLen DEF GoodPacket
  <2>3. CASE Forward(p)
    <3> DEFINE w == <<Layer(p)>> \o p.chain
    <3>1. Len(w) = Len(p.chain) + 1
      <4>1. PICK S : p.chain \in Seq(S)
        BY <2>1 DEF GoodPacket, Nested, IsChain
      <4>2. <<Layer(p)>> \in Seq({Layer(p)}) /\ Len(<<Layer(p)>>) = 1
        OBVIOUS
      <4>3. p.chain \in Seq(S \cup {Layer(p)}) /\ <<Layer(p)>> \in Seq(S \cup {Layer(p)})
        BY <4>1
      <4>4. QED
        BY <4>2, <4>3, ConcatProperties
    <3> HIDE DEF w
    <3>2. q.type = "FORW" /\ q.chain = w
      BY <1>2, <2>3 DEF Forward, Packet, w
    <3>3. p.type \in {"CLNT", "FORW"}
      BY <2>3 DEF Forward, AtRelay
    <3>4. /\ Rank(p) = 2 * HopLimit + 4 - Len(p.chain)
          /\ Rank(q) = 2 * HopLimit + 4 - (Len(p.chain) + 1)
      BY <3>1, <3>2, <3>3 DEF Rank
    <3>5. QED
      BY <2>2, <3>4, RankOrder, Zenon
  <2>4. CASE Backward(p)
    <3>1. p.type = "REPL" /\ p.chain # <<>>
      BY <2>1, <2>4 DEF Backward, AtRelay, GoodPacket
    <3>2. Len(Tail(p.chain)) = Len(p.chain) - 1
      <4>1. PICK S : p.chain \in Seq(S)
        BY <2>1 DEF GoodPacket, Nested, IsChain
      <4>2. QED
        BY <3>1, <4>1, HeadTailProperties
    <3>3. q.type \in {"REPL", "ANSW"} /\ q.chain = Tail(p.chain)
      <4>1. PICK n : q = Unwrapped(p, n)
        BY <1>2, <2>4 DEF Backward
      <4>2. QED
        BY <4>1 DEF Unwrapped, Packet
    <3>4. Rank(p) = Len(p.chain) /\ Rank(q) = Len(p.chain) - 1
      BY <3>1, <3>2, <3>3 DEF Rank
    <3>5. QED
      BY <2>2, <3>4
  <2>5. CASE Serve(p)
    <3>1. PICK a : /\ a = IF kept[p.clnt] = NoAnswer THEN AnswerOf(p) ELSE kept[p.clnt]
                   /\ net' = (net \ {p}) \cup Reply(p.clnt, p.link, a)
      BY <2>5 DEF Serve
    <3>2. Nested(Echoed(a.chain))
      BY <2>1, <3>1, EchoNested DEF GoodPacket, AnswerOf
    <3>3. q.type \in {"REPL", "ANSW"} /\ q.chain \in {<<>>, Echoed(a.chain)}
      BY <1>2, <3>1 DEF Reply, Packet
    <3>4. Len(q.chain) \in 0 .. HopLimit + 1
      BY <3>2, <3>3, EmptyNested, NestedLen
    <3>5. p.type \in {"CLNT", "FORW"}
      BY <2>1, <2>5 DEF Serve, AtServer, GoodPacket
    <3>6. Rank(p) = 2 * HopLimit + 4 - Len(p.chain) /\ Rank(q) = Len(q.chain)
      BY <3>3, <3>5 DEF Rank
    <3>7. QED
      BY <2>2, <3>4, <3>6, RankOrder, Zenon
  <2>6. CASE Hear(p) \/ DieAtLimit(p) \/ Refuse(p) \/ Overrun(p)
    <3>1. q \in net \ {p}
      BY <1>2, <2>6 DEF Hear, DieAtLimit, Refuse, Overrun
    <3>2. QED
      BY <1>2, <3>1
  <2>7. QED
    BY <1>2, <2>3, <2>4, <2>5, <2>6 DEF Deliver
<1>3. IInv /\ [Next]_vars => [CopiesWearOff]_vars
  BY <1>2 DEF CopiesWearOff
<1>4. QED
  BY InitIInv, NextIInv, <1>1, <1>3, PTL DEF Spec
=============================================================================
