------------------------------- MODULE Relay -------------------------------
(***************************************************************************)
(* The way of a client's message through nested relays to the server and of  *)
(* the answer back.  A relay keeps nothing: what it needs for the answer it   *)
(* writes into the RELAY-FORW, and the server returns it in the RELAY-REPL    *)
(* (RelTransMgr, RelIfaceMgr, SrvIfaceMgr, SrvMsg).  The server keeps an       *)
(* answer for a while and sends it the way the first copy of the message       *)
(* came, whichever way a later copy takes.                                    *)
(*                                                                         *)
(* A message that is handled leaves `net', and so do those to a node that has  *)
(* ended; copies come from the ways it may take and from clients that ask      *)
(* again.                                                                    *)
(***************************************************************************)
EXTENDS Naturals, Sequences, FiniteSets, SequencesExt

CONSTANTS
  Clients, Relays, Server,
  Links,
  LinkOf,       \* client -> its link
  AddrOf,       \* client -> its link-local address, unique on its link only
  ServerLink,
  Config,       \* relay -> its interfaces, as relay.conf lists them
  Omits,        \* the relays that leave the interface-id out (interface-id-order omit)
  Guess,        \* the relays in guess-mode
  Known,        \* the relay interfaces of the server, as server.conf lists them
  LinkServed,   \* relay interface of the server -> the link its pool is for
  ServerGuess,
  ServerOmits,  \* the server leaves the interface-ids out of its answers
  NoId,         \* no interface-id, in relay.conf or in a message
  HopLimit,     \* HOP_COUNT_LIMIT
  Mortal,       \* relays that may be stopped
  MaxInFlight,  \* bound: messages under way
  MaxLosses     \* bound: messages lost

(* An interface of a relay: it listens (`hears': "multicast" for clients,     *)
(* "unicast" for relays) and has places it sends to.  A relay interface of    *)
(* the server is the sequence of interface-ids that leads to it.             *)
Places == [node : Relays \cup {Server}, link : Links]
Interfaces ==
  [link : Links, id : Nat \cup {NoId}, hears : SUBSET {"multicast", "unicast"}, to : SUBSET Places]
ASSUME NamesAssumption ==
  Server \notin Relays /\ (Relays \cup {Server}) \cap (Clients \cup {AddrOf[c] : c \in Clients}) = {}
ASSUME HopLimitAssumption == HopLimit \in Nat \ {0}
ASSUME ConfigAssumption ==
  /\ \A r \in Relays : /\ Config[r] \in Seq(Interfaces)
                       /\ \A i \in ToSet(Config[r]) : i.hears # {} => i.id # NoId
  /\ \A c \in Clients : LinkOf[c] \in Links
  /\ Known \in Seq(Seq(Nat))
ASSUME FaultAssumption == Mortal \subseteq Relays \cup {Server} /\ MaxLosses \in Nat

VARIABLES
  net,      \* the messages under way
  kept,     \* the server's answer to each client, while it is kept
  heard,    \* has the client the answer it asks for?
  stopped,  \* relays, or the server, that ended
  losses    \* messages lost so far

vars == <<net, kept, heard, stopped, losses>>

NoAnswer == [from |-> Server, chain |-> <<>>, at |-> <<NoId>>]
Running == (Relays \cup {Server}) \ stopped

(* `chain' is the nesting, the outermost RELAY message first; `at' is the      *)
(* relay interface, hence the pool, the server answered for.                 *)
Packet(t, c, from, to, link, chain, at) ==
  [type |-> t, clnt |-> c, from |-> from, to |-> to, link |-> link, chain |-> chain, at |-> at]

Init ==
  net = {} /\ kept = [c \in Clients |-> NoAnswer] /\ heard = [c \in Clients |-> FALSE]
  /\ stopped = {} /\ losses = 0

-----------------------------------------------------------------------------
(* Interfaces of a relay *)

Ifaces(r) == ToSet(Config[r])
FirstIface(r, wanted) ==
  LET k == SelectInSeq(Config[r], LAMBDA i : i \in wanted) IN
    IF k = 0 THEN <<>> ELSE <<Config[r][k]>>
(* Whatever a relay looks its interfaces up by, it takes the first that fits.   *)
OnLink == [r \in Relays |-> [l \in Links |-> FirstIface(r, {i \in Ifaces(r) : i.link = l})]]
OffLink == [r \in Relays |-> [l \in Links |-> FirstIface(r, {i \in Ifaces(r) : i.link # l})]]
Ids == {i.id : i \in UNION {Ifaces(r) : r \in Relays}}
WithId == [r \in Relays |-> [n \in Ids |-> FirstIface(r, {i \in Ifaces(r) : i.id = n})]]
IfaceOn(r, l) == Head(OnLink[r][l])
Hearing(l, how) == {r \in Relays : \E i \in Ifaces(r) : i.link = l /\ how \in i.hears}
SendsTo(r) == UNION {i.to : i \in Ifaces(r)}

(* Whoever has the address on the link: a client, or a relay that sends there. *)
Neighbours(r, l, peer) ==
  {c \in Clients : LinkOf[c] = l /\ AddrOf[c] = peer}
  \cup {q \in Relays : q = peer /\ [node |-> r, link |-> l] \in SendsTo(q)}

-----------------------------------------------------------------------------
(* Clients: a message to the multicast address of the link, again and again.  *)

Listeners(l) == Hearing(l, "multicast") \cup (IF l = ServerLink THEN {Server} ELSE {})
Ask(c) ==
  LET out == {Packet("CLNT", c, AddrOf[c], n, LinkOf[c], <<>>, <<NoId>>) :
                n \in Listeners(LinkOf[c]) \ stopped} IN
    /\ ~heard[c] /\ Cardinality(net \cup out) <= MaxInFlight
    /\ net' = net \cup out
    /\ UNCHANGED <<kept, heard, stopped, losses>>

Hear(p) ==
  /\ p.type = "ANSW"
  /\ heard' = [heard EXCEPT ![p.to] = @ \/ p.to = p.clnt]
  /\ net' = net \ {p}
  /\ UNCHANGED <<kept, stopped, losses>>

(* A new exchange has a transaction id of its own.                            *)
AskAnew(c) ==
  /\ heard[c] /\ kept[c] = NoAnswer /\ \A p \in net : p.clnt # c
  /\ heard' = [heard EXCEPT ![c] = FALSE]
  /\ UNCHANGED <<net, kept, stopped, losses>>

-----------------------------------------------------------------------------
(* Relays *)

AtRelay(p, types) == p.type \in types /\ p.to \in Relays \ stopped
AtLimit(chain) == chain # <<>> /\ Head(chain).hop >= HopLimit

HopCountDown(p) == \* mutant
  IF p.type = "FORW" THEN Head(p.chain).hop - 1 ELSE 0
NoHopCount(p) == 0  \* mutant: every relay starts anew
HopCount(p) == IF p.type = "FORW" THEN Head(p.chain).hop + 1 ELSE 0
WrittenId(r, l) == IF r \in Omits THEN NoId ELSE IfaceOn(r, l).id
LayerOfSelf(p) == \* mutant: the relay as the peer
  [hop |-> HopCount(p), peer |-> p.to, id |-> WrittenId(p.to, p.link)]
Layer(p) == [hop |-> HopCount(p), peer |-> p.from, id |-> WrittenId(p.to, p.link)]

(* relayMsg(): wrapped and sent to all servers of all interfaces.             *)
Forward(p) ==
  /\ AtRelay(p, {"CLNT", "FORW"}) /\ ~AtLimit(p.chain)
  /\ net' = (net \ {p}) \cup
       {Packet("FORW", p.clnt, p.to, d.node, d.link, <<Layer(p)>> \o p.chain, <<NoId>>) :
          d \in {d \in SendsTo(p.to) : d.node \notin stopped}}
  /\ UNCHANGED <<kept, heard, stopped, losses>>

(* Where the answer goes: the interface with that id; without an id and in    *)
(* guess-mode, the one with the id of the first it did not come from.         *)
Destination(p) ==
  LET id == Head(p.chain).id
      other == OffLink[p.to][p.link] IN
    IF id # NoId THEN WithId[p.to][id]
    ELSE IF p.to \in Guess /\ other # <<>> THEN WithId[p.to][other[1].id]
    ELSE <<>>
Recipients(p) ==
  IF Destination(p) = <<>> THEN {}
  ELSE Neighbours(p.to, Destination(p)[1].link, Head(p.chain).peer)

Unwrapped(p, n) ==
  Packet(IF n \in Relays THEN "REPL" ELSE "ANSW", p.clnt, p.to, n,
         Destination(p)[1].link, Tail(p.chain), p.at)
(* relayMsgRepl(); without a destination the message is dropped.              *)
Backward(p) ==
  /\ AtRelay(p, {"REPL"}) /\ ~AtLimit(Tail(p.chain))
  /\ net' = (net \ {p}) \cup {Unwrapped(p, n) : n \in Recipients(p) \ stopped}
  /\ UNCHANGED <<kept, heard, stopped, losses>>

(* At the hop limit the parser logs "Message dropped" and leaves an object      *)
(* without addresses, which relayMsg() or relayMsgRepl() stores: the relay ends. *)
DieAtLimit(p) ==
  /\ \/ AtRelay(p, {"FORW"}) /\ AtLimit(p.chain)
     \/ AtRelay(p, {"REPL"}) /\ AtLimit(Tail(p.chain))
  /\ stopped' = stopped \cup {p.to}
  /\ net' = {q \in net : q.to # p.to}
  /\ UNCHANGED <<kept, heard, losses>>

-----------------------------------------------------------------------------
(* The server *)

NoIface == <<NoId>>
FirstRelay(at) ==
  LET k == SelectInSeq(Known, LAMBDA s : s # <<>> /\ Front(s) = at) IN
    IF k = 0 THEN NoIface ELSE Known[k]
(* One level of decodeRelayForw(): by interface-id; getRelayByLinkAddr() takes  *)
(* the first relay interface, as guess-mode does.                             *)
Switched(at, id) ==
  IF at = NoIface THEN NoIface
  ELSE IF id # NoId /\ Append(at, id) \in ToSet(Known) THEN Append(at, id)
  ELSE IF id = NoId \/ ServerGuess THEN FirstRelay(at)
  ELSE NoIface
(* All of them, the outermost first: at[k] is the relay interface after k levels. *)
IfaceAt(chain) ==
  LET at[k \in 0 .. Len(chain)] ==
        IF k = 0 THEN <<>> ELSE Switched(at[k - 1], chain[k].id)
  IN  at[Len(chain)]

Fits(chain) == Len(chain) <= HopLimit
AtServer(p) == p.to = Server /\ Server \notin stopped

(* With interface-id-order omit no level gets its id back. *)
Echoed(chain) ==
  IF ServerOmits
  THEN [k \in DOMAIN chain |-> [hop |-> chain[k].hop, peer |-> chain[k].peer, id |-> NoId]]
  ELSE chain

Reply(c, link, a) ==
  IF a.chain = <<>>
  THEN {Packet("ANSW", c, Server, d, link, <<>>, a.at) :
          d \in {d \in Clients : LinkOf[d] = link /\ AddrOf[d] = a.from}}
  ELSE {Packet("REPL", c, Server, r, link, Echoed(a.chain), a.at) : r \in {a.from} \ stopped}

AnswerOfFirst(p) == \* mutant: the interface of the outermost level
  [from |-> p.from, chain |-> p.chain,
   at |-> IF p.chain = <<>> THEN <<>> ELSE Switched(<<>>, Head(p.chain).id)]
AnswerOf(p) == [from |-> p.from, chain |-> p.chain, at |-> IfaceAt(p.chain)]
Serve(p) ==
  /\ AtServer(p) /\ Fits(p.chain) /\ IfaceAt(p.chain) # NoIface
  /\ LET a == IF kept[p.clnt] = NoAnswer THEN AnswerOf(p) ELSE kept[p.clnt] IN
       /\ kept' = [kept EXCEPT ![p.clnt] = a]
       /\ net' = (net \ {p}) \cup Reply(p.clnt, p.link, a)
  /\ UNCHANGED <<heard, stopped, losses>>

Refuse(p) ==
  /\ AtServer(p) /\ Fits(p.chain) /\ IfaceAt(p.chain) = NoIface
  /\ net' = net \ {p}
  /\ UNCHANGED <<kept, heard, stopped, losses>>

(* The tables have HOP_COUNT_LIMIT slots.  A level is written before the number *)
(* of levels is compared, and a relay interface that is guessed is noted in the *)
(* slot after its level: behind the tables the server may end, or go on, with a *)
(* message that fits to its answer and with one that does not to dropping it.   *)
Guessed(chain) ==
  LET at == IfaceAt(Front(chain)) IN
    /\ ServerGuess /\ at # NoIface /\ FirstRelay(at) # NoIface
    /\ Last(chain).id # NoId /\ Append(at, Last(chain).id) \notin ToSet(Known)
WritesBehind(chain) ==
  Len(chain) > HopLimit \/ (Len(chain) = HopLimit /\ Guessed(chain))

Overrun(p) ==
  /\ AtServer(p) /\ WritesBehind(p.chain)
  /\ \/ stopped' = stopped \cup {Server}
     \/ ~Fits(p.chain) /\ stopped' = stopped
  /\ net' = {q \in net \ {p} : q.to \notin stopped'}
  /\ UNCHANGED <<kept, heard, losses>>

ExpireHeard(c) ==  \* mutant: kept until the client has it
  /\ kept[c] # NoAnswer /\ heard[c]
  /\ kept' = [kept EXCEPT ![c] = NoAnswer]
  /\ UNCHANGED <<net, heard, stopped, losses>>
Expire(c) ==
  /\ kept[c] # NoAnswer
  /\ kept' = [kept EXCEPT ![c] = NoAnswer]
  /\ UNCHANGED <<net, heard, stopped, losses>>

-----------------------------------------------------------------------------
(* The network loses messages, and relays may be stopped for good.           *)
Lose(p) ==
  /\ losses < MaxLosses /\ losses' = losses + 1
  /\ net' = net \ {p}
  /\ UNCHANGED <<kept, heard, stopped>>
Stop(r) ==
  /\ r \notin stopped /\ stopped' = stopped \cup {r}
  /\ net' = {q \in net : q.to # r}
  /\ UNCHANGED <<kept, heard, losses>>

Deliver(p) ==
  Hear(p) \/ Forward(p) \/ Backward(p) \/ DieAtLimit(p) \/ Serve(p) \/ Refuse(p) \/ Overrun(p)
Next ==
  \/ \E c \in Clients : Ask(c) \/ AskAnew(c) \/ Expire(c)
  \/ \E p \in net : Deliver(p) \/ Lose(p)
  \/ \E r \in Mortal : Stop(r)

Spec == Init /\ [][Next]_vars

(* What is under way gets on, if it is not lost; clients keep asking, and the   *)
(* server forgets its answers.                                               *)
DeliverSome(c, t, depth) ==
  \E p \in net : p.clnt = c /\ p.type = t /\ Len(p.chain) = depth /\ Deliver(p)
FairSpec ==
  /\ Spec
  /\ \A c \in Clients :
       /\ SF_vars(Ask(c)) /\ WF_vars(Expire(c))
       /\ WF_vars(DeliverSome(c, "CLNT", 0)) /\ WF_vars(DeliverSome(c, "ANSW", 0))
       /\ \A n \in 1 .. HopLimit :
            WF_vars(DeliverSome(c, "FORW", n)) /\ WF_vars(DeliverSome(c, "REPL", n))

-----------------------------------------------------------------------------
(* A network that can be answered.  A way is where the relays a message went    *)
(* through heard it, the last relay first.                                   *)
Heard(d) == \E i \in Ifaces(d.node) : i.link = d.link /\ i.hears # {}
IsWay(c, w) ==
  \A k \in DOMAIN w :
    /\ w[k].node \in Relays /\ Heard(w[k])
    /\ IF k = Len(w) THEN w[k].link = LinkOf[c] ELSE w[k] \in SendsTo(w[k + 1].node)
ChainOf(c, w) ==
  [k \in DOMAIN w |-> [hop |-> Len(w) - k,
                       peer |-> IF k = Len(w) THEN AddrOf[c] ELSE w[k + 1].node,
                       id |-> WrittenId(w[k].node, w[k].link)]]
EndsAtServer(c, w) ==
  IF w = <<>> THEN LinkOf[c] = ServerLink
  ELSE [node |-> Server, link |-> ServerLink] \in SendsTo(w[1].node)

AddressesDiffer ==
  \A c, d \in Clients : LinkOf[c] = LinkOf[d] /\ AddrOf[c] = AddrOf[d] => c = d
(* Who is sent to listens there, and the server is on one link.              *)
SendersReach ==
  \A r \in Relays : \A d \in SendsTo(r) :
    IF d.node = Server THEN d.link = ServerLink ELSE Heard(d)
(* An interface-id is used on one link of a relay; a relay that gets none back *)
(* guesses, and has one link besides those it sends to.                      *)
IdsTellLinks ==
  \A r \in Relays : \A i \in Ifaces(r) :
    i.hears # {} =>
      /\ LET id == IfaceOn(r, i.link).id IN
           id # NoId /\ \A j \in Ifaces(r) : j.id = id => j.link = i.link
      /\ ServerOmits \/ r \in Omits =>
           /\ r \in Guess
           /\ \A d \in SendsTo(r) : /\ i.link # d.link
                                  /\ \A j \in Ifaces(r) : j.link \in {i.link, d.link}
(* The relay interface the server takes a message to has the pool of the link   *)
(* the message is from.                                                      *)
ServerKnowsLinks ==
  \A c \in Clients : \A w \in BoundedSeq([node : Relays, link : Links], HopLimit) :
    LET at == IfaceAt(ChainOf(c, w)) IN
      IsWay(c, w) /\ EndsAtServer(c, w) /\ at # NoIface => LinkServed[at] = LinkOf[c]

Answerable == AddressesDiffer /\ SendersReach /\ IdsTellLinks

-----------------------------------------------------------------------------
Layers == [hop : Nat, peer : Relays \cup {AddrOf[c] : c \in Clients}, id : Nat \cup {NoId}]
(* Every variable has its type. *)
TypeOK ==
  /\ \A p \in net :
       /\ p.type \in {"CLNT", "FORW", "REPL", "ANSW"} /\ p.clnt \in Clients /\ p.link \in Links
       /\ p.to \in Relays \cup Clients \cup {Server} /\ p.chain \in Seq(Layers)
       /\ p.type \in {"FORW", "REPL"} => p.chain # <<>>
       /\ p.at = NoIface \/ p.at \in ToSet(Known) \cup {<<>>}
  /\ DOMAIN kept = Clients /\ heard \in [Clients -> BOOLEAN]
  /\ stopped \in SUBSET (Relays \cup {Server}) /\ losses \in 0 .. MaxLosses

(* The answer of the server reaches no other client than the one that asked,   *)
(* though another one may have the same address on its own link, and it was    *)
(* made for the link the client is on, whichever relays the message went       *)
(* through and whichever of its copies was answered.                          *)
OnlyForAsker ==
  \A p \in net : p.type = "ANSW" => p.to = p.clnt /\ LinkServed[p.at] = LinkOf[p.clnt]

(* An answer goes back the way the message came: each relay it comes to has    *)
(* somebody to hand it to.                                                   *)
EveryReplyGoesOn == \A p \in net : p.type = "REPL" => Recipients(p) # {}

(* Relays that send to each other nest a message no deeper than one more than  *)
(* the limit, and the hop count is the depth: so the copies come to an end.    *)
NestingBounded ==
  \A p \in net : /\ Len(p.chain) <= HopLimit + 1
                 /\ \A k \in DOMAIN p.chain : p.type = "FORW" => p.chain[k].hop = Len(p.chain) - k

(* Whatever is lost, and though a relay on the way of the first copy was       *)
(* stopped, a client that has another way to the server gets its answer.      *)
AskerIsAnswered == \A c \in Clients : ~heard[c] ~> heard[c]
=============================================================================
