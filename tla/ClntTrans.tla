------------------------------ MODULE ClntTrans ------------------------------
(***************************************************************************)
(* The client of Dibbler on one interface with the IA_NAs 1 .. N: the        *)
(* transactions (ClntTransMgr), the life of each message (ClntMessages), the *)
(* states of the IAs in the configuration and in the address database        *)
(* (ClntCfgMgr, ClntAddrMgr), the file the database is dumped to, crash,     *)
(* restart, link changes, duplicate address detection and shutdown.          *)
(*                                                                         *)
(* The client is one thread.  Each turn of its main loop goes through        *)
(* pc = "msgs" (the messages that are due, in the order of the list),        *)
(* "expire", "confirm", "decline", "solicit", "renew" and then waits in      *)
(* "select" for an answer or for time to pass; "dump" follows an answer.     *)
(* Servers are the environment: they answer any answerable message, late,    *)
(* never, and each as it likes.                                              *)
(***************************************************************************)
EXTENDS Integers, Sequences, FiniteSets, FiniteSetsExt, SequencesExt

CONSTANTS
  N,               \* number of IAs in the configuration
  Addrs,           \* addresses a server may put in one IA
  T1, T2, Valid,   \* ticks until RENEW, until REBIND, until the address ends
  MaxRT,           \* retransmission timeouts are 1 .. MaxRT ticks
  ReqMaxRC,        \* REQ_MAX_RC
  DecMaxRC,        \* DEC_MAX_RC
  CnfMaxRD,        \* CNF_MAX_RD, in ticks
  RapidCommit,     \* is rapid-commit configured?
  Partial,         \* may a server treat the IAs of one RENEW differently?
  MaxAdvs,         \* bound on the list of ADVERTISEs
  MaxDeclines,     \* bound on the number of DECLINEs: failed address detections
  MaxLinkChanges,  \* bound on the number of link changes
  MaxCrashes       \* bound on the number of crashes

IAs == 1 .. N
RcCap == Max({ReqMaxRC + 1, DecMaxRC, 2})  \* more transmissions change nothing
MaxMRD == Max({CnfMaxRD, T2, Valid})

CfgStates == {"NOTCONFIGURED", "INPROCESS", "CONFIGURED"}
Types == {"SOLICIT", "REQUEST", "RENEW", "REBIND", "CONFIRM", "DECLINE"}
Messages ==
  [type : Types, ias : SUBSET IAs, sids : 0 .. 2, cid : BOOLEAN,
   rc : 0 .. RcCap, wait : 0 .. MaxRT, mrd : 0 .. MaxMRD]
Bindings ==
  [state : CfgStates \cup {"CONFIRMME"}, addrs : SUBSET Addrs, unk : SUBSET Addrs,
   age : 0 .. T2, left : 0 .. Valid, duid : 0 .. N]
Stored == [stored : BOOLEAN, addrs : SUBSET Addrs, left : 0 .. Valid]

ASSUME ConstantsAssumption ==
  /\ N \in Nat \ {0}
  /\ T1 \in Nat \ {0} /\ T2 \in Nat /\ Valid \in Nat /\ T1 < T2 /\ T2 < Valid
  /\ MaxRT \in Nat \ {0}
  /\ ReqMaxRC \in Nat /\ DecMaxRC \in Nat \ {0} /\ CnfMaxRD \in Nat \ {0}
  /\ RapidCommit \in BOOLEAN /\ Partial \in BOOLEAN
  /\ MaxAdvs \in Nat /\ MaxDeclines \in Nat /\ MaxLinkChanges \in Nat /\ MaxCrashes \in Nat

VARIABLES
  pc,      \* where the client's thread is
  pos,     \* how far the pass over a list has come
  cfg,     \* state of each IA in ClntCfgMgr: does it need a SOLICIT?
  ia,      \* each IA in ClntAddrMgr, with its addresses
  trans,   \* Transactions: the messages under way
  advs,    \* number of ADVERTISEs in AdvertiseLst
  disk,    \* client-AddrMgr.xml
  declines, \* DECLINEs so far
  links,   \* link changes so far
  crashes  \* times the process ended otherwise than by shutdown

bounds == <<declines, links, crashes>>
vars == <<pc, pos, cfg, ia, trans, advs, disk, declines, links, crashes>>

(* state is that of TAddrIA, unk the addresses whose detection is not over,   *)
(* age the ticks since the IA's timestamp, left the ticks its addresses are   *)
(* valid, duid the object that holds its server's DUID, or 0.                 *)
NoLease == [state |-> "NOTCONFIGURED", addrs |-> {}, unk |-> {}, age |-> 0,
            left |-> 0, duid |-> 0]
NotStored == [stored |-> FALSE, addrs |-> {}, left |-> 0]

Leased(i) == ia[i].state = "CONFIGURED" /\ ia[i].addrs # {}
Set(f, S, v) == [i \in IAs |-> IF i \in S THEN v ELSE f[i]]
InState(S, s) == [i \in IAs |-> IF i \in S THEN [ia[i] EXCEPT !.state = s] ELSE ia[i]]
Goto(p) == pc' = p /\ pos' = 1

-----------------------------------------------------------------------------
(* One message: sids and cid are its SERVERID and CLIENTID options, rc, wait  *)
(* and mrd its RC, the ticks until its timeout and its MRD.                   *)

New(t, S, s, c, d) ==
  [type |-> t, ias |-> S, sids |-> s, cid |-> c, rc |-> 0, wait |-> 0, mrd |-> d]

(* MRD 0 is "no limit" and "used up" alike. *)
Capped(m, rt) == IF m.mrd # 0 /\ rt > m.mrd THEN m.mrd ELSE rt
SentForever(m, rt) ==  \* mutant: the MRD does not run down
  [m EXCEPT !.rc = IF @ < RcCap THEN @ + 1 ELSE @, !.wait = Capped(m, rt)]
Sent(m, rt) ==
  [m EXCEPT !.rc = IF @ < RcCap THEN @ + 1 ELSE @,
            !.wait = Capped(m, rt),
            !.mrd = IF @ = 0 THEN 0 ELSE @ - Capped(m, rt)]

(* CONFIRM overrides getTimeout() with 0. *)
Due(m) == m.type = "CONFIRM" \/ m.wait = 0

GivesUp(m) ==
  \/ m.type = "SOLICIT" /\ advs > 0
  \/ m.type = "REQUEST" /\ m.rc > ReqMaxRC
  \/ m.type = "DECLINE" /\ m.rc = DecMaxRC
  \/ m.type \in {"RENEW", "REBIND", "CONFIRM"} /\ m.mrd = 0

Without(k) == RemoveAt(trans, k)
Timeouts == 1 .. MaxRT

SendRequestForgets(k, S, s, cid, c, n) ==  \* mutant: the IAs stay INPROCESS
  IF n = 0
  THEN trans' = Without(k) /\ cfg' = c /\ advs' = 0
  ELSE /\ cfg' = c /\ advs' = n - 1
       /\ \E rt \in Timeouts :
            trans' = Append(Without(k),
                            Sent(New("REQUEST", S, Min({s + 1, 2}), cid, 0), rt))

(* sendRequest(): REQUEST to the server of the first ADVERTISE of a list of n *)
(* instead of message k, with the options of k and one SERVERID more; without *)
(* an ADVERTISE the IAs fall back to NOTCONFIGURED in the configuration c.    *)
SendRequest(k, S, s, cid, c, n) ==
  IF n = 0
  THEN /\ trans' = Without(k) /\ cfg' = Set(c, S, "NOTCONFIGURED") /\ advs' = 0
  ELSE /\ cfg' = c /\ advs' = n - 1
       /\ \E rt \in Timeouts :
            trans' = Append(Without(k),
                            Sent(New("REQUEST", S, Min({s + 1, 2}), cid, 0), rt))

(* An exchange starts. *)
Start(m) == \E rt \in Timeouts : trans' = Append(trans, Sent(m, rt))

-----------------------------------------------------------------------------
(* doDuties(): the messages that are due *)

NextDue(k) ==
  /\ pc = "msgs" /\ k \in pos .. Len(trans) /\ Due(trans[k])
  /\ \A j \in pos .. k - 1 : ~Due(trans[j])

Resend(k) ==
  /\ NextDue(k) /\ ~GivesUp(trans[k])
  /\ \E rt \in Timeouts : trans' = [trans EXCEPT ![k] = Sent(@, rt)]
  /\ pos' = k + 1
  /\ UNCHANGED <<pc, cfg, ia, advs, disk, bounds>>

(* SOLICIT timed out with ADVERTISEs, or REQUEST without an answer. *)
TryServer(k) ==
  /\ NextDue(k) /\ GivesUp(trans[k]) /\ trans[k].type \in {"SOLICIT", "REQUEST"}
  /\ SendRequest(k, trans[k].ias, trans[k].sids, trans[k].cid, cfg, advs)
  /\ pos' = k
  /\ UNCHANGED <<pc, ia, disk, bounds>>

TimeLeftOfPref(S) ==  \* mutant: the preferred lifetime, one tick shorter
  Max({0} \cup {ia[i].left - 1 : i \in {j \in S : ia[j].addrs # {}}})
TimeLeft(S) == Max({0} \cup {ia[i].left : i \in {j \in S : ia[j].addrs # {}}})
StartRebind(k) ==
  /\ NextDue(k) /\ GivesUp(trans[k]) /\ trans[k].type = "RENEW"
  /\ \E rt \in Timeouts :
       trans' = Append(Without(k),
                       Sent(New("REBIND", trans[k].ias, 0, TRUE,
                                TimeLeft(trans[k].ias)), rt))
  /\ pos' = k
  /\ UNCHANGED <<pc, cfg, ia, advs, disk, bounds>>

Emptied(S) ==
  [i \in IAs |-> IF i \in S THEN [ia[i] EXCEPT !.addrs = {}, !.unk = {}, !.left = 0,
                                              !.state = "NOTCONFIGURED"] ELSE ia[i]]
ReleaseIAUnmarked(k) ==  \* mutant: the configuration is not told
  /\ NextDue(k) /\ GivesUp(trans[k]) /\ trans[k].type = "REBIND"
  /\ ia' = Emptied(trans[k].ias)
  /\ trans' = Without(k) /\ pos' = k
  /\ UNCHANGED <<pc, cfg, advs, disk, bounds>>
ReleaseIA(k) ==
  /\ NextDue(k) /\ GivesUp(trans[k]) /\ trans[k].type = "REBIND"
  /\ ia' = Emptied(trans[k].ias)
  /\ cfg' = Set(cfg, trans[k].ias, "NOTCONFIGURED")
  /\ trans' = Without(k) /\ pos' = k
  /\ UNCHANGED <<pc, advs, disk, bounds>>

EndDecline(k) ==
  /\ NextDue(k) /\ GivesUp(trans[k]) /\ trans[k].type = "DECLINE"
  /\ trans' = Without(k) /\ pos' = k
  /\ UNCHANGED <<pc, cfg, ia, advs, disk, bounds>>

(* What is left when the process ends. *)
Gone ==
  /\ ia' = [i \in IAs |-> NoLease] /\ cfg' = [i \in IAs |-> "NOTCONFIGURED"]
  /\ trans' = <<>> /\ advs' = 0
Dies ==
  /\ Goto("dead") /\ Gone
  /\ crashes' = IF crashes < MaxCrashes THEN crashes + 1 ELSE crashes

(* addrsAccepted() of a CONFIRM: after its loop it uses the first address of  *)
(* the last IA of the message, a null pointer when that IA has none.  (The    *)
(* order of the IAs in the database is that of the file, so any may be last.) *)
AddrsAccepted(k, p, n) ==
  \E last \in trans[k].ias :
    \/ /\ ia[last].addrs # {}
       /\ ia' = InState(trans[k].ias, "CONFIGURED")
       /\ trans' = Without(k) /\ pc' = p /\ pos' = n
       /\ UNCHANGED <<cfg, advs, crashes>>
    \/ ia[last].addrs = {} /\ Dies

AcceptUnheard(k) ==
  /\ NextDue(k) /\ GivesUp(trans[k]) /\ trans[k].type = "CONFIRM"
  /\ AddrsAccepted(k, pc, k)
  /\ UNCHANGED <<disk, declines, links>>

MessagesDone ==
  /\ pc = "msgs" /\ \A k \in pos .. Len(trans) : ~Due(trans[k])
  /\ Goto("expire")
  /\ UNCHANGED <<cfg, ia, trans, advs, disk, bounds>>

-----------------------------------------------------------------------------
(* doDuties(): the database and the checks *)

DumpedConfigured(db) ==  \* mutant: leases under renewal are left out
  [i \in IAs |-> IF db[i].duid # 0 /\ db[i].state = "CONFIGURED"
                 THEN [stored |-> TRUE, addrs |-> db[i].addrs, left |-> db[i].left]
                 ELSE NotStored]
(* Only IAs that know a server are read back (parseAddrIA). *)
Dumped(db) ==
  [i \in IAs |-> IF db[i].duid # 0
                 THEN [stored |-> TRUE, addrs |-> db[i].addrs, left |-> db[i].left]
                 ELSE NotStored]

ExpiredIdle ==  \* mutant: not while an exchange is under way
  {i \in IAs : ia[i].addrs # {} /\ ia[i].left = 0 /\ ia[i].state = "CONFIGURED"}
Expired == {i \in IAs : ia[i].addrs # {} /\ ia[i].left = 0}
Expire ==
  /\ pc = "expire"
  /\ ia' = Emptied(Expired) /\ disk' = Dumped(ia')
  /\ Goto("confirm")
  /\ UNCHANGED <<cfg, trans, advs, bounds>>

(* All IAs go into the CONFIRM on the first turn of the loop over cfgIAs:     *)
(* only the first of these is marked.                                         *)
CheckConfirm ==
  LET S == {i \in IAs : ia[i].state = "CONFIRMME"} IN
  /\ pc = "confirm"
  /\ IF S = {} THEN UNCHANGED <<cfg, ia, trans>>
     ELSE /\ ia' = InState(S, "INPROCESS")
          /\ cfg' = [cfg EXCEPT ![1] = "INPROCESS"]
          /\ Start(New("CONFIRM", S, 0, TRUE, CnfMaxRD))
  /\ Goto("decline")
  /\ UNCHANGED <<advs, disk, bounds>>

DadEnds(i) == ia[i].unk # {} /\ ia[i].age > 0

(* checkDecline(): the first IA f with a tentative address and further ones   *)
(* of its server, but never the one after it; each loses one address, and     *)
(* DECLINE and REQUEST are sent.                                              *)
Decline(f, S, b) ==
  /\ pc = "decline" /\ declines < MaxDeclines /\ f >= pos
  /\ S \subseteq {i \in IAs : i > f + 1}
  /\ \A i \in S \cup {f} : DadEnds(i) /\ b[i] \in ia[i].unk
  /\ ia' = [i \in IAs |->
              IF i \in S \cup {f}
              THEN [ia[i] EXCEPT !.addrs = @ \ {b[i]}, !.unk = @ \ {b[i]},
                                 !.left = IF ia[i].addrs = {b[i]} THEN 0 ELSE @]
              ELSE ia[i]]
  /\ \E rt, ru \in Timeouts :
       trans' = trans \o <<Sent(New("DECLINE", S \cup {f}, 1, TRUE, 0), rt),
                           Sent(New("REQUEST", S \cup {f}, 1, TRUE, 0), ru)>>
  /\ pos' = f /\ declines' = declines + 1
  /\ UNCHANGED <<pc, cfg, advs, disk, links, crashes>>

(* The other addresses turned out not to be tentative. *)
NoneTentative ==
  /\ pc = "decline"
  /\ ia' = [i \in IAs |-> IF DadEnds(i) THEN [ia[i] EXCEPT !.unk = {}] ELSE ia[i]]
  /\ Goto("solicit")
  /\ UNCHANGED <<cfg, trans, advs, disk, bounds>>

CheckSolicit ==
  LET S == {i \in IAs : cfg[i] = "NOTCONFIGURED"} IN
  /\ pc = "solicit"
  /\ IF S = {} THEN UNCHANGED <<cfg, ia, trans>>
     ELSE /\ ia' = InState(S, "INPROCESS") /\ cfg' = Set(cfg, S, "INPROCESS")
          /\ Start(New("SOLICIT", S, 0, TRUE, 0))
  /\ Goto("renew")
  /\ UNCHANGED <<advs, disk, bounds>>

(* One RENEW per turn: for the first IA that is due and the others that share *)
(* the object with its server's DUID.                                         *)
ToRenewAgain == {i \in IAs : ia[i].age >= T1 /\ ia[i].addrs # {}}  \* mutant: in any state
ToRenew == {i \in IAs : ia[i].age >= T1 /\ ia[i].state = "CONFIGURED" /\ ia[i].unk = {}}
CheckRenew ==
  /\ pc = "renew" /\ ToRenew # {}
  /\ LET first == ia[Min(ToRenew)]
         S == {i \in ToRenew : ia[i].duid = first.duid}
     IN \/ /\ first.duid # 0
           /\ ia' = InState(S, "INPROCESS")
           /\ Start(New("RENEW", S, 1, TRUE, T2 - first.age))
           /\ Goto("select") /\ UNCHANGED <<cfg, advs, crashes>>
        \/ \* storeSelf() of a null DUID
           first.duid = 0 /\ Dies
  /\ UNCHANGED <<disk, declines, links>>

NothingToRenew ==
  /\ pc = "renew" /\ ToRenew = {}
  /\ Goto("select")
  /\ UNCHANGED <<cfg, ia, trans, advs, disk, bounds>>

-----------------------------------------------------------------------------
(* Answers.  A server drops a message whose options are not as it should be   *)
(* (TMsg::check).                                                             *)

Answerable(m) ==
  m.cid /\ m.sids = IF m.type \in {"REQUEST", "RENEW", "DECLINE"} THEN 1 ELSE 0
Answered(k, types) ==
  /\ pc = "select" /\ k \in DOMAIN trans
  /\ Answerable(trans[k]) /\ trans[k].type \in types

Advertise(k) ==
  /\ Answered(k, {"SOLICIT"}) /\ advs < MaxAdvs
  /\ \/ /\ trans[k].rc <= 1  \* wait for more
        /\ advs' = advs + 1 /\ UNCHANGED <<cfg, trans>>
     \/ \* preference 255, or a SOLICIT already sent twice
        SendRequest(k, trans[k].ias, 0, TRUE, cfg, advs + 1)
  /\ Goto("dump")
  /\ UNCHANGED <<ia, disk, bounds>>

(* TClntOptIA_NA::doDuties() for each IA of S, granted the address a[i].  The *)
(* DUID in the message, d, is taken with an address that is new only.         *)
Granted(S, a, d) ==
  [i \in IAs |->
     IF i \in S
     THEN [state |-> "CONFIGURED", addrs |-> ia[i].addrs \cup {a[i]},
           unk |-> IF a[i] \in ia[i].addrs THEN ia[i].unk ELSE ia[i].unk \cup {a[i]},
           age |-> 0, left |-> Valid,
           duid |-> IF a[i] \in ia[i].addrs THEN ia[i].duid ELSE d[i]]
     ELSE ia[i]]
(* The DUID of a REPLY is a new object, that of a RENEW the one IAs share.    *)
NewDUID(S) == LET d == Min((1 .. N) \ {ia[i].duid : i \in IAs \ S}) IN [i \in IAs |-> d]
OldDUID == [i \in IAs |-> ia[i].duid]
(* A server extends the lease it finds. *)
Extends(S, a) == \A i \in S : ia[i].addrs # {} => a[i] \in ia[i].addrs

(* TClntMsg::answer(): REPLY to REQUEST or REBIND, or to SOLICIT with         *)
(* rapid-commit, grants the IAs of S.  The others are asked for again, with   *)
(* the options the REPLY did not have: neither SERVERID nor CLIENTID.         *)
ReplyTypes == {"REQUEST", "REBIND"} \cup IF RapidCommit THEN {"SOLICIT"} ELSE {}
Reply(k, S, a) ==
  /\ Answered(k, ReplyTypes) /\ S \subseteq trans[k].ias
  /\ trans[k].type = "SOLICIT" => S # {}
  /\ trans[k].type = "REBIND" => Extends(S, a)
  /\ ia' = Granted(S, a, NewDUID({i \in S : a[i] \notin ia[i].addrs}))
  /\ IF S = trans[k].ias
     THEN /\ trans' = Without(k) /\ cfg' = Set(cfg, S, "CONFIGURED") /\ UNCHANGED advs
     ELSE SendRequest(k, trans[k].ias \ S, 0, FALSE, Set(cfg, S, "CONFIGURED"), advs)
  /\ Goto("dump")
  /\ UNCHANGED <<disk, bounds>>

(* TClntMsgRenew::answer(): the IAs of S are renewed; the others had another  *)
(* status than NoBinding, or were left out. *)
RenewReply(k, S, a) ==
  /\ Answered(k, {"RENEW"}) /\ S \subseteq trans[k].ias
  /\ S = trans[k].ias \/ Partial
  /\ Extends(S, a)
  /\ ia' = Granted(S, a, OldDUID) /\ cfg' = Set(cfg, S, "CONFIGURED")
  /\ trans' = Without(k)
  /\ Goto("dump")
  /\ UNCHANGED <<advs, disk, bounds>>

(* After those of S an IA had the status NoBinding: all are asked for anew.   *)
RenewNoBinding(k, S, a) ==
  /\ Answered(k, {"RENEW"}) /\ S \subseteq trans[k].ias /\ S # trans[k].ias
  /\ S = {} \/ Partial
  /\ Extends(S, a)
  /\ ia' = Granted(S, a, OldDUID)
  /\ SendRequest(k, trans[k].ias, trans[k].sids, trans[k].cid,
                 Set(cfg, S, "CONFIGURED"), advs)
  /\ Goto("dump")
  /\ UNCHANGED <<disk, bounds>>

ConfirmReply(k) ==
  /\ Answered(k, {"CONFIRM"})
  /\ AddrsAccepted(k, "dump", 1)
  /\ UNCHANGED <<disk, declines, links>>

NotOnLink(k) ==
  /\ Answered(k, {"CONFIRM"})
  /\ ia' = Emptied(trans[k].ias)
  /\ cfg' = Set(cfg, trans[k].ias, "NOTCONFIGURED")
  /\ trans' = Without(k)
  /\ Goto("dump")
  /\ UNCHANGED <<advs, disk, bounds>>

DeclineReply(k) ==
  /\ Answered(k, {"DECLINE"})
  /\ trans' = Without(k)
  /\ Goto("dump")
  /\ UNCHANGED <<cfg, ia, advs, disk, bounds>>

(* The end of relayMsg(). *)
Dump ==
  /\ pc = "dump" /\ disk' = Dumped(ia)
  /\ Goto("msgs")
  /\ UNCHANGED <<cfg, ia, trans, advs, bounds>>

-----------------------------------------------------------------------------
(* Time, link changes, shutdown, crash and restart *)

LessBelow(n) == n - 1  \* mutant: no floor
Less(n) == IF n = 0 THEN 0 ELSE n - 1
DiskAged == disk' = [i \in IAs |-> [disk[i] EXCEPT !.left = Less(@)]]
Tick ==
  /\ pc = "select"
  /\ ia' = [i \in IAs |-> [ia[i] EXCEPT !.left = Less(@),
                                       !.age = IF @ < T2 THEN @ + 1 ELSE @]]
  /\ trans' = [k \in DOMAIN trans |-> [trans[k] EXCEPT !.wait = Less(@)]]
  /\ DiskAged
  /\ Goto("msgs")
  /\ UNCHANGED <<cfg, advs, bounds>>
TickDown ==
  /\ pc \in {"down", "dead"} /\ DiskAged
  /\ UNCHANGED <<pc, pos, cfg, ia, trans, advs, bounds>>

(* setIA2Confirm(), before doDuties() *)
LinkChange ==
  /\ pc = "msgs" /\ pos = 1 /\ links < MaxLinkChanges
  /\ ia' = InState({i \in IAs : ia[i].state \in {"CONFIGURED", "INPROCESS"}}, "CONFIRMME")
  /\ links' = links + 1
  /\ UNCHANGED <<pc, pos, cfg, trans, advs, disk, declines, crashes>>

(* shutdown(): the leases are released, each RELEASE is sent once, and the    *)
(* file keeps no IA.                                                          *)
Shutdown ==
  /\ pc = "msgs" /\ pos = 1
  /\ Gone /\ disk' = [i \in IAs |-> NotStored]
  /\ Goto("down")
  /\ UNCHANGED bounds

Crash ==
  /\ pc \notin {"down", "dead"} /\ crashes < MaxCrashes
  /\ Gone /\ Goto("down") /\ crashes' = crashes + 1
  /\ UNCHANGED <<disk, declines, links>>

(* The IAs that were stored are CONFIRMME, and NOTCONFIGURED when their       *)
(* addresses expired meanwhile (checkDB); their timestamp is now.             *)
Loaded(i) ==
  LET d == disk[i]
      late == d.addrs # {} /\ d.left = 0
      addrs == IF late THEN {} ELSE d.addrs
  IN IF ~d.stored THEN NoLease
     ELSE [state |-> IF late THEN "NOTCONFIGURED" ELSE "CONFIRMME", addrs |-> addrs,
           unk |-> {}, age |-> 0, left |-> d.left, duid |-> i]
Restart ==
  /\ pc \in {"down", "dead"}
  /\ ia' = [i \in IAs |-> Loaded(i)]
  /\ Goto("msgs")
  /\ UNCHANGED <<cfg, trans, advs, disk, bounds>>

-----------------------------------------------------------------------------
Init ==
  /\ pc = "msgs" /\ pos = 1
  /\ cfg = [i \in IAs |-> "NOTCONFIGURED"] /\ ia = [i \in IAs |-> NoLease]
  /\ trans = <<>> /\ advs = 0 /\ disk = [i \in IAs |-> NotStored]
  /\ declines = 0 /\ links = 0 /\ crashes = 0

Duties ==
  \/ \E k \in DOMAIN trans :
       \/ Resend(k) \/ TryServer(k) \/ StartRebind(k) \/ ReleaseIA(k)
       \/ EndDecline(k) \/ AcceptUnheard(k)
  \/ MessagesDone \/ Expire \/ CheckConfirm
  \/ \E f \in IAs, S \in SUBSET IAs, b \in [IAs -> Addrs] : Decline(f, S, b)
  \/ NoneTentative \/ CheckSolicit \/ CheckRenew \/ NothingToRenew \/ Dump

Answer ==
  \E k \in DOMAIN trans :
    \/ Advertise(k) \/ ConfirmReply(k) \/ NotOnLink(k) \/ DeclineReply(k)
    \/ \E S \in SUBSET IAs, a \in [IAs -> Addrs] :
         Reply(k, S, a) \/ RenewReply(k, S, a) \/ RenewNoBinding(k, S, a)

Next == Duties \/ Answer \/ Tick \/ TickDown \/ LinkChange \/ Shutdown \/ Crash \/ Restart
Spec == Init /\ [][Next]_vars

(* The thread goes on, and so does time. *)
FairSpec == Spec /\ WF_vars(Duties) /\ SF_vars(Tick)

-----------------------------------------------------------------------------
TypeOK ==
  /\ pc \in {"msgs", "expire", "confirm", "decline", "solicit", "renew", "select",
             "dump", "down", "dead"}
  /\ pos \in Nat \ {0}
  /\ cfg \in [IAs -> CfgStates]
  /\ ia \in [IAs -> Bindings]
  /\ trans \in Seq(Messages)
  /\ advs \in 0 .. MaxAdvs
  /\ disk \in [IAs -> Stored]
  /\ declines \in 0 .. MaxDeclines
  /\ links \in 0 .. MaxLinkChanges
  /\ crashes \in 0 .. MaxCrashes

Carries(k, i) == i \in trans[k].ias /\ trans[k].type # "DECLINE"

(* No IA is forgotten: whenever the client waits, an IA has its lease or a    *)
(* message under way asks for it.                                             *)
EveryIACared ==
  pc = "select" => \A i \in IAs : Leased(i) \/ \E k \in DOMAIN trans : Carries(k, i)

(* An IA is in at most one exchange (DECLINE aside).                          *)
OneExchange ==
  \A i \in IAs : \A j, k \in DOMAIN trans : Carries(j, i) /\ Carries(k, i) => j = k

(* RENEW ends when REBIND is due and REBIND when the lease ends, not later. *)
ExchangeEndsInTime ==
  \A k \in DOMAIN trans : LET m == trans[k] IN
    /\ m.type = "RENEW" => \A i \in m.ias : m.wait + m.mrd <= T2 - ia[i].age
    /\ m.type = "REBIND" => m.wait + m.mrd <= TimeLeft(m.ias)

(* The client gives an address up only when its time is over. *)
KeptWhileValid ==
  [][\A i \in IAs : ia[i].left > 0 /\ ia'[i].addrs = {} /\ ia[i].addrs # {}
                      => pc' \in {"down", "dead"}]_vars

(* A client that neither crashed nor changed its link asks, again and again,  *)
(* for each IA without a lease with a message that a server would answer.     *)
Asked(i) == \E k \in DOMAIN trans : Carries(k, i) /\ Answerable(trans[k])
Undisturbed == pc # "down" /\ crashes = 0 /\ links = 0
LostIAAskedAgain == \A i \in IAs : []<>(Undisturbed => Leased(i) \/ Asked(i))

(* CONFIRM comes to an end even if nobody answers.                            *)
ConfirmEnds == []<>(\A k \in DOMAIN trans : trans[k].type # "CONFIRM")

(* Comments of sendRequest() and of the constructor: the options they are     *)
(* given hold no SERVERID, so a REQUEST has the one it adds.                  *)
RequestNamesOneServer ==
  \A k \in DOMAIN trans : trans[k].type = "REQUEST" => trans[k].sids = 1

(* Comment of the CONFIRM: when nobody objects until its time is over, the    *)
(* addresses are used: the client goes on.                                    *)
UnheardConfirmAccepted == [][pc = "msgs" => pc' # "dead"]_vars

(* No address is used beyond its valid lifetime. *)
NoExpiredInUse == pc = "select" => \A i \in IAs : ia[i].addrs # {} => ia[i].left > 0

(* Whatever the client waits with, a restart would find. *)
LeaseOnDisk ==
  pc = "select" => \A i \in IAs : ia[i].addrs \subseteq disk[i].addrs
=============================================================================
