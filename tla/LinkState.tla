----------------------------- MODULE LinkState -----------------------------
(***************************************************************************)
(* How the Dibbler client learns on Linux that a network link came back: a   *)
(* thread of its own looks at the interfaces once a second and writes those   *)
(* that came back to a table (lowlevel-linux-link-state.c), which the main    *)
(* loop reads and clears (DHCPClient::run, setIA2Confirm) to have the IAs on  *)
(* them confirmed.  The table and the flag are volatile, so every access of   *)
(* the two threads is a step, in the order of the program.  The mutex is      *)
(* left out: only the thread takes it, and the main loop does not.            *)
(* With one IA on every interface, an IA is named by its interface.  Of its    *)
(* state only what setIA2Confirm() asks for is told apart, and the rest of the *)
(* client may change it whenever it runs.                                    *)
(***************************************************************************)
EXTENDS Naturals, FiniteSets

CONSTANTS
  Ifaces,   \* the interfaces the client is configured for
  NoIface,  \* index 0: the slot is empty
  Slots     \* MAX_LINK_STATE_CHANGES_AT_ONCE

ASSUME IfacesAssumption == IsFiniteSet(Ifaces) /\ NoIface \notin Ifaces
ASSUME SlotsAssumption == Slots \in Nat \ {0} /\ Cardinality(Ifaces) <= Slots

Slot == 0 .. Slots - 1

VARIABLES
  cnt, ifindex,   \* linkstates: its count and its slots
  linkstateChange,\* the flag
  mon,            \* where the thread is in link_state_changed()
  changed, at,    \* its argument and the slot it stores to
  run,            \* where the main loop is
  todo, ia,       \* IAs that setIA2Confirm() has still to look at, and the one it looks at
  i, found,       \* its slot and its result, or the slot that resetLinkstate() clears
  state,          \* of each IA: what TAddrIA::getState() says of it
  owed,           \* history: interfaces that came back since their IA was last found
  excused         \* history: of those, the ones whose report met a full table or the main loop at it

table == <<cnt, ifindex>>
thread == <<mon, changed, at>>
main == <<run, todo, ia, i, found, state>>
vars == <<cnt, ifindex, linkstateChange, mon, changed, at,
          run, todo, ia, i, found, state, owed, excused>>

AtTable == run \in {"scan", "count", "clear", "flag"}
Reporting == mon \in {"test", "load", "store", "slot", "count", "flag"}
Empty == [s \in Slot |-> NoIface]

(* STATE_CONFIGURED or STATE_INPROCESS; STATE_CONFIRMME; any other.           *)
Settled == {"INUSE", "OTHER"}
States == Settled \cup {"CONFIRMME"}

(* initLinkStateChange() writes the configured interfaces to the same table.  *)
Init ==
  /\ cnt = Cardinality(Ifaces)
  /\ ifindex \in [Slot -> Ifaces \cup {NoIface}]
  /\ \A f \in Ifaces : \E s \in Slot : s < cnt /\ ifindex[s] = f
  /\ \A s \in Slot : s >= cnt => ifindex[s] = NoIface
  /\ linkstateChange = FALSE
  /\ mon = "watch" /\ changed \in Ifaces /\ at = 0
  /\ run = "top" /\ todo = {} /\ ia \in Ifaces /\ i = 0 /\ found = FALSE
  /\ state \in [Ifaces -> States] /\ owed = {} /\ excused = {}

-----------------------------------------------------------------------------
(* The thread *)

(* An interface that was down is up again: checkLinkState() reports it.       *)
CameBack(f) ==
  /\ mon = "watch"
  /\ mon' = "test" /\ changed' = f /\ at' = 0
  /\ owed' = owed \cup {f}
  /\ excused' = IF AtTable THEN excused \cup {f} ELSE excused \ {f}
  /\ UNCHANGED <<table, linkstateChange, main>>

InTable(f) == \E s \in Slot : ifindex[s] = f
HasRoomOffByOne == cnt <= Slots \* mutant
HasRoom == cnt < Slots

TestRoomOrReturn == \* mutant
  /\ mon = "test"
  /\ mon' = IF HasRoom THEN "load" ELSE "watch"
  /\ excused' = IF HasRoom \/ InTable(changed) THEN excused ELSE excused \cup {changed}
  /\ UNCHANGED <<table, linkstateChange, changed, at, main, owed>>

(* A full table does not matter when the interface is in it.                 *)
TestRoom ==
  /\ mon = "test"
  /\ mon' = IF HasRoom THEN "load" ELSE "flag"
  /\ excused' = IF HasRoom \/ InTable(changed) THEN excused ELSE excused \cup {changed}
  /\ UNCHANGED <<table, linkstateChange, changed, at, main, owed>>

LoadCount ==
  /\ mon = "load"
  /\ at' = cnt /\ mon' = "store"
  /\ UNCHANGED <<table, linkstateChange, changed, main, owed, excused>>

(* ifindex[cnt++] = ifindex: the two stores come in either order.             *)
StoreCount ==
  /\ mon \in {"store", "count"}
  /\ cnt' = at + 1
  /\ mon' = IF mon = "store" THEN "slot" ELSE "flag"
  /\ UNCHANGED <<ifindex, linkstateChange, changed, at, main, owed, excused>>

StoreSlot ==
  /\ mon \in {"store", "slot"}
  /\ ifindex' = [ifindex EXCEPT ![at] = changed]
  /\ mon' = IF mon = "store" THEN "count" ELSE "flag"
  /\ UNCHANGED <<cnt, linkstateChange, changed, at, main, owed, excused>>

Notify ==
  /\ mon = "flag"
  /\ linkstateChange' = TRUE /\ mon' = "kill"
  /\ UNCHANGED <<table, changed, at, main, owed, excused>>

(* pthread_kill() ends the select() of the main loop, if it is there.         *)
Kill ==
  /\ mon = "kill"
  /\ mon' = "watch"
  /\ run' = IF run = "select" THEN "top" ELSE run
  /\ UNCHANGED <<table, linkstateChange, changed, at, todo, ia, i, found, state, owed, excused>>

Report == TestRoom \/ LoadCount \/ StoreCount \/ StoreSlot \/ Notify \/ Kill

-----------------------------------------------------------------------------
(* The main loop *)

Unflagged ==
  /\ run = "top" /\ ~linkstateChange
  /\ run' = "duties"
  /\ UNCHANGED <<table, linkstateChange, thread, todo, ia, i, found, state, owed, excused>>

(* setIA2Confirm() begins; a report under way may come too late for it.       *)
Flagged ==
  /\ run = "top" /\ linkstateChange
  /\ run' = "scan" /\ ia' \in Ifaces /\ todo' = Ifaces \ {ia'} /\ i' = 0 /\ found' = FALSE
  /\ excused' = IF Reporting THEN excused \cup {changed} ELSE excused
  /\ UNCHANGED <<table, linkstateChange, thread, state, owed>>

LookBeforeLast == \* mutant
  /\ run = "scan" /\ i < Slots
  /\ found' = (found \/ (i < Slots - 1 /\ ifindex[i] = ia))
  /\ i' = i + 1
  /\ UNCHANGED <<table, linkstateChange, thread, run, todo, ia, state, owed, excused>>

Look ==
  /\ run = "scan" /\ i < Slots
  /\ found' = (found \/ ifindex[i] = ia)
  /\ i' = i + 1
  /\ UNCHANGED <<table, linkstateChange, thread, run, todo, ia, state, owed, excused>>

(* An IA that is neither configured nor about to be is passed over, and its     *)
(* report is used up.                                                        *)
MarkFound ==
  IF found
  THEN /\ state' = [state EXCEPT ![ia] = IF @ = "INUSE" THEN "CONFIRMME" ELSE @]
       /\ owed' = owed \ {ia} /\ excused' = excused \ {ia}
  ELSE UNCHANGED <<state, owed, excused>>

NextIA ==
  /\ run = "scan" /\ i = Slots /\ todo # {}
  /\ MarkFound
  /\ ia' \in todo /\ todo' = todo \ {ia'} /\ i' = 0 /\ found' = FALSE
  /\ UNCHANGED <<table, linkstateChange, thread, run>>

LastIA ==
  /\ run = "scan" /\ i = Slots /\ todo = {}
  /\ MarkFound
  /\ run' = "count" /\ i' = 0 /\ found' = FALSE
  /\ UNCHANGED <<table, linkstateChange, thread, todo, ia>>

ResetCount ==
  /\ run = "count"
  /\ cnt' = 0 /\ run' = "clear"
  /\ UNCHANGED <<ifindex, linkstateChange, thread, todo, ia, i, found, state, owed, excused>>

ResetSlot ==
  /\ run = "clear"
  /\ ifindex' = [ifindex EXCEPT ![i] = NoIface]
  /\ i' = IF i + 1 < Slots THEN i + 1 ELSE 0
  /\ run' = IF i + 1 < Slots THEN "clear" ELSE "flag"
  /\ UNCHANGED <<cnt, linkstateChange, thread, todo, ia, found, state, owed, excused>>

ResetFlag ==
  /\ run = "flag"
  /\ linkstateChange' = FALSE /\ run' = "duties"
  /\ UNCHANGED <<table, thread, todo, ia, i, found, state, owed, excused>>

(* checkConfirm() of doDuties() has the marked IAs confirmed, and leaves them    *)
(* in process; the rest of doDuties() may change any.                         *)
DoDuties ==
  /\ run = "duties"
  /\ state' \in [Ifaces -> Settled] /\ run' = "select"
  /\ UNCHANGED <<table, linkstateChange, thread, todo, ia, i, found, owed, excused>>

(* The timeout, or a message, which may change any IA. *)
Wake ==
  /\ run = "select"
  /\ state' \in [Ifaces -> Settled] /\ run' = "top"
  /\ UNCHANGED <<table, linkstateChange, thread, todo, ia, i, found, owed, excused>>

ResetLinkstate == ResetCount \/ ResetSlot \/ ResetFlag
Loop == Unflagged \/ Flagged \/ Look \/ NextIA \/ LastIA \/ ResetLinkstate \/ DoDuties \/ Wake

Next == (\E f \in Ifaces : CameBack(f)) \/ Report \/ Loop

Spec == Init /\ [][Next]_vars /\ WF_vars(Loop) /\ WF_vars(Report)

-----------------------------------------------------------------------------
(* Every variable has its type; in particular, the thread never stores behind *)
(* the table, although the count may change between its test and its use.     *)
TypeOK ==
  /\ cnt \in 0 .. Slots /\ ifindex \in [Slot -> Ifaces \cup {NoIface}]
  /\ linkstateChange \in BOOLEAN
  /\ mon \in {"watch", "test", "load", "store", "slot", "count", "flag", "kill"}
  /\ changed \in Ifaces /\ at \in Slot
  /\ run \in {"top", "scan", "count", "clear", "flag", "duties", "select"}
  /\ todo \subseteq Ifaces /\ ia \in Ifaces
  /\ i \in 0 .. Slots /\ (run \in {"count", "clear"} => i \in Slot) /\ found \in BOOLEAN
  /\ state \in [Ifaces -> States] /\ owed \subseteq Ifaces /\ excused \subseteq Ifaces

(* The report of an interface that came back is lost only if it met a full    *)
(* table or the main loop at work on the table: any other is on its way, or    *)
(* it is in the table with the flag up until the IA is found.                 *)
OnItsWay(f) == Reporting /\ changed = f
ToBeSeen(f) ==
  /\ linkstateChange /\ InTable(f)
  /\ run = "scan" => f \in todo \/ (f = ia /\ (found \/ \E s \in Slot : s >= i /\ ifindex[s] = f))
  /\ run \notin {"count", "clear", "flag"}
LostOnlyInRace == \A f \in owed \ excused : OnItsWay(f) \/ ToBeSeen(f)

(* An IA in use whose report was not lost that way is marked for CONFIRM sooner *)
(* or later, whatever is reported in the meantime, unless it ceases to be in    *)
(* use by itself.                                                            *)
Reported(f) == f \in owed \ excused /\ ~OnItsWay(f)
EventuallyMarked ==
  \A f \in Ifaces : Reported(f) /\ state[f] = "INUSE" ~> state[f] # "INUSE"
=============================================================================
