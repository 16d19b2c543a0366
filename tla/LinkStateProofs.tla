-------------------------- MODULE LinkStateProofs --------------------------
(***************************************************************************)
(* Proofs about LinkState, for any number of interfaces and slots: every     *)
(* access is inside the table, and a report is lost only in a race.          *)
(***************************************************************************)
EXTENDS LinkState, FiniteSetTheorems, TLAPS

(* The reports that nothing excuses. *)
Due == owed \ excused

(* A slot the thread is not about to overwrite. *)
Stable(s) == s < cnt /\ (mon = "slot" => s # at)
Stored(f, low) == \E s \in Slot : s >= low /\ Stable(s) /\ ifindex[s] = f

(* The main loop is not at the table while a due report is under way. *)
NoRace == Reporting /\ changed \in Due => ~AtTable

(* The thread appends, unless the main loop cleared the table in between: then *)
(* nothing is due.                                                           *)
Appends ==
  /\ mon \in {"store", "count"} => at = cnt \/ Due = {}
  /\ mon = "slot" => cnt = at + 1 \/ Due = {}

(* The report under way is in the table when the thread is about to raise the *)
(* flag.                                                                     *)
AlmostReported ==
  /\ mon = "count" /\ changed \in Due => ifindex[at] = changed
  /\ mon = "flag" /\ changed \in Due => Stored(changed, 0)

(* A due report that is made is in the table with the flag up, and the scan    *)
(* has yet to find it.                                                       *)
Seen(f) ==
  /\ linkstateChange /\ Stored(f, 0)
  /\ run = "scan" => f \in todo \/ (f = ia /\ (found \/ Stored(f, i)))
Made == \A f \in Due : OnItsWay(f) \/ Seen(f)

(* The table is cleared only when nothing in it is due. *)
ClearsSeen == run \in {"count", "clear", "flag"} => Due = {}

IInv == NoRace /\ Appends /\ AlmostReported /\ Made /\ ClearsSeen
-----------------------------------------------------------------------------
(* Arithmetic of the slots. *)
LEMMA SlotFacts == Slots \in Nat /\ Slots > 0 /\ Cardinality(Ifaces) \in 0 .. Slots
  BY SlotsAssumption, IfacesAssumption, FS_CardinalityType

(* The initial states have their types. *)
LEMMA InitType == Init => TypeOK
<1> SUFFICES ASSUME Init PROVE TypeOK
  OBVIOUS
<1>1. cnt \in 0 .. Slots /\ at \in Slot /\ i \in 0 .. Slots
  BY SlotFacts DEF Init, Slot
<1>2. QED
  BY <1>1 DEF Init, TypeOK

(* Every step keeps the types; LoadCount may only run when the count, which    *)
(* the main loop can only lower, is below the size of the table.             *)
RoomToLoad == mon = "load" => cnt < Slots
TypeInv == TypeOK /\ RoomToLoad

LEMMA InitTypeInv == Init => TypeInv
  BY InitType DEF Init, TypeInv, RoomToLoad

LEMMA NextTypeInv == TypeInv /\ [Next]_vars => TypeInv'
<1> USE SlotFacts DEF TypeInv, TypeOK, RoomToLoad, Slot, States, Settled, table, thread, main
<1> SUFFICES ASSUME TypeInv, [Next]_vars PROVE TypeInv'
  OBVIOUS
<1>1. ASSUME NEW f \in Ifaces, CameBack(f) PROVE TypeInv'
  BY <1>1 DEF CameBack
<1>2. CASE TestRoom
  BY <1>2 DEF TestRoom, HasRoom
<1>3. CASE LoadCount
  BY <1>3 DEF LoadCount
<1>4. CASE StoreCount
  BY <1>4 DEF StoreCount
<1>5. CASE StoreSlot
  BY <1>5 DEF StoreSlot
<1>6. CASE Notify
  BY <1>6 DEF Notify
<1>7. CASE Kill
  BY <1>7 DEF Kill
<1>8. CASE Unflagged
  BY <1>8 DEF Unflagged
<1>9. CASE Flagged
  <2>1. (todo \subseteq Ifaces /\ excused \subseteq Ifaces)'
    BY <1>9, Zenon DEF Flagged
  <2>2. (ia \in Ifaces /\ state \in [Ifaces -> States] /\ owed \subseteq Ifaces)'
    BY <1>9 DEF Flagged
  <2>3. (cnt \in 0 .. Slots /\ ifindex \in [Slot -> Ifaces \cup {NoIface}] /\ RoomToLoad)'
    BY <1>9 DEF Flagged
  <2>4. (changed \in Ifaces /\ at \in Slot /\ linkstateChange \in BOOLEAN /\ found \in BOOLEAN)'
    BY <1>9 DEF Flagged
  <2>5. (i \in 0 .. Slots /\ (run \in {"count", "clear"} => i \in Slot))'
    BY <1>9 DEF Flagged
  <2>6. QED
    BY <1>9, <2>1, <2>2, <2>3, <2>4, <2>5 DEF Flagged
<1>10. CASE Look
  BY <1>10 DEF Look
<1>11. CASE NextIA
  <2>1. (todo \subseteq Ifaces /\ excused \subseteq Ifaces)'
    BY <1>11 DEF NextIA, MarkFound
  <2>2. (ia \in Ifaces /\ state \in [Ifaces -> States] /\ owed \subseteq Ifaces)'
    BY <1>11 DEF NextIA, MarkFound
  <2>3. (cnt \in 0 .. Slots /\ ifindex \in [Slot -> Ifaces \cup {NoIface}] /\ RoomToLoad)'
    BY <1>11 DEF NextIA
  <2>4. (changed \in Ifaces /\ at \in Slot /\ linkstateChange \in BOOLEAN /\ found \in BOOLEAN)'
    BY <1>11 DEF NextIA
  <2>5. (i \in 0 .. Slots /\ (run \in {"count", "clear"} => i \in Slot))'
    BY <1>11 DEF NextIA
  <2>6. QED
    BY <1>11, <2>1, <2>2, <2>3, <2>4, <2>5 DEF NextIA
<1>12. CASE LastIA
  <2>1. (todo \subseteq Ifaces /\ excused \subseteq Ifaces)'
    BY <1>12 DEF LastIA, MarkFound
  <2>2. (ia \in Ifaces /\ state \in [Ifaces -> States] /\ owed \subseteq Ifaces)'
    BY <1>12 DEF LastIA, MarkFound
  <2>3. (cnt \in 0 .. Slots /\ ifindex \in [Slot -> Ifaces \cup {NoIface}] /\ RoomToLoad)'
    BY <1>12 DEF LastIA
  <2>4. (changed \in Ifaces /\ at \in Slot /\ linkstateChange \in BOOLEAN /\ found \in BOOLEAN)'
    BY <1>12 DEF LastIA
  <2>5. (i \in 0 .. Slots /\ (run \in {"count", "clear"} => i \in Slot))'
    BY <1>12 DEF LastIA
  <2>6. QED
    BY <1>12, <2>1, <2>2, <2>3, <2>4, <2>5 DEF LastIA
<1>13. CASE ResetCount
  BY <1>13 DEF ResetCount
<1>14. CASE ResetSlot
  BY <1>14 DEF ResetSlot
<1>15. CASE ResetFlag
  BY <1>15 DEF ResetFlag
<1>16. CASE DoDuties
  BY <1>16 DEF DoDuties
<1>17. CASE Wake
  BY <1>17 DEF Wake
<1>18. CASE UNCHANGED vars
  BY <1>18 DEF vars
<1>19. QED
  BY <1>1, <1>2, <1>3, <1>4, <1>5, <1>6, <1>7, <1>8, <1>9, <1>10, <1>11, <1>12, <1>13, <1>14, <1>15, <1>16, <1>17, <1>18 DEF Next, Report, Loop, ResetLinkstate

(* The thread never stores outside of the table, and every variable has its    *)
(* type, for any number of interfaces and slots.                             *)
THEOREM TypeCorrect == Spec => []TypeOK
<1>1. TypeInv => TypeOK
  BY DEF TypeInv
<1>2. QED
  BY <1>1, InitTypeInv, NextTypeInv, PTL DEF Spec
-----------------------------------------------------------------------------
LEMMA NextIInv == TypeInv /\ IInv /\ [Next]_vars => IInv'
<1> SUFFICES ASSUME TypeInv, IInv, [Next]_vars PROVE IInv'
  OBVIOUS
<1> USE SlotFacts DEF TypeInv, TypeOK, IInv, Due, Stable, Stored, Seen, Reporting, AtTable, OnItsWay, Slot, table, thread, main
<1>1. ASSUME NEW g \in Ifaces, CameBack(g) PROVE IInv'
  <2>1. NoRace'
    BY <1>1 DEF CameBack, NoRace
  <2>2. Appends'
    BY <1>1 DEF CameBack, Appends
  <2>3. AlmostReported'
    BY <1>1 DEF CameBack, NoRace, Appends, AlmostReported, Made
  <2>4. Made'
    BY <1>1 DEF CameBack, NoRace, Appends, AlmostReported, Made
  <2>5. ClearsSeen'
    BY <1>1 DEF CameBack, NoRace, Made, ClearsSeen
  <2>6. QED
    BY <2>1, <2>2, <2>3, <2>4, <2>5
<1>2. CASE TestRoom
  <2>1. NoRace'
    BY <1>2 DEF TestRoom, HasRoom, InTable, NoRace
  <2>2. Appends'
    BY <1>2 DEF TestRoom, HasRoom, InTable, Appends
  <2>3. AlmostReported'
    BY <1>2 DEF TestRoom, HasRoom, InTable, NoRace, Appends, AlmostReported, Made
  <2>4. Made'
    BY <1>2 DEF TestRoom, HasRoom, InTable, NoRace, Appends, AlmostReported, Made
  <2>5. ClearsSeen'
    BY <1>2 DEF TestRoom, HasRoom, InTable, NoRace, Made, ClearsSeen
  <2>6. QED
    BY <2>1, <2>2, <2>3, <2>4, <2>5
<1>3. CASE LoadCount
  <2>1. NoRace'
    BY <1>3 DEF LoadCount, NoRace
  <2>2. Appends'
    BY <1>3 DEF LoadCount, Appends
  <2>3. AlmostReported'
    BY <1>3 DEF LoadCount, NoRace, Appends, AlmostReported, Made
  <2>4. Made'
    BY <1>3 DEF LoadCount, NoRace, Appends, AlmostReported, Made
  <2>5. ClearsSeen'
    BY <1>3 DEF LoadCount, NoRace, Made, ClearsSeen
  <2>6. QED
    BY <2>1, <2>2, <2>3, <2>4, <2>5
<1>4. CASE StoreCount
  <2>1. NoRace'
    BY <1>4 DEF StoreCount, NoRace
  <2>2. Appends'
    BY <1>4 DEF StoreCount, Appends
  <2>3. AlmostReported'
    BY <1>4 DEF StoreCount, NoRace, Appends, AlmostReported, Made
  <2>4. Made'
    BY <1>4 DEF StoreCount, NoRace, Appends, AlmostReported, Made
  <2>5. ClearsSeen'
    BY <1>4 DEF StoreCount, NoRace, Made, ClearsSeen
  <2>6. QED
    BY <2>1, <2>2, <2>3, <2>4, <2>5
<1>5. CASE StoreSlot
  <2>1. NoRace'
    BY <1>5 DEF StoreSlot, NoRace
  <2>2. Appends'
    BY <1>5 DEF StoreSlot, Appends
  <2>3. AlmostReported'
    BY <1>5 DEF StoreSlot, NoRace, Appends, AlmostReported, Made
  <2>4. Made'
    BY <1>5 DEF StoreSlot, NoRace, Appends, AlmostReported, Made
  <2>5. ClearsSeen'
    BY <1>5 DEF StoreSlot, NoRace, Made, ClearsSeen
  <2>6. QED
    BY <2>1, <2>2, <2>3, <2>4, <2>5
<1>6. CASE Notify
  <2>1. NoRace'
    BY <1>6 DEF Notify, NoRace
  <2>2. Appends'
    BY <1>6 DEF Notify, Appends
  <2>3. AlmostReported'
    BY <1>6 DEF Notify, NoRace, Appends, AlmostReported, Made
  <2>4. Made'
    BY <1>6 DEF Notify, NoRace, Appends, AlmostReported, Made
  <2>5. ClearsSeen'
    BY <1>6 DEF Notify, NoRace, Made, ClearsSeen
  <2>6. QED
    BY <2>1, <2>2, <2>3, <2>4, <2>5
<1>7. CASE Kill
  <2>1. NoRace'
    BY <1>7 DEF Kill, NoRace
  <2>2. Appends'
    BY <1>7 DEF Kill, Appends
  <2>3. AlmostReported'
    BY <1>7 DEF Kill, NoRace, Appends, AlmostReported, Made
  <2>4. Made'
    BY <1>7 DEF Kill, NoRace, Appends, AlmostReported, Made
  <2>5. ClearsSeen'
    BY <1>7 DEF Kill, NoRace, Made, ClearsSeen
  <2>6. QED
    BY <2>1, <2>2, <2>3, <2>4, <2>5
<1>8. CASE Unflagged
  <2>1. NoRace'
    BY <1>8 DEF Unflagged, NoRace
  <2>2. Appends'
    BY <1>8 DEF Unflagged, Appends
  <2>3. AlmostReported'
    BY <1>8 DEF Unflagged, NoRace, Appends, AlmostReported, Made
  <2>4. Made'
    BY <1>8 DEF Unflagged, NoRace, Appends, AlmostReported, Made
  <2>5. ClearsSeen'
    BY <1>8 DEF Unflagged, NoRace, Made, ClearsSeen
  <2>6. QED
    BY <2>1, <2>2, <2>3, <2>4, <2>5
<1>9. CASE Flagged
  <2>1. NoRace'
    BY <1>9 DEF Flagged, NoRace
  <2>2. Appends'
    BY <1>9 DEF Flagged, Appends
  <2>3. AlmostReported'
    BY <1>9 DEF Flagged, NoRace, Appends, AlmostReported, Made
  <2>4. Made'
    BY <1>9 DEF Flagged, NoRace, Appends, AlmostReported, Made
  <2>5. ClearsSeen'
    BY <1>9 DEF Flagged, NoRace, Made, ClearsSeen
  <2>6. QED
    BY <2>1, <2>2, <2>3, <2>4, <2>5
<1>10. CASE Look
  <2>1. NoRace'
    BY <1>10 DEF Look, NoRace
  <2>2. Appends'
    BY <1>10 DEF Look, Appends
  <2>3. AlmostReported'
    BY <1>10 DEF Look, NoRace, Appends, AlmostReported, Made
  <2>4. Made'
    BY <1>10 DEF Look, NoRace, Appends, AlmostReported, Made
  <2>5. ClearsSeen'
    BY <1>10 DEF Look, NoRace, Made, ClearsSeen
  <2>6. QED
    BY <2>1, <2>2, <2>3, <2>4, <2>5
<1>11. CASE NextIA
  <2>1. NoRace'
    BY <1>11 DEF NextIA, MarkFound, NoRace
  <2>2. Appends'
    BY <1>11 DEF NextIA, MarkFound, Appends
  <2>3. AlmostReported'
    BY <1>11 DEF NextIA, MarkFound, NoRace, Appends, AlmostReported, Made
  <2>4. Made'
    BY <1>11 DEF NextIA, MarkFound, NoRace, Appends, AlmostReported, Made
  <2>5. ClearsSeen'
    BY <1>11 DEF NextIA, MarkFound, NoRace, Made, ClearsSeen
  <2>6. QED
    BY <2>1, <2>2, <2>3, <2>4, <2>5
<1>12. CASE LastIA
  <2>1. NoRace'
    BY <1>12 DEF LastIA, MarkFound, NoRace
  <2>2. Appends'
    BY <1>12 DEF LastIA, MarkFound, Appends
  <2>3. AlmostReported'
    BY <1>12 DEF LastIA, MarkFound, NoRace, Appends, AlmostReported, Made
  <2>4. Made'
    BY <1>12 DEF LastIA, MarkFound, NoRace, Appends, AlmostReported, Made
  <2>5. ClearsSeen'
    BY <1>12 DEF LastIA, MarkFound, NoRace, Made, ClearsSeen
  <2>6. QED
    BY <2>1, <2>2, <2>3, <2>4, <2>5
<1>13. CASE ResetCount
  <2>1. NoRace'
    BY <1>13 DEF ResetCount, NoRace
  <2>2. Appends'
    BY <1>13 DEF ResetCount, Appends, ClearsSeen
  <2>3. AlmostReported'
    BY <1>13 DEF ResetCount, NoRace, Appends, AlmostReported
  <2>4. Made'
    BY <1>13 DEF ResetCount, Made, ClearsSeen
  <2>5. ClearsSeen'
    BY <1>13 DEF ResetCount, NoRace, Made, ClearsSeen
  <2>6. QED
    BY <2>1, <2>2, <2>3, <2>4, <2>5
<1>14. CASE ResetSlot
  <2>1. NoRace'
    BY <1>14 DEF ResetSlot, NoRace
  <2>2. Appends'
    BY <1>14 DEF ResetSlot, Appends
  <2>3. AlmostReported'
    BY <1>14 DEF ResetSlot, NoRace, Appends, AlmostReported
  <2>4. Made'
    BY <1>14 DEF ResetSlot, Made, ClearsSeen
  <2>5. ClearsSeen'
    BY <1>14 DEF ResetSlot, NoRace, Made, ClearsSeen
  <2>6. QED
    BY <2>1, <2>2, <2>3, <2>4, <2>5
<1>15. CASE ResetFlag
  <2>1. NoRace'
    BY <1>15 DEF ResetFlag, NoRace
  <2>2. Appends'
    BY <1>15 DEF ResetFlag, Appends
  <2>3. AlmostReported'
    BY <1>15 DEF ResetFlag, NoRace, Appends, AlmostReported
  <2>4. Made'
    BY <1>15 DEF ResetFlag, Made, ClearsSeen
  <2>5. ClearsSeen'
    BY <1>15 DEF ResetFlag, NoRace, Made, ClearsSeen
  <2>6. QED
    BY <2>1, <2>2, <2>3, <2>4, <2>5
<1>16. CASE DoDuties
  <2>1. NoRace'
    BY <1>16 DEF DoDuties, NoRace
  <2>2. Appends'
    BY <1>16 DEF DoDuties, Appends
  <2>3. AlmostReported'
    BY <1>16 DEF DoDuties, NoRace, Appends, AlmostReported, Made
  <2>4. Made'
    BY <1>16 DEF DoDuties, NoRace, Appends, AlmostReported, Made
  <2>5. ClearsSeen'
    BY <1>16 DEF DoDuties, NoRace, Made, ClearsSeen
  <2>6. QED
    BY <2>1, <2>2, <2>3, <2>4, <2>5
<1>17. CASE Wake
  <2>1. NoRace'
    BY <1>17 DEF Wake, NoRace
  <2>2. Appends'
    BY <1>17 DEF Wake, Appends
  <2>3. AlmostReported'
    BY <1>17 DEF Wake, NoRace, Appends, AlmostReported, Made
  <2>4. Made'
    BY <1>17 DEF Wake, NoRace, Appends, AlmostReported, Made
  <2>5. ClearsSeen'
    BY <1>17 DEF Wake, NoRace, Made, ClearsSeen
  <2>6. QED
    BY <2>1, <2>2, <2>3, <2>4, <2>5
<1>18. CASE UNCHANGED vars
  BY <1>18 DEF vars, NoRace, Appends, AlmostReported, Made, ClearsSeen
<1>19. QED
  BY <1>1, <1>2, <1>3, <1>4, <1>5, <1>6, <1>7, <1>8, <1>9, <1>10, <1>11, <1>12, <1>13, <1>14, <1>15, <1>16, <1>17, <1>18 DEF Next, Report, Loop, ResetLinkstate

LEMMA InitIInv == Init => IInv
  BY DEF Init, IInv, NoRace, Appends, AlmostReported, Made, ClearsSeen, Due, Reporting, AtTable

LEMMA IInvImplies == IInv => LostOnlyInRace
  BY DEF IInv, Made, ClearsSeen, Seen, Stored, LostOnlyInRace, ToBeSeen, InTable, Due

(* The report of an interface that came back is lost only if it met a full    *)
(* table or the main loop at work on it, whatever the order of the accesses of *)
(* the two threads.                                                          *)
THEOREM NothingElseLost == Spec => []LostOnlyInRace
<1>1. Init => TypeInv /\ IInv
  BY InitTypeInv, InitIInv
<1>2. TypeInv /\ IInv /\ [Next]_vars => (TypeInv /\ IInv)'
  BY NextTypeInv, NextIInv
<1>3. QED
  BY <1>1, <1>2, IInvImplies, PTL DEF Spec
=============================================================================
