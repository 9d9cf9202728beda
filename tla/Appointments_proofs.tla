------------------------ MODULE Appointments_proofs ------------------------
(***************************************************************************)
(* Appointments for any number of rows, barbers, days and requests.  The   *)
(* types, the slots, how pairs are born and that a cancel is final hold    *)
(* whatever requests the clients send.  The last part is about the halves  *)
(* and the calendar, for the requests that Orderly describes: outside it,  *)
(* where a reschedule overlaps another request or names a continuation,    *)
(* the code takes them apart.                                              *)
(***************************************************************************)
EXTENDS Appointments, TLAPS

-----------------------------------------------------------------------------
(* The slot grid *)

\* A slot of the calendar lies on one of its days.
LEMMA DateOfSlot == \A s \in Starts : Date(s) \in Days
  BY GridAssumption DEF Starts, Days, Date

\* The slot after a slot of the calendar is in the calendar when midnight is not
\* crossed: what lets plan_booking promise the second half.
LEMMA NextSlot == \A s \in Starts : Date(s + 1) = Date(s) => s + 1 \in Starts
<1> SUFFICES ASSUME NEW s \in Starts, Date(s + 1) = Date(s)
             PROVE  s + 1 \in Starts
  OBVIOUS
<1>1. Date(s + 1) <= NumDays - 1
  BY DateOfSlot, GridAssumption DEF Days
<1>2. s + 1 < (Date(s + 1) + 1) * SlotsPerDay
  BY GridAssumption DEF Starts, Date
<1>3. (Date(s + 1) + 1) * SlotsPerDay <= NumDays * SlotsPerDay
  BY <1>1, DateOfSlot, GridAssumption DEF Days
<1> QED
  BY <1>2, <1>3, GridAssumption, DateOfSlot DEF Starts, Days

-----------------------------------------------------------------------------
(* Types *)

\* What the locals of a worker at statement p are good for: a second half that is
\* in the calendar, and updates of rows that exist.
CallFits(w, p) ==
    /\ p \in {"insert", "insert_cont", "move_row", "move_find", "move_partner"}
         /\ call[w].svc = "CB" => call[w].target + 1 \in Starts
    /\ p \in {"insert_cont", "move_find", "move_partner"} => call[w].svc = "CB"
    /\ p \in {"cancel_row", "patch_row", "move_row"} => View(w)[call[w].id] # NoRow
    /\ p \in {"cancel_partner", "move_partner"} => View(w)[call[w].partner] # NoRow

TypeInv == TypeOK /\ \A w \in Workers : CallFits(w, pc[w])

\* A view holds rows.
LEMMA ViewType ==
  ASSUME TypeOK, NEW w \in Workers
  PROVE  View(w) \in [Ids -> Row \cup {NoRow}]
  BY DEF TypeOK, View

\* A transaction's view of the rows it does not write is the committed table.
LEMMA IdleView ==
  ASSUME TypeOK, NEW w \in Workers, pc[w] = "idle"
  PROVE  View(w) = db
<1>1. dirty[w] = Clean
  BY DEF TypeOK
<1>2. View(w) = [i \in Ids |-> db[i]]
  BY <1>1 DEF View, Clean
<1> QED
  BY <1>2 DEF TypeOK

\* A flush keeps the types, and whatever the next statement needs of the locals.
LEMMA FlushType ==
  ASSUME TypeInv, NEW w \in Workers, pc[w] # "idle",
         NEW i \in Ids, NEW row \in Row, NEW next \in Pc \ {"idle"},
         CallFits(w, next), Flush(w, i, row, next)
  PROVE  TypeInv'
<1>1. dirty' \in [Workers -> [Ids -> Row \cup {NoRow}]]
  <2>1. dirty \in [Workers -> [Ids -> Row \cup {NoRow}]]
    BY DEF TypeInv, TypeOK
  <2>2. [dirty[w] EXCEPT ![i] = row] \in [Ids -> Row \cup {NoRow}]
    BY <2>1
  <2>3. dirty' = dirty \/ dirty' = [dirty EXCEPT ![w] = [dirty[w] EXCEPT ![i] = row]]
    BY DEF Flush
  <2> QED
    BY <2>1, <2>2, <2>3
<1>2. \A u \in Workers : u # w => pc'[u] = pc[u] /\ dirty'[u] = dirty[u]
  BY DEF Flush, TypeInv, TypeOK
<1>3. pc'[w] \in {"failed", next}
  BY DEF Flush, TypeInv, TypeOK
<1>4. TypeOK'
  BY <1>1, <1>2, <1>3 DEF Flush, TypeInv, TypeOK, Pc
<1>5. \A u \in Workers, k \in Ids : View(u)[k] # NoRow => View(u)'[k] # NoRow
  BY ValueAssumption DEF Flush, TypeInv, TypeOK, View
<1>6. ASSUME NEW u \in Workers PROVE CallFits(u, pc[u])'
  <2>1. CASE u # w
    BY <2>1, <1>2, <1>5 DEF TypeInv, TypeOK, CallFits, Flush, Call, Pc
  <2>2. CASE u = w
    BY <2>2, <1>3, <1>5 DEF TypeInv, TypeOK, CallFits, Flush, Call, Pc
  <2> QED
    BY <2>1, <2>2
<1> QED
  BY <1>4, <1>6 DEF TypeInv

\* A step that only moves w on, with new locals, keeps the types.
LEMMA LocalType ==
  ASSUME TypeInv, NEW w \in Workers, NEW next \in Pc \ {"idle"}, NEW c \in Call,
         pc' = [pc EXCEPT ![w] = next], call' = [call EXCEPT ![w] = c],
         UNCHANGED <<db, dirty, now>>, sheet' \subseteq Ids,
         CallFits(w, next)'
  PROVE  TypeInv'
<1>1. \A u \in Workers : u # w => pc'[u] = pc[u] /\ call'[u] = call[u]
  BY DEF TypeInv, TypeOK
<1>2. pc'[w] = next /\ call'[w] = c
  BY DEF TypeInv, TypeOK
<1>3. TypeOK'
  BY <1>1, <1>2 DEF TypeInv, TypeOK
<1>4. ASSUME NEW u \in Workers PROVE CallFits(u, pc[u])'
  BY <1>1, <1>2 DEF TypeInv, CallFits, View
<1> QED
  BY <1>3, <1>4 DEF TypeInv

\* A finished transaction leaves the other transactions' rows where they were.
LEMMA EndType ==
  ASSUME TypeInv, NEW w \in Workers, End(w), db' \in {db, View(w)}
  PROVE  TypeInv'
<1>1. \A u \in Workers : u # w => pc'[u] = pc[u] /\ call'[u] = call[u] /\ dirty'[u] = dirty[u]
  BY DEF TypeInv, TypeOK, End
<1>2. pc'[w] = "idle" /\ call'[w] = NoCall /\ dirty'[w] = Clean
  BY DEF TypeInv, TypeOK, End
<1>3. Clean \in [Ids -> Row \cup {NoRow}] /\ View(w) \in [Ids -> Row \cup {NoRow}]
  BY ViewType DEF TypeInv, Clean
<1>4. TypeOK'
  <2>1. dirty' \in [Workers -> [Ids -> Row \cup {NoRow}]]
    BY <1>3 DEF TypeInv, TypeOK, End
  <2>2. pc' \in [Workers -> Pc] /\ call' \in [Workers -> Call \cup {NoCall}]
    BY DEF TypeInv, TypeOK, End, Pc
  <2> QED
    BY <1>1, <1>2, <1>3, <2>1, <2>2 DEF TypeInv, TypeOK, End
<1>5. \A k \in Ids : db[k] # NoRow => db'[k] # NoRow
  BY DEF View
<1>6. ASSUME NEW u \in Workers PROVE CallFits(u, pc[u])'
  <2>1. CASE u # w
    <3>1. \A k \in Ids : View(u)[k] # NoRow => View(u)'[k] # NoRow
      BY <2>1, <1>1, <1>5 DEF View
    <3>2. pc[u] = "idle" \/ call[u] \in Call
      BY DEF TypeInv, TypeOK
    <3> QED
      BY <2>1, <1>1, <3>1, <3>2 DEF TypeInv, CallFits, Call
  <2>2. CASE u = w
    BY <2>2, <1>2 DEF CallFits
  <2> QED
    BY <2>1, <2>2
<1> QED
  BY <1>4, <1>6 DEF TypeInv

-----------------------------------------------------------------------------
(* One lemma per request *)

\* A planned service fits in the calendar.
LEMMA PlanFits ==
  ASSUME NEW svc, NEW barber, NEW target \in Starts, NEW taken,
         Plannable(svc, barber, target, taken), svc = "CB"
  PROVE  target + 1 \in Starts
  BY NextSlot DEF Plannable, Slots

LEMMA BookPlanType ==
  ASSUME TypeInv, NEW w \in Workers, NEW svc \in Services, NEW barber \in Barbers,
         NEW target \in Starts, NEW i \in Ids, NEW j \in Ids,
         BookPlan(w, svc, barber, target, i, j)
  PROVE  TypeInv'
<1> DEFINE c == [op |-> "book", id |-> i, partner |-> j, barber |-> barber, svc |-> svc,
                 date |-> Date(target), start |-> target, target |-> target,
                 status |-> "pending", cont |-> FALSE]
<1>1. c \in Call
  BY DateOfSlot DEF Call, Status
<1>2. svc = "CB" => target + 1 \in Starts
  BY PlanFits DEF BookPlan
<1>3. call' = [call EXCEPT ![w] = c] /\ pc' = [pc EXCEPT ![w] = "insert"]
      /\ UNCHANGED <<db, dirty, now, sheet>>
  BY DEF BookPlan, Start, Goto
<1>4. call'[w] = c
  BY <1>3 DEF TypeInv, TypeOK
<1>5. CallFits(w, "insert")'
  BY <1>2, <1>4 DEF CallFits
<1> QED
  <2> HIDE DEF c
  <2> QED
    BY <1>1, <1>3, <1>5, LocalType DEF Pc, TypeInv, TypeOK

\* The requests on a stored row start from what they loaded.
LEMMA LoadType ==
  ASSUME TypeInv, NEW w \in Workers, pc[w] = "idle", NEW i \in Ids, db[i] # NoRow,
         NEW op \in {"cancel", "reschedule", "patch"}, NEW target \in Starts,
         NEW status \in Status, NEW next \in {"cancel_row", "patch_row", "move_row"},
         next = "move_row" /\ db[i].svc = "CB" => target + 1 \in Starts,
         Start(w, [op |-> op, id |-> i, partner |-> i, barber |-> db[i].barber,
                   svc |-> db[i].svc, date |-> db[i].date, start |-> db[i].start,
                   target |-> target, status |-> status, cont |-> db[i].cont], next)
  PROVE  TypeInv'
<1> DEFINE c == [op |-> op, id |-> i, partner |-> i, barber |-> db[i].barber,
                 svc |-> db[i].svc, date |-> db[i].date, start |-> db[i].start,
                 target |-> target, status |-> status, cont |-> db[i].cont]
<1>1. c \in Call
  <2>1. db[i] \in Row
    BY DEF TypeInv, TypeOK
  <2> QED
    BY <2>1 DEF Call, Row
<1>2. call' = [call EXCEPT ![w] = c] /\ pc' = [pc EXCEPT ![w] = next]
      /\ UNCHANGED <<db, dirty, now, sheet>>
  BY DEF Start, Goto
<1>3. call'[w] = c
  BY <1>2 DEF TypeInv, TypeOK
<1>4. View(w)'[i] # NoRow
  BY <1>2, IdleView DEF View, TypeInv
<1>5. CallFits(w, next)'
  BY <1>3, <1>4 DEF CallFits
<1> QED
  <2> HIDE DEF c
  <2> QED
    BY <1>1, <1>2, <1>5, LocalType DEF Pc, TypeInv, TypeOK

LEMMA RequestType ==
  ASSUME TypeInv, NEW w \in Workers, Request(w)
  PROVE  TypeInv'
<1>1. ASSUME NEW svc \in Services, NEW barber \in Barbers, NEW target \in Starts,
             NEW i \in Ids, NEW j \in Ids, BookPlan(w, svc, barber, target, i, j)
      PROVE  TypeInv'
  BY <1>1, BookPlanType
<1>2. ASSUME NEW i \in Ids, CancelRead(w, i) PROVE TypeInv'
  <2>1. db[i] \in Row
    BY <1>2 DEF CancelRead, TypeInv, TypeOK
  <2>2. db[i].start \in Starts
    BY <2>1 DEF Row
  <2> QED
    BY <1>2, <2>2, LoadType DEF CancelRead, Start, Status
<1>3. ASSUME NEW i \in Ids, NEW target \in Starts, RescheduleRead(w, i, target)
      PROVE  TypeInv'
  <2>1. db[i] \in Row
    BY <1>3 DEF RescheduleRead, TypeInv, TypeOK
  <2>2. db[i].status \in Status
    BY <2>1 DEF Row
  <2>3. db[i].svc = "CB" => target + 1 \in Starts
    BY <1>3, NextSlot DEF RescheduleRead, Plannable, Slots
  <2> QED
    BY <1>3, <2>2, <2>3, LoadType DEF RescheduleRead, Start
<1>4. ASSUME NEW i \in Ids, NEW status \in Status, PatchRead(w, i, status)
      PROVE  TypeInv'
  <2>1. db[i] \in Row
    BY <1>4 DEF PatchRead, TypeInv, TypeOK
  <2>2. db[i].start \in Starts
    BY <2>1 DEF Row
  <2> QED
    BY <1>4, <2>2, LoadType DEF PatchRead, Start
<1> QED
  BY <1>1, <1>2, <1>3, <1>4 DEF Request

\* A worker that is not idle has locals.
LEMMA Busy ==
  ASSUME TypeInv, NEW w \in Workers, pc[w] # "idle"
  PROVE  call[w] \in Call
  BY DEF TypeInv, TypeOK

\* The rows a request builds are rows.
LEMMA RowTypes ==
  ASSUME TypeInv, NEW w \in Workers, call[w] \in Call
  PROVE  /\ \A s \in Starts, cont \in BOOLEAN : NewRow(call[w], s, cont) \in Row
         /\ \A i \in Ids : View(w)[i] # NoRow => WithStatus(w, i) \in Row
         /\ \A i \in Ids, offset \in {0, 1} :
               View(w)[i] # NoRow /\ call[w].target + offset \in Starts
                 => Moved(w, i, offset) \in Row
<1>1. \A s \in Starts, cont \in BOOLEAN : NewRow(call[w], s, cont) \in Row
  BY DEF NewRow, Row, Call, Status
<1>2. ASSUME NEW i \in Ids, View(w)[i] # NoRow PROVE WithStatus(w, i) \in Row
  <2>1. View(w)[i] \in Row
    BY <1>2, ViewType DEF TypeInv
  <2> QED
    BY <2>1 DEF WithStatus, Row, Call
<1>3. ASSUME NEW i \in Ids, NEW offset \in {0, 1}, View(w)[i] # NoRow,
             call[w].target + offset \in Starts
      PROVE  Moved(w, i, offset) \in Row
  <2>1. View(w)[i] \in Row
    BY <1>3, ViewType DEF TypeInv
  <2>2. Date(call[w].target) \in Days
    BY DateOfSlot DEF Call
  <2>3. Dated(View(w)[i], call[w]) \in Row
    BY <2>1, <2>2 DEF Dated, Row
  <2> QED
    BY <1>3, <2>3 DEF Moved, Row
<1> QED
  BY <1>1, <1>2, <1>3

\* Looking for the other half.
LEMMA FindType ==
  ASSUME TypeInv, NEW w \in Workers, pc[w] # "idle",
         NEW found \in SUBSET Ids, \A i \in found : View(w)[i] # NoRow,
         NEW next \in {"cancel_partner", "move_partner"},
         next = "move_partner" => pc[w] = "move_find",
         WithPartner(w, found, next)
  PROVE  TypeInv'
<1>1. CASE UNCHANGED call /\ Goto(w, "commit")
  <2>1. call' = [call EXCEPT ![w] = call[w]] /\ CallFits(w, "commit")'
    BY <1>1 DEF TypeInv, TypeOK, CallFits
  <2> QED
    BY <1>1, <2>1, Busy, LocalType DEF Goto, Pc, TypeInv, TypeOK
<1>2. ASSUME NEW i \in found, call' = [call EXCEPT ![w].partner = i], Goto(w, next)
      PROVE  TypeInv'
  <2> DEFINE c == [call[w] EXCEPT !.partner = i]
  <2>1. c \in Call
    BY Busy DEF Call
  <2>2. call' = [call EXCEPT ![w] = c]
    BY <1>2
  <2>3. call'[w] = c
    BY <2>2 DEF TypeInv, TypeOK
  <2>4. View(w)'[i] # NoRow
    BY <1>2 DEF Goto, View
  <2>5. c.partner = i /\ c.svc = call[w].svc /\ c.target = call[w].target
    BY Busy DEF Call
  <2>6. CallFits(w, next)'
    BY <2>3, <2>4, <2>5 DEF CallFits, TypeInv
  <2> QED
    <3> HIDE DEF c
    <3> QED
      BY <1>2, <2>1, <2>2, <2>6, LocalType DEF Goto, Pc, TypeInv, TypeOK
<1> QED
  BY <1>1, <1>2 DEF WithPartner

\* Writing a moved row.
LEMMA MoveType ==
  ASSUME TypeInv, NEW w \in Workers, pc[w] \in {"move_row", "move_partner"},
         NEW i \in Ids, View(w)[i] # NoRow, NEW offset \in {0, 1},
         call[w].target + offset \in Starts,
         NEW next \in {"move_find", "commit"}, next = "move_find" => pc[w] = "move_row",
         next = "move_find" => call[w].svc = "CB",
         MoveWrite(w, i, offset, next)
  PROVE  TypeInv'
<1>1. CallFits(w, next)
  BY DEF CallFits, TypeInv
<1>2. CASE UNCHANGED call /\ Goto(w, next)
  <2>1. call' = [call EXCEPT ![w] = call[w]] /\ CallFits(w, next)'
    BY <1>1, <1>2 DEF TypeInv, TypeOK, CallFits, Goto, View
  <2> QED
    BY <1>2, <2>1, Busy, LocalType DEF Goto, Pc, TypeInv, TypeOK
<1>3. CASE Flush(w, i, Moved(w, i, offset), next)
  <2>1. Moved(w, i, offset) \in Row
    BY RowTypes, Busy
  <2> QED
    BY <1>1, <1>3, <2>1, FlushType DEF Pc
<1> QED
  BY <1>2, <1>3 DEF MoveWrite

LEMMA StepType ==
  ASSUME TypeInv, NEW w \in Workers, Step(w)
  PROVE  TypeInv'
<1>1. pc[w] # "idle" /\ call[w] \in Call
  <2>1. pc[w] # "idle"
    BY DEF Step, InsertPrimary, InsertContinuation, SyncToSheets, CancelRow, CancelFind,
           CancelPartner, MoveRow, MoveFind, MovePartner, PatchRow, Commit, Fail
  <2> QED
    BY <2>1, Busy
<1>2. call[w].id \in Ids /\ call[w].partner \in Ids /\ call[w].target \in Starts
  BY <1>1 DEF Call
<1>3. CASE InsertPrimary(w)
  <2>1. CallFits(w, IF call[w].svc = "CB" THEN "insert_cont" ELSE AfterInsert)
    BY <1>3 DEF InsertPrimary, CallFits, AfterInsert, TypeInv
  <2> QED
    BY <1>1, <1>2, <1>3, <2>1, RowTypes, FlushType DEF InsertPrimary, AfterInsert, Pc
<1>4. CASE InsertContinuation(w)
  <2>1. call[w].target + 1 \in Starts
    BY <1>4 DEF InsertContinuation, TypeInv, CallFits
  <2>2. CallFits(w, AfterInsert)
    BY DEF CallFits, AfterInsert
  <2> QED
    BY <1>1, <1>2, <1>4, <2>1, <2>2, RowTypes, FlushType DEF InsertContinuation, AfterInsert, Pc
<1>5. CASE SyncToSheets(w)
  <2>1. call' = [call EXCEPT ![w] = call[w]] /\ CallFits(w, "commit")'
    BY <1>5 DEF SyncToSheets, TypeInv, TypeOK, CallFits
  <2>2. sheet' \subseteq Ids
    BY <1>2, <1>5 DEF SyncToSheets, TypeInv, TypeOK
  <2> QED
    BY <1>1, <1>5, <2>1, <2>2, LocalType DEF SyncToSheets, Pc
<1>6. CASE CancelRow(w) \/ PatchRow(w)
  <2>1. View(w)[call[w].id] # NoRow
    BY <1>6 DEF CancelRow, PatchRow, TypeInv, CallFits
  <2>2. CallFits(w, "cancel_find") /\ CallFits(w, "commit")
    BY DEF CallFits
  <2> QED
    BY <1>1, <1>2, <1>6, <2>1, <2>2, RowTypes, FlushType DEF CancelRow, PatchRow, Pc
<1>7. CASE CancelPartner(w)
  <2>1. View(w)[call[w].partner] # NoRow /\ CallFits(w, "commit")
    BY <1>7 DEF CancelPartner, TypeInv, CallFits
  <2> QED
    BY <1>1, <1>2, <1>7, <2>1, RowTypes, FlushType DEF CancelPartner, Pc
<1>8. CASE CancelFind(w)
  BY <1>1, <1>8, FindType DEF CancelFind, OtherHalf
<1>9. CASE MoveFind(w)
  BY <1>1, <1>9, FindType DEF MoveFind, OtherHalf
<1>10. CASE MoveRow(w)
  <2>1. View(w)[call[w].id] # NoRow
    BY <1>10 DEF MoveRow, TypeInv, CallFits
  <2>2. call[w].target + 0 \in Starts
    BY <1>2 DEF Starts
  <2>3. pc[w] = "move_row"
        /\ MoveWrite(w, call[w].id, 0, IF call[w].svc = "CB" THEN "move_find" ELSE "commit")
    BY <1>10 DEF MoveRow
  <2> QED
    BY <1>2, <2>1, <2>2, <2>3, MoveType
<1>11. CASE MovePartner(w)
  <2>1. View(w)[call[w].partner] # NoRow /\ call[w].target + 1 \in Starts
    BY <1>11 DEF MovePartner, TypeInv, CallFits
  <2> QED
    BY <1>2, <1>11, <2>1, MoveType DEF MovePartner
<1>12. CASE Commit(w) \/ Fail(w)
  BY <1>12, EndType DEF Commit, Fail
<1> QED
  BY <1>3, <1>4, <1>5, <1>6, <1>7, <1>8, <1>9, <1>10, <1>11, <1>12 DEF Step

LEMMA AbortType ==
  ASSUME TypeInv, NEW w \in Workers, DeadlockAbort(w)
  PROVE  TypeInv'
<1>1. pc[w] # "idle"
  BY DEF DeadlockAbort, WaitsFor
<1>2. \A u \in Workers : u # w => pc'[u] = pc[u] /\ dirty'[u] = dirty[u]
  BY DEF DeadlockAbort, TypeInv, TypeOK
<1>3. pc'[w] = "failed" /\ dirty'[w] = Clean
  BY DEF DeadlockAbort, TypeInv, TypeOK
<1>4. Clean \in [Ids -> Row \cup {NoRow}]
  BY DEF Clean
<1>5. TypeOK'
  BY <1>1, <1>2, <1>3, <1>4 DEF DeadlockAbort, TypeInv, TypeOK, Pc
<1>6. ASSUME NEW u \in Workers PROVE CallFits(u, pc[u])'
  <2>1. CASE u = w
    BY <2>1, <1>3 DEF CallFits
  <2>2. CASE u # w
    <3>1. View(u)' = View(u) /\ pc'[u] = pc[u] /\ call'[u] = call[u]
      BY <2>2, <1>2 DEF DeadlockAbort, View
    <3> QED
      BY <3>1 DEF CallFits, TypeInv
  <2> QED
    BY <2>1, <2>2
<1> QED
  BY <1>5, <1>6 DEF TypeInv

\* The inductive invariant behind TypeCorrect: types, and locals fit for their statement.
LEMMA TypeInvariant == Spec => []TypeInv
<1>1. Init => TypeInv
  <2> SUFFICES ASSUME Init PROVE TypeInv
    OBVIOUS
  <2>1. Clean \in [Ids -> Row \cup {NoRow}]
    BY DEF Clean
  <2>2. TypeOK
    BY <2>1, GridAssumption DEF Init, TypeOK, Pc
  <2> QED
    BY <2>2 DEF Init, TypeInv, CallFits
<1>2. TypeInv /\ [Next]_vars => TypeInv'
  <2> SUFFICES ASSUME TypeInv, [Next]_vars PROVE TypeInv'
    OBVIOUS
  <2>1. ASSUME NEW w \in Workers, Request(w) PROVE TypeInv'
    BY <2>1, RequestType
  <2>2. ASSUME NEW w \in Workers, Step(w) PROVE TypeInv'
    BY <2>2, StepType
  <2>3. ASSUME NEW w \in Workers, Crash(w) PROVE TypeInv'
    BY <2>3, EndType DEF Crash
  <2>4. ASSUME NEW w \in Workers, DeadlockAbort(w) PROVE TypeInv'
    BY <2>4, AbortType
  <2>5. CASE Tick
    BY <2>5, GridAssumption DEF Tick, TypeInv, TypeOK, CallFits, View
  <2>6. CASE UNCHANGED vars
    BY <2>6 DEF vars, TypeInv, TypeOK, CallFits, View
  <2> QED
    BY <2>1, <2>2, <2>3, <2>4, <2>5, <2>6 DEF Next
<1> QED
  BY <1>1, <1>2, PTL DEF Spec

\* Every variable of the appointments table and its requests has its type in every
\* reachable state, for any tenant and any number of concurrent requests.
THEOREM TypeCorrect == Spec => []TypeOK
<1>1. TypeInv => TypeOK
  BY DEF TypeInv
<1> QED
  BY <1>1, TypeInvariant, PTL

-----------------------------------------------------------------------------
(* The unique guard *)

\* What a step does to the committed rows and to the uncommitted ones.
Writes(w) == \E i \in Ids, row \in Row, next \in Pc : Flush(w, i, row, next)
Drops(w) == dirty' = [dirty EXCEPT ![w] = Clean] /\ db' \in {db, View(w)}

\* A request that begins touches no row.
LEMMA RequestReads ==
  ASSUME NEW w \in Workers, Request(w)
  PROVE  UNCHANGED <<db, dirty>>
<1>1. ASSUME NEW svc, NEW barber, NEW target, NEW i, NEW j, BookPlan(w, svc, barber, target, i, j)
      PROVE  UNCHANGED <<db, dirty>>
  BY <1>1 DEF BookPlan, Start, Goto
<1>2. ASSUME NEW i, CancelRead(w, i) PROVE UNCHANGED <<db, dirty>>
  BY <1>2 DEF CancelRead, Start, Goto
<1>3. ASSUME NEW i, NEW target, RescheduleRead(w, i, target) PROVE UNCHANGED <<db, dirty>>
  BY <1>3 DEF RescheduleRead, Start, Goto
<1>4. ASSUME NEW i, NEW status, PatchRead(w, i, status) PROVE UNCHANGED <<db, dirty>>
  BY <1>4 DEF PatchRead, Start, Goto
<1> QED
  BY <1>1, <1>2, <1>3, <1>4 DEF Request

LEMMA Effects ==
  ASSUME TypeInv, [Next]_vars
  PROVE  UNCHANGED <<db, dirty>> \/ \E w \in Workers : Writes(w) \/ Drops(w)
<1>1. ASSUME NEW w \in Workers, Request(w) PROVE UNCHANGED <<db, dirty>>
  BY <1>1, RequestReads
<1>2. ASSUME NEW w \in Workers, Step(w)
      PROVE  UNCHANGED <<db, dirty>> \/ Writes(w) \/ Drops(w)
  <2>1. ASSUME pc[w] # "idle"
        PROVE  /\ call[w] \in Call
               /\ call[w].id \in Ids /\ call[w].partner \in Ids /\ call[w].target \in Starts
    BY <2>1, Busy DEF Call
  <2>2. CASE InsertPrimary(w)
    <3>1. pc[w] # "idle"
      BY <2>2 DEF InsertPrimary
    <3> QED
      BY <2>1, <2>2, <3>1, RowTypes DEF InsertPrimary, AfterInsert, Writes, Pc
  <2>3. CASE InsertContinuation(w)
    <3>1. pc[w] # "idle" /\ call[w].target + 1 \in Starts
      BY <2>3 DEF InsertContinuation, TypeInv, CallFits
    <3> QED
      BY <2>1, <2>3, <3>1, RowTypes DEF InsertContinuation, AfterInsert, Writes, Pc
  <2>4. CASE SyncToSheets(w)
    BY <2>4 DEF SyncToSheets
  <2>5. CASE CancelRow(w) \/ PatchRow(w)
    <3>1. pc[w] # "idle" /\ View(w)[call[w].id] # NoRow
      BY <2>5 DEF CancelRow, PatchRow, TypeInv, CallFits
    <3> QED
      BY <2>1, <2>5, <3>1, RowTypes DEF CancelRow, PatchRow, Writes, Pc
  <2>6. CASE CancelPartner(w)
    <3>1. pc[w] # "idle" /\ View(w)[call[w].partner] # NoRow
      BY <2>6 DEF CancelPartner, TypeInv, CallFits
    <3> QED
      BY <2>1, <2>6, <3>1, RowTypes DEF CancelPartner, Writes, Pc
  <2>7. CASE CancelFind(w) \/ MoveFind(w)
    BY <2>7 DEF CancelFind, MoveFind, WithPartner, Goto
  <2>8. CASE MoveRow(w)
    <3>1. pc[w] # "idle" /\ View(w)[call[w].id] # NoRow
      BY <2>8 DEF MoveRow, TypeInv, CallFits
    <3>2. call[w].target + 0 \in Starts
      BY <2>1, <3>1 DEF Starts
    <3>3. Moved(w, call[w].id, 0) \in Row
      BY <2>1, <3>1, <3>2, RowTypes
    <3> QED
      BY <2>1, <2>8, <3>1, <3>3 DEF MoveRow, MoveWrite, Goto, Writes, Pc
  <2>9. CASE MovePartner(w)
    <3>1. pc[w] # "idle" /\ View(w)[call[w].partner] # NoRow /\ call[w].target + 1 \in Starts
      BY <2>9 DEF MovePartner, TypeInv, CallFits
    <3>2. Moved(w, call[w].partner, 1) \in Row
      BY <2>1, <3>1, RowTypes
    <3> QED
      BY <2>1, <2>9, <3>1, <3>2 DEF MovePartner, MoveWrite, Goto, Writes, Pc
  <2>10. CASE Commit(w) \/ Fail(w)
    BY <2>10 DEF Commit, Fail, End, Drops
  <2> QED
    BY <1>2, <2>2, <2>3, <2>4, <2>5, <2>6, <2>7, <2>8, <2>9, <2>10 DEF Step
<1>3. ASSUME NEW w \in Workers, Crash(w) \/ DeadlockAbort(w) PROVE Drops(w)
  BY <1>3 DEF Crash, DeadlockAbort, End, Drops
<1>4. CASE Tick \/ UNCHANGED vars
  BY <1>4 DEF Tick, vars
<1> QED
  BY <1>1, <1>2, <1>3, <1>4 DEF Next

\* Two transactions never write the same row or the same slot at the same time: the
\* row and index-entry waits of the database.
WritesApart ==
    \A u, w \in Workers : u # w =>
        \A i, k \in Ids : dirty[u][i] # NoRow /\ dirty[w][k] # NoRow =>
            i # k /\ Key(dirty[u][i]) # Key(dirty[w][k])

SlotInv == UniqueSlot /\ WritesApart

\* A flush that waited for the other transactions and found its key free keeps them
\* apart; it sees the conflicts with committed rows itself.
LEMMA FlushKeepsSlots ==
  ASSUME TypeInv, SlotInv, NEW w \in Workers, Writes(w)
  PROVE  SlotInv'
<1> PICK i \in Ids, row \in Row, next \in Pc : Flush(w, i, row, next)
  BY DEF Writes
<1>1. CASE UNCHANGED dirty
  BY <1>1 DEF Flush, SlotInv, UniqueSlot, WritesApart, DistinctKeys, View
<1>2. CASE ~KeyTaken(w, i, row) /\ dirty' = [dirty EXCEPT ![w] = [dirty[w] EXCEPT ![i] = row]]
  <2>1. \A u \in Workers : u # w => dirty'[u] = dirty[u]
    BY <1>2 DEF TypeInv, TypeOK
  <2>2. \A k \in Ids : dirty'[w][k] = IF k = i THEN row ELSE dirty[w][k]
    BY <1>2 DEF TypeInv, TypeOK
  <2>3. db' = db
    BY DEF Flush
  <2>4. \A u \in Workers \ {w} : View(u)' = View(u)
    BY <2>1, <2>3 DEF View
  <2>5. row # NoRow
    BY ValueAssumption
  <2>6. \A k \in Ids : View(w)'[k] = IF k = i THEN row ELSE View(w)[k]
    BY <2>2, <2>3, <2>5 DEF View
  <2>7. \A k \in Ids : k # i /\ View(w)[k] # NoRow => Key(View(w)[k]) # Key(row)
    BY <1>2 DEF KeyTaken
  <2>8. DistinctKeys(View(w)')
    BY <2>6, <2>7 DEF DistinctKeys, SlotInv, UniqueSlot
  <2>9. UniqueSlot'
    BY <2>3, <2>4, <2>8 DEF SlotInv, UniqueSlot, DistinctKeys
  <2>10. \A u \in Workers \ {w}, k \in Ids :
           dirty[u][k] # NoRow => k # i /\ Key(dirty[u][k]) # Key(row)
    BY DEF Flush, BlockedBy
  <2>11. WritesApart'
    <3> SUFFICES ASSUME NEW u \in Workers, NEW v \in Workers, u # v,
                        NEW j \in Ids, NEW k \in Ids,
                        dirty'[u][j] # NoRow, dirty'[v][k] # NoRow
                 PROVE  j # k /\ Key(dirty'[u][j]) # Key(dirty'[v][k])
      BY DEF WritesApart, Key
    <3>1. CASE u # w /\ v # w
      BY <2>1, <3>1 DEF SlotInv, WritesApart
    <3>2. CASE u = w
      BY <2>1, <2>2, <2>10, <3>2 DEF SlotInv, WritesApart
    <3>3. CASE v = w
      BY <2>1, <2>2, <2>10, <3>3 DEF SlotInv, WritesApart
    <3> QED
      BY <3>1, <3>2, <3>3
  <2> QED
    BY <2>9, <2>11 DEF SlotInv
<1> QED
  BY <1>1, <1>2 DEF Flush

\* The end of a transaction: what it wrote becomes committed for the others, whose own
\* writes are to other rows and other slots.
LEMMA DropKeepsSlots ==
  ASSUME TypeInv, SlotInv, NEW w \in Workers, Drops(w)
  PROVE  SlotInv'
<1>1. \A u \in Workers : u # w => dirty'[u] = dirty[u]
  BY DEF Drops, TypeInv, TypeOK
<1>2. \A k \in Ids : dirty'[w][k] = NoRow
  BY DEF Drops, TypeInv, TypeOK, Clean
<1>3. WritesApart'
  BY <1>1, <1>2 DEF SlotInv, WritesApart, Key
<1>4. DistinctKeys(db')
  BY DEF Drops, SlotInv, UniqueSlot
<1>5. \A u \in Workers, k \in Ids :
        View(u)'[k] = IF u # w /\ dirty[u][k] # NoRow THEN dirty[u][k] ELSE db'[k]
  BY <1>1, <1>2 DEF View
<1>6. ASSUME NEW u \in Workers PROVE DistinctKeys(View(u)')
  <2> SUFFICES ASSUME NEW j \in Ids, NEW k \in Ids, j # k,
                      View(u)'[j] # NoRow, View(u)'[k] # NoRow
               PROVE  Key(View(u)'[j]) # Key(View(u)'[k])
    BY DEF DistinctKeys
  <2>1. ASSUME NEW m \in Ids, NEW n \in Ids, m # n, u # w, dirty[u][m] # NoRow,
               dirty[u][n] = NoRow, db'[n] # NoRow
        PROVE  Key(dirty[u][m]) # Key(db'[n])
    <3>1. View(u)[m] = dirty[u][m] /\ View(u)[n] = db[n]
      BY <2>1 DEF View
    <3>2. db'[n] = db[n] \/ (db'[n] = dirty[w][n] /\ dirty[w][n] # NoRow)
      BY DEF Drops, View
    <3> QED
      BY <2>1, <3>1, <3>2 DEF SlotInv, UniqueSlot, DistinctKeys, WritesApart
  <2>2. CASE u # w /\ dirty[u][j] # NoRow /\ dirty[u][k] # NoRow
    <3>1. View(u)[j] = dirty[u][j] /\ View(u)[k] = dirty[u][k]
      BY <2>2 DEF View
    <3> QED
      BY <1>5, <2>2, <3>1 DEF SlotInv, UniqueSlot, DistinctKeys
  <2>3. CASE u # w /\ dirty[u][j] # NoRow /\ dirty[u][k] = NoRow
    BY <1>5, <2>1, <2>3
  <2>4. CASE u # w /\ dirty[u][j] = NoRow /\ dirty[u][k] # NoRow
    BY <1>5, <2>1, <2>4
  <2>5. CASE u = w \/ (dirty[u][j] = NoRow /\ dirty[u][k] = NoRow)
    BY <1>4, <1>5, <2>5 DEF DistinctKeys
  <2> QED
    BY <2>2, <2>3, <2>4, <2>5
<1>7. UniqueSlot'
  BY <1>4, <1>6 DEF UniqueSlot, DistinctKeys
<1> QED
  BY <1>3, <1>7 DEF SlotInv

\* No slot of a barber is ever held by two rows, committed or seen by any transaction,
\* however the requests interleave: the double-booking guarantee.
THEOREM UniqueSlotAlways == Spec => []UniqueSlot
<1>1. Init => SlotInv
  BY DEF Init, SlotInv, UniqueSlot, DistinctKeys, WritesApart, View, Clean
<1>2. TypeInv /\ SlotInv /\ [Next]_vars => SlotInv'
  <2> SUFFICES ASSUME TypeInv, SlotInv, [Next]_vars PROVE SlotInv'
    OBVIOUS
  <2>1. CASE UNCHANGED <<db, dirty>>
    BY <2>1 DEF SlotInv, UniqueSlot, WritesApart, DistinctKeys, View
  <2> QED
    BY <2>1, Effects, FlushKeepsSlots, DropKeepsSlots
<1>3. SlotInv => UniqueSlot
  BY DEF SlotInv
<1> QED
  BY <1>1, <1>2, <1>3, TypeInvariant, PTL DEF Spec
-----------------------------------------------------------------------------
(* What becomes of a row over many requests: bookings of two halves are born whole, *)
(* and a cancelled row stays cancelled *)

\* What an UPDATE never changes of a row.
Same(r, s) == r.svc = s.svc /\ r.cont = s.cont /\ r.bk = s.bk

\* What the locals of w at statement p say of the request, and what it has written.
StageFits(w, p) ==
    LET c == call[w]
    IN /\ p \in {"insert", "insert_cont", "sync"} => c.op = "book"
       /\ p \in {"insert", "insert_cont"} /\ c.svc = "CB" => c.id # c.partner
       /\ p \in {"cancel_row", "cancel_find", "cancel_partner"} =>
            c.op = "cancel" /\ c.status = "cancelled"
       /\ p \in {"move_row", "move_find", "move_partner"} => c.op = "reschedule"
       /\ p = "patch_row" => c.op = "patch"
       /\ p \in {"cancel_row", "cancel_find", "move_row", "move_find", "patch_row"} =>
            c.partner = c.id
       /\ p \in {"sync", "commit"} /\ c.op = "book" /\ c.svc = "CB" =>
            /\ dirty[w][c.partner] # NoRow
            /\ dirty[w][c.partner].cont /\ dirty[w][c.partner].bk = c.id

\* An uncommitted row of w is one of its two rows: a new one of its booking, or a changed
\* one, which is not cancelled before and live after unless by a PATCH of it.
Wrote(w, k) ==
    LET c == call[w]
        r == dirty[w][k]
    IN /\ k \in {c.id, c.partner}
       /\ db[k] = NoRow => /\ c.op = "book" /\ r.svc = c.svc /\ r.bk = c.id
                           /\ ~r.cont => k = c.id
       /\ db[k] # NoRow => /\ Same(r, db[k])
                           /\ db[k].status = "cancelled" =>
                                r.status = "cancelled" \/ (c.op = "patch" /\ c.id = k)

Past(w) == \A k \in Ids : dirty[w][k] # NoRow => Wrote(w, k)

\* The ids that w has yet to insert are nobody else's.
ToInsert(w) ==
    IF pc[w] = "insert" THEN {call[w].id, call[w].partner}
    ELSE IF pc[w] = "insert_cont" THEN {call[w].partner} ELSE {}

Reserved(w) ==
    \A i \in ToInsert(w) :
        /\ db[i] = NoRow
        /\ \A u \in Workers : dirty[u][i] = NoRow
        /\ \A u \in Workers \ {w} : i \notin ToInsert(u)

HistInv ==
    /\ \A w \in Workers : StageFits(w, pc[w]) /\ Past(w) /\ Reserved(w)
    /\ PairsBornWhole

-----------------------------------------------------------------------------
(* The kinds of step.                                                       *)

\* A step of another request that changes no row w has written leaves its part alone.
LEMMA OthersStay ==
  ASSUME HistInv, NEW w \in Workers, pc'[w] = pc[w], call'[w] = call[w], dirty'[w] = dirty[w],
         \A k \in Ids : dirty[w][k] # NoRow => db'[k] = db[k]
  PROVE  (StageFits(w, pc[w]) /\ Past(w))'
  BY DEF HistInv, StageFits, Past, Wrote, Same

\* A request moves on, possibly with the other half it found, and writes nothing.
LEMMA LocalKeeps ==
  ASSUME TypeInv, HistInv, NEW w \in Workers,
         NEW next \in Pc \ {"idle", "insert", "insert_cont"},
         NEW c, pc' = [pc EXCEPT ![w] = next], call' = [call EXCEPT ![w] = c],
         UNCHANGED <<db, dirty>>,
         StageFits(w, next)', Past(w)'
  PROVE  HistInv'
<1>1. \A u \in Workers : u # w => pc'[u] = pc[u] /\ call'[u] = call[u]
  BY DEF TypeInv, TypeOK
<1>2. pc'[w] = next
  BY DEF TypeInv, TypeOK
<1>3. \A u \in Workers : (StageFits(u, pc[u]) /\ Past(u))'
  BY <1>1, <1>2, OthersStay
<1>4. \A u \in Workers : ToInsert(u)' \subseteq ToInsert(u)
  BY <1>1, <1>2 DEF ToInsert
<1>5. \A u \in Workers : Reserved(u)'
  BY <1>4 DEF Reserved, HistInv
<1> QED
  BY <1>3, <1>5 DEF HistInv, PairsBornWhole, IsPrimary, HasContinuation

\* A flushed UPDATE of a row that w sees.
LEMMA UpdateKeeps ==
  ASSUME TypeInv, SlotInv, HistInv, NEW w \in Workers, NEW i \in Ids, NEW row \in Row,
         NEW next \in Pc \ {"idle", "insert", "insert_cont"}, Flush(w, i, row, next),
         pc[w] \notin {"idle", "insert", "insert_cont", "sync", "commit"},
         i \in {call[w].id, call[w].partner}, View(w)[i] # NoRow, Same(row, View(w)[i]),
         View(w)[i].status = "cancelled" =>
            row.status = "cancelled" \/ (call[w].op = "patch" /\ call[w].id = i),
         StageFits(w, next), next \in {"sync", "commit"} => call[w].op # "book"
  PROVE  HistInv'
<1>1. /\ \A u \in Workers : u # w => pc'[u] = pc[u] /\ dirty'[u] = dirty[u]
      /\ pc'[w] \in {"failed", next}
      /\ db' = db /\ call' = call
  BY DEF Flush, TypeInv, TypeOK
<1>2. dirty'[w] = dirty[w] \/ dirty'[w] = [dirty[w] EXCEPT ![i] = row]
  BY DEF Flush, TypeInv, TypeOK
<1>3. dirty'[w] = dirty[w] \/ \A k \in Ids : dirty'[w][k] = IF k = i THEN row ELSE dirty[w][k]
  BY <1>2 DEF TypeInv, TypeOK
<1>4. StageFits(w, pc[w])'
  BY <1>1 DEF StageFits
<1>5. Wrote(w, i)' \/ dirty'[w] = dirty[w]
  <2>1. CASE dirty[w][i] # NoRow /\ dirty'[w][i] = row
    <3>1. Wrote(w, i) /\ View(w)[i] = dirty[w][i]
      BY <2>1 DEF HistInv, Past, View
    <3> QED
      BY <1>1, <2>1, <3>1 DEF Wrote, Same
  <2>2. CASE dirty[w][i] = NoRow /\ dirty'[w][i] = row
    <3>1. View(w)[i] = db[i]
      BY <2>2 DEF View
    <3> QED
      BY <1>1, <2>2, <3>1 DEF Wrote, Same
  <2> QED
    BY <1>3, <2>1, <2>2
<1>6. Past(w)'
  <2> SUFFICES ASSUME NEW k \in Ids, dirty'[w][k] # NoRow PROVE Wrote(w, k)'
    BY DEF Past
  <2>1. CASE dirty'[w][k] = dirty[w][k]
    BY <1>1, <2>1 DEF HistInv, Past, Wrote, Same
  <2>2. CASE dirty'[w][k] # dirty[w][k]
    BY <1>3, <1>5, <2>2
  <2> QED
    BY <2>1, <2>2
<1>7. \A u \in Workers : (StageFits(u, pc[u]) /\ Past(u))'
  BY <1>1, <1>4, <1>6, OthersStay
<1>8. \A u \in Workers : ToInsert(u)' \subseteq ToInsert(u)
  BY <1>1 DEF ToInsert
<1>9. ASSUME NEW u \in Workers PROVE Reserved(u)'
  <2> SUFFICES ASSUME NEW k \in ToInsert(u)'
               PROVE  /\ db'[k] = NoRow
                      /\ \A v \in Workers : dirty'[v][k] = NoRow
                      /\ \A v \in Workers \ {u} : k \notin ToInsert(v)'
    BY DEF Reserved
  <2>1. /\ k \in ToInsert(u) /\ db[k] = NoRow
        /\ \A v \in Workers : dirty[v][k] = NoRow
        /\ \A v \in Workers \ {u} : k \notin ToInsert(v)
    BY <1>8 DEF HistInv, Reserved
  <2>2. k # i
    BY <2>1 DEF View
  <2>3. k \in Ids
    BY <2>1, Busy DEF ToInsert, Call
  <2> QED
    BY <1>1, <1>3, <1>8, <2>1, <2>2, <2>3
<1> QED
  BY <1>1, <1>7, <1>9 DEF HistInv, PairsBornWhole, IsPrimary, HasContinuation

\* A flushed INSERT of a new row of a booking.
LEMMA InsertKeeps ==
  ASSUME TypeInv, SlotInv, HistInv, NEW w \in Workers, NEW i \in ToInsert(w),
         NEW start \in Starts, NEW cont \in BOOLEAN, NEW next \in Pc \ {"idle", "insert"},
         Flush(w, i, NewRow(call[w], start, cont), next),
         ~cont => i = call[w].id, cont => i = call[w].partner,
         ~cont => pc[w] = "insert",
         next = "insert_cont" => pc[w] = "insert" /\ i # call[w].partner,
         next \in {"sync", "commit"} /\ call[w].svc = "CB" => cont,
         next \in {"insert_cont", "sync", "commit", "failed"}
  PROVE  HistInv'
<1> DEFINE row == NewRow(call[w], start, cont)
<1>1. /\ pc[w] \in {"insert", "insert_cont"} /\ call[w] \in Call /\ i \in Ids
      /\ call[w].op = "book" /\ db[i] = NoRow
    BY Busy DEF ToInsert, HistInv, Reserved, StageFits, Call
<1>2. row \in Row /\ row # NoRow
  BY <1>1, RowTypes, ValueAssumption
<1>3. row.svc = call[w].svc /\ row.cont = cont /\ row.bk = call[w].id
  BY DEF NewRow
<1> HIDE DEF row
<1>4. /\ \A u \in Workers : u # w => pc'[u] = pc[u] /\ dirty'[u] = dirty[u]
      /\ db' = db /\ call' = call
  BY DEF Flush, TypeInv, TypeOK
<1>5. \/ pc'[w] = "failed" /\ dirty'[w] = dirty[w]
      \/ pc'[w] = next /\ dirty'[w] = [dirty[w] EXCEPT ![i] = row]
  BY DEF Flush, TypeInv, TypeOK, row
<1>6. \/ pc'[w] = "failed" /\ dirty'[w] = dirty[w]
      \/ pc'[w] = next /\ \A k \in Ids : dirty'[w][k] = IF k = i THEN row ELSE dirty[w][k]
  BY <1>5 DEF TypeInv, TypeOK
<1>7. StageFits(w, pc[w])'
  <2>1. StageFits(w, pc[w])
    BY DEF HistInv
  <2> QED
    BY <1>1, <1>2, <1>3, <1>4, <1>6, <2>1 DEF StageFits
<1>8. Past(w)'
  <2> SUFFICES ASSUME NEW k \in Ids, dirty'[w][k] # NoRow PROVE Wrote(w, k)'
    BY DEF Past
  <2>1. CASE dirty'[w][k] = dirty[w][k]
    BY <1>4, <2>1 DEF HistInv, Past, Wrote, Same
  <2>2. CASE k = i /\ dirty'[w][k] = row
    BY <1>1, <1>3, <1>4, <2>2 DEF Wrote, Same
  <2> QED
    BY <1>6, <2>1, <2>2
<1>9. \A u \in Workers : (StageFits(u, pc[u]) /\ Past(u))'
  BY <1>4, <1>7, <1>8, OthersStay
<1>10. \A u \in Workers : ToInsert(u)' \subseteq ToInsert(u) \ {i}
  <2> SUFFICES ASSUME NEW u \in Workers PROVE ToInsert(u)' \subseteq ToInsert(u) \ {i}
    OBVIOUS
  <2>1. CASE u # w
    BY <1>4, <2>1 DEF ToInsert, HistInv, Reserved
  <2>2. CASE u = w
    BY <1>4, <1>6, <2>2 DEF ToInsert
  <2> QED
    BY <2>1, <2>2
<1>11. ASSUME NEW u \in Workers PROVE Reserved(u)'
  <2> SUFFICES ASSUME NEW k \in ToInsert(u)'
               PROVE  /\ db'[k] = NoRow
                      /\ \A v \in Workers : dirty'[v][k] = NoRow
                      /\ \A v \in Workers \ {u} : k \notin ToInsert(v)'
    BY DEF Reserved
  <2>1. /\ k \in ToInsert(u) /\ k # i /\ db[k] = NoRow
        /\ \A v \in Workers : dirty[v][k] = NoRow
        /\ \A v \in Workers \ {u} : k \notin ToInsert(v)
    BY <1>10 DEF HistInv, Reserved
  <2>2. k \in Ids
    BY <2>1, Busy DEF ToInsert, Call
  <2> QED
    BY <1>4, <1>6, <1>10, <2>1, <2>2
<1> QED
  BY <1>4, <1>9, <1>11 DEF HistInv, PairsBornWhole, IsPrimary, HasContinuation

\* A request starts with ids of its own: what Fresh says of the UUIDs.
LEMMA BookKeeps ==
  ASSUME TypeInv, HistInv, NEW w \in Workers, NEW svc \in Services, NEW barber \in Barbers,
         NEW target \in Starts, NEW i \in Ids, NEW j \in Ids,
         BookPlan(w, svc, barber, target, i, j)
  PROVE  HistInv'
<1> DEFINE c == [op |-> "book", id |-> i, partner |-> j, barber |-> barber, svc |-> svc,
                 date |-> Date(target), start |-> target, target |-> target,
                 status |-> "pending", cont |-> FALSE]
<1>1. c.op = "book" /\ c.id = i /\ c.partner = j /\ (c.svc = "CB" => i # j)
  BY DEF BookPlan
<1>2. /\ call' = [call EXCEPT ![w] = c] /\ pc' = [pc EXCEPT ![w] = "insert"]
      /\ db' = db /\ dirty' = dirty /\ pc[w] = "idle"
  BY DEF BookPlan, Start, Goto
<1>3. Fresh(i) /\ Fresh(j)
  BY DEF BookPlan
<1> HIDE DEF c
<1>4. /\ \A u \in Workers : u # w => pc'[u] = pc[u] /\ call'[u] = call[u]
      /\ pc'[w] = "insert" /\ call'[w] = c
  BY <1>2 DEF TypeInv, TypeOK
<1>5. StageFits(w, pc[w])'
  BY <1>1, <1>4 DEF StageFits
<1>6. Past(w)'
  BY <1>2 DEF Past, TypeInv, TypeOK, Clean
<1>7. \A u \in Workers : (StageFits(u, pc[u]) /\ Past(u))'
  BY <1>2, <1>4, <1>5, <1>6, OthersStay
<1>8. ASSUME NEW k \in {i, j}, NEW u \in Workers
      PROVE  db[k] = NoRow /\ dirty[u][k] = NoRow /\ k \notin ToInsert(u)
  <2>1. CASE pc[u] = "idle"
    BY <1>3, <2>1 DEF Fresh, TypeInv, TypeOK, Clean, ToInsert
  <2>2. CASE pc[u] # "idle"
    BY <1>3, <2>2 DEF Fresh, ToInsert, HistInv, Past, Wrote
  <2> QED
    BY <2>1, <2>2
<1>9. ToInsert(w)' = {i, j} /\ \A u \in Workers : u # w => ToInsert(u)' = ToInsert(u)
  BY <1>1, <1>4 DEF ToInsert
<1>10. Reserved(w)'
  BY <1>2, <1>8, <1>9 DEF Reserved
<1>11. ASSUME NEW u \in Workers, u # w PROVE Reserved(u)'
  <2>1. \A k \in ToInsert(u) : k \notin ToInsert(w)'
    BY <1>8, <1>9
  <2>2. Reserved(u)
    BY DEF HistInv
  <2> QED
    BY <1>2, <1>9, <1>11, <2>1, <2>2 DEF Reserved
<1> QED
  BY <1>2, <1>7, <1>10, <1>11 DEF HistInv, PairsBornWhole, IsPrimary, HasContinuation

\* The end of a transaction, committed or not: the rows it wrote are nobody else's.
LEMMA EndKeeps ==
  ASSUME TypeInv, SlotInv, HistInv, NEW w \in Workers, NEW p \in {"idle", "failed"},
         pc' = [pc EXCEPT ![w] = p], dirty' = [dirty EXCEPT ![w] = Clean],
         \A u \in Workers : u # w => call'[u] = call[u],
         db' = db \/ (db' = View(w) /\ pc[w] = "commit")
  PROVE  HistInv'
<1>1. /\ \A u \in Workers : u # w => pc'[u] = pc[u] /\ dirty'[u] = dirty[u]
      /\ pc'[w] = p /\ \A k \in Ids : dirty'[w][k] = NoRow
  BY DEF TypeInv, TypeOK, Clean
<1>2. \A k \in Ids : dirty[w][k] = NoRow => db'[k] = db[k]
  BY DEF View
<1>3. \A u \in Workers, k \in Ids : u # w /\ dirty[u][k] # NoRow => dirty[w][k] = NoRow
  BY DEF SlotInv, WritesApart
<1>4. StageFits(w, pc[w])' /\ Past(w)'
  BY <1>1 DEF StageFits, Past
<1>5. \A u \in Workers : (StageFits(u, pc[u]) /\ Past(u))'
  BY <1>1, <1>2, <1>3, <1>4, OthersStay
<1>6. ASSUME NEW u \in Workers PROVE Reserved(u)'
  <2> SUFFICES ASSUME NEW k \in ToInsert(u)'
               PROVE  /\ db'[k] = NoRow
                      /\ \A v \in Workers : dirty'[v][k] = NoRow
                      /\ \A v \in Workers \ {u} : k \notin ToInsert(v)'
    BY DEF Reserved
  <2>1. \A v \in Workers : ToInsert(v)' \subseteq ToInsert(v)
    BY <1>1 DEF ToInsert
  <2>2. /\ k \in ToInsert(u) /\ db[k] = NoRow
        /\ \A v \in Workers : dirty[v][k] = NoRow
        /\ \A v \in Workers \ {u} : k \notin ToInsert(v)
    BY <2>1 DEF HistInv, Reserved
  <2>3. k \in Ids
    BY <2>2, Busy DEF ToInsert, Call
  <2> QED
    BY <1>1, <1>2, <2>1, <2>2, <2>3
<1>7. PairsBornWhole'
  <2>1. CASE db' = db
    BY <2>1 DEF HistInv, PairsBornWhole, IsPrimary, HasContinuation
  <2>2. CASE db' = View(w) /\ pc[w] = "commit"
    <3> SUFFICES ASSUME NEW i \in Ids, db'[i] # NoRow, ~db'[i].cont, db'[i].svc = "CB"
                 PROVE  \E j \in Ids : db'[j] # NoRow /\ db'[j].cont /\ db'[j].bk = db'[i].bk
      BY DEF PairsBornWhole, IsPrimary, HasContinuation
    <3>1. \A k \in Ids : db'[k] = IF dirty[w][k] # NoRow THEN dirty[w][k] ELSE db[k]
      BY <2>2 DEF View
    <3>2. Past(w) /\ StageFits(w, "commit")
      BY <2>2 DEF HistInv
    <3>3. \A k \in Ids : db[k] # NoRow => db'[k] # NoRow /\ Same(db'[k], db[k])
      BY <3>1, <3>2 DEF Past, Wrote, Same
    <3>4. CASE db[i] # NoRow
      <4>1. ~db[i].cont /\ db[i].svc = "CB" /\ db[i].bk = db'[i].bk
        BY <3>3, <3>4 DEF Same
      <4>2. PICK j \in Ids : db[j] # NoRow /\ db[j].cont /\ db[j].bk = db[i].bk
        BY <3>4, <4>1 DEF HistInv, PairsBornWhole, IsPrimary, HasContinuation
      <4> QED
        BY <3>3, <4>1, <4>2 DEF Same
    <3>5. CASE db[i] = NoRow
      <4>1. dirty[w][i] # NoRow /\ db'[i] = dirty[w][i]
        BY <3>1, <3>5
      <4>2. Wrote(w, i)
        BY <3>2, <4>1 DEF Past
      <4>3. call[w].op = "book" /\ call[w].svc = "CB" /\ db'[i].bk = call[w].id
        BY <3>5, <4>1, <4>2 DEF Wrote
      <4>4. /\ dirty[w][call[w].partner] # NoRow /\ dirty[w][call[w].partner].cont
            /\ dirty[w][call[w].partner].bk = call[w].id
        BY <3>2, <4>3 DEF StageFits
      <4>5. call[w].partner \in Ids
        BY <2>2, Busy DEF Call
      <4> QED
        BY <3>1, <4>3, <4>4, <4>5
    <3> QED
      BY <3>4, <3>5
  <2> QED
    BY <2>1, <2>2
<1> QED
  BY <1>5, <1>6, <1>7 DEF HistInv

-----------------------------------------------------------------------------
(* Every step keeps HistInv.                                                *)

\* The requests on a stored row start with that row alone.
LEMMA LoadKeeps ==
  ASSUME TypeInv, HistInv, NEW w \in Workers, pc[w] = "idle", NEW c,
         NEW next \in {"cancel_row", "move_row", "patch_row"}, Start(w, c, next),
         c.partner = c.id,
         next = "cancel_row" => c.op = "cancel" /\ c.status = "cancelled",
         next = "move_row" => c.op = "reschedule",
         next = "patch_row" => c.op = "patch"
  PROVE  HistInv'
<1>1. /\ call' = [call EXCEPT ![w] = c] /\ pc' = [pc EXCEPT ![w] = next]
      /\ db' = db /\ dirty' = dirty
  BY DEF Start, Goto
<1>2. call'[w] = c
  BY <1>1 DEF TypeInv, TypeOK
<1>3. StageFits(w, next)'
  BY <1>2 DEF StageFits
<1>4. Past(w)'
  BY <1>1 DEF Past, TypeInv, TypeOK, Clean
<1> QED
  BY <1>1, <1>3, <1>4, LocalKeeps DEF Pc

LEMMA RequestKeeps ==
  ASSUME TypeInv, HistInv, NEW w \in Workers, Request(w)
  PROVE  HistInv'
<1>1. ASSUME NEW svc \in Services, NEW barber \in Barbers, NEW target \in Starts,
             NEW i \in Ids, NEW j \in Ids, BookPlan(w, svc, barber, target, i, j)
      PROVE  HistInv'
  BY <1>1, BookKeeps
<1>2. ASSUME NEW i \in Ids, CancelRead(w, i) PROVE HistInv'
  BY <1>2, LoadKeeps DEF CancelRead, Start
<1>3. ASSUME NEW i \in Ids, NEW target \in Starts, RescheduleRead(w, i, target)
      PROVE  HistInv'
  BY <1>3, LoadKeeps DEF RescheduleRead, Start
<1>4. ASSUME NEW i \in Ids, NEW status \in Status, PatchRead(w, i, status)
      PROVE  HistInv'
  BY <1>4, LoadKeeps DEF PatchRead, Start
<1> QED
  BY <1>1, <1>2, <1>3, <1>4 DEF Request

\* The UPDATEs touch neither the service, nor the tag, nor the customer.
LEMMA UpdatesSame ==
  ASSUME TypeInv, NEW w \in Workers, NEW i \in Ids, View(w)[i] # NoRow, NEW offset \in {0, 1}
  PROVE  /\ Same(WithStatus(w, i), View(w)[i]) /\ WithStatus(w, i).status = call[w].status
         /\ Same(Moved(w, i, offset), View(w)[i])
         /\ Moved(w, i, offset).status = View(w)[i].status
<1>1. View(w)[i] \in Row
  BY ViewType DEF TypeInv
<1>2. Same(WithStatus(w, i), View(w)[i]) /\ WithStatus(w, i).status = call[w].status
  BY <1>1 DEF WithStatus, Same, Row
<1> DEFINE d == Dated(View(w)[i], call[w])
<1>3. /\ Same(d, View(w)[i]) /\ d.status = View(w)[i].status
      /\ d = [barber |-> d.barber, date |-> d.date, start |-> d.start, status |-> d.status,
              svc |-> d.svc, cont |-> d.cont, bk |-> d.bk]
  BY <1>1 DEF Dated, Same, Row
<1>4. \/ Moved(w, i, offset) = d
      \/ Moved(w, i, offset) = [d EXCEPT !.start = call[w].target + offset]
  BY DEF Moved
<1> HIDE DEF d
<1>5. Same(Moved(w, i, offset), d) /\ Moved(w, i, offset).status = d.status
  BY <1>3, <1>4 DEF Same
<1> QED
  BY <1>2, <1>3, <1>5 DEF Same

\* Looking for the other half: what was written before is row id.
LEMMA FindKeeps ==
  ASSUME TypeInv, HistInv, NEW w \in Workers, NEW found \in SUBSET Ids,
         NEW next \in {"cancel_partner", "move_partner"},
         next = "cancel_partner" => pc[w] = "cancel_find",
         next = "move_partner" => pc[w] = "move_find",
         WithPartner(w, found, next)
  PROVE  HistInv'
<1>1. /\ pc[w] \in {"cancel_find", "move_find"} /\ call[w] \in Call
      /\ call[w].partner = call[w].id
      /\ next = "cancel_partner" => call[w].op = "cancel" /\ call[w].status = "cancelled"
      /\ next = "move_partner" => call[w].op = "reschedule"
  BY Busy DEF HistInv, StageFits
<1>2. Past(w)
  BY DEF HistInv
<1>3. CASE UNCHANGED call /\ Goto(w, "commit")
  <2>1. call' = [call EXCEPT ![w] = call[w]] /\ pc' = [pc EXCEPT ![w] = "commit"]
        /\ UNCHANGED <<db, dirty>>
    BY <1>3 DEF Goto, TypeInv, TypeOK
  <2>2. StageFits(w, "commit")' /\ Past(w)'
    BY <1>1, <1>2, <1>3 DEF StageFits, Past, Wrote, Same, Goto
  <2> QED
    BY <2>1, <2>2, LocalKeeps DEF Pc
<1>4. ASSUME NEW i \in found, call' = [call EXCEPT ![w].partner = i], Goto(w, next)
      PROVE  HistInv'
  <2> DEFINE c == [call[w] EXCEPT !.partner = i]
  <2>1. c.op = call[w].op /\ c.id = call[w].id /\ c.status = call[w].status
        /\ c.svc = call[w].svc
    BY <1>1 DEF Call
  <2>2. call' = [call EXCEPT ![w] = c] /\ pc' = [pc EXCEPT ![w] = next]
        /\ db' = db /\ dirty' = dirty
    BY <1>4 DEF Goto
  <2> HIDE DEF c
  <2>3. call'[w] = c
    BY <2>2 DEF TypeInv, TypeOK
  <2>4. StageFits(w, next)'
    BY <1>1, <2>1, <2>3 DEF StageFits
  <2>5. Past(w)'
    BY <1>1, <1>2, <2>1, <2>2, <2>3 DEF Past, Wrote, Same
  <2> QED
    BY <2>2, <2>4, <2>5, LocalKeeps DEF Pc
<1> QED
  BY <1>3, <1>4 DEF WithPartner

\* Writing a moved row, or nothing when it stays where it is.
LEMMA MoveKeeps ==
  ASSUME TypeInv, SlotInv, HistInv, NEW w \in Workers, pc[w] \in {"move_row", "move_partner"},
         NEW i \in {call[w].id, call[w].partner}, View(w)[i] # NoRow, NEW offset \in {0, 1},
         call[w].target + offset \in Starts,
         NEW next \in {"move_find", "commit"}, next = "move_find" => pc[w] = "move_row",
         MoveWrite(w, i, offset, next)
  PROVE  HistInv'
<1>1. call[w] \in Call /\ i \in Ids /\ call[w].op = "reschedule"
  BY Busy DEF Call, HistInv, StageFits
<1>2. StageFits(w, next) /\ Past(w)
  BY <1>1 DEF HistInv, StageFits
<1>3. CASE UNCHANGED call /\ Goto(w, next)
  <2>1. call' = [call EXCEPT ![w] = call[w]] /\ pc' = [pc EXCEPT ![w] = next]
        /\ UNCHANGED <<db, dirty>>
    BY <1>3 DEF Goto, TypeInv, TypeOK
  <2>2. StageFits(w, next)' /\ Past(w)'
    BY <1>2, <1>3 DEF StageFits, Past, Wrote, Same, Goto
  <2> QED
    BY <2>1, <2>2, LocalKeeps DEF Pc
<1>4. CASE Flush(w, i, Moved(w, i, offset), next)
  <2>1. Moved(w, i, offset) \in Row
    BY <1>1, RowTypes
  <2>2. /\ Same(Moved(w, i, offset), View(w)[i])
        /\ Moved(w, i, offset).status = View(w)[i].status
    BY <1>1, UpdatesSame
  <2> QED
    BY <1>1, <1>2, <1>4, <2>1, <2>2, UpdateKeeps DEF Pc
<1> QED
  BY <1>3, <1>4 DEF MoveWrite

LEMMA StepKeeps ==
  ASSUME TypeInv, SlotInv, HistInv, NEW w \in Workers, Step(w)
  PROVE  HistInv'
<1>1. pc[w] # "idle" /\ call[w] \in Call
  <2>1. pc[w] # "idle"
    BY DEF Step, InsertPrimary, InsertContinuation, SyncToSheets, CancelRow, CancelFind,
           CancelPartner, MoveRow, MoveFind, MovePartner, PatchRow, Commit, Fail
  <2> QED
    BY <2>1, Busy
<1>2. /\ call[w].id \in Ids /\ call[w].partner \in Ids /\ call[w].target \in Starts
      /\ StageFits(w, pc[w]) /\ CallFits(w, pc[w])
  BY <1>1 DEF Call, HistInv, TypeInv
<1>3. CASE InsertPrimary(w)
  <2>1. call[w].id \in ToInsert(w) /\ (call[w].svc = "CB" => call[w].id # call[w].partner)
    BY <1>2, <1>3 DEF InsertPrimary, ToInsert, StageFits
  <2>2. AfterInsert \in {"sync", "commit"}
    BY DEF AfterInsert
  <2> QED
    BY <1>2, <1>3, <2>1, <2>2, InsertKeeps DEF InsertPrimary, Pc
<1>4. CASE InsertContinuation(w)
  <2>1. call[w].partner \in ToInsert(w) /\ call[w].target + 1 \in Starts
    BY <1>2, <1>4 DEF InsertContinuation, ToInsert, CallFits
  <2>2. AfterInsert \in {"sync", "commit"}
    BY DEF AfterInsert
  <2> QED
    BY <1>2, <1>4, <2>1, <2>2, InsertKeeps DEF InsertContinuation, Pc
<1>5. CASE SyncToSheets(w)
  <2>1. /\ call' = [call EXCEPT ![w] = call[w]] /\ pc' = [pc EXCEPT ![w] = "commit"]
        /\ UNCHANGED <<db, dirty, call>> /\ pc[w] = "sync"
    BY <1>5 DEF SyncToSheets, TypeInv, TypeOK
  <2>2. StageFits(w, "commit")' /\ Past(w)'
    BY <1>2, <2>1 DEF StageFits, HistInv, Past, Wrote, Same
  <2> QED
    BY <2>1, <2>2, LocalKeeps DEF Pc
<1>6. CASE CancelRow(w) \/ PatchRow(w)
  <2>1. /\ View(w)[call[w].id] # NoRow
        /\ pc[w] = "cancel_row" => call[w].op = "cancel" /\ call[w].status = "cancelled"
        /\ pc[w] = "patch_row" => call[w].op = "patch"
        /\ call[w].partner = call[w].id
    BY <1>2, <1>6 DEF CancelRow, PatchRow, CallFits, StageFits
  <2>2. /\ WithStatus(w, call[w].id) \in Row
        /\ Same(WithStatus(w, call[w].id), View(w)[call[w].id])
        /\ WithStatus(w, call[w].id).status = call[w].status
    BY <1>1, <1>2, <2>1, RowTypes, UpdatesSame
  <2>3. CASE CancelRow(w)
    <3>1. StageFits(w, "cancel_find")
      BY <2>1, <2>3 DEF CancelRow, StageFits
    <3> QED
      BY <1>2, <2>1, <2>2, <2>3, <3>1, UpdateKeeps DEF CancelRow, Pc
  <2>4. CASE PatchRow(w)
    <3>1. StageFits(w, "commit")
      BY <2>1, <2>4 DEF PatchRow, StageFits
    <3> QED
      BY <1>2, <2>1, <2>2, <2>4, <3>1, UpdateKeeps DEF PatchRow, Pc
  <2> QED
    BY <1>6, <2>3, <2>4
<1>7. CASE CancelPartner(w)
  <2>1. /\ View(w)[call[w].partner] # NoRow
        /\ call[w].op = "cancel" /\ call[w].status = "cancelled"
    BY <1>2, <1>7 DEF CancelPartner, CallFits, StageFits
  <2>2. /\ WithStatus(w, call[w].partner) \in Row
        /\ Same(WithStatus(w, call[w].partner), View(w)[call[w].partner])
        /\ WithStatus(w, call[w].partner).status = call[w].status
    BY <1>1, <1>2, <2>1, RowTypes, UpdatesSame
  <2>3. StageFits(w, "commit")
    BY <2>1 DEF StageFits
  <2> QED
    BY <1>2, <1>7, <2>1, <2>2, <2>3, UpdateKeeps DEF CancelPartner, Pc
<1>8. CASE CancelFind(w)
  BY <1>8, FindKeeps DEF CancelFind, OtherHalf
<1>9. CASE MoveFind(w)
  BY <1>9, FindKeeps DEF MoveFind, OtherHalf
<1>10. CASE MoveRow(w)
  <2>1. View(w)[call[w].id] # NoRow /\ call[w].target + 0 \in Starts
    BY <1>2, <1>10 DEF MoveRow, CallFits, Starts
  <2>2. /\ pc[w] = "move_row"
        /\ MoveWrite(w, call[w].id, 0, IF call[w].svc = "CB" THEN "move_find" ELSE "commit")
    BY <1>10 DEF MoveRow
  <2> QED
    BY <2>1, <2>2, MoveKeeps
<1>11. CASE MovePartner(w)
  <2>1. View(w)[call[w].partner] # NoRow /\ call[w].target + 1 \in Starts
    BY <1>2, <1>11 DEF MovePartner, CallFits
  <2> QED
    BY <1>11, <2>1, MoveKeeps DEF MovePartner
<1>12. CASE Commit(w) \/ Fail(w)
  <2>1. \A u \in Workers : u # w => call'[u] = call[u]
    BY <1>12 DEF Commit, Fail, End, TypeInv, TypeOK
  <2> QED
    BY <1>12, <2>1, EndKeeps DEF Commit, Fail, End
<1> QED
  BY <1>3, <1>4, <1>5, <1>6, <1>7, <1>8, <1>9, <1>10, <1>11, <1>12 DEF Step

\* The inductive invariant: UniqueSlotAlways supplies that transactions write apart.
LEMMA HistoryInvariant == Spec => [](SlotInv /\ HistInv)
<1>1. Init => SlotInv /\ HistInv
  <2> SUFFICES ASSUME Init PROVE SlotInv /\ HistInv
    OBVIOUS
  <2>1. SlotInv
    BY DEF Init, SlotInv, UniqueSlot, DistinctKeys, WritesApart, View, Clean
  <2>2. \A w \in Workers : StageFits(w, pc[w]) /\ Past(w) /\ Reserved(w)
    BY DEF Init, StageFits, Past, Reserved, ToInsert, Clean
  <2>3. PairsBornWhole
    BY DEF Init, PairsBornWhole, IsPrimary, Clean
  <2> QED
    BY <2>1, <2>2, <2>3 DEF HistInv
<1>2. TypeInv /\ SlotInv /\ [Next]_vars => SlotInv'
  <2> SUFFICES ASSUME TypeInv, SlotInv, [Next]_vars PROVE SlotInv'
    OBVIOUS
  <2>1. CASE UNCHANGED <<db, dirty>>
    BY <2>1 DEF SlotInv, UniqueSlot, WritesApart, DistinctKeys, View
  <2> QED
    BY <2>1, Effects, FlushKeepsSlots, DropKeepsSlots
<1>3. TypeInv /\ SlotInv /\ HistInv /\ [Next]_vars => HistInv'
  <2> SUFFICES ASSUME TypeInv, SlotInv, HistInv, [Next]_vars PROVE HistInv'
    OBVIOUS
  <2>1. ASSUME NEW w \in Workers, Request(w) PROVE HistInv'
    BY <2>1, RequestKeeps
  <2>2. ASSUME NEW w \in Workers, Step(w) PROVE HistInv'
    BY <2>2, StepKeeps
  <2>3. ASSUME NEW w \in Workers, Crash(w) PROVE HistInv'
    <3>1. \A u \in Workers : u # w => call'[u] = call[u]
      BY <2>3 DEF Crash, End, TypeInv, TypeOK
    <3> QED
      BY <2>3, <3>1, EndKeeps DEF Crash, End
  <2>4. ASSUME NEW w \in Workers, DeadlockAbort(w) PROVE HistInv'
    BY <2>4, EndKeeps DEF DeadlockAbort
  <2>5. CASE UNCHANGED <<db, dirty, pc, call>>
    <3>1. \A w \in Workers : (StageFits(w, pc[w]) /\ Past(w))'
      BY <2>5, OthersStay
    <3>2. \A w \in Workers : Reserved(w)'
      BY <2>5 DEF HistInv, Reserved, ToInsert
    <3> QED
      BY <2>5, <3>1, <3>2 DEF HistInv, PairsBornWhole, IsPrimary, HasContinuation
  <2> QED
    BY <2>1, <2>2, <2>3, <2>4, <2>5 DEF Next, Tick, vars
<1> QED
  BY <1>1, <1>2, <1>3, TypeInvariant, PTL DEF Spec

-----------------------------------------------------------------------------

\* The two rows of a HAIRCUT_AND_BEARD booking are in the table together or not at all,
\* whatever crashes, deadlocks or conflicts come between the flushes of _persist_plan.
THEOREM BornWhole == Spec => []PairsBornWhole
<1>1. HistInv => PairsBornWhole
  BY DEF HistInv
<1> QED
  BY <1>1, HistoryInvariant, PTL

\* Only a commit changes the committed table.
LEMMA OnlyCommits ==
  ASSUME [Next]_vars
  PROVE  db' = db \/ \E w \in Workers : pc[w] = "commit" /\ db' = View(w) /\ End(w)
<1>1. ASSUME NEW w \in Workers, Request(w) \/ Crash(w) \/ DeadlockAbort(w) PROVE db' = db
  BY <1>1, RequestReads DEF Crash, DeadlockAbort
<1>2. ASSUME NEW w \in Workers, Step(w) PROVE db' = db \/ Commit(w)
  BY <1>2 DEF Step, InsertPrimary, InsertContinuation, SyncToSheets, CancelRow, CancelFind,
         CancelPartner, MoveRow, MoveFind, MovePartner, MoveWrite, PatchRow, Flush,
         WithPartner, Goto, Fail
<1> QED
  BY <1>1, <1>2 DEF Next, Tick, vars, Commit

\* No reschedule that loaded an appointment before its cancel committed, and no other
\* request than a PATCH of it, brings a cancelled appointment back to life.
THEOREM CancelledStays == Spec => CancelledIsFinal
<1> DEFINE Final(i) ==
       \/ db'[i].status = "cancelled"
       \/ \E w \in Workers : pc[w] = "commit" /\ call[w].id = i /\ call[w].op = "patch"
<1>1. ASSUME TypeInv, HistInv, [Next]_vars, NEW i \in Ids, db[i] # NoRow,
             db[i].status = "cancelled"
      PROVE  Final(i)
  <2>1. CASE db' = db
    BY <1>1, <2>1
  <2>2. ASSUME NEW w \in Workers, pc[w] = "commit", db' = View(w) PROVE Final(i)
    <3>1. db'[i] = (IF dirty[w][i] # NoRow THEN dirty[w][i] ELSE db[i]) /\ pc[w] = "commit"
      BY <2>2 DEF View
    <3>2. CASE dirty[w][i] = NoRow
      BY <1>1, <3>1, <3>2
    <3>3. CASE dirty[w][i] # NoRow
      <4>1. Wrote(w, i)
        BY <1>1, <3>3 DEF HistInv, Past
      <4> QED
        BY <1>1, <3>1, <3>3, <4>1 DEF Wrote
    <3> QED
      BY <3>2, <3>3
  <2> QED
    BY <1>1, <2>1, <2>2, OnlyCommits
<1>2. TypeInv /\ HistInv /\ [Next]_vars =>
        [\A i \in Ids : db[i] # NoRow /\ db[i].status = "cancelled" =>
            \/ db'[i].status = "cancelled"
            \/ \E w \in Workers : pc[w] = "commit" /\ call[w].id = i /\ call[w].op = "patch"]_vars
  BY <1>1
<1> QED
  BY <1>2, TypeInvariant, HistoryInvariant, PTL DEF Spec, CancelledIsFinal

-----------------------------------------------------------------------------
(* The two halves of a booking, and the calendar *)

OneAtATime == \A u, w \in Workers : u = w

\* The requests under which the halves provably stay side by side: bookings, cancels and
\* PATCHes to any status in any interleaving, or all four requests one after the other,
\* when clients reschedule a booking by the id of its primary.
Orderly ==
    \/ Ops \subseteq {"book", "cancel", "patch"}
    \/ OneAtATime /\ ~MoveContinuation

\* No PATCH overlaps a cancel: the cancel then finds the other half as it will be when
\* it commits.
CancelSeesAll == "patch" \notin Ops \/ OneAtATime

\* q is the second half of primary p.
Tied(p, q) ==
    /\ p.svc = "CB" /\ ~p.cont
    /\ q.barber = p.barber /\ q.date = p.date /\ q.start = p.start + 1

\* What the committed table looks like between transactions.
WholeRow(rows, i) ==
    /\ rows[i].date = Date(rows[i].start)
    /\ rows[rows[i].bk] # NoRow
    /\ ~rows[i].cont => rows[i].bk = i
    /\ rows[i].cont => Tied(rows[rows[i].bk], rows[i])
    /\ ~rows[i].cont /\ rows[i].svc = "CB" =>
         \E j \in Ids : rows[j] # NoRow /\ rows[j].cont /\ rows[j].bk = i

Whole(rows) == \A i \in Ids : rows[i] # NoRow => WholeRow(rows, i)

Cancelled(r) == [r EXCEPT !.status = "cancelled"]
Relocated(r, start) == [r EXCEPT !.start = start, !.date = Date(start)]

\* What w, booking, cancelling, rescheduling or patching, has written so far, and what
\* it will have written when it commits.
Inserting(w) ==
    LET c == call[w]
    IN c.op = "book" =>
        /\ c.svc = "CB" => Date(c.target + 1) = Date(c.target) /\ c.id # c.partner
        /\ c.date = Date(c.target)
        /\ \A k \in Ids : dirty[w][k] # NoRow =>
              /\ db[k] = NoRow
              /\ \/ k = c.id /\ dirty[w][k] = NewRow(c, c.target, FALSE)
                 \/ /\ k = c.partner /\ c.svc = "CB"
                    /\ dirty[w][k] = NewRow(c, c.target + 1, TRUE)
        /\ pc[w] \in {"insert_cont", "sync", "commit"} => dirty[w][c.id] # NoRow
        /\ pc[w] \in {"sync", "commit"} /\ c.svc = "CB" => dirty[w][c.partner] # NoRow

\* Of the call, id, op and the rows' position are those of a row of the table.
Located(c) ==
    /\ db[c.id] # NoRow
    /\ Key(db[c.id]) = <<c.barber, c.date, c.start>>
    /\ db[c.id].cont = c.cont /\ db[c.id].svc = c.svc

\* The rows of the booking that row i belongs to.
Halves(i) == {j \in Ids : db[j] # NoRow /\ db[j].bk = db[i].bk}

Cancelling(w) ==
    LET c == call[w]
    IN c.op = "cancel" =>
        /\ Located(c)
        /\ \A k \in Ids : dirty[w][k] # NoRow =>
              k \in Halves(c.id) /\ dirty[w][k] = Cancelled(db[k])
        /\ pc[w] = "cancel_row" => dirty[w][c.id] = NoRow
        /\ pc[w] \in {"cancel_find", "cancel_partner", "commit"} => dirty[w][c.id] # NoRow
        /\ pc[w] \in {"cancel_row", "cancel_find", "cancel_partner"} =>
              \A k \in Ids \ {c.id} : dirty[w][k] = NoRow
        /\ pc[w] = "cancel_partner" => c.partner \in Halves(c.id) \ {c.id}
        /\ pc[w] = "commit" /\ CancelSeesAll =>
              \A j \in Halves(c.id) : db[j].status = "cancelled" \/ dirty[w][j] # NoRow

\* Where a reschedule to target puts the half r of the booking.
Place(c, r) == c.target + (IF r.cont THEN 1 ELSE 0)

Moving(w) ==
    LET c == call[w]
    IN c.op = "reschedule" =>
        /\ Located(c) /\ ~c.cont /\ db[c.id].status # "cancelled"
        /\ c.svc = "CB" => Date(c.target + 1) = Date(c.target)
        /\ pc[w] = "move_row" => dirty[w][c.id] = NoRow
        /\ pc[w] \in {"move_row", "move_find", "move_partner"} =>
              \A k \in Ids \ {c.id} : dirty[w][k] = NoRow
        /\ pc[w] \in {"move_find", "move_partner"} =>
              View(w)[c.id] = Relocated(db[c.id], c.target)
        /\ pc[w] = "move_partner" => c.partner \in Halves(c.id) \ {c.id}
        /\ pc[w] = "commit" => \A k \in Ids :
              View(w)[k] = IF k \in Halves(c.id) THEN Relocated(db[k], Place(c, db[k]))
                                                 ELSE db[k]

Patching(w) ==
    LET c == call[w]
    IN c.op = "patch" =>
        /\ db[c.id] # NoRow
        /\ \A k \in Ids : dirty[w][k] # NoRow =>
              k = c.id /\ dirty[w][k] = [db[k] EXCEPT !.status = c.status]
        /\ pc[w] = "patch_row" => dirty[w][c.id] = NoRow

Working(w) ==
    pc[w] # "idle" =>
        call[w].op \in Ops /\ Inserting(w) /\ Cancelling(w) /\ Moving(w) /\ Patching(w)

HalvesInv == Whole(db) /\ \A w \in Workers : Working(w)

-----------------------------------------------------------------------------
(* A table whose bookings are whole *)

\* find_cb_partner and find_cb_primary guess right: the row next to a half, with the
\* other tag, is the other half of the same booking, and the other half is there.
LEMMA OtherHalfIsNext ==
  ASSUME NEW rows \in [Ids -> Row \cup {NoRow}], Whole(rows), DistinctKeys(rows),
         NEW i \in Ids, NEW j \in Ids, rows[i] # NoRow, rows[j] # NoRow
  PROVE  (i # j /\ rows[i].bk = rows[j].bk) <=>
           /\ Key(rows[j]) = <<rows[i].barber, rows[i].date,
                               rows[i].start + (IF rows[i].cont THEN -1 ELSE 1)>>
           /\ rows[j].cont = ~rows[i].cont
<1>1. /\ rows[i] \in Row /\ rows[j] \in Row
      /\ rows[i].bk \in Ids /\ rows[j].bk \in Ids
      /\ rows[i].start \in Int /\ rows[j].start \in Int
      /\ rows[i].cont \in BOOLEAN /\ rows[j].cont \in BOOLEAN
  BY DEF Row, Starts
<1>2. WholeRow(rows, i) /\ WholeRow(rows, j)
  BY DEF Whole
<1>3. rows[rows[i].bk] \in Row /\ rows[rows[j].bk] \in Row
      /\ rows[rows[i].bk] # NoRow /\ rows[rows[j].bk] # NoRow
  BY <1>1, <1>2 DEF WholeRow
<1>4. rows[rows[i].bk].start \in Int /\ rows[rows[j].bk].start \in Int
  BY <1>3 DEF Row, Starts
<1>5. ASSUME i # j, rows[i].bk = rows[j].bk
      PROVE  /\ Key(rows[j]) = <<rows[i].barber, rows[i].date,
                                 rows[i].start + (IF rows[i].cont THEN -1 ELSE 1)>>
             /\ rows[j].cont = ~rows[i].cont
  <2>1. CASE rows[i].cont /\ rows[j].cont
    <3>1. Key(rows[i]) = Key(rows[j])
      BY <1>2, <1>5, <2>1 DEF WholeRow, Tied, Key
    <3> QED
      BY <1>5, <3>1 DEF DistinctKeys
  <2>2. CASE ~rows[i].cont /\ ~rows[j].cont
    BY <1>2, <1>5, <2>2 DEF WholeRow
  <2>3. CASE rows[i].cont /\ ~rows[j].cont
    <3>1. Tied(rows[j], rows[i])
      BY <1>2, <1>5, <2>3 DEF WholeRow
    <3> QED
      BY <1>1, <2>3, <3>1 DEF Tied, Key
  <2>4. CASE ~rows[i].cont /\ rows[j].cont
    <3>1. Tied(rows[i], rows[j])
      BY <1>2, <1>5, <2>4 DEF WholeRow
    <3> QED
      BY <1>1, <2>4, <3>1 DEF Tied, Key
  <2> QED
    BY <1>1, <2>1, <2>2, <2>3, <2>4
<1>6. ASSUME Key(rows[j]) = <<rows[i].barber, rows[i].date,
                              rows[i].start + (IF rows[i].cont THEN -1 ELSE 1)>>,
             rows[j].cont = ~rows[i].cont
      PROVE  i # j /\ rows[i].bk = rows[j].bk
  <2>1. CASE rows[i].cont
    <3>1. Key(rows[rows[i].bk]) = Key(rows[j])
      BY <1>1, <1>2, <1>4, <1>6, <2>1 DEF WholeRow, Tied, Key
    <3>2. rows[i].bk = j
      BY <1>1, <1>3, <3>1 DEF DistinctKeys
    <3> QED
      BY <1>1, <1>2, <1>6, <2>1, <3>2 DEF WholeRow
  <2>2. CASE ~rows[i].cont
    <3> rows[j].cont
      BY <1>6, <2>2
    <3> Tied(rows[rows[j].bk], rows[j])
      BY <1>2 DEF WholeRow
    <3>1. Key(rows[rows[j].bk]) = Key(rows[i])
      BY <1>1, <1>4, <1>6, <2>2 DEF Tied, Key
    <3>2. rows[j].bk = i
      BY <1>1, <1>3, <3>1 DEF DistinctKeys
    <3> QED
      BY <1>1, <1>2, <1>6, <2>2, <3>2 DEF WholeRow
  <2> QED
    BY <2>1, <2>2
<1> QED
  BY <1>5, <1>6

\* Every slot a booking holds is a row of it, under that slot's key.
LEMMA SlotHasRow ==
  ASSUME NEW rows \in [Ids -> Row \cup {NoRow}], Whole(rows),
         NEW i \in Ids, rows[i] # NoRow, ~rows[i].cont,
         NEW s, s = rows[i].start \/ (rows[i].svc = "CB" /\ s = rows[i].start + 1)
  PROVE  \E j \in Ids : /\ rows[j] # NoRow /\ rows[j].bk = i
                        /\ Key(rows[j]) = <<rows[i].barber, Date(s), s>>
<1>1. WholeRow(rows, i)
  BY DEF Whole
<1>2. CASE s = rows[i].start
  BY <1>1, <1>2 DEF WholeRow, Key
<1>3. CASE rows[i].svc = "CB" /\ s = rows[i].start + 1
  <2>1. PICK j \in Ids : rows[j] # NoRow /\ rows[j].cont /\ rows[j].bk = i
    BY <1>1, <1>3 DEF WholeRow
  <2>2. WholeRow(rows, j)
    BY <2>1 DEF Whole
  <2>3. Tied(rows[i], rows[j]) /\ rows[j].date = Date(rows[j].start)
    BY <2>1, <2>2 DEF WholeRow
  <2> QED
    BY <1>3, <2>1, <2>3 DEF Tied, Key
<1> QED
  BY <1>2, <1>3

\* The live bookings of a table.
Live(rows) == {i \in Ids : rows[i] # NoRow /\ ~rows[i].cont /\ rows[i].status # "cancelled"}
Entry(r) == [bk |-> r.bk, barber |-> r.barber, svc |-> r.svc, start |-> r.start]

\* Two live bookings of a whole table hold no slot in common: the hard guard on rows is
\* a guard on the time customers were promised.
LEMMA EntriesApart ==
  ASSUME NEW rows \in [Ids -> Row \cup {NoRow}], Whole(rows), DistinctKeys(rows),
         NEW i \in Live(rows), NEW k \in Live(rows), i # k
  PROVE  Calendar!Holds(Entry(rows[i])) \cap Calendar!Holds(Entry(rows[k])) = {}
<1> SUFFICES ASSUME NEW x \in Calendar!Holds(Entry(rows[i])),
                    x \in Calendar!Holds(Entry(rows[k]))
             PROVE  FALSE
  OBVIOUS
<1>1. ASSUME NEW m \in Live(rows), x \in Calendar!Holds(Entry(rows[m]))
      PROVE  \E j \in Ids : /\ rows[j] # NoRow /\ rows[j].bk = m
                            /\ Key(rows[j]) = <<x[1], Date(x[2]), x[2]>>
  <2>1. PICK s : /\ s = rows[m].start \/ (rows[m].svc = "CB" /\ s = rows[m].start + 1)
                 /\ x = <<rows[m].barber, s>>
    BY <1>1 DEF Calendar!Holds, Entry
  <2>2. x[1] = rows[m].barber /\ x[2] = s
    BY <2>1
  <2>3. m \in Ids /\ rows[m] # NoRow /\ ~rows[m].cont
    BY DEF Live
  <2> QED
    BY <2>1, <2>2, <2>3, SlotHasRow
<1>2. PICK j \in Ids : /\ rows[j] # NoRow /\ rows[j].bk = i
                       /\ Key(rows[j]) = <<x[1], Date(x[2]), x[2]>>
  BY <1>1
<1>3. PICK l \in Ids : /\ rows[l] # NoRow /\ rows[l].bk = k
                       /\ Key(rows[l]) = <<x[1], Date(x[2]), x[2]>>
  BY <1>1
<1> QED
  BY <1>2, <1>3 DEF DistinctKeys

-----------------------------------------------------------------------------
(* Statements that leave the committed table alone *)

\* A step of another request that commits nothing does not touch what w is doing.
LEMMA BystanderWorks ==
  ASSUME NEW w \in Workers, Working(w), db' = db,
         pc'[w] = pc[w], call'[w] = call[w], dirty'[w] = dirty[w]
  PROVE  Working(w)'
<1>1. View(w)' = View(w)
  BY DEF View
<1>2. Inserting(w) => Inserting(w)'
  BY DEF Inserting, NewRow
<1>3. Cancelling(w) => Cancelling(w)'
  BY DEF Cancelling, Located, Halves
<1>4. Moving(w) => Moving(w)'
  BY <1>1 DEF Moving, Located, Halves, Place
<1>5. Patching(w) => Patching(w)'
  BY DEF Patching
<1> QED
  BY <1>2, <1>3, <1>4, <1>5 DEF Working

LEMMA OwnStep ==
  ASSUME HalvesInv, NEW w \in Workers, db' = db,
         \A u \in Workers : u # w =>
            pc'[u] = pc[u] /\ call'[u] = call[u] /\ dirty'[u] = dirty[u],
         Working(w)'
  PROVE  HalvesInv'
<1>1. \A u \in Workers : Working(u)'
  BY BystanderWorks DEF HalvesInv
<1> QED
  BY <1>1 DEF HalvesInv

\* A request that fails keeps what it wrote, or loses it to the deadlock detector.
LEMMA FailedWorks ==
  ASSUME TypeInv, HalvesInv, NEW w \in Workers, pc[w] # "idle", db' = db, call' = call,
         pc' = [pc EXCEPT ![w] = "failed"], dirty' \in {dirty, [dirty EXCEPT ![w] = Clean]}
  PROVE  HalvesInv'
<1>1. /\ \A u \in Workers : u # w => pc'[u] = pc[u] /\ dirty'[u] = dirty[u]
      /\ pc'[w] = "failed" /\ \A k \in Ids : dirty'[w][k] \in {dirty[w][k], NoRow}
  BY DEF TypeInv, TypeOK, Clean
<1>2. Working(w)
  BY DEF HalvesInv
<1>3. Inserting(w)'
  BY <1>1, <1>2 DEF Working, Inserting, NewRow
<1>4. Cancelling(w)'
  BY <1>1, <1>2 DEF Working, Cancelling, Located, Halves
<1>5. Moving(w)'
  BY <1>1, <1>2 DEF Working, Moving, Located
<1>6. Patching(w)'
  BY <1>1, <1>2 DEF Working, Patching
<1>7. Working(w)'
  BY <1>2, <1>3, <1>4, <1>5, <1>6 DEF Working
<1> QED
  BY <1>1, <1>7, OwnStep

\* A flush writes its row, or fails.
LEMMA FlushWorks ==
  ASSUME TypeInv, HalvesInv, NEW w \in Workers, pc[w] # "idle",
         NEW i \in Ids, NEW row, NEW next \in Pc, Flush(w, i, row, next),
         (/\ pc'[w] = next /\ call'[w] = call[w]
          /\ \A k \in Ids : dirty'[w][k] = IF k = i THEN row ELSE dirty[w][k])
           => Working(w)'
  PROVE  HalvesInv'
<1>1. CASE KeyTaken(w, i, row) /\ pc' = [pc EXCEPT ![w] = "failed"] /\ dirty' = dirty
  BY <1>1, FailedWorks DEF Flush
<1>2. CASE /\ dirty' = [dirty EXCEPT ![w] = [dirty[w] EXCEPT ![i] = row]]
           /\ pc' = [pc EXCEPT ![w] = next]
  <2>1. /\ \A u \in Workers : u # w => pc'[u] = pc[u] /\ dirty'[u] = dirty[u]
        /\ pc'[w] = next
        /\ \A k \in Ids : dirty'[w][k] = IF k = i THEN row ELSE dirty[w][k]
        /\ db' = db /\ call' = call
    BY <1>2 DEF Flush, TypeInv, TypeOK
  <2> QED
    BY <2>1, OwnStep
<1> QED
  BY <1>1, <1>2 DEF Flush

\* The rows of a request that has written nothing yet.
LEMMA StartWorks ==
  ASSUME TypeInv, HalvesInv, NEW w \in Workers, NEW c, NEW next \in Pc, Start(w, c, next),
         c.op \in Ops, Whole(db)
  PROVE  /\ \A k \in Ids : dirty'[w][k] = NoRow
         /\ pc'[w] = next /\ call'[w] = c /\ db' = db
         /\ Working(w)' => HalvesInv'
<1>1. /\ call' = [call EXCEPT ![w] = c] /\ pc' = [pc EXCEPT ![w] = next]
      /\ db' = db /\ dirty' = dirty /\ pc[w] = "idle"
  BY DEF Start, Goto
<1>2. /\ \A u \in Workers : u # w => pc'[u] = pc[u] /\ call'[u] = call[u]
      /\ pc'[w] = next /\ call'[w] = c
  BY <1>1 DEF TypeInv, TypeOK
<1>3. \A k \in Ids : dirty'[w][k] = NoRow
  BY <1>1 DEF TypeInv, TypeOK, Clean
<1> QED
  BY <1>1, <1>2, <1>3, OwnStep

LEMMA BookPlanWorks ==
  ASSUME TypeInv, HalvesInv, NEW w \in Workers, NEW svc \in Services, NEW barber \in Barbers,
         NEW target \in Starts, NEW i \in Ids, NEW j \in Ids,
         BookPlan(w, svc, barber, target, i, j)
  PROVE  HalvesInv'
<1> DEFINE c == [op |-> "book", id |-> i, partner |-> j, barber |-> barber, svc |-> svc,
                 date |-> Date(target), start |-> target, target |-> target,
                 status |-> "pending", cont |-> FALSE]
<1>1. /\ c.op = "book" /\ c.svc = svc /\ c.target = target /\ c.date = Date(target)
      /\ c.id = i /\ c.partner = j
  OBVIOUS
<1>2. svc = "CB" => Date(target + 1) = Date(target) /\ i # j
  BY DEF BookPlan, Plannable, Slots
<1>3. Start(w, c, "insert") /\ c.op \in Ops
  BY DEF BookPlan
<1> HIDE DEF c
<1>4. /\ \A k \in Ids : dirty'[w][k] = NoRow
      /\ pc'[w] = "insert" /\ call'[w] = c
      /\ Working(w)' => HalvesInv'
  BY <1>3, StartWorks DEF Pc, HalvesInv
<1>5. Inserting(w)'
  BY <1>1, <1>2, <1>4 DEF Inserting
<1>6. Cancelling(w)' /\ Moving(w)' /\ Patching(w)'
  BY <1>1, <1>4 DEF Cancelling, Moving, Patching
<1> QED
  BY <1>3, <1>4, <1>5, <1>6 DEF Working

\* A request on a stored row starts where it found it.
LEMMA LoadWorks ==
  ASSUME TypeInv, HalvesInv, NEW w \in Workers, NEW i \in Ids, db[i] # NoRow,
         NEW c \in Call, NEW next \in {"cancel_row", "move_row", "patch_row"},
         Start(w, c, next), c.op \in Ops, c.id = i,
         <<c.barber, c.date, c.start>> = Key(db[i]), c.cont = db[i].cont, c.svc = db[i].svc,
         \/ next = "cancel_row" /\ c.op = "cancel"
         \/ /\ next = "move_row" /\ c.op = "reschedule"
            /\ ~c.cont /\ db[i].status # "cancelled"
            /\ c.svc = "CB" => Date(c.target + 1) = Date(c.target)
         \/ next = "patch_row" /\ c.op = "patch"
  PROVE  HalvesInv'
<1>1. /\ \A k \in Ids : dirty'[w][k] = NoRow
      /\ pc'[w] = next /\ call'[w] = c /\ db' = db
      /\ Working(w)' => HalvesInv'
  BY StartWorks DEF Pc, HalvesInv
<1>2. Inserting(w)'
  BY <1>1 DEF Inserting
<1>3. Cancelling(w)'
  BY <1>1 DEF Cancelling, Located
<1>4. Moving(w)'
  BY <1>1 DEF Moving, Located
<1>5. Patching(w)'
  BY <1>1 DEF Patching
<1> QED
  BY <1>1, <1>2, <1>3, <1>4, <1>5 DEF Working

LEMMA RequestWorks ==
  ASSUME Orderly, TypeInv, HalvesInv, NEW w \in Workers, Request(w)
  PROVE  HalvesInv'
<1>1. ASSUME NEW svc \in Services, NEW barber \in Barbers, NEW target \in Starts,
             NEW i \in Ids, NEW j \in Ids, BookPlan(w, svc, barber, target, i, j)
      PROVE  HalvesInv'
  BY <1>1, BookPlanWorks
<1>2. ASSUME NEW i \in Ids, CancelRead(w, i) PROVE HalvesInv'
  <2> DEFINE r == db[i]
             c == [op |-> "cancel", id |-> i, partner |-> i, barber |-> r.barber, svc |-> r.svc,
                   date |-> r.date, start |-> r.start, target |-> r.start,
                   status |-> "cancelled", cont |-> r.cont]
  <2>1. db[i] \in Row
    BY <1>2 DEF CancelRead, TypeInv, TypeOK
  <2>2. c \in Call
    BY <2>1 DEF Row, Call, Status
  <2>3. Start(w, c, "cancel_row") /\ c.op \in Ops /\ db[i] # NoRow
    BY <1>2 DEF CancelRead
  <2>4. /\ c.op = "cancel" /\ c.id = i /\ <<c.barber, c.date, c.start>> = Key(db[i])
        /\ c.cont = db[i].cont /\ c.svc = db[i].svc
    BY DEF Key
  <2> HIDE DEF c
  <2> QED
    BY <2>2, <2>3, <2>4, LoadWorks
<1>3. ASSUME NEW i \in Ids, NEW target \in Starts, RescheduleRead(w, i, target)
      PROVE  HalvesInv'
  <2> DEFINE r == db[i]
             c == [op |-> "reschedule", id |-> i, partner |-> i, barber |-> r.barber,
                   svc |-> r.svc, date |-> r.date, start |-> r.start, target |-> target,
                   status |-> r.status, cont |-> r.cont]
  <2>1. db[i] \in Row
    BY <1>3 DEF RescheduleRead, TypeInv, TypeOK
  <2>2. c \in Call
    BY <2>1 DEF Row, Call, Status
  <2>3. Start(w, c, "move_row") /\ c.op \in Ops /\ db[i] # NoRow
    BY <1>3 DEF RescheduleRead
  <2>4. /\ c.op = "reschedule" /\ c.id = i /\ <<c.barber, c.date, c.start>> = Key(db[i])
        /\ c.cont = db[i].cont /\ c.svc = db[i].svc /\ c.target = target
    BY DEF Key
  <2>5. ~db[i].cont
    BY <1>3 DEF RescheduleRead, Orderly
  <2>6. db[i].status # "cancelled" /\ (db[i].svc = "CB" => Date(target + 1) = Date(target))
    BY <1>3 DEF RescheduleRead, Plannable, Slots
  <2> HIDE DEF c
  <2> QED
    BY <2>2, <2>3, <2>4, <2>5, <2>6, LoadWorks
<1>4. ASSUME NEW i \in Ids, NEW status \in Status, PatchRead(w, i, status)
      PROVE  HalvesInv'
  <2> DEFINE r == db[i]
             c == [op |-> "patch", id |-> i, partner |-> i, barber |-> r.barber, svc |-> r.svc,
                   date |-> r.date, start |-> r.start, target |-> r.start,
                   status |-> status, cont |-> r.cont]
  <2>1. db[i] \in Row
    BY <1>4 DEF PatchRead, TypeInv, TypeOK
  <2>2. c \in Call
    BY <2>1 DEF Row, Call, Status
  <2>3. Start(w, c, "patch_row") /\ c.op \in Ops /\ db[i] # NoRow
    BY <1>4 DEF PatchRead
  <2>4. /\ c.op = "patch" /\ c.id = i /\ <<c.barber, c.date, c.start>> = Key(db[i])
        /\ c.cont = db[i].cont /\ c.svc = db[i].svc /\ c.status = status
    BY DEF Key
  <2> HIDE DEF c
  <2> QED
    BY <2>2, <2>3, <2>4, LoadWorks
<1> QED
  BY <1>1, <1>2, <1>3, <1>4 DEF Request

-----------------------------------------------------------------------------
(* The statements of a request in progress *)

\* What is known of a request at work.
LEMMA AtWork ==
  ASSUME TypeInv, HistInv, HalvesInv, NEW w \in Workers, pc[w] # "idle"
  PROVE  /\ call[w] \in Call /\ call[w].id \in Ids /\ call[w].partner \in Ids
         /\ call[w].target \in Int /\ call[w].start \in Int /\ call[w].cont \in BOOLEAN
         /\ StageFits(w, pc[w]) /\ CallFits(w, pc[w])
         /\ call[w].op \in Ops
         /\ Inserting(w) /\ Cancelling(w) /\ Moving(w) /\ Patching(w)
  BY Busy DEF Call, Starts, HistInv, TypeInv, HalvesInv, Working

LEMMA InsertPrimaryWorks ==
  ASSUME TypeInv, HistInv, HalvesInv, NEW w \in Workers, InsertPrimary(w)
  PROVE  HalvesInv'
<1> DEFINE c == call[w]
           next == IF c.svc = "CB" THEN "insert_cont" ELSE AfterInsert
           row == NewRow(c, c.target, FALSE)
<1>1. pc[w] = "insert" /\ Flush(w, c.id, row, next)
  BY DEF InsertPrimary
<1>2. /\ c.id \in Ids /\ c.op = "book" /\ db[c.id] = NoRow /\ next \in Pc
      /\ call[w].op \in Ops /\ Inserting(w)
  BY <1>1, AtWork DEF StageFits, HistInv, Reserved, ToInsert, AfterInsert, Pc
<1>3. row # NoRow
  BY <1>1, AtWork, RowTypes, ValueAssumption DEF Call
<1>4. ASSUME pc'[w] = next, call'[w] = c,
             \A k \in Ids : dirty'[w][k] = IF k = c.id THEN row ELSE dirty[w][k]
      PROVE  Working(w)'
  <2>1. NewRow(call[w], c.target, FALSE)' = row
        /\ NewRow(call[w], c.target + 1, TRUE)' = NewRow(c, c.target + 1, TRUE)
    BY <1>4 DEF NewRow
  <2>2. db' = db
    BY <1>1 DEF Flush
  <2>3. Inserting(w)'
    <3> USE <1>1, <1>2, <1>3, <1>4, <2>1, <2>2
    <3>1. ASSUME NEW k \in Ids, dirty'[w][k] # NoRow
          PROVE  /\ db'[k] = NoRow
                 /\ \/ k = c.id /\ dirty'[w][k] = row
                    \/ /\ k = c.partner /\ c.svc = "CB"
                       /\ dirty'[w][k] = NewRow(c, c.target + 1, TRUE)
      BY <3>1 DEF Inserting
    <3>2. pc'[w] \in {"sync", "commit"} => c.svc # "CB"
      BY DEF AfterInsert
    <3>3. /\ c.svc = "CB" => Date(c.target + 1) = Date(c.target) /\ c.id # c.partner
          /\ c.date = Date(c.target)
      BY DEF Inserting
    <3> HIDE DEF c, row, next
    <3> QED
      BY <3>1, <3>2, <3>3 DEF Inserting, c, row
  <2> HIDE DEF row, next
  <2>4. Cancelling(w)' /\ Moving(w)' /\ Patching(w)'
    BY <1>2, <1>4 DEF Cancelling, Moving, Patching
  <2> QED
    BY <1>2, <1>4, <2>3, <2>4 DEF Working
<1> HIDE DEF row, next
<1> QED
  BY <1>1, <1>2, <1>4, FlushWorks

LEMMA InsertContinuationWorks ==
  ASSUME TypeInv, HistInv, HalvesInv, NEW w \in Workers, InsertContinuation(w)
  PROVE  HalvesInv'
<1> DEFINE c == call[w]
           row == NewRow(c, c.target + 1, TRUE)
<1>1. pc[w] = "insert_cont" /\ Flush(w, c.partner, row, AfterInsert)
  BY DEF InsertContinuation
<1>2. /\ c.partner \in Ids /\ c.id \in Ids /\ c.op = "book" /\ db[c.partner] = NoRow
      /\ AfterInsert \in Pc
      /\ call[w].op \in Ops /\ Inserting(w) /\ c.svc = "CB"
  BY <1>1, AtWork DEF StageFits, CallFits, HistInv, Reserved, ToInsert, AfterInsert, Pc
<1>3. row # NoRow
  BY <1>1, AtWork, RowTypes, ValueAssumption DEF CallFits
<1>4. ASSUME pc'[w] = AfterInsert, call'[w] = c,
             \A k \in Ids : dirty'[w][k] = IF k = c.partner THEN row ELSE dirty[w][k]
      PROVE  Working(w)'
  <2>1. NewRow(call[w], c.target, FALSE)' = NewRow(c, c.target, FALSE)
        /\ NewRow(call[w], c.target + 1, TRUE)' = row
    BY <1>4 DEF NewRow
  <2>2. db' = db
    BY <1>1 DEF Flush
  <2>3. Inserting(w)'
    <3> USE <1>1, <1>2, <1>3, <1>4, <2>1, <2>2
    <3>1. ASSUME NEW k \in Ids, dirty'[w][k] # NoRow
          PROVE  /\ db'[k] = NoRow
                 /\ \/ k = c.id /\ dirty'[w][k] = NewRow(c, c.target, FALSE)
                    \/ k = c.partner /\ c.svc = "CB" /\ dirty'[w][k] = row
      BY <3>1 DEF Inserting
    <3>2. dirty'[w][c.id] # NoRow /\ dirty'[w][c.partner] # NoRow
      BY DEF Inserting
    <3>3. /\ c.svc = "CB" => Date(c.target + 1) = Date(c.target) /\ c.id # c.partner
          /\ c.date = Date(c.target)
      BY DEF Inserting
    <3> HIDE DEF c, row
    <3> QED
      BY <3>1, <3>2, <3>3 DEF Inserting, c, row
  <2> HIDE DEF row
  <2>4. Cancelling(w)' /\ Moving(w)' /\ Patching(w)'
    BY <1>2, <1>4 DEF Cancelling, Moving, Patching
  <2> QED
    BY <1>2, <1>4, <2>3, <2>4 DEF Working
<1> HIDE DEF row
<1> QED
  BY <1>1, <1>2, <1>4, FlushWorks

LEMMA SyncWorks ==
  ASSUME TypeInv, HistInv, HalvesInv, NEW w \in Workers, SyncToSheets(w)
  PROVE  HalvesInv'
<1>1. /\ pc[w] = "sync" /\ pc'[w] = "commit" /\ UNCHANGED <<db, dirty, call>>
      /\ \A u \in Workers : u # w => pc'[u] = pc[u]
  BY DEF SyncToSheets, TypeInv, TypeOK
<1>2. call[w].op = "book" /\ call[w].op \in Ops /\ Inserting(w)
  BY <1>1, AtWork DEF StageFits
<1>3. Inserting(w)' /\ Cancelling(w)' /\ Moving(w)' /\ Patching(w)'
  BY <1>1, <1>2 DEF Inserting, NewRow, Cancelling, Moving, Patching
<1>4. Working(w)'
  BY <1>1, <1>2, <1>3 DEF Working
<1> QED
  BY <1>1, <1>4, OwnStep

\* An UPDATE of the status of a row not written before.
LEMMA StatusOf ==
  ASSUME TypeInv, NEW w \in Workers, NEW i \in Ids, dirty[w][i] = NoRow
  PROVE  WithStatus(w, i) = [db[i] EXCEPT !.status = call[w].status]
  BY DEF WithStatus, View

LEMMA CancelRowWorks ==
  ASSUME TypeInv, HistInv, HalvesInv, NEW w \in Workers, CancelRow(w)
  PROVE  HalvesInv'
<1> DEFINE c == call[w]
           row == WithStatus(w, c.id)
<1>1. pc[w] = "cancel_row" /\ Flush(w, c.id, row, "cancel_find")
  BY DEF CancelRow
<1>2. /\ c.id \in Ids /\ c.op = "cancel" /\ c.status = "cancelled"
      /\ c.op \in Ops /\ Cancelling(w) /\ View(w)[c.id] # NoRow
  BY <1>1, AtWork DEF StageFits, CallFits
<1>3. Located(c) /\ \A k \in Ids : dirty[w][k] = NoRow
  BY <1>1, <1>2 DEF Cancelling
<1>4. row = Cancelled(db[c.id])
  BY <1>2, <1>3, StatusOf DEF Cancelled
<1>5. row # NoRow
  BY <1>1, <1>2, AtWork, RowTypes, ValueAssumption
<1> HIDE DEF row
<1>6. ASSUME pc'[w] = "cancel_find", call'[w] = c,
             \A k \in Ids : dirty'[w][k] = IF k = c.id THEN row ELSE dirty[w][k]
      PROVE  Working(w)'
  <2>1. db' = db
    BY <1>1 DEF Flush
  <2>2. Cancelling(w)'
    BY <1>2, <1>3, <1>4, <1>5, <1>6, <2>1 DEF Cancelling, Located, Halves
  <2>3. Inserting(w)' /\ Moving(w)' /\ Patching(w)'
    BY <1>2, <1>6 DEF Inserting, Moving, Patching
  <2> QED
    BY <1>2, <1>6, <2>2, <2>3 DEF Working
<1> QED
  BY <1>1, <1>2, <1>6, FlushWorks DEF Pc

LEMMA CancelPartnerWorks ==
  ASSUME TypeInv, SlotInv, HistInv, HalvesInv, NEW w \in Workers, CancelPartner(w)
  PROVE  HalvesInv'
<1> DEFINE c == call[w]
           row == WithStatus(w, c.partner)
<1>1. pc[w] = "cancel_partner" /\ Flush(w, c.partner, row, "commit")
  BY DEF CancelPartner
<1>2. /\ c.id \in Ids /\ c.partner \in Ids /\ c.op = "cancel" /\ c.status = "cancelled"
      /\ c.op \in Ops /\ Cancelling(w) /\ View(w)[c.partner] # NoRow
  BY <1>1, AtWork DEF StageFits, CallFits
<1>3. /\ Located(c) /\ c.partner \in Halves(c.id) \ {c.id}
      /\ dirty[w][c.id] # NoRow /\ \A k \in Ids \ {c.id} : dirty[w][k] = NoRow
      /\ dirty[w][c.id] = Cancelled(db[c.id])
  BY <1>1, <1>2 DEF Cancelling
<1>4. row = Cancelled(db[c.partner])
  BY <1>2, <1>3, StatusOf DEF Cancelled
<1>5. row # NoRow
  BY <1>1, <1>2, AtWork, RowTypes, ValueAssumption
<1>6. Halves(c.id) = {c.id, c.partner}
  <2>1. ASSUME NEW j \in Halves(c.id), j # c.id PROVE j = c.partner
    <3>1. j \in Ids /\ db[j] # NoRow /\ db[j].bk = db[c.id].bk
      BY DEF Halves
    <3>2. /\ db[c.partner] # NoRow /\ db[c.partner].bk = db[c.id].bk /\ c.partner # c.id
          /\ db[c.id] # NoRow
      BY <1>3 DEF Halves, Located
    <3>3. Whole(db) /\ DistinctKeys(db) /\ db \in [Ids -> Row \cup {NoRow}]
      BY DEF HalvesInv, SlotInv, UniqueSlot, TypeInv, TypeOK
    <3>4. Key(db[j]) = Key(db[c.partner])
      BY <1>2, <2>1, <3>1, <3>2, <3>3, OtherHalfIsNext
    <3> QED
      BY <1>2, <3>1, <3>2, <3>3, <3>4 DEF DistinctKeys
  <2> QED
    BY <1>2, <1>3, <2>1 DEF Halves, Located
<1> HIDE DEF row
<1>7. ASSUME pc'[w] = "commit", call'[w] = c,
             \A k \in Ids : dirty'[w][k] = IF k = c.partner THEN row ELSE dirty[w][k]
      PROVE  Working(w)'
  <2>1. db' = db
    BY <1>1 DEF Flush
  <2>2. Halves(c.id)' = Halves(c.id) /\ Located(c)'
    BY <1>3, <1>7, <2>1 DEF Halves, Located
  <2>3. \A k \in Ids : dirty'[w][k] # NoRow => k \in {c.id, c.partner}
    BY <1>3, <1>7
  <2>4. Cancelling(w)'
    BY <1>2, <1>3, <1>4, <1>5, <1>6, <1>7, <2>1, <2>2, <2>3 DEF Cancelling, Located, Halves
  <2>5. Inserting(w)' /\ Moving(w)' /\ Patching(w)'
    BY <1>2, <1>7 DEF Inserting, Moving, Patching
  <2> QED
    BY <1>2, <1>7, <2>4, <2>5 DEF Working
<1> QED
  BY <1>1, <1>2, <1>7, FlushWorks DEF Pc

\* A table of whole bookings with one row per slot, as SlotInv and HalvesInv have it.
LEMMA TableFacts ==
  ASSUME TypeInv, SlotInv, HalvesInv
  PROVE  Whole(db) /\ DistinctKeys(db) /\ db \in [Ids -> Row \cup {NoRow}]
  BY DEF HalvesInv, SlotInv, UniqueSlot, TypeInv, TypeOK

\* The row next to row id, in the view of a request that has written no other: the other
\* half of its booking, found when it is there.
LEMMA FoundHalf ==
  ASSUME TypeInv, SlotInv, HalvesInv, NEW w \in Workers, NEW i \in Ids, db[i] # NoRow,
         dirty[w][i] # NoRow => dirty[w][i].cont = db[i].cont,
         \A k \in Ids \ {i} : dirty[w][k] = NoRow
  PROVE  OtherHalf(View(w), db[i].barber, db[i].date, db[i].start,
                   IF db[i].cont THEN -1 ELSE 1, ~db[i].cont) = Halves(i) \ {i}
<1> DEFINE step == IF db[i].cont THEN -1 ELSE 1
<1>1. Whole(db) /\ DistinctKeys(db) /\ db \in [Ids -> Row \cup {NoRow}]
  BY TableFacts
<1>2. db[i] \in Row /\ db[i].cont \in BOOLEAN
  BY <1>1 DEF Row
<1>3. ASSUME NEW j \in Ids
      PROVE  j \in OtherHalf(View(w), db[i].barber, db[i].date, db[i].start, step, ~db[i].cont)
               <=> j \in Halves(i) \ {i}
  <2>1. CASE j = i
    <3>1. View(w)[i].cont = db[i].cont
      BY DEF View
    <3> QED
      BY <1>2, <2>1, <3>1 DEF OtherHalf
  <2>2. CASE j # i
    <3>1. View(w)[j] = db[j]
      BY <2>2 DEF View
    <3>2. CASE db[j] = NoRow
      BY <2>2, <3>1, <3>2 DEF OtherHalf, Halves
    <3>3. CASE db[j] # NoRow
      <4>1. (db[i].bk = db[j].bk) <=>
              /\ Key(db[j]) = <<db[i].barber, db[i].date, db[i].start + step>>
              /\ db[j].cont = ~db[i].cont
        BY <1>1, <2>2, <3>3, OtherHalfIsNext
      <4> HIDE DEF step
      <4> QED
        BY <2>2, <3>1, <3>3, <4>1 DEF OtherHalf, Halves
    <3> QED
      BY <3>2, <3>3
  <2> QED
    BY <2>1, <2>2
<1> HIDE DEF step
<1>4. OtherHalf(View(w), db[i].barber, db[i].date, db[i].start, step, ~db[i].cont)
        = Halves(i) \ {i}
  BY <1>3 DEF OtherHalf, Halves
<1> QED
  BY <1>4 DEF step

\* The two ends of the look-up of the other half.
LEMMA FindEnds ==
  ASSUME TypeInv, NEW w \in Workers, NEW found, NEW next \in Pc, WithPartner(w, found, next)
  PROVE  /\ db' = db /\ dirty' = dirty
         /\ \A u \in Workers : u # w => pc'[u] = pc[u] /\ call'[u] = call[u]
         /\ \/ found = {} /\ pc'[w] = "commit" /\ call'[w] = call[w]
            \/ \E i \in found : pc'[w] = next /\ call'[w] = [call[w] EXCEPT !.partner = i]
<1>1. CASE found = {} /\ UNCHANGED call /\ Goto(w, "commit")
  BY <1>1 DEF Goto, TypeInv, TypeOK
<1>2. ASSUME NEW i \in found, call' = [call EXCEPT ![w].partner = i], Goto(w, next)
      PROVE  /\ db' = db /\ dirty' = dirty
             /\ \A u \in Workers : u # w => pc'[u] = pc[u] /\ call'[u] = call[u]
             /\ pc'[w] = next /\ call'[w] = [call[w] EXCEPT !.partner = i]
  BY <1>2 DEF Goto, TypeInv, TypeOK
<1> QED
  BY <1>1, <1>2 DEF WithPartner

LEMMA CancelFindWorks ==
  ASSUME TypeInv, SlotInv, HistInv, HalvesInv, NEW w \in Workers, CancelFind(w)
  PROVE  HalvesInv'
<1> DEFINE c == call[w]
           next == {i \in Halves(c.id) \ {c.id} : View(w)[i].status # "cancelled"}
<1>1. pc[w] = "cancel_find"
  BY DEF CancelFind
<1>2. /\ c \in Call /\ c.id \in Ids /\ c.op = "cancel" /\ c.op \in Ops /\ Cancelling(w)
  BY <1>1, AtWork DEF StageFits
<1>3. /\ Located(c) /\ dirty[w][c.id] # NoRow /\ dirty[w][c.id] = Cancelled(db[c.id])
      /\ \A k \in Ids \ {c.id} : dirty[w][k] = NoRow
  BY <1>1, <1>2 DEF Cancelling
<1>4. /\ c.barber = db[c.id].barber /\ c.date = db[c.id].date /\ c.start = db[c.id].start
      /\ c.cont = db[c.id].cont
  BY <1>3 DEF Located, Key
<1>5. dirty[w][c.id].cont = db[c.id].cont
  BY <1>2, <1>3 DEF Cancelled, Located, TypeInv, TypeOK, Row
<1>6. OtherHalf(View(w), c.barber, c.date, c.start, IF c.cont THEN -1 ELSE 1, ~c.cont)
        = Halves(c.id) \ {c.id}
  BY <1>2, <1>3, <1>4, <1>5, FoundHalf DEF Located
<1>7. WithPartner(w, next, "cancel_partner")
  BY <1>6 DEF CancelFind
<1> HIDE DEF next
<1>8. /\ db' = db /\ dirty' = dirty
      /\ \A u \in Workers : u # w => pc'[u] = pc[u] /\ call'[u] = call[u]
      /\ \/ next = {} /\ pc'[w] = "commit" /\ call'[w] = call[w]
         \/ \E i \in next : pc'[w] = "cancel_partner"
                            /\ call'[w] = [call[w] EXCEPT !.partner = i]
  BY <1>7, FindEnds DEF Pc
<1>9. CASE next = {} /\ pc'[w] = "commit" /\ call'[w] = call[w]
  <2>1. \A j \in Halves(c.id) : db[j].status = "cancelled" \/ dirty[w][j] # NoRow
    BY <1>3, <1>9 DEF next, Halves, View
  <2>2. Cancelling(w)'
    BY <1>2, <1>3, <1>8, <1>9, <2>1 DEF Cancelling, Located, Halves
  <2>3. Inserting(w)' /\ Moving(w)' /\ Patching(w)'
    BY <1>2, <1>9 DEF Inserting, Moving, Patching
  <2>4. Working(w)'
    BY <1>2, <1>9, <2>2, <2>3 DEF Working
  <2> QED
    BY <1>8, <2>4, OwnStep
<1>10. ASSUME NEW i \in next, pc'[w] = "cancel_partner",
              call'[w] = [call[w] EXCEPT !.partner = i]
       PROVE  HalvesInv'
  <2> DEFINE d == [call[w] EXCEPT !.partner = i]
  <2>1. /\ d.op = c.op /\ d.id = c.id /\ d.partner = i /\ d.barber = c.barber
        /\ d.date = c.date /\ d.start = c.start /\ d.cont = c.cont /\ d.svc = c.svc
    BY <1>2 DEF Call
  <2>2. call'[w] = d
    BY <1>10
  <2> HIDE DEF d
  <2>3. i \in Halves(c.id) \ {c.id}
    BY DEF next
  <2>4. Located(call[w])' /\ Halves(call[w].id)' = Halves(c.id)
    BY <1>3, <1>8, <2>1, <2>2 DEF Located, Halves
  <2>5. Cancelling(w)'
    BY <1>2, <1>3, <1>8, <1>10, <2>1, <2>2, <2>3, <2>4 DEF Cancelling, Halves, Located
  <2>6. Inserting(w)' /\ Moving(w)' /\ Patching(w)'
    BY <1>2, <2>1, <2>2 DEF Inserting, Moving, Patching
  <2>7. Working(w)'
    BY <1>2, <2>1, <2>2, <2>5, <2>6 DEF Working
  <2> QED
    BY <1>8, <2>7, OwnStep
<1> QED
  BY <1>8, <1>9, <1>10

LEMMA PatchRowWorks ==
  ASSUME TypeInv, HistInv, HalvesInv, NEW w \in Workers, PatchRow(w)
  PROVE  HalvesInv'
<1> DEFINE c == call[w]
           row == WithStatus(w, c.id)
<1>1. pc[w] = "patch_row" /\ Flush(w, c.id, row, "commit")
  BY DEF PatchRow
<1>2. /\ c.id \in Ids /\ c.op = "patch" /\ c.op \in Ops /\ Patching(w)
      /\ View(w)[c.id] # NoRow
  BY <1>1, AtWork DEF StageFits, CallFits
<1>3. row = [db[c.id] EXCEPT !.status = c.status]
  BY <1>1, <1>2, StatusOf DEF Patching
<1>4. row # NoRow
  BY <1>1, <1>2, AtWork, RowTypes, ValueAssumption
<1> HIDE DEF row
<1>5. ASSUME pc'[w] = "commit", call'[w] = c,
             \A k \in Ids : dirty'[w][k] = IF k = c.id THEN row ELSE dirty[w][k]
      PROVE  Working(w)'
  <2>1. db' = db
    BY <1>1 DEF Flush
  <2>2. Patching(w)'
    BY <1>2, <1>3, <1>4, <1>5, <2>1 DEF Patching
  <2>3. Inserting(w)' /\ Moving(w)' /\ Cancelling(w)'
    BY <1>2, <1>5 DEF Inserting, Moving, Cancelling
  <2> QED
    BY <1>2, <1>5, <2>2, <2>3 DEF Working
<1> QED
  BY <1>1, <1>2, <1>5, FlushWorks DEF Pc

\* The columns a reschedule writes, and the ones it leaves out because their new value is
\* the loaded one, come to the same row: the old one at its new place.
LEMMA MovedRow ==
  ASSUME TypeInv, NEW w \in Workers, pc[w] # "idle", NEW i \in Ids, db[i] # NoRow,
         dirty[w][i] = NoRow, NEW offset \in {0, 1},
         db[i].date = call[w].date, db[i].start = call[w].start + offset,
         Date(call[w].target + offset) = Date(call[w].target)
  PROVE  /\ Unmoved(call[w]) => Relocated(db[i], call[w].target + offset) = db[i]
         /\ ~Unmoved(call[w]) =>
              Moved(w, i, offset) = Relocated(db[i], call[w].target + offset)
<1> DEFINE c == call[w]
           r == db[i]
<1>1. r \in Row /\ View(w)[i] = r
  BY DEF View, TypeInv, TypeOK
<1>2. c.target \in Int /\ c.start \in Int
  BY Busy DEF Call, Starts
<1>3. /\ \A s, d :
           [r EXCEPT !.start = s, !.date = d] = [[r EXCEPT !.date = d] EXCEPT !.start = s]
      /\ \A d : d = r.date => [r EXCEPT !.date = d] = r
      /\ \A d, s : s = r.start =>
           [[r EXCEPT !.date = d] EXCEPT !.start = s] = [r EXCEPT !.date = d]
  BY <1>1 DEF Row
<1>4. Dated(r, c) = [r EXCEPT !.date = Date(c.target)]
  BY <1>3 DEF Dated
<1>5. Relocated(r, c.target + offset)
        = [[r EXCEPT !.date = Date(c.target)] EXCEPT !.start = c.target + offset]
  BY <1>3 DEF Relocated
<1> DEFINE new == Relocated(r, c.target + offset)
<1> HIDE DEF c, r
<1>6. CASE Unmoved(c)
  <2>1. c.target + offset = r.start /\ Date(c.target) = r.date
    BY <1>2, <1>6 DEF Unmoved, c, r
  <2>2. new = [r EXCEPT !.date = Date(c.target)]
    BY <1>3, <1>5, <2>1
  <2>3. new = r
    BY <1>3, <2>1, <2>2
  <2> QED
    BY <1>6, <2>3 DEF c, r
<1>7. CASE ~Unmoved(c)
  <2>1. CASE AwareTimestamps \/ c.target # c.start
    <3>1. Moved(w, i, offset) = [Dated(r, c) EXCEPT !.start = c.target + offset]
      BY <1>1, <2>1 DEF Moved, c
    <3>2. Moved(w, i, offset) = new
      BY <1>4, <1>5, <3>1
    <3> QED
      BY <1>7, <3>2 DEF c, r
  <2>2. CASE ~(AwareTimestamps \/ c.target # c.start)
    <3>1. c.target + offset = r.start
      BY <1>2, <2>2 DEF c, r
    <3>2. Moved(w, i, offset) = Dated(r, c)
      BY <1>1, <2>2 DEF Moved, c
    <3>3. new = [r EXCEPT !.date = Date(c.target)]
      BY <1>3, <1>5, <3>1
    <3>4. Moved(w, i, offset) = new
      BY <1>4, <3>2, <3>3
    <3> QED
      BY <1>7, <3>4 DEF c, r
  <2> QED
    BY <2>1, <2>2
<1> QED
  BY <1>6, <1>7 DEF c

\* What is known of a reschedule before its primary is moved.
LEMMA ReschedulingRow ==
  ASSUME TypeInv, SlotInv, HistInv, HalvesInv, NEW w \in Workers,
         pc[w] \in {"move_row", "move_find", "move_partner"}
  PROVE  LET c == call[w]
         IN /\ c \in Call /\ c.id \in Ids /\ c.partner \in Ids /\ c.op = "reschedule"
            /\ c.op \in Ops /\ Moving(w) /\ Located(c) /\ ~c.cont
            /\ db[c.id] \in Row /\ ~db[c.id].cont /\ db[c.id].bk = c.id
            /\ c.target \in Int /\ Date(c.target + 0) = Date(c.target)
            /\ db[c.id].date = c.date /\ db[c.id].start = c.start + 0
            /\ \A k \in Halves(c.id) \ {c.id} :
                  /\ db[k] \in Row /\ db[k].cont /\ c.svc = "CB"
                  /\ db[k].date = c.date /\ db[k].start = c.start + 1
            /\ c.svc = "CB" => Halves(c.id) \ {c.id} # {}
<1> DEFINE c == call[w]
<1>1. /\ c \in Call /\ c.id \in Ids /\ c.partner \in Ids /\ c.op = "reschedule"
      /\ c.op \in Ops /\ Moving(w) /\ c.target \in Int /\ c.start \in Int
  BY AtWork DEF StageFits
<1>2. Located(c) /\ ~c.cont
  BY <1>1 DEF Moving
<1>3. Whole(db) /\ DistinctKeys(db) /\ db \in [Ids -> Row \cup {NoRow}]
  BY TableFacts
<1>4. /\ db[c.id] \in Row /\ db[c.id] # NoRow /\ ~db[c.id].cont
      /\ db[c.id].date = c.date /\ db[c.id].start = c.start
      /\ db[c.id].svc = c.svc
  BY <1>1, <1>2, <1>3 DEF Located, Key
<1>5. WholeRow(db, c.id)
  BY <1>1, <1>3, <1>4 DEF Whole
<1>6. db[c.id].bk = c.id
  BY <1>4, <1>5 DEF WholeRow
<1>7. ASSUME NEW k \in Halves(c.id) \ {c.id}
      PROVE  /\ db[k] \in Row /\ db[k].cont /\ c.svc = "CB"
             /\ db[k].date = c.date /\ db[k].start = c.start + 1
  <2>1. k \in Ids /\ k # c.id /\ db[k] # NoRow /\ db[k].bk = c.id
    BY <1>6 DEF Halves
  <2>2. WholeRow(db, k)
    BY <1>3, <2>1 DEF Whole
  <2>3. db[k].cont /\ Tied(db[c.id], db[k])
    BY <2>1, <2>2 DEF WholeRow
  <2> QED
    BY <1>3, <1>4, <2>1, <2>3 DEF Tied
<1>8. ASSUME c.svc = "CB" PROVE Halves(c.id) \ {c.id} # {}
  <2>1. PICK j \in Ids : db[j] # NoRow /\ db[j].cont /\ db[j].bk = c.id
    BY <1>4, <1>5, <1>8 DEF WholeRow
  <2>2. j \in Halves(c.id) \ {c.id}
    BY <1>4, <1>6, <2>1 DEF Halves
  <2> QED
    BY <2>2
<1> QED
  BY <1>1, <1>2, <1>4, <1>6, <1>7, <1>8

LEMMA MoveRowWorks ==
  ASSUME TypeInv, SlotInv, HistInv, HalvesInv, NEW w \in Workers, MoveRow(w)
  PROVE  HalvesInv'
<1> DEFINE c == call[w]
           next == IF c.svc = "CB" THEN "move_find" ELSE "commit"
           row == Relocated(db[c.id], c.target)
<1>1. pc[w] = "move_row" /\ MoveWrite(w, c.id, 0, next)
  BY DEF MoveRow
<1>2. /\ c \in Call /\ c.id \in Ids /\ c.op = "reschedule" /\ c.op \in Ops /\ Moving(w)
      /\ Located(c) /\ ~c.cont /\ db[c.id] \in Row /\ db[c.id] # NoRow
      /\ ~db[c.id].cont /\ db[c.id].bk = c.id
      /\ c.target + 0 = c.target /\ Date(c.target + 0) = Date(c.target)
      /\ db[c.id].date = c.date /\ db[c.id].start = c.start + 0
      /\ c.svc # "CB" => Halves(c.id) = {c.id}
  <2>1. c.svc # "CB" => Halves(c.id) \ {c.id} = {}
    BY <1>1, ReschedulingRow
  <2>2. Located(c) /\ c.id \in Ids /\ c.target \in Int
    BY <1>1, ReschedulingRow
  <2>3. c.id \in Halves(c.id)
    BY <2>2 DEF Halves, Located
  <2> QED
    BY <1>1, <2>1, <2>2, <2>3, ReschedulingRow DEF Located
<1>3. \A k \in Ids : dirty[w][k] = NoRow
  BY <1>1, <1>2 DEF Moving
<1>4. /\ Unmoved(c) => row = db[c.id]
      /\ ~Unmoved(c) => Moved(w, c.id, 0) = row
  BY <1>1, <1>2, <1>3, MovedRow
<1>5. row # NoRow /\ Place(c, db[c.id]) = c.target
  <2>1. Date(c.target) \in Days /\ c.target \in Starts
    BY <1>2, DateOfSlot DEF Call
  <2>2. row \in Row
    BY <1>2, <2>1 DEF Relocated, Row
  <2> QED
    BY <1>2, <2>2, ValueAssumption DEF Place
<1> HIDE DEF row
<1>6. ASSUME pc'[w] = next, call'[w] = c, db' = db,
             \A k \in Ids : View(w)'[k] = IF k = c.id THEN row ELSE db[k],
             \A k \in Ids \ {c.id} : dirty'[w][k] = NoRow
      PROVE  Working(w)'
  <2>1. Located(call[w])' /\ Halves(call[w].id)' = Halves(c.id)
    BY <1>2, <1>6 DEF Located, Halves
  <2>2. \A k \in Ids : Place(call[w], db[k])' = Place(c, db[k])
    BY <1>6 DEF Place
  <2>3. Moving(w)'
    BY <1>2, <1>5, <1>6, <2>1, <2>2 DEF Moving, row
  <2>4. Inserting(w)' /\ Cancelling(w)' /\ Patching(w)'
    BY <1>2, <1>6 DEF Inserting, Cancelling, Patching
  <2> QED
    BY <1>2, <1>6, <2>3, <2>4 DEF Working
<1>7. CASE Unmoved(c) /\ UNCHANGED call /\ Goto(w, next)
  <2>1. /\ pc'[w] = next /\ call'[w] = c /\ db' = db /\ dirty' = dirty
        /\ \A u \in Workers : u # w => pc'[u] = pc[u] /\ call'[u] = call[u]
    BY <1>7 DEF Goto, TypeInv, TypeOK
  <2>2. \A k \in Ids : View(w)'[k] = IF k = c.id THEN row ELSE db[k]
    BY <1>3, <1>4, <1>7, <2>1 DEF View
  <2>3. Working(w)'
    BY <1>3, <1>6, <2>1, <2>2
  <2> QED
    BY <2>1, <2>3, OwnStep
<1>8. CASE Flush(w, c.id, row, next)
  <2>1. ASSUME pc'[w] = next, call'[w] = c,
               \A k \in Ids : dirty'[w][k] = IF k = c.id THEN row ELSE dirty[w][k]
        PROVE  Working(w)'
    <3>1. db' = db
      BY <1>8 DEF Flush
    <3>2. \A k \in Ids : View(w)'[k] = IF k = c.id THEN row ELSE db[k]
      BY <1>3, <1>5, <2>1, <3>1 DEF View
    <3> QED
      BY <1>3, <1>6, <2>1, <3>1, <3>2
  <2>2. next \in Pc
    BY DEF Pc
  <2> HIDE DEF next
  <2> QED
    BY <1>1, <1>2, <1>8, <2>1, <2>2, FlushWorks
<1> QED
  BY <1>1, <1>4, <1>7, <1>8 DEF MoveWrite

LEMMA MoveFindWorks ==
  ASSUME TypeInv, SlotInv, HistInv, HalvesInv, NEW w \in Workers, MoveFind(w)
  PROVE  HalvesInv'
<1> DEFINE c == call[w]
           found == OtherHalf(View(w), c.barber, c.date, c.start, 1, TRUE)
           row == Relocated(db[c.id], c.target)
<1>1. pc[w] = "move_find" /\ WithPartner(w, found, "move_partner")
  BY DEF MoveFind
<1>2. /\ c \in Call /\ c.id \in Ids /\ c.op = "reschedule" /\ c.op \in Ops /\ Moving(w)
      /\ Located(c) /\ ~c.cont /\ db[c.id] \in Row /\ db[c.id] # NoRow
      /\ ~db[c.id].cont /\ c.svc = "CB"
      /\ Halves(c.id) \ {c.id} # {}
  <2>1. Located(c) /\ c.svc = "CB"
    BY <1>1, ReschedulingRow, AtWork DEF CallFits
  <2> QED
    BY <1>1, <2>1, ReschedulingRow DEF Located
<1>3. /\ View(w)[c.id] = row
      /\ \A k \in Ids \ {c.id} : dirty[w][k] = NoRow
  BY <1>1, <1>2 DEF Moving
<1>4. row.cont = db[c.id].cont
  BY <1>2 DEF Relocated, Row
<1>5. found = Halves(c.id) \ {c.id}
  <2>1. dirty[w][c.id] # NoRow => dirty[w][c.id].cont = db[c.id].cont
    BY <1>2, <1>3, <1>4 DEF View
  <2>2. OtherHalf(View(w), db[c.id].barber, db[c.id].date, db[c.id].start,
                  IF db[c.id].cont THEN -1 ELSE 1, ~db[c.id].cont) = Halves(c.id) \ {c.id}
    BY <1>2, <1>3, <2>1, FoundHalf
  <2>3. db[c.id].barber = c.barber /\ db[c.id].date = c.date /\ db[c.id].start = c.start
    BY <1>2 DEF Located, Key
  <2> QED
    BY <1>2, <2>2, <2>3 DEF OtherHalf
<1> HIDE DEF found, row
<1>6. /\ db' = db /\ dirty' = dirty
      /\ \A u \in Workers : u # w => pc'[u] = pc[u] /\ call'[u] = call[u]
      /\ \/ found = {} /\ pc'[w] = "commit" /\ call'[w] = call[w]
         \/ \E i \in found : pc'[w] = "move_partner"
                             /\ call'[w] = [call[w] EXCEPT !.partner = i]
  BY <1>1, FindEnds DEF Pc
<1>7. PICK i \in found : pc'[w] = "move_partner" /\ call'[w] = [call[w] EXCEPT !.partner = i]
  BY <1>2, <1>5, <1>6
<1> DEFINE d == [call[w] EXCEPT !.partner = i]
<1>8. /\ d.op = c.op /\ d.id = c.id /\ d.partner = i /\ d.barber = c.barber
      /\ d.date = c.date /\ d.start = c.start /\ d.cont = c.cont /\ d.svc = c.svc
      /\ d.target = c.target
  BY <1>2 DEF Call
<1>9. call'[w] = d
  BY <1>7
<1> HIDE DEF d
<1>10. i \in Halves(c.id) \ {c.id}
  BY <1>5, <1>7
<1>11. Located(call[w])' /\ Halves(call[w].id)' = Halves(c.id)
  BY <1>2, <1>6, <1>8, <1>9 DEF Located, Halves
<1>12. View(w)'[c.id] = row
  BY <1>2, <1>3, <1>6 DEF View
<1>13. Moving(w)'
  BY <1>2, <1>3, <1>6, <1>7, <1>8, <1>9, <1>10, <1>11, <1>12 DEF Moving, row
<1>14. Inserting(w)' /\ Cancelling(w)' /\ Patching(w)'
  BY <1>2, <1>8, <1>9 DEF Inserting, Cancelling, Patching
<1>15. Working(w)'
  BY <1>2, <1>8, <1>9, <1>13, <1>14 DEF Working
<1> QED
  BY <1>6, <1>15, OwnStep

LEMMA MovePartnerWorks ==
  ASSUME TypeInv, SlotInv, HistInv, HalvesInv, NEW w \in Workers, MovePartner(w)
  PROVE  HalvesInv'
<1> DEFINE c == call[w]
           p == c.partner
           first == Relocated(db[c.id], c.target)
           row == Relocated(db[p], c.target + 1)
<1>1. pc[w] = "move_partner" /\ MoveWrite(w, p, 1, "commit")
  BY DEF MovePartner
<1>2. /\ c \in Call /\ c.id \in Ids /\ p \in Ids /\ c.op = "reschedule" /\ c.op \in Ops
      /\ Moving(w) /\ Located(c) /\ ~c.cont /\ ~db[c.id].cont
      /\ c.target \in Int /\ c.svc = "CB"
  BY <1>1, ReschedulingRow, AtWork DEF CallFits
<1>3. /\ View(w)[c.id] = first /\ p \in Halves(c.id) \ {c.id}
      /\ \A k \in Ids \ {c.id} : dirty[w][k] = NoRow
      /\ Date(c.target + 1) = Date(c.target)
  BY <1>1, <1>2 DEF Moving
<1>4. /\ db[p] \in Row /\ db[p] # NoRow /\ db[p].cont
      /\ db[p].date = c.date /\ db[p].start = c.start + 1
  BY <1>1, <1>3, ReschedulingRow DEF Halves
<1>5. Halves(c.id) = {c.id, p}
  <2>1. c.id \in Halves(c.id)
    BY <1>2 DEF Halves, Located
  <2>2. ASSUME NEW j \in Halves(c.id), j # c.id PROVE j = p
    <3>1. j \in Ids /\ db[j] # NoRow /\ db[j].bk = db[c.id].bk
      BY DEF Halves
    <3>2. db[p].bk = db[c.id].bk /\ db[c.id] # NoRow
      BY <1>2, <1>3 DEF Halves, Located
    <3>3. Whole(db) /\ DistinctKeys(db) /\ db \in [Ids -> Row \cup {NoRow}]
      BY TableFacts
    <3>4. Key(db[j]) = Key(db[p])
      BY <1>2, <1>3, <1>4, <2>2, <3>1, <3>2, <3>3, OtherHalfIsNext
    <3> QED
      BY <1>2, <1>4, <3>1, <3>3, <3>4 DEF DistinctKeys
  <2> QED
    BY <1>3, <2>1, <2>2
<1>6. /\ Unmoved(c) => row = db[p]
      /\ ~Unmoved(c) => Moved(w, p, 1) = row
  BY <1>1, <1>2, <1>3, <1>4, MovedRow
<1>7. row # NoRow /\ Place(c, db[p]) = c.target + 1 /\ Place(c, db[c.id]) = c.target
  <2>1. c.target + 1 \in Starts
    BY <1>1, <1>2, AtWork DEF CallFits
  <2>2. Date(c.target + 1) \in Days
    BY <2>1, DateOfSlot
  <2>3. row \in Row
    BY <1>4, <2>1, <2>2 DEF Relocated, Row
  <2> QED
    BY <1>2, <1>4, <2>3, ValueAssumption DEF Place
<1> HIDE DEF row, first
<1>8. ASSUME pc'[w] = "commit", call'[w] = c, db' = db,
             \A k \in Ids : View(w)'[k] = IF k = p THEN row ELSE View(w)[k]
      PROVE  Working(w)'
  <2>1. Located(call[w])' /\ Halves(call[w].id)' = Halves(c.id)
    BY <1>2, <1>8 DEF Located, Halves
  <2>2. \A k \in Ids : Place(call[w], db[k])' = Place(c, db[k])
    BY <1>8 DEF Place
  <2>3. \A k \in Ids : View(w)'[k] = IF k \in Halves(c.id) THEN Relocated(db[k], Place(c, db[k]))
                                     ELSE db[k]
    BY <1>3, <1>5, <1>7, <1>8 DEF row, first, View
  <2>4. /\ call[w]'.op = "reschedule" /\ call[w]'.id = c.id /\ ~call[w]'.cont
        /\ db'[c.id].status # "cancelled"
        /\ call[w]'.svc = "CB" => Date(call[w]'.target + 1) = Date(call[w]'.target)
    BY <1>2, <1>3, <1>8 DEF Moving
  <2>5. Moving(w)'
    BY <1>8, <2>1, <2>2, <2>3, <2>4 DEF Moving
  <2>6. Inserting(w)' /\ Cancelling(w)' /\ Patching(w)'
    BY <1>2, <1>8 DEF Inserting, Cancelling, Patching
  <2> QED
    BY <1>2, <1>8, <2>5, <2>6 DEF Working
<1>9. CASE Unmoved(c) /\ UNCHANGED call /\ Goto(w, "commit")
  <2>1. /\ pc'[w] = "commit" /\ call'[w] = c /\ db' = db /\ dirty' = dirty
        /\ \A u \in Workers : u # w => pc'[u] = pc[u] /\ call'[u] = call[u]
    BY <1>9 DEF Goto, TypeInv, TypeOK
  <2>2. \A k \in Ids : View(w)'[k] = IF k = p THEN row ELSE View(w)[k]
    BY <1>2, <1>3, <1>6, <1>9, <2>1 DEF View
  <2>3. Working(w)'
    BY <1>8, <2>1, <2>2
  <2> QED
    BY <2>1, <2>3, OwnStep
<1>10. CASE Flush(w, p, row, "commit")
  <2>1. ASSUME pc'[w] = "commit", call'[w] = c,
               \A k \in Ids : dirty'[w][k] = IF k = p THEN row ELSE dirty[w][k]
        PROVE  Working(w)'
    <3>1. db' = db
      BY <1>10 DEF Flush
    <3>2. \A k \in Ids : View(w)'[k] = IF k = p THEN row ELSE View(w)[k]
      BY <1>7, <2>1, <3>1 DEF View
    <3> QED
      BY <1>8, <2>1, <3>1, <3>2
  <2> QED
    BY <1>1, <1>2, <1>10, <2>1, FlushWorks DEF Pc
<1> QED
  BY <1>1, <1>6, <1>9, <1>10 DEF MoveWrite

-----------------------------------------------------------------------------
(* Commits *)

\* UPDATEs that keep the halves of every booking next to each other, on one day, keep the
\* table whole, whatever statuses they write.
LEMMA UpdatesKeepWhole ==
  ASSUME NEW rows \in [Ids -> Row \cup {NoRow}], Whole(rows), NEW new,
         \A k \in Ids : new[k] = NoRow <=> rows[k] = NoRow,
         \A k \in Ids : rows[k] # NoRow =>
            /\ Same(new[k], rows[k]) /\ new[k].barber = rows[k].barber
            /\ new[k].date = Date(new[k].start),
         \A k \in Ids : rows[k] # NoRow /\ rows[k].cont =>
            /\ new[k].date = new[rows[k].bk].date
            /\ new[k].start = new[rows[k].bk].start + 1
  PROVE  Whole(new)
<1> SUFFICES ASSUME NEW i \in Ids, new[i] # NoRow PROVE WholeRow(new, i)
  BY DEF Whole
<1>1. rows[i] # NoRow /\ WholeRow(rows, i) /\ rows[i].bk \in Ids
  BY DEF Whole, Row
<1>2. new[i].svc = rows[i].svc /\ new[i].cont = rows[i].cont /\ new[i].bk = rows[i].bk
  BY <1>1 DEF Same
<1>3. rows[rows[i].bk] # NoRow /\ new[new[i].bk] # NoRow
  BY <1>1, <1>2 DEF WholeRow
<1>4. new[i].cont => Tied(new[new[i].bk], new[i])
  <2> SUFFICES ASSUME new[i].cont PROVE Tied(new[new[i].bk], new[i])
    OBVIOUS
  <2>1. Tied(rows[rows[i].bk], rows[i])
    BY <1>1, <1>2 DEF WholeRow
  <2>2. /\ Same(new[rows[i].bk], rows[rows[i].bk])
        /\ new[rows[i].bk].barber = rows[rows[i].bk].barber
        /\ new[i].barber = rows[i].barber
    BY <1>1, <1>3
  <2> QED
    BY <1>1, <1>2, <2>1, <2>2 DEF Tied, Same
<1>5. ~new[i].cont /\ new[i].svc = "CB" =>
         \E j \in Ids : new[j] # NoRow /\ new[j].cont /\ new[j].bk = i
  BY <1>1, <1>2 DEF WholeRow, Same
<1> QED
  BY <1>1, <1>2, <1>3, <1>4, <1>5 DEF WholeRow

\* Of the halves of a booking, each has the other's primary.
LEMMA HalvesShare ==
  ASSUME NEW rows \in [Ids -> Row \cup {NoRow}], Whole(rows),
         NEW k \in Ids, rows[k] # NoRow
  PROVE  /\ rows[k].bk \in Ids /\ rows[rows[k].bk] # NoRow
         /\ rows[k].cont => ~rows[rows[k].bk].cont /\ rows[rows[k].bk].svc = "CB"
         /\ rows[rows[k].bk].bk = rows[k].bk
<1>1. rows[k].bk \in Ids /\ WholeRow(rows, k)
  BY DEF Whole, Row
<1>2. rows[rows[k].bk] # NoRow
  BY <1>1 DEF WholeRow
<1>3. WholeRow(rows, rows[k].bk)
  BY <1>1, <1>2 DEF Whole
<1> QED
  BY <1>1, <1>2, <1>3 DEF WholeRow, Tied

LEMMA BookCommits ==
  ASSUME TypeInv, HistInv, HalvesInv, NEW w \in Workers, pc[w] = "commit", call[w].op = "book"
  PROVE  LET c == call[w]
         IN /\ Whole(View(w))
            /\ db[c.id] = NoRow /\ View(w)[c.id] = NewRow(c, c.target, FALSE)
            /\ \A k \in Ids : db[k] # NoRow => View(w)[k] = db[k]
            /\ \A k \in Ids : db[k] = NoRow /\ View(w)[k] # NoRow =>
                  /\ View(w)[k].bk = c.id /\ View(w)[k].status = "pending"
                  /\ k # c.id => View(w)[k].cont
<1> DEFINE c == call[w]
           rows == View(w)
           primary == NewRow(c, c.target, FALSE)
           second == NewRow(c, c.target + 1, TRUE)
<1>1. /\ c.id \in Ids /\ c.partner \in Ids /\ c.target \in Int /\ Inserting(w)
  BY AtWork
<1>2. /\ c.svc = "CB" => Date(c.target + 1) = Date(c.target) /\ c.id # c.partner
      /\ c.date = Date(c.target)
      /\ \A k \in Ids : dirty[w][k] # NoRow =>
            /\ db[k] = NoRow
            /\ \/ k = c.id /\ dirty[w][k] = primary
               \/ k = c.partner /\ c.svc = "CB" /\ dirty[w][k] = second
      /\ dirty[w][c.id] # NoRow
      /\ c.svc = "CB" => dirty[w][c.partner] # NoRow
  BY <1>1 DEF Inserting
<1>3. /\ primary.barber = c.barber /\ primary.date = c.date /\ primary.start = c.target
      /\ primary.status = "pending" /\ primary.svc = c.svc /\ primary.cont = FALSE
      /\ primary.bk = c.id
      /\ second.barber = c.barber /\ second.date = c.date /\ second.start = c.target + 1
      /\ second.status = "pending" /\ second.svc = c.svc /\ second.cont = TRUE
      /\ second.bk = c.id
  BY DEF NewRow
<1> HIDE DEF primary, second
<1>4. /\ db[c.id] = NoRow /\ rows[c.id] = primary /\ primary # NoRow
      /\ c.svc = "CB" => rows[c.partner] = second /\ second # NoRow
  BY <1>1, <1>2 DEF View
<1>5. \A k \in Ids : db[k] # NoRow => rows[k] = db[k]
  BY <1>2 DEF View
<1>6. \A k \in Ids : db[k] = NoRow /\ rows[k] # NoRow =>
        k = c.id \/ (k = c.partner /\ c.svc = "CB")
  BY <1>2 DEF View
<1>7. db \in [Ids -> Row \cup {NoRow}] /\ Whole(db)
  BY DEF TypeInv, TypeOK, HalvesInv
<1> HIDE DEF rows
<1>8. ASSUME NEW i \in Ids, rows[i] # NoRow PROVE WholeRow(rows, i)
  <2>1. CASE db[i] # NoRow
    <3>1. WholeRow(db, i) /\ db[i].bk \in Ids
      BY <1>7, <2>1, HalvesShare DEF Whole
    <3>2. rows[i] = db[i] /\ rows[db[i].bk] = db[db[i].bk]
      BY <1>5, <2>1, <3>1 DEF WholeRow
    <3> QED
      BY <1>5, <3>1, <3>2 DEF WholeRow
  <2>2. CASE i = c.id
    BY <1>1, <1>2, <1>3, <1>4, <2>2 DEF WholeRow
  <2>3. CASE i = c.partner /\ c.svc = "CB"
    <3>1. Tied(rows[c.id], rows[i])
      BY <1>2, <1>3, <1>4, <2>3 DEF Tied
    <3> QED
      BY <1>1, <1>2, <1>3, <1>4, <2>3, <3>1 DEF WholeRow
  <2> QED
    BY <1>6, <1>8, <2>1, <2>2, <2>3
<1>9. \A k \in Ids : db[k] = NoRow /\ rows[k] # NoRow =>
        /\ rows[k].bk = c.id /\ rows[k].status = "pending"
        /\ k # c.id => rows[k].cont
  BY <1>3, <1>4, <1>6
<1> QED
  BY <1>4, <1>5, <1>8, <1>9 DEF Whole, rows, primary

LEMMA CancelCommits ==
  ASSUME TypeInv, HistInv, HalvesInv, NEW w \in Workers, pc[w] = "commit", call[w].op = "cancel"
  PROVE  /\ Whole(View(w))
         /\ db[call[w].id] # NoRow
         /\ \A k \in Ids : View(w)[k] \in {db[k], Cancelled(db[k])}
         /\ \A k \in Ids \ Halves(call[w].id) : View(w)[k] = db[k]
         /\ CancelSeesAll => \A k \in Halves(call[w].id) : View(w)[k].status = "cancelled"
<1> DEFINE c == call[w]
           rows == View(w)
<1>1. c.id \in Ids /\ Cancelling(w)
  BY AtWork
<1>2. /\ db[c.id] # NoRow
      /\ \A k \in Ids : dirty[w][k] # NoRow =>
            k \in Halves(c.id) /\ dirty[w][k] = Cancelled(db[k])
      /\ CancelSeesAll =>
           \A j \in Halves(c.id) : db[j].status = "cancelled" \/ dirty[w][j] # NoRow
  BY <1>1 DEF Cancelling, Located
<1>3. db \in [Ids -> Row \cup {NoRow}] /\ Whole(db)
  BY DEF TypeInv, TypeOK, HalvesInv
<1>4. \A k \in Ids : db[k] # NoRow =>
        LET r == Cancelled(db[k])
        IN /\ r \in Row /\ r.status = "cancelled" /\ Same(r, db[k])
           /\ r.barber = db[k].barber /\ r.date = db[k].date /\ r.start = db[k].start
  BY <1>3 DEF Cancelled, Row, Status, Same
<1>5. \A k \in Ids : rows[k] \in {db[k], Cancelled(db[k])}
  BY <1>2 DEF View
<1>6. \A k \in Ids \ Halves(c.id) : rows[k] = db[k]
  BY <1>2 DEF View
<1>7. CancelSeesAll => \A k \in Halves(c.id) : rows[k].status = "cancelled"
  BY <1>2, <1>4, ValueAssumption DEF View, Halves
<1> HIDE DEF rows
<1>8. \A k \in Ids : rows[k] = NoRow <=> db[k] = NoRow
  BY <1>4, <1>5, <1>6, ValueAssumption DEF Halves
<1>9. \A k \in Ids : db[k] # NoRow =>
        /\ Same(rows[k], db[k]) /\ rows[k].barber = db[k].barber
        /\ rows[k].date = db[k].date /\ rows[k].start = db[k].start
  BY <1>4, <1>5 DEF Same
<1>10. ASSUME NEW k \in Ids, db[k] # NoRow
       PROVE  /\ rows[k].date = Date(rows[k].start)
              /\ db[k].cont =>
                   /\ rows[k].date = rows[db[k].bk].date
                   /\ rows[k].start = rows[db[k].bk].start + 1
  <2>1. WholeRow(db, k)
    BY <1>3, <1>10 DEF Whole
  <2>2. rows[k].date = Date(rows[k].start)
    BY <1>9, <1>10, <2>1 DEF WholeRow
  <2>3. ASSUME db[k].cont
        PROVE  /\ rows[k].date = rows[db[k].bk].date
               /\ rows[k].start = rows[db[k].bk].start + 1
    <3>1. Tied(db[db[k].bk], db[k])
      BY <2>1, <2>3 DEF WholeRow
    <3>2. db[k].bk \in Ids /\ db[db[k].bk] # NoRow
      BY <1>3, <1>10, HalvesShare
    <3> QED
      BY <1>9, <1>10, <3>1, <3>2 DEF Tied
  <2> QED
    BY <2>2, <2>3
<1>11. Whole(rows)
  BY <1>3, <1>8, <1>9, <1>10, UpdatesKeepWhole
<1> QED
  BY <1>2, <1>5, <1>6, <1>7, <1>11 DEF rows

LEMMA MoveCommits ==
  ASSUME TypeInv, HistInv, HalvesInv, NEW w \in Workers, pc[w] = "commit",
         call[w].op = "reschedule"
  PROVE  LET c == call[w]
         IN /\ Whole(View(w))
            /\ db[c.id] # NoRow /\ ~db[c.id].cont /\ db[c.id].status # "cancelled"
            /\ View(w)[c.id] = Relocated(db[c.id], c.target)
            /\ \A k \in Ids \ Halves(c.id) : View(w)[k] = db[k]
            /\ \A k \in Ids : db[k] # NoRow =>
                  Same(View(w)[k], db[k]) /\ View(w)[k].status = db[k].status
            /\ \A k \in Ids : View(w)[k] = NoRow <=> db[k] = NoRow
<1> DEFINE c == call[w]
           rows == View(w)
<1>1. /\ c \in Call /\ c.id \in Ids /\ c.target \in Int /\ Moving(w)
      /\ rows \in [Ids -> Row \cup {NoRow}]
  BY AtWork, ViewType DEF TypeInv
<1>2. /\ Located(c) /\ ~c.cont /\ db[c.id] # NoRow /\ ~db[c.id].cont
      /\ db[c.id].status # "cancelled" /\ db[c.id].svc = c.svc
      /\ c.svc = "CB" => Date(c.target + 1) = Date(c.target)
      /\ \A k \in Ids : rows[k] = IF k \in Halves(c.id) THEN Relocated(db[k], Place(c, db[k]))
                                                        ELSE db[k]
  BY <1>1 DEF Moving, Located
<1>3. db \in [Ids -> Row \cup {NoRow}] /\ Whole(db)
  BY DEF TypeInv, TypeOK, HalvesInv
<1> HIDE DEF rows
<1>4. \A k \in Ids : \A s : db[k] # NoRow =>
        LET r == Relocated(db[k], s)
        IN /\ r.status = db[k].status /\ Same(r, db[k]) /\ r.barber = db[k].barber
           /\ r.date = Date(s) /\ r.start = s
           /\ s \in Starts => r \in Row
  BY <1>3, DateOfSlot DEF Relocated, Row, Same
<1>5. Place(c, db[c.id]) = c.target /\ c.id \in Halves(c.id)
  BY <1>1, <1>2 DEF Place, Halves
<1>6. \A k \in Ids : rows[k] = NoRow <=> db[k] = NoRow
  <2> SUFFICES ASSUME NEW k \in Ids PROVE rows[k] = NoRow <=> db[k] = NoRow
    OBVIOUS
  <2>1. CASE k \notin Halves(c.id)
    BY <1>2, <2>1
  <2>2. CASE k \in Halves(c.id)
    <3>1. db[k] # NoRow /\ rows[k] = Relocated(db[k], Place(c, db[k]))
      BY <1>2, <2>2 DEF Halves
    <3>2. rows[k] = [db[k] EXCEPT !.start = Place(c, db[k]), !.date = Date(Place(c, db[k]))]
      BY <3>1 DEF Relocated
    <3>3. Place(c, db[k]) \in Starts
      <4>1. c.target \in Starts
        BY <1>1 DEF Call
      <4>2. CASE ~db[k].cont
        BY <1>1, <4>1, <4>2 DEF Place
      <4>3. CASE db[k].cont
        <5>1. db[db[k].bk].svc = "CB" /\ db[k].bk = c.id
          <6>1. WholeRow(db, c.id)
            BY <1>1, <1>2, <1>3 DEF Whole
          <6> QED
            BY <1>2, <1>3, <2>2, <3>1, <4>3, <6>1, HalvesShare DEF Halves, WholeRow
        <5> QED
          BY <1>1, <1>2, <4>1, <4>3, <5>1, NextSlot DEF Place
      <4> QED
        BY <4>2, <4>3
    <3> QED
      BY <1>4, <3>1, <3>3, ValueAssumption
  <2> QED
    BY <2>1, <2>2
<1>7. \A k \in Ids : db[k] # NoRow =>
        /\ Same(rows[k], db[k]) /\ rows[k].barber = db[k].barber
        /\ rows[k].status = db[k].status
  <2> SUFFICES ASSUME NEW k \in Ids, db[k] # NoRow
               PROVE  /\ Same(rows[k], db[k]) /\ rows[k].barber = db[k].barber
                      /\ rows[k].status = db[k].status
    OBVIOUS
  <2>1. CASE k \notin Halves(c.id)
    BY <1>2, <2>1 DEF Same
  <2>2. CASE k \in Halves(c.id)
    <3>1. rows[k] = Relocated(db[k], Place(c, db[k]))
      BY <1>2, <2>2
    <3> QED
      BY <1>4, <3>1
  <2> QED
    BY <2>1, <2>2
<1>8. ASSUME NEW k \in Ids, db[k] # NoRow
      PROVE  /\ rows[k].date = Date(rows[k].start)
             /\ db[k].cont =>
                  /\ rows[k].date = rows[db[k].bk].date
                  /\ rows[k].start = rows[db[k].bk].start + 1
  <2>1. WholeRow(db, k)
    BY <1>3, <1>8 DEF Whole
  <2>2. rows[k].date = Date(rows[k].start)
    <3>1. CASE k \notin Halves(c.id)
      BY <1>2, <2>1, <3>1 DEF WholeRow
    <3>2. CASE k \in Halves(c.id)
      <4>1. rows[k] = Relocated(db[k], Place(c, db[k]))
        BY <1>2, <3>2
      <4> QED
        BY <1>4, <1>8, <4>1
    <3> QED
      BY <3>1, <3>2
  <2>3. ASSUME db[k].cont
        PROVE  /\ rows[k].date = rows[db[k].bk].date
               /\ rows[k].start = rows[db[k].bk].start + 1
    <3>1. Tied(db[db[k].bk], db[k])
      BY <2>1, <2>3 DEF WholeRow
    <3>2. db[k].bk \in Ids /\ db[db[k].bk] # NoRow /\ db[db[k].bk].bk = db[k].bk
          /\ ~db[db[k].bk].cont /\ db[db[k].bk].svc = "CB"
      BY <1>3, <1>8, <2>3, HalvesShare
    <3>3. k \in Halves(c.id) <=> db[k].bk \in Halves(c.id)
      BY <1>8, <3>2 DEF Halves
    <3>5. CASE k \notin Halves(c.id)
      BY <1>2, <3>1, <3>2, <3>3, <3>5 DEF Tied
    <3>6. CASE k \in Halves(c.id)
      <4>1. WholeRow(db, c.id)
        BY <1>1, <1>2, <1>3 DEF Whole
      <4>2. db[k].bk = c.id
        BY <1>2, <3>6, <4>1 DEF Halves, WholeRow
      <4>3. Place(c, db[k]) = c.target + 1 /\ Place(c, db[db[k].bk]) = c.target
        BY <1>1, <2>3, <3>2 DEF Place
      <4> QED
        BY <1>2, <1>4, <1>8, <3>2, <3>3, <3>6, <4>2, <4>3
    <3> QED
      BY <3>5, <3>6
  <2> QED
    BY <2>2, <2>3
<1>9. Whole(rows)
  BY <1>3, <1>6, <1>7, <1>8, UpdatesKeepWhole
<1> QED
  BY <1>1, <1>2, <1>5, <1>6, <1>7, <1>9 DEF rows

LEMMA PatchCommits ==
  ASSUME TypeInv, HistInv, HalvesInv, NEW w \in Workers, pc[w] = "commit",
         call[w].op = "patch"
  PROVE  /\ Whole(View(w))
         /\ \A k \in Ids : View(w)[k] = NoRow <=> db[k] = NoRow
         /\ \A k \in Ids : db[k] # NoRow =>
               Same(View(w)[k], db[k]) /\ Key(View(w)[k]) = Key(db[k])
         /\ \A k \in Ids : View(w)[k] # db[k] => k = call[w].id
         /\ db[call[w].id] # NoRow
<1> DEFINE c == call[w]
           rows == View(w)
<1>1. c.id \in Ids /\ c.status \in Status /\ Patching(w)
  BY AtWork DEF Call
<1>2. /\ db[c.id] # NoRow
      /\ \A k \in Ids : dirty[w][k] # NoRow =>
            k = c.id /\ dirty[w][k] = [db[k] EXCEPT !.status = c.status]
  BY <1>1 DEF Patching
<1>3. db \in [Ids -> Row \cup {NoRow}] /\ Whole(db)
  BY DEF TypeInv, TypeOK, HalvesInv
<1>4. LET r == [db[c.id] EXCEPT !.status = c.status]
      IN /\ r \in Row /\ Same(r, db[c.id])
         /\ r.barber = db[c.id].barber /\ r.date = db[c.id].date /\ r.start = db[c.id].start
  BY <1>1, <1>2, <1>3 DEF Row, Same
<1>5. \A k \in Ids : rows[k] = db[k]
                     \/ (k = c.id /\ rows[k] = [db[c.id] EXCEPT !.status = c.status])
  BY <1>2 DEF View
<1> HIDE DEF rows
<1>6. \A k \in Ids : rows[k] = NoRow <=> db[k] = NoRow
  BY <1>2, <1>4, <1>5, ValueAssumption
<1>7. \A k \in Ids : db[k] # NoRow =>
        /\ Same(rows[k], db[k]) /\ rows[k].barber = db[k].barber
        /\ rows[k].date = db[k].date /\ rows[k].start = db[k].start
  BY <1>2, <1>4, <1>5 DEF Same
<1>8. ASSUME NEW k \in Ids, db[k] # NoRow
      PROVE  /\ rows[k].date = Date(rows[k].start)
             /\ db[k].cont =>
                  /\ rows[k].date = rows[db[k].bk].date
                  /\ rows[k].start = rows[db[k].bk].start + 1
  <2>1. WholeRow(db, k)
    BY <1>3, <1>8 DEF Whole
  <2>2. db[k].bk \in Ids /\ db[db[k].bk] # NoRow
    BY <1>3, <1>8, HalvesShare
  <2> QED
    BY <1>7, <1>8, <2>1, <2>2 DEF WholeRow, Tied
<1>9. Whole(rows)
  BY <1>3, <1>6, <1>7, <1>8, UpdatesKeepWhole
<1>10. \A k \in Ids : db[k] # NoRow => Key(rows[k]) = Key(db[k])
  BY <1>7 DEF Key
<1> QED
  BY <1>2, <1>5, <1>6, <1>7, <1>9, <1>10 DEF rows

LEMMA CommitsWhole ==
  ASSUME TypeInv, HistInv, HalvesInv, NEW w \in Workers, pc[w] = "commit"
  PROVE  Whole(View(w))
<1>1. call[w] \in Call
  BY AtWork
<1> QED
  BY <1>1, BookCommits, CancelCommits, MoveCommits, PatchCommits DEF Call

\* When requests interleave, none of them moves a row: what one commits is new bookings
\* with ids of their own, and new statuses of rows that no other was writing.
LEMMA BystanderOfCommit ==
  ASSUME Orderly, TypeInv, SlotInv, HistInv, HalvesInv, NEW w \in Workers, NEW u \in Workers,
         u # w, pc[w] = "commit", db' = View(w), pc[u] # "idle",
         pc'[u] = pc[u], call'[u] = call[u], dirty'[u] = dirty[u]
  PROVE  Working(u)'
<1> DEFINE c == call[u]
<1>1. /\ call[w].op \in {"book", "cancel", "patch"} /\ c.op \in {"book", "cancel", "patch"}
      /\ c.op \in Ops
      /\ CancelSeesAll => call[w].op # "patch"
      /\ c.id \in Ids /\ Inserting(u) /\ Cancelling(u) /\ Patching(u)
  BY AtWork DEF Orderly, OneAtATime, CancelSeesAll
<1>2. db \in [Ids -> Row \cup {NoRow}] /\ Whole(db)
  BY DEF TypeInv, TypeOK, HalvesInv
<1>3. \A k \in Ids : dirty[u][k] # NoRow => db'[k] = db[k]
  BY DEF SlotInv, WritesApart, View
<1>4. \A k \in Ids : db[k] # NoRow =>
        LET r == Cancelled(db[k])
        IN r # NoRow /\ r.status = "cancelled" /\ Same(r, db[k]) /\ Key(r) = Key(db[k])
  <2> SUFFICES ASSUME NEW k \in Ids, db[k] # NoRow
               PROVE  LET r == Cancelled(db[k])
                      IN r # NoRow /\ r.status = "cancelled" /\ Same(r, db[k])
                         /\ Key(r) = Key(db[k])
    OBVIOUS
  <2>1. db[k] \in Row
    BY <1>2
  <2>2. Cancelled(db[k]) \in Row
    BY <2>1 DEF Cancelled, Row, Status
  <2> QED
    BY <2>1, <2>2, ValueAssumption DEF Cancelled, Row, Same, Key
<1>5. \A k \in Ids : db[k] # NoRow =>
        /\ db'[k] # NoRow /\ Same(db'[k], db[k]) /\ Key(db'[k]) = Key(db[k])
        /\ CancelSeesAll /\ db[k].status = "cancelled" => db'[k].status = "cancelled"
  <2>1. CASE call[w].op \in {"book", "cancel"}
    <3>1. \A k \in Ids : db[k] # NoRow => db'[k] \in {db[k], Cancelled(db[k])}
      BY <2>1, BookCommits, CancelCommits
    <3> QED
      BY <1>4, <3>1 DEF Same
  <2>2. CASE call[w].op = "patch"
    <3>1. ~CancelSeesAll
      BY <1>1, <2>2
    <3>2. \A k \in Ids : db[k] # NoRow =>
            db'[k] # NoRow /\ Same(db'[k], db[k]) /\ Key(db'[k]) = Key(db[k])
      BY <2>2, PatchCommits
    <3> QED
      BY <3>1, <3>2
  <2> QED
    BY <1>1, <2>1, <2>2
<1>6. \A k \in Ids : db[k] = NoRow /\ db'[k] # NoRow =>
        db'[k].bk = call[w].id /\ db[call[w].id] = NoRow
  <2>1. CASE call[w].op = "book"
    BY <2>1, BookCommits
  <2>2. CASE call[w].op = "cancel"
    <3>1. \A k \in Ids : k \notin Halves(call[w].id) => db'[k] = db[k]
      BY <2>2, CancelCommits
    <3> QED
      BY <3>1 DEF Halves
  <2>3. CASE call[w].op = "patch"
    BY <2>3, PatchCommits
  <2> QED
    BY <1>1, <2>1, <2>2, <2>3
<1>7. Inserting(u)'
  <2>1. \A start, cont : NewRow(call[u], start, cont)' = NewRow(c, start, cont)
    BY DEF NewRow
  <2> QED
    BY <1>1, <1>3, <2>1, ZenonT(30) DEF Inserting, NewRow
<1>8. Cancelling(u)'
  <2> SUFFICES ASSUME c.op = "cancel" PROVE Cancelling(u)'
    BY DEF Cancelling
  <2>1. Located(c) /\ db[c.id] # NoRow
    BY <1>1 DEF Cancelling, Located
  <2>2. Located(call[u])'
    BY <1>1, <1>5, <2>1 DEF Located, Same
  <2>3. Halves(call[u].id)' = Halves(c.id)
    <3>1. ASSUME NEW k \in Ids
          PROVE  (db'[k] # NoRow /\ db'[k].bk = db'[c.id].bk)
                   <=> (db[k] # NoRow /\ db[k].bk = db[c.id].bk)
      <4>1. db'[c.id].bk = db[c.id].bk /\ db[db[c.id].bk] # NoRow
        BY <1>1, <1>2, <1>5, <2>1, HalvesShare DEF Same
      <4> QED
        BY <1>5, <1>6, <4>1 DEF Same
    <3> QED
      BY <3>1 DEF Halves
  <2> QED
    BY <1>1, <1>3, <1>5, <2>1, <2>2, <2>3 DEF Cancelling, Halves
<1>9. Moving(u)' /\ Patching(u)'
  BY <1>1, <1>3, <1>5 DEF Moving, Patching
<1> QED
  BY <1>1, <1>7, <1>8, <1>9 DEF Working

\* The end of a request.
LEMMA EndWorks ==
  ASSUME Orderly, TypeInv, SlotInv, HistInv, HalvesInv, NEW w \in Workers, End(w),
         db' = db \/ (pc[w] = "commit" /\ db' = View(w))
  PROVE  HalvesInv'
<1>1. /\ \A u \in Workers : u # w =>
            pc'[u] = pc[u] /\ call'[u] = call[u] /\ dirty'[u] = dirty[u]
      /\ pc'[w] = "idle"
  BY DEF End, TypeInv, TypeOK
<1>2. Working(w)'
  BY <1>1 DEF Working
<1>3. CASE db' = db
  BY <1>1, <1>2, <1>3, OwnStep
<1>4. CASE pc[w] = "commit" /\ db' = View(w)
  <2>1. Whole(db')
    BY <1>4, CommitsWhole
  <2>2. ASSUME NEW u \in Workers, u # w PROVE Working(u)'
    <3>1. CASE pc[u] = "idle"
      BY <1>1, <2>2, <3>1 DEF Working
    <3>2. CASE pc[u] # "idle"
      BY <1>1, <1>4, <2>2, <3>2, BystanderOfCommit
    <3> QED
      BY <3>1, <3>2
  <2> QED
    BY <1>2, <2>1, <2>2 DEF HalvesInv
<1> QED
  BY <1>3, <1>4

LEMMA StepWorks ==
  ASSUME Orderly, TypeInv, SlotInv, HistInv, HalvesInv, NEW w \in Workers, Step(w)
  PROVE  HalvesInv'
<1>1. CASE InsertPrimary(w) \/ InsertContinuation(w) \/ SyncToSheets(w)
  BY <1>1, InsertPrimaryWorks, InsertContinuationWorks, SyncWorks
<1>2. CASE CancelRow(w) \/ CancelFind(w) \/ CancelPartner(w)
  BY <1>2, CancelRowWorks, CancelFindWorks, CancelPartnerWorks
<1>3. CASE MoveRow(w) \/ MoveFind(w) \/ MovePartner(w)
  BY <1>3, MoveRowWorks, MoveFindWorks, MovePartnerWorks
<1>4. CASE PatchRow(w)
  BY <1>4, PatchRowWorks
<1>5. CASE Commit(w) \/ Fail(w)
  BY <1>5, EndWorks DEF Commit, Fail
<1> QED
  BY <1>1, <1>2, <1>3, <1>4, <1>5 DEF Step

\* The inductive invariant, on top of the ones of UniqueSlotAlways and BornWhole.
LEMMA HalvesInvariant ==
  ASSUME Orderly
  PROVE  Spec => [](TypeInv /\ SlotInv /\ HistInv /\ HalvesInv)
<1>1. Init => HalvesInv
  BY DEF Init, HalvesInv, Whole, Working, Clean
<1>2. TypeInv /\ SlotInv /\ HistInv /\ HalvesInv /\ [Next]_vars => HalvesInv'
  <2> SUFFICES ASSUME TypeInv, SlotInv, HistInv, HalvesInv, [Next]_vars PROVE HalvesInv'
    OBVIOUS
  <2>1. ASSUME NEW w \in Workers, Request(w) PROVE HalvesInv'
    BY <2>1, RequestWorks
  <2>2. ASSUME NEW w \in Workers, Step(w) PROVE HalvesInv'
    BY <2>2, StepWorks
  <2>3. ASSUME NEW w \in Workers, Crash(w) PROVE HalvesInv'
    BY <2>3, EndWorks DEF Crash
  <2>4. ASSUME NEW w \in Workers, DeadlockAbort(w) PROVE HalvesInv'
    <3>1. pc[w] # "idle"
      BY <2>4 DEF DeadlockAbort, WaitsFor
    <3> QED
      BY <2>4, <3>1, FailedWorks DEF DeadlockAbort
  <2>5. CASE UNCHANGED <<db, dirty, pc, call>>
    <3>1. \A u \in Workers : Working(u)'
      BY <2>5, BystanderWorks DEF HalvesInv
    <3> QED
      BY <2>5, <3>1 DEF HalvesInv
  <2> QED
    BY <2>1, <2>2, <2>3, <2>4, <2>5 DEF Next, Tick, vars
<1> QED
  BY <1>1, <1>2, TypeInvariant, HistoryInvariant, PTL DEF Spec

\* The two halves of a HAIRCUT_AND_BEARD booking are side by side and on one day in every
\* state the table is ever committed in, whatever their statuses.
THEOREM HalvesStayAdjacent ==
  ASSUME Orderly
  PROVE  Spec => []HalvesAdjacent
<1>1. TypeInv /\ HalvesInv => HalvesAdjacent
  <2> SUFFICES ASSUME TypeInv, HalvesInv,
                      NEW i \in Ids, db[i] # NoRow, ~db[i].cont, db[i].svc = "CB"
               PROVE  \E j \in Ids : IsNextHalf(j, i)
    BY DEF HalvesAdjacent, IsPrimary
  <2>1. WholeRow(db, i)
    BY DEF HalvesInv, Whole
  <2>2. PICK j \in Ids : db[j] # NoRow /\ db[j].cont /\ db[j].bk = i
    BY <2>1 DEF WholeRow
  <2>3. WholeRow(db, j)
    BY <2>2 DEF HalvesInv, Whole
  <2>4. Tied(db[i], db[j]) /\ db[i].bk = i
    BY <2>1, <2>2, <2>3 DEF WholeRow
  <2> QED
    BY <2>2, <2>4 DEF Tied, Key, IsNextHalf
<1> QED
  BY <1>1, HalvesInvariant, PTL

\* Both halves of a booking are live, or both are cancelled.
SyncInv ==
    \A k \in Ids : db[k] # NoRow /\ db[k].cont =>
        (db[k].status = "cancelled" <=> db[db[k].bk].status = "cancelled")

\* Bookings insert both halves live, cancels take both halves.
LEMMA SyncKept ==
  ASSUME Ops \subseteq {"book", "cancel"}, TypeInv, HistInv, HalvesInv, SyncInv,
         NEW w \in Workers, pc[w] = "commit", db' = View(w)
  PROVE  SyncInv'
<1> SUFFICES ASSUME NEW k \in Ids, db'[k] # NoRow, db'[k].cont
             PROVE  db'[k].status = "cancelled" <=> db'[db'[k].bk].status = "cancelled"
  BY DEF SyncInv
<1>1. db \in [Ids -> Row \cup {NoRow}] /\ Whole(db)
  BY DEF TypeInv, TypeOK, HalvesInv
<1>2. call[w].op \in {"book", "cancel"} /\ call[w].id \in Ids
  BY AtWork
<1>3. ASSUME db[k] # NoRow, db[k].cont
      PROVE  /\ db[k].bk \in Ids /\ db[db[k].bk] # NoRow /\ db[db[k].bk].bk = db[k].bk
             /\ db[k].status = "cancelled" <=> db[db[k].bk].status = "cancelled"
  BY <1>1, <1>3, HalvesShare DEF SyncInv
<1>4. CASE call[w].op = "book"
  <2> PICK rows : rows = View(w)
    OBVIOUS
  <2>1. /\ db[call[w].id] = NoRow
        /\ rows[call[w].id] = NewRow(call[w], call[w].target, FALSE)
        /\ \A i \in Ids : db[i] # NoRow => rows[i] = db[i]
        /\ \A i \in Ids : db[i] = NoRow /\ rows[i] # NoRow =>
              rows[i].bk = call[w].id /\ rows[i].status = "pending"
    BY <1>4, BookCommits
  <2>2. CASE db[k] # NoRow
    BY <1>3, <2>1, <2>2
  <2>3. CASE db[k] = NoRow
    <3>1. rows[k].bk = call[w].id /\ rows[k].status = "pending"
      BY <2>1, <2>3
    <3>2. rows[call[w].id].status = "pending"
      BY <2>1 DEF NewRow
    <3> QED
      BY <3>1, <3>2
  <2> QED
    BY <2>2, <2>3
<1>5. CASE call[w].op = "cancel"
  <2> PICK rows : rows = View(w)
    OBVIOUS
  <2>1. /\ \A i \in Ids : rows[i] \in {db[i], Cancelled(db[i])}
        /\ \A i \in Ids \ Halves(call[w].id) : rows[i] = db[i]
        /\ \A i \in Halves(call[w].id) : rows[i].status = "cancelled"
    BY <1>5, CancelCommits DEF CancelSeesAll
  <2>2. db[k] # NoRow
    BY <2>1 DEF Halves
  <2>3. rows[k].cont = db[k].cont /\ rows[k].bk = db[k].bk
    <3>1. db[k] \in Row
      BY <1>1, <2>2
    <3> QED
      BY <2>1, <3>1 DEF Cancelled, Row
  <2>4. k \in Halves(call[w].id) <=> db[k].bk \in Halves(call[w].id)
    BY <1>3, <2>2, <2>3 DEF Halves
  <2> QED
    BY <1>3, <2>1, <2>2, <2>3, <2>4
<1> QED
  BY <1>2, <1>4, <1>5

\* While clients book and cancel, in any interleaving, the two halves of a live
\* HAIRCUT_AND_BEARD booking are side by side and live together.
THEOREM HalvesStayInSync ==
  ASSUME Ops \subseteq {"book", "cancel"}
  PROVE  Spec => []HalvesInSync
<1>1. Orderly
  BY DEF Orderly
<1>2. Init => SyncInv
  BY DEF Init, SyncInv, Clean
<1>3. TypeInv /\ SlotInv /\ HistInv /\ HalvesInv /\ SyncInv /\ [Next]_vars => SyncInv'
  <2> SUFFICES ASSUME TypeInv, SlotInv, HistInv, HalvesInv, SyncInv, [Next]_vars PROVE SyncInv'
    OBVIOUS
  <2>1. CASE db' = db
    BY <2>1 DEF SyncInv
  <2>2. ASSUME NEW w \in Workers, pc[w] = "commit", db' = View(w) PROVE SyncInv'
    BY <2>2, SyncKept
  <2> QED
    BY <2>1, <2>2, OnlyCommits
<1>4. TypeInv /\ HalvesInv /\ SyncInv => HalvesInSync
  <2> SUFFICES ASSUME TypeInv, HalvesInv, SyncInv,
                      NEW i \in Ids, db[i] # NoRow, ~db[i].cont, db[i].svc = "CB",
                      db[i].status # "cancelled"
               PROVE  \E j \in Ids : IsNextHalf(j, i) /\ db[j].status # "cancelled"
    BY DEF HalvesInSync, IsPrimary
  <2>1. WholeRow(db, i)
    BY DEF HalvesInv, Whole
  <2>2. PICK j \in Ids : db[j] # NoRow /\ db[j].cont /\ db[j].bk = i
    BY <2>1 DEF WholeRow
  <2>3. WholeRow(db, j) /\ db[j].status # "cancelled"
    BY <2>2 DEF HalvesInv, Whole, SyncInv
  <2>4. Tied(db[i], db[j]) /\ db[i].bk = i
    BY <2>1, <2>2, <2>3 DEF WholeRow
  <2> QED
    BY <2>2, <2>3, <2>4 DEF Tied, Key, IsNextHalf
<1> QED
  BY <1>1, <1>2, <1>3, <1>4, HalvesInvariant, PTL DEF Spec

\* A cancellation takes both halves of its booking, whichever half the client named and
\* whatever PATCHes came before it.
THEOREM CancelsTakeBoth ==
  ASSUME Orderly, CancelSeesAll
  PROVE  Spec => CancelTakesBoth
<1>1. ASSUME TypeInv, SlotInv, HistInv, HalvesInv, [Next]_vars,
             NEW w \in Workers, pc[w] = "commit", pc'[w] = "idle", call[w].op = "cancel",
             db' # db,
             NEW j \in Ids, db'[j] # NoRow, db'[j].bk = db[call[w].id].bk
      PROVE  db'[j].status = "cancelled"
  <2>1. PICK u \in Workers : pc[u] = "commit" /\ db' = View(u) /\ End(u)
    BY <1>1, OnlyCommits
  <2>2. u = w
    BY <1>1, <2>1 DEF End, TypeInv, TypeOK
  <2> PICK rows : rows = View(w)
    OBVIOUS
  <2>3. /\ db[call[w].id] # NoRow
        /\ \A k \in Ids : rows[k] \in {db[k], Cancelled(db[k])}
        /\ \A k \in Ids \ Halves(call[w].id) : rows[k] = db[k]
        /\ \A k \in Halves(call[w].id) : rows[k].status = "cancelled"
    BY <1>1, CancelCommits
  <2>4. CASE j \in Halves(call[w].id)
    BY <2>1, <2>2, <2>3, <2>4
  <2>5. CASE j \notin Halves(call[w].id)
    <3>1. db'[j] = db[j]
      BY <2>1, <2>2, <2>3, <2>5
    <3> QED
      BY <1>1, <2>5, <3>1 DEF Halves
  <2> QED
    BY <2>4, <2>5
<1>2. TypeInv /\ SlotInv /\ HistInv /\ HalvesInv /\ [Next]_vars =>
        [\A w \in Workers :
            /\ pc[w] = "commit" /\ pc'[w] = "idle"
            /\ call[w].op = "cancel"
            /\ db' # db
            => \A j \in Ids : db'[j] # NoRow /\ db'[j].bk = db[call[w].id].bk =>
                  db'[j].status = "cancelled"]_vars
  BY <1>1
<1> QED
  BY <1>2, HalvesInvariant, PTL DEF Spec, CancelTakesBoth

\* appointment_date, which the availability check reads, and start_time, which the
\* calendar reads, always name the same day.
THEOREM DatesAgree ==
  ASSUME Orderly
  PROVE  Spec => []DateAgreesWithStart
<1>1. HalvesInv => DateAgreesWithStart
  BY DEF HalvesInv, Whole, WholeRow, DateAgreesWithStart
<1> QED
  BY <1>1, HalvesInvariant, PTL

-----------------------------------------------------------------------------
(* The abstract calendar: each request takes effect at its commit *)

\* The live bookings of a table, as ActiveBookings collects them.
CalendarOf(rows) == {Entry(rows[i]) : i \in Live(rows)}

LEMMA ActiveIsCalendar ==
  /\ ActiveBookings = CalendarOf(db)
  /\ ActiveBookings' = CalendarOf(db')
  BY DEF ActiveBookings, CalendarOf, Live, Entry, IsPrimary

\* A live booking is an entry of the calendar that names its primary.
LEMMA EntryType ==
  ASSUME NEW rows \in [Ids -> Row \cup {NoRow}], Whole(rows), NEW i \in Live(rows)
  PROVE  /\ Entry(rows[i]) \in Calendar!Booking /\ Entry(rows[i]).bk = i
         /\ i \in Ids /\ rows[i] \in Row
<1>1. i \in Ids /\ rows[i] \in Row /\ rows[i] # NoRow /\ ~rows[i].cont
  BY DEF Live
<1>2. rows[i].bk = i
  BY <1>1 DEF Whole, WholeRow
<1> QED
  BY <1>1, <1>2 DEF Entry, Calendar!Booking, Row

\* A table with one live booking more: the new entry fits beside every other.
LEMMA EntryAdded ==
  ASSUME NEW rows \in [Ids -> Row \cup {NoRow}], Whole(rows), DistinctKeys(rows),
         db \in [Ids -> Row \cup {NoRow}], Whole(db), db' = rows,
         NEW i \in Live(rows), i \notin Live(db), Live(rows) = Live(db) \cup {i},
         \A k \in Live(db) : rows[k] = db[k]
  PROVE  \E b \in Calendar!Booking : Calendar!Book(b)
<1>1. CalendarOf(rows) = CalendarOf(db) \cup {Entry(rows[i])}
  BY DEF CalendarOf
<1>2. \A o \in CalendarOf(db) : o.bk # Entry(rows[i]).bk
  BY EntryType DEF CalendarOf
<1>3. \A o \in CalendarOf(db) : Calendar!Holds(Entry(rows[i])) \cap Calendar!Holds(o) = {}
  <2> SUFFICES ASSUME NEW k \in Live(db)
               PROVE  Calendar!Holds(Entry(rows[i])) \cap Calendar!Holds(Entry(db[k])) = {}
    BY DEF CalendarOf
  <2>1. k \in Live(rows) /\ k # i /\ rows[k] = db[k]
    OBVIOUS
  <2> QED
    BY <2>1, EntriesApart
<1>4. Entry(rows[i]) \in Calendar!Booking
  BY EntryType
<1>5. Calendar!Book(Entry(rows[i]))
  BY <1>1, <1>2, <1>3, ActiveIsCalendar DEF Calendar!Book, Calendar!Fits
<1> QED
  BY <1>4, <1>5

\* A table with one live booking less.
LEMMA EntryRemoved ==
  ASSUME NEW rows, db \in [Ids -> Row \cup {NoRow}], Whole(db), db' = rows,
         NEW i \in Live(db), Live(rows) = Live(db) \ {i},
         \A k \in Live(rows) : rows[k] = db[k]
  PROVE  \E b \in ActiveBookings : Calendar!Cancel(b)
<1>1. \A k \in Live(db) : k # i => Entry(db[k]) # Entry(db[i])
  BY EntryType
<1>2. CalendarOf(rows) = CalendarOf(db) \ {Entry(db[i])}
  BY <1>1 DEF CalendarOf
<1>3. Entry(db[i]) \in CalendarOf(db)
  BY DEF CalendarOf
<1>4. Calendar!Cancel(Entry(db[i]))
  BY <1>2, ActiveIsCalendar DEF Calendar!Cancel
<1> QED
  BY <1>3, <1>4, ActiveIsCalendar

\* The commit of a booking adds one entry, beside which every other still fits.
LEMMA BookMaps ==
  ASSUME TypeInv, SlotInv, HistInv, HalvesInv, NEW w \in Workers, pc[w] = "commit",
         call[w].op = "book", db' = View(w)
  PROVE  \E b \in Calendar!Booking : Calendar!Book(b)
<1> DEFINE c == call[w]
<1>1. /\ db \in [Ids -> Row \cup {NoRow}] /\ Whole(db)
      /\ View(w) \in [Ids -> Row \cup {NoRow}] /\ DistinctKeys(View(w)) /\ Whole(View(w))
  BY TableFacts, ViewType, CommitsWhole DEF TypeInv, SlotInv, UniqueSlot
<1> PICK rows : rows = View(w)
  OBVIOUS
<1>2. /\ c.id \in Ids /\ db[c.id] = NoRow
      /\ rows[c.id] = NewRow(c, c.target, FALSE) /\ rows[c.id] # NoRow
      /\ \A k \in Ids : db[k] # NoRow => rows[k] = db[k]
      /\ \A k \in Ids : db[k] = NoRow /\ rows[k] # NoRow /\ ~rows[k].cont => k = c.id
  <2> HIDE DEF c
  <2>1. /\ c.id \in Ids
        /\ db[c.id] = NoRow /\ rows[c.id] = NewRow(c, c.target, FALSE)
        /\ \A k \in Ids : db[k] # NoRow => rows[k] = db[k]
        /\ \A k \in Ids : db[k] = NoRow /\ rows[k] # NoRow => (k # c.id => rows[k].cont)
    BY AtWork, BookCommits DEF c
  <2>2. dirty[w][c.id] # NoRow
    BY AtWork DEF Inserting, c
  <2>3. rows[c.id] # NoRow
    BY <2>1, <2>2 DEF View
  <2> QED
    BY <2>1, <2>3
<1> HIDE DEF c
<1>3. c.id \in Live(rows)
  BY <1>2 DEF Live, NewRow
<1>4. Live(rows) = Live(db) \cup {c.id} /\ c.id \notin Live(db)
  BY <1>2, <1>3 DEF Live
<1>5. \A k \in Live(db) : rows[k] = db[k]
  BY <1>2 DEF Live
<1> QED
  BY <1>1, <1>3, <1>4, <1>5, EntryAdded

\* The commit of a cancel takes its booking out of the calendar, or changes nothing when
\* the primary was cancelled before.
LEMMA CancelMaps ==
  ASSUME TypeInv, SlotInv, HistInv, HalvesInv, NEW w \in Workers, pc[w] = "commit",
         call[w].op = "cancel", db' = View(w)
  PROVE  \/ UNCHANGED ActiveBookings
         \/ \E b \in ActiveBookings : Calendar!Cancel(b)
<1> DEFINE c == call[w]
<1>1. db \in [Ids -> Row \cup {NoRow}] /\ Whole(db)
  BY TableFacts
<1> PICK rows : rows = View(w)
  OBVIOUS
<1> PICK p : p = db[c.id].bk
  OBVIOUS
<1>2. /\ c.id \in Ids /\ db[c.id] # NoRow
      /\ \A k \in Ids : rows[k] \in {db[k], Cancelled(db[k])}
      /\ \A k \in Ids \ Halves(c.id) : rows[k] = db[k]
  BY AtWork, CancelCommits
<1>3. \A k \in Live(db) : k # p => k \notin Halves(c.id)
  BY <1>1, EntryType DEF Halves, Entry
<1>4. \A k \in Live(db) : k # p => rows[k] = db[k]
  BY <1>2, <1>3 DEF Live
<1>5. ASSUME NEW k \in Live(rows) PROVE rows[k] = db[k] /\ k \in Live(db)
  <2>1. k \in Ids /\ rows[k].status # "cancelled" /\ rows[k] # NoRow
    BY DEF Live
  <2>2. CASE k \in Halves(c.id)
    <3>1. db[k] \in Row
      BY <1>1, <2>1, <2>2 DEF Halves
    <3>2. Cancelled(db[k]).status = "cancelled"
      BY <3>1 DEF Cancelled, Row
    <3> QED
      BY <1>2, <2>1, <3>2 DEF Live
  <2> QED
    BY <1>2, <2>1, <2>2 DEF Live
<1>6. CASE p \in Live(db) /\ p \notin Live(rows)
  <2>1. Live(rows) = Live(db) \ {p}
    BY <1>4, <1>5, <1>6 DEF Live
  <2> QED
    BY <1>1, <1>5, <1>6, <2>1, EntryRemoved
<1>7. CASE ~(p \in Live(db) /\ p \notin Live(rows))
  <2>1. Live(rows) = Live(db)
    BY <1>4, <1>5, <1>7 DEF Live
  <2>2. CalendarOf(rows) = CalendarOf(db)
    BY <1>5, <2>1 DEF CalendarOf
  <2> QED
    BY <2>2, ActiveIsCalendar
<1> QED
  BY <1>6, <1>7

\* The commit of a reschedule moves one entry to a place that fits.
LEMMA MoveMaps ==
  ASSUME TypeInv, SlotInv, HistInv, HalvesInv, NEW w \in Workers, pc[w] = "commit",
         call[w].op = "reschedule", db' = View(w)
  PROVE  \E b \in ActiveBookings, start \in Starts : Calendar!Move(b, start)
<1> DEFINE c == call[w]
<1>1. /\ db \in [Ids -> Row \cup {NoRow}] /\ Whole(db)
      /\ View(w) \in [Ids -> Row \cup {NoRow}] /\ DistinctKeys(View(w)) /\ Whole(View(w))
  BY TableFacts, ViewType, CommitsWhole DEF TypeInv, SlotInv, UniqueSlot
<1> PICK rows : rows = View(w)
  OBVIOUS
<1>2. /\ c.id \in Ids /\ c.target \in Starts
      /\ db[c.id] # NoRow /\ ~db[c.id].cont /\ db[c.id].status # "cancelled"
      /\ rows[c.id] = Relocated(db[c.id], c.target)
      /\ \A k \in Ids \ Halves(c.id) : rows[k] = db[k]
      /\ \A k \in Ids : db[k] # NoRow => Same(rows[k], db[k]) /\ rows[k].status = db[k].status
      /\ \A k \in Ids : rows[k] = NoRow <=> db[k] = NoRow
  BY AtWork, MoveCommits DEF Call
<1>3. Live(rows) = Live(db) /\ c.id \in Live(db)
  BY <1>2 DEF Live, Same
<1>4. \A k \in Live(db) : k # c.id => rows[k] = db[k]
  <2>1. db[c.id].bk = c.id
    BY <1>1, <1>3, EntryType DEF Entry
  <2>2. \A k \in Live(db) : k \in Ids /\ db[k].bk = k
    BY <1>1, EntryType DEF Entry
  <2>3. \A k \in Live(db) : k # c.id => k \notin Halves(c.id)
    BY <2>1, <2>2 DEF Halves
  <2> QED
    BY <1>2, <2>2, <2>3
<1> DEFINE b == Entry(db[c.id])
           moved == Entry(rows[c.id])
<1>5. moved = [b EXCEPT !.start = c.target]
  <2>1. db[c.id] \in Row
    BY <1>1, <1>2
  <2> QED
    BY <1>2, <2>1 DEF Entry, Relocated, Row
<1>6. b \in CalendarOf(db) /\ b.bk = c.id
  BY <1>1, <1>3, EntryType DEF CalendarOf
<1>7. \A k \in Live(db) : k # c.id => Entry(db[k]) # b
  BY <1>1, <1>6, EntryType
<1>8. CalendarOf(rows) = (CalendarOf(db) \ {b}) \cup {moved}
  BY <1>3, <1>4, <1>7 DEF CalendarOf
<1>9. \A o \in CalendarOf(db) \ {b} : Calendar!Holds(moved) \cap Calendar!Holds(o) = {}
  <2> SUFFICES ASSUME NEW k \in Live(db), Entry(db[k]) # b
               PROVE  Calendar!Holds(moved) \cap Calendar!Holds(Entry(db[k])) = {}
    BY DEF CalendarOf
  <2>1. k \in Live(rows) /\ c.id \in Live(rows) /\ k # c.id /\ rows[k] = db[k]
    BY <1>3, <1>4
  <2>2. rows \in [Ids -> Row \cup {NoRow}] /\ Whole(rows) /\ DistinctKeys(rows)
    BY <1>1
  <2> QED
    BY <2>1, <2>2, EntriesApart
<1> HIDE DEF b, moved
<1>10. Calendar!Move(b, c.target)
  BY <1>5, <1>8, <1>9, ActiveIsCalendar DEF Calendar!Move, Calendar!Fits
<1> QED
  BY <1>2, <1>6, <1>10, ActiveIsCalendar

\* The commit of a PATCH takes its booking out of the calendar, puts it back, where its
\* rows kept its place free, or is invisible there.
LEMMA PatchMaps ==
  ASSUME TypeInv, SlotInv, HistInv, HalvesInv, NEW w \in Workers, pc[w] = "commit",
         call[w].op = "patch", db' = View(w)
  PROVE  \/ UNCHANGED ActiveBookings
         \/ \E b \in ActiveBookings : Calendar!Cancel(b)
         \/ \E b \in Calendar!Booking : Calendar!Book(b)
<1>1. /\ db \in [Ids -> Row \cup {NoRow}] /\ Whole(db)
      /\ View(w) \in [Ids -> Row \cup {NoRow}] /\ DistinctKeys(View(w)) /\ Whole(View(w))
  BY TableFacts, ViewType, CommitsWhole DEF TypeInv, SlotInv, UniqueSlot
<1> PICK rows : rows = View(w)
  OBVIOUS
<1> PICK i : i = call[w].id
  OBVIOUS
<1>2. /\ i \in Ids /\ db[i] # NoRow
      /\ \A k \in Ids : rows[k] = NoRow <=> db[k] = NoRow
      /\ \A k \in Ids : db[k] # NoRow => Same(rows[k], db[k]) /\ Key(rows[k]) = Key(db[k])
      /\ \A k \in Ids : rows[k] # db[k] => k = i
  BY AtWork, PatchCommits
<1>3. \A k \in Ids : k # i => (k \in Live(rows) <=> k \in Live(db))
  BY <1>2 DEF Live
<1>4. \A k \in Live(db) : Entry(rows[k]) = Entry(db[k])
  BY <1>2 DEF Live, Entry, Same, Key
<1>5. Live(rows) \subseteq Ids /\ Live(db) \subseteq Ids
  BY DEF Live
<1>6. CASE i \in Live(rows) <=> i \in Live(db)
  <2>1. Live(rows) = Live(db)
    BY <1>3, <1>5, <1>6
  <2>2. CalendarOf(rows) = CalendarOf(db)
    BY <1>4, <2>1 DEF CalendarOf
  <2> QED
    BY <2>2, ActiveIsCalendar
<1>7. CASE i \in Live(db) /\ i \notin Live(rows)
  <2>1. Live(rows) = Live(db) \ {i}
    BY <1>3, <1>5, <1>7
  <2>2. \A k \in Live(rows) : rows[k] = db[k]
    BY <1>2, <1>5, <1>7
  <2> QED
    BY <1>1, <1>7, <2>1, <2>2, EntryRemoved
<1>8. CASE i \notin Live(db) /\ i \in Live(rows)
  <2>1. Live(rows) = Live(db) \cup {i}
    BY <1>3, <1>5, <1>8
  <2>2. \A k \in Live(db) : rows[k] = db[k]
    BY <1>2, <1>5, <1>8
  <2> QED
    BY <1>1, <1>8, <2>1, <2>2, EntryAdded
<1> QED
  BY <1>6, <1>7, <1>8

\* Every request takes effect in one step, at its commit, on a calendar whose bookings
\* never overlap: the detailed specification implements the abstract one.
THEOREM CalendarImplemented ==
  ASSUME Orderly
  PROVE  Spec => ImplementsCalendar
<1>1. Init => Calendar!Init
  BY DEF Init, Calendar!Init, ActiveBookings, IsPrimary, Clean
<1>2. TypeInv /\ SlotInv /\ HistInv /\ HalvesInv /\ [Next]_vars => [Calendar!Next]_ActiveBookings
  <2> SUFFICES ASSUME TypeInv, SlotInv, HistInv, HalvesInv, [Next]_vars
               PROVE  Calendar!Next \/ UNCHANGED ActiveBookings
    OBVIOUS
  <2>1. CASE db' = db
    BY <2>1, ActiveIsCalendar
  <2>2. ASSUME NEW w \in Workers, pc[w] = "commit", db' = View(w)
        PROVE  Calendar!Next \/ UNCHANGED ActiveBookings
    <3>1. call[w].op \in {"book", "cancel", "reschedule", "patch"}
      BY <2>2, AtWork DEF Call
    <3>2. CASE call[w].op = "book"
      BY <2>2, <3>2, BookMaps DEF Calendar!Next
    <3>3. CASE call[w].op = "cancel"
      BY <2>2, <3>3, CancelMaps DEF Calendar!Next
    <3>4. CASE call[w].op = "reschedule"
      BY <2>2, <3>4, MoveMaps DEF Calendar!Next
    <3>5. CASE call[w].op = "patch"
      BY <2>2, <3>5, PatchMaps DEF Calendar!Next
    <3> QED
      BY <3>1, <3>2, <3>3, <3>4, <3>5
  <2> QED
    BY <2>1, <2>2, OnlyCommits
<1> QED
  BY <1>1, <1>2, HalvesInvariant, PTL DEF Spec, ImplementsCalendar, Calendar!Spec

-----------------------------------------------------------------------------
(* What the abstract calendar promises, and so the table *)

\* Adding a booking that fits beside the others keeps them apart: what makes the
\* conflict check of book and reschedule enough.
LEMMA FitKeepsApart ==
  ASSUME NEW others, NEW b,
         \A o, p \in others : o # p => Calendar!Holds(o) \cap Calendar!Holds(p) = {},
         Calendar!Fits(b, others)
  PROVE  \A o, p \in others \cup {b} : o # p => Calendar!Holds(o) \cap Calendar!Holds(p) = {}
<1> SUFFICES ASSUME NEW o \in others \cup {b}, NEW p \in others \cup {b}, o # p
             PROVE  Calendar!Holds(o) \cap Calendar!Holds(p) = {}
  OBVIOUS
<1>1. \A q \in others : Calendar!Holds(b) \cap Calendar!Holds(q) = {}
  BY DEF Calendar!Fits
<1>2. CASE o \in others /\ p \in others
  BY <1>2
<1>3. CASE o = b /\ p \in others
  BY <1>1, <1>3
<1>4. CASE o \in others /\ p = b
  BY <1>1, <1>4
<1> QED
  BY <1>2, <1>3, <1>4

\* A barber is never due to serve two live bookings in the same half hour, on every
\* calendar of any size: NoOverlap is inductive, as Book and Move ask that the new place
\* fits beside every other booking.
LEMMA CalendarNeverOverlaps == Calendar!Spec => []Calendar!NoOverlap
<1>1. Calendar!Init => Calendar!NoOverlap
  BY DEF Calendar!Init, Calendar!NoOverlap
<1>2. Calendar!NoOverlap /\ [Calendar!Next]_ActiveBookings => Calendar!NoOverlap'
  <2> SUFFICES ASSUME Calendar!NoOverlap, Calendar!Next \/ UNCHANGED ActiveBookings
               PROVE  Calendar!NoOverlap'
    OBVIOUS
  <2> PICK old : old = ActiveBookings
    OBVIOUS
  <2> PICK new : new = ActiveBookings'
    OBVIOUS
  <2>0. \A o, p \in old : o # p => Calendar!Holds(o) \cap Calendar!Holds(p) = {}
    BY DEF Calendar!NoOverlap
  <2>1. ASSUME NEW b \in Calendar!Booking, Calendar!Book(b)
        PROVE  \A o, p \in new : o # p => Calendar!Holds(o) \cap Calendar!Holds(p) = {}
    <3>1. new = old \cup {b} /\ Calendar!Fits(b, old)
      BY <2>1 DEF Calendar!Book
    <3> QED
      BY <2>0, <3>1, FitKeepsApart
  <2>2. ASSUME NEW b \in old, Calendar!Cancel(b)
        PROVE  \A o, p \in new : o # p => Calendar!Holds(o) \cap Calendar!Holds(p) = {}
    <3>1. new \subseteq old
      BY <2>2 DEF Calendar!Cancel
    <3> QED
      BY <2>0, <3>1
  <2>3. ASSUME NEW b \in old, NEW start \in Starts, Calendar!Move(b, start)
        PROVE  \A o, p \in new : o # p => Calendar!Holds(o) \cap Calendar!Holds(p) = {}
    <3> DEFINE moved == [b EXCEPT !.start = start]
    <3>1. Calendar!Fits(moved, old \ {b}) /\ new = (old \ {b}) \cup {moved}
      BY <2>3 DEF Calendar!Move
    <3>2. \A o, p \in old \ {b} : o # p => Calendar!Holds(o) \cap Calendar!Holds(p) = {}
      BY <2>0
    <3> HIDE DEF moved
    <3> QED
      BY <3>1, <3>2, FitKeepsApart
  <2>4. \A o, p \in new : o # p => Calendar!Holds(o) \cap Calendar!Holds(p) = {}
    BY <2>0, <2>1, <2>2, <2>3 DEF Calendar!Next
  <2> QED
    BY <2>4 DEF Calendar!NoOverlap, Calendar!Holds
<1> QED
  BY <1>1, <1>2, PTL DEF Calendar!Spec

\* The live bookings in the table never overlap, the second halves of HAIRCUT_AND_BEARD
\* services included, while clients book, cancel and PATCH statuses in any interleaving, or
\* send any requests one after the other and reschedule bookings by their primary.
THEOREM NeverDoubleBooked ==
  ASSUME Orderly
  PROVE  Spec => []Calendar!NoOverlap
<1> QED
  BY CalendarImplemented, CalendarNeverOverlaps, PTL DEF ImplementsCalendar
=============================================================================
