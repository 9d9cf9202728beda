---------------------------- MODULE Appointments ----------------------------
(***************************************************************************)
(* The appointments table of one tenant and the requests that change it:   *)
(* book (POST /appointments and the chat intake), cancel (DELETE),         *)
(* reschedule (POST .../reschedule) and status update (PATCH .../status).  *)
(* Every request runs in a worker with a database session of its own, at   *)
(* READ COMMITTED: it reads committed rows, flushes its writes one at a    *)
(* time and commits at the end, so requests interleave between any two of  *)
(* its statements.                                                         *)
(***************************************************************************)
EXTENDS Integers

CONSTANTS
    Workers,            \* requests that may be in progress together
    Ids,                \* primary keys: bounds the rows ever inserted
    Barbers,
    Services,           \* service codes offered, among ServiceCode
    SlotsPerDay,        \* half hours of a day (48 in the code)
    NumDays,            \* days clients book on
    MaxClock,           \* bound on the clock, in slots
    Open,               \* <<barber, slot>>: open (weekly or extra) and not absent
    HaircutOnly,        \* <<barber, slot>>: restricted to service "C"
    ClosedDays,         \* settings.config["booking"]["closed_dates"]
    Ops,                \* requests clients send in this instance
    Patches,            \* <<from, to>>: PATCHes clients send, by the status they load
    MoveContinuation,   \* do clients reschedule "(CB cont.)" rows by their id?
    WriteBack,          \* is a write-capable Google Sheets provider active?
    AwareTimestamps,    \* TRUE: timestamptz columns come back tz-aware (PostgreSQL);
                        \* FALSE: naive (the sqlite shim of the tests)
    NoRow,              \* "no such row", "not written by this transaction"
    NoCall              \* locals of an idle worker

ServiceCode == {"C", "B", "CB", "OTHER"}
Status == {"pending", "confirmed", "cancelled", "completed", "no_show"}

Days == 0 .. NumDays - 1
Starts == 0 .. NumDays * SlotsPerDay - 1

\* A row: appointment_date and start_time are separate columns, and start_time
\* carries its own date.  cont is the "(CB cont.)" tag in customer_name; bk stands
\* for the customer's data, the same in both halves, named after the primary's id.
Row == [barber : Barbers, date : Days, start : Starts, status : Status,
        svc : Services, cont : BOOLEAN, bk : Ids]

\* Locals of a request.  id/partner: the rows it writes; date, start, cont: what it
\* loaded of row id; target: the requested start; status: the status to write.
Call == [op : {"book", "cancel", "reschedule", "patch"}, id : Ids, partner : Ids,
         barber : Barbers, svc : Services, date : Days, start : Starts,
         target : Starts, status : Status, cont : BOOLEAN]

Pc == {"idle", "insert", "insert_cont", "sync", "cancel_row", "cancel_find",
       "cancel_partner", "move_row", "move_find", "move_partner", "patch_row",
       "commit", "failed"}

ASSUME GridAssumption ==
    SlotsPerDay \in Nat \ {0} /\ NumDays \in Nat \ {0} /\ MaxClock \in Nat
ASSUME ValueAssumption ==
    /\ Services \subseteq ServiceCode
    /\ Patches \subseteq Status \X Status
    /\ NoRow \notin Row
    /\ NoCall \notin Call

VARIABLES
    db,         \* the committed table, [Ids -> Row or NoRow]
    dirty,      \* rows flushed but not committed, per worker
    pc,         \* the next statement of each worker
    call,       \* its locals
    now,        \* the clock: the slot in progress
    sheet       \* ids of the appointments appended to the Google sheet

vars == <<db, dirty, pc, call, now, sheet>>

Clean == [i \in Ids |-> NoRow]

Init ==
    /\ db = Clean
    /\ dirty = [w \in Workers |-> Clean]
    /\ pc = [w \in Workers |-> "idle"]
    /\ call = [w \in Workers |-> NoCall]
    /\ now = 0
    /\ sheet = {}

-----------------------------------------------------------------------------
(* Reading the table *)

Date(start) == start \div SlotsPerDay
TimeOfDay(start) == start % SlotsPerDay

\* "same day AND the start time has already passed"; other days are never past.
IsPast(start) == Date(start) = Date(now) /\ start <= now

\* What a SELECT of worker w sees: committed rows under its own flushed writes.
View(w) == [i \in Ids |-> IF dirty[w][i] # NoRow THEN dirty[w][i] ELSE db[i]]

Key(r) == <<r.barber, r.date, r.start>>      \* uq_appointment_slot, one tenant

\* get_for_barber_on: rows of the day that are not cancelled.
ActiveOn(rows, barber, date) ==
    {i \in Ids : /\ rows[i] # NoRow
                 /\ rows[i].barber = barber
                 /\ rows[i].date = date
                 /\ rows[i].status # "cancelled"}

\* find_cb_partner (step = 1, cont = TRUE) and find_cb_primary (step = -1, cont =
\* FALSE): a guess by position and tag, whatever the row's status or customer.
OtherHalf(rows, barber, date, start, step, cont) ==
    {i \in Ids : /\ rows[i] # NoRow
                 /\ Key(rows[i]) = <<barber, date, start + step>>
                 /\ rows[i].cont = cont}

IsLinked(r, anchor) ==
    /\ r.date = anchor.date
    /\ r.cont # anchor.cont
    /\ r.start \in {anchor.start - 1, anchor.start + 1}

Slots(svc, start) == IF svc = "CB" THEN {start, start + 1} ELSE {start}

\* plan_booking accepts the service at target beside the rows in taken.
Plannable(svc, barber, target, taken) ==
    /\ ~IsPast(target)
    /\ <<barber, target>> \in HaircutOnly => svc = "C"
    /\ \A s \in Slots(svc, target) :
          /\ Date(s) = Date(target)                     \* does not cross midnight
          /\ <<barber, s>> \in Open
          /\ \A r \in taken : TimeOfDay(r.start) # TimeOfDay(s)

-----------------------------------------------------------------------------
(* Writing the table *)

\* Another transaction's uncommitted write of row i, or to or from the key of row,
\* must end first.
BlockedBy(u, i, row) ==
    \E k \in Ids :
        /\ dirty[u][k] # NoRow
        /\ \/ k = i
           \/ Key(dirty[u][k]) = Key(row)
           \/ db[k] # NoRow /\ Key(db[k]) = Key(row)

\* Changed form: a unique index over the rows that are not cancelled.
KeyTakenByLive(w, i, row) ==
    \E k \in Ids \ {i} : /\ View(w)[k] # NoRow
                         /\ View(w)[k].status # "cancelled"
                         /\ Key(View(w)[k]) = Key(row)

KeyTaken(w, i, row) ==
    \E k \in Ids \ {i} : View(w)[k] # NoRow /\ Key(View(w)[k]) = Key(row)

\* session.flush() of row i by w: waits, raises IntegrityError, or writes.
Flush(w, i, row, next) ==
    /\ \A u \in Workers \ {w} : ~BlockedBy(u, i, row)
    /\ \/ /\ KeyTaken(w, i, row)
          /\ pc' = [pc EXCEPT ![w] = "failed"]
          /\ UNCHANGED dirty
       \/ /\ ~KeyTaken(w, i, row)
          /\ dirty' = [dirty EXCEPT ![w] = [@ EXCEPT ![i] = row]]
          /\ pc' = [pc EXCEPT ![w] = next]
    /\ UNCHANGED <<db, call, now, sheet>>

Goto(w, next) ==
    /\ pc' = [pc EXCEPT ![w] = next]
    /\ UNCHANGED <<db, dirty, now, sheet>>

\* The other half is the row found, if any; next writes it.
WithPartner(w, found, next) ==
    \/ /\ found = {}
       /\ UNCHANGED call
       /\ Goto(w, "commit")
    \/ \E i \in found :
          /\ call' = [call EXCEPT ![w].partner = i]
          /\ Goto(w, next)

Start(w, locals, next) ==
    /\ pc[w] = "idle"
    /\ call' = [call EXCEPT ![w] = locals]
    /\ Goto(w, next)

-----------------------------------------------------------------------------
(* Book: plan, insert the primary, insert the continuation, write back, commit *)

\* Ids are random UUIDs: never one that is stored, reserved or already exported.
Fresh(i) ==
    /\ db[i] = NoRow
    /\ i \notin sheet
    /\ \A u \in Workers : pc[u] # "idle" => i \notin {call[u].id, call[u].partner}

\* book_slot up to plan_booking; a request it rejects changes nothing.
BookPlan(w, svc, barber, target, i, j) ==
    /\ "book" \in Ops
    /\ Date(target) \notin ClosedDays
    /\ Plannable(svc, barber, target,
                 {View(w)[k] : k \in ActiveOn(View(w), barber, Date(target))})
    /\ Fresh(i) /\ Fresh(j) /\ (i = j <=> svc # "CB")
    /\ Start(w, [op |-> "book", id |-> i, partner |-> j, barber |-> barber, svc |-> svc,
                 date |-> Date(target), start |-> target, target |-> target,
                 status |-> "pending", cont |-> FALSE], "insert")

NewRow(c, start, cont) ==
    [barber |-> c.barber, date |-> c.date, start |-> start, status |-> "pending",
     svc |-> c.svc, cont |-> cont, bk |-> c.id]

AfterInsert == IF WriteBack THEN "sync" ELSE "commit"

\* Changed forms: no continuation row; a commit between the two inserts.
InsertPrimaryOnly(w) ==
    LET c == call[w]
    IN pc[w] = "insert" /\ Flush(w, c.id, NewRow(c, c.target, FALSE), AfterInsert)

InsertPrimaryCommitted(w) ==
    LET c == call[w]
        row == NewRow(c, c.target, FALSE)
    IN /\ pc[w] = "insert"
       /\ ~KeyTaken(w, c.id, row)
       /\ db' = [db EXCEPT ![c.id] = row]
       /\ pc' = [pc EXCEPT ![w] = IF c.svc = "CB" THEN "insert_cont" ELSE AfterInsert]
       /\ UNCHANGED <<dirty, call, now, sheet>>

InsertPrimary(w) ==
    LET c == call[w]
    IN /\ pc[w] = "insert"
       /\ Flush(w, c.id, NewRow(c, c.target, FALSE),
                IF c.svc = "CB" THEN "insert_cont" ELSE AfterInsert)

InsertContinuation(w) ==
    LET c == call[w]
    IN /\ pc[w] = "insert_cont"
       /\ Flush(w, c.partner, NewRow(c, c.target + 1, TRUE), AfterInsert)

\* append_appointment adds the primary's row to the sheet or returns False.
SyncToSheets(w) ==
    /\ pc[w] = "sync"
    /\ sheet' \in {sheet, sheet \cup {call[w].id}}
    /\ pc' = [pc EXCEPT ![w] = "commit"]
    /\ UNCHANGED <<db, dirty, call, now>>

-----------------------------------------------------------------------------
(* Cancel: load and check, write the status, look for the other half, write it *)

\* On PostgreSQL the comparison of a loaded start_time with the naive clock raises
\* TypeError, which _is_in_past reaches for every appointment of the current day.
CancelRead(w, i) ==
    LET r == db[i]
    IN /\ "cancel" \in Ops
       /\ r # NoRow
       /\ r.status # "cancelled"
       /\ ~IsPast(r.start)
       /\ AwareTimestamps => Date(r.start) # Date(now)
       /\ Start(w, [op |-> "cancel", id |-> i, partner |-> i, barber |-> r.barber, svc |-> r.svc,
                    date |-> r.date, start |-> r.start, target |-> r.start,
                    status |-> "cancelled", cont |-> r.cont], "cancel_row")

\* An UPDATE writes the changed columns over the row as it is now committed.
WithStatus(w, i) == [View(w)[i] EXCEPT !.status = call[w].status]

CancelRow(w) ==
    LET i == call[w].id
    IN pc[w] = "cancel_row" /\ Flush(w, i, WithStatus(w, i), "cancel_find")

\* Changed forms: no cascade; a cascade that only looks forward.
CancelFindNone(w) ==
    pc[w] = "cancel_find" /\ UNCHANGED call /\ Goto(w, "commit")

CancelFindForward(w) ==
    LET c == call[w]
        found == OtherHalf(View(w), c.barber, c.date, c.start, 1, TRUE)
    IN /\ pc[w] = "cancel_find"
       /\ WithPartner(w, found, "cancel_partner")

\* The other half is looked up at the position loaded by CancelRead.
CancelFind(w) ==
    LET c == call[w]
        found == {i \in OtherHalf(View(w), c.barber, c.date, c.start,
                                  IF c.cont THEN -1 ELSE 1, ~c.cont) :
                    View(w)[i].status # "cancelled"}
    IN /\ pc[w] = "cancel_find"
       /\ WithPartner(w, found, "cancel_partner")

CancelPartner(w) ==
    LET i == call[w].partner
    IN pc[w] = "cancel_partner" /\ Flush(w, i, WithStatus(w, i), "commit")

-----------------------------------------------------------------------------
(* Reschedule: load and plan, move the row, look for its continuation, move it *)

RescheduleRead(w, i, target) ==
    LET r == db[i]
        others == {k \in ActiveOn(db, r.barber, Date(target)) :
                     k # i /\ ~IsLinked(db[k], r)}
    IN /\ "reschedule" \in Ops
       /\ r # NoRow
       /\ r.cont => MoveContinuation
       /\ r.status \notin {"cancelled", "completed"}
       /\ Date(target) \notin ClosedDays
       /\ Plannable(r.svc, r.barber, target, {db[k] : k \in others})
       /\ Start(w, [op |-> "reschedule", id |-> i, partner |-> i, barber |-> r.barber, svc |-> r.svc,
                    date |-> r.date, start |-> r.start, target |-> target,
                    status |-> r.status, cont |-> r.cont], "move_row")

\* The ORM writes the columns whose new value differs from the loaded one; an aware
\* start_time always differs from the naive new value.
DatedNever(r, c) == r    \* changed form: appointment_date is forgotten
Dated(r, c) == IF Date(c.target) = c.date THEN r ELSE [r EXCEPT !.date = Date(c.target)]

\* Changed forms: one slot late; the whole row as it was loaded.
MovedLate(w, i, offset) ==
    [Dated(View(w)[i], call[w]) EXCEPT !.start = call[w].target + offset + 1]
MovedWholeRow(w, i, offset) ==
    [Dated(View(w)[i], call[w]) EXCEPT !.start = call[w].target + offset,
                                       !.status = call[w].status]

Moved(w, i, offset) ==
    LET c == call[w]
        r == View(w)[i]
    IN IF AwareTimestamps \/ c.target # c.start
       THEN [Dated(r, c) EXCEPT !.start = c.target + offset]
       ELSE Dated(r, c)

Unmoved(c) == ~AwareTimestamps /\ c.target = c.start /\ Date(c.target) = c.date

MoveWrite(w, i, offset, next) ==
    \/ /\ Unmoved(call[w])
       /\ UNCHANGED call
       /\ Goto(w, next)
    \/ /\ ~Unmoved(call[w])
       /\ Flush(w, i, Moved(w, i, offset), next)

\* Changed form: the continuation stays behind.
MoveRowAlone(w) ==
    pc[w] = "move_row" /\ MoveWrite(w, call[w].id, 0, "commit")

MoveRow(w) ==
    /\ pc[w] = "move_row"
    /\ MoveWrite(w, call[w].id, 0, IF call[w].svc = "CB" THEN "move_find" ELSE "commit")

\* Changed form: the continuation is looked up on the new date.
MoveFindNewDate(w) ==
    LET c == call[w]
        found == OtherHalf(View(w), c.barber, Date(c.target), c.start, 1, TRUE)
    IN /\ pc[w] = "move_find"
       /\ WithPartner(w, found, "move_partner")

\* find_cb_partner at the old date and start, also when row id is itself a
\* continuation.
MoveFind(w) ==
    LET c == call[w]
        found == OtherHalf(View(w), c.barber, c.date, c.start, 1, TRUE)
    IN /\ pc[w] = "move_find"
       /\ WithPartner(w, found, "move_partner")

MovePartner(w) ==
    pc[w] = "move_partner" /\ MoveWrite(w, call[w].partner, 1, "commit")

-----------------------------------------------------------------------------
(* PATCH .../status: load, write the status of that one row, commit *)

PatchRead(w, i, status) ==
    LET r == db[i]
    IN /\ "patch" \in Ops
       /\ r # NoRow
       /\ <<r.status, status>> \in Patches
       /\ r.status # status                  \* equal: no UPDATE is emitted
       /\ Start(w, [op |-> "patch", id |-> i, partner |-> i, barber |-> r.barber, svc |-> r.svc,
                    date |-> r.date, start |-> r.start, target |-> r.start,
                    status |-> status, cont |-> r.cont], "patch_row")

PatchRow(w) ==
    LET i == call[w].id
    IN pc[w] = "patch_row" /\ Flush(w, i, WithStatus(w, i), "commit")

-----------------------------------------------------------------------------
(* Ending a request *)

End(w) ==
    /\ dirty' = [dirty EXCEPT ![w] = Clean]
    /\ call' = [call EXCEPT ![w] = NoCall]
    /\ pc' = [pc EXCEPT ![w] = "idle"]
    /\ UNCHANGED <<now, sheet>>

\* session.commit() in the route, then the 2xx answer.
Commit(w) ==
    /\ pc[w] = "commit"
    /\ db' = View(w)
    /\ End(w)

\* Changed form: the session goes back to the pool without a rollback.
FailWithoutRollback(w) ==
    /\ pc[w] = "failed"
    /\ call' = [call EXCEPT ![w] = NoCall]
    /\ pc' = [pc EXCEPT ![w] = "idle"]
    /\ UNCHANGED <<db, dirty, now, sheet>>

\* The IntegrityError leaves the route: the session closes, the client gets a 500.
Fail(w) ==
    /\ pc[w] = "failed"
    /\ UNCHANGED db
    /\ End(w)

\* The worker process dies, or its connection drops, before the commit.
Crash(w) ==
    /\ pc[w] # "idle"
    /\ UNCHANGED db
    /\ End(w)

\* The row a worker at a flush is about to write.
Writing(w) ==
    LET c == call[w]
    IN CASE pc[w] = "insert" -> [id |-> c.id, row |-> NewRow(c, c.target, FALSE)]
         [] pc[w] = "insert_cont" -> [id |-> c.partner, row |-> NewRow(c, c.target + 1, TRUE)]
         [] pc[w] \in {"cancel_row", "patch_row"} -> [id |-> c.id, row |-> WithStatus(w, c.id)]
         [] pc[w] = "cancel_partner" -> [id |-> c.partner, row |-> WithStatus(w, c.partner)]
         [] pc[w] = "move_row" -> [id |-> c.id, row |-> Moved(w, c.id, 0)]
         [] pc[w] = "move_partner" -> [id |-> c.partner, row |-> Moved(w, c.partner, 1)]

WaitsFor(w, u) ==
    /\ w # u
    /\ pc[w] \in {"insert", "insert_cont", "cancel_row", "patch_row", "cancel_partner",
                  "move_row", "move_partner"}
    /\ pc[w] \in {"move_row", "move_partner"} => ~Unmoved(call[w])
    /\ BlockedBy(u, Writing(w).id, Writing(w).row)

\* PostgreSQL's deadlock detector aborts one transaction of a cycle of waits.
DeadlockAbort(w) ==
    /\ \E S \in SUBSET Workers :
          /\ w \in S
          /\ \A v \in S : (\E u \in S : WaitsFor(v, u)) /\ (\E u \in S : WaitsFor(u, v))
    /\ pc' = [pc EXCEPT ![w] = "failed"]
    /\ dirty' = [dirty EXCEPT ![w] = Clean]
    /\ UNCHANGED <<db, call, now, sheet>>

Tick ==
    /\ now < MaxClock
    /\ now' = now + 1
    /\ UNCHANGED <<db, dirty, pc, call, sheet>>

-----------------------------------------------------------------------------
(* The next statement of a request in progress *)
Step(w) ==
    \/ InsertPrimary(w)
    \/ InsertContinuation(w)
    \/ SyncToSheets(w)
    \/ CancelRow(w)
    \/ CancelFind(w)
    \/ CancelPartner(w)
    \/ MoveRow(w)
    \/ MoveFind(w)
    \/ MovePartner(w)
    \/ PatchRow(w)
    \/ Commit(w)
    \/ Fail(w)

Request(w) ==
    \/ \E svc \in Services, barber \in Barbers, target \in Starts, i, j \in Ids :
          BookPlan(w, svc, barber, target, i, j)
    \/ \E i \in Ids : CancelRead(w, i)
    \/ \E i \in Ids, target \in Starts : RescheduleRead(w, i, target)
    \/ \E i \in Ids, status \in Status : PatchRead(w, i, status)

Next ==
    \/ \E w \in Workers : Request(w) \/ Step(w) \/ Crash(w) \/ DeadlockAbort(w)
    \/ Tick

Spec == Init /\ [][Next]_vars

\* Workers are threads of the server and PostgreSQL queues those that wait for the
\* same lock: a statement possible again and again is executed.
Fairness == \A w \in Workers : SF_vars(Step(w)) /\ WF_vars(DeadlockAbort(w))

FairSpec == Spec /\ Fairness

-----------------------------------------------------------------------------
(* Properties *)

\* Every variable has its type; an idle worker has no transaction.
TypeOK ==
    /\ db \in [Ids -> Row \cup {NoRow}]
    /\ dirty \in [Workers -> [Ids -> Row \cup {NoRow}]]
    /\ pc \in [Workers -> Pc]
    /\ call \in [Workers -> Call \cup {NoCall}]
    /\ \A w \in Workers :
          IF pc[w] = "idle" THEN call[w] = NoCall /\ dirty[w] = Clean
                            ELSE call[w] \in Call
    /\ now \in 0 .. MaxClock
    /\ sheet \subseteq Ids

\* uq_appointment_slot as every transaction sees it: neither the committed rows, nor
\* those rows under a transaction's own writes, hold one (barber, date, start) twice.
DistinctKeys(rows) ==
    \A i, j \in Ids : i # j /\ rows[i] # NoRow /\ rows[j] # NoRow => Key(rows[i]) # Key(rows[j])
UniqueSlot == DistinctKeys(db) /\ \A w \in Workers : DistinctKeys(View(w))

\* The two rows of a HAIRCUT_AND_BEARD booking are born in one transaction: whatever
\* crashes, deadlocks or conflicts happen between the two flushes of _persist_plan, a
\* primary is never in the table without the continuation written for it.
HasContinuation(i) == \E j \in Ids : db[j] # NoRow /\ db[j].cont /\ db[j].bk = db[i].bk
IsPrimary(i) == db[i] # NoRow /\ ~db[i].cont
PairsBornWhole == \A i \in Ids : IsPrimary(i) /\ db[i].svc = "CB" => HasContinuation(i)

\* The halves of a HAIRCUT_AND_BEARD booking stay adjacent and on one day, wherever a
\* reschedule moves them and whatever status each is given.
IsNextHalf(j, i) ==
    /\ db[j] # NoRow
    /\ Key(db[j]) = <<db[i].barber, db[i].date, db[i].start + 1>>
    /\ db[j].cont
    /\ db[j].bk = db[i].bk
HalvesAdjacent ==
    \A i \in Ids : IsPrimary(i) /\ db[i].svc = "CB" => \E j \in Ids : IsNextHalf(j, i)

\* While clients only book and cancel, the two halves are also live together ("so the
\* two halves stay in sync").
HalvesInSync ==
    \A i \in Ids : IsPrimary(i) /\ db[i].svc = "CB" /\ db[i].status # "cancelled" =>
        \E j \in Ids : IsNextHalf(j, i) /\ db[j].status # "cancelled"

\* A cancellation that commits leaves no live half of its booking, whichever half the
\* client named and whatever statuses PATCHes had given the two.
CancelTakesBoth ==
    [][\A w \in Workers :
          /\ pc[w] = "commit" /\ pc'[w] = "idle"
          /\ call[w].op = "cancel"
          /\ db' # db
          => \A j \in Ids : db'[j] # NoRow /\ db'[j].bk = db[call[w].id].bk =>
                db'[j].status = "cancelled"]_vars

\* appointment_date is the date of start_time: the availability check reads one column
\* and the unique guard and the calendar read both.
DateAgreesWithStart == \A i \in Ids : db[i] # NoRow => db[i].date = Date(db[i].start)

\* A cancelled appointment comes back to life only by a PATCH that says so, not by a
\* reschedule that loaded it before the cancel committed.
CancelledIsFinal ==
    [][\A i \in Ids : db[i] # NoRow /\ db[i].status = "cancelled" =>
          \/ db'[i].status = "cancelled"
          \/ \E w \in Workers : pc[w] = "commit" /\ call[w].id = i /\ call[w].op = "patch"]_vars

\* Every request is answered: no wait on row and slot locks lasts for ever.
EveryRequestEnds == \A w \in Workers : pc[w] # "idle" ~> pc[w] = "idle"

\* The live bookings as the customers see them: one per primary, at its start.
ActiveBookings ==
    {[bk |-> db[i].bk, barber |-> db[i].barber, svc |-> db[i].svc, start |-> db[i].start] :
       i \in {k \in Ids : IsPrimary(k) /\ db[k].status # "cancelled"}}

Calendar == INSTANCE BookingCalendar WITH calendar <- ActiveBookings, Bookings <- Ids

\* Requests take effect atomically on a calendar whose bookings never overlap
\* (Calendar!NoOverlap, a theorem of Appointments_proofs).
ImplementsCalendar == Calendar!Spec
=============================================================================
