----------------------------- MODULE BarberDay -----------------------------
(***************************************************************************)
(* One day of one barber: the weekly ranges, extra hours and absences the  *)
(* admins edit, and the two functions of packages/domain/scheduling that   *)
(* read them.  compute_available_slots says which starts to offer,         *)
(* plan_booking which request to accept; they scan the same rows in        *)
(* different ways.                                                         *)
(***************************************************************************)
EXTENDS Integers, FiniteSets

CONSTANTS
    Services,       \* service codes offered, among ServiceCode
    SlotsPerDay,    \* half hours of a day (48 in the code)
    Ranges,         \* <<start, end>> rows admins write: the API checks no order
    AbsenceRanges,  \* <<start, end>> rows of absences, either end possibly None
    HaircutOnly,    \* starts of the day restricted to service "C"
    MaxRows,        \* bound on the rows of each table
    None            \* NULL in start_time or end_time of an absence

ServiceCode == {"C", "B", "CB", "OTHER"}

\* The times of a row are times of the day: none can be 24:00.
Times == 0 .. SlotsPerDay - 1

ASSUME DayAssumption ==
    /\ SlotsPerDay \in Nat \ {0}
    /\ MaxRows \in Nat
    /\ Services \subseteq ServiceCode
    /\ Ranges \subseteq Times \X Times
    /\ AbsenceRanges \subseteq (Times \cup {None}) \X (Times \cup {None})
    /\ HaircutOnly \subseteq Times
    /\ None \notin Int

VARIABLES
    weekly,     \* barber_schedules rows of this weekday
    extras,     \* barber_extra_hours rows of this date
    absences,   \* barber_absences rows of this date
    closed,     \* the date is in settings.config["booking"]["closed_dates"]
    taken,      \* starts of the active appointments
    now         \* the clock: -1 before this day, a slot of it, SlotsPerDay after

vars == <<weekly, extras, absences, closed, taken, now>>

Init ==
    /\ weekly = {} /\ extras = {} /\ absences = {}
    /\ closed = FALSE
    /\ taken = {}
    /\ now = -1

-----------------------------------------------------------------------------
(* What both functions read *)

OpenRanges == weekly \cup extras

\* TimeRange and AbsenceEntry raise on an inverted range and on an absence with one
\* end: nothing is then offered and nothing is accepted.
Malformed ==
    \/ \E r \in OpenRanges : r[2] <= r[1]
    \/ \E a \in absences : (a[1] = None) # (a[2] = None)

Contains(r, t) == r[1] <= t /\ t < r[2]
IsWholeDay(a) == a[1] = None /\ a[2] = None
Absent(t) == \E a \in absences : IsWholeDay(a) \/ Contains(a, t)

Width(svc) == IF svc = "CB" THEN 2 ELSE 1
Slots(svc, start) == start .. start + Width(svc) - 1

\* enforce_haircut_only looks at the start only.
Restricted(svc, start) == svc # "C" /\ start \in HaircutOnly

-----------------------------------------------------------------------------
(* The two functions *)

IsToday == now \in Times

\* Changed form: a start in progress is accepted.
PlanBookingLate(svc, start) ==
    /\ IsToday => start >= now
    /\ ~Restricted(svc, start)
    /\ ~Malformed
    /\ \A t \in Slots(svc, start) :
          /\ t \in Times
          /\ \E r \in OpenRanges : Contains(r, t)
          /\ ~Absent(t)
          /\ t \notin taken

\* plan_booking: each slot by itself is in some open range, not absent and free.
PlanBooking(svc, start) ==
    /\ IsToday => start > now
    /\ ~Restricted(svc, start)
    /\ ~Malformed
    /\ \A t \in Slots(svc, start) :
          /\ t \in Times                          \* does not cross midnight
          /\ \E r \in OpenRanges : Contains(r, t)
          /\ ~Absent(t)
          /\ t \notin taken

\* The next slot; in the last slot of the day there is none, and no cutoff at all.
EarliestToday == IF IsToday /\ now + 1 \in Times THEN now + 1 ELSE 0

\* Changed form: the second half need not fit in the range.
AvailableSlotsHalf(svc) ==
    {start \in Times :
        /\ ~Malformed
        /\ start >= EarliestToday
        /\ ~Absent(start)
        /\ ~Restricted(svc, start)
        /\ \E r \in OpenRanges : Contains(r, start)}

\* compute_available_slots as the route calls it, without existing appointments: the
\* whole footprint ends inside one range, and the start is not absent.
AvailableSlots(svc) ==
    {start \in Times :
        /\ ~Malformed
        /\ start >= EarliestToday
        /\ ~Absent(start)
        /\ ~Restricted(svc, start)
        /\ start + Width(svc) \in Times           \* _add_slots_to_time
        /\ \E r \in OpenRanges : r[1] <= start /\ start + Width(svc) <= r[2]}

-----------------------------------------------------------------------------
(* The admins' requests, one transaction each.  Moving a row to another day is a    *)
(* delete here and a create there.                                                  *)

Keep(rows) == Cardinality(rows) <= MaxRows

CreateSchedule(r) ==
    /\ \A q \in weekly : q[1] # r[1]              \* uq_barber_schedule_slot
    /\ weekly' = weekly \cup {r} /\ Keep(weekly')
    /\ UNCHANGED <<extras, absences, closed, taken, now>>

UpdateSchedule(old, r) ==
    /\ \A q \in weekly \ {old} : q[1] # r[1]
    /\ weekly' = (weekly \ {old}) \cup {r}
    /\ UNCHANGED <<extras, absences, closed, taken, now>>

DeleteSchedule(r) ==
    /\ weekly' = weekly \ {r}
    /\ UNCHANGED <<extras, absences, closed, taken, now>>

CreateExtraHour(r) ==
    /\ extras' = extras \cup {r} /\ Keep(extras')
    /\ UNCHANGED <<weekly, absences, closed, taken, now>>

UpdateExtraHour(old, r) ==
    /\ extras' = (extras \ {old}) \cup {r}
    /\ UNCHANGED <<weekly, absences, closed, taken, now>>

DeleteExtraHour(r) ==
    /\ extras' = extras \ {r}
    /\ UNCHANGED <<weekly, absences, closed, taken, now>>

CreateAbsence(a) ==
    /\ absences' = absences \cup {a} /\ Keep(absences')
    /\ UNCHANGED <<weekly, extras, closed, taken, now>>

UpdateAbsence(old, a) ==
    /\ absences' = (absences \ {old}) \cup {a}
    /\ UNCHANGED <<weekly, extras, closed, taken, now>>

DeleteAbsence(a) ==
    /\ absences' = absences \ {a}
    /\ UNCHANGED <<weekly, extras, closed, taken, now>>

\* A settings PUT: what it changes in place may not reach the stored document.
SetClosedDate ==
    /\ closed' \in BOOLEAN
    /\ UNCHANGED <<weekly, extras, absences, taken, now>>

\* A booking, in one step: module Appointments has its statements and the cancels.
Book(svc, start) ==
    /\ ~closed
    /\ PlanBooking(svc, start)
    /\ taken' = taken \cup Slots(svc, start)
    /\ UNCHANGED <<weekly, extras, absences, closed, now>>

Tick ==
    /\ now < SlotsPerDay
    /\ now' = now + 1
    /\ UNCHANGED <<weekly, extras, absences, closed, taken>>

Next ==
    \/ \E r \in Ranges : CreateSchedule(r) \/ CreateExtraHour(r)
    \/ \E old \in weekly : DeleteSchedule(old) \/ \E r \in Ranges : UpdateSchedule(old, r)
    \/ \E old \in extras : DeleteExtraHour(old) \/ \E r \in Ranges : UpdateExtraHour(old, r)
    \/ \E a \in AbsenceRanges : CreateAbsence(a)
    \/ \E old \in absences :
          DeleteAbsence(old) \/ \E a \in AbsenceRanges : UpdateAbsence(old, a)
    \/ SetClosedDate
    \/ \E svc \in Services, start \in Times : Book(svc, start)
    \/ Tick

Spec == Init /\ [][Next]_vars

-----------------------------------------------------------------------------
(* Properties *)

\* Every table holds rows of this day.
TypeOK ==
    /\ weekly \subseteq Ranges /\ extras \subseteq Ranges
    /\ absences \subseteq AbsenceRanges
    /\ closed \in BOOLEAN
    /\ taken \subseteq Times
    /\ now \in -1 .. SlotsPerDay

LastSlot == SlotsPerDay - 1

\* A one-slot service is offered at a start exactly when plan_booking would accept it
\* there on an empty calendar, whatever rows the admins have written, except in the
\* last half hour of the day, when past starts are offered.
SingleSlotAgree ==
    \A svc \in Services \ {"CB"}, start \in Times :
        now # LastSlot =>
            (PlanBooking(svc, start) <=> start \in AvailableSlots(svc) /\ start \notin taken)

\* For the two slots of HAIRCUT_AND_BEARD they agree where the barber is present for
\* the second half and one range holds both halves.
HeldByOneRange(start) == \E r \in OpenRanges : r[1] <= start /\ start + 2 <= r[2]
PairAgree ==
    \A start \in Times :
        now # LastSlot =>
            /\ /\ start \in AvailableSlots("CB")
               /\ ~Absent(start + 1)
               /\ {start, start + 1} \cap taken = {}
               => PlanBooking("CB", start)
            /\ PlanBooking("CB", start) /\ HeldByOneRange(start)
               => start \in AvailableSlots("CB")
=============================================================================
