-------------------------- MODULE BarberDay_proofs --------------------------
(***************************************************************************)
(* Offers and acceptances agree on every grid, for every set of rows the   *)
(* admins may write.                                                       *)
(***************************************************************************)
EXTENDS BarberDay, TLAPS

\* The admins' requests and the bookings keep the rows of the day rows of the day.
LEMMA TypeStep == TypeOK /\ [Next]_vars => TypeOK'
<1> SUFFICES ASSUME TypeOK, [Next]_vars PROVE TypeOK'
  OBVIOUS
<1>1. ASSUME NEW r \in Ranges, CreateSchedule(r) \/ CreateExtraHour(r) PROVE TypeOK'
  BY <1>1 DEF TypeOK, CreateSchedule, CreateExtraHour
<1>2. ASSUME NEW old \in weekly, NEW r \in Ranges, UpdateSchedule(old, r)
      PROVE  TypeOK'
  BY <1>2 DEF TypeOK, UpdateSchedule
<1>3. ASSUME NEW old \in extras, NEW r \in Ranges, UpdateExtraHour(old, r)
      PROVE  TypeOK'
  BY <1>3 DEF TypeOK, UpdateExtraHour
<1>4. ASSUME NEW a \in AbsenceRanges, CreateAbsence(a) PROVE TypeOK'
  BY <1>4 DEF TypeOK, CreateAbsence
<1>5. ASSUME NEW old \in absences, NEW a \in AbsenceRanges,
             UpdateAbsence(old, a)
      PROVE  TypeOK'
  BY <1>5 DEF TypeOK, UpdateAbsence
<1>6. ASSUME NEW svc \in Services, NEW start \in Times, Book(svc, start) PROVE TypeOK'
  <2>1. Slots(svc, start) \subseteq Times
    BY <1>6 DEF Book, PlanBooking
  <2> QED
    BY <1>6, <2>1 DEF TypeOK, Book
<1>7. CASE SetClosedDate \/ UNCHANGED vars
  BY <1>7 DEF TypeOK, SetClosedDate, vars
<1>8. ASSUME NEW old \in weekly, DeleteSchedule(old) PROVE TypeOK'
  BY <1>8 DEF TypeOK, DeleteSchedule
<1>9. ASSUME NEW old \in extras, DeleteExtraHour(old) PROVE TypeOK'
  BY <1>9 DEF TypeOK, DeleteExtraHour
<1>10. ASSUME NEW old \in absences, DeleteAbsence(old) PROVE TypeOK'
  BY <1>10 DEF TypeOK, DeleteAbsence
<1>11. CASE Tick
  <2>1. now' \in -1 .. SlotsPerDay
    BY <1>11, DayAssumption DEF TypeOK, Tick
  <2> QED
    BY <1>11, <2>1 DEF TypeOK, Tick
<1> QED
  BY <1>1, <1>2, <1>3, <1>4, <1>5, <1>6, <1>7, <1>8, <1>9, <1>10, <1>11 DEF Next

LEMMA TypeInvariant == Spec => []TypeOK
<1>1. Init => TypeOK
  <2>1. -1 \in -1 .. SlotsPerDay
    BY DayAssumption
  <2> QED
    BY <2>1 DEF Init, TypeOK
<1> QED
  BY <1>1, TypeStep, PTL DEF Spec

-----------------------------------------------------------------------------
(* The cutoffs *)

\* Before the last half hour of the day, "later than now" and "from the next slot on"
\* are the same starts.
LEMMA SameCutoff ==
  ASSUME TypeOK, now # LastSlot, NEW start \in Times
  PROVE  start >= EarliestToday <=> (IsToday => start > now)
  BY DayAssumption DEF TypeOK, LastSlot, EarliestToday, IsToday, Times

\* An open range is a pair of times of the day.
LEMMA RangeType ==
  ASSUME TypeOK, NEW r \in OpenRanges
  PROVE  r[1] \in Times /\ r[2] \in Times
  BY DayAssumption DEF TypeOK, OpenRanges

-----------------------------------------------------------------------------
(* The agreement *)

\* The offers of a service are the starts where each of its slots is open, as
\* plan_booking asks, and one range holds them, which it does not ask.
LEMMA SingleAgree ==
  ASSUME TypeOK, now # LastSlot, NEW svc \in Services \ {"CB"}, NEW start \in Times
  PROVE  PlanBooking(svc, start) <=> start \in AvailableSlots(svc) /\ start \notin taken
<1>1. Width(svc) = 1 /\ \A t : t \in Slots(svc, start) <=> t = start
  BY DayAssumption DEF Width, Slots, Times
<1>2. \A r \in OpenRanges : Contains(r, start)
        <=> r[1] <= start /\ start + Width(svc) <= r[2]
  BY <1>1, RangeType, DayAssumption DEF Contains, Times
<1>3. (\E r \in OpenRanges : Contains(r, start)) => start + Width(svc) \in Times
  BY <1>1, <1>2, RangeType, DayAssumption DEF Times
<1>4. PlanBooking(svc, start) <=>
        /\ start >= EarliestToday
        /\ ~Restricted(svc, start)
        /\ ~Malformed
        /\ \E r \in OpenRanges : Contains(r, start)
        /\ ~Absent(start)
        /\ start \notin taken
  BY <1>1, SameCutoff DEF PlanBooking
<1> QED
  BY <1>2, <1>3, <1>4 DEF AvailableSlots

\* For the two slots, they differ only where the second half is absent or the halves
\* lie in different ranges.
LEMMA PairsAgree ==
  ASSUME TypeOK, now # LastSlot, NEW start \in Times
  PROVE  /\ /\ start \in AvailableSlots("CB")
            /\ ~Absent(start + 1)
            /\ {start, start + 1} \cap taken = {}
            => PlanBooking("CB", start)
         /\ PlanBooking("CB", start) /\ HeldByOneRange(start)
            => start \in AvailableSlots("CB")
<1>1. Width("CB") = 2 /\ \A t : t \in Slots("CB", start) <=> t \in {start, start + 1}
  BY DayAssumption DEF Width, Slots, Times
<1>2. PlanBooking("CB", start) <=>
        /\ start >= EarliestToday
        /\ ~Restricted("CB", start)
        /\ ~Malformed
        /\ \A t \in {start, start + 1} :
              /\ t \in Times
              /\ \E r \in OpenRanges : Contains(r, t)
              /\ ~Absent(t)
              /\ t \notin taken
  BY <1>1, SameCutoff DEF PlanBooking
<1>3. \A r \in OpenRanges : r[1] <= start /\ start + 2 <= r[2] =>
        /\ start + 1 \in Times /\ start + 2 \in Times
        /\ Contains(r, start) /\ Contains(r, start + 1)
  BY RangeType, DayAssumption DEF Contains, Times
<1>4. start \in AvailableSlots("CB") <=>
        /\ ~Malformed
        /\ start >= EarliestToday
        /\ ~Absent(start)
        /\ ~Restricted("CB", start)
        /\ HeldByOneRange(start)
  BY <1>1, <1>3 DEF AvailableSlots, HeldByOneRange
<1> QED
  BY <1>2, <1>3, <1>4 DEF HeldByOneRange

\* On any grid and with any rows, a one-slot service is offered exactly where
\* plan_booking accepts it, but for the last half hour of the day.
THEOREM OffersAgree == Spec => []SingleSlotAgree
<1>1. TypeOK => SingleSlotAgree
  BY SingleAgree DEF SingleSlotAgree
<1> QED
  BY <1>1, TypeInvariant, PTL

\* HAIRCUT_AND_BEARD: where the barber is not absent in the second half, an offered free
\* pair is accepted, and an accepted pair that one range holds was offered.
THEOREM PairOffersAgree == Spec => []PairAgree
<1>1. TypeOK => PairAgree
  BY PairsAgree DEF PairAgree
<1> QED
  BY <1>1, TypeInvariant, PTL
=============================================================================
