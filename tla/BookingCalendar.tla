-------------------------- MODULE BookingCalendar --------------------------
(***************************************************************************)
(* What the booking API promises, with every request taking effect in one  *)
(* step: a calendar of live bookings, each holding the half-hour slots of  *)
(* its service, no slot of a barber held by two bookings.  Appointments    *)
(* implements it when ActiveBookings is substituted for calendar.          *)
(***************************************************************************)
EXTENDS Integers

CONSTANTS
    Bookings,   \* identities a booking may have
    Barbers,
    Services,   \* service codes, a subset of {"C", "B", "CB", "OTHER"}
    Starts      \* half-hour slot numbers, 0 = first slot of the first day

VARIABLE calendar

Booking == [bk : Bookings, barber : Barbers, svc : Services, start : Starts]

\* The slots a booking holds: HAIRCUT_AND_BEARD takes two, the others one.
Holds(b) ==
    {<<b.barber, b.start>>}
      \cup (IF b.svc = "CB" THEN {<<b.barber, b.start + 1>>} ELSE {})

\* b fits beside the bookings of the set others.
Fits(b, others) == \A o \in others : Holds(b) \cap Holds(o) = {}

Init == calendar = {}

Book(b) ==
    /\ \A o \in calendar : o.bk # b.bk
    /\ Fits(b, calendar)
    /\ calendar' = calendar \cup {b}

Cancel(b) == calendar' = calendar \ {b}

Move(b, start) ==
    LET moved == [b EXCEPT !.start = start]
        others == calendar \ {b}
    IN /\ Fits(moved, others)
       /\ calendar' = others \cup {moved}

Next ==
    \/ \E b \in Booking : Book(b)
    \/ \E b \in calendar : Cancel(b)
    \/ \E b \in calendar, start \in Starts : Move(b, start)

Spec == Init /\ [][Next]_calendar

(***************************************************************************)
(* A barber is never due to serve two live bookings in the same half hour, *)
(* the second halves of HAIRCUT_AND_BEARD services included: the "hard     *)
(* guard against double-booking" of the appointments table read on the     *)
(* time the customers were promised.                                       *)
(***************************************************************************)
NoOverlap ==
    \A a, b \in calendar : a # b => Holds(a) \cap Holds(b) = {}
=============================================================================
