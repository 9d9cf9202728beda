--------------------------- MODULE MCAppointments ---------------------------
(***************************************************************************)
(* Small instances of Appointments.                                        *)
(***************************************************************************)
EXTENDS Appointments, TLC

Sym == Permutations(Ids)
SymAll == Permutations(Ids) \cup Permutations(Workers)

\* Every slot of the only barber's days is open.
AllOpen == Barbers \X Starts
\* The last slot of each day is closed.
LastClosed == {bs \in AllOpen : TimeOfDay(bs[2]) # SlotsPerDay - 1}
\* The first slot of each day takes haircuts only.
FirstRestricted == {bs \in AllOpen : TimeOfDay(bs[2]) = 0}
NoneRestricted == {}

\* Only the days after today are open.
FutureOpen == {bs \in AllOpen : Date(bs[2]) > 0}

\* The status route checks no transition: a PATCH of any row to any status.  "confirmed"
\* and "no_show" are left out, no statement treats them unlike "pending".
KindsOfStatus == {"pending", "cancelled", "completed"}
AllPatches == KindsOfStatus \X KindsOfStatus
ConfirmOnly == {<<"pending", "confirmed">>}
=============================================================================
