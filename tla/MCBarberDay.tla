---------------------------- MODULE MCBarberDay ----------------------------
(* Instances of BarberDay for TLC. *)
EXTENDS BarberDay

\* Adjacent, overlapping and inverted rows of a day of five half hours.
RangeRows == {<<0, 2>>, <<1, 4>>, <<2, 3>>, <<3, 1>>}
AbsenceRows == {<<None, None>>, <<3, 4>>, <<1, None>>}
RestrictedStarts == {1}
=============================================================================
