CONSTANTS
  None = None
  Services = {"C", "B", "CB"}
  SlotsPerDay = 5
  Ranges <- RangeRows
  AbsenceRanges <- AbsenceRows
  HaircutOnly <- RestrictedStarts
  MaxRows = 2
SPECIFICATION Spec
INVARIANTS SingleSlotAgree PairAgree
