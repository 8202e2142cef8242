CONSTANTS
  Absent = Absent
  Broken = Broken
  Garbled = Garbled
  Unclear = Unclear
  NoTask = NoTask
  Unreadable = Unreadable
  NoRow = NoRow
  Durations = {1, 2, 3}
  Ports = {0, 1}
  Others = {1, 2}
  DefaultDoc <- MCDefaultDoc
  MaxEdits = 2
  Delays = {0, 2, 3}
  MaxDelay = 2
  DefaultDelay = 2
  MaxForeign = 2
  Fields <- MCFields
  MaxChanges = 2
  MaxElsewhere = 2
  ConfirmWindow = 1
SPECIFICATION Spec
CONSTRAINT OneMoves
INVARIANT SavedIsInForce
INVARIANT RowsDescribeTask
PROPERTY SaveSparesTheRest
CHECK_DEADLOCK FALSE
