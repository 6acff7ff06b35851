SPECIFICATION Spec
CONSTANTS
  Keyboard = {" ", "x", "W", "^"}
  WidthOf <- Widths
  Width = 3
  MaxRows = 2
  MaxLength = 5
  Samples <- OpenTasks
  Clocks <- FirstTimes
  Span = 80
  Offsets <- TheOffsets
  RowWidths = {3, 6}
  Prefix = 3
INVARIANT TogglesBack
CHECK_DEADLOCK FALSE
