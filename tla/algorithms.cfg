SPECIFICATION Spec
CONSTANTS
  Keyboard = {" ", "x", "W", "^"}
  WidthOf <- Widths
  Width = 3
  MaxRows = 2
  MaxLength = 5
  Samples <- ShortTexts
  Clocks <- FirstTimes
  Span = 80
  Offsets <- TheOffsets
  RowWidths = {3, 6}
  Prefix = 3
INVARIANTS TextsTypeOK CursorOnScreen CapturesAgree TagsFound LinksFound RowKeepsText HitsAreLabels DaysFollow
PROPERTIES VerticalMoves
CHECK_DEADLOCK FALSE
