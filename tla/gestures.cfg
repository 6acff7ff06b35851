SPECIFICATION FairSpec
CONSTANTS
  A = A
  B = B
  C = C
  inbox = inbox
  done = done
  today = today
  yesterday = yesterday
  NoDate = NoDate
  BadDate = BadDate
  NoChar = NoChar
  NoName = NoName
  NoLink = NoLink
  l1 = l1
  l2 = l2
  Links = {}
  Missing = Missing
  Names = {A, B, C}
  Days = {today}
  Today = today
  Notes = {inbox}
  Archive = inbox
  Inbox = inbox
  Typed = {}
  Clients = {tui}
  tui = tui
  ActionTypes = {"checkbox", "set_scheduled", "toggle_bullet"}
  InitialVault <- OddLines
  EditorContents <- OddLinesEdited
  MaxActions = 1
  MaxEdits = 1
  MaxFaults = 1
PROPERTIES OneLineRewrite SameLineOnce EveryActionResolved EventsHandled ShutdownEnds
