SPECIFICATION KilledSpec
CONSTANTS
  A = A
  B = B
  C = C
  inbox = inbox
  done = done
  today = today
  yesterday = yesterday
  NoDate = NoDate
  BadDate = BadDate
  NoChar = NoChar
  NoName = NoName
  NoLink = NoLink
  l1 = l1
  l2 = l2
  Links = {}
  Missing = Missing
  Names = {A, B, C}
  Days = {today}
  Today = today
  Notes = {inbox, done}
  Archive = done
  Inbox = inbox
  Typed = {}
  Clients = {tui}
  tui = tui
  ActionTypes = {"reorder"}
  InitialVault <- Bulk
  EditorContents <- BulkNoEdit
  MaxActions = 1
  MaxEdits = 0
  MaxFaults = 1
PROPERTIES AppliedOnce
