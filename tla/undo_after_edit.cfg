SPECIFICATION Spec
CONSTANTS
  A = A
  B = B
  C = C
  inbox = inbox
  done = done
  today = today
  yesterday = yesterday
  NoDate = NoDate
  BadDate = BadDate
  NoChar = NoChar
  NoName = NoName
  NoLink = NoLink
  l1 = l1
  l2 = l2
  Links = {}
  Missing = Missing
  Names = {A, B, C}
  Days = {today}
  Today = today
  Notes = {inbox}
  Archive = inbox
  Inbox = inbox
  Typed = {C}
  Clients = {tui}
  tui = tui
  ActionTypes = {"quick_add", "quick_add_undo"}
  InitialVault <- OneTask
  EditorContents <- OneTaskRewritten
  MaxActions = 2
  MaxEdits = 1
  MaxFaults = 0
PROPERTIES UndoRefusesEdited
