SPECIFICATION Spec
CONSTANTS
  A = A
  B = B
  C = C
  inbox = inbox
  done = done
  today = today
  yesterday = yesterday
  NoDate = NoDate
  BadDate = BadDate
  NoChar = NoChar
  NoName = NoName
  NoLink = NoLink
  l1 = l1
  l2 = l2
  Links = {l1, l2}
  Missing = Missing
  Names = {A, B, C}
  Days = {today, yesterday}
  Today = today
  Notes = {inbox, done}
  Archive = done
  Inbox = inbox
  Typed = {C}
  Clients = {tui}
  tui = tui
  ActionTypes = {"quick_add", "quick_add_undo", "add_note"}
  InitialVault <- Captured
  EditorContents <- CapturedEdited
  MaxActions = 2
  MaxEdits = 1
  MaxFaults = 1
INVARIANTS IdKeepsText IndexIsSnapshot StaleIsCovered QuickAddRepeats TempsAccountedFor
PROPERTIES InOrderOnce QuickAddOnlyAdds NoteIsFound UndoTakesBack

