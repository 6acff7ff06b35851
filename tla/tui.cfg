SPECIFICATION FairSpec
CONSTANTS
  A = A
  B = B
  C = C
  inbox = inbox
  done = done
  home = home
  work = work
  untagged = untagged
  high = high
  unranked = unranked
  folder = folder
  root = root
  tasksmd = tasksmd
  today = today
  yesterday = yesterday
  someB = someB
  someDone = someDone
  NoDate = NoDate
  BadDate = BadDate
  NoChar = NoChar
  NoName = NoName
  NoLink = NoLink
  NoQuery = NoQuery
  Links = {}
  Names = {A, B, C}
  Days = {today, yesterday}
  Today = today
  Past = {yesterday}
  Notes = {inbox, done}
  Archive = done
  Inbox = inbox
  Typed = {C}
  Keys <- TheKeys
  Alphabetical <- InThisOrder
  ByImportance <- HighFirst
  Untagged = untagged
  FileOf <- TheFiles
  FolderOf <- TheFolders
  TagsOf <- TheTags
  PriorityOf <- ThePriorities
  DueOf <- DueDates
  Queries = {NoQuery, someB}
  Matching <- FoundByText
  FileQueries = {NoQuery, someDone}
  FilesMatching <- FoundByFile
  InitialRows <- FirstRows
  InitialNext = 6
  Scans <- Later
  RecentLimit = 2
  TrackCap = 2
  MaxSteps = 3
INVARIANTS TuiTypeOK ScreenIsComplete AsksWhatTheCoreAllows RefusalsSurface
PROPERTIES CursorStays NoteKeepsItsTask CancelRestores OutcomesLearned
