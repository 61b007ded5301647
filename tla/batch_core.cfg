SPECIFICATION BatchSpec
CONSTANTS
  p1 = p1
  p2 = p2
  p3 = p3
  label = label
  plain = plain
  blank = blank
  may = may
  june = june
  w1 = w1
  w2 = w2
  Products = {p1, p2, p3}
  Foreign = Foreign
  Absent = Absent
  Feed <- MCFeed
  UrlFiles <- MCUrlFiles
  MaxProducts = 2
  MaxScrolls = 3
  IdleLimit = 2
  Procs = {w1, w2}
  Images = {label, plain, blank}
  NoImage = NoImage
  Unreadable = Unreadable
  Doms <- MCDoms
  Pages <- MCPages
  NoValue = NoValue
  Heuristic <- MCHeuristic
  Prepass <- MCPrepass
  GateOn = TRUE
  Gate <- MCGate
  Text <- MCText
  Reading <- MCReading
  Alike <- MCAlike
  Starts <- MCStarts
INVARIANTS DoubleAgrees StopIsJustified DiscoveryFilesAgree RowsAreBacked CollectionIsWhole ClaimsAreTrue MatchedIsAgreed NoDuplicateRows
PROPERTY ListIsFinal
CHECK_DEADLOCK FALSE
