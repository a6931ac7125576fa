SPECIFICATION FairSpec
CONSTANTS
  entry = entry
  exit = exit
  NoIntent = NoIntent
  Intent <- OnlyEntry
  Side <- EntrySide
  Approved <- EntryApproved
  Cap = 1
  WithStop = {entry}
  ExitOnly = {}
  Controls = {"FLATTEN"}
  Throttled = TRUE
  Brackets = FALSE
  FillAtPlacement = TRUE
  Partial = TRUE
  Faulty = FALSE
  SquaresOff = FALSE
  MaxChase = 1
  MaxFills = 3
  MaxCommands = 1
CHECK_DEADLOCK FALSE
INVARIANTS OneChild StallsExplained
PROPERTY PlansRunOut
