SPECIFICATION Spec
CONSTANTS
  entry = entry
  exit = exit
  NoIntent = NoIntent
  Intent <- MCIntent
  Side <- MCSide
  Approved <- MCApproved
  Cap = 2
  WithStop = {entry, exit}
  ExitOnly = {exit}
  Controls = {"KILL","RESUME"}
  Throttled = FALSE
  Brackets = TRUE
  FillAtPlacement = FALSE
  Partial = TRUE
  Faulty = TRUE
  SquaresOff = TRUE
  MaxChase = 0
  MaxFills = 2
  MaxCommands = 2
CHECK_DEADLOCK FALSE
INVARIANTS TypeOK NoGhosts
PROPERTY HaltStopsChildren
