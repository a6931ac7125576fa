SPECIFICATION Spec
CONSTANTS
  entry = entry
  exit = exit
  NoIntent = NoIntent
  Intent <- MCIntent
  Side <- MCSide
  Approved <- MCApproved
  Cap = 2
  WithStop = {entry, exit}
  ExitOnly = {exit}
  Controls = {"KILL"}
  Throttled = TRUE
  Brackets = TRUE
  FillAtPlacement = TRUE
  Partial = FALSE
  Faulty = FALSE
  SquaresOff = FALSE
  MaxChase = 0
  MaxFills = 3
  MaxCommands = 1
CHECK_DEADLOCK FALSE
INVARIANTS WithinApproval CancelReachesAll 
PROPERTY ImplementsGate
