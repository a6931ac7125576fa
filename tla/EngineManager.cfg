SPECIFICATION FairSpec
CONSTANTS
  Users = {admin, other}
  Admins = {admin}
  Engine = {e1, e2}
  Starts = {s1, s2}
  Kills = {k1}
  NoEngine = NoEngine
  Restarts = TRUE
INVARIANTS KillReaches PaperOwned BookIsCurrent 
PROPERTIES   KillLands
