CONSTANTS
  Tasks = {k1}
  Commands = {c1, c2}
  Actions = {"up", "down", "fresh", "seed"}
  Users = {"admin"}
  Seeded = "admin"
  MaxRuns = 3
  MaxFaults = 1
  Workers = {w1}
  Submitters = {x1}
  None = None
SPECIFICATION FairSpec
  
PROPERTIES IdsMoved InstallTakesEffect
CHECK_DEADLOCK FALSE
