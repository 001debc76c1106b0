SPECIFICATION Spec
CONSTANTS
  a1 = a1
  server = server
  cli = cli
  None = None
  Agents <- MCAgents
  Scheduled <- MCAgents
  Schedulers <- MCSchedulers
  Commands <- MCCommands
  MaxStalls = 1
  MaxCrashes = 1
INVARIANTS
  NoZombie
PROPERTY
  StallReleased
