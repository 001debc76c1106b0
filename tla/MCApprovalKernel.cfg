SPECIFICATION KernelSpec
CONSTANTS
  a1 = a1
  a2 = a2
  t1 = t1
  t2 = t2
  server = server
  voice = voice
  w1 = w1
  http = http
  None = None
  Ids <- MCIds
  Risky <- MCIds
  Origins <- MCOrigins
  WitnessOrigins <- MCVoice
  Windows <- MCWindow
  Threads <- MCThreads
  Processes <- MCProcesses
  ProcessOf <- MCProcessOf
  OriginOf <- MCOriginOf
  MaxReasks = 1
  TTL = 1
  MaxTime = 1
  MaxTurn = 1
SYMMETRY Symmetric
INVARIANTS
  DoorsApart
  PerformedOncePerProcess
  RejectedNeverPerformed
  PerformedOnlyWithOwnYes
PROPERTIES
  DeferredIsFinal
