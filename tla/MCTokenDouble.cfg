SPECIFICATION TokenSpec
CONSTANTS
  a1 = a1
  t1 = t1
  t2 = t2
  server = server
  cli = cli
  voice = voice
  w1 = w1
  None = None
  Ids <- MCIds1
  Risky <- MCIds1
  Origins <- MCOrigins
  Windows <- MCWindows
  Threads <- MCThreads2
  Processes <- MCBoth
  ProcessOf <- MCTwoProcesses
  TTL = 2
  MaxTime = 1
INVARIANT
  PerformedOnce
