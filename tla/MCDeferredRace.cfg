SPECIFICATION DeferredSpec
CONSTANTS
  a1 = a1
  a2 = a2
  t1 = t1
  t2 = t2
  server = server
  cli = cli
  voice = voice
  http = http
  w1 = w1
  w2 = w2
  None = None
  Ids <- MCIds2
  Origins <- MCOrigins
  WitnessOrigins <- MCVoice
  Windows <- MCWindows
  Threads <- MCThreads2
  Processes <- MCProcesses
  ProcessOf <- MCProcessOf
  OriginOf <- MCTwoVoiceLoops
  MaxReasks = 1
  TTL = 1
  MaxTime = 1
  MaxTurn = 2
INVARIANTS
  SentAsCompared
PROPERTIES
  ConsentKept
SYMMETRY Symmetric
