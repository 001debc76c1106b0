CONSTANTS
  Files <- MCFiles
  Folders = {"new"}
  Callers = {chat, voice}
  Requests <- MCRequests
  Similar <- MCSimilar
  MaxRequests = 2
  MaxContent = 2
  chat = chat
  voice = voice
SPECIFICATION FileSpec
INVARIANTS SaysWhatItDid
PROPERTIES NothingLostUnasked
CHECK_DEADLOCK FALSE
SYMMETRY Symmetric
