SPECIFICATION Spec
CONSTANTS
  fix = fix
  main = main
  test = test
  t1 = t1
  t2 = t2
  None = None
  Proposals <- MCProposals
  Files <- MCFiles
  Changes <- MCChanges
  Terminals <- MCTerminals
  MaxTexts = 1
  MaxAtOnce = 1
SYMMETRY Symmetric
INVARIANTS
  TextKept
  FailureUndone
  ExecutedIsApplied
