CONSTANTS
  Nodes <- MCNodes
  Graphs <- MCGraphs
  Kind <- MCKind
  HasSystem = TRUE
  Iterations <- MCIterations
  MaxParallel = 2
  BusRaises = TRUE
SPECIFICATION Spec
INVARIANTS GraphJudged ResultHonest GivenIsFixed
PROPERTIES ImplementsOrder RunEnds
