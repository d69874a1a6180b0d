\* a | b | c under fairness.  Its five statements take five steps, so that any
\* further one exhausts the budget for the others.
SPECIFICATION FairSpec
CONSTANTS
  N = 3
  MaxSteps = 5
  Chunk = 2
  OwnErr = {"none", "exit", "fail"}
INVARIANTS CleanEOF NoOrphans FailuresSurface TornIsReported
PROPERTIES CancelReturns NoneBlockedByTheDead
