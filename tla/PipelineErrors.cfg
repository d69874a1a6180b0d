\* The claim of command.go about errors, on a | b | c.
SPECIFICATION Spec
CONSTANTS
  N = 3
  MaxSteps = 5
  Chunk = 1
  OwnErr = {"none", "fail"}
INVARIANTS ErrorAborts
