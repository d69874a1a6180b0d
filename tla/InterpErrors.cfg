\* The claim of command.go about errors, on scripts of two steps.
SPECIFICATION SpecE
CONSTANTS
  Var = {"PWD"}
  Value = {d1}
  Dir = {d1}
  Home = d1
  Func = {}
  MaxSteps = 2
  MaxDepth = 1
  MaxFuncs = 0
  MaxNest = 2
  MaxParts = 1
  MaxFiles = 0
  MaxItems = 0
  MaxRuns = 1
INVARIANTS HandlerErrorAborts
