\* Scripts of three steps, nested as deep as they allow.
SPECIFICATION Spec
CONSTANTS
  Var = {"PWD"}
  Value = {d1}
  Dir = {d1}
  Home = d1
  Func = {f}
  MaxSteps = 3
  MaxDepth = 1
  MaxFuncs = 1
  MaxNest = 3
  MaxParts = 1
  MaxFiles = 1
  MaxItems = 1
  MaxRuns = 1
INVARIANTS TypeOK CallsBalanced FilesClosed FailureSurfaces ExitTold
