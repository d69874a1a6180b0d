\* Scripts of two steps with up to two expansions and assignments each, over
\* two variables.
SPECIFICATION FairSpec
CONSTANTS
  Var = {"PWD", "OLDPWD"}
  Value = {d1}
  Dir = {d1}
  Home = d1
  Func = {f}
  MaxSteps = 2
  MaxDepth = 1
  MaxFuncs = 1
  MaxNest = 2
  MaxParts = 2
  MaxFiles = 0
  MaxItems = 1
  MaxRuns = 1
PROPERTIES PrefixRestored StatusTold ScriptEnds
