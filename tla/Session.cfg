\* Two callers, scripts with two concurrent commands, files around the limit.
SPECIFICATION FairSpec
CONSTANTS
  Client = {c1, c2}
  Stage = {s1, s2}
  MaxOutput = 1
  WriteLen = {1, 2}
  FileLimit = {1, 2}
  FileSize = {1, 2}
  MaxInt = 2
INVARIANTS GateExact RuntimeOutlivesCommands CloseIsFinal OutputExact ReadFileWhole CompiledOnce NoSuccessWhenCut
PROPERTIES CallsReturn WaitsEnd
