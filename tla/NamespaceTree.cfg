SPECIFICATION Spec
VIEW View
SYMMETRY Symmetry
CONSTANTS
  n0 = n0 n1 = n1 n2 = n2 n3 = n3 n4 = n4 n5 = n5 n6 = n6
  Name = {1, 2, 3, 4, 5}
  Path <- MCPath
  BadPath = BadPath
  Node = {n0, n1, n2, n3, n4, n5, n6}
  Root = n0
  Byte = {0, 1}
  Zero = 0
  Perm = {rwx}
  RootPerm = rwx
  Stamp = {now}
  Now = now
  Limit = 2
  MaxEntries = 7
  MaxInt = 3
  Flag <- TreeFlag
  Payload = {}
  ReadLen = {}
  Offset = {}
  Count = {}
  Proc = {p1, p2}
  MountPath <- MCMountPath
  ReadOnly = FALSE
  NullPath <- MCNullPath
  Cwd <- MCCwd
  SelfDir = 0
  UpDir = 9
  Omit = omit
  NullTime = now
  Arg <- TreeArg
  Op = {"Mkdir", "Unlink", "Rmdir", "Rename", "OpenFile", "Close", "CommandRemove"}
  RootTree <- MCRootTree
  DataTree <- MCDataTree
  DataDirs <- MCDataDirs
  DataBytes <- MCDataBytes
INVARIANTS
  MountPointsStand
  NoFileLeaked
PROPERTIES

