SPECIFICATION Spec
VIEW View
CONSTANTS
  n0 = n0 n1 = n1 n2 = n2 n3 = n3 n4 = n4 n5 = n5 n6 = n6
  Name = {1, 2, 3, 4, 5}
  Path <- MCPath
  BadPath = BadPath
  Node = {n0, n1, n2, n3, n4, n5}
  Root = n0
  Byte = {0, 1}
  Zero = 0
  Perm = {rwx, ro}
  RootPerm = rwx
  Stamp = {now, old}
  Now = now
  Limit = 1
  MaxEntries = 7
  MaxInt = 3
  Flag <- AllFlag
  Payload <- AllPayload
  ReadLen = {1}
  Offset = {0}
  Count = {1}
  Proc = {p1}
  MountPath <- MCMountPath
  ReadOnly = TRUE
  NullPath <- MCNullPath
  Cwd <- MCCwd
  SelfDir = 0
  UpDir = 9
  Omit = omit
  NullTime = old
  Arg <- AllArg
  Op = {"Mkdir", "Unlink", "Rmdir", "Rename", "OpenFile", "Close",
        "Chmod", "CommandRemove", "Utimens", "FileUtimens", "Read", "Pread",
        "Seek", "Write", "Pwrite", "Truncate", "Readdir"}
  RootTree <- MCRootTree
  DataTree <- MCDataTree
  DataDirs <- MCDataDirs
  DataBytes <- MCDataBytes
PROPERTIES
  ReadOnlyKept
  TimesFollowFile
