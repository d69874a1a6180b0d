SPECIFICATION Spec
VIEW View
CONSTANTS
  Name = {1, 2}
  MaxDepth = 3
  Path <- MCPath
  BadPath = BadPath
  Node = {n0, n1, n2, n3, n4}
  Root = n0
  Handle = {h1}
  Byte = {0, 1}
  Zero = 0
  Perm = {rwx}
  RootPerm = rwx
  Stamp = {now}
  Now = now
  Limit = 1
  MaxEntries = 4
  MaxInt = 1
  Flag <- TreeFlag
  Payload <- ListPayload
  ReadLen = {1}
  Offset <- TreeOffset
  Count = {0, 1, 2}
INVARIANTS
  TreeShape
  NamesExact
  PagingExact
PROPERTIES
  NoSubtreeLost
  AtomicMove
  ListsOwnNode
