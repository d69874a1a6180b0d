SPECIFICATION Spec
VIEW NamelessView
SYMMETRY Symmetry
CONSTANTS
  Name = {1, 2}
  MaxDepth = 1
  Path <- MCPath
  BadPath = BadPath
  Node = {n0, n1, n2, n3, n4}
  Root = n0
  Handle = {h1, h2}
  Byte = {0, 1}
  Zero = 0
  Perm = {rwx}
  RootPerm = rwx
  Stamp = {now}
  Now = now
  Limit = 2
  MaxEntries = 3
  MaxInt = 2
  Flag <- QuotaFlag
  Payload <- QuotaPayload
  ReadLen = {2}
  Offset <- QuotaOffset
  Count = {1}
INVARIANTS
  TypeOK
  RefsExact
  Quota
  PositionsInRange
PROPERTIES
  ImplementsFileStore
