SPECIFICATION MCSpec
SYMMETRY MCSymmetry
INVARIANT TypeOK
INVARIANT WholeFile
 
INVARIANT GateOnlyDuringInstall
PROPERTY InstallIsTrue
CONSTANTS
  f1 = f1
  f2 = f2
  NoFile = NoFile
  Files <- MCFiles
  Size <- MCSize
  QueueMax = 2
  MaxAir = 2
  MaxLinks = 2
  MaxPrepares = 2
  MaxVisits = 1
  fb = fb
  c1 = c1
  c2 = c2
  NoId = NoId
  Packages = {fb}
  Bundled = fb
  Bytes <- MCBytes
  ChunkSize = 2
  Ids = {i1, i2, i3, i4}
  PageCalls = {c1, c2}
CHECK_DEADLOCK FALSE
