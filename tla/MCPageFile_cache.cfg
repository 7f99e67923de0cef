SPECIFICATION Spec
CONSTANTS
  File = {f1, f2}
  NoFile = NoFile
  Handle = {h1, h2}
  Fds = {3, 4}
  CACHE_COUNT = 1
  MaxPages = 1
  Content = {zero, a}
  Zero = zero
  ClockMax = 1
  Faults = {"write"}
  Sharing = FALSE
SYMMETRY Symmetry
INVARIANTS
  TypeOK
  CacheCoherent
  CachedAreOpen
  EndPidIsLength
PROPERTY IsPageStore
