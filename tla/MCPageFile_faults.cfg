SPECIFICATION Spec
CONSTANTS
  File = {f1}
  NoFile = NoFile
  Handle = {h1, h2}
  Fds = {3, 4}
  CACHE_COUNT = 2
  MaxPages = 2
  Content = {zero}
  Zero = zero
  ClockMax = 1
  Faults = {"read", "write", "close"}
  Sharing = TRUE
SYMMETRY Symmetry
INVARIANT OneSlotPerPage
