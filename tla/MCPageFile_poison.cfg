SPECIFICATION Spec
CONSTANTS
  File = {f1, f2}
  NoFile = NoFile
  Handle = {h1, h2}
  Fds = {3, 4}
  CACHE_COUNT = 2
  MaxPages = 1
  Content = {zero, a}
  Zero = zero
  ClockMax = 1
  Faults = {"read"}
  Sharing = FALSE
SYMMETRY Symmetry
INVARIANT ReadIsFaithful
