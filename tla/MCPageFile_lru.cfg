SPECIFICATION SpecBeforeWrap
CONSTANTS
  File = {f1}
  NoFile = NoFile
  Handle = {h1}
  Fds = {3}
  CACHE_COUNT = 2
  MaxPages = 3
  Content = {zero}
  Zero = zero
  ClockMax = 6
  Faults = {}
  Sharing = FALSE
PROPERTY IsLruCache
