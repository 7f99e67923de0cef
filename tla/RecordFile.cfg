SPECIFICATION Spec
CONSTANTS
  RECORDS_PER_PAGE = 2
  Key = {0, 7}
  Text = {empty}
  Empty = empty
  MaxPages = 3
INVARIANTS
  TypeOK
  EndIsKept
PROPERTY IsRecordLog
