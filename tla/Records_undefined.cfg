SPECIFICATION RecordsSpec
CONSTANTS
  Writers = {p1}
  Readers = {r1, r2}
  Values = {a, b}
  Inodes = {i1, i2, i3, i4}
  Blocks = 2
  Hole = Hole
  Absent = Absent
  Null = Null
  Torn = Torn
  Unread = Unread
  Appenders = {a1}
  Texts = {t, u}
  NoEntry = NoEntry
  MaxEntries = 3
  Workers = {w1}
  Jobs = {j1, j2}
  Entities = {e1, e2}
  MaxWindow = 2
  NoDoc = NoDoc
  NoJob = NoJob
INVARIANT ChainVerifies
CHECK_DEADLOCK FALSE
