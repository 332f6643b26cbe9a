SPECIFICATION Spec
CONSTANTS
  Writers = {w1, w2}
  Readers = {r1}
  Values = {a, b}
  Inodes = {i1, i2, i3, i4}
  Blocks = 2
  Hole = Hole
  Absent = Absent
  Null = Null
  Torn = Torn
  Unread = Unread
INVARIANTS NoTornRead
