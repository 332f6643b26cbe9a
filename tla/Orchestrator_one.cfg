SPECIFICATION FairSpec
CONSTANTS
  d1 = d1
  d2 = d2
  a1 = a1
  t1 = t1
  t2 = t2
  None = None
  Drivers = {d1, d2}
  Agents = {a1}
  Tasks = {t1}
  Priority <- OneTask
  MaxRetries = 2
INVARIANTS
  Containers
  NoTaskLost
  CallbackOnce
PROPERTY
  InProgressEnds
