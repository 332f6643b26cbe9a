SPECIFICATION Spec
CONSTANTS
  d1 = d1
  d2 = d2
  a1 = a1
  t1 = t1
  t2 = t2
  None = None
  Drivers = {d1}
  Agents = {a1}
  Tasks = {t1, t2}
  Priority <- TwoTasks
  MaxRetries = 2
PROPERTY
  VetoHolds
