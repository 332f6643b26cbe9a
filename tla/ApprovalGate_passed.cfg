SPECIFICATION Spec
CONSTANTS
  Tasks = {t1}
  Levels = {"green", "yellow"}
  MaxEvents = 5
  None = None
INVARIANT GatesPassedIsApproved
