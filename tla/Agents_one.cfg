SPECIFICATION AgentsSpec
CONSTANTS
  Tasks = {t1}
  Levels = {"green", "yellow"}
  MaxEvents = 5
  None = None
  TaskIds = {d1, d2, d3}
  k1 = k1
  k2 = k2
  Actors = {a1, a2}
  Keys = {k1, k2}
  SafeKeys = {k1}
  Themis <- MCThemis
  Values = {u}
  Ttls = {1, Never}
  CleanupInterval = 1
  MaxTime = 3
  Never = Never
  NoEntry = NoEntry
  NoCall = NoCall
  Calls = {c1}
  Models = {m1, m2, m3}
  Wanted = m1
  Tagged = {m2}
  Keyed = {"grok", "openai"}
  one = one
  two = two
  Pieces = {one, two}
  Texts <- MCTexts
  LineLength = 3
  NoModel = NoModel
  Callers = {x, y}
  Window = 2
  LastTick = 3
  NoCache = NoCache
INVARIANTS AgentsTypeOK ClearedIsApproved TrailReplays DecidedOnce AnswerIsWhole SeenInWindow
PROPERTY RemembersInTime
