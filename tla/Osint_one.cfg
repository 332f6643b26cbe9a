SPECIFICATION OsintSpec
CONSTANTS
  jane = jane
  jdoe = jdoe
  jd = jd
  acme = acme
  tel = tel
  link = link
  page = page
  crawl = crawl
  dump = dump
  card = card
  bad = bad
  h1 = h1
  h2 = h2
  h3 = h3
  h4 = h4
  Undefined = Undefined
  Values = {jane, jdoe, jd, acme, tel}
  Linked = {h1, h2}
  TypeOf <- MCTypeOf
  Normal <- MCNormal
  VariantsOf <- MCVariantsOf
  Seeds <- MCSeeds
  Leads <- MCLeads
  Confidence <- MCConfidence
  Queries <- MCQueries
  Items <- MCItems
  SourceOf <- MCSourceOf
  EntityOf <- MCEntityOf
  ScoreOf <- MCScoreOf
  Mentions <- MCMentions
  HitOf <- MCHitOf
  ProbeHits <- MCProbeHits
  First <- MCFirst
  Ready = {"platform", "ahmia", "bridge"}
  Modes = {"full", "quick", "person", "links"}
  MaxSweeps = 2
  MaxItems = 6
  OverlapPercent = 33
  MinConfidence = 60
  MaxRounds = 2
  TargetScore = 72
  PlateauEpsilon = 3
  PlateauRounds = 1
  MaxFound = 2
  NoItems = NoItems
  ann = ann
  admin = admin
  c1 = c1
  c2 = c2
  web = web
  one = one
  two = two
  Clients = {web, one, two}
  Shells = {web}
  Cases = {c1, c2}
  NoCase = NoCase
  Operators = {ann, admin}
  Admin = admin
  NoOperator = NoOperator
  Givens = {{}, {ann}}
  Permits <- MCPermits
  AuthModes = {"pin", "pin+operators"}
  Routes = {"events", "dossier"}
  MaxVersion = 2
INVARIANTS OsintTypeOK DiscoveryStops CritiqueStops ReportComplete EndsWithScan CaseHeld StreamKeepsUp
PROPERTIES LookupEnds OperatorsKept
CHECK_DEADLOCK FALSE
