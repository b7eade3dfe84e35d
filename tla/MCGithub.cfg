SPECIFICATION MCSpec
CONSTANTS
  r1 = r1
  r2 = r2
  dev = dev
  e1 = e1
  e2 = e2
  e3 = e3
  proc = proc
  c1 = c1
  c2 = c2
  x1 = x1
  x2 = x2
  Processes = {proc}
  Calls = {c1, c2}
  Home <- MCHome
  Writers = {x1, x2}
  LastMoment = 2
  MaxRow = 2
  MaxLost = 1
  Repos = {r1, r2}
  Devs = {dev}
  Events = {e1, e2, e3}
  RepoOf <- MCRepoOf
  KindOf <- MCKindOf
  AuthorOf <- MCAuthorOf
  DateOf <- MCDateOf
  Nobody = Nobody
  Window = 1
  Dormant = 2
  MaxDay = 3
  MaxCount = 3
  BatchSize = 2
  Threshold = 2
  TransientThreshold = 3
INVARIANTS PipelineInv EqualWeights EveryRepoAccounted CursorLosesNothing
PROPERTIES DeactivationEarned OldEventsLeave EveryCallGoesOut
CHECK_DEADLOCK FALSE
