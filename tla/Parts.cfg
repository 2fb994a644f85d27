\* The parts beside webhook and reconcilers, one at a time.
CONSTANTS
  MaxReplicas = 12
  Policies <- SamplePolicies
  app = app
  sys = sys
  Askers = {t1, t2}
  Namespaces = {app, sys}
  SystemPrefixed = {sys}
  NoNamespace = none
  NamespaceObjects <- SampleObjects
  FilterConfigs <- SampleFilters
  RefreshInterval = 1
  AskTime = 1
  MaxFilterUpdates = 1
  Callers = {c1, c2}
  Resources = {pods}
  Global = global
  ListedQPS = {pods}
  ListedBurst = {pods}
  FailureThreshold = 2
  RecoveryTimeout = 1
  HalfOpenRequests = 2
  MaxUpdates = 2
  Installers = {r1, r2}
  Spelled <- SampleNumbers
  MaxMinOnDemand = 200
  MaxInt32 = 300
  MaxRewrites = 2
  Times <- SampleInstants
  Schedules <- SampleSchedules
  Durations <- SampleDurations
  NextFiring <- FirstAfter
  ZeroTime <- FarPast
  LastTime = 4
  Lookups = {c1, c2}
  NodeNames = {n1}
  Gone = gone
  Labellings <- SampleLabellings
  Selectors <- SampleSelectors
  CacheRefreshInterval = 1
  LookupTime = 1
  MaxSelectorUpdates = 1
  Replicas = {r1, r2}
  Nobody = nobody
  Retiring = r1
  LeaseDuration = 2
  RenewDeadline = 1
  MaxInFile = 1
  MaxInEnvironment = 1
  MaxEdits = 1
SPECIFICATION PartsSpec
\* A load ends, and the classifier's locks can close on each other.
CHECK_DEADLOCK FALSE
INVARIANTS
  LargestSafeSpot
  VerdictsCurrent
  ClosedBelowThreshold
  SharedLimiter
  LimitersCurrent
  AccessComplete
  ReadersAgree
  AllowedInWindowsOnly
  OneLeader
  CompletionReported
  LeavesInOrder
  LoadAgrees
  RunsUsable
PROPERTIES
  RecoversWithServer
  RewriteKeepsPolicy
  AnswersCurrent
  LookupsReturn
  ShutdownEnds
