\* A set of two Pods that starts on any nodes, against two of: a restart, a
\* reclaim, a failing, lost or conflicting call, a placement on a lagging cache;
\* and a window that opens and closes.
CONSTANTS
  Pods = {p1, p2}
  Ordinal <- Ordinals
  MaxDisturbances = 2
  Policies <- SamplePolicies
  ReplicaCounts = {2}
  MaxGeneration = 1
  Faults = {"delete", "evictError", "observeError", "configError", "restart",
            "lostAnswer", "window", "conflict", "relabel"}
  CooldownPeriod = 2
  SyncWithin = 0
  MinAvailable = 0
  WindowLevel = "workload"
  ConfigWired = FALSE
  Annotated = TRUE
  Labels = {"true", "absent"}
SPECIFICATION SetFairSpec
INVARIANT SetTypeOK
PROPERTIES PromiseKept SetFloorKept SetConverges
