\* The controller from every placement, against a lagging cache, a PDB, and one
\* spot interruption, failing or lost call, restart, edit of the policy, or
\* disappearance of the Deployment, at any time.
CONSTANTS
  Pods = {p1, p2, p3}
  Policies <- TwoPolicies
  ReplicaCounts = {2}
  MaxGeneration = 1
  Faults = {"delete", "evictError", "observeError", "unclassified", "restart",
            "lostAnswer", "relabel", "configError", "annotate"}
  CooldownPeriod = 2
  SyncWithin = 0
  MinAvailable = 1
  WindowLevel = "none"
  ConfigWired = FALSE
  Annotated = TRUE
  Labels = {"true", "absent"}
  MaxDisturbances = 1
SPECIFICATION DisturbedSpec
INVARIANT TypeOK
PROPERTIES PromiseKept FloorKept Converges
