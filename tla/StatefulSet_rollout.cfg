\* An undisturbed set: after the eviction its other Pods are restarted too,
\* without waiting for the cooldown.
CONSTANTS
  Pods = {p1, p2}
  Ordinal <- Ordinals
  MaxDisturbances = 0
  Policies <- MostlySpot
  ReplicaCounts = {2}
  MaxGeneration = 1
  Faults = {}
  CooldownPeriod = 1
  SyncWithin = 0
  MinAvailable = 0
  WindowLevel = "none"
  ConfigWired = FALSE
  Annotated = TRUE
  Labels = {"true"}
SPECIFICATION SetSpec
PROPERTY DisruptionsSpaced
