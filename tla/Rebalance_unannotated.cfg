\* A workload with the label and nothing else: its policy is all zeros, and the
\* webhook does not place its Pods.
CONSTANTS
  Pods = {p1, p2, p3}
  Policies <- Unset
  ReplicaCounts = {2}
  MaxGeneration = 1
  Faults = {}
  CooldownPeriod = 1
  SyncWithin = 0
  MinAvailable = 0
  WindowLevel = "none"
  ConfigWired = FALSE
  Annotated = FALSE
  Labels = {"true"}
  MaxDisturbances = 0
SPECIFICATION DisturbedSpec
PROPERTY Converges
