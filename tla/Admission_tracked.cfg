\* The tracker's real-time argument on a fixed workload: an entry outlives the
\* Pods it stands for, because TTL >= VisibleWithin + PodListMaxAge.
CONSTANTS
  Pods = {p1, p2, p3}
  Policies <- OnePolicy
  ReplicaCounts = {2}
  MaxGeneration = 1
  Faults = {"delete", "drop"}
  Observer = TRUE
  AdmissionTracker = TRUE
  TTL = 1
  PodListMaxAge = 0
  RequestTimeout = 1
  VisibleWithin = 1
  MaxInFlight = 2
  MaxPending = 3
SPECIFICATION Spec
SYMMETRY Symmetry
INVARIANT SpotWithinTarget
PROPERTY SpotContract
