\* The operator's wiring with one surge Pod.
CONSTANTS
  Pods = {p1, p2, p3}
  Policies <- OnePolicy
  ReplicaCounts = {2}
  MaxGeneration = 1
  Faults = {}
  Observer = TRUE
  AdmissionTracker = FALSE
  TTL = 1
  PodListMaxAge = 0
  RequestTimeout = 1
  VisibleWithin = 1
  MaxInFlight = 2
  MaxPending = 3
SPECIFICATION Spec
SYMMETRY Symmetry
INVARIANT SpotWithinTarget
