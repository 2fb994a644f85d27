\* The path without Observer: two requests decide before either has reserved.
CONSTANTS
  Pods = {p1, p2}
  Policies <- AllSpot
  ReplicaCounts = {1}
  MaxGeneration = 1
  Faults = {}
  Observer = FALSE
  AdmissionTracker = TRUE
  TTL = 1
  PodListMaxAge = 1
  RequestTimeout = 1
  VisibleWithin = 1
  MaxInFlight = 2
  MaxPending = 2
SPECIFICATION Spec
SYMMETRY Symmetry
PROPERTY SpotContract
