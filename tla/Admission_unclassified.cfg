\* The operator's wiring, one request at a time, with Nodes that are missing or
\* cannot be classified.
CONSTANTS
  Pods = {p1, p2}
  Policies <- AllSpot
  ReplicaCounts = {1}
  MaxGeneration = 1
  Faults = {"unclassified"}
  Observer = TRUE
  AdmissionTracker = FALSE
  TTL = 1
  PodListMaxAge = 1
  RequestTimeout = 1
  VisibleWithin = 1
  MaxInFlight = 1
  MaxPending = 2
SPECIFICATION RecordedSpec
PROPERTY UnknownIsConservative
