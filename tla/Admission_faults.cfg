\* The path without Observer, whose bookkeeping takes two critical sections,
\* under every disturbance at once.
CONSTANTS
  Pods = {p1, p2}
  Policies <- OnePolicy
  ReplicaCounts = {2}
  MaxGeneration = 2
  Faults = {"drop", "timeout", "rollout", "configError", "observeError", "restart"}
  Observer = FALSE
  AdmissionTracker = TRUE
  TTL = 0
  PodListMaxAge = 0
  RequestTimeout = 1
  VisibleWithin = 0
  MaxInFlight = 2
  MaxPending = 2
SPECIFICATION FairSpec
INVARIANTS TypeOK ReservationsCounted
PROPERTY ReservationsExpire
