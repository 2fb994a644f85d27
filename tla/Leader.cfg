\* Two replicas, one of which shuts down gracefully while it leads.  The renewal
\* deadline is well below the duration of the Lease, as it is by default.
CONSTANTS
  Replicas = {r1, r2}
  Nobody = nobody
  Retiring = r1
  LeaseDuration = 6
  RenewDeadline = 4
SPECIFICATION ShutdownSpec
INVARIANT SingleLeader
