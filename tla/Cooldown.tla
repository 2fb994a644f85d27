------------------------------ MODULE Cooldown ------------------------------
(***************************************************************************)
(* What a reconciler promises about one workload: successive evictions are *)
(* at least Period apart (docs/reference/configuration.md, cooldownPeriod).*)
(* The promise is the process's own: an eviction it does not know of may   *)
(* be followed by another at any time, but only until the period after it  *)
(* is over or the next eviction is known.                                  *)
(***************************************************************************)
EXTENDS Integers

CONSTANT Period   \* a natural number

VARIABLES
  since,   \* age of the last eviction; it stops growing at Period
  known    \* "kept" if the process honours that eviction, "lost" if not

Init == since = Period /\ known = "kept"

Permitted == since = Period \/ known = "lost"

\* An eviction takes effect.  That may stay unknown, if no answer arrives.
Evict ==
  /\ Permitted
  /\ since' = 0
  /\ known' \in {"kept", "lost"}

\* The process starts a cooldown for an eviction that had no effect.
Acknowledge == Permitted /\ known' = "kept" /\ UNCHANGED since

\* What the process remembers is lost; that matters only during a cooldown.
Forget ==
  /\ known' = IF since < Period THEN "lost" ELSE "kept"
  /\ UNCHANGED since

\* Time passes.
Age ==
  /\ since < Period
  /\ since' = since + 1
  /\ UNCHANGED known

Next == Evict \/ Acknowledge \/ Forget \/ Age

Promise == Init /\ [][Next]_<<since, known>>
=============================================================================
