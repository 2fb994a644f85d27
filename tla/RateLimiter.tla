---------------------------- MODULE RateLimiter -----------------------------
(***************************************************************************)
(* The client-side rate limiter and its circuit breaker                    *)
(* (pkg/utils/rate_limiter.go), used by goroutines that wait, call the API *)
(* server and record the outcome.                                          *)
(***************************************************************************)
EXTENDS Integers, FiniteSets

CONSTANTS
  Callers,           \* goroutines
  Resources,         \* resources that get a limiter of their own
  Global,            \* the empty resource: the limiter all others share
  ListedQPS,         \* resources with an entry in PerResourceQPS
  ListedBurst,       \* resources with an entry in PerResourceBurst
  FailureThreshold,
  RecoveryTimeout,
  HalfOpenRequests,
  MaxUpdates         \* bound on configuration updates

ASSUME RateLimiterAssumption ==
  /\ ListedQPS \subseteq Resources
  /\ ListedBurst \subseteq Resources
  /\ Global \notin Resources \cup Callers
  /\ FailureThreshold \in Nat \ {0}
  /\ HalfOpenRequests \in Nat \ {0}
  /\ RecoveryTimeout \in Nat
  /\ MaxUpdates \in Nat

VARIABLES
  breaker,   \* state, failures, successes while half open, age of last failure
  limiter,   \* resourceLimiters: who created it, and whose configuration's
             \* rate and burst it has
  rlConfig,  \* which configuration rl.config points to
  updating,  \* configurations whose UpdateConfig is between its two steps
  crossed,   \* history: the last update to start did so during another one
  call,      \* program counter and locals of each goroutine
  server     \* whether the API server answers (environment)

breakerVars == <<breaker>>
limiterVars == <<limiter, rlConfig, updating, crossed>>
rlVars == <<breaker, limiter, rlConfig, updating, crossed, call, server>>

NoLimiter == [by |-> Global, qps |-> 0, burst |-> 0]
IdleCall == [pc |-> "idle", resource |-> Global, uses |-> Global]

BreakerTypeOK ==
  breaker \in [state : {"closed", "open", "halfOpen"},
               failures : 0 .. FailureThreshold,
               successes : 0 .. HalfOpenRequests, age : 0 .. RecoveryTimeout]

LimiterInit ==
  /\ breaker = [state |-> "closed", failures |-> 0, successes |-> 0,
                age |-> RecoveryTimeout]
  /\ limiter = [r \in Resources |-> NoLimiter]
  /\ rlConfig = 0
  /\ updating = {}
  /\ crossed = FALSE
  /\ call = [c \in Callers |-> IdleCall]
  /\ server = "up"

Goes(c, from, to) ==
  /\ call[c].pc = from
  /\ call' = [call EXCEPT ![c] = IF to = "idle" THEN IdleCall
                                 ELSE [@ EXCEPT !.pc = to]]

-----------------------------------------------------------------------------
(* WaitForResource and AllowForResource.                                   *)

\* A half-open breaker lets nobody through.
Answer_bug ==
  CASE breaker.state = "closed" -> "lookup"
    [] breaker.state = "open" ->
         IF breaker.age >= RecoveryTimeout THEN "expired" ELSE "idle"
    [] breaker.state = "halfOpen" ->
         IF breaker.successes > HalfOpenRequests THEN "lookup" ELSE "idle"

\* What the breaker answers under its read lock.
Answer ==
  CASE breaker.state = "closed" -> "lookup"
    [] breaker.state = "open" ->
         IF breaker.age >= RecoveryTimeout THEN "expired" ELSE "idle"
    [] breaker.state = "halfOpen" ->
         IF breaker.successes < HalfOpenRequests THEN "lookup" ELSE "idle"

\* CanExecute.
CanExecute(c) ==
  /\ call[c].pc = "idle"
  /\ Answer # "idle"
  /\ \E r \in Resources \cup {Global} :
       call' = [call EXCEPT ![c] = [IdleCall EXCEPT !.pc = Answer, !.resource = r]]
  /\ UNCHANGED <<breakerVars, limiterVars, server>>

\* CanExecute gave up the read lock to take the write lock, and does not look
\* at the state again.
HalfOpen(c) ==
  /\ Goes(c, "expired", "lookup")
  /\ breaker' = [breaker EXCEPT !.state = "halfOpen", !.successes = 0]
  /\ UNCHANGED <<limiterVars, server>>

\* ReserveForResource never asks the breaker.
Reserve(c) ==
  /\ call[c].pc = "idle"
  /\ \E r \in Resources \cup {Global} :
       call' = [call EXCEPT ![c] = [IdleCall EXCEPT !.pc = "lookup", !.resource = r]]
  /\ UNCHANGED <<breakerVars, limiterVars, server>>

\* getLimiterForResource, under the read lock.
FindLimiter(c) ==
  LET r == call[c].resource
  IN  /\ call[c].pc = "lookup"
      /\ call' = [call EXCEPT ![c] =
           IF r = Global THEN [@ EXCEPT !.pc = "waiting"]
           ELSE IF limiter[r] # NoLimiter
                THEN [@ EXCEPT !.pc = "waiting", !.uses = limiter[r].by]
                ELSE [@ EXCEPT !.pc = "create"]]
      /\ UNCHANGED <<breakerVars, limiterVars, server>>

\* The second look under the write lock is forgotten.
CreateLimiter_bug(c) ==
  LET r == call[c].resource
      new == [by |-> c, qps |-> rlConfig, burst |-> rlConfig]
  IN  /\ call[c].pc = "create"
      /\ limiter' = [limiter EXCEPT ![r] = new]
      /\ call' = [call EXCEPT ![c].pc = "waiting", ![c].uses = c]
      /\ UNCHANGED <<breakerVars, rlConfig, updating, crossed, server>>

\* getLimiterForResource, under the write lock.
CreateLimiter(c) ==
  LET r == call[c].resource
      new == [by |-> c, qps |-> rlConfig, burst |-> rlConfig]
      found == IF limiter[r] = NoLimiter THEN new ELSE limiter[r]
  IN  /\ call[c].pc = "create"
      /\ limiter' = [limiter EXCEPT ![r] = found]
      /\ call' = [call EXCEPT ![c].pc = "waiting", ![c].uses = found.by]
      /\ UNCHANGED <<breakerVars, rlConfig, updating, crossed, server>>

\* limiter.Wait returns: a token came in time, or the context ended first.
Admit(c) == Goes(c, "waiting", "running") /\ UNCHANGED <<breakerVars, limiterVars, server>>
Refuse(c) == Goes(c, "waiting", "idle") /\ UNCHANGED <<breakerVars, limiterVars, server>>

\* The call itself.
Execute(c) ==
  /\ Goes(c, "running", IF server = "up" THEN "succeeded" ELSE "failed")
  /\ UNCHANGED <<breakerVars, limiterVars, server>>

-----------------------------------------------------------------------------
(* The breaker counts outcomes, whenever they are reported.                *)

\* Closing does not forget the failures.
RecordSuccess_bug(c) ==
  LET n == breaker.successes + 1
  IN  /\ Goes(c, "succeeded", "idle")
      /\ breaker' =
           CASE breaker.state = "halfOpen" ->
                  [breaker EXCEPT !.successes = n,
                     !.state = IF n >= HalfOpenRequests THEN "closed" ELSE @]
             [] OTHER -> breaker
      /\ UNCHANGED <<limiterVars, server>>

RecordSuccess(c) ==
  LET n == breaker.successes + 1
  IN  /\ Goes(c, "succeeded", "idle")
      /\ breaker' =
           CASE breaker.state = "halfOpen" /\ n >= HalfOpenRequests ->
                  [breaker EXCEPT !.successes = n, !.state = "closed",
                                  !.failures = 0]
             [] breaker.state = "halfOpen" /\ n < HalfOpenRequests ->
                  [breaker EXCEPT !.successes = n]
             [] breaker.state = "closed" -> [breaker EXCEPT !.failures = 0]
             [] breaker.state = "open" -> breaker
      /\ UNCHANGED <<limiterVars, server>>

\* The counter stops at the threshold, the only number it is compared with.
RecordFailure(c) ==
  LET failures == IF breaker.failures < FailureThreshold
                  THEN breaker.failures + 1 ELSE FailureThreshold
      opens == breaker.state # "closed" \/ failures >= FailureThreshold
  IN  /\ Goes(c, "failed", "idle")
      /\ breaker' = [breaker EXCEPT !.failures = failures, !.age = 0,
                       !.state = IF opens THEN "open" ELSE @]
      /\ UNCHANGED <<limiterVars, server>>

-----------------------------------------------------------------------------

\* The second step of an update: the limiters there are get the rate and the
\* burst that the configuration passed to it names for them.
Brought(l, r, n) ==
  IF l = NoLimiter THEN l
  ELSE [l EXCEPT !.qps = IF r \in ListedQPS THEN n ELSE @,
                 !.burst = IF r \in ListedBurst THEN n ELSE @]

\* The limiters are brought up to date first.
UpdateConfig_bug ==
  /\ \/ /\ updating = {}
        /\ rlConfig < MaxUpdates
        /\ updating' = {rlConfig + 1}
        /\ limiter' = [r \in Resources |-> Brought(limiter[r], r, rlConfig + 1)]
        /\ UNCHANGED <<rlConfig, crossed>>
     \/ /\ updating # {}
        /\ updating' = {}
        /\ rlConfig' = rlConfig + 1
        /\ UNCHANGED <<limiter, crossed>>
  /\ UNCHANGED <<breakerVars, call, server>>

\* UpdateConfig(n): rl.config without a lock, then, under the lock, every limiter
\* whose resource n names, with what n says and not what rl.config is by then.
UpdateConfig ==
  /\ \/ /\ rlConfig < MaxUpdates
        /\ rlConfig' = rlConfig + 1
        /\ updating' = updating \cup {rlConfig + 1}
        /\ crossed' = (updating # {})
        /\ UNCHANGED limiter
     \/ \E n \in updating :
          /\ updating' = updating \ {n}
          /\ limiter' = [r \in Resources |-> Brought(limiter[r], r, n)]
          /\ UNCHANGED <<rlConfig, crossed>>
  /\ UNCHANGED <<breakerVars, call, server>>

\* The API server goes down and comes up.
ServerToggles ==
  /\ server' = IF server = "up" THEN "down" ELSE "up"
  /\ UNCHANGED <<breakerVars, limiterVars, call>>

BreakerTick ==
  /\ breaker.age < RecoveryTimeout
  /\ breaker' = [breaker EXCEPT !.age = @ + 1]
  /\ UNCHANGED <<limiterVars, call, server>>

Proceeds(c) ==
  \/ HalfOpen(c)
  \/ FindLimiter(c)
  \/ CreateLimiter(c)
  \/ Execute(c)
  \/ RecordSuccess(c)
  \/ RecordFailure(c)

LimiterNext ==
  \/ \E c \in Callers : \/ CanExecute(c)
                        \/ Reserve(c)
                        \/ Admit(c)
                        \/ Refuse(c)
                        \/ Proceeds(c)
  \/ UpdateConfig
  \/ ServerToggles
  \/ BreakerTick

LimiterSpec == LimiterInit /\ [][LimiterNext]_rlVars

\* Some goroutine or other keeps asking, and now and then with a context that is
\* long enough.
SomeoneAsks == \E c \in Callers : CanExecute(c)
SomeoneIsAdmitted == \E c \in Callers : Admit(c)
LimiterFairness ==
  /\ SF_rlVars(SomeoneAsks)
  /\ SF_rlVars(SomeoneIsAdmitted)
  /\ \A c \in Callers : WF_rlVars(Proceeds(c))
  /\ WF_rlVars(BreakerTick)

-----------------------------------------------------------------------------
(* Properties.                                                             *)

\* Once the server answers for good, the breaker closes for good, in spite of
\* failures reported late and half-openings decided early.  (CanExecute)
RecoversWithServer == <>[](server = "up") => <>[](breaker.state = "closed")

\* Of a closed breaker, fewer than FailureThreshold failures in a row are
\* known, whichever way it was closed.  (RecordSuccess, RecordFailure)
ClosedBelowThreshold ==
  breaker.state = "closed" => breaker.failures < FailureThreshold

\* Goroutines that wait for one resource wait on one limiter, so together they
\* stay within its rate.  (getLimiterForResource)
SharedLimiter ==
  \A c \in Callers :
    call[c].pc = "waiting" /\ call[c].resource # Global =>
      call[c].uses = limiter[call[c].resource].by

\* When an update that met no other is over, the limiters of the resources it
\* names have its rate and its burst, the one created meanwhile included.  Of two
\* updates at once, the limiters may keep what the first one says and rl.config
\* what the second one does.  (UpdateConfig)
LimitersCurrent ==
  \A r \in Resources :
    updating = {} /\ ~crossed /\ limiter[r] # NoLimiter =>
      /\ r \in ListedQPS => limiter[r].qps = rlConfig
      /\ r \in ListedBurst => limiter[r].burst = rlConfig
=============================================================================
