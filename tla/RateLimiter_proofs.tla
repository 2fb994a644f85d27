------------------------- MODULE RateLimiter_proofs -------------------------
(***************************************************************************)
(* Proofs about the circuit breaker and the limiters, for any number of    *)
(* goroutines, resources and updates.                                      *)
(***************************************************************************)
EXTENDS RateLimiter, TLAPS

-----------------------------------------------------------------------------
(* The breaker.                                                            *)

\* Types, the promise, and that a half-open breaker has not seen enough
\* successes to close, so that its counter stays within its range.
BreakerInv ==
  /\ BreakerTypeOK
  /\ ClosedBelowThreshold
  /\ breaker.state = "halfOpen" => breaker.successes < HalfOpenRequests

\* NewCircuitBreaker starts closed with no failures.
LEMMA BreakerInit == LimiterInit => BreakerInv
  BY RateLimiterAssumption DEF LimiterInit, BreakerInv, BreakerTypeOK,
       ClosedBelowThreshold

\* Only half-opening, the recording of outcomes and time change the breaker,
\* and each keeps the invariant.  (CanExecute, RecordSuccess, RecordFailure)
LEMMA BreakerStep ==
  ASSUME BreakerInv, [LimiterNext]_rlVars
  PROVE  BreakerInv'
  <1> USE RateLimiterAssumption
  <1>0. /\ 0 \in 0 .. HalfOpenRequests /\ 0 < HalfOpenRequests
        /\ 0 \in 0 .. FailureThreshold /\ 0 < FailureThreshold
        /\ 0 \in 0 .. RecoveryTimeout
    OBVIOUS
  <1>1. ASSUME NEW c \in Callers, HalfOpen(c)
        PROVE  BreakerInv'
    <2>1. breaker' = [breaker EXCEPT !.state = "halfOpen", !.successes = 0]
      BY <1>1 DEF HalfOpen
    <2>2. breaker'.state = "halfOpen" /\ breaker'.successes = 0
      BY <2>1 DEF BreakerInv, BreakerTypeOK
    <2>3. BreakerTypeOK'
      BY <1>0, <2>1 DEF BreakerInv, BreakerTypeOK
    <2>4. QED
      BY <1>0, <2>2, <2>3 DEF BreakerInv, ClosedBelowThreshold
  <1>2. ASSUME NEW c \in Callers, RecordSuccess(c)
        PROVE  BreakerInv'
    <2> DEFINE n == breaker.successes + 1
    <2>1. breaker.successes \in 0 .. HalfOpenRequests
      BY DEF BreakerInv, BreakerTypeOK
    <2>2. CASE breaker.state = "halfOpen" /\ n >= HalfOpenRequests
      <3>1. breaker' = [breaker EXCEPT !.successes = n, !.state = "closed",
                                       !.failures = 0]
        BY <1>2, <2>1, <2>2 DEF RecordSuccess
      <3>2. n \in 0 .. HalfOpenRequests
        BY <2>1, <2>2 DEF BreakerInv
      <3>3. BreakerTypeOK'
        BY <1>0, <3>1, <3>2 DEF BreakerInv, BreakerTypeOK
      <3>4. breaker'.state = "closed" /\ breaker'.failures = 0
        BY <3>1 DEF BreakerInv, BreakerTypeOK
      <3>5. QED
        BY <1>0, <3>3, <3>4 DEF BreakerInv, ClosedBelowThreshold
    <2>3. CASE breaker.state = "halfOpen" /\ n < HalfOpenRequests
      BY <1>2, <2>3 DEF RecordSuccess, BreakerInv, BreakerTypeOK, ClosedBelowThreshold
    <2>4. CASE breaker.state = "closed"
      BY <1>2, <2>4 DEF RecordSuccess, BreakerInv, BreakerTypeOK, ClosedBelowThreshold
    <2>5. CASE breaker.state = "open"
      BY <1>2, <2>5 DEF RecordSuccess, BreakerInv, BreakerTypeOK, ClosedBelowThreshold
    <2>6. QED
      BY <2>1, <2>2, <2>3, <2>4, <2>5 DEF BreakerInv, BreakerTypeOK
  <1>3. ASSUME NEW c \in Callers, RecordFailure(c)
        PROVE  BreakerInv'
    <2> DEFINE failures == IF breaker.failures < FailureThreshold
                           THEN breaker.failures + 1 ELSE FailureThreshold
               opens == breaker.state # "closed" \/ failures >= FailureThreshold
               state == IF opens THEN "open" ELSE breaker.state
    <2>1. breaker' = [breaker EXCEPT !.failures = failures, !.age = 0, !.state = state]
      BY <1>3 DEF RecordFailure
    <2>2. /\ failures \in 0 .. FailureThreshold
          /\ state \in {"closed", "open"}
          /\ state = "closed" => failures < FailureThreshold
      BY DEF BreakerInv, BreakerTypeOK
    <2>3. BreakerTypeOK' /\ breaker'.state = state /\ breaker'.failures = failures
      <3> HIDE DEF failures, state
      <3> QED BY <1>0, <2>1, <2>2 DEF BreakerInv, BreakerTypeOK
    <2>4. QED
      BY <2>2, <2>3 DEF BreakerInv, ClosedBelowThreshold
  <1>4. CASE BreakerTick
    BY <1>4 DEF BreakerTick, BreakerInv, BreakerTypeOK, ClosedBelowThreshold
  <1>5. CASE UNCHANGED breaker
    BY <1>5 DEF BreakerInv, BreakerTypeOK, ClosedBelowThreshold
  <1>6. QED
    BY <1>1, <1>2, <1>3, <1>4, <1>5
       DEF LimiterNext, Proceeds, CanExecute, Reserve, Admit, Refuse, FindLimiter,
           CreateLimiter, Execute, UpdateConfig, ServerToggles, breakerVars, rlVars

\* Whichever way a breaker was closed, the failures it counts are fewer than
\* those that open it.  (RecordSuccess, RecordFailure)
THEOREM AlwaysClosedBelowThreshold == LimiterSpec => []ClosedBelowThreshold
  <1>1. BreakerInv => ClosedBelowThreshold
    BY DEF BreakerInv
  <1>2. QED
    BY <1>1, BreakerInit, BreakerStep, PTL DEF LimiterSpec

-----------------------------------------------------------------------------
(* The limiters.                                                           *)

CallRecords ==
  [pc : {"idle", "expired", "lookup", "create", "waiting", "running",
         "succeeded", "failed"},
   resource : Resources \cup {Global},
   uses : Callers \cup {Global}]

LimiterRecords == [by : Callers \cup {Global}, qps : Nat, burst : Nat]

\* A limiter exists exactly when a goroutine created it; one that creates or
\* waits does so for a resource of its own, and the limiter waited on exists.
\* Of updates that have not met, only the last is under way.
LimiterInv ==
  /\ limiter \in [Resources -> LimiterRecords]
  /\ rlConfig \in Nat
  /\ updating \subseteq Nat
  /\ crossed \in BOOLEAN
  /\ ~crossed => updating \subseteq {rlConfig}
  /\ call \in [Callers -> CallRecords]
  /\ \A r \in Resources : limiter[r] # NoLimiter => limiter[r].by # Global
  /\ \A c \in Callers : call[c].pc = "create" => call[c].resource # Global
  /\ \A c \in Callers :
       call[c].pc = "waiting" /\ call[c].resource # Global =>
         /\ limiter[call[c].resource] # NoLimiter
         /\ call[c].uses = limiter[call[c].resource].by
  /\ LimitersCurrent

\* No limiter is there at first and nobody waits.  (NewRateLimiter)
LEMMA LimiterInvInit == LimiterInit => LimiterInv
  <1> SUFFICES ASSUME LimiterInit PROVE LimiterInv
    OBVIOUS
  <1> USE RateLimiterAssumption DEF LimiterInit
  <1>1. /\ IdleCall \in CallRecords /\ IdleCall.pc = "idle"
        /\ NoLimiter \in LimiterRecords
    BY DEF CallRecords, IdleCall, NoLimiter, LimiterRecords
  <1>2. /\ limiter \in [Resources -> LimiterRecords]
        /\ \A r \in Resources : limiter[r] = NoLimiter
        /\ call \in [Callers -> CallRecords]
        /\ \A c \in Callers : call[c].pc = "idle"
    BY <1>1
  <1>3. LimitersCurrent
    BY <1>2 DEF LimitersCurrent
  <1>4. QED
    BY <1>2, <1>3 DEF LimiterInv

\* A step of one goroutine that leaves the limiters alone, and starts no wait
\* or creation.
LEMMA OtherStep ==
  ASSUME LimiterInv, UNCHANGED limiterVars,
         NEW c \in Callers, NEW rec \in CallRecords,
         call' = [call EXCEPT ![c] = rec],
         rec.pc \notin {"create", "waiting"}
  PROVE  LimiterInv'
  BY DEF LimiterInv, LimitersCurrent, limiterVars, NoLimiter

\* Every step keeps the limiters shared and current: the two steps of
\* getLimiterForResource because the second looks again, an update because it
\* stores the configuration before it visits the limiters.
LEMMA LimiterStep ==
  ASSUME BreakerInv, LimiterInv, [LimiterNext]_rlVars
  PROVE  LimiterInv'
  <1> USE RateLimiterAssumption
  <1>1. ASSUME NEW c \in Callers, CanExecute(c) \/ Reserve(c)
        PROVE  LimiterInv'
    <2>0. Answer # "idle" => Answer \in {"lookup", "expired"}
      BY DEF Answer, BreakerInv, BreakerTypeOK
    <2>1. PICK r \in Resources \cup {Global}, pc \in {"lookup", "expired"} :
            /\ call' = [call EXCEPT ![c] = [IdleCall EXCEPT !.pc = pc, !.resource = r]]
            /\ UNCHANGED limiterVars
      BY <1>1, <2>0 DEF CanExecute, Reserve
    <2> DEFINE rec == [IdleCall EXCEPT !.pc = pc, !.resource = r]
    <2>2. rec \in CallRecords /\ rec.pc = pc
      BY DEF CallRecords, IdleCall
    <2>3. QED
      BY <2>1, <2>2, OtherStep
  <1>2. ASSUME NEW c \in Callers, NEW from,
               NEW to \in {"idle", "lookup", "running", "succeeded", "failed"},
               Goes(c, from, to), UNCHANGED limiterVars
        PROVE  LimiterInv'
    <2> DEFINE rec == IF to = "idle" THEN IdleCall ELSE [call[c] EXCEPT !.pc = to]
    <2>1. call' = [call EXCEPT ![c] = rec]
      BY <1>2 DEF Goes
    <2>2. call[c] \in CallRecords
      BY DEF LimiterInv
    <2>3. rec \in CallRecords /\ rec.pc = to
      BY <2>2 DEF CallRecords, IdleCall
    <2>4. QED
      BY <1>2, <2>1, <2>3, OtherStep
  <1>3. ASSUME NEW c \in Callers, HalfOpen(c) \/ Admit(c) \/ Refuse(c) \/ Execute(c)
                                  \/ RecordSuccess(c) \/ RecordFailure(c)
        PROVE  LimiterInv'
    BY <1>2, <1>3 DEF HalfOpen, Admit, Refuse, Execute, RecordSuccess, RecordFailure
  <1>4. ASSUME NEW c \in Callers, FindLimiter(c)
        PROVE  LimiterInv'
    <2> DEFINE r == call[c].resource
               rec == IF r = Global THEN [call[c] EXCEPT !.pc = "waiting"]
                      ELSE IF limiter[r] # NoLimiter
                           THEN [call[c] EXCEPT !.pc = "waiting", !.uses = limiter[r].by]
                           ELSE [call[c] EXCEPT !.pc = "create"]
    <2>1. call' = [call EXCEPT ![c] = rec] /\ UNCHANGED limiterVars
      BY <1>4 DEF FindLimiter
    <2>2. call[c] \in CallRecords /\ r \in Resources \cup {Global}
      BY DEF LimiterInv, CallRecords
    <2>3. r # Global => limiter[r].by \in Callers \cup {Global}
      BY <2>2 DEF LimiterInv, LimiterRecords
    <2>4. /\ rec \in CallRecords /\ rec.resource = r
          /\ rec.pc = "create" => r # Global
          /\ rec.pc = "waiting" /\ r # Global =>
               limiter[r] # NoLimiter /\ rec.uses = limiter[r].by
      BY <2>2, <2>3 DEF CallRecords
    <2>5. QED
      <3> HIDE DEF rec
      <3> QED BY <2>1, <2>4 DEF LimiterInv, LimitersCurrent, limiterVars, NoLimiter
  <1>5. ASSUME NEW c \in Callers, CreateLimiter(c)
        PROVE  LimiterInv'
    <2> DEFINE r == call[c].resource
               new == [by |-> c, qps |-> rlConfig, burst |-> rlConfig]
               found == IF limiter[r] = NoLimiter THEN new ELSE limiter[r]
               rec == [call[c] EXCEPT !.pc = "waiting", !.uses = found.by]
    <2>1. /\ limiter' = [limiter EXCEPT ![r] = found]
          /\ call' = [call EXCEPT ![c] = rec]
          /\ UNCHANGED <<rlConfig, updating, crossed>>
      BY <1>5 DEF CreateLimiter, LimiterInv
    <2>2. call[c] \in CallRecords /\ r \in Resources
      BY <1>5 DEF LimiterInv, CallRecords, CreateLimiter
    <2>3. /\ found \in LimiterRecords
          /\ found.by # Global /\ found # NoLimiter
          /\ limiter[r] # NoLimiter => found = limiter[r]
          /\ limiter[r] = NoLimiter => found.qps = rlConfig /\ found.burst = rlConfig
      BY <2>2 DEF LimiterInv, NoLimiter, LimiterRecords
    <2>4. /\ rec \in CallRecords /\ rec.resource = r
          /\ rec.pc = "waiting" /\ rec.uses = found.by
      <3>1. found.by \in Callers \cup {Global}
        BY <2>3 DEF LimiterRecords
      <3> HIDE DEF found
      <3> QED BY <2>2, <3>1 DEF CallRecords
    <2>5. QED
      <3> HIDE DEF rec, found
      <3>1. /\ limiter' \in [Resources -> LimiterRecords]
            /\ rlConfig' \in Nat /\ updating' \subseteq Nat /\ crossed' \in BOOLEAN
            /\ ~crossed' => updating' \subseteq {rlConfig'}
            /\ call' \in [Callers -> CallRecords]
        BY <2>1, <2>2, <2>3, <2>4 DEF LimiterInv
      <3>2. \A s \in Resources : limiter'[s] # NoLimiter => limiter'[s].by # Global
        BY <2>1, <2>2, <2>3 DEF LimiterInv
      <3>3. \A d \in Callers : call'[d].pc = "create" => call'[d].resource # Global
        BY <2>1, <2>4 DEF LimiterInv
      <3>4. \A d \in Callers :
              call'[d].pc = "waiting" /\ call'[d].resource # Global =>
                /\ limiter'[call'[d].resource] # NoLimiter
                /\ call'[d].uses = limiter'[call'[d].resource].by
        <4> SUFFICES ASSUME NEW d \in Callers,
                            call'[d].pc = "waiting", call'[d].resource # Global
                     PROVE  /\ limiter'[call'[d].resource] # NoLimiter
                            /\ call'[d].uses = limiter'[call'[d].resource].by
          OBVIOUS
        <4>1. CASE d = c
          BY <2>1, <2>2, <2>3, <2>4, <4>1 DEF LimiterInv
        <4>2. CASE d # c
          <5>1. call'[d] = call[d] /\ call[d].resource \in Resources
            BY <2>1, <4>2, <3>1 DEF LimiterInv, CallRecords
          <5>2. limiter[call[d].resource] # NoLimiter
                /\ call[d].uses = limiter[call[d].resource].by
            BY <5>1 DEF LimiterInv
          <5>3. QED
            BY <2>1, <2>2, <2>3, <5>1, <5>2 DEF LimiterInv
        <4>3. QED
          BY <4>1, <4>2
      <3>5. LimitersCurrent'
        BY <2>1, <2>2, <2>3 DEF LimiterInv, LimitersCurrent, NoLimiter
      <3>6. QED
        BY <3>1, <3>2, <3>3, <3>4, <3>5 DEF LimiterInv, NoLimiter
  <1>6. CASE UpdateConfig
    <2>1. CASE rlConfig' = rlConfig
      <3>1. PICK n \in updating :
              /\ updating' = updating \ {n}
              /\ limiter' = [r \in Resources |-> Brought(limiter[r], r, n)]
              /\ UNCHANGED <<rlConfig, crossed, call>>
        BY <1>6, <2>1 DEF UpdateConfig, LimiterInv
      <3>2. n \in Nat /\ (~crossed => n = rlConfig)
        BY DEF LimiterInv
      <3>3. ASSUME NEW r \in Resources
            PROVE  /\ Brought(limiter[r], r, n) \in LimiterRecords
                   /\ Brought(limiter[r], r, n).by = limiter[r].by
                   /\ Brought(limiter[r], r, n) # NoLimiter <=> limiter[r] # NoLimiter
                   /\ limiter[r] # NoLimiter /\ ~crossed =>
                        /\ r \in ListedQPS => Brought(limiter[r], r, n).qps = rlConfig
                        /\ r \in ListedBurst => Brought(limiter[r], r, n).burst = rlConfig
        BY <3>2 DEF LimiterInv, NoLimiter, LimiterRecords, Brought
      <3>4. /\ limiter' \in [Resources -> LimiterRecords]
            /\ \A r \in Resources : /\ limiter'[r].by = limiter[r].by
                                    /\ limiter'[r] # NoLimiter <=> limiter[r] # NoLimiter
            /\ LimitersCurrent'
        BY <3>1, <3>3 DEF LimitersCurrent, NoLimiter
      <3>5. \A d \in Callers : call[d].resource \in Resources \cup {Global}
        BY DEF LimiterInv, CallRecords
      <3>6. \A d \in Callers :
              call'[d].pc = "waiting" /\ call'[d].resource # Global =>
                /\ limiter'[call'[d].resource] # NoLimiter
                /\ call'[d].uses = limiter'[call'[d].resource].by
        BY <3>1, <3>4, <3>5 DEF LimiterInv
      <3>7. \A r \in Resources : limiter'[r] # NoLimiter => limiter'[r].by # Global
        BY <3>4 DEF LimiterInv
      <3>8. /\ updating' \subseteq Nat /\ crossed' \in BOOLEAN
            /\ ~crossed' => updating' \subseteq {rlConfig'}
        BY <3>1 DEF LimiterInv
      <3>9. QED
        BY <3>1, <3>4, <3>6, <3>7, <3>8 DEF LimiterInv, NoLimiter
    <2>2. CASE rlConfig' # rlConfig
      <3>1. /\ rlConfig' = rlConfig + 1 /\ UNCHANGED <<limiter, call>>
            /\ updating' = updating \cup {rlConfig + 1}
            /\ crossed' = (updating # {})
        BY <1>6, <2>2 DEF UpdateConfig
      <3>2. /\ rlConfig' \in Nat /\ updating' \subseteq Nat
            /\ crossed' \in BOOLEAN
        BY <3>1 DEF LimiterInv
      <3>3. ~crossed' => updating' \subseteq {rlConfig'}
        BY <3>1
      <3>4. LimitersCurrent'
        BY <3>1 DEF LimitersCurrent
      <3>5. QED
        BY <3>1, <3>2, <3>3, <3>4 DEF LimiterInv, NoLimiter
    <2>3. QED
      BY <2>1, <2>2
  <1>7. CASE UNCHANGED <<limiterVars, call>>
    BY <1>7 DEF LimiterInv, LimitersCurrent, limiterVars, NoLimiter
  <1>8. QED
    BY <1>1, <1>3, <1>4, <1>5, <1>6, <1>7
       DEF LimiterNext, Proceeds, ServerToggles, BreakerTick, limiterVars, rlVars

\* Goroutines that wait for one resource always wait on one limiter.
\* (getLimiterForResource)
THEOREM AlwaysSharedLimiter == LimiterSpec => []SharedLimiter
  <1>1. LimiterInv => SharedLimiter
    BY DEF LimiterInv, SharedLimiter
  <1>2. QED
    BY <1>1, BreakerInit, BreakerStep, LimiterInvInit, LimiterStep, PTL DEF LimiterSpec

\* Between updates that do not meet, the limiters of the resources the
\* configuration names have its rates, also the one created while it was being
\* replaced.  (UpdateConfig)
THEOREM AlwaysLimitersCurrent == LimiterSpec => []LimitersCurrent
  <1>1. LimiterInv => LimitersCurrent
    BY DEF LimiterInv
  <1>2. QED
    BY <1>1, BreakerInit, BreakerStep, LimiterInvInit, LimiterStep, PTL DEF LimiterSpec
=============================================================================
