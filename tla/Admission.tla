----------------------------- MODULE Admission ------------------------------
(***************************************************************************)
(* The mutating webhook's placement decision (pkg/webhook/mutate.go) and   *)
(* the in-memory tracker of pending admissions that it reserves capacity   *)
(* in (pkg/webhook/admission_state.go), for one workload.                  *)
(*                                                                         *)
(* Every admission request runs in a goroutine of its own.  A request's    *)
(* steps are separated where the code gives up the tracker's lock or reads *)
(* the cluster, so requests interleave with one another, with the informer *)
(* cache, with the scheduler and with the tracker's cleanup loop.          *)
(*                                                                         *)
(* Observer and AdmissionTracker say which of the handler's two optional   *)
(* collaborators are wired, and so which branch of the code runs:          *)
(*   Observer, AdmissionTracker   observe, reserve under one lock          *)
(*   Observer, no tracker         observe, decide, reserve nothing; this   *)
(*                                is what pkg/operator/operator.go wires   *)
(*   no Observer, tracker         the older path, with separate lock       *)
(*                                acquisitions; pkg/di/registry.go wires it *)
(***************************************************************************)
EXTENDS Workload

CONSTANTS
  Observer,          \* handler.Observer # nil
  AdmissionTracker,  \* handler.AdmissionTracker # nil
  TTL,               \* AdmissionStateTracker.ttl (30s)
  PodListMaxAge,     \* DefaultPodListMaxAge (5s)
  RequestTimeout,    \* the API server's webhook timeout (10s)
  VisibleWithin,     \* longest time from a decision to the cache showing the
                     \* Pod on its node
  MaxInFlight,       \* bound: requests being handled at the same time
  MaxPending         \* bound: reservations recorded in one entry

ASSUME AdmissionAssumption ==
  /\ Observer \in BOOLEAN
  /\ AdmissionTracker \in BOOLEAN
  /\ TTL \in Nat
  /\ PodListMaxAge \in Nat
  /\ RequestTimeout \in Nat
  /\ VisibleWithin \in Nat
  /\ MaxInFlight \in Nat
  /\ MaxPending \in Nat

VARIABLES
  pending,   \* tracker.pending[key]: the workload's PendingAdmission entry
  req,       \* the goroutine handling each Pod's admission
  reserved   \* history: which Pod each count of the live entry stands for

admissionVars == <<pending, req, reserved>>
vars == <<pods, view, workload, pending, req, reserved>>

\* PendingAdmission.  Times are kept as ages, which stop growing once they
\* are past every limit the code compares them with.
NeverListed == -1
PendingAdmission ==
  [pendingSpot : Nat, pendingOnDemand : Nat, generation : Nat,
   lastUpdated : 0 .. TTL + 1, podListTime : NeverListed .. PodListMaxAge + 1]

NewEntry(generation) ==
  [pendingSpot |-> 0, pendingOnDemand |-> 0, generation |-> generation,
   lastUpdated |-> 0, podListTime |-> NeverListed]

\* Kubernetes numbers generations from 1; 0 stands for a missing map entry.
NoEntry == NewEntry(0)
EntryExists == pending.generation # 0

\* idle: no request (or the Pod is stored); received: handed to the handler;
\* configured: policy read; observed: snapshot taken; listed: pod list
\* metadata recorded; answered: response returned.  The rest belong to the
\* older path.
PCs == {"idle", "received", "configured", "observed", "listed", "answered",
        "stale", "checked", "counted", "recorded", "chosen"}
InHandler == PCs \ {"idle", "answered"}

\* What a handler goroutine holds in its local variables.
Request ==
  [pc : PCs, policy : Policies, generation : Nat, replicas : Nat,
   spot : SUBSET Pods, onDemand : SUBSET Pods,
   choice : Capacity, age : Nat, snapshotAge : Nat]

AnyPolicy == CHOOSE policy \in Policies : TRUE
Idle ==
  [pc |-> "idle", policy |-> AnyPolicy, generation |-> 0, replicas |-> 0,
   spot |-> {}, onDemand |-> {}, choice |-> "none", age |-> 0,
   snapshotAge |-> 0]

NoReservation == [p \in Pods |-> "none"]

\* Types of all variables of the webhook and of the cluster around it.
TypeOK ==
  /\ ClusterTypeOK
  /\ pending \in PendingAdmission
  /\ req \in [Pods -> Request]
  /\ reserved \in [Pods -> Capacity]

Init ==
  /\ ClusterInit
  /\ pending = NoEntry
  /\ req = [p \in Pods |-> Idle]
  /\ reserved = NoReservation

-----------------------------------------------------------------------------
(* Seeded defects are named *_bug and are used only to show that the       *)
(* properties below can fail.                                              *)

-----------------------------------------------------------------------------
(* The tracker's operations, each one critical section of tracker.mu.      *)

\* The entry an increment goes to: a fresh one if there is none for this
\* generation.
EntryFor(generation) ==
  IF EntryExists /\ pending.generation = generation
  THEN pending
  ELSE NewEntry(generation)

ReservationsFor(generation) ==
  IF EntryExists /\ pending.generation = generation
  THEN reserved
  ELSE NoReservation

\* GetPendingCounts
PendingSpot(generation) == EntryFor(generation).pendingSpot
PendingOnDemand(generation) == EntryFor(generation).pendingOnDemand

\* An on-demand choice hands back a spot reservation.
IncrementPending_bug(p, capacity, generation) ==
  LET e == EntryFor(generation)
  IN  /\ pending' = IF capacity = "spot"
                    THEN [e EXCEPT !.pendingSpot = @ + 1, !.lastUpdated = 0]
                    ELSE [e EXCEPT !.pendingSpot = @ - 1, !.lastUpdated = 0]
      /\ reserved' = [ReservationsFor(generation) EXCEPT ![p] = capacity]

\* IncrementPending, also the second half of SelectAndReserve.
IncrementPending(p, capacity, generation) ==
  LET e == EntryFor(generation)
  IN  /\ pending' = IF capacity = "spot"
                    THEN [e EXCEPT !.pendingSpot = @ + 1, !.lastUpdated = 0]
                    ELSE [e EXCEPT !.pendingOnDemand = @ + 1, !.lastUpdated = 0]
      /\ reserved' = [ReservationsFor(generation) EXCEPT ![p] = capacity]

\* An entry of another generation is replaced, and its counts are lost.
UpdatePodListMetadata_bug(generation) ==
  pending' = [EntryFor(generation) EXCEPT !.podListTime = 0, !.lastUpdated = 0]

\* UpdatePodListMetadata: keeps an entry of another generation.
UpdatePodListMetadata(generation) ==
  LET e == IF EntryExists THEN pending ELSE NewEntry(generation)
  IN  pending' = [e EXCEPT !.podListTime = 0, !.lastUpdated = 0]

\* ResetPending
ResetPending(generation) ==
  /\ pending' = [NewEntry(generation) EXCEPT !.podListTime = 0]
  /\ reserved' = NoReservation

\* CheckStaleness
IsStale(generation) ==
  /\ EntryExists
  /\ \/ pending.generation # generation
     \/ /\ pending.podListTime # NeverListed
        /\ pending.podListTime > PodListMaxAge

\* Entries expire one tick early.
Cleanup_early_bug ==
  /\ EntryExists
  /\ pending.lastUpdated >= TTL
  /\ pending' = NoEntry
  /\ reserved' = NoReservation
  /\ UNCHANGED <<pods, view, workload, req>>

\* Entries that still count something are kept.
Cleanup_keep_bug ==
  /\ EntryExists
  /\ pending.lastUpdated > TTL
  /\ pending.pendingSpot + pending.pendingOnDemand = 0
  /\ pending' = NoEntry
  /\ reserved' = NoReservation
  /\ UNCHANGED <<pods, view, workload, req>>

\* One tick of cleanupLoop that finds the entry older than its time to live.
Cleanup ==
  /\ EntryExists
  /\ pending.lastUpdated > TTL
  /\ pending' = NoEntry
  /\ reserved' = NoReservation
  /\ UNCHANGED <<pods, view, workload, req>>

-----------------------------------------------------------------------------
(* The handler.                                                            *)

InFlight == { p \in Pods : req[p].pc \in InHandler }

\* A Pod is created: the API server calls the webhook.
Arrive(p) ==
  /\ pods[p] = NoPod
  /\ view[p] = NoPod
  /\ req[p].pc = "idle"
  /\ Cardinality(InFlight) < MaxInFlight
  /\ pending.pendingSpot + pending.pendingOnDemand + Cardinality(InFlight)
       < MaxPending
  /\ pods' = [pods EXCEPT ![p].phase = "request"]
  /\ req' = [req EXCEPT ![p] = [Idle EXCEPT !.pc = "received"]]
  /\ UNCHANGED <<view, workload, pending, reserved>>

\* The request leaves the handler; its other locals are dead.
Answer(p, capacity) ==
  req' = [req EXCEPT ![p] =
            [Idle EXCEPT !.pc = "answered", !.choice = capacity]]

\* getWorkloadConfigForPod.  A configuration that cannot be read leaves the
\* Pod unmanaged: it is admitted without a node selector.
GetWorkloadConfig(p) ==
  /\ req[p].pc = "received"
  /\ \/ req' = [req EXCEPT ![p] = [@ EXCEPT !.pc = "configured",
                                           !.policy = workload.policy]]
     \/ "configError" \in Faults /\ Answer(p, "none")
  /\ UNCHANGED <<pods, view, workload, pending, reserved>>

\* workloadForPod and Observe: the workload is read again, then its Pods.
Observe(p) ==
  /\ Observer
  /\ req[p].pc = "configured"
  /\ \E unknown \in UnknownChoices :
       req' = [req EXCEPT ![p] =
                 [@ EXCEPT !.pc = "observed",
                           !.generation = workload.generation,
                           !.replicas = workload.replicas,
                           !.spot = ActualPods("spot", unknown),
                           !.onDemand = ActualPods("onDemand", unknown),
                           !.snapshotAge = 0]]
  /\ UNCHANGED <<pods, view, workload, pending, reserved>>

\* Any error up to and including the classification of the nodes: on-demand,
\* and nothing is reserved.  On the older path the entry may have been reset by
\* the time the Pods cannot be listed ("checked").
FallBackToOnDemand(p) ==
  /\ "observeError" \in Faults
  /\ req[p].pc \in {"configured", "checked"}
  /\ Answer(p, "onDemand")
  /\ UNCHANGED <<pods, view, workload, pending, reserved>>

Target(p) == AllocateReplicaDistribution(req[p].replicas, req[p].policy)

\* The snapshot's freshness is tested; then either the tracker is told about
\* the pod list or, without a tracker, the decision is made right here.
UseSnapshot(p) ==
  /\ req[p].pc = "observed"
  /\ IF req[p].snapshotAge > PodListMaxAge
     THEN Answer(p, "onDemand") /\ UNCHANGED pending
     ELSE IF AdmissionTracker
     THEN /\ UpdatePodListMetadata(req[p].generation)
          /\ req' = [req EXCEPT ![p].pc = "listed"]
     ELSE /\ Answer(p, Choose(Cardinality(req[p].spot),
                              Cardinality(req[p].onDemand), Target(p)))
          /\ UNCHANGED pending
  /\ UNCHANGED <<pods, view, workload, reserved>>

\* The choice is made from the snapshot alone.
Selected_bug(p) ==
  Choose(Cardinality(req[p].spot), Cardinality(req[p].onDemand), Target(p))

\* The choice SelectAndReserve makes for p from its snapshot and the entry.
Selected(p) ==
  Choose(Cardinality(req[p].spot) + PendingSpot(req[p].generation),
         Cardinality(req[p].onDemand) + PendingOnDemand(req[p].generation),
         Target(p))

\* Choice and reservation in one critical section.
SelectAndReserve(p) ==
  /\ req[p].pc = "listed"
  /\ IncrementPending(p, Selected(p), req[p].generation)
  /\ Answer(p, Selected(p))
  /\ UNCHANGED <<pods, view, workload>>

-----------------------------------------------------------------------------
(* The path without Observer: six steps where the other has two.           *)

\* getWorkloadGeneration, then CheckStaleness.
CheckStaleness(p) ==
  /\ ~Observer
  /\ req[p].pc = "configured"
  /\ req' = [req EXCEPT ![p] =
               [@ EXCEPT !.pc = IF AdmissionTracker
                                   /\ IsStale(workload.generation)
                                THEN "stale" ELSE "checked",
                         !.generation = workload.generation,
                         !.replicas = workload.replicas]]
  /\ UNCHANGED <<pods, view, workload, pending, reserved>>

ResetStale(p) ==
  /\ req[p].pc = "stale"
  /\ ResetPending(req[p].generation)
  /\ req' = [req EXCEPT ![p].pc = "checked"]
  /\ UNCHANGED <<pods, view, workload>>

\* countCurrentPodsWithRV: stored Pods by what their selector says, where a
\* Pod without a selector counts as on-demand and a terminating one counts.
CountCurrentPods(p) ==
  LET stored == { q \in Pods : view[q].phase # "none" }
      onSpot == { q \in stored : view[q].selector = "spot" }
  IN  /\ req[p].pc = "checked"
      /\ req' = [req EXCEPT ![p] = [@ EXCEPT !.pc = "counted",
                                             !.spot = onSpot,
                                             !.onDemand = stored \ onSpot]]
      /\ UNCHANGED <<pods, view, workload, pending, reserved>>

RecordPodList(p) ==
  /\ req[p].pc = "counted"
  /\ IF AdmissionTracker
     THEN UpdatePodListMetadata(req[p].generation)
     ELSE UNCHANGED pending
  /\ req' = [req EXCEPT ![p].pc = "recorded"]
  /\ UNCHANGED <<pods, view, workload, reserved>>

\* GetPendingCounts and the floor-first choice; nothing is reserved yet.
ChooseFromCounts(p) ==
  /\ req[p].pc = "recorded"
  /\ req' = [req EXCEPT ![p] = [@ EXCEPT !.pc = "chosen", !.choice =
               IF AdmissionTracker
               THEN Selected(p)
               ELSE Choose(Cardinality(req[p].spot),
                           Cardinality(req[p].onDemand), Target(p))]]
  /\ UNCHANGED <<pods, view, workload, pending, reserved>>

ReserveChoice(p) ==
  /\ req[p].pc = "chosen"
  /\ IF AdmissionTracker
     THEN IncrementPending(p, req[p].choice, req[p].generation)
     ELSE UNCHANGED <<pending, reserved>>
  /\ Answer(p, req[p].choice)
  /\ UNCHANGED <<pods, view, workload>>

-----------------------------------------------------------------------------
(* What becomes of the answer, and the passage of time.                    *)

\* The API server stores the Pod with the patch applied.
Persist(p) ==
  /\ req[p].pc = "answered"
  /\ pods[p].phase = "request"
  /\ pods' = [pods EXCEPT ![p] = [@ EXCEPT !.phase = "pending",
                                           !.selector = req[p].choice]]
  /\ req' = [req EXCEPT ![p] = [Idle EXCEPT !.age = req[p].age]]
  /\ UNCHANGED <<view, workload, pending, reserved>>

\* The Pod is refused after the webhook answered (a quota, another webhook,
\* a lost connection).  Nothing gives the reservation back.
Drop(p) ==
  /\ "drop" \in Faults
  /\ req[p].pc = "answered"
  /\ pods[p].phase = "request"
  /\ pods' = [pods EXCEPT ![p] = NoPod]
  /\ req' = [req EXCEPT ![p] = Idle]
  /\ UNCHANGED <<view, workload, pending, reserved>>

\* failurePolicy Ignore: a request that has used up its time is admitted
\* unmodified, while the handler's goroutine goes on.
Timeout(p) ==
  /\ "timeout" \in Faults
  /\ req[p].pc \in InHandler
  /\ req[p].age = RequestTimeout
  /\ pods[p].phase = "request"
  /\ pods' = [pods EXCEPT ![p].phase = "pending"]
  /\ UNCHANGED <<view, workload, pending, req, reserved>>

\* The late answer of such a request is thrown away.
DiscardAnswer(p) ==
  /\ req[p].pc = "answered"
  /\ pods[p].phase # "request"
  /\ req' = [req EXCEPT ![p] = Idle]
  /\ UNCHANGED <<pods, view, workload, pending, reserved>>

\* The process restarts: the tracker is empty, requests being handled fail
\* and, failurePolicy being Ignore, their Pods are admitted unmodified.
Restart ==
  /\ "restart" \in Faults
  /\ EntryExists \/ InFlight # {}
  /\ pending' = NoEntry
  /\ reserved' = NoReservation
  /\ pods' = [p \in Pods |->
                IF p \in InFlight /\ pods[p].phase = "request"
                THEN [pods[p] EXCEPT !.phase = "pending"] ELSE pods[p]]
  /\ req' = [p \in Pods |-> IF p \in InFlight THEN Idle ELSE req[p]]
  /\ UNCHANGED <<view, workload>>

\* A decision the cache does not show as a Pod on a node yet.
Unobserved(p) ==
  \/ req[p].pc = "answered"
  \/ /\ pods[p].phase \in {"pending", "bound", "ready"}
     /\ view[p].phase \notin {"bound", "ready"}

Older(age, limit) == IF age <= limit THEN age + 1 ELSE age

\* Time passes, but no request outlives the API server's timeout and no
\* admitted Pod stays unobserved for longer than VisibleWithin.
Tick ==
  /\ \A p \in Pods :
       /\ p \in InFlight => req[p].age < RequestTimeout
       /\ Unobserved(p) => req[p].age < VisibleWithin
  /\ req' = [p \in Pods |->
               IF p \in InFlight \/ Unobserved(p)
               THEN [req[p] EXCEPT !.age = @ + 1, !.snapshotAge =
                       IF req[p].pc = "observed"
                       THEN Older(@, PodListMaxAge) ELSE @]
               ELSE [req[p] EXCEPT !.age = 0]]
  /\ pending' = IF EntryExists
                THEN [pending EXCEPT
                        !.lastUpdated = Older(@, TTL),
                        !.podListTime = IF @ = NeverListed THEN @
                                        ELSE Older(@, PodListMaxAge)]
                ELSE pending
  /\ UNCHANGED <<pods, view, workload, reserved>>

-----------------------------------------------------------------------------
HandlerStep(p) ==
  \/ GetWorkloadConfig(p)
  \/ Observe(p)
  \/ FallBackToOnDemand(p)
  \/ UseSnapshot(p)
  \/ SelectAndReserve(p)
  \/ CheckStaleness(p)
  \/ ResetStale(p)
  \/ CountCurrentPods(p)
  \/ RecordPodList(p)
  \/ ChooseFromCounts(p)
  \/ ReserveChoice(p)

AnswerStep(p) ==
  \/ Persist(p)
  \/ Drop(p)
  \/ Timeout(p)
  \/ DiscardAnswer(p)

Next ==
  \/ \E p \in Pods : Arrive(p) \/ HandlerStep(p) \/ AnswerStep(p)
  \/ Cleanup
  \/ Restart
  \/ Tick
  \/ ClusterStep /\ UNCHANGED admissionVars

Spec == Init /\ [][Next]_vars

\* The handler's goroutines, the API server's write of an answered Pod, the
\* scheduler, the informer, the cleanup ticker and time keep going; nothing
\* makes Pods arrive or disturbances happen.
Fairness ==
  /\ \A p \in Pods : /\ WF_vars(HandlerStep(p))
                     /\ WF_vars(Persist(p) \/ Drop(p) \/ DiscardAnswer(p))
                     /\ WF_vars(\E c \in CapacityTypes :
                                  Bind(p, c) /\ UNCHANGED admissionVars)
                     /\ WF_vars(Sync(p) /\ UNCHANGED admissionVars)
  /\ WF_vars(Cleanup)
  /\ WF_vars(Tick)

FairSpec == Spec /\ Fairness

-----------------------------------------------------------------------------
(* Properties.                                                             *)

ReservedPods(capacity) == { p \in Pods : reserved[p] = capacity }

\* Every Pod that was given a reservation of the live entry is still paid for
\* by that entry's counters, whatever resets, expiries, rollouts and restarts
\* came in between (IncrementPending, ResetPending, cleanup).
ReservationsCounted ==
  /\ Cardinality(ReservedPods("spot")) <= pending.pendingSpot
  /\ Cardinality(ReservedPods("onDemand")) <= pending.pendingOnDemand

\* p's request is answered in this step with a reserved spot placement.
SpotReserved(p) ==
  /\ req[p].pc \in {"listed", "chosen"}
  /\ req'[p].pc = "answered"
  /\ req'[p].choice = "spot"

\* Rule 2 of the admission contract: a placement on spot never takes the Pods
\* the handler saw on spot, together with the Pods it holds spot reservations
\* for, over the target of the workload it read.  (SelectAndReserve)
SpotContract ==
  [][ \A p \in Pods : SpotReserved(p) =>
        Cardinality(req[p].spot \cup ReservedPods("spot")')
          <= Target(p).targetSpot ]_vars

\* Pods the webhook has placed on spot, from the decision until they terminate.
PlacedOnSpot ==
  { p \in Pods : \/ /\ req[p].pc = "answered"
                    /\ req[p].choice = "spot"
                    /\ pods[p].phase = "request"
                 \/ /\ pods[p].selector = "spot"
                    /\ pods[p].phase \in {"pending", "bound", "ready"} }

\* Concurrent, delayed and lost admissions never put more Pods on spot than
\* the target: the race the tracker exists to prevent.  Stated for a workload
\* whose spec and policy do not change.
SpotWithinTarget ==
  Cardinality(PlacedOnSpot)
    <= AllocateReplicaDistribution(workload.replicas, workload.policy).targetSpot

\* Reservations of Pods that never came to be do not stay: whenever admissions
\* pause for long enough, the entry is removed.  (cleanupLoop)
ReservationsExpire == []<>(~EntryExists \/ InFlight # {})
=============================================================================
