-------------------------- MODULE Admission_proofs --------------------------
(***************************************************************************)
(* Proofs about the admission webhook, for every set of Pods, every        *)
(* policy, every wiring and every combination of disturbances.             *)
(***************************************************************************)
EXTENDS Admission, TLAPS, FiniteSetTheorems

\* The targets computed from values a request can hold are integers, and that
\* for spot is not negative.
\* (AllocateReplicaDistribution)
LEMMA TargetType ==
  ASSUME NEW total \in Nat, NEW policy \in Policy
  PROVE  /\ AllocateReplicaDistribution(total, policy).targetSpot \in Nat
         /\ AllocateReplicaDistribution(total, policy).targetOnDemand \in Int
  <1>1. policy.minOnDemand \in Nat /\ policy.spotPercentage \in Nat
    BY DEF Policy
  <1>2. (total * policy.spotPercentage) \div 100 \in Nat
    <2> DEFINE n == total * policy.spotPercentage
    <2>1. n \in Nat
      BY <1>1
    <2> HIDE DEF n
    <2>2. n \div 100 \in Nat
      BY <2>1
    <2>3. QED
      BY <2>2 DEF n
  <1>3. QED
    BY <1>1, <1>2 DEF AllocateReplicaDistribution, minInt32

\* Sets of Pods are finite, and their sizes are integers.
LEMMA PodSets ==
  ASSUME NEW S \in SUBSET Pods
  PROVE  IsFiniteSet(S) /\ Cardinality(S) \in Nat
  BY WorkloadAssumption, FS_Subset, FS_CardinalityType

\* The constants of the requests and entries that start from nothing.
LEMMA InitialValues ==
  /\ Idle \in Request
  /\ Idle.pc = "idle"
  /\ NoEntry \in PendingAdmission
  /\ NoReservation \in [Pods -> Capacity]
  /\ NoPod \in PodObject
  /\ \A g \in Nat : NewEntry(g) \in PendingAdmission
  <1>1. AnyPolicy \in Policies
    BY WorkloadAssumption DEF AnyPolicy
  <1>2. Idle \in Request /\ Idle.pc = "idle"
    BY <1>1 DEF Idle, Request, PCs, Capacity, CapacityTypes
  <1>3. \A g \in Nat : NewEntry(g) \in PendingAdmission
    BY AdmissionAssumption DEF NewEntry, PendingAdmission, NeverListed
  <1>4. NoEntry \in PendingAdmission
    BY <1>3 DEF NoEntry
  <1>5. NoReservation \in [Pods -> Capacity] /\ NoPod \in PodObject
    BY DEF NoReservation, NoPod, PodObject, Phases, Capacity, CapacityTypes
  <1>6. QED
    BY <1>2, <1>3, <1>4, <1>5

\* Ages of zero are ages, and an entry stays one when its ages are replaced.
LEMMA EntryAges ==
  /\ 0 \in NeverListed .. PodListMaxAge + 1
  /\ 0 \in 0 .. TTL + 1
  /\ \A e \in PendingAdmission, x \in NeverListed .. PodListMaxAge + 1,
        y \in 0 .. TTL + 1 :
       [e EXCEPT !.podListTime = x, !.lastUpdated = y] \in PendingAdmission
  <1>1. 0 \in NeverListed .. PodListMaxAge + 1 /\ 0 \in 0 .. TTL + 1
    BY AdmissionAssumption DEF NeverListed
  <1>2. QED
    BY <1>1 DEF PendingAdmission

\* A request stays a request when GetWorkloadConfig stores the policy.
LEMMA Configured ==
  ASSUME NEW r \in Request, NEW pc \in PCs, NEW pol \in Policies
  PROVE  [r EXCEPT !.pc = pc, !.policy = pol] \in Request
  BY DEF Request

\* A request stays a request when Observe stores the snapshot.
LEMMA Observed ==
  ASSUME NEW r \in Request, NEW pc \in PCs, NEW g \in Nat, NEW n \in Nat,
         NEW s \in SUBSET Pods, NEW o \in SUBSET Pods
  PROVE  [r EXCEPT !.pc = pc, !.generation = g, !.replicas = n,
                   !.spot = s, !.onDemand = o, !.snapshotAge = 0] \in Request
  BY DEF Request

\* A request stays a request when CheckStaleness stores what it read.
LEMMA Checked ==
  ASSUME NEW r \in Request, NEW pc \in PCs, NEW g \in Nat, NEW n \in Nat
  PROVE  [r EXCEPT !.pc = pc, !.generation = g, !.replicas = n] \in Request
  BY DEF Request

\* A request stays a request when CountCurrentPods stores the two counts.
LEMMA Counted ==
  ASSUME NEW r \in Request, NEW pc \in PCs,
         NEW s \in SUBSET Pods, NEW o \in SUBSET Pods
  PROVE  [r EXCEPT !.pc = pc, !.spot = s, !.onDemand = o] \in Request
  BY DEF Request

\* A request stays a request when ChooseFromCounts stores the choice.
LEMMA Chosen ==
  ASSUME NEW r \in Request, NEW pc \in PCs, NEW c \in Capacity
  PROVE  [r EXCEPT !.pc = pc, !.choice = c] \in Request
  BY DEF Request

\* A request stays a request as time passes.
LEMMA Aged ==
  ASSUME NEW r \in Request, NEW n \in Nat, NEW m \in Nat
  PROVE  /\ [r EXCEPT !.age = n] \in Request
         /\ [r EXCEPT !.age = n, !.snapshotAge = m] \in Request
  BY DEF Request

\* An entry stays an entry when IncrementPending counts a reservation.
LEMMA Incremented ==
  ASSUME NEW e \in PendingAdmission
  PROVE  /\ [e EXCEPT !.pendingSpot = @ + 1, !.lastUpdated = 0]
                \in PendingAdmission
         /\ [e EXCEPT !.pendingOnDemand = @ + 1, !.lastUpdated = 0]
                \in PendingAdmission
  <1>1. e.pendingSpot + 1 \in Nat /\ e.pendingOnDemand + 1 \in Nat
    BY DEF PendingAdmission
  <1>2. ASSUME NEW n \in Nat, NEW y \in 0 .. TTL + 1
        PROVE  /\ [e EXCEPT !.pendingSpot = n, !.lastUpdated = y]
                     \in PendingAdmission
               /\ [e EXCEPT !.pendingOnDemand = n, !.lastUpdated = y]
                     \in PendingAdmission
    BY DEF PendingAdmission
  <1>3. QED
    BY <1>1, <1>2, EntryAges

\* The initial state has the declared types.
LEMMA TypeInit == Init => TypeOK
  BY InitialValues, WorkloadAssumption
     DEF Init, TypeOK, ClusterInit, ClusterTypeOK, WorkloadObject

\* Every step keeps the types, whichever wiring is chosen.
LEMMA TypeStep == TypeOK /\ [Next]_vars => TypeOK'
  <1> SUFFICES ASSUME TypeOK, [Next]_vars PROVE TypeOK'
    OBVIOUS
  <1>t. /\ pods \in [Pods -> PodObject]
        /\ view \in [Pods -> PodObject]
        /\ workload \in WorkloadObject
        /\ pending \in PendingAdmission
        /\ req \in [Pods -> Request]
        /\ reserved \in [Pods -> Capacity]
    BY DEF TypeOK, ClusterTypeOK
  <1>w. /\ workload.generation \in Nat /\ workload.replicas \in Nat
        /\ workload.policy \in Policies
    <2>1. /\ workload.generation \in 1 .. MaxGeneration
          /\ workload.replicas \in ReplicaCounts
          /\ workload.policy \in Policies
      BY <1>t DEF WorkloadObject
    <2>2. workload.generation \in Nat
      BY <2>1, WorkloadAssumption
    <2>3. workload.replicas \in Nat
      BY <2>1, WorkloadAssumption
    <2>4. QED
      BY <2>1, <2>2, <2>3
  <1>r. ASSUME NEW p \in Pods
        PROVE  /\ req[p] \in Request
               /\ req[p].generation \in Nat
               /\ req[p].choice \in Capacity
               /\ req[p].age \in Nat
    BY <1>t DEF Request
  \* What a step has to establish: the types of the variables it changes.
  <1>k. ASSUME UNCHANGED <<pods, view, workload>>,
               pending' \in PendingAdmission, req' \in [Pods -> Request],
               reserved' \in [Pods -> Capacity]
        PROVE  TypeOK'
    BY <1>k, <1>t DEF TypeOK, ClusterTypeOK
  <1>l. ASSUME UNCHANGED <<view, workload, pending, reserved>>,
               pods' \in [Pods -> PodObject], req' \in [Pods -> Request]
        PROVE  TypeOK'
    BY <1>l, <1>t DEF TypeOK, ClusterTypeOK
  <1>3. ASSUME NEW p \in Pods, Arrive(p) PROVE TypeOK'
    <2>1. pods' \in [Pods -> PodObject]
      BY <1>t, <1>3 DEF Arrive, PodObject, Phases
    <2>2. req' \in [Pods -> Request]
      BY <1>t, <1>3, InitialValues DEF Arrive, Request, PCs
    <2>3. QED
      BY <1>l, <1>3, <2>1, <2>2 DEF Arrive
  <1>4. ASSUME NEW p \in Pods, NEW c \in Capacity, Answer(p, c)
        PROVE  req' \in [Pods -> Request]
    BY <1>t, <1>4, InitialValues DEF Answer, Request, PCs
  <1>5. ASSUME NEW p \in Pods, GetWorkloadConfig(p) PROVE TypeOK'
    <2>1. CASE req' = [req EXCEPT ![p] =
                         [@ EXCEPT !.pc = "configured",
                                   !.policy = workload.policy]]
      <3>1. [req[p] EXCEPT !.pc = "configured", !.policy = workload.policy]
              \in Request
        BY <1>r, <1>w, Configured DEF PCs
      <3>2. req' \in [Pods -> Request]
        BY <1>t, <2>1, <3>1
      <3>3. QED
        BY <1>k, <1>t, <1>5, <3>2 DEF GetWorkloadConfig
    <2>2. CASE Answer(p, "none")
      BY <1>k, <1>t, <1>4, <1>5, <2>2 DEF GetWorkloadConfig, Capacity
    <2>3. QED
      BY <1>5, <2>1, <2>2 DEF GetWorkloadConfig
  <1>6. ASSUME NEW p \in Pods, Observe(p) PROVE TypeOK'
    <2>1. \A c, u : ActualPods(c, u) \in SUBSET Pods
      BY DEF ActualPods
    <2>2. PICK u \in UnknownChoices :
            req' = [req EXCEPT ![p] =
                      [@ EXCEPT !.pc = "observed",
                                !.generation = workload.generation,
                                !.replicas = workload.replicas,
                                !.spot = ActualPods("spot", u),
                                !.onDemand = ActualPods("onDemand", u),
                                !.snapshotAge = 0]]
      BY <1>6 DEF Observe
    <2>3. [req[p] EXCEPT !.pc = "observed",
                         !.generation = workload.generation,
                         !.replicas = workload.replicas,
                         !.spot = ActualPods("spot", u),
                         !.onDemand = ActualPods("onDemand", u),
                         !.snapshotAge = 0] \in Request
      BY <1>r, <1>w, <2>1, Observed DEF PCs
    <2>4. req' \in [Pods -> Request]
      BY <1>t, <2>2, <2>3
    <2>5. QED
      BY <1>k, <1>t, <1>6, <2>4 DEF Observe
  <1>7. ASSUME NEW p \in Pods, FallBackToOnDemand(p) PROVE TypeOK'
    BY <1>k, <1>t, <1>4, <1>7 DEF FallBackToOnDemand, Capacity, CapacityTypes
  <1>8. \A s, o, t : Choose(s, o, t) \in Capacity
    BY DEF Choose, Capacity, CapacityTypes
  <1>9. ASSUME NEW g \in Nat, UpdatePodListMetadata(g)
        PROVE  pending' \in PendingAdmission
    <2>1. PICK e \in PendingAdmission :
            pending' = [e EXCEPT !.podListTime = 0, !.lastUpdated = 0]
      BY <1>t, <1>9, InitialValues DEF UpdatePodListMetadata
    <2>2. QED
      BY <2>1, EntryAges
  <1>10. ASSUME NEW p \in Pods, UseSnapshot(p) PROVE TypeOK'
    <2>1. pending' \in PendingAdmission
      BY <1>t, <1>r, <1>9, <1>10 DEF UseSnapshot
    <2>2. "onDemand" \in Capacity
      BY DEF Capacity, CapacityTypes
    <2>3. ASSUME req' = [req EXCEPT ![p].pc = "listed"]
          PROVE  req' \in [Pods -> Request]
      <3>1. [req[p] EXCEPT !.pc = "listed"] \in Request
        BY <1>r DEF Request, PCs
      <3>2. QED
        BY <1>t, <2>3, <3>1
    <2>4. req' \in [Pods -> Request]
      BY <1>4, <1>8, <1>10, <2>2, <2>3 DEF UseSnapshot
    <2>5. QED
      BY <1>k, <1>t, <1>10, <2>1, <2>4 DEF UseSnapshot
  <1>11. ASSUME NEW p \in Pods, NEW c \in Capacity, NEW g \in Nat,
                IncrementPending(p, c, g)
         PROVE  pending' \in PendingAdmission /\ reserved' \in [Pods -> Capacity]
    <2>1. PICK e \in PendingAdmission :
            \/ pending' = [e EXCEPT !.pendingSpot = @ + 1, !.lastUpdated = 0]
            \/ pending' = [e EXCEPT !.pendingOnDemand = @ + 1, !.lastUpdated = 0]
      BY <1>t, <1>11, InitialValues DEF IncrementPending, EntryFor
    <2>2. pending' \in PendingAdmission
      BY <2>1, Incremented
    <2>3. ReservationsFor(g) \in [Pods -> Capacity]
      BY <1>t, InitialValues DEF ReservationsFor
    <2>4. QED
      BY <1>11, <2>2, <2>3 DEF IncrementPending
  <1>12. ASSUME NEW p \in Pods, SelectAndReserve(p) PROVE TypeOK'
    <2>1. Selected(p) \in Capacity
      BY <1>8 DEF Selected
    <2>2. QED
      BY <1>k, <1>r, <1>4, <1>11, <1>12, <2>1 DEF SelectAndReserve
  <1>13. ASSUME NEW p \in Pods, CheckStaleness(p) PROVE TypeOK'
    <2>1. PICK pc \in PCs :
            req' = [req EXCEPT ![p] =
                      [@ EXCEPT !.pc = pc,
                                !.generation = workload.generation,
                                !.replicas = workload.replicas]]
      BY <1>13 DEF CheckStaleness, PCs
    <2>2. [req[p] EXCEPT !.pc = pc, !.generation = workload.generation,
                         !.replicas = workload.replicas] \in Request
      BY <1>r, <1>w, Checked
    <2>. req' \in [Pods -> Request]
      BY <1>t, <2>1, <2>2
    <2>3. QED
      BY <1>k, <1>t, <1>13, <2>2 DEF CheckStaleness
  <1>14. ASSUME NEW p \in Pods, ResetStale(p) PROVE TypeOK'
    <2>1. PICK e \in PendingAdmission : pending' = [e EXCEPT !.podListTime = 0]
      BY <1>r, <1>14, InitialValues DEF ResetStale, ResetPending
    <2>2. pending' \in PendingAdmission
      BY <2>1, EntryAges DEF PendingAdmission
    <2>3. req' \in [Pods -> Request]
      <3>1. [req[p] EXCEPT !.pc = "checked"] \in Request
        BY <1>r DEF Request, PCs
      <3>2. QED
        BY <1>t, <1>14, <3>1 DEF ResetStale
    <2>4. QED
      BY <1>k, <1>14, <2>2, <2>3, InitialValues DEF ResetStale, ResetPending
  <1>15. ASSUME NEW p \in Pods, CountCurrentPods(p) PROVE TypeOK'
    <2>1. PICK s \in SUBSET Pods, o \in SUBSET Pods :
            req' = [req EXCEPT ![p] =
                      [@ EXCEPT !.pc = "counted", !.spot = s, !.onDemand = o]]
      BY <1>15 DEF CountCurrentPods
    <2>2. req' \in [Pods -> Request]
      <3>1. [req[p] EXCEPT !.pc = "counted", !.spot = s, !.onDemand = o]
              \in Request
        BY <1>r, Counted DEF PCs
      <3>2. QED
        BY <1>t, <2>1, <3>1
    <2>3. QED
      BY <1>k, <1>t, <1>15, <2>2 DEF CountCurrentPods
  <1>16. ASSUME NEW p \in Pods, RecordPodList(p) PROVE TypeOK'
    <2>1. req' \in [Pods -> Request]
      <3>1. [req[p] EXCEPT !.pc = "recorded"] \in Request
        BY <1>r DEF Request, PCs
      <3>2. QED
        BY <1>t, <1>16, <3>1 DEF RecordPodList
    <2>2. QED
      BY <1>k, <1>t, <1>r, <1>9, <1>16, <2>1 DEF RecordPodList
  <1>17. ASSUME NEW p \in Pods, ChooseFromCounts(p) PROVE TypeOK'
    <2>1. PICK c \in Capacity :
            req' = [req EXCEPT ![p] = [@ EXCEPT !.pc = "chosen", !.choice = c]]
      BY <1>8, <1>17 DEF ChooseFromCounts, Selected
    <2>2. req' \in [Pods -> Request]
      <3>1. [req[p] EXCEPT !.pc = "chosen", !.choice = c] \in Request
        BY <1>r, Chosen DEF PCs
      <3>2. QED
        BY <1>t, <2>1, <3>1
    <2>3. QED
      BY <1>k, <1>t, <1>17, <2>2 DEF ChooseFromCounts
  <1>18. ASSUME NEW p \in Pods, ReserveChoice(p) PROVE TypeOK'
    BY <1>k, <1>t, <1>r, <1>4, <1>11, <1>18 DEF ReserveChoice
  <1>19. ASSUME NEW p \in Pods, AnswerStep(p) PROVE TypeOK'
    <2>1. CASE Persist(p)
      <3>1. pods' \in [Pods -> PodObject]
        BY <1>t, <1>r, <2>1 DEF Persist, PodObject, Phases
      <3>2. req' \in [Pods -> Request]
        BY <1>t, <1>r, <2>1, InitialValues DEF Persist, Request
      <3>3. QED
        BY <1>l, <2>1, <3>1, <3>2 DEF Persist
    <2>2. CASE Drop(p)
      BY <1>l, <1>t, <2>2, InitialValues DEF Drop
    <2>3. CASE Timeout(p)
      <3>1. pods' \in [Pods -> PodObject]
        BY <1>t, <2>3 DEF Timeout, PodObject, Phases
      <3>2. QED
        BY <1>l, <1>t, <2>3, <3>1 DEF Timeout
    <2>4. CASE DiscardAnswer(p)
      BY <1>l, <1>t, <2>4, InitialValues DEF DiscardAnswer
    <2>5. QED
      BY <1>19, <2>1, <2>2, <2>3, <2>4 DEF AnswerStep
  <1>20. CASE Cleanup
    BY <1>k, <1>t, <1>20, InitialValues DEF Cleanup
  <1>21. CASE Restart
    <2>1. pods' \in [Pods -> PodObject]
      BY <1>t, <1>21 DEF Restart, PodObject, Phases
    <2>2. req' \in [Pods -> Request]
      BY <1>t, <1>21, InitialValues DEF Restart
    <2>3. QED
      BY <1>t, <1>21, <2>1, <2>2, InitialValues
         DEF Restart, TypeOK, ClusterTypeOK
  <1>22. CASE Tick
    <2>1. pending' \in PendingAdmission
      <3>1. /\ pending.lastUpdated \in 0 .. TTL + 1
            /\ pending.podListTime \in NeverListed .. PodListMaxAge + 1
        BY <1>t DEF PendingAdmission
      <3> DEFINE y == Older(pending.lastUpdated, TTL)
                 x == IF pending.podListTime = NeverListed
                      THEN pending.podListTime
                      ELSE Older(pending.podListTime, PodListMaxAge)
      <3>2. y \in 0 .. TTL + 1
        BY <3>1, AdmissionAssumption DEF Older
      <3>3. x \in NeverListed .. PodListMaxAge + 1
        BY <3>1, AdmissionAssumption DEF Older, NeverListed
      <3>4. pending' \in {pending, [pending EXCEPT !.podListTime = x,
                                                  !.lastUpdated = y]}
        BY <1>t, <1>22 DEF Tick, PendingAdmission
      <3> HIDE DEF x, y
      <3>5. [pending EXCEPT !.podListTime = x, !.lastUpdated = y]
              \in PendingAdmission
        BY <1>t, <3>2, <3>3, EntryAges
      <3>6. QED
        BY <1>t, <3>4, <3>5
    <2>2. ASSUME NEW n \in Nat PROVE Older(n, PodListMaxAge) \in Nat
      BY AdmissionAssumption DEF Older
    <2>3. req' \in [Pods -> Request]
      <3>1. ASSUME NEW p \in Pods, NEW n \in Nat, NEW m \in Nat
            PROVE  /\ [req[p] EXCEPT !.age = n] \in Request
                   /\ [req[p] EXCEPT !.age = n, !.snapshotAge = m] \in Request
        BY <1>r, Aged
      <3>2. ASSUME NEW p \in Pods
            PROVE  /\ req[p].age + 1 \in Nat
                   /\ req[p].snapshotAge \in Nat
        BY <1>r DEF Request
      <3>3. QED
        BY <1>22, <2>2, <3>1, <3>2 DEF Tick
    <2>4. QED
      BY <1>k, <1>t, <1>22, <2>1, <2>3 DEF Tick
  <1>23. CASE ClusterStep /\ UNCHANGED admissionVars
    <2>1. ASSUME NEW p \in Pods, NEW c \in CapacityTypes, Bind(p, c)
          PROVE  ClusterTypeOK'
      BY <1>t, <2>1 DEF Bind, PodObject, Phases, Capacity, ClusterTypeOK
    <2>2. ASSUME NEW p \in Pods, Terminate(p) \/ Gone(p) \/ Sync(p)
          PROVE  ClusterTypeOK'
      <3>1. CASE Terminate(p)
        BY <1>t, <3>1 DEF Terminate, PodObject, Phases, ClusterTypeOK
      <3>2. CASE Gone(p)
        BY <1>t, <3>2, InitialValues DEF Gone, ClusterTypeOK
      <3>3. CASE Sync(p)
        BY <1>t, <3>3 DEF Sync, ClusterTypeOK
      <3>4. QED
        BY <2>2, <3>1, <3>2, <3>3
    <2>3. ASSUME Rollout PROVE ClusterTypeOK'
      <3>1. PICK n \in ReplicaCounts :
              workload' = [workload EXCEPT !.generation = @ + 1, !.replicas = n]
        BY <2>3 DEF Rollout
      <3>2. workload' \in WorkloadObject
        <4>1. /\ workload.generation + 1 \in 1 .. MaxGeneration
          <5>1. /\ workload.generation \in 1 .. MaxGeneration
                /\ workload.generation < MaxGeneration
            BY <1>t, <2>3 DEF Rollout, WorkloadObject
          <5>2. QED
            BY <5>1, WorkloadAssumption
        <4>2. QED
          BY <1>t, <3>1, <4>1 DEF WorkloadObject
      <3>3. QED
        BY <1>t, <2>3, <3>2 DEF Rollout, ClusterTypeOK
    <2>4. ASSUME EditAnnotations PROVE ClusterTypeOK'
      <3>1. workload' \in WorkloadObject
        BY <1>t, <2>4 DEF EditAnnotations, WorkloadObject
      <3>2. QED
        BY <1>t, <2>4, <3>1 DEF EditAnnotations, ClusterTypeOK
    <2>5. ClusterTypeOK'
      BY <1>23, <2>1, <2>2, <2>3, <2>4 DEF ClusterStep
    <2>6. QED
      BY <1>t, <1>23, <2>5 DEF admissionVars, TypeOK
  <1>24. CASE UNCHANGED vars
    BY <1>t, <1>24 DEF vars, TypeOK, ClusterTypeOK
  <1>25. QED
    BY <1>3, <1>5, <1>6, <1>7, <1>10, <1>12, <1>13, <1>14, <1>15, <1>16,
       <1>17, <1>18, <1>19, <1>20, <1>21, <1>22, <1>23, <1>24
       DEF Next, HandlerStep

\* The variables keep their types under every wiring and every disturbance.
THEOREM TypeCorrect == Spec => []TypeOK
  BY TypeInit, TypeStep, PTL DEF Spec

-----------------------------------------------------------------------------
(* The reservations.  ReservationsCounted is not inductive alone: a missing *)
(* entry must stand for no reservation, for UpdatePodListMetadata creates  *)
(* one with both counters at zero, and a request that reserves must have   *)
(* read a real generation, or it would reserve in the missing entry.       *)

\* Steps that follow the reading of the workload's generation.
HasGeneration ==
  {"observed", "listed", "stale", "checked", "counted", "recorded", "chosen"}
OlderPath == {"stale", "checked", "counted", "recorded", "chosen"}

RequestOK(r) ==
  /\ r.pc \in HasGeneration => r.generation # 0
  /\ r.pc = "chosen" => r.choice \in CapacityTypes
  /\ Observer => r.pc \notin OlderPath

ReservationInv ==
  /\ TypeOK
  /\ ReservationsCounted
  /\ pending.generation = 0 => reserved = NoReservation
  /\ \A p \in Pods : RequestOK(req[p])

Holders(f, c) == { q \in Pods : f[q] = c }

\* A set grows by at most one when one element is added.
LEMMA OneMore ==
  ASSUME NEW S, IsFiniteSet(S), NEW x
  PROVE  Cardinality(S \cup {x}) <= Cardinality(S) + 1
  <1>1. Cardinality(S) \in Nat
    BY FS_CardinalityType
  <1>2. CASE x \in S
    <2>1. S \cup {x} = S
      BY <1>2
    <2>2. QED
      BY <1>1, <2>1
  <1>3. CASE x \notin S
    <2>1. Cardinality(S \cup {x}) = Cardinality(S) + 1
      BY <1>3, FS_AddElement
    <2>2. QED
      BY <1>1, <2>1
  <1>4. QED
    BY <1>2, <1>3

\* Two sets together are no larger than one after the other.
LEMMA SumOfTwo ==
  ASSUME NEW S, IsFiniteSet(S), NEW T, IsFiniteSet(T)
  PROVE  Cardinality(S \cup T) <= Cardinality(S) + Cardinality(T)
  <1>1. /\ Cardinality(S) \in Nat /\ Cardinality(T) \in Nat
        /\ Cardinality(S \cap T) \in Nat
    BY FS_CardinalityType, FS_Intersection
  <1>2. Cardinality(S \cup T)
          = Cardinality(S) + Cardinality(T) - Cardinality(S \cap T)
    BY FS_Union
  <1>3. QED
    BY <1>1, <1>2

\* Changing one Pod's reservation adds at most that Pod to one of the sets.
LEMMA OneReservation ==
  ASSUME NEW f \in [Pods -> Capacity], NEW p \in Pods, NEW c \in Capacity,
         NEW d \in Capacity, NEW g, g = [f EXCEPT ![p] = c]
  PROVE  /\ IsFiniteSet(Holders(f, d)) /\ Cardinality(Holders(f, d)) \in Nat
         /\ IsFiniteSet(Holders(g, d)) /\ Cardinality(Holders(g, d)) \in Nat
         /\ Cardinality(Holders(g, d)) <= Cardinality(Holders(f, d)) + 1
         /\ c # d => Cardinality(Holders(g, d)) <= Cardinality(Holders(f, d))
         /\ c = d => Holders(g, d) = Holders(f, d) \cup {p}
  <1>1. /\ IsFiniteSet(Holders(f, d)) /\ Cardinality(Holders(f, d)) \in Nat
        /\ IsFiniteSet(Holders(g, d)) /\ Cardinality(Holders(g, d)) \in Nat
    BY PodSets DEF Holders
  <1>2. c = d => Holders(g, d) = Holders(f, d) \cup {p}
    BY DEF Holders
  <1>3. c # d => Holders(g, d) \subseteq Holders(f, d)
    BY DEF Holders
  <1>4. c # d => Cardinality(Holders(g, d)) <= Cardinality(Holders(f, d))
    BY <1>1, <1>3, FS_Subset
  <1>5. Cardinality(Holders(f, d) \cup {p}) <= Cardinality(Holders(f, d)) + 1
    BY <1>1, OneMore
  <1>6. Cardinality(Holders(g, d)) <= Cardinality(Holders(f, d)) + 1
    <2>1. CASE c = d
      BY <1>2, <1>5, <2>1
    <2>2. CASE c # d
      BY <1>1, <1>4, <2>2
    <2>3. QED
      BY <2>1, <2>2
  <1>7. QED
    BY <1>1, <1>2, <1>4, <1>6

\* No reservation, nothing to count.
LEMMA NothingReserved ==
  \A c \in CapacityTypes : Cardinality(Holders(NoReservation, c)) = 0
  <1>1. ASSUME NEW c \in CapacityTypes
        PROVE  Holders(NoReservation, c) = {}
    BY DEF NoReservation, CapacityTypes, Holders
  <1>2. QED
    BY <1>1, FS_EmptySet

\* The requests' part of the invariant: every step of the handler takes the
\* requests along one path, and reads the generation before it reserves.
LEMMA RequestStep ==
  ASSUME TypeOK, \A p \in Pods : RequestOK(req[p]), [Next]_vars
  PROVE  \A p \in Pods : RequestOK(req'[p])
  <1> USE DEF RequestOK, HasGeneration, OlderPath
  <1>t. /\ req \in [Pods -> Request]
        /\ workload.generation # 0
    BY WorkloadAssumption DEF TypeOK, ClusterTypeOK, WorkloadObject
  <1>i. RequestOK(Idle) /\ \A c : RequestOK([Idle EXCEPT !.pc = "answered", !.choice = c])
    BY DEF Idle
  <1>r. ASSUME NEW q \in Pods PROVE req[q] \in Request
    BY <1>t
  \* A step of p's request that leaves it in a good state is enough.
  <1>1. ASSUME NEW p \in Pods, NEW r, req' = [req EXCEPT ![p] = r], RequestOK(r)
        PROVE  \A q \in Pods : RequestOK(req'[q])
    BY <1>t, <1>1
  <1>2. ASSUME NEW p \in Pods, NEW c, Answer(p, c)
        PROVE  \A q \in Pods : RequestOK(req'[q])
    BY <1>t, <1>i, <1>2 DEF Answer
  <1>3. ASSUME NEW p \in Pods, Arrive(p)
        PROVE  \A q \in Pods : RequestOK(req'[q])
    BY <1>t, <1>3 DEF Arrive, Idle
  <1>4. ASSUME NEW p \in Pods, GetWorkloadConfig(p)
        PROVE  \A q \in Pods : RequestOK(req'[q])
    <2>1. CASE Answer(p, "none")
      BY <1>2, <2>1
    <2>2. CASE req' = [req EXCEPT ![p] = [@ EXCEPT !.pc = "configured",
                                           !.policy = workload.policy]]
      BY <1>t, <1>r, <2>2 DEF Request
    <2>3. QED
      BY <1>4, <2>1, <2>2 DEF GetWorkloadConfig
  <1>5. ASSUME NEW p \in Pods, Observe(p)
        PROVE  \A q \in Pods : RequestOK(req'[q])
    BY <1>t, <1>r, <1>5 DEF Observe, Request
  <1>6. ASSUME NEW p \in Pods, FallBackToOnDemand(p)
        PROVE  \A q \in Pods : RequestOK(req'[q])
    BY <1>2, <1>6 DEF FallBackToOnDemand
  <1>7. ASSUME NEW p \in Pods, UseSnapshot(p)
        PROVE  \A q \in Pods : RequestOK(req'[q])
    BY <1>t, <1>r, <1>2, <1>7 DEF UseSnapshot, Request
  <1>8. ASSUME NEW p \in Pods, SelectAndReserve(p)
        PROVE  \A q \in Pods : RequestOK(req'[q])
    BY <1>2, <1>8 DEF SelectAndReserve
  <1>9. ASSUME NEW p \in Pods, CheckStaleness(p)
        PROVE  \A q \in Pods : RequestOK(req'[q])
    BY <1>t, <1>r, <1>9 DEF CheckStaleness, Request
  <1>10. ASSUME NEW p \in Pods, ResetStale(p)
         PROVE  \A q \in Pods : RequestOK(req'[q])
    BY <1>t, <1>r, <1>10 DEF ResetStale, Request
  <1>11. ASSUME NEW p \in Pods, CountCurrentPods(p)
         PROVE  \A q \in Pods : RequestOK(req'[q])
    BY <1>t, <1>r, <1>11 DEF CountCurrentPods, Request
  <1>12. ASSUME NEW p \in Pods, RecordPodList(p)
         PROVE  \A q \in Pods : RequestOK(req'[q])
    BY <1>t, <1>r, <1>12 DEF RecordPodList, Request
  <1>13. ASSUME NEW p \in Pods, ChooseFromCounts(p)
         PROVE  \A q \in Pods : RequestOK(req'[q])
    <2> DEFINE choice == IF AdmissionTracker
                         THEN Selected(p)
                         ELSE Choose(Cardinality(req[p].spot),
                                     Cardinality(req[p].onDemand), Target(p))
    <2>1. choice \in CapacityTypes
      BY DEF Selected, Choose, CapacityTypes
    <2>2. /\ req[p].pc = "recorded"
          /\ req' = [req EXCEPT ![p] = [@ EXCEPT !.pc = "chosen",
                                                 !.choice = choice]]
      BY <1>13 DEF ChooseFromCounts
    <2> HIDE DEF choice
    <2>3. QED
      BY <1>t, <1>r, <2>1, <2>2 DEF Request
  <1>14. ASSUME NEW p \in Pods, ReserveChoice(p)
         PROVE  \A q \in Pods : RequestOK(req'[q])
    BY <1>2, <1>14 DEF ReserveChoice
  <1>15. ASSUME NEW p \in Pods, AnswerStep(p)
         PROVE  \A q \in Pods : RequestOK(req'[q])
    BY <1>t, <1>i, <1>15
       DEF AnswerStep, Persist, Drop, Timeout, DiscardAnswer, Idle
  <1>16. CASE Restart
    BY <1>t, <1>i, <1>16 DEF Restart
  <1>17. CASE Tick
    <2>1. ASSUME NEW q \in Pods
          PROVE  /\ req'[q].pc = req[q].pc
                 /\ req'[q].generation = req[q].generation
                 /\ req'[q].choice = req[q].choice
      <3>1. \/ \E a, b : req'[q] = [req[q] EXCEPT !.age = a, !.snapshotAge = b]
            \/ req'[q] = [req[q] EXCEPT !.age = 0]
        BY <1>17 DEF Tick
      <3>2. QED
        BY <1>r, <3>1 DEF Request
    <2>2. QED
      BY <2>1
  <1>18. CASE Cleanup \/ UNCHANGED vars \/ (ClusterStep /\ UNCHANGED admissionVars)
    BY <1>18 DEF Cleanup, vars, admissionVars
  <1>19. QED
    BY <1>3, <1>4, <1>5, <1>6, <1>7, <1>8, <1>9, <1>10, <1>11, <1>12, <1>13,
       <1>14, <1>15, <1>16, <1>17, <1>18 DEF Next, HandlerStep

\* The entry an increment starts from counts the reservations it starts from.
LEMMA EntryCounts ==
  ASSUME ReservationInv, NEW g \in Nat
  PROVE  /\ ReservationsFor(g) \in [Pods -> Capacity]
         /\ EntryFor(g) \in PendingAdmission
         /\ \A c \in CapacityTypes :
              Cardinality(Holders(ReservationsFor(g), c))
                <= IF c = "spot" THEN EntryFor(g).pendingSpot
                                 ELSE EntryFor(g).pendingOnDemand
  <1>1. CASE EntryExists /\ pending.generation = g
    BY <1>1 DEF ReservationInv, TypeOK, ReservationsFor, EntryFor,
                ReservationsCounted, ReservedPods, Holders,
                CapacityTypes
  <1>2. CASE ~(EntryExists /\ pending.generation = g)
    <2>1. /\ ReservationsFor(g) = NoReservation
          /\ EntryFor(g) = NewEntry(g)
      BY <1>2 DEF ReservationsFor, EntryFor
    <2>2. NoReservation \in [Pods -> Capacity]
      BY DEF NoReservation, Capacity
    <2>3. NewEntry(g) \in PendingAdmission
      BY InitialValues
    <2>4. NewEntry(g).pendingSpot = 0 /\ NewEntry(g).pendingOnDemand = 0
      BY DEF NewEntry
    <2>5. ASSUME NEW c \in CapacityTypes
          PROVE  Cardinality(Holders(NoReservation, c)) <= 0
      BY NothingReserved
    <2>6. QED
      BY <2>1, <2>2, <2>3, <2>4, <2>5
  <1>3. QED
    BY <1>1, <1>2

\* A reservation is recorded together with the count that pays for it.
LEMMA IncrementCounts ==
  ASSUME ReservationInv, NEW p \in Pods, NEW c \in CapacityTypes,
         NEW g \in Nat, g # 0, IncrementPending(p, c, g)
  PROVE  ReservationsCounted' /\ pending'.generation # 0
  <1> DEFINE e == EntryFor(g)
             f == ReservationsFor(g)
  <1>1. /\ f \in [Pods -> Capacity]
        /\ e \in PendingAdmission
        /\ Cardinality(Holders(f, "spot")) <= e.pendingSpot
        /\ Cardinality(Holders(f, "onDemand")) <= e.pendingOnDemand
    BY EntryCounts DEF CapacityTypes
  <1>2. e.generation = g
    BY DEF EntryFor, NewEntry
  <1>3. /\ c = "spot" => pending' = [e EXCEPT !.pendingSpot = @ + 1,
                                              !.lastUpdated = 0]
        /\ c # "spot" => pending' = [e EXCEPT !.pendingOnDemand = @ + 1,
                                              !.lastUpdated = 0]
        /\ reserved' = [f EXCEPT ![p] = c]
    BY DEF IncrementPending
  <1>4. /\ e.pendingSpot \in Nat /\ e.pendingOnDemand \in Nat
        /\ pending'.generation = g
        /\ c = "spot" => /\ pending'.pendingSpot = e.pendingSpot + 1
                         /\ pending'.pendingOnDemand = e.pendingOnDemand
        /\ c # "spot" => /\ pending'.pendingSpot = e.pendingSpot
                         /\ pending'.pendingOnDemand = e.pendingOnDemand + 1
    <2> HIDE DEF e
    <2>1. QED
      BY <1>1, <1>2, <1>3 DEF PendingAdmission
  <1>5. ASSUME NEW d \in CapacityTypes
        PROVE  /\ Cardinality(Holders(f, d)) \in Nat
               /\ Cardinality(Holders(reserved', d)) \in Nat
               /\ Cardinality(Holders(reserved', d)) <= Cardinality(Holders(f, d)) + 1
               /\ c # d => Cardinality(Holders(reserved', d))
                             <= Cardinality(Holders(f, d))
    <2> HIDE DEF f
    <2>1. c \in Capacity /\ d \in Capacity
      BY DEF Capacity
    <2>2. QED
      BY <1>1, <1>3, <2>1, OneReservation
  <1>6. ReservationsCounted'
    <2> HIDE DEF e, f
    <2>1. /\ ReservedPods("spot")' = Holders(reserved', "spot")
          /\ ReservedPods("onDemand")' = Holders(reserved', "onDemand")
      BY DEF ReservedPods, Holders
    <2>2. "spot" \in CapacityTypes /\ "onDemand" \in CapacityTypes
      BY DEF CapacityTypes
    <2>3. Cardinality(Holders(reserved', "spot")) <= pending'.pendingSpot
      BY <1>1, <1>4, <1>5, <2>2
    <2>4. Cardinality(Holders(reserved', "onDemand")) <= pending'.pendingOnDemand
      <3>1. c = "spot" \/ c = "onDemand"
        BY DEF CapacityTypes
      <3>2. QED
        BY <1>1, <1>4, <1>5, <2>2, <3>1
    <2>5. QED
      BY <2>1, <2>3, <2>4 DEF ReservationsCounted
  <1>7. QED
    BY <1>4, <1>6

\* Recording a pod list keeps the counters, or creates an entry that no
\* reservation is waiting for.
LEMMA ListCounts ==
  ASSUME ReservationInv, NEW g \in Nat, g # 0, UpdatePodListMetadata(g),
         UNCHANGED reserved
  PROVE  ReservationsCounted' /\ pending'.generation # 0
  <1> DEFINE e == IF EntryExists THEN pending ELSE NewEntry(g)
  <1>1. /\ e \in PendingAdmission
        /\ e.generation # 0
        /\ Cardinality(ReservedPods("spot")) <= e.pendingSpot
        /\ Cardinality(ReservedPods("onDemand")) <= e.pendingOnDemand
    <2>1. CASE EntryExists
      BY <2>1 DEF ReservationInv, TypeOK, ReservationsCounted, EntryExists
    <2>2. CASE ~EntryExists
      <3>1. reserved = NoReservation
        BY <2>2 DEF ReservationInv, EntryExists
      <3>2. /\ ReservedPods("spot") = Holders(NoReservation, "spot")
            /\ ReservedPods("onDemand") = Holders(NoReservation, "onDemand")
        BY <3>1 DEF ReservedPods, Holders
      <3>3. /\ NewEntry(g).pendingSpot = 0 /\ NewEntry(g).pendingOnDemand = 0
            /\ NewEntry(g).generation = g
        BY DEF NewEntry
      <3>4. "spot" \in CapacityTypes /\ "onDemand" \in CapacityTypes
        BY DEF CapacityTypes
      <3>5. QED
        BY <2>2, <3>2, <3>3, <3>4, NothingReserved, InitialValues
    <2>3. QED
      BY <2>1, <2>2
  <1>2. pending' = [e EXCEPT !.podListTime = 0, !.lastUpdated = 0]
    BY DEF UpdatePodListMetadata
  <1> HIDE DEF e
  <1>3. /\ pending'.pendingSpot = e.pendingSpot
        /\ pending'.pendingOnDemand = e.pendingOnDemand
        /\ pending'.generation = e.generation
    BY <1>1, <1>2 DEF PendingAdmission
  <1>4. /\ ReservedPods("spot")' = ReservedPods("spot")
        /\ ReservedPods("onDemand")' = ReservedPods("onDemand")
    BY DEF ReservedPods
  <1>5. QED
    BY <1>1, <1>3, <1>4 DEF ReservationsCounted

\* An entry without reservations owes nothing.
LEMMA EmptyCounts ==
  ASSUME reserved' = NoReservation, pending' \in PendingAdmission
  PROVE  ReservationsCounted'
  <1>1. /\ ReservedPods("spot")' = Holders(NoReservation, "spot")
        /\ ReservedPods("onDemand")' = Holders(NoReservation, "onDemand")
    BY DEF ReservedPods, Holders
  <1>2. "spot" \in CapacityTypes /\ "onDemand" \in CapacityTypes
    BY DEF CapacityTypes
  <1>3. pending'.pendingSpot >= 0 /\ pending'.pendingOnDemand >= 0
    BY DEF PendingAdmission
  <1>4. QED
    BY <1>1, <1>2, <1>3, NothingReserved DEF ReservationsCounted

\* The counters and the reservations stay as they are.
LEMMA SameCounts ==
  ASSUME ReservationInv, UNCHANGED reserved,
         pending'.pendingSpot = pending.pendingSpot,
         pending'.pendingOnDemand = pending.pendingOnDemand,
         pending'.generation = pending.generation
  PROVE  /\ ReservationsCounted'
         /\ pending'.generation = 0 => reserved' = NoReservation
  <1>1. /\ ReservedPods("spot")' = ReservedPods("spot")
        /\ ReservedPods("onDemand")' = ReservedPods("onDemand")
    BY DEF ReservedPods
  <1>2. QED
    BY <1>1 DEF ReservationInv, ReservationsCounted

\* A request that is past the reading of the workload has a real generation.
LEMMA RealGeneration ==
  ASSUME ReservationInv, NEW p \in Pods, req[p].pc \in HasGeneration
  PROVE  req[p].generation \in Nat /\ req[p].generation # 0
  <1>1. req[p] \in Request
    BY DEF ReservationInv, TypeOK
  <1>2. QED
    BY <1>1 DEF ReservationInv, RequestOK, Request

\* No step of the webhook or the cluster disturbs the reservation invariant.
LEMMA ReservationStep ==
  ASSUME ReservationInv, [Next]_vars
  PROVE  ReservationInv'
  <1>1. TypeOK /\ TypeOK'
    BY TypeStep DEF ReservationInv
  <1>2. \A p \in Pods : RequestOK(req'[p])
    BY RequestStep DEF ReservationInv
  <1> DEFINE Kept == /\ ReservationsCounted'
                     /\ pending'.generation = 0 => reserved' = NoReservation
  <1>3. SUFFICES Kept
    BY <1>1, <1>2 DEF ReservationInv
  <1>4. ASSUME UNCHANGED <<pending, reserved>> PROVE Kept
    BY <1>4, SameCounts
  <1>5. ASSUME NEW p \in Pods, NEW c \in CapacityTypes,
               req[p].pc \in HasGeneration,
               IncrementPending(p, c, req[p].generation)
        PROVE  Kept
    BY <1>5, RealGeneration, IncrementCounts
  <1>6. ASSUME NEW p \in Pods, req[p].pc \in HasGeneration,
               UpdatePodListMetadata(req[p].generation), UNCHANGED reserved
        PROVE  Kept
    BY <1>6, RealGeneration, ListCounts
  <1>7. ASSUME reserved' = NoReservation PROVE Kept
    BY <1>1, <1>7, EmptyCounts DEF TypeOK
  <1>8. ASSUME NEW p \in Pods, UseSnapshot(p) PROVE Kept
    <2>1. req[p].pc \in HasGeneration
      BY <1>8 DEF UseSnapshot, HasGeneration
    <2>2. \/ UNCHANGED <<pending, reserved>>
          \/ UpdatePodListMetadata(req[p].generation) /\ UNCHANGED reserved
      BY <1>8 DEF UseSnapshot
    <2>3. QED
      BY <1>4, <1>6, <2>1, <2>2
  <1>9. ASSUME NEW p \in Pods, SelectAndReserve(p) PROVE Kept
    <2>1. /\ req[p].pc \in HasGeneration
          /\ Selected(p) \in CapacityTypes
          /\ IncrementPending(p, Selected(p), req[p].generation)
      BY <1>9 DEF SelectAndReserve, HasGeneration, Selected, Choose,
                  CapacityTypes
    <2>2. QED
      BY <1>5, <2>1
  <1>10. ASSUME NEW p \in Pods, RecordPodList(p) PROVE Kept
    <2>1. req[p].pc \in HasGeneration
      BY <1>10 DEF RecordPodList, HasGeneration
    <2>2. \/ UNCHANGED <<pending, reserved>>
          \/ UpdatePodListMetadata(req[p].generation) /\ UNCHANGED reserved
      BY <1>10 DEF RecordPodList
    <2>3. QED
      BY <1>4, <1>6, <2>1, <2>2
  <1>11. ASSUME NEW p \in Pods, ReserveChoice(p) PROVE Kept
    <2>1. req[p].pc = "chosen" /\ req[p].pc \in HasGeneration
      BY <1>11 DEF ReserveChoice, HasGeneration
    <2>2. req[p].choice \in CapacityTypes
      BY <2>1 DEF ReservationInv, RequestOK
    <2>3. \/ UNCHANGED <<pending, reserved>>
          \/ IncrementPending(p, req[p].choice, req[p].generation)
      BY <1>11 DEF ReserveChoice
    <2>4. QED
      BY <1>4, <1>5, <2>1, <2>2, <2>3
  <1>12. ASSUME NEW p \in Pods, ResetStale(p) PROVE Kept
    BY <1>7, <1>12 DEF ResetStale, ResetPending
  <1>13. ASSUME Cleanup \/ Restart PROVE Kept
    BY <1>7, <1>13 DEF Cleanup, Restart
  <1>14. ASSUME Tick PROVE Kept
    <2>1. UNCHANGED reserved
      BY <1>14 DEF Tick
    <2>2. /\ pending'.pendingSpot = pending.pendingSpot
          /\ pending'.pendingOnDemand = pending.pendingOnDemand
          /\ pending'.generation = pending.generation
      <3>1. \/ pending' = pending
            \/ \E a, b : pending' = [pending EXCEPT !.lastUpdated = a,
                                                    !.podListTime = b]
        BY <1>14 DEF Tick
      <3>2. pending \in PendingAdmission
        BY <1>1 DEF TypeOK
      <3>3. QED
        BY <3>1, <3>2 DEF PendingAdmission
    <2>3. QED
      BY <2>1, <2>2, SameCounts
  <1>15. ASSUME NEW p \in Pods,
                \/ Arrive(p) \/ GetWorkloadConfig(p) \/ Observe(p)
                \/ FallBackToOnDemand(p) \/ CheckStaleness(p)
                \/ CountCurrentPods(p) \/ ChooseFromCounts(p) \/ AnswerStep(p)
         PROVE  Kept
    <2>1. UNCHANGED <<pending, reserved>>
      BY <1>15 DEF Arrive, GetWorkloadConfig, Observe, FallBackToOnDemand,
           CheckStaleness, CountCurrentPods, ChooseFromCounts, AnswerStep,
           Persist, Drop, Timeout, DiscardAnswer
    <2>2. QED
      BY <1>4, <2>1
  <1>16. ASSUME (ClusterStep /\ UNCHANGED admissionVars) \/ UNCHANGED vars
         PROVE  Kept
    <2>1. UNCHANGED <<pending, reserved>>
      BY <1>16 DEF admissionVars, vars
    <2>2. QED
      BY <1>4, <2>1
  <1> HIDE DEF Kept
  <1>17. QED
    BY <1>8, <1>9, <1>10, <1>11, <1>12, <1>13, <1>14, <1>15, <1>16
       DEF Next, HandlerStep

\* At the start there is no entry and no reservation.
LEMMA ReservationInit == Init => ReservationInv
  <1> SUFFICES ASSUME Init PROVE ReservationInv
    OBVIOUS
  <1>1. TypeOK
    BY TypeInit
  <1>2. /\ ReservedPods("spot") = Holders(NoReservation, "spot")
        /\ ReservedPods("onDemand") = Holders(NoReservation, "onDemand")
    BY DEF Init, ReservedPods, Holders
  <1>3. "spot" \in CapacityTypes /\ "onDemand" \in CapacityTypes
    BY DEF CapacityTypes
  <1>4. pending.pendingSpot >= 0 /\ pending.pendingOnDemand >= 0
    BY <1>1 DEF TypeOK, PendingAdmission
  <1>5. ReservationsCounted
    BY <1>2, <1>3, <1>4, NothingReserved DEF ReservationsCounted
  <1>6. reserved = NoReservation
    BY DEF Init
  <1>7. \A p \in Pods : RequestOK(req[p])
    BY DEF Init, Idle, RequestOK, HasGeneration, OlderPath
  <1>8. QED
    BY <1>1, <1>5, <1>6, <1>7 DEF ReservationInv

\* The invariant the next two theorems rest on.
THEOREM ReservationInvHolds == Spec => []ReservationInv
  BY ReservationInit, ReservationStep, PTL DEF Spec

\* Whatever resets, expiries, rollouts and restarts come in between, in every
\* wiring, each Pod holding a reservation of the live entry is counted by it.
THEOREM ReservationsAlwaysCounted == Spec => []ReservationsCounted
  <1>1. ReservationInv => ReservationsCounted
    BY DEF ReservationInv
  <1>2. QED
    BY <1>1, ReservationInvHolds, PTL

-----------------------------------------------------------------------------
(* The admission contract, for the path that observes and reserves.        *)

\* Only SelectAndReserve answers a request with a reserved placement.
LEMMA ReservedBySelect ==
  ASSUME ReservationInv, Observer, [Next]_vars, NEW p \in Pods, SpotReserved(p)
  PROVE  SelectAndReserve(p)
  <1>1. /\ req[p].pc = "listed"
        /\ req'[p].pc = "answered"
    BY DEF SpotReserved, ReservationInv, RequestOK, OlderPath
  <1>2. req \in [Pods -> Request] /\ Idle.pc = "idle"
    BY InitialValues DEF ReservationInv, TypeOK
  <1>3. ASSUME NEW q \in Pods, NEW r, req' = [req EXCEPT ![q] = r], q # p
        PROVE  FALSE
    BY <1>1, <1>2, <1>3
  <1>4. ASSUME NEW q \in Pods, Arrive(q) \/ HandlerStep(q) \/ AnswerStep(q)
        PROVE  SelectAndReserve(p)
    <2>1. CASE q # p
      BY <1>1, <1>2, <1>4, <2>1
         DEF Arrive, HandlerStep, AnswerStep, Answer, GetWorkloadConfig,
             Observe, FallBackToOnDemand, UseSnapshot, SelectAndReserve,
             CheckStaleness, ResetStale, CountCurrentPods, RecordPodList,
             ChooseFromCounts, ReserveChoice, Persist, Drop, Timeout,
             DiscardAnswer
    <2>2. CASE q = p
      BY <1>1, <1>4, <2>2
         DEF Arrive, HandlerStep, AnswerStep, GetWorkloadConfig,
             Observe, FallBackToOnDemand, UseSnapshot,
             CheckStaleness, ResetStale, CountCurrentPods, RecordPodList,
             ChooseFromCounts, ReserveChoice, Persist, Drop, Timeout,
             DiscardAnswer
    <2>3. QED
      BY <2>1, <2>2
  <1>5. ~Restart
    BY <1>1, <1>2 DEF Restart
  <1>6. ~Tick
    <2>1. ASSUME Tick
          PROVE  \/ \E a, b : req'[p] = [req[p] EXCEPT !.age = a, !.snapshotAge = b]
                 \/ req'[p] = [req[p] EXCEPT !.age = 0]
      BY <2>1 DEF Tick
    <2>2. QED
      BY <1>1, <1>2, <2>1 DEF Request
  <1>7. ~(Cleanup \/ (ClusterStep /\ UNCHANGED admissionVars) \/ UNCHANGED vars)
    BY <1>1 DEF Cleanup, admissionVars, vars
  <1>8. QED
    BY <1>4, <1>5, <1>6, <1>7 DEF Next

\* A Spot choice of SelectAndReserve leaves room for the Pod it is made for.
LEMMA SelectWithinTarget ==
  ASSUME ReservationInv, NEW p \in Pods, SelectAndReserve(p), SpotReserved(p)
  PROVE  Cardinality(req[p].spot \cup ReservedPods("spot")')
           <= Target(p).targetSpot
  <1> DEFINE g == req[p].generation
             seen == req[p].spot
             f == ReservationsFor(g)
  <1>1. req[p] \in Request /\ g \in Nat
    BY DEF ReservationInv, TypeOK, Request
  <1>2. Selected(p) = "spot"
    <2>1. req'[p].choice = Selected(p)
      BY DEF SelectAndReserve, Answer, ReservationInv, TypeOK, Idle
    <2>2. QED
      BY <2>1 DEF SpotReserved
  <1>3. Cardinality(seen) + PendingSpot(g) < Target(p).targetSpot
    BY <1>2 DEF Selected, Choose
  <1>4. /\ f \in [Pods -> Capacity]
        /\ EntryFor(g).pendingSpot \in Nat
        /\ Cardinality(Holders(f, "spot")) <= PendingSpot(g)
        /\ PendingSpot(g) \in Nat
    <2>1. /\ EntryFor(g) \in PendingAdmission
          /\ f \in [Pods -> Capacity]
          /\ Cardinality(Holders(f, "spot")) <= EntryFor(g).pendingSpot
      BY <1>1, EntryCounts DEF CapacityTypes
    <2>2. QED
      BY <2>1 DEF PendingAdmission, PendingSpot
  <1>5. reserved' = [f EXCEPT ![p] = "spot"]
    BY <1>2 DEF SelectAndReserve, IncrementPending
  <1>6. /\ IsFiniteSet(Holders(f, "spot"))
        /\ Cardinality(Holders(f, "spot")) \in Nat
        /\ IsFiniteSet(Holders(reserved', "spot"))
        /\ Cardinality(Holders(reserved', "spot")) \in Nat
        /\ Cardinality(Holders(reserved', "spot"))
             <= Cardinality(Holders(f, "spot")) + 1
    <2> HIDE DEF f
    <2>1. "spot" \in Capacity
      BY DEF Capacity, CapacityTypes
    <2>2. QED
      BY <1>4, <1>5, <2>1, OneReservation
  <1>7. ReservedPods("spot")' = Holders(reserved', "spot")
    BY DEF ReservedPods, Holders
  <1>8. IsFiniteSet(seen) /\ Cardinality(seen) \in Nat
    BY <1>1, PodSets DEF Request
  <1>9. Cardinality(seen \cup Holders(reserved', "spot"))
          <= Cardinality(seen) + Cardinality(Holders(reserved', "spot"))
    BY <1>6, <1>8, SumOfTwo
  <1>10. Cardinality(seen \cup Holders(reserved', "spot")) \in Nat
    BY <1>6, <1>8, FS_Union, FS_CardinalityType
  <1>11. Target(p).targetSpot \in Int
    BY <1>1, WorkloadAssumption, TargetType DEF Target, Request
  <1> HIDE DEF g, seen, f
  <1>12. Cardinality(seen \cup Holders(reserved', "spot")) <= Target(p).targetSpot
    BY <1>3, <1>4, <1>6, <1>8, <1>9, <1>10, <1>11
  <1>13. QED
    BY <1>7, <1>12 DEF seen

\* With Observer, concurrent requests, lagging caches, expiring and reset
\* entries, rollouts, timeouts and restarts never make the webhook reserve
\* spot beyond the target of what it saw and holds reserved.
THEOREM SpotContractHolds ==
  ASSUME Observer
  PROVE  Spec => SpotContract
  <1>1. ASSUME ReservationInv, [Next]_vars
        PROVE  [ \A p \in Pods : SpotReserved(p) =>
                   Cardinality(req[p].spot \cup ReservedPods("spot")')
                     <= Target(p).targetSpot ]_vars
    BY <1>1, ReservedBySelect, SelectWithinTarget
  <1>2. QED
    BY <1>1, ReservationInvHolds, PTL DEF Spec, SpotContract

-----------------------------------------------------------------------------
(* The target itself, for the wiring that observes and reserves.           *)

\* The workload stays as it is, every node can be classified and the process
\* does not restart; an entry outlives both the requests that were counted
\* with it and the time a placed Pod takes to show up in a usable snapshot.
Steady ==
  /\ Observer /\ AdmissionTracker
  /\ Faults \cap {"rollout", "annotate", "unclassified", "restart"} = {}
  /\ VisibleWithin + PodListMaxAge <= TTL
  /\ RequestTimeout <= TTL

\* What a request has read of the workload is still so.
UpToDate(r) ==
  /\ r.pc \in HasGeneration => /\ r.generation = workload.generation
                               /\ r.replicas = workload.replicas
  /\ r.pc \in HasGeneration \cup {"configured"} => r.policy = workload.policy

FixedInv ==
  /\ EntryExists => pending.generation = workload.generation
  /\ \A p \in Pods : UpToDate(req[p])

\* A Pod has a selector only after its request was answered, and one that is
\* bound to a spot node is seen on one, if it is seen on a node at all.
SeenWhereItIs(q) ==
  /\ req[q].pc # "idle" => pods[q].selector = "none"
  /\ pods[q].phase \in {"request", "pending"} =>
       view[q].phase \notin {"bound", "ready"}
  /\ pods[q].selector = "spot" /\ pods[q].phase \in {"bound", "ready"} =>
       /\ pods[q].node = "spot"
       /\ view[q].phase \in {"bound", "ready"} => view[q].node = "spot"

\* A Pod placed on spot holds a reservation until it is seen.
Held(q) ==
  q \in PlacedOnSpot /\ Unobserved(q) =>
    /\ reserved[q] = "spot"
    /\ pending.lastUpdated <= req[q].age
    /\ req[q].age <= VisibleWithin

\* It goes on doing so while there is a request whose snapshot is usable and
\* does not show it.
Covers(p, q) ==
  q \in PlacedOnSpot /\ q \notin req[p].spot =>
    /\ req[p].pc = "observed" /\ req[p].snapshotAge <= PodListMaxAge =>
         /\ reserved[q] = "spot"
         /\ pending.lastUpdated <= VisibleWithin + req[p].snapshotAge
    /\ req[p].pc = "listed" => reserved[q] = "spot"

\* Requests end in time, and an entry is fresh enough for those that count on it.
Timely(p) ==
  /\ p \in InFlight => req[p].age <= RequestTimeout
  /\ req[p].pc = "listed" => EntryExists /\ pending.lastUpdated <= req[p].age

CoverInv ==
  /\ \A q \in Pods : Held(q)
  /\ \A p, q \in Pods : Covers(p, q)
  /\ \A p \in Pods : Timely(p)

\* Nothing changes the workload.
LEMMA WorkloadStays ==
  ASSUME Steady, [Next]_vars
  PROVE  UNCHANGED workload
  <1>1. ~Rollout /\ ~EditAnnotations
    BY DEF Steady, Rollout, EditAnnotations
  <1>2. ASSUME NEW p \in Pods, Arrive(p) \/ HandlerStep(p) \/ AnswerStep(p)
        PROVE  UNCHANGED workload
    BY <1>2 DEF Arrive, HandlerStep, AnswerStep, GetWorkloadConfig,
         Observe, FallBackToOnDemand, UseSnapshot, SelectAndReserve,
         CheckStaleness, ResetStale, CountCurrentPods, RecordPodList,
         ChooseFromCounts, ReserveChoice, Persist, Drop, Timeout, DiscardAnswer
  <1>3. CASE Cleanup \/ Restart \/ Tick \/ UNCHANGED vars
    BY <1>3 DEF Cleanup, Restart, Tick, vars
  <1>4. CASE ClusterStep
    BY <1>1, <1>4 DEF ClusterStep, Bind, Terminate, Gone, Sync
  <1>5. QED
    BY <1>2, <1>3, <1>4 DEF Next

\* With Observer only these steps are taken.
LEMMA ObserverSteps ==
  ASSUME Steady, ReservationInv, [Next]_vars
  PROVE  \/ \E p \in Pods : \/ Arrive(p) \/ GetWorkloadConfig(p) \/ Observe(p)
                            \/ FallBackToOnDemand(p) \/ UseSnapshot(p)
                            \/ SelectAndReserve(p) \/ AnswerStep(p)
         \/ Cleanup \/ Tick
         \/ \E p \in Pods : /\ \/ \E c \in CapacityTypes : Bind(p, c)
                               \/ Terminate(p) \/ Gone(p) \/ Sync(p)
                            /\ UNCHANGED admissionVars
         \/ UNCHANGED vars
  <1>1. ~Rollout /\ ~EditAnnotations /\ ~Restart
    BY DEF Steady, Rollout, EditAnnotations, Restart
  <1>2. ASSUME NEW p \in Pods PROVE
           ~(\/ CheckStaleness(p) \/ ResetStale(p) \/ CountCurrentPods(p)
             \/ RecordPodList(p) \/ ChooseFromCounts(p) \/ ReserveChoice(p))
    BY DEF Steady, ReservationInv, RequestOK, OlderPath, CheckStaleness, ResetStale,
           CountCurrentPods, RecordPodList, ChooseFromCounts, ReserveChoice
  <1>3. QED
    BY <1>1, <1>2 DEF Next, HandlerStep, ClusterStep

\* The entry after a pod list was recorded.
LEMMA ListedEntry ==
  ASSUME TypeOK, NEW g \in Nat, UpdatePodListMetadata(g)
  PROVE  /\ pending'.lastUpdated = 0
         /\ pending'.generation = IF EntryExists THEN pending.generation ELSE g
  <1> DEFINE e == IF EntryExists THEN pending ELSE NewEntry(g)
  <1>1. e \in PendingAdmission
    BY InitialValues DEF TypeOK
  <1>2. e.generation = IF EntryExists THEN pending.generation ELSE g
    BY DEF NewEntry
  <1>3. pending' = [e EXCEPT !.podListTime = 0, !.lastUpdated = 0]
    BY DEF UpdatePodListMetadata
  <1> HIDE DEF e
  <1>4. QED
    BY <1>1, <1>2, <1>3 DEF PendingAdmission

\* The entry after a reservation.
LEMMA ReservedEntry ==
  ASSUME TypeOK, NEW g \in Nat, NEW p, NEW c, IncrementPending(p, c, g)
  PROVE  pending'.lastUpdated = 0 /\ pending'.generation = g
  <1> DEFINE e == EntryFor(g)
  <1>1. e \in PendingAdmission
    BY InitialValues DEF TypeOK, EntryFor
  <1>2. e.generation = g
    BY DEF EntryFor, NewEntry
  <1>3. \/ pending' = [e EXCEPT !.pendingSpot = @ + 1, !.lastUpdated = 0]
        \/ pending' = [e EXCEPT !.pendingOnDemand = @ + 1, !.lastUpdated = 0]
    BY DEF IncrementPending
  <1> HIDE DEF e
  <1>4. QED
    BY <1>1, <1>2, <1>3 DEF PendingAdmission

\* The entry after a unit of time.
LEMMA AgedEntry ==
  ASSUME TypeOK, Tick
  PROVE  /\ pending'.generation = pending.generation
         /\ pending.lastUpdated \in Nat /\ pending'.lastUpdated \in Nat
         /\ pending'.lastUpdated <= pending.lastUpdated + 1
  <1>1. pending \in PendingAdmission /\ pending.lastUpdated \in 0 .. TTL + 1
    BY DEF TypeOK, PendingAdmission
  <1>2. Older(pending.lastUpdated, TTL) \in {pending.lastUpdated, pending.lastUpdated + 1}
    BY DEF Older
  <1>3. \/ pending' = pending
        \/ \E b : pending' = [pending EXCEPT !.lastUpdated = Older(pending.lastUpdated, TTL),
                                             !.podListTime = b]
    BY DEF Tick
  <1>4. /\ pending'.generation = pending.generation
        /\ pending'.lastUpdated \in {pending.lastUpdated, Older(pending.lastUpdated, TTL)}
    BY <1>1, <1>3 DEF PendingAdmission
  <1>5. QED
    BY <1>1, <1>2, <1>4, AdmissionAssumption

\* A request after a unit of time.
LEMMA AgedRequest ==
  ASSUME TypeOK, Tick, NEW p \in Pods
  PROVE  /\ req'[p].pc = req[p].pc /\ req'[p].spot = req[p].spot
         /\ req'[p].choice = req[p].choice /\ req'[p].policy = req[p].policy
         /\ req'[p].generation = req[p].generation /\ req'[p].replicas = req[p].replicas
         /\ p \in InFlight \/ Unobserved(p) => req'[p].age = req[p].age + 1
         /\ req[p].pc = "observed" =>
              req'[p].snapshotAge = Older(req[p].snapshotAge, PodListMaxAge)
  <1>1. req[p] \in Request
    BY DEF TypeOK
  <1>2. CASE p \in InFlight \/ Unobserved(p)
    <2>1. PICK b : /\ req'[p] = [req[p] EXCEPT !.age = req[p].age + 1, !.snapshotAge = b]
                   /\ req[p].pc = "observed" => b = Older(req[p].snapshotAge, PodListMaxAge)
      BY <1>2 DEF Tick
    <2>2. QED
      BY <1>1, <2>1 DEF Request
  <1>3. CASE ~(p \in InFlight \/ Unobserved(p))
    <2>1. req'[p] = [req[p] EXCEPT !.age = 0]
      BY <1>3 DEF Tick
    <2>2. req[p].pc # "observed"
      BY <1>3 DEF InFlight, InHandler, PCs
    <2>3. QED
      BY <1>1, <1>3, <2>1, <2>2 DEF Request
  <1>4. QED
    BY <1>2, <1>3

\* An answered request.
LEMMA AnsweredRequest ==
  ASSUME TypeOK, NEW p \in Pods, NEW c, Answer(p, c)
  PROVE  /\ \A q \in Pods \ {p} : req'[q] = req[q]
         /\ req'[p].pc = "answered" /\ req'[p].choice = c /\ req'[p].age = 0
  BY DEF TypeOK, Answer, Idle

\* A request that arrives, falls back, or is done with.
LEMMA LeavingRequest ==
  ASSUME TypeOK, NEW p \in Pods,
         Arrive(p) \/ FallBackToOnDemand(p) \/ AnswerStep(p)
  PROVE  /\ UNCHANGED <<pending, reserved>>
         /\ \A q \in Pods \ {p} : req'[q] = req[q]
         /\ \/ req'[p] = req[p]
            \/ req'[p].pc \in {"received", "answered", "idle"}
         /\ req'[p].pc = "received" => req'[p] = req[p] \/ req'[p].age = 0
         /\ req'[p].pc = "answered" => req'[p] = req[p] \/ req'[p].choice = "onDemand"
  <1>1. req \in [Pods -> Request] /\ Idle \in Request
    BY InitialValues DEF TypeOK
  <1>2. CASE Arrive(p)
    BY <1>1, <1>2 DEF Arrive, Idle
  <1>3. CASE FallBackToOnDemand(p)
    BY <1>3, AnsweredRequest DEF FallBackToOnDemand
  <1>4. CASE AnswerStep(p)
    BY <1>1, <1>4 DEF AnswerStep, Persist, Drop, Timeout, DiscardAnswer, Idle
  <1>5. QED
    BY <1>2, <1>3, <1>4

\* Requests go on with what they read, and entries are made for it.
LEMMA FixedStep ==
  ASSUME Steady, ReservationInv, FixedInv, [Next]_vars
  PROVE  FixedInv'
  <1>1. TypeOK /\ req \in [Pods -> Request] /\ workload' = workload
    BY WorkloadStays DEF ReservationInv, TypeOK
  <1>2. SUFFICES /\ pending'.generation # 0 => pending'.generation = workload.generation
                 /\ \A q \in Pods : UpToDate(req'[q])
    BY <1>1 DEF FixedInv, UpToDate, EntryExists
  <1>3. pending.generation # 0 => pending.generation = workload.generation
    BY DEF FixedInv, EntryExists
  <1>4. \A q \in Pods : UpToDate(req[q])
    BY DEF FixedInv
  <1>5. ASSUME NEW p \in Pods, Arrive(p) \/ AnswerStep(p) \/ FallBackToOnDemand(p)
        PROVE  UNCHANGED pending /\ \A q \in Pods : UpToDate(req'[q])
    BY <1>1, <1>4, <1>5, LeavingRequest DEF UpToDate, HasGeneration
  <1>6. ASSUME NEW p \in Pods, GetWorkloadConfig(p)
        PROVE  UNCHANGED pending /\ \A q \in Pods : UpToDate(req'[q])
    <2>1. CASE Answer(p, "none")
      BY <1>1, <1>4, <1>6, <2>1, AnsweredRequest DEF GetWorkloadConfig, UpToDate, HasGeneration
    <2>2. CASE req' = [req EXCEPT ![p] = [@ EXCEPT !.pc = "configured",
                                           !.policy = workload.policy]]
      BY <1>1, <1>4, <1>6, <2>2 DEF GetWorkloadConfig, UpToDate, HasGeneration, Request
    <2>3. QED
      BY <1>6, <2>1, <2>2 DEF GetWorkloadConfig
  <1>7. ASSUME NEW p \in Pods, Observe(p)
        PROVE  UNCHANGED pending /\ \A q \in Pods : UpToDate(req'[q])
    <2>1. PICK s, o : req' = [req EXCEPT ![p] =
                        [@ EXCEPT !.pc = "observed",
                                  !.generation = workload.generation,
                                  !.replicas = workload.replicas,
                                  !.spot = s, !.onDemand = o, !.snapshotAge = 0]]
      BY <1>7 DEF Observe
    <2>2. req[p].policy = workload.policy /\ UNCHANGED pending
      BY <1>4, <1>7 DEF Observe, UpToDate
    <2>3. QED
      BY <1>1, <1>4, <2>1, <2>2 DEF UpToDate, Request
  <1>8. ASSUME NEW p \in Pods, UseSnapshot(p)
        PROVE  /\ pending'.generation # 0 => pending'.generation = workload.generation
               /\ \A q \in Pods : UpToDate(req'[q])
    <2>1. /\ req[p].pc \in HasGeneration /\ UpToDate(req[p])
          /\ req[p].generation = workload.generation /\ req[p].generation \in Nat
      BY <1>4, <1>8, RealGeneration DEF UseSnapshot, UpToDate, HasGeneration
    <2>2. CASE UpdatePodListMetadata(req[p].generation) /\ req' = [req EXCEPT ![p].pc = "listed"]
      <3>1. pending'.generation # 0 => pending'.generation = workload.generation
        BY <1>1, <1>3, <2>1, <2>2, ListedEntry DEF EntryExists
      <3>2. \A q \in Pods : UpToDate(req'[q])
        BY <1>1, <1>4, <2>1, <2>2 DEF UpToDate, HasGeneration, Request
      <3>3. QED
        BY <3>1, <3>2
    <2>3. ASSUME NEW c, Answer(p, c), UNCHANGED pending
          PROVE  /\ pending'.generation # 0 => pending'.generation = workload.generation
                 /\ \A q \in Pods : UpToDate(req'[q])
      BY <1>1, <1>3, <1>4, <2>3, AnsweredRequest DEF UpToDate, HasGeneration
    <2>4. QED
      BY <1>8, <2>2, <2>3 DEF UseSnapshot
  <1>9. ASSUME NEW p \in Pods, SelectAndReserve(p)
        PROVE  /\ pending'.generation = workload.generation
               /\ \A q \in Pods : UpToDate(req'[q])
    <2>1. /\ req[p].pc \in HasGeneration /\ UpToDate(req[p])
          /\ req[p].generation = workload.generation /\ req[p].generation \in Nat
      BY <1>4, <1>9, RealGeneration DEF SelectAndReserve, UpToDate, HasGeneration
    <2>2. pending'.generation = workload.generation
      BY <1>1, <1>9, <2>1, ReservedEntry DEF SelectAndReserve
    <2>3. \A q \in Pods : UpToDate(req'[q])
      BY <1>1, <1>4, <1>9, AnsweredRequest DEF SelectAndReserve, UpToDate, HasGeneration
    <2>4. QED
      BY <2>2, <2>3
  <1>10. CASE Cleanup
    BY <1>4, <1>10 DEF Cleanup, NoEntry, NewEntry
  <1>11. CASE Tick
    BY <1>1, <1>3, <1>4, <1>11, AgedEntry, AgedRequest DEF UpToDate
  <1>12. CASE UNCHANGED admissionVars \/ UNCHANGED vars
    BY <1>3, <1>4, <1>12 DEF admissionVars, vars
  <1>13. QED
    BY <1>3, <1>5, <1>6, <1>7, <1>8, <1>9, <1>10, <1>11, <1>12, ObserverSteps

\* A step of the handler leaves the cluster alone and begins no request.
LEMMA HandlerKeeps ==
  ASSUME TypeOK, NEW p \in Pods,
         \/ GetWorkloadConfig(p) \/ Observe(p) \/ FallBackToOnDemand(p)
         \/ UseSnapshot(p) \/ SelectAndReserve(p)
  PROVE  /\ UNCHANGED <<pods, view>>
         /\ \A q \in Pods \ {p} : req'[q] = req[q]
         /\ req[p].pc \in InHandler
  BY DEF TypeOK, GetWorkloadConfig, Observe, FallBackToOnDemand, UseSnapshot,
         SelectAndReserve, Answer, InHandler, PCs

\* What a Pod is given, where it runs and where it is seen agree.
LEMMA SeenStep ==
  ASSUME Steady, ReservationInv, \A q \in Pods : SeenWhereItIs(q), [Next]_vars,
         NEW q \in Pods
  PROVE  SeenWhereItIs(q)'
  <1>1. /\ TypeOK /\ SeenWhereItIs(q)
        /\ pods \in [Pods -> PodObject] /\ view \in [Pods -> PodObject]
        /\ req \in [Pods -> Request]
    BY DEF ReservationInv, TypeOK, ClusterTypeOK
  <1>2. ASSUME UNCHANGED <<pods, view>>, req'[q].pc # "idle" => req[q].pc # "idle"
        PROVE  SeenWhereItIs(q)'
    BY <1>1, <1>2 DEF SeenWhereItIs
  <1>3. ASSUME NEW p \in Pods, Arrive(p)
        PROVE  SeenWhereItIs(q)'
    BY <1>1, <1>3 DEF Arrive, SeenWhereItIs, NoPod, PodObject
  <1>4. ASSUME NEW p \in Pods,
               \/ GetWorkloadConfig(p) \/ Observe(p) \/ FallBackToOnDemand(p)
               \/ UseSnapshot(p) \/ SelectAndReserve(p)
        PROVE  SeenWhereItIs(q)'
    BY <1>1, <1>2, <1>4, HandlerKeeps DEF InHandler
  <1>5. ASSUME NEW p \in Pods, AnswerStep(p)
        PROVE  SeenWhereItIs(q)'
    <2>1. CASE Persist(p)
      BY <1>1, <2>1 DEF Persist, SeenWhereItIs, Idle, PodObject
    <2>2. CASE Drop(p)
      BY <1>1, <2>2 DEF Drop, SeenWhereItIs, Idle, NoPod
    <2>3. CASE Timeout(p)
      BY <1>1, <2>3 DEF Timeout, SeenWhereItIs, PodObject
    <2>4. CASE DiscardAnswer(p)
      BY <1>1, <2>4 DEF DiscardAnswer, SeenWhereItIs, Idle
    <2>5. QED
      BY <1>5, <2>1, <2>2, <2>3, <2>4 DEF AnswerStep
  <1>6. CASE Cleanup
    BY <1>2, <1>6 DEF Cleanup
  <1>7. CASE Tick
    BY <1>1, <1>2, <1>7, AgedRequest DEF Tick
  <1>8. ASSUME NEW p \in Pods, UNCHANGED admissionVars,
               \/ \E c \in CapacityTypes : Bind(p, c)
               \/ Terminate(p) \/ Gone(p) \/ Sync(p)
        PROVE  SeenWhereItIs(q)'
    <2>1. UNCHANGED req
      BY <1>8 DEF admissionVars
    <2>2. ASSUME NEW c \in CapacityTypes, Bind(p, c)
          PROVE  SeenWhereItIs(q)'
      BY <1>1, <2>1, <2>2 DEF Bind, SeenWhereItIs, PodObject
    <2>3. CASE Terminate(p)
      BY <1>1, <2>1, <2>3 DEF Terminate, SeenWhereItIs, PodObject
    <2>4. CASE Gone(p)
      BY <1>1, <2>1, <2>4 DEF Gone, SeenWhereItIs, NoPod
    <2>5. CASE Sync(p)
      BY <1>1, <2>1, <2>5 DEF Sync, SeenWhereItIs
    <2>6. QED
      BY <1>8, <2>2, <2>3, <2>4, <2>5
  <1>9. CASE UNCHANGED vars
    BY <1>2, <1>9 DEF vars
  <1>10. QED
    BY <1>3, <1>4, <1>5, <1>6, <1>7, <1>8, <1>9, ObserverSteps

\* A step of p's that neither reserves anything nor places a Pod, and leaves
\* what other requests count on as it is.
Quiet(p) ==
  /\ UNCHANGED <<pending, reserved>>
  /\ \A q \in Pods \ {p} : req'[q] = req[q]
  /\ \A q \in Pods : q \in PlacedOnSpot' =>
       /\ q \in PlacedOnSpot
       /\ req'[q].age = req[q].age
       /\ Unobserved(q)' => Unobserved(q)
  /\ req'[p].pc \in {"observed", "listed"} => req'[p] = req[p]
  /\ req'[p].pc \in InHandler => req'[p].age <= RequestTimeout

\* A quiet step keeps every placed Pod covered.
LEMMA QuietCover ==
  ASSUME CoverInv, NEW p \in Pods, Quiet(p)
  PROVE  CoverInv'
  <1>1. ASSUME NEW q \in Pods PROVE Held(q)'
    BY <1>1 DEF CoverInv, Quiet, Held
  <1>2. ASSUME NEW r \in Pods, NEW q \in Pods PROVE Covers(r, q)'
    <2>1. Covers(r, q)
      BY DEF CoverInv
    <2>2. q \in PlacedOnSpot' => q \in PlacedOnSpot
      BY DEF Quiet
    <2>3. req'[r].pc \in {"observed", "listed"} => req'[r] = req[r]
      BY DEF Quiet
    <2>4. QED
      BY <2>1, <2>2, <2>3 DEF Covers, Quiet
  <1>3. ASSUME NEW r \in Pods PROVE Timely(r)'
    <2>1. Timely(r)
      BY DEF CoverInv
    <2>2. req'[r].pc \in {"observed", "listed"} => req'[r] = req[r]
      BY DEF Quiet
    <2>3. UNCHANGED pending
      BY DEF Quiet
    <2>4. req'[r].pc \in InHandler => req'[r].age <= RequestTimeout
      BY <2>1 DEF Quiet, Timely, InFlight
    <2>5. QED
      BY <2>1, <2>2, <2>3, <2>4 DEF Timely, InFlight, EntryExists
  <1>4. QED
    BY <1>1, <1>2, <1>3 DEF CoverInv

\* The steps of a request that place nothing are quiet.
LEMMA QuietSteps ==
  ASSUME Steady, TypeOK, CoverInv, \A q \in Pods : SeenWhereItIs(q), NEW p \in Pods,
         \/ Arrive(p) \/ GetWorkloadConfig(p) \/ FallBackToOnDemand(p) \/ AnswerStep(p)
         \/ UseSnapshot(p) /\ Answer(p, "onDemand") /\ UNCHANGED pending
  PROVE  Quiet(p)
  <1>1. /\ req \in [Pods -> Request] /\ pods \in [Pods -> PodObject]
        /\ Timely(p) /\ SeenWhereItIs(p) /\ RequestTimeout \in Nat
    BY AdmissionAssumption DEF TypeOK, ClusterTypeOK, CoverInv
  <1>2. SUFFICES /\ UNCHANGED <<pending, reserved>>
                 /\ \A q \in Pods \ {p} : /\ pods'[q] = pods[q] /\ view'[q] = view[q]
                                          /\ req'[q] = req[q]
                 /\ p \in PlacedOnSpot' => /\ p \in PlacedOnSpot
                                           /\ req'[p].age = req[p].age
                                           /\ Unobserved(p)' => Unobserved(p)
                 /\ req'[p].pc \in {"observed", "listed"} => req'[p] = req[p]
                 /\ req'[p].pc \in InHandler => req'[p].age <= RequestTimeout
    BY <1>2 DEF Quiet, PlacedOnSpot, Unobserved
  <1>3. ASSUME NEW c \in Capacity, c # "spot", Answer(p, c), req[p].pc # "idle",
               UNCHANGED <<pods, view, pending, reserved>>
        PROVE  /\ \A q \in Pods \ {p} : req'[q] = req[q]
               /\ p \notin PlacedOnSpot'
               /\ req'[p].pc = "answered"
    BY <1>1, <1>3, AnsweredRequest DEF PlacedOnSpot, SeenWhereItIs
  <1>4. CASE Arrive(p)
    BY <1>1, <1>4 DEF Arrive, Idle, NoPod, PodObject, PlacedOnSpot
  <1>5. CASE GetWorkloadConfig(p)
    <2>1. CASE Answer(p, "none")
      BY <1>3, <1>5, <2>1 DEF GetWorkloadConfig, InHandler, Capacity
    <2>2. CASE req' = [req EXCEPT ![p] = [@ EXCEPT !.pc = "configured",
                                           !.policy = workload.policy]]
      <3>1. req'[p].pc = "configured" /\ req'[p].age = req[p].age
        BY <1>1, <2>2 DEF Request
      <3>2. p \notin PlacedOnSpot'
        BY <1>1, <1>5, <3>1 DEF GetWorkloadConfig, PlacedOnSpot, SeenWhereItIs
      <3>3. req[p].age <= RequestTimeout
        BY <1>1, <1>5 DEF GetWorkloadConfig, Timely, InFlight, InHandler, PCs
      <3>4. QED
        BY <1>1, <1>5, <2>2, <3>1, <3>2, <3>3 DEF GetWorkloadConfig
    <2>3. QED
      BY <1>5, <2>1, <2>2 DEF GetWorkloadConfig
  <1>6. CASE FallBackToOnDemand(p)
    BY <1>3, <1>6 DEF FallBackToOnDemand, InHandler, Capacity, CapacityTypes
  <1>7. CASE UseSnapshot(p) /\ Answer(p, "onDemand") /\ UNCHANGED pending
    BY <1>3, <1>7 DEF UseSnapshot, InHandler, Capacity, CapacityTypes
  <1>8. CASE AnswerStep(p)
    <2>1. CASE Persist(p)
      BY <1>1, <2>1 DEF Persist, Idle, PodObject, PlacedOnSpot, Unobserved, InHandler, PCs
    <2>2. CASE Drop(p)
      BY <1>1, <2>2 DEF Drop, Idle, NoPod, PlacedOnSpot, InHandler, PCs
    <2>3. CASE Timeout(p)
      BY <1>1, <2>3 DEF Timeout, PodObject, PlacedOnSpot, SeenWhereItIs, InHandler, Timely
    <2>4. CASE DiscardAnswer(p)
      BY <1>1, <2>4 DEF DiscardAnswer, Idle, PlacedOnSpot, SeenWhereItIs, InHandler, PCs
    <2>5. QED
      BY <1>8, <2>1, <2>2, <2>3, <2>4 DEF AnswerStep
  <1>9. QED
    BY <1>4, <1>5, <1>6, <1>7, <1>8

\* So are the steps of the cluster.
LEMMA QuietClusterSteps ==
  ASSUME TypeOK, CoverInv, \A q \in Pods : SeenWhereItIs(q), NEW p \in Pods,
         UNCHANGED admissionVars,
         \/ \E c \in CapacityTypes : Bind(p, c)
         \/ Terminate(p) \/ Gone(p) \/ Sync(p)
  PROVE  Quiet(p)
  <1>1. /\ req \in [Pods -> Request] /\ pods \in [Pods -> PodObject]
        /\ view \in [Pods -> PodObject]
        /\ Timely(p) /\ SeenWhereItIs(p) /\ UNCHANGED <<pending, req, reserved>>
    BY DEF TypeOK, ClusterTypeOK, CoverInv, admissionVars
  <1>2. req'[p].pc \in InHandler => req'[p].age <= RequestTimeout
    BY <1>1 DEF Timely, InFlight
  <1>3. SUFFICES /\ \A q \in Pods \ {p} : pods'[q] = pods[q] /\ view'[q] = view[q]
                 /\ p \in PlacedOnSpot' => /\ p \in PlacedOnSpot
                                           /\ Unobserved(p)' => Unobserved(p)
    BY <1>1, <1>2, <1>3 DEF Quiet, PlacedOnSpot, Unobserved
  <1>4. ASSUME NEW c \in CapacityTypes, Bind(p, c)
        PROVE  /\ \A q \in Pods \ {p} : pods'[q] = pods[q] /\ view'[q] = view[q]
               /\ p \in PlacedOnSpot' => /\ p \in PlacedOnSpot
                                         /\ Unobserved(p)' => Unobserved(p)
    BY <1>1, <1>4 DEF Bind, PodObject, PlacedOnSpot, Unobserved
  <1>5. CASE Terminate(p)
    BY <1>1, <1>5 DEF Terminate, PodObject, PlacedOnSpot
  <1>6. CASE Gone(p)
    BY <1>1, <1>6 DEF Gone, NoPod, PlacedOnSpot
  <1>7. CASE Sync(p)
    BY <1>1, <1>7 DEF Sync, PlacedOnSpot, Unobserved, SeenWhereItIs
  <1>8. QED
    BY <1>4, <1>5, <1>6, <1>7

\* A placed Pod that a snapshot does not show is one the cache does not show.
LEMMA ObserveCover ==
  ASSUME Steady, TypeOK, CoverInv, \A q \in Pods : SeenWhereItIs(q),
         NEW p \in Pods, Observe(p)
  PROVE  CoverInv' /\ PlacedOnSpot' \subseteq PlacedOnSpot
  <1>1. /\ req \in [Pods -> Request] /\ SeenWhereItIs(p) /\ Timely(p)
        /\ req[p].pc = "configured" /\ UNCHANGED <<pods, view, pending, reserved>>
    BY DEF TypeOK, CoverInv, Observe
  <1>2. /\ req'[p].pc = "observed" /\ req'[p].age = req[p].age
        /\ req'[p].snapshotAge = 0 /\ req'[p].spot = ActualPods("spot", {})
        /\ \A q \in Pods \ {p} : req'[q] = req[q]
    <2>1. UnknownChoices = {{}}
      BY DEF Steady, UnknownChoices
    <2>2. req' = [req EXCEPT ![p] =
             [@ EXCEPT !.pc = "observed", !.generation = workload.generation,
                       !.replicas = workload.replicas,
                       !.spot = ActualPods("spot", {}),
                       !.onDemand = ActualPods("onDemand", {}),
                       !.snapshotAge = 0]]
      BY <2>1 DEF Observe
    <2>3. QED
      BY <1>1, <2>2 DEF Request
  <1>3. p \notin PlacedOnSpot /\ p \notin PlacedOnSpot'
    BY <1>1, <1>2 DEF PlacedOnSpot, SeenWhereItIs
  <1>4. \A q \in Pods \ {p} :
           /\ q \in PlacedOnSpot' => q \in PlacedOnSpot
           /\ Unobserved(q)' => Unobserved(q)
    BY <1>1, <1>2, <1>3 DEF PlacedOnSpot, Unobserved
  <1>5. ASSUME NEW q \in Pods, q \in PlacedOnSpot, q \notin ActualPods("spot", {})
        PROVE  Unobserved(q)
    <2>1. SeenWhereItIs(q)
      OBVIOUS
    <2>2. ~(view[q].phase \in {"bound", "ready"} /\ view[q].node = "spot")
      BY <1>5 DEF ActualPods, capacityFor
    <2>3. QED
      BY <1>5, <2>1, <2>2 DEF PlacedOnSpot, Unobserved, SeenWhereItIs
  <1>6. ASSUME NEW q \in Pods PROVE Held(q)'
    BY <1>1, <1>2, <1>3, <1>4 DEF CoverInv, Held
  <1>7. ASSUME NEW r \in Pods, NEW q \in Pods PROVE Covers(r, q)'
    <2>1. Covers(r, q) /\ Held(q)
      BY DEF CoverInv
    <2>2. CASE r # p
      BY <1>1, <1>2, <1>3, <1>4, <2>1, <2>2 DEF Covers
    <2>3. CASE r = p
      <3>1. SUFFICES ASSUME q \in PlacedOnSpot', q \notin req'[p].spot
                     PROVE  reserved[q] = "spot" /\ pending.lastUpdated <= VisibleWithin
        BY <1>1, <1>2, <2>3, AdmissionAssumption DEF Covers
      <3>2. /\ reserved[q] = "spot" /\ pending.lastUpdated <= req[q].age
            /\ req[q].age <= VisibleWithin
        BY <1>2, <1>3, <1>4, <1>5, <2>1, <3>1 DEF Held
      <3>3. QED
        BY <1>1, <3>2, AdmissionAssumption DEF TypeOK, PendingAdmission, Request
    <2>4. QED
      BY <2>2, <2>3
  <1>8. ASSUME NEW r \in Pods PROVE Timely(r)'
    <2>1. Timely(r)
      BY DEF CoverInv
    <2>2. req[p].age <= RequestTimeout
      BY <1>1 DEF Timely, InFlight, InHandler, PCs
    <2>3. QED
      BY <1>1, <1>2, <2>1, <2>2 DEF Timely, InFlight, EntryExists
  <1>9. QED
    BY <1>3, <1>4, <1>6, <1>7, <1>8 DEF CoverInv, PlacedOnSpot

\* Recording the pod list refreshes the entry and keeps what it counts.
LEMMA ListCover ==
  ASSUME Steady, ReservationInv, CoverInv, \A q \in Pods : SeenWhereItIs(q),
         NEW p \in Pods, UseSnapshot(p), ~(req[p].snapshotAge > PodListMaxAge)
  PROVE  CoverInv' /\ PlacedOnSpot' \subseteq PlacedOnSpot
  <1>1. /\ TypeOK /\ req \in [Pods -> Request] /\ SeenWhereItIs(p)
        /\ req[p].pc = "observed" /\ req[p].snapshotAge <= PodListMaxAge
        /\ UNCHANGED <<pods, view, reserved>>
    BY AdmissionAssumption DEF ReservationInv, TypeOK, UseSnapshot, Request
  <1>2. /\ UpdatePodListMetadata(req[p].generation)
        /\ req' = [req EXCEPT ![p].pc = "listed"]
    BY DEF UseSnapshot, Steady
  <1>3. req[p].generation \in Nat /\ req[p].generation # 0
    BY <1>1, RealGeneration DEF HasGeneration
  <1>4. pending'.lastUpdated = 0 /\ EntryExists'
    BY <1>1, <1>2, <1>3, ListedEntry DEF EntryExists
  <1>5. /\ req'[p].pc = "listed" /\ req'[p].age = req[p].age
        /\ req'[p].spot = req[p].spot
        /\ \A q \in Pods \ {p} : req'[q] = req[q]
        /\ \A q \in Pods : req[q].age \in Nat /\ req[q].snapshotAge \in Nat
    BY <1>1, <1>2 DEF Request
  <1>6. p \notin PlacedOnSpot /\ p \notin PlacedOnSpot'
    BY <1>1, <1>5 DEF PlacedOnSpot, SeenWhereItIs
  <1>7. \A q \in Pods \ {p} :
           /\ q \in PlacedOnSpot' => q \in PlacedOnSpot
           /\ Unobserved(q)' => Unobserved(q)
    BY <1>1, <1>5, <1>6 DEF PlacedOnSpot, Unobserved
  <1>8. ASSUME NEW q \in Pods PROVE Held(q)'
    BY <1>1, <1>4, <1>5, <1>6, <1>7 DEF CoverInv, Held
  <1>9. ASSUME NEW r \in Pods, NEW q \in Pods PROVE Covers(r, q)'
    <2>1. Covers(r, q) /\ Covers(p, q)
      BY DEF CoverInv
    <2>2. CASE r # p
      BY <1>1, <1>4, <1>5, <1>6, <1>7, <2>1, <2>2, AdmissionAssumption DEF Covers
    <2>3. CASE r = p
      BY <1>1, <1>5, <1>6, <1>7, <2>1, <2>3 DEF Covers
    <2>4. QED
      BY <2>2, <2>3
  <1>10. ASSUME NEW r \in Pods PROVE Timely(r)'
    <2>1. Timely(r) /\ Timely(p)
      BY DEF CoverInv
    <2>2. req[p].age <= RequestTimeout
      BY <1>1, <2>1 DEF Timely, InFlight, InHandler, PCs
    <2>3. QED
      BY <1>4, <1>5, <2>1, <2>2 DEF Timely, InFlight
  <1>11. QED
    BY <1>6, <1>7, <1>8, <1>9, <1>10 DEF CoverInv, PlacedOnSpot

\* A reservation is added to the ones that are held; it is the only step that
\* places a Pod on spot.
LEMMA SelectCover ==
  ASSUME Steady, ReservationInv, FixedInv, CoverInv, \A q \in Pods : SeenWhereItIs(q),
         NEW p \in Pods, SelectAndReserve(p)
  PROVE  /\ CoverInv'
         /\ \/ PlacedOnSpot' \subseteq PlacedOnSpot
            \/ /\ SpotReserved(p)
               /\ PlacedOnSpot' \subseteq req[p].spot \cup ReservedPods("spot")'
  <1>1. /\ TypeOK /\ req \in [Pods -> Request] /\ SeenWhereItIs(p) /\ Timely(p)
        /\ req[p].pc = "listed" /\ UNCHANGED <<pods, view>>
        /\ reserved \in [Pods -> Capacity]
    BY DEF ReservationInv, TypeOK, SelectAndReserve, CoverInv
  <1>2. EntryExists /\ pending.generation = req[p].generation
    BY <1>1 DEF Timely, FixedInv, UpToDate, HasGeneration
  <1>3. /\ reserved' = [reserved EXCEPT ![p] = Selected(p)]
        /\ pending'.lastUpdated = 0 /\ pending'.generation = req[p].generation
    <2>1. req[p].generation \in Nat
      BY <1>1 DEF Request
    <2>2. QED
      BY <1>1, <1>2, <2>1, ReservedEntry
         DEF SelectAndReserve, IncrementPending, ReservationsFor
  <1>4. /\ req'[p].pc = "answered" /\ req'[p].choice = Selected(p) /\ req'[p].age = 0
        /\ \A q \in Pods \ {p} : req'[q] = req[q]
        /\ \A q \in Pods : req[q].age \in Nat /\ req[q].snapshotAge \in Nat
    BY <1>1, AnsweredRequest DEF SelectAndReserve, Request
  <1>5. EntryExists'
    BY <1>2, <1>3 DEF EntryExists
  <1>6. p \in PlacedOnSpot' => Selected(p) = "spot"
    BY <1>1, <1>4 DEF PlacedOnSpot, SeenWhereItIs
  <1>7. \A q \in Pods \ {p} :
           /\ q \in PlacedOnSpot' => q \in PlacedOnSpot
           /\ Unobserved(q)' => Unobserved(q)
           /\ reserved'[q] = reserved[q]
    BY <1>1, <1>3, <1>4 DEF PlacedOnSpot, Unobserved
  <1>8. p \in PlacedOnSpot' => reserved'[p] = "spot"
    BY <1>1, <1>3, <1>6
  <1>9. ASSUME NEW q \in Pods PROVE Held(q)'
    BY <1>3, <1>4, <1>7, <1>8, AdmissionAssumption DEF CoverInv, Held
  <1>10. ASSUME NEW r \in Pods, NEW q \in Pods PROVE Covers(r, q)'
    <2>1. Covers(r, q)
      BY DEF CoverInv
    <2>2. CASE r # p
      BY <1>3, <1>4, <1>7, <1>8, <2>1, <2>2, AdmissionAssumption DEF Covers
    <2>3. CASE r = p
      BY <1>4, <2>3 DEF Covers
    <2>4. QED
      BY <2>2, <2>3
  <1>11. ASSUME NEW r \in Pods PROVE Timely(r)'
    <2>1. Timely(r)
      BY DEF CoverInv
    <2>2. QED
      BY <1>3, <1>4, <1>5, <2>1 DEF Timely, InFlight, InHandler
  <1>12. CASE Selected(p) # "spot"
    BY <1>6, <1>7, <1>9, <1>10, <1>11, <1>12 DEF CoverInv, PlacedOnSpot
  <1>13. CASE Selected(p) = "spot"
    <2>1. SpotReserved(p)
      BY <1>1, <1>4, <1>13 DEF SpotReserved
    <2>2. ASSUME NEW q \in Pods, q \in PlacedOnSpot'
          PROVE  q \in req[p].spot \/ reserved'[q] = "spot"
      BY <1>1, <1>7, <1>8, <2>2 DEF CoverInv, Covers
    <2>3. QED
      BY <1>9, <1>10, <1>11, <2>1, <2>2 DEF CoverInv, PlacedOnSpot, ReservedPods
  <1>14. QED
    BY <1>12, <1>13

\* An entry that a placed Pod or a request still counts on does not expire.
LEMMA CleanupCover ==
  ASSUME Steady, TypeOK, CoverInv, Cleanup
  PROVE  CoverInv' /\ PlacedOnSpot' \subseteq PlacedOnSpot
  <1>1. /\ UNCHANGED <<pods, view, req>>
        /\ pending.lastUpdated \in Nat /\ pending.lastUpdated > TTL
    BY DEF Cleanup, TypeOK, PendingAdmission
  <1>2. \A q \in Pods : req[q].age \in Nat /\ req[q].snapshotAge \in Nat
    BY DEF TypeOK, Request
  <1>3. VisibleWithin + PodListMaxAge <= TTL /\ RequestTimeout <= TTL
    BY DEF Steady
  <1>4. ASSUME NEW q \in Pods PROVE Held(q)'
    <2>1. Held(q)
      BY DEF CoverInv
    <2>2. ~(q \in PlacedOnSpot /\ Unobserved(q))
      BY <1>1, <1>2, <1>3, <2>1, AdmissionAssumption DEF Held
    <2>3. QED
      BY <1>1, <2>2 DEF Held, PlacedOnSpot, Unobserved
  <1>5. ASSUME NEW r \in Pods PROVE req[r].pc # "listed"
    <2>1. Timely(r)
      BY DEF CoverInv
    <2>2. req[r].pc = "listed" => r \in InFlight
      BY DEF InFlight, InHandler, PCs
    <2>3. QED
      BY <1>1, <1>2, <1>3, <2>1, <2>2, AdmissionAssumption DEF Timely
  <1>6. ASSUME NEW r \in Pods, NEW q \in Pods PROVE Covers(r, q)'
    <2>1. Covers(r, q)
      BY DEF CoverInv
    <2>2. ~(/\ q \in PlacedOnSpot /\ q \notin req[r].spot
            /\ req[r].pc = "observed" /\ req[r].snapshotAge <= PodListMaxAge)
      BY <1>1, <1>2, <1>3, <2>1, AdmissionAssumption DEF Covers
    <2>3. QED
      BY <1>1, <1>5, <2>2 DEF Covers, PlacedOnSpot
  <1>7. ASSUME NEW r \in Pods PROVE Timely(r)'
    <2>1. Timely(r)
      BY DEF CoverInv
    <2>2. QED
      BY <1>1, <1>5, <2>1 DEF Timely, InFlight
  <1>8. QED
    BY <1>1, <1>4, <1>6, <1>7 DEF CoverInv, PlacedOnSpot

\* Time passes for an entry no faster than for those that count on it.
LEMMA TickCover ==
  ASSUME TypeOK, CoverInv, Tick
  PROVE  CoverInv' /\ PlacedOnSpot' \subseteq PlacedOnSpot
  <1>1. /\ UNCHANGED <<pods, view, reserved>>
        /\ \A q \in Pods : /\ q \in InFlight => req[q].age < RequestTimeout
                           /\ Unobserved(q) => req[q].age < VisibleWithin
    BY DEF Tick
  <1>2. \A q \in Pods : req[q].age \in Nat /\ req[q].snapshotAge \in Nat
    BY DEF TypeOK, Request
  <1>3. /\ pending'.generation = pending.generation
        /\ pending.lastUpdated \in Nat /\ pending'.lastUpdated \in Nat
        /\ pending'.lastUpdated <= pending.lastUpdated + 1
    BY AgedEntry
  <1>4. \A q \in Pods :
          /\ req'[q].pc = req[q].pc /\ req'[q].spot = req[q].spot
          /\ req'[q].choice = req[q].choice
          /\ q \in InFlight \/ Unobserved(q) => req'[q].age = req[q].age + 1
          /\ req[q].pc = "observed" =>
               req'[q].snapshotAge = Older(req[q].snapshotAge, PodListMaxAge)
    BY AgedRequest
  <1>5. \A q \in Pods : /\ q \in PlacedOnSpot' <=> q \in PlacedOnSpot
                        /\ q \in InFlight' <=> q \in InFlight
                        /\ Unobserved(q)' <=> Unobserved(q)
    BY <1>1, <1>4 DEF PlacedOnSpot, InFlight, Unobserved
  <1>6. ASSUME NEW q \in Pods PROVE Held(q)'
    <2>1. Held(q)
      BY DEF CoverInv
    <2>2. SUFFICES ASSUME q \in PlacedOnSpot', Unobserved(q)'
                   PROVE  /\ reserved'[q] = "spot"
                          /\ pending'.lastUpdated <= req'[q].age
                          /\ req'[q].age <= VisibleWithin
      BY DEF Held
    <2>3. q \in PlacedOnSpot /\ Unobserved(q)
      BY <1>5, <2>2
    <2>4. /\ reserved[q] = "spot" /\ pending.lastUpdated <= req[q].age
          /\ req[q].age < VisibleWithin /\ req'[q].age = req[q].age + 1
      BY <1>1, <1>4, <2>1, <2>3 DEF Held
    <2>5. QED
      BY <1>1, <1>2, <1>3, <2>4, AdmissionAssumption
  <1>7. ASSUME NEW r \in Pods, NEW q \in Pods PROVE Covers(r, q)'
    <2>1. Covers(r, q)
      BY DEF CoverInv
    <2>2. SUFFICES ASSUME q \in PlacedOnSpot', q \notin req'[r].spot
                   PROVE  /\ req'[r].pc = "observed" /\ req'[r].snapshotAge <= PodListMaxAge
                               => /\ reserved'[q] = "spot"
                                  /\ pending'.lastUpdated
                                       <= VisibleWithin + req'[r].snapshotAge
                          /\ req'[r].pc = "listed" => reserved'[q] = "spot"
      BY DEF Covers
    <2>3. q \in PlacedOnSpot /\ q \notin req[r].spot
      BY <1>4, <1>5, <2>2
    <2>4. req'[r].pc = "listed" => reserved'[q] = "spot"
      BY <1>1, <1>4, <2>1, <2>3 DEF Covers
    <2>5. ASSUME req'[r].pc = "observed", req'[r].snapshotAge <= PodListMaxAge
          PROVE  /\ reserved'[q] = "spot"
                 /\ pending'.lastUpdated <= VisibleWithin + req'[r].snapshotAge
      <3>1. /\ req[r].pc = "observed"
            /\ req'[r].snapshotAge = Older(req[r].snapshotAge, PodListMaxAge)
        BY <1>4, <2>5
      <3>2. /\ req[r].snapshotAge <= PodListMaxAge
            /\ req'[r].snapshotAge = req[r].snapshotAge + 1
        BY <1>2, <2>5, <3>1, AdmissionAssumption DEF Older
      <3>3. reserved[q] = "spot" /\ pending.lastUpdated <= VisibleWithin + req[r].snapshotAge
        BY <2>1, <2>3, <3>1, <3>2 DEF Covers
      <3>4. QED
        BY <1>1, <1>2, <1>3, <3>2, <3>3, AdmissionAssumption
    <2>6. QED
      BY <2>4, <2>5
  <1>8. ASSUME NEW r \in Pods PROVE Timely(r)'
    <2>1. Timely(r)
      BY DEF CoverInv
    <2>2. r \in InFlight => req'[r].age = req[r].age + 1 /\ req'[r].age <= RequestTimeout
      BY <1>1, <1>2, <1>4, AdmissionAssumption
    <2>3. req[r].pc = "listed" => r \in InFlight
      BY DEF InFlight, InHandler, PCs
    <2>4. QED
      BY <1>2, <1>3, <1>4, <1>5, <2>1, <2>2, <2>3 DEF Timely, EntryExists
  <1>9. QED
    BY <1>5, <1>6, <1>7, <1>8 DEF CoverInv, PlacedOnSpot

\* The inductive invariant behind SpotWithinTarget.
SpotInv ==
  /\ ReservationInv
  /\ FixedInv
  /\ \A q \in Pods : SeenWhereItIs(q)
  /\ CoverInv
  /\ SpotWithinTarget

\* At first no Pod is placed and no request is under way.
LEMMA SpotInit ==
  ASSUME Init
  PROVE  SpotInv
  <1>1. /\ pods = [p \in Pods |-> NoPod] /\ view = [p \in Pods |-> NoPod]
        /\ req = [p \in Pods |-> Idle] /\ Idle.pc = "idle"
        /\ pending.generation = 0 /\ workload \in WorkloadObject
    BY ReservationInit, InitialValues
       DEF Init, ClusterInit, NoEntry, NewEntry, ReservationInv, TypeOK, ClusterTypeOK
  <1>2. PlacedOnSpot = {}
    BY <1>1 DEF PlacedOnSpot, NoPod
  <1>3. FixedInv
    BY <1>1 DEF FixedInv, EntryExists, UpToDate, HasGeneration
  <1>4. \A q \in Pods : SeenWhereItIs(q)
    BY <1>1 DEF SeenWhereItIs, NoPod
  <1>5. CoverInv
    BY <1>1, <1>2 DEF CoverInv, Held, Covers, Timely, InFlight, InHandler
  <1>6. SpotWithinTarget
    <2>1. AllocateReplicaDistribution(workload.replicas, workload.policy).targetSpot \in Nat
      BY <1>1, TargetType, WorkloadAssumption DEF WorkloadObject
    <2>2. Cardinality(PlacedOnSpot) = 0
      BY <1>2, FS_EmptySet
    <2>3. QED
      BY <2>1, <2>2 DEF SpotWithinTarget
  <1>7. QED
    BY <1>3, <1>4, <1>5, <1>6, ReservationInit DEF SpotInv

\* What the placed Pods are after a step.
LEMMA CoverStep ==
  ASSUME Steady, SpotInv, [Next]_vars
  PROVE  /\ CoverInv'
         /\ \/ PlacedOnSpot' \subseteq PlacedOnSpot
            \/ \E p \in Pods :
                 /\ SelectAndReserve(p) /\ SpotReserved(p)
                 /\ PlacedOnSpot' \subseteq req[p].spot \cup ReservedPods("spot")'
  <1>1. /\ TypeOK /\ ReservationInv /\ FixedInv /\ CoverInv
        /\ \A q \in Pods : SeenWhereItIs(q)
    BY DEF SpotInv, ReservationInv
  <1>2. ASSUME NEW p \in Pods, Quiet(p)
        PROVE  CoverInv' /\ PlacedOnSpot' \subseteq PlacedOnSpot
    <2>1. PlacedOnSpot' \subseteq Pods
      BY DEF PlacedOnSpot
    <2>2. QED
      BY <1>1, <1>2, <2>1, QuietCover DEF Quiet
  <1>3. ASSUME NEW p \in Pods,
               \/ Arrive(p) \/ GetWorkloadConfig(p) \/ FallBackToOnDemand(p)
               \/ AnswerStep(p)
        PROVE  CoverInv' /\ PlacedOnSpot' \subseteq PlacedOnSpot
    BY <1>1, <1>2, <1>3, QuietSteps
  <1>4. ASSUME NEW p \in Pods, UseSnapshot(p)
        PROVE  CoverInv' /\ PlacedOnSpot' \subseteq PlacedOnSpot
    <2>1. CASE req[p].snapshotAge > PodListMaxAge
      <3>1. Answer(p, "onDemand") /\ UNCHANGED pending
        BY <1>4, <2>1 DEF UseSnapshot
      <3>2. QED
        BY <1>1, <1>2, <1>4, <3>1, QuietSteps
    <2>2. CASE ~(req[p].snapshotAge > PodListMaxAge)
      BY <1>1, <1>4, <2>2, ListCover
    <2>3. QED
      BY <2>1, <2>2
  <1>5. ASSUME NEW p \in Pods, Observe(p)
        PROVE  CoverInv' /\ PlacedOnSpot' \subseteq PlacedOnSpot
    BY <1>1, <1>5, ObserveCover
  <1>6. ASSUME NEW p \in Pods, SelectAndReserve(p)
        PROVE  /\ CoverInv'
               /\ \/ PlacedOnSpot' \subseteq PlacedOnSpot
                  \/ /\ SpotReserved(p)
                     /\ PlacedOnSpot' \subseteq req[p].spot \cup ReservedPods("spot")'
    BY <1>1, <1>6, SelectCover
  <1>7. CASE Cleanup
    BY <1>1, <1>7, CleanupCover
  <1>8. CASE Tick
    BY <1>1, <1>8, TickCover
  <1>9. ASSUME NEW p \in Pods, UNCHANGED admissionVars,
               \/ \E c \in CapacityTypes : Bind(p, c)
               \/ Terminate(p) \/ Gone(p) \/ Sync(p)
        PROVE  CoverInv' /\ PlacedOnSpot' \subseteq PlacedOnSpot
    BY <1>1, <1>2, <1>9, QuietClusterSteps
  <1>10. CASE UNCHANGED vars
    <2>1. UNCHANGED <<pods, view, pending, req, reserved>>
      BY <1>10 DEF vars
    <2>2. PlacedOnSpot' = PlacedOnSpot
      BY <2>1 DEF PlacedOnSpot
    <2>3. QED
      BY <1>1, <2>1, <2>2
         DEF CoverInv, Held, Covers, Timely, Unobserved, InFlight, EntryExists
  <1>11. QED
    BY <1>1, <1>3, <1>4, <1>5, <1>6, <1>7, <1>8, <1>9, <1>10, ObserverSteps

\* No step takes the placed Pods over the target.
LEMMA SpotStep ==
  ASSUME Steady, SpotInv, [Next]_vars
  PROVE  SpotInv'
  <1>1. /\ TypeOK /\ ReservationInv /\ FixedInv /\ \A q \in Pods : SeenWhereItIs(q)
        /\ SpotWithinTarget
    BY DEF SpotInv, ReservationInv
  <1>2. ReservationInv' /\ FixedInv' /\ CoverInv' /\ UNCHANGED workload
    BY <1>1, ReservationStep, FixedStep, CoverStep, WorkloadStays
  <1>3. \A q \in Pods : SeenWhereItIs(q)'
    BY <1>1, SeenStep
  <1> DEFINE target ==
        AllocateReplicaDistribution(workload.replicas, workload.policy).targetSpot
  <1>4. target \in Nat
    BY <1>1, TargetType, WorkloadAssumption DEF TypeOK, ClusterTypeOK, WorkloadObject
  <1>5. target' = target
    BY <1>2
  <1>6. /\ PlacedOnSpot \in SUBSET Pods /\ PlacedOnSpot' \in SUBSET Pods
        /\ Cardinality(PlacedOnSpot) <= target
    BY <1>1 DEF PlacedOnSpot, SpotWithinTarget
  <1>7. Cardinality(PlacedOnSpot) \in Nat /\ Cardinality(PlacedOnSpot') \in Nat
    BY <1>6, PodSets
  <1>8. Cardinality(PlacedOnSpot') <= target
    <2> HIDE DEF target
    <2>1. CASE PlacedOnSpot' \subseteq PlacedOnSpot
      <3>1. Cardinality(PlacedOnSpot') <= Cardinality(PlacedOnSpot)
        BY <1>6, <2>1, PodSets, FS_Subset
      <3>2. QED
        BY <1>4, <1>6, <1>7, <3>1
    <2>2. ASSUME NEW p \in Pods, SelectAndReserve(p), SpotReserved(p),
                 PlacedOnSpot' \subseteq req[p].spot \cup ReservedPods("spot")'
          PROVE  Cardinality(PlacedOnSpot') <= target
      <3> DEFINE counted == req[p].spot \cup ReservedPods("spot")'
      <3>1. Target(p).targetSpot = target
        BY <1>1, <2>2 DEF FixedInv, UpToDate, HasGeneration, SelectAndReserve, Target, target
      <3>2. Cardinality(counted) <= target
        BY <1>1, <2>2, <3>1, SelectWithinTarget
      <3>3. counted \in SUBSET Pods
        BY <1>1 DEF TypeOK, Request, ReservedPods
      <3>4. PlacedOnSpot' \subseteq counted
        BY <2>2
      <3> HIDE DEF counted
      <3>5. Cardinality(PlacedOnSpot') <= Cardinality(counted) /\ Cardinality(counted) \in Nat
        BY <3>3, <3>4, PodSets, FS_Subset
      <3>6. QED
        BY <1>4, <1>7, <3>2, <3>5
    <2>3. QED
      BY <2>1, <2>2, CoverStep
  <1>9. SpotWithinTarget'
    BY <1>5, <1>8 DEF SpotWithinTarget
  <1>10. QED
    BY <1>2, <1>3, <1>9 DEF SpotInv

\* With Observer and the tracker, however many requests run at the same time,
\* however far the cache lags within VisibleWithin and whatever is dropped,
\* timed out or deleted, the webhook never has more Pods placed on spot than
\* the target: a reservation lives until its Pod is in every snapshot that can
\* still be used.  (SelectAndReserve, UpdatePodListMetadata, cleanup)
THEOREM SpotAlwaysWithinTarget ==
  ASSUME Steady
  PROVE  Spec => []SpotWithinTarget
  <1>1. Init => SpotInv
    BY SpotInit
  <1>2. SpotInv /\ [Next]_vars => SpotInv'
    BY SpotStep
  <1>3. SpotInv => SpotWithinTarget
    BY DEF SpotInv
  <1>4. QED
    BY <1>1, <1>2, <1>3, PTL DEF Spec
=============================================================================
