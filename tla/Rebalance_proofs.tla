-------------------------- MODULE Rebalance_proofs --------------------------
(***************************************************************************)
(* Proofs about the Deployment reconciler, for every set of Pods, policy,  *)
(* cooldown, cache lag and disturbance.                                    *)
(***************************************************************************)
EXTENDS Rebalance, FiniteSetTheorems, TLAPS

\* The promise of Cooldown alone is not inductive.  Unless the memory was lost,
\* the recorded age never runs ahead of the true one, and a reconciliation
\* under way found the cooldown over, which no step but its own eviction can
\* undo.
SpacedInv ==
  /\ lastDeletion \in 0 .. CooldownPeriod
  /\ sinceEviction \in 0 .. CooldownPeriod
  /\ memory \in {"kept", "lost"}
  /\ "pc" \in DOMAIN rec
  /\ memory = "kept" => lastDeletion <= sinceEviction
  /\ rec.pc # "idle" /\ memory = "kept" => sinceEviction = CooldownPeriod

\* Time takes an age one up, until it reaches the cooldown period.
LEMMA CappedAge ==
  ASSUME NEW a \in 0 .. CooldownPeriod
  PROVE  /\ minInt32(a + 1, CooldownPeriod) \in 0 .. CooldownPeriod
         /\ minInt32(a + 1, CooldownPeriod) >= a
         /\ \A b \in 0 .. CooldownPeriod :
              b <= a => minInt32(b + 1, CooldownPeriod)
                          <= minInt32(a + 1, CooldownPeriod)
  BY RebalanceAssumption DEF minInt32

\* At the start no cooldown is running.
LEMMA SpacedInit == Init => SpacedInv
  BY RebalanceAssumption DEF Init, SpacedInv, Idle

\* No step lets the recorded age run ahead without being known to.
LEMMA SpacedStep ==
  ASSUME SpacedInv, [Next]_vars
  PROVE  SpacedInv'
  <1>1. CooldownPeriod \in Nat
    BY RebalanceAssumption
  <1>2. CASE Fetch
    <2>1. /\ UNCHANGED <<lastDeletion, sinceEviction>>
          /\ lastDeletion = CooldownPeriod
          /\ DOMAIN rec' = DOMAIN rec
      BY <1>1, <1>2 DEF Fetch, SpacedInv
    <2>2. memory' = IF sinceEviction < CooldownPeriod THEN memory ELSE "kept"
      BY <1>2 DEF Fetch
    <2>3. memory' = "kept" => sinceEviction = CooldownPeriod
      BY <1>1, <2>1, <2>2 DEF SpacedInv
    <2>4. QED
      BY <1>1, <2>1, <2>2, <2>3 DEF SpacedInv
  <1>3. CASE ForgetDeployment
    <2>1. /\ UNCHANGED <<sinceEviction, rec>>
          /\ rec.pc = "idle"
          /\ lastDeletion' = CooldownPeriod
          /\ memory' = LosesEviction(sinceEviction)
      BY <1>3 DEF ForgetDeployment
    <2>2. QED
      BY <1>1, <2>1 DEF SpacedInv, LosesEviction
  <1>4. ASSUME Measure \/ CheckWindow \/ Categorize \/ CheckPDBStatus
        PROVE  SpacedInv'
    <2>1. /\ UNCHANGED <<lastDeletion, sinceEviction, memory>>
          /\ rec.pc # "idle"
      BY <1>4 DEF Measure, CheckWindow, Categorize, CheckPDBStatus, histories
    <2>2. Done => "pc" \in DOMAIN rec'
      BY DEF Done, Idle
    <2>3. CASE Measure
      BY <2>1, <2>2, <2>3 DEF Measure, SpacedInv
    <2>4. CASE CheckWindow
      BY <2>1, <2>2, <2>4 DEF CheckWindow, SpacedInv
    <2>5. CASE Categorize
      BY <2>1, <2>2, <2>5 DEF Categorize, SpacedInv
    <2>6. CASE CheckPDBStatus
      BY <2>1, <2>2, <2>6 DEF CheckPDBStatus, SpacedInv
    <2>7. QED
      BY <1>4, <2>3, <2>4, <2>5, <2>6
  <1>5. CASE EvictPod
    <2>1. rec'.pc = "idle" /\ "pc" \in DOMAIN rec'
      BY <1>5 DEF EvictPod, Done, Idle
    <2>2. sinceEviction' = 0 \/ UNCHANGED sinceEviction
      BY <1>5 DEF EvictPod, TakeEffect
    <2>3. \/ lastDeletion' = 0 /\ memory' = "kept"
          \/ UNCHANGED <<lastDeletion, sinceEviction, memory>>
          \/ /\ UNCHANGED lastDeletion
             /\ memory' = LosesEviction(sinceEviction')
      BY <1>5 DEF EvictPod
    <2>4. QED
      BY <1>1, <2>1, <2>2, <2>3 DEF SpacedInv, LosesEviction
  <1>6. CASE Restart
    <2>1. rec'.pc = "idle" /\ "pc" \in DOMAIN rec'
      BY <1>6 DEF Restart, Done, Idle
    <2>2. /\ UNCHANGED sinceEviction
          /\ lastDeletion' = CooldownPeriod
          /\ memory' = LosesEviction(sinceEviction)
      BY <1>6 DEF Restart
    <2>3. QED
      BY <1>1, <2>1, <2>2 DEF SpacedInv, LosesEviction
  <1>7. CASE Tick
    <2>1. /\ lastDeletion' = minInt32(lastDeletion + 1, CooldownPeriod)
          /\ sinceEviction' = minInt32(sinceEviction + 1, CooldownPeriod)
          /\ UNCHANGED <<rec, memory>>
      BY <1>7 DEF Tick
    <2>2. /\ lastDeletion' \in 0 .. CooldownPeriod
          /\ sinceEviction' \in 0 .. CooldownPeriod
          /\ lastDeletion <= sinceEviction => lastDeletion' <= sinceEviction'
          /\ sinceEviction' >= sinceEviction
      BY <1>1, <2>1, CappedAge DEF SpacedInv
    <2>3. QED
      BY <1>1, <2>1, <2>2 DEF SpacedInv
  <1>8. ASSUME NEW q \in Pods, PodStep(q) \/ Interrupt(q)
        PROVE  SpacedInv'
    <2>1. UNCHANGED <<lastDeletion, sinceEviction, memory, rec>>
      BY <1>8 DEF PodStep, Interrupt, Replace, SyncPod, controllerVars,
                  histories
    <2>2. QED
      BY <2>1 DEF SpacedInv
  <1>9. ASSUME \/ EditAnnotations /\ UNCHANGED <<envVars, controllerVars>>
               \/ SyncStatus \/ Relabel \/ ToggleWindow \/ UNCHANGED vars
        PROVE  SpacedInv'
    <2>1. UNCHANGED <<lastDeletion, sinceEviction, memory, rec>>
      BY <1>9 DEF SyncStatus, Relabel, ToggleWindow, controllerVars, histories, vars
    <2>2. QED
      BY <2>1 DEF SpacedInv
  <1>10. QED
    BY <1>2, <1>3, <1>4, <1>5, <1>6, <1>7, <1>8, <1>9
       DEF Next, ReconcileStep

-----------------------------------------------------------------------------
(* The abstract promise.                                                   *)

\* What Cooldown sees of a state.
promised == <<sinceEviction, memory>>

\* A step of the reconciler or of time is one that the promise permits.
LEMMA PromiseStep ==
  ASSUME SpacedInv,
         \/ ReconcileStep \/ Restart \/ Tick
         \/ UNCHANGED promised
  PROVE  [Cooldown!Next]_promised
  <1>1. CooldownPeriod \in Nat
    BY RebalanceAssumption
  <1>2. LosesEviction(sinceEviction) = memory' /\ UNCHANGED sinceEviction
          => Cooldown!Forget
    BY DEF LosesEviction, Cooldown!Forget
  <1>3. CASE Fetch
    <2>1. /\ UNCHANGED sinceEviction
          /\ memory' = IF sinceEviction < CooldownPeriod THEN memory ELSE "kept"
      BY <1>3 DEF Fetch
    <2>2. memory' = memory \/ memory' = LosesEviction(sinceEviction)
      BY <2>1 DEF LosesEviction
    <2>3. QED
      BY <1>2, <2>1, <2>2 DEF promised, Cooldown!Next
  <1>4. CASE ForgetDeployment \/ Restart
    BY <1>2, <1>4 DEF ForgetDeployment, Restart, Cooldown!Next
  <1>5. CASE Measure \/ CheckWindow \/ Categorize \/ CheckPDBStatus
    BY <1>5 DEF Measure, CheckWindow, Categorize, CheckPDBStatus, histories, promised
  <1>6. CASE EvictPod
    <2>1. Cooldown!Permitted
      BY <1>6 DEF EvictPod, SpacedInv, Cooldown!Permitted
    <2>2. sinceEviction' = 0 \/ UNCHANGED sinceEviction
      BY <1>6 DEF EvictPod, TakeEffect
    <2>3. \/ memory' = "kept"
          \/ UNCHANGED promised
          \/ memory' = LosesEviction(sinceEviction')
      BY <1>6 DEF EvictPod, promised
    <2>4. sinceEviction' = 0 /\ memory' \in {"kept", "lost"} => Cooldown!Evict
      BY <2>1 DEF Cooldown!Evict
    <2>5. UNCHANGED sinceEviction /\ memory' = "kept" => Cooldown!Acknowledge
      BY <2>1 DEF Cooldown!Acknowledge
    <2>6. QED
      BY <1>2, <2>2, <2>3, <2>4, <2>5 DEF LosesEviction, promised, Cooldown!Next
  <1>7. CASE Tick
    <2>1. /\ sinceEviction' = minInt32(sinceEviction + 1, CooldownPeriod)
          /\ UNCHANGED memory
      BY <1>7 DEF Tick
    <2>2. sinceEviction < CooldownPeriod => Cooldown!Age
      BY <1>1, <2>1 DEF SpacedInv, minInt32, Cooldown!Age
    <2>3. sinceEviction >= CooldownPeriod => UNCHANGED promised
      BY <1>1, <2>1 DEF SpacedInv, minInt32, promised
    <2>4. QED
      BY <1>1, <2>2, <2>3 DEF SpacedInv, Cooldown!Next
  <1>8. QED
    BY <1>3, <1>4, <1>5, <1>6, <1>7 DEF ReconcileStep

\* An eviction that takes effect is the reconciler's own, and permitted.
LEMMA EvictStep ==
  ASSUME SpacedInv, Evicts,
         ReconcileStep \/ Restart \/ UNCHANGED rec \/ UNCHANGED pods
  PROVE  Cooldown!Evict
  <1>1. rec.pc = "evict" /\ rec'.pc = "idle" /\ pods' # pods
    BY DEF Evicts
  <1>2. EvictPod
    BY <1>1 DEF ReconcileStep, Fetch, ForgetDeployment, Measure, CheckWindow,
                Categorize, CheckPDBStatus, Restart
  <1>3. Cooldown!Permitted
    BY <1>1 DEF SpacedInv, Cooldown!Permitted
  <1>4. sinceEviction' = 0 /\ memory' \in {"kept", "lost"}
    BY <1>1, <1>2 DEF EvictPod, TakeEffect, LosesEviction
  <1>5. QED
    BY <1>3, <1>4 DEF Cooldown!Evict

\* The Deployment reconciler implements the promise of one eviction per
\* cooldown period.  (lastDeletionTimes)
THEOREM DeploymentKeepsPromise == Spec => PromiseKept
  <1>1. Init => Cooldown!Init
    BY DEF Init, Cooldown!Init
  <1>2. ASSUME SpacedInv, [Next]_vars
        PROVE  [Cooldown!Next]_promised
    <2>1. \/ ReconcileStep \/ Restart \/ Tick
          \/ UNCHANGED promised
      <3>1. ASSUME NEW q \in Pods, PodStep(q) \/ Interrupt(q)
            PROVE  UNCHANGED promised
        BY <3>1 DEF PodStep, Interrupt, Replace, SyncPod, controllerVars, histories,
                    promised
      <3>2. ASSUME \/ EditAnnotations /\ UNCHANGED <<envVars, controllerVars>>
                   \/ SyncStatus \/ Relabel \/ ToggleWindow \/ UNCHANGED vars
            PROVE  UNCHANGED promised
        BY <3>2 DEF SyncStatus, Relabel, ToggleWindow, controllerVars, histories,
                    vars, promised
      <3>3. QED
        BY <1>2, <3>1, <3>2 DEF Next
    <2>2. QED
      BY <1>2, <2>1, PromiseStep
  <1>3. ASSUME SpacedInv, [Next]_vars
        PROVE  [Evicts => Cooldown!Evict]_vars
    <2>1. ASSUME NEW q \in Pods, PodStep(q) \/ Interrupt(q)
          PROVE  UNCHANGED rec
      BY <2>1 DEF PodStep, Interrupt, Replace, SyncPod, controllerVars
    <2>2. ASSUME \/ EditAnnotations /\ UNCHANGED <<envVars, controllerVars>>
                 \/ SyncStatus \/ Relabel \/ ToggleWindow \/ Tick
          PROVE  UNCHANGED rec
      BY <2>2 DEF SyncStatus, Relabel, ToggleWindow, Tick, controllerVars
    <2>3. QED
      BY <1>3, <2>1, <2>2, EvictStep DEF Next
  <1>4. QED
    BY <1>1, <1>2, <1>3, SpacedInit, SpacedStep, PTL
       DEF Spec, PromiseKept, promised, Cooldown!Promise

-----------------------------------------------------------------------------
(* Types.                                                                  *)

\* What the engine asks for is natural numbers.  (CalculateDesiredDistribution)
LEMMA DesiredType ==
  ASSUME NEW total \in Nat, NEW policy \in Policy, NEW enabled \in BOOLEAN
  PROVE  LET d == CalculateDesiredDistribution(total, enabled, policy)
         IN  d.spot \in Nat /\ d.onDemand \in Nat
  <1> DEFINE n == total * policy.spotPercentage
  <1>1. policy.minOnDemand \in Nat /\ policy.spotPercentage \in 0 .. 100
    BY DEF Policy
  <1>2. n \in Nat
    BY <1>1
  <1> HIDE DEF n
  <1>3. n \div 100 \in Nat
    BY <1>2
  <1>4. /\ AllocateReplicaDistribution(total, policy).targetSpot \in Nat
        /\ AllocateReplicaDistribution(total, policy).targetOnDemand \in Nat
    <2>1. minInt32(policy.minOnDemand, total) \in 0 .. total
      BY <1>1 DEF minInt32
    <2> DEFINE s == minInt32(n \div 100, total - minInt32(policy.minOnDemand, total))
    <2>2. s \in 0 .. total
      BY <1>3, <2>1 DEF minInt32
    <2>3. /\ AllocateReplicaDistribution(total, policy).targetSpot = s
          /\ AllocateReplicaDistribution(total, policy).targetOnDemand = total - s
      BY DEF AllocateReplicaDistribution, n
    <2> HIDE DEF s
    <2>4. QED
      BY <2>2, <2>3
  <1>5. QED
    BY <1>4 DEF CalculateDesiredDistribution

\* The webhook answers with a capacity type, or not at all.
LEMMA ReplacementType == ReplacementChoice \in Capacity
  BY DEF ReplacementChoice, Choose, Capacity, CapacityTypes

\* There is something to choose the locals of an idle reconciliation from.
LEMMA IdleType ==
  ASSUME ClusterTypeOK
  PROVE  Idle \in Reconciliation /\ Idle.pc = "idle"
  <1>1. ReplicaCounts # {}
    BY DEF ClusterTypeOK, WorkloadObject
  <1>2. /\ (CHOOSE l \in Labels : TRUE) \in Labels
        /\ (CHOOSE policy \in Policies : TRUE) \in Policies
        /\ (CHOOSE n \in ReplicaCounts : TRUE) \in ReplicaCounts
    BY <1>1, RebalanceAssumption, WorkloadAssumption, Zenon
  <1>3. QED
    BY <1>2 DEF Idle, Reconciliation, PCs, NoVictim

\* One Pod may become another well-formed one.
LEMMA PodsUpdated ==
  ASSUME pods \in [Pods -> PodObject], NEW q \in Pods, NEW p \in PodObject,
         pods' = [pods EXCEPT ![q] = p]
  PROVE  pods' \in [Pods -> PodObject]
  OBVIOUS

\* A Pod that loses its phase is still one.
LEMMA PhaseType ==
  ASSUME pods \in [Pods -> PodObject], NEW q \in Pods, NEW ph \in Phases,
         pods' = [pods EXCEPT ![q].phase = ph]
  PROVE  pods' \in [Pods -> PodObject]
  <1>1. [pods[q] EXCEPT !.phase = ph] \in PodObject
    BY DEF PodObject
  <1>2. pods' = [pods EXCEPT ![q] = [pods[q] EXCEPT !.phase = ph]]
    OBVIOUS
  <1>3. QED
    BY <1>1, <1>2, PodsUpdated

\* A new Pod is one.
LEMMA PendingType ==
  ASSUME NEW c \in Capacity
  PROVE  [NoPod EXCEPT !.phase = "pending", !.selector = c] \in PodObject
  <1>1. NoPod \in PodObject
    BY DEF NoPod, PodObject, Phases, Capacity
  <1>2. QED
    BY <1>1 DEF PodObject, Phases

\* The steps of a Pod that are common to Deployments and StatefulSets.
LEMMA CommonPodTypes ==
  ASSUME ClusterTypeOK, NEW q \in Pods,
         (\E c \in CapacityTypes : Bind(q, c)) \/ BecomeReady(q) \/ Gone(q) \/ Terminate(q)
  PROVE  ClusterTypeOK'
  <1>1. UNCHANGED <<view, workload>>
    BY DEF Bind, BecomeReady, Gone, Terminate
  <1>2. ASSUME NEW c \in CapacityTypes, Bind(q, c)
        PROVE  pods' \in [Pods -> PodObject]
    <2>1. [pods[q] EXCEPT !.phase = "bound", !.node = c] \in PodObject
      BY DEF ClusterTypeOK, PodObject, Phases, Capacity
    <2>2. QED
      BY <1>2, <2>1, PodsUpdated DEF Bind, ClusterTypeOK
  <1>3. CASE BecomeReady(q)
    BY <1>1, <1>3, PhaseType DEF BecomeReady, ClusterTypeOK, Phases
  <1>4. CASE Gone(q)
    <2>1. NoPod \in PodObject
      BY DEF NoPod, PodObject, Phases, Capacity
    <2>2. QED
      BY <1>1, <1>4, <2>1, PodsUpdated DEF Gone, ClusterTypeOK
  <1>5. CASE Terminate(q)
    BY <1>1, <1>5, PhaseType DEF Terminate, ClusterTypeOK, Phases
  <1>6. QED
    BY <1>1, <1>2, <1>3, <1>4, <1>5 DEF ClusterTypeOK

\* The reconciler's own steps, those of the clock and of the user keep the
\* types.
LEMMA ReconcilerTypes ==
  ASSUME TypeOK, ReconcileStep \/ Restart \/ Tick \/ ToggleWindow \/ Relabel
  PROVE  TypeOK'
  <1> USE DEF TypeOK
  <1>0. Idle \in Reconciliation
    BY IdleType
  <1>1. CASE Fetch
    <2>1. workload.policy \in Policies /\ workload.replicas \in ReplicaCounts
      BY DEF ClusterTypeOK, WorkloadObject
    <2>2. rec' \in Reconciliation
      BY <1>1, <2>1 DEF Fetch, Reconciliation, PCs
    <2>3. QED
      BY <1>1, <2>2 DEF Fetch, clusterVars, envVars, ClusterTypeOK
  <1>2. CASE ForgetDeployment
    BY <1>2, RebalanceAssumption
       DEF ForgetDeployment, clusterVars, envVars, ClusterTypeOK, LosesEviction
  <1>3. CASE Measure \/ CheckWindow \/ Categorize \/ CheckPDBStatus
    <2>1. UNCHANGED <<pods, view, workload, label, status, window, lag, lastDeletion,
                      sinceEviction, memory>>
      BY <1>3 DEF Measure, CheckWindow, Categorize, CheckPDBStatus, clusterVars, envVars, histories
    <2>2. CASE Measure
      <3> DEFINE d == CalculateDesiredDistribution(rec.replicas, rec.label = "true", rec.policy)
      <3>1. rec.replicas \in Nat /\ rec.policy \in Policy
        BY WorkloadAssumption DEF Reconciliation
      <3>2. d.spot \in Nat /\ d.onDemand \in Nat
        BY <3>1, DesiredType
      <3>3. rec' = Idle \/ rec' = [rec EXCEPT !.pc = "window", !.spot = d.spot,
                                               !.onDemand = d.onDemand]
        BY <2>2 DEF Measure, Done
      <3> HIDE DEF d
      <3>4. rec' \in Reconciliation
        BY <1>0, <3>2, <3>3 DEF Reconciliation, PCs
      <3>5. QED
        BY <2>1, <3>4 DEF ClusterTypeOK
    <2>3. CASE CheckWindow
      <3>1. rec' \in Reconciliation
        BY <1>0, <2>3 DEF CheckWindow, Done, Reconciliation, PCs
      <3>2. QED
        BY <2>1, <3>1 DEF ClusterTypeOK
    <2>4. CASE Categorize
      <3>1. \A unknown : PodsToDelete(unknown) \subseteq Pods
        BY DEF PodsToDelete, EligiblePods
      <3>2. rec' = Idle \/ \E q \in Pods : rec' = [rec EXCEPT !.pc = "checkPDB", !.victim = q]
        BY <2>4, <3>1 DEF Categorize, Done
      <3>3. rec' \in Reconciliation
        BY <1>0, <3>2 DEF Reconciliation, PCs
      <3>4. QED
        BY <2>1, <3>3 DEF ClusterTypeOK
    <2>5. CASE CheckPDBStatus
      <3>1. rec' \in Reconciliation
        BY <1>0, <2>5 DEF CheckPDBStatus, Done, Reconciliation, PCs
      <3>2. QED
        BY <2>1, <3>1 DEF ClusterTypeOK
    <2>6. QED
      BY <1>3, <2>2, <2>3, <2>4, <2>5
  <1>4. CASE EvictPod
    <2>1. /\ rec' = Idle
          /\ UNCHANGED <<view, workload, label, status, window, lag>>
      BY <1>4 DEF EvictPod, Done, envVars
    <2>2. UNCHANGED pods \/ pods' = [pods EXCEPT ![rec.victim].phase = "terminating"]
      BY <1>4 DEF EvictPod, TakeEffect
    <2>3. pods' \in [Pods -> PodObject]
      <3>1. CASE rec.victim \in Pods
        BY <2>2, <3>1, PhaseType DEF ClusterTypeOK, Phases
      <3>2. CASE rec.victim \notin Pods
        BY <2>2, <3>2 DEF ClusterTypeOK
      <3>3. QED
        BY <3>1, <3>2
    <2>4. lastDeletion' \in {0, lastDeletion} /\ sinceEviction' \in {0, sinceEviction}
      BY <1>4 DEF EvictPod, TakeEffect
    <2>5. memory' \in {"kept", "lost"}
      BY <1>4 DEF EvictPod, LosesEviction
    <2>6. 0 \in 0 .. CooldownPeriod
      BY RebalanceAssumption
    <2>7. QED
      BY <1>0, <2>1, <2>3, <2>4, <2>5, <2>6 DEF ClusterTypeOK
  <1>5. CASE Restart
    <2>1. /\ rec' = Idle
          /\ UNCHANGED <<pods, workload, label, status, window, sinceEviction>>
          /\ lastDeletion' = CooldownPeriod
          /\ memory' \in {"kept", "lost"}
      BY <1>5 DEF Restart, Done, LosesEviction
    <2>2. view' \in [Pods -> PodObject] /\ lag' \in [Pods -> 0 .. SyncWithin]
      BY <1>5, RebalanceAssumption DEF Restart, ClusterTypeOK
    <2>3. QED
      BY <1>0, <2>1, <2>2, RebalanceAssumption DEF ClusterTypeOK
  <1>6. CASE Tick
    <2>1. /\ UNCHANGED <<pods, view, workload, label, status, window, rec, memory>>
          /\ lastDeletion' = minInt32(lastDeletion + 1, CooldownPeriod)
          /\ sinceEviction' = minInt32(sinceEviction + 1, CooldownPeriod)
      BY <1>6 DEF Tick, clusterVars
    <2>2. lag' \in [Pods -> 0 .. SyncWithin]
      BY <1>6, RebalanceAssumption DEF Tick
    <2>3. QED
      BY <2>1, <2>2, CappedAge DEF ClusterTypeOK
  <1>7. CASE ToggleWindow
    BY <1>7 DEF ToggleWindow, clusterVars, controllerVars, histories, ClusterTypeOK
  <1>8. CASE Relabel
    BY <1>8 DEF Relabel, clusterVars, controllerVars, histories, ClusterTypeOK
  <1>9. QED
    BY <1>1, <1>2, <1>3, <1>4, <1>5, <1>6, <1>7, <1>8 DEF ReconcileStep

\* A step of the cluster changes Pods, the workload's policy or what the cache
\* shows, and nothing else.
LEMMA ClusterTypes ==
  ASSUME TypeOK, ClusterTypeOK', UNCHANGED <<label, window, controllerVars>>,
         status' \in {"stable", "unstable"}, lag' \in [Pods -> 0 .. SyncWithin]
  PROVE  TypeOK'
  BY DEF TypeOK, controllerVars, histories

\* The cache catches up with one Pod.
LEMMA SyncTypes ==
  ASSUME TypeOK, NEW q \in Pods, SyncPod(q)
  PROVE  TypeOK'
  <1>1. ClusterTypeOK'
    BY DEF SyncPod, Sync, TypeOK, ClusterTypeOK
  <1>2. lag' \in [Pods -> 0 .. SyncWithin]
    BY RebalanceAssumption DEF SyncPod, TypeOK
  <1>3. QED
    BY <1>1, <1>2, ClusterTypes DEF SyncPod, TypeOK

\* What the Deployment starts with.
LEMMA TypeInit == Init => TypeOK
  <1> SUFFICES ASSUME Init PROVE TypeOK
    OBVIOUS
  <1>1. ClusterTypeOK
    <2>1. workload \in WorkloadObject
      BY WorkloadAssumption DEF Init, WorkloadObject
    <2>2. pods \in [Pods -> PodObject]
      BY DEF Init, PodObject, NoPod, Phases, Capacity
    <2>3. QED
      BY <2>1, <2>2 DEF Init, ClusterTypeOK
  <1>2. QED
    BY <1>1, IdleType, RebalanceAssumption DEF Init, TypeOK

\* Every step keeps the types.
LEMMA TypeStep ==
  ASSUME TypeOK, [Next]_vars
  PROVE  TypeOK'
  <1>1. ASSUME NEW q \in Pods, PodStep(q) \/ Interrupt(q) PROVE TypeOK'
    <2>1. CASE SyncPod(q)
      BY <2>1, SyncTypes
    <2>2. CASE Replace(q)
      <3>1. PICK c \in Capacity : pods' = [pods EXCEPT ![q] =
                    [NoPod EXCEPT !.phase = "pending", !.selector = c]]
        BY <2>2, ReplacementType DEF Replace, Capacity
      <3>2. ClusterTypeOK'
        BY <2>2, <3>1, PendingType, PodsUpdated DEF Replace, TypeOK, ClusterTypeOK
      <3>3. QED
        BY <2>2, <3>2, ClusterTypes DEF Replace, envVars, TypeOK
    <2>3. CASE ~SyncPod(q) /\ ~Replace(q)
      <3>1. ClusterTypeOK'
        BY <1>1, <2>3, CommonPodTypes DEF PodStep, Interrupt, TypeOK
      <3>2. UNCHANGED <<envVars, controllerVars>>
        BY <1>1, <2>3 DEF PodStep, Interrupt
      <3>3. QED
        BY <3>1, <3>2, ClusterTypes DEF envVars, TypeOK
    <2>4. QED
      BY <2>1, <2>2, <2>3
  <1>2. CASE EditAnnotations /\ UNCHANGED <<envVars, controllerVars>>
    <2>1. ClusterTypeOK'
      BY <1>2 DEF EditAnnotations, TypeOK, ClusterTypeOK, WorkloadObject
    <2>2. QED
      BY <1>2, <2>1, ClusterTypes DEF envVars, TypeOK
  <1>3. CASE SyncStatus
    BY <1>3, ClusterTypes DEF SyncStatus, clusterVars, TypeOK, ClusterTypeOK
  <1>4. CASE UNCHANGED vars
    BY <1>4 DEF vars, TypeOK, ClusterTypeOK
  <1>5. QED
    BY <1>1, <1>2, <1>3, <1>4, ReconcilerTypes DEF Next

\* Every variable of the Deployment reconciler and of the cluster around it
\* keeps its type, for every set of Pods, policy and disturbance.
THEOREM AlwaysTypeOK == Spec => []TypeOK
  BY TypeInit, TypeStep, PTL DEF Spec

-----------------------------------------------------------------------------
(* The floor.                                                              *)

Terminating(p) == [p EXCEPT !.phase = "terminating"]

\* What the cache shows as ready is that Pod still, or the same Pod on its way
\* out, or nothing: its name is not taken before the cache has seen it go.
ViewLags(q) ==
  view[q].phase = "ready" => pods[q] \in {view[q], Terminating(view[q]), NoPod}

\* A Pod the cache shows ready on an on-demand node, and that is not, was
\* evicted, no longer ago than the cache has been behind on it.
EvictedLately(q) ==
  view[q].phase = "ready" /\ view[q].node = "onDemand" /\ pods[q] # view[q] =>
    sinceEviction <= lag[q]

ReadyOnDemand == {q \in Pods : pods[q].phase = "ready" /\ pods[q].node = "onDemand"}

\* The victim is no Pod that has yet to be scheduled, and if it is on an
\* on-demand node there are more than enough.
VictimSpare ==
  /\ rec.victim \in Pods
  /\ pods[rec.victim].phase \in {"ready", "terminating", "none"}
  /\ memory = "kept" /\ pods[rec.victim].node = "onDemand" =>
       Cardinality(ReadyOnDemand) > rec.onDemand

FloorInv ==
  /\ \A q \in Pods : ViewLags(q) /\ EvictedLately(q)
  /\ rec.pc \in {"checkPDB", "evict"} => VictimSpare

\* Sets of Pods are finite and a larger one has as many elements.
LEMMA PodSets ==
  ASSUME NEW S \in SUBSET Pods, NEW T \in SUBSET Pods, S \subseteq T
  PROVE  /\ IsFiniteSet(S) /\ Cardinality(S) \in Nat
         /\ Cardinality(T) \in Nat /\ Cardinality(S) <= Cardinality(T)
  <1>1. IsFiniteSet(S) /\ IsFiniteSet(T)
    BY WorkloadAssumption, FS_Subset
  <1>2. QED
    BY <1>1, FS_Subset, FS_CardinalityType

\* A Pod that terminates does so with what else it has.
LEMMA TerminatingFields ==
  ASSUME NEW p \in PodObject
  PROVE  /\ Terminating(p).phase = "terminating" /\ Terminating(p).node = p.node
         /\ NoPod.phase = "none" /\ NoPod.node = "none"
         /\ Terminating(p) \in PodObject
         /\ Terminating(Terminating(p)) = Terminating(p)
  BY DEF Terminating, PodObject, NoPod, Phases

\* Pods come and go, and the cache stays: what the steps common to Deployments
\* and StatefulSets do to the Pods.
LEMMA CommonPodFloor ==
  ASSUME ClusterTypeOK, NEW q \in Pods, \A r \in Pods : ViewLags(r),
         (\E c \in CapacityTypes : Bind(q, c)) \/ BecomeReady(q) \/ Gone(q)
           \/ (Terminate(q) /\ pods[q].node = "spot")
  PROVE  /\ \A r \in Pods : ViewLags(r)'
         /\ \A r \in Pods : view[r].phase = "ready" /\ view[r].node = "onDemand"
                              /\ pods'[r] # view[r] => pods[r] # view[r]
         /\ ReadyOnDemand \subseteq ReadyOnDemand'
         /\ \A r \in Pods : pods[r].phase \in {"ready", "terminating", "none"} =>
              /\ pods'[r].phase \in {"ready", "terminating", "none"}
              /\ pods'[r].node = "onDemand" => pods[r].node = "onDemand"
  <1>1. UNCHANGED view /\ pods \in [Pods -> PodObject] /\ view \in [Pods -> PodObject]
    BY DEF Bind, BecomeReady, Gone, Terminate, ClusterTypeOK
  <1>2. CASE (\E c \in CapacityTypes : Bind(q, c)) \/ BecomeReady(q)
    <2>0. pods[q].phase \in {"pending", "bound"}
      BY <1>2 DEF Bind, BecomeReady
    <2>1. view[q].phase # "ready"
      BY <1>1, <2>0, TerminatingFields DEF ViewLags
    <2>2. \A r \in Pods \ {q} : pods'[r] = pods[r]
      BY <1>1, <1>2 DEF Bind, BecomeReady
    <2>3. QED
      BY <1>1, <2>0, <2>1, <2>2 DEF ViewLags, ReadyOnDemand
  <1>3. CASE Gone(q)
    <2>1. pods[q].phase = "terminating" /\ pods' = [pods EXCEPT ![q] = NoPod]
      BY <1>3 DEF Gone
    <2>2. pods'[q] = NoPod /\ \A r \in Pods \ {q} : pods'[r] = pods[r]
      BY <1>1, <2>1
    <2>3. NoPod.phase = "none" /\ NoPod.node = "none"
      BY DEF NoPod
    <2>4. QED
      BY <1>1, <2>1, <2>2, <2>3 DEF ViewLags, ReadyOnDemand
  <1>4. CASE Terminate(q) /\ pods[q].node = "spot"
    <2>1. /\ pods' = [pods EXCEPT ![q].phase = "terminating"]
          /\ pods[q].phase \in {"pending", "bound", "ready"}
      BY <1>4 DEF Terminate
    <2>2. /\ pods'[q] = Terminating(pods[q])
          /\ \A r \in Pods \ {q} : pods'[r] = pods[r]
      BY <1>1, <2>1 DEF Terminating
    <2>3. /\ pods'[q].phase = "terminating" /\ pods'[q].node = "spot"
          /\ view[q].phase = "ready" => pods[q] = view[q]
      BY <1>1, <1>4, <2>1, <2>2, TerminatingFields DEF ViewLags
    <2>4. QED
      BY <1>1, <1>4, <2>2, <2>3 DEF ViewLags, ReadyOnDemand
  <1>5. QED
    BY <1>2, <1>3, <1>4

\* A new Pod takes a name that the cache does not show as ready.
LEMMA CreateFloor ==
  ASSUME ClusterTypeOK, NEW q \in Pods, \A r \in Pods : ViewLags(r),
         pods[q] = NoPod, view[q].phase # "ready", UNCHANGED view,
         NEW p, pods' = [pods EXCEPT ![q] = p]
  PROVE  /\ \A r \in Pods : ViewLags(r)'
         /\ \A r \in Pods : view[r].phase = "ready" /\ view[r].node = "onDemand"
                              /\ pods'[r] # view[r] => pods[r] # view[r]
         /\ ReadyOnDemand \subseteq ReadyOnDemand'
         /\ \A r \in Pods \ {q} : pods'[r] = pods[r]
  <1>1. \A r \in Pods \ {q} : pods'[r] = pods[r]
    BY DEF ClusterTypeOK
  <1>2. NoPod.phase = "none"
    BY DEF NoPod
  <1>3. QED
    BY <1>1, <1>2 DEF ViewLags, ReadyOnDemand

\* What an eviction does to the Pods.
LEMMA EvictedPods ==
  ASSUME TypeOK, EvictPod
  PROVE  /\ UNCHANGED <<view, lag>>
         /\ \/ UNCHANGED <<pods, sinceEviction>>
            \/ UNCHANGED pods /\ sinceEviction' = 0
            \/ /\ rec.victim \in Pods /\ Active(rec.victim) /\ sinceEviction' = 0
               /\ pods'[rec.victim] = Terminating(pods[rec.victim])
               /\ \A r \in Pods \ {rec.victim} : pods'[r] = pods[r]
  <1> DEFINE q == rec.victim
  <1>1. pods \in [Pods -> PodObject] /\ UNCHANGED <<view, lag>>
    BY DEF EvictPod, TypeOK, ClusterTypeOK, envVars
  <1>2. \/ UNCHANGED <<pods, sinceEviction>>
        \/ /\ pods' = [pods EXCEPT ![q].phase = "terminating"]
           /\ Active(q) /\ sinceEviction' = 0
    BY DEF EvictPod, TakeEffect
  <1>3. CASE q \in Pods
    BY <1>1, <1>2, <1>3 DEF Terminating
  <1>4. CASE q \notin Pods
    BY <1>1, <1>2, <1>4
  <1>5. QED
    BY <1>3, <1>4

\* An eviction that takes effect starts the age that excuses the cache.
LEMMA EvictLags ==
  ASSUME TypeOK, EvictPod, \A r \in Pods : ViewLags(r)
  PROVE  /\ \A r \in Pods : ViewLags(r)'
         /\ \A r \in Pods : EvictedLately(r) => EvictedLately(r)'
  <1>1. /\ pods \in [Pods -> PodObject] /\ view \in [Pods -> PodObject]
        /\ lag \in [Pods -> 0 .. SyncWithin] /\ UNCHANGED <<view, lag>>
    BY EvictedPods DEF TypeOK, ClusterTypeOK
  <1>2. CASE UNCHANGED <<pods, sinceEviction>>
    BY <1>1, <1>2 DEF ViewLags, EvictedLately
  <1>3. CASE sinceEviction' = 0
    <2>1. \A r \in Pods : EvictedLately(r)'
      BY <1>1, <1>3, RebalanceAssumption DEF EvictedLately
    <2>2. \A r \in Pods : ViewLags(r)'
      <3>1. CASE UNCHANGED pods
        BY <1>1, <3>1 DEF ViewLags
      <3>2. ASSUME NEW q \in Pods, Active(q), pods'[q] = Terminating(pods[q]),
                   \A r \in Pods \ {q} : pods'[r] = pods[r]
            PROVE  \A r \in Pods : ViewLags(r)'
        <4>1. view[q].phase = "ready" => pods[q] = view[q]
          BY <1>1, <3>2, TerminatingFields DEF ViewLags, Active
        <4>2. QED
          BY <1>1, <3>2, <4>1 DEF ViewLags
      <3>3. QED
        BY <3>1, <3>2, EvictedPods
    <2>3. QED
      BY <2>1, <2>2
  <1>4. QED
    BY <1>2, <1>3, EvictedPods

\* An eviction of a victim that can be spared leaves the on-demand floor.
LEMMA EvictFloor ==
  ASSUME TypeOK, VictimSpare, EvictPod,
         pods' # pods, memory = "kept", pods[rec.victim].node = "onDemand"
  PROVE  Cardinality(ReadyOnDemand') >= rec.onDemand
  <1> DEFINE q == rec.victim
  <1>1. /\ q \in Pods /\ pods \in [Pods -> PodObject] /\ rec.onDemand \in Nat
        /\ Active(q) /\ pods'[q] = Terminating(pods[q])
        /\ \A r \in Pods \ {q} : pods'[r] = pods[r]
    BY EvictedPods DEF TypeOK, ClusterTypeOK, Reconciliation
  <1>2. pods[q].phase = "ready" /\ Cardinality(ReadyOnDemand) > rec.onDemand
    BY <1>1 DEF VictimSpare, Active
  <1>3. ReadyOnDemand' = ReadyOnDemand \ {q} /\ q \in ReadyOnDemand
    BY <1>1, <1>2, TerminatingFields DEF ReadyOnDemand
  <1>4. ReadyOnDemand \in SUBSET Pods
    BY DEF ReadyOnDemand
  <1>5. IsFiniteSet(ReadyOnDemand) /\ Cardinality(ReadyOnDemand) \in Nat
    BY <1>4, PodSets
  <1>6. Cardinality(ReadyOnDemand \ {q}) = Cardinality(ReadyOnDemand) - 1
    BY <1>3, <1>5, FS_RemoveElement
  <1>7. QED
    BY <1>1, <1>2, <1>3, <1>5, <1>6

\* The cache catches up, wholly or with one Pod, or falls further behind with
\* time.
LEMMA CacheFloor ==
  ASSUME TypeOK, \A r \in Pods : ViewLags(r),
         Restart \/ Tick \/ \E q \in Pods : SyncPod(q)
  PROVE  /\ \A r \in Pods : ViewLags(r)'
         /\ \A r \in Pods : EvictedLately(r) => EvictedLately(r)'
         /\ UNCHANGED pods
  <1>1. /\ pods \in [Pods -> PodObject] /\ view \in [Pods -> PodObject]
        /\ lag \in [Pods -> 0 .. SyncWithin] /\ sinceEviction \in 0 .. CooldownPeriod
    BY DEF TypeOK, ClusterTypeOK
  <1>2. CASE Restart
    BY <1>2 DEF Restart, ViewLags, EvictedLately
  <1>3. CASE Tick
    <2>1. UNCHANGED <<pods, view>>
      BY <1>3 DEF Tick, clusterVars
    <2>2. \A r \in Pods : pods[r] # view[r] => lag'[r] = lag[r] + 1
      BY <1>3 DEF Tick
    <2>3. sinceEviction' <= sinceEviction + 1 /\ sinceEviction' \in Nat
      BY <1>1, <1>3, RebalanceAssumption DEF Tick, minInt32
    <2>4. QED
      BY <1>1, <2>1, <2>2, <2>3, RebalanceAssumption DEF ViewLags, EvictedLately
  <1>4. ASSUME NEW q \in Pods, SyncPod(q)
        PROVE  /\ \A r \in Pods : ViewLags(r)'
               /\ \A r \in Pods : EvictedLately(r) => EvictedLately(r)'
               /\ UNCHANGED pods
    <2>1. /\ UNCHANGED <<pods, sinceEviction>> /\ view'[q] = pods[q]
          /\ \A r \in Pods \ {q} : view'[r] = view[r] /\ lag'[r] = lag[r]
      BY <1>1, <1>4 DEF SyncPod, Sync, controllerVars, histories
    <2>2. QED
      BY <2>1 DEF ViewLags, EvictedLately
  <1>5. QED
    BY <1>2, <1>3, <1>4

\* The cooldown is over, so the cache has seen the last eviction: what it shows
\* ready on on-demand nodes is there.
LEMMA FreshCounts ==
  ASSUME TypeOK, SpacedInv, SyncWithin < CooldownPeriod,
         \A r \in Pods : EvictedLately(r),
         rec.pc # "idle", memory = "kept", NEW unknown
  PROVE  /\ EligiblePods("onDemand", unknown) \subseteq ReadyOnDemand
         /\ Cardinality(EligiblePods("onDemand", unknown)) <= Cardinality(ReadyOnDemand)
         /\ Cardinality(EligiblePods("onDemand", unknown)) \in Nat
         /\ Cardinality(ReadyOnDemand) \in Nat
  <1>1. sinceEviction = CooldownPeriod /\ lag \in [Pods -> 0 .. SyncWithin]
    BY DEF SpacedInv, TypeOK
  <1>2. ASSUME NEW r \in EligiblePods("onDemand", unknown)
        PROVE  r \in ReadyOnDemand
    <2>1. r \in Pods /\ view[r].phase = "ready" /\ view[r].node = "onDemand"
      BY DEF EligiblePods, capacityFor
    <2>2. pods[r] = view[r]
      BY <1>1, <2>1, RebalanceAssumption DEF EvictedLately
    <2>3. QED
      BY <2>1, <2>2 DEF ReadyOnDemand
  <1>3. /\ EligiblePods("onDemand", unknown) \in SUBSET Pods
        /\ ReadyOnDemand \in SUBSET Pods
    BY DEF EligiblePods, ReadyOnDemand
  <1>4. QED
    BY <1>2, <1>3, PodSets

\* At the start the cache shows every Pod as it is.
LEMMA FloorInit == Init => FloorInv
  BY DEF Init, FloorInv, ViewLags, EvictedLately, Idle

\* A victim that can be spared stays so while no Pod that is ready on an
\* on-demand node leaves.
LEMMA SpareKept ==
  ASSUME TypeOK, VictimSpare, memory' = memory,
         rec'.victim = rec.victim, rec'.onDemand = rec.onDemand,
         ReadyOnDemand \subseteq ReadyOnDemand',
         pods'[rec.victim].phase \in {"ready", "terminating", "none"},
         pods'[rec.victim].node = "onDemand" => pods[rec.victim].node = "onDemand"
  PROVE  VictimSpare'
  <1>1. ReadyOnDemand \in SUBSET Pods /\ ReadyOnDemand' \in SUBSET Pods
    BY DEF ReadyOnDemand
  <1>2. /\ Cardinality(ReadyOnDemand) \in Nat /\ Cardinality(ReadyOnDemand') \in Nat
        /\ Cardinality(ReadyOnDemand) <= Cardinality(ReadyOnDemand')
    BY <1>1, PodSets
  <1>3. rec.onDemand \in Nat
    BY DEF TypeOK, Reconciliation
  <1>4. QED
    BY <1>2, <1>3 DEF VictimSpare

\* A Pod can be spared that the cache shows ready on a spot node, or on an
\* on-demand node beside as many as are asked for: the cooldown is over.
LEMMA ChosenSpare ==
  ASSUME TypeOK, SpacedInv, SyncWithin < CooldownPeriod,
         \A r \in Pods : ViewLags(r), \A r \in Pods : EvictedLately(r),
         rec.pc # "idle", UNCHANGED <<pods, view, memory>>, NEW unknown, NEW q \in Pods,
         rec' = [rec EXCEPT !.pc = "checkPDB", !.victim = q],
         view[q].phase = "ready",
         \/ view[q].node = "spot"
         \/ /\ view[q].node = "onDemand"
            /\ Cardinality(EligiblePods("onDemand", unknown)) > rec.onDemand
  PROVE  VictimSpare'
  <1>1. rec'.victim = q /\ rec'.onDemand = rec.onDemand /\ rec.onDemand \in Nat
    BY DEF TypeOK, Reconciliation
  <1>2. pods[q] \in {view[q], Terminating(view[q]), NoPod} /\ view[q] \in PodObject
    BY DEF ViewLags, TypeOK, ClusterTypeOK
  <1>3. /\ pods[q].phase \in {"ready", "terminating", "none"}
        /\ pods[q].node = "onDemand" => view[q].node = "onDemand"
    BY <1>2, TerminatingFields
  <1>4. ASSUME memory = "kept", pods[q].node = "onDemand"
        PROVE  Cardinality(ReadyOnDemand) > rec.onDemand
    <2>1. Cardinality(EligiblePods("onDemand", unknown)) > rec.onDemand
      BY <1>3, <1>4
    <2>2. /\ Cardinality(EligiblePods("onDemand", unknown)) <= Cardinality(ReadyOnDemand)
          /\ Cardinality(EligiblePods("onDemand", unknown)) \in Nat
          /\ Cardinality(ReadyOnDemand) \in Nat
      BY <1>4, FreshCounts
    <2>3. QED
      BY <1>1, <2>1, <2>2
  <1>5. ReadyOnDemand' = ReadyOnDemand
    BY DEF ReadyOnDemand
  <1>6. QED
    BY <1>1, <1>3, <1>4, <1>5 DEF VictimSpare

\* The Pod that is selected can be spared.
LEMMA CategorizeSpare ==
  ASSUME TypeOK, SpacedInv, FloorInv, SyncWithin < CooldownPeriod, Categorize,
         rec'.pc \in {"checkPDB", "evict"}
  PROVE  VictimSpare'
  <1>1. ~Done
    BY DEF Done, Idle
  <1>2. PICK unknown \in Unclassified : \E q \in PodsToDelete(unknown) :
          rec' = [rec EXCEPT !.pc = "checkPDB", !.victim = q]
    BY <1>1 DEF Categorize
  <1>3. PICK q \in PodsToDelete(unknown) :
          rec' = [rec EXCEPT !.pc = "checkPDB", !.victim = q]
    BY <1>2
  <1>4. UNCHANGED <<pods, view, memory>> /\ rec.pc # "idle"
    BY DEF Categorize, clusterVars, histories
  <1>5. /\ q \in Pods /\ view[q].phase = "ready"
        /\ \/ view[q].node = "spot"
           \/ /\ view[q].node = "onDemand"
              /\ Cardinality(EligiblePods("onDemand", unknown)) > rec.onDemand
    BY DEF PodsToDelete, EligiblePods, capacityFor
  <1>6. (\A r \in Pods : ViewLags(r)) /\ (\A r \in Pods : EvictedLately(r))
    BY DEF FloorInv
  <1>7. QED
    BY <1>3, <1>4, <1>5, <1>6, ChosenSpare

\* The reconciler's own steps, and those that touch neither Pods nor cache.
LEMMA ReconcilerFloor ==
  ASSUME TypeOK, SpacedInv, FloorInv, SyncWithin < CooldownPeriod,
         \/ Fetch \/ ForgetDeployment \/ Measure \/ CheckWindow \/ Categorize
         \/ CheckPDBStatus \/ ToggleWindow
  PROVE  FloorInv'
  <1>1. UNCHANGED <<pods, view, lag, sinceEviction>>
    BY DEF Fetch, ForgetDeployment, Measure, CheckWindow, Categorize, CheckPDBStatus,
           ToggleWindow, clusterVars, envVars, controllerVars, histories
  <1>2. \A r \in Pods : ViewLags(r)' /\ EvictedLately(r)'
    BY <1>1 DEF FloorInv, ViewLags, EvictedLately
  <1>3. ASSUME rec'.pc \in {"checkPDB", "evict"}, ~Categorize
        PROVE  VictimSpare'
    <2>0. ~Done /\ rec \in Reconciliation
      BY <1>3 DEF Done, Idle, TypeOK
    <2>1. /\ rec.pc \in {"checkPDB", "evict"} /\ UNCHANGED memory
          /\ rec'.victim = rec.victim /\ rec'.onDemand = rec.onDemand
      <3>1. CASE Fetch \/ Measure \/ CheckWindow
        BY <1>3, <2>0, <3>1 DEF Fetch, Measure, CheckWindow, Reconciliation
      <3>2. CASE ForgetDeployment
        BY <1>3, <3>2 DEF ForgetDeployment
      <3>3. CASE CheckPDBStatus
        BY <1>3, <2>0, <3>3 DEF CheckPDBStatus, histories, Reconciliation
      <3>4. CASE ToggleWindow
        BY <1>3, <3>4 DEF ToggleWindow, controllerVars, histories
      <3>5. QED
        BY <1>3, <3>1, <3>2, <3>3, <3>4
    <2>2. VictimSpare
      BY <2>1 DEF FloorInv
    <2>3. ReadyOnDemand' = ReadyOnDemand
      BY <1>1 DEF ReadyOnDemand
    <2>4. QED
      BY <1>1, <2>1, <2>2, <2>3, SpareKept DEF VictimSpare
  <1>4. QED
    BY <1>2, <1>3, CategorizeSpare DEF FloorInv

\* No step makes the cache show a Pod on an on-demand node for longer than it
\* takes to forget an eviction, nor takes away what a victim was spared by.
LEMMA FloorStep ==
  ASSUME TypeOK, SpacedInv, FloorInv, SyncWithin < CooldownPeriod, [Next]_vars
  PROVE  FloorInv'
  <1>1. \A r \in Pods : ViewLags(r)
    BY DEF FloorInv
  <1>2. CASE EvictPod
    <2>1. rec'.pc = "idle"
      BY <1>2 DEF EvictPod, Done, Idle
    <2>2. \A r \in Pods : ViewLags(r)' /\ EvictedLately(r)'
      BY <1>1, <1>2, EvictLags DEF FloorInv
    <2>3. QED
      BY <2>1, <2>2 DEF FloorInv
  <1>3. CASE Restart \/ Tick \/ \E q \in Pods : SyncPod(q)
    <2>1. /\ \A r \in Pods : ViewLags(r)' /\ EvictedLately(r)'
          /\ UNCHANGED pods
      BY <1>1, <1>3, CacheFloor DEF FloorInv
    <2>2. rec'.pc = "idle" \/ UNCHANGED <<rec, memory>>
      BY <1>3 DEF Restart, Tick, SyncPod, Done, Idle, controllerVars, histories
    <2>3. ReadyOnDemand' = ReadyOnDemand
      BY <2>1 DEF ReadyOnDemand
    <2>4. QED
      BY <2>1, <2>2, <2>3 DEF FloorInv, VictimSpare
  <1>4. ASSUME NEW q \in Pods, PodStep(q) \/ Interrupt(q), ~SyncPod(q)
        PROVE  FloorInv'
    <2>1. UNCHANGED <<view, lag, rec, sinceEviction, memory>>
      BY <1>4 DEF PodStep, Interrupt, Replace, Bind, BecomeReady, Gone, Terminate,
                  envVars, controllerVars, histories
    <2>2. /\ \A r \in Pods : ViewLags(r)'
          /\ \A r \in Pods : view[r].phase = "ready" /\ view[r].node = "onDemand"
                               /\ pods'[r] # view[r] => pods[r] # view[r]
          /\ ReadyOnDemand \subseteq ReadyOnDemand'
          /\ rec.victim \in Pods /\ pods[rec.victim].phase \in {"ready", "terminating", "none"} =>
               /\ pods'[rec.victim].phase \in {"ready", "terminating", "none"}
               /\ pods'[rec.victim].node = "onDemand" => pods[rec.victim].node = "onDemand"
      <3>1. CASE Replace(q)
        <4>1. pods[q] = NoPod /\ view[q].phase # "ready" /\ q # rec.victim
          BY <3>1 DEF Replace, NoPod
        <4>2. PICK p : pods' = [pods EXCEPT ![q] = p]
          BY <3>1, Zenon DEF Replace
        <4>3. ClusterTypeOK
          BY DEF TypeOK
        <4>4. /\ \A r \in Pods : ViewLags(r)'
              /\ \A r \in Pods : view[r].phase = "ready" /\ view[r].node = "onDemand"
                                   /\ pods'[r] # view[r] => pods[r] # view[r]
              /\ ReadyOnDemand \subseteq ReadyOnDemand'
              /\ \A r \in Pods \ {q} : pods'[r] = pods[r]
          BY <1>1, <2>1, <4>1, <4>2, <4>3, CreateFloor
        <4>5. QED
          BY <4>1, <4>4
      <3>2. CASE ~Replace(q)
        <4>1. (\E c \in CapacityTypes : Bind(q, c)) \/ BecomeReady(q) \/ Gone(q)
                \/ (Terminate(q) /\ pods[q].node = "spot")
          BY <1>4, <3>2 DEF PodStep, Interrupt
        <4>2. ClusterTypeOK
          BY DEF TypeOK
        <4>3. /\ \A r \in Pods : ViewLags(r)'
              /\ \A r \in Pods : view[r].phase = "ready" /\ view[r].node = "onDemand"
                                   /\ pods'[r] # view[r] => pods[r] # view[r]
              /\ ReadyOnDemand \subseteq ReadyOnDemand'
              /\ \A r \in Pods : pods[r].phase \in {"ready", "terminating", "none"} =>
                   /\ pods'[r].phase \in {"ready", "terminating", "none"}
                   /\ pods'[r].node = "onDemand" => pods[r].node = "onDemand"
          BY <1>1, <4>1, <4>2, CommonPodFloor, Zenon
        <4>4. QED
          BY <4>3
      <3>3. QED
        BY <3>1, <3>2
    <2>3. \A r \in Pods : EvictedLately(r)'
      BY <2>1, <2>2 DEF FloorInv, EvictedLately
    <2>4. ASSUME rec'.pc \in {"checkPDB", "evict"} PROVE VictimSpare'
      <3>1. VictimSpare
        BY <2>1, <2>4 DEF FloorInv
      <3>2. QED
        BY <2>1, <2>2, <3>1, SpareKept DEF VictimSpare
    <2>5. QED
      BY <2>2, <2>3, <2>4 DEF FloorInv
  <1>5. ASSUME \/ EditAnnotations /\ UNCHANGED <<envVars, controllerVars>>
               \/ SyncStatus \/ Relabel \/ UNCHANGED vars
        PROVE  FloorInv'
    <2>1. UNCHANGED <<pods, view, lag, rec, sinceEviction, memory>>
      BY <1>5 DEF EditAnnotations, SyncStatus, Relabel, clusterVars, envVars,
                  controllerVars, histories, vars
    <2>2. ReadyOnDemand' = ReadyOnDemand
      BY <2>1 DEF ReadyOnDemand
    <2>3. QED
      BY <2>1, <2>2 DEF FloorInv, ViewLags, EvictedLately, VictimSpare
  <1>6. QED
    BY <1>2, <1>3, <1>4, <1>5, ReconcilerFloor DEF Next, ReconcileStep

\* However the cache lags, evicting an on-demand Pod never takes the workload
\* below the on-demand replicas asked for, provided the cache is never behind
\* for as long as the cooldown lasts.  (selectPodsForDeletion)
THEOREM FloorAlwaysKept ==
  ASSUME SyncWithin < CooldownPeriod
  PROVE  Spec => FloorKept
  <1> DEFINE Inv == TypeOK /\ SpacedInv /\ FloorInv
  <1>1. Init => Inv
    BY TypeInit, SpacedInit, FloorInit
  <1>2. ASSUME Inv, [Next]_vars PROVE Inv'
    BY <1>2, TypeStep, SpacedStep, FloorStep
  <1>3. ASSUME Inv, [Next]_vars
        PROVE  [ Evicts /\ memory = "kept" /\ pods[rec.victim].node = "onDemand" =>
                   Cardinality({ q \in Pods : /\ pods'[q].phase = "ready"
                                              /\ pods'[q].node = "onDemand" })
                     >= rec.onDemand ]_vars
    <2> SUFFICES ASSUME Evicts, memory = "kept", pods[rec.victim].node = "onDemand"
                 PROVE  Cardinality(ReadyOnDemand') >= rec.onDemand
      BY DEF ReadyOnDemand
    <2>1. rec.pc = "evict" /\ rec'.pc = "idle" /\ pods' # pods
      BY DEF Evicts
    <2>2. ASSUME NEW q \in Pods, PodStep(q) \/ Interrupt(q) PROVE UNCHANGED rec
      BY <2>2 DEF PodStep, Interrupt, Replace, SyncPod, controllerVars
    <2>3. EvictPod
      BY <1>3, <2>1, <2>2
         DEF Next, ReconcileStep, Fetch, ForgetDeployment, Measure, CheckWindow, Categorize,
             CheckPDBStatus, Restart, EditAnnotations, SyncStatus, Relabel, ToggleWindow, Tick,
             clusterVars, controllerVars, vars
    <2>4. QED
      BY <1>3, <2>1, <2>3, EvictFloor DEF FloorInv
  <1>4. QED
    BY <1>1, <1>2, <1>3, PTL DEF Spec, FloorKept
=============================================================================
