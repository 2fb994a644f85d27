-------------------- MODULE StatefulSetRebalance_proofs ---------------------
(***************************************************************************)
(* The StatefulSet reconciler keeps the promise of module Cooldown, for    *)
(* every number of Pods and every disturbance.  What it has in common with *)
(* the Deployment reconciler is proved in Rebalance_proofs.                *)
(***************************************************************************)
EXTENDS StatefulSetRebalance, Rebalance_proofs

\* What the cooldown depends on.
cooldownVars == <<lastDeletion, sinceEviction, memory, rec>>

\* Every step is one that the Deployment reconciler knows as well, or chooses
\* a Pod by ordinal, or leaves the cooldown alone.
LEMMA SetStepKinds ==
  ASSUME [SetNext]_allVars
  PROVE  \/ ReconcileStep \/ Restart \/ Tick \/ ToggleWindow
         \/ CategorizeSet
         \/ UNCHANGED cooldownVars
  <1>1. CASE ReconcileSetStep
    <2>1. CASE UpdateTemplate
      BY <2>1 DEF UpdateTemplate, vars, cooldownVars
    <2>2. CASE ~UpdateTemplate
      BY <1>1, <2>2 DEF ReconcileSetStep, FetchSet, ForgetSet, MeasureSet,
           CheckWindowSet, CheckPDBSet, EvictHighest, ReconcileStep
    <2>3. QED BY <2>1, <2>2
  <1>2. ASSUME NEW q \in Pods, SetPodStep(q)
        PROVE  UNCHANGED cooldownVars
    BY <1>2 DEF SetPodStep, Recreate, RollingUpdate, SyncPod, controllerVars,
                histories, cooldownVars
  <1>3. CASE SyncSetStatus
    BY <1>3 DEF SyncSetStatus, controllerVars, histories, cooldownVars
  <1>4. CASE TickSet
    BY <1>4 DEF TickSet
  <1>5. CASE Disturbance
    BY <1>5 DEF Disturbance, RestartSet, Interrupt, Relabel, controllerVars, histories,
                cooldownVars
  <1>6. CASE UNCHANGED allVars
    BY <1>6 DEF allVars, vars, cooldownVars
  <1>7. QED
    BY <1>1, <1>2, <1>3, <1>4, <1>5, <1>6 DEF SetNext

\* The invariant behind the cooldown of Deployments holds here too: neither the
\* update of the template nor the rollout touches what it is about.
LEMMA SetSpacedStep ==
  ASSUME SpacedInv, [SetNext]_allVars
  PROVE  SpacedInv'
  <1>1. CASE ReconcileStep \/ Restart \/ Tick \/ ToggleWindow
    BY <1>1, SpacedStep DEF Next
  <1>2. CASE CategorizeSet
    <2>1. /\ UNCHANGED <<lastDeletion, sinceEviction, memory>>
          /\ rec.pc # "idle"
      BY <1>2 DEF CategorizeSet, histories
    <2>2. Done => "pc" \in DOMAIN rec'
      BY DEF Done, Idle
    <2>3. "pc" \in DOMAIN rec'
      BY <1>2, <2>2 DEF CategorizeSet, SpacedInv
    <2>4. QED BY <2>1, <2>3 DEF SpacedInv
  <1>3. CASE UNCHANGED cooldownVars
    BY <1>3 DEF SpacedInv, cooldownVars
  <1>4. QED BY <1>1, <1>2, <1>3, SetStepKinds

\* The StatefulSet reconciler implements the promise of one eviction per
\* cooldown period as well: an update that conflicts or goes unanswered after
\* the eviction, and Pods that come back under their old names, do not make it
\* forget; a restart does, which the promise allows.  (executeGradualRebalancing)
THEOREM StatefulSetKeepsPromise == SetSpec => PromiseKept
  <1>1. SetInit => Cooldown!Init /\ SpacedInv
    BY SpacedInit DEF SetInit, Init, Cooldown!Init
  <1>2. ASSUME SpacedInv, [SetNext]_allVars
        PROVE  [Cooldown!Next]_promised
    <2>1. \/ ReconcileStep \/ Restart \/ Tick
          \/ UNCHANGED promised
      BY <1>2, SetStepKinds
         DEF ToggleWindow, CategorizeSet, controllerVars, histories, cooldownVars, promised
    <2>2. QED BY <1>2, <2>1, PromiseStep
  <1>3. ASSUME SpacedInv, [SetNext]_allVars
        PROVE  [Evicts => Cooldown!Evict]_vars
    <2>1. ReconcileStep \/ Restart \/ UNCHANGED rec \/ UNCHANGED pods
      BY <1>3, SetStepKinds DEF Tick, ToggleWindow, CategorizeSet, clusterVars, cooldownVars
    <2>2. QED BY <1>3, <2>1, EvictStep
  <1>4. QED
    BY <1>1, <1>2, <1>3, SetSpacedStep, PTL
       DEF SetSpec, PromiseKept, promised, Cooldown!Promise
-----------------------------------------------------------------------------
(* Types.                                                                  *)

\* Among Pods there is one with the highest ordinal.  (sortPodsByOrdinal)
LEMMA HighestOrdinalExists ==
  ASSUME NEW S \in SUBSET Pods, S # {}
  PROVE  HighestOrdinal(S) \in S
  <1> DEFINE Above(p) == {r \in S : Ordinal[r] > Ordinal[p]}
             Aboves == {Above(p) : p \in S}
  <1>1. Aboves \subseteq FiniteSubsetsOf(Pods) /\ Aboves # {}
    <2>1. \A p \in S : Above(p) \in SUBSET Pods
      OBVIOUS
    <2>2. \A p \in S : IsFiniteSet(Above(p))
      BY <2>1, WorkloadAssumption, FS_Subset
    <2>3. QED
      BY <2>1, <2>2 DEF FiniteSubsetsOf
  <1>2. IsWellFoundedOn(StrictSubsetOrdering(Pods), FiniteSubsetsOf(Pods))
    BY FS_StrictSubsetOrderingWellFounded
  <1> HIDE DEF Aboves
  <1>3. PICK A \in Aboves : \A B \in Aboves : ~(<<B, A>> \in StrictSubsetOrdering(Pods))
    BY <1>1, <1>2, WFMin, Zenon
  <1> USE DEF Aboves
  <1>4. PICK q \in S : A = Above(q)
    OBVIOUS
  <1>5. ASSUME NEW p \in S, ~(Ordinal[p] <= Ordinal[q])
        PROVE  FALSE
    <2>1. \A r \in S : Ordinal[r] \in Nat
      BY SetAssumption
    <2>2. Above(p) \subseteq Above(q) /\ p \in Above(q) /\ p \notin Above(p)
      BY <1>5, <2>1
    <2>3. <<Above(p), Above(q)>> \in StrictSubsetOrdering(Pods)
      BY <2>2 DEF StrictSubsetOrdering
    <2>4. QED
      BY <1>3, <1>4, <2>3
  <1>6. QED
    BY <1>5, Zenon DEF HighestOrdinal

\* Only ready Pods that the cache shows are chosen, and one on an on-demand
\* node only if there are more than asked for.  (selectPodsForDeletion)
LEMMA ChosenFromExcess ==
  ASSUME NEW unknown, NEW S \in PodsToDeleteSet(unknown), S # {}, rec.onDemand \in Nat
  PROVE  /\ HighestOrdinal(S) \in Pods
         /\ view[HighestOrdinal(S)].phase = "ready"
         /\ \/ view[HighestOrdinal(S)].node = "spot"
            \/ /\ view[HighestOrdinal(S)].node = "onDemand"
               /\ Cardinality(EligiblePods("onDemand", unknown)) > rec.onDemand
  <1> DEFINE spot == EligiblePods("spot", unknown)
             onDemand == EligiblePods("onDemand", unknown)
             v == HighestOrdinal(S)
  <1>1. PICK T \in SUBSET spot, D \in SUBSET onDemand :
          S = T \cup D /\ Cardinality(D) = Excess(onDemand, rec.onDemand)
    BY DEF PodsToDeleteSet
  <1>2. spot \subseteq Pods /\ onDemand \subseteq Pods
    BY DEF EligiblePods
  <1>3. v \in S
    BY <1>1, <1>2, HighestOrdinalExists
  <1>4. CASE v \in T
    BY <1>2, <1>4 DEF EligiblePods, capacityFor
  <1>5. CASE v \in D
    <2>1. D # {} /\ D \in SUBSET Pods
      BY <1>2, <1>5
    <2>2. IsFiniteSet(D)
      BY <2>1, PodSets
    <2>3. Cardinality(D) # 0
      BY <2>1, <2>2, FS_EmptySet
    <2>4. Cardinality(onDemand) > rec.onDemand
      BY <1>1, <2>3 DEF Excess
    <2>5. v \in onDemand
      BY <1>5
    <2>6. QED
      BY <2>4, <2>5 DEF EligiblePods, capacityFor
  <1>6. QED
    BY <1>1, <1>3, <1>4, <1>5

\* The Pod the reconciler chooses is one of the cluster's.
LEMMA CategorizeSetTypes ==
  ASSUME TypeOK, CategorizeSet
  PROVE  TypeOK'
  <1>1. UNCHANGED <<pods, view, workload, label, status, window, lag, lastDeletion,
                    sinceEviction, memory>>
    BY DEF CategorizeSet, clusterVars, envVars, histories
  <1>2. Idle \in Reconciliation /\ rec \in Reconciliation /\ rec.onDemand \in Nat
    BY IdleType DEF TypeOK, Reconciliation
  <1>3. rec' = Idle \/ \E q \in Pods : rec' = [rec EXCEPT !.pc = "checkPDB", !.victim = q]
    <2>1. PICK unknown \in Unclassified : \E S \in PodsToDeleteSet(unknown) :
            IF S = {} THEN Done
            ELSE rec' = [rec EXCEPT !.pc = "checkPDB", !.victim = HighestOrdinal(S)]
      BY DEF CategorizeSet
    <2>2. PICK S \in PodsToDeleteSet(unknown) :
            IF S = {} THEN Done
            ELSE rec' = [rec EXCEPT !.pc = "checkPDB", !.victim = HighestOrdinal(S)]
      BY <2>1
    <2>3. S # {} => HighestOrdinal(S) \in Pods
      BY <1>2, ChosenFromExcess
    <2>4. QED
      BY <2>2, <2>3 DEF Done
  <1>4. rec' \in Reconciliation
    BY <1>2, <1>3 DEF Reconciliation, PCs
  <1>5. QED
    BY <1>1, <1>4 DEF TypeOK, ClusterTypeOK

\* The steps of the Pods and of the StatefulSet controller keep the types.
LEMMA SetPodTypes ==
  ASSUME SetTypeOK, NEW q \in Pods, SetPodStep(q)
  PROVE  SetTypeOK'
  <1>1. TypeOK /\ ClusterTypeOK
    BY DEF SetTypeOK, TypeOK
  <1>2. CASE SyncPod(q) /\ UNCHANGED setVars
    BY <1>1, <1>2, SyncTypes DEF SetTypeOK, setVars
  <1>3. CASE Recreate(q)
    <2>0. disturbed' \in 0 .. MaxDisturbances
      BY <1>3, SetAssumption DEF Recreate, Disturb, SetTypeOK
    <2>1. PICK c \in Capacity : pods' = [pods EXCEPT ![q] =
                  [NoPod EXCEPT !.phase = "pending", !.selector = c]]
      BY <1>3, ReplacementType DEF Recreate, Capacity
    <2>2. ClusterTypeOK'
      BY <1>1, <1>3, <2>1, PendingType, PodsUpdated DEF Recreate, ClusterTypeOK
    <2>3. TypeOK'
      BY <1>1, <1>3, <2>2, ClusterTypes DEF Recreate, envVars, TypeOK
    <2>4. QED
      BY <1>3, <2>0, <2>3 DEF Recreate, SetTypeOK
  <1>4. CASE RollingUpdate(q)
    <2>1. ClusterTypeOK'
      BY <1>1, <1>4, PhaseType DEF RollingUpdate, ClusterTypeOK, Phases
    <2>2. TypeOK'
      BY <1>1, <1>4, <2>1, ClusterTypes DEF RollingUpdate, envVars, TypeOK
    <2>3. QED
      BY <1>4, <2>2 DEF RollingUpdate, SetTypeOK, setVars
  <1>5. CASE /\ (\E c \in CapacityTypes : Bind(q, c)) \/ BecomeReady(q) \/ Gone(q)
             /\ UNCHANGED <<envVars, controllerVars, setVars>>
    <2>1. ClusterTypeOK'
      BY <1>1, <1>5, CommonPodTypes
    <2>2. TypeOK'
      BY <1>1, <1>5, <2>1, ClusterTypes DEF envVars, TypeOK
    <2>3. QED
      BY <1>5, <2>2 DEF SetTypeOK, setVars
  <1>6. QED
    BY <1>2, <1>3, <1>4, <1>5 DEF SetPodStep

\* Every step keeps the types.
LEMMA SetTypeStep ==
  ASSUME SetTypeOK, [SetNext]_allVars
  PROVE  SetTypeOK'
  <1>1. TypeOK /\ ClusterTypeOK /\ disturbed \in 0 .. MaxDisturbances
    BY DEF SetTypeOK, TypeOK
  <1>2. Disturb => disturbed' \in 0 .. MaxDisturbances
    BY <1>1, SetAssumption DEF Disturb
  <1>3. CASE UpdateTemplate
    <2>1. TypeOK'
      BY <1>1, <1>3 DEF UpdateTemplate, vars, TypeOK, ClusterTypeOK
    <2>2. QED
      BY <1>2, <1>3, <2>1 DEF UpdateTemplate, SetTypeOK
  <1>4. CASE CategorizeSet
    BY <1>1, <1>2, <1>4, CategorizeSetTypes DEF CategorizeSet, CountGivingUp, SetTypeOK
  <1>5. CASE ReconcileSetStep /\ ~UpdateTemplate /\ ~CategorizeSet
    <2>1. ReconcileStep
      BY <1>5 DEF ReconcileSetStep, FetchSet, ForgetSet, MeasureSet, CheckWindowSet,
                  CheckPDBSet, EvictHighest, ReconcileStep
    <2>2. TypeOK'
      BY <1>1, <2>1, ReconcilerTypes
    <2>3. /\ outdated' = outdated /\ selected' = selected
          /\ update' \in {"none", "due", update}
          /\ Disturb \/ disturbed' = disturbed
      BY <1>5 DEF ReconcileSetStep, FetchSet, ForgetSet, MeasureSet, CheckWindowSet,
                  CheckPDBSet, EvictHighest, CountGivingUp, setVars
    <2>4. QED
      BY <1>2, <2>2, <2>3 DEF SetTypeOK
  <1>6. CASE SyncSetStatus
    <2>1. TypeOK'
      BY <1>1, <1>6, ClusterTypes
         DEF SyncSetStatus, SetStatus, clusterVars, TypeOK, ClusterTypeOK
    <2>2. QED
      BY <1>6, <2>1 DEF SyncSetStatus, SetTypeOK, setVars
  <1>7. CASE TickSet
    BY <1>1, <1>7, ReconcilerTypes DEF TickSet, SetTypeOK, setVars
  <1>8. CASE Disturbance
    <2>1. TypeOK'
      <3>1. ASSUME NEW q \in Pods, Interrupt(q) PROVE TypeOK'
        <4>1. Interrupt(q) => [Next]_vars
          BY DEF Next
        <4>2. QED
          BY <1>1, <3>1, <4>1, TypeStep
      <3>2. QED
        BY <1>1, <1>8, <3>1, ReconcilerTypes DEF Disturbance, RestartSet
    <2>2. /\ outdated' = outdated /\ selected' = selected
          /\ update' \in {"none", update}
          /\ Disturb \/ disturbed' = disturbed
      BY <1>8 DEF Disturbance, RestartSet, setVars
    <2>3. QED
      BY <1>2, <2>1, <2>2 DEF SetTypeOK
  <1>9. CASE UNCHANGED allVars
    BY <1>9 DEF allVars, vars, setVars, SetTypeOK, TypeOK, ClusterTypeOK
  <1>10. QED
    BY <1>3, <1>4, <1>5, <1>6, <1>7, <1>8, <1>9, SetPodTypes DEF SetNext

\* At the start no Pod is outdated.
LEMMA SetTypeInit == SetInit => SetTypeOK
  BY TypeInit, SetAssumption DEF SetInit, SetTypeOK

\* Every variable of the StatefulSet reconciler and of the set around it keeps
\* its type; in particular the Pod it evicts is one of the set's.
THEOREM SetAlwaysTypeOK == SetSpec => []SetTypeOK
  BY SetTypeInit, SetTypeStep, PTL DEF SetSpec

-----------------------------------------------------------------------------
(* The floor.                                                              *)

\* The names the set has Pods for.
Named == {q \in Pods : Ordinal[q] < workload.replicas}

\* No other Pods exist, so that a set with all its replicas ready has no Pod
\* that is not.
NamesInv ==
  /\ Cardinality(Named) = workload.replicas
  /\ \A q \in Pods : pods[q] # NoPod \/ q \in outdated => q \in Named

\* A rollout is one's own, starts within the cooldown and is over when the next
\* reconciliation begins: the status that shows it reaches the cache earlier.
RolloutInv ==
  /\ update = "due" => lastDeletion = 0 /\ rec.pc = "idle" /\ outdated = {}
  /\ status = "stable" /\ outdated # {} =>
       lastDeletion < CooldownPeriod \/ label = "absent"
  /\ rec.pc # "idle" => update = "none" /\ outdated = {}

\* What the cache shows ready on an on-demand node, and is not, was evicted
\* lately or is being restarted; a victim that is still the Pod that was chosen
\* can be spared.
SetFloorInv ==
  /\ \A q \in Pods : ViewLags(q)
  /\ \A q \in Pods : q \in outdated \/ EvictedLately(q)
  /\ rec.pc \in {"checkPDB", "evict"} /\ selected = "same" => VictimSpare

\* At the start the set has its Pods, and the cache shows them.
LEMMA SetFloorInit == SetInit => NamesInv /\ RolloutInv /\ SetFloorInv
  <1> SUFFICES ASSUME SetInit PROVE NamesInv /\ RolloutInv /\ SetFloorInv
    OBVIOUS
  <1>1. RolloutInv
    BY DEF SetInit, Init, Idle, RolloutInv
  <1>2. SetFloorInv
    BY DEF SetInit, Init, Idle, SetFloorInv, ViewLags, EvictedLately
  <1>3. NamesInv
    <2>1. PICK running \in SUBSET Pods, on \in [Pods -> CapacityTypes] :
            /\ Cardinality(running) = workload.replicas
            /\ pods = [q \in Pods |->
                         IF q \in running
                         THEN [phase |-> "ready", selector |-> "none", node |-> on[q]]
                         ELSE NoPod]
      BY DEF SetInit, Init
    <2>2. \A q \in Pods : pods[q] # NoPod <=> q \in running
      BY <2>1 DEF NoPod
    <2>3. Named = running
      BY <2>2 DEF SetInit, Named
    <2>4. QED
      BY <2>1, <2>2, <2>3 DEF SetInit, NamesInv
  <1>4. QED
    BY <1>1, <1>2, <1>3

\* The workload stays as it is, and a Pod that was not there is there after a
\* step only if it was created under a name of the set.
LEMMA NamesStep ==
  ASSUME SetTypeOK, NamesInv, [SetNext]_allVars
  PROVE  NamesInv'
  <1>1. pods \in [Pods -> PodObject]
    BY DEF SetTypeOK, TypeOK, ClusterTypeOK
  <1>2. /\ UNCHANGED workload
        /\ \A q \in Pods : pods'[q] # NoPod => pods[q] # NoPod \/ Ordinal[q] < workload.replicas
        /\ \A q \in outdated' : q \in outdated \/ pods[q] # NoPod
    <2>1. CASE UpdateTemplate
      BY <2>1 DEF UpdateTemplate, vars
    <2>2. CASE ReconcileSetStep /\ ~UpdateTemplate
      <3>1. CASE EvictHighest
        <4>1. /\ UNCHANGED <<workload, outdated>>
              /\ UNCHANGED pods \/ (/\ pods' = [pods EXCEPT ![rec.victim].phase = "terminating"]
                                    /\ Active(rec.victim))
          BY <3>1 DEF EvictHighest, EvictPod, TakeEffect
        <4>2. \A q \in Pods : pods'[q] # NoPod => pods[q] # NoPod
          BY <1>1, <4>1 DEF Active, NoPod
        <4>3. QED
          BY <4>1, <4>2
      <3>2. CASE ~EvictHighest
        BY <2>2, <3>2
           DEF ReconcileSetStep, FetchSet, ForgetSet, MeasureSet, CheckWindowSet,
               CheckPDBSet, CategorizeSet, Fetch, ForgetDeployment, Measure, CheckWindow,
               CheckPDBStatus, clusterVars, setVars
      <3>3. QED
        BY <3>1, <3>2
    <2>3. ASSUME NEW q \in Pods, SetPodStep(q) \/ (Interrupt(q) /\ UNCHANGED outdated)
          PROVE  /\ UNCHANGED workload
                 /\ outdated' \subseteq outdated
                 /\ \A r \in Pods : pods'[r] # NoPod =>
                      pods[r] # NoPod \/ Ordinal[r] < workload.replicas
      <3>1. CASE Recreate(q)
        <4>1. Ordinal[q] < workload.replicas /\ UNCHANGED workload /\ outdated' \subseteq outdated
          BY <3>1 DEF Recreate
        <4>2. PICK p : pods' = [pods EXCEPT ![q] = p]
          BY <3>1, Zenon DEF Recreate
        <4>3. QED
          BY <1>1, <4>1, <4>2
      <3>2. CASE SyncPod(q)
        BY <2>3, <3>2 DEF SyncPod, Sync, SetPodStep, Recreate, RollingUpdate, setVars
      <3>3. CASE RollingUpdate(q)
        BY <1>1, <3>3 DEF RollingUpdate, setVars, NamesInv, Named
      <3>4. CASE /\ (\E c \in CapacityTypes : Bind(q, c)) \/ BecomeReady(q) \/ Gone(q)
                      \/ Interrupt(q)
                 /\ UNCHANGED outdated
        <4>1. UNCHANGED <<workload, outdated>>
          BY <3>4 DEF Bind, BecomeReady, Gone, Interrupt, Terminate
        <4>2. pods[q].phase # "none" /\ \A r \in Pods \ {q} : pods'[r] = pods[r]
          BY <1>1, <3>4 DEF Bind, BecomeReady, Gone, Interrupt, Terminate
        <4>3. QED
          BY <4>1, <4>2 DEF NoPod
      <3>5. QED
        BY <2>3, <3>1, <3>2, <3>3, <3>4 DEF SetPodStep, setVars
    <2>4. CASE SyncSetStatus \/ TickSet \/ UNCHANGED allVars
      BY <2>4 DEF SyncSetStatus, TickSet, Tick, clusterVars, allVars, vars, setVars
    <2>5. CASE RestartSet \/ (Relabel /\ UNCHANGED outdated) \/ (ToggleWindow /\ UNCHANGED setVars)
      BY <2>5 DEF RestartSet, Restart, Relabel, ToggleWindow, clusterVars, setVars
    <2>6. QED
      BY <2>1, <2>2, <2>3, <2>4, <2>5 DEF SetNext, Disturbance
  <1>3. Named' = Named
    BY <1>2 DEF Named
  <1>4. outdated' \subseteq Pods
    BY SetTypeStep DEF SetTypeOK
  <1>5. QED
    BY <1>2, <1>3, <1>4 DEF NamesInv, Named

\* A reconciliation begins only when no rollout is under way, and only its own
\* eviction starts another.
LEMMA RolloutStep ==
  ASSUME SetTypeOK, RolloutInv, 0 < CooldownPeriod, [SetNext]_allVars
  PROVE  RolloutInv'
  <1>1. CooldownPeriod \in Nat /\ lastDeletion \in 0 .. CooldownPeriod
    BY RebalanceAssumption DEF SetTypeOK, TypeOK
  <1>2. CASE FetchSet
    <2>1. /\ update = "none" /\ status = "stable" /\ label # "absent"
          /\ lastDeletion >= CooldownPeriod
          /\ UNCHANGED <<update, outdated, status, label, lastDeletion>>
      BY <1>2 DEF FetchSet, Fetch, IsSpotalisEnabled, IsDeploymentStableAndReady, envVars, setVars
    <2>2. QED
      BY <1>1, <2>1 DEF RolloutInv
  <1>3. CASE ForgetSet
    BY <1>3 DEF ForgetSet, ForgetDeployment, envVars, setVars, RolloutInv
  <1>4. CASE MeasureSet \/ CheckWindowSet \/ CategorizeSet \/ CheckPDBSet
    <2>1. /\ rec.pc # "idle"
          /\ UNCHANGED <<update, outdated, status, label, lastDeletion>>
      BY <1>4 DEF MeasureSet, CheckWindowSet, CategorizeSet, CheckPDBSet, Measure,
                  CheckWindow, CheckPDBStatus, envVars, setVars
    <2>2. QED
      BY <2>1 DEF RolloutInv
  <1>5. CASE EvictHighest
    <2>1. /\ rec.pc # "idle" /\ rec'.pc = "idle"
          /\ UNCHANGED outdated
          /\ update' = "due" => lastDeletion' = 0
      BY <1>5 DEF EvictHighest, EvictPod, Done, Idle
    <2>2. QED
      BY <2>1 DEF RolloutInv
  <1>6. CASE UpdateTemplate
    BY <1>1, <1>6 DEF UpdateTemplate, vars, RolloutInv
  <1>7. ASSUME NEW q \in Pods, SetPodStep(q)
        PROVE  RolloutInv'
    <2>1. UNCHANGED <<update, rec, status, label, lastDeletion>> /\ outdated' \subseteq outdated
      BY <1>7 DEF SetPodStep, Recreate, RollingUpdate, SyncPod, envVars, controllerVars, setVars
    <2>2. QED
      BY <2>1 DEF RolloutInv
  <1>8. CASE SyncSetStatus
    <2>1. UNCHANGED <<update, rec, outdated, label, lastDeletion>>
      BY <1>8 DEF SyncSetStatus, controllerVars, setVars
    <2>2. status' = "stable" => outdated = {}
      BY <1>8 DEF SyncSetStatus, SetStatus
    <2>3. QED
      BY <2>1, <2>2 DEF RolloutInv
  <1>9. CASE TickSet
    <2>1. /\ UNCHANGED <<update, rec, outdated, label, status>> /\ update = "none"
          /\ status = SetStatus
      BY <1>9 DEF TickSet, Tick, setVars
    <2>2. QED
      BY <2>1 DEF RolloutInv, SetStatus
  <1>10. CASE RestartSet
    <2>1. /\ rec'.pc = "idle" /\ update' = "none" /\ status = SetStatus
          /\ UNCHANGED <<outdated, status>>
      BY <1>10 DEF RestartSet, Restart, Done, Idle
    <2>2. QED
      BY <2>1 DEF RolloutInv, SetStatus
  <1>11. CASE Relabel /\ status = SetStatus /\ UNCHANGED <<outdated, update>>
    BY <1>11 DEF Relabel, controllerVars, RolloutInv, SetStatus
  <1>12. CASE ToggleWindow /\ UNCHANGED setVars
    BY <1>12 DEF ToggleWindow, controllerVars, setVars, RolloutInv
  <1>13. ASSUME NEW q \in Pods, Interrupt(q), UNCHANGED <<outdated, update>>
         PROVE  RolloutInv'
    BY <1>13 DEF Interrupt, envVars, controllerVars, RolloutInv
  <1>14. CASE UNCHANGED allVars
    BY <1>14 DEF allVars, vars, setVars, RolloutInv
  <1>15. QED
    BY <1>2, <1>3, <1>4, <1>5, <1>6, <1>7, <1>8, <1>9, <1>10, <1>11, <1>12, <1>13, <1>14
       DEF SetNext, ReconcileSetStep, Disturbance

\* The rolling update waits until every Pod is ready, so it restarts a ready one.
LEMMA RestartsReady ==
  ASSUME SetTypeOK, NamesInv, NEW q \in Pods, RollingUpdate(q)
  PROVE  pods[q].phase = "ready"
  <1>1. ReadyPods \in SUBSET Named /\ Named \in SUBSET Pods /\ q \in Named
    BY DEF RollingUpdate, ReadyPods, NamesInv, Named, NoPod
  <1>2. IsFiniteSet(Named)
    BY <1>1, PodSets
  <1>3. Cardinality(ReadyPods) = Cardinality(Named)
    BY DEF RollingUpdate, NamesInv
  <1>4. ReadyPods = Named
    BY <1>1, <1>2, <1>3, FS_Subset
  <1>5. QED
    BY <1>1, <1>4 DEF ReadyPods

\* What the steps of a Pod do to what the cache shows, and to the victim.
LEMMA SetPodFloor ==
  ASSUME SetTypeOK, NamesInv, RolloutInv, SetFloorInv, NEW q \in Pods,
         SetPodStep(q) \/ (Interrupt(q) /\ UNCHANGED <<outdated, update, selected>>),
         ~SyncPod(q)
  PROVE  SetFloorInv'
  <1>1. /\ TypeOK /\ ClusterTypeOK /\ \A r \in Pods : ViewLags(r)
        /\ pods \in [Pods -> PodObject] /\ view \in [Pods -> PodObject]
    BY DEF SetTypeOK, TypeOK, ClusterTypeOK, SetFloorInv
  <1>2. UNCHANGED <<view, lag, rec, sinceEviction, memory>>
    BY DEF SetPodStep, Interrupt, Recreate, RollingUpdate, Bind, BecomeReady, Gone, Terminate,
           envVars, controllerVars, histories
  <1> DEFINE Unharmed ==
               /\ \A r \in Pods : ViewLags(r)'
               /\ \A r \in Pods : view[r].phase = "ready" /\ view[r].node = "onDemand"
                                    /\ pods'[r] # view[r] => pods[r] # view[r]
               /\ ReadyOnDemand \subseteq ReadyOnDemand'
             VictimStays ==
               pods[rec.victim].phase \in {"ready", "terminating", "none"} =>
                 /\ pods'[rec.victim].phase \in {"ready", "terminating", "none"}
                 /\ pods'[rec.victim].node = "onDemand" => pods[rec.victim].node = "onDemand"
  <1>3. ASSUME Unharmed, selected' = "same" => selected = "same",
               \A r \in outdated \ outdated' : view[r].phase # "ready",
               selected' = "same" /\ rec.victim \in Pods => VictimStays
        PROVE  SetFloorInv'
    <2>1. \A r \in Pods : r \in outdated' \/ EvictedLately(r)'
      BY <1>2, <1>3 DEF SetFloorInv, EvictedLately
    <2>2. ASSUME rec'.pc \in {"checkPDB", "evict"}, selected' = "same" PROVE VictimSpare'
      <3>1. VictimSpare
        BY <1>2, <1>3, <2>2 DEF SetFloorInv
      <3>2. QED
        BY <1>1, <1>2, <1>3, <2>2, <3>1, SpareKept DEF VictimSpare
    <2>3. QED
      BY <1>3, <2>1, <2>2 DEF SetFloorInv
  <1>4. CASE Recreate(q)
    <2>1. /\ pods[q] = NoPod /\ view[q].phase # "ready" /\ outdated' = outdated \ {q}
          /\ selected' = IF rec.victim = q THEN "replaced" ELSE selected
      BY <1>4 DEF Recreate
    <2>2. PICK p : pods' = [pods EXCEPT ![q] = p]
      BY <1>4, Zenon DEF Recreate
    <2>3. Unharmed /\ \A r \in Pods \ {q} : pods'[r] = pods[r]
      BY <1>1, <1>2, <2>1, <2>2, CreateFloor
    <2>4. QED
      BY <1>3, <2>1, <2>3
  <1>5. CASE RollingUpdate(q)
    <2>1. /\ pods[q].phase = "ready" /\ q \in outdated
          /\ pods' = [pods EXCEPT ![q].phase = "terminating"] /\ UNCHANGED outdated
      BY <1>5, RestartsReady DEF RollingUpdate, setVars
    <2>2. rec.pc = "idle"
      BY <2>1 DEF RolloutInv
    <2>3. pods'[q] = Terminating(pods[q]) /\ \A r \in Pods \ {q} : pods'[r] = pods[r]
      BY <1>1, <2>1 DEF Terminating
    <2>4. view[q].phase = "ready" => pods[q] = view[q]
      BY <1>1, <2>1, TerminatingFields DEF ViewLags
    <2>5. \A r \in Pods : ViewLags(r)'
      BY <1>1, <1>2, <2>3, <2>4 DEF ViewLags
    <2>6. \A r \in Pods : r \in outdated' \/ EvictedLately(r)'
      BY <1>2, <2>1, <2>3 DEF SetFloorInv, EvictedLately
    <2>7. QED
      BY <1>2, <2>2, <2>5, <2>6 DEF SetFloorInv
  <1>6. CASE /\ \/ (\E c \in CapacityTypes : Bind(q, c)) \/ BecomeReady(q) \/ Gone(q)
                \/ (Terminate(q) /\ pods[q].node = "spot")
             /\ UNCHANGED <<outdated, selected>>
    <2>1. Unharmed /\ \A r \in Pods : pods[r].phase \in {"ready", "terminating", "none"} =>
                        /\ pods'[r].phase \in {"ready", "terminating", "none"}
                        /\ pods'[r].node = "onDemand" => pods[r].node = "onDemand"
      BY <1>1, <1>6, CommonPodFloor, Zenon
    <2>2. QED
      BY <1>3, <1>6, <2>1
  <1>7. QED
    BY <1>4, <1>5, <1>6 DEF SetPodStep, Interrupt, setVars

\* The Pod with the highest ordinal among the selected can be spared.
LEMMA CategorizeSetFloor ==
  ASSUME SetTypeOK, SpacedInv, RolloutInv, SetFloorInv, SyncWithin < CooldownPeriod,
         CategorizeSet
  PROVE  SetFloorInv'
  <1>1. /\ UNCHANGED <<pods, view, memory, lag, sinceEviction, outdated>>
        /\ rec.pc # "idle" /\ outdated = {}
        /\ TypeOK /\ rec.onDemand \in Nat
    BY DEF CategorizeSet, clusterVars, envVars, histories, RolloutInv, SetTypeOK, TypeOK,
           Reconciliation
  <1>2. (\A r \in Pods : ViewLags(r)) /\ (\A r \in Pods : EvictedLately(r))
    BY <1>1 DEF SetFloorInv
  <1>3. (\A r \in Pods : ViewLags(r)') /\ (\A r \in Pods : EvictedLately(r)')
    BY <1>1, <1>2 DEF ViewLags, EvictedLately
  <1>4. ASSUME rec'.pc \in {"checkPDB", "evict"} PROVE VictimSpare'
    <2>1. ~Done
      BY <1>4 DEF Done, Idle
    <2>2. PICK unknown \in Unclassified : \E S \in PodsToDeleteSet(unknown) :
            /\ S # {}
            /\ rec' = [rec EXCEPT !.pc = "checkPDB", !.victim = HighestOrdinal(S)]
      BY <2>1 DEF CategorizeSet
    <2>3. PICK S \in PodsToDeleteSet(unknown) :
            /\ S # {}
            /\ rec' = [rec EXCEPT !.pc = "checkPDB", !.victim = HighestOrdinal(S)]
      BY <2>2
    <2> DEFINE v == HighestOrdinal(S)
    <2>4. /\ v \in Pods /\ view[v].phase = "ready"
          /\ \/ view[v].node = "spot"
             \/ /\ view[v].node = "onDemand"
                /\ Cardinality(EligiblePods("onDemand", unknown)) > rec.onDemand
      BY <1>1, <2>3, ChosenFromExcess
    <2>5. rec' = [rec EXCEPT !.pc = "checkPDB", !.victim = v]
      BY <2>3
    <2> HIDE DEF v
    <2>6. QED
      BY <1>1, <1>2, <2>4, <2>5, ChosenSpare
  <1>5. QED
    BY <1>3, <1>4 DEF SetFloorInv

\* No step makes the cache show a Pod on an on-demand node for longer than it
\* takes to forget its eviction or restart, nor takes away what a victim was
\* spared by.
LEMMA SetFloorStep ==
  ASSUME SetTypeOK, SpacedInv, NamesInv, RolloutInv, SetFloorInv,
         SyncWithin < CooldownPeriod, [SetNext]_allVars
  PROVE  SetFloorInv'
  <1>1. TypeOK /\ (\A r \in Pods : ViewLags(r))
    BY DEF SetTypeOK, SetFloorInv
  <1>2. CASE EvictHighest
    <2>1. rec'.pc = "idle" /\ UNCHANGED outdated /\ EvictPod
      BY <1>2 DEF EvictHighest, EvictPod, Done, Idle
    <2>2. QED
      BY <1>1, <2>1, EvictLags DEF SetFloorInv
  <1>3. CASE UpdateTemplate
    <2>1. UNCHANGED <<pods, view, lag, sinceEviction, rec>> /\ outdated = {} /\ rec.pc = "idle"
      BY <1>3 DEF UpdateTemplate, vars, RolloutInv
    <2>2. QED
      BY <2>1 DEF SetFloorInv, ViewLags, EvictedLately
  <1>4. ASSUME \/ RestartSet \/ TickSet
               \/ \E q \in Pods : SyncPod(q) /\ UNCHANGED setVars
        PROVE  SetFloorInv'
    <2>1. Restart \/ Tick \/ \E q \in Pods : SyncPod(q)
      BY <1>4 DEF RestartSet, TickSet
    <2>2. /\ \A r \in Pods : ViewLags(r)'
          /\ \A r \in Pods : EvictedLately(r) => EvictedLately(r)'
          /\ UNCHANGED pods
      BY <1>1, <2>1, CacheFloor
    <2>3. /\ UNCHANGED <<outdated, selected>>
          /\ rec'.pc = "idle" \/ UNCHANGED <<rec, memory>>
      BY <1>4 DEF RestartSet, TickSet, Restart, Tick, SyncPod, Done, Idle, controllerVars,
                  histories, setVars
    <2>4. ReadyOnDemand' = ReadyOnDemand
      BY <2>2 DEF ReadyOnDemand
    <2>5. QED
      BY <2>2, <2>3, <2>4 DEF SetFloorInv, VictimSpare
  <1>5. CASE FetchSet \/ ForgetSet \/ MeasureSet \/ CheckWindowSet \/ CheckPDBSet
             \/ (ToggleWindow /\ UNCHANGED setVars)
    <2>1. UNCHANGED <<pods, view, lag, sinceEviction, outdated, selected>>
      BY <1>5 DEF FetchSet, ForgetSet, MeasureSet, CheckWindowSet, CheckPDBSet, Fetch,
                  ForgetDeployment, Measure, CheckWindow, CheckPDBStatus, ToggleWindow,
                  clusterVars, envVars, controllerVars, histories, setVars
    <2>2. /\ \A r \in Pods : ViewLags(r)'
          /\ \A r \in Pods : r \in outdated' \/ EvictedLately(r)'
      BY <2>1 DEF SetFloorInv, ViewLags, EvictedLately
    <2>3. ASSUME rec'.pc \in {"checkPDB", "evict"}, selected = "same" PROVE VictimSpare'
      <3>1. ~Done /\ rec \in Reconciliation
        BY <1>1, <2>3 DEF Done, Idle, TypeOK
      <3>2. /\ rec.pc \in {"checkPDB", "evict"} /\ UNCHANGED memory
            /\ rec'.victim = rec.victim /\ rec'.onDemand = rec.onDemand
        <4>1. CASE Fetch \/ Measure \/ CheckWindow
          BY <2>3, <3>1, <4>1 DEF Fetch, Measure, CheckWindow, Reconciliation
        <4>2. CASE ForgetDeployment
          BY <2>3, <4>2 DEF ForgetDeployment
        <4>3. CASE CheckPDBStatus
          BY <2>3, <3>1, <4>3 DEF CheckPDBStatus, histories, Reconciliation
        <4>4. CASE ToggleWindow
          BY <2>3, <4>4 DEF ToggleWindow, controllerVars, histories
        <4>5. QED
          BY <1>5, <4>1, <4>2, <4>3, <4>4
             DEF FetchSet, ForgetSet, MeasureSet, CheckWindowSet, CheckPDBSet
      <3>3. VictimSpare
        BY <2>3, <3>2 DEF SetFloorInv
      <3>4. ReadyOnDemand' = ReadyOnDemand
        BY <2>1 DEF ReadyOnDemand
      <3>5. QED
        BY <1>1, <2>1, <3>2, <3>3, <3>4, SpareKept DEF VictimSpare
    <2>4. QED
      BY <2>1, <2>2, <2>3 DEF SetFloorInv
  <1>6. ASSUME \/ SyncSetStatus \/ UNCHANGED allVars
               \/ (Relabel /\ UNCHANGED <<outdated, update, selected>>)
        PROVE  SetFloorInv'
    <2>1. UNCHANGED <<pods, view, lag, rec, sinceEviction, memory, outdated, selected>>
      BY <1>6 DEF SyncSetStatus, Relabel, clusterVars, controllerVars, histories, allVars,
                  vars, setVars
    <2>2. ReadyOnDemand' = ReadyOnDemand
      BY <2>1 DEF ReadyOnDemand
    <2>3. QED
      BY <2>1, <2>2 DEF SetFloorInv, ViewLags, EvictedLately, VictimSpare
  <1>7. ASSUME NEW q \in Pods,
               SetPodStep(q) \/ (Interrupt(q) /\ UNCHANGED <<outdated, update, selected>>)
        PROVE  SetFloorInv'
    <2>1. CASE SyncPod(q) /\ UNCHANGED setVars
      BY <1>4, <2>1
    <2>2. CASE ~SyncPod(q)
      BY <1>7, <2>2, SetPodFloor
    <2>3. SyncPod(q) => view' # view
      BY <1>1 DEF SyncPod, Sync, TypeOK, ClusterTypeOK
    <2>4. UNCHANGED view \/ (SyncPod(q) /\ UNCHANGED setVars)
      BY <1>7 DEF SetPodStep, Interrupt, Bind, BecomeReady, Gone, Terminate, Recreate,
                  RollingUpdate
    <2>5. QED
      BY <2>1, <2>2, <2>3, <2>4
  <1>8. QED
    BY <1>2, <1>3, <1>4, <1>5, <1>6, <1>7, CategorizeSetFloor
       DEF SetNext, ReconcileSetStep, Disturbance

\* Evicting an on-demand Pod of a StatefulSet never takes the set below the
\* on-demand replicas asked for, although every eviction is followed by a
\* rollout that restarts all of it, as long as the cache is never behind for a
\* whole cooldown period and the victim's name was not taken by another Pod.
\* (selectPodsForDeletion, EvictPod)
THEOREM SetFloorAlwaysKept ==
  ASSUME SyncWithin < CooldownPeriod
  PROVE  SetSpec => SetFloorKept
  <1> DEFINE Inv == SetTypeOK /\ SpacedInv /\ NamesInv /\ RolloutInv /\ SetFloorInv
  <1>1. 0 < CooldownPeriod
    BY RebalanceAssumption
  <1>2. SetInit => Inv
    BY SetTypeInit, SpacedInit, SetFloorInit DEF SetInit
  <1>3. ASSUME Inv, [SetNext]_allVars PROVE Inv'
    BY <1>1, <1>3, SetTypeStep, SetSpacedStep, NamesStep, RolloutStep, SetFloorStep
  <1>4. ASSUME Inv, [SetNext]_allVars
        PROVE  [ Evicts /\ memory = "kept" /\ selected = "same"
                   /\ pods[rec.victim].node = "onDemand" =>
                 Cardinality({ q \in Pods : /\ pods'[q].phase = "ready"
                                            /\ pods'[q].node = "onDemand" })
                   >= rec.onDemand ]_allVars
    <2> SUFFICES ASSUME Evicts, memory = "kept", selected = "same",
                        pods[rec.victim].node = "onDemand"
                 PROVE  Cardinality(ReadyOnDemand') >= rec.onDemand
      BY DEF ReadyOnDemand
    <2>1. rec.pc = "evict" /\ rec'.pc = "idle" /\ pods' # pods
      BY DEF Evicts
    <2>2. EvictPod
      BY <1>4, <2>1, SetStepKinds
         DEF ReconcileStep, Fetch, ForgetDeployment, Measure, CheckWindow, Categorize,
             CheckPDBStatus, CategorizeSet, Restart, ToggleWindow, Tick, clusterVars,
             cooldownVars
    <2>3. QED
      BY <1>4, <2>1, <2>2, EvictFloor DEF SetFloorInv, SetTypeOK
  <1>5. QED
    BY <1>2, <1>3, <1>4, PTL DEF SetSpec, SetFloorKept
=============================================================================
