----------------------------- MODULE Rebalance ------------------------------
(***************************************************************************)
(* The Deployment reconciler (pkg/controllers/deployment_controller.go)    *)
(* with the eviction helpers (eviction.go), for one Deployment.            *)
(*                                                                         *)
(* controller-runtime never runs two reconciliations of one object at the  *)
(* same time, so there is one reconciliation; it is cut into steps where   *)
(* it reads the informer cache or calls the API server, and the cluster    *)
(* moves between them.  The admission webhook appears only through its     *)
(* decision for a replacement Pod; module Admission has its own steps.     *)
(***************************************************************************)
EXTENDS Workload

CONSTANTS
  CooldownPeriod,  \* getCooldownPeriod() (10s)
  SyncWithin,      \* longest lag of the informer cache
  MinAvailable,    \* minAvailable of the workload's PDB; 0: there is none
  WindowLevel,     \* where a disruption window is configured
  ConfigWired,     \* r.Config # nil
  Annotated,       \* whether the workload bears any tuning annotation
  Labels           \* what the opt-in label may be changed to

\* "none" also stands for a workload in a namespace that is not allowed,
\* "absent" for a Deployment that does not exist.
AllLabels == {"true", "True", "none", "absent"}

ASSUME RebalanceAssumption ==
  /\ CooldownPeriod \in Nat
  /\ SyncWithin \in Nat
  /\ MinAvailable \in Nat
  /\ WindowLevel \in {"none", "workload", "namespace", "global"}
  /\ ConfigWired \in BOOLEAN
  /\ Annotated \in BOOLEAN
  /\ ~Annotated => Policies = {[minOnDemand |-> 0, spotPercentage |-> 0]}
  /\ Labels \subseteq AllLabels
  /\ Labels # {}

VARIABLES
  label,          \* spotalis.io/enabled of the Deployment
  status,         \* whether the Deployment's status, as the informer cache
                  \* shows it, counts all replicas ready
  window,         \* the disruption window is "open" or "closed"
  lastDeletion,   \* age of lastDeletionTimes[key]; CooldownPeriod if no entry
  rec,            \* the running reconciliation
  lag,            \* how long the cache has been behind on each Pod
  sinceEviction,  \* history: age of the last eviction that took effect
  memory          \* history: "lost" if lastDeletion did not hold back this,
                  \* or the next, reconciliation although it should have

envVars == <<label, status, window, lag>>
histories == <<sinceEviction, memory>>
vars == <<pods, view, workload, label, status, window, lastDeletion, rec, lag,
          sinceEviction, memory>>

Active(q) == pods[q].phase \in {"pending", "bound", "ready"}
ReadyPods == { q \in Pods : pods[q].phase = "ready" }
ActivePods == { q \in Pods : Active(q) }

PCs == {"idle", "fetched", "window", "categorize", "checkPDB", "evict"}

\* The locals of Reconcile: the Deployment it fetched, the desired
\* distribution and the first of podsToDelete.
NoVictim == "none"
Reconciliation ==
  [pc : PCs, label : Labels, policy : Policies, replicas : ReplicaCounts,
   spot : Nat, onDemand : Nat, victim : Pods \cup {NoVictim}]

Idle ==
  [pc |-> "idle", label |-> CHOOSE l \in Labels : TRUE,
   policy |-> CHOOSE policy \in Policies : TRUE,
   replicas |-> CHOOSE n \in ReplicaCounts : TRUE,
   spot |-> 0, onDemand |-> 0, victim |-> NoVictim]

\* Types of all variables of the reconciler and of the cluster around it.
TypeOK ==
  /\ ClusterTypeOK
  /\ label \in Labels
  /\ status \in {"stable", "unstable"}
  /\ window \in {"open", "closed"}
  /\ lastDeletion \in 0 .. CooldownPeriod
  /\ rec \in Reconciliation
  /\ lag \in [Pods -> 0 .. SyncWithin]
  /\ sinceEviction \in 0 .. CooldownPeriod
  /\ memory \in {"kept", "lost"}

\* A Deployment all of whose replicas run, on whatever nodes they happened to
\* be scheduled to before Spotalis was installed or the policy was written.
Init ==
  /\ workload \in [generation : {1}, replicas : ReplicaCounts, policy : Policies]
  /\ \E running \in SUBSET Pods, on \in [Pods -> CapacityTypes] :
       /\ Cardinality(running) = workload.replicas
       /\ pods = [q \in Pods |->
                    IF q \in running
                    THEN [phase |-> "ready", selector |-> "none", node |-> on[q]]
                    ELSE NoPod]
  /\ view = pods
  /\ label \in Labels \ {"absent"}
  /\ status = "stable"
  /\ window = "closed"
  /\ lastDeletion = CooldownPeriod
  /\ rec = Idle
  /\ lag = [q \in Pods |-> 0]
  /\ sinceEviction = CooldownPeriod
  /\ memory = "kept"

-----------------------------------------------------------------------------
(* Reconcile.  An early return that changes nothing is a stuttering step;  *)
(* Done is a return that gives up a reconciliation under way.              *)

Done == rec' = Idle

\* IsSpotalisEnabled, and the namespace filter.
IsSpotalisEnabled == label \in {"true", "True"}

\* isDeploymentStableAndReady, of the status the cache shows.
IsDeploymentStableAndReady == workload.replicas # 0 /\ status = "stable"

\* Seeded defects are named *_bug and are used only to show that the
\* properties below can fail.  Here the cooldown is not looked at.
Fetch_bug ==
  /\ rec.pc = "idle"
  /\ IsSpotalisEnabled
  /\ IsDeploymentStableAndReady
  /\ rec' = [rec EXCEPT !.pc = "fetched", !.label = label,
                        !.policy = workload.policy,
                        !.replicas = workload.replicas]
  /\ memory' = IF sinceEviction < CooldownPeriod THEN memory ELSE "kept"
  /\ UNCHANGED <<clusterVars, envVars, lastDeletion, sinceEviction>>

\* Reconcile up to and including ParseWorkloadConfiguration.
Fetch ==
  /\ rec.pc = "idle"
  /\ IsSpotalisEnabled
  /\ lastDeletion >= CooldownPeriod
  /\ IsDeploymentStableAndReady
  /\ rec' = [rec EXCEPT !.pc = "fetched", !.label = label,
                        !.policy = workload.policy,
                        !.replicas = workload.replicas]
  /\ memory' = IF sinceEviction < CooldownPeriod THEN memory ELSE "kept"
  /\ UNCHANGED <<clusterVars, envVars, lastDeletion, sinceEviction>>

\* What becomes of the memory when lastDeletionTimes lacks an eviction of the
\* given age: losing an old one does no harm.
LosesEviction(age) == IF age < CooldownPeriod THEN "lost" ELSE "kept"

\* The Deployment is not found: its cooldown is memory.
ForgetDeployment ==
  /\ rec.pc = "idle"
  /\ label = "absent"
  /\ lastDeletion' = CooldownPeriod
  /\ memory' = LosesEviction(sinceEviction)
  /\ UNCHANGED <<clusterVars, envVars, rec, sinceEviction>>

\* What one observation may leave unclassified; a failing classifier is not
\* an error to the reconciler and leaves everything unclassified.
Unclassified ==
  UnknownChoices \cup (IF "observeError" \in Faults THEN {Pods} ELSE {})

\* Only an excess on spot is noticed, never a shortage.
NeedsRebalancing_bug(spot, onDemand, desired) ==
  spot + onDemand # 0 /\ spot > desired.spot

NeedsRebalancing(spot, onDemand, desired) ==
  /\ spot + onDemand # 0
  /\ spot # desired.spot \/ onDemand # desired.onDemand

\* calculateCurrentReplicaState, CalculateDesiredDistribution and
\* needsRebalancing.  Only the exact label "true" enables the policy.
Measure ==
  LET desired == CalculateDesiredDistribution(rec.replicas, rec.label = "true",
                                              rec.policy)
  IN  /\ rec.pc = "fetched"
      /\ \E unknown \in Unclassified :
           IF NeedsRebalancing(Cardinality(ActualPods("spot", unknown)),
                               Cardinality(ActualPods("onDemand", unknown)),
                               desired)
           THEN rec' = [rec EXCEPT !.pc = "window", !.spot = desired.spot,
                                   !.onDemand = desired.onDemand]
           ELSE Done
      /\ UNCHANGED <<clusterVars, envVars, lastDeletion, histories>>

\* resolveDisruptionWindow: Deployment, then Namespace, then r.Config.
WindowApplies ==
  \/ WindowLevel \in {"workload", "namespace"}
  \/ WindowLevel = "global" /\ ConfigWired

CheckWindow ==
  /\ rec.pc = "window"
  /\ \/ IF WindowApplies /\ window = "closed"
        THEN Done
        ELSE rec' = [rec EXCEPT !.pc = "categorize"]
     \/ "configError" \in Faults /\ Done
  /\ UNCHANGED <<clusterVars, envVars, lastDeletion, histories>>

\* One Pod too many is selected.
PodsToDelete_bug(unknown) ==
  LET spot == EligiblePods("spot", unknown)
      onDemand == EligiblePods("onDemand", unknown)
  IN  IF Cardinality(spot) > rec.spot THEN spot
      ELSE IF Cardinality(onDemand) >= rec.onDemand THEN onDemand
      ELSE {}

\* categorizeDeploymentPods and selectPodsForDeletion, on a second snapshot:
\* spot excess comes before on-demand excess, and only the first Pod matters.
PodsToDelete(unknown) ==
  LET spot == EligiblePods("spot", unknown)
      onDemand == EligiblePods("onDemand", unknown)
  IN  IF Cardinality(spot) > rec.spot THEN spot
      ELSE IF Cardinality(onDemand) > rec.onDemand THEN onDemand
      ELSE {}

Categorize ==
  /\ rec.pc = "categorize"
  /\ \E unknown \in Unclassified :
       \/ PodsToDelete(unknown) = {} /\ Done
       \/ \E q \in PodsToDelete(unknown) :
            rec' = [rec EXCEPT !.pc = "checkPDB", !.victim = q]
  /\ UNCHANGED <<clusterVars, envVars, lastDeletion, histories>>

\* CheckPDBStatus reads the budget from the cache and may be behind.  An
\* error lets the eviction go ahead.
CheckPDBStatus ==
  LET healthy == Cardinality({ q \in Pods : view[q].phase = "ready" })
  IN  /\ rec.pc = "checkPDB"
      /\ IF MinAvailable = 0 \/ healthy > MinAvailable
         THEN rec' = [rec EXCEPT !.pc = "evict"]
         ELSE Done
      /\ UNCHANGED <<clusterVars, envVars, lastDeletion, histories>>

\* The eviction API: a Pod that terminates already is evicted again without
\* effect, otherwise the budget is enforced.
Evictable(q) ==
  \/ pods[q].phase = "terminating"
  \/ MinAvailable = 0
  \/ Cardinality(ReadyPods \ {q}) >= MinAvailable

TakeEffect(q) ==
  IF Active(q)
  THEN /\ pods' = [pods EXCEPT ![q].phase = "terminating"]
       /\ sinceEviction' = 0
  ELSE UNCHANGED <<pods, sinceEviction>>

\* executeDeploymentRebalancing after the pre-check.  The cooldown starts
\* when the Pod was evicted or had gone already, and only then.
EvictPod ==
  LET q == rec.victim
  IN  /\ rec.pc = "evict"
      /\ \/ /\ pods[q].phase = "none" \/ Evictable(q)
            /\ TakeEffect(q)
            /\ lastDeletion' = 0
            /\ memory' = "kept"
         \/ /\ pods[q].phase # "none" /\ ~Evictable(q)
            /\ UNCHANGED <<pods, lastDeletion, sinceEviction, memory>>
         \/ /\ "evictError" \in Faults
            /\ UNCHANGED <<pods, lastDeletion, sinceEviction, memory>>
         \/ /\ "lostAnswer" \in Faults
            /\ Evictable(q)
            /\ TakeEffect(q)
            /\ memory' = LosesEviction(sinceEviction')
            /\ UNCHANGED lastDeletion
      /\ Done
      /\ UNCHANGED <<view, workload, envVars>>

\* This step ends the reconciliation where it would have gone on, had its calls
\* been answered: with a distribution, an open window, a victim or an eviction.
GivesUp ==
  /\ rec'.pc = "idle"
  /\ \/ /\ rec.pc = "fetched"
        /\ NeedsRebalancing(
             Cardinality(ActualPods("spot", {})),
             Cardinality(ActualPods("onDemand", {})),
             CalculateDesiredDistribution(rec.replicas, rec.label = "true", rec.policy))
     \/ rec.pc = "window" /\ ~(WindowApplies /\ window = "closed")
     \/ rec.pc = "categorize" /\ PodsToDelete({}) # {}
     \/ rec.pc = "evict" /\ lastDeletion' # 0 /\ Evictable(rec.victim)

\* The process restarts, and its informer cache is listed afresh, or another
\* replica is elected, whose cache is behind on other Pods, if on any.  Either
\* way lastDeletionTimes is empty.
Restart ==
  /\ "restart" \in Faults
  /\ lastDeletion' = CooldownPeriod
  /\ \E fresh \in SUBSET Pods :
       /\ view' = [q \in Pods |-> IF q \in fresh THEN pods[q] ELSE view[q]]
       /\ lag' = [q \in Pods |-> IF q \in fresh THEN 0 ELSE lag[q]]
  /\ memory' = LosesEviction(sinceEviction)
  /\ Done
  /\ UNCHANGED <<pods, workload, label, status, window, sinceEviction>>

-----------------------------------------------------------------------------
(* The cluster around the reconciler.                                      *)

controllerVars == <<lastDeletion, rec, histories>>

\* The webhook's answer for a replacement, from what the cache shows at that
\* time.  A workload that is not enabled has a policy of zeros; Pods of one
\* without annotations are left as they are (getConfigFromWorkload).
ReplacementChoice ==
  LET policy == IF label = "true" THEN workload.policy
                ELSE [minOnDemand |-> 0, spotPercentage |-> 0]
  IN  IF Annotated
      THEN Choose(Cardinality(ActualPods("spot", {})),
                  Cardinality(ActualPods("onDemand", {})),
                  AllocateReplicaDistribution(workload.replicas, policy))
      ELSE "none"

\* The ReplicaSet controller makes up for a Pod that is gone or going, with
\* one of a fresh name.
Replace(q) ==
  /\ label # "absent"
  /\ q # rec.victim
  /\ pods[q] = NoPod
  /\ view[q] = NoPod
  /\ Cardinality(ActivePods) < workload.replicas
  /\ \E selector \in {ReplacementChoice}
                       \cup (IF "timeout" \in Faults THEN {"none"} ELSE {}) :
       pods' = [pods EXCEPT ![q] = [NoPod EXCEPT !.phase = "pending",
                                                !.selector = selector]]
  /\ UNCHANGED <<view, workload, envVars, controllerVars>>

\* A spot node is reclaimed.
Interrupt(q) ==
  /\ pods[q].node = "spot"
  /\ Terminate(q)
  /\ UNCHANGED <<envVars, controllerVars>>

\* The Deployment controller's status reaches the cache, however late.  It is
\* stable if as many replicas as desired, and no others, are ready.
SyncStatus ==
  /\ status' = IF /\ Cardinality(ReadyPods) = workload.replicas
                  /\ Cardinality(ActivePods) = workload.replicas
               THEN "stable" ELSE "unstable"
  /\ status' # status
  /\ UNCHANGED <<clusterVars, label, window, lag, controllerVars>>

SyncPod(q) ==
  /\ Sync(q)
  /\ lag' = [lag EXCEPT ![q] = 0]
  /\ UNCHANGED <<label, status, window, controllerVars>>

Relabel ==
  /\ "relabel" \in Faults
  /\ label' \in Labels \ {label}
  /\ UNCHANGED <<clusterVars, status, window, lag, controllerVars>>

ToggleWindow ==
  /\ "window" \in Faults
  /\ window' = IF window = "open" THEN "closed" ELSE "open"
  /\ UNCHANGED <<clusterVars, label, status, lag, controllerVars>>

\* Time passes, but the cache is never behind by more than SyncWithin.
Tick ==
  /\ \A q \in Pods : view[q] # pods[q] => lag[q] < SyncWithin
  /\ \/ lastDeletion < CooldownPeriod
     \/ sinceEviction < CooldownPeriod
     \/ view # pods
  /\ lag' = [q \in Pods |-> IF view[q] # pods[q] THEN lag[q] + 1 ELSE 0]
  /\ lastDeletion' = minInt32(lastDeletion + 1, CooldownPeriod)
  /\ sinceEviction' = minInt32(sinceEviction + 1, CooldownPeriod)
  /\ UNCHANGED <<clusterVars, label, status, window, rec, memory>>

-----------------------------------------------------------------------------
ReconcileStep ==
  \/ Fetch
  \/ ForgetDeployment
  \/ Measure
  \/ CheckWindow
  \/ Categorize
  \/ CheckPDBStatus
  \/ EvictPod

PodStep(q) ==
  \/ /\ \/ \E c \in CapacityTypes : Bind(q, c)
        \/ BecomeReady(q)
        \/ Gone(q)
     /\ UNCHANGED <<envVars, controllerVars>>
  \/ Replace(q)
  \/ SyncPod(q)

Next ==
  \/ ReconcileStep
  \/ Restart
  \/ \E q \in Pods : PodStep(q) \/ Interrupt(q)
  \/ EditAnnotations /\ UNCHANGED <<envVars, controllerVars>>
  \/ SyncStatus
  \/ Relabel
  \/ ToggleWindow
  \/ Tick

Spec == Init /\ [][Next]_vars

-----------------------------------------------------------------------------
(* Properties.                                                             *)

\* This step is an eviction that takes effect on a Pod.
Evicts == rec.pc = "evict" /\ rec'.pc = "idle" /\ pods' # pods

Cooldown == INSTANCE Cooldown WITH
  Period <- CooldownPeriod, since <- sinceEviction, known <- memory

\* The reconciler, of StatefulSets too, implements the promise about its own
\* evictions, although the object it reads changes under it and evictions fail
\* or go unanswered: it forgets only with the process, with the workload or
\* with a lost answer, and only for as long as Cooldown allows.  An eviction
\* that takes effect is one of Cooldown's, also when it comes so soon after
\* another that no age tells them apart.
\* (lastDeletionTimes, executeDeploymentRebalancing, executeGradualRebalancing)
PromiseKept == Cooldown!Promise /\ [][Evicts => Cooldown!Evict]_vars

\* Evicting an on-demand Pod leaves at least as many Pods ready on on-demand
\* nodes as the desired distribution asks for, although both the counts and
\* the candidates come from a cache that lags: the cooldown gives it time to
\* catch up, as long as it is remembered.  (selectPodsForDeletion)
FloorKept ==
  [][ Evicts /\ memory = "kept" /\ pods[rec.victim].node = "onDemand" =>
        Cardinality({ q \in Pods : /\ pods'[q].phase = "ready"
                                   /\ pods'[q].node = "onDemand" })
          >= rec.onDemand ]_vars

Balanced ==
  LET desired == CalculateDesiredDistribution(workload.replicas, TRUE,
                                              workload.policy)
      ReadyOn(c) == Cardinality({ q \in ReadyPods : pods[q].node = c })
  IN  /\ ReadyOn("spot") = desired.spot
      /\ ReadyOn("onDemand") = desired.onDemand

\* From any placement the controller and the webhook together reach the
\* desired distribution and keep it, once users leave the workload alone: no
\* eviction is answered by a replacement on the side it came from, again and
\* again.  (Reconcile, determineTargetCapacityType)
Converges ==
  <>[][UNCHANGED workload]_vars /\ <>[](label = "true") => <>[]Balanced
=============================================================================
