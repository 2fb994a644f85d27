------------------------ MODULE StatefulSetRebalance ------------------------
(***************************************************************************)
(* The StatefulSet reconciler (pkg/controllers/statefulset_controller.go). *)
(* It is the Deployment reconciler of module Rebalance up to the choice of *)
(* the Pod and after that goes its own way: the Pod with the highest       *)
(* ordinal is evicted and the StatefulSet's Pod template is then updated,  *)
(* which makes the StatefulSet controller restart every Pod.  A Pod's name *)
(* is its identity: its replacement bears the same name, and an eviction   *)
(* names nothing else.                                                     *)
(***************************************************************************)
EXTENDS Rebalance

CONSTANTS
  Ordinal,          \* the ordinal in a Pod's name
  MaxDisturbances   \* bound on failing calls, restarts, reclaims, relabellings
                    \* and placements that rest on a lagging cache

ASSUME SetAssumption ==
  /\ Ordinal \in [Pods -> Nat]
  /\ \A p, q \in Pods : Ordinal[p] = Ordinal[q] => p = q
  /\ MaxDisturbances \in Nat

VARIABLES
  outdated,   \* Pods that were not made from the current Pod template
  update,     \* "due": this reconciliation still has to update the object
  selected,   \* history: "replaced" if the victim's name was taken by
              \* another Pod since the reconciliation looked
  disturbed   \* how many disturbances there were

setVars == <<outdated, update, selected, disturbed>>
allVars == <<vars, setVars>>

SetTypeOK ==
  /\ TypeOK
  /\ outdated \subseteq Pods
  /\ update \in {"none", "due"}
  /\ selected \in {"same", "replaced"}
  /\ disturbed \in 0 .. MaxDisturbances

SetInit ==
  /\ Init
  /\ \A q \in Pods : Ordinal[q] < workload.replicas <=> pods[q] # NoPod
  /\ outdated = {}
  /\ update = "none"
  /\ selected = "same"
  /\ disturbed = 0

Disturb == disturbed < MaxDisturbances /\ disturbed' = disturbed + 1

\* Reconciliations end for want of an answer only so often.
CountGivingUp == IF GivesUp THEN Disturb ELSE UNCHANGED disturbed

-----------------------------------------------------------------------------
(* Reconcile.  Getting, gating, measuring, the window and the check of the *)
(* budget are those of the Deployment reconciler, line by line.            *)

\* The cooldown is not looked at.
FetchSet_eager_bug == update = "none" /\ Fetch_bug /\ UNCHANGED setVars

\* Whether the set is stable is not looked at.
FetchSet_unstable_bug ==
  /\ update = "none"
  /\ rec.pc = "idle"
  /\ IsSpotalisEnabled
  /\ lastDeletion >= CooldownPeriod
  /\ rec' = [rec EXCEPT !.pc = "fetched", !.label = label,
                        !.policy = workload.policy,
                        !.replicas = workload.replicas]
  /\ memory' = IF sinceEviction < CooldownPeriod THEN memory ELSE "kept"
  /\ UNCHANGED <<clusterVars, envVars, lastDeletion, sinceEviction, setVars>>

\* Get, IsSpotalisEnabled, IsNamespaceAllowed, cooldown and
\* isStatefulSetStableAndReady.
FetchSet == update = "none" /\ Fetch /\ UNCHANGED setVars

ForgetSet == update = "none" /\ ForgetDeployment /\ UNCHANGED setVars

\* calculateCurrentReplicaState, CalculateDesiredDistribution, needsRebalancing.
MeasureSet == Measure /\ CountGivingUp /\ UNCHANGED <<outdated, update, selected>>

\* resolveDisruptionWindow and IsWithinWindow.
CheckWindowSet ==
  CheckWindow /\ CountGivingUp /\ UNCHANGED <<outdated, update, selected>>

Excess(eligible, desired) ==
  IF Cardinality(eligible) > desired THEN Cardinality(eligible) - desired ELSE 0

\* The excess on on-demand nodes stays where it is.
PodsToDeleteSet_bug(unknown) ==
  LET spot == EligiblePods("spot", unknown)
  IN  { S \in SUBSET spot : Cardinality(S) = Excess(spot, rec.spot) }

\* selectPodsForDeletion: the excess of both capacity types, cut from lists in
\* the order the cache happened to return them.
PodsToDeleteSet(unknown) ==
  LET spot == EligiblePods("spot", unknown)
      onDemand == EligiblePods("onDemand", unknown)
  IN  { S \cup D : S \in { T \in SUBSET spot :
                             Cardinality(T) = Excess(spot, rec.spot) },
                   D \in { T \in SUBSET onDemand :
                             Cardinality(T) = Excess(onDemand, rec.onDemand) } }

\* sortPodsByOrdinal, descending, and the first of the result.
HighestOrdinal(S) == CHOOSE q \in S : \A p \in S : Ordinal[p] <= Ordinal[q]

\* categorizePodsByNodeType, selectPodsForDeletion and sortPodsByOrdinal.
CategorizeSet ==
  /\ rec.pc = "categorize"
  /\ \E unknown \in Unclassified : \E S \in PodsToDeleteSet(unknown) :
       IF S = {} THEN Done
       ELSE rec' = [rec EXCEPT !.pc = "checkPDB", !.victim = HighestOrdinal(S)]
  /\ selected' = "same"
  /\ CountGivingUp
  /\ UNCHANGED <<clusterVars, envVars, lastDeletion, histories, outdated, update>>

CheckPDBSet == CheckPDBStatus /\ UNCHANGED setVars

\* executeGradualRebalancing: an eviction whose time was stored, so that
\* lastDeletion is 0 now, is followed by the update of the object.  One that
\* the budget refused is not an error.
EvictHighest ==
  /\ EvictPod
  /\ update' = IF lastDeletion' = 0 THEN "due" ELSE "none"
  /\ CountGivingUp
  /\ UNCHANGED <<outdated, selected>>

\* updateStatefulSetForRebalancing writes back the object fetched at the start,
\* with a new timestamp in the Pod template.  The API server refuses it if the
\* object has changed since, be it only its status.
UpdateTemplate ==
  /\ update = "due"
  /\ update' = "none"
  /\ \/ outdated' = { q \in Pods : pods[q] # NoPod } /\ UNCHANGED disturbed
     \/ "conflict" \in Faults /\ Disturb /\ UNCHANGED outdated
  /\ UNCHANGED <<vars, selected>>

\* Status as the StatefulSet controller sees it: ready, current and updated
\* replicas all match the desired number.
SetStatus ==
  IF Cardinality(ReadyPods) = workload.replicas /\ outdated = {}
  THEN "stable" ELSE "unstable"

\* A new process takes longer to start, and a new leader to be elected, than
\* the StatefulSet controller takes to notice an update (SyncWithin), so either
\* sees an object with true status; so does, below, deleting and creating a set.
RestartSet ==
  /\ Restart
  /\ status = SetStatus
  /\ update' = "none"
  /\ Disturb
  /\ UNCHANGED <<outdated, selected>>

-----------------------------------------------------------------------------
(* The StatefulSet controller and the rest of the cluster.                 *)

\* The StatefulSet controller makes up for a Pod that is gone, under the same
\* name.  Terminating takes longer than the cache takes to catch up with that
\* Pod; what the webhook sees of the others may be behind.
Recreate(q) ==
  /\ label # "absent"
  /\ pods[q] = NoPod
  /\ view[q].phase \in {"none", "terminating"}
  /\ Ordinal[q] < workload.replicas
  /\ \E selector \in {ReplacementChoice}
                       \cup (IF "timeout" \in Faults THEN {"none"} ELSE {}) :
       pods' = [pods EXCEPT ![q] = [NoPod EXCEPT !.phase = "pending",
                                                !.selector = selector]]
  /\ outdated' = outdated \ {q}
  /\ selected' = IF rec.victim = q THEN "replaced" ELSE selected
  /\ IF \A p \in Pods \ {q} : view[p] = pods[p] THEN UNCHANGED disturbed ELSE Disturb
  /\ UNCHANGED <<view, workload, envVars, controllerVars, update>>

\* A rolling update goes from the highest ordinal down and waits for each Pod.
RollingUpdate(q) ==
  /\ q \in outdated
  /\ \A p \in outdated : Ordinal[p] <= Ordinal[q]
  /\ Cardinality(ReadyPods) = workload.replicas
  /\ pods' = [pods EXCEPT ![q].phase = "terminating"]
  /\ UNCHANGED <<view, workload, envVars, controllerVars, setVars>>

SyncSetStatus ==
  /\ status' = SetStatus
  /\ status' # status
  /\ UNCHANGED <<clusterVars, label, window, lag, controllerVars, setVars>>

\* Neither the Pods nor the StatefulSet in the cache are behind for longer
\* than SyncWithin, and the update comes well within the cooldown.
TickSet ==
  /\ status = SetStatus
  /\ update = "none"
  /\ Tick
  /\ UNCHANGED setVars

SetPodStep(q) ==
  \/ /\ \/ \E c \in CapacityTypes : Bind(q, c)
        \/ BecomeReady(q)
        \/ Gone(q)
     /\ UNCHANGED <<envVars, controllerVars, setVars>>
  \/ Recreate(q)
  \/ RollingUpdate(q)
  \/ SyncPod(q) /\ UNCHANGED setVars

ReconcileSetStep ==
  \/ FetchSet
  \/ ForgetSet
  \/ MeasureSet
  \/ CheckWindowSet
  \/ CategorizeSet
  \/ CheckPDBSet
  \/ EvictHighest
  \/ UpdateTemplate

\* What users, the cloud and failing hosts do.
Disturbance ==
  \/ RestartSet
  \/ \E q \in Pods : Interrupt(q) /\ Disturb /\ UNCHANGED <<outdated, update, selected>>
  \/ Relabel /\ status = SetStatus /\ Disturb /\ UNCHANGED <<outdated, update, selected>>
  \/ ToggleWindow /\ UNCHANGED setVars

SetNext ==
  \/ ReconcileSetStep
  \/ \E q \in Pods : SetPodStep(q)
  \/ SyncSetStatus
  \/ TickSet
  \/ Disturbance

SetSpec == SetInit /\ [][SetNext]_allVars

\* Every return of Reconcile asks to be called again, so reconciliations keep
\* happening; so do the cluster's controllers, the informers and time.
SetFairness ==
  /\ WF_allVars(ReconcileSetStep)
  /\ \A q \in Pods : WF_allVars(SetPodStep(q))
  /\ WF_allVars(SyncSetStatus)
  /\ WF_allVars(TickSet)

SetFairSpec == SetSpec /\ SetFairness

-----------------------------------------------------------------------------
(* Properties.                                                             *)

\* Evicting an on-demand Pod leaves the desired number of Pods ready on
\* on-demand nodes while the rest of the set is being recreated under names it
\* had before, unless the very victim had been: the eviction names a Pod, not
\* its UID.  (selectPodsForDeletion, EvictPod)
SetFloorKept ==
  [][ Evicts /\ memory = "kept" /\ selected = "same"
        /\ pods[rec.victim].node = "onDemand" =>
      Cardinality({ q \in Pods : /\ pods'[q].phase = "ready"
                                 /\ pods'[q].node = "onDemand" })
        >= rec.onDemand ]_allVars

\* After any number of disturbances, the set comes to the desired distribution
\* and to rest there, although every eviction restarts all of it and the webhook
\* places every Pod anew.  (updateStatefulSetForRebalancing)
SetConverges ==
  <>[](label = "true" /\ window = "open") => <>[](Balanced /\ outdated = {})

\* Spotalis disrupts a workload only once per cooldown period, whether by an
\* eviction or by an update that makes the StatefulSet controller restart a
\* Pod.  (executeGradualRebalancing)
DisruptionsSpaced ==
  [][ (\E q \in Pods : RollingUpdate(q)) =>
        sinceEviction = CooldownPeriod \/ memory = "lost" ]_allVars
=============================================================================
