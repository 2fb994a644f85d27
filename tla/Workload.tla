------------------------------ MODULE Workload ------------------------------
(***************************************************************************)
(* The part of the Kubernetes cluster that Spotalis sees of one workload:  *)
(* the Pods in the API server, the informer cache's lagging copy of them,  *)
(* and the workload object.  The API server, the ReplicaSet controller,    *)
(* the scheduler, the kubelet and the informers are not code of this       *)
(* repository; they are modelled from how the repository uses them.        *)
(* pkg/observation/workload.go, which classifies what the cache shows, is  *)
(* modelled by the operators at the end.                                   *)
(***************************************************************************)
EXTENDS Integers, FiniteSets, Allocation

CONSTANTS
  Pods,           \* Pod identities (names are reused only once all trace is gone)
  Policies,       \* policies the workload's annotations may state
  ReplicaCounts,  \* values of spec.replicas
  MaxGeneration,  \* bound on metadata.generation
  Faults          \* which disturbances the environment may cause

AllFaults == { "delete",       \* a Pod is deleted by another actor
               "drop",         \* an answered admission does not create its Pod
               "rollout",      \* spec changes: the generation is incremented
               "annotate",     \* the policy annotations are edited
               "timeout",      \* the API server gives up on a slow webhook
               "configError",  \* the workload's configuration cannot be read
               "observeError", \* listing Pods or classifying nodes fails
               "unclassified", \* single nodes cannot be classified
               "relabel",      \* the workload's opt-in label is changed
               "evictError",   \* the eviction call fails
               "lostAnswer",   \* the eviction succeeds, its answer is lost
               "window",       \* the disruption window opens and closes
               "conflict",     \* an update is refused, for the object has changed
               "restart" }     \* the Spotalis process restarts

ASSUME WorkloadAssumption ==
  /\ IsFiniteSet(Pods)
  /\ Policies \subseteq Policy
  /\ Policies # {}
  /\ ReplicaCounts \subseteq Nat
  /\ MaxGeneration \in Nat \ {0}
  /\ Faults \subseteq AllFaults

VARIABLES
  pods,      \* the API server's Pods
  view,      \* the same Pods as the informer cache last saw them
  workload   \* the workload object, as the informer cache shows it

clusterVars == <<pods, view, workload>>

CapacityTypes == {"spot", "onDemand"}
Capacity == CapacityTypes \cup {"none"}

\* "request" is a Pod that is inside admission and not yet stored.
Phases == {"none", "request", "pending", "bound", "ready", "terminating"}

\* selector: the capacity type the webhook put in nodeSelector ("none": the
\* Pod was admitted unmodified); node: the capacity type of its node.
PodObject == [phase : Phases, selector : Capacity, node : Capacity]
NoPod == [phase |-> "none", selector |-> "none", node |-> "none"]
WorkloadObject ==
  [generation : 1 .. MaxGeneration, replicas : ReplicaCounts, policy : Policies]

ClusterTypeOK ==
  /\ pods \in [Pods -> PodObject]
  /\ view \in [Pods -> PodObject]
  /\ workload \in WorkloadObject

ClusterInit ==
  /\ pods = [p \in Pods |-> NoPod]
  /\ view = [p \in Pods |-> NoPod]
  /\ workload \in [generation : {1},
                   replicas : ReplicaCounts, policy : Policies]

-----------------------------------------------------------------------------
(* Steps of the cluster's own controllers.                                 *)

\* The scheduler binds a Pod; without a selector any capacity will do.
Bind(p, c) ==
  /\ pods[p].phase = "pending"
  /\ pods[p].selector \in {"none", c}
  /\ pods' = [pods EXCEPT ![p] = [@ EXCEPT !.phase = "bound", !.node = c]]
  /\ UNCHANGED <<view, workload>>

\* The kubelet reports the Pod ready.
BecomeReady(p) ==
  /\ pods[p].phase = "bound"
  /\ pods' = [pods EXCEPT ![p].phase = "ready"]
  /\ UNCHANGED <<view, workload>>

\* Someone other than Spotalis deletes a Pod: a user, a node drain, a spot
\* interruption, a scale-down.
Terminate(p) ==
  /\ "delete" \in Faults
  /\ pods[p].phase \in {"pending", "bound", "ready"}
  /\ pods' = [pods EXCEPT ![p].phase = "terminating"]
  /\ UNCHANGED <<view, workload>>

Gone(p) ==
  /\ pods[p].phase = "terminating"
  /\ pods' = [pods EXCEPT ![p] = NoPod]
  /\ UNCHANGED <<view, workload>>

\* The informer cache catches up with one Pod.  A Pod still in admission is
\* not stored, so the cache has nothing to see of it.
Sync(p) ==
  /\ pods[p].phase # "request"
  /\ view[p] # pods[p]
  /\ view' = [view EXCEPT ![p] = pods[p]]
  /\ UNCHANGED <<pods, workload>>

\* A spec change (template or replicas) increments metadata.generation.
Rollout ==
  /\ "rollout" \in Faults
  /\ workload.generation < MaxGeneration
  /\ \E n \in ReplicaCounts :
       workload' = [workload EXCEPT !.generation = @ + 1, !.replicas = n]
  /\ UNCHANGED <<pods, view>>

\* The policy is kept in annotations, which do not count as a generation.
EditAnnotations ==
  /\ "annotate" \in Faults
  /\ \E policy \in Policies :
       /\ policy # workload.policy
       /\ workload' = [workload EXCEPT !.policy = policy]
  /\ UNCHANGED <<pods, view>>

ClusterStep ==
  \/ \E p \in Pods : \/ \E c \in CapacityTypes : Bind(p, c)
                     \/ Terminate(p)
                     \/ Gone(p)
                     \/ Sync(p)
  \/ Rollout
  \/ EditAnnotations

-----------------------------------------------------------------------------
(* pkg/observation/workload.go on the informer cache's copy.  Terminal     *)
(* (Succeeded, Failed) Pods count for nothing anywhere and are left out.   *)
(* unknown is the set of Pods whose node could not be classified.          *)

capacityFor(p, unknown) ==
  IF view[p].phase \in {"bound", "ready"} /\ p \notin unknown
  THEN view[p].node
  ELSE "none"

\* Snapshot.ActualCounts, as the set of Pods counted for one capacity type.
ActualPods(capacity, unknown) ==
  { p \in Pods : capacityFor(p, unknown) = capacity }

\* Snapshot.EligiblePods, as a set: only Ready Pods may be disrupted.
EligiblePods(capacity, unknown) ==
  { p \in Pods : /\ view[p].phase = "ready"
                 /\ capacityFor(p, unknown) = capacity }

\* What the classifier may leave unknown in one observation.
UnknownChoices == IF "unclassified" \in Faults THEN SUBSET Pods ELSE { {} }
=============================================================================
