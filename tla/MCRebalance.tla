---------------------------- MODULE MCRebalance -----------------------------
(***************************************************************************)
(* Instances of Rebalance for TLC.  A bounded number of disturbances       *)
(* leaves the reconciler time to converge, and safety is checked of the    *)
(* same behaviours.                                                        *)
(***************************************************************************)
EXTENDS Rebalance, TLC

CONSTANT MaxDisturbances   \* bound on failing calls, restarts, reclaims and edits

VARIABLE disturbed

-----------------------------------------------------------------------------
(* Values for the constants.                                               *)

MostlySpot == [minOnDemand |-> 1, spotPercentage |-> 75]
HighFloor == [minOnDemand |-> 3, spotPercentage |-> 75]

\* One of two replicas on spot, and none.
TwoPolicies == {MostlySpot, HighFloor}

Unset == {[minOnDemand |-> 0, spotPercentage |-> 0]}

-----------------------------------------------------------------------------

DisturbedInit == Init /\ disturbed = 0

Disturb == disturbed < MaxDisturbances /\ disturbed' = disturbed + 1

DisturbedReconcile ==
  ReconcileStep /\ IF GivesUp THEN Disturb ELSE UNCHANGED disturbed

DisturbedNext ==
  \/ DisturbedReconcile
  \/ /\ \/ Restart
        \/ \E q \in Pods : Interrupt(q)
        \/ EditAnnotations /\ UNCHANGED <<envVars, controllerVars>>
        \/ Relabel
     /\ Disturb
  \/ /\ \/ \E q \in Pods : PodStep(q)
        \/ SyncStatus
        \/ ToggleWindow
        \/ Tick
     /\ UNCHANGED disturbed

disturbedVars == <<vars, disturbed>>

\* Every return of Reconcile asks to be called again, so reconciliations keep
\* happening; so do the cluster's controllers, the informers and time.
DisturbedFairness ==
  /\ WF_disturbedVars(DisturbedReconcile)
  /\ \A q \in Pods : WF_disturbedVars(PodStep(q) /\ UNCHANGED disturbed)
  /\ WF_disturbedVars(SyncStatus /\ UNCHANGED disturbed)
  /\ WF_disturbedVars(Tick /\ UNCHANGED disturbed)

DisturbedSpec ==
  /\ DisturbedInit
  /\ [][DisturbedNext]_disturbedVars
  /\ DisturbedFairness
=============================================================================
