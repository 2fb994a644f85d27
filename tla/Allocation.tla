----------------------------- MODULE Allocation -----------------------------
(***************************************************************************)
(* The allocation engine shared by the webhook and by both controllers:    *)
(* how many replicas of a workload belong on spot and how many on          *)
(* on-demand nodes (pkg/apis/policy.go, pkg/apis/replica_state.go).        *)
(*                                                                         *)
(* The Go code multiplies in int64 and refuses a quotient above MaxInt32;  *)
(* for the int32 inputs it accepts neither can happen, so the integers     *)
(* here are unbounded.                                                     *)
(***************************************************************************)
EXTENDS Integers

\* apis.ReplicaAllocationPolicy, the values the validation accepts.
Policy == [minOnDemand : Nat, spotPercentage : 0 .. 100]

minInt32(a, b) == IF a < b THEN a ELSE b

ValidateReplicaAllocationPolicy(totalReplicas, policy) ==
  /\ totalReplicas >= 0
  /\ policy.minOnDemand >= 0
  /\ policy.spotPercentage >= 0
  /\ policy.spotPercentage <= 100

-----------------------------------------------------------------------------
(* Seeded defects, used only to show that the properties can fail.         *)

\* The percentage target is not capped by the replicas above the floor.
Allocate_uncapped_bug(totalReplicas, policy) ==
  LET spot == (totalReplicas * policy.spotPercentage) \div 100
  IN  [ totalReplicas          |-> totalReplicas,
        effectiveOnDemandFloor |-> minInt32(policy.minOnDemand, totalReplicas),
        targetOnDemand         |-> totalReplicas - spot,
        targetSpot             |-> spot ]

\* The floor is not clamped to the replicas there are.
Allocate_unclamped_bug(totalReplicas, policy) ==
  LET spot == minInt32((totalReplicas * policy.spotPercentage) \div 100,
                       totalReplicas - policy.minOnDemand)
  IN  [ totalReplicas          |-> totalReplicas,
        effectiveOnDemandFloor |-> policy.minOnDemand,
        targetOnDemand         |-> totalReplicas - spot,
        targetSpot             |-> spot ]

-----------------------------------------------------------------------------
\* For valid inputs only: callers test the validation first, as the code does.
AllocateReplicaDistribution(totalReplicas, policy) ==
  LET effectiveFloor   == minInt32(policy.minOnDemand, totalReplicas)
      percentageTarget == (totalReplicas * policy.spotPercentage) \div 100
      targetSpot       == minInt32(percentageTarget,
                                   totalReplicas - effectiveFloor)
  IN  [ totalReplicas          |-> totalReplicas,
        effectiveOnDemandFloor |-> effectiveFloor,
        targetOnDemand         |-> totalReplicas - targetSpot,
        targetSpot             |-> targetSpot ]

\* ReplicaState.CalculateDesiredDistribution: a disabled workload, and one
\* whose policy the engine refuses, is moved to on-demand altogether.
CalculateDesiredDistribution(totalReplicas, enabled, policy) ==
  IF enabled /\ ValidateReplicaAllocationPolicy(totalReplicas, policy)
  THEN LET a == AllocateReplicaDistribution(totalReplicas, policy)
       IN  [ spot |-> a.targetSpot, onDemand |-> a.targetOnDemand ]
  ELSE [ spot |-> 0, onDemand |-> totalReplicas ]

\* The floor-first placement rule for one more Pod, from what is on each
\* capacity type already (determineTargetCapacityType, SelectAndReserve).
Choose(spot, onDemand, target) ==
  IF onDemand >= target.targetOnDemand /\ spot < target.targetSpot
  THEN "spot"
  ELSE "onDemand"
=============================================================================
