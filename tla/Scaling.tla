------------------------------ MODULE Scaling -------------------------------
(***************************************************************************)
(* The allocation engine (module Allocation) under the two changes a       *)
(* workload goes through: its replica count moves by one, as an HPA or a   *)
(* user scales it, or its policy annotations are edited.                   *)
(***************************************************************************)
EXTENDS Allocation

CONSTANTS
  MaxReplicas,   \* bound: largest spec.replicas
  Policies       \* policies the annotations may state

ASSUME ScalingAssumption ==
  /\ MaxReplicas \in Nat
  /\ Policies \subseteq Policy

VARIABLES replicas, policy
vars == <<replicas, policy>>

Init == replicas = 0 /\ policy \in Policies

ScaleUp ==
  /\ replicas < MaxReplicas
  /\ replicas' = replicas + 1
  /\ UNCHANGED policy

ScaleDown ==
  /\ replicas > 0
  /\ replicas' = replicas - 1
  /\ UNCHANGED policy

EditPolicy ==
  /\ policy' \in Policies \ {policy}
  /\ UNCHANGED replicas

Next == ScaleUp \/ ScaleDown \/ EditPolicy
Spec == Init /\ [][Next]_vars

TypeOK == replicas \in Nat /\ policy \in Policies

allocation == AllocateReplicaDistribution(replicas, policy)

-----------------------------------------------------------------------------
\* The engine's promise, as docs/explanation/replica-distribution-strategy.md has
\* it: spot gets as many replicas as the percentage, rounded down, and the
\* on-demand floor both permit, and every replica is placed.  So the formula with
\* ceil in design-choices.md and the glossary does not hold of the code.
\* (AllocateReplicaDistribution)
LargestSafeSpot ==
  LET permitted(n) ==
        /\ 100 * n <= replicas * policy.spotPercentage
        /\ replicas - n >= policy.minOnDemand \/ n = 0
  IN  /\ permitted(allocation.targetSpot)
      /\ \A n \in 0 .. replicas : permitted(n) => n <= allocation.targetSpot
      /\ allocation.targetOnDemand + allocation.targetSpot = replicas

\* Scaling by one replica moves exactly one of the two targets, by one, so a
\* workload that was balanced never has to evict a Pod because it was scaled
\* up.  (AllocateReplicaDistribution)
OneTargetMoves ==
  [][ UNCHANGED policy =>
        LET a == allocation
            b == allocation'
            step == replicas' - replicas
        IN  \/ /\ b.targetSpot = a.targetSpot + step
               /\ b.targetOnDemand = a.targetOnDemand
            \/ /\ b.targetSpot = a.targetSpot
               /\ b.targetOnDemand = a.targetOnDemand + step ]_vars
=============================================================================
