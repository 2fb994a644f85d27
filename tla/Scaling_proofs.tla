--------------------------- MODULE Scaling_proofs ---------------------------
(***************************************************************************)
(* The allocation engine's promises, proved for every replica count and    *)
(* every valid policy.                                                     *)
(***************************************************************************)
EXTENDS Scaling, TLAPS

\* Integer division by 100 is the largest integer whose hundredfold fits, and
\* grows by at most one when the dividend grows by at most 100.
LEMMA DivHundred ==
  ASSUME NEW n \in Nat
  PROVE  /\ n \div 100 \in Nat
         /\ 100 * (n \div 100) <= n
         /\ n < 100 * (n \div 100) + 100
  OBVIOUS

\* The percentage target is a natural number no greater than the total.
\* (percentageTarget64 in AllocateReplicaDistribution)
LEMMA PercentageTarget ==
  ASSUME NEW total \in Nat, NEW pct \in 0 .. 100
  PROVE  /\ total * pct \in Nat
         /\ total * pct <= total * 100
         /\ (total * pct) \div 100 \in Nat
         /\ (total * pct) \div 100 <= total
         /\ 100 * ((total * pct) \div 100) <= total * pct
         /\ total * pct < 100 * ((total * pct) \div 100) + 100
  <1>1. total * pct \in Nat /\ total * pct <= total * 100
    OBVIOUS
  <1>2. QED
    BY <1>1, DivHundred

\* The two targets are natural numbers that add up to the replicas, and the
\* on-demand target is never below the effective floor.
\* (AllocateReplicaDistribution)
THEOREM AllocationSound ==
  ASSUME NEW total \in Nat, NEW pol \in Policy
  PROVE  LET a == AllocateReplicaDistribution(total, pol)
         IN  /\ a.targetSpot \in Nat
             /\ a.targetOnDemand \in Nat
             /\ a.targetSpot + a.targetOnDemand = total
             /\ a.targetOnDemand >= a.effectiveOnDemandFloor
             /\ a.effectiveOnDemandFloor = minInt32(pol.minOnDemand, total)
  <1>1. /\ pol.minOnDemand \in Nat
        /\ pol.spotPercentage \in 0 .. 100
    BY DEF Policy
  <1>2. /\ (total * pol.spotPercentage) \div 100 \in Nat
        /\ (total * pol.spotPercentage) \div 100 <= total
    BY <1>1, PercentageTarget
  <1>3. QED
    BY <1>1, <1>2 DEF AllocateReplicaDistribution, minInt32

\* The variables keep their types.
LEMMA ScalingTypeOK == Spec => []TypeOK
  <1>1. Init => TypeOK
    BY DEF Init, TypeOK
  <1>2. TypeOK /\ [Next]_vars => TypeOK'
    BY ScalingAssumption
       DEF TypeOK, Next, ScaleUp, ScaleDown, EditPolicy, vars
  <1>3. QED
    BY <1>1, <1>2, PTL DEF Spec

\* Spot gets the largest share that percentage and floor both permit, and
\* every replica is placed, for every history of scaling and policy edits.
\* (AllocateReplicaDistribution)
THEOREM AlwaysLargestSafeSpot == Spec => []LargestSafeSpot
  <1>1. TypeOK => LargestSafeSpot
    <2> SUFFICES ASSUME TypeOK PROVE LargestSafeSpot
      OBVIOUS
    <2> DEFINE P == replicas * policy.spotPercentage
    <2> DEFINE s == allocation.targetSpot
    <2>1. /\ replicas \in Nat
          /\ policy.minOnDemand \in Nat
          /\ policy.spotPercentage \in 0 .. 100
      BY ScalingAssumption DEF TypeOK, Policy
    <2>2. /\ P \in Nat
          /\ P \div 100 \in Nat
          /\ P \div 100 <= replicas
          /\ 100 * (P \div 100) <= P
          /\ P < 100 * (P \div 100) + 100
      BY <2>1, PercentageTarget
    <2> HIDE DEF P
    <2>3. s = minInt32(P \div 100,
                       replicas - minInt32(policy.minOnDemand, replicas))
      BY DEF s, P, allocation, AllocateReplicaDistribution
    <2>4. /\ s \in Nat
          /\ 100 * s <= P
          /\ replicas - s >= policy.minOnDemand \/ s = 0
      BY <2>1, <2>2, <2>3 DEF minInt32
    <2>5. ASSUME NEW n \in 0 .. replicas, 100 * n <= P,
                 replicas - n >= policy.minOnDemand \/ n = 0
          PROVE  n <= s
      BY <2>1, <2>2, <2>3, <2>4, <2>5 DEF minInt32
    <2>6. allocation.targetOnDemand + s = replicas
      BY <2>1, <2>4 DEF s, allocation, AllocateReplicaDistribution
    <2>7. QED
      BY <2>4, <2>5, <2>6 DEF LargestSafeSpot, s, P
  <1>2. QED
    BY <1>1, ScalingTypeOK, PTL

\* The two targets, without the intermediate values.
\* (AllocateReplicaDistribution)
LEMMA AllocationTargets ==
  ASSUME NEW total, NEW pol
  PROVE  LET spot == minInt32((total * pol.spotPercentage) \div 100,
                              total - minInt32(pol.minOnDemand, total))
         IN  /\ AllocateReplicaDistribution(total, pol).targetSpot = spot
             /\ AllocateReplicaDistribution(total, pol).targetOnDemand
                  = total - spot
  BY DEF AllocateReplicaDistribution

\* One replica more adds one to exactly one of the targets.
\* (AllocateReplicaDistribution)
LEMMA OneReplicaMore ==
  ASSUME NEW total \in Nat, NEW next \in Nat, next = total + 1,
         NEW pol \in Policy
  PROVE  LET a == AllocateReplicaDistribution(total, pol)
             b == AllocateReplicaDistribution(next, pol)
         IN  /\ b.targetSpot \in {a.targetSpot, a.targetSpot + 1}
             /\ b.targetSpot + b.targetOnDemand
                  = a.targetSpot + a.targetOnDemand + 1
             /\ a.targetSpot \in Nat /\ a.targetOnDemand \in Nat
             /\ b.targetSpot \in Nat /\ b.targetOnDemand \in Nat
  <1> DEFINE pct == pol.spotPercentage
             P == total * pct
             Q == next * pct
             f == minInt32(pol.minOnDemand, total)
             g == minInt32(pol.minOnDemand, next)
  <1>1. pol.minOnDemand \in Nat /\ pct \in 0 .. 100
    BY DEF Policy
  <1>2. Q = P + pct
    BY <1>1
  <1>3. /\ P \in Nat /\ P \div 100 \in Nat /\ P \div 100 <= total
        /\ 100 * (P \div 100) <= P /\ P < 100 * (P \div 100) + 100
    BY <1>1, PercentageTarget
  <1>4. /\ Q \in Nat /\ Q \div 100 \in Nat /\ Q \div 100 <= next
        /\ 100 * (Q \div 100) <= Q /\ Q < 100 * (Q \div 100) + 100
    BY <1>1, PercentageTarget
  <1>5. Q \div 100 \in {P \div 100, (P \div 100) + 1}
    <2> HIDE DEF P, Q, pct
    <2>1. QED
      BY <1>1, <1>2, <1>3, <1>4
  <1>6. /\ f \in Nat /\ f <= total
        /\ g \in {f, f + 1}
        /\ g = f + 1 => f = total
    BY <1>1 DEF minInt32
  <1>7. total - f \in Nat /\ next - g \in {total - f, total - f + 1}
    BY <1>6
  <1> DEFINE u == P \div 100
             v == Q \div 100
             m == total - f
             n == next - g
  <1>8. /\ AllocateReplicaDistribution(total, pol).targetSpot = minInt32(u, m)
        /\ AllocateReplicaDistribution(total, pol).targetOnDemand
             = total - minInt32(u, m)
    BY AllocationTargets
  <1>9. /\ AllocateReplicaDistribution(next, pol).targetSpot
             = minInt32(v, n)
        /\ AllocateReplicaDistribution(next, pol).targetOnDemand
             = next - minInt32(v, n)
    BY AllocationTargets
  <1>10. /\ u \in Nat /\ v \in {u, u + 1}
         /\ m \in Nat /\ n \in {m, m + 1}
         /\ m <= total /\ n <= total + 1
    BY <1>3, <1>5, <1>6, <1>7
  <1> HIDE DEF u, v, m, n
  <1>11. /\ minInt32(v, n) \in {minInt32(u, m), minInt32(u, m) + 1}
         /\ minInt32(u, m) \in Nat
         /\ minInt32(u, m) <= total
         /\ minInt32(v, n) \in Nat
         /\ minInt32(v, n) <= total + 1
    BY <1>10 DEF minInt32
  <1>12. QED
    BY <1>8, <1>9, <1>11

\* One replica more or less moves exactly one target by one, in every step
\* that leaves the policy alone.  (AllocateReplicaDistribution)
THEOREM AlwaysOneTargetMoves == Spec => OneTargetMoves
  <1> DEFINE Moves ==
        UNCHANGED policy =>
          LET a == allocation
              b == allocation'
              step == replicas' - replicas
          IN  \/ /\ b.targetSpot = a.targetSpot + step
                 /\ b.targetOnDemand = a.targetOnDemand
              \/ /\ b.targetSpot = a.targetSpot
                 /\ b.targetOnDemand = a.targetOnDemand + step
  <1>1. TypeOK /\ Next => Moves
    <2> SUFFICES ASSUME TypeOK, Next, UNCHANGED policy PROVE Moves
      OBVIOUS
    <2>1. replicas \in Nat /\ policy \in Policy
      BY ScalingAssumption DEF TypeOK
    <2>2. CASE ScaleUp
      <3>1. replicas' \in Nat /\ replicas' = replicas + 1
        BY <2>1, <2>2 DEF ScaleUp
      <3> DEFINE a == AllocateReplicaDistribution(replicas, policy)
                 b == AllocateReplicaDistribution(replicas', policy)
      <3>2. allocation = a /\ allocation' = b
        BY <3>1 DEF allocation
      <3>3. /\ b.targetSpot \in {a.targetSpot, a.targetSpot + 1}
            /\ b.targetSpot + b.targetOnDemand
                 = a.targetSpot + a.targetOnDemand + 1
            /\ a.targetSpot \in Nat /\ a.targetOnDemand \in Nat
            /\ b.targetSpot \in Nat /\ b.targetOnDemand \in Nat
        BY <2>1, <3>1, OneReplicaMore
      <3> HIDE DEF a, b
      <3>4. QED
        BY <2>1, <3>1, <3>2, <3>3
    <2>3. CASE ScaleDown
      <3>1. replicas' \in Nat /\ replicas = replicas' + 1
        BY <2>1, <2>3 DEF ScaleDown
      <3> DEFINE a == AllocateReplicaDistribution(replicas', policy)
                 b == AllocateReplicaDistribution(replicas, policy)
      <3>2. allocation = b /\ allocation' = a
        BY <3>1 DEF allocation
      <3>3. /\ b.targetSpot \in {a.targetSpot, a.targetSpot + 1}
            /\ b.targetSpot + b.targetOnDemand
                 = a.targetSpot + a.targetOnDemand + 1
            /\ a.targetSpot \in Nat /\ a.targetOnDemand \in Nat
            /\ b.targetSpot \in Nat /\ b.targetOnDemand \in Nat
        BY <2>1, <3>1, OneReplicaMore
      <3> HIDE DEF a, b
      <3>4. QED
        BY <2>1, <3>1, <3>2, <3>3
    <2>4. CASE EditPolicy
      BY <2>4 DEF EditPolicy
    <2>5. QED
      BY <2>2, <2>3, <2>4 DEF Next
  <1>2. Spec => [][Moves]_vars
    BY <1>1, ScalingTypeOK, PTL DEF Spec
  <1>3. QED
    BY <1>2 DEF OneTargetMoves
=============================================================================
