--------------------------- MODULE MCStatefulSet ----------------------------
(* Instances of StatefulSetRebalance for TLC.                              *)
EXTENDS StatefulSetRebalance, TLC

MostlySpot == {[minOnDemand |-> 1, spotPercentage |-> 75]}

\* A floor that the set cannot reach, too.
SamplePolicies ==
  MostlySpot \cup {[minOnDemand |-> 3, spotPercentage |-> 50]}

\* Some numbering of the Pods.
Ordinals ==
  CHOOSE f \in [Pods -> 0 .. Cardinality(Pods) - 1] :
    \A p, q \in Pods : f[p] = f[q] => p = q
=============================================================================
