---------------------------- MODULE MCAdmission -----------------------------
(* Instances of Admission for TLC.                                         *)
EXTENDS Admission, TLC

HalfSpot == [minOnDemand |-> 1, spotPercentage |-> 50]

OnePolicy == {HalfSpot}
AllSpot == {[minOnDemand |-> 0, spotPercentage |-> 100]}

Symmetry == Permutations(Pods)
=============================================================================
