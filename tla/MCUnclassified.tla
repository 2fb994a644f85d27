--------------------------- MODULE MCUnclassified ---------------------------
(***************************************************************************)
(* Admission with a history of what each request's snapshot left           *)
(* unclassified, for the promise about missing Nodes.                      *)
(***************************************************************************)
EXTENDS MCAdmission

VARIABLE unclassified   \* history: Pods on a node of which the request's
                        \* snapshot knew no capacity type

\* What an observation made in this step by p's request did not classify.
LeftOut(p) ==
  { q \in Pods : view[q].phase \in {"bound", "ready"} }
    \ (req'[p].spot \cup req'[p].onDemand)

RecordedInit == Init /\ unclassified = [p \in Pods |-> {}]

RecordedNext ==
  /\ Next
  /\ unclassified' =
       [p \in Pods |-> IF req[p].pc = "configured" /\ req'[p].pc = "observed"
                       THEN LeftOut(p) ELSE unclassified[p]]

RecordedSpec == RecordedInit /\ [][RecordedNext]_<<vars, unclassified>>

\* A request whose snapshot has a Pod on a Node that is missing, or could not be
\* classified, is answered with on-demand.  (determineTargetCapacityType)
UnknownIsConservative ==
  [][ \A p \in Pods :
        req[p].pc \in {"observed", "listed"} /\ req'[p].pc = "answered" =>
          unclassified[p] = {} \/ req'[p].choice = "onDemand" ]_vars
=============================================================================
