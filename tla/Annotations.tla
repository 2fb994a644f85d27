---------------------------- MODULE Annotations -----------------------------
(***************************************************************************)
(* A workload's policy in its label and annotations: the parser of the     *)
(* reconcilers and the webhook (internal/annotations/parser.go), its       *)
(* validation, and the second parser with its inverse                      *)
(* (pkg/apis/configuration.go).                                            *)
(***************************************************************************)
EXTENDS Integers

CONSTANTS
  Spelled,          \* integers that an annotation may spell
  MaxMinOnDemand,
  MaxInt32,         \* scaled down
  MaxRewrites       \* bound on write-backs

ASSUME AnnotationsAssumption ==
  /\ Spelled \subseteq Int
  /\ MaxMinOnDemand \in Nat
  /\ MaxInt32 \in Nat /\ MaxInt32 >= 100
  /\ MaxMinOnDemand <= MaxInt32
  /\ MaxRewrites \in Nat

VARIABLES
  object,      \* label and annotation texts of the workload
  rewrites

annotationVars == <<object, rewrites>>

Absent == [form |-> "absent", n |-> 0]
Number(n) == [form |-> "number", n |-> n]
Percent(n) == [form |-> "percent", n |-> n]
Garbled == [form |-> "garbled", n |-> 0]

AnnotationTexts == {Absent, Garbled} \cup {Number(n) : n \in Spelled}
                                     \cup {Percent(n) : n \in Spelled}

AnnotationsInit ==
  /\ object \in [label : {"true", "True", "none"},
                 spot : AnnotationTexts, floor : AnnotationTexts]
  /\ rewrites = 0

-----------------------------------------------------------------------------
(* Reading.  TrimSuffix takes one % off a percentage and none off a floor. *)

SpotReads(t, low, high) == t.form \in {"number", "percent"} /\ t.n \in low .. high
FloorReads(t, low, high) == t.form = "number" /\ t.n \in low .. high

GivenIn(o) == {f \in {"spot", "floor"} : o[f] # Absent}
Failure == [ok |-> FALSE]
Disabled == [ok |-> TRUE, enabled |-> FALSE, spot |-> 0, floor |-> 0, given |-> {}]

\* WorkloadConfiguration with its Policy, which tells zero from omitted.
WorkloadConfiguration(o) ==
  [ok |-> TRUE, enabled |-> TRUE, spot |-> o.spot.n, floor |-> o.floor.n, given |-> GivenIn(o)]

ParseWorkloadConfiguration(o) ==
  IF o.label # "true" THEN Disabled
  ELSE IF /\ "spot" \in GivenIn(o) => SpotReads(o.spot, 0, 100)
          /\ "floor" \in GivenIn(o) => FloorReads(o.floor, 0, MaxMinOnDemand)
       THEN WorkloadConfiguration(o)
       ELSE Failure

\* ValidateReplicaAllocationPolicy, as ParseFromAnnotations calls it.
PolicyInRange(c) == c.floor >= 0 /\ c.spot \in 0 .. 100

\* The caller says whether the workload is enabled; ParseInt stops at 32 bits.
ParseFromAnnotations(o, enabled) ==
  IF ~enabled THEN Disabled
  ELSE IF /\ "floor" \in GivenIn(o) => FloorReads(o.floor, -MaxInt32 - 1, MaxInt32)
          /\ "spot" \in GivenIn(o) => SpotReads(o.spot, -MaxInt32 - 1, MaxInt32)
          /\ PolicyInRange(WorkloadConfiguration(o))
       THEN WorkloadConfiguration(o)
       ELSE Failure

\* No upper bound on the floor.
ValidateAnnotations_bug(o) ==
  /\ "spot" \in GivenIn(o) => SpotReads(o.spot, 0, 100)
  /\ "floor" \in GivenIn(o) => FloorReads(o.floor, 0, MaxInt32)

\* validateSpotPercentage and validateMinOnDemand find nothing wrong.
ValidateAnnotations(o) ==
  /\ "spot" \in GivenIn(o) => SpotReads(o.spot, 0, 100)
  /\ "floor" \in GivenIn(o) => FloorReads(o.floor, 0, MaxMinOnDemand)

-----------------------------------------------------------------------------
(* Writing.                                                                *)

\* A zero is taken for an omission.
ToAnnotations_bug(c) ==
  [spot  |-> IF c.spot # 0 THEN Percent(c.spot) ELSE Absent,
   floor |-> IF c.floor # 0 THEN Number(c.floor) ELSE Absent]

\* What was given is written; if nothing was, both are.
ToAnnotations(c) ==
  [spot  |-> IF "spot" \in c.given \/ c.given = {} THEN Percent(c.spot) ELSE Absent,
   floor |-> IF "floor" \in c.given \/ c.given = {} THEN Number(c.floor) ELSE Absent]

\* A configuration is read and written back with SetAnnotationValue and
\* RemoveAnnotation.
WriteBack ==
  LET c == ParseFromAnnotations(object, object.label = "true")
  IN  /\ rewrites < MaxRewrites
      /\ c.ok /\ c.enabled
      /\ object' = [label |-> object.label, spot |-> ToAnnotations(c).spot,
                    floor |-> ToAnnotations(c).floor]
      /\ rewrites' = rewrites + 1

\* A user edits the workload.
EditObject ==
  /\ \E f \in {"spot", "floor"}, t \in AnnotationTexts : object' = [object EXCEPT ![f] = t]
  /\ UNCHANGED rewrites

AnnotationsNext == WriteBack \/ EditObject

AnnotationsSpec == AnnotationsInit /\ [][AnnotationsNext]_annotationVars

-----------------------------------------------------------------------------
(* Properties.                                                             *)

\* The validation accepts exactly what the parser of the reconcilers reads in
\* an enabled workload; the second parser reads that too, and the same in it.
\* It reads more: floors above MaxMinOnDemand.  (ValidateAnnotations,
\* ParseWorkloadConfiguration, ParseFromAnnotations)
ReadersAgree ==
  LET enabled == [object EXCEPT !.label = "true"]
      config == ParseWorkloadConfiguration(enabled)
  IN  /\ ValidateAnnotations(object) <=> config.ok
      /\ config.ok => ParseFromAnnotations(object, TRUE) = config

\* Writing a configuration back changes neither the policy that is read from
\* the object nor, unless nothing was given, what counts as omitted.
\* (ToAnnotations)
RewriteKeepsPolicy ==
  [][ rewrites' # rewrites =>
        LET before == ParseFromAnnotations(object, TRUE)
            after == ParseFromAnnotations(object', TRUE)
        IN  /\ after.ok
            /\ <<after.spot, after.floor>> = <<before.spot, before.floor>>
            /\ before.given # {} => after.given = before.given ]_annotationVars
=============================================================================
