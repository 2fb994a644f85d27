------------------------------ MODULE MCParts -------------------------------
(***************************************************************************)
(* The parts beside webhook and reconcilers, for TLC: allocation engine,   *)
(* namespace filter, rate limiter, circuit breaker, cluster access,        *)
(* annotations, disruption window, configuration, node classifier, and     *)
(* leader election with graceful shutdown.  They share no state, so a      *)
(* behaviour is one of one part, subject, while the others rest in an      *)
(* initial state: no property relates two of them, and their interleavings *)
(* would show nothing more.                                                *)
(***************************************************************************)
EXTENDS Scaling, NamespaceFilter, RateLimiter, ClusterAccess, Annotations,
        DisruptionWindow, Configuration, NodeClassifier, Shutdown, FiniteSetsExt

CONSTANTS app, sys   \* the two namespaces

VARIABLE subject

-----------------------------------------------------------------------------
(* Values for the constants.                                               *)

\* Percentages with and without rounding, both extremes, and floors that do
\* and do not bind.
SamplePolicies ==
  [minOnDemand : 0 .. 4, spotPercentage : {0, 1, 33, 50, 67, 70, 99, 100}]

\* The controller manager's filter, one that uses every list, and one with a
\* pattern that does not compile.
ManagerFilter ==
  [includeSystem |-> FALSE, system |-> {}, exclude |-> {}, excludePatterns |-> {},
   include |-> {}, includePatterns |-> {}, requiredLabels |-> {"enabled"},
   forbiddenLabels |-> {}, forbiddenAnnotations |-> {}, cacheSize |-> 1, valid |-> TRUE]
SampleFilters ==
  {ManagerFilter,
   [ManagerFilter EXCEPT !.include = {app}, !.includePatterns = {{app}},
      !.forbiddenLabels = {"off"}, !.exclude = {sys}, !.includeSystem = TRUE,
      !.cacheSize = 2],
   [ManagerFilter EXCEPT !.excludePatterns = {{app}}, !.valid = FALSE, !.cacheSize = 0]}
SampleObjects == {[labels |-> {"enabled"}, annotations |-> {}]}

\* Both ends of every range, and a step beyond each.
SampleNumbers ==
  {-1, 0, 1, 70, 100, 101, MaxMinOnDemand, MaxMinOnDemand + 1, MaxInt32, MaxInt32 + 1}

\* A schedule that never fires, one whose windows touch or overlap, one with a
\* gap, and one that is over before it is asked about.
SampleInstants == -4 .. 5
SampleSchedules == {{}, {0, 1, 2, 4}, {-3, 3}}
SampleDurations == {-1, 0, 1, 3}
FarPast == -100
FirstAfter(S, t) ==
  IF \E o \in S : o > t THEN Min({o \in S : o > t}) ELSE ZeroTime

Unlabelled ==
  [l \in {"instance-type", "eks", "karpenter", "gke", "azure"} |-> "absent"]

\* A node that a selector recognises, and one only the provider's labels do.
SampleLabellings ==
  {[Unlabelled EXCEPT !["karpenter"] = "spot"],
   [Unlabelled EXCEPT !["instance-type"] = "m5", !["eks"] = "ON_DEMAND"]}

\* The operator's configuration, and the default one with its wildcard.
Pair(label, value) == {[label |-> label, value |-> value]}
OperatorSelectors ==
  [spot |-> Pair("karpenter", "spot"), onDemand |-> Pair("karpenter", "on-demand")]
WildcardSelectors == [spot |-> Pair("instance-type", "*"), onDemand |-> {}]
SampleSelectors == {OperatorSelectors, WildcardSelectors}

-----------------------------------------------------------------------------

\* One of the initial states of Annotations, and one of DisruptionWindow.
AnnotationsRest ==
  /\ object = [label |-> "none", spot |-> Absent, floor |-> Absent]
  /\ rewrites = 0
WindowRests ==
  LET unset == [form |-> "absent", schedule |-> {}, duration |-> 0]
  IN  /\ clock = 0
      /\ levels = [workload |-> unset, namespace |-> unset, global |-> unset]
      /\ nsReadable = TRUE

\* One of the initial states of Configuration.
ConfigRests ==
  /\ loader = "lenient"
  /\ file = [state |-> "none", gives |-> Nothing]
  /\ env = Nothing
  /\ load = "idle"
  /\ config = DefaultConfiguration
  /\ pending = {}
  /\ edits = 0
  /\ running = Idle

partVars ==
  <<vars, nsVars, rlVars, accessVars, annotationVars, windowVars, configVars,
    classifierVars, processVars, subject>>

PartsInit ==
  /\ subject \in {"allocation", "filter", "limiter", "breaker", "access",
                  "annotations", "window", "configuration", "classifier",
                  "shutdown"}
  /\ Init
  /\ subject # "allocation" => policy = [minOnDemand |-> 0, spotPercentage |-> 0]
  /\ FilterInit
  /\ filterConfig = ManagerFilter
  /\ LimiterInit
  /\ AccessInit
  /\ IF subject = "annotations" THEN AnnotationsInit ELSE AnnotationsRest
  /\ IF subject = "window" THEN WindowInit ELSE WindowRests
  /\ IF subject = "configuration" THEN ConfigInit ELSE ConfigRests
  /\ ClassifierInit
  /\ subject # "classifier" => selector = OperatorSelectors
  /\ ShutdownInit

\* The limiters and the breaker are two subjects: neither reads the other, so
\* the one is looked at while the server is up, the other without updates.
PartsNext ==
  /\ UNCHANGED subject
  /\ \/ /\ subject = "allocation" /\ Next
        /\ UNCHANGED <<nsVars, rlVars, accessVars, annotationVars,
                       windowVars, configVars, classifierVars,
                       processVars>>
     \/ /\ subject = "filter" /\ FilterNext
        /\ UNCHANGED <<vars, rlVars, accessVars, annotationVars,
                       windowVars, configVars, classifierVars,
                       processVars>>
     \/ /\ subject = "limiter" /\ LimiterNext /\ UNCHANGED server
        /\ UNCHANGED <<vars, nsVars, accessVars, annotationVars,
                       windowVars, configVars, classifierVars,
                       processVars>>
     \/ /\ subject = "breaker" /\ LimiterNext /\ UNCHANGED rlConfig
        /\ UNCHANGED <<vars, nsVars, accessVars, annotationVars,
                       windowVars, configVars, classifierVars,
                       processVars>>
     \/ /\ subject = "access" /\ AccessNext
        /\ UNCHANGED <<vars, nsVars, rlVars, annotationVars,
                       windowVars, configVars, classifierVars,
                       processVars>>
     \/ /\ subject = "annotations" /\ AnnotationsNext
        /\ UNCHANGED <<vars, nsVars, rlVars, accessVars, windowVars,
                       configVars, classifierVars, processVars>>
     \/ /\ subject = "window" /\ WindowNext
        /\ UNCHANGED <<vars, nsVars, rlVars, accessVars,
                       annotationVars, configVars, classifierVars,
                       processVars>>
     \/ /\ subject = "configuration" /\ ConfigNext
        /\ UNCHANGED <<vars, nsVars, rlVars, accessVars,
                       annotationVars, windowVars, classifierVars,
                       processVars>>
     \/ /\ subject = "classifier" /\ ClassifierNext
        /\ UNCHANGED <<vars, nsVars, rlVars, accessVars,
                       annotationVars, windowVars, configVars,
                       processVars>>
     \/ /\ subject = "shutdown" /\ ShutdownNext
        /\ UNCHANGED <<vars, nsVars, rlVars, accessVars,
                       annotationVars, windowVars, configVars,
                       classifierVars>>

\* LimiterFairness, ClassifierFairness and ShutdownFairness, each for the
\* behaviours of its own part; two conditions are one where no behaviour is
\* subject to both.
PartsFairness ==
  /\ \A t \in Lookups :
       SF_<<rlVars, classifierVars>>(
          \/ subject = "breaker" /\ SomeoneAsks /\ UNCHANGED classifierVars
          \/ subject = "classifier" /\ LookupStep(t) /\ UNCHANGED rlVars)
  /\ SF_<<rlVars, classifierVars>>(
        \/ subject = "breaker" /\ SomeoneIsAdmitted /\ UNCHANGED classifierVars
        \/ /\ subject = "classifier" /\ UpdateSelectors /\ updater = "waiting"
           /\ UNCHANGED rlVars)
  /\ \A c \in Callers : WF_rlVars(subject = "breaker" /\ Proceeds(c))
  /\ WF_<<rlVars, processVars>>(
        \/ subject = "breaker" /\ BreakerTick /\ UNCHANGED processVars
        \/ subject = "shutdown" /\ ShutdownStep /\ UNCHANGED rlVars)
  /\ WF_processVars(subject = "shutdown" /\ Exit)

PartsSpec == PartsInit /\ [][PartsNext]_partVars /\ PartsFairness
=============================================================================
