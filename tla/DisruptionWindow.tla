-------------------------- MODULE DisruptionWindow --------------------------
(***************************************************************************)
(* Disruption windows (internal/annotations/disruption_window.go) as the   *)
(* reconcilers resolve them (resolveDisruptionWindow in pkg/controllers):  *)
(* the workload's annotations, the Namespace's labels, the configuration.  *)
(***************************************************************************)
EXTENDS Integers

CONSTANTS
  Times,              \* instants that the cron library may be asked about
  Schedules,          \* schedules, each the set of instants at which it fires
  Durations,          \* durations; ParseDuration reads negative ones too
  NextFiring(_, _),   \* cron.Schedule.Next: the first one after an instant
  ZeroTime,           \* what it answers if there is none: long before all others
  LastTime            \* bound on the clock

ASSUME WindowAssumption ==
  /\ Times \subseteq Int
  /\ Durations \subseteq Int
  /\ Schedules \subseteq SUBSET Int
  /\ ZeroTime \in Int
  /\ LastTime \in Nat
  /\ {} \in Schedules /\ 0 \in Durations
  /\ \A t \in 0 .. LastTime, d \in Durations : t - d \in Times /\ ZeroTime + d <= t
  /\ \A S \in Schedules, t \in Times :
       IF \E o \in S : o > t
       THEN /\ NextFiring(S, t) \in S
            /\ NextFiring(S, t) > t
            /\ \A o \in S : o > t => NextFiring(S, t) <= o
       ELSE NextFiring(S, t) = ZeroTime

VARIABLES
  clock,
  levels,      \* what each level of the hierarchy says
  nsReadable   \* whether the Namespace can be read

windowVars == <<clock, levels, nsReadable>>

\* What ParseDisruptionWindow makes of a schedule and a duration: "absent" if
\* there is neither, "broken" if there is one only or one does not parse.
Parses ==
  {w \in [form : {"absent", "broken", "window"}, schedule : Schedules, duration : Durations] :
     w.form # "window" => w.schedule = {} /\ w.duration = 0}

\* The Namespace is asked for labels, and no label can spell a schedule, which
\* has blanks in it.  The global window was validated at startup, and reaches
\* the reconciler only if it is given a configuration.
WindowLevels ==
  [workload  : Parses,
   namespace : {w \in Parses : w.form # "window"},
   global    : {w \in Parses : w.form # "broken"}]

WindowInit ==
  /\ clock = 0
  /\ levels \in WindowLevels
  /\ nsReadable \in BOOLEAN

-----------------------------------------------------------------------------
(* What a reconciliation makes of it.                                      *)

\* A Namespace that cannot be read counts as one without a window.
Resolved_bug ==
  IF levels.workload.form # "absent" THEN levels.workload
  ELSE IF nsReadable /\ levels.namespace.form # "absent" THEN levels.namespace
  ELSE levels.global

\* resolveDisruptionWindow.  An error at a level ends the search there.
Resolved ==
  IF levels.workload.form # "absent" THEN levels.workload
  ELSE IF ~nsReadable THEN [form |-> "broken", schedule |-> {}, duration |-> 0]
  ELSE IF levels.namespace.form # "absent" THEN levels.namespace
  ELSE levels.global

\* The last firing before now, from as far back as the window reaches, is
\* looked for as the first one after that: with windows that overlap it is an
\* earlier one.
IsWithinWindow(w, t) ==
  LET lastSchedule == NextFiring(w.schedule, t - w.duration)
      windowEnd == lastSchedule + w.duration
  IN  t >= lastSchedule /\ t < windowEnd

\* What Reconcile does with the result.
DisruptionAllowed ==
  \/ Resolved.form = "absent"
  \/ Resolved.form = "window" /\ IsWithinWindow(Resolved, clock)

-----------------------------------------------------------------------------

WindowTick ==
  /\ clock < LastTime
  /\ clock' = clock + 1
  /\ UNCHANGED <<levels, nsReadable>>

\* Somebody edits a level.
Reconfigure ==
  /\ \E l \in DOMAIN levels, w \in Parses : levels' = [levels EXCEPT ![l] = w]
  /\ levels' \in WindowLevels
  /\ UNCHANGED <<clock, nsReadable>>

\* The API server stops answering for the Namespace, or does so again.
ToggleNamespace ==
  /\ nsReadable' = ~nsReadable
  /\ UNCHANGED <<clock, levels>>

WindowNext == WindowTick \/ Reconfigure \/ ToggleNamespace

WindowSpec == WindowInit /\ [][WindowNext]_windowVars

-----------------------------------------------------------------------------
(* Properties.                                                             *)

\* A schedule has fired, and its window is not over yet: it lasts from an
\* instant of the schedule for the duration, the end excluded.
SomeWindowOpen(w) ==
  \E o \in w.schedule : o <= clock /\ clock < o + w.duration

\* Disruptions are allowed in exactly two cases: a window is open according to
\* the first level that says anything, whether windows overlap, lie far apart
\* or never open; or no level says anything and all of them could be asked.
\* (resolveDisruptionWindow, IsWithinWindow)
AllowedInWindowsOnly ==
  DisruptionAllowed <=>
    \/ levels.workload.form = "window" /\ SomeWindowOpen(levels.workload)
    \/ /\ levels.workload.form = "absent"
       /\ levels.namespace.form = "absent"
       /\ nsReadable
       /\ levels.global.form = "absent" \/ SomeWindowOpen(levels.global)
=============================================================================
