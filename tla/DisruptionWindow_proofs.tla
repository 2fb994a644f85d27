----------------------- MODULE DisruptionWindow_proofs ----------------------
(***************************************************************************)
(* Disruptions are allowed inside windows only: for every schedule, every  *)
(* duration and every instant.                                             *)
(***************************************************************************)
EXTENDS DisruptionWindow, TLAPS

WindowType ==
  /\ clock \in 0 .. LastTime
  /\ levels \in WindowLevels
  /\ nsReadable \in BOOLEAN

\* The clock stays within its bound and the levels say what can be said.
LEMMA WindowTypeCorrect == WindowSpec => []WindowType
<1>1. WindowInit => WindowType
  BY WindowAssumption DEF WindowInit, WindowType
<1>2. WindowType /\ [WindowNext]_windowVars => WindowType'
  <2> SUFFICES ASSUME WindowType, [WindowNext]_windowVars PROVE WindowType'
    OBVIOUS
  <2>1. CASE WindowTick
    BY <2>1, WindowAssumption DEF WindowType, WindowTick
  <2>2. CASE Reconfigure
    BY <2>2 DEF WindowType, Reconfigure
  <2>3. CASE ToggleNamespace
    BY <2>3 DEF WindowType, ToggleNamespace
  <2>4. CASE UNCHANGED windowVars
    BY <2>4 DEF WindowType, windowVars
  <2>5. QED BY <2>1, <2>2, <2>3, <2>4 DEF WindowNext
<1>3. QED BY <1>1, <1>2, PTL DEF WindowSpec

\* IsWithinWindow asks for one firing only, the first one that can still be
\* open, and needs no other: if any window is open now, that one is.
LEMMA FirstFiringDecides ==
  ASSUME NEW w \in Parses, NEW t \in 0 .. LastTime
  PROVE  IsWithinWindow(w, t) <=>
           \E o \in w.schedule : o <= t /\ t < o + w.duration
<1> DEFINE n == NextFiring(w.schedule, t - w.duration)
<1>1. /\ w.schedule \in Schedules
      /\ w.schedule \subseteq Int
      /\ w.duration \in Int
      /\ t \in Int
      /\ t - w.duration \in Times
      /\ ZeroTime + w.duration <= t
      /\ ZeroTime \in Int
  <2>1. w.schedule \in Schedules /\ w.duration \in Durations
    BY DEF Parses
  <2>2. t \in Int
    BY WindowAssumption
  <2>3. t - w.duration \in Times /\ ZeroTime + w.duration <= t
    BY <2>1, WindowAssumption
  <2>4. QED BY <2>1, <2>2, <2>3, WindowAssumption
<1>2. CASE \E o \in w.schedule : o > t - w.duration
  <2>1. /\ n \in w.schedule
        /\ n > t - w.duration
        /\ \A o \in w.schedule : o > t - w.duration => n <= o
    BY <1>1, <1>2, WindowAssumption
  <2>2. ASSUME IsWithinWindow(w, t)
        PROVE  \E o \in w.schedule : o <= t /\ t < o + w.duration
    <3>1. n <= t /\ t < n + w.duration
      BY <1>1, <2>1, <2>2 DEF IsWithinWindow
    <3>2. QED BY <2>1, <3>1
  <2>3. ASSUME NEW o \in w.schedule, o <= t, t < o + w.duration
        PROVE  IsWithinWindow(w, t)
    <3>1. o \in Int /\ n \in Int
      BY <1>1, <2>1
    <3>2. o > t - w.duration
      BY <1>1, <2>3, <3>1
    <3>3. n <= o
      BY <2>1, <3>2
    <3>4. n <= t /\ t < n + w.duration
      BY <1>1, <2>1, <2>3, <3>1, <3>3
    <3>5. QED BY <1>1, <3>1, <3>4 DEF IsWithinWindow
  <2>4. QED BY <2>2, <2>3
<1>3. CASE ~ \E o \in w.schedule : o > t - w.duration
  <2>1. n = ZeroTime
    BY <1>1, <1>3, WindowAssumption
  <2>2. ~ IsWithinWindow(w, t)
    BY <1>1, <2>1 DEF IsWithinWindow
  <2>3. ~ \E o \in w.schedule : o <= t /\ t < o + w.duration
    BY <1>1, <1>3
  <2>4. QED BY <2>2, <2>3
<1>4. QED BY <1>2, <1>3

\* In every state the reconciler allows a disruption exactly when a window is
\* open at the level that decides, or no level asks for one.
LEMMA AllowedNow == WindowType => AllowedInWindowsOnly
<1> SUFFICES ASSUME WindowType PROVE AllowedInWindowsOnly
  OBVIOUS
<1>1. /\ levels.workload \in Parses
      /\ levels.namespace \in Parses /\ levels.namespace.form # "window"
      /\ levels.global \in Parses /\ levels.global.form # "broken"
      /\ clock \in 0 .. LastTime
  BY DEF WindowType, WindowLevels
<1>2. \A w \in Parses : w.form \in {"absent", "broken", "window"}
  BY DEF Parses
<1>3. \A w \in Parses : IsWithinWindow(w, clock) <=> SomeWindowOpen(w)
  BY <1>1, FirstFiringDecides DEF SomeWindowOpen
<1>4. CASE levels.workload.form # "absent"
  BY <1>1, <1>2, <1>3, <1>4 DEF AllowedInWindowsOnly, DisruptionAllowed, Resolved
<1>5. CASE levels.workload.form = "absent" /\ ~nsReadable
  <2>1. Resolved.form = "broken"
    BY <1>1, <1>5 DEF Resolved, Parses
  <2>2. QED BY <1>5, <2>1 DEF AllowedInWindowsOnly, DisruptionAllowed
<1>6. CASE levels.workload.form = "absent" /\ nsReadable
  <2>1. CASE levels.namespace.form = "absent"
    BY <1>1, <1>2, <1>3, <1>6, <2>1 DEF AllowedInWindowsOnly, DisruptionAllowed, Resolved
  <2>2. CASE levels.namespace.form # "absent"
    BY <1>1, <1>2, <1>6, <2>2 DEF AllowedInWindowsOnly, DisruptionAllowed, Resolved
  <2>3. QED BY <2>1, <2>2
<1>7. QED BY <1>4, <1>5, <1>6

\* Whatever the schedules, the durations and the edits, disruptions are allowed
\* in windows only.
THEOREM AlwaysAllowedInWindowsOnly == WindowSpec => []AllowedInWindowsOnly
BY WindowTypeCorrect, AllowedNow, PTL
=============================================================================
