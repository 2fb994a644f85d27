-------------------------- MODULE Components_proofs -------------------------
(***************************************************************************)
(* Proofs about the namespace filter, EnsureRBAC and the annotations.      *)
(***************************************************************************)
EXTENDS NamespaceFilter, ClusterAccess, Annotations, TLAPS

-----------------------------------------------------------------------------
(* The namespace filter.                                                   *)

\* What the filter would say of the namespace now.
Verdict(n) == PerformFiltering(n, namespaceOf[n])

AskerStates ==
  [pc : {"idle", "store"}, ns : Namespaces \cup {"none"},
   verdict : {"none", "allowed", "denied"}, age : 0 .. AskTime]

FilterTypes ==
  /\ nsSettled \in [Namespaces -> 0 .. NsSettled]
  /\ DOMAIN namespaceOf = Namespaces
  /\ DOMAIN verdicts = Namespaces
  /\ sinceRefresh \in 0 .. RefreshInterval
  /\ asker \in [Askers -> AskerStates]
  /\ \A t \in Askers : asker[t].pc = "store" => asker[t].ns \in Namespaces

\* A decision on its way to the cache that is not the present one was overtaken
\* while it was on its way.
AskersLag ==
  \A t \in Askers :
    asker[t].pc = "store" /\ asker[t].verdict # Verdict(asker[t].ns) =>
      nsSettled[asker[t].ns] <= asker[t].age

\* A verdict in the cache that is not the present one was stored since the ticker
\* fired, by a call that was overtaken, or was overtaken itself since then.
VerdictsLag ==
  \A n \in Namespaces :
    ticker = "running" /\ verdicts[n] # "none" /\ verdicts[n] # Verdict(n) =>
      nsSettled[n] <= sinceRefresh + AskTime

FilterInv == FilterTypes /\ AskersLag /\ VerdictsLag

\* The bounds are numbers.
LEMMA FilterNumbers ==
  /\ AskTime \in Nat /\ RefreshInterval \in Nat /\ NsSettled \in Nat
  /\ NsSettled > RefreshInterval + AskTime
  BY FilterAssumption DEF NsSettled

\* Nothing is cached and nobody asks.
LEMMA FilterInvInit == FilterInit => FilterInv
  <1> SUFFICES ASSUME FilterInit PROVE FilterInv
    OBVIOUS
  <1>1. IdleAsker \in AskerStates /\ IdleAsker.pc = "idle"
    BY FilterNumbers DEF IdleAsker, AskerStates
  <1>2. FilterTypes
    BY <1>1, FilterNumbers DEF FilterInit, FilterTypes, NoVerdicts
  <1>3. QED
    BY <1>1, <1>2 DEF FilterInit, FilterInv, AskersLag, VerdictsLag, NoVerdicts

\* A call that decides holds the present verdict, or one of a failed read, of
\* which the clock knows.
LEMMA DecideKeepsInv ==
  ASSUME FilterInv, NEW t \in Askers, NEW n \in Namespaces, Decide(t, n)
  PROVE  FilterInv'
  <1> USE FilterNumbers
  <1>1. PICK v \in {"allowed", "denied"} :
          /\ asker' = [asker EXCEPT ![t] =
                         [IdleAsker EXCEPT !.pc = "store", !.ns = n, !.verdict = v]]
          /\ \/ v = Verdict(n) /\ UNCHANGED nsSettled
             \/ nsSettled' = [nsSettled EXCEPT ![n] = 0]
    <2>1. \A o : PerformFiltering(n, o) \in {"allowed", "denied"}
      BY DEF PerformFiltering
    <2>2. QED
      BY <2>1 DEF Decide, Verdict
  <1> DEFINE a == [IdleAsker EXCEPT !.pc = "store", !.ns = n, !.verdict = v]
  <1>2. a \in AskerStates /\ a.ns = n /\ a.verdict = v /\ a.age = 0
    <2>1. IdleAsker \in AskerStates
      BY DEF IdleAsker, AskerStates
    <2>2. a \in AskerStates
      BY <2>1 DEF AskerStates
    <2>3. QED
      BY <2>2 DEF IdleAsker
  <1> HIDE DEF a
  <1>3. UNCHANGED <<namespaceOf, filterConfig, patterns, verdicts, sinceRefresh, ticker>>
    BY DEF Decide, filterVars, verdictVars
  <1>4. /\ asker' \in [Askers -> AskerStates]
        /\ asker'[t] = a
        /\ \A u \in Askers \ {t} : asker'[u] = asker[u]
    BY <1>1, <1>2 DEF a, FilterInv, FilterTypes
  <1>5. /\ nsSettled' \in [Namespaces -> 0 .. NsSettled]
        /\ \A m \in Namespaces : nsSettled'[m] <= nsSettled[m]
    BY <1>1 DEF FilterInv, FilterTypes
  <1>6. FilterTypes'
    BY <1>2, <1>3, <1>4, <1>5 DEF FilterInv, FilterTypes
  <1>7. \A m \in Namespaces : Verdict(m)' = Verdict(m)
    BY <1>3 DEF Verdict, PerformFiltering, ExcludedByName, IsSystemNamespace,
         ExcludedByPattern, NotIncluded, RefusedByMetadata
  <1>8. QED
    <2>1. \A u \in Askers : asker[u].age \in Nat /\ asker'[u].age \in Nat
      BY <1>4 DEF FilterInv, FilterTypes, AskerStates
    <2>2. VerdictsLag'
      BY <1>3, <1>5, <1>7 DEF FilterInv, FilterTypes, VerdictsLag
    <2>3. ASSUME NEW u \in Askers, asker'[u].pc = "store",
                 asker'[u].verdict # Verdict(asker[u].ns)'
          PROVE  nsSettled'[asker'[u].ns] <= asker'[u].age
      <3>1. CASE u = t
        <4>1. asker'[u].ns = n /\ asker'[u].verdict = v /\ asker'[u].age = 0
          BY <1>2, <1>4, <3>1
        <4>2. v # Verdict(n)
          BY <1>7, <2>3, <4>1
        <4>3. nsSettled'[n] = 0
          BY <1>1, <4>2 DEF FilterInv, FilterTypes
        <4>4. QED
          BY <4>1, <4>3
      <3>2. CASE u # t
        <4>1. asker'[u] = asker[u] /\ asker[u].ns \in Namespaces
          BY <1>4, <2>3, <3>2 DEF FilterInv, FilterTypes
        <4>2. asker[u].verdict # Verdict(asker[u].ns)
          BY <1>7, <2>3, <4>1
        <4>3. QED
          BY <1>5, <2>1, <2>3, <4>1, <4>2 DEF FilterInv, FilterTypes, AskersLag
      <3>3. QED
        BY <3>1, <3>2
    <2>4. QED
      BY <1>6, <2>2, <2>3 DEF FilterInv, AskersLag
\* A verdict that is stored takes the lag of its call with it.
LEMMA StoreKeepsInv ==
  ASSUME FilterInv, NEW t \in Askers, SetCachedResult(t)
  PROVE  FilterInv'
  <1> USE FilterNumbers
  <1>1. UNCHANGED <<namespaceOf, nsSettled, filterConfig, patterns, sinceRefresh, ticker>>
    BY DEF SetCachedResult, namespaceVars, filterVars
  <1>2. IdleAsker \in AskerStates /\ IdleAsker.pc = "idle"
    BY DEF IdleAsker, AskerStates
  <1>3. /\ asker' \in [Askers -> AskerStates]
        /\ \A u \in Askers : asker'[u].pc = "store" => asker'[u] = asker[u]
    BY <1>2 DEF SetCachedResult, FilterInv, FilterTypes
  <1>4. asker[t].pc = "store" /\ asker[t].ns \in Namespaces
    BY DEF SetCachedResult, FilterInv, FilterTypes
  <1>5. /\ DOMAIN verdicts' = Namespaces
        /\ verdicts'[asker[t].ns] = asker[t].verdict
        /\ \A n \in Namespaces \ {asker[t].ns} : verdicts'[n] \in {"none", verdicts[n]}
    BY <1>4 DEF SetCachedResult, NoVerdicts, FilterInv, FilterTypes
  <1>6. \A n \in Namespaces : Verdict(n)' = Verdict(n)
    BY <1>1 DEF Verdict, PerformFiltering, ExcludedByName, IsSystemNamespace,
         ExcludedByPattern, NotIncluded, RefusedByMetadata
  <1>7. FilterTypes'
    BY <1>1, <1>3, <1>5 DEF FilterInv, FilterTypes
  <1>8. AskersLag'
    BY <1>1, <1>3, <1>6 DEF FilterInv, FilterTypes, AskersLag
  <1>9. ASSUME NEW n \in Namespaces, ticker' = "running",
               verdicts'[n] # "none", verdicts'[n] # Verdict(n)'
        PROVE  nsSettled'[n] <= sinceRefresh' + AskTime
    <2>1. CASE n = asker[t].ns
      <3>1. nsSettled[n] <= asker[t].age
        BY <1>4, <1>5, <1>6, <1>9, <2>1 DEF FilterInv, AskersLag
      <3>2. /\ asker[t].age \in Nat /\ asker[t].age <= AskTime
            /\ nsSettled[n] \in Nat /\ sinceRefresh \in Nat
        BY DEF FilterInv, FilterTypes, AskerStates
      <3>3. QED
        BY <1>1, <3>1, <3>2
    <2>2. CASE n # asker[t].ns
      BY <1>1, <1>5, <1>6, <1>9, <2>2 DEF FilterInv, VerdictsLag
    <2>3. QED
      BY <2>1, <2>2
  <1>10. QED
    BY <1>7, <1>8, <1>9 DEF FilterInv, VerdictsLag

\* The clock: calls grow older with the cache.
LEMMA FilterTickKeepsInv ==
  ASSUME FilterInv, FilterTick
  PROVE  FilterInv'
  <1> USE FilterNumbers
  <1>1. UNCHANGED <<namespaceOf, filterConfig, patterns, verdicts, ticker>>
    BY DEF FilterTick, filterVars
  <1>2. /\ nsSettled \in [Namespaces -> 0 .. NsSettled]
        /\ sinceRefresh \in 0 .. RefreshInterval
        /\ \A u \in Askers : asker[u] \in AskerStates /\ asker[u].age \in Nat
    BY DEF FilterInv, FilterTypes, AskerStates
  <1>3. /\ nsSettled' \in [Namespaces -> 0 .. NsSettled]
        /\ \A n \in Namespaces : nsSettled'[n] <= nsSettled[n] + 1
    BY <1>2 DEF FilterTick
  <1>4. ASSUME NEW u \in Askers PROVE asker'[u] \in AskerStates
    <2>1. CASE asker[u].pc = "idle"
      BY <1>2, <2>1 DEF FilterTick
    <2>2. CASE asker[u].pc # "idle"
      <3>1. asker[u].age + 1 \in 0 .. AskTime
        BY <1>2, <2>2 DEF FilterTick
      <3>2. asker'[u] = [asker[u] EXCEPT !.age = asker[u].age + 1]
        BY <2>2 DEF FilterTick
      <3>3. QED
        BY <1>2, <3>1, <3>2 DEF AskerStates
    <2>3. QED
      BY <2>1, <2>2
  <1>5. asker' \in [Askers -> AskerStates]
    BY <1>4 DEF FilterTick
  <1>6. \A u \in Askers :
          /\ asker'[u].pc = asker[u].pc /\ asker'[u].ns = asker[u].ns
          /\ asker'[u].verdict = asker[u].verdict
          /\ asker[u].pc # "idle" => asker'[u].age = asker[u].age + 1
    BY <1>2 DEF FilterTick, AskerStates
  <1>7. sinceRefresh' \in 0 .. RefreshInterval
    BY <1>2 DEF FilterTick
  <1>8. FilterTypes'
    BY <1>1, <1>3, <1>5, <1>6, <1>7 DEF FilterInv, FilterTypes
  <1>9. \A n \in Namespaces : Verdict(n)' = Verdict(n)
    BY <1>1 DEF Verdict, PerformFiltering, ExcludedByName, IsSystemNamespace,
         ExcludedByPattern, NotIncluded, RefusedByMetadata
  <1>10. AskersLag'
    <2> SUFFICES ASSUME NEW u \in Askers, asker'[u].pc = "store",
                        asker'[u].verdict # Verdict(asker[u].ns)'
                 PROVE  nsSettled'[asker'[u].ns] <= asker'[u].age
      BY DEF AskersLag
    <2>1. asker[u].pc = "store" /\ asker[u].ns \in Namespaces
      BY <1>6 DEF FilterInv, FilterTypes
    <2>2. asker[u].verdict # Verdict(asker[u].ns)
      BY <1>6, <1>9, <2>1
    <2>3. nsSettled[asker[u].ns] <= asker[u].age
      BY <2>1, <2>2 DEF FilterInv, AskersLag
    <2>4. QED
      BY <1>2, <1>3, <1>6, <2>1, <2>3
  <1>11. VerdictsLag'
    <2>1. ticker = "running" => sinceRefresh' = sinceRefresh + 1
      BY DEF FilterTick
    <2>2. QED
      BY <1>1, <1>2, <1>3, <1>9, <2>1 DEF FilterInv, VerdictsLag
  <1>12. QED
    BY <1>8, <1>10, <1>11 DEF FilterInv

\* Configurations and namespaces change under calls that are under way.
LEMMA FilterInvStep ==
  ASSUME FilterInv, [FilterNext]_nsVars
  PROVE  FilterInv'
  <1> USE FilterNumbers
  <1>0. /\ nsSettled \in [Namespaces -> 0 .. NsSettled]
        /\ sinceRefresh \in 0 .. RefreshInterval
        /\ \A u \in Askers : asker[u].age \in Nat
    BY DEF FilterInv, FilterTypes, AskerStates
  <1>1. CASE UpdateFilter
    <2>1. /\ nsSettled' = [n \in Namespaces |-> 0]
          /\ UNCHANGED <<namespaceOf, sinceRefresh, ticker, asker>>
          /\ DOMAIN verdicts' = Namespaces
      BY <1>1 DEF UpdateFilter, verdictVars, NoVerdicts, FilterInv, FilterTypes
    <2>2. QED
      BY <1>0, <2>1 DEF FilterInv, FilterTypes, AskersLag, VerdictsLag
  <1>2. CASE RefreshVerdicts
    <2>1. /\ UNCHANGED <<namespaceOf, nsSettled, filterConfig, patterns, ticker, asker>>
          /\ verdicts' = NoVerdicts /\ sinceRefresh' = 0
      BY <1>2 DEF RefreshVerdicts, namespaceVars, filterVars
    <2>2. \A n \in Namespaces : Verdict(n)' = Verdict(n)
      BY <2>1 DEF Verdict, PerformFiltering, ExcludedByName, IsSystemNamespace,
           ExcludedByPattern, NotIncluded, RefusedByMetadata
    <2>3. AskersLag'
      BY <2>1, <2>2 DEF FilterInv, FilterTypes, AskersLag
    <2>4. QED
      BY <2>1, <2>3 DEF FilterInv, FilterTypes, VerdictsLag, NoVerdicts
  <1>3. CASE StopTicker \/ UNCHANGED nsVars
    <2>1. /\ UNCHANGED <<namespaceOf, nsSettled, filterConfig, patterns, verdicts,
                         sinceRefresh, asker>>
          /\ ticker' = "running" => ticker = "running"
      BY <1>3 DEF StopTicker, namespaceVars, filterVars, verdictVars, nsVars
    <2>2. \A n \in Namespaces : Verdict(n)' = Verdict(n)
      BY <2>1 DEF Verdict, PerformFiltering, ExcludedByName, IsSystemNamespace,
           ExcludedByPattern, NotIncluded, RefusedByMetadata
    <2>3. QED
      BY <2>1, <2>2 DEF FilterInv, FilterTypes, AskersLag, VerdictsLag
  <1>4. ASSUME NEW n \in Namespaces, ChangeNamespace(n)
        PROVE  FilterInv'
    <2>1. /\ UNCHANGED <<filterConfig, patterns, verdicts, sinceRefresh, ticker, asker>>
          /\ nsSettled' = [nsSettled EXCEPT ![n] = 0]
          /\ DOMAIN namespaceOf' = Namespaces
          /\ \A m \in Namespaces \ {n} : namespaceOf'[m] = namespaceOf[m]
      BY <1>4 DEF ChangeNamespace, filterVars, verdictVars, FilterInv, FilterTypes
    <2>2. \A m \in Namespaces \ {n} : Verdict(m)' = Verdict(m)
      BY <2>1 DEF Verdict, PerformFiltering, ExcludedByName, IsSystemNamespace,
           ExcludedByPattern, NotIncluded, RefusedByMetadata
    <2>3. QED
      BY <1>0, <2>1, <2>2 DEF FilterInv, FilterTypes, AskersLag, VerdictsLag
  <1>5. QED
    BY <1>1, <1>2, <1>3, <1>4, DecideKeepsInv, StoreKeepsInv, FilterTickKeepsInv
       DEF FilterNext

\* For any number of goroutines and namespaces and any configurations: what the
\* cache says of a namespace that has settled is what the filter would say now.
THEOREM VerdictsAlwaysCurrent == FilterSpec => []VerdictsCurrent
  <1>1. FilterInv => VerdictsCurrent
    BY FilterNumbers DEF FilterInv, FilterTypes, VerdictsLag, VerdictsCurrent, Verdict
  <1>2. QED
    BY <1>1, FilterInvInit, FilterInvStep, PTL DEF FilterSpec
-----------------------------------------------------------------------------
(* EnsureRBAC.                                                             *)

\* A replica has seen or made everything before the step it is at.
AccessInv ==
  /\ install \in [Installers -> [at : 1 .. 4,
                                 pc : {"get", "create", "validate", "done", "failed"}]]
  /\ \A r \in Installers :
       /\ \A i \in 1 .. 4 : i < install[r].at => Required[i] \in objects
       /\ install[r].pc \in {"validate", "done"} =>
            \A i \in 1 .. 4 : Required[i] \in objects

\* There are four objects.
LEMMA RequiredLength == Len(Required) = 4
  BY DEF Required

\* Nothing is deleted, and a replica proceeds past what it found or created.
LEMMA AccessInvStep ==
  ASSUME AccessInv, [AccessNext]_accessVars
  PROVE  AccessInv'
  <1> DEFINE States == [at : 1 .. 4, pc : {"get", "create", "validate", "done", "failed"}]
  <1>0. objects \subseteq objects'
    BY DEF AccessNext, GetObject, CreateObject, ValidatePermissions, Reinstall, accessVars
  <1>1. ASSUME NEW r \in Installers, NEW at \in 1 .. 4,
               NEW pc \in {"get", "create", "validate", "done", "failed"},
               Becomes(r, at, pc),
               \A i \in 1 .. 4 : i < at => Required[i] \in objects',
               pc \in {"validate", "done"} => \A i \in 1 .. 4 : Required[i] \in objects'
        PROVE  AccessInv'
    <2>1. [at |-> at, pc |-> pc] \in States
      OBVIOUS
    <2>2. /\ install' \in [Installers -> States]
          /\ install'[r].at = at /\ install'[r].pc = pc
          /\ \A u \in Installers \ {r} : install'[u] = install[u]
      BY <1>1, <2>1 DEF Becomes, AccessInv
    <2>3. QED
      BY <1>0, <1>1, <2>2 DEF AccessInv
  <1>2. ASSUME NEW r \in Installers, Proceed(r), Required[install[r].at] \in objects'
        PROVE  AccessInv'
    <2>1. install[r].at \in 1 .. 4
      BY DEF AccessInv
    <2>2. \A i \in 1 .. 4 : i <= install[r].at => Required[i] \in objects'
      BY <1>0, <1>2, <2>1 DEF AccessInv
    <2>3. CASE install[r].at < 4
      BY <1>1, <1>2, <2>1, <2>2, <2>3, RequiredLength DEF Proceed
    <2>4. CASE install[r].at = 4
      BY <1>1, <1>2, <2>1, <2>2, <2>4, RequiredLength DEF Proceed
    <2>5. QED
      BY <2>1, <2>3, <2>4
  <1>3. ASSUME NEW r \in Installers, NEW pc \in {"create", "failed"},
               Becomes(r, install[r].at, pc)
        PROVE  AccessInv'
    BY <1>0, <1>1, <1>3 DEF AccessInv
  <1>4. ASSUME NEW r \in Installers, GetObject(r) PROVE AccessInv'
    BY <1>0, <1>2, <1>3, <1>4 DEF GetObject
  <1>5. ASSUME NEW r \in Installers, CreateObject(r) PROVE AccessInv'
    BY <1>2, <1>3, <1>5 DEF CreateObject
  <1>6. ASSUME NEW r \in Installers, ValidatePermissions(r) PROVE AccessInv'
    <2>1. PICK pc \in {"done", "failed"} : Becomes(r, install[r].at, pc)
      BY <1>6 DEF ValidatePermissions
    <2>2. install[r].at \in 1 .. 4 /\ \A i \in 1 .. 4 : Required[i] \in objects'
      BY <1>0, <1>6 DEF ValidatePermissions, AccessInv
    <2>3. QED
      BY <1>1, <2>1, <2>2
  <1>7. ASSUME NEW r \in Installers, Reinstall(r) PROVE AccessInv'
    BY <1>1, <1>7 DEF Reinstall
  <1>8. CASE UNCHANGED accessVars
    BY <1>8 DEF accessVars, AccessInv
  <1>9. QED
    BY <1>4, <1>5, <1>6, <1>7, <1>8 DEF AccessNext

\* However many replicas start together, whichever of their calls fail or lose
\* their answers: one that got through has everything in place.
THEOREM AccessAlwaysComplete == AccessSpec => []AccessComplete
  <1>1. AccessInit => AccessInv
    BY DEF AccessInit, AccessInv
  <1>2. AccessInv => AccessComplete
    BY RequiredLength DEF AccessInv, AccessComplete
  <1>3. QED
    BY <1>1, <1>2, AccessInvStep, PTL DEF AccessSpec

-----------------------------------------------------------------------------
(* Annotations.                                                            *)

Texts == {t \in [form : {"absent", "number", "percent", "garbled"}, n : Int] :
            t.form = "absent" => t = Absent}

Objects == [label : {"true", "True", "none"}, spot : Texts, floor : Texts]

ObjectInv == object \in Objects

\* What a workload may carry is a text.
LEMMA AnnotationTextsAreTexts == AnnotationTexts \subseteq Texts
  BY AnnotationsAssumption DEF AnnotationTexts, Texts, Absent, Garbled, Number, Percent

\* What is written is a text that is given, and reads as the number it spells.
LEMMA WrittenTexts ==
  ASSUME NEW n \in Int
  PROVE  /\ Percent(n) \in Texts /\ Percent(n) # Absent /\ Percent(n).n = n
         /\ Number(n) \in Texts /\ Number(n) # Absent /\ Number(n).n = n
         /\ Percent(n).form = "percent" /\ Number(n).form = "number"
         /\ Absent \in Texts
  BY DEF Texts, Absent, Number, Percent

\* Which annotations an object gives.
LEMMA GivenAnnotations ==
  ASSUME NEW o \in Objects
  PROVE  /\ GivenIn(o) = {f \in {"spot", "floor"} : \/ f = "spot" /\ o.spot # Absent
                                                    \/ f = "floor" /\ o.floor # Absent}
         /\ "spot" \in GivenIn(o) <=> o.spot # Absent
         /\ "floor" \in GivenIn(o) <=> o.floor # Absent
         /\ o.spot = Absent => o.spot.n = 0
         /\ o.floor = Absent => o.floor.n = 0
         /\ o.spot.n \in Int /\ o.floor.n \in Int
  BY DEF Objects, GivenIn, Absent, Texts

\* The object stays well formed, whoever writes it.
LEMMA ObjectStep ==
  ASSUME ObjectInv, [AnnotationsNext]_annotationVars
  PROVE  ObjectInv'
  <1> USE DEF ObjectInv
  <1>1. CASE WriteBack
    <2> DEFINE c == ParseFromAnnotations(object, object.label = "true")
    <2>1. c = WorkloadConfiguration(object)
      BY <1>1 DEF WriteBack, ParseFromAnnotations, Disabled, Failure
    <2>2. ToAnnotations(c).spot \in Texts /\ ToAnnotations(c).floor \in Texts
      BY <2>1, GivenAnnotations, WrittenTexts DEF ToAnnotations, WorkloadConfiguration
    <2>3. object' = [label |-> object.label, spot |-> ToAnnotations(c).spot,
                     floor |-> ToAnnotations(c).floor]
      BY <1>1 DEF WriteBack
    <2> HIDE DEF c
    <2>4. QED
      BY <2>2, <2>3 DEF Objects
  <1>2. CASE EditObject
    BY <1>2, AnnotationTextsAreTexts DEF EditObject, Objects
  <1>3. CASE UNCHANGED annotationVars
    BY <1>3 DEF annotationVars
  <1>4. QED
    BY <1>1, <1>2, <1>3 DEF AnnotationsNext

\* It is well formed at first.
LEMMA ObjectInit == AnnotationsInit => ObjectInv
  BY AnnotationTextsAreTexts DEF ObjectInv, AnnotationsInit, Objects

\* Whatever integers annotations spell, and whatever the limits: validation and
\* both parsers agree on every object.
THEOREM ReadersAlwaysAgree == AnnotationsSpec => []ReadersAgree
  <1>1. ASSUME ObjectInv PROVE ReadersAgree
    <2> USE DEF ObjectInv
    <2> DEFINE enabled == [object EXCEPT !.label = "true"]
    <2>1. /\ enabled \in Objects /\ enabled.label = "true"
          /\ enabled.spot = object.spot /\ enabled.floor = object.floor
      BY <1>1 DEF Objects
    <2> HIDE DEF enabled
    <2>2. GivenIn(enabled) = GivenIn(object)
      BY <1>1, <2>1, GivenAnnotations
    <2>3. WorkloadConfiguration(enabled) = WorkloadConfiguration(object)
      BY <2>1, <2>2 DEF WorkloadConfiguration
    <2>4. ParseWorkloadConfiguration(enabled) =
            IF ValidateAnnotations(object) THEN WorkloadConfiguration(object) ELSE Failure
      BY <2>1, <2>2, <2>3 DEF ParseWorkloadConfiguration, ValidateAnnotations
    <2>5. WorkloadConfiguration(object).ok = TRUE /\ Failure.ok = FALSE
      BY DEF WorkloadConfiguration, Failure
    <2>6. ASSUME ValidateAnnotations(object)
          PROVE  ParseFromAnnotations(object, TRUE) = WorkloadConfiguration(object)
      <3>1. /\ "floor" \in GivenIn(object) =>
                 FloorReads(object.floor, -MaxInt32 - 1, MaxInt32)
            /\ "spot" \in GivenIn(object) =>
                 SpotReads(object.spot, -MaxInt32 - 1, MaxInt32)
        BY <1>1, <2>6, GivenAnnotations, AnnotationsAssumption
           DEF ValidateAnnotations, FloorReads, SpotReads
      <3>2. object.floor.n >= 0 /\ object.spot.n \in 0 .. 100
        BY <1>1, <2>6, GivenAnnotations, AnnotationsAssumption
           DEF ValidateAnnotations, FloorReads, SpotReads
      <3>3. PolicyInRange(WorkloadConfiguration(object))
        BY <3>2 DEF PolicyInRange, WorkloadConfiguration
      <3>4. QED
        BY <3>1, <3>3 DEF ParseFromAnnotations
    <2>7. /\ ValidateAnnotations(object) <=> ParseWorkloadConfiguration(enabled).ok
          /\ ParseWorkloadConfiguration(enabled).ok =>
               ParseFromAnnotations(object, TRUE) = ParseWorkloadConfiguration(enabled)
      BY <2>4, <2>5, <2>6
    <2>8. QED
      BY <2>7 DEF ReadersAgree, enabled
  <1>2. QED
    BY <1>1, ObjectInit, ObjectStep, PTL DEF AnnotationsSpec

\* Whatever a configuration was read from, writing it back changes neither the
\* policy nor what counts as omitted.
THEOREM RewriteAlwaysKeepsPolicy == AnnotationsSpec => RewriteKeepsPolicy
  <1> DEFINE before == ParseFromAnnotations(object, TRUE)
             after == ParseFromAnnotations(object', TRUE)
             Kept == /\ after.ok
                     /\ <<after.spot, after.floor>> = <<before.spot, before.floor>>
                     /\ before.given # {} => after.given = before.given
  <1>1. ASSUME ObjectInv, ObjectInv', WriteBack PROVE Kept
    <2> USE DEF ObjectInv
    <2> DEFINE c == ParseFromAnnotations(object, object.label = "true")
    <2>1. c = WorkloadConfiguration(object) /\ before = c
      BY <1>1 DEF WriteBack, ParseFromAnnotations, Disabled, Failure
    <2>2. /\ c.spot = object.spot.n /\ c.floor = object.floor.n
          /\ c.given = GivenIn(object)
      BY <2>1 DEF WorkloadConfiguration
    <2>3. /\ c.floor >= 0 /\ c.spot \in 0 .. 100
          /\ "floor" \in GivenIn(object) => c.floor <= MaxInt32
          /\ c.floor \in Int
      BY <1>1, <2>1, <2>2, GivenAnnotations
         DEF WriteBack, ParseFromAnnotations, Disabled, Failure, PolicyInRange, FloorReads
    <2>4. /\ object'.spot = IF "spot" \in c.given \/ c.given = {} THEN Percent(c.spot) ELSE Absent
          /\ object'.floor = IF "floor" \in c.given \/ c.given = {} THEN Number(c.floor) ELSE Absent
      BY <1>1 DEF WriteBack, ToAnnotations
    <2> HIDE DEF c
    <2>5. object'.spot.n = c.spot /\ object'.floor.n = c.floor
      BY <1>1, <2>2, <2>3, <2>4, GivenAnnotations, WrittenTexts
    <2>6. /\ c.given \subseteq {"spot", "floor"}
          /\ GivenIn(object') \subseteq {"spot", "floor"}
          /\ "spot" \in GivenIn(object') <=> "spot" \in c.given \/ c.given = {}
          /\ "floor" \in GivenIn(object') <=> "floor" \in c.given \/ c.given = {}
      <3>1. /\ "spot" \in GivenIn(object') <=> object'.spot # Absent
            /\ "floor" \in GivenIn(object') <=> object'.floor # Absent
        BY <1>1, GivenAnnotations
      <3>2. Percent(c.spot) # Absent /\ Number(c.floor) # Absent
        BY <2>3, WrittenTexts
      <3>3. QED
        BY <2>2, <2>4, <3>1, <3>2 DEF GivenIn
    <2>7. /\ "floor" \in GivenIn(object') =>
               FloorReads(object'.floor, -MaxInt32 - 1, MaxInt32)
          /\ "spot" \in GivenIn(object') =>
               SpotReads(object'.spot, -MaxInt32 - 1, MaxInt32)
      <3>1. Percent(c.spot).form = "percent" /\ Number(c.floor).form = "number"
        BY DEF Percent, Number
      <3>2. c.floor <= MaxInt32
        BY <1>1, <2>2, <2>3, GivenAnnotations, AnnotationsAssumption
      <3>3. QED
        BY <2>3, <2>4, <2>5, <2>6, <3>1, <3>2, AnnotationsAssumption
           DEF FloorReads, SpotReads
    <2>8. PolicyInRange(WorkloadConfiguration(object'))
      BY <2>3, <2>5 DEF PolicyInRange, WorkloadConfiguration
    <2>9. after = WorkloadConfiguration(object')
      BY <2>7, <2>8 DEF ParseFromAnnotations
    <2> HIDE DEF before, after
    <2>10. /\ after.ok /\ after.spot = c.spot /\ after.floor = c.floor
           /\ after.given = GivenIn(object')
      BY <2>5, <2>9 DEF WorkloadConfiguration
    <2>11. c.given # {} => GivenIn(object') = c.given
      BY <2>6
    <2>12. QED
      BY <2>1, <2>10, <2>11
  <1>2. ASSUME ObjectInv, ObjectInv', [AnnotationsNext]_annotationVars
        PROVE  rewrites' # rewrites => Kept
    BY <1>1, <1>2 DEF AnnotationsNext, EditObject, annotationVars
  <1>3. QED
    BY <1>2, ObjectInit, ObjectStep, PTL DEF AnnotationsSpec, RewriteKeepsPolicy
=============================================================================
