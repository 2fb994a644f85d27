--------------------------- MODULE NamespaceFilter --------------------------
(***************************************************************************)
(* The namespace filter (pkg/controllers/namespace_filter.go): which       *)
(* namespaces the reconcilers work in, with a cache of verdicts that a     *)
(* ticker clears.  The configuration is read and written without a lock.   *)
(***************************************************************************)
EXTENDS Integers, FiniteSets

CONSTANTS
  Askers,              \* goroutines that call IsNamespaceAllowed
  Namespaces,
  SystemPrefixed,      \* namespaces named kube-*, openshift-* or istio-*
  NoNamespace,         \* what is in the place of a namespace that is not there
  NamespaceObjects,    \* labels and annotations a namespace may have
  FilterConfigs,       \* configurations; a pattern is the set of its matches, and
                       \* an invalid one has a first exclude pattern that does
                       \* not compile
  RefreshInterval,
  AskTime,             \* bound on the time between decision and store
  MaxFilterUpdates     \* bound on calls of UpdateConfig

ASSUME FilterAssumption ==
  /\ SystemPrefixed \subseteq Namespaces
  /\ RefreshInterval \in Nat \ {0}
  /\ AskTime \in Nat
  /\ MaxFilterUpdates \in Nat

VARIABLES
  namespaceOf,    \* the object of each namespace, or NoNamespace
  nsSettled,      \* time since that, its readability or the filter changed
  filterConfig,   \* nf.config
  patterns,       \* include- and excludeRegex: the configuration they are of
  compiled,       \* "usable", or "nil" where a pattern did not compile
  filterUpdates,
  verdicts,       \* nf.cache
  sinceRefresh,   \* time since the ticker fired
  ticker,         \* "running" or "stopped"
  asker           \* program counter and locals of each goroutine

filterVars == <<filterConfig, patterns, compiled, filterUpdates>>
verdictVars == <<verdicts, sinceRefresh, ticker>>
namespaceVars == <<namespaceOf, nsSettled>>
nsVars == <<namespaceVars, filterVars, verdictVars, asker>>

NsSettled == RefreshInterval + AskTime + 1
IdleAsker == [pc |-> "idle", ns |-> "none", verdict |-> "none", age |-> 0]
NoVerdicts == [n \in Namespaces |-> "none"]

FilterInit ==
  /\ namespaceOf = [n \in Namespaces |-> NoNamespace]
  /\ nsSettled = [n \in Namespaces |-> NsSettled]
  /\ filterConfig \in { c \in FilterConfigs : c.valid }
  /\ patterns = filterConfig
  /\ compiled = "usable"
  /\ filterUpdates = 0
  /\ verdicts = NoVerdicts
  /\ sinceRefresh = 0
  /\ ticker = "running"
  /\ asker = [t \in Askers |-> IdleAsker]

-----------------------------------------------------------------------------
(* performFiltering, filter by filter.                                     *)

IsSystemNamespace(n) == n \in filterConfig.system \cup SystemPrefixed

\* applyExclusionFilters and checkExplicitExclusion.
ExcludedByName(n) ==
  \/ ~filterConfig.includeSystem /\ IsSystemNamespace(n)
  \/ n \in filterConfig.exclude

\* checkExcludePatterns.
ExcludedByPattern(n) == \E p \in patterns.excludePatterns : n \in p

\* checkExplicitInclusion and checkIncludePatterns: no list means no limit.
NotIncluded(n) ==
  \/ filterConfig.include # {} /\ n \notin filterConfig.include
  \/ patterns.includePatterns # {} /\ \A p \in patterns.includePatterns : n \notin p

\* checkMetadataRequirements.  The required annotations of the configuration
\* play no part.
RefusedByMetadata(object) ==
  \/ ~ (filterConfig.requiredLabels \subseteq object.labels)
  \/ filterConfig.forbiddenLabels \cap object.labels # {}
  \/ filterConfig.forbiddenAnnotations \cap object.annotations # {}

\* performFiltering: a namespace that cannot be read is allowed.
PerformFiltering(n, object) ==
  IF \/ ExcludedByName(n)
     \/ ExcludedByPattern(n)
     \/ NotIncluded(n)
     \/ object # NoNamespace /\ RefusedByMetadata(object)
  THEN "denied" ELSE "allowed"

-----------------------------------------------------------------------------
(* IsNamespaceAllowed.                                                     *)

\* getCachedResult has no answer (with one, the call ends there) and the
\* namespace is decided upon; Get may fail.  A pattern that did not compile is
\* a nil pointer and ends the call.
Decide(t, n) ==
  /\ asker[t].pc = "idle"
  /\ verdicts[n] = "none"
  /\ ExcludedByName(n) \/ compiled = "usable"
  /\ \/ /\ asker' = [asker EXCEPT ![t] =
               [IdleAsker EXCEPT !.pc = "store", !.ns = n,
                  !.verdict = PerformFiltering(n, namespaceOf[n])]]
        /\ UNCHANGED nsSettled
     \/ /\ namespaceOf[n] # NoNamespace
        /\ asker' = [asker EXCEPT ![t] =
               [IdleAsker EXCEPT !.pc = "store", !.ns = n,
                  !.verdict = PerformFiltering(n, NoNamespace)]]
        /\ nsSettled' = [nsSettled EXCEPT ![n] = 0]
  /\ UNCHANGED <<namespaceOf, filterVars, verdictVars>>

\* setCachedResult: a cache that is full, by the size the configuration names
\* now, is emptied first.  The verdict is stored even where that size is zero.
SetCachedResult(t) ==
  LET full == Cardinality({ n \in Namespaces : verdicts[n] # "none" })
                >= filterConfig.cacheSize
      kept == IF full THEN NoVerdicts ELSE verdicts
  IN  /\ asker[t].pc = "store"
      /\ verdicts' = [kept EXCEPT ![asker[t].ns] = asker[t].verdict]
      /\ asker' = [asker EXCEPT ![t] = IdleAsker]
      /\ UNCHANGED <<namespaceVars, filterVars, sinceRefresh, ticker>>

-----------------------------------------------------------------------------
(* UpdateConfig, the ticker and the cluster.                               *)

\* compilePatterns gives up at the first pattern that does not compile; it and
\* those after it are nil from now on.
CompilePatterns(c) == IF c.valid THEN "usable" ELSE "nil"

\* nf.config is replaced at once; the patterns, the selectors and the cache
\* follow, unless a pattern does not compile.
UpdateFilter ==
  \/ /\ patterns = filterConfig
     /\ filterUpdates < MaxFilterUpdates
     /\ filterConfig' \in FilterConfigs \ {filterConfig}
     /\ filterUpdates' = filterUpdates + 1
     /\ nsSettled' = [n \in Namespaces |-> 0]
     /\ UNCHANGED <<namespaceOf, patterns, compiled, verdictVars, asker>>
  \/ /\ patterns # filterConfig
     /\ patterns' = filterConfig
     /\ compiled' = CompilePatterns(filterConfig)
     /\ verdicts' = IF filterConfig.valid THEN NoVerdicts ELSE verdicts
     /\ nsSettled' = [n \in Namespaces |-> 0]
     /\ UNCHANGED <<namespaceOf, filterConfig, filterUpdates, sinceRefresh,
                    ticker, asker>>

\* Only refusals are dropped.
RefreshVerdicts_bug ==
  /\ ticker = "running"
  /\ sinceRefresh = RefreshInterval
  /\ sinceRefresh' = 0
  /\ verdicts' = [n \in Namespaces |->
                    IF verdicts[n] = "denied" THEN "none" ELSE verdicts[n]]
  /\ UNCHANGED <<namespaceVars, filterVars, ticker, asker>>

\* NamespaceRefreshTicker.run and refreshCache.
RefreshVerdicts ==
  /\ ticker = "running"
  /\ sinceRefresh = RefreshInterval
  /\ sinceRefresh' = 0
  /\ verdicts' = NoVerdicts
  /\ UNCHANGED <<namespaceVars, filterVars, ticker, asker>>

\* Shutdown.
StopTicker ==
  /\ ticker = "running"
  /\ ticker' = "stopped"
  /\ UNCHANGED <<namespaceVars, filterVars, verdicts, sinceRefresh, asker>>

\* A namespace comes, goes or is labelled anew.
ChangeNamespace(n) ==
  /\ namespaceOf' \in { [namespaceOf EXCEPT ![n] = o] :
                         o \in (NamespaceObjects \cup {NoNamespace})
                                 \ {namespaceOf[n]} }
  /\ nsSettled' = [nsSettled EXCEPT ![n] = 0]
  /\ UNCHANGED <<filterVars, verdictVars, asker>>

\* The ticker fires on time.
FilterTick ==
  /\ sinceRefresh < RefreshInterval \/ ticker = "stopped"
  /\ \A t \in Askers : asker[t].pc # "idle" => asker[t].age < AskTime
  /\ sinceRefresh' = IF sinceRefresh < RefreshInterval THEN sinceRefresh + 1
                     ELSE sinceRefresh
  /\ asker' = [t \in Askers |-> IF asker[t].pc = "idle" THEN asker[t]
                                ELSE [asker[t] EXCEPT !.age = @ + 1]]
  /\ nsSettled' = [n \in Namespaces |-> IF nsSettled[n] < NsSettled
                                        THEN nsSettled[n] + 1 ELSE nsSettled[n]]
  /\ UNCHANGED <<namespaceOf, filterVars, verdicts, ticker>>

FilterNext ==
  \/ \E t \in Askers : \/ \E n \in Namespaces : Decide(t, n)
                       \/ SetCachedResult(t)
  \/ UpdateFilter
  \/ RefreshVerdicts
  \/ StopTicker
  \/ \E n \in Namespaces : ChangeNamespace(n)
  \/ FilterTick

FilterSpec == FilterInit /\ [][FilterNext]_nsVars

-----------------------------------------------------------------------------
(* Properties.                                                             *)

\* The verdict in the cache on a namespace that has not changed for a refresh
\* interval and the time of one call is the one the filter would reach now, as
\* long as the ticker runs.  A failed read, a decision stored after the cache
\* was cleared and an update that did not compile are forgotten by then.
\* (setCachedResult, refreshCache, UpdateConfig)
VerdictsCurrent ==
  \A n \in Namespaces :
    verdicts[n] # "none" /\ nsSettled[n] >= NsSettled /\ ticker = "running" =>
      verdicts[n] = PerformFiltering(n, namespaceOf[n])
=============================================================================
