--------------------------- MODULE NodeClassifier ---------------------------
(***************************************************************************)
(* The node classifier (internal/config/node_classifier.go): what a node's *)
(* labels say of its capacity type, and the cache of those verdicts with   *)
(* its two locks, one for the configuration and one for the cache.         *)
(***************************************************************************)
EXTENDS Integers, FiniteSets

CONSTANTS
  Lookups,               \* goroutines that call the classifier
  NodeNames,
  Gone,                  \* what a node that does not exist has for labels
  Labellings,            \* label sets that nodes may bear, as functions
  Selectors,             \* configurations: pairs of label and value per type
  CacheRefreshInterval,
  LookupTime,            \* bound on the time one lookup takes (its context)
  MaxSelectorUpdates     \* bound on calls of UpdateConfig

ASSUME ClassifierAssumption ==
  /\ CacheRefreshInterval \in Nat \ {0}
  /\ LookupTime \in Nat
  /\ MaxSelectorUpdates \in Nat

VARIABLES
  nodeLabels,    \* the labels of each node in the cluster, or Gone
  settled,       \* time since those or the configuration last changed
  nodeTypes,     \* cache.NodeTypes; SpotNodes and OnDemandNodes are its inverse
  refreshAge,    \* age of cache.LastRefresh; it stops at CacheRefreshInterval
  cacheLock,     \* goroutine that holds cache.mutex for more than one step
  selector,      \* n.config
  updater,       \* UpdateConfig: "idle", or "waiting" for cache.mutex while it
                 \* holds n.mutex
  selectorUpdates,
  lookup         \* program counter and locals of each goroutine

cacheVars == <<nodeTypes, refreshAge, cacheLock>>
selectorVars == <<selector, updater, selectorUpdates>>
nodeVars == <<nodeLabels, settled>>
classifierVars == <<nodeVars, cacheVars, selectorVars, lookup>>

Free == "free"

\* Settling further than this makes no difference.
Settled == CacheRefreshInterval + 2 * LookupTime + 1

IdleLookup == [pc |-> "idle", seen |-> <<>>, missing |-> {}, name |-> "none",
               type |-> "unknown", age |-> 0]

ClassifierInit ==
  /\ nodeLabels = [n \in NodeNames |-> Gone]
  /\ settled = [n \in NodeNames |-> Settled]
  /\ nodeTypes = [n \in NodeNames |-> "missing"]
  /\ refreshAge = CacheRefreshInterval
  /\ cacheLock = Free
  /\ selector \in Selectors
  /\ updater = "idle"
  /\ selectorUpdates = 0
  /\ lookup = [t \in Lookups |-> IdleLookup]

-----------------------------------------------------------------------------
(* The verdict.  A labelling maps every label the code knows to a value or *)
(* to "absent"; the value "*" of a selector matches all others.            *)

Matches(labels, pairs) ==
  \E p \in pairs : /\ labels[p.label] # "absent"
                   /\ p.value \in {"*", labels[p.label]}

\* classifyByCloudProvider: the first of these that applies.
ByCloudProvider(labels) ==
  LET aws(l) == IF labels["instance-type"] = "absent" THEN "absent" ELSE labels[l]
  IN  IF aws("eks") = "SPOT" THEN "spot"
      ELSE IF aws("eks") = "ON_DEMAND" THEN "onDemand"
      ELSE IF aws("karpenter") = "spot" THEN "spot"
      ELSE IF aws("karpenter") = "on-demand" THEN "onDemand"
      ELSE IF labels["instance-type"] = "spot in its name" THEN "spot"
      ELSE IF labels["gke"] # "absent" THEN "spot"
      ELSE IF labels["azure"] = "spot" THEN "spot"
      ELSE IF labels["azure"] = "regular" THEN "onDemand"
      ELSE "unknown"

ClassifyNode(labels, config) ==
  IF Matches(labels, config.spot) THEN "spot"
  ELSE IF Matches(labels, config.onDemand) THEN "onDemand"
       ELSE ByCloudProvider(labels)

-----------------------------------------------------------------------------
(* Lookups: ClassifyNodesByName, and the others, which only read.          *)

ConfigReadable == updater = "idle"

\* A call starts and asks for cache.mutex.
Begin(t) ==
  /\ lookup[t].pc = "idle"
  /\ lookup' = [lookup EXCEPT ![t].pc = "refresh"]
  /\ UNCHANGED <<nodeVars, cacheVars, selectorVars>>

\* RefreshCache up to List, which may fail.
RefreshCache(t) ==
  /\ lookup[t].pc = "refresh"
  /\ cacheLock = Free
  /\ \/ /\ refreshAge < CacheRefreshInterval
        /\ lookup' = [lookup EXCEPT ![t].pc = "read"]
        /\ UNCHANGED cacheLock
     \/ /\ refreshAge >= CacheRefreshInterval
        /\ lookup' = [lookup EXCEPT ![t].pc = "listed", ![t].seen = nodeLabels]
        /\ cacheLock' = t
     \/ /\ refreshAge >= CacheRefreshInterval
        /\ lookup' = [lookup EXCEPT ![t] = IdleLookup]
        /\ UNCHANGED cacheLock
  /\ UNCHANGED <<nodeVars, nodeTypes, refreshAge, selectorVars>>

\* The old entries stay.
ClassifyAll_bug(t) ==
  /\ lookup[t].pc = "listed"
  /\ ConfigReadable
  /\ nodeTypes' = [n \in NodeNames |->
       IF lookup[t].seen[n] = Gone THEN nodeTypes[n]
       ELSE ClassifyNode(lookup[t].seen[n], selector)]
  /\ refreshAge' = 0
  /\ cacheLock' = Free
  /\ lookup' = [lookup EXCEPT ![t].pc = "read", ![t].seen = <<>>]
  /\ UNCHANGED <<nodeVars, selectorVars>>

\* RefreshCache from there on: clear, classify, store, stamp.  ClassifyNode
\* takes n.mutex while cache.mutex is held.
ClassifyAll(t) ==
  /\ lookup[t].pc = "listed"
  /\ ConfigReadable
  /\ nodeTypes' = [n \in NodeNames |->
       IF lookup[t].seen[n] = Gone THEN "missing"
       ELSE ClassifyNode(lookup[t].seen[n], selector)]
  /\ refreshAge' = 0
  /\ cacheLock' = Free
  /\ lookup' = [lookup EXCEPT ![t].pc = "read", ![t].seen = <<>>]
  /\ UNCHANGED <<nodeVars, selectorVars>>

\* The lock is not given back.
ReadCache_bug(t) ==
  /\ lookup[t].pc = "read"
  /\ cacheLock \in {Free, t}
  /\ cacheLock' = t
  /\ lookup' = [lookup EXCEPT ![t].pc = "missing",
                  ![t].missing = { n \in NodeNames : nodeTypes[n] = "missing" }]
  /\ UNCHANGED <<nodeVars, nodeTypes, refreshAge, selectorVars>>

\* The read under cache.mutex, of all names that are asked for.
ReadCache(t) ==
  /\ lookup[t].pc = "read"
  /\ cacheLock = Free
  /\ lookup' = [lookup EXCEPT ![t].pc = "missing",
                  ![t].missing = { n \in NodeNames : nodeTypes[n] = "missing" }]
  /\ UNCHANGED <<nodeVars, cacheVars, selectorVars>>

\* GetNodesOfType and GetNodeClassificationSummary return what they read.
ReadByType(t) ==
  /\ lookup[t].pc = "read"
  /\ cacheLock = Free
  /\ lookup' = [lookup EXCEPT ![t] = IdleLookup]
  /\ UNCHANGED <<nodeVars, cacheVars, selectorVars>>

\* Get of one missing node.  It fails, which leaves the node unknown, or it is
\* classified with the configuration of this moment.
GetMissing(t) ==
  /\ lookup[t].pc = "missing"
  /\ \E n \in lookup[t].missing :
       \/ lookup' = [lookup EXCEPT ![t].missing = @ \ {n}]
       \/ /\ nodeLabels[n] # Gone
          /\ ConfigReadable
          /\ lookup' = [lookup EXCEPT ![t].pc = "store", ![t].name = n,
                          ![t].type = ClassifyNode(nodeLabels[n], selector)]
  /\ UNCHANGED <<nodeVars, cacheVars, selectorVars>>

\* storeNodeClassificationLocked, over whatever is there now.
StoreMissing(t) ==
  /\ lookup[t].pc = "store"
  /\ cacheLock = Free
  /\ nodeTypes' = [nodeTypes EXCEPT ![lookup[t].name] = lookup[t].type]
  /\ lookup' = [lookup EXCEPT ![t].pc = "missing", ![t].missing = @ \ {lookup[t].name},
                              ![t].name = "none", ![t].type = "unknown"]
  /\ UNCHANGED <<nodeVars, refreshAge, cacheLock, selectorVars>>

Return(t) ==
  /\ lookup[t].pc = "missing"
  /\ lookup[t].missing = {}
  /\ lookup' = [lookup EXCEPT ![t] = IdleLookup]
  /\ UNCHANGED <<nodeVars, cacheVars, selectorVars>>

-----------------------------------------------------------------------------
(* UpdateConfig and the cluster.                                           *)

\* UpdateConfig: n.mutex and the configuration, then cache.mutex and a reset of
\* LastRefresh.
UpdateSelectors ==
  \/ /\ updater = "idle"
     /\ selectorUpdates < MaxSelectorUpdates
     /\ updater' = "waiting"
     /\ selector' \in Selectors \ {selector}
     /\ selectorUpdates' = selectorUpdates + 1
     /\ settled' = [n \in NodeNames |-> 0]
     /\ UNCHANGED <<nodeLabels, cacheVars, lookup>>
  \/ /\ updater = "waiting"
     /\ cacheLock = Free
     /\ updater' = "idle"
     /\ refreshAge' = CacheRefreshInterval
     /\ UNCHANGED <<nodeVars, nodeTypes, cacheLock, selector, selectorUpdates, lookup>>

\* A node comes, goes or is labelled anew.
ChangeNode(n) ==
  /\ nodeLabels' \in { [nodeLabels EXCEPT ![n] = l] :
                        l \in (Labellings \cup {Gone}) \ {nodeLabels[n]} }
  /\ settled' = [settled EXCEPT ![n] = 0]
  /\ UNCHANGED <<cacheVars, selectorVars, lookup>>

ClassifierTick ==
  /\ \A t \in Lookups : lookup[t].pc # "idle" => lookup[t].age < LookupTime
  /\ lookup' = [t \in Lookups |-> IF lookup[t].pc = "idle" THEN lookup[t]
                                  ELSE [lookup[t] EXCEPT !.age = @ + 1]]
  /\ refreshAge' = IF refreshAge < CacheRefreshInterval THEN refreshAge + 1
                   ELSE refreshAge
  /\ settled' = [n \in NodeNames |-> IF settled[n] < Settled THEN settled[n] + 1
                                      ELSE settled[n]]
  /\ UNCHANGED <<nodeLabels, nodeTypes, cacheLock, selectorVars>>

LookupStep(t) ==
  \/ RefreshCache(t)
  \/ ClassifyAll(t)
  \/ ReadCache(t)
  \/ ReadByType(t)
  \/ GetMissing(t)
  \/ StoreMissing(t)
  \/ Return(t)

ClassifierNext ==
  \/ \E t \in Lookups : Begin(t) \/ LookupStep(t)
  \/ UpdateSelectors
  \/ \E n \in NodeNames : ChangeNode(n)
  \/ ClassifierTick

ClassifierSpec == ClassifierInit /\ [][ClassifierNext]_classifierVars

\* A goroutine that waits for a lock that is free again and again gets it:
\* sync.Mutex hands itself over to a waiter that starves.
ClassifierFairness ==
  /\ \A t \in Lookups : SF_classifierVars(LookupStep(t))
  /\ SF_classifierVars(UpdateSelectors /\ updater = "waiting")

-----------------------------------------------------------------------------
(* Properties.                                                             *)

\* What the cache answers about a node whose labels have not changed for the
\* refresh interval and two lookups is what the classifier says of the node
\* now: neither a node that went away, nor an old configuration, nor a verdict
\* stored late over a newer one lives longer.  (RefreshCache,
\* ClassifyNodesByName)
AnswersCurrent ==
  [][ \A t \in Lookups, n \in NodeNames :
        lookup[t].pc = "read" /\ lookup'[t].pc = "missing"
          /\ nodeTypes[n] # "missing" /\ settled[n] >= Settled =>
          /\ nodeLabels[n] # Gone
          /\ nodeTypes[n] = ClassifyNode(nodeLabels[n], selector) ]_classifierVars

\* The refresh holds cache.mutex and needs n.mutex; UpdateConfig the reverse.
Embrace ==
  /\ updater = "waiting"
  /\ \E t \in Lookups : lookup[t].pc = "listed"

\* Every lookup returns, unless a refresh and an update of the configuration
\* come to hold one lock each and wait for the other's: this is the only way
\* to hang.  (RefreshCache, UpdateConfig)
LookupsReturn ==
  \A t \in Lookups :
    lookup[t].pc = "refresh" ~> (lookup[t].pc = "idle" \/ Embrace)
=============================================================================
