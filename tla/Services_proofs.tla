-------------------------- MODULE Services_proofs ---------------------------
(***************************************************************************)
(* Proofs about the services of one process: leader election and graceful  *)
(* shutdown, loading the configuration, and the node classifier.           *)
(***************************************************************************)
EXTENDS Configuration, NodeClassifier, Shutdown, TLAPS

-----------------------------------------------------------------------------
(* Leader election.                                                        *)

ElectorStates == {"off", "candidate", "leading", "stopped"}

ElectionTypes ==
  /\ lease \in [holder : Replicas \cup {Nobody}, age : Nat]
  /\ elector \in [Replicas -> ElectorStates]
  /\ renewed \in [Replicas -> 0 .. RenewDeadline]
  /\ callback \in [Replicas -> {"none", "due", "ran", "late"}]
  /\ isLeader \in [Replicas -> BOOLEAN]
  /\ deposed \in [Replicas -> BOOLEAN]

\* A replica that has not led yet knows nothing of leadership, and one that
\* takes itself for the leader leads, unless its callback came late.
Honest(r) ==
  /\ elector[r] \in {"off", "candidate"} => callback[r] = "none" /\ ~isLeader[r]
  /\ isLeader[r] => elector[r] = "leading" \/ callback[r] = "late"

\* An elector that leads, and whose Lease was not deleted, holds the Lease, and
\* the Lease is no older than the elector knows.
Holds(r) ==
  elector[r] = "leading" /\ ~deposed[r] =>
    lease.holder = r /\ lease.age <= renewed[r]

ElectionInv ==
  /\ ElectionTypes
  /\ \A r \in Replicas : Honest(r) /\ Holds(r)

\* All electors are off and nobody leads.
LEMMA ElectionInvInit == ElectionInit => ElectionInv
  BY ElectionAssumption
     DEF ElectionInit, ElectionInv, ElectionTypes, ElectorStates, Honest, Holds

\* No other replica can take the Lease from one that holds it and has not given
\* up: RenewDeadline is shorter than LeaseDuration.  (NewLeaderElector)
LEMMA LeaseIsKept ==
  ASSUME ElectionInv, NEW r \in Replicas, NEW s \in Replicas, r # s,
         elector[s] = "leading", ~deposed[s]
  PROVE  ~(lease.holder \in {Nobody, r} \/ lease.age >= LeaseDuration)
  BY ElectionAssumption DEF ElectionInv, ElectionTypes, Holds

\* Every step of an elector and of its callbacks keeps the invariant.
\* (onStartedLeading, onStoppedLeading)
LEMMA ElectorKeepsInv ==
  ASSUME ElectionInv, NEW r \in Replicas, ElectorStep(r)
  PROVE  ElectionInv'
  <1> USE ElectionAssumption DEF ElectionInv, ElectionTypes, ElectorStates
  <1>1. CASE StartElection(r)
    BY <1>1 DEF StartElection, Honest, Holds
  <1>2. CASE OnStartedLeading(r)
    BY <1>2 DEF OnStartedLeading, Honest, Holds
  <1>3. CASE OnStoppedLeading(r)
    BY <1>3 DEF OnStoppedLeading, Honest, Holds
  <1>4. CASE Acquire(r) \/ Renew(r)
    <2>1. /\ lease.holder \in {Nobody, r} \/ lease.age >= LeaseDuration
          /\ lease' = [holder |-> r, age |-> 0]
          /\ renewed' = [renewed EXCEPT ![r] = 0]
      BY <1>4 DEF Acquire, Renew
    <2>2. ElectionTypes'
      <3>1. /\ lease' \in [holder : Replicas \cup {Nobody}, age : Nat]
            /\ renewed' \in [Replicas -> 0 .. RenewDeadline]
        BY <2>1
      <3>2. CASE Acquire(r)
        BY <3>1, <3>2 DEF Acquire
      <3>3. CASE Renew(r)
        BY <3>1, <3>3 DEF Renew
      <3>4. QED
        BY <1>4, <3>2, <3>3
    <2>3. ASSUME NEW s \in Replicas PROVE Honest(s)'
      BY <1>4 DEF Acquire, Renew, Honest
    <2>4. Holds(r)'
      BY <2>1 DEF Holds
    <2>5. ASSUME NEW s \in Replicas, s # r PROVE Holds(s)'
      <3>1. ~(elector[s] = "leading" /\ ~deposed[s])
        BY <2>1, <2>5, LeaseIsKept
      <3>2. elector'[s] = elector[s] /\ deposed'[s] = deposed[s]
        BY <1>4, <2>5 DEF Acquire, Renew
      <3>3. QED
        BY <3>1, <3>2 DEF Holds
    <2>6. QED
      BY <2>2, <2>3, <2>4, <2>5
  <1>5. QED
    BY <1>1, <1>2, <1>3, <1>4 DEF ElectorStep

\* Time makes the Lease and the leader's knowledge of it older alike.
LEMMA TickKeepsInv ==
  ASSUME ElectionInv, ElectionTick
  PROVE  ElectionInv'
  <1> USE ElectionAssumption DEF ElectionInv, ElectionTypes
  <1>1. /\ lease'.holder = lease.holder
        /\ lease'.age \in Nat /\ lease'.age <= lease.age + 1
        /\ lease' \in [holder : Replicas \cup {Nobody}, age : Nat]
    BY DEF ElectionTick
  <1>2. /\ renewed' \in [Replicas -> 0 .. RenewDeadline]
        /\ \A r \in Replicas : elector[r] = "leading" => renewed'[r] = renewed[r] + 1
    BY DEF ElectionTick
  <1>3. UNCHANGED <<elector, callback, isLeader, deposed>>
    BY DEF ElectionTick
  <1>4. ASSUME NEW r \in Replicas PROVE Honest(r)' /\ Holds(r)'
    BY <1>1, <1>2, <1>3 DEF Honest, Holds
  <1>5. QED
    BY <1>1, <1>2, <1>3, <1>4

\* Deleting the Lease deposes whoever leads with it.  (Resign)
LEMMA ResignKeepsInv ==
  ASSUME ElectionInv, NEW r \in Replicas, Resign(r),
         UNCHANGED <<elector, renewed, callback, isLeader, apiUp>>
  PROVE  ElectionInv'
  <1> USE ElectionAssumption DEF ElectionInv, ElectionTypes
  <1>1. CASE UNCHANGED <<lease, deposed>>
    BY <1>1 DEF Honest, Holds
  <1>2. CASE /\ lease' = [holder |-> Nobody, age |-> 0]
             /\ deposed' = [s \in Replicas |->
                  deposed[s] \/ (s = lease.holder /\ elector[s] = "leading")]
    BY <1>2 DEF Honest, Holds
  <1>3. QED
    BY <1>1, <1>2 DEF Resign

\* No step of the process, its shutdown and end included, breaks the invariant.
LEMMA ElectionInvStep ==
  ASSUME ElectionInv, [ShutdownNext]_processVars
  PROVE  ElectionInv'
  <1> USE ElectionAssumption, ShutdownAssumption
  <1>1. CASE TransferLeadership
    <2>1. \/ Resign(Retiring)
          \/ UNCHANGED <<lease, deposed>>
      BY <1>1 DEF TransferLeadership
    <2>2. UNCHANGED <<elector, renewed, callback, isLeader, apiUp>>
      BY <1>1 DEF TransferLeadership
    <2>3. QED
      BY <2>1, <2>2, ResignKeepsInv
         DEF ElectionInv, ElectionTypes, Honest, Holds
  <1>2. CASE Exit
    BY <1>2 DEF Exit, ElectorDies, ElectionInv, ElectionTypes, ElectorStates, Honest, Holds
  <1>3. CASE UNCHANGED <<lease, elector, renewed, callback, isLeader, deposed>>
    BY <1>3 DEF ElectionInv, ElectionTypes, Honest, Holds
  <1>4. CASE ApiToggles
    BY <1>3, <1>4 DEF ApiToggles
  <1>5. ASSUME ShutdownStep, ~TransferLeadership
        PROVE  UNCHANGED electionVars
    BY <1>5 DEF ShutdownStep, PreShutdownHooks, StopNewRequests, WaitForBalancers,
         AwaitNewLeader, DrainConnections, FinishReconciliations, StopControllers,
         CleanupResources, PostShutdownHooks, ForceShutdown
  <1>6. CASE InitiateShutdown \/ DeadlinePasses \/ UNCHANGED processVars
    BY <1>3, <1>6 DEF InitiateShutdown, DeadlinePasses, processVars, electionVars
  <1>7. QED
    BY <1>1, <1>2, <1>3, <1>4, <1>5, <1>6, ElectorKeepsInv, TickKeepsInv
       DEF ShutdownNext, electionVars

\* For any number of replicas: two that take themselves for the leader at the
\* same time are accounted for by a late callback of one of them, or by a Lease
\* that Resign deleted under one of them.
THEOREM AlwaysOneLeader == ShutdownSpec => []OneLeader
  <1>1. ElectionInv => OneLeader
    BY DEF ElectionInv, ElectionTypes, Honest, Holds, OneLeader
  <1>2. ShutdownInit => ElectionInv
    BY ElectionInvInit DEF ShutdownInit
  <1>3. QED
    BY <1>1, <1>2, ElectionInvStep, PTL DEF ShutdownSpec

-----------------------------------------------------------------------------
(* Graceful shutdown.                                                      *)

\* What initiateShutdown has done when it is in a phase: which components are
\* under way, and what the probes and the controllers have been told.
PhaseInv ==
  /\ phases \in [PhaseNames -> {"unknown", "started", "completed", "failed"}]
  /\ \A n \in PhaseNames : phases[n] = "started" =>
       \/ n = "http-server"
       \/ n = "leader-election" /\ phase = "transferring"
       \/ n = "reconciliation" /\ phase = "reconciling"
  /\ phase \notin {"running", "pre-hooks", "stop-requests"} => "notReady" \in probes
  /\ phase \in {"running", "pre-hooks", "stop-requests"} => ~cancelled
  /\ phase \in {"cleanup", "post-hooks"} => cancelled
  /\ "unhealthy" \in probes => cancelled

\* Nothing has been stopped before the shutdown.
LEMMA PhaseInvInit == ShutdownInit => PhaseInv
  BY DEF ShutdownInit, PhaseInv, PhaseNames

\* Every phase leaves what the next one relies on.  (performGracefulShutdown)
LEMMA PhaseInvStep ==
  ASSUME PhaseInv, [ShutdownNext]_processVars
  PROVE  PhaseInv'
  <1> USE DEF PhaseInv, PhaseNames
  <1>1. CASE PreShutdownHooks
    BY <1>1 DEF PreShutdownHooks, Mark
  <1>2. CASE StopNewRequests
    BY <1>2 DEF StopNewRequests, Mark
  <1>3. CASE WaitForBalancers
    BY <1>3 DEF WaitForBalancers, Mark
  <1>4. CASE TransferLeadership
    BY <1>4 DEF TransferLeadership, Mark
  <1>5. CASE AwaitNewLeader
    BY <1>5 DEF AwaitNewLeader, Mark
  <1>6. CASE DrainConnections
    BY <1>6 DEF DrainConnections, Mark
  <1>7. CASE FinishReconciliations
    BY <1>7 DEF FinishReconciliations, Mark
  <1>8. CASE StopControllers
    BY <1>8 DEF StopControllers, Mark
  <1>9. CASE CleanupResources
    BY <1>9 DEF CleanupResources, Mark
  <1>10. CASE PostShutdownHooks
    BY <1>10 DEF PostShutdownHooks, Mark
  <1>11. CASE ForceShutdown
    BY <1>11 DEF ForceShutdown
  <1>12. CASE InitiateShutdown \/ DeadlinePasses \/ Exit
    BY <1>12 DEF InitiateShutdown, DeadlinePasses, Exit
  <1>13. CASE UNCHANGED shutdownVars
    BY <1>13 DEF shutdownVars
  <1>14. QED
    BY <1>1, <1>2, <1>3, <1>4, <1>5, <1>6, <1>7, <1>8, <1>9, <1>10, <1>11, <1>12, <1>13
       DEF ShutdownNext, ShutdownStep, processVars

\* Wherever the deadline strikes, a shutdown that has ended is reported as
\* completed, save while it waited for the load balancers.  (IsCompleted)
THEOREM CompletionAlwaysReported == ShutdownSpec => []CompletionReported
  <1>1. PhaseInv => CompletionReported
    BY DEF PhaseInv, CompletionReported, IsCompleted
  <1>2. QED
    BY <1>1, PhaseInvInit, PhaseInvStep, PTL DEF ShutdownSpec

\* On every path, forced ones included, the replica leaves the load balancers
\* before its controllers stop, and they stop before its liveness probe fails.
\* (stopNewRequests, forceStopComponents, cleanupResources)
THEOREM AlwaysLeavesInOrder == ShutdownSpec => []LeavesInOrder
  <1>1. PhaseInv => LeavesInOrder
    BY DEF PhaseInv, LeavesInOrder, Readyz, Healthz
  <1>2. QED
    BY <1>1, PhaseInvInit, PhaseInvStep, PTL DEF ShutdownSpec

-----------------------------------------------------------------------------
(* Configuration.                                                          *)

Base == Over(DefaultConfiguration, file.gives)

\* What the variables that have been looked at make of a configuration.
Applied(base, done) ==
  [s \in Settings |-> IF s \in done /\ env[s] # "unset" THEN env[s] ELSE base[s]]

Readable == file.state \in {"none", "readable"}
NoneGarbled == \A s \in Settings : env[s] # "garbled"

\* Where a load is, what it holds is determined by the sources: the strict
\* loader has applied the variables that are not pending any more, none of them
\* garbled, and the lenient one all or none.
LoadInv ==
  /\ loader \in {"strict", "lenient"}
  /\ \A s \in Settings \ Known(loader) : env[s] = "unset"
  /\ file.state \in {"none", "missing"} => file.gives = Nothing
  /\ load \in {"idle", "file", "environment", "loaded", "failed"}
  /\ load = "file" => config = DefaultConfiguration
  /\ load = "environment" =>
       /\ Readable
       /\ pending \subseteq {s \in Known(loader) : env[s] # "unset"}
       /\ loader = "strict" =>
            /\ config = Applied(Base, Settings \ pending)
            /\ \A s \in Settings \ pending : env[s] # "garbled"
       /\ loader = "lenient" =>
            \/ config = Base /\ pending = {s \in Known(loader) : env[s] # "unset"}
            \/ config = Merged /\ pending = {}
  /\ LoadAgrees

\* The environment has no variable for a setting the loader does not know, and
\* a file that is not read gives nothing.
LEMMA LoadInvInit == ConfigInit => LoadInv
  <1> SUFFICES ASSUME ConfigInit PROVE LoadInv
    OBVIOUS
  <1>1. \A s \in Settings \ Known(loader) : env[s] = "unset"
    BY DEF ConfigInit, Given
  <1>2. file.state \in {"none", "missing"} => file.gives = Nothing
    BY DEF ConfigInit, Files, Unread
  <1>3. QED
    BY <1>1, <1>2 DEF ConfigInit, LoadInv, LoadAgrees

\* A load that has looked at everything holds what the sources amount to.
LEMMA AllLookedAt ==
  ASSUME LoadInv, load = "environment", pending = {}
  PROVE  config = Merged /\ (loader = "strict" => NoneGarbled)
  <1> USE DEF Base, Merged, Over, Parsed, Applied
  <1>1. CASE loader = "strict"
    <2>1. NoneGarbled
      BY <1>1 DEF LoadInv, NoneGarbled
    <2>2. Applied(Base, Settings \ {}) = Merged
      BY <2>1 DEF NoneGarbled
    <2>3. QED
      BY <1>1, <2>1, <2>2 DEF LoadInv
  <1>2. CASE loader = "lenient" /\ config # Merged
    <2>1. config = Base /\ {s \in Known(loader) : env[s] # "unset"} = {}
      BY <1>2 DEF LoadInv
    <2>2. \A s \in Settings : env[s] = "unset"
      BY <2>1 DEF LoadInv
    <2>3. Base = Merged
      BY <2>2
    <2>4. QED
      BY <2>1, <2>3, <1>2
  <1>3. CASE loader = "lenient" /\ config = Merged
    BY <1>3
  <1>4. QED
    BY <1>1, <1>2, <1>3 DEF LoadInv

\* One case per step of a load; saving and editing end it, wiring reads it.
LEMMA LoadInvStep ==
  ASSUME LoadInv, [ConfigNext]_configVars
  PROVE  LoadInv'
  <1>0. Known(loader) \subseteq Settings
    BY DEF Known, Settings
  <1>1. CASE LoadConfiguration
    BY <1>1 DEF LoadConfiguration, LoadInv, LoadAgrees, Known
  <1>2. CASE LoadFromFile
    <2> USE <1>2 DEF LoadFromFile
    <2>0. UNCHANGED <<loader, file, env>> /\ config = DefaultConfiguration
      BY DEF LoadInv
    <2>1. CASE file.state \in {"missing", "malformed"}
      BY <2>0, <2>1 DEF LoadInv, LoadAgrees, Known
    <2>2. CASE file.state \in {"none", "readable"}
      <3>1. config' = Base /\ load' = "environment"
        <4>1. CASE file.state = "none"
          BY <2>0, <4>1 DEF LoadInv, Base, Over, Nothing, DefaultConfiguration
        <4>2. CASE file.state = "readable"
          BY <2>0, <4>2 DEF Base
        <4>3. QED
          BY <2>2, <4>1, <4>2
      <3>2. \A s \in Settings \ pending' : env[s] = "unset"
        BY DEF LoadInv
      <3>3. Base = Applied(Base, Settings \ pending')
        BY <3>2 DEF Base, Over, Applied
      <3>4. Base' = Base /\ (Applied(Base, Settings \ pending))' = Applied(Base, Settings \ pending')
        BY <2>0 DEF Base, Applied
      <3>5. pending' = {s \in Known(loader) : env[s] # "unset"}
        OBVIOUS
      <3>6. QED
        BY <2>0, <2>2, <3>1, <3>2, <3>3, <3>4, <3>5 DEF LoadInv, LoadAgrees, Known, Readable
    <2>3. QED
      BY <2>1, <2>2
  <1>3. CASE LoadFromEnvironment
    <2>1. PICK s \in pending : SetFromEnvironment(s) /\ pending' = pending \ {s}
      BY <1>3 DEF LoadFromEnvironment
    <2>2. /\ load = "environment" /\ loader = "strict"
          /\ UNCHANGED <<loader, file, env>>
          /\ s \in Settings /\ env[s] # "unset"
          /\ pending \subseteq Settings
      BY <1>0, <1>3, <2>1 DEF LoadFromEnvironment, LoadInv
    <2>3. CASE env[s] = "garbled"
      BY <2>1, <2>2, <2>3 DEF SetFromEnvironment, LoadInv, LoadAgrees, Known
    <2>4. CASE env[s] # "garbled"
      <3>1. config' = [config EXCEPT ![s] = env[s]] /\ load' = "environment"
        BY <2>1, <2>2, <2>4 DEF SetFromEnvironment
      <3>2. (Settings \ pending) \cup {s} = Settings \ pending'
        BY <2>1, <2>2
      <3>3. config' = Applied(Base, Settings \ pending')
        <4>1. config = Applied(Base, Settings \ pending)
          BY <2>2 DEF LoadInv
        <4>2. [Applied(Base, Settings \ pending) EXCEPT ![s] = env[s]]
                = Applied(Base, (Settings \ pending) \cup {s})
          BY <2>2 DEF Applied
        <4>3. QED
          BY <3>1, <3>2, <4>1, <4>2
      <3>4. Applied(Base, Settings \ pending') = (Applied(Base, Settings \ pending))'
        BY <2>2 DEF Base, Applied
      <3>5. \A q \in Settings \ pending' : env[q] # "garbled"
        BY <2>2, <2>4, <3>2 DEF LoadInv
      <3>6. pending' \subseteq {q \in Known(loader) : env[q] # "unset"}
        BY <2>1, <2>2 DEF LoadInv
      <3>7. QED
        BY <2>2, <3>1, <3>3, <3>4, <3>5, <3>6 DEF LoadInv, LoadAgrees, Known, Readable
    <2>5. QED
      BY <2>3, <2>4
  <1>4. CASE LoadFromEnv
    <2>1. /\ load = "environment" /\ loader = "lenient" /\ config = Base
          /\ UNCHANGED <<loader, file, env, load>> /\ pending' = {}
      BY <1>4 DEF LoadFromEnv, LoadInv
    <2>2. config' = Merged /\ Merged' = Merged
      BY <1>4, <2>1 DEF LoadFromEnv, Merged, Base
    <2>3. QED
      BY <2>1, <2>2 DEF LoadInv, LoadAgrees, Known, Readable
  <1>5. CASE ValidateConfiguration
    <2>1. UNCHANGED <<loader, file, env, config, pending>> /\ load = "environment" /\ pending = {}
      BY <1>5 DEF ValidateConfiguration
    <2>2. config = Merged /\ (loader = "strict" => NoneGarbled)
      BY <2>1, AllLookedAt
    <2>3. Merged' = Merged /\ (Valid(Merged))' = Valid(Merged)
      BY <2>1 DEF Merged, Valid
    <2>4. LoadAgrees'
      BY <1>5, <2>1, <2>2, <2>3
         DEF ValidateConfiguration, LoadAgrees, NoneGarbled, LoadInv, Readable
    <2>5. load' \in {"loaded", "failed"}
      BY <1>5 DEF ValidateConfiguration
    <2>6. QED
      BY <2>1, <2>4, <2>5 DEF LoadInv, Known
  <1>6. CASE SaveToFile \/ EditFile
    <2>1. load' = "idle" /\ UNCHANGED <<loader, env>>
      BY <1>6 DEF SaveToFile, EditFile
    <2>2. file'.state \in {"none", "missing"} => file'.gives = Nothing
      BY <1>6 DEF SaveToFile, EditFile, Unread
    <2>3. QED
      BY <2>1, <2>2 DEF LoadInv, LoadAgrees, Known
  <1>7. CASE UNCHANGED <<loader, file, env, load, config, pending>>
    BY <1>7 DEF LoadInv, LoadAgrees, Known, Readable, Base, Merged, Applied, Valid
  <1>8. QED
    BY <1>1, <1>2, <1>3, <1>4, <1>5, <1>6, <1>7
       DEF ConfigNext, NewOperator, SetupControllers, configVars

\* However often a loader is used, whatever it held or saved before, and in
\* whichever order the variables are looked at: it loads exactly what its
\* sources amount to.
THEOREM AlwaysLoadAgrees == ConfigSpec => []LoadAgrees
  <1>1. LoadInv => LoadAgrees
    BY DEF LoadInv
  <1>2. QED
    BY <1>1, LoadInvInit, LoadInvStep, PTL DEF ConfigSpec

\* The cooldown is never anything but a default, a good or a bad value, and what
\* was loaded was found valid.
UsableInv ==
  /\ loader \in {"strict", "lenient"}
  /\ env["cooldown"] \in EnvValues("cooldown")
  /\ file.gives["cooldown"] \in {"unset", "default", "good", "bad"}
  /\ DOMAIN config = Settings
  /\ config["cooldown"] \in {"default", "good", "bad"}
  /\ load = "loaded" => Valid(config)
  /\ RunsUsable

\* The sources give a cooldown of one of the known values, or none.
LEMMA UsableInvInit == ConfigInit => UsableInv
  <1> SUFFICES ASSUME ConfigInit PROVE UsableInv
    OBVIOUS
  <1>1. "cooldown" \in Settings
    BY DEF Settings, Numbers
  <1>2. env["cooldown"] \in EnvValues("cooldown")
    BY <1>1 DEF ConfigInit, Given, EnvValues, Flags, Numbers
  <1>3. file.gives["cooldown"] \in {"unset", "default", "good", "bad"}
    <2>1. CASE file \in Unread
      BY <1>1, <2>1 DEF Unread, Nothing
    <2>2. CASE file \notin Unread
      <3>1. file.gives \in Given(Known(loader), FileValues, MaxInFile)
        BY <2>2 DEF ConfigInit, Files
      <3>2. FileValues("cooldown") = {"unset", "good", "bad"}
        BY DEF FileValues, Flags
      <3>3. QED
        BY <1>1, <3>1, <3>2 DEF Given
    <2>3. QED
      BY <2>1, <2>2
  <1>4. QED
    BY <1>1, <1>2, <1>3 DEF ConfigInit, UsableInv, DefaultConfiguration, RunsUsable, Idle

\* The operator loses the cooldown and falls back to the default, the manager
\* passes on the one that was validated; the port was validated unless the
\* webhook is off, and the operator's variables can only turn it off.
LEMMA UsableInvStep ==
  ASSUME UsableInv, LoadInv, [ConfigNext]_configVars
  PROVE  UsableInv'
  <1>0. "cooldown" \in Settings /\ EnvValues("cooldown") = {"unset", "good", "bad", "garbled"}
    BY DEF Settings, Numbers, Flags, EnvValues
  <1>1. CASE LoadConfiguration
    BY <1>0, <1>1 DEF LoadConfiguration, UsableInv, DefaultConfiguration, RunsUsable, Valid
  <1>2. CASE LoadFromFile
    <2>1. load' # "loaded" /\ UNCHANGED <<loader, file, env, running>>
      BY <1>2 DEF LoadFromFile
    <2>2. DOMAIN config' = Settings /\ config'["cooldown"] \in {"default", "good", "bad"}
      BY <1>0, <1>2 DEF LoadFromFile, Over, UsableInv
    <2>3. QED
      BY <2>1, <2>2 DEF UsableInv, RunsUsable
  <1>3. CASE LoadFromEnvironment
    <2>1. PICK s \in pending : SetFromEnvironment(s)
      BY <1>3 DEF LoadFromEnvironment
    <2>2. /\ load' # "loaded" /\ UNCHANGED <<loader, file, env, running>>
          /\ env[s] # "unset"
      BY <1>3, <2>1 DEF LoadFromEnvironment, SetFromEnvironment, LoadInv
    <2>3. DOMAIN config' = Settings
      BY <2>1 DEF SetFromEnvironment, UsableInv
    <2>4. config'["cooldown"] \in {"default", "good", "bad"}
      BY <1>0, <2>1, <2>2 DEF SetFromEnvironment, UsableInv
    <2>5. QED
      BY <2>2, <2>3, <2>4 DEF UsableInv, RunsUsable
  <1>4. CASE LoadFromEnv
    <2>1. load' # "loaded" /\ UNCHANGED <<loader, file, env, running>>
      BY <1>4 DEF LoadFromEnv
    <2>2. DOMAIN config' = Settings /\ config'["cooldown"] \in {"default", "good", "bad"}
      BY <1>0, <1>4 DEF LoadFromEnv, Over, Parsed, UsableInv
    <2>3. QED
      BY <2>1, <2>2 DEF UsableInv, RunsUsable
  <1>5. CASE ValidateConfiguration
    BY <1>5 DEF ValidateConfiguration, UsableInv, RunsUsable, Valid
  <1>6. CASE SaveToFile
    BY <1>6 DEF SaveToFile, UsableInv, RunsUsable
  <1>7. CASE EditFile
    BY <1>0, <1>7 DEF EditFile, UsableInv, RunsUsable, Unread, Nothing
  <1>8. CASE NewOperator
    <2>1. PICK c \in ConfigFromEnv(OperatorConfig) :
            running' = [up |-> TRUE, via |-> "operator",
                        reconcilers |-> OperatorControllers(c),
                        webhook |-> c["webhook"] # "flipped", port |-> c["port"]]
      BY <1>8 DEF NewOperator
    <2>2. PICK set \in SUBSET {"namespace", "readOnly", "webhook"} :
            c = [s \in DOMAIN OperatorConfig |->
                   IF s \in set THEN (IF s \in Flags THEN "flipped" ELSE "good")
                   ELSE OperatorConfig[s]]
      BY <2>1 DEF ConfigFromEnv
    <2>3. /\ {"webhook", "port"} \subseteq DOMAIN OperatorConfig
          /\ OperatorConfig["webhook"] = config["webhook"]
          /\ OperatorConfig["port"] = config["port"]
      BY DEF OperatorConfig, Settings, Flags, Numbers
    <2>4. c["port"] = config["port"] /\ c["webhook"] \in {"flipped", config["webhook"]}
      BY <2>2, <2>3 DEF Flags
    <2>5. config["webhook"] = "flipped" \/ config["port"] # "bad"
      BY <1>8 DEF NewOperator, UsableInv, Valid, LenientlyValid
    <2>6. OperatorControllers(c).cooldown = "default"
      BY DEF OperatorControllers, GetCooldownPeriod
    <2>7. RunsUsable'
      BY <2>1, <2>4, <2>5, <2>6 DEF RunsUsable
    <2>8. QED
      BY <1>8, <2>7 DEF NewOperator, UsableInv, Valid
  <1>9. CASE SetupControllers
    <2>1. PICK enabled : running' = [up |-> TRUE, via |-> "manager",
                                     reconcilers |-> ManagerControllers(enabled),
                                     webhook |-> FALSE, port |-> config["port"]]
      BY <1>9 DEF SetupControllers
    <2>2. ManagerControllers(enabled).cooldown \in {"default", "good"}
      BY DEF ManagerControllers, GetCooldownPeriod, WithDefaults, UsableInv
    <2>3. RunsUsable'
      BY <2>1, <2>2 DEF RunsUsable
    <2>4. QED
      BY <1>9, <2>3 DEF SetupControllers, UsableInv, Valid
  <1>10. CASE UNCHANGED configVars
    BY <1>10 DEF configVars, UsableInv, RunsUsable, Valid
  <1>11. QED
    BY <1>1, <1>2, <1>3, <1>4, <1>5, <1>6, <1>7, <1>8, <1>9, <1>10 DEF ConfigNext

\* Whichever way the reconcilers are set up, they have a cooldown, and a webhook
\* that is registered has a positive port.
THEOREM AlwaysRunsUsable == ConfigSpec => []RunsUsable
  <1>1. UsableInv => RunsUsable
    BY DEF UsableInv
  <1>2. QED
    BY <1>1, UsableInvInit, UsableInvStep, LoadInvInit, LoadInvStep, PTL DEF ConfigSpec
-----------------------------------------------------------------------------
(* The node classifier.                                                    *)

\* The classifier would say this of the node now.
Current(n, type) ==
  nodeLabels[n] # Gone /\ type = ClassifyNode(nodeLabels[n], selector)

Stale(n) == nodeTypes[n] # "missing" /\ ~Current(n, nodeTypes[n])

LookupStates ==
  [pc      : {"idle", "refresh", "listed", "read", "missing", "store"},
   seen    : [NodeNames -> Labellings \cup {Gone}] \cup {<<>>},
   missing : SUBSET NodeNames,
   name    : NodeNames \cup {"none"},
   type    : {"spot", "onDemand", "unknown"},
   age     : 0 .. LookupTime]

ClassifierTypes ==
  /\ nodeLabels \in [NodeNames -> Labellings \cup {Gone}]
  /\ settled \in [NodeNames -> 0 .. Settled]
  /\ DOMAIN nodeTypes = NodeNames
  /\ refreshAge \in 0 .. CacheRefreshInterval
  /\ lookup \in [Lookups -> LookupStates]
  /\ \A t \in Lookups : lookup[t].pc = "store" => lookup[t].name \in NodeNames

\* Where a lookup's knowledge of a node is not the node's present state, that
\* changed while the lookup was under way.
LookupsLag ==
  \A t \in Lookups :
    /\ lookup[t].pc = "listed" =>
         \A n \in NodeNames :
           lookup[t].seen[n] # nodeLabels[n] => settled[n] <= lookup[t].age
    /\ lookup[t].pc = "store" /\ ~Current(lookup[t].name, lookup[t].type) =>
         settled[lookup[t].name] <= lookup[t].age

\* A stale entry of a cache that has not expired is no older than the last
\* refresh and one lookup.
CacheLags ==
  \A n \in NodeNames :
    Stale(n) /\ refreshAge < CacheRefreshInterval =>
      settled[n] <= refreshAge + LookupTime

\* A lookup that is about to read found the cache not expired, or refreshed it.
ReadsLag ==
  \A t \in Lookups, n \in NodeNames :
    lookup[t].pc = "read" /\ Stale(n) =>
      settled[n] <= CacheRefreshInterval + LookupTime + lookup[t].age

ClassifierInv == ClassifierTypes /\ LookupsLag /\ CacheLags /\ ReadsLag

\* A verdict is one of three.
LEMMA VerdictType ==
  ASSUME NEW labels, NEW c
  PROVE  ClassifyNode(labels, c) \in {"spot", "onDemand", "unknown"}
  BY DEF ClassifyNode, ByCloudProvider

\* The bounds are numbers.
LEMMA ClassifierNumbers ==
  /\ CacheRefreshInterval \in Nat /\ LookupTime \in Nat /\ Settled \in Nat
  /\ Settled > CacheRefreshInterval + LookupTime + LookupTime
  BY ClassifierAssumption DEF Settled

\* The cache is empty and no lookup is under way.
LEMMA ClassifierInvInit == ClassifierInit => ClassifierInv
  <1> SUFFICES ASSUME ClassifierInit PROVE ClassifierInv
    OBVIOUS
  <1>1. IdleLookup \in LookupStates /\ IdleLookup.pc = "idle"
    BY ClassifierNumbers DEF IdleLookup, LookupStates
  <1>2. ClassifierTypes
    BY <1>1, ClassifierNumbers DEF ClassifierInit, ClassifierTypes
  <1>3. QED
    BY <1>1, <1>2
       DEF ClassifierInit, ClassifierInv, LookupsLag, CacheLags, ReadsLag, Stale

\* A lookup that moves to a well-formed state leaves the others alone.
LEMMA LookupMoves ==
  ASSUME ClassifierTypes, NEW t \in Lookups, NEW l \in LookupStates,
         l.pc = "store" => l.name \in NodeNames,
         lookup' = [lookup EXCEPT ![t] = l]
  PROVE  /\ lookup' \in [Lookups -> LookupStates]
         /\ \A u \in Lookups : lookup'[u].pc = "store" => lookup'[u].name \in NodeNames
  BY DEF ClassifierTypes

\* Where a goroutine may be after a step of its own, and what it knows there.
LEMMA LookupStepTypes ==
  ASSUME ClassifierTypes, NEW t \in Lookups, Begin(t) \/ LookupStep(t)
  PROVE  \E l \in LookupStates :
           /\ lookup' = [lookup EXCEPT ![t] = l]
           /\ l.pc = "listed" => l.seen = nodeLabels
           /\ l.pc = "store" => l.name \in NodeNames /\ Current(l.name, l.type)
           /\ l.pc = "read" => refreshAge < CacheRefreshInterval \/ ClassifyAll(t)
  <1> DEFINE Moves(l) ==
        /\ l \in LookupStates
        /\ lookup' = [lookup EXCEPT ![t] = l]
        /\ l.pc = "listed" => l.seen = nodeLabels
        /\ l.pc = "store" => l.name \in NodeNames /\ Current(l.name, l.type)
        /\ l.pc = "read" => refreshAge < CacheRefreshInterval \/ ClassifyAll(t)
  <1> DEFINE l == lookup[t]
  <1>0. l \in LookupStates
    BY DEF ClassifierTypes
  <1>1. CASE Begin(t)
    <2>1. Moves([l EXCEPT !.pc = "refresh"])
      BY <1>0, <1>1 DEF Begin, LookupStates
    <2>2. QED
      BY <2>1
  <1>2. Moves(IdleLookup) \/ lookup' # [lookup EXCEPT ![t] = IdleLookup]
    BY ClassifierNumbers DEF IdleLookup, LookupStates
  <1>3. CASE RefreshCache(t)
    <2>1. CASE lookup' = [lookup EXCEPT ![t].pc = "read"]
      <3>1. Moves([l EXCEPT !.pc = "read"])
        <4>1. refreshAge < CacheRefreshInterval
          <5>1. [lookup EXCEPT ![t].pc = "read"][t].pc = "read"
            BY <1>0 DEF ClassifierTypes, LookupStates
          <5>2. /\ [lookup EXCEPT ![t].pc = "listed", ![t].seen = nodeLabels][t].pc = "listed"
                /\ [lookup EXCEPT ![t] = IdleLookup][t].pc = "idle"
            BY <1>0 DEF ClassifierTypes, LookupStates, IdleLookup
          <5>3. QED
            BY <1>3, <2>1, <5>1, <5>2 DEF RefreshCache
        <4>2. QED
          BY <1>0, <2>1, <4>1 DEF LookupStates
      <3>2. QED
        BY <3>1
    <2>2. CASE lookup' = [lookup EXCEPT ![t].pc = "listed", ![t].seen = nodeLabels]
      <3>1. Moves([l EXCEPT !.pc = "listed", !.seen = nodeLabels])
        BY <1>0, <2>2 DEF LookupStates, ClassifierTypes
      <3>2. QED
        BY <3>1
    <2>3. QED
      BY <1>2, <1>3, <2>1, <2>2 DEF RefreshCache
  <1>4. CASE ClassifyAll(t)
    <2>1. Moves([l EXCEPT !.pc = "read", !.seen = <<>>])
      BY <1>0, <1>4 DEF ClassifyAll, LookupStates
    <2>2. QED
      BY <2>1
  <1>5. CASE ReadCache(t)
    <2> DEFINE S == {n \in NodeNames : nodeTypes[n] = "missing"}
    <2>1. Moves([l EXCEPT !.pc = "missing", !.missing = S])
      BY <1>0, <1>5 DEF ReadCache, LookupStates
    <2>2. QED
      BY <2>1
  <1>6. CASE ReadByType(t) \/ Return(t)
    BY <1>2, <1>6 DEF ReadByType, Return
  <1>7. CASE GetMissing(t)
    <2>1. PICK n \in l.missing :
            \/ lookup' = [lookup EXCEPT ![t].missing = @ \ {n}]
            \/ /\ nodeLabels[n] # Gone
               /\ lookup' = [lookup EXCEPT ![t].pc = "store", ![t].name = n,
                               ![t].type = ClassifyNode(nodeLabels[n], selector)]
      BY <1>7 DEF GetMissing
    <2>2. n \in NodeNames /\ l.pc = "missing"
      BY <1>0, <1>7 DEF LookupStates, GetMissing
    <2>3. CASE lookup' = [lookup EXCEPT ![t].missing = @ \ {n}]
      <3>1. Moves([l EXCEPT !.missing = @ \ {n}])
        BY <1>0, <2>2, <2>3 DEF LookupStates
      <3>2. QED
        BY <3>1
    <2>4. CASE /\ nodeLabels[n] # Gone
               /\ lookup' = [lookup EXCEPT ![t].pc = "store", ![t].name = n,
                               ![t].type = ClassifyNode(nodeLabels[n], selector)]
      <3>1. PICK v \in {"spot", "onDemand", "unknown"} : v = ClassifyNode(nodeLabels[n], selector)
        BY VerdictType
      <3>2. Moves([l EXCEPT !.pc = "store", !.name = n, !.type = v])
        BY <1>0, <2>2, <2>4, <3>1 DEF LookupStates, Current
      <3>3. QED
        BY <3>2
    <2>5. QED
      BY <2>1, <2>3, <2>4
  <1>8. CASE StoreMissing(t)
    <2>1. Moves([l EXCEPT !.pc = "missing", !.missing = @ \ {l.name},
                          !.name = "none", !.type = "unknown"])
      BY <1>0, <1>8 DEF StoreMissing, LookupStates
    <2>2. QED
      BY <2>1
  <1>9. QED
    BY <1>1, <1>3, <1>4, <1>5, <1>6, <1>7, <1>8 DEF LookupStep

\* Every step keeps the types.
LEMMA ClassifierTypesStep ==
  ASSUME ClassifierTypes, [ClassifierNext]_classifierVars
  PROVE  ClassifierTypes'
  <1> USE ClassifierNumbers DEF ClassifierTypes
  <1>1. ASSUME NEW t \in Lookups, Begin(t) \/ LookupStep(t)
        PROVE  ClassifierTypes'
    <2>1. PICK l \in LookupStates : /\ lookup' = [lookup EXCEPT ![t] = l]
                                    /\ l.pc = "store" => l.name \in NodeNames
      BY <1>1, LookupStepTypes
    <2>2. UNCHANGED nodeVars
      BY <1>1 DEF Begin, LookupStep, RefreshCache, ClassifyAll, ReadCache, ReadByType,
           GetMissing, StoreMissing, Return
    <2>3. DOMAIN nodeTypes' = NodeNames /\ refreshAge' \in 0 .. CacheRefreshInterval
      <3>1. CASE ClassifyAll(t) \/ StoreMissing(t)
        BY <3>1 DEF ClassifyAll, StoreMissing
      <3>2. CASE UNCHANGED <<nodeTypes, refreshAge>>
        BY <3>2
      <3>3. QED
        BY <1>1, <3>1, <3>2 DEF Begin, LookupStep, RefreshCache, ReadCache, ReadByType,
             GetMissing, Return, cacheVars
    <2>4. QED
      BY <2>1, <2>2, <2>3, LookupMoves DEF nodeVars
  <1>2. CASE UpdateSelectors
    BY <1>2 DEF UpdateSelectors, nodeVars, cacheVars
  <1>3. ASSUME NEW n \in NodeNames, ChangeNode(n)
        PROVE  ClassifierTypes'
    BY <1>3 DEF ChangeNode, cacheVars
  <1>4. CASE ClassifierTick
    <2>1. ASSUME NEW t \in Lookups PROVE lookup'[t] \in LookupStates
      <3>1. CASE lookup[t].pc = "idle"
        BY <1>4, <3>1 DEF ClassifierTick
      <3>2. CASE lookup[t].pc # "idle"
        <4>1. lookup[t].age + 1 \in 0 .. LookupTime
          BY <1>4, <3>2 DEF ClassifierTick, LookupStates
        <4>2. lookup'[t] = [lookup[t] EXCEPT !.age = lookup[t].age + 1]
          BY <1>4, <3>2 DEF ClassifierTick
        <4>3. lookup[t] \in LookupStates
          OBVIOUS
        <4>4. QED
          BY <4>1, <4>2, <4>3 DEF LookupStates
      <3>3. QED
        BY <3>1, <3>2
    <2>2. \A t \in Lookups : lookup'[t].pc = lookup[t].pc /\ lookup'[t].name = lookup[t].name
      BY <1>4 DEF ClassifierTick, LookupStates
    <2>3. lookup' \in [Lookups -> LookupStates]
      BY <1>4, <2>1 DEF ClassifierTick
    <2>4. settled' \in [NodeNames -> 0 .. Settled] /\ refreshAge' \in 0 .. CacheRefreshInterval
      BY <1>4 DEF ClassifierTick
    <2>5. QED
      BY <1>4, <2>2, <2>3, <2>4 DEF ClassifierTick
  <1>5. CASE UNCHANGED classifierVars
    BY <1>5 DEF classifierVars, nodeVars, cacheVars, selectorVars
  <1>6. QED
    BY <1>1, <1>2, <1>3, <1>4, <1>5 DEF ClassifierNext
\* Steps of a lookup.  The cluster and the configuration stay, so what was
\* current still is.
LEMMA LookupKeepsInv ==
  ASSUME ClassifierInv, NEW t \in Lookups, Begin(t) \/ LookupStep(t)
  PROVE  LookupsLag' /\ CacheLags' /\ ReadsLag'
  <1>1. UNCHANGED <<nodeLabels, settled, selector>>
    BY DEF Begin, LookupStep, RefreshCache, ClassifyAll, ReadCache, ReadByType,
         GetMissing, StoreMissing, Return, nodeVars, selectorVars
  <1>2. PICK l \in LookupStates :
           /\ lookup' = [lookup EXCEPT ![t] = l]
           /\ l.pc = "listed" => l.seen = nodeLabels
           /\ l.pc = "store" => l.name \in NodeNames /\ Current(l.name, l.type)
           /\ l.pc = "read" => refreshAge < CacheRefreshInterval \/ ClassifyAll(t)
    BY LookupStepTypes DEF ClassifierInv
  <1>3. /\ lookup'[t] = l
        /\ \A u \in Lookups \ {t} : lookup'[u] = lookup[u]
    BY <1>2 DEF ClassifierInv, ClassifierTypes
  <1>4. /\ lookup \in [Lookups -> LookupStates]
        /\ settled \in [NodeNames -> 0 .. Settled]
        /\ refreshAge \in 0 .. CacheRefreshInterval
        /\ DOMAIN nodeTypes = NodeNames
        /\ \A u \in Lookups : lookup[u].age \in Nat /\ lookup[u].age <= LookupTime
    BY ClassifierNumbers DEF ClassifierInv, ClassifierTypes, LookupStates
  <1>5. LookupsLag'
    <2>1. ASSUME NEW u \in Lookups
          PROVE  /\ lookup'[u].pc = "listed" =>
                      \A n \in NodeNames :
                        lookup'[u].seen[n] # nodeLabels'[n] => settled'[n] <= lookup'[u].age
                 /\ lookup'[u].pc = "store" /\ ~Current(lookup[u].name, lookup[u].type)' =>
                      settled'[lookup'[u].name] <= lookup'[u].age
      <3>1. CASE u = t
        BY <1>1, <1>2, <1>3, <3>1 DEF Current
      <3>2. CASE u # t
        BY <1>1, <1>3, <3>2 DEF Current, ClassifierInv, LookupsLag
      <3>3. QED
        BY <3>1, <3>2
    <2>2. QED
      BY <2>1 DEF LookupsLag
  <1>6. CASE ClassifyAll(t)
    <2>1. \A n \in NodeNames : Stale(n)' => settled[n] <= lookup[t].age
      BY <1>1, <1>4, <1>6 DEF ClassifyAll, Stale, Current, ClassifierInv, LookupsLag
    <2>2. \A n \in NodeNames : Stale(n)' => settled'[n] <= LookupTime
      BY <1>1, <1>4, <2>1, ClassifierNumbers
    <2>3. refreshAge' = 0 /\ \A u \in Lookups : lookup'[u].age \in Nat
      BY <1>3, <1>4, <1>6 DEF ClassifyAll, LookupStates
    <2>4. QED
      BY <1>1, <1>4, <1>5, <2>2, <2>3, ClassifierNumbers DEF CacheLags, ReadsLag
  <1>7. CASE StoreMissing(t)
    <2>1. \A n \in NodeNames : Stale(n)' => Stale(n) \/ settled[n] <= LookupTime
      <3>1. lookup[t].pc = "store" /\ lookup[t].name \in NodeNames
        BY <1>7 DEF StoreMissing, ClassifierInv, ClassifierTypes
      <3>2. nodeTypes' = [nodeTypes EXCEPT ![lookup[t].name] = lookup[t].type]
        BY <1>7 DEF StoreMissing
      <3>3. Current(lookup[t].name, lookup[t].type) \/ settled[lookup[t].name] <= LookupTime
        BY <1>4, <3>1, ClassifierNumbers DEF ClassifierInv, LookupsLag
      <3>4. QED
        BY <1>1, <1>4, <3>1, <3>2, <3>3 DEF Stale, Current
    <2>2. refreshAge' = refreshAge
      BY <1>7 DEF StoreMissing
    <2>3. \A u \in Lookups : /\ lookup'[u].age \in Nat
                             /\ lookup'[u].pc = "read" => lookup'[u] = lookup[u]
      BY <1>3, <1>4, <1>7 DEF StoreMissing, LookupStates
    <2>4. QED
      BY <1>1, <1>4, <1>5, <2>1, <2>2, <2>3, ClassifierNumbers
         DEF CacheLags, ReadsLag, ClassifierInv
  <1>8. CASE ~ClassifyAll(t) /\ ~StoreMissing(t)
    <2>1. UNCHANGED <<nodeTypes, refreshAge>>
      BY <1>8 DEF Begin, LookupStep, RefreshCache, ReadCache, ReadByType, GetMissing,
           Return, cacheVars
    <2>2. \A n \in NodeNames : Stale(n)' = Stale(n)
      BY <1>1, <2>1 DEF Stale, Current
    <2>3. l.pc = "read" => refreshAge < CacheRefreshInterval
      BY <1>2, <1>8
    <2>4. l.age \in Nat
      BY DEF LookupStates
    <2>5. QED
      BY <1>1, <1>3, <1>4, <1>5, <2>1, <2>2, <2>3, <2>4, ClassifierNumbers
         DEF CacheLags, ReadsLag, ClassifierInv
  <1>9. QED
    BY <1>6, <1>7, <1>8

\* The clock: a lookup under way grows older with everything else.
LEMMA ClassifierTickKeepsInv ==
  ASSUME ClassifierInv, ClassifierTick
  PROVE  LookupsLag' /\ CacheLags' /\ ReadsLag'
  <1>1. UNCHANGED <<nodeLabels, selector, nodeTypes>>
    BY DEF ClassifierTick, selectorVars
  <1>2. /\ settled \in [NodeNames -> 0 .. Settled]
        /\ refreshAge \in 0 .. CacheRefreshInterval
        /\ \A u \in Lookups : lookup[u].age \in Nat
    BY ClassifierNumbers DEF ClassifierInv, ClassifierTypes, LookupStates
  <1>3. \A n \in NodeNames : settled'[n] \in Nat /\ settled'[n] <= settled[n] + 1
    BY <1>2, ClassifierNumbers DEF ClassifierTick
  <1>4. \A u \in Lookups :
          /\ lookup'[u].pc = lookup[u].pc /\ lookup'[u].seen = lookup[u].seen
          /\ lookup'[u].name = lookup[u].name /\ lookup'[u].type = lookup[u].type
          /\ lookup[u].pc # "idle" => lookup'[u].age = lookup[u].age + 1
    BY <1>2 DEF ClassifierTick, ClassifierInv, ClassifierTypes, LookupStates
  <1>5. LookupsLag'
    BY <1>1, <1>2, <1>3, <1>4 DEF LookupsLag, Current, ClassifierInv, ClassifierTypes
  <1>6. \A n \in NodeNames : Stale(n)' = Stale(n)
    BY <1>1 DEF Stale, Current
  <1>7. CacheLags'
    <2>1. refreshAge' < CacheRefreshInterval =>
            refreshAge' = refreshAge + 1 /\ refreshAge < CacheRefreshInterval
      BY <1>2, ClassifierNumbers DEF ClassifierTick
    <2>2. QED
      BY <1>2, <1>3, <1>6, <2>1, ClassifierNumbers DEF CacheLags, ClassifierInv
  <1>8. ReadsLag'
    BY <1>2, <1>3, <1>4, <1>6, ClassifierNumbers DEF ReadsLag, ClassifierInv
  <1>9. QED
    BY <1>5, <1>7, <1>8

\* Nodes and configurations change under lookups that are under way.
LEMMA ClassifierInvStep ==
  ASSUME ClassifierInv, [ClassifierNext]_classifierVars
  PROVE  ClassifierInv'
  <1>0. ClassifierTypes'
    BY ClassifierTypesStep DEF ClassifierInv
  <1>1. /\ settled \in [NodeNames -> 0 .. Settled]
        /\ refreshAge \in 0 .. CacheRefreshInterval
        /\ \A u \in Lookups : lookup[u].age \in Nat
        /\ \A u \in Lookups : lookup[u].pc = "store" => lookup[u].name \in NodeNames
    BY ClassifierNumbers DEF ClassifierInv, ClassifierTypes, LookupStates
  <1>2. CASE UpdateSelectors
    <2>1. CASE updater = "idle"
      <3>1. UNCHANGED <<nodeTypes, refreshAge, lookup>> /\ settled' = [n \in NodeNames |-> 0]
        BY <1>2, <2>1 DEF UpdateSelectors, cacheVars
      <3>2. QED
        BY <1>0, <1>1, <3>1, ClassifierNumbers
           DEF ClassifierInv, LookupsLag, CacheLags, ReadsLag
    <2>2. CASE updater # "idle"
      <3>1. /\ UNCHANGED <<nodeLabels, settled, selector, nodeTypes, lookup>>
            /\ refreshAge' = CacheRefreshInterval
        BY <1>2, <2>2 DEF UpdateSelectors, nodeVars
      <3>2. \A n \in NodeNames : Stale(n)' = Stale(n)
        BY <3>1 DEF Stale, Current
      <3>3. LookupsLag'
        BY <3>1 DEF ClassifierInv, LookupsLag, Current
      <3>4. QED
        BY <1>0, <3>1, <3>2, <3>3, ClassifierNumbers DEF ClassifierInv, CacheLags, ReadsLag
    <2>3. QED
      BY <2>1, <2>2
  <1>3. ASSUME NEW n \in NodeNames, ChangeNode(n)
        PROVE  LookupsLag' /\ CacheLags' /\ ReadsLag'
    <2>1. /\ UNCHANGED <<selector, nodeTypes, refreshAge, lookup>>
          /\ settled'[n] = 0
          /\ \A m \in NodeNames \ {n} : settled'[m] = settled[m] /\ nodeLabels'[m] = nodeLabels[m]
      BY <1>1, <1>3 DEF ChangeNode, cacheVars, selectorVars, ClassifierInv, ClassifierTypes
    <2>2. \A m \in NodeNames \ {n} : Stale(m)' = Stale(m)
      BY <2>1 DEF Stale, Current
    <2>3. LookupsLag'
      BY <1>1, <2>1 DEF ClassifierInv, LookupsLag, Current
    <2>4. QED
      BY <1>1, <2>1, <2>2, <2>3, ClassifierNumbers DEF ClassifierInv, CacheLags, ReadsLag
  <1>4. CASE UNCHANGED classifierVars
    BY <1>4 DEF classifierVars, nodeVars, cacheVars, selectorVars, ClassifierInv,
         ClassifierTypes, LookupsLag, CacheLags, ReadsLag, Stale, Current
  <1>5. QED
    BY <1>0, <1>2, <1>3, <1>4, LookupKeepsInv, ClassifierTickKeepsInv
       DEF ClassifierNext, ClassifierInv

\* For any number of goroutines and nodes, any labels and selectors, and however
\* long a lookup takes within its bound: what the cache answers of a node that
\* has settled is what the classifier says of it now.
THEOREM AnswersAlwaysCurrent == ClassifierSpec => AnswersCurrent
  <1> DEFINE Answer ==
        \A t \in Lookups, n \in NodeNames :
          lookup[t].pc = "read" /\ lookup'[t].pc = "missing"
            /\ nodeTypes[n] # "missing" /\ settled[n] >= Settled =>
            /\ nodeLabels[n] # Gone
            /\ nodeTypes[n] = ClassifyNode(nodeLabels[n], selector)
  <1>1. ClassifierInv => Answer
    <2> SUFFICES ASSUME ClassifierInv, NEW t \in Lookups, NEW n \in NodeNames,
                        lookup[t].pc = "read", Stale(n)
                 PROVE  ~(settled[n] >= Settled)
      BY DEF Stale, Current
    <2>1. lookup[t].age \in Nat /\ lookup[t].age <= LookupTime /\ settled[n] \in Nat
      BY ClassifierNumbers DEF ClassifierInv, ClassifierTypes, LookupStates
    <2>2. QED
      BY <2>1, ClassifierNumbers DEF ClassifierInv, ReadsLag
  <1>2. QED
    BY <1>1, ClassifierInvInit, ClassifierInvStep, PTL DEF ClassifierSpec, AnswersCurrent
=============================================================================
