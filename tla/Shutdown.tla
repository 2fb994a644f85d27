------------------------------ MODULE Shutdown ------------------------------
(***************************************************************************)
(* Graceful shutdown of one replica (pkg/operator/shutdown.go) while it    *)
(* and the others campaign for the Lease, with what it makes the health    *)
(* probes say (internal/server/health.go).  The phases run one after the   *)
(* other under one deadline, GracefulTimeout.                              *)
(***************************************************************************)
EXTENDS LeaderElection

CONSTANT Retiring   \* the replica that shuts down

ASSUME ShutdownAssumption == Retiring \in Replicas

VARIABLES
  phase,        \* where initiateShutdown is
  phases,       \* componentStates; "unknown" stands for no entry
  deadline,     \* whether the context of the shutdown is done
  probes,       \* what SetNotReady and SetUnhealthy set
  cancelled     \* whether shutdownCancel was called

shutdownVars == <<phase, phases, deadline, probes, cancelled>>
processVars == <<electionVars, shutdownVars>>

PhaseNames == {"pre-shutdown-hook", "http-server", "leader-election",
               "connection-drain", "reconciliation", "controllers", "cleanup",
               "post-shutdown-hook"}

ShutdownInit ==
  /\ ElectionInit
  /\ phase = "running"
  /\ phases = [n \in PhaseNames |-> "unknown"]
  /\ deadline = FALSE
  /\ probes = {}
  /\ cancelled = FALSE

\* updateComponentState, and on to the next phase.
Mark(name, state, next) ==
  /\ phases' = [phases EXCEPT ![name] = state]
  /\ phase' = next

-----------------------------------------------------------------------------
(* initiateShutdown and performGracefulShutdown.                           *)

\* A signal or the end of the context; the caller that comes second is turned
\* away.  The context's clock starts here.
InitiateShutdown ==
  /\ phase = "running"
  /\ phase' = "pre-hooks"
  /\ UNCHANGED <<electionVars, phases, deadline, probes, cancelled>>

\* GracefulTimeout is over.
DeadlinePasses ==
  /\ phase \notin {"running", "ended", "exited"}
  /\ ~deadline
  /\ deadline' = TRUE
  /\ UNCHANGED <<electionVars, phase, phases, probes, cancelled>>

\* Hooks that fail are recorded, and no more.
PreShutdownHooks ==
  /\ phase = "pre-hooks"
  /\ \E state \in {"completed", "failed"} :
       Mark("pre-shutdown-hook", state, "stop-requests")
  /\ UNCHANGED <<electionVars, deadline, probes, cancelled>>

\* The readiness probe goes on answering.
StopNewRequests_bug ==
  /\ phase = "stop-requests"
  /\ Mark("http-server", "started", "balancers")
  /\ UNCHANGED <<electionVars, deadline, probes, cancelled>>

\* stopNewRequests: the readiness probe fails from here on.
StopNewRequests ==
  /\ phase = "stop-requests"
  /\ Mark("http-server", "started", "balancers")
  /\ probes' = probes \cup {"notReady"}
  /\ UNCHANGED <<electionVars, deadline, cancelled>>

\* ... and load balancers are given time to notice.
WaitForBalancers ==
  /\ phase = "balancers"
  /\ \/ Mark("http-server", "completed", "transfer")
     \/ deadline /\ phase' = "force" /\ UNCHANGED phases
  /\ UNCHANGED <<electionVars, deadline, probes, cancelled>>

\* transferLeadership up to Resign, whose failure is logged.
TransferLeadership ==
  /\ phase = "transfer"
  /\ IF isLeader[Retiring]
     THEN /\ Mark("leader-election", "started", "transferring")
          /\ Resign(Retiring)
     ELSE /\ Mark("leader-election", "completed", "drain")
          /\ UNCHANGED <<lease, deposed>>
  /\ UNCHANGED <<elector, renewed, callback, isLeader, apiUp, deadline, probes,
                 cancelled>>

\* It waits for the leadership to be gone, and for nothing else.
AwaitNewLeader_bug ==
  /\ phase = "transferring"
  /\ ~isLeader[Retiring]
  /\ Mark("leader-election", "completed", "drain")
  /\ UNCHANGED <<electionVars, deadline, probes, cancelled>>

\* transferLeadership from there on: it ends when this replica is no longer
\* the leader, after fifteen seconds, or with the context, and is completed
\* in any case; performGracefulShutdown goes on in any case.
AwaitNewLeader ==
  /\ phase = "transferring"
  /\ Mark("leader-election", "completed", "drain")
  /\ UNCHANGED <<electionVars, deadline, probes, cancelled>>

DrainConnections ==
  /\ phase = "drain"
  /\ Mark("connection-drain", "completed", "reconciliation")
  /\ UNCHANGED <<electionVars, deadline, probes, cancelled>>

\* The component is left as it was when the context ends first.
FinishReconciliations_bug ==
  /\ phase \in {"reconciliation", "reconciling"}
  /\ IF phase = "reconciliation"
     THEN Mark("reconciliation", "started", "reconciling")
     ELSE \/ Mark("reconciliation", "completed", "controllers")
          \/ deadline /\ phase' = "force" /\ UNCHANGED phases
  /\ UNCHANGED <<electionVars, deadline, probes, cancelled>>

\* finishReconciliations: a wait of a third of the timeout.
FinishReconciliations ==
  /\ phase \in {"reconciliation", "reconciling"}
  /\ IF phase = "reconciliation"
     THEN Mark("reconciliation", "started", "reconciling")
     ELSE \/ Mark("reconciliation", "completed", "controllers")
          \/ deadline /\ Mark("reconciliation", "completed", "force")
  /\ UNCHANGED <<electionVars, deadline, probes, cancelled>>

StopControllers ==
  /\ phase = "controllers"
  /\ Mark("controllers", "completed", "cleanup")
  /\ cancelled' = TRUE
  /\ UNCHANGED <<electionVars, deadline, probes>>

\* cleanupResources: the liveness probe fails from here on.
CleanupResources ==
  /\ phase = "cleanup"
  /\ probes' = probes \cup {"unhealthy"}
  /\ Mark("cleanup", "completed", IF deadline THEN "force" ELSE "post-hooks")
  /\ UNCHANGED <<electionVars, deadline, cancelled>>

PostShutdownHooks ==
  /\ phase = "post-hooks"
  /\ \E state \in {"completed", "failed"} :
       Mark("post-shutdown-hook", state, "ended")
  /\ UNCHANGED <<electionVars, deadline, probes, cancelled>>

\* The probes are left alone and the components are stopped outright.
ForceShutdown ==
  /\ phase = "force"
  /\ cancelled' = TRUE
  /\ phase' = "ended"
  /\ UNCHANGED <<electionVars, phases, deadline, probes>>

\* The process, whose main context nothing above has cancelled, ends.
Exit ==
  /\ phase = "ended"
  /\ phase' = "exited"
  /\ ElectorDies(Retiring)
  /\ UNCHANGED <<lease, apiUp, phases, deadline, probes, cancelled>>

ShutdownStep ==
  \/ PreShutdownHooks
  \/ StopNewRequests
  \/ WaitForBalancers
  \/ TransferLeadership
  \/ AwaitNewLeader
  \/ DrainConnections
  \/ FinishReconciliations
  \/ StopControllers
  \/ CleanupResources
  \/ PostShutdownHooks
  \/ ForceShutdown

ShutdownNext ==
  \/ InitiateShutdown
  \/ DeadlinePasses
  \/ ShutdownStep
  \/ Exit
  \/ /\ \/ \E r \in Replicas : ElectorStep(r)
        \/ ApiToggles
        \/ ElectionTick
     /\ UNCHANGED shutdownVars

ShutdownSpec == ShutdownInit /\ [][ShutdownNext]_processVars

\* The phases go on as long as the process lives.
ShutdownFairness == WF_processVars(ShutdownStep) /\ WF_processVars(Exit)

-----------------------------------------------------------------------------
(* What the probes and GetShutdownStatus answer.                           *)

\* ReadyzHandler and GetReadyzChecker.
Readyz == "notReady" \notin probes /\ apiUp

\* HealthzHandler and GetHealthzChecker.
Healthz == "unhealthy" \notin probes /\ apiUp

\* ShutdownStatus.IsCompleted.
IsCompleted ==
  /\ phase # "running"
  /\ \A n \in PhaseNames : phases[n] # "started"

-----------------------------------------------------------------------------
(* Properties.                                                             *)

\* A shutdown that has begun ends, although the elector of a leader that has
\* resigned is still running and takes the Lease back.  (transferLeadership)
ShutdownEnds == phase # "running" ~> phase = "exited"

\* A shutdown that has ended is reported as completed, wherever its deadline
\* struck, save while it waited for the load balancers.  (IsCompleted)
CompletionReported ==
  phase \in {"ended", "exited"} =>
    IsCompleted \/ phases["http-server"] = "started"

\* A replica whose controllers are told to stop, gracefully or not, has left
\* the load balancers before, and its liveness probe does not fail before that:
\* else the kubelet would end it in the middle of a phase.
\* (stopNewRequests, forceStopComponents, cleanupResources)
LeavesInOrder ==
  /\ cancelled => ~Readyz
  /\ apiUp /\ ~Healthz => cancelled
=============================================================================
