--------------------------- MODULE LeaderElection ---------------------------
(***************************************************************************)
(* Leader election (pkg/operator/leader_election.go) on a Lease: the       *)
(* elector of client-go, which is external, and the manager's callbacks    *)
(* and Resign, which decide what IsLeader answers.                         *)
(***************************************************************************)
EXTENDS Integers, FiniteSets

CONSTANTS
  Replicas,
  Nobody,          \* the holder of a Lease that does not exist
  LeaseDuration,
  RenewDeadline

ASSUME ElectionAssumption ==
  /\ Nobody \notin Replicas
  /\ LeaseDuration \in Nat
  /\ RenewDeadline \in Nat
  /\ RenewDeadline < LeaseDuration   \* NewLeaderElector refuses others

VARIABLES
  lease,        \* holder, and time since it was last renewed
  elector,      \* of each replica: "off", "candidate", "leading", "stopped"
  renewed,      \* time since the elector last renewed the Lease
  callback,     \* onStartedLeading: "none", "due" in a goroutine, "ran", "late"
  isLeader,     \* l.isLeader
  deposed,      \* history: Resign deleted the Lease under this leading elector,
                \* which has not renewed it since
  apiUp         \* whether the API server answers (environment)

electionVars == <<lease, elector, renewed, callback, isLeader, deposed, apiUp>>

ElectionInit ==
  /\ lease = [holder |-> Nobody, age |-> 0]
  /\ elector = [r \in Replicas |-> "off"]
  /\ renewed = [r \in Replicas |-> 0]
  /\ callback = [r \in Replicas |-> "none"]
  /\ isLeader = [r \in Replicas |-> FALSE]
  /\ deposed = [r \in Replicas |-> FALSE]
  /\ apiUp = TRUE

-----------------------------------------------------------------------------
(* The manager.                                                            *)

\* Start runs the elector once; there is no second campaign.
StartElection(r) ==
  /\ elector[r] = "off"
  /\ elector' = [elector EXCEPT ![r] = "candidate"]
  /\ UNCHANGED <<lease, renewed, callback, isLeader, deposed, apiUp>>

\* The body of onStartedLeading, in a goroutine of its own: it may run after
\* onStoppedLeading.
OnStartedLeading(r) ==
  /\ callback[r] = "due"
  /\ isLeader' = [isLeader EXCEPT ![r] = TRUE]
  /\ callback' = [callback EXCEPT ![r] = IF elector[r] = "leading" THEN "ran" ELSE "late"]
  /\ UNCHANGED <<lease, elector, renewed, deposed, apiUp>>

\* isLeader keeps its value.
OnStoppedLeading_bug(r) ==
  /\ elector[r] = "leading"
  /\ renewed[r] >= RenewDeadline
  /\ elector' = [elector EXCEPT ![r] = "stopped"]
  /\ renewed' = [renewed EXCEPT ![r] = 0]
  /\ deposed' = [deposed EXCEPT ![r] = FALSE]
  /\ UNCHANGED <<lease, callback, isLeader, apiUp>>

\* The elector gives up at the deadline; onStoppedLeading and close(l.stopped)
\* come at the end of Run.
OnStoppedLeading(r) ==
  /\ elector[r] = "leading"
  /\ renewed[r] >= RenewDeadline
  /\ elector' = [elector EXCEPT ![r] = "stopped"]
  /\ renewed' = [renewed EXCEPT ![r] = 0]
  /\ isLeader' = [isLeader EXCEPT ![r] = FALSE]
  /\ deposed' = [deposed EXCEPT ![r] = FALSE]
  /\ UNCHANGED <<lease, callback, apiUp>>

\* Resign, by a replica that takes itself for the leader: the Lease is deleted,
\* whoever holds it; the elector is not told.
Resign(r) ==
  IF isLeader[r] /\ elector[r] # "off" /\ apiUp /\ lease.holder # Nobody
  THEN /\ lease' = [holder |-> Nobody, age |-> 0]
       /\ deposed' = [s \in Replicas |-> \/ deposed[s]
                                         \/ s = lease.holder /\ elector[s] = "leading"]
  ELSE UNCHANGED <<lease, deposed>>

-----------------------------------------------------------------------------
(* The elector of client-go, and the rest of the world.                    *)

\* A candidate creates the Lease, or takes over one that is out of date.
Acquire(r) ==
  /\ elector[r] = "candidate"
  /\ apiUp
  /\ lease.holder \in {Nobody, r} \/ lease.age >= LeaseDuration
  /\ lease' = [holder |-> r, age |-> 0]
  /\ elector' = [elector EXCEPT ![r] = "leading"]
  /\ renewed' = [renewed EXCEPT ![r] = 0]
  /\ callback' = [callback EXCEPT ![r] = "due"]
  /\ UNCHANGED <<isLeader, deposed, apiUp>>

\* The leader renews its Lease; one that was deleted it creates again, and one
\* that another replica has let expire it takes over.
Renew(r) ==
  /\ elector[r] = "leading"
  /\ apiUp
  /\ lease.holder \in {Nobody, r} \/ lease.age >= LeaseDuration
  /\ lease' = [holder |-> r, age |-> 0]
  /\ renewed' = [renewed EXCEPT ![r] = 0]
  /\ deposed' = [deposed EXCEPT ![r] = FALSE]
  /\ UNCHANGED <<elector, callback, isLeader, apiUp>>

\* The process ends, or is killed.
ElectorDies(r) ==
  /\ elector' = [elector EXCEPT ![r] = "stopped"]
  /\ renewed' = [renewed EXCEPT ![r] = 0]
  /\ callback' = [callback EXCEPT ![r] = "none"]
  /\ isLeader' = [isLeader EXCEPT ![r] = FALSE]
  /\ deposed' = [deposed EXCEPT ![r] = FALSE]

ApiToggles ==
  /\ apiUp' = ~apiUp
  /\ UNCHANGED <<lease, elector, renewed, callback, isLeader, deposed>>

\* No elector is past its deadline without having given up.
ElectionTick ==
  /\ \A r \in Replicas : elector[r] = "leading" => renewed[r] < RenewDeadline
  /\ renewed' = [r \in Replicas |-> IF elector[r] = "leading" THEN renewed[r] + 1
                                    ELSE renewed[r]]
  /\ lease' = [lease EXCEPT !.age = IF lease.holder # Nobody /\ @ < LeaseDuration
                                    THEN @ + 1 ELSE @]
  /\ UNCHANGED <<elector, callback, isLeader, deposed, apiUp>>

ElectorStep(r) ==
  \/ StartElection(r)
  \/ OnStartedLeading(r)
  \/ OnStoppedLeading(r)
  \/ Acquire(r)
  \/ Renew(r)

-----------------------------------------------------------------------------
(* Properties.                                                             *)

\* Of two replicas that answer IsLeader with true, one ran onStartedLeading
\* after onStoppedLeading, or leads on although Resign deleted its Lease, be it
\* its own Resign or that of a replica that was wrong about itself.
\* (onStartedLeading, onStoppedLeading, Resign)
OneLeader ==
  \A r, s \in Replicas :
    r # s /\ isLeader[r] /\ isLeader[s] =>
      \E q \in {r, s} : deposed[q] \/ callback[q] = "late"

\* At most one replica takes itself for the leader, as the package's
\* documentation has it.  (IsLeader)
SingleLeader ==
  \A r, s \in Replicas : isLeader[r] /\ isLeader[s] => r = s
=============================================================================
