---------------------------- MODULE ClusterAccess ---------------------------
(***************************************************************************)
(* EnsureRBAC (pkg/operator/kubernetes.go): every replica, when it starts, *)
(* creates the namespace, the service account, the cluster role and its    *)
(* binding, unless they are there, and then tries its permissions.         *)
(***************************************************************************)
EXTENDS Integers, Sequences

CONSTANT Installers   \* replicas that start at the same time

VARIABLES
  objects,    \* what exists in the cluster
  install     \* of each replica: the step it is at and what it does there

accessVars == <<objects, install>>

Required == <<"namespace", "serviceAccount", "clusterRole", "clusterRoleBinding">>
Listable == {"nodes", "pods", "deployments", "statefulsets"}

AccessInit ==
  /\ objects = {}
  /\ install = [r \in Installers |-> [at |-> 1, pc |-> "get"]]

Becomes(r, at, pc) == install' = [install EXCEPT ![r] = [at |-> at, pc |-> pc]]

\* ensureX returned without an error.
Proceed(r) ==
  LET at == install[r].at
  IN  IF at < Len(Required) THEN Becomes(r, at + 1, "get")
      ELSE Becomes(r, at, "validate")

\* An object that cannot be read is taken to be there.
GetObject_bug(r) ==
  /\ install[r].pc = "get"
  /\ \/ Required[install[r].at] \in objects /\ Proceed(r)
     \/ Required[install[r].at] \notin objects /\ Becomes(r, install[r].at, "create")
     \/ Proceed(r)
  /\ UNCHANGED objects

\* Get.  Every error, not only NotFound, means that the object is not there.
GetObject(r) ==
  /\ install[r].pc = "get"
  /\ \/ Required[install[r].at] \in objects /\ Proceed(r)
     \/ Becomes(r, install[r].at, "create")
  /\ UNCHANGED objects

\* Create: it works, and the answer may be lost; it fails; or the object exists
\* by now, which is an error too.
CreateObject(r) ==
  LET name == Required[install[r].at]
  IN  /\ install[r].pc = "create"
      /\ \/ /\ name \notin objects
            /\ objects' = objects \cup {name}
            /\ Proceed(r) \/ Becomes(r, install[r].at, "failed")
         \/ Becomes(r, install[r].at, "failed") /\ UNCHANGED objects

\* ValidatePermissions lists what it can list, under the permissions of whoever
\* runs it, and takes the rest on trust.
ValidatePermissions(r) ==
  /\ install[r].pc = "validate"
  /\ \E denied \in SUBSET Listable :
       Becomes(r, install[r].at, IF denied = {} THEN "done" ELSE "failed")
  /\ UNCHANGED objects

\* A process that could not start is started again.
Reinstall(r) ==
  /\ install[r].pc = "failed"
  /\ Becomes(r, 1, "get")
  /\ UNCHANGED objects

AccessNext ==
  \E r \in Installers : \/ GetObject(r)
                        \/ CreateObject(r)
                        \/ ValidatePermissions(r)
                        \/ Reinstall(r)

AccessSpec == AccessInit /\ [][AccessNext]_accessVars

\* A replica that got through EnsureRBAC has everything in place, whichever
\* calls failed or lost their answers, and whoever else was creating the same
\* objects.  (EnsureRBAC)
AccessComplete ==
  \A r \in Installers :
    install[r].pc \in {"validate", "done"} =>
      \A i \in 1 .. Len(Required) : Required[i] \in objects
=============================================================================
