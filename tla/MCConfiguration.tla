-------------------------- MODULE MCConfiguration ---------------------------
(* One configuration file of Configuration, for TLC: the controllers are to  *)
(* be read-only and to reconcile at an interval of zero.                     *)
EXTENDS Configuration

ReadOnlyFile ==
  [state |-> "readable",
   gives |-> [Nothing EXCEPT !["readOnly"] = "flipped", !["interval"] = "bad"]]

OneFileInit ==
  /\ ConfigInit
  /\ loader = "lenient"
  /\ file = ReadOnlyFile
  /\ env = Nothing

OneFileSpec == OneFileInit /\ [][ConfigNext]_configVars
=============================================================================
