--------------------------- MODULE Configuration ----------------------------
(***************************************************************************)
(* From the configuration sources to the running controllers: the strict   *)
(* loader (internal/config/loader.go), which can be used again and can     *)
(* save what it holds, the lenient one the application uses                *)
(* (pkg/config/loader.go), and what the operator and the controller        *)
(* manager pass on of what was loaded.                                     *)
(*                                                                         *)
(* A setting stands for the settings of its kind that are checked alike.   *)
(***************************************************************************)
EXTENDS Integers, FiniteSets

CONSTANTS
  MaxInFile,          \* bound: how many settings the file gives
  MaxInEnvironment,   \* bound: how many variables are set
  MaxEdits            \* bound: how often the file changes

ASSUME ConfigurationAssumption ==
  MaxInFile \in Nat /\ MaxInEnvironment \in Nat /\ MaxEdits \in Nat

VARIABLES
  loader,      \* "strict" or "lenient"
  file,        \* its state and what it gives
  env,         \* what each environment variable holds
  load,        \* where LoadConfiguration, or Load, is
  config,      \* cl.config, or the local of Load
  pending,     \* environment variables that are set and not looked at yet
  edits,       \* how often the file changed
  running      \* what the controllers run with

configVars == <<loader, file, env, load, config, pending, edits, running>>

Flags == {"readOnly", "webhook"}
Texts == {"namespace", "window"}
Numbers == {"workers", "interval", "cooldown", "port"}
Settings == Flags \cup Texts \cup Numbers

\* The settings a loader knows; the strict one has neither cooldown nor
\* disruption window.
Known(l) == IF l = "strict" THEN Settings \ {"cooldown", "window"} ELSE Settings

\* "bad" is empty, not positive, or no cron schedule; "high" is a port above
\* 65535; "flipped" is the other truth value (read-only, and no webhook).
FileValues(s) ==
  CASE s \in Flags  -> {"unset", "flipped"}
    [] s = "port"   -> {"unset", "good", "bad", "high"}
    [] OTHER        -> {"unset", "good", "bad"}

\* An empty variable counts as unset, and there is none for the window;
\* "garbled" does not parse.
EnvValues(s) ==
  CASE s = "namespace" -> {"unset", "good"}
    [] s = "window"  -> {"unset"}
    [] s \in Flags   -> {"unset", "flipped", "garbled"}
    [] s = "port"    -> {"unset", "good", "bad", "high", "garbled"}
    [] s \in Numbers \ {"port"} -> {"unset", "good", "bad", "garbled"}

Nothing == [s \in Settings |-> "unset"]

Over(base, given) ==
  [s \in Settings |-> IF given[s] = "unset" THEN base[s] ELSE given[s]]

\* What a source gives: at most n of the settings S.
Given(S, V(_), n) ==
  LET Some(D) == {f \in [D -> UNION {V(s) : s \in D}] : \A s \in D : f[s] \in V(s)}
      Whole(f) == [s \in Settings |-> IF s \in DOMAIN f THEN f[s] ELSE "unset"]
  IN  UNION {{Whole(f) : f \in Some(D)} :
               D \in {D \in SUBSET S : Cardinality(D) <= n}}

Unread == {[state |-> state, gives |-> Nothing] : state \in {"none", "missing"}}

Files(l) ==
  Unread \cup {[state |-> state, gives |-> given] :
                 state \in {"readable", "malformed"},
                 given \in Given(Known(l), FileValues, MaxInFile)}

DefaultConfiguration == [s \in Settings |-> "default"]
Idle == [up |-> FALSE]

ConfigInit ==
  /\ loader \in {"strict", "lenient"}
  /\ file \in Files(loader)
  /\ env \in Given(Known(loader), EnvValues, MaxInEnvironment)
  /\ load = "idle"
  /\ config = DefaultConfiguration
  /\ pending = {}
  /\ edits = 0
  /\ running = Idle

-----------------------------------------------------------------------------
(* Loading.                                                                *)

\* The loader goes on from what it holds.
LoadConfiguration_bug ==
  /\ load = "idle"
  /\ load' = "file"
  /\ UNCHANGED <<loader, file, env, config, pending, edits, running>>

\* Every load starts from the defaults, also when the loader is used again.
LoadConfiguration ==
  /\ load = "idle"
  /\ load' = "file"
  /\ config' = DefaultConfiguration
  /\ UNCHANGED <<loader, file, env, pending, edits, running>>

\* LoadFromFile and loadFromFile.  What a file that does not parse gives is
\* applied in part.
LoadFromFile ==
  /\ load = "file"
  /\ \/ /\ file.state = "none"
        /\ load' = "environment"
        /\ UNCHANGED config
     \/ /\ file.state = "missing"
        /\ load' = "failed"
        /\ UNCHANGED config
     \/ /\ file.state = "malformed"
        /\ load' = "failed"
        /\ \E S \in SUBSET {s \in Settings : file.gives[s] # "unset"} :
             config' = [s \in Settings |-> IF s \in S THEN file.gives[s] ELSE config[s]]
     \/ /\ file.state = "readable"
        /\ load' = "environment"
        /\ config' = Over(config, file.gives)
  /\ pending' = {s \in Known(loader) : env[s] # "unset"}
  /\ UNCHANGED <<loader, file, env, edits, running>>

\* A setter: texts are taken as they are, the others have to parse.
SetFromEnvironment(s) ==
  IF env[s] = "garbled" THEN load' = "failed" /\ UNCHANGED config
  ELSE config' = [config EXCEPT ![s] = env[s]] /\ UNCHANGED load

\* LoadFromEnvironment looks at the variables in the order of a map, which is
\* any order, and gives up at the first that does not parse.
LoadFromEnvironment ==
  /\ load = "environment"
  /\ loader = "strict"
  /\ \E s \in pending : SetFromEnvironment(s) /\ pending' = pending \ {s}
  /\ UNCHANGED <<loader, file, env, edits, running>>

\* parseBool, parseInt and ParseDuration as loadFromEnv uses them: what does not
\* parse leaves the setting as it is.
Parsed(given) == [s \in Settings |-> IF given[s] = "garbled" THEN "unset" ELSE given[s]]

LoadFromEnv ==
  /\ load = "environment"
  /\ loader = "lenient"
  /\ pending # {}
  /\ config' = Over(config, Parsed(env))
  /\ pending' = {}
  /\ UNCHANGED <<loader, file, env, load, edits, running>>

\* ValidateConfiguration: no setting of the leader election is compared with
\* another one.
StrictlyValid(c) ==
  /\ c["workers"] # "bad"
  /\ c["interval"] # "bad"
  /\ c["webhook"] = "flipped" \/ c["port"] \notin {"bad", "high"}

\* SpotalisConfig.Validate, which does not look at the interval and asks of a
\* port no more than that it is positive.
LenientlyValid(c) ==
  /\ c["namespace"] # "bad"
  /\ c["workers"] # "bad"
  /\ c["webhook"] = "flipped" \/ c["port"] # "bad"
  /\ c["window"] # "bad"
  /\ c["cooldown"] # "bad"

Valid(c) == IF loader = "strict" THEN StrictlyValid(c) ELSE LenientlyValid(c)

ValidateConfiguration ==
  /\ load = "environment"
  /\ pending = {}
  /\ load' = IF Valid(config) THEN "loaded" ELSE "failed"
  /\ UNCHANGED <<loader, file, env, config, pending, edits, running>>

\* SaveToFile writes what the loader holds, also after a load that failed; a
\* write that fails may leave a part of it.
SaveToFile ==
  /\ loader = "strict"
  /\ load \in {"loaded", "failed"}
  /\ edits < MaxEdits
  /\ \E state \in {"readable", "malformed"} : file' = [state |-> state, gives |-> config]
  /\ edits' = edits + 1
  /\ load' = "idle"
  /\ UNCHANGED <<loader, env, config, pending, running>>

\* Somebody edits the file, and the loader is used again.
EditFile ==
  /\ load \in {"loaded", "failed"}
  /\ ~running.up
  /\ edits < MaxEdits
  /\ \E new \in Unread \cup {[state |-> "readable", gives |-> Nothing]} : file' = new
  /\ edits' = edits + 1
  /\ load' = "idle"
  /\ UNCHANGED <<loader, env, config, pending, running>>

-----------------------------------------------------------------------------
(* Wiring.                                                                 *)

\* RegisterOperator: operator.Config has no field for the cooldown or the window.
OperatorConfig == [s \in Settings \ {"cooldown", "window"} |-> config[s]]

\* configFromEnv sets some fields of it after the validation.
ConfigFromEnv(c) ==
  { [s \in DOMAIN c |-> IF s \in set THEN (IF s \in Flags THEN "flipped" ELSE "good")
                        ELSE c[s]] : set \in SUBSET {"namespace", "readOnly", "webhook"} }

\* getCooldownPeriod without its default.
GetCooldownPeriod_bug(field) == field

GetCooldownPeriod(field) == IF field \in {"zero", "bad"} THEN "default" ELSE field

\* Of the reconcilers' fields setupControllers sets the interval alone, and of
\* the controllers' options none.
OperatorControllers(c) ==
  [kinds |-> {"Deployment", "StatefulSet"}, interval |-> c["interval"],
   cooldown |-> GetCooldownPeriod("zero"), workers |-> "default",
   readOnly |-> "default", window |-> "default"]

NewOperator ==
  /\ loader = "lenient"
  /\ load = "loaded"
  /\ ~running.up
  /\ \E c \in ConfigFromEnv(OperatorConfig) :
       running' = [up |-> TRUE, via |-> "operator",
                   reconcilers |-> OperatorControllers(c),
                   webhook |-> c["webhook"] # "flipped", port |-> c["port"]]
  /\ UNCHANGED <<loader, file, env, load, config, pending, edits>>

\* withDefaults.
WithDefaults(field) == IF field = "bad" THEN "default" ELSE field

\* setupDeploymentController and setupStatefulSetController: timing and workers
\* arrive.
ManagerControllers(enabled) ==
  [kinds |-> enabled, interval |-> config["interval"],
   cooldown |-> GetCooldownPeriod(WithDefaults(config["cooldown"])),
   workers |-> config["workers"], readOnly |-> "default", window |-> "default"]

\* RegisterControllers, the other way to the reconcilers, and SetupControllers.
\* The registry enables no kind; another caller may.
SetupControllers ==
  /\ loader = "lenient"
  /\ load = "loaded"
  /\ ~running.up
  /\ \E enabled \in {{}, {"Deployment"}, {"Deployment", "StatefulSet"}} :
       running' = [up |-> TRUE, via |-> "manager",
                   reconcilers |-> ManagerControllers(enabled),
                   webhook |-> FALSE, port |-> config["port"]]
  /\ UNCHANGED <<loader, file, env, load, config, pending, edits>>

ConfigNext ==
  \/ LoadConfiguration
  \/ LoadFromFile
  \/ LoadFromEnvironment
  \/ LoadFromEnv
  \/ ValidateConfiguration
  \/ SaveToFile
  \/ EditFile
  \/ NewOperator
  \/ SetupControllers

ConfigSpec == ConfigInit /\ [][ConfigNext]_configVars

-----------------------------------------------------------------------------
(* Properties.                                                             *)

\* What the sources amount to: defaults, under the file, under the environment.
Merged == Over(Over(DefaultConfiguration, file.gives), Parsed(env))

\* A load succeeds exactly when its sources can be read and amount to a valid
\* configuration, and then yields that one: whatever was loaded or saved before
\* with the same loader, and in whichever order the variables were looked at.
\* (LoadConfiguration, LoadFromEnvironment, SaveToFile, Load)
LoadAgrees ==
  LET loadable == /\ file.state \in {"none", "readable"}
                  /\ loader = "strict" => \A s \in Settings : env[s] # "garbled"
                  /\ Valid(Merged)
  IN  /\ load = "loaded" => loadable /\ config = Merged
      /\ load = "failed" => ~loadable

\* The reconcilers never run without a cooldown, and the webhook is never
\* registered on a port that is not positive, although the operator's own
\* variables are applied after the validation and the cooldown is lost on the
\* way.  Whether there is such a port is not promised: the lenient validation
\* lets 70000 pass.  (getCooldownPeriod, withDefaults, configFromEnv)
RunsUsable ==
  running.up =>
    /\ running.reconcilers.cooldown \in {"default", "good"}
    /\ running.webhook => running.port # "bad"

\* The controllers of the operator run as the reference says they are
\* configured: with the read-only mode, workers, cooldown and disruption window
\* that were loaded, and with an interval that is positive.
\* (setupControllers, SpotalisConfig.Validate)
RunsAsDocumented ==
  running.up /\ running.via = "operator" =>
    /\ \A s \in {"readOnly", "workers", "cooldown", "window"} :
         running.reconcilers[s] = config[s]
    /\ running.reconcilers.interval # "bad"
=============================================================================
