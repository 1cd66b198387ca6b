----------------------------- MODULE ServiceOps -----------------------------
(***************************************************************************)
(* `service_configure` and `service_restore` of ops.rs in crates/sio-      *)
(* winsys/src with services.rs below them, one call to the service control *)
(* manager at a time.  The manager starts and stops a service in its own   *)
(* time, so an operation may find one on its way up or down.               *)
(*                                                                         *)
(* A caller reconfigures one service and, once that has succeeded, may     *)
(* have it restored from the state the change has reported.                *)
(***************************************************************************)
EXTENDS Naturals

CONSTANTS
  Caller,      \* the operations that may run at the same time
  Service,     \* services
  Configs,     \* the reconfigurations callers ask for
  MaxOutside   \* bound: how often a service starts or ends by itself

(* ServiceStartType, and the SCM's number for one that is not known.       *)
StartType == {"Boot", "System", "Automatic", "Manual", "Disabled"}
RawStart  == StartType \cup {"Unrecognised"}
RunState  == {"stopped", "starting", "running", "stopping"}
ServiceState == [start : RawStart, run : RunState]

Config == [start : StartType, stop : BOOLEAN]

(* PriorState.                                                             *)
PriorState == [start_type : StartType, was_running : BOOLEAN]

ASSUME ServiceAssumption == MaxOutside \in Nat /\ Configs \subseteq Config

VARIABLES
  svc,       \* each service's start type and run state
  pc,        \* the SCM call each caller makes next
  undoing,   \* is the caller restoring what it changed?
  of,        \* the service it works on
  config,    \* the configuration it asks for
  prior,     \* the state its change has reported
  result,    \* how its last operation ended
  outside,   \* how often a service has started or ended by itself
  found,     \* history: the service as it was when the caller began
  alone      \* history: nobody else has touched it since

vars == <<svc, pc, undoing, of, config, prior, result, outside, found, alone>>

Call == {"config", "status", "change", "look", "control", "wait", "peek", "launch"}
Nobody == "none"
NoConfig == [start |-> "Manual", stop |-> FALSE]
NoPrior == [start_type |-> "Manual", was_running |-> FALSE]

Init ==
  /\ svc \in [Service -> ServiceState]
  /\ pc      = [c \in Caller |-> "idle"]
  /\ undoing = [c \in Caller |-> FALSE]
  /\ of      = [c \in Caller |-> Nobody]
  /\ config  = [c \in Caller |-> NoConfig]
  /\ prior   = [c \in Caller |-> NoPrior]
  /\ result  = [c \in Caller |-> "none"]
  /\ outside = 0
  /\ found   = [c \in Caller |-> [start |-> "Manual", run |-> "stopped"]]
  /\ alone   = [c \in Caller |-> FALSE]

-----------------------------------------------------------------------------
Goto(c, label) == pc' = [pc EXCEPT ![c] = label]

End(c, r) ==
  /\ Goto(c, IF r = "ok" /\ ~undoing[c] THEN "set" ELSE "done")
  /\ result' = [result EXCEPT ![c] = r]

Run(c) == svc[of[c]].run

(* `to_start_type`: what is not recognised is taken for Manual.            *)
ToStartType(raw) == IF raw \in StartType THEN raw ELSE "Manual"

(* Who else works on s is disturbed by what the caller does to it.         *)
Disturb(c, s) == alone' = [d \in Caller |-> alone[d] /\ (d = c \/ of[d] # s)]

SetRun(c, run) ==
  /\ svc' = [svc EXCEPT ![of[c]] = [start |-> @.start, run |-> run]]
  /\ Disturb(c, of[c])

(* service_configure has begun.                                            *)
StartConfigure(c, s, cfg) ==
  /\ pc[c] = "idle"
  /\ Goto(c, "config")
  /\ of'     = [of EXCEPT ![c] = s]
  /\ config' = [config EXCEPT ![c] = cfg]
  /\ found'  = [found EXCEPT ![c] = svc[s]]
  /\ alone'  = [alone EXCEPT ![c] = TRUE]
  /\ UNCHANGED <<svc, undoing, prior, result, outside>>

(* Mutant: the start type is reported as the manager gives it.             *)
QueryConfigRaw(c) ==
  /\ pc[c] = "config"
  /\ prior' = [prior EXCEPT ![c] = [start_type |-> svc[of[c]].start, was_running |-> @.was_running]]
  /\ Goto(c, "status")
  /\ UNCHANGED <<svc, undoing, of, config, result, outside, found, alone>>

(* `query`: the start type first ...                                       *)
QueryConfig(c) ==
  /\ pc[c] = "config"
  /\ prior' = [prior EXCEPT ![c] =
       [start_type |-> ToStartType(svc[of[c]].start), was_running |-> @.was_running]]
  /\ Goto(c, "status")
  /\ UNCHANGED <<svc, undoing, of, config, result, outside, found, alone>>

(* ... then whether it runs: whatever is not stopped does.                 *)
QueryStatus(c) ==
  /\ pc[c] = "status"
  /\ prior' = [prior EXCEPT ![c] =
       [start_type |-> @.start_type, was_running |-> Run(c) # "stopped"]]
  /\ Goto(c, "change")
  /\ UNCHANGED <<svc, undoing, of, config, result, outside, found, alone>>

(* `set_start_type`.  In a configuration a stop may follow; in a restore   *)
(* the run state does.                                                     *)
SetStartType(c) ==
  LET type == IF undoing[c] THEN prior[c].start_type ELSE config[c].start IN
  /\ pc[c] = "change"
  /\ svc' = [svc EXCEPT ![of[c]] = [start |-> type, run |-> @.run]]
  /\ Disturb(c, of[c])
  /\ \/ undoing[c] /\ prior[c].was_running /\ Goto(c, "peek") /\ UNCHANGED result
     \/ /\ IF undoing[c] THEN ~prior[c].was_running ELSE config[c].stop
        /\ Goto(c, "look")
        /\ UNCHANGED result
     \/ ~undoing[c] /\ ~config[c].stop /\ End(c, "ok")
  /\ UNCHANGED <<undoing, of, config, prior, outside, found>>

(* `stop`: a service that is stopped already is left alone ...             *)
LookBeforeStop(c) ==
  /\ pc[c] = "look"
  /\ \/ Run(c) = "stopped" /\ End(c, "ok")
     \/ Run(c) # "stopped" /\ Goto(c, "control") /\ UNCHANGED result
  /\ UNCHANGED <<svc, undoing, of, config, prior, outside, found, alone>>

(* ... and a running one is told to stop.  The manager refuses while a     *)
(* service is on its way up or down, or has ended meanwhile.               *)
ControlStop(c) ==
  /\ pc[c] = "control"
  /\ \/ Run(c) = "running" /\ SetRun(c, "stopping") /\ Goto(c, "wait") /\ UNCHANGED result
     \/ Run(c) # "running" /\ End(c, "not now") /\ UNCHANGED <<svc, alone>>
  /\ UNCHANGED <<undoing, of, config, prior, outside, found>>

(* Mutant: a stop that is under way is as good as a stop.                  *)
SeenStoppedEarly(c) ==
  /\ pc[c] = "wait"
  /\ Run(c) # "running"
  /\ End(c, "ok")
  /\ UNCHANGED <<svc, undoing, of, config, prior, outside, found, alone>>

(* The polling sees the service stopped ...                                *)
SeenStopped(c) ==
  /\ pc[c] = "wait"
  /\ Run(c) = "stopped"
  /\ End(c, "ok")
  /\ UNCHANGED <<svc, undoing, of, config, prior, outside, found, alone>>

(* ... or gives up, after STOP_TIMEOUT_MS or an error, with the last poll  *)
(* 200 ms old.                                                             *)
StopTimesOut(c) ==
  /\ pc[c] = "wait"
  /\ End(c, "timeout")
  /\ UNCHANGED <<svc, undoing, of, config, prior, outside, found, alone>>

(* Mutant: the run state is restored first.                                *)
StartRestoreRun(c) ==
  /\ pc[c] = "set"
  /\ undoing' = [undoing EXCEPT ![c] = TRUE]
  /\ Goto(c, IF prior[c].was_running THEN "peek" ELSE "change")
  /\ UNCHANGED <<svc, of, config, prior, result, outside, found, alone>>

(* `restore` has begun.                                                    *)
StartRestore(c) ==
  /\ pc[c] = "set"
  /\ undoing' = [undoing EXCEPT ![c] = TRUE]
  /\ Goto(c, "change")
  /\ UNCHANGED <<svc, of, config, prior, result, outside, found, alone>>

(* `start`: whatever is not stopped is taken for running ...               *)
PeekBeforeStart(c) ==
  /\ pc[c] = "peek"
  /\ \/ Run(c) # "stopped" /\ End(c, "ok")
     \/ Run(c) = "stopped" /\ Goto(c, "launch") /\ UNCHANGED result
  /\ UNCHANGED <<svc, undoing, of, config, prior, outside, found, alone>>

(* ... and a stopped service is started, unless it is disabled.            *)
Launch(c) ==
  /\ pc[c] = "launch"
  /\ \/ /\ Run(c) = "stopped"
        /\ svc[of[c]].start # "Disabled"
        /\ SetRun(c, "starting")
        /\ End(c, "ok")
     \/ /\ Run(c) = "stopped"
        /\ svc[of[c]].start = "Disabled"
        /\ End(c, "disabled")
        /\ UNCHANGED <<svc, alone>>
     \/ Run(c) # "stopped" /\ End(c, "not now") /\ UNCHANGED <<svc, alone>>
  /\ UNCHANGED <<undoing, of, config, prior, outside, found>>

(* A call to the manager is refused: the error is returned at once.        *)
CallFails(c) ==
  /\ pc[c] \in Call
  /\ End(c, "refused")
  /\ UNCHANGED <<svc, undoing, of, config, prior, outside, found, alone>>

(* What is under way comes to its end.                                     *)
Settle(s) ==
  /\ svc[s].run \in {"starting", "stopping"}
  /\ svc' = [svc EXCEPT ![s] =
       [start |-> @.start, run |-> IF @.run = "starting" THEN "running" ELSE "stopped"]]
  /\ UNCHANGED <<pc, undoing, of, config, prior, result, outside, found, alone>>

(* A service starts or ends without any caller having asked for it.        *)
ByItself(s) ==
  /\ outside < MaxOutside
  /\ outside' = outside + 1
  /\ \/ /\ svc[s].run \in {"starting", "running"}
        /\ svc' = [svc EXCEPT ![s] = [start |-> @.start, run |-> "stopped"]]
     \/ /\ svc[s].run = "stopped"
        /\ svc[s].start # "Disabled"
        /\ svc' = [svc EXCEPT ![s] = [start |-> @.start, run |-> "starting"]]
  /\ alone' = [d \in Caller |-> alone[d] /\ of[d] # s]
  /\ UNCHANGED <<pc, undoing, of, config, prior, result, found>>

Step(c) ==
  \/ QueryConfig(c)
  \/ QueryStatus(c)
  \/ SetStartType(c)
  \/ LookBeforeStop(c)
  \/ ControlStop(c)
  \/ SeenStopped(c)
  \/ StopTimesOut(c)
  \/ StartRestore(c)
  \/ PeekBeforeStart(c)
  \/ Launch(c)
  \/ CallFails(c)

Next ==
  \/ \E c \in Caller : Step(c)
  \/ \E c \in Caller, s \in Service, cfg \in Configs : StartConfigure(c, s, cfg)
  \/ \E s \in Service : Settle(s) \/ ByItself(s)

Spec == Init /\ [][Next]_vars

-----------------------------------------------------------------------------
(* Properties.                                                             *)

TypeOK ==
  /\ svc \in [Service -> ServiceState]
  /\ pc \in [Caller -> Call \cup {"idle", "set", "done"}]
  /\ undoing \in [Caller -> BOOLEAN]
  /\ of \in [Caller -> Service \cup {Nobody}]
  /\ config \in [Caller -> Config]
  /\ prior \in [Caller -> PriorState]
  /\ result \in [Caller -> {"none", "ok", "not now", "timeout", "disabled", "refused"}]
  /\ outside \in 0 .. MaxOutside
  /\ found \in [Caller -> ServiceState]
  /\ alone \in [Caller -> BOOLEAN]

Undone(c) == pc[c] = "done" /\ undoing[c] /\ alone[c]

(* An undo that reports success has brought a service that nobody else     *)
(* touched back to its start type, and it runs, or stays down, as before:  *)
(* a stop waits until the service is down because "a following operation"  *)
(* could "race a service that is still shutting down" (services.rs:142).   *)
ServiceIsPutBack ==
  \A c \in Caller : Undone(c) /\ result[c] = "ok" =>
    /\ svc[of[c]].start = ToStartType(found[c].start)
    /\ found[c].run = "stopped" => svc[of[c]].run = "stopped"
    /\ found[c].run \in {"starting", "running"} =>
         svc[of[c]].run \in {"starting", "running"}

(* If Windows refuses no call, such an undo fails only for a service that  *)
(* was found disabled and not stopped: "start type is restored before the  *)
(* running state, because a disabled service cannot be started"            *)
(* (services.rs:194-195)                                                    *)
UndoFailsOnlyIfDisabled ==
  \A c \in Caller : Undone(c) /\ result[c] \notin {"ok", "refused"} =>
    /\ result[c] = "disabled"
    /\ found[c].start = "Disabled"
    /\ found[c].run # "stopped"
============================================================================
