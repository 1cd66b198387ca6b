----------------------------- MODULE Providers -----------------------------
(***************************************************************************)
(* Package managers: crates/sio-packages (registry.rs, installer.rs,       *)
(* winget.rs, chocolatey.rs, scoop.rs) and the commands around them,       *)
(* list_apps, refresh_providers and install_apps of                        *)
(* apps/desktop/src-tauri/src/commands.rs with the cache in state.rs.      *)
(*                                                                         *)
(* A registry is what a detection found: the managers in use and the       *)
(* packages they report.  The first detection runs under the write lock of *)
(* the cache and everyone waits for it; a refresh detects without the lock *)
(* and then stores what it found.  winget is asked through a file, whose   *)
(* name is that of the process and not of the detection.                   *)
(***************************************************************************)
EXTENDS Naturals, Sequences

CONSTANTS
  Command,         \* tasks of the UI process
  App,             \* apps the user may choose
  Sources,         \* the managers that offer each app, in order of preference
  Kinds,           \* what a screen lets the user start: list, refresh, install
  Batches,         \* the selections of the user
  InitialMachines, \* what is installed before
  InitialManagers, \* the managers that can be run
  MaxStarts,       \* bound: commands the user starts
  MaxFaults,       \* bound: lost inventories and helpers
  NoCommand, NoRegistry

Managers == <<"winget", "choco", "scoop">>
Manager  == {Managers[i] : i \in DOMAIN Managers}

ASSUME SourcesAssumption ==
  /\ Sources \in [App -> Seq(Manager)]
  /\ Batches \subseteq Seq(App)
  /\ Kinds \subseteq {"list", "refresh", "install"}
ASSUME BoundsAssumption ==
  MaxStarts \in Nat /\ MaxFaults \in Nat
ASSUME ValuesAssumption == NoCommand \notin Command

(* An app under a manager; the case of ids does not matter.  An id that is *)
(* not in the catalog is an app without sources.                           *)
Package  == [app : App, manager : Manager]
Registry == [available : SUBSET Manager, installed : SUBSET Package]

ASSUME MachinesAssumption ==
  /\ InitialMachines \subseteq SUBSET Package
  /\ InitialManagers \subseteq SUBSET Manager
ASSUME RegistryAssumption == NoRegistry \notin Registry

Outcome == {"success", "skipped", "failed"}

NoFile  == [state |-> "none", packages |-> {}]
Partial == [state |-> "partial", packages |-> {}]

VARIABLES
  machine,   \* the packages that are installed
  present,   \* the managers that can be run
  cache,     \* AppState::providers
  lock,      \* the command with the write lock of the cache
  export,    \* the file winget exports to
  pc,        \* where each command is
  job,       \* what it was started for
  scan,      \* its detection: the manager it is at, and what it found
  registry,  \* the registry it works with
  report,    \* the outcomes of its items so far
  session,   \* its helper
  sinkLeft,  \* the helper's session still has its progress sink
  faults, starts,
  began,     \* history: what was installed when its detection began
  crossed    \* history: another asked winget while its detection did

vars == <<machine, present, cache, lock, export, pc, job, scan, registry,
          report, session, sinkLeft, faults, starts, began, crossed>>

environment == <<machine, present>>
installing  == <<report, session, sinkLeft>>
bounds      == <<faults, starts>>
history     == <<began, crossed>>

NoScan  == [at |-> 1, found |-> [available |-> {}, installed |-> {}],
            seen |-> {}, unread |-> {}]
NoJob   == [kind |-> "list", apps |-> << >>]

Init ==
  /\ machine \in InitialMachines
  /\ present \in InitialManagers
  /\ cache = NoRegistry
  /\ lock = NoCommand
  /\ export = NoFile
  /\ pc = [c \in Command |-> "idle"]
  /\ job = [c \in Command |-> NoJob]
  /\ scan = [c \in Command |-> NoScan]
  /\ registry = [c \in Command |-> NoRegistry]
  /\ report = [c \in Command |-> << >>]
  /\ session = [c \in Command |-> "none"]
  /\ sinkLeft = [c \in Command |-> FALSE]
  /\ faults = 0
  /\ starts = 0
  /\ began = [c \in Command |-> {}]
  /\ crossed = {}

Move(c, label) == pc' = [pc EXCEPT ![c] = label]

-----------------------------------------------------------------------------
(* The plan of a batch.                                                    *)

(* The first source whose manager is in use; an app without one is dropped.*)
Usable(a, available) == {i \in DOMAIN Sources[a] : Sources[a][i] \in available}

PreferredSource(a, available) ==
  LET first == CHOOSE i \in Usable(a, available) :
                 \A j \in Usable(a, available) : i <= j
  IN  [app |-> a, manager |-> Sources[a][first]]

(* The loop over the selection.                                            *)
Resolved(apps, available) ==
  LET resolved[n \in 0 .. Len(apps)] ==
        IF n = 0 THEN << >>
        ELSE IF Usable(apps[n], available) = {} THEN resolved[n - 1]
        ELSE Append(resolved[n - 1], PreferredSource(apps[n], available))
  IN  resolved

Resolve(apps, available) == Resolved(apps, available)[Len(apps)]

Plan(c) == Resolve(job[c].apps, registry[c].available)
Item(c) == Plan(c)[Len(report[c]) + 1]

(* RoutingRunner: Scoop runs in the UI process, the others in the helper.  *)
Elevated(package) == package.manager # "scoop"

-----------------------------------------------------------------------------
(* Commands and the cache.                                                 *)

(* A detection begins, and is over.                                        *)
Begin(c) == began' = [began EXCEPT ![c] = machine]
End(c) ==
  /\ scan' = [scan EXCEPT ![c] = NoScan]
  /\ began' = [began EXCEPT ![c] = {}]
  /\ crossed' = crossed \ {c}

(* Nothing keeps commands apart: what a screen disables while it installs  *)
(* is enabled again when the user leaves it and comes back.                *)
StartCommand(c, kind, apps) ==
  /\ pc[c] = "idle"
  /\ starts < MaxStarts
  /\ starts' = starts + 1
  /\ job' = [job EXCEPT ![c] = [kind |-> kind, apps |-> apps]]
  /\ registry' = [registry EXCEPT ![c] = NoRegistry]
  /\ report' = [report EXCEPT ![c] = << >>]
  /\ session' = [session EXCEPT ![c] = "none"]
  /\ sinkLeft' = [sinkLeft EXCEPT ![c] = FALSE]
  /\ IF kind = "refresh" THEN Move(c, "scanning") /\ Begin(c)
                         ELSE Move(c, "looking") /\ UNCHANGED began
  /\ UNCHANGED <<environment, cache, lock, export, scan, faults, crossed>>

(* `providers` returns: `list_apps` shows the registry, `install_apps`     *)
(* goes on to ask for the helper.                                          *)
HaveRegistry(c, r) ==
  /\ registry' = [registry EXCEPT ![c] = r]
  /\ Move(c, IF job[c].kind = "list" THEN "idle" ELSE "elevating")

(* Mutant: the cache is taken as it is.                                    *)
ReadCacheAsIs(c) ==
  /\ pc[c] = "looking"
  /\ lock = NoCommand
  /\ HaveRegistry(c, cache)
  /\ UNCHANGED <<environment, cache, lock, export, job, scan, installing, bounds, history>>

ReadCache(c) ==
  /\ pc[c] = "looking"
  /\ lock = NoCommand
  /\ IF cache = NoRegistry THEN Move(c, "waiting") /\ UNCHANGED registry
                           ELSE HaveRegistry(c, cache)
  /\ UNCHANGED <<environment, cache, lock, export, job, scan, installing, bounds, history>>

(* Mutant: what another task has stored meanwhile is not looked at.        *)
TakeLockBlindly(c) ==
  /\ pc[c] = "waiting"
  /\ lock = NoCommand
  /\ lock' = c
  /\ Move(c, "scanning")
  /\ Begin(c)
  /\ UNCHANGED <<environment, cache, export, job, scan, registry, installing, bounds, crossed>>

TakeLock(c) ==
  /\ pc[c] = "waiting"
  /\ lock = NoCommand
  /\ IF cache = NoRegistry
       THEN lock' = c /\ Move(c, "scanning") /\ Begin(c) /\ UNCHANGED registry
       ELSE HaveRegistry(c, cache) /\ UNCHANGED <<lock, began>>
  /\ UNCHANGED <<environment, cache, export, job, scan, installing, bounds, crossed>>

Scanned(c) == pc[c] = "scanning" /\ scan[c].at > Len(Managers)

(* Mutant: the lock stays taken.                                           *)
KeepFirstLocked(c) ==
  /\ Scanned(c)
  /\ lock = c
  /\ cache' = scan[c].found
  /\ HaveRegistry(c, scan[c].found)
  /\ End(c)
  /\ UNCHANGED <<environment, lock, export, job, installing, bounds>>

(* The first detection is done.                                            *)
KeepFirst(c) ==
  /\ Scanned(c)
  /\ lock = c
  /\ cache' = scan[c].found
  /\ lock' = NoCommand
  /\ HaveRegistry(c, scan[c].found)
  /\ End(c)
  /\ UNCHANGED <<environment, export, job, installing, bounds>>

(* Mutant: a registry that is there is kept.                               *)
StoreOnce(c) ==
  /\ Scanned(c)
  /\ lock = NoCommand
  /\ cache' = IF cache = NoRegistry THEN scan[c].found ELSE cache
  /\ End(c)
  /\ Move(c, "idle")
  /\ UNCHANGED <<environment, lock, export, job, registry, installing, bounds>>

(* `refresh_providers` stores what it found, and its command returns.      *)
Store(c) ==
  /\ Scanned(c)
  /\ lock = NoCommand
  /\ cache' = scan[c].found
  /\ End(c)
  /\ Move(c, "idle")
  /\ UNCHANGED <<environment, lock, export, job, registry, installing, bounds>>

-----------------------------------------------------------------------------
(* `detect`: the managers one after the other.                             *)

AtManager(c, m) ==
  pc[c] = "scanning" /\ scan[c].at \in DOMAIN Managers /\ m = Managers[scan[c].at]

InstalledBy(m) == {p \in machine : p.manager = m}

detecting == <<environment, cache, lock, job, registry, installing, starts, began>>

SkipAbsent(c, m) ==
  /\ AtManager(c, m)
  /\ m \notin present
  /\ scan' = [scan EXCEPT ![c].at = @ + 1]
  /\ UNCHANGED <<detecting, export, pc, faults, crossed>>

(* Mutant: the inventory of a manager replaces those of the others.        *)
ReadInventoryAnew(c, m) ==
  /\ AtManager(c, m)
  /\ m \in present \ {"winget"}
  /\ scan' = [scan EXCEPT ![c].at = @ + 1,
                          ![c].found = [available |-> @.available \cup {m},
                                        installed |-> InstalledBy(m)]]
  /\ UNCHANGED <<detecting, export, pc, faults, crossed>>

(* Chocolatey and Scoop print what they have.                              *)
ReadInventory(c, m) ==
  /\ AtManager(c, m)
  /\ m \in present \ {"winget"}
  /\ scan' = [scan EXCEPT ![c].at = @ + 1,
                          ![c].found = [available |-> @.available \cup {m},
                                        installed |-> @.installed \cup InstalledBy(m)]]
  /\ UNCHANGED <<detecting, export, pc, faults, crossed>>

Exporting == {c \in Command : pc[c] = "exporting"}
Complete(packages) == [state |-> "complete", packages |-> packages]

(* winget is asked: whoever has still to read the file may not find there  *)
(* what its own winget has written, and nor may this one.                  *)
Cross(c) ==
  LET others == {d \in Command \ {c} : pc[d] \in {"exporting", "reading", "removing"}} IN
  crossed' = IF others = {} THEN crossed
             ELSE crossed \cup {c} \cup {d \in others : pc[d] # "removing"}

(* A manager that cannot be asked is in use all the same.  winget may fail *)
(* when it has written its file, in part or all of it, which then stays.   *)
InventoryFails(c, m) ==
  /\ AtManager(c, m)
  /\ m \in present
  /\ faults < MaxFaults
  /\ faults' = faults + 1
  /\ scan' = [scan EXCEPT ![c].at = @ + 1,
                          ![c].found.available = @ \cup {m},
                          ![c].unread = @ \cup {m}]
  /\ IF m = "winget"
       THEN /\ Cross(c)
            /\ \/ export' \in {export, Partial}
               \/ Exporting = {} /\ export' = Complete(InstalledBy(m))
       ELSE UNCHANGED <<export, crossed>>
  /\ UNCHANGED <<detecting, pc>>

(* winget ends without having written anything.  Its exit code is ignored, *)
(* and the file is read that may have been there before.                   *)
WritesNothing(c) ==
  /\ AtManager(c, "winget")
  /\ "winget" \in present
  /\ faults < MaxFaults
  /\ faults' = faults + 1
  /\ scan' = [scan EXCEPT ![c].found.available = @ \cup {"winget"},
                          ![c].unread = @ \cup {"winget"}]
  /\ Cross(c)
  /\ Move(c, "reading")
  /\ UNCHANGED <<detecting, export>>

(* winget writes its file.  While any winget does, it cannot be parsed.    *)
BeginExport(c) ==
  /\ AtManager(c, "winget")
  /\ "winget" \in present
  /\ Cross(c)
  /\ export' = Partial
  /\ scan' = [scan EXCEPT ![c].found.available = @ \cup {"winget"},
                          ![c].seen = InstalledBy("winget")]
  /\ Move(c, "exporting")
  /\ UNCHANGED <<detecting, faults>>

EndExport(c) ==
  /\ pc[c] = "exporting"
  /\ export' = IF Exporting = {c} THEN Complete(scan[c].seen) ELSE Partial
  /\ Move(c, "reading")
  /\ UNCHANGED <<detecting, scan, faults, crossed>>

(* Without the file the inventory is lost, as it is if the file cannot be  *)
(* parsed, which shows only after it was removed.                          *)
ReadExport(c) ==
  /\ pc[c] = "reading"
  /\ IF export = NoFile
       THEN scan' = [scan EXCEPT ![c].at = @ + 1] /\ Move(c, "scanning")
       ELSE /\ scan' = [scan EXCEPT ![c].found.installed = @ \cup export.packages]
            /\ Move(c, "removing")
  /\ UNCHANGED <<detecting, export, faults, crossed>>

(* A file that is being written is not removed, and nobody minds.          *)
RemoveExport(c) ==
  /\ pc[c] = "removing"
  /\ export' = IF Exporting = {} THEN NoFile ELSE export
  /\ scan' = [scan EXCEPT ![c].at = @ + 1]
  /\ Move(c, "scanning")
  /\ UNCHANGED <<detecting, faults, crossed>>

Detect(c) ==
  \/ \E m \in Manager : SkipAbsent(c, m) \/ ReadInventory(c, m) \/ InventoryFails(c, m)
  \/ BeginExport(c) \/ WritesNothing(c) \/ EndExport(c) \/ ReadExport(c) \/ RemoveExport(c)

-----------------------------------------------------------------------------
(* `install_apps` and `install_all`.                                       *)

batch == <<present, cache, lock, export, job, scan, registry, starts, crossed>>

GetHelper(c) ==
  /\ pc[c] = "elevating"
  /\ session' = [session EXCEPT ![c] = "up"]
  /\ Move(c, "installing")
  /\ UNCHANGED <<batch, machine, report, sinkLeft, faults, began>>

(* The prompt was declined, or the helper did not start.                   *)
NoHelper(c) ==
  /\ pc[c] = "elevating"
  /\ Move(c, "idle")
  /\ UNCHANGED <<batch, machine, installing, faults, began>>

Report(c, outcome) == report' = [report EXCEPT ![c] = Append(@, outcome)]
HasItem(c)         == pc[c] = "installing" /\ Len(report[c]) < Len(Plan(c))
CanRun(c)          == Elevated(Item(c)) => session[c] = "up"

(* The registry already has it.                                            *)
SkipInstalled(c) ==
  /\ HasItem(c)
  /\ Item(c) \in registry[c].installed
  /\ Report(c, "skipped")
  /\ UNCHANGED <<batch, machine, pc, session, sinkLeft, faults, began>>

(* The request cannot be sent to a helper that is gone.                    *)
CannotRun(c) ==
  /\ HasItem(c)
  /\ Item(c) \notin registry[c].installed
  /\ ~CanRun(c)
  /\ Report(c, "failed")
  /\ UNCHANGED <<batch, machine, pc, session, sinkLeft, faults, began>>

RunItem(c) ==
  /\ HasItem(c)
  /\ Item(c) \notin registry[c].installed
  /\ CanRun(c)
  /\ Move(c, "running")
  /\ UNCHANGED <<batch, machine, installing, faults, began>>

IsAnswered(c) == pc[c] = "running" /\ CanRun(c)

Answer(c, outcome) ==
  /\ Report(c, outcome)
  /\ Move(c, "installing")
  /\ UNCHANGED <<batch, session, sinkLeft, faults, began>>

(* The verdict on the exit code.                                           *)
Installed(c) ==
  /\ IsAnswered(c)
  /\ machine' = machine \cup {Item(c)}
  /\ Answer(c, "success")

AlreadyThere(c) ==
  /\ IsAnswered(c)
  /\ Item(c) \in machine
  /\ UNCHANGED machine
  /\ Answer(c, "skipped")

Failed(c) ==
  /\ IsAnswered(c)
  /\ machine' \in {machine, machine \cup {Item(c)}}
  /\ Answer(c, "failed")

(* Mutant: an exit code that never came is taken for zero.                 *)
AnswerLostIsSuccess(c) ==
  /\ pc[c] = "running"
  /\ ~CanRun(c)
  /\ machine' \in {machine, machine \cup {Item(c)}}
  /\ Report(c, "success")
  /\ sinkLeft' = [sinkLeft EXCEPT ![c] = TRUE]
  /\ Move(c, "installing")
  /\ UNCHANGED <<batch, session, faults, began>>

(* The helper ended meanwhile: the request fails, and its sink stays in    *)
(* the session.                                                            *)
AnswerLost(c) ==
  /\ pc[c] = "running"
  /\ ~CanRun(c)
  /\ machine' \in {machine, machine \cup {Item(c)}}
  /\ Report(c, "failed")
  /\ sinkLeft' = [sinkLeft EXCEPT ![c] = TRUE]
  /\ Move(c, "installing")
  /\ UNCHANGED <<batch, session, faults, began>>

(* The batch is done when all its sinks are dropped.  It has no more use   *)
(* for the helper, and detects anew.                                       *)
FinishBatch(c) ==
  /\ pc[c] = "installing"
  /\ Len(report[c]) = Len(Plan(c))
  /\ ~sinkLeft[c]
  /\ session' = [session EXCEPT ![c] = "none"]
  /\ Move(c, "scanning")
  /\ Begin(c)
  /\ UNCHANGED <<batch, machine, report, sinkLeft, faults>>

HelperDies ==
  /\ \E c \in Command : session[c] = "up"
  /\ faults < MaxFaults
  /\ faults' = faults + 1
  /\ session' = [c \in Command |-> IF session[c] = "up" THEN "down" ELSE session[c]]
  /\ UNCHANGED <<batch, machine, pc, report, sinkLeft, began>>

Install(c) ==
  \/ GetHelper(c) \/ NoHelper(c)
  \/ SkipInstalled(c) \/ CannotRun(c) \/ RunItem(c)
  \/ Installed(c) \/ AlreadyThere(c) \/ Failed(c) \/ AnswerLost(c)
  \/ FinishBatch(c)

Step(c) ==
  \/ ReadCache(c) \/ TakeLock(c) \/ KeepFirst(c) \/ Store(c)
  \/ Detect(c)
  \/ Install(c)

Next ==
  \/ \E c \in Command :
       \/ \E kind \in Kinds \ {"install"} : StartCommand(c, kind, << >>)
       \/ \E apps \in Batches : "install" \in Kinds /\ StartCommand(c, "install", apps)
       \/ Step(c)
  \/ HelperDies

Spec == Init /\ [][Next]_vars

(* Tasks are polled, package managers end, the prompt is answered.         *)
FairSpec == Spec /\ \A c \in Command : WF_vars(Step(c))

-----------------------------------------------------------------------------
(* The types, and that whoever installs has a registry to plan with.       *)
TypeOK ==
  /\ machine \subseteq Package
  /\ present \subseteq Manager
  /\ cache \in Registry \cup {NoRegistry}
  /\ lock \in Command \cup {NoCommand}
  /\ export \in [state : {"none", "partial", "complete"}, packages : SUBSET Package]
  /\ pc \in [Command -> {"idle", "looking", "waiting", "scanning", "exporting",
                         "reading", "removing", "elevating", "installing", "running"}]
  /\ job \in [Command -> [kind : {"list", "refresh", "install"}, apps : Seq(App)]]
  /\ scan \in [Command -> [at : 1 .. Len(Managers) + 1, found : Registry,
                           seen : SUBSET Package, unread : SUBSET Manager]]
  /\ registry \in [Command -> Registry \cup {NoRegistry}]
  /\ report \in [Command -> Seq(Outcome)]
  /\ session \in [Command -> {"none", "up", "down"}]
  /\ sinkLeft \in [Command -> BOOLEAN]
  /\ faults \in 0 .. MaxFaults
  /\ starts \in 0 .. MaxStarts
  /\ began \in [Command -> SUBSET Package]
  /\ crossed \subseteq Command
  /\ \A c \in Command :
       pc[c] \in {"elevating", "installing", "running"} => registry[c] # NoRegistry

(* What the report says is installed, or was already, is installed: with   *)
(* registries that are out of date, helpers that die under a running       *)
(* command, and other batches at work on the same apps.                    *)
ReportsAreTrue ==
  \A c \in Command : \A i \in DOMAIN report[c] :
    report[c][i] # "failed" => Plan(c)[i] \in machine

(* The managers are probed once for everyone who waits: whoever detects    *)
(* under the lock is the first, although it saw the cache empty before it  *)
(* waited for the lock and others may have filled it.                      *)
DetectionIsShared ==
  \A c \in Command : lock = c => cache = NoRegistry

(* A registry that is stored has everything that was installed when its    *)
(* detection began, by a manager that could be asked, whatever was         *)
(* installed, detected and stored meanwhile, except that two detections    *)
(* that ask winget at one time share a file and may lose what it lists.    *)
RegistryIsComplete ==
  [][\A c \in Command \ crossed : Scanned(c) /\ pc'[c] # "scanning" =>
       \A p \in began[c] :
         p.manager \in present \ scan[c].unread => p \in cache'.installed]_vars

(* After an install the registry is that of the machine: what the batch    *)
(* has installed is no longer offered, unless the inventory could not be   *)
(* read or was shared as above.                                            *)
Fresh(c) ==
  \A i \in DOMAIN report[c] :
    report[c][i] # "failed" =>
      Plan(c)[i] \in cache'.installed \/ Plan(c)[i].manager \in scan[c].unread

FreshAfterInstall ==
  [][\A c \in Command \ crossed :
       job[c].kind = "install" /\ pc[c] = "scanning" /\ pc'[c] = "idle" => Fresh(c)]_vars

(* Every command returns, unless the helper dies under a running package   *)
(* manager: then its progress channel is never closed.                     *)
EveryCommandEnds ==
  \A c \in Command : pc[c] # "idle" ~> pc[c] = "idle" \/ sinkLeft[c]

(* Detections at the same time do not collide: each reads the file its own *)
(* winget has written.                                                     *)
ExportIsOwn ==
  \A c \in Command :
    pc[c] = "reading" => export = Complete(scan[c].seen)
=============================================================================
