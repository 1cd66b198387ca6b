# SIO: a verification development

SIO is a Windows desktop program that installs software through package managers and
applies registry, service and package changes ("tweaks") that it promises to be able to
undo. These TLA+ modules model the parts of it in which order, failure and concurrency
decide whether that promise is kept; TLC checks them on small instances and TLAPS proves
the central results for every value of their constants: any catalog, any number of commands,
requests, names and files.

Paths below are relative to the repository.

## 1. The system and its parts

| part | state it keeps | operations | how it interacts |
| --- | --- | --- | --- |
| tweak engine (`crates/sio-tweaks/src/engine.rs`), undo journal (`journal.rs`), journal types (`crates/sio-core/src/tweak.rs`) | one JSON file per application of a tweak | `apply_all`, `apply`, `revert`, `status`; `write`, `update`, `list`, `active`, `newest_active_for` | called by commands, calls `PrivilegedOps` once per action |
| broker session (`crates/sio-winsys/src/broker.rs`, frames in `crates/sio-core/src/protocol.rs`, `codec.rs`) and helper process (`crates/sio-broker/src/main.rs`) | on the UI side the maps `pending` and `sinks` and a reader task; on the helper side one task per request | `handshake`, `request`, `shutdown`, the reader; `serve`, `execute` | JSON lines over a named pipe, both ways |
| broker state (`apps/desktop/src-tauri/src/broker_state.rs`), elevation (`crates/sio-winsys/src/elevation.rs`) | the route to privileged operations, under a mutex | `get`, `is_connected`; `Session::launch`, `launch_elevated` | commands ask it for a session; it shows the elevation prompt |
| system operations (`crates/sio-winsys/src/{ops,registry,services,system,process}.rs`) | none; they change the machine | set and restore a registry value, configure and restore a service, remove a package, restore point, run a command | called by the helper, or in the UI process when it is elevated |
| system readers (`readers.rs`) | a cache of installed packages, under a mutex | reads of registry values, services and packages, `invalidate` | `list_tweaks` reads through the engine's `status`; `apply_tweaks` and `revert_tweak` drop the cache |
| package providers and installer (`crates/sio-packages/src`) | a detected registry: which managers exist and what they have installed | `detect`, `install_all`, `install_one` | run package managers through the helper, Scoop directly |
| app state and commands (`apps/desktop/src-tauri/src/{state,commands}.rs`) | the catalogs, the cached registry, the journal, the reader | one function per user command | called by the frontend, each call a task of its own |
| profiles (`profiles.rs`, `crates/sio-core/src/profile.rs`) | one JSON file per profile | save, list, delete; files are shared by copying them | commands |
| catalog (`crates/sio-core/src/{catalog,package}.rs`, `catalog/*.json`) | read-only data | parse, validate, choose a source | everything |
| frontend (`apps/desktop/src`) | the selection, what is busy | starts commands, shows events | `ipc.ts` |
| dashboard (`crates/sio-winsys/src/inventory.rs`, `crates/sio-core/src/sysinfo.rs`) | none | queries | `system_snapshot` |

What is hard in it: a change, its capture and its journal entry are three steps in three places, and
anything between them may fail; commands run concurrently and nothing but a disabled button here and
there keeps them apart; the order of journal entries hangs on the wall clock; the helper is another
process that may die with answers under way; a sink, an oneshot or a map entry that nobody drops
keeps a command waiting. `PROJECT.json` lists every such hazard at its line, with the property that
covers it or the reason none does yet.

What makes each part correct:

* engine and journal: whatever has been done in whatever order, undoing it leads back to the
  machine as found; a success is on record; history is never rewritten;
* session: each call takes effect at most once and is told the truth about it, every call
  returns, progress arrives before the answer, the helper does not outlive its UI;
* broker state: one prompt at a time, and only when there is no live helper; no helper left
  behind by a failed launch; whoever waits gets an answer;
* providers and installer: a report is true, an inventory that is stored misses nothing that was
  there when it was begun, and the one after an installation nothing that was installed;
* system operations: what a change reports is what it found, and an undo that succeeds has brought
  the value or the service back, without taking along what others have changed beside it;
* system readers: no command leaves a stale inventory behind, and the screen says of a tweak
  what is so, or that it does not know;
* profiles: what was saved stays on disk until its file is used for something else, what was
  deleted does not come back, and a listing misses nothing.

## 2. Modules

| module | what it is |
| --- | --- |
| `UndoLog` | what an undo log promises of each location, whoever changes it and in how many steps |
| `TweakEngine` | `apply_all`, `apply`, `revert`, the journal directory, the privileged operations as the engine sees them, and the commands that drive them; implements `UndoLog` |
| `MCTweakEngine` | its instances: a two-tweak catalog and the machines SIO may find |
| `TweakEngineProofs` | type correctness, the inductive invariant, the properties it gives, that commands run down, and the refinement of `UndoLog` |
| `PrivilegedCall` | what a caller of `PrivilegedOps` may rely on, whoever carries the call out |
| `BrokerSession` | both ends of a session, the pipe and the two processes; implements `PrivilegedCall` |
| `MCBrokerSession` | its instance |
| `BrokerSessionProofs` | its inductive invariant, its safety properties and the refinement |
| `BrokerState` | `get`, `is_connected` and `Session::launch` under the mutex, and the helper process from its start to its end |
| `MCBrokerState` | its instance |
| `BrokerStateProofs` | its types, `LaunchInvariant` and the three properties that follow |
| `Providers` | detection and its cache, the plan of a batch, the install loop |
| `MCProviders` | its instance |
| `ProvidersProofs` | type correctness, that reports and inventories are true, that one detection serves all, and that the registry is complete and, after an installation, fresh |
| `RegistryValue` | `decode` and `encode`, as operators on values |
| `RegistryOps` | a registry value captured, set and restored, one Windows call at a time |
| `MCRegistryOps` | its instance: the contents a value may have |
| `RegistryOpsProofs` | that values come back, whatever `decode` loses, and that what was read is what is written back |
| `ServiceOps` | a service captured, configured and restored, one call to the service manager at a time |
| `MCServiceOps` | its instance |
| `ServiceOpsProofs` | that services come back, and when an undo can fail |
| `TuningScreen` | `list_tweaks`, `status`, the cached inventory of packages and the commands that drop it |
| `MCTuningScreen` | its instance: a catalog of two tweaks |
| `TuningScreenProofs` | that the inventory is fresh and the screen tells the truth |
| `Profiles` | file names, the profiles directory, and the selection |
| `MCProfiles` | its instance: the names and the files copied in |
| `ProfilesProofs` | that profiles stay, listings are complete and file names are safe |

The modules meet where the code does. `TweakEngine` and `Providers` see a privileged call as
`PrivilegedCall` promises it: it happens or not, and its answer may be lost. `BrokerSession`
implements that promise for one session; `BrokerState` says which session a command gets and takes
what is said over it as one step. `RegistryOps` and `ServiceOps` take apart what is one step of the
engine: `PerformOk` and `RestoreOk` are their operations that succeed, `PerformDenied` those that
fail with nothing changed, `ServiceHalfDone` the one that fails after `SetStartType`, and `Exotic`
in the engine stands for the contents whose `Decode` is `None`. `TuningScreen` sees of the engine's
commands that their actions take effect one after the other and that the inventory is dropped at the
end.

### TweakEngine

A command is a task of the UI process with a program counter `pc[c]`. `StartApply` and
`StartRevert` are the user's choice; everything else in `Step` is what the task does next.

| code | model |
| --- | --- |
| the loop of `apply_all` | `BeginTweak`, `FinishApply`; `todo[c]` is what is left of the batch |
| the loop of `apply` over actions | `PerformOk`, one step per privileged operation; `captured[c]` is `actions` |
| its failures | `PerformDenied` (nothing changed), `ServiceHalfDone` (`set_start_type` done, `stop` failed), `ReplyLost` (done, but the answer never came) |
| `journal.write` | `WriteEntry`, `WriteFails`; the file is `journal[cur[c]][stamp[c]]`, as its name holds the time and the tweak |
| `newest_active_for`, then `revert` | `StartRevert` reads the entry, `NoHelper` is `broker.get()` failing after it, `RestoreOk`/`RestoreFails`/`SkipIrreversible` are the revert plan, `MarkReverted`/`MarkFails` the update |
| the process ending | `Crash`, which may leave any file being written torn |

`machine` maps each location to what it holds. A registry value may be `Absent` or one of `Exotic`,
the contents `decode()` does not know and a capture therefore calls absent. A missing key and a
missing value are one: an undo leaves the key behind. `orphaned` is a history variable: the
locations whose capture was lost in a way the code does not guard against. It grows only in the
actions that lose one: `Crash`, `ServiceHalfDone`, `ReplyLost`, `WriteFails`, the undo whose
restores fail, and a capture of exotic contents.

Nothing in the model keeps commands apart. The user may start any command on any tweak while others
run (the tuning screen disables Undo only on the row that is being undone, and forgets what it
disables when it is left), and the clock may be set back (`ReadClock`, the fault `clock`). Two more
history variables say on which tweaks that happened: `contended`, where two commands had to do with
one tweak at a time, and `misdated`, a tweak applied at a time not after all others of it. What the
properties promise under each is told apart: the files of a contended tweak stay true
(`HistoryIsKept`, `SuccessIsJournalled`), though it may not be undone to its baseline any more; of a
misdated one a file may have been written twice; and neither draws other tweaks in. `Lost` is
`orphaned` with the locations of both. Section 4 comes back to them.

`UndoLog` is what all of this is for, seen from one location: a pile of what it held, with one
entry for each application that is still to be undone. It changes only with what it held before on
the pile, and an entry leaves the pile only when the location holds that again. In the engine
(`Log`) the pile of a location is made of the first captures of it, one from each application that
has a file that is active or is in the making (`Kept`, `Firsts`, `HeldBefore`, `Pile`), and `lost`
is `Lost`.

That a command comes to an end is said in two parts, without fairness: one under way can always take
a step (`NoCommandIsStuck`), and each of its steps ends it, begins a tweak of its batch or is one
less of those it takes before it does (`EveryStepCounts`). So it ends if the runtime goes on with
it.

Not modelled: other programs changing the machine; an operation that takes effect in the
helper after the UI has crashed; `broker.get()` failing before an apply (nothing has happened
yet); restore points, except as time that passes (`ReadClock`); the case of an unreadable journal
directory. `status` is in `TuningScreen`.

### BrokerSession

| code | model |
| --- | --- |
| `handshake` | `SayHello`, `ReadHello`, `NoHello`, `BeginServing`; the hello of a stale helper does not verify |
| `request` | `Register` (pending), `KeepSink`, `Send` or `SendFails` and `Withdraw`, `Return`: a step per await |
| the reader task | `ReadProgress`, `ReadResponse` (drops the sink) then `Settle` (answers), `StopReading`, `Drain` |
| `serve` | `ReadRequest`, `StopServing` |
| a request's task in the helper | `Perform`, `ForwarderEnds`, `Reply`, beside its forwarder `Forward` and the package manager's output `MakeProgress` |
| the processes | `HelperDies`, `Leave`, `Gone`, `UiExits`; `AskToLeave` is `shutdown` |
| `install_apps` waiting for its channel to close | `Finish` |

The pipe is a bounded FIFO queue each way; when an end closes, what was on its way is cut at any
place. `effect[r]` is what the operation came to and may appear after the caller was told that
its answer is lost, which is what `PrivilegedCall` allows and why the engine has both
`PerformDenied` and `ReplyLost`. The engine does not model the third case, an effect that comes
later than the lost answer; it needs a helper that goes on after its reader or its UI is gone.

The fallback reply of `serve` is not modelled: every payload in use can be encoded, and when the
pipe is broken the fallback is lost with the reply. `Oversized` is a reply longer than the reader
accepts (`codec.rs:46`), a fault of its own in `Faults`; a request that long, which would end the
helper's reader instead, is not modelled: what the UI sends is short.

### BrokerState

| code | model |
| --- | --- |
| `inner`, a mutex around `Option<Route>` | `queue` (its first has the mutex, as tokio hands it on in order) and `route` |
| `get` | `Reuse`, `GoInProcess`, `Prompt` and the launch after it, `CannotLaunch`; the mutex is held until `Return` |
| `is_connected` | `AnswerStatus`, which waits for the same mutex |
| `launch`: the pipe and the prompt | `Prompt`; `Agree` starts the process, `Decline` is `ElevationDeclined` or a process that cannot be started |
| its `timeout` around `connect` and the poll of the process | `Connected`, `TimeOut`, whatever the helper has come to by then, `HelperLost` |
| `handshake` | `Establish`, `Refuse` (the hello of another version), `HelperLost` |
| `?` anywhere in `launch` | `FailLaunch`: the server end of the pipe is dropped with the error |
| `main` and `serve_pipe` of the helper | `Open`, `SayHello`, `Leave` (it cannot open the pipe, or reads its end), `Die` |

A helper has the number of the command that launches it, so that `Helper` needs no bound of its
own. `UiExits` leaves whatever the prompt that was open comes to. Left out: `is_elevated` failing
(it counts as not elevated), the quoting of arguments.

### Providers

| code | model |
| --- | --- |
| `AppState::providers` | `ReadCache` under the read lock, `TakeLock` with its second look, `KeepFirst` |
| `refresh_providers` | a detection without the lock, then `Store` |
| `detect` | one step per manager: `SkipAbsent`, `ReadInventory`, `InventoryFails`, and for winget's file `BeginExport`, `EndExport`, `ReadExport`, `RemoveExport` or, when winget writes none, `WritesNothing` |
| the plan in `install_apps` | `Plan`, a function of the batch and the registry: `preferred_source` for each app that has one; an id without is dropped and gets no outcome |
| `broker.get()` | `GetHelper`, `NoHelper` |
| the loop of `install_all` | `SkipInstalled`, `RunItem` and its outcomes `Installed`, `AlreadyThere`, `Failed`, `AnswerLost`, or `CannotRun` when the helper is gone |
| `forwarder.await` | the guard of `FinishBatch`: the sink of a lost answer stays in the session |

Nothing here outlives the UI process, so its end is not an action. Lists, refreshes and installs
overlap as they may: what a screen disables while it installs is enabled again when it is left and
entered anew. The export file is external: while some winget writes it, it cannot be parsed or
removed, and a winget that fails may leave an old one, a part or a whole one behind. It has one name
for all detections of the process, so those that ask winget at one time may lose what it lists.
`began` (what was installed when a detection began) and `crossed` (another asked winget during it)
are history and say so. Not modelled: other programs
installing or removing packages, a package manager that goes on after the helper it ran in has
died, versions and updates, two apps with the same package. `install_all`'s branch for a manager
that is not available cannot be reached from `install_apps`, which resolves its plan with the
same registry.

### RegistryOps and RegistryValue

| code | model |
| --- | --- |
| `registry_set` in `ops.rs` | `StartSet`, then `capture_prior` and `write_value` |
| `key_exists`, `read_raw`, `read_value` | `CheckKey`, `ReadSize` and `ReadBytes` (the size first, then the bytes, which may be too many by then) |
| `write_value` | `CreateKey`, `SetValue`, which fails when the key has gone in between |
| `registry_restore`, `restore` | `StartRestore`; `delete_value` is `OpenKey` and `DeleteValue`, and the key stays |
| an error of any call | `CallFails` |
| other programs | `OutsideWrites`, `OutsideDeletes` a whole key |
| `decode`, `encode` | `Decode`, `Encode` on units: an inner NUL, empty strings in a list, lone surrogates and a missing terminator are there, since `decode` drops or replaces them |

A caller that has set a value may restore it, or may never do so; `broker_self_test` does both.
`found` and `alone` are history: what the location held, and whether anybody else has changed it
since. `REG_DWORD` stands for `REG_QWORD` too, and `REG_SZ` for `REG_EXPAND_SZ`; both pairs are
handled alike.

### ServiceOps

| code | model |
| --- | --- |
| `query` | `QueryConfig`, `QueryStatus`; a start type that is not known becomes `Manual` |
| `set_start_type` | `SetStartType` |
| `stop` | `LookBeforeStop`, `ControlStop`, then `SeenStopped` or `StopTimesOut` of the polling loop |
| `start` | `PeekBeforeStart`, `Launch` |
| `restore` | `StartRestore`: the start type first, then the run state |
| the service manager | `Settle` (a service comes up or goes down), `ByItself` |

### TuningScreen

| code | model |
| --- | --- |
| `list_tweaks` | `StartList`, one action read per step, `EndList`; `latest` is the list the screen waits for |
| `for_build`, `Applies::matches` | `Offered` |
| `status`, `action_is_applied` | `ReadSetting`, `AskInventory`, `Note` with `StatusFrom` |
| `installed_packages` under its tokio mutex | `queue`; `FromCache`, `StartPowerShell`, `PowerShellEnds`, `StoreInventory`, `NoPowerShell` |
| `apply_tweaks`, `revert_tweak` | `StartCommand`, `NextTweak` of a batch, `Perform`, `PerformFails`, and `AskToDrop` with `Invalidate` |
| other programs | `Outside` |

The result of PowerShell and its exit code come apart in the model as they do in the code: after a
failure `inventory` is any part of the packages, and it is stored all the same. `doubt` (what has
been changed while a list was made) and `blind` (tweaks looked up in a failed inventory) are
history: they say what no list could know, and `ScreenIsCurrent` allows no other error. A batch goes
on with any tweak that is offered, for as long as it likes. An undo sets a setting to what was
captured, which may be what the tweak wants as well, or fails to and goes on; packages it leaves.

### Profiles

| code | model |
| --- | --- |
| `safe_file_name`, `path_for` | `SafeFileName`, and `PathFor` with what NTFS makes of it |
| `save`, which is `fs::write` | `OpenFile` (the file is emptied), `WriteFile`; `SaveFails` between or before them; what is written to a file deleted meanwhile is lost (`detached`) |
| `list` | `StartList` (the directory), `ReadFile` each, `EndList` |
| `delete` | `Delete` of a profile that is `shown`, by the name in the file, not by the name of the file; it may have gone since |
| a profile somebody shares | `Import` copies a file in, under any name |
| `stores/selection.ts` with the two views | `Toggle`, `Clear`, `ApplyProfile` of a profile that is shown, `StartInstall`, `EndInstall`, which clears everything when a report is returned |
| the process ending | `Crash`, also between the two steps of a save |

Names are sequences over the classes of characters that `safe_file_name` tells apart. Left out: two
saves of one profile that mix their bytes (a rest of the longer one makes the file `Torn`), the
limits of path length, and a second window, which the program does not have.

## 3. Runs

| run | expect | shows |
| --- | --- | --- |
| `TweakEngine` | pass | all properties of the engine, two commands that may meet on one tweak, one fault of any kind, and that it implements `UndoLog` |
| `BrokerSession` | pass | all properties of a session, and that it implements `PrivilegedCall` |
| `BrokerState` | pass | one helper at a time, prompts only when needed, nothing left behind, every command answered |
| `Providers` | pass | true reports, one first detection, a complete registry whenever one is stored and a fresh one after an install, every command ends |
| `RegistryOps` | pass | a failed set has changed nothing, a restore gives back what was read, and takes nothing of others along |
| `ServiceOps` | pass | an undo that succeeds has the service back, and only a service found disabled can make it fail |
| `TuningScreen` | pass | no inventory left stale, and a screen that is right or says unknown |
| `Profiles` | pass | profiles stay, deleted ones do not come back, listings are complete |
| `EngineCrash` | `ChangesAreOnRecord` fails | one write per tweak, after all its actions: a crash before it loses the captures |
| `SessionOversized` | `EveryCallReturns` fails | one unreadable reply ends the reader; the helper is alive, the session stays in use and later calls wait for ever |
| `ProvidersCollision` | `ExportIsOwn` fails | two detections of one process share winget's export file |
| `TuningInventory` | `NeverGuessedAt` fails | PowerShell fails and what it printed is cached: a tweak nobody could check is shown with a status, whichever it is |

Bounds. The engine's catalog has a tweak that writes one value twice, which is what the order of a
revert plan is for, and one that stops a service and removes a package; `MaxClock = 2` gives two
applications, so that one tweak can have two active entries; two commands are enough for any
conflict between an apply and an undo; `MaxFaults = 1` lets each fault happen at each place.
`OrderOrNoFault` stops where every tweak has been drawn into disorder and a fault has happened as
well: no location is left then of which undoing is promised. Nothing tells the two commands apart,
so they are symmetric (`CommandSymmetry`); the run has no liveness property, which symmetry could
hide. It has 723,083 states. The session has one plain and one streaming request, since what a
request meets is at most a frame of another in front of its own; the pipe holds one frame, so that
every writer can find it full; two updates, so that a forwarder can be one behind. The same session
with three requests passes too (354,163 states). The broker state has three commands, so that two
wait while one launches, and four starts, so that a launch can follow a failed and a lost one.
`Providers` has two commands and two starts, of any kind and at any time: two detections at once are
what shares the file and the cache, and a third would meet what the second meets. Its apps are one
that two managers of the helper offer, one only Scoop has, and one nobody has; the managers found
are none, winget and Scoop, or Chocolatey and Scoop (415,751 states).

`RegistryOps` has two values under one key, as a restore could touch a neighbour; its contents are
every case `decode` tells apart, its values one number and one list, and another program may
interfere once. `ServiceOps` has one service, found in any of its 24 states, and two callers;
services do not touch each other. `TuningScreen` has two lists, the least that can overlap, beside
one command that changes a setting and a package, and a tweak of the other Windows, so that lists
skip one (2,929,091 states). `Profiles` has two names that share a file (`w` and `w.`) and one that
Windows takes for a device (`CON.w`), two saves, a listing and an installation; one file may be
copied in: a torn one or a profile under another name (1,682,240 states).

Fairness, in `BrokerSession`, `BrokerState` and `Providers`. Weak fairness for the steps of each
task: the runtimes poll every task that can go on. None for the user, for faults or for a process
ending. A privileged operation is assumed to end; a package manager that never exits keeps its call
waiting, as in the code. `EveryCallReturns` and `HelperLeaves` hold under it although the pipe can
be full both ways, because neither reader ever waits for a writer of its own side. In `BrokerState`
the prompt is assumed to end, as the user answers it or Windows dismisses it, and a helper that has
connected to say hello or end; that a helper connects is not assumed, which is what the timeout is
for. In `Providers` package managers and prompts end; `EveryCommandEnds` names the one way an
install may hang. The engine needs none (`NoCommandIsStuck`, `EveryStepCounts`). `RegistryOps`,
`ServiceOps`, `TuningScreen` and `Profiles` state no liveness: their operations are loops over a few
calls, and what they wait for, a mutex that is handed on in order, is released by whoever holds it.

Known from the models, without a run of their own:

* an undo whose restores fail is marked as done all the same (`engine.rs:178`); `ChangesAreOnRecord`
  is false for that reason too. The passing run takes it in through the list of failures in
  `RevertRestoresFirstCapture`;
* a service whose start type is set and which then does not stop keeps the new start type on no
  record (`ops.rs:63-68`);
* with the clock set back, a later journal entry sorts as the older or takes its file
  (`journal.rs:45`). The passing run has it, and excepts the tweaks it happens to (`misdated`);
* nothing keeps an undo and an apply of one tweak apart (`TweaksView.vue:109-127`), and either may
  then capture or restore what the other has written. The passing run has that too, and excepts the
  tweak from what it says of undoing (`contended`), not from what it says of the files;
* when the helper dies during an install its sink stays in the session, and `install_apps` waits for
  its channel for ever (`broker.rs:212-218`);
* an app of a profile that no manager offers is missing from the report of its batch
  (`commands.rs:171-180`), although the comment there (167-168) says that the installer reports it;
* the selection is cleared when a report is returned, whatever it says: apps that failed, apps
  ticked meanwhile and tweaks lose their ticks (`AppsView.vue:89-91`);
* an older detection that ends last replaces a newer one in the cache (`state.rs:101`);
* `safe_file_name` trims dots so that `a.` does not end up as the file of `a` unseen, and so gives
  both the same name: saving one replaces the other (`profiles.rs:43-45`); and the underscore comes
  after an extension (`CON.w_`), where older versions of Windows still take the name for a device;
* `broker_self_test` restores its value but leaves the key it has created, as every restore does
  (`registry.rs:265`).

## 4. Proofs

`TweakEngineProofs` proves, for every value of the constants:

* `TypeCorrect`, `JournalIsHistory`, `SuccessIsOnRecord`, `CommandsRunDown`: `TypeOK`,
  `HistoryIsKept`, `SuccessIsJournalled` and `EveryStepCounts`, without further assumptions;
* `EngineIsSound`, `UndoIsPossible`, `RevertIsFaithful`: `EngineInvariant`, `UndoReachesBaseline`
  and `RevertRestoresFirstCapture`, assuming `CatalogIsDisjoint`;
* `UndoLogIsImplemented`: `Spec => ImplementsUndoLog`, under the same assumption.

`CatalogIsDisjoint` is what the code leaves to the authors of the catalog: no two tweaks change one
location. No theorem assumes anything of the user or the clock. Commands may overlap on one tweak
and the clock may go back, and what that costs is in the properties: those tweaks, and no others.

The argument. `UndoReachesBaseline` says that the oldest capture SIO has of a location is its
baseline, or that it has none and the location is unchanged. That is not inductive: a step of an
apply is harmless only because its captures are newer than all others, and marking an entry
reverted only because it is the newest entry and its restores have put back what it captured. So
the invariant grows in three layers, each inductive given those below it:

1. *Structure*: types, the shape of a command (`CommandShape`), captures in catalog order
   (`CapturesFit`);
2. *Ordered*: commands on one tweak make it contended, and apply it at different times or make it
   misdated (`HoldersDiffer`), so that no file of another is written twice and times grow where
   nobody contends (`TimeGrows`); what a revert works from is still in its file, or marked or torn
   by another that works from the same (`RevertSource`), and where nobody contends it is the newest
   active entry; what the plan has come to so far is back or on the list of failures
   (`RevertProgress`); an undo of what a running batch has applied works from all its captures
   (`UndoIsOfAll`);
3. `UndoReachesBaseline` itself. To a location that is not in `Lost` a step does one of three things
   (`LocationStep`): it changes no capture of it, and the location itself only for a command that
   has one (`Quiet`); it drops what an application has captured of it, once that is restored
   (`Dropped`); or it carries out an action on it and adds the capture (`Added`). `EachLocation`
   proves that for every action, and three lemmas that none of the three loses the baseline.

`TweakEngine.cfg` checks the same invariant, which is how each layer was found before it was proved.

The refinement starts from `EachLocation` too, and asks of each of the three what it does to the
pile: `QuietRefines`, `AddRefines` and `DropRefines`. Two facts carry it. The pile of a location
does not depend on where a capture is, so that writing the entry, which moves captures from the
command to its file, is a stutter (`PilesHold`). And whoever changes a location has the top of its
pile (`TopOfPile`, `OwnPair`): a second action of the same application on it adds a capture that
is not its first, so the pile stays, and the undo that drops the top has put the first capture back
by then, although it has restored the later ones before.

`BrokerStateProofs` proves `TypeOK`, `LaunchInvariant`, `EveryHelperIsOwned`, `OldSessionsAreDead`
and `PromptIsNeeded` for any number of commands, without further assumptions. `LaunchInvariant` is
what makes them inductive: only the holder of the mutex is in a launch, while it is there is no
route, and its number belongs to nobody else. So the one helper that may run with an open pipe is
the route's or that of the launch; a failed launch closes its pipe in the step that gives the mutex
away; and a prompt, which needs a route that is dead, finds no other helper alive.

`ProvidersProofs` proves, for any number of commands, apps and batches, however they overlap,
`TypeOK`, `ReportsAreTrue`, `DetectionIsShared`, `RegistryIsComplete` and `FreshAfterInstall`. A
skipped item is one the registry lists, so true reports need that inventories are true
(`InventoriesAreTrue`: neither a registry, a scan under way nor the export file lists what is not
installed) and that a batch has the registry of its plan; the model has no action that removes a
package. That an inventory may miss a package is not excluded, and happens in `ProvidersCollision`.

Types need what the plan of a batch is. `Resolved` is a recursive function; that there is such a
function, and that its value is a sequence of items the managers offer, is proved by induction
(`AllOfNat`: a set of numbers with 0 and every successor is all of them, since `<` is well-founded;
the library's own induction theorems take an operator, which no prover here can instantiate).

The two properties of what is stored rest on one fact (`NothingIsMissed`): of a package installed
when a detection began, at any moment of it, it is found, its manager is still to be read or could
not be read, or it is in the file that this detection will read. That file is its own while nobody
else is at it (`FileIsOwn`), and whoever did meet another there is in `crossed`: the exception both
properties state, and `ProvidersCollision` is what it costs. A batch is over when the detection
after it begins (`BeganTrue`, `Purposes`), and its managers can still be run (`InUse`), so freshness
after an installation is completeness of that detection, whoever detects and stores meanwhile.

`RegistryOpsProofs` and `ServiceOpsProofs` prove the types and the two properties of each, for any
number of callers, values and services. Their invariants follow an operation that nobody has
disturbed call by call: before the change the location is as found (`Before`), from the capture on
what is reported fits what was found (`Reported`), and the undo leads from there back. What they use
of `decode` and `encode` is proved as well, for contents of any length: `WhatWasReadComesBack`
says that decoding what `Encode` makes of a decoded value gives that value again, although `Decode`
drops empty strings of a list and stops at the first NUL of a string. `WritingAssumption` says no
more than that the contents of an instance include what a restore may write.

`BrokerSessionProofs` proves, for any requests, length of the pipe and number of updates, the types,
`ProgressIsComplete`, `SinksAreReleased` and `SessionImplementsCall`: `Spec => CallSpec`, the
refinement of `PrivilegedCall`. `NobodyIsForgotten` is proved where `"oversized" \notin Faults`;
`SessionOversized` shows what happens otherwise. The invariant says of each request where it is
(`OnePlace`: unsent, on the pipe, with a task, or answered), what its caller has been told and who
still has to (`Oneshot`), how long its sink is kept (`Sink`), and how many updates were made, sent,
are on the pipe and have been heard (`Count`). The last two are what makes progress complete:
nothing on the pipe about a request follows its answer (`Ordered`), and while the reader reads,
every update sent is on the pipe or heard.

`TuningScreenProofs` proves `TypeOK`, `OneAtATime`, `InventoryIsFresh` and `ScreenIsCurrent` for any
catalog, lists and commands; `OneAtATime`, that only the holder of the mutex runs PowerShell, is
proved only: no run checks it. An inventory about to be stored is as fresh as the cached one has to
be (`Supply`), because a command that changes a package while it is made stands in `Disputed` until
its own turn at the mutex. A list is right about the tweaks it has passed, and its count of hits is
right as far as a status can tell (`Progress`): all, none, or something between.

`ProfilesProofs` proves `ShelfIsTrue` and `ListingIsComplete` for any names and files and any number
of saves, listings and deletions. The two invariants stand side by side; beside its property each
has its types and one more fact (`DevicesAreNoFiles`, `SteadyIsThere`). How a file name is made is
not used, so they hold for any two names that share a
file. `FileNamesAreSafe` is about how it is made: whatever the user types, of any length and over
any characters, the name is not empty, holds nothing that Windows forbids, a path separator least of
all, and neither begins nor ends with a blank.

Only model-checked: liveness (`EveryCallReturns`, `HelperLeaves`, `EveryGetReturns`,
`AbandonedHelpersEnd`, `EveryCommandEnds`) and `NoCommandIsStuck`, which is about `ENABLED`; both
are out of the prover's reach. What a violation run shows is a counterexample, not a proof.

## 5. Not modelled, and what could come next

* the dashboard (`inventory.rs`, `sysinfo.rs`), translations, icons, rendering and packaging:
  queries and layout, with no state that a step could get wrong;
* restore points, and `process.rs` below its promise: how a program is started and its output
  decoded is between the program and Windows;
* of the catalog, parsing and validation: it is read-only data, and what the engine needs of it (no
  location shared by two tweaks) is an assumption that validation does not establish, see the
  hazards;
* of the package managers, removals, versions, updates and the meaning of single exit codes.

What would add most: the cached inventory composed with the engine itself, so that one module has
the journal and the screen, and a proof that `BrokerState` and `BrokerSession` together give a
command what `PrivilegedCall` promises across sessions.
