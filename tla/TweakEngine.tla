---------------------------- MODULE TweakEngine ----------------------------
(***************************************************************************)
(* The tweak engine and its undo log: `apply`, `apply_all` and `revert` of *)
(* crates/sio-tweaks/src/engine.rs, the JournalStore of journal.rs, the    *)
(* journal types of crates/sio-core/src/tweak.rs, and what the privileged  *)
(* operations they call do to the machine (crates/sio-winsys/src/ops.rs,   *)
(* services.rs, registry.rs), driven by the `apply_tweaks` and             *)
(* `revert_tweak` commands of apps/desktop/src-tauri/src/commands.rs.      *)
(*                                                                         *)
(* A command is a task of the UI process.  Its steps interleave with those *)
(* of the other commands at every privileged operation and every file      *)
(* access, where the code awaits.  A journal file is named by the time of  *)
(* application and the tweak, so the journal is a table indexed by both.   *)
(***************************************************************************)
EXTENDS Naturals, Sequences

CONSTANTS
  RegLoc,      \* registry values: a (hive, path, name) each
  Service,     \* services
  Appx,        \* preinstalled packages
  RegValue,    \* what a registry value may hold ...
  Absent,      \* ... when it exists at all
  Exotic,      \* the registry contents decode() has no RegistryValue for
  StartType,   \* service start types
  Disabled,    \* the start type of a service that cannot be started
  Catalog,     \* the tweaks in catalog order: a sequence of action sequences
  Command,     \* the commands that may run at the same time
  MaxClock,    \* bound: how often the clock is read
  Baselines,   \* the machines SIO may find
  Faults,      \* which kinds of fault may happen ...
  MaxFaults    \* ... and bound: how many of them, in all

Location   == RegLoc \cup Service \cup Appx
Reversible == RegLoc \cup Service
Tweak      == 1 .. Len(Catalog)
NoTweak    == 0
Stamp      == 0 .. MaxClock - 1

RegState     == RegValue \cup {Absent}
ServiceState == [start : StartType, running : BOOLEAN]

Action == [at : RegLoc, value : RegValue \ Exotic]
     \cup [at : Service, start : StartType, stop : BOOLEAN]
     \cup [at : Appx]

(* A captured action.  An Appx removal records only that it happened.      *)
Captured == [at : RegLoc, prior : RegState]
       \cup [at : Service, prior : ServiceState]
       \cup [at : Appx]

(* What a location may hold.  A package is there or not.                   *)
IsState(l, s) ==
  /\ l \in RegLoc => s \in RegState
  /\ l \in Service => s \in ServiceState
  /\ l \in Appx => s \in BOOLEAN

IsMachine(m) ==
  /\ DOMAIN m = Location
  /\ \A l \in Location : IsState(l, m[l])

(* An operation is denied; a service does not stop; the helper goes away   *)
(* with an answer; a journal file cannot be written; a restore is denied;  *)
(* the UI process ends; the wall clock is set back.                        *)
FaultKind ==
  {"denied", "service", "reply", "journal", "restore", "crash", "clock"}

ASSUME LocationsAreDistinct ==
  /\ RegLoc \cap Service = {}
  /\ RegLoc \cap Appx = {}
  /\ Service \cap Appx = {}
ASSUME ValuesAreDistinct ==
  /\ Absent \notin RegValue
  /\ Exotic \subseteq RegValue
  /\ Disabled \in StartType
ASSUME CatalogIsValid ==
  /\ Catalog \in Seq(Seq(Action))
  /\ \A t \in Tweak : Catalog[t] # << >>
ASSUME BoundsAssumption ==
  /\ MaxClock \in Nat \ {0}
  /\ MaxFaults \in Nat
  /\ Faults \subseteq FaultKind
  /\ \A m \in Baselines : IsMachine(m)

VARIABLES
  machine,   \* what the machine holds
  journal,   \* the journal directory: journal[t][at] is the file <at>-<t>.json
  clock,     \* the next reading of the wall clock
  pc,        \* where each command is
  todo,      \* the tweaks of a batch not begun yet
  cur,       \* the tweak being applied or reverted
  stamp,     \* applied_at of the entry being made or undone
  captured,  \* the captures made so far, or those of the entry being undone
  left,      \* how many of the entry's actions revert has not come to yet
  failures,  \* the locations revert could not put back
  applied,   \* the tweaks the running batch has reported a success for
  faultsLeft, \* how many faults may still happen
  baseline,  \* history: the machine before SIO changed anything
  orphaned,  \* history: locations changed without a capture being kept
  contended, \* history: tweaks two commands had to do with at one time
  misdated   \* history: tweaks applied at a time not after all they were applied at

history == <<baseline, contended, misdated>>
cmdVars == <<todo, cur, stamp, captured, left, failures, applied>>
vars ==
  <<machine, journal, clock, pc, cmdVars, faultsLeft, orphaned, history>>

-----------------------------------------------------------------------------
(* The journal directory.                                                  *)

FileState == {"missing", "torn", "active", "reverted"}
File == [state : FileState, actions : Seq(Captured)]

NoFile       == [state |-> "missing", actions |-> << >>]
TornFile     == [state |-> "torn", actions |-> << >>]
Entry(seq)   == [state |-> "active", actions |-> seq]
Undone(seq)  == [state |-> "reverted", actions |-> seq]

Exists(t, at) == journal[t][at].state # "missing"

(* `active`: a file that parses and is not marked reverted.                *)
Active(t, at) == journal[t][at].state = "active"

(* Mutant: the oldest active entry, the sort having lost its Reverse.      *)
OldestFirst(t, at) ==
  /\ Active(t, at)
  /\ \A other \in Stamp : Active(t, other) => at <= other

(* `newest_active_for` returns the active entry of t with the latest time. *)
Newest(t, at) ==
  /\ Active(t, at)
  /\ \A other \in Stamp : Active(t, other) => other <= at

(* Mutant: one file per tweak, as if its name did not hold the time.       *)
WriteByTweak(c, f) == [journal EXCEPT ![cur[c]][0] = f]

(* The file of this command after a write of f.                            *)
Write(c, f) == [journal EXCEPT ![cur[c]][stamp[c]] = f]

-----------------------------------------------------------------------------
(* Privileged operations.                                                  *)

(* What a change leaves at its location, where it finds s.                 *)
After(a, s) ==
  IF a.at \in RegLoc THEN a.value
  ELSE IF a.at \in Service
    THEN [start |-> a.start, running |-> s.running /\ ~a.stop]
    ELSE FALSE

(* Mutant: the capture is taken once the change is made.                   *)
CaptureAfter(a, s) ==
  IF a.at \in Appx THEN [at |-> a.at] ELSE [at |-> a.at, prior |-> After(a, s)]

(* Mutant: the capture is the default, not what was found.                 *)
CaptureDefault(a, s) == [at |-> a.at, prior |-> Absent]

(* What the change reports of the state s it found.  A registry content    *)
(* decode() does not know is taken for a missing value.                    *)
Undecodable(a, s) == a.at \in RegLoc /\ s \in Exotic
Capture(a, s) ==
  IF a.at \in Appx THEN [at |-> a.at]
  ELSE [at |-> a.at, prior |-> IF Undecodable(a, s) THEN Absent ELSE s]

(* A service whose start type is being set to disabled cannot be started.  *)
Startable(s, prior) ==
  prior.running /\ ~s.running => prior.start # Disabled

(* The start type goes first, so it is what a failed restore leaves.       *)
HalfRestored(s, prior) == [start |-> prior.start, running |-> s.running]

-----------------------------------------------------------------------------
Working(c) == pc[c] \in {"next", "perform", "journal", "restore", "mark"}
Forward(c) == pc[c] \in {"next", "perform", "journal"}
Applying(c) == pc[c] \in {"perform", "journal"}
Reverting(c) == pc[c] \in {"restore", "mark"}

(* The tweaks a command still has to do with.                              *)
Holds(c, t) == Working(c) /\ (t \in todo[c] \/ t = cur[c])
Busy(t) == \E c \in Command : Holds(c, t)

Located(seq) == {seq[i].at : i \in DOMAIN seq}

Fault(kind) ==
  /\ kind \in Faults
  /\ faultsLeft > 0
  /\ faultsLeft' = faultsLeft - 1

Goto(c, label) == pc' = [pc EXCEPT ![c] = label]

(* A command that is not running holds nothing.                            *)
Rest(c) ==
  /\ todo'     = [todo EXCEPT ![c] = {}]
  /\ cur'      = [cur EXCEPT ![c] = NoTweak]
  /\ stamp'    = [stamp EXCEPT ![c] = 0]
  /\ captured' = [captured EXCEPT ![c] = << >>]
  /\ left'     = [left EXCEPT ![c] = 0]
  /\ failures' = [failures EXCEPT ![c] = {}]
  /\ applied'  = [applied EXCEPT ![c] = {}]

Init ==
  /\ baseline \in Baselines
  /\ machine  = baseline
  /\ journal  = [t \in Tweak |-> [at \in Stamp |-> NoFile]]
  /\ clock    = 0
  /\ pc       = [c \in Command |-> "idle"]
  /\ todo     = [c \in Command |-> {}]
  /\ cur      = [c \in Command |-> NoTweak]
  /\ stamp    = [c \in Command |-> 0]
  /\ captured = [c \in Command |-> << >>]
  /\ left     = [c \in Command |-> 0]
  /\ failures = [c \in Command |-> {}]
  /\ applied  = [c \in Command |-> {}]
  /\ faultsLeft = MaxFaults
  /\ orphaned = {}
  /\ contended = {}
  /\ misdated = {}

-----------------------------------------------------------------------------
(* Applying.                                                               *)

(* Asking for a restore point takes far longer than a millisecond, so the  *)
(* next command that reads the clock reads a later time, unless somebody   *)
(* has set it back meanwhile.                                              *)
ReadClock(now) ==
  /\ clock < MaxClock
  /\ clock' = clock + 1
  /\ \/ now = clock /\ UNCHANGED faultsLeft
     \/ now < clock /\ Fault("clock")

(* A tweak applied now would not be the latest application of it.          *)
NotAfter(t, now) ==
  \/ \E at \in Stamp : Exists(t, at) /\ now <= at
  \/ \E c \in Command : Forward(c) /\ Holds(c, t) /\ now <= stamp[c]

(* The user applies the tweaks of a batch.  All of them get one timestamp. *)
(* Nothing keeps two commands apart: the buttons that are disabled while   *)
(* one runs belong to one page, and an undo disables its own row only.     *)
StartApply(c, batch) ==
  /\ pc[c] = "idle"
  /\ \E now \in Stamp :
       /\ ReadClock(now)
       /\ stamp' = [stamp EXCEPT ![c] = now]
       /\ misdated' = misdated \cup {t \in batch : NotAfter(t, now)}
  /\ contended' = contended \cup {t \in batch : Busy(t)}
  /\ Goto(c, "next")
  /\ todo' = [todo EXCEPT ![c] = batch]
  /\ UNCHANGED <<machine, journal, cur, captured, left, failures, applied, orphaned, baseline>>

(* Mutant: no tweak is before all of those to come.                        *)
BeginTweakStrictly(c, t) ==
  /\ pc[c] = "next"
  /\ t \in todo[c]
  /\ \A u \in todo[c] : t < u
  /\ Goto(c, "perform")
  /\ todo' = [todo EXCEPT ![c] = @ \ {t}]
  /\ cur'  = [cur EXCEPT ![c] = t]
  /\ UNCHANGED <<machine, journal, clock, stamp, captured, left, failures,
                 applied, faultsLeft, orphaned, history>>

(* Mutant: the tweak begun stays in the batch.                             *)
BeginTweakKeepsIt(c, t) ==
  /\ pc[c] = "next"
  /\ t \in todo[c]
  /\ \A u \in todo[c] : t <= u
  /\ Goto(c, "perform")
  /\ cur'  = [cur EXCEPT ![c] = t]
  /\ UNCHANGED <<machine, journal, clock, todo, stamp, captured, left, failures,
                 applied, faultsLeft, orphaned, history>>

(* The batch goes on to its next tweak in catalog order.                   *)
BeginTweak(c, t) ==
  /\ pc[c] = "next"
  /\ t \in todo[c]
  /\ \A u \in todo[c] : t <= u
  /\ Goto(c, "perform")
  /\ todo' = [todo EXCEPT ![c] = @ \ {t}]
  /\ cur'  = [cur EXCEPT ![c] = t]
  /\ UNCHANGED <<machine, journal, clock, stamp, captured, left, failures,
                 applied, faultsLeft, orphaned, history>>

NextAction(c) == Catalog[cur[c]][Len(captured[c]) + 1]

(* An action is carried out: capture, change, and the capture is kept.     *)
PerformOk(c) ==
  LET a == NextAction(c) IN
  /\ pc[c] = "perform"
  /\ machine'  = [machine EXCEPT ![a.at] = After(a, @)]
  /\ captured' = [captured EXCEPT ![c] = Append(@, Capture(a, machine[a.at]))]
  /\ orphaned' = IF Undecodable(a, machine[a.at]) THEN orphaned \cup {a.at} ELSE orphaned
  /\ Goto(c, IF Len(captured[c]) + 1 = Len(Catalog[cur[c]]) THEN "journal" ELSE "perform")
  /\ UNCHANGED <<journal, clock, todo, cur, stamp, left, failures, applied, faultsLeft, history>>

(* An action fails before it has changed anything; the rest is skipped.    *)
PerformDenied(c) ==
  /\ Fault("denied")
  /\ pc[c] = "perform"
  /\ Goto(c, "journal")
  /\ UNCHANGED <<machine, journal, clock, cmdVars, orphaned, history>>

(* A service's start type is changed, then it cannot be stopped, or is not *)
(* seen to stop in time: the operation fails and its capture is dropped.   *)
ServiceHalfDone(c) ==
  LET a == NextAction(c) IN
  /\ Fault("service")
  /\ pc[c] = "perform"
  /\ a.at \in Service
  /\ a.stop
  /\ machine[a.at].running
  /\ \E stopsLate \in BOOLEAN :
       machine' = [machine EXCEPT ![a.at] = [start |-> a.start, running |-> ~stopsLate]]
  /\ orphaned' = orphaned \cup {a.at}
  /\ Goto(c, "journal")
  /\ UNCHANGED <<journal, clock, cmdVars, history>>

(* The helper made the change and went away before its answer arrived.     *)
ReplyLost(c) ==
  LET a == NextAction(c) IN
  /\ Fault("reply")
  /\ pc[c] = "perform"
  /\ machine'  = [machine EXCEPT ![a.at] = After(a, @)]
  /\ orphaned' = orphaned \cup {a.at}
  /\ Goto(c, "journal")
  /\ UNCHANGED <<journal, clock, cmdVars, history>>

(* Whether every action of the current tweak was carried out.              *)
Complete(c) == Len(captured[c]) = Len(Catalog[cur[c]])

EndTweak(c) ==
  /\ Goto(c, "next")
  /\ cur'      = [cur EXCEPT ![c] = NoTweak]
  /\ captured' = [captured EXCEPT ![c] = << >>]
  /\ UNCHANGED <<machine, clock, todo, stamp, left, failures, history>>

(* Mutant: `?` on a failed action returns before the journal is written.   *)
WriteCompleteEntry(c) ==
  /\ pc[c] = "journal"
  /\ journal' = IF Complete(c) THEN Write(c, Entry(captured[c])) ELSE journal
  /\ applied' = IF Complete(c) THEN [applied EXCEPT ![c] = @ \cup {cur[c]}] ELSE applied
  /\ EndTweak(c)
  /\ UNCHANGED <<faultsLeft, orphaned>>

(* What was done is journalled, the tweak having failed half-way or not.   *)
WriteEntry(c) ==
  /\ pc[c] = "journal"
  /\ journal' = IF captured[c] = << >> THEN journal ELSE Write(c, Entry(captured[c]))
  /\ applied' = IF Complete(c) THEN [applied EXCEPT ![c] = @ \cup {cur[c]}] ELSE applied
  /\ EndTweak(c)
  /\ UNCHANGED <<faultsLeft, orphaned>>

(* Mutant: the error of the write is ignored.                              *)
WriteFailsUnseen(c) ==
  /\ Fault("journal")
  /\ pc[c] = "journal"
  /\ captured[c] # << >>
  /\ journal' \in {journal, Write(c, TornFile)}
  /\ orphaned' = orphaned \cup Located(captured[c])
  /\ applied' = IF Complete(c) THEN [applied EXCEPT ![c] = @ \cup {cur[c]}] ELSE applied
  /\ EndTweak(c)

(* The journal file cannot be written, or only in part.                    *)
WriteFails(c) ==
  /\ Fault("journal")
  /\ pc[c] = "journal"
  /\ captured[c] # << >>
  /\ journal' \in {journal, Write(c, TornFile)}
  /\ orphaned' = orphaned \cup Located(captured[c])
  /\ EndTweak(c)
  /\ UNCHANGED applied

FinishApply(c) ==
  /\ pc[c] = "next"
  /\ todo[c] = {}
  /\ Goto(c, "idle")
  /\ Rest(c)
  /\ UNCHANGED <<machine, journal, clock, faultsLeft, orphaned, history>>

-----------------------------------------------------------------------------
(* Reverting.                                                              *)

(* The user undoes a tweak: its newest active entry is read from disk.     *)
StartRevert(c, t, at) ==
  /\ pc[c] = "idle"
  /\ Newest(t, at)
  /\ Goto(c, "restore")
  /\ cur'      = [cur EXCEPT ![c] = t]
  /\ stamp'    = [stamp EXCEPT ![c] = at]
  /\ captured' = [captured EXCEPT ![c] = journal[t][at].actions]
  /\ left'     = [left EXCEPT ![c] = Len(journal[t][at].actions)]
  /\ contended' = IF Busy(t) THEN contended \cup {t} ELSE contended
  /\ UNCHANGED <<machine, journal, clock, todo, failures, applied, faultsLeft,
                 orphaned, baseline, misdated>>

(* The entry has been read, but there is no helper to restore anything:    *)
(* the user declines to elevate it, or it cannot be started.               *)
NoHelper(c) ==
  /\ pc[c] = "restore"
  /\ left[c] = Len(captured[c])
  /\ Goto(c, "idle")
  /\ Rest(c)
  /\ UNCHANGED <<machine, journal, clock, faultsLeft, orphaned, history>>

(* Mutant: the plan runs in the order the actions were applied in.         *)
RestoringForward(c) == captured[c][Len(captured[c]) - left[c] + 1]

(* The revert plan runs from the last capture to the first.                *)
Restoring(c) == captured[c][left[c]]

PlanStep(c) ==
  /\ pc[c] = "restore"
  /\ left' = [left EXCEPT ![c] = @ - 1]
  /\ Goto(c, IF left[c] = 1 THEN "mark" ELSE "restore")
  /\ UNCHANGED <<journal, clock, todo, cur, stamp, captured, applied, orphaned, history>>

(* A package removal is not part of the plan.                              *)
SkipIrreversible(c) ==
  /\ PlanStep(c)
  /\ Restoring(c).at \in Appx
  /\ UNCHANGED <<machine, failures, faultsLeft>>

RestoreOk(c) ==
  LET r == Restoring(c) IN
  /\ PlanStep(c)
  /\ r.at \in Reversible
  /\ r.at \in Service => Startable(machine[r.at], r.prior)
  /\ machine'  = [machine EXCEPT ![r.at] = r.prior]
  /\ failures' = [failures EXCEPT ![c] = @ \ {r.at}]
  /\ UNCHANGED faultsLeft

(* One restore fails and the others are attempted all the same.  It may    *)
(* have done nothing, or all of it when only the answer was lost or the    *)
(* service stops too late; a service may be left with its start type       *)
(* restored and not its run state.                                         *)
RestoreFails(c) ==
  LET r == Restoring(c)
      s == machine[r.at] IN
  /\ PlanStep(c)
  /\ r.at \in Reversible
  /\ failures' = [failures EXCEPT ![c] = @ \cup {r.at}]
  /\ \/ /\ Fault("restore")
        /\ UNCHANGED machine
     \/ /\ \/ Fault("reply") /\ (r.at \in Service => Startable(s, r.prior))
           \/ Fault("restore") /\ r.at \in Service /\ s.running /\ ~r.prior.running
        /\ machine' = [machine EXCEPT ![r.at] = r.prior]
     \/ /\ r.at \in Service
        /\ \/ Fault("restore")
           \/ ~Startable(s, r.prior) /\ UNCHANGED faultsLeft
        /\ s.running # r.prior.running
        /\ machine' = [machine EXCEPT ![r.at] = HalfRestored(s, r.prior)]

(* The entry is marked reverted, whether or not the restores succeeded.    *)
MarkReverted(c) ==
  /\ pc[c] = "mark"
  /\ journal'  = Write(c, Undone(captured[c]))
  /\ orphaned' = orphaned \cup failures[c]
  /\ Goto(c, "idle")
  /\ Rest(c)
  /\ UNCHANGED <<machine, clock, faultsLeft, history>>

(* Marking fails: the file is as it was, or its old content is gone.       *)
MarkFails(c) ==
  /\ Fault("journal")
  /\ pc[c] = "mark"
  /\ \/ UNCHANGED <<journal, orphaned>>
     \/ /\ journal'  = Write(c, TornFile)
        /\ orphaned' = orphaned \cup failures[c]
  /\ Goto(c, "idle")
  /\ Rest(c)
  /\ UNCHANGED <<machine, clock, history>>

-----------------------------------------------------------------------------
(* The files a crash may catch half-written.                               *)
WritingFile(c, t, at) ==
  /\ cur[c] = t
  /\ stamp[c] = at
  /\ \/ pc[c] = "journal" /\ captured[c] # << >>
     \/ pc[c] = "mark"

(* What a crash forgets of a command, its file being torn or not.          *)
Forgotten(c, torn) ==
  IF Applying(c) THEN Located(captured[c])
  ELSE IF c \in torn THEN failures[c] ELSE {}

(* The UI process ends and is started again: the machine and the journal   *)
(* directory are all that is left.                                         *)
Crash ==
  /\ Fault("crash")
  /\ \E c \in Command : Working(c)
  /\ \E torn \in SUBSET {c \in Command : WritingFile(c, cur[c], stamp[c])} :
       /\ journal' = [t \in Tweak |-> [at \in Stamp |->
             IF \E c \in torn : WritingFile(c, t, at) THEN TornFile ELSE journal[t][at]]]
       /\ orphaned' = orphaned \cup
            {l \in Location : \E c \in Command : l \in Forgotten(c, torn)}
  /\ pc'       = [c \in Command |-> "idle"]
  /\ todo'     = [c \in Command |-> {}]
  /\ cur'      = [c \in Command |-> NoTweak]
  /\ stamp'    = [c \in Command |-> 0]
  /\ captured' = [c \in Command |-> << >>]
  /\ left'     = [c \in Command |-> 0]
  /\ failures' = [c \in Command |-> {}]
  /\ applied'  = [c \in Command |-> {}]
  /\ UNCHANGED <<machine, clock, history>>

-----------------------------------------------------------------------------
(* What a command does once the user has started it.                       *)
Step(c) ==
  \/ \E t \in Tweak : BeginTweak(c, t)
  \/ PerformOk(c)
  \/ PerformDenied(c)
  \/ ServiceHalfDone(c)
  \/ ReplyLost(c)
  \/ WriteEntry(c)
  \/ WriteFails(c)
  \/ FinishApply(c)
  \/ NoHelper(c)
  \/ SkipIrreversible(c)
  \/ RestoreOk(c)
  \/ RestoreFails(c)
  \/ MarkReverted(c)
  \/ MarkFails(c)

User(c) ==
  \/ \E batch \in SUBSET Tweak \ {{}} : StartApply(c, batch)
  \/ \E t \in Tweak, at \in Stamp : StartRevert(c, t, at)

Next == Crash \/ \E c \in Command : Step(c) \/ User(c)

Spec == Init /\ [][Next]_vars

-----------------------------------------------------------------------------
(* Properties.                                                             *)

TypeOK ==
  /\ IsMachine(machine)
  /\ IsMachine(baseline)
  /\ journal \in [Tweak -> [Stamp -> File]]
  /\ clock \in 0 .. MaxClock
  /\ pc \in [Command -> {"idle", "next", "perform", "journal", "restore", "mark"}]
  /\ todo \in [Command -> SUBSET Tweak]
  /\ cur \in [Command -> Tweak \cup {NoTweak}]
  /\ stamp \in [Command -> Stamp]
  /\ captured \in [Command -> Seq(Captured)]
  /\ left \in [Command -> Nat]
  /\ failures \in [Command -> SUBSET Reversible]
  /\ applied \in [Command -> SUBSET Tweak]
  /\ faultsLeft \in 0 .. MaxFaults
  /\ orphaned \subseteq Location
  /\ contended \subseteq Tweak
  /\ misdated \subseteq Tweak

-----------------------------------------------------------------------------
(* The captures SIO still has for one application of a tweak: those of its *)
(* active file, or of the command that is making it.                       *)

Making(c, t, at) == Applying(c) /\ cur[c] = t /\ stamp[c] = at

Index(t) == 1 .. Len(Catalog[t])

(* Its i-th capture is of l ...                                            *)
HasCapture(l, t, at, i) ==
  \/ /\ Active(t, at)
     /\ i \in DOMAIN journal[t][at].actions
     /\ journal[t][at].actions[i].at = l
  \/ \E c \in Command :
       Making(c, t, at) /\ i \in DOMAIN captured[c] /\ captured[c][i].at = l

(* ... and says that l held p.                                             *)
CaptureSays(l, t, at, i, p) ==
  \/ /\ Active(t, at)
     /\ i \in DOMAIN journal[t][at].actions
     /\ journal[t][at].actions[i].at = l
     /\ journal[t][at].actions[i].prior = p
  \/ \E c \in Command :
       /\ Making(c, t, at)
       /\ i \in DOMAIN captured[c]
       /\ captured[c][i].at = l
       /\ captured[c][i].prior = p

(* It is the oldest capture of l that SIO has.                             *)
Oldest(l, t, at, i) ==
  /\ HasCapture(l, t, at, i)
  /\ \A u \in Tweak, b \in Stamp : \A j \in Index(u) :
       HasCapture(l, u, b, j) => at < b \/ (at = b /\ i <= j)

Unkept(l) == \A t \in Tweak, at \in Stamp : \A i \in Index(t) : ~HasCapture(l, t, at, i)

(* Undoing everything, newest first, would bring l back to its baseline.   *)
Recoverable(l) ==
  \/ Unkept(l) /\ machine[l] = baseline[l]
  \/ \E t \in Tweak, at \in Stamp : \E i \in Index(t) :
        Oldest(l, t, at, i) /\ CaptureSays(l, t, at, i, baseline[l])

(* The tweaks whose applications need not follow each other in time ...    *)
Disordered == contended \cup misdated

(* ... and the locations that may have lost their captures, or their order. *)
Lost == orphaned \cup UNION {Located(Catalog[t]) : t \in Disordered}

(* In whatever order batches, undos, failures and crashes come, every      *)
(* location can be brought back to what it held before SIO, save those     *)
(* that lost a capture in one of the ways `orphaned` names and those of a  *)
(* tweak that two commands had to do with at one time, or that was applied *)
(* at a time not after the others: "a tweak that dies halfway must still   *)
(* be fully undoable" (engine.rs:5).                                       *)
UndoReachesBaseline == \A l \in Reversible \ Lost : Recoverable(l)

(* The captures SIO has for one application of a tweak, at most one        *)
(* sequence, and what they say of l: its first capture is what l held.     *)
Kept(t, at) ==
  (IF Active(t, at) THEN {journal[t][at].actions} ELSE {})
    \cup {captured[c] : c \in {c \in Command : Making(c, t, at)}}

FirstOf(seq, i) == \A j \in DOMAIN seq : seq[j].at = seq[i].at => i <= j
Firsts(l, seq) ==
  {seq[i].prior : i \in {i \in DOMAIN seq : seq[i].at = l /\ FirstOf(seq, i)}}

HeldBefore(l, at) ==
  UNION {Firsts(l, seq) : seq \in UNION {Kept(t, at) : t \in Tweak}}
Pile(l) == UNION {{at} \X HeldBefore(l, at) : at \in Stamp}

(* What the engine promises of a location: it is changed only with what it *)
(* held before on record, and the record is given up only when it holds    *)
(* that again.                                                             *)
Log == INSTANCE UndoLog
  WITH Location <- Reversible, Time <- Stamp, holds <- machine,
       undo <- [l \in Reversible |-> Pile(l)], lost <- Lost
ImplementsUndoLog == Log!Spec

(* A success is reported for a tweak only when its journal file holds a    *)
(* capture of each of its actions (`apply` writes before it returns Ok),   *)
(* whatever other commands have to do with the tweak meanwhile.  An undo   *)
(* that runs into a full disk may tear the file afterwards, and a tweak    *)
(* applied at a time it was applied at before overwrites it.               *)
SuccessIsJournalled ==
  \A c \in Command : \A t \in applied[c] \ misdated :
    \/ journal[t][stamp[c]].state = "torn"
    \/ Len(journal[t][stamp[c]].actions) = Len(Catalog[t])

(* The captures of a journal file never change, and a reverted entry never *)
(* becomes active again; only a command writing that very file may tear it *)
(* ("cannot corrupt the other entries if it fails halfway", journal.rs:9). *)
(* So it is with any number of commands on one tweak, unless the clock was *)
(* set back: the file is named by the time.                                *)
HistoryIsKept ==
  [][\A t \in Tweak \ misdated, at \in Stamp :
       LET old == journal[t][at]
           new == journal'[t][at] IN
       old.state \in {"active", "reverted"} =>
         \/ new = old
         \/ old.state = "active" /\ new = Undone(old.actions)
         \/ new = TornFile /\ \E c \in Command : WritingFile(c, t, at)]_vars

(* When an entry is marked reverted, each of its locations holds what its  *)
(* first capture of it says, unless that restore is reported as a failure: *)
(* "the earliest capture holds the true original, so it must be restored   *)
(* last" (tweak.rs:267).  Commands on other tweaks run meanwhile.          *)
RevertRestoresFirstCapture ==
  [][\A t \in Tweak \ Disordered, at \in Stamp :
       Active(t, at) /\ journal'[t][at].state = "reverted" =>
         \E c \in Command :
           LET seq == journal[t][at].actions IN
           /\ pc[c] = "mark" /\ cur[c] = t /\ stamp[c] = at
           /\ \A i \in DOMAIN seq :
                seq[i].at \in Reversible \ failures[c] /\ FirstOf(seq, i) =>
                  machine[seq[i].at] = seq[i].prior]_vars

(* The steps a command takes before it comes to its next tweak, at most.   *)
StepsLeft(c) ==
  CASE pc[c] = "perform" -> Len(Catalog[cur[c]]) - Len(captured[c]) + 1
    [] pc[c] = "restore" -> left[c] + 1
    [] pc[c] \in {"journal", "mark"} -> 1
    [] OTHER -> 0

(* Every command comes to an end, whatever fails on the way and whatever   *)
(* others do meanwhile: one under way can always go on ...                 *)
NoCommandIsStuck == \A c \in Command : Working(c) => ENABLED Step(c)

(* ... and each of its steps ends it, begins a tweak of the batch or is    *)
(* one less of those it takes before it does.                              *)
EveryStepCounts ==
  [][\A c \in Command :
       Working(c) /\ <<pc[c], todo[c], captured[c], left[c]>>' # <<pc[c], todo[c], captured[c], left[c]>> =>
         \/ ~Working(c)'
         \/ todo'[c] \subseteq todo[c] /\ todo'[c] # todo[c]
         \/ todo'[c] = todo[c] /\ StepsLeft(c)' \in 0 .. StepsLeft(c) - 1]_vars

(* What the program says of itself: at rest, a location that is not as SIO *)
(* found it has an active journal entry that can put it back.              *)
AtRest == \A c \in Command : ~Working(c)
ChangesAreOnRecord ==
  AtRest => \A l \in Reversible : machine[l] = baseline[l] \/ ~Unkept(l)

-----------------------------------------------------------------------------
(* The inductive invariant behind UndoReachesBaseline.                     *)

(* No two tweaks change the same location; the shipped catalog is so.      *)
CatalogIsDisjoint ==
  \A t, u \in Tweak : \A i \in Index(t), j \in Index(u) :
    Catalog[t][i].at = Catalog[u][j].at => t = u

(* What the parts of a command's state say together.                       *)
CommandShape ==
  \A c \in Command :
    /\ pc[c] \in {"idle", "restore", "mark"} => todo[c] = {}
    /\ pc[c] \in {"idle", "next"} => cur[c] = NoTweak /\ captured[c] = << >>
    /\ Applying(c) \/ Reverting(c) => cur[c] \in Tweak \ todo[c]
    /\ pc[c] = "perform" => Len(captured[c]) < Len(Catalog[cur[c]])
    /\ pc[c] = "restore" => left[c] \in 1 .. Len(captured[c])
    /\ pc[c] = "mark" => left[c] = 0

(* The captures of a tweak are of its first actions, in their order.       *)
Fits(seq, t) ==
  /\ Len(seq) <= Len(Catalog[t])
  /\ \A i \in DOMAIN seq : seq[i].at = Catalog[t][i].at
CapturesFit ==
  /\ \A c \in Command : Applying(c) \/ Reverting(c) => Fits(captured[c], cur[c])
  /\ \A t \in Tweak, at \in Stamp :
       Active(t, at) => Fits(journal[t][at].actions, t) /\ journal[t][at].actions # << >>

(* The application of a tweak that is under way is later than those that   *)
(* have a file, so no file is ever written twice.                          *)
TimeGrows ==
  \A c \in Command, t \in Tweak \ misdated, at \in Stamp :
    Forward(c) /\ Holds(c, t) /\ Exists(t, at) =>
      at # stamp[c] /\ (t \notin contended => at < stamp[c])

(* Commands on one tweak are apart, or apply it at different times.        *)
HoldersDiffer ==
  \A c, d \in Command, t \in Tweak :
    Holds(c, t) /\ Holds(d, t) /\ c # d =>
      /\ t \in contended
      /\ Forward(c) /\ Forward(d) /\ stamp[c] = stamp[d] => t \in misdated

(* No entry of the tweak that is still to be undone is later than this.    *)
NoneLater(t, at) == \A other \in Stamp : Active(t, other) => other <= at

(* What a revert works from is in its file, unless another has marked the  *)
(* file or torn it; it is the newest active entry, and stays so.           *)
RevertSource ==
  \A c \in Command : Reverting(c) /\ cur[c] \notin misdated =>
    LET file == journal[cur[c]][stamp[c]] IN
    /\ file \in {Entry(captured[c]), Undone(captured[c]), TornFile}
    /\ cur[c] \notin contended =>
         file = Entry(captured[c]) /\ NoneLater(cur[c], stamp[c])
    /\ \A d \in Command :
         Reverting(d) /\ cur[d] = cur[c] /\ stamp[d] = stamp[c] => captured[d] = captured[c]

(* An undo of what a running batch applied works from all its captures.    *)
UndoIsOfAll ==
  \A c, d \in Command :
    Reverting(d) /\ cur[d] \in applied[c] \ misdated /\ stamp[d] = stamp[c] =>
      Len(captured[d]) = Len(Catalog[cur[d]])

(* What a revert has come to so far holds its first capture seen, or is on *)
(* the list of failures.                                                   *)
RestoredTo(c, l, i) ==
  /\ i \in left[c] + 1 .. Len(captured[c])
  /\ captured[c][i].at = l
  /\ captured[c][i].prior = machine[l]
  /\ \A j \in left[c] + 1 .. Len(captured[c]) : captured[c][j].at = l => i <= j
RevertProgress ==
  \A c \in Command : Reverting(c) /\ cur[c] \notin Disordered =>
    \A k \in left[c] + 1 .. Len(captured[c]) :
      LET l == captured[c][k].at IN
      l \in Reversible \ failures[c] =>
        \E i \in left[c] + 1 .. Len(captured[c]) : RestoredTo(c, l, i)

(* With TypeOK and UndoReachesBaseline it is inductive.                    *)
EngineInvariant ==
  /\ CommandShape
  /\ CapturesFit
  /\ TimeGrows
  /\ HoldersDiffer
  /\ RevertSource
  /\ RevertProgress
  /\ UndoIsOfAll
============================================================================
