---------------------------- MODULE TuningScreen ----------------------------
(***************************************************************************)
(* What the Tuning screen shows of the machine: `list_tweaks` of           *)
(* apps/desktop/src-tauri/src/commands.rs, `status` of crates/sio-tweaks/  *)
(* src/engine.rs, and the InProcessReader of crates/sio-winsys/src/        *)
(* readers.rs, which keeps the list of installed packages in a cache that  *)
(* `apply_tweaks` and `revert_tweak` drop.                                 *)
(*                                                                         *)
(* A list and a command are tasks of the UI process.  They share the cache *)
(* under a tokio mutex, which serves its waiters in their order and is     *)
(* held while PowerShell makes an inventory.                               *)
(***************************************************************************)
EXTENDS Naturals, Sequences

CONSTANTS
  Package,     \* preinstalled packages
  Setting,     \* registry values and services, read afresh every time
  Catalog,     \* the tweaks: what each is made of, and where it applies
  Build,       \* the Windows build number, 0 when it cannot be read
  Lister,      \* runs of list_tweaks that may overlap
  Command,     \* commands that may overlap
  MaxOutside   \* bound: how often another program changes something

Action == Package \cup Setting
Tweak  == 1 .. Len(Catalog)
Applies == {"both", "windows10", "windows11"}
Status  == {"applied", "not_applied", "partial", "unknown"}

ASSUME CatalogAssumption ==
  /\ Package \cap Setting = {}
  /\ Catalog \in Seq([actions : Seq(Action), applies : Applies])
  /\ \A t \in Tweak : Catalog[t].actions # << >>
ASSUME NumbersAssumption == Build \in Nat /\ MaxOutside \in Nat
ASSUME TasksAreDistinct == Lister \cap Command = {}

(* `Applies::matches` and `TweakCatalog::for_build`: the tweaks offered.   *)
IsWindows11 == Build >= 22000
Offered == {t \in Tweak :
  CASE Catalog[t].applies = "both"      -> TRUE
    [] Catalog[t].applies = "windows10" -> ~IsWindows11
    [] Catalog[t].applies = "windows11" -> IsWindows11}

Actions(t) == {Catalog[t].actions[i] : i \in DOMAIN Catalog[t].actions}
NoLister == "nobody"
NoAnswer == [t \in Tweak |-> "unknown"]

(* The reader's `appx_cache`, an Option.                                   *)
Cached(packages) == [filled |-> TRUE, packages |-> packages]
NoInventory == [filled |-> FALSE, packages |-> {}]

VARIABLES
  inEffect,  \* the actions in effect: settings as wanted, packages removed
  cache,     \* the packages the reader believes installed, once asked for
  queue,     \* who holds the cache's mutex, and who waits for it
  inventory, \* what PowerShell has answered the holder
  pc,        \* where each task is
  tweak,     \* the tweak a list has come to ...
  checked,   \* ... how many of its actions it has read ...
  hits,      \* ... and how many of those are in effect
  answer,    \* the statuses a list has found
  latest,    \* the list the screen waits for: older ones are not shown
  shown,     \* the statuses on the screen
  todo,      \* what a command still has to carry out
  outside,   \* how often another program has changed something
  touched,   \* history: what each running command has changed
  foreign,   \* history: packages changed by others since the last drop
  failed,    \* history: is the cached inventory a failed one?
  doubt,     \* history: the actions each list cannot know the truth about
  blind,     \* history: tweaks a list checked against a failed inventory
  doubtful,  \* history: the same two of the list on the screen
  unseen

listVars == <<tweak, checked, hits, answer>>
screenVars == <<latest, shown, doubtful, unseen>>
vars == <<inEffect, cache, queue, inventory, pc, listVars, screenVars, todo,
          outside, touched, foreign, failed, doubt, blind>>

Init ==
  /\ inEffect \in SUBSET Action
  /\ cache     = NoInventory
  /\ queue     = << >>
  /\ inventory = {}
  /\ pc        = [x \in Lister \cup Command |-> "idle"]
  /\ tweak     = [l \in Lister |-> 0]
  /\ checked   = [l \in Lister |-> 0]
  /\ hits      = [l \in Lister |-> 0]
  /\ answer    = [l \in Lister |-> NoAnswer]
  /\ latest    = NoLister
  /\ shown     = NoAnswer
  /\ todo      = [c \in Command |-> << >>]
  /\ outside   = 0
  /\ touched   = [c \in Command |-> {}]
  /\ foreign   = {}
  /\ failed    = FALSE
  /\ doubt     = [l \in Lister |-> {}]
  /\ blind     = [l \in Lister |-> {}]
  /\ doubtful  = {}
  /\ unseen    = {}

(* What a command that has not returned or another program has changed.    *)
Disputed == foreign \cup UNION {touched[c] : c \in Command}

Goto(x, label) == pc' = [pc EXCEPT ![x] = label]

(* Nobody that is looking can be held to what it says of a changed action. *)
Change(a, on) ==
  /\ inEffect' = IF on THEN inEffect \cup {a} ELSE inEffect \ {a}
  /\ doubt'    = [l \in Lister |-> IF pc[l] = "idle" THEN {} ELSE doubt[l] \cup {a}]
  /\ doubtful' = doubtful \cup {a}

-----------------------------------------------------------------------------
(* list_tweaks.                                                            *)

(* Mutant: every tweak of the catalog is looked at.                        *)
NextInCatalog(t) ==
  LET rest == {u \in Tweak : u > t}
  IN  IF rest = {} THEN 0 ELSE CHOOSE u \in rest : \A v \in rest : u <= v

(* The next tweak a list comes to, 0 after the last.                       *)
NextOffered(t) ==
  LET rest == {u \in Offered : u > t}
  IN  IF rest = {} THEN 0 ELSE CHOOSE u \in rest : \A v \in rest : u <= v

(* The screen asks for a list, as it opens or after a command.             *)
StartList(l) ==
  /\ pc[l] = "idle"
  /\ Goto(l, "check")
  /\ latest'  = l
  /\ tweak'   = [tweak EXCEPT ![l] = NextOffered(0)]
  /\ checked' = [checked EXCEPT ![l] = 0]
  /\ hits'    = [hits EXCEPT ![l] = 0]
  /\ doubt'   = [doubt EXCEPT ![l] = Disputed]
  /\ UNCHANGED <<inEffect, cache, queue, inventory, answer, shown, doubtful, unseen, todo,
                 outside, touched, foreign, failed, blind>>

Reading(l) == Catalog[tweak[l]].actions[checked[l] + 1]

(* Mutant: an action that cannot be read counts as one not in effect.      *)
StatusGuessed(n, applied, readable) ==
  IF applied = n THEN "applied"
  ELSE IF applied = 0 THEN "not_applied" ELSE "partial"

(* `status` from the number of actions found in effect; one that cannot be *)
(* read makes the whole answer unknown.                                    *)
StatusFrom(n, applied, readable) ==
  IF ~readable THEN "unknown"
  ELSE IF applied = n THEN "applied"
  ELSE IF applied = 0 THEN "not_applied" ELSE "partial"

(* One action has been read, or could not be.                              *)
Note(l, isOn, readable) ==
  LET n    == Len(Catalog[tweak[l]].actions)
      got  == hits[l] + (IF isOn THEN 1 ELSE 0)
      over == ~readable \/ checked[l] + 1 = n IN
  IF over
    THEN /\ answer'  = [answer EXCEPT ![l][tweak[l]] = StatusFrom(n, got, readable)]
         /\ tweak'   = [tweak EXCEPT ![l] = NextOffered(@)]
         /\ checked' = [checked EXCEPT ![l] = 0]
         /\ hits'    = [hits EXCEPT ![l] = 0]
    ELSE /\ checked' = [checked EXCEPT ![l] = @ + 1]
         /\ hits'    = [hits EXCEPT ![l] = got]
         /\ UNCHANGED <<answer, tweak>>

(* A registry value or a service is read, or the read fails.               *)
ReadSetting(l) ==
  /\ pc[l] = "check"
  /\ tweak[l] # 0
  /\ Reading(l) \in Setting
  /\ \E readable \in BOOLEAN : Note(l, Reading(l) \in inEffect, readable)
  /\ UNCHANGED <<inEffect, cache, queue, inventory, pc, screenVars, todo, outside,
                 touched, foreign, failed, doubt, blind>>

(* A package is looked up in the inventory: its mutex comes first.         *)
AskInventory(l) ==
  /\ pc[l] = "check"
  /\ tweak[l] # 0
  /\ Reading(l) \in Package
  /\ queue' = Append(queue, l)
  /\ Goto(l, "lock")
  /\ UNCHANGED <<inEffect, cache, inventory, listVars, screenVars, todo, outside,
                 touched, foreign, failed, doubt, blind>>

Holds(x) == queue # << >> /\ Head(queue) = x

(* What a list makes of an inventory: a package not in it has been removed.*)
LookUp(l, packages, isFailed) ==
  /\ Note(l, Reading(l) \notin packages, TRUE)
  /\ queue' = Tail(queue)
  /\ Goto(l, "check")
  /\ blind' = IF isFailed THEN [blind EXCEPT ![l] = @ \cup {tweak[l]}] ELSE blind

(* There is an inventory already ...                                       *)
FromCache(l) ==
  /\ pc[l] = "lock"
  /\ Holds(l)
  /\ cache.filled
  /\ LookUp(l, cache.packages, failed)
  /\ UNCHANGED <<inEffect, cache, inventory, screenVars, todo, outside, touched, foreign,
                 failed, doubt>>

(* ... or PowerShell has to make one.                                      *)
StartPowerShell(l) ==
  /\ pc[l] = "lock"
  /\ Holds(l)
  /\ ~cache.filled
  /\ Goto(l, "fetch")
  /\ UNCHANGED <<inEffect, cache, queue, inventory, listVars, screenVars, todo, outside,
                 touched, foreign, failed, doubt, blind>>

(* PowerShell cannot be started: the tweak's status is unknown.            *)
NoPowerShell(l) ==
  /\ pc[l] = "lock"
  /\ Holds(l)
  /\ ~cache.filled
  /\ Note(l, FALSE, FALSE)
  /\ queue' = Tail(queue)
  /\ Goto(l, "check")
  /\ UNCHANGED <<inEffect, cache, inventory, screenVars, todo, outside, touched, foreign,
                 failed, doubt, blind>>

(* PowerShell lists the packages, or fails and has printed some at most.   *)
PowerShellEnds(l) ==
  /\ pc[l] = "fetch"
  /\ Goto(l, "store")
  /\ \/ inventory' = Package \ inEffect /\ failed' = FALSE
     \/ inventory' \in SUBSET (Package \ inEffect) /\ failed' = TRUE
  /\ UNCHANGED <<inEffect, cache, queue, listVars, screenVars, todo, outside, touched,
                 foreign, doubt, blind>>

(* Its exit code is not looked at: what it printed is the inventory.       *)
StoreInventory(l) ==
  /\ pc[l] = "store"
  /\ cache' = Cached(inventory)
  /\ inventory' = {}
  /\ LookUp(l, inventory, failed)
  /\ UNCHANGED <<inEffect, screenVars, todo, outside, touched, foreign, failed, doubt>>

(* The list is complete.  It is shown unless a later one was asked for.    *)
EndList(l) ==
  /\ pc[l] = "check"
  /\ tweak[l] = 0
  /\ Goto(l, "idle")
  /\ IF latest = l
       THEN /\ shown'    = answer[l]
            /\ doubtful' = doubt[l]
            /\ unseen'   = blind[l]
       ELSE UNCHANGED <<shown, doubtful, unseen>>
  /\ answer' = [answer EXCEPT ![l] = NoAnswer]
  /\ doubt'  = [doubt EXCEPT ![l] = {}]
  /\ blind'  = [blind EXCEPT ![l] = {}]
  /\ UNCHANGED <<inEffect, cache, queue, inventory, tweak, checked, hits, latest, todo,
                 outside, touched, foreign, failed>>

-----------------------------------------------------------------------------
(* apply_tweaks and revert_tweak.                                          *)

(* A batch of tweaks is applied, beginning with t, or t is undone.         *)
StartCommand(c, t, apply) ==
  /\ pc[c] = "idle"
  /\ t \in Offered
  /\ Goto(c, IF apply THEN "apply" ELSE "revert")
  /\ todo' = [todo EXCEPT ![c] = Catalog[t].actions]
  /\ UNCHANGED <<inEffect, cache, queue, inventory, listVars, screenVars, outside,
                 touched, foreign, failed, doubt, blind>>

(* The batch goes on, with whichever tweak.                                *)
NextTweak(c, t) ==
  /\ pc[c] = "apply"
  /\ todo[c] = << >>
  /\ t \in Offered
  /\ todo' = [todo EXCEPT ![c] = Catalog[t].actions]
  /\ UNCHANGED <<inEffect, cache, queue, inventory, pc, listVars, screenVars, outside,
                 touched, foreign, failed, doubt, blind>>

(* The next action is carried out.  An undo writes what was captured,      *)
(* which may be what the tweak wants too, goes on when that fails, and has *)
(* no way to bring a package back.                                         *)
Perform(c) ==
  LET a == Head(todo[c]) IN
  /\ pc[c] \in {"apply", "revert"}
  /\ todo[c] # << >>
  /\ todo' = [todo EXCEPT ![c] = Tail(@)]
  /\ \/ /\ pc[c] = "apply" \/ a \in Setting
        /\ \E on \in BOOLEAN : (pc[c] = "apply" => on) /\ Change(a, on)
        /\ touched' = [touched EXCEPT ![c] = @ \cup {a}]
     \/ /\ pc[c] = "revert"
        /\ UNCHANGED <<inEffect, doubt, doubtful, touched>>
  /\ UNCHANGED <<cache, queue, inventory, pc, listVars, latest, shown, unseen, outside,
                 foreign, failed, blind>>

(* An action fails and the rest of the tweak is skipped, or the entry      *)
(* cannot be marked: revert_tweak returns that error at once.              *)
PerformFails(c) ==
  /\ \/ /\ pc[c] = "apply"
        /\ todo[c] # << >>
        /\ todo' = [todo EXCEPT ![c] = << >>]
        /\ UNCHANGED <<pc, touched>>
     \/ /\ pc[c] = "revert"
        /\ todo[c] = << >>
        /\ Goto(c, "idle")
        /\ touched' = [touched EXCEPT ![c] = {}]
        /\ UNCHANGED todo
  /\ UNCHANGED <<inEffect, cache, queue, inventory, listVars, screenVars, outside,
                 foreign, failed, doubt, blind>>

(* Mutant: the inventory stays in the cache.                               *)
AskToDropNothing(c) ==
  /\ pc[c] \in {"apply", "revert"}
  /\ todo[c] = << >>
  /\ Goto(c, "idle")
  /\ touched' = [touched EXCEPT ![c] = {}]
  /\ UNCHANGED <<inEffect, cache, queue, inventory, listVars, screenVars, todo, outside,
                 foreign, failed, doubt, blind>>

(* Everything is done: the inventory is to be dropped.                     *)
AskToDrop(c) ==
  /\ pc[c] \in {"apply", "revert"}
  /\ todo[c] = << >>
  /\ queue' = Append(queue, c)
  /\ Goto(c, "drop")
  /\ UNCHANGED <<inEffect, cache, inventory, listVars, screenVars, todo, outside,
                 touched, foreign, failed, doubt, blind>>

(* `invalidate`, and the command returns.                                  *)
Invalidate(c) ==
  /\ pc[c] = "drop"
  /\ Holds(c)
  /\ cache' = NoInventory
  /\ failed' = FALSE
  /\ foreign' = {}
  /\ queue' = Tail(queue)
  /\ Goto(c, "idle")
  /\ touched' = [touched EXCEPT ![c] = {}]
  /\ UNCHANGED <<inEffect, inventory, listVars, screenVars, todo, outside,
                 doubt, blind>>

(* Another program changes a setting, installs a package or removes one.   *)
Outside(a) ==
  /\ outside < MaxOutside
  /\ outside' = outside + 1
  /\ Change(a, a \notin inEffect)
  /\ foreign' = IF a \in Package THEN foreign \cup {a} ELSE foreign
  /\ UNCHANGED <<cache, queue, inventory, pc, listVars, latest, shown, unseen, todo,
                 touched, failed, blind>>

-----------------------------------------------------------------------------
ListStep(l) ==
  \/ ReadSetting(l)
  \/ AskInventory(l)
  \/ FromCache(l)
  \/ StartPowerShell(l)
  \/ NoPowerShell(l)
  \/ PowerShellEnds(l)
  \/ StoreInventory(l)
  \/ EndList(l)

CommandStep(c) == Perform(c) \/ PerformFails(c) \/ AskToDrop(c) \/ Invalidate(c)

Next ==
  \/ \E l \in Lister : StartList(l) \/ ListStep(l)
  \/ \E c \in Command : CommandStep(c)
  \/ \E c \in Command, t \in Tweak :
       NextTweak(c, t) \/ \E apply \in BOOLEAN : StartCommand(c, t, apply)
  \/ \E a \in Action : Outside(a)

Spec == Init /\ [][Next]_vars

-----------------------------------------------------------------------------
(* Properties.                                                             *)

TypeOK ==
  /\ inEffect \subseteq Action
  /\ cache \in [filled : BOOLEAN, packages : SUBSET Package]
  /\ queue \in Seq(Lister \cup Command)
  /\ pc \in [Lister \cup Command ->
             {"idle", "check", "lock", "fetch", "store", "apply", "revert", "drop"}]
  /\ inventory \subseteq Package
  /\ tweak \in [Lister -> Offered \cup {0}]
  /\ checked \in [Lister -> Nat]
  /\ hits \in [Lister -> Nat]
  /\ answer \in [Lister -> [Tweak -> Status]]
  /\ shown \in [Tweak -> Status]
  /\ todo \in [Command -> Seq(Action)]
  /\ outside \in 0 .. MaxOutside
  /\ touched \in [Command -> SUBSET Action]
  /\ foreign \subseteq Package
  /\ failed \in BOOLEAN

(* Whoever holds or awaits the mutex of the inventory stands in its queue  *)
(* once, and only its first has PowerShell at work.                        *)
Waits(x) == \E i \in DOMAIN queue : queue[i] = x
OneAtATime ==
  /\ \A i, j \in DOMAIN queue : queue[i] = queue[j] => i = j
  /\ \A x \in Lister \cup Command : Waits(x) <=> pc[x] \in {"lock", "fetch", "store", "drop"}
  /\ \A l \in Lister : pc[l] \in {"fetch", "store"} => Holds(l)

(* The inventory in the cache is wrong only about packages that another    *)
(* program has touched, or a command that is still running has removed:    *)
(* one that has returned leaves nothing stale behind ("removing packages   *)
(* changes what a status check would report", commands.rs:332).            *)
InventoryIsFresh ==
  cache.filled /\ ~failed =>
    \A p \in Package \ Disputed : p \in cache.packages <=> p \notin inEffect

(* What a tweak's status really is.                                        *)
OnCount(t) == LET on == {i \in DOMAIN Catalog[t].actions : Catalog[t].actions[i] \in inEffect}
              IN  IF on = DOMAIN Catalog[t].actions THEN "applied"
                  ELSE IF on = {} THEN "not_applied" ELSE "partial"

(* The list on the screen tells the truth about every tweak, or that it is *)
(* unknown, for whatever commands have returned when it was asked for.  It *)
(* may be wrong only about what has been changed since or was being        *)
(* changed then, about packages another program has touched, and about     *)
(* tweaks for which PowerShell failed.                                     *)
ScreenIsCurrent ==
  \A t \in Offered :
    \/ shown[t] \in {OnCount(t), "unknown"}
    \/ Actions(t) \cap doubtful # {}
    \/ t \in unseen

(* What the program says of itself: a status is "never guessed at, because *)
(* showing a tweak as off when we simply could not look invites the user   *)
(* to apply it twice" (engine.rs:25-26), nor shown as on.                  *)
NeverGuessedAt == \A t \in unseen : shown[t] = "unknown"
============================================================================
