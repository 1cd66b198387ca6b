------------------------------ MODULE Profiles ------------------------------
(***************************************************************************)
(* Saved profiles: `safe_file_name`, `save`, `list` and `delete` of        *)
(* apps/desktop/src-tauri/src/profiles.rs behind the commands of           *)
(* commands.rs, and the selection they are made from and turned into       *)
(* (stores/selection.ts with AppsView.vue and ProfilesView.vue).           *)
(*                                                                         *)
(* A name is a sequence of characters, taken in classes.  A profile file   *)
(* has the safe form of its name; NTFS does not tell cases apart.  A save  *)
(* empties its file before it writes, and the saves and listings of one    *)
(* window may overlap.  What the window shows may be out of date.          *)
(***************************************************************************)
EXTENDS Naturals, Sequences, SequencesExt

CONSTANTS
  ProfileName, \* the names users give: trimmed, not empty
  App,         \* catalog apps, which the user ticks on the Apps screen
  TweakId,     \* tweaks, which come into a selection by a profile alone
  Imports,     \* the files a user copies into the directory: <<file, content>>
  Saver,       \* saves that may overlap
  Lister,      \* listings that may overlap
  Installer,   \* installations that may overlap
  MaxImports,  \* bound: how many files are copied in
  Faults       \* may a write fail, and the UI process end?

Item == App \cup TweakId

(* Characters: Windows forbids the Forbidden ones in file names; a Device  *)
(* is a whole reserved name, in any case.                                  *)
Forbidden == {"/", ":", "?"}
Device == {"CON", "nul"}
Upper(ch) == CASE ch = "a" -> "A" [] ch = "nul" -> "NUL" [] OTHER -> ch

(* `trim` and `trim_end_matches('.')`.                                     *)
Ends(s, cut) == {i \in DOMAIN s : s[i] \notin cut}
TrimEnd(s, cut) == IF Ends(s, cut) = {} THEN << >> ELSE SubSeq(s, 1, Max(Ends(s, cut)))
Trim(s) ==
  IF Ends(s, {" "}) = {} THEN << >> ELSE SubSeq(s, Min(Ends(s, {" "})), Max(Ends(s, {" "})))

Stem(s) == LET dot == SelectInSeq(s, LAMBDA ch : ch = ".")
           IN  IF dot = 0 THEN s ELSE SubSeq(s, 1, dot - 1)
Reserved(s) == \E d \in Device : [i \in DOMAIN Stem(s) |-> Upper(Stem(s)[i])] = << Upper(d) >>

(* `safe_file_name`.                                                       *)
SafeFileName(name) ==
  LET cleaned == [i \in DOMAIN name |-> IF name[i] \in Forbidden THEN "_" ELSE name[i]]
      trimmed == Trim(TrimEnd(Trim(cleaned), {"."})) IN
  IF trimmed = << >> THEN << "profile" >>
  ELSE IF Reserved(trimmed) THEN Append(trimmed, "_") ELSE trimmed

(* `path_for`, up to the file that Windows finds under it.                 *)
PathFor == [n \in ProfileName |->
              [i \in DOMAIN SafeFileName(n) |-> Upper(SafeFileName(n)[i])]]

Profile == [name : ProfileName, items : SUBSET Item]
File    == {PathFor[n] : n \in ProfileName} \cup {f[1] : f \in Imports}

(* What a file holds: nothing yet, something that is no profile, a profile.*)
(* No file can be copied to the name of a device.                          *)
Missing == [is |-> "missing"]
Empty   == [is |-> "empty"]
Torn    == [is |-> "torn"]
Holding(p) == [is |-> "profile", profile |-> p]

ASSUME NamesAreTrimmed == \A n \in ProfileName : n # << >> /\ Trim(n) = n
ASSUME ImportsAssumption ==
  /\ \A f \in Imports : f[2] \in {Torn} \cup {Holding(p) : p \in Profile} /\ ~Reserved(f[1])
  /\ MaxImports \in Nat
  /\ Faults \in BOOLEAN

VARIABLES
  dir,        \* the profiles directory
  selection,  \* what is ticked
  pc,         \* where each save, listing and installation is
  saving,     \* the profile a save writes
  toRead,     \* the files a listing has still to read ...
  got,        \* ... and the profiles it has read
  detached,   \* the saves whose open file was deleted under them
  shown,      \* the profiles on the screen
  imported,   \* how many files were copied in
  kept,       \* history: the profiles saved and not deleted or replaced
  excused,    \* history: names whose file was used for something else
  foreign,    \* history: the files that were copied in
  steady      \* history: profiles that were there all through a listing

listing  == <<toRead, got>>
taskVars == <<pc, saving, listing>>
screen   == <<selection, shown>>
shelf    == <<dir, detached, imported, kept, excused, foreign, steady>>
vars     == <<taskVars, screen, shelf>>

NoProfile == [name |-> << >>, items |-> {}]

Init ==
  /\ dir       = [f \in File |-> Missing]
  /\ selection = {}
  /\ pc        = [x \in Saver \cup Lister \cup Installer |-> "idle"]
  /\ saving    = [s \in Saver |-> NoProfile]
  /\ toRead    = [l \in Lister |-> {}]
  /\ got       = [l \in Lister |-> {}]
  /\ detached  = {}
  /\ shown     = {}
  /\ imported  = 0
  /\ kept      = {}
  /\ excused   = {}
  /\ foreign   = {}
  /\ steady    = [l \in Lister |-> {}]

Goto(x, label) == pc' = [pc EXCEPT ![x] = label]

Holds(f) == dir[f].is = "profile"

(* The file f changes, under whoever is listing the directory.             *)
Put(f, content) ==
  /\ dir' = [dir EXCEPT ![f] = content]
  /\ steady' = [l \in Lister |-> {p \in steady[l] : PathFor[p.name] # f}]

KeptAt(f) == {p.name : p \in {q \in kept : PathFor[q.name] = f}}

-----------------------------------------------------------------------------
(* The selection.                                                          *)

(* The user ticks an app or takes the tick away.                           *)
Toggle(a) ==
  /\ selection' = IF a \in selection THEN selection \ {a} ELSE selection \cup {a}
  /\ UNCHANGED <<taskVars, shown, shelf>>

(* The user takes all ticks away, those of the tweaks too.                 *)
Clear ==
  /\ selection \cap App # {}
  /\ selection' = {}
  /\ UNCHANGED <<taskVars, shown, shelf>>

(* A profile on the screen is applied: its ids become the selection.       *)
ApplyProfile(p) ==
  /\ p \in shown
  /\ selection' = p.items
  /\ UNCHANGED <<taskVars, shown, shelf>>

(* The ticked apps are installed.  A view that was left and entered again  *)
(* does not know that an installation is running.                          *)
StartInstall(i) ==
  /\ pc[i] = "idle"
  /\ selection \cap App # {}
  /\ Goto(i, "install")
  /\ UNCHANGED <<saving, listing, screen, shelf>>

(* When install_apps returns a report, whatever it says of the items, the  *)
(* selection is cleared: with apps that failed, with what was ticked in    *)
(* the meantime, and with the tweaks.  Only an error leaves it.            *)
EndInstall(i, returned) ==
  /\ pc[i] = "install"
  /\ Goto(i, "idle")
  /\ selection' = IF returned THEN {} ELSE selection
  /\ UNCHANGED <<saving, listing, shown, shelf>>

-----------------------------------------------------------------------------
(* Saving and deleting.                                                    *)

(* The selection is saved under a name.                                    *)
StartSave(s, n) ==
  /\ pc[s] = "idle"
  /\ selection # {}
  /\ Goto(s, "open")
  /\ saving' = [saving EXCEPT ![s] = [name |-> n, items |-> selection]]
  /\ UNCHANGED <<listing, screen, shelf>>

FileOf(s) == PathFor[saving[s].name]

(* A file that is a device to Windows takes what is written, and is none.  *)
IsDevice(f) == Reserved(f)

(* `write` creates the file, or empties it ...                             *)
OpenFile(s) ==
  /\ pc[s] = "open"
  /\ Goto(s, "write")
  /\ IF IsDevice(FileOf(s)) THEN UNCHANGED <<dir, steady>> ELSE Put(FileOf(s), Empty)
  /\ excused' = excused \cup KeptAt(FileOf(s)) \cup {saving[s].name}
  /\ foreign' = foreign \ {FileOf(s)}
  /\ UNCHANGED <<saving, listing, screen, detached, imported, kept>>

(* ... and fills it.  Over what another save has written meanwhile it may  *)
(* leave a rest of that.  What is written to a file deleted meanwhile is   *)
(* lost, also when another save has made a file of that name since.        *)
WriteFile(s) ==
  LET p == saving[s]
      f == FileOf(s)
      others == {q \in kept : q.name # p.name} IN
  /\ pc[s] = "write"
  /\ Goto(s, "idle")
  /\ saving' = [saving EXCEPT ![s] = NoProfile]
  /\ detached' = detached \ {s}
  /\ \/ /\ s \notin detached /\ ~IsDevice(f)
        /\ Put(f, Holding(p))
        /\ kept' = others \cup {p}
        /\ excused' = (excused \ {p.name}) \cup (KeptAt(f) \ {p.name})
     \/ /\ s \notin detached /\ dir[f] \notin {Missing, Empty, Holding(p)}
        /\ Put(f, Torn)
        /\ kept' = others \cup {p}
        /\ excused' = excused \cup KeptAt(f) \cup {p.name}
     \/ /\ s \in detached
        /\ UNCHANGED <<dir, steady, excused, kept>>
     \/ /\ IsDevice(f)
        /\ UNCHANGED <<dir, steady, excused>>
        /\ kept' = others \cup {p}
  /\ UNCHANGED <<listing, screen, imported, foreign>>

(* The directory, the file or the write fails, and the save says so.       *)
SaveFails(s) ==
  /\ Faults
  /\ pc[s] \in {"open", "write"}
  /\ Goto(s, "idle")
  /\ saving' = [saving EXCEPT ![s] = NoProfile]
  /\ detached' = detached \ {s}
  /\ UNCHANGED <<listing, screen, dir, imported, kept, excused, foreign, steady>>

(* The file goes, and with it what those write who have it open.           *)
RemoveFile(f) ==
  /\ Put(f, Missing)
  /\ detached' = detached \cup
                   {s \in Saver : pc[s] = "write" /\ FileOf(s) = f /\ dir[f] # Missing}

(* Mutant: the file looked for bears the name as it was typed.             *)
DeleteAsTyped(n) ==
  /\ \E p \in shown : p.name = n
  /\ IF n \in File THEN RemoveFile(n) ELSE UNCHANGED <<dir, steady, detached>>
  /\ kept' = {p \in kept : p.name # n}
  /\ excused' = (excused \cup KeptAt(PathFor[n])) \ {n}
  /\ UNCHANGED <<taskVars, screen, imported, foreign>>

(* A profile on the screen is deleted, by its name.  There need not be a   *)
(* file of that name, or not any more.                                     *)
Delete(n) ==
  /\ \E p \in shown : p.name = n
  /\ RemoveFile(PathFor[n])
  /\ kept' = {p \in kept : p.name # n}
  /\ excused' = (excused \cup KeptAt(PathFor[n])) \ {n}
  /\ foreign' = foreign \ {PathFor[n]}
  /\ UNCHANGED <<taskVars, screen, imported>>

(* A file is copied into the directory.                                    *)
Import(f, content) ==
  /\ imported < MaxImports
  /\ imported' = imported + 1
  /\ Put(f, content)
  /\ excused' = excused \cup KeptAt(f)
  /\ foreign' = foreign \cup {f}
  /\ UNCHANGED <<taskVars, screen, detached, kept>>

-----------------------------------------------------------------------------
(* Listing.                                                                *)

StartList(l) ==
  /\ pc[l] = "idle"
  /\ Goto(l, "list")
  /\ toRead' = [toRead EXCEPT ![l] = {f \in File : dir[f] # Missing}]
  /\ got'    = [got EXCEPT ![l] = {}]
  /\ steady' = [steady EXCEPT ![l] = {p \in kept : dir[PathFor[p.name]] = Holding(p)}]
  /\ UNCHANGED <<saving, screen, dir, detached, imported, kept, excused, foreign>>

(* Mutant: a file that is no profile ends the listing.                     *)
ReadFileOrStop(l, f) ==
  /\ pc[l] = "list"
  /\ f \in toRead[l]
  /\ toRead' = [toRead EXCEPT ![l] = IF dir[f] = Torn THEN {} ELSE @ \ {f}]
  /\ got' = [got EXCEPT ![l] = IF Holds(f) THEN @ \cup {dir[f].profile} ELSE @]
  /\ UNCHANGED <<pc, saving, screen, shelf>>

(* One file is read.  What has gone, or is no profile, is skipped.         *)
ReadFile(l, f) ==
  /\ pc[l] = "list"
  /\ f \in toRead[l]
  /\ toRead' = [toRead EXCEPT ![l] = @ \ {f}]
  /\ got' = [got EXCEPT ![l] = IF Holds(f) THEN @ \cup {dir[f].profile} ELSE @]
  /\ UNCHANGED <<pc, saving, screen, shelf>>

(* The list goes to the screen.                                            *)
EndList(l) ==
  /\ pc[l] = "list"
  /\ toRead[l] = {}
  /\ Goto(l, "idle")
  /\ steady' = [steady EXCEPT ![l] = {}]
  /\ shown' = got[l]
  /\ got' = [got EXCEPT ![l] = {}]
  /\ UNCHANGED <<saving, toRead, selection, dir, detached, imported, kept, excused, foreign>>

(* The UI process ends and is started again: the directory is left.        *)
Crash ==
  /\ Faults
  /\ pc'        = [x \in Saver \cup Lister \cup Installer |-> "idle"]
  /\ selection' = {}
  /\ saving'    = [s \in Saver |-> NoProfile]
  /\ toRead'    = [l \in Lister |-> {}]
  /\ got'       = [l \in Lister |-> {}]
  /\ detached'  = {}
  /\ shown'     = {}
  /\ steady'    = [l \in Lister |-> {}]
  /\ UNCHANGED <<dir, imported, kept, excused, foreign>>

Next ==
  \/ \E a \in App : Toggle(a)
  \/ Clear
  \/ \E p \in Profile : ApplyProfile(p)
  \/ \E i \in Installer : StartInstall(i) \/ \E returned \in BOOLEAN : EndInstall(i, returned)
  \/ \E s \in Saver : \/ \E n \in ProfileName : StartSave(s, n)
                      \/ OpenFile(s) \/ WriteFile(s) \/ SaveFails(s)
  \/ \E n \in ProfileName : Delete(n)
  \/ \E f \in Imports : Import(f[1], f[2])
  \/ \E l \in Lister : StartList(l) \/ EndList(l) \/ \E f \in File : ReadFile(l, f)
  \/ Crash

Spec == Init /\ [][Next]_vars

-----------------------------------------------------------------------------
(* What a profile says it keeps is on disk: under the file of its name,    *)
(* unless that file was since used for another profile of the same file    *)
(* name, copied over, or opened by a save that has not ended well, and     *)
(* unless Windows takes the name for a device.  And a file that nobody     *)
(* copied in holds a profile only while that is kept: what was deleted     *)
(* does not come back under a save that was still on its way.              *)
ShelfIsTrue ==
  /\ \A p \in kept : \/ p.name \in excused
                     \/ IsDevice(PathFor[p.name])
                     \/ dir[PathFor[p.name]] = Holding(p)
  /\ \A f \in File \ foreign : Holds(f) =>
       dir[f].profile \in kept /\ PathFor[dir[f].profile.name] = f

(* `list`: a profile whose file was there and was not touched while the    *)
(* directory was read is on the list, whatever else the directory holds    *)
(* and however many saves and deletions ran meanwhile.                     *)
ListingIsComplete ==
  \A l \in Lister : pc[l] = "list" =>
    \A p \in steady[l] : PathFor[p.name] \in toRead[l] \/ p \in got[l]
=============================================================================
