--------------------------- MODULE ProfilesProofs ---------------------------
(***************************************************************************)
(* Proofs about Profiles, for any names and files and any number of saves, *)
(* listings and installations at the same time.  Of how a file name is     *)
(* made these use only that PathFor has one for each name: two names may   *)
(* well have the same.  That such a name is safe is proved at the end.     *)
(***************************************************************************)
EXTENDS Profiles, SequenceTheorems, WellFoundedInduction, TLAPS

Task    == Saver \cup Lister \cup Installer
Content == {Missing, Empty, Torn} \cup {Holding(p) : p \in Profile}

(* The types of what each property is about.                               *)
ShelfTypes ==
  /\ dir \in [File -> Content]
  /\ kept \subseteq Profile
  /\ saving \in [Saver -> Profile \cup {NoProfile}]
  /\ \A s \in Saver : pc[s] \in {"open", "write"} => saving[s] \in Profile
ListTypes ==
  /\ steady \in [Lister -> SUBSET Profile]
  /\ toRead \in [Lister -> SUBSET File]
  /\ got \in [Lister -> SUBSET Profile]
SelectionType == selection \subseteq Item
TaskTypes == pc \in [Task -> {"idle", "open", "write", "list", "install"}]

(* Nothing is ever written to a device.                                    *)
DevicesAreNoFiles == \A f \in File : IsDevice(f) => dir[f] = Missing

(* A listing still finds what has been there all along.                    *)
SteadyIsThere ==
  \A l \in Lister : \A p \in steady[l] : dir[PathFor[p.name]] = Holding(p)

ShelfInv == ShelfTypes /\ DevicesAreNoFiles /\ ShelfIsTrue
ListInv  == ListTypes /\ SteadyIsThere /\ ListingIsComplete
Inv      == TaskTypes /\ SelectionType /\ ShelfInv /\ ListInv

-----------------------------------------------------------------------------
LEMMA PathFacts ==
  /\ \A n \in ProfileName : PathFor[n] \in File
  /\ \A f \in Imports : f[1] \in File /\ ~IsDevice(f[1]) /\ f[2] \in Content
<1>1. \A n \in ProfileName : PathFor[n] \in File
  BY DEF File
<1>2. \A f \in Imports : f[1] \in File
  BY DEF File
<1>3. \A f \in Imports : ~IsDevice(f[1]) /\ f[2] \in Content
  BY ImportsAssumption DEF ImportsAssumption, IsDevice, Content
<1> QED
  BY <1>1, <1>2, <1>3

LEMMA ContentFacts ==
  /\ \A p : Holding(p).is = "profile" /\ Holding(p).profile = p
  /\ Missing.is # "profile" /\ Empty.is # "profile" /\ Torn.is # "profile"
  /\ \A x \in Content : x.is = "profile" => x.profile \in Profile /\ x = Holding(x.profile)
  /\ \A p \in Profile : Holding(p) \in Content /\ Holding(p) # Missing
  /\ Missing \in Content /\ Empty \in Content /\ Torn \in Content
<1>1. \A p : Holding(p).is = "profile" /\ Holding(p).profile = p
  BY DEF Holding
<1>2. /\ Missing.is = "missing" /\ Empty.is = "empty" /\ Torn.is = "torn"
      /\ "profile" \notin {"missing", "empty", "torn"}
  BY DEF Missing, Empty, Torn
<1>3. Missing \in Content /\ Empty \in Content /\ Torn \in Content
  BY DEF Content
<1>4. \A p \in Profile : Holding(p) \in Content /\ Holding(p) # Missing
  BY <1>1, <1>2 DEF Content
<1>5. ASSUME NEW x \in Content, x.is = "profile"
      PROVE  x.profile \in Profile /\ x = Holding(x.profile)
  <2>1. PICK p \in Profile : x = Holding(p)
    BY <1>2, <1>5 DEF Content
  <2> QED
    BY <1>1, <2>1
<1> QED
  BY <1>1, <1>2, <1>3, <1>4, <1>5

LEMMA ProfileFacts == \A p \in Profile : p.name \in ProfileName /\ PathFor[p.name] \in File
BY PathFacts DEF Profile

LEMMA PutFacts ==
  ASSUME dir \in [File -> Content], NEW f \in File, NEW content \in Content, Put(f, content)
  PROVE  /\ dir' \in [File -> Content] /\ dir'[f] = content
         /\ \A g \in File \ {f} : dir'[g] = dir[g]
BY DEF Put

(* Where tasks are.                                                        *)
LEMMA TaskStep ==
  ASSUME TaskTypes, [Next]_vars
  PROVE  TaskTypes'
<1>1. CASE UNCHANGED vars
  BY <1>1 DEF TaskTypes, vars, taskVars
<1>2. ASSUME NEW a \in App, Toggle(a)  PROVE TaskTypes'
  BY <1>2 DEF TaskTypes, Toggle, taskVars
<1>3. ASSUME NEW p \in Profile, ApplyProfile(p)  PROVE TaskTypes'
  BY <1>3 DEF TaskTypes, ApplyProfile, taskVars
<1>4. ASSUME NEW i \in Installer,
             StartInstall(i) \/ \E returned \in BOOLEAN : EndInstall(i, returned)
      PROVE  TaskTypes'
  BY <1>4 DEF TaskTypes, StartInstall, EndInstall, Goto, Task
<1>5. ASSUME NEW s \in Saver, \/ \E n \in ProfileName : StartSave(s, n)
                              \/ OpenFile(s) \/ WriteFile(s) \/ SaveFails(s)
      PROVE  TaskTypes'
  BY <1>5 DEF TaskTypes, StartSave, OpenFile, WriteFile, SaveFails, Goto, Task
<1>6. ASSUME NEW n \in ProfileName, Delete(n)  PROVE TaskTypes'
  BY <1>6 DEF TaskTypes, Delete, taskVars
<1>7. ASSUME NEW f \in Imports, Import(f[1], f[2])  PROVE TaskTypes'
  BY <1>7 DEF TaskTypes, Import, taskVars
<1>8. ASSUME NEW l \in Lister, StartList(l) \/ EndList(l) \/ \E f \in File : ReadFile(l, f)
      PROVE  TaskTypes'
  BY <1>8 DEF TaskTypes, StartList, EndList, ReadFile, Goto, Task
<1>9. CASE Crash
  BY <1>9 DEF TaskTypes, Crash, Task
<1>10. CASE Clear
  BY <1>10 DEF TaskTypes, Clear, taskVars
<1> QED
  BY <1>1, <1>2, <1>3, <1>4, <1>5, <1>6, <1>7, <1>8, <1>9, <1>10 DEF Next

-----------------------------------------------------------------------------
(* The selection.                                                          *)
LEMMA SelectionStep ==
  ASSUME SelectionType, [Next]_vars
  PROVE  SelectionType'
<1>1. \/ UNCHANGED selection \/ selection' = {}
      \/ \E a \in App : selection' = selection \ {a} \/ selection' = selection \cup {a}
      \/ \E p \in Profile : selection' = p.items
  BY DEF Next, Toggle, Clear, ApplyProfile, StartInstall, EndInstall, StartSave, OpenFile,
         WriteFile, SaveFails, Delete, Import, StartList, ReadFile, EndList, Crash, vars, screen
<1> QED
  BY <1>1 DEF SelectionType, Item, Profile

-----------------------------------------------------------------------------
(* Listings.                                                               *)
LEMMA PutSteady ==
  ASSUME ListInv, dir \in [File -> Content], NEW f \in File, NEW content \in Content,
         Put(f, content), UNCHANGED <<toRead, got>>,
         \A l \in Lister : pc'[l] = "list" => pc[l] = "list"
  PROVE  ListInv'
<1>1. /\ dir'[f] = content /\ \A g \in File \ {f} : dir'[g] = dir[g]
  BY PutFacts
<1>2. /\ steady' \in [Lister -> SUBSET Profile]
      /\ \A l \in Lister : \A p \in steady'[l] : p \in steady[l] /\ PathFor[p.name] # f
  BY DEF Put, ListInv, ListTypes
<1>3. SteadyIsThere'
  <2> SUFFICES ASSUME NEW l \in Lister, NEW p \in steady'[l]
               PROVE  dir'[PathFor[p.name]] = Holding(p)
    BY DEF SteadyIsThere
  <2>1. p \in steady[l] /\ PathFor[p.name] # f /\ PathFor[p.name] \in File
    BY <1>2, ProfileFacts DEF ListInv, ListTypes
  <2> QED
    BY <1>1, <2>1 DEF ListInv, SteadyIsThere
<1>4. ListingIsComplete'
  BY <1>2 DEF ListInv, ListingIsComplete
<1> QED
  BY <1>2, <1>3, <1>4 DEF ListInv, ListTypes

LEMMA ListStays ==
  ASSUME ListInv, UNCHANGED <<dir, steady, toRead, got>>,
         \A l \in Lister : pc'[l] = "list" => pc[l] = "list"
  PROVE  ListInv'
BY DEF ListInv, ListTypes, SteadyIsThere, ListingIsComplete

LEMMA ListStep ==
  ASSUME TaskTypes, ShelfTypes, ListInv, [Next]_vars
  PROVE  ListInv'
<1>0. /\ pc \in [Task -> {"idle", "open", "write", "list", "install"}]
      /\ dir \in [File -> Content] /\ steady \in [Lister -> SUBSET Profile]
      /\ toRead \in [Lister -> SUBSET File] /\ got \in [Lister -> SUBSET Profile]
  BY DEF TaskTypes, ShelfTypes, ListInv, ListTypes
<1>1. ASSUME NEW l \in Lister, StartList(l)  PROVE ListInv'
  <2> DEFINE there == {f \in File : dir[f] # Missing}
             same  == {p \in kept : dir[PathFor[p.name]] = Holding(p)}
  <2>1. /\ toRead' = [toRead EXCEPT ![l] = there] /\ got' = [got EXCEPT ![l] = {}]
        /\ steady' = [steady EXCEPT ![l] = same] /\ UNCHANGED dir
        /\ \A k \in Lister \ {l} : pc'[k] = pc[k]
    BY <1>0, <1>1 DEF StartList, Goto, Task
  <2>2. there \in SUBSET File /\ same \in SUBSET Profile
    BY DEF ShelfTypes
  <2>3. \A p \in same : dir[PathFor[p.name]] = Holding(p) /\ PathFor[p.name] \in there
    BY <2>2, ProfileFacts, ContentFacts
  <2> HIDE DEF there, same
  <2>4. /\ toRead' \in [Lister -> SUBSET File] /\ toRead'[l] = there
        /\ \A k \in Lister \ {l} : toRead'[k] = toRead[k]
    BY <1>0, <2>1, <2>2
  <2>5. /\ got' \in [Lister -> SUBSET Profile]
        /\ \A k \in Lister \ {l} : got'[k] = got[k]
    BY <1>0, <2>1
  <2>6. /\ steady' \in [Lister -> SUBSET Profile] /\ steady'[l] = same
        /\ \A k \in Lister \ {l} : steady'[k] = steady[k]
    BY <1>0, <2>1, <2>2
  <2>7. SteadyIsThere'
    BY <2>1, <2>3, <2>6 DEF ListInv, SteadyIsThere
  <2>8. ListingIsComplete'
    BY <2>1, <2>3, <2>4, <2>5, <2>6 DEF ListInv, ListingIsComplete
  <2> QED
    BY <2>4, <2>5, <2>6, <2>7, <2>8 DEF ListInv, ListTypes
<1>2. ASSUME NEW l \in Lister, NEW f \in File, ReadFile(l, f)  PROVE ListInv'
  <2> DEFINE more == IF Holds(f) THEN got[l] \cup {dir[f].profile} ELSE got[l]
  <2>1. /\ toRead' = [toRead EXCEPT ![l] = toRead[l] \ {f}]
        /\ got' = [got EXCEPT ![l] = more]
        /\ UNCHANGED <<pc, dir, steady>>
    BY <1>2 DEF ReadFile, shelf
  <2>2. more \in SUBSET Profile /\ got[l] \subseteq more
    BY <1>0, ContentFacts DEF Holds
  <2>3. \A p \in steady[l] : PathFor[p.name] = f => p \in more
    <3> TAKE p \in steady[l]
    <3>1. dir[PathFor[p.name]] = Holding(p)
      BY DEF ListInv, SteadyIsThere
    <3> QED
      BY <3>1, ContentFacts DEF Holds
  <2> HIDE DEF more
  <2>4. /\ toRead' \in [Lister -> SUBSET File] /\ toRead'[l] = toRead[l] \ {f}
        /\ \A k \in Lister \ {l} : toRead'[k] = toRead[k]
    BY <1>0, <2>1
  <2>5. /\ got' \in [Lister -> SUBSET Profile] /\ got'[l] = more
        /\ \A k \in Lister \ {l} : got'[k] = got[k]
    BY <1>0, <2>1, <2>2
  <2>6. ListingIsComplete'
    BY <2>1, <2>2, <2>3, <2>4, <2>5 DEF ListInv, ListingIsComplete
  <2> QED
    BY <2>1, <2>4, <2>5, <2>6 DEF ListInv, ListTypes, SteadyIsThere
<1>3. ASSUME NEW l \in Lister, EndList(l)  PROVE ListInv'
  <2>1. /\ got' = [got EXCEPT ![l] = {}] /\ steady' = [steady EXCEPT ![l] = {}]
        /\ UNCHANGED <<dir, toRead>>
        /\ pc'[l] = "idle" /\ \A k \in Lister \ {l} : pc'[k] = pc[k]
    BY <1>0, <1>3 DEF EndList, Goto, Task
  <2>2. /\ got' \in [Lister -> SUBSET Profile] /\ steady' \in [Lister -> SUBSET Profile]
        /\ steady'[l] = {}
        /\ \A k \in Lister \ {l} : got'[k] = got[k] /\ steady'[k] = steady[k]
    BY <1>0, <2>1
  <2> QED
    BY <2>1, <2>2 DEF ListInv, ListTypes, SteadyIsThere, ListingIsComplete
<1>4. ASSUME NEW s \in Saver, NEW label \in {"open", "write", "idle"}, Goto(s, label)
      PROVE  \A l \in Lister : pc'[l] = "list" => pc[l] = "list"
  BY <1>0, <1>4 DEF Goto, Task
<1>5. ASSUME NEW s \in Saver, OpenFile(s)  PROVE ListInv'
  <2>1. pc[s] = "open" /\ Goto(s, "write") /\ UNCHANGED <<toRead, got>>
    BY <1>5 DEF OpenFile, listing
  <2>2. FileOf(s) \in File /\ Empty \in Content
    BY <2>1, ProfileFacts, ContentFacts DEF ShelfTypes, FileOf
  <2>3. Put(FileOf(s), Empty) \/ UNCHANGED <<dir, steady>>
    BY <1>5 DEF OpenFile
  <2> QED
    BY <1>0, <1>4, <2>1, <2>2, <2>3, PutSteady, ListStays
<1>6. ASSUME NEW s \in Saver, WriteFile(s)  PROVE ListInv'
  <2>1. pc[s] = "write" /\ Goto(s, "idle") /\ UNCHANGED <<toRead, got>>
    BY <1>6 DEF WriteFile, listing
  <2>2. /\ FileOf(s) \in File /\ Holding(saving[s]) \in Content /\ Torn \in Content
    BY <2>1, ProfileFacts, ContentFacts DEF ShelfTypes, FileOf
  <2>3. \/ Put(FileOf(s), Holding(saving[s])) \/ Put(FileOf(s), Torn)
        \/ UNCHANGED <<dir, steady>>
    BY <1>6 DEF WriteFile
  <2> QED
    BY <1>0, <1>4, <2>1, <2>2, <2>3, PutSteady, ListStays
<1>7. ASSUME NEW s \in Saver, (\E n \in ProfileName : StartSave(s, n)) \/ SaveFails(s)
      PROVE  ListInv'
  <2>1. UNCHANGED <<dir, steady, toRead, got>> /\ (Goto(s, "open") \/ Goto(s, "idle"))
    BY <1>7 DEF StartSave, SaveFails, shelf, listing
  <2> QED
    BY <1>4, <2>1, ListStays
<1>8. ASSUME NEW n \in ProfileName, Delete(n)  PROVE ListInv'
  <2>1. Put(PathFor[n], Missing) /\ UNCHANGED <<toRead, got, pc>>
    BY <1>8 DEF Delete, RemoveFile, taskVars, listing
  <2> QED
    BY <1>0, <2>1, PathFacts, ContentFacts, PutSteady
<1>9. ASSUME NEW f \in Imports, Import(f[1], f[2])  PROVE ListInv'
  <2>1. Put(f[1], f[2]) /\ UNCHANGED <<toRead, got, pc>> /\ f[1] \in File /\ f[2] \in Content
    BY <1>9, PathFacts DEF Import, taskVars, listing
  <2> QED
    BY <1>0, <2>1, PutSteady
<1>10. ASSUME NEW i \in Installer,
              StartInstall(i) \/ \E returned \in BOOLEAN : EndInstall(i, returned)
       PROVE  ListInv'
  <2>1. UNCHANGED <<dir, steady, toRead, got>> /\ (Goto(i, "install") \/ Goto(i, "idle"))
    BY <1>10 DEF StartInstall, EndInstall, shelf, listing
  <2>2. \A l \in Lister : pc'[l] = "list" => pc[l] = "list"
    BY <1>0, <2>1 DEF Goto, Task
  <2> QED
    BY <2>1, <2>2, ListStays
<1>11. CASE \/ UNCHANGED vars \/ Clear \/ (\E a \in App : Toggle(a))
            \/ (\E p \in Profile : ApplyProfile(p))
  <2>1. UNCHANGED <<dir, steady, toRead, got, pc>>
    BY <1>11 DEF vars, Toggle, Clear, ApplyProfile, taskVars, shelf, listing
  <2> QED
    BY <2>1, ListStays
<1>12. CASE Crash
  BY <1>12 DEF Crash, ListInv, ListTypes, SteadyIsThere, ListingIsComplete, Task
<1> QED
  BY <1>1, <1>2, <1>3, <1>5, <1>6, <1>7, <1>8, <1>9, <1>10, <1>11, <1>12 DEF Next

-----------------------------------------------------------------------------
(* The directory.                                                          *)
LEMMA ShelfStays ==
  ASSUME ShelfInv, UNCHANGED <<dir, kept, excused, foreign>>, ShelfTypes'
  PROVE  ShelfInv'
BY DEF ShelfInv, DevicesAreNoFiles, ShelfIsTrue, Holds

(* A profile is in the directory, or it is excused that it is not.         *)
Kept(p) ==
  p.name \in excused \/ IsDevice(PathFor[p.name]) \/ dir[PathFor[p.name]] = Holding(p)
Own(f) == Holds(f) => dir[f].profile \in kept /\ PathFor[dir[f].profile.name] = f

LEMMA ShelfParts ==
  ShelfInv <=> /\ ShelfTypes /\ DevicesAreNoFiles
               /\ \A p \in kept : Kept(p)
               /\ \A f \in File \ foreign : Own(f)
BY DEF ShelfInv, ShelfIsTrue, Kept, Own

(* The names of the profiles that a change of f leaves without their file. *)
LEMMA KeptAtFacts ==
  ASSUME NEW p \in kept, NEW f, PathFor[p.name] = f
  PROVE  p.name \in KeptAt(f)
BY DEF KeptAt

LEMMA SaveMoves ==
  ASSUME TaskTypes, ShelfTypes, NEW s \in Saver, NEW label \in {"open", "write", "idle"},
         Goto(s, label), NEW p \in Profile \cup {NoProfile},
         \/ saving' = [saving EXCEPT ![s] = p] /\ (label = "idle" \/ p \in Profile)
         \/ UNCHANGED saving /\ (label = "idle" \/ saving[s] \in Profile)
  PROVE  /\ saving' \in [Saver -> Profile \cup {NoProfile}]
         /\ \A t \in Saver : pc'[t] \in {"open", "write"} => saving'[t] \in Profile
<1>1. /\ pc' = [pc EXCEPT ![s] = label] /\ s \in Task
      /\ pc \in [Task -> {"idle", "open", "write", "list", "install"}]
  BY DEF Goto, TaskTypes, Task
<1>2. pc'[s] = label /\ \A t \in Saver \ {s} : pc'[t] = pc[t]
  BY <1>1 DEF Task
<1>3. saving \in [Saver -> Profile \cup {NoProfile}]
  BY DEF ShelfTypes
<1>4. /\ saving' \in [Saver -> Profile \cup {NoProfile}]
      /\ \A t \in Saver \ {s} : saving'[t] = saving[t]
      /\ label = "idle" \/ saving'[s] \in Profile
  BY <1>3
<1> QED
  BY <1>2, <1>4 DEF ShelfTypes

LEMMA OthersMove ==
  ASSUME TaskTypes, ShelfTypes, UNCHANGED saving,
         \A t \in Saver : pc'[t] = pc[t]
  PROVE  /\ saving' \in [Saver -> Profile \cup {NoProfile}]
         /\ \A t \in Saver : pc'[t] \in {"open", "write"} => saving'[t] \in Profile
BY DEF ShelfTypes

LEMMA OpenKeeps ==
  ASSUME TaskTypes, ShelfInv, NEW s \in Saver, OpenFile(s)
  PROVE  ShelfInv'
<1> DEFINE f == FileOf(s)
<1>1. /\ pc[s] = "open" /\ Goto(s, "write") /\ UNCHANGED <<saving, kept>>
      /\ excused' = excused \cup KeptAt(f) \cup {saving[s].name}
      /\ foreign' = foreign \ {f}
      /\ IF IsDevice(f) THEN UNCHANGED dir ELSE Put(f, Empty)
  BY DEF OpenFile
<1>2. saving[s] \in Profile /\ f \in File /\ Empty \in Content
  BY <1>1, ProfileFacts, ContentFacts DEF ShelfInv, ShelfTypes, FileOf
<1>3. /\ saving' \in [Saver -> Profile \cup {NoProfile}]
      /\ \A t \in Saver : pc'[t] \in {"open", "write"} => saving'[t] \in Profile
  BY <1>1, <1>2, SaveMoves DEF ShelfInv
<1> HIDE DEF f
<1>4. CASE IsDevice(f)
  <2>1. dir' = dir /\ dir[f] = Missing
    BY <1>1, <1>2, <1>4 DEF ShelfInv, DevicesAreNoFiles
  <2>2. ShelfTypes' /\ DevicesAreNoFiles'
    BY <1>1, <1>3, <2>1 DEF ShelfInv, ShelfTypes, DevicesAreNoFiles
  <2>3. \A p \in kept' : Kept(p)'
    BY <1>1, <2>1, ShelfParts DEF Kept
  <2>4. \A g \in File \ foreign' : Own(g)'
    BY <1>1, <2>1, ShelfParts, ContentFacts DEF Own, Holds
  <2> QED
    BY <2>2, <2>3, <2>4
    DEF ShelfInv, ShelfIsTrue, Kept, Own
<1>5. CASE ~IsDevice(f)
  <2>1. /\ dir' \in [File -> Content] /\ dir'[f] = Empty
        /\ \A g \in File \ {f} : dir'[g] = dir[g]
    BY <1>1, <1>2, <1>5, PutFacts DEF ShelfInv, ShelfTypes
  <2>2. ShelfTypes'
    BY <1>1, <1>3, <2>1 DEF ShelfInv, ShelfTypes
  <2>3. DevicesAreNoFiles'
    BY <1>5, <2>1 DEF ShelfInv, DevicesAreNoFiles
  <2>4. ASSUME NEW p \in kept  PROVE Kept(p)'
    <3>1. Kept(p) /\ PathFor[p.name] \in File
      BY ShelfParts, ProfileFacts DEF ShelfTypes
    <3>2. CASE PathFor[p.name] = f
      BY <1>1, <3>2, KeptAtFacts DEF Kept
    <3>3. CASE PathFor[p.name] # f
      BY <1>1, <2>1, <3>1, <3>3 DEF Kept
    <3> QED
      BY <3>2, <3>3
  <2>5. \A g \in File \ foreign' : Own(g)'
    BY <1>1, <2>1, ShelfParts, ContentFacts DEF Own, Holds
  <2> QED
    BY <1>1, <2>2, <2>3, <2>4, <2>5
    DEF ShelfInv, ShelfIsTrue, Kept, Own
<1> QED
  BY <1>4, <1>5

LEMMA WriteKeeps ==
  ASSUME TaskTypes, ShelfInv, NEW s \in Saver, WriteFile(s)
  PROVE  ShelfInv'
<1> DEFINE f == FileOf(s)
           p == saving[s]
           others == {q \in kept : q.name # p.name}
<1>1. /\ pc[s] = "write" /\ Goto(s, "idle") /\ UNCHANGED foreign
      /\ saving' = [saving EXCEPT ![s] = NoProfile]
  BY DEF WriteFile
<1>2. /\ p \in Profile /\ f = PathFor[p.name] /\ f \in File /\ others \subseteq kept
      /\ Holding(p) \in Content /\ Torn \in Content
  BY <1>1, ProfileFacts, ContentFacts DEF ShelfInv, ShelfTypes, FileOf
<1>3. /\ saving' \in [Saver -> Profile \cup {NoProfile}]
      /\ \A t \in Saver : pc'[t] \in {"open", "write"} => saving'[t] \in Profile
  BY <1>1, SaveMoves DEF ShelfInv
<1>4. /\ ShelfTypes /\ DevicesAreNoFiles /\ dir \in [File -> Content] /\ kept \subseteq Profile
      /\ \A q \in kept : Kept(q) /\ PathFor[q.name] \in File
      /\ \A g \in File \ foreign : Own(g)
  BY ShelfParts, ProfileFacts DEF ShelfTypes
<1>5. \A q \in others : q \in kept /\ q.name # p.name
  OBVIOUS
<1>6. \A q \in kept : q.name # p.name => q \in others
  OBVIOUS
<1>c. CASE /\ ~IsDevice(f) /\ Put(f, Holding(p)) /\ kept' = others \cup {p}
           /\ excused' = (excused \ {p.name}) \cup (KeptAt(f) \ {p.name})
  <2> HIDE DEF f, p, others
  <2>1. /\ dir' \in [File -> Content] /\ dir'[f] = Holding(p)
        /\ \A g \in File \ {f} : dir'[g] = dir[g]
    BY <1>2, <1>4, <1>c, PutFacts
  <2>2. ShelfTypes'
    BY <1>2, <1>3, <1>4, <1>c, <2>1 DEF ShelfTypes
  <2>3. DevicesAreNoFiles'
    BY <1>2, <1>4, <1>c, <2>1 DEF DevicesAreNoFiles
  <2>4. \A q \in {p} : Kept(q)'
    BY <1>2, <2>1 DEF Kept
  <2>5. ASSUME NEW q \in others  PROVE Kept(q)'
    <3>1. q \in kept /\ q.name # p.name /\ Kept(q) /\ PathFor[q.name] \in File
      BY <1>4, <1>5
    <3>2. CASE PathFor[q.name] = f
      BY <1>c, <3>1, <3>2, KeptAtFacts DEF Kept
    <3>3. CASE PathFor[q.name] # f
      BY <1>c, <2>1, <3>1, <3>3 DEF Kept
    <3> QED
      BY <3>2, <3>3
  <2>6. ASSUME NEW g \in File \ foreign  PROVE Own(g)'
    <3>1. CASE g = f
      BY <1>2, <1>c, <2>1, <3>1, ContentFacts DEF Own
    <3>2. CASE g # f
      <4>1. Own(g) /\ dir'[g] = dir[g]
        BY <1>4, <2>1, <3>2
      <4>2. dir[g].profile \in kept /\ PathFor[dir[g].profile.name] = g
              => dir[g].profile \in others
        BY <1>2, <1>6, <3>2
      <4> QED
        BY <1>c, <4>1, <4>2 DEF Own, Holds
    <3> QED
      BY <3>1, <3>2
  <2> QED
    BY <1>1, <1>c, <2>2, <2>3, <2>4, <2>5, <2>6
    DEF ShelfInv, ShelfIsTrue, Kept, Own
<1>d. CASE /\ dir[f] # Missing /\ Put(f, Torn) /\ kept' = others \cup {p}
           /\ excused' = excused \cup KeptAt(f) \cup {p.name}
  <2> HIDE DEF f, p, others
  <2>1. /\ dir' \in [File -> Content] /\ dir'[f] = Torn
        /\ \A g \in File \ {f} : dir'[g] = dir[g]
    BY <1>2, <1>4, <1>d, PutFacts
  <2>2. ShelfTypes'
    BY <1>2, <1>3, <1>4, <1>d, <2>1 DEF ShelfTypes
  <2>3. DevicesAreNoFiles'
    BY <1>2, <1>4, <1>d, <2>1 DEF DevicesAreNoFiles
  <2>4. \A q \in {p} : Kept(q)'
    BY <1>d DEF Kept
  <2>5. ASSUME NEW q \in others  PROVE Kept(q)'
    <3>1. q \in kept /\ q.name # p.name /\ Kept(q) /\ PathFor[q.name] \in File
      BY <1>4, <1>5
    <3>2. CASE PathFor[q.name] = f
      BY <1>d, <3>1, <3>2, KeptAtFacts DEF Kept
    <3>3. CASE PathFor[q.name] # f
      BY <1>d, <2>1, <3>1, <3>3 DEF Kept
    <3> QED
      BY <3>2, <3>3
  <2>6. ASSUME NEW g \in File \ foreign  PROVE Own(g)'
    <3>1. CASE g = f
      BY <2>1, <3>1, ContentFacts DEF Own, Holds
    <3>2. CASE g # f
      <4>1. Own(g) /\ dir'[g] = dir[g]
        BY <1>4, <2>1, <3>2
      <4>2. dir[g].profile \in kept /\ PathFor[dir[g].profile.name] = g
              => dir[g].profile \in others
        BY <1>2, <1>6, <3>2
      <4> QED
        BY <1>d, <4>1, <4>2 DEF Own, Holds
    <3> QED
      BY <3>1, <3>2
  <2> QED
    BY <1>1, <1>d, <2>2, <2>3, <2>4, <2>5, <2>6
    DEF ShelfInv, ShelfIsTrue, Kept, Own
<1>e. CASE UNCHANGED <<dir, excused, kept>>
  <2>1. ShelfTypes'
    BY <1>3, <1>4, <1>e DEF ShelfTypes
  <2> QED
    BY <1>1, <1>e, <2>1, ShelfStays
<1>g. CASE IsDevice(f) /\ UNCHANGED <<dir, excused>> /\ kept' = others \cup {p}
  <2> HIDE DEF f, p, others
  <2>1. ShelfTypes' /\ DevicesAreNoFiles'
    BY <1>2, <1>3, <1>4, <1>g DEF ShelfTypes, DevicesAreNoFiles
  <2>2. \A q \in kept' : Kept(q)'
    BY <1>2, <1>4, <1>5, <1>g DEF Kept
  <2>3. ASSUME NEW h \in File \ foreign, Holds(h)  PROVE Own(h)'
    <3>1. h # f
      BY <1>4, <1>g, <2>3, ContentFacts DEF Holds, DevicesAreNoFiles
    <3>2. dir[h].profile \in kept /\ PathFor[dir[h].profile.name] = h
      BY <1>4, <2>3 DEF Own
    <3>3. dir[h].profile \in others
      BY <1>2, <1>6, <3>1, <3>2
    <3> QED
      BY <1>g, <3>2, <3>3 DEF Own
  <2>4. \A h \in File \ foreign : Own(h)'
    BY <1>g, <2>3 DEF Own, Holds
  <2> QED
    BY <1>1, <2>1, <2>2, <2>4
    DEF ShelfInv, ShelfIsTrue, Kept, Own
<1> QED
  BY <1>c, <1>d, <1>e, <1>g, ContentFacts DEF WriteFile

LEMMA DeleteKeeps ==
  ASSUME TaskTypes, ShelfInv, NEW n \in ProfileName, Delete(n)
  PROVE  ShelfInv'
<1> DEFINE f == PathFor[n]
<1>1. /\ Put(f, Missing) /\ UNCHANGED <<pc, saving>> /\ foreign' = foreign \ {f}
      /\ kept' = {p \in kept : p.name # n}
      /\ excused' = (excused \cup KeptAt(f)) \ {n}
  BY DEF Delete, RemoveFile, taskVars
<1>2. f \in File /\ Missing \in Content
  BY PathFacts, ContentFacts
<1>3. /\ ShelfTypes /\ DevicesAreNoFiles /\ dir \in [File -> Content] /\ kept \subseteq Profile
      /\ \A q \in kept : Kept(q) /\ PathFor[q.name] \in File
      /\ \A g \in File \ foreign : Own(g)
  BY ShelfParts, ProfileFacts DEF ShelfTypes
<1>4. \A g \in File : g # f => \A q : PathFor[q.name] = g => q.name # n
  OBVIOUS
<1> HIDE DEF f
<1>5. /\ dir' \in [File -> Content] /\ dir'[f] = Missing
      /\ \A g \in File \ {f} : dir'[g] = dir[g]
  BY <1>1, <1>2, <1>3, PutFacts
<1>6. ShelfTypes' /\ DevicesAreNoFiles'
  BY <1>1, <1>3, <1>5 DEF ShelfTypes, DevicesAreNoFiles
<1>7. ASSUME NEW q \in kept'  PROVE Kept(q)'
  <2>1. q \in kept /\ q.name # n /\ Kept(q) /\ PathFor[q.name] \in File
    BY <1>1, <1>3
  <2>2. CASE PathFor[q.name] = f
    BY <1>1, <2>1, <2>2, KeptAtFacts DEF Kept
  <2>3. CASE PathFor[q.name] # f
    BY <1>1, <1>5, <2>1, <2>3 DEF Kept
  <2> QED
    BY <2>2, <2>3
<1>8. ASSUME NEW g \in File \ foreign'  PROVE Own(g)'
  <2>1. CASE g = f
    BY <1>5, <2>1, ContentFacts DEF Own, Holds
  <2>2. CASE g # f
    BY <1>1, <1>3, <1>4, <1>5, <2>2 DEF Own, Holds
  <2> QED
    BY <2>1, <2>2
<1> QED
  BY <1>6, <1>7, <1>8
  DEF ShelfInv, ShelfIsTrue, Kept, Own

LEMMA ImportKeeps ==
  ASSUME TaskTypes, ShelfInv, NEW i \in Imports, Import(i[1], i[2])
  PROVE  ShelfInv'
<1> DEFINE f == i[1]
<1>1. /\ Put(f, i[2]) /\ UNCHANGED <<pc, saving, kept>> /\ foreign' = foreign \cup {f}
      /\ excused' = excused \cup KeptAt(f)
  BY DEF Import, taskVars
<1>2. f \in File /\ i[2] \in Content /\ ~IsDevice(f)
  BY PathFacts
<1>3. /\ ShelfTypes /\ DevicesAreNoFiles /\ dir \in [File -> Content] /\ kept \subseteq Profile
      /\ \A q \in kept : Kept(q) /\ PathFor[q.name] \in File
      /\ \A g \in File \ foreign : Own(g)
  BY ShelfParts, ProfileFacts DEF ShelfTypes
<1> HIDE DEF f
<1>4. /\ dir' \in [File -> Content] /\ \A g \in File \ {f} : dir'[g] = dir[g]
  BY <1>1, <1>2, <1>3, PutFacts
<1>5. ShelfTypes'
  BY <1>1, <1>3, <1>4 DEF ShelfTypes
<1>6. DevicesAreNoFiles'
  BY <1>2, <1>3, <1>4 DEF DevicesAreNoFiles
<1>7. ASSUME NEW q \in kept  PROVE Kept(q)'
  <2>1. CASE PathFor[q.name] = f
    BY <1>1, <2>1, KeptAtFacts DEF Kept
  <2>2. CASE PathFor[q.name] # f
    BY <1>1, <1>3, <1>4, <2>2 DEF Kept
  <2> QED
    BY <2>1, <2>2
<1>8. \A g \in File \ foreign' : Own(g)'
  BY <1>1, <1>3, <1>4 DEF Own, Holds
<1> QED
  BY <1>1, <1>5, <1>6, <1>7, <1>8
  DEF ShelfInv, ShelfIsTrue, Kept, Own

LEMMA ShelfStep ==
  ASSUME TaskTypes, SelectionType, ShelfInv, [Next]_vars
  PROVE  ShelfInv'
<1>0. /\ ShelfTypes /\ pc \in [Task -> {"idle", "open", "write", "list", "install"}]
  BY DEF ShelfInv, TaskTypes
<1>1. ASSUME NEW s \in Saver, NEW n \in ProfileName, StartSave(s, n)  PROVE ShelfInv'
  <2> DEFINE p == [name |-> n, items |-> selection]
  <2>1. /\ Goto(s, "open") /\ saving' = [saving EXCEPT ![s] = p]
        /\ UNCHANGED <<dir, kept, excused, foreign>>
    BY <1>1 DEF StartSave, shelf
  <2>2. p \in Profile
    BY DEF SelectionType, Profile
  <2> HIDE DEF p
  <2>3. ShelfTypes'
    BY <1>0, <2>1, <2>2, SaveMoves DEF ShelfTypes
  <2> QED
    BY <2>1, <2>3, ShelfStays
<1>2. ASSUME NEW s \in Saver, OpenFile(s) \/ WriteFile(s)  PROVE ShelfInv'
  BY <1>2, OpenKeeps, WriteKeeps
<1>3. ASSUME NEW s \in Saver, SaveFails(s)  PROVE ShelfInv'
  <2>1. /\ Goto(s, "idle") /\ saving' = [saving EXCEPT ![s] = NoProfile]
        /\ UNCHANGED <<dir, kept, excused, foreign>>
    BY <1>3 DEF SaveFails, shelf
  <2>2. ShelfTypes'
    BY <1>0, <2>1, SaveMoves DEF ShelfTypes
  <2> QED
    BY <2>1, <2>2, ShelfStays
<1>4. ASSUME NEW n \in ProfileName, Delete(n)  PROVE ShelfInv'
  BY <1>4, DeleteKeeps
<1>5. ASSUME NEW f \in Imports, Import(f[1], f[2])  PROVE ShelfInv'
  BY <1>5, ImportKeeps
<1>6. ASSUME UNCHANGED <<saving, dir, kept, excused, foreign>>,
             \A t \in Saver : pc'[t] \in {"open", "write"} => pc'[t] = pc[t]
      PROVE  ShelfInv'
  BY <1>0, <1>6, ShelfStays DEF ShelfTypes
<1>7. ASSUME NEW i \in Installer,
             StartInstall(i) \/ \E returned \in BOOLEAN : EndInstall(i, returned)
      PROVE  ShelfInv'
  <2>1. /\ UNCHANGED <<saving, dir, kept, excused, foreign>>
        /\ Goto(i, "install") \/ Goto(i, "idle")
    BY <1>7 DEF StartInstall, EndInstall, shelf
  <2>2. \A t \in Saver : pc'[t] \in {"open", "write"} => pc'[t] = pc[t]
    BY <1>0, <2>1 DEF Goto, Task
  <2> QED
    BY <1>6, <2>1, <2>2
<1>8. ASSUME NEW l \in Lister, StartList(l) \/ EndList(l) \/ \E f \in File : ReadFile(l, f)
      PROVE  ShelfInv'
  <2>1. /\ UNCHANGED <<saving, dir, kept, excused, foreign>>
        /\ Goto(l, "list") \/ Goto(l, "idle") \/ UNCHANGED pc
    BY <1>8 DEF StartList, EndList, ReadFile, shelf
  <2>2. \A t \in Saver : pc'[t] \in {"open", "write"} => pc'[t] = pc[t]
    BY <1>0, <2>1 DEF Goto, Task
  <2> QED
    BY <1>6, <2>1, <2>2
<1>9. CASE \/ UNCHANGED vars \/ Clear \/ (\E a \in App : Toggle(a))
           \/ (\E p \in Profile : ApplyProfile(p))
  <2>1. UNCHANGED <<saving, dir, kept, excused, foreign, pc>>
    BY <1>9 DEF vars, Toggle, Clear, ApplyProfile, taskVars, shelf
  <2> QED
    BY <1>6, <2>1
<1>10. CASE Crash
  <2>1. /\ UNCHANGED <<dir, kept, excused, foreign>>
        /\ saving' \in [Saver -> Profile \cup {NoProfile}]
        /\ \A t \in Saver : pc'[t] = "idle"
    BY <1>10 DEF Crash
  <2>2. ShelfTypes'
    BY <1>0, <2>1 DEF ShelfTypes
  <2> QED
    BY <2>1, <2>2, ShelfStays
<1> QED
  BY <1>1, <1>2, <1>3, <1>4, <1>5, <1>7, <1>8, <1>9, <1>10 DEF Next

-----------------------------------------------------------------------------
(* The invariant.                                                          *)
LEMMA InitInv == Init => Inv
<1> SUFFICES ASSUME Init PROVE Inv
  OBVIOUS
<1>1. TaskTypes
  BY DEF Init, TaskTypes, Task
<1>2. ShelfInv
  <2>1. \A f \in File : dir[f] = Missing
    BY DEF Init
  <2>2. ShelfTypes
    BY ContentFacts DEF Init, ShelfTypes
  <2>3. DevicesAreNoFiles
    BY <2>1 DEF DevicesAreNoFiles
  <2>4. ShelfIsTrue
    BY <2>1, ContentFacts DEF Init, ShelfIsTrue, Holds
  <2> QED
    BY <2>2, <2>3, <2>4 DEF ShelfInv
<1>3. ListInv
  BY DEF Init, ListInv, ListTypes, SteadyIsThere, ListingIsComplete
<1>4. SelectionType
  BY DEF Init, SelectionType
<1> QED
  BY <1>1, <1>2, <1>3, <1>4 DEF Inv

LEMMA InvHolds == Spec => []Inv
<1>1. Init => Inv
  BY InitInv
<1>2. Inv /\ [Next]_vars => Inv'
  BY TaskStep, SelectionStep, ShelfStep, ListStep DEF Inv, ShelfInv
<1> QED
  BY <1>1, <1>2, PTL DEF Spec

(* What a save has said it keeps is on disk, whatever saves, deletions and *)
(* crashes overlap, but for names that share a file and for devices.       *)
THEOREM SavedIsOnDisk == Spec => []ShelfIsTrue
<1>1. Inv => ShelfIsTrue
  BY DEF Inv, ShelfInv
<1> QED
  BY <1>1, InvHolds, PTL

(* A listing misses no profile that was there all the time, whatever else  *)
(* is in the directory and however it changes meanwhile.                   *)
THEOREM ListingsAreComplete == Spec => []ListingIsComplete
<1>1. Inv => ListingIsComplete
  BY DEF Inv, ListInv
<1> QED
  BY <1>1, InvHolds, PTL

-----------------------------------------------------------------------------
(* File names: SafeFileName of any name over any characters.               *)

(* Least and greatest elements: induction over an operator is out of reach *)
(* here, but < is well-founded and sets of numbers have minimal elements.  *)
LEMMA Least ==
  ASSUME NEW T \in SUBSET Nat, T # {}
  PROVE  \E u \in T : \A v \in T : u <= v
<1>1. PICK u \in T : \A v \in T : <<v, u>> \notin OpToRel(<, Nat)
  BY NatLessThanWellFounded, WFMin, Zenon
<1>2. u \in Nat /\ \A v \in T : v \in Nat
  OBVIOUS
<1>3. \A v \in T : ~ (v < u)
  BY <1>1, <1>2, Zenon DEF OpToRel
<1> QED
  BY <1>2, <1>3

LEMMA Greatest ==
  ASSUME NEW n \in Nat, NEW T \in SUBSET (1 .. n), T # {}
  PROVE  \E u \in T : \A v \in T : u >= v
<1> DEFINE D == {m \in Nat : \E v \in T : m = n - v}
<1>1. PICK v0 \in T : TRUE
  OBVIOUS
<1>2. \A v \in T : v \in 1 .. n /\ n - v \in Nat
  OBVIOUS
<1>3. D \in SUBSET Nat /\ n - v0 \in D
  BY <1>1, <1>2
<1>4. PICK d \in D : \A e \in D : d <= e
  <2> HIDE DEF D
  <2> QED
    BY <1>3, Least
<1>5. PICK u \in T : d = n - u
  BY <1>4
<1>6. ASSUME NEW v \in T
      PROVE  u >= v
  <2>1. n - v \in D
    BY <1>2
  <2>2. n - u <= n - v
    BY <1>4, <1>5, <2>1, Zenon
  <2>3. n \in Nat /\ u \in Nat /\ v \in Nat
    BY <1>2
  <2> HIDE DEF D
  <2> QED
    BY <2>2, <2>3
<1> QED
  BY <1>5, <1>6

(* What the operators choose.                                              *)
LEMMA MinMax ==
  ASSUME NEW n \in Nat, NEW T \in SUBSET (1 .. n), T # {}
  PROVE  /\ Min(T) \in T /\ \A v \in T : Min(T) <= v
         /\ Max(T) \in T /\ \A v \in T : Max(T) >= v
<1>1. \E u \in T : \A v \in T : u <= v
  BY Least
<1>2. \E u \in T : \A v \in T : u >= v
  BY Greatest
<1>3. Min(T) \in T /\ \A v \in T : Min(T) <= v
  BY <1>1, Zenon DEF Min
<1>4. Max(T) \in T /\ \A v \in T : Max(T) >= v
  BY <1>2, Zenon DEF Max
<1> QED
  BY <1>3, <1>4

(* Nothing in s is forbidden.                                              *)
Allowed(s) == \A i \in DOMAIN s : s[i] \notin Forbidden

(* A part of a sequence.                                                   *)
LEMMA Part ==
  ASSUME NEW C, NEW s \in Seq(C), Allowed(s), NEW j \in 1 .. Len(s), NEW k \in 1 .. Len(s), j <= k
  PROVE  /\ SubSeq(s, j, k) \in Seq(C) /\ Allowed(SubSeq(s, j, k))
         /\ Len(SubSeq(s, j, k)) \in Nat \ {0}
         /\ SubSeq(s, j, k)[1] = s[j]
         /\ SubSeq(s, j, k)[Len(SubSeq(s, j, k))] = s[k]
<1>1. Len(s) \in Nat /\ DOMAIN s = 1 .. Len(s)
  BY LenProperties
<1>2. \A i \in j .. k : i \in 1 .. Len(s)
  BY <1>1
<1>3. \A i \in j .. k : s[i] \in C
  BY <1>2, ElementOfSeq
<1>4. /\ SubSeq(s, j, k) \in Seq(C)
      /\ Len(SubSeq(s, j, k)) = IF j <= k THEN k - j + 1 ELSE 0
      /\ \A i \in 1 .. k - j + 1 : SubSeq(s, j, k)[i] = s[j + i - 1]
  BY <1>1, <1>3, SubSeqProperties
<1> DEFINE p == SubSeq(s, j, k)
<1>5. p \in Seq(C) /\ Len(p) = k - j + 1 /\ \A i \in 1 .. k - j + 1 : p[i] = s[j + i - 1]
  BY <1>4
<1> HIDE DEF p
<1>6. DOMAIN p = 1 .. k - j + 1
  BY <1>5, LenProperties
<1>7. \A i \in 1 .. k - j + 1 : j + i - 1 \in 1 .. Len(s)
  BY <1>1
<1>8. Allowed(p)
  BY <1>1, <1>5, <1>6, <1>7 DEF Allowed
<1>9. 1 \in 1 .. k - j + 1 /\ k - j + 1 \in 1 .. k - j + 1 /\ k - j + 1 \in Nat \ {0}
  BY <1>1
<1>10. p[1] = s[j] /\ p[k - j + 1] = s[k]
  <2>1. p[1] = s[j + 1 - 1] /\ p[k - j + 1] = s[j + (k - j + 1) - 1]
    BY <1>5, <1>9
  <2>2. j + 1 - 1 = j /\ j + (k - j + 1) - 1 = k
    BY <1>1
  <2> QED
    BY <2>1, <2>2
<1> QED
  BY <1>5, <1>8, <1>9, <1>10 DEF p

(* What is not cut off lies within the name.                               *)
LEMMA EndsType ==
  ASSUME NEW C, NEW s \in Seq(C), NEW cut
  PROVE  Len(s) \in Nat /\ Ends(s, cut) \in SUBSET (1 .. Len(s))
<1>1. Len(s) \in Nat /\ DOMAIN s = 1 .. Len(s)
  BY LenProperties
<1> QED
  BY <1>1, Zenon DEF Ends

(* The empty name.                                                         *)
LEMMA NothingLeft ==
  ASSUME NEW C
  PROVE  << >> \in Seq(C) /\ Allowed(<< >>)
BY DEF Allowed

(* Cutting characters off the ends adds none.                              *)
LEMMA TrimEndType ==
  ASSUME NEW C, NEW s \in Seq(C), Allowed(s), NEW cut
  PROVE  TrimEnd(s, cut) \in Seq(C) /\ Allowed(TrimEnd(s, cut))
<1>1. CASE Ends(s, cut) = {}
  BY <1>1, NothingLeft, Zenon DEF TrimEnd
<1>2. CASE Ends(s, cut) # {}
  <2>1. Len(s) \in Nat /\ Ends(s, cut) \in SUBSET (1 .. Len(s))
    BY EndsType
  <2>2. Max(Ends(s, cut)) \in 1 .. Len(s)
    BY <1>2, <2>1, MinMax
  <2>3. ASSUME NEW k \in 1 .. Len(s)
        PROVE  SubSeq(s, 1, k) \in Seq(C) /\ Allowed(SubSeq(s, 1, k))
    <3>1. 1 \in 1 .. Len(s) /\ 1 <= k
      BY <2>1
    <3> QED
      BY <3>1, Part
  <2> QED
    BY <1>2, <2>2, <2>3, Zenon DEF TrimEnd
<1> QED
  BY <1>1, <1>2

(* After a trim there is nothing to trim.                                  *)
LEMMA TrimType ==
  ASSUME NEW C, NEW s \in Seq(C), Allowed(s)
  PROVE  /\ Trim(s) \in Seq(C) /\ Allowed(Trim(s))
         /\ Trim(s) # << >> => Trim(s)[1] # " " /\ Trim(s)[Len(Trim(s))] # " "
<1>1. CASE Ends(s, {" "}) = {}
  BY <1>1, NothingLeft, Zenon DEF Trim
<1>2. CASE Ends(s, {" "}) # {}
  <2> DEFINE E == Ends(s, {" "})
  <2>1. Len(s) \in Nat /\ E \in SUBSET (1 .. Len(s))
    BY EndsType
  <2>2. \A i \in E : s[i] # " "
    BY DEF Ends
  <2>3. E # {} /\ Trim(s) = SubSeq(s, Min(E), Max(E))
    BY <1>2, Zenon DEF Trim
  <2> HIDE DEF E
  <2>4. Min(E) \in E /\ Max(E) \in E /\ Min(E) <= Max(E)
    BY <2>1, <2>3, MinMax
  <2>5. Min(E) \in 1 .. Len(s) /\ Max(E) \in 1 .. Len(s)
    BY <2>1, <2>4
  <2> DEFINE j == Min(E)
             k == Max(E)
  <2>6. j \in 1 .. Len(s) /\ k \in 1 .. Len(s) /\ j <= k
    BY <2>4, <2>5
  <2>7. s[j] # " " /\ s[k] # " "
    BY <2>2, <2>4, Zenon
  <2>8. Trim(s) = SubSeq(s, j, k)
    BY <2>3
  <2> HIDE DEF j, k
  <2>9. /\ SubSeq(s, j, k) \in Seq(C) /\ Allowed(SubSeq(s, j, k))
        /\ SubSeq(s, j, k)[1] = s[j]
        /\ SubSeq(s, j, k)[Len(SubSeq(s, j, k))] = s[k]
    BY <2>6, Part
  <2> QED
    BY <2>8, <2>9, <2>7, Zenon
<1> QED
  BY <1>1, <1>2

(* The underscore after a device name.                                     *)
LEMMA Appended ==
  ASSUME NEW C, NEW s \in Seq(C), s # << >>, NEW c \in C
  PROVE  LET file == Append(s, c) IN
         /\ \A i \in DOMAIN file : (i \in DOMAIN s /\ file[i] = s[i]) \/ file[i] = c
         /\ file # << >> /\ file[1] = s[1] /\ file[Len(file)] = c
<1> DEFINE file == Append(s, c)
<1>1. Len(s) \in Nat \ {0} /\ DOMAIN s = 1 .. Len(s)
  BY LenProperties, EmptySeq
<1>2. /\ \A i \in 1 .. Len(s) : file[i] = s[i]
      /\ file[Len(s) + 1] = c
      /\ file \in Seq(C)
      /\ Len(file) = Len(s) + 1
  BY <1>1
<1> HIDE DEF file
<1>3. DOMAIN file = 1 .. Len(s) + 1
  BY <1>2, LenProperties
<1>4. \A i \in DOMAIN file : i \in 1 .. Len(s) \/ i = Len(s) + 1
  BY <1>1, <1>3
<1>5. 1 \in 1 .. Len(s) /\ Len(file) # 0
  BY <1>1, <1>2
<1>6. file # << >>
  BY <1>5
<1> QED
  BY <1>1, <1>2, <1>4, <1>5, <1>6, Zenon DEF file

(* Whatever a user types, the name of the file is not empty, holds nothing *)
(* that Windows forbids in one, a path separator least of all, and neither *)
(* begins nor ends with a blank (profiles.rs:21-25, 43-50).                *)
THEOREM FileNamesAreSafe ==
  ASSUME NEW Char, NEW name \in Seq(Char)
  PROVE  LET file == SafeFileName(name) IN
         /\ file # << >>
         /\ \A i \in DOMAIN file : file[i] \notin Forbidden
         /\ file[1] # " " /\ file[Len(file)] # " "
<1> DEFINE C == Char \cup {"_", "profile"}
           cleaned == [i \in DOMAIN name |-> IF name[i] \in Forbidden THEN "_" ELSE name[i]]
           trimmed == Trim(TrimEnd(Trim(cleaned), {"."}))
           file == SafeFileName(name)
<1>1. "_" \notin Forbidden /\ "profile" \notin Forbidden /\ "_" # " " /\ "profile" # " "
  BY DEF Forbidden
<1>2. cleaned \in Seq(C) /\ Allowed(cleaned)
  <2>1. /\ Len(name) \in Nat /\ DOMAIN name = 1 .. Len(name)
        /\ \A i \in 1 .. Len(name) : name[i] \in Char
    BY LenProperties, ElementOfSeq
  <2>2. cleaned \in [1 .. Len(name) -> C]
    BY <2>1, Zenon
  <2>3. cleaned \in Seq(C)
    <3> HIDE DEF cleaned, C
    <3> QED
      BY <2>1, <2>2
  <2>4. DOMAIN cleaned = DOMAIN name /\ \A i \in DOMAIN name : cleaned[i] \notin Forbidden
    BY <1>1, Zenon
  <2> QED
    BY <2>3, <2>4, Zenon DEF Allowed
<1>3. file = IF trimmed = << >> THEN << "profile" >>
             ELSE IF Reserved(trimmed) THEN Append(trimmed, "_") ELSE trimmed
  BY Zenon DEF SafeFileName
<1> HIDE DEF cleaned
<1>4. Trim(cleaned) \in Seq(C) /\ Allowed(Trim(cleaned))
  BY <1>2, TrimType
<1>5. TrimEnd(Trim(cleaned), {"."}) \in Seq(C) /\ Allowed(TrimEnd(Trim(cleaned), {"."}))
  BY <1>4, TrimEndType
<1>6. /\ trimmed \in Seq(C) /\ Allowed(trimmed)
      /\ trimmed # << >> => trimmed[1] # " " /\ trimmed[Len(trimmed)] # " "
  BY <1>5, TrimType
<1> HIDE DEF trimmed, file
<1> SUFFICES file # << >> /\ Allowed(file) /\ file[1] # " " /\ file[Len(file)] # " "
  BY Zenon DEF Allowed, file
<1>7. CASE trimmed = << >>
  <2>1. file = << "profile" >>
    BY <1>3, <1>7, Zenon
  <2>2. Len(file) = 1 /\ file[1] = "profile" /\ DOMAIN file = {1} /\ file # << >>
    BY <2>1
  <2> QED
    BY <1>1, <2>2, Zenon DEF Allowed
<1>8. CASE trimmed # << >> /\ Reserved(trimmed)
  <2>1. file = Append(trimmed, "_")
    BY <1>3, <1>8, Zenon
  <2>2. "_" \in C /\ trimmed \in Seq(C) /\ trimmed # << >>
    BY <1>6, <1>8
  <2> HIDE DEF C
  <2>3. /\ \A i \in DOMAIN file :
               (i \in DOMAIN trimmed /\ file[i] = trimmed[i]) \/ file[i] = "_"
        /\ file # << >> /\ file[1] = trimmed[1] /\ file[Len(file)] = "_"
    <3> DEFINE c == "_"
    <3>1. c \in C
      BY <2>2
    <3> HIDE DEF c
    <3>2. LET f == Append(trimmed, c) IN
          /\ \A i \in DOMAIN f : (i \in DOMAIN trimmed /\ f[i] = trimmed[i]) \/ f[i] = c
          /\ f # << >> /\ f[1] = trimmed[1] /\ f[Len(f)] = c
      BY <2>2, <3>1, Appended
    <3> QED
      BY <2>1, <3>2, Zenon DEF c
  <2> QED
    BY <1>1, <1>6, <2>2, <2>3, Zenon DEF Allowed
<1>9. CASE trimmed # << >> /\ ~Reserved(trimmed)
  BY <1>6, <1>3, <1>9, Zenon
<1> QED
  BY <1>7, <1>8, <1>9
=============================================================================
