------------------------- MODULE TweakEngineProofs -------------------------
(***************************************************************************)
(* Proofs about TweakEngine: its types, and that the captures SIO keeps    *)
(* always lead back to the machine it found.                               *)
(***************************************************************************)
EXTENDS TweakEngine, WellFoundedInduction, TLAPS

(* The parts of an action and of a captured action, by kind of location.   *)
LEMMA ActionParts ==
  ASSUME NEW a \in Action
  PROVE  /\ a.at \in Location
         /\ a.at \in RegLoc => a.value \in RegValue
         /\ a.at \in Service => a.start \in StartType /\ a.stop \in BOOLEAN
  BY LocationsAreDistinct DEF Action, Location

LEMMA CapturedParts ==
  ASSUME NEW r \in Captured
  PROVE  /\ r.at \in Location
         /\ r.at \in Reversible => IsState(r.at, r.prior)
  BY LocationsAreDistinct DEF Captured, Location, Reversible, IsState

(* A change leaves a state of the right kind ...                           *)
LEMMA AfterIsState ==
  ASSUME NEW a \in Action, NEW s, IsState(a.at, s)
  PROVE  IsState(a.at, After(a, s))
  <1>1. CASE a.at \in RegLoc
    BY <1>1, ActionParts, LocationsAreDistinct DEF IsState, After, RegState
  <1>2. CASE a.at \in Service
    BY <1>2, ActionParts, LocationsAreDistinct DEF IsState, After, ServiceState
  <1>3. CASE a.at \in Appx
    BY <1>3, LocationsAreDistinct DEF IsState, After
  <1>. QED  BY <1>1, <1>2, <1>3, ActionParts DEF Location

(* ... and its capture is well-formed, of the same location, and true.     *)
LEMMA CaptureIsCaptured ==
  ASSUME NEW a \in Action, NEW s, IsState(a.at, s)
  PROVE  /\ Capture(a, s) \in Captured
         /\ Capture(a, s).at = a.at
         /\ a.at \in Reversible /\ ~Undecodable(a, s) => Capture(a, s).prior = s
  <1>1. CASE a.at \in Appx
    BY <1>1, LocationsAreDistinct DEF Capture, Captured, Reversible
  <1>2. CASE a.at \in RegLoc
    BY <1>2, LocationsAreDistinct DEF Capture, Captured, Reversible, IsState, RegState
  <1>3. CASE a.at \in Service
    BY <1>3, LocationsAreDistinct DEF Capture, Captured, Reversible, IsState, Undecodable
  <1>. QED  BY <1>1, <1>2, <1>3, ActionParts DEF Location

LEMMA MachineUpdate ==
  ASSUME NEW m, IsMachine(m), NEW l \in Location, NEW s, IsState(l, s)
  PROVE  /\ IsMachine([m EXCEPT ![l] = s])
         /\ [m EXCEPT ![l] = s][l] = s
         /\ \A k \in Location \ {l} : [m EXCEPT ![l] = s][k] = m[k]
  BY DEF IsMachine

LEMMA CatalogType ==
  ASSUME NEW t \in Tweak
  PROVE  /\ Catalog[t] \in Seq(Action)
         /\ Len(Catalog[t]) \in Nat \ {0}
         /\ \A i \in Index(t) : Catalog[t][i] \in Action
  BY CatalogIsValid DEF Tweak, Index

-----------------------------------------------------------------------------
(* Types.                                                                  *)

USE DEF Goto, Fault

LEMMA NextActionType ==
  ASSUME TypeOK, CommandShape, NEW c \in Command, pc[c] = "perform"
  PROVE  /\ cur[c] \in Tweak
         /\ Len(captured[c]) + 1 \in Index(cur[c])
         /\ NextAction(c) \in Action
         /\ IsState(NextAction(c).at, machine[NextAction(c).at])
         /\ NextAction(c).at \in Location
  <1>1. cur[c] \in Tweak /\ Len(captured[c]) < Len(Catalog[cur[c]])
    BY DEF CommandShape, Applying
  <1>2. Len(captured[c]) \in Nat
    BY DEF TypeOK
  <1>3. Len(captured[c]) + 1 \in Index(cur[c])
    BY <1>1, <1>2, CatalogType DEF Index
  <1>4. NextAction(c) \in Action
    BY <1>1, <1>3, CatalogType DEF NextAction
  <1>5. NextAction(c).at \in Location
    BY <1>4, ActionParts
  <1>. QED  BY <1>1, <1>3, <1>4, <1>5 DEF TypeOK, IsMachine

LEMMA RestoringType ==
  ASSUME TypeOK, CommandShape, NEW c \in Command, pc[c] = "restore"
  PROVE  /\ left[c] \in 1 .. Len(captured[c])
         /\ Restoring(c) \in Captured
         /\ Restoring(c).at \in Location
         /\ Restoring(c).at \in Reversible => IsState(Restoring(c).at, Restoring(c).prior)
         /\ IsState(Restoring(c).at, machine[Restoring(c).at])
  <1>1. left[c] \in 1 .. Len(captured[c])
    BY DEF CommandShape
  <1>2. captured[c] \in Seq(Captured)
    BY DEF TypeOK
  <1>3. Restoring(c) \in Captured
    BY <1>1, <1>2 DEF Restoring
  <1>. QED  BY <1>1, <1>3, CapturedParts DEF TypeOK, IsMachine

LEMMA InitType == Init => TypeOK
  <1>. SUFFICES ASSUME Init PROVE TypeOK
    OBVIOUS
  <1>1. IsMachine(machine) /\ IsMachine(baseline)
    BY BoundsAssumption DEF Init
  <1>2. journal \in [Tweak -> [Stamp -> File]]
    BY DEF Init, NoFile, File, FileState
  <1>3. 0 \in Stamp /\ 0 \in 0 .. MaxClock /\ MaxFaults \in 0 .. MaxFaults
    BY BoundsAssumption DEF Stamp
  <1>. QED  BY <1>1, <1>2, <1>3 DEF Init, TypeOK, NoTweak

(* A write puts a well-formed file where it goes and changes no other.     *)
LEMMA WriteType ==
  ASSUME TypeOK, NEW c \in Command, cur[c] \in Tweak, NEW f \in File
  PROVE  /\ Write(c, f) \in [Tweak -> [Stamp -> File]]
         /\ \A t \in Tweak, at \in Stamp :
              Write(c, f)[t][at] = IF t = cur[c] /\ at = stamp[c] THEN f ELSE journal[t][at]
  BY DEF TypeOK, Write

LEMMA FileTypes ==
  /\ TornFile \in File
  /\ \A seq \in Seq(Captured) : Entry(seq) \in File /\ Undone(seq) \in File
  BY DEF TornFile, Entry, Undone, File, FileState

LEMMA RestType ==
  ASSUME TypeOK, NEW c \in Command, Rest(c)
  PROVE  /\ todo' \in [Command -> SUBSET Tweak]
         /\ cur' \in [Command -> Tweak \cup {NoTweak}]
         /\ stamp' \in [Command -> Stamp]
         /\ captured' \in [Command -> Seq(Captured)]
         /\ left' \in [Command -> Nat]
         /\ failures' \in [Command -> SUBSET Reversible]
         /\ applied' \in [Command -> SUBSET Tweak]
  BY BoundsAssumption DEF TypeOK, Rest, Stamp

LEMMA LocatedType ==
  ASSUME NEW seq \in Seq(Captured)
  PROVE  Located(seq) \subseteq Location
  BY CapturedParts DEF Located

LEMMA NextType == TypeOK /\ CommandShape /\ [Next]_vars => TypeOK'
  <1>. SUFFICES ASSUME TypeOK, CommandShape, [Next]_vars PROVE TypeOK'
    OBVIOUS
  <1>a. ASSUME NEW c \in Command, NEW batch \in SUBSET Tweak, StartApply(c, batch)
        PROVE  TypeOK'
    <2>1. PICK now \in Stamp :
            /\ ReadClock(now)
            /\ stamp' = [stamp EXCEPT ![c] = now]
            /\ misdated' = misdated \cup {t \in batch : NotAfter(t, now)}
      BY <1>a, Zenon DEF StartApply
    <2>2. clock' \in 0 .. MaxClock /\ faultsLeft' \in 0 .. MaxFaults
      BY <2>1, BoundsAssumption DEF ReadClock, TypeOK
    <2>3. stamp' \in [Command -> Stamp] /\ misdated' \subseteq Tweak
      BY <2>1 DEF TypeOK
    <2>. QED  BY <1>a, <2>2, <2>3 DEF StartApply, TypeOK
  <1>b. ASSUME NEW c \in Command, NEW t \in Tweak, NEW at \in Stamp, StartRevert(c, t, at)
        PROVE  TypeOK'
    <2>1. journal[t][at].actions \in Seq(Captured)
      BY DEF TypeOK, File
    <2>. QED  BY <1>b, <2>1 DEF StartRevert, history, TypeOK
  <1>c. ASSUME NEW c \in Command, NEW t \in Tweak, BeginTweak(c, t)
        PROVE  TypeOK'
    BY <1>c DEF BeginTweak, history, TypeOK
  <1>d. ASSUME NEW c \in Command, PerformOk(c)
        PROVE  TypeOK'
    <2>. DEFINE a == NextAction(c)
    <2>1. a \in Action /\ a.at \in Location /\ IsState(a.at, machine[a.at])
      BY <1>d, NextActionType DEF PerformOk
    <2>2. IsMachine(machine')
      BY <1>d, <2>1, AfterIsState, MachineUpdate DEF PerformOk, history, TypeOK
    <2>3. captured' \in [Command -> Seq(Captured)]
      BY <1>d, <2>1, CaptureIsCaptured DEF PerformOk, history, TypeOK
    <2>. QED  BY <1>d, <2>1, <2>2, <2>3 DEF PerformOk, history, TypeOK
  <1>e. ASSUME NEW c \in Command, PerformDenied(c)
        PROVE  TypeOK'
    BY <1>e, BoundsAssumption DEF PerformDenied, cmdVars, history, TypeOK
  <1>f. ASSUME NEW c \in Command, ServiceHalfDone(c)
        PROVE  TypeOK'
    <2>. DEFINE a == NextAction(c)
    <2>1. a \in Action /\ a.at \in Location /\ a.at \in Service
      BY <1>f, NextActionType DEF ServiceHalfDone
    <2>2. \A late \in BOOLEAN : IsState(a.at, [start |-> a.start, running |-> ~late])
      BY <2>1, ActionParts, LocationsAreDistinct DEF IsState, ServiceState
    <2>3. PICK late \in BOOLEAN :
            machine' = [machine EXCEPT ![a.at] = [start |-> a.start, running |-> ~late]]
      BY <1>f, Zenon DEF ServiceHalfDone
    <2>4. IsState(a.at, [start |-> a.start, running |-> ~late])
      BY <2>2, <2>3
    <2>5. IsMachine(machine')
      BY <2>1, <2>3, <2>4, MachineUpdate DEF TypeOK
    <2>. QED  BY <1>f, <2>1, <2>5, BoundsAssumption DEF ServiceHalfDone, cmdVars, history, TypeOK
  <1>g. ASSUME NEW c \in Command, ReplyLost(c)
        PROVE  TypeOK'
    <2>. DEFINE a == NextAction(c)
    <2>1. a \in Action /\ a.at \in Location /\ IsState(a.at, machine[a.at])
      BY <1>g, NextActionType DEF ReplyLost
    <2>2. IsMachine(machine')
      BY <1>g, <2>1, AfterIsState, MachineUpdate DEF ReplyLost, TypeOK
    <2>. QED  BY <1>g, <2>1, <2>2, BoundsAssumption DEF ReplyLost, cmdVars, history, TypeOK
  <1>h. ASSUME NEW c \in Command, WriteEntry(c)
        PROVE  TypeOK'
    <2>1. cur[c] \in Tweak /\ captured[c] \in Seq(Captured)
      BY <1>h DEF WriteEntry, CommandShape, Applying, TypeOK
    <2>2. journal' \in [Tweak -> [Stamp -> File]]
      BY <1>h, <2>1, WriteType, FileTypes DEF WriteEntry, TypeOK
    <2>3. captured' \in [Command -> Seq(Captured)]
      BY <1>h DEF WriteEntry, EndTweak, history, TypeOK
    <2>. QED  BY <1>h, <2>1, <2>2, <2>3 DEF WriteEntry, EndTweak, history, TypeOK
  <1>i. ASSUME NEW c \in Command, WriteFails(c)
        PROVE  TypeOK'
    <2>1. cur[c] \in Tweak /\ captured[c] \in Seq(Captured)
      BY <1>i DEF WriteFails, CommandShape, Applying, TypeOK
    <2>2. journal' \in [Tweak -> [Stamp -> File]]
      BY <1>i, <2>1, WriteType, FileTypes DEF WriteFails, TypeOK
    <2>3. captured' \in [Command -> Seq(Captured)]
      BY <1>i DEF WriteFails, EndTweak, history, TypeOK
    <2>4. orphaned' \subseteq Location
      BY <1>i, <2>1, LocatedType DEF WriteFails, TypeOK
    <2>. QED
      BY <1>i, <2>2, <2>3, <2>4, BoundsAssumption DEF WriteFails, EndTweak, history, TypeOK
  <1>j. ASSUME NEW c \in Command, FinishApply(c) \/ NoHelper(c)
        PROVE  TypeOK'
    BY <1>j, RestType DEF FinishApply, NoHelper, history, TypeOK
  <1>k. ASSUME NEW c \in Command, SkipIrreversible(c)
        PROVE  TypeOK'
    <2>1. left' \in [Command -> Nat]
      BY <1>k, RestoringType DEF SkipIrreversible, PlanStep, history, TypeOK
    <2>. QED  BY <1>k, <2>1 DEF SkipIrreversible, PlanStep, history, TypeOK
  <1>l. ASSUME NEW c \in Command, RestoreOk(c)
        PROVE  TypeOK'
    <2>1. left' \in [Command -> Nat]
      BY <1>l, RestoringType DEF RestoreOk, PlanStep, history, TypeOK
    <2>2. IsMachine(machine')
      BY <1>l, RestoringType, MachineUpdate DEF RestoreOk, PlanStep, history, TypeOK
    <2>. QED  BY <1>l, <2>1, <2>2 DEF RestoreOk, PlanStep, history, TypeOK
  <1>m. ASSUME NEW c \in Command, RestoreFails(c)
        PROVE  TypeOK'
    <2>. DEFINE r == Restoring(c)
    <2>1. left' \in [Command -> Nat]
      BY <1>m, RestoringType DEF RestoreFails, PlanStep, history, TypeOK
    <2>2. /\ r.at \in Location
          /\ IsState(r.at, r.prior)
          /\ IsState(r.at, machine[r.at])
      BY <1>m, RestoringType DEF RestoreFails, PlanStep
    <2>3. r.at \in Service => IsState(r.at, HalfRestored(machine[r.at], r.prior))
      BY <2>2, LocationsAreDistinct DEF IsState, HalfRestored, ServiceState
    <2>4. IsMachine(machine')
      BY <1>m, <2>2, <2>3, MachineUpdate DEF RestoreFails, TypeOK
    <2>5. failures' \in [Command -> SUBSET Reversible]
      BY <1>m DEF RestoreFails, TypeOK
    <2>6. faultsLeft' \in 0 .. MaxFaults
      BY <1>m, BoundsAssumption DEF RestoreFails, TypeOK
    <2>. QED  BY <1>m, <2>1, <2>4, <2>5, <2>6 DEF RestoreFails, PlanStep, history, TypeOK
  <1>n. ASSUME NEW c \in Command, MarkReverted(c)
        PROVE  TypeOK'
    <2>1. cur[c] \in Tweak /\ captured[c] \in Seq(Captured)
      BY <1>n DEF MarkReverted, CommandShape, Reverting, TypeOK
    <2>2. journal' \in [Tweak -> [Stamp -> File]]
      BY <1>n, <2>1, WriteType, FileTypes DEF MarkReverted
    <2>3. orphaned' \subseteq Location
      BY <1>n DEF MarkReverted, TypeOK, Reversible, Location
    <2>. QED  BY <1>n, <2>2, <2>3, RestType DEF MarkReverted, history, TypeOK
  <1>o. ASSUME NEW c \in Command, MarkFails(c)
        PROVE  TypeOK'
    <2>1. cur[c] \in Tweak
      BY <1>o DEF MarkFails, CommandShape, Reverting
    <2>2. journal' \in [Tweak -> [Stamp -> File]]
      BY <1>o, <2>1, WriteType, FileTypes DEF MarkFails, history, TypeOK
    <2>3. orphaned' \subseteq Location
      BY <1>o DEF MarkFails, TypeOK, Reversible, Location
    <2>. QED  BY <1>o, <2>2, <2>3, RestType, BoundsAssumption DEF MarkFails, history, TypeOK
  <1>p. ASSUME Crash
        PROVE  TypeOK'
    <2>1. journal' \in [Tweak -> [Stamp -> File]]
      BY <1>p, FileTypes DEF Crash, history, TypeOK
    <2>2. orphaned' \subseteq Location
      BY <1>p DEF Crash, history, TypeOK
    <2>. QED  BY <1>p, <2>1, <2>2, BoundsAssumption DEF Crash, history, TypeOK, Stamp
  <1>q. CASE UNCHANGED vars
    BY <1>q DEF vars, cmdVars, history, TypeOK
  <1>. QED
    BY <1>a, <1>b, <1>c, <1>d, <1>e, <1>f, <1>g, <1>h, <1>i, <1>j, <1>k, <1>l, <1>m, <1>n,
       <1>o, <1>p, <1>q DEF Next, Step, User

-----------------------------------------------------------------------------
(* What the parts of a command's state say together, and what captures are *)
(* of.  These need no assumption on the catalog, the clock or the user.    *)

Structure == TypeOK /\ CommandShape /\ CapturesFit

LEMMA InitStructure == Init => Structure
  <1>1. Init => CommandShape /\ CapturesFit
    BY DEF Init, CommandShape, CapturesFit, Applying, Reverting, Active, NoFile
  <1>. QED  BY <1>1, InitType DEF Structure

(* One more capture of the action it is of still fits.                     *)
LEMMA AppendFits ==
  ASSUME NEW t \in Tweak, NEW seq \in Seq(Captured), Fits(seq, t),
         Len(seq) < Len(Catalog[t]), NEW r \in Captured,
         r.at = Catalog[t][Len(seq) + 1].at
  PROVE  Fits(Append(seq, r), t)
  BY CatalogType DEF Fits

LEMMA NextShape == Structure /\ [Next]_vars => CommandShape'
  <1>. SUFFICES ASSUME Structure, [Next]_vars PROVE CommandShape'
    OBVIOUS
  <1>. USE DEF Structure, CommandShape, Applying, Reverting, NoTweak
  <1>a. ASSUME NEW c \in Command, NEW batch \in SUBSET Tweak, StartApply(c, batch)
        PROVE  CommandShape'
    BY <1>a DEF StartApply, TypeOK
  <1>b. ASSUME NEW c \in Command, NEW t \in Tweak, NEW at \in Stamp, StartRevert(c, t, at)
        PROVE  CommandShape'
    <2>1. /\ journal[t][at].actions \in Seq(Captured)
          /\ journal[t][at].actions # << >>
      BY <1>b DEF StartRevert, Newest, CapturesFit, TypeOK, File
    <2>2. Len(journal[t][at].actions) \in 1 .. Len(journal[t][at].actions)
      BY <2>1
    <2>. QED  BY <1>b, <2>2 DEF StartRevert, TypeOK
  <1>c. ASSUME NEW c \in Command, NEW t \in Tweak, BeginTweak(c, t)
        PROVE  CommandShape'
    BY <1>c, CatalogType DEF BeginTweak, TypeOK
  <1>d. ASSUME NEW c \in Command, PerformOk(c)
        PROVE  CommandShape'
    <2>1. /\ cur[c] \in Tweak /\ Len(captured[c]) < Len(Catalog[cur[c]])
          /\ captured[c] \in Seq(Captured)
      BY <1>d DEF PerformOk, TypeOK
    <2>2. /\ captured'[c] = Append(captured[c], Capture(NextAction(c), machine[NextAction(c).at]))
          /\ \A d \in Command \ {c} : captured'[d] = captured[d] /\ pc'[d] = pc[d]
          /\ pc'[c] = IF Len(captured[c]) + 1 = Len(Catalog[cur[c]]) THEN "journal" ELSE "perform"
          /\ UNCHANGED <<cur, todo, left>>
      BY <1>d DEF PerformOk, TypeOK
    <2>3. Len(captured'[c]) = Len(captured[c]) + 1
      BY <2>1, <2>2
    <2>4. pc'[c] = "perform" => Len(captured'[c]) < Len(Catalog[cur[c]])
      BY <2>1, <2>2, <2>3, CatalogType
    <2>5. pc[c] = "perform"
      BY <1>d DEF PerformOk
    <2>6. ASSUME NEW d \in Command
          PROVE  /\ pc'[d] \in {"idle", "restore", "mark"} => todo'[d] = {}
                 /\ pc'[d] \in {"idle", "next"} => cur'[d] = NoTweak /\ captured'[d] = << >>
                 /\ Applying(d)' \/ Reverting(d)' => cur'[d] \in Tweak \ todo'[d]
                 /\ pc'[d] = "perform" => Len(captured'[d]) < Len(Catalog[cur'[d]])
                 /\ pc'[d] = "restore" => left'[d] \in 1 .. Len(captured'[d])
                 /\ pc'[d] = "mark" => left'[d] = 0
      <3>1. CASE d = c
        BY <3>1, <2>2, <2>4, <2>5
      <3>2. CASE d # c
        BY <3>2, <2>2
      <3>. QED  BY <3>1, <3>2
    <2>. QED  BY <2>6
  <1>e. ASSUME NEW c \in Command, PerformDenied(c)
        PROVE  CommandShape'
    BY <1>e DEF PerformDenied, cmdVars, TypeOK
  <1>f. ASSUME NEW c \in Command, ServiceHalfDone(c)
        PROVE  CommandShape'
    BY <1>f DEF ServiceHalfDone, cmdVars, TypeOK
  <1>g. ASSUME NEW c \in Command, ReplyLost(c)
        PROVE  CommandShape'
    BY <1>g DEF ReplyLost, cmdVars, TypeOK
  <1>h. ASSUME NEW c \in Command, WriteEntry(c) \/ WriteFails(c)
        PROVE  CommandShape'
    BY <1>h, SMTT(30) DEF WriteEntry, WriteFails, EndTweak, TypeOK
  <1>i. ASSUME NEW c \in Command, FinishApply(c) \/ NoHelper(c) \/ MarkReverted(c) \/ MarkFails(c)
        PROVE  CommandShape'
    <2>1. Rest(c) /\ pc' = [pc EXCEPT ![c] = "idle"]
      BY <1>i DEF FinishApply, NoHelper, MarkReverted, MarkFails
    <2>. QED  BY <2>1 DEF Rest, TypeOK
  <1>j. ASSUME NEW c \in Command, SkipIrreversible(c) \/ RestoreOk(c) \/ RestoreFails(c)
        PROVE  CommandShape'
    <2>1. PlanStep(c)
      BY <1>j DEF SkipIrreversible, RestoreOk, RestoreFails
    <2>. QED  BY <2>1 DEF PlanStep, TypeOK
  <1>k. ASSUME Crash
        PROVE  CommandShape'
    BY <1>k DEF Crash
  <1>l. CASE UNCHANGED vars
    BY <1>l DEF vars, cmdVars
  <1>. QED
    BY <1>a, <1>b, <1>c, <1>d, <1>e, <1>f, <1>g, <1>h, <1>i, <1>j, <1>k, <1>l
    DEF Next, Step, User

(* Files that a step leaves alone fit as before.                           *)
LEMMA SameJournalFits ==
  ASSUME CapturesFit, UNCHANGED journal,
         \A c \in Command : (Applying(c) \/ Reverting(c))' => Fits(captured'[c], cur'[c])
  PROVE  CapturesFit'
  BY DEF CapturesFit, Active

LEMMA NextFits == Structure /\ [Next]_vars => CapturesFit'
  <1>. SUFFICES ASSUME Structure, [Next]_vars PROVE CapturesFit'
    OBVIOUS
  <1>. USE DEF Structure, Applying, Reverting
  <1>a. ASSUME NEW c \in Command, NEW batch \in SUBSET Tweak, StartApply(c, batch)
        PROVE  CapturesFit'
    BY <1>a, SameJournalFits DEF StartApply, TypeOK, CapturesFit
  <1>b. ASSUME NEW c \in Command, NEW t \in Tweak, NEW at \in Stamp, StartRevert(c, t, at)
        PROVE  CapturesFit'
    <2>1. Fits(journal[t][at].actions, t) /\ UNCHANGED journal
      BY <1>b DEF StartRevert, Newest, CapturesFit
    <2>2. \A d \in Command : (Applying(d) \/ Reverting(d))' => Fits(captured'[d], cur'[d])
      BY <1>b, <2>1 DEF StartRevert, TypeOK, CapturesFit
    <2>. QED  BY <2>1, <2>2, SameJournalFits
  <1>c. ASSUME NEW c \in Command, NEW t \in Tweak, BeginTweak(c, t)
        PROVE  CapturesFit'
    <2>1. Fits(<< >>, t)
      BY CatalogType DEF Fits
    <2>2. captured[c] = << >>
      BY <1>c DEF BeginTweak, CommandShape
    <2>. QED  BY <1>c, <2>1, <2>2, SameJournalFits DEF BeginTweak, TypeOK, CapturesFit
  <1>d. ASSUME NEW c \in Command, PerformOk(c)
        PROVE  CapturesFit'
    <2>. DEFINE r == Capture(NextAction(c), machine[NextAction(c).at])
    <2>1. /\ cur[c] \in Tweak
          /\ Len(captured[c]) < Len(Catalog[cur[c]])
          /\ captured[c] \in Seq(Captured)
          /\ Fits(captured[c], cur[c])
      BY <1>d DEF PerformOk, TypeOK, CommandShape, CapturesFit
    <2>2. r \in Captured /\ r.at = Catalog[cur[c]][Len(captured[c]) + 1].at
      BY <1>d, NextActionType, CaptureIsCaptured DEF PerformOk, NextAction
    <2>3. Fits(Append(captured[c], r), cur[c])
      BY <2>1, <2>2, AppendFits
    <2>. QED  BY <1>d, <2>3, SameJournalFits DEF PerformOk, TypeOK, CapturesFit
  <1>e. ASSUME NEW c \in Command, PerformDenied(c) \/ ServiceHalfDone(c) \/ ReplyLost(c)
        PROVE  CapturesFit'
    <2>1. pc[c] = "perform" /\ pc' = [pc EXCEPT ![c] = "journal"] /\ UNCHANGED <<journal, cmdVars>>
      BY <1>e DEF PerformDenied, ServiceHalfDone, ReplyLost
    <2>. QED  BY <2>1, SameJournalFits DEF cmdVars, TypeOK, CapturesFit
  <1>h. ASSUME NEW c \in Command, WriteEntry(c) \/ WriteFails(c)
        PROVE  CapturesFit'
    <2>1. /\ cur[c] \in Tweak
          /\ captured[c] \in Seq(Captured)
          /\ Fits(captured[c], cur[c])
      BY <1>h DEF WriteEntry, WriteFails, TypeOK, CommandShape, CapturesFit
    <2>2. \/ journal' = journal
          \/ journal' = Write(c, Entry(captured[c])) /\ captured[c] # << >>
          \/ journal' = Write(c, TornFile)
      BY <1>h DEF WriteEntry, WriteFails
    <2>3. ASSUME NEW t \in Tweak, NEW at \in Stamp, Active(t, at)'
          PROVE  Fits(journal'[t][at].actions, t) /\ journal'[t][at].actions # << >>
      <3>1. \/ journal'[t][at] = journal[t][at]
            \/ t = cur[c] /\ journal'[t][at] = Entry(captured[c]) /\ captured[c] # << >>
            \/ journal'[t][at] = TornFile
        BY <2>1, <2>2, WriteType, FileTypes
      <3>2. CASE journal'[t][at] = journal[t][at]
        BY <2>3, <3>2 DEF CapturesFit, Active
      <3>3. CASE t = cur[c] /\ journal'[t][at] = Entry(captured[c]) /\ captured[c] # << >>
        BY <2>1, <3>3 DEF Entry
      <3>. QED  BY <2>3, <3>1, <3>2, <3>3 DEF Active, TornFile
    <2>4. \A d \in Command : (Applying(d) \/ Reverting(d))' =>
            /\ d # c /\ (Applying(d) \/ Reverting(d))
            /\ captured'[d] = captured[d] /\ cur'[d] = cur[d]
      BY <1>h DEF WriteEntry, WriteFails, EndTweak, TypeOK
    <2>. QED  BY <2>3, <2>4 DEF CapturesFit
  <1>i. ASSUME NEW c \in Command, FinishApply(c) \/ NoHelper(c) \/ MarkReverted(c) \/ MarkFails(c)
        PROVE  CapturesFit'
    <2>1. \/ journal' = journal
          \/ pc[c] = "mark" /\ journal' = Write(c, Undone(captured[c]))
          \/ pc[c] = "mark" /\ journal' = Write(c, TornFile)
      BY <1>i DEF FinishApply, NoHelper, MarkReverted, MarkFails
    <2>2. pc[c] = "mark" => cur[c] \in Tweak /\ captured[c] \in Seq(Captured)
      BY DEF CommandShape, Reverting, TypeOK
    <2>3. ASSUME NEW t \in Tweak, NEW at \in Stamp, Active(t, at)'
          PROVE  Fits(journal'[t][at].actions, t) /\ journal'[t][at].actions # << >>
      <3>1. \/ journal'[t][at] = journal[t][at]
            \/ journal'[t][at] = Undone(captured[c])
            \/ journal'[t][at] = TornFile
        BY <2>1, <2>2, WriteType, FileTypes
      <3>2. journal'[t][at] = journal[t][at]
        BY <2>3, <3>1 DEF Active, Undone, TornFile
      <3>. QED  BY <2>3, <3>2 DEF CapturesFit, Active
    <2>4. \A d \in Command : (Applying(d) \/ Reverting(d))' =>
            /\ d # c /\ (Applying(d) \/ Reverting(d))
            /\ captured'[d] = captured[d] /\ cur'[d] = cur[d]
      BY <1>i DEF FinishApply, NoHelper, MarkReverted, MarkFails, Rest, TypeOK
    <2>. QED  BY <2>3, <2>4 DEF CapturesFit
  <1>j. ASSUME NEW c \in Command, SkipIrreversible(c) \/ RestoreOk(c) \/ RestoreFails(c)
        PROVE  CapturesFit'
    <2>1. PlanStep(c)
      BY <1>j DEF SkipIrreversible, RestoreOk, RestoreFails
    <2>. QED  BY <2>1, SameJournalFits DEF PlanStep, TypeOK, CapturesFit
  <1>k. ASSUME Crash
        PROVE  CapturesFit'
    <2>1. \A t \in Tweak, at \in Stamp :
            journal'[t][at] = TornFile \/ journal'[t][at] = journal[t][at]
      BY <1>k DEF Crash
    <2>2. \A c \in Command : ~(Applying(c) \/ Reverting(c))'
      BY <1>k DEF Crash
    <2>. QED  BY <2>1, <2>2 DEF CapturesFit, Active, TornFile
  <1>l. CASE UNCHANGED vars
    BY <1>l, SameJournalFits DEF vars, cmdVars, CapturesFit
  <1>. QED
    BY <1>a, <1>b, <1>c, <1>d, <1>e, <1>h, <1>i, <1>j, <1>k, <1>l DEF Next, Step, User

LEMMA SpecStructure == Spec => []Structure
  <1>1. Structure /\ [Next]_vars => Structure'
    BY NextType, NextShape, NextFits DEF Structure
  <1>. QED  BY InitStructure, <1>1, PTL DEF Spec

(* Every state has the declared types, whatever the catalog, the faults,   *)
(* the clock and the user do: no revert plan runs off the end of an entry, *)
(* and a journal file holds nothing but captures (engine.rs:118-196).      *)
THEOREM TypeCorrect == Spec => []TypeOK
  BY SpecStructure, PTL DEF Structure

-----------------------------------------------------------------------------
(* The order of events.                                                    *)

(* What has happened to a tweak stays so.                                  *)
LEMMA HistoryGrows ==
  ASSUME [Next]_vars
  PROVE  /\ contended \subseteq contended'
         /\ misdated \subseteq misdated'
         /\ Disordered \subseteq Disordered'
         /\ UNCHANGED baseline
  <1>1. /\ contended \subseteq contended'
        /\ misdated \subseteq misdated'
        /\ UNCHANGED baseline
    <2>1. CASE Crash \/ UNCHANGED vars
      BY <2>1 DEF Crash, vars, history
    <2>2. ASSUME NEW c \in Command, User(c)
          PROVE  /\ contended \subseteq contended'
                 /\ misdated \subseteq misdated'
                 /\ UNCHANGED baseline
      BY <2>2 DEF User, StartApply, StartRevert
    <2>3. ASSUME NEW c \in Command, Step(c)
          PROVE  UNCHANGED history
      BY <2>3 DEF Step, BeginTweak, PerformOk, PerformDenied, ServiceHalfDone, ReplyLost,
         WriteEntry, WriteFails, EndTweak, FinishApply, NoHelper, SkipIrreversible, RestoreOk,
         RestoreFails, PlanStep, MarkReverted, MarkFails
    <2>. QED  BY <2>1, <2>2, <2>3 DEF Next, history
  <1>. QED  BY <1>1 DEF Disordered

(* A step of one command leaves the others as they are.                    *)
OthersRest(c) ==
  \A d \in Command \ {c} :
    /\ pc'[d] = pc[d]
    /\ todo'[d] = todo[d]
    /\ cur'[d] = cur[d]
    /\ stamp'[d] = stamp[d]
    /\ captured'[d] = captured[d]
    /\ left'[d] = left[d]
    /\ failures'[d] = failures[d]

LEMMA StepIsLocal ==
  ASSUME TypeOK, NEW c \in Command, Step(c) \/ User(c)
  PROVE  OthersRest(c)
  <1>1. CASE \E batch \in SUBSET Tweak : StartApply(c, batch)
    BY <1>1 DEF StartApply, OthersRest, TypeOK
  <1>2. CASE \E t \in Tweak, at \in Stamp : StartRevert(c, t, at)
    BY <1>2 DEF StartRevert, OthersRest, TypeOK
  <1>3. CASE \E t \in Tweak : BeginTweak(c, t)
    BY <1>3 DEF BeginTweak, OthersRest, TypeOK
  <1>4. CASE PerformOk(c)
    BY <1>4 DEF PerformOk, OthersRest, TypeOK
  <1>5. CASE PerformDenied(c) \/ ServiceHalfDone(c) \/ ReplyLost(c)
    BY <1>5 DEF PerformDenied, ServiceHalfDone, ReplyLost, cmdVars, OthersRest, TypeOK
  <1>6. CASE WriteEntry(c) \/ WriteFails(c)
    BY <1>6 DEF WriteEntry, WriteFails, EndTweak, OthersRest, TypeOK
  <1>7. CASE FinishApply(c) \/ NoHelper(c) \/ MarkReverted(c) \/ MarkFails(c)
    BY <1>7 DEF FinishApply, NoHelper, MarkReverted, MarkFails, Rest, OthersRest, TypeOK
  <1>8. CASE SkipIrreversible(c) \/ RestoreOk(c) \/ RestoreFails(c)
    BY <1>8 DEF SkipIrreversible, RestoreOk, RestoreFails, PlanStep, OthersRest, TypeOK
  <1>. QED
    BY <1>1, <1>2, <1>3, <1>4, <1>5, <1>6, <1>7, <1>8 DEF Step, User

(* Nobody else takes up a tweak in use, and a command that goes on drops   *)
(* tweaks but takes up no others.                                          *)
LEMMA StepKeepsHolding ==
  ASSUME Structure, NEW c \in Command, Step(c), NEW t \in Tweak, Holds(c, t)'
  PROVE  Holds(c, t)
  <1>. USE DEF Structure, Holds, Working
  <1>1. CASE \E u \in Tweak : BeginTweak(c, u)
    BY <1>1 DEF BeginTweak, TypeOK
  <1>2. CASE PerformOk(c)
    BY <1>2 DEF PerformOk, TypeOK
  <1>3. CASE PerformDenied(c) \/ ServiceHalfDone(c) \/ ReplyLost(c)
    BY <1>3 DEF PerformDenied, ServiceHalfDone, ReplyLost, cmdVars, TypeOK
  <1>4. CASE WriteEntry(c) \/ WriteFails(c)
    BY <1>4 DEF WriteEntry, WriteFails, EndTweak, TypeOK, Tweak, NoTweak
  <1>5. CASE FinishApply(c) \/ NoHelper(c) \/ MarkReverted(c) \/ MarkFails(c)
    BY <1>5 DEF FinishApply, NoHelper, MarkReverted, MarkFails, Rest, TypeOK
  <1>6. CASE SkipIrreversible(c) \/ RestoreOk(c) \/ RestoreFails(c)
    BY <1>6 DEF SkipIrreversible, RestoreOk, RestoreFails, PlanStep, TypeOK
  <1>. QED
    BY <1>1, <1>2, <1>3, <1>4, <1>5, <1>6 DEF Step

(* What a user starts on a tweak in use, the history remembers ...         *)
LEMMA StartsContend ==
  ASSUME Structure, NEW c \in Command, User(c), NEW t \in Tweak, Holds(c, t)', Busy(t)
  PROVE  t \in contended'
  <1>1. ASSUME NEW batch \in SUBSET Tweak, StartApply(c, batch)
        PROVE  t \in contended'
    <2>1. cur[c] = NoTweak /\ todo'[c] = batch /\ cur'[c] = cur[c]
      BY <1>1 DEF StartApply, Structure, CommandShape, TypeOK
    <2>. QED  BY <1>1, <2>1 DEF StartApply, Holds, NoTweak, Tweak
  <1>2. ASSUME NEW u \in Tweak, NEW at \in Stamp, StartRevert(c, u, at)
        PROVE  t \in contended'
    <2>1. todo[c] = {} /\ todo'[c] = todo[c] /\ cur'[c] = u
      BY <1>2 DEF StartRevert, Structure, CommandShape, TypeOK
    <2>. QED  BY <1>2, <2>1 DEF StartRevert, Holds
  <1>. QED  BY <1>1, <1>2 DEF User

(* ... and so it does an application at a time not after the others.       *)
LEMMA StartsAreDated ==
  ASSUME Structure, NEW c \in Command, NEW batch \in SUBSET Tweak, StartApply(c, batch),
         NEW t \in Tweak \ misdated', Holds(c, t)'
  PROVE  /\ \A at \in Stamp : Exists(t, at) => at < stamp'[c]
         /\ \A d \in Command : Forward(d) /\ Holds(d, t) => stamp[d] < stamp'[c]
  <1>1. cur[c] = NoTweak /\ todo'[c] = batch /\ cur'[c] = cur[c]
    BY DEF StartApply, Structure, CommandShape, TypeOK
  <1>2. t \in batch
    BY <1>1 DEF Holds, NoTweak, Tweak
  <1>3. PICK now \in Stamp :
          /\ stamp' = [stamp EXCEPT ![c] = now]
          /\ misdated' = misdated \cup {u \in batch : NotAfter(u, now)}
    BY Zenon DEF StartApply
  <1>4. stamp'[c] = now /\ ~NotAfter(t, now)
    BY <1>2, <1>3 DEF Structure, TypeOK
  <1>5. now \in Nat /\ Stamp \subseteq Nat /\ \A d \in Command : stamp[d] \in Nat
    BY BoundsAssumption DEF Stamp, Structure, TypeOK
  <1>6. ASSUME NEW at \in Stamp, Exists(t, at)
        PROVE  at < stamp'[c]
    <2>1. ~(now <= at)
      BY <1>4, <1>6 DEF NotAfter
    <2>. QED  BY <1>4, <1>5, <2>1
  <1>7. ASSUME NEW d \in Command, Forward(d), Holds(d, t)
        PROVE  stamp[d] < stamp'[c]
    <2>1. ~(now <= stamp[d])
      BY <1>4, <1>7 DEF NotAfter
    <2>. QED  BY <1>4, <1>5, <2>1
  <1>. QED  BY <1>6, <1>7

LEMMA NobodyTakesUp ==
  ASSUME Structure, [Next]_vars, NEW c \in Command, NEW t \in Tweak, Holds(c, t)'
  PROVE  Holds(c, t) \/ (User(c) /\ (Busy(t) => t \in contended'))
  <1>1. CASE Step(c)
    BY <1>1, StepKeepsHolding
  <1>2. CASE User(c)
    BY <1>2, StartsContend
  <1>3. CASE \E d \in Command \ {c} : Step(d) \/ User(d)
    BY <1>3, StepIsLocal DEF Structure, OthersRest, Holds, Working
  <1>4. CASE Crash
    BY <1>4 DEF Crash, Holds, Working
  <1>5. CASE UNCHANGED vars
    BY <1>5 DEF vars, cmdVars, Holds, Working
  <1>. QED  BY <1>1, <1>2, <1>3, <1>4, <1>5 DEF Next

(* A user starts nothing with a command that is running.                   *)
LEMMA StartsAreIdle ==
  ASSUME NEW c \in Command, User(c)
  PROVE  ~Working(c) /\ ~Forward(c)
  BY DEF User, StartApply, StartRevert, Working, Forward

(* A batch keeps the time it was started at.                               *)
LEMMA BatchTime ==
  ASSUME Structure, [Next]_vars, NEW c \in Command, Forward(c)'
  PROVE  \/ Forward(c) /\ stamp'[c] = stamp[c]
         \/ \E batch \in SUBSET Tweak : StartApply(c, batch)
  <1>. USE DEF Structure, Forward
  <1>1. CASE \/ \E t \in Tweak : BeginTweak(c, t)
             \/ PerformOk(c) \/ PerformDenied(c) \/ ServiceHalfDone(c) \/ ReplyLost(c)
             \/ WriteEntry(c) \/ WriteFails(c)
    BY <1>1 DEF BeginTweak, PerformOk, PerformDenied, ServiceHalfDone, ReplyLost, WriteEntry,
       WriteFails, EndTweak, cmdVars, TypeOK
  <1>2. CASE \/ FinishApply(c) \/ NoHelper(c) \/ MarkReverted(c) \/ MarkFails(c)
             \/ SkipIrreversible(c) \/ RestoreOk(c) \/ RestoreFails(c)
             \/ \E t \in Tweak, at \in Stamp : StartRevert(c, t, at)
    <2>1. pc'[c] \in {"idle", "restore", "mark"}
      BY <1>2 DEF FinishApply, NoHelper, MarkReverted, MarkFails, SkipIrreversible, RestoreOk, RestoreFails,
         PlanStep, StartRevert, TypeOK
    <2>. QED  BY <2>1
  <1>3. CASE \E d \in Command \ {c} : Step(d) \/ User(d)
    BY <1>3, StepIsLocal DEF OthersRest
  <1>4. CASE Crash
    BY <1>4 DEF Crash
  <1>5. CASE UNCHANGED vars
    BY <1>5 DEF vars, cmdVars
  <1>. QED  BY <1>1, <1>2, <1>3, <1>4, <1>5 DEF Next, Step, User

(* Commands on one tweak are apart, or apply it at different times.        *)
LEMMA NextHoldersDiffer ==
  ASSUME Structure, HoldersDiffer, [Next]_vars
  PROVE  HoldersDiffer'
  <1>1. ASSUME NEW c \in Command, NEW d \in Command, NEW t \in Tweak,
               Holds(c, t)', Holds(d, t)', c # d
        PROVE  t \in contended'
    <2>1. Holds(c, t) \/ (User(c) /\ (Busy(t) => t \in contended'))
      BY <1>1, NobodyTakesUp
    <2>2. Holds(d, t) \/ (User(d) /\ (Busy(t) => t \in contended'))
      BY <1>1, NobodyTakesUp
    <2>3. ASSUME User(c) \/ User(d)
          PROVE  Holds(c, t) \/ Holds(d, t)
      BY <1>1, <2>3, StepIsLocal DEF Structure, OthersRest, Holds, Working
    <2>4. CASE Holds(c, t) /\ Holds(d, t)
      BY <1>1, <2>4, HistoryGrows DEF HoldersDiffer
    <2>. QED  BY <2>1, <2>2, <2>3, <2>4 DEF Busy
  <1>2. ASSUME NEW c \in Command, NEW d \in Command, NEW t \in Tweak \ misdated', c # d,
               Holds(c, t)', Holds(d, t)', Forward(d)',
               \E batch \in SUBSET Tweak : StartApply(c, batch)
        PROVE  stamp'[c] # stamp'[d]
    <2>1. PICK batch \in SUBSET Tweak : StartApply(c, batch)
      BY <1>2
    <2>2. /\ Forward(d) /\ Holds(d, t)
          /\ stamp'[d] = stamp[d]
      <3>1. OthersRest(c)
        BY <2>1 DEF StartApply, OthersRest, Structure, TypeOK
      <3>. QED  BY <1>2, <3>1 DEF OthersRest, Holds, Working, Forward
    <2>3. stamp[d] < stamp'[c]
      BY <1>2, <2>1, <2>2, StartsAreDated
    <2>4. stamp[d] \in Nat
      BY BoundsAssumption DEF Structure, TypeOK, Stamp
    <2>. QED  BY <2>2, <2>3, <2>4
  <1>3. ASSUME NEW c \in Command, NEW d \in Command, NEW t \in Tweak \ misdated', c # d,
               Holds(c, t)', Holds(d, t)', Forward(c)', Forward(d)'
        PROVE  stamp'[c] # stamp'[d]
    <2>1. CASE \E batch \in SUBSET Tweak : StartApply(c, batch)
      BY <1>2, <1>3, <2>1
    <2>2. CASE \E batch \in SUBSET Tweak : StartApply(d, batch)
      <3>1. stamp'[d] # stamp'[c]
        BY <1>2, <1>3, <2>2
      <3>. QED  BY <3>1
    <2>3. CASE /\ Forward(c) /\ stamp'[c] = stamp[c]
               /\ Forward(d) /\ stamp'[d] = stamp[d]
      <3>1. Holds(c, t) /\ Holds(d, t)
        BY <1>3, <2>3, NobodyTakesUp, StartsAreIdle
      <3>2. t \notin misdated
        BY <1>3, HistoryGrows
      <3>. QED  BY <1>3, <2>3, <3>1, <3>2 DEF HoldersDiffer
    <2>. QED  BY <1>3, <2>1, <2>2, <2>3, BatchTime
  <1>. QED  BY <1>1, <1>3 DEF HoldersDiffer

(* A journal file changes only when a command ends its work on a tweak by  *)
(* writing that very file.                                                 *)
LEMMA JournalStep ==
  ASSUME Structure, [Next]_vars, NEW t \in Tweak, NEW at \in Stamp,
         journal'[t][at] # journal[t][at]
  PROVE  \E c \in Command :
           /\ WritingFile(c, t, at)
           /\ \/ pc[c] = "journal" /\ journal'[t][at] \in {Entry(captured[c]), TornFile}
              \/ pc[c] = "mark" /\ journal'[t][at] \in {Undone(captured[c]), TornFile}
           /\ ~Holds(c, t)'
           /\ ~Reverting(c)'
  <1>. USE DEF Structure
  <1>1. ASSUME NEW c \in Command, WriteEntry(c) \/ WriteFails(c), journal' # journal
        PROVE  /\ WritingFile(c, t, at)
               /\ pc[c] = "journal" /\ journal'[t][at] \in {Entry(captured[c]), TornFile}
               /\ ~Holds(c, t)'
               /\ ~Reverting(c)'
    <2>1. /\ cur[c] \in Tweak \ todo[c]
          /\ captured[c] \in Seq(Captured)
      BY <1>1 DEF WriteEntry, WriteFails, CommandShape, Applying, TypeOK
    <2>2. /\ pc[c] = "journal" /\ captured[c] # << >>
          /\ journal' = Write(c, Entry(captured[c])) \/ journal' = Write(c, TornFile)
      BY <1>1 DEF WriteEntry, WriteFails
    <2>3. t = cur[c] /\ at = stamp[c]
      BY <2>1, <2>2, WriteType, FileTypes
    <2>4. journal'[t][at] \in {Entry(captured[c]), TornFile}
      <3>1. Entry(captured[c]) \in File /\ TornFile \in File
        BY <2>1, FileTypes
      <3>. QED  BY <2>1, <2>2, <2>3, <3>1, WriteType
    <2>5. pc'[c] = "next" /\ cur'[c] = NoTweak /\ todo'[c] = todo[c]
      BY <1>1 DEF WriteEntry, WriteFails, EndTweak, TypeOK
    <2>. QED
      BY <2>1, <2>2, <2>3, <2>4, <2>5 DEF WritingFile, Holds, Reverting, NoTweak, Tweak
  <1>2. ASSUME NEW c \in Command, MarkReverted(c) \/ MarkFails(c), journal' # journal
        PROVE  /\ WritingFile(c, t, at)
               /\ pc[c] = "mark" /\ journal'[t][at] \in {Undone(captured[c]), TornFile}
               /\ ~Holds(c, t)'
               /\ ~Reverting(c)'
    <2>1. /\ cur[c] \in Tweak
          /\ captured[c] \in Seq(Captured)
      BY <1>2 DEF MarkReverted, MarkFails, CommandShape, Reverting, TypeOK
    <2>2. /\ pc[c] = "mark"
          /\ journal' = Write(c, Undone(captured[c])) \/ journal' = Write(c, TornFile)
      BY <1>2 DEF MarkReverted, MarkFails
    <2>3. t = cur[c] /\ at = stamp[c]
      BY <2>1, <2>2, WriteType, FileTypes
    <2>4. journal'[t][at] \in {Undone(captured[c]), TornFile}
      <3>1. Undone(captured[c]) \in File /\ TornFile \in File
        BY <2>1, FileTypes
      <3>. QED  BY <2>1, <2>2, <2>3, <3>1, WriteType
    <2>5. pc'[c] = "idle"
      BY <1>2 DEF MarkReverted, MarkFails, TypeOK
    <2>. QED
      BY <2>2, <2>3, <2>4, <2>5 DEF WritingFile, Holds, Working, Reverting
  <1>3. ASSUME Crash
        PROVE  \E c \in Command :
                 /\ WritingFile(c, t, at)
                 /\ pc[c] = "journal" \/ pc[c] = "mark"
                 /\ journal'[t][at] = TornFile
                 /\ ~Holds(c, t)'
                 /\ ~Reverting(c)'
    <2>1. \A c \in Command : ~Holds(c, t)' /\ ~Reverting(c)'
      BY <1>3 DEF Crash, Holds, Working, Reverting
    <2>2. PICK torn \in SUBSET {c \in Command : WritingFile(c, cur[c], stamp[c])} :
            journal' = [u \in Tweak |-> [b \in Stamp |->
              IF \E c \in torn : WritingFile(c, u, b) THEN TornFile ELSE journal[u][b]]]
      BY <1>3 DEF Crash
    <2>3. PICK c \in torn : WritingFile(c, t, at) /\ journal'[t][at] = TornFile
      BY <2>2
    <2>. QED  BY <2>1, <2>2, <2>3 DEF WritingFile
  <1>4. ASSUME NEW c \in Command, Step(c) \/ User(c), journal' # journal
        PROVE  WriteEntry(c) \/ WriteFails(c) \/ MarkReverted(c) \/ MarkFails(c)
    BY <1>4 DEF Step, User, StartApply, StartRevert, BeginTweak, PerformOk, PerformDenied,
       ServiceHalfDone, ReplyLost, FinishApply, NoHelper, SkipIrreversible, RestoreOk, RestoreFails, PlanStep
  <1>. QED  BY <1>1, <1>2, <1>3, <1>4 DEF Next, vars

(* Who has to do with a tweak, by where it is.                             *)
LEMMA Holding ==
  ASSUME Structure, NEW c \in Command
  PROVE  /\ Applying(c) \/ Reverting(c) => cur[c] \in Tweak /\ Holds(c, cur[c])
         /\ \A t \in Tweak, at \in Stamp : WritingFile(c, t, at) => Holds(c, t)
  BY DEF Structure, CommandShape, Applying, Reverting, Holds, Working, WritingFile

(* A command that reverts has just started to, or goes on as before.       *)
LEMMA RevertGoesOn ==
  ASSUME Structure, [Next]_vars, NEW c \in Command, Reverting(c)'
  PROVE  \/ Reverting(c) /\ UNCHANGED <<cur[c], stamp[c], captured[c]>>
         \/ \E t \in Tweak, at \in Stamp : StartRevert(c, t, at)
  <1>1. CASE Crash
    BY <1>1 DEF Crash, Reverting
  <1>2. CASE UNCHANGED vars
    BY <1>2 DEF vars, cmdVars, Reverting
  <1>3. CASE SkipIrreversible(c) \/ RestoreOk(c) \/ RestoreFails(c)
    BY <1>3 DEF SkipIrreversible, RestoreOk, RestoreFails, PlanStep, Reverting
  <1>4. CASE \/ \E t \in Tweak : BeginTweak(c, t)
             \/ PerformOk(c) \/ PerformDenied(c) \/ ServiceHalfDone(c) \/ ReplyLost(c)
             \/ WriteEntry(c) \/ WriteFails(c)
             \/ FinishApply(c) \/ NoHelper(c) \/ MarkReverted(c) \/ MarkFails(c)
             \/ \E batch \in SUBSET Tweak : StartApply(c, batch)
    <2>1. pc'[c] \in {"idle", "next", "perform", "journal"}
      BY <1>4 DEF BeginTweak, PerformOk, PerformDenied, ServiceHalfDone, ReplyLost, WriteEntry,
         WriteFails, EndTweak, FinishApply, NoHelper, MarkReverted, MarkFails, StartApply, Structure, TypeOK
    <2>. QED  BY <2>1 DEF Reverting
  <1>5. CASE \E d \in Command \ {c} : Step(d) \/ User(d)
    BY <1>5, StepIsLocal DEF OthersRest, Reverting, Structure
  <1>. QED  BY <1>1, <1>2, <1>3, <1>4, <1>5 DEF Next, Step, User

(* What the user undoes is there, and the newest.                          *)
LEMMA RevertStarts ==
  ASSUME Structure, NEW c \in Command, NEW t \in Tweak, NEW at \in Stamp, StartRevert(c, t, at)
  PROVE  /\ cur'[c] = t /\ stamp'[c] = at /\ captured'[c] = journal[t][at].actions
         /\ UNCHANGED <<journal, misdated>>
         /\ journal[t][at] = Entry(captured'[c])
         /\ NoneLater(t, at)'
         /\ OthersRest(c)
  <1>1. /\ cur'[c] = t /\ stamp'[c] = at /\ captured'[c] = journal[t][at].actions
        /\ UNCHANGED <<journal, misdated>>
        /\ OthersRest(c)
    BY DEF StartRevert, OthersRest, Structure, TypeOK
  <1>2. journal[t][at] \in File /\ journal[t][at].state = "active"
    BY DEF StartRevert, Newest, Active, Structure, TypeOK
  <1>3. journal[t][at] = Entry(journal[t][at].actions)
    BY <1>2 DEF File, Entry
  <1>. QED  BY <1>1, <1>3 DEF StartRevert, Newest, NoneLater, Active

(* The file of a revert changes only by another revert of it.              *)
LEMMA FileUnderRevert ==
  ASSUME Structure, TimeGrows, RevertSource, [Next]_vars,
         NEW c \in Command, Reverting(c), cur[c] \notin misdated
  PROVE  LET new == journal'[cur[c]][stamp[c]] IN
         \/ new = journal[cur[c]][stamp[c]]
         \/ new \in {Undone(captured[c]), TornFile}
  <1>. DEFINE t  == cur[c]
              at == stamp[c]
  <1>1. t \in Tweak /\ at \in Stamp
    BY Holding DEF Structure, TypeOK
  <1>. SUFFICES ASSUME journal'[t][at] # journal[t][at]
                PROVE  journal'[t][at] \in {Undone(captured[c]), TornFile}
    OBVIOUS
  <1>2. PICK d \in Command :
          /\ WritingFile(d, t, at)
          /\ \/ pc[d] = "journal" /\ journal'[t][at] \in {Entry(captured[d]), TornFile}
             \/ pc[d] = "mark" /\ journal'[t][at] \in {Undone(captured[d]), TornFile}
    BY <1>1, JournalStep
  <1>3. cur[d] = t /\ stamp[d] = at /\ Holds(d, t)
    BY <1>1, <1>2, Holding DEF WritingFile
  <1>4. Exists(t, at)
    <2>1. journal[t][at] \in {Entry(captured[c]), Undone(captured[c]), TornFile}
      BY DEF RevertSource
    <2>. QED  BY <2>1 DEF Exists, Entry, Undone, TornFile
  <1>5. ~Forward(d)
    BY <1>1, <1>3, <1>4 DEF TimeGrows
  <1>6. pc[d] = "mark" /\ Reverting(d)
    BY <1>2, <1>5 DEF Forward, Reverting
  <1>7. captured[d] = captured[c]
    BY <1>3, <1>6 DEF RevertSource
  <1>. QED  BY <1>2, <1>6, <1>7

(* Only the revert itself touches the files of its tweak, when no other    *)
(* command has to do with it.                                              *)
LEMMA FilesUnderRevert ==
  ASSUME Structure, HoldersDiffer, [Next]_vars, NEW c \in Command, Reverting(c), Reverting(c)',
         cur[c] \notin contended
  PROVE  \A at \in Stamp : journal'[cur[c]][at] = journal[cur[c]][at]
  <1>1. cur[c] \in Tweak /\ Holds(c, cur[c])
    BY Holding
  <1>2. ASSUME NEW at \in Stamp, journal'[cur[c]][at] # journal[cur[c]][at]
        PROVE  FALSE
    <2>1. PICK d \in Command : WritingFile(d, cur[c], at) /\ ~Reverting(d)'
      BY <1>1, <1>2, JournalStep
    <2>. QED  BY <1>1, <2>1, Holding DEF HoldersDiffer
  <1>. QED  BY <1>2

LEMMA NextRevertSource ==
  ASSUME Structure, HoldersDiffer, TimeGrows, RevertSource, [Next]_vars
  PROVE  RevertSource'
  <1>. DEFINE Goes(c) == Reverting(c) /\ UNCHANGED <<cur[c], stamp[c], captured[c]>>
              Starts(c) == \E t \in Tweak, at \in Stamp : StartRevert(c, t, at)
              Source(c) ==
                /\ journal[cur[c]][stamp[c]] \in {Entry(captured[c]), Undone(captured[c]), TornFile}
                /\ cur[c] \notin contended =>
                     journal[cur[c]][stamp[c]] = Entry(captured[c]) /\ NoneLater(cur[c], stamp[c])
  <1>1. ASSUME NEW c \in Command, Reverting(c)', cur'[c] \notin misdated', Goes(c)
        PROVE  Source(c)'
    <2>1. cur[c] \in Tweak /\ cur[c] \notin misdated /\ stamp[c] \in Stamp
      BY <1>1, HistoryGrows, Holding DEF Structure, TypeOK
    <2>2. journal'[cur'[c]][stamp'[c]] \in {Entry(captured'[c]), Undone(captured'[c]), TornFile}
      BY <1>1, <2>1, FileUnderRevert DEF RevertSource
    <2>3. ASSUME cur[c] \notin contended'
          PROVE  journal'[cur'[c]][stamp'[c]] = Entry(captured'[c]) /\ NoneLater(cur[c], stamp[c])'
      <3>1. cur[c] \notin contended
        BY <2>3, HistoryGrows
      <3>2. \A at \in Stamp : journal'[cur[c]][at] = journal[cur[c]][at]
        BY <1>1, <3>1, FilesUnderRevert
      <3>3. journal[cur[c]][stamp[c]] = Entry(captured[c]) /\ NoneLater(cur[c], stamp[c])
        BY <1>1, <2>1, <3>1 DEF RevertSource
      <3>. QED  BY <1>1, <2>1, <3>2, <3>3 DEF NoneLater, Active
    <2>. QED  BY <1>1, <2>2, <2>3
  <1>2. ASSUME NEW c \in Command, Starts(c)
        PROVE  Source(c)'
    BY <1>2, RevertStarts
  <1>3. ASSUME NEW c \in Command, NEW d \in Command, Starts(c), Goes(d),
               cur'[c] \notin misdated', cur'[d] = cur'[c], stamp'[d] = stamp'[c]
        PROVE  captured'[d] = captured'[c]
    <2>1. journal[cur[d]][stamp[d]] = Entry(captured'[c]) /\ cur[d] \notin misdated
      BY <1>3, RevertStarts
    <2>2. journal[cur[d]][stamp[d]] \in {Entry(captured[d]), Undone(captured[d]), TornFile}
      BY <1>3, <2>1 DEF RevertSource
    <2>. QED  BY <1>3, <2>1, <2>2 DEF Entry, Undone, TornFile
  <1>4. ASSUME NEW c \in Command, NEW d \in Command, Starts(c), Starts(d),
               cur'[d] = cur'[c], stamp'[d] = stamp'[c]
        PROVE  captured'[d] = captured'[c]
    BY <1>4, RevertStarts
  <1>5. ASSUME NEW c \in Command, NEW d \in Command, Goes(c), Goes(d),
               cur'[c] \notin misdated', cur'[d] = cur'[c], stamp'[d] = stamp'[c]
        PROVE  captured'[d] = captured'[c]
    <2>1. cur[c] \notin misdated
      BY <1>5, HistoryGrows
    <2>. QED  BY <1>5, <2>1 DEF RevertSource
  <1>6. ASSUME NEW c \in Command, Reverting(c)'
        PROVE  Goes(c) \/ Starts(c)
    BY <1>6, RevertGoesOn
  <1>7. ASSUME NEW c \in Command, Reverting(c)', cur'[c] \notin misdated'
        PROVE  Source(c)'
    BY <1>1, <1>2, <1>6, <1>7
  <1>8. ASSUME NEW c \in Command, Reverting(c)', cur'[c] \notin misdated',
               NEW d \in Command, Reverting(d)', cur'[d] = cur'[c], stamp'[d] = stamp'[c]
        PROVE  captured'[d] = captured'[c]
    <2>. HIDE DEF Goes, Starts
    <2>1. (Goes(c) \/ Starts(c)) /\ (Goes(d) \/ Starts(d))
      BY <1>6, <1>8
    <2>2. CASE Goes(c) /\ Starts(d)
      <3>1. captured'[c] = captured'[d]
        BY <1>3, <1>8, <2>2
      <3>. QED  BY <3>1
    <2>. QED  BY <1>3, <1>4, <1>5, <1>8, <2>1, <2>2
  <1>. QED  BY <1>7, <1>8 DEF RevertSource

(* A new journal file is that of a batch that is now done with its tweak.  *)
LEMMA NewFile ==
  ASSUME Structure, HoldersDiffer, RevertSource, [Next]_vars,
         NEW t \in Tweak \ misdated, NEW at \in Stamp, Exists(t, at)', ~Exists(t, at)
  PROVE  \E c \in Command : Forward(c) /\ Holds(c, t) /\ stamp[c] = at /\ ~Holds(c, t)'
  <1>1. PICK c \in Command : WritingFile(c, t, at) /\ ~Holds(c, t)'
    BY JournalStep DEF Exists
  <1>2. Holds(c, t) /\ cur[c] = t /\ stamp[c] = at
    BY <1>1, Holding DEF WritingFile
  <1>3. ASSUME pc[c] = "mark"
        PROVE  FALSE
    <2>1. journal[t][at] \in {Entry(captured[c]), Undone(captured[c]), TornFile}
      BY <1>2, <1>3 DEF RevertSource, Reverting
    <2>. QED  BY <2>1 DEF Exists, Entry, Undone, TornFile
  <1>. QED  BY <1>1, <1>2, <1>3 DEF WritingFile, Forward

LEMMA NextTimeGrows ==
  ASSUME Structure, HoldersDiffer, RevertSource, TimeGrows, [Next]_vars
  PROVE  TimeGrows'
  <1>. SUFFICES ASSUME NEW c \in Command, NEW t \in Tweak \ misdated', NEW at \in Stamp,
                       Forward(c)', Holds(c, t)', Exists(t, at)'
                PROVE  at # stamp'[c] /\ (t \notin contended' => at < stamp'[c])
    BY DEF TimeGrows
  <1>0. t \in Tweak \ misdated /\ (t \notin contended' => t \notin contended)
    BY HistoryGrows
  <1>1. at \in Nat /\ stamp[c] \in Nat
    BY BoundsAssumption DEF Stamp, Structure, TypeOK
  <1>2. ASSUME NEW batch \in SUBSET Tweak, StartApply(c, batch)
        PROVE  at < stamp'[c]
    <2>1. Exists(t, at)
      BY <1>2 DEF StartApply, Exists
    <2>. QED  BY <1>2, <2>1, StartsAreDated
  <1>3. ASSUME Forward(c), stamp'[c] = stamp[c]
        PROVE  at # stamp[c] /\ (t \notin contended => at < stamp[c])
    <2>1. Holds(c, t)
      BY <1>3, NobodyTakesUp, StartsAreIdle
    <2>2. CASE Exists(t, at)
      BY <1>0, <1>3, <2>1, <2>2 DEF TimeGrows
    <2>3. CASE ~Exists(t, at)
      <3>1. PICK d \in Command : Forward(d) /\ Holds(d, t) /\ stamp[d] = at /\ ~Holds(d, t)'
        BY <1>0, <2>3, NewFile
      <3>. QED  BY <1>0, <1>3, <2>1, <3>1 DEF HoldersDiffer
    <2>. QED  BY <2>2, <2>3
  <1>4. CASE Forward(c) /\ stamp'[c] = stamp[c]
    BY <1>0, <1>3, <1>4
  <1>5. CASE \E batch \in SUBSET Tweak : StartApply(c, batch)
    <2>1. at < stamp'[c]
      BY <1>2, <1>5
    <2>2. stamp'[c] \in Stamp
      BY NextType DEF Structure, TypeOK
    <2>. QED  BY <1>1, <2>1, <2>2, BoundsAssumption DEF Stamp
  <1>. QED  BY <1>4, <1>5, BatchTime

(* The captures a revert works from are of the actions of its tweak.       *)
LEMMA RevertFits ==
  ASSUME Structure, NEW c \in Command, Reverting(c)
  PROVE  /\ Fits(captured[c], cur[c])
         /\ captured[c] \in Seq(Captured)
         /\ DOMAIN captured[c] \subseteq Index(cur[c])
         /\ left[c] \in 0 .. Len(captured[c])
  <1>1. cur[c] \in Tweak /\ captured[c] \in Seq(Captured)
    BY Holding DEF Structure, TypeOK
  <1>2. Fits(captured[c], cur[c])
    BY DEF Structure, CapturesFit
  <1>3. left[c] \in 0 .. Len(captured[c])
    BY <1>1 DEF Structure, CommandShape, Reverting
  <1>4. DOMAIN captured[c] \subseteq Index(cur[c])
    BY <1>1, <1>2, CatalogType DEF Fits, Index
  <1>. QED  BY <1>1, <1>2, <1>3, <1>4

(* A command changes the machine only where its tweak does.                *)
LEMMA MachineStep ==
  ASSUME Structure, NEW c \in Command, Step(c) \/ User(c),
         NEW l \in Location, machine'[l] # machine[l]
  PROVE  /\ Applying(c) \/ Reverting(c)
         /\ \E j \in Index(cur[c]) : Catalog[cur[c]][j].at = l
  <1>. USE DEF Structure
  <1>1. CASE PerformOk(c) \/ ServiceHalfDone(c) \/ ReplyLost(c)
    <2>1. pc[c] = "perform"
      BY <1>1 DEF PerformOk, ServiceHalfDone, ReplyLost
    <2>2. l = NextAction(c).at
      BY <1>1 DEF PerformOk, ServiceHalfDone, ReplyLost, TypeOK, IsMachine
    <2>. QED  BY <2>1, <2>2, NextActionType DEF NextAction, Applying
  <1>2. CASE RestoreOk(c) \/ RestoreFails(c)
    <2>1. pc[c] = "restore"
      BY <1>2 DEF RestoreOk, RestoreFails, PlanStep
    <2>2. l = Restoring(c).at
      BY <1>2 DEF RestoreOk, RestoreFails, TypeOK, IsMachine
    <2>3. Reverting(c) /\ left[c] \in DOMAIN captured[c]
      BY <2>1, RestoringType DEF Reverting, TypeOK
    <2>4. left[c] \in Index(cur[c]) /\ Catalog[cur[c]][left[c]].at = l
      BY <2>2, <2>3, RevertFits DEF Fits, Restoring
    <2>. QED  BY <2>3, <2>4
  <1>3. CASE ~(PerformOk(c) \/ ServiceHalfDone(c) \/ ReplyLost(c) \/ RestoreOk(c) \/ RestoreFails(c))
    <2>1. machine' = machine
      BY <1>3 DEF Step, User, StartApply, StartRevert, BeginTweak, PerformDenied, WriteEntry,
         WriteFails, EndTweak, FinishApply, NoHelper, SkipIrreversible, MarkReverted, MarkFails
    <2>. QED  BY <2>1
  <1>. QED  BY <1>1, <1>2, <1>3

(* So nobody else touches what a command alone has to do with.             *)
LEMMA OthersUntouched ==
  ASSUME CatalogIsDisjoint, Structure, HoldersDiffer,
         NEW c \in Command, NEW d \in Command, c # d, Step(d) \/ User(d),
         NEW t \in Tweak \ contended, Holds(c, t), NEW i \in Index(t), Catalog[t][i].at \in Location
  PROVE  machine'[Catalog[t][i].at] = machine[Catalog[t][i].at]
  <1>. SUFFICES ASSUME machine'[Catalog[t][i].at] # machine[Catalog[t][i].at] PROVE FALSE
    OBVIOUS
  <1>1. Applying(d) \/ Reverting(d)
    BY MachineStep
  <1>2. PICK j \in Index(cur[d]) : Catalog[cur[d]][j].at = Catalog[t][i].at
    BY MachineStep
  <1>3. cur[d] \in Tweak /\ Holds(d, cur[d])
    BY <1>1, Holding
  <1>4. cur[d] = t
    BY <1>2, <1>3 DEF CatalogIsDisjoint
  <1>. QED  BY <1>3, <1>4 DEF HoldersDiffer

(* One step of a plan keeps its progress: what it comes to now is earlier  *)
(* than all it has come to before.                                         *)
LEMMA PlanProgress ==
  ASSUME Structure, RevertProgress, NEW c \in Command, cur[c] \notin Disordered,
         SkipIrreversible(c) \/ RestoreOk(c) \/ RestoreFails(c),
         NEW k \in left'[c] + 1 .. Len(captured[c]),
         NEW l \in Reversible \ failures'[c], captured[c][k].at = l
  PROVE  \E i \in left'[c] + 1 .. Len(captured[c]) : RestoredTo(c, l, i)'
  <1>. DEFINE r == Restoring(c)
  <1>0. PlanStep(c)
    BY DEF SkipIrreversible, RestoreOk, RestoreFails
  <1>1. /\ pc[c] = "restore" /\ left'[c] = left[c] - 1 /\ captured' = captured
        /\ r = captured[c][left[c]]
    BY <1>0 DEF PlanStep, Structure, TypeOK, Restoring
  <1>2. /\ left[c] \in 1 .. Len(captured[c]) /\ Len(captured[c]) \in Nat
        /\ r.at \in Location
        /\ Reverting(c)
    BY <1>1, RestoringType DEF Reverting, Structure, TypeOK
  <1>3. CASE l = r.at
    <2>1. RestoreOk(c)
      <3>1. ~SkipIrreversible(c)
        BY <1>3, LocationsAreDistinct DEF SkipIrreversible, Reversible
      <3>2. ~RestoreFails(c)
        BY <1>3 DEF RestoreFails, Structure, TypeOK
      <3>. QED  BY <3>1, <3>2
    <2>2. machine'[l] = r.prior
      BY <1>2, <1>3, <2>1 DEF RestoreOk, Structure, TypeOK, IsMachine
    <2>3. ASSUME NEW i, i = left[c]
          PROVE  RestoredTo(c, l, i)'
      BY <1>1, <1>2, <1>3, <2>2, <2>3 DEF RestoredTo
    <2>. QED  BY <1>1, <1>2, <2>3
  <1>4. CASE l # r.at
    <2>1. k \in left[c] + 1 .. Len(captured[c])
      BY <1>1, <1>2, <1>4
    <2>2. l \notin failures[c] /\ machine'[l] = machine[l]
      BY <1>4 DEF SkipIrreversible, RestoreOk, RestoreFails, Structure, TypeOK, IsMachine, Location,
         Reversible
    <2>3. PICK i \in left[c] + 1 .. Len(captured[c]) : RestoredTo(c, l, i)
      BY <1>2, <2>1, <2>2 DEF RevertProgress
    <2>4. i \in left'[c] + 1 .. Len(captured[c])
      BY <1>1, <1>2
    <2>5. RestoredTo(c, l, i)'
      BY <1>1, <1>2, <1>4, <2>2, <2>3, <2>4 DEF RestoredTo
    <2>. QED  BY <2>4, <2>5
  <1>. QED  BY <1>3, <1>4

LEMMA NextRevertProgress ==
  ASSUME CatalogIsDisjoint, Structure, HoldersDiffer, RevertProgress, [Next]_vars
  PROVE  RevertProgress'
  <1>. USE DEF Structure
  <1>. SUFFICES ASSUME NEW c \in Command, Reverting(c)', cur'[c] \notin Disordered',
                       NEW k \in left'[c] + 1 .. Len(captured'[c]),
                       NEW l \in Reversible \ failures'[c], captured'[c][k].at = l
                PROVE  \E i \in left'[c] + 1 .. Len(captured'[c]) : RestoredTo(c, l, i)'
    BY DEF RevertProgress
  <1>1. CASE Step(c) \/ User(c)
    <2>1. CASE SkipIrreversible(c) \/ RestoreOk(c) \/ RestoreFails(c)
      <3>1. captured' = captured /\ cur' = cur
        BY <2>1 DEF SkipIrreversible, RestoreOk, RestoreFails, PlanStep
      <3>2. cur[c] \notin Disordered
        BY <3>1, HistoryGrows
      <3>. QED  BY <2>1, <3>1, <3>2, PlanProgress
    <2>2. CASE \E t \in Tweak, at \in Stamp : StartRevert(c, t, at)
      <3>1. left'[c] = Len(captured'[c]) /\ Len(captured'[c]) \in Nat
        BY <2>2 DEF StartRevert, TypeOK, File
      <3>. QED  BY <3>1
    <2>3. CASE \/ \E t \in Tweak : BeginTweak(c, t)
               \/ PerformOk(c) \/ PerformDenied(c) \/ ServiceHalfDone(c) \/ ReplyLost(c)
               \/ WriteEntry(c) \/ WriteFails(c)
               \/ FinishApply(c) \/ NoHelper(c) \/ MarkReverted(c) \/ MarkFails(c)
               \/ \E batch \in SUBSET Tweak : StartApply(c, batch)
      <3>1. pc'[c] \in {"idle", "next", "perform", "journal"}
        BY <2>3 DEF BeginTweak, PerformOk, PerformDenied, ServiceHalfDone, ReplyLost, WriteEntry,
           WriteFails, EndTweak, FinishApply, NoHelper, MarkReverted, MarkFails, StartApply, TypeOK
      <3>. QED  BY <3>1 DEF Reverting
    <2>. QED  BY <1>1, <2>1, <2>2, <2>3 DEF Step, User
  <1>2. ASSUME NEW d \in Command, d # c, Step(d) \/ User(d)
        PROVE  \E i \in left'[c] + 1 .. Len(captured'[c]) : RestoredTo(c, l, i)'
    <2>1. /\ Reverting(c)
          /\ UNCHANGED <<cur[c], left[c], captured[c], failures[c]>>
      BY <1>2, StepIsLocal DEF OthersRest, Reverting
    <2>0. cur[c] \notin Disordered /\ cur[c] \notin contended
      BY <2>1, HistoryGrows DEF Disordered
    <2>2. left[c] \in Nat /\ captured[c] \in Seq(Captured) /\ k \in DOMAIN captured[c]
      BY <2>1, RevertFits
    <2>3. /\ k \in Index(cur[c]) /\ l = Catalog[cur[c]][k].at
          /\ cur[c] \in Tweak /\ Holds(c, cur[c])
      BY <2>1, <2>2, RevertFits, Holding DEF Fits
    <2>4. l \in Location
      BY DEF Reversible, Location
    <2>5. machine'[l] = machine[l]
      BY <1>2, <2>0, <2>3, <2>4, OthersUntouched
    <2>6. PICK i \in left[c] + 1 .. Len(captured[c]) : RestoredTo(c, l, i)
      BY <2>0, <2>1 DEF RevertProgress
    <2>. QED  BY <2>1, <2>5, <2>6 DEF RestoredTo
  <1>3. CASE Crash
    BY <1>3 DEF Crash, Reverting
  <1>4. CASE UNCHANGED vars
    BY <1>4, SMTT(30) DEF vars, cmdVars, history, Disordered, Reverting, RevertProgress, RestoredTo
  <1>. QED  BY <1>1, <1>2, <1>3, <1>4 DEF Next

-----------------------------------------------------------------------------
(* Recoverability.  How the captures of one location may change in a step: *)
(* not at all, ...                                                         *)
SameCaptures(l) ==
  \A t \in Tweak, at \in Stamp : \A i \in Index(t) :
    /\ HasCapture(l, t, at, i)' <=> HasCapture(l, t, at, i)
    /\ \A s : CaptureSays(l, t, at, i, s)' <=> CaptureSays(l, t, at, i, s)

(* ... by losing those of one application of a tweak, ...                  *)
CapturesDropped(l, t0, at0) ==
  \A t \in Tweak, at \in Stamp : \A i \in Index(t) :
    /\ HasCapture(l, t, at, i)' <=> HasCapture(l, t, at, i) /\ ~(t = t0 /\ at = at0)
    /\ \A s : CaptureSays(l, t, at, i, s)' <=>
              CaptureSays(l, t, at, i, s) /\ ~(t = t0 /\ at = at0)

(* ... or by gaining one more, of what the location holds.                 *)
CaptureAdded(l, t0, at0, n) ==
  \A t \in Tweak, at \in Stamp : \A i \in Index(t) :
    /\ HasCapture(l, t, at, i)' <=>
         HasCapture(l, t, at, i) \/ (t = t0 /\ at = at0 /\ i = n)
    /\ \A s : CaptureSays(l, t, at, i, s)' <=>
              \/ CaptureSays(l, t, at, i, s)
              \/ t = t0 /\ at = at0 /\ i = n /\ s = machine[l]

LEMMA SameRecoverable ==
  ASSUME NEW l \in Location, UNCHANGED baseline, SameCaptures(l),
         machine'[l] = machine[l] \/ ~Unkept(l), Recoverable(l)
  PROVE  Recoverable(l)'
  <1>1. Unkept(l)' <=> Unkept(l)
    BY DEF SameCaptures, Unkept
  <1>2. CASE Unkept(l) /\ machine[l] = baseline[l]
    BY <1>1, <1>2 DEF Recoverable
  <1>3. ASSUME NEW t \in Tweak, NEW at \in Stamp, NEW i \in Index(t),
               Oldest(l, t, at, i), CaptureSays(l, t, at, i, baseline[l])
        PROVE  Recoverable(l)'
    <2>1. Oldest(l, t, at, i)'
      BY <1>3 DEF Oldest, SameCaptures
    <2>2. CaptureSays(l, t, at, i, baseline[l])'
      BY <1>3 DEF SameCaptures
    <2>. QED  BY <2>1, <2>2 DEF Recoverable
  <1>. QED  BY <1>2, <1>3 DEF Recoverable

LEMMA DroppedRecoverable ==
  ASSUME NEW l \in Location, UNCHANGED baseline, machine'[l] = machine[l],
         NEW t0 \in Tweak, NEW at0 \in Stamp, CapturesDropped(l, t0, at0),
         \A t \in Tweak, at \in Stamp : \A i \in Index(t) :
           HasCapture(l, t, at, i) => t = t0 /\ at <= at0,
         \A i \in Index(t0) :
           Oldest(l, t0, at0, i) /\ CaptureSays(l, t0, at0, i, baseline[l]) =>
             machine[l] = baseline[l],
         Recoverable(l)
  PROVE  Recoverable(l)'
  <1>0. Stamp \subseteq Nat
    BY BoundsAssumption DEF Stamp
  <1>1. CASE Unkept(l) /\ machine[l] = baseline[l]
    <2>1. Unkept(l)'
      BY <1>1 DEF Unkept, CapturesDropped
    <2>. QED  BY <1>1, <2>1 DEF Recoverable
  <1>2. ASSUME NEW t \in Tweak, NEW at \in Stamp, NEW i \in Index(t),
               Oldest(l, t, at, i), CaptureSays(l, t, at, i, baseline[l])
        PROVE  Recoverable(l)'
    <2>1. CASE t = t0 /\ at = at0
      <3>1. Unkept(l)'
        <4>. SUFFICES ASSUME NEW u \in Tweak, NEW b \in Stamp, NEW j \in Index(u),
                             HasCapture(l, u, b, j)'
                      PROVE  FALSE
          BY DEF Unkept
        <4>1. HasCapture(l, u, b, j) /\ ~(u = t0 /\ b = at0)
          BY DEF CapturesDropped
        <4>2. u = t0 /\ b <= at0 /\ at0 <= b
          BY <1>0, <1>2, <2>1, <4>1 DEF Oldest
        <4>. QED  BY <1>0, <4>1, <4>2
      <3>2. machine[l] = baseline[l]
        BY <1>2, <2>1
      <3>. QED  BY <3>1, <3>2 DEF Recoverable
    <2>2. CASE ~(t = t0 /\ at = at0)
      <3>1. Oldest(l, t, at, i)'
        BY <1>2, <2>2 DEF Oldest, CapturesDropped
      <3>2. CaptureSays(l, t, at, i, baseline[l])'
        BY <1>2, <2>2 DEF CapturesDropped
      <3>. QED  BY <3>1, <3>2 DEF Recoverable
    <2>. QED  BY <2>1, <2>2
  <1>. QED  BY <1>1, <1>2 DEF Recoverable

LEMMA AddedRecoverable ==
  ASSUME NEW l \in Location, UNCHANGED baseline,
         NEW t0 \in Tweak, NEW at0 \in Stamp, NEW n \in Index(t0),
         CaptureAdded(l, t0, at0, n),
         \A t \in Tweak, at \in Stamp : \A i \in Index(t) :
           HasCapture(l, t, at, i) => at < at0 \/ (at = at0 /\ i <= n),
         Recoverable(l)
  PROVE  Recoverable(l)'
  <1>0. Index(t0) \subseteq Nat
    BY DEF Index
  <1>1. CASE Unkept(l) /\ machine[l] = baseline[l]
    <2>1. \A u \in Tweak, b \in Stamp : \A j \in Index(u) :
            HasCapture(l, u, b, j)' <=> u = t0 /\ b = at0 /\ j = n
      BY <1>1 DEF Unkept, CaptureAdded
    <2>2. Oldest(l, t0, at0, n)'
      BY <1>0, <2>1 DEF Oldest
    <2>3. ASSUME NEW s, s = machine[l]
          PROVE  CaptureSays(l, t0, at0, n, s)'
      BY <2>3 DEF CaptureAdded
    <2>4. CaptureSays(l, t0, at0, n, baseline[l])'
      BY <1>1, <2>3
    <2>. QED  BY <2>2, <2>4 DEF Recoverable
  <1>2. ASSUME NEW t \in Tweak, NEW at \in Stamp, NEW i \in Index(t),
               Oldest(l, t, at, i), CaptureSays(l, t, at, i, baseline[l])
        PROVE  Recoverable(l)'
    <2>1. Oldest(l, t, at, i)'
      BY <1>2 DEF Oldest, CaptureAdded
    <2>2. CaptureSays(l, t, at, i, baseline[l])'
      BY <1>2 DEF CaptureAdded
    <2>. QED  BY <2>1, <2>2 DEF Recoverable
  <1>. QED  BY <1>1, <1>2 DEF Recoverable

-----------------------------------------------------------------------------
(* Whose captures they are.                                                *)

Ordered == Structure /\ HoldersDiffer /\ TimeGrows /\ RevertSource /\ RevertProgress

(* A location of which every application follows the others, ...           *)
InOrder(l) == \A t \in Tweak : \A i \in Index(t) : Catalog[t][i].at = l => t \notin Disordered

(* ... and a command that alone has to do with its tweak.                  *)
AtWork(c) == (Applying(c) \/ Reverting(c)) /\ cur[c] \notin Disordered

LEMMA OrphansStay ==
  ASSUME [Next]_vars
  PROVE  orphaned \subseteq orphaned'
  <1>1. CASE Crash \/ UNCHANGED vars
    BY <1>1 DEF Crash, vars
  <1>2. ASSUME NEW c \in Command, User(c) PROVE orphaned \subseteq orphaned'
    BY <1>2 DEF User, StartApply, StartRevert
  <1>3. ASSUME NEW c \in Command, Step(c) PROVE orphaned \subseteq orphaned'
    BY <1>3 DEF Step, BeginTweak, PerformOk, PerformDenied, ServiceHalfDone, ReplyLost,
       WriteEntry, WriteFails, FinishApply, NoHelper, SkipIrreversible, RestoreOk,
       RestoreFails, PlanStep, MarkReverted, MarkFails
  <1>. QED  BY <1>1, <1>2, <1>3 DEF Next

(* Most locations lose nothing, and those that do have lost it for good.   *)
LEMMA LossesStay ==
  ASSUME [Next]_vars
  PROVE  Lost \subseteq Lost'
  BY OrphansStay, HistoryGrows DEF Lost

LEMMA NotLost ==
  ASSUME [Next]_vars, NEW l \in Reversible \ Lost'
  PROVE  /\ l \in Location /\ l \notin Lost /\ l \notin orphaned'
         /\ InOrder(l) /\ InOrder(l)'
  <1>1. \A t \in Tweak : \A i \in Index(t) : Catalog[t][i].at \in Located(Catalog[t])
    BY CatalogType DEF Located, Index
  <1>2. \A t \in Disordered' : l \notin Located(Catalog[t])
    BY DEF Lost
  <1>3. InOrder(l)'
    BY <1>1, <1>2 DEF InOrder
  <1>4. InOrder(l)
    BY <1>1, <1>2, HistoryGrows DEF InOrder
  <1>. QED  BY <1>3, <1>4, LossesStay DEF Lost, Reversible, Location

(* A capture is of the location its tweak changes there.                   *)
LEMMA CaptureIsOf ==
  ASSUME Structure, NEW l, NEW t \in Tweak, NEW at \in Stamp, NEW i, HasCapture(l, t, at, i)
  PROVE  i \in Index(t) /\ Catalog[t][i].at = l
  <1>1. ASSUME Active(t, at), i \in DOMAIN journal[t][at].actions,
               journal[t][at].actions[i].at = l
        PROVE  i \in Index(t) /\ Catalog[t][i].at = l
    <2>1. journal[t][at].actions \in Seq(Captured)
      BY DEF Structure, TypeOK, File
    <2>2. Fits(journal[t][at].actions, t)
      BY <1>1 DEF Structure, CapturesFit
    <2>. QED  BY <1>1, <2>1, <2>2, CatalogType DEF Fits, Index
  <1>2. ASSUME NEW c \in Command, Making(c, t, at), i \in DOMAIN captured[c],
               captured[c][i].at = l
        PROVE  i \in Index(t) /\ Catalog[t][i].at = l
    <2>1. captured[c] \in Seq(Captured)
      BY DEF Structure, TypeOK
    <2>2. Fits(captured[c], t)
      BY <1>2 DEF Structure, CapturesFit, Making
    <2>. QED  BY <1>2, <2>1, <2>2, CatalogType DEF Fits, Index
  <1>. QED  BY <1>1, <1>2 DEF HasCapture

CapturesAreOf ==
  \A l : \A t \in Tweak, at \in Stamp : \A i :
    HasCapture(l, t, at, i) => i \in Index(t) /\ Catalog[t][i].at = l
LEMMA AllAreOf == Structure => CapturesAreOf
  BY CaptureIsOf DEF CapturesAreOf
LEMMA AllAreOfNext == Structure' => CapturesAreOf'
  BY AllAreOf, PTL

(* A command that is still applying is at the same tweak as before.        *)
LEMMA StaysOnTweak ==
  ASSUME Structure, NEW c \in Command, Step(c), Applying(c) \/ Reverting(c), Applying(c)'
  PROVE  cur'[c] = cur[c]
  <1>. USE DEF Structure, Applying, Reverting
  <1>1. CASE \E t \in Tweak : BeginTweak(c, t)
    BY <1>1 DEF BeginTweak
  <1>2. CASE PerformOk(c) \/ PerformDenied(c) \/ ServiceHalfDone(c) \/ ReplyLost(c)
    BY <1>2 DEF PerformOk, PerformDenied, ServiceHalfDone, ReplyLost, cmdVars
  <1>3. CASE WriteEntry(c) \/ WriteFails(c)
    BY <1>3 DEF WriteEntry, WriteFails, EndTweak, TypeOK
  <1>4. CASE FinishApply(c) \/ NoHelper(c) \/ MarkReverted(c) \/ MarkFails(c)
    BY <1>4 DEF FinishApply, NoHelper, MarkReverted, MarkFails, TypeOK
  <1>5. CASE SkipIrreversible(c) \/ RestoreOk(c) \/ RestoreFails(c)
    BY <1>5 DEF SkipIrreversible, RestoreOk, RestoreFails, PlanStep
  <1>. QED  BY <1>1, <1>2, <1>3, <1>4, <1>5 DEF Step

(* The captures of the application a command is about are its own ...      *)
CapturedAt(c, l, i) == i \in DOMAIN captured[c] /\ captured[c][i].at = l
LEMMA OwnCaptures ==
  ASSUME Ordered, NEW c \in Command, AtWork(c), NEW l, NEW i
  PROVE  /\ HasCapture(l, cur[c], stamp[c], i) <=> CapturedAt(c, l, i)
         /\ \A p : CaptureSays(l, cur[c], stamp[c], i, p) <=>
              CapturedAt(c, l, i) /\ captured[c][i].prior = p
  <1>1. /\ cur[c] \in Tweak /\ stamp[c] \in Stamp /\ Holds(c, cur[c])
        /\ cur[c] \notin misdated /\ cur[c] \notin contended
    BY Holding DEF AtWork, Disordered, Ordered, Structure, TypeOK
  <1>2. \A d \in Command : Making(d, cur[c], stamp[c]) => d = c
    BY <1>1, Holding DEF Ordered, HoldersDiffer, Making
  <1>3. CASE Applying(c)
    <2>1. ~Exists(cur[c], stamp[c])
      BY <1>1, <1>3 DEF Ordered, TimeGrows, Forward, Applying
    <2>2. ~Active(cur[c], stamp[c]) /\ Making(c, cur[c], stamp[c])
      BY <1>3, <2>1 DEF Exists, Active, Making
    <2>. QED  BY <1>2, <2>2 DEF HasCapture, CaptureSays, CapturedAt
  <1>4. CASE Reverting(c)
    <2>1. ~Applying(c)
      BY <1>4 DEF Applying, Reverting
    <2>2. \A d \in Command : ~Making(d, cur[c], stamp[c])
      BY <1>2, <2>1 DEF Making
    <2>3. journal[cur[c]][stamp[c]] = Entry(captured[c])
      BY <1>1, <1>4 DEF Ordered, RevertSource
    <2>4. Active(cur[c], stamp[c]) /\ journal[cur[c]][stamp[c]].actions = captured[c]
      BY <2>3 DEF Active, Entry
    <2>. QED  BY <2>2, <2>4 DEF HasCapture, CaptureSays, CapturedAt
  <1>. QED  BY <1>3, <1>4 DEF AtWork

(* ... and the latest there are of its locations.                          *)
LEMMA OwnAreLatest ==
  ASSUME CatalogIsDisjoint, Ordered, NEW c \in Command, AtWork(c),
         NEW l, NEW k \in Index(cur[c]), Catalog[cur[c]][k].at = l,
         NEW t \in Tweak, NEW at \in Stamp, NEW i, HasCapture(l, t, at, i)
  PROVE  t = cur[c] /\ at <= stamp[c]
  <1>0. /\ cur[c] \in Tweak /\ stamp[c] \in Stamp /\ Holds(c, cur[c])
        /\ cur[c] \notin misdated /\ cur[c] \notin contended
    BY Holding DEF AtWork, Disordered, Ordered, Structure, TypeOK
  <1>1. i \in Index(t) /\ Catalog[t][i].at = l
    BY CaptureIsOf DEF Ordered
  <1>2. t = cur[c]
    BY <1>0, <1>1 DEF CatalogIsDisjoint
  <1>3. CASE Active(t, at)
    <2>1. CASE Applying(c)
      <3>1. at < stamp[c]
        BY <1>0, <1>2, <1>3, <2>1 DEF Ordered, TimeGrows, Forward, Applying, Exists, Active
      <3>2. at \in Nat /\ stamp[c] \in Nat
        BY <1>0, BoundsAssumption DEF Stamp
      <3>. QED  BY <1>2, <3>1, <3>2
    <2>2. CASE Reverting(c)
      BY <1>0, <1>2, <1>3, <2>2 DEF Ordered, RevertSource, NoneLater
    <2>. QED  BY <2>1, <2>2 DEF AtWork
  <1>4. ASSUME NEW d \in Command, Making(d, t, at)
        PROVE  at <= stamp[c]
    <2>1. d = c
      BY <1>0, <1>2, <1>4, Holding DEF Ordered, HoldersDiffer, Making
    <2>2. stamp[c] \in Nat
      BY <1>0, BoundsAssumption DEF Stamp
    <2>. QED  BY <1>4, <2>1, <2>2 DEF Making
  <1>. QED  BY <1>2, <1>3, <1>4 DEF HasCapture

(* What a step may do to a location: nothing but to change it on behalf of *)
(* a command that has a capture of it, ...                                 *)
Covered(l) == \E c \in Command : AtWork(c) /\ \E k : CapturedAt(c, l, k)
Quiet(l) == SameCaptures(l) /\ (machine'[l] = machine[l] \/ Covered(l))

(* ... to take away what an entry has of it, once that is restored, ...    *)
Dropped(l) ==
  /\ machine'[l] = machine[l]
  /\ \E c \in Command :
       /\ pc[c] = "mark" /\ AtWork(c)
       /\ l \notin failures[c]
       /\ CapturesDropped(l, cur[c], stamp[c])

(* ... or to carry out an action on it.                                    *)
Added(l) ==
  \E c \in Command :
    /\ pc[c] = "perform" /\ AtWork(c)
    /\ NextAction(c).at = l
    /\ CaptureAdded(l, cur[c], stamp[c], Len(captured[c]) + 1)

LocationStep(l) == Quiet(l) \/ Dropped(l) \/ Added(l)

(* A step that leaves the files and the captures in the making as they are.*)
Keeps(c) == Applying(c) /\ captured[c] # << >>
LEMMA KeptCaptures ==
  ASSUME TypeOK, UNCHANGED <<journal, baseline>>,
         \A c \in Command : Keeps(c) \/ Keeps(c)' =>
           Keeps(c) /\ Keeps(c)' /\ UNCHANGED <<cur[c], stamp[c], captured[c]>>,
         NEW l
  PROVE  SameCaptures(l)
  <1>1. \A c \in Command, t \in Tweak, at \in Stamp : \A i :
          /\ Making(c, t, at) /\ i \in DOMAIN captured[c] =>
               /\ (Making(c, t, at))'
               /\ captured'[c] = captured[c]
          /\ (Making(c, t, at))' /\ i \in DOMAIN captured'[c] =>
               /\ Making(c, t, at)
               /\ captured'[c] = captured[c]
    BY DEF Making, Keeps
  <1>2. \A t \in Tweak, at \in Stamp : Active(t, at)' <=> Active(t, at)
    BY DEF Active
  <1>. QED  BY <1>1, <1>2 DEF SameCaptures, HasCapture, CaptureSays

(* The steps that change neither file nor capture, and change the machine, *)
(* if at all, where a capture is gone for good or is still to be restored. *)
LEMMA QuietSteps ==
  ASSUME Structure, NEW c \in Command,
         \/ \E batch \in SUBSET Tweak : StartApply(c, batch)
         \/ \E t \in Tweak, at \in Stamp : StartRevert(c, t, at)
         \/ \E t \in Tweak : BeginTweak(c, t)
         \/ PerformDenied(c) \/ ServiceHalfDone(c) \/ ReplyLost(c)
         \/ FinishApply(c) \/ NoHelper(c)
         \/ SkipIrreversible(c) \/ RestoreOk(c) \/ RestoreFails(c)
         \/ MarkFails(c) /\ UNCHANGED journal
         \/ WriteEntry(c) /\ captured[c] = << >>,
         NEW l \in Reversible \ orphaned', InOrder(l)
  PROVE  LocationStep(l)
  <1>. USE DEF Structure
  <1>1. UNCHANGED <<journal, baseline>>
    BY DEF history, StartApply, StartRevert, BeginTweak, PerformDenied, ServiceHalfDone, ReplyLost,
       FinishApply, NoHelper, SkipIrreversible, RestoreOk, RestoreFails, PlanStep, MarkFails, WriteEntry,
       EndTweak
  <1>2. ASSUME Keeps(c) \/ Keeps(c)'
        PROVE  Keeps(c) /\ Keeps(c)' /\ UNCHANGED <<cur[c], stamp[c], captured[c]>>
    <2>. USE DEF Keeps, Applying
    <2>1. CASE PerformDenied(c) \/ ServiceHalfDone(c) \/ ReplyLost(c)
      BY <1>2, <2>1 DEF PerformDenied, ServiceHalfDone, ReplyLost, cmdVars, TypeOK
    <2>2. CASE \/ \E batch \in SUBSET Tweak : StartApply(c, batch)
               \/ \E t \in Tweak : BeginTweak(c, t)
               \/ FinishApply(c) \/ NoHelper(c)
      BY <1>2, <2>2 DEF StartApply, BeginTweak, FinishApply, NoHelper, TypeOK, CommandShape
    <2>3. CASE \/ \E t \in Tweak, at \in Stamp : StartRevert(c, t, at)
               \/ SkipIrreversible(c) \/ RestoreOk(c) \/ RestoreFails(c)
               \/ MarkFails(c)
      BY <1>2, <2>3 DEF StartRevert, SkipIrreversible, RestoreOk, RestoreFails, PlanStep, MarkFails,
         TypeOK
    <2>4. CASE WriteEntry(c) /\ captured[c] = << >>
      BY <1>2, <2>4 DEF WriteEntry, EndTweak, TypeOK
    <2>. QED  BY <2>1, <2>2, <2>3, <2>4
  <1>3. ASSUME NEW d \in Command \ {c}
        PROVE  UNCHANGED <<pc[d], cur[d], stamp[d], captured[d]>>
    <2>1. CASE \E batch \in SUBSET Tweak : StartApply(c, batch)
      BY <2>1 DEF StartApply, TypeOK
    <2>2. CASE Step(c) \/ User(c)
      BY <2>2, StepIsLocal DEF OthersRest
    <2>. QED  BY <2>1, <2>2 DEF Step, User
  <1>4. SameCaptures(l)
    <2>1. \A d \in Command : Keeps(d) \/ Keeps(d)' =>
            Keeps(d) /\ Keeps(d)' /\ UNCHANGED <<cur[d], stamp[d], captured[d]>>
      BY <1>2, <1>3 DEF Keeps, Applying
    <2>. QED  BY <1>1, <2>1, KeptCaptures
  <1>5. machine'[l] = machine[l] \/ Covered(l)
    <2>1. CASE ServiceHalfDone(c) \/ ReplyLost(c)
      BY <2>1 DEF ServiceHalfDone, ReplyLost, TypeOK, IsMachine, Reversible, Location
    <2>2. CASE RestoreOk(c) \/ RestoreFails(c)
      <3>1. pc[c] = "restore"
        BY <2>2 DEF RestoreOk, RestoreFails, PlanStep
      <3>2. CASE l = Restoring(c).at
        <4>1. Reverting(c) /\ left[c] \in DOMAIN captured[c] /\ captured[c][left[c]].at = l
          BY <3>1, <3>2, RestoringType DEF Reverting, Restoring
        <4>2. /\ cur[c] \in Tweak /\ left[c] \in Index(cur[c])
              /\ Catalog[cur[c]][left[c]].at = l
          BY <4>1, RevertFits, Holding DEF Fits
        <4>3. AtWork(c)
          BY <4>1, <4>2 DEF AtWork, InOrder
        <4>. QED  BY <4>1, <4>3 DEF Covered, CapturedAt
      <3>3. CASE l # Restoring(c).at
        BY <2>2, <3>3 DEF RestoreOk, RestoreFails, TypeOK, IsMachine, Reversible, Location
      <3>. QED  BY <3>2, <3>3
    <2>3. CASE ~(ServiceHalfDone(c) \/ ReplyLost(c) \/ RestoreOk(c) \/ RestoreFails(c))
      BY <2>3 DEF StartApply, StartRevert, BeginTweak, PerformDenied, FinishApply, NoHelper,
         SkipIrreversible, MarkFails, WriteEntry, EndTweak
    <2>. QED  BY <2>1, <2>2, <2>3
  <1>. QED  BY <1>4, <1>5 DEF LocationStep, Quiet

(* Carrying out an action adds the latest capture of its location.         *)
LEMMA PerformAdds ==
  ASSUME Structure, NEW c \in Command, PerformOk(c),
         NEW l \in Reversible \ orphaned', InOrder(l)
  PROVE  LocationStep(l)
  <1>. USE DEF Structure
  <1>. DEFINE a == NextAction(c)
              n == Len(captured[c]) + 1
              r == Capture(a, machine[a.at])
  <1>1. /\ cur[c] \in Tweak /\ stamp[c] \in Stamp /\ n \in Index(cur[c]) /\ n \in Nat
        /\ a \in Action /\ IsState(a.at, machine[a.at]) /\ a.at \in Location
        /\ a = Catalog[cur[c]][n] /\ captured[c] \in Seq(Captured)
        /\ Applying(c)
    <2>1. pc[c] = "perform" /\ Applying(c)
      BY DEF PerformOk, Applying
    <2>2. stamp[c] \in Stamp /\ captured[c] \in Seq(Captured) /\ n \in Nat
      BY DEF TypeOK
    <2>3. a = Catalog[cur[c]][n]
      BY DEF NextAction
    <2>4. /\ cur[c] \in Tweak /\ n \in Index(cur[c]) /\ a \in Action
          /\ IsState(a.at, machine[a.at]) /\ a.at \in Location
      BY <2>1, NextActionType
    <2>. QED  BY <2>1, <2>2, <2>3, <2>4
  <1>2. /\ UNCHANGED <<journal, baseline, cur, stamp>>
        /\ captured' = [captured EXCEPT ![c] = Append(captured[c], r)]
        /\ machine' = [machine EXCEPT ![a.at] = After(a, machine[a.at])]
        /\ Applying(c)'
    BY DEF PerformOk, history, TypeOK, Applying
  <1>3. /\ r \in Captured /\ r.at = a.at
        /\ a.at = l => r.prior = machine[l]
    <2>1. r \in Captured /\ r.at = a.at
      BY <1>1, CaptureIsCaptured
    <2>2. ASSUME a.at = l
          PROVE  r.prior = machine[l]
      <3>1. ~Undecodable(a, machine[a.at])
        BY <2>2 DEF PerformOk
      <3>. QED  BY <1>1, <2>2, <3>1, CaptureIsCaptured
    <2>. QED  BY <2>1, <2>2
  <1>4. \A d \in Command \ {c} : pc'[d] = pc[d] /\ captured'[d] = captured[d]
    BY StepIsLocal DEF Step, OthersRest
  <1>5. /\ captured'[c] = Append(captured[c], r)
        /\ DOMAIN captured'[c] = DOMAIN captured[c] \cup {n}
        /\ \A i \in DOMAIN captured[c] : captured'[c][i] = captured[c][i]
        /\ captured'[c][n] = r
        /\ n \notin DOMAIN captured[c]
    <2>1. captured'[c] = Append(captured[c], r)
      BY <1>2 DEF TypeOK
    <2>2. captured[c] \in Seq(Captured) /\ r \in Captured
      BY <1>1, <1>3
    <2>3. ASSUME NEW s \in Seq(Captured), NEW x \in Captured
          PROVE  /\ DOMAIN Append(s, x) = DOMAIN s \cup {Len(s) + 1}
                 /\ \A i \in DOMAIN s : Append(s, x)[i] = s[i]
                 /\ Append(s, x)[Len(s) + 1] = x
                 /\ Len(s) + 1 \notin DOMAIN s
      OBVIOUS
    <2>. HIDE DEF r
    <2>. QED  BY <2>1, <2>2, <2>3
  <1>6. /\ \A d \in Command, t \in Tweak, at \in Stamp :
             (Making(d, t, at))' <=> Making(d, t, at)
        /\ \A t \in Tweak, at \in Stamp : Active(t, at)' <=> Active(t, at)
        /\ Making(c, cur[c], stamp[c])
    BY <1>1, <1>2, <1>4 DEF Making, Applying, Active
  <1>7. CASE l = a.at
    <2>1. ASSUME NEW t \in Tweak, NEW at \in Stamp, NEW i \in Index(t)
          PROVE  HasCapture(l, t, at, i)' <=>
                   HasCapture(l, t, at, i) \/ (t = cur[c] /\ at = stamp[c] /\ i = n)
      BY <1>2, <1>3, <1>4, <1>5, <1>6, <1>7 DEF HasCapture, Making
    <2>2. ASSUME NEW t \in Tweak, NEW at \in Stamp, NEW i \in Index(t), NEW s
          PROVE  CaptureSays(l, t, at, i, s)' <=>
                   \/ CaptureSays(l, t, at, i, s)
                   \/ t = cur[c] /\ at = stamp[c] /\ i = n /\ s = machine[l]
      BY <1>2, <1>3, <1>4, <1>5, <1>6, <1>7 DEF CaptureSays, Making
    <2>3. CaptureAdded(l, cur[c], stamp[c], n)
      BY <2>1, <2>2 DEF CaptureAdded
    <2>4. AtWork(c)
      BY <1>1, <1>7 DEF AtWork, InOrder
    <2>. QED  BY <1>7, <2>3, <2>4 DEF PerformOk, LocationStep, Added
  <1>8. CASE l # a.at
    <2>1. ASSUME NEW t \in Tweak, NEW at \in Stamp, NEW i \in Index(t)
          PROVE  HasCapture(l, t, at, i)' <=> HasCapture(l, t, at, i)
      BY <1>2, <1>3, <1>4, <1>5, <1>6, <1>8 DEF HasCapture
    <2>2. ASSUME NEW t \in Tweak, NEW at \in Stamp, NEW i \in Index(t), NEW s
          PROVE  CaptureSays(l, t, at, i, s)' <=> CaptureSays(l, t, at, i, s)
      BY <1>2, <1>3, <1>4, <1>5, <1>6, <1>8 DEF CaptureSays
    <2>3. SameCaptures(l)
      BY <2>1, <2>2 DEF SameCaptures
    <2>4. machine'[l] = machine[l]
      BY <1>1, <1>2, <1>8 DEF TypeOK, IsMachine, Reversible, Location
    <2>. QED  BY <2>3, <2>4 DEF LocationStep, Quiet
  <1>. QED  BY <1>7, <1>8

(* Writing the entry moves the captures from the command to the file.      *)
LEMMA WriteKeeps ==
  ASSUME Ordered, NEW c \in Command, cur[c] \notin Disordered, WriteEntry(c), captured[c] # << >>,
         NEW l \in Reversible \ orphaned'
  PROVE  LocationStep(l)
  <1>. USE DEF Ordered, Structure
  <1>1. /\ cur[c] \in Tweak /\ stamp[c] \in Stamp /\ captured[c] \in Seq(Captured)
        /\ Applying(c) /\ Holds(c, cur[c])
        /\ cur[c] \notin misdated /\ cur[c] \notin contended
    BY Holding DEF WriteEntry, Applying, Disordered, TypeOK
  <1>2. /\ UNCHANGED <<machine, baseline>>
        /\ journal' = Write(c, Entry(captured[c]))
        /\ ~Applying(c)'
    BY DEF WriteEntry, EndTweak, history, TypeOK, Applying
  <1>3. \A d \in Command \ {c} :
          pc'[d] = pc[d] /\ cur'[d] = cur[d] /\ stamp'[d] = stamp[d] /\ captured'[d] = captured[d]
    BY StepIsLocal DEF Step, OthersRest
  <1>4. \A t \in Tweak, at \in Stamp : journal'[t][at] =
          IF t = cur[c] /\ at = stamp[c] THEN Entry(captured[c]) ELSE journal[t][at]
    BY <1>1, <1>2, WriteType, FileTypes
  <1>5. \A d \in Command : Making(d, cur[c], stamp[c]) => d = c
    BY <1>1, Holding DEF HoldersDiffer, Making
  <1>6. ASSUME NEW t \in Tweak, NEW at \in Stamp, NEW i \in Index(t), t = cur[c], at = stamp[c]
        PROVE  /\ HasCapture(l, t, at, i)' <=> HasCapture(l, t, at, i)
               /\ \A s : CaptureSays(l, t, at, i, s)' <=> CaptureSays(l, t, at, i, s)
    <2>1. ~Active(t, at)
      BY <1>1, <1>6 DEF TimeGrows, Forward, Applying, Exists, Active
    <2>2. journal'[t][at] = Entry(captured[c])
      BY <1>4, <1>6
    <2>3. Active(t, at)' /\ journal'[t][at].actions = captured[c]
      BY <2>2 DEF Active, Entry
    <2>4. \A d \in Command : ~(Making(d, t, at))'
      BY <1>2, <1>3, <1>5, <1>6 DEF Making, Applying
    <2>5. \A d \in Command : Making(d, t, at) <=> d = c
      BY <1>1, <1>5, <1>6 DEF Making
    <2>. QED  BY <1>2, <2>1, <2>3, <2>4, <2>5 DEF HasCapture, CaptureSays
  <1>7. ASSUME NEW t \in Tweak, NEW at \in Stamp, NEW i \in Index(t), ~(t = cur[c] /\ at = stamp[c])
        PROVE  /\ HasCapture(l, t, at, i)' <=> HasCapture(l, t, at, i)
               /\ \A s : CaptureSays(l, t, at, i, s)' <=> CaptureSays(l, t, at, i, s)
    <2>1. journal'[t][at] = journal[t][at]
      BY <1>4, <1>7
    <2>2. \A d \in Command : (Making(d, t, at))' <=> Making(d, t, at)
      BY <1>2, <1>3, <1>7 DEF Making, Applying
    <2>3. \A d \in Command : Making(d, t, at) => captured'[d] = captured[d]
      BY <1>3, <1>7 DEF Making
    <2>. QED  BY <1>2, <2>1, <2>2, <2>3 DEF HasCapture, CaptureSays, Active
  <1>8. SameCaptures(l)
    BY <1>6, <1>7 DEF SameCaptures
  <1>. QED  BY <1>2, <1>8 DEF LocationStep, Quiet

(* An entry that cannot be written loses captures of orphaned locations,   *)
(* and touches no other.                                                   *)
LEMMA WriteFailsKeeps ==
  ASSUME Ordered, NEW c \in Command, cur[c] \notin Disordered, WriteFails(c),
         NEW l \in Reversible \ orphaned'
  PROVE  LocationStep(l)
  <1>. USE DEF Ordered, Structure
  <1>1. /\ cur[c] \in Tweak /\ stamp[c] \in Stamp /\ captured[c] \in Seq(Captured)
        /\ Applying(c)
    BY Holding DEF WriteFails, Applying, TypeOK
  <1>2. /\ UNCHANGED <<machine, baseline>>
        /\ journal' \in {journal, Write(c, TornFile)}
        /\ ~Applying(c)'
        /\ \A i \in DOMAIN captured[c] : captured[c][i].at # l
    BY DEF WriteFails, EndTweak, history, TypeOK, Applying, Located
  <1>3. \A d \in Command \ {c} :
          pc'[d] = pc[d] /\ cur'[d] = cur[d] /\ stamp'[d] = stamp[d] /\ captured'[d] = captured[d]
    BY StepIsLocal DEF Step, OthersRest
  <1>4. \A t \in Tweak, at \in Stamp :
          \/ journal'[t][at] = journal[t][at]
          \/ t = cur[c] /\ at = stamp[c] /\ journal'[t][at] = TornFile
    <2>1. \A t \in Tweak, at \in Stamp :
            Write(c, TornFile)[t][at] =
              IF t = cur[c] /\ at = stamp[c] THEN TornFile ELSE journal[t][at]
      BY <1>1, WriteType, FileTypes
    <2>. QED  BY <1>2, <2>1
  <1>5. \A i \in Index(cur[c]) : \A p :
          ~HasCapture(l, cur[c], stamp[c], i) /\ ~CaptureSays(l, cur[c], stamp[c], i, p)
    BY <1>1, <1>2, OwnCaptures DEF CapturedAt, AtWork
  <1>6. ASSUME NEW t \in Tweak, NEW at \in Stamp, NEW i \in Index(t)
        PROVE  /\ HasCapture(l, t, at, i)' <=> HasCapture(l, t, at, i)
               /\ \A s : CaptureSays(l, t, at, i, s)' <=> CaptureSays(l, t, at, i, s)
    <2>1. \A d \in Command : (Making(d, t, at))' => d # c /\ Making(d, t, at)
      BY <1>2, <1>3 DEF Making, Applying
    <2>2. \A d \in Command : Making(d, t, at) /\ d # c =>
            (Making(d, t, at))' /\ captured'[d] = captured[d]
      BY <1>3 DEF Making, Applying
    <2>3. CASE journal'[t][at] = journal[t][at]
      BY <1>2, <1>3, <2>1, <2>2, <2>3 DEF HasCapture, CaptureSays, Active
    <2>4. CASE t = cur[c] /\ at = stamp[c] /\ journal'[t][at] = TornFile
      <3>1. ~HasCapture(l, t, at, i) /\ \A s : ~CaptureSays(l, t, at, i, s)
        BY <1>5, <2>4
      <3>2. ~Active(t, at)'
        BY <2>4 DEF Active, TornFile
      <3>3. ~HasCapture(l, t, at, i)' /\ \A s : ~CaptureSays(l, t, at, i, s)'
        BY <2>1, <2>2, <3>1, <3>2 DEF HasCapture, CaptureSays
      <3>. QED  BY <3>1, <3>3
    <2>. QED  BY <1>4, <2>3, <2>4
  <1>7. SameCaptures(l)
    BY <1>6 DEF SameCaptures
  <1>. QED  BY <1>2, <1>7 DEF LocationStep, Quiet

(* A location that a command at work has a capture of.                     *)
LEMMA CoveredIsKept ==
  ASSUME Ordered, NEW l, Covered(l)
  PROVE  ~Unkept(l)
  <1>1. PICK c \in Command : AtWork(c) /\ \E k : CapturedAt(c, l, k)
    BY DEF Covered
  <1>2. PICK k : CapturedAt(c, l, k)
    BY <1>1
  <1>3. HasCapture(l, cur[c], stamp[c], k)
    BY <1>1, <1>2, OwnCaptures
  <1>4. cur[c] \in Tweak /\ stamp[c] \in Stamp
    BY <1>1, Holding DEF AtWork, Ordered, Structure, TypeOK
  <1>5. k \in Index(cur[c])
    BY <1>3, <1>4, CaptureIsOf DEF Ordered
  <1>. QED  BY <1>3, <1>4, <1>5 DEF Unkept

(* The capture an action adds is the latest of its location.               *)
LEMMA AddRecovers ==
  ASSUME CatalogIsDisjoint, Ordered, NEW l \in Location, UNCHANGED baseline, Added(l),
         Recoverable(l)
  PROVE  Recoverable(l)'
  <1>. USE DEF Ordered, Structure
  <1>1. PICK c \in Command :
          /\ pc[c] = "perform" /\ AtWork(c)
          /\ NextAction(c).at = l
          /\ CaptureAdded(l, cur[c], stamp[c], Len(captured[c]) + 1)
    BY DEF Added
  <1>. DEFINE n == Len(captured[c]) + 1
  <1>2. /\ cur[c] \in Tweak /\ stamp[c] \in Stamp /\ n \in Index(cur[c]) /\ n \in Nat
        /\ Catalog[cur[c]][n].at = l /\ captured[c] \in Seq(Captured) /\ AtWork(c)
    BY <1>1, NextActionType DEF NextAction, TypeOK, Applying
  <1>3. ASSUME NEW t \in Tweak, NEW at \in Stamp, NEW i \in Index(t), HasCapture(l, t, at, i)
        PROVE  at < stamp[c] \/ (at = stamp[c] /\ i <= n)
    <2>1. t = cur[c] /\ at <= stamp[c]
      BY <1>2, <1>3, OwnAreLatest
    <2>2. CASE at = stamp[c]
      <3>1. HasCapture(l, cur[c], stamp[c], i)
        BY <1>3, <2>1, <2>2
      <3>2. CapturedAt(c, l, i)
        BY <1>2, <3>1, OwnCaptures, Zenon
      <3>. QED  BY <1>2, <2>2, <3>2 DEF CapturedAt
    <2>3. at \in Nat /\ stamp[c] \in Nat
      BY <1>2, BoundsAssumption DEF Stamp
    <2>. QED  BY <2>1, <2>2, <2>3
  <1>4. CaptureAdded(l, cur[c], stamp[c], n)
    BY <1>1
  <1>5. ASSUME NEW u \in Tweak, NEW b \in Stamp, u = cur[c], b = stamp[c],
               NEW k \in Index(u), k = n
        PROVE  Recoverable(l)'
    <2>1. CaptureAdded(l, u, b, k)
      BY <1>4, <1>5, Zenon
    <2>2. \A t \in Tweak, at \in Stamp : \A i \in Index(t) :
            HasCapture(l, t, at, i) => at < b \/ (at = b /\ i <= k)
      BY <1>3, <1>5, Zenon
    <2>. QED  BY <2>1, <2>2, AddedRecoverable
  <1>. HIDE DEF n
  <1>. QED  BY <1>2, <1>5

(* Dropping the entry of a revert that is through with its plan.           *)
LEMMA MarkDrops ==
  ASSUME CatalogIsDisjoint, Ordered, NEW c \in Command, pc[c] = "mark", AtWork(c),
         NEW l \in Location, l \in Reversible, l \notin failures[c],
         UNCHANGED baseline, machine'[l] = machine[l],
         CapturesDropped(l, cur[c], stamp[c]), Recoverable(l)
  PROVE  Recoverable(l)'
  <1>1. Reverting(c) /\ AtWork(c) /\ cur[c] \notin Disordered /\ left[c] = 0
    BY DEF Ordered, Structure, CommandShape, Reverting, AtWork
  <1>2. cur[c] \in Tweak /\ stamp[c] \in Stamp
    BY <1>1, Holding DEF Ordered, Structure, TypeOK
  <1>3. captured[c] \in Seq(Captured) /\ Fits(captured[c], cur[c])
        /\ DOMAIN captured[c] \subseteq Index(cur[c])
    BY <1>1, RevertFits DEF Ordered
  <1>4. CASE \E k : CapturedAt(c, l, k)
    <2>1. PICK k \in DOMAIN captured[c] : captured[c][k].at = l
      BY <1>4, Zenon DEF CapturedAt
    <2>2. k \in Index(cur[c]) /\ Catalog[cur[c]][k].at = l
      BY <1>3, <2>1 DEF Fits
    <2>3. \A t \in Tweak, at \in Stamp : \A i \in Index(t) :
            HasCapture(l, t, at, i) => t = cur[c] /\ at <= stamp[c]
      BY <1>1, <2>2, OwnAreLatest
    <2>4. PICK i \in DOMAIN captured[c] : RestoredTo(c, l, i)
      <3>1. k \in left[c] + 1 .. Len(captured[c])
        BY <1>1, <1>3
      <3>2. DOMAIN captured[c] = left[c] + 1 .. Len(captured[c])
        BY <1>1, <1>3
      <3>. QED  BY <1>1, <2>1, <3>1, <3>2 DEF Ordered, RevertProgress
    <2>5. HasCapture(l, cur[c], stamp[c], i)
      BY <1>1, <2>4, OwnCaptures DEF RestoredTo, CapturedAt
    <2>6. ASSUME NEW j \in Index(cur[c]), Oldest(l, cur[c], stamp[c], j),
                 CaptureSays(l, cur[c], stamp[c], j, baseline[l])
          PROVE  machine[l] = baseline[l]
      <3>1. /\ j \in DOMAIN captured[c] /\ captured[c][j].at = l
            /\ captured[c][j].prior = baseline[l]
        <4>1. CapturedAt(c, l, j) /\ captured[c][j].prior = baseline[l]
          <5>1. \A p : CaptureSays(l, cur[c], stamp[c], j, p) =>
                    CapturedAt(c, l, j) /\ captured[c][j].prior = p
            BY <1>1, OwnCaptures, ZenonT(40)
          <5>. QED  BY <2>6, <5>1, Zenon
        <4>. QED  BY <4>1 DEF CapturedAt
      <3>2. i \in Index(cur[c]) /\ i \in Nat /\ j \in Nat /\ stamp[c] \in Nat
        BY <1>2, <1>3, BoundsAssumption DEF Index, Stamp
      <3>3. j <= i
        BY <1>2, <2>5, <2>6, <3>2 DEF Oldest
      <3>4. i <= j
        BY <1>1, <1>3, <2>4, <3>1 DEF RestoredTo
      <3>. QED  BY <2>4, <3>1, <3>2, <3>3, <3>4 DEF RestoredTo
    <2>. QED  BY <1>2, <2>3, <2>6, DroppedRecoverable
  <1>5. CASE \A k : ~CapturedAt(c, l, k)
    <2>1. \A i : ~HasCapture(l, cur[c], stamp[c], i)
      BY <1>1, <1>5, OwnCaptures
    <2>2. \A i, p : ~CaptureSays(l, cur[c], stamp[c], i, p)
      BY <1>1, <1>5, OwnCaptures
    <2>3. SameCaptures(l)
      BY <2>1, <2>2 DEF CapturesDropped, SameCaptures
    <2>. QED  BY <2>3, SameRecoverable
  <1>. QED  BY <1>4, <1>5

LEMMA MarkTakesAway ==
  ASSUME Ordered, NEW c \in Command, cur[c] \notin Disordered,
         MarkReverted(c) \/ MarkFails(c), journal' # journal,
         NEW l \in Reversible \ orphaned'
  PROVE  LocationStep(l)
  <1>. USE DEF Ordered, Structure
  <1>1. /\ cur[c] \in Tweak /\ stamp[c] \in Stamp /\ captured[c] \in Seq(Captured)
        /\ pc[c] = "mark" /\ Reverting(c) /\ Holds(c, cur[c])
        /\ AtWork(c) /\ cur[c] \notin contended
    BY Holding DEF MarkReverted, MarkFails, Reverting, AtWork, Disordered, TypeOK
  <1>2. /\ UNCHANGED <<machine, baseline>>
        /\ journal' \in {Write(c, Undone(captured[c])), Write(c, TornFile)}
        /\ l \notin failures[c]
        /\ ~Applying(c) /\ ~Applying(c)'
    BY DEF MarkReverted, MarkFails, history, TypeOK, Applying
  <1>3. \A d \in Command \ {c} :
          pc'[d] = pc[d] /\ cur'[d] = cur[d] /\ stamp'[d] = stamp[d] /\ captured'[d] = captured[d]
    BY StepIsLocal DEF Step, OthersRest
  <1>4. /\ \A t \in Tweak, at \in Stamp :
             ~(t = cur[c] /\ at = stamp[c]) => journal'[t][at] = journal[t][at]
        /\ journal'[cur[c]][stamp[c]] \in {Undone(captured[c]), TornFile}
    <2>1. Undone(captured[c]) \in File /\ TornFile \in File
      BY <1>1, FileTypes
    <2>2. PICK f \in {Undone(captured[c]), TornFile} : journal' = Write(c, f)
      BY <1>2
    <2>. QED  BY <1>1, <2>1, <2>2, WriteType
  <1>5. \A d \in Command, t \in Tweak, at \in Stamp :
          /\ (Making(d, t, at))' <=> Making(d, t, at)
          /\ Making(d, t, at) => captured'[d] = captured[d]
    BY <1>2, <1>3 DEF Making, Applying
  <1>6. ASSUME NEW t \in Tweak, NEW at \in Stamp, NEW i \in Index(t)
        PROVE  /\ HasCapture(l, t, at, i)' <=>
                    HasCapture(l, t, at, i) /\ ~(t = cur[c] /\ at = stamp[c])
               /\ \A s : CaptureSays(l, t, at, i, s)' <=>
                         CaptureSays(l, t, at, i, s) /\ ~(t = cur[c] /\ at = stamp[c])
    <2>1. CASE t = cur[c] /\ at = stamp[c]
      <3>1. journal'[t][at] \in {Undone(captured[c]), TornFile}
        BY <1>4, <2>1
      <3>2. ~Active(t, at)'
        BY <3>1 DEF Active, Undone, TornFile
      <3>3. \A d \in Command : ~(Making(d, t, at))'
        BY <1>1, <1>2, <1>5, <2>1, Holding DEF HoldersDiffer, Making
      <3>4. ~HasCapture(l, t, at, i)' /\ \A s : ~CaptureSays(l, t, at, i, s)'
        BY <3>2, <3>3 DEF HasCapture, CaptureSays
      <3>. QED  BY <2>1, <3>4
    <2>2. CASE ~(t = cur[c] /\ at = stamp[c])
      <3>1. journal'[t][at] = journal[t][at]
        BY <1>4, <2>2
      <3>. QED  BY <1>2, <1>5, <2>2, <3>1 DEF HasCapture, CaptureSays, Active
    <2>. QED  BY <2>1, <2>2
  <1>7. CapturesDropped(l, cur[c], stamp[c])
    BY <1>6 DEF CapturesDropped
  <1>8. machine'[l] = machine[l]
    BY <1>2
  <1>. QED  BY <1>1, <1>2, <1>7, <1>8 DEF LocationStep, Dropped

(* A crash loses the captures of a command that is applying, which are of  *)
(* orphaned locations, and may tear the file of a revert at its end.       *)
LEMMA CrashKeeps ==
  ASSUME CatalogIsDisjoint, Ordered, Crash, NEW l \in Reversible \ orphaned', InOrder(l)
  PROVE  LocationStep(l)
  <1>. USE DEF Ordered, Structure
  <1>1. PICK torn \in SUBSET {c \in Command : WritingFile(c, cur[c], stamp[c])} :
          /\ journal' = [t \in Tweak |-> [at \in Stamp |->
                IF \E c \in torn : WritingFile(c, t, at) THEN TornFile ELSE journal[t][at]]]
          /\ orphaned' = orphaned \cup
                {k \in Location : \E c \in Command : k \in Forgotten(c, torn)}
    BY DEF Crash
  <1>2. /\ l \in Location /\ l \in Reversible
        /\ \A c \in Command : l \notin Forgotten(c, torn)
        /\ UNCHANGED <<machine, baseline>>
        /\ \A c \in Command : ~Applying(c)'
    BY <1>1 DEF Crash, history, Reversible, Location, Applying
  <1>3. ASSUME NEW t \in Tweak, NEW at \in Stamp, NEW c \in Command
        PROVE  ~(Making(c, t, at))'
    BY <1>2 DEF Making
  <1>4. ASSUME NEW c \in Command, Applying(c), NEW i \in DOMAIN captured[c]
        PROVE  captured[c][i].at # l
    <2>1. l \notin Located(captured[c])
      BY <1>2, <1>4 DEF Forgotten
    <2>. QED  BY <1>4, <2>1 DEF Located
  <1>5. ASSUME NEW t \in Tweak, NEW at \in Stamp, NEW i,
               HasCapture(l, t, at, i)
        PROVE  Active(t, at) /\ t \notin Disordered
    <2>1. t \notin Disordered
      BY <1>5, CaptureIsOf DEF InOrder
    <2>. QED  BY <1>4, <1>5, <2>1 DEF HasCapture, Making
  <1>6. ASSUME NEW t \in Tweak \ Disordered, NEW at \in Stamp, Active(t, at),
               NEW c \in Command, WritingFile(c, t, at)
        PROVE  /\ pc[c] = "mark" /\ t = cur[c] /\ at = stamp[c]
               /\ Reverting(c) /\ AtWork(c)
    <2>1. t = cur[c] /\ at = stamp[c] /\ Holds(c, t)
      BY <1>6, Holding DEF WritingFile
    <2>2. CASE pc[c] = "journal"
      <3>1. at # stamp[c]
        BY <1>6, <2>1, <2>2 DEF TimeGrows, Forward, Exists, Active, Disordered
      <3>. QED  BY <2>1, <3>1
    <2>3. CASE pc[c] = "mark"
      BY <1>6, <2>1, <2>3 DEF Reverting, AtWork
    <2>. QED  BY <1>6, <2>2, <2>3 DEF WritingFile
  <1>7. ASSUME NEW t \in Tweak, NEW at \in Stamp,
               \A c \in torn : ~WritingFile(c, t, at)
        PROVE  \A i : /\ HasCapture(l, t, at, i)' <=> HasCapture(l, t, at, i)
                      /\ \A s : CaptureSays(l, t, at, i, s)' <=> CaptureSays(l, t, at, i, s)
    <2>1. journal'[t][at] = journal[t][at]
      BY <1>1, <1>7
    <2>. QED  BY <1>2, <1>3, <1>4, <2>1 DEF HasCapture, CaptureSays, Active, Making
  <1>8. ASSUME NEW t \in Tweak, NEW at \in Stamp, NEW c \in torn, WritingFile(c, t, at)
        PROVE  \A i : /\ ~HasCapture(l, t, at, i)'
                      /\ \A s : ~CaptureSays(l, t, at, i, s)'
    <2>1. journal'[t][at] = TornFile
      BY <1>1, <1>8
    <2>2. ~Active(t, at)'
      BY <2>1 DEF Active, TornFile
    <2>. QED  BY <1>3, <2>2 DEF HasCapture, CaptureSays
  <1>9. ASSUME NEW t \in Tweak, NEW at \in Stamp, NEW i, NEW p, CaptureSays(l, t, at, i, p)
        PROVE  HasCapture(l, t, at, i)
    BY <1>9 DEF CaptureSays, HasCapture
  <1>10. CASE \E t \in Tweak, at \in Stamp : \E i : \E c \in torn :
                WritingFile(c, t, at) /\ HasCapture(l, t, at, i)
    <2>0. PICK t \in Tweak, at \in Stamp, c \in torn :
            \E i : WritingFile(c, t, at) /\ HasCapture(l, t, at, i)
      BY <1>10
    <2>1. PICK i : WritingFile(c, t, at) /\ HasCapture(l, t, at, i)
      BY <2>0
    <2>2. /\ c \in Command /\ pc[c] = "mark" /\ t = cur[c] /\ at = stamp[c] /\ Reverting(c)
          /\ Holds(c, t) /\ AtWork(c) /\ t \notin contended
      BY <1>1, <1>5, <1>6, <2>1, Holding DEF Disordered
    <2>3. l \notin failures[c]
      BY <1>2, <2>1, <2>2 DEF Forgotten, Applying
    <2>4. i \in Index(t) /\ Catalog[t][i].at = l
      BY <2>1, CaptureIsOf
    <2>5. ASSUME NEW u \in Tweak, NEW b \in Stamp, NEW j \in Index(u), ~(u = t /\ b = at)
          PROVE  /\ HasCapture(l, u, b, j)' <=> HasCapture(l, u, b, j)
                 /\ \A s : CaptureSays(l, u, b, j, s)' <=> CaptureSays(l, u, b, j, s)
      <3>1. CASE \A d \in torn : ~WritingFile(d, u, b)
        BY <1>7, <3>1
      <3>2. ASSUME NEW d \in torn, WritingFile(d, u, b)
            PROVE  ~HasCapture(l, u, b, j)
        <4>. SUFFICES ASSUME HasCapture(l, u, b, j) PROVE FALSE
          OBVIOUS
        <4>1. Catalog[u][j].at = l
          BY CaptureIsOf
        <4>2. u = t
          BY <2>4, <4>1 DEF CatalogIsDisjoint
        <4>3. d \in Command /\ Holds(d, t) /\ b = stamp[d]
          BY <1>1, <3>2, <4>2, Holding DEF WritingFile
        <4>4. d = c
          BY <2>2, <4>3 DEF HoldersDiffer
        <4>. QED  BY <2>2, <2>5, <4>2, <4>3, <4>4
      <3>3. ASSUME NEW d \in torn, WritingFile(d, u, b)
            PROVE  /\ ~HasCapture(l, u, b, j)' /\ ~HasCapture(l, u, b, j)
                   /\ \A s : ~CaptureSays(l, u, b, j, s) /\ ~CaptureSays(l, u, b, j, s)'
        BY <1>8, <1>9, <3>2, <3>3
      <3>. QED  BY <3>1, <3>3
    <2>6. ASSUME NEW j \in Index(t)
          PROVE  ~HasCapture(l, t, at, j)' /\ \A s : ~CaptureSays(l, t, at, j, s)'
      BY <1>8, <2>1
    <2>7. CapturesDropped(l, t, at)
      BY <2>5, <2>6 DEF CapturesDropped
    <2>8. CapturesDropped(l, cur[c], stamp[c])
      BY <2>2, <2>7
    <2>. QED  BY <1>2, <2>2, <2>3, <2>8 DEF LocationStep, Dropped
  <1>11. CASE \A t \in Tweak, at \in Stamp : \A i : \A c \in torn :
                WritingFile(c, t, at) => ~HasCapture(l, t, at, i)
    <2>1. ASSUME NEW t \in Tweak, NEW at \in Stamp, NEW i \in Index(t)
          PROVE  /\ HasCapture(l, t, at, i)' <=> HasCapture(l, t, at, i)
                 /\ \A s : CaptureSays(l, t, at, i, s)' <=> CaptureSays(l, t, at, i, s)
      <3>1. CASE \A c \in torn : ~WritingFile(c, t, at)
        BY <1>7, <3>1
      <3>2. ASSUME NEW c \in torn, WritingFile(c, t, at)
            PROVE  /\ ~HasCapture(l, t, at, i)' /\ ~HasCapture(l, t, at, i)
                   /\ \A s : ~CaptureSays(l, t, at, i, s) /\ ~CaptureSays(l, t, at, i, s)'
        <4>1. ~HasCapture(l, t, at, i)
          BY <1>11, <3>2
        <4>. QED  BY <1>8, <1>9, <3>2, <4>1
      <3>. QED  BY <3>1, <3>2
    <2>2. SameCaptures(l)
      BY <2>1 DEF SameCaptures
    <2>. QED  BY <1>2, <2>2 DEF LocationStep, Quiet
  <1>. QED  BY <1>10, <1>11

-----------------------------------------------------------------------------
(* Every step of the engine, with whatever fails in it.                    *)

LEMMA InitOrdered == Init => EngineInvariant /\ UndoReachesBaseline
  <1>. SUFFICES ASSUME Init PROVE EngineInvariant /\ UndoReachesBaseline
    OBVIOUS
  <1>1. Structure
    BY InitStructure
  <1>2. \A c \in Command : pc[c] = "idle" /\ captured[c] = << >>
    BY DEF Init
  <1>3. HoldersDiffer /\ TimeGrows /\ RevertSource /\ RevertProgress /\ UndoIsOfAll
    BY DEF Init, HoldersDiffer, TimeGrows, RevertSource, RevertProgress, UndoIsOfAll, Holds, Working,
       Forward, Reverting, Exists, NoFile
  <1>4. \A t \in Tweak, at \in Stamp : ~Active(t, at)
    BY DEF Init, Active, NoFile
  <1>5. \A l : \A t \in Tweak, at \in Stamp : \A i : ~HasCapture(l, t, at, i)
    BY <1>2, <1>4 DEF HasCapture, Making, Applying
  <1>6. UndoReachesBaseline
    BY <1>5 DEF Init, UndoReachesBaseline, Recoverable, Unkept
  <1>. QED  BY <1>1, <1>3, <1>6 DEF EngineInvariant, Structure

(* A command does nothing to the captures of a location that is not of its *)
(* tweak, nor to what it holds.                                            *)
LEMMA Elsewhere ==
  ASSUME Structure, Structure', NEW c \in Command, Step(c), Applying(c) \/ Reverting(c),
         UNCHANGED baseline, NEW l \in Location,
         \A i \in Index(cur[c]) : Catalog[cur[c]][i].at # l
  PROVE  Quiet(l)
  <1>1. machine'[l] = machine[l]
    BY MachineStep
  <1>2. \A d \in Command \ {c} : UNCHANGED <<pc[d], cur[d], stamp[d], captured[d]>>
    BY StepIsLocal DEF OthersRest, Structure
  <1>3. ASSUME Applying(c)'
        PROVE  cur'[c] = cur[c]
    BY <1>3, StaysOnTweak
  <1>4. ASSUME NEW t \in Tweak, NEW at \in Stamp, NEW i \in Index(t), t # cur[c]
        PROVE  /\ HasCapture(l, t, at, i)' <=> HasCapture(l, t, at, i)
               /\ \A s : CaptureSays(l, t, at, i, s)' <=> CaptureSays(l, t, at, i, s)
    <2>1. journal'[t][at] = journal[t][at]
      <3>1. ASSUME journal'[t][at] # journal[t][at]
            PROVE  FALSE
        <4>1. PICK d \in Command : WritingFile(d, t, at) /\ ~Holds(d, t)'
          BY <3>1, JournalStep DEF Next
        <4>2. d # c /\ Holds(d, t)
          BY <1>4, <4>1, Holding DEF WritingFile
        <4>. QED  BY <4>1, <4>2, StepIsLocal DEF OthersRest, Structure, Holds, Working
      <3>. QED  BY <3>1
    <2>2. \A d \in Command : /\ (Making(d, t, at))' <=> Making(d, t, at)
                             /\ Making(d, t, at) => captured'[d] = captured[d]
      BY <1>2, <1>3, <1>4 DEF Making, Applying
    <2>. QED  BY <2>1, <2>2 DEF HasCapture, CaptureSays, Active
  <1>5. ASSUME NEW t \in Tweak, NEW at \in Stamp, NEW i \in Index(t), t = cur[c]
        PROVE  ~HasCapture(l, t, at, i) /\ ~HasCapture(l, t, at, i)'
    BY <1>5, AllAreOf, AllAreOfNext DEF CapturesAreOf
  <1>6. ASSUME NEW t \in Tweak, NEW at \in Stamp, NEW i \in Index(t), t = cur[c], NEW s
        PROVE  ~CaptureSays(l, t, at, i, s) /\ ~CaptureSays(l, t, at, i, s)'
    BY <1>5, <1>6 DEF HasCapture, CaptureSays
  <1>7. SameCaptures(l)
    BY <1>4, <1>5, <1>6 DEF SameCaptures
  <1>. QED  BY <1>1, <1>7 DEF Quiet

LEMMA EachLocation ==
  ASSUME CatalogIsDisjoint, Ordered, [Next]_vars, NEW l \in Reversible \ Lost'
  PROVE  LocationStep(l)
  <1>0. /\ l \in Location /\ l \in Reversible \ orphaned' /\ InOrder(l)
        /\ Structure /\ Structure' /\ UNCHANGED baseline
    BY NotLost, HistoryGrows, NextType, NextShape, NextFits DEF Ordered, Structure
  <1>1. ASSUME NEW c \in Command, Step(c) \/ User(c)
        PROVE  LocationStep(l)
    <2>1. CASE PerformOk(c)
      BY <1>0, <2>1, PerformAdds
    <2>2. CASE \/ \E batch \in SUBSET Tweak : StartApply(c, batch)
               \/ \E t \in Tweak, at \in Stamp : StartRevert(c, t, at)
               \/ \E t \in Tweak : BeginTweak(c, t)
               \/ PerformDenied(c) \/ ServiceHalfDone(c) \/ ReplyLost(c)
               \/ FinishApply(c) \/ NoHelper(c)
               \/ SkipIrreversible(c) \/ RestoreOk(c) \/ RestoreFails(c)
               \/ MarkFails(c) /\ UNCHANGED journal
               \/ WriteEntry(c) /\ captured[c] = << >>
      BY <1>0, <2>2, QuietSteps
    <2>3. ASSUME cur[c] \in Disordered, WriteEntry(c) \/ WriteFails(c) \/ MarkReverted(c) \/ MarkFails(c)
          PROVE  LocationStep(l)
      <3>1. (Applying(c) \/ Reverting(c)) /\ Step(c)
        BY <2>3 DEF WriteEntry, WriteFails, MarkReverted, MarkFails, Applying, Reverting, Step
      <3>2. cur[c] \in Tweak
        BY <1>0, <3>1, Holding
      <3>3. \A i \in Index(cur[c]) : Catalog[cur[c]][i].at # l
        BY <1>0, <2>3, <3>2 DEF InOrder
      <3>. QED  BY <1>0, <3>1, <3>3, Elsewhere DEF LocationStep
    <2>4. ASSUME cur[c] \notin Disordered
          PROVE  LocationStep(l)
      <3>1. CASE WriteEntry(c) /\ captured[c] # << >>
        BY <1>0, <2>4, <3>1, WriteKeeps
      <3>2. CASE WriteFails(c)
        BY <1>0, <2>4, <3>2, WriteFailsKeeps
      <3>3. CASE (MarkReverted(c) \/ MarkFails(c)) /\ journal' # journal
        BY <1>0, <2>4, <3>3, MarkTakesAway
      <3>4. CASE MarkReverted(c) /\ journal' = journal
        <4>1. pc[c] = "mark" /\ Reverting(c) /\ cur[c] \in Tweak
          BY <3>4, Holding DEF MarkReverted, Reverting, Ordered
        <4>2. captured[c] \in Seq(Captured) /\ stamp[c] \in Stamp
          BY DEF Ordered, Structure, TypeOK
        <4>3. journal'[cur[c]][stamp[c]] = Undone(captured[c])
          <5>1. Undone(captured[c]) \in File
            BY <4>2, FileTypes
          <5>2. TypeOK /\ journal' = Write(c, Undone(captured[c]))
            BY <3>4 DEF MarkReverted, Ordered, Structure
          <5>. QED  BY <4>1, <4>2, <5>1, <5>2, WriteType
        <4>4. journal[cur[c]][stamp[c]] = Entry(captured[c])
          BY <2>4, <4>1 DEF Ordered, RevertSource, Disordered
        <4>. QED  BY <3>4, <4>3, <4>4 DEF Undone, Entry
      <3>. QED  BY <1>1, <2>1, <2>2, <3>1, <3>2, <3>3, <3>4 DEF Step, User
    <2>. QED  BY <1>1, <2>1, <2>2, <2>3, <2>4 DEF Step, User
  <1>2. CASE Crash
    BY <1>0, <1>2, CrashKeeps
  <1>3. CASE UNCHANGED vars
    <2>1. /\ UNCHANGED <<journal, baseline, machine>>
          /\ \A c \in Command :
               UNCHANGED <<cur[c], stamp[c], captured[c]>> /\ (Keeps(c)' <=> Keeps(c))
      BY <1>3 DEF vars, cmdVars, history, Keeps, Applying
    <2>2. SameCaptures(l)
      BY <2>1, KeptCaptures DEF Ordered, Structure
    <2>. QED  BY <2>1, <2>2 DEF LocationStep, Quiet
  <1>. QED  BY <1>1, <1>2, <1>3 DEF Next

LEMMA NextUndo ==
  ASSUME CatalogIsDisjoint, Ordered, UndoReachesBaseline, [Next]_vars
  PROVE  UndoReachesBaseline'
  <1>. SUFFICES ASSUME NEW l \in Reversible \ Lost'
                PROVE  Recoverable(l)'
    BY DEF UndoReachesBaseline
  <1>1. Recoverable(l) /\ l \in Location /\ baseline' = baseline
    BY NotLost, HistoryGrows DEF UndoReachesBaseline
  <1>2. LocationStep(l)
    BY EachLocation
  <1>3. CASE Quiet(l)
    <2>1. ASSUME Covered(l) PROVE ~Unkept(l)
      BY <2>1, CoveredIsKept
    <2>. QED  BY <1>1, <1>3, <2>1, SameRecoverable DEF Quiet
  <1>4. CASE Dropped(l)
    BY <1>1, <1>4, MarkDrops DEF Dropped
  <1>5. CASE Added(l)
    BY <1>1, <1>5, AddRecovers
  <1>. QED  BY <1>2, <1>3, <1>4, <1>5 DEF LocationStep

-----------------------------------------------------------------------------
(* What a step may do to the journal.  This needs no assumption at all.    *)

Sequenced == Structure /\ HoldersDiffer /\ TimeGrows /\ RevertSource

LEMMA InitSequenced == Init => Sequenced
  BY InitOrdered, InitStructure DEF Sequenced, EngineInvariant

LEMMA NextSequenced == Sequenced /\ [Next]_vars => Sequenced'
  BY NextType, NextShape, NextFits, NextHoldersDiffer, NextTimeGrows, NextRevertSource
  DEF Sequenced, Structure

LEMMA SpecSequenced == Spec => []Sequenced
  BY InitSequenced, NextSequenced, PTL DEF Spec

(* A file that is there changes only at the end of a revert of it.         *)
LEMMA EntryStep ==
  ASSUME Sequenced, [Next]_vars, NEW t \in Tweak \ misdated, NEW at \in Stamp,
         Exists(t, at), journal'[t][at] # journal[t][at]
  PROVE  \E c \in Command :
           /\ WritingFile(c, t, at)
           /\ pc[c] = "mark" /\ cur[c] = t /\ stamp[c] = at /\ Reverting(c)
           /\ journal[t][at] \in {Entry(captured[c]), Undone(captured[c]), TornFile}
           /\ t \notin contended => journal[t][at] = Entry(captured[c])
           /\ journal'[t][at] \in {Undone(captured[c]), TornFile}
  <1>1. PICK c \in Command :
          /\ WritingFile(c, t, at)
          /\ \/ pc[c] = "journal" /\ journal'[t][at] \in {Entry(captured[c]), TornFile}
             \/ pc[c] = "mark" /\ journal'[t][at] \in {Undone(captured[c]), TornFile}
    BY JournalStep DEF Sequenced
  <1>2. t = cur[c] /\ at = stamp[c] /\ Holds(c, t)
    BY <1>1, Holding DEF WritingFile, Sequenced
  <1>3. pc[c] = "mark"
    BY <1>1, <1>2 DEF Sequenced, TimeGrows, Forward
  <1>4. Reverting(c)
    BY <1>3 DEF Reverting
  <1>5. /\ journal[t][at] \in {Entry(captured[c]), Undone(captured[c]), TornFile}
        /\ t \notin contended => journal[t][at] = Entry(captured[c])
    BY <1>2, <1>4 DEF Sequenced, RevertSource
  <1>. QED  BY <1>1, <1>2, <1>3, <1>4, <1>5

(* The captures in a journal file never change and what was undone stays   *)
(* undone, however many commands have to do with the tweak and wherever    *)
(* they crash, unless the clock is set back: no command can reach a file   *)
(* that is not its own (journal.rs:9, 65-70, 124-126).                     *)
THEOREM JournalIsHistory == Spec => HistoryIsKept
  <1>1. ASSUME Sequenced, [Next]_vars, NEW t \in Tweak \ misdated, NEW at \in Stamp,
               journal[t][at].state \in {"active", "reverted"}
        PROVE  \/ journal'[t][at] = journal[t][at]
               \/ /\ journal[t][at].state = "active"
                  /\ journal'[t][at] = Undone(journal[t][at].actions)
               \/ journal'[t][at] = TornFile /\ \E c \in Command : WritingFile(c, t, at)
    <2>. SUFFICES ASSUME journal'[t][at] # journal[t][at]
                  PROVE  \/ /\ journal[t][at].state = "active"
                            /\ journal'[t][at] = Undone(journal[t][at].actions)
                         \/ journal'[t][at] = TornFile /\ \E c \in Command : WritingFile(c, t, at)
      OBVIOUS
    <2>1. Exists(t, at)
      BY <1>1 DEF Exists
    <2>2. PICK c \in Command :
            /\ WritingFile(c, t, at)
            /\ journal[t][at] \in {Entry(captured[c]), Undone(captured[c]), TornFile}
            /\ journal'[t][at] \in {Undone(captured[c]), TornFile}
      BY <1>1, <2>1, EntryStep
    <2>3. CASE journal[t][at] = Entry(captured[c])
      <3>1. journal[t][at].state = "active" /\ journal[t][at].actions = captured[c]
        BY <2>3 DEF Entry
      <3>. QED  BY <2>2, <3>1
    <2>4. CASE journal[t][at] = Undone(captured[c])
      BY <2>2, <2>4
    <2>5. CASE journal[t][at] = TornFile
      BY <1>1, <2>5 DEF TornFile
    <2>. QED  BY <2>2, <2>3, <2>4, <2>5
  <1>2. Sequenced /\ [Next]_vars =>
          [\A t \in Tweak \ misdated, at \in Stamp :
             LET old == journal[t][at]
                 new == journal'[t][at] IN
             old.state \in {"active", "reverted"} =>
               \/ new = old
               \/ old.state = "active" /\ new = Undone(old.actions)
               \/ new = TornFile /\ \E c \in Command : WritingFile(c, t, at)]_vars
    BY <1>1
  <1>. QED  BY <1>2, SpecSequenced, PTL DEF Spec, HistoryIsKept

-----------------------------------------------------------------------------
(* What the user is told.                                                  *)

(* A success on the running batch's list belongs to a file that was        *)
(* written; the list is emptied when the batch ends.                       *)
Recorded(t, at) ==
  /\ Exists(t, at)
  /\ \/ journal[t][at].state = "torn"
     \/ Len(journal[t][at].actions) = Len(Catalog[t])
Told ==
  \A c \in Command : \A t \in applied[c] :
    Forward(c) /\ (t \notin misdated => Recorded(t, stamp[c]))

(* A batch reports nothing but what it has just written.                   *)
LEMMA ReportStep ==
  ASSUME Structure, [Next]_vars, NEW c \in Command, NEW t \in Tweak, t \in applied'[c]
  PROVE  \/ t \in applied[c] /\ (Forward(c) => Forward(c)')
         \/ WriteEntry(c) /\ Complete(c) /\ t = cur[c]
  <1>. USE DEF Structure, Forward
  <1>1. CASE WriteEntry(c)
    BY <1>1 DEF WriteEntry, EndTweak, TypeOK
  <1>2. CASE \/ \E u \in Tweak : BeginTweak(c, u)
             \/ PerformOk(c) \/ PerformDenied(c) \/ ServiceHalfDone(c) \/ ReplyLost(c)
             \/ WriteFails(c)
             \/ \E batch \in SUBSET Tweak : StartApply(c, batch)
    BY <1>2 DEF BeginTweak, PerformOk, PerformDenied, ServiceHalfDone, ReplyLost, WriteFails,
       EndTweak, StartApply, cmdVars, TypeOK
  <1>3. CASE \/ SkipIrreversible(c) \/ RestoreOk(c) \/ RestoreFails(c)
             \/ \E u \in Tweak, at \in Stamp : StartRevert(c, u, at)
    <2>1. pc[c] \in {"idle", "restore"} /\ UNCHANGED applied
      BY <1>3 DEF SkipIrreversible, RestoreOk, RestoreFails, PlanStep, StartRevert
    <2>. QED  BY <2>1
  <1>4. CASE FinishApply(c) \/ NoHelper(c) \/ MarkReverted(c) \/ MarkFails(c)
    BY <1>4 DEF FinishApply, NoHelper, MarkReverted, MarkFails, Rest, TypeOK
  <1>5. ASSUME NEW d \in Command \ {c}, Step(d) \/ User(d)
        PROVE  t \in applied[c] /\ pc'[c] = pc[c]
    <2>1. pc'[c] = pc[c]
      BY <1>5, StepIsLocal DEF OthersRest
    <2>2. CASE FinishApply(d) \/ NoHelper(d) \/ MarkReverted(d) \/ MarkFails(d) \/ WriteEntry(d)
      <3>1. applied \in [Command -> SUBSET Tweak] /\ d # c
        BY DEF TypeOK
      <3>2. \E s : applied' = [applied EXCEPT ![d] = s]
        <4>1. CASE WriteEntry(d)
          <5>1. CASE Complete(d)
            BY <4>1, <5>1 DEF WriteEntry
          <5>2. CASE ~Complete(d)
            <6>1. applied' = [applied EXCEPT ![d] = applied[d]]
              BY <3>1, <4>1, <5>2 DEF WriteEntry
            <6>. QED  BY <6>1
          <5>. QED  BY <5>1, <5>2
        <4>2. CASE FinishApply(d) \/ NoHelper(d) \/ MarkReverted(d) \/ MarkFails(d)
          BY <4>2 DEF FinishApply, NoHelper, MarkReverted, MarkFails, Rest
        <4>. QED  BY <2>2, <4>1, <4>2
      <3>3. applied'[c] = applied[c]
        BY <3>1, <3>2
      <3>. QED  BY <2>1, <3>3
    <2>3. CASE ~(FinishApply(d) \/ NoHelper(d) \/ MarkReverted(d) \/ MarkFails(d) \/ WriteEntry(d))
      <3>1. UNCHANGED applied
        BY <1>5, <2>3 DEF Step, User, BeginTweak, PerformOk, PerformDenied, ServiceHalfDone,
           ReplyLost, WriteFails, StartApply, SkipIrreversible, RestoreOk, RestoreFails, PlanStep,
           StartRevert, cmdVars
      <3>. QED  BY <2>1, <3>1
    <2>. QED  BY <2>2, <2>3
  <1>6. CASE Crash
    BY <1>6 DEF Crash
  <1>7. CASE UNCHANGED vars
    BY <1>7 DEF vars, cmdVars
  <1>. QED  BY <1>1, <1>2, <1>3, <1>4, <1>5, <1>6, <1>7 DEF Next, Step, User

LEMMA NextTold ==
  ASSUME Sequenced, UndoIsOfAll, Told, [Next]_vars
  PROVE  Told'
  <1>. SUFFICES ASSUME NEW c \in Command, NEW t \in Tweak, t \in applied'[c],
                       NEW at \in Stamp, at = stamp'[c]
                PROVE  Forward(c)' /\ (t \notin misdated' => Recorded(t, at)')
    <2>1. TypeOK'
      BY NextType DEF Sequenced, Structure
    <2>2. \A c \in Command : applied'[c] \subseteq Tweak /\ stamp'[c] \in Stamp
      BY <2>1 DEF TypeOK
    <2>. QED  BY <2>2 DEF Told, Recorded, Exists
  <1>1. CASE t \in applied[c] /\ (Forward(c) => Forward(c)')
    <2>1. Forward(c) /\ Forward(c)'
      BY <1>1 DEF Told
    <2>2. at = stamp[c]
      <3>1. ~\E batch \in SUBSET Tweak : StartApply(c, batch)
        BY <2>1 DEF StartApply, Forward
      <3>. QED  BY <2>1, <3>1, BatchTime DEF Sequenced
    <2>3. ASSUME t \notin misdated'
          PROVE  Recorded(t, at)'
      <3>1. t \notin misdated
        BY <2>3, HistoryGrows
      <3>2. Recorded(t, at)
        BY <1>1, <2>2, <3>1 DEF Told
      <3>3. CASE journal'[t][at] = journal[t][at]
        BY <3>2, <3>3 DEF Recorded, Exists
      <3>4. CASE journal'[t][at] # journal[t][at]
        <4>1. PICK d \in Command :
                /\ cur[d] = t /\ stamp[d] = at /\ Reverting(d)
                /\ journal'[t][at] \in {Undone(captured[d]), TornFile}
          BY <3>1, <3>2, <3>4, EntryStep DEF Recorded
        <4>2. Len(captured[d]) = Len(Catalog[t])
          BY <1>1, <2>2, <3>1, <4>1 DEF UndoIsOfAll
        <4>. QED  BY <4>1, <4>2 DEF Recorded, Exists, Undone, TornFile
      <3>. QED  BY <3>3, <3>4
    <2>. QED  BY <2>1, <2>3
  <1>2. CASE WriteEntry(c) /\ Complete(c) /\ t = cur[c]
    <2>1. captured[c] \in Seq(Captured) /\ Len(captured[c]) = Len(Catalog[t])
      BY <1>2 DEF Complete, Sequenced, Structure, TypeOK
    <2>2. captured[c] # << >>
      BY <2>1, CatalogType
    <2>3. /\ journal' = Write(c, Entry(captured[c])) /\ stamp'[c] = stamp[c]
          /\ pc'[c] = "next"
      BY <1>2, <2>2 DEF WriteEntry, EndTweak, Sequenced, Structure, TypeOK
    <2>4. journal'[t][at] = Entry(captured[c])
      BY <1>2, <2>1, <2>3, WriteType, FileTypes DEF Sequenced, Structure
    <2>. QED  BY <2>1, <2>3, <2>4 DEF Forward, Recorded, Exists, Entry
  <1>. QED  BY <1>1, <1>2, ReportStep DEF Sequenced

LEMMA NextUndoIsOfAll ==
  ASSUME Sequenced, UndoIsOfAll, Told, [Next]_vars
  PROVE  UndoIsOfAll'
  <1>. SUFFICES ASSUME NEW c \in Command, NEW d \in Command, Reverting(d)', NEW t, t = cur'[d],
                       t \in applied'[c] \ misdated', stamp'[d] = stamp'[c]
                PROVE  Len(captured'[d]) = Len(Catalog[t])
    BY DEF UndoIsOfAll
  <1>1. t \in Tweak /\ t \notin misdated
    <2>1. TypeOK'
      BY NextType DEF Sequenced, Structure
    <2>. QED  BY <2>1, HistoryGrows DEF TypeOK
  <1>2. ASSUME NEW at \in Stamp, StartRevert(d, t, at)
        PROVE  Len(captured'[d]) = Len(Catalog[t])
    <2>1. /\ stamp'[d] = at /\ captured'[d] = journal[t][at].actions /\ OthersRest(d)
          /\ journal[t][at] = Entry(captured'[d])
      BY <1>1, <1>2, RevertStarts DEF Sequenced
    <2>2. applied' = applied /\ pc[d] = "idle"
      BY <1>2 DEF StartRevert
    <2>3. Forward(c) /\ Recorded(t, stamp[c])
      BY <1>1, <2>2 DEF Told
    <2>4. c # d
      BY <2>2, <2>3 DEF Forward
    <2>5. stamp[c] = at
      BY <2>1, <2>4 DEF OthersRest
    <2>6. journal[t][at].state = "active"
      BY <2>1 DEF Entry
    <2>7. Len(journal[t][at].actions) = Len(Catalog[t])
      BY <2>3, <2>5, <2>6 DEF Recorded
    <2>. QED  BY <2>1, <2>7
  <1>3. ASSUME Reverting(d), UNCHANGED <<cur[d], stamp[d], captured[d]>>
        PROVE  Len(captured'[d]) = Len(Catalog[t])
    <2>1. CASE t \in applied[c] /\ (Forward(c) => Forward(c)')
      <3>1. Forward(c) /\ Forward(c)'
        BY <2>1 DEF Told
      <3>2. stamp'[c] = stamp[c]
        <4>1. ~\E batch \in SUBSET Tweak : StartApply(c, batch)
          BY <3>1 DEF StartApply, Forward
        <4>. QED  BY <3>1, <4>1, BatchTime DEF Sequenced
      <3>. QED  BY <1>1, <1>3, <2>1, <3>2 DEF UndoIsOfAll
    <2>2. CASE WriteEntry(c) /\ Complete(c) /\ t = cur[c]
      <3>1. pc[c] = "journal" /\ stamp'[c] = stamp[c]
        BY <2>2 DEF WriteEntry, EndTweak
      <3>2. Forward(c) /\ Holds(c, t)
        BY <2>2, <3>1 DEF Forward, Holds, Working
      <3>3. journal[t][stamp[d]] \in {Entry(captured[d]), Undone(captured[d]), TornFile}
        BY <1>1, <1>3 DEF Sequenced, RevertSource
      <3>4. Exists(t, stamp[d]) /\ stamp[d] \in Stamp
        BY <3>3 DEF Exists, Entry, Undone, TornFile, Sequenced, Structure, TypeOK
      <3>5. stamp[d] # stamp[c]
        BY <1>1, <3>2, <3>4 DEF Sequenced, TimeGrows
      <3>. QED  BY <1>3, <3>1, <3>5
    <2>. QED  BY <1>1, <2>1, <2>2, ReportStep DEF Sequenced
  <1>4. CASE \E u \in Tweak, at \in Stamp : StartRevert(d, u, at)
    <2>1. PICK u \in Tweak, at \in Stamp : StartRevert(d, u, at)
      BY <1>4
    <2>2. u = t
      BY <2>1, RevertStarts DEF Sequenced
    <2>. QED  BY <1>2, <2>1, <2>2
  <1>. QED  BY <1>3, <1>4, RevertGoesOn DEF Sequenced

LEMMA SpecTold == Spec => [](UndoIsOfAll /\ Told)
  <1>1. Init => UndoIsOfAll /\ Told
    BY InitOrdered DEF Init, Told, EngineInvariant
  <1>2. Sequenced /\ UndoIsOfAll /\ Told /\ [Next]_vars => (UndoIsOfAll /\ Told)'
    BY NextTold, NextUndoIsOfAll
  <1>. QED  BY <1>1, <1>2, SpecSequenced, PTL DEF Spec

(* The user is told that a tweak was applied only when there is a journal  *)
(* file with a capture of each of its actions (engine.rs:118-143), whoever *)
(* else has to do with the tweak; only an undo that runs into a full disk  *)
(* or a crash may tear it afterwards, or an application dated no later     *)
(* overwrite it.                                                           *)
THEOREM SuccessIsOnRecord == Spec => []SuccessIsJournalled
  <1>1. Told => SuccessIsJournalled
    BY DEF Told, Recorded, SuccessIsJournalled
  <1>. QED  BY <1>1, SpecTold, PTL

-----------------------------------------------------------------------------
(* What becomes of a command by a step that is one of those it takes.      *)
RunsDown(c) ==
  \/ ~Working(c)'
  \/ todo'[c] \subseteq todo[c] /\ todo'[c] # todo[c]
  \/ todo'[c] = todo[c] /\ StepsLeft(c)' \in 0 .. StepsLeft(c) - 1

LEMMA StepRunsDown ==
  ASSUME Structure, NEW c \in Command, Step(c)
  PROVE  RunsDown(c)
  <1>0. /\ pc \in [Command -> {"idle", "next", "perform", "journal", "restore", "mark"}]
        /\ todo \in [Command -> SUBSET Tweak] /\ left \in [Command -> Nat]
        /\ captured \in [Command -> Seq(Captured)]
    BY DEF Structure, TypeOK
  <1>1. CASE \E t \in Tweak : BeginTweak(c, t)
    BY <1>0, <1>1 DEF BeginTweak, RunsDown
  <1>2. CASE PerformOk(c)
    <2>1. /\ pc[c] = "perform" /\ todo' = todo /\ cur' = cur
          /\ pc'[c] = IF Len(captured[c]) + 1 = Len(Catalog[cur[c]]) THEN "journal" ELSE "perform"
      BY <1>0, <1>2 DEF PerformOk, Goto
    <2>2. Len(captured'[c]) = Len(captured[c]) + 1
      <3>1. captured'[c] = Append(captured[c], Capture(NextAction(c), machine[NextAction(c).at]))
        BY <1>0, <1>2 DEF PerformOk
      <3>. QED  BY <1>0, <3>1
    <2>3. cur[c] \in Tweak /\ Len(captured[c]) < Len(Catalog[cur[c]])
      BY <2>1, NextActionType DEF Structure, CommandShape
    <2>4. Len(captured[c]) \in Nat /\ Len(Catalog[cur[c]]) \in Nat
      BY <1>0, <2>3, CatalogType
    <2>5. StepsLeft(c) = Len(Catalog[cur[c]]) - Len(captured[c]) + 1
      BY <2>1 DEF StepsLeft
    <2>6. CASE Len(captured[c]) + 1 = Len(Catalog[cur[c]])
      <3>1. pc'[c] = "journal"
        BY <2>1, <2>6
      <3>2. StepsLeft(c)' = 1
        BY <3>1 DEF StepsLeft
      <3>. QED  BY <2>1, <2>4, <2>5, <2>6, <3>2 DEF RunsDown
    <2>7. CASE Len(captured[c]) + 1 # Len(Catalog[cur[c]])
      <3>1. pc'[c] = "perform"
        BY <2>1, <2>7
      <3>2. StepsLeft(c)' = Len(Catalog[cur[c]]) - (Len(captured[c]) + 1) + 1
        BY <2>1, <2>2, <3>1 DEF StepsLeft
      <3>. QED  BY <2>1, <2>3, <2>4, <2>5, <3>2 DEF RunsDown
    <2>. QED  BY <2>6, <2>7
  <1>3. CASE PerformDenied(c) \/ ServiceHalfDone(c) \/ ReplyLost(c)
    <2>1. pc[c] = "perform" /\ todo' = todo /\ pc'[c] = "journal"
      BY <1>0, <1>3 DEF PerformDenied, ServiceHalfDone, ReplyLost, Goto, cmdVars
    <2>2. cur[c] \in Tweak /\ Len(captured[c]) < Len(Catalog[cur[c]])
      BY <2>1, NextActionType DEF Structure, CommandShape
    <2>3. Len(captured[c]) \in Nat /\ Len(Catalog[cur[c]]) \in Nat
      BY <1>0, <2>2, CatalogType
    <2>4. /\ StepsLeft(c) = Len(Catalog[cur[c]]) - Len(captured[c]) + 1
          /\ StepsLeft(c)' = 1
      BY <2>1 DEF StepsLeft
    <2>5. StepsLeft(c)' \in 0 .. StepsLeft(c) - 1
      BY <2>2, <2>3, <2>4
    <2>. QED  BY <2>1, <2>5 DEF RunsDown
  <1>4. CASE WriteEntry(c) \/ WriteFails(c)
    <2>1. pc[c] = "journal" /\ pc'[c] = "next" /\ todo' = todo
      BY <1>0, <1>4 DEF WriteEntry, WriteFails, EndTweak, Goto
    <2>2. StepsLeft(c) = 1 /\ StepsLeft(c)' = 0
      BY <2>1 DEF StepsLeft
    <2>. QED  BY <2>1, <2>2 DEF RunsDown
  <1>5. CASE FinishApply(c) \/ NoHelper(c) \/ MarkReverted(c) \/ MarkFails(c)
    BY <1>0, <1>5 DEF FinishApply, NoHelper, MarkReverted, MarkFails, Goto, RunsDown, Working
  <1>6. CASE SkipIrreversible(c) \/ RestoreOk(c) \/ RestoreFails(c)
    <2>1. PlanStep(c)
      BY <1>6 DEF SkipIrreversible, RestoreOk, RestoreFails
    <2>2. /\ pc[c] = "restore" /\ todo' = todo /\ left'[c] = left[c] - 1
          /\ pc'[c] = IF left[c] = 1 THEN "mark" ELSE "restore"
      BY <1>0, <2>1 DEF PlanStep, Goto
    <2>3. left[c] \in Nat /\ left[c] >= 1
      BY <1>0, <2>2 DEF Structure, CommandShape
    <2>. QED  BY <2>2, <2>3 DEF RunsDown, StepsLeft
  <1>. QED  BY <1>1, <1>2, <1>3, <1>4, <1>5, <1>6 DEF Step

(* Each step of a command ends it, begins a tweak of its batch, or is one  *)
(* less of a number of them: the loops of `apply`, `apply_all` and         *)
(* `revert` come to an end, whatever fails in them.                        *)
THEOREM CommandsRunDown == Spec => EveryStepCounts
  <1>1. ASSUME Structure, [Next]_vars, NEW c \in Command, Working(c),
               <<pc[c], todo[c], captured[c], left[c]>>' # <<pc[c], todo[c], captured[c], left[c]>>
        PROVE  RunsDown(c)
    <2>1. CASE Crash
      BY <2>1 DEF Crash, Working, RunsDown
    <2>2. CASE UNCHANGED vars
      BY <1>1, <2>2 DEF vars, cmdVars
    <2>3. ASSUME NEW d \in Command \ {c}, Step(d) \/ User(d)
          PROVE  FALSE
      <3>1. OthersRest(d)
        BY <1>1, <2>3, StepIsLocal DEF Structure
      <3>. QED  BY <1>1, <3>1 DEF OthersRest
    <2>4. CASE User(c)
      BY <1>1, <2>4 DEF User, StartApply, StartRevert, Working
    <2>5. CASE Step(c)
      BY <1>1, <2>5, StepRunsDown
    <2>. QED  BY <1>1, <2>1, <2>2, <2>3, <2>4, <2>5 DEF Next
  <1>2. Structure /\ [Next]_vars =>
          [\A c \in Command :
             Working(c) /\ <<pc[c], todo[c], captured[c], left[c]>>' # <<pc[c], todo[c], captured[c], left[c]>> =>
               \/ ~Working(c)'
               \/ todo'[c] \subseteq todo[c] /\ todo'[c] # todo[c]
               \/ todo'[c] = todo[c] /\ StepsLeft(c)' \in 0 .. StepsLeft(c) - 1]_vars
    <2>1. Structure /\ [Next]_vars =>
            \A c \in Command :
              /\ Working(c)
              /\ <<pc[c], todo[c], captured[c], left[c]>>' # <<pc[c], todo[c], captured[c], left[c]>>
              => RunsDown(c)
      BY <1>1
    <2>2. ASSUME NEW c \in Command
          PROVE  RunsDown(c) <=>
                   \/ ~Working(c)'
                   \/ todo'[c] \subseteq todo[c] /\ todo'[c] # todo[c]
                   \/ todo'[c] = todo[c] /\ StepsLeft(c)' \in 0 .. StepsLeft(c) - 1
      BY DEF RunsDown
    <2>. QED  BY <2>1, <2>2, Zenon
  <1>3. Sequenced => Structure
    BY DEF Sequenced
  <1>. QED  BY <1>2, <1>3, SpecSequenced, PTL DEF Spec, EveryStepCounts

-----------------------------------------------------------------------------
(* What lies under the other theorems.                                     *)

(* When no two tweaks change the same location, the engine's invariant     *)
(* holds however many tweaks, locations, commands and faults there are,    *)
(* whatever the user starts and whatever becomes of the clock ...          *)
THEOREM EngineIsSound ==
  ASSUME CatalogIsDisjoint
  PROVE  Spec => []EngineInvariant
  <1>1. Init => Sequenced /\ RevertProgress
    BY InitOrdered, InitSequenced DEF EngineInvariant
  <1>2. Sequenced /\ RevertProgress /\ [Next]_vars => RevertProgress'
    BY NextRevertProgress DEF Sequenced
  <1>3. Sequenced /\ RevertProgress /\ UndoIsOfAll /\ Told => EngineInvariant
    BY DEF Sequenced, Structure, EngineInvariant
  <1>. QED  BY <1>1, <1>2, <1>3, SpecSequenced, SpecTold, PTL DEF Spec

LEMMA SpecOrdered ==
  ASSUME CatalogIsDisjoint
  PROVE  Spec => []Ordered
  <1>1. TypeOK /\ EngineInvariant => Ordered
    BY DEF Ordered, Structure, EngineInvariant
  <1>. QED  BY <1>1, TypeCorrect, EngineIsSound, PTL

(* ... so that every location that lost no capture, of tweaks applied one  *)
(* after the other, can be brought back to what it held before SIO: "a     *)
(* tweak that dies halfway must still be fully undoable" (engine.rs:5).    *)
THEOREM UndoIsPossible ==
  ASSUME CatalogIsDisjoint
  PROVE  Spec => []UndoReachesBaseline
  <1>1. Init => UndoReachesBaseline
    BY InitOrdered
  <1>2. Ordered /\ UndoReachesBaseline /\ [Next]_vars => UndoReachesBaseline'
    BY NextUndo
  <1>. QED  BY <1>1, <1>2, SpecOrdered, PTL DEF Spec

(* An entry is marked reverted only when each of its locations holds what  *)
(* its first capture says, or is reported as a failure: "the earliest      *)
(* capture holds the true original, so it must be restored last"           *)
(* (tweak.rs:267, engine.rs:160-179).                                      *)
THEOREM RevertIsFaithful ==
  ASSUME CatalogIsDisjoint
  PROVE  Spec => RevertRestoresFirstCapture
  <1>1. ASSUME Ordered, [Next]_vars, NEW t \in Tweak \ Disordered, NEW at \in Stamp,
               Active(t, at), journal'[t][at].state = "reverted"
        PROVE  \E c \in Command :
                 /\ pc[c] = "mark" /\ cur[c] = t /\ stamp[c] = at
                 /\ \A i \in DOMAIN journal[t][at].actions :
                      /\ journal[t][at].actions[i].at \in Reversible \ failures[c]
                      /\ FirstOf(journal[t][at].actions, i)
                      => machine[journal[t][at].actions[i].at] = journal[t][at].actions[i].prior
    <2>1. Exists(t, at) /\ journal'[t][at] # journal[t][at]
      BY <1>1 DEF Exists, Active
    <2>2. PICK c \in Command :
            /\ pc[c] = "mark" /\ cur[c] = t /\ stamp[c] = at /\ Reverting(c)
            /\ journal[t][at] = Entry(captured[c])
      BY <1>1, <2>1, EntryStep DEF Sequenced, Ordered, Disordered
    <2>3. journal[t][at].actions = captured[c]
      BY <2>2 DEF Entry
    <2>4. left[c] = 0 /\ captured[c] \in Seq(Captured)
      BY <1>1, <2>2 DEF Ordered, Structure, CommandShape, TypeOK
    <2>5. ASSUME NEW i \in DOMAIN captured[c], captured[c][i].at \in Reversible \ failures[c],
                 FirstOf(captured[c], i)
          PROVE  machine[captured[c][i].at] = captured[c][i].prior
      <3>1. i \in left[c] + 1 .. Len(captured[c])
        BY <2>4
      <3>2. PICK k \in left[c] + 1 .. Len(captured[c]) : RestoredTo(c, captured[c][i].at, k)
        BY <1>1, <2>2, <2>5, <3>1 DEF Ordered, RevertProgress
      <3>3. k <= i /\ captured[c][k].at = captured[c][i].at
        BY <3>1, <3>2 DEF RestoredTo
      <3>4. i <= k
        BY <2>4, <2>5, <3>2, <3>3 DEF FirstOf
      <3>5. k = i
        BY <2>4, <3>1, <3>3, <3>4
      <3>. QED  BY <3>2, <3>5 DEF RestoredTo
    <2>. QED  BY <2>2, <2>3, <2>5
  <1>2. Ordered /\ [Next]_vars =>
          [\A t \in Tweak \ Disordered, at \in Stamp :
             Active(t, at) /\ journal'[t][at].state = "reverted" =>
               \E c \in Command :
                 LET seq == journal[t][at].actions IN
                 /\ pc[c] = "mark" /\ cur[c] = t /\ stamp[c] = at
                 /\ \A i \in DOMAIN seq :
                      seq[i].at \in Reversible \ failures[c] /\ FirstOf(seq, i) =>
                        machine[seq[i].at] = seq[i].prior]_vars
    BY <1>1
  <1>. QED  BY <1>2, SpecOrdered, PTL DEF Spec, RevertRestoresFirstCapture

-----------------------------------------------------------------------------
(* The undo log that the journal and the captures in the making stand for. *)

LEMMA Least ==
  ASSUME NEW T \in SUBSET Nat, T # {}
  PROVE  \E u \in T : \A v \in T : u <= v
  <1>1. PICK u \in T : \A v \in T : <<v, u>> \notin OpToRel(<, Nat)
    BY NatLessThanWellFounded, WFMin, Zenon
  <1>2. u \in Nat /\ \A v \in T : v \in Nat
    OBVIOUS
  <1>3. \A v \in T : ~ (v < u)
    BY <1>1, <1>2, Zenon DEF OpToRel
  <1>. QED  BY <1>2, <1>3

(* The first capture of l that one application of a tweak made says p.     *)
FirstSays(l, t, at, i, p) ==
  /\ CaptureSays(l, t, at, i, p)
  /\ \A j \in Index(t) : HasCapture(l, t, at, j) => i <= j
OnPile(l, r) ==
  \E t \in Tweak, at \in Stamp : \E i \in Index(t) : \E p :
    r = <<at, p>> /\ FirstSays(l, t, at, i, p)
PilesAreFirsts ==
  \A l \in Reversible : InOrder(l) => \A r : r \in Pile(l) <=> OnPile(l, r)

LEMMA KeptSays ==
  ASSUME NEW l, NEW t, NEW at, NEW i
  PROVE  /\ HasCapture(l, t, at, i) <=>
              \E seq \in Kept(t, at) : i \in DOMAIN seq /\ seq[i].at = l
         /\ \A p : CaptureSays(l, t, at, i, p) <=>
              \E seq \in Kept(t, at) : i \in DOMAIN seq /\ seq[i].at = l /\ seq[i].prior = p
  BY DEF HasCapture, CaptureSays, Kept

(* A file is written only when its captures are complete, so there is one  *)
(* sequence of captures of an application, if any.                         *)
LEMMA OneSequence ==
  ASSUME Ordered, NEW l, InOrder(l), NEW t \in Tweak, NEW at \in Stamp,
         NEW i, HasCapture(l, t, at, i), NEW s1 \in Kept(t, at), NEW s2 \in Kept(t, at)
  PROVE  s1 = s2
  <1>0. t \notin misdated /\ t \notin contended
    BY CaptureIsOf DEF InOrder, Disordered, Ordered
  <1>1. ASSUME NEW c \in Command, Making(c, t, at)
        PROVE  ~Active(t, at) /\ \A d \in Command : Making(d, t, at) => d = c
    <2>1. Holds(c, t) /\ Forward(c) /\ at = stamp[c]
      BY <1>1, Holding DEF Making, Applying, Forward, Ordered
    <2>2. ~Exists(t, at)
      BY <1>0, <2>1 DEF Ordered, TimeGrows
    <2>3. \A d \in Command : Making(d, t, at) => d = c
      BY <1>0, <2>1, Holding DEF Making, Ordered, HoldersDiffer
    <2>. QED  BY <2>2, <2>3 DEF Exists, Active
  <1>. QED  BY <1>1 DEF Kept

LEMMA PilesHold == Ordered => PilesAreFirsts
  <1>. SUFFICES ASSUME Ordered, NEW l \in Reversible, InOrder(l), NEW r
                PROVE  r \in Pile(l) <=> OnPile(l, r)
    BY DEF PilesAreFirsts
  <1>1. ASSUME NEW t \in Tweak, NEW at \in Stamp, NEW p
        PROVE  (\E seq \in Kept(t, at) : p \in Firsts(l, seq)) <=>
                 \E i \in Index(t) : FirstSays(l, t, at, i, p)
    <2>1. \A seq : p \in Firsts(l, seq) <=>
            \E i \in DOMAIN seq : seq[i].at = l /\ FirstOf(seq, i) /\ p = seq[i].prior
      BY DEF Firsts
    <2>2. ASSUME NEW seq \in Kept(t, at)
          PROVE  /\ \A j : HasCapture(l, t, at, j) <=> j \in DOMAIN seq /\ seq[j].at = l
                 /\ \A j : CaptureSays(l, t, at, j, p) <=>
                      j \in DOMAIN seq /\ seq[j].at = l /\ seq[j].prior = p
      <3>1. ASSUME NEW j, HasCapture(l, t, at, j), NEW s \in Kept(t, at) PROVE s = seq
        BY <3>1, OneSequence
      <3>2. ASSUME NEW j
            PROVE  /\ HasCapture(l, t, at, j) <=> j \in DOMAIN seq /\ seq[j].at = l
                   /\ CaptureSays(l, t, at, j, p) <=>
                        j \in DOMAIN seq /\ seq[j].at = l /\ seq[j].prior = p
        <4>1. CASE HasCapture(l, t, at, j)
          BY <3>1, <4>1, KeptSays
        <4>2. CASE ~HasCapture(l, t, at, j)
          BY <4>2, KeptSays
        <4>. QED  BY <4>1, <4>2
      <3>. QED  BY <3>2
    <2>3. ASSUME NEW seq \in Kept(t, at), NEW i \in DOMAIN seq,
                 seq[i].at = l, FirstOf(seq, i), p = seq[i].prior
          PROVE  i \in Index(t) /\ FirstSays(l, t, at, i, p)
      <3>1. CaptureSays(l, t, at, i, p) /\ HasCapture(l, t, at, i)
        BY <2>2, <2>3
      <3>2. i \in Index(t)
        BY <3>1, CaptureIsOf DEF Ordered
      <3>3. ASSUME NEW j \in Index(t), HasCapture(l, t, at, j) PROVE i <= j
        BY <2>2, <2>3, <3>3 DEF FirstOf
      <3>. QED  BY <3>1, <3>2, <3>3 DEF FirstSays
    <2>4. ASSUME NEW i \in Index(t), FirstSays(l, t, at, i, p)
          PROVE  \E seq \in Kept(t, at) : \E k \in DOMAIN seq :
                   seq[k].at = l /\ FirstOf(seq, k) /\ p = seq[k].prior
      <3>1. PICK seq \in Kept(t, at) : i \in DOMAIN seq /\ seq[i].at = l /\ seq[i].prior = p
        BY <2>4, KeptSays DEF FirstSays
      <3>2. ASSUME NEW j \in DOMAIN seq, seq[j].at = l
            PROVE  i <= j
        <4>1. HasCapture(l, t, at, j)
          BY <2>2, <3>2
        <4>2. j \in Index(t)
          BY <4>1, CaptureIsOf DEF Ordered
        <4>. QED  BY <2>4, <4>1, <4>2 DEF FirstSays
      <3>3. FirstOf(seq, i)
        BY <3>1, <3>2 DEF FirstOf
      <3>. QED  BY <3>1, <3>3
    <2>. QED  BY <2>1, <2>3, <2>4
  <1>2. \A at, p : p \in HeldBefore(l, at) <=>
          \E t \in Tweak : \E seq \in Kept(t, at) : p \in Firsts(l, seq)
    BY Zenon DEF HeldBefore
  <1>3. r \in Pile(l) <=> \E at \in Stamp : \E p : r = <<at, p>> /\ p \in HeldBefore(l, at)
    BY DEF Pile
  <1>. QED  BY <1>1, <1>2, <1>3 DEF OnPile

(* What a command at work has captured of a location is on its pile, at    *)
(* the time of the command, and on top of everything else.                 *)
LEMMA TopOfPile ==
  ASSUME CatalogIsDisjoint, Ordered, NEW c \in Command, AtWork(c),
         NEW l \in Reversible, InOrder(l), NEW k \in Index(cur[c]), Catalog[cur[c]][k].at = l
  PROVE  Log!Latest(l, stamp[c])
  <1>. SUFFICES ASSUME NEW r \in Pile(l) PROVE r[1] <= stamp[c]
    BY DEF Log!Latest
  <1>1. PICK t \in Tweak, at \in Stamp : \E i \in Index(t) : \E p :
          r = <<at, p>> /\ FirstSays(l, t, at, i, p)
    BY PilesHold DEF PilesAreFirsts, OnPile
  <1>2. PICK i \in Index(t) : \E p : r = <<at, p>> /\ CaptureSays(l, t, at, i, p)
    BY <1>1 DEF FirstSays
  <1>3. r[1] = at /\ HasCapture(l, t, at, i)
    BY <1>2 DEF CaptureSays, HasCapture
  <1>4. at <= stamp[c]
    BY <1>3, OwnAreLatest
  <1>. QED  BY <1>3, <1>4

LEMMA OwnIsOf ==
  ASSUME Ordered, NEW c \in Command, AtWork(c), NEW l, NEW k, CapturedAt(c, l, k)
  PROVE  k \in Index(cur[c]) /\ Catalog[cur[c]][k].at = l
  <1>1. HasCapture(l, cur[c], stamp[c], k)
    BY OwnCaptures, Zenon
  <1>2. cur[c] \in Tweak /\ stamp[c] \in Stamp
    BY Holding DEF AtWork, Ordered, Structure, TypeOK
  <1>. QED  BY <1>1, <1>2, CaptureIsOf DEF Ordered

LEMMA OwnPair ==
  ASSUME Ordered, NEW c \in Command, AtWork(c),
         NEW l \in Reversible, InOrder(l), NEW k, CapturedAt(c, l, k)
  PROVE  \E r \in Pile(l) : r[1] = stamp[c]
  <1>. DEFINE T == {j \in DOMAIN captured[c] : captured[c][j].at = l}
  <1>1. captured[c] \in Seq(Captured) /\ cur[c] \in Tweak /\ stamp[c] \in Stamp
    BY Holding DEF AtWork, Ordered, Structure, TypeOK
  <1>2. T \in SUBSET Nat /\ T # {}
    BY <1>1 DEF CapturedAt
  <1>3. PICK i \in T : \A j \in T : i <= j
    <2>. HIDE DEF T
    <2>. QED  BY <1>2, Least
  <1>4. CapturedAt(c, l, i) /\ \A j : CapturedAt(c, l, j) => i <= j
    BY <1>3 DEF CapturedAt
  <1>5. i \in Index(cur[c])
    BY <1>4, OwnIsOf
  <1>6. CaptureSays(l, cur[c], stamp[c], i, captured[c][i].prior)
    <2>1. \A p : CaptureSays(l, cur[c], stamp[c], i, p) <=>
                 CapturedAt(c, l, i) /\ captured[c][i].prior = p
      BY OwnCaptures, Zenon
    <2>. QED  BY <1>4, <2>1, Zenon
  <1>7. \A j \in Index(cur[c]) : HasCapture(l, cur[c], stamp[c], j) => i <= j
    <2>1. \A j : HasCapture(l, cur[c], stamp[c], j) => CapturedAt(c, l, j)
      BY OwnCaptures, Zenon
    <2>. QED  BY <1>4, <2>1
  <1>8. FirstSays(l, cur[c], stamp[c], i, captured[c][i].prior)
    BY <1>6, <1>7 DEF FirstSays
  <1>9. OnPile(l, <<stamp[c], captured[c][i].prior>>)
    BY <1>1, <1>5, <1>8 DEF OnPile
  <1>10. <<stamp[c], captured[c][i].prior>> \in Pile(l)
    BY <1>9, PilesHold DEF PilesAreFirsts
  <1>. QED  BY <1>10

LEMMA PilesHoldNext == Ordered' => PilesAreFirsts'
  BY PilesHold, PTL

(* The pile after a step, by what becomes of the first captures.           *)
LEMMA PileNext ==
  ASSUME Ordered', NEW l \in Reversible, InOrder(l)', NEW r
  PROVE  r \in Pile(l)' <=>
           \E t \in Tweak, at \in Stamp : \E i \in Index(t) : \E p :
             r = <<at, p>> /\ FirstSays(l, t, at, i, p)'
  <1>1. r \in Pile(l)' <=> OnPile(l, r)'
    BY PilesHoldNext DEF PilesAreFirsts
  <1>. QED  BY <1>1 DEF OnPile

LEMMA SamePile ==
  ASSUME Ordered, Ordered', NEW l \in Reversible, InOrder(l), InOrder(l)',
         \A t \in Tweak, at \in Stamp : \A i \in Index(t) : \A p :
           FirstSays(l, t, at, i, p)' <=> FirstSays(l, t, at, i, p)
  PROVE  Pile(l)' = Pile(l)
  <1>1. \A r : r \in Pile(l) <=> OnPile(l, r)
    BY PilesHold DEF PilesAreFirsts
  <1>2. \A r : r \in Pile(l)' <=> OnPile(l, r)
    BY PileNext DEF OnPile
  <1>. QED  BY <1>1, <1>2

LEMMA SameFirsts ==
  ASSUME NEW l, SameCaptures(l)
  PROVE  \A t \in Tweak, at \in Stamp : \A i \in Index(t) : \A p :
           FirstSays(l, t, at, i, p)' <=> FirstSays(l, t, at, i, p)
  BY DEF SameCaptures, FirstSays

(* The location changes, if at all, with what it held before on the pile.  *)
LEMMA QuietRefines ==
  ASSUME CatalogIsDisjoint, Ordered, Ordered',
         NEW l \in Reversible, InOrder(l), InOrder(l)', Quiet(l)
  PROVE  Log!Same(l) \/ Log!Change(l)
  <1>1. Pile(l)' = Pile(l)
    BY SameFirsts, SamePile DEF Quiet
  <1>2. CASE machine'[l] = machine[l]
    BY <1>1, <1>2 DEF Log!Same
  <1>3. CASE Covered(l)
    <2>1. PICK c \in Command : AtWork(c) /\ \E k : CapturedAt(c, l, k)
      BY <1>3 DEF Covered
    <2>2. PICK k : CapturedAt(c, l, k)
      BY <2>1
    <2>3. k \in Index(cur[c]) /\ Catalog[cur[c]][k].at = l
      BY <2>1, <2>2, OwnIsOf
    <2>4. Log!Latest(l, stamp[c])
      BY <2>1, <2>3, TopOfPile
    <2>5. \E r \in Pile(l) : r[1] = stamp[c]
      BY <2>1, <2>2, OwnPair
    <2>6. stamp[c] \in Stamp
      BY DEF Ordered, Structure, TypeOK
    <2>. QED  BY <1>1, <2>4, <2>5, <2>6 DEF Log!Change
  <1>. QED  BY <1>2, <1>3 DEF Quiet

(* A second capture of a location by one application is not its first.     *)
LEMMA AgainIsNotFirst ==
  ASSUME NEW l, NEW u \in Tweak, NEW b \in Stamp, NEW n \in Index(u), CaptureAdded(l, u, b, n),
         NEW k \in Index(u), HasCapture(l, u, b, k), k < n
  PROVE  \A t \in Tweak, at \in Stamp : \A i \in Index(t) : \A p :
           FirstSays(l, t, at, i, p)' <=> FirstSays(l, t, at, i, p)
  <1>. SUFFICES ASSUME NEW t \in Tweak, NEW at \in Stamp, NEW i \in Index(t), NEW p
                PROVE  FirstSays(l, t, at, i, p)' <=> FirstSays(l, t, at, i, p)
    OBVIOUS
  <1>0. Index(u) \subseteq Nat /\ Index(t) \subseteq Nat
    BY DEF Index
  <1>1. CASE ~(t = u /\ at = b)
    BY <1>1 DEF CaptureAdded, FirstSays
  <1>2. CASE t = u /\ at = b
    <2>1. \A j \in Index(t) : HasCapture(l, t, at, j)' <=> HasCapture(l, t, at, j) \/ j = n
      BY <1>2 DEF CaptureAdded
    <2>2. CaptureSays(l, t, at, i, p)' <=>
            CaptureSays(l, t, at, i, p) \/ (i = n /\ p = machine[l])
      BY <1>2 DEF CaptureAdded
    <2>3. HasCapture(l, t, at, k)' /\ HasCapture(l, t, at, k)
      BY <1>2, <2>1
    <2>4. (i <= k) => i # n /\ i <= n
      BY <1>0
    <2>. QED  BY <1>2, <2>1, <2>2, <2>3, <2>4 DEF FirstSays
  <1>. QED  BY <1>1, <1>2

(* The first one says what the location holds.                             *)
LEMMA AddedIsFirst ==
  ASSUME NEW l, NEW u \in Tweak, NEW b \in Stamp, NEW n \in Index(u), CaptureAdded(l, u, b, n),
         \A k \in Index(u) : ~HasCapture(l, u, b, k) /\ \A p : ~CaptureSays(l, u, b, k, p)
  PROVE  \A t \in Tweak, at \in Stamp : \A i \in Index(t) : \A p :
           FirstSays(l, t, at, i, p)' <=>
             \/ FirstSays(l, t, at, i, p)
             \/ t = u /\ at = b /\ i = n /\ p = machine[l]
  <1>. SUFFICES ASSUME NEW t \in Tweak, NEW at \in Stamp, NEW i \in Index(t), NEW p
                PROVE  FirstSays(l, t, at, i, p)' <=>
                         \/ FirstSays(l, t, at, i, p)
                         \/ t = u /\ at = b /\ i = n /\ p = machine[l]
    OBVIOUS
  <1>0. n \in Nat
    BY DEF Index
  <1>1. CASE ~(t = u /\ at = b)
    BY <1>1 DEF CaptureAdded, FirstSays
  <1>2. CASE t = u /\ at = b
    <2>1. \A j \in Index(t) : HasCapture(l, t, at, j)' <=> j = n
      BY <1>2 DEF CaptureAdded
    <2>2. CaptureSays(l, t, at, i, p)' <=> i = n /\ p = machine[l]
      BY <1>2 DEF CaptureAdded
    <2>3. ~FirstSays(l, t, at, i, p)
      BY <1>2 DEF FirstSays
    <2>. QED  BY <1>0, <1>2, <2>1, <2>2, <2>3 DEF FirstSays
  <1>. QED  BY <1>1, <1>2

LEMMA AddRefines ==
  ASSUME CatalogIsDisjoint, Ordered, Ordered',
         NEW l \in Reversible, InOrder(l), InOrder(l)', Added(l)
  PROVE  Log!Change(l)
  <1>1. PICK c \in Command :
          /\ pc[c] = "perform" /\ AtWork(c)
          /\ NextAction(c).at = l
          /\ CaptureAdded(l, cur[c], stamp[c], Len(captured[c]) + 1)
    BY DEF Added
  <1>2. /\ cur[c] \in Tweak /\ stamp[c] \in Stamp
        /\ Len(captured[c]) + 1 \in Index(cur[c])
        /\ Catalog[cur[c]][Len(captured[c]) + 1].at = l
        /\ captured[c] \in Seq(Captured) /\ AtWork(c)
    BY <1>1, NextActionType DEF NextAction, TypeOK, Ordered, Structure
  <1>3. Log!Latest(l, stamp[c])
    BY <1>2, TopOfPile
  <1>4. CASE \E k : CapturedAt(c, l, k)
    <2>1. PICK k : CapturedAt(c, l, k)
      BY <1>4
    <2>2. k \in Index(cur[c]) /\ k < Len(captured[c]) + 1
      BY <1>2, <2>1, OwnIsOf DEF CapturedAt
    <2>3. HasCapture(l, cur[c], stamp[c], k)
      BY <1>2, <2>1, OwnCaptures, Zenon
    <2>4. \A t \in Tweak, at \in Stamp : \A i \in Index(t) : \A p :
            FirstSays(l, t, at, i, p)' <=> FirstSays(l, t, at, i, p)
      BY <1>1, <1>2, <2>2, <2>3, AgainIsNotFirst
    <2>5. Pile(l)' = Pile(l)
      BY <2>4, SamePile
    <2>6. \E r \in Pile(l) : r[1] = stamp[c]
      BY <1>2, <2>1, OwnPair
    <2>. QED  BY <1>2, <1>3, <2>5, <2>6 DEF Log!Change
  <1>5. CASE \A k : ~CapturedAt(c, l, k)
    <2>1. \A k \in Index(cur[c]) : /\ ~HasCapture(l, cur[c], stamp[c], k)
                                   /\ \A p : ~CaptureSays(l, cur[c], stamp[c], k, p)
      <3>1. AtWork(c)
        BY <1>2
      <3>2. ASSUME NEW k
            PROVE  /\ ~HasCapture(l, cur[c], stamp[c], k)
                   /\ \A p : ~CaptureSays(l, cur[c], stamp[c], k, p)
        BY <1>5, <3>1, OwnCaptures, Zenon
      <3>. QED  BY <3>2
    <2>2. \A t \in Tweak, at \in Stamp : \A i \in Index(t) : \A p :
            FirstSays(l, t, at, i, p)' <=>
              \/ FirstSays(l, t, at, i, p)
              \/ /\ t = cur[c] /\ at = stamp[c] /\ i = Len(captured[c]) + 1
                 /\ p = machine[l]
      BY <1>1, <1>2, <2>1, AddedIsFirst
    <2>3. \A r : r \in Pile(l)' <=> r \in Pile(l) \/ r = <<stamp[c], machine[l]>>
      <3>1. \A r : r \in Pile(l) <=> OnPile(l, r)
        BY PilesHold DEF PilesAreFirsts
      <3>2. ASSUME NEW r
            PROVE  r \in Pile(l)' <=> OnPile(l, r) \/ r = <<stamp[c], machine[l]>>
        BY <1>2, <2>2, PileNext DEF OnPile
      <3>. QED  BY <3>1, <3>2
    <2>4. ASSUME NEW r \in Pile(l), r[1] = stamp[c]
          PROVE  FALSE
      <3>1. PICK t \in Tweak, at \in Stamp : \E i \in Index(t) : \E p :
              r = <<at, p>> /\ FirstSays(l, t, at, i, p)
        BY PilesHold DEF PilesAreFirsts, OnPile
      <3>2. PICK i \in Index(t) : \E p : r = <<at, p>> /\ CaptureSays(l, t, at, i, p)
        BY <3>1 DEF FirstSays
      <3>3. r[1] = at /\ HasCapture(l, t, at, i)
        BY <3>2 DEF CaptureSays, HasCapture
      <3>4. t = cur[c]
        BY <1>2, <3>3, OwnAreLatest
      <3>. QED  BY <2>1, <2>4, <3>3, <3>4
    <2>5. Pile(l)' = Pile(l) \cup {<<stamp[c], machine[l]>>}
      BY <2>3
    <2>. QED  BY <1>2, <1>3, <2>4, <2>5 DEF Log!Change
  <1>. QED  BY <1>4, <1>5

(* What is taken away is on top of the pile, and is what the location      *)
(* holds.                                                                  *)
LEMMA DropRefines ==
  ASSUME CatalogIsDisjoint, Ordered, Ordered',
         NEW l \in Reversible, InOrder(l), InOrder(l)', Dropped(l)
  PROVE  Log!Same(l) \/ Log!PutBack(l)
  <1>1. PICK c \in Command :
          /\ pc[c] = "mark" /\ AtWork(c)
          /\ l \notin failures[c]
          /\ CapturesDropped(l, cur[c], stamp[c])
    BY DEF Dropped
  <1>2. AtWork(c) /\ Reverting(c) /\ left[c] = 0
    BY <1>1 DEF Ordered, Structure, CommandShape, Reverting
  <1>3. /\ cur[c] \in Tweak /\ stamp[c] \in Stamp /\ captured[c] \in Seq(Captured)
        /\ machine'[l] = machine[l]
    BY <1>2, Holding DEF Ordered, Structure, TypeOK, Dropped
  <1>4. CASE \A k : ~CapturedAt(c, l, k)
    <2>1. \A k : ~HasCapture(l, cur[c], stamp[c], k) /\ \A p : ~CaptureSays(l, cur[c], stamp[c], k, p)
      BY <1>2, <1>4, OwnCaptures, Zenon
    <2>2. SameCaptures(l)
      BY <1>1, <2>1 DEF CapturesDropped, SameCaptures
    <2>. QED  BY <1>3, <2>2, SameFirsts, SamePile DEF Log!Same
  <1>5. CASE \E k : CapturedAt(c, l, k)
    <2>1. PICK k \in DOMAIN captured[c] : captured[c][k].at = l
      BY <1>5, Zenon DEF CapturedAt
    <2>2. PICK i \in DOMAIN captured[c] : RestoredTo(c, l, i)
      <3>1. DOMAIN captured[c] = left[c] + 1 .. Len(captured[c])
        BY <1>2, <1>3
      <3>. QED  BY <1>1, <1>2, <2>1, <3>1 DEF AtWork, Ordered, RevertProgress
    <2>3. /\ CapturedAt(c, l, i) /\ captured[c][i].prior = machine[l]
          /\ \A j : CapturedAt(c, l, j) => i <= j
      BY <1>2, <1>3, <2>2 DEF RestoredTo, CapturedAt
    <2>4. i \in Index(cur[c]) /\ Catalog[cur[c]][i].at = l
      BY <1>2, <2>3, OwnIsOf
    <2>5. ASSUME NEW j \in Index(cur[c]), NEW p
          PROVE  FirstSays(l, cur[c], stamp[c], j, p) <=> j = i /\ p = machine[l]
      <3>1. \A h : HasCapture(l, cur[c], stamp[c], h) <=> CapturedAt(c, l, h)
        BY <1>2, OwnCaptures, Zenon
      <3>2. CaptureSays(l, cur[c], stamp[c], j, p) <=>
              CapturedAt(c, l, j) /\ captured[c][j].prior = p
        BY <1>2, OwnCaptures, Zenon
      <3>3. i \in Nat /\ j \in Nat
        BY <2>4 DEF Index
      <3>. QED  BY <2>3, <2>4, <3>1, <3>2, <3>3 DEF FirstSays
    <2>6. ASSUME NEW t \in Tweak, NEW at \in Stamp, NEW j \in Index(t), NEW p
          PROVE  FirstSays(l, t, at, j, p)' <=>
                   FirstSays(l, t, at, j, p) /\ ~(t = cur[c] /\ at = stamp[c])
      BY <1>1 DEF CapturesDropped, FirstSays
    <2>7. ASSUME NEW t \in Tweak, NEW at \in Stamp, NEW j \in Index(t), NEW p,
                 FirstSays(l, t, at, j, p)
          PROVE  t = cur[c]
      <3>1. HasCapture(l, t, at, j)
        BY <2>7 DEF FirstSays, CaptureSays, HasCapture
      <3>. QED  BY <1>2, <2>4, <3>1, OwnAreLatest
    <2>8. \A r : r \in Pile(l) <=> OnPile(l, r)
      BY PilesHold DEF PilesAreFirsts
    <2>9. <<stamp[c], machine[l]>> \in Pile(l)
      BY <1>3, <2>4, <2>5, <2>8 DEF OnPile
    <2>10. ASSUME NEW r
           PROVE  r \in Pile(l)' <=> r \in Pile(l) /\ r # <<stamp[c], machine[l]>>
      <3>1. ASSUME r \in Pile(l)'
            PROVE  OnPile(l, r) /\ r # <<stamp[c], machine[l]>>
        <4>1. PICK t \in Tweak, at \in Stamp : \E j \in Index(t) : \E p :
                r = <<at, p>> /\ FirstSays(l, t, at, j, p)'
          BY <3>1, PileNext
        <4>2. PICK j \in Index(t) : \E p : r = <<at, p>> /\ FirstSays(l, t, at, j, p)'
          BY <4>1
        <4>3. PICK p : r = <<at, p>> /\ FirstSays(l, t, at, j, p)'
          BY <4>2
        <4>4. FirstSays(l, t, at, j, p) /\ ~(t = cur[c] /\ at = stamp[c])
          BY <2>6, <4>3
        <4>5. at # stamp[c]
          BY <2>7, <4>4
        <4>. QED  BY <4>3, <4>4, <4>5 DEF OnPile
      <3>2. ASSUME OnPile(l, r), r # <<stamp[c], machine[l]>>
            PROVE  r \in Pile(l)'
        <4>1. PICK t \in Tweak, at \in Stamp : \E j \in Index(t) : \E p :
                r = <<at, p>> /\ FirstSays(l, t, at, j, p)
          BY <3>2 DEF OnPile
        <4>2. PICK j \in Index(t) : \E p : r = <<at, p>> /\ FirstSays(l, t, at, j, p)
          BY <4>1
        <4>3. PICK p : r = <<at, p>> /\ FirstSays(l, t, at, j, p)
          BY <4>2
        <4>4. ~(t = cur[c] /\ at = stamp[c])
          BY <2>5, <3>2, <4>3
        <4>5. FirstSays(l, t, at, j, p)'
          BY <2>6, <4>3, <4>4
        <4>. QED  BY <4>3, <4>5, PileNext
      <3>. QED  BY <2>8, <3>1, <3>2
    <2>11. Pile(l)' = Pile(l) \ {<<stamp[c], machine[l]>>}
      BY <2>10
    <2>12. Log!Latest(l, stamp[c])
      BY <1>2, <2>4, TopOfPile
    <2>. QED  BY <1>3, <2>9, <2>11, <2>12 DEF Log!PutBack
  <1>. QED  BY <1>4, <1>5

(* The engine implements the undo log: whatever commands, failures and     *)
(* crashes do to a location that lost no capture, of tweaks applied one    *)
(* after the other, it is changed only with what it held before on record, *)
(* "before it changed anything", and the record is given up only when the  *)
(* location holds just that again (journal.rs:3-6).                        *)
THEOREM UndoLogIsImplemented ==
  ASSUME CatalogIsDisjoint
  PROVE  Spec => ImplementsUndoLog
  <1>1. Init => Log!Init
    <2>0. Init => Lost = {}
      BY DEF Init, Lost, Disordered
    <2>. SUFFICES ASSUME Init, NEW l \in Reversible PROVE Pile(l) = {}
      BY <2>0 DEF Log!Init
    <2>1. \A t \in Tweak, at \in Stamp : Kept(t, at) = {}
      BY DEF Init, Kept, Active, NoFile, Making, Applying
    <2>2. \A at \in Stamp : HeldBefore(l, at) = {}
      BY <2>1 DEF HeldBefore
    <2>. QED  BY <2>2 DEF Pile
  <1>2. Ordered /\ Ordered' /\ [Next]_vars => Log!Next
    <2>. SUFFICES ASSUME Ordered, Ordered', [Next]_vars PROVE Log!Next
      OBVIOUS
    <2>1. Lost \subseteq Lost'
      BY LossesStay
    <2>2. ASSUME NEW l \in Reversible \ Lost'
          PROVE  Log!Same(l) \/ Log!Change(l) \/ Log!PutBack(l)
      <3>1. LocationStep(l) /\ InOrder(l) /\ InOrder(l)'
        BY EachLocation, NotLost
      <3>. QED  BY <3>1, QuietRefines, AddRefines, DropRefines DEF LocationStep
    <2>. QED  BY <2>1, <2>2 DEF Log!Next
  <1>. QED  BY <1>1, <1>2, SpecOrdered, PTL DEF Spec, ImplementsUndoLog, Log!Spec

============================================================================
