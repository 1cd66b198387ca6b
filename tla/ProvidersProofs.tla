-------------------------- MODULE ProvidersProofs --------------------------
(***************************************************************************)
(* For any number of commands, apps and batches, however their detections  *)
(* and installs overlap: whoever detects under the lock is the first, what *)
(* a report claims is true, and a registry that is stored misses nothing   *)
(* that was installed when its detection began, by a manager that could be *)
(* asked, unless another detection asked winget meanwhile: the two share   *)
(* the file.  The second rests on inventories that never list what is not  *)
(* installed, on plans that do not change while a batch is at work, and on *)
(* nothing being removed; the third on a detection passing no manager      *)
(* without having what was there, and on a file that nobody else is at.    *)
(***************************************************************************)
EXTENDS Providers, WellFoundedInduction, TLAPS

Label == {"idle", "looking", "waiting", "scanning", "exporting", "reading",
          "removing", "elevating", "installing", "running"}

(* What a detection may find on a machine.                                 *)
FoundOn(packages) == [available : SUBSET Manager, installed : SUBSET packages]

Scan(packages) == [at : Nat, found : FoundOn(packages), seen : SUBSET packages,
                   unread : SUBSET Manager]

InventoriesAreTrue ==
  /\ cache \in FoundOn(machine) \cup {NoRegistry}
  /\ registry \in [Command -> FoundOn(machine) \cup {NoRegistry}]
  /\ scan \in [Command -> Scan(machine)]
  /\ export \in [state : {"none", "partial", "complete"}, packages : SUBSET machine]

Detecting == {"scanning", "exporting", "reading", "removing"}

(* A command has a registry before it installs, and no report before it    *)
(* has a registry; whoever has the lock detects.                           *)
BatchShape ==
  /\ pc \in [Command -> Label]
  /\ report \in [Command -> Seq(Outcome)]
  /\ lock \in Command \cup {NoCommand}
  /\ \A c \in Command :
       /\ pc[c] \in {"elevating", "installing", "running"} => registry[c] \in FoundOn(machine)
       /\ pc[c] \in {"looking", "waiting"} => report[c] = << >>
       /\ lock = c => report[c] = << >> /\ pc[c] \in Detecting

Inv == InventoriesAreTrue /\ BatchShape /\ ReportsAreTrue /\ DetectionIsShared

USE ValuesAssumption

-----------------------------------------------------------------------------
(* Init.                                                                   *)
LEMMA InitInv == Init => Inv
  <1>. SUFFICES ASSUME Init PROVE Inv
    OBVIOUS
  <1>1. InventoriesAreTrue
    BY DEF Init, InventoriesAreTrue, NoScan, NoFile, FoundOn, Scan, Manager
  <1>2. BatchShape
    BY DEF Init, BatchShape, Label
  <1>3. ReportsAreTrue
    BY DEF Init, ReportsAreTrue
  <1>4. DetectionIsShared
    BY DEF Init, DetectionIsShared
  <1>. QED  BY <1>1, <1>2, <1>3, <1>4 DEF Inv

(* Which packages a batch is about hangs on its registry and its apps.     *)
LEMMA PlanStays ==
  ASSUME NEW c \in Command, registry'[c] = registry[c], job'[c] = job[c]
  PROVE  Plan(c)' = Plan(c)
  BY DEF Plan

(* Inventories that are true stay true when packages are added.            *)
LEMMA Grows ==
  ASSUME NEW m, NEW n, m \subseteq n
  PROVE  FoundOn(m) \subseteq FoundOn(n) /\ Scan(m) \subseteq Scan(n)
  BY DEF FoundOn, Scan

-----------------------------------------------------------------------------
(* What a step does to reports.                                            *)

ReportIsTrue(c) ==
  \A i \in DOMAIN report[c] : report[c][i] # "failed" => Plan(c)[i] \in machine

(* A report that does not change is about the same plan.                   *)
LEMMA ReportStays ==
  ASSUME Inv, NEW c \in Command, machine \subseteq machine', report'[c] = report[c],
         report[c] = << >> \/ (registry'[c] = registry[c] /\ job'[c] = job[c])
  PROVE  ReportIsTrue(c)'
  <1>1. ReportIsTrue(c)
    BY DEF Inv, ReportsAreTrue, ReportIsTrue
  <1>2. CASE report[c] = << >>
    BY <1>2 DEF ReportIsTrue
  <1>3. CASE registry'[c] = registry[c] /\ job'[c] = job[c]
    BY <1>1, <1>3, PlanStays DEF ReportIsTrue
  <1>. QED  BY <1>2, <1>3

(* An outcome other than a failure is added for an item that is installed. *)
LEMMA ReportGrows ==
  ASSUME Inv, NEW c \in Command, NEW outcome \in Outcome, Report(c, outcome),
         machine \subseteq machine', registry' = registry, job' = job,
         outcome # "failed" => Item(c) \in machine'
  PROVE  ReportsAreTrue' /\ report' \in [Command -> Seq(Outcome)]
  <1>0. report \in [Command -> Seq(Outcome)]
    BY DEF Inv, BatchShape
  <1>1. report' \in [Command -> Seq(Outcome)]
    BY <1>0 DEF Report
  <1>2. ASSUME NEW d \in Command PROVE ReportIsTrue(d)'
    <2>1. CASE d # c
      BY <1>0, <1>2, <2>1, ReportStays DEF Report
    <2>2. CASE d = c
      <3>1. Plan(c)' = Plan(c)
        BY PlanStays
      <3>2. report'[c] = Append(report[c], outcome) /\ report[c] \in Seq(Outcome)
        BY <1>0 DEF Report
      <3>3. SUFFICES ASSUME NEW i \in 1 .. Len(report[c]) + 1, report'[c][i] # "failed"
                     PROVE  Plan(c)[i] \in machine'
        BY <2>2, <3>1, <3>2 DEF ReportIsTrue
      <3>4. CASE i = Len(report[c]) + 1
        BY <3>2, <3>3, <3>4 DEF Item
      <3>5. CASE i \in 1 .. Len(report[c])
        BY <3>2, <3>3, <3>5 DEF Inv, ReportsAreTrue
      <3>. QED  BY <3>2, <3>4, <3>5
    <2>. QED  BY <2>1, <2>2
  <1>. QED  BY <1>1, <1>2 DEF ReportsAreTrue, ReportIsTrue

-----------------------------------------------------------------------------
(* Commands and the cache.                                                 *)

LEMMA StartMoves ==
  ASSUME NEW c \in Command, NEW kind, NEW apps, StartCommand(c, kind, apps)
  PROVE  pc' = [pc EXCEPT ![c] = IF kind = "refresh" THEN "scanning" ELSE "looking"]
  BY DEF StartCommand, Move

LEMMA StartStep ==
  ASSUME Inv, NEW c \in Command, NEW kind, NEW apps, StartCommand(c, kind, apps)
  PROVE  Inv'
  <1>. USE DEF Inv
  <1>0. pc' = [pc EXCEPT ![c] = IF kind = "refresh" THEN "scanning" ELSE "looking"]
    BY StartMoves
  <1>1. InventoriesAreTrue'
    BY DEF StartCommand, InventoriesAreTrue, environment
  <1>2. BatchShape'
    BY <1>0 DEF StartCommand, BatchShape, Label, Detecting, environment
  <1>3. ASSUME NEW d \in Command PROVE ReportIsTrue(d)'
    <2>1. CASE d = c
      BY <2>1 DEF StartCommand, BatchShape, ReportIsTrue
    <2>2. CASE d # c
      BY <2>2, ReportStays DEF StartCommand, environment
    <2>. QED  BY <2>1, <2>2
  <1>4. DetectionIsShared'
    BY DEF StartCommand, DetectionIsShared
  <1>. QED  BY <1>1, <1>2, <1>3, <1>4 DEF ReportsAreTrue, ReportIsTrue

(* Whoever gets a registry has no report yet.                              *)
LEMMA ReportsWait ==
  ASSUME Inv, NEW c \in Command, report[c] = << >>, NEW r, HaveRegistry(c, r),
         UNCHANGED <<report, machine, job>>
  PROVE  ReportsAreTrue'
  <1>1. ASSUME NEW d \in Command PROVE ReportIsTrue(d)'
    <2>1. CASE d = c
      BY <2>1, ReportStays
    <2>2. CASE d # c
      BY <2>2, ReportStays DEF HaveRegistry, Inv, InventoriesAreTrue
    <2>. QED  BY <2>1, <2>2
  <1>. QED  BY <1>1 DEF ReportsAreTrue, ReportIsTrue

LEMMA ReportsKept ==
  ASSUME Inv, UNCHANGED <<report, registry, job>>, machine \subseteq machine'
  PROVE  ReportsAreTrue'
  BY ReportStays DEF ReportsAreTrue, ReportIsTrue

LEMMA CacheStep ==
  ASSUME Inv, NEW c \in Command, ReadCache(c) \/ TakeLock(c) \/ KeepFirst(c) \/ Store(c)
  PROVE  Inv'
  <1>. USE DEF Inv
  <1>a. scan[c] \in Scan(machine) /\ scan[c].found \in FoundOn(machine)
    BY DEF InventoriesAreTrue, Scan
  <1>b. NoScan \in Scan(machine)
    BY DEF NoScan, Scan, FoundOn
  <1>1. CASE ReadCache(c)
    <2>1. InventoriesAreTrue'
      BY <1>1 DEF ReadCache, HaveRegistry, InventoriesAreTrue, environment
    <2>2. BatchShape'
      <3>1. CASE cache = NoRegistry
        BY <1>1, <3>1
           DEF ReadCache, BatchShape, Move, Label, Detecting, installing, environment
      <3>2. CASE cache # NoRegistry
        BY <1>1, <3>2
           DEF ReadCache, HaveRegistry, BatchShape, InventoriesAreTrue, Move, Label,
               Detecting, installing, environment
      <3>. QED  BY <3>1, <3>2
    <2>3. ReportsAreTrue'
      <3>1. CASE cache = NoRegistry
        BY <1>1, <3>1, ReportsKept DEF ReadCache, installing, environment
      <3>2. CASE cache # NoRegistry
        BY <1>1, <3>2, ReportsWait DEF ReadCache, installing, environment, BatchShape
      <3>. QED  BY <3>1, <3>2
    <2>4. DetectionIsShared'
      BY <1>1 DEF ReadCache, DetectionIsShared
    <2>. QED  BY <2>1, <2>2, <2>3, <2>4
  <1>2. CASE TakeLock(c)
    <2>1. InventoriesAreTrue'
      BY <1>2 DEF TakeLock, HaveRegistry, InventoriesAreTrue, environment
    <2>2. BatchShape'
      <3>1. CASE cache = NoRegistry
        BY <1>2, <3>1
           DEF TakeLock, BatchShape, Move, Label, Detecting, installing, environment
      <3>2. CASE cache # NoRegistry
        BY <1>2, <3>2
           DEF TakeLock, HaveRegistry, BatchShape, InventoriesAreTrue, Move, Label,
               Detecting, installing, environment
      <3>. QED  BY <3>1, <3>2
    <2>3. ReportsAreTrue'
      <3>1. CASE cache = NoRegistry
        BY <1>2, <3>1, ReportsKept DEF TakeLock, installing, environment
      <3>2. CASE cache # NoRegistry
        BY <1>2, <3>2, ReportsWait DEF TakeLock, installing, environment, BatchShape
      <3>. QED  BY <3>1, <3>2
    <2>4. DetectionIsShared'
      BY <1>2 DEF TakeLock, DetectionIsShared
    <2>. QED  BY <2>1, <2>2, <2>3, <2>4
  <1>3. CASE KeepFirst(c)
    <2>1. InventoriesAreTrue'
      BY <1>3, <1>a, <1>b DEF KeepFirst, HaveRegistry, End, InventoriesAreTrue, environment
    <2>2. BatchShape'
      BY <1>3, <1>a DEF KeepFirst, HaveRegistry, BatchShape, InventoriesAreTrue, Move,
                  Label, Detecting, installing, environment
    <2>3. ReportsAreTrue'
      BY <1>3, ReportsWait DEF KeepFirst, installing, environment, BatchShape
    <2>4. DetectionIsShared'
      BY <1>3 DEF KeepFirst, DetectionIsShared
    <2>. QED  BY <2>1, <2>2, <2>3, <2>4
  <1>4. CASE Store(c)
    <2>1. InventoriesAreTrue'
      BY <1>4, <1>a, <1>b DEF Store, End, InventoriesAreTrue, environment
    <2>2. BatchShape'
      BY <1>4 DEF Store, BatchShape, Move, Label, Detecting, installing, environment
    <2>3. ReportsAreTrue'
      BY <1>4, ReportsKept DEF Store, installing, environment
    <2>4. DetectionIsShared'
      BY <1>4 DEF Store, DetectionIsShared
    <2>. QED  BY <2>1, <2>2, <2>3, <2>4
  <1>. QED  BY <1>1, <1>2, <1>3, <1>4

-----------------------------------------------------------------------------
(* Detections.                                                             *)

(* A step of a detection leaves everything but the scan and the file.      *)
LEMMA DetectionKeeps ==
  ASSUME Inv, NEW c \in Command, UNCHANGED detecting,
         pc[c] \in Detecting, NEW label \in Detecting, pc' = [pc EXCEPT ![c] = label],
         scan' \in [Command -> Scan(machine)],
         export' \in [state : {"none", "partial", "complete"}, packages : SUBSET machine]
  PROVE  Inv'
  <1>. USE DEF Inv, detecting, environment, installing
  <1>1. InventoriesAreTrue'
    BY DEF InventoriesAreTrue
  <1>2. BatchShape'
    BY DEF BatchShape, Label, Detecting
  <1>3. ReportsAreTrue'
    BY ReportsKept
  <1>4. DetectionIsShared'
    BY DEF DetectionIsShared
  <1>. QED  BY <1>1, <1>2, <1>3, <1>4

(* What a detection finds at a manager it has asked.                       *)
LEMMA NextScan ==
  ASSUME NEW s \in Scan(machine), NEW m \in Manager,
         NEW packages \in SUBSET machine
  PROVE  /\ [s EXCEPT !.at = @ + 1,
                      !.found = [available |-> @.available \cup {m},
                                 installed |-> @.installed \cup packages]] \in Scan(machine)
         /\ [s EXCEPT !.at = @ + 1, !.found.available = @ \cup {m},
                      !.unread = @ \cup {m}] \in Scan(machine)
  <1>1. s.found \in FoundOn(machine) /\ s.at + 1 \in Nat /\ s.unread \cup {m} \subseteq Manager
    BY DEF Scan
  <1>2. /\ [available |-> s.found.available \cup {m},
            installed |-> s.found.installed \cup packages] \in FoundOn(machine)
        /\ [s.found EXCEPT !.available = @ \cup {m}] \in FoundOn(machine)
    BY <1>1 DEF FoundOn
  <1>. QED  BY <1>1, <1>2 DEF Scan

LEMMA DetectStep ==
  ASSUME Inv, NEW c \in Command, Detect(c)
  PROVE  Inv'
  <1>a. /\ scan \in [Command -> Scan(machine)]
        /\ export \in [state : {"none", "partial", "complete"}, packages : SUBSET machine]
        /\ pc \in [Command -> Label]
    BY DEF Inv, InventoriesAreTrue, BatchShape
  <1>b. scan[c] \in Scan(machine) /\ scan[c].found \in FoundOn(machine)
    BY <1>a DEF Scan
  <1>c. NoFile \in [state : {"none", "partial", "complete"}, packages : SUBSET machine]
        /\ Partial \in [state : {"none", "partial", "complete"}, packages : SUBSET machine]
    BY DEF NoFile, Partial
  <1>d. \A m \in Manager : InstalledBy(m) \subseteq machine
    BY DEF InstalledBy
  <1>e. "winget" \in Manager
    BY DEF Manager, Managers
  <1>f. \A packages \in SUBSET machine :
          Complete(packages) \in [state : {"none", "partial", "complete"},
                                  packages : SUBSET machine]
    BY DEF Complete
  <1>1. ASSUME NEW m \in Manager, SkipAbsent(c, m) PROVE Inv'
    <2>1. pc[c] = "scanning" /\ pc' = [pc EXCEPT ![c] = "scanning"]
      BY <1>1, <1>a DEF SkipAbsent, AtManager
    <2>2. scan' \in [Command -> Scan(machine)]
      BY <1>1, <1>a, <1>b DEF SkipAbsent, Scan
    <2>. QED  BY <1>1, <1>a, <2>1, <2>2, DetectionKeeps DEF SkipAbsent, Detecting
  <1>2. ASSUME NEW m \in Manager, ReadInventory(c, m) PROVE Inv'
    <2>1. pc[c] = "scanning" /\ pc' = [pc EXCEPT ![c] = "scanning"]
      BY <1>2, <1>a DEF ReadInventory, AtManager
    <2>2. scan' \in [Command -> Scan(machine)]
      BY <1>2, <1>a, <1>b, <1>d, NextScan DEF ReadInventory
    <2>. QED  BY <1>2, <1>a, <2>1, <2>2, DetectionKeeps DEF ReadInventory, Detecting
  <1>3. ASSUME NEW m \in Manager, InventoryFails(c, m) PROVE Inv'
    <2>1. pc[c] = "scanning" /\ pc' = [pc EXCEPT ![c] = "scanning"]
      BY <1>3, <1>a DEF InventoryFails, AtManager
    <2>2. scan' \in [Command -> Scan(machine)]
      BY <1>3, <1>a, <1>b, NextScan DEF InventoryFails
    <2>3. export' \in [state : {"none", "partial", "complete"}, packages : SUBSET machine]
      BY <1>3, <1>a, <1>c, <1>d, <1>f DEF InventoryFails
    <2>. QED  BY <1>3, <1>a, <2>1, <2>2, <2>3, DetectionKeeps DEF InventoryFails, Detecting
  <1>4. CASE BeginExport(c)
    <2>1. scan' \in [Command -> Scan(machine)]
      BY <1>4, <1>a, <1>b, <1>d, <1>e DEF BeginExport, Scan, FoundOn
    <2>. QED  BY <1>4, <1>c, <2>1, DetectionKeeps DEF BeginExport, AtManager, Move, Detecting
  <1>5. CASE EndExport(c)
    <2>1. Complete(scan[c].seen)
            \in [state : {"none", "partial", "complete"}, packages : SUBSET machine]
      BY <1>b, <1>f DEF Scan
    <2>. QED  BY <1>5, <1>a, <1>c, <2>1, DetectionKeeps DEF EndExport, Move, Detecting
  <1>6. CASE ReadExport(c)
    <2>1. scan' \in [Command -> Scan(machine)]
      <3>1. export.packages \subseteq machine
        BY <1>a
      <3>2. CASE export = NoFile
        BY <1>6, <1>a, <1>b, <3>2 DEF ReadExport, Scan
      <3>3. CASE export # NoFile
        <4>1. [scan[c].found EXCEPT !.installed = @ \cup export.packages] \in FoundOn(machine)
          BY <1>b, <3>1 DEF FoundOn
        <4>2. scan' = [scan EXCEPT ![c].found.installed = @ \cup export.packages]
          BY <1>6, <3>3 DEF ReadExport
        <4>. QED  BY <1>a, <1>b, <4>1, <4>2 DEF Scan
      <3>. QED  BY <3>2, <3>3
    <2>. QED  BY <1>6, <1>a, <2>1, DetectionKeeps DEF ReadExport, Move, Detecting
  <1>7. CASE RemoveExport(c)
    <2>1. scan' \in [Command -> Scan(machine)]
      BY <1>7, <1>a, <1>b DEF RemoveExport, Scan
    <2>. QED  BY <1>7, <1>a, <1>c, <2>1, DetectionKeeps DEF RemoveExport, Move, Detecting
  <1>8. CASE WritesNothing(c)
    <2>1. scan' \in [Command -> Scan(machine)]
      BY <1>8, <1>a, <1>b, <1>e DEF WritesNothing, Scan, FoundOn
    <2>. QED  BY <1>8, <1>a, <2>1, DetectionKeeps DEF WritesNothing, AtManager, Move, Detecting
  <1>. QED  BY <1>1, <1>2, <1>3, <1>4, <1>5, <1>6, <1>7, <1>8 DEF Detect

-----------------------------------------------------------------------------
(* Batches.                                                                *)

(* What a batch adds to the machine makes no inventory false.              *)
LEMMA BatchKeeps ==
  ASSUME Inv, NEW c \in Command, UNCHANGED batch, machine \subseteq machine',
         pc[c] \in {"elevating", "installing", "running"},
         NEW label \in {"idle", "scanning", "installing", "running"},
         pc' = [pc EXCEPT ![c] = label],
         report' \in [Command -> Seq(Outcome)],
         \A d \in Command \ {c} : report'[d] = report[d],
         ReportsAreTrue'
  PROVE  Inv'
  <1>. USE DEF Inv, batch
  <1>1. InventoriesAreTrue'
    BY Grows DEF InventoriesAreTrue
  <1>2. BatchShape'
    BY Grows DEF BatchShape, Label, Detecting
  <1>3. DetectionIsShared'
    BY DEF DetectionIsShared
  <1>. QED  BY <1>1, <1>2, <1>3

(* A step that leaves the reports alone.                                   *)
LEMMA BatchMoves ==
  ASSUME Inv, NEW c \in Command, UNCHANGED <<batch, machine, report>>,
         pc[c] \in {"elevating", "installing", "running"},
         NEW label \in {"idle", "scanning", "installing", "running"},
         pc' = [pc EXCEPT ![c] = label]
  PROVE  Inv'
  <1>1. ReportsAreTrue'
    BY ReportsKept DEF batch
  <1>. QED  BY <1>1, BatchKeeps DEF Inv, BatchShape

(* A step that reports on the next item.                                   *)
LEMMA BatchReports ==
  ASSUME Inv, NEW c \in Command, UNCHANGED batch, machine \subseteq machine',
         pc[c] \in {"installing", "running"}, pc' = [pc EXCEPT ![c] = "installing"],
         NEW outcome \in Outcome, Report(c, outcome),
         outcome # "failed" => Item(c) \in machine'
  PROVE  Inv'
  <1>1. ReportsAreTrue' /\ report' \in [Command -> Seq(Outcome)]
    BY ReportGrows DEF batch
  <1>2. \A d \in Command \ {c} : report'[d] = report[d]
    BY DEF Report, Inv, BatchShape
  <1>. QED  BY <1>1, <1>2, BatchKeeps

LEMMA InstallStep ==
  ASSUME Inv, NEW c \in Command, Install(c)
  PROVE  Inv'
  <1>a. pc \in [Command -> Label]
    BY DEF Inv, BatchShape
  <1>1. CASE GetHelper(c)
    BY <1>1, BatchMoves DEF GetHelper, Move
  <1>2. CASE NoHelper(c)
    BY <1>2, BatchMoves DEF NoHelper, Move, installing
  <1>3. CASE SkipInstalled(c)
    <2>1. Item(c) \in machine
      BY <1>3 DEF SkipInstalled, HasItem, Inv, BatchShape, FoundOn
    <2>2. pc[c] = "installing" /\ pc' = [pc EXCEPT ![c] = "installing"]
      BY <1>3, <1>a DEF SkipInstalled, HasItem
    <2>. QED  BY <1>3, <2>1, <2>2, BatchReports DEF SkipInstalled, Outcome
  <1>4. CASE CannotRun(c)
    <2>1. pc[c] = "installing" /\ pc' = [pc EXCEPT ![c] = "installing"]
      BY <1>4, <1>a DEF CannotRun, HasItem
    <2>. QED  BY <1>4, <2>1, BatchReports DEF CannotRun, Outcome
  <1>5. CASE RunItem(c)
    BY <1>5, BatchMoves DEF RunItem, HasItem, Move, installing
  <1>6. CASE Installed(c)
    BY <1>6, BatchReports DEF Installed, IsAnswered, Answer, Move, Outcome
  <1>7. CASE AlreadyThere(c)
    BY <1>7, BatchReports DEF AlreadyThere, IsAnswered, Answer, Move, Outcome
  <1>8. CASE Failed(c)
    BY <1>8, BatchReports DEF Failed, IsAnswered, Answer, Move, Outcome
  <1>9. CASE AnswerLost(c)
    BY <1>9, BatchReports DEF AnswerLost, Move, Outcome
  <1>10. CASE FinishBatch(c)
    BY <1>10, BatchMoves DEF FinishBatch, Move
  <1>. QED  BY <1>1, <1>2, <1>3, <1>4, <1>5, <1>6, <1>7, <1>8, <1>9, <1>10 DEF Install

(* A helper that dies takes no package and no report with it.              *)
LEMMA StandsStill ==
  ASSUME Inv, UNCHANGED <<batch, machine, pc, report>>
  PROVE  Inv'
  <1>. USE DEF Inv, batch
  <1>1. InventoriesAreTrue'
    BY DEF InventoriesAreTrue
  <1>2. BatchShape'
    BY DEF BatchShape
  <1>3. ReportsAreTrue'
    BY ReportsKept
  <1>4. DetectionIsShared'
    BY DEF DetectionIsShared
  <1>. QED  BY <1>1, <1>2, <1>3, <1>4

-----------------------------------------------------------------------------
(* Natural numbers: a set of them has a least one, and has all of them if  *)
(* it has the first and the next of each.                                  *)

LEMMA Least ==
  ASSUME NEW T \in SUBSET Nat, T # {}
  PROVE  \E u \in T : \A v \in T : u <= v
  <1>1. PICK u \in T : \A v \in T : <<v, u>> \notin OpToRel(<, Nat)
    BY NatLessThanWellFounded, WFMin, Zenon
  <1>2. u \in Nat /\ \A v \in T : v \in Nat
    OBVIOUS
  <1>3. \A v \in T : ~ (v < u)
    BY <1>1, <1>2, Zenon DEF OpToRel
  <1>. QED  BY <1>2, <1>3

LEMMA AllOfNat ==
  ASSUME NEW T, 0 \in T, \A n \in Nat : n \in T => n + 1 \in T
  PROVE  \A n \in Nat : n \in T
  <1>. DEFINE missing == Nat \ T
  <1>1. SUFFICES ASSUME missing # {} PROVE FALSE
    OBVIOUS
  <1>2. PICK u \in missing : \A v \in missing : u <= v
    BY <1>1, Least
  <1>3. u # 0 /\ u - 1 \in Nat /\ (u - 1) + 1 = u
    BY <1>2
  <1>4. u - 1 \in T
    BY <1>2, <1>3
  <1>. QED  BY <1>2, <1>3, <1>4

-----------------------------------------------------------------------------
(* The plan of a batch.                                                    *)

(* What is planned with some managers is one of theirs.                    *)
Offer(available) == [app : App, manager : available]

LEMMA PreferredSourceType ==
  ASSUME NEW a \in App, NEW available \in SUBSET Manager, Usable(a, available) # {}
  PROVE  PreferredSource(a, available) \in Offer(available)
  <1>1. Usable(a, available) \in SUBSET Nat
    BY SourcesAssumption DEF Usable
  <1>2. \E i \in Usable(a, available) : \A j \in Usable(a, available) : i <= j
    BY <1>1, Least
  <1>. DEFINE first == CHOOSE i \in Usable(a, available) :
                         \A j \in Usable(a, available) : i <= j
  <1>3. first \in Usable(a, available)
    BY <1>2
  <1>4. PreferredSource(a, available) = [app |-> a, manager |-> Sources[a][first]]
    BY DEF PreferredSource
  <1>. HIDE DEF first
  <1>5. Sources[a][first] \in available
    BY <1>3 DEF Usable
  <1>. QED  BY <1>4, <1>5 DEF Offer

(* One round of the loop.                                                  *)
Round(g, n, apps, available) ==
  IF n = 0 THEN << >>
  ELSE IF Usable(apps[n], available) = {} THEN g[n - 1]
  ELSE Append(g[n - 1], PreferredSource(apps[n], available))

Loop(g, k, apps, available) == g = [n \in 0 .. k |-> Round(g, n, apps, available)]

(* The loop is defined for any number of rounds.                           *)
LEMMA LoopExists ==
  ASSUME NEW apps, NEW available, NEW rounds \in Nat
  PROVE  \E g : Loop(g, rounds, apps, available)
  <1>. DEFINE T == {k \in Nat : \E g : Loop(g, k, apps, available)}
  <1>1. 0 \in T
    <2>. DEFINE g == [n \in 0 .. 0 |-> << >>]
    <2>1. Loop(g, 0, apps, available)
      BY DEF Loop, Round
    <2>. QED  BY <2>1
  <1>2. ASSUME NEW k \in Nat, k \in T PROVE k + 1 \in T
    <2>1. PICK g : Loop(g, k, apps, available)
      BY <1>2
    <2>. DEFINE h == [n \in 0 .. k + 1 |->
                        IF n = k + 1 THEN Round(g, n, apps, available) ELSE g[n]]
    <2>2. ASSUME NEW n \in 0 .. k + 1 PROVE h[n] = Round(h, n, apps, available)
      <3>1. CASE n = k + 1
        <4>1. h[n - 1] = g[n - 1] /\ h[n] = Round(g, n, apps, available)
          BY <3>1
        <4>. HIDE DEF h
        <4>. QED  BY <4>1 DEF Round
      <3>2. CASE n \in 0 .. k
        <4>1. h[n] = g[n] /\ (n # 0 => h[n - 1] = g[n - 1])
          BY <3>2
        <4>. HIDE DEF h
        <4>2. g[n] = Round(g, n, apps, available)
          BY <2>1, <3>2, Zenon DEF Loop
        <4>. QED  BY <4>1, <4>2 DEF Round
      <3>. QED  BY <3>1, <3>2
    <2>3. h = [n \in 0 .. k + 1 |-> Round(h, n, apps, available)]
      BY <2>2
    <2>. HIDE DEF h
    <2>. QED  BY <2>3 DEF Loop
  <1>. HIDE DEF T
  <1>3. rounds \in T
    BY <1>1, <1>2, AllOfNat
  <1>. QED  BY <1>3 DEF T

LEMMA ResolvedIs ==
  ASSUME NEW apps \in Seq(App), NEW available
  PROVE  Loop(Resolved(apps, available), Len(apps), apps, available)
  <1>1. \E g : Loop(g, Len(apps), apps, available)
    BY LoopExists
  <1>2. Resolved(apps, available) = CHOOSE g : Loop(g, Len(apps), apps, available)
    BY DEF Resolved, Loop, Round
  <1>. QED  BY <1>1, <1>2, Zenon

(* Whatever is selected, a plan is a sequence of packages of the managers  *)
(* it was made with.                                                       *)
LEMMA ResolveType ==
  ASSUME NEW apps \in Seq(App), NEW available \in SUBSET Manager
  PROVE  Resolve(apps, available) \in Seq(Offer(available))
  <1>. DEFINE f == Resolved(apps, available)
              T == {k \in Nat : k <= Len(apps) => f[k] \in Seq(Offer(available))}
  <1>1. ASSUME NEW n \in 0 .. Len(apps) PROVE f[n] = Round(f, n, apps, available)
    BY ResolvedIs, Zenon DEF Loop
  <1>. HIDE DEF f
  <1>2. 0 \in T
    <2>1. f[0] = << >>
      BY <1>1, 0 \in 0 .. Len(apps) DEF Round
    <2>2. << >> \in Seq(Offer(available))
      OBVIOUS
    <2>. QED  BY <2>1, <2>2, Zenon
  <1>3. ASSUME NEW k \in Nat, k \in T PROVE k + 1 \in T
    <2>1. SUFFICES ASSUME k + 1 <= Len(apps) PROVE f[k + 1] \in Seq(Offer(available))
      OBVIOUS
    <2>2. f[k] \in Seq(Offer(available)) /\ apps[k + 1] \in App
      BY <1>3, <2>1
    <2>3. f[k + 1] = IF Usable(apps[k + 1], available) = {} THEN f[k]
                     ELSE Append(f[k], PreferredSource(apps[k + 1], available))
      <3>1. k + 1 \in 0 .. Len(apps) /\ k + 1 # 0 /\ (k + 1) - 1 = k
        BY <2>1
      <3>2. f[k + 1] = Round(f, k + 1, apps, available)
        BY <1>1, <3>1
      <3>. QED  BY <3>1, <3>2 DEF Round
    <2>. QED  BY <2>2, <2>3, PreferredSourceType
  <1>. HIDE DEF T
  <1>4. Len(apps) \in T
    BY <1>2, <1>3, AllOfNat
  <1>. QED  BY <1>4 DEF T, f, Resolve

-----------------------------------------------------------------------------
(* The types.                                                              *)

(* A detection is at winget while it exports, and leaves nothing behind; a *)
(* package manager runs for an item of the plan.                           *)
Running ==
  \A c \in Command :
    /\ pc[c] \in Detecting \ {"scanning"} => scan[c].at = 1
    /\ pc[c] \notin Detecting => scan[c] = NoScan
    /\ pc[c] = "running" => Len(report[c]) < Len(Plan(c))

Typed == TypeOK /\ Running

ScanType == [at : 1 .. Len(Managers) + 1, found : Registry,
             seen : SUBSET Package, unread : SUBSET Manager]
FileType == [state : {"none", "partial", "complete"}, packages : SUBSET Package]

LEMMA ManagersAre ==
  /\ Len(Managers) = 3
  /\ DOMAIN Managers = 1 .. 3
  /\ Managers[1] = "winget"
  /\ \A i \in 2 .. 3 : Managers[i] # "winget"
  /\ Manager = {"winget", "choco", "scoop"}
  BY DEF Managers, Manager

LEMMA NoScanType == NoScan \in ScanType
  BY ManagersAre DEF NoScan, ScanType, Registry

LEMMA InitTyped == Init => Typed
  <1>. SUFFICES ASSUME Init PROVE Typed
    OBVIOUS
  <1>1. TypeOK
    <2>1. scan \in [Command -> ScanType]
      BY NoScanType DEF Init
    <2>2. machine \subseteq Package /\ present \subseteq Manager
      BY MachinesAssumption DEF Init
    <2>3. job \in [Command -> [kind : {"list", "refresh", "install"}, apps : Seq(App)]]
      BY DEF Init, NoJob
    <2>4. export \in FileType
      BY DEF Init, NoFile, FileType
    <2>. QED  BY <2>1, <2>2, <2>3, <2>4, BoundsAssumption DEF Init, TypeOK, ScanType, FileType
  <1>2. Running
    BY DEF Init, Running, Detecting
  <1>. QED  BY <1>1, <1>2 DEF Typed

(* Whoever installs has a registry of the right type.                      *)
LEMMA HasRegistry ==
  ASSUME Inv, machine \subseteq Package, NEW c \in Command,
         pc[c] \in {"elevating", "installing", "running"}
  PROVE  registry[c] \in Registry /\ registry[c] # NoRegistry
  <1>1. registry[c] \in FoundOn(machine)
    BY DEF Inv, BatchShape
  <1>. QED  BY <1>1, RegistryAssumption DEF FoundOn, Registry

LEMMA PlanType ==
  ASSUME TypeOK, NEW c \in Command, registry[c] # NoRegistry
  PROVE  Plan(c) \in Seq(Offer(registry[c].available)) /\ Plan(c) \in Seq(Package)
  <1>1. registry[c] \in Registry /\ job[c].apps \in Seq(App)
    BY DEF TypeOK
  <1>2. registry[c].available \in SUBSET Manager
    BY <1>1 DEF Registry
  <1>3. Plan(c) \in Seq(Offer(registry[c].available))
    BY <1>1, <1>2, ResolveType DEF Plan
  <1>4. Offer(registry[c].available) \subseteq Package
    BY <1>2 DEF Offer, Package
  <1>. QED  BY <1>3, <1>4

LEMMA ItemType ==
  ASSUME Inv, TypeOK, NEW c \in Command, pc[c] \in {"installing", "running"},
         Len(report[c]) < Len(Plan(c))
  PROVE  Item(c) \in Package
  <1>1. Plan(c) \in Seq(Package)
    BY HasRegistry, PlanType DEF TypeOK
  <1>2. Len(report[c]) \in Nat
    BY DEF TypeOK
  <1>. QED  BY <1>1, <1>2 DEF Item

LEMMA StartTyped ==
  ASSUME Typed, Inv', NEW c \in Command,
         NEW kind \in {"list", "refresh", "install"}, NEW apps \in Seq(App),
         StartCommand(c, kind, apps)
  PROVE  Typed'
  <1>0. pc' = [pc EXCEPT ![c] = IF kind = "refresh" THEN "scanning" ELSE "looking"]
    BY StartMoves
  <1>. USE DEF Typed, StartCommand, environment
  <1>1. TypeOK'
    <2>1. job' \in [Command -> [kind : {"list", "refresh", "install"}, apps : Seq(App)]]
      BY DEF TypeOK
    <2>2. starts' \in 0 .. MaxStarts
      BY BoundsAssumption DEF TypeOK
    <2>3. \A d \in Command : pc'[d] \in {"elevating", "installing", "running"} =>
                               registry'[d] # NoRegistry
      BY HasRegistry DEF TypeOK, Move
    <2>4. /\ pc' \in [Command -> Label]
          /\ registry' \in [Command -> Registry \cup {NoRegistry}]
          /\ report' \in [Command -> Seq(Outcome)]
          /\ session' \in [Command -> {"none", "up", "down"}]
          /\ sinkLeft' \in [Command -> BOOLEAN]
      BY <1>0 DEF TypeOK, Label
    <2>5. began' \in [Command -> SUBSET Package]
      BY DEF TypeOK, Begin
    <2>. QED  BY <2>1, <2>2, <2>3, <2>4, <2>5 DEF TypeOK, Label
  <1>2. Running'
    <2>1. ASSUME NEW d \in Command, d # c PROVE Plan(d)' = Plan(d)
      BY <2>1, PlanStays DEF TypeOK
    <2>. QED  BY <2>1 DEF Running, TypeOK, Move, Detecting
  <1>. QED  BY <1>1, <1>2

LEMMA HaveRegistryTyped ==
  ASSUME TypeOK, NEW c \in Command, NEW r \in Registry, r # NoRegistry, HaveRegistry(c, r)
  PROVE  /\ pc' \in [Command -> Label]
         /\ registry' \in [Command -> Registry \cup {NoRegistry}]
         /\ \A d \in Command : pc'[d] \in {"elevating", "installing", "running"} =>
                                registry'[d] # NoRegistry
  BY DEF HaveRegistry, Move, TypeOK, Label

LEMMA CacheTyped ==
  ASSUME Typed, NEW c \in Command, ReadCache(c) \/ TakeLock(c) \/ KeepFirst(c) \/ Store(c)
  PROVE  Typed'
  <1>. USE DEF Typed, Move, environment, installing, bounds, history, Begin, End
  <1>a. scan[c].found \in Registry /\ scan[c].found # NoRegistry
    BY RegistryAssumption DEF TypeOK
  <1>b. /\ scan \in [Command -> ScanType]
        /\ [scan EXCEPT ![c] = NoScan] \in [Command -> ScanType]
    BY NoScanType DEF TypeOK, ScanType
  <1>1. TypeOK'
    <2>1. CASE ReadCache(c)
      <3>1. CASE cache = NoRegistry
        BY <2>1, <3>1 DEF ReadCache, TypeOK
      <3>2. CASE cache # NoRegistry
        <4>1. cache \in Registry /\ HaveRegistry(c, cache)
          BY <2>1, <3>2 DEF ReadCache, TypeOK
        <4>. QED  BY <2>1, <3>2, <4>1, HaveRegistryTyped DEF ReadCache, TypeOK, Label
      <3>. QED  BY <3>1, <3>2
    <2>2. CASE TakeLock(c)
      <3>1. CASE cache = NoRegistry
        <4>1. pc' \in [Command -> Label] /\ began' \in [Command -> SUBSET Package]
          <5>1. pc' = [pc EXCEPT ![c] = "scanning"] /\ began' = [began EXCEPT ![c] = machine]
            BY <2>2, <3>1 DEF TakeLock
          <5>. QED  BY <5>1 DEF TypeOK, Label
        <4>2. \A d \in Command : pc'[d] \in {"elevating", "installing", "running"} =>
                                   registry'[d] # NoRegistry
          BY <2>2, <3>1 DEF TakeLock, TypeOK
        <4>3. lock' \in Command \cup {NoCommand} /\ UNCHANGED <<faults, starts, crossed>>
          BY <2>2, <3>1 DEF TakeLock
        <4>. QED  BY <2>2, <3>1, <4>1, <4>2, <4>3 DEF TakeLock, TypeOK, Label
      <3>2. CASE cache # NoRegistry
        <4>1. cache \in Registry /\ HaveRegistry(c, cache)
          BY <2>2, <3>2 DEF TakeLock, TypeOK
        <4>. QED  BY <2>2, <3>2, <4>1, HaveRegistryTyped DEF TakeLock, TypeOK, Label
      <3>. QED  BY <3>1, <3>2
    <2>3. CASE KeepFirst(c)
      BY <2>3, <1>a, <1>b, HaveRegistryTyped DEF KeepFirst, TypeOK, ScanType, Label
    <2>4. CASE Store(c)
      BY <2>4, <1>a, <1>b DEF Store, TypeOK, ScanType
    <2>. QED  BY <2>1, <2>2, <2>3, <2>4
  <1>2. Running'
    <2>1. /\ pc'[c] \in {"idle", "waiting", "elevating", "scanning"}
          /\ pc'[c] = "scanning" => scan'[c] = NoScan
          /\ pc'[c] # "scanning" => scan'[c] = NoScan
      BY DEF ReadCache, TakeLock, KeepFirst, Store, HaveRegistry, Running, TypeOK, Detecting
    <2>2. ASSUME NEW d \in Command, d # c
          PROVE  /\ pc'[d] = pc[d] /\ scan'[d] = scan[d] /\ report'[d] = report[d]
                 /\ registry'[d] = registry[d] /\ job'[d] = job[d]
      BY <2>2 DEF ReadCache, TakeLock, KeepFirst, Store, HaveRegistry, TypeOK
    <2>3. ASSUME NEW d \in Command, d # c PROVE Plan(d)' = Plan(d)
      BY <2>2, <2>3, PlanStays
    <2>. QED  BY <2>1, <2>2, <2>3 DEF Running, Detecting
  <1>. QED  BY <1>1, <1>2

LEMMA DetectionTyped ==
  ASSUME Typed, NEW c \in Command, UNCHANGED detecting,
         pc[c] \in Detecting, NEW label \in Detecting, pc' = [pc EXCEPT ![c] = label],
         NEW s \in ScanType, scan' = [scan EXCEPT ![c] = s], label # "scanning" => s.at = 1,
         export' \in FileType, faults' \in 0 .. MaxFaults, crossed' \subseteq Command
  PROVE  Typed'
  <1>. USE DEF Typed, detecting, environment, installing
  <1>1. pc' \in [Command -> Label] /\ scan' \in [Command -> ScanType]
    BY DEF TypeOK, Label, Detecting, ScanType
  <1>2. \A d \in Command : pc'[d] \in {"elevating", "installing", "running"} =>
                             registry'[d] # NoRegistry
    BY DEF TypeOK, Detecting
  <1>3. TypeOK'
    BY <1>1, <1>2 DEF TypeOK, Label, ScanType, FileType
  <1>4. \A d \in Command : Plan(d)' = Plan(d)
    BY PlanStays
  <1>5. Running'
    BY <1>4 DEF Running, TypeOK, Detecting
  <1>. QED  BY <1>3, <1>5

LEMMA DetectTyped ==
  ASSUME Typed, NEW c \in Command, Detect(c)
  PROVE  Typed'
  <1>a. /\ scan \in [Command -> ScanType] /\ scan[c] \in ScanType
        /\ export \in FileType /\ faults \in 0 .. MaxFaults /\ MaxFaults \in Nat
        /\ pc \in [Command -> Label] /\ machine \subseteq Package /\ crossed \subseteq Command
    BY BoundsAssumption DEF Typed, TypeOK, ScanType, FileType, Label
  <1>b. /\ scan[c].found \in Registry /\ scan[c].found.available \subseteq Manager
        /\ scan[c].found.installed \subseteq Package /\ scan[c].unread \subseteq Manager
        /\ scan[c].at \in 1 .. 4
    BY <1>a, ManagersAre DEF ScanType, Registry
  <1>c. /\ NoFile \in FileType /\ Partial \in FileType
        /\ \A packages \in SUBSET Package : Complete(packages) \in FileType
    BY DEF NoFile, Partial, Complete, FileType
  <1>d. \A m \in Manager : InstalledBy(m) \subseteq Package
    BY <1>a DEF InstalledBy
  <1>e. /\ pc[c] = "scanning" => pc = [pc EXCEPT ![c] = "scanning"]
        /\ pc[c] \in {"exporting", "reading", "removing"} => scan[c].at = 1
    BY <1>a DEF Typed, Running, Detecting
  <1>f. Cross(c) => crossed' \subseteq Command
    BY <1>a DEF Cross
  <1>. USE DEF ScanType, Registry
  <1>1. ASSUME NEW m \in Manager, SkipAbsent(c, m) PROVE Typed'
    <2>. DEFINE s == [scan[c] EXCEPT !.at = @ + 1]
    <2>1. s \in ScanType
      BY <1>1, <1>b, <1>a, ManagersAre DEF SkipAbsent, AtManager
    <2>2. scan' = [scan EXCEPT ![c] = s]
      BY <1>1, <1>a DEF SkipAbsent
    <2>. HIDE DEF s, ScanType
    <2>. QED  BY <1>1, <1>a, <1>e, <2>1, <2>2, DetectionTyped
              DEF SkipAbsent, AtManager, Detecting
  <1>2. ASSUME NEW m \in Manager, ReadInventory(c, m) PROVE Typed'
    <2>. DEFINE found == [available |-> scan[c].found.available \cup {m},
                          installed |-> scan[c].found.installed \cup InstalledBy(m)]
                s == [scan[c] EXCEPT !.at = @ + 1, !.found = found]
    <2>1. s \in ScanType
      <3>1. found \in Registry /\ scan[c].at + 1 \in 1 .. Len(Managers) + 1
        BY <1>2, <1>b, <1>d, ManagersAre DEF ReadInventory, AtManager
      <3>. HIDE DEF found, Registry
      <3>. QED  BY <3>1, <1>a
    <2>2. scan' = [scan EXCEPT ![c] = s]
      BY <1>2, <1>a DEF ReadInventory
    <2>. HIDE DEF s, ScanType
    <2>. QED  BY <1>2, <1>a, <1>e, <2>1, <2>2, DetectionTyped
              DEF ReadInventory, AtManager, Detecting
  <1>3. ASSUME NEW m \in Manager, InventoryFails(c, m) PROVE Typed'
    <2>. DEFINE found == [scan[c].found EXCEPT !.available = @ \cup {m}]
                s == [scan[c] EXCEPT !.at = @ + 1, !.found = found, !.unread = @ \cup {m}]
    <2>1. s \in ScanType
      <3>1. /\ found \in Registry /\ scan[c].at + 1 \in 1 .. Len(Managers) + 1
            /\ scan[c].unread \cup {m} \subseteq Manager
        BY <1>3, <1>b, ManagersAre DEF InventoryFails, AtManager
      <3>. HIDE DEF found, Registry
      <3>. QED  BY <3>1, <1>a
    <2>2. scan' = [scan EXCEPT ![c] = s]
      BY <1>3, <1>a DEF InventoryFails
    <2>3. faults' \in 0 .. MaxFaults /\ crossed' \subseteq Command
      BY <1>3, <1>a, <1>f DEF InventoryFails
    <2>4. export' \in FileType
      BY <1>3, <1>a, <1>c, <1>d DEF InventoryFails
    <2>. HIDE DEF s, ScanType
    <2>. QED  BY <1>3, <1>a, <1>e, <2>1, <2>2, <2>3, <2>4, DetectionTyped
              DEF InventoryFails, AtManager, Detecting
  <1>4. CASE BeginExport(c)
    <2>. DEFINE found == [scan[c].found EXCEPT !.available = @ \cup {"winget"}]
                s == [scan[c] EXCEPT !.found = found, !.seen = InstalledBy("winget")]
    <2>1. s \in ScanType
      BY <1>b, <1>a, <1>d, ManagersAre
    <2>2. scan' = [scan EXCEPT ![c] = s]
      BY <1>4, <1>a DEF BeginExport
    <2>3. scan[c].at \in 1 .. 3 /\ Managers[scan[c].at] = "winget" /\ scan[c].at = 1
      BY <1>4, ManagersAre DEF BeginExport, AtManager
    <2>4. s.at = 1
      BY <2>3, <1>a
    <2>. HIDE DEF s, ScanType
    <2>. QED  BY <1>4, <1>a, <1>c, <1>f, <2>1, <2>2, <2>4, DetectionTyped
              DEF BeginExport, AtManager, Move, Detecting
  <1>5. CASE EndExport(c)
    <2>1. export' \in FileType
      <3>1. Complete(scan[c].seen) \in FileType
        BY <1>a, <1>c
      <3>. HIDE DEF ScanType, Registry
      <3>. QED  BY <1>5, <1>c, <3>1 DEF EndExport
    <2>2. scan' = [scan EXCEPT ![c] = scan[c]]
      BY <1>5, <1>a DEF EndExport
    <2>. HIDE DEF ScanType
    <2>. QED  BY <1>5, <1>a, <1>e, <2>1, <2>2, DetectionTyped DEF EndExport, Move, Detecting
  <1>6. CASE ReadExport(c)
    <2>1. CASE export = NoFile
      <3>. DEFINE s == [scan[c] EXCEPT !.at = @ + 1]
      <3>1. s \in ScanType
        <4>1. scan[c].at + 1 \in 1 .. Len(Managers) + 1
          BY <1>6, <1>e, ManagersAre DEF ReadExport
        <4>. HIDE DEF Registry
        <4>. QED  BY <4>1, <1>a
      <3>2. scan' = [scan EXCEPT ![c] = s]
        BY <1>6, <2>1, <1>a DEF ReadExport
      <3>. HIDE DEF s, ScanType
      <3>. QED  BY <1>6, <2>1, <1>a, <3>1, <3>2, DetectionTyped DEF ReadExport, Move, Detecting
    <2>2. CASE export # NoFile
      <3>. DEFINE found == [scan[c].found EXCEPT !.installed = @ \cup export.packages]
                  s == [scan[c] EXCEPT !.found = found]
      <3>1. s \in ScanType /\ s.at = scan[c].at
        BY <1>a, <1>b DEF FileType
      <3>2. scan' = [scan EXCEPT ![c] = s]
        BY <1>6, <2>2, <1>a DEF ReadExport
      <3>. HIDE DEF s, ScanType
      <3>. QED  BY <1>6, <2>2, <1>a, <1>e, <3>1, <3>2, DetectionTyped
                DEF ReadExport, Move, Detecting
    <2>. QED  BY <2>1, <2>2
  <1>7. CASE RemoveExport(c)
    <2>. DEFINE s == [scan[c] EXCEPT !.at = @ + 1]
    <2>1. s \in ScanType
      BY <1>7, <1>e, <1>a, ManagersAre DEF RemoveExport
    <2>2. scan' = [scan EXCEPT ![c] = s]
      BY <1>7, <1>a DEF RemoveExport
    <2>. HIDE DEF s, ScanType
    <2>. QED  BY <1>7, <1>a, <1>c, <2>1, <2>2, DetectionTyped DEF RemoveExport, Move, Detecting
  <1>8. CASE WritesNothing(c)
    <2>. DEFINE found == [scan[c].found EXCEPT !.available = @ \cup {"winget"}]
                s == [scan[c] EXCEPT !.found = found, !.unread = @ \cup {"winget"}]
    <2>1. s \in ScanType
      BY <1>b, <1>a, ManagersAre
    <2>2. scan' = [scan EXCEPT ![c] = s]
      BY <1>8, <1>a DEF WritesNothing
    <2>3. scan[c].at \in 1 .. 3 /\ Managers[scan[c].at] = "winget" /\ scan[c].at = 1
      BY <1>8, ManagersAre DEF WritesNothing, AtManager
    <2>4. s.at = 1
      BY <2>3, <1>a
    <2>5. faults' \in 0 .. MaxFaults
      BY <1>8, <1>a DEF WritesNothing
    <2>. HIDE DEF s, ScanType
    <2>. QED  BY <1>8, <1>a, <1>f, <2>1, <2>2, <2>4, <2>5, DetectionTyped
              DEF WritesNothing, AtManager, Move, Detecting
  <1>. QED  BY <1>1, <1>2, <1>3, <1>4, <1>5, <1>6, <1>7, <1>8 DEF Detect

LEMMA BatchTyped ==
  ASSUME Typed, NEW c \in Command, UNCHANGED batch, Inv,
         pc[c] \in {"elevating", "installing", "running"},
         NEW label \in {"idle", "scanning", "installing", "running"},
         pc' = [pc EXCEPT ![c] = label],
         machine' \subseteq Package, report' \in [Command -> Seq(Outcome)],
         \A d \in Command \ {c} : report'[d] = report[d],
         session' \in [Command -> {"none", "up", "down"}],
         sinkLeft' \in [Command -> BOOLEAN], faults' = faults,
         began' \in [Command -> SUBSET Package],
         label = "running" => report' = report /\ Len(report[c]) < Len(Plan(c))
  PROVE  Typed'
  <1>. USE DEF Typed, batch
  <1>1. registry[c] # NoRegistry
    BY HasRegistry DEF TypeOK
  <1>2. pc' \in [Command -> Label] /\ scan' = scan
    BY DEF TypeOK, Label
  <1>3. \A d \in Command : pc'[d] \in {"elevating", "installing", "running"} =>
                             registry'[d] # NoRegistry
    BY <1>1 DEF TypeOK
  <1>4. TypeOK'
    BY <1>2, <1>3 DEF TypeOK, Label
  <1>5. \A d \in Command : Plan(d)' = Plan(d)
    BY PlanStays
  <1>6. Running'
    BY <1>5 DEF Running, TypeOK, Detecting
  <1>. QED  BY <1>4, <1>6

LEMMA InstallTyped ==
  ASSUME Typed, Inv, NEW c \in Command, Install(c)
  PROVE  Typed'
  <1>a. /\ pc \in [Command -> Label] /\ machine \subseteq Package
        /\ report \in [Command -> Seq(Outcome)]
        /\ session \in [Command -> {"none", "up", "down"}]
        /\ sinkLeft \in [Command -> BOOLEAN]
        /\ began \in [Command -> SUBSET Package]
    BY DEF Typed, TypeOK, Label
  <1>b. /\ pc[c] = "running" => Len(report[c]) < Len(Plan(c))
        /\ HasItem(c) \/ pc[c] = "running" => Item(c) \in Package
    BY ItemType DEF Typed, Running, HasItem
  <1>c. ASSUME NEW outcome \in Outcome, Report(c, outcome)
        PROVE  /\ report' \in [Command -> Seq(Outcome)]
               /\ \A d \in Command \ {c} : report'[d] = report[d]
    BY <1>a, <1>c DEF Report
  <1>d. sinkLeft' = [sinkLeft EXCEPT ![c] = TRUE] => sinkLeft' \in [Command -> BOOLEAN]
    BY <1>a
  <1>1. CASE GetHelper(c)
    <2>1. session' \in [Command -> {"none", "up", "down"}]
      BY <1>1, <1>a DEF GetHelper
    <2>. QED  BY <1>1, <1>a, <2>1, BatchTyped DEF GetHelper, Move
  <1>2. CASE NoHelper(c)
    BY <1>2, <1>a, BatchTyped DEF NoHelper, Move, installing
  <1>3. CASE SkipInstalled(c)
    <2>1. pc[c] = "installing" /\ pc' = [pc EXCEPT ![c] = "installing"]
      BY <1>3, <1>a DEF SkipInstalled, HasItem
    <2>. QED  BY <1>3, <1>a, <1>c, <2>1, BatchTyped DEF SkipInstalled, Outcome
  <1>4. CASE CannotRun(c)
    <2>1. pc[c] = "installing" /\ pc' = [pc EXCEPT ![c] = "installing"]
      BY <1>4, <1>a DEF CannotRun, HasItem
    <2>. QED  BY <1>4, <1>a, <1>c, <2>1, BatchTyped DEF CannotRun, Outcome
  <1>5. CASE RunItem(c)
    BY <1>5, <1>a, BatchTyped DEF RunItem, HasItem, Move, installing
  <1>6. CASE Installed(c)
    BY <1>6, <1>a, <1>b, <1>c, BatchTyped DEF Installed, IsAnswered, Answer, Move, Outcome
  <1>7. CASE AlreadyThere(c)
    BY <1>7, <1>a, <1>c, BatchTyped DEF AlreadyThere, IsAnswered, Answer, Move, Outcome
  <1>8. CASE Failed(c)
    BY <1>8, <1>a, <1>b, <1>c, BatchTyped DEF Failed, IsAnswered, Answer, Move, Outcome
  <1>9. CASE AnswerLost(c)
    BY <1>9, <1>a, <1>b, <1>c, <1>d, BatchTyped DEF AnswerLost, Move, Outcome
  <1>10. CASE FinishBatch(c)
    <2>1. session' \in [Command -> {"none", "up", "down"}]
      BY <1>10, <1>a DEF FinishBatch
    <2>2. began' \in [Command -> SUBSET Package]
      BY <1>10, <1>a DEF FinishBatch, Begin
    <2>. QED  BY <1>10, <1>a, <2>1, <2>2, BatchTyped DEF FinishBatch, Move
  <1>. QED  BY <1>1, <1>2, <1>3, <1>4, <1>5, <1>6, <1>7, <1>8, <1>9, <1>10 DEF Install

LEMMA HelperDiesTyped ==
  ASSUME Typed, HelperDies
  PROVE  Typed'
  <1>. USE DEF Typed, HelperDies, batch
  <1>1. TypeOK'
    BY BoundsAssumption DEF TypeOK
  <1>2. \A c \in Command : Plan(c)' = Plan(c)
    BY PlanStays
  <1>3. Running'
    BY <1>2 DEF Running
  <1>. QED  BY <1>1, <1>3

-----------------------------------------------------------------------------
(* What the steps leave alone.                                             *)

AtFile == {"exporting", "reading", "removing"}

(* A command that does not move, apart from another that meets it at the   *)
(* file.                                                                   *)
Same(d) ==
  /\ pc'[d] = pc[d] /\ job'[d] = job[d] /\ registry'[d] = registry[d]
  /\ report'[d] = report[d] /\ scan'[d] = scan[d] /\ (lock' = d <=> lock = d)
  /\ began'[d] = began[d] /\ (d \in crossed => d \in crossed')

Starts(c) ==
  \E kind \in {"list", "refresh", "install"}, apps \in Seq(App) : StartCommand(c, kind, apps)

Cached(c) == ReadCache(c) \/ TakeLock(c) \/ KeepFirst(c) \/ Store(c)

LEMMA StartFrame ==
  ASSUME Typed, NEW c \in Command, NEW kind, NEW apps, StartCommand(c, kind, apps)
  PROVE  /\ UNCHANGED <<machine, present, cache, lock, export, scan, crossed>>
         /\ pc[c] = "idle" /\ pc'[c] \in {"scanning", "looking"}
         /\ pc'[c] = "scanning" => kind = "refresh" /\ began'[c] = machine
         /\ pc'[c] # "scanning" => began' = began
         /\ job'[c].kind = kind
         /\ \A d \in Command \ {c} : Same(d)
  BY DEF Typed, TypeOK, Same, StartCommand, Move, Begin, environment

LEMMA CacheFrame ==
  ASSUME Typed, NEW c \in Command, Cached(c)
  PROVE  /\ UNCHANGED <<machine, present, export, job>>
         /\ pc[c] \notin AtFile /\ pc'[c] \notin AtFile
         /\ scan'[c] = scan[c] \/ scan'[c] = NoScan
         /\ pc'[c] = "scanning" => lock' = c /\ began'[c] = machine /\ scan' = scan
         /\ pc'[c] # "scanning" => began'[c] = began[c] \/ began'[c] = {}
         /\ pc'[c] \in Detecting => pc'[c] = "scanning"
         /\ \A d \in Command \ {c} : Same(d)
  <1>. USE DEF Typed, TypeOK, Same, Move, Begin, End, HaveRegistry, AtFile, Detecting,
               environment, installing, bounds, history
  <1>1. CASE ReadCache(c)
    BY <1>1 DEF ReadCache
  <1>2. CASE TakeLock(c)
    BY <1>2 DEF TakeLock
  <1>3. CASE KeepFirst(c)
    BY <1>3 DEF KeepFirst, Scanned
  <1>4. CASE Store(c)
    BY <1>4 DEF Store, Scanned
  <1>. QED  BY <1>1, <1>2, <1>3, <1>4 DEF Cached

LEMMA DetectFrame ==
  ASSUME Typed, NEW c \in Command, Detect(c)
  PROVE  /\ UNCHANGED detecting
         /\ pc[c] \in Detecting /\ pc'[c] \in Detecting
         /\ \A d \in Command \ {c} : Same(d)
  <1>. USE DEF Typed, TypeOK, Same, Move, Detecting, AtManager, Cross, detecting, environment,
               installing
  <1>1. ASSUME NEW m \in Manager, SkipAbsent(c, m) \/ ReadInventory(c, m)
        PROVE  UNCHANGED detecting /\ pc[c] \in Detecting /\ pc'[c] \in Detecting
               /\ \A d \in Command \ {c} : Same(d)
    BY <1>1 DEF SkipAbsent, ReadInventory
  <1>2. ASSUME NEW m \in Manager, InventoryFails(c, m)
        PROVE  UNCHANGED detecting /\ pc[c] \in Detecting /\ pc'[c] \in Detecting
               /\ \A d \in Command \ {c} : Same(d)
    BY <1>2 DEF InventoryFails
  <1>3. CASE BeginExport(c) \/ WritesNothing(c)
    BY <1>3 DEF BeginExport, WritesNothing
  <1>4. CASE EndExport(c) \/ ReadExport(c) \/ RemoveExport(c)
    BY <1>4 DEF EndExport, ReadExport, RemoveExport
  <1>. HIDE DEF detecting, Same, Detecting
  <1>. QED  BY <1>1, <1>2, <1>3, <1>4 DEF Detect

LEMMA InstallFrame ==
  ASSUME Typed, NEW c \in Command, Install(c)
  PROVE  /\ UNCHANGED batch /\ machine \subseteq machine'
         /\ pc[c] \in {"elevating", "installing", "running"}
         /\ pc'[c] \in {"idle", "installing", "running", "scanning"}
         /\ pc'[c] = "scanning" =>
              /\ Len(report[c]) = Len(Plan(c))
              /\ report' = report /\ machine' = machine /\ began'[c] = machine
         /\ pc'[c] # "scanning" => began' = began
         /\ \A d \in Command \ {c} : Same(d)
  <1>. USE DEF Typed, TypeOK, Same, Move, batch, installing
  <1>1. CASE GetHelper(c) \/ NoHelper(c)
    BY <1>1 DEF GetHelper, NoHelper
  <1>2. CASE SkipInstalled(c) \/ CannotRun(c) \/ RunItem(c)
    BY <1>2 DEF SkipInstalled, CannotRun, RunItem, HasItem, Report
  <1>3. CASE Installed(c) \/ AlreadyThere(c) \/ Failed(c)
    BY <1>3 DEF Installed, AlreadyThere, Failed, IsAnswered, Answer, Report
  <1>4. CASE AnswerLost(c)
    BY <1>4 DEF AnswerLost, Report
  <1>5. CASE FinishBatch(c)
    BY <1>5 DEF FinishBatch, Begin
  <1>. QED  BY <1>1, <1>2, <1>3, <1>4, <1>5 DEF Install

LEMMA RestFrame ==
  ASSUME HelperDies \/ UNCHANGED vars
  PROVE  UNCHANGED <<machine, present, cache, export>> /\ \A d \in Command : Same(d)
  BY DEF HelperDies, vars, batch, Same

(* The starts that Next allows.                                            *)
LEMMA StartIsTyped ==
  /\ \A kind \in Kinds \ {"install"} : kind \in {"list", "refresh", "install"}
  /\ Batches \subseteq Seq(App) /\ << >> \in Seq(App)
  BY SourcesAssumption

LEMMA NextIs ==
  ASSUME [Next]_vars
  PROVE  \/ \E c \in Command : Starts(c) \/ Cached(c) \/ Detect(c) \/ Install(c)
         \/ HelperDies \/ UNCHANGED vars
  BY StartIsTyped DEF Next, Step, Starts, Cached

-----------------------------------------------------------------------------
(* What the commands are about.                                            *)

(* The detection with which an install ends.                               *)
AfterBatch(c) == job[c].kind = "install" /\ pc[c] \in Detecting /\ lock # c

(* Only installs have batches, only a refresh or an install detects        *)
(* without the lock, and a detection after a batch comes after all of it.  *)
(* Who has a registry has it from a cache that stays filled.               *)
Purpose(c) ==
  /\ pc[c] \in {"looking", "waiting"} \/ lock = c => job[c].kind # "refresh"
  /\ pc[c] \in {"elevating", "installing", "running"} => job[c].kind = "install"
  /\ pc[c] \in Detecting => lock = c \/ job[c].kind # "list"
  /\ registry[c] # NoRegistry => cache # NoRegistry
  /\ AfterBatch(c) => registry[c] # NoRegistry /\ Len(report[c]) = Len(Plan(c))

Purposes == \A c \in Command : Purpose(c)

(* A registry names only managers that can be run.                         *)
InUse ==
  /\ cache # NoRegistry => cache.available \subseteq present
  /\ \A c \in Command :
       /\ scan[c].found.available \subseteq present
       /\ registry[c] # NoRegistry => registry[c].available \subseteq present

(* The cache stays filled.                                                 *)
LEMMA CacheStaysFilled ==
  ASSUME Typed, [Next]_vars, cache # NoRegistry
  PROVE  cache' # NoRegistry
  <1>1. ASSUME NEW c \in Command, KeepFirst(c) \/ Store(c) PROVE cache' # NoRegistry
    BY <1>1, RegistryAssumption DEF KeepFirst, Store, Typed, TypeOK
  <1>2. ASSUME NEW c \in Command, ReadCache(c) \/ TakeLock(c) PROVE cache' # NoRegistry
    BY <1>2 DEF ReadCache, TakeLock
  <1>3. ASSUME NEW c \in Command, Detect(c) \/ Install(c) PROVE cache' # NoRegistry
    BY <1>3, DetectFrame, InstallFrame DEF detecting, batch
  <1>4. ASSUME NEW c \in Command, Starts(c) PROVE cache' # NoRegistry
    BY <1>4, StartFrame DEF Starts
  <1>5. CASE HelperDies \/ UNCHANGED vars
    BY <1>5, RestFrame
  <1>. QED  BY <1>1, <1>2, <1>3, <1>4, <1>5, NextIs DEF Cached

LEMMA PurposeKept ==
  ASSUME NEW d \in Command, Purpose(d), Same(d), cache # NoRegistry => cache' # NoRegistry
  PROVE  Purpose(d)'
  <1>1. Plan(d)' = Plan(d)
    BY PlanStays DEF Same
  <1>. QED  BY <1>1 DEF Purpose, AfterBatch, Same

LEMMA PurposeStep ==
  ASSUME Inv, Typed, Purposes, NEW c \in Command, Cached(c) \/ Detect(c) \/ Install(c),
         [Next]_vars
  PROVE  Purpose(c)'
  <1>a. Purpose(c)
    BY DEF Purposes
  <1>b. cache # NoRegistry => cache' # NoRegistry
    BY CacheStaysFilled
  <1>c. /\ pc \in [Command -> Label] /\ registry \in [Command -> Registry \cup {NoRegistry}]
        /\ lock = c => pc[c] \in Detecting /\ report[c] = << >>
        /\ NoCommand \notin Command /\ scan[c].found # NoRegistry
        /\ job[c].kind \in {"list", "refresh", "install"}
    BY RegistryAssumption DEF Typed, TypeOK, Label, Inv, BatchShape
  <1>. USE DEF Purpose, AfterBatch, Detecting, Move
  <1>1. CASE ReadCache(c)
    BY <1>1, <1>a, <1>c DEF ReadCache, HaveRegistry
  <1>2. CASE TakeLock(c)
    BY <1>2, <1>a, <1>c DEF TakeLock, HaveRegistry
  <1>3. CASE KeepFirst(c)
    BY <1>3, <1>a, <1>c DEF KeepFirst, HaveRegistry, Scanned
  <1>4. CASE Store(c)
    BY <1>4, <1>a, <1>c DEF Store, Scanned, installing
  <1>5. CASE Detect(c)
    <2>1. UNCHANGED detecting /\ pc[c] \in Detecting /\ pc'[c] \in Detecting
      BY <1>5, DetectFrame
    <2>2. Plan(c)' = Plan(c)
      BY <2>1, PlanStays DEF detecting
    <2>. QED  BY <1>a, <2>1, <2>2 DEF detecting, installing
  <1>6. CASE Install(c)
    <2>1. /\ UNCHANGED batch /\ pc[c] \in {"elevating", "installing", "running"}
          /\ pc'[c] \in {"idle", "installing", "running", "scanning"}
          /\ pc'[c] = "scanning" => Len(report[c]) = Len(Plan(c)) /\ report' = report
      BY <1>6, InstallFrame
    <2>2. Plan(c)' = Plan(c) /\ registry[c] # NoRegistry
      BY <2>1, PlanStays, HasRegistry DEF batch, Typed, TypeOK
    <2>. QED  BY <1>a, <1>c, <2>1, <2>2 DEF batch
  <1>. QED  BY <1>1, <1>2, <1>3, <1>4, <1>5, <1>6 DEF Cached

LEMMA PurposesStep ==
  ASSUME Inv, Inv', Typed, Purposes, [Next]_vars
  PROVE  Purposes'
  <1>a. cache # NoRegistry => cache' # NoRegistry
    BY CacheStaysFilled
  <1>1. ASSUME NEW c \in Command, Cached(c) \/ Detect(c) \/ Install(c), NEW d \in Command
        PROVE  Purpose(d)'
    <2>1. CASE d = c
      BY <1>1, <2>1, PurposeStep
    <2>2. CASE d # c
      <3>1. Same(d)
        BY <1>1, <2>2, CacheFrame, DetectFrame, InstallFrame
      <3>. QED  BY <1>a, <3>1, PurposeKept DEF Purposes
    <2>. QED  BY <2>1, <2>2
  <1>2. ASSUME NEW c \in Command, NEW kind \in {"list", "refresh", "install"},
               NEW apps \in Seq(App), StartCommand(c, kind, apps), NEW d \in Command
        PROVE  Purpose(d)'
    <2>1. CASE d = c
      <3>1. /\ job'[c].kind = kind /\ registry'[c] = NoRegistry /\ lock' = lock
            /\ pc'[c] = IF kind = "refresh" THEN "scanning" ELSE "looking"
            /\ pc[c] = "idle" /\ lock # c
        <4>1. pc'[c] = IF kind = "refresh" THEN "scanning" ELSE "looking"
          BY <1>2, StartMoves DEF Typed, TypeOK
        <4>. QED  BY <1>2, <4>1 DEF StartCommand, Typed, TypeOK, Inv, BatchShape, Detecting
      <3>. QED  BY <1>2, <2>1, <3>1 DEF Purpose, AfterBatch, Detecting
    <2>2. CASE d # c
      BY <1>2, <2>2, <1>a, StartFrame, PurposeKept DEF Purposes
    <2>. QED  BY <2>1, <2>2
  <1>3. CASE HelperDies \/ UNCHANGED vars
    BY <1>3, <1>a, RestFrame, PurposeKept DEF Purposes
  <1>. QED  BY <1>1, <1>2, <1>3, NextIs DEF Purposes, Starts

LEMMA InUseStep ==
  ASSUME Typed, Inv, InUse, [Next]_vars
  PROVE  InUse'
  <1>. USE DEF InUse, environment, detecting, batch, installing, bounds, history
  <1>a. /\ scan \in [Command -> ScanType] /\ registry \in [Command -> Registry \cup {NoRegistry}]
        /\ NoScan.found.available = {} /\ "winget" \in Manager
    BY ManagersAre DEF Typed, TypeOK, ScanType, NoScan
  <1>1. ASSUME NEW c \in Command, Cached(c) PROVE InUse'
    BY <1>1, <1>a DEF Cached, ReadCache, TakeLock, KeepFirst, Store, HaveRegistry, End
  <1>2. ASSUME NEW c \in Command, Detect(c) PROVE InUse'
    <2>1. UNCHANGED <<cache, registry, present>> /\ \A d \in Command \ {c} : scan'[d] = scan[d]
      BY <1>2, DetectFrame DEF Same
    <2>2. scan'[c].found.available \subseteq present
      <3>1. /\ scan[c].found.available \subseteq present
            /\ scan[c] \in ScanType /\ scan[c].found \in Registry
        BY <1>a DEF ScanType
      <3>. USE DEF ScanType, Registry
      <3>2. ASSUME NEW m \in Manager,
                   SkipAbsent(c, m) \/ ReadInventory(c, m) \/ InventoryFails(c, m)
            PROVE  scan'[c].found.available \subseteq scan[c].found.available \cup present
        BY <3>1, <3>2, <1>a DEF SkipAbsent, ReadInventory, InventoryFails
      <3>3. ASSUME BeginExport(c) \/ WritesNothing(c) \/ EndExport(c) \/ ReadExport(c)
                     \/ RemoveExport(c)
            PROVE  scan'[c].found.available \subseteq scan[c].found.available \cup present
        <4>1. CASE BeginExport(c) \/ EndExport(c)
          BY <3>1, <4>1, <1>a DEF BeginExport, EndExport
        <4>2. CASE WritesNothing(c)
          BY <3>1, <4>2, <1>a DEF WritesNothing
        <4>3. CASE ReadExport(c) /\ export = NoFile
          BY <3>1, <4>3, <1>a DEF ReadExport
        <4>4. CASE ReadExport(c) /\ export # NoFile
          <5>1. scan'[c].found.available = scan[c].found.available
            BY <3>1, <4>4, <1>a DEF ReadExport
          <5>. QED  BY <5>1
        <4>5. CASE RemoveExport(c)
          BY <3>1, <4>5, <1>a DEF RemoveExport
        <4>. QED  BY <3>3, <4>1, <4>2, <4>3, <4>4, <4>5
      <3>4. scan'[c].found.available \subseteq scan[c].found.available \cup present
        BY <1>2, <3>2, <3>3, Zenon DEF Detect
      <3>. QED  BY <3>1, <3>4
    <2>. QED  BY <2>1, <2>2
  <1>3. ASSUME NEW c \in Command, Install(c) PROVE InUse'
    BY <1>3, InstallFrame
  <1>4. ASSUME NEW c \in Command, NEW kind, NEW apps, StartCommand(c, kind, apps)
        PROVE  InUse'
    BY <1>4, <1>a DEF StartCommand
  <1>5. CASE HelperDies \/ UNCHANGED vars
    BY <1>5 DEF HelperDies, vars
  <1>. QED  BY <1>1, <1>2, <1>3, <1>4, <1>5, NextIs DEF Starts

-----------------------------------------------------------------------------
(* What a detection does not miss.                                         *)

(* A package that a detection has found, or has still to come to, or will  *)
(* read from its own file, or could not read.                              *)
InSight(c, p) ==
  \/ p \in scan[c].found.installed
  \/ p.manager \in scan[c].unread
  \/ \E k \in DOMAIN Managers :
       /\ p.manager = Managers[k]
       /\ k > scan[c].at \/ (k = scan[c].at /\ pc[c] = "scanning")
  \/ p.manager = "winget" /\ pc[c] \in {"exporting", "reading"} /\ p \in scan[c].seen

(* What was installed when it began is still installed, and what a batch   *)
(* has reported was installed when the detection after it began.           *)
BeganTrue(c) ==
  /\ began[c] \subseteq machine
  /\ AfterBatch(c) =>
       \A i \in DOMAIN report[c] : report[c][i] # "failed" => Plan(c)[i] \in began[c]

(* Nobody else is at the file of a detection that met no other there.      *)
FileIsOwn(c) ==
  c \notin crossed /\ pc[c] \in {"exporting", "reading"} =>
    \A d \in Command \ {c} : pc[d] \notin AtFile

NothingIsMissed(c) ==
  pc[c] \in Detecting /\ c \notin crossed =>
    /\ \A p \in began[c] : p.manager \in present => InSight(c, p)
    /\ pc[c] = "reading" /\ "winget" \notin scan[c].unread => export = Complete(scan[c].seen)

Detections ==
  /\ InUse /\ Purposes
  /\ \A c \in Command : BeganTrue(c) /\ FileIsOwn(c) /\ NothingIsMissed(c)

(* What was reported is a package of a manager that can be run.            *)
LEMMA ReportedItem ==
  ASSUME Inv, Typed, InUse, NEW c \in Command, registry[c] # NoRegistry,
         Len(report[c]) = Len(Plan(c)), NEW i \in DOMAIN report[c]
  PROVE  Plan(c)[i].manager \in present
  <1>1. Plan(c) \in Seq(Offer(registry[c].available)) /\ report[c] \in Seq(Outcome)
    BY PlanType DEF Typed, TypeOK
  <1>2. Plan(c)[i] \in Offer(registry[c].available)
    BY <1>1
  <1>. QED  BY <1>2 DEF Offer, InUse

(* Where the managers of packages are.                                     *)
LEMMA PackageManager ==
  ASSUME NEW p \in Package
  PROVE  \E k \in 1 .. 3 : p.manager = Managers[k]
  BY ManagersAre DEF Package, Manager

-----------------------------------------------------------------------------
(* The step of a command, seen by the others.                              *)

LEMMA BeganTrueKept ==
  ASSUME NEW d \in Command, BeganTrue(d), Same(d), machine \subseteq machine'
  PROVE  BeganTrue(d)'
  <1>1. Plan(d)' = Plan(d)
    BY PlanStays DEF Same
  <1>. QED  BY <1>1 DEF BeganTrue, AfterBatch, Same

LEMMA NothingIsMissedKept ==
  ASSUME NEW d \in Command, NothingIsMissed(d), Same(d), present' = present,
         d \notin crossed' /\ pc[d] = "reading" => export' = export
  PROVE  NothingIsMissed(d)'
  <1>1. \A p : InSight(d, p)' <=> InSight(d, p)
    BY DEF InSight, Same
  <1>. QED  BY <1>1 DEF NothingIsMissed, Complete, Same

(* Away from the file, nobody is met there.                                *)
LEMMA FileIsOwnKept ==
  ASSUME NEW c \in Command, \A d \in Command : FileIsOwn(d),
         \A d \in Command \ {c} : Same(d), pc'[c] \notin AtFile
  PROVE  \A d \in Command : FileIsOwn(d)'
  BY DEF FileIsOwn, Same, AtFile

(* Who asks winget has everyone else at the file crossed.                  *)
LEMMA CrossStep ==
  ASSUME NEW c \in Command, \A d \in Command : FileIsOwn(d), Cross(c),
         \A d \in Command \ {c} : Same(d)
  PROVE  /\ \A d \in Command : FileIsOwn(d)'
         /\ \A d \in Command \ {c} : d \notin crossed' => pc[d] # "reading"
         /\ c \notin crossed' => \A d \in Command \ {c} : pc[d] \notin AtFile
  BY DEF Cross, FileIsOwn, Same, AtFile

(* The file of a detection that met no other is touched by nobody else.    *)
LEMMA DetectKeepsFiles ==
  ASSUME Inv, Typed, Detections, NEW c \in Command, Detect(c)
  PROVE  /\ \A d \in Command : FileIsOwn(d)'
         /\ \A d \in Command \ {c} :
              d \notin crossed' /\ pc[d] = "reading" => export' = export
  <1>a. \A d \in Command \ {c} : Same(d)
    BY DetectFrame
  <1>b. \A d \in Command : FileIsOwn(d)
    BY DEF Detections
  <1>c. pc \in [Command -> Label]
    BY DEF Typed, TypeOK, Label
  <1>1. ASSUME NEW m \in Manager, SkipAbsent(c, m) \/ ReadInventory(c, m)
        PROVE  export' = export /\ \A d \in Command : FileIsOwn(d)'
    BY <1>1, <1>a, <1>b, FileIsOwnKept DEF SkipAbsent, ReadInventory, AtManager, AtFile
  <1>2. ASSUME NEW m \in Manager, InventoryFails(c, m)
        PROVE  /\ \A d \in Command : FileIsOwn(d)'
               /\ \A d \in Command \ {c} :
                    d \notin crossed' /\ pc[d] = "reading" => export' = export
    <2>1. CASE m = "winget"
      BY <1>2, <1>a, <1>b, <2>1, CrossStep DEF InventoryFails
    <2>2. CASE m # "winget"
      BY <1>2, <1>a, <1>b, <2>2, FileIsOwnKept DEF InventoryFails, AtManager, AtFile
    <2>. QED  BY <2>1, <2>2
  <1>3. CASE BeginExport(c) \/ WritesNothing(c)
    BY <1>3, <1>a, <1>b, CrossStep DEF BeginExport, WritesNothing
  <1>4. CASE EndExport(c)
    <2>1. /\ pc[c] = "exporting" /\ crossed' = crossed
          /\ pc' = [pc EXCEPT ![c] = "reading"]
      BY <1>4 DEF EndExport, Move
    <2>. QED  BY <1>b, <1>c, <2>1 DEF FileIsOwn, AtFile
  <1>5. CASE ReadExport(c)
    <2>1. /\ pc[c] = "reading" /\ crossed' = crossed /\ export' = export
          /\ pc' = [pc EXCEPT ![c] = "removing"] \/ pc' = [pc EXCEPT ![c] = "scanning"]
      BY <1>5 DEF ReadExport, Move
    <2>. QED  BY <1>b, <1>c, <2>1 DEF FileIsOwn, AtFile
  <1>6. CASE RemoveExport(c)
    <2>1. /\ pc[c] = "removing" /\ crossed' = crossed
          /\ pc' = [pc EXCEPT ![c] = "scanning"]
      BY <1>6 DEF RemoveExport, Move
    <2>. QED  BY <1>b, <1>c, <2>1 DEF FileIsOwn, AtFile
  <1>. QED  BY <1>1, <1>2, <1>3, <1>4, <1>5, <1>6 DEF Detect

-----------------------------------------------------------------------------
(* The step of a detection.                                                *)

(* A detection passes no manager without having what was installed by it.  *)
LEMMA DetectKeepsSight ==
  ASSUME Inv, Typed, Detections, NEW c \in Command, Detect(c), c \notin crossed,
         NEW p, InSight(c, p), p \in machine, p.manager \in present,
         NEW k \in 1 .. 3, p.manager = Managers[k]
  PROVE  InSight(c, p)'
  <1>a. /\ scan \in [Command -> ScanType] /\ scan[c] \in ScanType
        /\ scan[c].found \in Registry /\ scan[c].at \in 1 .. 4 /\ scan[c].at + 1 \in Nat
        /\ pc \in [Command -> Label]
        /\ pc[c] \in Detecting \ {"scanning"} => scan[c].at = 1
    BY ManagersAre DEF Typed, TypeOK, ScanType, Label, Running
  <1>b. pc[c] = "reading" /\ "winget" \notin scan[c].unread =>
          export = Complete(scan[c].seen)
    BY DEF Detections, NothingIsMissed, Detecting
  <1>c. DOMAIN Managers = 1 .. 3 /\ (k # 1 => p.manager # "winget") /\ Managers[1] = "winget"
    BY ManagersAre
  <1>d. \A m : m = p.manager => p \in InstalledBy(m)
    BY DEF InstalledBy
  <1>. USE DEF InSight, Move
  <1>1. ASSUME NEW m \in Manager, SkipAbsent(c, m) PROVE InSight(c, p)'
    <2>1. /\ scan[c].at \in 1 .. 3 /\ m = Managers[scan[c].at] /\ m # p.manager
          /\ pc[c] = "scanning" /\ pc' = pc
          /\ scan'[c] = [scan[c] EXCEPT !.at = @ + 1]
      BY <1>1, <1>a, <1>c DEF SkipAbsent, AtManager
    <2>2. k # scan[c].at
      BY <2>1
    <2>. QED  BY <1>a, <1>c, <2>1, <2>2 DEF ScanType
  <1>2. ASSUME NEW m \in Manager, ReadInventory(c, m) PROVE InSight(c, p)'
    <2>1. /\ scan[c].at \in 1 .. 3 /\ m = Managers[scan[c].at]
          /\ pc[c] = "scanning" /\ pc' = pc
          /\ scan'[c].at = scan[c].at + 1 /\ scan'[c].unread = scan[c].unread
          /\ scan'[c].found.installed = scan[c].found.installed \cup InstalledBy(m)
      BY <1>2, <1>a, <1>c DEF ReadInventory, AtManager, ScanType
    <2>2. CASE p.manager = m
      BY <1>d, <2>1, <2>2
    <2>3. CASE p.manager # m
      <3>1. CASE p \in scan[c].found.installed \/ p.manager \in scan[c].unread
        BY <2>1, <3>1
      <3>2. ASSUME NEW j \in DOMAIN Managers, p.manager = Managers[j], j >= scan[c].at
            PROVE  InSight(c, p)'
        <4>1. j > scan[c].at /\ j >= scan'[c].at
          BY <1>a, <1>c, <2>1, <2>3, <3>2
        <4>. QED  BY <1>a, <1>c, <2>1, <3>2, <4>1
      <3>. QED  BY <1>a, <1>c, <2>1, <3>1, <3>2
    <2>. QED  BY <2>2, <2>3
  <1>3. ASSUME NEW m \in Manager, InventoryFails(c, m) PROVE InSight(c, p)'
    <2>1. /\ scan[c].at \in 1 .. 3 /\ m = Managers[scan[c].at]
          /\ pc[c] = "scanning" /\ pc' = pc
          /\ scan'[c].at = scan[c].at + 1 /\ scan'[c].unread = scan[c].unread \cup {m}
          /\ scan'[c].found.installed = scan[c].found.installed
      BY <1>3, <1>a, <1>c DEF InventoryFails, AtManager, ScanType, Registry
    <2>2. k = scan[c].at => p.manager \in scan'[c].unread
      BY <2>1
    <2>. QED  BY <1>a, <1>c, <2>1, <2>2
  <1>4. CASE BeginExport(c)
    <2>1. /\ scan[c].at \in 1 .. 3 /\ "winget" = Managers[scan[c].at] /\ scan[c].at = 1
          /\ pc[c] = "scanning" /\ pc'[c] = "exporting"
          /\ scan'[c].at = scan[c].at /\ scan'[c].unread = scan[c].unread
          /\ scan'[c].found.installed = scan[c].found.installed
          /\ scan'[c].seen = InstalledBy("winget")
      BY <1>4, <1>a, ManagersAre DEF BeginExport, AtManager, ScanType, Registry
    <2>2. k = scan[c].at => p.manager = "winget" /\ p \in scan'[c].seen
      BY <1>d, <2>1
    <2>. QED  BY <1>a, <1>c, <2>1, <2>2
  <1>5. CASE EndExport(c)
    <2>1. pc[c] = "exporting" /\ pc'[c] = "reading" /\ scan' = scan
      BY <1>5, <1>a DEF EndExport
    <2>. QED  BY <1>a, <1>c, <2>1
  <1>6. CASE ReadExport(c)
    <2>1. CASE "winget" \notin scan[c].unread
      <3>1. pc[c] = "reading" /\ export # NoFile /\ export.packages = scan[c].seen
        BY <1>6, <1>b, <2>1 DEF ReadExport, NoFile, Complete
      <3>2. /\ pc'[c] = "removing"
            /\ scan'[c].at = scan[c].at /\ scan'[c].unread = scan[c].unread
            /\ scan'[c].found.installed = scan[c].found.installed \cup scan[c].seen
        BY <1>6, <1>a, <3>1 DEF ReadExport, ScanType, Registry
      <3>. QED  BY <1>a, <1>c, <3>1, <3>2
    <2>2. CASE "winget" \in scan[c].unread
      <3>1. /\ pc[c] = "reading" /\ scan[c].at = 1
            /\ scan'[c].unread = scan[c].unread
            /\ scan[c].found.installed \subseteq scan'[c].found.installed
            /\ \/ pc'[c] = "removing" /\ scan'[c].at = 1
               \/ pc'[c] = "scanning" /\ scan'[c].at = 2
        <4>1. CASE export = NoFile
          <5>1. /\ pc[c] = "reading" /\ pc'[c] = "scanning"
                /\ scan'[c] = [scan[c] EXCEPT !.at = @ + 1]
            BY <1>6, <1>a, <4>1 DEF ReadExport
          <5>2. scan[c].at = 1
            BY <1>a, <5>1 DEF Detecting
          <5>3. scan'[c].at = 2 /\ scan'[c].found = scan[c].found
                /\ scan'[c].unread = scan[c].unread
            BY <1>a, <5>1, <5>2 DEF ScanType
          <5>. QED  BY <5>1, <5>2, <5>3
        <4>2. CASE export # NoFile
          BY <1>6, <1>a, <4>2 DEF ReadExport, ScanType, Registry, Detecting
        <4>. QED  BY <4>1, <4>2
      <3>. QED  BY <1>a, <1>c, <2>2, <3>1
    <2>. QED  BY <2>1, <2>2
  <1>7. CASE RemoveExport(c)
    <2>1. /\ pc[c] = "removing" /\ pc'[c] = "scanning"
          /\ scan'[c] = [scan[c] EXCEPT !.at = @ + 1]
      BY <1>7, <1>a DEF RemoveExport
    <2>. QED  BY <1>a, <1>c, <2>1 DEF ScanType
  <1>8. CASE WritesNothing(c)
    <2>1. /\ scan[c].at \in 1 .. 3 /\ "winget" = Managers[scan[c].at] /\ scan[c].at = 1
          /\ pc[c] = "scanning" /\ pc'[c] = "reading"
          /\ scan'[c].at = scan[c].at /\ scan'[c].unread = scan[c].unread \cup {"winget"}
          /\ scan'[c].found.installed = scan[c].found.installed
      BY <1>8, <1>a, ManagersAre DEF WritesNothing, AtManager, ScanType, Registry
    <2>2. k = scan[c].at => p.manager \in scan'[c].unread
      BY <2>1
    <2>. QED  BY <1>a, <1>c, <2>1, <2>2
  <1>. QED  BY <1>1, <1>2, <1>3, <1>4, <1>5, <1>6, <1>7, <1>8 DEF Detect

(* A detection that met no other reads the file its own winget has         *)
(* written, if it has written one.                                         *)
LEMMA ReadsItsOwn ==
  ASSUME Inv, Typed, Detections, NEW c \in Command, Detect(c), c \notin crossed',
         c \notin crossed, pc'[c] = "reading", "winget" \notin scan'[c].unread
  PROVE  export' = Complete(scan'[c].seen)
  <1>a. pc \in [Command -> Label] /\ scan \in [Command -> ScanType]
    BY DEF Typed, TypeOK, Label, ScanType
  <1>1. EndExport(c) \/ WritesNothing(c)
    BY <1>a DEF Detect, SkipAbsent, ReadInventory, InventoryFails, BeginExport, ReadExport,
           RemoveExport, AtManager, Move
  <1>2. ~ WritesNothing(c)
    BY <1>a DEF WritesNothing, ScanType
  <1>3. EndExport(c)
    BY <1>1, <1>2
  <1>4. Exporting = {c}
    BY <1>3 DEF EndExport, Exporting, Detections, FileIsOwn, AtFile
  <1>. QED  BY <1>3, <1>4 DEF EndExport, Complete

LEMMA DetectMissesNothing ==
  ASSUME Inv, Typed, Detections, NEW c \in Command, Detect(c)
  PROVE  NothingIsMissed(c)'
  <1>. SUFFICES ASSUME c \notin crossed' PROVE NothingIsMissed(c)'
    BY DEF NothingIsMissed
  <1>1. UNCHANGED detecting /\ pc[c] \in Detecting /\ pc'[c] \in Detecting
    BY DetectFrame
  <1>2. c \notin crossed
    BY DEF Detect, SkipAbsent, ReadInventory, InventoryFails, BeginExport, WritesNothing,
           EndExport, ReadExport, RemoveExport, Cross
  <1>3. ASSUME NEW p \in began[c], p.manager \in present
        PROVE  InSight(c, p)'
    <2>1. InSight(c, p) /\ p \in machine
      BY <1>1, <1>2, <1>3 DEF Detections, NothingIsMissed, BeganTrue
    <2>2. \E k \in 1 .. 3 : p.manager = Managers[k]
      BY <2>1, PackageManager DEF Typed, TypeOK
    <2>. QED  BY <1>2, <1>3, <2>1, <2>2, DetectKeepsSight
  <1>4. pc'[c] = "reading" /\ "winget" \notin scan'[c].unread => export' = Complete(scan'[c].seen)
    BY <1>2, ReadsItsOwn
  <1>5. began' = began /\ present' = present
    BY <1>1 DEF detecting, environment
  <1>. QED  BY <1>3, <1>4, <1>5 DEF NothingIsMissed, Complete

(* A detection that begins has everything in sight.                        *)
LEMMA BeginMissesNothing ==
  ASSUME NEW c \in Command, pc'[c] = "scanning", scan'[c] = NoScan,
         began'[c] \subseteq Package
  PROVE  NothingIsMissed(c)'
  <1>1. ASSUME NEW p \in began'[c] PROVE InSight(c, p)'
    <2>1. PICK k \in 1 .. 3 : p.manager = Managers[k]
      BY <1>1, PackageManager
    <2>2. scan'[c].at = 1
      BY DEF NoScan
    <2>. QED  BY <2>1, <2>2, ManagersAre DEF InSight
  <1>. QED  BY <1>1 DEF NothingIsMissed

LEMMA DetectionsStep ==
  ASSUME Inv, Inv', Typed, Typed', Detections, [Next]_vars
  PROVE  Detections'
  <1>a. /\ \A d \in Command : BeganTrue(d) /\ FileIsOwn(d) /\ NothingIsMissed(d)
        /\ InUse /\ Purposes
    BY DEF Detections
  <1>b. Purposes' /\ InUse'
    BY <1>a, PurposesStep, InUseStep
  <1>. DEFINE Good == \A d \in Command : BeganTrue(d)' /\ FileIsOwn(d)' /\ NothingIsMissed(d)'
  <1>c. \A d \in Command : /\ pc[d] \notin Detecting => scan[d] = NoScan
                           /\ began'[d] \subseteq Package
    BY DEF Typed, TypeOK, Running
  <1>1. ASSUME NEW c \in Command, Detect(c) PROVE Good
    <2>1. UNCHANGED detecting /\ pc[c] \in Detecting /\ pc'[c] \in Detecting
          /\ \A d \in Command \ {c} : Same(d)
      BY <1>1, DetectFrame
    <2>2. UNCHANGED <<machine, present, report, job, registry, lock, began>>
      BY <2>1 DEF detecting, environment, installing
    <2>3. BeganTrue(c)'
      <3>1. Plan(c)' = Plan(c)
        BY <2>2, PlanStays
      <3>. QED  BY <1>a, <2>1, <2>2, <3>1 DEF BeganTrue, AfterBatch
    <2>4. ASSUME NEW d \in Command PROVE NothingIsMissed(d)'
      <3>1. CASE d = c
        BY <1>1, <3>1, DetectMissesNothing
      <3>2. CASE d # c
        BY <1>1, <1>a, <2>1, <2>2, <3>2, DetectKeepsFiles, NothingIsMissedKept
      <3>. QED  BY <3>1, <3>2
    <2>. QED  BY <1>1, <1>a, <2>1, <2>2, <2>3, <2>4, BeganTrueKept, DetectKeepsFiles
  <1>2. ASSUME NEW c \in Command, Cached(c) PROVE Good
    <2>1. /\ UNCHANGED <<machine, present, export, job>> /\ pc'[c] \notin AtFile
          /\ \A d \in Command \ {c} : Same(d)
      BY <1>2, CacheFrame
    <2>2. /\ pc'[c] = "scanning" =>
               lock' = c /\ began'[c] = machine /\ scan'[c] = NoScan
          /\ pc'[c] # "scanning" => began'[c] \subseteq machine
          /\ pc'[c] \in Detecting => pc'[c] = "scanning"
      <3>1. pc'[c] = "scanning" => pc[c] \notin Detecting
        BY <1>2 DEF Cached, ReadCache, TakeLock, KeepFirst, Store, HaveRegistry, Move,
                    Detecting, Typed, TypeOK
      <3>. QED  BY <1>2, <1>a, <1>c, <3>1, CacheFrame DEF BeganTrue
    <2>3. BeganTrue(c)'
      BY <2>1, <2>2 DEF BeganTrue, AfterBatch
    <2>4. NothingIsMissed(c)'
      <3>1. CASE pc'[c] = "scanning"
        BY <1>c, <2>2, <3>1, BeginMissesNothing
      <3>2. CASE pc'[c] # "scanning"
        BY <2>2, <3>2 DEF NothingIsMissed
      <3>. QED  BY <3>1, <3>2
    <2>5. \A d \in Command : FileIsOwn(d)'
      BY <1>a, <2>1, FileIsOwnKept
    <2>. QED  BY <1>a, <2>1, <2>3, <2>4, <2>5, BeganTrueKept, NothingIsMissedKept
  <1>3. ASSUME NEW c \in Command, Install(c) PROVE Good
    <2>1. /\ UNCHANGED batch /\ machine \subseteq machine'
          /\ pc[c] \in {"elevating", "installing", "running"}
          /\ pc'[c] \in {"idle", "installing", "running", "scanning"}
          /\ pc'[c] = "scanning" =>
               /\ Len(report[c]) = Len(Plan(c))
               /\ report' = report /\ machine' = machine /\ began'[c] = machine
          /\ pc'[c] # "scanning" => began' = began
          /\ \A d \in Command \ {c} : Same(d)
      BY <1>3, InstallFrame
    <2>2. UNCHANGED <<present, export, job, scan, registry>>
      BY <2>1 DEF batch
    <2>3. scan'[c] = NoScan
      BY <1>c, <2>1, <2>2 DEF Detecting
    <2>4. BeganTrue(c)'
      <3>1. CASE pc'[c] = "scanning"
        <4>1. Plan(c)' = Plan(c)
          BY <2>2, PlanStays
        <4>. QED  BY <2>1, <3>1, <4>1 DEF BeganTrue, Inv, ReportsAreTrue
      <3>2. CASE pc'[c] # "scanning"
        BY <1>a, <2>1, <3>2 DEF BeganTrue, AfterBatch, Detecting
      <3>. QED  BY <3>1, <3>2
    <2>5. NothingIsMissed(c)'
      <3>1. CASE pc'[c] = "scanning"
        BY <1>c, <2>3, <3>1, BeginMissesNothing
      <3>2. CASE pc'[c] # "scanning"
        BY <2>1, <3>2 DEF NothingIsMissed, Detecting
      <3>. QED  BY <3>1, <3>2
    <2>6. \A d \in Command : FileIsOwn(d)'
      BY <1>a, <2>1, FileIsOwnKept DEF AtFile
    <2>. QED  BY <1>a, <2>1, <2>2, <2>4, <2>5, <2>6, BeganTrueKept, NothingIsMissedKept
  <1>4. ASSUME NEW c \in Command, NEW kind, NEW apps, StartCommand(c, kind, apps) PROVE Good
    <2>1. /\ UNCHANGED <<machine, present, cache, lock, export, scan, crossed>>
          /\ pc[c] = "idle" /\ pc'[c] \in {"scanning", "looking"}
          /\ pc'[c] = "scanning" => kind = "refresh" /\ began'[c] = machine
          /\ pc'[c] # "scanning" => began' = began
          /\ job'[c].kind = kind
          /\ \A d \in Command \ {c} : Same(d)
      BY <1>4, StartFrame
    <2>2. scan'[c] = NoScan
      BY <1>c, <2>1 DEF Detecting
    <2>3. BeganTrue(c)'
      BY <1>a, <2>1 DEF BeganTrue, AfterBatch, Detecting
    <2>4. NothingIsMissed(c)'
      <3>1. CASE pc'[c] = "scanning"
        BY <1>c, <2>2, <3>1, BeginMissesNothing
      <3>2. CASE pc'[c] # "scanning"
        BY <2>1, <3>2 DEF NothingIsMissed, Detecting
      <3>. QED  BY <3>1, <3>2
    <2>5. \A d \in Command : FileIsOwn(d)'
      BY <1>a, <2>1, FileIsOwnKept DEF AtFile
    <2>. QED  BY <1>a, <2>1, <2>3, <2>4, <2>5, BeganTrueKept, NothingIsMissedKept
  <1>5. ASSUME HelperDies \/ UNCHANGED vars PROVE Good
    <2>1. UNCHANGED <<machine, present, cache, export>> /\ \A d \in Command : Same(d)
      BY <1>5, RestFrame
    <2>2. \A d \in Command : FileIsOwn(d)'
      BY <1>a, <2>1 DEF FileIsOwn, Same
    <2>3. \A d \in Command : BeganTrue(d)' /\ NothingIsMissed(d)'
      BY <1>a, <2>1, BeganTrueKept, NothingIsMissedKept
    <2>. QED  BY <2>2, <2>3
  <1>6. Good
    <2>. HIDE DEF Good
    <2>1. ASSUME NEW c \in Command, Starts(c) PROVE Good
      BY <1>4, <2>1 DEF Starts
    <2>. QED  BY <1>1, <1>2, <1>3, <1>5, <2>1, NextIs
  <1>. QED  BY <1>b, <1>6 DEF Detections

LEMMA InitDetections == Init => Detections
  <1>. SUFFICES ASSUME Init PROVE Detections
    OBVIOUS
  <1>1. Purposes
    BY DEF Init, Purposes, Purpose, AfterBatch, Detecting
  <1>2. InUse
    BY DEF Init, InUse, NoScan
  <1>3. \A c \in Command : BeganTrue(c) /\ FileIsOwn(c) /\ NothingIsMissed(c)
    BY DEF Init, BeganTrue, FileIsOwn, NothingIsMissed, AfterBatch, Detecting
  <1>. QED  BY <1>1, <1>2, <1>3 DEF Detections

(* A detection ends by storing what it has found, which is all there was.  *)
LEMMA DetectionEnds ==
  ASSUME Inv, Typed, Detections, [Next]_vars, NEW c \in Command,
         pc[c] = "scanning", pc'[c] # "scanning", scan[c].at > 3
  PROVE  (KeepFirst(c) \/ Store(c)) /\ cache' = scan[c].found
  <1>. USE DEF Typed, TypeOK
  <1>1. ~ Same(c)
    BY DEF Same
  <1>2. ~ ReadCache(c) /\ ~ TakeLock(c)
    BY DEF ReadCache, TakeLock
  <1>3. ~ Detect(c)
    BY ManagersAre DEF Detect, SkipAbsent, ReadInventory, InventoryFails, BeginExport,
       WritesNothing, EndExport, ReadExport, RemoveExport, AtManager
  <1>4. ~ Install(c)
    BY InstallFrame
  <1>5. ~ Starts(c)
    BY StartFrame DEF Starts
  <1>. HIDE DEF Typed, TypeOK
  <1>6. KeepFirst(c) \/ Store(c)
    <2>1. \A d \in Command \ {c} :
            ~ Starts(d) /\ ~ Cached(d) /\ ~ Detect(d) /\ ~ Install(d)
      BY <1>1, StartFrame, CacheFrame, DetectFrame, InstallFrame DEF Starts
    <2>2. ~ HelperDies /\ ~ UNCHANGED vars
      BY <1>1, RestFrame
    <2>. QED  BY <1>2, <1>3, <1>4, <1>5, <2>1, <2>2, NextIs DEF Cached
  <1>. QED  BY <1>6 DEF KeepFirst, Store

(* It has found what was installed when it began.                          *)
LEMMA DetectionIsComplete ==
  ASSUME Typed, Detections, NEW c \in Command, c \notin crossed, pc[c] = "scanning",
         scan[c].at > 3, NEW p \in began[c], p.manager \in present
  PROVE  p \in scan[c].found.installed \/ p.manager \in scan[c].unread
  <1>1. InSight(c, p)
    BY DEF Detections, NothingIsMissed, Detecting
  <1>2. scan[c].at \in Nat
    <2>1. scan \in [Command -> ScanType]
      BY DEF Typed, TypeOK, ScanType
    <2>. QED  BY <2>1, ManagersAre DEF ScanType
  <1>. QED  BY <1>1, <1>2, ManagersAre DEF InSight

(* Only at its end does a command that scans come to rest.                 *)
EndsInstall(c) == job[c].kind = "install" /\ pc[c] = "scanning" /\ pc'[c] = "idle"

LEMMA InstallEndsByStore ==
  ASSUME Inv, Typed, Detections, [Next]_vars, NEW c \in Command, EndsInstall(c)
  PROVE  scan[c].at > 3 /\ AfterBatch(c)
  <1>1. ~ Same(c) /\ pc[c] = "scanning" /\ pc'[c] = "idle"
    BY DEF Same, EndsInstall
  <1>2. ~ Detect(c) /\ ~ Install(c) /\ ~ Starts(c) /\ ~ HelperDies /\ ~ UNCHANGED vars
    BY <1>1, DetectFrame, InstallFrame, StartFrame, RestFrame DEF Starts, Detecting
  <1>3. \A d \in Command \ {c} :
          ~ Starts(d) /\ ~ Cached(d) /\ ~ Detect(d) /\ ~ Install(d)
    BY <1>1, StartFrame, CacheFrame, DetectFrame, InstallFrame DEF Starts
  <1>4. Cached(c)
    BY <1>2, <1>3, NextIs
  <1>5. ~ ReadCache(c) /\ ~ TakeLock(c)
    BY <1>1 DEF ReadCache, TakeLock
  <1>6. ~ KeepFirst(c)
    BY <1>1 DEF KeepFirst, HaveRegistry, Move, EndsInstall, Typed, TypeOK
  <1>7. Store(c)
    BY <1>4, <1>5, <1>6 DEF Cached
  <1>8. lock # c /\ scan[c].at > 3
    BY <1>7, ManagersAre DEF Store, Scanned
  <1>. QED  BY <1>1, <1>8 DEF AfterBatch, Detecting, EndsInstall

-----------------------------------------------------------------------------
(* The theorems.                                                           *)

LEMMA InvStep == Inv /\ [Next]_vars => Inv'
  <1>. SUFFICES ASSUME Inv, [Next]_vars PROVE Inv'
    OBVIOUS
  <1>1. ASSUME NEW c \in Command, Step(c) PROVE Inv'
    BY <1>1, CacheStep, DetectStep, InstallStep DEF Step
  <1>2. ASSUME NEW c \in Command, NEW kind, NEW apps, StartCommand(c, kind, apps)
        PROVE  Inv'
    BY <1>2, StartStep
  <1>3. CASE HelperDies
    BY <1>3, StandsStill DEF HelperDies
  <1>4. CASE UNCHANGED vars
    BY <1>4, StandsStill DEF vars, batch
  <1>. QED  BY <1>1, <1>2, <1>3, <1>4 DEF Next

LEMMA InvHolds == Spec => []Inv
  BY InitInv, InvStep, PTL DEF Spec

LEMMA TypedStep == Inv /\ Inv' /\ Typed /\ [Next]_vars => Typed'
  <1>. SUFFICES ASSUME Inv, Inv', Typed, [Next]_vars PROVE Typed'
    OBVIOUS
  <1>1. ASSUME NEW c \in Command, Step(c) PROVE Typed'
    BY <1>1, CacheTyped, DetectTyped, InstallTyped DEF Step
  <1>2. ASSUME NEW c \in Command, NEW kind \in Kinds \ {"install"},
               StartCommand(c, kind, << >>)
        PROVE  Typed'
    <2>1. kind \in {"list", "refresh", "install"} /\ << >> \in Seq(App)
      BY SourcesAssumption
    <2>. QED  BY <1>2, <2>1, StartTyped
  <1>3. ASSUME NEW c \in Command, NEW apps \in Batches, StartCommand(c, "install", apps)
        PROVE  Typed'
    <2>1. apps \in Seq(App)
      BY SourcesAssumption
    <2>. QED  BY <1>3, <2>1, StartTyped
  <1>4. CASE HelperDies
    BY <1>4, HelperDiesTyped
  <1>5. CASE UNCHANGED vars
    <2>1. \A c \in Command : Plan(c)' = Plan(c)
      BY <1>5, PlanStays DEF vars
    <2>2. Running'
      BY <1>5, <2>1 DEF vars, Typed, Running
    <2>. QED  BY <1>5, <2>2 DEF vars, Typed, TypeOK
  <1>. QED  BY <1>1, <1>2, <1>3, <1>4, <1>5 DEF Next

LEMMA TypedHolds == Spec => []Typed
  BY InvHolds, InitTyped, TypedStep, PTL DEF Spec

(* The types: a detection passes each manager once, a plan is made of      *)
(* packages that a manager in use offers, and whoever installs has a       *)
(* registry (install_apps of commands.rs).                                 *)
THEOREM TypeCorrect == Spec => []TypeOK
  <1>1. Typed => TypeOK
    BY DEF Typed
  <1>. QED  BY <1>1, TypedHolds, PTL

(* A report never claims more than the machine has: install_all and        *)
(* install_one, for any number of commands, apps and batches, also when    *)
(* installs and refreshes overlap.                                         *)
THEOREM ReportsTellTheTruth == Spec => []ReportsAreTrue
  <1>1. Inv => ReportsAreTrue
    BY DEF Inv
  <1>. QED  BY <1>1, InvHolds, PTL

(* Nobody detects under the lock of a cache that is filled: `providers` in *)
(* commands.rs looks again when it has the lock.                           *)
THEOREM TheFirstDetectsForAll == Spec => []DetectionIsShared
  <1>1. Inv => DetectionIsShared
    BY DEF Inv
  <1>. QED  BY <1>1, InvHolds, PTL

(* A registry lists no package that is not installed, whoever detected it  *)
(* and however long ago.  What two wingets write to one file may be lost   *)
(* or old (read_inventory of winget.rs), never wrong.                      *)
THEOREM InventoriesListWhatIsInstalled == Spec => []InventoriesAreTrue
  <1>1. Inv => InventoriesAreTrue
    BY DEF Inv
  <1>. QED  BY <1>1, InvHolds, PTL

LEMMA DetectionsHold ==
  /\ Init => Inv /\ Typed /\ Detections
  /\ Inv /\ Typed /\ Detections /\ [Next]_vars => Inv' /\ Typed' /\ Detections'
  BY InitInv, InitTyped, InitDetections, InvStep, TypedStep, DetectionsStep

(* A registry that is stored has what was installed when its detection     *)
(* began (detect of registry.rs, read_inventory of winget.rs, `providers`  *)
(* and refresh_providers of commands.rs): for any number of commands that  *)
(* install, detect and store meanwhile, as long as winget could be asked   *)
(* and nobody else asked it at the same time.                              *)
THEOREM TheRegistryIsComplete == Spec => RegistryIsComplete
  <1>1. ASSUME Inv, Typed, Detections, [Next]_vars, NEW c \in Command \ crossed,
               Scanned(c), pc'[c] # "scanning", NEW p \in began[c],
               p.manager \in present \ scan[c].unread
        PROVE  p \in cache'.installed
    <2>1. pc[c] = "scanning" /\ scan[c].at > 3
      BY <1>1, ManagersAre DEF Scanned
    <2>2. cache' = scan[c].found
      BY <1>1, <2>1, DetectionEnds
    <2>. QED  BY <1>1, <2>1, <2>2, DetectionIsComplete
  <1>2. Inv /\ Typed /\ Detections /\ [Next]_vars =>
          [\A c \in Command \ crossed : Scanned(c) /\ pc'[c] # "scanning" =>
             \A p \in began[c] :
               p.manager \in present \ scan[c].unread => p \in cache'.installed]_vars
    BY <1>1
  <1>. QED  BY <1>2, DetectionsHold, PTL DEF Spec, RegistryIsComplete

(* After an install the registry is that of the machine (install_apps of   *)
(* commands.rs): the detection at the end of a batch misses nothing the    *)
(* batch has reported as installed, also while others install, list and    *)
(* detect, with the same two exceptions.                                   *)
THEOREM TheRegistryIsFresh == Spec => FreshAfterInstall
  <1>1. ASSUME Inv, Typed, Detections, [Next]_vars, NEW c \in Command \ crossed,
               EndsInstall(c)
        PROVE  Fresh(c)
    <2>1. scan[c].at > 3 /\ AfterBatch(c) /\ pc[c] = "scanning" /\ pc'[c] # "scanning"
      BY <1>1, InstallEndsByStore DEF EndsInstall
    <2>2. cache' = scan[c].found
      BY <1>1, <2>1, DetectionEnds
    <2>3. registry[c] # NoRegistry /\ Len(report[c]) = Len(Plan(c))
      BY <1>1, <2>1 DEF Detections, Purposes, Purpose
    <2>4. ASSUME NEW i \in DOMAIN report[c], report[c][i] # "failed"
          PROVE  \/ Plan(c)[i] \in scan[c].found.installed
                 \/ Plan(c)[i].manager \in scan[c].unread
      <3>1. Plan(c)[i] \in began[c]
        BY <1>1, <2>1, <2>4 DEF Detections, BeganTrue
      <3>2. Plan(c)[i].manager \in present
        BY <1>1, <2>3, <2>4, ReportedItem DEF Detections
      <3>. QED  BY <1>1, <2>1, <3>1, <3>2, DetectionIsComplete
    <2>. QED  BY <2>2, <2>4 DEF Fresh
  <1>2. Inv /\ Typed /\ Detections /\ [Next]_vars =>
          [\A c \in Command \ crossed : EndsInstall(c) => Fresh(c)]_vars
    BY <1>1
  <1>. QED  BY <1>2, DetectionsHold, PTL DEF Spec, FreshAfterInstall, EndsInstall
=============================================================================
