------------------------- MODULE TuningScreenProofs -------------------------
(***************************************************************************)
(* Proofs about TuningScreen, for any catalog and any number of lists and  *)
(* commands: its types, that the mutex of the inventory has one holder,    *)
(* that the cached inventory is fresh, and that the screen tells the truth *)
(* but for what nobody could know.                                         *)
(***************************************************************************)
EXTENDS TuningScreen, WellFoundedInduction, TLAPS

(* Whom one may meet where.                                                *)
Places ==
  /\ \A l \in Lister : pc[l] \in {"idle", "check", "lock", "fetch", "store"}
  /\ \A c \in Command : pc[c] \in {"idle", "apply", "revert", "drop"}

(* The inventory about to be stored is as good as the one in the cache has *)
(* to be, and a command that undoes a tweak leaves packages alone.         *)
Lists(packages) == \A p \in Package \ Disputed : p \in packages <=> p \notin inEffect
Supply ==
  /\ \A l \in Lister : pc[l] \in {"fetch", "store"} => ~cache.filled
  /\ \A l \in Lister : pc[l] = "store" /\ ~failed => Lists(inventory)
  /\ \A c \in Command : pc[c] \in {"idle", "revert"} => touched[c] \cap Package = {}
  /\ InventoryIsFresh

(* A status is right, or may be wrong.                                     *)
Right(status, t, doubts, blanks) ==
  \/ status \in {OnCount(t), "unknown"}
  \/ Actions(t) \cap doubts # {}
  \/ t \in blanks

(* A list is right about the tweaks it has passed, and has counted rightly *)
(* in the one it has come to: as far as a status depends on the count.     *)
Passed(l) == {t \in Offered : tweak[l] = 0 \/ t < tweak[l]}
On(t, n)  == \A i \in 1 .. n : Catalog[t].actions[i] \in inEffect
Off(t, n) == \A i \in 1 .. n : Catalog[t].actions[i] \notin inEffect
Counted(t, n, h) == (h = n <=> On(t, n)) /\ (h = 0 <=> Off(t, n))

Progress(l) ==
  /\ Disputed \subseteq doubt[l]
  /\ \A t \in Passed(l) : Right(answer[l][t], t, doubt[l], blind[l])
  /\ tweak[l] # 0 =>
       /\ checked[l] < Len(Catalog[tweak[l]].actions)
       /\ hits[l] <= checked[l]
       /\ \/ Counted(tweak[l], checked[l], hits[l])
          \/ Actions(tweak[l]) \cap doubt[l] # {}
          \/ tweak[l] \in blind[l]
  /\ pc[l] \in {"lock", "fetch", "store"} => tweak[l] # 0 /\ Reading(l) \in Package

Histories ==
  /\ doubt \in [Lister -> SUBSET Action]
  /\ blind \in [Lister -> SUBSET Tweak]
  /\ doubtful \subseteq Action
  /\ unseen \subseteq Tweak

Inv ==
  /\ TypeOK
  /\ Histories
  /\ Places
  /\ OneAtATime
  /\ Supply
  /\ \A l \in Lister : pc[l] # "idle" => Progress(l)
  /\ ScreenIsCurrent

-----------------------------------------------------------------------------
(* The catalog.                                                            *)
LEMMA ElementFacts ==
  ASSUME NEW S, NEW s \in Seq(S), NEW i \in 1 .. Len(s)
  PROVE  s[i] \in S
OBVIOUS

LEMMA TweakFacts ==
  ASSUME NEW t \in Tweak
  PROVE  /\ t \in Nat /\ t # 0
         /\ Catalog[t].actions \in Seq(Action)
         /\ Len(Catalog[t].actions) \in Nat /\ Len(Catalog[t].actions) > 0
         /\ DOMAIN Catalog[t].actions = 1 .. Len(Catalog[t].actions)
         /\ \A i \in 1 .. Len(Catalog[t].actions) :
              Catalog[t].actions[i] \in Actions(t) /\ Catalog[t].actions[i] \in Action
<1>1. Len(Catalog) \in Nat /\ t \in 1 .. Len(Catalog)
  BY CatalogAssumption DEF Tweak, CatalogAssumption
<1>2. Catalog[t] \in [actions : Seq(Action), applies : Applies]
  BY <1>1, CatalogAssumption, ElementFacts DEF CatalogAssumption
<1>3. Catalog[t].actions \in Seq(Action) /\ Catalog[t].actions # << >>
  <2>1. Catalog[t].actions \in Seq(Action)
    BY <1>2
  <2>2. Catalog[t].actions # << >>
    BY CatalogAssumption DEF CatalogAssumption
  <2> QED
    BY <2>1, <2>2
<1>4. /\ Len(Catalog[t].actions) \in Nat /\ Len(Catalog[t].actions) > 0
      /\ DOMAIN Catalog[t].actions = 1 .. Len(Catalog[t].actions)
      /\ \A i \in 1 .. Len(Catalog[t].actions) : Catalog[t].actions[i] \in Action
  BY <1>3
<1>5. \A i \in 1 .. Len(Catalog[t].actions) : Catalog[t].actions[i] \in Actions(t)
  BY <1>4 DEF Actions
<1> QED
  BY <1>1, <1>3, <1>4, <1>5

LEMMA OfferedFacts == Offered \subseteq Tweak /\ Tweak \subseteq Nat /\ 0 \notin Tweak
<1>1. Offered \subseteq Tweak
  BY Zenon DEF Offered
<1>2. Len(Catalog) \in Nat
  BY CatalogAssumption DEF CatalogAssumption
<1> QED
  BY <1>1, <1>2 DEF Tweak

LEMMA Least ==
  ASSUME NEW T \in SUBSET Nat, T # {}
  PROVE  \E u \in T : \A v \in T : u <= v
<1>1. PICK u \in T : \A v \in T : <<v, u>> \notin OpToRel(<, Nat)
  BY NatLessThanWellFounded, WFMin, Zenon
<1>2. u \in Nat /\ \A v \in T : v \in Nat
  OBVIOUS
<1>3. \A v \in T : ~ (v < u)
  BY <1>1, <1>2, Zenon DEF OpToRel
<1> QED
  BY <1>2, <1>3

LEMMA NextIs ==
  ASSUME NEW t \in Nat, NEW u, u = NextOffered(t)
  PROVE  /\ u \in Offered \cup {0}
         /\ u = 0 => \A v \in Offered : v <= t
         /\ u # 0 => u > t /\ \A v \in Offered : v > t => u <= v
<1> DEFINE rest == {v \in Offered : v > t}
<1>1. rest \subseteq Nat /\ rest \subseteq Offered /\ 0 \notin rest
  BY OfferedFacts
<1>2. CASE rest = {}
  <2>1. u = 0
    BY <1>2 DEF NextOffered
  <2> QED
    BY <1>2, <2>1, OfferedFacts
<1>3. CASE rest # {}
  <2> HIDE DEF rest
  <2>1. \E v \in rest : \A w \in rest : v <= w
    BY <1>1, <1>3, Least
  <2>2. u = CHOOSE v \in rest : \A w \in rest : v <= w
    BY <1>3 DEF NextOffered, rest
  <2>3. u \in rest /\ \A w \in rest : u <= w
    BY <2>1, <2>2
  <2> QED
    BY <2>3, <1>1 DEF rest
<1> QED
  BY <1>2, <1>3

-----------------------------------------------------------------------------
(* The queue for the mutex.                                                *)
Label == {"idle", "check", "lock", "fetch", "store", "apply", "revert", "drop"}
Waiting == {"lock", "fetch", "store", "drop"}

LEMMA Joins ==
  ASSUME Places, OneAtATime, queue \in Seq(Lister \cup Command),
         pc \in [Lister \cup Command -> Label],
         NEW x \in Lister \cup Command, pc[x] \notin Waiting,
         NEW label \in {"lock", "drop"}, Goto(x, label), queue' = Append(queue, x)
  PROVE  OneAtATime' /\ queue' \in Seq(Lister \cup Command)
<1>1. ~Waits(x)
  BY DEF OneAtATime, Waiting
<1>2. /\ Len(queue) \in Nat /\ DOMAIN queue = 1 .. Len(queue)
      /\ queue' \in Seq(Lister \cup Command)
      /\ Len(queue') = Len(queue) + 1 /\ DOMAIN queue' = 1 .. Len(queue) + 1
      /\ queue'[Len(queue) + 1] = x
      /\ \A i \in 1 .. Len(queue) : queue'[i] = queue[i]
      /\ queue # << >> => queue' # << >> /\ Head(queue') = Head(queue)
  OBVIOUS
<1>3. pc'[x] = label /\ \A y \in (Lister \cup Command) \ {x} : pc'[y] = pc[y]
  BY DEF Goto
<1>4. \A i, j \in DOMAIN queue' : queue'[i] = queue'[j] => i = j
  BY <1>1, <1>2 DEF OneAtATime, Waits
<1>5. \A y : Waits(y)' <=> Waits(y) \/ y = x
  BY <1>2 DEF Waits
<1>6. \A y \in Lister \cup Command : Waits(y)' <=> pc'[y] \in Waiting
  BY <1>3, <1>5 DEF OneAtATime, Waiting
<1>7. \A l \in Lister : pc'[l] \in {"fetch", "store"} => Holds(l)'
  BY <1>2, <1>3 DEF OneAtATime, Holds
<1> QED
  BY <1>2, <1>4, <1>6, <1>7 DEF OneAtATime, Waiting

LEMMA Leaves ==
  ASSUME OneAtATime, queue \in Seq(Lister \cup Command),
         pc \in [Lister \cup Command -> Label],
         NEW x \in Lister \cup Command, Holds(x),
         NEW label \in {"idle", "check"}, Goto(x, label), queue' = Tail(queue)
  PROVE  OneAtATime' /\ queue' \in Seq(Lister \cup Command)
<1>1. /\ Len(queue) \in Nat /\ Len(queue) > 0 /\ DOMAIN queue = 1 .. Len(queue)
      /\ queue' \in Seq(Lister \cup Command)
      /\ Len(queue') = Len(queue) - 1 /\ DOMAIN queue' = 1 .. Len(queue) - 1
      /\ queue[1] = x
      /\ \A i \in 1 .. Len(queue) - 1 : queue'[i] = queue[i + 1]
  BY DEF Holds
<1>2. pc'[x] = label /\ \A y \in (Lister \cup Command) \ {x} : pc'[y] = pc[y]
  BY DEF Goto
<1>3. \A i, j \in DOMAIN queue' : queue'[i] = queue'[j] => i = j
  BY <1>1 DEF OneAtATime
<1>4. \A i \in DOMAIN queue : i = 1 \/ (i - 1 \in DOMAIN queue' /\ queue'[i - 1] = queue[i])
  BY <1>1
<1>5. \A y : Waits(y)' => Waits(y) /\ y # x
  BY <1>1 DEF Waits, OneAtATime
<1>6. \A y : Waits(y) /\ y # x => Waits(y)'
  BY <1>1, <1>4 DEF Waits
<1>7. \A y \in Lister \cup Command : Waits(y)' <=> pc'[y] \in Waiting
  BY <1>2, <1>5, <1>6 DEF OneAtATime, Waiting
<1>8. \A l \in Lister : pc'[l] \in {"fetch", "store"} => Holds(l)'
  BY <1>2 DEF OneAtATime, Holds
<1> QED
  BY <1>1, <1>3, <1>7, <1>8 DEF OneAtATime, Waiting

LEMMA Stays ==
  ASSUME OneAtATime, pc \in [Lister \cup Command -> Label], UNCHANGED queue,
         pc' \in [Lister \cup Command -> Label],
         \A y \in Lister \cup Command :
           /\ pc'[y] \in Waiting <=> pc[y] \in Waiting
           /\ pc'[y] \in {"fetch", "store"} => pc[y] \in {"fetch", "store"} \/ Holds(y)
  PROVE  OneAtATime'
<1>1. \A y : (Waits(y)' <=> Waits(y)) /\ (Holds(y)' <=> Holds(y))
  BY DEF Waits, Holds
<1>2. \A y \in Lister \cup Command : Waits(y)' <=> pc'[y] \in Waiting
  BY <1>1 DEF OneAtATime, Waiting
<1>3. \A l \in Lister : pc'[l] \in {"fetch", "store"} => Holds(l)'
  BY <1>1 DEF OneAtATime
<1> QED
  BY <1>2, <1>3 DEF OneAtATime, Waiting

-----------------------------------------------------------------------------
(* Types.                                                                  *)
LEMMA ListChanges ==
  ASSUME NEW S, NEW f \in [Lister -> S], NEW l \in Lister, NEW e \in S
  PROVE  /\ [f EXCEPT ![l] = e] \in [Lister -> S]
         /\ [f EXCEPT ![l] = e][l] = e
         /\ \A k \in Lister \ {l} : [f EXCEPT ![l] = e][k] = f[k]
OBVIOUS

LEMMA AnswerChanges ==
  ASSUME answer \in [Lister -> [Tweak -> Status]], NEW l \in Lister, NEW t \in Tweak,
         NEW s \in Status, NEW f, f = [answer EXCEPT ![l][t] = s]
  PROVE  /\ f \in [Lister -> [Tweak -> Status]]
         /\ \A k \in Lister \ {l} : f[k] = answer[k]
         /\ f[l][t] = s /\ \A u \in Tweak \ {t} : f[l][u] = answer[l][u]
OBVIOUS

(* What a list has noted about its current tweak.                          *)
Lasts(l, readable) == ~readable \/ checked[l] + 1 = Len(Catalog[tweak[l]].actions)
Hits(l, isOn)      == hits[l] + (IF isOn THEN 1 ELSE 0)

LEMMA NoteFacts ==
  ASSUME TypeOK, NEW l \in Lister, tweak[l] # 0, NEW isOn \in BOOLEAN,
         NEW readable \in BOOLEAN, Note(l, isOn, readable)
  PROVE  /\ tweak' \in [Lister -> Offered \cup {0}]
         /\ checked' \in [Lister -> Nat] /\ hits' \in [Lister -> Nat]
         /\ answer' \in [Lister -> [Tweak -> Status]]
         /\ \A k \in Lister \ {l} :
              tweak'[k] = tweak[k] /\ checked'[k] = checked[k] /\ hits'[k] = hits[k]
              /\ answer'[k] = answer[k]
         /\ Lasts(l, readable) =>
              /\ answer'[l][tweak[l]] =
                   StatusFrom(Len(Catalog[tweak[l]].actions), Hits(l, isOn), readable)
              /\ \A u \in Tweak \ {tweak[l]} : answer'[l][u] = answer[l][u]
              /\ tweak'[l] = NextOffered(tweak[l]) /\ checked'[l] = 0 /\ hits'[l] = 0
         /\ ~Lasts(l, readable) =>
              /\ answer'[l] = answer[l] /\ tweak'[l] = tweak[l]
              /\ checked'[l] = checked[l] + 1 /\ hits'[l] = Hits(l, isOn)
<1>1. /\ tweak \in [Lister -> Offered \cup {0}] /\ checked \in [Lister -> Nat]
      /\ hits \in [Lister -> Nat] /\ answer \in [Lister -> [Tweak -> Status]]
  BY DEF TypeOK
<1>2. tweak[l] \in Tweak /\ tweak[l] \in Nat /\ checked[l] \in Nat /\ hits[l] \in Nat
  BY <1>1, OfferedFacts
<1> DEFINE s == StatusFrom(Len(Catalog[tweak[l]].actions), Hits(l, isOn), readable)
<1>3. s \in Status /\ Hits(l, isOn) \in Nat /\ checked[l] + 1 \in Nat
  BY <1>2 DEF StatusFrom, Status, Hits
<1>4. NextOffered(tweak[l]) \in Offered \cup {0}
  BY <1>2, NextIs
<1> HIDE DEF s
<1>5. CASE Lasts(l, readable)
  <2>1. /\ answer' = [answer EXCEPT ![l][tweak[l]] = s]
        /\ tweak' = [tweak EXCEPT ![l] = NextOffered(tweak[l])]
        /\ checked' = [checked EXCEPT ![l] = 0]
        /\ hits' = [hits EXCEPT ![l] = 0]
    BY <1>5 DEF Note, Lasts, Hits, s
  <2>2. /\ answer' \in [Lister -> [Tweak -> Status]]
        /\ \A k \in Lister \ {l} : answer'[k] = answer[k]
        /\ answer'[l][tweak[l]] = s
        /\ \A u \in Tweak \ {tweak[l]} : answer'[l][u] = answer[l][u]
    BY <2>1, <1>1, <1>2, <1>3, AnswerChanges
  <2>3. /\ tweak' \in [Lister -> Offered \cup {0}] /\ tweak'[l] = NextOffered(tweak[l])
        /\ \A k \in Lister \ {l} : tweak'[k] = tweak[k]
    BY <2>1, <1>1, <1>4, ListChanges
  <2>4. /\ checked' \in [Lister -> Nat] /\ checked'[l] = 0
        /\ \A k \in Lister \ {l} : checked'[k] = checked[k]
    BY <2>1, <1>1
  <2>5. /\ hits' \in [Lister -> Nat] /\ hits'[l] = 0
        /\ \A k \in Lister \ {l} : hits'[k] = hits[k]
    BY <2>1, <1>1
  <2> QED
    BY <1>5, <2>2, <2>3, <2>4, <2>5 DEF s
<1>6. CASE ~Lasts(l, readable)
  <2>1. /\ answer' = answer /\ tweak' = tweak
        /\ checked' = [checked EXCEPT ![l] = checked[l] + 1]
        /\ hits' = [hits EXCEPT ![l] = Hits(l, isOn)]
    BY <1>6 DEF Note, Lasts, Hits
  <2>2. /\ checked' \in [Lister -> Nat] /\ checked'[l] = checked[l] + 1
        /\ \A k \in Lister \ {l} : checked'[k] = checked[k]
    BY <2>1, <1>1, <1>3, ListChanges
  <2>3. /\ hits' \in [Lister -> Nat] /\ hits'[l] = Hits(l, isOn)
        /\ \A k \in Lister \ {l} : hits'[k] = hits[k]
    BY <2>1, <1>1, <1>3, ListChanges
  <2> QED
    BY <1>1, <1>6, <2>1, <2>2, <2>3
<1> QED
  BY <1>5, <1>6

(* Where tasks are.                                                        *)
PlacesOK == pc \in [Lister \cup Command -> Label] /\ Places

LEMMA Moves ==
  ASSUME PlacesOK, NEW x \in Lister \cup Command, NEW label, Goto(x, label),
         x \in Lister => label \in {"idle", "check", "lock", "fetch", "store"},
         x \in Command => label \in {"idle", "apply", "revert", "drop"}
  PROVE  /\ PlacesOK' /\ pc'[x] = label
         /\ \A y \in (Lister \cup Command) \ {x} : pc'[y] = pc[y]
<1>1. /\ label \in Label /\ pc' = [pc EXCEPT ![x] = label]
      /\ pc \in [Lister \cup Command -> Label]
  BY DEF Goto, Label, PlacesOK
<1>2. /\ pc' \in [Lister \cup Command -> Label] /\ pc'[x] = label
      /\ \A y \in (Lister \cup Command) \ {x} : pc'[y] = pc[y]
  BY <1>1
<1> QED
  BY <1>2 DEF PlacesOK, Places

LEMMA BothOrOne ==
  /\ \A l \in Lister : l \in Lister \cup Command /\ l \notin Command
  /\ \A c \in Command : c \in Lister \cup Command /\ c \notin Lister
BY TasksAreDistinct DEF TasksAreDistinct

Line == queue \in Seq(Lister \cup Command) /\ OneAtATime

(* Somebody moves, without a change to the queue.                          *)
LEMMA Shifts ==
  ASSUME PlacesOK, Line, NEW x \in Lister \cup Command, NEW label, Goto(x, label),
         x \in Lister => label \in {"idle", "check", "lock", "fetch", "store"},
         x \in Command => label \in {"idle", "apply", "revert", "drop"},
         label \in Waiting <=> pc[x] \in Waiting,
         label \in {"fetch", "store"} => Holds(x), UNCHANGED queue
  PROVE  PlacesOK' /\ Line'
<1>1. /\ PlacesOK' /\ pc'[x] = label
      /\ \A y \in (Lister \cup Command) \ {x} : pc'[y] = pc[y]
  BY Moves
<1>2. OneAtATime'
  BY <1>1, Stays DEF PlacesOK, Line
<1> QED
  BY <1>1, <1>2 DEF Line

LEMMA Stand ==
  ASSUME PlacesOK, Line, UNCHANGED <<pc, queue>>
  PROVE  PlacesOK' /\ Line'
BY DEF PlacesOK, Places, Line, OneAtATime, Waits, Holds

LEMMA LineStep ==
  ASSUME PlacesOK, Line, Next
  PROVE  PlacesOK' /\ Line'
<1>0. /\ pc \in [Lister \cup Command -> Label] /\ Places /\ OneAtATime
      /\ queue \in Seq(Lister \cup Command)
  BY DEF PlacesOK, Line
<1>1. ASSUME NEW l \in Lister, StartList(l)  PROVE PlacesOK' /\ Line'
  BY <1>1, BothOrOne, Shifts DEF StartList, Waiting
<1>2. ASSUME NEW l \in Lister, ReadSetting(l)  PROVE PlacesOK' /\ Line'
  BY <1>2, Stand DEF ReadSetting
<1>3. ASSUME NEW l \in Lister, AskInventory(l)  PROVE PlacesOK' /\ Line'
  <2>1. /\ pc[l] \notin Waiting /\ Goto(l, "lock") /\ queue' = Append(queue, l)
        /\ l \in Lister \cup Command /\ l \notin Command
    BY <1>3, BothOrOne DEF AskInventory, Waiting
  <2>2. PlacesOK'
    BY <2>1, Moves
  <2>3. Line'
    BY <1>0, <2>1, Joins DEF Line
  <2> QED
    BY <2>2, <2>3
<1>4. ASSUME NEW l \in Lister, FromCache(l) \/ NoPowerShell(l) \/ StoreInventory(l)
      PROVE  PlacesOK' /\ Line'
  <2>1. /\ Goto(l, "check") /\ queue' = Tail(queue) /\ Holds(l)
        /\ l \in Lister \cup Command /\ l \notin Command
    BY <1>0, <1>4, BothOrOne DEF FromCache, NoPowerShell, StoreInventory, LookUp, OneAtATime
  <2>2. PlacesOK'
    BY <2>1, Moves
  <2>3. Line'
    BY <1>0, <2>1, Leaves DEF Line
  <2> QED
    BY <2>2, <2>3
<1>5. ASSUME NEW l \in Lister, StartPowerShell(l)  PROVE PlacesOK' /\ Line'
  BY <1>5, BothOrOne, Shifts DEF StartPowerShell, Waiting
<1>6. ASSUME NEW l \in Lister, PowerShellEnds(l)  PROVE PlacesOK' /\ Line'
  <2>1. Goto(l, "store") /\ pc[l] = "fetch" /\ UNCHANGED queue
    BY <1>6 DEF PowerShellEnds
  <2>2. Holds(l)
    BY <1>0, <2>1 DEF OneAtATime
  <2> QED
    BY <2>1, <2>2, BothOrOne, Shifts DEF Waiting
<1>7. ASSUME NEW l \in Lister, EndList(l)  PROVE PlacesOK' /\ Line'
  BY <1>7, BothOrOne, Shifts DEF EndList, Waiting
<1>8. ASSUME NEW c \in Command, Perform(c)  PROVE PlacesOK' /\ Line'
  BY <1>8, Stand DEF Perform
<1>9. ASSUME NEW c \in Command, PerformFails(c)  PROVE PlacesOK' /\ Line'
  <2>1. CASE UNCHANGED <<pc, queue>>
    BY <2>1, Stand
  <2>2. CASE Goto(c, "idle") /\ pc[c] = "revert" /\ UNCHANGED queue
    BY <2>2, BothOrOne, Shifts DEF Waiting
  <2> QED
    BY <1>9, <2>1, <2>2 DEF PerformFails
<1>10. ASSUME NEW c \in Command, AskToDrop(c)  PROVE PlacesOK' /\ Line'
  <2>1. /\ pc[c] \notin Waiting /\ Goto(c, "drop") /\ queue' = Append(queue, c)
        /\ c \in Lister \cup Command /\ c \notin Lister
    BY <1>10, BothOrOne DEF AskToDrop, Waiting
  <2>2. PlacesOK'
    BY <2>1, Moves
  <2>3. Line'
    BY <1>0, <2>1, Joins DEF Line
  <2> QED
    BY <2>2, <2>3
<1>11. ASSUME NEW c \in Command, Invalidate(c)  PROVE PlacesOK' /\ Line'
  <2>1. /\ Goto(c, "idle") /\ queue' = Tail(queue) /\ Holds(c)
        /\ c \in Lister \cup Command /\ c \notin Lister
    BY <1>11, BothOrOne DEF Invalidate
  <2>2. PlacesOK'
    BY <2>1, Moves
  <2>3. Line'
    BY <1>0, <2>1, Leaves DEF Line
  <2> QED
    BY <2>2, <2>3
<1>12. ASSUME NEW c \in Command, NEW t \in Tweak, NEW apply \in BOOLEAN,
              StartCommand(c, t, apply)
       PROVE  PlacesOK' /\ Line'
  <2> DEFINE label == IF apply THEN "apply" ELSE "revert"
  <2>1. Goto(c, label) /\ pc[c] = "idle" /\ UNCHANGED queue /\ label \in {"apply", "revert"}
    BY <1>12 DEF StartCommand
  <2> HIDE DEF label
  <2> QED
    BY <2>1, BothOrOne, Shifts DEF Waiting
<1>13. ASSUME NEW a \in Action, Outside(a)  PROVE PlacesOK' /\ Line'
  BY <1>13, Stand DEF Outside
<1>14. ASSUME NEW c \in Command, NEW t \in Tweak, NextTweak(c, t)  PROVE PlacesOK' /\ Line'
  BY <1>14, Stand DEF NextTweak
<1> QED
  BY <1>1, <1>2, <1>3, <1>4, <1>5, <1>6, <1>7, <1>8, <1>9, <1>10, <1>11, <1>12, <1>13, <1>14
  DEF Next, ListStep, CommandStep

(* The other variables, by what changes them together.                     *)
MachineTypes ==
  /\ inEffect \subseteq Action /\ outside \in 0 .. MaxOutside /\ foreign \subseteq Package
  /\ cache \in [filled : BOOLEAN, packages : SUBSET Package]
  /\ inventory \subseteq Package /\ failed \in BOOLEAN
ListTypes ==
  /\ tweak \in [Lister -> Offered \cup {0}]
  /\ checked \in [Lister -> Nat] /\ hits \in [Lister -> Nat]
  /\ answer \in [Lister -> [Tweak -> Status]]
ScreenTypes ==
  shown \in [Tweak -> Status] /\ doubtful \subseteq Action /\ unseen \subseteq Tweak
TaskTypes ==
  todo \in [Command -> Seq(Action)] /\ touched \in [Command -> SUBSET Action]
BlameTypes ==
  doubt \in [Lister -> SUBSET Action] /\ blind \in [Lister -> SUBSET Tweak]

LEMMA TypesAre ==
  TypeOK /\ Histories <=>
    /\ MachineTypes /\ ListTypes /\ ScreenTypes /\ TaskTypes /\ BlameTypes
    /\ queue \in Seq(Lister \cup Command) /\ pc \in [Lister \cup Command -> Label]
BY DEF TypeOK, Histories, MachineTypes, ListTypes, ScreenTypes, TaskTypes, BlameTypes, Label

LEMMA TaskChanges ==
  ASSUME NEW S, NEW f \in [Command -> S], NEW c \in Command, NEW e \in S
  PROVE  /\ [f EXCEPT ![c] = e] \in [Command -> S]
         /\ [f EXCEPT ![c] = e][c] = e
         /\ \A d \in Command \ {c} : [f EXCEPT ![c] = e][d] = f[d]
OBVIOUS

LEMMA Changed ==
  ASSUME MachineTypes, ScreenTypes, BlameTypes, NEW a \in Action, NEW on \in BOOLEAN,
         Change(a, on)
  PROVE  /\ inEffect' \subseteq Action /\ doubtful' \subseteq Action
         /\ doubt' \in [Lister -> SUBSET Action]
         /\ \A b \in Action \ {a} : b \in inEffect' <=> b \in inEffect
         /\ doubtful' = doubtful \cup {a}
         /\ \A l \in Lister : pc[l] # "idle" => doubt'[l] = doubt[l] \cup {a}
<1>1. /\ inEffect' \subseteq Action /\ doubtful' = doubtful \cup {a}
      /\ \A b \in Action \ {a} : b \in inEffect' <=> b \in inEffect
  BY DEF Change, MachineTypes
<1>2. \A l \in Lister : doubt'[l] \in SUBSET Action
  BY DEF Change, BlameTypes
<1>3. /\ doubt' \in [Lister -> SUBSET Action]
      /\ \A l \in Lister : pc[l] # "idle" => doubt'[l] = doubt[l] \cup {a}
  BY <1>2 DEF Change
<1> QED
  BY <1>1, <1>3 DEF ScreenTypes

LEMMA DisputedAreActions ==
  ASSUME MachineTypes, TaskTypes
  PROVE  Disputed \subseteq Action
BY DEF MachineTypes, TaskTypes, Disputed, Action

LEMMA NoteTypes ==
  ASSUME TypeOK, NEW l \in Lister, tweak[l] # 0, NEW isOn \in BOOLEAN,
         NEW readable \in BOOLEAN, Note(l, isOn, readable)
  PROVE  ListTypes'
BY NoteFacts DEF ListTypes

Types == MachineTypes /\ ListTypes /\ ScreenTypes /\ TaskTypes /\ BlameTypes

(* A list that holds or awaits the mutex has come to a tweak.              *)
HasTweak == \A l \in Lister : pc[l] \in {"lock", "fetch", "store"} => tweak[l] # 0

LEMMA LookUpTypes ==
  ASSUME TypeOK, Types, NEW l \in Lister, tweak[l] # 0, NEW packages, NEW isFailed,
         LookUp(l, packages, isFailed)
  PROVE  ListTypes' /\ blind' \in [Lister -> SUBSET Tweak]
<1>1. ListTypes'
  BY NoteTypes DEF LookUp
<1>2. tweak[l] \in Tweak
  BY OfferedFacts DEF Types, ListTypes
<1>3. blind' \in [Lister -> SUBSET Tweak]
  <2>1. blind \in [Lister -> SUBSET Tweak] /\ blind[l] \cup {tweak[l]} \in SUBSET Tweak
    BY <1>2 DEF Types, BlameTypes
  <2>2. blind' = [blind EXCEPT ![l] = blind[l] \cup {tweak[l]}] \/ blind' = blind
    BY DEF LookUp
  <2> QED
    BY <2>1, <2>2, ListChanges
<1> QED
  BY <1>1, <1>3

LEMMA ListTypesStep ==
  ASSUME TypeOK, Types, HasTweak, NEW l \in Lister, StartList(l) \/ ListStep(l)
  PROVE  Types'
<1>1. CASE StartList(l)
  <2>1. ListTypes'
    <3>1. tweak' = [tweak EXCEPT ![l] = NextOffered(0)] /\ NextOffered(0) \in Offered \cup {0}
      BY <1>1, NextIs DEF StartList
    <3>2. tweak' \in [Lister -> Offered \cup {0}]
      BY <3>1, ListChanges DEF Types, ListTypes
    <3>3. checked' \in [Lister -> Nat] /\ hits' \in [Lister -> Nat]
      BY <1>1, ListChanges DEF StartList, Types, ListTypes
    <3> QED
      BY <1>1, <3>2, <3>3 DEF StartList, Types, ListTypes
  <2>2. BlameTypes'
    <3>1. doubt' = [doubt EXCEPT ![l] = Disputed] /\ Disputed \in SUBSET Action
      BY <1>1, DisputedAreActions DEF StartList, Types
    <3> QED
      BY <1>1, <3>1, ListChanges DEF StartList, Types, BlameTypes
  <2> QED
    BY <1>1, <2>1, <2>2 DEF StartList, Types, MachineTypes, ScreenTypes, TaskTypes
<1>2. CASE ReadSetting(l)
  <2>1. ListTypes'
    <3>1. PICK readable \in BOOLEAN : Note(l, Reading(l) \in inEffect, readable)
      BY <1>2 DEF ReadSetting
    <3>2. (Reading(l) \in inEffect) \in BOOLEAN /\ tweak[l] # 0
      BY <1>2 DEF ReadSetting
    <3> QED
      BY <3>1, <3>2, NoteTypes
  <2> QED
    BY <1>2, <2>1 DEF ReadSetting, Types, MachineTypes, ScreenTypes, TaskTypes, BlameTypes,
       screenVars
<1>3. CASE AskInventory(l) \/ StartPowerShell(l)
  BY <1>3 DEF AskInventory, StartPowerShell, Types, MachineTypes, ListTypes, ScreenTypes,
     TaskTypes, BlameTypes, screenVars, listVars
<1>4. CASE FromCache(l)
  <2>1. ListTypes' /\ blind' \in [Lister -> SUBSET Tweak]
    BY <1>4, LookUpTypes DEF FromCache, HasTweak
  <2> QED
    BY <1>4, <2>1 DEF FromCache, Types, MachineTypes, ScreenTypes, TaskTypes, BlameTypes,
       screenVars
<1>5. CASE NoPowerShell(l)
  <2>1. ListTypes'
    BY <1>5, NoteTypes DEF NoPowerShell, HasTweak
  <2> QED
    BY <1>5, <2>1 DEF NoPowerShell, Types, MachineTypes, ScreenTypes, TaskTypes, BlameTypes,
       screenVars
<1>6. CASE PowerShellEnds(l)
  <2>1. inventory' \subseteq Package /\ failed' \in BOOLEAN
    BY <1>6 DEF PowerShellEnds
  <2> QED
    BY <1>6, <2>1 DEF PowerShellEnds, Types, MachineTypes, ListTypes, ScreenTypes,
       TaskTypes, BlameTypes, screenVars, listVars
<1>7. CASE StoreInventory(l)
  <2>1. ListTypes' /\ blind' \in [Lister -> SUBSET Tweak]
    BY <1>7, LookUpTypes DEF StoreInventory, HasTweak
  <2>2. MachineTypes'
    BY <1>7 DEF StoreInventory, Types, MachineTypes, Cached
  <2> QED
    BY <1>7, <2>1, <2>2 DEF StoreInventory, Types, ScreenTypes, TaskTypes, BlameTypes,
       screenVars
<1>8. CASE EndList(l)
  <2>1. answer[l] \in [Tweak -> Status] /\ NoAnswer \in [Tweak -> Status]
    BY DEF Types, ListTypes, NoAnswer, Status
  <2>2. ListTypes'
    BY <1>8, <2>1, ListChanges DEF EndList, Types, ListTypes
  <2>3. ScreenTypes'
    BY <1>8, <2>1 DEF EndList, Types, ScreenTypes, BlameTypes
  <2>4. BlameTypes'
    BY <1>8, ListChanges DEF EndList, Types, BlameTypes
  <2> QED
    BY <1>8, <2>2, <2>3, <2>4 DEF EndList, Types, MachineTypes, TaskTypes
<1> QED
  BY <1>1, <1>2, <1>3, <1>4, <1>5, <1>6, <1>7, <1>8 DEF ListStep

(* What a command does next, and what it has left after that.              *)
LEMMA TodoFacts ==
  ASSUME Types, NEW c \in Command, todo[c] # << >>
  PROVE  /\ todo[c] \in Seq(Action) /\ Head(todo[c]) \in Action
         /\ Tail(todo[c]) \in Seq(Action)
<1>1. todo[c] \in Seq(Action)
  BY DEF Types, TaskTypes
<1> QED
  BY <1>1

LEMMA CommandTypesStep ==
  ASSUME Types, NEW c \in Command,
         \/ CommandStep(c)
         \/ \E t \in Tweak :
              NextTweak(c, t) \/ \E apply \in BOOLEAN : StartCommand(c, t, apply)
  PROVE  Types'
<1>0. todo \in [Command -> Seq(Action)] /\ touched \in [Command -> SUBSET Action]
  BY DEF Types, TaskTypes
<1>1. CASE Perform(c)
  <2> DEFINE a == Head(todo[c])
  <2>1. a \in Action /\ Tail(todo[c]) \in Seq(Action) /\ touched[c] \cup {a} \in SUBSET Action
    BY <1>0, <1>1, TodoFacts DEF Perform
  <2>2. todo' \in [Command -> Seq(Action)]
    BY <1>0, <1>1, <2>1, TaskChanges DEF Perform
  <2>3. ASSUME NEW on \in BOOLEAN, Change(a, on),
               touched' = [touched EXCEPT ![c] = touched[c] \cup {a}]
        PROVE  Types'
    <3> HIDE DEF a
    <3>1. touched' \in [Command -> SUBSET Action]
      BY <1>0, <2>1, <2>3, TaskChanges
    <3>2. /\ inEffect' \subseteq Action /\ doubtful' \subseteq Action
          /\ doubt' \in [Lister -> SUBSET Action]
      BY <2>1, <2>3, Changed DEF Types
    <3> QED
      BY <1>1, <2>2, <3>1, <3>2 DEF Perform, Types, MachineTypes, ListTypes, ScreenTypes,
         TaskTypes, BlameTypes, listVars
  <2>4. CASE UNCHANGED <<inEffect, doubt, doubtful, touched>>
    BY <1>1, <2>2, <2>4 DEF Perform, Types, MachineTypes, ListTypes, ScreenTypes,
       TaskTypes, BlameTypes, listVars
  <2> QED
    BY <1>1, <2>3, <2>4 DEF Perform
<1>2. CASE PerformFails(c)
  <2>1. todo' \in [Command -> Seq(Action)] /\ touched' \in [Command -> SUBSET Action]
    <3>1. << >> \in Seq(Action) /\ {} \in SUBSET Action
      OBVIOUS
    <3>2. \/ todo' = [todo EXCEPT ![c] = << >>] /\ UNCHANGED touched
          \/ touched' = [touched EXCEPT ![c] = {}] /\ UNCHANGED todo
      BY <1>2 DEF PerformFails
    <3>3. todo' \in [Command -> Seq(Action)]
      <4>1. CASE UNCHANGED todo
        BY <1>0, <4>1
      <4>2. CASE todo' = [todo EXCEPT ![c] = << >>]
        <5>1. \A d \in Command : todo'[d] \in Seq(Action)
          BY <1>0, <3>1, <4>2
        <5> QED
          BY <1>0, <4>2, <5>1
      <4> QED
        BY <3>2, <4>1, <4>2
    <3>4. touched' \in [Command -> SUBSET Action]
      BY <1>0, <3>1, <3>2, TaskChanges
    <3> QED
      BY <3>3, <3>4
  <2> QED
    BY <1>2, <2>1 DEF PerformFails, Types, MachineTypes, ListTypes, ScreenTypes, TaskTypes,
       BlameTypes, screenVars, listVars
<1>3. CASE AskToDrop(c)
  BY <1>3 DEF AskToDrop, Types, MachineTypes, ListTypes, ScreenTypes, TaskTypes,
     BlameTypes, screenVars, listVars
<1>4. CASE Invalidate(c)
  <2>1. touched' \in [Command -> SUBSET Action]
    BY <1>0, <1>4, TaskChanges DEF Invalidate
  <2>2. MachineTypes'
    BY <1>4 DEF Invalidate, Types, MachineTypes, NoInventory
  <2> QED
    BY <1>4, <2>1, <2>2 DEF Invalidate, Types, ListTypes, ScreenTypes, TaskTypes,
       BlameTypes, screenVars, listVars
<1>5. ASSUME NEW t \in Tweak, NextTweak(c, t) \/ \E apply \in BOOLEAN : StartCommand(c, t, apply)
      PROVE  Types'
  <2>1. Catalog[t].actions \in Seq(Action)
    BY TweakFacts
  <2>2. todo' \in [Command -> Seq(Action)]
    BY <1>0, <1>5, <2>1, TaskChanges DEF StartCommand, NextTweak
  <2>3. CASE NextTweak(c, t)
    BY <2>2, <2>3 DEF NextTweak, Types, MachineTypes, ListTypes, ScreenTypes, TaskTypes,
       BlameTypes, screenVars, listVars
  <2>4. CASE \E apply \in BOOLEAN : StartCommand(c, t, apply)
    BY <2>2, <2>4 DEF StartCommand, Types, MachineTypes, ListTypes, ScreenTypes, TaskTypes,
       BlameTypes, screenVars, listVars
  <2> QED
    BY <1>5, <2>3, <2>4
<1> QED
  BY <1>1, <1>2, <1>3, <1>4, <1>5 DEF CommandStep

LEMMA OutsideTypesStep ==
  ASSUME Types, NEW a \in Action, Outside(a)
  PROVE  Types'
<1>1. /\ inEffect' \subseteq Action /\ doubtful' \subseteq Action
      /\ doubt' \in [Lister -> SUBSET Action]
  BY Changed DEF Outside, Types
<1>2. outside' \in 0 .. MaxOutside
  BY NumbersAssumption DEF Outside, NumbersAssumption, Types, MachineTypes
<1>3. foreign' \subseteq Package
  BY DEF Outside, Types, MachineTypes
<1> QED
  BY <1>1, <1>2, <1>3 DEF Outside, Types, MachineTypes, ListTypes, ScreenTypes, TaskTypes,
     BlameTypes, listVars

LEMMA TypesStep ==
  ASSUME TypeOK, Histories, PlacesOK, Line, HasTweak, Next
  PROVE  TypeOK' /\ Histories'
<1>1. Types
  BY TypesAre DEF Types
<1>2. Types'
  BY <1>1, ListTypesStep, CommandTypesStep, OutsideTypesStep DEF Next
<1>3. PlacesOK' /\ Line'
  BY LineStep
<1> QED
  BY <1>2, <1>3, TypesAre, PTL DEF Types, PlacesOK, Line

-----------------------------------------------------------------------------
(* The inventory.                                                          *)
LEMMA OneHolder ==
  ASSUME Line, NEW l \in Lister, pc[l] \in {"fetch", "store"}
  PROVE  /\ Holds(l)
         /\ \A k \in Lister : pc[k] \in {"fetch", "store"} => k = l
         /\ \A c \in Command : ~Holds(c)
BY BothOrOne DEF Line, OneAtATime, Holds

LEMMA SupplyStays ==
  ASSUME Supply, UNCHANGED <<cache, inventory, failed>>,
         \A p \in Package : p \notin Disputed' => p \notin Disputed,
         \A p \in Package : p \notin Disputed' => (p \in inEffect' <=> p \in inEffect),
         \A l \in Lister : pc'[l] \in {"fetch", "store"} => pc'[l] = pc[l],
         \A c \in Command : pc'[c] \in {"idle", "revert"} => touched'[c] \cap Package = {}
  PROVE  Supply'
<1>1. \A packages : Lists(packages) => Lists(packages)'
  BY DEF Lists
<1>2. InventoryIsFresh'
  BY <1>1 DEF Supply, InventoryIsFresh, Lists
<1> QED
  BY <1>1, <1>2 DEF Supply, Lists

LEMMA DisputedStays ==
  ASSUME UNCHANGED <<touched, foreign>>
  PROVE  UNCHANGED Disputed
BY DEF Disputed

(* Nothing happens to the machine, the cache or who has touched what.      *)
LEMMA SupplyIdles ==
  ASSUME Supply, PlacesOK, UNCHANGED <<cache, inventory, failed, inEffect, touched, foreign>>,
         NEW x \in Lister \cup Command, NEW label, Goto(x, label),
         label \notin {"fetch", "store"},
         x \in Lister => label \in {"idle", "check", "lock"},
         x \in Command => label \in {"apply", "drop"} \/ pc[x] = "idle"
  PROVE  Supply'
<1>1. pc'[x] = label /\ \A y \in (Lister \cup Command) \ {x} : pc'[y] = pc[y]
  BY DEF Goto, PlacesOK
<1>2. \A c \in Command : pc'[c] \in {"idle", "revert"} => pc[c] \in {"idle", "revert"}
  BY <1>1, BothOrOne DEF PlacesOK, Places
<1>3. \A l \in Lister : pc'[l] \in {"fetch", "store"} => pc'[l] = pc[l]
  BY <1>1
<1>4. \A c \in Command : pc'[c] \in {"idle", "revert"} => touched'[c] \cap Package = {}
  BY <1>2 DEF Supply
<1> QED
  BY <1>3, <1>4, DisputedStays, SupplyStays

LEMMA SupplyByLists ==
  ASSUME Supply, PlacesOK, PlacesOK', Line, Types,
         NEW l \in Lister, StartList(l) \/ ListStep(l)
  PROVE  Supply'
<1>0. l \in Lister \cup Command /\ l \notin Command /\ pc \in [Lister \cup Command -> Label]
  BY BothOrOne DEF PlacesOK
<1>1. CASE \/ StartList(l) \/ AskInventory(l) \/ FromCache(l) \/ NoPowerShell(l)
           \/ EndList(l)
  <2>1. PICK label \in {"idle", "check", "lock"} : Goto(l, label)
    BY <1>1 DEF StartList, AskInventory, FromCache, NoPowerShell, EndList, LookUp
  <2>2. UNCHANGED <<cache, inventory, failed, inEffect, touched, foreign>>
    BY <1>1 DEF StartList, AskInventory, FromCache, NoPowerShell, EndList
  <2> QED
    BY <1>0, <2>1, <2>2, SupplyIdles
<1>2. CASE ReadSetting(l)
  <2>1. UNCHANGED <<cache, inventory, failed, inEffect, touched, foreign, pc>>
    BY <1>2 DEF ReadSetting
  <2> QED
    BY <2>1, DisputedStays, SupplyStays DEF Supply
<1>3. ASSUME StartPowerShell(l) \/ PowerShellEnds(l)
      PROVE  /\ \A c \in Command : pc'[c] \in {"idle", "revert"} => touched'[c] \cap Package = {}
             /\ \A k \in Lister \ {l} : pc'[k] = pc[k]
  <2>1. UNCHANGED touched /\ (Goto(l, "fetch") \/ Goto(l, "store"))
    BY <1>3 DEF StartPowerShell, PowerShellEnds
  <2>2. \A y \in (Lister \cup Command) \ {l} : pc'[y] = pc[y]
    BY <1>0, <2>1 DEF Goto
  <2> QED
    BY <2>1, <2>2, BothOrOne DEF Supply
<1>4. CASE StartPowerShell(l)
  <2>1. UNCHANGED <<cache, inventory, failed, inEffect, touched, foreign>> /\ ~cache.filled
        /\ pc'[l] = "fetch"
    BY <1>0, <1>4 DEF StartPowerShell, Goto
  <2>2. UNCHANGED Disputed
    BY <2>1, DisputedStays
  <2>3. \A packages : Lists(packages)' <=> Lists(packages)
    BY <2>1, <2>2 DEF Lists
  <2>4. \A k \in Lister : pc'[k] = "store" => pc[k] = "store"
    BY <1>3, <1>4, <2>1
  <2>5. \A k \in Lister : pc'[k] = "store" /\ ~failed' => Lists(inventory)'
    BY <2>1, <2>2, <2>4 DEF Supply, Lists
  <2> QED
    BY <1>3, <1>4, <2>1, <2>5 DEF Supply, InventoryIsFresh
<1>5. CASE PowerShellEnds(l)
  <2>1. /\ UNCHANGED <<cache, inEffect, touched, foreign>> /\ pc[l] = "fetch"
        /\ failed' \/ inventory' = Package \ inEffect
    BY <1>5 DEF PowerShellEnds
  <2>2. ~cache'.filled
    BY <2>1 DEF Supply
  <2>3. ~failed' => Lists(inventory)'
    BY <2>1 DEF Lists
  <2> QED
    BY <1>3, <1>5, <2>2, <2>3 DEF Supply, InventoryIsFresh
<1>6. CASE StoreInventory(l)
  <2>1. /\ UNCHANGED <<inEffect, touched, foreign, failed>> /\ pc[l] = "store"
        /\ cache' = Cached(inventory) /\ Goto(l, "check")
    BY <1>6 DEF StoreInventory, LookUp
  <2>2. pc'[l] = "check" /\ \A y \in (Lister \cup Command) \ {l} : pc'[y] = pc[y]
    BY <1>0, <2>1 DEF Goto
  <2>3. \A k \in Lister : pc'[k] \notin {"fetch", "store"}
    BY <2>1, <2>2, OneHolder
  <2>4. \A c \in Command : pc'[c] \in {"idle", "revert"} => touched'[c] \cap Package = {}
    BY <2>1, <2>2, BothOrOne DEF Supply
  <2>5. UNCHANGED Disputed
    BY <2>1, DisputedStays
  <2>6. InventoryIsFresh'
    BY <2>1, <2>5 DEF Supply, InventoryIsFresh, Lists, Cached
  <2> QED
    BY <2>3, <2>4, <2>6 DEF Supply
<1> QED
  BY <1>1, <1>2, <1>4, <1>5, <1>6 DEF ListStep

LEMMA TouchMore ==
  ASSUME touched \in [Command -> SUBSET Action], NEW c \in Command, NEW a \in Action,
         touched' = [touched EXCEPT ![c] = touched[c] \cup {a}], UNCHANGED foreign
  PROVE  /\ Disputed' = Disputed \cup {a}
         /\ touched'[c] = touched[c] \cup {a}
         /\ \A d \in Command \ {c} : touched'[d] = touched[d]
<1>1. /\ touched'[c] = touched[c] \cup {a}
      /\ \A d \in Command \ {c} : touched'[d] = touched[d]
  OBVIOUS
<1>2. \A b : (\E d \in Command : b \in touched'[d])
               <=> (\E d \in Command : b \in touched[d]) \/ b = a
  BY <1>1
<1>3. \A b : b \in Disputed' <=> b \in Disputed \/ b = a
  BY <1>2 DEF Disputed
<1> QED
  BY <1>1, <1>3

LEMMA TouchNone ==
  ASSUME touched \in [Command -> SUBSET Action], NEW c \in Command,
         touched' = [touched EXCEPT ![c] = {}], foreign' \subseteq foreign
  PROVE  /\ Disputed' \subseteq Disputed
         /\ \A b \in Disputed : b \in Disputed' \/ b \in touched[c] \/ b \in foreign \ foreign'
         /\ touched'[c] = {}
         /\ \A d \in Command \ {c} : touched'[d] = touched[d]
<1>1. touched'[c] = {} /\ \A d \in Command \ {c} : touched'[d] = touched[d]
  OBVIOUS
<1>2. \A b : b \in Disputed <=> b \in foreign \/ \E d \in Command : b \in touched[d]
  BY DEF Disputed
<1>3. \A b : b \in Disputed' <=> b \in foreign' \/ \E d \in Command : b \in touched'[d]
  BY DEF Disputed
<1> QED
  BY <1>1, <1>2, <1>3

LEMMA SupplyByCommands ==
  ASSUME Supply, PlacesOK, Line, Types, NEW c \in Command,
         \/ CommandStep(c)
         \/ \E t \in Tweak :
              NextTweak(c, t) \/ \E apply \in BOOLEAN : StartCommand(c, t, apply)
  PROVE  Supply'
<1>0. /\ c \in Lister \cup Command /\ c \notin Lister
      /\ pc \in [Lister \cup Command -> Label] /\ touched \in [Command -> SUBSET Action]
  BY BothOrOne DEF PlacesOK, Types, TaskTypes
<1>1. CASE Perform(c)
  <2> DEFINE a == Head(todo[c])
  <2>1. /\ UNCHANGED <<cache, inventory, failed, foreign, pc>>
        /\ a \in Action /\ pc[c] \in {"apply", "revert"}
    BY <1>1, TodoFacts DEF Perform
  <2>2. ASSUME NEW on \in BOOLEAN, Change(a, on), pc[c] = "apply" \/ a \in Setting,
               touched' = [touched EXCEPT ![c] = touched[c] \cup {a}]
        PROVE  Supply'
    <3> HIDE DEF a
    <3>1. /\ Disputed' = Disputed \cup {a} /\ touched'[c] = touched[c] \cup {a}
          /\ \A d \in Command \ {c} : touched'[d] = touched[d]
      BY <1>0, <2>1, <2>2, TouchMore
    <3>2. \A b \in Action \ {a} : b \in inEffect' <=> b \in inEffect
      BY <2>1, <2>2, Changed DEF Types
    <3>3. \A p \in Package : p \in Action
      BY DEF Action
    <3>4. Setting \cap Package = {}
      BY CatalogAssumption DEF CatalogAssumption
    <3>5. pc[c] \in {"idle", "revert"} => a \notin Package
      BY <2>1, <2>2, <3>4
    <3>6. \A d \in Command : pc'[d] \in {"idle", "revert"} => touched'[d] \cap Package = {}
      BY <2>1, <3>1, <3>5 DEF Supply
    <3> QED
      BY <2>1, <3>1, <3>2, <3>3, <3>6, SupplyStays
  <2>3. CASE UNCHANGED <<inEffect, touched>>
    BY <2>1, <2>3, DisputedStays, SupplyStays DEF Supply
  <2> QED
    BY <1>1, <2>2, <2>3 DEF Perform
<1>2. CASE PerformFails(c)
  <2>1. UNCHANGED <<cache, inventory, failed, foreign, inEffect>>
    BY <1>2 DEF PerformFails
  <2>2. CASE UNCHANGED <<pc, touched>>
    BY <2>1, <2>2, DisputedStays, SupplyStays DEF Supply
  <2>3. CASE pc[c] = "revert" /\ Goto(c, "idle") /\ touched' = [touched EXCEPT ![c] = {}]
    <3>1. pc'[c] = "idle" /\ \A y \in (Lister \cup Command) \ {c} : pc'[y] = pc[y]
      BY <1>0, <2>3 DEF Goto
    <3>2. /\ \A b \in Disputed : b \in Disputed' \/ b \in touched[c]
          /\ touched'[c] = {} /\ \A d \in Command \ {c} : touched'[d] = touched[d]
      BY <1>0, <2>1, <2>3, TouchNone
    <3>3. touched[c] \cap Package = {}
      BY <2>3 DEF Supply
    <3>4. \A p \in Package : p \notin Disputed' => p \notin Disputed
      BY <3>2, <3>3
    <3>5. \A d \in Command : pc'[d] \in {"idle", "revert"} => touched'[d] \cap Package = {}
      BY <3>1, <3>2 DEF Supply
    <3>6. \A l \in Lister : pc'[l] = pc[l]
      BY <1>0, <3>1
    <3> QED
      BY <2>1, <3>4, <3>5, <3>6, SupplyStays
  <2> QED
    BY <1>2, <2>2, <2>3 DEF PerformFails
<1>3. CASE AskToDrop(c)
  BY <1>0, <1>3, SupplyIdles DEF AskToDrop
<1>4. CASE Invalidate(c)
  <2>1. /\ Holds(c) /\ cache' = NoInventory /\ Goto(c, "idle") /\ foreign' = {}
        /\ touched' = [touched EXCEPT ![c] = {}]
    BY <1>4 DEF Invalidate
  <2>2. pc'[c] = "idle" /\ \A y \in (Lister \cup Command) \ {c} : pc'[y] = pc[y]
    BY <1>0, <2>1 DEF Goto
  <2>3. \A l \in Lister : pc'[l] \notin {"fetch", "store"}
    BY <1>0, <2>1, <2>2, OneHolder
  <2>4. touched'[c] = {} /\ \A d \in Command \ {c} : touched'[d] = touched[d]
    BY <1>0, <2>1, TouchNone
  <2>5. \A d \in Command : pc'[d] \in {"idle", "revert"} => touched'[d] \cap Package = {}
    BY <2>2, <2>4 DEF Supply
  <2> QED
    BY <2>1, <2>3, <2>5 DEF Supply, InventoryIsFresh, NoInventory
<1>5. ASSUME NEW t \in Tweak, NEW apply \in BOOLEAN, StartCommand(c, t, apply)
      PROVE  Supply'
  <2> DEFINE label == IF apply THEN "apply" ELSE "revert"
  <2>1. /\ Goto(c, label) /\ pc[c] = "idle" /\ label \in {"apply", "revert"}
        /\ UNCHANGED <<cache, inventory, failed, inEffect, touched, foreign>>
    BY <1>5 DEF StartCommand
  <2> HIDE DEF label
  <2> QED
    BY <1>0, <2>1, SupplyIdles
<1>6. ASSUME NEW t \in Tweak, NextTweak(c, t)
      PROVE  Supply'
  <2>1. UNCHANGED <<cache, inventory, failed, foreign, pc, inEffect, touched>>
    BY <1>6 DEF NextTweak
  <2> QED
    BY <2>1, DisputedStays, SupplyStays DEF Supply
<1> QED
  BY <1>1, <1>2, <1>3, <1>4, <1>5, <1>6 DEF CommandStep

LEMMA SupplyByOthers ==
  ASSUME Supply, Types, NEW a \in Action, Outside(a)
  PROVE  Supply'
<1>1. \A b \in Action \ {a} : b \in inEffect' <=> b \in inEffect
  BY Changed DEF Outside, Types
<1>2. /\ UNCHANGED <<cache, inventory, failed, pc, touched>>
      /\ foreign' = IF a \in Package THEN foreign \cup {a} ELSE foreign
  BY DEF Outside
<1>3. \A p \in Package : p \notin Disputed' => p \notin Disputed /\ p # a
  BY <1>2 DEF Disputed
<1>4. \A p \in Package : p \in Action
  BY DEF Action
<1> QED
  BY <1>1, <1>2, <1>3, <1>4, SupplyStays DEF Supply

-----------------------------------------------------------------------------
(* Counting.                                                               *)
LEMMA CountOne ==
  ASSUME NEW t \in Tweak, NEW m \in Nat, NEW h \in Nat, h <= m,
         m < Len(Catalog[t].actions), Counted(t, m, h), NEW isOn \in BOOLEAN,
         isOn <=> Catalog[t].actions[m + 1] \in inEffect
  PROVE  Counted(t, m + 1, h + (IF isOn THEN 1 ELSE 0))
<1>1. 1 .. m + 1 = (1 .. m) \cup {m + 1}
  OBVIOUS
<1>2. On(t, m + 1) <=> On(t, m) /\ isOn
  BY <1>1 DEF On
<1>3. Off(t, m + 1) <=> Off(t, m) /\ ~isOn
  BY <1>1 DEF Off
<1> QED
  BY <1>2, <1>3 DEF Counted

LEMMA StatusIs ==
  ASSUME NEW t \in Tweak, NEW h \in Nat, Counted(t, Len(Catalog[t].actions), h)
  PROVE  StatusFrom(Len(Catalog[t].actions), h, TRUE) = OnCount(t)
<1> DEFINE n == Len(Catalog[t].actions)
           on == {i \in DOMAIN Catalog[t].actions : Catalog[t].actions[i] \in inEffect}
<1>1. n \in Nat /\ n > 0 /\ DOMAIN Catalog[t].actions = 1 .. n
  BY TweakFacts
<1>2. on = DOMAIN Catalog[t].actions <=> On(t, n)
  BY <1>1 DEF On
<1>3. on = {} <=> Off(t, n)
  BY <1>1 DEF Off
<1>4. OnCount(t) = IF on = DOMAIN Catalog[t].actions THEN "applied"
                   ELSE IF on = {} THEN "not_applied" ELSE "partial"
  BY DEF OnCount
<1> HIDE DEF on, n
<1> QED
  BY <1>1, <1>2, <1>3, <1>4 DEF Counted, StatusFrom, n

LEMMA SameStatus ==
  ASSUME NEW t \in Tweak, \A a \in Actions(t) : a \in inEffect' <=> a \in inEffect
  PROVE  /\ OnCount(t)' = OnCount(t)
         /\ \A n \in 0 .. Len(Catalog[t].actions) :
              (On(t, n)' <=> On(t, n)) /\ (Off(t, n)' <=> Off(t, n))
<1> DEFINE acts == Catalog[t].actions
<1>1. /\ Len(acts) \in Nat /\ DOMAIN acts = 1 .. Len(acts)
      /\ \A i \in 1 .. Len(acts) : acts[i] \in inEffect' <=> acts[i] \in inEffect
  BY TweakFacts
<1>2. {i \in DOMAIN acts : acts[i] \in inEffect'} = {i \in DOMAIN acts : acts[i] \in inEffect}
  BY <1>1
<1>3. OnCount(t)' = OnCount(t)
  BY <1>2 DEF OnCount
<1>4. ASSUME NEW n \in 0 .. Len(acts)
      PROVE  (On(t, n)' <=> On(t, n)) /\ (Off(t, n)' <=> Off(t, n))
  <2>1. \A i \in 1 .. n : i \in 1 .. Len(acts)
    BY <1>1
  <2> HIDE DEF acts
  <2> QED
    BY <1>1, <2>1 DEF On, Off, acts
<1> QED
  BY <1>3, <1>4

LEMMA ActionsAreActions ==
  ASSUME NEW t \in Tweak
  PROVE  Actions(t) \subseteq Action
BY TweakFacts DEF Actions

(* What happens cannot make a list wrong about what is not in doubt.       *)
LEMMA ProgressStays ==
  ASSUME Types, NEW k \in Lister, Progress(k),
         tweak'[k] = tweak[k], checked'[k] = checked[k], hits'[k] = hits[k],
         answer'[k] = answer[k], doubt[k] \subseteq doubt'[k], blind[k] \subseteq blind'[k],
         Disputed' \subseteq doubt'[k],
         \A a \in Action : a \notin doubt'[k] => (a \in inEffect' <=> a \in inEffect),
         pc'[k] \in {"lock", "fetch", "store"} => tweak[k] # 0 /\ Reading(k) \in Package
  PROVE  Progress(k)'
<1>1. ASSUME NEW t \in Tweak, Actions(t) \cap doubt'[k] = {}
      PROVE  /\ OnCount(t)' = OnCount(t) /\ Actions(t) \cap doubt[k] = {}
             /\ \A n \in 0 .. Len(Catalog[t].actions) :
                  (On(t, n)' <=> On(t, n)) /\ (Off(t, n)' <=> Off(t, n))
  <2>1. \A a \in Actions(t) : a \in inEffect' <=> a \in inEffect
    BY <1>1, ActionsAreActions
  <2> QED
    BY <1>1, <2>1, SameStatus
<1>2. ASSUME NEW t \in Passed(k)'
      PROVE  Right(answer[k][t], t, doubt[k], blind[k])'
  <2>1. t \in Passed(k) /\ t \in Tweak
    BY OfferedFacts DEF Passed
  <2>2. Right(answer[k][t], t, doubt[k], blind[k])
    BY <2>1 DEF Progress
  <2> QED
    BY <1>1, <2>1, <2>2 DEF Right
<1>3. ASSUME tweak[k] # 0
      PROVE  /\ checked[k] < Len(Catalog[tweak[k]].actions) /\ hits[k] <= checked[k]
             /\ \/ Counted(tweak[k], checked[k], hits[k])'
                \/ Actions(tweak[k]) \cap doubt'[k] # {}
                \/ tweak[k] \in blind'[k]
  <2>1. tweak[k] \in Tweak /\ checked[k] \in Nat
    BY <1>3, OfferedFacts DEF Types, ListTypes
  <2>2. /\ checked[k] < Len(Catalog[tweak[k]].actions) /\ hits[k] <= checked[k]
        /\ \/ Counted(tweak[k], checked[k], hits[k])
           \/ Actions(tweak[k]) \cap doubt[k] # {}
           \/ tweak[k] \in blind[k]
    BY <1>3 DEF Progress
  <2>3. checked[k] \in 0 .. Len(Catalog[tweak[k]].actions)
    BY <2>1, <2>2, TweakFacts
  <2>4. CASE Actions(tweak[k]) \cap doubt'[k] = {}
    <3>1. /\ On(tweak[k], checked[k])' <=> On(tweak[k], checked[k])
          /\ Off(tweak[k], checked[k])' <=> Off(tweak[k], checked[k])
      BY <1>1, <2>1, <2>3, <2>4 DEF On, Off
    <3> QED
      BY <1>1, <2>1, <2>2, <2>4, <3>1 DEF Counted
  <2> QED
    BY <2>2, <2>4
<1>4. pc'[k] \in {"lock", "fetch", "store"} => Reading(k)' \in Package
  BY DEF Reading
<1> QED
  BY <1>2, <1>3, <1>4 DEF Progress, Actions

(* A list that notes what it has read, or that it could not, is as right   *)
(* about it as it can be.                                                  *)
LEMMA ProgressNotes ==
  ASSUME TypeOK, Types, NEW l \in Lister, Progress(l), tweak[l] # 0,
         NEW isOn \in BOOLEAN, NEW readable \in BOOLEAN, Note(l, isOn, readable),
         pc'[l] = "check", UNCHANGED <<inEffect, doubt, touched, foreign>>,
         blind[l] \subseteq blind'[l],
         readable => \/ isOn <=> Reading(l) \in inEffect
                     \/ Reading(l) \in doubt[l]
                     \/ tweak[l] \in blind'[l]
  PROVE  Progress(l)'
<1> DEFINE t == tweak[l]
           n == Len(Catalog[t].actions)
           m == checked[l]
           h == hits[l]
           wrong == Actions(t) \cap doubt[l] # {} \/ t \in blind'[l]
<1>1. /\ t \in Offered /\ t \in Tweak /\ t \in Nat /\ n \in Nat /\ n > 0 /\ m \in Nat /\ h \in Nat
      /\ DOMAIN Catalog[t].actions = 1 .. n
  BY OfferedFacts, TweakFacts DEF Types, ListTypes
<1>2. m < n /\ h <= m /\ (wrong \/ Counted(t, m, h))
  BY DEF Progress
<1>3. Reading(l) = Catalog[t].actions[m + 1] /\ Reading(l) \in Actions(t)
  BY <1>1, <1>2, TweakFacts DEF Reading
<1>4. ASSUME readable, ~wrong
      PROVE  Counted(t, m + 1, Hits(l, isOn))
  <2>1. Counted(t, m, h) /\ (isOn <=> Catalog[t].actions[m + 1] \in inEffect)
    BY <1>2, <1>3, <1>4
  <2> HIDE DEF t, m, h, n
  <2>2. Counted(t, m + 1, h + (IF isOn THEN 1 ELSE 0))
    BY <1>1, <1>2, <2>1, CountOne DEF n
  <2> QED
    BY <2>2 DEF Hits, h
<1>5. Hits(l, isOn) \in Nat /\ Hits(l, isOn) <= m + 1
  BY <1>1, <1>2 DEF Hits
<1>6. UNCHANGED Disputed
  BY DisputedStays
<1>7. \A u \in Tweak : OnCount(u)' = OnCount(u)
  BY SameStatus
<1>8. \A u \in Passed(l) : Right(answer[l][u], u, doubt[l], blind'[l])
  BY DEF Progress, Right
<1> HIDE DEF t, m, h, n, wrong
<1>9. CASE Lasts(l, readable)
  <2> DEFINE s == StatusFrom(n, Hits(l, isOn), readable)
  <2>1. /\ answer'[l][t] = s
        /\ \A u \in Tweak \ {t} : answer'[l][u] = answer[l][u]
        /\ tweak'[l] = NextOffered(t) /\ checked'[l] = 0 /\ hits'[l] = 0
    BY <1>9, NoteFacts DEF t, n
  <2>2. Right(s, t, doubt[l], blind'[l])
    <3>1. CASE ~readable
      BY <3>1 DEF StatusFrom, Right
    <3>2. CASE wrong
      BY <3>2 DEF Right, wrong
    <3>3. CASE readable /\ ~wrong
      <4>1. m + 1 = n /\ readable = TRUE
        BY <1>9, <3>3 DEF Lasts, m, n, t
      <4>2. Counted(t, n, Hits(l, isOn))
        BY <1>4, <3>3, <4>1
      <4>3. s = OnCount(t)
        BY <1>1, <1>5, <4>1, <4>2, StatusIs DEF n
      <4> QED
        BY <4>3 DEF Right
    <3> QED
      BY <3>1, <3>2, <3>3
  <2> HIDE DEF s
  <2>3. /\ tweak'[l] \in Offered \cup {0}
        /\ tweak'[l] = 0 => \A v \in Offered : v <= t
        /\ tweak'[l] # 0 => tweak'[l] > t /\ \A v \in Offered : v > t => tweak'[l] <= v
    BY <1>1, <2>1, NextIs
  <2>4. ASSUME NEW u \in Passed(l)'
        PROVE  u = t \/ u \in Passed(l)
    <3>1. u \in Offered /\ (tweak'[l] = 0 \/ u < tweak'[l]) /\ u \in Nat
      BY OfferedFacts DEF Passed
    <3>2. tweak'[l] \in Nat
      <4>1. \A v \in Offered \cup {0} : v \in Nat
        BY OfferedFacts
      <4> QED
        BY <2>3, <4>1
    <3>3. u <= t
      BY <1>1, <2>3, <3>1, <3>2
    <3> QED
      BY <1>1, <3>1, <3>3 DEF Passed, t
  <2>5. \A u \in Passed(l)' : u \in Tweak /\ Right(answer'[l][u], u, doubt[l], blind'[l])
    <3> TAKE u \in Passed(l)'
    <3>1. u \in Tweak
      BY <1>1, <2>4, OfferedFacts DEF Passed
    <3>2. CASE u = t
      BY <2>1, <2>2, <3>1, <3>2
    <3>3. CASE u # t
      BY <1>8, <2>1, <2>4, <3>1, <3>3
    <3> QED
      BY <3>2, <3>3
  <2>6. \A u \in Passed(l)' : Right(answer[l][u], u, doubt[l], blind[l])'
    BY <1>7, <2>5 DEF Right
  <2>7. tweak'[l] # 0 => tweak'[l] \in Tweak /\ 0 < Len(Catalog[tweak'[l]].actions)
    BY <2>3, OfferedFacts, TweakFacts
  <2>8. Counted(tweak[l], checked[l], hits[l])'
    BY <2>1 DEF Counted, On, Off
  <2>9. Disputed' \subseteq doubt'[l]
    BY <1>6 DEF Progress
  <2> QED
    BY <2>1, <2>6, <2>7, <2>8, <2>9 DEF Progress
<1>10. CASE ~Lasts(l, readable)
  <2>1. /\ answer'[l] = answer[l] /\ tweak'[l] = t
        /\ checked'[l] = m + 1 /\ hits'[l] = Hits(l, isOn)
    BY <1>10, NoteFacts DEF t, m
  <2>2. readable = TRUE /\ m + 1 < n
    BY <1>1, <1>2, <1>10 DEF Lasts, m, n, t
  <2>3. \A u \in Passed(l)' : u \in Passed(l) /\ u \in Tweak
    BY <2>1, OfferedFacts DEF Passed, t
  <2>4. \A u \in Passed(l)' : Right(answer[l][u], u, doubt[l], blind[l])'
    BY <1>7, <1>8, <2>1, <2>3 DEF Right
  <2>5. wrong \/ Counted(tweak[l], checked[l], hits[l])'
    <3>1. wrong \/ Counted(t, m + 1, Hits(l, isOn))
      BY <1>4, <2>2
    <3>2. UNCHANGED inEffect
      OBVIOUS
    <3> QED
      BY <2>1, <3>1, <3>2 DEF Counted, On, Off
  <2>6. Disputed' \subseteq doubt'[l]
    BY <1>6 DEF Progress
  <2>7. wrong => Actions(tweak'[l]) \cap doubt'[l] # {} \/ tweak'[l] \in blind'[l]
    BY <2>1 DEF wrong, t
  <2> QED
    BY <1>5, <2>1, <2>2, <2>4, <2>5, <2>6, <2>7 DEF Progress, n, Actions
<1> QED
  BY <1>9, <1>10

-----------------------------------------------------------------------------
(* Steps of a list.                                                        *)
LEMMA ListFrame ==
  ASSUME TypeOK, Types, PlacesOK, HasTweak, NEW l \in Lister, StartList(l) \/ ListStep(l)
  PROVE  /\ UNCHANGED <<inEffect, touched, foreign>>
         /\ \A k \in Lister \ {l} :
              /\ tweak'[k] = tweak[k] /\ checked'[k] = checked[k] /\ hits'[k] = hits[k]
              /\ answer'[k] = answer[k] /\ doubt'[k] = doubt[k] /\ blind'[k] = blind[k]
              /\ pc'[k] = pc[k]
<1>0. /\ pc \in [Lister \cup Command -> Label] /\ l \in Lister \cup Command
      /\ \A k \in Lister \ {l} : k \in (Lister \cup Command) \ {l}
  BY DEF PlacesOK
<1>1. UNCHANGED <<inEffect, touched, foreign>>
  BY DEF ListStep, StartList, ReadSetting, AskInventory, FromCache, StartPowerShell,
     NoPowerShell, PowerShellEnds, StoreInventory, EndList
<1>2. \A k \in Lister \ {l} : pc'[k] = pc[k]
  BY <1>0 DEF ListStep, StartList, ReadSetting, AskInventory, FromCache, StartPowerShell,
     NoPowerShell, PowerShellEnds, StoreInventory, EndList, LookUp, Goto
<1>3. \A k \in Lister \ {l} : doubt'[k] = doubt[k] /\ blind'[k] = blind[k]
  BY DEF ListStep, StartList, ReadSetting, AskInventory, FromCache, StartPowerShell,
     NoPowerShell, PowerShellEnds, StoreInventory, EndList, LookUp, Types, BlameTypes
<1> DEFINE Same(k) == /\ tweak'[k] = tweak[k] /\ checked'[k] = checked[k]
                      /\ hits'[k] = hits[k] /\ answer'[k] = answer[k]
<1>4. ASSUME tweak[l] # 0, NEW isOn \in BOOLEAN, NEW readable \in BOOLEAN,
             Note(l, isOn, readable)
      PROVE  \A k \in Lister \ {l} : Same(k)
  BY <1>4, NoteFacts
<1>5. CASE StartList(l)
  BY <1>5, <1>1, <1>2, <1>3 DEF StartList, Types, ListTypes
<1>6. CASE ReadSetting(l)
  <2>1. PICK readable \in BOOLEAN : Note(l, Reading(l) \in inEffect, readable)
    BY <1>6 DEF ReadSetting
  <2>2. tweak[l] # 0 /\ (Reading(l) \in inEffect) \in BOOLEAN
    BY <1>6 DEF ReadSetting
  <2>3. \A k \in Lister \ {l} : Same(k)
    BY <1>4, <2>1, <2>2
  <2> QED
    BY <1>1, <1>2, <1>3, <2>3
<1>7. CASE FromCache(l)
  <2>1. tweak[l] # 0 /\ Note(l, Reading(l) \notin cache.packages, TRUE)
    BY <1>7 DEF FromCache, LookUp, HasTweak
  <2>2. \A k \in Lister \ {l} : Same(k)
    BY <1>4, <2>1
  <2> QED
    BY <1>1, <1>2, <1>3, <2>2
<1>8. CASE NoPowerShell(l)
  <2>1. tweak[l] # 0 /\ Note(l, FALSE, FALSE)
    BY <1>8 DEF NoPowerShell, HasTweak
  <2>2. \A k \in Lister \ {l} : Same(k)
    BY <1>4, <2>1
  <2> QED
    BY <1>1, <1>2, <1>3, <2>2
<1>9. CASE StoreInventory(l)
  <2>1. tweak[l] # 0 /\ Note(l, Reading(l) \notin inventory, TRUE)
    BY <1>9 DEF StoreInventory, LookUp, HasTweak
  <2>2. \A k \in Lister \ {l} : Same(k)
    BY <1>4, <2>1
  <2> QED
    BY <1>1, <1>2, <1>3, <2>2
<1>10. CASE AskInventory(l) \/ StartPowerShell(l) \/ PowerShellEnds(l)
  BY <1>10, <1>1, <1>2, <1>3 DEF AskInventory, StartPowerShell, PowerShellEnds, listVars
<1>11. CASE EndList(l)
  <2>1. \A k \in Lister \ {l} : Same(k)
    BY <1>11 DEF EndList, Types, ListTypes
  <2> QED
    BY <1>1, <1>2, <1>3, <2>1
<1> QED
  BY <1>5, <1>6, <1>7, <1>8, <1>9, <1>10, <1>11 DEF ListStep

LEMMA LookedUp ==
  ASSUME TypeOK, Types, PlacesOK, NEW l \in Lister, Progress(l), pc[l] \in {"lock", "store"},
         NEW packages, NEW isFailed \in BOOLEAN, LookUp(l, packages, isFailed),
         isFailed \/ Lists(packages), UNCHANGED <<inEffect, doubt, touched, foreign>>
  PROVE  Progress(l)'
<1>1. /\ tweak[l] # 0 /\ Reading(l) \in Package /\ Disputed \subseteq doubt[l]
      /\ Note(l, Reading(l) \notin packages, TRUE)
  BY DEF Progress, LookUp
<1>2. pc'[l] = "check"
  BY DEF LookUp, Goto, PlacesOK
<1>3. blind[l] \subseteq blind'[l] /\ (isFailed => tweak[l] \in blind'[l])
  BY DEF LookUp, Types, BlameTypes
<1>4. \/ (Reading(l) \notin packages) <=> Reading(l) \in inEffect
      \/ Reading(l) \in doubt[l]
      \/ tweak[l] \in blind'[l]
  BY <1>1, <1>3 DEF Lists
<1>5. (Reading(l) \notin packages) \in BOOLEAN
  OBVIOUS
<1> QED
  BY <1>1, <1>2, <1>3, <1>4, <1>5, ProgressNotes

Working(k) == pc[k] # "idle" => Progress(k)

LEMMA WorkingHasTweak ==
  ASSUME \A k \in Lister : Working(k)
  PROVE  HasTweak
BY DEF Working, Progress, HasTweak

LEMMA ListProgress ==
  ASSUME TypeOK, Types, PlacesOK, Supply, \A k \in Lister : Working(k),
         NEW l \in Lister, StartList(l) \/ ListStep(l)
  PROVE  \A k \in Lister : Working(k)'
<1>0. /\ UNCHANGED <<inEffect, touched, foreign>> /\ UNCHANGED Disputed
      /\ \A k \in Lister \ {l} :
           /\ tweak'[k] = tweak[k] /\ checked'[k] = checked[k] /\ hits'[k] = hits[k]
           /\ answer'[k] = answer[k] /\ doubt'[k] = doubt[k] /\ blind'[k] = blind[k]
           /\ pc'[k] = pc[k]
  BY ListFrame, WorkingHasTweak, DisputedStays
<1>1. ASSUME NEW k \in Lister \ {l}, pc'[k] # "idle"
      PROVE  Progress(k)'
  <2>1. Progress(k)
    BY <1>0, <1>1 DEF Working
  <2>2. Disputed' \subseteq doubt'[k]
    BY <1>0, <2>1 DEF Progress
  <2>3. pc'[k] \in {"lock", "fetch", "store"} => tweak[k] # 0 /\ Reading(k) \in Package
    BY <1>0, <2>1 DEF Progress
  <2> QED
    BY <1>0, <2>1, <2>2, <2>3, ProgressStays
<1>2. pc \in [Lister \cup Command -> Label] /\ l \in Lister \cup Command
  BY DEF PlacesOK
<1>3. CASE StartList(l)
  <2>1. /\ tweak'[l] = NextOffered(0) /\ checked'[l] = 0 /\ hits'[l] = 0
        /\ doubt'[l] = Disputed /\ pc'[l] = "check"
    BY <1>2, <1>3 DEF StartList, Goto, Types, ListTypes, BlameTypes
  <2>2. /\ tweak'[l] \in Offered \cup {0}
        /\ tweak'[l] = 0 => \A v \in Offered : v <= 0
        /\ tweak'[l] # 0 => \A v \in Offered : v > 0 => tweak'[l] <= v
    BY <2>1, NextIs
  <2>3. \A v \in Offered : v \in Nat /\ v > 0
    BY OfferedFacts
  <2>4. Passed(l)' = {}
    BY <2>2, <2>3 DEF Passed
  <2>5. tweak'[l] # 0 => 0 < Len(Catalog[tweak'[l]].actions)
    BY <2>2, OfferedFacts, TweakFacts
  <2>6. Counted(tweak[l], checked[l], hits[l])'
    BY <2>1 DEF Counted, On, Off
  <2>7. Progress(l)'
    BY <1>0, <2>1, <2>4, <2>5, <2>6 DEF Progress
  <2> QED
    BY <1>1, <2>7 DEF Working
<1>4. ASSUME pc[l] # "idle", UNCHANGED <<listVars, doubt, blind>>,
             pc'[l] \in {"lock", "fetch", "store"} => tweak[l] # 0 /\ Reading(l) \in Package
      PROVE  Progress(l)'
  <2>1. Progress(l)
    BY <1>4 DEF Working
  <2>2. Disputed' \subseteq doubt'[l]
    BY <1>0, <1>4, <2>1 DEF Progress
  <2>3. /\ tweak'[l] = tweak[l] /\ checked'[l] = checked[l] /\ hits'[l] = hits[l]
        /\ answer'[l] = answer[l] /\ doubt'[l] = doubt[l] /\ blind'[l] = blind[l]
    BY <1>4 DEF listVars
  <2> QED
    BY <1>0, <1>4, <2>1, <2>2, <2>3, ProgressStays
<1>5. CASE AskInventory(l)
  BY <1>1, <1>4, <1>5 DEF AskInventory, Working
<1>6. CASE StartPowerShell(l) \/ PowerShellEnds(l)
  <2>1. pc[l] \in {"lock", "fetch"} /\ UNCHANGED <<listVars, doubt, blind>>
    BY <1>6 DEF StartPowerShell, PowerShellEnds
  <2>2. tweak[l] # 0 /\ Reading(l) \in Package
    BY <2>1 DEF Working, Progress
  <2> QED
    BY <1>1, <1>4, <2>1, <2>2 DEF Working
<1>7. CASE ReadSetting(l)
  <2>1. PICK readable \in BOOLEAN : Note(l, Reading(l) \in inEffect, readable)
    BY <1>7 DEF ReadSetting
  <2>2. /\ tweak[l] # 0 /\ (Reading(l) \in inEffect) \in BOOLEAN /\ pc[l] = "check"
        /\ UNCHANGED <<pc, doubt, blind>>
    BY <1>7 DEF ReadSetting
  <2>3. Progress(l)
    BY <2>2 DEF Working
  <2>4. Progress(l)'
    BY <1>0, <2>1, <2>2, <2>3, ProgressNotes
  <2> QED
    BY <1>1, <2>4 DEF Working
<1>8. CASE FromCache(l)
  <2>1. /\ pc[l] = "lock" /\ cache.filled /\ LookUp(l, cache.packages, failed)
        /\ UNCHANGED doubt /\ failed \in BOOLEAN
    BY <1>8 DEF FromCache, Types, MachineTypes
  <2>2. failed \/ Lists(cache.packages)
    BY <2>1 DEF Supply, InventoryIsFresh, Lists
  <2>3. Progress(l)'
    BY <1>0, <2>1, <2>2, LookedUp DEF Working
  <2> QED
    BY <1>1, <2>3 DEF Working
<1>9. CASE NoPowerShell(l)
  <2>1. /\ pc[l] = "lock" /\ Note(l, FALSE, FALSE) /\ Goto(l, "check")
        /\ UNCHANGED <<doubt, blind>>
    BY <1>9 DEF NoPowerShell
  <2>2. pc'[l] = "check" /\ Progress(l) /\ tweak[l] # 0
    BY <1>2, <2>1 DEF Goto, Working, Progress
  <2>3. Progress(l)'
    BY <1>0, <2>1, <2>2, ProgressNotes
  <2> QED
    BY <1>1, <2>3 DEF Working
<1>10. CASE StoreInventory(l)
  <2>1. /\ pc[l] = "store" /\ LookUp(l, inventory, failed)
        /\ UNCHANGED doubt /\ failed \in BOOLEAN
    BY <1>10 DEF StoreInventory, Types, MachineTypes
  <2>2. failed \/ Lists(inventory)
    BY <2>1 DEF Supply
  <2>3. Progress(l)'
    BY <1>0, <2>1, <2>2, LookedUp DEF Working
  <2> QED
    BY <1>1, <2>3 DEF Working
<1>11. CASE EndList(l)
  <2>1. pc'[l] = "idle"
    BY <1>2, <1>11 DEF EndList, Goto
  <2> QED
    BY <1>1, <2>1 DEF Working
<1> QED
  BY <1>3, <1>5, <1>6, <1>7, <1>8, <1>9, <1>10, <1>11 DEF ListStep

-----------------------------------------------------------------------------
(* Steps of the others.                                                    *)

(* Whatever happens to an action puts it in doubt.                         *)
LEMMA Doubted ==
  ASSUME Types, UNCHANGED <<listVars, blind, pc>>, \A k \in Lister : Working(k),
         NEW a \in Action, NEW on \in BOOLEAN, Change(a, on),
         Disputed' \subseteq Disputed \cup {a}
  PROVE  \A k \in Lister : Working(k)'
<1> SUFFICES ASSUME NEW k \in Lister, pc[k] # "idle"
             PROVE  Progress(k)'
  BY DEF Working
<1>1. Progress(k) /\ doubt'[k] = doubt[k] \cup {a}
  BY Changed DEF Working, Types
<1>2. \A b \in Action : b \notin doubt'[k] => (b \in inEffect' <=> b \in inEffect)
  BY <1>1, Changed DEF Types
<1>3. Disputed' \subseteq doubt'[k]
  BY <1>1 DEF Progress
<1>4. /\ tweak'[k] = tweak[k] /\ checked'[k] = checked[k] /\ hits'[k] = hits[k]
      /\ answer'[k] = answer[k] /\ doubt[k] \subseteq doubt'[k]
      /\ blind[k] \subseteq blind'[k] /\ pc'[k] = pc[k]
  BY <1>1 DEF listVars
<1>5. pc'[k] \in {"lock", "fetch", "store"} => tweak[k] # 0 /\ Reading(k) \in Package
  BY <1>1, <1>4 DEF Progress
<1> QED
  BY <1>1, <1>2, <1>3, <1>4, <1>5, ProgressStays

LEMMA Undisturbed ==
  ASSUME Types, UNCHANGED <<listVars, blind, doubt, inEffect>>,
         \A k \in Lister : Working(k), \A k \in Lister : pc'[k] = pc[k],
         Disputed' \subseteq Disputed
  PROVE  \A k \in Lister : Working(k)'
<1> SUFFICES ASSUME NEW k \in Lister, pc[k] # "idle"
             PROVE  Progress(k)'
  BY DEF Working
<1>1. Progress(k) /\ Disputed' \subseteq doubt'[k]
  BY DEF Working, Progress
<1>2. /\ tweak'[k] = tweak[k] /\ checked'[k] = checked[k] /\ hits'[k] = hits[k]
      /\ answer'[k] = answer[k] /\ doubt'[k] = doubt[k] /\ blind'[k] = blind[k]
      /\ pc'[k] = pc[k]
  BY DEF listVars
<1>3. pc'[k] \in {"lock", "fetch", "store"} => tweak[k] # 0 /\ Reading(k) \in Package
  BY <1>1, <1>2 DEF Progress
<1> QED
  BY <1>1, <1>2, <1>3, ProgressStays

LEMMA CommandProgress ==
  ASSUME Types, PlacesOK, \A k \in Lister : Working(k), NEW c \in Command,
         \/ CommandStep(c)
         \/ \E t \in Tweak :
              NextTweak(c, t) \/ \E apply \in BOOLEAN : StartCommand(c, t, apply)
  PROVE  \A k \in Lister : Working(k)'
<1>0. /\ c \in Lister \cup Command /\ c \notin Lister
      /\ pc \in [Lister \cup Command -> Label] /\ touched \in [Command -> SUBSET Action]
  BY BothOrOne DEF PlacesOK, Types, TaskTypes
<1>1. CASE Perform(c)
  <2> DEFINE a == Head(todo[c])
  <2>1. /\ UNCHANGED <<listVars, blind, pc, foreign>>
        /\ a \in Action
    BY <1>1, TodoFacts DEF Perform
  <2>2. ASSUME NEW on \in BOOLEAN, Change(a, on),
               touched' = [touched EXCEPT ![c] = touched[c] \cup {a}]
        PROVE  \A k \in Lister : Working(k)'
    <3> HIDE DEF a
    <3>1. Disputed' = Disputed \cup {a}
      BY <1>0, <2>1, <2>2, TouchMore
    <3> QED
      BY <2>1, <2>2, <3>1, Doubted
  <2>3. CASE UNCHANGED <<inEffect, doubt, touched>>
    BY <2>1, <2>3, DisputedStays, Undisturbed
  <2> QED
    BY <1>1, <2>2, <2>3 DEF Perform
<1>2. CASE PerformFails(c) \/ AskToDrop(c) \/ Invalidate(c)
  <2>1. UNCHANGED <<listVars, blind, doubt, inEffect>>
    BY <1>2 DEF PerformFails, AskToDrop, Invalidate
  <2>2. \A k \in Lister : pc'[k] = pc[k]
    BY <1>0, <1>2 DEF PerformFails, AskToDrop, Invalidate, Goto
  <2>3. /\ foreign' \subseteq foreign
        /\ touched' = touched \/ touched' = [touched EXCEPT ![c] = {}]
    BY <1>2 DEF PerformFails, AskToDrop, Invalidate
  <2>4. Disputed' \subseteq Disputed
    <3>1. CASE touched' = touched
      BY <2>3, <3>1 DEF Disputed
    <3>2. CASE touched' = [touched EXCEPT ![c] = {}]
      BY <1>0, <2>3, <3>2, TouchNone
    <3> QED
      BY <2>3, <3>1, <3>2
  <2> QED
    BY <2>1, <2>2, <2>4, Undisturbed
<1>3. ASSUME NEW t \in Tweak, NextTweak(c, t) \/ \E apply \in BOOLEAN : StartCommand(c, t, apply)
      PROVE  \A k \in Lister : Working(k)'
  <2>1. UNCHANGED <<listVars, blind, doubt, inEffect, touched, foreign>>
    BY <1>3 DEF StartCommand, NextTweak
  <2>2. \A k \in Lister : pc'[k] = pc[k]
    BY <1>0, <1>3 DEF StartCommand, NextTweak, Goto
  <2> QED
    BY <2>1, <2>2, DisputedStays, Undisturbed
<1> QED
  BY <1>1, <1>2, <1>3 DEF CommandStep

LEMMA OutsideProgress ==
  ASSUME Types, \A k \in Lister : Working(k), NEW a \in Action, Outside(a)
  PROVE  \A k \in Lister : Working(k)'
<1>1. UNCHANGED <<listVars, blind, pc>> /\ Change(a, a \notin inEffect)
  BY DEF Outside
<1>2. Disputed' \subseteq Disputed \cup {a}
  BY DEF Outside, Disputed
<1>3. (a \notin inEffect) \in BOOLEAN
  OBVIOUS
<1> QED
  BY <1>1, <1>2, <1>3, Doubted

-----------------------------------------------------------------------------
(* The screen.                                                             *)
LEMMA ScreenStays ==
  ASSUME ScreenIsCurrent, UNCHANGED <<shown, unseen>>, doubtful \subseteq doubtful',
         \A a \in Action : a \notin doubtful' => (a \in inEffect' <=> a \in inEffect)
  PROVE  ScreenIsCurrent'
<1> SUFFICES ASSUME NEW t \in Offered, Actions(t) \cap doubtful' = {}
             PROVE  shown[t] \in {OnCount(t)', "unknown"} \/ t \in unseen
  BY DEF ScreenIsCurrent, Actions
<1>1. t \in Tweak /\ \A a \in Actions(t) : a \in inEffect' <=> a \in inEffect
  BY OfferedFacts, ActionsAreActions
<1>2. OnCount(t)' = OnCount(t)
  BY <1>1, SameStatus
<1> QED
  BY <1>2 DEF ScreenIsCurrent

LEMMA ScreenStep ==
  ASSUME TypeOK, Types, \A k \in Lister : Working(k), ScreenIsCurrent, Next
  PROVE  ScreenIsCurrent'
<1>1. ASSUME NEW l \in Lister, EndList(l)
      PROVE  ScreenIsCurrent'
  <2>1. pc[l] = "check" /\ tweak[l] = 0 /\ UNCHANGED inEffect
    BY <1>1 DEF EndList
  <2>2. \A t \in Offered : OnCount(t)' = OnCount(t)
    BY <2>1, SameStatus, OfferedFacts
  <2>3. CASE shown' = answer[l] /\ doubtful' = doubt[l] /\ unseen' = blind[l]
    <3>1. \A t \in Offered : Right(answer[l][t], t, doubt[l], blind[l])
      BY <2>1 DEF Working, Progress, Passed
    <3> QED
      BY <2>2, <2>3, <3>1 DEF ScreenIsCurrent, Right, Actions
  <2>4. CASE UNCHANGED <<shown, doubtful, unseen>>
    BY <2>1, <2>4, ScreenStays
  <2> QED
    BY <1>1, <2>3, <2>4 DEF EndList
<1>2. ASSUME NEW a \in Action, NEW on \in BOOLEAN, Change(a, on), UNCHANGED <<shown, unseen>>
      PROVE  ScreenIsCurrent'
  BY <1>2, Changed, ScreenStays DEF Types
<1>3. ASSUME NEW l \in Lister, StartList(l) \/ ListStep(l), ~EndList(l)
      PROVE  ScreenIsCurrent'
  <2>1. UNCHANGED <<shown, unseen, doubtful, inEffect>>
    BY <1>3 DEF ListStep, StartList, ReadSetting, AskInventory, FromCache, StartPowerShell,
       NoPowerShell, PowerShellEnds, StoreInventory, screenVars
  <2> QED
    BY <2>1, ScreenStays
<1>4. ASSUME NEW c \in Command, CommandStep(c)
      PROVE  ScreenIsCurrent'
  <2>1. CASE Perform(c)
    <3>1. UNCHANGED <<shown, unseen>> /\ Head(todo[c]) \in Action
      BY <2>1, TodoFacts DEF Perform
    <3>2. ASSUME NEW on \in BOOLEAN, Change(Head(todo[c]), on)
          PROVE  ScreenIsCurrent'
      BY <1>2, <3>1, <3>2
    <3>3. CASE UNCHANGED <<inEffect, doubtful>>
      BY <3>1, <3>3, ScreenStays
    <3> QED
      BY <2>1, <3>2, <3>3 DEF Perform
  <2>2. CASE PerformFails(c) \/ AskToDrop(c) \/ Invalidate(c)
    <3>1. UNCHANGED <<shown, unseen, doubtful, inEffect>>
      BY <2>2 DEF PerformFails, AskToDrop, Invalidate, screenVars
    <3> QED
      BY <3>1, ScreenStays
  <2> QED
    BY <1>4, <2>1, <2>2 DEF CommandStep
<1>5. ASSUME NEW c \in Command, NEW t \in Tweak,
             NextTweak(c, t) \/ \E apply \in BOOLEAN : StartCommand(c, t, apply)
      PROVE  ScreenIsCurrent'
  <2>1. UNCHANGED <<shown, unseen, doubtful, inEffect>>
    BY <1>5 DEF StartCommand, NextTweak, screenVars
  <2> QED
    BY <2>1, ScreenStays
<1>6. ASSUME NEW a \in Action, Outside(a)
      PROVE  ScreenIsCurrent'
  <2>1. /\ Change(a, a \notin inEffect) /\ (a \notin inEffect) \in BOOLEAN
        /\ UNCHANGED <<shown, unseen>>
    BY <1>6 DEF Outside
  <2> QED
    BY <1>2, <2>1
<1> QED
  BY <1>1, <1>3, <1>4, <1>5, <1>6 DEF Next

-----------------------------------------------------------------------------
(* The invariant.                                                          *)
LEMMA PartsOfInv ==
  Inv <=> /\ TypeOK /\ Histories /\ Types /\ PlacesOK /\ Line /\ Supply
          /\ \A k \in Lister : Working(k)
          /\ ScreenIsCurrent
BY TypesAre DEF Inv, Types, PlacesOK, Line, Working

LEMMA InitInv == Init => Inv
<1> SUFFICES ASSUME Init PROVE Inv
  OBVIOUS
<1>1. MachineTypes
  <2>1. inEffect \subseteq Action /\ inventory = {} /\ foreign = {} /\ failed = FALSE
        /\ outside = 0
    BY DEF Init
  <2>2. cache \in [filled : BOOLEAN, packages : SUBSET Package]
    BY DEF Init, NoInventory
  <2>3. 0 \in 0 .. MaxOutside
    BY NumbersAssumption DEF NumbersAssumption
  <2> QED
    BY <2>1, <2>2, <2>3 DEF MachineTypes
<1>2. NoAnswer \in [Tweak -> Status]
  BY DEF NoAnswer, Status
<1>3. ListTypes
  BY <1>2 DEF Init, ListTypes
<1>4. ScreenTypes /\ TaskTypes /\ BlameTypes
  BY <1>2 DEF Init, ScreenTypes, TaskTypes, BlameTypes
<1>5. queue \in Seq(Lister \cup Command) /\ pc \in [Lister \cup Command -> Label]
  BY DEF Init, Label
<1>6. TypeOK /\ Histories
  BY <1>1, <1>3, <1>4, <1>5, TypesAre
<1>7. Places /\ OneAtATime
  BY DEF Init, Places, OneAtATime, Waits
<1>8. Supply
  BY DEF Init, Supply, InventoryIsFresh, NoInventory
<1>9. ScreenIsCurrent
  BY OfferedFacts DEF Init, ScreenIsCurrent, NoAnswer
<1> QED
  BY <1>6, <1>7, <1>8, <1>9 DEF Inv, Init

LEMMA StandingStill == Inv /\ UNCHANGED vars => Inv'
<1> SUFFICES ASSUME Inv, UNCHANGED vars PROVE Inv'
  OBVIOUS
<1>1. TypeOK' /\ Histories'
  BY DEF Inv, vars, listVars, screenVars, TypeOK, Histories
<1>2. PlacesOK' /\ Line'
  BY PartsOfInv, Stand DEF vars
<1>3. Supply'
  <2>1. UNCHANGED <<cache, inventory, failed, inEffect, touched, foreign, pc>>
    BY DEF vars
  <2> QED
    BY <2>1, DisputedStays, SupplyStays DEF Inv, Supply
<1>4. \A k \in Lister : Working(k)'
  <2>1. UNCHANGED <<listVars, blind, doubt, inEffect, touched, foreign, pc>>
    BY DEF vars
  <2> QED
    BY <2>1, PartsOfInv, DisputedStays, Undisturbed
<1>5. ScreenIsCurrent'
  BY PartsOfInv, ScreenStays DEF vars, screenVars
<1> QED
  BY <1>1, <1>2, <1>3, <1>4, <1>5 DEF Inv, PlacesOK, Line, Working

LEMMA InvStep == Inv /\ [Next]_vars => Inv'
<1> SUFFICES ASSUME Inv, Next PROVE Inv'
  BY StandingStill
<1>0. /\ TypeOK /\ Histories /\ Types /\ PlacesOK /\ Line /\ Supply
      /\ \A k \in Lister : Working(k)
      /\ ScreenIsCurrent
  BY PartsOfInv
<1>1. PlacesOK' /\ Line'
  BY <1>0, LineStep
<1>2. TypeOK' /\ Histories'
  BY <1>0, TypesStep, WorkingHasTweak
<1>3. Supply'
  BY <1>0, <1>1, SupplyByLists, SupplyByCommands, SupplyByOthers DEF Next
<1>4. \A k \in Lister : Working(k)'
  BY <1>0, ListProgress, CommandProgress, OutsideProgress DEF Next
<1>5. ScreenIsCurrent'
  BY <1>0, ScreenStep
<1> QED
  BY <1>1, <1>2, <1>3, <1>4, <1>5 DEF Inv, PlacesOK, Line, Working

(* The invariant holds.                                                    *)
LEMMA InvHolds == Spec => []Inv
<1>1. Init => Inv
  BY InitInv
<1>2. Inv /\ [Next]_vars => Inv'
  BY InvStep
<1> QED
  BY <1>1, <1>2, PTL DEF Spec

(* Every variable keeps its type.                                          *)
THEOREM ScreenTypesHold == Spec => []TypeOK
<1>1. Inv => TypeOK
  BY DEF Inv
<1> QED
  BY <1>1, InvHolds, PTL

(* The mutex of the inventory has one holder, and PowerShell runs only     *)
(* under it: two lists never make an inventory at the same time.           *)
THEOREM OneInventoryAtATime == Spec => []OneAtATime
<1>1. Inv => OneAtATime
  BY DEF Inv
<1> QED
  BY <1>1, InvHolds, PTL

(* What is cached differs from the machine only where somebody else, or a  *)
(* command that is still running, has changed it: `invalidate` under the   *)
(* mutex is enough, however lists and commands overlap.                    *)
THEOREM CacheIsFresh == Spec => []InventoryIsFresh
<1>1. Inv => InventoryIsFresh
  BY DEF Inv, Supply
<1> QED
  BY <1>1, InvHolds, PTL

(* What list_tweaks has put on the screen is what the machine has, for     *)
(* every catalog and every overlap of lists and commands, but for what was *)
(* changed meanwhile and for the inventories that failed.                  *)
THEOREM ScreenTellsTheTruth == Spec => []ScreenIsCurrent
<1>1. Inv => ScreenIsCurrent
  BY DEF Inv
<1> QED
  BY <1>1, InvHolds, PTL
=============================================================================
