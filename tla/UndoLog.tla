------------------------------ MODULE UndoLog ------------------------------
(***************************************************************************)
(* What the undo log promises of each location, whoever changes it and in  *)
(* how many steps: it records what was found "before it changed anything", *)
(* and reverting gives that back ("the default value" and "what was        *)
(* actually there" are different things, journal.rs:3-6).                  *)
(*                                                                         *)
(* A location has a pile of what it held, one for each application that is *)
(* still to be undone.  TweakEngine implements this.                       *)
(***************************************************************************)
EXTENDS Naturals

CONSTANTS
  Location,  \* what can be changed and put back
  Time       \* when changes are made: numbers

VARIABLES
  holds,  \* what each location holds
  undo,   \* its pile: <<at, s>>, it held s before the application made at
  lost    \* the locations nothing is promised of any more

vars == <<holds, undo, lost>>

Init ==
  /\ \A l \in Location : undo[l] = {}
  /\ lost = {}

Same(l) == holds'[l] = holds[l] /\ undo'[l] = undo[l]

(* Nothing was recorded of l later.                                        *)
Latest(l, at) == \A r \in undo[l] : r[1] <= at

(* The latest application changes l, or puts it back, to whatever it may   *)
(* be: what l held before it is on the pile.                               *)
Change(l) ==
  \E at \in Time :
    /\ Latest(l, at)
    /\ \/ /\ \E r \in undo[l] : r[1] = at
          /\ undo'[l] = undo[l]
       \/ /\ \A r \in undo[l] : r[1] # at
          /\ undo'[l] = undo[l] \cup {<<at, holds[l]>>}

(* The latest application is undone: l holds what it held before it.       *)
PutBack(l) ==
  \E at \in Time :
    /\ Latest(l, at)
    /\ <<at, holds[l]>> \in undo[l]
    /\ holds'[l] = holds[l]
    /\ undo'[l] = undo[l] \ {<<at, holds[l]>>}

Next ==
  /\ lost \subseteq lost'
  /\ \A l \in Location \ lost' : Same(l) \/ Change(l) \/ PutBack(l)

Spec == Init /\ [][Next]_vars
============================================================================
