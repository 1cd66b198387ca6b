--------------------------- MODULE PrivilegedCall ---------------------------
(***************************************************************************)
(* What a caller of PrivilegedOps (crates/sio-core/src/privileged.rs) may  *)
(* rely on, whoever carries the operation out: it takes effect at most     *)
(* once; Ok means that it did, and an error from it means that it was      *)
(* refused, before the call returned.  An answer may be lost, and then     *)
(* the operation may have taken effect, may take effect later, or never.   *)
(***************************************************************************)
CONSTANT Request   \* the calls, each with the id it is sent under

VARIABLES
  call,     \* where each call is
  effect,   \* what came of the operation
  outcome   \* what the caller was told

callVars == <<call, effect, outcome>>

Effect  == {"none", "done", "refused"}
Outcome == {"none", "ok", "failed", "lost"}

Init ==
  /\ call    = [r \in Request |-> "idle"]
  /\ effect  = [r \in Request |-> "none"]
  /\ outcome = [r \in Request |-> "none"]

Ask(r) ==
  /\ call[r] = "idle"
  /\ call' = [call EXCEPT ![r] = "asked"]
  /\ UNCHANGED <<effect, outcome>>

(* Possible after the caller has been told that the answer is lost.        *)
TakeEffect(r) ==
  /\ call[r] # "idle"
  /\ effect[r] = "none"
  /\ \E e \in {"done", "refused"} : effect' = [effect EXCEPT ![r] = e]
  /\ UNCHANGED <<call, outcome>>

Return(r) ==
  /\ call[r] = "asked"
  /\ \E o \in {"ok", "failed", "lost"} :
       /\ o = "ok" => effect[r] = "done"
       /\ o = "failed" => effect[r] = "refused"
       /\ outcome' = [outcome EXCEPT ![r] = o]
  /\ call' = [call EXCEPT ![r] = "returned"]
  /\ UNCHANGED effect

(* The program that made the calls ends.                                   *)
Abandon ==
  /\ call' = [r \in Request |-> IF call[r] = "asked" THEN "abandoned" ELSE call[r]]
  /\ UNCHANGED <<effect, outcome>>

Next == Abandon \/ \E r \in Request : Ask(r) \/ TakeEffect(r) \/ Return(r)

Spec == Init /\ [][Next]_callVars
============================================================================
