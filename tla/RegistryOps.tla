---------------------------- MODULE RegistryOps ----------------------------
(***************************************************************************)
(* `registry_set` and `registry_restore` of crates/sio-winsys/src/ops.rs,  *)
(* one Windows call of registry.rs at a time.                              *)
(*                                                                         *)
(* An operation runs on a thread of the blocking pool, so the calls of two *)
(* operations interleave.  A caller makes one change and, once that has    *)
(* succeeded, may have it restored from the state it reported: a tweak and *)
(* its undo, or `broker_self_test` of commands.rs, which does both.        *)
(***************************************************************************)
EXTENDS RegistryValue

CONSTANTS
  Caller,      \* the operations that may run at the same time
  Key,         \* registry keys
  Name,        \* value names
  Raw,         \* the contents a value may have
  Value,       \* the RegistryValues callers write
  Missing,     \* the content of a value that is not there
  Machines,    \* what SIO may find: a content for each location
  Foreign,     \* the contents other programs write
  MaxOutside   \* bound: how often another program changes something

Loc == Key \X Name
Content == Raw \cup {Missing}

(* PriorValue.                                                             *)
KeyAbsent  == [kind |-> "KeyAbsent", value |-> None]
AbsentHere == [kind |-> "Absent", value |-> None]
Present(v) == [kind |-> "Present", value |-> v]

ASSUME OutsideAssumption == MaxOutside \in Nat
ASSUME ContentAssumption ==
  /\ Missing \notin Raw
  /\ \A r \in Raw : r.data \in Seq(Unit)
  /\ Machines \subseteq [Loc -> Content]
  /\ Foreign \subseteq Content

(* Whatever is written, or was understood and is written back, is a        *)
(* content.                                                                *)
ASSUME WritingAssumption ==
  /\ \A v \in Value : Encode(v) \in Raw
  /\ \A r \in Raw : Decode(r) # None => Encode(Decode(r)) \in Raw

VARIABLES
  keys,      \* the keys that exist
  reg,       \* what each location holds
  pc,        \* the Windows call each caller makes next
  undoing,   \* is the caller restoring what it changed?
  at,        \* the location the caller works on
  value,     \* what it writes there
  prior,     \* the state its change has reported
  size,      \* the size the first of two reads has reported
  result,    \* how its last operation ended
  outside,   \* how often another program has changed something
  found,     \* history: what the location held when the caller began
  alone      \* history: nobody else has changed that location since

vars == <<keys, reg, pc, undoing, at, value, prior, size, result, outside, found, alone>>

Call == {"exists", "size", "read", "create", "write", "open", "delete"}
NoLoc == << >>

Init ==
  /\ keys \in SUBSET Key
  /\ reg \in Machines
  /\ \A l \in Loc : reg[l] # Missing => l[1] \in keys
  /\ pc      = [c \in Caller |-> "idle"]
  /\ undoing = [c \in Caller |-> FALSE]
  /\ at      = [c \in Caller |-> NoLoc]
  /\ value   = [c \in Caller |-> None]
  /\ prior   = [c \in Caller |-> AbsentHere]
  /\ size    = [c \in Caller |-> 0]
  /\ result  = [c \in Caller |-> "none"]
  /\ outside = 0
  /\ found   = [c \in Caller |-> Missing]
  /\ alone   = [c \in Caller |-> FALSE]

-----------------------------------------------------------------------------
Goto(c, label) == pc' = [pc EXCEPT ![c] = label]
KeyOf(c) == at[c][1]

(* The operation ends: "set" and "restored" when all went well.            *)
End(c, r) ==
  /\ Goto(c, IF r = "ok" /\ ~undoing[c] THEN "set" ELSE "done")
  /\ result' = [result EXCEPT ![c] = r]

(* The location l gets the content r.  Who else works on it is disturbed.  *)
Put(c, l, r) ==
  /\ reg' = [reg EXCEPT ![l] = r]
  /\ alone' = [d \in Caller |-> alone[d] /\ (d = c \/ at[d] # l)]

(* Registry_set has begun.                                                 *)
StartSet(c, l, v) ==
  /\ pc[c] = "idle"
  /\ Goto(c, "exists")
  /\ at'    = [at EXCEPT ![c] = l]
  /\ value' = [value EXCEPT ![c] = v]
  /\ found' = [found EXCEPT ![c] = reg[l]]
  /\ alone' = [alone EXCEPT ![c] = TRUE]
  /\ UNCHANGED <<keys, reg, undoing, prior, size, result, outside>>

(* What `capture_prior` has found is kept, and the write is next.          *)
Captured(c, p) ==
  /\ prior' = [prior EXCEPT ![c] = p]
  /\ Goto(c, "create")
  /\ UNCHANGED <<size, result>>

(* `key_exists`.                                                           *)
CheckKey(c) ==
  /\ pc[c] = "exists"
  /\ \/ KeyOf(c) \notin keys /\ Captured(c, KeyAbsent)
     \/ KeyOf(c) \in keys /\ Goto(c, "size") /\ UNCHANGED <<prior, size, result>>
  /\ UNCHANGED <<keys, reg, undoing, at, value, outside, found, alone>>

(* `read_raw` asks for the size of the value first ...                     *)
ReadSize(c) ==
  /\ pc[c] = "size"
  /\ \/ reg[at[c]] = Missing /\ Captured(c, AbsentHere)
     \/ /\ reg[at[c]] # Missing
        /\ size' = [size EXCEPT ![c] = Len(reg[at[c]].data)]
        /\ Goto(c, "read")
        /\ UNCHANGED <<prior, result>>
  /\ UNCHANGED <<keys, reg, undoing, at, value, outside, found, alone>>

(* What `read_value` makes of a content: an undecodable one is absent.     *)
Prior(r) == IF Decode(r) = None THEN AbsentHere ELSE Present(Decode(r))

(* ... and then for the bytes, which may have become too many.             *)
ReadBytes(c) ==
  LET r == reg[at[c]] IN
  /\ pc[c] = "read"
  /\ \/ r = Missing /\ Captured(c, AbsentHere)
     \/ r # Missing /\ Len(r.data) <= size[c] /\ Captured(c, Prior(r))
     \/ r # Missing /\ Len(r.data) > size[c] /\ End(c, "grew") /\ UNCHANGED <<prior, size>>
  /\ UNCHANGED <<keys, reg, undoing, at, value, outside, found, alone>>

(* `write_value` creates the key, should it not exist ...                  *)
CreateKey(c) ==
  /\ pc[c] = "create"
  /\ keys' = keys \cup {KeyOf(c)}
  /\ Goto(c, "write")
  /\ UNCHANGED <<reg, undoing, at, value, prior, size, result, outside, found, alone>>

(* Mutant: nobody sees that the key has gone.                              *)
SetValueUnseen(c) ==
  /\ pc[c] = "write"
  /\ Put(c, at[c], Encode(value[c]))
  /\ End(c, "ok")
  /\ UNCHANGED <<keys, undoing, at, value, prior, size, outside, found>>

(* ... and sets the value, unless the key has been deleted meanwhile.      *)
SetValue(c) ==
  /\ pc[c] = "write"
  /\ \/ /\ KeyOf(c) \in keys
        /\ Put(c, at[c], Encode(value[c]))
        /\ End(c, "ok")
     \/ /\ KeyOf(c) \notin keys
        /\ End(c, "gone")
        /\ UNCHANGED <<reg, alone>>
  /\ UNCHANGED <<keys, undoing, at, value, prior, size, outside, found>>

(* Mutant: what was absent is written back as an empty default.            *)
StartRestoreWrites(c) ==
  /\ pc[c] = "set"
  /\ undoing' = [undoing EXCEPT ![c] = TRUE]
  /\ Goto(c, "create")
  /\ value' = [value EXCEPT ![c] = IF prior[c].kind = "Present" THEN prior[c].value ELSE @]
  /\ UNCHANGED <<keys, reg, at, prior, size, result, outside, found, alone>>

(* `restore`: what was there is written, what was not is deleted.          *)
StartRestore(c) ==
  /\ pc[c] = "set"
  /\ undoing' = [undoing EXCEPT ![c] = TRUE]
  /\ \/ /\ prior[c].kind = "Present"
        /\ Goto(c, "create")
        /\ value' = [value EXCEPT ![c] = prior[c].value]
     \/ /\ prior[c].kind # "Present"
        /\ Goto(c, "open")
        /\ UNCHANGED value
  /\ UNCHANGED <<keys, reg, at, prior, size, result, outside, found, alone>>

(* `delete_value`: a key that is not there needs no deletion ...           *)
OpenKey(c) ==
  /\ pc[c] = "open"
  /\ \/ KeyOf(c) \in keys /\ Goto(c, "delete") /\ UNCHANGED result
     \/ KeyOf(c) \notin keys /\ End(c, "ok")
  /\ UNCHANGED <<keys, reg, undoing, at, value, prior, size, outside, found, alone>>

(* Mutant: a key found absent is taken away again, with all it holds.      *)
DeleteWithKey(c) ==
  /\ pc[c] = "delete"
  /\ KeyOf(c) \in keys
  /\ keys' = IF prior[c].kind = "KeyAbsent" THEN keys \ {KeyOf(c)} ELSE keys
  /\ reg' = [l \in Loc |-> IF l[1] \notin keys' \/ l = at[c] THEN Missing ELSE reg[l]]
  /\ alone' = [d \in Caller |-> alone[d] /\ (d = c \/ at[d] # at[c])]
  /\ End(c, "ok")
  /\ UNCHANGED <<undoing, at, value, prior, size, outside, found>>

(* ... nor does a value that is not there.  The key is left behind.        *)
DeleteValue(c) ==
  /\ pc[c] = "delete"
  /\ \/ KeyOf(c) \in keys /\ Put(c, at[c], Missing) /\ End(c, "ok")
     \/ KeyOf(c) \notin keys /\ End(c, "gone") /\ UNCHANGED <<reg, alone>>
  /\ UNCHANGED <<keys, undoing, at, value, prior, size, outside, found>>

(* A Windows call is refused: the error is returned at once.               *)
CallFails(c) ==
  /\ pc[c] \in Call
  /\ End(c, "refused")
  /\ UNCHANGED <<keys, reg, undoing, at, value, prior, size, outside, found, alone>>

(* Another program writes or deletes a value ...                           *)
OutsideWrites(l, r) ==
  /\ outside < MaxOutside
  /\ outside' = outside + 1
  /\ r # Missing => l[1] \in keys
  /\ reg' = [reg EXCEPT ![l] = r]
  /\ alone' = [d \in Caller |-> alone[d] /\ at[d] # l]
  /\ UNCHANGED <<keys, pc, undoing, at, value, prior, size, result, found>>

(* ... or a whole key.                                                     *)
OutsideDeletes(k) ==
  /\ outside < MaxOutside
  /\ outside' = outside + 1
  /\ keys' = keys \ {k}
  /\ reg' = [l \in Loc |-> IF l[1] = k THEN Missing ELSE reg[l]]
  /\ alone' = [d \in Caller |-> alone[d] /\ (at[d] = NoLoc \/ KeyOf(d) # k)]
  /\ UNCHANGED <<pc, undoing, at, value, prior, size, result, found>>

Step(c) ==
  \/ CheckKey(c)
  \/ ReadSize(c)
  \/ ReadBytes(c)
  \/ CreateKey(c)
  \/ SetValue(c)
  \/ StartRestore(c)
  \/ OpenKey(c)
  \/ DeleteValue(c)
  \/ CallFails(c)

Next ==
  \/ \E c \in Caller : Step(c)
  \/ \E c \in Caller, l \in Loc, v \in Value : StartSet(c, l, v)
  \/ \E l \in Loc, r \in Foreign : OutsideWrites(l, r)
  \/ \E k \in Key : OutsideDeletes(k)

Spec == Init /\ [][Next]_vars

-----------------------------------------------------------------------------
(* Properties.                                                             *)

TypeOK ==
  /\ keys \subseteq Key
  /\ reg \in [Loc -> Content]
  /\ pc \in [Caller -> Call \cup {"idle", "set", "done"}]
  /\ undoing \in [Caller -> BOOLEAN]
  /\ at \in [Caller -> Loc \cup {NoLoc}]
  /\ size \in [Caller -> Nat]
  /\ result \in [Caller -> {"none", "ok", "grew", "gone", "refused"}]
  /\ outside \in 0 .. MaxOutside
  /\ found \in [Caller -> Content]
  /\ alone \in [Caller -> BOOLEAN]
  /\ \A l \in Loc : reg[l] # Missing => l[1] \in keys

(* What the program reads at a location that holds r.                      *)
ReadsAs(r) == IF r = Missing THEN None ELSE Decode(r)

(* The contents that come back byte for byte.                              *)
Faithful(r) == r = Missing \/ (Decode(r) # None /\ Encode(Decode(r)) = r)

(* Where nobody else has interfered, a set that fails has changed nothing  *)
(* ("we have still recorded nothing that needs undoing", ops.rs:35), and a *)
(* restore that succeeds has put the location back: it reads as it did     *)
(* before, and is the same to the byte unless decode() loses some of it.   *)
RegistryIsPutBack ==
  \A c \in Caller : pc[c] = "done" /\ alone[c] =>
    /\ ~undoing[c] => reg[at[c]] = found[c]
    /\ undoing[c] /\ result[c] = "ok" =>
         /\ ReadsAs(reg[at[c]]) = ReadsAs(found[c])
         /\ Faithful(found[c]) => reg[at[c]] = found[c]

(* A value that was set and not restored is still there, whatever others   *)
(* restore beside it: a restore leaves the key behind, for "removing a key *)
(* we merely created a value under could take unrelated settings with it"  *)
(* (registry.rs:265-266).                                                  *)
OthersSettingsSurvive ==
  \A c \in Caller : pc[c] = "set" /\ alone[c] => reg[at[c]] = Encode(value[c])
============================================================================
