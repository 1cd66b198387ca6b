--------------------------- MODULE RegistryValue ---------------------------
(***************************************************************************)
(* `decode` and `encode` of crates/sio-winsys/src/registry.rs: what the    *)
(* program makes of the bytes of a registry value, and the bytes it writes *)
(* for a RegistryValue.                                                    *)
(*                                                                         *)
(* Bytes are taken in units: a UTF-16 code unit of a string, a whole       *)
(* number, a byte of a binary value.  A value of a type REG_DWORD stands   *)
(* for REG_QWORD as well, REG_SZ for REG_EXPAND_SZ (the type is kept).     *)
(***************************************************************************)
EXTENDS Naturals, Sequences

CONSTANTS
  Unit,    \* what contents are made of, among it ...
  Nul,     \* ... the code unit 0,
  Lone,    \* a surrogate without its other half
  Subst    \* and U+FFFD, which from_utf16_lossy puts in its place

ASSUME UnitsAssumption ==
  {Nul, Lone, Subst} \subseteq Unit /\ Nul # Lone /\ Lone # Subst /\ Subst # Nul

(* `decode` gives None for contents it has no RegistryValue for.           *)
None == [kind |-> "none", data |-> << >>]

Lossy(units) == [i \in DOMAIN units |-> IF units[i] = Lone THEN Subst ELSE units[i]]

(* A string ends at its first NUL, or with the data.                       *)
UpToNul(units) ==
  LET nuls == {i \in DOMAIN units : units[i] = Nul}
      end  == CHOOSE i \in nuls : \A j \in nuls : i <= j
  IN  IF nuls = {} THEN units ELSE SubSeq(units, 1, end - 1)

(* The runs between NULs.  Empty ones are filtered out.                    *)
Push(parts, run) == IF run = << >> THEN parts ELSE Append(parts, Lossy(run))

Eat(acc, u) ==
  IF u = Nul THEN [parts |-> Push(acc.parts, acc.run), run |-> << >>]
             ELSE [acc EXCEPT !.run = Append(@, u)]

Nothing == [parts |-> << >>, run |-> << >>]

Eaten(units) ==
  LET eaten[n \in 0 .. Len(units)] ==
        IF n = 0 THEN Nothing ELSE Eat(eaten[n - 1], units[n])
  IN  eaten[Len(units)]

Parts(units) == Push(Eaten(units).parts, Eaten(units).run)

Decode(raw) ==
  CASE raw.kind = "REG_DWORD" ->
         IF raw.data = << >> THEN None
         ELSE [kind |-> "REG_DWORD", data |-> << Head(raw.data) >>]
    [] raw.kind = "REG_SZ" ->
         [kind |-> "REG_SZ", data |-> Lossy(UpToNul(raw.data))]
    [] raw.kind = "REG_MULTI_SZ" ->
         [kind |-> "REG_MULTI_SZ", data |-> Parts(raw.data)]
    [] raw.kind = "REG_BINARY" -> raw
    [] OTHER -> None

WideNul(units) == Append(units, Nul)

Joined(parts) ==
  LET joined[n \in 0 .. Len(parts)] ==
        IF n = 0 THEN << >> ELSE joined[n - 1] \o WideNul(parts[n])
  IN  joined[Len(parts)]

Encode(v) ==
  CASE v.kind = "REG_SZ" -> [kind |-> v.kind, data |-> WideNul(v.data)]
    [] v.kind = "REG_MULTI_SZ" -> [kind |-> v.kind, data |-> WideNul(Joined(v.data))]
    [] OTHER -> v
============================================================================
