--------------------------- MODULE MCRegistryOps ---------------------------
(***************************************************************************)
(* Instances of RegistryOps for TLC: contents that decode() keeps, that it *)
(* keeps in part (an inner NUL, empty strings in a list, a lone surrogate, *)
(* no terminator) and that it does not know.                               *)
(***************************************************************************)
EXTENDS RegistryOps, TLC

CONSTANTS k, n1, n2

Units == {"a", "b", Nul, Lone, Subst}

Raw1(kind, data) == [kind |-> kind, data |-> data]

Texts == {<< >>, <<Nul>>, <<"a", Nul>>, <<"a", Nul, "b", Nul>>, <<"a">>, <<Lone, Nul>>}
Lists == {<< >>, <<Nul>>, <<"a", Nul, Nul>>, <<"a", Nul, Nul, "b", Nul, Nul>>,
          <<"a", Nul, "b", Nul, Nul>>, <<"a", Nul, Lone>>}

Found == {Raw1("REG_DWORD", <<"a">>), Raw1("REG_DWORD", << >>), Raw1("REG_BINARY", << >>),
          Raw1("REG_LINK", <<"a">>)}
    \cup {Raw1("REG_SZ", t) : t \in Texts}
    \cup {Raw1("REG_MULTI_SZ", t) : t \in Lists}

Written == {Raw1("REG_DWORD", <<"b">>), Raw1("REG_MULTI_SZ", <<(<<"a">>), (<<"b">>)>>)}

(* Another program deletes the value or writes a longer one.               *)
Longer == Raw1("REG_SZ", <<"a", "b", "a", "b", "a", "b", Nul>>)
Others == {Missing, Longer}

(* Everything a location may come to hold.                                 *)
Contents == Found \cup {Longer} \cup {Encode(v) : v \in Written}
                  \cup {Encode(Decode(r)) : r \in {f \in Found : Decode(f) # None}}

(* One location holds anything, the other under the same key nothing.      *)
Registries == {[l \in Loc |-> IF l[2] = n1 THEN r ELSE Missing] : r \in Found \cup {Missing}}

CallersAlike == Permutations(Caller)
============================================================================
