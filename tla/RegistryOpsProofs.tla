------------------------- MODULE RegistryOpsProofs -------------------------
(***************************************************************************)
(* Proofs about RegistryOps, for any number of callers, keys, values and   *)
(* contents.  What decode() makes of a content is written by encode() as a *)
(* content that decodes to the same, however many bytes there are; and of  *)
(* a change and its restore that is all that matters, so that what is lost *)
(* in reading a value never matters but where it must.                     *)
(***************************************************************************)
EXTENDS RegistryOps, WellFoundedInduction, TLAPS

-----------------------------------------------------------------------------
(* Natural numbers.                                                        *)

LEMMA Least ==
  ASSUME NEW T \in SUBSET Nat, T # {}
  PROVE  \E u \in T : \A v \in T : u <= v
<1>1. PICK u \in T : \A v \in T : <<v, u>> \notin OpToRel(<, Nat)
  BY NatLessThanWellFounded, WFMin, Zenon
<1>2. u \in Nat /\ \A v \in T : v \in Nat
  OBVIOUS
<1>3. \A v \in T : ~ (v < u)
  BY <1>1, <1>2, Zenon DEF OpToRel
<1> QED
  BY <1>2, <1>3

LEMMA AllOfNat ==
  ASSUME NEW T, 0 \in T, \A n \in Nat : n \in T => n + 1 \in T
  PROVE  \A n \in Nat : n \in T
<1> DEFINE missing == Nat \ T
<1>1. SUFFICES ASSUME missing # {} PROVE FALSE
  OBVIOUS
<1>2. PICK u \in missing : \A v \in missing : u <= v
  BY <1>1, Least
<1>3. u # 0 /\ u - 1 \in Nat /\ (u - 1) + 1 = u
  BY <1>2
<1>4. u - 1 \in T
  BY <1>2, <1>3
<1> QED
  BY <1>2, <1>3, <1>4

-----------------------------------------------------------------------------
(* Reading a list, unit by unit.                                           *)

EatenAt(g, n, units) == IF n = 0 THEN Nothing ELSE Eat(g[n - 1], units[n])
EatLoop(g, k, units) == g = [n \in 0 .. k |-> EatenAt(g, n, units)]

LEMMA EatLoopExists ==
  ASSUME NEW units, NEW rounds \in Nat
  PROVE  \E g : EatLoop(g, rounds, units)
<1> DEFINE T == {k \in Nat : \E g : EatLoop(g, k, units)}
<1>1. 0 \in T
  <2> DEFINE g == [n \in 0 .. 0 |-> Nothing]
  <2>1. EatLoop(g, 0, units)
    BY DEF EatLoop, EatenAt
  <2> QED
    BY <2>1
<1>2. ASSUME NEW k \in Nat, k \in T PROVE k + 1 \in T
  <2>1. PICK g : EatLoop(g, k, units)
    BY <1>2
  <2> DEFINE h == [n \in 0 .. k + 1 |-> IF n = k + 1 THEN EatenAt(g, n, units) ELSE g[n]]
  <2>2. ASSUME NEW n \in 0 .. k + 1 PROVE h[n] = EatenAt(h, n, units)
    <3>1. CASE n = k + 1
      <4>1. h[n - 1] = g[n - 1] /\ h[n] = EatenAt(g, n, units)
        BY <3>1
      <4> HIDE DEF h
      <4> QED
        BY <4>1 DEF EatenAt
    <3>2. CASE n \in 0 .. k
      <4>1. h[n] = g[n] /\ (n # 0 => h[n - 1] = g[n - 1])
        BY <3>2
      <4> HIDE DEF h
      <4>2. g[n] = EatenAt(g, n, units)
        BY <2>1, <3>2, Zenon DEF EatLoop
      <4> QED
        BY <4>1, <4>2 DEF EatenAt
    <3> QED
      BY <3>1, <3>2
  <2>3. h = [n \in 0 .. k + 1 |-> EatenAt(h, n, units)]
    BY <2>2
  <2> HIDE DEF h
  <2> QED
    BY <2>3 DEF EatLoop
<1> HIDE DEF T
<1>3. rounds \in T
  BY <1>1, <1>2, AllOfNat
<1> QED
  BY <1>3 DEF T

(* What has been read of a list is what eating its units one by one gives. *)
LEMMA EatenIs ==
  ASSUME NEW S, NEW units \in Seq(S)
  PROVE  \E g : EatLoop(g, Len(units), units) /\ Eaten(units) = g[Len(units)]
<1> DEFINE eaten == CHOOSE g : EatLoop(g, Len(units), units)
<1>1. EatLoop(eaten, Len(units), units)
  <2>1. \E g : EatLoop(g, Len(units), units)
    BY EatLoopExists
  <2> QED
    BY <2>1, Zenon
<1>2. Eaten(units) = eaten[Len(units)]
  BY DEF Eaten, EatLoop, EatenAt
<1> QED
  BY <1>1, <1>2

LEMMA EatenNothing == Eaten(<< >>) = Nothing
<1>1. PICK g : EatLoop(g, 0, << >>) /\ Eaten(<< >>) = g[0]
  <2>1. << >> \in Seq({}) /\ Len(<< >>) = 0
    OBVIOUS
  <2> QED
    BY <2>1, EatenIs
<1>2. g[0] = EatenAt(g, 0, << >>)
  BY <1>1 DEF EatLoop
<1> QED
  BY <1>1, <1>2 DEF EatenAt

LEMMA EatenOneMore ==
  ASSUME NEW S, NEW units \in Seq(S), NEW u \in S
  PROVE  Eaten(Append(units, u)) = Eat(Eaten(units), u)
<1> DEFINE more == Append(units, u)
<1>1. more \in Seq(S) /\ Len(more) = Len(units) + 1 /\ more[Len(units) + 1] = u
      /\ \A n \in 1 .. Len(units) : more[n] = units[n]
  OBVIOUS
<1>2. PICK g : EatLoop(g, Len(units), units) /\ Eaten(units) = g[Len(units)]
  BY EatenIs
<1> HIDE DEF more
<1>3. PICK h : EatLoop(h, Len(units) + 1, more) /\ Eaten(more) = h[Len(units) + 1]
  BY <1>1, EatenIs
<1> DEFINE T == {n \in Nat : n <= Len(units) => h[n] = g[n]}
<1>4. \A n \in 0 .. Len(units) : g[n] = EatenAt(g, n, units)
  BY <1>2, Zenon DEF EatLoop
<1>5. \A n \in 0 .. Len(units) + 1 : h[n] = EatenAt(h, n, more)
  BY <1>3, Zenon DEF EatLoop
<1>6. 0 \in T
  <2>1. g[0] = Nothing /\ h[0] = Nothing
    BY <1>4, <1>5, 0 \in 0 .. Len(units), 0 \in 0 .. Len(units) + 1 DEF EatenAt
  <2> QED
    BY <2>1
<1>7. ASSUME NEW n \in Nat, n \in T PROVE n + 1 \in T
  <2>1. SUFFICES ASSUME n + 1 <= Len(units) PROVE h[n + 1] = g[n + 1]
    OBVIOUS
  <2>2. h[n] = g[n] /\ more[n + 1] = units[n + 1]
    BY <1>1, <1>7, <2>1
  <2>3. /\ n + 1 \in 0 .. Len(units) /\ n + 1 \in 0 .. Len(units) + 1
        /\ n + 1 # 0 /\ (n + 1) - 1 = n
    BY <2>1
  <2>4. g[n + 1] = Eat(g[n], units[n + 1])
    BY <1>4, <2>3 DEF EatenAt
  <2>5. h[n + 1] = Eat(h[n], more[n + 1])
    BY <1>5, <2>3 DEF EatenAt
  <2> QED
    BY <2>2, <2>4, <2>5
<1> HIDE DEF T
<1>8. Len(units) \in T
  BY <1>6, <1>7, AllOfNat
<1>9. h[Len(units)] = g[Len(units)]
  BY <1>8 DEF T
<1>10. Len(units) + 1 \in 0 .. Len(units) + 1 /\ Len(units) + 1 # 0
       /\ (Len(units) + 1) - 1 = Len(units)
  OBVIOUS
<1>11. h[Len(units) + 1] = Eat(h[Len(units)], u)
  BY <1>1, <1>5, <1>10 DEF EatenAt
<1> QED
  BY <1>2, <1>3, <1>9, <1>11 DEF more

-----------------------------------------------------------------------------
(* What a string or a list that was read is made of.                       *)

Letters == (Unit \cup {Subst}) \ {Nul, Lone}
Text    == Seq(Letters)
Word    == Text \ {<< >>}

LEMMA LossyType ==
  ASSUME NEW units \in Seq(Unit \ {Nul})
  PROVE  Lossy(units) \in Text /\ Len(Lossy(units)) = Len(units)
<1>1. Lossy(units) = [i \in 1 .. Len(units) |-> IF units[i] = Lone THEN Subst ELSE units[i]]
  BY DEF Lossy
<1>2. \A i \in 1 .. Len(units) : (IF units[i] = Lone THEN Subst ELSE units[i]) \in Letters
  BY UnitsAssumption DEF Letters
<1> QED
  BY <1>1, <1>2 DEF Text

(* A text has no lone surrogate to lose.                                   *)
LEMMA LossyKeepsText ==
  ASSUME NEW text \in Text
  PROVE  Lossy(text) = text
BY DEF Lossy, Text, Letters

(* A string is read up to its first NUL.                                   *)
LEMMA UpToNulType ==
  ASSUME NEW units \in Seq(Unit)
  PROVE  UpToNul(units) \in Seq(Unit \ {Nul})
<1> DEFINE nuls == {i \in DOMAIN units : units[i] = Nul}
           end  == CHOOSE i \in nuls : \A j \in nuls : i <= j
<1>1. CASE nuls = {}
  <2>1. \A i \in 1 .. Len(units) : units[i] \in Unit \ {Nul}
    BY <1>1
  <2> QED
    BY <1>1, <2>1 DEF UpToNul
<1>2. CASE nuls # {}
  <2>1. nuls \in SUBSET Nat
    OBVIOUS
  <2>2. \E i \in nuls : \A j \in nuls : i <= j
    BY <1>2, <2>1, Least
  <2>3. end \in nuls /\ \A j \in nuls : end <= j
    BY <2>2
  <2>4. UpToNul(units) = SubSeq(units, 1, end - 1)
    BY <1>2 DEF UpToNul
  <2> HIDE DEF end
  <2>5. \A i \in 1 .. end - 1 : units[i] \in Unit \ {Nul}
    BY <2>3
  <2>6. end \in 1 .. Len(units)
    BY <2>3
  <2> QED
    BY <2>4, <2>5, <2>6
<1> QED
  BY <1>1, <1>2

(* With the NUL that was written after it, a text is read as it was.       *)
LEMMA UpToNulOfText ==
  ASSUME NEW text \in Text
  PROVE  UpToNul(WideNul(text)) = text
<1> DEFINE units == Append(text, Nul)
           nuls  == {i \in DOMAIN units : units[i] = Nul}
<1>1. nuls = {Len(text) + 1}
  BY DEF Text, Letters
<1>2. (CHOOSE i \in nuls : \A j \in nuls : i <= j) = Len(text) + 1
  BY <1>1
<1>3. UpToNul(units) = SubSeq(units, 1, Len(text))
  <2>1. (Len(text) + 1) - 1 = Len(text)
    BY DEF Text
  <2> QED
    BY <1>1, <1>2, <2>1 DEF UpToNul
<1>4. SubSeq(units, 1, Len(text)) = text
  BY DEF Text
<1> QED
  BY <1>3, <1>4 DEF WideNul

-----------------------------------------------------------------------------
(* What is read of a list: words, without what cannot be kept.             *)

Acc == [parts : Seq(Word), run : Seq(Unit \ {Nul})]

LEMMA PushType ==
  ASSUME NEW parts \in Seq(Word), NEW run \in Seq(Unit \ {Nul})
  PROVE  Push(parts, run) \in Seq(Word)
<1>1. CASE run = << >>
  BY <1>1 DEF Push
<1>2. CASE run # << >>
  <2>1. Lossy(run) \in Text /\ Len(Lossy(run)) = Len(run)
    BY LossyType
  <2>2. Len(run) # 0
    BY <1>2
  <2>3. Lossy(run) \in Word
    BY <2>1, <2>2 DEF Word
  <2> QED
    BY <1>2, <2>3 DEF Push
<1> QED
  BY <1>1, <1>2

LEMMA EatType ==
  ASSUME NEW acc \in Acc, NEW u \in Unit
  PROVE  Eat(acc, u) \in Acc
<1> acc.parts \in Seq(Word) /\ acc.run \in Seq(Unit \ {Nul})
  BY DEF Acc
<1>1. CASE u = Nul
  <2>1. Push(acc.parts, acc.run) \in Seq(Word)
    BY PushType
  <2>2. << >> \in Seq(Unit \ {Nul})
    OBVIOUS
  <2> QED
    BY <1>1, <2>1, <2>2 DEF Eat, Acc
<1>2. CASE u # Nul
  <2>1. Append(acc.run, u) \in Seq(Unit \ {Nul})
    BY <1>2
  <2>2. Eat(acc, u) = [acc EXCEPT !.run = Append(@, u)]
    BY <1>2 DEF Eat
  <2> QED
    BY <2>1, <2>2 DEF Acc
<1> QED
  BY <1>1, <1>2

LEMMA EatenType ==
  ASSUME NEW units \in Seq(Unit)
  PROVE  Eaten(units) \in Acc
<1>1. PICK g : EatLoop(g, Len(units), units) /\ Eaten(units) = g[Len(units)]
  BY EatenIs
<1>2. \A n \in 0 .. Len(units) : g[n] = EatenAt(g, n, units)
  BY <1>1, Zenon DEF EatLoop
<1> DEFINE T == {n \in Nat : n <= Len(units) => g[n] \in Acc}
<1>3. 0 \in T
  <2>1. g[0] = Nothing
    BY <1>2, 0 \in 0 .. Len(units) DEF EatenAt
  <2>2. << >> \in Seq(Word) /\ << >> \in Seq(Unit \ {Nul})
    OBVIOUS
  <2>3. Nothing \in Acc
    BY <2>2 DEF Nothing, Acc
  <2> QED
    BY <2>1, <2>3
<1>4. ASSUME NEW n \in Nat, n \in T PROVE n + 1 \in T
  <2>1. SUFFICES ASSUME n + 1 <= Len(units) PROVE g[n + 1] \in Acc
    OBVIOUS
  <2>2. g[n] \in Acc /\ units[n + 1] \in Unit
    BY <1>4, <2>1
  <2>3. n + 1 \in 0 .. Len(units) /\ n + 1 # 0 /\ (n + 1) - 1 = n
    BY <2>1
  <2>4. g[n + 1] = Eat(g[n], units[n + 1])
    BY <1>2, <2>3 DEF EatenAt
  <2> QED
    BY <2>2, <2>4, EatType
<1> HIDE DEF T
<1>5. Len(units) \in T
  BY <1>3, <1>4, AllOfNat
<1> QED
  BY <1>1, <1>5 DEF T

LEMMA PartsType ==
  ASSUME NEW units \in Seq(Unit)
  PROVE  Parts(units) \in Seq(Word)
<1>1. Eaten(units) \in Acc
  BY EatenType
<1>2. Eaten(units).parts \in Seq(Word) /\ Eaten(units).run \in Seq(Unit \ {Nul})
  BY <1>1 DEF Acc
<1> QED
  BY <1>2, PushType DEF Parts

-----------------------------------------------------------------------------
(* A list that was written is read as it was.                              *)

LEMMA EatOf ==
  ASSUME NEW parts, NEW run, NEW u
  PROVE  /\ u = Nul => Eat([parts |-> parts, run |-> run], u) =
                         [parts |-> Push(parts, run), run |-> << >>]
         /\ u # Nul => Eat([parts |-> parts, run |-> run], u) =
                         [parts |-> parts, run |-> Append(run, u)]
BY DEF Eat

(* A word is read into the run, and its NUL makes it a part.               *)
LEMMA EatenWord ==
  ASSUME NEW s \in Seq(Unit), Eaten(s).run = << >>, NEW w \in Word
  PROVE  /\ s \o WideNul(w) \in Seq(Unit)
         /\ Eaten(s \o WideNul(w)) = [parts |-> Append(Eaten(s).parts, w), run |-> << >>]
<1>a. w \in Text /\ w \in Seq(Unit) /\ w # << >> /\ Nul \in Unit
  BY UnitsAssumption DEF Word, Text, Letters
<1>b. Eaten(s) = [parts |-> Eaten(s).parts, run |-> << >>]
  BY EatenType DEF Acc
<1> DEFINE T == {j \in Nat : j <= Len(w) =>
                   Eaten(s \o SubSeq(w, 1, j)) =
                     [parts |-> Eaten(s).parts, run |-> SubSeq(w, 1, j)]}
<1>1. 0 \in T
  <2>1. SubSeq(w, 1, 0) = << >> /\ s \o << >> = s
    BY <1>a
  <2> QED
    BY <1>b, <2>1
<1>2. ASSUME NEW j \in Nat, j \in T PROVE j + 1 \in T
  <2>1. SUFFICES ASSUME j + 1 <= Len(w)
                 PROVE  Eaten(s \o SubSeq(w, 1, j + 1)) =
                          [parts |-> Eaten(s).parts, run |-> SubSeq(w, 1, j + 1)]
    OBVIOUS
  <2>2. w[j + 1] \in Unit /\ w[j + 1] # Nul
    BY <1>a, <2>1 DEF Text, Letters
  <2>3. SubSeq(w, 1, j + 1) = Append(SubSeq(w, 1, j), w[j + 1])
    BY <1>a, <2>1
  <2>4. s \o SubSeq(w, 1, j) \in Seq(Unit) /\ SubSeq(w, 1, j) \in Seq(Unit)
    BY <1>a, <2>1
  <2>5. s \o SubSeq(w, 1, j + 1) = Append(s \o SubSeq(w, 1, j), w[j + 1])
    BY <1>a, <2>1, <2>2, <2>3, <2>4
  <2>6. Eaten(s \o SubSeq(w, 1, j + 1)) = Eat(Eaten(s \o SubSeq(w, 1, j)), w[j + 1])
    BY <2>2, <2>4, <2>5, EatenOneMore
  <2>7. Eaten(s \o SubSeq(w, 1, j)) = [parts |-> Eaten(s).parts, run |-> SubSeq(w, 1, j)]
    BY <1>2, <2>1
  <2>8. Eat([parts |-> Eaten(s).parts, run |-> SubSeq(w, 1, j)], w[j + 1]) =
          [parts |-> Eaten(s).parts, run |-> Append(SubSeq(w, 1, j), w[j + 1])]
    <3> DEFINE u == w[j + 1]
    <3>1. u # Nul
      BY <2>2
    <3> HIDE DEF u
    <3>2. Eat([parts |-> Eaten(s).parts, run |-> SubSeq(w, 1, j)], u) =
            [parts |-> Eaten(s).parts, run |-> Append(SubSeq(w, 1, j), u)]
      BY <3>1, EatOf
    <3> QED
      BY <3>2 DEF u
  <2> QED
    BY <2>3, <2>6, <2>7, <2>8
<1> HIDE DEF T
<1>3. Len(w) \in T
  BY <1>1, <1>2, <1>a, AllOfNat
<1>4. SubSeq(w, 1, Len(w)) = w
  BY <1>a
<1>5. Eaten(s \o w) = [parts |-> Eaten(s).parts, run |-> w]
  <2>1. Len(w) \in Nat /\ Len(w) <= Len(w)
    BY <1>a
  <2> QED
    BY <1>3, <1>4, <2>1 DEF T
<1>6. s \o WideNul(w) = Append(s \o w, Nul) /\ s \o w \in Seq(Unit)
  BY <1>a DEF WideNul
<1>7. Eaten(s \o WideNul(w)) = Eat(Eaten(s \o w), Nul)
  BY <1>6, <1>a, EatenOneMore
<1>8. Push(Eaten(s).parts, w) = Append(Eaten(s).parts, w)
  BY <1>a, LossyKeepsText DEF Push
<1>9. Eat([parts |-> Eaten(s).parts, run |-> w], Nul) =
        [parts |-> Append(Eaten(s).parts, w), run |-> << >>]
  <2>1. Eat([parts |-> Eaten(s).parts, run |-> w], Nul) =
          [parts |-> Push(Eaten(s).parts, w), run |-> << >>]
    BY EatOf
  <2> QED
    BY <1>8, <2>1
<1>10. s \o WideNul(w) \in Seq(Unit)
  BY <1>6, <1>a
<1> QED
  BY <1>5, <1>7, <1>9, <1>10

JoinedAt(g, n, parts) == IF n = 0 THEN << >> ELSE g[n - 1] \o WideNul(parts[n])
JoinLoop(g, k, parts) == g = [n \in 0 .. k |-> JoinedAt(g, n, parts)]

LEMMA JoinLoopExists ==
  ASSUME NEW parts, NEW rounds \in Nat
  PROVE  \E g : JoinLoop(g, rounds, parts)
<1> DEFINE T == {k \in Nat : \E g : JoinLoop(g, k, parts)}
<1>1. 0 \in T
  <2> DEFINE g == [n \in 0 .. 0 |-> << >>]
  <2>1. JoinLoop(g, 0, parts)
    BY DEF JoinLoop, JoinedAt
  <2> QED
    BY <2>1
<1>2. ASSUME NEW k \in Nat, k \in T PROVE k + 1 \in T
  <2>1. PICK g : JoinLoop(g, k, parts)
    BY <1>2
  <2> DEFINE h == [n \in 0 .. k + 1 |-> IF n = k + 1 THEN JoinedAt(g, n, parts) ELSE g[n]]
  <2>2. ASSUME NEW n \in 0 .. k + 1 PROVE h[n] = JoinedAt(h, n, parts)
    <3>1. CASE n = k + 1
      <4>1. h[n - 1] = g[n - 1] /\ h[n] = JoinedAt(g, n, parts)
        BY <3>1
      <4> HIDE DEF h
      <4> QED
        BY <4>1 DEF JoinedAt
    <3>2. CASE n \in 0 .. k
      <4>1. h[n] = g[n] /\ (n # 0 => h[n - 1] = g[n - 1])
        BY <3>2
      <4> HIDE DEF h
      <4>2. g[n] = JoinedAt(g, n, parts)
        BY <2>1, <3>2, Zenon DEF JoinLoop
      <4> QED
        BY <4>1, <4>2 DEF JoinedAt
    <3> QED
      BY <3>1, <3>2
  <2>3. h = [n \in 0 .. k + 1 |-> JoinedAt(h, n, parts)]
    BY <2>2
  <2> HIDE DEF h
  <2> QED
    BY <2>3 DEF JoinLoop
<1> HIDE DEF T
<1>3. rounds \in T
  BY <1>1, <1>2, AllOfNat
<1> QED
  BY <1>3 DEF T

LEMMA JoinedIs ==
  ASSUME NEW S, NEW parts \in Seq(S)
  PROVE  \E g : JoinLoop(g, Len(parts), parts) /\ Joined(parts) = g[Len(parts)]
<1> DEFINE joined == CHOOSE g : JoinLoop(g, Len(parts), parts)
<1>1. JoinLoop(joined, Len(parts), parts)
  <2>1. \E g : JoinLoop(g, Len(parts), parts)
    BY JoinLoopExists
  <2> QED
    BY <2>1, Zenon
<1>2. Joined(parts) = joined[Len(parts)]
  BY DEF Joined, JoinLoop, JoinedAt
<1> QED
  BY <1>1, <1>2

(* However many words have been written, they are the parts read of them.  *)
LEMMA JoinedReadsBack ==
  ASSUME NEW parts \in Seq(Word)
  PROVE  Joined(parts) \in Seq(Unit) /\ Eaten(Joined(parts)) = [parts |-> parts, run |-> << >>]
<1>1. PICK g : JoinLoop(g, Len(parts), parts) /\ Joined(parts) = g[Len(parts)]
  BY JoinedIs
<1>2. \A n \in 0 .. Len(parts) : g[n] = JoinedAt(g, n, parts)
  BY <1>1, Zenon DEF JoinLoop
<1> DEFINE Read(n) == /\ g[n] \in Seq(Unit)
                      /\ Eaten(g[n]) = [parts |-> SubSeq(parts, 1, n), run |-> << >>]
           T == {n \in Nat : n <= Len(parts) => Read(n)}
<1>3. 0 \in T
  <2>1. g[0] = << >>
    BY <1>2, 0 \in 0 .. Len(parts) DEF JoinedAt
  <2>2. SubSeq(parts, 1, 0) = << >> /\ << >> \in Seq(Unit)
    OBVIOUS
  <2> QED
    BY <2>1, <2>2, EatenNothing DEF Nothing
<1>4. ASSUME NEW n \in Nat, n \in T PROVE n + 1 \in T
  <2>1. SUFFICES ASSUME n + 1 <= Len(parts) PROVE Read(n + 1)
    OBVIOUS
  <2>2. Read(n) /\ parts[n + 1] \in Word
    BY <1>4, <2>1
  <2>3. n + 1 \in 0 .. Len(parts) /\ n + 1 # 0 /\ (n + 1) - 1 = n
    BY <2>1
  <2>4. g[n + 1] = g[n] \o WideNul(parts[n + 1])
    BY <1>2, <2>3 DEF JoinedAt
  <2>5. Eaten(g[n]).run = << >> /\ Eaten(g[n]).parts = SubSeq(parts, 1, n)
    BY <2>2
  <2>6. /\ g[n] \o WideNul(parts[n + 1]) \in Seq(Unit)
        /\ Eaten(g[n] \o WideNul(parts[n + 1])) =
             [parts |-> Append(SubSeq(parts, 1, n), parts[n + 1]), run |-> << >>]
    BY <2>2, <2>5, EatenWord
  <2>7. SubSeq(parts, 1, n + 1) = Append(SubSeq(parts, 1, n), parts[n + 1])
    BY <2>1
  <2> QED
    BY <2>4, <2>6, <2>7
<1> HIDE DEF T
<1>5. Len(parts) \in T
  BY <1>3, <1>4, AllOfNat
<1>6. SubSeq(parts, 1, Len(parts)) = parts /\ Len(parts) \in Nat /\ Len(parts) <= Len(parts)
  OBVIOUS
<1> QED
  BY <1>1, <1>5, <1>6 DEF T

(* And the NUL that ends the list adds none.                               *)
LEMMA PartsOfJoined ==
  ASSUME NEW parts \in Seq(Word)
  PROVE  Parts(WideNul(Joined(parts))) = parts
<1>1. Joined(parts) \in Seq(Unit) /\ Eaten(Joined(parts)) = [parts |-> parts, run |-> << >>]
  BY JoinedReadsBack
<1>2. Nul \in Unit
  BY UnitsAssumption
<1>3. Eaten(WideNul(Joined(parts))) = Eat([parts |-> parts, run |-> << >>], Nul)
  BY <1>1, <1>2, EatenOneMore DEF WideNul
<1>4. Eat([parts |-> parts, run |-> << >>], Nul) = [parts |-> Push(parts, << >>), run |-> << >>]
  BY EatOf
<1>5. Push(parts, << >>) = parts
  BY DEF Push
<1> QED
  BY <1>3, <1>4, <1>5 DEF Parts

-----------------------------------------------------------------------------
(* Reading back.                                                           *)

(* The RegistryValues that some content decodes to.                        *)
Plain(v) ==
  \/ v.kind = "REG_BINARY"
  \/ \E u \in Unit : v = [kind |-> "REG_DWORD", data |-> << u >>]
  \/ \E text \in Text : v = [kind |-> "REG_SZ", data |-> text]
  \/ \E parts \in Seq(Word) : v = [kind |-> "REG_MULTI_SZ", data |-> parts]

LEMMA DecodeIsPlain ==
  ASSUME NEW raw, raw.data \in Seq(Unit), Decode(raw) # None
  PROVE  Plain(Decode(raw))
<1>1. CASE raw.kind = "REG_DWORD"
  <2>1. raw.data # << >> /\ Decode(raw) = [kind |-> "REG_DWORD", data |-> << Head(raw.data) >>]
    BY <1>1 DEF Decode
  <2>2. Head(raw.data) \in Unit
    BY <2>1
  <2> QED
    BY <2>1, <2>2 DEF Plain
<1>2. CASE raw.kind = "REG_SZ"
  <2>1. Decode(raw) = [kind |-> "REG_SZ", data |-> Lossy(UpToNul(raw.data))]
    BY <1>2 DEF Decode
  <2>2. Lossy(UpToNul(raw.data)) \in Text
    BY UpToNulType, LossyType
  <2> QED
    BY <2>1, <2>2 DEF Plain
<1>3. CASE raw.kind = "REG_MULTI_SZ"
  <2>1. Decode(raw) = [kind |-> "REG_MULTI_SZ", data |-> Parts(raw.data)]
    BY <1>3 DEF Decode
  <2> QED
    BY <2>1, PartsType DEF Plain
<1>4. CASE raw.kind = "REG_BINARY"
  BY <1>4 DEF Decode, Plain
<1> QED
  BY <1>1, <1>2, <1>3, <1>4 DEF Decode

(* What can be read is read back from what is written for it.              *)
LEMMA PlainReadsBack ==
  ASSUME NEW v, Plain(v)
  PROVE  Decode(Encode(v)) = v
<1>1. CASE v.kind = "REG_BINARY"
  BY <1>1 DEF Decode, Encode
<1>2. ASSUME NEW u \in Unit, v = [kind |-> "REG_DWORD", data |-> << u >>]
      PROVE  Decode(Encode(v)) = v
  <2>1. Encode(v) = v /\ Head(<< u >>) = u /\ << u >> # << >>
    BY <1>2 DEF Encode
  <2> QED
    BY <1>2, <2>1 DEF Decode
<1>3. ASSUME NEW text \in Text, v = [kind |-> "REG_SZ", data |-> text]
      PROVE  Decode(Encode(v)) = v
  <2>1. Encode(v) = [kind |-> "REG_SZ", data |-> WideNul(text)]
    BY <1>3 DEF Encode
  <2>2. Lossy(UpToNul(WideNul(text))) = text
    BY UpToNulOfText, LossyKeepsText
  <2> QED
    BY <1>3, <2>1, <2>2 DEF Decode
<1>4. ASSUME NEW parts \in Seq(Word), v = [kind |-> "REG_MULTI_SZ", data |-> parts]
      PROVE  Decode(Encode(v)) = v
  <2>1. Encode(v) = [kind |-> "REG_MULTI_SZ", data |-> WideNul(Joined(parts))]
    BY <1>4 DEF Encode
  <2> QED
    BY <1>4, <2>1, PartsOfJoined DEF Decode
<1> QED
  BY <1>1, <1>2, <1>3, <1>4 DEF Plain

(* Whatever a registry holds, writing back what was understood of it has   *)
(* it understood the same.                                                 *)
THEOREM WhatWasReadComesBack ==
  ASSUME NEW raw, raw.data \in Seq(Unit), Decode(raw) # None
  PROVE  Decode(Encode(Decode(raw))) = Decode(raw)
BY DecodeIsPlain, PlainReadsBack

-----------------------------------------------------------------------------
(* The invariant.                                                          *)

(* Whatever a caller is about to write is a content.                       *)
Writable(c) ==
  /\ pc[c] # "idle" => Encode(value[c]) \in Raw
  /\ prior[c].kind = "Present" =>
       Encode(prior[c].value) \in Raw /\ Decode(Encode(prior[c].value)) = prior[c].value

(* A caller whom nobody disturbs: what it reports is what it found ...     *)
Reported(c) ==
  \/ /\ prior[c].kind = "Present"
     /\ found[c] # Missing
     /\ prior[c].value = Decode(found[c])
     /\ prior[c].value # None
  \/ /\ prior[c].kind # "Present"
     /\ found[c] = Missing \/ Decode(found[c]) = None

Before(c)  == ~undoing[c] /\ pc[c] \in {"exists", "size", "read", "create", "write", "done"}
Known(c)   == pc[c] \in {"create", "write", "set"} \/ undoing[c]

(* ... and the location goes from there through its value and back.        *)
Course(c) ==
  /\ at[c] \in Loc
  /\ Before(c) => reg[at[c]] = found[c]
  /\ Known(c) => Reported(c)
  /\ pc[c] \in {"exists", "size", "read", "set"} => ~undoing[c]
  /\ pc[c] \in {"open", "delete"} => undoing[c] /\ prior[c].kind # "Present"
  /\ pc[c] = "set" => reg[at[c]] = Encode(value[c])
  /\ undoing[c] /\ pc[c] \in {"create", "write"} =>
       prior[c].kind = "Present" /\ value[c] = prior[c].value
  /\ undoing[c] /\ pc[c] = "done" /\ result[c] = "ok" =>
       reg[at[c]] = IF prior[c].kind = "Present" THEN Encode(prior[c].value) ELSE Missing

Track(c) ==
  /\ pc[c] = "idle" => ~undoing[c]
  /\ Writable(c)
  /\ alone[c] => Course(c)

Inv == TypeOK /\ \A c \in Caller : Track(c)

-----------------------------------------------------------------------------
(* Types.                                                                  *)

LEMMA OneMore ==
  ASSUME NEW n \in 0 .. MaxOutside, n < MaxOutside
  PROVE  n + 1 \in 0 .. MaxOutside
BY OutsideAssumption DEF OutsideAssumption

(* Each caller has a value and a prior state, and one that has begun a     *)
(* place to work at.                                                       *)
Placed ==
  /\ DOMAIN value = Caller /\ DOMAIN prior = Caller
  /\ \A c \in Caller : pc[c] # "idle" => at[c] \in Loc

LEMMA TypesStep ==
  ASSUME Inv, Placed, [Next]_vars
  PROVE  TypeOK' /\ Placed'
<1> USE DEF Inv, TypeOK, Placed, Goto, End
<1>1. ASSUME NEW c \in Caller, NEW l \in Loc, NEW v \in Value, StartSet(c, l, v)
      PROVE TypeOK' /\ Placed'
  BY <1>1 DEF StartSet, Call
<1>2. ASSUME NEW c \in Caller, CheckKey(c)
      PROVE TypeOK' /\ Placed'
  BY <1>2 DEF CheckKey, Captured, Call
<1>3. ASSUME NEW c \in Caller, ReadSize(c)
      PROVE TypeOK' /\ Placed'
  <2>1. CASE Captured(c, AbsentHere) /\ UNCHANGED <<keys, reg, undoing, at, value, outside, found, alone>>
    BY <1>3, <2>1 DEF ReadSize, Captured, Call
  <2>2. CASE reg[at[c]] # Missing /\ size' = [size EXCEPT ![c] = Len(reg[at[c]].data)]
    <3>1. at[c] \in Loc
      BY <1>3 DEF ReadSize
    <3>2. reg[at[c]] \in Raw
      BY <2>2, <3>1 DEF Content
    <3>3. Len(reg[at[c]].data) \in Nat
      BY <3>2, ContentAssumption DEF ContentAssumption
    <3>4. size' \in [Caller -> Nat]
      BY <2>2, <3>3
    <3> QED
      BY <1>3, <2>2, <3>4 DEF ReadSize, Captured, Call
  <2> QED
    BY <1>3, <2>1, <2>2 DEF ReadSize
<1>4. ASSUME NEW c \in Caller, ReadBytes(c)
      PROVE TypeOK' /\ Placed'
  <2>1. ASSUME NEW p, Captured(c, p) PROVE TypeOK' /\ Placed'
    BY <1>4, <2>1 DEF ReadBytes, Captured, Call
  <2>2. CASE End(c, "grew") /\ UNCHANGED <<prior, size>>
    BY <1>4, <2>2 DEF ReadBytes, Call
  <2> QED
    BY <1>4, <2>1, <2>2 DEF ReadBytes
<1>5. ASSUME NEW c \in Caller, CreateKey(c)
      PROVE TypeOK' /\ Placed'
  BY <1>5 DEF CreateKey, KeyOf, Call, Loc
<1>6. ASSUME NEW c \in Caller, SetValue(c)
      PROVE TypeOK' /\ Placed'
  <2>1. CASE Put(c, at[c], Encode(value[c])) /\ KeyOf(c) \in keys
    <3>1. at[c] \in Loc /\ Encode(value[c]) \in Raw
      BY <1>6 DEF SetValue, Track, Writable
    <3>2. reg' \in [Loc -> Content]
      BY <2>1, <3>1 DEF Put, Content
    <3>3. alone' \in [Caller -> BOOLEAN]
      BY <2>1 DEF Put
    <3>4. \A l \in Loc : reg'[l] # Missing => l[1] \in keys
      BY <2>1, <3>1 DEF Put, KeyOf
    <3> HIDE DEF Inv
    <3>5. /\ pc' \in [Caller -> Call \cup {"idle", "set", "done"}]
          /\ result' \in [Caller -> {"none", "ok", "grew", "gone", "refused"}]
          /\ \A d \in Caller : pc'[d] # "idle" => at'[d] \in Loc
      BY <1>6, <3>1 DEF SetValue, Inv, Call
    <3> QED
      BY <1>6, <3>2, <3>3, <3>4, <3>5 DEF SetValue, Inv
  <2>2. CASE UNCHANGED <<reg, alone>>
    BY <1>6, <2>2 DEF SetValue, Call
  <2> QED
    BY <1>6, <2>1, <2>2 DEF SetValue
<1>7. ASSUME NEW c \in Caller, StartRestore(c)
      PROVE TypeOK' /\ Placed'
  BY <1>7 DEF StartRestore, Call
<1>8. ASSUME NEW c \in Caller, OpenKey(c)
      PROVE TypeOK' /\ Placed'
  BY <1>8 DEF OpenKey, Call
<1>9. ASSUME NEW c \in Caller, DeleteValue(c)
      PROVE TypeOK' /\ Placed'
  <2>1. CASE Put(c, at[c], Missing)
    <3>1. at[c] \in Loc
      BY <1>9 DEF DeleteValue
    <3>2. reg' \in [Loc -> Content]
      BY <2>1, <3>1 DEF Put, Content
    <3>3. alone' \in [Caller -> BOOLEAN]
      BY <2>1 DEF Put
    <3>4. \A l \in Loc : reg'[l] # Missing => l[1] \in keys
      BY <2>1, <3>1 DEF Put
    <3> QED
      BY <1>9, <3>2, <3>3, <3>4 DEF DeleteValue, Call
  <2>2. CASE UNCHANGED <<reg, alone>>
    BY <1>9, <2>2 DEF DeleteValue, Call
  <2> QED
    BY <1>9, <2>1, <2>2 DEF DeleteValue
<1>10. ASSUME NEW c \in Caller, CallFails(c)
       PROVE TypeOK' /\ Placed'
  BY <1>10 DEF CallFails, Call
<1>11. ASSUME NEW l \in Loc, NEW r \in Foreign, OutsideWrites(l, r)
       PROVE TypeOK' /\ Placed'
  BY <1>11, OneMore, ContentAssumption DEF OutsideWrites, ContentAssumption
<1>12. ASSUME NEW k \in Key, OutsideDeletes(k)
       PROVE TypeOK' /\ Placed'
  BY <1>12, OneMore DEF OutsideDeletes, Content
<1>13. CASE UNCHANGED vars
  BY <1>13 DEF vars
<1> QED
  BY <1>1, <1>2, <1>3, <1>4, <1>5, <1>6, <1>7, <1>8, <1>9, <1>10, <1>11, <1>12, <1>13
  DEF Next, Step

-----------------------------------------------------------------------------
(* How the invariant is kept.                                              *)

(* What a caller reports can be written back and reads as it did.          *)
LEMMA PriorIsWritable ==
  ASSUME NEW r \in Raw
  PROVE  /\ Prior(r).kind = "Present" =>
              /\ Prior(r).value = Decode(r) /\ Decode(r) # None
              /\ Encode(Prior(r).value) \in Raw
              /\ Decode(Encode(Prior(r).value)) = Prior(r).value
         /\ Prior(r).kind # "Present" => Decode(r) = None
<1>1. CASE Decode(r) = None
  BY <1>1 DEF Prior, AbsentHere
<1>2. CASE Decode(r) # None
  <2>1. r.data \in Seq(Unit) /\ Encode(Decode(r)) \in Raw
    BY <1>2, ContentAssumption, WritingAssumption DEF ContentAssumption, WritingAssumption
  <2>2. Decode(Encode(Decode(r))) = Decode(r)
    BY <1>2, <2>1, WhatWasReadComesBack
  <2>3. Prior(r) = [kind |-> "Present", value |-> Decode(r)]
    BY <1>2 DEF Prior, Present
  <2> QED
    BY <1>2, <2>1, <2>2, <2>3
<1> QED
  BY <1>1, <1>2

(* Whom a step leaves alone goes on as before.                             *)
LEMMA Bystander ==
  ASSUME NEW d \in Caller, Track(d),
         pc'[d] = pc[d], undoing'[d] = undoing[d], at'[d] = at[d], value'[d] = value[d],
         prior'[d] = prior[d], result'[d] = result[d], found'[d] = found[d],
         alone'[d] => alone[d] /\ reg'[at[d]] = reg[at[d]]
  PROVE  Track(d)'
BY DEF Track, Writable, Course, Before, Known, Reported

(* What a caller does itself.                                              *)
LEMMA OwnTrack ==
  ASSUME NEW c \in Caller, Inv, Placed, Step(c)
  PROVE  Track(c)'
<1> USE DEF Inv, TypeOK, Placed, Track, Writable, Course, Before, Known, Goto, End
<1>1. CASE CheckKey(c)
  BY <1>1 DEF CheckKey, Captured, Reported, KeyAbsent, KeyOf
<1>2. CASE ReadSize(c)
  BY <1>2 DEF ReadSize, Captured, Reported, AbsentHere
<1>3. CASE ReadBytes(c)
  <2>1. CASE reg[at[c]] = Missing
    BY <1>3, <2>1 DEF ReadBytes, Captured, Reported, AbsentHere
  <2>2. CASE reg[at[c]] # Missing /\ Captured(c, Prior(reg[at[c]]))
    <3>1. reg[at[c]] \in Raw
      BY <1>3, <2>2 DEF ReadBytes, Placed, Content
    <3> QED
      BY <1>3, <2>2, <3>1, PriorIsWritable DEF ReadBytes, Captured, Reported
  <2>3. CASE End(c, "grew") /\ UNCHANGED <<prior, size>>
    BY <1>3, <2>3 DEF ReadBytes, Reported
  <2> QED
    BY <1>3, <2>1, <2>2, <2>3 DEF ReadBytes
<1>4. CASE CreateKey(c)
  BY <1>4 DEF CreateKey, Reported
<1>5. CASE SetValue(c)
  BY <1>5 DEF SetValue, Put, Reported, Placed
<1>6. CASE StartRestore(c)
  BY <1>6 DEF StartRestore, Reported
<1>7. CASE OpenKey(c)
  BY <1>7 DEF OpenKey, Reported, KeyOf
<1>8. CASE DeleteValue(c)
  BY <1>8 DEF DeleteValue, Put, Reported, Placed
<1>9. CASE CallFails(c)
  BY <1>9 DEF CallFails, Reported, Call
<1> QED
  BY <1>1, <1>2, <1>3, <1>4, <1>5, <1>6, <1>7, <1>8, <1>9 DEF Step

(* What a caller does to another.                                          *)
LEMMA OthersTrack ==
  ASSUME NEW c \in Caller, NEW d \in Caller \ {c}, TypeOK, Track(d), Placed, Step(c)
  PROVE  Track(d)'
<1>1. /\ pc'[d] = pc[d] /\ undoing'[d] = undoing[d] /\ at'[d] = at[d] /\ value'[d] = value[d]
      /\ prior'[d] = prior[d] /\ result'[d] = result[d] /\ found'[d] = found[d]
  BY DEF TypeOK, Placed, Step, Goto, End, Captured, CheckKey, ReadSize, ReadBytes, CreateKey, SetValue,
         StartRestore, OpenKey, DeleteValue, CallFails
<1>2. ASSUME alone'[d] PROVE alone[d] /\ reg'[at[d]] = reg[at[d]]
  <2>1. CASE UNCHANGED <<reg, alone>>
    BY <1>2, <2>1
  <2>2. ASSUME NEW r, Put(c, at[c], r) PROVE alone[d] /\ reg'[at[d]] = reg[at[d]]
    <3>1. alone[d] /\ at[d] # at[c]
      BY <1>2, <2>2 DEF Put
    <3>2. at[d] \in Loc
      BY <3>1 DEF Track, Course
    <3> QED
      BY <2>2, <3>1, <3>2 DEF Put, TypeOK
  <2> QED
    BY <2>1, <2>2 DEF Step, CheckKey, ReadSize, ReadBytes, CreateKey, SetValue, StartRestore,
       OpenKey, DeleteValue, CallFails
<1> QED
  BY <1>1, <1>2, Bystander

LEMMA InvStep == Inv /\ Placed /\ [Next]_vars => Inv' /\ Placed'
<1> SUFFICES ASSUME Inv, Placed, [Next]_vars PROVE Inv' /\ Placed'
  OBVIOUS
<1>1. TypeOK' /\ Placed'
  BY TypesStep
<1>2. ASSUME NEW d \in Caller PROVE Track(d)'
  <2> Track(d)
    BY DEF Inv
  <2> TypeOK
    BY DEF Inv
  <2>1. ASSUME NEW c \in Caller, Step(c) PROVE Track(d)'
    BY <2>1, OwnTrack, OthersTrack
  <2>2. ASSUME NEW c \in Caller, NEW l \in Loc, NEW v \in Value, StartSet(c, l, v)
        PROVE Track(d)'
    <3>1. CASE d = c
      BY <2>2, <3>1, WritingAssumption
      DEF StartSet, TypeOK, Placed, Goto, Track, Writable, Course, Before, Known, WritingAssumption
    <3>2. CASE d # c
      BY <2>2, <3>2, Bystander DEF StartSet, TypeOK, Placed, Goto
    <3> QED
      BY <3>1, <3>2
  <2>3. ASSUME NEW l \in Loc, NEW r \in Foreign, OutsideWrites(l, r) PROVE Track(d)'
    <3>1. ASSUME alone'[d] PROVE alone[d] /\ reg'[at[d]] = reg[at[d]]
      <4>1. alone[d] /\ at[d] # l
        BY <2>3, <3>1 DEF OutsideWrites
      <4>2. at[d] \in Loc
        BY <4>1 DEF Track, Course
      <4> QED
        BY <2>3, <4>1, <4>2 DEF OutsideWrites, TypeOK
    <3> QED
      BY <2>3, <3>1, Bystander DEF OutsideWrites
  <2>4. ASSUME NEW k \in Key, OutsideDeletes(k) PROVE Track(d)'
    <3>1. ASSUME alone'[d] PROVE alone[d] /\ reg'[at[d]] = reg[at[d]]
      <4>1. alone[d] /\ (at[d] = NoLoc \/ at[d][1] # k)
        BY <2>4, <3>1 DEF OutsideDeletes, KeyOf
      <4>2. at[d] \in Loc /\ at[d] # NoLoc
        BY <4>1 DEF Track, Course, Loc, NoLoc
      <4> QED
        BY <2>4, <4>1, <4>2 DEF OutsideDeletes, TypeOK
    <3> QED
      BY <2>4, <3>1, Bystander DEF OutsideDeletes
  <2>5. CASE UNCHANGED vars
    BY <2>5, Bystander DEF vars
  <2> QED
    BY <2>1, <2>2, <2>3, <2>4, <2>5 DEF Next
<1> QED
  BY <1>1, <1>2 DEF Inv

LEMMA Start == Init => Inv /\ Placed
<1> SUFFICES ASSUME Init PROVE Inv /\ Placed
  OBVIOUS
<1>1. TypeOK
  BY ContentAssumption, OutsideAssumption
  DEF Init, TypeOK, ContentAssumption, OutsideAssumption, Content, Call
<1>2. ASSUME NEW c \in Caller
      PROVE pc[c] = "idle" /\ ~undoing[c] /\ ~alone[c] /\ prior[c].kind = "Absent"
  BY DEF Init, AbsentHere
<1> QED
  BY <1>1, <1>2 DEF Init, Inv, Placed, Track, Writable

THEOREM Tracking == Spec => [](Inv /\ Placed)
  BY Start, InvStep, PTL DEF Spec

-----------------------------------------------------------------------------
(* Every reachable state is well-typed, and no value is without its key.   *)
THEOREM RegistryTypes == Spec => []TypeOK
<1>1. Inv => TypeOK
  BY DEF Inv
<1> QED
  BY <1>1, Tracking, PTL

(* Where nobody else has interfered, a failed set has changed nothing, and *)
(* a restore that succeeds has the location read as it did before.         *)
THEOREM RegistryComesBack == Spec => []RegistryIsPutBack
<1>1. Inv => RegistryIsPutBack
  <2> SUFFICES ASSUME Inv, NEW c \in Caller, pc[c] = "done", alone[c]
               PROVE  /\ ~undoing[c] => reg[at[c]] = found[c]
                      /\ undoing[c] /\ result[c] = "ok" =>
                           /\ ReadsAs(reg[at[c]]) = ReadsAs(found[c])
                           /\ Faithful(found[c]) => reg[at[c]] = found[c]
    BY DEF RegistryIsPutBack
  <2>1. Course(c) /\ Writable(c)
    BY DEF Inv, Track
  <2>2. CASE ~undoing[c]
    BY <2>1, <2>2 DEF Course, Before
  <2>3. CASE undoing[c] /\ result[c] = "ok"
    <3>1. Reported(c)
      BY <2>1, <2>3 DEF Course, Known
    <3>2. CASE prior[c].kind = "Present"
      <4>1. reg[at[c]] = Encode(prior[c].value) /\ Encode(prior[c].value) \in Raw
            /\ Decode(Encode(prior[c].value)) = prior[c].value
        BY <2>1, <2>3, <3>2 DEF Course, Writable
      <4>2. prior[c].value = Decode(found[c]) /\ found[c] # Missing
        BY <3>1, <3>2 DEF Reported
      <4> QED
        BY <2>3, <4>1, <4>2, ContentAssumption DEF ReadsAs, Faithful, ContentAssumption
    <3>3. CASE prior[c].kind # "Present"
      <4>1. reg[at[c]] = Missing /\ (found[c] = Missing \/ Decode(found[c]) = None)
        BY <2>1, <2>3, <3>1, <3>3 DEF Course, Reported
      <4> QED
        BY <2>3, <4>1 DEF ReadsAs, Faithful
    <3> QED
      BY <3>2, <3>3
  <2> QED
    BY <2>2, <2>3
<1> QED
  BY <1>1, Tracking, PTL

(* What a caller has set stays, whatever others restore under its key.     *)
THEOREM OthersSettings == Spec => []OthersSettingsSurvive
<1>1. Inv => OthersSettingsSurvive
  BY DEF Inv, Track, Course, OthersSettingsSurvive
<1> QED
  BY <1>1, Tracking, PTL
=============================================================================
