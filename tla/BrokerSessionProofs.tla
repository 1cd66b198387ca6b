------------------------- MODULE BrokerSessionProofs -------------------------
(***************************************************************************)
(* Proofs about BrokerSession, for any number of requests, any length of   *)
(* the pipe and any number of progress updates: its types, that progress   *)
(* precedes the answer, that sinks are released and nobody is forgotten,   *)
(* and that every step is one that PrivilegedCall allows.                  *)
(***************************************************************************)
EXTENDS BrokerSession, FiniteSetTheorems, TLAPS

(* The frames about a request: its Ask on the way to the helper, and its   *)
(* progress and its answer on the way to the UI.                           *)
AskIn(pipe, r)   == \E i \in 1 .. Len(pipe) : pipe[i] = Ask(r)
AskOnce(pipe, r) ==
  \A i, j \in 1 .. Len(pipe) : pipe[i] = Ask(r) /\ pipe[j] = Ask(r) => i = j

Answers(f, r) == f.kind = "response" /\ f.id = r
Reports(f, r) == f = Progress(r)
HasAnswer(pipe, r) == \E i \in 1 .. Len(pipe) : Answers(pipe[i], r)
AnswersAre(pipe, r, e) == \A i \in 1 .. Len(pipe) : Answers(pipe[i], r) => pipe[i].result = e

(* Nothing about a request follows its answer.                             *)
Ordered(pipe, r) ==
  \A i, j \in 1 .. Len(pipe) :
    Answers(pipe[i], r) /\ (Answers(pipe[j], r) \/ Reports(pipe[j], r)) => j <= i

(* How many progress updates are on their way.                             *)
Carried(pipe, r) == Cardinality({i \in 1 .. Len(pipe) : Reports(pipe[i], r)})

-----------------------------------------------------------------------------
(* The invariant.                                                          *)

Unsent(r) == caller[r] \in {"idle", "registered", "sending", "withdrawing"}
Settling(r) == settling # << >> /\ Head(settling).id = r

(* A request is in one place at a time: unsent, on its way, carried out by *)
(* a task, or answered, with the answer on its way or in hand.             *)
OnePlace(r) ==
  /\ AskOnce(toHelper, r)
  /\ AskIn(toHelper, r) \/ Unsent(r) => task[r] = "none" /\ effect[r] = "none" /\ said[r] = 0
  /\ AskIn(toHelper, r) => ~Unsent(r)
  /\ task[r] = "running" => effect[r] = "none"
  /\ task[r] \in {"forwarding", "replying"} => effect[r] # "none" /\ helper = "serving"
  /\ HasAnswer(toUi, r) \/ Settling(r) => task[r] = "none" /\ effect[r] # "none"
  /\ AnswersAre(toUi, r, effect[r])
  /\ Settling(r) => Head(settling).result = effect[r]
  /\ Ordered(toUi, r)

(* What its caller has been told, and who still has to be.                 *)
Oneshot(r) ==
  /\ caller[r] = "idle" => answer[r] = "none"
  /\ r \in pending <=> /\ caller[r] \in {"registered", "sending", "waiting"}
                       /\ answer[r] = "none"
  /\ caller[r] \in {"returned", "finished"} => answer[r] # "none"
  /\ Unsent(r) => answer[r] \in {"none", "lost"} /\ (reader = "reading" => answer[r] = "none")
  /\ answer[r] = "ok" => effect[r] = "done"
  /\ answer[r] = "failed" => effect[r] = "refused"

(* Its sink is kept as long as there may be progress to hear.              *)
Sink(r) ==
  /\ reader = "reading" /\ answer[r] # "none" => r \notin sinks
  /\ Settling(r) => r \notin sinks
  /\ caller[r] = "sending" => r \in sinks
  /\ reader = "reading" /\ (AskIn(toHelper, r) \/ HasAnswer(toUi, r)) => r \in sinks
  /\ reader = "reading" /\ helper = "serving" /\ task[r] # "none" => r \in sinks

(* What has been heard, what is on its way and what is still to be sent.   *)
Count(r) ==
  /\ heard[r] + Carried(toUi, r) <= forwarded[r]
  /\ forwarded[r] <= said[r]
  /\ r \notin Streaming => said[r] = 0
  /\ task[r] = "replying" => forwarded[r] = said[r]
  /\ reader = "reading" /\ helper = "serving" /\ task[r] # "none" =>
       heard[r] + Carried(toUi, r) = forwarded[r]
  /\ reader = "reading" /\ HasAnswer(toUi, r) => heard[r] + Carried(toUi, r) = said[r]
  /\ Settling(r) => heard[r] = said[r]
  /\ answer[r] \in {"ok", "failed"} => heard[r] = said[r]

Track(r) == OnePlace(r) /\ Oneshot(r) /\ Sink(r) /\ Count(r)

(* The two ends.                                                           *)
Ends ==
  /\ Len(settling) <= 1
  /\ ui # "open" => reader = "off"
  /\ ui = "greeting" => \A r \in Request : caller[r] = "idle"
  /\ helper \in {"starting", "greeted"} => \A r \in Request : task[r] = "none"

Inv == TypeOK /\ Ends /\ \A r \in Request : Track(r)

-----------------------------------------------------------------------------
(* What the moves of a pipe do to its frames: taking the first one,        *)
(* sending another one, and losing the last ones.                          *)
LEMMA TailFacts ==
  ASSUME NEW S, NEW p \in Seq(S), p # << >>
  PROVE  /\ Tail(p) \in Seq(S) /\ Head(p) \in S /\ Head(p) = p[1]
         /\ Len(p) \in Nat /\ Len(p) >= 1 /\ Len(Tail(p)) = Len(p) - 1
         /\ \A i \in 1 .. Len(Tail(p)) : Tail(p)[i] = p[i + 1] /\ i + 1 \in 1 .. Len(p)
OBVIOUS

LEMMA AppendFacts ==
  ASSUME NEW S, NEW p \in Seq(S), NEW f \in S
  PROVE  /\ Append(p, f) \in Seq(S)
         /\ Len(p) \in Nat /\ Len(Append(p, f)) = Len(p) + 1
         /\ Append(p, f)[Len(p) + 1] = f
         /\ \A i \in 1 .. Len(p) : Append(p, f)[i] = p[i]
OBVIOUS

LEMMA CutFacts ==
  ASSUME NEW S, NEW p \in Seq(S), NEW q \in Truncated(p)
  PROVE  /\ q \in Seq(S) /\ Len(p) \in Nat /\ Len(q) \in Nat /\ Len(q) <= Len(p)
         /\ \A i \in 1 .. Len(q) : q[i] = p[i]
<1>1. PICK n \in 0 .. Len(p) : q = SubSeq(p, 1, n)
  BY DEF Truncated
<1> QED
  BY <1>1

LEMMA CountType ==
  ASSUME NEW S, NEW p \in Seq(S), NEW r
  PROVE  /\ Carried(p, r) \in Nat
         /\ IsFiniteSet({i \in 1 .. Len(p) : Reports(p[i], r)})
<1>1. Len(p) \in Nat
  OBVIOUS
<1>2. IsFiniteSet(1 .. Len(p))
  BY <1>1, FS_Interval
<1>3. {i \in 1 .. Len(p) : Reports(p[i], r)} \in SUBSET (1 .. Len(p))
  OBVIOUS
<1>4. IsFiniteSet({i \in 1 .. Len(p) : Reports(p[i], r)})
  BY <1>2, <1>3, FS_Subset
<1> QED
  BY <1>4, FS_CardinalityType DEF Carried

(* Taking the first frame.                                                 *)
LEMMA TailAsk ==
  ASSUME NEW S, NEW p \in Seq(S), p # << >>, NEW r
  PROVE  /\ AskIn(Tail(p), r) => AskIn(p, r)
         /\ AskOnce(p, r) => AskOnce(Tail(p), r)
         /\ Head(p) = Ask(r) => AskIn(p, r)
         /\ AskOnce(p, r) /\ Head(p) = Ask(r) => ~AskIn(Tail(p), r)
BY TailFacts DEF AskIn, AskOnce

LEMMA TailAnswer ==
  ASSUME NEW S, NEW p \in Seq(S), p # << >>, NEW r, NEW e
  PROVE  /\ HasAnswer(Tail(p), r) => HasAnswer(p, r)
         /\ AnswersAre(p, r, e) => AnswersAre(Tail(p), r, e)
         /\ Ordered(p, r) => Ordered(Tail(p), r)
         /\ Answers(Head(p), r) => HasAnswer(p, r)
         /\ Answers(Head(p), r) /\ AnswersAre(p, r, e) => Head(p).result = e
         /\ Answers(Head(p), r) /\ Ordered(p, r) => ~HasAnswer(Tail(p), r)
<1>1. HasAnswer(Tail(p), r) => HasAnswer(p, r)
  BY TailFacts DEF HasAnswer
<1>2. AnswersAre(p, r, e) => AnswersAre(Tail(p), r, e)
  BY TailFacts DEF AnswersAre
<1>3. Ordered(p, r) => Ordered(Tail(p), r)
  <2> SUFFICES ASSUME Ordered(p, r), NEW i \in 1 .. Len(Tail(p)), NEW j \in 1 .. Len(Tail(p)),
                      Answers(Tail(p)[i], r), Answers(Tail(p)[j], r) \/ Reports(Tail(p)[j], r)
               PROVE  j <= i
    BY DEF Ordered
  <2>1. /\ Tail(p)[i] = p[i + 1] /\ i + 1 \in 1 .. Len(p)
        /\ Tail(p)[j] = p[j + 1] /\ j + 1 \in 1 .. Len(p)
    BY TailFacts
  <2>2. j + 1 <= i + 1
    BY <2>1 DEF Ordered
  <2> QED
    BY <2>2
<1>4. Answers(Head(p), r) => HasAnswer(p, r)
  BY TailFacts DEF HasAnswer
<1>5. Answers(Head(p), r) /\ AnswersAre(p, r, e) => Head(p).result = e
  BY TailFacts DEF AnswersAre
<1>6. ASSUME Answers(Head(p), r), Ordered(p, r), NEW i \in 1 .. Len(Tail(p)),
             Answers(Tail(p)[i], r)
      PROVE  FALSE
  <2>1. i + 1 \in 1 .. Len(p) /\ 1 \in 1 .. Len(p) /\ Answers(p[1], r) /\ Answers(p[i + 1], r)
    BY <1>6, TailFacts
  <2>2. i + 1 <= 1
    BY <1>6, <2>1 DEF Ordered
  <2> QED
    BY <2>2
<1> QED
  BY <1>1, <1>2, <1>3, <1>4, <1>5, <1>6 DEF HasAnswer

LEMMA TailCount ==
  ASSUME NEW S, NEW p \in Seq(S), p # << >>, NEW r
  PROVE  /\ Carried(p, r) = Carried(Tail(p), r) + (IF Reports(Head(p), r) THEN 1 ELSE 0)
         /\ Carried(Tail(p), r) \in Nat
<1> DEFINE A == {i \in 1 .. Len(Tail(p)) : Reports(Tail(p)[i], r)}
           B == {i \in 1 .. Len(p) : Reports(p[i], r)}
           f == [i \in A |-> i + 1]
<1>1. IsFiniteSet(A) /\ IsFiniteSet(B)
  <2>1. Tail(p) \in Seq(S)
    BY TailFacts
  <2>2. IsFiniteSet(A)
    BY <2>1, CountType
  <2>3. IsFiniteSet(B)
    BY CountType
  <2> QED
    BY <2>2, <2>3
<1>2. f \in Bijection(A, B \ {1})
  <2>1. f \in [A -> B \ {1}]
    BY TailFacts
  <2>2. \A i, j \in A : f[i] = f[j] => i = j
    OBVIOUS
  <2>3. \A k \in B \ {1} : k - 1 \in A /\ f[k - 1] = k
    BY TailFacts
  <2> HIDE DEF A, B, f
  <2>4. f \in Injection(A, B \ {1})
    BY <2>1, <2>2 DEF Injection, IsInjective
  <2>5. f \in Surjection(A, B \ {1})
    BY <2>1, <2>3 DEF Surjection
  <2> QED
    BY <2>4, <2>5, SMTT(20) DEF Bijection
<1>3. Cardinality(A) = Cardinality(B \ {1})
  BY <1>1, <1>2, FS_Bijection DEF ExistsBijection
<1>4. Cardinality(B \ {1}) = IF 1 \in B THEN Cardinality(B) - 1 ELSE Cardinality(B)
  BY <1>1, FS_RemoveElement
<1>5. 1 \in B <=> Reports(Head(p), r)
  BY TailFacts
<1>6. Cardinality(B) \in Nat /\ Cardinality(A) \in Nat
  BY <1>1, FS_CardinalityType
<1>7. Carried(p, r) = Cardinality(B) /\ Carried(Tail(p), r) = Cardinality(A)
  BY DEF Carried
<1> HIDE DEF A, B
<1> QED
  BY <1>3, <1>4, <1>5, <1>6, <1>7

(* Nothing is on its way behind an answer that comes first.                *)
LEMMA NoneBehind ==
  ASSUME NEW S, NEW p \in Seq(S), p # << >>, NEW r, Answers(Head(p), r), Ordered(p, r)
  PROVE  Carried(p, r) = 0
<1>1. ASSUME NEW i \in 1 .. Len(p), Reports(p[i], r) PROVE FALSE
  <2>1. i <= 1
    BY <1>1, TailFacts DEF Ordered
  <2>2. i = 1
    BY <2>1
  <2> QED
    BY <1>1, <2>2, TailFacts DEF Answers, Reports, Progress
<1>2. {i \in 1 .. Len(p) : Reports(p[i], r)} = {}
  BY <1>1
<1> QED
  BY <1>2, FS_EmptySet DEF Carried

(* Sending a frame.                                                        *)
LEMMA AppendAsk ==
  ASSUME NEW S, NEW p \in Seq(S), NEW f \in S, NEW r
  PROVE  /\ AskIn(Append(p, f), r) <=> AskIn(p, r) \/ f = Ask(r)
         /\ AskOnce(p, r) /\ (f = Ask(r) => ~AskIn(p, r)) => AskOnce(Append(p, f), r)
<1>1. AskIn(Append(p, f), r) <=> AskIn(p, r) \/ f = Ask(r)
  <2>1. Len(p) + 1 \in 1 .. Len(Append(p, f))
    BY AppendFacts
  <2>2. \A i \in 1 .. Len(Append(p, f)) : i \in 1 .. Len(p) \/ i = Len(p) + 1
    BY AppendFacts
  <2>3. 1 .. Len(p) \subseteq 1 .. Len(Append(p, f))
    BY AppendFacts
  <2> QED
    BY <2>1, <2>2, <2>3, AppendFacts DEF AskIn
<1>2. ASSUME AskOnce(p, r), f = Ask(r) => ~AskIn(p, r) PROVE AskOnce(Append(p, f), r)
  BY <1>2, AppendFacts DEF AskOnce, AskIn
<1> QED
  BY <1>1, <1>2

LEMMA AppendAnswer ==
  ASSUME NEW S, NEW p \in Seq(S), NEW f \in S, NEW r, NEW e
  PROVE  /\ HasAnswer(Append(p, f), r) <=> HasAnswer(p, r) \/ Answers(f, r)
         /\ AnswersAre(p, r, e) /\ (Answers(f, r) => f.result = e)
              => AnswersAre(Append(p, f), r, e)
         /\ Ordered(p, r) /\ (Answers(f, r) \/ Reports(f, r) => ~HasAnswer(p, r))
              => Ordered(Append(p, f), r)
<1>0. /\ Len(p) + 1 \in 1 .. Len(Append(p, f))
      /\ \A i \in 1 .. Len(Append(p, f)) : i \in 1 .. Len(p) \/ i = Len(p) + 1
      /\ \A i \in 1 .. Len(p) : i \in 1 .. Len(Append(p, f)) /\ i <= Len(p) + 1
  BY AppendFacts
<1>1. HasAnswer(Append(p, f), r) <=> HasAnswer(p, r) \/ Answers(f, r)
  BY <1>0, AppendFacts DEF HasAnswer
<1>2. ASSUME AnswersAre(p, r, e), Answers(f, r) => f.result = e
      PROVE  AnswersAre(Append(p, f), r, e)
  BY <1>0, <1>2, AppendFacts DEF AnswersAre
<1>3. ASSUME Ordered(p, r), Answers(f, r) \/ Reports(f, r) => ~HasAnswer(p, r)
      PROVE  Ordered(Append(p, f), r)
  <2> DEFINE q == Append(p, f)
  <2> SUFFICES ASSUME NEW i \in 1 .. Len(q), NEW j \in 1 .. Len(q), Answers(q[i], r),
                      Answers(q[j], r) \/ Reports(q[j], r)
               PROVE  j <= i
    BY DEF Ordered
  <2>1. CASE i = Len(p) + 1
    BY <2>1, AppendFacts
  <2>2. CASE i \in 1 .. Len(p) /\ j \in 1 .. Len(p)
    BY <1>3, <2>2, AppendFacts DEF Ordered
  <2>3. CASE i \in 1 .. Len(p) /\ j = Len(p) + 1
    <3>1. HasAnswer(p, r) /\ q[j] = f
      BY <2>3, AppendFacts DEF HasAnswer
    <3> QED
      BY <1>3, <3>1
  <2> QED
    BY <1>0, <2>1, <2>2, <2>3
<1> QED
  BY <1>1, <1>2, <1>3

LEMMA AppendCount ==
  ASSUME NEW S, NEW p \in Seq(S), NEW f \in S, NEW r
  PROVE  Carried(Append(p, f), r) = Carried(p, r) + (IF Reports(f, r) THEN 1 ELSE 0)
<1> DEFINE A == {i \in 1 .. Len(p) : Reports(p[i], r)}
           B == {i \in 1 .. Len(Append(p, f)) : Reports(Append(p, f)[i], r)}
<1>1. B = IF Reports(f, r) THEN A \cup {Len(p) + 1} ELSE A
  <2>1. \A i \in 1 .. Len(Append(p, f)) : i \in 1 .. Len(p) \/ i = Len(p) + 1
    BY AppendFacts
  <2>2. Len(p) + 1 \in 1 .. Len(Append(p, f)) /\ 1 .. Len(p) \subseteq 1 .. Len(Append(p, f))
    BY AppendFacts
  <2> QED
    BY <2>1, <2>2, AppendFacts
<1>2. IsFiniteSet(A)
  BY CountType
<1>5. Len(p) + 1 \notin A
  BY AppendFacts
<1>3. Cardinality(A \cup {Len(p) + 1}) = Cardinality(A) + 1
  BY <1>2, <1>5, FS_AddElement
<1>4. Carried(p, r) = Cardinality(A) /\ Carried(Append(p, f), r) = Cardinality(B)
  BY DEF Carried
<1>6. Cardinality(A) \in Nat
  BY <1>2, FS_CardinalityType
<1> HIDE DEF A, B
<1> QED
  BY <1>1, <1>3, <1>4, <1>6, SMTT(20)

(* Losing the last frames.                                                 *)
LEMMA CutAsk ==
  ASSUME NEW S, NEW p \in Seq(S), NEW q \in Truncated(p), NEW r
  PROVE  /\ AskIn(q, r) => AskIn(p, r)
         /\ AskOnce(p, r) => AskOnce(q, r)
BY CutFacts DEF AskIn, AskOnce

LEMMA CutAnswer ==
  ASSUME NEW S, NEW p \in Seq(S), NEW q \in Truncated(p), NEW r, NEW e
  PROVE  /\ HasAnswer(q, r) => HasAnswer(p, r)
         /\ AnswersAre(p, r, e) => AnswersAre(q, r, e)
         /\ Ordered(p, r) => Ordered(q, r)
         /\ Carried(q, r) <= Carried(p, r)
         /\ HasAnswer(q, r) /\ Ordered(p, r) => Carried(q, r) = Carried(p, r)
<1> DEFINE A == {i \in 1 .. Len(q) : Reports(q[i], r)}
           B == {i \in 1 .. Len(p) : Reports(p[i], r)}
<1>1. /\ HasAnswer(q, r) => HasAnswer(p, r)
      /\ AnswersAre(p, r, e) => AnswersAre(q, r, e)
      /\ Ordered(p, r) => Ordered(q, r)
  <2>1. \A i \in 1 .. Len(q) : i \in 1 .. Len(p) /\ q[i] = p[i]
    BY CutFacts
  <2>2. HasAnswer(q, r) => HasAnswer(p, r)
    BY <2>1 DEF HasAnswer
  <2>3. AnswersAre(p, r, e) => AnswersAre(q, r, e)
    BY <2>1 DEF AnswersAre
  <2>4. Ordered(p, r) => Ordered(q, r)
    BY <2>1 DEF Ordered
  <2> QED
    BY <2>2, <2>3, <2>4
<1>2. A \in SUBSET B
  BY CutFacts
<1>3. Carried(q, r) <= Carried(p, r)
  <2>1. IsFiniteSet(B)
    BY CountType
  <2>2. Cardinality(A) <= Cardinality(B)
    BY <1>2, <2>1, FS_Subset
  <2> QED
    BY <2>2 DEF Carried
<1>4. ASSUME HasAnswer(q, r), Ordered(p, r) PROVE B \subseteq A
  <2>1. PICK i \in 1 .. Len(q) : Answers(q[i], r)
    BY <1>4 DEF HasAnswer
  <2>2. \A j \in B : j <= i
    BY <1>4, <2>1, CutFacts DEF Ordered
  <2> QED
    BY <2>1, <2>2, CutFacts
<1>5. HasAnswer(q, r) /\ Ordered(p, r) => A = B
  BY <1>2, <1>4
<1> QED
  BY <1>1, <1>3, <1>5 DEF Carried

LEMMA EmptyPipe ==
  ASSUME NEW r
  PROVE  /\ ~AskIn(<< >>, r) /\ AskOnce(<< >>, r) /\ ~HasAnswer(<< >>, r)
         /\ Ordered(<< >>, r) /\ Carried(<< >>, r) = 0
         /\ \A e : AnswersAre(<< >>, r, e)
<1>1. {i \in 1 .. Len(<< >>) : Reports(<< >>[i], r)} = {}
  OBVIOUS
<1> QED
  BY <1>1, FS_EmptySet DEF AskIn, AskOnce, HasAnswer, Ordered, AnswersAre, Carried

-----------------------------------------------------------------------------
(* Types, and the two ends.                                                *)
LEMMA ServerFrames ==
  /\ \A f \in ServerFrame : f.kind = "request" => f.id \in Request /\ f = Ask(f.id)
  /\ Accept \in ServerFrame /\ Reject \in ServerFrame /\ Shutdown \in ServerFrame
  /\ \A r \in Request : Ask(r) \in ServerFrame
  /\ \A q, r \in Request : Ask(q) = Ask(r) => q = r
  /\ \A r \in Request : Accept # Ask(r) /\ Reject # Ask(r) /\ Shutdown # Ask(r)
<1>1. ASSUME NEW f \in ServerFrame, f.kind = "request" PROVE f.id \in Request /\ f = Ask(f.id)
  <2>1. PICK r \in Request : f = Ask(r)
    BY <1>1 DEF ServerFrame, Accept, Reject, Shutdown
  <2> QED
    BY <2>1 DEF Ask
<1>2. \A q, r \in Request : Ask(q) = Ask(r) => q = r
  <2> SUFFICES ASSUME NEW q \in Request, NEW r \in Request, Ask(q) = Ask(r) PROVE q = r
    OBVIOUS
  <2>1. Ask(q).id = q /\ Ask(r).id = r
    BY DEF Ask
  <2> QED
    BY <2>1
<1>3. \A r \in Request : Accept # Ask(r) /\ Reject # Ask(r) /\ Shutdown # Ask(r)
  <2>1. /\ Accept.kind = "accept" /\ Reject.kind = "reject" /\ Shutdown.kind = "shutdown"
        /\ \A r \in Request : Ask(r).kind = "request"
    BY DEF Accept, Reject, Shutdown, Ask
  <2> QED
    BY <2>1
<1>4. /\ Accept \in ServerFrame /\ Reject \in ServerFrame /\ Shutdown \in ServerFrame
      /\ \A r \in Request : Ask(r) \in ServerFrame
  BY DEF ServerFrame
<1> QED
  BY <1>1, <1>2, <1>3, <1>4

LEMMA ClientFrames ==
  /\ \A f \in ClientFrame : f.kind = "progress" => f.id \in Request /\ f = Progress(f.id)
  /\ \A f \in ClientFrame : f.kind = "response" =>
       f.id \in Request /\ f.result \in {"done", "refused"} /\ f = Response(f.id, f.result)
  /\ \A g \in BOOLEAN : Hello(g) \in ClientFrame
  /\ \A r \in Request : Progress(r) \in ClientFrame
  /\ \A r \in Request, e \in {"done", "refused"} : Response(r, e) \in ClientFrame
  /\ Oversized \in ClientFrame
<1>1. ASSUME NEW f \in ClientFrame, f.kind = "progress"
      PROVE  f.id \in Request /\ f = Progress(f.id)
  <2>1. PICK r \in Request : f = Progress(r)
    BY <1>1 DEF ClientFrame, Hello, Response, Oversized
  <2> QED
    BY <2>1 DEF Progress
<1>2. ASSUME NEW f \in ClientFrame, f.kind = "response"
      PROVE  f.id \in Request /\ f.result \in {"done", "refused"} /\ f = Response(f.id, f.result)
  <2>1. PICK r \in Request, e \in {"done", "refused"} : f = Response(r, e)
    BY <1>2 DEF ClientFrame, Hello, Progress, Oversized
  <2> QED
    BY <2>1 DEF Response
<1>3. /\ \A g \in BOOLEAN : Hello(g) \in ClientFrame
      /\ \A r \in Request : Progress(r) \in ClientFrame
      /\ \A r \in Request, e \in {"done", "refused"} : Response(r, e) \in ClientFrame
      /\ Oversized \in ClientFrame
  BY DEF ClientFrame
<1> QED
  BY <1>1, <1>2, <1>3

LEMMA FramesAbout ==
  ASSUME NEW r \in Request
  PROVE  /\ \A g \in BOOLEAN : ~Answers(Hello(g), r) /\ ~Reports(Hello(g), r)
         /\ ~Answers(Oversized, r) /\ ~Reports(Oversized, r)
         /\ \A q \in Request : ~Answers(Progress(q), r) /\ (Reports(Progress(q), r) <=> q = r)
         /\ \A q \in Request, e \in {"done", "refused"} :
              /\ Answers(Response(q, e), r) <=> q = r
              /\ ~Reports(Response(q, e), r)
              /\ Response(q, e).result = e
BY DEF Answers, Reports, Hello, Oversized, Progress, Response

(* The pipes stay queues of frames.                                        *)
LEMMA PipesStep ==
  ASSUME TypeOK, \A r \in Request : OnePlace(r), [Next]_vars
  PROVE  toHelper' \in Seq(ServerFrame) /\ toUi' \in Seq(ClientFrame)
<1> USE ServerFrames, ClientFrames
<1>0. /\ toHelper \in Seq(ServerFrame) /\ toUi \in Seq(ClientFrame)
      /\ \A r \in Request : effect[r] \in {"none", "done", "refused"}
  BY DEF TypeOK
<1>1. ASSUME NEW f \in ClientFrame, SendToUi(f) PROVE toUi' \in Seq(ClientFrame)
  <2>1. toUi' = toUi \/ toUi' = Append(toUi, f)
    BY <1>1 DEF SendToUi
  <2> QED
    BY <1>0, <1>1, <2>1, AppendFacts
<1>2. CASE ReadHello
  <2>1. toUi' \in Seq(ClientFrame)
    BY <1>0, <1>2, TailFacts DEF ReadHello, FrontIs
  <2>2. Append(toHelper, Accept) \in Seq(ServerFrame) /\ Append(toHelper, Reject) \in Seq(ServerFrame)
    BY <1>0, AppendFacts
  <2>3. toHelper' = Append(toHelper, Accept) \/ toHelper' \in Truncated(Append(toHelper, Reject))
    BY <1>2 DEF ReadHello
  <2> QED
    BY <2>1, <2>2, <2>3, CutFacts
<1>3. CASE NoHello \/ UiExits
  <2>1. toUi' = << >> /\ (toHelper' = toHelper \/ toHelper' \in Truncated(toHelper))
    BY <1>3 DEF NoHello, UiExits
  <2> QED
    BY <1>0, <2>1, CutFacts
<1>4. CASE ReaderStep
  <2>1. toHelper' = toHelper /\ (toUi' = toUi \/ (toUi # << >> /\ toUi' = Tail(toUi)))
    BY <1>4 DEF ReaderStep, ReadProgress, ReadResponse, Settle, StopReading, Drain, FrontIs
  <2> QED
    BY <1>0, <2>1, TailFacts
<1>5. CASE SayHello
  <2>1. \E good \in BOOLEAN : toHelper' = toHelper /\ toUi' = Append(toUi, Hello(good))
    BY <1>5, BoundsAssumption DEF SayHello, BoundsAssumption
  <2> QED
    BY <1>0, <2>1, AppendFacts
<1>6. CASE BeginServing \/ ReadRequest
  <2>1. toUi' = toUi /\ toHelper # << >> /\ toHelper' = Tail(toHelper)
    BY <1>6 DEF BeginServing, ReadRequest, FrontIs
  <2> QED
    BY <1>0, <2>1, TailFacts
<1>7. CASE StopServing \/ HelperDies
  <2>1. toHelper' = << >> /\ toUi' \in Truncated(toUi)
    BY <1>7 DEF StopServing, HelperDies, Leave
  <2> QED
    BY <1>0, <2>1, CutFacts
<1>8. CASE Gone
  BY <1>0, <1>8 DEF Gone
<1>9. CASE AskToLeave
  <2>1. toUi' = toUi /\ toHelper' = Append(toHelper, Shutdown)
    BY <1>9 DEF AskToLeave
  <2> QED
    BY <1>0, <2>1, AppendFacts
<1>10. ASSUME NEW r \in Request, Register(r) \/ CallerStep(r)
       PROVE  toHelper' \in Seq(ServerFrame) /\ toUi' \in Seq(ClientFrame)
  <2>1. toUi' = toUi /\ (toHelper' = toHelper \/ toHelper' = Append(toHelper, Ask(r)))
    BY <1>10 DEF Register, CallerStep, KeepSink, Send, SendFails, Withdraw, Return, Finish
  <2> QED
    BY <1>0, <2>1, AppendFacts
<1>11. ASSUME NEW r \in Request, TaskStep(r) \/ MakeProgress(r)
       PROVE  toHelper' \in Seq(ServerFrame) /\ toUi' \in Seq(ClientFrame)
  <2>1. CASE Reply(r)
    <3>1. effect[r] \in {"done", "refused"}
      BY <1>0, <2>1 DEF Reply, OnePlace
    <3> QED
      BY <1>0, <1>1, <2>1, <3>1 DEF Reply
  <2>2. CASE Forward(r)
    BY <1>0, <1>1, <2>2 DEF Forward
  <2>3. CASE MakeProgress(r) \/ Perform(r) \/ ForwarderEnds(r)
    BY <1>0, <2>3 DEF MakeProgress, Perform, ForwarderEnds
  <2> QED
    BY <1>11, <2>1, <2>2, <2>3 DEF TaskStep
<1>12. CASE UNCHANGED vars
  BY <1>0, <1>12 DEF vars
<1> QED
  BY <1>2, <1>3, <1>4, <1>5, <1>6, <1>7, <1>8, <1>9, <1>10, <1>11, <1>12 DEF Next, HelperStep

LEMMA ResponseFrames ==
  ASSUME NEW f \in ClientFrame, f.kind = "response"
  PROVE  f \in {Response(r, e) : r \in Request, e \in {"done", "refused"}}
<1>1. PICK r \in Request, e \in {"done", "refused"} : f = Response(r, e)
  BY DEF ClientFrame, Hello, Progress, Oversized
<1> QED
  BY <1>1

(* A progress update that is heard is one of those that were made.         *)
LEMMA HeardWasSaid ==
  ASSUME Inv, ReadProgress, NEW r \in Request, Head(toUi).id = r
  PROVE  heard[r] + 1 \in 0 .. MaxUpdates /\ heard[r] + 1 + Carried(toUi', r) <= forwarded[r]
<1>1. toUi \in Seq(ClientFrame) /\ toUi # << >> /\ toUi' = Tail(toUi)
  BY DEF Inv, TypeOK, ReadProgress, FrontIs
<1>2. Reports(Head(toUi), r)
  BY <1>1, TailFacts, ClientFrames DEF ReadProgress, FrontIs, Reports
<1>3. Carried(toUi, r) = Carried(toUi', r) + 1 /\ Carried(toUi', r) \in Nat
  BY <1>1, <1>2, TailFacts, TailCount, CountType
<1>4. /\ heard[r] \in 0 .. MaxUpdates /\ forwarded[r] \in 0 .. MaxUpdates
      /\ heard[r] + Carried(toUi, r) <= forwarded[r]
  BY DEF Inv, TypeOK, Track, Count
<1> QED
  BY <1>3, <1>4, BoundsAssumption DEF BoundsAssumption

LEMMA OneMoreUpdate ==
  ASSUME NEW m \in 0 .. MaxUpdates, NEW n \in 0 .. MaxUpdates, m < n \/ m < MaxUpdates
  PROVE  m + 1 \in 0 .. MaxUpdates
BY BoundsAssumption DEF BoundsAssumption

LEMMA CallerTypes ==
  ASSUME TypeOK, NEW r \in Request, Register(r) \/ CallerStep(r)
  PROVE  caller' \in [Request -> CallerState] /\ answer' \in [Request -> {"none", "ok", "failed", "lost"}]
<1>1. caller \in [Request -> CallerState] /\ answer \in [Request -> {"none", "ok", "failed", "lost"}]
  BY DEF TypeOK
<1>2. \E label \in CallerState : Goto(r, label)
  BY DEF Register, CallerStep, KeepSink, Send, SendFails, Withdraw, Return, Finish, CallerState
<1>3. answer' = answer \/ answer' = [answer EXCEPT ![r] = "lost"]
  BY DEF Register, CallerStep, KeepSink, Send, SendFails, Withdraw, Return, Finish
<1> QED
  BY <1>1, <1>2, <1>3 DEF Goto

LEMMA TaskTypes ==
  ASSUME TypeOK, NEW r \in Request, Perform(r) \/ ForwarderEnds(r) \/ Reply(r)
  PROVE  /\ task' \in [Request -> {"none", "running", "forwarding", "replying"}]
         /\ effect' \in [Request -> {"none", "done", "refused"}]
<1>1. /\ task \in [Request -> {"none", "running", "forwarding", "replying"}]
      /\ effect \in [Request -> {"none", "done", "refused"}]
  BY DEF TypeOK
<1>2. \E label \in {"none", "forwarding", "replying"} : EndsIn(r, label)
  BY DEF Perform, ForwarderEnds, Reply
<1>3. effect' = effect \/ \E e \in {"done", "refused"} : effect' = [effect EXCEPT ![r] = e]
  BY DEF Perform, ForwarderEnds, Reply
<1> QED
  BY <1>1, <1>2, <1>3 DEF EndsIn

LEMMA TypesStep ==
  ASSUME Inv, [Next]_vars
  PROVE  TypeOK' /\ Ends'
<1>0. toHelper' \in Seq(ServerFrame) /\ toUi' \in Seq(ClientFrame)
  BY PipesStep DEF Inv, Track
<1>a. TypeOK /\ Ends /\ \A r \in Request : OnePlace(r)
  BY DEF Inv, Track
<1> USE <1>0, <1>a DEF TypeOK, Ends, Goto, EndsIn
<1>1. CASE ReadHello
  BY <1>1 DEF ReadHello, helperVars
<1>15. CASE NoHello
  BY <1>15 DEF NoHello, uiVars, helperVars
<1>2. CASE ReadProgress
  <2>1. heard' \in [Request -> 0 .. MaxUpdates]
    <3>1. \A r \in Request : Head(toUi).id = r => heard[r] + 1 \in 0 .. MaxUpdates
      BY <1>2, HeardWasSaid
    <3> QED
      BY <1>2, <3>1 DEF ReadProgress
  <2> QED
    BY <1>2, <2>1 DEF ReadProgress, helperVars
<1>3. CASE ReadResponse
  <2>1. settling' \in Seq({Response(r, e) : r \in Request, e \in {"done", "refused"}})
        /\ Len(settling') <= 1
    <3>1. Head(toUi) \in {Response(r, e) : r \in Request, e \in {"done", "refused"}}
      BY <1>3, TailFacts, ResponseFrames DEF ReadResponse, FrontIs
    <3>2. settling' = <<Head(toUi)>>
      BY <1>3 DEF ReadResponse
    <3> QED
      BY <3>1, <3>2
  <2> QED
    BY <1>3, <2>1 DEF ReadResponse, helperVars
<1>4. CASE Settle
  BY <1>4 DEF Settle, ToldBy, helperVars
<1>5. CASE StopReading \/ Drain
  BY <1>5 DEF StopReading, Drain, helperVars
<1>6. CASE SayHello \/ BeginServing \/ Gone
  BY <1>6 DEF SayHello, BeginServing, Gone, uiVars, helperVars
<1>7. CASE ReadRequest
  <2>1. task' \in [Request -> {"none", "running", "forwarding", "replying"}]
    <3>1. Head(toHelper).id \in Request
      BY <1>7, TailFacts, ServerFrames DEF ReadRequest, FrontIs
    <3> QED
      BY <1>7, <3>1 DEF ReadRequest
  <2> QED
    BY <1>7, <2>1 DEF ReadRequest, uiVars
<1>8. CASE StopServing \/ HelperDies
  <2>1. PICK survivors : Leave(survivors)
    BY <1>8 DEF StopServing, HelperDies
  <2> QED
    BY <2>1 DEF Leave, uiVars
<1>9. CASE AskToLeave
  BY <1>9 DEF AskToLeave, uiVars, helperVars
<1>10. CASE UiExits
  BY <1>10 DEF UiExits, helperVars, CallerState
<1>11. ASSUME NEW r \in Request, Register(r) \/ CallerStep(r)
       PROVE  TypeOK' /\ Ends'
  <2>1. caller' \in [Request -> CallerState] /\ answer' \in [Request -> {"none", "ok", "failed", "lost"}]
    BY <1>11, CallerTypes
  <2>5. pending' \subseteq Request /\ sinks' \subseteq Request
    BY <1>11 DEF Register, CallerStep, KeepSink, Send, SendFails, Withdraw, Return, Finish
  <2>3. ui # "greeting"
    BY <1>11 DEF Register, CallerStep, KeepSink, Send, SendFails, Withdraw, Return, Finish
  <2>2. UNCHANGED <<ui, helper, reader, settling, heard, helperVars>>
    BY <1>11 DEF Register, CallerStep, KeepSink, Send, SendFails, Withdraw, Return, Finish
  <2> QED
    BY <2>1, <2>2, <2>3, <2>5 DEF helperVars
<1>12. ASSUME NEW r \in Request, Perform(r) \/ ForwarderEnds(r) \/ Reply(r)
       PROVE  TypeOK' /\ Ends'
  <2>1. /\ task' \in [Request -> {"none", "running", "forwarding", "replying"}]
        /\ effect' \in [Request -> {"none", "done", "refused"}]
    BY <1>12, TaskTypes
  <2>3. helper \notin {"starting", "greeted"}
    BY <1>12 DEF Perform, ForwarderEnds, Reply
  <2>2. UNCHANGED <<ui, helper, uiVars, said, forwarded>>
    BY <1>12 DEF Perform, ForwarderEnds, Reply
  <2> QED
    BY <2>1, <2>2, <2>3 DEF uiVars
<1>13. ASSUME NEW r \in Request, MakeProgress(r) \/ Forward(r)
       PROVE  TypeOK' /\ Ends'
  <2>1. said' \in [Request -> 0 .. MaxUpdates] /\ forwarded' \in [Request -> 0 .. MaxUpdates]
    <3>1. CASE MakeProgress(r)
      <4>1. said[r] + 1 \in 0 .. MaxUpdates
        BY <3>1, OneMoreUpdate DEF MakeProgress
      <4> QED
        BY <3>1, <4>1 DEF MakeProgress
    <3>2. CASE Forward(r)
      <4>1. forwarded[r] + 1 \in 0 .. MaxUpdates
        BY <3>2, OneMoreUpdate DEF Forward
      <4> QED
        BY <3>2, <4>1 DEF Forward
    <3> QED
      BY <1>13, <3>1, <3>2
  <2>2. UNCHANGED <<ui, helper, uiVars, task, effect>>
    BY <1>13 DEF MakeProgress, Forward
  <2>3. Ends'
    BY <2>2 DEF uiVars
  <2> QED
    BY <2>1, <2>2, <2>3 DEF uiVars
<1>14. CASE UNCHANGED vars
  BY <1>14 DEF vars, uiVars, helperVars
<1> HIDE DEF TypeOK, Ends, Goto, EndsIn
<1> QED
  BY <1>1, <1>2, <1>3, <1>4, <1>5, <1>6, <1>7, <1>8, <1>9, <1>10, <1>11, <1>12, <1>13, <1>14, <1>15
  DEF Next, ReaderStep, HelperStep, TaskStep

-----------------------------------------------------------------------------
(* How the invariant is kept, request by request.                          *)
LEMMA Shapes ==
  ASSUME TypeOK
  PROVE  /\ DOMAIN caller = Request /\ DOMAIN answer = Request
         /\ DOMAIN task = Request /\ DOMAIN effect = Request
         /\ DOMAIN said = Request /\ DOMAIN forwarded = Request /\ DOMAIN heard = Request
         /\ toHelper \in Seq(ServerFrame) /\ toUi \in Seq(ClientFrame)
         /\ \A r \in Request :
              /\ said[r] \in Nat /\ forwarded[r] \in Nat /\ heard[r] \in Nat
              /\ Carried(toUi, r) \in Nat
              /\ effect[r] \in {"none", "done", "refused"}
              /\ answer[r] \in {"none", "ok", "failed", "lost"}
<1>1. \A n \in 0 .. MaxUpdates : n \in Nat
  BY BoundsAssumption DEF BoundsAssumption
<1>2. toUi \in Seq(ClientFrame)
  BY DEF TypeOK
<1>3. \A r \in Request : Carried(toUi, r) \in Nat
  BY <1>2, CountType
<1> QED
  BY <1>1, <1>3 DEF TypeOK

(* Steps of the callers.                                                   *)
LEMMA CallerTrack ==
  ASSUME Inv, NEW q \in Request, NEW r \in Request, Register(q) \/ CallerStep(q)
  PROVE  Track(r)'
<1>0. TypeOK /\ Ends /\ Track(r) /\ Track(q)
  BY DEF Inv
<1> USE <1>0, Shapes DEF Track, OnePlace, Oneshot, Sink, Count, Unsent, Settling, Goto
<1>1. CASE Register(q)
  BY <1>1 DEF Register, helperVars
<1>2. CASE KeepSink(q)
  BY <1>2 DEF KeepSink, helperVars
<1>3. CASE Send(q)
  <2>1. /\ AskIn(toHelper', r) <=> AskIn(toHelper, r) \/ q = r
        /\ AskOnce(toHelper, r) /\ (q = r => ~AskIn(toHelper, r)) => AskOnce(toHelper', r)
    BY <1>3, ServerFrames, AppendAsk DEF Send
  <2> QED
    BY <1>3, <2>1 DEF Send, helperVars
<1>4. CASE SendFails(q)
  BY <1>4 DEF SendFails, helperVars
<1>5. CASE Withdraw(q)
  BY <1>5 DEF Withdraw, helperVars
<1>6. CASE Return(q)
  BY <1>6 DEF Return, helperVars
<1>7. CASE Finish(q)
  BY <1>7 DEF Finish, helperVars
<1> QED
  BY <1>1, <1>2, <1>3, <1>4, <1>5, <1>6, <1>7 DEF CallerStep

(* Steps of the reader.                                                    *)
LEMMA ReaderTrack ==
  ASSUME Inv, NEW r \in Request, ReaderStep
  PROVE  Track(r)'
<1>0. TypeOK /\ Ends /\ Track(r)
  BY DEF Inv
<1> USE <1>0, Shapes DEF Track, OnePlace, Oneshot, Sink, Count, Unsent, Settling
<1>1. CASE ReadProgress
  <2>1. toUi # << >> /\ toUi' = Tail(toUi) /\ \A e : ~Answers(Head(toUi), r)
    BY <1>1 DEF ReadProgress, FrontIs, Answers
  <2>2. Reports(Head(toUi), r) <=> Head(toUi).id = r
    BY <1>1, <2>1, TailFacts, ClientFrames DEF ReadProgress, FrontIs, Reports, Progress
  <2>3. Carried(toUi, r) = Carried(toUi', r) + (IF Head(toUi).id = r THEN 1 ELSE 0)
        /\ Carried(toUi', r) \in Nat
    BY <2>1, <2>2, TailCount
  <2>4. /\ HasAnswer(toUi', r) => HasAnswer(toUi, r)
        /\ AnswersAre(toUi, r, effect[r]) => AnswersAre(toUi', r, effect[r])
        /\ Ordered(toUi, r) => Ordered(toUi', r)
    BY <2>1, TailAnswer
  <2>5. heard'[r] = IF r = Head(toUi).id /\ r \in sinks THEN heard[r] + 1 ELSE heard[r]
    BY <1>1 DEF ReadProgress
  <2> QED
    BY <1>1, <2>3, <2>4, <2>5 DEF ReadProgress, helperVars
<1>2. CASE ReadResponse
  <2>1. toUi # << >> /\ toUi' = Tail(toUi) /\ Head(toUi) \in ClientFrame
        /\ Head(toUi).kind = "response"
    BY <1>2, TailFacts DEF ReadResponse, FrontIs
  <2>2. Answers(Head(toUi), r) <=> Head(toUi).id = r
    BY <2>1 DEF Answers
  <2>3. ~Reports(Head(toUi), r)
    BY <2>1 DEF Reports, Progress
  <2>4. Carried(toUi', r) = Carried(toUi, r)
    BY <2>1, <2>3, TailCount
  <2>5. /\ HasAnswer(toUi', r) => HasAnswer(toUi, r)
        /\ AnswersAre(toUi, r, effect[r]) => AnswersAre(toUi', r, effect[r])
        /\ Ordered(toUi, r) => Ordered(toUi', r)
    BY <2>1, TailAnswer
  <2>6. ASSUME Head(toUi).id = r
        PROVE  /\ HasAnswer(toUi, r) /\ ~HasAnswer(toUi', r)
               /\ Head(toUi).result = effect[r] /\ Carried(toUi, r) = 0
    BY <2>1, <2>2, <2>6, TailAnswer, NoneBehind
  <2>7. settling' # << >> /\ Head(settling') = Head(toUi) /\ settling = << >>
    BY <1>2 DEF ReadResponse
  <2> QED
    BY <1>2, <2>4, <2>5, <2>6, <2>7 DEF ReadResponse, helperVars
<1>3. CASE Settle
  BY <1>3 DEF Settle, ToldBy, helperVars
<1>4. CASE StopReading
  BY <1>4 DEF StopReading, helperVars
<1>5. CASE Drain
  BY <1>5 DEF Drain, helperVars
<1> QED
  BY <1>1, <1>2, <1>3, <1>4, <1>5 DEF ReaderStep

(* The UI opens and ends the conversation.                                 *)
LEMMA UiTrack ==
  ASSUME Inv, NEW r \in Request, ReadHello \/ NoHello \/ UiExits \/ AskToLeave
  PROVE  Track(r)'
<1>0. TypeOK /\ Ends /\ Track(r)
  BY DEF Inv
<1> USE <1>0, Shapes DEF Track, OnePlace, Oneshot, Sink, Count, Unsent, Settling
<1>1. CASE ReadHello
  <2>1. toUi # << >> /\ toUi' = Tail(toUi) /\ ui = "greeting"
    BY <1>1 DEF ReadHello, FrontIs
  <2>2. /\ HasAnswer(toUi', r) => HasAnswer(toUi, r)
        /\ AnswersAre(toUi, r, effect[r]) => AnswersAre(toUi', r, effect[r])
        /\ Ordered(toUi, r) => Ordered(toUi', r)
    BY <2>1, TailAnswer
  <2>5. Carried(toUi', r) <= Carried(toUi, r) /\ Carried(toUi', r) \in Nat
    BY <2>1, TailCount
  <2>3. /\ AskIn(toHelper', r) => AskIn(toHelper, r)
        /\ AskOnce(toHelper, r) => AskOnce(toHelper', r)
    <3>1. CASE toHelper' = Append(toHelper, Accept)
      BY <3>1, ServerFrames, AppendAsk
    <3>2. CASE toHelper' \in Truncated(Append(toHelper, Reject))
      <4>1. /\ Append(toHelper, Reject) \in Seq(ServerFrame)
            /\ AskIn(Append(toHelper, Reject), r) => AskIn(toHelper, r)
            /\ AskOnce(toHelper, r) => AskOnce(Append(toHelper, Reject), r)
        BY ServerFrames, AppendAsk
      <4> QED
        BY <3>2, <4>1, CutAsk
    <3> QED
      BY <1>1, <3>1, <3>2 DEF ReadHello
  <2>4. caller[r] = "idle" /\ reader = "off"
    BY <2>1 DEF Ends
  <2> QED
    BY <1>1, <2>2, <2>3, <2>4, <2>5 DEF ReadHello, helperVars
<1>2. CASE NoHello
  <2>1. toUi' = << >> /\ ui = "greeting"
    BY <1>2 DEF NoHello
  <2>2. ~HasAnswer(toUi', r) /\ Ordered(toUi', r) /\ Carried(toUi', r) = 0
        /\ AnswersAre(toUi', r, effect[r])
    BY <2>1, EmptyPipe
  <2> QED
    BY <1>2, <2>1, <2>2 DEF NoHello, Ends, uiVars, helperVars
<1>3. CASE UiExits
  <2>1. /\ AskIn(toHelper', r) => AskIn(toHelper, r)
        /\ AskOnce(toHelper, r) => AskOnce(toHelper', r)
    BY <1>3, CutAsk DEF UiExits
  <2>2. caller'[r] = IF caller[r] \in {"idle", "returned", "finished"} THEN caller[r] ELSE "abandoned"
    BY <1>3 DEF UiExits
  <2> QED
    BY <1>3, <2>1, <2>2, EmptyPipe DEF UiExits, helperVars
<1>4. CASE AskToLeave
  <2>1. /\ AskIn(toHelper', r) => AskIn(toHelper, r)
        /\ AskOnce(toHelper, r) => AskOnce(toHelper', r)
    BY <1>4, ServerFrames, AppendAsk DEF AskToLeave
  <2>2. AskIn(toHelper, r) => AskIn(toHelper', r)
    BY <1>4, ServerFrames, AppendAsk DEF AskToLeave
  <2> QED
    BY <1>4, <2>1, <2>2 DEF AskToLeave, uiVars, helperVars
<1> QED
  BY <1>1, <1>2, <1>3, <1>4

(* The helper.                                                             *)
LEMMA HelperTrack ==
  ASSUME Inv, NEW r \in Request, HelperStep \/ HelperDies
  PROVE  Track(r)'
<1>0. TypeOK /\ Ends /\ Track(r)
  BY DEF Inv
<1> USE <1>0, Shapes DEF Track, OnePlace, Oneshot, Sink, Count, Unsent, Settling
<1>1. CASE SayHello
  <2>1. PICK good \in BOOLEAN : toUi' = Append(toUi, Hello(good))
    BY <1>1, BoundsAssumption DEF SayHello, BoundsAssumption
  <2>2. Hello(good) \in ClientFrame /\ ~Answers(Hello(good), r) /\ ~Reports(Hello(good), r)
    BY ClientFrames, FramesAbout
  <2>3. /\ HasAnswer(toUi', r) <=> HasAnswer(toUi, r)
        /\ AnswersAre(toUi, r, effect[r]) => AnswersAre(toUi', r, effect[r])
        /\ Ordered(toUi, r) => Ordered(toUi', r)
    BY <2>1, <2>2, AppendAnswer
  <2>4. Carried(toUi', r) = Carried(toUi, r)
    BY <2>1, <2>2, AppendCount
  <2> QED
    BY <1>1, <2>3, <2>4 DEF SayHello, uiVars, helperVars
<1>2. CASE BeginServing
  <2>1. toHelper # << >> /\ toHelper' = Tail(toHelper)
    BY <1>2 DEF BeginServing, FrontIs
  <2>2. /\ AskIn(toHelper', r) => AskIn(toHelper, r)
        /\ AskOnce(toHelper, r) => AskOnce(toHelper', r)
    BY <2>1, TailAsk
  <2>3. task[r] = "none"
    BY <1>2 DEF BeginServing, Ends
  <2> QED
    BY <1>2, <2>2, <2>3 DEF BeginServing, uiVars, helperVars
<1>3. CASE ReadRequest
  <2> DEFINE q == Head(toHelper).id
  <2>1. /\ toHelper # << >> /\ toHelper' = Tail(toHelper)
        /\ q \in Request /\ Head(toHelper) = Ask(q)
    BY <1>3, TailFacts, ServerFrames DEF ReadRequest, FrontIs
  <2>2. /\ AskIn(toHelper', r) => AskIn(toHelper, r)
        /\ AskOnce(toHelper, r) => AskOnce(toHelper', r)
        /\ q = r => AskIn(toHelper, r)
        /\ q = r /\ AskOnce(toHelper, r) => ~AskIn(toHelper', r)
    BY <2>1, TailAsk
  <2>3. task'[r] = IF r = q THEN "running" ELSE task[r]
    BY <1>3, <2>1 DEF ReadRequest
  <2> HIDE DEF q
  <2> QED
    BY <1>3, <2>2, <2>3 DEF ReadRequest, uiVars
<1>4. CASE StopServing \/ HelperDies
  <2>1. PICK survivors \in SUBSET Running : Leave(survivors)
    BY <1>4 DEF StopServing, HelperDies
  <2>2. /\ HasAnswer(toUi', r) => HasAnswer(toUi, r)
        /\ AnswersAre(toUi, r, effect[r]) => AnswersAre(toUi', r, effect[r])
        /\ Ordered(toUi, r) => Ordered(toUi', r)
        /\ Carried(toUi', r) <= Carried(toUi, r)
        /\ HasAnswer(toUi', r) /\ Ordered(toUi, r) => Carried(toUi', r) = Carried(toUi, r)
    BY <2>1, CutAnswer DEF Leave
  <2>3. ~AskIn(toHelper', r) /\ AskOnce(toHelper', r)
    BY <2>1, EmptyPipe DEF Leave
  <2>4. Carried(toUi', r) \in Nat
    BY <2>1, CutFacts, CountType DEF Leave
  <2>5. task'[r] \in {"none", "running"} /\ (task'[r] = "running" => task[r] = "running")
    BY <2>1 DEF Leave, Running
  <2> QED
    BY <2>1, <2>2, <2>3, <2>4, <2>5 DEF Leave, uiVars
<1>5. CASE Gone
  BY <1>5 DEF Gone, uiVars, helperVars
<1> QED
  BY <1>1, <1>2, <1>3, <1>4, <1>5 DEF HelperStep

(* The task of a request.                                                  *)
LEMMA TaskTrack ==
  ASSUME Inv, NEW q \in Request, NEW r \in Request, TaskStep(q) \/ MakeProgress(q)
  PROVE  Track(r)'
<1>0. TypeOK /\ Ends /\ Track(r) /\ Track(q)
  BY DEF Inv
<1> USE <1>0, Shapes DEF Track, OnePlace, Oneshot, Sink, Count, Unsent, Settling, EndsIn
<1>1. CASE Perform(q)
  <2>1. PICK e \in {"done", "refused"} : effect' = [effect EXCEPT ![q] = e]
    BY <1>1 DEF Perform
  <2>2. task' = [task EXCEPT ![q] = IF helper # "serving" THEN "none"
                                    ELSE IF q \in Streaming THEN "forwarding" ELSE "replying"]
    BY <1>1 DEF Perform
  <2>3. CASE q = r
    <3>1. ~HasAnswer(toUi, r) => AnswersAre(toUi, r, e)
      BY DEF HasAnswer, AnswersAre
    <3>2. effect'[r] = e
      BY <2>1, <2>3
    <3>3. r \notin Streaming => forwarded[r] = said[r]
      OBVIOUS
    <3> QED
      BY <1>1, <2>1, <2>2, <2>3, <3>1, <3>2, <3>3 DEF Perform, uiVars
  <2>4. CASE q # r
    BY <1>1, <2>1, <2>2, <2>4 DEF Perform, uiVars
  <2> QED
    BY <2>3, <2>4
<1>2. CASE MakeProgress(q)
  BY <1>2 DEF MakeProgress, uiVars
<1>3. CASE ForwarderEnds(q)
  BY <1>3 DEF ForwarderEnds, uiVars
<1>4. CASE Forward(q)
  <2>1. UNCHANGED <<ui, helper, toHelper, uiVars, task, effect, said>>
        /\ forwarded' = [forwarded EXCEPT ![q] = @ + 1]
        /\ forwarded[q] < said[q] /\ helper = "serving" /\ task[q] \in {"running", "forwarding"}
    BY <1>4 DEF Forward
  <2>2. CASE Attached
    <3>1. toUi' = Append(toUi, Progress(q))
      BY <1>4, <2>2 DEF Forward, SendToUi
    <3>2. /\ Progress(q) \in ClientFrame /\ ~Answers(Progress(q), r)
          /\ Reports(Progress(q), r) <=> q = r
      BY ClientFrames, FramesAbout
    <3>3. /\ HasAnswer(toUi', r) <=> HasAnswer(toUi, r)
          /\ AnswersAre(toUi, r, effect[r]) => AnswersAre(toUi', r, effect[r])
          /\ Ordered(toUi, r) /\ (q = r => ~HasAnswer(toUi, r)) => Ordered(toUi', r)
      BY <3>1, <3>2, AppendAnswer
    <3>4. Carried(toUi', r) = Carried(toUi, r) + (IF q = r THEN 1 ELSE 0)
      BY <3>1, <3>2, AppendCount
    <3>5. CASE q = r
      BY <2>1, <3>3, <3>4, <3>5 DEF uiVars
    <3>6. CASE q # r
      BY <2>1, <3>3, <3>4, <3>6 DEF uiVars
    <3> QED
      BY <3>5, <3>6
  <2>3. CASE ~Attached
    <3>1. toUi' = toUi /\ reader # "reading"
      BY <1>4, <2>3 DEF Forward, SendToUi, Ends, Attached
    <3> QED
      BY <2>1, <3>1 DEF uiVars
  <2> QED
    BY <2>2, <2>3
<1>5. CASE Reply(q)
  <2>1. UNCHANGED <<ui, helper, toHelper, uiVars, effect, said, forwarded>>
        /\ task' = [task EXCEPT ![q] = "none"] /\ task[q] = "replying"
    BY <1>5 DEF Reply
  <2>2. toUi' = toUi \/ toUi' = Append(toUi, Response(q, effect[q])) \/ toUi' = Append(toUi, Oversized)
    BY <1>5 DEF Reply, SendToUi
  <2>3. CASE toUi' = toUi
    BY <2>1, <2>3 DEF uiVars
  <2>4. CASE toUi' = Append(toUi, Oversized)
    <3>1. Oversized \in ClientFrame /\ ~Answers(Oversized, r) /\ ~Reports(Oversized, r)
      BY ClientFrames, FramesAbout
    <3>2. /\ HasAnswer(toUi', r) <=> HasAnswer(toUi, r)
          /\ AnswersAre(toUi, r, effect[r]) => AnswersAre(toUi', r, effect[r])
          /\ Ordered(toUi, r) => Ordered(toUi', r)
      BY <2>4, <3>1, AppendAnswer
    <3>3. Carried(toUi', r) = Carried(toUi, r)
      BY <2>4, <3>1, AppendCount
    <3> QED
      BY <2>1, <3>2, <3>3 DEF uiVars
  <2>5. CASE toUi' = Append(toUi, Response(q, effect[q]))
    <3> DEFINE f == Response(q, effect[q])
    <3>0. effect[q] \in {"done", "refused"}
      BY <2>1
    <3>1. /\ f \in ClientFrame /\ f.result = effect[q]
          /\ Answers(f, r) <=> q = r
          /\ ~Reports(f, r)
      BY <3>0, ClientFrames, FramesAbout
    <3> HIDE DEF f
    <3>2. /\ HasAnswer(toUi', r) <=> HasAnswer(toUi, r) \/ q = r
          /\ AnswersAre(toUi, r, effect[r]) => AnswersAre(toUi', r, effect[r])
          /\ Ordered(toUi, r) /\ (q = r => ~HasAnswer(toUi, r)) => Ordered(toUi', r)
      BY <2>5, <3>1, AppendAnswer DEF f
    <3>3. Carried(toUi', r) = Carried(toUi, r)
      BY <2>5, <3>1, AppendCount DEF f
    <3>4. CASE q = r
      BY <2>1, <3>2, <3>3, <3>4 DEF uiVars
    <3>5. CASE q # r
      BY <2>1, <3>2, <3>3, <3>5 DEF uiVars
    <3> QED
      BY <3>4, <3>5
  <2> QED
    BY <2>2, <2>3, <2>4, <2>5
<1> QED
  BY <1>1, <1>2, <1>3, <1>4, <1>5 DEF TaskStep

LEMMA InvStep == Inv /\ [Next]_vars => Inv'
<1> SUFFICES ASSUME Inv, [Next]_vars PROVE Inv'
  OBVIOUS
<1>1. TypeOK' /\ Ends'
  BY TypesStep
<1>2. ASSUME NEW r \in Request PROVE Track(r)'
  <2>1. CASE UNCHANGED vars
    BY <2>1 DEF Inv, Track, OnePlace, Oneshot, Sink, Count, Unsent, Settling, vars, uiVars, helperVars
  <2> QED
    BY <2>1, CallerTrack, ReaderTrack, UiTrack, HelperTrack, TaskTrack DEF Next
<1> QED
  BY <1>1, <1>2 DEF Inv

LEMMA Start == Init => Inv
<1> SUFFICES ASSUME Init PROVE Inv
  OBVIOUS
<1>1. TypeOK
  BY BoundsAssumption DEF Init, TypeOK, CallerState, BoundsAssumption
<1>2. Ends
  BY DEF Init, Ends
<1>3. ASSUME NEW r \in Request PROVE Track(r)
  BY EmptyPipe DEF Init, Track, OnePlace, Oneshot, Sink, Count, Unsent, Settling
<1> QED
  BY <1>1, <1>2, <1>3 DEF Inv

THEOREM SessionIsSound == Spec => []Inv
  BY Start, InvStep, PTL DEF Spec

-----------------------------------------------------------------------------
(* Every reachable state is well-typed; no more progress is heard than was *)
(* made.                                                                   *)
THEOREM SessionTypes == Spec => []TypeOK
<1>1. Inv => TypeOK
  BY DEF Inv
<1> QED
  BY <1>1, SessionIsSound, PTL

(* An answer of the helper finds all progress of its operation heard.      *)
THEOREM ProgressComesFirst == Spec => []ProgressIsComplete
<1>1. Inv => ProgressIsComplete
  BY DEF Inv, Track, Count, ProgressIsComplete
<1> QED
  BY <1>1, SessionIsSound, PTL

(* While the reader runs, a call that has returned has no sink.            *)
THEOREM SinksGo == Spec => []SinksAreReleased
<1>1. Inv => SinksAreReleased
  BY DEF Inv, Track, Oneshot, Sink, SinksAreReleased
<1> QED
  BY <1>1, SessionIsSound, PTL

-----------------------------------------------------------------------------
(* Where no reply is too long for the UI to read, the reader stops only    *)
(* when the helper has left, and then forgets nobody.                      *)
Readable ==
  /\ toUi \in Seq(ClientFrame \ {Oversized})
  /\ reader \in {"draining", "ended"} => ~Listening
  /\ reader = "ended" => \A r \in Request : caller[r] = "waiting" => answer[r] # "none"

LEMMA ReadableStep ==
  ASSUME "oversized" \notin Faults, Inv, Readable, [Next]_vars
  PROVE  Readable'
<1>0. TypeOK /\ \A r \in Request : Track(r)
  BY DEF Inv
<1>1. toUi' \in Seq(ClientFrame \ {Oversized})
  <2> DEFINE S == ClientFrame \ {Oversized}
  <2> SUFFICES toUi' \in Seq(S)
    OBVIOUS
  <2>0. toUi \in Seq(S) /\ << >> \in Seq(S)
    BY DEF Readable
  <2>1. ASSUME NEW f \in S, SendToUi(f) PROVE toUi' \in Seq(S)
    BY <2>0, <2>1, AppendFacts DEF SendToUi
  <2>2. \A f \in ClientFrame : f.kind # "oversized" => f \in S
    BY DEF Oversized
  <2>3. ASSUME NEW r \in Request, TaskStep(r) \/ MakeProgress(r) PROVE toUi' \in Seq(S)
    <3>1. CASE Forward(r)
      <4>1. Progress(r) \in S
        BY <2>2, ClientFrames DEF Progress
      <4> QED
        BY <2>1, <3>1, <4>1 DEF Forward
    <3>2. CASE Reply(r)
      <4>1. effect[r] \in {"done", "refused"}
        BY <1>0, <3>2, Shapes DEF Reply, Track, OnePlace
      <4>2. Response(r, effect[r]) \in S
        BY <2>2, <4>1, ClientFrames DEF Response
      <4> QED
        BY <2>1, <3>2, <4>2 DEF Reply
    <3>3. CASE toUi' = toUi
      BY <2>0, <3>3
    <3> QED
      BY <2>3, <3>1, <3>2, <3>3 DEF TaskStep, MakeProgress, Perform, ForwarderEnds
  <2>4. CASE SayHello
    <3>1. PICK good \in BOOLEAN : toUi' = Append(toUi, Hello(good))
      BY <2>4, BoundsAssumption DEF SayHello, BoundsAssumption
    <3>2. Hello(good) \in S
      BY <2>2, ClientFrames DEF Hello
    <3> QED
      BY <2>0, <3>1, <3>2, AppendFacts
  <2>5. CASE ReadHello \/ ReadProgress \/ ReadResponse
    <3>1. toUi # << >> /\ toUi' = Tail(toUi)
      BY <2>5 DEF ReadHello, ReadProgress, ReadResponse, FrontIs
    <3> QED
      BY <2>0, <3>1, TailFacts
  <2>6. CASE StopServing \/ HelperDies
    <3>1. toUi' \in Truncated(toUi)
      BY <2>6 DEF StopServing, HelperDies, Leave
    <3> QED
      BY <2>0, <3>1, CutFacts
  <2>7. CASE toUi' = toUi \/ toUi' = << >>
    BY <2>0, <2>7
  <2>8. ASSUME NEW r \in Request, Register(r) \/ CallerStep(r) PROVE toUi' = toUi
    BY <2>8 DEF Register, CallerStep, KeepSink, Send, SendFails, Withdraw, Return, Finish
  <2>9. NoHello \/ UiExits \/ AskToLeave \/ Settle \/ StopReading \/ Drain \/ BeginServing
          \/ ReadRequest \/ Gone \/ UNCHANGED vars => toUi' = toUi \/ toUi' = << >>
    BY DEF NoHello, UiExits, AskToLeave, Settle, StopReading, Drain, BeginServing, ReadRequest,
           Gone, vars
  <2> HIDE DEF S
  <2> QED
    BY <2>3, <2>4, <2>5, <2>6, <2>7, <2>8, <2>9 DEF Next, ReaderStep, HelperStep
<1>2. Listening' => Listening
  <2>1. CASE helper' = helper
    BY <2>1 DEF Listening
  <2>2. CASE HelperStep \/ HelperDies
    BY <2>2 DEF HelperStep, SayHello, BeginServing, ReadRequest, StopServing, HelperDies, Leave,
                Gone, Listening
  <2> QED
    BY <2>1, <2>2 DEF Next, ReaderStep, ReadHello, NoHello, AskToLeave, UiExits, Register,
       CallerStep, TaskStep, MakeProgress, ReadProgress, ReadResponse, Settle, StopReading, Drain,
       KeepSink, Send, SendFails, Withdraw, Return, Finish, Perform, Forward, ForwarderEnds,
       Reply, vars
<1>3. CASE StopReading
  <2>1. ~FrontIs(toUi, "oversized")
    <3>1. toUi # << >> => Head(toUi) \in ClientFrame \ {Oversized}
      BY TailFacts DEF Readable
    <3>2. \A f \in ClientFrame : f.kind = "oversized" => f = Oversized
      BY DEF ClientFrame, Hello, Progress, Response, Oversized
    <3> QED
      BY <3>1, <3>2 DEF FrontIs
  <2> QED
    BY <1>1, <1>2, <1>3, <2>1 DEF StopReading, Readable
<1>4. CASE Drain
  <2>1. \A r \in Request : caller[r] = "waiting" /\ answer[r] = "none" => r \in pending
    BY <1>0 DEF Track, Oneshot
  <2> QED
    BY <1>1, <1>2, <1>4, <2>1 DEF Drain, Readable
<1>5. ASSUME NEW r \in Request, Register(r) \/ CallerStep(r) PROVE Readable'
  <2>1. reader' = reader
    BY <1>5 DEF Register, CallerStep, KeepSink, Send, SendFails, Withdraw, Return, Finish
  <2>2. ASSUME reader = "ended", NEW q \in Request, caller'[q] = "waiting"
        PROVE  answer'[q] # "none"
    <3>1. caller[q] = "waiting"
      BY <1>0, <1>5, <2>2, Shapes
      DEF Readable, Register, CallerStep, KeepSink, Send, SendFails, Withdraw, Return, Finish, Goto
    <3>2. answer'[q] = answer[q] \/ answer'[q] = "lost"
      BY <1>0, <1>5, Shapes
      DEF Register, CallerStep, KeepSink, Send, SendFails, Withdraw, Return, Finish
    <3> QED
      BY <2>2, <3>1, <3>2 DEF Readable
  <2> QED
    BY <1>1, <1>2, <2>1, <2>2 DEF Readable
<1>6. CASE ReadHello \/ UiExits
  BY <1>1, <1>2, <1>6 DEF ReadHello, UiExits, Readable
<1>7. CASE Settle \/ ReadProgress \/ ReadResponse
  BY <1>1, <1>2, <1>7 DEF Settle, ReadProgress, ReadResponse, Readable
<1>8. CASE UNCHANGED <<caller, answer, reader>>
  BY <1>1, <1>2, <1>8 DEF Readable
<1> QED
  <2>1. ASSUME NEW r \in Request, TaskStep(r) \/ MakeProgress(r)
        PROVE  UNCHANGED <<caller, answer, reader>>
    BY <2>1 DEF TaskStep, MakeProgress, Perform, Forward, ForwarderEnds, Reply, uiVars
  <2>2. HelperStep \/ HelperDies \/ NoHello \/ AskToLeave \/ UNCHANGED vars
          => UNCHANGED <<caller, answer, reader>>
    BY DEF HelperStep, SayHello, BeginServing, ReadRequest, StopServing, HelperDies, Leave, Gone,
           NoHello, AskToLeave, vars, uiVars
  <2> QED
    BY <1>3, <1>4, <1>5, <1>6, <1>7, <1>8, <2>1, <2>2 DEF Next, ReaderStep

(* Where no reply is too long to be read, nobody awaits an answer once the *)
(* reader has ended.                                                       *)
THEOREM NobodyWaitsInVain ==
  ASSUME "oversized" \notin Faults
  PROVE  Spec => []NobodyIsForgotten
<1>1. Init => Readable
  BY DEF Init, Readable
<1>2. Inv /\ Readable /\ [Next]_vars => Readable'
  BY ReadableStep
<1>3. Readable => NobodyIsForgotten
  BY DEF Readable, NobodyIsForgotten
<1> QED
  BY <1>1, <1>2, <1>3, SessionIsSound, PTL DEF Spec

-----------------------------------------------------------------------------
(* A session implements PrivilegedCall.                                    *)
LEMMA CallInit == Init => Call!Init
BY DEF Init, Call!Init, Called, Told, Asked

(* A step that leaves each call where it is, and tells nobody anything.    *)
LEMMA CallStutter ==
  ASSUME \A r \in Request : Called(r)' = Called(r) /\ Told(r)' = Told(r), UNCHANGED effect
  PROVE  UNCHANGED Call!callVars
BY DEF Call!callVars

LEMMA CallStep == Inv /\ [Next]_vars => [Call!Next]_Call!callVars
<1> SUFFICES ASSUME Inv, [Next]_vars PROVE [Call!Next]_Call!callVars
  OBVIOUS
<1>0. TypeOK /\ \A r \in Request : Track(r)
  BY DEF Inv
<1>1. ASSUME NEW r \in Request, Register(r) PROVE Call!Ask(r)
  <2>1. \A q \in Request : Called(q)' = IF q = r THEN "asked" ELSE Called(q)
    BY <1>0, <1>1, Shapes DEF Register, Goto, Called, Asked
  <2>2. \A q \in Request : Told(q)' = Told(q)
    BY <1>0, <1>1, <2>1, Shapes DEF Register, Told, Called, Asked
  <2>3. Called(r) = "idle" /\ effect' = effect
    BY <1>1 DEF Register, helperVars, Called, Asked
  <2> QED
    BY <2>1, <2>2, <2>3 DEF Call!Ask
<1>2. ASSUME NEW r \in Request, Return(r) \/ Withdraw(r) PROVE Call!Return(r)
  <2>1. /\ answer'[r] \in {"ok", "failed", "lost"}
        /\ answer'[r] = "ok" => effect[r] = "done"
        /\ answer'[r] = "failed" => effect[r] = "refused"
    BY <1>0, <1>2, Shapes DEF Return, Withdraw, Track, Oneshot
  <2>2. Called(r) = "asked" /\ effect' = effect
    BY <1>2 DEF Return, Withdraw, helperVars, Called, Asked
  <2>3. \A q \in Request : Called(q)' = IF q = r THEN "returned" ELSE Called(q)
    BY <1>0, <1>2, Shapes DEF Return, Withdraw, Goto, Called, Asked
  <2>4. \A q \in Request : Told(q)' = IF q = r THEN answer'[r] ELSE Told(q)
    BY <1>0, <1>2, <2>3, Shapes DEF Return, Withdraw, Told
  <2> QED
    BY <2>1, <2>2, <2>3, <2>4 DEF Call!Return
<1>3. ASSUME NEW r \in Request, Perform(r) PROVE Call!TakeEffect(r)
  <2>1. effect[r] = "none" /\ Called(r) # "idle"
    BY <1>0, <1>3 DEF Perform, Track, OnePlace, Unsent, Called, Asked
  <2>2. UNCHANGED <<caller, answer>>
    BY <1>3 DEF Perform, uiVars
  <2>3. \A q \in Request : Called(q)' = Called(q) /\ Told(q)' = Told(q)
    BY <2>2 DEF Called, Told, Asked
  <2> QED
    BY <1>3, <2>1, <2>3 DEF Perform, Call!TakeEffect
<1>4. ASSUME UiExits PROVE Call!Abandon
  <2>1. \A q \in Request : caller[q] \in CallerState
    BY <1>0 DEF TypeOK
  <2>2. \A q \in Request : Called(q)' = IF Called(q) = "asked" THEN "abandoned" ELSE Called(q)
    BY <1>4, <2>1 DEF UiExits, Called, Asked, CallerState
  <2>3. \A q \in Request : Told(q)' = Told(q)
    BY <1>4, <2>1, <2>2 DEF UiExits, Told, Called, Asked, CallerState
  <2>4. effect' = effect
    BY <1>4 DEF UiExits, helperVars
  <2> QED
    BY <2>2, <2>3, <2>4 DEF Call!Abandon
<1>5. ASSUME NEW r \in Request, KeepSink(r) \/ Send(r) \/ SendFails(r) \/ Finish(r)
      PROVE  UNCHANGED Call!callVars
  <2>1. UNCHANGED <<answer, effect>>
    BY <1>5 DEF KeepSink, Send, SendFails, Finish, helperVars
  <2>2. \A q \in Request : Called(q)' = Called(q)
    BY <1>0, <1>5, Shapes DEF KeepSink, Send, SendFails, Finish, Goto, Called, Asked
  <2> QED
    BY <2>1, <2>2, CallStutter DEF Told
<1>6. CASE Settle \/ Drain
  <2>1. UNCHANGED <<caller, effect>>
    BY <1>6 DEF Settle, Drain, helperVars
  <2>2. \A q \in Request : q \notin pending => answer'[q] = answer[q]
    BY <1>0, <1>6, Shapes DEF Settle, Drain
  <2>3. \A q \in Request : q \in pending => Called(q) = "asked"
    BY <1>0 DEF Track, Oneshot, Called, Asked
  <2>4. \A q \in Request : Called(q)' = Called(q)
    BY <2>1 DEF Called, Asked
  <2>5. \A q \in Request : Told(q)' = Told(q)
    BY <2>2, <2>3, <2>4 DEF Told
  <2> QED
    BY <2>1, <2>4, <2>5, CallStutter
<1>7. CASE UNCHANGED <<caller, answer, effect>>
  <2>1. \A q \in Request : Called(q)' = Called(q) /\ Told(q)' = Told(q)
    BY <1>7 DEF Called, Told, Asked
  <2> QED
    BY <1>7, <2>1, CallStutter
<1> QED
  <2>1. ASSUME NEW r \in Request, MakeProgress(r) \/ Forward(r) \/ ForwarderEnds(r) \/ Reply(r)
        PROVE  UNCHANGED <<caller, answer, effect>>
    BY <2>1 DEF MakeProgress, Forward, ForwarderEnds, Reply, uiVars
  <2>2. HelperStep \/ HelperDies \/ ReadHello \/ NoHello \/ AskToLeave \/ ReadProgress
          \/ ReadResponse \/ StopReading \/ UNCHANGED vars => UNCHANGED <<caller, answer, effect>>
    BY DEF HelperStep, SayHello, BeginServing, ReadRequest, StopServing, HelperDies, Leave, Gone,
           ReadHello, NoHello, AskToLeave, ReadProgress, ReadResponse, StopReading, vars, uiVars,
           helperVars
  <2>3. CASE UNCHANGED Call!callVars
    BY <2>3
  <2>4. CASE ReaderStep
    BY <1>6, <1>7, <2>2, <2>4 DEF ReaderStep
  <2>5. ASSUME NEW r \in Request, Register(r) \/ CallerStep(r) \/ TaskStep(r) \/ MakeProgress(r)
        PROVE  [Call!Next]_Call!callVars
    BY <1>1, <1>2, <1>3, <1>5, <1>7, <2>1, <2>5 DEF CallerStep, TaskStep, Call!Next
  <2>6. UiExits => Call!Next
    BY <1>4 DEF Call!Next
  <2> QED
    BY <1>7, <2>2, <2>4, <2>5, <2>6 DEF Next

(* Every behaviour of a session is one that PrivilegedCall allows: no      *)
(* operation takes effect twice, and no caller is told anything but what   *)
(* came of its own operation, or that the answer is lost.                  *)
THEOREM SessionImplementsCall == Spec => CallSpec
<1>1. Spec => Call!Init /\ [][Call!Next]_Call!callVars
  BY CallInit, CallStep, SessionIsSound, PTL DEF Spec
<1> QED
  BY <1>1 DEF CallSpec, Call!Spec
=============================================================================
