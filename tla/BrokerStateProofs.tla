------------------------- MODULE BrokerStateProofs -------------------------
(***************************************************************************)
(* What BrokerState promises about helpers, for every set of commands and  *)
(* every bound.  The argument rests on the mutex: at most one launch is    *)
(* under way, with no route beside it (LaunchInvariant), so a new helper   *)
(* is never connected beside another.                                      *)
(***************************************************************************)
EXTENDS BrokerState, TLAPS

(* Everything the proof carries from step to step.                         *)
Inv ==
  /\ TypeOK
  /\ LaunchInvariant
  /\ EveryHelperIsOwned
  /\ OldSessionsAreDead

LEMMA Types ==
  /\ MaxGets \in Nat
  /\ Helper = 1 .. MaxGets
  /\ NoRoute \notin Helper /\ InProcess \notin Helper /\ NoRoute # InProcess
  /\ Helper \subseteq Nat
  BY BoundsAssumption DEF Helper, NoRoute, InProcess

LEMMA InitInv == Init => Inv
  <1>. SUFFICES ASSUME Init PROVE Inv
    OBVIOUS
  <1>1. TypeOK
    BY Types DEF Init, TypeOK, Route
  <1>2. LaunchInvariant
    BY Types DEF Init, LaunchInvariant, InLaunch
  <1>3. EveryHelperIsOwned
    BY DEF Init, EveryHelperIsOwned, Running
  <1>4. OldSessionsAreDead
    BY Types DEF Init, OldSessionsAreDead
  <1>. QED  BY <1>1, <1>2, <1>3, <1>4 DEF Inv

-----------------------------------------------------------------------------
(* The holder of the mutex is one command, and so is the launcher.         *)
LEMMA OneHolder ==
  ASSUME LaunchInvariant, NEW c \in Command, NEW d \in Command,
         HasMutex(c), InLaunch(d)
  PROVE  c = d
  BY DEF LaunchInvariant, HasMutex

(* A command in its turn has a number that names a helper of its own.      *)
LEMMA OwnNumber ==
  ASSUME TypeOK, LaunchInvariant, NEW c \in Command,
         pc[c] \in {"asking", "getting"} \/ InLaunch(c)
  PROVE  /\ number[c] \in Helper
         /\ \A d \in Command \ {c} : number[d] # number[c]
  BY Types DEF TypeOK, LaunchInvariant

(* The five ways a launch fails are one.                                   *)
LEMMA FailingSteps ==
  ASSUME NEW c \in Command, Decline(c) \/ TimeOut(c) \/ HelperLost(c) \/ Refuse(c)
  PROVE  InLaunch(c) /\ FailLaunch(c)
  BY DEF Decline, TimeOut, HelperLost, Refuse, InLaunch

(* A step of a helper: it ran, and nothing else changes.                   *)
HelperMoves(h, state) ==
  /\ Running(h)
  /\ state \in {"connected", "greeted", "gone"}
  /\ Become(h, state)

LEMMA HelperSteps ==
  ASSUME NEW h \in Helper, Open(h) \/ SayHello(h) \/ Leave(h) \/ Die(h)
  PROVE  \E state : HelperMoves(h, state)
  BY DEF Open, SayHello, Leave, Die, HelperMoves, Running

(* The steps there are, to reason by cases.                                *)
LEMMA Cases ==
  ASSUME [Next]_vars
  PROVE  \/ \E c \in Command, label \in {"getting", "asking"} : StartCommand(c, label)
         \/ \E c \in Command : AnswerStatus(c) \/ Reuse(c)
         \/ \E c \in Command : GoInProcess(c) \/ CannotLaunch(c)
         \/ \E c \in Command : Prompt(c)
         \/ \E c \in Command : Agree(c) \/ Connected(c)
         \/ \E c \in Command : InLaunch(c) /\ FailLaunch(c)
         \/ \E c \in Command : Establish(c)
         \/ \E c \in Command : Finish(c)
         \/ \E h \in Helper : \E state : HelperMoves(h, state)
         \/ UiExits
         \/ UNCHANGED vars
  <1>1. CASE \E c \in Command : Step(c) \/ User(c)
    BY <1>1, FailingSteps DEF Step, Launch, User
  <1>2. CASE \E h \in Helper : Open(h) \/ SayHello(h) \/ Leave(h) \/ Die(h)
    BY <1>2, HelperSteps
  <1>. QED  BY <1>1, <1>2 DEF Next

-----------------------------------------------------------------------------
(* Types.                                                                  *)
LEMMA TypeStep ==
  ASSUME Inv, [Next]_vars
  PROVE  TypeOK'
  <1>. USE Types DEF Inv
  <1>t. TypeOK /\ LaunchInvariant
    OBVIOUS
  <1>1. ASSUME NEW c \in Command, NEW label \in {"getting", "asking"}, StartCommand(c, label)
        PROVE  TypeOK'
    BY <1>1 DEF StartCommand, TypeOK
  <1>2. ASSUME NEW c \in Command, AnswerStatus(c) \/ Reuse(c)
        PROVE  TypeOK'
    <2>1. queue # << >>
      BY <1>2 DEF AnswerStatus, Reuse, HasMutex
    <2>2. CASE AnswerStatus(c)
      BY <2>1, <2>2 DEF AnswerStatus, Return, TypeOK, Route
    <2>3. CASE Reuse(c)
      BY <2>1, <2>3 DEF Reuse, Return, TypeOK
    <2>. QED  BY <1>2, <2>2, <2>3
  <1>3. ASSUME NEW c \in Command, GoInProcess(c) \/ CannotLaunch(c)
        PROVE  TypeOK'
    <2>1. queue # << >>
      BY <1>3 DEF GoInProcess, CannotLaunch, NeedsRoute, HasMutex
    <2>2. CASE GoInProcess(c)
      BY <2>1, <2>2 DEF GoInProcess, Return, TypeOK, Route
    <2>3. CASE CannotLaunch(c)
      BY <2>1, <2>3 DEF CannotLaunch, Return, TypeOK, Route
    <2>. QED  BY <1>3, <2>2, <2>3
  <1>4. ASSUME NEW c \in Command, Prompt(c)
        PROVE  TypeOK'
    <2>1. number[c] \in Helper
      BY <1>4, OwnNumber DEF Prompt, NeedsRoute
    <2>. QED  BY <1>4, <2>1 DEF Prompt, TypeOK, Route
  <1>5. ASSUME NEW c \in Command, Agree(c) \/ Connected(c)
        PROVE  TypeOK'
    <2>1. number[c] \in Helper /\ pipe[number[c]] = "open"
      BY <1>5, OwnNumber DEF Agree, Connected, InLaunch, LaunchInvariant
    <2>2. CASE Agree(c)
      BY <2>1, <2>2 DEF Agree, TypeOK
    <2>3. CASE Connected(c)
      BY <2>1, <2>3 DEF Connected, TypeOK
    <2>. QED  BY <1>5, <2>2, <2>3
  <1>6. ASSUME NEW c \in Command, InLaunch(c), FailLaunch(c)
        PROVE  TypeOK'
    <2>1. queue # << >> /\ number[c] \in Helper
      BY <1>6, OwnNumber DEF LaunchInvariant, HasMutex
    <2>. QED  BY <1>6, <2>1 DEF FailLaunch, Return, TypeOK, Route
  <1>7. ASSUME NEW c \in Command, Establish(c)
        PROVE  TypeOK'
    <2>1. queue # << >> /\ number[c] \in Helper
      BY <1>7, OwnNumber DEF Establish, InLaunch, LaunchInvariant, HasMutex
    <2>. QED  BY <1>7, <2>1 DEF Establish, Return, TypeOK, Route
  <1>8. ASSUME NEW c \in Command, Finish(c)
        PROVE  TypeOK'
    BY <1>8 DEF Finish, TypeOK, Route
  <1>9. ASSUME NEW h \in Helper, NEW state, HelperMoves(h, state)
        PROVE  TypeOK'
    BY <1>9 DEF HelperMoves, Become, Running, TypeOK
  <1>10. ASSUME UiExits PROVE TypeOK'
    <2>1. ASSUME NEW c \in Prompting PROVE number[c] \in Helper /\ pipe[number[c]] = "open"
      BY <2>1, OwnNumber DEF Prompting, InLaunch, LaunchInvariant
    <2>2. PICK started \in SUBSET {number[c] : c \in Prompting} :
            helper' = [h \in Helper |-> IF h \in started THEN "starting" ELSE helper[h]]
      BY <1>10 DEF UiExits
    <2>3. \A h \in started : pipe[h] = "open"
      BY <2>1, <2>2
    <2>4. \A h \in Helper : pipe'[h] = "none" => helper'[h] = "none"
      BY <1>10, <2>2, <2>3 DEF UiExits, TypeOK
    <2>5. helper' \in [Helper -> {"none", "starting", "connected", "greeted", "gone"}]
      BY <2>2 DEF TypeOK
    <2>6. pipe' \in [Helper -> {"none", "open", "closed"}]
      BY <1>10 DEF UiExits, TypeOK
    <2>. QED  BY <1>10, <2>4, <2>5, <2>6 DEF UiExits, TypeOK, Route
  <1>11. ASSUME UNCHANGED vars PROVE TypeOK'
    BY <1>11 DEF vars, TypeOK
  <1>. QED
    BY <1>1, <1>2, <1>3, <1>4, <1>5, <1>6, <1>7, <1>8, <1>9, <1>10, <1>11, Cases

-----------------------------------------------------------------------------
(* What is left of a command that had the mutex: nobody is launching.      *)
LEMMA AfterReturn ==
  ASSUME Inv, NEW c \in Command, HasMutex(c), NEW label \in {"idle", "using"}, NEW r \in Route,
         Return(c, label, r), UNCHANGED <<helper, gets>>,
         pipe' = pipe \/ (InLaunch(c) /\ pipe' = [pipe EXCEPT ![number[c]] = "closed"]),
         route' \in Helper => helper[route'] # "none",
         r \in Helper => helper[r] # "none"
  PROVE  LaunchInvariant' /\ \A d \in Command : ~InLaunch(d)'
  <1>. USE Types DEF Inv
  <1>1. \A d \in Command : ~InLaunch(d)'
    <2>1. \A d \in Command \ {c} : ~InLaunch(d)
      BY OneHolder
    <2>. QED  BY <2>1 DEF Return, InLaunch, TypeOK
  <1>2. \A d \in Command \ {c} : /\ number'[d] = number[d] /\ pc'[d] = pc[d]
                                 /\ handle'[d] = handle[d]
    BY DEF Return, TypeOK
  <1>3. number'[c] = 0 /\ pc'[c] = label /\ handle'[c] = r
    BY DEF Return, TypeOK
  <1>4. \A d \in Command : number'[d] <= gets'
    <2>1. gets' = gets /\ 0 <= gets
      BY DEF TypeOK
    <2>2. \A d \in Command : number[d] <= gets
      BY DEF LaunchInvariant
    <2>. QED  BY <1>2, <1>3, <2>1, <2>2
  <1>5. \A d \in Command : number'[d] # 0 <=> pc'[d] \in {"asking", "getting"} \/ InLaunch(d)'
    BY <1>1, <1>2, <1>3, OneHolder DEF LaunchInvariant
  <1>6. \A d, e \in Command : d # e /\ number'[d] # 0 => number'[d] # number'[e]
    BY <1>2, <1>3 DEF LaunchInvariant
  <1>7. \A h \in Helper : pipe[h] = "none" => pipe'[h] = "none" \/ (InLaunch(c) /\ h = number[c])
    BY DEF TypeOK
  <1>8. InLaunch(c) => pipe[number[c]] = "open"
    BY DEF LaunchInvariant
  <1>9. \A h \in Helper : h > gets' => pipe'[h] = "none"
    BY <1>7, <1>8 DEF LaunchInvariant
  <1>10. \A d \in Command : pc'[d] \in {"asking", "getting"} => pipe'[number'[d]] = "none"
    <2>. SUFFICES ASSUME NEW d \in Command, pc'[d] \in {"asking", "getting"}
                  PROVE  pipe'[number'[d]] = "none"
      OBVIOUS
    <2>1. d # c /\ pc[d] \in {"asking", "getting"} /\ number'[d] = number[d]
      BY <1>2, <1>3
    <2>2. number[d] \in Helper /\ pipe[number[d]] = "none"
      BY <2>1, OwnNumber DEF LaunchInvariant
    <2>. QED  BY <2>1, <2>2, <1>7, <1>8
  <1>11. \A d \in Command : handle'[d] \in Helper => helper'[handle'[d]] # "none"
    BY <1>2, <1>3 DEF LaunchInvariant
  <1>. QED
    BY <1>1, <1>4, <1>5, <1>6, <1>9, <1>10, <1>11 DEF LaunchInvariant

-----------------------------------------------------------------------------
(* The mutex and the numbers.                                              *)
LEMMA LaunchStep ==
  ASSUME Inv, [Next]_vars
  PROVE  LaunchInvariant'
  <1>. USE Types DEF Inv
  <1>1. ASSUME NEW c \in Command, NEW label \in {"getting", "asking"}, StartCommand(c, label)
        PROVE  LaunchInvariant'
    <2>1. \A d \in Command : HasMutex(d) => HasMutex(d)'
      BY <1>1 DEF StartCommand, HasMutex, TypeOK
    <2>2. \A d \in Command : InLaunch(d)' <=> InLaunch(d) /\ d # c
      BY <1>1 DEF StartCommand, InLaunch, TypeOK
    <2>3. number'[c] = gets + 1 /\ gets + 1 \in Helper /\ gets' = gets + 1
      BY <1>1 DEF StartCommand, TypeOK
    <2>4. \A d \in Command \ {c} : number'[d] = number[d] /\ pc'[d] = pc[d]
      BY <1>1 DEF StartCommand, TypeOK
    <2>5. pc'[c] = label /\ UNCHANGED <<handle, route, helper, pipe>>
      BY <1>1 DEF StartCommand, TypeOK
    <2>6. pipe[gets + 1] = "none"
      BY <2>3 DEF LaunchInvariant, TypeOK
    <2>7. \A d \in Command : number[d] \in 0 .. gets /\ gets \in Nat
      BY DEF LaunchInvariant, TypeOK
    <2>8. \A d \in Command : number'[d] <= gets'
      BY <2>3, <2>4, <2>7
    <2>9. \A d \in Command : number'[d] # 0 <=> pc'[d] \in {"asking", "getting"} \/ InLaunch(d)'
      BY <2>2, <2>3, <2>4, <2>5, <2>7 DEF LaunchInvariant
    <2>10. \A d, e \in Command : d # e /\ number'[d] # 0 => number'[d] # number'[e]
      BY <2>3, <2>4, <2>7 DEF LaunchInvariant
    <2>11. \A d \in Command : pc'[d] \in {"asking", "getting"} => pipe'[number'[d]] = "none"
      BY <2>3, <2>4, <2>5, <2>6 DEF LaunchInvariant
    <2>12. \A h \in Helper : h > gets' => pipe'[h] = "none"
      BY <2>3, <2>5, <2>7 DEF LaunchInvariant
    <2>13. \A d \in Command : InLaunch(d)' =>
             /\ HasMutex(d)' /\ route' = NoRoute
             /\ pipe'[number'[d]] = "open"
             /\ helper'[number'[d]] = "none" <=> pc'[d] = "prompting"
      BY <2>1, <2>2, <2>4, <2>5 DEF LaunchInvariant
    <2>. QED
      BY <2>5, <2>8, <2>9, <2>10, <2>11, <2>12, <2>13 DEF LaunchInvariant
  <1>2. ASSUME NEW c \in Command, AnswerStatus(c) \/ Reuse(c)
        PROVE  LaunchInvariant'
    <2>1. CASE AnswerStatus(c)
      BY <2>1, AfterReturn DEF AnswerStatus, LaunchInvariant, Route
    <2>2. CASE Reuse(c)
      BY <2>2, AfterReturn DEF Reuse, LaunchInvariant, TypeOK
    <2>. QED  BY <1>2, <2>1, <2>2
  <1>3. ASSUME NEW c \in Command, GoInProcess(c) \/ CannotLaunch(c)
        PROVE  LaunchInvariant'
    <2>1. CASE GoInProcess(c)
      BY <2>1, AfterReturn DEF GoInProcess, NeedsRoute, Route
    <2>2. CASE CannotLaunch(c)
      BY <2>2, AfterReturn DEF CannotLaunch, NeedsRoute, Route
    <2>. QED  BY <1>3, <2>1, <2>2
  <1>4. ASSUME NEW c \in Command, Prompt(c)
        PROVE  LaunchInvariant'
    <2>1. number[c] \in Helper /\ \A d \in Command \ {c} : number[d] # number[c]
      BY <1>4, OwnNumber DEF Prompt, NeedsRoute
    <2>2. \A d \in Command : InLaunch(d)' <=> d = c
      BY <1>4, OneHolder DEF Prompt, NeedsRoute, InLaunch, TypeOK
    <2>3. HasMutex(c)' /\ route' = NoRoute
      BY <1>4 DEF Prompt, NeedsRoute, HasMutex
    <2>4. \A h \in Helper : pipe'[h] = IF h = number[c] THEN "open" ELSE pipe[h]
      BY <1>4, <2>1 DEF Prompt, TypeOK
    <2>5. pc' = [pc EXCEPT ![c] = "prompting"] /\ pc[c] = "getting"
      BY <1>4 DEF Prompt, NeedsRoute
    <2>6. helper[number[c]] = "none" /\ number[c] <= gets
      BY <2>1, <2>5 DEF LaunchInvariant, TypeOK
    <2>7. UNCHANGED <<number, gets, helper, handle>>
      BY <1>4 DEF Prompt
    <2>8. \A d \in Command : number'[d] # 0 <=> pc'[d] \in {"asking", "getting"} \/ InLaunch(d)'
      BY <2>2, <2>5, <2>7, <2>1, OneHolder DEF LaunchInvariant, TypeOK, InLaunch
    <2>9. \A d \in Command : pc'[d] \in {"asking", "getting"} => pipe'[number'[d]] = "none"
      <3>1. \A d \in Command \ {c} : pc'[d] = pc[d]
        BY <2>5 DEF TypeOK
      <3>2. pc'[c] = "prompting"
        BY <2>5 DEF TypeOK
      <3>3. \A d \in Command \ {c} : pc[d] \in {"asking", "getting"} =>
              number[d] \in Helper /\ pipe[number[d]] = "none"
        BY OwnNumber DEF LaunchInvariant
      <3>. QED  BY <2>1, <2>4, <2>7, <3>1, <3>2, <3>3
    <2>10. \A h \in Helper : h > gets' => pipe'[h] = "none"
      BY <2>4, <2>6, <2>7, <2>1 DEF LaunchInvariant, TypeOK
    <2>11. pc'[c] = "prompting"
      BY <2>5 DEF TypeOK
    <2>. QED
      BY <2>1, <2>2, <2>3, <2>4, <2>6, <2>7, <2>8, <2>9, <2>10, <2>11 DEF LaunchInvariant
  <1>5. ASSUME NEW c \in Command, Agree(c) \/ Connected(c)
        PROVE  LaunchInvariant'
    <2>1. InLaunch(c) /\ InLaunch(c)' /\ HasMutex(c)
      BY <1>5 DEF Agree, Connected, InLaunch, LaunchInvariant, TypeOK
    <2>2. number[c] \in Helper
      BY <2>1, OwnNumber
    <2>3. /\ UNCHANGED <<queue, handle, route, pipe, number, gets>>
          /\ \A d \in Command \ {c} : pc'[d] = pc[d]
          /\ \A h \in Helper : h # number[c] => helper'[h] = helper[h]
          /\ helper'[number[c]] # "none" /\ pc'[c] # "prompting"
      BY <1>5, <2>2 DEF Agree, Connected, TypeOK
    <2>4. \A d \in Command : InLaunch(d)' <=> d = c
      BY <2>1, <2>3, OneHolder DEF InLaunch
    <2>5. \A d \in Command : number'[d] # 0 <=> pc'[d] \in {"asking", "getting"} \/ InLaunch(d)'
      BY <2>1, <2>3, <2>4, OneHolder DEF LaunchInvariant
    <2>6. \A d \in Command : pc'[d] \in {"asking", "getting"} => pc[d] \in {"asking", "getting"}
      BY <2>1, <2>3 DEF InLaunch
    <2>7. \A d \in Command : handle'[d] \in Helper => helper'[handle'[d]] # "none"
      BY <2>2, <2>3 DEF LaunchInvariant
    <2>8. route' = NoRoute /\ HasMutex(c)'
      BY <2>1, <2>3 DEF LaunchInvariant, HasMutex
    <2>. QED
      BY <2>1, <2>2, <2>3, <2>4, <2>5, <2>6, <2>7, <2>8 DEF LaunchInvariant
  <1>6. ASSUME NEW c \in Command, InLaunch(c), FailLaunch(c)
        PROVE  LaunchInvariant'
    <2>1. HasMutex(c)
      BY <1>6 DEF LaunchInvariant
    <2>. QED  BY <1>6, <2>1, AfterReturn DEF FailLaunch, LaunchInvariant, Route
  <1>7. ASSUME NEW c \in Command, Establish(c)
        PROVE  LaunchInvariant'
    <2>1. InLaunch(c) /\ HasMutex(c) /\ number[c] \in Helper
      BY <1>7, OwnNumber DEF Establish, InLaunch, LaunchInvariant
    <2>. QED  BY <1>7, <2>1, AfterReturn DEF Establish, Route
  <1>8. ASSUME NEW c \in Command, Finish(c)
        PROVE  LaunchInvariant'
    BY <1>8 DEF Finish, LaunchInvariant, InLaunch, HasMutex, TypeOK
  <1>9. ASSUME NEW h \in Helper, NEW state, HelperMoves(h, state)
        PROVE  LaunchInvariant'
    BY <1>9 DEF HelperMoves, Become, Running, LaunchInvariant, InLaunch, HasMutex, TypeOK
  <1>10. ASSUME UiExits PROVE LaunchInvariant'
    BY <1>10 DEF UiExits, LaunchInvariant, InLaunch, TypeOK
  <1>11. ASSUME UNCHANGED vars PROVE LaunchInvariant'
    BY <1>11 DEF vars, LaunchInvariant, InLaunch, HasMutex
  <1>. QED
    BY <1>1, <1>2, <1>3, <1>4, <1>5, <1>6, <1>7, <1>8, <1>9, <1>10, <1>11, Cases

-----------------------------------------------------------------------------
(* Every helper is owned: one stops being owned only as it is dead, or has *)
(* its pipe closed in the same step.                                       *)
LEMMA OwnedStep ==
  ASSUME Inv, [Next]_vars
  PROVE  EveryHelperIsOwned'
  <1>. USE Types DEF Inv
  <1>. SUFFICES ASSUME NEW g \in Helper, Running(g)', pipe'[g] = "open"
                PROVE  route' = g \/ Launching(g)'
    BY DEF EveryHelperIsOwned
  <1>o. Running(g) /\ pipe[g] = "open" => route = g \/ Launching(g)
    BY DEF EveryHelperIsOwned
  <1>1. ASSUME NEW c \in Command, NEW label \in {"getting", "asking"}, StartCommand(c, label)
        PROVE  route' = g \/ Launching(g)'
    <2>1. \A d \in Command : InLaunch(d) => InLaunch(d)' /\ number'[d] = number[d]
      BY <1>1 DEF StartCommand, InLaunch, TypeOK
    <2>. QED  BY <1>1, <2>1, <1>o DEF StartCommand, Running, Launching
  <1>2. ASSUME NEW c \in Command, AnswerStatus(c) \/ Reuse(c) \/ Finish(c)
        PROVE  route' = g \/ Launching(g)'
    <2>1. \A d \in Command : InLaunch(d) => InLaunch(d)' /\ number'[d] = number[d]
      BY <1>2 DEF AnswerStatus, Reuse, Finish, Return, InLaunch, TypeOK
    <2>. QED  BY <1>2, <2>1, <1>o DEF AnswerStatus, Reuse, Finish, Running, Launching
  <1>3. ASSUME NEW c \in Command, GoInProcess(c) \/ CannotLaunch(c) \/ Prompt(c)
        PROVE  route' = g \/ Launching(g)'
    <2>1. NeedsRoute(c)
      BY <1>3 DEF GoInProcess, CannotLaunch, Prompt
    <2>2. Running(g)
      BY <1>3 DEF GoInProcess, CannotLaunch, Prompt, Running
    <2>3. route # g
      BY <2>1, <2>2 DEF NeedsRoute, IsAlive
    <2>4. ~Launching(g)
      BY <2>1, OneHolder DEF NeedsRoute, Launching, InLaunch
    <2>5. pipe[g] # "open"
      BY <1>o, <2>2, <2>3, <2>4
    <2>6. Prompt(c) /\ g = number[c]
      BY <1>3, <2>5 DEF GoInProcess, CannotLaunch, Prompt, TypeOK
    <2>. QED  BY <2>6 DEF Prompt, Launching, InLaunch, TypeOK
  <1>4. ASSUME NEW c \in Command, Agree(c) \/ Connected(c)
        PROVE  route' = g \/ Launching(g)'
    <2>1. \A d \in Command : InLaunch(d) => InLaunch(d)' /\ number'[d] = number[d]
      BY <1>4 DEF Agree, Connected, InLaunch, TypeOK
    <2>2. InLaunch(c)
      BY <1>4 DEF Agree, Connected, InLaunch
    <2>3. CASE g = number[c]
      BY <2>1, <2>2, <2>3 DEF Launching
    <2>4. CASE g # number[c]
      BY <1>4, <2>1, <2>4, <1>o DEF Agree, Connected, Running, Launching, TypeOK
    <2>. QED  BY <2>3, <2>4
  <1>5. ASSUME NEW c \in Command, InLaunch(c), FailLaunch(c) \/ Establish(c)
        PROVE  route' = g \/ Launching(g)'
    <2>1. \A d \in Command : InLaunch(d) => d = c
      BY <1>5, OneHolder DEF LaunchInvariant
    <2>2. Running(g) /\ pipe[g] = "open" /\ route = NoRoute
      BY <1>5 DEF FailLaunch, Establish, Running, LaunchInvariant, TypeOK
    <2>3. g = number[c]
      BY <1>o, <2>1, <2>2 DEF Launching
    <2>. QED  BY <1>5, <2>3 DEF FailLaunch, Establish, TypeOK
  <1>6. ASSUME NEW h \in Helper, NEW state, HelperMoves(h, state)
        PROVE  route' = g \/ Launching(g)'
    <2>1. Running(g) /\ pipe[g] = "open"
      BY <1>6 DEF HelperMoves, Become, Running, TypeOK
    <2>. QED  BY <1>6, <1>o, <2>1 DEF HelperMoves, Become, Launching, InLaunch
  <1>7. ASSUME UiExits PROVE FALSE
    BY <1>7 DEF UiExits, TypeOK
  <1>8. ASSUME UNCHANGED vars PROVE route' = g \/ Launching(g)'
    BY <1>8, <1>o DEF vars, Running, Launching, InLaunch
  <1>9. \A c \in Command : Establish(c) => InLaunch(c)
    BY DEF Establish, InLaunch
  <1>. QED
    BY <1>1, <1>2, <1>3, <1>4, <1>5, <1>6, <1>7, <1>8, <1>9, Cases

-----------------------------------------------------------------------------
(* Old sessions are dead: a session stops being the route's only as its    *)
(* helper is found dead, and dead helpers stay dead.                       *)
LEMMA SessionStep ==
  ASSUME Inv, [Next]_vars
  PROVE  OldSessionsAreDead'
  <1>. USE Types DEF Inv
  <1>. SUFFICES ASSUME NEW d \in Command, NEW g \in Helper, handle'[d] = g, g # route'
                PROVE  ~Running(g)'
    BY DEF OldSessionsAreDead
  <1>o. handle[d] = g /\ g # route => ~Running(g)
    BY DEF OldSessionsAreDead
  <1>1. ASSUME NEW c \in Command, NEW label \in {"getting", "asking"}, StartCommand(c, label)
        PROVE  ~Running(g)'
    BY <1>1, <1>o DEF StartCommand, Running
  <1>2. ASSUME NEW c \in Command, AnswerStatus(c) \/ Reuse(c) \/ Finish(c)
        PROVE  ~Running(g)'
    BY <1>2, <1>o DEF AnswerStatus, Reuse, Finish, Return, Running, TypeOK
  <1>3. ASSUME NEW c \in Command, GoInProcess(c) \/ CannotLaunch(c) \/ Prompt(c)
        PROVE  ~Running(g)'
    <2>1. NeedsRoute(c) /\ helper' = helper
      BY <1>3 DEF GoInProcess, CannotLaunch, Prompt
    <2>2. handle[d] = g
      BY <1>3 DEF GoInProcess, CannotLaunch, Prompt, Return, TypeOK
    <2>3. route \in Helper => ~Running(route)
      BY <2>1 DEF NeedsRoute, IsAlive
    <2>. QED  BY <1>o, <2>1, <2>2, <2>3 DEF Running
  <1>4. ASSUME NEW c \in Command, Agree(c) \/ Connected(c)
        PROVE  ~Running(g)'
    <2>1. handle'[d] = handle[d] /\ route' = route
      BY <1>4 DEF Agree, Connected
    <2>2. CASE Connected(c)
      BY <1>o, <2>1, <2>2 DEF Connected, Running
    <2>3. CASE Agree(c)
      <3>1. g # number[c]
        BY <2>1, <2>3 DEF Agree, LaunchInvariant, InLaunch
      <3>. QED  BY <1>o, <2>1, <2>3, <3>1 DEF Agree, Running, TypeOK
    <2>. QED  BY <1>4, <2>2, <2>3
  <1>5. ASSUME NEW c \in Command, InLaunch(c), FailLaunch(c) \/ Establish(c)
        PROVE  ~Running(g)'
    <2>1. helper' = helper /\ handle'[d] = handle[d]
      BY <1>5 DEF FailLaunch, Establish, Return, TypeOK
    <2>2. route = NoRoute
      BY <1>5 DEF LaunchInvariant
    <2>. QED  BY <1>o, <2>1, <2>2 DEF Running
  <1>6. ASSUME NEW h \in Helper, NEW state, HelperMoves(h, state)
        PROVE  ~Running(g)'
    BY <1>6, <1>o DEF HelperMoves, Become, Running, TypeOK
  <1>7. ASSUME UiExits PROVE FALSE
    BY <1>7 DEF UiExits
  <1>8. ASSUME UNCHANGED vars PROVE ~Running(g)'
    BY <1>8, <1>o DEF vars, Running
  <1>9. \A c \in Command : Establish(c) => InLaunch(c)
    BY DEF Establish, InLaunch
  <1>. QED
    BY <1>1, <1>2, <1>3, <1>4, <1>5, <1>6, <1>7, <1>8, <1>9, Cases

-----------------------------------------------------------------------------
LEMMA InvStep == Inv /\ [Next]_vars => Inv'
  BY TypeStep, LaunchStep, OwnedStep, SessionStep DEF Inv

THEOREM Invariance == Spec => []Inv
  BY InitInv, InvStep, PTL DEF Spec

(* Every reachable state of the broker state is well-typed, although the   *)
(* numbers of commands grow.                                               *)
THEOREM BrokerTypes == Spec => []TypeOK
  <1>1. Inv => TypeOK
    BY DEF Inv
  <1>. QED  BY Invariance, <1>1, PTL

(* One launch at a time, under the mutex, with no route beside it.         *)
THEOREM OneLaunchAtATime == Spec => []LaunchInvariant
  <1>1. Inv => LaunchInvariant
    BY DEF Inv
  <1>. QED  BY Invariance, <1>1, PTL

(* No launch, whatever becomes of it, leaves a connected helper that is    *)
(* not the route.                                                          *)
THEOREM NoHelperIsLeftBehind == Spec => []EveryHelperIsOwned
  <1>1. Inv => EveryHelperIsOwned
    BY DEF Inv
  <1>. QED  BY Invariance, <1>1, PTL

(* Commands share one live helper.                                         *)
THEOREM OneLiveSession == Spec => []OldSessionsAreDead
  <1>1. Inv => OldSessionsAreDead
    BY DEF Inv
  <1>. QED  BY Invariance, <1>1, PTL

(* No prompt is shown while a connected helper is alive.                   *)
THEOREM PromptsAreNeeded == Spec => PromptIsNeeded
  <1>. DEFINE Needed == \A c \in Command : pc'[c] = "prompting" /\ pc[c] # "prompting" =>
                          \A h \in Helper : ~(Running(h) /\ pipe[h] = "open")
  <1>1. ASSUME Inv, [Next]_vars PROVE [Needed]_vars
    <2>. USE Types DEF Inv
    <2>. SUFFICES ASSUME NEW c \in Command, pc'[c] = "prompting", pc[c] # "prompting",
                         NEW h \in Helper, Running(h), pipe[h] = "open"
                  PROVE  FALSE
      OBVIOUS
    <2>1. Prompt(c)
      <3>1. \A d \in Command : Prompt(d) => d = c
        BY DEF Prompt, TypeOK
      <3>2. \E d \in Command : Prompt(d)
        BY <1>1, Cases DEF StartCommand, AnswerStatus, Reuse, GoInProcess, CannotLaunch, Agree,
           Connected, FailLaunch, Establish, Return, Finish, HelperMoves, Become, UiExits, vars,
           TypeOK
      <3>. QED  BY <3>1, <3>2
    <2>2. route # h
      BY <2>1 DEF Prompt, NeedsRoute, IsAlive
    <2>3. ~Launching(h)
      BY <1>1, <2>1, OneHolder DEF Prompt, NeedsRoute, Launching, InLaunch
    <2>. QED  BY <1>1, <2>2, <2>3 DEF EveryHelperIsOwned
  <1>. QED  BY <1>1, Invariance, PTL DEF Spec, PromptIsNeeded
=============================================================================
