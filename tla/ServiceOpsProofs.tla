-------------------------- MODULE ServiceOpsProofs --------------------------
(***************************************************************************)
(* Proofs about ServiceOps: its types, and that an undo has the service    *)
(* back where it was, for any number of callers and services.              *)
(***************************************************************************)
EXTENDS ServiceOps, TLAPS

(* Records keep their type when a field gets a value of its own.           *)
LEMMA ServiceRecord ==
  ASSUME NEW s \in ServiceState
  PROVE  /\ s.start \in RawStart /\ s.run \in RunState
         /\ \A t \in RawStart : [start |-> t, run |-> s.run] \in ServiceState
         /\ \A r \in RunState : [start |-> s.start, run |-> r] \in ServiceState
BY DEF ServiceState

LEMMA PriorRecord ==
  ASSUME NEW p \in PriorState
  PROVE  /\ p.start_type \in StartType /\ p.was_running \in BOOLEAN
         /\ \A t \in StartType : [start_type |-> t, was_running |-> p.was_running] \in PriorState
         /\ \A r \in BOOLEAN : [start_type |-> p.start_type, was_running |-> r] \in PriorState
BY DEF PriorState

LEMMA ConfigRecord ==
  ASSUME NEW g \in Config
  PROVE  g.start \in RawStart /\ g.start \in StartType /\ g.stop \in BOOLEAN
BY DEF Config, RawStart

LEMMA OneMore ==
  ASSUME NEW n \in 0 .. MaxOutside, n < MaxOutside
  PROVE  n + 1 \in 0 .. MaxOutside
BY ServiceAssumption DEF ServiceAssumption

(* A service that gets another run state is a service.                     *)
LEMMA RunTypes ==
  ASSUME svc \in [Service -> ServiceState], NEW s, NEW r \in RunState,
         svc' = [svc EXCEPT ![s] = [start |-> svc[s].start, run |-> r]]
  PROVE  svc' \in [Service -> ServiceState]
<1>1. ASSUME NEW u \in Service PROVE svc'[u] \in ServiceState
  <2>1. svc[u] \in ServiceState
    OBVIOUS
  <2>2. CASE u = s
    <3>1. svc'[u] = [start |-> svc[u].start, run |-> r]
      BY <2>2
    <3> QED
      BY <2>1, <3>1, ServiceRecord
  <2>3. CASE u # s
    <3>1. svc'[u] = svc[u]
      BY <2>3
    <3> QED
      BY <2>1, <3>1
  <2> QED
    BY <2>2, <2>3
<1>2. DOMAIN svc' = Service /\ svc' = [u \in DOMAIN svc' |-> svc'[u]]
  OBVIOUS
<1> QED
  BY <1>1, <1>2, Zenon

(* Who is disturbed and who is not.                                        *)
LEMMA DisturbTypes ==
  ASSUME NEW c, NEW s, Disturb(c, s)
  PROVE  alone' \in [Caller -> BOOLEAN]
BY DEF Disturb

(* One step of anybody.                                                    *)
LEMMA TypesStep == TypeOK /\ [Next]_vars => TypeOK'
<1> SUFFICES ASSUME TypeOK, [Next]_vars PROVE TypeOK'
  OBVIOUS
<1> USE ServiceAssumption, ServiceRecord, PriorRecord, ConfigRecord
    DEF TypeOK, Call, Nobody, Goto, End, Run, SetRun, Disturb
<1>1. ASSUME NEW c \in Caller, NEW s \in Service, NEW cfg \in Configs, StartConfigure(c, s, cfg)
      PROVE TypeOK'
  BY <1>1 DEF StartConfigure
<1>2. ASSUME NEW c \in Caller, QueryConfig(c)
      PROVE TypeOK'
  BY <1>2 DEF QueryConfig, ToStartType, StartType
<1>3. ASSUME NEW c \in Caller, QueryStatus(c)
      PROVE TypeOK'
  BY <1>3 DEF QueryStatus
<1>4. ASSUME NEW c \in Caller, SetStartType(c)
      PROVE TypeOK'
  <2> of[c] \in Service => svc[of[c]] \in ServiceState
    OBVIOUS
  <2> DEFINE type == IF undoing[c] THEN prior[c].start_type ELSE config[c].start
  <2>1. type \in RawStart
    BY DEF RawStart
  <2>2. svc' \in [Service -> ServiceState]
    BY <1>4, <2>1 DEF SetStartType
  <2> QED
    BY <1>4, <2>2 DEF SetStartType
<1>5. ASSUME NEW c \in Caller, LookBeforeStop(c)
      PROVE TypeOK'
  BY <1>5 DEF LookBeforeStop
<1>6. ASSUME NEW c \in Caller, ControlStop(c)
      PROVE TypeOK'
  <2>1. svc' \in [Service -> ServiceState]
    <3>1. svc' = [svc EXCEPT ![of[c]] = [start |-> svc[of[c]].start, run |-> "stopping"]]
            \/ svc' = svc
      BY <1>6 DEF ControlStop
    <3>2. "stopping" \in RunState
      BY DEF RunState
    <3>3. svc \in [Service -> ServiceState]
      OBVIOUS
    <3> QED
      BY <3>1, <3>2, <3>3, RunTypes, Zenon
  <2>2. alone' \in [Caller -> BOOLEAN]
    <3>1. Disturb(c, of[c]) \/ UNCHANGED alone
      BY <1>6 DEF ControlStop
    <3>2. Disturb(c, of[c]) => alone' \in [Caller -> BOOLEAN]
      BY DisturbTypes, Zenon
    <3>3. UNCHANGED alone => alone' \in [Caller -> BOOLEAN]
      BY Zenon
    <3> QED
      BY <3>1, <3>2, <3>3, Zenon
  <2> QED
    BY <1>6, <2>1, <2>2 DEF ControlStop
<1>7. ASSUME NEW c \in Caller, SeenStopped(c)
      PROVE TypeOK'
  BY <1>7 DEF SeenStopped
<1>8. ASSUME NEW c \in Caller, StopTimesOut(c)
      PROVE TypeOK'
  BY <1>8 DEF StopTimesOut
<1>9. ASSUME NEW c \in Caller, StartRestore(c)
      PROVE TypeOK'
  BY <1>9 DEF StartRestore
<1>10. ASSUME NEW c \in Caller, PeekBeforeStart(c)
       PROVE TypeOK'
  BY <1>10 DEF PeekBeforeStart
<1>11. ASSUME NEW c \in Caller, Launch(c)
       PROVE TypeOK'
  <2>1. svc' \in [Service -> ServiceState]
    <3>1. svc' = [svc EXCEPT ![of[c]] = [start |-> svc[of[c]].start, run |-> "starting"]]
            \/ svc' = svc
      BY <1>11 DEF Launch
    <3>2. "starting" \in RunState
      BY DEF RunState
    <3>3. svc \in [Service -> ServiceState]
      OBVIOUS
    <3> QED
      BY <3>1, <3>2, <3>3, RunTypes, Zenon
  <2>2. alone' \in [Caller -> BOOLEAN]
    <3>1. Disturb(c, of[c]) \/ UNCHANGED alone
      BY <1>11 DEF Launch
    <3>2. Disturb(c, of[c]) => alone' \in [Caller -> BOOLEAN]
      BY DisturbTypes, Zenon
    <3>3. UNCHANGED alone => alone' \in [Caller -> BOOLEAN]
      BY Zenon
    <3> QED
      BY <3>1, <3>2, <3>3, Zenon
  <2> QED
    BY <1>11, <2>1, <2>2 DEF Launch
<1>12. ASSUME NEW c \in Caller, CallFails(c)
       PROVE TypeOK'
  BY <1>12 DEF CallFails
<1>13. ASSUME NEW s \in Service, Settle(s)
       PROVE TypeOK'
  <2>1. svc' \in [Service -> ServiceState]
    <3>1. \E r \in {"running", "stopped"} :
            svc' = [svc EXCEPT ![s] = [start |-> svc[s].start, run |-> r]]
      BY <1>13 DEF Settle
    <3>2. {"running", "stopped"} \subseteq RunState
      BY DEF RunState
    <3>3. svc \in [Service -> ServiceState]
      OBVIOUS
    <3> QED
      BY <3>1, <3>2, <3>3, RunTypes, Zenon
  <2>2. UNCHANGED <<pc, undoing, of, config, prior, result, outside, found, alone>>
    BY <1>13 DEF Settle
  <2> QED
    BY <2>1, <2>2
<1>14. ASSUME NEW s \in Service, ByItself(s)
       PROVE TypeOK'
  <2>1. svc' \in [Service -> ServiceState]
    <3>1. \E r \in {"stopped", "starting"} :
            svc' = [svc EXCEPT ![s] = [start |-> svc[s].start, run |-> r]]
      BY <1>14 DEF ByItself
    <3>2. {"stopped", "starting"} \subseteq RunState
      BY DEF RunState
    <3>3. svc \in [Service -> ServiceState]
      OBVIOUS
    <3> QED
      BY <3>1, <3>2, <3>3, RunTypes, Zenon
  <2>2. alone' \in [Caller -> BOOLEAN]
    BY <1>14 DEF ByItself
  <2>3. outside' \in 0 .. MaxOutside
    BY <1>14, OneMore DEF ByItself
  <2>4. UNCHANGED <<pc, undoing, of, config, prior, result, found>>
    BY <1>14 DEF ByItself
  <2> QED
    BY <2>1, <2>2, <2>3, <2>4
<1>15. CASE UNCHANGED vars
  BY <1>15 DEF vars
<1> QED
  BY <1>1, <1>2, <1>3, <1>4, <1>5, <1>6, <1>7, <1>8, <1>9, <1>10, <1>11, <1>12, <1>13, <1>14,
     <1>15 DEF Next, Step

LEMMA InitTypes == Init => TypeOK
  BY ServiceAssumption DEF Init, TypeOK, ServiceState, RawStart, StartType, RunState, Config,
     PriorState, NoConfig, NoPrior, Nobody

(* Every reachable state is well-typed.                                    *)
THEOREM ServiceTypes == Spec => []TypeOK
  BY InitTypes, TypesStep, PTL DEF Spec

-----------------------------------------------------------------------------
(* The inductive invariant: how a caller whom nobody disturbs finds its    *)
(* service, from the state it found to the state it puts back.             *)
Up(run) == run \in {"starting", "running"}

Reported(c) ==
  undoing[c] \/ pc[c] \in {"change", "look", "control", "wait", "set", "peek", "launch"}

(* Which calls belong to a change and which to an undo.                    *)
Place(c) ==
  /\ of[c] \in Service
  /\ pc[c] \in {"config", "status", "control", "wait", "set"} => ~undoing[c]
  /\ pc[c] \in {"peek", "launch"} => undoing[c] /\ prior[c].was_running
  /\ pc[c] = "look" /\ undoing[c] => ~prior[c].was_running

(* The report is what the caller found ...                                 *)
Report(c) ==
  /\ pc[c] = "status" \/ Reported(c) => prior[c].start_type = ToStartType(found[c].start)
  /\ Reported(c) => /\ Up(found[c].run) => prior[c].was_running
                    /\ found[c].run = "stopped" => ~prior[c].was_running
                    /\ ~prior[c].was_running => Run(c) = "stopped"

(* ... the service goes from there only where the caller sends it ...      *)
Course(c) ==
  /\ pc[c] = "config" => svc[of[c]].start = found[c].start
  /\ pc[c] \in {"config", "status"} => (found[c].run = "stopped" => Run(c) = "stopped")
  /\ Up(found[c].run) =>
       /\ pc[c] \in {"config", "status", "control"} => Up(Run(c))
       /\ pc[c] \in {"change", "look"} /\ ~undoing[c] => Up(Run(c))
       /\ pc[c] \in {"set", "peek", "launch"} => Run(c) # "stopping"
       /\ pc[c] = "change" => Run(c) # "stopping"
  /\ pc[c] = "launch" => Run(c) = "stopped"
  /\ undoing[c] /\ pc[c] \in {"look", "peek", "launch"} =>
       svc[of[c]].start = prior[c].start_type

(* ... and the undo has it back, or has found it disabled.                 *)
Outcome(c) ==
  undoing[c] /\ pc[c] = "done" =>
    /\ result[c] = "ok" => /\ svc[of[c]].start = prior[c].start_type
                           /\ Up(found[c].run) => Up(Run(c))
    /\ result[c] \notin {"ok", "refused"} =>
         result[c] = "disabled" /\ found[c].start = "Disabled" /\ prior[c].was_running

Track(c) ==
  /\ pc[c] = "idle" => ~undoing[c]
  /\ alone[c] => Place(c) /\ Report(c) /\ Course(c) /\ Outcome(c)

Tracked == TypeOK /\ \A c \in Caller : Track(c)

(* Whom a step leaves alone goes on as before.                             *)
LEMMA Bystander ==
  ASSUME NEW d \in Caller, Track(d),
         pc'[d] = pc[d], undoing'[d] = undoing[d], of'[d] = of[d], prior'[d] = prior[d],
         result'[d] = result[d], found'[d] = found[d],
         alone'[d] => alone[d] /\ svc'[of[d]] = svc[of[d]]
  PROVE  Track(d)'
BY DEF Track, Place, Report, Reported, Course, Outcome, Run

(* A service that settles stays on its way.                                *)
LEMMA SettleTrack ==
  ASSUME NEW d \in Caller, TypeOK, Track(d), NEW s \in Service, Settle(s)
  PROVE  Track(d)'
<1>1. CASE of[d] # s
  <2>1. alone[d] => svc'[of[d]] = svc[of[d]]
    BY <1>1 DEF Settle, TypeOK, Track, Place
  <2> QED
    BY <2>1, Bystander DEF Settle
<1>2. CASE of[d] = s
  <2>1. svc'[s].start = svc[s].start
    BY DEF Settle, TypeOK
  <2>2. svc'[s].run = IF svc[s].run = "starting" THEN "running" ELSE "stopped"
    BY DEF Settle, TypeOK
  <2>3. svc[s].run \in {"starting", "stopping"}
    BY DEF Settle
  <2> QED
    BY <1>2, <2>1, <2>2, <2>3 DEF Settle, Track, Place, Report, Reported, Course, Outcome, Run, Up
<1> QED
  BY <1>1, <1>2

(* What a caller does itself.                                              *)
LEMMA OwnTrack ==
  ASSUME NEW c \in Caller, TypeOK, Track(c), Step(c)
  PROVE  Track(c)'
<1> USE DEF Track, Place, Report, Reported, Course, Outcome, Run, Up, Goto, End
<1> DEFINE s == of[c]
<1>0. s \in Service => svc[s].run \in RunState
  BY ServiceRecord DEF TypeOK
<1>1. CASE QueryConfig(c)
  BY <1>1 DEF QueryConfig, TypeOK
<1>2. CASE QueryStatus(c)
  BY <1>2 DEF QueryStatus, TypeOK
<1>3. CASE SetStartType(c)
  BY <1>3, ZenonT(60) DEF SetStartType, TypeOK, Disturb
<1>4. CASE LookBeforeStop(c)
  BY <1>4 DEF LookBeforeStop, TypeOK
<1>5. CASE ControlStop(c)
  BY <1>5 DEF ControlStop, TypeOK, SetRun, Disturb
<1>6. CASE SeenStopped(c)
  BY <1>6 DEF SeenStopped, TypeOK
<1>7. CASE StopTimesOut(c)
  BY <1>7 DEF StopTimesOut, TypeOK
<1>8. CASE StartRestore(c)
  BY <1>8 DEF StartRestore, TypeOK
<1>9. CASE PeekBeforeStart(c)
  BY <1>0, <1>9, ZenonT(60) DEF PeekBeforeStart, TypeOK, RunState
<1>10. CASE Launch(c)
  <2>1. CASE Run(c) = "stopped" /\ svc[s].start # "Disabled"
    <3>1. ASSUME s \in Service PROVE svc'[s] = [start |-> svc[s].start, run |-> "starting"]
      BY <1>10, <2>1, <3>1 DEF Launch, TypeOK, SetRun
    <3>2. alone'[c] => alone[c]
      BY <1>10, <2>1 DEF Launch, TypeOK, SetRun, Disturb
    <3>3. pc[c] = "launch" /\ pc'[c] \in {"set", "done"} /\ (undoing[c] => pc'[c] = "done")
      BY <1>10, <2>1 DEF Launch, TypeOK
    <3>4. undoing' = undoing /\ of' = of /\ prior' = prior /\ found' = found /\ result'[c] = "ok"
      BY <1>10, <2>1 DEF Launch, TypeOK
    <3>5. CASE alone[c]
      BY <3>1, <3>3, <3>4, <3>5
    <3>6. CASE ~alone[c]
      BY <3>2, <3>3, <3>6
    <3> QED
      BY <3>5, <3>6
  <2>2. CASE Run(c) = "stopped" /\ svc[s].start = "Disabled"
    <3>1. ASSUME alone[c] PROVE found[c].start = "Disabled"
      BY <1>10, <2>2, <3>1 DEF Launch, ToStartType
    <3> QED
      BY <1>10, <2>2, <3>1 DEF Launch, TypeOK
  <2>3. CASE Run(c) # "stopped"
    BY <1>10, <2>3 DEF Launch, TypeOK
  <2> QED
    BY <2>1, <2>2, <2>3
<1>11. CASE CallFails(c)
  BY <1>11 DEF CallFails, TypeOK, Call
<1> QED
  BY <1>1, <1>2, <1>3, <1>4, <1>5, <1>6, <1>7, <1>8, <1>9, <1>10, <1>11 DEF Step

(* What a caller does to another.                                          *)
LEMMA OthersTrack ==
  ASSUME NEW c \in Caller, NEW d \in Caller \ {c}, TypeOK, Track(d), Step(c)
  PROVE  Track(d)'
<1>1. /\ pc'[d] = pc[d] /\ undoing'[d] = undoing[d] /\ of'[d] = of[d]
      /\ prior'[d] = prior[d] /\ result'[d] = result[d] /\ found'[d] = found[d]
  <2> USE DEF TypeOK, Goto, End
  <2>1. CASE QueryConfig(c) \/ QueryStatus(c) \/ LookBeforeStop(c) \/ SeenStopped(c)
             \/ StopTimesOut(c) \/ StartRestore(c) \/ PeekBeforeStart(c) \/ CallFails(c)
    BY <2>1 DEF QueryConfig, QueryStatus, LookBeforeStop, SeenStopped, StopTimesOut,
                StartRestore, PeekBeforeStart, CallFails
  <2>2. CASE SetStartType(c)
    BY <2>2 DEF SetStartType
  <2>3. CASE ControlStop(c)
    BY <2>3 DEF ControlStop
  <2>4. CASE Launch(c)
    BY <2>4 DEF Launch
  <2> QED
    BY <2>1, <2>2, <2>3, <2>4 DEF Step
<1>2. ASSUME alone'[d] PROVE alone[d] /\ svc'[of[d]] = svc[of[d]]
  <2>1. CASE UNCHANGED <<svc, alone>>
    BY <1>2, <2>1
  <2>2. CASE Disturb(c, of[c]) /\ \E v : svc' = [svc EXCEPT ![of[c]] = v]
    <3>1. alone[d] /\ of[d] # of[c]
      BY <1>2, <2>2 DEF Disturb
    <3>2. of[d] \in Service
      BY <3>1 DEF Track, Place
    <3> QED
      BY <2>2, <3>1, <3>2 DEF TypeOK
  <2> QED
    BY <2>1, <2>2 DEF Step, QueryConfig, QueryStatus, LookBeforeStop, SeenStopped, StopTimesOut,
       StartRestore, PeekBeforeStart, CallFails, SetStartType, ControlStop, Launch, SetRun
<1> QED
  BY <1>1, <1>2, Bystander

LEMMA TrackedStep == Tracked /\ [Next]_vars => Tracked'
<1> SUFFICES ASSUME Tracked, [Next]_vars PROVE Tracked'
  OBVIOUS
<1> USE DEF Tracked
<1>0. TypeOK'
  BY TypesStep
<1>1. ASSUME NEW d \in Caller PROVE Track(d)'
  <2>1. ASSUME NEW c \in Caller, Step(c) PROVE Track(d)'
    BY <2>1, OwnTrack, OthersTrack
  <2>2. ASSUME NEW c \in Caller, NEW s \in Service, NEW cfg \in Configs, StartConfigure(c, s, cfg)
        PROVE Track(d)'
    <3>1. CASE d = c
      BY <2>2, <3>1 DEF StartConfigure, TypeOK, Goto, Track, Place, Report, Reported, Course,
                        Outcome, Run
    <3>2. CASE d # c
      BY <2>2, <3>2, Bystander DEF StartConfigure, TypeOK, Goto
    <3> QED
      BY <3>1, <3>2
  <2>3. ASSUME NEW s \in Service, Settle(s) PROVE Track(d)'
    BY <2>3, SettleTrack
  <2>4. ASSUME NEW s \in Service, ByItself(s) PROVE Track(d)'
    <3>1. ASSUME alone'[d] PROVE alone[d] /\ svc'[of[d]] = svc[of[d]]
      <4>1. alone[d] /\ of[d] # s
        BY <2>4, <3>1 DEF ByItself
      <4>2. of[d] \in Service
        BY <4>1 DEF Track, Place
      <4> QED
        BY <2>4, <4>1, <4>2 DEF ByItself, TypeOK
    <3> QED
      BY <2>4, <3>1, Bystander DEF ByItself
  <2>5. CASE UNCHANGED vars
    BY <2>5, Bystander DEF vars
  <2> QED
    BY <2>1, <2>2, <2>3, <2>4, <2>5 DEF Next
<1> QED
  BY <1>0, <1>1

THEOREM Tracking == Spec => []Tracked
<1>1. Init => Tracked
  <2> SUFFICES ASSUME Init PROVE Tracked
    OBVIOUS
  <2>1. TypeOK
    BY InitTypes
  <2>2. \A c \in Caller : ~alone[c] /\ ~undoing[c]
    BY DEF Init
  <2> QED
    BY <2>1, <2>2 DEF Tracked, Track
<1> QED
  BY <1>1, TrackedStep, PTL DEF Spec

(* An undo that reports success has a service that nobody else touched     *)
(* back at its start type, and running or not as it was found.             *)
THEOREM ServicesArePutBack == Spec => []ServiceIsPutBack
<1>1. Tracked => ServiceIsPutBack
  BY DEF Tracked, Track, Place, Report, Reported, Outcome, ServiceIsPutBack, Undone, Run, Up
<1> QED
  BY <1>1, Tracking, PTL

(* If Windows refuses no call, such an undo fails for a service alone that *)
(* was found disabled and not stopped.                                     *)
THEOREM UndoIsPossible == Spec => []UndoFailsOnlyIfDisabled
<1>1. Tracked => UndoFailsOnlyIfDisabled
  BY DEF Tracked, Track, Place, Report, Reported, Outcome, UndoFailsOnlyIfDisabled, Undone
<1> QED
  BY <1>1, Tracking, PTL
=============================================================================
