--------------------------- MODULE BrokerSession ---------------------------
(***************************************************************************)
(* A conversation between the UI and the elevated helper:                  *)
(* crates/sio-winsys/src/broker.rs (Session, its reader task, serve and    *)
(* execute), over the frames of crates/sio-core/src/protocol.rs and        *)
(* codec.rs, with the process crates/sio-broker/src/main.rs around serve.  *)
(*                                                                         *)
(* On the UI side there are the callers of `Session::request` and one      *)
(* reader task; on the other the helper's reading loop and, for each       *)
(* request, a task and the forwarder of its progress.  They interleave at  *)
(* every await: each lock, each frame sent or read, each answer awaited.   *)
(***************************************************************************)
EXTENDS Naturals, Sequences

CONSTANTS
  Request,    \* the requests, each with its id
  Streaming,  \* those that run a package manager and stream its progress
  MaxUpdates, \* bound: how many progress updates one operation makes
  PipeSize,   \* bound: how many frames each direction of the pipe holds
  Hellos,     \* does the helper's hello verify: {TRUE}, or a stale helper too
  Faults      \* what may go wrong

FaultKind == {"dies", "oversized"}

ASSUME StreamingAssumption == Streaming \subseteq Request
ASSUME BoundsAssumption ==
  /\ MaxUpdates \in Nat
  /\ PipeSize \in Nat \ {0}
  /\ Hellos \subseteq BOOLEAN
  /\ Faults \subseteq FaultKind

VARIABLES
  ui,        \* the UI's end of the conversation
  helper,    \* the helper process
  toHelper,  \* the frames on their way to the helper ...
  toUi,      \* ... and to the UI
  caller,    \* where each caller of `request` is
  answer,    \* what its oneshot holds
  pending,   \* Session::pending: the requests whose oneshot is not used yet
  sinks,     \* Session::sinks: the requests whose progress sink is kept
  reader,    \* the UI's reader task
  settling,  \* the responses it has in hand: at most one
  task,      \* the helper's task for each request
  effect,    \* what came of each operation
  said,      \* the progress updates each operation made,
  forwarded, \* those its forwarder took from its channel,
  heard      \* those that reached the sink of the caller

uiVars == <<caller, answer, pending, sinks, reader, settling, heard>>
helperVars == <<task, effect, said, forwarded>>
vars == <<ui, helper, toHelper, toUi, uiVars, helperVars>>

(* ServerFrame, and ClientFrame.  The UI cannot read a frame above         *)
(* MAX_FRAME_BYTES.                                                        *)
Accept       == [kind |-> "accept"]
Reject       == [kind |-> "reject"]
Shutdown     == [kind |-> "shutdown"]
Ask(r)       == [kind |-> "request", id |-> r]
ServerFrame  == {Accept, Reject, Shutdown} \cup {Ask(r) : r \in Request}

Hello(good)    == [kind |-> "hello", good |-> good]
Progress(r)    == [kind |-> "progress", id |-> r]
Response(r, e) == [kind |-> "response", id |-> r, result |-> e]
Oversized      == [kind |-> "oversized"]
ClientFrame ==
  {Hello(g) : g \in BOOLEAN} \cup {Progress(r) : r \in Request}
  \cup {Response(r, e) : r \in Request, e \in {"done", "refused"}} \cup {Oversized}

(* The two ends of the pipe are open.                                      *)
Attached  == ui \in {"greeting", "open"}
Listening == helper \in {"starting", "greeted", "serving"}

Room(pipe) == Len(pipe) < PipeSize
FrontIs(pipe, kind) == pipe # << >> /\ Head(pipe).kind = kind

(* The other end having closed, what was on its way may still be read, or  *)
(* the first part of it.                                                   *)
Truncated(pipe) == {SubSeq(pipe, 1, n) : n \in 0 .. Len(pipe)}

(* A frame sent to the UI: an error when its end is closed.                *)
SendToUi(frame) ==
  IF Attached THEN Room(toUi) /\ toUi' = Append(toUi, frame) ELSE UNCHANGED toUi

Init ==
  /\ ui = "greeting"
  /\ helper = "starting"
  /\ toHelper = << >>
  /\ toUi = << >>
  /\ caller = [r \in Request |-> "idle"]
  /\ answer = [r \in Request |-> "none"]
  /\ pending = {}
  /\ sinks = {}
  /\ reader = "off"
  /\ settling = << >>
  /\ task = [r \in Request |-> "none"]
  /\ effect = [r \in Request |-> "none"]
  /\ said = [r \in Request |-> 0]
  /\ forwarded = [r \in Request |-> 0]
  /\ heard = [r \in Request |-> 0]

-----------------------------------------------------------------------------
(* The UI: handshake.                                                      *)

(* `handshake` reads the hello, and accepts it or refuses the helper.      *)
ReadHello ==
  /\ ui = "greeting"
  /\ FrontIs(toUi, "hello")
  /\ toUi' = Tail(toUi)
  /\ \/ /\ Head(toUi).good
        /\ Listening
        /\ toHelper' = Append(toHelper, Accept)
        /\ ui' = "open"
        /\ reader' = "reading"
     \/ /\ ~Head(toUi).good
        /\ toHelper' \in Truncated(Append(toHelper, Reject))
        /\ ui' = "refused"
        /\ UNCHANGED reader
  /\ UNCHANGED <<helper, caller, answer, pending, sinks, settling, heard, helperVars>>

(* The helper went away before its hello, or before it could be accepted.  *)
NoHello ==
  /\ ui = "greeting"
  /\ ~Listening
  /\ ui' = "refused"
  /\ toUi' = << >>
  /\ UNCHANGED <<helper, toHelper, uiVars, helperVars>>

-----------------------------------------------------------------------------
(* The UI: `request`.                                                      *)

Goto(r, label) == caller' = [caller EXCEPT ![r] = label]

Register(r) ==
  /\ ui = "open"
  /\ caller[r] = "idle"
  /\ Goto(r, "registered")
  /\ pending' = pending \cup {r}
  /\ UNCHANGED <<ui, helper, toHelper, toUi, answer, sinks, reader, settling, heard, helperVars>>

KeepSink(r) ==
  /\ caller[r] = "registered"
  /\ Goto(r, "sending")
  /\ sinks' = sinks \cup {r}
  /\ UNCHANGED <<ui, helper, toHelper, toUi, answer, pending, reader, settling, heard, helperVars>>

Send(r) ==
  /\ caller[r] = "sending"
  /\ Listening
  /\ Room(toHelper)
  /\ toHelper' = Append(toHelper, Ask(r))
  /\ Goto(r, "waiting")
  /\ UNCHANGED <<ui, helper, toUi, answer, pending, sinks, reader, settling, heard, helperVars>>

(* Mutant: the error of the send is ignored.                               *)
SendFailsUnseen(r) ==
  /\ caller[r] = "sending"
  /\ ~Listening
  /\ Goto(r, "waiting")
  /\ UNCHANGED <<ui, helper, toHelper, toUi, answer, pending, sinks, reader, settling, heard,
                 helperVars>>

(* The pipe is broken: the request is taken back, and then its sink.       *)
SendFails(r) ==
  /\ caller[r] = "sending"
  /\ ~Listening
  /\ Goto(r, "withdrawing")
  /\ pending' = pending \ {r}
  /\ UNCHANGED <<ui, helper, toHelper, toUi, answer, sinks, reader, settling, heard, helperVars>>

Withdraw(r) ==
  /\ caller[r] = "withdrawing"
  /\ Goto(r, "returned")
  /\ sinks' = sinks \ {r}
  /\ answer' = [answer EXCEPT ![r] = "lost"]
  /\ UNCHANGED <<ui, helper, toHelper, toUi, pending, reader, settling, heard, helperVars>>

Return(r) ==
  /\ caller[r] = "waiting"
  /\ answer[r] # "none"
  /\ Goto(r, "returned")
  /\ UNCHANGED <<ui, helper, toHelper, toUi, answer, pending, sinks, reader, settling, heard,
                 helperVars>>

(* `install_apps` ends when nobody is left to send on its progress sink.   *)
Finish(r) ==
  /\ caller[r] = "returned"
  /\ r \in Streaming => r \notin sinks
  /\ Goto(r, "finished")
  /\ UNCHANGED <<ui, helper, toHelper, toUi, answer, pending, sinks, reader, settling, heard,
                 helperVars>>

AskToLeave ==
  /\ ui = "open"
  /\ Listening
  /\ Room(toHelper)
  /\ toHelper' = Append(toHelper, Shutdown)
  /\ UNCHANGED <<ui, helper, toUi, uiVars, helperVars>>

-----------------------------------------------------------------------------
(* The UI: the reader task.                                                *)

(* Mutant: the frame is looked at, and not taken from the pipe.            *)
PeekProgress ==
  /\ reader = "reading"
  /\ settling = << >>
  /\ FrontIs(toUi, "progress")
  /\ heard' = [r \in Request |->
        IF r = Head(toUi).id /\ r \in sinks THEN heard[r] + 1 ELSE heard[r]]
  /\ UNCHANGED <<ui, helper, toHelper, toUi, caller, answer, pending, sinks, reader, settling,
                 helperVars>>

ReadProgress ==
  /\ reader = "reading"
  /\ settling = << >>
  /\ FrontIs(toUi, "progress")
  /\ toUi' = Tail(toUi)
  /\ heard' = [r \in Request |->
        IF r = Head(toUi).id /\ r \in sinks THEN heard[r] + 1 ELSE heard[r]]
  /\ UNCHANGED <<ui, helper, toHelper, caller, answer, pending, sinks, reader, settling, helperVars>>

(* Mutant: the sink stays when the response arrives.                       *)
ReadResponseOnly ==
  /\ reader = "reading"
  /\ settling = << >>
  /\ FrontIs(toUi, "response")
  /\ toUi' = Tail(toUi)
  /\ settling' = <<Head(toUi)>>
  /\ UNCHANGED <<ui, helper, toHelper, caller, answer, pending, sinks, reader, heard, helperVars>>

(* A response: its sink is dropped, and then its caller answered.          *)
ReadResponse ==
  /\ reader = "reading"
  /\ settling = << >>
  /\ FrontIs(toUi, "response")
  /\ toUi' = Tail(toUi)
  /\ sinks' = sinks \ {Head(toUi).id}
  /\ settling' = <<Head(toUi)>>
  /\ UNCHANGED <<ui, helper, toHelper, caller, answer, pending, reader, heard, helperVars>>

ToldBy(result) == IF result = "done" THEN "ok" ELSE "failed"

(* Mutant: responses are taken to come in the order of the requests.       *)
SettleAnyone ==
  /\ reader = "reading"
  /\ settling # << >>
  /\ \E r \in pending :
       /\ pending' = pending \ {r}
       /\ answer' = [answer EXCEPT ![r] = ToldBy(Head(settling).result)]
  /\ settling' = << >>
  /\ UNCHANGED <<ui, helper, toHelper, toUi, caller, sinks, reader, heard, helperVars>>

Settle ==
  /\ reader = "reading"
  /\ settling # << >>
  /\ LET f == Head(settling) IN
       /\ pending' = pending \ {f.id}
       /\ answer' = IF f.id \in pending THEN [answer EXCEPT ![f.id] = ToldBy(f.result)] ELSE answer
  /\ settling' = << >>
  /\ UNCHANGED <<ui, helper, toHelper, toUi, caller, sinks, reader, heard, helperVars>>

(* The reader stops at the end of the pipe, or at a frame it cannot read.  *)
StopReading ==
  /\ reader = "reading"
  /\ settling = << >>
  /\ \/ toUi = << >> /\ ~Listening
     \/ FrontIs(toUi, "oversized")
  /\ reader' = "draining"
  /\ UNCHANGED <<ui, helper, toHelper, toUi, caller, answer, pending, sinks, settling, heard,
                 helperVars>>

(* Mutant: the reader just ends.                                           *)
DrainNothing ==
  /\ reader = "draining"
  /\ reader' = "ended"
  /\ UNCHANGED <<ui, helper, toHelper, toUi, caller, answer, pending, sinks, settling, heard,
                 helperVars>>

(* Every outstanding request fails.  No sink is dropped.                   *)
Drain ==
  /\ reader = "draining"
  /\ reader' = "ended"
  /\ pending' = {}
  /\ answer' = [r \in Request |-> IF r \in pending THEN "lost" ELSE answer[r]]
  /\ UNCHANGED <<ui, helper, toHelper, toUi, caller, sinks, settling, heard, helperVars>>

(* The UI process ends, and with it its end of the pipe.                   *)
UiExits ==
  /\ ui = "open"
  /\ ui' = "gone"
  /\ toHelper' \in Truncated(toHelper)
  /\ toUi' = << >>
  /\ caller' = [r \in Request |->
        IF caller[r] \in {"idle", "returned", "finished"} THEN caller[r] ELSE "abandoned"]
  /\ pending' = {}
  /\ sinks' = {}
  /\ reader' = "off"
  /\ settling' = << >>
  /\ UNCHANGED <<helper, answer, heard, helperVars>>

-----------------------------------------------------------------------------
(* The helper: handshake and reading loop.                                 *)

SayHello ==
  /\ helper = "starting"
  /\ Attached
  /\ helper' = "greeted"
  /\ \E good \in Hellos : toUi' = Append(toUi, Hello(good))
  /\ UNCHANGED <<ui, toHelper, uiVars, helperVars>>

BeginServing ==
  /\ helper = "greeted"
  /\ FrontIs(toHelper, "accept")
  /\ toHelper' = Tail(toHelper)
  /\ helper' = "serving"
  /\ UNCHANGED <<ui, toUi, uiVars, helperVars>>

(* Each request is carried out by a task of its own.                       *)
ReadRequest ==
  /\ helper = "serving"
  /\ FrontIs(toHelper, "request")
  /\ toHelper' = Tail(toHelper)
  /\ task' = [task EXCEPT ![Head(toHelper).id] = "running"]
  /\ UNCHANGED <<ui, helper, toUi, uiVars, effect, said, forwarded>>

Running == {r \in Request : task[r] = "running"}

(* The helper ends, and its tasks with it; no answer to them is sent.      *)
Leave(survivors) ==
  /\ helper' = "leaving"
  /\ toHelper' = << >>
  /\ toUi' \in Truncated(toUi)
  /\ task' = [r \in Request |-> IF r \in survivors THEN "running" ELSE "none"]
  /\ UNCHANGED <<ui, uiVars, effect, said, forwarded>>

(* Mutant: the end of the pipe is not told from a frame to ignore.         *)
StopWhenAsked ==
  /\ Listening
  /\ \/ helper = "greeted" /\ FrontIs(toHelper, "reject")
     \/ helper = "serving" /\ FrontIs(toHelper, "shutdown")
  /\ Leave(Running \ Streaming)

(* Refused, asked to leave, or the UI gone, the helper leaves.  A blocking *)
(* operation goes on to its end, a package manager is killed.              *)
StopServing ==
  /\ Listening
  /\ \/ ~Attached /\ (helper = "starting" \/ toHelper = << >>)
     \/ helper = "greeted" /\ FrontIs(toHelper, "reject")
     \/ helper = "serving" /\ FrontIs(toHelper, "shutdown")
  /\ Leave(Running \ Streaming)

(* The helper is killed or crashes; a child process may survive it.        *)
HelperDies ==
  /\ "dies" \in Faults
  /\ Listening
  /\ \E survivors \in SUBSET Running : Leave(survivors)

(* Nothing of the helper is left.                                          *)
Gone ==
  /\ helper = "leaving"
  /\ Running = {}
  /\ helper' = "gone"
  /\ UNCHANGED <<ui, toHelper, toUi, uiVars, helperVars>>

-----------------------------------------------------------------------------
(* The helper: the task of a request.                                      *)

EndsIn(r, label) == task' = [task EXCEPT ![r] = label]

(* The operation is over; the task of a streaming one now waits for the    *)
(* forwarder to come to the end of its channel.                            *)
Perform(r) ==
  /\ task[r] = "running"
  /\ \E e \in {"done", "refused"} : effect' = [effect EXCEPT ![r] = e]
  /\ EndsIn(r, IF helper # "serving" THEN "none"
               ELSE IF r \in Streaming THEN "forwarding" ELSE "replying")
  /\ UNCHANGED <<ui, helper, toHelper, toUi, uiVars, said, forwarded>>

MakeProgress(r) ==
  /\ helper = "serving"
  /\ task[r] = "running"
  /\ r \in Streaming
  /\ said[r] < MaxUpdates
  /\ said' = [said EXCEPT ![r] = @ + 1]
  /\ UNCHANGED <<ui, helper, toHelper, toUi, uiVars, task, effect, forwarded>>

Forward(r) ==
  /\ helper = "serving"
  /\ task[r] \in {"running", "forwarding"}
  /\ forwarded[r] < said[r]
  /\ SendToUi(Progress(r))
  /\ forwarded' = [forwarded EXCEPT ![r] = @ + 1]
  /\ UNCHANGED <<ui, helper, toHelper, uiVars, task, effect, said>>

(* Mutant: the forwarder is not awaited.                                   *)
ForwarderLeftBehind(r) ==
  /\ task[r] = "forwarding"
  /\ EndsIn(r, "replying")
  /\ UNCHANGED <<ui, helper, toHelper, toUi, uiVars, effect, said, forwarded>>

ForwarderEnds(r) ==
  /\ task[r] = "forwarding"
  /\ forwarded[r] = said[r]
  /\ EndsIn(r, "replying")
  /\ UNCHANGED <<ui, helper, toHelper, toUi, uiVars, effect, said, forwarded>>

(* The reply, which a large value may make too long for the UI to read.    *)
(* When the UI is gone neither it nor the fallback goes out.               *)
Reply(r) ==
  /\ task[r] = "replying"
  /\ \/ SendToUi(Response(r, effect[r]))
     \/ /\ "oversized" \in Faults
        /\ effect[r] = "done"
        /\ r \notin Streaming
        /\ SendToUi(Oversized)
  /\ EndsIn(r, "none")
  /\ UNCHANGED <<ui, helper, toHelper, uiVars, effect, said, forwarded>>

-----------------------------------------------------------------------------
CallerStep(r) ==
  \/ KeepSink(r)
  \/ Send(r)
  \/ SendFails(r)
  \/ Withdraw(r)
  \/ Return(r)
  \/ Finish(r)

ReaderStep ==
  \/ ReadProgress
  \/ ReadResponse
  \/ Settle
  \/ StopReading
  \/ Drain

HelperStep ==
  \/ SayHello
  \/ BeginServing
  \/ ReadRequest
  \/ StopServing
  \/ Gone

TaskStep(r) ==
  \/ Perform(r)
  \/ Forward(r)
  \/ ForwarderEnds(r)
  \/ Reply(r)

Next ==
  \/ ReadHello
  \/ NoHello
  \/ ReaderStep
  \/ HelperStep
  \/ HelperDies
  \/ AskToLeave
  \/ UiExits
  \/ \E r \in Request : Register(r) \/ CallerStep(r) \/ TaskStep(r) \/ MakeProgress(r)

Spec == Init /\ [][Next]_vars

(* Both runtimes go on with every task, and every operation ends.  Nobody  *)
(* has to ask for anything, and no fault has to happen.                    *)
FairSpec ==
  /\ Spec
  /\ WF_vars(ReadHello)
  /\ WF_vars(NoHello)
  /\ WF_vars(ReaderStep)
  /\ WF_vars(HelperStep)
  /\ \A r \in Request : WF_vars(CallerStep(r)) /\ WF_vars(TaskStep(r))

-----------------------------------------------------------------------------
(* Properties.                                                             *)

CallerState == {"idle", "registered", "sending", "waiting", "withdrawing",
                "returned", "finished", "abandoned"}

TypeOK ==
  /\ ui \in {"greeting", "refused", "open", "gone"}
  /\ helper \in {"starting", "greeted", "serving", "leaving", "gone"}
  /\ toHelper \in Seq(ServerFrame)
  /\ toUi \in Seq(ClientFrame)
  /\ caller \in [Request -> CallerState]
  /\ answer \in [Request -> {"none", "ok", "failed", "lost"}]
  /\ pending \subseteq Request
  /\ sinks \subseteq Request
  /\ reader \in {"off", "reading", "draining", "ended"}
  /\ settling \in Seq({Response(r, e) : r \in Request, e \in {"done", "refused"}})
  /\ task \in [Request -> {"none", "running", "forwarding", "replying"}]
  /\ effect \in [Request -> {"none", "done", "refused"}]
  /\ said \in [Request -> 0 .. MaxUpdates]
  /\ forwarded \in [Request -> 0 .. MaxUpdates]
  /\ heard \in [Request -> 0 .. MaxUpdates]

(* When the helper's answer reaches the caller, so has every progress      *)
(* update of the operation: the task waits for its forwarder before it     *)
(* replies, and the reader hands frames on in their order.                 *)
ProgressIsComplete ==
  \A r \in Request : answer[r] \in {"ok", "failed"} => heard[r] = said[r]

(* Once the reader has ended, nobody awaits an oneshot that nobody is left *)
(* to send on: "fail every outstanding request rather than leaving callers *)
(* awaiting a reply that can never arrive" (broker.rs:210).                *)
NobodyIsForgotten ==
  reader = "ended" => \A r \in Request : caller[r] = "waiting" => answer[r] # "none"

(* While the reader runs, a call that has returned has no sink left, so    *)
(* that `install_apps` sees its progress channel close.                    *)
SinksAreReleased ==
  reader = "reading" =>
    \A r \in Request : caller[r] \in {"returned", "finished"} => r \notin sinks

(* Every call returns, whatever becomes of the helper (test at             *)
(* broker.rs:741: "rather than hanging forever").                          *)
Asked(r) == caller[r] \in {"registered", "sending", "waiting", "withdrawing"}
EveryCallReturns == \A r \in Request : Asked(r) ~> ~Asked(r)

(* A helper whose UI has refused it or is gone ends: it "must exit rather  *)
(* than linger with elevated rights" (pipe_roundtrip.rs:171).              *)
HelperLeaves == ui \in {"refused", "gone"} ~> helper = "gone"

(* A session is a PrivilegedCall: no operation takes effect twice, and a   *)
(* caller is told what came of its own operation or that it is lost.       *)
Called(r) ==
  IF Asked(r) THEN "asked"
  ELSE IF caller[r] \in {"returned", "finished"} THEN "returned" ELSE caller[r]
Told(r) == IF Called(r) = "returned" THEN answer[r] ELSE "none"

Call == INSTANCE PrivilegedCall WITH
          call    <- [r \in Request |-> Called(r)],
          outcome <- [r \in Request |-> Told(r)]
CallSpec == Call!Spec
============================================================================
