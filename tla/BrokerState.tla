---------------------------- MODULE BrokerState ----------------------------
(***************************************************************************)
(* How commands come by the privileged operations:                         *)
(* apps/desktop/src-tauri/src/broker_state.rs (BrokerState and its Route), *)
(* Session::launch in crates/sio-winsys/src/broker.rs, and the process it  *)
(* starts, crates/sio-broker/src/main.rs with elevation.rs.                *)
(*                                                                         *)
(* The commands of the UI queue for the mutex around the route.  Whoever   *)
(* holds it keeps it over the whole launch of a helper: the prompt, the    *)
(* wait for the process to connect, the handshake.  What is said over the  *)
(* pipe after that is BrokerSession; here a call is one step.              *)
(***************************************************************************)
EXTENDS Naturals, Sequences

CONSTANTS
  Command, \* tasks of the UI that use the helper or ask about it
  MaxGets  \* bound: how often the user starts one

ASSUME BoundsAssumption == MaxGets \in Nat

(* What the user starts is numbered, and a helper has the number of the    *)
(* command that launched it: each launches at most one.                    *)
Helper    == 1 .. MaxGets
NoRoute   == 0
InProcess == MaxGets + 1
Route     == Helper \cup {NoRoute, InProcess}

VARIABLES
  ui,       \* the UI process
  elevated, \* it was started as administrator
  queue,    \* the commands at the mutex in their order; the first one holds it
  pc,       \* where each command is
  handle,   \* the route each command works with
  route,    \* BrokerState::inner
  helper,   \* the process of each launch
  pipe,     \* the UI's end of the pipe made for it
  number,   \* the number of each command until its turn at the mutex is over
  gets      \* how many commands the user started

vars == <<ui, elevated, queue, pc, handle, route, helper, pipe, number, gets>>

Running(h)  == helper[h] \in {"starting", "connected", "greeted"}
HasMutex(c) == queue # << >> /\ Head(queue) = c

Prompting   == {c \in Command : pc[c] = "prompting"}

(* Route::is_alive                                                         *)
IsAlive(r) == r = InProcess \/ (r \in Helper /\ Running(r))

Init ==
  /\ ui = "running"
  /\ elevated \in BOOLEAN
  /\ queue = << >>
  /\ pc = [c \in Command |-> "idle"]
  /\ handle = [c \in Command |-> NoRoute]
  /\ route = NoRoute
  /\ helper = [h \in Helper |-> "none"]
  /\ pipe = [h \in Helper |-> "none"]
  /\ number = [c \in Command |-> 0]
  /\ gets = 0

-----------------------------------------------------------------------------
(* Mutant: the mutex is given to whoever came last.                        *)
StartInFront(c, label) ==
  /\ ui = "running"
  /\ pc[c] = "idle"
  /\ gets < MaxGets
  /\ gets' = gets + 1
  /\ number' = [number EXCEPT ![c] = gets + 1]
  /\ queue' = <<c>> \o queue
  /\ pc' = [pc EXCEPT ![c] = label]
  /\ UNCHANGED <<ui, elevated, handle, route, helper, pipe>>

(* The user starts a command that needs the helper, or opens a screen that *)
(* asks whether there is one.                                              *)
StartCommand(c, label) ==
  /\ ui = "running"
  /\ pc[c] = "idle"
  /\ gets < MaxGets
  /\ gets' = gets + 1
  /\ number' = [number EXCEPT ![c] = gets + 1]
  /\ queue' = Append(queue, c)
  /\ pc' = [pc EXCEPT ![c] = label]
  /\ UNCHANGED <<ui, elevated, handle, route, helper, pipe>>

(* `get` or `is_connected` returns: the mutex goes to the next in line.    *)
Return(c, label, r) ==
  /\ queue' = Tail(queue)
  /\ pc' = [pc EXCEPT ![c] = label]
  /\ handle' = [handle EXCEPT ![c] = r]
  /\ number' = [number EXCEPT ![c] = 0]

(* `is_connected`                                                          *)
AnswerStatus(c) ==
  /\ pc[c] = "asking"
  /\ HasMutex(c)
  /\ Return(c, "idle", NoRoute)
  /\ UNCHANGED <<ui, elevated, route, helper, pipe, gets>>

(* `get` finds a route that is alive.                                      *)
Reuse(c) ==
  /\ pc[c] = "getting"
  /\ HasMutex(c)
  /\ IsAlive(route)
  /\ Return(c, "using", route)
  /\ UNCHANGED <<ui, elevated, route, helper, pipe, gets>>

(* Mutant: every `get` launches a helper of its own.                       *)
NeedsRouteAlways(c) ==
  /\ pc[c] = "getting"
  /\ HasMutex(c)

NeedsRoute(c) ==
  /\ pc[c] = "getting"
  /\ HasMutex(c)
  /\ ~IsAlive(route)

(* No helper is needed in an elevated process.                             *)
GoInProcess(c) ==
  /\ NeedsRoute(c)
  /\ elevated
  /\ route' = InProcess
  /\ Return(c, "using", InProcess)
  /\ UNCHANGED <<ui, elevated, helper, pipe, gets>>

(* Mutant: the pipe is not made before the prompt.                         *)
PromptWithoutPipe(c) ==
  /\ NeedsRoute(c)
  /\ ~elevated
  /\ route' = NoRoute
  /\ pc' = [pc EXCEPT ![c] = "prompting"]
  /\ UNCHANGED <<ui, elevated, queue, handle, helper, pipe, number, gets>>

(* `launch` makes the pipe and shows the prompt.  A dead route is gone     *)
(* whatever comes of it.                                                   *)
Prompt(c) ==
  /\ NeedsRoute(c)
  /\ ~elevated
  /\ route' = NoRoute
  /\ pipe' = [pipe EXCEPT ![number[c]] = "open"]
  /\ pc' = [pc EXCEPT ![c] = "prompting"]
  /\ UNCHANGED <<ui, elevated, queue, handle, helper, number, gets>>

(* The helper's file is missing, or its pipe cannot be made.               *)
CannotLaunch(c) ==
  /\ NeedsRoute(c)
  /\ ~elevated
  /\ route' = NoRoute
  /\ Return(c, "idle", NoRoute)
  /\ UNCHANGED <<ui, elevated, helper, pipe, gets>>

-----------------------------------------------------------------------------
(* `launch`, under the mutex.                                              *)

(* The user agrees, and the process is started.                            *)
Agree(c) ==
  /\ pc[c] = "prompting"
  /\ helper' = [helper EXCEPT ![number[c]] = "starting"]
  /\ pc' = [pc EXCEPT ![c] = "connecting"]
  /\ UNCHANGED <<ui, elevated, queue, handle, route, pipe, number, gets>>

(* Mutant: the error leaves the pipe open.                                 *)
FailLaunchLeaky(c) ==
  /\ Return(c, "idle", NoRoute)
  /\ UNCHANGED <<ui, elevated, route, helper, pipe, gets>>

(* `launch` returns an error: its end of the pipe is dropped.              *)
FailLaunch(c) ==
  /\ pipe' = [pipe EXCEPT ![number[c]] = "closed"]
  /\ Return(c, "idle", NoRoute)
  /\ UNCHANGED <<ui, elevated, route, helper, gets>>

(* The user dismisses the prompt, or the process cannot be started.        *)
Decline(c) ==
  /\ pc[c] = "prompting"
  /\ FailLaunch(c)

Connected(c) ==
  /\ pc[c] = "connecting"
  /\ helper[number[c]] \in {"connected", "greeted"}
  /\ pc' = [pc EXCEPT ![c] = "greeting"]
  /\ UNCHANGED <<ui, elevated, queue, handle, route, helper, pipe, number, gets>>

(* Mutant: the wait has no end.                                            *)
TimeOutNever(c) == pc[c] = "connecting" /\ helper[number[c]] = "none" /\ FailLaunch(c)

(* CONNECT_TIMEOUT passes before a connection is noticed.                  *)
TimeOut(c) ==
  /\ pc[c] = "connecting"
  /\ FailLaunch(c)

(* The process has ended: the poll notices, or the handshake reads the     *)
(* end of the pipe.                                                        *)
HelperLost(c) ==
  /\ pc[c] \in {"connecting", "greeting"}
  /\ helper[number[c]] = "gone"
  /\ FailLaunch(c)

(* Mutant: the session is handed out and not kept.                         *)
EstablishUnkept(c) ==
  /\ pc[c] = "greeting"
  /\ helper[number[c]] = "greeted"
  /\ Return(c, "using", number[c])
  /\ UNCHANGED <<ui, elevated, route, helper, pipe, gets>>

(* The handshake: the hello verifies, and there is a session.              *)
Establish(c) ==
  /\ pc[c] = "greeting"
  /\ helper[number[c]] = "greeted"
  /\ route' = number[c]
  /\ Return(c, "using", number[c])
  /\ UNCHANGED <<ui, elevated, helper, pipe, gets>>

(* The hello does not verify: the helper is that of another version.       *)
Refuse(c) ==
  /\ pc[c] = "greeting"
  /\ helper[number[c]] = "greeted"
  /\ FailLaunch(c)

(* The command makes its calls and ends.  A call returns, with an error if *)
(* the helper is gone.                                                     *)
Finish(c) ==
  /\ pc[c] = "using"
  /\ pc' = [pc EXCEPT ![c] = "idle"]
  /\ handle' = [handle EXCEPT ![c] = NoRoute]
  /\ UNCHANGED <<ui, elevated, queue, route, helper, pipe, number, gets>>

-----------------------------------------------------------------------------
(* The helper process.                                                     *)

Become(h, state) ==
  /\ helper' = [helper EXCEPT ![h] = state]
  /\ UNCHANGED <<ui, elevated, queue, pc, handle, route, pipe, number, gets>>

Open(h)     == helper[h] = "starting" /\ pipe[h] = "open" /\ Become(h, "connected")
SayHello(h) == helper[h] = "connected" /\ pipe[h] = "open" /\ Become(h, "greeted")

(* Mutant: a helper that has not been accepted waits for a pipe.           *)
LeaveIfServing(h) == helper[h] = "greeted" /\ pipe[h] = "closed" /\ Become(h, "gone")

(* It cannot open the pipe, or finds it closed: it is done.                *)
Leave(h) == Running(h) /\ pipe[h] = "closed" /\ Become(h, "gone")

(* It crashes or is killed.                                                *)
Die(h) == Running(h) /\ Become(h, "gone")

(* The UI process ends.  A prompt may still be open; whoever agrees to it  *)
(* then starts a helper without a UI.                                      *)
UiExits ==
  /\ ui = "running"
  /\ ui' = "exited"
  /\ queue' = << >>
  /\ pc' = [c \in Command |-> "idle"]
  /\ handle' = [c \in Command |-> NoRoute]
  /\ route' = NoRoute
  /\ pipe' = [h \in Helper |-> IF pipe[h] = "none" THEN "none" ELSE "closed"]
  /\ number' = [c \in Command |-> 0]
  /\ \E started \in SUBSET {number[c] : c \in Prompting} :
       helper' = [h \in Helper |-> IF h \in started THEN "starting" ELSE helper[h]]
  /\ UNCHANGED <<elevated, gets>>

-----------------------------------------------------------------------------
Launch(c) ==
  \/ Connected(c) \/ TimeOut(c) \/ HelperLost(c) \/ Establish(c) \/ Refuse(c)

Step(c) ==
  \/ AnswerStatus(c) \/ Reuse(c) \/ GoInProcess(c) \/ Prompt(c) \/ CannotLaunch(c)
  \/ Launch(c)
  \/ Finish(c)

User(c) == Agree(c) \/ Decline(c)

Next ==
  \/ \E c \in Command :
       \/ StartCommand(c, "getting") \/ StartCommand(c, "asking")
       \/ Step(c)
       \/ User(c)
  \/ \E h \in Helper : Open(h) \/ SayHello(h) \/ Leave(h) \/ Die(h)
  \/ UiExits

Spec == Init /\ [][Next]_vars

(* Tasks are polled, the timeout passes, and the prompt ends: the user     *)
(* answers it, or Windows dismisses it.  A process that was started runs   *)
(* some day; that it opens the pipe before the timeout is not assumed.     *)
Fairness ==
  /\ \A c \in Command : WF_vars(Step(c)) /\ WF_vars(User(c))
  /\ \A h \in Helper : WF_vars(SayHello(h)) /\ WF_vars(Leave(h))

FairSpec == Spec /\ Fairness

-----------------------------------------------------------------------------
TypeOK ==
  /\ ui \in {"running", "exited"}
  /\ elevated \in BOOLEAN
  /\ queue \in Seq(Command)
  /\ pc \in [Command -> {"idle", "asking", "getting", "prompting", "connecting",
                         "greeting", "using"}]
  /\ handle \in [Command -> Route]
  /\ route \in Route
  /\ helper \in [Helper -> {"none", "starting", "connected", "greeted", "gone"}]
  /\ pipe \in [Helper -> {"none", "open", "closed"}]
  /\ number \in [Command -> 0 .. MaxGets]
  /\ gets \in 0 .. MaxGets
  /\ \A h \in Helper : pipe[h] = "none" => helper[h] = "none"

(* The helper of a launch under way.                                       *)
InLaunch(c)  == pc[c] \in {"prompting", "connecting", "greeting"}
Launching(h) == \E c \in Command : InLaunch(c) /\ number[c] = h

(* A helper that runs with rights the user gave once is the route, is      *)
(* being launched, or has nobody at the other end of its pipe and goes:    *)
(* no failed launch and no race with the timeout leaves one connected that *)
(* nobody uses, and no second one is connected beside the first.           *)
EveryHelperIsOwned ==
  \A h \in Helper : Running(h) /\ pipe[h] = "open" => route = h \/ Launching(h)

(* What the three properties around it rest on.  Only the holder of the    *)
(* mutex launches, and while it does there is no route; the numbers of     *)
(* commands differ and are new; a command has a pipe from its prompt on    *)
(* and a process from the answer on; whoever has a helper's session has    *)
(* one that was started.                                                   *)
LaunchInvariant ==
  /\ \A c \in Command : InLaunch(c) => HasMutex(c) /\ route = NoRoute
  /\ \A c \in Command : /\ number[c] <= gets
                        /\ number[c] # 0 <=> pc[c] \in {"asking", "getting"} \/ InLaunch(c)
  /\ \A c, d \in Command : c # d /\ number[c] # 0 => number[c] # number[d]
  /\ \A h \in Helper : h > gets => pipe[h] = "none"
  /\ \A c \in Command : pc[c] \in {"asking", "getting"} => pipe[number[c]] = "none"
  /\ \A c \in Command : InLaunch(c) => /\ pipe[number[c]] = "open"
                                       /\ helper[number[c]] = "none" <=> pc[c] = "prompting"
  /\ \A c \in Command : handle[c] \in Helper => helper[handle[c]] # "none"
  /\ route \in Helper => helper[route] # "none"

(* The user is asked once, and again only when the helper is gone: no      *)
(* prompt is shown while a helper that was accepted before is alive.       *)
PromptIsNeeded ==
  [][\A c \in Command : pc'[c] = "prompting" /\ pc[c] # "prompting" =>
       \A h \in Helper : ~(Running(h) /\ pipe[h] = "open")]_vars

(* Commands share the one live helper.  A command that still works with    *)
(* the session of an earlier one works with a dead helper, and learns it   *)
(* from its calls.                                                         *)
OldSessionsAreDead ==
  \A c \in Command : handle[c] \in Helper /\ handle[c] # route => ~Running(handle[c])

(* Whoever asks for the helper, or about it, has an answer some day, with  *)
(* helpers that do not connect, die half-way or are refused, and with      *)
(* others in front in the queue.                                           *)
EveryGetReturns ==
  \A c \in Command : pc[c] \in {"asking", "getting"} ~> pc[c] \in {"idle", "using"}

(* A helper that is neither the route nor being launched ends.             *)
AbandonedHelpersEnd ==
  \A h \in Helper : Running(h) /\ route # h /\ ~Launching(h) ~> ~Running(h)
=============================================================================
