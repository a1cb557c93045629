--------------------------------- MODULE Enzo ---------------------------------
(***************************************************************************)
(* src/src/main.cpp: the main thread that brings the system up, launches   *)
(* the workflows, waits at the barrier, joins and deletes them and shuts   *)
(* down, together with what runs beside it: the threads of the workflows   *)
(* (each arrives at the barrier first, and ends or throws later), the      *)
(* Twilio handler and the RequestTraceThreadController, which both walk    *)
(* workflow_list, and the signal handler.                                  *)
(*                                                                         *)
(* The workflows are 1..N in the order of their launch, the list holds the *)
(* first Len of them.  A handler or controller that stands at k is inside  *)
(* its call of a method of workflow k.  Using a deleted object is undefined *)
(* behaviour: the process may crash, or go on as if nothing had happened.  *)
(***************************************************************************)
EXTENDS Integers, FiniteSets

CONSTANTS
  N,         \* total_agents
  Retries    \* ENZO_PBX_CHECK_RETRY

ASSUME NAssumption == N \in Nat
ASSUME RetriesAssumption == Retries \in Nat

VARIABLES
  main,                  \* location of the main thread
  next,                  \* its loop index: a retry, or a workflow
  process_can_continue,
  count,                 \* Barrier::_count
  thread,                \* phase of the thread of each workflow
  deleted,               \* the workflow objects deleted so far
  listed,                \* size of workflow_list
  twilio,                \* Twilio handler: 0 when idle, or a workflow
  controller,            \* trace controller: -1 off, 0 idle, or a workflow
  bucket                 \* the wizard bucket's rows in the DB

W == 1..N

vars == <<main, next, process_can_continue, count, thread, deleted, listed,
          twilio, controller, bucket>>

(***************************************************************************)
(* Past its end, by a return of main() or by a crash, the process has no   *)
(* threads any more.                                                       *)
(***************************************************************************)
ProcessOver == main \in {"success", "failure", "crashed"}

Init ==
  /\ main = "configure"
  /\ next = 1
  /\ process_can_continue = TRUE
  /\ count = 0
  /\ thread = [w \in W |-> "none"]
  /\ deleted = {}
  /\ listed = 0
  /\ twilio = 0
  /\ controller = -1
  /\ bucket = "absent"

-----------------------------------------------------------------------------
(* The main thread. *)

Goto(from, to) == main = from /\ main' = to

(* A bug in Fail: a bucket released by hand, forgotten on the error path. *)
FailWithoutUnwind(from) ==
  /\ Goto(from, "failure")
  /\ UNCHANGED <<next, process_can_continue, count, thread, deleted, listed,
                 twilio, controller, bucket>>

(***************************************************************************)
(* Leaving the try block of main() by a return or an exception destroys    *)
(* the WizardBucketRAII if it was constructed.                             *)
(***************************************************************************)
Fail(from) ==
  /\ Goto(from, IF bucket = "created" THEN "unwind" ELSE "failure")
  /\ UNCHANGED <<next, process_can_continue, count, thread, deleted, listed,
                 twilio, controller, bucket>>

(***************************************************************************)
(* Configuration is loaded and the mocked Twilio set up.                   *)
(***************************************************************************)
Configure ==
  \/ /\ Goto("configure", "check_pbx")
     /\ UNCHANGED <<next, process_can_continue, count, thread, deleted,
                    listed, twilio, controller, bucket>>
  \/ Fail("configure")

(***************************************************************************)
(* check_pbx_running(): one ping a step, Retries at most.                  *)
(***************************************************************************)
CheckPbx ==
  \/ /\ Goto("check_pbx", "create_bucket")
     /\ next <= Retries
     /\ next' = 1
     /\ UNCHANGED <<process_can_continue, count, thread, deleted, listed,
                    twilio, controller, bucket>>
  \/ /\ main = "check_pbx"
     /\ next <= Retries
     /\ next' = next + 1
     /\ UNCHANGED <<main, process_can_continue, count, thread, deleted,
                    listed, twilio, controller, bucket>>
  \/ next > Retries /\ Fail("check_pbx")

(***************************************************************************)
(* The constructor of WizardBucketRAII deletes what a failed creation left *)
(* and throws; the deletion may fail too.                                  *)
(***************************************************************************)
CreateBucket ==
  /\ main = "create_bucket"
  /\ \/ main' = "start_controller" /\ bucket' = "created"
     \/ main' = "failure" /\ bucket' \in {"deleted", "leftover"}
  /\ UNCHANGED <<next, process_can_continue, count, thread, deleted, listed,
                 twilio, controller>>

(***************************************************************************)
(* The controller is started if tracing is enabled, and the barrier set.   *)
(***************************************************************************)
StartController ==
  \/ /\ Goto("start_controller", IF N = 0 THEN "barrier" ELSE "launch")
     /\ controller' \in {-1, 0}
     /\ count' = N
     /\ next' = 1
     /\ UNCHANGED <<process_can_continue, thread, deleted, listed, twilio,
                    bucket>>
  \/ Fail("start_controller")

(***************************************************************************)
(* new and start() of the next workflow, which may throw ...               *)
(***************************************************************************)
Launch ==
  \/ /\ Goto("launch", "push")
     /\ thread' = [thread EXCEPT ![next] = "spawned"]
     /\ UNCHANGED <<next, process_can_continue, count, deleted, listed,
                    twilio, controller, bucket>>
  \/ Fail("launch")

(* A bug in BarrierWait: the predicate lets the last workflow run late. *)
BarrierWaitAlmost ==
  /\ count <= 1
  /\ Goto("barrier", "join")
  /\ next' = 1
  /\ UNCHANGED <<process_can_continue, count, thread, deleted, listed,
                 twilio, controller, bucket>>

(***************************************************************************)
(* ... and its push_back, when its thread already runs.                    *)
(***************************************************************************)
Push ==
  /\ Goto("push", IF next = N THEN "barrier" ELSE "launch")
  /\ listed' = next
  /\ next' = next + 1
  /\ UNCHANGED <<process_can_continue, count, thread, deleted, twilio,
                 controller, bucket>>

BarrierWait ==
  /\ count = 0
  /\ Goto("barrier", "join")
  /\ next' = 1
  /\ UNCHANGED <<process_can_continue, count, thread, deleted, listed,
                 twilio, controller, bucket>>

ThreadOver(w) == thread[w] \in {"ended", "threw"}

(* A bug in Join: the last workflow of the list is not joined. *)
JoinAllButLast ==
  \/ /\ main = "join"
     /\ next < N
     /\ ThreadOver(next)
     /\ next' = next + 1
     /\ UNCHANGED <<main, process_can_continue, count, thread, deleted,
                    listed, twilio, controller, bucket>>
  \/ /\ next >= N
     /\ Goto("join", "delete")
     /\ next' = 1
     /\ UNCHANGED <<process_can_continue, count, thread, deleted, listed,
                    twilio, controller, bucket>>

Join ==
  \/ /\ main = "join"
     /\ next <= N
     /\ ThreadOver(next)
     /\ next' = next + 1
     /\ UNCHANGED <<main, process_can_continue, count, thread, deleted,
                    listed, twilio, controller, bucket>>
  \/ /\ next > N
     /\ Goto("join", "delete")
     /\ next' = 1
     /\ UNCHANGED <<process_can_continue, count, thread, deleted, listed,
                    twilio, controller, bucket>>

Delete ==
  \/ /\ main = "delete"
     /\ next <= N
     /\ deleted' = deleted \cup {next}
     /\ next' = next + 1
     /\ UNCHANGED <<main, process_can_continue, count, thread, listed,
                    twilio, controller, bucket>>
  \/ /\ next > N
     /\ Goto("delete", "stop_controller")
     /\ listed' = 0
     /\ UNCHANGED <<next, process_can_continue, count, thread, deleted,
                    twilio, controller, bucket>>

(* A bug in StopController: the thread is asked to stop, not waited for. *)
StopControllerAtOnce ==
  /\ Goto("stop_controller", "stop_twilio")
  /\ controller' = IF controller = 0 THEN -1 ELSE controller
  /\ UNCHANGED <<next, process_can_continue, count, thread, deleted, listed,
                 twilio, bucket>>

(***************************************************************************)
(* The last dump (module TraceDump has it), then stop_thread(), which      *)
(* returns when a do_stuff() under way has ended.                          *)
(***************************************************************************)
StopController ==
  /\ controller \in {-1, 0}
  /\ Goto("stop_controller", "stop_twilio")
  /\ controller' = -1
  /\ UNCHANGED <<next, process_can_continue, count, thread, deleted, listed,
                 twilio, bucket>>

(***************************************************************************)
(* The Twilio mock is stopped, then it, its handler and the trace nodes    *)
(* are deleted.                                                            *)
(***************************************************************************)
StopTwilio ==
  /\ twilio = 0
  /\ Goto("stop_twilio", "destroy")
  /\ UNCHANGED <<next, process_can_continue, count, thread, deleted, listed,
                 twilio, controller, bucket>>

(***************************************************************************)
(* The destructor of WizardBucketRAII: its deletion of the rows may fail,  *)
(* and it does not throw the exception it builds.                          *)
(***************************************************************************)
DestroyBucket ==
  /\ \/ Goto("destroy", "success")
     \/ Goto("unwind", "failure")
  /\ bucket' \in {"deleted", "leftover"}
  /\ UNCHANGED <<next, process_can_continue, count, thread, deleted, listed,
                 twilio, controller>>

Main == \/ Configure \/ CheckPbx \/ CreateBucket \/ StartController \/ Launch
        \/ Push \/ BarrierWait \/ Join \/ Delete \/ StopController
        \/ StopTwilio \/ DestroyBucket

-----------------------------------------------------------------------------
(* Beside it. *)

(***************************************************************************)
(* The signals are handled from after the PBX check on.                    *)
(***************************************************************************)
SignalsSet == main \notin {"configure", "check_pbx"} /\ ~ProcessOver

TerminateProcess ==
  /\ SignalsSet
  /\ process_can_continue
  /\ process_can_continue' = FALSE
  /\ UNCHANGED <<main, next, count, thread, deleted, listed, twilio,
                 controller, bucket>>

(* A bug in Arrive: the decrement without the mutex may be lost. *)
ArriveUnlocked(w) ==
  /\ ~ProcessOver
  /\ thread[w] = "spawned"
  /\ thread' = [thread EXCEPT ![w] = "arrived"]
  /\ count' \in {count, count - 1}
  /\ UNCHANGED <<main, next, process_can_continue, deleted, listed, twilio,
                 controller, bucket>>

(***************************************************************************)
(* Barrier::increment() by the thread of a workflow, which goes on at      *)
(* once.                                                                   *)
(***************************************************************************)
Arrive(w) ==
  /\ ~ProcessOver
  /\ thread[w] = "spawned"
  /\ thread' = [thread EXCEPT ![w] = "arrived"]
  /\ count' = count - 1
  /\ UNCHANGED <<main, next, process_can_continue, deleted, listed, twilio,
                 controller, bucket>>

(***************************************************************************)
(* A workflow may end at any time: its requests fail, or it runs only      *)
(* once, or it is told to stop.                                            *)
(***************************************************************************)
EndThread(w) ==
  /\ ~ProcessOver
  /\ thread[w] = "arrived"
  /\ \E p \in {"ended", "threw"} : thread' = [thread EXCEPT ![w] = p]
  /\ UNCHANGED <<main, next, process_can_continue, count, deleted, listed,
                 twilio, controller, bucket>>

(***************************************************************************)
(* TwilioEvent::twilio_event and twilio_request: the flag is looked at     *)
(* once, then every workflow in the list is called.                        *)
(***************************************************************************)
TwilioBegins ==
  /\ ~ProcessOver
  /\ process_can_continue
  /\ twilio = 0
  /\ listed > 0
  /\ main # "destroy"
  /\ twilio' = 1
  /\ UNCHANGED <<main, next, process_can_continue, count, thread, deleted,
                 listed, controller, bucket>>

TwilioAdvances ==
  /\ ~ProcessOver
  /\ twilio > 0
  /\ twilio' = IF twilio < listed THEN twilio + 1 ELSE 0
  /\ UNCHANGED <<main, next, process_can_continue, count, thread, deleted,
                 listed, controller, bucket>>

(***************************************************************************)
(* do_stuff() first asks every workflow in the list whether it runs.       *)
(***************************************************************************)
ControllerBegins ==
  /\ ~ProcessOver
  /\ controller = 0
  /\ listed > 0
  /\ controller' = 1
  /\ UNCHANGED <<main, next, process_can_continue, count, thread, deleted,
                 listed, twilio, bucket>>

ControllerAdvances ==
  /\ ~ProcessOver
  /\ controller > 0
  /\ controller' = IF controller < listed THEN controller + 1 ELSE 0
  /\ UNCHANGED <<main, next, process_can_continue, count, thread, deleted,
                 listed, twilio, bucket>>

(***************************************************************************)
(* One outcome of the use of a deleted workflow.                           *)
(***************************************************************************)
Crash ==
  /\ ~ProcessOver
  /\ twilio \in deleted \/ controller \in deleted
  /\ main' = "crashed"
  /\ UNCHANGED <<next, process_can_continue, count, thread, deleted, listed,
                 twilio, controller, bucket>>

Finished == ProcessOver /\ UNCHANGED vars

Next == \/ Main \/ TerminateProcess
        \/ \E w \in W : Arrive(w) \/ EndThread(w)
        \/ TwilioBegins \/ TwilioAdvances
        \/ ControllerBegins \/ ControllerAdvances
        \/ Crash \/ Finished

Spec == Init /\ [][Next]_vars

(***************************************************************************)
(* Every thread is scheduled.  That a workflow ends after a signal is what *)
(* EndsAfterSignal of the workflow modules says of each of them; without a *)
(* signal it owes nothing.                                                 *)
(***************************************************************************)
EndOnSignal(w) == ~process_can_continue /\ EndThread(w)

Fairness ==
  /\ WF_vars(Main)
  /\ WF_vars(TwilioAdvances)
  /\ WF_vars(ControllerAdvances)
  /\ \A w \in W : WF_vars(Arrive(w))
  /\ \A w \in W : WF_vars(EndOnSignal(w))

FairSpec == Spec /\ Fairness

-----------------------------------------------------------------------------
MainLocation ==
  {"configure", "check_pbx", "create_bucket", "start_controller", "launch",
   "push", "barrier", "join", "delete", "stop_controller", "stop_twilio",
   "destroy", "unwind", "success", "failure", "crashed"}
Phase == {"none", "spawned", "arrived", "ended", "threw"}

(* The barrier counts down from N and never wraps below 0. *)
TypeOK ==
  /\ main \in MainLocation
  /\ next \in Nat \ {0}
  /\ process_can_continue \in BOOLEAN
  /\ count \in 0..N
  /\ thread \in [W -> Phase]
  /\ deleted \in SUBSET W
  /\ listed \in 0..N
  /\ twilio \in 0..N
  /\ controller \in -1..N
  /\ bucket \in {"absent", "created", "deleted", "leftover"}

Arrived == {w \in W : thread[w] \notin {"none", "spawned"}}

(***************************************************************************)
(* main() passes Barrier::wait() only when every workflow has started:     *)
(* whatever the order in which workflows are launched, arrive and end.     *)
(***************************************************************************)
PassedBarrier == {"join", "delete", "stop_controller", "stop_twilio",
                  "destroy", "success"}

BarrierHolds == main \in PassedBarrier => Arrived = W

(***************************************************************************)
(* A workflow is deleted only after its own thread is over.                *)
(***************************************************************************)
DeletedAfterThread == \A w \in deleted : ThreadOver(w)

(***************************************************************************)
(* Each workflow is deleted once and only after its thread, which arrived  *)
(* first, has left: what the workflow modules say of their threads and     *)
(* what main() does to the objects make one life cycle.                    *)
(***************************************************************************)
ThreadPhase(w) ==
  IF thread[w] \in {"none", "spawned"} THEN "starting" ELSE thread[w]

Object(w) == INSTANCE WorkflowObject WITH
  phase <- ThreadPhase(w), alives <- "none", request <- "any",
  deleted <- w \in deleted

(***************************************************************************)
(* Object(w)!Spec of every workflow, as one formula of steps.              *)
(***************************************************************************)
ImplementsWorkflowObject ==
  /\ \A w \in W : Object(w)!Init
  /\ [][\A w \in W : [Object(w)!Next]_(Object(w)!vars)]_vars

(***************************************************************************)
(* On the way to a successful end, when the trace nodes, the Twilio mock   *)
(* and the wizard bucket are destroyed, no thread is left to use them.     *)
(***************************************************************************)
NobodyLeftBehind ==
  main \in {"destroy", "success"} =>
    /\ \A w \in W : ThreadOver(w)
    /\ twilio = 0 /\ controller = -1

(***************************************************************************)
(* Whatever way main() returns, the rows the bucket created in the DB were *)
(* asked to be deleted.                                                    *)
(***************************************************************************)
BucketReleased == main \in {"success", "failure"} => bucket # "created"

(***************************************************************************)
(* After a signal the process ends: neither the barrier, nor a join, nor   *)
(* the two stops wait for ever.                                            *)
(***************************************************************************)
EndsAfterSignal == ~process_can_continue ~> ProcessOver

(***************************************************************************)
(* "Avoid to call workflow being deleted" (main.cpp:61): the Twilio        *)
(* handler is never inside a method of a workflow that is deleted.         *)
(***************************************************************************)
TwilioAvoidsDeleted == twilio \notin deleted
=============================================================================
