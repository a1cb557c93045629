------------------------------- MODULE Workflow -------------------------------
(***************************************************************************)
(* The part every Enzo workflow that plays a desktop agent shares: the     *)
(* members of class Workflow, the session members each subclass declares,  *)
(* and the steps of the two threads of one workflow object:                *)
(*   - the sequence thread, started by Workflow::start, which runs the     *)
(*     subclass's sequence();                                              *)
(*   - the alive thread sequence() spawns, which runs alive_worker().      *)
(* The threads share _session_guid under _session_mutex and the two stop   *)
(* flags.  A subclass module EXTENDS this one, names the locations of its  *)
(* own sequence() and conjoins what its own members do.                    *)
(*                                                                         *)
(* The leads manager (LM) is outside the program.  lm_sessions is the set  *)
(* of sessions it handed out and was not yet asked to log out; lm_request  *)
(* is the last request it received that names a session.  A request is one *)
(* step: the call blocks its thread and either succeeds or fails.          *)
(***************************************************************************)

CONSTANTS
  Session,    \* the session ids LM hands out at login
  NoSession   \* the empty _session_guid

ASSUME SessionAssumption == NoSession \notin Session

VARIABLES
  process_can_continue,  \* global flag of main.cpp, cleared by the signals
  workflow_running,      \* _workflow_running
  sequence,              \* location of the sequence thread
  worker,                \* location of the alive thread
  alive_can_continue,    \* flag on the stack of sequence()
  session_mutex,         \* _session_mutex: "free" or "alive" (held by worker)
  session_guid,          \* _session_guid
  local_session_guid,    \* local of sequence()
  session_guid_local,    \* local of alive_worker()
  lm_sessions,           \* external: sessions open at LM
  lm_request             \* external: last request LM received with a session

sequenceVars == <<workflow_running, sequence, local_session_guid>>
workerVars   == <<worker, session_mutex, session_guid_local>>
lmVars       == <<lm_sessions, lm_request>>
vars == <<process_can_continue, workflow_running, sequence, worker,
          alive_can_continue, session_mutex, session_guid, local_session_guid,
          session_guid_local, lm_sessions, lm_request>>

WorkerLocation == {"none", "check", "lock", "read", "alive_lm", "unlock",
                   "check_again", "done"}

NoRequest == [op |-> "none", session |-> NoSession]
Request(op, s) == [op |-> op, session |-> s]

(***************************************************************************)
(* A thread has left its function for good.  "threw" is the return of      *)
(* sequence() from its catch block.                                        *)
(***************************************************************************)
SequenceOver == sequence \in {"ended", "threw"}
WorkerOver   == worker \in {"none", "done"}

Init ==
  /\ process_can_continue = TRUE
  /\ workflow_running = FALSE
  /\ sequence = "start"
  /\ worker = "none"
  /\ alive_can_continue = FALSE
  /\ session_mutex = "free"
  /\ session_guid = NoSession
  /\ local_session_guid = NoSession
  /\ session_guid_local = NoSession
  /\ lm_sessions = {}
  /\ lm_request = NoRequest

(***************************************************************************)
(* SIGTERM, SIGINT or SIGUSR1 at any moment.                               *)
(***************************************************************************)
TerminateProcess ==
  /\ process_can_continue
  /\ process_can_continue' = FALSE
  /\ UNCHANGED <<sequenceVars, workerVars, alive_can_continue, session_guid,
                 lmVars>>

-----------------------------------------------------------------------------
(* Steps of the sequence thread. *)

Goto(from, to) == sequence = from /\ sequence' = to

(***************************************************************************)
(* The prologue: the running flag is raised and the barrier of main.cpp    *)
(* incremented (module Enzo has its counter: leaving "start" is the        *)
(* arrival it counts).                                                     *)
(***************************************************************************)
Start(to) ==
  /\ Goto("start", to)
  /\ workflow_running' = TRUE
  /\ UNCHANGED <<process_can_continue, local_session_guid, workerVars,
                 alive_can_continue, session_guid, lmVars>>

(***************************************************************************)
(* An exception ends sequence() in its catch block, which returns at once. *)
(***************************************************************************)
Throw(from) ==
  /\ Goto(from, "threw")
  /\ UNCHANGED <<process_can_continue, workflow_running, local_session_guid,
                 workerVars, alive_can_continue, session_guid, lmVars>>

SpawnAliveThread(from, to) ==
  /\ Goto(from, to)
  /\ alive_can_continue' = TRUE
  /\ worker' = "check"
  /\ UNCHANGED <<process_can_continue, workflow_running, local_session_guid,
                 session_mutex, session_guid_local, session_guid, lmVars>>

(***************************************************************************)
(* A break out of the loop, and a step that changes nothing but where the  *)
(* thread is.                                                              *)
(***************************************************************************)
Move(from, to) ==
  /\ Goto(from, to)
  /\ UNCHANGED <<process_can_continue, workflow_running, local_session_guid,
                 workerVars, alive_can_continue, session_guid, lmVars>>

Break(from) == Move(from, "stop_alives")

(***************************************************************************)
(* sleep_delta() and the check that follows it.  Where a request follows   *)
(* the check, both are one step: the flag is not read by the request, so   *)
(* a signal between the two is a signal after both.                        *)
(***************************************************************************)
StopCheck(from) == ~process_can_continue /\ Break(from)

LoginOk(from, to, s) ==
  /\ process_can_continue
  /\ s \notin lm_sessions
  /\ Goto(from, to)
  /\ local_session_guid' = s
  /\ lm_sessions' = lm_sessions \cup {s}
  /\ lm_request' = Request("login", s)
  /\ UNCHANGED <<process_can_continue, workflow_running, workerVars,
                 alive_can_continue, session_guid>>

(***************************************************************************)
(* _session_guid is assigned and copied in one critical section.  Nothing  *)
(* else happens in it, so the section is one step that needs the mutex     *)
(* free.                                                                   *)
(***************************************************************************)
PublishSession(from, to) ==
  /\ session_mutex = "free"
  /\ Goto(from, to)
  /\ session_guid' = local_session_guid
  /\ UNCHANGED <<process_can_continue, workflow_running, local_session_guid,
                 workerVars, alive_can_continue, lmVars>>

(***************************************************************************)
(* A request of the agent's session that LM accepts; a refused one breaks. *)
(***************************************************************************)
SessionRequest(from, to, op) ==
  /\ sequence = from
  /\ process_can_continue
  /\ sequence' \in {to, "stop_alives"}
  /\ lm_request' = Request(op, local_session_guid)
  /\ UNCHANGED <<process_can_continue, workflow_running, local_session_guid,
                 workerVars, alive_can_continue, session_guid, lm_sessions>>

\* a bug: the session is cleared without taking the mutex
ClearSessionUnlocked(from, to) ==
  /\ Goto(from, to)
  /\ session_guid' = NoSession
  /\ UNCHANGED <<process_can_continue, workflow_running, local_session_guid,
                 workerVars, alive_can_continue, lmVars>>

ClearSession(from, to) ==
  /\ session_mutex = "free"
  /\ Goto(from, to)
  /\ session_guid' = NoSession
  /\ UNCHANGED <<process_can_continue, workflow_running, local_session_guid,
                 workerVars, alive_can_continue, lmVars>>

LogoutRequest(from, to) ==
  /\ sequence = from
  /\ sequence' \in {to, "stop_alives"}
  /\ lm_sessions' = lm_sessions \ {local_session_guid}
  /\ lm_request' = Request("logout", local_session_guid)
  /\ UNCHANGED <<process_can_continue, workflow_running, local_session_guid,
                 workerVars, alive_can_continue, session_guid>>

\* a bug: the stop flag of the alive thread is left set
StopAlivesForgotten == Move("stop_alives", "join")

StopAlives ==
  /\ Goto("stop_alives", "join")
  /\ alive_can_continue' = FALSE
  /\ UNCHANGED <<process_can_continue, workflow_running, local_session_guid,
                 workerVars, session_guid, lmVars>>

\* a bug: the alive thread is detached instead of joined
DetachAlive ==
  /\ Goto("join", "ended")
  /\ workflow_running' = FALSE
  /\ UNCHANGED <<process_can_continue, local_session_guid, workerVars,
                 alive_can_continue, session_guid, lmVars>>

(***************************************************************************)
(* The alive thread is joined and sequence() ends in good order.           *)
(***************************************************************************)
JoinAlive ==
  /\ WorkerOver
  /\ Goto("join", "ended")
  /\ workflow_running' = FALSE
  /\ UNCHANGED <<process_can_continue, local_session_guid, workerVars,
                 alive_can_continue, session_guid, lmVars>>

-----------------------------------------------------------------------------
(* What the sequences have in common, step by step; next is the location   *)
(* that follows where they differ.                                         *)

Check(from, to) == StopCheck(from) \/ (process_can_continue /\ Move(from, to))

StartSequence == Start("lookup")

(***************************************************************************)
(* The lookups in the wizard bucket may throw; so does gari_create_seed()  *)
(* when Gari refuses the seed.                                             *)
(***************************************************************************)
LookupGuids == Move("lookup", "create_seed") \/ Throw("lookup")

CreateSeed(next) ==
  SpawnAliveThread("create_seed", next) \/ Throw("create_seed")

(***************************************************************************)
(* A refused getvateams only leaves the loop over the vacenters.           *)
(***************************************************************************)
GetVateams == Check("getvateams", "login")

(***************************************************************************)
(* A failed login, or one without a session id, breaks.                    *)
(***************************************************************************)
Login ==
  \/ StopCheck("login")
  \/ \E s \in Session : LoginOk("login", "publish", s)
  \/ process_can_continue /\ Break("login")

Publish(next) == PublishSession("publish", next)

ChangeStatus(next) ==
  \/ StopCheck("change_status")
  \/ SessionRequest("change_status", next, "change_status")

\* a bug: a refused team starts the next round instead of leaving the loop
CheckVateamContinues(next) ==
  \/ StopCheck("check_vateam")
  \/ SessionRequest("check_vateam", next, "check_vateam")
  \/ process_can_continue /\ Move("check_vateam", "getvateams")

(***************************************************************************)
(* One request per team; the first one refused breaks out of both loops.   *)
(***************************************************************************)
CheckVateam(next) ==
  \/ StopCheck("check_vateam")
  \/ SessionRequest("check_vateam", next, "check_vateam")

(***************************************************************************)
(* No stop check comes before this request of the landing page.            *)
(***************************************************************************)
GetAvailability(next) ==
  Move("get_availability", next) \/ Break("get_availability")

Clear == ClearSession("clear", "logout")

Logout(next) == LogoutRequest("logout", next)

(***************************************************************************)
(* Both threads are over: the workflow has nothing left to do.             *)
(***************************************************************************)
Finished == SequenceOver /\ WorkerOver /\ UNCHANGED vars

-----------------------------------------------------------------------------
(* Steps of the alive thread. *)

workerFrame == <<process_can_continue, sequenceVars, alive_can_continue,
                 session_guid>>

AliveCheck ==
  /\ worker = "check"
  /\ worker' = IF alive_can_continue THEN "lock" ELSE "done"
  /\ UNCHANGED <<workerFrame, session_mutex, session_guid_local, lmVars>>

AliveLock ==
  /\ worker = "lock"
  /\ session_mutex = "free"
  /\ session_mutex' = "alive"
  /\ worker' = "read"
  /\ UNCHANGED <<workerFrame, session_guid_local, lmVars>>

(***************************************************************************)
(* The user is not logged in: unlock and poll again.                       *)
(***************************************************************************)
AliveNoSession ==
  /\ worker = "read"
  /\ session_guid = NoSession
  /\ session_mutex' = "free"
  /\ worker' = "check"
  /\ UNCHANGED <<workerFrame, session_guid_local, lmVars>>

AliveCopySession ==
  /\ worker = "read"
  /\ session_guid # NoSession
  /\ session_guid_local' = session_guid
  /\ worker' = "alive_lm"
  /\ UNCHANGED <<workerFrame, session_mutex, lmVars>>

(***************************************************************************)
(* alive_lm(): the request is sent with the mutex held.  A failure throws; *)
(* the catch block of alive_worker() unlocks and the thread is over.       *)
(***************************************************************************)
AliveLmOk(to) ==
  /\ worker = "alive_lm"
  /\ worker' = to
  /\ lm_request' = Request("alive", session_guid_local)
  /\ UNCHANGED <<workerFrame, session_mutex, session_guid_local, lm_sessions>>

AliveLmFails ==
  /\ worker = "alive_lm"
  /\ worker' = "done"
  /\ session_mutex' = "free"
  /\ lm_request' = Request("alive", session_guid_local)
  /\ UNCHANGED <<workerFrame, session_guid_local, lm_sessions>>

AliveUnlock ==
  /\ worker = "unlock"
  /\ session_mutex' = "free"
  /\ worker' = "check_again"
  /\ UNCHANGED <<workerFrame, session_guid_local, lmVars>>

AliveCheckAgain ==
  /\ worker = "check_again"
  /\ worker' = IF alive_can_continue THEN "check" ELSE "done"
  /\ UNCHANGED <<workerFrame, session_mutex, session_guid_local, lmVars>>

-----------------------------------------------------------------------------
(* The members of class Workflow and of its session, for the type          *)
(* invariants of the workflows; each adds its own locations.               *)
MembersOK ==
  /\ process_can_continue \in BOOLEAN
  /\ workflow_running \in BOOLEAN
  /\ alive_can_continue \in BOOLEAN
  /\ session_mutex \in {"free", "alive"}
  /\ session_guid \in Session \cup {NoSession}
  /\ local_session_guid \in Session \cup {NoSession}
  /\ session_guid_local \in Session \cup {NoSession}
  /\ lm_sessions \in SUBSET Session

(***************************************************************************)
(* Once sequence() has returned, no alive thread is left that could touch  *)
(* the workflow object or the stop flag on the stack of sequence().        *)
(***************************************************************************)
NoOrphanWorker == SequenceOver => WorkerOver

(***************************************************************************)
(* However the alive thread ends, by its flag, by a refused request that   *)
(* throws or by a return from the middle of its section, it leaves the     *)
(* mutex free: sequence() never waits for a thread that is gone.           *)
(***************************************************************************)
MutexReleased == WorkerOver => session_mutex = "free"

(***************************************************************************)
(* To main() the object is one whose thread arrives, works and leaves: no  *)
(* request comes before the arrival or after the end of sequence(), and    *)
(* the alive thread is over by then.                                       *)
(***************************************************************************)
ThreadPhase == IF sequence = "start" THEN "starting"
               ELSE IF SequenceOver THEN sequence ELSE "arrived"

AlivesPhase == IF worker = "none" THEN "none"
               ELSE IF worker = "done" THEN "over" ELSE "running"

Object == INSTANCE WorkflowObject WITH
  phase <- ThreadPhase, alives <- AlivesPhase, request <- lm_request,
  deleted <- FALSE

ImplementsWorkflowObject == Object!Spec

(***************************************************************************)
(* After a signal sequence() ends: no request loop, no lock, no call and   *)
(* no join keeps Workflow::terminate() waiting for ever.                   *)
(***************************************************************************)
EndsAfterSignal == ~process_can_continue ~> SequenceOver
=============================================================================
