------------------------- MODULE AgentWorkflow_proof --------------------------
(***************************************************************************)
(* Proofs about AgentWorkflow, for every set of sessions.                  *)
(***************************************************************************)
EXTENDS AgentWorkflow, TLAPS

(***************************************************************************)
(* The mutex is held exactly while the worker is between its lock and its  *)
(* unlock.                                                                 *)
(***************************************************************************)
MutexInv ==
  session_mutex = "alive" <=> worker \in {"read", "alive_lm", "unlock"}

(***************************************************************************)
(* What LM has open and what _session_guid publishes, place by place.      *)
(***************************************************************************)
SessionInv ==
  /\ sequence \in {"start", "lookup", "getvateams", "login"} =>
       lm_sessions = {} /\ session_guid = NoSession
  /\ sequence \in {"publish", "logout"} =>
       /\ lm_sessions = {local_session_guid}
       /\ local_session_guid # NoSession
       /\ session_guid = NoSession
  /\ sequence \in {"change_status", "check_vateam", "check_stop", "clear"} =>
       /\ lm_sessions = {local_session_guid}
       /\ local_session_guid # NoSession
       /\ session_guid = local_session_guid
  /\ session_guid \in lm_sessions \cup {NoSession}

(***************************************************************************)
(* What the worker copied is what is published for as long as it holds the *)
(* mutex.                                                                  *)
(***************************************************************************)
WorkerInv ==
  worker \in {"alive_lm", "unlock"} =>
    session_guid_local = session_guid /\ session_guid # NoSession

(***************************************************************************)
(* The worker exists only between its creation and its join.               *)
(***************************************************************************)
ThreadInv ==
  /\ sequence \in {"start", "lookup"} => worker = "none"
  /\ SequenceOver => WorkerOver

IInv == TypeOK /\ MutexInv /\ SessionInv /\ WorkerInv /\ ThreadInv

LEMMA InitInv == Init => IInv
BY DEF Init, IInv, TypeOK, MembersOK, MutexInv,
       SessionInv, WorkerInv, ThreadInv,
       SequenceLocation, WorkerLocation, SequenceOver,
       WorkerOver, NoRequest

(***************************************************************************)
(* The sequence thread keeps the invariant.  The only steps that write     *)
(* what the worker relies on, Publish and Clear, need the mutex free.      *)
(***************************************************************************)
LEMMA SequenceKeepsInv == IInv /\ Sequence => IInv'
<1> SUFFICES ASSUME IInv, Sequence PROVE IInv'
  OBVIOUS
<1> USE SessionAssumption
        DEF IInv, TypeOK, MembersOK, MutexInv,
            SessionInv, WorkerInv, ThreadInv,
            SequenceLocation, WorkerLocation, SequenceOver,
            WorkerOver, Goto, Move, Break,
            StopCheck, workerVars, lmVars
<1>1. CASE StartSequence
  BY <1>1 DEF StartSequence, Start
<1>2. CASE LookupAndSpawn
  BY <1>2 DEF LookupAndSpawn, SpawnAliveThread, Throw
<1>3. CASE GetVateams
  BY <1>3 DEF GetVateams, Check
<1>4. CASE Login
  <2>1. CASE StopCheck("login") \/ Break("login")
    BY <2>1
  <2>2. CASE \E s \in Session : LoginOk("login", "publish", s)
    BY <2>2 DEF LoginOk
  <2>3. QED
    BY <1>4, <2>1, <2>2 DEF Login
<1>5. CASE Publish("change_status")
  BY <1>5 DEF Publish, PublishSession
<1>6. CASE ChangeStatus("check_vateam")
  BY <1>6 DEF ChangeStatus, SessionRequest
<1>7. CASE CheckVateam("check_stop")
  BY <1>7 DEF CheckVateam, SessionRequest
<1>8. CASE Check("check_stop", "clear")
  BY <1>8 DEF Check
<1>9. CASE Clear
  BY <1>9 DEF Clear, ClearSession
<1>10. CASE Logout("getvateams")
  BY <1>10 DEF Logout, LogoutRequest
<1>11. CASE StopAlives
  BY <1>11 DEF StopAlives
<1>12. CASE JoinAlive
  BY <1>12 DEF JoinAlive
<1>13. QED
  BY <1>1, <1>2, <1>3, <1>4, <1>5, <1>6, <1>7, <1>8, <1>9, <1>10, <1>11,
     <1>12 DEF Sequence, BecomeAvailable, LeaveRound

(***************************************************************************)
(* The alive thread keeps it too.                                          *)
(***************************************************************************)
LEMMA WorkerKeepsInv == IInv /\ AliveWorker => IInv'
<1> SUFFICES ASSUME IInv, AliveWorker PROVE IInv'
  OBVIOUS
<1> USE SessionAssumption
        DEF IInv, TypeOK, MembersOK, MutexInv,
            SessionInv, WorkerInv, ThreadInv,
            SequenceLocation, WorkerLocation, SequenceOver,
            WorkerOver, workerFrame, sequenceVars,
            lmVars
<1>1. CASE AliveCheck
  BY <1>1 DEF AliveCheck
<1>2. CASE AliveLock
  BY <1>2 DEF AliveLock
<1>3. CASE AliveNoSession
  BY <1>3 DEF AliveNoSession
<1>4. CASE AliveCopySession
  BY <1>4 DEF AliveCopySession
<1>5. CASE AliveLm
  BY <1>5 DEF AliveLm, AliveLmOk, AliveLmFails
<1>6. CASE AliveUnlock
  BY <1>6 DEF AliveUnlock
<1>7. CASE AliveCheckAgain
  BY <1>7 DEF AliveCheckAgain
<1>8. QED
  BY <1>1, <1>2, <1>3, <1>4, <1>5, <1>6, <1>7 DEF AliveWorker

LEMMA StepInv == IInv /\ [Next]_vars => IInv'
<1> SUFFICES ASSUME IInv, [Next]_vars PROVE IInv'
  OBVIOUS
<1>1. CASE Sequence
  BY <1>1, SequenceKeepsInv
<1>2. CASE AliveWorker
  BY <1>2, WorkerKeepsInv
<1>3. CASE TerminateProcess
  BY <1>3
     DEF TerminateProcess, IInv, TypeOK, MembersOK,
         MutexInv, SessionInv, WorkerInv, ThreadInv,
         SequenceOver, WorkerOver, sequenceVars,
         workerVars, lmVars
<1>4. CASE UNCHANGED vars
  BY <1>4
     DEF vars, IInv, TypeOK, MembersOK, MutexInv,
         SessionInv, WorkerInv, ThreadInv, SequenceOver,
         WorkerOver
<1>5. QED
  BY <1>1, <1>2, <1>3, <1>4 DEF Next, Finished

LEMMA Invariance == Spec => []IInv
<1>1. Init => IInv
  BY InitInv
<1>2. IInv /\ [Next]_vars => IInv'
  BY StepInv
<1>3. QED
  BY <1>1, <1>2, PTL DEF Spec

(***************************************************************************)
(* Type correctness of both threads of AgentWorkflow.                      *)
(***************************************************************************)
THEOREM TypeCorrect == Spec => []TypeOK
<1>1. IInv => TypeOK
  BY DEF IInv
<1>2. QED
  BY <1>1, Invariance, PTL

(***************************************************************************)
(* alive_worker() never sends an alive for a session sequence() has asked  *)
(* LM to log out.                                                          *)
(***************************************************************************)
THEOREM NoAliveAfterLogout == Spec => []AliveOnOpenSession
<1>1. IInv => AliveOnOpenSession
  BY DEF IInv, WorkerInv, SessionInv, AliveOnOpenSession
<1>2. QED
  BY <1>1, Invariance, PTL

(***************************************************************************)
(* When sequence() has returned, its alive thread is over.                 *)
(***************************************************************************)
THEOREM WorkerJoined == Spec => []NoOrphanWorker
<1>1. IInv => NoOrphanWorker
  BY DEF IInv, ThreadInv, NoOrphanWorker
<1>2. QED
  BY <1>1, Invariance, PTL

(***************************************************************************)
(* LM sees every step of either thread as a step of one well-behaved       *)
(* agent, or not at all.                                                   *)
(***************************************************************************)
LEMMA SequenceRefines ==
  IInv /\ Sequence => LmAgent!Next \/ UNCHANGED lmVars
<1> SUFFICES ASSUME IInv, Sequence
             PROVE  LmAgent!Next \/ UNCHANGED lmVars
  OBVIOUS
<1> USE DEF Goto, Move, Break, StopCheck, lmVars
<1>1. CASE Login
  <2>1. CASE StopCheck("login") \/ Break("login")
    BY <2>1
  <2>2. CASE \E s \in Session : LoginOk("login", "publish", s)
    <3>1. PICK s \in Session : LoginOk("login", "publish", s)
      BY <2>2
    <3>2. LmAgent!LogIn(s)
      BY <3>1
         DEF LoginOk, IInv, SessionInv, LmAgent!LogIn,
             Request
    <3>3. QED
      BY <3>2 DEF LmAgent!Next
  <2>3. QED
    BY <1>1, <2>1, <2>2 DEF Login
<1>2. CASE ChangeStatus("check_vateam")
  <2>1. CASE StopCheck("change_status")
    BY <2>1
  <2>2. CASE SessionRequest("change_status", "check_vateam",
                                  "change_status")
    <3>1. local_session_guid \in Session /\ local_session_guid \in lm_sessions
      BY <2>2
         DEF SessionRequest, IInv, SessionInv, TypeOK,
             MembersOK
    <3>2. LmAgent!Use("change_status", local_session_guid)
      BY <2>2, <3>1 DEF SessionRequest, LmAgent!Use, Request
    <3>3. QED
      BY <3>1, <3>2 DEF LmAgent!Next
  <2>3. QED
    BY <1>2, <2>1, <2>2 DEF ChangeStatus
<1>3. CASE CheckVateam("check_stop")
  <2>1. CASE StopCheck("check_vateam")
    BY <2>1
  <2>2. CASE SessionRequest("check_vateam", "check_stop",
                                  "check_vateam")
    <3>1. local_session_guid \in Session /\ local_session_guid \in lm_sessions
      BY <2>2
         DEF SessionRequest, IInv, SessionInv, TypeOK,
             MembersOK
    <3>2. LmAgent!Use("check_vateam", local_session_guid)
      BY <2>2, <3>1 DEF SessionRequest, LmAgent!Use, Request
    <3>3. QED
      BY <3>1, <3>2 DEF LmAgent!Next
  <2>3. QED
    BY <1>3, <2>1, <2>2 DEF CheckVateam
<1>4. CASE Logout("getvateams")
  <2>1. local_session_guid \in Session /\ local_session_guid \in lm_sessions
    BY <1>4
       DEF Logout, LogoutRequest, IInv, SessionInv,
           TypeOK, MembersOK
  <2>2. LmAgent!LogOut(local_session_guid)
    BY <1>4, <2>1
       DEF Logout, LogoutRequest, LmAgent!LogOut,
           Request
  <2>3. QED
    BY <2>1, <2>2 DEF LmAgent!Next
<1>5. CASE \/ StartSequence \/ LookupAndSpawn \/ GetVateams
           \/ Publish("change_status")
           \/ Check("check_stop", "clear")
           \/ Clear \/ StopAlives \/ JoinAlive
  BY <1>5
     DEF StartSequence, Start, LookupAndSpawn,
         SpawnAliveThread, Throw, GetVateams, Publish,
         PublishSession, Check, Clear, ClearSession,
         StopAlives, JoinAlive
<1>6. QED
  BY <1>1, <1>2, <1>3, <1>4, <1>5
     DEF Sequence, BecomeAvailable, LeaveRound

LEMMA WorkerRefines ==
  IInv /\ AliveWorker
    => LmAgent!Next \/ UNCHANGED lmVars
<1> SUFFICES ASSUME IInv, AliveWorker
             PROVE  LmAgent!Next \/ UNCHANGED lmVars
  OBVIOUS
<1>1. CASE AliveLm
  <2>1. worker = "alive_lm"
    BY <1>1 DEF AliveLm, AliveLmOk, AliveLmFails
  <2>2. session_guid_local \in Session /\ session_guid_local \in lm_sessions
    BY <2>1
       DEF IInv, WorkerInv, SessionInv, TypeOK,
           MembersOK
  <2>3. LmAgent!Use("alive", session_guid_local)
    BY <1>1, <2>2
       DEF AliveLm, AliveLmOk, AliveLmFails,
           LmAgent!Use, Request
  <2>4. QED
    BY <2>2, <2>3 DEF LmAgent!Next
<1>2. CASE \/ AliveCheck \/ AliveLock \/ AliveNoSession
           \/ AliveCopySession \/ AliveUnlock
           \/ AliveCheckAgain
  BY <1>2
     DEF AliveCheck, AliveLock, AliveNoSession,
         AliveCopySession, AliveUnlock, AliveCheckAgain,
         lmVars
<1>3. QED
  BY <1>1, <1>2 DEF AliveWorker

(***************************************************************************)
(* The two threads together implement the abstract agent.                  *)
(***************************************************************************)
THEOREM Refinement == Spec => ImplementsAgentSession
<1>1. Init => LmAgent!Init
  BY DEF Init, LmAgent!Init
<1>2. IInv /\ [Next]_vars
        => [LmAgent!Next]_<<lm_sessions, lm_request>>
  <2> SUFFICES ASSUME IInv, [Next]_vars
               PROVE  [LmAgent!Next]_<<lm_sessions, lm_request>>
    OBVIOUS
  <2>1. CASE Sequence
    BY <2>1, SequenceRefines DEF lmVars
  <2>2. CASE AliveWorker
    BY <2>2, WorkerRefines DEF lmVars
  <2>3. CASE TerminateProcess \/ Finished \/ UNCHANGED vars
    BY <2>3
       DEF TerminateProcess, Finished, vars, lmVars
  <2>4. QED
    BY <2>1, <2>2, <2>3 DEF Next
<1>3. QED
  BY <1>1, <1>2, Invariance, PTL
     DEF Spec, ImplementsAgentSession, LmAgent!Spec

-----------------------------------------------------------------------------
(* The object of AgentWorkflow as main() sees it. *)

Staying == /\ sequence \notin {"start", "ended", "threw"}
           /\ sequence' \notin {"start", "ended", "threw"}
           /\ worker' = worker

(***************************************************************************)
(* Between the creation of the alive thread and its join, no step of       *)
(* sequence() arrives, leaves or touches that thread.                      *)
(***************************************************************************)
LEMMA SequenceStays ==
  ASSUME \/ GetVateams \/ Login \/ Publish("change_status")
         \/ ChangeStatus("check_vateam")
         \/ CheckVateam("check_stop")
         \/ Check("check_stop", "clear") \/ Clear
         \/ Logout("getvateams") \/ StopAlives
  PROVE  Staying
BY DEF Staying, Goto, Move, Break, StopCheck,
       Check, workerVars, GetVateams, Login,
       LoginOk, Publish, PublishSession, ChangeStatus,
       CheckVateam, SessionRequest, Clear,
       ClearSession, Logout, LogoutRequest, StopAlives

(***************************************************************************)
(* The sequence thread arrives, creates the alive thread, leaves, or does  *)
(* its work in between.                                                    *)
(***************************************************************************)
LEMMA SequenceOfObject ==
  ASSUME IInv, Sequence
  PROVE  Object!Next
<1> USE DEF Object!Next, ThreadPhase, AlivesPhase,
            SequenceOver, WorkerOver
<1>1. CASE StartSequence
  <2>1. Object!Arrive
    BY <1>1
       DEF StartSequence, Start, Goto, workerVars,
           lmVars, Object!Arrive
  <2>2. QED
    BY <2>1
<1>2. CASE Throw("lookup")
  <2>1. worker = "none"
    BY <1>2 DEF IInv, ThreadInv, Throw, Goto
  <2>2. Object!Leave
    BY <1>2, <2>1
       DEF Throw, Goto, workerVars, lmVars,
           Object!Leave
  <2>3. QED
    BY <2>2
<1>3. CASE SpawnAliveThread("lookup", "getvateams")
  <2>1. worker = "none"
    BY <1>3 DEF IInv, ThreadInv, SpawnAliveThread, Goto
  <2>2. Object!SpawnAlives
    BY <1>3, <2>1
       DEF SpawnAliveThread, Goto, lmVars,
           Object!SpawnAlives
  <2>3. QED
    BY <2>2
<1>4. CASE JoinAlive
  <2>1. Object!Leave
    BY <1>4
       DEF JoinAlive, Goto, workerVars, lmVars,
           Object!Leave
  <2>2. QED
    BY <2>1
<1>5. CASE Staying
  BY <1>5 DEF Staying, Object!Work
<1>6. QED
  BY <1>1, <1>2, <1>3, <1>4, <1>5, SequenceStays
     DEF Sequence, BecomeAvailable, LeaveRound,
         LookupAndSpawn

(***************************************************************************)
(* The alive thread works between its creation and its end, and then the   *)
(* sequence thread has arrived and not left.                               *)
(***************************************************************************)
LEMMA WorkerOfObject ==
  ASSUME IInv, AliveWorker
  PROVE  Object!Next
<1>1. /\ worker \notin {"none", "done"}
      /\ worker' # "none"
      /\ sequence' = sequence
  BY DEF AliveWorker, AliveCheck, AliveLock,
         AliveNoSession, AliveCopySession, AliveLm,
         AliveLmOk, AliveLmFails, AliveUnlock,
         AliveCheckAgain, workerFrame, sequenceVars
<1>2. sequence \notin {"start", "ended", "threw"}
  BY <1>1 DEF IInv, ThreadInv, SequenceOver, WorkerOver
<1> USE DEF ThreadPhase, AlivesPhase, SequenceOver,
            Object!Next
<1>3. CASE worker' = "done"
  <2>1. Object!EndAlives
    BY <1>1, <1>2, <1>3 DEF Object!EndAlives
  <2>2. QED
    BY <2>1
<1>4. CASE worker' # "done"
  <2>1. Object!Work
    BY <1>1, <1>2, <1>4 DEF Object!Work
  <2>2. QED
    BY <2>1
<1>5. QED
  BY <1>3, <1>4

(***************************************************************************)
(* The threads of AgentWorkflow keep the promise main() relies on when it  *)
(* joins the workflow and deletes it.                                      *)
(***************************************************************************)
THEOREM ObjectLife == Spec => ImplementsWorkflowObject
<1>1. Init => Object!Init
  BY DEF Init, Object!Init, ThreadPhase, AlivesPhase,
         SequenceOver
<1>2. IInv /\ [Next]_vars
        => [Object!Next]_(Object!vars)
  <2> SUFFICES ASSUME IInv, [Next]_vars
               PROVE  Object!Next \/ UNCHANGED Object!vars
    OBVIOUS
  <2>1. CASE Sequence
    BY <2>1, SequenceOfObject
  <2>2. CASE AliveWorker
    BY <2>2, WorkerOfObject
  <2>3. CASE TerminateProcess \/ Finished \/ UNCHANGED vars
    <3>1. UNCHANGED <<sequence, worker, lm_request>>
      BY <2>3
         DEF TerminateProcess, Finished, vars,
             sequenceVars, workerVars, lmVars
    <3>2. QED
      BY <3>1
         DEF Object!vars, ThreadPhase, AlivesPhase,
             SequenceOver
  <2>4. QED
    BY <2>1, <2>2, <2>3 DEF Next
<1>3. QED
  BY <1>1, <1>2, Invariance, PTL
     DEF Spec, ImplementsWorkflowObject, Object!Spec

(***************************************************************************)
(* The alive thread of AgentWorkflow does not end inside its critical      *)
(* section either.                                                         *)
(***************************************************************************)
THEOREM MutexIsReleased == Spec => []MutexReleased
<1>1. IInv => MutexReleased
  BY DEF IInv, MutexInv, TypeOK, MembersOK,
         WorkerOver, MutexReleased
<1>2. QED
  BY <1>1, Invariance, PTL
=============================================================================
