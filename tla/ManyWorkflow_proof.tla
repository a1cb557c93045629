-------------------------- MODULE ManyWorkflow_proof --------------------------
(***************************************************************************)
(* Proofs about ManyWorkflow, for all sets of sessions and rooms and any   *)
(* number of updates.                                                      *)
(***************************************************************************)
EXTENDS ManyWorkflow, TLAPS

(***************************************************************************)
(* The mutex is held exactly while the worker is between its lock and its  *)
(* unlock; std::terminate() leaves it as it is.                            *)
(***************************************************************************)
MutexInv ==
  sequence # "terminated" =>
    (session_mutex = "alive" <=>
       worker \in {"read", "read_presenter", "read_viewer", "unlock"})

(***************************************************************************)
(* What LM has open and what _session_guid publishes, place by place.      *)
(***************************************************************************)
LoggedOut == {"start", "lookup", "create_seed", "getvateams", "login"}
Available ==
  {"change_status", "check_vateam", "get_availability", "alive", "create",
   "presenter_check", "presenter", "viewer_check", "viewer", "update_check",
   "update_presenter", "between_updates", "update_viewer", "next_update",
   "close", "clear"}

SessionInv ==
  /\ sequence \in LoggedOut => lm_sessions = {} /\ session_guid = NoSession
  /\ sequence \in {"publish", "logout"} =>
       /\ lm_sessions = {local_session_guid}
       /\ local_session_guid # NoSession
       /\ session_guid = NoSession
  /\ sequence \in Available =>
       /\ lm_sessions = {local_session_guid}
       /\ local_session_guid # NoSession
       /\ session_guid = local_session_guid
  /\ session_guid \in lm_sessions \cup {NoSession}

(***************************************************************************)
(* The room is none before it is created and open until its close; a user  *)
(* id is none or one of the room, and none before the user is created.     *)
(***************************************************************************)
BeforeRoom ==
  LoggedOut \cup
  {"publish", "logout", "change_status", "check_vateam", "get_availability",
   "alive", "create"}
BeforePresenter == BeforeRoom \cup {"presenter_check", "presenter"}
BeforeViewer == BeforePresenter \cup {"viewer_check", "viewer"}
AfterClose == {"clear", "stop_alives", "join", "ended", "threw", "terminated"}

RoomInv ==
  /\ gari_presenter_guid \in {delfosnar_guid, NoRoom}
  /\ gari_viewer_guid \in {delfosnar_guid, NoRoom}
  /\ sequence \in BeforeRoom => delfosnar_guid = NoRoom
  /\ sequence \in BeforePresenter => gari_presenter_guid = NoRoom
  /\ sequence \in BeforeViewer => gari_viewer_guid = NoRoom
  /\ sequence \notin AfterClose => delfosnar_guid \in lm_rooms \cup {NoRoom}

(***************************************************************************)
(* What the worker found not to be empty stays so while it reads.          *)
(***************************************************************************)
ReadInv ==
  /\ worker = "read_presenter" => Reads(gari_presenter_guid)
  /\ worker = "read_viewer" => Reads(gari_viewer_guid)

(***************************************************************************)
(* Within the body of the loop of updates i is less than its bound.        *)
(***************************************************************************)
UpdateInv ==
  sequence \in {"update_presenter", "between_updates", "update_viewer",
                "next_update"} => update < UpdateRoom

(***************************************************************************)
(* The worker exists only between its creation and its end.                *)
(***************************************************************************)
ThreadInv ==
  /\ sequence \in {"start", "lookup", "create_seed"} => worker = "none"
  /\ SequenceOver \/ sequence = "terminated" => WorkerOver
  /\ worker = "none" =>
       sequence \in {"start", "lookup", "create_seed", "threw"}
  /\ worker # "alive_lm"

IInv == /\ TypeOK /\ MutexInv /\ SessionInv /\ RoomInv /\ ReadInv
        /\ UpdateInv /\ ThreadInv

LEMMA InitInv == ManyInit => IInv
<1> SUFFICES ASSUME ManyInit PROVE IInv
  OBVIOUS
<1> USE DEF ManyInit, Init
<1>1. TypeOK
  <2>1. MembersOK
    BY DEF MembersOK
  <2>2. update \in 0 .. UpdateRoom
    BY UpdateRoomAssumption
  <2>3. QED
    BY <2>1, <2>2 DEF TypeOK, SequenceLocation, WorkerLocation
<1>2. MutexInv /\ SessionInv /\ RoomInv
  BY DEF MutexInv, SessionInv, RoomInv, LoggedOut, Available, BeforeRoom,
         BeforePresenter, BeforeViewer, AfterClose
<1>3. ReadInv /\ UpdateInv /\ ThreadInv
  BY DEF ReadInv, UpdateInv, ThreadInv, SequenceOver, WorkerOver
<1>4. QED
  BY <1>1, <1>2, <1>3 DEF IInv

(***************************************************************************)
(* The sequence thread keeps the invariant.  CreateRoom alone writes what  *)
(* the worker reads without taking the mutex, and then there is no user    *)
(* yet to read the room as.                                                *)
(***************************************************************************)
LEMMA SequenceKeepsInv == IInv /\ Sequence => IInv'
<1> SUFFICES ASSUME IInv, Sequence PROVE IInv'
  OBVIOUS
<1> USE SessionAssumption, RoomAssumption, UpdateRoomAssumption
    DEF IInv, TypeOK, MembersOK, MutexInv, SessionInv, RoomInv, ReadInv,
        UpdateInv, ThreadInv, SequenceLocation, WorkerLocation, SequenceOver,
        WorkerOver, LoggedOut, Available, BeforeRoom, BeforePresenter,
        BeforeViewer, AfterClose, Reads,
        Goto, Move, Break, StopCheck, workerVars, lmVars, roomVars
<1>1. CASE BecomeAvailable
  <2> USE <1>1 DEF BecomeAvailable
  <2>1. CASE StartSequence
    BY <2>1 DEF StartSequence, Start
  <2>2. CASE LookupGuids
    BY <2>2 DEF LookupGuids, Throw
  <2>3. CASE CreateSeed("getvateams")
    BY <2>3 DEF CreateSeed, SpawnAliveThread, Throw
  <2>4. CASE GetVateams
    BY <2>4 DEF GetVateams, Check
  <2>5. CASE Login
    <3>1. CASE StopCheck("login") \/ Break("login")
      BY <3>1
    <3>2. CASE \E s \in Session : LoginOk("login", "publish", s)
      BY <3>2 DEF LoginOk
    <3>3. QED
      BY <2>5, <3>1, <3>2 DEF Login
  <2>6. CASE Publish("change_status")
    BY <2>6 DEF Publish, PublishSession
  <2>7. CASE ChangeStatus("check_vateam")
    BY <2>7 DEF ChangeStatus, SessionRequest
  <2>8. CASE CheckVateam("get_availability")
    BY <2>8 DEF CheckVateam, SessionRequest
  <2>9. CASE GetAvailability("alive")
    BY <2>9 DEF GetAvailability
  <2>10. QED
    BY <2>1, <2>2, <2>3, <2>4, <2>5, <2>6, <2>7, <2>8, <2>9
<1>2. CASE AliveOfSequence
  BY <1>2 DEF AliveOfSequence
<1>3. CASE CreateRoom
  <2>1. CASE StopCheck("create") /\ UNCHANGED roomVars
    BY <2>1
  <2>2. CASE ~(StopCheck("create") /\ UNCHANGED roomVars)
    BY <1>3, <2>2 DEF CreateRoom, SessionRequest
  <2>3. QED
    BY <2>1, <2>2
<1>4. CASE EnterRoom
  <2>1. CASE Check("presenter_check", "presenter") /\ UNCHANGED roomVars
    BY <2>1 DEF Check
  <2>2. CASE Check("viewer_check", "viewer") /\ UNCHANGED roomVars
    BY <2>2 DEF Check
  <2>3. CASE CreatePresenter
    BY <2>3 DEF CreatePresenter, Issued
  <2>4. CASE CreateViewer
    BY <2>4 DEF CreateViewer, Issued
  <2>5. QED
    BY <1>4, <2>1, <2>2, <2>3, <2>4 DEF EnterRoom
<1>5. CASE UpdateRooms
  <2>1. CASE FirstUpdate
    BY <2>1 DEF FirstUpdate
  <2>2. CASE Post("update_presenter", "between_updates") /\ UNCHANGED roomVars
    BY <2>2 DEF Post
  <2>3. CASE Check("between_updates", "update_viewer") /\ UNCHANGED roomVars
    BY <2>3 DEF Check
  <2>4. CASE Post("update_viewer", "next_update") /\ UNCHANGED roomVars
    BY <2>4 DEF Post
  <2>5. CASE NextUpdate
    BY <2>5 DEF NextUpdate
  <2>6. QED
    BY <1>5, <2>1, <2>2, <2>3, <2>4, <2>5 DEF UpdateRooms
<1>6. CASE LeaveRound
  <2>1. CASE CloseRoom
    BY <2>1 DEF CloseRoom
  <2>2. CASE ClearAll
    BY <2>2 DEF ClearAll, Clear, ClearSession
  <2>3. CASE Logout("getvateams") /\ UNCHANGED roomVars
    BY <2>3 DEF Logout, LogoutRequest
  <2>4. CASE StopAlives /\ UNCHANGED roomVars
    <3>1. TypeOK'
      BY <2>4 DEF StopAlives
    <3>2. (MutexInv /\ SessionInv /\ RoomInv)'
      BY <2>4 DEF StopAlives
    <3>3. (ReadInv /\ UpdateInv /\ ThreadInv)'
      BY <2>4 DEF StopAlives
    <3>4. QED
      BY <3>1, <3>2, <3>3
  <2>5. CASE JoinAlive /\ UNCHANGED roomVars
    BY <2>5 DEF JoinAlive
  <2>6. QED
    BY <1>6, <2>1, <2>2, <2>3, <2>4, <2>5 DEF LeaveRound
<1>7. QED
  BY <1>1, <1>2, <1>3, <1>4, <1>5, <1>6 DEF Sequence

(***************************************************************************)
(* The alive thread writes nothing but its location and the mutex.         *)
(***************************************************************************)
LEMMA WorkerKeepsInv == IInv /\ AliveWorker => IInv'
<1> SUFFICES ASSUME IInv, AliveWorker PROVE IInv'
  OBVIOUS
<1> USE DEF IInv, TypeOK, MembersOK, MutexInv, SessionInv, RoomInv, ReadInv,
        UpdateInv, ThreadInv, SequenceLocation, WorkerLocation, SequenceOver,
        WorkerOver, LoggedOut, Available, BeforeRoom, BeforePresenter,
        BeforeViewer, AfterClose, Reads, AfterPresenter,
        workerFrame, sequenceVars, lmVars, roomVars
<1>1. UNCHANGED roomVars
  BY DEF AliveWorker
<1>2. CASE AliveCheck
  BY <1>1, <1>2 DEF AliveCheck
<1>3. CASE AliveLock
  BY <1>1, <1>3 DEF AliveLock
<1>4. CASE AliveNoSession
  BY <1>1, <1>4 DEF AliveNoSession
<1>5. CASE AliveChoose
  BY <1>1, <1>5 DEF AliveChoose
<1>6. CASE ReadRoom("read_presenter", AfterPresenter)
  BY <1>1, <1>6 DEF ReadRoom
<1>7. CASE ReadRoom("read_viewer", "unlock")
  BY <1>1, <1>7 DEF ReadRoom
<1>8. CASE AliveUnlock
  BY <1>1, <1>8 DEF AliveUnlock
<1>9. CASE AliveCheckAgain
  BY <1>1, <1>9 DEF AliveCheckAgain
<1>10. QED
  BY <1>2, <1>3, <1>4, <1>5, <1>6, <1>7, <1>8, <1>9 DEF AliveWorker

LEMMA StepInv == IInv /\ [NextMany]_manyVars => IInv'
<1> SUFFICES ASSUME IInv, [NextMany]_manyVars PROVE IInv'
  OBVIOUS
<1>1. CASE Sequence
  BY <1>1, SequenceKeepsInv
<1>2. CASE AliveWorker
  BY <1>2, WorkerKeepsInv
<1> USE DEF IInv, TypeOK, MembersOK, MutexInv, SessionInv, RoomInv, ReadInv,
        UpdateInv, ThreadInv, SequenceOver, WorkerOver, Reads,
        sequenceVars, workerVars, lmVars, roomVars
<1>3. CASE TerminateProcess /\ UNCHANGED roomVars
  <2>1. TypeOK'
    BY <1>3 DEF TerminateProcess
  <2>2. (MutexInv /\ SessionInv /\ RoomInv)'
    BY <1>3 DEF TerminateProcess
  <2>3. (ReadInv /\ UpdateInv /\ ThreadInv)'
    BY <1>3 DEF TerminateProcess
  <2>4. QED
    BY <2>1, <2>2, <2>3
<1>4. CASE UNCHANGED manyVars
  BY <1>4 DEF manyVars, vars
<1>5. QED
  BY <1>1, <1>2, <1>3, <1>4 DEF NextMany, Finished, Over, manyVars

LEMMA Invariance == Spec => []IInv
<1>1. ManyInit => IInv
  BY InitInv
<1>2. IInv /\ [NextMany]_manyVars => IInv'
  BY StepInv
<1>3. QED
  BY <1>1, <1>2, PTL DEF Spec

(***************************************************************************)
(* Type correctness of both threads of ManyWorkflow; i stays within the    *)
(* bound of its loop.                                                      *)
(***************************************************************************)
THEOREM TypeCorrect == Spec => []TypeOK
<1>1. IInv => TypeOK
  BY DEF IInv
<1>2. QED
  BY <1>1, Invariance, PTL

(***************************************************************************)
(* alive_worker() never reads a room as the user of another one.           *)
(***************************************************************************)
THEOREM ReadsAsOwnUser == Spec => []ReadsAsUserOfRoom
<1>1. IInv => ReadsAsUserOfRoom
  BY DEF IInv, RoomInv, ReadInv, Reads, ReadsAsUserOfRoom
<1>2. QED
  BY <1>1, Invariance, PTL

(***************************************************************************)
(* A room whose close was requested is read only until sequence() clears   *)
(* it or gives up.                                                         *)
(***************************************************************************)
THEOREM ReadsOpenRoom == Spec => []ReadsClosedRoomWhileClosing
<1>1. IInv => ReadsClosedRoomWhileClosing
  BY DEF IInv, RoomInv, ReadInv, Reads, ThreadInv, SequenceOver, WorkerOver,
         AfterClose, ReadsClosedRoomWhileClosing
<1>2. QED
  BY <1>1, Invariance, PTL

(***************************************************************************)
(* LM sees every step of either thread as a step of one well-behaved       *)
(* agent, or not at all.                                                   *)
(***************************************************************************)
LEMMA RequestRefines ==
  ASSUME NEW from, NEW to,
         NEW op \in {"change_status", "check_vateam", "create"},
         IInv, from \in Available, SessionRequest(from, to, op)
  PROVE  LmAgent!Next
<1>1. local_session_guid \in Session /\ local_session_guid \in lm_sessions
  BY DEF SessionRequest, IInv, SessionInv, TypeOK, MembersOK
<1>2. LmAgent!Use(op, local_session_guid)
  BY <1>1 DEF SessionRequest, LmAgent!Use, Request
<1>3. QED
  BY <1>1, <1>2 DEF LmAgent!Next

LEMMA SequenceRefines ==
  IInv /\ Sequence => LmAgent!Next \/ UNCHANGED lmVars
<1> SUFFICES ASSUME IInv, Sequence
             PROVE  LmAgent!Next \/ UNCHANGED lmVars
  OBVIOUS
<1> USE DEF Goto, Move, Break, StopCheck, Check, lmVars
<1>1. CASE Login
  <2>1. CASE StopCheck("login") \/ Break("login")
    BY <2>1
  <2>2. CASE \E s \in Session : LoginOk("login", "publish", s)
    <3>1. PICK s \in Session : LoginOk("login", "publish", s)
      BY <2>2
    <3>2. LmAgent!LogIn(s)
      BY <3>1 DEF LoginOk, IInv, SessionInv, LoggedOut, LmAgent!LogIn, Request
    <3>3. QED
      BY <3>2 DEF LmAgent!Next
  <2>3. QED
    BY <1>1, <2>1, <2>2 DEF Login
<1>2. CASE ChangeStatus("check_vateam")
  BY <1>2, RequestRefines DEF ChangeStatus, Available
<1>3. CASE CheckVateam("get_availability")
  BY <1>3, RequestRefines DEF CheckVateam, Available
<1>4. CASE CreateRoom
  BY <1>4, RequestRefines DEF CreateRoom, Available
<1>5. CASE AliveOfSequence
  <2>1. CASE StopCheck("alive")
    BY <2>1
  <2>2. CASE ~StopCheck("alive")
    <3>1. session_guid \in Session /\ session_guid \in lm_sessions
      BY <1>5, <2>2 DEF AliveOfSequence, IInv, SessionInv, Available, TypeOK,
                        MembersOK
    <3>2. LmAgent!Use("alive", session_guid)
      BY <1>5, <2>2, <3>1 DEF AliveOfSequence, LmAgent!Use, Request
    <3>3. QED
      BY <3>1, <3>2 DEF LmAgent!Next
  <2>3. QED
    BY <2>1, <2>2
<1>6. CASE CloseRoom
  <2>1. local_session_guid \in Session /\ local_session_guid \in lm_sessions
    BY <1>6 DEF CloseRoom, IInv, SessionInv, Available, TypeOK, MembersOK
  <2>2. LmAgent!Use("close", local_session_guid)
    BY <1>6, <2>1 DEF CloseRoom, LmAgent!Use, Request
  <2>3. QED
    BY <2>1, <2>2 DEF LmAgent!Next
<1>7. CASE Logout("getvateams")
  <2>1. local_session_guid \in Session /\ local_session_guid \in lm_sessions
    BY <1>7 DEF Logout, LogoutRequest, IInv, SessionInv, TypeOK, MembersOK
  <2>2. LmAgent!LogOut(local_session_guid)
    BY <1>7, <2>1 DEF Logout, LogoutRequest, LmAgent!LogOut, Request
  <2>3. QED
    BY <2>1, <2>2 DEF LmAgent!Next
<1>8. CASE \/ StartSequence \/ LookupGuids \/ CreateSeed("getvateams")
           \/ GetVateams \/ Publish("change_status")
           \/ GetAvailability("alive")
  BY <1>8 DEF StartSequence, Start, LookupGuids, Throw, CreateSeed,
              SpawnAliveThread, GetVateams, Publish, PublishSession,
              GetAvailability
<1>9. CASE EnterRoom \/ UpdateRooms
  BY <1>9 DEF EnterRoom, CreatePresenter, CreateViewer, UpdateRooms,
              FirstUpdate, Post, NextUpdate
<1>10. CASE ClearAll \/ StopAlives \/ JoinAlive
  BY <1>10 DEF ClearAll, Clear, ClearSession, StopAlives, JoinAlive
<1>11. QED
  BY <1>1, <1>2, <1>3, <1>4, <1>5, <1>6, <1>7, <1>8, <1>9, <1>10
     DEF Sequence, BecomeAvailable, LeaveRound

(***************************************************************************)
(* The two threads together implement the abstract agent; the alive thread *)
(* of this workflow asks LM for nothing.                                   *)
(***************************************************************************)
THEOREM Refinement == Spec => ImplementsAgentSession
<1>1. ManyInit => LmAgent!Init
  BY DEF ManyInit, Init, LmAgent!Init
<1>2. IInv /\ [NextMany]_manyVars
        => [LmAgent!Next]_<<lm_sessions, lm_request>>
  <2> SUFFICES ASSUME IInv, [NextMany]_manyVars
               PROVE  [LmAgent!Next]_<<lm_sessions, lm_request>>
    OBVIOUS
  <2>1. CASE Sequence
    BY <2>1, SequenceRefines DEF lmVars
  <2>2. CASE AliveWorker
    BY <2>2 DEF AliveWorker, AliveCheck, AliveLock, AliveNoSession,
                AliveChoose, ReadRoom, AliveUnlock, AliveCheckAgain, lmVars
  <2>3. CASE TerminateProcess \/ Finished \/ Over \/ UNCHANGED manyVars
    BY <2>3 DEF TerminateProcess, Finished, Over, manyVars, vars, lmVars
  <2>4. QED
    BY <2>1, <2>2, <2>3 DEF NextMany
<1>3. QED
  BY <1>1, <1>2, Invariance, PTL
     DEF Spec, ImplementsAgentSession, LmAgent!Spec

-----------------------------------------------------------------------------
(* The object of ManyWorkflow as main() sees it. *)

Staying == /\ sequence \notin {"start", "ended", "threw"}
           /\ sequence' \notin {"start", "ended", "threw"}
           /\ worker' = worker

(***************************************************************************)
(* Between the creation of the alive thread and its join, no step of       *)
(* sequence() arrives, leaves or touches that thread.                      *)
(***************************************************************************)
LEMMA SequenceStays ==
  ASSUME \/ GetVateams \/ Login \/ Publish("change_status")
         \/ ChangeStatus("check_vateam") \/ CheckVateam("get_availability")
         \/ GetAvailability("alive")
         \/ CreateRoom \/ EnterRoom \/ UpdateRooms
         \/ CloseRoom \/ ClearAll \/ Logout("getvateams") \/ StopAlives
  PROVE  Staying
<1> USE DEF Staying, Goto, Move, Break, StopCheck, Check, workerVars
<1>1. CASE \/ GetVateams \/ Login \/ Publish("change_status")
           \/ ChangeStatus("check_vateam") \/ CheckVateam("get_availability")
           \/ GetAvailability("alive")
  BY <1>1
     DEF GetVateams, Login, LoginOk, Publish, PublishSession, ChangeStatus,
         CheckVateam, SessionRequest, GetAvailability
<1>2. CASE CreateRoom \/ EnterRoom
  <2>1. CASE CreateRoom
    BY <2>1 DEF CreateRoom, SessionRequest
  <2>2. CASE EnterRoom
    BY <2>2 DEF EnterRoom, CreatePresenter, CreateViewer
  <2>3. QED
    BY <1>2, <2>1, <2>2
<1>3. CASE UpdateRooms
  BY <1>3 DEF UpdateRooms, FirstUpdate, Post, NextUpdate
<1>4. CASE \/ CloseRoom \/ ClearAll \/ Logout("getvateams") \/ StopAlives
  BY <1>4
     DEF CloseRoom, ClearAll, Clear, ClearSession, Logout, LogoutRequest,
         StopAlives
<1>5. QED
  BY <1>1, <1>2, <1>3, <1>4

(***************************************************************************)
(* The sequence thread arrives, creates the alive thread, leaves, or does  *)
(* its work in between.                                                    *)
(***************************************************************************)
LEMMA SequenceOfObject ==
  ASSUME IInv, Sequence
  PROVE  Object!Next \/ UNCHANGED Object!vars
<1> USE DEF Object!Next, ThreadPhase, AlivesPhase, SequenceOver, WorkerOver
<1>1. CASE StartSequence
  <2>1. Object!Arrive
    BY <1>1 DEF StartSequence, Start, Goto, workerVars, lmVars, Object!Arrive
  <2>2. QED
    BY <2>1
<1>2. CASE LookupGuids \/ CreateSeed("getvateams") \/ JoinAlive
  <2>1. CASE Throw("lookup") \/ Throw("create_seed")
    <3>1. worker = "none"
      BY <2>1 DEF IInv, ThreadInv, Throw, Goto
    <3>2. Object!Leave
      BY <2>1, <3>1 DEF Throw, Goto, workerVars, lmVars, Object!Leave
    <3>3. QED
      BY <3>2
  <2>2. CASE Move("lookup", "create_seed")
    BY <2>2 DEF Move, Goto, workerVars, Object!Work
  <2>3. CASE SpawnAliveThread("create_seed", "getvateams")
    <3>1. worker = "none"
      BY <2>3 DEF IInv, ThreadInv, SpawnAliveThread, Goto
    <3>2. Object!SpawnAlives
      BY <2>3, <3>1 DEF SpawnAliveThread, Goto, lmVars, Object!SpawnAlives
    <3>3. QED
      BY <3>2
  <2>4. CASE JoinAlive
    <3>1. Object!Leave
      BY <2>4 DEF JoinAlive, Goto, workerVars, lmVars, Object!Leave
    <3>2. QED
      BY <3>1
  <2>5. QED
    BY <1>2, <2>1, <2>2, <2>3, <2>4 DEF LookupGuids, CreateSeed
<1>3. CASE Staying
  BY <1>3 DEF Staying, Object!Work
<1>4. CASE AliveOfSequence
  <2>1. CASE Staying
    BY <1>3, <2>1
  <2>2. CASE ~Staying
    <3>1. /\ sequence = "alive" /\ sequence' = "terminated"
          /\ worker' = "done" /\ worker # "done"
      BY <1>4, <2>2
         DEF AliveOfSequence, Staying, StopCheck, Break, Move, Goto,
             workerVars
    <3>2. worker # "none"
      BY <3>1 DEF IInv, ThreadInv
    <3>3. Object!EndAlives
      BY <3>1, <3>2 DEF Object!EndAlives
    <3>4. QED
      BY <3>3
  <2>3. QED
    BY <2>1, <2>2
<1>5. QED
  BY <1>1, <1>2, <1>3, SequenceStays, <1>4
     DEF Sequence, BecomeAvailable, LeaveRound

(***************************************************************************)
(* The alive thread works between its creation and its end, and then the   *)
(* sequence thread has arrived and not left.                               *)
(***************************************************************************)
LEMMA WorkerOfObject ==
  ASSUME IInv, AliveWorker
  PROVE  Object!Next
<1>1. /\ worker \notin {"none", "done"}
      /\ worker' # "none"
      /\ sequence' = sequence
  BY DEF AliveWorker, AliveCheck, AliveLock, AliveNoSession, AliveChoose,
         ReadRoom, AfterPresenter, AliveUnlock, AliveCheckAgain, workerFrame,
         sequenceVars
<1>2. sequence \notin {"start", "ended", "threw"}
  BY <1>1 DEF IInv, ThreadInv, SequenceOver, WorkerOver
<1> USE DEF ThreadPhase, AlivesPhase, SequenceOver, Object!Next
<1>3. CASE worker' = "done"
  <2>1. Object!EndAlives
    BY <1>1, <1>2, <1>3 DEF Object!EndAlives
  <2>2. QED
    BY <2>1
<1>4. CASE worker' # "done"
  <2>1. Object!Work
    BY <1>1, <1>2, <1>4 DEF Object!Work
  <2>2. QED
    BY <2>1
<1>5. QED
  BY <1>3, <1>4

(***************************************************************************)
(* The threads of the workflow keep the promise main() relies on when it   *)
(* joins the workflow and deletes it.                                      *)
(***************************************************************************)
THEOREM ObjectLife == Spec => ImplementsWorkflowObject
<1>1. ManyInit => Object!Init
  BY DEF ManyInit, Init, Object!Init, ThreadPhase, AlivesPhase
<1>2. IInv /\ [NextMany]_manyVars => [Object!Next]_(Object!vars)
  <2> SUFFICES ASSUME IInv, [NextMany]_manyVars
               PROVE  Object!Next \/ UNCHANGED Object!vars
    OBVIOUS
  <2>1. CASE Sequence
    BY <2>1, SequenceOfObject
  <2>2. CASE AliveWorker
    BY <2>2, WorkerOfObject
  <2>3. CASE TerminateProcess \/ Finished \/ Over \/ UNCHANGED manyVars
    <3>1. UNCHANGED <<sequence, worker, lm_request>>
      BY <2>3
         DEF TerminateProcess, Finished, Over, manyVars, vars, sequenceVars,
             workerVars, lmVars
    <3>2. QED
      BY <3>1 DEF Object!vars, ThreadPhase, AlivesPhase, SequenceOver
  <2>4. QED
    BY <2>1, <2>2, <2>3 DEF NextMany
<1>3. QED
  BY <1>1, <1>2, Invariance, PTL
     DEF Spec, ImplementsWorkflowObject, Object!Spec

(***************************************************************************)
(* When sequence() has returned, its alive thread is over.                 *)
(***************************************************************************)
THEOREM WorkerJoined == Spec => []NoOrphanWorker
<1>1. IInv => NoOrphanWorker
  BY DEF IInv, ThreadInv, NoOrphanWorker
<1>2. QED
  BY <1>1, Invariance, PTL

(***************************************************************************)
(* An alive thread that is over does not hold the mutex.                   *)
(***************************************************************************)
THEOREM MutexIsReleased == Spec => [](sequence # "terminated" => MutexReleased)
<1>1. IInv => (sequence # "terminated" => MutexReleased)
  BY DEF IInv, MutexInv, TypeOK, MembersOK, WorkerOver, MutexReleased
<1>2. QED
  BY <1>1, Invariance, PTL
=============================================================================
