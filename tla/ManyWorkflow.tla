------------------------------ MODULE ManyWorkflow ------------------------------
(***************************************************************************)
(* src/src/workflows/ManyWorkflow.cpp (class delfosnarWorkflow): the agent *)
(* logs in and creates a room many may visit, enters it at Gari as its     *)
(* presenter and as a viewer, posts as both in turn, closes the room and   *)
(* logs out; for ever.  Its alive thread sends no alives to LM but reads   *)
(* the room as both users.                                                 *)
(***************************************************************************)
EXTENDS Workflow, Naturals

CONSTANTS
  Room,         \* the guids of the rooms LM creates; Gari names them alike
  NoRoom,       \* the empty _delfosnar_guid, and user id 0
  UpdateRoom    \* WHISBINAR_UPDATE_ROOM, 5 in the code

ASSUME RoomAssumption == NoRoom \notin Room
ASSUME UpdateRoomAssumption == UpdateRoom \in Nat

VARIABLES
  delfosnar_guid,       \* _delfosnar_guid
  gari_presenter_guid,  \* _gari_presenter_guid: the room that issued it
  gari_viewer_guid,     \* _gari_viewer_guid: the room that issued it
  update,               \* i, the local of the loop of updates
  lm_rooms              \* external: LM's rooms, until their close is asked

roomVars == <<delfosnar_guid, gari_presenter_guid, gari_viewer_guid, update,
              lm_rooms>>
manyVars == <<vars, roomVars>>

SequenceLocation ==
  {"start", "lookup", "create_seed", "getvateams", "login", "publish",
   "change_status", "check_vateam", "get_availability", "alive", "create",
   "presenter_check", "presenter", "viewer_check", "viewer", "update_check",
   "update_presenter", "between_updates", "update_viewer", "next_update",
   "close", "clear", "logout", "stop_alives", "join", "ended", "threw",
   "terminated"}

ManyInit ==
  /\ Init
  /\ delfosnar_guid = NoRoom
  /\ gari_presenter_guid = NoRoom
  /\ gari_viewer_guid = NoRoom
  /\ update = 0
  /\ lm_rooms = {}

-----------------------------------------------------------------------------
(* The sequence thread. *)

BecomeAvailable ==
  /\ \/ StartSequence \/ LookupGuids \/ CreateSeed("getvateams")
     \/ GetVateams \/ Login \/ Publish("change_status")
     \/ ChangeStatus("check_vateam") \/ CheckVateam("get_availability")
     \/ GetAvailability("alive")
  /\ UNCHANGED roomVars

(***************************************************************************)
(* The sequence itself sends one alive.  When LM refuses it, an exception  *)
(* is thrown while the alive thread is joinable: unwinding destroys the    *)
(* std::thread, which calls std::terminate() before any handler runs, and  *)
(* the process is gone.                                                    *)
(***************************************************************************)
AliveOfSequence ==
  /\ \/ StopCheck("alive")
     \/ /\ process_can_continue
        /\ sequence = "alive"
        /\ sequence' \in {"create", "terminated"}
        /\ worker' = IF sequence' = "terminated" THEN "done" ELSE worker
        /\ lm_request' = Request("alive", session_guid)
        /\ UNCHANGED <<process_can_continue, workflow_running,
                       local_session_guid, session_mutex, session_guid_local,
                       alive_can_continue, session_guid, lm_sessions>>
  /\ UNCHANGED roomVars

(***************************************************************************)
(* _delfosnar_guid is written without the mutex; the alive thread reads it *)
(* meanwhile, but only to find the presenter's id 0 next.  A good response *)
(* may carry no guid.                                                      *)
(***************************************************************************)
CreateRoom ==
  \/ StopCheck("create") /\ UNCHANGED roomVars
  \/ /\ SessionRequest("create", "presenter_check", "create")
     /\ IF sequence' = "stop_alives"
        THEN UNCHANGED <<delfosnar_guid, lm_rooms>>
        ELSE \E r \in Room \ lm_rooms :
               /\ lm_rooms' = lm_rooms \cup {r}
               /\ delfosnar_guid' \in {r, delfosnar_guid}
     /\ UNCHANGED <<gari_presenter_guid, gari_viewer_guid, update>>

(***************************************************************************)
(* gari_create_user(): the request needs no lock, storing the id does; a   *)
(* failure is ignored.  Gari issues ids for the rooms it has only.         *)
(***************************************************************************)
Issued == {delfosnar_guid} \cap lm_rooms

CreatePresenter ==
  \/ Move("presenter", "viewer_check") /\ UNCHANGED roomVars
  \/ /\ session_mutex = "free"
     /\ Move("presenter", "viewer_check")
     /\ gari_presenter_guid' \in Issued
     /\ UNCHANGED <<delfosnar_guid, gari_viewer_guid, update, lm_rooms>>

CreateViewer ==
  \/ Move("viewer", "update_check") /\ UNCHANGED roomVars
  \/ /\ session_mutex = "free"
     /\ Move("viewer", "update_check")
     /\ gari_viewer_guid' \in Issued
     /\ UNCHANGED <<delfosnar_guid, gari_presenter_guid, update, lm_rooms>>

EnterRoom ==
  \/ /\ \/ Check("presenter_check", "presenter")
        \/ Check("viewer_check", "viewer")
     /\ UNCHANGED roomVars
  \/ CreatePresenter \/ CreateViewer

(***************************************************************************)
(* Presenter and viewer post in turn; a failed post leaves both loops.     *)
(***************************************************************************)
FirstUpdate ==
  /\ \/ StopCheck("update_check")
     \/ /\ process_can_continue
        /\ Move("update_check",
                IF UpdateRoom = 0 THEN "close" ELSE "update_presenter")
  /\ update' = 0
  /\ UNCHANGED <<delfosnar_guid, gari_presenter_guid, gari_viewer_guid,
                 lm_rooms>>

Post(from, to) == Move(from, to) \/ Break(from)

NextUpdate ==
  /\ update' = update + 1
  /\ \/ StopCheck("next_update")
     \/ /\ process_can_continue
        /\ Move("next_update",
                IF update' < UpdateRoom THEN "update_presenter" ELSE "close")
  /\ UNCHANGED <<delfosnar_guid, gari_presenter_guid, gari_viewer_guid,
                 lm_rooms>>

UpdateRooms ==
  \/ FirstUpdate
  \/ /\ \/ Post("update_presenter", "between_updates")
        \/ Check("between_updates", "update_viewer")
        \/ Post("update_viewer", "next_update")
     /\ UNCHANGED roomVars
  \/ NextUpdate

(***************************************************************************)
(* No stop check comes before the close.                                   *)
(***************************************************************************)
CloseRoom ==
  /\ sequence = "close"
  /\ sequence' \in {"clear", "stop_alives"}
  /\ lm_request' = Request("close", local_session_guid)
  /\ lm_rooms' = lm_rooms \ {delfosnar_guid}
  /\ UNCHANGED <<process_can_continue, workflow_running, local_session_guid,
                 workerVars, alive_can_continue, session_guid, lm_sessions,
                 delfosnar_guid, gari_presenter_guid, gari_viewer_guid,
                 update>>

\* a bug: the guid of the room is cleared, the ids of its users are kept
ClearRoomOnly ==
  /\ Clear
  /\ delfosnar_guid' = NoRoom
  /\ UNCHANGED <<gari_presenter_guid, gari_viewer_guid, update, lm_rooms>>

\* a bug: the room is not cleared with the session
ClearSessionOnly == Clear /\ UNCHANGED roomVars

ClearAll ==
  /\ Clear
  /\ delfosnar_guid' = NoRoom
  /\ gari_presenter_guid' = NoRoom
  /\ gari_viewer_guid' = NoRoom
  /\ UNCHANGED <<update, lm_rooms>>

LeaveRound ==
  \/ CloseRoom \/ ClearAll
  \/ (Logout("getvateams") \/ StopAlives \/ JoinAlive) /\ UNCHANGED roomVars

Sequence == \/ BecomeAvailable \/ AliveOfSequence \/ CreateRoom \/ EnterRoom
            \/ UpdateRooms \/ LeaveRound

-----------------------------------------------------------------------------
(* The alive thread. *)

(***************************************************************************)
(* Where a section that has looked at the first users goes: user ids and   *)
(* the room are read under the mutex, one after the other.                 *)
(***************************************************************************)
Reads(user) == delfosnar_guid # NoRoom /\ user # NoRoom

AfterPresenter == IF Reads(gari_viewer_guid) THEN "read_viewer" ELSE "unlock"

AliveChoose ==
  /\ worker = "read"
  /\ session_guid # NoSession
  /\ worker' = IF Reads(gari_presenter_guid) THEN "read_presenter"
                                             ELSE AfterPresenter
  /\ UNCHANGED <<workerFrame, session_mutex, session_guid_local, lmVars>>

(***************************************************************************)
(* gari_read_room(): a failure throws, and the catch block unlocks.        *)
(***************************************************************************)
ReadRoom(location, next) ==
  /\ worker = location
  /\ \/ worker' = next /\ UNCHANGED session_mutex
     \/ worker' = "done" /\ session_mutex' = "free"
  /\ UNCHANGED <<workerFrame, session_guid_local, lmVars>>

AliveWorker ==
  /\ \/ AliveCheck \/ AliveLock \/ AliveNoSession \/ AliveChoose
     \/ ReadRoom("read_presenter", AfterPresenter)
     \/ ReadRoom("read_viewer", "unlock")
     \/ AliveUnlock \/ AliveCheckAgain
  /\ UNCHANGED roomVars

-----------------------------------------------------------------------------

Over == sequence = "terminated" /\ UNCHANGED manyVars

NextMany ==
  \/ Sequence
  \/ AliveWorker
  \/ /\ sequence # "terminated"
     /\ TerminateProcess
     /\ UNCHANGED roomVars
  \/ Finished /\ UNCHANGED roomVars
  \/ Over

Spec == ManyInit /\ [][NextMany]_manyVars

(***************************************************************************)
(* The fairness of AgentWorkflow.                                          *)
(***************************************************************************)
FairSpec == Spec /\ SF_manyVars(Sequence) /\ WF_manyVars(AliveWorker)

-----------------------------------------------------------------------------
(* The members of the workflow stay within their types, and i within its   *)
(* bound.                                                                  *)
TypeOK ==
  /\ MembersOK
  /\ sequence \in SequenceLocation
  /\ worker \in WorkerLocation \cup {"read_presenter", "read_viewer"}
  /\ {delfosnar_guid, gari_presenter_guid, gari_viewer_guid}
       \subseteq Room \cup {NoRoom}
  /\ update \in 0 .. UpdateRoom
  /\ lm_rooms \in SUBSET Room

(***************************************************************************)
(* The alive thread reads a room as a user that very room issued: ids and  *)
(* room change together, or one of them is 0.                              *)
(***************************************************************************)
ReadsAsUserOfRoom ==
  /\ worker = "read_presenter" => gari_presenter_guid = delfosnar_guid
  /\ worker = "read_viewer" => gari_viewer_guid = delfosnar_guid

(***************************************************************************)
(* A room is read after its close was requested only until sequence()      *)
(* takes the mutex to clear it (or gives up): one section of the alive     *)
(* thread at a time, never in a later round.                               *)
(***************************************************************************)
ReadsClosedRoomWhileClosing ==
  worker \in {"read_presenter", "read_viewer"} =>
    \/ delfosnar_guid \in lm_rooms
    \/ sequence \in {"clear", "stop_alives", "join"}

(***************************************************************************)
(* LM sees both threads as one well-behaved agent: at most one session,    *)
(* and no request of a session outside its login and its logout.           *)
(***************************************************************************)
LmAgent == INSTANCE AgentSession WITH
  open <- lm_sessions, request <- lm_request,
  Operation <- {"change_status", "check_vateam", "alive", "create", "close"}

ImplementsAgentSession == LmAgent!Spec
=============================================================================
