------------------------ MODULE ScheduledWorkflow_proof ------------------------
(***************************************************************************)
(* Proofs about ScheduledWorkflow, for every set of sessions and of leads. *)
(***************************************************************************)
EXTENDS ScheduledWorkflow, TLAPS

(***************************************************************************)
(* The places of sequence(), by what is logged in and what is attended.    *)
(***************************************************************************)
LoggedOut == {"start", "lookup", "create_seed", "request_check",
              "request_lead", "getvateams", "login"}
LoggedIn  == {"check_vateam", "busy", "change_status", "reset_bridged", "wait",
              "bridged_check", "open_session", "capture_lead", "result_check",
              "forget_lead", "set_result", "logout_check", "clear"}
WithLead  == {"result_check", "forget_lead"}
Over      == {"stop_alives", "join", "ended", "threw"}

Holding == {"read", "alive_lm", "alive_gari", "unlock"}

MutexInv == session_mutex = "alive" <=> worker \in Holding

SessionInv ==
  /\ sequence \in LoggedOut => lm_sessions = {} /\ session_guid = NoSession
  /\ sequence \in {"publish", "logout"} =>
       /\ lm_sessions = {local_session_guid}
       /\ local_session_guid # NoSession
       /\ session_guid = NoSession
  /\ sequence \in LoggedIn =>
       /\ lm_sessions = {local_session_guid}
       /\ local_session_guid # NoSession
       /\ session_guid = local_session_guid
  /\ session_guid \in lm_sessions \cup {NoSession}

(***************************************************************************)
(* The published lead is open and so is the lead of the published session; *)
(* a user id goes with that session.                                       *)
(***************************************************************************)
LeadInv ==
  /\ lead_guid \in lm_leads \cup {NoLead}
  /\ lead_session_guid \in lm_leads \cup {NoLead}
  /\ gari_user_guid \in {NoLead, lead_session_guid}
  /\ sequence \notin WithLead \cup Over =>
       lead_guid = NoLead /\ lead_session_guid = NoLead
  /\ sequence = "capture_lead" =>
       {local_lead_guid, return_session} \subseteq lm_leads \cup {NoLead}

(***************************************************************************)
(* While the worker holds the mutex its copies are what is published, and  *)
(* Gari is read only if a session is.                                      *)
(***************************************************************************)
WorkerInv ==
  /\ worker \in {"alive_lm", "alive_gari", "unlock"} =>
       /\ session_guid_local = session_guid
       /\ session_guid # NoSession
       /\ lead_guid_local = lead_guid
  /\ worker = "alive_gari" => lead_session_guid # NoLead

ThreadInv ==
  /\ sequence \in {"start", "lookup", "create_seed"} => worker = "none"
  /\ SequenceOver => WorkerOver

IInv == TypeOK /\ MutexInv /\ SessionInv /\ LeadInv /\ WorkerInv /\ ThreadInv

LEMMA InitInv == ScheduledInit => IInv
BY DEF ScheduledInit, LeadInit, Init, IInv, TypeOK, MembersOK, LeadMembersOK,
       CallMembersOK, MutexInv, SessionInv, LeadInv, WorkerInv, ThreadInv,
       SequenceLocation, WorkerLocation, SequenceOver, WorkerOver, LoggedOut,
       LoggedIn, WithLead, Over, Holding, Silent, Channel

(***************************************************************************)
(* Steps that leave the lead, or the call, alone keep its members typed.   *)
(***************************************************************************)
LEMMA QuietLead ==
  LeadMembersOK /\ UNCHANGED leadDataVars => LeadMembersOK'
BY DEF LeadMembersOK, leadDataVars

LEMMA QuietCall == CallMembersOK /\ UNCHANGED callVars => CallMembersOK'
BY DEF CallMembersOK, callVars

(***************************************************************************)
(* The sequence thread writes what the worker copied only with the mutex   *)
(* free.                                                                   *)
(***************************************************************************)
LEMMA SequenceKeepsInv == IInv /\ Sequence => IInv'
<1> SUFFICES ASSUME IInv, Sequence PROVE IInv'
  OBVIOUS
<1> USE SessionAssumption, LeadAssumption, QuietLead, QuietCall
    DEF IInv, TypeOK, MembersOK, MutexInv, SessionInv, LeadInv, WorkerInv,
        ThreadInv,
        SequenceLocation, WorkerLocation, SequenceOver, WorkerOver,
        LoggedOut, LoggedIn, WithLead, Over, Holding,
        Goto, Move, Break, StopCheck, workerVars, lmVars, leadVars,
        leadDataVars, callVars, sessionVars
<1>1. CASE LogIn /\ UNCHANGED sessionVars
  <2> USE <1>1 DEF LogIn
  <2>1. CASE StartSequence /\ UNCHANGED leadVars
    BY <2>1 DEF StartSequence, Start
  <2>2. CASE LookupGuids /\ UNCHANGED leadVars
    BY <2>2 DEF LookupGuids, Throw
  <2>3. CASE CreateSeed("request_check") /\ UNCHANGED leadVars
    BY <2>3 DEF CreateSeed, SpawnAliveThread, Throw
  <2>4. CASE /\ Check("request_check", "request_lead") \/ GetVateams
             /\ UNCHANGED leadVars
    BY <2>4 DEF GetVateams, Check
  <2>5. CASE Login /\ UNCHANGED leadVars
    <3>1. CASE StopCheck("login") \/ Break("login")
      BY <2>5, <3>1
    <3>2. CASE \E s \in Session : LoginOk("login", "publish", s)
      BY <2>5, <3>2 DEF LoginOk
    <3>3. QED
      BY <2>5, <3>1, <3>2 DEF Login
  <2>6. CASE Publish("check_vateam") /\ UNCHANGED leadVars
    BY <2>6 DEF Publish, PublishSession
  <2>7. CASE CheckVateam("busy") /\ UNCHANGED leadVars
    BY <2>7 DEF CheckVateam, SessionRequest
  <2>8. CASE ChangeToBusy /\ UNCHANGED leadVars
    BY <2>8 DEF ChangeToBusy, SessionRequest
  <2>9. CASE RequestLead
    <3>1. CallMembersOK'
      BY <2>9 DEF RequestLead, CallMembersOK
    <3>2. QED
      BY <2>9, <3>1 DEF RequestLead
  <2>10. QED
    BY <2>1, <2>2, <2>3, <2>4, <2>5, <2>6, <2>7, <2>8, <2>9
<1>2. CASE AttendLead
  <2>1. CASE ChangeToAvailable /\ UNCHANGED sessionVars
    <3>1. CallMembersOK'
      BY <2>1 DEF ChangeToAvailable, CallMembersOK, CallEvents
    <3>2. QED
      BY <2>1, <3>1 DEF ChangeToAvailable, ChangeStatus, SessionRequest
  <2>2. CASE ResetBridged("wait") /\ UNCHANGED sessionVars
    <3>1. CallMembersOK'
      BY <2>2 DEF ResetBridged, CallMembersOK
    <3>2. QED
      BY <2>2, <3>1 DEF ResetBridged
  <2>3. CASE WaitCall /\ UNCHANGED sessionVars
    BY <2>3 DEF WaitCall, WaitBridged, WaitTimeout
  <2>4. CASE BridgedCheck /\ UNCHANGED sessionVars
    <3>1. CallMembersOK'
      BY <2>4 DEF BridgedCheck, CallMembersOK, Silent, Channel
    <3>2. QED
      BY <2>4, <3>1 DEF BridgedCheck
  <2>5. CASE /\ Check("result_check", "forget_lead") /\ UNCHANGED leadVars
             /\ UNCHANGED sessionVars
    BY <2>5 DEF Check
  <2>6. CASE SetResult /\ UNCHANGED sessionVars
    BY <2>6 DEF SetResult, LeadMembersOK
  <2>7. CASE OpenScheduled
    <3>1. CASE OpenSessionFails /\ UNCHANGED sessionVars
      BY <3>1 DEF OpenSessionFails, openFrame
    <3>2. CASE /\ Goto("open_session", "capture_lead")
               /\ \E l \in Lead \ lm_leads :
                    /\ local_lead_guid' \in {l, NoLead}
                    /\ return_session' \in {l, NoLead}
                    /\ lm_leads' = lm_leads \cup {l}
               /\ UNCHANGED <<openFrame, lead_guid, lead_guid_local,
                              gari_user_guid, callVars, lead_session_guid>>
      BY <3>2 DEF openFrame, LeadMembersOK
    <3>3. QED
      BY <2>7, <3>1, <3>2 DEF OpenScheduled
  <2>8. CASE CaptureLeadAndSession
    BY <2>8 DEF CaptureLeadAndSession, CaptureLead, LeadMembersOK
  <2>9. CASE ForgetLeadAndSession
    BY <2>9 DEF ForgetLeadAndSession, ForgetLead, LeadMembersOK
  <2>10. QED
    BY <1>2, <2>1, <2>2, <2>3, <2>4, <2>5, <2>6, <2>7, <2>8, <2>9
       DEF AttendLead
<1>3. CASE LeaveRound /\ UNCHANGED sessionVars
  <2> USE <1>3 DEF LeaveRound
  <2>1. CASE Check("logout_check", "clear")
    BY <2>1 DEF Check
  <2>2. CASE Clear
    BY <2>2 DEF Clear, ClearSession
  <2>3. CASE Logout("request_check")
    BY <2>3 DEF Logout, LogoutRequest
  <2>4. CASE StopAlives
    <3>1. TypeOK'
      BY <2>4 DEF StopAlives
    <3>2. (MutexInv /\ WorkerInv /\ ThreadInv)'
      BY <2>4 DEF StopAlives
    <3>3. (SessionInv /\ LeadInv)'
      BY <2>4 DEF StopAlives
    <3>4. QED
      BY <3>1, <3>2, <3>3
  <2>5. CASE JoinAlive
    BY <2>5 DEF JoinAlive
  <2>6. QED
    BY <2>1, <2>2, <2>3, <2>4, <2>5
<1>4. QED
  BY <1>1, <1>2, <1>3 DEF Sequence

LEMMA WorkerKeepsInv == IInv /\ AliveWorker => IInv'
<1> SUFFICES ASSUME IInv, AliveWorker PROVE IInv'
  OBVIOUS
<1> USE SessionAssumption, LeadAssumption, QuietLead, QuietCall
    DEF IInv, TypeOK, MembersOK, MutexInv, SessionInv, LeadInv, WorkerInv,
        ThreadInv,
        SequenceLocation, WorkerLocation, SequenceOver, WorkerOver,
        LoggedOut, LoggedIn, WithLead, Over, Holding,
        workerFrame, sequenceVars, lmVars, leadVars, leadDataVars, callVars,
        sessionVars
<1>0. UNCHANGED sessionVars
  BY DEF AliveWorker
<1> USE <1>0
<1>1. CASE AliveCheck /\ UNCHANGED leadVars
  BY <1>1 DEF AliveCheck
<1>2. CASE AliveLock /\ UNCHANGED leadVars
  BY <1>2 DEF AliveLock
<1>3. CASE AliveNoSession /\ UNCHANGED leadVars
  BY <1>3 DEF AliveNoSession
<1>4. CASE AliveUnlock /\ UNCHANGED leadVars
  BY <1>4 DEF AliveUnlock
<1>5. CASE AliveCheckAgain /\ UNCHANGED leadVars
  BY <1>5 DEF AliveCheckAgain
<1>6. CASE AliveCopyLead
  BY <1>6 DEF AliveCopyLead, AliveCopySession, LeadMembersOK
<1>7. CASE AliveLmLead(lead_session_guid, "unlock")
  BY <1>7 DEF AliveLmLead, AliveLmOk, AliveLmFails
<1>8. CASE AliveGari(lead_session_guid, "unlock")
  BY <1>8 DEF AliveGari, AliveReadSession, AliveReadSessionUser,
              AliveGariFails, LeadMembersOK
<1>9. QED
  BY <1>1, <1>2, <1>3, <1>4, <1>5, <1>6, <1>7, <1>8
     DEF AliveWorker, LeadAliveWorker, AliveRound

(***************************************************************************)
(* The Twilio handler shares nothing with the alive thread.                *)
(***************************************************************************)
LEMMA TwilioKeepsInv ==
  IInv /\ (TwilioUserCall \/ TwilioEvent) /\ UNCHANGED sessionVars => IInv'
<1> SUFFICES ASSUME IInv, TwilioUserCall \/ TwilioEvent,
                    UNCHANGED sessionVars
             PROVE  IInv'
  OBVIOUS
<1>1. UNCHANGED <<vars, leadDataVars>>
  BY DEF TwilioUserCall, TwilioEvent, Called, BridgeChannel, ForeignBridge,
         Hangup, StoreBridged
<1>2. /\ call_bridged' \in BOOLEAN
      /\ channel' \in [Channel -> {"no_call", "called", "bridged"}]
      /\ handler' \in {"idle", "store"}
      /\ pbx_events' \in SUBSET CallEvents
  BY DEF IInv, TypeOK, CallMembersOK, TwilioUserCall, TwilioEvent, Event,
         Called, BridgeChannel, Matched, Channel, ForeignBridge, Hangup,
         StoreBridged
<1>3. QED
  BY <1>1, <1>2
     DEF IInv, TypeOK, MembersOK, LeadMembersOK, CallMembersOK, MutexInv,
         SessionInv, LeadInv, WorkerInv, ThreadInv, SequenceOver, WorkerOver,
         vars, leadDataVars, sessionVars

LEMMA StepInv == IInv /\ [NextScheduled]_scheduledVars => IInv'
<1> SUFFICES ASSUME IInv, [NextScheduled]_scheduledVars PROVE IInv'
  OBVIOUS
<1>1. CASE Sequence
  BY <1>1, SequenceKeepsInv
<1>2. CASE AliveWorker
  BY <1>2, WorkerKeepsInv
<1>3. CASE (TwilioUserCall \/ TwilioEvent) /\ UNCHANGED sessionVars
  BY <1>3, TwilioKeepsInv
<1>4. CASE Terminate /\ UNCHANGED sessionVars
  <2>1. TypeOK'
    BY <1>4, QuietLead, QuietCall
       DEF Terminate, TerminateProcess, IInv, TypeOK, MembersOK, sequenceVars,
           workerVars, lmVars, leadVars, sessionVars
  <2>2. QED
    BY <1>4, <2>1
       DEF Terminate, TerminateProcess, IInv, MutexInv, SessionInv, LeadInv,
           WorkerInv, ThreadInv, SequenceOver, WorkerOver, sequenceVars,
           workerVars, lmVars, leadVars, leadDataVars, sessionVars
<1>5. CASE (Finish /\ UNCHANGED sessionVars) \/ UNCHANGED scheduledVars
  BY <1>5
     DEF Finish, Finished, scheduledVars, sessionVars, allVars, vars, leadVars,
         leadDataVars, callVars, IInv, TypeOK, MembersOK, LeadMembersOK,
         CallMembersOK, MutexInv, SessionInv, LeadInv, WorkerInv, ThreadInv,
         SequenceOver, WorkerOver
<1>6. QED
  BY <1>1, <1>2, <1>3, <1>4, <1>5 DEF NextScheduled

LEMMA Invariance == Spec => []IInv
<1>1. ScheduledInit => IInv
  BY InitInv
<1>2. IInv /\ [NextScheduled]_scheduledVars => IInv'
  BY StepInv
<1>3. QED
  BY <1>1, <1>2, PTL DEF Spec

(***************************************************************************)
(* Type correctness of the threads of ScheduledWorkflow.                   *)
(***************************************************************************)
THEOREM TypeCorrect == Spec => []TypeOK
<1>1. IInv => TypeOK
  BY DEF IInv
<1>2. QED
  BY <1>1, Invariance, PTL

(***************************************************************************)
(* Gari is read for the room of an open lead, as a user of that room,      *)
(* whatever the response to the open session left out.                     *)
(***************************************************************************)
THEOREM ReadsOpenRoom == Spec => []ReadsRoomOfOpenLead
<1>1. IInv => ReadsRoomOfOpenLead
  BY DEF IInv, WorkerInv, LeadInv, ReadsRoomOfOpenLead
<1>2. QED
  BY <1>1, Invariance, PTL

(***************************************************************************)
(* A request that names an open session is one LM allows the agent.        *)
(***************************************************************************)
LEMMA RequestRefines ==
  ASSUME NEW op \in {"change_status", "check_vateam", "open_session", "alive"},
         NEW s \in lm_sessions, lm_sessions \subseteq Session,
         lm_request' = Request(op, s), UNCHANGED lm_sessions
  PROVE  LmAgent!Next
BY DEF LmAgent!Next, LmAgent!Use, Request

LEMMA SequenceRefines ==
  IInv /\ Sequence => LmAgent!Next \/ UNCHANGED lmVars
<1> SUFFICES ASSUME IInv, Sequence
             PROVE  LmAgent!Next \/ UNCHANGED lmVars
  OBVIOUS
<1> USE DEF Goto, Move, Break, StopCheck, lmVars
<1>1. lm_sessions \subseteq Session
  BY DEF IInv, TypeOK, MembersOK
<1>2. sequence \in LoggedIn \cup {"logout"} =>
        local_session_guid \in lm_sessions
  BY DEF IInv, SessionInv
<1>3. CASE Login
  <2>1. CASE StopCheck("login") \/ Break("login")
    BY <2>1
  <2>2. CASE \E s \in Session : LoginOk("login", "publish", s)
    <3>1. PICK s \in Session : LoginOk("login", "publish", s)
      BY <2>2
    <3>2. LmAgent!LogIn(s)
      BY <3>1 DEF LoginOk, IInv, SessionInv, LoggedOut, LmAgent!LogIn, Request
    <3>3. QED
      BY <3>2 DEF LmAgent!Next
  <2>3. QED
    BY <1>3, <2>1, <2>2 DEF Login
<1>4. CASE ChangeToBusy \/ ChangeToAvailable
  <2>1. CASE StopCheck("busy") \/ StopCheck("change_status")
    BY <2>1
  <2>2. CASE \/ SessionRequest("busy", "change_status", "change_status")
             \/ SessionRequest("change_status", "reset_bridged",
                               "change_status")
    BY <1>1, <1>2, <2>2, RequestRefines DEF SessionRequest, LoggedIn
  <2>3. QED
    BY <1>4, <2>1, <2>2 DEF ChangeToBusy, ChangeToAvailable, ChangeStatus
<1>5. CASE CheckVateam("busy")
  <2>1. CASE StopCheck("check_vateam")
    BY <2>1
  <2>2. CASE SessionRequest("check_vateam", "busy", "check_vateam")
    BY <1>1, <1>2, <2>2, RequestRefines DEF SessionRequest, LoggedIn
  <2>3. QED
    BY <1>5, <2>1, <2>2 DEF CheckVateam
<1>6. CASE OpenScheduled
  <2>1. /\ lm_request' = Request("open_session", session_guid)
        /\ UNCHANGED lm_sessions
        /\ sequence = "open_session"
    BY <1>6 DEF OpenScheduled, OpenSessionFails, openFrame
  <2>2. session_guid \in lm_sessions
    BY <2>1 DEF IInv, SessionInv, LoggedIn
  <2>3. QED
    BY <1>1, <2>1, <2>2, RequestRefines
<1>7. CASE Logout("request_check")
  <2>1. local_session_guid \in lm_sessions
    BY <1>2, <1>7 DEF Logout, LogoutRequest
  <2>2. LmAgent!LogOut(local_session_guid)
    BY <1>7, <2>1 DEF Logout, LogoutRequest, LmAgent!LogOut, Request
  <2>3. QED
    BY <1>1, <2>1, <2>2 DEF LmAgent!Next
<1>8. CASE \/ StartSequence \/ LookupGuids \/ CreateSeed("request_check")
           \/ Check("request_check", "request_lead") \/ RequestLead
           \/ GetVateams \/ Publish("check_vateam") \/ ResetBridged("wait")
           \/ WaitCall \/ BridgedCheck \/ CaptureLeadAndSession
           \/ Check("result_check", "forget_lead") \/ ForgetLeadAndSession
           \/ SetResult \/ Check("logout_check", "clear") \/ Clear
           \/ StopAlives \/ JoinAlive
  BY <1>8 DEF StartSequence, Start, LookupGuids, CreateSeed, SpawnAliveThread,
              Throw, RequestLead, GetVateams, Publish, PublishSession,
              ResetBridged, WaitCall, WaitBridged, WaitTimeout, BridgedCheck,
              CaptureLeadAndSession, CaptureLead, Check, ForgetLeadAndSession,
              ForgetLead, SetResult, Clear, ClearSession, StopAlives, JoinAlive
<1>9. QED
  BY <1>3, <1>4, <1>5, <1>6, <1>7, <1>8
     DEF Sequence, LogIn, AttendLead, LeaveRound

LEMMA WorkerRefines ==
  IInv /\ AliveWorker => LmAgent!Next \/ UNCHANGED lmVars
<1> SUFFICES ASSUME IInv, AliveWorker
             PROVE  LmAgent!Next \/ UNCHANGED lmVars
  OBVIOUS
<1>1. CASE AliveLmLead(lead_session_guid, "unlock")
  <2>1. worker = "alive_lm" /\ UNCHANGED lm_sessions
    BY <1>1 DEF AliveLmLead, AliveLmOk, AliveLmFails
  <2>2. session_guid_local \in lm_sessions /\ lm_sessions \subseteq Session
    BY <2>1 DEF IInv, WorkerInv, SessionInv, TypeOK, MembersOK
  <2>3. lm_request' = Request("alive", session_guid_local)
    BY <1>1 DEF AliveLmLead, AliveLmOk, AliveLmFails
  <2>4. QED
    BY <2>1, <2>2, <2>3, RequestRefines
<1>2. CASE \/ AliveCopyLead \/ AliveCheck \/ AliveLock \/ AliveNoSession
           \/ AliveUnlock \/ AliveCheckAgain
           \/ AliveGari(lead_session_guid, "unlock")
  BY <1>2 DEF AliveCopyLead, AliveCheck, AliveLock, AliveNoSession,
              AliveCopySession, AliveUnlock, AliveCheckAgain, AliveGari,
              AliveReadSession, AliveReadSessionUser, AliveGariFails, lmVars
<1>3. QED
  BY <1>1, <1>2 DEF AliveWorker, LeadAliveWorker, AliveRound

(***************************************************************************)
(* The threads of ScheduledWorkflow implement the abstract agent.          *)
(***************************************************************************)
THEOREM Refinement == Spec => ImplementsAgentSession
<1>1. ScheduledInit => LmAgent!Init
  BY DEF ScheduledInit, LeadInit, Init, LmAgent!Init
<1>2. IInv /\ [NextScheduled]_scheduledVars
        => [LmAgent!Next]_<<lm_sessions, lm_request>>
  <2> SUFFICES ASSUME IInv, [NextScheduled]_scheduledVars
               PROVE  [LmAgent!Next]_<<lm_sessions, lm_request>>
    OBVIOUS
  <2>1. CASE Sequence
    BY <2>1, SequenceRefines DEF lmVars
  <2>2. CASE AliveWorker
    BY <2>2, WorkerRefines DEF lmVars
  <2>3. CASE TwilioUserCall \/ TwilioEvent \/ Terminate \/ Finish
             \/ UNCHANGED scheduledVars
    BY <2>3
       DEF TwilioUserCall, TwilioEvent, Called, BridgeChannel,
           ForeignBridge, Hangup, StoreBridged, Terminate, TerminateProcess,
           Finish, Finished, scheduledVars, allVars, vars, lmVars
  <2>4. QED
    BY <2>1, <2>2, <2>3 DEF NextScheduled
<1>3. QED
  BY <1>1, <1>2, Invariance, PTL DEF Spec, ImplementsAgentSession, LmAgent!Spec

-----------------------------------------------------------------------------
(* The object as main() sees it. *)

Staying == /\ sequence \notin {"start", "ended", "threw"}
           /\ sequence' \notin {"start", "ended", "threw"}
           /\ worker' = worker

(***************************************************************************)
(* Between the creation of the alive thread and its join, no step of       *)
(* sequence() arrives, leaves or touches that thread.                      *)
(***************************************************************************)
LEMMA SequenceStays ==
  ASSUME \/ Check("request_check", "request_lead") \/ GetVateams \/ Login
         \/ Publish("check_vateam") \/ CheckVateam("busy") \/ ChangeToBusy
         \/ RequestLead \/ AttendLead
         \/ Check("logout_check", "clear") \/ Clear \/ Logout("request_check")
         \/ StopAlives
  PROVE  Staying
<1> USE DEF Staying, Goto, Move, Break, StopCheck, Check, workerVars
<1>1. CASE \/ Check("request_check", "request_lead") \/ GetVateams \/ Login
           \/ Publish("check_vateam") \/ CheckVateam("busy") \/ ChangeToBusy
  BY <1>1
     DEF GetVateams, Login, LoginOk, Publish, PublishSession, CheckVateam,
         ChangeToBusy, SessionRequest
<1>2. CASE RequestLead
  BY <1>2 DEF RequestLead
<1>3. CASE AttendLead
  <2>1. CASE \/ ChangeToAvailable \/ ResetBridged("wait") \/ WaitCall
             \/ BridgedCheck
    BY <2>1
       DEF ChangeToAvailable, ChangeStatus, SessionRequest, ResetBridged,
           WaitCall, WaitBridged, WaitTimeout, BridgedCheck
  <2>2. CASE Check("result_check", "forget_lead") \/ SetResult
    BY <2>2 DEF SetResult
  <2>3. CASE OpenScheduled
    BY <2>3 DEF OpenScheduled, openFrame, OpenSessionFails
  <2>4. CASE CaptureLeadAndSession \/ ForgetLeadAndSession
    BY <2>4
       DEF CaptureLeadAndSession, CaptureLead, ForgetLeadAndSession,
           ForgetLead
  <2>5. QED
    BY <1>3, <2>1, <2>2, <2>3, <2>4 DEF AttendLead
<1>4. CASE \/ Check("logout_check", "clear") \/ Clear \/ Logout("request_check")
           \/ StopAlives
  BY <1>4 DEF Clear, ClearSession, Logout, LogoutRequest, StopAlives
<1>5. QED
  BY <1>1, <1>2, <1>3, <1>4

(***************************************************************************)
(* The sequence thread arrives, creates the alive thread, leaves, or does  *)
(* its work in between.                                                    *)
(***************************************************************************)
LEMMA SequenceOfObject ==
  ASSUME IInv, Sequence
  PROVE  Object!Next \/ UNCHANGED Object!vars
<1> USE DEF Object!Next, ThreadPhase, AlivesPhase, SequenceOver, WorkerOver
<1>1. CASE StartSequence
  <2>1. Object!Arrive
    BY <1>1 DEF StartSequence, Start, Goto, workerVars, lmVars, Object!Arrive
  <2>2. QED
    BY <2>1
<1>2. CASE LookupGuids \/ CreateSeed("request_check") \/ JoinAlive
  <2>1. CASE Throw("lookup") \/ Throw("create_seed")
    <3>1. worker = "none"
      BY <2>1 DEF IInv, ThreadInv, Throw, Goto
    <3>2. Object!Leave
      BY <2>1, <3>1 DEF Throw, Goto, workerVars, lmVars, Object!Leave
    <3>3. QED
      BY <3>2
  <2>2. CASE Move("lookup", "create_seed")
    BY <2>2 DEF Move, Goto, workerVars, Object!Work
  <2>3. CASE SpawnAliveThread("create_seed", "request_check")
    <3>1. worker = "none"
      BY <2>3 DEF IInv, ThreadInv, SpawnAliveThread, Goto
    <3>2. Object!SpawnAlives
      BY <2>3, <3>1 DEF SpawnAliveThread, Goto, lmVars, Object!SpawnAlives
    <3>3. QED
      BY <3>2
  <2>4. CASE JoinAlive
    <3>1. Object!Leave
      BY <2>4 DEF JoinAlive, Goto, workerVars, lmVars, Object!Leave
    <3>2. QED
      BY <3>1
  <2>5. QED
    BY <1>2, <2>1, <2>2, <2>3, <2>4 DEF LookupGuids, CreateSeed
<1>3. CASE Staying
  BY <1>3 DEF Staying, Object!Work
<1>4. QED
  BY <1>1, <1>2, <1>3, SequenceStays DEF Sequence, LogIn, LeaveRound

(***************************************************************************)
(* The alive thread works between its creation and its end, and then the   *)
(* sequence thread has arrived and not left.                               *)
(***************************************************************************)
LEMMA WorkerOfObject ==
  ASSUME IInv, AliveWorker
  PROVE  Object!Next
<1>1. /\ worker \notin {"none", "done"}
      /\ worker' # "none"
      /\ sequence' = sequence
  BY DEF AliveWorker, LeadAliveWorker, AliveCopyLead, AliveCopySession,
         AliveRound, AliveCheck, AliveLock, AliveNoSession, AliveUnlock,
         AliveCheckAgain, AliveLmLead, AliveLmOk, AliveLmFails, AliveGari,
         AliveReadSession, AliveReadSessionUser, AliveGariFails, workerFrame,
         sequenceVars
<1>2. sequence \notin {"start", "ended", "threw"}
  BY <1>1 DEF IInv, ThreadInv, SequenceOver, WorkerOver
<1> USE DEF ThreadPhase, AlivesPhase, SequenceOver, Object!Next
<1>3. CASE worker' = "done"
  <2>1. Object!EndAlives
    BY <1>1, <1>2, <1>3 DEF Object!EndAlives
  <2>2. QED
    BY <2>1
<1>4. CASE worker' # "done"
  <2>1. Object!Work
    BY <1>1, <1>2, <1>4 DEF Object!Work
  <2>2. QED
    BY <2>1
<1>5. QED
  BY <1>3, <1>4

(***************************************************************************)
(* The threads of the workflow keep the promise main() relies on when it   *)
(* joins the workflow and deletes it.                                      *)
(***************************************************************************)
THEOREM ObjectLife == Spec => ImplementsWorkflowObject
<1>1. ScheduledInit => Object!Init
  BY DEF ScheduledInit, LeadInit, Init, Object!Init, ThreadPhase, AlivesPhase
<1>2. IInv /\ [NextScheduled]_scheduledVars => [Object!Next]_(Object!vars)
  <2> SUFFICES ASSUME IInv, [NextScheduled]_scheduledVars
               PROVE  Object!Next \/ UNCHANGED Object!vars
    OBVIOUS
  <2>1. CASE Sequence
    BY <2>1, SequenceOfObject
  <2>2. CASE AliveWorker
    BY <2>2, WorkerOfObject
  <2>3. CASE \/ /\ TwilioUserCall \/ TwilioEvent \/ Terminate \/ Finish
              /\ UNCHANGED sessionVars
           \/ UNCHANGED scheduledVars
    <3>1. UNCHANGED <<sequence, worker, lm_request>>
      BY <2>3
         DEF TwilioUserCall, TwilioEvent, Called, BridgeChannel,
             ForeignBridge, StoreBridged, Hangup, Terminate, TerminateProcess,
             Finish, Finished, scheduledVars, allVars, vars, sequenceVars,
             workerVars, lmVars
    <3>2. QED
      BY <3>1 DEF Object!vars, ThreadPhase, AlivesPhase, SequenceOver
  <2>4. QED
    BY <2>1, <2>2, <2>3 DEF NextScheduled
<1>3. QED
  BY <1>1, <1>2, Invariance, PTL
     DEF Spec, ImplementsWorkflowObject, Object!Spec

(***************************************************************************)
(* When sequence() has returned, its alive thread is over.                 *)
(***************************************************************************)
THEOREM WorkerJoined == Spec => []NoOrphanWorker
<1>1. IInv => NoOrphanWorker
  BY DEF IInv, ThreadInv, NoOrphanWorker
<1>2. QED
  BY <1>1, Invariance, PTL

(***************************************************************************)
(* An alive thread that is over does not hold the mutex.                   *)
(***************************************************************************)
THEOREM MutexIsReleased == Spec => []MutexReleased
<1>1. IInv => MutexReleased
  BY DEF IInv, MutexInv, TypeOK, MembersOK, WorkerOver, MutexReleased, Holding
<1>2. QED
  BY <1>1, Invariance, PTL
=============================================================================
