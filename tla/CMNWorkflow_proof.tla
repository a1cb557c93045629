-------------------------- MODULE CMNWorkflow_proof --------------------------
(***************************************************************************)
(* Proofs about CMNWorkflow, for every set of sessions and of leads.       *)
(***************************************************************************)
EXTENDS CMNWorkflow, TLAPS

(***************************************************************************)
(* The places of sequence(), by what is logged in, what is published and   *)
(* whether the call is still waited for.                                   *)
(***************************************************************************)
LoggedOut == {"start", "lookup", "create_seed", "getvateams", "login"}
Calling   == {"change_status", "check_vateam", "get_availability",
              "reset_bridged", "request_lead", "capture_lead", "wait_check",
              "wait", "bridged_check"}
Attending == {"open_session", "update_check", "update_room", "result_check",
              "forget_lead"}
LoggedIn  ==
  Calling \cup Attending \cup {"set_result", "logout_check", "clear"}
WithLead  == {"wait_check", "wait", "bridged_check"} \cup Attending
Over      == {"stop_alives", "join", "ended", "threw"}

Holding == {"read", "alive_lm", "alive_gari", "unlock"}

MutexInv == session_mutex = "alive" <=> worker \in Holding

SessionInv ==
  /\ sequence \in LoggedOut => lm_sessions = {} /\ session_guid = NoSession
  /\ sequence \in {"publish", "logout"} =>
       /\ lm_sessions = {local_session_guid}
       /\ local_session_guid # NoSession
       /\ session_guid = NoSession
  /\ sequence \in LoggedIn =>
       /\ lm_sessions = {local_session_guid}
       /\ local_session_guid # NoSession
       /\ session_guid = local_session_guid
  /\ session_guid \in lm_sessions \cup {NoSession}

(***************************************************************************)
(* The published lead is open, and a user id goes with the published lead. *)
(***************************************************************************)
LeadInv ==
  /\ lead_guid \in lm_leads \cup {NoLead}
  /\ sequence \notin WithLead \cup Over => lead_guid = NoLead
  /\ sequence \in WithLead => lead_guid = local_lead_guid
  /\ sequence = "capture_lead" => local_lead_guid \in lm_leads \cup {NoLead}

(***************************************************************************)
(* While the worker holds the mutex its copies are what is published.      *)
(***************************************************************************)
WorkerInv ==
  worker \in {"alive_lm", "alive_gari", "unlock"} =>
    /\ session_guid_local = session_guid
    /\ session_guid # NoSession
    /\ lead_guid_local = lead_guid

ThreadInv ==
  /\ sequence \in {"start", "lookup", "create_seed"} => worker = "none"
  /\ SequenceOver => WorkerOver

(***************************************************************************)
(* Until the call is over, the flag and a handler about to raise it both   *)
(* tell the truth.  This needs the single round: in InboundWorkflow the    *)
(* handler may stand at "store" when the next round begins.                *)
(***************************************************************************)
CallInv ==
  sequence \in LoggedOut \cup {"publish"} \cup Calling =>
    (call_bridged \/ handler = "store" => Bridged(channel))

SharedInv == MutexInv /\ SessionInv /\ LeadInv /\ WorkerInv /\ ThreadInv
IInv == TypeOK /\ SharedInv /\ CallInv

LEMMA InitInv == LeadInit => IInv
BY DEF LeadInit, Init, IInv, SharedInv, TypeOK, MembersOK, LeadMembersOK,
       CallMembersOK, MutexInv, SessionInv, LeadInv, WorkerInv, ThreadInv,
       CallInv, SequenceLocation, WorkerLocation, SequenceOver, WorkerOver,
       LoggedOut, LoggedIn, Calling, Attending, WithLead, Over, Holding,
       Silent, Channel

(***************************************************************************)
(* Steps that leave the lead, or the call, alone keep its members typed.   *)
(***************************************************************************)
LEMMA QuietLead ==
  LeadMembersOK /\ UNCHANGED leadDataVars => LeadMembersOK'
BY DEF LeadMembersOK, leadDataVars

LEMMA QuietCall == CallMembersOK /\ UNCHANGED callVars => CallMembersOK'
BY DEF CallMembersOK, callVars

(***************************************************************************)
(* The sequence thread writes what the worker copied only with the mutex   *)
(* free.                                                                   *)
(***************************************************************************)
LEMMA SequenceKeepsShared ==
  TypeOK /\ SharedInv /\ Sequence => TypeOK' /\ SharedInv'
<1> SUFFICES ASSUME TypeOK, SharedInv, Sequence PROVE TypeOK' /\ SharedInv'
  OBVIOUS
<1> USE SessionAssumption, LeadAssumption, QuietLead, QuietCall
    DEF TypeOK, SharedInv, MembersOK, MutexInv, SessionInv, LeadInv,
        WorkerInv, ThreadInv,
        SequenceLocation, WorkerLocation, SequenceOver, WorkerOver,
        LoggedOut, LoggedIn, Calling, Attending, WithLead, Over, Holding,
        Goto, Move, Break, StopCheck, workerVars, lmVars, leadVars,
        leadDataVars, callVars
<1>1. CASE BecomeAvailable
  <2> USE <1>1 DEF BecomeAvailable
  <2>1. CASE StartSequence
    BY <2>1 DEF StartSequence, Start
  <2>2. CASE LookupGuids
    BY <2>2 DEF LookupGuids, Throw
  <2>3. CASE CreateSeed("getvateams")
    BY <2>3 DEF CreateSeed, SpawnAliveThread, Throw
  <2>4. CASE GetVateams
    BY <2>4 DEF GetVateams, Check
  <2>5. CASE Login
    <3>1. CASE StopCheck("login") \/ Break("login")
      BY <3>1
    <3>2. CASE \E s \in Session : LoginOk("login", "publish", s)
      BY <3>2 DEF LoginOk
    <3>3. QED
      BY <2>5, <3>1, <3>2 DEF Login
  <2>6. CASE Publish("change_status")
    BY <2>6 DEF Publish, PublishSession
  <2>7. CASE ChangeStatus("check_vateam")
    BY <2>7 DEF ChangeStatus, SessionRequest
  <2>8. CASE CheckVateam("get_availability")
    BY <2>8 DEF CheckVateam, SessionRequest
  <2>9. CASE GetAvailability("reset_bridged")
    BY <2>9 DEF GetAvailability
  <2>10. QED
    BY <2>1, <2>2, <2>3, <2>4, <2>5, <2>6, <2>7, <2>8, <2>9
<1>2. CASE AwaitCall
  <2>1. CASE StopCheck("reset_bridged") /\ UNCHANGED leadVars
    BY <2>1
  <2>2. CASE ResetBridged("request_lead")
    <3>1. CallMembersOK'
      BY <2>2 DEF ResetBridged, CallMembersOK
    <3>2. QED
      BY <2>2, <3>1 DEF ResetBridged
  <2>3. CASE RequestLead
    <3>1. CallMembersOK'
      BY <2>3 DEF RequestLead, CallMembersOK, CallEvents
    <3>2. LeadMembersOK'
      BY <2>3 DEF RequestLead, LeadMembersOK
    <3>3. QED
      BY <2>3, <3>1, <3>2 DEF RequestLead
  <2>4. CASE CaptureLead("wait_check")
    BY <2>4 DEF CaptureLead, LeadMembersOK
  <2>5. CASE Check("wait_check", "wait") /\ UNCHANGED leadVars
    BY <2>5 DEF Check
  <2>6. CASE WaitCall
    BY <2>6 DEF WaitCall, WaitBridged, WaitTimeout
  <2>7. CASE BridgedCheck
    <3>1. CallMembersOK'
      BY <2>7 DEF BridgedCheck, CallMembersOK, Silent, Channel
    <3>2. QED
      BY <2>7, <3>1 DEF BridgedCheck
  <2>8. QED
    BY <1>2, <2>1, <2>2, <2>3, <2>4, <2>5, <2>6, <2>7
       DEF AwaitCall, StartCall
<1>3. CASE AttendLead
  <2>1. CASE OpenSessionOfLead
    BY <2>1 DEF OpenSessionOfLead, openFrame
  <2>2. CASE Check("update_check", "update_room") /\ UNCHANGED leadVars
    BY <2>2 DEF Check
  <2>3. CASE UpdateRoom /\ UNCHANGED leadVars
    BY <2>3 DEF UpdateRoom
  <2>4. CASE Check("result_check", "forget_lead") /\ UNCHANGED leadVars
    BY <2>4 DEF Check
  <2>5. CASE ForgetLead
    BY <2>5 DEF ForgetLead, LeadMembersOK
  <2>6. CASE SetResult
    BY <2>6 DEF SetResult, LeadMembersOK
  <2>7. QED
    BY <1>3, <2>1, <2>2, <2>3, <2>4, <2>5, <2>6 DEF AttendLead
<1>4. CASE LeaveRound
  <2> USE <1>4 DEF LeaveRound
  <2>1. CASE Check("logout_check", "clear")
    BY <2>1 DEF Check
  <2>2. CASE Clear
    BY <2>2 DEF Clear, ClearSession
  <2>3. CASE Logout("stop_alives")
    BY <2>3 DEF Logout, LogoutRequest
  <2>4. CASE StopAlives
    <3>1. TypeOK'
      BY <2>4 DEF StopAlives
    <3>2. (MutexInv /\ WorkerInv /\ ThreadInv)'
      BY <2>4 DEF StopAlives
    <3>3. (SessionInv /\ LeadInv)'
      BY <2>4 DEF StopAlives
    <3>4. QED
      BY <3>1, <3>2, <3>3
  <2>5. CASE JoinAlive
    BY <2>5 DEF JoinAlive
  <2>6. QED
    BY <2>1, <2>2, <2>3, <2>4, <2>5
<1>5. QED
  BY <1>1, <1>2, <1>3, <1>4 DEF Sequence

LEMMA WorkerKeepsShared ==
  TypeOK /\ SharedInv /\ AliveWorker => TypeOK' /\ SharedInv'
<1> SUFFICES ASSUME TypeOK, SharedInv, AliveWorker PROVE TypeOK' /\ SharedInv'
  OBVIOUS
<1> USE SessionAssumption, LeadAssumption, QuietLead, QuietCall
    DEF TypeOK, SharedInv, MembersOK, MutexInv, SessionInv, LeadInv,
        WorkerInv, ThreadInv,
        SequenceLocation, WorkerLocation, SequenceOver, WorkerOver,
        LoggedOut, LoggedIn, Calling, Attending, WithLead, Over, Holding,
        workerFrame, sequenceVars, lmVars, leadVars, leadDataVars, callVars
<1>1. CASE AliveCheck /\ UNCHANGED leadVars
  BY <1>1 DEF AliveCheck
<1>2. CASE AliveLock /\ UNCHANGED leadVars
  BY <1>2 DEF AliveLock
<1>3. CASE AliveNoSession /\ UNCHANGED leadVars
  BY <1>3 DEF AliveNoSession
<1>4. CASE AliveUnlock /\ UNCHANGED leadVars
  BY <1>4 DEF AliveUnlock
<1>5. CASE AliveCheckAgain /\ UNCHANGED leadVars
  BY <1>5 DEF AliveCheckAgain
<1>6. CASE AliveCopyLead
  BY <1>6 DEF AliveCopyLead, AliveCopySession, LeadMembersOK
<1>7. CASE AliveLmLead(lead_guid_local, "unlock")
  BY <1>7 DEF AliveLmLead, AliveLmOk, AliveLmFails
<1>8. CASE AliveGari(lead_guid_local, "unlock")
  BY <1>8 DEF AliveGari, AliveReadSession, AliveReadSessionUser,
              AliveGariFails, LeadMembersOK
<1>9. QED
  BY <1>1, <1>2, <1>3, <1>4, <1>5, <1>6, <1>7, <1>8
     DEF AliveWorker, LeadAliveWorker, AliveRound

(***************************************************************************)
(* The Twilio handler shares nothing with the alive thread.                *)
(***************************************************************************)
LEMMA TwilioKeepsShared ==
  TypeOK /\ SharedInv /\ TwilioHandler => TypeOK' /\ SharedInv'
<1> SUFFICES ASSUME TypeOK, SharedInv, TwilioHandler
             PROVE  TypeOK' /\ SharedInv'
  OBVIOUS
<1>1. UNCHANGED <<vars, leadDataVars>>
  BY DEF TwilioHandler, TwilioUserCall, TwilioEvent, Called, BridgeChannel,
         ForeignBridge, Hangup, StoreBridged
<1>2. /\ call_bridged' \in BOOLEAN
      /\ channel' \in [Channel -> {"no_call", "called", "bridged"}]
      /\ handler' \in {"idle", "store"}
      /\ pbx_events' \in SUBSET CallEvents
  BY DEF TypeOK, CallMembersOK, TwilioHandler, TwilioUserCall,
         TwilioEvent, Event, Called, BridgeChannel, Matched, Channel,
         ForeignBridge, Hangup, StoreBridged
<1>3. QED
  BY <1>1, <1>2
     DEF SharedInv, TypeOK, MembersOK, LeadMembersOK, CallMembersOK, MutexInv,
         SessionInv, LeadInv, WorkerInv, ThreadInv, SequenceOver, WorkerOver,
         vars, leadDataVars

LEMMA StepShared ==
  TypeOK /\ SharedInv /\ [NextCMN]_allVars => TypeOK' /\ SharedInv'
<1> SUFFICES ASSUME TypeOK, SharedInv, [NextCMN]_allVars
             PROVE  TypeOK' /\ SharedInv'
  OBVIOUS
<1>1. CASE Sequence
  BY <1>1, SequenceKeepsShared
<1>2. CASE AliveWorker
  BY <1>2, WorkerKeepsShared
<1>3. CASE TwilioHandler
  BY <1>3, TwilioKeepsShared
<1>4. CASE Terminate
  <2>1. TypeOK'
    BY <1>4, QuietLead, QuietCall
       DEF Terminate, TerminateProcess, TypeOK, MembersOK, sequenceVars,
           workerVars, lmVars, leadVars
  <2>2. QED
    BY <1>4, <2>1
       DEF Terminate, TerminateProcess, SharedInv, MutexInv, SessionInv,
           LeadInv, WorkerInv, ThreadInv, SequenceOver, WorkerOver,
           sequenceVars, workerVars, lmVars, leadVars, leadDataVars
<1>5. CASE Finish \/ UNCHANGED allVars
  BY <1>5 DEF Finish, Finished, allVars, vars, leadVars, leadDataVars,
              callVars, SharedInv, TypeOK, MembersOK, LeadMembersOK,
              CallMembersOK, MutexInv, SessionInv, LeadInv, WorkerInv,
              ThreadInv, SequenceOver, WorkerOver
<1>6. QED
  BY <1>1, <1>2, <1>3, <1>4, <1>5 DEF NextCMN

-----------------------------------------------------------------------------
(***************************************************************************)
(* The call.  Until the call is over no step of the sequence changes the   *)
(* channels or raises the flag, and the handler never takes a bridge back. *)
(***************************************************************************)
CallPlaces == LoggedOut \cup {"publish"} \cup Calling

LEMMA SequenceKeepsCall ==
  ASSUME TypeOK, CallInv, Sequence, sequence' \in CallPlaces
  PROVE  /\ sequence \in CallPlaces
         /\ call_bridged' => call_bridged
         /\ UNCHANGED <<channel, handler>>
<1> USE DEF CallPlaces, LoggedOut, Calling, Goto, Move, Break, StopCheck,
            leadVars, callVars
<1>1. CASE BecomeAvailable
  BY <1>1 DEF BecomeAvailable, StartSequence, Start, LookupGuids, Throw,
              CreateSeed, SpawnAliveThread, GetVateams, Check, Login, LoginOk,
              Publish, PublishSession, ChangeStatus, SessionRequest,
              CheckVateam, GetAvailability
<1>2. CASE AwaitCall
  BY <1>2 DEF AwaitCall, StartCall, ResetBridged, RequestLead, CaptureLead,
              Check, WaitCall, WaitBridged, WaitTimeout, BridgedCheck
<1>3. CASE AttendLead
  BY <1>3 DEF AttendLead, OpenSessionOfLead, Check, UpdateRoom, ForgetLead,
              SetResult
<1>4. CASE LeaveRound
  BY <1>4 DEF LeaveRound, Check, Clear, ClearSession, Logout, LogoutRequest,
              StopAlives, JoinAlive
<1>5. QED
  BY <1>1, <1>2, <1>3, <1>4 DEF Sequence

LEMMA TwilioKeepsCall ==
  ASSUME TypeOK, CallInv, TwilioHandler
  PROVE  CallInv'
<1> SUFFICES ASSUME sequence' \in CallPlaces,
                    call_bridged' \/ handler' = "store"
             PROVE  Bridged(channel')
  BY DEF CallInv, CallPlaces
<1>1. sequence' = sequence
  BY DEF TwilioHandler, TwilioUserCall, TwilioEvent, Called, BridgeChannel,
         ForeignBridge, Hangup, StoreBridged, vars
<1>2. call_bridged \/ handler = "store" => Bridged(channel)
  BY <1>1 DEF CallInv, CallPlaces
<1>3. channel \in [Channel -> {"no_call", "called", "bridged"}]
  BY DEF TypeOK, CallMembersOK
<1>4. ASSUME NEW c \in Channel, Called(c)
      PROVE  Bridged(channel')
  BY <1>2, <1>3, <1>4 DEF Called, Bridged, Channel
<1>5. ASSUME NEW c \in Channel, BridgeChannel(c)
      PROVE  Bridged(channel')
  BY <1>2, <1>3, <1>5 DEF BridgeChannel, Bridged, Channel, Matched
<1>6. CASE ForeignBridge
  BY <1>6 DEF ForeignBridge
<1>7. CASE Hangup
  BY <1>7 DEF Hangup
<1>8. CASE StoreBridged
  BY <1>2, <1>8 DEF StoreBridged
<1>9. QED
  BY <1>4, <1>5, <1>6, <1>7, <1>8
     DEF TwilioHandler, TwilioUserCall, TwilioEvent, Channel

LEMMA StepCall ==
  ASSUME TypeOK, CallInv, [NextCMN]_allVars
  PROVE  CallInv'
<1>1. CASE Sequence
  BY <1>1, SequenceKeepsCall DEF CallInv, CallPlaces
<1>2. CASE AliveWorker
  <2>1. UNCHANGED <<sequence, callVars>>
    BY <1>2 DEF AliveWorker, LeadAliveWorker, AliveCopyLead, AliveCopySession,
                AliveRound, AliveCheck, AliveLock, AliveNoSession,
                AliveUnlock, AliveCheckAgain, AliveLmLead, AliveLmOk,
                AliveLmFails, AliveGari, AliveReadSession,
                AliveReadSessionUser, AliveGariFails, workerFrame,
                sequenceVars, leadVars, callVars
  <2>2. QED
    BY <2>1 DEF CallInv, callVars
<1>3. CASE TwilioHandler
  BY <1>3, TwilioKeepsCall
<1>4. CASE Terminate \/ Finish \/ UNCHANGED allVars
  BY <1>4 DEF Terminate, TerminateProcess, Finish, Finished, allVars, vars,
              sequenceVars, leadVars, callVars, CallInv
<1>5. QED
  BY <1>1, <1>2, <1>3, <1>4 DEF NextCMN

LEMMA Invariance == Spec => []IInv
<1>1. LeadInit => IInv
  BY InitInv
<1>2. IInv /\ [NextCMN]_allVars => IInv'
  BY StepShared, StepCall DEF IInv
<1>3. QED
  BY <1>1, <1>2, PTL DEF Spec

-----------------------------------------------------------------------------
(***************************************************************************)
(* Type correctness of the three threads of CMNWorkflow.                   *)
(***************************************************************************)
THEOREM TypeCorrect == Spec => []TypeOK
<1>1. IInv => TypeOK
  BY DEF IInv
<1>2. QED
  BY <1>1, Invariance, PTL

(***************************************************************************)
(* alive_worker() only names sessions not yet asked to log out and leads   *)
(* whose result was not yet requested, the wait for the call included.     *)
(***************************************************************************)
THEOREM AliveOnlyWhileAttending == Spec => []AliveOnOpenLead
<1>1. IInv => AliveOnOpenLead
  BY DEF IInv, SharedInv, WorkerInv, SessionInv, LeadInv, AliveOnOpenLead
<1>2. QED
  BY <1>1, Invariance, PTL

(***************************************************************************)
(* The sequence passes its check of the flag only with both channels of    *)
(* the call bridged.                                                       *)
(***************************************************************************)
THEOREM PassesOnlyBridged == Spec => WaitsForBridge
<1>1. ASSUME IInv, Sequence, sequence = "bridged_check",
             sequence' = "open_session"
      PROVE  channel = [c \in Channel |-> "bridged"]
  <2>1. call_bridged
    BY <1>1 DEF Sequence, BecomeAvailable, AwaitCall, AttendLead, LeaveRound,
         StartSequence, Start, LookupGuids, Throw, CreateSeed,
         SpawnAliveThread, GetVateams, Check, Login, LoginOk, Publish,
         PublishSession, ChangeStatus, SessionRequest, CheckVateam,
         GetAvailability, StartCall, ResetBridged, RequestLead, CaptureLead,
         WaitCall, WaitBridged, WaitTimeout, BridgedCheck, OpenSessionOfLead,
         UpdateRoom, ForgetLead, SetResult, Clear, ClearSession, Logout,
         LogoutRequest, StopAlives, JoinAlive, Goto, Move, Break, StopCheck
  <2>2. Bridged(channel)
    BY <1>1, <2>1 DEF IInv, CallInv, Calling
  <2>3. channel \in [Channel -> {"no_call", "called", "bridged"}]
    BY <1>1 DEF IInv, TypeOK, CallMembersOK
  <2>4. QED
    BY <2>2, <2>3 DEF Bridged
<1>2. ASSUME ~Sequence, [NextCMN]_allVars
      PROVE  sequence' = sequence
  BY <1>2 DEF NextCMN, AliveWorker, LeadAliveWorker, AliveCopyLead,
         AliveCopySession, AliveRound, AliveCheck, AliveLock, AliveNoSession,
         AliveUnlock, AliveCheckAgain, AliveLmLead, AliveLmOk, AliveLmFails,
         AliveGari, AliveReadSession, AliveReadSessionUser, AliveGariFails,
         TwilioHandler, TwilioUserCall, TwilioEvent, Called, BridgeChannel,
         ForeignBridge, Hangup, StoreBridged, Terminate, TerminateProcess,
         Finish, Finished, workerFrame, sequenceVars, vars, allVars
<1>3. IInv /\ [NextCMN]_allVars =>
        [sequence = "bridged_check" /\ sequence' = "open_session"
           => channel = [c \in Channel |-> "bridged"]]_allVars
  BY <1>1, <1>2
<1>4. QED
  BY <1>3, Invariance, PTL DEF Spec, WaitsForBridge

-----------------------------------------------------------------------------
(***************************************************************************)
(* A request that names an open session is one LM allows the agent.        *)
(***************************************************************************)
LEMMA RequestRefines ==
  ASSUME NEW op \in {"change_status", "check_vateam", "open_session", "alive"},
         NEW s \in lm_sessions, lm_sessions \subseteq Session,
         lm_request' = Request(op, s), UNCHANGED lm_sessions
  PROVE  LmAgent!Next
BY DEF LmAgent!Next, LmAgent!Use, Request

LEMMA SequenceRefines ==
  IInv /\ Sequence => LmAgent!Next \/ UNCHANGED lmVars
<1> SUFFICES ASSUME IInv, Sequence
             PROVE  LmAgent!Next \/ UNCHANGED lmVars
  OBVIOUS
<1> USE DEF Goto, Move, Break, StopCheck, lmVars
<1>1. lm_sessions \subseteq Session
  BY DEF IInv, TypeOK, MembersOK
<1>2. sequence \in LoggedIn \cup {"logout"} =>
        local_session_guid \in lm_sessions
  BY DEF IInv, SharedInv, SessionInv
<1>3. CASE Login
  <2>1. CASE StopCheck("login") \/ Break("login")
    BY <2>1
  <2>2. CASE \E s \in Session : LoginOk("login", "publish", s)
    <3>1. PICK s \in Session : LoginOk("login", "publish", s)
      BY <2>2
    <3>2. LmAgent!LogIn(s)
      BY <3>1
         DEF LoginOk, IInv, SharedInv, SessionInv, LoggedOut, LmAgent!LogIn,
             Request
    <3>3. QED
      BY <3>2 DEF LmAgent!Next
  <2>3. QED
    BY <1>3, <2>1, <2>2 DEF Login
<1>4. CASE ChangeStatus("check_vateam")
  <2>1. CASE StopCheck("change_status")
    BY <2>1
  <2>2. CASE SessionRequest("change_status", "check_vateam", "change_status")
    BY <1>1, <1>2, <2>2, RequestRefines
       DEF SessionRequest, LoggedIn, Calling
  <2>3. QED
    BY <1>4, <2>1, <2>2 DEF ChangeStatus
<1>5. CASE CheckVateam("get_availability")
  <2>1. CASE StopCheck("check_vateam")
    BY <2>1
  <2>2. CASE SessionRequest("check_vateam", "get_availability", "check_vateam")
    BY <1>1, <1>2, <2>2, RequestRefines
       DEF SessionRequest, LoggedIn, Calling
  <2>3. QED
    BY <1>5, <2>1, <2>2 DEF CheckVateam
<1>6. CASE OpenSessionOfLead
  <2>1. /\ lm_request' = Request("open_session", session_guid)
        /\ UNCHANGED lm_sessions
        /\ sequence = "open_session"
    BY <1>6 DEF OpenSessionOfLead, openFrame
  <2>2. session_guid \in lm_sessions
    BY <2>1 DEF IInv, SharedInv, SessionInv, LoggedIn, Attending
  <2>3. QED
    BY <1>1, <2>1, <2>2, RequestRefines
<1>7. CASE Logout("stop_alives")
  <2>1. local_session_guid \in lm_sessions
    BY <1>2, <1>7 DEF Logout, LogoutRequest
  <2>2. LmAgent!LogOut(local_session_guid)
    BY <1>7, <2>1 DEF Logout, LogoutRequest, LmAgent!LogOut, Request
  <2>3. QED
    BY <1>1, <2>1, <2>2 DEF LmAgent!Next
<1>8. CASE \/ StartSequence \/ LookupGuids \/ CreateSeed("getvateams")
           \/ GetVateams \/ Publish("change_status")
           \/ GetAvailability("reset_bridged") \/ AwaitCall
           \/ Check("update_check", "update_room") \/ UpdateRoom
           \/ Check("result_check", "forget_lead") \/ ForgetLead
           \/ SetResult \/ Check("logout_check", "clear") \/ Clear
           \/ StopAlives \/ JoinAlive
  BY <1>8 DEF StartSequence, Start, LookupGuids, CreateSeed, SpawnAliveThread,
              Throw, GetVateams, Publish, PublishSession, GetAvailability,
              AwaitCall, StartCall, ResetBridged, RequestLead, WaitCall,
              WaitBridged, WaitTimeout, BridgedCheck, CaptureLead, Check,
              UpdateRoom, ForgetLead, SetResult, Clear, ClearSession,
              StopAlives, JoinAlive
<1>9. QED
  BY <1>3, <1>4, <1>5, <1>6, <1>7, <1>8
     DEF Sequence, BecomeAvailable, AttendLead, LeaveRound

LEMMA WorkerRefines ==
  IInv /\ AliveWorker => LmAgent!Next \/ UNCHANGED lmVars
<1> SUFFICES ASSUME IInv, AliveWorker
             PROVE  LmAgent!Next \/ UNCHANGED lmVars
  OBVIOUS
<1>1. CASE AliveLmLead(lead_guid_local, "unlock")
  <2>1. worker = "alive_lm" /\ UNCHANGED lm_sessions
    BY <1>1 DEF AliveLmLead, AliveLmOk, AliveLmFails
  <2>2. session_guid_local \in lm_sessions /\ lm_sessions \subseteq Session
    BY <2>1 DEF IInv, SharedInv, WorkerInv, SessionInv, TypeOK, MembersOK
  <2>3. lm_request' = Request("alive", session_guid_local)
    BY <1>1 DEF AliveLmLead, AliveLmOk, AliveLmFails
  <2>4. QED
    BY <2>1, <2>2, <2>3, RequestRefines
<1>2. CASE \/ AliveCopyLead \/ AliveCheck \/ AliveLock \/ AliveNoSession
           \/ AliveUnlock \/ AliveCheckAgain
           \/ AliveGari(lead_guid_local, "unlock")
  BY <1>2 DEF AliveCopyLead, AliveCheck, AliveLock, AliveNoSession,
              AliveCopySession, AliveUnlock, AliveCheckAgain, AliveGari,
              AliveReadSession, AliveReadSessionUser, AliveGariFails, lmVars
<1>3. QED
  BY <1>1, <1>2 DEF AliveWorker, LeadAliveWorker, AliveRound

(***************************************************************************)
(* The three threads of CMNWorkflow implement the abstract agent.          *)
(***************************************************************************)
THEOREM Refinement == Spec => ImplementsAgentSession
<1>1. LeadInit => LmAgent!Init
  BY DEF LeadInit, Init, LmAgent!Init
<1>2. IInv /\ [NextCMN]_allVars
        => [LmAgent!Next]_<<lm_sessions, lm_request>>
  <2> SUFFICES ASSUME IInv, [NextCMN]_allVars
               PROVE  [LmAgent!Next]_<<lm_sessions, lm_request>>
    OBVIOUS
  <2>1. CASE Sequence
    BY <2>1, SequenceRefines DEF lmVars
  <2>2. CASE AliveWorker
    BY <2>2, WorkerRefines DEF lmVars
  <2>3. CASE TwilioHandler \/ Terminate \/ Finish
             \/ UNCHANGED allVars
    BY <2>3
       DEF TwilioHandler, TwilioUserCall, TwilioEvent, Called, BridgeChannel,
           ForeignBridge, Hangup, StoreBridged, Terminate, TerminateProcess,
           Finish, Finished, allVars, vars, lmVars
  <2>4. QED
    BY <2>1, <2>2, <2>3 DEF NextCMN
<1>3. QED
  BY <1>1, <1>2, Invariance, PTL DEF Spec, ImplementsAgentSession, LmAgent!Spec

-----------------------------------------------------------------------------
(* The object as main() sees it. *)

Staying == /\ sequence \notin {"start", "ended", "threw"}
           /\ sequence' \notin {"start", "ended", "threw"}
           /\ worker' = worker

(***************************************************************************)
(* Between the creation of the alive thread and its join, no step of       *)
(* sequence() arrives, leaves or touches that thread.                      *)
(***************************************************************************)
LEMMA SequenceStays ==
  ASSUME \/ GetVateams \/ Login \/ Publish("change_status")
         \/ ChangeStatus("check_vateam") \/ CheckVateam("get_availability")
         \/ GetAvailability("reset_bridged")
         \/ AwaitCall \/ AttendLead
         \/ Check("logout_check", "clear") \/ Clear \/ Logout("stop_alives")
         \/ StopAlives
  PROVE  Staying
<1> USE DEF Staying, Goto, Move, Break, StopCheck, Check, workerVars
<1>1. CASE \/ GetVateams \/ Login \/ Publish("change_status")
           \/ ChangeStatus("check_vateam") \/ CheckVateam("get_availability")
           \/ GetAvailability("reset_bridged")
  BY <1>1
     DEF GetVateams, Login, LoginOk, Publish, PublishSession, ChangeStatus,
         CheckVateam, SessionRequest, GetAvailability
<1>2. CASE AwaitCall
  BY <1>2
     DEF AwaitCall, StartCall, ResetBridged, RequestLead, CaptureLead,
         WaitCall, WaitBridged, WaitTimeout, BridgedCheck
<1>3. CASE AttendLead
  BY <1>3
     DEF AttendLead, OpenSessionOfLead, openFrame, UpdateRoom, ForgetLead,
         SetResult
<1>4. CASE \/ Check("logout_check", "clear") \/ Clear \/ Logout("stop_alives")
           \/ StopAlives
  BY <1>4 DEF Clear, ClearSession, Logout, LogoutRequest, StopAlives
<1>5. QED
  BY <1>1, <1>2, <1>3, <1>4

(***************************************************************************)
(* The sequence thread arrives, creates the alive thread, leaves, or does  *)
(* its work in between.                                                    *)
(***************************************************************************)
LEMMA SequenceOfObject ==
  ASSUME IInv, Sequence
  PROVE  Object!Next \/ UNCHANGED Object!vars
<1> USE DEF Object!Next, ThreadPhase, AlivesPhase, SequenceOver, WorkerOver
<1>1. CASE StartSequence
  <2>1. Object!Arrive
    BY <1>1 DEF StartSequence, Start, Goto, workerVars, lmVars, Object!Arrive
  <2>2. QED
    BY <2>1
<1>2. CASE LookupGuids \/ CreateSeed("getvateams") \/ JoinAlive
  <2>1. CASE Throw("lookup") \/ Throw("create_seed")
    <3>1. worker = "none"
      BY <2>1 DEF IInv, SharedInv, ThreadInv, Throw, Goto
    <3>2. Object!Leave
      BY <2>1, <3>1 DEF Throw, Goto, workerVars, lmVars, Object!Leave
    <3>3. QED
      BY <3>2
  <2>2. CASE Move("lookup", "create_seed")
    BY <2>2 DEF Move, Goto, workerVars, Object!Work
  <2>3. CASE SpawnAliveThread("create_seed", "getvateams")
    <3>1. worker = "none"
      BY <2>3 DEF IInv, SharedInv, ThreadInv, SpawnAliveThread, Goto
    <3>2. Object!SpawnAlives
      BY <2>3, <3>1 DEF SpawnAliveThread, Goto, lmVars, Object!SpawnAlives
    <3>3. QED
      BY <3>2
  <2>4. CASE JoinAlive
    <3>1. Object!Leave
      BY <2>4 DEF JoinAlive, Goto, workerVars, lmVars, Object!Leave
    <3>2. QED
      BY <3>1
  <2>5. QED
    BY <1>2, <2>1, <2>2, <2>3, <2>4 DEF LookupGuids, CreateSeed
<1>3. CASE Staying
  BY <1>3 DEF Staying, Object!Work
<1>4. QED
  BY <1>1, <1>2, <1>3, SequenceStays DEF Sequence, BecomeAvailable, LeaveRound

(***************************************************************************)
(* The alive thread works between its creation and its end, and then the   *)
(* sequence thread has arrived and not left.                               *)
(***************************************************************************)
LEMMA WorkerOfObject ==
  ASSUME IInv, AliveWorker
  PROVE  Object!Next
<1>1. /\ worker \notin {"none", "done"}
      /\ worker' # "none"
      /\ sequence' = sequence
  BY DEF AliveWorker, LeadAliveWorker, AliveCopyLead, AliveCopySession,
         AliveRound, AliveCheck, AliveLock, AliveNoSession, AliveUnlock,
         AliveCheckAgain, AliveLmLead, AliveLmOk, AliveLmFails, AliveGari,
         AliveReadSession, AliveReadSessionUser, AliveGariFails, workerFrame,
         sequenceVars
<1>2. sequence \notin {"start", "ended", "threw"}
  BY <1>1 DEF IInv, SharedInv, ThreadInv, SequenceOver, WorkerOver
<1> USE DEF ThreadPhase, AlivesPhase, SequenceOver, Object!Next
<1>3. CASE worker' = "done"
  <2>1. Object!EndAlives
    BY <1>1, <1>2, <1>3 DEF Object!EndAlives
  <2>2. QED
    BY <2>1
<1>4. CASE worker' # "done"
  <2>1. Object!Work
    BY <1>1, <1>2, <1>4 DEF Object!Work
  <2>2. QED
    BY <2>1
<1>5. QED
  BY <1>3, <1>4

(***************************************************************************)
(* The threads of the workflow keep the promise main() relies on when it   *)
(* joins the workflow and deletes it.                                      *)
(***************************************************************************)
THEOREM ObjectLife == Spec => ImplementsWorkflowObject
<1>1. LeadInit => Object!Init
  BY DEF LeadInit, Init, Object!Init, ThreadPhase, AlivesPhase
<1>2. IInv /\ [NextCMN]_allVars => [Object!Next]_(Object!vars)
  <2> SUFFICES ASSUME IInv, [NextCMN]_allVars
               PROVE  Object!Next \/ UNCHANGED Object!vars
    OBVIOUS
  <2>1. CASE Sequence
    BY <2>1, SequenceOfObject
  <2>2. CASE AliveWorker
    BY <2>2, WorkerOfObject
  <2>3. CASE TwilioHandler \/ Terminate \/ Finish \/ UNCHANGED allVars
    <3>1. UNCHANGED <<sequence, worker, lm_request>>
      BY <2>3
         DEF TwilioHandler, TwilioUserCall, TwilioEvent, Called,
             BridgeChannel, ForeignBridge, StoreBridged, Hangup, Terminate,
             TerminateProcess, Finish, Finished, allVars, vars, sequenceVars,
             workerVars, lmVars
    <3>2. QED
      BY <3>1 DEF Object!vars, ThreadPhase, AlivesPhase, SequenceOver
  <2>4. QED
    BY <2>1, <2>2, <2>3 DEF NextCMN
<1>3. QED
  BY <1>1, <1>2, Invariance, PTL
     DEF Spec, ImplementsWorkflowObject, Object!Spec

(***************************************************************************)
(* When sequence() has returned, its alive thread is over.                 *)
(***************************************************************************)
THEOREM WorkerJoined == Spec => []NoOrphanWorker
<1>1. IInv => NoOrphanWorker
  BY DEF IInv, SharedInv, ThreadInv, NoOrphanWorker
<1>2. QED
  BY <1>1, Invariance, PTL

(***************************************************************************)
(* An alive thread that is over does not hold the mutex.                   *)
(***************************************************************************)
THEOREM MutexIsReleased == Spec => []MutexReleased
<1>1. IInv => MutexReleased
  BY DEF IInv, SharedInv, MutexInv, TypeOK, MembersOK, WorkerOver,
         MutexReleased, Holding
<1>2. QED
  BY <1>1, Invariance, PTL
=============================================================================
