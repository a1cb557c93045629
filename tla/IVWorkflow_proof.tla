---------------------------- MODULE IVWorkflow_proof ----------------------------
(***************************************************************************)
(* Proofs about IVWorkflow, for all sets of sessions, of leads and of PINs.*)
(***************************************************************************)
EXTENDS IVWorkflow, TLAPS

(***************************************************************************)
(* The places of sequence(), by what is logged in and what is attended.    *)
(***************************************************************************)
LoggedOut == {"start", "lookup", "create_seed", "getvateams", "login"}
LoggedIn  == {"change_status", "check_vateam", "get_availability",
              "new_session", "capture_pin", "reset_bridged", "call", "wait",
              "bridged_check", "open_session", "capture_lead", "result_check",
              "forget_lead", "set_result", "logout_check", "clear"}
WithLead  == {"result_check", "forget_lead"}
WithPin   == {"reset_bridged", "call", "wait", "bridged_check",
              "open_session", "capture_lead", "result_check", "forget_lead"}
Over      == {"stop_alives", "join", "ended", "threw"}

Holding == {"read", "alive_lm", "alive_gari", "iv_flag", "unlock"}

MutexInv == session_mutex = "alive" <=> worker \in Holding

SessionInv ==
  /\ sequence \in LoggedOut => lm_sessions = {} /\ session_guid = NoSession
  /\ sequence \in {"publish", "logout"} =>
       /\ lm_sessions = {local_session_guid}
       /\ local_session_guid # NoSession
       /\ session_guid = NoSession
  /\ sequence \in LoggedIn =>
       /\ lm_sessions = {local_session_guid}
       /\ local_session_guid # NoSession
       /\ session_guid = local_session_guid
  /\ session_guid \in lm_sessions \cup {NoSession}

(***************************************************************************)
(* The published lead is open, and a user id goes with the published lead. *)
(***************************************************************************)
LeadInv ==
  /\ lead_guid \in lm_leads \cup {NoLead}
  /\ gari_user_guid \in {NoLead, lead_guid}
  /\ sequence \notin WithLead \cup Over => lead_guid = NoLead
  /\ sequence \in WithLead => lead_guid = local_lead_guid
  /\ sequence = "capture_lead" => local_lead_guid \in lm_leads \cup {NoLead}

(***************************************************************************)
(* The PIN is published from its capture until its lead is over, and stays *)
(* LM's as long as it is published.                                        *)
(***************************************************************************)
PinInv ==
  /\ pin \in lm_pins \cup {NoPin}
  /\ sequence \notin WithPin \cup Over => pin = NoPin
  /\ sequence \in WithPin => pin = return_pin
  /\ sequence = "capture_pin" => return_pin \in lm_pins \cup {NoPin}

(***************************************************************************)
(* While the worker holds the mutex its copies are what is published, and  *)
(* it flags no empty PIN.                                                  *)
(***************************************************************************)
WorkerInv ==
  /\ worker \in {"alive_lm", "alive_gari", "iv_flag", "unlock"} =>
       /\ session_guid_local = session_guid
       /\ session_guid # NoSession
       /\ lead_guid_local = lead_guid
       /\ pin_local = pin
  /\ worker = "iv_flag" => pin_local # NoPin

ThreadInv ==
  /\ sequence \in {"start", "lookup", "create_seed"} => worker = "none"
  /\ SequenceOver => WorkerOver

IInv == /\ TypeOK /\ MutexInv /\ SessionInv /\ LeadInv /\ PinInv /\ WorkerInv
        /\ ThreadInv

LEMMA InitInv == Init_IV => IInv
BY DEF Init_IV, LeadInit, Init, IInv, TypeOK, MembersOK, LeadMembersOK,
       CallMembersOK, MutexInv, SessionInv, LeadInv, PinInv, WorkerInv,
       ThreadInv, SequenceLocation, WorkerLocation, SequenceOver, WorkerOver,
       LoggedOut, LoggedIn, WithLead, WithPin, Over, Holding, Silent, Channel

(***************************************************************************)
(* Steps that leave the lead, or the call, alone keep its members typed.   *)
(***************************************************************************)
LEMMA QuietLead ==
  LeadMembersOK /\ UNCHANGED leadDataVars => LeadMembersOK'
BY DEF LeadMembersOK, leadDataVars

LEMMA QuietCall == CallMembersOK /\ UNCHANGED callVars => CallMembersOK'
BY DEF CallMembersOK, callVars

(***************************************************************************)
(* The sequence thread writes what the worker copied only with the mutex   *)
(* free.                                                                   *)
(***************************************************************************)
LEMMA SequenceKeepsInv == IInv /\ Sequence => IInv'
<1> SUFFICES ASSUME IInv, Sequence PROVE IInv'
  OBVIOUS
<1> USE SessionAssumption, LeadAssumption, PinAssumption, QuietLead,
    QuietCall
    DEF IInv, TypeOK, MembersOK, MutexInv, SessionInv, LeadInv, PinInv,
        WorkerInv, ThreadInv,
        SequenceLocation, WorkerLocation, SequenceOver, WorkerOver,
        LoggedOut, LoggedIn, WithLead, WithPin, Over, Holding, pinVars,
        Goto, Move, Break, StopCheck, workerVars, lmVars, leadVars,
        leadDataVars, callVars
<1>1. CASE BecomeAvailable
  <2> USE <1>1 DEF BecomeAvailable
  <2>1. CASE StartSequence
    BY <2>1 DEF StartSequence, Start
  <2>2. CASE LookupGuids
    BY <2>2 DEF LookupGuids, Throw
  <2>3. CASE CreateSeed("getvateams")
    BY <2>3 DEF CreateSeed, SpawnAliveThread, Throw
  <2>4. CASE GetVateams
    BY <2>4 DEF GetVateams, Check
  <2>5. CASE Login
    <3>1. CASE StopCheck("login") \/ Break("login")
      BY <3>1
    <3>2. CASE \E s \in Session : LoginOk("login", "publish", s)
      BY <3>2 DEF LoginOk
    <3>3. QED
      BY <2>5, <3>1, <3>2 DEF Login
  <2>6. CASE Publish("change_status")
    BY <2>6 DEF Publish, PublishSession
  <2>7. CASE ChangeStatus("check_vateam")
    BY <2>7 DEF ChangeStatus, SessionRequest
  <2>8. CASE CheckVateam("get_availability")
    BY <2>8 DEF CheckVateam, SessionRequest
  <2>9. CASE GetAvailability("new_session")
    BY <2>9 DEF GetAvailability
  <2>10. QED
    BY <2>1, <2>2, <2>3, <2>4, <2>5, <2>6, <2>7, <2>8, <2>9
<1>2. CASE CallIV
  <2>1. CASE NewSession
    BY <2>1 DEF NewSession
  <2>2. CASE CapturePin
    BY <2>2 DEF CapturePin
  <2>3. CASE StopCheck("reset_bridged") /\ UNCHANGED leadVars
             /\ UNCHANGED pinVars
    BY <2>3
  <2>4. CASE ResetBridged("call") /\ UNCHANGED pinVars
    <3>1. CallMembersOK'
      BY <2>4 DEF ResetBridged, CallMembersOK
    <3>2. QED
      BY <2>4, <3>1 DEF ResetBridged
  <2>5. CASE PlaceCall("call", "wait") /\ UNCHANGED pinVars
    <3>1. CallMembersOK'
      BY <2>5 DEF PlaceCall, CallMembersOK, CallEvents
    <3>2. QED
      BY <2>5, <3>1 DEF PlaceCall
  <2>6. QED
    BY <1>2, <2>1, <2>2, <2>3, <2>4, <2>5 DEF CallIV, StartCall
<1>3. CASE AttendLead
  <2>1. CASE WaitCall /\ UNCHANGED pinVars
    BY <2>1 DEF WaitCall, WaitBridged, WaitTimeout
  <2>2. CASE BridgedCheck /\ UNCHANGED pinVars
    <3>1. CallMembersOK'
      BY <2>2 DEF BridgedCheck, CallMembersOK, Silent, Channel
    <3>2. QED
      BY <2>2, <3>1 DEF BridgedCheck
  <2>3. CASE OpenSessionFails /\ UNCHANGED pinVars
    BY <2>3 DEF OpenSessionFails, openFrame
  <2>4. CASE (\E l \in Lead \cup {NoLead} : OpenSessionOk(l))
             /\ UNCHANGED pinVars
    BY <2>4 DEF OpenSessionOk, openFrame, LeadMembersOK
  <2>5. CASE CaptureLead("result_check") /\ UNCHANGED pinVars
    BY <2>5 DEF CaptureLead, LeadMembersOK
  <2>6. CASE Check("result_check", "forget_lead") /\ UNCHANGED leadVars
             /\ UNCHANGED pinVars
    BY <2>6 DEF Check
  <2>7. CASE ForgetLeadAndPin
    BY <2>7 DEF ForgetLeadAndPin, ForgetLead, LeadMembersOK
  <2>8. CASE SetResult /\ lm_pins' = lm_pins \ {return_pin}
             /\ UNCHANGED <<pin, return_pin, pin_local>>
    BY <2>8 DEF SetResult, LeadMembersOK
  <2>9. QED
    BY <1>3, <2>1, <2>2, <2>3, <2>4, <2>5, <2>6, <2>7, <2>8
       DEF AttendLead, OpenSession
<1>4. CASE LeaveRound
  <2> USE <1>4 DEF LeaveRound
  <2>1. CASE Check("logout_check", "clear")
    BY <2>1 DEF Check
  <2>2. CASE Clear
    BY <2>2 DEF Clear, ClearSession
  <2>3. CASE Logout("getvateams")
    BY <2>3 DEF Logout, LogoutRequest
  <2>4. CASE StopAlives
    <3>1. TypeOK'
      BY <2>4 DEF StopAlives
    <3>2. (MutexInv /\ WorkerInv /\ ThreadInv)'
      BY <2>4 DEF StopAlives
    <3>3. (SessionInv /\ LeadInv /\ PinInv)'
      BY <2>4 DEF StopAlives
    <3>4. QED
      BY <3>1, <3>2, <3>3
  <2>5. CASE JoinAlive
    BY <2>5 DEF JoinAlive
  <2>6. QED
    BY <2>1, <2>2, <2>3, <2>4, <2>5
<1>5. QED
  BY <1>1, <1>2, <1>3, <1>4 DEF Sequence

LEMMA WorkerKeepsInv == IInv /\ AliveWorker => IInv'
<1> SUFFICES ASSUME IInv, AliveWorker PROVE IInv'
  OBVIOUS
<1> USE SessionAssumption, LeadAssumption, PinAssumption, QuietLead,
    QuietCall
    DEF IInv, TypeOK, MembersOK, MutexInv, SessionInv, LeadInv, PinInv,
        WorkerInv, ThreadInv,
        SequenceLocation, WorkerLocation, SequenceOver, WorkerOver,
        LoggedOut, LoggedIn, WithLead, WithPin, Over, Holding, pinVars,
        workerFrame, sequenceVars, lmVars, leadVars, leadDataVars, callVars
<1>1. CASE AliveCheck /\ UNCHANGED leadVars /\ UNCHANGED pinVars
  BY <1>1 DEF AliveCheck
<1>2. CASE AliveLock /\ UNCHANGED leadVars /\ UNCHANGED pinVars
  BY <1>2 DEF AliveLock
<1>3. CASE AliveNoSession /\ UNCHANGED leadVars /\ UNCHANGED pinVars
  BY <1>3 DEF AliveNoSession
<1>4. CASE AliveUnlock /\ UNCHANGED leadVars /\ UNCHANGED pinVars
  BY <1>4 DEF AliveUnlock
<1>5. CASE AliveCheckAgain /\ UNCHANGED leadVars /\ UNCHANGED pinVars
  BY <1>5 DEF AliveCheckAgain
<1>6. CASE AliveCopyLead /\ pin_local' = pin
           /\ UNCHANGED <<pin, return_pin, lm_pins>>
  BY <1>6 DEF AliveCopyLead, AliveCopySession, LeadMembersOK
<1>7. CASE AliveLmLead(lead_guid, AfterGari) /\ UNCHANGED pinVars
  BY <1>7 DEF AliveLmLead, AliveLmOk, AliveLmFails, AfterGari
<1>8. CASE AliveGari(lead_guid, AfterGari) /\ UNCHANGED pinVars
  BY <1>8 DEF AliveGari, AliveReadSession, AliveReadSessionUser,
              AliveGariFails, AfterGari, LeadMembersOK
<1>9. CASE AliveFlagOk /\ UNCHANGED leadVars /\ UNCHANGED pinVars
  BY <1>9 DEF AliveFlagOk
<1>10. CASE AliveFlagFails /\ UNCHANGED leadVars /\ UNCHANGED pinVars
  BY <1>10 DEF AliveFlagFails
<1>11. QED
  BY <1>1, <1>2, <1>3, <1>4, <1>5, <1>6, <1>7, <1>8, <1>9, <1>10
     DEF AliveWorker, AliveRound

(***************************************************************************)
(* The Twilio handler shares nothing with the alive thread.                *)
(***************************************************************************)
LEMMA TwilioKeepsInv ==
  IInv /\ (TwilioRequest \/ TwilioEvent) /\ UNCHANGED pinVars => IInv'
<1> SUFFICES ASSUME IInv, TwilioRequest \/ TwilioEvent, UNCHANGED pinVars
             PROVE  IInv'
  OBVIOUS
<1>1. UNCHANGED <<vars, leadDataVars>>
  BY DEF TwilioRequest, TwilioUserCall, TwilioEvent, Called, BridgeChannel,
         ForeignBridge, Hangup, StoreBridged
<1>2. /\ call_bridged' \in BOOLEAN
      /\ channel' \in [Channel -> {"no_call", "called", "bridged"}]
      /\ handler' \in {"idle", "store"}
      /\ pbx_events' \in SUBSET CallEvents
  BY DEF IInv, TypeOK, CallMembersOK, TwilioRequest, TwilioUserCall,
         TwilioEvent, Event, Called, BridgeChannel, Matched, Channel,
         ForeignBridge, Hangup, StoreBridged
<1>3. QED
  BY <1>1, <1>2
     DEF IInv, TypeOK, MembersOK, LeadMembersOK, CallMembersOK, MutexInv,
         SessionInv, LeadInv, PinInv, WorkerInv, ThreadInv, SequenceOver,
         WorkerOver, vars, leadDataVars, pinVars

LEMMA StepInv == IInv /\ [NextIV]_ivVars => IInv'
<1> SUFFICES ASSUME IInv, [NextIV]_ivVars PROVE IInv'
  OBVIOUS
<1>1. CASE Sequence
  BY <1>1, SequenceKeepsInv
<1>2. CASE AliveWorker
  BY <1>2, WorkerKeepsInv
<1>3. CASE (TwilioRequest \/ TwilioEvent) /\ UNCHANGED pinVars
  BY <1>3, TwilioKeepsInv
<1>4. CASE Terminate /\ UNCHANGED pinVars
  <2>1. TypeOK'
    BY <1>4, QuietLead, QuietCall
       DEF Terminate, TerminateProcess, IInv, TypeOK, MembersOK, sequenceVars,
           workerVars, lmVars, leadVars, pinVars
  <2>2. QED
    BY <1>4, <2>1
       DEF Terminate, TerminateProcess, IInv, MutexInv, SessionInv, LeadInv,
           PinInv, WorkerInv, ThreadInv, SequenceOver, WorkerOver,
           sequenceVars, workerVars, lmVars, leadVars, leadDataVars, pinVars
<1>5. CASE (Finish /\ UNCHANGED pinVars) \/ UNCHANGED ivVars
  BY <1>5
     DEF Finish, Finished, ivVars, pinVars, allVars, vars, leadVars,
         leadDataVars, callVars, IInv, TypeOK, MembersOK, LeadMembersOK,
         CallMembersOK, MutexInv, SessionInv, LeadInv, PinInv, WorkerInv,
         ThreadInv, SequenceOver, WorkerOver
<1>6. QED
  BY <1>1, <1>2, <1>3, <1>4, <1>5 DEF NextIV

LEMMA Invariance == Spec => []IInv
<1>1. Init_IV => IInv
  BY InitInv
<1>2. IInv /\ [NextIV]_ivVars => IInv'
  BY StepInv
<1>3. QED
  BY <1>1, <1>2, PTL DEF Spec

(***************************************************************************)
(* Type correctness of the threads of IVWorkflow.                          *)
(***************************************************************************)
THEOREM TypeCorrect == Spec => []TypeOK
<1>1. IInv => TypeOK
  BY DEF IInv
<1>2. QED
  BY <1>1, Invariance, PTL

(***************************************************************************)
(* alive_worker() only names sessions not yet asked to log out and leads   *)
(* whose result was not yet requested, although it may return from the     *)
(* middle of its critical section.                                         *)
(***************************************************************************)
THEOREM AliveOnlyWhileAttending == Spec => []AliveOnOpenLead
<1>1. IInv => AliveOnOpenLead
  BY DEF IInv, WorkerInv, SessionInv, LeadInv, AliveOnOpenLead
<1>2. QED
  BY <1>1, Invariance, PTL

(***************************************************************************)
(* A PIN is flagged as in use only until the result of its lead is         *)
(* requested, though alive_worker() flags a copy of _pin.                  *)
(***************************************************************************)
THEOREM FlagsOwnPin == Spec => []FlagsPinOfRound
<1>1. IInv => FlagsPinOfRound
  BY DEF IInv, WorkerInv, PinInv, FlagsPinOfRound
<1>2. QED
  BY <1>1, Invariance, PTL

(***************************************************************************)
(* The customer calls with the PIN LM just handed out or with none.        *)
(***************************************************************************)
THEOREM CallsWithPinOfRound == Spec => CallsWithOwnPin
<1>1. IInv /\ [NextIV]_ivVars
        => [sequence = "call" /\ sequence' = "wait" => pin = return_pin]_ivVars
  BY DEF IInv, PinInv, WithPin
<1>2. QED
  BY <1>1, Invariance, PTL DEF Spec, CallsWithOwnPin

(***************************************************************************)
(* A request that names an open session is one LM allows the agent.        *)
(***************************************************************************)
LEMMA RequestRefines ==
  ASSUME NEW op \in {"change_status", "check_vateam", "open_session", "alive"},
         NEW s \in lm_sessions, lm_sessions \subseteq Session,
         lm_request' = Request(op, s), UNCHANGED lm_sessions
  PROVE  LmAgent!Next
BY DEF LmAgent!Next, LmAgent!Use, Request

LEMMA SequenceRefines ==
  IInv /\ Sequence => LmAgent!Next \/ UNCHANGED lmVars
<1> SUFFICES ASSUME IInv, Sequence
             PROVE  LmAgent!Next \/ UNCHANGED lmVars
  OBVIOUS
<1> USE DEF Goto, Move, Break, StopCheck, lmVars
<1>1. lm_sessions \subseteq Session
  BY DEF IInv, TypeOK, MembersOK
<1>2. sequence \in LoggedIn \cup {"logout"} =>
        local_session_guid \in lm_sessions
  BY DEF IInv, SessionInv
<1>3. CASE Login
  <2>1. CASE StopCheck("login") \/ Break("login")
    BY <2>1
  <2>2. CASE \E s \in Session : LoginOk("login", "publish", s)
    <3>1. PICK s \in Session : LoginOk("login", "publish", s)
      BY <2>2
    <3>2. LmAgent!LogIn(s)
      BY <3>1 DEF LoginOk, IInv, SessionInv, LoggedOut, LmAgent!LogIn, Request
    <3>3. QED
      BY <3>2 DEF LmAgent!Next
  <2>3. QED
    BY <1>3, <2>1, <2>2 DEF Login
<1>4. CASE ChangeStatus("check_vateam")
  <2>1. CASE StopCheck("change_status")
    BY <2>1
  <2>2. CASE SessionRequest("change_status", "check_vateam", "change_status")
    BY <1>1, <1>2, <2>2, RequestRefines DEF SessionRequest, LoggedIn
  <2>3. QED
    BY <1>4, <2>1, <2>2 DEF ChangeStatus
<1>5. CASE CheckVateam("get_availability")
  <2>1. CASE StopCheck("check_vateam")
    BY <2>1
  <2>2. CASE SessionRequest("check_vateam", "get_availability", "check_vateam")
    BY <1>1, <1>2, <2>2, RequestRefines DEF SessionRequest, LoggedIn
  <2>3. QED
    BY <1>5, <2>1, <2>2 DEF CheckVateam
<1>6. CASE OpenSession
  <2>1. /\ lm_request' = Request("open_session", session_guid)
        /\ UNCHANGED lm_sessions
        /\ sequence = "open_session"
    BY <1>6 DEF OpenSession, OpenSessionOk, OpenSessionFails, openFrame
  <2>2. session_guid \in lm_sessions
    BY <2>1 DEF IInv, SessionInv, LoggedIn
  <2>3. QED
    BY <1>1, <2>1, <2>2, RequestRefines
<1>7. CASE Logout("getvateams")
  <2>1. local_session_guid \in lm_sessions
    BY <1>2, <1>7 DEF Logout, LogoutRequest
  <2>2. LmAgent!LogOut(local_session_guid)
    BY <1>7, <2>1 DEF Logout, LogoutRequest, LmAgent!LogOut, Request
  <2>3. QED
    BY <1>1, <2>1, <2>2 DEF LmAgent!Next
<1>8. CASE \/ StartSequence \/ LookupGuids \/ CreateSeed("getvateams")
           \/ GetVateams \/ Publish("change_status")
           \/ GetAvailability("new_session") \/ CallIV \/ WaitCall
           \/ BridgedCheck \/ CaptureLead("result_check")
           \/ Check("result_check", "forget_lead") \/ ForgetLeadAndPin
           \/ SetResult \/ Check("logout_check", "clear") \/ Clear
           \/ StopAlives \/ JoinAlive
  BY <1>8 DEF StartSequence, Start, LookupGuids, CreateSeed, SpawnAliveThread,
              Throw, GetVateams, Publish, PublishSession, GetAvailability,
              CallIV, NewSession, CapturePin, StartCall, ResetBridged,
              PlaceCall, WaitCall, WaitBridged, WaitTimeout, BridgedCheck,
              CaptureLead, Check, ForgetLeadAndPin, ForgetLead, SetResult,
              Clear, ClearSession, StopAlives, JoinAlive
<1>9. QED
  BY <1>3, <1>4, <1>5, <1>6, <1>7, <1>8
     DEF Sequence, BecomeAvailable, AttendLead, LeaveRound

LEMMA WorkerRefines ==
  IInv /\ AliveWorker => LmAgent!Next \/ UNCHANGED lmVars
<1> SUFFICES ASSUME IInv, AliveWorker
             PROVE  LmAgent!Next \/ UNCHANGED lmVars
  OBVIOUS
<1>1. CASE AliveLmLead(lead_guid, AfterGari)
  <2>1. worker = "alive_lm" /\ UNCHANGED lm_sessions
    BY <1>1 DEF AliveLmLead, AliveLmOk, AliveLmFails
  <2>2. session_guid_local \in lm_sessions /\ lm_sessions \subseteq Session
    BY <2>1 DEF IInv, WorkerInv, SessionInv, TypeOK, MembersOK
  <2>3. lm_request' = Request("alive", session_guid_local)
    BY <1>1 DEF AliveLmLead, AliveLmOk, AliveLmFails
  <2>4. QED
    BY <2>1, <2>2, <2>3, RequestRefines
<1>2. CASE \/ AliveCopyLead \/ AliveCheck \/ AliveLock \/ AliveNoSession
           \/ AliveUnlock \/ AliveCheckAgain \/ AliveFlagOk \/ AliveFlagFails
           \/ AliveGari(lead_guid, AfterGari)
  BY <1>2 DEF AliveCopyLead, AliveCheck, AliveLock, AliveNoSession,
              AliveCopySession, AliveUnlock, AliveCheckAgain, AliveGari,
              AliveReadSession, AliveReadSessionUser, AliveGariFails,
              AliveFlagOk, AliveFlagFails, lmVars
<1>3. QED
  BY <1>1, <1>2 DEF AliveWorker, AliveRound

(***************************************************************************)
(* The threads of IVWorkflow implement the abstract agent.                 *)
(***************************************************************************)
THEOREM Refinement == Spec => ImplementsAgentSession
<1>1. Init_IV => LmAgent!Init
  BY DEF Init_IV, LeadInit, Init, LmAgent!Init
<1>2. IInv /\ [NextIV]_ivVars
        => [LmAgent!Next]_<<lm_sessions, lm_request>>
  <2> SUFFICES ASSUME IInv, [NextIV]_ivVars
               PROVE  [LmAgent!Next]_<<lm_sessions, lm_request>>
    OBVIOUS
  <2>1. CASE Sequence
    BY <2>1, SequenceRefines DEF lmVars
  <2>2. CASE AliveWorker
    BY <2>2, WorkerRefines DEF lmVars
  <2>3. CASE TwilioRequest \/ TwilioEvent \/ Terminate \/ Finish
             \/ UNCHANGED ivVars
    BY <2>3
       DEF TwilioRequest, TwilioUserCall, TwilioEvent, Called, BridgeChannel,
           ForeignBridge, Hangup, StoreBridged, Terminate, TerminateProcess,
           Finish, Finished, ivVars, allVars, vars, lmVars
  <2>4. QED
    BY <2>1, <2>2, <2>3 DEF NextIV
<1>3. QED
  BY <1>1, <1>2, Invariance, PTL DEF Spec, ImplementsAgentSession, LmAgent!Spec

-----------------------------------------------------------------------------
(* The object as main() sees it. *)

Staying == /\ sequence \notin {"start", "ended", "threw"}
           /\ sequence' \notin {"start", "ended", "threw"}
           /\ worker' = worker

(***************************************************************************)
(* Between the creation of the alive thread and its join, no step of       *)
(* sequence() arrives, leaves or touches that thread.                      *)
(***************************************************************************)
LEMMA SequenceStays ==
  ASSUME \/ GetVateams \/ Login \/ Publish("change_status")
         \/ ChangeStatus("check_vateam") \/ CheckVateam("get_availability")
         \/ GetAvailability("new_session")
         \/ CallIV \/ AttendLead
         \/ Check("logout_check", "clear") \/ Clear \/ Logout("getvateams")
         \/ StopAlives
  PROVE  Staying
<1> USE DEF Staying, Goto, Move, Break, StopCheck, Check, workerVars
<1>1. CASE \/ GetVateams \/ Login \/ Publish("change_status")
           \/ ChangeStatus("check_vateam") \/ CheckVateam("get_availability")
           \/ GetAvailability("new_session")
  BY <1>1
     DEF GetVateams, Login, LoginOk, Publish, PublishSession, ChangeStatus,
         CheckVateam, SessionRequest, GetAvailability
<1>2. CASE CallIV
  BY <1>2
     DEF CallIV, NewSession, CapturePin, StartCall, ResetBridged, PlaceCall
<1>3. CASE AttendLead
  BY <1>3
     DEF AttendLead, WaitCall, WaitBridged, WaitTimeout, BridgedCheck,
         OpenSession, OpenSessionOk, openFrame, OpenSessionFails, CaptureLead,
         ForgetLeadAndPin, ForgetLead, SetResult
<1>4. CASE \/ Check("logout_check", "clear") \/ Clear \/ Logout("getvateams")
           \/ StopAlives
  BY <1>4 DEF Clear, ClearSession, Logout, LogoutRequest, StopAlives
<1>5. QED
  BY <1>1, <1>2, <1>3, <1>4

(***************************************************************************)
(* The sequence thread arrives, creates the alive thread, leaves, or does  *)
(* its work in between.                                                    *)
(***************************************************************************)
LEMMA SequenceOfObject ==
  ASSUME IInv, Sequence
  PROVE  Object!Next \/ UNCHANGED Object!vars
<1> USE DEF Object!Next, ThreadPhase, AlivesPhase, SequenceOver, WorkerOver
<1>1. CASE StartSequence
  <2>1. Object!Arrive
    BY <1>1 DEF StartSequence, Start, Goto, workerVars, lmVars, Object!Arrive
  <2>2. QED
    BY <2>1
<1>2. CASE LookupGuids \/ CreateSeed("getvateams") \/ JoinAlive
  <2>1. CASE Throw("lookup") \/ Throw("create_seed")
    <3>1. worker = "none"
      BY <2>1 DEF IInv, ThreadInv, Throw, Goto
    <3>2. Object!Leave
      BY <2>1, <3>1 DEF Throw, Goto, workerVars, lmVars, Object!Leave
    <3>3. QED
      BY <3>2
  <2>2. CASE Move("lookup", "create_seed")
    BY <2>2 DEF Move, Goto, workerVars, Object!Work
  <2>3. CASE SpawnAliveThread("create_seed", "getvateams")
    <3>1. worker = "none"
      BY <2>3 DEF IInv, ThreadInv, SpawnAliveThread, Goto
    <3>2. Object!SpawnAlives
      BY <2>3, <3>1 DEF SpawnAliveThread, Goto, lmVars, Object!SpawnAlives
    <3>3. QED
      BY <3>2
  <2>4. CASE JoinAlive
    <3>1. Object!Leave
      BY <2>4 DEF JoinAlive, Goto, workerVars, lmVars, Object!Leave
    <3>2. QED
      BY <3>1
  <2>5. QED
    BY <1>2, <2>1, <2>2, <2>3, <2>4 DEF LookupGuids, CreateSeed
<1>3. CASE Staying
  BY <1>3 DEF Staying, Object!Work
<1>4. QED
  BY <1>1, <1>2, <1>3, SequenceStays DEF Sequence, BecomeAvailable, LeaveRound

(***************************************************************************)
(* The alive thread works between its creation and its end, and then the   *)
(* sequence thread has arrived and not left.                               *)
(***************************************************************************)
LEMMA WorkerOfObject ==
  ASSUME IInv, AliveWorker
  PROVE  Object!Next
<1>1. /\ worker \notin {"none", "done"}
      /\ worker' # "none"
      /\ sequence' = sequence
  BY DEF AliveWorker, AliveCopyLead, AliveCopySession, AliveRound, AliveCheck,
         AliveLock, AliveNoSession, AliveUnlock, AliveCheckAgain, AliveLmLead,
         AliveLmOk, AliveLmFails, AliveGari, AliveReadSession,
         AliveReadSessionUser, AliveGariFails, AliveFlagOk, AliveFlagFails,
         AfterGari, workerFrame, sequenceVars
<1>2. sequence \notin {"start", "ended", "threw"}
  BY <1>1 DEF IInv, ThreadInv, SequenceOver, WorkerOver
<1> USE DEF ThreadPhase, AlivesPhase, SequenceOver, Object!Next
<1>3. CASE worker' = "done"
  <2>1. Object!EndAlives
    BY <1>1, <1>2, <1>3 DEF Object!EndAlives
  <2>2. QED
    BY <2>1
<1>4. CASE worker' # "done"
  <2>1. Object!Work
    BY <1>1, <1>2, <1>4 DEF Object!Work
  <2>2. QED
    BY <2>1
<1>5. QED
  BY <1>3, <1>4

(***************************************************************************)
(* The threads of the workflow keep the promise main() relies on when it   *)
(* joins the workflow and deletes it.                                      *)
(***************************************************************************)
THEOREM ObjectLife == Spec => ImplementsWorkflowObject
<1>1. Init_IV => Object!Init
  BY DEF Init_IV, LeadInit, Init, Object!Init, ThreadPhase, AlivesPhase
<1>2. IInv /\ [NextIV]_ivVars => [Object!Next]_(Object!vars)
  <2> SUFFICES ASSUME IInv, [NextIV]_ivVars
               PROVE  Object!Next \/ UNCHANGED Object!vars
    OBVIOUS
  <2>1. CASE Sequence
    BY <2>1, SequenceOfObject
  <2>2. CASE AliveWorker
    BY <2>2, WorkerOfObject
  <2>3. CASE \/ (TwilioRequest \/ TwilioEvent \/ Terminate \/ Finish)
                /\ UNCHANGED pinVars
             \/ UNCHANGED ivVars
    <3>1. UNCHANGED <<sequence, worker, lm_request>>
      BY <2>3
         DEF TwilioRequest, TwilioUserCall, TwilioEvent, Called,
             BridgeChannel, ForeignBridge, StoreBridged, Hangup, Terminate,
             TerminateProcess, Finish, Finished, ivVars, allVars, vars,
             sequenceVars, workerVars, lmVars
    <3>2. QED
      BY <3>1 DEF Object!vars, ThreadPhase, AlivesPhase, SequenceOver
  <2>4. QED
    BY <2>1, <2>2, <2>3 DEF NextIV
<1>3. QED
  BY <1>1, <1>2, Invariance, PTL
     DEF Spec, ImplementsWorkflowObject, Object!Spec

(***************************************************************************)
(* When sequence() has returned, its alive thread is over.                 *)
(***************************************************************************)
THEOREM WorkerJoined == Spec => []NoOrphanWorker
<1>1. IInv => NoOrphanWorker
  BY DEF IInv, ThreadInv, NoOrphanWorker
<1>2. QED
  BY <1>1, Invariance, PTL

(***************************************************************************)
(* An alive thread that is over does not hold the mutex.                   *)
(***************************************************************************)
THEOREM MutexIsReleased == Spec => []MutexReleased
<1>1. IInv => MutexReleased
  BY DEF IInv, MutexInv, TypeOK, MembersOK, WorkerOver, MutexReleased, Holding
<1>2. QED
  BY <1>1, Invariance, PTL
=============================================================================
