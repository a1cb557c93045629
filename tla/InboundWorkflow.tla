---------------------------- MODULE InboundWorkflow ----------------------------
(***************************************************************************)
(* src/src/workflows/InboundWorkflow.cpp: the agent logs in and becomes    *)
(* available, a customer calls in through the mocked Twilio, the agent     *)
(* attends the lead the call opens and logs out; for ever.                 *)
(***************************************************************************)
EXTENDS LeadWorkflow

SequenceLocation ==
  {"start", "lookup", "create_seed", "getvateams", "login", "publish",
   "change_status", "check_vateam", "get_availability", "reset_bridged",
   "call", "wait", "bridged_check", "open_session", "capture_lead",
   "result_check", "forget_lead", "set_result", "logout_check", "clear",
   "logout", "stop_alives", "join", "ended", "threw"}

-----------------------------------------------------------------------------
(* The sequence thread. *)

BecomeAvailable ==
  /\ \/ StartSequence \/ LookupGuids \/ CreateSeed("getvateams")
     \/ GetVateams \/ Login \/ Publish("change_status")
     \/ ChangeStatus("check_vateam") \/ CheckVateam("get_availability")
     \/ GetAvailability("reset_bridged")
  /\ UNCHANGED leadVars

(***************************************************************************)
(* A customer calls in: the call is mocked by the program itself.          *)
(***************************************************************************)
CallInbound == StartCall("call") \/ PlaceCall("call", "wait")

AttendLead ==
  \/ WaitCall \/ BridgedCheck \/ OpenSession \/ CaptureLead("result_check")
  \/ Check("result_check", "forget_lead") /\ UNCHANGED leadVars
  \/ ForgetLead \/ SetResult

LeaveRound ==
  /\ \/ Check("logout_check", "clear") \/ Clear \/ Logout("getvateams")
     \/ StopAlives \/ JoinAlive
  /\ UNCHANGED leadVars

Sequence == BecomeAvailable \/ CallInbound \/ AttendLead \/ LeaveRound

-----------------------------------------------------------------------------

AliveWorker == LeadAliveWorker(lead_guid_local, "unlock")

(***************************************************************************)
(* twilio_request(): the customer's call was accepted.                     *)
(***************************************************************************)
TwilioRequest == TwilioUserCall

NextInbound == \/ Sequence \/ AliveWorker \/ TwilioRequest \/ TwilioEvent
               \/ Terminate \/ Finish

Spec == LeadInit /\ [][NextInbound]_allVars

-----------------------------------------------------------------------------
(* The members of the workflow stay within their types. *)
TypeOK ==
  /\ MembersOK
  /\ LeadMembersOK
  /\ CallMembersOK
  /\ sequence \in SequenceLocation
  /\ worker \in WorkerLocation \cup {"alive_gari"}

(***************************************************************************)
(* LM sees both threads as one well-behaved agent: at most one session,    *)
(* and no request of a session outside its login and its logout.           *)
(***************************************************************************)
LmAgent == INSTANCE AgentSession WITH
  open <- lm_sessions, request <- lm_request,
  Operation <- {"change_status", "check_vateam", "open_session", "alive"}

ImplementsAgentSession == LmAgent!Spec
=============================================================================
