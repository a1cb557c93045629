------------------------------ MODULE CMNWorkflow ------------------------------
(***************************************************************************)
(* src/src/workflows/CMNWorkflow.cpp ("call me now"): the agent becomes    *)
(* available, a customer of the landing page asks to be called, and the    *)
(* agent attends him.  Unlike Inbound, the lead is known, published and    *)
(* kept alive before its call is bridged, and there is a single round.     *)
(***************************************************************************)
EXTENDS LeadWorkflow

SequenceLocation ==
  {"start", "lookup", "create_seed", "getvateams", "login", "publish",
   "change_status", "check_vateam", "get_availability", "reset_bridged",
   "request_lead", "capture_lead", "wait_check", "wait", "bridged_check",
   "open_session", "update_check", "update_room", "result_check",
   "forget_lead", "set_result", "logout_check", "clear", "logout",
   "stop_alives", "join", "ended", "threw"}

-----------------------------------------------------------------------------
(* The sequence thread. *)

BecomeAvailable ==
  /\ \/ StartSequence \/ LookupGuids \/ CreateSeed("getvateams")
     \/ GetVateams \/ Login \/ Publish("change_status")
     \/ ChangeStatus("check_vateam") \/ CheckVateam("get_availability")
     \/ GetAvailability("reset_bridged")
  /\ UNCHANGED leadVars

(***************************************************************************)
(* A request with a new phone: LM opens a lead and has PBX call both       *)
(* parties.  A good response may still carry no lead: then l is NoLead.    *)
(***************************************************************************)
RequestLead ==
  \/ /\ Move("request_lead", "capture_lead")
     /\ \E l \in (Lead \cup {NoLead}) \ lm_leads :
          /\ local_lead_guid' = l
          /\ lm_leads' = lm_leads \cup ({l} \ {NoLead})
     /\ pbx_events' = CallEvents
     /\ UNCHANGED <<lead_guid, lead_guid_local, gari_user_guid, call_bridged,
                    channel, handler>>
  \/ Break("request_lead") /\ UNCHANGED leadVars

AwaitCall ==
  \/ StartCall("request_lead") \/ RequestLead \/ CaptureLead("wait_check")
  \/ Check("wait_check", "wait") /\ UNCHANGED leadVars
  \/ WaitCall \/ BridgedCheck

(***************************************************************************)
(* The lead is known already: nothing is taken from the response.          *)
(***************************************************************************)
OpenSessionOfLead ==
  /\ sequence = "open_session"
  /\ sequence' \in {"update_check", "stop_alives"}
  /\ lm_request' = Request("open_session", session_guid)
  /\ UNCHANGED <<openFrame, leadVars>>

(***************************************************************************)
(* The update of the room is sent as whatever user _gari_user_guid holds   *)
(* (0 if the alive thread has not got one yet), and its failure is         *)
(* ignored.                                                                *)
(***************************************************************************)
UpdateRoom == Move("update_room", "result_check")

AttendLead ==
  \/ OpenSessionOfLead
  \/ /\ \/ Check("update_check", "update_room") \/ UpdateRoom
        \/ Check("result_check", "forget_lead")
     /\ UNCHANGED leadVars
  \/ ForgetLead \/ SetResult

(***************************************************************************)
(* "Single iteration enabled": the loop is left after the logout.          *)
(***************************************************************************)
LeaveRound ==
  /\ \/ Check("logout_check", "clear") \/ Clear \/ Logout("stop_alives")
     \/ StopAlives \/ JoinAlive
  /\ UNCHANGED leadVars

Sequence == BecomeAvailable \/ AwaitCall \/ AttendLead \/ LeaveRound

-----------------------------------------------------------------------------

AliveWorker == LeadAliveWorker(lead_guid_local, "unlock")

(***************************************************************************)
(* twilio_event() learns of both channels.                                 *)
(***************************************************************************)
TwilioHandler == TwilioUserCall \/ TwilioEvent

NextCMN == Sequence \/ AliveWorker \/ TwilioHandler \/ Terminate \/ Finish

Spec == LeadInit /\ [][NextCMN]_allVars

(***************************************************************************)
(* As in AgentWorkflow: every request returns, the polling loop of the     *)
(* call times out, and the alive thread sleeps outside the mutex, so that  *)
(* the critical sections of the sequence are not overtaken for ever.       *)
(* Nothing is assumed of Twilio.                                           *)
(***************************************************************************)
FairSpec == Spec /\ SF_allVars(Sequence) /\ WF_allVars(AliveWorker)

-----------------------------------------------------------------------------
(* The members of the workflow stay within their types. *)
TypeOK ==
  /\ MembersOK
  /\ LeadMembersOK
  /\ CallMembersOK
  /\ sequence \in SequenceLocation
  /\ worker \in WorkerLocation \cup {"alive_gari"}

(***************************************************************************)
(* LM sees both threads as one well-behaved agent: at most one session,    *)
(* and no request of a session outside its login and its logout.           *)
(***************************************************************************)
LmAgent == INSTANCE AgentSession WITH
  open <- lm_sessions, request <- lm_request,
  Operation <- {"change_status", "check_vateam", "open_session", "alive"}

ImplementsAgentSession == LmAgent!Spec
=============================================================================
