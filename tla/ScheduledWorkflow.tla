--------------------------- MODULE ScheduledWorkflow ---------------------------
(***************************************************************************)
(* src/src/workflows/ScheduledWorkflow.cpp: a customer of the landing page *)
(* asks to be called back before the agent logs in; LM launches the call   *)
(* when the agent becomes available.  The room Gari keeps for the lead is  *)
(* not named by the lead but by its session, which the response to the     *)
(* agent's open session carries.                                           *)
(***************************************************************************)
EXTENDS LeadWorkflow

VARIABLES
  lead_session_guid,  \* _lead_session_guid, as the lead it is the session of
  return_session      \* the session in the response to open session

sessionVars   == <<lead_session_guid, return_session>>
scheduledVars == <<allVars, sessionVars>>

SequenceLocation ==
  {"start", "lookup", "create_seed", "request_check", "request_lead",
   "getvateams", "login", "publish", "check_vateam",
   "busy", "change_status", "reset_bridged", "wait", "bridged_check",
   "open_session", "capture_lead", "result_check", "forget_lead",
   "set_result", "logout_check", "clear", "logout", "stop_alives", "join",
   "ended", "threw"}

ScheduledInit ==
  /\ LeadInit
  /\ lead_session_guid = NoLead
  /\ return_session = NoLead

-----------------------------------------------------------------------------
(* The sequence thread. *)

(***************************************************************************)
(* The lead is scheduled for now with a new phone: events of the previous  *)
(* phone no longer match.                                                  *)
(***************************************************************************)
RequestLead ==
  /\ Move("request_lead", "getvateams") \/ Break("request_lead")
  /\ pbx_events' = {}
  /\ UNCHANGED <<leadDataVars, call_bridged, channel, handler>>

(***************************************************************************)
(* change_status to busy; unlike the next one it launches nothing.         *)
(***************************************************************************)
ChangeToBusy ==
  StopCheck("busy") \/ SessionRequest("busy", "change_status", "change_status")

LogIn ==
  \/ /\ \/ StartSequence \/ LookupGuids \/ CreateSeed("request_check")
        \/ Check("request_check", "request_lead")
        \/ GetVateams \/ Login \/ Publish("check_vateam")
        \/ CheckVateam("busy") \/ ChangeToBusy
     /\ UNCHANGED leadVars
  \/ RequestLead

(***************************************************************************)
(* The agent becomes available and LM launches the scheduled lead: PBX may *)
(* call and bridge both parties from here on.                              *)
(***************************************************************************)
ChangeToAvailable ==
  /\ ChangeStatus("reset_bridged")
  /\ pbx_events' = IF process_can_continue THEN CallEvents ELSE pbx_events
  /\ UNCHANGED <<leadDataVars, call_bridged, channel, handler>>

(***************************************************************************)
(* LM opens lead l; its guid and its session may each be missing from the  *)
(* response.                                                               *)
(***************************************************************************)
OpenScheduled ==
  \/ /\ Goto("open_session", "capture_lead")
     /\ \E l \in Lead \ lm_leads :
          /\ local_lead_guid' \in {l, NoLead}
          /\ return_session' \in {l, NoLead}
          /\ lm_leads' = lm_leads \cup {l}
     /\ lm_request' = Request("open_session", session_guid)
     /\ UNCHANGED <<openFrame, lead_guid, lead_guid_local, gari_user_guid,
                    callVars, lead_session_guid>>
  \/ OpenSessionFails /\ UNCHANGED sessionVars

CaptureLeadAndSession ==
  /\ CaptureLead("result_check")
  /\ lead_session_guid' = return_session
  /\ UNCHANGED return_session

\* a bug: the session is not cleared with its lead
ForgetLeadKeepSession == ForgetLead /\ UNCHANGED sessionVars

ForgetLeadAndSession ==
  /\ ForgetLead
  /\ lead_session_guid' = NoLead
  /\ UNCHANGED return_session

AttendLead ==
  \/ /\ \/ ChangeToAvailable \/ ResetBridged("wait") \/ WaitCall
        \/ BridgedCheck
        \/ Check("result_check", "forget_lead") /\ UNCHANGED leadVars
        \/ SetResult
     /\ UNCHANGED sessionVars
  \/ OpenScheduled \/ CaptureLeadAndSession \/ ForgetLeadAndSession

LeaveRound ==
  /\ \/ Check("logout_check", "clear") \/ Clear \/ Logout("request_check")
     \/ StopAlives \/ JoinAlive
  /\ UNCHANGED leadVars

Sequence == \/ (LogIn \/ LeaveRound) /\ UNCHANGED sessionVars
            \/ AttendLead

-----------------------------------------------------------------------------

(***************************************************************************)
(* alive_gari() reads the room named by _lead_session_guid, which is not   *)
(* copied: the mutex is held.                                              *)
(***************************************************************************)
AliveWorker ==
  LeadAliveWorker(lead_session_guid, "unlock") /\ UNCHANGED sessionVars

NextScheduled ==
  \/ Sequence
  \/ AliveWorker
  \/ /\ TwilioUserCall \/ TwilioEvent \/ Terminate \/ Finish
     /\ UNCHANGED sessionVars

Spec == ScheduledInit /\ [][NextScheduled]_scheduledVars

-----------------------------------------------------------------------------
(* The members of the workflow stay within their types. *)
TypeOK ==
  /\ MembersOK
  /\ LeadMembersOK
  /\ CallMembersOK
  /\ sequence \in SequenceLocation
  /\ worker \in WorkerLocation \cup {"alive_gari"}
  /\ {lead_session_guid, return_session} \subseteq Lead \cup {NoLead}

(***************************************************************************)
(* Gari is read for the room of a lead whose result was not requested yet, *)
(* as a user that very room issued, although the id and the name of the    *)
(* room are kept apart.                                                    *)
(***************************************************************************)
ReadsRoomOfOpenLead ==
  worker = "alive_gari" =>
    /\ lead_session_guid \in lm_leads
    /\ gari_user_guid \in {NoLead, lead_session_guid}

(***************************************************************************)
(* LM sees both threads as one well-behaved agent: at most one session,    *)
(* and no request of a session outside its login and its logout.           *)
(***************************************************************************)
LmAgent == INSTANCE AgentSession WITH
  open <- lm_sessions, request <- lm_request,
  Operation <- {"change_status", "check_vateam", "open_session", "alive"}

ImplementsAgentSession == LmAgent!Spec

(***************************************************************************)
(* "Wait for scheduled lead to be launched" (ScheduledWorkflow.cpp:214):   *)
(* the flag dropped before the wait is never that of the lead waited for.  *)
(***************************************************************************)
NoLaunchForgotten ==
  [][sequence = "reset_bridged" /\ sequence' = "wait"
       => ~(call_bridged /\ Bridged(channel))]_scheduledVars
=============================================================================
