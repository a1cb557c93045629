----------------------------- MODULE LeadWorkflow -----------------------------
(***************************************************************************)
(* What the workflows that attend a lead (CMN, IV, Inbound, Scheduled) add *)
(* to Workflow: the lead the sequence publishes to its alive thread, the   *)
(* user id Gari gave the agent in the lead's room, and the call whose      *)
(* progress the Twilio handler reports to the sequence.                    *)
(*                                                                         *)
(* Outside the program: LM's open leads, the events PBX still owes for the *)
(* call of this workflow, and CallChannel, of which only this is used: a   *)
(* channel is called once, and bridged only after it was called.           *)
(***************************************************************************)
EXTENDS Workflow

CONSTANTS
  Lead,     \* lead guids; a room of Gari is named by its lead
  NoLead    \* the empty _lead_guid

ASSUME LeadAssumption == NoLead \notin Lead

VARIABLES
  lead_guid,        \* _lead_guid
  local_lead_guid,  \* local of sequence()
  lead_guid_local,  \* local of alive_worker()
  gari_user_guid,   \* _gari_user_guid: the room that issued it, NoLead for 0
  lm_leads,         \* external: leads LM opened and got no result for yet
  call_bridged,     \* _call_bridged
  channel,          \* _call: status of its user and agent channels
  handler,          \* location of the Twilio handler thread
  pbx_events        \* external: events of the current call still to come

Channel == {"user", "agent"}
Silent == [c \in Channel |-> "no_call"]
CallEvents == {"user_call", "agent_call", "user_bridge", "agent_bridge"}

leadDataVars == <<lead_guid, local_lead_guid, lead_guid_local, gari_user_guid,
                  lm_leads>>
callVars == <<call_bridged, channel, handler, pbx_events>>
leadVars == <<leadDataVars, callVars>>
allVars  == <<vars, leadVars>>

LeadInit ==
  /\ Init
  /\ lead_guid = NoLead
  /\ local_lead_guid = NoLead
  /\ lead_guid_local = NoLead
  /\ gari_user_guid = NoLead
  /\ lm_leads = {}
  /\ call_bridged = FALSE
  /\ channel = Silent
  /\ handler = "idle"
  /\ pbx_events = {}

-----------------------------------------------------------------------------
(* Steps of the sequence thread. *)

(***************************************************************************)
(* The bridged flag of the previous call is dropped.                       *)
(***************************************************************************)
ResetBridged(next) ==
  /\ Move("reset_bridged", next)
  /\ call_bridged' = FALSE
  /\ UNCHANGED <<leadDataVars, channel, handler, pbx_events>>

StartCall(next) ==
  \/ StopCheck("reset_bridged") /\ UNCHANGED leadVars
  \/ process_can_continue /\ ResetBridged(next)

(***************************************************************************)
(* A new random customer phone is called: from here on the events of that  *)
(* call may come, and those of an earlier phone no longer match.           *)
(***************************************************************************)
PlaceCall(from, to) ==
  /\ Move(from, to)
  /\ pbx_events' = CallEvents
  /\ UNCHANGED <<leadDataVars, call_bridged, channel, handler>>

(***************************************************************************)
(* The polling loop ends when the flag is seen or after _polling_check_max *)
(* and never looks at process_can_continue.                                *)
(***************************************************************************)
WaitBridged ==
  /\ call_bridged
  /\ Move("wait", "bridged_check")
  /\ UNCHANGED leadVars

WaitTimeout ==
  /\ ~call_bridged
  /\ Move("wait", "bridged_check")
  /\ UNCHANGED leadVars

WaitCall == WaitBridged \/ WaitTimeout

(***************************************************************************)
(* The flag is read again after the loop.                                  *)
(***************************************************************************)
BridgedCheck ==
  \/ /\ call_bridged
     /\ Move("bridged_check", "open_session")
     /\ channel' = Silent
     /\ UNCHANGED <<leadDataVars, call_bridged, handler, pbx_events>>
  \/ /\ ~call_bridged
     /\ Break("bridged_check")
     /\ UNCHANGED leadVars

(***************************************************************************)
(* desktop_open_session for the customer's phone.  A good response may     *)
(* still carry no lead: then l is NoLead.                                  *)
(***************************************************************************)
openFrame == <<process_can_continue, workflow_running, local_session_guid,
               workerVars, alive_can_continue, session_guid, lm_sessions>>

OpenSessionOk(l) ==
  /\ Goto("open_session", "capture_lead")
  /\ l \notin lm_leads
  /\ local_lead_guid' = l
  /\ lm_leads' = lm_leads \cup ({l} \ {NoLead})
  /\ lm_request' = Request("open_session", session_guid)
  /\ UNCHANGED <<openFrame, lead_guid, lead_guid_local, gari_user_guid,
                 callVars>>

OpenSessionFails ==
  /\ Goto("open_session", "stop_alives")
  /\ lm_request' = Request("open_session", session_guid)
  /\ UNCHANGED <<openFrame, leadVars>>

\* a bug: a refused open session starts the next round, still logged in
OpenSessionContinues ==
  \/ \E l \in Lead \cup {NoLead} : OpenSessionOk(l)
  \/ Move("open_session", "getvateams") /\ UNCHANGED leadVars

OpenSession ==
  \/ \E l \in Lead \cup {NoLead} : OpenSessionOk(l)
  \/ OpenSessionFails

(***************************************************************************)
(* One critical section; its break releases the mutex.                     *)
(***************************************************************************)
CaptureLead(next) ==
  /\ session_mutex = "free"
  /\ Move("capture_lead",
          IF local_lead_guid = NoLead THEN "stop_alives" ELSE next)
  /\ lead_guid' = local_lead_guid
  /\ UNCHANGED <<local_lead_guid, lead_guid_local, gari_user_guid, lm_leads,
                 callVars>>

\* a bug: the user id of the last room outlives its lead
ForgetLeadOnly ==
  /\ session_mutex = "free"
  /\ Move("forget_lead", "set_result")
  /\ lead_guid' = NoLead
  /\ UNCHANGED <<local_lead_guid, lead_guid_local, gari_user_guid, lm_leads,
                 callVars>>

\* a bug: the alive thread is not told that the lead is over
KeepLead == Move("forget_lead", "set_result") /\ UNCHANGED leadVars

ForgetLead ==
  /\ session_mutex = "free"
  /\ Move("forget_lead", "set_result")
  /\ lead_guid' = NoLead
  /\ gari_user_guid' = NoLead
  /\ UNCHANGED <<local_lead_guid, lead_guid_local, lm_leads, callVars>>

SetResult ==
  /\ Move("set_result", "logout_check") \/ Break("set_result")
  /\ lm_leads' = lm_leads \ {local_lead_guid}
  /\ UNCHANGED <<lead_guid, local_lead_guid, lead_guid_local, gari_user_guid,
                 callVars>>

-----------------------------------------------------------------------------
(* Steps of the alive thread.  room is what Gari is read for, if anything, *)
(* and next where the thread goes when that is done.                       *)

AliveCopyLead ==
  /\ AliveCopySession
  /\ lead_guid_local' = lead_guid
  /\ UNCHANGED <<lead_guid, local_lead_guid, gari_user_guid, lm_leads,
                 callVars>>

AliveLmLead(room, next) ==
  /\ \/ AliveLmOk(IF room = NoLead THEN next ELSE "alive_gari")
     \/ AliveLmFails
  /\ UNCHANGED leadVars

(***************************************************************************)
(* The user id is 0: request_read_session asks the room for one and keeps  *)
(* it if the response has it.                                              *)
(***************************************************************************)
AliveReadSession(room, next) ==
  /\ worker = "alive_gari"
  /\ gari_user_guid = NoLead
  /\ worker' = next
  /\ gari_user_guid' \in {room, NoLead}
  /\ UNCHANGED <<workerFrame, session_mutex, session_guid_local, lmVars,
                 lead_guid, local_lead_guid, lead_guid_local, lm_leads,
                 callVars>>

(***************************************************************************)
(* request_read_session_user reads the room as the user id already known.  *)
(***************************************************************************)
AliveReadSessionUser(next) ==
  /\ worker = "alive_gari"
  /\ gari_user_guid # NoLead
  /\ worker' = next
  /\ UNCHANGED <<workerFrame, session_mutex, session_guid_local, lmVars,
                 leadVars>>

AliveGariFails ==
  /\ worker = "alive_gari"
  /\ worker' = "done"
  /\ session_mutex' = "free"
  /\ UNCHANGED <<workerFrame, session_guid_local, lmVars, leadVars>>

AliveGari(room, next) ==
  \/ AliveReadSession(room, next)
  \/ AliveReadSessionUser(next)
  \/ AliveGariFails

AliveRound(room, next) ==
  \/ /\ \/ AliveCheck \/ AliveLock \/ AliveNoSession \/ AliveUnlock
        \/ AliveCheckAgain
     /\ UNCHANGED leadVars
  \/ AliveLmLead(room, next)
  \/ AliveGari(room, next)

LeadAliveWorker(room, next) == AliveCopyLead \/ AliveRound(room, next)

-----------------------------------------------------------------------------
(* Steps of the Twilio handler, which runs on a thread of TwilioMockup.    *)
(* After a signal the handler of main.cpp drops what comes, so a new event *)
(* needs process_can_continue.                                             *)

Event(e) == e \in pbx_events /\ pbx_events' = pbx_events \ {e}

Called(c) ==
  /\ channel' = [channel EXCEPT ![c] = IF @ = "no_call" THEN "called" ELSE @]
  /\ UNCHANGED <<vars, leadDataVars, call_bridged, handler>>

(***************************************************************************)
(* A channel without a call has an empty Twilio session, and an empty      *)
(* session is found in every url: as long as the user was not called, any  *)
(* bridge event is taken for his and bridges nothing.                      *)
(***************************************************************************)
Matched(c) == IF channel["user"] = "no_call" THEN "user" ELSE c

\* a bug: one bridged channel is taken for a bridged call
BridgedEither(chan) == \E c \in Channel : chan[c] = "bridged"

Bridged(chan) == \A c \in Channel : chan[c] = "bridged"

BridgeChannel(c) ==
  /\ channel' = [channel EXCEPT
                   ![Matched(c)] = IF @ = "called" THEN "bridged" ELSE @]
  /\ handler' = IF Bridged(channel') THEN "store" ELSE "idle"
  /\ UNCHANGED <<vars, leadDataVars, call_bridged>>

(***************************************************************************)
(* A bridge event of another workflow's call reaches this one too: no      *)
(* channel changes, but is_call_agent_user_bridged() is asked.             *)
(***************************************************************************)
ForeignBridge ==
  /\ handler = "idle"
  /\ Bridged(channel)
  /\ handler' = "store"
  /\ UNCHANGED <<vars, leadDataVars, call_bridged, channel, pbx_events>>

(***************************************************************************)
(* Both channels were seen bridged; now _call_bridged is set.              *)
(***************************************************************************)
StoreBridged ==
  /\ handler = "store"
  /\ handler' = "idle"
  /\ call_bridged' = TRUE
  /\ UNCHANGED <<vars, leadDataVars, channel, pbx_events>>

(***************************************************************************)
(* Any hangup, of whatever call, drops the flag.                           *)
(***************************************************************************)
Hangup ==
  /\ handler = "idle"
  /\ call_bridged
  /\ call_bridged' = FALSE
  /\ UNCHANGED <<vars, leadDataVars, channel, handler, pbx_events>>

(***************************************************************************)
(* The customer's channel was called: Inbound and IV learn it from the     *)
(* response of twilio_request(), CMN and Scheduled from twilio_event().    *)
(***************************************************************************)
TwilioUserCall ==
  /\ process_can_continue
  /\ handler = "idle"
  /\ Event("user_call")
  /\ Called("user")

TwilioEvent ==
  \/ /\ process_can_continue
     /\ handler = "idle"
     /\ \/ Event("agent_call") /\ Called("agent")
        \/ Event("user_bridge") /\ BridgeChannel("user")
        \/ Event("agent_bridge") /\ BridgeChannel("agent")
        \/ ForeignBridge
        \/ Hangup
  \/ StoreBridged

Terminate == TerminateProcess /\ UNCHANGED leadVars
Finish == Finished /\ UNCHANGED leadVars

-----------------------------------------------------------------------------
(* The members of the lead and of the call, for the type invariants of the *)
(* workflows.                                                              *)
LeadMembersOK ==
  /\ lead_guid \in Lead \cup {NoLead}
  /\ local_lead_guid \in Lead \cup {NoLead}
  /\ lead_guid_local \in Lead \cup {NoLead}
  /\ gari_user_guid \in Lead \cup {NoLead}
  /\ lm_leads \in SUBSET Lead

CallMembersOK ==
  /\ call_bridged \in BOOLEAN
  /\ channel \in [Channel -> {"no_call", "called", "bridged"}]
  /\ handler \in {"idle", "store"}
  /\ pbx_events \in SUBSET CallEvents

(***************************************************************************)
(* Alives of alive_worker() name a session that was not yet asked to log   *)
(* out and a lead whose result was not yet requested, and Gari is read for *)
(* such a lead only.                                                       *)
(***************************************************************************)
AliveOnOpenLead ==
  worker \in {"alive_lm", "alive_gari"} =>
    /\ session_guid_local \in lm_sessions
    /\ lead_guid_local \in lm_leads \cup {NoLead}

(***************************************************************************)
(* A user id that one room of Gari issued is never used to read another:   *)
(* the id alive_gari() keeps across alives goes with the lead.             *)
(***************************************************************************)
GariUserOfRoom ==
  worker = "alive_gari" => gari_user_guid \in {NoLead, lead_guid_local}

(***************************************************************************)
(* "Wait for call to be bridged" (CMNWorkflow.cpp:231, and the same line   *)
(* in the other workflows): the sequence goes on only when both channels   *)
(* of the current call are bridged.                                        *)
(***************************************************************************)
WaitsForBridge ==
  [][sequence = "bridged_check" /\ sequence' = "open_session"
       => channel = [c \in Channel |-> "bridged"]]_allVars
=============================================================================
