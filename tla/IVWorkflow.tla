------------------------------- MODULE IVWorkflow -------------------------------
(***************************************************************************)
(* src/src/workflows/IVWorkflow.cpp ("interactive video"): the landing     *)
(* page hands out a PIN, the customer calls in with it, and the agent      *)
(* attends the lead the call opens.  Until the lead is over the alive      *)
(* thread flags the PIN as in use.                                         *)
(***************************************************************************)
EXTENDS LeadWorkflow

CONSTANTS
  Pin,     \* the PINs LM hands out
  NoPin    \* the empty _pin

ASSUME PinAssumption == NoPin \notin Pin

VARIABLES
  pin,         \* _pin
  return_pin,  \* the PIN in the last response to the sequence
  pin_local,   \* local of alive_worker()
  lm_pins      \* external: PINs of a round whose result was not requested yet

pinVars == <<pin, return_pin, pin_local, lm_pins>>
ivVars  == <<allVars, pinVars>>

SequenceLocation ==
  {"start", "lookup", "create_seed", "getvateams", "login", "publish",
   "change_status", "check_vateam", "get_availability", "new_session",
   "capture_pin", "reset_bridged", "call", "wait", "bridged_check",
   "open_session", "capture_lead", "result_check", "forget_lead",
   "set_result", "logout_check", "clear", "logout", "stop_alives", "join",
   "ended", "threw"}

Init_IV ==
  /\ LeadInit
  /\ pin = NoPin
  /\ return_pin = NoPin
  /\ pin_local = NoPin
  /\ lm_pins = {}

-----------------------------------------------------------------------------
(* The sequence thread. *)

BecomeAvailable ==
  /\ \/ StartSequence \/ LookupGuids \/ CreateSeed("getvateams")
     \/ GetVateams \/ Login \/ Publish("change_status")
     \/ ChangeStatus("check_vateam") \/ CheckVateam("get_availability")
     \/ GetAvailability("new_session")
  /\ UNCHANGED <<leadVars, pinVars>>

(***************************************************************************)
(* A stop or a refused request breaks.  A good response may carry no PIN:  *)
(* then it is NoPin.                                                       *)
(***************************************************************************)
NewSession ==
  /\ \/ /\ Break("new_session")
        /\ UNCHANGED <<return_pin, lm_pins>>
     \/ /\ process_can_continue
        /\ Move("new_session", "capture_pin")
        /\ return_pin' \in (Pin \cup {NoPin}) \ lm_pins
        /\ lm_pins' = lm_pins \cup ({return_pin'} \ {NoPin})
  /\ UNCHANGED <<leadVars, pin, pin_local>>

(***************************************************************************)
(* One critical section.  Without a PIN in the response _pin keeps what it *)
(* had.                                                                    *)
(***************************************************************************)
CapturePin ==
  /\ session_mutex = "free"
  /\ Move("capture_pin", "reset_bridged")
  /\ pin' = IF return_pin = NoPin THEN pin ELSE return_pin
  /\ UNCHANGED <<leadVars, return_pin, pin_local, lm_pins>>

CallIV ==
  \/ NewSession \/ CapturePin
  \/ /\ StartCall("call") \/ PlaceCall("call", "wait")
     /\ UNCHANGED pinVars

\* a bug: the PIN outlives its lead
ForgetLeadKeepPin == ForgetLead /\ UNCHANGED pinVars

(***************************************************************************)
(* _pin, _lead_guid and _gari_user_guid are cleared in one critical        *)
(* section.                                                                *)
(***************************************************************************)
ForgetLeadAndPin ==
  /\ ForgetLead
  /\ pin' = NoPin
  /\ UNCHANGED <<return_pin, pin_local, lm_pins>>

AttendLead ==
  \/ /\ \/ WaitCall \/ BridgedCheck \/ OpenSession
        \/ CaptureLead("result_check")
        \/ Check("result_check", "forget_lead") /\ UNCHANGED leadVars
     /\ UNCHANGED pinVars
  \/ ForgetLeadAndPin
  \/ /\ SetResult
     /\ lm_pins' = lm_pins \ {return_pin}
     /\ UNCHANGED <<pin, return_pin, pin_local>>

LeaveRound ==
  /\ \/ Check("logout_check", "clear") \/ Clear \/ Logout("getvateams")
     \/ StopAlives \/ JoinAlive
  /\ UNCHANGED <<leadVars, pinVars>>

Sequence == BecomeAvailable \/ CallIV \/ AttendLead \/ LeaveRound

-----------------------------------------------------------------------------
(* The alive thread: after LM and Gari, the flag of the PIN. *)

AfterGari == IF pin_local = NoPin THEN "unlock" ELSE "iv_flag"

AliveFlagOk ==
  /\ worker = "iv_flag"
  /\ worker' = "unlock"
  /\ UNCHANGED <<workerFrame, session_mutex, session_guid_local, lmVars>>

\* a bug: the return leaves the mutex locked
FlagFailsLocked ==
  /\ worker = "iv_flag"
  /\ worker' = "done"
  /\ UNCHANGED <<workerFrame, session_mutex, session_guid_local, lmVars>>

(***************************************************************************)
(* A refused flag returns from alive_worker(); the destructor of its lock  *)
(* releases the mutex.                                                     *)
(***************************************************************************)
AliveFlagFails ==
  /\ worker = "iv_flag"
  /\ worker' = "done"
  /\ session_mutex' = "free"
  /\ UNCHANGED <<workerFrame, session_guid_local, lmVars>>

AliveWorker ==
  \/ /\ AliveCopyLead
     /\ pin_local' = pin
     /\ UNCHANGED <<pin, return_pin, lm_pins>>
  \/ AliveRound(lead_guid, AfterGari) /\ UNCHANGED pinVars
  \/ AliveFlagOk /\ UNCHANGED <<leadVars, pinVars>>
  \/ AliveFlagFails /\ UNCHANGED <<leadVars, pinVars>>

-----------------------------------------------------------------------------

TwilioRequest == TwilioUserCall

NextIV ==
  \/ Sequence
  \/ AliveWorker
  \/ (TwilioRequest \/ TwilioEvent \/ Terminate \/ Finish) /\ UNCHANGED pinVars

Spec == Init_IV /\ [][NextIV]_ivVars

(***************************************************************************)
(* The fairness of CMNWorkflow.                                            *)
(***************************************************************************)
FairSpec == Spec /\ SF_ivVars(Sequence) /\ WF_ivVars(AliveWorker)

-----------------------------------------------------------------------------
(* The members of the workflow stay within their types. *)
TypeOK ==
  /\ MembersOK
  /\ LeadMembersOK
  /\ CallMembersOK
  /\ sequence \in SequenceLocation
  /\ worker \in WorkerLocation \cup {"alive_gari", "iv_flag"}
  /\ {pin, return_pin, pin_local} \subseteq Pin \cup {NoPin}
  /\ lm_pins \in SUBSET Pin

(***************************************************************************)
(* alive_worker() flags a PIN only while its round goes on: not after the  *)
(* result of the lead was requested, though it flags a copy of _pin.       *)
(***************************************************************************)
FlagsPinOfRound == worker = "iv_flag" => pin_local \in lm_pins

(***************************************************************************)
(* A call is placed with the PIN LM just handed out or with none: never    *)
(* with the PIN of an earlier round.                                       *)
(***************************************************************************)
CallsWithOwnPin ==
  [][sequence = "call" /\ sequence' = "wait" => pin = return_pin]_ivVars

(***************************************************************************)
(* LM sees both threads as one well-behaved agent: at most one session,    *)
(* and no request of a session outside its login and its logout.           *)
(***************************************************************************)
LmAgent == INSTANCE AgentSession WITH
  open <- lm_sessions, request <- lm_request,
  Operation <- {"change_status", "check_vateam", "open_session", "alive"}

ImplementsAgentSession == LmAgent!Spec
=============================================================================
