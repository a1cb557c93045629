--------------------------------- MODULE PbxForm -------------------------------
(***************************************************************************)
(* src/delfosclient/src/pbxform.cpp: a call between user, agent and a      *)
(* third party.  Every button but a few starts a detached thread that      *)
(* sends one request and changes the one _call of the form; events of the  *)
(* PBX come in threads of their own.  Nothing is locked: each method of a  *)
(* channel is taken as one step, and the steps of the threads interleave.  *)
(*                                                                         *)
(* CallChannel and Call belong to the core library, which is not part of   *)
(* the repository.  They are modelled by what the form needs of them:      *)
(* call() and bridge() tell whether they are possible and leave a status   *)
(* that pbx_ok() or pbx_ko() resolves, hold() takes channels out of their  *)
(* conference, hangup() leaves a channel that no answer revives.  A        *)
(* request that fails may have been carried out, its reply lost.           *)
(***************************************************************************)
EXTENDS Console

CONSTANT Thread   \* bound: the threads at one time are not more than these

Member == {"user", "agent", "third"}

VARIABLES
  status,       \* _call: the status of each channel
  conference,   \* _current_conference, as the set of its members
  thread,       \* each thread: what it runs and where it stands
  hangups,      \* hangup_channels_signal: signals in the queue
  connected,    \* external: members PBX has called under the call's session
  bridged,      \* external: those of them it has in a conference
  inbound,      \* history: the user of the call called in
  overlapped    \* history: a thread other than a call ran beside another one

pbxFormVars == <<status, conference, thread, hangups, connected, bridged,
                 inbound, overlapped>>
call == <<status, inbound, connected, bridged>>

Free == [runs |-> "nothing", at |-> "free"]

Active == \E t \in Thread : thread[t] # Free

(* A thread that runs this is beside one, and not both are calls. *)
Overlaps(runs) ==
  \E t \in Thread :
    /\ thread[t] # Free
    /\ ~({runs, thread[t].runs} \subseteq Member)

Init_PbxForm ==
  /\ status = [m \in Member |-> "no_call"]
  /\ conference = {"user", "agent"}
  /\ thread = [t \in Thread |-> Free]
  /\ hangups = 0
  /\ connected = {}
  /\ bridged = {}
  /\ inbound = FALSE
  /\ overlapped = FALSE

-----------------------------------------------------------------------------
(* CallChannel. *)

PbxOk(st) ==
  CASE st = "calling"  -> "called_ok"
    [] st = "bridging" -> "bridged_ok"
    [] OTHER           -> st

PbxKo(st) ==
  CASE st = "calling"  -> "no_call"
    [] st = "bridging" -> "called_ok"
    [] OTHER           -> st

Hold(st) == IF st = "bridged_ok" THEN "called_ok" ELSE st

HangUp(st) == IF st = "no_call" THEN st ELSE "hanging_up"

-----------------------------------------------------------------------------
(***************************************************************************)
(* New channels and a new session, of which PBX knows nothing.             *)
(***************************************************************************)
GenerateCall(called_in) ==
  /\ status' = [m \in Member |-> "no_call"]
  /\ inbound' = called_in
  /\ connected' = {}
  /\ bridged' = {}

Spawn(runs, at) ==
  LET free == {t \in Thread : thread[t] = Free}
      new  == CHOOSE t \in free : TRUE
  IN  /\ free # {}
      /\ thread' = [thread EXCEPT ![new] = [runs |-> runs, at |-> at]]

(* The call button of the user; its lines come before the thread. *)
CallUserButton ==
  \/ /\ Begin("callUser", <<>>)
     /\ GenerateCall(FALSE)
     /\ overlapped' = Active
     /\ UNCHANGED <<conference, thread, hangups>>
  \/ /\ Return("callUser", "ask")
     /\ Spawn("user", "call")
     /\ overlapped' = (overlapped \/ Overlaps("user"))
     /\ UNCHANGED <<conference, hangups, call>>
  \/ /\ Whole("callUser")
     /\ frame.slot # "none"
     /\ GenerateCall(FALSE)
     /\ Spawn("user", "call")
     /\ overlapped' = Active
     /\ UNCHANGED <<conference, hangups>>

FirstStep(runs) ==
  CASE runs \in Member  -> "call"
    [] runs = "bridge"  -> "hold"
    [] runs = "hangup"  -> "hang_up"
    [] runs = "redirect" -> "choose"

ThreadButton ==
  /\ \E runs \in {"agent", "third", "bridge", "redirect", "hangup"} :
       /\ Whole(runs)
       /\ Spawn(runs, FirstStep(runs))
       /\ overlapped' = (overlapped \/ Overlaps(runs))
  /\ UNCHANGED <<conference, hangups, call>>

(***************************************************************************)
(* pbx_event_hangup() emits a signal from PBX's thread; the slot runs in   *)
(* the GUI thread and starts hangup().                                     *)
(***************************************************************************)
HangupEvent ==
  /\ Event
  /\ \E m \in Member :
       /\ connected' = connected \ {m}
       /\ bridged' = IF m \in bridged THEN {} ELSE bridged
  /\ hangups' = hangups + 1
  /\ UNCHANGED <<frame, status, conference, thread, inbound, overlapped>>

HangupChannelsSlot ==
  /\ hangups > 0
  /\ hangups' = hangups - 1
  /\ Spawn("hangup", "hang_up")
  /\ overlapped' = (overlapped \/ Overlaps("hangup"))
  /\ UNCHANGED <<frame, events, conference, call>>

InboundEvent ==
  /\ Event
  /\ Spawn("inbound", "generate")
  /\ overlapped' = (overlapped \/ Active)
  /\ UNCHANGED <<frame, conference, hangups, call>>

-----------------------------------------------------------------------------
(* One step of a thread from one place to the next. *)

Goes(t, at) == thread' = [thread EXCEPT ![t].at = at]
Ends(t)     == thread' = [thread EXCEPT ![t] = Free]

(***************************************************************************)
(* The session given by PBX is set and then replaced: the object that is   *)
(* generated has a session of its own.                                     *)
(***************************************************************************)
Inbound(t) ==
  /\ thread[t].runs = "inbound"
  /\ \/ /\ thread[t].at = "generate"
        /\ Goes(t, "call")
        /\ GenerateCall(TRUE)
        /\ overlapped' = \E u \in Thread \ {t} : thread[u] # Free
     \/ /\ thread[t].at = "call"
        /\ Goes(t, "ok")
        /\ status' = [status EXCEPT !["user"] =
                        IF @ = "no_call" THEN "calling" ELSE @]
        /\ UNCHANGED <<inbound, connected, bridged, overlapped>>
     \/ /\ thread[t].at = "ok"
        /\ Ends(t)
        /\ status' = [status EXCEPT !["user"] = PbxOk(@)]
        /\ UNCHANGED <<inbound, connected, bridged, overlapped>>
  /\ UNCHANGED <<conference, hangups>>

(* call_user(), call_agent() and call_third(). *)
CallPossible(t, m) ==
  /\ thread[t] = [runs |-> m, at |-> "call"]
  /\ \/ /\ status[m] = "no_call"
        /\ status' = [status EXCEPT ![m] = "calling"]
        /\ Goes(t, "request")
     \/ status[m] # "no_call" /\ Ends(t) /\ UNCHANGED status
  /\ UNCHANGED <<connected, bridged>>

RequestCall(t, m) ==
  /\ thread[t] = [runs |-> m, at |-> "request"]
  /\ \/ Goes(t, "ok") /\ connected' = connected \cup {m}
     \/ Goes(t, "ko") /\ connected' \in {connected, connected \cup {m}}
  /\ UNCHANGED <<status, bridged>>

\* a bug: the result of the request is not tested
CallAlwaysOk(t, m) ==
  /\ thread[t] \in {[runs |-> m, at |-> "ok"], [runs |-> m, at |-> "ko"]}
  /\ Ends(t)
  /\ status' = [status EXCEPT ![m] = PbxOk(@)]
  /\ UNCHANGED <<connected, bridged>>

CallAnswered(t, m) ==
  /\ \/ /\ thread[t] = [runs |-> m, at |-> "ok"]
        /\ status' = [status EXCEPT ![m] = PbxOk(@)]
     \/ /\ thread[t] = [runs |-> m, at |-> "ko"]
        /\ status' = [status EXCEPT ![m] = PbxKo(@)]
  /\ Ends(t)
  /\ UNCHANGED <<connected, bridged>>

Call(t) ==
  /\ \E m \in Member :
       CallPossible(t, m) \/ RequestCall(t, m) \/ CallAnswered(t, m)
  /\ UNCHANGED <<conference, hangups, inbound, overlapped>>

-----------------------------------------------------------------------------
(* bridge(), and redirect(), which chooses the conference and calls it. *)

At(t, place) == thread[t].at = place

ChooseConference(t) ==
  /\ At(t, "choose")
  /\ conference' = {"user", "third"}
  /\ Goes(t, "hold")
  /\ UNCHANGED call

HoldCall(t) ==
  /\ At(t, "hold")
  /\ status' = [m \in Member |-> Hold(status[m])]
  /\ Goes(t, "bridge")
  /\ UNCHANGED <<conference, inbound, connected, bridged>>

(* bridge() returns; redirect() goes on. *)
BridgeReturns(t) ==
  IF thread[t].runs = "redirect" THEN Goes(t, "hang_up") ELSE Ends(t)

BridgePossible(t) ==
  /\ At(t, "bridge")
  /\ IF \A m \in conference : status[m] = "called_ok"
     THEN /\ status' = [m \in Member |->
                          IF m \in conference THEN "bridging" ELSE status[m]]
          /\ Goes(t, "request_bridge")
     ELSE UNCHANGED status /\ BridgeReturns(t)
  /\ UNCHANGED <<conference, inbound, connected, bridged>>

(* The conference is read once more, for the request. *)
RequestBridge(t) ==
  /\ At(t, "request_bridge")
  /\ \/ /\ conference \subseteq connected
        /\ bridged' = conference
        /\ Goes(t, "bridge_ok") \/ Goes(t, "bridge_ko")
     \/ Goes(t, "bridge_ko") /\ UNCHANGED bridged
  /\ UNCHANGED <<status, conference, inbound, connected>>

(* pbx_ok() or pbx_ko() of all three channels. *)
BridgeAnswered(t) ==
  /\ \/ /\ At(t, "bridge_ok")
        /\ status' = [m \in Member |-> PbxOk(status[m])]
        /\ Goes(t, "toggle")
     \/ /\ At(t, "bridge_ko")
        /\ status' = [m \in Member |-> PbxKo(status[m])]
        /\ BridgeReturns(t)
  /\ UNCHANGED <<conference, inbound, connected, bridged>>

ToggleConference(t) ==
  /\ At(t, "toggle")
  /\ conference' = IF conference = {"user", "agent"} THEN {"agent", "third"}
                   ELSE {"user", "agent"}
  /\ BridgeReturns(t)
  /\ UNCHANGED call

Bridge(t) ==
  /\ \/ ChooseConference(t) \/ HoldCall(t) \/ BridgePossible(t)
     \/ RequestBridge(t) \/ BridgeAnswered(t) \/ ToggleConference(t)
  /\ UNCHANGED <<hangups, overlapped>>

-----------------------------------------------------------------------------
(* hangup() and the end of redirect(). *)

HangUpCall(t) ==
  /\ At(t, "hang_up")
  /\ status' = [m \in Member |-> HangUp(status[m])]
  /\ Goes(t, "request_hangup")
  /\ UNCHANGED <<connected, bridged>>

(* hangup() names all members, redirect() the agent and tests no result. *)
RequestHangup(t) ==
  LET gone == IF thread[t].runs = "redirect" THEN {"agent"} ELSE Member
  IN  /\ At(t, "request_hangup")
      /\ \/ /\ connected' = connected \ gone
            /\ bridged' = IF bridged \cap gone = {} THEN bridged ELSE {}
            /\ \/ thread[t].runs = "hangup" /\ Goes(t, "hung_up")
               \/ Ends(t)
         \/ Ends(t) /\ UNCHANGED <<connected, bridged>>
      /\ UNCHANGED status

ClearStatus(t) ==
  /\ At(t, "hung_up")
  /\ status' = [m \in Member |-> "no_call"]
  /\ Ends(t)
  /\ UNCHANGED <<connected, bridged>>

Hangup(t) ==
  /\ HangUpCall(t) \/ RequestHangup(t) \/ ClearStatus(t)
  /\ UNCHANGED <<conference, hangups, inbound, overlapped>>

ThreadStep(t) ==
  /\ Inbound(t) \/ Call(t) \/ Bridge(t) \/ Hangup(t)
  /\ UNCHANGED consoleVars

PbxFormSlots ==
  CallUserButton \/ ThreadButton \/ HangupEvent \/ InboundEvent

-----------------------------------------------------------------------------
PbxFormTypes ==
  /\ status \in [Member -> {"no_call", "calling", "called_ok", "bridging",
                            "bridged_ok", "hanging_up"}]
  /\ conference \in SUBSET Member
  /\ hangups \in 0..MaxEvents
  /\ bridged \subseteq connected /\ connected \subseteq Member
  /\ {inbound, overlapped} \subseteq BOOLEAN

(***************************************************************************)
(* Once the threads are through and no hangup is waiting, a channel shown  *)
(* as called is connected at PBX and one shown as bridged is in PBX's      *)
(* conference, although calls of several members run at once.  A thread of *)
(* another kind, or a new call object, beside a thread may break this.  So *)
(* does the user who called in: PBX has him under another session.         *)
(***************************************************************************)
ShownAsConnected ==
  /\ ~Active /\ ~overlapped /\ hangups = 0 /\ frame.slot # "callUser"
  => \A m \in Member :
       /\ status[m] \in {"called_ok", "bridged_ok"} =>
            m \in connected \/ (m = "user" /\ inbound)
       /\ status[m] = "bridged_ok" => m \in bridged
=============================================================================
