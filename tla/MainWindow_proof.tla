---------------------------- MODULE MainWindow_proof ----------------------------
(***************************************************************************)
(* Proofs about MainWindow, for any number of events and of threads and    *)
(* for all sets of ids.                                                    *)
(***************************************************************************)
EXTENDS MainWindow, FiniteSetTheorems, WellFoundedInduction, TLAPS

-----------------------------------------------------------------------------
(* The suspended slot. *)

FrameOK ==
  /\ frame = [slot |-> frame.slot, at |-> frame.at, got |-> frame.got,
              inner |-> frame.inner]
  /\ frame.at \in {"ask", "answer"}
  /\ events \in 0 .. MaxEvents

Answering(slots) == frame.slot \in slots /\ frame.at = "answer"

LMSlot   == LeadSlot \cup {"login", "logout", "checkVateam", "ivnewsession",
                           "alive", "ivflag"}
GariSlot == {"createSeed", "createSession", "readSeed", "deleteSeed",
             "deleteSession", "readSession"}
ACMSlot  == {"newAlpha", "freeAlpha", "alphaStatus"}
PbxSlot  == {"callUser"}

(***************************************************************************)
(* A step of one of these slots: another slot that is suspended stays so,  *)
(* and has at most been interrupted once more.                             *)
(***************************************************************************)
MovesOnly(slots) ==
  \/ /\ frame'.slot = frame.slot
     /\ frame'.at = frame.at
     /\ frame'.got = frame.got
     /\ frame.inner \subseteq frame'.inner
  \/ /\ frame.slot \in slots \cup {"none"}
     /\ frame'.slot \in slots \cup {"none", "crashed"}

-----------------------------------------------------------------------------
(* The invariant of the LM form. *)

(***************************************************************************)
(* The session a login captures after its line is open and not yet the     *)
(* form's.                                                                 *)
(***************************************************************************)
LoginInv ==
  /\ login_session # NoSession => lm_session[login_session] # "new"
  /\ Answering({"login"}) =>
       /\ frame.got[1] \in Session \cup {NoSession}
       /\ frame.got[2] \in Team \cup {NoTeam}
       /\ frame.got[1] # NoSession =>
            lm_session[frame.got[1]] = "open" /\ frame.got[1] # login_session

(***************************************************************************)
(* A logout that writes its answer has closed the session it names, which  *)
(* is the form's unless a login came in between.                           *)
(***************************************************************************)
LogoutInv ==
  Answering({"logout"}) =>
    /\ frame.got[1] \in Session /\ lm_session[frame.got[1]] = "closed"
    /\ "session" \notin frame.inner => login_session = frame.got[1]

(***************************************************************************)
(* As long as nothing spoils it, what a check slot copied is what the form *)
(* holds, and with the answer LM has the opposite of the form's check.     *)
(***************************************************************************)
CheckInv ==
  frame.slot = "checkVateam" =>
    /\ frame.got[1] \in Team /\ frame.got[2] \in BOOLEAN
    /\ ~CheckSpoiled =>
         /\ frame.got[1] = vagroup /\ frame.got[2] = check
         /\ frame.at = "answer" =>
              (<<login_session, vagroup>> \in lm_checked <=> ~check)

(***************************************************************************)
(* A response is the last LM gave unless a slot of its kind interrupted.   *)
(***************************************************************************)
LatestInv ==
  /\ Answering(LeadSlot) =>
       /\ frame.got[1] \in Lead
       /\ frame.inner \cap LeadSlot = {} => frame.got[1] = lm_lead
  /\ Answering({"ivnewsession"}) =>
       /\ frame.got[1] \in Pin
       /\ frame.inner \cap {"ivnewsession"} = {} => frame.got[1] = lm_pin

LMInv == /\ LMFormTypes /\ LoginInv /\ LogoutInv /\ CheckInv /\ LatestInv
         /\ TimerOnOpenSession

-----------------------------------------------------------------------------
(* The invariant of the Gari form: as above, for rooms. *)
GariInv ==
  /\ GariFormTypes
  /\ Answering({"deleteSession"}) /\ "createSession" \notin frame.inner =>
       ~RoomOpen(session_id)
  /\ Answering({"readSession"}) =>
       /\ frame.got[1] \in Room \cup {NoRoom}
       /\ frame.inner \cap {"createSession", "deleteSession"} = {} =>
            frame.got[1] = session_id

-----------------------------------------------------------------------------
(* The invariant of the ACM form. *)
ACMTypes ==
  ACMFormTypes /\ (Answering({"newAlpha"}) => frame.got[1] \in Alpha \cup {NoAlpha})

Waiting(slot) == IF Answering({slot}) THEN 1 ELSE 0

(***************************************************************************)
(* NoAlphaTooMany, of finite sets.                                         *)
(***************************************************************************)
AlphaCount ==
  /\ IsFiniteSet(alpha_map) /\ IsFiniteSet(acm_alphas)
  /\ Cardinality(alpha_map) + Waiting("newAlpha")
       <= Cardinality(acm_alphas) + Waiting("freeAlpha") + excess

ACMInv == ACMTypes /\ AlphaCount

-----------------------------------------------------------------------------
(* The invariant of the PBX form. *)

Runs == Member \cup {"inbound", "bridge", "redirect", "hangup", "nothing"}

Calling  == {"request", "ok", "ko"}
Bridging == {"request_bridge", "bridge_ok", "bridge_ko"}
Held     == Bridging \cup {"bridge"}

Place(runs) ==
  CASE runs \in Member   -> {"call"} \cup Calling
    [] runs = "inbound"  -> {"generate", "call", "ok"}
    [] runs = "bridge"   -> {"hold", "toggle"} \cup Held
    [] runs = "redirect" -> {"choose", "hold", "toggle", "hang_up",
                             "request_hangup"} \cup Held
    [] runs = "hangup"   -> {"hang_up", "request_hangup", "hung_up"}
    [] OTHER             -> {"free"}

ThreadOK ==
  /\ DOMAIN thread = Thread
  /\ \A t \in Thread :
       /\ thread[t] = [runs |-> thread[t].runs, at |-> thread[t].at]
       /\ thread[t].runs \in Runs
       /\ thread[t].at \in Place(thread[t].runs)

(***************************************************************************)
(* As long as nothing overlaps, threads run at the same time only if all   *)
(* of them are calls.                                                      *)
(***************************************************************************)
Alone ==
  \A t, u \in Thread :
    t # u /\ thread[t] # Free /\ thread[u] # Free =>
      {thread[t].runs, thread[u].runs} \subseteq Member

(***************************************************************************)
(* Between the status of a hangup and its request no channel has a call.   *)
(***************************************************************************)
HungUp ==
  \A t \in Thread, m \in Member :
    thread[t].at = "request_hangup" => status[m] \in {"no_call", "hanging_up"}

(***************************************************************************)
(* A hangup PBX told is still to be carried out.                           *)
(***************************************************************************)
HangupDue ==
  \/ hangups > 0
  \/ \E t \in Thread : thread[t] = [runs |-> "hangup", at |-> "hang_up"]

(***************************************************************************)
(* A channel with a call is connected, and PBX has one that is bridged in  *)
(* its conference.                                                         *)
(***************************************************************************)
Shown ==
  \A m \in Member :
    /\ status[m] \in {"called_ok", "bridging", "bridged_ok"} =>
         m \in connected \/ (m = "user" /\ inbound)
    /\ status[m] = "bridged_ok" => m \in bridged

(***************************************************************************)
(* Past its first step a call has its channel for itself, and a channel    *)
(* has the status of a call under way only because of such a thread.       *)
(***************************************************************************)
CallsUnderWay ==
  /\ \A t \in Thread :
       /\ thread[t].runs \in Member /\ thread[t].at \in Calling =>
            /\ status[thread[t].runs] = "calling"
            /\ thread[t].at = "ok" => thread[t].runs \in connected
       /\ thread[t].runs = "inbound" /\ thread[t].at # "generate" => inbound
  /\ \A t, u \in Thread :
       /\ thread[t].runs \in Member /\ thread[t].at \in Calling
       /\ thread[u].runs = thread[t].runs /\ thread[u].at \in Calling
       => t = u
  /\ \A m \in Member :
       status[m] = "calling" =>
         \E t \in Thread :
           \/ thread[t].runs = m /\ thread[t].at \in Calling
           \/ m = "user" /\ thread[t] = [runs |-> "inbound", at |-> "ok"]

(***************************************************************************)
(* The same for bridges: from hold() on no channel is bridged, those that  *)
(* are being bridged are in the conference, and PBX has them there once    *)
(* its answer was positive.                                                *)
(***************************************************************************)
BridgesUnderWay ==
  /\ \A m \in Member :
       status[m] = "bridging" => \E t \in Thread : thread[t].at \in Bridging
  /\ \A t \in Thread, m \in Member :
       /\ thread[t].at \in Held => status[m] # "bridged_ok"
       /\ thread[t].at = "request_bridge" /\ status[m] = "bridging" =>
            m \in conference
       /\ thread[t].at = "bridge_ok" /\ status[m] = "bridging" => m \in bridged

PbxInv ==
  /\ PbxFormTypes
  /\ hangups <= events
  /\ ThreadOK
  /\ ~overlapped => Alone /\ HungUp
  /\ ~overlapped /\ ~HangupDue => Shown /\ CallsUnderWay /\ BridgesUnderWay

IInv == FrameOK /\ LMInv /\ GariInv /\ ACMInv /\ PbxInv /\ tab \in Tab

-----------------------------------------------------------------------------
(* What the ways a slot moves on do to the frame. *)

LEMMA BeginFrame ==
  ASSUME FrameOK, NEW slot, NEW got, Begin(slot, got)
  PROVE  /\ FrameOK'
         /\ frame.slot = "none"
         /\ frame'.slot = slot /\ frame'.at = "ask" /\ frame'.got = got
         /\ frame'.inner = {}
BY EventsAssumption DEF FrameOK, Begin, Event, Suspended, NoSlot

LEMMA AnsweredFrame ==
  ASSUME FrameOK, NEW slot, NEW got, Answered(slot, got)
  PROVE  /\ FrameOK'
         /\ frame.slot = slot /\ frame.at = "ask"
         /\ frame'.slot = slot /\ frame'.at = "answer" /\ frame'.got = got
         /\ frame'.inner = frame.inner
BY DEF FrameOK, Answered

LEMMA ReturnFrame ==
  ASSUME FrameOK, NEW slot, NEW at, Return(slot, at)
  PROVE  /\ FrameOK'
         /\ frame.slot = slot /\ frame.at = at
         /\ frame'.slot = "none"
BY DEF FrameOK, Return, Suspended, NoSlot

LEMMA WholeDidFrame ==
  ASSUME FrameOK, NEW done, WholeDid(done)
  PROVE  /\ FrameOK'
         /\ frame'.slot = frame.slot /\ frame'.at = frame.at
         /\ frame'.got = frame.got
         /\ frame.inner \subseteq frame'.inner
         /\ frame'.inner \subseteq frame.inner \cup done
         /\ frame.slot # "none" => done \subseteq frame'.inner
<1>1. CASE frame = NoSlot
  BY <1>1, EventsAssumption DEF FrameOK, WholeDid, Event, NoSlot, Suspended
<1>2. CASE frame # NoSlot
  <2>1. /\ frame' = [frame EXCEPT !.inner = frame.inner \cup done]
        /\ events < MaxEvents /\ events' = events + 1
    BY <1>2 DEF WholeDid, Event
  <2>2. /\ frame' = [slot |-> frame.slot, at |-> frame.at,
                     got |-> frame.got, inner |-> frame.inner \cup done]
    BY <2>1 DEF FrameOK
  <2>3. events' \in 0 .. MaxEvents
    BY <2>1, EventsAssumption DEF FrameOK
  <2>4. FrameOK'
    BY <2>2, <2>3 DEF FrameOK
  <2>5. QED
    BY <2>2, <2>4
<1>3. QED
  BY <1>1, <1>2

LEMMA WholeFrame ==
  ASSUME FrameOK, NEW slot, Whole(slot)
  PROVE  /\ FrameOK'
         /\ frame'.slot = frame.slot /\ frame'.at = frame.at
         /\ frame'.got = frame.got
         /\ frame.inner \subseteq frame'.inner
         /\ frame'.inner \subseteq frame.inner \cup {slot}
         /\ frame.slot # "none" => slot \in frame'.inner
BY WholeDidFrame DEF Whole

LEMMA UnansweredFrame ==
  ASSUME FrameOK, NEW slot, Unanswered(slot)
  PROVE  /\ FrameOK'
         /\ \/ /\ frame.slot = slot /\ frame.at = "ask"
               /\ frame'.slot = "none"
            \/ /\ frame'.slot = frame.slot /\ frame'.at = frame.at
               /\ frame'.got = frame.got /\ frame'.inner = frame.inner
<1>1. CASE Return(slot, "ask")
  BY <1>1, ReturnFrame
<1>2. CASE WholeDid({})
  BY <1>2, WholeDidFrame
<1>3. QED
  BY <1>1, <1>2 DEF Unanswered

LEMMA CrashedFrame ==
  ASSUME FrameOK, frame' = Crashed, UNCHANGED events
  PROVE  FrameOK' /\ frame'.slot = "crashed"
BY DEF FrameOK, Crashed, Suspended

-----------------------------------------------------------------------------
(* The LM form. *)

LEMMA LMKeepsInv ==
  ASSUME FrameOK, LMInv, LMFormSlots
  PROVE  FrameOK' /\ LMInv'
<1> USE LMFormAssumption
    DEF LMInv, LMFormTypes, LoginInv, LogoutInv, CheckInv, LatestInv,
        TimerOnOpenSession, ToldOpen, SessionOpen, CheckSpoiled, Answering,
        lmForm, lmServer, lmFormVars
<1>1. CASE LoginButton
  <2>1. CASE Begin("login", <<>>) /\ UNCHANGED lmFormVars
    BY <2>1, BeginFrame DEF LeadSlot
  <2>2. CASE \E s \in Session \cup {NoSession}, t \in Team \cup {NoTeam} :
               RequestLogin(s) /\ Answered("login", <<s, t>>)
               /\ UNCHANGED lmForm
    BY <2>2, AnsweredFrame DEF RequestLogin, LeadSlot
  <2>3. CASE \E s \in Session \cup {NoSession}, t \in Team \cup {NoTeam} :
               /\ RequestLogin(s)
               /\ WholeDid(LoginDid(s, t))
               /\ CaptureLogin(s, t)
    <3>1. PICK s \in Session \cup {NoSession}, t \in Team \cup {NoTeam} :
            /\ RequestLogin(s)
            /\ WholeDid(LoginDid(s, t))
            /\ CaptureLogin(s, t)
      BY <2>3
    <3>2. /\ FrameOK'
          /\ frame'.slot = frame.slot /\ frame'.at = frame.at
          /\ frame'.got = frame.got
          /\ frame.inner \subseteq frame'.inner
          /\ frame.slot # "none" /\ s # NoSession => "session" \in frame'.inner
          /\ frame.slot # "none" /\ t # NoTeam => "teams" \in frame'.inner
      BY <3>1, WholeDidFrame DEF LoginDid
    <3>3. /\ s # NoSession =>
               /\ lm_session[s] = "new"
               /\ lm_session' = [lm_session EXCEPT ![s] = "open"]
               /\ login_session' = s /\ alive_timer' = TRUE
          /\ s = NoSession =>
               UNCHANGED <<lm_session, login_session, alive_timer>>
          /\ t # NoTeam => vagroup' = t /\ check' = FALSE
          /\ t = NoTeam => UNCHANGED <<vagroup, check>>
          /\ UNCHANGED <<lm_checked, lm_lead, lm_pin, pin_alive_timer, lead_id,
                         pin>>
      BY <3>1 DEF RequestLogin, CaptureLogin
    <3>4. LMFormTypes' /\ LoginInv'
      <4>1. CASE s = NoSession
        BY <3>2, <3>3, <4>1
      <4>2. CASE s # NoSession
        <5>1. /\ s \in Session /\ lm_session'[s] = "open"
              /\ lm_session' \in [Session -> {"new", "open", "closed", "lost"}]
              /\ \A r \in Session \ {s} : lm_session'[r] = lm_session[r]
          BY <3>3, <4>2
        <5>2. LMFormTypes'
          BY <3>3, <4>2, <5>1
        <5>3. LoginInv'
          BY <3>2, <3>3, <4>2, <5>1
        <5>4. QED
          BY <5>2, <5>3
      <4>3. QED
        BY <4>1, <4>2
    <3>5. LatestInv'
      BY <3>2, <3>3
    <3>6. (LogoutInv /\ TimerOnOpenSession)'
      BY <3>2, <3>3
    <3>7. CheckInv'
      BY <3>2, <3>3
    <3>8. QED
      BY <3>2, <3>4, <3>5, <3>6, <3>7
  <2>4. CASE \E s \in Session :
               RequestLogin(s) /\ Unanswered("login") /\ UNCHANGED lmForm
    BY <2>4, UnansweredFrame DEF RequestLogin, LeadSlot
  <2>5. CASE /\ Return("login", "answer")
             /\ CaptureLogin(frame.got[1], frame.got[2])
             /\ UNCHANGED lmServer
    BY <2>5, ReturnFrame DEF CaptureLogin, LeadSlot
  <2>6. QED
    BY <1>1, <2>1, <2>2, <2>3, <2>4, <2>5 DEF LoginButton
<1>2. CASE LogoutButton
  <2>1. CASE Begin("logout", <<>>) /\ UNCHANGED lmFormVars
    BY <2>1, BeginFrame DEF LeadSlot
  <2>2. CASE /\ RequestLogout("closed")
             /\ Answered("logout", <<login_session>>)
             /\ UNCHANGED lmForm
    BY <2>2, AnsweredFrame DEF RequestLogout, LeadSlot
  <2>3. CASE RequestLogout("closed") /\ Whole("logout") /\ ForgetLogin
    BY <2>3, WholeFrame DEF RequestLogout, ForgetLogin, LeadSlot
  <2>4. CASE RequestLogout("lost") /\ Unanswered("logout") /\ UNCHANGED lmForm
    BY <2>4, UnansweredFrame DEF RequestLogout, LeadSlot
  <2>5. CASE Return("logout", "answer") /\ ForgetLogin /\ UNCHANGED lmServer
    BY <2>5, ReturnFrame DEF ForgetLogin, LeadSlot
  <2>6. QED
    BY <1>2, <2>1, <2>2, <2>3, <2>4, <2>5 DEF LogoutButton
<1>3. CASE CheckVateamButton
  <2>1. CASE /\ vagroup # NoTeam
             /\ Begin("checkVateam", <<vagroup, check>>)
             /\ UNCHANGED lmFormVars
    BY <2>1, BeginFrame DEF LeadSlot
  <2>2. CASE /\ frame.slot = "checkVateam"
             /\ RequestCheck(frame.got[1], frame.got[2])
             /\ Answered("checkVateam", frame.got)
             /\ UNCHANGED lmForm
    BY <2>2, AnsweredFrame DEF RequestCheck, LeadSlot
  <2>3. CASE /\ frame.slot = "checkVateam"
             /\ RequestCheck(frame.got[1], frame.got[2])
             /\ Return("checkVateam", "ask")
             /\ UNCHANGED lmForm
    BY <2>3, ReturnFrame DEF RequestCheck, LeadSlot
  <2>4. CASE /\ vagroup # NoTeam
             /\ RequestCheck(vagroup, check)
             /\ Whole("checkVateam")
             /\ ToggleCheck \/ UNCHANGED lmForm
    <3>1. lm_checked' \in SUBSET (Session \X Team)
      BY <2>4 DEF RequestCheck
    <3>2. /\ check' \in BOOLEAN
          /\ UNCHANGED <<login_session, alive_timer, pin_alive_timer, vagroup,
                         lead_id, pin, lm_session, lm_lead, lm_pin>>
      BY <2>4 DEF RequestCheck, ToggleCheck
    <3>3. /\ FrameOK'
          /\ frame'.slot = frame.slot /\ frame'.at = frame.at
          /\ frame'.got = frame.got
          /\ frame.inner \subseteq frame'.inner
          /\ frame'.inner \subseteq frame.inner \cup {"checkVateam"}
          /\ frame.slot # "none" => "checkVateam" \in frame'.inner
      BY <2>4, WholeFrame
    <3>4. CheckInv'
      BY <3>2, <3>3
    <3>5. LMFormTypes' /\ LoginInv' /\ LogoutInv' /\ TimerOnOpenSession'
      BY <3>1, <3>2, <3>3
    <3>6. LatestInv'
      BY <3>2, <3>3 DEF LeadSlot
    <3>7. QED
      BY <3>3, <3>4, <3>5, <3>6
  <2>5. CASE Return("checkVateam", "answer") /\ ToggleCheck
             /\ UNCHANGED lmServer
    BY <2>5, ReturnFrame DEF ToggleCheck, LeadSlot
  <2>6. CASE Return("checkVateam", "answer") /\ UNCHANGED lmFormVars
    BY <2>6, ReturnFrame DEF LeadSlot
  <2>7. CASE /\ frame.slot = "checkVateam" /\ frame' = Crashed
             /\ UNCHANGED events /\ UNCHANGED lmFormVars
    BY <2>7, CrashedFrame DEF LeadSlot
  <2>8. QED
    BY <1>3, <2>1, <2>2, <2>3, <2>4, <2>5, <2>6, <2>7 DEF CheckVateamButton
<1>4. CASE \E slot \in LeadSlot : LeadButton(slot)
  <2>1. PICK slot \in LeadSlot : LeadButton(slot)
    BY <1>4
  <2>2. CASE Begin(slot, <<>>) /\ UNCHANGED lmFormVars
    BY <2>1, <2>2, BeginFrame DEF LeadSlot
  <2>3. CASE \E l \in Lead :
               RequestLead(slot, l) /\ Answered(slot, <<l>>)
               /\ UNCHANGED lmForm
    BY <2>1, <2>3, AnsweredFrame DEF RequestLead, LeadSlot
  <2>4. CASE \E l \in Lead :
               RequestLead(slot, l) /\ Whole(slot) /\ CaptureLead(l)
    BY <2>1, <2>4, WholeFrame DEF RequestLead, CaptureLead, LeadSlot
  <2>5. CASE /\ Return(slot, "answer")
             /\ CaptureLead(frame.got[1])
             /\ UNCHANGED lmServer
    BY <2>1, <2>5, ReturnFrame DEF CaptureLead, LeadSlot
  <2>6. QED
    BY <2>1, <2>2, <2>3, <2>4, <2>5 DEF LeadButton
<1>5. CASE IvnewsessionButton
  <2>1. CASE Begin("ivnewsession", <<>>) /\ UNCHANGED lmFormVars
    BY <2>1, BeginFrame DEF LeadSlot
  <2>2. CASE \E p \in Pin :
               RequestIvnewsession(p) /\ Answered("ivnewsession", <<p>>)
               /\ UNCHANGED lmForm
    BY <2>2, AnsweredFrame DEF RequestIvnewsession, LeadSlot
  <2>3. CASE \E p \in Pin :
               RequestIvnewsession(p) /\ Whole("ivnewsession")
               /\ CapturePin(p)
    BY <2>3, WholeFrame DEF RequestIvnewsession, CapturePin, LeadSlot
  <2>4. CASE /\ Return("ivnewsession", "answer")
             /\ CapturePin(frame.got[1])
             /\ UNCHANGED lmServer
    BY <2>4, ReturnFrame DEF CapturePin, LeadSlot
  <2>5. QED
    BY <1>5, <2>1, <2>2, <2>3, <2>4 DEF IvnewsessionButton
<1>6. CASE TimerSlots
  BY <1>6, BeginFrame, ReturnFrame, WholeFrame DEF TimerSlots, LeadSlot
<1>7. CASE LMRefuses
  BY <1>7, ReturnFrame DEF LMRefuses, LeadSlot
<1>8. QED
  BY <1>1, <1>2, <1>3, <1>4, <1>5, <1>6, <1>7 DEF LMFormSlots

LEMMA LMMoves ==
  ASSUME FrameOK
  PROVE  /\ LoginButton => MovesOnly({"login"})
         /\ LogoutButton => MovesOnly({"logout"})
         /\ CheckVateamButton => MovesOnly({"checkVateam"})
         /\ \A slot \in LeadSlot : LeadButton(slot) => MovesOnly({slot})
         /\ IvnewsessionButton => MovesOnly({"ivnewsession"})
         /\ TimerSlots => MovesOnly({"alive", "ivflag"})
         /\ LMRefuses =>
              MovesOnly(LeadSlot \cup {"login", "logout", "checkVateam",
                                       "ivnewsession"})
<1> USE DEF MovesOnly
<1>1. LoginButton => MovesOnly({"login"})
  BY BeginFrame, AnsweredFrame, ReturnFrame, WholeDidFrame, UnansweredFrame
     DEF LoginButton
<1>2. LogoutButton => MovesOnly({"logout"})
  BY BeginFrame, AnsweredFrame, ReturnFrame, WholeFrame, UnansweredFrame
     DEF LogoutButton
<1>3. CheckVateamButton => MovesOnly({"checkVateam"})
  BY BeginFrame, AnsweredFrame, ReturnFrame, WholeFrame, CrashedFrame
     DEF CheckVateamButton
<1>4. ASSUME NEW slot \in LeadSlot, LeadButton(slot) PROVE MovesOnly({slot})
  BY <1>4, BeginFrame, AnsweredFrame, ReturnFrame, WholeFrame DEF LeadButton
<1>5. IvnewsessionButton => MovesOnly({"ivnewsession"})
  BY BeginFrame, AnsweredFrame, ReturnFrame, WholeFrame
     DEF IvnewsessionButton
<1>6. TimerSlots => MovesOnly({"alive", "ivflag"})
  BY BeginFrame, ReturnFrame, WholeFrame DEF TimerSlots
<1>7. LMRefuses => MovesOnly(LeadSlot \cup {"login", "logout", "checkVateam",
                                            "ivnewsession"})
  BY ReturnFrame DEF LMRefuses
<1>8. QED
  BY <1>1, <1>2, <1>3, <1>4, <1>5, <1>6, <1>7

(***************************************************************************)
(* No slot but a logout stops the timer, and one that ends its line has    *)
(* closed the session.                                                     *)
(***************************************************************************)
LEMMA LMKeepsAlive ==
  ASSUME FrameOK, LMInv, LMFormSlots, alive_timer, SessionOpen', ~alive_timer'
  PROVE  frame.slot = "logout" /\ "session" \in frame.inner
<1> USE DEF lmForm, lmServer, lmFormVars
<1>1. /\ ForgetLogin
      /\ \/ RequestLogout("closed")
         \/ Return("logout", "answer") /\ UNCHANGED lmServer
  BY DEF LMFormSlots, LoginButton, LogoutButton, CheckVateamButton,
         LeadButton, IvnewsessionButton, TimerSlots, LMRefuses, CaptureLogin,
         ToggleCheck, CaptureLead, CapturePin
<1>2. CASE RequestLogout("closed")
  BY <1>1, <1>2 DEF RequestLogout, ForgetLogin, SessionOpen, LMInv, LMFormTypes
<1>3. CASE Return("logout", "answer") /\ UNCHANGED lmServer
  BY <1>1, <1>3, ReturnFrame
     DEF ForgetLogin, SessionOpen, LMInv, LogoutInv, Answering
<1>4. QED
  BY <1>1, <1>2, <1>3

(***************************************************************************)
(* A check slot that nothing spoilt returns by toggling the check.         *)
(***************************************************************************)
LEMMA LMSettlesFlag ==
  ASSUME FrameOK, LMInv, LMFormSlots, frame.slot = "checkVateam",
         frame.at = "answer", ~CheckSpoiled, frame' = NoSlot
  PROVE  check' <=> <<login_session, vagroup>>' \in lm_checked'
<1>1. frame'.slot = "none"
  BY DEF NoSlot, Suspended
<1>2. ~Dangling
  BY DEF CheckSpoiled, Dangling
<1>3. CheckVateamButton
  BY <1>1, LMMoves DEF LMFormSlots, MovesOnly, LMRefuses, Return, LeadSlot
<1>4. ToggleCheck /\ UNCHANGED lmServer
  BY <1>1, <1>2, <1>3, BeginFrame, AnsweredFrame, WholeFrame
     DEF CheckVateamButton, Return
<1>5. UNCHANGED <<login_session, vagroup, lm_checked>> /\ check' = ~check
  BY <1>4 DEF ToggleCheck, lmServer
<1>6. <<login_session, vagroup>> \in lm_checked <=> ~check
  BY DEF LMInv, CheckInv
<1>7. QED
  BY <1>5, <1>6

(***************************************************************************)
(* Only a slot interrupted by one of its kind replaces the newer lead, or  *)
(* the newer PIN, by an older one.                                         *)
(***************************************************************************)
LEMMA LMKeepsLead ==
  ASSUME FrameOK, LMInv, LMFormSlots, HoldsLeadOr(LeadSlot)
  PROVE  OnlyByItself(HoldsLeadOr(LeadSlot)', LeadSlot)
<1> USE DEF HoldsLeadOr, OnlyByItself, Capturing
<1>1. CASE \E slot \in LeadSlot : LeadButton(slot)
  <2>1. PICK slot \in LeadSlot : LeadButton(slot)
    BY <1>1
  <2>2. CASE Begin(slot, <<>>) /\ UNCHANGED lmFormVars
    BY <2>1, <2>2, BeginFrame DEF LeadSlot, lmFormVars, lmForm, lmServer
  <2>3. CASE \E l \in Lead : Answered(slot, <<l>>)
    BY <2>1, <2>3, AnsweredFrame
  <2>4. CASE \E l \in Lead :
               RequestLead(slot, l) /\ Whole(slot) /\ CaptureLead(l)
    BY <2>4 DEF RequestLead, CaptureLead
  <2>5. CASE /\ Return(slot, "answer")
             /\ CaptureLead(frame.got[1])
             /\ UNCHANGED lmServer
    BY <2>1, <2>5, ReturnFrame
       DEF CaptureLead, lmServer, LMInv, LatestInv, Answering
  <2>6. QED
    BY <2>1, <2>2, <2>3, <2>4, <2>5 DEF LeadButton
<1>2. CASE LMRefuses
  BY <1>2, ReturnFrame DEF LMRefuses, lmFormVars, lmForm, lmServer
<1>3. CASE LoginButton \/ LogoutButton \/ CheckVateamButton
           \/ IvnewsessionButton \/ TimerSlots
  <2>1. UNCHANGED <<lead_id, lm_lead>>
    BY <1>3 DEF LoginButton, LogoutButton, CheckVateamButton,
                IvnewsessionButton, TimerSlots, RequestLogin, RequestLogout,
                RequestCheck, RequestIvnewsession, CaptureLogin, ForgetLogin,
                ToggleCheck, CapturePin, lmFormVars, lmForm, lmServer
  <2>2. MovesOnly({"login", "logout", "checkVateam", "ivnewsession", "alive",
                   "ivflag"})
    BY <1>3, LMMoves DEF MovesOnly
  <2>3. QED
    BY <2>1, <2>2 DEF MovesOnly, LeadSlot
<1>4. QED
  BY <1>1, <1>2, <1>3 DEF LMFormSlots

LEMMA LMKeepsPin ==
  ASSUME FrameOK, LMInv, LMFormSlots, HoldsPinOr({"ivnewsession"})
  PROVE  OnlyByItself(HoldsPinOr({"ivnewsession"})', {"ivnewsession"})
<1> USE DEF HoldsPinOr, OnlyByItself, Capturing
<1>1. CASE IvnewsessionButton
  <2>1. CASE Begin("ivnewsession", <<>>) /\ UNCHANGED lmFormVars
    BY <2>1, BeginFrame DEF lmFormVars, lmForm, lmServer
  <2>2. CASE \E p \in Pin : Answered("ivnewsession", <<p>>)
    BY <2>2, AnsweredFrame
  <2>3. CASE \E p \in Pin :
               RequestIvnewsession(p) /\ Whole("ivnewsession")
               /\ CapturePin(p)
    BY <2>3 DEF RequestIvnewsession, CapturePin
  <2>4. CASE /\ Return("ivnewsession", "answer")
             /\ CapturePin(frame.got[1])
             /\ UNCHANGED lmServer
    BY <2>4, ReturnFrame
       DEF CapturePin, lmServer, LMInv, LatestInv, Answering
  <2>5. QED
    BY <1>1, <2>1, <2>2, <2>3, <2>4 DEF IvnewsessionButton
<1>2. CASE LMRefuses
  BY <1>2, ReturnFrame DEF LMRefuses, lmFormVars, lmForm, lmServer
<1>3. CASE LoginButton \/ LogoutButton \/ CheckVateamButton \/ TimerSlots
           \/ \E slot \in LeadSlot : LeadButton(slot)
  <2>1. UNCHANGED <<pin, lm_pin>>
    BY <1>3 DEF LoginButton, LogoutButton, CheckVateamButton, LeadButton,
                TimerSlots, RequestLogin, RequestLogout, RequestCheck,
                RequestLead, CaptureLogin, ForgetLogin, ToggleCheck,
                CaptureLead, lmFormVars, lmForm, lmServer
  <2>2. MovesOnly(LeadSlot \cup {"login", "logout", "checkVateam", "alive",
                                 "ivflag"})
    BY <1>3, LMMoves DEF MovesOnly
  <2>3. QED
    BY <2>1, <2>2 DEF MovesOnly, LeadSlot
<1>4. QED
  BY <1>1, <1>2, <1>3 DEF LMFormSlots

(***************************************************************************)
(* The slots of other forms leave all this alone.                          *)
(***************************************************************************)
LEMMA LMForeign ==
  ASSUME LMInv, UNCHANGED lmFormVars, NEW slots, slots \cap LMSlot = {},
         MovesOnly(slots)
  PROVE  /\ LMInv'
         /\ HoldsLeadOr(LeadSlot) => HoldsLeadOr(LeadSlot)'
         /\ HoldsPinOr({"ivnewsession"}) => HoldsPinOr({"ivnewsession"})'
<1> USE DEF MovesOnly, LMSlot, LeadSlot, lmFormVars, lmForm, lmServer
<1>1. /\ LMFormTypes' /\ LoginInv' /\ LogoutInv' /\ TimerOnOpenSession'
  BY DEF LMInv, LMFormTypes, LoginInv, LogoutInv, TimerOnOpenSession,
         ToldOpen, Answering
<1>2. CheckInv' /\ LatestInv'
  BY DEF LMInv, CheckInv, CheckSpoiled, LatestInv, Answering
<1>3. /\ HoldsLeadOr(LeadSlot) => HoldsLeadOr(LeadSlot)'
      /\ HoldsPinOr({"ivnewsession"}) => HoldsPinOr({"ivnewsession"})'
  BY DEF HoldsLeadOr, HoldsPinOr, Capturing
<1>4. QED
  BY <1>1, <1>2, <1>3 DEF LMInv

-----------------------------------------------------------------------------
(* The Gari form. *)

LEMMA GariKeepsInv ==
  ASSUME FrameOK, GariInv, GariFormSlots
  PROVE  FrameOK' /\ GariInv'
<1> USE GariFormAssumption
    DEF GariInv, GariFormTypes, RoomOpen, Answering, gariForm, gariFormVars
<1>1. CASE CreateSlot("createSeed", CreateSeed)
  BY <1>1, BeginFrame, ReturnFrame, WholeFrame DEF CreateSlot, CreateSeed
<1>2. CASE CreateSlot("createSession", CreateSession)
  BY <1>2, BeginFrame, ReturnFrame, WholeFrame DEF CreateSlot, CreateSession
<1>3. CASE Slot("readSeed", ReadSeed, ForgetSeed)
  BY <1>3, BeginFrame, AnsweredFrame, ReturnFrame, WholeFrame,
     UnansweredFrame DEF Slot, ReadSeed, ForgetSeed
<1>4. CASE Slot("deleteSeed", DeleteSeed, ForgetSeed)
  BY <1>4, BeginFrame, AnsweredFrame, ReturnFrame, WholeFrame,
     UnansweredFrame DEF Slot, DeleteSeed, ForgetSeed
<1>5. CASE Slot("deleteSession", DeleteSession, ForgetSession)
  BY <1>5, BeginFrame, AnsweredFrame, ReturnFrame, WholeFrame,
     UnansweredFrame DEF Slot, DeleteSession, ForgetSession
<1>6. CASE ReadSessionSlot
  BY <1>6, BeginFrame, AnsweredFrame, ReturnFrame, WholeFrame
     DEF ReadSessionSlot, ReadSession, StoreUser
<1>7. CASE GariRefuses
  BY <1>7, ReturnFrame DEF GariRefuses
<1>8. QED
  BY <1>1, <1>2, <1>3, <1>4, <1>5, <1>6, <1>7 DEF GariFormSlots

LEMMA GariMoves ==
  ASSUME FrameOK, GariFormSlots
  PROVE  MovesOnly(GariSlot)
BY BeginFrame, AnsweredFrame, ReturnFrame, WholeFrame, UnansweredFrame
   DEF MovesOnly, GariSlot, GariFormSlots, CreateSlot, Slot, ReadSessionSlot,
       GariRefuses

(***************************************************************************)
(* What RoomAndUserKept says of a step.                                    *)
(***************************************************************************)
LEMMA GariKeepsRooms ==
  ASSUME FrameOK, GariInv, GariFormSlots
  PROVE  /\ RoomOpen(session_id) /\ session_id' = NoRoom
               /\ gari_rooms'[session_id] = "open"
             => Interrupted("deleteSession", {"createSession"})
         /\ user_id = session_id \/ user_id = NoRoom
             => \/ user_id' \in {session_id', NoRoom}
                \/ session_id' \notin {session_id, NoRoom}
                \/ Interrupted("readSession",
                               {"createSession", "deleteSession"})
<1> USE GariFormAssumption
    DEF GariInv, GariFormTypes, RoomOpen, Answering, Interrupted, gariForm,
        gariFormVars
<1>1. CASE CreateSlot("createSeed", CreateSeed)
  BY <1>1 DEF CreateSlot, CreateSeed
<1>2. CASE CreateSlot("createSession", CreateSession)
  BY <1>2 DEF CreateSlot, CreateSession
<1>3. CASE Slot("readSeed", ReadSeed, ForgetSeed)
  BY <1>3 DEF Slot, ReadSeed, ForgetSeed
<1>4. CASE Slot("deleteSeed", DeleteSeed, ForgetSeed)
  BY <1>4 DEF Slot, DeleteSeed, ForgetSeed
<1>5. CASE Slot("deleteSession", DeleteSession, ForgetSession)
  BY <1>5, ReturnFrame DEF Slot, DeleteSession, ForgetSession
<1>6. CASE ReadSessionSlot
  BY <1>6, ReturnFrame DEF ReadSessionSlot, ReadSession, StoreUser
<1>7. CASE GariRefuses
  BY <1>7 DEF GariRefuses
<1>8. QED
  BY <1>1, <1>2, <1>3, <1>4, <1>5, <1>6, <1>7 DEF GariFormSlots

LEMMA GariForeign ==
  ASSUME GariInv, UNCHANGED gariFormVars, NEW slots, slots \cap GariSlot = {},
         MovesOnly(slots)
  PROVE  GariInv'
BY DEF GariInv, GariFormTypes, RoomOpen, Answering, MovesOnly, GariSlot,
       gariForm, gariFormVars

-----------------------------------------------------------------------------
(* The ACM form. *)

LEMMA ACMKeepsTypes ==
  ASSUME FrameOK, ACMInv, ACMFormSlots
  PROVE  FrameOK' /\ ACMTypes'
<1> USE DEF ACMInv, ACMTypes, ACMFormTypes, Answering, acmFormVars
<1>1. CASE NewAlphaButton
  <2>1. CASE Begin("newAlpha", <<>>) /\ UNCHANGED acmFormVars
    BY <2>1, BeginFrame
  <2>2. CASE \E a \in Alpha \cup {NoAlpha} :
               /\ RequestNewAlpha(a)
               /\ excess' = IF a = NoAlpha THEN excess + 1 ELSE excess
               /\ Answered("newAlpha", <<a>>) /\ UNCHANGED alpha_map
    BY <2>2, AnsweredFrame DEF RequestNewAlpha
  <2>3. CASE \E a \in Alpha \cup {NoAlpha} :
               /\ RequestNewAlpha(a)
               /\ excess' = IF a = NoAlpha THEN excess + 1 ELSE excess
               /\ Whole("newAlpha") /\ alpha_map' = alpha_map \cup {a}
    BY <2>3, WholeFrame DEF RequestNewAlpha
  <2>4. CASE /\ \E a \in Alpha : RequestNewAlpha(a)
             /\ Unanswered("newAlpha")
             /\ UNCHANGED <<alpha_map, excess>>
    BY <2>4, UnansweredFrame DEF RequestNewAlpha
  <2>5. CASE /\ Return("newAlpha", "answer")
             /\ alpha_map' = alpha_map \cup {frame.got[1]}
             /\ UNCHANGED <<acm_alphas, excess>>
    BY <2>5, ReturnFrame
  <2>6. QED
    BY <1>1, <2>1, <2>2, <2>3, <2>4, <2>5 DEF NewAlphaButton
<1>2. CASE FreeAlphaButton
  BY <1>2, BeginFrame, AnsweredFrame, ReturnFrame, WholeFrame,
     UnansweredFrame DEF FreeAlphaButton, RequestFreeAlpha, EraseFirst
<1>3. CASE FirstAlphaButton
  BY <1>3, BeginFrame, ReturnFrame, CrashedFrame DEF FirstAlphaButton
<1>4. CASE ACMRefuses
  BY <1>4, ReturnFrame DEF ACMRefuses
<1>5. QED
  BY <1>1, <1>2, <1>3, <1>4 DEF ACMFormSlots

LEMMA MinElement ==
  ASSUME NEW S \in SUBSET Nat, S # {}
  PROVE  Min(S) \in S
<1> DEFINE R == OpToRel(<, Nat)
<1>1. IsWellFoundedOn(R, Nat)
  BY NatLessThanWellFounded, Zenon
<1>2. \A x, y \in Nat : x < y => <<x, y>> \in R
  BY Zenon DEF OpToRel
<1> HIDE DEF R
<1>3. PICK m \in S : \A y \in S : ~ (<<y, m>> \in R)
  BY <1>1, WFMin
<1>4. \A y \in S : m <= y
  <2>1. S \subseteq Nat
    OBVIOUS
  <2>2. TAKE y \in S
  <2>3. y \in Nat /\ m \in Nat
    BY <2>1
  <2>4. ~(y < m)
    BY <1>2, <1>3, <2>3
  <2>5. QED
    BY <2>3, <2>4
<1>5. QED
  BY <1>4 DEF Min

(***************************************************************************)
(* The slots of the form, one case for each thing they can do: reserve an  *)
(* alpha, store it, free one, erase it.                                    *)
(***************************************************************************)
Reserves ==
  \E a \in Alpha \cup {NoAlpha} :
    /\ a \notin acm_alphas
    /\ acm_alphas' = IF a = NoAlpha THEN acm_alphas ELSE acm_alphas \cup {a}
    /\ excess' = IF a = NoAlpha THEN excess + 1 ELSE excess
    /\ \/ Answered("newAlpha", <<a>>) /\ UNCHANGED alpha_map
       \/ Whole("newAlpha") /\ alpha_map' = alpha_map \cup {a}

ReservesUnanswered ==
  /\ \E a \in Alpha :
       a \notin acm_alphas /\ acm_alphas' = acm_alphas \cup {a}
  /\ Unanswered("newAlpha")
  /\ UNCHANGED <<alpha_map, excess>>

Stores ==
  /\ Return("newAlpha", "answer")
  /\ alpha_map' = alpha_map \cup {frame.got[1]}
  /\ UNCHANGED <<acm_alphas, excess>>

Frees ==
  \E a \in alpha_map :
    /\ acm_alphas' \in {acm_alphas, acm_alphas \ {a}}
    /\ \/ /\ Answered("freeAlpha", <<>>)
          /\ UNCHANGED <<alpha_map, excess>>
       \/ /\ Whole("freeAlpha")
          /\ alpha_map' = alpha_map \ {a}
          /\ UNCHANGED excess
       \/ /\ Unanswered("freeAlpha")
          /\ excess' = excess + 1
          /\ UNCHANGED alpha_map

Erases ==
  /\ Return("freeAlpha", "answer")
  /\ \/ alpha_map = {} /\ UNCHANGED alpha_map
     \/ \E a \in alpha_map : alpha_map' = alpha_map \ {a}
  /\ UNCHANGED <<acm_alphas, excess>>

LeavesAlphas ==
  /\ UNCHANGED acmFormVars
  /\ frame.slot \in {"none", "newAlpha", "freeAlpha", "alphaStatus"}
  /\ frame.slot # "none" => frame.at = "ask" \/ frame.slot = "alphaStatus"
  /\ frame'.slot \in {"none", "crashed"} \/ frame'.at = "ask"

LEMMA ACMCases ==
  ASSUME FrameOK, ACMInv, ACMFormSlots
  PROVE  Reserves \/ ReservesUnanswered \/ Stores \/ Frees \/ Erases
         \/ LeavesAlphas
<1>1. alpha_map # {} => Min(alpha_map) \in alpha_map
  <2>1. alpha_map \in SUBSET Nat
    BY AlphaAssumption DEF ACMInv, ACMTypes, ACMFormTypes, NoAlpha
  <2>2. QED
    BY <2>1, MinElement
<1>2. CASE NewAlphaButton
  <2>1. CASE Begin("newAlpha", <<>>) /\ UNCHANGED acmFormVars
    BY <2>1, BeginFrame DEF LeavesAlphas
  <2>2. CASE \E a \in Alpha \cup {NoAlpha} :
               /\ RequestNewAlpha(a)
               /\ excess' = IF a = NoAlpha THEN excess + 1 ELSE excess
               /\ \/ Answered("newAlpha", <<a>>) /\ UNCHANGED alpha_map
                  \/ Whole("newAlpha") /\ alpha_map' = alpha_map \cup {a}
    <3>1. \A a \in Alpha \cup {NoAlpha} :
            RequestNewAlpha(a) =>
              /\ a \notin acm_alphas
              /\ acm_alphas' = IF a = NoAlpha THEN acm_alphas
                                              ELSE acm_alphas \cup {a}
      BY DEF RequestNewAlpha
    <3>2. QED
      BY <2>2, <3>1 DEF Reserves
  <2>3. CASE /\ \E a \in Alpha : RequestNewAlpha(a)
             /\ Unanswered("newAlpha")
             /\ UNCHANGED <<alpha_map, excess>>
    <3>1. \A a \in Alpha :
            RequestNewAlpha(a) =>
              a \notin acm_alphas /\ acm_alphas' = acm_alphas \cup {a}
      BY AlphaAssumption DEF RequestNewAlpha, NoAlpha
    <3>2. QED
      BY <2>3, <3>1 DEF ReservesUnanswered
  <2>4. CASE Stores
    BY <2>4
  <2>5. QED
    BY <1>2, <2>1, <2>2, <2>3, <2>4 DEF NewAlphaButton, Stores
<1>3. CASE FreeAlphaButton
  <2>1. CASE Begin("freeAlpha", <<>>) /\ UNCHANGED acmFormVars
    BY <2>1, BeginFrame DEF LeavesAlphas
  <2>2. CASE /\ RequestFreeAlpha
             /\ \/ Answered("freeAlpha", <<>>) /\ UNCHANGED alpha_map
                \/ Whole("freeAlpha") /\ EraseFirst
             /\ UNCHANGED excess
    BY <1>1, <2>2 DEF RequestFreeAlpha, EraseFirst, Frees
  <2>3. CASE /\ RequestFreeAlpha
             /\ Unanswered("freeAlpha")
             /\ excess' = excess + 1
             /\ UNCHANGED alpha_map
    BY <1>1, <2>3 DEF RequestFreeAlpha, Frees
  <2>4. CASE /\ Return("freeAlpha", "answer")
             /\ EraseFirst
             /\ UNCHANGED <<acm_alphas, excess>>
    BY <1>1, <2>4 DEF EraseFirst, Erases
  <2>5. QED
    BY <1>3, <2>1, <2>2, <2>3, <2>4 DEF FreeAlphaButton
<1>4. CASE FirstAlphaButton
  BY <1>4, BeginFrame, ReturnFrame, CrashedFrame
     DEF FirstAlphaButton, LeavesAlphas
<1>5. CASE ACMRefuses
  BY <1>5, ReturnFrame DEF ACMRefuses, LeavesAlphas
<1>6. QED
  BY <1>2, <1>3, <1>4, <1>5 DEF ACMFormSlots

LEMMA ACMKeepsCount ==
  ASSUME FrameOK, ACMInv, ACMFormSlots
  PROVE  AlphaCount'
<1> DEFINE map   == Cardinality(alpha_map)
           acm   == Cardinality(acm_alphas)
           new   == Waiting("newAlpha")
           free  == Waiting("freeAlpha")
<1>1. /\ IsFiniteSet(alpha_map) /\ IsFiniteSet(acm_alphas)
      /\ map \in Nat /\ acm \in Nat /\ excess \in Nat
      /\ new \in {0, 1} /\ free \in {0, 1}
      /\ map + new <= acm + free + excess
  BY FS_CardinalityType
     DEF ACMInv, ACMTypes, ACMFormTypes, AlphaCount, Waiting
<1>2. \A a : /\ IsFiniteSet(alpha_map \cup {a})
             /\ Cardinality(alpha_map \cup {a}) \in {map, map + 1}
             /\ IsFiniteSet(alpha_map \ {a})
             /\ a \in alpha_map => Cardinality(alpha_map \ {a}) = map - 1
  BY <1>1, FS_AddElement, FS_RemoveElement
<1>3. \A a : /\ IsFiniteSet(acm_alphas \cup {a})
             /\ a \notin acm_alphas =>
                  Cardinality(acm_alphas \cup {a}) = acm + 1
             /\ IsFiniteSet(acm_alphas \ {a})
             /\ Cardinality(acm_alphas \ {a}) \in {acm, acm - 1}
  BY <1>1, FS_AddElement, FS_RemoveElement
<1>4. ASSUME IsFiniteSet(alpha_map'), IsFiniteSet(acm_alphas'),
             map' + new' <= acm' + free' + excess'
      PROVE  AlphaCount'
  BY <1>4 DEF AlphaCount
<1>5. CASE Reserves
  <2>1. PICK a \in Alpha \cup {NoAlpha} :
          /\ a \notin acm_alphas
          /\ acm_alphas' = IF a = NoAlpha THEN acm_alphas
                                          ELSE acm_alphas \cup {a}
          /\ excess' = IF a = NoAlpha THEN excess + 1 ELSE excess
          /\ \/ Answered("newAlpha", <<a>>) /\ UNCHANGED alpha_map
             \/ Whole("newAlpha") /\ alpha_map' = alpha_map \cup {a}
    BY <1>5 DEF Reserves
  <2>2. /\ IsFiniteSet(acm_alphas') /\ acm' \in {acm, acm + 1}
        /\ acm' + excess' = acm + excess + 1
    <3>1. CASE a = NoAlpha
      BY <1>1, <2>1, <3>1
    <3>2. CASE a # NoAlpha
      <4>1. acm_alphas' = acm_alphas \cup {a} /\ excess' = excess
        BY <2>1, <3>2
      <4>2. IsFiniteSet(acm_alphas') /\ acm' = acm + 1
        BY <1>3, <2>1, <4>1
      <4>3. QED
        BY <1>1, <4>1, <4>2
    <3>3. QED
      BY <3>1, <3>2
  <2>3. CASE Answered("newAlpha", <<a>>) /\ UNCHANGED alpha_map
    <3>1. new = 0 /\ free = 0 /\ new' = 1 /\ free' = 0
      BY <2>3, AnsweredFrame DEF Waiting, Answering
    <3>2. map' = map /\ IsFiniteSet(alpha_map')
      BY <1>1, <2>3
    <3>3. excess' \in Nat
      BY <1>1, <2>1
    <3>4. QED
      BY <1>1, <1>4, <2>2, <3>1, <3>2, <3>3
  <2>4. CASE Whole("newAlpha") /\ alpha_map' = alpha_map \cup {a}
    <3>1. new' = new /\ free' = free
      BY <2>4, WholeFrame DEF Waiting, Answering
    <3>2. map' \in {map, map + 1} /\ IsFiniteSet(alpha_map')
      BY <1>2, <2>4
    <3>3. excess' \in Nat
      BY <1>1, <2>1
    <3>4. QED
      BY <1>1, <1>4, <2>2, <3>1, <3>2, <3>3
  <2>5. QED
    BY <2>1, <2>3, <2>4
<1>6. CASE ReservesUnanswered
  <2>1. /\ IsFiniteSet(acm_alphas') /\ acm' = acm + 1
        /\ map' = map /\ IsFiniteSet(alpha_map') /\ excess' = excess
    BY <1>1, <1>3, <1>6 DEF ReservesUnanswered
  <2>2. \/ new = 0 /\ free = 0 /\ new' = 0 /\ free' = 0
        \/ new' = new /\ free' = free
    BY <1>6, UnansweredFrame DEF ReservesUnanswered, Waiting, Answering
  <2>3. QED
    BY <1>1, <1>4, <2>1, <2>2
<1>7. CASE Stores
  <2>1. new = 1 /\ free = 0 /\ new' = 0 /\ free' = 0
    BY <1>7, ReturnFrame DEF Stores, Waiting, Answering
  <2>2. /\ IsFiniteSet(alpha_map') /\ map' \in {map, map + 1}
        /\ IsFiniteSet(acm_alphas') /\ acm' = acm /\ excess' = excess
    BY <1>1, <1>2, <1>7 DEF Stores
  <2>3. QED
    BY <1>1, <1>4, <2>1, <2>2
<1>8. CASE Frees
  <2>1. PICK a \in alpha_map :
          /\ acm_alphas' \in {acm_alphas, acm_alphas \ {a}}
          /\ \/ /\ Answered("freeAlpha", <<>>)
                /\ UNCHANGED <<alpha_map, excess>>
             \/ /\ Whole("freeAlpha")
                /\ alpha_map' = alpha_map \ {a}
                /\ UNCHANGED excess
             \/ /\ Unanswered("freeAlpha")
                /\ excess' = excess + 1
                /\ UNCHANGED alpha_map
    BY <1>8 DEF Frees
  <2>2. IsFiniteSet(acm_alphas') /\ acm' \in {acm, acm - 1}
    BY <1>1, <1>3, <2>1
  <2>3. CASE Answered("freeAlpha", <<>>) /\ UNCHANGED <<alpha_map, excess>>
    <3>1. new = 0 /\ free = 0 /\ new' = 0 /\ free' = 1
      BY <2>3, AnsweredFrame DEF Waiting, Answering
    <3>2. map' = map /\ IsFiniteSet(alpha_map') /\ excess' = excess
      BY <1>1, <2>3
    <3>3. QED
      BY <1>1, <1>4, <2>2, <3>1, <3>2
  <2>4. CASE /\ Whole("freeAlpha") /\ alpha_map' = alpha_map \ {a}
             /\ UNCHANGED excess
    <3>1. new' = new /\ free' = free
      BY <2>4, WholeFrame DEF Waiting, Answering
    <3>2. map' = map - 1 /\ IsFiniteSet(alpha_map') /\ excess' = excess
      BY <1>2, <2>1, <2>4
    <3>3. QED
      BY <1>1, <1>4, <2>2, <3>1, <3>2
  <2>5. CASE /\ Unanswered("freeAlpha") /\ excess' = excess + 1
             /\ UNCHANGED alpha_map
    <3>1. \/ new = 0 /\ free = 0 /\ new' = 0 /\ free' = 0
          \/ new' = new /\ free' = free
      BY <2>5, UnansweredFrame DEF Waiting, Answering
    <3>2. map' = map /\ IsFiniteSet(alpha_map') /\ excess' = excess + 1
      BY <1>1, <2>5
    <3>3. QED
      BY <1>1, <1>4, <2>2, <3>1, <3>2
  <2>6. QED
    BY <2>1, <2>3, <2>4, <2>5
<1>9. CASE Erases
  <2>1. new = 0 /\ free = 1 /\ new' = 0 /\ free' = 0
    BY <1>9, ReturnFrame DEF Erases, Waiting, Answering
  <2>2. IsFiniteSet(acm_alphas') /\ acm' = acm /\ excess' = excess
    BY <1>1, <1>9 DEF Erases
  <2>3. CASE alpha_map = {} /\ UNCHANGED alpha_map
    <3>1. map' = 0 /\ IsFiniteSet(alpha_map')
      BY <2>3, FS_EmptySet
    <3>2. QED
      BY <1>1, <1>4, <2>1, <2>2, <3>1
  <2>4. CASE \E a \in alpha_map : alpha_map' = alpha_map \ {a}
    <3>1. map' = map - 1 /\ IsFiniteSet(alpha_map')
      BY <1>2, <2>4
    <3>2. QED
      BY <1>1, <1>4, <2>1, <2>2, <3>1
  <2>5. QED
    BY <1>9, <2>3, <2>4 DEF Erases
<1>10. CASE LeavesAlphas
  <2>1. new = 0 /\ free = 0 /\ new' = 0 /\ free' = 0
    BY <1>10 DEF LeavesAlphas, Waiting, Answering
  <2>2. /\ IsFiniteSet(alpha_map') /\ IsFiniteSet(acm_alphas')
        /\ map' = map /\ acm' = acm /\ excess' = excess
    BY <1>1, <1>10 DEF LeavesAlphas, acmFormVars
  <2>3. QED
    BY <1>1, <1>4, <2>1, <2>2
<1>11. QED
  BY <1>5, <1>6, <1>7, <1>8, <1>9, <1>10, ACMCases

LEMMA ACMKeepsInv ==
  ASSUME FrameOK, ACMInv, ACMFormSlots
  PROVE  FrameOK' /\ ACMInv'
BY ACMKeepsTypes, ACMKeepsCount DEF ACMInv

LEMMA ACMMoves ==
  ASSUME FrameOK, ACMFormSlots
  PROVE  MovesOnly(ACMSlot)
BY BeginFrame, AnsweredFrame, ReturnFrame, WholeFrame, UnansweredFrame,
   CrashedFrame
   DEF MovesOnly, ACMSlot, ACMFormSlots, NewAlphaButton, FreeAlphaButton,
       FirstAlphaButton, ACMRefuses

LEMMA ACMForeign ==
  ASSUME ACMInv, UNCHANGED acmFormVars, NEW slots, slots \cap ACMSlot = {},
         MovesOnly(slots)
  PROVE  ACMInv'
<1> USE DEF MovesOnly, ACMSlot, acmFormVars, Answering
<1>1. ACMTypes'
  BY DEF ACMInv, ACMTypes, ACMFormTypes
<1>2. \A slot \in ACMSlot : Answering({slot})' <=> Answering({slot})
  OBVIOUS
<1>3. AlphaCount'
  <2>1. Waiting("newAlpha")' = Waiting("newAlpha")
    BY <1>2 DEF Waiting
  <2>2. Waiting("freeAlpha")' = Waiting("freeAlpha")
    BY <1>2 DEF Waiting
  <2>3. QED
    BY <2>1, <2>2 DEF ACMInv, AlphaCount
<1>4. QED
  BY <1>1, <1>3 DEF ACMInv

-----------------------------------------------------------------------------
(* The PBX form. *)

Status == {"no_call", "calling", "called_ok", "bridging", "bridged_ok",
           "hanging_up"}

LEMMA StatusOK ==
  ASSUME NEW st \in Status
  PROVE  /\ PbxOk(st) \in Status /\ PbxKo(st) \in Status
         /\ Hold(st) \in Status /\ HangUp(st) \in Status
BY DEF Status, PbxOk, PbxKo, Hold, HangUp

(***************************************************************************)
(* The three ways the threads change.                                      *)
(***************************************************************************)
LEMMA SpawnThread ==
  ASSUME ThreadOK, NEW runs \in Runs \ {"nothing"}, NEW at \in Place(runs),
         Spawn(runs, at)
  PROVE  /\ ThreadOK'
         /\ \E new \in Thread :
              /\ thread[new] = Free
              /\ thread'[new] = [runs |-> runs, at |-> at]
              /\ \A u \in Thread \ {new} : thread'[u] = thread[u]
<1> DEFINE free == {t \in Thread : thread[t] = Free}
           new == CHOOSE t \in free : TRUE
<1>1. free # {} /\ thread' = [thread EXCEPT ![new] = [runs |-> runs, at |-> at]]
  BY DEF Spawn
<1>2. new \in free
  BY <1>1
<1> HIDE DEF new
<1>3. /\ thread'[new] = [runs |-> runs, at |-> at]
      /\ \A u \in Thread \ {new} : thread'[u] = thread[u]
      /\ DOMAIN thread' = Thread
  BY <1>1, <1>2 DEF ThreadOK
<1>4. ThreadOK'
  BY <1>2, <1>3 DEF ThreadOK
<1>5. QED
  BY <1>2, <1>3, <1>4

LEMMA ThreadGoes ==
  ASSUME ThreadOK, NEW t \in Thread, NEW at \in Place(thread[t].runs),
         Goes(t, at)
  PROVE  /\ ThreadOK'
         /\ thread'[t] = [runs |-> thread[t].runs, at |-> at]
         /\ thread'[t].runs = thread[t].runs /\ thread'[t].at = at
         /\ \A u \in Thread \ {t} : thread'[u] = thread[u]
<1>1. /\ thread'[t] = [runs |-> thread[t].runs, at |-> at]
      /\ \A u \in Thread \ {t} : thread'[u] = thread[u]
      /\ DOMAIN thread' = Thread
  BY DEF ThreadOK, Goes
<1>2. ThreadOK'
  BY <1>1 DEF ThreadOK
<1>3. QED
  BY <1>1, <1>2

LEMMA ThreadEnds ==
  ASSUME ThreadOK, NEW t \in Thread, Ends(t)
  PROVE  /\ ThreadOK'
         /\ thread'[t] = Free
         /\ thread'[t].runs = "nothing" /\ thread'[t].at = "free"
         /\ \A u \in Thread \ {t} : thread'[u] = thread[u]
<1>1. /\ thread'[t] = Free
      /\ \A u \in Thread \ {t} : thread'[u] = thread[u]
      /\ DOMAIN thread' = Thread
  BY DEF ThreadOK, Ends
<1>2. ThreadOK'
  BY <1>1 DEF ThreadOK, Free, Runs, Place, Member
<1>3. QED
  BY <1>1, <1>2 DEF Free

(***************************************************************************)
(* A thread that is no call has the form for itself.                       *)
(***************************************************************************)
LEMMA OthersFree ==
  ASSUME ThreadOK, Alone, NEW t \in Thread,
         thread[t].runs \notin Member \cup {"nothing"}
  PROVE  \A u \in Thread \ {t} :
           thread[u] = Free /\ thread[u].runs = "nothing"
           /\ thread[u].at = "free"
BY DEF Alone, Free, ThreadOK

LEMMA NoneHungUp ==
  ASSUME ThreadOK, Alone, NEW t \in Thread, thread[t] # Free,
         \A u \in Thread \ {t} : thread'[u] = thread[u],
         thread'[t].at # "request_hangup"
  PROVE  HungUp'
<1>1. \A u \in Thread \ {t} :
        thread[u] = Free \/ thread[u].runs \in Member
  BY DEF Alone
<1>2. \A u \in Thread \ {t} : thread[u].at # "request_hangup"
  <2>1. TAKE u \in Thread \ {t}
  <2>2. CASE thread[u] = Free
    BY <2>2 DEF Free
  <2>3. CASE thread[u].runs \in Member
    <3>1. Place(thread[u].runs) = {"call"} \cup Calling
      BY <2>3 DEF Place, Member
    <3>2. QED
      BY <3>1 DEF ThreadOK, Calling
  <2>4. QED
    BY <1>1, <2>2, <2>3
<1>3. QED
  BY <1>2 DEF HungUp

(***************************************************************************)
(* A thread starts: with a hangup one is due, and any other has done       *)
(* nothing so far.                                                         *)
(***************************************************************************)
LEMMA SpawnKeepsInv ==
  ASSUME PbxInv, NEW runs \in Runs \ {"nothing"}, NEW at \in Place(runs),
         Spawn(runs, at), at \in {"call", "hold", "choose", "generate", "hang_up"},
         runs = "inbound" => at = "generate",
         runs = "hangup" => at = "hang_up",
         runs = "hangup" \/ UNCHANGED hangups,
         hangups' \in 0 .. events', events' \in 0 .. MaxEvents,
         UNCHANGED <<status, conference, connected, bridged, inbound>>,
         overlapped' \in BOOLEAN,
         ~overlapped' => ~overlapped /\ ~Overlaps(runs)
  PROVE  PbxInv'
<1>1. PICK new \in Thread :
        /\ thread[new] = Free
        /\ thread'[new] = [runs |-> runs, at |-> at]
        /\ \A u \in Thread \ {new} : thread'[u] = thread[u]
  BY SpawnThread DEF PbxInv
<1>2. ThreadOK' /\ ThreadOK
  BY SpawnThread DEF PbxInv
<1>3. PbxFormTypes' /\ hangups' <= events'
  BY EventsAssumption DEF PbxInv, PbxFormTypes
<1>4. ~overlapped' => Alone' /\ HungUp'
  <2>1. ~overlapped' => Alone'
    BY <1>1, <1>2 DEF PbxInv, Alone, Overlaps
  <2>2. ~overlapped' => HungUp'
    BY <1>1 DEF PbxInv, HungUp
  <2>3. QED
    BY <2>1, <2>2
<1>5. ASSUME ~overlapped', ~HangupDue'
      PROVE  (Shown /\ CallsUnderWay /\ BridgesUnderWay)'
  <2>1. ~overlapped /\ runs # "hangup"
    BY <1>1, <1>5 DEF HangupDue
  <2>2. ~HangupDue
    BY <1>1, <1>5, <2>1 DEF HangupDue, Free
  <2>3. Shown /\ CallsUnderWay /\ BridgesUnderWay
    BY <2>1, <2>2 DEF PbxInv
  <2>4. thread'[new].runs = runs /\ thread'[new].at = at
    BY <1>1
  <2>5. thread[new].runs = "nothing" /\ thread[new].at = "free"
    BY <1>1 DEF Free
  <2>6. Shown'
    BY <2>3 DEF Shown
  <2>7. CallsUnderWay'
    BY <1>1, <2>3, <2>4, <2>5 DEF CallsUnderWay, Calling, Member
  <2>8. BridgesUnderWay'
    BY <1>1, <2>3, <2>4, <2>5 DEF BridgesUnderWay, Held, Bridging
  <2>9. QED
    BY <2>6, <2>7, <2>8
<1>6. QED
  BY <1>2, <1>3, <1>4, <1>5 DEF PbxInv

(***************************************************************************)
(* A new call object: no channel has a call and no thread knows it yet.    *)
(***************************************************************************)
LEMMA NewCallKeepsInv ==
  ASSUME PbxInv, NEW called_in \in BOOLEAN, GenerateCall(called_in),
         UNCHANGED <<conference, hangups>>, ThreadOK', overlapped' \in BOOLEAN,
         events \in 0 .. MaxEvents, events' \in events .. MaxEvents,
         ~overlapped' =>
           /\ Alone'
           /\ \A t \in Thread : /\ thread'[t].at \in {"free", "call"}
                                /\ thread'[t].runs = "inbound" => called_in
  PROVE  PbxInv'
<1>1. /\ hangups \in 0 .. MaxEvents /\ hangups <= events
      /\ conference \in SUBSET Member
  BY DEF PbxInv, PbxFormTypes
<1>2. hangups' \in 0 .. MaxEvents /\ hangups' <= events'
  BY <1>1, EventsAssumption
<1>3. /\ status' \in [Member -> Status] /\ inbound' \in BOOLEAN
      /\ \A m \in Member : status'[m] = "no_call"
  BY DEF GenerateCall, Status
<1>4. PbxFormTypes'
  BY <1>1, <1>2, <1>3 DEF PbxFormTypes, GenerateCall, Status
<1>5. Shown'
  BY <1>3 DEF Shown
<1>6. ASSUME ~overlapped' PROVE CallsUnderWay'
  <2>1. \A t \in Thread : thread'[t].at \notin Calling
    BY <1>6 DEF Calling
  <2>2. \A t \in Thread : thread'[t].runs = "inbound" => inbound'
    BY <1>6 DEF GenerateCall
  <2>3. \A m \in Member : status'[m] # "calling"
    BY <1>3
  <2>4. QED
    BY <2>1, <2>2, <2>3 DEF CallsUnderWay
<1>7. ~overlapped' => BridgesUnderWay'
  BY <1>3 DEF BridgesUnderWay, Held, Bridging
<1>8. HungUp'
  BY <1>3 DEF HungUp
<1>9. QED
  BY <1>2, <1>4, <1>5, <1>6, <1>7, <1>8 DEF PbxInv

LEMMA CallUserKeepsInv ==
  ASSUME FrameOK, PbxInv, CallUserButton
  PROVE  FrameOK' /\ PbxInv'
<1>1. /\ "user" \in Runs \ {"nothing"} /\ "call" \in Place("user")
      /\ ThreadOK /\ hangups \in 0 .. events /\ overlapped \in BOOLEAN
  BY EventsAssumption DEF Runs, Member, Place, PbxInv, PbxFormTypes, FrameOK
<1>2. CASE /\ Begin("callUser", <<>>)
           /\ GenerateCall(FALSE)
           /\ overlapped' = Active
           /\ UNCHANGED <<conference, thread, hangups>>
  <2>1. FrameOK' /\ events' \in events .. MaxEvents
    BY <1>2, BeginFrame, EventsAssumption DEF Begin, Event, FrameOK
  <2>2. ThreadOK' /\ overlapped' \in BOOLEAN
    BY <1>1, <1>2 DEF ThreadOK, Active
  <2>3. ~overlapped' => \A t \in Thread : thread'[t] = Free
    BY <1>2 DEF Active
  <2>4. ~overlapped' =>
          /\ Alone'
          /\ \A t \in Thread : /\ thread'[t].at \in {"free", "call"}
                               /\ thread'[t].runs # "inbound"
    BY <2>3 DEF Alone, Free
  <2>5. PbxInv'
    BY <1>2, <2>1, <2>2, <2>4, NewCallKeepsInv DEF FrameOK
  <2>6. QED
    BY <2>1, <2>5
<1>3. CASE /\ Return("callUser", "ask")
           /\ Spawn("user", "call")
           /\ overlapped' = (overlapped \/ Overlaps("user"))
           /\ UNCHANGED <<conference, hangups, call>>
  <2>1. FrameOK' /\ events' = events
    BY <1>3, ReturnFrame DEF Return
  <2>2. PbxInv'
    BY <1>1, <1>3, <2>1, SpawnKeepsInv DEF call, FrameOK
  <2>3. QED
    BY <2>1, <2>2
<1>4. CASE /\ Whole("callUser")
           /\ GenerateCall(FALSE)
           /\ Spawn("user", "call")
           /\ overlapped' = Active
           /\ UNCHANGED <<conference, hangups>>
  <2>1. FrameOK' /\ events' \in events .. MaxEvents
    BY <1>4, WholeFrame, EventsAssumption
       DEF Whole, WholeDid, Event, FrameOK
  <2>2. PICK new \in Thread :
          /\ thread[new] = Free
          /\ thread'[new] = [runs |-> "user", at |-> "call"]
          /\ \A u \in Thread \ {new} : thread'[u] = thread[u]
    BY <1>1, <1>4, SpawnThread
  <2>3. ThreadOK' /\ overlapped' \in BOOLEAN
    BY <1>1, <1>4, SpawnThread DEF Active
  <2>4. ~overlapped' => \A u \in Thread \ {new} : thread'[u] = Free
    BY <1>4, <2>2 DEF Active
  <2>5. ~overlapped' =>
          /\ Alone'
          /\ \A t \in Thread : /\ thread'[t].at \in {"free", "call"}
                               /\ thread'[t].runs # "inbound"
    BY <2>2, <2>4 DEF Alone, Free
  <2>6. PbxInv'
    BY <1>4, <2>1, <2>3, <2>5, NewCallKeepsInv DEF FrameOK
  <2>7. QED
    BY <2>1, <2>6
<1>5. QED
  BY <1>2, <1>3, <1>4 DEF CallUserButton

LEMMA PbxSlotsKeepInv ==
  ASSUME FrameOK, PbxInv, PbxFormSlots
  PROVE  FrameOK' /\ PbxInv'
<1>1. /\ ThreadOK /\ hangups \in 0 .. events /\ overlapped \in BOOLEAN
      /\ events \in 0 .. MaxEvents
  BY EventsAssumption DEF PbxInv, PbxFormTypes, FrameOK
<1>2. CASE CallUserButton
  BY <1>2, CallUserKeepsInv
<1>3. CASE ThreadButton
  <2>1. PICK runs \in {"agent", "third", "bridge", "redirect", "hangup"} :
          /\ Whole(runs)
          /\ Spawn(runs, FirstStep(runs))
          /\ overlapped' = (overlapped \/ Overlaps(runs))
    BY <1>3 DEF ThreadButton
  <2>2. FrameOK' /\ events <= events'
    <3>1. events' = events + 1
      BY <2>1 DEF Whole, WholeDid, Event
    <3>2. QED
      BY <1>1, <2>1, <3>1, WholeFrame
  <2>3. /\ runs \in Runs \ {"nothing"}
        /\ FirstStep(runs) \in Place(runs)
        /\ FirstStep(runs) \in {"call", "hold", "choose", "hang_up"}
        /\ runs = "hangup" => FirstStep(runs) = "hang_up"
        /\ runs # "inbound"
    BY DEF Runs, Member, Place, FirstStep, Held
  <2>4. hangups' \in 0 .. events' /\ events' \in 0 .. MaxEvents
    BY <1>1, <1>3, <2>2, EventsAssumption DEF ThreadButton, FrameOK
  <2>5. UNCHANGED <<status, conference, connected, bridged, inbound, hangups>>
    BY <1>3 DEF ThreadButton, call
  <2>6. PbxInv'
    BY <1>1, <2>1, <2>3, <2>4, <2>5, SpawnKeepsInv
  <2>7. QED
    BY <2>2, <2>6
<1>4. CASE HangupEvent
  <2>1. PICK m \in Member :
          /\ connected' = connected \ {m}
          /\ bridged' = IF m \in bridged THEN {} ELSE bridged
    BY <1>4 DEF HangupEvent
  <2>2. FrameOK' /\ events' = events + 1 /\ events' \in 0 .. MaxEvents
    BY <1>1, <1>4, EventsAssumption DEF HangupEvent, Event, FrameOK
  <2>3. hangups' = hangups + 1 /\ hangups' > 0 /\ hangups' <= events'
    BY <1>1, <1>4, <2>2, EventsAssumption DEF HangupEvent
  <2>4. UNCHANGED <<status, conference, thread, inbound, overlapped>>
    BY <1>4 DEF HangupEvent
  <2>5. PbxFormTypes'
    BY <1>1, <2>1, <2>2, <2>3, <2>4, EventsAssumption DEF PbxInv, PbxFormTypes
  <2>6. HangupDue' /\ ThreadOK' /\ (~overlapped' => Alone' /\ HungUp')
    BY <1>1, <2>3, <2>4 DEF HangupDue, ThreadOK, Alone, HungUp, PbxInv
  <2>7. QED
    BY <2>2, <2>3, <2>5, <2>6 DEF PbxInv
<1>5. CASE InboundEvent
  <2>1. FrameOK' /\ events' \in 0 .. MaxEvents /\ events <= events'
    BY <1>1, <1>5, EventsAssumption DEF InboundEvent, Event, FrameOK
  <2>2. /\ "inbound" \in Runs \ {"nothing"}
        /\ "generate" \in Place("inbound")
        /\ Overlaps("inbound") => Active
    BY DEF Runs, Member, Place, Overlaps, Active
  <2>3. /\ Spawn("inbound", "generate")
        /\ overlapped' = (overlapped \/ Active)
        /\ UNCHANGED <<status, conference, connected, bridged, inbound,
                       hangups>>
    BY <1>5 DEF InboundEvent, call
  <2>4. hangups' \in 0 .. events'
    BY <1>1, <2>1, <2>3, EventsAssumption
  <2>5. overlapped' \in BOOLEAN
    BY <1>1, <2>3 DEF Active
  <2>6. ~overlapped' => ~overlapped /\ ~Overlaps("inbound")
    BY <2>2, <2>3
  <2>7. PbxInv'
    BY <2>1, <2>2, <2>3, <2>4, <2>5, <2>6, SpawnKeepsInv
  <2>8. QED
    BY <2>1, <2>7
<1>6. QED
  BY <1>2, <1>3, <1>4, <1>5 DEF PbxFormSlots

LEMMA HangupSlotKeepsInv ==
  ASSUME FrameOK, PbxInv, HangupChannelsSlot
  PROVE  FrameOK' /\ PbxInv'
<1>1. UNCHANGED <<frame, events>>
  BY DEF HangupChannelsSlot
<1>2. /\ Spawn("hangup", "hang_up")
      /\ overlapped' = (overlapped \/ Overlaps("hangup"))
      /\ UNCHANGED <<status, conference, connected, bridged, inbound>>
  BY DEF HangupChannelsSlot, call
<1>3. /\ "hangup" \in Runs \ {"nothing"}
      /\ "hang_up" \in Place("hangup")
      /\ overlapped' \in BOOLEAN
  BY <1>2 DEF Runs, Member, Place, PbxInv, PbxFormTypes
<1>4. hangups' \in 0 .. events' /\ events' \in 0 .. MaxEvents
  BY <1>1, EventsAssumption
     DEF HangupChannelsSlot, PbxInv, PbxFormTypes, FrameOK
<1>5. PbxInv'
  BY <1>2, <1>3, <1>4, SpawnKeepsInv
<1>6. QED
  BY <1>1, <1>5 DEF FrameOK

(***************************************************************************)
(* A hangup stays due until its thread carries it out.                     *)
(***************************************************************************)
LEMMA HangupStaysDue ==
  ASSUME NEW t \in Thread, \A u \in Thread \ {t} : thread'[u] = thread[u],
         thread[t].at # "hang_up", UNCHANGED hangups, HangupDue
  PROVE  HangupDue'
BY DEF HangupDue

LEMMA CallKeepsInv ==
  ASSUME PbxInv, NEW t \in Thread, Call(t), UNCHANGED consoleVars
  PROVE  PbxInv'
<1> USE DEF consoleVars
<1>1. ThreadOK /\ UNCHANGED <<conference, hangups, inbound, overlapped>>
  BY DEF PbxInv, Call
<1>2. PICK m \in Member :
        CallPossible(t, m) \/ RequestCall(t, m) \/ CallAnswered(t, m)
  BY DEF Call
<1>3. /\ thread[t].runs = m /\ m \in Member
      /\ thread[t].at \in {"call", "request", "ok", "ko"}
  BY <1>2 DEF CallPossible, RequestCall, CallAnswered
<1>4. {"request", "ok", "ko"} \subseteq Place(m)
  BY DEF Place, Calling, Member
<1>5. /\ ThreadOK'
      /\ \A u \in Thread \ {t} : thread'[u] = thread[u]
      /\ \/ thread'[t].runs = m /\ thread'[t].at \in Calling
         \/ thread'[t] = Free
  <2>1. CASE Ends(t)
    BY <1>1, <2>1, ThreadEnds
  <2>2. CASE \E at \in Calling : Goes(t, at)
    BY <1>1, <1>3, <1>4, <2>2, ThreadGoes DEF Calling
  <2>3. QED
    BY <1>2, <2>1, <2>2 DEF CallPossible, RequestCall, CallAnswered, Calling
<1>6. status \in [Member -> Status] /\ bridged \subseteq connected
      /\ connected \subseteq Member
  BY DEF PbxInv, PbxFormTypes, Status
<1>7. PbxFormTypes'
  <2>1. status' \in [Member -> Status]
    BY <1>2, <1>6, StatusOK
       DEF CallPossible, RequestCall, CallAnswered, Status
  <2>2. bridged' \subseteq connected' /\ connected' \subseteq Member
    BY <1>2, <1>6 DEF CallPossible, RequestCall, CallAnswered
  <2>3. QED
    BY <1>1, <2>1, <2>2 DEF PbxInv, PbxFormTypes, Status
<1>8. ~overlapped' => Alone' /\ HungUp'
  <2>1. ~overlapped' => Alone'
    BY <1>1, <1>3, <1>5 DEF PbxInv, Alone, Free, Member
  <2>2. thread[t] # Free /\ thread'[t].at # "request_hangup"
    BY <1>3, <1>5 DEF Free, Calling
  <2>3. ~overlapped' => HungUp'
    BY <1>1, <1>5, <2>2, NoneHungUp DEF PbxInv
  <2>4. QED
    BY <2>1, <2>3
<1>9. ASSUME ~overlapped', ~HangupDue'
      PROVE  (Shown /\ CallsUnderWay /\ BridgesUnderWay)'
  <2>1. /\ Shown /\ CallsUnderWay /\ BridgesUnderWay /\ Alone
    BY <1>1, <1>3, <1>5, <1>9, HangupStaysDue DEF PbxInv
  <2>2. CASE CallPossible(t, m)
    <3>1. CASE /\ status[m] = "no_call"
               /\ status' = [status EXCEPT ![m] = "calling"]
               /\ Goes(t, "request")
      <4>1. thread'[t].runs = m /\ thread'[t].at = "request"
        BY <1>1, <1>3, <1>4, <3>1, ThreadGoes
      <4>2. /\ status'[m] = "calling"
            /\ \A n \in Member \ {m} : status'[n] = status[n]
        BY <1>6, <3>1
      <4>3. UNCHANGED <<connected, bridged>>
        BY <2>2 DEF CallPossible
      <4>4. Shown'
        BY <1>1, <2>1, <4>2, <4>3 DEF Shown
      <4>5. CallsUnderWay'
        <5>1. \A u \in Thread :
                thread[u].runs = m => thread[u].at \notin Calling
          BY <2>1, <3>1 DEF CallsUnderWay
        <5>2. thread[t].at = "call"
          BY <2>2 DEF CallPossible
        <5>3. QED
          BY <1>1, <1>3, <1>5, <2>1, <4>1, <4>2, <4>3, <5>1, <5>2
             DEF CallsUnderWay, Calling, Member
      <4>6. BridgesUnderWay'
        BY <1>1, <1>3, <1>5, <2>1, <4>1, <4>2, <4>3
           DEF BridgesUnderWay, Held, Bridging
      <4>7. QED
        BY <4>4, <4>5, <4>6
    <3>2. CASE Ends(t) /\ UNCHANGED status
      <4>1. thread'[t].runs = "nothing" /\ thread'[t].at = "free"
        BY <1>1, <3>2, ThreadEnds
      <4>2. UNCHANGED <<connected, bridged>> /\ thread[t].at = "call"
        BY <2>2 DEF CallPossible
      <4>3. Shown'
        BY <1>1, <2>1, <3>2, <4>2 DEF Shown
      <4>4. CallsUnderWay'
        BY <1>1, <1>3, <1>5, <2>1, <3>2, <4>1, <4>2
           DEF CallsUnderWay, Calling, Member
      <4>5. BridgesUnderWay'
        BY <1>1, <1>3, <1>5, <2>1, <3>2, <4>1, <4>2
           DEF BridgesUnderWay, Held, Bridging
      <4>6. QED
        BY <4>3, <4>4, <4>5
    <3>3. QED
      BY <2>2, <3>1, <3>2 DEF CallPossible
  <2>3. CASE RequestCall(t, m)
    <3>1. /\ thread[t].at = "request" /\ UNCHANGED <<status, bridged>>
          /\ connected \subseteq connected'
      BY <2>3 DEF RequestCall
    <3>2. /\ thread'[t].runs = m /\ thread'[t].at \in {"ok", "ko"}
          /\ thread'[t].at = "ok" => m \in connected'
      <4>1. CASE Goes(t, "ok") /\ connected' = connected \cup {m}
        BY <1>1, <1>3, <1>4, <4>1, ThreadGoes
      <4>2. CASE Goes(t, "ko")
        BY <1>1, <1>3, <1>4, <4>2, ThreadGoes
      <4>3. QED
        BY <2>3, <4>1, <4>2 DEF RequestCall
    <3>3. Shown'
      BY <1>1, <2>1, <3>1 DEF Shown
    <3>4. CallsUnderWay'
      BY <1>1, <1>3, <1>5, <2>1, <3>1, <3>2
         DEF CallsUnderWay, Calling, Member
    <3>5. BridgesUnderWay'
      BY <1>1, <1>3, <1>5, <2>1, <3>1, <3>2
         DEF BridgesUnderWay, Held, Bridging
    <3>6. QED
      BY <3>3, <3>4, <3>5
  <2>4. CASE CallAnswered(t, m)
    <3>1. /\ thread[t].at \in {"ok", "ko"} /\ UNCHANGED <<connected, bridged>>
          /\ status[m] = "calling"
          /\ thread[t].at = "ok" => m \in connected
      BY <1>3, <2>1, <2>4 DEF CallAnswered, CallsUnderWay, Calling
    <3>2. /\ status'[m] = IF thread[t].at = "ok" THEN "called_ok"
                                                 ELSE "no_call"
          /\ \A n \in Member \ {m} : status'[n] = status[n]
      BY <1>6, <2>4, <3>1 DEF CallAnswered, PbxOk, PbxKo
    <3>3. thread'[t].runs = "nothing" /\ thread'[t].at = "free"
      BY <1>1, <2>4, ThreadEnds DEF CallAnswered
    <3>4. Shown'
      BY <1>1, <2>1, <3>1, <3>2 DEF Shown
    <3>5. CallsUnderWay'
      BY <1>1, <1>3, <1>5, <2>1, <3>1, <3>2, <3>3
         DEF CallsUnderWay, Calling, Member
    <3>6. BridgesUnderWay'
      BY <1>1, <1>3, <1>5, <2>1, <3>1, <3>2, <3>3
         DEF BridgesUnderWay, Held, Bridging
    <3>7. QED
      BY <3>4, <3>5, <3>6
  <2>5. QED
    BY <1>2, <2>2, <2>3, <2>4
<1>10. QED
  BY <1>1, <1>5, <1>7, <1>8, <1>9 DEF PbxInv

LEMMA InboundKeepsInv ==
  ASSUME FrameOK, PbxInv, NEW t \in Thread, Inbound(t), UNCHANGED consoleVars
  PROVE  PbxInv'
<1> USE DEF consoleVars
<1>1. /\ ThreadOK /\ UNCHANGED <<conference, hangups>>
      /\ thread[t].runs = "inbound"
  BY DEF PbxInv, Inbound
<1>2. Place("inbound") = {"generate", "call", "ok"}
  BY DEF Place, Member
<1>3. CASE /\ thread[t].at = "generate"
           /\ Goes(t, "call")
           /\ GenerateCall(TRUE)
           /\ overlapped' = \E u \in Thread \ {t} : thread[u] # Free
  <2>1. /\ ThreadOK' /\ thread'[t].at = "call"
        /\ \A u \in Thread \ {t} : thread'[u] = thread[u]
    BY <1>1, <1>2, <1>3, ThreadGoes
  <2>2. overlapped' \in BOOLEAN
    BY <1>3
  <2>3. ~overlapped' => \A u \in Thread \ {t} : thread'[u] = Free
    BY <1>3, <2>1
  <2>4. ~overlapped' =>
          /\ Alone'
          /\ \A u \in Thread : thread'[u].at \in {"free", "call"}
    BY <2>1, <2>3 DEF Alone, Free
  <2>5. events' \in events .. MaxEvents
    BY EventsAssumption DEF FrameOK
  <2>6. QED
    BY <1>1, <1>3, <2>1, <2>2, <2>4, <2>5, NewCallKeepsInv DEF FrameOK
<1>4. CASE /\ UNCHANGED <<inbound, connected, bridged, overlapped>>
           /\ \/ /\ thread[t].at = "call"
                 /\ Goes(t, "ok")
                 /\ status' = [status EXCEPT !["user"] =
                                 IF @ = "no_call" THEN "calling" ELSE @]
              \/ /\ thread[t].at = "ok"
                 /\ Ends(t)
                 /\ status' = [status EXCEPT !["user"] = PbxOk(@)]
  <2>1. /\ ThreadOK'
        /\ \A u \in Thread \ {t} : thread'[u] = thread[u]
        /\ \/ /\ thread[t].at = "call"
              /\ thread'[t] = [runs |-> "inbound", at |-> "ok"]
           \/ thread[t].at = "ok" /\ thread'[t] = Free
    BY <1>1, <1>2, <1>4, ThreadGoes, ThreadEnds
  <2>2. status \in [Member -> Status] /\ "user" \in Member
    BY DEF PbxInv, PbxFormTypes, Status, Member
  <2>3. status' \in [Member -> Status]
    BY <1>4, <2>2, StatusOK DEF Status
  <2>4. PbxFormTypes'
    BY <1>1, <1>4, <2>3 DEF PbxInv, PbxFormTypes, Status
  <2>5. ~overlapped' => Alone' /\ HungUp'
    <3>1. ~overlapped' => Alone'
      BY <1>1, <1>4, <2>1 DEF PbxInv, Alone, Free, Member
    <3>2. thread[t] # Free /\ thread'[t].at # "request_hangup"
      BY <1>1, <2>1 DEF Free
    <3>3. ~overlapped' => HungUp'
      BY <1>1, <1>4, <2>1, <3>2, NoneHungUp DEF PbxInv
    <3>4. QED
      BY <3>1, <3>3
  <2>6. ASSUME ~overlapped', ~HangupDue'
        PROVE  (Shown /\ CallsUnderWay /\ BridgesUnderWay)'
    <3>1. Alone /\ Shown /\ CallsUnderWay /\ BridgesUnderWay
      BY <1>1, <1>4, <2>1, <2>6, HangupStaysDue DEF PbxInv
    <3>2. inbound
      BY <1>1, <1>4, <3>1 DEF CallsUnderWay
    <3>3. \A u \in Thread \ {t} :
            thread'[u].runs = "nothing" /\ thread'[u].at = "free"
      BY <1>1, <2>1, <3>1, OthersFree DEF Member
    <3>4. thread'[t].runs \in {"inbound", "nothing"}
          /\ thread'[t].at \in {"ok", "free"}
      BY <2>1 DEF Free
    <3>5. \A m \in Member : m # "user" => status'[m] = status[m]
      BY <1>4, <2>2
    <3>6. status'["user"] \in {status["user"], "calling", "called_ok"}
      <4>1. status["user"] # "bridging"
        BY <1>1, <1>4, <2>2, <3>1, <3>3, <2>1
           DEF BridgesUnderWay, Bridging
      <4>2. QED
        BY <1>4, <2>2, <4>1 DEF PbxOk
    <3>7. \A m \in Member : status'[m] = "calling" =>
            m = "user" /\ thread'[t] = [runs |-> "inbound", at |-> "ok"]
      <4>1. \A m \in Member : status[m] = "calling" => m = "user"
        BY <1>1, <2>1, <3>1, <3>3 DEF CallsUnderWay, Member
      <4>2. CASE thread[t].at = "call"
        BY <1>4, <2>1, <3>5, <4>1, <4>2
      <4>3. CASE thread[t].at = "ok"
        BY <1>4, <2>2, <3>5, <4>1, <4>3 DEF PbxOk
      <4>4. QED
        BY <1>4, <4>2, <4>3
    <3>8. Shown'
      BY <1>4, <3>1, <3>2, <3>5, <3>6 DEF Shown
    <3>9. CallsUnderWay'
      <4>1. \A u \in Thread : thread'[u].runs \notin Member
        BY <3>3, <3>4 DEF Member
      <4>2. QED
        BY <1>4, <3>2, <3>7, <4>1 DEF CallsUnderWay
    <3>10. BridgesUnderWay'
      <4>1. \A u \in Thread : thread'[u].at \notin Held
        BY <3>3, <3>4 DEF Held, Bridging
      <4>2. \A m \in Member : status[m] # "bridging"
        BY <1>1, <1>4, <2>1, <3>1, <3>3 DEF BridgesUnderWay, Bridging
      <4>3. \A m \in Member : status'[m] # "bridging"
        BY <2>2, <3>5, <3>6, <4>2
      <4>4. QED
        BY <4>1, <4>3 DEF BridgesUnderWay, Held, Bridging
    <3>11. QED
      BY <3>8, <3>9, <3>10
  <2>7. QED
    BY <1>1, <1>4, <2>1, <2>4, <2>5, <2>6 DEF PbxInv
<1>5. QED
  BY <1>3, <1>4 DEF Inbound


(***************************************************************************)
(* A step of a bridge or of a redirect that still bridges: the thread has  *)
(* the form for itself.                                                    *)
(***************************************************************************)
LEMMA BridgeGoes ==
  ASSUME ThreadOK, NEW t \in Thread, Bridge(t)
  PROVE  /\ ThreadOK'
         /\ thread[t].runs \in {"bridge", "redirect"}
         /\ thread[t].at \in {"choose", "hold", "toggle"} \cup Held
         /\ \A u \in Thread \ {t} : thread'[u] = thread[u]
         /\ thread'[t].runs \in {"nothing", thread[t].runs}
         /\ thread'[t].at # "request_hangup"
         /\ \A at \in {"hold", "bridge", "request_bridge", "bridge_ok",
                       "bridge_ko", "toggle"} :
              Goes(t, at) => thread'[t].at = at
         /\ BridgeReturns(t) => thread'[t].at \in {"hang_up", "free"}
<1>1. /\ thread[t].at \in {"choose", "hold", "toggle"} \cup Held
      /\ \/ \E at \in {"hold", "bridge", "request_bridge", "bridge_ok",
                       "bridge_ko", "toggle"} :
              Goes(t, at) /\ (at = "hold" => thread[t].at = "choose")
         \/ BridgeReturns(t)
  BY DEF Bridge, ChooseConference, HoldCall, BridgePossible, RequestBridge,
         BridgeAnswered, ToggleConference, At, Held, Bridging
<1>2. /\ thread[t].runs \in {"bridge", "redirect"}
      /\ thread[t].at = "choose" => thread[t].runs = "redirect"
  BY <1>1 DEF ThreadOK, Runs, Place, Member, Calling, Held, Bridging
<1>3. /\ {"hold", "bridge", "request_bridge", "bridge_ok", "bridge_ko",
          "toggle"} \subseteq Place(thread[t].runs)
      /\ thread[t].runs = "redirect" => "hang_up" \in Place(thread[t].runs)
  BY <1>2 DEF Place, Member, Held, Bridging
<1>4. ASSUME NEW at \in {"hold", "bridge", "request_bridge", "bridge_ok",
                         "bridge_ko", "toggle"}, Goes(t, at)
      PROVE  /\ ThreadOK' /\ thread'[t].at = at
             /\ thread'[t].runs = thread[t].runs
             /\ \A u \in Thread \ {t} : thread'[u] = thread[u]
  BY <1>3, <1>4, ThreadGoes
<1>5. ASSUME BridgeReturns(t)
      PROVE  /\ ThreadOK' /\ thread'[t].at \in {"hang_up", "free"}
             /\ thread'[t].runs \in {"nothing", thread[t].runs}
             /\ \A u \in Thread \ {t} : thread'[u] = thread[u]
  <2>1. CASE thread[t].runs = "redirect"
    BY <1>3, <1>5, <2>1, ThreadGoes DEF BridgeReturns
  <2>2. CASE thread[t].runs # "redirect"
    BY <1>5, <2>2, ThreadEnds DEF BridgeReturns
  <2>3. QED
    BY <2>1, <2>2
<1>6. CASE BridgeReturns(t)
  BY <1>1, <1>2, <1>4, <1>5, <1>6
<1>7. CASE ~BridgeReturns(t)
  BY <1>1, <1>2, <1>4, <1>7
<1>8. QED
  BY <1>6, <1>7

LEMMA BridgeKeepsInv ==
  ASSUME PbxInv, NEW t \in Thread, Bridge(t), UNCHANGED consoleVars
  PROVE  PbxInv'
<1> USE DEF consoleVars
<1>1. /\ ThreadOK /\ ThreadOK'
      /\ thread[t].runs \in {"bridge", "redirect"}
      /\ thread[t].at \in {"choose", "hold", "toggle"} \cup Held
      /\ \A u \in Thread \ {t} : thread'[u] = thread[u]
      /\ thread'[t].runs \in {"nothing", thread[t].runs}
      /\ thread'[t].at # "request_hangup"
  BY BridgeGoes DEF PbxInv
<1>2. /\ \A at \in {"hold", "bridge", "request_bridge", "bridge_ok",
                    "bridge_ko", "toggle"} :
           Goes(t, at) => thread'[t].at = at
      /\ BridgeReturns(t) => thread'[t].at \in {"hang_up", "free"}
  BY BridgeGoes DEF PbxInv
<1>3. /\ UNCHANGED <<hangups, overlapped, inbound, connected>>
      /\ thread[t] # Free /\ thread[t].at # "hang_up"
  BY <1>1 DEF Bridge, ChooseConference, HoldCall, BridgePossible, RequestBridge,
              BridgeAnswered, ToggleConference, call, Free, Held, Bridging
<1>4. /\ status \in [Member -> Status] /\ conference \in SUBSET Member
      /\ bridged \subseteq connected /\ connected \subseteq Member
  BY DEF PbxInv, PbxFormTypes, Status
<1>5. PbxFormTypes'
  <2>1. status' \in [Member -> Status]
    BY <1>4, StatusOK
       DEF Bridge, ChooseConference, HoldCall, BridgePossible, RequestBridge,
           BridgeAnswered, ToggleConference, call, Status
  <2>2. conference' \in SUBSET Member
    BY <1>4
       DEF Bridge, ChooseConference, HoldCall, BridgePossible, RequestBridge,
           BridgeAnswered, ToggleConference, call, Member
  <2>3. bridged' \subseteq connected'
    BY <1>3, <1>4
       DEF Bridge, ChooseConference, HoldCall, BridgePossible, RequestBridge,
           BridgeAnswered, ToggleConference, call
  <2>4. QED
    BY <1>3, <1>4, <2>1, <2>2, <2>3 DEF PbxInv, PbxFormTypes, Status
<1>6. ~overlapped' => Alone' /\ HungUp'
  <2>1. ~overlapped' => Alone'
    BY <1>1, <1>3 DEF PbxInv, Alone, Free, Member
  <2>2. ~overlapped' => HungUp'
    BY <1>1, <1>3, NoneHungUp DEF PbxInv
  <2>3. QED
    BY <2>1, <2>2
<1>7. ASSUME ~overlapped', ~HangupDue'
      PROVE  (Shown /\ CallsUnderWay /\ BridgesUnderWay)'
  <2>1. Alone /\ Shown /\ CallsUnderWay /\ BridgesUnderWay
    BY <1>1, <1>3, <1>7, HangupStaysDue DEF PbxInv
  <2>2. \A u \in Thread \ {t} :
          /\ thread[u].runs = "nothing" /\ thread[u].at = "free"
          /\ thread'[u].runs = "nothing" /\ thread'[u].at = "free"
    BY <1>1, <2>1, OthersFree DEF Member
  <2>3. \A u \in Thread : /\ thread[u].runs \notin Member \cup {"inbound"}
                          /\ thread'[u].runs \notin Member \cup {"inbound"}
    BY <1>1, <2>2 DEF Member
  <2>4. \A m \in Member : status[m] # "calling"
    BY <2>1, <2>3 DEF CallsUnderWay
  <2>5. thread[t].at \notin Bridging => \A m \in Member : status[m] # "bridging"
    BY <2>1, <2>2 DEF BridgesUnderWay, Bridging
  <2>6. thread[t].at \in Held => \A m \in Member : status[m] # "bridged_ok"
    BY <2>1 DEF BridgesUnderWay
  <2>7. ASSUME \A m \in Member : status'[m] # "calling"
        PROVE  CallsUnderWay'
    BY <2>3, <2>7 DEF CallsUnderWay
  <2>8. ASSUME \A m \in Member : status'[m] # "bridging",
               thread'[t].at \in {"hold", "toggle", "hang_up", "free"}
        PROVE  BridgesUnderWay'
    BY <2>2, <2>8 DEF BridgesUnderWay, Held, Bridging
  <2>9. CASE ChooseConference(t) \/ ToggleConference(t)
    <3>1. /\ UNCHANGED <<status, connected, bridged, inbound>>
          /\ thread[t].at \in {"choose", "toggle"}
          /\ thread'[t].at \in {"hold", "hang_up", "free"}
      BY <1>2, <2>9 DEF ChooseConference, ToggleConference, call, At
    <3>2. Shown'
      BY <2>1, <3>1 DEF Shown
    <3>3. \A m \in Member : status'[m] \notin {"calling", "bridging"}
      BY <2>4, <2>5, <3>1 DEF Bridging
    <3>4. QED
      BY <2>7, <2>8, <3>1, <3>2, <3>3
  <2>10. CASE HoldCall(t)
    <3>1. /\ UNCHANGED <<connected, bridged, inbound>>
          /\ thread[t].at = "hold" /\ thread'[t].at = "bridge"
      BY <1>2, <2>10 DEF HoldCall, At
    <3>2. \A m \in Member :
            /\ status'[m] \notin {"calling", "bridging", "bridged_ok"}
            /\ status'[m] = "called_ok" =>
                 status[m] \in {"called_ok", "bridged_ok"}
      BY <1>4, <2>4, <2>5, <2>10, <3>1 DEF HoldCall, Hold, Bridging
    <3>3. Shown'
      BY <2>1, <3>1, <3>2 DEF Shown
    <3>4. BridgesUnderWay'
      BY <2>2, <3>1, <3>2 DEF BridgesUnderWay, Bridging
    <3>5. QED
      BY <2>7, <3>2, <3>3, <3>4
  <2>11. CASE BridgePossible(t)
    <3>1. /\ UNCHANGED <<conference, connected, bridged, inbound>>
          /\ thread[t].at = "bridge"
      BY <2>11 DEF BridgePossible, At
    <3>2. CASE \A m \in conference : status[m] = "called_ok"
      <4>1. thread'[t].at = "request_bridge"
        BY <1>2, <2>11, <3>2 DEF BridgePossible
      <4>2. \A m \in Member :
              status'[m] = IF m \in conference THEN "bridging" ELSE status[m]
        BY <2>11, <3>2 DEF BridgePossible
      <4>3. \A m \in Member :
              /\ status[m] \notin {"calling", "bridging", "bridged_ok"}
        BY <2>4, <2>5, <2>6, <3>1 DEF Held, Bridging
      <4>4. Shown'
        BY <2>1, <3>1, <3>2, <4>2, <4>3 DEF Shown
      <4>5. \A m \in Member : status'[m] \notin {"calling", "bridged_ok"}
        BY <4>2, <4>3
      <4>6. BridgesUnderWay'
        BY <2>2, <3>1, <4>1, <4>2, <4>3, <4>5
           DEF BridgesUnderWay, Held, Bridging
      <4>7. QED
        BY <2>7, <4>4, <4>5, <4>6
    <3>3. CASE ~ \A m \in conference : status[m] = "called_ok"
      <4>1. UNCHANGED status /\ thread'[t].at \in {"hang_up", "free"}
        BY <1>2, <2>11, <3>3 DEF BridgePossible
      <4>2. Shown'
        BY <2>1, <3>1, <4>1 DEF Shown
      <4>3. \A m \in Member : status'[m] \notin {"calling", "bridging"}
        BY <2>4, <2>5, <3>1, <4>1 DEF Bridging
      <4>4. QED
        BY <2>7, <2>8, <4>1, <4>2, <4>3
    <3>4. QED
      BY <3>2, <3>3
  <2>12. CASE RequestBridge(t)
    <3>1. /\ UNCHANGED <<status, conference, connected, inbound>>
          /\ thread[t].at = "request_bridge"
          /\ thread'[t].at \in {"bridge_ok", "bridge_ko"}
          /\ thread'[t].at = "bridge_ok" => bridged' = conference
      BY <1>2, <2>12 DEF RequestBridge, At
    <3>2. \A m \in Member :
            /\ status'[m] \notin {"calling", "bridged_ok"}
            /\ status'[m] = "bridging" => m \in conference
      BY <2>1, <2>4, <2>6, <3>1 DEF Held, Bridging, BridgesUnderWay
    <3>3. Shown'
      BY <2>1, <3>1, <3>2 DEF Shown
    <3>4. BridgesUnderWay'
      BY <2>2, <3>1, <3>2 DEF BridgesUnderWay, Bridging
    <3>5. QED
      BY <2>7, <3>2, <3>3, <3>4
  <2>13. CASE BridgeAnswered(t)
    <3>1. /\ UNCHANGED <<connected, bridged, inbound>>
          /\ thread[t].at \in {"bridge_ok", "bridge_ko"}
          /\ thread'[t].at \in {"toggle", "hang_up", "free"}
      BY <1>2, <2>13 DEF BridgeAnswered, At
    <3>2. \A m \in Member : status[m] \notin {"calling", "bridged_ok"}
      BY <2>4, <2>6, <3>1 DEF Held, Bridging
    <3>3. \A m \in Member :
            /\ status'[m] \notin {"calling", "bridging"}
            /\ status'[m] \in {"called_ok", "bridged_ok"} =>
                 status[m] \in {"called_ok", "bridging"}
            /\ status'[m] = "bridged_ok" =>
                 thread[t].at = "bridge_ok" /\ status[m] = "bridging"
      BY <1>4, <2>13, <3>2 DEF BridgeAnswered, PbxOk, PbxKo, At
    <3>4. \A m \in Member : status'[m] = "bridged_ok" => m \in bridged
      BY <2>1, <3>3 DEF BridgesUnderWay
    <3>5. Shown'
      BY <2>1, <3>1, <3>3, <3>4 DEF Shown
    <3>6. QED
      BY <2>7, <2>8, <3>1, <3>3, <3>5
  <2>14. QED
    BY <2>9, <2>10, <2>11, <2>12, <2>13 DEF Bridge
<1>8. QED
  BY <1>1, <1>3, <1>5, <1>6, <1>7 DEF PbxInv

LEMMA HangupKeepsInv ==
  ASSUME PbxInv, NEW t \in Thread, Hangup(t), UNCHANGED consoleVars
  PROVE  PbxInv'
<1> USE DEF consoleVars
<1>1. /\ ThreadOK /\ UNCHANGED <<conference, hangups, inbound, overlapped>>
      /\ thread[t].at \in {"hang_up", "request_hangup", "hung_up"}
  BY DEF PbxInv, Hangup, HangUpCall, RequestHangup, ClearStatus, At
<1>2. /\ thread[t].runs \in {"redirect", "hangup"}
      /\ "request_hangup" \in Place(thread[t].runs)
      /\ thread[t].runs # "redirect" => "hung_up" \in Place(thread[t].runs)
  BY <1>1 DEF ThreadOK, Runs, Place, Member, Calling, Held, Bridging
<1>3. /\ ThreadOK'
      /\ \A u \in Thread \ {t} : thread'[u] = thread[u]
      /\ thread'[t].runs \in {"nothing", thread[t].runs}
      /\ thread'[t].at \in {"free", "request_hangup", "hung_up"}
      /\ thread'[t].at = "request_hangup" => HangUpCall(t)
  <2>1. CASE Goes(t, "request_hangup") /\ HangUpCall(t)
    BY <1>1, <1>2, <2>1, ThreadGoes
  <2>2. CASE Goes(t, "hung_up") /\ thread[t].runs # "redirect"
    BY <1>1, <1>2, <2>2, ThreadGoes
  <2>3. CASE Ends(t)
    BY <1>1, <2>3, ThreadEnds
  <2>4. QED
    BY <2>1, <2>2, <2>3 DEF Hangup, HangUpCall, RequestHangup, ClearStatus
<1>4. /\ status \in [Member -> Status]
      /\ bridged \subseteq connected /\ connected \subseteq Member
  BY DEF PbxInv, PbxFormTypes, Status
<1>5. PbxFormTypes'
  <2>1. status' \in [Member -> Status]
    BY <1>4, StatusOK
       DEF Hangup, HangUpCall, RequestHangup, ClearStatus, Status
  <2>2. bridged' \subseteq connected' /\ connected' \subseteq Member
    <3>1. CASE HangUpCall(t) \/ ClearStatus(t)
      BY <1>4, <3>1 DEF HangUpCall, ClearStatus
    <3>2. CASE RequestHangup(t)
      BY <1>4, <3>2 DEF RequestHangup
    <3>3. QED
      BY <3>1, <3>2 DEF Hangup
  <2>3. QED
    BY <1>1, <2>1, <2>2 DEF PbxInv, PbxFormTypes, Status
<1>6. ASSUME ~overlapped'
      PROVE  (Alone /\ HungUp /\ Shown /\ CallsUnderWay /\ BridgesUnderWay)'
  <2>1. Alone /\ HungUp
    BY <1>1, <1>6 DEF PbxInv
  <2>2. \A u \in Thread \ {t} :
          /\ thread'[u] = Free
          /\ thread'[u].runs = "nothing" /\ thread'[u].at = "free"
    BY <1>1, <1>2, <1>3, <2>1, OthersFree DEF Member
  <2>3. \A m \in Member : status'[m] \in {"no_call", "hanging_up"}
    <3>1. CASE HangUpCall(t) \/ ClearStatus(t)
      BY <3>1 DEF HangUpCall, ClearStatus, HangUp
    <3>2. CASE RequestHangup(t)
      BY <2>1, <3>2 DEF RequestHangup, At, HungUp
    <3>3. QED
      BY <3>1, <3>2 DEF Hangup
  <2>4. Alone'
    BY <2>2 DEF Alone
  <2>5. HungUp' /\ Shown'
    BY <2>3 DEF HungUp, Shown
  <2>6. \A u \in Thread : thread'[u].runs \notin Member \cup {"inbound"}
    BY <1>2, <1>3, <2>2 DEF Member
  <2>7. CallsUnderWay'
    BY <2>3, <2>6 DEF CallsUnderWay
  <2>8. BridgesUnderWay'
    BY <2>3 DEF BridgesUnderWay
  <2>9. QED
    BY <2>4, <2>5, <2>7, <2>8
<1>7. QED
  BY <1>1, <1>3, <1>5, <1>6 DEF PbxInv

LEMMA ThreadKeepsInv ==
  ASSUME FrameOK, PbxInv, NEW t \in Thread, ThreadStep(t)
  PROVE  PbxInv'
BY CallKeepsInv, InboundKeepsInv, BridgeKeepsInv, HangupKeepsInv DEF ThreadStep

LEMMA PbxMoves ==
  ASSUME FrameOK, PbxFormSlots
  PROVE  MovesOnly(PbxSlot)
<1>1. CASE CallUserButton
  BY <1>1, BeginFrame, ReturnFrame, WholeFrame
     DEF CallUserButton, MovesOnly, PbxSlot
<1>2. CASE ThreadButton
  BY <1>2, WholeFrame DEF ThreadButton, MovesOnly
<1>3. CASE HangupEvent \/ InboundEvent
  BY <1>3 DEF HangupEvent, InboundEvent, MovesOnly
<1>4. QED
  BY <1>1, <1>2, <1>3 DEF PbxFormSlots

LEMMA PbxForeign ==
  ASSUME FrameOK, PbxInv, UNCHANGED pbxFormVars, events <= events', FrameOK'
  PROVE  PbxInv'
<1>1. UNCHANGED <<status, conference, thread, hangups, connected, bridged,
                  inbound, overlapped>>
  BY DEF pbxFormVars
<1>2. PbxFormTypes'
  BY <1>1 DEF PbxInv, PbxFormTypes
<1>3. hangups' <= events'
  BY <1>1, EventsAssumption DEF PbxInv, PbxFormTypes, FrameOK
<1>4. ThreadOK' /\ (~overlapped' => Alone' /\ HungUp')
  BY <1>1 DEF PbxInv, ThreadOK, Alone, HungUp
<1>6. HangupDue => HangupDue'
  BY <1>1 DEF HangupDue
<1>7. Shown => Shown'
  BY <1>1 DEF Shown
<1>8. CallsUnderWay => CallsUnderWay'
  BY <1>1 DEF CallsUnderWay
<1>9. BridgesUnderWay => BridgesUnderWay'
  BY <1>1 DEF BridgesUnderWay
<1>10. QED
  BY <1>1, <1>2, <1>3, <1>4, <1>6, <1>7, <1>8, <1>9 DEF PbxInv

-----------------------------------------------------------------------------
(* The window. *)

LEMMA EventsGrow ==
  ASSUME FrameOK, LMFormSlots \/ GariFormSlots \/ ACMFormSlots
  PROVE  events <= events'
<1>1. events \in Nat
  BY EventsAssumption DEF FrameOK
<1>2. \A slot, got : Begin(slot, got) => events' = events + 1
  BY DEF Begin, Event
<1>3. \A done : WholeDid(done) => events' = events + 1
  BY DEF WholeDid, Event
<1>4. \A slot, got : Answered(slot, got) => events' = events
  BY DEF Answered
<1>5. \A slot, at : Return(slot, at) => events' = events
  BY DEF Return
<1>6. events' \in {events, events + 1}
  <2>1. CASE LMFormSlots
    BY <1>2, <1>3, <1>4, <1>5, <2>1
       DEF LMFormSlots, LoginButton, LogoutButton, CheckVateamButton,
           LeadButton, IvnewsessionButton, TimerSlots, LMRefuses, Whole, Unanswered
  <2>2. CASE GariFormSlots
    BY <1>2, <1>3, <1>4, <1>5, <2>2
       DEF GariFormSlots, CreateSlot, Slot, ReadSessionSlot, GariRefuses,
           Whole, Unanswered
  <2>3. CASE ACMFormSlots
    BY <1>2, <1>3, <1>4, <1>5, <2>3
       DEF ACMFormSlots, NewAlphaButton, FreeAlphaButton, FirstAlphaButton,
           ACMRefuses, Whole, Unanswered
  <2>4. QED
    BY <2>1, <2>2, <2>3
<1>7. QED
  BY <1>1, <1>6

LEMMA LMFormMoves ==
  ASSUME FrameOK, LMFormSlots
  PROVE  MovesOnly(LMSlot)
<1>1. ASSUME NEW slots, slots \subseteq LMSlot, MovesOnly(slots)
      PROVE  MovesOnly(LMSlot)
  BY <1>1 DEF MovesOnly
<1>2. \A slot \in LeadSlot : {slot} \subseteq LMSlot
  BY DEF LMSlot
<1>3. /\ {"login"} \subseteq LMSlot /\ {"logout"} \subseteq LMSlot
      /\ {"checkVateam"} \subseteq LMSlot /\ {"ivnewsession"} \subseteq LMSlot
      /\ {"alive", "ivflag"} \subseteq LMSlot
      /\ LeadSlot \cup {"login", "logout", "checkVateam", "ivnewsession"}
           \subseteq LMSlot
  BY DEF LMSlot
<1>4. CASE \E slot \in LeadSlot : LeadButton(slot)
  BY <1>1, <1>2, <1>4, LMMoves
<1>5. CASE \/ LoginButton \/ LogoutButton \/ CheckVateamButton
           \/ IvnewsessionButton \/ TimerSlots \/ LMRefuses
  BY <1>1, <1>3, <1>5, LMMoves
<1>6. QED
  BY <1>4, <1>5 DEF LMFormSlots

(***************************************************************************)
(* The slots of the forms have different names, so that a step of one form *)
(* is foreign to the others.                                               *)
(***************************************************************************)
LEMMA OtherSlots ==
  /\ LMSlot \cap GariSlot = {} /\ LMSlot \cap ACMSlot = {}
  /\ LMSlot \cap PbxSlot = {} /\ GariSlot \cap ACMSlot = {}
  /\ GariSlot \cap PbxSlot = {} /\ ACMSlot \cap PbxSlot = {}
BY DEF LMSlot, LeadSlot, GariSlot, ACMSlot, PbxSlot

(***************************************************************************)
(* A step of another form or of a thread.                                  *)
(***************************************************************************)
LEMMA StepOutsideLM ==
  ASSUME IInv, [Next]_vars, ~LM
  PROVE  /\ UNCHANGED lmFormVars
         /\ \E slots : slots \cap LMSlot = {} /\ MovesOnly(slots)
<1>1. CASE Pbx
  BY <1>1, PbxMoves, OtherSlots DEF Pbx, IInv
<1>2. CASE Gari
  BY <1>2, GariMoves, OtherSlots DEF Gari, IInv
<1>3. CASE ACM
  BY <1>3, ACMMoves, OtherSlots DEF ACM, IInv
<1>4. CASE UNCHANGED frame /\ UNCHANGED lmFormVars
  <2>1. MovesOnly({})
    BY <1>4 DEF MovesOnly
  <2>2. QED
    BY <1>4, <2>1
<1>5. CASE HangupSlot
  BY <1>4, <1>5 DEF HangupSlot, HangupChannelsSlot
<1>6. CASE \E t \in Thread : DetachedThread(t)
  BY <1>4, <1>6 DEF DetachedThread, ThreadStep, consoleVars
<1>7. CASE UNCHANGED vars
  BY <1>4, <1>7 DEF vars, consoleVars
<1>8. QED
  BY <1>1, <1>2, <1>3, <1>5, <1>6, <1>7 DEF Next, EventLoop

LEMMA InitInv == Init => IInv
<1> SUFFICES ASSUME Init PROVE IInv
  OBVIOUS
<1>1. frame = NoSlot /\ events = 0 /\ tab \in Tab
  BY DEF Init, Init_Console
<1>2. FrameOK
  BY <1>1, EventsAssumption DEF FrameOK, NoSlot, Suspended
<1>3. frame.slot = "none"
  BY <1>1 DEF NoSlot, Suspended
<1>4. LMInv
  <2>1. LMFormTypes
    BY LMFormAssumption DEF Init, Init_LMForm, LMFormTypes
  <2>2. LoginInv /\ LogoutInv /\ CheckInv /\ LatestInv /\ TimerOnOpenSession
    BY <1>3 DEF Init, Init_LMForm, LoginInv, LogoutInv, CheckInv, LatestInv,
                TimerOnOpenSession, Answering, LeadSlot
  <2>3. QED
    BY <2>1, <2>2 DEF LMInv
<1>5. GariInv
  BY <1>3 DEF Init, Init_GariForm, GariInv, GariFormTypes, Answering
<1>6. ACMInv
  <2>1. ACMTypes
    BY <1>3 DEF Init, Init_ACMForm, ACMTypes, ACMFormTypes, Answering
  <2>2. AlphaCount
    BY <1>3, FS_EmptySet DEF Init, Init_ACMForm, AlphaCount, Waiting, Answering
  <2>3. QED
    BY <2>1, <2>2 DEF ACMInv
<1>7. PbxInv
  <2>1. /\ status = [m \in Member |-> "no_call"]
        /\ conference = {"user", "agent"} /\ hangups = 0
        /\ connected = {} /\ bridged = {}
        /\ inbound = FALSE /\ overlapped = FALSE
    BY DEF Init, Init_PbxForm
  <2>2. /\ DOMAIN thread = Thread
        /\ \A t \in Thread : /\ thread[t] = Free /\ thread[t].runs = "nothing"
                             /\ thread[t].at = "free"
    BY DEF Init, Init_PbxForm, Free
  <2>3. PbxFormTypes /\ hangups <= events
    <3>1. status \in [Member -> Status] /\ conference \in SUBSET Member
      BY <2>1 DEF Status, Member
    <3>2. {inbound, overlapped} \subseteq BOOLEAN
      BY <2>1
    <3>3. QED
      BY <1>1, <2>1, <3>1, <3>2, EventsAssumption DEF PbxFormTypes, Status
  <2>4. ThreadOK
    BY <2>2 DEF ThreadOK, Free, Runs, Place, Member
  <2>5. Alone /\ HungUp /\ Shown
    BY <2>1, <2>2 DEF Alone, HungUp, Shown
  <2>6. CallsUnderWay /\ BridgesUnderWay
    BY <2>1, <2>2
       DEF CallsUnderWay, BridgesUnderWay, Calling, Held, Bridging, Member
  <2>7. QED
    BY <2>3, <2>4, <2>5, <2>6 DEF PbxInv
<1>8. QED
  BY <1>1, <1>2, <1>4, <1>5, <1>6, <1>7 DEF IInv

LEMMA StepInv == IInv /\ [Next]_vars => IInv'
<1> SUFFICES ASSUME IInv, [Next]_vars PROVE IInv'
  OBVIOUS
<1>1. FrameOK /\ LMInv /\ GariInv /\ ACMInv /\ PbxInv /\ tab \in Tab
  BY DEF IInv
<1>2. tab' \in Tab
  BY <1>1 DEF Next, EventLoop, Pbx, LM, Gari, ACM, HangupSlot, DetachedThread,
              vars
<1>3. CASE Pbx
  <2>1. /\ PbxFormSlots
        /\ UNCHANGED <<lmFormVars, gariFormVars, acmFormVars>>
    BY <1>3 DEF Pbx
  <2>2. FrameOK' /\ PbxInv' /\ MovesOnly(PbxSlot)
    BY <1>1, <2>1, PbxSlotsKeepInv, PbxMoves
  <2>3. LMInv' /\ GariInv' /\ ACMInv'
    BY <1>1, <2>1, <2>2, LMForeign, GariForeign, ACMForeign, OtherSlots
  <2>4. QED
    BY <1>2, <2>2, <2>3 DEF IInv
<1>4. CASE LM
  <2>1. LMFormSlots /\ UNCHANGED <<pbxFormVars, gariFormVars, acmFormVars>>
    BY <1>4 DEF LM
  <2>2. FrameOK' /\ LMInv' /\ MovesOnly(LMSlot) /\ events <= events'
    BY <1>1, <2>1, LMKeepsInv, LMFormMoves, EventsGrow
  <2>3. PbxInv' /\ GariInv' /\ ACMInv'
    BY <1>1, <2>1, <2>2, PbxForeign, GariForeign, ACMForeign, OtherSlots
  <2>4. QED
    BY <1>2, <2>2, <2>3 DEF IInv
<1>5. CASE Gari
  <2>1. GariFormSlots /\ UNCHANGED <<pbxFormVars, lmFormVars, acmFormVars>>
    BY <1>5 DEF Gari
  <2>2. FrameOK' /\ GariInv' /\ MovesOnly(GariSlot) /\ events <= events'
    BY <1>1, <2>1, GariKeepsInv, GariMoves, EventsGrow
  <2>3. PbxInv' /\ LMInv' /\ ACMInv'
    BY <1>1, <2>1, <2>2, PbxForeign, LMForeign, ACMForeign, OtherSlots
  <2>4. QED
    BY <1>2, <2>2, <2>3 DEF IInv
<1>6. CASE ACM
  <2>1. ACMFormSlots /\ UNCHANGED <<pbxFormVars, lmFormVars, gariFormVars>>
    BY <1>6 DEF ACM
  <2>2. FrameOK' /\ ACMInv' /\ MovesOnly(ACMSlot) /\ events <= events'
    BY <1>1, <2>1, ACMKeepsInv, ACMMoves, EventsGrow
  <2>3. PbxInv' /\ LMInv' /\ GariInv'
    BY <1>1, <2>1, <2>2, PbxForeign, LMForeign, GariForeign, OtherSlots
  <2>4. QED
    BY <1>2, <2>2, <2>3 DEF IInv
<1>7. ASSUME UNCHANGED <<frame, events>>,
             UNCHANGED <<lmFormVars, gariFormVars, acmFormVars>>, PbxInv'
      PROVE  IInv'
  <2>1. FrameOK' /\ MovesOnly({})
    BY <1>1, <1>7 DEF FrameOK, MovesOnly
  <2>2. LMInv' /\ GariInv' /\ ACMInv'
    BY <1>1, <1>7, <2>1, LMForeign, GariForeign, ACMForeign
  <2>3. QED
    BY <1>2, <1>7, <2>1, <2>2 DEF IInv
<1>8. CASE HangupSlot
  BY <1>1, <1>7, <1>8, HangupSlotKeepsInv DEF HangupSlot, HangupChannelsSlot
<1>9. CASE \E t \in Thread : DetachedThread(t)
  BY <1>1, <1>7, <1>9, ThreadKeepsInv DEF DetachedThread, ThreadStep, consoleVars
<1>10. CASE UNCHANGED vars
  <2>1. UNCHANGED <<frame, events>> /\ UNCHANGED pbxFormVars
        /\ UNCHANGED <<lmFormVars, gariFormVars, acmFormVars>>
    BY <1>10 DEF vars, consoleVars
  <2>2. FrameOK' /\ events <= events'
    BY <1>1, <2>1, EventsAssumption DEF FrameOK
  <2>3. QED
    BY <1>1, <1>7, <2>1, <2>2, PbxForeign
<1>11. QED
  BY <1>3, <1>4, <1>5, <1>6, <1>8, <1>9, <1>10 DEF Next, EventLoop

(***************************************************************************)
(* The inductive invariant holds, whatever the number of events and of     *)
(* threads and whatever the ids.                                           *)
(***************************************************************************)
THEOREM Invariance == Spec => []IInv
BY InitInv, StepInv, PTL DEF Spec

-----------------------------------------------------------------------------
(* The properties of the runs. *)

(***************************************************************************)
(* All variables of the forms, the suspended slot and the tab stay within  *)
(* their types.                                                            *)
(***************************************************************************)
THEOREM TypeCorrect == Spec => []TypeOK
<1>1. IInv => TypeOK
  BY DEF IInv, FrameOK, LMInv, GariInv, ACMInv, ACMTypes, PbxInv, TypeOK
<1>2. QED
  BY <1>1, Invariance, PTL

(***************************************************************************)
(* The alive timer of the LM form does not outlive the session it keeps    *)
(* alive, but for the line the logout of that session writes and for a     *)
(* logout whose reply got lost; an alive of the timer names a closed       *)
(* session in these cases only, or if a logout ran inside its own line.    *)
(***************************************************************************)
THEOREM TimerStopsWithSession == Spec => []TimerOnOpenSession
<1>1. IInv => TimerOnOpenSession
  BY DEF IInv, LMInv
<1>2. QED
  BY <1>1, Invariance, PTL

(***************************************************************************)
(* What the PBX form shows once its threads are through is what PBX has,   *)
(* for any number of calls at once.                                        *)
(***************************************************************************)
THEOREM ShownIsConnected == Spec => []ShownAsConnected
<1>1. IInv => ShownAsConnected
  <2> SUFFICES ASSUME IInv, ~Active, ~overlapped, hangups = 0
               PROVE  \A m \in Member :
                        /\ status[m] \in {"called_ok", "bridged_ok"} =>
                             m \in connected \/ (m = "user" /\ inbound)
                        /\ status[m] = "bridged_ok" => m \in bridged
    BY DEF ShownAsConnected
  <2>1. \A t \in Thread : thread[t] # [runs |-> "hangup", at |-> "hang_up"]
    BY DEF Active, Free
  <2>2. ~HangupDue
    BY <2>1 DEF HangupDue
  <2>3. Shown
    BY <2>2 DEF IInv, PbxInv
  <2>4. QED
    BY <2>3 DEF Shown
<1>2. QED
  BY <1>1, Invariance, PTL

(***************************************************************************)
(* An open session of LM is kept alive by the timer until it is closed,    *)
(* unless a login ran inside a logout's line.                              *)
(***************************************************************************)
THEOREM KeptAlive == Spec => OpenSessionKeptAlive
<1>1. IInv /\ [Next]_vars =>
        [alive_timer /\ SessionOpen' /\ ~alive_timer'
           => frame.slot = "logout" /\ "session" \in frame.inner]_lmFormVars
  <2> SUFFICES ASSUME IInv, [Next]_vars, alive_timer, SessionOpen',
                      ~alive_timer', lmFormVars' # lmFormVars
               PROVE  frame.slot = "logout" /\ "session" \in frame.inner
    OBVIOUS
  <2>1. LM
    BY StepOutsideLM
  <2>2. QED
    BY <2>1, LMKeepsAlive DEF LM, IInv
<1>2. QED
  BY <1>1, Invariance, PTL DEF Spec, OpenSessionKeptAlive

(***************************************************************************)
(* A check slot that is not spoilt inside its lines leaves form and LM     *)
(* agreeing on the check, however they disagreed before.                   *)
(***************************************************************************)
THEOREM CheckSettled == Spec => CheckSettlesFlag
<1>1. IInv /\ [Next]_vars =>
        [/\ frame.slot = "checkVateam" /\ frame.at = "answer" /\ ~CheckSpoiled
         /\ frame' = NoSlot
         => (check' <=> <<login_session, vagroup>>' \in lm_checked')]_
        <<lmFormVars, frame>>
  <2> SUFFICES ASSUME IInv, [Next]_vars, frame.slot = "checkVateam",
                      frame.at = "answer", ~CheckSpoiled, frame' = NoSlot
               PROVE  check' <=> <<login_session, vagroup>>' \in lm_checked'
    OBVIOUS
  <2>1. FrameOK /\ LMInv
    BY DEF IInv
  <2>2. LM
    <3>1. SUFFICES ASSUME ~LM PROVE FALSE
      OBVIOUS
    <3>2. PICK slots : slots \cap LMSlot = {} /\ MovesOnly(slots)
      BY <3>1, StepOutsideLM
    <3>3. "checkVateam" \notin slots
      BY <3>2 DEF LMSlot
    <3>4. QED
      BY <3>2, <3>3 DEF MovesOnly, NoSlot, Suspended
  <2>3. QED
    BY <2>1, <2>2, LMSettlesFlag DEF LM
<1>2. QED
  BY <1>1, Invariance, PTL DEF Spec, CheckSettlesFlag

(***************************************************************************)
(* An older lead or PIN replaces a newer one only in a slot that one of    *)
(* its kind interrupted.                                                   *)
(***************************************************************************)
THEOREM HoldsNewest == Spec => HoldsLatest
<1>1. IInv /\ [Next]_vars =>
        [/\ HoldsLeadOr(LeadSlot) =>
              OnlyByItself(HoldsLeadOr(LeadSlot)', LeadSlot)
         /\ HoldsPinOr({"ivnewsession"}) =>
              OnlyByItself(HoldsPinOr({"ivnewsession"})', {"ivnewsession"})]_
        <<lmFormVars, frame>>
  <2> SUFFICES ASSUME IInv, [Next]_vars
               PROVE  /\ HoldsLeadOr(LeadSlot) =>
                           OnlyByItself(HoldsLeadOr(LeadSlot)', LeadSlot)
                      /\ HoldsPinOr({"ivnewsession"}) =>
                           OnlyByItself(HoldsPinOr({"ivnewsession"})',
                                        {"ivnewsession"})
    OBVIOUS
  <2>1. FrameOK /\ LMInv
    BY DEF IInv
  <2>2. CASE LM
    BY <2>1, <2>2, LMKeepsLead, LMKeepsPin DEF LM
  <2>3. CASE ~LM
    <3>1. UNCHANGED lmFormVars
      BY <2>3, StepOutsideLM
    <3>2. PICK slots : slots \cap LMSlot = {} /\ MovesOnly(slots)
      BY <2>3, StepOutsideLM
    <3>3. /\ HoldsLeadOr(LeadSlot) => HoldsLeadOr(LeadSlot)'
          /\ HoldsPinOr({"ivnewsession"}) => HoldsPinOr({"ivnewsession"})'
      BY <2>1, <3>1, <3>2, LMForeign
    <3>4. QED
      BY <3>3 DEF OnlyByItself
  <2>4. QED
    BY <2>2, <2>3
<1>2. QED
  BY <1>1, Invariance, PTL DEF Spec, HoldsLatest

(***************************************************************************)
(* The Gari form forgets an open room, or takes up the user id of another  *)
(* one, only in a slot that was interrupted.                               *)
(***************************************************************************)
THEOREM RoomKept == Spec => RoomAndUserKept
<1>1. IInv /\ [Next]_vars =>
        [/\ RoomOpen(session_id) /\ session_id' = NoRoom
               /\ gari_rooms'[session_id] = "open"
             => Interrupted("deleteSession", {"createSession"})
         /\ user_id = session_id \/ user_id = NoRoom
             => \/ user_id' \in {session_id', NoRoom}
                \/ session_id' \notin {session_id, NoRoom}
                \/ Interrupted("readSession",
                               {"createSession", "deleteSession"})]_
        gariFormVars
  <2> SUFFICES ASSUME IInv, [Next]_vars, gariFormVars' # gariFormVars
               PROVE  /\ RoomOpen(session_id) /\ session_id' = NoRoom
                            /\ gari_rooms'[session_id] = "open"
                          => Interrupted("deleteSession", {"createSession"})
                      /\ user_id = session_id \/ user_id = NoRoom
                          => \/ user_id' \in {session_id', NoRoom}
                             \/ session_id' \notin {session_id, NoRoom}
                             \/ Interrupted("readSession",
                                            {"createSession", "deleteSession"})
    OBVIOUS
  <2>1. Gari
    BY DEF Next, EventLoop, Pbx, LM, ACM, HangupSlot, DetachedThread, vars
  <2>2. QED
    BY <2>1, GariKeepsRooms DEF Gari, IInv
<1>2. QED
  BY <1>1, Invariance, PTL DEF Spec, RoomAndUserKept

(***************************************************************************)
(* The ACM form has no alpha too many: only a free whose reply got lost    *)
(* and an answer without an alpha add one each.                            *)
(***************************************************************************)
THEOREM AlphasCounted == Spec => []NoAlphaTooMany
<1>1. IInv => NoAlphaTooMany
  BY DEF IInv, ACMInv, AlphaCount, Waiting, Answering, NoAlphaTooMany
<1>2. QED
  BY <1>1, Invariance, PTL
=============================================================================
