--------------------------------- MODULE LMForm --------------------------------
(***************************************************************************)
(* src/delfosclient/src/lmform.cpp: a desktop agent of LM behind buttons.  *)
(* Two timers keep his session and the PIN of an interactive video alive.  *)
(* A slot sends its request in one step, which only LM's state takes part  *)
(* in, and captures the response in another; an inner slot is both at      *)
(* once.  A slot whose request fails cannot tell whether LM carried it out *)
(* and the reply got lost; a response without the expected member captures *)
(* nothing.  Slots that only pass ids on, create_delfosnar() among them,   *)
(* leave no trace and are not modelled.                                    *)
(***************************************************************************)
EXTENDS Console

CONSTANTS
  Session, NoSession,   \* LM's sessions; the empty _login_session
  Team, NoTeam,         \* the agent's teams
  Lead, NoLead,
  Pin, NoPin

ASSUME LMFormAssumption ==
  /\ NoSession \notin Session
  /\ NoTeam \notin Team
  /\ NoLead \notin Lead
  /\ NoPin \notin Pin

VARIABLES
  login_session,     \* _login_session
  alive_timer,       \* _alive_timer is running
  pin_alive_timer,   \* _pin_alive_timer is running
  vagroup, check,    \* the one entry of _vagroup_map: its guid and its check
  lead_id, pin,      \* _lead_id, _pin
  lm_session,        \* external: each session "new", "open", "closed", or
                     \* "lost": closed by a logout whose reply got lost
  lm_checked,        \* external: teams checked by a session
  lm_lead, lm_pin    \* external: lead and PIN of LM's last response that
                     \* arrived

lmForm     == <<login_session, alive_timer, pin_alive_timer, vagroup, check,
                lead_id, pin>>
lmServer   == <<lm_session, lm_checked, lm_lead, lm_pin>>
lmFormVars == <<lmForm, lmServer>>

Init_LMForm ==
  /\ login_session = NoSession
  /\ alive_timer = FALSE
  /\ pin_alive_timer = FALSE
  /\ vagroup = NoTeam
  /\ check = FALSE
  /\ lead_id = NoLead
  /\ pin = NoPin
  /\ lm_session = [s \in Session |-> "new"]
  /\ lm_checked = {}
  /\ lm_lead = NoLead
  /\ lm_pin = NoPin

SessionOpen == login_session # NoSession /\ lm_session[login_session] = "open"

(***************************************************************************)
(* An inner slot cleared the map: a login that captured teams or a logout. *)
(***************************************************************************)
Dangling == frame.inner \cap {"teams", "logout"} # {}
-----------------------------------------------------------------------------
(* What the requests change at LM. *)

(* A response that names no session opened none. *)
RequestLogin(s) ==
  /\ \/ /\ s # NoSession
        /\ lm_session[s] = "new"
        /\ lm_session' = [lm_session EXCEPT ![s] = "open"]
     \/ s = NoSession /\ UNCHANGED lm_session
  /\ UNCHANGED <<lm_checked, lm_lead, lm_pin>>

RequestLogout(state) ==
  /\ SessionOpen
  /\ lm_session' = [lm_session EXCEPT ![login_session] = state]
  /\ UNCHANGED <<lm_checked, lm_lead, lm_pin>>

(* checked: whether the entry was checked when its slot began. *)
RequestCheck(team, checked) ==
  /\ SessionOpen
  /\ lm_checked' = IF checked THEN lm_checked \ {<<login_session, team>>}
                   ELSE lm_checked \cup {<<login_session, team>>}
  /\ UNCHANGED <<lm_session, lm_lead, lm_pin>>

(* requestLead is the customer's and needs no session. *)
RequestLead(slot, l) ==
  /\ slot = "requestLead" \/ SessionOpen
  /\ l # lm_lead
  /\ lm_lead' = l
  /\ UNCHANGED <<lm_session, lm_checked, lm_pin>>

RequestIvnewsession(p) ==
  /\ p # lm_pin
  /\ lm_pin' = p
  /\ UNCHANGED <<lm_session, lm_checked, lm_lead>>

-----------------------------------------------------------------------------
(* What the form captures. *)

(***************************************************************************)
(* Session and teams are captured independently.  Each team of the         *)
(* response clears the map before it is inserted, so the last one, t,      *)
(* stays; without a team (NoTeam) the map stays as it is, check included.  *)
(***************************************************************************)
CaptureLogin(s, t) ==
  /\ IF s # NoSession
     THEN login_session' = s /\ alive_timer' = TRUE
     ELSE UNCHANGED <<login_session, alive_timer>>
  /\ IF t # NoTeam
     THEN vagroup' = t /\ check' = FALSE
     ELSE UNCHANGED <<vagroup, check>>
  /\ UNCHANGED <<pin_alive_timer, lead_id, pin>>

LoginDid(s, t) == {d \in {"session", "teams"} :
                     /\ d = "session" => s # NoSession
                     /\ d = "teams" => t # NoTeam}

\* a bug: the timer goes on after a logout
ForgetMapOnly ==
  /\ pin_alive_timer' = FALSE
  /\ vagroup' = NoTeam
  /\ check' = FALSE
  /\ UNCHANGED <<login_session, alive_timer, lead_id, pin>>

(* _login_session and _lead_id keep their values. *)
ForgetLogin ==
  /\ alive_timer' = FALSE
  /\ pin_alive_timer' = FALSE
  /\ vagroup' = NoTeam
  /\ check' = FALSE
  /\ UNCHANGED <<login_session, lead_id, pin>>

\* a bug: the check is set, never taken back
RaiseCheck ==
  /\ check' = TRUE
  /\ UNCHANGED <<login_session, alive_timer, pin_alive_timer, vagroup,
                 lead_id, pin>>

ToggleCheck ==
  /\ check' = ~check
  /\ UNCHANGED <<login_session, alive_timer, pin_alive_timer, vagroup,
                 lead_id, pin>>

CaptureLead(l) ==
  /\ lead_id' = l
  /\ UNCHANGED <<login_session, alive_timer, pin_alive_timer, vagroup, check,
                 pin>>

\* a bug: the timer is restarted and the PIN forgotten
RestartPinTimer(p) ==
  /\ pin_alive_timer' = TRUE
  /\ UNCHANGED <<login_session, alive_timer, vagroup, check, lead_id, pin>>

CapturePin(p) ==
  /\ pin' = p
  /\ pin_alive_timer' = TRUE
  /\ UNCHANGED <<login_session, alive_timer, vagroup, check, lead_id>>

-----------------------------------------------------------------------------
(* The slots. *)

LoginButton ==
  \/ Begin("login", <<>>) /\ UNCHANGED lmFormVars
  \/ \E s \in Session \cup {NoSession}, t \in Team \cup {NoTeam} :
       /\ RequestLogin(s)
       /\ \/ Answered("login", <<s, t>>) /\ UNCHANGED lmForm
          \/ WholeDid(LoginDid(s, t)) /\ CaptureLogin(s, t)
  \/ \E s \in Session :
       RequestLogin(s) /\ Unanswered("login") /\ UNCHANGED lmForm
  \/ /\ Return("login", "answer")
     /\ CaptureLogin(frame.got[1], frame.got[2])
     /\ UNCHANGED lmServer

LogoutButton ==
  \/ Begin("logout", <<>>) /\ UNCHANGED lmFormVars
  \/ /\ RequestLogout("closed")
     /\ \/ Answered("logout", <<login_session>>) /\ UNCHANGED lmForm
        \/ Whole("logout") /\ ForgetLogin
  \/ RequestLogout("lost") /\ Unanswered("logout") /\ UNCHANGED lmForm
  \/ /\ Return("logout", "answer")
     /\ ForgetLogin
     /\ UNCHANGED lmServer

(***************************************************************************)
(* The slot looks its entry up, copies the guid and tests the check before *)
(* its first line, and changes the check through the same iterator after   *)
(* the last one.  An inner slot that cleared the map left the iterator     *)
(* dangling: the write gets lost, or hits the entry that a login has put   *)
(* in the place of the freed one, or the client crashes.                   *)
(***************************************************************************)
CheckVateamButton ==
  \/ /\ vagroup # NoTeam
     /\ Begin("checkVateam", <<vagroup, check>>)
     /\ UNCHANGED lmFormVars
  \/ /\ frame.slot = "checkVateam"
     /\ RequestCheck(frame.got[1], frame.got[2])
     /\ \/ Answered("checkVateam", frame.got)
        \/ Return("checkVateam", "ask")
     /\ UNCHANGED lmForm
  \/ /\ vagroup # NoTeam
     /\ RequestCheck(vagroup, check)
     /\ Whole("checkVateam")
     /\ ToggleCheck \/ UNCHANGED lmForm
  \/ /\ Dangling => vagroup # NoTeam
     /\ Return("checkVateam", "answer")
     /\ ToggleCheck
     /\ UNCHANGED lmServer
  \/ /\ Dangling
     /\ \/ Return("checkVateam", "answer")
        \/ /\ frame.slot = "checkVateam" /\ frame.at = "answer"
           /\ frame' = Crashed
           /\ UNCHANGED events
     /\ UNCHANGED lmFormVars

LeadSlot == {"requestLead", "openSession", "createLead"}

LeadButton(slot) ==
  \/ Begin(slot, <<>>) /\ UNCHANGED lmFormVars
  \/ \E l \in Lead :
       /\ RequestLead(slot, l)
       /\ \/ Answered(slot, <<l>>) /\ UNCHANGED lmForm
          \/ Whole(slot) /\ CaptureLead(l)
  \/ /\ Return(slot, "answer")
     /\ CaptureLead(frame.got[1])
     /\ UNCHANGED lmServer

IvnewsessionButton ==
  \/ Begin("ivnewsession", <<>>) /\ UNCHANGED lmFormVars
  \/ \E p \in Pin :
       /\ RequestIvnewsession(p)
       /\ \/ Answered("ivnewsession", <<p>>) /\ UNCHANGED lmForm
          \/ Whole("ivnewsession") /\ CapturePin(p)
  \/ /\ Return("ivnewsession", "answer")
     /\ CapturePin(frame.got[1])
     /\ UNCHANGED lmServer

(***************************************************************************)
(* The timers call the slots of the Alive and Ivflag buttons, which send   *)
(* what the form holds once their first line is written.  They fire from   *)
(* the event loop and inside the lines of other slots, the answer of the   *)
(* logout included.                                                        *)
(***************************************************************************)
TimerSlots ==
  /\ \/ alive_timer /\ (Begin("alive", <<>>) \/ Whole("alive"))
     \/ pin_alive_timer /\ (Begin("ivflag", <<>>) \/ Whole("ivflag"))
     \/ Return("alive", "ask")
     \/ Return("ivflag", "ask")
  /\ UNCHANGED lmFormVars

\* a bug: a refused logout forgets the login
ForgetOnRefusal ==
  \/ /\ \E slot \in LeadSlot \cup {"login", "checkVateam", "ivnewsession"} :
          Return(slot, "ask")
     /\ UNCHANGED lmFormVars
  \/ Return("logout", "ask") /\ ForgetLogin /\ UNCHANGED lmServer

(***************************************************************************)
(* A refused request ends its slot, and so does a request for a lead or a  *)
(* PIN whose reply got lost or names none: nothing else is affected.       *)
(***************************************************************************)
LMRefuses ==
  /\ \E slot \in LeadSlot \cup {"login", "logout", "checkVateam",
                                "ivnewsession"} : Return(slot, "ask")
  /\ UNCHANGED lmFormVars

LMFormSlots ==
  \/ LoginButton \/ LogoutButton \/ CheckVateamButton
  \/ \E slot \in LeadSlot : LeadButton(slot)
  \/ IvnewsessionButton \/ TimerSlots \/ LMRefuses

-----------------------------------------------------------------------------
LMFormTypes ==
  /\ login_session \in Session \cup {NoSession}
  /\ vagroup \in Team \cup {NoTeam}
  /\ {alive_timer, pin_alive_timer, check} \subseteq BOOLEAN
  /\ {lead_id, lm_lead} \subseteq Lead \cup {NoLead}
  /\ {pin, lm_pin} \subseteq Pin \cup {NoPin}
  /\ lm_session \in [Session -> {"new", "open", "closed", "lost"}]
  /\ lm_checked \in SUBSET (Session \X Team)

(* LM has not told the form that the session is closed. *)
ToldOpen ==
  login_session # NoSession /\ lm_session[login_session] \in {"open", "lost"}

(***************************************************************************)
(* The alive timer does not outlive its session.  It runs on a closed one  *)
(* only while the very logout that closed it writes the answer (and fires  *)
(* there if it is due), or if that logout's reply got lost.  An alive that *)
(* it started elsewhere names a closed session only if a logout ran inside *)
(* the alive's own line, or, again, a logout's reply got lost.             *)
(***************************************************************************)
TimerOnOpenSession ==
  /\ alive_timer =>
       \/ ToldOpen
       \/ /\ frame.slot = "logout" /\ frame.at = "answer"
          /\ frame.got = <<login_session>>
  /\ frame.slot = "alive" => ToldOpen \/ "logout" \in frame.inner

(***************************************************************************)
(* The open session the form holds is kept alive until it is closed.  The  *)
(* one exception: the timer that a login started inside the line of a      *)
(* logout is stopped by the end of that logout.  (A session that another   *)
(* login replaced, or whose login reply got lost, is not held any more.)   *)
(***************************************************************************)
OpenSessionKeptAlive ==
  [][alive_timer /\ SessionOpen' /\ ~alive_timer'
       => frame.slot = "logout" /\ "session" \in frame.inner]_lmFormVars

(***************************************************************************)
(* A check slot that goes through settles the check: when it returns, the  *)
(* form shows what LM has for the session and the team it holds, however   *)
(* they disagreed before (after a lost reply, a login without teams, or an *)
(* interrupted slot).  A login, logout or check inside its own lines may   *)
(* spoil it.                                                               *)
(***************************************************************************)
CheckSpoiled ==
  frame.inner \cap {"session", "teams", "logout", "checkVateam"} # {}

CheckSettlesFlag ==
  [][/\ frame.slot = "checkVateam" /\ frame.at = "answer" /\ ~CheckSpoiled
     /\ frame' = NoSlot
     => (check' <=> <<login_session, vagroup>>' \in lm_checked')]_
    <<lmFormVars, frame>>

(***************************************************************************)
(* The form holds the lead and the PIN of the last response that reached   *)
(* it, but while that is written.  Only a slot interrupted by one of its   *)
(* kind replaces what is newer by what is older.                           *)
(***************************************************************************)
Capturing(slots) == frame.slot \in slots /\ frame.at = "answer"

HoldsLeadOr(slots) == lead_id = lm_lead \/ Capturing(slots)
HoldsPinOr(slots)  == pin = lm_pin \/ Capturing(slots)

OnlyByItself(holds, slots) ==
  holds \/ (Capturing(slots) /\ frame.inner \cap slots # {})

HoldsLatest ==
  [][/\ HoldsLeadOr(LeadSlot) =>
          OnlyByItself(HoldsLeadOr(LeadSlot)', LeadSlot)
     /\ HoldsPinOr({"ivnewsession"}) =>
          OnlyByItself(HoldsPinOr({"ivnewsession"})', {"ivnewsession"})]_
    <<lmFormVars, frame>>
=============================================================================
