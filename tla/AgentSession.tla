----------------------------- MODULE AgentSession -----------------------------
(***************************************************************************)
(* What the leads manager may rely on from one simulated desktop agent,    *)
(* whichever of its threads sends a request: the agent holds at most one   *)
(* session, and every request that names a session, an alive included,     *)
(* comes after the login that opened it and no later than its logout.      *)
(* The module is an abstract specification; the workflow modules implement *)
(* it with open <- lm_sessions and request <- lm_request.                  *)
(***************************************************************************)

CONSTANTS
  Session,     \* the session ids a login may return
  Operation,   \* the requests an open session may be used for
  NoRequest    \* nothing was requested yet

VARIABLES open, request

Init == open = {} /\ request = NoRequest

LogIn(s) ==
  /\ open = {}
  /\ open' = {s}
  /\ request' = [op |-> "login", session |-> s]

Use(op, s) ==
  /\ s \in open
  /\ request' = [op |-> op, session |-> s]
  /\ UNCHANGED open

LogOut(s) ==
  /\ s \in open
  /\ open' = open \ {s}
  /\ request' = [op |-> "logout", session |-> s]

Next == \E s \in Session :
          \/ LogIn(s)
          \/ \E op \in Operation : Use(op, s)
          \/ LogOut(s)

Spec == Init /\ [][Next]_<<open, request>>
=============================================================================
