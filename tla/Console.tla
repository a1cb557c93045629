-------------------------------- MODULE Console --------------------------------
(***************************************************************************)
(* The GUI thread of the client (src/delfosclient).  Its event loop runs   *)
(* one slot after the other, but a slot that writes a log line is          *)
(* suspended in it: qDebug() calls consoleMessageHandler(), the signal it  *)
(* emits calls consoleWriteSlot() at once, and that calls                  *)
(* QCoreApplication::processEvents(), which runs every slot whose event is *)
(* waiting.  The log lines of such inner slots go to stderr: Qt does not   *)
(* call a message handler from itself.  So an inner slot runs as a whole,  *)
(* and at most one slot, the outer one, is suspended.                      *)
(***************************************************************************)
EXTENDS Naturals

CONSTANT MaxEvents   \* bound: the events of a behaviour

ASSUME EventsAssumption == MaxEvents \in Nat

VARIABLES
  frame,   \* the suspended slot
  events   \* number of events so far

consoleVars == <<frame, events>>

(***************************************************************************)
(* at: "ask" before and "answer" after the request of the slot; got: what  *)
(* the slot keeps in local variables; inner: what the slots that ran       *)
(* inside its log lines did.                                               *)
(***************************************************************************)
Suspended(slot, got) ==
  [slot |-> slot, at |-> "ask", got |-> got, inner |-> {}]

NoSlot  == Suspended("none", <<>>)
Crashed == Suspended("crashed", <<>>)

Init_Console == frame = NoSlot /\ events = 0

Event == events < MaxEvents /\ events' = events + 1

-----------------------------------------------------------------------------
(* The event loop calls a slot, which writes its first line. *)
Begin(slot, got) ==
  /\ frame = NoSlot
  /\ Event
  /\ frame' = Suspended(slot, got)

(* The outer slot's request is answered and it writes the answer. *)
Answered(slot, got) ==
  /\ frame.slot = slot
  /\ frame.at = "ask"
  /\ frame' = [frame EXCEPT !.at = "answer", !.got = got]
  /\ UNCHANGED events

(* It goes on after the line and returns. *)
Return(slot, at) ==
  /\ frame.slot = slot
  /\ frame.at = at
  /\ frame' = NoSlot
  /\ UNCHANGED events

(***************************************************************************)
(* A slot runs from its beginning to its end: inside a line of another     *)
(* one, or from the event loop.                                            *)
(***************************************************************************)
WholeDid(done) ==
  /\ frame # Crashed
  /\ Event
  /\ frame' = IF frame = NoSlot THEN NoSlot
              ELSE [frame EXCEPT !.inner = @ \cup done]

Whole(slot) == WholeDid({slot})

(***************************************************************************)
(* The reply to a request that was carried out gets lost: the slot writes  *)
(* that it could not reach its server, as after a refusal, and returns.    *)
(***************************************************************************)
Unanswered(slot) == Return(slot, "ask") \/ WholeDid({})
=============================================================================
