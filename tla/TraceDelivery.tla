----------------------------- MODULE TraceDelivery -----------------------------
(***************************************************************************)
(* What the workflows may rely on when they emit request traces, whoever   *)
(* dumps them and however often: the DB gets emitted traces only and keeps *)
(* them; once the traces are deleted nothing is emitted or delivered any   *)
(* more; and by then every trace emitted was delivered or was in a query   *)
(* the DB refused, unless it refused one of the last dump.                 *)
(* The module is an abstract specification, which module TraceDump         *)
(* implements: there is no store in it, no query and no step between.      *)
(***************************************************************************)

CONSTANTS
  Trace,     \* the traces that may be emitted
  Dumper,    \* who delivers them
  Last       \* the dumper that runs when all traces are emitted

VARIABLES
  emitted,     \* the traces emitted so far
  delivered,   \* what each dumper has delivered
  lost,        \* what was in a refused query
  refused,     \* whether a query of the dumper was refused
  closed       \* the traces are deleted

Init ==
  /\ emitted = {}
  /\ delivered = [d \in Dumper |-> {}]
  /\ lost = {}
  /\ refused = [d \in Dumper |-> FALSE]
  /\ closed = FALSE

Emit(t) ==
  /\ ~closed
  /\ t \notin emitted
  /\ emitted' = emitted \cup {t}
  /\ UNCHANGED <<delivered, lost, refused, closed>>

Deliver(d, batch) ==
  /\ ~closed
  /\ batch \subseteq emitted
  /\ delivered' = [delivered EXCEPT ![d] = @ \cup batch]
  /\ UNCHANGED <<emitted, lost, refused, closed>>

Refuse(d, batch) ==
  /\ ~closed
  /\ batch \subseteq emitted
  /\ lost' = lost \cup batch
  /\ refused' = [refused EXCEPT ![d] = TRUE]
  /\ UNCHANGED <<emitted, delivered, closed>>

Accounted == lost \cup UNION {delivered[d] : d \in Dumper}

Close ==
  /\ ~closed
  /\ refused[Last] \/ emitted \subseteq Accounted
  /\ closed' = TRUE
  /\ UNCHANGED <<emitted, delivered, lost, refused>>

Next == \/ \E t \in Trace : Emit(t)
        \/ \E d \in Dumper, batch \in SUBSET Trace :
             Deliver(d, batch) \/ Refuse(d, batch)
        \/ Close

Spec == Init /\ [][Next]_<<emitted, delivered, lost, refused, closed>>
=============================================================================
