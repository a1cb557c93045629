---------------------------- MODULE WorkflowObject ----------------------------
(***************************************************************************)
(* What main() may rely on from one workflow object when it waits at the   *)
(* barrier, joins and deletes: the thread of the workflow arrives before   *)
(* it does anything else and leaves sequence() once; the alive thread is   *)
(* created at most once, by that thread, and does not outlive it; nothing  *)
(* is requested before the arrival or after the thread has left; and the   *)
(* object is deleted no sooner.                                            *)
(* The module is an abstract specification.  Every workflow module         *)
(* implements its thread's part, with an object nobody deletes; module     *)
(* Enzo, whose workflows are but their phase, implements the rest.         *)
(***************************************************************************)

VARIABLES
  phase,     \* of the workflow's thread
  alives,    \* of its alive thread
  request,   \* the last request its threads made of LM
  deleted    \* whether the object is deleted

vars == <<phase, alives, request, deleted>>

Init ==
  /\ phase = "starting"
  /\ alives = "none"
  /\ deleted = FALSE

Arrive ==
  /\ phase = "starting"
  /\ phase' = "arrived"
  /\ UNCHANGED <<alives, request, deleted>>

SpawnAlives ==
  /\ phase = "arrived"
  /\ alives = "none"
  /\ alives' = "running"
  /\ UNCHANGED <<phase, request, deleted>>

(***************************************************************************)
(* Any request: request' is not restricted.                                *)
(***************************************************************************)
Work ==
  /\ phase = "arrived"
  /\ UNCHANGED <<phase, alives, deleted>>

(***************************************************************************)
(* Its last act may be a request that failed.                              *)
(***************************************************************************)
EndAlives ==
  /\ phase = "arrived"
  /\ alives = "running"
  /\ alives' = "over"
  /\ UNCHANGED <<phase, deleted>>

Leave ==
  /\ phase = "arrived"
  /\ alives # "running"
  /\ phase' \in {"ended", "threw"}
  /\ UNCHANGED <<alives, request, deleted>>

Delete ==
  /\ phase \in {"ended", "threw"}
  /\ ~deleted
  /\ deleted' = TRUE
  /\ UNCHANGED <<phase, alives, request>>

Next == Arrive \/ SpawnAlives \/ Work \/ EndAlives \/ Leave \/ Delete

Spec == Init /\ [][Next]_vars
=============================================================================
