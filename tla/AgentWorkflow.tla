----------------------------- MODULE AgentWorkflow -----------------------------
(***************************************************************************)
(* src/src/workflows/AgentWorkflow.cpp: an agent that logs in, becomes     *)
(* available, checks its teams and logs out, for ever, while its alive     *)
(* thread keeps the session alive.                                         *)
(***************************************************************************)
EXTENDS Workflow

SequenceLocation ==
  {"start", "lookup", "getvateams", "login", "publish", "change_status",
   "check_vateam", "check_stop", "clear", "logout", "stop_alives", "join",
   "ended", "threw"}

-----------------------------------------------------------------------------
(* The sequence thread.  This workflow needs no seed of Gari.              *)

(***************************************************************************)
(* The wizard bucket lookups and the creation of the thread may throw.     *)
(***************************************************************************)
LookupAndSpawn == SpawnAliveThread("lookup", "getvateams") \/ Throw("lookup")

BecomeAvailable ==
  \/ StartSequence \/ LookupAndSpawn \/ GetVateams \/ Login
  \/ Publish("change_status") \/ ChangeStatus("check_vateam")
  \/ CheckVateam("check_stop")

LeaveRound ==
  \/ Check("check_stop", "clear") \/ Clear \/ Logout("getvateams")
  \/ StopAlives \/ JoinAlive

Sequence == BecomeAvailable \/ LeaveRound

-----------------------------------------------------------------------------
(* The alive thread: alive_worker() sends no lead. *)

AliveLm == AliveLmOk("unlock") \/ AliveLmFails

AliveWorker == \/ AliveCheck \/ AliveLock \/ AliveNoSession
               \/ AliveCopySession \/ AliveLm \/ AliveUnlock
               \/ AliveCheckAgain

-----------------------------------------------------------------------------

Next == Sequence \/ AliveWorker \/ TerminateProcess \/ Finished

Spec == Init /\ [][Next]_vars

(***************************************************************************)
(* Every request returns and both threads are scheduled.  The critical     *)
(* sections of the sequence compete with an alive thread that sleeps       *)
(* outside the mutex between any two of its own sections (100 ms without a *)
(* session, the periodic delta with one), so a sequence that waits for the *)
(* mutex is not overtaken for ever: strong fairness for the sequence.      *)
(* No signal is ever owed to the program.                                  *)
(***************************************************************************)
FairSpec == Spec /\ SF_vars(Sequence) /\ WF_vars(AliveWorker)

-----------------------------------------------------------------------------
(* Every variable stays within the values its C++ type and use allow. *)
TypeOK ==
  /\ MembersOK
  /\ sequence \in SequenceLocation
  /\ worker \in WorkerLocation

(***************************************************************************)
(* No alive is sent for a session whose logout was already requested: the  *)
(* copy alive_worker() took is still an open session when it is used.      *)
(***************************************************************************)
AliveOnOpenSession ==
  worker = "alive_lm" => session_guid_local \in lm_sessions

(***************************************************************************)
(* LM sees both threads as one well-behaved agent: at most one session,    *)
(* and no request of a session outside its login and its logout.           *)
(***************************************************************************)
LmAgent == INSTANCE AgentSession WITH
  open <- lm_sessions, request <- lm_request,
  Operation <- {"change_status", "check_vateam", "alive"}

ImplementsAgentSession == LmAgent!Spec
=============================================================================
