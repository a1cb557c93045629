------------------------------ MODULE TraceDump ------------------------------
(***************************************************************************)
(* RequestTraceThreadController::do_stuff(): the request traces the        *)
(* workflows leave in the shared store are moved to the DB.  It runs in    *)
(* two threads: periodically in the controller's own, and once more in     *)
(* main(), when the workflows are joined and the controller is not yet     *)
(* stopped (main.cpp:485), on the same store.                              *)
(*                                                                         *)
(* Each method of the store is one atomic step (InterfaceNodes is not      *)
(* under src/); a dump is many of them.  The order in which the store      *)
(* lists its traces is its own, so that a list of them is a set here; the  *)
(* rows that hold no trace, for an index that is not in the store (any     *)
(* more), are only counted.                                                *)
(***************************************************************************)
EXTENDS Integers, FiniteSets

CONSTANTS
  Trace,      \* the traces that may be emitted
  MaxAmount   \* _max_request_trace_amount

ASSUME TraceAssumption == IsFiniteSet(Trace)

(***************************************************************************)
(* With 0 every query would be malformed and nothing would be dumped.      *)
(***************************************************************************)
ASSUME MaxAmountAssumption == MaxAmount \in Nat \ {0}

VARIABLES
  shutdown,      \* how far main() is in its shutdown
  pending,       \* traces not emitted yet
  store,         \* _request_traces
  pc,            \* location of each dumper in do_stuff()
  queue_length,  \* its local
  todo,          \* what is left of index_list
  item,          \* the index copied last, as a set, until it is deleted
  rows,          \* traces copied into the query
  blanks,        \* rows of the query without a trace
  table,         \* traces each dumper has inserted in the DB
  lost,          \* history: traces in queries the DB refused
  refused        \* history: whether the DB refused a query of the dumper

dumpVars == <<shutdown, pending, store, pc, queue_length, todo, item, rows,
              blanks, table, lost, refused>>

Dumper == {"controller", "main"}

DumpInit ==
  /\ shutdown = "running"
  /\ pending = Trace
  /\ store = {}
  /\ pc = [d \in Dumper |-> "idle"]
  /\ queue_length = [d \in Dumper |-> 0]
  /\ todo = [d \in Dumper |-> {}]
  /\ item = [d \in Dumper |-> {}]
  /\ rows = [d \in Dumper |-> {}]
  /\ blanks = [d \in Dumper |-> 0]
  /\ table = [d \in Dumper |-> {}]
  /\ lost = {}
  /\ refused = [d \in Dumper |-> FALSE]

-----------------------------------------------------------------------------
(* The workflows and main(). *)

(***************************************************************************)
(* end_trace() and end_trace_alive() of a workflow not yet joined.         *)
(***************************************************************************)
Emit(t) ==
  /\ shutdown = "running"
  /\ t \in pending
  /\ pending' = pending \ {t}
  /\ store' = store \cup {t}
  /\ UNCHANGED <<shutdown, pc, queue_length, todo, item, rows, blanks, table,
                 lost, refused>>

MainMoves(from, to) ==
  /\ shutdown = from
  /\ shutdown' = to
  /\ UNCHANGED <<pending, store, pc, queue_length, todo, item, rows, blanks,
                 table, lost, refused>>

(* A bug in JoinWorkflows: the last dump is left out. *)
SkipLastDump == MainMoves("running", "stopping")

JoinWorkflows == MainMoves("running", "joined")

StopThread == pc["main"] = "returned" /\ MainMoves("joined", "stopping")

(***************************************************************************)
(* stop_thread() has waited for the controller, the traces are deleted.    *)
(***************************************************************************)
DeleteTraces == pc["controller"] = "idle" /\ MainMoves("stopping", "deleted")

-----------------------------------------------------------------------------
(* do_stuff() in the thread d. *)

Returned(d) == IF d = "main" THEN "returned" ELSE "idle"

At(d, from, to) == pc[d] = from /\ pc' = [pc EXCEPT ![d] = to]

(***************************************************************************)
(* The size of the store decides whether there is (another) round.         *)
(***************************************************************************)
ReadSize(d, from) ==
  /\ At(d, from, IF store = {} THEN Returned(d) ELSE "copy")
  /\ queue_length' = [queue_length EXCEPT ![d] = Cardinality(store)]
  /\ UNCHANGED <<shutdown, pending, store, todo, item, rows, blanks, table,
                 lost, refused>>

Begin(d) ==
  /\ shutdown \in (IF d = "main" THEN {"joined"} ELSE {"running", "joined"})
  /\ ReadSize(d, "idle")

NextRound(d) == ReadSize(d, "size")

(***************************************************************************)
(* The list of indexes is copied, some time after the size was read.  If   *)
(* that size was above the maximum the list is resized to the maximum,     *)
(* which pads it when it is shorter by now.                                *)
(***************************************************************************)
CopyList(d) ==
  /\ At(d, "copy", "read")
  /\ IF queue_length[d] > MaxAmount
     THEN \E list \in SUBSET store :
            /\ Cardinality(list) <= MaxAmount
            /\ list = store \/ Cardinality(list) = MaxAmount
            /\ todo' = [todo EXCEPT ![d] = list]
            /\ blanks' = [blanks EXCEPT ![d] = MaxAmount - Cardinality(list)]
     ELSE /\ todo' = [todo EXCEPT ![d] = store]
          /\ UNCHANGED blanks
  /\ UNCHANGED <<shutdown, pending, store, queue_length, item, rows, table,
                 lost, refused>>

(* A bug in CopyContent: the node is deleted before its content is read. *)
DeleteThenCopy(d) ==
  /\ At(d, "read", "delete")
  /\ \E t \in todo[d] :
       /\ item' = [item EXCEPT ![d] = {t}]
       /\ todo' = [todo EXCEPT ![d] = @ \ {t}]
       /\ store' = store \ {t}
  /\ blanks' = [blanks EXCEPT ![d] = @ + 1]
  /\ UNCHANGED <<shutdown, pending, queue_length, rows, table, lost,
                 refused>>

(***************************************************************************)
(* The content of the next index is copied into the query; a default trace *)
(* if the other dumper has deleted it ...                                  *)
(***************************************************************************)
CopyContent(d) ==
  /\ At(d, "read", "delete")
  /\ \E t \in todo[d] :
       /\ item' = [item EXCEPT ![d] = {t}]
       /\ todo' = [todo EXCEPT ![d] = @ \ {t}]
       /\ IF t \in store
          THEN rows' = [rows EXCEPT ![d] = @ \cup {t}] /\ UNCHANGED blanks
          ELSE blanks' = [blanks EXCEPT ![d] = @ + 1] /\ UNCHANGED rows
  /\ UNCHANGED <<shutdown, pending, store, queue_length, table, lost,
                 refused>>

(* A bug in DeleteNode: the deletion is left to the other dumper. *)
KeepNode(d) ==
  /\ At(d, "delete", "read")
  /\ item' = [item EXCEPT ![d] = {}]
  /\ UNCHANGED <<shutdown, pending, store, queue_length, todo, rows, blanks,
                 table, lost, refused>>

(***************************************************************************)
(* ... and then deleted from the store.                                    *)
(***************************************************************************)
DeleteNode(d) ==
  /\ At(d, "delete", "read")
  /\ store' = store \ item[d]
  /\ item' = [item EXCEPT ![d] = {}]
  /\ UNCHANGED <<shutdown, pending, queue_length, todo, rows, blanks, table,
                 lost, refused>>

EmptyQuery(d) == rows[d] = {} /\ blanks[d] = 0

QueryDone(d) ==
  /\ todo[d] = {}
  /\ rows' = [rows EXCEPT ![d] = {}]
  /\ blanks' = [blanks EXCEPT ![d] = 0]
  /\ UNCHANGED <<shutdown, pending, store, queue_length, todo, item>>

(***************************************************************************)
(* The query is performed, and the store looked at again.  A query that    *)
(* fails ends do_stuff(), its rows are in the store no more.               *)
(***************************************************************************)
InsertRows(d) ==
  /\ ~EmptyQuery(d)
  /\ At(d, "read", "size")
  /\ QueryDone(d)
  /\ table' = [table EXCEPT ![d] = @ \cup rows[d]]
  /\ UNCHANGED <<lost, refused>>

InsertRefused(d) ==
  /\ ~EmptyQuery(d)
  /\ At(d, "read", Returned(d))
  /\ QueryDone(d)
  /\ lost' = lost \cup rows[d]
  /\ refused' = [refused EXCEPT ![d] = TRUE]
  /\ UNCHANGED table

(* A bug in InsertMalformed: after an error the loop is continued. *)
RetryMalformed(d) ==
  /\ EmptyQuery(d)
  /\ At(d, "read", "copy")
  /\ QueryDone(d)
  /\ UNCHANGED <<table, lost, refused>>

(***************************************************************************)
(* A query without a row has lost part of its list of columns: an error.   *)
(***************************************************************************)
InsertMalformed(d) ==
  /\ EmptyQuery(d)
  /\ At(d, "read", Returned(d))
  /\ QueryDone(d)
  /\ UNCHANGED <<table, lost, refused>>

Round(d) == \/ NextRound(d) \/ CopyList(d) \/ CopyContent(d) \/ DeleteNode(d)
            \/ InsertRows(d) \/ InsertRefused(d) \/ InsertMalformed(d)

Dump(d) == Begin(d) \/ Round(d)

Shutdown == JoinWorkflows \/ StopThread \/ DeleteTraces

DumpFinished == shutdown = "deleted" /\ UNCHANGED dumpVars

DumpNext == \/ \E t \in Trace : Emit(t)
            \/ Shutdown
            \/ \E d \in Dumper : Dump(d)
            \/ DumpFinished

DumpSpec == DumpInit /\ [][DumpNext]_dumpVars

(***************************************************************************)
(* Both threads are scheduled.  Whether the workflows are ever joined is   *)
(* not asked here, nor how often the controller's period elapses.          *)
(***************************************************************************)
DumpFairness ==
  /\ WF_dumpVars(StopThread \/ DeleteTraces)
  /\ WF_dumpVars(Dump("main"))
  /\ WF_dumpVars(Round("controller"))

FairDumpSpec == DumpSpec /\ DumpFairness

-----------------------------------------------------------------------------
Location == {"idle", "copy", "read", "delete", "size", "returned"}

DumpTypeOK ==
  /\ shutdown \in {"running", "joined", "stopping", "deleted"}
  /\ pending \in SUBSET Trace
  /\ store \in SUBSET Trace
  /\ pc \in [Dumper -> Location]
  /\ queue_length \in [Dumper -> Nat]
  /\ todo \in [Dumper -> SUBSET Trace]
  /\ item \in [Dumper -> SUBSET Trace]
  /\ rows \in [Dumper -> SUBSET Trace]
  /\ blanks \in [Dumper -> Nat]
  /\ table \in [Dumper -> SUBSET Trace]
  /\ lost \in SUBSET Trace
  /\ refused \in [Dumper -> BOOLEAN]

Emitted == Trace \ pending

(***************************************************************************)
(* However the two dumps interleave, a trace that was emitted is in the    *)
(* store, in a query being built, in the DB, or in a query the DB refused: *)
(* none is deleted by one dumper because the other was going to insert it. *)
(***************************************************************************)
NoTraceVanishes ==
  \A t \in Emitted :
    \/ t \in store \cup lost
    \/ \E d \in Dumper : t \in rows[d] \cup table[d]

(***************************************************************************)
(* Both dumpers may insert the same trace, but neither does so twice.      *)
(***************************************************************************)
NoDumperRepeats ==
  \A d \in Dumper : table[d] \cap (todo[d] \cup rows[d]) = {}

(***************************************************************************)
(* When the traces are deleted none is left that was not handed to the DB, *)
(* unless the DB refused a query of the last dump.                         *)
(***************************************************************************)
NothingLeftBehind ==
  shutdown = "deleted" /\ ~refused["main"] =>
    /\ store = {}
    /\ \A d \in Dumper : rows[d] = {} /\ todo[d] = {}

(***************************************************************************)
(* Both dumps together, and the shutdown, deliver the traces: by their     *)
(* deletion each is in the DB or in a query it refused, unless it refused  *)
(* one of the last dump, and nothing is emitted or inserted afterwards.    *)
(***************************************************************************)
Delivery == INSTANCE TraceDelivery WITH
  emitted <- Emitted, delivered <- table, closed <- shutdown = "deleted",
  Last <- "main"

ImplementsTraceDelivery == Delivery!Spec

(***************************************************************************)
(* The last dump and the stop of the controller end: no loop of do_stuff() *)
(* goes on for ever once nobody adds to the store.                         *)
(***************************************************************************)
ShutdownEnds == shutdown = "joined" ~> shutdown = "deleted"
=============================================================================
