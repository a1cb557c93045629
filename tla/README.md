# Verification of delfos (Enzo)

Enzo is a load tester of the Delfos services. Its process (`src/src/main.cpp`)
starts a number of *workflows*; each plays one desktop agent and his customer
against the leads manager **LM**, the room server **Gari** and a telephone
exchange **PBX** whose provider Twilio is mocked inside the process. The client
under `src/delfosclient` is a separate Qt program with the same requests behind
buttons. This directory holds TLA+ models of Enzo's concurrent core and of the
client's forms, the TLC configurations that check them and TLAPS proofs about
them.

## Inventory

| Component | State | Operations | Interacts with |
|---|---|---|---|
| Process life cycle, `main.cpp` | `process_can_continue`, `workflow_list`, the barrier, wizard bucket, trace controller and Twilio mock on the stack of `main()` | configure, check PBX, create bucket, launch, wait, join, delete, stop; the signal handler; the Twilio dispatch | every other part |
| `Barrier` (`utils/Barrier.h`) | count, mutex, condition variable | `set`, `increment`, `wait` | `main()` waits, workflows count down |
| `WizardBucketRAII` | rows in the DB | creation, destruction | `main()`'s stack unwinding |
| `RequestTraceThreadController` | number of rounds, a query under construction | `do_stuff()`: periodically and once more from `main()` | the store of request traces, `workflow_list` |
| `RequestTraceNodes` | the shared store of traces | insert, copy, delete | both threads of every workflow; two dumpers |
| `Workflow` (base class) | running flag, sequence thread, user id of Gari, two traces | `start`, `terminate`, requests of alives, seed, update | `Barrier`, LM, Gari, the trace store |
| `AgentWorkflow` | session, alive flag | login, available, check, logout in a loop, with an alive thread | LM |
| `InboundWorkflow` | + lead, call, bridged flag | a customer calls in | LM, Gari, Twilio handler |
| `CMNWorkflow` | the same | the customer asks to be called now | LM, Gari, Twilio handler |
| `IVWorkflow` | + PIN | the customer calls with a PIN | LM, Gari, Twilio handler |
| `ScheduledWorkflow` | + lead session | the customer asks to be called later | LM, Gari, Twilio handler |
| `ManyWorkflow` (delfosnar) | owner and visitors of a room | create a room, enter, update, close | Gari |
| `ExpiredWorkflow` | one lead | a lead is left to expire | LM |
| Configuration, command line, spy, preprocessor pool | constants | read and print | `main()` before the first launch |
| Client: main window, console (`mainwindow.cpp`, `main.cpp`) | the current tab | a log line that runs the event loop | every form |
| Client: `PbxForm` | one call of three channels, the current conference | call, bridge, redirect and hangup in detached threads; events of PBX | PBX |
| Client: `LMForm` | session, two timers, map of teams, lead, PIN | login, logout, check, leads, PIN; alive and flag by timer | LM |
| Client: `GARIForm` | seed, session, user id in a line edit | create, read and delete seeds and sessions | Gari |
| Client: `ACMForm` | map of alphas | reserve, free, look at alphas | ACM |
| Client: RM, KPI and RTV forms | a guid (RTV) | one request a button | RM, KPI, RTV |

### What is hard here

- **Two threads per workflow.** `sequence()` and `alive_worker()` share the
  session, the lead, the PIN and the user id of Gari under `_session_mutex`.
  The alive thread copies them and then holds the mutex across up to three
  blocking requests. What has to hold is that no request of the alive thread
  names something the sequence has already given back.
- **A third thread.** The Twilio mock delivers events to every workflow of the
  list. `twilio_event()` reads and writes `_call`, `_call_bridged` and
  `_lead_customer_phone` without a lock, while the sequence resets them at the
  beginning of a round, polls them and clears them.
- **Failure at every step.** Every request may be refused and every lookup may
  throw; each leaves the loop by its own path, and the alive thread has to be
  joined on all of them.
- **Start-up and shutdown.** `main()` launches, waits at the barrier, joins,
  deletes, then stops the controller and the Twilio mock, which have pointers
  to what was deleted; signals and failures come at any time.
- **Two dumpers on one store.** `do_stuff()` runs in its own thread and once
  more in `main()`, while the workflows still write, and the DB may refuse.
- **Slots inside slots.** Every slot of the client writes log lines, and a log
  line of the client runs the event loop: any button or timer that is waiting
  runs in the middle of a slot, between its request and what it keeps of the
  response.
- **Detached threads on one call.** Most buttons of the PBX form start a
  detached thread; all of them change the same call object, and none is locked.

`PROJECT.json` lists these hazards line by line with the properties that are
about them.

## Modules

| Module | Models | Composition |
|---|---|---|
| `AgentSession` | abstract: what LM may rely on from one agent | implemented by each workflow module below |
| `WorkflowObject` | abstract: what `main()` may rely on from one workflow object, from its launch to its deletion | its threads' part implemented by each workflow module below, the whole by each workflow of `Enzo` |
| `TraceDelivery` | abstract: what becomes of a request trace | implemented by `TraceDump` |
| `Workflow` | what all the workflows that log in share: both threads' life cycle, session, mutex, LM alives, and the common steps of the sequences | extended by the next ones |
| `AgentWorkflow` | `AgentWorkflow.cpp` | `Workflow` |
| `LeadWorkflow` | lead, Gari's user id, call and Twilio handler | `Workflow` |
| `InboundWorkflow` | `InboundWorkflow.cpp` | `LeadWorkflow` |
| `CMNWorkflow` | `CMNWorkflow.cpp` | `LeadWorkflow` |
| `IVWorkflow` | `IVWorkflow.cpp` | `LeadWorkflow` + PIN |
| `ScheduledWorkflow` | `ScheduledWorkflow.cpp` | `LeadWorkflow` + the lead's session |
| `ManyWorkflow` | `ManyWorkflow.cpp` | `Workflow` + the room and its users |
| `Enzo` | `main.cpp`, `Barrier.h`, `WizardBucketRAII` and the controller's walk over the list | workflows are reduced to the phase of their thread; what that leaves out is `WorkflowObject` |
| `TraceDump` | `RequestTraceThreadController::do_stuff()`, the store of traces, the end of `main()` | stands alone |
| `Console` | the client's GUI thread: slots, and the log lines that run others inside them | extended by the forms |
| `PbxForm` | `pbxform.cpp` | `Console` + detached threads |
| `LMForm` | `lmform.cpp` | `Console` |
| `GariForm` | `gariform.cpp` | `Console` |
| `ACMForm` | `acmform.cpp` | `Console` |
| `MainWindow` | `mainwindow.cpp`: the forms in one window | the four forms |
| `*_proof` | the proofs about the module of that name | extend it |
| `Process_proof` | the proofs about `Enzo` and `TraceDump` | extends both, which have no name in common |

**Threads and locations.** `sequence` and `worker` hold the place at which the
two threads of a workflow stand; an action moves one thread from one place to
the next and does what the code does in between. A request of LM or Gari is one
step with two outcomes; where the code checks the stop flag before a request,
check and request are one step with a third outcome. A critical section without
a request in it is one step that needs the mutex free. A critical section with
requests (the alive thread's) is several steps between `session_mutex = "alive"`
and `"free"`. `sequence = "threw"` is the return from the catch block, `"ended"`
the one at the end of the function. In `ManyWorkflow`, `"terminated"` is the
process ended by `std::terminate()`.

**The shared steps.** `Workflow` and `LeadWorkflow` define the steps that the
sequences have in common once, with the location that follows as a parameter;
a workflow module puts them in the order of its own `sequence()`
(`BecomeAvailable`, ..., `LeaveRound`) and adds what only it does.

**Data.** Session, lead, room and PIN are model values. `NoSession`, `NoLead`,
`NoRoom` and `NoPin` stand for the empty string, or the id 0. A user id of Gari
is represented by the room that issued it, the only thing the properties ask of
it; the room of a lead is named by the lead. In `ScheduledWorkflow` the room is
named by the lead's session, and `lead_session_guid` holds the lead whose
session it is. The customer's phone appears as the set of events of the current
phone that are still to come, `pbx_events`: a new phone replaces the set, since
events of the old one no longer match.

**Outside the program** of the load tester are LM (`lm_sessions`, `lm_leads`, `lm_pins`,
`lm_rooms`, `lm_request`), PBX (`pbx_events`), Gari, the DB (`table`, `bucket`)
and the classes of the core library, which is not part of the repository:
`CallChannel` is modelled by what the handlers need of it (a channel is called
once and bridged after it was called), each method of the store of traces as
one atomic step. For the client these are LM (`lm_session`, `lm_checked`,
`lm_lead`, `lm_pin`), Gari (`gari_seeds`, `gari_rooms`), the ACM (`acm_alphas`)
and PBX (`connected`, `bridged`). In the load tester a refused request is not
carried out, and a response without the member that is looked for captures
nothing, like a refused request. In the client a request that fails may have
been carried out and its reply lost (`Unanswered`, and `"ko"` of a PBX thread):
a login opens a session the form never learns of, a logout closes one the form
still holds (`"lost"` in `lm_session`), a check or a free changes what the form
goes on showing. The members of a response are captured one by one: a login may
bring a session without teams, which leaves the map and its check as they were,
or teams without a session; an answer of the ACM without an alpha is stored
under the empty string (`NoAlpha`). `excess` is a history variable that counts
such answers and the frees whose reply got lost. The statuses of `CallChannel` are those its
names suggest, in the order in which the form uses them; they are marked
external.

**Enzo.** `main` is the place of the main thread, `thread[w]` the phase of a
workflow's thread (none, created, arrived at the barrier, over), `deleted` the
workflows deleted so far, `listed` the length of `workflow_list`, `twilio` and
`controller` where the two walks over the list stand. Undefined behaviour, the
use of a deleted object, is a choice between a crash and going on.

**Console and forms.** A slot logs through `qDebug()`. The message handler that
`main.cpp` installs (`consoleMessageHandler`) emits a signal of the window,
whose slot `consoleWriteSlot()` calls `QCoreApplication::processEvents()`
(`mainwindow.cpp:60`): clicks and timers that are waiting run before the line
returns. Qt calls no message handler from within itself, so the lines of such
an *inner* slot go to stderr and it runs as a whole (`Whole`); at most one slot,
the *outer* one, is suspended (`frame`). An outer slot takes a step for its
beginning up to the line before its request (`Begin`), one for its request
(`Answered`), which only the server's state takes part in, and one for the end,
where it keeps what it has got (`Return`). Lines that follow each other without
a change of state between them are one: `frame.inner` collects what the slots
that ran in any of them did (a login whether it captured a session, teams or
both; of any other slot its name). The two timers of the LM form fire like
clicks, from the event loop or inside another slot's line (`TimerSlots`), so
that an alive may fall into the answer line of the logout that has closed its
session. An iterator that an inner slot left dangling and the
`begin()` of an empty map are a choice between going on and `Crashed`.

**PbxForm.** `thread` holds what each detached thread runs and where it stands;
every method of a channel and every request is one step. Signals that PBX's
thread emits wait in a queue (`hangups`) for the GUI thread, which is how Qt
delivers them. `overlapped` and `inbound` are history variables: whether a
thread other than a call ran beside another one since the call object was made,
and whether the user called in.

**From the workflows to the process.** `Enzo` knows of a workflow only the
phase of its thread. That this is enough is what `WorkflowObject` says, seen
from either side. The workflow modules map their two threads to it
(`ThreadPhase`, `AlivesPhase`, `lm_request`): nothing is done before the
arrival at the barrier, the alive thread is created once and is over when the
thread leaves, and no request is made outside. `Enzo` maps `thread[w]` and
`deleted` to it: an object is deleted once, and only after its thread has left.
Together: between the deletion of a workflow and the end of the process none of
its threads exists and nothing is requested in its name, although `main()`
joins one thread of each only. As TLC does not take a quantified specification
as a property, `Enzo` states it of the steps, each of which is a step or a
stutter for every workflow; that each single workflow then implements the whole
specification is the corollary `EachObjectLife`.

**TraceDump.** `shutdown` is how far `main()` is. Each of the two dumpers has its place in `do_stuff()`, its list
of indices (`todo`), the trace copied last (`item`), the query under
construction (`rows`, `blanks`) and what it has inserted (`table`). `TraceDelivery` has none of these but the
last: traces are emitted, delivered or refused, and at the close all emitted
ones are accounted for.

## What the runs check

| Run | Specification, bounds | Shows |
|---|---|---|
| `agent` | 2 sessions, fair | alives name an open session (`AliveOnOpenSession`), LM sees one well-behaved agent (`ImplementsAgentSession`), `main()` an object whose threads arrive first, leave together and request nothing outside (`ImplementsWorkflowObject`), the workflow ends after a signal |
| `inbound` | 2 sessions, 2 leads | alives name an open session and an open lead (`AliveOnOpenLead`) with Gari and the Twilio handler around; a user id stays in its room (`GariUserOfRoom`); LM sees one well-behaved agent |
| `cmn` | 2 sessions, 1 lead, fair | the same for a lead that is alive before its call; the workflow ends after a signal whatever Twilio does; the sequence goes on with both channels bridged only (`WaitsForBridge`) |
| `iv` | 1 session, 1 lead, 1 PIN, fair | PINs are flagged in their round only (`FlagsPinOfRound`), the customer calls with the PIN of the round (`CallsWithOwnPin`), LM sees one well-behaved agent, the mutex is free once the alive thread is over (`MutexReleased`) and the workflow ends after a signal, although that thread may return in the middle of its critical section |
| `scheduled` | 2 sessions, 2 leads | room, lead and user id belong together whenever Gari is read (`ReadsRoomOfOpenLead`); LM sees one well-behaved agent |
| `many` | 2 sessions, 2 rooms, 2 updates, fair | a room is read as a user it issued (`ReadsAsUserOfRoom`); a closed room is read while it is being closed only (`ReadsClosedRoomWhileClosing`); LM sees one well-behaved agent; the workflow ends after a signal |
| `enzo` | 3 workflows, 2 retries, fair | barrier, join, bucket and shutdown, with a failure possible at every step of `main()`; every workflow object is deleted once and after its thread has left (`ImplementsWorkflowObject`) |
| `trace_dump` | 3 traces, at most 2 in a query, fair | no trace vanishes but in a refused query, no dumper inserts one twice, nothing is left when the traces are deleted, the two dumpers and the shutdown implement the delivery without a store (`ImplementsTraceDelivery`), the shutdown ends |
| `client` | 5 events, 2 threads, 2 ids of each kind (1 team, 1 seed) | what the forms show and keep agrees with their servers, but for the interruptions and lost replies that each property names: PBX's calls (`ShownAsConnected`), LM's session and timer (`TimerOnOpenSession`, `OpenSessionKeptAlive`), the check of a team, which a check slot that goes through repairs after any disagreement (`CheckSettlesFlag`), lead and PIN (`HoldsLatest`), Gari's room and user id (`RoomAndUserKept`), the number of the ACM's alphas (`NoAlphaTooMany`) |

The remaining runs are counterexamples to what a comment says; see *Findings*.
What is proved for every value of the constants need not be repeated by a run:
the runs leave out the type invariants, all of which are proved, and of
`ImplementsWorkflowObject` and `MutexReleased` each is checked in the run where
most can go wrong with it and proved for all the workflows.

**Bounds.** LM hands out a session only if it is not open, and opens a lead
only if it is not open yet, so that ids are used again after a logout or a
result: behaviours go on for ever, round after round, and there is no counter
to bound. With two ids a stale one can be told from a current one, and a second
login from none, which is what `ImplementsAgentSession` needs. One suffices
where the properties ask whether an id is still open, as those of `iv` do: a PIN
or a lead of an earlier round is not open when it is used, whether or not
another one is (and what two sessions could add to its refinement is proved).
In `many` two rooms tell stale user ids from those of the round, and
two updates take the loop through its body, its end and back (`UpdateRoom` is
5 in the code). In `enzo` three workflows give a first, a middle and a last one
to every loop. In `trace_dump` a query of two among three traces makes the
amount an upper limit that is reached, missed and exceeded. In `client` an
event is a click, a timer or an event of PBX; five are a set-up (a login, a
room, a call), an outer slot, two inner ones and one more. The user stays on one
tab, chosen at the beginning: the forms share the GUI thread and nothing else,
so that a slot of another form changes nothing a form looks at (this is a lemma
of the proofs, where neither events nor threads are bounded). The events run
out, which is why this run alone does not check deadlock.

**Fairness.** The HTTP clients are not part of the repository; every request is
assumed to return, with success or failure, and both threads of a workflow are scheduled: weak fairness for the
alive thread. The sequence also waits for a mutex the alive thread takes again
and again; the alive thread sleeps outside the mutex between two of its critical
sections (`_polling_check_period` without a session, `_periodic_delta_const`
with one), so the sequence is not overtaken for ever: strong fairness for the
sequence. Nothing is assumed of Twilio or PBX, and no signal is ever
owed: `EndsAfterSignal` is conditional on it. It is checked for `agent`, `cmn`,
`iv` and `many`; `inbound` and `scheduled` wait in the places where `iv` waits,
and their runs are spent on more sessions and leads instead. In `enzo` the threads are weakly
fair, and that a workflow ends after a signal is what the workflow modules
show. Deadlock is checked in every run of the load tester; a finished system
stutters by an explicit action. Nothing is assumed of the client's user or of
its servers: its properties are safety properties.

## What is proved

Eight modules hold proofs, for every value of the constants. Their assumptions
are the named `ASSUME`s of the models (the empty id is no id, `N`, `Retries` and
`MaxEvents` are natural numbers and so are the alphas, the set of traces is
finite and the maximum positive).

- **`AgentWorkflow_proof`**: `TypeCorrect`, `NoAliveAfterLogout`,
  `WorkerJoined`, `Refinement`, `ObjectLife` and `MutexIsReleased`. The
  invariant `IInv` has these parts. The mutex is held exactly while the worker is between its lock
  and its unlock; the place of the sequence determines what LM has open and
  what is published; what the worker copied *is* what is published as long as
  it holds the mutex; the worker exists between its creation and its join only.
  The third part is the heart: the sequence cannot publish or clear meanwhile,
  since both need the mutex free. With it every request of either thread is a
  step of `AgentSession`, which is the refinement.
- **`ManyWorkflow_proof`**: `TypeCorrect`, `ReadsAsOwnUser`,
  `ReadsOpenRoom`, `Refinement`, `ObjectLife`, `WorkerJoined` and `MutexIsReleased`, for any sets of sessions and rooms and any number of
  updates. Two parts are new. `RoomInv`: outside the round there is neither
  room nor user id, within it a room is open at LM up to its close, and a user
  id is that of the room; user ids and room may differ for no step, although
  the room is assigned without the mutex, because no user id exists then.
  `ReadInv`: what the worker is about to read is what it has found under the
  mutex, so that a closed room is only read between the close and the clear.
  Everything about the mutex excludes the place where the explicit throw has
  ended the process.
- **`InboundWorkflow_proof`**: `TypeCorrect`, `AliveOnlyWhileAttending`,
  `UserIdStaysInRoom`, `WorkerJoined`, `Refinement`, `ObjectLife` and
  `MutexIsReleased`. The same parts, and one
  for the lead: it is published only where the sequence attends it or has given
  up, it is open at LM as long as it is published, and Gari's user id is 0 or
  belongs to it.
- **`CMNWorkflow_proof`**: `TypeCorrect`, `AliveOnlyWhileAttending`,
  `PassesOnlyBridged`, `Refinement`, `ObjectLife`, `WorkerJoined` and
  `MutexIsReleased`. The invariant has the parts of Inbound's and one for the
  call: until the call is over, the flag and a handler about to raise it both
  imply that the channels are bridged. That part is what fails in
  `InboundWorkflow`, where a handler may carry its result into the next round;
  CMN has one round only.
- **`IVWorkflow_proof`**: `TypeCorrect`, `AliveOnlyWhileAttending`,
  `FlagsOwnPin`, `CallsWithPinOfRound`, `Refinement`, `ObjectLife`,
  `WorkerJoined` and `MutexIsReleased`. One more part: the PIN
  the worker copied is the member's, and where the sequence is in its round the
  member is the PIN LM has handed out in it.
- **`ScheduledWorkflow_proof`**: `TypeCorrect`, `ReadsOpenRoom`,
  `Refinement`, `ObjectLife`, `WorkerJoined` and `MutexIsReleased`. The lead's session is set after the lead and cleared with it, in
  places of their own; the invariant says at which places of the sequence each
  of the two is published.
- **`Process_proof`**, `Enzo`: `TypeCorrect`, `BarrierWaitsForAll`, `DeletesOnlyJoined`,
  `ShutdownIsOrderly`, `BucketIsReleased`, `ObjectLife` and `EachObjectLife`, for any number of workflows. Once
  armed, the count of the barrier is `N` minus the number of those that have
  arrived, which is a lemma about cardinalities for each arrival; a count of 0
  means all; workflows at or past the loop index are untouched and those before
  it joined. The life of the objects needs one more fact, `DeleteInv`: in the
  loop of deletions only workflows before the loop index are deleted, so that
  none is deleted twice.
- **`Process_proof`**, `TraceDump`: `DumpTypeCorrect`, `NothingVanishes`, `DumpsOnce`,
  `LastDumpIsLast` and `Refinement`, for any set of traces and any maximum. A trace that was
  copied and not yet deleted is the one overlap between a query and the store;
  the last dump starts when nobody emits any more and returns with the store
  empty unless it was refused. For the refinement a dumper with a query to
  perform has not been waited for, what is in the query was emitted
  (`QueryOpen`), and when `main()` deletes the traces the store and both queries
  are empty, so that what did not vanish was delivered or refused
  (`DeleteCloses`).
- In all six workflow modules **`ObjectLife`** follows the same way:
  `SequenceStays` says that between the creation of the alive thread and its
  join no step of the sequence arrives, leaves or touches that thread;
  `SequenceOfObject` and `WorkerOfObject` map the other steps; the invariant
  gives that no worker runs where the thread throws or ends.
- **`MainWindow_proof`**: every property of the run `client`, for any number of
  events and threads: `TypeCorrect`, `ShownIsConnected`,
  `TimerStopsWithSession`, `KeptAlive`, `CheckSettled`, `HoldsNewest`,
  `RoomKept` and `AlphasCounted`. The invariant has a part for each form that says
  what the suspended slot copied, and that the copy is still what the form holds
  as long as no slot that changes it is in `frame.inner`. A step of one form is
  foreign to the others (`LMForeign`, `GariForeign`, `ACMForeign`,
  `PbxForeign`). For the check this is not agreement
  between form and LM, which a lost reply or a login without teams ends, but
  that LM has the opposite of the form's check once a check slot got its answer
  (`CheckInv`). ACM's part is about cardinalities: a free takes at most one
  alpha from the ACM and, when it ends, one from the form if there is one, and
  what the form has in excess `excess` counts (`AlphaCount`). PBX's part says that as long
  as nothing overlaps, threads run beside each other only if all are calls; that
  a channel is `calling` or `bridging` only because of a thread that will
  resolve it; and that all this is suspended while a hangup of PBX is due.

Every safety property of every passing run is proved. Model-checked only:
liveness (`EndsAfterSignal`, `ShutdownEnds`), which needs fairness and ENABLED.
The three properties that fail have no theorem, of course; what is proved next
to them is the part that holds (`PassesOnlyBridged` in the workflow of one
round, `DeletesOnlyJoined` in `Enzo`).

## Findings

Each is a run that ends in a counterexample; the details are in `PROJECT.json`.

- `inbound_bridge`: the handler tests and sets in two steps. Between them the
  sequence may start the next round and reset the flag; the handler then sets
  it for a call that is not bridged (`InboundWorkflow.cpp:408`).
- `scheduled_launch`: the flag is reset after LM was told that the agent is
  available; a call that is bridged by then is never seen and the round ends in
  a timeout (`ScheduledWorkflow.cpp:215`).
- `enzo_twilio`: the Twilio handler may enter a deleted workflow
  (`main.cpp:67`).

Further places where a comment or a name says more than the code does, which
no run repeats. In the load tester:

- `increment()` makes nobody wait but `main()` (`Barrier.h:40`), although its
  callers comment it "Wait for all sequence to be started"
  (`InboundWorkflow.cpp:60`).
- A sequence that throws leaves the running flag set (`AgentWorkflow.cpp:194`),
  although `get_workflow_running()` "Returns whether workflow is running"
  (`Workflow.h:51`).
- A query may exceed the "Maximum amount of request trace to be dumped"
  (`Delfos.conf:47`) by the traces that arrive between the size and the list
  of the store (`RequestTraceThreadController.cpp:102`).
- An exception of `ManyWorkflow.cpp:199` leaves the block of a joinable
  `std::thread` and ends the process; the catch block that is to log it
  (`ManyWorkflow.cpp:325`) is not reached. `ManyWorkflow` has the step
  (`"terminated"`).

In the client, all of them steps of the modules:

- "Update call object with received parameters" (`pbxform.cpp:515`): the session
  that is set there belongs to the object that line 518 replaces. A user who
  called in is therefore shown as called under a session PBX does not know
  (`inbound` in `ShownAsConnected`).
- `bridge()` resolves all three channels (`pbxform.cpp:388`), one whose call is
  still under way included. Likewise a click on the call button, an inbound
  call or a hangup beside other threads changes the call under them. These
  overlaps are steps of `PbxForm`; `ShownAsConnected` is about the calls that
  run at once and excludes them (`overlapped`).
- The destructor of the PBX form deletes the widgets (`pbxform.cpp:89`) and does
  not wait for its detached threads. (The end of the client is not modelled.)
- `clear()` stands inside the loop over the teams of a login
  (`lmform.cpp:137`): of several teams the last one stays.
- A login without teams keeps the map of the one before, check included, under
  the new session (`lmform.cpp:128`); LM has no check of that session.
- The timer goes on while the logout writes its answer (`lmform.cpp:163`), so
  that an alive for the session just closed may be sent from within that line.
  A logout whose reply got lost (`lmform.cpp:159`) leaves the timer running.
- A login inside the line of a logout (`lmform.cpp:163`) starts the timer that
  the logout then stops: the new session is not kept alive.
- The iterator of `lmform.cpp:189` is used at line 210, after lines in which
  another slot may have cleared the map: the write is lost, hits another entry
  or crashes. A check inside a check toggles twice what LM was told once.
- A slot interrupted between its response and the assignment overwrites the
  lead, the PIN or the user id an inner one stored (`lmform.cpp:395`,
  `gariform.cpp:239`).
- The alpha erased after a free is whatever is first by then
  (`acmform.cpp:143`), and an answer without an alpha is stored under the empty
  string, which sorts before all alphas (`acmform.cpp:69`).
- Reading a seed clears its id as deleting it does (`gariform.cpp:129`), and a
  new session keeps the user id of the previous one in the line edit
  (`gariform.cpp:154`).
- Three slots use `begin()` of the map of alphas without a test
  (`acmform.cpp:77`).

## Not modelled

- `ExpiredWorkflow` has one thread, which asks for a lead and waits, round after
  round. Nothing is shared and nothing given back; what can go wrong in it, that
  it does not start, does not end or throws, is covered by `Enzo`'s thread
  phases.
- Configuration, command line, spy and preprocessor pool run before the first
  thread; a failure of theirs is a step of `Enzo`.
- The fields and the serialisation of a trace, log texts and phone numbers: no
  property is about them.
- The race on the `std::string` `_lead_customer_phone` between sequence and
  handler: in the model the old phone's events stop at the assignment. Likewise
  the unlocked assignment of `_delfosnar_guid` in `ManyWorkflow.cpp:224`.
- In the client: the RM, KPI and RTV forms, whose slots send one request and
  keep nothing another slot depends on; slots of the modelled forms that only
  pass ids on (`create_delfosnar()` among them); PBX's buttons that ask the Twilio mock for an event (the events
  are modelled, from whoever caused them); the change of tabs, see *Bounds*; the
  end of the process.
- What a server does of its own accord in the client's model: a session of LM
  that runs out, an alpha the ACM takes back. (PBX's hangups are modelled, for
  the form has a handler for them.)
- Data races within one step of a detached thread of the PBX form: a method of a
  channel is one step.

## Plan

1. `ExpiredWorkflow`, whose one thread is the simplest implementation of
   `WorkflowObject`.
2. The end of the client: the window's destruction beside detached threads and
   inside a log line.
