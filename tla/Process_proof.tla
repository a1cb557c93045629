---------------------------- MODULE Process_proof ----------------------------
(***************************************************************************)
(* Proofs about the process around the workflows: module Enzo, for every   *)
(* number of workflows and of retries, and the dumps of module TraceDump,  *)
(* for every set of traces and every maximum.                              *)
(***************************************************************************)
EXTENDS Enzo, TraceDump, FiniteSetTheorems, TLAPS

-----------------------------------------------------------------------------
(* Module Enzo. *)

(***************************************************************************)
(* The barrier counts the workflows that have not arrived, from the moment *)
(* it is set; before that no workflow is started.                          *)
(***************************************************************************)
Before == {"configure", "check_pbx", "create_bucket", "start_controller"}
Launching == {"launch", "push", "barrier"}

Armed == count = N - Cardinality(Arrived)

NoneStarted == \A w \in W : thread[w] = "none"

CountInv ==
  \/ Armed
  \/ NoneStarted /\ main \notin Launching \cup PassedBarrier

(* The workflows before the loop index of main() are launched, no others. *)
Unlaunched(w) == \/ main \in Before
                 \/ main = "launch" /\ w >= next
                 \/ main = "push" /\ w > next

LaunchInv ==
  /\ main \in {"launch", "push"} => next \in 1..N
  /\ \A w \in W : Unlaunched(w) => thread[w] = "none"

(***************************************************************************)
(* The workflows before next are joined, and past the loop all of them.    *)
(***************************************************************************)
Joined(w) == \/ main = "join" /\ w < next
             \/ main \in PassedBarrier \ {"join"}

JoinInv ==
  /\ \A w \in W : Joined(w) => ThreadOver(w)
  /\ DeletedAfterThread

(* What main() has waited for by the time it is at a location. *)
StopInv ==
  /\ main \in PassedBarrier => count = 0
  /\ main \in {"stop_twilio", "destroy", "success"} => controller = -1
  /\ main \in {"destroy", "success"} => twilio = 0

BucketInv ==
  /\ main \in {"configure", "check_pbx", "create_bucket"}
       => bucket = "absent"
  /\ BucketReleased

Inv == TypeOK /\ CountInv /\ LaunchInv /\ JoinInv /\ StopInv /\ BucketInv

-----------------------------------------------------------------------------
(* How many have arrived. *)

LEMMA ArrivedFinite ==
  IsFiniteSet(Arrived) /\ Cardinality(Arrived) \in 0..N
<1>1. IsFiniteSet(W) /\ Cardinality(W) = N
  BY NAssumption, FS_Interval DEF W
<1>2. Arrived \in SUBSET W
  BY DEF Arrived
<1>3. IsFiniteSet(Arrived) /\ Cardinality(Arrived) <= Cardinality(W)
  BY <1>1, <1>2, FS_Subset
<1>4. Cardinality(Arrived) \in Nat
  BY <1>3, FS_CardinalityType
<1> QED
  BY <1>1, <1>3, <1>4, NAssumption

(* A count of 0 says that all have arrived. *)
LEMMA AllArrived ==
  ASSUME Armed, count = 0
  PROVE  Arrived = W
<1>1. IsFiniteSet(W) /\ Cardinality(W) = N
  BY NAssumption, FS_Interval DEF W
<1>2. Arrived \in SUBSET W
  BY DEF Arrived
<1>3. Cardinality(Arrived) = Cardinality(W)
  BY <1>1, ArrivedFinite, NAssumption DEF Armed
<1> QED
  BY <1>1, <1>2, <1>3, FS_Subset

(* One arrival counts one. *)
LEMMA OneMore ==
  ASSUME NEW w \in W, w \notin Arrived, Arrived' = Arrived \cup {w}
  PROVE  Cardinality(Arrived') = Cardinality(Arrived) + 1
BY ArrivedFinite, FS_AddElement

(* Nobody arrives before being started. *)
LEMMA NoneArrived ==
  ASSUME NoneStarted
  PROVE  Arrived = {} /\ Cardinality(Arrived) = 0
BY FS_EmptySet DEF NoneStarted, Arrived

(* Whoever is over has arrived. *)
LEMMA OverArrived ==
  ASSUME \A w \in W : ThreadOver(w)
  PROVE  Arrived = W
BY DEF ThreadOver, Arrived

-----------------------------------------------------------------------------
LEMMA InitInv == Init => Inv
<1> SUFFICES ASSUME Init PROVE Inv
  OBVIOUS
<1> USE NAssumption DEF Init
<1>1. TypeOK
  BY DEF TypeOK, MainLocation, Phase
<1>2. CountInv
  BY DEF CountInv, NoneStarted, Launching, PassedBarrier
<1>3. LaunchInv /\ JoinInv
  BY DEF LaunchInv, JoinInv, Joined, DeletedAfterThread, PassedBarrier
<1>4. StopInv /\ BucketInv
  BY DEF StopInv, PassedBarrier, BucketInv, BucketReleased
<1> QED
  BY <1>1, <1>2, <1>3, <1>4 DEF Inv

(***************************************************************************)
(* A step that leaves the threads alone keeps the count, unless main()     *)
(* enters the launches.                                                    *)
(***************************************************************************)
LEMMA CountKept ==
  ASSUME CountInv, UNCHANGED <<count, thread>>,
         main' \in Launching \cup PassedBarrier
           => main \in Launching \cup PassedBarrier
  PROVE  CountInv'
<1>1. Arrived' = Arrived
  BY DEF Arrived
<1> QED
  BY <1>1 DEF CountInv, Armed, NoneStarted

(***************************************************************************)
(* A step that deletes nothing and ends no thread keeps what is joined, if *)
(* main() does not take a workflow for joined that was not.                *)
(***************************************************************************)
LEMMA JoinKept ==
  ASSUME JoinInv, UNCHANGED <<deleted, thread>>,
         \A w \in W : Joined(w)' => Joined(w)
  PROVE  JoinInv'
BY DEF JoinInv, DeletedAfterThread, ThreadOver

LEMMA MainInv ==
  ASSUME Inv, Main
  PROVE  Inv'
<1> USE NAssumption, RetriesAssumption DEF Inv, Goto
<1>1. CASE Configure
  <2>1. TypeOK'
    BY <1>1 DEF Configure, Fail, TypeOK, MainLocation, Phase
  <2>2. CountInv'
    BY <1>1, CountKept DEF Configure, Fail, Launching, PassedBarrier
  <2>3. LaunchInv'
    BY <1>1 DEF Configure, Fail, LaunchInv, Unlaunched, Before, TypeOK, W
  <2>4. JoinInv'
    BY <1>1, JoinKept DEF Configure, Fail, Joined, PassedBarrier
  <2>5. StopInv'
    BY <1>1 DEF Configure, Fail, StopInv, PassedBarrier
  <2>6. BucketInv'
    BY <1>1 DEF Configure, Fail, BucketInv, BucketReleased
  <2> QED
    BY <2>1, <2>2, <2>3, <2>4, <2>5, <2>6
<1>2. CASE CheckPbx
  <2>1. TypeOK'
    BY <1>2 DEF CheckPbx, Fail, TypeOK, MainLocation, Phase
  <2>2. CountInv'
    BY <1>2, CountKept DEF CheckPbx, Fail, Launching, PassedBarrier
  <2>3. LaunchInv'
    BY <1>2 DEF CheckPbx, Fail, LaunchInv, Unlaunched, Before, TypeOK, W
  <2>4. JoinInv'
    BY <1>2, JoinKept DEF CheckPbx, Fail, Joined, PassedBarrier
  <2>5. StopInv'
    BY <1>2 DEF CheckPbx, Fail, StopInv, PassedBarrier
  <2>6. BucketInv'
    BY <1>2 DEF CheckPbx, Fail, BucketInv, BucketReleased
  <2> QED
    BY <2>1, <2>2, <2>3, <2>4, <2>5, <2>6
<1>3. CASE CreateBucket
  <2>1. TypeOK'
    BY <1>3 DEF CreateBucket, TypeOK, MainLocation, Phase
  <2>2. CountInv'
    BY <1>3, CountKept DEF CreateBucket, Launching, PassedBarrier
  <2>3. LaunchInv'
    BY <1>3 DEF CreateBucket, LaunchInv, Unlaunched, Before, TypeOK, W
  <2>4. JoinInv'
    BY <1>3, JoinKept DEF CreateBucket, Joined, PassedBarrier
  <2>5. StopInv'
    BY <1>3 DEF CreateBucket, StopInv, PassedBarrier
  <2>6. BucketInv'
    BY <1>3 DEF CreateBucket, BucketInv, BucketReleased
  <2> QED
    BY <2>1, <2>2, <2>3, <2>4, <2>5, <2>6
<1>4. CASE StartController
  <2>1. TypeOK'
    BY <1>4 DEF StartController, Fail, TypeOK, MainLocation, Phase
  <2>2. CountInv'
    <3>1. CASE Fail("start_controller")
      BY <3>1, CountKept DEF Fail, Launching, PassedBarrier
    <3>2. CASE /\ main = "start_controller" /\ UNCHANGED thread
               /\ count' = N
      <4>1. Arrived = {} /\ Cardinality(Arrived) = 0
        BY <3>2, NoneArrived DEF LaunchInv, Unlaunched, NoneStarted, Before
      <4>2. Arrived' = Arrived
        BY <3>2 DEF Arrived
      <4>3. Armed'
        BY <3>2, <4>1, <4>2 DEF Armed
      <4> QED
        BY <4>3 DEF CountInv
    <3> QED
      BY <1>4, <3>1, <3>2 DEF StartController
  <2>3. LaunchInv'
    BY <1>4 DEF StartController, Fail, LaunchInv, Unlaunched, Before, TypeOK, W
  <2>4. JoinInv'
    BY <1>4, JoinKept DEF StartController, Fail, Joined, PassedBarrier
  <2>5. StopInv'
    BY <1>4 DEF StartController, Fail, StopInv, PassedBarrier
  <2>6. BucketInv'
    BY <1>4 DEF StartController, Fail, BucketInv, BucketReleased
  <2> QED
    BY <2>1, <2>2, <2>3, <2>4, <2>5, <2>6
<1>5. CASE Launch
  <2>1. TypeOK'
    BY <1>5 DEF Launch, Fail, TypeOK, MainLocation, Phase
  <2>2. CountInv'
    <3>1. CASE Fail("launch")
      BY <3>1, CountKept DEF Fail, Launching, PassedBarrier
    <3>2. CASE main = "launch" /\ main' = "push" /\ UNCHANGED count
               /\ thread' = [thread EXCEPT ![next] = "spawned"]
      <4>1. Arrived' = Arrived
        BY <3>2 DEF Arrived, TypeOK, LaunchInv, Unlaunched, W
      <4> QED
        BY <3>2, <4>1 DEF CountInv, Armed, Launching
    <3> QED
      BY <1>5, <3>1, <3>2 DEF Launch
  <2>3. LaunchInv'
    BY <1>5 DEF Launch, Fail, LaunchInv, Unlaunched, Before, TypeOK, W
  <2>4. JoinInv'
    <3>1. CASE Fail("launch")
      BY <3>1, JoinKept DEF Fail, Joined, PassedBarrier
    <3>2. CASE /\ main = "launch" /\ main' = "push" /\ UNCHANGED deleted
               /\ thread' = [thread EXCEPT ![next] = "spawned"]
      <4>1. ~ThreadOver(next) /\ next \in W
        BY <3>2 DEF ThreadOver, LaunchInv, Unlaunched, W
      <4>2. \A w \in W : ThreadOver(w) => ThreadOver(w)'
        BY <3>2, <4>1 DEF ThreadOver, TypeOK
      <4> QED
        BY <3>2, <4>2 DEF JoinInv, Joined, DeletedAfterThread, TypeOK,
                          PassedBarrier
    <3> QED
      BY <1>5, <3>1, <3>2 DEF Launch
  <2>5. StopInv'
    BY <1>5 DEF Launch, Fail, StopInv, PassedBarrier
  <2>6. BucketInv'
    BY <1>5 DEF Launch, Fail, BucketInv, BucketReleased
  <2> QED
    BY <2>1, <2>2, <2>3, <2>4, <2>5, <2>6
<1>6. CASE Push
  <2>1. TypeOK'
    BY <1>6 DEF Push, LaunchInv, TypeOK, MainLocation, Phase
  <2>2. CountInv'
    BY <1>6, CountKept DEF Push, Launching, PassedBarrier
  <2>3. LaunchInv'
    BY <1>6 DEF Push, LaunchInv, Unlaunched, Before, TypeOK, W
  <2>4. JoinInv'
    BY <1>6, JoinKept DEF Push, Joined, PassedBarrier
  <2>5. StopInv'
    BY <1>6 DEF Push, StopInv, PassedBarrier
  <2>6. BucketInv'
    BY <1>6 DEF Push, BucketInv, BucketReleased
  <2> QED
    BY <2>1, <2>2, <2>3, <2>4, <2>5, <2>6
<1>7. CASE BarrierWait
  <2>1. TypeOK'
    BY <1>7 DEF BarrierWait, TypeOK, MainLocation, Phase
  <2>2. CountInv'
    BY <1>7, CountKept DEF BarrierWait, Launching, PassedBarrier
  <2>3. LaunchInv'
    BY <1>7 DEF BarrierWait, LaunchInv, Unlaunched, Before, TypeOK, W
  <2>4. JoinInv'
    BY <1>7, JoinKept DEF BarrierWait, Joined, W, PassedBarrier
  <2>5. StopInv'
    BY <1>7 DEF BarrierWait, StopInv, PassedBarrier
  <2>6. BucketInv'
    BY <1>7 DEF BarrierWait, BucketInv, BucketReleased
  <2> QED
    BY <2>1, <2>2, <2>3, <2>4, <2>5, <2>6
<1>8. CASE Join
  <2>1. TypeOK'
    BY <1>8 DEF Join, TypeOK, MainLocation, Phase
  <2>2. CountInv'
    BY <1>8, CountKept DEF Join, Launching, PassedBarrier
  <2>3. LaunchInv'
    BY <1>8 DEF Join, LaunchInv, Unlaunched, Before, TypeOK, W
  <2>4. JoinInv'
    <3>1. \A w \in W : Joined(w)' => ThreadOver(w)
      BY <1>8 DEF Join, JoinInv, Joined, PassedBarrier, TypeOK, W
    <3>2. UNCHANGED <<thread, deleted>>
      BY <1>8 DEF Join
    <3> QED
      BY <3>1, <3>2 DEF JoinInv, DeletedAfterThread, ThreadOver
  <2>5. StopInv'
    BY <1>8 DEF Join, StopInv, PassedBarrier
  <2>6. BucketInv'
    BY <1>8 DEF Join, BucketInv, BucketReleased
  <2> QED
    BY <2>1, <2>2, <2>3, <2>4, <2>5, <2>6
<1>9. CASE Delete
  <2>1. TypeOK'
    <3>1. CASE main = "delete" /\ next <= N
               /\ deleted' = deleted \cup {next} /\ next' = next + 1
      <4>1. next \in W
        BY <3>1, 1 <= next DEF W, TypeOK
      <4> QED
        BY <1>9, <3>1, <4>1 DEF Delete, TypeOK
    <3>2. CASE UNCHANGED deleted
      BY <1>9, <3>2 DEF Delete, TypeOK, MainLocation
    <3> QED
      BY <1>9, <3>1, <3>2 DEF Delete
  <2>2. CountInv'
    BY <1>9, CountKept DEF Delete, Launching, PassedBarrier
  <2>3. LaunchInv'
    BY <1>9 DEF Delete, LaunchInv, Unlaunched, Before, TypeOK, W
  <2>4. JoinInv'
    <3>1. \A w \in W : ThreadOver(w)
      BY <1>9 DEF Delete, JoinInv, Joined, PassedBarrier
    <3>2. UNCHANGED thread /\ deleted' \subseteq W
      BY <1>9, <2>1 DEF Delete, TypeOK
    <3> QED
      BY <3>1, <3>2 DEF JoinInv, DeletedAfterThread, ThreadOver
  <2>5. StopInv'
    BY <1>9 DEF Delete, StopInv, PassedBarrier
  <2>6. BucketInv'
    BY <1>9 DEF Delete, BucketInv, BucketReleased
  <2> QED
    BY <2>1, <2>2, <2>3, <2>4, <2>5, <2>6
<1>10. CASE StopController
  <2>1. TypeOK'
    BY <1>10 DEF StopController, TypeOK, MainLocation, Phase
  <2>2. CountInv'
    BY <1>10, CountKept DEF StopController, Launching, PassedBarrier
  <2>3. LaunchInv'
    BY <1>10 DEF StopController, LaunchInv, Unlaunched, Before, TypeOK, W
  <2>4. JoinInv'
    BY <1>10, JoinKept DEF StopController, Joined, PassedBarrier
  <2>5. StopInv'
    BY <1>10 DEF StopController, StopInv, PassedBarrier
  <2>6. BucketInv'
    BY <1>10 DEF StopController, BucketInv, BucketReleased
  <2> QED
    BY <2>1, <2>2, <2>3, <2>4, <2>5, <2>6
<1>11. CASE StopTwilio
  <2>1. TypeOK'
    BY <1>11 DEF StopTwilio, TypeOK, MainLocation, Phase
  <2>2. CountInv'
    BY <1>11, CountKept DEF StopTwilio, Launching, PassedBarrier
  <2>3. LaunchInv'
    BY <1>11 DEF StopTwilio, LaunchInv, Unlaunched, Before, TypeOK, W
  <2>4. JoinInv'
    BY <1>11, JoinKept DEF StopTwilio, Joined, PassedBarrier
  <2>5. StopInv'
    BY <1>11 DEF StopTwilio, StopInv, PassedBarrier
  <2>6. BucketInv'
    BY <1>11 DEF StopTwilio, BucketInv, BucketReleased
  <2> QED
    BY <2>1, <2>2, <2>3, <2>4, <2>5, <2>6
<1>12. CASE DestroyBucket
  <2>1. TypeOK'
    BY <1>12 DEF DestroyBucket, TypeOK, MainLocation, Phase
  <2>2. CountInv'
    BY <1>12, CountKept DEF DestroyBucket, Launching, PassedBarrier
  <2>3. LaunchInv'
    BY <1>12 DEF DestroyBucket, LaunchInv, Unlaunched, Before, TypeOK, W
  <2>4. JoinInv'
    BY <1>12, JoinKept DEF DestroyBucket, Joined, PassedBarrier
  <2>5. StopInv'
    BY <1>12 DEF DestroyBucket, StopInv, PassedBarrier
  <2>6. BucketInv'
    BY <1>12 DEF DestroyBucket, BucketInv, BucketReleased
  <2> QED
    BY <2>1, <2>2, <2>3, <2>4, <2>5, <2>6
<1> QED
  BY <1>1, <1>2, <1>3, <1>4, <1>5, <1>6, <1>7, <1>8, <1>9,
     <1>10, <1>11, <1>12
     DEF Main

(* An arrival is counted, whatever main() does meanwhile. *)
LEMMA ArriveInv ==
  ASSUME Inv, NEW w \in W, Arrive(w)
  PROVE  Inv'
<1> USE NAssumption DEF Inv, Arrive, ProcessOver
<1>1. w \notin Arrived /\ Arrived' = Arrived \cup {w}
  BY DEF Arrived, TypeOK
<1>2. CountInv'
  <2>1. Armed
    BY DEF CountInv, NoneStarted
  <2>2. Cardinality(Arrived') = Cardinality(Arrived) + 1
    BY <1>1, OneMore
  <2>3. Armed'
    BY <2>1, <2>2, ArrivedFinite DEF Armed
  <2> QED
    BY <2>3 DEF CountInv
<1>3. TypeOK'
  <2>1. Armed /\ count # 0
    BY <1>1, AllArrived DEF CountInv, NoneStarted
  <2> QED
    BY <2>1 DEF TypeOK, Phase
<1>4. LaunchInv'
  BY DEF LaunchInv, Unlaunched, TypeOK
<1>5. JoinInv'
  <2>1. \A v \in W : ThreadOver(v) => ThreadOver(v)'
    BY DEF ThreadOver, TypeOK
  <2> QED
    BY <2>1 DEF JoinInv, Joined, DeletedAfterThread, TypeOK
<1>6. StopInv' /\ BucketInv'
  <2>1. Armed /\ count # 0
    BY <1>1, AllArrived DEF CountInv, NoneStarted
  <2> QED
    BY <2>1 DEF StopInv, BucketInv, BucketReleased
<1> QED
  BY <1>2, <1>3, <1>4, <1>5, <1>6

(* A thread that ends has arrived and stays so. *)
LEMMA EndThreadInv ==
  ASSUME Inv, NEW w \in W, EndThread(w)
  PROVE  Inv'
<1> USE DEF Inv, EndThread, ProcessOver
<1>1. TypeOK'
  BY DEF TypeOK, Phase
<1>2. CountInv'
  <2>1. Arrived' = Arrived
    BY DEF Arrived, TypeOK
  <2> QED
    BY <2>1 DEF CountInv, Armed, NoneStarted
<1>3. LaunchInv'
  BY DEF LaunchInv, Unlaunched, TypeOK
<1>4. JoinInv'
  <2>1. \A v \in W : ThreadOver(v) => ThreadOver(v)'
    BY DEF ThreadOver, TypeOK
  <2> QED
    BY <2>1 DEF JoinInv, Joined, DeletedAfterThread, TypeOK
<1>5. StopInv' /\ BucketInv'
  BY DEF StopInv, PassedBarrier, BucketInv, BucketReleased
<1> QED
  BY <1>1, <1>2, <1>3, <1>4, <1>5

(***************************************************************************)
(* The signal handler, the Twilio handler and the controller touch neither *)
(* the threads nor what main() has done.                                   *)
(***************************************************************************)
WalkList == \/ TwilioBegins \/ TwilioAdvances
            \/ ControllerBegins \/ ControllerAdvances

LEMMA WalkInv ==
  ASSUME Inv, WalkList
  PROVE  Inv'
<1> USE NAssumption DEF Inv, WalkList, TwilioBegins, TwilioAdvances,
                        ControllerBegins, ControllerAdvances, ProcessOver
<1>1. TypeOK'
  BY DEF TypeOK
<1>2. CountInv'
  BY CountKept
<1>3. LaunchInv'
  BY DEF LaunchInv, Unlaunched
<1>4. JoinInv'
  BY JoinKept DEF Joined
<1>5. StopInv'
  BY DEF StopInv, PassedBarrier
<1>6. BucketInv'
  BY DEF BucketInv, BucketReleased
<1> QED
  BY <1>1, <1>2, <1>3, <1>4, <1>5, <1>6

LEMMA TerminateInv ==
  ASSUME Inv, TerminateProcess
  PROVE  Inv'
<1> USE DEF Inv, TerminateProcess
<1>1. TypeOK' /\ CountInv'
  BY CountKept DEF TypeOK
<1>2. LaunchInv' /\ JoinInv'
  BY JoinKept DEF LaunchInv, Unlaunched, Joined
<1>3. StopInv' /\ BucketInv'
  BY DEF StopInv, PassedBarrier, BucketInv, BucketReleased
<1> QED
  BY <1>1, <1>2, <1>3

(* A crash ends main() wherever it is. *)
LEMMA CrashInv ==
  ASSUME Inv, Crash
  PROVE  Inv'
<1> USE DEF Inv, Crash
<1>1. TypeOK'
  BY DEF TypeOK, MainLocation
<1>2. CountInv' /\ LaunchInv'
  BY CountKept DEF LaunchInv, Unlaunched, Before, Launching, PassedBarrier
<1>3. JoinInv'
  BY JoinKept DEF Joined, PassedBarrier
<1>4. StopInv' /\ BucketInv'
  BY DEF StopInv, PassedBarrier, BucketInv, BucketReleased
<1> QED
  BY <1>1, <1>2, <1>3, <1>4

LEMMA StepInv == Inv /\ [Next]_vars => Inv'
<1> SUFFICES ASSUME Inv, [Next]_vars PROVE Inv'
  OBVIOUS
<1>1. CASE Main
  BY <1>1, MainInv
<1>2. CASE TerminateProcess
  BY <1>2, TerminateInv
<1>3. CASE \E w \in W : Arrive(w) \/ EndThread(w)
  BY <1>3, ArriveInv, EndThreadInv
<1>4. CASE WalkList
  BY <1>4, WalkInv
<1>5. CASE Crash
  BY <1>5, CrashInv
<1>6. CASE UNCHANGED vars
  <2>1. TypeOK' /\ CountInv'
    BY <1>6, CountKept DEF Inv, TypeOK, vars
  <2>2. LaunchInv' /\ JoinInv'
    BY <1>6, JoinKept DEF Inv, LaunchInv, Unlaunched, Joined, vars
  <2>3. StopInv' /\ BucketInv'
    BY <1>6 DEF Inv, StopInv, PassedBarrier, BucketInv, BucketReleased, vars
  <2> QED
    BY <2>1, <2>2, <2>3 DEF Inv
<1> QED
  BY <1>1, <1>2, <1>3, <1>4, <1>5, <1>6 DEF Next, WalkList, Finished

LEMMA Invariance == Spec => []Inv
BY InitInv, StepInv, PTL DEF Spec

-----------------------------------------------------------------------------
(***************************************************************************)
(* Every variable of main.cpp's model has its type; in particular the      *)
(* unsigned counter of the barrier never wraps below 0.                    *)
(***************************************************************************)
THEOREM TypeCorrect == Spec => []TypeOK
<1>1. Inv => TypeOK
  BY DEF Inv
<1> QED
  BY <1>1, Invariance, PTL

(***************************************************************************)
(* main() gets past Barrier::wait() only when every workflow has started.  *)
(***************************************************************************)
THEOREM BarrierWaitsForAll == Spec => []BarrierHolds
<1>1. Inv => BarrierHolds
  BY AllArrived DEF Inv, CountInv, StopInv, PassedBarrier, BarrierHolds
<1> QED
  BY <1>1, Invariance, PTL

(***************************************************************************)
(* main() deletes a workflow only after the thread of the workflow is over *)
(***************************************************************************)
THEOREM DeletesOnlyJoined == Spec => []DeletedAfterThread
<1>1. Inv => DeletedAfterThread
  BY DEF Inv, JoinInv
<1> QED
  BY <1>1, Invariance, PTL

(***************************************************************************)
(* When main() destroys the trace nodes, the Twilio mock and the bucket on *)
(* its way to success, no other thread is left.                            *)
(***************************************************************************)
THEOREM ShutdownIsOrderly == Spec => []NobodyLeftBehind
<1>1. Inv => NobodyLeftBehind
  BY DEF Inv, JoinInv, StopInv, Joined, PassedBarrier, NobodyLeftBehind
<1> QED
  BY <1>1, Invariance, PTL

(***************************************************************************)
(* However main() returns, it has asked for the deletion of the rows the   *)
(* bucket created.                                                         *)
(***************************************************************************)
THEOREM BucketIsReleased == Spec => []BucketReleased
<1>1. Inv => BucketReleased
  BY DEF Inv, BucketInv
<1> QED
  BY <1>1, Invariance, PTL

-----------------------------------------------------------------------------
(* The life of one workflow object, as WorkflowObject has it. *)

(***************************************************************************)
(* Nothing is deleted before the loop of deletions, which has deleted the  *)
(* workflows before next.                                                  *)
(***************************************************************************)
DeleteInv ==
  /\ main \in Before \cup Launching \cup {"join"} => deleted = {}
  /\ main = "delete" => \A w \in deleted : w < next

LEMMA DeleteStep ==
  ASSUME Inv, DeleteInv, [Next]_vars
  PROVE  DeleteInv'
<1> USE DEF DeleteInv, Before, Launching, Goto
<1>1. CASE Configure \/ CheckPbx \/ CreateBucket \/ StartController
  BY <1>1 DEF Configure, CheckPbx, CreateBucket, StartController, Fail
<1>2. CASE Launch \/ Push \/ BarrierWait
  BY <1>2 DEF Launch, Push, BarrierWait, Fail
<1>3. CASE Join
  BY <1>3 DEF Join
<1>4. CASE Delete
  <2>1. CASE main' # "delete"
    BY <1>4, <2>1 DEF Delete
  <2>2. CASE /\ main = "delete"
             /\ deleted' = deleted \cup {next} /\ next' = next + 1
    <3>1. \A w \in deleted : w < next /\ w \in Int
      BY <2>2 DEF Inv, TypeOK, W
    <3>2. \A w \in deleted' : w < next'
      BY <2>2, <3>1 DEF Inv, TypeOK
    <3> QED
      BY <1>4, <2>2, <3>2 DEF Delete
  <2> QED
    BY <1>4, <2>1, <2>2 DEF Delete
<1>5. CASE StopController \/ StopTwilio \/ DestroyBucket \/ Crash
  BY <1>5 DEF StopController, StopTwilio, DestroyBucket, Crash
<1>6. CASE TerminateProcess \/ WalkList \/ UNCHANGED vars
  BY <1>6
     DEF TerminateProcess, WalkList, TwilioBegins, TwilioAdvances,
         ControllerBegins, ControllerAdvances, vars
<1>7. CASE \E w \in W : Arrive(w) \/ EndThread(w)
  BY <1>7 DEF Arrive, EndThread
<1> QED
  BY <1>1, <1>2, <1>3, <1>4, <1>5, <1>6, <1>7
     DEF Next, Main, WalkList, Finished

(***************************************************************************)
(* An arrival and an end are those of the workflow whose thread it is.     *)
(***************************************************************************)
LEMMA ThreadOfObject ==
  ASSUME Inv, NEW v \in W, Arrive(v) \/ EndThread(v), NEW w \in W
  PROVE  Object(w)!Next \/ UNCHANGED Object(w)!vars
<1>1. CASE v = w /\ Arrive(w)
  <2>1. Object(w)!Arrive
    BY <1>1 DEF Arrive, Object!Arrive, ThreadPhase, Inv, TypeOK
  <2> QED
    BY <2>1 DEF Object!Next
<1>2. CASE v = w /\ EndThread(w)
  <2>1. Object(w)!Leave
    BY <1>2 DEF EndThread, Object!Leave, ThreadPhase, Inv, TypeOK
  <2> QED
    BY <2>1 DEF Object!Next
<1>3. CASE v # w
  BY <1>3 DEF Arrive, EndThread, Object!vars, ThreadPhase, Inv, TypeOK
<1> QED
  BY <1>1, <1>2, <1>3

(***************************************************************************)
(* The loop of deletions comes to a workflow once, when its thread is over *)
(***************************************************************************)
LEMMA DeleteOfObject ==
  ASSUME Inv, DeleteInv, Delete, NEW w \in W
  PROVE  Object(w)!Next \/ UNCHANGED Object(w)!vars
<1>1. CASE main = "delete" /\ next = w /\ deleted' = deleted \cup {w}
  <2>1. ThreadOver(w)
    BY <1>1 DEF Inv, JoinInv, Joined, PassedBarrier
  <2>2. w \notin deleted
    BY <1>1 DEF DeleteInv, W
  <2>3. Object(w)!Delete
    BY <1>1, <2>1, <2>2
       DEF Delete, Object!Delete, ThreadPhase, ThreadOver
  <2> QED
    BY <2>3 DEF Object!Next
<1>2. CASE w \in deleted' <=> w \in deleted
  BY <1>2 DEF Delete, Object!vars, ThreadPhase
<1> QED
  BY <1>1, <1>2 DEF Delete

LEMMA StepOfObject ==
  ASSUME Inv, DeleteInv, [Next]_vars, NEW w \in W
  PROVE  Object(w)!Next \/ UNCHANGED Object(w)!vars
<1>1. CASE \E v \in W : Arrive(v) \/ EndThread(v)
  BY <1>1, ThreadOfObject
<1>2. CASE Delete
  BY <1>2, DeleteOfObject
<1>3. CASE Launch /\ thread' # thread
  <2>1. /\ thread' = [thread EXCEPT ![next] = "spawned"]
        /\ thread[next] = "none" /\ next \in W
        /\ UNCHANGED deleted
    BY <1>3 DEF Launch, Fail, Goto, Inv, LaunchInv, Unlaunched, W
  <2> QED
    BY <2>1 DEF Object!vars, ThreadPhase, Inv, TypeOK
<1>4. CASE UNCHANGED <<thread, deleted>>
  BY <1>4 DEF Object!vars, ThreadPhase
<1>5. CASE Main /\ ~Delete /\ ~(Launch /\ thread' # thread)
  <2>1. CASE Launch
    <3>1. UNCHANGED thread
      BY <1>5, <2>1
    <3>2. UNCHANGED deleted
      BY <2>1 DEF Launch, Fail
    <3> QED
      BY <1>4, <3>1, <3>2
  <2>2. CASE \/ Configure \/ CheckPbx \/ CreateBucket \/ StartController
             \/ Push \/ BarrierWait \/ Join
    BY <1>4, <2>2
       DEF Configure, CheckPbx, CreateBucket, StartController, Push,
           BarrierWait, Join, Fail
  <2>3. CASE StopController \/ StopTwilio \/ DestroyBucket
    BY <1>4, <2>3 DEF StopController, StopTwilio, DestroyBucket
  <2> QED
    BY <1>5, <2>1, <2>2, <2>3 DEF Main
<1>6. CASE TerminateProcess \/ WalkList \/ Crash \/ UNCHANGED vars
  BY <1>4, <1>6
     DEF TerminateProcess, WalkList, TwilioBegins, TwilioAdvances,
         ControllerBegins, ControllerAdvances, Crash, vars
<1> QED
  BY <1>1, <1>2, <1>3, <1>5, <1>6 DEF Next, WalkList, Finished

LEMMA Deletions == Spec => []DeleteInv
<1>1. Init => DeleteInv
  BY DEF Init, DeleteInv
<1>2. Inv /\ DeleteInv /\ [Next]_vars => DeleteInv'
  BY DeleteStep
<1> QED
  BY <1>1, <1>2, Invariance, PTL DEF Spec

(***************************************************************************)
(* Every workflow object has the life of WorkflowObject: its thread        *)
(* arrives, leaves once, and only then main() deletes it, once.            *)
(***************************************************************************)
THEOREM ObjectLife == Spec => ImplementsWorkflowObject
<1>1. Init => \A w \in W : Object(w)!Init
  BY DEF Init, Object!Init, ThreadPhase
<1>2. Inv /\ DeleteInv /\ [Next]_vars
        => [\A w \in W : [Object(w)!Next]_(Object(w)!vars)]_vars
  BY StepOfObject
<1> QED
  BY <1>1, <1>2, Invariance, Deletions, PTL DEF Spec, ImplementsWorkflowObject

(***************************************************************************)
(* The same, said of one workflow: whatever the other workflows do, it     *)
(* behaves as WorkflowObject allows.                                       *)
(***************************************************************************)
COROLLARY EachObjectLife ==
  ASSUME NEW w \in W
  PROVE  Spec => Object(w)!Spec
<1>1. Init => Object(w)!Init
  BY DEF Init, Object!Init, ThreadPhase
<1>2. Inv /\ DeleteInv /\ [Next]_vars => [Object(w)!Next]_(Object(w)!vars)
  BY StepOfObject
<1> QED
  BY <1>1, <1>2, Invariance, Deletions, PTL DEF Spec, Object!Spec

-----------------------------------------------------------------------------
(* Module TraceDump. *)

(***************************************************************************)
(* A trace is emitted once: what has been in the store is not pending.     *)
(***************************************************************************)
PendingInv ==
  /\ pending \cap (store \cup lost) = {}
  /\ \A d \in Dumper :
       pending \cap (todo[d] \cup item[d] \cup rows[d] \cup table[d]) = {}

(***************************************************************************)
(* The query of a dumper: empty unless it is being built, and apart from   *)
(* the index it is about to delete, disjoint from the store.               *)
(***************************************************************************)
QueryInv ==
  \A d \in Dumper :
    /\ pc[d] # "delete" => item[d] = {}
    /\ pc[d] \notin {"read", "delete"} =>
         todo[d] = {} /\ rows[d] = {} /\ blanks[d] = 0
    /\ item[d] \cap store \subseteq rows[d]
    /\ rows[d] \cap store \subseteq item[d]
    /\ rows[d] \cap todo[d] = {}
    /\ table[d] \cap (store \cup todo[d] \cup rows[d]) = {}

(***************************************************************************)
(* The last dump starts when nobody emits any more, takes something from a *)
(* store that is not empty, and returns when the store is.                 *)
(***************************************************************************)
LastDumpInv ==
  /\ shutdown = "running" => pc["main"] = "idle"
  /\ shutdown \in {"stopping", "deleted"} => pc["main"] = "returned"
  /\ shutdown = "deleted" => pc["controller"] = "idle"
  /\ pc["main"] \in {"read", "delete"} =>
       store = {} \/ todo["main"] # {} \/ ~EmptyQuery("main")
  /\ pc["main"] = "returned" /\ ~refused["main"] => store = {}
  /\ pc["controller"] # "returned"

DumpInv ==
  DumpTypeOK /\ PendingInv /\ QueryInv /\ LastDumpInv /\ NoTraceVanishes

-----------------------------------------------------------------------------
LEMMA StoreFinite ==
  ASSUME NEW S \in SUBSET Trace
  PROVE  /\ Cardinality(S) \in Nat
         /\ Cardinality(S) = 0 => S = {}
<1>1. IsFiniteSet(S)
  BY TraceAssumption, FS_Subset
<1> QED
  BY <1>1, FS_CardinalityType, FS_EmptySet

LEMMA DumpInitInv == DumpInit => DumpInv
BY DEF DumpInit, DumpInv, DumpTypeOK, PendingInv, QueryInv, LastDumpInv,
       NoTraceVanishes,
       Emitted, Location, Dumper

(* A new trace is in the store, no dumper has seen it. *)
LEMMA EmitInv ==
  ASSUME DumpInv, NEW t \in Trace, Emit(t)
  PROVE  DumpInv'
<1> USE DEF DumpInv, Emit
<1>1. DumpTypeOK'
  BY DEF DumpTypeOK, Location
<1>2. PendingInv'
  BY DEF DumpTypeOK, PendingInv
<1>3. QueryInv'
  BY DEF DumpTypeOK, QueryInv, PendingInv
<1>4. LastDumpInv'
  BY DEF DumpTypeOK, LastDumpInv, QueryInv, EmptyQuery
<1>5. NoTraceVanishes'
  BY DEF DumpTypeOK, NoTraceVanishes, PendingInv, QueryInv, Emitted
<1> QED
  BY <1>1, <1>2, <1>3, <1>4, <1>5

(* main() moves on when the dumpers have come far enough. *)
LEMMA ShutdownInv ==
  ASSUME DumpInv, Shutdown
  PROVE  DumpInv'
<1> USE DEF DumpInv, Shutdown, JoinWorkflows, StopThread, DeleteTraces,
            MainMoves
<1>1. DumpTypeOK'
  BY DEF DumpTypeOK, Location
<1>2. PendingInv'
  BY DEF DumpTypeOK, PendingInv
<1>3. QueryInv'
  BY DEF DumpTypeOK, QueryInv
<1>4. LastDumpInv'
  BY DEF DumpTypeOK, LastDumpInv, QueryInv, EmptyQuery
<1>5. NoTraceVanishes'
  BY DEF DumpTypeOK, NoTraceVanishes, PendingInv, QueryInv, Emitted
<1> QED
  BY <1>1, <1>2, <1>3, <1>4, <1>5

(* A dump begins with the size of the store. *)
LEMMA BeginInv ==
  ASSUME DumpInv, NEW d \in Dumper, Begin(d)
  PROVE  DumpInv'
<1> USE DEF DumpInv, Begin, ReadSize, At, Returned, Dumper
<1>1. DumpTypeOK'
  BY StoreFinite DEF DumpTypeOK, Location
<1>2. PendingInv'
  BY DEF DumpTypeOK, PendingInv
<1>3. QueryInv'
  BY DEF DumpTypeOK, QueryInv
<1>4. LastDumpInv'
  BY DEF DumpTypeOK, LastDumpInv, QueryInv, EmptyQuery
<1>5. NoTraceVanishes'
  BY DEF DumpTypeOK, NoTraceVanishes, PendingInv, QueryInv, Emitted
<1> QED
  BY <1>1, <1>2, <1>3, <1>4, <1>5

(* So does each further round. *)
LEMMA NextRoundInv ==
  ASSUME DumpInv, NEW d \in Dumper, NextRound(d)
  PROVE  DumpInv'
<1> USE DEF DumpInv, NextRound, ReadSize, At, Returned, Dumper
<1>1. DumpTypeOK'
  BY StoreFinite DEF DumpTypeOK, Location
<1>2. PendingInv'
  BY DEF DumpTypeOK, PendingInv
<1>3. QueryInv'
  BY DEF DumpTypeOK, QueryInv
<1>4. LastDumpInv'
  BY DEF DumpTypeOK, LastDumpInv, QueryInv, EmptyQuery
<1>5. NoTraceVanishes'
  BY DEF DumpTypeOK, NoTraceVanishes, PendingInv, QueryInv, Emitted
<1> QED
  BY <1>1, <1>2, <1>3, <1>4, <1>5

(* The list is taken from the store, and is not empty unless that is. *)
LEMMA CopyListInv ==
  ASSUME DumpInv, NEW d \in Dumper, CopyList(d)
  PROVE  DumpInv'
<1> USE DEF DumpInv, CopyList, At, Dumper
<1>1. DumpTypeOK'
  <2>1. CASE UNCHANGED blanks
    BY <2>1 DEF DumpTypeOK, Location
  <2>2. CASE \E list \in SUBSET store :
               /\ Cardinality(list) <= MaxAmount
               /\ todo' = [todo EXCEPT ![d] = list]
               /\ blanks' = [blanks EXCEPT
                                ![d] = MaxAmount - Cardinality(list)]
    <3>1. PICK list \in SUBSET store :
               /\ Cardinality(list) <= MaxAmount
               /\ todo' = [todo EXCEPT ![d] = list]
               /\ blanks' = [blanks EXCEPT
                                ![d] = MaxAmount - Cardinality(list)]
      BY <2>2
    <3>2. list \in SUBSET Trace
      BY DEF DumpTypeOK
    <3>3. MaxAmount - Cardinality(list) \in Nat
      BY <3>1, <3>2, StoreFinite, MaxAmountAssumption
    <3> QED
      BY <3>1, <3>2, <3>3 DEF DumpTypeOK, Location
  <2> QED
    BY <2>1, <2>2
<1>2. PendingInv'
  BY DEF DumpTypeOK, PendingInv
<1>3. QueryInv'
  BY DEF DumpTypeOK, QueryInv
<1>4. LastDumpInv'
  <2>1. CASE d = "controller"
    BY <2>1 DEF DumpTypeOK, LastDumpInv, QueryInv, EmptyQuery
  <2>2. ASSUME d = "main"
        PROVE  store = {} \/ todo'["main"] # {} \/ blanks'["main"] # 0
    <3>1. CASE queue_length[d] > MaxAmount
      <4>1. PICK list \in SUBSET store :
              /\ list = store \/ Cardinality(list) = MaxAmount
              /\ todo'[d] = list
        BY <3>1 DEF DumpTypeOK
      <4>2. Cardinality(list) = MaxAmount => list # {}
        BY MaxAmountAssumption, FS_EmptySet
      <4> QED
        BY <2>2, <4>1, <4>2
    <3>2. CASE ~(queue_length[d] > MaxAmount)
      BY <2>2, <3>2 DEF DumpTypeOK
    <3> QED
      BY <3>1, <3>2
  <2> QED
    BY <2>1, <2>2 DEF DumpTypeOK, LastDumpInv, QueryInv, EmptyQuery
<1>5. NoTraceVanishes'
  BY DEF DumpTypeOK, NoTraceVanishes, PendingInv, QueryInv, Emitted
<1> QED
  BY <1>1, <1>2, <1>3, <1>4, <1>5

(* A trace in the store moves from the list to the query. *)
LEMMA CopyContentInv ==
  ASSUME DumpInv, NEW d \in Dumper, CopyContent(d)
  PROVE  DumpInv'
<1> USE DEF DumpInv, CopyContent, At, Dumper
<1>1. DumpTypeOK'
  BY DEF DumpTypeOK, Location
<1>2. PendingInv'
  BY DEF DumpTypeOK, PendingInv
<1>3. QueryInv'
  BY DEF DumpTypeOK, QueryInv
<1>4. LastDumpInv'
  BY DEF DumpTypeOK, LastDumpInv, QueryInv, EmptyQuery
<1>5. NoTraceVanishes'
  BY DEF DumpTypeOK, NoTraceVanishes, PendingInv, QueryInv, Emitted
<1> QED
  BY <1>1, <1>2, <1>3, <1>4, <1>5

(* What is deleted is in the query, or was deleted before. *)
LEMMA DeleteNodeInv ==
  ASSUME DumpInv, NEW d \in Dumper, DeleteNode(d)
  PROVE  DumpInv'
<1> USE DEF DumpInv, DeleteNode, At, Dumper
<1>1. DumpTypeOK'
  BY DEF DumpTypeOK, Location
<1>2. PendingInv'
  BY DEF DumpTypeOK, PendingInv
<1>3. QueryInv'
  BY DEF DumpTypeOK, QueryInv
<1>4. LastDumpInv'
  BY DEF DumpTypeOK, LastDumpInv, QueryInv, EmptyQuery
<1>5. NoTraceVanishes'
  BY DEF DumpTypeOK, NoTraceVanishes, PendingInv, QueryInv, Emitted
<1> QED
  BY <1>1, <1>2, <1>3, <1>4, <1>5

(* The query moves to the table. *)
LEMMA InsertRowsInv ==
  ASSUME DumpInv, NEW d \in Dumper, InsertRows(d)
  PROVE  DumpInv'
<1> USE DEF DumpInv, InsertRows, QueryDone, At, Dumper
<1>1. DumpTypeOK'
  BY DEF DumpTypeOK, Location
<1>2. PendingInv'
  BY DEF DumpTypeOK, PendingInv
<1>3. QueryInv'
  BY DEF DumpTypeOK, QueryInv
<1>4. LastDumpInv'
  BY DEF DumpTypeOK, LastDumpInv, QueryInv, EmptyQuery
<1>5. NoTraceVanishes'
  BY DEF DumpTypeOK, NoTraceVanishes, PendingInv, QueryInv, Emitted
<1> QED
  BY <1>1, <1>2, <1>3, <1>4, <1>5

(* The query is lost. *)
LEMMA InsertRefusedInv ==
  ASSUME DumpInv, NEW d \in Dumper, InsertRefused(d)
  PROVE  DumpInv'
<1> USE DEF DumpInv, InsertRefused, QueryDone, At, Returned, Dumper
<1>1. DumpTypeOK'
  BY DEF DumpTypeOK, Location
<1>2. PendingInv'
  BY DEF DumpTypeOK, PendingInv
<1>3. QueryInv'
  BY DEF DumpTypeOK, QueryInv
<1>4. LastDumpInv'
  BY DEF DumpTypeOK, LastDumpInv, QueryInv, EmptyQuery
<1>5. NoTraceVanishes'
  BY DEF DumpTypeOK, NoTraceVanishes, PendingInv, QueryInv, Emitted
<1> QED
  BY <1>1, <1>2, <1>3, <1>4, <1>5

(* An empty query has nothing to lose. *)
LEMMA InsertMalformedInv ==
  ASSUME DumpInv, NEW d \in Dumper, InsertMalformed(d)
  PROVE  DumpInv'
<1> USE DEF DumpInv, InsertMalformed, QueryDone, At, Returned, Dumper
<1>1. DumpTypeOK'
  BY DEF DumpTypeOK, Location
<1>2. PendingInv'
  BY DEF DumpTypeOK, PendingInv
<1>3. QueryInv'
  BY DEF DumpTypeOK, QueryInv
<1>4. LastDumpInv'
  BY DEF DumpTypeOK, LastDumpInv, QueryInv, EmptyQuery
<1>5. NoTraceVanishes'
  BY DEF DumpTypeOK, NoTraceVanishes, EmptyQuery, Emitted
<1> QED
  BY <1>1, <1>2, <1>3, <1>4, <1>5

LEMMA DumpStepInv == DumpInv /\ [DumpNext]_dumpVars => DumpInv'
<1> SUFFICES ASSUME DumpInv, [DumpNext]_dumpVars PROVE DumpInv'
  OBVIOUS
<1>1. CASE \E t \in Trace : Emit(t)
  BY <1>1, EmitInv
<1>2. CASE Shutdown
  BY <1>2, ShutdownInv
<1>3. ASSUME NEW d \in Dumper, Dump(d) PROVE DumpInv'
  BY <1>3, BeginInv, NextRoundInv, CopyListInv, CopyContentInv,
     DeleteNodeInv, InsertRowsInv, InsertRefusedInv, InsertMalformedInv
     DEF Dump, Round
<1>4. CASE UNCHANGED dumpVars
  <2>1. DumpTypeOK' /\ PendingInv' /\ QueryInv'
    BY <1>4 DEF DumpInv, DumpTypeOK, PendingInv, QueryInv, dumpVars
  <2>2. LastDumpInv' /\ NoTraceVanishes'
    BY <1>4
       DEF DumpInv, LastDumpInv, EmptyQuery, NoTraceVanishes, Emitted,
           dumpVars
  <2> QED
    BY <2>1, <2>2 DEF DumpInv
<1> QED
  BY <1>1, <1>2, <1>3, <1>4 DEF DumpNext, DumpFinished

LEMMA DumpInvariance == DumpSpec => []DumpInv
BY DumpInitInv, DumpStepInv, PTL DEF DumpSpec

-----------------------------------------------------------------------------
(***************************************************************************)
(* The variables of both dumps have their types; no size is negative.      *)
(***************************************************************************)
THEOREM DumpTypeCorrect == DumpSpec => []DumpTypeOK
<1>1. DumpInv => DumpTypeOK
  BY DEF DumpInv
<1> QED
  BY <1>1, DumpInvariance, PTL

(***************************************************************************)
(* No interleaving of the two dumps and the workflows loses a trace that   *)
(* the DB did not refuse.                                                  *)
(***************************************************************************)
THEOREM NothingVanishes == DumpSpec => []NoTraceVanishes
<1>1. DumpInv => NoTraceVanishes
  BY DEF DumpInv
<1> QED
  BY <1>1, DumpInvariance, PTL

(***************************************************************************)
(* Neither dumper inserts a trace again that it has inserted.              *)
(***************************************************************************)
THEOREM DumpsOnce == DumpSpec => []NoDumperRepeats
<1>1. DumpInv => NoDumperRepeats
  BY DEF DumpInv, QueryInv, NoDumperRepeats
<1> QED
  BY <1>1, DumpInvariance, PTL

(***************************************************************************)
(* At its deletion the store is empty and no query is under way, unless    *)
(* the DB refused a query of the last dump.                                *)
(***************************************************************************)
THEOREM LastDumpIsLast == DumpSpec => []NothingLeftBehind
<1>1. DumpInv => NothingLeftBehind
  BY DEF DumpInv, QueryInv, LastDumpInv, NothingLeftBehind, Dumper
<1> QED
  BY <1>1, DumpInvariance, PTL

-----------------------------------------------------------------------------
(* The delivery of the traces, as TraceDelivery has it. *)

deliveryVars == <<Emitted, table, lost, refused, shutdown = "deleted">>

(* Nobody emits once main() has joined the workflows. *)
LEMMA EmitDelivers ==
  ASSUME DumpInv, NEW t \in Trace, Emit(t)
  PROVE  Delivery!Next
<1>1. Delivery!Emit(t)
  BY DEF DumpInv, DumpTypeOK, Emit, Emitted, Delivery!Emit
<1> QED
  BY <1>1 DEF Delivery!Next

(***************************************************************************)
(* A dumper that has a query to perform has not been waited for yet, and   *)
(* what is in the query was emitted.                                       *)
(***************************************************************************)
LEMMA QueryOpen ==
  ASSUME DumpInv, NEW d \in Dumper, pc[d] = "read"
  PROVE  /\ shutdown # "deleted"
         /\ rows[d] \in SUBSET Trace
         /\ rows[d] \subseteq Emitted
BY DEF DumpInv, DumpTypeOK, LastDumpInv, PendingInv, Dumper, Emitted

LEMMA DumpDelivers ==
  ASSUME DumpInv, NEW d \in Dumper, Dump(d)
  PROVE  Delivery!Next \/ UNCHANGED deliveryVars
<1>1. CASE InsertRows(d)
  <2>1. Delivery!Deliver(d, rows[d])
    BY <1>1, QueryOpen
       DEF InsertRows, QueryDone, At, Emitted, Delivery!Deliver
  <2> QED
    BY <1>1, <2>1, QueryOpen DEF InsertRows, At, Delivery!Next
<1>2. CASE InsertRefused(d)
  <2>1. Delivery!Refuse(d, rows[d])
    BY <1>2, QueryOpen
       DEF InsertRefused, QueryDone, At, Emitted, Delivery!Refuse
  <2> QED
    BY <1>2, <2>1, QueryOpen DEF InsertRefused, At, Delivery!Next
<1>3. CASE \/ Begin(d) \/ NextRound(d) \/ CopyList(d) \/ CopyContent(d)
           \/ DeleteNode(d) \/ InsertMalformed(d)
  BY <1>3
     DEF Begin, NextRound, ReadSize, CopyList, CopyContent, DeleteNode,
         InsertMalformed, QueryDone, Emitted, deliveryVars
<1> QED
  BY <1>1, <1>2, <1>3 DEF Dump, Round

(***************************************************************************)
(* The traces are deleted when both dumpers are done.  Then no query is    *)
(* under way, and unless one of the last dump was refused the store is     *)
(* empty: every trace that did not vanish is in the DB or was refused.     *)
(***************************************************************************)
LEMMA DeleteCloses ==
  ASSUME DumpInv, DeleteTraces
  PROVE  Delivery!Next
<1>1. /\ pc["main"] = "returned" /\ pc["controller"] = "idle"
      /\ \A d \in Dumper : rows[d] = {}
  BY DEF DeleteTraces, MainMoves, DumpInv, LastDumpInv, QueryInv, Dumper
<1>2. ~refused["main"] => Emitted \subseteq Delivery!Accounted
  BY <1>1 DEF DumpInv, LastDumpInv, NoTraceVanishes, Delivery!Accounted
<1>3. Delivery!Close
  BY <1>2 DEF DeleteTraces, MainMoves, Emitted, Delivery!Close
<1> QED
  BY <1>3 DEF Delivery!Next

(***************************************************************************)
(* do_stuff() in two threads and the shutdown of main() deliver the traces *)
(* as the workflows rely on.                                               *)
(***************************************************************************)
THEOREM Refinement == DumpSpec => ImplementsTraceDelivery
<1>1. DumpInit => Delivery!Init
  BY DEF DumpInit, Delivery!Init, Emitted
<1>2. DumpInv /\ [DumpNext]_dumpVars => [Delivery!Next]_deliveryVars
  <2> SUFFICES ASSUME DumpInv, [DumpNext]_dumpVars
               PROVE  Delivery!Next \/ UNCHANGED deliveryVars
    OBVIOUS
  <2>1. CASE \E t \in Trace : Emit(t)
    BY <2>1, EmitDelivers
  <2>2. CASE \E d \in Dumper : Dump(d)
    BY <2>2, DumpDelivers
  <2>3. CASE DeleteTraces
    BY <2>3, DeleteCloses
  <2>4. CASE JoinWorkflows \/ StopThread \/ UNCHANGED dumpVars
    BY <2>4
       DEF JoinWorkflows, StopThread, MainMoves, Emitted, dumpVars,
           deliveryVars
  <2> QED
    BY <2>1, <2>2, <2>3, <2>4 DEF DumpNext, Shutdown, DumpFinished
<1> QED
  BY <1>1, <1>2, DumpInvariance, PTL
     DEF DumpSpec, ImplementsTraceDelivery, Delivery!Spec, deliveryVars
=============================================================================
