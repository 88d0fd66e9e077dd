-------------------------- MODULE ThreadpoolProofs --------------------------
(***************************************************************************)
(* Proofs about Threadpool for any number of workers, callers and tasks.   *)
(***************************************************************************)
EXTENDS Threadpool, FiniteSetTheorems, SequenceTheorems, TLAPS

(* The initial states. *)
LEMMA InitIInv == Init => IInv
<1> USE NumThreadsAssumption, TaskAssumption
<1> SUFFICES ASSUME Init PROVE IInv
  OBVIOUS
<1>1. TypeOK
  <2>1. /\ wpc \in [Worker -> WorkerPC]
        /\ current \in [Worker -> Task \cup {NoTask}]
        /\ cpc \in [Caller -> CallerPC]
    BY DEF Init, WorkerPC, CallerPC
  <2>2. next \in [Caller -> 1 .. NumThreads + 1]
    BY DEF Init
  <2>3. /\ tasks \in Seq(Task) /\ accepted \in Seq(Task)
        /\ started \in Seq(Task)
    BY DEF Init
  <2> QED
    BY <2>1, <2>2, <2>3 DEF Init, TypeOK
<1>2. StartsInOrder
  BY DEF Init, StartsInOrder
<1>3. /\ NoPopFromEmpty /\ ExitsOnlyWhenDrained /\ ShutdownWakesAll
      /\ TaskOnlyWhileRunning /\ JoinedAreExited
  BY DEF Init, NoPopFromEmpty, ExitsOnlyWhenDrained, ShutdownWakesAll,
         TaskOnlyWhileRunning, JoinedAreExited
<1>4. StopAfterShutdown /\ DestructorAlone
  BY DEF Init, StopAfterShutdown, Stopping,
         DestructorAlone, DestructorPC
<1>5. NoTaskWaitsForSleeper
  BY DEF Init, NoTaskWaitsForSleeper, Waiting
<1> QED
  BY <1>1, <1>2, <1>3, <1>4, <1>5 DEF IInv

(* A wait that returned finds a task, or else the pool is shut down: a stop *)
(* is signalled to a worker only after shutdown_ was set.                   *)
LEMMA WorkerTakesATask ==
  ASSUME IInv, NEW w \in Worker, WorkerTakes(w)
  PROVE  /\ tasks # <<>>
         /\ Head(tasks) \in Task
         /\ Tail(tasks) \in Seq(Task)
         /\ Append(started, Head(tasks)) \in Seq(Task)
         /\ started \o tasks = Append(started, Head(tasks)) \o Tail(tasks)
<1>1. tasks # <<>>
  BY DEF WorkerTakes, WaitReturns, StopAfterShutdown, IInv
<1>2. tasks \in Seq(Task) /\ started \in Seq(Task)
  BY DEF TypeOK, IInv
<1>3. Head(tasks) \in Task /\ Tail(tasks) \in Seq(Task)
  BY <1>1, <1>2
<1>4. started \o tasks = Append(started, Head(tasks)) \o Tail(tasks)
  BY <1>1, <1>2
<1> QED
  BY <1>1, <1>2, <1>3, <1>4

(* Types. *)
LEMMA TypeOKStep ==
  ASSUME IInv, [Next]_vars
  PROVE  TypeOK'
<1> DEFINE Goal == TypeOK'
<1> USE NumThreadsAssumption, TaskAssumption DEF IInv, TypeOK, WorkerPC,
           CallerPC, Worker, Waiting, callVars, history
<1>1. CASE UNCHANGED vars
  BY <1>1 DEF vars
<1>2. ASSUME NEW w \in Worker, WorkerWaits(w) PROVE Goal
  BY <1>2 DEF WorkerWaits, WaitReturns
<1>3. ASSUME NEW w \in Worker, SpuriousWakeup(w) PROVE Goal
  BY <1>3 DEF SpuriousWakeup
<1>4. ASSUME NEW w \in Worker, WorkerExits(w) PROVE Goal
  BY <1>4 DEF WorkerExits, WaitReturns
<1>5. ASSUME NEW w \in Worker, WorkerTakes(w) PROVE Goal
  <2>1. /\ Head(tasks) \in Task
        /\ Tail(tasks) \in Seq(Task)
        /\ Append(started, Head(tasks)) \in Seq(Task)
    BY <1>5, WorkerTakesATask
  <2> QED
    BY <1>5, <2>1, WorkerTakesATask DEF WorkerTakes
<1>6. ASSUME NEW w \in Worker, TaskEnds(w) PROVE Goal
  BY <1>6 DEF TaskEnds, NoPopFromEmpty
<1>7. ASSUME NEW w \in Worker, WorkerUsesDestroyed(w) PROVE Goal
  BY <1>7 DEF WorkerUsesDestroyed
<1>8. ASSUME NEW c \in Caller, NEW t \in Task, SubmitAccepts(c, t) PROVE Goal
  BY <1>8 DEF SubmitAccepts, Callable
<1>9. ASSUME NEW c \in Caller, SubmitNotifies(c) PROVE Goal
  BY <1>9 DEF SubmitNotifies, NotifyOne
<1>10. ASSUME NEW c \in Caller, RequestStop(c) PROVE Goal
  BY <1>10 DEF RequestStop, Callable
<1>11. ASSUME NEW c \in Caller, RequestStopNotifies(c) PROVE Goal
  BY <1>11 DEF RequestStopNotifies, NotifyAll
<1>12. ASSUME NEW c \in Caller, RequestStopWorker(c) PROVE Goal
  <2>1. next' \in [Caller -> 1 .. NumThreads + 1]
    BY <1>12 DEF RequestStopWorker
  <2> QED
    BY <1>12, <2>1, ZenonT(40) DEF RequestStopWorker, SignalStop, NotifyAll
<1>13. ASSUME NEW c \in Caller, RequestStopReturns(c) PROVE Goal
  BY <1>13 DEF RequestStopReturns
<1>14. ASSUME NEW c \in Caller, WaitForExit(c) PROVE Goal
  BY <1>14 DEF WaitForExit, Callable
<1>15. ASSUME NEW c \in Caller, JoinWorker(c) PROVE Goal
  <2>1. next' \in [Caller -> 1 .. NumThreads + 1]
    BY <1>15 DEF JoinWorker
  <2> QED
    BY <1>15, <2>1 DEF JoinWorker
<1>16. ASSUME NEW c \in Caller, WaitForExitReturns(c) PROVE Goal
  BY <1>16 DEF WaitForExitReturns
<1>17. ASSUME NEW c \in Caller, Destroy(c) PROVE Goal
  BY <1>17 DEF Destroy
<1>18. ASSUME NEW c \in Caller, DestroyNotifies(c) PROVE Goal
  BY <1>18 DEF DestroyNotifies, NotifyAll
<1>19. ASSUME NEW c \in Caller, DestroyMembers(c) PROVE Goal
  <2>1. next' \in [Caller -> 1 .. NumThreads + 1]
    BY <1>19 DEF DestroyMembers
  <2> QED
    BY <1>19, <2>1 DEF DestroyMembers
<1>20. ASSUME NEW c \in Caller, DestroyStopsWorker(c) PROVE Goal
  <2>1. stopRequested' \subseteq Worker
    BY <1>20 DEF DestroyStopsWorker, SignalStop
  <2>2. wpc' \in [Worker -> WorkerPC]
    BY <1>20 DEF DestroyStopsWorker, SignalStop, NotifyAll
  <2> QED
    BY <1>20, <2>1, <2>2 DEF DestroyStopsWorker
<1>21. ASSUME NEW c \in Caller, DestroyJoinsWorker(c) PROVE Goal
  <2>1. next[c] \in Worker
    BY <1>21 DEF DestroyJoinsWorker, StopAfterShutdown
  <2>2. next' \in [Caller -> 1 .. NumThreads + 1]
    BY <1>21, <2>1 DEF DestroyJoinsWorker
  <2> QED
    BY <1>21, <2>1, <2>2 DEF DestroyJoinsWorker
<1>22. ASSUME NEW c \in Caller, DestroyReturns(c) PROVE Goal
  BY <1>22 DEF DestroyReturns
<1> QED
  BY <1>1, <1>2, <1>3, <1>4, <1>5, <1>6, <1>7, <1>8, <1>9, <1>10, <1>11,
     <1>12, <1>13, <1>14, <1>15, <1>16, <1>17, <1>18, <1>19, <1>20, <1>21,
     <1>22
  DEF Next, WorkerStep, CallStep, Call, SubmitRejects, Terminated

(* The queue against the history, and where the flags come from. *)
LEMMA FlagsStep ==
  ASSUME IInv, [Next]_vars
  PROVE  StartsInOrder' /\ StopAfterShutdown'
<1> DEFINE Goal == StartsInOrder' /\ StopAfterShutdown'
<1> USE NumThreadsAssumption, TaskAssumption DEF IInv, StartsInOrder,
           StopAfterShutdown, Stopping, DestructorPC,
           TypeOK, Waiting, Worker, callVars, history
<1>1. CASE UNCHANGED vars
  BY <1>1 DEF vars
<1>2. ASSUME NEW w \in Worker, WorkerWaits(w) PROVE Goal
  BY <1>2 DEF WorkerWaits, WaitReturns
<1>3. ASSUME NEW w \in Worker, SpuriousWakeup(w) PROVE Goal
  BY <1>3 DEF SpuriousWakeup
<1>4. ASSUME NEW w \in Worker, WorkerExits(w) PROVE Goal
  BY <1>4 DEF WorkerExits, WaitReturns
<1>5. ASSUME NEW w \in Worker, WorkerTakes(w) PROVE Goal
  BY <1>5, WorkerTakesATask DEF WorkerTakes
<1>6. ASSUME NEW w \in Worker, TaskEnds(w) PROVE Goal
  BY <1>6 DEF TaskEnds
<1>7. ASSUME NEW w \in Worker, WorkerUsesDestroyed(w) PROVE Goal
  BY <1>7 DEF WorkerUsesDestroyed
<1>8. ASSUME NEW c \in Caller, NEW t \in Task, SubmitAccepts(c, t) PROVE Goal
  <2>1. Append(started \o tasks, t) = started \o Append(tasks, t)
    <3>1. started \in Seq(Task) /\ tasks \in Seq(Task)
      BY DEF TypeOK
    <3> HIDE DEF IInv, StartsInOrder, TypeOK
    <3> QED
      BY <3>1
  <2> QED
    BY <1>8, <2>1 DEF SubmitAccepts, Callable
<1>9. ASSUME NEW c \in Caller, SubmitNotifies(c) PROVE Goal
  BY <1>9 DEF SubmitNotifies, NotifyOne
<1>10. ASSUME NEW c \in Caller, RequestStop(c) PROVE Goal
  BY <1>10 DEF RequestStop, Callable
<1>11. ASSUME NEW c \in Caller, RequestStopNotifies(c) PROVE Goal
  BY <1>11 DEF RequestStopNotifies, NotifyAll
<1>12. ASSUME NEW c \in Caller, RequestStopWorker(c) PROVE Goal
  BY <1>12 DEF RequestStopWorker, SignalStop, NotifyAll
<1>13. ASSUME NEW c \in Caller, RequestStopReturns(c) PROVE Goal
  BY <1>13 DEF RequestStopReturns
<1>14. ASSUME NEW c \in Caller, WaitForExit(c) PROVE Goal
  BY <1>14 DEF WaitForExit, Callable
<1>15. ASSUME NEW c \in Caller, JoinWorker(c) PROVE Goal
  BY <1>15 DEF JoinWorker
<1>16. ASSUME NEW c \in Caller, WaitForExitReturns(c) PROVE Goal
  BY <1>16 DEF WaitForExitReturns
<1>17. ASSUME NEW c \in Caller, Destroy(c) PROVE Goal
  BY <1>17 DEF Destroy
<1>18. ASSUME NEW c \in Caller, DestroyNotifies(c) PROVE Goal
  BY <1>18 DEF DestroyNotifies, NotifyAll
<1>19. ASSUME NEW c \in Caller, DestroyMembers(c) PROVE Goal
  BY <1>19 DEF DestroyMembers
<1>20. ASSUME NEW c \in Caller, DestroyStopsWorker(c) PROVE Goal
  BY <1>20 DEF DestroyStopsWorker, SignalStop, NotifyAll
<1>21. ASSUME NEW c \in Caller, DestroyJoinsWorker(c) PROVE Goal
  BY <1>21 DEF DestroyJoinsWorker
<1>22. ASSUME NEW c \in Caller, DestroyReturns(c) PROVE Goal
  BY <1>22 DEF DestroyReturns
<1> QED
  BY <1>1, <1>2, <1>3, <1>4, <1>5, <1>6, <1>7, <1>8, <1>9, <1>10, <1>11,
     <1>12, <1>13, <1>14, <1>15, <1>16, <1>17, <1>18, <1>19, <1>20, <1>21,
     <1>22
  DEF Next, WorkerStep, CallStep, Call, SubmitRejects, Terminated

(* Where the workers are. *)
LEMMA WorkersStep ==
  ASSUME IInv, [Next]_vars
  PROVE  /\ NoPopFromEmpty' /\ TaskOnlyWhileRunning' /\ JoinedAreExited'
         /\ ExitsOnlyWhenDrained' /\ ShutdownWakesAll'
<1> DEFINE Goal == /\ NoPopFromEmpty' /\ TaskOnlyWhileRunning'
                   /\ JoinedAreExited'
         /\ ExitsOnlyWhenDrained' /\ ShutdownWakesAll'
<1> USE NumThreadsAssumption, TaskAssumption DEF IInv, NoPopFromEmpty,
           TaskOnlyWhileRunning, JoinedAreExited, ExitsOnlyWhenDrained,
           ShutdownWakesAll, StopAfterShutdown, Stopping, DestructorPC,
           TypeOK, Waiting, WorkerPC, Worker, callVars, history
<1>1. CASE UNCHANGED vars
  BY <1>1 DEF vars
<1>2. ASSUME NEW w \in Worker, WorkerWaits(w) PROVE Goal
  BY <1>2 DEF WorkerWaits, WaitReturns
<1>3. ASSUME NEW w \in Worker, SpuriousWakeup(w) PROVE Goal
  BY <1>3 DEF SpuriousWakeup
<1>4. ASSUME NEW w \in Worker, WorkerExits(w) PROVE Goal
  BY <1>4 DEF WorkerExits, WaitReturns
<1>5. ASSUME NEW w \in Worker, WorkerTakes(w) PROVE Goal
  BY <1>5, WorkerTakesATask DEF WorkerTakes
<1>6. ASSUME NEW w \in Worker, TaskEnds(w) PROVE Goal
  BY <1>6 DEF TaskEnds
<1>7. ASSUME NEW w \in Worker, WorkerUsesDestroyed(w) PROVE Goal
  <2>1. NoPopFromEmpty'
    BY <1>7 DEF WorkerUsesDestroyed
  <2>2. TaskOnlyWhileRunning'
    BY <1>7 DEF WorkerUsesDestroyed
  <2>3. JoinedAreExited'
    BY <1>7 DEF WorkerUsesDestroyed
  <2>4. ExitsOnlyWhenDrained'
    BY <1>7 DEF WorkerUsesDestroyed
  <2>5. ShutdownWakesAll'
    BY <1>7 DEF WorkerUsesDestroyed
  <2> QED
    BY <2>1, <2>2, <2>3, <2>4, <2>5
<1>8. ASSUME NEW c \in Caller, NEW t \in Task, SubmitAccepts(c, t) PROVE Goal
  BY <1>8 DEF SubmitAccepts, Callable
<1>9. ASSUME NEW c \in Caller, SubmitNotifies(c) PROVE Goal
  BY <1>9 DEF SubmitNotifies, NotifyOne
<1>10. ASSUME NEW c \in Caller, RequestStop(c) PROVE Goal
  BY <1>10 DEF RequestStop, Callable
<1>11. ASSUME NEW c \in Caller, RequestStopNotifies(c) PROVE Goal
  BY <1>11 DEF RequestStopNotifies, NotifyAll
<1>12. ASSUME NEW c \in Caller, RequestStopWorker(c) PROVE Goal
  <2>1. NoPopFromEmpty'
    BY <1>12 DEF RequestStopWorker, SignalStop, NotifyAll
  <2>2. TaskOnlyWhileRunning'
    BY <1>12 DEF RequestStopWorker, SignalStop, NotifyAll
  <2>3. JoinedAreExited'
    BY <1>12 DEF RequestStopWorker, SignalStop, NotifyAll
  <2>4. ExitsOnlyWhenDrained'
    BY <1>12 DEF RequestStopWorker, SignalStop, NotifyAll
  <2>5. ShutdownWakesAll'
    BY <1>12 DEF RequestStopWorker, SignalStop, NotifyAll
  <2> QED
    BY <2>1, <2>2, <2>3, <2>4, <2>5
<1>13. ASSUME NEW c \in Caller, RequestStopReturns(c) PROVE Goal
  BY <1>13 DEF RequestStopReturns
<1>14. ASSUME NEW c \in Caller, WaitForExit(c) PROVE Goal
  BY <1>14 DEF WaitForExit, Callable
<1>15. ASSUME NEW c \in Caller, JoinWorker(c) PROVE Goal
  BY <1>15 DEF JoinWorker
<1>16. ASSUME NEW c \in Caller, WaitForExitReturns(c) PROVE Goal
  BY <1>16 DEF WaitForExitReturns
<1>17. ASSUME NEW c \in Caller, Destroy(c) PROVE Goal
  BY <1>17 DEF Destroy
<1>18. ASSUME NEW c \in Caller, DestroyNotifies(c) PROVE Goal
  BY <1>18 DEF DestroyNotifies, NotifyAll
<1>19. ASSUME NEW c \in Caller, DestroyMembers(c) PROVE Goal
  BY <1>19 DEF DestroyMembers
<1>20. ASSUME NEW c \in Caller, DestroyStopsWorker(c) PROVE Goal
  <2>1. NoPopFromEmpty'
    BY <1>20 DEF DestroyStopsWorker, SignalStop, NotifyAll
  <2>2. TaskOnlyWhileRunning'
    BY <1>20 DEF DestroyStopsWorker, SignalStop, NotifyAll
  <2>3. JoinedAreExited'
    BY <1>20 DEF DestroyStopsWorker, SignalStop, NotifyAll
  <2>4. ExitsOnlyWhenDrained'
    BY <1>20 DEF DestroyStopsWorker, SignalStop, NotifyAll
  <2>5. ShutdownWakesAll'
    BY <1>20 DEF DestroyStopsWorker, SignalStop, NotifyAll
  <2> QED
    BY <2>1, <2>2, <2>3, <2>4, <2>5
<1>21. ASSUME NEW c \in Caller, DestroyJoinsWorker(c) PROVE Goal
  <2>1. NoPopFromEmpty'
    BY <1>21 DEF DestroyJoinsWorker
  <2>2. TaskOnlyWhileRunning'
    BY <1>21 DEF DestroyJoinsWorker
  <2>3. JoinedAreExited'
    BY <1>21 DEF DestroyJoinsWorker
  <2>4. ExitsOnlyWhenDrained'
    BY <1>21 DEF DestroyJoinsWorker
  <2>5. ShutdownWakesAll'
    BY <1>21 DEF DestroyJoinsWorker
  <2> QED
    BY <2>1, <2>2, <2>3, <2>4, <2>5
<1>22. ASSUME NEW c \in Caller, DestroyReturns(c) PROVE Goal
  BY <1>22 DEF DestroyReturns
<1> QED
  BY <1>1, <1>2, <1>3, <1>4, <1>5, <1>6, <1>7, <1>8, <1>9, <1>10, <1>11,
     <1>12, <1>13, <1>14, <1>15, <1>16, <1>17, <1>18, <1>19, <1>20, <1>21,
     <1>22
  DEF Next, WorkerStep, CallStep, Call, SubmitRejects, Terminated

(* The destructor is alone in the pool from its first step to its last.    *)
LEMMA DestructorAloneStep ==
  ASSUME IInv, [Next]_vars
  PROVE  DestructorAlone'
<1> USE DEF IInv, DestructorAlone, DestructorPC, callVars, history
<1>0. cpc \in [Caller -> CallerPC]
  BY DEF TypeOK
<1>1. CASE UNCHANGED vars
  BY <1>1 DEF vars
<1>2. ASSUME NEW w \in Worker, WorkerStep(w) \/ SpuriousWakeup(w)
      PROVE  DestructorAlone'
  <2>1. UNCHANGED <<cpc, alive>>
    BY <1>2 DEF WorkerStep, SpuriousWakeup, WorkerWaits, WorkerExits,
                WorkerTakes, TaskEnds, WorkerUsesDestroyed
  <2> QED
    BY <2>1
<1>3. ASSUME NEW c \in Caller, NEW t \in Task, SubmitAccepts(c, t)
      PROVE  DestructorAlone'
  BY <1>0, <1>3 DEF SubmitAccepts, Callable
<1>4. ASSUME NEW c \in Caller, RequestStop(c) \/ WaitForExit(c)
      PROVE  DestructorAlone'
  BY <1>0, <1>4 DEF RequestStop, WaitForExit, Callable
<1>5. ASSUME NEW c \in Caller, Destroy(c) PROVE DestructorAlone'
  BY <1>0, <1>5 DEF Destroy
<1>6. ASSUME NEW c \in Caller, CallStep(c) PROVE DestructorAlone'
  <2>1. ASSUME \/ SubmitNotifies(c) \/ RequestStopNotifies(c)
               \/ RequestStopWorker(c) \/ RequestStopReturns(c)
               \/ JoinWorker(c) \/ WaitForExitReturns(c)
        PROVE  DestructorAlone'
    <3>1. cpc[c] \notin DestructorPC \cup {"idle"}
      BY <2>1 DEF SubmitNotifies, RequestStopNotifies, RequestStopWorker,
                  RequestStopReturns, JoinWorker, WaitForExitReturns
    <3>2. /\ alive' = alive
          /\ \E pc \in CallerPC \ DestructorPC :
               cpc' = [cpc EXCEPT ![c] = pc]
      BY <1>0, <2>1
      DEF SubmitNotifies, RequestStopNotifies, RequestStopWorker,
          RequestStopReturns, JoinWorker, WaitForExitReturns, CallerPC
    <3> QED
      BY <1>0, <3>1, <3>2
  <2>2. ASSUME \/ DestroyNotifies(c) \/ DestroyMembers(c)
               \/ DestroyStopsWorker(c) \/ DestroyJoinsWorker(c)
               \/ DestroyReturns(c)
        PROVE  DestructorAlone'
    BY <1>0, <2>2 DEF DestroyNotifies, DestroyMembers, DestroyStopsWorker,
                      DestroyJoinsWorker, DestroyReturns
  <2> QED
    BY <1>6, <2>1, <2>2 DEF CallStep
<1> QED
  BY <1>1, <1>2, <1>3, <1>4, <1>5, <1>6
  DEF Next, Call, SubmitRejects, Terminated

(* Workers and callers can be counted. *)
LEMMA Counted ==
  /\ IsFiniteSet(Awake) /\ Cardinality(Awake) \in Nat
  /\ IsFiniteSet(Notifying) /\ Cardinality(Notifying) \in Nat
<1>1. IsFiniteSet(Worker)
  BY NumThreadsAssumption, FS_Interval DEF Worker
<1>2. IsFiniteSet(Awake)
  BY <1>1, FS_Subset DEF Awake
<1>3. IsFiniteSet(Notifying)
  BY CallerAssumption, FS_Subset DEF Notifying
<1> QED
  BY <1>2, <1>3, FS_CardinalityType

(* A step that wakes workers and puts none to sleep, and takes nobody off  *)
(* the way to the queue or to notify_one, costs no task its wakeup.        *)
LEMMA WakingIsHarmless ==
  ASSUME IInv, tasks' = tasks, Waiting' \subseteq Waiting,
         Awake \subseteq Awake', Notifying \subseteq Notifying',
         IsFiniteSet(Awake'), IsFiniteSet(Notifying')
  PROVE  NoTaskWaitsForSleeper'
<1>1. /\ Cardinality(Awake) <= Cardinality(Awake')
      /\ Cardinality(Notifying) <= Cardinality(Notifying')
  BY FS_Subset
<1>2. Cardinality(Awake') \in Nat /\ Cardinality(Notifying') \in Nat
  BY FS_CardinalityType
<1>3. Len(tasks) \in Nat
  BY DEF IInv, TypeOK
<1> QED
  BY <1>1, <1>2, <1>3, Counted DEF IInv, NoTaskWaitsForSleeper

(* No wakeup is lost: submit pushes and later notifies, a notification     *)
(* wakes a sleeper if there is one, and a worker goes back to sleep only   *)
(* over an empty queue.                                                    *)
LEMMA NoTaskWaitsStep ==
  ASSUME IInv, [Next]_vars
  PROVE  NoTaskWaitsForSleeper'
<1> DEFINE Goal == NoTaskWaitsForSleeper'
<1> USE DEF callVars, history
<1>1. /\ wpc \in [Worker -> WorkerPC] /\ cpc \in [Caller -> CallerPC]
      /\ tasks \in Seq(Task) /\ Len(tasks) \in Nat
  BY DEF IInv, TypeOK
<1>2. /\ IsFiniteSet(Awake') /\ Cardinality(Awake') \in Nat
      /\ IsFiniteSet(Notifying') /\ Cardinality(Notifying') \in Nat
  <2>1. IsFiniteSet(Worker)
    BY NumThreadsAssumption, FS_Interval DEF Worker
  <2>2. Awake' \subseteq Worker /\ Notifying' \subseteq Caller
    BY DEF Awake, Notifying
  <2> QED
    BY <2>1, <2>2, CallerAssumption, FS_Subset, FS_CardinalityType
<1>3. CASE UNCHANGED vars
  BY <1>3, <1>2, WakingIsHarmless DEF vars, Waiting, Awake, Notifying
<1>4. ASSUME NEW w \in Worker, WorkerWaits(w) \/ WorkerExits(w) PROVE Goal
  <2>1. tasks' = <<>>
    BY <1>4 DEF WorkerWaits, WorkerExits, WaitReturns
  <2> QED
    BY <1>2, <2>1 DEF NoTaskWaitsForSleeper
<1>5. ASSUME NEW w \in Worker, WorkerTakes(w) PROVE Goal
  <2>1. Len(tasks') = Len(tasks) - 1
    BY <1>1, <1>5, WorkerTakesATask, HeadTailProperties DEF WorkerTakes
  <2>2. Awake' = Awake \ {w} /\ w \in Awake /\ Notifying' = Notifying
    BY <1>1, <1>5 DEF WorkerTakes, Awake, Notifying
  <2>3. Cardinality(Awake') = Cardinality(Awake) - 1
    BY <2>2, Counted, FS_RemoveElement
  <2>4. Waiting' = Waiting
    BY <1>1, <1>5 DEF WorkerTakes, Waiting
  <2> QED
    BY <1>1, <2>1, <2>2, <2>3, <2>4, Counted DEF IInv, NoTaskWaitsForSleeper
<1>6. ASSUME NEW w \in Worker, TaskEnds(w) \/ SpuriousWakeup(w) PROVE Goal
  <2>1. /\ tasks' = tasks /\ Waiting' \subseteq Waiting
        /\ Awake \subseteq Awake' /\ Notifying \subseteq Notifying'
    BY <1>1, <1>6
    DEF TaskEnds, SpuriousWakeup, Waiting, Awake, Notifying
  <2> QED
    BY <1>2, <2>1, WakingIsHarmless
<1>7. ASSUME NEW w \in Worker, WorkerUsesDestroyed(w) PROVE Goal
  <2>1. Waiting = {}
    <3>1. \A c \in Caller : cpc[c] \notin {"stop_notify", "dtor_notify"}
      BY <1>7 DEF WorkerUsesDestroyed, IInv, DestructorAlone, DestructorPC
    <3>2. shutdown
      BY <1>7 DEF WorkerUsesDestroyed, IInv, StopAfterShutdown
    <3> QED
      BY <3>1, <3>2 DEF IInv, ShutdownWakesAll
  <2>2. Waiting' = {}
    BY <1>1, <1>7, <2>1 DEF WorkerUsesDestroyed, Waiting
  <2> QED
    BY <2>2 DEF NoTaskWaitsForSleeper
<1>8. ASSUME NEW c \in Caller, NEW t \in Task, SubmitAccepts(c, t) PROVE Goal
  <2>1. Len(tasks') = Len(tasks) + 1
    BY <1>1, <1>8, AppendProperties DEF SubmitAccepts
  <2>2. /\ Notifying' = Notifying \cup {c} /\ c \notin Notifying
        /\ Awake' = Awake /\ Waiting' = Waiting
    BY <1>1, <1>8
    DEF SubmitAccepts, Callable, Awake, Notifying, Waiting, CallerPC
  <2>3. Cardinality(Notifying') = Cardinality(Notifying) + 1
    BY <2>2, Counted, FS_AddElement
  <2> QED
    BY <1>1, <2>1, <2>2, <2>3, Counted DEF IInv, NoTaskWaitsForSleeper
<1>9. ASSUME NEW c \in Caller, SubmitNotifies(c) PROVE Goal
  <2>1. CASE Waiting = {}
    <3>1. Waiting' = {}
      BY <1>9, <2>1 DEF SubmitNotifies, NotifyOne, Waiting
    <3> QED
      BY <3>1 DEF NoTaskWaitsForSleeper
  <2>2. CASE Waiting # {}
    <3>1. PICK w \in Waiting : wpc' = [wpc EXCEPT ![w] = "loop"]
      BY <1>9, <2>2 DEF SubmitNotifies, NotifyOne
    <3>2. Awake' = Awake \cup {w} /\ w \notin Awake
      BY <1>1, <3>1 DEF Awake, Waiting, WorkerPC
    <3>3. Cardinality(Awake') = Cardinality(Awake) + 1
      BY <3>2, Counted, FS_AddElement
    <3>4. Notifying' = Notifying \ {c} /\ c \in Notifying
      BY <1>1, <1>9 DEF SubmitNotifies, Notifying, CallerPC
    <3>5. Cardinality(Notifying') = Cardinality(Notifying) - 1
      BY <3>4, Counted, FS_RemoveElement
    <3>6. tasks' = tasks
      BY <1>9 DEF SubmitNotifies
    <3> QED
      BY <1>1, <2>2, <3>3, <3>5, <3>6, Counted DEF IInv, NoTaskWaitsForSleeper
  <2> QED
    BY <2>1, <2>2
<1>10. ASSUME NEW c \in Caller,
              \/ RequestStop(c) \/ WaitForExit(c) \/ Destroy(c)
       PROVE  Goal
  <2>1. /\ tasks' = tasks /\ wpc' = wpc
        /\ \E pc \in CallerPC : cpc' = [cpc EXCEPT ![c] = pc]
        /\ cpc[c] # "notify"
    BY <1>10 DEF RequestStop, WaitForExit, Destroy, Callable, CallerPC
  <2> QED
    BY <1>1, <1>2, <2>1, WakingIsHarmless DEF Waiting, Awake, Notifying
<1>11. ASSUME NEW c \in Caller, CallStep(c), ~SubmitNotifies(c) PROVE Goal
  <2>1. tasks' = tasks
    BY <1>11
    DEF CallStep, RequestStopNotifies, RequestStopWorker, RequestStopReturns,
        JoinWorker, WaitForExitReturns, DestroyNotifies, DestroyMembers,
        DestroyStopsWorker, DestroyJoinsWorker, DestroyReturns
  <2>2. /\ cpc[c] # "notify"
        /\ \E pc \in CallerPC : cpc' = [cpc EXCEPT ![c] = pc]
    BY <1>1, <1>11
    DEF CallStep, RequestStopNotifies, RequestStopWorker, RequestStopReturns,
        JoinWorker, WaitForExitReturns, DestroyNotifies, DestroyMembers,
        DestroyStopsWorker, DestroyJoinsWorker, DestroyReturns, CallerPC
  <2>3. wpc' = wpc \/ NotifyAll
    BY <1>11
    DEF CallStep, RequestStopNotifies, RequestStopWorker, RequestStopReturns,
        JoinWorker, WaitForExitReturns, DestroyNotifies, DestroyMembers,
        DestroyStopsWorker, DestroyJoinsWorker, DestroyReturns, SignalStop
  <2>4. Waiting' \subseteq Waiting /\ Awake \subseteq Awake'
    BY <1>1, <2>3 DEF NotifyAll, Waiting, Awake
  <2>5. Notifying \subseteq Notifying'
    BY <1>1, <2>2 DEF Notifying
  <2> QED
    BY <1>2, <2>1, <2>4, <2>5, WakingIsHarmless
<1> QED
  BY <1>3, <1>4, <1>5, <1>6, <1>7, <1>8, <1>9, <1>10, <1>11
  DEF Next, WorkerStep, Call, SubmitRejects, Terminated

(* The invariant IInv holds in every reachable state, for any number of    *)
(* workers, callers and tasks and whether or not the pool is destroyed     *)
(* early.                                                                  *)
THEOREM IInvAlways == Spec => []IInv
<1>1. Init => IInv
  BY InitIInv
<1>2. IInv /\ [Next]_vars => IInv'
  BY TypeOKStep, FlagsStep, WorkersStep, DestructorAloneStep,
     NoTaskWaitsStep
  DEF IInv
<1> QED
  BY <1>1, <1>2, PTL DEF Spec

(* The types of Threadpool. *)
THEOREM TypeCorrect == Spec => []TypeOK
<1>1. IInv => TypeOK
  BY DEF IInv
<1> QED
  BY <1>1, IInvAlways, PTL

(* Tasks are popped in the order of submit, none twice and none skipped.   *)
THEOREM TasksStartInOrder == Spec => []StartsInOrder
<1>1. IInv => StartsInOrder
  BY DEF IInv
<1> QED
  BY <1>1, IInvAlways, PTL

(* No worker pops from an empty queue, although its wait may end because   *)
(* of the stop token alone.                                                *)
THEOREM QueueNeverUnderflows == Spec => []NoPopFromEmpty
<1>1. IInv => NoPopFromEmpty
  BY DEF IInv
<1> QED
  BY <1>1, IInvAlways, PTL

(* A worker that left its loop left nothing behind, even when the pool is  *)
(* destroyed under it.                                                     *)
THEOREM WorkersDrainTheQueue == Spec => []ExitsOnlyWhenDrained
<1>1. IInv => ExitsOnlyWhenDrained
  BY DEF IInv
<1> QED
  BY <1>1, IInvAlways, PTL

(* No wakeup is lost: while a worker sleeps, every task in the queue has a *)
(* worker of its own on the way to it, or a call of submit that has not    *)
(* notified yet.                                                           *)
THEOREM NoWakeupIsLost == Spec => []NoTaskWaitsForSleeper
<1>1. IInv => NoTaskWaitsForSleeper
  BY DEF IInv
<1> QED
  BY <1>1, IInvAlways, PTL

(* No worker sleeps through a shutdown once its notify_all was called.     *)
THEOREM ShutdownIsNoticed == Spec => []ShutdownWakesAll
<1>1. IInv => ShutdownWakesAll
  BY DEF IInv
<1> QED
  BY <1>1, IInvAlways, PTL

(* Every step of the pool is a step of the queue that TaskPool describes,  *)
(* or does not show in it: locks, wakeups, stop tokens, joins and the      *)
(* destructor are invisible.                                               *)
THEOREM PoolIsAQueue == Spec => Pool!Safety
<1> USE NumThreadsAssumption, TaskAssumption
<1>1. Init => Pool!Init
  BY DEF Init, Pool!Init
<1>2. ASSUME IInv, [Next]_vars PROVE [Pool!Next]_(Pool!vars)
  <2> USE DEF Pool!vars, callVars, history
  <2>1. CASE UNCHANGED vars
    BY <2>1 DEF vars
  <2>2. ASSUME NEW w \in Worker, WorkerTakes(w)
        PROVE  Pool!Start(w)
    <3>1. tasks # <<>>
      BY <1>2, <2>2, WorkerTakesATask
    <3> QED
      BY <1>2, <2>2, <3>1
      DEF WorkerTakes, Pool!Start, IInv, TaskOnlyWhileRunning
  <2>3. ASSUME NEW w \in Worker, TaskEnds(w)
        PROVE  Pool!Finish(w)
    BY <1>2, <2>3 DEF TaskEnds, Pool!Finish, IInv, NoPopFromEmpty
  <2>4. ASSUME NEW c \in Caller, NEW t \in Task, SubmitAccepts(c, t)
        PROVE  Pool!Accept(t)
    BY <2>4 DEF SubmitAccepts, Submitted, Pool!Accept
  <2>5. ASSUME NEW c \in Caller, RequestStop(c) \/ Destroy(c)
        PROVE  Pool!Close
    BY <2>5 DEF RequestStop, Destroy, Pool!Close
  <2>6. ASSUME NEW w \in Worker,
               \/ WorkerWaits(w) \/ SpuriousWakeup(w) \/ WorkerExits(w)
               \/ WorkerUsesDestroyed(w)
        PROVE  UNCHANGED Pool!vars
    BY <2>6
    DEF WorkerWaits, SpuriousWakeup, WorkerExits, WorkerUsesDestroyed
  <2>7. ASSUME NEW c \in Caller, CallStep(c)
        PROVE  UNCHANGED Pool!vars
    BY <2>7
    DEF CallStep, SubmitNotifies, RequestStopNotifies, RequestStopWorker,
        RequestStopReturns, JoinWorker, WaitForExitReturns, DestroyNotifies,
        DestroyMembers, DestroyStopsWorker, DestroyJoinsWorker,
        DestroyReturns
  <2>8. ASSUME NEW c \in Caller, WaitForExit(c)
        PROVE  UNCHANGED Pool!vars
    BY <2>8 DEF WaitForExit
  <2> HIDE DEF Pool!vars
  <2> QED
    BY <1>2, <2>1, <2>2, <2>3, <2>4, <2>5, <2>6, <2>7, <2>8
    DEF Next, WorkerStep, Call, SubmitRejects, Terminated, vars, Pool!Next
<1> QED
  BY <1>1, <1>2, IInvAlways, PTL DEF Spec, Pool!Safety
=============================================================================
