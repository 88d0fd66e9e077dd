----------------------------- MODULE Threadpool -----------------------------
(***************************************************************************)
(* The thread pool of src/Threadpool.cpp: jthreads that share a queue      *)
(* under mtx_ and sleep on a condition_variable_any, callers of submit,    *)
(* request_stop and wait_for_exit, and the destructor.                     *)
(*                                                                         *)
(* tasks_ and shutdown_ are touched only under mtx_, so a critical section *)
(* is one action; what a method does after it unlocks (notify, the loops   *)
(* over workers_) is a step of its own, and any thread can run in between. *)
(* accepted, started and finished record what happened to each task.       *)
(***************************************************************************)
EXTENDS Integers, Sequences, FiniteSets

CONSTANTS
  NumThreads,    \* the size_t num_threads of the constructor
  Task,          \* the tasks submitted, each at most once
  NoTask,        \* a std::function that holds no task of ours
  Caller,        \* the threads that call the pool's methods
  EarlyDestroy   \* may the pool be destroyed with workers not joined?

ASSUME NumThreadsAssumption == NumThreads \in Nat
ASSUME TaskAssumption == NoTask \notin Task
ASSUME CallerAssumption == IsFiniteSet(Caller)
ASSUME EarlyDestroyAssumption == EarlyDestroy \in BOOLEAN

Worker == 1 .. NumThreads

VARIABLES
  tasks,           \* tasks_
  shutdown,        \* shutdown_
  stopRequested,   \* workers whose stop token was signalled
  joined,          \* workers that are no longer joinable
  wpc,             \* where each worker is in worker_loop
  current,         \* the local variable task of each worker
  cpc,             \* where each caller is in the method it called
  next,            \* the position of a caller's loop over workers_
  alive,           \* FALSE once cv_, mtx_ and tasks_ are destroyed
  accepted,        \* the tasks pushed, in order
  started,         \* the tasks popped, in order
  finished         \* the tasks whose call ended

callVars == <<cpc, next>>
history == <<accepted, started, finished>>
vars == <<tasks, shutdown, stopRequested, joined, wpc, current, callVars,
          alive, history>>

WorkerPC == {"loop", "waiting", "run", "exited", "crashed"}
CallerPC == {"idle", "notify", "stop_notify", "stop_workers", "join",
             "dtor_notify", "dtor_members", "dtor_stop", "dtor_join",
             "destroyed"}
DestructorPC == {"dtor_notify", "dtor_members", "dtor_stop", "dtor_join",
                 "destroyed"}

Waiting == {w \in Worker : wpc[w] = "waiting"}

Init ==
  /\ tasks = <<>>
  /\ shutdown = FALSE
  /\ stopRequested = {}
  /\ joined = {}
  /\ wpc = [w \in Worker |-> "loop"]
  /\ current = [w \in Worker |-> NoTask]
  /\ cpc = [c \in Caller |-> "idle"]
  /\ next = [c \in Caller |-> 1]
  /\ alive = TRUE
  /\ accepted = <<>>
  /\ started = <<>>
  /\ finished = {}

-----------------------------------------------------------------------------
(* The condition variable. *)

(* notify_one wakes one thread if any is blocked, and is lost otherwise. *)
NotifyOne ==
  IF Waiting = {}
  THEN UNCHANGED wpc
  ELSE \E w \in Waiting : wpc' = [wpc EXCEPT ![w] = "loop"]

NotifyAll ==
  wpc' = [w \in Worker |-> IF w \in Waiting THEN "loop" ELSE wpc[w]]

(* Mutant: the predicate of the wait looks at the queue only. *)
WaitReturnsForTask(w) == tasks # <<>>

(* cv_.wait(lock, stoken, pred) returns when pred holds or a stop was      *)
(* requested, whichever it finds first; the caller cannot tell which.      *)
WaitReturns(w) == shutdown \/ tasks # <<>> \/ w \in stopRequested

-----------------------------------------------------------------------------
(* worker_loop. *)

WorkerWaits(w) ==
  /\ alive
  /\ wpc[w] = "loop"
  /\ ~WaitReturns(w)
  /\ wpc' = [wpc EXCEPT ![w] = "waiting"]
  /\ UNCHANGED <<tasks, shutdown, stopRequested, joined, current, callVars,
                 alive, history>>

SpuriousWakeup(w) ==
  /\ wpc[w] = "waiting"
  /\ wpc' = [wpc EXCEPT ![w] = "loop"]
  /\ UNCHANGED <<tasks, shutdown, stopRequested, joined, current, callVars,
                 alive, history>>

(* Mutant: a worker leaves as soon as the pool is shut down. *)
WorkerExitsAtOnce(w) ==
  /\ alive
  /\ wpc[w] = "loop"
  /\ WaitReturns(w)
  /\ shutdown
  /\ wpc' = [wpc EXCEPT ![w] = "exited"]
  /\ UNCHANGED <<tasks, shutdown, stopRequested, joined, current, callVars,
                 alive, history>>

WorkerExits(w) ==
  /\ alive
  /\ wpc[w] = "loop"
  /\ WaitReturns(w)
  /\ shutdown /\ tasks = <<>>
  /\ wpc' = [wpc EXCEPT ![w] = "exited"]
  /\ UNCHANGED <<tasks, shutdown, stopRequested, joined, current, callVars,
                 alive, history>>

(* Mutant: front without pop. *)
WorkerCopies(w) ==
  /\ alive
  /\ wpc[w] = "loop"
  /\ tasks # <<>>
  /\ wpc' = [wpc EXCEPT ![w] = "run"]
  /\ current' = [current EXCEPT ![w] = Head(tasks)]
  /\ started' = Append(started, Head(tasks))
  /\ UNCHANGED <<tasks, shutdown, stopRequested, joined, callVars, alive,
                 accepted, finished>>

(* front() and pop() of an empty queue are undefined: such a worker runs   *)
(* with NoTask.                                                            *)
WorkerTakes(w) ==
  /\ alive
  /\ wpc[w] = "loop"
  /\ WaitReturns(w)
  /\ ~(shutdown /\ tasks = <<>>)
  /\ wpc' = [wpc EXCEPT ![w] = "run"]
  /\ IF tasks = <<>>
     THEN UNCHANGED <<tasks, current, started>>
     ELSE /\ current' = [current EXCEPT ![w] = Head(tasks)]
          /\ tasks' = Tail(tasks)
          /\ started' = Append(started, Head(tasks))
  /\ UNCHANGED <<shutdown, stopRequested, joined, callVars, alive, accepted,
                 finished>>

(* task() returns, or throws into one of the two catch clauses. *)
TaskEnds(w) ==
  /\ wpc[w] = "run"
  /\ wpc' = [wpc EXCEPT ![w] = "loop"]
  /\ current' = [current EXCEPT ![w] = NoTask]
  /\ finished' = finished \cup {current[w]}
  /\ UNCHANGED <<tasks, shutdown, stopRequested, joined, callVars, alive,
                 accepted, started>>

(* A worker that reaches the loop after cv_, mtx_ and tasks_ are destroyed *)
(* locks dead storage.  The old bytes may still say "shut down and empty", *)
(* and if tasks were left in the queue it moves from freed memory.         *)
WorkerUsesDestroyed(w) ==
  /\ ~alive
  /\ wpc[w] = "loop"
  /\ \/ tasks = <<>> /\ wpc' = [wpc EXCEPT ![w] = "exited"]
     \/ wpc' = [wpc EXCEPT ![w] = "crashed"]
  /\ UNCHANGED <<tasks, shutdown, stopRequested, joined, current, callVars,
                 alive, history>>

-----------------------------------------------------------------------------
(* submit. *)

Submitted(t) == \E i \in DOMAIN accepted : accepted[i] = t

(* No method may be called once the destructor has begun. *)
Callable(c) ==
  /\ cpc[c] = "idle"
  /\ \A d \in Caller : cpc[d] \notin DestructorPC

(* Mutant: submit does not look at shutdown_. *)
SubmitAlwaysAccepts(c, t) ==
  /\ Callable(c)
  /\ ~Submitted(t)
  /\ tasks' = Append(tasks, t)
  /\ accepted' = Append(accepted, t)
  /\ cpc' = [cpc EXCEPT ![c] = "notify"]
  /\ UNCHANGED <<shutdown, stopRequested, joined, wpc, current, next, alive,
                 started, finished>>

SubmitAccepts(c, t) ==
  /\ Callable(c)
  /\ ~Submitted(t)
  /\ ~shutdown
  /\ tasks' = Append(tasks, t)
  /\ accepted' = Append(accepted, t)
  /\ cpc' = [cpc EXCEPT ![c] = "notify"]
  /\ UNCHANGED <<shutdown, stopRequested, joined, wpc, current, next, alive,
                 started, finished>>

(* Mutant: submit notifies only if it sees a queue that was empty. *)
SubmitNotifiesFirst(c) ==
  /\ cpc[c] = "notify"
  /\ IF Len(tasks) = 1 THEN NotifyOne ELSE UNCHANGED wpc
  /\ cpc' = [cpc EXCEPT ![c] = "idle"]
  /\ UNCHANGED <<tasks, shutdown, stopRequested, joined, current, next,
                 alive, history>>

SubmitNotifies(c) ==
  /\ cpc[c] = "notify"
  /\ NotifyOne
  /\ cpc' = [cpc EXCEPT ![c] = "idle"]
  /\ UNCHANGED <<tasks, shutdown, stopRequested, joined, current, next,
                 alive, history>>

(* submit on a pool that is shut down logs, drops the task and returns. *)
SubmitRejects(c, t) ==
  /\ Callable(c)
  /\ ~Submitted(t)
  /\ shutdown
  /\ UNCHANGED vars

-----------------------------------------------------------------------------
(* request_stop. *)

(* Mutant: the flag is left to the destructor. *)
RequestStopWithoutFlag(c) ==
  /\ Callable(c)
  /\ cpc' = [cpc EXCEPT ![c] = "stop_notify"]
  /\ UNCHANGED <<tasks, shutdown, stopRequested, joined, wpc, current, next,
                 alive, history>>

RequestStop(c) ==
  /\ Callable(c)
  /\ shutdown' = TRUE
  /\ cpc' = [cpc EXCEPT ![c] = "stop_notify"]
  /\ UNCHANGED <<tasks, stopRequested, joined, wpc, current, next, alive,
                 history>>

(* Mutant: notify_one in the place of notify_all. *)
RequestStopNotifiesOne(c) ==
  /\ cpc[c] = "stop_notify"
  /\ NotifyOne
  /\ cpc' = [cpc EXCEPT ![c] = "stop_workers"]
  /\ next' = [next EXCEPT ![c] = 1]
  /\ UNCHANGED <<tasks, shutdown, stopRequested, joined, current, alive,
                 history>>

RequestStopNotifies(c) ==
  /\ cpc[c] = "stop_notify"
  /\ NotifyAll
  /\ cpc' = [cpc EXCEPT ![c] = "stop_workers"]
  /\ next' = [next EXCEPT ![c] = 1]
  /\ UNCHANGED <<tasks, shutdown, stopRequested, joined, current, alive,
                 history>>

(* Signalling a worker that sleeps runs the stop callback registered by    *)
(* its wait, which notifies everybody.                                     *)
SignalStop(w) ==
  /\ stopRequested' = stopRequested \cup {w}
  /\ IF w \in Waiting THEN NotifyAll ELSE UNCHANGED wpc

RequestStopWorker(c) ==
  /\ cpc[c] = "stop_workers"
  /\ next[c] \in Worker
  /\ IF next[c] \in joined
     THEN UNCHANGED <<stopRequested, wpc>>
     ELSE SignalStop(next[c])
  /\ next' = [next EXCEPT ![c] = @ + 1]
  /\ UNCHANGED <<tasks, shutdown, joined, current, cpc, alive, history>>

RequestStopReturns(c) ==
  /\ cpc[c] = "stop_workers"
  /\ next[c] \notin Worker
  /\ cpc' = [cpc EXCEPT ![c] = "idle"]
  /\ UNCHANGED <<tasks, shutdown, stopRequested, joined, wpc, current, next,
                 alive, history>>

-----------------------------------------------------------------------------
(* wait_for_exit.  Two threads may not join the same jthread; the only     *)
(* caller, WebServer::wait_for_exit, holds WebServer::mtx around the call. *)

WaitForExit(c) ==
  /\ Callable(c)
  /\ \A d \in Caller : cpc[d] # "join"
  /\ cpc' = [cpc EXCEPT ![c] = "join"]
  /\ next' = [next EXCEPT ![c] = 1]
  /\ UNCHANGED <<tasks, shutdown, stopRequested, joined, wpc, current, alive,
                 history>>

(* Mutant: detach in the place of join. *)
JoinWorkerDetaches(c) ==
  /\ cpc[c] = "join"
  /\ next[c] \in Worker
  /\ joined' = joined \cup {next[c]}
  /\ next' = [next EXCEPT ![c] = @ + 1]
  /\ UNCHANGED <<tasks, shutdown, stopRequested, wpc, current, cpc, alive,
                 history>>

JoinWorker(c) ==
  /\ cpc[c] = "join"
  /\ next[c] \in Worker
  /\ next[c] \in joined \/ wpc[next[c]] = "exited"
  /\ joined' = joined \cup {next[c]}
  /\ next' = [next EXCEPT ![c] = @ + 1]
  /\ UNCHANGED <<tasks, shutdown, stopRequested, wpc, current, cpc, alive,
                 history>>

WaitForExitReturns(c) ==
  /\ cpc[c] = "join"
  /\ next[c] \notin Worker
  /\ cpc' = [cpc EXCEPT ![c] = "idle"]
  /\ UNCHANGED <<tasks, shutdown, stopRequested, joined, wpc, current, next,
                 alive, history>>

-----------------------------------------------------------------------------
(* ~Threadpool: the body sets shutdown_ and notifies; then the members go  *)
(* in reverse order of declaration, cv_, mtx_ and tasks_ before workers_,  *)
(* whose jthreads stop and join their threads one after the other.         *)

Destroy(c) ==
  /\ \A d \in Caller : cpc[d] = "idle"
  /\ cpc[c] = "idle"
  /\ EarlyDestroy \/ joined = Worker
  /\ shutdown' = TRUE
  /\ cpc' = [cpc EXCEPT ![c] = "dtor_notify"]
  /\ UNCHANGED <<tasks, stopRequested, joined, wpc, current, next, alive,
                 history>>

DestroyNotifies(c) ==
  /\ cpc[c] = "dtor_notify"
  /\ NotifyAll
  /\ cpc' = [cpc EXCEPT ![c] = "dtor_members"]
  /\ UNCHANGED <<tasks, shutdown, stopRequested, joined, current, next,
                 alive, history>>

DestroyMembers(c) ==
  /\ cpc[c] = "dtor_members"
  /\ alive' = FALSE
  /\ cpc' = [cpc EXCEPT ![c] = "dtor_stop"]
  /\ next' = [next EXCEPT ![c] = 1]
  /\ UNCHANGED <<tasks, shutdown, stopRequested, joined, wpc, current,
                 history>>

(* ~jthread of the next worker: request_stop, then join, if joinable. *)
DestroyStopsWorker(c) ==
  /\ cpc[c] = "dtor_stop"
  /\ next[c] \in Worker
  /\ IF next[c] \in joined
     THEN UNCHANGED <<stopRequested, wpc>>
     ELSE SignalStop(next[c])
  /\ cpc' = [cpc EXCEPT ![c] = "dtor_join"]
  /\ UNCHANGED <<tasks, shutdown, joined, current, next, alive, history>>

DestroyJoinsWorker(c) ==
  /\ cpc[c] = "dtor_join"
  /\ next[c] \in joined \/ wpc[next[c]] = "exited"
  /\ joined' = joined \cup {next[c]}
  /\ next' = [next EXCEPT ![c] = @ + 1]
  /\ cpc' = [cpc EXCEPT ![c] = "dtor_stop"]
  /\ UNCHANGED <<tasks, shutdown, stopRequested, wpc, current, alive,
                 history>>

DestroyReturns(c) ==
  /\ cpc[c] = "dtor_stop"
  /\ next[c] \notin Worker
  /\ cpc' = [cpc EXCEPT ![c] = "destroyed"]
  /\ UNCHANGED <<tasks, shutdown, stopRequested, joined, wpc, current, next,
                 alive, history>>

-----------------------------------------------------------------------------
WorkerStep(w) ==
  \/ WorkerWaits(w)
  \/ WorkerExits(w)
  \/ WorkerTakes(w)
  \/ TaskEnds(w)
  \/ WorkerUsesDestroyed(w)

(* The steps of a method that was called and has not returned. *)
CallStep(c) ==
  \/ SubmitNotifies(c)
  \/ RequestStopNotifies(c)
  \/ RequestStopWorker(c)
  \/ RequestStopReturns(c)
  \/ JoinWorker(c)
  \/ WaitForExitReturns(c)
  \/ DestroyNotifies(c)
  \/ DestroyMembers(c)
  \/ DestroyStopsWorker(c)
  \/ DestroyJoinsWorker(c)
  \/ DestroyReturns(c)

Call(c) ==
  \/ \E t \in Task : SubmitAccepts(c, t) \/ SubmitRejects(c, t)
  \/ RequestStop(c)
  \/ WaitForExit(c)
  \/ Destroy(c)

Crashed == \E w \in Worker : wpc[w] = "crashed"

(* The pool is gone, or the process is; nothing is left to run. *)
Terminated ==
  /\ Crashed \/ \E c \in Caller : cpc[c] = "destroyed"
  /\ UNCHANGED vars

Next ==
  \/ \E w \in Worker : ~Crashed /\ (WorkerStep(w) \/ SpuriousWakeup(w))
  \/ \E c \in Caller : ~Crashed /\ (CallStep(c) \/ Call(c))
  \/ Terminated

Spec == Init /\ [][Next]_vars

(* A thread that can run does run, and a submitted task returns: nothing   *)
(* is assumed of spurious wakeups or of new calls.                         *)
Fairness ==
  /\ \A w \in Worker : WF_vars(~Crashed /\ WorkerStep(w))
  /\ \A c \in Caller : WF_vars(~Crashed /\ CallStep(c))

FairSpec == Spec /\ Fairness

-----------------------------------------------------------------------------
(* Properties. *)

(* Each variable has its type.  NoTask among finished would be a call of a *)
(* std::function popped from an empty queue.                               *)
TypeOK ==
  /\ tasks \in Seq(Task)
  /\ shutdown \in BOOLEAN
  /\ stopRequested \subseteq Worker
  /\ joined \subseteq Worker
  /\ wpc \in [Worker -> WorkerPC]
  /\ current \in [Worker -> Task \cup {NoTask}]
  /\ cpc \in [Caller -> CallerPC]
  /\ next \in [Caller -> 1 .. NumThreads + 1]
  /\ alive \in BOOLEAN
  /\ accepted \in Seq(Task)
  /\ started \in Seq(Task)
  /\ finished \subseteq Task

(* Tasks are popped in the order they were pushed, none is skipped and     *)
(* none is popped twice (push at the back, front and pop under one lock).  *)
StartsInOrder == accepted = started \o tasks

(* A worker never pops from an empty queue although wait may return        *)
(* because of the stop token alone, without its predicate: request_stop    *)
(* and the destructor set shutdown_ before they signal any worker.         *)
NoPopFromEmpty == \A w \in Worker : wpc[w] = "run" => current[w] \in Task

(* A worker leaves its loop only when the pool is shut down and drained,   *)
(* however its tasks end; so an accepted task is never left behind.        *)
ExitsOnlyWhenDrained ==
  (\E w \in Worker : wpc[w] = "exited") => shutdown /\ tasks = <<>>

(* Workers on their way to the queue, callers on their way to notify_one.  *)
Awake == {w \in Worker : wpc[w] = "loop"}
Notifying == {c \in Caller : cpc[c] = "notify"}

(* While a worker sleeps, every queued task has an awake worker or a       *)
(* notification of its own on the way: notify_one is called after the lock *)
(* is released and may reach a worker that is not needed any more, but no  *)
(* wakeup is lost.                                                         *)
NoTaskWaitsForSleeper ==
  Waiting # {} => Len(tasks) <= Cardinality(Awake) + Cardinality(Notifying)

(* After shutdown_ is set a worker sleeps only until the notify_all of the *)
(* thread that set it.                                                     *)
ShutdownWakesAll ==
  shutdown /\ Waiting # {} =>
    \E c \in Caller : cpc[c] \in {"stop_notify", "dtor_notify"}

(* When cv_, mtx_ and tasks_ are destroyed every worker has left its loop: *)
(* any other would lock mtx_ in its next step.  A program that destroys a  *)
(* pool, as the tests of on_http do, relies on it; it fails if a worker    *)
(* was not joined before the destructor.                                   *)
NoUseAfterDestroy == ~alive => \A w \in Worker : wpc[w] = "exited"

(* The inductive invariant.  Its first parts say where the flags come from *)
(* and are what the properties above rest on: a worker is signalled, and   *)
(* the members are destroyed, only after shutdown_ was set; a joined       *)
(* worker has left its loop; and the destructor runs alone, so no flag or  *)
(* task changes between its notify_all and the end of the members.         *)
Stopping(c) == cpc[c] \in {"stop_notify", "stop_workers"} \cup DestructorPC

StopAfterShutdown ==
  /\ stopRequested # {} \/ ~alive => shutdown
  /\ \A c \in Caller : Stopping(c) => shutdown
  /\ \A c \in Caller : cpc[c] = "dtor_join" => next[c] \in Worker

TaskOnlyWhileRunning ==
  \A w \in Worker : wpc[w] # "run" => current[w] = NoTask

JoinedAreExited == \A w \in joined : wpc[w] = "exited"

DestructorAlone ==
  /\ \A c, d \in Caller : cpc[c] \in DestructorPC /\ d # c => cpc[d] = "idle"
  /\ ~alive =>
       \E c \in Caller : cpc[c] \in {"dtor_stop", "dtor_join", "destroyed"}

IInv ==
  /\ TypeOK
  /\ StartsInOrder
  /\ NoPopFromEmpty
  /\ ExitsOnlyWhenDrained
  /\ NoTaskWaitsForSleeper
  /\ ShutdownWakesAll
  /\ StopAfterShutdown
  /\ TaskOnlyWhileRunning
  /\ JoinedAreExited
  /\ DestructorAlone

(* Once the pool is shut down, wait_for_exit and the destructor return:    *)
(* no worker sleeps through the shutdown.                                  *)
JoinersReturn ==
  \A c \in Caller : shutdown /\ cpc[c] # "idle" ~>
                      cpc[c] \in {"idle", "destroyed"} \/ Crashed

(* The pool implements the queue of TaskPool: its steps at any time, and   *)
(* its fairness unless a worker crashed over a destroyed member.           *)
Pool == INSTANCE TaskPool WITH
          Slot <- Worker, queue <- tasks, active <- current,
          closed <- shutdown
ImplementsTaskPool == Pool!Safety /\ ([]~Crashed => Pool!Fairness)
=============================================================================
