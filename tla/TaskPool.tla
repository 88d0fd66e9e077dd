------------------------------ MODULE TaskPool ------------------------------
(***************************************************************************)
(* What the thread pool promises to its clients, without threads, locks or *)
(* condition variables: a first-in first-out queue served by a fixed       *)
(* number of slots.  A task that was accepted is started once, in the      *)
(* order of acceptance, and finishes; closing the pool refuses new tasks   *)
(* and loses none of the accepted ones.  Threadpool implements it.         *)
(***************************************************************************)
EXTENDS Sequences

CONSTANTS
  Slot,     \* the places where a task can run
  Task,     \* the tasks that can be offered
  NoTask    \* what an unused slot holds

VARIABLES
  accepted,   \* every task accepted so far, oldest first
  queue,      \* the accepted tasks that were not started
  active,     \* the task in each slot
  finished,   \* the tasks that ended
  closed      \* whether new tasks are refused

vars == <<accepted, queue, active, finished, closed>>

Init ==
  /\ accepted = <<>>
  /\ queue = <<>>
  /\ active = [s \in Slot |-> NoTask]
  /\ finished = {}
  /\ closed = FALSE

Accept(t) ==
  /\ ~closed
  /\ \A i \in DOMAIN accepted : accepted[i] # t
  /\ accepted' = Append(accepted, t)
  /\ queue' = Append(queue, t)
  /\ UNCHANGED <<active, finished, closed>>

Start(s) ==
  /\ queue # <<>>
  /\ active[s] = NoTask
  /\ active' = [active EXCEPT ![s] = Head(queue)]
  /\ queue' = Tail(queue)
  /\ UNCHANGED <<accepted, finished, closed>>

Finish(s) ==
  /\ active[s] # NoTask
  /\ active' = [active EXCEPT ![s] = NoTask]
  /\ finished' = finished \cup {active[s]}
  /\ UNCHANGED <<accepted, queue, closed>>

Close ==
  /\ closed' = TRUE
  /\ UNCHANGED <<accepted, queue, active, finished>>

Next ==
  \/ \E t \in Task : Accept(t)
  \/ \E s \in Slot : Start(s) \/ Finish(s)
  \/ Close

TypeOK ==
  /\ accepted \in Seq(Task)
  /\ queue \in Seq(Task)
  /\ active \in [Slot -> Task \cup {NoTask}]
  /\ finished \subseteq Task
  /\ closed \in BOOLEAN

Safety == Init /\ [][Next]_vars

(* A queued task does not wait while a slot is free, and a task ends. *)
Fairness ==
  /\ WF_vars(\E s \in Slot : Start(s))
  /\ \A s \in Slot : WF_vars(Finish(s))

Spec == Safety /\ Fairness
=============================================================================
