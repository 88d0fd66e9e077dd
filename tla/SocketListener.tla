--------------------------- MODULE SocketListener ---------------------------
(***************************************************************************)
(* The operations of src/SocketListener.cpp: a loop over epoll_wait that   *)
(* calls back for each ready descriptor.  The module that uses a listener  *)
(* (WSApplication) says which descriptors are open and readable and what   *)
(* the callback does.                                                      *)
(***************************************************************************)
EXTENDS Integers, Sequences

CONSTANTS
  Fd,          \* descriptor numbers
  MaxEvents    \* parameters_.max_events

VARIABLES
  interest,    \* the descriptors registered with epoll_fd_
  running,     \* running_
  lpc,         \* where the listener thread is in run
  lfd,         \* the descriptor it calls back for
  batch        \* the part of events_ it has not dispatched

listenerVars == <<interest, running, lpc, lfd, batch>>

NoFd == 0

ListenerTypeOK ==
  /\ interest \subseteq Fd
  /\ running \in BOOLEAN
  /\ lpc \in {"off", "start", "test", "wait", "dispatch", "callback",
              "exited", "terminated"}
  /\ lfd \in Fd \cup {NoFd}
  /\ batch \in Seq(Fd)

ListenerInit ==
  /\ interest = {}
  /\ running = FALSE
  /\ lpc = "off"
  /\ lfd = NoFd
  /\ batch = <<>>

(* A thread is created to execute run. *)
CreateThread ==
  /\ lpc = "off"
  /\ lpc' = "start"
  /\ UNCHANGED <<interest, running, lfd, batch>>

(* The first statement of run. *)
SetRunning ==
  /\ lpc = "start"
  /\ running' = TRUE
  /\ lpc' = "test"
  /\ UNCHANGED <<interest, lfd, batch>>

(* Mutant: while (true). *)
TestNothing ==
  /\ lpc = "test"
  /\ lpc' = "wait"
  /\ UNCHANGED <<interest, running, lfd, batch>>

TestRunning ==
  /\ lpc = "test"
  /\ lpc' = IF running THEN "wait" ELSE "exited"
  /\ UNCHANGED <<interest, running, lfd, batch>>

(* epoll_wait reports as many ready descriptors as fit in events_, each    *)
(* once, in an order of the kernel's choice.                               *)
Batches(ready) ==
  UNION {{b \in [1 .. n -> ready] :
            /\ \A i, j \in 1 .. n : b[i] = b[j] => i = j
            /\ n = MaxEvents \/ ready = {b[i] : i \in 1 .. n}} :
         n \in 0 .. MaxEvents}

EpollReturns(readable) ==
  /\ lpc = "wait"
  /\ interest \cap readable # {}
  /\ batch' \in Batches(interest \cap readable)
  /\ lpc' = "dispatch"
  /\ UNCHANGED <<interest, running, lfd>>

(* The timeout expires, or a signal interrupts the wait. *)
EpollReturnsNothing ==
  /\ lpc = "wait"
  /\ lpc' = "test"
  /\ UNCHANGED <<interest, running, lfd, batch>>

(* epoll_wait fails otherwise.  Nothing catches what run throws, in a      *)
(* thread of its own: std::terminate ends the program.                     *)
EpollFails ==
  /\ lpc = "wait"
  /\ lpc' = "terminated"
  /\ UNCHANGED <<interest, running, lfd, batch>>

(* Mutant: the loop over events_ begins at 1. *)
DispatchFromSecond ==
  /\ lpc = "dispatch"
  /\ batch' = <<>>
  /\ IF Len(batch) < 2
     THEN lpc' = "test" /\ UNCHANGED lfd
     ELSE lpc' = "callback" /\ lfd' = batch[2]
  /\ UNCHANGED <<interest, running>>

Dispatch ==
  /\ lpc = "dispatch"
  /\ IF batch = <<>>
     THEN lpc' = "test" /\ UNCHANGED <<lfd, batch>>
     ELSE /\ lpc' = "callback"
          /\ lfd' = Head(batch)
          /\ batch' = Tail(batch)
  /\ UNCHANGED <<interest, running>>

CallbackReturns ==
  /\ lpc = "callback"
  /\ lpc' = "dispatch"
  /\ lfd' = NoFd

(* fcntl refuses a descriptor that is not open, epoll_ctl one that is      *)
(* registered; both make add_socket throw.  It may also throw for want of  *)
(* memory or of watches (max_user_watches), before anything is registered. *)
AddAccepted(f, open) == f \in open /\ f \notin interest

AddSocket(f) ==
  /\ interest' = interest \cup {f}
  /\ UNCHANGED <<running, lpc, lfd, batch>>

(* The result of epoll_ctl is ignored. *)
RemoveSocket(f) ==
  /\ interest' = interest \ {f}
  /\ UNCHANGED <<running, lpc, lfd, batch>>

Stop ==
  /\ running' = FALSE
  /\ UNCHANGED <<interest, lpc, lfd, batch>>
=============================================================================
