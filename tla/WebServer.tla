----------------------------- MODULE WebServer -----------------------------
(***************************************************************************)
(* The life of a server (src/WebServer.cpp): the acceptor thread, the      *)
(* workers of the pool running on_http, threads that call request_stop and *)
(* wait_for_exit, and the destructor.                                      *)
(*                                                                         *)
(* The pool is TaskPool, which Threadpool implements; its tasks are the    *)
(* accepted connections.  A connection stands for its file descriptor: it  *)
(* is held by the acceptor, by the queue or by the worker that serves it,  *)
(* and whoever holds it has to close it or to hand it to ws_app_ (what     *)
(* happens to it there, and the reuse of descriptor numbers, is in         *)
(* WSApplication).                                                         *)
(***************************************************************************)
EXTENDS Integers, Sequences, FiniteSets

CONSTANTS
  NumThreads,      \* parameters.num_threads
  Client,          \* the connections that peers open, each once
  NoClient,        \* no connection
  Caller,          \* threads of the program outside the pool
  NoThread,        \* the owner of mtx when it is free
  Silent,          \* clients that connect and then never send or hang up
  Deaf,            \* clients that may stay and never read an answer
  StopInHandler    \* may a route handler call request_stop?

ASSUME ServerAssumption ==
  /\ NumThreads \in Nat
  /\ NoClient \notin Client
  /\ NoThread \notin Caller \cup (1 .. NumThreads)
  /\ Silent \subseteq Client /\ Deaf \subseteq Client
  /\ StopInHandler \in BOOLEAN

Slot == 1 .. NumThreads
Thread == Caller \cup Slot

VARIABLES
  (* the pool *)
  accepted, queue, active, finished, closed,
  left,            \* workers that left worker_loop
  joined,          \* workers joined by thread_pool_.wait_for_exit or ~jthread
  (* the server *)
  tokenStopped,    \* stop_source.stop_requested()
  shutdownFlag,    \* shutdown_flag
  mtx,             \* the owner of mtx while it joins the pool
  serverFd,        \* the listening socket: "none", "listening", ...
  wsStopped,       \* ws_app_.stop() was called
  apc,             \* where the acceptor is in main_thread_acceptor
  clientFd,        \* its local variable client_fd
  hpc,             \* where each worker is in on_http
  cpc,             \* where each thread is in request_stop, wait_for_exit
  stopping,        \* the threads whose wait_for_exit is in request_stop
  next,            \* the position of the loop over the workers to join
  stopped,         \* a request_stop has returned
  server,          \* "new", "up", "closing", "members", "gone"; "crashed"
  (* the connections *)
  fd,              \* the descriptor of each connection
  peer             \* what the client did

poolVars == <<accepted, queue, active, finished, closed>>
flagVars == <<tokenStopped, shutdownFlag, wsStopped, stopped>>
callVars == <<mtx, joined, cpc, stopping, next>>
acceptorVars == <<apc, clientFd>>
vars == <<poolVars, flagVars, callVars, server, serverFd, acceptorVars, hpc,
          left, fd, peer>>

Pool == INSTANCE TaskPool WITH Task <- Client, NoTask <- NoClient

HandlerPC == {"idle", "read", "route", "write", "full", "upgrade"}
StopPC == {"flag", "notify", "pool", "ws", "shut", "close"}
WaitPC == {"lock", "waiting", "join"}

Init ==
  /\ Pool!Init
  /\ left = {} /\ joined = {}
  /\ tokenStopped = FALSE /\ shutdownFlag = FALSE
  /\ wsStopped = FALSE /\ stopped = FALSE
  /\ mtx = NoThread
  /\ server = "new"
  /\ serverFd = "none"
  /\ apc = "off"
  /\ clientFd = NoClient
  /\ hpc = [s \in Slot |-> "idle"]
  /\ cpc = [t \in Thread |-> "idle"]
  /\ stopping = {}
  /\ next = [t \in Thread |-> 1]
  /\ fd = [k \in Client |-> "none"]
  /\ peer = [k \in Client |-> "idle"]

-----------------------------------------------------------------------------
(* The program constructs the server, runs it, and destroys it.            *)

(* The workers run before listen is called.  When one of its four calls    *)
(* fails the constructor throws, and the members are destroyed.            *)
Construct ==
  /\ server = "new"
  /\ \/ /\ server' = "up" /\ serverFd' = "listening"
        /\ UNCHANGED poolVars
     \/ /\ server' = "closing" /\ serverFd' = "closed"
        /\ Pool!Close
  /\ UNCHANGED <<joined, tokenStopped, apc>>

(* run is called once, before any stop. *)
Run ==
  /\ server = "up"
  /\ apc = "off" /\ ~tokenStopped
  /\ apc' = "loop"
  /\ UNCHANGED <<poolVars, joined, tokenStopped, server, serverFd>>

(* ~WebServer, after a request_stop that returned or without run: ws_app_, *)
(* cv and mtx go, and ~Threadpool sets shutdown_ and notifies; ...         *)
DestroyMembers ==
  /\ server = "up"
  /\ stopped \/ apc = "off"
  /\ \A t \in Thread : cpc[t] = "idle"
  /\ server' = "closing"
  /\ Pool!Close
  /\ UNCHANGED <<joined, tokenStopped, apc, serverFd>>

(* ... then the pool's cv_, mtx_ and tasks_ go, whoever uses them; ...     *)
DestroyPoolMembers ==
  /\ server = "closing"
  /\ server' = "members"
  /\ UNCHANGED <<poolVars, joined, tokenStopped, apc, serverFd>>

(* ... then its jthreads, each joined unless it was; ...                   *)
DestroyJoinsWorker ==
  /\ server = "members"
  /\ \E s \in left \ joined :
       /\ \A r \in Slot : r < s => r \in joined
       /\ joined' = joined \cup {s}
  /\ UNCHANGED <<poolVars, tokenStopped, apc, server, serverFd>>

(* ... and last server_thread, whose jthread stops and joins the acceptor. *)
DestroyJoinsAcceptor ==
  /\ server = "members" /\ joined = Slot
  /\ apc \in {"off", "exited"}
  /\ server' = "gone"
  /\ UNCHANGED <<poolVars, joined, tokenStopped, apc, serverFd>>

LifeStep ==
  /\ \/ Construct \/ Run \/ DestroyMembers \/ DestroyPoolMembers
     \/ DestroyJoinsWorker \/ DestroyJoinsAcceptor
  /\ UNCHANGED <<shutdownFlag, wsStopped, stopped, mtx, cpc, stopping, next,
                 clientFd, hpc, left, fd, peer>>

-----------------------------------------------------------------------------
(* The clients: one request each, in one piece. *)

Connect(k) ==
  /\ fd[k] = "none"
  /\ serverFd = "listening"
  /\ fd' = [fd EXCEPT ![k] = "backlog"]
  /\ UNCHANGED peer

(* A client sends, or goes away so that read returns 0 or an error. *)
SendOrHangUp(k) ==
  /\ k \notin Silent
  /\ fd[k] \in {"backlog", "open"}
  /\ peer[k] = "idle"
  /\ \E did \in {"sent", "gone"} : peer' = [peer EXCEPT ![k] = did]
  /\ UNCHANGED fd

ClientStep(step) ==
  step /\ UNCHANGED <<poolVars, flagVars, callVars, server, serverFd,
                      acceptorVars, hpc, left>>

-----------------------------------------------------------------------------
(* main_thread_acceptor. *)

(* Mutant: while (true). *)
StopNeverRequested == FALSE
StopRequested == tokenStopped

AcceptorLoops ==
  /\ apc = "loop"
  /\ apc' = IF StopRequested THEN "exited" ELSE "accept"
  /\ UNCHANGED <<poolVars, clientFd, fd>>

Accept(k) ==
  /\ apc = "accept"
  /\ serverFd = "listening" /\ fd[k] = "backlog"
  /\ fd' = [fd EXCEPT ![k] = "open"]
  /\ clientFd' = k
  /\ apc' = "check"
  /\ UNCHANGED poolVars

(* Mutant: the result of accept is not checked. *)
AfterAcceptUnchecked == "check"
AfterAcceptFailed == "loop"

(* accept fails for good on a socket that was shut down or closed, and now *)
(* and then for want of descriptors or an aborted connection.              *)
AcceptFails(forGood) ==
  /\ apc = "accept"
  /\ serverFd # "listening" <=> forGood
  /\ apc' = AfterAcceptFailed
  /\ UNCHANGED <<poolVars, clientFd, fd>>

(* Mutant: the acceptor looks at its token and forgets the descriptor. *)
AcceptorChecksToken ==
  /\ apc = "check"
  /\ apc' = IF tokenStopped THEN "exited" ELSE "submit"
  /\ clientFd' = IF tokenStopped THEN NoClient ELSE clientFd
  /\ UNCHANGED <<poolVars, fd>>

AcceptorChecks ==
  /\ apc = "check"
  /\ mtx = NoThread
  /\ IF shutdownFlag
     THEN /\ fd' = [fd EXCEPT ![clientFd] = "closed"]
          /\ clientFd' = NoClient
          /\ apc' = "exited"
     ELSE apc' = "submit" /\ UNCHANGED <<fd, clientFd>>
  /\ UNCHANGED poolVars

(* Mutant: the acceptor closes its copy of the descriptor. *)
SubmittedAndClosed == [fd EXCEPT ![clientFd] = "closed"]
Submitted == fd

(* The pool drops the task if it was closed after the check; the task held *)
(* the only copy of client_fd.                                             *)
AcceptorSubmits ==
  /\ apc = "submit"
  /\ Pool!Accept(clientFd) \/ (closed /\ UNCHANGED poolVars)
  /\ fd' = Submitted
  /\ clientFd' = NoClient
  /\ apc' = "loop"

AcceptorFrame ==
  UNCHANGED <<flagVars, callVars, server, serverFd, hpc, left, peer>>

AcceptorStep ==
  /\ \/ AcceptorLoops \/ (\E k \in Client : Accept(k)) \/ AcceptFails(TRUE)
     \/ AcceptorChecks \/ AcceptorSubmits
  /\ AcceptorFrame

-----------------------------------------------------------------------------
(* on_http, run by a worker. *)

WorkerTakes(s) ==
  /\ Pool!Start(s)
  /\ hpc' = [hpc EXCEPT ![s] = "read"]
  /\ UNCHANGED fd

(* on_http returns, leaving the descriptor in some state. *)
Returns(s, state) ==
  /\ Pool!Finish(s)
  /\ hpc' = [hpc EXCEPT ![s] = "idle"]
  /\ fd' = [fd EXCEPT ![active[s]] = state]

(* read blocks until the client did something.  The request has a route,   *)
(* or is an upgrade, or has an unknown method, for which a 404 is written. *)
ReadRequest(s) ==
  /\ hpc[s] = "read"
  /\ peer[active[s]] = "sent"
  /\ \E where \in {"route", "upgrade", "write"} :
       hpc' = [hpc EXCEPT ![s] = where]
  /\ UNCHANGED <<poolVars, fd>>

(* bytes_read <= 0: on_http returns and leaves client_fd open. *)
ReadFails(s) ==
  /\ hpc[s] = "read" /\ peer[active[s]] = "gone"
  /\ Returns(s, "open")

(* The handler of the route returns, or there is none. *)
Responds(s) ==
  /\ hpc[s] = "route" /\ cpc[s] = "idle"
  /\ hpc' = [hpc EXCEPT ![s] = "write"]
  /\ UNCHANGED <<poolVars, fd>>

(* write returns when the answer fits into the buffers of the connection,  *)
(* and then the descriptor is closed; or the buffers are full, and stay so *)
(* while the client does not read.                                         *)
WritesAnswer(s) ==
  /\ hpc[s] = "write"
  /\ \/ Returns(s, "closed")
     \/ /\ active[s] \in Deaf
        /\ hpc' = [hpc EXCEPT ![s] = "full"]
        /\ UNCHANGED <<poolVars, fd>>

(* The pool catches what a handler throws; nobody closes client_fd. *)
HandlerThrows(s) ==
  /\ hpc[s] = "route" /\ cpc[s] = "idle"
  /\ Returns(s, "open")

(* add_connection takes the descriptor over, or closes it when it throws   *)
(* because of a duplicate id.                                              *)
Upgrades(s) ==
  /\ hpc[s] = "upgrade"
  /\ \E to \in {"websocket", "closed"} : Returns(s, to)

HandlerStep(s) ==
  /\ \/ WorkerTakes(s) \/ ReadRequest(s) \/ ReadFails(s)
     \/ Responds(s) \/ WritesAnswer(s) \/ HandlerThrows(s) \/ Upgrades(s)
  /\ UNCHANGED <<flagVars, callVars, server, serverFd, acceptorVars, left,
                 peer>>

(* A worker of TaskPool has nothing to do any more. *)
Done(s) == closed /\ queue = <<>> /\ active[s] = NoClient

(* It finds that in worker_loop and returns; or, if it gets there only     *)
(* when cv_, mtx_ and tasks_ are destroyed, it locks dead storage.         *)
WorkerLeaves(s) ==
  /\ Done(s) /\ s \notin left
  /\ server # "crashed"
  /\ \/ left' = left \cup {s} /\ UNCHANGED server
     \/ server = "members" /\ server' = "crashed" /\ UNCHANGED left
  /\ UNCHANGED <<poolVars, flagVars, callVars, serverFd, acceptorVars, hpc,
                 fd, peer>>

-----------------------------------------------------------------------------
(* request_stop, called by a thread of the program or by a route handler.  *)
(* Every step says what it does to the flags, the lock and the pool.       *)

Goto(t, pc) == cpc' = [cpc EXCEPT ![t] = pc]

MayStop(t) ==
  /\ server = "up"
  /\ cpc[t] = "idle"
  /\ t \in Slot => StopInHandler /\ hpc[t] = "route"

FirstStopRequested == ~tokenStopped

RequestStop(t) ==
  /\ MayStop(t)
  /\ FirstStopRequested
  /\ tokenStopped' = TRUE
  /\ Goto(t, "flag")
  /\ UNCHANGED <<poolVars, shutdownFlag, wsStopped, stopped, mtx, joined,
                 stopping, next, serverFd, hpc, fd>>

(* A second request_stop throws; from a handler, into the pool. *)
RequestStopThrows(t) ==
  /\ MayStop(t) /\ t \in Slot
  /\ tokenStopped
  /\ Returns(t, "open")
  /\ UNCHANGED <<flagVars, callVars, serverFd>>

SetShutdownFlag(t) ==
  /\ cpc[t] = "flag"
  /\ mtx = NoThread
  /\ shutdownFlag' = TRUE
  /\ Goto(t, "notify")
  /\ UNCHANGED <<poolVars, tokenStopped, wsStopped, stopped, mtx, joined,
                 stopping, next, serverFd, hpc, fd>>

(* Mutant: nobody is notified. *)
NotifiedNobody == {}
Notified == {u \in Thread : cpc[u] = "waiting"}

NotifyAll(t) ==
  /\ cpc[t] = "notify"
  /\ cpc' = [u \in Thread |-> IF u = t THEN "pool"
                              ELSE IF u \in Notified THEN "lock" ELSE cpc[u]]
  /\ UNCHANGED <<poolVars, flagVars, mtx, joined, stopping, next, serverFd,
                 hpc, fd>>

(* Mutant: the pool is closed and its queue cleared. *)
PoolClears == closed' = TRUE /\ queue' = <<>>
                /\ UNCHANGED <<accepted, active, finished>>
PoolStops == Pool!Close

StopPool(t) ==
  /\ cpc[t] = "pool"
  /\ PoolStops
  /\ Goto(t, "ws")
  /\ UNCHANGED <<flagVars, mtx, joined, stopping, next, serverFd, hpc, fd>>

StopWebSockets(t) ==
  /\ cpc[t] = "ws"
  /\ wsStopped' = TRUE
  /\ Goto(t, "shut")
  /\ UNCHANGED <<poolVars, tokenStopped, shutdownFlag, stopped, mtx, joined,
                 stopping, next, serverFd, hpc, fd>>

(* shutdown(server_fd) makes accept fail and resets who was not accepted. *)
ShutdownListenSocket(t) ==
  /\ cpc[t] = "shut"
  /\ serverFd' = "shut"
  /\ fd' = [k \in Client |-> IF fd[k] = "backlog" THEN "refused" ELSE fd[k]]
  /\ Goto(t, "lock")
  /\ stopping' = stopping \cup {t}
  /\ UNCHANGED <<poolVars, flagVars, mtx, joined, next, hpc>>

CloseListenSocket(t) ==
  /\ cpc[t] = "close"
  /\ serverFd' = "closed"
  /\ stopped' = TRUE
  /\ Goto(t, "idle")
  /\ UNCHANGED <<poolVars, tokenStopped, shutdownFlag, wsStopped, mtx, joined,
                 stopping, next, hpc, fd>>

-----------------------------------------------------------------------------
(* wait_for_exit.  It keeps mtx while it joins the workers. *)

WaitForExit(c) ==
  /\ server = "up" /\ cpc[c] = "idle"
  /\ Goto(c, "lock")
  /\ UNCHANGED <<poolVars, flagVars, mtx, joined, stopping, next, serverFd,
                 hpc, fd>>

(* Mutant: the lock is released before the join. *)
HeldByNobody(t) == NoThread
HeldBy(t) == t

(* Lock, test the predicate of cv.wait; sleep, or go on to the join. *)
LockAndTest(t) ==
  /\ cpc[t] = "lock"
  /\ mtx = NoThread
  /\ IF shutdownFlag
     THEN mtx' = HeldBy(t) /\ Goto(t, "join")
     ELSE UNCHANGED mtx /\ Goto(t, "waiting")
  /\ UNCHANGED <<poolVars, flagVars, joined, stopping, next, serverFd, hpc,
                 fd>>

SpuriousWakeup(t) ==
  /\ cpc[t] = "waiting"
  /\ Goto(t, "lock")
  /\ UNCHANGED <<poolVars, flagVars, mtx, joined, stopping, next, serverFd,
                 hpc, fd>>

(* Mutant: detach in the place of join. *)
DetachWorker(t) ==
  /\ cpc[t] = "join"
  /\ next[t] \in Slot
  /\ joined' = joined \cup {next[t]}
  /\ next' = [next EXCEPT ![t] = @ + 1]
  /\ UNCHANGED <<poolVars, flagVars, mtx, cpc, stopping, serverFd, hpc, fd>>

JoinWorker(t) ==
  /\ cpc[t] = "join"
  /\ next[t] \in Slot
  /\ next[t] \in joined \cup left
  /\ joined' = joined \cup {next[t]}
  /\ next' = [next EXCEPT ![t] = @ + 1]
  /\ UNCHANGED <<poolVars, flagVars, mtx, cpc, stopping, serverFd, hpc, fd>>

(* mtx is released; request_stop goes on, wait_for_exit returns. *)
Unlocks(t, pc) ==
  /\ mtx' = NoThread
  /\ Goto(t, pc)
  /\ stopping' = stopping \ {t}
  /\ next' = [next EXCEPT ![t] = 1]
  /\ UNCHANGED <<flagVars, joined, serverFd>>

(* A worker cannot join itself: join throws, out of request_stop and of    *)
(* the handler.                                                            *)
JoinsItself(s) ==
  /\ cpc[s] = "join" /\ next[s] = s
  /\ Unlocks(s, "idle")
  /\ Returns(s, "open")

JoinReturns(t) ==
  /\ cpc[t] = "join" /\ next[t] \notin Slot
  /\ Unlocks(t, IF t \in stopping THEN "close" ELSE "idle")
  /\ UNCHANGED <<poolVars, hpc, fd>>

CallFrame == UNCHANGED <<server, acceptorVars, left, peer>>

CallStep(t) ==
  /\ \/ SetShutdownFlag(t) \/ NotifyAll(t) \/ StopPool(t)
     \/ StopWebSockets(t) \/ ShutdownListenSocket(t) \/ CloseListenSocket(t)
     \/ LockAndTest(t) \/ JoinWorker(t) \/ JoinReturns(t)
     \/ t \in Slot /\ JoinsItself(t)
  /\ CallFrame

-----------------------------------------------------------------------------
Terminated == server \in {"gone", "crashed"} /\ UNCHANGED vars

Next ==
  \/ LifeStep
  \/ \E k \in Client : ClientStep(Connect(k)) \/ ClientStep(SendOrHangUp(k))
  \/ AcceptorStep
  \/ AcceptFails(FALSE) /\ AcceptorFrame
  \/ \E s \in Slot : HandlerStep(s) \/ WorkerLeaves(s)
  \/ \E t \in Thread : CallStep(t)
  \/ /\ \/ \E t \in Thread :
             RequestStop(t) \/ RequestStopThrows(t) \/ SpuriousWakeup(t)
        \/ \E c \in Caller : WaitForExit(c)
     /\ CallFrame
  \/ Terminated

Spec == Init /\ [][Next]_vars

(* Threads that can run do run, handlers return, accept finds a waiting    *)
(* connection in spite of its occasional failures, mtx is not kept from a  *)
(* thread by others that take it again and again, clients that are not     *)
(* Silent send or hang up, and those that are not Deaf read.               *)
Fairness ==
  /\ SF_vars(AcceptorStep /\ apc = "accept" /\ apc' = "check")
  /\ SF_vars(AcceptorStep)
  /\ \A s \in Slot : SF_vars(HandlerStep(s) \/ CallStep(s))
  /\ \A s \in Slot : WF_vars(WorkerLeaves(s))
  /\ \A c \in Caller : SF_vars(CallStep(c))
  /\ \A k \in Client : WF_vars(ClientStep(SendOrHangUp(k)))

FairSpec == Spec /\ Fairness

-----------------------------------------------------------------------------
(* Properties. *)

TypeOK ==
  /\ Pool!TypeOK
  /\ left \subseteq Slot /\ joined \subseteq Slot
  /\ tokenStopped \in BOOLEAN /\ shutdownFlag \in BOOLEAN
  /\ wsStopped \in BOOLEAN /\ stopped \in BOOLEAN
  /\ mtx \in Thread \cup {NoThread}
  /\ server \in {"new", "up", "closing", "members", "gone", "crashed"}
  /\ serverFd \in {"none", "listening", "shut", "closed"}
  /\ apc \in {"off", "loop", "accept", "check", "submit", "exited"}
  /\ clientFd \in Client \cup {NoClient}
  /\ hpc \in [Slot -> HandlerPC]
  /\ cpc \in [Thread -> {"idle"} \cup StopPC \cup WaitPC]
  /\ stopping \subseteq Thread
  /\ next \in [Thread -> 1 .. NumThreads + 1]
  /\ fd \in [Client -> {"none", "backlog", "refused", "open", "closed",
                        "websocket"}]
  /\ peer \in [Client -> {"idle", "sent", "gone"}]

(* Who holds the descriptor of a connection. *)
Queued(k) == \E i \in DOMAIN queue : queue[i] = k
Served(k) == \E s \in Slot : active[s] = k
Held(k) == clientFd = k \/ Queued(k) \/ Served(k)

(* A descriptor is held at one place, and is open there: nobody reads,     *)
(* writes or closes one that somebody else closed or handed on.            *)
OneHolder ==
  \A k \in Client : Held(k) =>
    /\ fd[k] = "open"
    /\ clientFd = k => ~Queued(k) /\ ~Served(k)
    /\ Queued(k) => ~Served(k)
    /\ \A r, s \in Slot : active[r] = k /\ active[s] = k => r = s

Entered(k) == \E i \in DOMAIN accepted : accepted[i] = k

(* The acceptor hands every connection to the pool until the shutdown: a   *)
(* connection that was accepted and never submitted is lost only when the  *)
(* flag was set between the acceptor's check and its submit.               *)
DroppedOnlyInShutdown ==
  \A k \in Client :
    fd[k] = "open" /\ ~Held(k) /\ ~Entered(k) => shutdownFlag /\ closed

(* Threadpool::wait_for_exit is not reentrant; mtx keeps threads apart. *)
JoinersExclude ==
  \A t, u \in Thread : cpc[t] = "join" /\ cpc[u] = "join" => t = u

(* When request_stop has returned, every worker was joined, no connection  *)
(* is queued or served and the listening socket is closed; and it is       *)
(* closed by one thread, once, after the workers are gone (a second close  *)
(* could hit a number that was used again).                                *)
StopIsComplete ==
  /\ stopped =>
       /\ \A s \in Slot : active[s] = NoClient
       /\ queue = <<>>
       /\ joined = Slot
       /\ serverFd = "closed"
  /\ \A t \in Thread : cpc[t] = "close" => serverFd = "shut" /\ joined = Slot

(* The inductive invariant.  Its parts say that the acceptor holds a       *)
(* connection exactly while it checks and submits, and the queue holds     *)
(* none twice and none that was not accepted; ...                          *)
HoldersAreKnown ==
  /\ apc \in {"check", "submit"} <=> clientFd # NoClient
  /\ \A i, j \in DOMAIN queue : queue[i] = queue[j] => i = j
  /\ \A k \in Client : Queued(k) \/ Served(k) => Entered(k)

(* ... that the pool of a server that is up, or whose acceptor runs, is    *)
(* closed only after the flag was set, which request_stop does early, and  *)
(* that nothing happens before the acceptor runs; ...                      *)
Stopper(t) == cpc[t] \in StopPC \/ t \in stopping

ClosedByStop ==
  /\ closed /\ (apc # "off" \/ server \in {"new", "up"}) => shutdownFlag
  /\ \A t \in Thread : Stopper(t) /\ cpc[t] # "flag" => shutdownFlag
  /\ stopped => shutdownFlag
  /\ apc = "off" => queue = <<>> /\ \A s \in Slot : active[s] = NoClient
  /\ server # "up" => \A t \in Thread : cpc[t] = "idle"
  /\ server = "new" => apc = "off" /\ ~stopped

(* ... that who joins owns mtx, and a joined worker is out of its loop,    *)
(* which it left because it was done; ...                                  *)
JoinsUnderLock == \A t \in Thread : cpc[t] = "join" => mtx = t

JoinedAreDone ==
  /\ joined \subseteq left
  /\ \A s \in left : Done(s)
  /\ \A t \in Thread, s \in Slot : s < next[t] => s \in joined

(* ... and that one thread at most is in request_stop, and later closes    *)
(* the listening socket, which it has shut down.                           *)
OneStopper ==
  /\ \A t \in Thread : Stopper(t) => tokenStopped /\ ~stopped
  /\ \A t, u \in Thread : Stopper(t) /\ Stopper(u) => t = u
  /\ \A t \in stopping : cpc[t] \in WaitPC /\ serverFd = "shut"
  /\ \A t \in Thread : cpc[t] = "close" => serverFd = "shut" /\ joined = Slot
  /\ stopped => tokenStopped /\ serverFd = "closed" /\ joined = Slot

IInv ==
  /\ TypeOK
  /\ OneHolder
  /\ HoldersAreKnown
  /\ DroppedOnlyInShutdown
  /\ ClosedByStop
  /\ JoinsUnderLock
  /\ JoinedAreDone
  /\ OneStopper

(* What keeps a worker, and the joiner of the pool, for ever: a read from  *)
(* a silent client and a write to one that does not read (neither has a    *)
(* timeout), a handler that called request_stop and waits for mtx, which   *)
(* the joiner of its worker holds, and a handler that joins a worker that  *)
(* reads or writes for ever.                                               *)
InSystemCall(s) ==
  \/ hpc[s] = "read" /\ active[s] \in Silent
  \/ hpc[s] = "full"
StopsUnderJoin(s) == cpc[s] = "lock" /\ mtx # NoThread
JoinsBlocked(s) ==
  cpc[s] = "join" /\ next[s] \in Slot /\ InSystemCall(next[s])
Blocked(s) == InSystemCall(s) \/ StopsUnderJoin(s) \/ JoinsBlocked(s)
Stuck == \E s \in Slot : InSystemCall(s) \/ StopsUnderJoin(s)

(* request_stop and wait_for_exit return after a stop, whatever the        *)
(* interleaving with the acceptor, the handlers and each other, unless a   *)
(* worker hangs in a system call or in a request_stop of its own under the *)
(* join of somebody else; a handler that calls request_stop with nobody in *)
(* wait_for_exit does not keep the others.                                 *)
StopReturns ==
  \A c \in Caller :
    tokenStopped /\ cpc[c] # "idle" ~> cpc[c] = "idle" \/ Stuck

(* The acceptor leaves its loop after a stop, so that ~WebServer returns;  *)
(* only a joiner that is stuck keeps mtx from it.                          *)
AcceptorExits == tokenStopped /\ apc # "off" ~> apc = "exited" \/ Stuck

(* Every connection in the queue gets a worker, also when the server is    *)
(* stopped while it waits and however long it stands behind others: a stop *)
(* loses none of the submitted connections, and a connection that is never *)
(* served finds every single worker blocked for ever.                      *)
SubmittedAreServed ==
  \A k \in Client : Queued(k) ~> Served(k) \/ \A s \in Slot : Blocked(s)

(* No thread uses mtx or the pool after ~WebServer destroyed them. *)
NoUseAfterDestroy == server # "up" => apc \notin {"check", "submit"}
=============================================================================
