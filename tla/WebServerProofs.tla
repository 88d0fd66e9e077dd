-------------------------- MODULE WebServerProofs --------------------------
(***************************************************************************)
(* Proofs about WebServer for any number of workers, clients and callers:  *)
(* who holds a descriptor, who joins the pool, what a stop leaves behind.  *)
(***************************************************************************)
EXTENDS WebServer, TLAPS

(* The initial states. *)
LEMMA InitIInv == Init => IInv
<1> USE ServerAssumption
<1> SUFFICES ASSUME Init PROVE IInv
  OBVIOUS
<1> USE DEF Init, Pool!Init
<1>1. TypeOK
  <2>1. Pool!TypeOK
    <3>1. accepted \in Seq(Client) /\ queue \in Seq(Client)
      OBVIOUS
    <3>2. active \in [Slot -> Client \cup {NoClient}]
      OBVIOUS
    <3> QED
      BY <3>1, <3>2 DEF Pool!TypeOK
  <2>2. next \in [Thread -> 1 .. NumThreads + 1]
    BY DEF Thread, Slot
  <2> QED
    BY <2>1, <2>2 DEF TypeOK, HandlerPC
<1>2. OneHolder /\ HoldersAreKnown /\ DroppedOnlyInShutdown
  BY DEF OneHolder, HoldersAreKnown, DroppedOnlyInShutdown, Held, Queued,
         Served
<1>3. ClosedByStop /\ JoinsUnderLock /\ OneStopper
  BY DEF ClosedByStop, JoinsUnderLock, OneStopper, Stopper, StopPC
<1>4. JoinedAreDone
  BY DEF JoinedAreDone, Slot
<1> QED
  BY <1>1, <1>2, <1>3, <1>4 DEF IInv

(* Types. *)
LEMMA TypeOKStep ==
  ASSUME IInv, [Next]_vars
  PROVE  TypeOK'
<1> DEFINE Goal == TypeOK'
<1> USE DEF TypeOK, Pool!TypeOK, poolVars, flagVars, callVars, acceptorVars,
        HandlerPC, StopPC, WaitPC, Goto
<1>0. TypeOK
  BY DEF IInv
<1>1. CASE UNCHANGED vars
  BY <1>0, <1>1 DEF vars
<1>2. CASE LifeStep
  <2>0. UNCHANGED <<shutdownFlag, wsStopped, stopped, mtx, cpc, stopping, next,
                    clientFd, hpc, left, fd, peer>>
    BY <1>2 DEF LifeStep
  <2>1. ASSUME \/ Construct \/ Run \/ DestroyMembers \/ DestroyPoolMembers
               \/ DestroyJoinsWorker \/ DestroyJoinsAcceptor
        PROVE  /\ UNCHANGED <<accepted, queue, active, finished, tokenStopped>>
               /\ closed' \in BOOLEAN /\ joined' \subseteq Slot
               /\ server' \in {"new", "up", "closing", "members", "gone",
                               "crashed"}
               /\ serverFd' \in {"none", "listening", "shut", "closed"}
               /\ apc' \in {"off", "loop", "accept", "check", "submit",
                            "exited"}
    <3>1. CASE Construct
      BY <1>0, <3>1 DEF Construct, Pool!Close
    <3>2. CASE Run
      BY <1>0, <3>2 DEF Run
    <3>3. CASE DestroyMembers
      BY <1>0, <3>3 DEF DestroyMembers, Pool!Close
    <3>4. CASE DestroyJoinsAcceptor
      BY <1>0, <3>4 DEF DestroyJoinsAcceptor
    <3>5. CASE DestroyPoolMembers
      BY <1>0, <3>5 DEF DestroyPoolMembers
    <3>6. CASE DestroyJoinsWorker
      BY <1>0, <3>6 DEF DestroyJoinsWorker
    <3> QED
      BY <2>1, <3>1, <3>2, <3>3, <3>4, <3>5, <3>6
  <2> QED
    BY <1>0, <1>2, <2>0, <2>1 DEF LifeStep
<1>3. ASSUME NEW k \in Client,
             ClientStep(Connect(k)) \/ ClientStep(SendOrHangUp(k))
      PROVE  Goal
  <2>1. CASE Connect(k)
    BY <1>0, <1>3, <2>1 DEF ClientStep, Connect
  <2>2. CASE SendOrHangUp(k)
    BY <1>0, <1>3, <2>2 DEF ClientStep, SendOrHangUp
  <2> QED
    BY <1>3, <2>1, <2>2 DEF ClientStep
<1>4. CASE AcceptorStep \/ (AcceptFails(FALSE) /\ AcceptorFrame)
  <2>1. CASE AcceptorSubmits /\ AcceptorFrame
    <3>1. clientFd \in Client
      BY <1>0, <2>1 DEF AcceptorSubmits, HoldersAreKnown, IInv
    <3>2. accepted' \in Seq(Client) /\ queue' \in Seq(Client)
      <4>1. CASE UNCHANGED <<accepted, queue>>
        BY <1>0, <4>1
      <4>2. CASE Pool!Accept(clientFd)
        <5>1. accepted \in Seq(Client) /\ queue \in Seq(Client)
          BY <1>0
        <5>2. Append(accepted, clientFd) \in Seq(Client)
          BY <3>1, <5>1
        <5>3. Append(queue, clientFd) \in Seq(Client)
          BY <3>1, <5>1
        <5> QED
          BY <4>2, <5>2, <5>3 DEF Pool!Accept
      <4> QED
        BY <2>1, <4>1, <4>2 DEF AcceptorSubmits
    <3> QED
      BY <1>0, <2>1, <3>2
      DEF AcceptorSubmits, AcceptorFrame, Submitted, Pool!Accept
  <2>2. CASE AcceptorChecks /\ AcceptorFrame
    BY <1>0, <2>2, ZenonT(40) DEF AcceptorChecks, AcceptorFrame
  <2>3. CASE AcceptorFrame /\ \E k \in Client : Accept(k)
    BY <1>0, <2>3 DEF AcceptorFrame, Accept
  <2>4. CASE AcceptorFrame /\ (AcceptorLoops \/ \E b \in BOOLEAN : AcceptFails(b))
    BY <1>0, <2>4
    DEF AcceptorFrame, AcceptorLoops, AcceptFails, AfterAcceptFailed
  <2> QED
    BY <1>4, <2>1, <2>2, <2>3, <2>4 DEF AcceptorStep
<1>5. ASSUME NEW s \in Slot, NEW state \in {"open", "closed", "websocket"},
             Returns(s, state)
      PROVE  /\ Pool!TypeOK' /\ hpc' \in [Slot -> HandlerPC]
             /\ fd' \in [Client -> {"none", "backlog", "refused", "open",
                                    "closed", "websocket"}]
  BY <1>0, <1>5 DEF Returns, Pool!Finish
<1>6. ASSUME NEW s \in Slot, HandlerStep(s) PROVE Goal
  <2>1. CASE WorkerTakes(s)
    BY <1>0, <1>6, <2>1 DEF HandlerStep, WorkerTakes, Pool!Start
  <2>2. CASE \/ ReadRequest(s) \/ Responds(s)
             \/ WritesAnswer(s) /\ ~Returns(s, "closed")
    <3>1. /\ UNCHANGED <<accepted, queue, active, finished, closed, fd>>
          /\ \E where \in {"route", "upgrade", "write", "full"} :
               hpc' = [hpc EXCEPT ![s] = where]
      BY <2>2 DEF ReadRequest, Responds, WritesAnswer
    <3>2. hpc' \in [Slot -> HandlerPC]
      BY <1>0, <3>1
    <3> QED
      BY <1>0, <1>6, <3>1, <3>2 DEF HandlerStep
  <2>3. CASE \E state \in {"open", "closed", "websocket"} : Returns(s, state)
    BY <1>0, <1>5, <1>6, <2>3 DEF HandlerStep
  <2> QED
    BY <1>6, <2>1, <2>2, <2>3
    DEF HandlerStep, WritesAnswer, ReadFails, HandlerThrows, Upgrades
<1>10. ASSUME NEW s \in Slot, WorkerLeaves(s) PROVE Goal
  BY <1>0, <1>10 DEF WorkerLeaves
<1>7. ASSUME NEW t \in Thread, CallStep(t) PROVE Goal
  <2>1. CASE JoinWorker(t)
    <3>1. next[t] \in 1 .. NumThreads /\ NumThreads \in Nat
      BY <2>1, ServerAssumption DEF JoinWorker, Slot
    <3>2. next[t] + 1 \in 1 .. NumThreads + 1
      BY <3>1
    <3>3. next' \in [Thread -> 1 .. NumThreads + 1]
      BY <1>0, <2>1, <3>2 DEF JoinWorker
    <3> QED
      BY <1>0, <1>7, <2>1, <3>3 DEF CallStep, CallFrame, JoinWorker
  <2>2. ASSUME NEW pc \in {"idle", "close"}, Unlocks(t, pc)
        PROVE  /\ next' \in [Thread -> 1 .. NumThreads + 1]
               /\ cpc' \in [Thread -> {"idle"} \cup StopPC \cup WaitPC]
               /\ mtx' \in Thread \cup {NoThread} /\ stopping' \subseteq Thread
    <3>1. 1 \in 1 .. NumThreads + 1
      BY ServerAssumption
    <3> QED
      BY <1>0, <2>2, <3>1 DEF Unlocks
  <2>3. CASE t \in Slot /\ JoinsItself(t)
    BY <1>0, <1>5, <1>7, <2>2, <2>3
    DEF CallStep, CallFrame, JoinsItself, Unlocks
  <2>4. CASE JoinReturns(t)
    <3>1. PICK pc \in {"idle", "close"} : Unlocks(t, pc)
      BY <2>4 DEF JoinReturns
    <3>2. /\ next' \in [Thread -> 1 .. NumThreads + 1]
          /\ cpc' \in [Thread -> {"idle"} \cup StopPC \cup WaitPC]
          /\ mtx' \in Thread \cup {NoThread} /\ stopping' \subseteq Thread
      BY <2>2, <3>1
    <3>3. UNCHANGED <<flagVars, joined, serverFd, poolVars, hpc, fd>>
      BY <2>4, <3>1 DEF JoinReturns, Unlocks
    <3> QED
      BY <1>0, <1>7, <3>2, <3>3 DEF CallStep, CallFrame
  <2>5. CASE LockAndTest(t)
    <3>1. cpc' \in [Thread -> {"idle"} \cup StopPC \cup WaitPC]
      BY <1>0, <2>5 DEF LockAndTest
    <3>2. mtx' \in Thread \cup {NoThread}
      BY <1>0, <2>5 DEF LockAndTest, HeldBy
    <3> QED
      BY <1>0, <1>7, <2>5, <3>1, <3>2 DEF CallStep, CallFrame, LockAndTest
  <2>6. CASE ShutdownListenSocket(t)
    BY <1>0, <1>7, <2>6 DEF CallStep, CallFrame, ShutdownListenSocket
  <2>7. CASE NotifyAll(t)
    BY <1>0, <1>7, <2>7 DEF CallStep, CallFrame, NotifyAll, Notified
  <2>8. CASE SetShutdownFlag(t)
    BY <1>0, <1>7, <2>8 DEF CallStep, CallFrame, SetShutdownFlag
  <2>9. CASE StopPool(t)
    BY <1>0, <1>7, <2>9
    DEF CallStep, CallFrame, StopPool, PoolStops, Pool!Close
  <2>10. CASE StopWebSockets(t)
    BY <1>0, <1>7, <2>10 DEF CallStep, CallFrame, StopWebSockets
  <2>11. CASE CloseListenSocket(t)
    BY <1>0, <1>7, <2>11 DEF CallStep, CallFrame, CloseListenSocket
  <2> QED
    BY <1>7, <2>1, <2>3, <2>4, <2>5, <2>6, <2>7, <2>8, <2>9, <2>10, <2>11
    DEF CallStep
<1>8. ASSUME NEW t \in Thread, CallFrame,
             RequestStop(t) \/ SpuriousWakeup(t) \/ WaitForExit(t)
      PROVE  Goal
  <2>1. CASE RequestStop(t)
    BY <1>0, <1>8, <2>1 DEF RequestStop, CallFrame
  <2>2. CASE SpuriousWakeup(t) \/ WaitForExit(t)
    <3>1. cpc' \in [Thread -> {"idle"} \cup StopPC \cup WaitPC]
      BY <1>0, <2>2 DEF SpuriousWakeup, WaitForExit
    <3> QED
      BY <1>0, <1>8, <2>2, <3>1 DEF SpuriousWakeup, WaitForExit, CallFrame
  <2> QED
    BY <1>8, <2>1, <2>2
<1>9. ASSUME NEW t \in Thread, CallFrame, RequestStopThrows(t) PROVE Goal
  BY <1>0, <1>5, <1>9 DEF RequestStopThrows, CallFrame
<1> QED
  BY <1>1, <1>2, <1>3, <1>4, <1>6, <1>7, <1>8, <1>9, <1>10
  DEF Next, Terminated, Thread

(* What Append and Tail do to the elements of a queue without repetitions. *)
LEMMA AppendElements ==
  ASSUME NEW q \in Seq(Client), NEW x \in Client, NEW k,
         \A i, j \in DOMAIN q : q[i] = q[j] => i = j
  PROVE  /\ (\E i \in DOMAIN Append(q, x) : Append(q, x)[i] = k)
              <=> k = x \/ \E i \in DOMAIN q : q[i] = k
         /\ (\A i \in DOMAIN q : q[i] # x) =>
              \A i, j \in DOMAIN Append(q, x) :
                Append(q, x)[i] = Append(q, x)[j] => i = j
<1>1. /\ DOMAIN q = 1 .. Len(q) /\ Len(q) \in Nat
      /\ DOMAIN Append(q, x) = 1 .. Len(q) + 1
      /\ Append(q, x)[Len(q) + 1] = x
      /\ \A i \in 1 .. Len(q) : Append(q, x)[i] = q[i]
  OBVIOUS
<1> QED
  BY <1>1

(* What is left of a queue without repetitions when its head is taken.       *)
LEMMA TailElements ==
  ASSUME NEW q \in Seq(Client), q # <<>>, NEW k,
         \A i, j \in DOMAIN q : q[i] = q[j] => i = j
  PROVE  /\ Head(q) \in Client
         /\ \E i \in DOMAIN q : q[i] = Head(q)
         /\ (\E i \in DOMAIN Tail(q) : Tail(q)[i] = k)
              <=> k # Head(q) /\ \E i \in DOMAIN q : q[i] = k
         /\ \A i, j \in DOMAIN Tail(q) : Tail(q)[i] = Tail(q)[j] => i = j
<1>1. /\ DOMAIN q = 1 .. Len(q) /\ Len(q) \in Nat /\ Len(q) # 0
      /\ DOMAIN Tail(q) = 1 .. Len(q) - 1
      /\ Head(q) = q[1] /\ Head(q) \in Client
      /\ \A i \in 1 .. Len(q) - 1 : Tail(q)[i] = q[i + 1]
  OBVIOUS
<1>2. 1 \in DOMAIN q
  BY <1>1
<1>3. ASSUME NEW i \in DOMAIN Tail(q), Tail(q)[i] = k
      PROVE  k # Head(q) /\ \E j \in DOMAIN q : q[j] = k
  BY <1>1, <1>3
<1>4. ASSUME NEW j \in DOMAIN q, q[j] = k, k # Head(q)
      PROVE  \E i \in DOMAIN Tail(q) : Tail(q)[i] = k
  <2>1. j - 1 \in DOMAIN Tail(q) /\ Tail(q)[j - 1] = k
    BY <1>1, <1>4
  <2> QED
    BY <2>1
<1>5. \A i, j \in DOMAIN Tail(q) : Tail(q)[i] = Tail(q)[j] => i = j
  BY <1>1
<1> QED
  BY <1>1, <1>2, <1>3, <1>4, <1>5

(* Who holds a descriptor. *)
Holding == OneHolder /\ HoldersAreKnown /\ DroppedOnlyInShutdown

(* A step that moves no descriptor and opens or closes none that is open. *)
LEMMA HoldersUnmoved ==
  ASSUME IInv,
         UNCHANGED <<accepted, queue, active, clientFd>>,
         \A k \in Client : fd'[k] = "open" <=> fd[k] = "open",
         apc' \in {"check", "submit"} <=> apc \in {"check", "submit"},
         closed => closed', shutdownFlag => shutdownFlag'
  PROVE  Holding'
BY DEF IInv, Holding, OneHolder, HoldersAreKnown, DroppedOnlyInShutdown, Held,
       Queued, Served, Entered

(* An accepted descriptor is held by the acceptor alone.                     *)
LEMMA HoldersAccept ==
  ASSUME IInv, AcceptorStep, NEW c \in Client, Accept(c)
  PROVE  Holding'
<1>1. /\ UNCHANGED <<accepted, queue, active, closed, shutdownFlag>>
      /\ clientFd' = c /\ apc' = "check"
      /\ clientFd = NoClient
      /\ fd[c] = "backlog"
      /\ fd' = [fd EXCEPT ![c] = "open"] /\ DOMAIN fd = Client
  BY DEF IInv, TypeOK, HoldersAreKnown, AcceptorStep, AcceptorFrame, Accept,
         poolVars, flagVars
<1>2. ~Queued(c) /\ ~Served(c)
  BY <1>1 DEF IInv, OneHolder, Held
<1>3. \A k \in Client : /\ Queued(k)' <=> Queued(k)
                        /\ Served(k)' <=> Served(k)
                        /\ Entered(k)' <=> Entered(k)
  BY <1>1 DEF Queued, Served, Entered
<1>4. OneHolder'
  <2>1. \A k \in Client : Queued(k) \/ Served(k) =>
          /\ fd[k] = "open" /\ k # c
          /\ Queued(k) => ~Served(k)
    BY <1>2 DEF IInv, OneHolder, Held
  <2>2. \A k \in Client, r, s \in Slot :
          active[r] = k /\ active[s] = k => r = s
    BY DEF IInv, OneHolder, Held, Served
  <2> QED
    BY <1>1, <1>2, <1>3, <2>1, <2>2 DEF OneHolder, Held
<1>5. HoldersAreKnown'
  BY <1>1, <1>3, ServerAssumption DEF IInv, HoldersAreKnown
<1>6. DroppedOnlyInShutdown'
  BY <1>1, <1>3, ServerAssumption DEF IInv, DroppedOnlyInShutdown, Held
<1> QED
  BY <1>4, <1>5, <1>6 DEF Holding

(* A dropped connection is closed and held by nobody.                        *)
LEMMA HoldersCheck ==
  ASSUME IInv, AcceptorStep, AcceptorChecks
  PROVE  Holding'
<1>1. /\ UNCHANGED <<accepted, queue, active, closed, shutdownFlag>>
      /\ apc = "check" /\ clientFd \in Client
      /\ DOMAIN fd = Client
  BY DEF IInv, TypeOK, HoldersAreKnown, AcceptorStep, AcceptorFrame,
         AcceptorChecks, poolVars, flagVars
<1>2. CASE ~shutdownFlag
  BY <1>1, <1>2, HoldersUnmoved DEF AcceptorChecks
<1>3. CASE shutdownFlag
  <2>1. /\ fd' = [fd EXCEPT ![clientFd] = "closed"]
        /\ clientFd' = NoClient /\ apc' = "exited"
    BY <1>3 DEF AcceptorChecks
  <2>2. \A k \in Client : /\ Queued(k)' <=> Queued(k)
                          /\ Served(k)' <=> Served(k)
                          /\ Entered(k)' <=> Entered(k)
    BY <1>1 DEF Queued, Served, Entered
  <2>3. ~Queued(clientFd) /\ ~Served(clientFd)
    BY <1>1 DEF IInv, OneHolder, Held
  <2>4. OneHolder'
    BY <1>1, <2>1, <2>2, <2>3, ServerAssumption DEF IInv, OneHolder, Held
  <2>5. HoldersAreKnown'
    BY <1>1, <2>1, <2>2 DEF IInv, HoldersAreKnown
  <2>6. DroppedOnlyInShutdown'
    BY <1>1, <2>1, <2>2, ServerAssumption
    DEF IInv, DroppedOnlyInShutdown, Held
  <2> QED
    BY <2>4, <2>5, <2>6 DEF Holding
<1> QED
  BY <1>2, <1>3

(* A submitted connection moves from the acceptor to the queue.              *)
LEMMA HoldersSubmit ==
  ASSUME IInv, AcceptorStep, AcceptorSubmits
  PROVE  Holding'
<1>1. /\ UNCHANGED <<active, closed, shutdownFlag, fd>>
      /\ apc = "submit" /\ clientFd \in Client
      /\ apc' = "loop" /\ clientFd' = NoClient
      /\ accepted \in Seq(Client) /\ queue \in Seq(Client)
  BY DEF IInv, TypeOK, Pool!TypeOK, HoldersAreKnown, AcceptorStep,
         AcceptorFrame, AcceptorSubmits, Submitted, Pool!Accept, poolVars,
         flagVars
<1>2. \A k \in Client : Served(k)' <=> Served(k)
  BY <1>1 DEF Served
<1>3. CASE closed /\ UNCHANGED poolVars
  <2>1. \A k \in Client : /\ Queued(k)' <=> Queued(k)
                          /\ Entered(k)' <=> Entered(k)
    BY <1>3 DEF Queued, Entered, poolVars
  <2>2. shutdownFlag
    BY <1>1, <1>3 DEF IInv, ClosedByStop
  <2>3. OneHolder'
    BY <1>1, <1>2, <2>1, ServerAssumption DEF IInv, OneHolder, Held
  <2>4. HoldersAreKnown'
    BY <1>1, <1>2, <1>3, <2>1 DEF IInv, HoldersAreKnown, poolVars
  <2>5. DroppedOnlyInShutdown'
    BY <1>1, <1>3, <2>2 DEF DroppedOnlyInShutdown
  <2> QED
    BY <2>3, <2>4, <2>5 DEF Holding
<1>4. CASE Pool!Accept(clientFd)
  <2>1. /\ queue' = Append(queue, clientFd)
        /\ accepted' = Append(accepted, clientFd)
    BY <1>4 DEF Pool!Accept
  <2>2. \A i, j \in DOMAIN queue : queue[i] = queue[j] => i = j
    BY DEF IInv, HoldersAreKnown
  <2>3. ASSUME NEW k \in Client
        PROVE  Queued(k)' <=> k = clientFd \/ Queued(k)
    <3>1. (\E i \in DOMAIN Append(queue, clientFd) :
             Append(queue, clientFd)[i] = k)
           <=> k = clientFd \/ \E i \in DOMAIN queue : queue[i] = k
      BY <1>1, <2>2, AppendElements
    <3> QED
      BY <2>1, <3>1 DEF Queued
  <2>4. ASSUME NEW k \in Client, Entered(k) \/ k = clientFd
        PROVE  Entered(k)'
    <3>1. /\ DOMAIN accepted = 1 .. Len(accepted) /\ Len(accepted) \in Nat
          /\ DOMAIN accepted' = 1 .. Len(accepted) + 1
          /\ accepted'[Len(accepted) + 1] = clientFd
          /\ \A i \in 1 .. Len(accepted) : accepted'[i] = accepted[i]
      BY <1>1, <2>1
    <3> QED
      BY <2>4, <3>1 DEF Entered
  <2>5. ~Queued(clientFd) /\ ~Served(clientFd) /\ fd[clientFd] = "open"
    BY <1>1 DEF IInv, OneHolder, Held
  <2>6. OneHolder'
    BY <1>1, <1>2, <2>3, <2>5, ServerAssumption DEF IInv, OneHolder, Held
  <2>7. HoldersAreKnown'
    <3>1. \A i \in DOMAIN queue : queue[i] # clientFd
      BY <2>5 DEF Queued
    <3>2. \A i, j \in DOMAIN queue' : queue'[i] = queue'[j] => i = j
      BY <1>1, <2>1, <2>2, <3>1, AppendElements
    <3> QED
      BY <1>1, <1>2, <2>3, <2>4, <3>2 DEF IInv, HoldersAreKnown
  <2>8. DroppedOnlyInShutdown'
    BY <1>1, <1>2, <2>3, <2>4 DEF IInv, DroppedOnlyInShutdown, Held
  <2> QED
    BY <2>6, <2>7, <2>8 DEF Holding
<1> QED
  BY <1>3, <1>4 DEF AcceptorSubmits

(* A started one moves from the queue to a worker.                           *)
LEMMA HoldersStart ==
  ASSUME IInv, NEW w \in Slot, HandlerStep(w), WorkerTakes(w)
  PROVE  Holding'
<1>1. /\ UNCHANGED <<accepted, closed, shutdownFlag, fd, apc, clientFd>>
      /\ queue \in Seq(Client) /\ queue # <<>> /\ queue' = Tail(queue)
      /\ active \in [Slot -> Client \cup {NoClient}]
      /\ active[w] = NoClient
      /\ active' = [active EXCEPT ![w] = Head(queue)]
  BY DEF IInv, TypeOK, Pool!TypeOK, HandlerStep, WorkerTakes, Pool!Start,
         flagVars, acceptorVars
<1>2. \A i, j \in DOMAIN queue : queue[i] = queue[j] => i = j
  BY DEF IInv, HoldersAreKnown
<1>3. Head(queue) \in Client /\ Queued(Head(queue))
  BY <1>1, <1>2, TailElements DEF Queued
<1>4. \A k \in Client : Queued(k)' <=> k # Head(queue) /\ Queued(k)
  BY <1>1, <1>2, TailElements, ZenonT(40) DEF Queued
<1>5. /\ ~Served(Head(queue)) /\ clientFd # Head(queue)
      /\ fd[Head(queue)] = "open"
  BY <1>3 DEF IInv, OneHolder, Held
<1>6. \A k \in Client : Served(k)' <=> k = Head(queue) \/ Served(k)
  BY <1>1, <1>3, ServerAssumption DEF Served
<1>7. \A k \in Client : Entered(k)' <=> Entered(k)
  BY <1>1 DEF Entered
<1>8. OneHolder'
  <2>1. ASSUME NEW k \in Client, NEW r \in Slot, NEW s \in Slot,
               active'[r] = k, active'[s] = k
        PROVE  r = s
    <3>1. CASE k = Head(queue)
      BY <1>1, <1>5, <2>1, <3>1 DEF Served
    <3>2. CASE k # Head(queue)
      <4>1. active[r] = k /\ active[s] = k
        BY <1>1, <2>1, <3>2
      <4> QED
        BY <4>1 DEF IInv, OneHolder, Held, Served
    <3> QED
      BY <3>1, <3>2
  <2> QED
    BY <1>1, <1>3, <1>4, <1>5, <1>6, <2>1 DEF IInv, OneHolder, Held
<1>9. HoldersAreKnown'
  <2>1. \A i, j \in DOMAIN queue' : queue'[i] = queue'[j] => i = j
    BY <1>1, <1>2, TailElements
  <2> QED
    BY <1>1, <1>3, <1>4, <1>6, <1>7, <2>1 DEF IInv, HoldersAreKnown
<1>10. DroppedOnlyInShutdown'
  BY <1>1, <1>3, <1>4, <1>6, <1>7 DEF IInv, DroppedOnlyInShutdown, Held
<1> QED
  BY <1>8, <1>9, <1>10 DEF Holding

(* A handler that returns holds nothing any more.                            *)
LEMMA HoldersReturn ==
  ASSUME IInv, NEW w \in Slot, NEW state, Returns(w, state),
         UNCHANGED <<apc, clientFd, shutdownFlag>>
  PROVE  Holding'
<1> DEFINE gone == active[w]
<1>1. /\ UNCHANGED <<accepted, queue, closed>>
      /\ active \in [Slot -> Client \cup {NoClient}]
      /\ gone \in Client
      /\ active' = [active EXCEPT ![w] = NoClient]
      /\ DOMAIN fd = Client
      /\ fd' = [fd EXCEPT ![gone] = state]
  BY DEF IInv, TypeOK, Pool!TypeOK, Returns, Pool!Finish
<1>2. Served(gone) /\ clientFd # gone /\ ~Queued(gone) /\ Entered(gone)
  BY <1>1 DEF IInv, OneHolder, HoldersAreKnown, Held, Served
<1>3. \A s \in Slot : active[s] = gone => s = w
  BY <1>1, <1>2 DEF IInv, OneHolder, Held
<1>4. \A k \in Client : /\ Queued(k)' <=> Queued(k)
                        /\ Entered(k)' <=> Entered(k)
  BY <1>1 DEF Queued, Entered
<1>5. \A k \in Client : Served(k)' <=> k # gone /\ Served(k)
  BY <1>1, <1>3, ServerAssumption DEF Served
<1>6. \A k \in Client, s \in Slot : active'[s] = k => active[s] = k
  BY <1>1, ServerAssumption
<1>7. OneHolder'
  BY <1>1, <1>2, <1>4, <1>5, <1>6 DEF IInv, OneHolder, Held
<1>8. HoldersAreKnown'
  BY <1>1, <1>4, <1>5 DEF IInv, HoldersAreKnown
<1>9. DroppedOnlyInShutdown'
  BY <1>1, <1>2, <1>4, <1>5 DEF IInv, DroppedOnlyInShutdown, Held
<1> QED
  BY <1>7, <1>8, <1>9 DEF Holding

(* Every step keeps a descriptor at one place.                               *)
LEMMA HoldersStep ==
  ASSUME IInv, [Next]_vars
  PROVE  Holding'
<1> USE DEF poolVars, flagVars, callVars, acceptorVars
<1>0. DOMAIN fd = Client
  BY DEF IInv, TypeOK
<1>1. CASE UNCHANGED vars
  BY <1>1, HoldersUnmoved DEF vars
<1>2. CASE LifeStep
  <2>1. UNCHANGED <<accepted, queue, active, clientFd, fd, shutdownFlag>>
    BY <1>2 DEF LifeStep, Construct, Run, DestroyMembers,
                DestroyPoolMembers, DestroyJoinsWorker, DestroyJoinsAcceptor,
                Pool!Close
  <2>2. closed => closed'
    BY <1>2 DEF LifeStep, Construct, Run, DestroyMembers,
                DestroyPoolMembers, DestroyJoinsWorker, DestroyJoinsAcceptor,
                Pool!Close
  <2>3. apc' \in {"check", "submit"} <=> apc \in {"check", "submit"}
    BY <1>2 DEF LifeStep, Construct, Run, DestroyMembers,
                DestroyPoolMembers, DestroyJoinsWorker, DestroyJoinsAcceptor
  <2> QED
    BY <2>1, <2>2, <2>3, HoldersUnmoved
<1>3. ASSUME NEW k \in Client,
             ClientStep(Connect(k)) \/ ClientStep(SendOrHangUp(k))
      PROVE  Holding'
  <2>1. \A c \in Client : fd'[c] = "open" <=> fd[c] = "open"
    BY <1>0, <1>3 DEF ClientStep, Connect, SendOrHangUp
  <2> QED
    BY <1>3, <2>1, HoldersUnmoved DEF ClientStep
<1>4. CASE AcceptorStep
  <2>1. CASE AcceptorLoops \/ AcceptFails(TRUE)
    BY <1>4, <2>1, HoldersUnmoved
    DEF AcceptorStep, AcceptorFrame, AcceptorLoops, AcceptFails,
        AfterAcceptFailed
  <2> QED
    BY <1>4, <2>1, HoldersAccept, HoldersCheck, HoldersSubmit DEF AcceptorStep
<1>5. CASE AcceptFails(FALSE) /\ AcceptorFrame
  BY <1>5, HoldersUnmoved DEF AcceptorFrame, AcceptFails, AfterAcceptFailed
<1>6. ASSUME NEW s \in Slot, HandlerStep(s) PROVE Holding'
  <2>1. CASE WorkerTakes(s)
    BY <1>6, <2>1, HoldersStart
  <2>2. CASE \E state \in {"open", "closed", "websocket"} : Returns(s, state)
    BY <1>6, <2>2, HoldersReturn DEF HandlerStep
  <2>3. CASE UNCHANGED <<poolVars, fd>>
    BY <1>6, <2>3, HoldersUnmoved DEF HandlerStep
  <2> QED
    BY <1>6, <2>1, <2>2, <2>3
    DEF HandlerStep, ReadRequest, ReadFails, Responds, WritesAnswer,
        HandlerThrows, Upgrades
<1>10. ASSUME NEW s \in Slot, WorkerLeaves(s) PROVE Holding'
  BY <1>10, HoldersUnmoved DEF WorkerLeaves
<1>7. ASSUME NEW t \in Thread, CallStep(t) PROVE Holding'
  <2>1. CASE t \in Slot /\ JoinsItself(t)
    BY <1>7, <2>1, HoldersReturn DEF CallStep, CallFrame, JoinsItself, Unlocks
  <2>2. CASE ShutdownListenSocket(t)
    <3>1. \A c \in Client : fd'[c] = "open" <=> fd[c] = "open"
      BY <2>2 DEF ShutdownListenSocket
    <3> QED
      BY <1>7, <2>2, <3>1, HoldersUnmoved
      DEF CallStep, CallFrame, ShutdownListenSocket
  <2>3. CASE StopPool(t)
    BY <1>7, <2>3, HoldersUnmoved
    DEF CallStep, CallFrame, StopPool, PoolStops, Pool!Close
  <2>4. CASE UNCHANGED <<poolVars, fd>> /\ (shutdownFlag => shutdownFlag')
    BY <1>7, <2>4, HoldersUnmoved DEF CallStep, CallFrame
  <2> QED
    BY <1>7, <2>1, <2>2, <2>3, <2>4
    DEF CallStep, SetShutdownFlag, NotifyAll, StopWebSockets,
        CloseListenSocket, LockAndTest, JoinWorker, JoinReturns, Unlocks
<1>8. ASSUME NEW t \in Thread, CallFrame, RequestStopThrows(t)
      PROVE  Holding'
  BY <1>8, HoldersReturn DEF RequestStopThrows, CallFrame
<1>9. ASSUME NEW t \in Thread, CallFrame,
             RequestStop(t) \/ SpuriousWakeup(t) \/ WaitForExit(t)
      PROVE  Holding'
  BY <1>9, HoldersUnmoved
  DEF RequestStop, SpuriousWakeup, WaitForExit, CallFrame
<1> QED
  BY <1>1, <1>2, <1>3, <1>4, <1>5, <1>6, <1>7, <1>8, <1>9, <1>10
  DEF Next, Terminated, Thread

(* What a stop does. *)
Stop == ClosedByStop /\ JoinsUnderLock /\ JoinedAreDone /\ OneStopper

(* A step outside request_stop, wait_for_exit, constructor and destructor. *)
LEMMA StopUnmoved ==
  ASSUME IInv,
         UNCHANGED <<closed, flagVars, callVars, left, server, serverFd>>,
         apc' = "off" <=> apc = "off",
         (closed \/ apc = "off") /\ queue = <<>> => queue' = <<>>,
         \A s \in Slot : queue = <<>> /\ active[s] = NoClient =>
                           active'[s] = NoClient
  PROVE  Stop'
<1> USE DEF flagVars, callVars
<1>1. ClosedByStop'
  BY DEF IInv, ClosedByStop, Stopper
<1>2. JoinsUnderLock' /\ OneStopper'
  BY DEF IInv, JoinsUnderLock, OneStopper, Stopper
<1>3. JoinedAreDone'
  BY DEF IInv, TypeOK, JoinedAreDone, Done
<1> QED
  BY <1>1, <1>2, <1>3 DEF Stop

(* A worker leaves its loop only when it is done, and done it stays.         *)
LEMMA StopLeaves ==
  ASSUME IInv, NEW s \in Slot, WorkerLeaves(s)
  PROVE  Stop'
<1> USE DEF IInv, WorkerLeaves, poolVars, flagVars, callVars, acceptorVars
<1>1. ClosedByStop'
  BY DEF ClosedByStop, Stopper
<1>2. JoinsUnderLock' /\ OneStopper'
  BY DEF JoinsUnderLock, OneStopper, Stopper
<1>3. JoinedAreDone'
  BY DEF JoinedAreDone, Done, TypeOK
<1> QED
  BY <1>1, <1>2, <1>3 DEF Stop

(* Construction, run and destruction leave the stop as it is.                *)
LEMMA StopLife ==
  ASSUME IInv, LifeStep
  PROVE  Stop'
<1> USE DEF IInv, LifeStep, Construct, Run, DestroyMembers,
            DestroyPoolMembers, DestroyJoinsWorker, DestroyJoinsAcceptor,
            Pool!Close, poolVars
<1>1. ClosedByStop'
  BY DEF ClosedByStop, Stopper
<1>2. JoinsUnderLock'
  BY DEF JoinsUnderLock
<1>3. JoinedAreDone'
  BY DEF TypeOK, ClosedByStop, OneStopper, JoinedAreDone, Done
<1>4. OneStopper'
  <2>1. CASE Construct
    <3>1. ~stopped /\ stopping = {} /\ \A t \in Thread : cpc[t] = "idle"
      BY <2>1 DEF ClosedByStop, OneStopper, WaitPC, TypeOK
    <3> QED
      BY <2>1, <3>1 DEF OneStopper, Stopper, StopPC
  <2>2. CASE DestroyJoinsWorker
    <3>1. /\ joined' \subseteq Slot /\ joined \subseteq joined'
          /\ UNCHANGED <<tokenStopped, stopped, cpc, stopping, serverFd>>
      BY <2>2 DEF TypeOK
    <3> QED
      BY <3>1 DEF OneStopper, Stopper, TypeOK
  <2>3. CASE ~Construct /\ ~DestroyJoinsWorker
    BY <2>3 DEF OneStopper, Stopper
  <2> QED
    BY <2>1, <2>2, <2>3
<1> QED
  BY <1>1, <1>2, <1>3, <1>4 DEF Stop

(* request_stop up to its call of wait_for_exit. *)
LEMMA StopUntilJoin ==
  ASSUME IInv, CallFrame, NEW t \in Thread,
         RequestStop(t) \/ SetShutdownFlag(t) \/ NotifyAll(t) \/ StopPool(t)
           \/ StopWebSockets(t) \/ ShutdownListenSocket(t)
  PROVE  Stop'
<1> USE DEF IInv, CallFrame, acceptorVars, poolVars, flagVars, Goto, StopPC,
            WaitPC
<1>0. DOMAIN cpc = Thread /\ stopping \subseteq Thread
  BY DEF TypeOK
<1>1. /\ UNCHANGED <<queue, active, mtx, joined, next, apc, server, stopped>>
      /\ closed => closed'
      /\ shutdownFlag => shutdownFlag'
      /\ closed' => closed \/ cpc[t] = "pool"
  BY DEF RequestStop, SetShutdownFlag, NotifyAll, StopPool, PoolStops,
         Pool!Close, StopWebSockets, ShutdownListenSocket
<1>2. server = "up" /\ ~stopped
  BY DEF MayStop, FirstStopRequested, RequestStop, SetShutdownFlag, NotifyAll,
         StopPool, StopWebSockets, ShutdownListenSocket, ClosedByStop,
         OneStopper, Stopper
<1>3. JoinedAreDone'
  BY <1>1 DEF JoinedAreDone, Done, TypeOK
<1>4. \A u \in Thread : cpc'[u] = "join" <=> cpc[u] = "join"
  BY <1>0 DEF MayStop, RequestStop, SetShutdownFlag, NotifyAll, Notified,
         StopPool, StopWebSockets, ShutdownListenSocket
<1>5. JoinsUnderLock'
  BY <1>1, <1>4 DEF JoinsUnderLock
<1>6. CASE RequestStop(t)
  <2>1. /\ ~tokenStopped /\ tokenStopped' /\ cpc[t] = "idle"
        /\ \A u \in Thread : ~Stopper(u)
        /\ UNCHANGED <<closed, shutdownFlag, stopping, serverFd>>
        /\ cpc' = [cpc EXCEPT ![t] = "flag"]
    BY <1>6 DEF RequestStop, MayStop, FirstStopRequested, OneStopper
  <2>2. \A u \in Thread : Stopper(u)' <=> u = t
    BY <1>0, <2>1 DEF Stopper
  <2>3. ClosedByStop'
    BY <1>0, <1>1, <1>2, <2>1, <2>2 DEF ClosedByStop
  <2>4. OneStopper'
    BY <1>0, <1>1, <1>2, <2>1, <2>2 DEF OneStopper, Stopper
  <2> QED
    BY <1>3, <1>5, <2>3, <2>4 DEF Stop
<1>7. CASE ~RequestStop(t)
  <2>1. /\ cpc[t] \in {"flag", "notify", "pool", "ws", "shut"}
        /\ Stopper(t) /\ tokenStopped /\ t \notin stopping
        /\ UNCHANGED tokenStopped
    BY <1>7 DEF SetShutdownFlag, NotifyAll, StopPool, StopWebSockets,
                ShutdownListenSocket, OneStopper, Stopper
  <2>2. \A u \in Thread : Stopper(u) => u = t
    BY <2>1 DEF OneStopper
  <2>3. \A u \in Thread : Stopper(u)' <=> Stopper(u)
    BY <1>0, <1>7 DEF SetShutdownFlag, NotifyAll, Notified, StopPool,
         StopWebSockets, ShutdownListenSocket, Stopper
  <2>4. cpc[t] # "flag" \/ SetShutdownFlag(t)
    BY <1>7 DEF NotifyAll, StopPool, StopWebSockets, ShutdownListenSocket
  <2>5. shutdownFlag'
    BY <1>1, <2>1, <2>4 DEF SetShutdownFlag, ClosedByStop
  <2>6. ClosedByStop'
    BY <1>0, <1>1, <1>2, <2>5 DEF ClosedByStop
  <2>7. stopping = {}
    BY <1>0, <2>1, <2>2 DEF Stopper
  <2>8. \A u \in stopping' : cpc'[u] \in WaitPC /\ serverFd' = "shut"
    BY <1>0, <1>7, <2>7
    DEF SetShutdownFlag, NotifyAll, StopPool, StopWebSockets,
        ShutdownListenSocket
  <2>9. \A u \in Thread : cpc'[u] # "close"
    BY <1>0, <1>7, <2>1, <2>2, <2>3
    DEF SetShutdownFlag, NotifyAll, Notified, StopPool, StopWebSockets,
        ShutdownListenSocket, Stopper
  <2>10. OneStopper'
    BY <1>1, <1>2, <2>1, <2>2, <2>3, <2>8, <2>9 DEF OneStopper
  <2> QED
    BY <1>3, <1>5, <2>6, <2>10 DEF Stop
<1> QED
  BY <1>6, <1>7

(* wait_for_exit up to its join. *)
LEMMA StopWaits ==
  ASSUME IInv, CallFrame, NEW t \in Thread,
         WaitForExit(t) \/ LockAndTest(t) \/ SpuriousWakeup(t)
  PROVE  Stop'
<1> USE DEF IInv, CallFrame, acceptorVars, poolVars, flagVars, Goto, WaitPC
<1>0. /\ DOMAIN cpc = Thread /\ stopping \subseteq Thread
      /\ NoThread \notin Thread
  BY ServerAssumption DEF TypeOK, Thread, Slot
<1>1. /\ UNCHANGED <<queue, active, closed, flagVars, joined, next, apc,
                     stopping, server, serverFd>>
      /\ server = "up"
  BY DEF WaitForExit, LockAndTest, SpuriousWakeup, ClosedByStop
<1>2. cpc[t] \notin StopPC /\ cpc'[t] \in WaitPC
  BY <1>0 DEF WaitForExit, LockAndTest, SpuriousWakeup, StopPC
<1>3. \A u \in Thread : u # t => cpc'[u] = cpc[u]
  BY <1>0 DEF WaitForExit, LockAndTest, SpuriousWakeup
<1>4. \A u \in Thread : /\ Stopper(u)' <=> Stopper(u)
                        /\ cpc'[u] = "flag" <=> cpc[u] = "flag"
                        /\ cpc'[u] = "close" <=> cpc[u] = "close"
  BY <1>1, <1>2, <1>3 DEF Stopper, StopPC
<1>5. ClosedByStop'
  <2>1. \A u \in Thread : Stopper(u)' /\ cpc'[u] # "flag" => shutdownFlag'
    BY <1>1, <1>4 DEF ClosedByStop
  <2> QED
    BY <1>1, <2>1 DEF ClosedByStop
<1>6. JoinsUnderLock'
  BY <1>0, <1>3 DEF JoinsUnderLock, WaitForExit, LockAndTest, SpuriousWakeup,
                    HeldBy
<1>7. JoinedAreDone'
  BY <1>1 DEF JoinedAreDone, Done, TypeOK
<1>8. OneStopper'
  <2>1. \A u \in stopping' : cpc'[u] \in WaitPC /\ serverFd' = "shut"
    BY <1>0, <1>1, <1>2, <1>3 DEF OneStopper
  <2> QED
    BY <1>1, <1>4, <2>1 DEF OneStopper
<1> QED
  BY <1>5, <1>6, <1>7, <1>8 DEF Stop

(* A join finds a worker done, and done it stays.                            *)
LEMMA StopJoins ==
  ASSUME IInv, CallFrame, NEW t \in Thread, JoinWorker(t)
  PROVE  Stop'
<1> USE DEF IInv, CallFrame, acceptorVars, poolVars, flagVars
<1>1. /\ UNCHANGED <<queue, active, closed, flagVars, cpc, mtx, apc, stopping,
                     server, serverFd>>
      /\ joined' = joined \cup {next[t]} /\ next[t] \in Slot
      /\ next' = [next EXCEPT ![t] = @ + 1] /\ DOMAIN next = Thread
      /\ joined \subseteq Slot
      /\ cpc[t] = "join"
  BY DEF JoinWorker, TypeOK
<1>2. ClosedByStop'
  BY <1>1 DEF ClosedByStop, Stopper
<1>3. JoinsUnderLock'
  BY <1>1 DEF JoinsUnderLock
<1>4. JoinedAreDone'
  <2>2. \A s \in left' : Done(s)'
    BY <1>1 DEF JoinedAreDone, Done
  <2>3. ASSUME NEW u \in Thread, NEW s \in Slot, s < next'[u]
        PROVE  s \in joined'
    <3>1. CASE u = t
      <4>1. s < next[t] \/ s = next[t]
        BY <1>1, <2>3, <3>1 DEF Slot
      <4> QED
        BY <1>1, <4>1 DEF JoinedAreDone
    <3>2. CASE u # t
      BY <1>1, <2>3, <3>2 DEF JoinedAreDone
    <3> QED
      BY <3>1, <3>2
  <2>4. joined' \subseteq left'
    BY <1>1 DEF JoinWorker, JoinedAreDone
  <2> QED
    BY <1>1, <2>2, <2>3, <2>4 DEF JoinedAreDone
<1>5. OneStopper'
  BY <1>1 DEF OneStopper, Stopper
<1> QED
  BY <1>2, <1>3, <1>4, <1>5 DEF Stop

(* Who has joined all workers, or itself, gives mtx back.                    *)
LEMMA StopUnlocks ==
  ASSUME IInv, CallFrame, NEW t \in Thread,
         (t \in Slot /\ JoinsItself(t)) \/ JoinReturns(t)
  PROVE  Stop'
<1> USE DEF IInv, CallFrame, acceptorVars, poolVars, flagVars, Goto, WaitPC,
            StopPC
<1>1. /\ DOMAIN cpc = Thread /\ DOMAIN next = Thread
      /\ stopping \subseteq Thread
      /\ left \subseteq Slot /\ joined \subseteq Slot
      /\ active \in [Slot -> Client \cup {NoClient}]
      /\ NumThreads \in Nat
  BY ServerAssumption DEF TypeOK, Pool!TypeOK
<1>2. /\ UNCHANGED <<queue, closed, flagVars, left, joined, apc, server,
                     serverFd>>
      /\ cpc[t] = "join"
      /\ stopping' = stopping \ {t}
      /\ next' = [next EXCEPT ![t] = 1]
      /\ mtx' = NoThread
  BY DEF JoinsItself, JoinReturns, Unlocks, Returns, Pool!Finish
<1>3. /\ \A u \in Thread : u # t => cpc'[u] = cpc[u]
      /\ cpc'[t] \in {"idle", "close"}
  BY <1>1 DEF JoinsItself, JoinReturns, Unlocks
<1>4. \A s \in Slot : active[s] = NoClient => active'[s] = NoClient
  BY <1>1 DEF JoinsItself, JoinReturns, Returns, Pool!Finish
<1>5. server = "up"
  BY <1>2 DEF ClosedByStop
<1>6. ASSUME cpc'[t] = "close"
      PROVE  t \in stopping /\ serverFd = "shut" /\ joined = Slot
  <2>1. JoinReturns(t)
    BY <1>1, <1>6 DEF JoinsItself, Unlocks
  <2>2. t \in stopping /\ serverFd = "shut"
    BY <1>1, <1>6, <2>1 DEF JoinReturns, Unlocks, OneStopper
  <2>3. next[t] \in 1 .. NumThreads + 1 /\ next[t] \notin Slot
    BY <2>1 DEF TypeOK, JoinReturns
  <2>4. \A s \in Slot : s < next[t]
    BY <1>1, <2>3 DEF Slot
  <2> QED
    BY <1>1, <2>2, <2>4 DEF JoinedAreDone
<1>7. \A u \in Thread : /\ Stopper(u)' => Stopper(u)
                        /\ u # t => (Stopper(u)' <=> Stopper(u))
                        /\ cpc'[u] = "close" =>
                             cpc[u] = "close" \/ u = t
                        /\ cpc'[u] = "flag" <=> cpc[u] = "flag"
  BY <1>2, <1>3, <1>6 DEF Stopper
<1>8. ClosedByStop'
  <2>1. \A u \in Thread : Stopper(u)' /\ cpc'[u] # "flag" => shutdownFlag'
    BY <1>2, <1>7 DEF ClosedByStop
  <2> QED
    BY <1>2, <1>4, <1>5, <2>1 DEF ClosedByStop
<1>9. JoinsUnderLock'
  BY <1>2, <1>3 DEF JoinsUnderLock
<1>10. JoinedAreDone'
  <2>1. \A s \in left' : Done(s)'
    BY <1>1, <1>2, <1>4 DEF JoinedAreDone, Done
  <2>2. ASSUME NEW u \in Thread, NEW s \in Slot, s < next'[u]
        PROVE  s \in joined'
    <3>1. u # t
      BY <1>1, <1>2, <2>2 DEF Slot
    <3> QED
      BY <1>1, <1>2, <2>2, <3>1 DEF JoinedAreDone
  <2>3. joined' \subseteq left'
    BY <1>2 DEF JoinedAreDone
  <2> QED
    BY <2>1, <2>2, <2>3 DEF JoinedAreDone
<1>11. OneStopper'
  <2>1. \A u \in stopping' : cpc'[u] \in WaitPC /\ serverFd' = "shut"
    BY <1>1, <1>2, <1>3 DEF OneStopper
  <2>2. \A u \in Thread : cpc'[u] = "close" =>
                            serverFd' = "shut" /\ joined' = Slot
    BY <1>2, <1>6, <1>7 DEF OneStopper
  <2> QED
    BY <1>2, <1>7, <2>1, <2>2 DEF OneStopper
<1> QED
  BY <1>8, <1>9, <1>10, <1>11 DEF Stop

(* The one thread that stops the server closes its socket.                   *)
LEMMA StopCloses ==
  ASSUME IInv, CallFrame, NEW t \in Thread, CloseListenSocket(t)
  PROVE  Stop'
<1> USE DEF IInv, CallFrame, acceptorVars, poolVars, flagVars, Goto, WaitPC,
            StopPC
<1>1. /\ DOMAIN cpc = Thread /\ stopping \subseteq Thread
      /\ UNCHANGED <<queue, active, closed, tokenStopped, shutdownFlag, joined,
                     apc, server, mtx, next, stopping>>
      /\ cpc[t] = "close" /\ cpc' = [cpc EXCEPT ![t] = "idle"]
      /\ serverFd' = "closed" /\ stopped' = TRUE
  BY DEF TypeOK, CloseListenSocket
<1>2. /\ Stopper(t) /\ tokenStopped /\ shutdownFlag /\ joined = Slot
      /\ server = "up"
  BY <1>1 DEF OneStopper, ClosedByStop, Stopper
<1>3. \A u \in Thread : Stopper(u) => u = t
  BY <1>2 DEF OneStopper
<1>4. stopping = {}
  BY <1>1, <1>3 DEF OneStopper, Stopper
<1>5. \A u \in Thread : ~Stopper(u)' /\ cpc'[u] # "close"
  BY <1>1, <1>3, <1>4 DEF Stopper
<1>6. ClosedByStop'
  BY <1>1, <1>2, <1>5 DEF ClosedByStop
<1>7. JoinsUnderLock'
  BY <1>1 DEF JoinsUnderLock
<1>8. JoinedAreDone'
  BY <1>1 DEF JoinedAreDone, Done
<1>9. OneStopper'
  BY <1>1, <1>2, <1>4, <1>5 DEF OneStopper
<1> QED
  BY <1>6, <1>7, <1>8, <1>9 DEF Stop

(* Every step keeps what is known of stop and joins.                         *)
LEMMA StopStep ==
  ASSUME IInv, [Next]_vars
  PROVE  Stop'
<1>1. CASE UNCHANGED vars
  BY <1>1, StopUnmoved DEF vars, poolVars, acceptorVars
<1>2. ASSUME NEW k \in Client,
             ClientStep(Connect(k)) \/ ClientStep(SendOrHangUp(k))
      PROVE  Stop'
  BY <1>2, StopUnmoved DEF ClientStep, poolVars, acceptorVars
<1>3. CASE AcceptorStep \/ (AcceptFails(FALSE) /\ AcceptorFrame)
  <2>1. AcceptorFrame /\ UNCHANGED <<active, closed>>
    BY <1>3 DEF AcceptorStep, AcceptorLoops, Accept, AcceptFails,
                AcceptorChecks, AcceptorSubmits, Pool!Accept, poolVars
  <2>2. apc # "off" /\ apc' # "off"
    BY <1>3 DEF AcceptorStep, AcceptorLoops, Accept, AcceptFails,
                AcceptorChecks, AcceptorSubmits, AfterAcceptFailed
  <2>3. closed => queue' = queue
    BY <1>3 DEF AcceptorStep, AcceptorLoops, Accept, AcceptFails,
                AcceptorChecks, AcceptorSubmits, Pool!Accept, poolVars
  <2> QED
    BY <2>1, <2>2, <2>3, StopUnmoved DEF AcceptorFrame
<1>4. ASSUME NEW w \in Slot, NEW state, Returns(w, state)
      PROVE  /\ UNCHANGED <<queue, closed>>
             /\ \A s \in Slot : active[s] = NoClient => active'[s] = NoClient
  BY <1>4 DEF Returns, Pool!Finish, IInv, TypeOK, Pool!TypeOK
<1>5. ASSUME NEW w \in Slot, HandlerStep(w) PROVE Stop'
  <2>1. /\ UNCHANGED closed
        /\ queue = <<>> => queue' = <<>>
        /\ \A s \in Slot : queue = <<>> /\ active[s] = NoClient =>
                             active'[s] = NoClient
    BY <1>4, <1>5
    DEF HandlerStep, WorkerTakes, Pool!Start, ReadRequest, ReadFails,
        Responds, WritesAnswer, HandlerThrows, Upgrades, poolVars
  <2> QED
    BY <1>5, <2>1, StopUnmoved DEF HandlerStep, acceptorVars
<1>9. ASSUME NEW s \in Slot, WorkerLeaves(s) PROVE Stop'
  BY <1>9, StopLeaves
<1>6. ASSUME NEW t \in Thread, CallFrame, RequestStopThrows(t) PROVE Stop'
  BY <1>4, <1>6, StopUnmoved DEF CallFrame, RequestStopThrows, acceptorVars
<1>7. ASSUME NEW t \in Thread, CallStep(t) PROVE Stop'
  BY <1>7, StopUntilJoin, StopWaits, StopJoins, StopUnlocks, StopCloses
  DEF CallStep
<1>8. ASSUME NEW t \in Thread, CallFrame,
             RequestStop(t) \/ SpuriousWakeup(t) \/ WaitForExit(t)
      PROVE  Stop'
  BY <1>8, StopUntilJoin, StopWaits
<1> QED
  BY <1>1, <1>2, <1>3, <1>5, <1>6, <1>7, <1>8, <1>9, StopLife
  DEF Next, Terminated, Thread

-----------------------------------------------------------------------------
(* The inductive invariant holds in every state of every server: the types,*)
(* who holds each descriptor, who joins the pool and what a stop leaves.   *)
THEOREM ServerInvariant == Spec => []IInv
<1>1. IInv /\ [Next]_vars => IInv'
  BY TypeOKStep, HoldersStep, StopStep DEF IInv, Holding, Stop
<1> QED
  BY InitIInv, <1>1, PTL DEF Spec

(* A descriptor that the acceptor, the queue or a worker holds is held at  *)
(* one place only and is open there: whatever the interleaving of accept,  *)
(* submit, the workers and a stop, no descriptor is closed or handed to    *)
(* ws_app_ by one thread while another may still use it.                   *)
THEOREM DescriptorsHaveOneHolder == Spec => []OneHolder
BY ServerInvariant, PTL DEF IInv

(* A connection that was accepted, is still open and has no holder was     *)
(* never submitted only if the pool was closed by a stop that had set      *)
(* shutdown_flag: a running server hands every connection to its pool.     *)
THEOREM ConnectionsAreSubmitted == Spec => []DroppedOnlyInShutdown
BY ServerInvariant, PTL DEF IInv

(* The threads in request_stop and wait_for_exit, handlers among them,     *)
(* never join the workers of the pool at the same time, because mtx is     *)
(* held during the whole join.                                             *)
THEOREM OneThreadJoins == Spec => []JoinersExclude
<1>1. IInv => JoinersExclude
  BY DEF IInv, JoinsUnderLock, JoinersExclude
<1> QED
  BY <1>1, ServerInvariant, PTL

(* With a worker at least, a request_stop that returned leaves no          *)
(* connection in the queue or in a worker, every worker joined and the     *)
(* listening socket closed, and who is about to close that socket finds it *)
(* shut down, not closed.                                                  *)
THEOREM StopLeavesNothing ==
  ASSUME NumThreads # 0
  PROVE  Spec => []StopIsComplete
<1>1. IInv => StopIsComplete
  <2> SUFFICES ASSUME IInv PROVE StopIsComplete
    OBVIOUS
  <2>1. 1 \in Slot
    BY ServerAssumption DEF Slot
  <2>2. joined = Slot => queue = <<>> /\ \A s \in Slot : active[s] = NoClient
    BY <2>1 DEF IInv, JoinedAreDone, Done
  <2> QED
    BY <2>2 DEF IInv, ClosedByStop, OneStopper, StopIsComplete
<1> QED
  BY <1>1, ServerInvariant, PTL
=============================================================================
