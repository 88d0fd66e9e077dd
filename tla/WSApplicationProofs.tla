------------------------ MODULE WSApplicationProofs ------------------------
(***************************************************************************)
(* Proofs about WSApplication for any number of clients, workers and       *)
(* descriptor numbers: whose descriptor an entry has, which events the     *)
(* listener thread dispatches, and in which order the handlers are called. *)
(***************************************************************************)
EXTENDS WSApplication, FiniteSetTheorems, SequenceTheorems, TLAPS

(* What the assumptions say of the constants.                                *)
LEMMA Constants ==
  /\ NoFd \notin Fd /\ NoFd = 0 /\ L!NoFd = 0
  /\ Cardinality(Conn) \in Nat /\ 0 \in Id /\ Id \subseteq Nat
<1>1. Cardinality(Conn) \in Nat
  BY WSAssumption, FS_CardinalityType
<1> QED
  BY <1>1, WSAssumption DEF NoFd, L!NoFd, Id

(* The initial states. *)
LEMMA InitIInv == Init => IInv
<1> SUFFICES ASSUME Init PROVE IInv
  OBVIOUS
<1> USE Constants, WSAssumption DEF Init, L!ListenerInit
<1>1. TypeOK
  <2>1. L!ListenerTypeOK
    <3>1. <<>> \in Seq(Fd)
      OBVIOUS
    <3> QED
      BY <3>1 DEF L!ListenerTypeOK
  <2>2. inbox \in [Conn -> Seq({"message", "bad", "eof"})]
    <3>1. <<>> \in Seq({"message", "bad", "eof"})
      OBVIOUS
    <3> QED
      BY <3>1
  <2>3. /\ sent \in [Conn -> 0 .. MaxFrames] /\ delivered \in [Conn -> Nat]
        /\ closes \in [Conn -> Nat]
    OBVIOUS
  <2>4. connections \in [Id -> Fd \cup {NoFd}] /\ wid \in [Worker -> Id]
    OBVIOUS
  <2> QED
    BY <2>1, <2>2, <2>3, <2>4 DEF TypeOK
<1>2. OneFilePerClient /\ EntriesOwnTheirFd /\ UpgradesOwnTheirFd
  BY DEF OneFilePerClient, EntriesOwnTheirFd, UpgradesOwnTheirFd
<1>3. CounterLags
  <2>1. Numbering = {} /\ Begun = {}
    BY DEF Numbering, Begun
  <2> QED
    BY <2>1, FS_EmptySet DEF CounterLags
<1>4. NoStaleEvent /\ ListenerHasEntry
  BY DEF NoStaleEvent, ListenerHasEntry
<1>5. ClosedOnce /\ NotYetClosed
  BY DEF ClosedOnce, NotYetClosed
<1>6. SpeaksWhenAnswered
  BY DEF SpeaksWhenAnswered, Answered, Waiting
<1>7. FramesAreCounted
  BY DEF FramesAreCounted, Handling
<1> QED
  BY <1>1, <1>2, <1>3, <1>4, <1>5, <1>6, <1>7 DEF IInv

(* Types.  The numbers that the workers read stay in Id because the counter *)
(* stays behind the number of upgrades that have begun.                     *)
LEMMA CounterInId ==
  ASSUME IInv, NEW w \in Worker, wpc[w] = "store"
  PROVE  wid[w] + 1 \in Id
<1>1. IsFiniteSet(Numbering) /\ w \in Numbering
  BY WSAssumption, FS_Subset DEF Numbering
<1>2. Cardinality(Numbering) \in Nat /\ Cardinality(Numbering) # 0
  BY <1>1, FS_CardinalityType, FS_EmptySet
<1>3. Begun \in SUBSET Conn
  BY DEF Begun
<1>4. IsFiniteSet(Begun) /\ Cardinality(Begun) <= Cardinality(Conn)
  BY <1>3, WSAssumption, FS_Subset
<1>5. Cardinality(Begun) \in Nat
  BY <1>4, FS_CardinalityType
<1>6. wid[w] \in Nat
  BY Constants DEF IInv, TypeOK
<1> QED
  BY <1>2, <1>4, <1>5, <1>6, Constants DEF IInv, CounterLags, Id

(* A client's step keeps the types.                                          *)
LEMMA TypesClient ==
  ASSUME IInv, NEW k \in Conn, ClientStep(k)
  PROVE  TypeOK'
<1>0. TypeOK
  BY DEF IInv
<1> USE DEF ClientStep, listenerVars, messageVars, workerVars, mapVars,
            callbackVars, L!ListenerTypeOK
<1>1. CASE Accept(k)
  BY <1>0, <1>1 DEF TypeOK, Accept
<1>2. ASSUME NEW x \in {"message", "bad", "eof"}, ClientSends(k, x)
      PROVE  TypeOK'
  <2>1. inbox' \in [Conn -> Seq({"message", "bad", "eof"})]
    <3>1. inbox[k] \in Seq({"message", "bad", "eof"})
      BY <1>0 DEF TypeOK
    <3>2. Append(inbox[k], x) \in Seq({"message", "bad", "eof"})
      BY <3>1
    <3> QED
      BY <1>0, <1>2, <3>2 DEF TypeOK, ClientSends
  <2>2. sent' \in [Conn -> 0 .. MaxFrames]
    <3>1. sent[k] + 1 \in 0 .. MaxFrames
      BY <1>0, <1>2, WSAssumption DEF TypeOK, ClientSends
    <3> QED
      BY <1>0, <1>2, <3>1 DEF TypeOK, ClientSends
  <2>3. early' \subseteq Conn
    BY <1>0, <1>2 DEF TypeOK, ClientSends
  <2> QED
    BY <1>0, <1>2, <2>1, <2>2, <2>3 DEF TypeOK, ClientSends
<1> QED
  BY <1>1, <1>2, WSAssumption DEF SendsFrame, Disconnects

(* The variables that an upgrade changes. *)
UpgradeTypes ==
  /\ L!ListenerTypeOK
  /\ connections \in [Id -> Fd \cup {NoFd}]
  /\ counter \in Id
  /\ idConn \in [Id -> Conn \cup {NoConn}]
  /\ wpc \in [Worker -> {"idle", "load", "store", "emplace", "register",
                         "open", "opening", "respond"}]
  /\ wfd \in [Worker -> Fd \cup {NoFd}]
  /\ wconn \in [Worker -> Conn \cup {NoConn}]
  /\ wid \in [Worker -> Id]
  /\ file \in [Fd -> Conn \cup {NoConn}]
  /\ state \in [Conn -> {"new", "accepted", "upgrading", "rejected",
                         "closed"}]
  /\ responses \in [Conn -> SUBSET Conn]
  /\ opened \in [Conn -> {"no", "running", "done", "threw"}]

(* So does a step of a worker that upgrades a connection.                    *)
LEMMA TypesUpgrade ==
  ASSUME IInv, NEW w \in Worker, UpgradeStep(w)
  PROVE  TypeOK'
<1>0. TypeOK /\ UpgradeTypes
  BY DEF IInv, TypeOK, UpgradeTypes
<1> USE DEF L!ListenerTypeOK, listenerVars, mapVars
<1>1. ASSUME wpc[w] # "idle"
      PROVE  wfd[w] \in Fd /\ wconn[w] \in Conn /\ wid[w] \in Id
  BY <1>0, <1>1 DEF IInv, UpgradesOwnTheirFd, TypeOK
<1>2. ASSUME WorkerReturns(w)
      PROVE  /\ wpc' \in [Worker -> {"idle", "load", "store", "emplace",
                                     "register", "open", "opening", "respond"}]
             /\ wfd' \in [Worker -> Fd \cup {NoFd}]
             /\ wconn' \in [Worker -> Conn \cup {NoConn}]
             /\ wid' \in [Worker -> Id]
  BY <1>0, <1>2, Constants DEF WorkerReturns, UpgradeTypes
<1>3. ASSUME BeginUpgrade(w) PROVE UpgradeTypes'
  BY <1>0, <1>3 DEF BeginUpgrade, UpgradeTypes
<1>4. ASSUME LoadCounter(w) PROVE UpgradeTypes'
  BY <1>0, <1>4 DEF LoadCounter, UpgradeTypes
<1>5. ASSUME StoreCounter(w) PROVE UpgradeTypes'
  <2>1. counter' \in Id
    BY <1>5, CounterInId DEF StoreCounter
  <2> QED
    BY <1>0, <1>5, <2>1 DEF StoreCounter, UpgradeTypes
<1>6. ASSUME Emplace(w) PROVE UpgradeTypes'
  BY <1>0, <1>1, <1>6 DEF Emplace, UpgradeTypes
<1>7. ASSUME EmplaceFails(w) PROVE UpgradeTypes'
  BY <1>0, <1>1, <1>2, <1>7 DEF EmplaceFails, UpgradeTypes
<1>8. ASSUME RegisterSocket(w) PROVE UpgradeTypes'
  BY <1>0, <1>1, <1>8 DEF RegisterSocket, L!AddSocket, UpgradeTypes
<1>9. ASSUME OpenHandlerBegins(w) \/ OpenHandlerReturns(w) PROVE UpgradeTypes'
  BY <1>0, <1>1, <1>9 DEF OpenHandlerBegins, OpenHandlerReturns, UpgradeTypes
<1>10. ASSUME OpenHandlerThrows(w) PROVE UpgradeTypes'
  BY <1>0, <1>1, <1>2, <1>10 DEF OpenHandlerThrows, UpgradeTypes
<1>11. ASSUME Respond(w) PROVE UpgradeTypes'
  <2>1. responses' \in [Conn -> SUBSET Conn]
    BY <1>0, <1>1, <1>11 DEF Respond, UpgradeTypes
  <2> QED
    BY <1>0, <1>2, <1>11, <2>1 DEF Respond, UpgradeTypes
<1>13. ASSUME RegisterSocketFails(w) PROVE UpgradeTypes'
  BY <1>0, <1>1, <1>2, <1>13 DEF RegisterSocketFails, UpgradeTypes
<1>12. UpgradeTypes'
  BY <1>13, <1>3, <1>4, <1>5, <1>6, <1>7, <1>8, <1>9, <1>10, <1>11 DEF UpgradeStep
<1> QED
  BY <1>0, <1>12 DEF UpgradeStep, UpgradeTypes, TypeOK, messageVars

(* So does a step of process_message.                                        *)
LEMMA TypesMessage ==
  ASSUME IInv, MessageStep
  PROVE  TypeOK'
<1>0. TypeOK
  BY DEF IInv
<1> DEFINE types == /\ interest' \subseteq Fd
                    /\ lpc' \in {"callback", "dispatch"}
                    /\ lfd' \in Fd \cup {NoFd}
                    /\ connections' \in [Id -> Fd \cup {NoFd}]
                    /\ lid' \in Id
                    /\ ppc' \in {"idle", "read", "message", "close",
                                 "remove", "erase"}
                    /\ file' \in [Fd -> Conn \cup {NoConn}]
                    /\ state' \in [Conn -> {"new", "accepted", "upgrading",
                                            "rejected", "closed"}]
                    /\ inbox' \in [Conn -> Seq({"message", "bad", "eof"})]
                    /\ delivered' \in [Conn -> Nat]
                    /\ closes' \in [Conn -> Nat]
<1>1. /\ interest \subseteq Fd /\ running \in BOOLEAN
      /\ lfd \in Fd \cup {NoFd}
      /\ batch \in Seq(Fd)
      /\ lpc = "callback"
  BY <1>0
  DEF TypeOK, L!ListenerTypeOK, IInv, ListenerHasEntry, MessageStep,
      FindConnection, ReadFrame, CallMessageHandler, CallCloseHandler,
      RemoveFromListener, EraseConnection
<1>2. ASSUME ProcessReturns
      PROVE  lpc' = "dispatch" /\ lfd' = NoFd /\ ppc' = "idle" /\ lid' \in Id
  BY <1>2, Constants DEF ProcessReturns, L!CallbackReturns
<1>3. ASSUME ppc # "idle"
      PROVE  /\ connections[lid] = lfd /\ lfd \in Fd
             /\ file[lfd] \in Conn /\ idConn[lid] = file[lfd]
  <2>1. connections[lid] = lfd /\ lfd \in Fd /\ lid \in Id
    BY <1>0, <1>3 DEF IInv, ListenerHasEntry, TypeOK
  <2> QED
    BY <1>0, <2>1, Constants DEF IInv, EntriesOwnTheirFd, TypeOK
<1>4. ASSUME FindConnection PROVE types
  BY <1>0, <1>1, <1>4 DEF TypeOK, FindConnection
<1>5. ASSUME ReadFrame PROVE types
  <2>1. inbox' \in [Conn -> Seq({"message", "bad", "eof"})]
    <3>1. CASE inbox[file[lfd]] = <<>>
      BY <1>0, <1>3, <1>5, <3>1 DEF TypeOK, ReadFrame
    <3>2. CASE inbox[file[lfd]] # <<>>
      <4>1. inbox[file[lfd]] \in Seq({"message", "bad", "eof"})
        BY <1>0, <1>3, <1>5 DEF TypeOK, ReadFrame
      <4>2. Tail(inbox[file[lfd]]) \in Seq({"message", "bad", "eof"})
        BY <3>2, <4>1
      <4>3. inbox' = [inbox EXCEPT ![file[lfd]] = Tail(@)]
        BY <1>3, <1>5, <3>2 DEF ReadFrame
      <4> QED
        BY <1>0, <4>2, <4>3 DEF TypeOK
    <3> QED
      BY <3>1, <3>2
  <2> QED
    BY <1>0, <1>1, <1>5, <2>1 DEF TypeOK, ReadFrame, Outcome
<1>6. ASSUME CallMessageHandler PROVE types
  <2>1. delivered' \in [Conn -> Nat]
    BY <1>0, <1>3, <1>6 DEF TypeOK, CallMessageHandler
  <2> QED
    BY <1>0, <1>1, <1>2, <1>6, <2>1 DEF TypeOK, CallMessageHandler
<1>7. ASSUME CallCloseHandler PROVE types
  <2>1. closes' \in [Conn -> Nat]
    BY <1>0, <1>3, <1>7 DEF TypeOK, CallCloseHandler
  <2> QED
    BY <1>0, <1>1, <1>7, <2>1 DEF TypeOK, CallCloseHandler
<1>8. ASSUME RemoveFromListener PROVE types
  BY <1>0, <1>1, <1>8 DEF TypeOK, RemoveFromListener, L!RemoveSocket
<1>9. ASSUME EraseConnection PROVE types
  <2>1. /\ connections' \in [Id -> Fd \cup {NoFd}]
        /\ file' \in [Fd -> Conn \cup {NoConn}]
        /\ state' \in [Conn -> {"new", "accepted", "upgrading", "rejected",
                                "closed"}]
    BY <1>0, <1>3, <1>9 DEF TypeOK, EraseConnection
  <2> QED
    BY <1>0, <1>1, <1>2, <1>9, <2>1 DEF TypeOK, EraseConnection
<1>10. types /\ UNCHANGED <<running, batch>>
  BY <1>4, <1>5, <1>6, <1>7, <1>8, <1>9 DEF MessageStep
<1> QED
  BY <1>0, <1>1, <1>10
  DEF MessageStep, workerVars, TypeOK, L!ListenerTypeOK, NoFd

(* What the listener thread does by itself. *)
LEMMA BatchIsReady ==
  ASSUME IInv, Waits
  PROVE  /\ batch' \in Seq(Fd)
         /\ \A i, j \in DOMAIN batch' : batch'[i] = batch'[j] => i = j
         /\ \A i \in DOMAIN batch' : batch'[i] \in interest \cap Readable
<1> DEFINE ready == interest \cap Readable
<1>1. ready \subseteq Fd
  BY DEF Readable
<1>2. batch' \in L!Batches(ready)
  BY DEF Waits, L!EpollReturns
<1> HIDE DEF ready
<1>3. PICK n \in 0 .. MaxEvents :
        /\ batch' \in [1 .. n -> ready]
        /\ \A i, j \in 1 .. n : batch'[i] = batch'[j] => i = j
  BY <1>2 DEF L!Batches
<1>4. n \in Nat /\ batch' \in [1 .. n -> Fd]
  <2>1. n \in Nat
    BY WSAssumption
  <2>2. batch' \in [1 .. n -> Fd]
    BY <1>1, <1>3
  <2> QED
    BY <2>1, <2>2
<1>5. batch' \in Seq(Fd)
  BY <1>4, SeqDef
<1>6. \A i \in DOMAIN batch' : batch'[i] \in interest \cap Readable
  BY <1>3 DEF ready
<1> QED
  BY <1>3, <1>5, <1>6

(* Dispatch takes a ready descriptor from the batch, and what is left of the *)
(* batch does not name it again.                                             *)
LEMMA DispatchTakesHead ==
  ASSUME IInv, L!Dispatch, batch # <<>>
  PROVE  /\ lfd' \in interest \cap Readable
         /\ batch' \in Seq(Fd)
         /\ \A i \in DOMAIN batch' : batch'[i] # lfd'
         /\ \A i \in DOMAIN batch' :
              \E j \in DOMAIN batch : batch'[i] = batch[j]
         /\ \A i, j \in DOMAIN batch' : batch'[i] = batch'[j] => i = j
<1>1. batch \in Seq(Fd)
  BY DEF IInv, TypeOK, L!ListenerTypeOK
<1>2. lfd' = batch[1] /\ batch' = Tail(batch) /\ 1 \in DOMAIN batch
  BY <1>1 DEF L!Dispatch
<1>3. /\ DOMAIN batch = 1 .. Len(batch) /\ Len(batch) \in Nat
      /\ DOMAIN batch' = 1 .. Len(batch) - 1
      /\ batch' \in Seq(Fd)
      /\ \A i \in 1 .. Len(batch) - 1 : batch'[i] = batch[i + 1]
  BY <1>1, <1>2
<1>4. \A i, j \in DOMAIN batch : batch[i] = batch[j] => i = j
  BY DEF IInv, NoStaleEvent
<1>5. \A i \in DOMAIN batch' : i + 1 \in DOMAIN batch /\ i + 1 # 1
  BY <1>3
<1>6. \A i, j \in DOMAIN batch' : i + 1 = j + 1 => i = j
  BY <1>3
<1> QED
  BY <1>2, <1>3, <1>4, <1>5, <1>6 DEF IInv, NoStaleEvent

(* The steps of the listener's loop and of stop keep the types.              *)
LEMMA TypesListener ==
  ASSUME IInv, Activate \/ Stop \/ Waits \/ Fails \/ Loops
  PROVE  TypeOK'
<1>0. TypeOK
  BY DEF IInv
<1> USE DEF messageVars, workerVars, mapVars, clientVars, callbackVars,
            L!ListenerTypeOK
<1>1. L!ListenerTypeOK'
  <2>1. CASE Activate \/ Stop
    BY <1>0, <2>1 DEF TypeOK, Activate, Stop, L!CreateThread, L!Stop
  <2>2. CASE Waits
    BY <1>0, <2>2, BatchIsReady DEF TypeOK, Waits, L!EpollReturns
  <2>3. CASE L!SetRunning \/ L!TestRunning \/ L!EpollReturnsNothing
    BY <1>0, <2>3
    DEF TypeOK, L!SetRunning, L!TestRunning, L!EpollReturnsNothing
  <2>6. CASE Fails
    BY <1>0, <2>6 DEF TypeOK, Fails, L!EpollFails
  <2>4. CASE L!Dispatch /\ batch # <<>>
    BY <1>0, <2>4, DispatchTakesHead DEF TypeOK, L!Dispatch
  <2>5. CASE L!Dispatch /\ batch = <<>>
    BY <1>0, <2>5 DEF TypeOK, L!Dispatch
  <2> QED
    BY <2>1, <2>2, <2>3, <2>4, <2>5, <2>6 DEF Loops
<1>2. UNCHANGED <<messageVars, workerVars, mapVars, file, clientVars, opened,
                  delivered, closes>>
  BY DEF Activate, Stop, Waits, Fails, Loops
<1>3. stopCalled' \in BOOLEAN
  BY <1>0 DEF TypeOK, Activate, Stop, Waits, Fails, Loops
<1> QED
  BY <1>0, <1>1, <1>2, <1>3 DEF TypeOK

-----------------------------------------------------------------------------
(* The counter of the ids. *)
LEMMA NumberingFacts ==
  ASSUME IInv
  PROVE  /\ IsFiniteSet(Numbering) /\ Cardinality(Numbering) \in Nat
         /\ IsFiniteSet(Begun) /\ Cardinality(Begun) \in Nat
         /\ counter \in Nat
         /\ \A w \in Worker : wid[w] \in Nat
<1>1. Numbering \in SUBSET Worker /\ Begun \in SUBSET Conn
  BY DEF Numbering, Begun
<1>2. IsFiniteSet(Numbering) /\ IsFiniteSet(Begun)
  BY <1>1, WSAssumption, FS_Subset
<1>3. Cardinality(Numbering) \in Nat /\ Cardinality(Begun) \in Nat
  BY <1>2, FS_CardinalityType
<1>4. counter \in Id /\ \A w \in Worker : wid[w] \in Id
  BY DEF IInv, TypeOK
<1> QED
  BY <1>2, <1>3, <1>4, Constants

(* Nobody begins an upgrade or reads or writes the counter. *)
LEMMA CounterUnmoved ==
  ASSUME IInv, UNCHANGED <<counter, Begun, Numbering>>,
         \A w \in Numbering : wpc'[w] = wpc[w] /\ wid'[w] = wid[w]
  PROVE  CounterLags'
BY DEF IInv, CounterLags, Numbering

(* connection_counter stays behind the upgrades that have begun, although    *)
(* increments of it are lost.                                                *)
LEMMA CounterStep ==
  ASSUME IInv, [Next]_vars
  PROVE  CounterLags'
<1>0. /\ DOMAIN state = Conn /\ DOMAIN wpc = Worker /\ DOMAIN wid = Worker
      /\ file \in [Fd -> Conn \cup {NoConn}]
  BY DEF IInv, TypeOK
<1>1. CASE UNCHANGED <<counter, state, wpc, wid>>
  BY <1>1, CounterUnmoved DEF Begun, Numbering
<1>2. ASSUME NEW k \in Conn, ClientStep(k), Accept(k) PROVE CounterLags'
  <2>1. UNCHANGED <<counter, wpc, wid>>
    BY <1>2 DEF ClientStep, workerVars, mapVars
  <2>2. Begun' = Begun
    BY <1>0, <1>2 DEF Accept, Begun
  <2> QED
    BY <2>1, <2>2, CounterUnmoved DEF Numbering
<1>3. CASE MessageStep
  <2>1. CASE EraseConnection
    <3>1. UNCHANGED <<counter, wpc, wid>>
      BY <1>3 DEF MessageStep, workerVars
    <3>2. /\ connections[lid] = lfd /\ lfd \in Fd /\ lid \in Id
          /\ lfd # NoFd
      BY <2>1, Constants
      DEF EraseConnection, IInv, TypeOK, ListenerHasEntry
    <3>3. state[idConn[lid]] = "upgrading" /\ idConn[lid] \in Conn
      BY <1>0, <3>2 DEF IInv, OneFilePerClient, EntriesOwnTheirFd
    <3>4. Begun' = Begun
      BY <1>0, <2>1, <3>3 DEF EraseConnection, Begun
    <3> QED
      BY <3>1, <3>4, CounterUnmoved DEF Numbering
  <2> QED
    BY <1>1, <1>3, <2>1
    DEF MessageStep, workerVars, FindConnection, ReadFrame,
        CallMessageHandler, CallCloseHandler, RemoveFromListener
<1>4. ASSUME NEW w \in Worker, UpgradeStep(w) PROVE CounterLags'
  <2>1. CASE BeginUpgrade(w)
    <3>1. PICK f \in Fd :
            /\ file[f] # NoConn /\ state[file[f]] = "accepted"
            /\ state' = [state EXCEPT ![file[f]] = "upgrading"]
      BY <2>1 DEF BeginUpgrade
    <3>2. file[f] \in Conn /\ file[f] \notin Begun
      BY <1>0, <3>1 DEF Begun
    <3>3. Begun' = Begun \cup {file[f]}
      BY <1>0, <3>1, <3>2 DEF Begun
    <3>4. Cardinality(Begun') = Cardinality(Begun) + 1
      BY <3>2, <3>3, NumberingFacts, FS_AddElement
    <3>5. w \notin Numbering /\ Numbering' = Numbering \cup {w}
      BY <1>0, <2>1 DEF BeginUpgrade, Numbering
    <3>6. Cardinality(Numbering') = Cardinality(Numbering) + 1
      BY <3>5, NumberingFacts, FS_AddElement
    <3>7. counter' + Cardinality(Numbering') <= Cardinality(Begun')
      BY <2>1, <3>4, <3>6, NumberingFacts
      DEF BeginUpgrade, mapVars, IInv, CounterLags
    <3>8. ASSUME NEW v \in Worker, wpc'[v] = "store"
          PROVE  wid'[v] + Cardinality(Numbering') <= Cardinality(Begun')
      <4>1. wpc[v] = "store" /\ wid'[v] = wid[v]
        BY <1>0, <2>1, <3>8 DEF BeginUpgrade
      <4>2. wid[v] + Cardinality(Numbering) <= Cardinality(Begun)
        BY <4>1 DEF IInv, CounterLags
      <4>3. wid[v] \in Nat
        BY NumberingFacts
      <4> QED
        BY <3>4, <3>6, <4>1, <4>2, <4>3, NumberingFacts
    <3> QED
      BY <3>7, <3>8 DEF CounterLags
  <2>2. CASE LoadCounter(w)
    <3>1. Numbering' = Numbering
      BY <1>0, <2>2 DEF LoadCounter, Numbering
    <3>2. Begun' = Begun /\ counter' = counter
      BY <2>2 DEF LoadCounter, Begun, mapVars
    <3>3. \A v \in Worker : wpc'[v] = "store" =>
            wid'[v] = counter \/ (wpc[v] = "store" /\ wid'[v] = wid[v])
      BY <1>0, <2>2 DEF LoadCounter
    <3> QED
      BY <3>1, <3>2, <3>3 DEF IInv, CounterLags
  <2>3. CASE StoreCounter(w)
    <3>1. w \in Numbering /\ Numbering' = Numbering \ {w}
      BY <1>0, <2>3 DEF StoreCounter, Numbering
    <3>2. Cardinality(Numbering') = Cardinality(Numbering) - 1
      BY <3>1, NumberingFacts, FS_RemoveElement
    <3>3. Begun' = Begun /\ counter' = wid[w] + 1 /\ wid' = wid
      BY <2>3 DEF StoreCounter, Begun
    <3>4. wid[w] + Cardinality(Numbering) <= Cardinality(Begun)
      BY <2>3 DEF StoreCounter, IInv, CounterLags
    <3>5. wid[w] \in Nat
      BY NumberingFacts
    <3>6. counter' + Cardinality(Numbering') <= Cardinality(Begun')
      BY <3>2, <3>3, <3>4, <3>5, NumberingFacts
    <3>7. ASSUME NEW v \in Worker, wpc'[v] = "store"
          PROVE  wid'[v] + Cardinality(Numbering') <= Cardinality(Begun')
      <4>1. wpc[v] = "store"
        BY <1>0, <2>3, <3>7 DEF StoreCounter
      <4>2. wid[v] + Cardinality(Numbering) <= Cardinality(Begun)
        BY <4>1 DEF IInv, CounterLags
      <4>3. wid[v] \in Nat
        BY NumberingFacts
      <4> QED
        BY <3>2, <3>3, <4>2, <4>3, NumberingFacts
    <3> QED
      BY <3>6, <3>7 DEF CounterLags
  <2>4. CASE EmplaceFails(w)
    <3>1. wconn[w] \in Conn /\ state[wconn[w]] = "upgrading"
      BY <2>4 DEF EmplaceFails, IInv, UpgradesOwnTheirFd
    <3>2. Begun' = Begun
      BY <1>0, <2>4, <3>1 DEF EmplaceFails, Begun
    <3>3. Numbering' = Numbering /\ w \notin Numbering
      BY <1>0, <2>4 DEF EmplaceFails, WorkerReturns, Numbering
    <3>4. \A v \in Numbering : wpc'[v] = wpc[v] /\ wid'[v] = wid[v]
      BY <1>0, <2>4, <3>3 DEF EmplaceFails, WorkerReturns, Numbering
    <3> QED
      BY <2>4, <3>2, <3>3, <3>4, CounterUnmoved DEF EmplaceFails, mapVars
  <2>5. CASE \/ Emplace(w) \/ RegisterSocket(w) \/ RegisterSocketFails(w)
             \/ OpenHandlerBegins(w) \/ OpenHandlerReturns(w)
             \/ OpenHandlerThrows(w) \/ Respond(w)
    <3>1. UNCHANGED <<state, counter>>
      BY <2>5 DEF Emplace, RegisterSocket, OpenHandlerBegins,
                  OpenHandlerReturns, OpenHandlerThrows, RegisterSocketFails,
                  Respond, mapVars
    <3>2. /\ wpc[w] \in {"emplace", "register", "open", "opening", "respond"}
          /\ wpc'[w] \notin {"load", "store"}
          /\ \A v \in Worker \ {w} : wpc'[v] = wpc[v] /\ wid'[v] = wid[v]
      BY <1>0, <2>5
      DEF Emplace, RegisterSocket, OpenHandlerBegins, OpenHandlerReturns,
          OpenHandlerThrows, RegisterSocketFails, Respond, WorkerReturns
    <3>3. Begun' = Begun
      BY <3>1 DEF Begun
    <3>4. w \notin Numbering /\ Numbering' = Numbering
      BY <3>2 DEF Numbering
    <3>5. \A v \in Numbering : wpc'[v] = wpc[v] /\ wid'[v] = wid[v]
      BY <3>2, <3>4 DEF Numbering
    <3> QED
      BY <3>1, <3>3, <3>4, <3>5, CounterUnmoved
  <2> QED
    BY <1>4, <2>1, <2>2, <2>3, <2>4, <2>5 DEF UpgradeStep
<1>5. CASE Activate \/ Stop \/ Waits \/ Fails \/ Loops
  BY <1>1, <1>5 DEF Activate, Stop, Waits, Fails, Loops, workerVars, mapVars,
                    clientVars
<1>6. ASSUME NEW k \in Conn, ClientStep(k), ~Accept(k) PROVE CounterLags'
  BY <1>1, <1>6
  DEF ClientStep, SendsFrame, Disconnects, ClientSends, workerVars, mapVars
<1>7. CASE UNCHANGED vars
  BY <1>1, <1>7 DEF vars, workerVars, mapVars, clientVars
<1> QED
  BY <1>2, <1>3, <1>4, <1>5, <1>6, <1>7 DEF Next, Terminated

-----------------------------------------------------------------------------
(* Whose descriptor is whose. *)
Owners == OneFilePerClient /\ EntriesOwnTheirFd /\ UpgradesOwnTheirFd

(* A step that moves no descriptor; the listener may take up another one   *)
(* that is registered.                                                     *)
LEMMA OwnersUnmoved ==
  ASSUME IInv,
         UNCHANGED <<file, state, connections, idConn, wpc, wfd, wconn, wid>>,
         interest' \subseteq interest,
         lpc' = "callback" =>
           (lpc = "callback" /\ lfd' = lfd) \/ lfd' \in interest
  PROVE  Owners'
BY DEF IInv, Owners, OneFilePerClient, EntriesOwnTheirFd, UpgradesOwnTheirFd

(* An accepted client gets a descriptor that nobody has.                     *)
LEMMA OwnersAccept ==
  ASSUME IInv, NEW k \in Conn, ClientStep(k), Accept(k)
  PROVE  Owners'
<1>1. PICK f \in Fd : file[f] = NoConn /\ file' = [file EXCEPT ![f] = k]
  BY DEF Accept
<1>2. /\ state[k] = "new" /\ state' = [state EXCEPT ![k] = "accepted"]
      /\ UNCHANGED <<connections, idConn, wpc, wfd, wconn, wid, lpc, lfd,
                     interest>>
      /\ DOMAIN file = Fd /\ DOMAIN state = Conn
      /\ \A g \in Fd : file[g] \in Conn \cup {NoConn}
      /\ connections \in [Id -> Fd \cup {NoFd}]
      /\ NoConn # k
  BY WSAssumption DEF Accept, ClientStep, listenerVars, workerVars, mapVars,
                      IInv, TypeOK
<1>3. \A g \in Fd : file[g] # k
  BY <1>2 DEF IInv, OneFilePerClient
<1>4. OneFilePerClient'
  <2>1. \A g, h \in Fd : file'[g] = file'[h] /\ file'[g] # NoConn => g = h
    BY <1>1, <1>2, <1>3 DEF IInv, OneFilePerClient
  <2>2. \A g \in Fd : file'[g] # NoConn =>
                        state'[file'[g]] \in {"accepted", "upgrading"}
    BY <1>1, <1>2, <1>3 DEF IInv, OneFilePerClient
  <2>3. \A i \in Id : connections'[i] # NoFd =>
                        state'[idConn'[i]] = "upgrading"
    BY <1>2 DEF IInv, OneFilePerClient
  <2> QED
    BY <2>1, <2>2, <2>3 DEF OneFilePerClient
<1>5. EntriesOwnTheirFd'
  BY <1>1, <1>2 DEF IInv, EntriesOwnTheirFd
<1>6. UpgradesOwnTheirFd'
  <2>1. \A w \in Worker : wpc[w] # "idle" =>
          wconn[w] \in Conn /\ wconn[w] # k /\ wconn[w] # NoConn
    BY <1>2, WSAssumption DEF IInv, UpgradesOwnTheirFd
  <2>2. \A w \in Worker : wpc[w] # "idle" =>
          state'[wconn[w]] = state[wconn[w]]
    BY <1>2, <2>1
  <2>3. \A w \in Worker : wpc[w] # "idle" /\ file[wfd[w]] = wconn[w] =>
          file'[wfd[w]] = wconn[w]
    BY <1>1, <1>2, <2>1
  <2> QED
    BY <1>2, <2>2, <2>3 DEF IInv, UpgradesOwnTheirFd
<1> QED
  BY <1>4, <1>5, <1>6 DEF Owners

(* A worker that begins an upgrade is the only one with its descriptor.      *)
LEMMA OwnersBegin ==
  ASSUME IInv, NEW w \in Worker, BeginUpgrade(w)
  PROVE  Owners'
<1>1. PICK f \in Fd :
        /\ file[f] # NoConn /\ state[file[f]] = "accepted"
        /\ wfd' = [wfd EXCEPT ![w] = f]
        /\ wconn' = [wconn EXCEPT ![w] = file[f]]
        /\ state' = [state EXCEPT ![file[f]] = "upgrading"]
  BY DEF BeginUpgrade
<1>2. /\ UNCHANGED <<connections, idConn, file, wid, lpc, lfd, interest>>
      /\ wpc[w] = "idle" /\ wpc' = [wpc EXCEPT ![w] = "load"]
      /\ file[f] \in Conn
      /\ DOMAIN state = Conn /\ DOMAIN wpc = Worker /\ DOMAIN wfd = Worker
      /\ DOMAIN wconn = Worker
  BY <1>1 DEF BeginUpgrade, mapVars, listenerVars, IInv, TypeOK
<1>3. OneFilePerClient' /\ EntriesOwnTheirFd'
  BY <1>1, <1>2 DEF IInv, OneFilePerClient, EntriesOwnTheirFd
<1>4. \A v \in Worker : wpc[v] # "idle" => wconn[v] # file[f]
  BY <1>1 DEF IInv, UpgradesOwnTheirFd
<1>5. ASSUME NEW i \in Id, connections[i] = f PROVE FALSE
  <2>1. connections[i] # NoFd
    BY <1>5, Constants
  <2>2. file[f] = idConn[i] /\ state[idConn[i]] = "upgrading"
    BY <1>5, <2>1 DEF IInv, OneFilePerClient, EntriesOwnTheirFd
  <2> QED
    BY <1>1, <2>2
<1>6. UpgradesOwnTheirFd'
  <2>1. ASSUME NEW v \in Worker, wpc'[v] # "idle", v # w
        PROVE  /\ wpc'[v] = wpc[v] /\ wfd'[v] = wfd[v]
               /\ wconn'[v] = wconn[v] /\ wconn[v] # file[f]
               /\ state'[wconn[v]] = state[wconn[v]]
    BY <1>1, <1>2, <1>4, <2>1
  <2>2. /\ wpc'[w] = "load" /\ wfd'[w] = f /\ wconn'[w] = file[f]
        /\ state'[file[f]] = "upgrading"
    BY <1>1, <1>2
  <2> QED
    BY <1>2, <1>5, <2>1, <2>2 DEF IInv, UpgradesOwnTheirFd
<1> QED
  BY <1>3, <1>6 DEF Owners

(* A worker that goes on, with its locals, or returns. *)
LEMMA OwnersMove ==
  ASSUME IInv, NEW w \in Worker,
         UNCHANGED <<file, state, connections, idConn, lpc, lfd>>,
         wpc[w] # "idle", wpc'[w] # "register",
         wpc'[w] # "idle" => wfd'[w] = wfd[w] /\ wconn'[w] = wconn[w],
         wpc'[w] \in {"load", "store", "emplace"} =>
           wpc[w] \in {"load", "store", "emplace"},
         \A v \in Worker : v # w =>
           /\ wpc'[v] = wpc[v] /\ wfd'[v] = wfd[v]
           /\ wconn'[v] = wconn[v] /\ wid'[v] = wid[v],
         \/ interest' = interest
         \/ wpc[w] = "register" /\ interest' = interest \cup {wfd[w]}
  PROVE  Owners'
<1>1. OneFilePerClient' /\ EntriesOwnTheirFd'
  BY DEF IInv, OneFilePerClient, EntriesOwnTheirFd
<1>2. ASSUME NEW v \in Worker, v # w, wpc[v] = "register"
      PROVE  wfd[v] \notin interest'
  BY <1>2 DEF IInv, UpgradesOwnTheirFd
<1>3. UpgradesOwnTheirFd'
  BY <1>2 DEF IInv, UpgradesOwnTheirFd
<1> QED
  BY <1>1, <1>3 DEF Owners

(* The new entry is the only one with its descriptor.                        *)
LEMMA OwnersEmplace ==
  ASSUME IInv, NEW w \in Worker, Emplace(w)
  PROVE  Owners'
<1> DEFINE f == wfd[w]
           i == wid[w]
<1>1. /\ UNCHANGED <<file, state, wfd, wconn, wid, lpc, lfd, interest>>
      /\ wpc[w] = "emplace" /\ wpc' = [wpc EXCEPT ![w] = "register"]
      /\ connections[i] = NoFd
      /\ connections' = [connections EXCEPT ![i] = f]
      /\ idConn' = [idConn EXCEPT ![i] = wconn[w]]
      /\ i \in Id /\ DOMAIN connections = Id /\ DOMAIN idConn = Id
      /\ DOMAIN wpc = Worker
  BY DEF Emplace, listenerVars, IInv, TypeOK
<1>2. /\ f \in Fd /\ f # NoFd /\ wconn[w] \in Conn /\ wconn[w] # NoConn
      /\ file[f] = wconn[w] /\ state[wconn[w]] = "upgrading"
      /\ \A j \in Id : connections[j] # f
  BY <1>1, Constants, WSAssumption DEF IInv, UpgradesOwnTheirFd
<1>3. OneFilePerClient'
  BY <1>1, <1>2 DEF IInv, OneFilePerClient
<1>4. EntriesOwnTheirFd'
  BY <1>1, <1>2 DEF IInv, EntriesOwnTheirFd
<1>5. f \notin interest /\ (lpc = "callback" => lfd # f)
  <2>1. f \notin interest
    BY <1>2 DEF IInv, ListenerHasEntry
  <2>2. lpc = "callback" => lfd # f
    BY <1>2, <2>1 DEF IInv, ListenerHasEntry, TypeOK
  <2> QED
    BY <2>1, <2>2
<1>6. UpgradesOwnTheirFd'
  <2>1. ASSUME NEW v \in Worker, v # w, wpc[v] # "idle"
        PROVE  wconn[v] # wconn[w]
    BY <1>1, <2>1 DEF IInv, UpgradesOwnTheirFd
  <2>2. ASSUME NEW v \in Worker, v # w,
               wpc[v] \in {"load", "store", "emplace"}
        PROVE  wfd[v] # f
    BY <1>2, <2>1, <2>2 DEF IInv, UpgradesOwnTheirFd
  <2>3. ASSUME NEW v \in Worker, v # w, wpc[v] = "register"
        PROVE  connections'[wid[v]] = connections[wid[v]]
    <3>1. connections[wid[v]] # NoFd
      BY <2>3, Constants DEF IInv, UpgradesOwnTheirFd
    <3> QED
      BY <1>1, <3>1
  <2>4. \A v \in Worker : v # w => wpc'[v] = wpc[v]
    BY <1>1
  <2>5. \A j \in Id : connections'[j] = connections[j] \/ connections'[j] = f
    BY <1>1
  <2>6. wpc'[w] = "register" /\ connections'[wid[w]] = f
    BY <1>1
  <2>7. ASSUME NEW v \in Worker, v # w, wpc'[v] # "idle"
        PROVE  /\ wfd[v] \in Fd /\ wconn[v] \in Conn
               /\ state[wconn[v]] \notin {"new", "accepted"}
               /\ \A u \in Worker : wpc'[u] # "idle" /\ wconn[u] = wconn[v]
                                      => u = v
               /\ wpc[v] \in {"load", "store", "emplace"} =>
                    /\ file[wfd[v]] = wconn[v]
                    /\ state[wconn[v]] = "upgrading"
                    /\ \A j \in Id : connections'[j] # wfd[v]
               /\ wpc[v] = "register" =>
                    /\ file[wfd[v]] = wconn[v]
                    /\ connections'[wid[v]] = wfd[v]
                    /\ wfd[v] \notin interest
                    /\ lpc = "callback" => lfd # wfd[v]
    BY <1>1, <2>1, <2>2, <2>3, <2>4, <2>5, <2>7 DEF IInv, UpgradesOwnTheirFd
  <2>8. \A u \in Worker : wpc'[u] # "idle" /\ wconn[u] = wconn[w] => u = w
    BY <2>1, <2>4
  <2> QED
    BY <1>1, <1>2, <1>5, <2>4, <2>6, <2>7, <2>8 DEF UpgradesOwnTheirFd
<1> QED
  BY <1>3, <1>4, <1>6 DEF Owners

(* A rejected upgrade leaves its descriptor to nobody.                       *)
LEMMA OwnersEmplaceFails ==
  ASSUME IInv, NEW w \in Worker, EmplaceFails(w)
  PROVE  Owners'
<1> DEFINE f == wfd[w]
           k == wconn[w]
<1>1. /\ UNCHANGED <<connections, idConn, lpc, lfd, interest>>
      /\ wpc[w] = "emplace" /\ WorkerReturns(w)
      /\ file' = [file EXCEPT ![f] = NoConn]
      /\ state' = [state EXCEPT ![k] = "rejected"]
      /\ DOMAIN file = Fd /\ DOMAIN state = Conn
  BY DEF EmplaceFails, listenerVars, mapVars, IInv, TypeOK
<1>2. /\ f \in Fd /\ k \in Conn /\ file[f] = k /\ k # NoConn
      /\ \A i \in Id : connections[i] # f
      /\ \A v \in Worker : v # w /\ wpc[v] # "idle" => wconn[v] # k
  BY <1>1, WSAssumption DEF IInv, UpgradesOwnTheirFd
<1>3. \A g \in Fd : file[g] = k => g = f
  BY <1>2 DEF IInv, OneFilePerClient
<1>4. \A i \in Id : connections[i] # NoFd =>
        /\ connections[i] \in Fd
        /\ file[connections[i]] = idConn[i] /\ idConn[i] # k
  BY <1>2, <1>3 DEF IInv, EntriesOwnTheirFd, TypeOK
<1>5. OneFilePerClient'
  <2>1. \A g \in Fd : file'[g] # NoConn => file'[g] = file[g] /\ file[g] # k
    BY <1>1, <1>3
  <2>2. \A g, h \in Fd : file'[g] = file'[h] /\ file'[g] # NoConn => g = h
    BY <2>1 DEF IInv, OneFilePerClient
  <2>3. \A g \in Fd : file'[g] # NoConn =>
                        state'[file'[g]] \in {"accepted", "upgrading"}
    BY <1>1, <2>1 DEF IInv, OneFilePerClient
  <2>4. \A i \in Id : connections'[i] # NoFd =>
                        state'[idConn'[i]] = "upgrading"
    BY <1>1, <1>4 DEF IInv, OneFilePerClient
  <2> QED
    BY <2>2, <2>3, <2>4 DEF OneFilePerClient
<1>6. EntriesOwnTheirFd'
  BY <1>1, <1>2 DEF IInv, EntriesOwnTheirFd
<1>7. UpgradesOwnTheirFd'
  <2>1. wpc'[w] = "idle"
    BY <1>1 DEF WorkerReturns, IInv, TypeOK
  <2>2. \A v \in Worker : v # w =>
          /\ wpc'[v] = wpc[v] /\ wfd'[v] = wfd[v]
          /\ wconn'[v] = wconn[v] /\ wid'[v] = wid[v]
    BY <1>1 DEF WorkerReturns, IInv, TypeOK
  <2>3. ASSUME NEW v \in Worker, v # w, wpc[v] # "idle"
        PROVE  /\ state'[wconn[v]] = state[wconn[v]]
               /\ file[wfd[v]] = wconn[v] => file'[wfd[v]] = wconn[v]
    <3>1. wconn[v] # k
      BY <1>2, <2>3
    <3> QED
      BY <1>1, <1>2, <3>1
  <2> QED
    BY <1>1, <2>1, <2>2, <2>3 DEF IInv, UpgradesOwnTheirFd
<1> QED
  BY <1>5, <1>6, <1>7 DEF Owners

(* The entry that the listener thread works on. *)
LEMMA ListenersEntry ==
  ASSUME IInv, ppc # "idle"
  PROVE  /\ lpc = "callback" /\ lid \in Id /\ lfd \in Fd /\ lfd # NoFd
         /\ connections[lid] = lfd
         /\ idConn[lid] \in Conn /\ file[lfd] = idConn[lid]
         /\ \A i \in Id : connections[i] = lfd => i = lid
         /\ \A i \in Id : connections[i] # NoFd /\ idConn[i] = idConn[lid]
                            => i = lid
<1>1. lpc = "callback" /\ connections[lid] = lfd /\ lfd \in Fd
  BY DEF IInv, ListenerHasEntry
<1>2. lid \in Id /\ lfd # NoFd /\ idConn \in [Id -> Conn \cup {NoConn}]
  BY <1>1, Constants DEF IInv, TypeOK
<1>3. /\ file[lfd] = idConn[lid] /\ idConn[lid] # NoConn
      /\ \A i \in Id : connections[i] = lfd => i = lid
  BY <1>1, <1>2 DEF IInv, EntriesOwnTheirFd
<1>4. ASSUME NEW i \in Id, connections[i] # NoFd, idConn[i] = idConn[lid]
      PROVE  i = lid
  <2>1. connections[i] \in Fd /\ file[connections[i]] = file[lfd]
    BY <1>3, <1>4 DEF IInv, EntriesOwnTheirFd, TypeOK
  <2>2. connections[i] = lfd
    BY <1>1, <1>3, <2>1 DEF IInv, OneFilePerClient
  <2> QED
    BY <1>3, <2>2
<1> QED
  BY <1>1, <1>2, <1>3, <1>4

(* The erased entry was the only one with the descriptor it closes.          *)
LEMMA OwnersErase ==
  ASSUME IInv, MessageStep, EraseConnection
  PROVE  Owners'
<1> DEFINE k == idConn[lid]
<1>1. /\ UNCHANGED <<idConn, wpc, wfd, wconn, wid>>
      /\ ppc # "idle"
      /\ file' = [file EXCEPT ![lfd] = NoConn]
      /\ state' = [state EXCEPT ![k] = "closed"]
      /\ connections' = [connections EXCEPT ![lid] = NoFd]
      /\ interest' = interest \ {lfd} /\ lpc' = "dispatch"
      /\ DOMAIN file = Fd /\ DOMAIN state = Conn /\ DOMAIN connections = Id
  BY ListenersEntry
  DEF MessageStep, EraseConnection, ProcessReturns, L!CallbackReturns,
      workerVars, IInv, TypeOK
<1>2. k \in Conn /\ k # NoConn /\ file[lfd] = k /\ lfd \in Fd /\ lid \in Id
  BY <1>1, ListenersEntry, WSAssumption
<1>3. \A g \in Fd : file[g] = k => g = lfd
  BY <1>2 DEF IInv, OneFilePerClient
<1>4. \A i \in Id : connections'[i] # NoFd =>
        /\ i # lid /\ connections'[i] = connections[i]
        /\ connections[i] # lfd /\ idConn[i] # k /\ connections[i] \in Fd
  BY <1>1, ListenersEntry DEF IInv, TypeOK
<1>5. OneFilePerClient'
  <2>1. \A g \in Fd : file'[g] # NoConn => file'[g] = file[g] /\ file[g] # k
    BY <1>1, <1>3
  <2>2. \A g, h \in Fd : file'[g] = file'[h] /\ file'[g] # NoConn => g = h
    BY <2>1 DEF IInv, OneFilePerClient
  <2>3. \A g \in Fd : file'[g] # NoConn =>
                        state'[file'[g]] \in {"accepted", "upgrading"}
    BY <1>1, <2>1 DEF IInv, OneFilePerClient
  <2>4. \A i \in Id : connections'[i] # NoFd =>
                        state'[idConn'[i]] = "upgrading"
    BY <1>1, <1>4 DEF IInv, OneFilePerClient
  <2> QED
    BY <2>2, <2>3, <2>4 DEF OneFilePerClient
<1>6. EntriesOwnTheirFd'
  BY <1>1, <1>4 DEF IInv, EntriesOwnTheirFd
<1>7. UpgradesOwnTheirFd'
  <2>1. ASSUME NEW w \in Worker, wpc[w] # "idle"
        PROVE  state'[wconn[w]] \notin {"new", "accepted"}
    BY <1>1, <2>1 DEF IInv, UpgradesOwnTheirFd
  <2>2. ASSUME NEW w \in Worker,
               wpc[w] \in {"load", "store", "emplace", "register"}
        PROVE  wfd[w] # lfd /\ wconn[w] # k
    <3>1. wfd[w] # lfd
      BY <1>1, <1>2, <2>2, ListenersEntry DEF IInv, UpgradesOwnTheirFd
    <3>2. wfd[w] \in Fd /\ file[wfd[w]] = wconn[w]
      BY <2>2 DEF IInv, UpgradesOwnTheirFd
    <3> QED
      BY <1>3, <3>1, <3>2
  <2>3. ASSUME NEW w \in Worker, wpc[w] \in {"load", "store", "emplace"}
        PROVE  /\ file'[wfd[w]] = wconn[w] /\ state'[wconn[w]] = "upgrading"
               /\ \A i \in Id : connections'[i] # wfd[w]
    <3>1. wfd[w] # NoFd
      BY <2>3, Constants DEF IInv, UpgradesOwnTheirFd
    <3> QED
      BY <1>1, <2>2, <2>3, <3>1 DEF IInv, UpgradesOwnTheirFd
  <2>4. ASSUME NEW w \in Worker, wpc[w] = "register"
        PROVE  /\ file'[wfd[w]] = wconn[w] /\ connections'[wid[w]] = wfd[w]
               /\ wfd[w] \notin interest'
    <3>1. wid[w] # lid
      BY <1>1, <2>2, <2>4, ListenersEntry DEF IInv, UpgradesOwnTheirFd
    <3> QED
      BY <1>1, <2>2, <2>4, <3>1 DEF IInv, UpgradesOwnTheirFd
  <2> QED
    BY <1>1, <2>1, <2>3, <2>4 DEF IInv, UpgradesOwnTheirFd
<1> QED
  BY <1>5, <1>6, <1>7 DEF Owners

(* Every step keeps descriptors, entries and workers apart.                  *)
LEMMA OwnersStep ==
  ASSUME IInv, [Next]_vars
  PROVE  Owners'
<1> USE DEF listenerVars, messageVars, workerVars, mapVars, clientVars,
            callbackVars
<1>0. DOMAIN wpc = Worker /\ DOMAIN wfd = Worker /\ DOMAIN wconn = Worker
      /\ DOMAIN wid = Worker
  BY DEF IInv, TypeOK
<1>1. CASE UNCHANGED vars
  BY <1>1, OwnersUnmoved DEF vars
<1>2. ASSUME NEW k \in Conn, ClientStep(k) PROVE Owners'
  <2>1. CASE Accept(k)
    BY <1>2, <2>1, OwnersAccept
  <2>2. ASSUME NEW x, ClientSends(k, x) PROVE Owners'
    BY <1>2, <2>2, OwnersUnmoved DEF ClientStep, ClientSends
  <2> QED
    BY <1>2, <2>1, <2>2 DEF ClientStep, SendsFrame, Disconnects
<1>3. ASSUME NEW w \in Worker, UpgradeStep(w) PROVE Owners'
  <2>1. CASE LoadCounter(w) \/ StoreCounter(w)
    BY <1>0, <2>1, OwnersMove DEF LoadCounter, StoreCounter
  <2>2. CASE RegisterSocket(w)
    BY <1>0, <2>2, OwnersMove DEF RegisterSocket, L!AddSocket
  <2>3. CASE OpenHandlerBegins(w) \/ OpenHandlerReturns(w)
    BY <1>0, <2>3, OwnersMove DEF OpenHandlerBegins, OpenHandlerReturns
  <2>4. CASE RegisterSocketFails(w) \/ OpenHandlerThrows(w) \/ Respond(w)
    BY <1>0, <2>4, OwnersMove
    DEF RegisterSocketFails, OpenHandlerThrows, Respond, WorkerReturns
  <2> QED
    BY <1>3, <2>1, <2>2, <2>3, <2>4, OwnersBegin, OwnersEmplace,
       OwnersEmplaceFails
    DEF UpgradeStep
<1>4. CASE Activate \/ Stop
  BY <1>4, OwnersUnmoved DEF Activate, Stop, L!CreateThread, L!Stop
<1>5. CASE Waits \/ Fails
  BY <1>5, OwnersUnmoved DEF Waits, L!EpollReturns, Fails, L!EpollFails
<1>6. CASE Loops
  <2>1. CASE L!Dispatch /\ batch # <<>>
    BY <1>6, <2>1, OwnersUnmoved, DispatchTakesHead DEF Loops, L!Dispatch
  <2> QED
    BY <1>6, <2>1, OwnersUnmoved
    DEF Loops, L!SetRunning, L!TestRunning, L!EpollReturnsNothing, L!Dispatch
<1>7. CASE MessageStep
  <2>1. CASE FindConnection \/ ReadFrame \/ CallCloseHandler
    BY <1>7, <2>1, OwnersUnmoved
    DEF MessageStep, FindConnection, ReadFrame, CallCloseHandler
  <2>2. CASE CallMessageHandler
    BY <1>7, <2>2, OwnersUnmoved
    DEF MessageStep, CallMessageHandler, ProcessReturns, L!CallbackReturns
  <2>3. CASE RemoveFromListener
    BY <1>7, <2>3, OwnersUnmoved
    DEF MessageStep, RemoveFromListener, L!RemoveSocket
  <2> QED
    BY <1>7, <2>1, <2>2, <2>3, OwnersErase DEF MessageStep
<1> QED
  BY <1>1, <1>2, <1>3, <1>4, <1>5, <1>6, <1>7 DEF Next, Terminated

-----------------------------------------------------------------------------
(* What the listener thread has in hand. *)
Listening == NoStaleEvent /\ ListenerHasEntry

(* A step that leaves the batch and the callback alone, and takes nothing  *)
(* away that is registered and readable, nor the entry at work.            *)
LEMMA ListeningUnmoved ==
  ASSUME IInv,
         UNCHANGED <<batch, lfd, ppc, lid>>,
         lpc' = "callback" <=> lpc = "callback",
         \A f \in interest' : \E i \in Id : connections'[i] = f,
         \A f \in interest \cap Readable : f \in (interest \cap Readable)',
         ppc # "idle" => connections'[lid] = connections[lid]
  PROVE  Listening'
<1>1. NoStaleEvent'
  BY DEF IInv, NoStaleEvent, ListenerHasEntry
<1>2. ListenerHasEntry'
  BY DEF IInv, NoStaleEvent, ListenerHasEntry
<1> QED
  BY <1>1, <1>2 DEF Listening

(* A client's step leaves the listener thread with the entry it works on.    *)
LEMMA ListeningClient ==
  ASSUME IInv, NEW k \in Conn, ClientStep(k)
  PROVE  Listening'
<1>0. /\ UNCHANGED <<interest, batch, lpc, lfd, ppc, lid, connections>>
      /\ DOMAIN file = Fd /\ DOMAIN inbox = Conn
      /\ inbox \in [Conn -> Seq({"message", "bad", "eof"})]
      /\ file \in [Fd -> Conn \cup {NoConn}]
  BY DEF ClientStep, listenerVars, messageVars, mapVars, IInv, TypeOK
<1>1. Readable \subseteq Readable'
  <2>1. CASE Accept(k)
    <3>1. PICK f \in Fd : file[f] = NoConn /\ file' = [file EXCEPT ![f] = k]
      BY <2>1 DEF Accept
    <3>2. inbox' = inbox
      BY <2>1 DEF Accept
    <3>3. \A g \in Fd : file[g] # NoConn => file'[g] = file[g]
      BY <1>0, <3>1
    <3> QED
      BY <3>2, <3>3 DEF Readable
  <2>2. ASSUME NEW x \in {"message", "bad", "eof"}, ClientSends(k, x)
        PROVE  Readable \subseteq Readable'
    <3>1. file' = file /\ inbox' = [inbox EXCEPT ![k] = Append(inbox[k], x)]
      BY <2>2 DEF ClientSends
    <3>2. Append(inbox[k], x) # <<>>
      BY <1>0, <2>2, AppendProperties
    <3>3. \A c \in Conn : inbox[c] # <<>> => inbox'[c] # <<>>
      BY <1>0, <3>1, <3>2
    <3> QED
      BY <1>0, <3>1, <3>3 DEF Readable
  <2> QED
    BY <2>1, <2>2, WSAssumption DEF ClientStep, SendsFrame, Disconnects
<1>2. \A f \in interest' : \E i \in Id : connections'[i] = f
  BY <1>0 DEF IInv, ListenerHasEntry
<1> QED
  BY <1>0, <1>1, <1>2, ListeningUnmoved

(* So does an upgrade: it never takes the listener's descriptor.             *)
LEMMA ListeningUpgrade ==
  ASSUME IInv, NEW w \in Worker, UpgradeStep(w)
  PROVE  Listening'
<1>0. /\ UNCHANGED <<ppc, lid, inbox, batch, lpc, lfd>>
      /\ interest' = interest \/ RegisterSocket(w)
      /\ connections' = connections \/ Emplace(w)
      /\ file' = file \/ EmplaceFails(w)
      /\ connections \in [Id -> Fd \cup {NoFd}]
      /\ interest \subseteq Fd /\ DOMAIN file = Fd
  BY DEF UpgradeStep, messageVars, listenerVars, mapVars, BeginUpgrade,
         LoadCounter, StoreCounter, Emplace, EmplaceFails, RegisterSocket,
         L!AddSocket, OpenHandlerBegins, OpenHandlerReturns,
         OpenHandlerThrows, RegisterSocketFails, Respond, IInv, TypeOK,
         L!ListenerTypeOK
<1>1. CASE RegisterSocket(w)
  <2>1. /\ interest' = interest \cup {wfd[w]} /\ connections' = connections
        /\ file' = file /\ connections[wid[w]] = wfd[w] /\ wid[w] \in Id
    BY <1>1 DEF RegisterSocket, L!AddSocket, mapVars, IInv, TypeOK,
                UpgradesOwnTheirFd
  <2>2. \A f \in interest' : \E i \in Id : connections'[i] = f
    BY <2>1 DEF IInv, ListenerHasEntry
  <2> QED
    BY <1>0, <2>1, <2>2, ListeningUnmoved DEF Readable
<1>2. CASE Emplace(w)
  <2>1. /\ connections' = [connections EXCEPT ![wid[w]] = wfd[w]]
        /\ connections[wid[w]] = NoFd /\ interest' = interest /\ file' = file
    BY <1>2 DEF Emplace, listenerVars
  <2>2. \A f \in interest' : \E i \in Id : connections'[i] = f
    BY <1>0, <2>1, Constants DEF IInv, ListenerHasEntry
  <2>3. ppc # "idle" => connections'[lid] = connections[lid]
    BY <1>0, <2>1, ListenersEntry
  <2> QED
    BY <1>0, <2>1, <2>2, <2>3, ListeningUnmoved DEF Readable
<1>3. CASE EmplaceFails(w)
  <2>1. /\ file' = [file EXCEPT ![wfd[w]] = NoConn]
        /\ interest' = interest /\ connections' = connections
        /\ \A i \in Id : connections[i] # wfd[w]
    BY <1>3 DEF EmplaceFails, listenerVars, mapVars, IInv, UpgradesOwnTheirFd
  <2>2. \A f \in interest' : \E i \in Id : connections'[i] = f
    BY <2>1 DEF IInv, ListenerHasEntry
  <2>3. \A f \in interest : f # wfd[w]
    BY <2>1 DEF IInv, ListenerHasEntry
  <2>4. \A f \in interest \cap Readable : f \in Readable'
    BY <1>0, <2>1, <2>3 DEF Readable
  <2> QED
    BY <1>0, <2>1, <2>2, <2>4, ListeningUnmoved
<1>4. CASE UNCHANGED <<interest, connections, file>>
  <2>1. \A f \in interest' : \E i \in Id : connections'[i] = f
    BY <1>4 DEF IInv, ListenerHasEntry
  <2> QED
    BY <1>0, <1>4, <2>1, ListeningUnmoved DEF Readable
<1> QED
  BY <1>0, <1>1, <1>2, <1>3, <1>4

(* So do the steps of the loop, which begin and end the work on an entry.    *)
LEMMA ListeningLoops ==
  ASSUME IInv, Activate \/ Stop \/ Waits \/ Fails \/ Loops
  PROVE  Listening'
<1>0. /\ UNCHANGED <<ppc, lid, connections, file, inbox, interest>>
      /\ Readable' = Readable
      /\ \A f \in interest' : \E i \in Id : connections'[i] = f
  BY DEF Activate, Stop, Waits, Fails, Loops, messageVars, mapVars, clientVars,
         L!CreateThread, L!Stop, L!EpollReturns, L!SetRunning, L!TestRunning,
         L!EpollFails, L!EpollReturnsNothing, L!Dispatch, Readable, IInv, ListenerHasEntry
<1>1. CASE /\ UNCHANGED <<batch, lfd>>
           /\ lpc' = "callback" <=> lpc = "callback"
  BY <1>0, <1>1, ListeningUnmoved
<1>2. CASE Waits
  <2>1. lpc # "callback" /\ lpc' # "callback" /\ ppc = "idle"
    BY <1>2 DEF Waits, L!EpollReturns, IInv, ListenerHasEntry
  <2>2. NoStaleEvent'
    BY <1>0, <1>2, <2>1, BatchIsReady DEF NoStaleEvent
  <2>3. ListenerHasEntry'
    BY <1>0, <2>1 DEF ListenerHasEntry
  <2> QED
    BY <2>2, <2>3 DEF Listening
<1>3. CASE L!Dispatch /\ batch # <<>>
  <2>1. lpc' = "callback" /\ lpc # "callback" /\ ppc = "idle"
    BY <1>3 DEF L!Dispatch, IInv, ListenerHasEntry
  <2>2. \A i \in DOMAIN batch' : batch'[i] \in interest \cap Readable
    BY <1>3, DispatchTakesHead DEF IInv, NoStaleEvent
  <2>3. lfd' \in interest \cap Readable
    BY <1>3, DispatchTakesHead
  <2>4. NoStaleEvent'
    BY <1>0, <1>3, <2>1, <2>2, <2>3, DispatchTakesHead DEF NoStaleEvent
  <2>5. lfd' \in Fd
    BY <2>3 DEF Readable
  <2>6. ListenerHasEntry'
    BY <1>0, <1>3, <2>1, <2>3, <2>5, DispatchTakesHead DEF ListenerHasEntry
  <2> QED
    BY <2>4, <2>6 DEF Listening
<1> QED
  BY <1>1, <1>2, <1>3
  DEF Activate, Stop, Fails, Loops, L!CreateThread, L!Stop, L!SetRunning,
      L!TestRunning, L!EpollFails, L!EpollReturnsNothing, L!Dispatch

(* So do those of process_message, up to the erasure.                        *)
LEMMA ListeningMessage ==
  ASSUME IInv, MessageStep
  PROVE  Listening'
<1>0. /\ UNCHANGED batch
      /\ lpc = "callback" /\ lfd \in Fd
      /\ interest \subseteq Fd
      /\ \A i \in DOMAIN batch : /\ batch[i] # lfd
                                 /\ batch[i] \in interest \cap Readable
      /\ DOMAIN file = Fd /\ DOMAIN inbox = Conn /\ DOMAIN connections = Id
      /\ \A f \in interest : \E i \in Id : connections[i] = f
      /\ \A i, j \in DOMAIN batch : batch[i] = batch[j] => i = j
  BY ListenersEntry
  DEF MessageStep, FindConnection, ReadFrame, CallMessageHandler,
      CallCloseHandler, RemoveFromListener, EraseConnection,
      IInv, TypeOK, L!ListenerTypeOK, NoStaleEvent, ListenerHasEntry
<1>1. CASE FindConnection
  <2>1. /\ UNCHANGED <<interest, lpc, lfd, connections, file, inbox>>
        /\ ppc = "idle" /\ ppc' = "read" /\ connections[lid'] = lfd
    BY <1>1 DEF FindConnection
  <2>2. lfd \in interest \cap Readable
    BY <1>0, <2>1 DEF IInv, ListenerHasEntry
  <2> QED
    BY <1>0, <2>1, <2>2
    DEF Listening, NoStaleEvent, ListenerHasEntry, Readable
<1>2. CASE ReadFrame
  <2>1. /\ UNCHANGED <<interest, lpc, lfd, lid, connections, file>>
        /\ ppc = "read" /\ ppc' \in {"close", "message"}
        /\ connections[lid] = lfd
        /\ \A k \in Conn : k # file[lfd] => inbox'[k] = inbox[k]
    BY <1>0, <1>2, ListenersEntry DEF ReadFrame, Outcome
  <2>2. \A i \in DOMAIN batch : file[batch[i]] # file[lfd]
    BY <1>0, <2>1, ListenersEntry, WSAssumption, ZenonT(40)
    DEF IInv, OneFilePerClient, Readable
  <2>3. \A i \in DOMAIN batch : file[batch[i]] \in Conn
    BY <1>0 DEF IInv, TypeOK, Readable
  <2>4. \A i \in DOMAIN batch : batch[i] \in Readable'
    BY <1>0, <2>1, <2>2, <2>3 DEF Readable
  <2>5. NoStaleEvent'
    BY <1>0, <2>1, <2>4 DEF NoStaleEvent
  <2>6. ListenerHasEntry'
    BY <1>0, <2>1 DEF ListenerHasEntry
  <2> QED
    BY <2>5, <2>6 DEF Listening
<1>3. CASE CallMessageHandler
  <2>1. /\ UNCHANGED <<interest, connections, file, inbox>>
        /\ lpc' = "dispatch" /\ ppc' = "idle"
    BY <1>3 DEF CallMessageHandler, ProcessReturns, L!CallbackReturns
  <2> QED
    BY <1>0, <2>1 DEF Listening, NoStaleEvent, ListenerHasEntry, Readable
<1>4. CASE CallCloseHandler
  <2>1. /\ UNCHANGED <<interest, lpc, lfd, lid, connections, file, inbox>>
        /\ ppc = "close" /\ ppc' = "remove"
    BY <1>4 DEF CallCloseHandler
  <2> QED
    BY <1>0, <2>1, ListenersEntry
    DEF Listening, NoStaleEvent, ListenerHasEntry, Readable
<1>5. CASE RemoveFromListener
  <2>1. /\ UNCHANGED <<lpc, lfd, lid, connections, file, inbox>>
        /\ interest' = interest \ {lfd}
        /\ ppc = "remove" /\ ppc' = "erase"
    BY <1>5 DEF RemoveFromListener, L!RemoveSocket
  <2> QED
    BY <1>0, <2>1, ListenersEntry
    DEF Listening, NoStaleEvent, ListenerHasEntry, Readable
<1>6. CASE EraseConnection
  <2>1. /\ UNCHANGED inbox
        /\ lpc' = "dispatch" /\ ppc' = "idle"
        /\ interest' = interest \ {lfd}
        /\ connections' = [connections EXCEPT ![lid] = NoFd]
        /\ file' = [file EXCEPT ![lfd] = NoConn]
        /\ connections[lid] = lfd
    BY <1>6, ListenersEntry
    DEF EraseConnection, ProcessReturns, L!CallbackReturns
  <2>2. \A f \in interest' : \E i \in Id : connections'[i] = f
    BY <1>0, <2>1
  <2>3. \A i \in DOMAIN batch : batch[i] \in Readable'
    BY <1>0, <2>1 DEF Readable
  <2>4. NoStaleEvent'
    BY <1>0, <2>1, <2>3 DEF NoStaleEvent
  <2>5. ListenerHasEntry'
    BY <2>1, <2>2 DEF ListenerHasEntry
  <2> QED
    BY <2>4, <2>5 DEF Listening
<1> QED
  BY <1>1, <1>2, <1>3, <1>4, <1>5, <1>6 DEF MessageStep

(* Every step leaves the listener thread with the entry it works on.         *)
LEMMA ListeningStep ==
  ASSUME IInv, [Next]_vars
  PROVE  Listening'
<1>1. CASE UNCHANGED vars
  <2>1. /\ UNCHANGED <<batch, lfd, ppc, lid, lpc, interest, connections, file,
                       inbox>>
        /\ \A f \in interest' : \E i \in Id : connections'[i] = f
    BY <1>1 DEF vars, listenerVars, messageVars, mapVars, clientVars,
                IInv, ListenerHasEntry
  <2> QED
    BY <2>1, ListeningUnmoved DEF Readable
<1> QED
  BY <1>1, ListeningClient, ListeningUpgrade, ListeningLoops,
     ListeningMessage
  DEF Next, Terminated

-----------------------------------------------------------------------------
(* Every step keeps the types.                                               *)
LEMMA TypeOKStep ==
  ASSUME IInv, [Next]_vars
  PROVE  TypeOK'
<1>1. CASE UNCHANGED vars
  BY <1>1 DEF vars, listenerVars, messageVars, workerVars, mapVars,
              clientVars, callbackVars, IInv, TypeOK, L!ListenerTypeOK
<1> QED
  BY <1>1, TypesClient, TypesUpgrade, TypesListener, TypesMessage
  DEF Next, Terminated

-----------------------------------------------------------------------------
(* How often on_close is called. *)
Closing == ClosedOnce /\ NotYetClosed

(* A step that does not call close_handler_: what is upgraded or has an    *)
(* entry afterwards had one before, or was just accepted, or upgraded.     *)
LEMMA ClosesUnmoved ==
  ASSUME IInv, TypeOK', Owners', Listening', closes' = closes,
         \A k \in Conn : state'[k] \in {"new", "accepted"} =>
           state[k] \in {"new", "accepted"},
         \A w \in Worker : wpc'[w] \in {"load", "store", "emplace"} =>
           \/ wpc[w] \in {"load", "store", "emplace"} /\ wconn'[w] = wconn[w]
           \/ wconn'[w] \in Conn /\ closes[wconn'[w]] = 0,
         \A i \in Id : connections'[i] # NoFd =>
           \/ /\ connections[i] # NoFd /\ idConn'[i] = idConn[i]
              /\ i = lid /\ ppc \in {"remove", "erase"} =>
                   lid' = lid /\ ppc' \in {"remove", "erase"}
           \/ closes[idConn'[i]] = 0,
         ppc' = "message" => closes[idConn'[lid']] = 0
  PROVE  Closing'
<1>1. ASSUME ppc' \in {"remove", "erase"}
      PROVE  file'[lfd'] = idConn'[lid']
  <2>1. connections'[lid'] = lfd' /\ lfd' \in Fd /\ lid' \in Id
    BY <1>1 DEF Listening, ListenerHasEntry, TypeOK
  <2> QED
    BY <2>1, Constants DEF Owners, EntriesOwnTheirFd
<1>2. ClosedOnce'
  BY <1>1 DEF IInv, ClosedOnce
<1>3. NotYetClosed'
  BY DEF IInv, NotYetClosed
<1> QED
  BY <1>2, <1>3 DEF Closing

(* on_close was not called yet for what is being upgraded or has an entry.  *)
LEMMA ClosesStep ==
  ASSUME IInv, [Next]_vars
  PROVE  Closing'
<1> USE DEF listenerVars, messageVars, workerVars, mapVars, clientVars,
            callbackVars
<1>0. TypeOK' /\ Owners' /\ Listening'
  BY TypeOKStep, OwnersStep, ListeningStep
<1>1. /\ DOMAIN state = Conn /\ DOMAIN wpc = Worker /\ DOMAIN wconn = Worker
      /\ DOMAIN connections = Id /\ DOMAIN idConn = Id
      /\ closes \in [Conn -> Nat] /\ file \in [Fd -> Conn \cup {NoConn}]
  BY DEF IInv, TypeOK
<1>2. ppc = "message" => closes[idConn[lid]] = 0
  BY DEF IInv, ClosedOnce
<1>3. CASE UNCHANGED <<closes, state, connections, idConn, lid, ppc, wpc,
                       wconn>>
  BY <1>0, <1>2, <1>3, ClosesUnmoved
<1>4. ASSUME NEW k \in Conn, ClientStep(k) PROVE Closing'
  <2>1. CASE Accept(k)
    <3>1. /\ UNCHANGED <<closes, connections, idConn, lid, ppc, wpc, wconn>>
          /\ state[k] = "new" /\ state' = [state EXCEPT ![k] = "accepted"]
      BY <1>4, <2>1 DEF ClientStep, Accept
    <3> QED
      BY <1>0, <1>1, <1>2, <3>1, ClosesUnmoved
  <2>2. ASSUME NEW x, ClientSends(k, x) PROVE Closing'
    BY <1>3, <1>4, <2>2 DEF ClientStep, ClientSends
  <2> QED
    BY <1>4, <2>1, <2>2 DEF ClientStep, SendsFrame, Disconnects
<1>5. ASSUME NEW w \in Worker, UpgradeStep(w) PROVE Closing'
  <2>0. UNCHANGED <<closes, lid, ppc>>
    BY <1>5 DEF UpgradeStep
  <2>1. CASE BeginUpgrade(w)
    <3>1. PICK f \in Fd :
            /\ file[f] # NoConn /\ state[file[f]] = "accepted"
            /\ wconn' = [wconn EXCEPT ![w] = file[f]]
            /\ state' = [state EXCEPT ![file[f]] = "upgrading"]
      BY <2>1 DEF BeginUpgrade
    <3>2. /\ UNCHANGED <<connections, idConn>>
          /\ wpc' = [wpc EXCEPT ![w] = "load"]
      BY <2>1 DEF BeginUpgrade
    <3>3. file[f] \in Conn /\ closes[file[f]] = 0
      BY <1>1, <3>1 DEF IInv, NotYetClosed
    <3>4. \A v \in Worker : wpc'[v] \in {"load", "store", "emplace"} =>
            \/ /\ wpc[v] \in {"load", "store", "emplace"}
               /\ wconn'[v] = wconn[v]
            \/ wconn'[v] \in Conn /\ closes[wconn'[v]] = 0
      BY <1>1, <3>1, <3>2, <3>3
    <3>5. \A k \in Conn : state'[k] \in {"new", "accepted"} =>
            state[k] \in {"new", "accepted"}
      BY <1>1, <3>1
    <3> QED
      BY <1>0, <1>2, <2>0, <3>2, <3>4, <3>5, ClosesUnmoved
  <2>2. CASE Emplace(w)
    <3>1. /\ UNCHANGED <<state, wconn>>
          /\ wpc[w] = "emplace" /\ wpc' = [wpc EXCEPT ![w] = "register"]
          /\ connections[wid[w]] = NoFd
          /\ connections' = [connections EXCEPT ![wid[w]] = wfd[w]]
          /\ idConn' = [idConn EXCEPT ![wid[w]] = wconn[w]]
      BY <2>2 DEF Emplace
    <3>2. closes[wconn[w]] = 0 /\ wid[w] \in Id
      BY <3>1 DEF IInv, NotYetClosed, TypeOK
    <3>3. ppc' = "message" => closes[idConn'[lid']] = 0
      <4> SUFFICES ASSUME ppc = "message" PROVE closes[idConn'[lid]] = 0
        BY <2>0
      <4>1. lid # wid[w]
        BY <3>1, ListenersEntry
      <4> QED
        BY <1>1, <1>2, <3>1, <4>1
    <3>4. \A i \in Id : connections'[i] # NoFd =>
            \/ connections[i] # NoFd /\ idConn'[i] = idConn[i]
            \/ closes[idConn'[i]] = 0
      BY <1>1, <3>1, <3>2
    <3>5. \A v \in Worker : wpc'[v] \in {"load", "store", "emplace"} =>
            wpc[v] \in {"load", "store", "emplace"} /\ wconn'[v] = wconn[v]
      BY <1>1, <3>1
    <3> QED
      BY <1>0, <2>0, <3>1, <3>3, <3>4, <3>5, ClosesUnmoved
  <2>3. CASE EmplaceFails(w)
    <3>1. /\ UNCHANGED <<connections, idConn>>
          /\ wpc' = [wpc EXCEPT ![w] = "idle"]
          /\ wconn' = [wconn EXCEPT ![w] = NoConn]
          /\ state' = [state EXCEPT ![wconn[w]] = "rejected"]
      BY <2>3 DEF EmplaceFails, WorkerReturns
    <3> QED
      BY <1>0, <1>1, <1>2, <2>0, <3>1, ClosesUnmoved
  <2>4. ASSUME UNCHANGED <<connections, idConn, state>>,
               \A v \in Worker :
                 wpc'[v] \in {"load", "store", "emplace"} =>
                   /\ wpc[v] \in {"load", "store", "emplace"}
                   /\ wconn'[v] = wconn[v]
        PROVE  Closing'
    BY <1>0, <1>2, <2>0, <2>4, ClosesUnmoved
  <2> QED
    BY <1>1, <1>5, <2>1, <2>2, <2>3, <2>4
    DEF UpgradeStep, LoadCounter, StoreCounter, RegisterSocket, L!AddSocket,
        OpenHandlerBegins, OpenHandlerReturns, OpenHandlerThrows,
        RegisterSocketFails, Respond,
        WorkerReturns
<1>6. CASE Activate \/ Stop \/ Waits \/ Fails \/ Loops
  BY <1>3, <1>6 DEF Activate, Stop, Waits, Fails, Loops
<1>7. CASE MessageStep
  <2>0. UNCHANGED <<idConn, wpc, wconn>>
    BY <1>7 DEF MessageStep
  <2>1. CASE FindConnection
    <3>1. /\ UNCHANGED <<closes, connections, state>>
          /\ ppc = "idle" /\ ppc' = "read"
      BY <2>1 DEF FindConnection
    <3> QED
      BY <1>0, <2>0, <3>1, ClosesUnmoved
  <2>2. CASE ReadFrame
    <3>1. /\ UNCHANGED <<closes, connections, state, lid>>
          /\ ppc = "read" /\ ppc' \in {"close", "message"}
      BY <2>2 DEF ReadFrame, Outcome
    <3>2. closes[idConn[lid]] = 0
      BY <3>1, ListenersEntry DEF IInv, NotYetClosed
    <3> QED
      BY <1>0, <2>0, <3>1, <3>2, ClosesUnmoved
  <2>3. CASE CallMessageHandler
    <3>1. /\ UNCHANGED <<closes, connections, state>>
          /\ ppc = "message" /\ ppc' = "idle"
      BY <2>3 DEF CallMessageHandler, ProcessReturns
    <3> QED
      BY <1>0, <2>0, <3>1, ClosesUnmoved
  <2>4. CASE CallCloseHandler
    <3> DEFINE k == idConn[lid]
    <3>1. /\ UNCHANGED <<connections, state, lid, lfd, file>>
          /\ ppc = "close" /\ ppc' = "remove"
          /\ closes' = [closes EXCEPT ![k] = closes[k] + 1]
      BY <2>4 DEF CallCloseHandler
    <3>2. /\ lid \in Id /\ k \in Conn /\ connections[lid] = lfd
          /\ lfd \in Fd /\ lfd # NoFd /\ file[lfd] = k
          /\ \A i \in Id : connections[i] # NoFd /\ idConn[i] = k => i = lid
      BY <3>1, ListenersEntry
    <3>3. closes[k] = 0
      BY <3>1, <3>2 DEF IInv, NotYetClosed
    <3>4. ClosedOnce'
      BY <1>1, <2>0, <3>1, <3>2, <3>3 DEF IInv, ClosedOnce
    <3>5. state[k] = "upgrading"
      BY <3>2 DEF IInv, OneFilePerClient
    <3>6. ASSUME NEW w \in Worker, wpc[w] \in {"load", "store", "emplace"}
          PROVE  wconn[w] # k
      <4>1. /\ file[wfd[w]] = wconn[w] /\ wfd[w] \in Fd /\ wfd[w] # lfd
        BY <3>2, <3>6 DEF IInv, UpgradesOwnTheirFd
      <4> QED
        BY <3>2, <4>1, WSAssumption DEF IInv, OneFilePerClient
    <3>7. NotYetClosed'
      BY <1>1, <2>0, <3>1, <3>2, <3>5, <3>6 DEF IInv, NotYetClosed
    <3> QED
      BY <3>4, <3>7 DEF Closing
  <2>5. CASE RemoveFromListener
    <3>1. /\ UNCHANGED <<closes, connections, state, lid>> /\ ppc' = "erase"
      BY <2>5 DEF RemoveFromListener
    <3> QED
      BY <1>0, <2>0, <3>1, ClosesUnmoved
  <2>6. CASE EraseConnection
    <3>1. /\ UNCHANGED closes /\ ppc' = "idle"
          /\ connections' = [connections EXCEPT ![lid] = NoFd]
          /\ state' = [state EXCEPT ![idConn[lid]] = "closed"]
      BY <2>6 DEF EraseConnection, ProcessReturns
    <3> QED
      BY <1>0, <1>1, <2>0, <3>1, ClosesUnmoved
  <2> QED
    BY <1>7, <2>1, <2>2, <2>3, <2>4, <2>5, <2>6 DEF MessageStep
<1> QED
  BY <1>3, <1>4, <1>5, <1>6, <1>7 DEF Next, Terminated, vars

-----------------------------------------------------------------------------
(* How often on_message is called.  What is counted of each client does    *)
(* not grow, or grows by what the client sent.                             *)
LEMMA CountedUnmoved ==
  ASSUME IInv,
         UNCHANGED <<delivered, inbox, sent, lid>>,
         ppc' = "message" => ppc = "message" /\ idConn'[lid] = idConn[lid]
  PROVE  FramesAreCounted'
<1>1. /\ delivered \in [Conn -> Nat] /\ sent \in [Conn -> Nat]
      /\ \A k \in Conn : Len(inbox[k]) \in Nat
  BY WSAssumption DEF IInv, TypeOK
<1> QED
  BY <1>1 DEF IInv, FramesAreCounted, Handling

(* The frames handled, and the one in hand, are not more than were sent.     *)
LEMMA CountedStep ==
  ASSUME IInv, [Next]_vars
  PROVE  FramesAreCounted'
<1> USE DEF messageVars, workerVars, mapVars, clientVars, callbackVars
<1>0. /\ delivered \in [Conn -> Nat] /\ sent \in [Conn -> Nat]
      /\ \A k \in Conn : Len(inbox[k]) \in Nat
      /\ inbox \in [Conn -> Seq({"message", "bad", "eof"})]
      /\ DOMAIN idConn = Id
  BY WSAssumption DEF IInv, TypeOK
<1>1. CASE UNCHANGED <<delivered, inbox, sent, lid, ppc, idConn>>
  BY <1>1, CountedUnmoved
<1>2. ASSUME NEW k \in Conn, ClientStep(k) PROVE FramesAreCounted'
  <2>1. CASE Accept(k)
    BY <1>1, <1>2, <2>1 DEF ClientStep, Accept
  <2>2. ASSUME NEW x \in {"message", "bad", "eof"}, ClientSends(k, x)
        PROVE  FramesAreCounted'
    <3>1. /\ UNCHANGED <<delivered, lid, ppc, idConn>>
          /\ inbox' = [inbox EXCEPT ![k] = Append(inbox[k], x)]
          /\ sent' = [sent EXCEPT ![k] = sent[k] + 1]
      BY <1>2, <2>2 DEF ClientStep, ClientSends
    <3>2. Len(inbox'[k]) = Len(inbox[k]) + 1
      BY <1>0, <2>2, <3>1, AppendProperties
    <3>3. \A c \in Conn : c # k => inbox'[c] = inbox[c] /\ sent'[c] = sent[c]
      BY <1>0, <3>1
    <3>4. sent'[k] = sent[k] + 1
      BY <1>0, <3>1
    <3> QED
      BY <1>0, <3>1, <3>2, <3>3, <3>4 DEF IInv, FramesAreCounted, Handling
  <2> QED
    BY <1>2, <2>1, <2>2, WSAssumption DEF ClientStep, SendsFrame, Disconnects
<1>3. ASSUME NEW w \in Worker, UpgradeStep(w) PROVE FramesAreCounted'
  <2>1. UNCHANGED <<delivered, inbox, sent, lid, ppc>>
    BY <1>3 DEF UpgradeStep
  <2>2. CASE Emplace(w)
    <3>1. /\ connections[wid[w]] = NoFd
          /\ idConn' = [idConn EXCEPT ![wid[w]] = wconn[w]]
      BY <2>2 DEF Emplace
    <3>2. ppc = "message" => idConn'[lid] = idConn[lid]
      BY <1>0, <3>1, ListenersEntry
    <3> QED
      BY <2>1, <3>2, CountedUnmoved
  <2>3. CASE UNCHANGED idConn
    BY <1>1, <2>1, <2>3
  <2> QED
    BY <1>3, <2>2, <2>3
    DEF UpgradeStep, BeginUpgrade, LoadCounter, StoreCounter, EmplaceFails,
        RegisterSocket, OpenHandlerBegins, OpenHandlerReturns,
        OpenHandlerThrows, RegisterSocketFails, Respond
<1>4. CASE Activate \/ Stop \/ Waits \/ Fails \/ Loops
  BY <1>1, <1>4 DEF Activate, Stop, Waits, Fails, Loops
<1>5. CASE MessageStep
  <2>0. UNCHANGED <<idConn, sent>>
    BY <1>5 DEF MessageStep
  <2>1. CASE FindConnection
    <3>1. UNCHANGED <<delivered, inbox>> /\ ppc' = "read"
      BY <2>1 DEF FindConnection
    <3> QED
      BY <1>0, <2>0, <3>1 DEF IInv, FramesAreCounted, Handling
  <2>2. CASE ReadFrame
    <3> DEFINE k == idConn[lid]
    <3>1. k \in Conn /\ file[connections[lid]] = k
      BY <2>2, ListenersEntry DEF ReadFrame
    <3>2. /\ UNCHANGED <<delivered, lid>> /\ ppc = "read"
          /\ \/ ppc' = "close" /\ inbox' = inbox
             \/ /\ inbox[k] # <<>> /\ inbox' = [inbox EXCEPT ![k] = Tail(@)]
      BY <2>2, <3>1 DEF ReadFrame
    <3>3. CASE inbox' = inbox /\ ppc' = "close"
      BY <1>0, <2>0, <3>2, <3>3 DEF IInv, FramesAreCounted, Handling
    <3>4. CASE inbox[k] # <<>> /\ inbox' = [inbox EXCEPT ![k] = Tail(@)]
      <4>1. Len(inbox'[k]) = Len(inbox[k]) - 1
        BY <1>0, <3>1, <3>4, HeadTailProperties
      <4>2. \A c \in Conn : c # k => inbox'[c] = inbox[c]
        BY <1>0, <3>4
      <4> QED
        BY <1>0, <2>0, <3>1, <3>2, <4>1, <4>2
        DEF IInv, FramesAreCounted, Handling
    <3> QED
      BY <3>2, <3>3, <3>4
  <2>3. CASE CallMessageHandler
    <3> DEFINE k == idConn[lid]
    <3>1. /\ UNCHANGED inbox /\ ppc = "message" /\ ppc' = "idle"
          /\ delivered' = [delivered EXCEPT ![k] = delivered[k] + 1]
      BY <2>3 DEF CallMessageHandler, ProcessReturns
    <3>2. /\ k \in Conn /\ delivered'[k] = delivered[k] + 1
          /\ \A c \in Conn : c # k => delivered'[c] = delivered[c]
      BY <1>0, <3>1, ListenersEntry
    <3> QED
      BY <1>0, <2>0, <3>1, <3>2 DEF IInv, FramesAreCounted, Handling
  <2>4. CASE CallCloseHandler \/ RemoveFromListener
    BY <2>0, <2>4, CountedUnmoved DEF CallCloseHandler, RemoveFromListener
  <2>5. CASE EraseConnection
    <3>1. UNCHANGED <<delivered, inbox>> /\ ppc' = "idle"
      BY <2>5 DEF EraseConnection, ProcessReturns
    <3> QED
      BY <1>0, <2>0, <3>1 DEF IInv, FramesAreCounted, Handling
  <2> QED
    BY <1>5, <2>1, <2>2, <2>3, <2>4, <2>5 DEF MessageStep
<1> QED
  BY <1>1, <1>2, <1>3, <1>4, <1>5 DEF Next, Terminated, vars

-----------------------------------------------------------------------------
(* Who has its 101.  A step that writes none and calls no open_handler_.   *)
LEMMA SpeaksUnmoved ==
  ASSUME IInv, UNCHANGED <<responses, opened>>, early \subseteq early',
         \A k \in Conn : state'[k] \in {"new", "accepted"} =>
           state[k] \in {"new", "accepted"},
         \A k \in Conn \ early' :
           inbox'[k] # <<>> => inbox[k] # <<>> \/ Answered(k),
         \A k \in Conn \ early' : delivered'[k] + closes'[k] > 0 =>
           delivered[k] + closes[k] > 0 \/ Answered(k),
         ppc' # "idle" /\ idConn'[lid'] \notin early' =>
           Answered(idConn'[lid']),
         \A w \in Worker : Waiting(w)' => ~Answered(wconn'[w]),
         \A w \in Worker :
           Waiting(w)' /\ wpc'[w] \in {"open", "opening", "respond"} =>
             connections'[wid'[w]] = wfd'[w] /\ file'[wfd'[w]] = wconn'[w],
         \A w \in Worker : Waiting(w)' /\ wpc'[w] = "respond" =>
           wpc[w] = "respond" /\ wconn'[w] = wconn[w]
  PROVE  SpeaksWhenAnswered'
BY DEF IInv, SpeaksWhenAnswered, Answered, Waiting

(* The facts in hand about workers, and about those whose client did not    *)
(* speak or disconnect before its 101.                                     *)
LEMMA SpeaksFacts ==
  ASSUME IInv
  PROVE  /\ \A w \in Worker : wpc[w] # "idle" =>
              /\ wconn[w] \notin early => ~Answered(wconn[w])
              /\ wconn[w] \in Conn /\ wfd[w] \in Fd /\ wid[w] \in Id
              /\ \A v \in Worker : wpc[v] # "idle" /\ wconn[v] = wconn[w]
                                     => v = w
         /\ \A w \in Worker :
              /\ wpc[w] \in {"open", "opening", "respond"}
              /\ wconn[w] \notin early
              => connections[wid[w]] = wfd[w] /\ file[wfd[w]] = wconn[w]
         /\ ppc # "idle" /\ idConn[lid] \notin early => Answered(idConn[lid])
BY DEF IInv, SpeaksWhenAnswered, UpgradesOwnTheirFd, TypeOK, Waiting

(* A client that speaks when it is answered is no business of a worker.      *)
LEMMA SpeaksClient ==
  ASSUME IInv, NEW k \in Conn, ClientStep(k)
  PROVE  SpeaksWhenAnswered'
<1> USE DEF Waiting
<1>0. /\ UNCHANGED <<responses, opened, delivered, closes, ppc, lid, idConn,
                     wpc, wconn, wid, wfd, connections>>
      /\ DOMAIN state = Conn /\ DOMAIN file = Fd /\ DOMAIN inbox = Conn
      /\ early \subseteq early'
  BY DEF ClientStep, Accept, SendsFrame, Disconnects, ClientSends,
         messageVars, workerVars, mapVars, callbackVars, IInv, TypeOK
<1>1. CASE Accept(k)
  <2>1. early' = early /\ inbox' = inbox /\ state[k] = "new"
        /\ state' = [state EXCEPT ![k] = "accepted"]
    BY <1>1 DEF Accept
  <2>2. PICK f \in Fd : file[f] = NoConn /\ file' = [file EXCEPT ![f] = k]
    BY <1>1 DEF Accept
  <2>3. \A w \in Worker :
          Waiting(w)' /\ wpc'[w] \in {"open", "opening", "respond"} =>
            connections'[wid'[w]] = wfd'[w] /\ file'[wfd'[w]] = wconn'[w]
    BY <1>0, <2>1, <2>2, SpeaksFacts, WSAssumption
  <2>4. \A c \in Conn : state'[c] \in {"new", "accepted"} =>
          state[c] \in {"new", "accepted"}
    BY <1>0, <2>1
  <2> QED
    BY <1>0, <2>1, <2>3, <2>4, SpeaksFacts, SpeaksUnmoved DEF Answered
<1>2. ASSUME NEW x, ClientSends(k, x) PROVE SpeaksWhenAnswered'
  <2>1. /\ k \notin early' => Answered(k)
        /\ UNCHANGED <<file, state>>
        /\ \A c \in Conn : c # k => inbox'[c] = inbox[c]
    BY <1>0, <1>2 DEF ClientSends, Answered
  <2> QED
    BY <1>0, <2>1, SpeaksFacts, SpeaksUnmoved DEF Answered
<1> QED
  BY <1>1, <1>2 DEF ClientStep, SendsFrame, Disconnects

(* An upgrade is of a client that was not answered yet.                      *)
LEMMA SpeaksUpgrade ==
  ASSUME IInv, NEW w \in Worker, UpgradeStep(w)
  PROVE  SpeaksWhenAnswered'
<1> USE DEF Waiting
<1>0. /\ UNCHANGED <<early, ppc, lid, inbox, delivered, closes>>
      /\ DOMAIN wpc = Worker /\ DOMAIN wfd = Worker /\ DOMAIN wconn = Worker
      /\ DOMAIN wid = Worker /\ DOMAIN state = Conn /\ DOMAIN file = Fd
      /\ DOMAIN connections = Id /\ DOMAIN idConn = Id
      /\ DOMAIN opened = Conn /\ DOMAIN responses = Conn
  BY DEF UpgradeStep, messageVars, IInv, TypeOK
<1>1. CASE BeginUpgrade(w)
  <2>1. PICK f \in Fd :
          /\ file[f] # NoConn /\ state[file[f]] = "accepted"
          /\ wfd' = [wfd EXCEPT ![w] = f]
          /\ wconn' = [wconn EXCEPT ![w] = file[f]]
          /\ state' = [state EXCEPT ![file[f]] = "upgrading"]
    BY <1>1 DEF BeginUpgrade
  <2>2. /\ UNCHANGED <<responses, opened, connections, idConn, wid, file>>
        /\ wpc' = [wpc EXCEPT ![w] = "load"]
    BY <1>1 DEF BeginUpgrade, mapVars
  <2>3. file[f] \in Conn /\ (file[f] \notin early => ~Answered(file[f]))
    BY <1>0, <2>1 DEF IInv, TypeOK, SpeaksWhenAnswered
  <2>4. \A v \in Worker : Waiting(v)' => ~Answered(wconn'[v])
    BY <1>0, <2>1, <2>2, <2>3, SpeaksFacts
  <2>5. \A v \in Worker :
          Waiting(v)' /\ wpc'[v] \in {"open", "opening", "respond"} =>
          /\ v # w /\ wpc'[v] = wpc[v] /\ wconn'[v] = wconn[v]
          /\ connections'[wid'[v]] = wfd'[v] /\ file'[wfd'[v]] = wconn'[v]
    BY <1>0, <2>1, <2>2, SpeaksFacts
  <2>6. \A k \in Conn : state'[k] \in {"new", "accepted"} =>
          state[k] \in {"new", "accepted"}
    BY <1>0, <2>1
  <2> QED
    BY <1>0, <2>2, <2>4, <2>5, <2>6, SpeaksFacts, SpeaksUnmoved
<1>2. CASE LoadCounter(w) \/ StoreCounter(w) \/ RegisterSocket(w)
  <2>1. /\ UNCHANGED <<responses, opened, connections, idConn, file, wfd,
                       wconn, state>>
        /\ wpc[w] \in {"load", "store", "register"}
        /\ wpc' \in {[wpc EXCEPT ![w] = "store"],
                     [wpc EXCEPT ![w] = "emplace"],
                     [wpc EXCEPT ![w] = "open"]}
        /\ wpc'[w] = "open" => wpc[w] = "register"
        /\ \A v \in Worker : wpc'[v] = "open" => wid'[v] = wid[v]
        /\ \A v \in Worker : v # w => wid'[v] = wid[v] /\ wpc'[v] = wpc[v]
        /\ wpc'[w] \notin {"respond", "opening"}
    BY <1>0, <1>2 DEF LoadCounter, StoreCounter, RegisterSocket, mapVars
  <2>2. wpc[w] = "register" =>
          connections[wid[w]] = wfd[w] /\ file[wfd[w]] = wconn[w]
    BY DEF IInv, UpgradesOwnTheirFd
  <2>3. \A v \in Worker : Waiting(v)' => ~Answered(wconn'[v])
    BY <1>0, <2>1, SpeaksFacts
  <2>4. \A v \in Worker :
          Waiting(v)' /\ wpc'[v] \in {"open", "opening", "respond"} =>
            connections'[wid'[v]] = wfd'[v] /\ file'[wfd'[v]] = wconn'[v]
    BY <1>0, <2>1, <2>2, SpeaksFacts
  <2> QED
    BY <1>0, <2>1, <2>3, <2>4, SpeaksFacts, SpeaksUnmoved
<1>3. CASE Emplace(w)
  <2>1. /\ UNCHANGED <<responses, opened, file, state, wfd, wconn, wid>>
        /\ wpc[w] = "emplace" /\ wpc' = [wpc EXCEPT ![w] = "register"]
        /\ connections[wid[w]] = NoFd
        /\ connections' = [connections EXCEPT ![wid[w]] = wfd[w]]
        /\ idConn' = [idConn EXCEPT ![wid[w]] = wconn[w]]
    BY <1>3 DEF Emplace
  <2>2. \A v \in Worker : Waiting(v)' => ~Answered(wconn'[v])
    BY <1>0, <2>1, SpeaksFacts
  <2>3. \A v \in Worker :
          Waiting(v)' /\ wpc'[v] \in {"open", "opening", "respond"} =>
            connections'[wid'[v]] = wfd'[v] /\ file'[wfd'[v]] = wconn'[v]
    BY <1>0, <2>1, SpeaksFacts, Constants
  <2>4. ppc' # "idle" /\ idConn'[lid'] \notin early' =>
          Answered(idConn'[lid'])
    BY <1>0, <2>1, SpeaksFacts, ListenersEntry
  <2> QED
    BY <1>0, <2>1, <2>2, <2>3, <2>4, SpeaksUnmoved
<1>4. CASE EmplaceFails(w)
  <2>1. /\ UNCHANGED <<responses, opened, connections, idConn>>
        /\ wpc[w] = "emplace" /\ WorkerReturns(w)
        /\ file' = [file EXCEPT ![wfd[w]] = NoConn]
        /\ state' = [state EXCEPT ![wconn[w]] = "rejected"]
    BY <1>4 DEF EmplaceFails, mapVars
  <2>2. \A i \in Id : connections[i] # wfd[w]
    BY <2>1 DEF IInv, UpgradesOwnTheirFd
  <2>3. wpc'[w] = "idle"
        /\ \A v \in Worker : v # w => /\ wpc'[v] = wpc[v] /\ wfd'[v] = wfd[v]
                                      /\ wconn'[v] = wconn[v]
                                      /\ wid'[v] = wid[v]
    BY <1>0, <2>1 DEF WorkerReturns
  <2>4. \A v \in Worker :
          Waiting(v)' /\ wpc'[v] \in {"open", "opening", "respond"} =>
            connections'[wid'[v]] = wfd'[v] /\ file'[wfd'[v]] = wconn'[v]
    BY <1>0, <2>1, <2>2, <2>3, SpeaksFacts
  <2>5. \A v \in Worker : Waiting(v)' => ~Answered(wconn'[v])
    BY <2>3, SpeaksFacts, <1>0
  <2>6. \A k \in Conn : state'[k] \in {"new", "accepted"} =>
          state[k] \in {"new", "accepted"}
    BY <1>0, <2>1
  <2>7. \A v \in Worker : wpc'[v] = "respond" =>
          wpc[v] = "respond" /\ wconn'[v] = wconn[v]
    BY <2>3
  <2> QED
    BY <1>0, <2>1, <2>4, <2>5, <2>6, <2>7, SpeaksFacts, SpeaksUnmoved
<1>5. ASSUME NEW x \in {"running", "done", "threw"},
             wpc[w] \in {"open", "opening"},
             UNCHANGED <<responses, connections, idConn, file, state>>,
             opened' = [opened EXCEPT ![wconn[w]] = x],
             wpc'[w] \in {"idle", "opening", "respond"},
             wpc'[w] = "respond" => x = "done",
             wpc'[w] # "idle" =>
               wfd'[w] = wfd[w] /\ wconn'[w] = wconn[w] /\ wid'[w] = wid[w],
             \A v \in Worker : v # w =>
               /\ wpc'[v] = wpc[v] /\ wfd'[v] = wfd[v]
               /\ wconn'[v] = wconn[v] /\ wid'[v] = wid[v]
      PROVE  SpeaksWhenAnswered'
  <2>1. wconn[w] \in Conn /\ (wconn[w] \notin early => ~Answered(wconn[w]))
    BY <1>0, <1>5, SpeaksFacts
  <2>2. \A k \in Conn : k # wconn[w] => opened'[k] = opened[k]
    BY <1>0, <1>5
  <2>3. \A v \in Worker : Waiting(v)' => ~Answered(wconn'[v])
    BY <1>0, <1>5, SpeaksFacts
  <2>4. \A v \in Worker :
          Waiting(v)' /\ wpc'[v] \in {"open", "opening", "respond"} =>
            connections'[wid'[v]] = wfd'[v] /\ file'[wfd'[v]] = wconn'[v]
    BY <1>0, <1>5, SpeaksFacts
  <2>5. \A v \in Worker : Waiting(v)' /\ wpc'[v] = "respond" =>
          opened'[wconn'[v]] = "done"
    <3>1. ASSUME NEW v \in Worker, Waiting(v)', wpc'[v] = "respond", v # w
          PROVE  opened'[wconn'[v]] = "done"
      <4>1. /\ wpc[v] = "respond" /\ wconn'[v] = wconn[v]
            /\ wconn[v] \in Conn \ early /\ wconn[v] # wconn[w]
        BY <1>0, <1>5, <3>1, SpeaksFacts
      <4>2. opened[wconn[v]] = "done"
        BY <4>1 DEF IInv, SpeaksWhenAnswered
      <4> QED
        BY <2>2, <4>1, <4>2
    <3> QED
      BY <1>0, <1>5, <2>1, <3>1
  <2> QED
    BY <1>0, <1>5, <2>1, <2>2, <2>3, <2>4, <2>5
    DEF IInv, SpeaksWhenAnswered, Answered
<1>6. CASE OpenHandlerBegins(w) \/ OpenHandlerReturns(w)
  BY <1>0, <1>5, <1>6 DEF OpenHandlerBegins, OpenHandlerReturns, mapVars
<1>7. CASE OpenHandlerThrows(w)
  <2>1. /\ wpc[w] = "opening" /\ wpc'[w] = "idle"
        /\ UNCHANGED <<responses, connections, idConn, file, state>>
        /\ opened' = [opened EXCEPT ![wconn[w]] = "threw"]
        /\ \A v \in Worker : v # w =>
             /\ wpc'[v] = wpc[v] /\ wfd'[v] = wfd[v]
             /\ wconn'[v] = wconn[v] /\ wid'[v] = wid[v]
    BY <1>0, <1>7 DEF OpenHandlerThrows, WorkerReturns, mapVars
  <2> QED
    BY <1>0, <1>5, <2>1
<1>9. CASE RegisterSocketFails(w)
  <2>1. /\ wpc'[w] = "idle"
        /\ UNCHANGED <<responses, opened, connections, idConn, file, state>>
        /\ \A v \in Worker : v # w =>
             /\ wpc'[v] = wpc[v] /\ wfd'[v] = wfd[v]
             /\ wconn'[v] = wconn[v] /\ wid'[v] = wid[v]
    BY <1>0, <1>9 DEF RegisterSocketFails, WorkerReturns, mapVars
  <2>2. \A v \in Worker : Waiting(v)' => ~Answered(wconn'[v])
    BY <1>0, <2>1, SpeaksFacts
  <2>3. \A v \in Worker :
          Waiting(v)' /\ wpc'[v] \in {"open", "opening", "respond"} =>
            connections'[wid'[v]] = wfd'[v] /\ file'[wfd'[v]] = wconn'[v]
    BY <1>0, <2>1, SpeaksFacts
  <2>4. \A v \in Worker : wpc'[v] = "respond" =>
          wpc[v] = "respond" /\ wconn'[v] = wconn[v]
    BY <2>1
  <2> QED
    BY <1>0, <2>1, <2>2, <2>3, <2>4, SpeaksFacts, SpeaksUnmoved
<1>8. CASE Respond(w)
  <2> DEFINE k == wconn[w]
             to == file[wfd[w]]
  <2>1. /\ UNCHANGED <<opened, connections, idConn, file, state>>
        /\ wpc[w] = "respond" /\ wpc'[w] = "idle"
        /\ \A v \in Worker : v # w =>
             /\ wpc'[v] = wpc[v] /\ wfd'[v] = wfd[v]
             /\ wconn'[v] = wconn[v] /\ wid'[v] = wid[v]
    BY <1>0, <1>8 DEF Respond, WorkerReturns, mapVars
  <2>2. /\ k \in Conn /\ wfd[w] \in Fd
        /\ state[k] \notin {"new", "accepted"}
        /\ k \notin early => to = k /\ opened[k] = "done"
    BY <1>0, <2>1, SpeaksFacts
    DEF IInv, SpeaksWhenAnswered, UpgradesOwnTheirFd
  <2>3. \A c \in Conn : \/ responses'[c] = responses[c]
                        \/ /\ responses'[c] = responses[c] \cup {k}
                           /\ c = to
    BY <1>0, <1>8, <2>2 DEF Respond
  <2>4. \A c \in Conn \ early : c # k => (c \in responses'[c] <=> Answered(c))
    BY <2>3 DEF Answered
  <2>5. \A v \in Worker : wpc'[v] # "idle" => v # w /\ wconn'[v] # k
    BY <1>0, <2>1, SpeaksFacts
  <2>6. \A v \in Worker : Waiting(v)' =>
          wconn'[v] \in Conn \ early /\ ~Answered(wconn'[v])
    BY <1>0, <2>1, SpeaksFacts
  <2>7. \A v \in Worker : Waiting(v)' => wconn'[v] \notin responses'[wconn'[v]]
    BY <2>4, <2>5, <2>6
  <2>8. \A v \in Worker :
          Waiting(v)' /\ wpc'[v] \in {"open", "opening", "respond"} =>
            connections'[wid'[v]] = wfd'[v] /\ file'[wfd'[v]] = wconn'[v]
    BY <1>0, <2>1, SpeaksFacts
  <2>9. \A v \in Worker : wpc'[v] = "respond" =>
          wpc[v] = "respond" /\ wconn'[v] = wconn[v]
    BY <2>1
  <2>10. \A c \in Conn : responses[c] \subseteq responses'[c]
    BY <2>3
  <2>11. ppc' # "idle" /\ idConn'[lid'] \notin early' =>
           idConn'[lid'] \in responses'[idConn'[lid']]
    BY <1>0, <2>1, <2>10, SpeaksFacts, ListenersEntry DEF Answered
  <2>12. \A c \in Conn : responses'[c] \subseteq {c} \cup early'
    BY <1>0, <2>2, <2>3 DEF IInv, SpeaksWhenAnswered
  <2>13. \A c \in Conn \ early' :
           /\ inbox'[c] # <<>> => c \in responses'[c]
           /\ delivered'[c] + closes'[c] > 0 => c \in responses'[c]
           /\ c \in responses'[c] => opened'[c] = "done"
           /\ state'[c] \in {"new", "accepted"} => c \notin responses'[c]
    BY <1>0, <2>1, <2>2, <2>4, <2>10 DEF IInv, SpeaksWhenAnswered, Answered
  <2>14. \A v \in Worker : Waiting(v)' /\ wpc'[v] = "respond" =>
           opened'[wconn'[v]] = "done"
    BY <1>0, <2>1, <2>9 DEF IInv, SpeaksWhenAnswered
  <2> QED
    BY <2>7, <2>8, <2>11, <2>12, <2>13, <2>14
    DEF SpeaksWhenAnswered, Answered
<1> QED
  BY <1>1, <1>2, <1>3, <1>4, <1>6, <1>7, <1>8, <1>9 DEF UpgradeStep

(* The listener thread has to do with answered clients only.                 *)
LEMMA SpeaksMessage ==
  ASSUME IInv, MessageStep
  PROVE  SpeaksWhenAnswered'
<1> USE DEF Waiting
<1>0. /\ UNCHANGED early
      /\ UNCHANGED <<responses, opened, idConn, wpc, wfd, wconn, wid>>
      /\ DOMAIN state = Conn /\ DOMAIN file = Fd /\ DOMAIN inbox = Conn
      /\ DOMAIN connections = Id /\ DOMAIN delivered = Conn
      /\ DOMAIN closes = Conn
      /\ delivered \in [Conn -> Nat] /\ closes \in [Conn -> Nat]
      /\ inbox \in [Conn -> Seq({"message", "bad", "eof"})]
  BY DEF MessageStep, workerVars, IInv, TypeOK
<1>1. CASE FindConnection
  <2>1. /\ UNCHANGED <<connections, file, state, inbox, delivered, closes>>
        /\ lpc = "callback" /\ ppc = "idle"
        /\ lid' \in Id /\ connections[lid'] = lfd
    BY <1>1 DEF FindConnection
  <2>2. lfd \in Readable /\ file[lfd] \in Conn /\ lfd # NoFd
    BY <2>1, Constants DEF IInv, ListenerHasEntry, Readable, TypeOK
  <2>3. file[lfd] \notin early => Answered(file[lfd])
    BY <1>0, <2>2 DEF IInv, SpeaksWhenAnswered, Readable
  <2>4. file[lfd] = idConn[lid']
    BY <2>1, <2>2 DEF IInv, EntriesOwnTheirFd
  <2> QED
    BY <1>0, <2>1, <2>3, <2>4, SpeaksFacts, SpeaksUnmoved
<1>2. CASE ReadFrame
  <2>1. /\ UNCHANGED <<connections, file, state, delivered, closes, lid>>
        /\ ppc = "read"
        /\ UNCHANGED inbox \/ \E k : /\ inbox[k] # <<>>
                                     /\ inbox' = [inbox EXCEPT ![k] = Tail(@)]
    BY <1>2 DEF ReadFrame
  <2>2. \A c \in Conn : inbox'[c] # <<>> => inbox[c] # <<>>
    BY <1>0, <2>1
  <2> QED
    BY <1>0, <2>1, <2>2, SpeaksFacts, SpeaksUnmoved
<1>3. CASE CallMessageHandler \/ CallCloseHandler
  <2>1. /\ UNCHANGED <<connections, file, state, inbox>>
        /\ ppc # "idle"
        /\ \A c \in Conn : c # idConn[lid] =>
             delivered'[c] = delivered[c] /\ closes'[c] = closes[c]
        /\ ppc' # "idle" => lid' = lid
    BY <1>0, <1>3
    DEF CallMessageHandler, CallCloseHandler, ProcessReturns
  <2>2. \A c \in Conn \ early : delivered'[c] + closes'[c] > 0 =>
          delivered[c] + closes[c] > 0 \/ Answered(c)
    BY <1>0, <2>1, SpeaksFacts
  <2> QED
    BY <1>0, <2>1, <2>2, SpeaksFacts, SpeaksUnmoved
<1>4. CASE RemoveFromListener
  <2>1. /\ UNCHANGED <<connections, file, state, inbox, delivered, closes,
                       lid>>
        /\ ppc # "idle"
    BY <1>4 DEF RemoveFromListener
  <2> QED
    BY <1>0, <2>1, SpeaksFacts, SpeaksUnmoved
<1>5. CASE EraseConnection
  <2>1. /\ UNCHANGED <<inbox, delivered, closes>>
        /\ ppc # "idle" /\ ppc' = "idle"
        /\ connections' = [connections EXCEPT ![lid] = NoFd]
        /\ file' = [file EXCEPT ![connections[lid]] = NoConn]
        /\ state' = [state EXCEPT ![idConn[lid]] = "closed"]
    BY <1>5 DEF EraseConnection, ProcessReturns
  <2>2. /\ idConn[lid] \notin early => Answered(idConn[lid])
        /\ connections[lid] = lfd /\ file[lfd] = idConn[lid]
    BY <1>0, <2>1, SpeaksFacts, ListenersEntry
  <2>3. ASSUME NEW w \in Worker, Waiting(w),
               wpc[w] \in {"open", "opening", "respond"}
        PROVE  connections'[wid[w]] = wfd[w] /\ file'[wfd[w]] = wconn[w]
    <3>1. /\ connections[wid[w]] = wfd[w] /\ file[wfd[w]] = wconn[w]
          /\ wconn[w] \notin early /\ ~Answered(wconn[w])
          /\ wid[w] \in Id /\ wfd[w] \in Fd
      BY <1>0, <2>3, SpeaksFacts
    <3>2. wfd[w] # lfd
      BY <2>2, <3>1
    <3> QED
      BY <1>0, <2>1, <2>2, <3>1, <3>2
  <2>4. \A c \in Conn : state'[c] \in {"new", "accepted"} =>
          state[c] \in {"new", "accepted"}
    BY <1>0, <2>1
  <2> QED
    BY <1>0, <2>1, <2>3, <2>4, SpeaksFacts, SpeaksUnmoved
<1> QED
  BY <1>1, <1>2, <1>3, <1>4, <1>5 DEF MessageStep

(* Every step keeps the listener's clients answered and the workers'         *)
(* unanswered.                                                               *)
LEMMA SpeaksStep ==
  ASSUME IInv, [Next]_vars
  PROVE  SpeaksWhenAnswered'
<1>1. CASE UNCHANGED vars \/ Activate \/ Stop \/ Waits \/ Fails \/ Loops
  <2>1. UNCHANGED <<early, responses, inbox, delivered, closes, opened, state,
                    ppc, lid, idConn, wpc, wfd, wconn, wid, connections, file>>
    BY <1>1 DEF vars, Activate, Stop, Waits, Fails, Loops, messageVars, workerVars,
                mapVars, clientVars, callbackVars
  <2>2. SpeaksWhenAnswered
    BY DEF IInv
  <2> QED
    BY <2>1, <2>2 DEF SpeaksWhenAnswered, Answered, Waiting
<1> QED
  BY <1>1, SpeaksClient, SpeaksUpgrade, SpeaksMessage DEF Next, Terminated

-----------------------------------------------------------------------------
(* The invariant is inductive.                                               *)
LEMMA StepIInv == IInv /\ [Next]_vars => IInv'
<1> SUFFICES ASSUME IInv, [Next]_vars PROVE IInv'
  OBVIOUS
<1> QED
  BY TypeOKStep, OwnersStep, CounterStep, ListeningStep, ClosesStep,
     CountedStep, SpeaksStep
  DEF IInv, Owners, Listening, Closing

(* The invariant holds of every run of the workers, the listener thread    *)
(* and the clients of process_message, add_connection and on_http.         *)
THEOREM ConnectionsInvariant == Spec => []IInv
  BY InitIInv, StepIInv, PTL DEF Spec

(* An entry of connections always has an open descriptor that is its own   *)
(* client's, however often the numbers are used again (process_message's   *)
(* erase against the emplace of add_connection).                           *)
THEOREM EntriesKeepTheirFd == Spec => []EntriesOwnTheirFd
<1>1. IInv => EntriesOwnTheirFd
  BY DEF IInv
<1> QED
  BY <1>1, ConnectionsInvariant, PTL

(* No event that SocketListener::run dispatches is stale, although         *)
(* process_message closes descriptors while the batch is dispatched: the   *)
(* early return for a descriptor without an entry is never taken.          *)
THEOREM EventsStayCurrent == Spec => []NoStaleEvent
<1>1. IInv => NoStaleEvent
  BY DEF IInv
<1> QED
  BY <1>1, ConnectionsInvariant, PTL

(* process_message calls close_handler_ once at most for a connection, and *)
(* message_handler_ never after it.                                        *)
THEOREM CloseHandlerOnce == Spec => []ClosedOnce
<1>1. IInv => ClosedOnce
  BY DEF IInv
<1> QED
  BY <1>1, ConnectionsInvariant, PTL

(* The 101 that on_http writes for a client that neither speaks nor        *)
(* disconnects before it reaches that client and no other, on a descriptor *)
(* that process_message has not closed, whatever other clients do.         *)
THEOREM ResponseReachesItsClient == Spec => []HandshakeReachesItsClient
<1>1. IInv => HandshakeReachesItsClient
  BY DEF IInv, SpeaksWhenAnswered, HandshakeReachesItsClient, Waiting
<1> QED
  BY <1>1, ConnectionsInvariant, PTL

(* For a client that neither speaks nor disconnects before its 101,        *)
(* open_handler_ has returned before the first call of message_handler_ or *)
(* close_handler_, whatever other clients do.                              *)
THEOREM OpenHandlerFirst == Spec => []OpenComesFirst
<1>1. IInv => OpenComesFirst
  BY DEF IInv, SpeaksWhenAnswered, OpenComesFirst
<1> QED
  BY <1>1, ConnectionsInvariant, PTL
=============================================================================
