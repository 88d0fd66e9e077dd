--------------------------- MODULE WSApplication ---------------------------
(***************************************************************************)
(* WebSocket connections from the upgrade to the close: add_connection and *)
(* the upgrade branch of WebServer::on_http, run by the workers of the     *)
(* pool, against process_message (src/WSApplication.cpp), run by the one   *)
(* listener thread.  Nothing in the code synchronises the two.             *)
(*                                                                         *)
(* Descriptor numbers are the kernel's: accept takes the lowest free one,  *)
(* and a closed number is used again.  connection_counter++ is a load and  *)
(* a store.  The operations of the map connections are taken as            *)
(* indivisible, which the code does not ensure; what is shown here is what *)
(* can still go wrong, or still holds, when they are.                      *)
(***************************************************************************)
EXTENDS Integers, Sequences, FiniteSets

CONSTANTS
  Fd,           \* descriptor numbers that are free for connections
  Conn,         \* the clients, each asking for one upgrade
  NoConn,       \* a descriptor that is closed
  Worker,       \* threads of the pool
  MaxEvents,    \* max_events of the listener
  Frame,        \* what clients send, see SendsFrame
  MaxFrames     \* how much a client sends (a bound of the model)

ASSUME WSAssumption ==
  /\ Fd \subseteq Nat \ {0}
  /\ NoConn \notin Conn
  /\ IsFiniteSet(Conn) /\ IsFiniteSet(Worker)
  /\ MaxEvents \in Nat /\ MaxFrames \in Nat
  /\ Frame \subseteq {"message", "bad"}

(* One id per upgrade: connection_counter (uint64_t) does not wrap. *)
Id == 0 .. Cardinality(Conn)

VARIABLES
  interest, running, lpc, lfd, batch,   \* the listener
  connections,    \* the descriptor of each id, NoFd if there is none
  counter,        \* connection_counter
  lid,            \* the iterator of process_message, as an id
  ppc,            \* where the listener thread is in process_message
  wpc,            \* where each worker is in the upgrade
  wfd,            \* client_fd of each worker
  wconn,          \* the client it serves
  wid,            \* connection_id of each worker
  file,           \* the client behind each open descriptor
  state,          \* how far each client got
  inbox,          \* what the server has not yet read from each client
  sent,           \* how many frames each client sent
  responses,      \* whose 101 each client received
  early,          \* clients that spoke or disconnected before their 101
  opened,         \* open_handler_ for each client
  delivered,      \* calls of message_handler_ for each client
  closes,         \* calls of close_handler_ for each client
  stopCalled,     \* stop was called after activate
  idConn          \* the client each id was given to

L == INSTANCE SocketListener
NoFd == L!NoFd

listenerVars == <<interest, running, lpc, lfd, batch>>
messageVars == <<lid, ppc>>
workerVars == <<wpc, wfd, wconn, wid>>
mapVars == <<connections, counter, idConn>>
clientVars == <<state, inbox, sent, responses, early>>
callbackVars == <<opened, delivered, closes, stopCalled>>
vars == <<listenerVars, messageVars, workerVars, mapVars, file, clientVars,
          callbackVars>>

Init ==
  /\ L!ListenerInit
  /\ connections = [i \in Id |-> NoFd]
  /\ counter = 0
  /\ idConn = [i \in Id |-> NoConn]
  /\ lid = 0
  /\ ppc = "idle"
  /\ wpc = [w \in Worker |-> "idle"]
  /\ wfd = [w \in Worker |-> NoFd]
  /\ wconn = [w \in Worker |-> NoConn]
  /\ wid = [w \in Worker |-> 0]
  /\ file = [f \in Fd |-> NoConn]
  /\ state = [k \in Conn |-> "new"]
  /\ inbox = [k \in Conn |-> <<>>]
  /\ sent = [k \in Conn |-> 0]
  /\ responses = [k \in Conn |-> {}]
  /\ opened = [k \in Conn |-> "no"]
  /\ delivered = [k \in Conn |-> 0]
  /\ closes = [k \in Conn |-> 0]
  /\ early = {}
  /\ stopCalled = FALSE

Open(k) == \E f \in Fd : file[f] = k

(* Nothing of the program goes on after std::terminate. *)
Alive == lpc # "terminated"

-----------------------------------------------------------------------------
(* The kernel and the clients. *)

(* The server accepts the client and has read its upgrade request. *)
Accept(k) ==
  /\ state[k] = "new"
  /\ \E f \in Fd :
       /\ file[f] = NoConn
       /\ \A g \in Fd : g < f => file[g] # NoConn
       /\ file' = [file EXCEPT ![f] = k]
  /\ state' = [state EXCEPT ![k] = "accepted"]
  /\ UNCHANGED <<inbox, sent, responses, early>>

(* A client should wait for its 101, but nothing makes it, and it may      *)
(* disconnect whenever it likes.                                           *)
ClientSends(k, frame) ==
  /\ Open(k)
  /\ early' = IF k \in responses[k] THEN early ELSE early \cup {k}
  /\ sent[k] < MaxFrames
  /\ \A i \in DOMAIN inbox[k] : inbox[k][i] # "eof"
  /\ inbox' = [inbox EXCEPT ![k] = Append(@, frame)]
  /\ sent' = [sent EXCEPT ![k] = @ + 1]
  /\ UNCHANGED <<file, state, responses>>

(* A message that get_websocket_frame returns, or anything it throws at: a *)
(* close, ping or pong frame, a bad sequence, a frame that is not complete *)
(* in the buffer of the non-blocking socket, ...                           *)
SendsFrame(k) == \E x \in Frame : ClientSends(k, x)

(* ... or the end of the stream. *)
Disconnects(k) == ClientSends(k, "eof")

-----------------------------------------------------------------------------
(* on_http, lines 109-117, and add_connection. *)

(* The task is over, and its locals with it. *)
WorkerReturns(w) ==
  /\ wpc' = [wpc EXCEPT ![w] = "idle"]
  /\ wfd' = [wfd EXCEPT ![w] = NoFd]
  /\ wconn' = [wconn EXCEPT ![w] = NoConn]
  /\ wid' = [wid EXCEPT ![w] = 0]

BeginUpgrade(w) ==
  /\ wpc[w] = "idle"
  /\ \E f \in Fd :
       /\ file[f] # NoConn /\ state[file[f]] = "accepted"
       /\ wfd' = [wfd EXCEPT ![w] = f]
       /\ wconn' = [wconn EXCEPT ![w] = file[f]]
       /\ state' = [state EXCEPT ![file[f]] = "upgrading"]
  /\ wpc' = [wpc EXCEPT ![w] = "load"]
  /\ UNCHANGED <<listenerVars, wid, mapVars, file, responses, opened>>

LoadCounter(w) ==
  /\ wpc[w] = "load"
  /\ wid' = [wid EXCEPT ![w] = counter]
  /\ wpc' = [wpc EXCEPT ![w] = "store"]
  /\ UNCHANGED <<listenerVars, wfd, wconn, mapVars, file, state, responses,
                 opened>>

StoreCounter(w) ==
  /\ wpc[w] = "store"
  /\ counter' = wid[w] + 1
  /\ wpc' = [wpc EXCEPT ![w] = "emplace"]
  /\ UNCHANGED <<listenerVars, wfd, wconn, wid, connections, idConn, file,
                 state, responses, opened>>

Emplace(w) ==
  /\ wpc[w] = "emplace"
  /\ connections[wid[w]] = NoFd
  /\ connections' = [connections EXCEPT ![wid[w]] = wfd[w]]
  /\ idConn' = [idConn EXCEPT ![wid[w]] = wconn[w]]
  /\ wpc' = [wpc EXCEPT ![w] = "register"]
  /\ UNCHANGED <<listenerVars, wfd, wconn, wid, counter, file, state,
                 responses, opened>>

(* Mutant: on_http goes on after the failure. *)
EmplaceFailsAndGoesOn(w) ==
  /\ wpc[w] = "emplace"
  /\ connections[wid[w]] # NoFd
  /\ file' = [file EXCEPT ![wfd[w]] = NoConn]
  /\ state' = [state EXCEPT ![wconn[w]] = "rejected"]
  /\ wpc' = [wpc EXCEPT ![w] = "respond"]
  /\ UNCHANGED <<listenerVars, wfd, wconn, wid, mapVars, responses, opened>>

(* The id is in use: the WebSocket that could not be inserted is destroyed *)
(* and closes the descriptor; the exception ends the task.                 *)
EmplaceFails(w) ==
  /\ wpc[w] = "emplace"
  /\ connections[wid[w]] # NoFd
  /\ file' = [file EXCEPT ![wfd[w]] = NoConn]
  /\ state' = [state EXCEPT ![wconn[w]] = "rejected"]
  /\ WorkerReturns(w)
  /\ UNCHANGED <<listenerVars, mapVars, responses, opened>>

(* Mutant: the 101 is written before open_handler_ is called. *)
RegisterSocketAndRespond(w) ==
  /\ wpc[w] = "register"
  /\ L!AddSocket(wfd[w])
  /\ wpc' = [wpc EXCEPT ![w] = "open"]
  /\ responses' = [responses EXCEPT ![wconn[w]] = @ \cup {wconn[w]}]
  /\ UNCHANGED <<wfd, wconn, wid, mapVars, file, state, opened>>

RegisterSocket(w) ==
  /\ wpc[w] = "register"
  /\ L!AddAccepted(wfd[w], {f \in Fd : file[f] # NoConn})
  /\ L!AddSocket(wfd[w])
  /\ wpc' = [wpc EXCEPT ![w] = "open"]
  /\ UNCHANGED <<wfd, wconn, wid, mapVars, file, state, responses, opened>>

(* add_socket throws, which ends the task: the entry stays in the map, its *)
(* descriptor open, nobody listens to it, and there is no 101.             *)
RegisterSocketFails(w) ==
  /\ wpc[w] = "register"
  /\ WorkerReturns(w)
  /\ UNCHANGED <<listenerVars, mapVars, file, state, responses, opened>>

(* From here on the listener may process, and erase, the connection that   *)
(* open_handler_ has a reference to.                                       *)
OpenHandlerBegins(w) ==
  /\ wpc[w] = "open"
  /\ wpc' = [wpc EXCEPT ![w] = "opening"]
  /\ opened' = [opened EXCEPT ![wconn[w]] = "running"]
  /\ UNCHANGED <<listenerVars, wfd, wconn, wid, mapVars, file, state,
                 responses>>

OpenHandlerReturns(w) ==
  /\ wpc[w] = "opening"
  /\ wpc' = [wpc EXCEPT ![w] = "respond"]
  /\ opened' = [opened EXCEPT ![wconn[w]] = "done"]
  /\ UNCHANGED <<listenerVars, wfd, wconn, wid, mapVars, file, state,
                 responses>>

(* The connection stays in the map and in the epoll set; no 101 is sent. *)
OpenHandlerThrows(w) ==
  /\ wpc[w] = "opening"
  /\ WorkerReturns(w)
  /\ opened' = [opened EXCEPT ![wconn[w]] = "threw"]
  /\ UNCHANGED <<listenerVars, mapVars, file, state, responses>>

(* Mutant: the descriptor is closed as in the other branches of on_http. *)
RespondAndClose(w) ==
  /\ wpc[w] = "respond"
  /\ WorkerReturns(w)
  /\ file' = [file EXCEPT ![wfd[w]] = NoConn]
  /\ UNCHANGED <<listenerVars, mapVars, state, responses, opened>>

(* write(client_fd, ...): the 101 goes to whoever has the number now. *)
Respond(w) ==
  /\ wpc[w] = "respond"
  /\ WorkerReturns(w)
  /\ IF file[wfd[w]] = NoConn
     THEN UNCHANGED responses
     ELSE responses' = [responses EXCEPT ![file[wfd[w]]] = @ \cup {wconn[w]}]
  /\ UNCHANGED <<listenerVars, mapVars, file, state, opened>>

-----------------------------------------------------------------------------
(* activate, stop and the listener thread. *)

Activate ==
  /\ L!CreateThread
  /\ UNCHANGED <<messageVars, workerVars, mapVars, file, clientVars,
                 callbackVars>>

(* Called by WebServer::request_stop, which succeeds once; without a       *)
(* listener thread it does nothing.                                        *)
Stop ==
  /\ Alive /\ lpc # "off"
  /\ ~stopCalled
  /\ L!Stop
  /\ stopCalled' = TRUE
  /\ UNCHANGED <<messageVars, workerVars, mapVars, file, clientVars, opened,
                 delivered, closes>>

Readable == {f \in Fd : file[f] # NoConn /\ inbox[file[f]] # <<>>}

Waits ==
  /\ L!EpollReturns(Readable)
  /\ UNCHANGED <<messageVars, workerVars, mapVars, file, clientVars,
                 callbackVars>>

Loops ==
  /\ L!SetRunning \/ L!TestRunning \/ L!EpollReturnsNothing \/ L!Dispatch
  /\ UNCHANGED <<messageVars, workerVars, mapVars, file, clientVars,
                 callbackVars>>

Fails ==
  /\ L!EpollFails
  /\ UNCHANGED <<messageVars, workerVars, mapVars, file, clientVars,
                 callbackVars>>

-----------------------------------------------------------------------------
(* process_message. *)

ProcessReturns ==
  /\ L!CallbackReturns
  /\ ppc' = "idle"
  /\ lid' = 0

(* The early return, for a descriptor without an entry, is never taken:    *)
(* NoStaleEvent says that an event always has its entry.                   *)
FindConnection ==
  /\ lpc = "callback" /\ ppc = "idle"
  /\ \E i \in Id :
       /\ connections[i] = lfd
       /\ lid' = i
  /\ ppc' = "read"
  /\ UNCHANGED <<interest, lpc, lfd, connections, file, state, inbox,
                 delivered, closes>>

(* Mutant: a recv that returns 0 is no error. *)
EndIsAMessage(frame) == IF frame = "bad" THEN "close" ELSE "message"

(* What read_frame leads to: everything it throws at ends the connection.  *)
Outcome(frame) == IF frame = "message" THEN "message" ELSE "close"

(* read_frame: recv on the descriptor of the connection; on an empty       *)
(* buffer the non-blocking recv fails, which read_frame takes for an error.*)
ReadFrame ==
  /\ ppc = "read"
  /\ LET k == file[connections[lid]]
     IN  IF inbox[k] = <<>>
         THEN ppc' = "close" /\ UNCHANGED inbox
         ELSE /\ ppc' = Outcome(Head(inbox[k]))
              /\ inbox' = [inbox EXCEPT ![k] = Tail(@)]
  /\ UNCHANGED <<interest, lpc, lfd, lid, connections, file, state, delivered,
                 closes>>

(* Mutant: the handler is called twice. *)
CallMessageHandlerTwice ==
  /\ ppc = "message"
  /\ delivered' = [delivered EXCEPT ![idConn[lid]] = @ + 2]
  /\ ProcessReturns
  /\ UNCHANGED <<interest, connections, file, state, inbox, closes>>

CallMessageHandler ==
  /\ ppc = "message"
  /\ delivered' = [delivered EXCEPT ![idConn[lid]] = @ + 1]
  /\ ProcessReturns
  /\ UNCHANGED <<interest, connections, file, state, inbox, closes>>

CallCloseHandler ==
  /\ ppc = "close"
  /\ closes' = [closes EXCEPT ![idConn[lid]] = @ + 1]
  /\ ppc' = "remove"
  /\ UNCHANGED <<interest, lpc, lfd, lid, connections, file, state, inbox,
                 delivered>>

(* Mutant: erase before remove_socket. *)
RemoveFromListenerErasesFirst ==
  /\ ppc = "remove"
  /\ connections' = [connections EXCEPT ![lid] = NoFd]
  /\ file' = [file EXCEPT ![lfd] = NoConn]
  /\ interest' = interest \ {lfd}
  /\ ppc' = "erase"
  /\ UNCHANGED <<lpc, lfd, lid, state, inbox, delivered, closes>>

RemoveFromListener ==
  /\ ppc = "remove"
  /\ L!RemoveSocket(lfd)
  /\ ppc' = "erase"
  /\ UNCHANGED <<lid, connections, file, state, inbox, delivered, closes>>

(* Mutant: the descriptor is closed and the entry stays. *)
EraseConnectionNot ==
  /\ ppc = "erase"
  /\ file' = [file EXCEPT ![connections[lid]] = NoConn]
  /\ state' = [state EXCEPT ![idConn[lid]] = "closed"]
  /\ ProcessReturns
  /\ interest' = interest \ {connections[lid]}
  /\ UNCHANGED <<connections, inbox, delivered, closes>>

(* The WebSocket in the map is destroyed and closes its descriptor, which  *)
(* takes it out of the epoll set too.                                      *)
EraseConnection ==
  /\ ppc = "erase"
  /\ connections' = [connections EXCEPT ![lid] = NoFd]
  /\ file' = [file EXCEPT ![connections[lid]] = NoConn]
  /\ state' = [state EXCEPT ![idConn[lid]] = "closed"]
  /\ ProcessReturns
  /\ interest' = interest \ {connections[lid]}
  /\ UNCHANGED <<inbox, delivered, closes>>

-----------------------------------------------------------------------------
ClientStep(k) ==
  /\ Alive
  /\ Accept(k) \/ SendsFrame(k) \/ Disconnects(k)
  /\ UNCHANGED <<listenerVars, messageVars, workerVars, mapVars, callbackVars>>

UpgradeStep(w) ==
  /\ Alive
  /\ \/ BeginUpgrade(w)
     \/ LoadCounter(w)
     \/ StoreCounter(w)
     \/ Emplace(w)
     \/ EmplaceFails(w)
     \/ RegisterSocket(w)
     \/ RegisterSocketFails(w)
     \/ OpenHandlerBegins(w)
     \/ OpenHandlerReturns(w)
     \/ OpenHandlerThrows(w)
     \/ Respond(w)
  /\ UNCHANGED <<messageVars, inbox, sent, early, delivered, closes,
                 stopCalled>>

MessageStep ==
  /\ \/ FindConnection
     \/ ReadFrame
     \/ CallMessageHandler
     \/ CallCloseHandler
     \/ RemoveFromListener
     \/ EraseConnection
  /\ UNCHANGED <<running, batch, workerVars, counter, idConn, sent, responses,
                 early, opened, stopCalled>>

(* The listener thread has ended; what is left of the upgrades may too. *)
Ended == lpc \in {"exited", "terminated"}

Terminated == Ended /\ UNCHANGED vars

Next ==
  \/ \E k \in Conn : ClientStep(k)
  \/ \E w \in Worker : UpgradeStep(w)
  \/ Activate \/ Stop
  \/ Waits \/ Fails \/ Loops \/ MessageStep
  \/ Terminated

Spec == Init /\ [][Next]_vars

(* The listener thread runs, the workers run, and epoll_wait does not pass *)
(* over a ready descriptor for ever.                                       *)
WaitsFor(f) == Waits /\ \E i \in DOMAIN batch' : batch'[i] = f

FairSpec ==
  /\ Spec
  /\ WF_vars(Activate)
  /\ WF_vars(Loops)
  /\ WF_vars(MessageStep)
  /\ \A f \in Fd : SF_vars(WaitsFor(f))
  /\ \A w \in Worker : WF_vars(UpgradeStep(w))

-----------------------------------------------------------------------------
(* Properties. *)

TypeOK ==
  /\ L!ListenerTypeOK
  /\ connections \in [Id -> Fd \cup {NoFd}]
  /\ counter \in Id
  /\ idConn \in [Id -> Conn \cup {NoConn}]
  /\ lid \in Id
  /\ ppc \in {"idle", "read", "message", "close", "remove", "erase"}
  /\ wpc \in [Worker -> {"idle", "load", "store", "emplace", "register",
                         "open", "opening", "respond"}]
  /\ wfd \in [Worker -> Fd \cup {NoFd}]
  /\ wconn \in [Worker -> Conn \cup {NoConn}]
  /\ wid \in [Worker -> Id]
  /\ file \in [Fd -> Conn \cup {NoConn}]
  /\ state \in [Conn -> {"new", "accepted", "upgrading", "rejected",
                         "closed"}]
  /\ inbox \in [Conn -> Seq({"message", "bad", "eof"})]
  /\ sent \in [Conn -> 0 .. MaxFrames]
  /\ responses \in [Conn -> SUBSET Conn]
  /\ opened \in [Conn -> {"no", "running", "done", "threw"}]
  /\ delivered \in [Conn -> Nat]
  /\ closes \in [Conn -> Nat]
  /\ early \subseteq Conn /\ stopCalled \in BOOLEAN

(* An entry of connections has an open descriptor, its own client is       *)
(* behind it, and no other entry has it, although numbers are used again   *)
(* and the listener erases entries while workers add others.               *)
EntriesOwnTheirFd ==
  \A i \in Id : connections[i] # NoFd =>
    /\ file[connections[i]] = idConn[i]
    /\ idConn[i] # NoConn
    /\ \A j \in Id : connections[j] = connections[i] => j = i

(* The events of a batch are still true when they are dispatched: no       *)
(* descriptor of the batch was closed, or closed and used again, since     *)
(* epoll_wait reported it, none is in the batch twice, and process_message *)
(* finds an entry for each.                                                *)
NoStaleEvent ==
  /\ \A i, j \in DOMAIN batch : batch[i] = batch[j] => i = j
  /\ \A i \in DOMAIN batch : batch[i] \in interest \cap Readable
  /\ lpc = "callback" /\ ppc = "idle" => \E i \in Id : connections[i] = lfd
  /\ ppc = "read" => lfd = connections[lid] /\ lfd \in Readable

(* on_close is called once for a connection, on_message never after it,    *)
(* and the entry is gone before the descriptor can be used again.          *)
ClosedOnce ==
  /\ \A k \in Conn : closes[k] <= 1
  /\ ppc = "message" => closes[idConn[lid]] = 0
  /\ ppc \in {"remove", "erase"} => file[lfd] = idConn[lid]

(* A client that neither speaks nor disconnects before its 101 is safe     *)
(* from those that do: nobody else gets its 101, and the listener does not *)
(* close the descriptor that the worker is about to write it to.           *)
HandshakeReachesItsClient ==
  /\ \A k \in Conn : responses[k] \subseteq {k} \cup early
  /\ \A w \in Worker :
       wpc[w] \in {"opening", "respond"} /\ wconn[w] \notin early =>
         connections[wid[w]] = wfd[w] /\ file[wfd[w]] = wconn[w]

(* For such a client on_message and on_close are called only after on_open *)
(* has returned, whatever the other clients do.                            *)
OpenComesFirst ==
  \A k \in Conn \ early :
    delivered[k] + closes[k] > 0 => opened[k] = "done"

(* Without the condition both fail.  README.md:67-74 has on_open say       *)
(* "Connection opened" and on_close "Connection closed" of a connection.   *)
(* When a connection was closed, on_close called and the WebSocket erased, *)
(* no worker is still at opening it: with on_open to call, which is given  *)
(* the WebSocket, or the 101 to write, to a number that accept may have    *)
(* given to another client.                                                *)
ClosedAfterOpened ==
  \A k \in Conn : state[k] = "closed" => \A w \in Worker : wconn[w] # k

(* The inductive invariant.  Its parts say that a client is behind one     *)
(* descriptor at most, and behind none before accept or after the close;   *)
(* ...                                                                     *)
OneFilePerClient ==
  /\ \A f, g \in Fd : file[f] = file[g] /\ file[f] # NoConn => f = g
  /\ \A f \in Fd : file[f] # NoConn =>
                      state[file[f]] \in {"accepted", "upgrading"}
  /\ \A i \in Id : connections[i] # NoFd => state[idConn[i]] = "upgrading"

(* ... that a worker serves a client of its own, whose descriptor only the *)
(* worker has until the entry is made, which then is there at least until  *)
(* the descriptor is registered; ...                                       *)
UpgradesOwnTheirFd ==
  \A w \in Worker : wpc[w] # "idle" =>
    /\ wfd[w] \in Fd /\ wconn[w] \in Conn
    /\ state[wconn[w]] \notin {"new", "accepted"}
    /\ \A v \in Worker : wpc[v] # "idle" /\ wconn[v] = wconn[w] => v = w
    /\ wpc[w] \in {"load", "store", "emplace"} =>
         /\ file[wfd[w]] = wconn[w] /\ state[wconn[w]] = "upgrading"
         /\ \A i \in Id : connections[i] # wfd[w]
    /\ wpc[w] = "register" =>
         /\ file[wfd[w]] = wconn[w] /\ connections[wid[w]] = wfd[w]
         /\ wfd[w] \notin interest
         /\ lpc = "callback" => lfd # wfd[w]

(* ... that the counter, and every number read from it, stays behind the   *)
(* number of upgrades, although increments are lost; ...                   *)
Numbering == {w \in Worker : wpc[w] \in {"load", "store"}}
Begun == {k \in Conn : state[k] \notin {"new", "accepted"}}

CounterLags ==
  /\ counter + Cardinality(Numbering) <= Cardinality(Begun)
  /\ \A w \in Worker : wpc[w] = "store" =>
       wid[w] + Cardinality(Numbering) <= Cardinality(Begun)

(* ... that what is registered has an entry, and the listener thread works *)
(* on an entry that nobody else erases; ...                                *)
ListenerHasEntry ==
  /\ \A f \in interest : \E i \in Id : connections[i] = f
  /\ lpc = "callback" =>
       lfd \in Fd /\ \A i \in DOMAIN batch : batch[i] # lfd
  /\ lpc = "callback" /\ ppc \in {"idle", "read"} =>
       lfd \in interest \cap Readable
  /\ ppc # "idle" => lpc = "callback" /\ connections[lid] = lfd

(* ... that a connection whose on_close was not called yet is one that is  *)
(* being upgraded, or has an entry; ...                                    *)
NotYetClosed ==
  /\ \A k \in Conn : state[k] \in {"new", "accepted"} => closes[k] = 0
  /\ \A w \in Worker : wpc[w] \in {"load", "store", "emplace"} =>
       closes[wconn[w]] = 0
  /\ \A i \in Id : connections[i] # NoFd =>
       closes[idConn[i]] = 0 \/ (i = lid /\ ppc \in {"remove", "erase"})

(* ... that on_message is called once at most for each frame of a client,  *)
(* of its own client and no other; ...                                     *)
Handling(k) == IF ppc = "message" /\ idConn[lid] = k THEN 1 ELSE 0

FramesAreCounted ==
  \A k \in Conn : delivered[k] + Handling(k) + Len(inbox[k]) <= sent[k]

(* ... and that the listener deals only with clients that have their 101,  *)
(* and the workers with those that do not, among the clients that neither  *)
(* speak nor disconnect before it.                                         *)
Answered(k) == k \in responses[k]

Waiting(w) == wpc[w] # "idle" /\ wconn[w] \notin early

SpeaksWhenAnswered ==
  /\ \A k \in Conn : responses[k] \subseteq {k} \cup early
  /\ \A k \in Conn \ early :
       /\ inbox[k] # <<>> => Answered(k)
       /\ delivered[k] + closes[k] > 0 => Answered(k)
       /\ Answered(k) => opened[k] = "done"
       /\ state[k] \in {"new", "accepted"} => ~Answered(k)
  /\ ppc # "idle" /\ idConn[lid] \notin early => Answered(idConn[lid])
  /\ \A w \in Worker : Waiting(w) =>
       /\ ~Answered(wconn[w])
       /\ wpc[w] \in {"open", "opening", "respond"} =>
            connections[wid[w]] = wfd[w] /\ file[wfd[w]] = wconn[w]
       /\ wpc[w] = "respond" => opened[wconn[w]] = "done"

IInv ==
  /\ TypeOK
  /\ OneFilePerClient
  /\ EntriesOwnTheirFd
  /\ UpgradesOwnTheirFd
  /\ CounterLags
  /\ NoStaleEvent
  /\ ListenerHasEntry
  /\ ClosedOnce
  /\ NotYetClosed
  /\ FramesAreCounted
  /\ SpeaksWhenAnswered

Over == ~running \/ ~Alive

(* What a client sends is read, or its connection closed, as long as the   *)
(* listener runs.                                                          *)
FramesAreRead ==
  \A k \in Conn, f \in Fd :
    file[f] = k /\ f \in interest /\ inbox[k] # <<>> ~>
      inbox[k] = <<>> \/ file[f] # k \/ Over

(* A connection whose client went away is closed in the server. *)
EndsAreNoticed ==
  \A k \in Conn, f \in Fd :
    /\ file[f] = k /\ f \in interest
    /\ \E i \in DOMAIN inbox[k] : inbox[k][i] = "eof"
    ~> closes[k] = 1 \/ Over

(* stop ends the loop of a run that has begun. *)
StopEndsLoop ==
  lpc \in {"test", "wait", "dispatch", "callback"} /\ ~running ~>
    Ended

(* The test Run_WithNoSockets_ExitsOnStop: stop ends a run whose thread    *)
(* was created before.                                                     *)
StopEndsRun == stopCalled ~> Ended
=============================================================================
