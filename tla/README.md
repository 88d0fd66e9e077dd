# A verification development for LWS (web_server_cpp)

TLA+ models of the server's own logic, the TLC configurations that check them
on small instances, and TLAPS proofs about every module: the inductive
invariants, and all safety invariants that the runs check.
Line numbers below are those of the sources under `src/`, `include/server/` and
`tests/` of the repository.

## 1. The system

| part | state | operations | runs in |
|---|---|---|---|
| `Threadpool` | `workers_`, `tasks_`, `mtx_`, `cv_`, `shutdown_` | `submit`, `request_stop`, `wait_for_exit`, destructor, `worker_loop` | callers; one `jthread` per worker |
| `WebServer` | `server_fd`, `server_thread`, `stop_source`, `thread_pool_`, `method_handlers`, `mtx`, `cv`, `ws_app_`, `shutdown_flag` | route and handler registration, `run`, `request_stop`, `wait_for_exit`, `main_thread_acceptor`, `on_http` | callers; the acceptor; `on_http` in the pool's workers |
| `SocketListener` | `epoll_fd_`, `events_`, `running_` | `add_socket`, `remove_socket`, `run`, `stop` | `run` in one thread, the rest in any |
| `WSApplication` | `connections`, `connection_counter`, `socket_listener_`, `listener_thread_`, three handlers | `activate`, `stop`, `add_connection`, `process_message` | `add_connection` in workers, `process_message` in the listener thread |
| `WebSocket` | `socket_fd_` | `send`, `read_frame` | whoever holds a reference |
| `HttpRequest`, `HttpResponse` | none | parsing, rendering, static files | workers |
| `examples/olivec`, `examples/paint` | `clients` (`ws_connections`), `drawHistory`; a canvas in each page | `on_open`, `on_message`, `on_close`, `broadcast`; the page's socket handlers | `on_open` in workers, the rest in the listener thread; the browsers |

How they interact. The acceptor accepts a connection, looks at `shutdown_flag`
under `WebServer::mtx` and submits a task to the pool. A worker runs `on_http`:
one `read`, parse, and either a response and a `close`, or the upgrade, which
moves the descriptor into `WSApplication::connections`, registers it with
epoll, calls `on_open` and only then writes the 101. From the registration on,
the listener thread may call `process_message` for it, which reads a message
and calls `on_message`, or calls `on_close` and closes the descriptor.
`request_stop` sets the stop token and the flag, closes the pool, stops the
listener, shuts the listening socket down, joins the workers while holding
`mtx`, and closes the socket.

What is hard here: a condition variable whose wait also returns for a stop
token; notifications sent after the unlock; a flag tested and used in two
critical sections; shutdown while connections arrive, are queued and are
served; joins from several threads and from the joined worker itself; members
destroyed before the threads that use them; descriptor numbers that are closed
in one thread and used again by another; callbacks that begin before the call
that registers them has returned; batches of events dispatched after other
callbacks ran; a lock kept across joins of threads that need it; non-blocking
reads and writes that stop half-way; pointers to connections kept by the
programs; byte order and limits of the frame format.

What makes each part correct:

* `Threadpool`: tasks start in the order of submission, each once; every
  accepted task is run, also during a shutdown; no wakeup is lost; joins
  return; no member is used after it is destroyed.
* `WebServer`: every accepted descriptor has one owner; a stop returns, leaves
  no worker, no queued connection and no open listening socket behind, and can
  be requested once; only connections accepted during the shutdown are dropped;
  no member is used after it is destroyed.
* `SocketListener`: every descriptor that is registered and stays readable is
  called back; `stop` ends `run`.
* `WSApplication`: an entry owns its descriptor; events that are dispatched are
  still true; `on_close` comes once and last; `on_open` comes first and the 101
  reaches the client that asked for it.
* `WebSocket`: a message is delivered exactly when its frames form one, whole,
  with its opcode, however the network cuts the stream; what `send` writes can
  be read.
* `HttpRequest`, `HttpResponse` and routing: a request is understood as it was
  meant, gets the handler registered last for its route, and its client reads
  back what the handler returned.
* the drawing servers: all pages end up with the same strokes, pointers to
  connections are live, a client that leaves or is slow harms nobody else.

Not all of this holds. What the code does against its documents and tests is
listed at the end of section 3; the properties that the passing runs check say
how far it goes.

## 2. The modules

    TaskPool        a first-in first-out queue served by slots     (abstract)
    Threadpool      the pool, its condition variable, its destructor
                    implements TaskPool
    WebServer       constructor, acceptor, on_http, stop, wait, destructor
                    uses TaskPool as its pool
    SocketListener  the operations of the epoll loop               (no Next)
    WSApplication   upgrade in the workers against the listener thread
                    uses SocketListener
    WebSocket       frames written and read
    Http            one request and its answer: parsing, routes, static files,
                    responses, what the client reads back
    Canvas          the drawing servers and their page over the library
    ThreadpoolProofs, WebServerProofs, WSApplicationProofs, WebSocketProofs,
    HttpProofs, CanvasProofs
                    theorems about the modules they are named after
    HttpTextProofs  what cutting text returns, that it undoes joining, what a
                    client writes and parse_http_request reads of it; the digits
                    of numbers, what to_string writes and what a client reads of
                    it; used by HttpProofs
    DataInduction   induction over numbers, folds of sequences; used by
                    WebSocketProofs and HttpTextProofs
    MCWebServer, MCWSApplication, MCWebSocket, MCHttp, MCCanvas
                    bounds, symmetry sets and input sets for TLC

`WebServer` is checked over the abstract pool, not over `Threadpool`: the
refinement between the two, proved for its safety part and checked for its
liveness, is what makes this sound, and it keeps the instance small.

Operators with `Mutant:` in their comment are not part of any specification.
Each is a plausible bug in the operation it stands before; the property named
with it in `PROJECT.json` is violated when it takes that operation's place.

### Threadpool

A critical section of `mtx_` is one action: `tasks_` and `shutdown_` are
touched nowhere else. What comes after an unlock is a step of its own
(`SubmitNotifies`, `RequestStopNotifies`, one `RequestStopWorker` per worker).
`wpc = "waiting"` means blocked in `cv_.wait`; a woken worker is at `"loop"`
again and evaluates `WaitReturns`, the disjunction of the predicate and the
stop token. `notify_one` wakes any one waiter; spurious wakeups happen.
`SignalStop` is `jthread::request_stop`, whose stop callback notifies everybody
if the worker sleeps. A pop from an empty queue would run with `NoTask`.

The destructor sets the flag, notifies, and then destroys the members in
reverse order of declaration: `cv_`, `mtx_` and `tasks_` first (`alive`
becomes FALSE), then each `jthread` of `workers_` is stopped and joined.
`EarlyDestroy` says whether it may begin with workers that were not joined;
then a worker can lock `mtx_` after its end (`WorkerUsesDestroyed`), with any
outcome the old bytes allow, or be found `"crashed"`. The run `threadpool` has
both kinds of destruction; its liveness properties end where a worker crashed.

`accepted`, `started` and `finished` are history variables. `wait_for_exit`
in two threads at once would join a `jthread` twice; `WaitForExit` excludes
it, and `WebServer` ensures it (`JoinersExclude`).

### WebServer

One action per statement of `request_stop` and `wait_for_exit` that other
threads can observe, one per step of the acceptor, and one per way `on_http`
ends: unknown method, response, a handler that throws, an upgrade that is
taken over or refused, a read that fails. `fd` is the state of each
connection's descriptor. `mtx` is a variable only because `wait_for_exit`
keeps it while it joins; the short sections under it are single actions with
the guard `mtx = NoThread`. `StopInHandler` lets route handlers call
`request_stop`; joining oneself makes `join` throw (`JoinsItself`). `Run`
happens once and before any stop. `Construct` is the constructor: its workers
run before `listen` is called, and when `listen` fails it throws and the
members are destroyed as by `~WebServer`, which otherwise runs after a stop
that returned, or on a server that never ran, as in the tests. Destruction goes
by steps, since workers may still be about: `ws_app_`, `cv` and `mtx`, with
`~Threadpool`'s notification (`DestroyMembers`), the pool's `cv_`, `mtx_` and
`tasks_` (`DestroyPoolMembers`), its threads one by one (`DestroyJoinsWorker`),
and the acceptor's thread (`DestroyJoinsAcceptor`). A worker that gets to its
loop only after the second locks dead storage; the server may then be
`"crashed"`.

`write` on the blocking socket returns when the answer fits into the buffers
of the connection. A client in `Deaf` may stay and never read; a worker that
writes to one may stay in `write` for ever (`hpc = "full"`), as one that reads
from a client in `Silent` stays in `read`. Neither call has a timeout.

A stop can hang for three reasons, which `Stuck` names: a worker in such a
`read`, a worker in such a `write` (`InSystemCall`), and a route handler that
has called `request_stop` while another thread joins the workers inside
`wait_for_exit`: that thread keeps `mtx` (lines 88-90), the handler waits for
`mtx`, and the join waits for the handler (`StopsUnderJoin`). `StopReturns` and
`AcceptorExits` say that there is no fourth reason; nothing in the repository
rules the three out. `SubmittedAreServed` says that a connection that waits in
the queue for ever finds every single worker blocked in one of these ways, or
in a join of one that is.

### SocketListener and WSApplication

`SocketListener` has no specification of its own: its operations are composed
in `WSApplication`, where the kernel's side (which descriptors are open, which
client is behind each, what is readable) and the callback are known.
`accept` returns the lowest free number and a closed number is used again.
`connection_counter++` is a load and a store, as it is not atomic. Operations
on the map `connections` are taken as indivisible; the code does not lock it,
which is a data race, and the model shows what holds or fails apart from it.
What a client sends is `"message"`, `"bad"` (anything `read_frame` throws at,
an incomplete frame in the buffer included) or `"eof"`. The history variable
`early` is the set of clients that sent something, or disconnected, before they
had received their 101. The properties about `on_open` and the 101 are about
the other clients, whatever those in `early` do: a client that waits for its
101 loses nothing by one that does not. For a client in `early` they fail
(run `wsapp_early`). `add_socket` may throw, and so may `open_handler_`: then
the entry stays, without a 101 (`RegisterSocketFails`, `OpenHandlerThrows`).
`epoll_wait` may fail for good, which ends the thread and the process
(`EpollFails`, `lpc = "terminated"`).

### WebSocket

A frame is its FIN bit, opcode, payload length, whether it is masked, and the
bytes of the length field; the reader compares the length it computes with the
payload that is there. Messages of the program go through `send` and
`send_frame`; frames of a client are arbitrary. A frame travels in the pieces
that `parse_frame` receives one by one, and `Arrive` brings any number of them,
with or without some bytes of the next. The socket does not block, so a `recv`
that finds too little ends the connection (`RecvFails`): a message that TCP
delivers in two parts closes it, unless the parts are messages. `LittleEndian`
is the byte order of the host. `Sums` adds up pieces and payloads; it is a
recursive function, so that the proofs can use it. `DeliversMessages` says of
each message returned at which frame of the stream it ends (`end`), and that
`read_frame` gives up over a frame only if that frame cannot go on the message,
as no control frame can in this code. Of the messages `send` is given,
`SentIsReadBack` says that a text of 0 to 125 bytes or a binary message of 1 to
125 comes back from the reader; for an empty binary message `send` makes no
frame, and longer messages are a matter of byte order and of fragments.

### Http

Text is a sequence of tokens: words, separators, white space. `Text` writes
down what a client means; `Read` takes any beginning of it that fits in the
buffer, which is what the one `read` of `on_http` gets when TCP has not
delivered more; `Parsed` is `parse_http_request`, a set because an empty first
line leaves `method` unwritten. `Candidates` is the choice of a route: the
exact one, or any that the path begins with, since the order of an unordered
map is not known. `ServeStatic` works on path components; the tree below the
base has no symbolic links, and the file system may fail at any call, where
the code answers (`"Canonicalization error"`, `"File not found"`) or where
`exists` and `is_directory` throw (line 144): then, as when any handler throws,
there is no answer at all (`HandlerThrows`, `ServeStaticThrows`). The base is
one that can be made canonical. `MethodHandlers` is what the
calls of `get`, `post`, ... leave in `method_handlers`. A response is a record;
`Render` is `to_string`, with the header fields in some order and the length in
decimal digits (`Decimal`), and `Write` puts any beginning of it on the wire,
as the code does not look at what `write` returns. `ReadAnswer` is a client
that follows `Content-Length`.

### Canvas

The two programs differ in what they do with a send that fails (paint forgets
the client, olivec goes on) and with a message of a client they do not know;
`app` chooses one. `clients` is the map of pointers by descriptor number,
written by `OnOpen` in a worker and by `OnClose` in the listener thread. An
upgrade goes through `Accept`, `Register`, `OnOpen` and `Handshake`, and from
`Register` on the listener thread may read from the connection, close it and
erase it: a page may leave at any time after its `accept`, so that `on_close`
may overtake `on_open` (`overtaken`). `on_open` then leaves an entry that
nobody takes out, and a `broadcast` that follows it is undefined behaviour, at
which the model stops (`server = "undefined"`).

A page is its canvas and two queues; `Cap` frames fit into the buffers towards
it, and a send to a full one fails with nothing or a part of the frame written
(`Cut`). A send to a page that has gone may succeed, fail with ECONNRESET, so
that paint drops it, or raise SIGPIPE; `reset` are those to which something was
sent since. SIGPIPE, and an exception that leaves a handler, end the server
(`server = "down"`), as there is no handler for either. A page that reads a
frame before its 101, or a frame inside another, closes the connection.

A cursor is sent on with the name of its user: in olivec 91 bytes and the
name, in paint 55 and the name. Names have no limit (the input has no
`maxlength`), so a frame may have 126 bytes or more (`LongCursor`), the length
of which the browser misreads; it then takes all that follows for payload
(`page = "lost"`). The other frames stay below: a `draw` has coordinates of the
mouse, whole numbers, and a join is read by the server, whose clients write
lengths in the right order.

`CanvasesAgree` is what the README of the repository promises (line 94), as far
as the code keeps it: a page for which no send failed, and which did not lose
track, shows what the server remembers, except for strokes of its own that a
`clear` on its way to it wiped out. `OnlyOvertakenDangle` says which entries of
the map can dangle or hide another's: those of connections that were overtaken.
`NothingAfterACut` says what reaches a client of paint after a send to it
failed. `sent` counts what all pages send (bounded by `MaxSends`).

## 3. The runs

| run | instance | shows |
|---|---|---|
| `threadpool` | 2 workers, 3 tasks, 2 callers, destruction early or late | FIFO order, no pop from an empty queue, workers leave only a drained pool, no lost wakeup, the inductive invariant (which contains the types); joins return, and the pool implements `TaskPool`, with its fairness (so that every accepted task finishes) unless a worker crashed |
| `threadpool_destroy` | 1 worker, 1 task, 1 caller | **violated**: the destructor destroys `mtx_`, `cv_` and `tasks_` under a worker |
| `webserver` | 2 workers, handlers may stop; 3 clients (1 that may not read, 2 silent) before 1 caller, or 1 client before 2 | the inductive invariant (which contains the types), ownership of descriptors, what a completed stop leaves, mutual exclusion of joins; stop and wait return and the acceptor ends unless `Stuck`; a queued connection is served unless all workers are blocked |
| `webserver_destroy` | 1 worker, 1 client, 1 caller | **violated**: the destructor destroys `mtx` under the acceptor |
| `wsapp_safety` | 3 clients (2 may be early), 2 descriptor numbers, 2 workers | the inductive invariant (which contains the types), entries own their descriptors, events are not stale, order of the callbacks, where the 101 goes |
| `wsapp_live` | 2 clients, 1 event per `epoll_wait` | frames are read, ends are noticed, stop ends a loop that has begun |
| `wsapp_stop` | 1 client | **violated**: a stop that comes before `running_ = true` is lost |
| `wsapp_early` | 2 clients, 1 worker, 1 descriptor number | **violated**: a connection is closed while its worker has `on_open` to call and the 101 to write |
| `websocket_read` | 3 client frames of every opcode, masked or not, 22 lengths, cut anywhere | the inductive invariant (which contains the types); messages are delivered exactly when well-formed and arrived; what `send` writes covers the message, and short messages are read back |
| `websocket_lengths` | the same lengths | **violated**: extended lengths are byte-swapped twice on a little-endian host |
| `http_request` | some 880 requests, each read whole or cut at any token, answers cut at any token | the inductive invariant (which contains the types); a request read whole is understood as meant and gets the right handler; an empty first line gets none; static files are found, and nothing outside the base is served; a client reads the answer back or sees that it is incomplete |
| `canvas` | both programs, 2 pages, 2 descriptor numbers, 2 frames of buffer, 3 sends | the inductive invariant (which contains the types), pages agree once nothing is on its way, only entries of overtaken connections dangle, what paint still sends after a cut frame |

Bounds. Two workers and two callers are enough for every pairwise race of the
pool and of the shutdown; the third task of `threadpool` lets one be
queued while both workers are busy and a notification is on its way. In
`webserver` the third client is queued behind two blocked workers: one in a
system call, one in a `request_stop` under a join, or any two of the kind.
`MCWebServer` bounds calls and connections, of which the fairness says nothing:
the second caller is about only while one client at most has connected, which
is enough for one thread that stops while another waits or joins, with a
handler that stops too. Two
descriptor numbers with three clients let a number be used again while the
other connection is alive. `MaxFrames` bounds what a client sends
(`WSApplication`: one item, so an end of stream is what follows silence;
`WebSocket`: three frames, enough for a first frame, a continuation and a third
of any kind). `MCLengths` holds the values on both sides of 125/126,
65535/65536 and of the multiples of `MAX_BINARY_FRAME_SIZE`, and lengths whose
swapped bytes differ or agree (257). `MCHttp` has every path of three
components over the empty one, `.`, `..`, two names and a name that begins like
the base; queries of three pairs; two headers; bodies of three tokens, and of 9
to 11 for a length of two digits. In `Canvas` a third frame overflows a buffer
of two, and three sends make a stroke, a second one that fails, and a `clear`
between them; a page uses the number of one that left while its `on_open` is
still to come. Symmetry is used in safety runs only.

Deadlock is checked in the `Threadpool` and `WSApplication` runs; in
`webserver` a client or a handler that stops may leave the server stuck,
and in `WebSocket`, `Http` and `Canvas` a stream, a request or a program simply
ends.

Fairness. A thread that can run does run (weak fairness of each worker and of
each method call in progress); nothing is assumed of new calls or of spurious
wakeups. In `WebServer`, strong fairness says that a thread contending for
`mtx`, which others release again and again, gets it, and that `accept`, which
may fail now and then, succeeds for a waiting client; clients outside `Silent`
send or hang up, and those outside `Deaf` read what is written to them. In `WSApplication`, `epoll_wait` does not pass over a ready
descriptor for ever (the kernel's ready list is a queue), and handlers return.

### Where the code and its documents disagree

Five runs show TLC's counterexample; `PROJECT.json` lists them as findings.

* `threadpool_destroy`: `workers_` is declared before what the workers use
  (`Threadpool.hpp:26-30`), and `~Threadpool` joins nobody first. Every server
  that is destroyed without `request_stop`, as in the tests of `on_http`, or
  whose `listen` threw, does this.
* `webserver_destroy`: the same for `server_thread` and `mtx`
  (`WebServer.hpp:60`), after a `request_stop`, which does not wait for the
  acceptor.
* `wsapp_stop`: `run` begins with `running_ = true`, over a `stop` that came
  before.
* `wsapp_early`: the descriptor is registered before `on_open` and the 101, so
  that a client that disconnects early has its connection closed under both.
* `websocket_lengths`: lengths from 126 on are written in the wrong order on a
  little-endian host.

Others follow from the modules and have no run of their own, since the passing
properties state where they begin:

* `parse_frame` says of a pong "ignore" (`WebSocket.cpp:198-200`) but returns
  the frame, `get_websocket_frame` throws for it, and the connection is closed
  (`DeliversMessages`).
* An empty binary message has no frame (`frames_count`, line 41) and is never
  sent; fragments after the first carry the opcode BINARY (line 45), which
  `get_websocket_frame` refuses (lines 86-87). On a little-endian host the
  lengths are wrong before that matters (`SentIsReadBack`, `FitsOneFrame`).
* README.md:94 says that users draw on a shared canvas. A page that clicks
  "clear" and draws before it comes back loses its stroke, which the others
  keep; a cursor with a name of 35 bytes in olivec, or of 71 in paint, puts the
  other pages out of step for good (`CanvasesAgree`: its exception, and
  `"lost"`).
* A page that closes between `add_socket` and `on_open` leaves a dangling
  pointer in the registry (`olivec.cpp:61`), which the next broadcast follows
  (`OnlyOvertakenDangle`, `FollowsDangling`).
* The replay for a page that joins is the one send that is not in a try
  (`olivec.cpp:80-84`, `paint.cpp:65-66`), and `::send` is called without
  MSG_NOSIGNAL: a slow page that joins, or one that closes during a broadcast,
  ends the server (`OnMessageThrows`, `OnMessageRaisesSigpipe`).
* paint answers the join of a page it has dropped after a failed send, behind
  the frame that was cut (`NothingAfterACut`).

## 4. What is proved

### The thread pool

`ThreadpoolProofs` proves for every number of workers and every set of tasks
and callers, from the assumptions `NumThreads \in Nat`, `NoTask \notin Task`,
`EarlyDestroy \in BOOLEAN` and, for what counts callers, that there are finitely
many:

* `IInvAlways`: the inductive invariant `IInv`, and from it type correctness,
  `TasksStartInOrder`, `QueueNeverUnderflows`, `WorkersDrainTheQueue` and
  `ShutdownIsNoticed`;
* `NoWakeupIsLost` (`NoTaskWaitsForSleeper`): while a worker sleeps, there are
  no more queued tasks than awake workers and notifications still to come;
* `PoolIsAQueue`: `Threadpool` implements the safety part of `TaskPool`.

The argument. A worker may pass `cv_.wait` because of its stop token alone, so
`NoPopFromEmpty` is not inductive by itself. `StopAfterShutdown` adds where
the flag comes from: no worker is signalled, and no caller is past the first
step of a stop or of the destructor, unless `shutdown_` is set. With it, a
worker that passes the wait with an empty queue sees `shutdown_` and leaves.
`JoinedAreExited` keeps what a join has found. Lost wakeups are a matter of counting: each
step changes the queue, the awake workers and the callers that have yet to
notify by one at most, and the notification that wakes a worker trades one
caller for one worker. Only a worker that meets destroyed members may leave
without taking a task; by then no worker sleeps, because the destructor is alone
in the pool and has notified everybody (`DestructorAlone`). That no worker uses
a destroyed member is not among the theorems, because it is false (run
`threadpool_destroy`). The proof has one lemma per group of
conjuncts (`TypeOKStep`, `FlagsStep`, `WorkersStep`), each with a case per
action.

### The server

`WebServerProofs` proves for every number of workers, clients and callers, from
`ServerAssumption` (`NumThreads \in Nat`, `NoClient \notin Client`, `NoThread`
is no thread):

* `ServerInvariant`: the inductive invariant `IInv` of `WebServer`;
* `DescriptorsHaveOneHolder` (`OneHolder`) and `ConnectionsAreSubmitted`
  (`DroppedOnlyInShutdown`);
* `OneThreadJoins` (`JoinersExclude`);
* `StopLeavesNothing` (`StopIsComplete`): what holds when a `request_stop` has
  returned, for a server with a worker at least: with `num_threads` 0, which the code accepts, connections are queued for ever
  and a stop leaves them in the queue.

The argument. A descriptor moves from the acceptor to the queue to a worker, so
`OneHolder` needs to know that the acceptor holds one exactly between `accept`
and `submit`, that the queue repeats none, and that what is queued or served
was accepted by the pool, which takes every connection once
(`HoldersAreKnown`); two lemmas about `Append` and `Tail` carry this through
the queue. A connection refused by a closed pool was dropped in a shutdown
because `request_stop` sets the flag before it closes the pool (`ClosedByStop`).
Joins exclude each other since who joins owns `mtx` (`JoinsUnderLock`); a joined
worker stays done because a closed, empty pool cannot start anything
(`JoinedAreDone`), and `stop_source` lets one thread through, which is the one
that shuts the listening socket down and later closes it (`OneStopper`). The
proof has a lemma for the steps that leave the holders, or the stop, alone, and
one for each action, or group of actions, that does not.

### The WebSocket connections

`WSApplicationProofs` proves for every finite set of clients and of workers,
every set of descriptor numbers, and every `max_events`, from `WSAssumption`:

* `ConnectionsInvariant`: the inductive invariant `IInv` of `WSApplication`;
* `EntriesKeepTheirFd` (`EntriesOwnTheirFd`) and `EventsStayCurrent`
  (`NoStaleEvent`);
* `CloseHandlerOnce` (`ClosedOnce`);
* `ResponseReachesItsClient` (`HandshakeReachesItsClient`) and
  `OpenHandlerFirst` (`OpenComesFirst`), both for each client that neither
  speaks nor disconnects before its 101, whatever the others do.

The argument. Nothing locks, so what excludes the workers from each other and
from the listener is who knows a descriptor. A client is behind one descriptor
at most (`OneFilePerClient`), one worker serves it, and until the worker has
registered the descriptor nobody else has it (`UpgradesOwnTheirFd`): neither an
entry nor the epoll set before the emplace, not the epoll set before
`add_socket`. From then on only the listener thread closes it, when the entry is
the one it works on (`ListenerHasEntry`), which is in no event of the batch that
is left; this is why no event is stale, however numbers are used again.
`on_close` is called for an entry that had none yet (`NotYetClosed`), and
`on_message` for a frame that was sent and not handled yet
(`FramesAreCounted`). `connection_counter` loses increments, so two upgrades may
get one id and one of them is rejected; that the numbers still fit the ids needs
a count: the counter, with the upgrades that are about to store it, stays
behind the upgrades begun (`CounterLags`), and this is where the sets have to
be finite. The two properties about clients outside `early` follow from
`SpeaksWhenAnswered`: of these the listener has to do with answered ones only,
the workers with unanswered ones, so they never meet at a descriptor.

### Frames

`WebSocketProofs` proves for every set of messages and of client frames, of any
length, any number of them, both byte orders and every way to cut the stream,
from `WebSocketAssumption` (a message is a text or binary, a frame has an
opcode of four bits):

* `IInvAlways`: the inductive invariant `IInv`;
* `ReaderDeliversMessages` (`DeliversMessages`);
* `ShortMessagesAreReadBack` (`SentIsReadBack`): texts of 0 to 125 bytes and
  binary messages of 1 to 125 are read back; the frames of any message carry
  all of it.

The argument. The reader has taken `r` whole frames of the stream and some
pieces of the next (`HasTaken`); the messages it returned end at frames of which
the last is at most `r`, and the frames between that one and `r` begin a message
that goes on (`InStep`, `IsBegun`), with `received` their bytes and `opcode`
that of the first. So the frame in which the next piece is, which the model
finds by summing pieces, is frame `r + 1` (`ReadingIs`), and its last piece
either completes the message, or extends what was begun, or cannot go on it,
which is the only reason to throw. What was begun contains no final frame, so a
reader that fails for want of bytes has not got a whole message. Nothing a
client sends after that moves the sums of what was there (`ClientSendsKeeps`,
`AmountsAppend`). For `send`, `FrameSizesFacts` adds up the sizes of the
frames: after `i` of them the smaller of `i * MAX_BINARY_FRAME_SIZE` and the
length is covered.

The sums are over sequences of any length. Induction over them is done with
sets: a property of numbers becomes the set of those that have it, and
`SetInduction` (`DataInduction`), proved from the well-foundedness of the
naturals (`WellFoundedInduction`), says that the set contains all.

### HTTP

`HttpProofs` proves for all requests, cut or not, all routes, and every base and
tree:

* `IInvAlways`: the inductive invariant `IInv`;
* `RequestsAreUnderstood` (`UnderstoodAsMeant`);
* `RequestsReachTheirHandler` (`RightHandler`);
* `StaticFilesAreBelowBase` (`ServedBelowBase`);
* `EachFileIsFound` (`FilesAreFound`);
* `AnswersAreReadBack` (`AnswerIsReadBack`).

They rest on `HttpAssumption` (the methods that can be registered for are known
ones, no route is empty, the names in the base and in the paths of files are
not empty, not `.` or `..`, and have no slash, there is no file where the base
is or a directory above it) and on two assumptions about what a client may
mean. `MeantAssumption`: a method that is one word, a path that is not empty
and has no space and no question mark, a query without spaces, any body.
`FieldsAssumption`: parameters that are not empty and have no `&`, which is
where the query is cut (`HttpRequest.cpp`, `getline` on `&`); header names that
are one word without a colon, at which a line is split; header values on one
line that no white space begins or ends, since `trim` takes it off. The spaces
that the client itself puts around a value, the case of a name, repeated names,
parameters without `=` and values with colons are all allowed. The empty route
is excluded because `on_http` finds it as an exact match of an empty path only,
which a request has that begins with an empty line; no program of the
repository registers it.

The invariant has three parts. `Dispatches` is about the request that was read
whole and the handler that is called for it; `EchoesText` says that what of a
request may come back in an answer is text, and that its header values, of which
one goes into `Sec-WebSocket-Accept`, have no line feed; `WritesResponse` that
the response has a first line and a line for each header field, none of them
`Content-Length`, and that a beginning of its text is on the wire in the end.

The argument for `RightHandler`. It compares what the client meant with what
the routing table chose, so both ends need a lemma of their own. `Cut` is a
fold with an operator of its own, about which no induction theorem of the
libraries says anything; `FoldExists` (`DataInduction`) says that each fold has
a solution, step by step, and `CutRuns` uses it for what `Cut` has gathered
after each token. Between separators tokens gather (`Gather`), a separator ends
a part (`CutHere`), and what is done stays (`DoneStays`). From that,
`FirstPiece` finds the first line of a text and `TwoWords` its first two words;
`StreamIs` says that what a client writes begins with its request line, whatever
follows, and `ParsedRequest` that `parse_http_request` reads method and path of
it (`TargetIs`: the first question mark ends the path). On the other side
`MethodHandlersHold` says what the table holds after all registrations: each
method and route with the handler that was registered last (`HandleHolds` is
the step), so that the routes of a method are exactly those of its `Current`
registrations (`RoutesAreCurrent`), and `CandidatesFit` that a candidate exists
exactly if one of them fits. `ReadsRequest` carries the first half through the
invariant: a request that was read whole has the method and the path that were
meant, and one that begins with an empty line has no path, hence no route
(`NothingRoutes`), whatever is in its unwritten `method`.

`ServeStatic` compares base and path only as far as the shorter one goes, so
that a directory above the base would pass (`Agrees`); what excludes it is that
what is served is a file, and `HttpAssumption` says that there is no file where
the base is or a directory above it. That every response with a file comes from
`ServeStatic`, and hence satisfies `Agrees`, is the invariant; `MayServe`
carries it through the handlers and the responses they build.

The argument for `FilesAreFound` goes from the URL back to the file. `RestOfFile`
cuts the path of a file into the base and a rest of names; the URL is the prefix,
a slash unless the prefix ends in one, and that rest joined by slashes.
`FromAfter` and `RelativeIs` show that what `ServeStatic` takes off is the prefix
and that one slash, since joined names do not begin with a slash (`JoinBegins`);
`RelativeIndex` is the same for the prefix alone. `CutUndoesJoin` then gives the
names back: a run of `Cut` over a text goes like one over what the text begins
with (`RunsAgree`), and each separator with a name after it adds one part
(`AnotherPart`). A path of names is canonical (`NamesAreCanonical`), so what is
looked up is the file. On the way from the request `ReadsRequest` is what is
needed of the invariant.

The argument for `UnderstoodAsMeant` follows `parse_http_request` down the
text. A text that begins with a closed line is cut into that line and the parts
of the rest (`PartsAfter`, and `LinesEnd` for many lines); the lines that a
client writes are the request line, the header lines and `"\r"`, which is the
first of its kind because a header line has a name (`BlankIs`). The body is the
rest of the lines joined again, which gives back the text up to a final newline
(`JoinUndoesCut`), and the query is the reverse: `Cut` undoes the `Join` of the
client (`ParamsOfTarget`). A header line is read as the name in small letters
and the trimmed value, since the first colon is the client's own (`HeaderRead`,
`TrimIs`). What remains is that assigning pairs one after another leaves each
name with its last value (`AssignsLast`), which `LastValues` says of what the
client wrote.

The argument for `AnswerIsReadBack`. A client ends the head at the first empty
line, and `LineAt` says where each line of an answer is in its text:
`to_string` closes every line, no line has a line feed inside, by `EchoesText`
and `Writable`, and none is empty before the last, so line feeds and line ends
are the same (`LineFeeds`) and the head ends where it should (`HeadEnds`). What
stands between two line feeds is then one header field (`FieldIs`), and all of
them are the fields of the response and its length (`AllFields`). For an answer
that was cut: inside the head there is no empty line; inside the body the
length announced is not that of what came, and different numbers have different
digits (`DecimalDiffers`, by induction: the last digit, or else the others,
differ). So the client takes it for incomplete (`PartIsReadBack`). That the
handlers' answers, the 404s, the files and the 101 can all be written this way
is `ResultsWritable` and `SwitchingWritable`.

### The drawing servers

`CanvasProofs` proves for both programs, all sets of pages and of descriptor
numbers, every buffer and every number of messages, from `CanvasAssumption`
(descriptor numbers are positive, a buffer takes a frame):

* `IInvAlways`: the inductive invariant `IInv`;
* `SettledCanvasesAgree` (`CanvasesAgree`);
* `OnlyOvertakenEntriesDangle` (`OnlyOvertakenDangle`);
* `NothingIsSentAfterACut` (`NothingAfterACut`).

The argument. `CanvasesAgree` speaks of settled states only and is far from
inductive. `CanvasesConverge` says what holds before: a stroke is going to be on
a page (`WillShow`) if it is in the queue towards it with no `clear` behind it,
or on its canvas with no `clear` in the queue; what a page is going to show is
in the history or still on its own way to the server, and a page that joined is
going to show all that others drew. Each broadcast, replay, `clear` and message
read keeps that, given that strokes are known by their authors
(`StrokesHaveAuthors`), that nothing is sent to a connection that is not
registered (`NothingSentTooSoon`), that a page speaks after its 101 and joins
first (`PagesSpeakInTurn`), and that a client to which a send failed is counted
as such (`MissedAreForgotten`). What a page does that is going to lose track is
not said (`Follows`). `OnlyOvertakenDangle` needs that a connection has one
descriptor from its `accept` to the erase after `on_close`, and that its number
changes hands before its worker is through only if it was overtaken
(`OneDescriptorEach`). Three lemmas about `WillShow`, for a message
appended, a history replayed and a message read, carry the queues.

### What is only model-checked

All liveness: `JoinersReturn` and the fairness of `ImplementsTaskPool`,
`StopReturns`, `AcceptorExits`, `SubmittedAreServed`, `FramesAreRead`,
`EndsAreNoticed` and `StopEndsLoop` rest on `ENABLED`, which the provers do not
handle. `JoinersReturn` and the fairness hold until a worker crashed over a
destroyed member; nothing is said of what follows.

## 5. What is not modelled

* Symbolic links below a static base, and NUL bytes, at which `on_http` ends
  the request. In `WebServer` the outcome of a request is a free choice; `Http`
  says how it comes about.
* The default of `ServeStatic`'s prefix: the README of the library says `"/"`,
  `HttpResponse.hpp` `"/assets"`. The prefix is a constant of `Http`.
* SIGPIPE of the writes of `on_http`, whose `write` to a client that hung up
  can raise it as the sends of the drawing servers do (there it is modelled);
  a base directory that cannot be made canonical (`HttpResponse.cpp:129`).
* The data races on `connections` and on `method_handlers`, and the plain
  `bool running_`: undefined behaviour of the containers is not described.
* Two threads that send on one WebSocket at the same time; the arithmetic of the
  mask; SHA-1 and base64 (`AcceptHandshake` is some injective function).
* A server destroyed without `request_stop` after `run` (the acceptor stays
  in `accept` and the join never ends), `run` called twice or after a stop, the
  destructor of `WSApplication`.
* `http_method_to_string`, which nothing calls; JSON, names and pixels in the
  drawing servers; `benchmark/`, `3dparty/`. The tests of `SocketListener` are not
  built by `tests/CMakeLists.txt`; one of them, AddExistingSocket_ReplacesCallback
  (lines 128-146), expects `add_socket` of a registered descriptor to succeed,
  where `epoll_ctl` fails and the code throws (lines 20-22).

## 6. Plan

1. Done: `Threadpool`, `WebServer` and `WSApplication` with their proofs,
   `SocketListener`; `WebSocket`, `Http`, `Canvas` with theirs.
2. `WebSocket`: two senders on one connection.
3. `WSApplication`: the destructor and its member order.
4. Proofs: every safety invariant of the runs is a theorem; the liveness
   properties wait for a prover that knows `ENABLED`.
