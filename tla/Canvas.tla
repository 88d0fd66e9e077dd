------------------------------- MODULE Canvas -------------------------------
(***************************************************************************)
(* The two drawing servers, examples/olivec and examples/paint, with the   *)
(* browser page they serve: handlers that keep pointers to WebSockets by   *)
(* descriptor number, on_open called in the workers, on_message and        *)
(* on_close in the listener thread, and frames sent on non-blocking        *)
(* sockets whose buffers fill when a client is slow.                       *)
(*                                                                         *)
(* A page may leave at any time once it was accepted, before its 101 too;  *)
(* it says nothing before its 101.  A canvas is the set of strokes on it,  *)
(* not the order in which they were painted.  The host is little-endian    *)
(* and SIGPIPE has its default action.  What the program does once a       *)
(* destroyed WebSocket was used is not said: the model stops there.        *)
(***************************************************************************)
EXTENDS Integers, SequencesExt

CONSTANTS
  App,         \* the programs to look at, of "olivec" and "paint"
  Conn,        \* the browser pages, each opening one connection
  NoConn,      \* no connection
  Fd,          \* descriptor numbers that are free for connections
  Cap,         \* frames that fit in the buffers towards a client
  MaxSends     \* what the pages send after their joins (a bound of the model)

ASSUME CanvasAssumption ==
  /\ App \subseteq {"olivec", "paint"}
  /\ NoConn \notin Conn
  /\ Fd \subseteq Nat \ {0}
  /\ Cap \in Nat \ {0} /\ MaxSends \in Nat

VARIABLES
  app,         \* the program that runs
  server,      \* "up", "down" or "undefined"
  drawHistory,
  clients,     \* the connection whose ws each descriptor has, or NoConn
  overtaken,   \* the connections whose on_close ran before their on_open
  closing,     \* the descriptor that process_message is closing, or NoFd
  upgrade,     \* how far the worker is with each upgrade
  clientFd,    \* client_fd of that worker
  file,        \* the connection behind each open descriptor
  inbox,       \* what the server has not yet read from each page
  outbox,      \* what each page has not yet read from the server
  reset,       \* those sent something after they had gone, until the erase
  missed,      \* the pages for which a send of broadcast failed
  page,        \* "connecting", "open", "lost" or "gone"
  canvas,      \* the strokes each page shows
  sent,        \* how much the pages sent after their joins
  cleared      \* some page cleared the canvas

roomVars == <<drawHistory, clients, missed>>
pageVars == <<page, canvas, sent, cleared>>
vars == <<app, server, roomVars, overtaken, closing, upgrade, clientFd,
          file, inbox, outbox, reset, pageVars>>

NoFd == 0
Stroke == Conn \X (1 .. MaxSends)

Draw(s) == [type |-> "draw", stroke |-> s]
Clear == [type |-> "clear"]
Cursor == [type |-> "cursor"]
(* A cursor whose frame for the others has 126 bytes or more: 91 in olivec *)
(* and 55 in paint, and the name, which nothing bounds.                    *)
LongCursor == [type |-> "long cursor"]
Join == [type |-> "join"]
Eof == [type |-> "eof"]
Switching(k) == [type |-> "101", of |-> k]
Cut == [type |-> "cut"]     \* a frame that was not written to its end

Init ==
  /\ app \in App
  /\ server = "up"
  /\ drawHistory = <<>>
  /\ clients = [f \in Fd |-> NoConn]
  /\ overtaken = {}
  /\ closing = NoFd
  /\ upgrade = [k \in Conn |-> "new"]
  /\ clientFd = [k \in Conn |-> NoFd]
  /\ file = [f \in Fd |-> NoConn]
  /\ inbox = [k \in Conn |-> <<>>]
  /\ outbox = [k \in Conn |-> <<>>]
  /\ reset = {}
  /\ missed = {}
  /\ page = [k \in Conn |-> "connecting"]
  /\ canvas = [k \in Conn |-> {}]
  /\ sent = 0
  /\ cleared = FALSE

-----------------------------------------------------------------------------
(* Sending.  send_frame throws when the buffer is full, with nothing or    *)
(* with a part of the frame written; to a page that has gone it may        *)
(* succeed or throw (ECONNRESET), or raise SIGPIPE, which takes an earlier *)
(* write: the header of a frame is one, its payload another.  (That a read *)
(* of the server meets the reset first is left out.)                       *)

(* Mutant: a frame more than the buffer holds. *)
RoomForOneMore(k, n) == Len(outbox[k]) + n <= Cap + 1

Room(k, n) == Len(outbox[k]) + n <= Cap

Gone(k) == page[k] = "gone"

(* What the buffers hold after sends of some frames to each page; the      *)
(* sends to pages in cut failed half-way.                                  *)
AfterSends(frames, cut) ==
  /\ outbox' = [k \in Conn |->
       IF Gone(k) \/ frames[k] = <<>> THEN outbox[k]
       ELSE IF Room(k, Len(frames[k])) THEN outbox[k] \o frames[k]
       ELSE IF k \in cut THEN Append(outbox[k], Cut) ELSE outbox[k]]
  /\ reset' = reset \cup {k \in Conn : Gone(k) /\ frames[k] # <<>>}

MayRaiseSigpipe(to) == \E k \in to : Gone(k)

Registered == {clients[f] : f \in Fd} \ {NoConn}
Full(to) == {k \in to : ~Gone(k) /\ ~Room(k, 1)}

(* The sends that throw: all that find no room, and some to pages gone.    *)
Failures(to) ==
  {failed \in SUBSET to : /\ Full(to) \subseteq failed
                          /\ \A k \in failed \ Full(to) : Gone(k)}

(* One frame to each; those that find no room may leave a part of it.      *)
SendEach(msg, to) ==
  \E cut \in SUBSET Full(to) :
    AfterSends([k \in Conn |-> IF k \in to THEN <<msg>> ELSE <<>>], cut)

(* Mutant: paint keeps a client whose send failed. *)
KeepsFailed(failed) == clients

(* paint forgets the clients whose send failed. *)
DropsFailed(failed) ==
  [f \in Fd |-> IF clients[f] \in failed THEN NoConn ELSE clients[f]]

-----------------------------------------------------------------------------
(* The kernel and the worker: accept, then add_connection, which registers *)
(* the socket before it calls on_open, and the 101 after it.  Nothing      *)
(* keeps the listener thread from broadcasting, or from closing the        *)
(* connection, in between.                                                 *)

Accept(k) ==
  /\ upgrade[k] = "new"
  /\ \E f \in Fd :
       /\ file[f] = NoConn
       /\ \A g \in Fd : g < f => file[g] # NoConn
       /\ file' = [file EXCEPT ![f] = k]
       /\ clientFd' = [clientFd EXCEPT ![k] = f]
  /\ upgrade' = [upgrade EXCEPT ![k] = "accepted"]
  /\ UNCHANGED <<server, clients, outbox, reset>>

Register(k) ==
  /\ upgrade[k] = "accepted"
  /\ upgrade' = [upgrade EXCEPT ![k] = "registered"]
  /\ UNCHANGED <<server, clients, clientFd, file, outbox, reset>>

(* get_fd reads freed memory when the connection was erased: its number    *)
(* may still be there.                                                     *)
OnOpen(k) ==
  /\ upgrade[k] = "registered"
  /\ \/ UNCHANGED server
     \/ file[clientFd[k]] # k /\ server' = "undefined"
  /\ clients' = [clients EXCEPT ![clientFd[k]] = k]
  /\ upgrade' = [upgrade EXCEPT ![k] = "opened"]
  /\ UNCHANGED <<clientFd, file, outbox, reset>>

(* The 101, a single write, goes to whoever has the number now; a short    *)
(* write is ignored.                                                       *)
Handshake(k) ==
  /\ upgrade[k] = "opened"
  /\ LET to == {file[clientFd[k]]} \ {NoConn}
     IN  \/ /\ to \cap reset # {}
            /\ server' = "down" /\ UNCHANGED <<outbox, reset>>
         \/ SendEach(Switching(k), to) /\ UNCHANGED server
  /\ upgrade' = [upgrade EXCEPT ![k] = "done"]
  /\ UNCHANGED <<clients, clientFd, file>>

WorkerStep ==
  /\ \E k \in Conn : Accept(k) \/ Register(k) \/ OnOpen(k) \/ Handshake(k)
  /\ UNCHANGED <<app, drawHistory, missed, overtaken, closing, inbox,
                 pageVars>>

-----------------------------------------------------------------------------
(* The listener thread: one event at a time. *)

Readable(f) ==
  /\ closing = NoFd
  /\ file[f] # NoConn /\ upgrade[file[f]] \in {"registered", "opened", "done"}
  /\ inbox[file[f]] # <<>>

Reads(f, types) ==
  /\ Readable(f)
  /\ Head(inbox[file[f]]).type \in types
  /\ inbox' = [inbox EXCEPT ![file[f]] = Tail(@)]

(* olivec ignores a descriptor it has no client for. *)
Ignores(f) == app = "olivec" /\ clients[f] = NoConn

(* The replay of the history is the one send that is not in a try; what it *)
(* throws leaves process_message and the thread: std::terminate.           *)
OnMessageThrows(f) ==
  LET k == file[f]
  IN  /\ Readable(f)
      /\ Head(inbox[k]) = Join /\ ~Ignores(f)
      /\ drawHistory # <<>> /\ (Gone(k) \/ ~Room(k, Len(drawHistory)))
      /\ server' = "down"
      /\ UNCHANGED <<roomVars, overtaken, closing, file, inbox, outbox, reset>>

OnJoin(f) ==
  LET k == file[f]
      replay == IF Ignores(f) THEN <<>>
                ELSE [i \in DOMAIN drawHistory |-> Draw(drawHistory[i])]
  IN  /\ Reads(f, {"join"})
      /\ Gone(k) \/ Room(k, Len(replay))
      /\ AfterSends([j \in Conn |-> IF j = k THEN replay ELSE <<>>], {})
      /\ UNCHANGED <<server, roomVars, overtaken, closing, file>>

(* Mutant: nobody hears its own message, not even "clear". *)
EntriesWithoutSender(msg, f) == IF Ignores(f) THEN {} ELSE Fd \ {f}

(* A stroke and a cursor go to the entries of the others, "clear" to its   *)
(* sender's too: the page wipes its canvas only when "clear" comes back.   *)
Entries(msg, f) ==
  IF Ignores(f) THEN {} ELSE IF msg = Clear THEN Fd ELSE Fd \ {f}

Recipients(entries) == {clients[g] : g \in entries} \ {NoConn}

(* An entry whose WebSocket was erased. *)
Dangling(g) == clients[g] # NoConn /\ file[g] # clients[g]

HistoryAfter(msg) ==
  CASE msg.type = "draw" -> Append(drawHistory, msg.stroke)
    [] msg.type = "clear" -> <<>>
    [] msg.type \in {"cursor", "long cursor"} -> drawHistory

(* paint has forgotten the name of a client it dropped. *)
Relayed(f, msg) ==
  IF msg = LongCursor /\ clients[f] # file[f] THEN {LongCursor, Cursor}
  ELSE {msg}

Broadcasted == {"draw", "cursor", "long cursor", "clear"}

(* What a send throws is caught for each recipient. *)
OnDrawCursorClear(f) ==
  LET msg == Head(inbox[file[f]])
      entries == Entries(msg, f)
      to == Recipients(entries)
  IN  /\ Reads(f, Broadcasted)
      /\ \A g \in entries : ~Dangling(g)
      /\ drawHistory' = IF Ignores(f) THEN drawHistory ELSE HistoryAfter(msg)
      /\ \E frame \in Relayed(f, msg) : SendEach(frame, to)
      /\ \E failed \in Failures(to) :
           /\ missed' = missed \cup failed
           /\ clients' = IF app = "paint" THEN DropsFailed(failed) ELSE clients
      /\ UNCHANGED <<server, overtaken, closing, file>>

(* broadcast calls send on a WebSocket that was destroyed. *)
FollowsDangling(f) ==
  /\ Reads(f, Broadcasted)
  /\ \E g \in Entries(Head(inbox[file[f]]), f) : Dangling(g)
  /\ server' = "undefined"
  /\ UNCHANGED <<roomVars, overtaken, closing, file, outbox, reset>>

(* SIGPIPE while a message is handled. *)
OnMessageRaisesSigpipe(f) ==
  LET k == file[f]
      msg == Head(inbox[k])
  IN  /\ Reads(f, {"join"} \cup Broadcasted)
      /\ \/ msg = Join /\ ~Ignores(f) /\ drawHistory # <<>> /\ Gone(k)
         \/ msg # Join /\ MayRaiseSigpipe(Recipients(Entries(msg, f)))
      /\ server' = "down"
      /\ UNCHANGED <<roomVars, overtaken, closing, file, outbox, reset>>

(* Mutant: on_close keeps the entry. *)
OnCloseKeepsEntry(f) ==
  /\ Reads(f, {"eof"})
  /\ overtaken' = IF upgrade[file[f]] = "registered"
                  THEN overtaken \cup {file[f]} ELSE overtaken
  /\ closing' = f
  /\ UNCHANGED <<server, roomVars, file, outbox, reset>>

OnClose(f) ==
  /\ Reads(f, {"eof"})
  /\ clients' = [clients EXCEPT ![f] = NoConn]
  /\ overtaken' = IF upgrade[file[f]] = "registered"
                  THEN overtaken \cup {file[f]} ELSE overtaken
  /\ closing' = f
  /\ UNCHANGED <<server, drawHistory, missed, file, outbox, reset>>

(* remove_socket, and erase, whose destructor closes the descriptor. *)
EraseConnection ==
  /\ closing # NoFd
  /\ file' = [file EXCEPT ![closing] = NoConn]
  /\ closing' = NoFd
  /\ reset' = reset \ {file[closing]}
  /\ UNCHANGED <<server, roomVars, overtaken, inbox, outbox>>

ListenerStep ==
  /\ \/ \E f \in Fd :
          \/ OnMessageThrows(f) \/ OnMessageRaisesSigpipe(f)
          \/ OnJoin(f) \/ OnDrawCursorClear(f) \/ FollowsDangling(f)
          \/ OnClose(f)
     \/ EraseConnection
  /\ UNCHANGED <<app, upgrade, clientFd, pageVars>>

-----------------------------------------------------------------------------
(* The page. *)

(* Somebody closes the page, or its browser gives the connection up: over  *)
(* a frame before the 101, a 101 that answers somebody else, a frame       *)
(* inside another, none of which a page reads.  What it had not read is    *)
(* lost.                                                                   *)
Leave(k) ==
  /\ ~Gone(k) /\ upgrade[k] # "new"
  /\ page' = [page EXCEPT ![k] = "gone"]
  /\ inbox' = [inbox EXCEPT ![k] = Append(@, Eof)]
  /\ outbox' = [outbox EXCEPT ![k] = <<>>]
  /\ UNCHANGED <<canvas, sent, cleared>>

Sends(k, msg) ==
  /\ page[k] \in {"open", "lost"}
  /\ sent < MaxSends
  /\ sent' = sent + 1
  /\ inbox' = [inbox EXCEPT ![k] = Append(@, msg)]
  /\ UNCHANGED <<outbox, page>>

(* A stroke is painted at once and then sent. *)
Paint(k) ==
  LET s == <<k, sent + 1>>
  IN  /\ Sends(k, Draw(s))
      /\ canvas' = [canvas EXCEPT ![k] = @ \cup {s}]
      /\ UNCHANGED cleared

MoveCursor(k) ==
  /\ \E msg \in {Cursor, LongCursor} : Sends(k, msg)
  /\ UNCHANGED <<canvas, cleared>>

ClickClear(k) == Sends(k, Clear) /\ cleared' = TRUE /\ UNCHANGED canvas

(* The 101 opens the socket and the page joins. *)
Opens(k) ==
  /\ page[k] = "connecting"
  /\ outbox[k] # <<>> /\ Head(outbox[k]) = Switching(k)
  /\ outbox' = [outbox EXCEPT ![k] = Tail(@)]
  /\ page' = [page EXCEPT ![k] = "open"]
  /\ inbox' = [inbox EXCEPT ![k] = Append(@, Join)]
  /\ UNCHANGED <<canvas, sent, cleared>>

Shown(strokes, msg) ==
  CASE msg.type = "draw" -> strokes \cup {msg.stroke}
    [] msg.type = "clear" -> {}
    [] msg.type = "cursor" -> strokes

OnPageMessage(k) ==
  /\ page[k] = "open"
  /\ outbox[k] # <<>> /\ Head(outbox[k]).type \in {"draw", "clear", "cursor"}
  /\ outbox' = [outbox EXCEPT ![k] = Tail(@)]
  /\ canvas' = [canvas EXCEPT ![k] = Shown(@, Head(outbox[k]))]
  /\ UNCHANGED <<inbox, page, sent, cleared>>

(* A frame of 126 bytes or more announces another length (WebSocket's      *)
(* LengthsArrive), so that the browser takes what follows for its payload  *)
(* and shows nothing more, until it gives the connection up.               *)
LosesTrack(k) ==
  /\ page[k] = "open"
  /\ outbox[k] # <<>> /\ Head(outbox[k]) = LongCursor
  /\ outbox' = [outbox EXCEPT ![k] = Tail(@)]
  /\ page' = [page EXCEPT ![k] = "lost"]
  /\ UNCHANGED <<inbox, canvas, sent, cleared>>

Swallows(k) ==
  /\ page[k] = "lost" /\ outbox[k] # <<>>
  /\ outbox' = [outbox EXCEPT ![k] = Tail(@)]
  /\ UNCHANGED <<inbox, page, canvas, sent, cleared>>

PageStep ==
  /\ \E k \in Conn :
       \/ Opens(k) \/ OnPageMessage(k) \/ LosesTrack(k) \/ Swallows(k)
       \/ Leave(k) \/ Paint(k) \/ MoveCursor(k) \/ ClickClear(k)
  /\ UNCHANGED <<app, server, roomVars, overtaken, closing, upgrade, clientFd,
                 file, reset>>

Next == server = "up" /\ (WorkerStep \/ ListenerStep \/ PageStep)

Spec == Init /\ [][Next]_vars

-----------------------------------------------------------------------------
(* Properties. *)

Message == {Draw(s) : s \in Stroke} \cup {Clear, Cursor, LongCursor}

(* Types; and what a page has over its buffer are unfinished frames.       *)
TypeOK ==
  /\ app \in App /\ server \in {"up", "down", "undefined"}
  /\ cleared \in BOOLEAN
  /\ drawHistory \in Seq(Stroke)
  /\ clients \in [Fd -> Conn \cup {NoConn}]
  /\ overtaken \subseteq Conn
  /\ file \in [Fd -> Conn \cup {NoConn}]
  /\ closing \in Fd \cup {NoFd}
  /\ upgrade \in [Conn -> {"new", "accepted", "registered", "opened", "done"}]
  /\ clientFd \in [Conn -> Fd \cup {NoFd}]
  /\ inbox \in [Conn -> Seq(Message \cup {Join, Eof})]
  /\ outbox \in
       [Conn -> Seq(Message \cup {Cut} \cup {Switching(k) : k \in Conn})]
  /\ \A k \in Conn : \A i \in DOMAIN outbox[k] : i > Cap => outbox[k][i] = Cut
  /\ reset \subseteq Conn /\ missed \subseteq Conn
  /\ page \in [Conn -> {"connecting", "open", "lost", "gone"}]
  /\ canvas \in [Conn -> SUBSET Stroke]
  /\ sent \in 0 .. MaxSends

(* Nothing is on its way. *)
Settled ==
  /\ server = "up" /\ closing = NoFd
  /\ \A k \in Conn :
       page[k] \in {"open", "lost"} => inbox[k] = <<>> /\ outbox[k] = <<>>

(* "Multiple users can draw together on a shared canvas" (README.md:94):   *)
(* when nothing is on its way, a page that did not lose track of its       *)
(* frames and for which no send failed shows what the server remembers and *)
(* nothing else.  The README makes no exception; the code has one: a page  *)
(* lacks strokes of its own that a "clear" on its way back wiped out after *)
(* they were sent.                                                         *)
CanvasesAgree ==
  Settled =>
    \A k \in Conn : page[k] = "open" /\ k \notin missed =>
      /\ canvas[k] \subseteq ToSet(drawHistory)
      /\ \A s \in ToSet(drawHistory) \ canvas[k] : s[1] = k /\ cleared

Up(k) == upgrade[k] \in {"opened", "done"}

(* Only an on_open that on_close overtook leaves a dangling entry, or      *)
(* takes the place of the entry of the connection that has the number now; *)
(* but for that a connection that is open is found under its descriptor,   *)
(* unless paint dropped it.                                                *)
OnlyOvertakenDangle ==
  \A f \in Fd :
    /\ clients[f] # NoConn =>
         Up(clients[f]) /\ (file[f] = clients[f] \/ clients[f] \in overtaken)
    /\ file[f] # NoConn /\ Up(file[f]) /\ closing # f =>
         \/ clients[f] = file[f]
         \/ clients[f] \in overtaken
         \/ app = "paint" /\ file[f] \in missed

(* A client of paint to which a send failed gets no frame any more, so     *)
(* that it never reads the rest of one frame out of another, with two      *)
(* exceptions: a 101 for somebody who had its descriptor before, and the   *)
(* replay that answers its own join, which does not ask whether paint      *)
(* dropped it.                                                             *)
NothingAfterACut ==
  [][\A k \in Conn :
       /\ app = "paint" /\ k \in missed /\ page[k] \in {"open", "lost"}
       /\ Len(outbox'[k]) > Len(outbox[k])
       => \/ \E j \in Conn \ {k} : upgrade'[j] # upgrade[j]
          \/ Head(inbox[k]) = Join /\ inbox'[k] = Tail(inbox[k])]_vars

(* The inductive invariant.  First, which connection is behind which       *)
(* descriptor: one descriptor each, from accept until the erase that       *)
(* follows the handler of a page that has gone.                            *)
OneDescriptorEach ==
  /\ \A f \in Fd :
       /\ file[f] # NoConn =>
            upgrade[file[f]] # "new" /\ clientFd[file[f]] = f
       /\ clients[f] # NoConn => clientFd[clients[f]] = f
  /\ \A k \in Conn :
       /\ upgrade[k] # "new" => clientFd[k] \in Fd
       /\ upgrade[k] # "new" /\ ~Gone(k) =>
            file[clientFd[k]] = k /\ closing # clientFd[k]
       /\ upgrade[k] \in {"accepted", "registered"} /\ k \notin overtaken =>
            file[clientFd[k]] = k /\ closing # clientFd[k]
       /\ k \in overtaken =>
            /\ Gone(k) /\ upgrade[k] \in {"registered", "opened", "done"}
            /\ file[clientFd[k]] = k => closing = clientFd[k]
  /\ closing # NoFd =>
       /\ file[closing] # NoConn /\ Gone(file[closing])
       /\ upgrade[file[closing]] \in {"registered", "opened", "done"}
       /\ clients[closing] # NoConn => clients[closing] \in overtaken

(* What a page has sent: nothing before its 101, a join first of all, and  *)
(* the end of the stream only when it has gone.                            *)
PagesSpeakInTurn ==
  \A k \in Conn :
    /\ page[k] \in {"open", "lost"} => upgrade[k] = "done"
    /\ page[k] = "connecting" => inbox[k] = <<>> /\ canvas[k] = {}
    /\ ~Up(k) => ToSet(inbox[k]) \subseteq {Eof}
    /\ Eof \in ToSet(inbox[k]) => Gone(k)
    /\ \A i \in DOMAIN inbox[k] : inbox[k][i] = Join => i = 1

(* A client for which a send failed was registered, and not too late;      *)
(* paint forgot it.                                                        *)
MissedAreForgotten ==
  \A k \in missed : /\ Up(k) /\ k \notin overtaken
                    /\ app = "paint" => k \notin Registered

(* No stroke is sent to a connection before on_open registers it; a 101    *)
(* ends its upgrade, whoever gets it.                                      *)
NothingSentTooSoon ==
  \A k \in Conn :
    /\ \A s \in Stroke : Draw(s) \in ToSet(outbox[k]) => Up(k)
    /\ \A j \in Conn : Switching(j) \in ToSet(outbox[k]) => upgrade[j] = "done"

(* A stroke is in its author's queue only, and on its author's canvas as   *)
(* long as nobody clears; a "clear" comes from a page that cleared.        *)
StrokesHaveAuthors ==
  /\ \A k \in Conn : \A s \in Stroke :
       Draw(s) \in ToSet(inbox[k]) => s[1] = k /\ (s \in canvas[k] \/ cleared)
  /\ \A s \in ToSet(drawHistory) : s \in canvas[s[1]] \/ cleared
  /\ \A k \in Conn :
       Clear \in ToSet(inbox[k]) \cup ToSet(outbox[k]) => cleared

(* A stroke that is in q with no "clear" behind it; and one that is on the *)
(* canvas of k when k has read all that is on its way to it.               *)
Survives(s, q) ==
  \E i \in DOMAIN q :
    q[i] = Draw(s) /\ \A j \in DOMAIN q : j > i => q[j] # Clear

EndsUpIn(s, strokes, q) ==
  Survives(s, q) \/ (s \in strokes /\ Clear \notin ToSet(q))

WillShow(k, s) == EndsUpIn(s, canvas[k], outbox[k])

(* CanvasesAgree before things settle: a page will show only what is in    *)
(* the history or on its own way there, and once its join was answered all *)
(* that others drew; what a page does that loses track on its way is not   *)
(* said.                                                                   *)
Follows(k) ==
  page[k] \in {"connecting", "open"} /\ LongCursor \notin ToSet(outbox[k])

CanvasesConverge ==
  server = "up" => \A k \in Conn \ missed : \A s \in Stroke :
    /\ Follows(k) /\ WillShow(k, s) =>
         s \in ToSet(drawHistory) \/ Draw(s) \in ToSet(inbox[k])
    /\ /\ page[k] = "open" /\ Follows(k) /\ Join \notin ToSet(inbox[k])
       /\ s \in ToSet(drawHistory) /\ s[1] # k
       => WillShow(k, s)

IInv ==
  /\ TypeOK
  /\ OneDescriptorEach
  /\ PagesSpeakInTurn
  /\ OnlyOvertakenDangle
  /\ MissedAreForgotten
  /\ NothingSentTooSoon
  /\ StrokesHaveAuthors
  /\ CanvasesConverge
=============================================================================
