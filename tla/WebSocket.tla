----------------------------- MODULE WebSocket -----------------------------
(***************************************************************************)
(* Frames on one WebSocket (src/WebSocket.cpp): send and send_frame at one *)
(* end, read_frame, get_websocket_frame and parse_frame at the other.  A   *)
(* frame is made by send or is one a client could make; the reader is the  *)
(* code's own in both cases.  Its socket does not block: recv finds what   *)
(* has arrived, and the network cuts the stream where it likes.            *)
(*                                                                         *)
(* A frame travels in pieces, one for each recv of parse_frame: "header",  *)
(* "length", "mask" and "payload", of which the last three may be missing. *)
(* A payload is its length.  Length fields are bytes: htons, htobe64 and   *)
(* their inverses depend on the byte order of the host.                    *)
(***************************************************************************)
EXTENDS Integers, SequencesExt

CONSTANTS
  LittleEndian,   \* the byte order of the host
  Messages,       \* what the program sends: records op, len
  ClientFrames,   \* what a client may send: records fin, op, len, masked
  MaxFrames       \* frames in a client's stream (a bound of the model)

ASSUME WebSocketAssumption ==
  /\ LittleEndian \in BOOLEAN
  /\ Messages \subseteq [op : {1, 2}, len : Nat]
  /\ ClientFrames \subseteq
       [fin : BOOLEAN, op : 0 .. 15, len : Nat, masked : BOOLEAN]

VARIABLES
  origin,      \* the message that is sent, or FromClient's marker
  stream,      \* the frames written, oldest first
  arrived,     \* how many pieces of the stream have arrived
  part,        \* whether some bytes of the next piece have
  taken,       \* how many pieces were read
  first,       \* is_first_frame
  opcode,      \* op_code
  received,    \* the size of raw_message
  delivered,   \* what read_frame returned so far: records op, len
  outcome      \* "waiting" for the listener, "reading", or what was thrown

readerVars == <<taken, first, opcode, received, delivered, outcome>>
vars == <<origin, stream, arrived, part, readerVars>>

CONTINUATION == 0
TEXT == 1
BINARY == 2
CLOSE == 8
PING == 9
PONG == 10
UNKNOWN == 11

MAX_BINARY_FRAME_SIZE == 16384

NoMessage == [op |-> 0, len |-> 0]
FromClient == origin = NoMessage

-----------------------------------------------------------------------------
(* send: a text is one frame, a binary message is cut. *)

(* Mutant: one frame too many. *)
FramesCountRoundedUp(len) == len \div MAX_BINARY_FRAME_SIZE + 1

FramesCount(len) ==
  (len + MAX_BINARY_FRAME_SIZE - 1) \div MAX_BINARY_FRAME_SIZE

FrameSizes(len) ==
  LET start(i) == (i - 1) * MAX_BINARY_FRAME_SIZE
      end(i) == IF start(i) + MAX_BINARY_FRAME_SIZE < len
                THEN start(i) + MAX_BINARY_FRAME_SIZE ELSE len
  IN  [i \in 1 .. FramesCount(len) |-> end(i) - start(i)]

(* The digits of a number in network order, in 2 or 8 bytes. *)
NetworkOrder(n, bytes) ==
  [i \in 1 .. bytes |->
     IF bytes - i > 3 THEN 0 ELSE (n \div 256 ^ (bytes - i)) % 256]

(* htons and htobe64 turn a number round where the host needs it, and      *)
(* send_frame then writes the most significant byte of the result first.   *)
LengthField(n, bytes) ==
  IF LittleEndian THEN Reverse(NetworkOrder(n, bytes))
  ELSE NetworkOrder(n, bytes)

Len7(len) == IF len < 126 THEN len ELSE IF len <= 65535 THEN 126 ELSE 127
ExtBytes(len7) == CASE len7 = 126 -> 2 [] len7 = 127 -> 8 [] OTHER -> 0

(* The header of send_frame, with the payload that follows it. *)
SendFrame(op, len, fin) ==
  [fin |-> fin, op |-> op, len |-> len, masked |-> FALSE, len7 |-> Len7(len),
   ext |-> LengthField(len, ExtBytes(Len7(len)))]

Send(m) ==
  IF m.op = TEXT
  THEN <<SendFrame(TEXT, m.len, TRUE)>>
  ELSE LET sizes == FrameSizes(m.len)
       IN  [i \in DOMAIN sizes |->
              SendFrame(BINARY, sizes[i], i = Len(sizes))]

(* A client writes its lengths in network order. *)
ClientFrame(f) ==
  [fin |-> f.fin, op |-> f.op, len |-> f.len, masked |-> f.masked,
   len7 |-> Len7(f.len), ext |-> NetworkOrder(f.len, ExtBytes(Len7(f.len)))]

-----------------------------------------------------------------------------
(* The wire. *)

Pieces(f) ==
  <<"header">> \o (IF f.len7 >= 126 THEN <<"length">> ELSE <<>>)
    \o (IF f.masked THEN <<"mask">> ELSE <<>>)
    \o (IF f.len > 0 THEN <<"payload">> ELSE <<>>)

(* The sums of the first n elements, for all n. *)
Sums(seq) ==
  LET sum[n \in 0 .. Len(seq)] == IF n = 0 THEN 0 ELSE sum[n - 1] + seq[n]
  IN  sum

(* How many pieces the first n frames have. *)
PiecesOf(n) == Sums([i \in DOMAIN stream |-> Len(Pieces(stream[i]))])[n]

ClientSends ==
  /\ FromClient /\ outcome = "waiting"
  /\ Len(stream) < MaxFrames
  /\ \E f \in ClientFrames : stream' = Append(stream, ClientFrame(f))
  /\ UNCHANGED <<origin, arrived, part, readerVars>>

Arrive ==
  /\ outcome \in {"waiting", "reading"}
  /\ \E n \in arrived .. PiecesOf(Len(stream)), p \in BOOLEAN :
       /\ n > arrived \/ (p /\ ~part)
       /\ p => n < PiecesOf(Len(stream))
       /\ arrived' = n
       /\ part' = p
  /\ UNCHANGED <<origin, stream, readerVars>>

-----------------------------------------------------------------------------
(* The reader.  Its frame is the one that holds the next piece. *)

Reading == CHOOSE i \in DOMAIN stream :
             PiecesOf(i - 1) <= taken /\ taken < PiecesOf(i)
Frame == stream[Reading]

(* Whether the length in the header is that of the payload: ntohs and      *)
(* be64toh undo the network order.                                         *)
LengthIsRead(f) == f.ext = NetworkOrder(f.len, ExtBytes(f.len7))

(* Mutants: any frame may come first; any frame may follow the first. *)
ExpectedAfterAny(f) == IF first THEN TRUE ELSE f.op = CONTINUATION
ExpectedInAnyOrder(f) == IF first THEN f.op \in {TEXT, BINARY} ELSE TRUE

(* What get_websocket_frame accepts as the next frame of a message. *)
Expected(f) ==
  IF first THEN f.op \in {TEXT, BINARY} ELSE f.op = CONTINUATION

ToOpcode(raw) ==
  IF raw \in {CONTINUATION, TEXT, BINARY, CLOSE, PING, PONG} THEN raw
  ELSE UNKNOWN

Throws(what) ==
  outcome' = what /\ UNCHANGED <<taken, first, opcode, received, delivered>>

(* The descriptor is readable and process_message calls read_frame. *)
ReadFrame ==
  /\ outcome = "waiting"
  /\ arrived > taken \/ part
  /\ outcome' = "reading" /\ first' = TRUE /\ received' = 0
  /\ UNCHANGED <<origin, stream, arrived, part, taken, opcode, delivered>>

(* A recv that returns less than it was asked for. *)
RecvFails ==
  /\ outcome = "reading" /\ taken = arrived
  /\ Throws("Failed to read")
  /\ UNCHANGED <<origin, stream, arrived, part>>

(* A recv in the middle of a frame.  After a wrong length the reader is    *)
(* out of step with the stream.                                            *)
RecvPiece ==
  /\ outcome = "reading" /\ taken < arrived
  /\ LET piece == Pieces(Frame)[taken - PiecesOf(Reading - 1) + 1]
     IN  \/ piece = "length" /\ ~LengthIsRead(Frame) /\ Throws("out of step")
         \/ /\ piece = "length" => LengthIsRead(Frame)
            /\ taken + 1 < PiecesOf(Reading)
            /\ taken' = taken + 1
            /\ UNCHANGED <<first, opcode, received, delivered, outcome>>
  /\ UNCHANGED <<origin, stream, arrived, part>>

(* The recv that completes a frame, with the turn of the loop of           *)
(* get_websocket_frame that parse_frame returns to.                        *)
RecvLastPiece ==
  /\ outcome = "reading" /\ taken < arrived
  /\ taken + 1 = PiecesOf(Reading)
  /\ LET f == Frame
     IN  \/ f.op = CLOSE /\ Throws("Connection close frame received")
         \/ f.op = PING /\ Throws("Make a pong")
         \/ /\ f.op \notin {CLOSE, PING} /\ ~Expected(f)
            /\ Throws(IF first THEN "Unexpected opcode for initial frame"
                      ELSE "Expected continuation frame")
         \/ /\ f.op \notin {CLOSE, PING} /\ Expected(f)
            /\ taken' = taken + 1
            /\ first' = FALSE
            /\ opcode' = IF first THEN f.op ELSE opcode
            /\ received' = received + f.len
            /\ IF f.fin
               THEN /\ outcome' = "waiting"
                    /\ delivered' = Append(delivered, [op |-> ToOpcode(opcode'),
                                                       len |-> received'])
               ELSE UNCHANGED <<outcome, delivered>>
  /\ UNCHANGED <<origin, stream, arrived, part>>

-----------------------------------------------------------------------------
Init ==
  /\ \/ origin \in Messages /\ stream = Send(origin)
     \/ origin = NoMessage /\ stream = <<>>
  /\ arrived = 0 /\ part = FALSE /\ taken = 0
  /\ first = TRUE /\ opcode = 0 /\ received = 0
  /\ delivered = <<>>
  /\ outcome = "waiting"

Next ==
  \/ ClientSends \/ Arrive
  \/ ReadFrame \/ RecvFails \/ RecvPiece \/ RecvLastPiece

Spec == Init /\ [][Next]_vars

-----------------------------------------------------------------------------
(* Properties. *)

TypeOK ==
  /\ arrived \in 0 .. PiecesOf(Len(stream)) /\ taken \in 0 .. arrived
  /\ part \in BOOLEAN /\ first \in BOOLEAN
  /\ opcode \in {0, TEXT, BINARY}
  /\ received \in Nat
  /\ delivered \in Seq([op : {TEXT, BINARY}, len : Nat])
  /\ outcome \in {"waiting", "reading", "Failed to read", "out of step",
                  "Connection close frame received", "Make a pong",
                  "Unexpected opcode for initial frame",
                  "Expected continuation frame"}

(* Frames a .. b are a message: a first frame that says what it is, then   *)
(* continuations, the last frame and no other being final.                 *)
IsMessage(a, b) ==
  /\ a <= b
  /\ \A i \in a .. b :
       /\ stream[i].op \in IF i = a THEN {TEXT, BINARY} ELSE {CONTINUATION}
       /\ stream[i].fin <=> i = b
Bytes(a, b) ==
  LET sum == Sums([i \in DOMAIN stream |-> stream[i].len])
  IN  sum[b] - sum[a - 1]

(* Up to which frames the messages reach that read_frame returned.         *)
Returned(end) ==
  /\ end[0] = 0
  /\ \A j \in DOMAIN delivered :
       /\ IsMessage(end[j - 1] + 1, end[j])
       /\ delivered[j] = [op |-> stream[end[j - 1] + 1].op,
                          len |-> Bytes(end[j - 1] + 1, end[j])]

GaveUp ==
  outcome \notin {"waiting", "reading", "Failed to read", "out of step"}

(* However the network cuts the stream and whatever frames are in it, what *)
(* read_frame returned is the messages the stream begins with, each with   *)
(* the opcode of its first frame and all of its payload.  It gives up      *)
(* because of a frame only when that frame cannot go on the message (no    *)
(* control frame can, not even a pong, though WebSocket.cpp:198-200 say of *)
(* it "ignore": get_websocket_frame throws for the frame it is given), and *)
(* for want of bytes only when the message has not arrived completely; and *)
(* the lengths a client sends in network order are never misread.          *)
DeliversMessages ==
  \E end \in [0 .. Len(delivered) -> 0 .. Len(stream)] :
    LET next == end[Len(delivered)] + 1
    IN  /\ Returned(end)
        /\ outcome = "Failed to read" =>
             ~\E b \in DOMAIN stream :
                IsMessage(next, b) /\ PiecesOf(b) <= arrived
        /\ GaveUp => ~\E b \in Reading .. Len(stream) : IsMessage(next, b)
        /\ outcome = "out of step" => ~FromClient

(* A message that send puts in one frame with its length in the header: a  *)
(* text shorter than 126 bytes, or a binary message that is not empty      *)
(* either, for which send makes no frame.                                  *)
FitsOneFrame(m) == m.len < 126 /\ (m.op = BINARY => m.len > 0)

(* The frames send makes carry all of the message, each within the limit,  *)
(* only the last one final; and a message of one short frame is read back  *)
(* as it was sent.                                                         *)
SentIsReadBack ==
  ~FromClient =>
    /\ Bytes(1, Len(stream)) = origin.len
    /\ \A i \in DOMAIN stream :
         /\ stream[i].fin <=> i = Len(stream)
         /\ origin.op = BINARY => stream[i].len \in 1 .. MAX_BINARY_FRAME_SIZE
    /\ FitsOneFrame(origin) =>
         /\ outcome \in {"waiting", "reading", "Failed to read"}
         /\ taken = PiecesOf(Len(stream)) => delivered = <<origin>>

(* The inductive invariant.  The stream is what send or a client made; the *)
(* reader has taken r whole frames, of which those after the last message  *)
(* are the beginning of one that goes on.                                  *)
ClientStreams == Seq({ClientFrame(f) : f \in ClientFrames})
StreamIsMade ==
  IF FromClient THEN stream \in ClientStreams
  ELSE origin \in Messages /\ stream = Send(origin)

IsBegun(a, r) ==
  \A i \in a .. r :
    /\ stream[i].op \in IF i = a THEN {TEXT, BINARY} ELSE {CONTINUATION}
    /\ ~stream[i].fin

HasTaken(r) ==
  /\ PiecesOf(r) <= taken
  /\ IF r = Len(stream) THEN taken = PiecesOf(r) ELSE taken < PiecesOf(r + 1)

InStep(r, end) ==
  LET last == end[Len(delivered)]
  IN  /\ Returned(end)
      /\ outcome = "waiting" => last = r /\ taken = PiecesOf(r)
      /\ outcome # "waiting" =>
           /\ IsBegun(last + 1, r)
           /\ first <=> last = r
           /\ received = Bytes(last + 1, r)
           /\ last < r => opcode = stream[last + 1].op
      /\ outcome = "Failed to read" => taken = arrived
      /\ GaveUp =>
           /\ r < Len(stream)
           /\ stream[r + 1].op \notin
                IF last = r THEN {TEXT, BINARY} ELSE {CONTINUATION}
      /\ outcome = "out of step" =>
           \E i \in DOMAIN stream : ~LengthIsRead(stream[i])

ReaderInStep ==
  \E r \in 0 .. Len(stream) :
    /\ HasTaken(r)
    /\ \E end \in [0 .. Len(delivered) -> 0 .. r] : InStep(r, end)

IInv == TypeOK /\ StreamIsMade /\ ReaderInStep

(* Whatever the program sends can be read: the examples of the README      *)
(* exchange messages of any length.                                        *)
LengthsArrive == ~FromClient => outcome # "out of step"
=============================================================================
