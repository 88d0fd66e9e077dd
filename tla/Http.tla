-------------------------------- MODULE Http --------------------------------
(***************************************************************************)
(* One plain HTTP request from the bytes on the socket to the bytes of the *)
(* answer: the read of WebServer::on_http, parse_http_request, the choice  *)
(* of a route, the responses of HttpResponse and their to_string.          *)
(*                                                                         *)
(* Text is a sequence of tokens, each a piece of text that the code never  *)
(* looks into; a token is also the unit in which the stream arrives.  The  *)
(* tree under Base has no symbolic links, and Base itself can always be    *)
(* made canonical.                                                         *)
(***************************************************************************)
EXTENDS Integers, SequencesExt

CONSTANTS
  Token,        \* the pieces of text
  Meant,        \* the requests that clients have in mind
  Method,       \* the method names that parse_http_method knows
  LowerCase,    \* tolower, for the tokens that it changes
  Limit,        \* sizeof(buffer) - 1, in tokens
  Registered,   \* the calls of get, post, ... before run: records verb,
                \* route, handler; a handler says what it returns and, if
                \* that is ServeStatic, for which prefix
  Base,         \* base_path, the components of a directory
  File,         \* the paths of all files
  Extension     \* the extension of the names that have one

(* The calls that register a handler, and for which method.                *)
MethodOf ==
  [get |-> "GET", post |-> "POST", put |-> "PUT", del |-> "DELETE",
   patch |-> "PATCH", head |-> "HEAD", options |-> "OPTIONS"]

Space == {" ", "\r", "\n"}

(* The names of files and directories.                                     *)
Name == Seq(Token \ {"/"}) \ {<<>>, <<".">>, <<"..">>}

ASSUME HttpAssumption ==
  /\ Space \cup {"?", "&", ":", "HTTP/1.1", "/", "index.html"} \subseteq Token
  /\ Limit \in Nat \ {0}
  /\ {MethodOf[verb] : verb \in DOMAIN MethodOf} \subseteq Method
  /\ "UNKNOWN" \notin Method
  /\ Registered \in Seq(ToSet(Registered))
  /\ \A i \in DOMAIN Registered :
       /\ Registered[i].verb \in DOMAIN MethodOf
       /\ Registered[i].route \in Seq(Token) \ {<<>>}
  /\ File \cup {Base} \subseteq Seq(Name)
  /\ \A f \in File : ~IsPrefix(f, Base)

(* A client writes a request line of three words, a path that is not empty *)
(* and has no question mark, and header lines with a name.                 *)
ASSUME MeantAssumption ==
  \A m \in Meant :
    /\ m.lead \in Seq(Token)
    /\ m.method \in Token \ Space
    /\ m.path \in Seq(Token \ (Space \cup {"?"})) \ {<<>>}
    /\ m.query \in Seq(Seq(Token \ Space))
    /\ m.headers \in Seq(Token \X Seq(Token))
    /\ m.body \in Seq(Token)

(* It writes parameters that are not empty and have no "&", and header     *)
(* lines with a name that is a word without ":" and with a value on one    *)
(* line, which no space begins or ends.                                    *)
ASSUME FieldsAssumption ==
  \A m \in Meant :
    /\ m.query \in Seq(Seq(Token \ {"&"}) \ {<<>>})
    /\ m.headers \in Seq((Token \ (Space \cup {":"})) \X Seq(Token \ {"\n"}))
    /\ \A i \in DOMAIN m.headers :
         LET value == m.headers[i][2]
         IN  value # <<>> => {value[1], Last(value)} \cap Space = {}

VARIABLES
  meant,      \* what the client has in mind
  stream,     \* what it writes
  stage,      \* where on_http is
  whole,      \* the one read got all of it
  req,        \* what parse_http_request returned
  calls,      \* the handlers that were called: records route, handler
  response,   \* the response, or <<>>
  wire        \* what was written of it

vars == <<meant, stream, stage, whole, req, calls, response, wire>>

IndexOf(s, t) == SelectInSeq(s, LAMBDA x : x = t)
From(s, i) == SubSeq(s, i, Len(s))
Before(s, i) == SubSeq(s, 1, i - 1)

(* An assignment to a key of a map.                                        *)
Put(map, key, value) ==
  [k \in DOMAIN map \cup {key} |-> IF k = key THEN value ELSE map[k]]

(* A text cut at separators.  An empty part counts only if least is 0 and  *)
(* a separator follows it.                                                 *)
Cut(s, separators, least) ==
  LET Step(acc, t) ==
        IF t \notin separators THEN [acc EXCEPT !.cur = Append(@, t)]
        ELSE IF Len(acc.cur) < least THEN acc
        ELSE [done |-> Append(acc.done, acc.cur), cur |-> <<>>]
      end == FoldLeft(Step, [done |-> <<>>, cur |-> <<>>], s)
  IN  IF end.cur = <<>> THEN end.done ELSE Append(end.done, end.cur)

(* What std::getline returns until it fails.                               *)
Pieces(s, sep) == Cut(s, {sep}, 0)

Join(pieces, sep) ==
  FlattenSeq([i \in DOMAIN pieces |->
                IF i = 1 THEN pieces[1] ELSE <<sep>> \o pieces[i]])

(* What the operator >> of a stream reads one after another. *)
Words(s) == Cut(s, Space, 1)
Word(s, n) == IF n <= Len(Words(s)) THEN Words(s)[n] ELSE <<>>

-----------------------------------------------------------------------------
(* HttpRequest.cpp. *)

(* Mutant: only the front is trimmed. *)
TrimFront(s) == From(s, SelectInSeq(s \o <<"">>, LAMBDA t : t \notin Space))

Trim(s) ==
  LET text == {i \in DOMAIN s : s[i] \notin Space}
  IN  IF text = {} THEN <<>> ELSE SubSeq(s, Min(text), Max(text))

ToLower(s) ==
  [i \in DOMAIN s |-> IF s[i] \in DOMAIN LowerCase THEN LowerCase[s[i]]
                                                   ELSE s[i]]

(* A pair without "=" is a name with an empty value; the last one counts. *)
ParseQueryParams(query) ==
  LET Step(params, pair) ==
        LET e == IndexOf(pair, "=")
        IN  IF e = 0 THEN Put(params, pair, <<>>)
                     ELSE Put(params, Before(pair, e), From(pair, e + 1))
  IN  FoldLeft(Step, <<>>, Pieces(query, "&"))

(* Trim has already removed the "\r" that the code looks for after it. *)
ParseHeaders(lines) ==
  LET Step(headers, line) ==
        LET c == IndexOf(line, ":")
        IN  IF c = 0 THEN headers
            ELSE Put(headers, ToLower(Trim(Before(line, c))),
                     Trim(From(line, c + 1)))
  IN  FoldLeft(Step, <<>>, lines)

(* Mutant: an unknown name is kept. *)
ParseAnyMethod(word) == IF word = <<>> THEN "UNKNOWN" ELSE word[1]

ParseMethod(word) ==
  IF Len(word) = 1 /\ word[1] \in Method THEN word[1] ELSE "UNKNOWN"

Request(method, path, params, headers, body) ==
  [method |-> method, path |-> path, params |-> params, headers |-> headers,
   body |-> body]

(* What parse_http_request may return.  If the first line is empty, method *)
(* is never written and any enumerator may be in it.                       *)
Parsed(text) ==
  LET lines == Pieces(text, "\n")
      target == Word(lines[1], 2)
      mark == IndexOf(target, "?")
      blank == SelectInSubSeq(lines, 2, Len(lines), LAMBDA l : l = <<"\r">>)
      end == IF blank = 0 THEN Len(lines) + 1 ELSE blank
  IN  IF lines = <<>> \/ lines[1] = <<>>
      THEN {Request(m, <<>>, <<>>, <<>>, <<>>) : m \in Method \cup {"UNKNOWN"}}
      ELSE {Request(ParseMethod(Word(lines[1], 1)),
                    IF mark = 0 THEN target ELSE Before(target, mark),
                    IF mark = 0 THEN <<>>
                    ELSE ParseQueryParams(From(target, mark + 1)),
                    ParseHeaders(SubSeq(lines, 2, end - 1)),
                    Join(From(lines, end + 1), "\n"))}

IsWebSocketUpgrade ==
  /\ {<<"upgrade">>, <<"sec-websocket-key">>} \subseteq DOMAIN req.headers
  /\ req.headers[<<"upgrade">>] = <<"websocket">>

-----------------------------------------------------------------------------
(* HttpResponse.cpp. *)

SetHeader(res, key, value) == [res EXCEPT !.headers = Put(@, key, value)]

(* A response of one of the types below; file is where its body is from.   *)
Plain(status, text, type, body) ==
  SetHeader([version |-> "HTTP/1.1", status |-> status, text |-> text,
             headers |-> <<>>, body |-> body, file |-> <<>>],
            "Content-Type", <<type>>)

TextResponse(body, status) == Plain(status, "OK", "text/plain", body)
Json(body, status) == Plain(status, "OK", "application/json", body)
Html(body, status) == Plain(status, "OK", "text/html", body)
NotFound(message) == Plain("404", "Not Found", "text/plain", <<message>>)

Redirect(location, permanent) ==
  SetHeader(Plain(IF permanent THEN "301" ELSE "302",
                  IF permanent THEN "Moved Permanently" ELSE "Found",
                  "text/plain", <<"Redirecting to ">> \o location),
            "Location", location)

MimeType(ext) ==
  CASE ext = ".html" -> "text/html"
    [] ext = ".css" -> "text/css"
    [] ext = ".js" -> "application/javascript"
    [] ext = ".png" -> "image/png"
    [] ext \in {".jpg", ".jpeg"} -> "image/jpeg"
    [] ext = ".svg" -> "image/svg+xml"
    [] ext = ".json" -> "application/json"
    [] ext = ".txt" -> "text/plain"
    [] OTHER -> "application/octet-stream"

DetectMime(name) ==
  MimeType(IF name[1] \in DOMAIN Extension
           THEN ToLower(<<Extension[name[1]]>>)[1] ELSE "")

(* The content of a file is its name. *)
FromFile(file) ==
  [Plain("200", "OK", DetectMime(Last(file)), FlattenSeq(file))
     EXCEPT !.file = file]

(* accept_handshake, SHA-1 and base64, is different for different keys. *)
AcceptHandshake(key) == <<"accept">> \o key

SwitchingProtocols(accept) ==
  [version |-> "HTTP/1.1", status |-> "101", text |-> "Switching Protocols",
   headers |-> Put(Put(Put(<<>>, "Upgrade", <<"websocket">>),
                       "Connection", <<"Upgrade">>),
                   "Sec-WebSocket-Accept", accept),
   body |-> <<>>, file |-> <<>>]

CRLF == <<"\r", "\n">>
HeaderLine(key, value) == <<key, ":", " ">> \o value \o CRLF

(* A number is written with its decimal digits. *)
Digit == <<"0", "1", "2", "3", "4", "5", "6", "7", "8", "9">>
Decimal[n \in Nat] ==
  (IF n < 10 THEN <<>> ELSE Decimal[n \div 10]) \o <<Digit[(n % 10) + 1]>>

(* Mutant: the length is left out when there is no body. *)
LengthLineOfSome(res) ==
  IF res.body = <<>> THEN <<>>
  ELSE HeaderLine("Content-Length", Decimal[Len(res.body)])

LengthLine(res) ==
  IF "Content-Length" \in DOMAIN res.headers THEN <<>>
  ELSE HeaderLine("Content-Length", Decimal[Len(res.body)])

(* to_string. *)
Render(res) ==
  LET keys == SetToSeq(DOMAIN res.headers)
  IN  <<res.version, " ", res.status, " ", res.text>> \o CRLF
        \o FlattenSeq([i \in DOMAIN keys |->
                         HeaderLine(keys[i], res.headers[keys[i]])])
        \o LengthLine(res) \o CRLF \o res.body

Components(s) == Cut(s, {"/"}, 1)

(* weakly_canonical, in a tree without symbolic links. *)
Canonical(path) ==
  LET Step(acc, c) == CASE c = <<".">> -> acc
                        [] c = <<"..">> /\ acc = <<>> -> acc
                        [] c = <<"..">> /\ acc # <<>> -> Front(acc)
                        [] OTHER -> Append(acc, c)
  IN  FoldLeft(Step, <<>>, path)

(* Such a path exists only if it is a directory. *)
NamesDirectory(s) ==
  Last(s) = "/" \/ Last(Components(s)) \in {<<".">>, <<"..">>}

(* Mutant: only a path that equals the prefix leads to index.html. *)
RelativeWithSlash(path, prefix) ==
  LET rest == From(path, Len(prefix) + 1)
  IN  IF rest = <<>> THEN <<"index.html">> ELSE rest

Relative(path, prefix) ==
  LET rest == From(path, Len(prefix) + 1)
      relative == IF rest # <<>> /\ rest[1] = "/" THEN Tail(rest) ELSE rest
  IN  IF relative = <<>> THEN <<"index.html">> ELSE relative

(* Mutant: the loop stops one component early. *)
AgreesButLast(path) ==
  \A i \in (DOMAIN Base \cap DOMAIN path) \ {Len(Base)} : Base[i] = path[i]

(* The loop stops at the end of the shorter one. *)
Agrees(path) ==
  \A i \in DOMAIN Base \cap DOMAIN path : Base[i] = path[i]

(* The path that is asked for; an absolute relative one replaces the base. *)
Normalized(path, prefix) ==
  LET relative == Relative(path, prefix)
  IN  Canonical(IF relative[1] = "/" THEN Components(relative)
                                     ELSE Base \o Components(relative))

(* What it may return.  The file system may fail while the path is made    *)
(* canonical or when the file is opened; in between it makes exists and    *)
(* is_directory throw (ServeStaticThrows).                                 *)
ServeStatic(path, prefix) ==
  LET relative == Relative(path, prefix)
      normalized == Normalized(path, prefix)
  IN  CASE ~IsPrefix(prefix, path) -> {NotFound("Invalid static path")}
        [] IsPrefix(prefix, path) /\ ~Agrees(normalized) ->
             {NotFound("Canonicalization error"), NotFound("Access denied")}
        [] IsPrefix(prefix, path) /\ Agrees(normalized) ->
             {NotFound("Canonicalization error"), NotFound("File not found")}
               \cup IF normalized \notin File \/ NamesDirectory(relative)
                    THEN {} ELSE {FromFile(normalized)}

ServeStaticThrows(path, prefix) ==
  IsPrefix(prefix, path) /\ Agrees(Normalized(path, prefix))

-----------------------------------------------------------------------------
(* The client. *)

(* The stream of a request, with a choice of the space around values. *)
Text(m, pad) ==
  m.lead \o <<m.method, " ">> \o m.path
    \o (IF m.query = <<>> THEN <<>> ELSE <<"?">> \o Join(m.query, "&"))
    \o <<" ", "HTTP/1.1", "\r", "\n">>
    \o FlattenSeq([i \in DOMAIN m.headers |->
         <<m.headers[i][1], ":">> \o pad \o m.headers[i][2] \o pad
           \o <<"\r", "\n">>])
    \o <<"\r", "\n">> \o m.body

Init ==
  /\ meant \in Meant
  /\ \E pad \in {<<>>, <<" ">>} : stream = Text(meant, pad)
  /\ stage = "read"
  /\ whole = FALSE
  /\ req = <<>>
  /\ calls = <<>>
  /\ response = <<>>
  /\ wire = <<>>

-----------------------------------------------------------------------------
(* on_http. *)

(* One read, of what TCP has delivered so far and the buffer holds. *)
Read ==
  /\ stage = "read"
  /\ \E n \in 1 .. Min({Len(stream), Limit}) :
       /\ req' \in Parsed(SubSeq(stream, 1, n))
       /\ whole' = (n = Len(stream))
  /\ stage' = "dispatch"
  /\ UNCHANGED <<meant, stream, calls, response, wire>>

Respond(answer) ==
  /\ stage' = "write"
  /\ response' = answer
  /\ UNCHANGED <<meant, stream, whole, req, wire>>

(* One write, which may take a part only; then close. *)
Write ==
  /\ stage = "write"
  /\ LET text == Render(response)
     IN  \E n \in 0 .. Len(text) : wire' = SubSeq(text, 1, n)
  /\ stage' = "done"
  /\ UNCHANGED <<meant, stream, whole, req, calls, response>>

RejectMethod ==
  /\ stage = "dispatch"
  /\ req.method = "UNKNOWN"
  /\ Respond(NotFound("Unknown HTTP method"))
  /\ UNCHANGED calls

(* WSApplication takes the descriptor. *)
Upgrade ==
  /\ stage = "dispatch"
  /\ req.method # "UNKNOWN"
  /\ IsWebSocketUpgrade
  /\ Respond(SwitchingProtocols(
               AcceptHandshake(req.headers[<<"sec-websocket-key">>])))
  /\ UNCHANGED calls

(* Mutant: the map's emplace, which keeps what is there. *)
HandleKeepsFirst(handlers, r) ==
  LET method == MethodOf[r.verb]
      others == IF method \in DOMAIN handlers THEN handlers[method] ELSE <<>>
  IN  Put(handlers, method, IF r.route \in DOMAIN others THEN others
                            ELSE Put(others, r.route, r.handler))

(* A handler replaces the one its route had. *)
Handle(handlers, r) ==
  LET method == MethodOf[r.verb]
      others == IF method \in DOMAIN handlers THEN handlers[method] ELSE <<>>
  IN  Put(handlers, method, Put(others, r.route, r.handler))

MethodHandlers == FoldLeft(Handle, <<>>, Registered)

(* operator [] makes an empty map for a method without routes. *)
Handlers(method) ==
  IF method \in DOMAIN MethodHandlers THEN MethodHandlers[method] ELSE <<>>
RoutesOf(method) == DOMAIN Handlers(method)

(* The exact route, or else whichever the unordered map has first of those *)
(* that the path begins with.                                              *)
Candidates(method, path) ==
  IF path \in RoutesOf(method) THEN {path}
  ELSE {r \in RoutesOf(method) : r # <<>> /\ IsPrefix(r, path)}

(* What a handler returns. *)
Results(handler) ==
  CASE handler.returns = "file" -> ServeStatic(req.path, handler.prefix)
    [] handler.returns = "text" ->
         {TextResponse(<<"Received:", "\n">> \o req.body, "200")}
    [] handler.returns = "json" -> {Json(req.body, "201")}
    [] handler.returns = "html" -> {Html(req.body, "200")}
    [] OTHER -> {Redirect(req.path, b) : b \in BOOLEAN}

CallRoute ==
  /\ stage = "dispatch"
  /\ req.method # "UNKNOWN"
  /\ ~IsWebSocketUpgrade
  /\ \E route \in Candidates(req.method, req.path) :
       LET handler == Handlers(req.method)[route]
       IN  /\ calls' = Append(calls, [route |-> route, handler |-> handler])
           /\ \E answer \in Results(handler) : Respond(answer)

(* The exception ends on_http: only the pool catches it, and nothing is    *)
(* written or closed.                                                      *)
HandlerThrows ==
  /\ stage = "dispatch"
  /\ req.method # "UNKNOWN"
  /\ ~IsWebSocketUpgrade
  /\ \E route \in Candidates(req.method, req.path) :
       LET handler == Handlers(req.method)[route]
       IN  /\ handler.returns = "file"
           /\ ServeStaticThrows(req.path, handler.prefix)
           /\ calls' = Append(calls, [route |-> route, handler |-> handler])
  /\ stage' = "thrown"
  /\ UNCHANGED <<meant, stream, whole, req, response, wire>>

NoRoute ==
  /\ stage = "dispatch"
  /\ req.method # "UNKNOWN"
  /\ ~IsWebSocketUpgrade
  /\ Candidates(req.method, req.path) = {}
  /\ Respond(NotFound("404 Not Found"))
  /\ UNCHANGED calls

Next ==
  \/ Read \/ Write
  \/ RejectMethod \/ Upgrade \/ CallRoute \/ HandlerThrows \/ NoRoute

Spec == Init /\ [][Next]_vars

-----------------------------------------------------------------------------
(* Properties. *)

(* Types. *)
TypeOK ==
  /\ meant.path \in Seq(Token)
  /\ stage \in {"read", "dispatch", "write", "done", "thrown"}
  /\ whole \in BOOLEAN
  /\ stage # "read" => req.method \in Method \cup {"UNKNOWN"}
  /\ Len(calls) <= 1
  /\ stage \in {"write", "done"} <=> response # <<>>

(* Until the read the stream is what the client writes.                    *)
WritesRequest ==
  stage = "read" =>
    /\ meant \in Meant
    /\ stream \in {Text(meant, pad) : pad \in {<<>>, <<" ">>}}

(* What is dispatched has the method and the path that the client meant, if*)
(* the read got all of it, and no path after an empty line.                *)
ReadsRequest ==
  stage # "read" =>
    /\ meant.lead = <<"\n">> => req.path = <<>>
    /\ whole /\ meant.lead = <<>> =>
         /\ req.path = meant.path
         /\ req.method = ParseMethod(<<meant.method>>)

(* What of the request may be in an answer is text, and in a header field  *)
(* it is on one line.                                                      *)
EchoesText ==
  stage # "read" =>
    /\ req.path \in Seq(Token \ {"\n"})
    /\ req.body \in Seq(Token)
    /\ \A key \in DOMAIN req.headers : req.headers[key] \in Seq(Token \ {"\n"})

(* The names that the code gives to header fields of a response.           *)
FieldName ==
  {"Content-Type", "Location", "Upgrade", "Connection", "Sec-WebSocket-Accept"}

(* A response has a first line and header fields on a line each, none of   *)
(* them with the name of the one that to_string adds.                      *)
Writable(res) ==
  /\ {res.version, res.status, res.text} \cap Space = {}
  /\ DOMAIN res.headers \in SUBSET FieldName
  /\ \A key \in DOMAIN res.headers :
       LET value == res.headers[key]
       IN  value \in Seq(ToSet(value) \ {"\n"})
  /\ res.body \in Seq(ToSet(res.body))

(* Such a response is sent, and at the end a beginning of it was.          *)
WritesResponse ==
  /\ stage \in {"write", "done"} => Writable(response)
  /\ stage = "done" => \E n \in 0 .. Len(Render(response)) :
                         wire = SubSeq(Render(response), 1, n)

(* No handler is called before the dispatch, and only files are served.    *)
Dispatches ==
  /\ TypeOK
  /\ WritesRequest
  /\ ReadsRequest
  /\ stage \in {"read", "dispatch"} => calls = <<>>
  /\ response # <<>> /\ response.file # <<>> =>
       response.file \in File /\ Agrees(response.file)

(* The inductive invariant.                                                *)
IInv == Dispatches /\ EchoesText /\ WritesResponse

(* The value that the last of some pairs gives to each name. *)
LastValues(pairs) ==
  [n \in {pairs[i][1] : i \in DOMAIN pairs} |->
     pairs[Max({i \in DOMAIN pairs : pairs[i][1] = n})][2]]

(* parse_http_request undoes what a client does to write a request down,   *)
(* if the one read gets all of it: the path, the last value of each        *)
(* parameter and of each header whatever the case of its name and the      *)
(* space around its value, and the body up to a final newline.             *)
UnderstoodAsMeant ==
  stage = "dispatch" /\ whole /\ meant.lead = <<>> =>
    LET Pair(q) == LET e == IndexOf(q, "=")
                   IN  IF e = 0 THEN <<q, <<>>>>
                       ELSE <<Before(q, e), From(q, e + 1)>>
        Field(h) == <<ToLower(<<h[1]>>), h[2]>>
    IN  /\ meant.method \in Method => req.method = meant.method
        /\ req.path = meant.path
        /\ req.params = LastValues([i \in DOMAIN meant.query |->
                                      Pair(meant.query[i])])
        /\ req.headers = LastValues([i \in DOMAIN meant.headers |->
                                       Field(meant.headers[i])])
        /\ meant.body \in {req.body, req.body \o <<"\n">>}

(* The registrations that count for a method: no later one has the route. *)
Current(method) ==
  {Registered[i] : i \in {i \in DOMAIN Registered :
     /\ MethodOf[Registered[i].verb] = method
     /\ \A j \in i + 1 .. Len(Registered) :
          \/ Registered[j].verb # Registered[i].verb
          \/ Registered[j].route # Registered[i].route}}

(* A request that was read whole gets the handler that was registered last *)
(* for its method and exactly its path, if there is one, or else one for a *)
(* beginning of it; without any it gets a 404.  A request that begins with *)
(* an empty line gets a 404 and no handler, whatever method is left in it. *)
RightHandler ==
  stage = "write" /\ response.status # "101" =>
    /\ meant.lead = <<"\n">> => calls = <<>> /\ response.status = "404"
    /\ whole /\ meant.lead = <<>> =>
         LET fitting == {r \in Current(meant.method) :
                           IsPrefix(r.route, meant.path)}
         IN  /\ calls = <<>> <=> fitting = {}
             /\ calls = <<>> => response.status = "404"
             /\ \A r \in fitting :
                  r.route = meant.path => calls[1].route = r.route
             /\ calls # <<>> =>
                  \E r \in fitting :
                    calls[1] = [route |-> r.route, handler |-> r.handler]

(* A file that is served lies below base_path, whatever the request says.  *)
ServedBelowBase ==
  stage = "write" /\ response.file # <<>> =>
    IsStrictPrefix(Base, response.file) /\ response.file \in File

(* Each file below base_path is served at its own URL, and index.html at   *)
(* the URL of the prefix, unless the file system fails, which may also     *)
(* leave the request without an answer.                                    *)
FilesAreFound ==
  stage = "write" /\ whole /\ meant.lead = <<>> =>
  \A f \in File, i \in DOMAIN calls :
    LET r == calls[i].route
        rest == From(f, Len(Base) + 1)
        slash == IF Last(r) = "/" THEN <<>> ELSE <<"/">>
        url == r \o slash \o Join(rest, "/")
    IN  /\ calls[i].handler = [returns |-> "file", prefix |-> r]
        /\ IsPrefix(Base, f)
        /\ \/ meant.path = url
           \/ rest = <<<<"index.html">>>> /\ meant.path \in {r, r \o slash}
        => response \in {FromFile(f), NotFound("Canonicalization error"),
                           NotFound("File not found")}

(* What a client makes of an answer that ended: nothing, if the head or the*)
(* body it announces is not complete.                                      *)
Incomplete == [status |-> "none"]
ReadAnswer(text) ==
  LET ends == {i \in 1 .. Len(text) - 3 :
                 /\ text[i + 3] = "\n"
                 /\ SubSeq(text, i, i + 2) = CRLF \o <<"\r">>}
      head == {i \in 1 .. Min(ends) + 1 : text[i] = "\n"}
      field(i) == [name |-> text[i + 1],
                   value |-> SubSeq(text, i + 4,
                                    Min({j \in head : j > i}) - 2)]
      fields == {field(i) : i \in head \ {Max(head)}}
      rest == From(text, Min(ends) + 4)
  IN  IF \/ ends = {}
         \/ [name |-> "Content-Length", value |-> Decimal[Len(rest)]]
              \notin fields
      THEN Incomplete
      ELSE [status |-> text[3], fields |-> fields, body |-> rest]

(* A client reads back the status, the header fields and the body that the *)
(* handler returned, whatever is in them; when the one write of on_http    *)
(* took only a part, the client sees that the answer is not complete.      *)
AnswerIsReadBack ==
  stage = "done" =>
    LET got == ReadAnswer(wire)
    IN  IF wire # Render(response) THEN got = Incomplete
        ELSE /\ got # Incomplete
             /\ got.status = response.status /\ got.body = response.body
             /\ \A key \in DOMAIN response.headers :
                  [name |-> key, value |-> response.headers[key]]
                    \in got.fields
=============================================================================
