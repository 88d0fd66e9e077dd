------------------------------- MODULE MCHttp -------------------------------
(***************************************************************************)
(* Paths over the directory separator, "..", the name of the base, and the *)
(* names of files and routes; queries, headers and bodies that are hard to *)
(* cut; a sibling of the base whose name begins like it.                   *)
(***************************************************************************)
EXTENDS Http

MCToken == STRING
MCMethod == {"GET", "POST", "PUT", "DELETE", "PATCH", "HEAD", "OPTIONS"}
MCLowerCase ==
  "Upgrade" :> "upgrade" @@ "Key" :> "sec-websocket-key" @@ ".HTML" :> ".html"
MCExtension == "index.html" :> ".HTML"
Route(verb, route, returns, prefix) ==
  [verb |-> verb, route |-> route,
   handler |-> [returns |-> returns, prefix |-> prefix]]
MCRegistered ==
  <<Route("get", <<"/">>, "file", <<"/">>),
    Route("get", <<"/", "a">>, "file", <<"/">>),
    Route("get", <<"/", "b">>, "file", <<"/", "a">>),
    Route("get", <<"/", "a">>, "file", <<"/", "a">>),
    Route("post", <<"/", "c">>, "text", <<>>),
    Route("put", <<"/", "j">>, "json", <<>>),
    Route("del", <<"/", "h">>, "html", <<>>),
    Route("patch", <<"/", "r">>, "redirect", <<>>)>>
MCBase == <<<<"srv">>, <<"a">>>>
MCFile ==
  {MCBase \o <<<<"index.html">>>>, MCBase \o <<<<"a">>, <<"b">>>>,
   <<<<"srv">>, <<"b">>>>, <<<<"srv">>, <<"a", "a">>, <<"b">>>>, <<<<"b">>>>}

Bare(method, path) ==
  [lead |-> <<>>, method |-> method, path |-> path, query |-> <<>>,
   headers |-> <<>>, body |-> <<>>]
MCComponent == {<<>>, <<".">>, <<"..">>, <<"a">>, <<"b">>, <<"a", "a">>}
MCPaths ==
  {<<"/">> \o Join(c, "/") : c \in UNION {[1 .. n -> MCComponent] : n \in 0 .. 3}}
    \cup {<<"/", "index.html">>, <<"/", "a", "/", "index.html">>,
          <<"/", "a", "/", "/", "b">>}
MCQuery ==
  {<<"k">>, <<"k", "=">>, <<"k", "=", "v">>, <<"=", "v">>,
   <<"k", "=", "v", "=", "v">>, <<"j">>}
MCHeader ==
  {"Upgrade", "upgrade", "Key"}
    \X {<<>>, <<"websocket">>, <<"x", ":", " ", "x">>}
Upto(S, n) == UNION {[1 .. k -> S] : k \in 0 .. n}

MCMeant ==
  {Bare("GET", p) : p \in MCPaths}
  \cup {[Bare(m, <<"/", "a">>) EXCEPT !.lead = l] :
          m \in MCMethod \cup {"BREW"}, l \in {<<>>, <<"\n">>, <<"\r", "\n">>}}
  \cup {[Bare("GET", <<"/", "b">>) EXCEPT !.query = q] : q \in Upto(MCQuery, 3)}
  \cup {[Bare("POST", <<"/", "c">>) EXCEPT !.headers = h] :
          h \in Upto(MCHeader, 2)}
  \cup {[Bare(t[1], t[2]) EXCEPT !.body = b] :
          t \in {<<"POST", <<"/", "c">>>>, <<"PUT", <<"/", "j">>>>,
                 <<"DELETE", <<"/", "h">>>>, <<"PATCH", <<"/", "r", "/", "x">>>>},
          b \in Upto({"x", "\r", "\n"}, 3)}
  \cup {[Bare("PUT", <<"/", "j">>) EXCEPT !.body = [i \in 1 .. n |-> "x"]] :
          n \in 9 .. 11}
=============================================================================
