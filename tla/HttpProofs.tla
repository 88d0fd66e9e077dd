----------------------------- MODULE HttpProofs -----------------------------
(***************************************************************************)
(* Proofs about Http for all requests, routes, bases and files.            *)
(***************************************************************************)
EXTENDS HttpTextProofs

-----------------------------------------------------------------------------
(* Static files. *)

(* What a path that begins like the base and names a file is.              *)
LEMMA FilesLieBelow ==
  ASSUME NEW p \in File, Agrees(p)
  PROVE  IsStrictPrefix(Base, p)
<1>1. p \in Seq(Name) /\ Base \in Seq(Name) /\ ~IsPrefix(p, Base)
  BY HttpAssumption
<1>2. /\ DOMAIN p = 1 .. Len(p) /\ Len(p) \in Nat
      /\ DOMAIN Base = 1 .. Len(Base) /\ Len(Base) \in Nat
  BY <1>1
<1>3. Len(Base) <= Len(p)
  <2>1. SUFFICES ASSUME Len(p) < Len(Base) PROVE FALSE
    BY <1>2
  <2>2. SubSeq(p, 1, Len(p)) = SubSeq(Base, 1, Len(p))
    BY <1>1, <1>2, <2>1 DEF Agrees
  <2> QED
    BY <1>1, <1>2, <2>1, <2>2 DEF IsPrefix
<1>4. SubSeq(Base, 1, Len(Base)) = SubSeq(p, 1, Len(Base))
  BY <1>1, <1>2, <1>3 DEF Agrees
<1>5. IsPrefix(Base, p)
  BY <1>3, <1>4 DEF IsPrefix
<1>6. p # Base
  BY <1>1, <1>5
<1> QED
  BY <1>5, <1>6 DEF IsStrictPrefix

(* A response is a record with a status and where its body is from.        *)
IsResponse(res, file) ==
  /\ res # <<>> /\ "file" \in DOMAIN res /\ "headers" \in DOMAIN res
  /\ res.file = file

(* A header field changes neither.                                           *)
LEMMA SetHeaderResponse ==
  ASSUME NEW res, NEW file, IsResponse(res, file), NEW key, NEW value
  PROVE  IsResponse(SetHeader(res, key, value), file)
<1> DEFINE set == SetHeader(res, key, value)
<1>1. DOMAIN set = DOMAIN res /\ set.file = res.file
  BY DEF SetHeader, IsResponse
<1>2. DOMAIN <<>> = {}
  OBVIOUS
<1> QED
  BY <1>1, <1>2 DEF IsResponse

(* A record written out is a response.                                       *)
LEMMA RecordResponse ==
  ASSUME NEW version, NEW status, NEW text, NEW headers, NEW body
  PROVE  IsResponse([version |-> version, status |-> status, text |-> text,
                     headers |-> headers, body |-> body, file |-> <<>>],
                    <<>>)
<1>1. DOMAIN <<>> = {}
  OBVIOUS
<1> QED
  BY <1>1 DEF IsResponse

(* The ready-made responses are from no file.                                *)
LEMMA PlainResponse ==
  ASSUME NEW status, NEW text, NEW type, NEW body
  PROVE  IsResponse(Plain(status, text, type, body), <<>>)
<1> DEFINE res == [version |-> "HTTP/1.1", status |-> status, text |-> text,
                   headers |-> <<>>, body |-> body, file |-> <<>>]
<1>1. IsResponse(res, <<>>)
  BY RecordResponse
<1> HIDE DEF res
<1>2. IsResponse(SetHeader(res, "Content-Type", <<type>>), <<>>)
  BY <1>1, SetHeaderResponse
<1> QED
  BY <1>2 DEF Plain, res

(* A file is served by FromFile only, so ServeStatic serves none that does *)
(* not begin like the base.                                                *)
MayServe(res) ==
  \/ IsResponse(res, <<>>)
  \/ \E f \in File : Agrees(f) /\ IsResponse(res, f)

(* What ServeStatic returns.                                                 *)
LEMMA ServeStaticServes ==
  ASSUME NEW path, NEW prefix, NEW res \in ServeStatic(path, prefix)
  PROVE  MayServe(res)
<1>1. ASSUME NEW message PROVE IsResponse(NotFound(message), <<>>)
  BY PlainResponse DEF NotFound
<1>2. ASSUME NEW f \in File, Agrees(f)
      PROVE  IsResponse(FromFile(f), f)
  <2> DEFINE res0 == Plain("200", "OK", DetectMime(Last(f)), FlattenSeq(f))
  <2>1. IsResponse(res0, <<>>)
    BY PlainResponse
  <2> HIDE DEF res0
  <2>2. IsResponse([res0 EXCEPT !.file = f], f)
    <3>1. DOMAIN <<>> = {}
      OBVIOUS
    <3> QED
      BY <2>1, <3>1 DEF IsResponse
  <2> QED
    BY <2>2 DEF FromFile, res0
<1> DEFINE normalized == Normalized(path, prefix)
<1>3. CASE ~IsPrefix(prefix, path)
  <2>1. res = NotFound("Invalid static path")
    BY <1>3 DEF ServeStatic
  <2> QED
    BY <2>1, <1>1 DEF MayServe
<1>4. CASE IsPrefix(prefix, path) /\ ~Agrees(normalized)
  <2>1. res \in {NotFound("Canonicalization error"), NotFound("Access denied")}
    BY <1>4 DEF ServeStatic
  <2> QED
    BY <2>1, <1>1 DEF MayServe
<1>5. CASE IsPrefix(prefix, path) /\ Agrees(normalized)
  <2>1. \/ res \in {NotFound("Canonicalization error"),
                    NotFound("File not found")}
        \/ normalized \in File /\ res = FromFile(normalized)
    BY <1>5 DEF ServeStatic
  <2> QED
    BY <2>1, <1>1, <1>2, <1>5 DEF MayServe
<1> QED
  BY <1>3, <1>4, <1>5

(* The same for whatever a handler returns.                                *)
LEMMA HandlersServe ==
  ASSUME NEW handler, NEW res \in Results(handler)
  PROVE  MayServe(res)
<1>1. CASE handler.returns = "file"
  BY <1>1, ServeStaticServes DEF Results
<1>2. CASE handler.returns = "text"
  <2>1. res = TextResponse(<<"Received:", "\n">> \o req.body, "200")
    BY <1>2 DEF Results
  <2> QED
    BY <2>1, PlainResponse DEF TextResponse, MayServe
<1>3. CASE handler.returns = "json"
  <2>1. res = Json(req.body, "201")
    BY <1>3 DEF Results
  <2> QED
    BY <2>1, PlainResponse DEF Json, MayServe
<1>4. CASE handler.returns = "html"
  <2>1. res = Html(req.body, "200")
    BY <1>4 DEF Results
  <2> QED
    BY <2>1, PlainResponse DEF Html, MayServe
<1>5. CASE handler.returns \notin {"file", "text", "json", "html"}
  <2>1. PICK b \in BOOLEAN : res = Redirect(req.path, b)
    BY <1>5 DEF Results
  <2> QED
    BY <2>1, PlainResponse, SetHeaderResponse DEF Redirect, MayServe
<1> QED
  BY <1>1, <1>2, <1>3, <1>4, <1>5

(* One step of the fold in Canonical.                                      *)
CanonicalNext(acc, c) == CASE c = <<".">> -> acc
                           [] c = <<"..">> /\ acc = <<>> -> acc
                           [] c = <<"..">> /\ acc # <<>> -> Front(acc)
                           [] OTHER -> Append(acc, c)

(* A path of names is canonical.                                           *)
LEMMA NamesAreCanonical ==
  ASSUME NEW p \in Seq(Name)
  PROVE  Canonical(p) = p
<1> DEFINE N == Len(p)
           B == Seq(Name)
           op == [q \in B \X Name |-> Append(q[1], q[2])]
           Rec(f) == [S \in SUBSET (DOMAIN p) |->
                        IF S = {} THEN <<>>
                        ELSE CanonicalNext(f[S \ {Max(S)}], p[Max(S)])]
<1>1. /\ N \in Nat /\ DOMAIN p = 1 .. N /\ \A i \in 1 .. N : p[i] \in Name
  OBVIOUS
<1>2. ASSUME NEW acc, NEW c \in Name
      PROVE  CanonicalNext(acc, c) = Append(acc, c)
  <2>1. c # <<".">> /\ c # <<"..">>
    BY DEF Name
  <2> QED
    BY <2>1, Zenon DEF CanonicalNext
<1>3. Canonical(p) = (CHOOSE f : f = Rec(f))[DOMAIN p]
  BY Zenon DEF Canonical, FoldLeft, MapThenFoldSet, CanonicalNext
<1> DEFINE g == CHOOSE f : f = Rec(f)
<1>4. g = Rec(g)
  <2>1. PICK f \in [SUBSET (1 .. N) -> B] : IsFold(f, op, <<>>, p, N)
    <3>1. op \in [B \X Name -> B] /\ <<>> \in B
      OBVIOUS
    <3> QED
      BY <3>1, FoldExists
  <2>2. ASSUME NEW S \in SUBSET (DOMAIN p)
        PROVE  f[S] = IF S = {} THEN <<>>
                      ELSE CanonicalNext(f[S \ {Max(S)}], p[Max(S)])
    <3>1. CASE S = {}
      BY <1>1, <2>1, <3>1 DEF IsFold
    <3>2. CASE S # {}
      <4>1. f[S] = op[<<f[S \ {Max(S)}], p[Max(S)]>>]
        BY <1>1, <2>1, <3>2 DEF IsFold
      <4>2. f[S \ {Max(S)}] \in B
        BY <1>1
      <4>3. Max(S) \in 1 .. N
        BY <1>1, <3>2, MaxOfIndices
      <4>4. p[Max(S)] \in Name
        BY <1>1, <4>3
      <4>5. op[<<f[S \ {Max(S)}], p[Max(S)]>>]
              = Append(f[S \ {Max(S)}], p[Max(S)])
        BY <4>2, <4>4
      <4> QED
        BY <1>2, <3>2, <4>1, <4>4, <4>5, Zenon
    <3> QED
      BY <3>1, <3>2
  <2>3. f = Rec(f)
    BY <1>1, <2>2
  <2> QED
    BY <2>3, Zenon
<1> HIDE DEF g
<1>5. g[{}] = <<>>
  BY <1>4, Zenon
<1> DEFINE K == {n \in 0 .. N : g[1 .. n] = SubSeq(p, 1, n)}
<1>6. 0 \in K
  <2>1. 1 .. 0 = {} /\ SubSeq(p, 1, 0) = <<>> /\ 0 \in 0 .. N
    BY <1>1
  <2> QED
    BY <1>5, <2>1
<1>7. ASSUME NEW n \in 1 .. N, n - 1 \in K PROVE n \in K
  <2>1. /\ 1 .. n \in SUBSET (1 .. N) /\ 1 .. n # {}
        /\ Max(1 .. n) = n /\ (1 .. n) \ {n} = 1 .. n - 1
    BY <1>1, IndexSets, Zenon
  <2>2. g[1 .. n] = Rec(g)[1 .. n]
    BY <1>4, Zenon
  <2>3. g[1 .. n] = CanonicalNext(g[(1 .. n) \ {Max(1 .. n)}],
                                  p[Max(1 .. n)])
    BY <1>1, <2>1, <2>2
  <2>4. g[1 .. n] = Append(g[1 .. n - 1], p[n])
    BY <1>1, <1>2, <2>1, <2>3, Zenon
  <2>5. g[1 .. n - 1] = SubSeq(p, 1, n - 1)
    BY <1>7
  <2>6. Append(SubSeq(p, 1, n - 1), p[n]) = SubSeq(p, 1, n)
    BY <1>1
  <2>7. n \in 0 .. N
    BY <1>1
  <2> QED
    BY <2>4, <2>5, <2>6, <2>7
<1> HIDE DEF K
<1>8. \A n \in 0 .. N : n \in K
  BY <1>1, <1>6, <1>7, SetInduction
<1>9. N \in K
  BY <1>1, <1>8
<1>10. g[1 .. N] = p
  <2>1. SubSeq(p, 1, N) = p
    OBVIOUS
  <2> QED
    BY <1>9, <2>1 DEF K
<1> QED
  BY <1>1, <1>3, <1>10, Zenon DEF g

(* The path of a file below the base goes on with names.                   *)
LEMMA RestOfFile ==
  ASSUME NEW f \in File, IsPrefix(Base, f)
  PROVE  LET rest == From(f, Len(Base) + 1)
         IN  /\ rest \in Parts(Token, "/") /\ rest # <<>>
             /\ Base \o rest = f /\ Agrees(f) /\ f \in Seq(Name)
<1> DEFINE rest == From(f, Len(Base) + 1)
           B == Len(Base)
           L == Len(f)
<1>1. f \in Seq(Name) /\ Base \in Seq(Name) /\ ~IsPrefix(f, Base)
  BY HttpAssumption
<1>2. /\ L \in Nat /\ B \in Nat /\ DOMAIN f = 1 .. L /\ DOMAIN Base = 1 .. B
      /\ \A i \in 1 .. L : f[i] \in Name
  BY <1>1
<1>3. B <= L /\ SubSeq(Base, 1, B) = SubSeq(f, 1, B)
  BY DEF IsPrefix
<1>4. \A i \in 1 .. B : Base[i] = f[i]
  <2>1. /\ \A i \in 1 .. B : SubSeq(Base, 1, B)[i] = Base[i]
        /\ \A i \in 1 .. B : SubSeq(f, 1, B)[i] = f[i]
    BY <1>1, <1>2, <1>3
  <2> QED
    BY <1>3, <2>1
<1>5. B < L
  <2>0. B <= L
    BY <1>3
  <2>1. SUFFICES ASSUME B = L PROVE FALSE
    <3> HIDE DEF B, L
    <3> QED
      BY <1>2, <2>0
  <2>2. IsPrefix(f, Base)
    BY <1>3, <2>1 DEF IsPrefix
  <2> QED
    BY <1>1, <2>2
<1>6. /\ rest \in Seq(Name) /\ Len(rest) = L - B
      /\ \A i \in 1 .. L - B : rest[i] = f[B + i]
  <2>1. B + 1 \in 1 .. L /\ L \in Nat /\ L <= L
    <3> HIDE DEF B, L
    <3> QED
      BY <1>2, <1>5
  <2>2. rest = SubSeq(f, B + 1, L)
    BY DEF From
  <2> HIDE DEF B, rest
  <2>3. /\ SubSeq(f, B + 1, L) \in Seq(Name)
        /\ Len(SubSeq(f, B + 1, L)) = L - B
        /\ \A i \in 1 .. L - B : SubSeq(f, B + 1, L)[i] = f[B + i]
    BY <1>1, <1>2, <2>1
  <2> QED
    BY <2>2, <2>3
<1>7. rest # <<>>
  BY <1>2, <1>5, <1>6
<1>8. Base \o rest = f
  <2>1. /\ Base \o rest \in Seq(Name) /\ Len(Base \o rest) = L
        /\ \A i \in 1 .. B : (Base \o rest)[i] = Base[i]
        /\ \A i \in 1 .. L - B : (Base \o rest)[B + i] = rest[i]
    <3> HIDE DEF rest
    <3>1. IsConcat(Base \o rest, Base, rest, Name)
      BY <1>1, <1>6, Concatenation
    <3> QED
      BY <1>2, <1>6, <3>1 DEF IsConcat
  <2> DEFINE s == Base \o rest
  <2> HIDE DEF s, rest
  <2>2. ASSUME NEW i \in 1 .. L PROVE s[i] = f[i]
    <3>1. CASE i <= B
      BY <1>2, <1>4, <2>1, <3>1 DEF s
    <3>2. CASE ~(i <= B)
      <4>1. i - B \in 1 .. L - B /\ i = B + (i - B)
        BY <1>2, <3>2
      <4>2. s[B + (i - B)] = rest[i - B] /\ rest[i - B] = f[B + (i - B)]
        BY <1>6, <2>1, <4>1 DEF s
      <4> QED
        BY <4>1, <4>2
    <3> QED
      BY <3>1, <3>2
  <2>3. s \in Seq(Name) /\ Len(s) = L
    BY <2>1 DEF s
  <2>4. s = f
    BY <1>1, <2>2, <2>3
  <2> QED
    BY <2>4 DEF s
<1>9. Agrees(f)
  BY <1>2, <1>4 DEF Agrees
<1>10. rest \in Parts(Token, "/")
  <2>1. Name \subseteq Seq(Token \ {"/"}) \ {<<>>}
    BY Zenon DEF Name
  <2> DEFINE P == Seq(Token \ {"/"}) \ {<<>>}
  <2> HIDE DEF rest, P, Name
  <2>2. rest \in Seq(P)
    BY <1>6, <2>1 DEF P
  <2> QED
    BY <2>2 DEF P, Parts
<1> QED
  BY <1>1, <1>7, <1>8, <1>9, <1>10

(* The rest of a path after the prefix, without its first slash.           *)
LEMMA RelativeIs ==
  ASSUME NEW r \in Seq(Token), NEW j \in Seq(Token), Len(j) >= 1,
         j[1] # "/", NEW slash \in {<<>>, <<"/">>}
  PROVE  /\ IsPrefix(r, r \o slash \o j)
         /\ Relative(r \o slash \o j, r) = j
<1> DEFINE rest == slash \o j
           sep == "/"
<1>1. slash \in Seq(Token) /\ sep \in Token
  <2>1. sep \in Token
    BY HttpAssumption
  <2> HIDE DEF sep
  <2>2. <<sep>> \in Seq(Token) /\ <<>> \in Seq(Token)
    BY <2>1
  <2> QED
    BY <2>1, <2>2 DEF sep
<1>2. r \o slash \o j = r \o rest
  <2>1. Same3(r, slash, j)
    BY <1>1, Associative, Zenon
  <2> QED
    BY <2>1 DEF Same3
<1>3. /\ rest \in Seq(Token) /\ IsPrefix(r, r \o rest)
      /\ From(r \o rest, Len(r) + 1) = rest
  <2>1. rest \in Seq(Token)
    BY <1>1
  <2> HIDE DEF rest
  <2> QED
    BY <2>1, FromAfter, Zenon
<1>4. IF rest # <<>> /\ rest[1] = sep THEN Tail(rest) = j ELSE rest = j
  <2>1. j # <<>>
    OBVIOUS
  <2>2. CASE slash = <<>>
    <3>1. rest = j
      BY <2>2
    <3> QED
      BY <3>1
  <2>3. CASE slash = <<sep>>
    <3> HIDE DEF sep
    <3>1. <<sep>> \o j # <<>> /\ (<<sep>> \o j)[1] = sep
      BY <1>1
    <3>2. Tail(<<sep>> \o j) = j
      BY <1>1
    <3> QED
      BY <2>3, <3>1, <3>2
  <2> QED
    BY <2>2, <2>3
<1>5. j # <<>>
  OBVIOUS
<1> HIDE DEF rest
<1>6. Relative(r \o rest, r) = j
  <2> DEFINE all == r \o rest
             after == From(all, Len(r) + 1)
  <2>1. after = rest
    BY <1>3
  <2>2. Relative(all, r)
          = LET relative == IF after # <<>> /\ after[1] = sep THEN Tail(after)
                            ELSE after
            IN  IF relative = <<>> THEN <<"index.html">> ELSE relative
    BY Zenon DEF Relative
  <2> HIDE DEF after, sep, all
  <2>3. (IF after # <<>> /\ after[1] = sep THEN Tail(after) ELSE after) = j
    BY <1>4, <2>1, Zenon
  <2> QED
    BY <1>5, <2>2, <2>3, Zenon DEF all
<1> QED
  BY <1>2, <1>3, <1>6

(* Nothing after the prefix, or a slash, is index.html.                    *)
LEMMA RelativeIndex ==
  ASSUME NEW r \in Seq(Token), NEW slash \in {<<>>, <<"/">>},
         NEW path \in {r, r \o slash}
  PROVE  IsPrefix(r, path) /\ Relative(path, r) = <<"index.html">>
<1> DEFINE sep == "/"
<1>1. sep \in Token
  BY HttpAssumption
<1>2. \E rest \in {<<>>, <<sep>>} : path = r \o rest
  <2>1. r = r \o <<>>
    OBVIOUS
  <2> QED
    BY <2>1
<1>3. PICK rest \in {<<>>, <<sep>>} : path = r \o rest
  BY <1>2
<1>4. rest \in Seq(Token)
  <2> HIDE DEF sep
  <2>1. <<sep>> \in Seq(Token) /\ <<>> \in Seq(Token)
    BY <1>1
  <2> QED
    BY <2>1
<1>5. IsPrefix(r, path) /\ From(path, Len(r) + 1) = rest
  BY <1>3, <1>4, FromAfter
<1>6. IF rest # <<>> /\ rest[1] = sep THEN Tail(rest) = <<>> ELSE rest = <<>>
  <2> HIDE DEF sep
  <2>1. <<sep>>[1] = sep /\ <<sep>> # <<>> /\ Tail(<<sep>>) = <<>>
    OBVIOUS
  <2> QED
    BY <2>1
<1>7. Relative(path, r) = <<"index.html">>
  BY <1>5, <1>6, Zenon DEF Relative
<1> QED
  BY <1>5, <1>7

(* What ServeStatic returns for the URL of a file below the base.          *)
LEMMA FileIsServed ==
  ASSUME NEW f \in File, IsPrefix(Base, f), NEW r \in Seq(Token),
         NEW slash \in {<<>>, <<"/">>}, NEW path,
         LET rest == From(f, Len(Base) + 1)
         IN  \/ path = r \o slash \o Join(rest, "/")
             \/ rest = <<<<"index.html">>>> /\ path \in {r, r \o slash}
  PROVE  ServeStatic(path, r)
           \subseteq {FromFile(f), NotFound("Canonicalization error"),
                      NotFound("File not found")}
<1> DEFINE rest == From(f, Len(Base) + 1)
           j == Join(rest, "/")
           relative == Relative(path, r)
           requested == IF relative[1] = "/" THEN Components(relative)
                        ELSE Base \o Components(relative)
           normalized == Canonical(requested)
<1>1. /\ rest \in Parts(Token, "/") /\ rest # <<>>
      /\ Base \o rest = f /\ Agrees(f) /\ f \in Seq(Name)
  BY RestOfFile, Zenon
<1>2. "/" \in Token /\ "index.html" \in Token
  BY HttpAssumption
<1>3. /\ j \in Seq(Token) /\ Len(j) >= 1 /\ j[1] # "/"
      /\ Cut(j, {"/"}, 1) = rest
  <2> DEFINE sep == "/"
             s == Join(rest, sep)
  <2>1. sep \in Token /\ rest \in Parts(Token, sep) /\ rest # <<>>
    BY <1>1, <1>2
  <2> HIDE DEF rest, sep
  <2>2. s \in Seq(Token) /\ Len(s) >= 1 /\ s[1] # sep /\ Cut(s, {sep}, 1) = rest
    BY <2>1, JoinBegins
  <2> QED
    BY <2>2 DEF sep
<1>4. Components(j) = rest
  BY <1>3, Zenon DEF Components
<1>5. IsPrefix(r, path) /\ relative = j
  <2>1. CASE path = r \o slash \o Join(rest, "/")
    <3> HIDE DEF j
    <3>1. IsPrefix(r, r \o slash \o j) /\ Relative(r \o slash \o j, r) = j
      BY <1>3, RelativeIs, Zenon
    <3> QED
      BY <2>1, <3>1, Zenon DEF j
  <2>2. CASE rest = <<<<"index.html">>>> /\ path \in {r, r \o slash}
    <3> DEFINE index == "index.html"
    <3>1. IsPrefix(r, path) /\ Relative(path, r) = <<index>>
      BY <2>2, RelativeIndex, Zenon
    <3>2. rest = <<<<index>>>> /\ <<index>> \in Seq(Token)
      BY <1>2, <2>2, One, Zenon
    <3> HIDE DEF index, rest
    <3>3. Join(<<<<index>>>>, "/") = <<index>>
      BY <3>2, JoinOne, Zenon
    <3> QED
      BY <3>1, <3>2, <3>3, Zenon
  <2> QED
    BY <2>1, <2>2
<1> HIDE DEF rest, j
<1>6. requested = f
  BY <1>1, <1>3, <1>4, <1>5, Zenon
<1> HIDE DEF requested
<1>7. normalized = f
  BY <1>1, <1>6, NamesAreCanonical, Zenon
<1> HIDE DEF relative
<1>8. ServeStatic(path, r)
        = {NotFound("Canonicalization error"), NotFound("File not found")}
            \cup IF normalized \notin File \/ NamesDirectory(relative)
                 THEN {} ELSE {FromFile(normalized)}
  BY <1>1, <1>5, <1>7 DEF ServeStatic, Normalized, relative, requested
<1> QED
  BY <1>7, <1>8

-----------------------------------------------------------------------------
(* Routes. *)

(* An assignment to a key of a map.                                        *)
LEMMA PutTypes ==
  ASSUME NEW D, NEW C, NEW map \in [D -> C], NEW key, NEW value \in C
  PROVE  Put(map, key, value) \in [D \cup {key} -> C]
  BY DEF Put

(* The method and the route of a registration, and the maps there can be.  *)
MethodAt(i) == MethodOf[Registered[i].verb]
RouteAt(i) == Registered[i].route
AllRoutes == {RouteAt(i) : i \in DOMAIN Registered}
AllHandlers == {Registered[i].handler : i \in DOMAIN Registered}
Maps(K, V) == UNION {[D -> V] : D \in SUBSET K}
Tables == Maps(Method, Maps(AllRoutes, AllHandlers))

(* The empty map is one of them.                                           *)
LEMMA EmptyMap == ASSUME NEW K, NEW V PROVE <<>> \in Maps(K, V)
<1>1. <<>> \in [{} -> V]
  OBVIOUS
<1> QED
  BY <1>1 DEF Maps

(* An assignment makes one of them.                                        *)
LEMMA PutMaps ==
  ASSUME NEW K, NEW V, NEW map \in Maps(K, V), NEW key \in K, NEW value \in V
  PROVE  Put(map, key, value) \in Maps(K, V)
<1>1. PICK D \in SUBSET K : map \in [D -> V]
  BY DEF Maps
<1>2. Put(map, key, value) \in [D \cup {key} -> V] /\ D \cup {key} \in SUBSET K
  BY <1>1, PutTypes
<1> QED
  BY <1>2, Zenon DEF Maps

(* What they hold has its type.                                            *)
LEMMA EntryMaps ==
  ASSUME NEW K, NEW V, NEW map \in Maps(K, V), NEW key \in DOMAIN map
  PROVE  map[key] \in V
  BY DEF Maps

(* A registration has a known method, a route and a handler.               *)
LEMMA RegistrationIs ==
  ASSUME NEW i \in 1 .. Len(Registered)
  PROVE  /\ Registered[i] \in ToSet(Registered)
         /\ MethodAt(i) \in Method /\ RouteAt(i) \in AllRoutes
         /\ Registered[i].handler \in AllHandlers
<1>1. DOMAIN Registered = 1 .. Len(Registered)
  BY HttpAssumption
<1> QED
  BY <1>1, HttpAssumption
  DEF ToSet, MethodAt, RouteAt, AllRoutes, AllHandlers

(* So handle makes a table of a table.                                     *)
LEMMA HandleTypes ==
  ASSUME NEW handlers \in Tables, NEW r \in ToSet(Registered)
  PROVE  Handle(handlers, r) \in Tables
<1> DEFINE method == MethodOf[r.verb]
           others == IF method \in DOMAIN handlers THEN handlers[method]
                     ELSE <<>>
<1>1. PICK i \in 1 .. Len(Registered) : r = Registered[i]
  BY HttpAssumption DEF ToSet
<1>2. /\ method \in Method /\ r.route \in AllRoutes
      /\ r.handler \in AllHandlers
  BY <1>1, RegistrationIs DEF MethodAt, RouteAt
<1>3. others \in Maps(AllRoutes, AllHandlers)
  BY EmptyMap, EntryMaps DEF Tables
<1>4. Handle(handlers, r)
        = Put(handlers, method, Put(others, r.route, r.handler))
  BY DEF Handle
<1> HIDE DEF method, others
<1>5. Put(others, r.route, r.handler) \in Maps(AllRoutes, AllHandlers)
  BY <1>2, <1>3, PutMaps
<1> QED
  BY <1>2, <1>4, <1>5, PutMaps DEF Tables

(* Different calls register for different methods.                         *)
LEMMA MethodOfIsInjective ==
  ASSUME NEW v \in DOMAIN MethodOf, NEW w \in DOMAIN MethodOf,
         MethodOf[v] = MethodOf[w]
  PROVE  v = w
  BY DEF MethodOf

(* The maps after each registration.                                       *)
AreMaps(h) ==
  /\ h[0] = <<>>
  /\ \A n \in 1 .. Len(Registered) : h[n] = Handle(h[n - 1], Registered[n])
  /\ MethodHandlers = h[Len(Registered)]

(* There is a table after each registration.                               *)
LEMMA HandlersRun == \E h : AreMaps(h)
<1> DEFINE N == Len(Registered)
           T == ToSet(Registered)
           op == [p \in Tables \X T |-> Handle(p[1], p[2])]
           Rec(f) == [S \in SUBSET (DOMAIN Registered) |->
                        IF S = {} THEN <<>>
                        ELSE Handle(f[S \ {Max(S)}], Registered[Max(S)])]
<1>1. /\ Registered \in Seq(T) /\ N \in Nat /\ DOMAIN Registered = 1 .. N
      /\ \A i \in 1 .. N : Registered[i] \in T
  BY HttpAssumption DEF ToSet
<1>2. <<>> \in Tables
  BY EmptyMap DEF Tables
<1>3. op \in [Tables \X T -> Tables]
  BY HandleTypes
<1>4. MethodHandlers = (CHOOSE f : f = Rec(f))[DOMAIN Registered]
  BY Zenon DEF MethodHandlers, FoldLeft, MapThenFoldSet
<1> DEFINE g == CHOOSE f : f = Rec(f)
<1>5. g = Rec(g)
  <2>1. PICK f \in [SUBSET (1 .. N) -> Tables] :
          IsFold(f, op, <<>>, Registered, N)
    BY <1>1, <1>2, <1>3, FoldExists
  <2>2. ASSUME NEW S \in SUBSET (DOMAIN Registered)
        PROVE  f[S] = IF S = {} THEN <<>>
                      ELSE Handle(f[S \ {Max(S)}], Registered[Max(S)])
    <3>1. CASE S = {}
      BY <1>1, <2>1, <3>1 DEF IsFold
    <3>2. CASE S # {}
      <4>1. f[S] = op[<<f[S \ {Max(S)}], Registered[Max(S)]>>]
        BY <1>1, <2>1, <3>2 DEF IsFold
      <4>2. f[S \ {Max(S)}] \in Tables
        BY <1>1
      <4>3. Max(S) \in 1 .. N
        BY <1>1, <3>2, MaxOfIndices
      <4> QED
        BY <1>1, <3>2, <4>1, <4>2, <4>3
    <3> QED
      BY <3>1, <3>2
  <2>3. f = Rec(f)
    BY <1>1, <2>2
  <2> QED
    BY <2>3, Zenon
<1> HIDE DEF g
<1>6. g[{}] = <<>>
  BY <1>5, Zenon
<1>7. ASSUME NEW n \in 1 .. N
      PROVE  g[1 .. n] = Handle(g[1 .. n - 1], Registered[n])
  <2>1. /\ 1 .. n \in SUBSET (1 .. N) /\ 1 .. n # {}
        /\ Max(1 .. n) = n /\ (1 .. n) \ {n} = 1 .. n - 1
    BY <1>1, IndexSets, Zenon
  <2>2. g[1 .. n] = Rec(g)[1 .. n]
    BY <1>5, Zenon
  <2>3. g[1 .. n] = Handle(g[(1 .. n) \ {Max(1 .. n)}],
                           Registered[Max(1 .. n)])
    BY <1>1, <2>1, <2>2
  <2> QED
    BY <2>1, <2>3, Zenon
<1> DEFINE h == [n \in 0 .. N |-> g[1 .. n]]
<1>8. /\ 0 \in 0 .. N /\ N \in 0 .. N /\ 1 .. 0 = {}
      /\ \A n \in 1 .. N : n \in 0 .. N /\ n - 1 \in 0 .. N
  BY <1>1
<1>9. h[0] = <<>> /\ h[N] = g[1 .. N]
  BY <1>6, <1>8
<1>10. ASSUME NEW n \in 1 .. N
       PROVE  h[n] = Handle(h[n - 1], Registered[n])
  <2>1. h[n] = g[1 .. n] /\ h[n - 1] = g[1 .. n - 1]
    BY <1>8
  <2> QED
    BY <1>7, <2>1, Zenon
<1>11. MethodHandlers = h[N]
  BY <1>1, <1>4, <1>9, Zenon DEF g
<1> HIDE DEF h
<1>12. AreMaps(h)
  BY <1>9, <1>10, <1>11 DEF AreMaps
<1> QED
  BY <1>12

(* The registrations that count among the first n.                         *)
LastOf(i, n) ==
  \A j \in i + 1 .. n : MethodAt(j) # MethodAt(i) \/ RouteAt(j) # RouteAt(i)

(* What the map holds after n of them: each method and route that was      *)
(* registered, with the handler that was last.                             *)
Holds(map, n) ==
  /\ DOMAIN map = {MethodAt(i) : i \in 1 .. n}
  /\ \A m \in DOMAIN map :
       DOMAIN map[m] = {RouteAt(i) : i \in {i \in 1 .. n : MethodAt(i) = m}}
  /\ \A i \in 1 .. n : LastOf(i, n) =>
       map[MethodAt(i)][RouteAt(i)] = Registered[i].handler

(* A registration adds what it says, and takes away what it replaces.      *)
LEMMA HandleHolds ==
  ASSUME NEW n \in 1 .. Len(Registered), NEW map, Holds(map, n - 1)
  PROVE  Holds(Handle(map, Registered[n]), n)
<1> DEFINE method == MethodAt(n)
           route == RouteAt(n)
           handler == Registered[n].handler
           others == IF method \in DOMAIN map THEN map[method] ELSE <<>>
           table == Put(others, route, handler)
           new == Put(map, method, table)
<1>1. Handle(map, Registered[n]) = new
  BY DEF Handle, MethodAt, RouteAt
<1>2. /\ n \in 1 .. n /\ n \in Nat
      /\ \A i \in 1 .. n : i # n => i \in 1 .. n - 1
      /\ \A i \in 1 .. n - 1 : i \in 1 .. n /\ i # n /\ i \in Nat
                               /\ n \in i + 1 .. n
                               /\ \A j \in i + 1 .. n - 1 : j \in i + 1 .. n
  BY HttpAssumption
<1>3. DOMAIN others
        = {RouteAt(i) : i \in {i \in 1 .. n - 1 : MethodAt(i) = method}}
  <2>1. CASE method \in DOMAIN map
    BY <2>1 DEF Holds
  <2>2. CASE method \notin DOMAIN map
    <3>1. \A i \in 1 .. n - 1 : MethodAt(i) # method
      BY <2>2 DEF Holds
    <3>2. DOMAIN others = {}
      BY <2>2
    <3> QED
      BY <3>1, <3>2
  <2> QED
    BY <2>1, <2>2
<1> HIDE DEF others, method, route, handler
<1>4. /\ DOMAIN table = DOMAIN others \cup {route} /\ table[route] = handler
      /\ \A x \in DOMAIN others : x # route => table[x] = others[x]
  BY DEF Put
<1> HIDE DEF table
<1>5. /\ DOMAIN new = DOMAIN map \cup {method} /\ new[method] = table
      /\ \A m \in DOMAIN map : m # method => new[m] = map[m]
  BY DEF Put
<1> HIDE DEF new
<1>6. DOMAIN new = {MethodAt(i) : i \in 1 .. n}
  BY <1>2, <1>5 DEF Holds, method
<1>7. ASSUME NEW m \in DOMAIN new
      PROVE  DOMAIN new[m]
               = {RouteAt(i) : i \in {i \in 1 .. n : MethodAt(i) = m}}
  <2>1. CASE m = method
    BY <1>2, <1>5, <1>4, <1>3, <2>1 DEF method, route
  <2>2. CASE m # method
    <3>1. m \in DOMAIN map /\ new[m] = map[m]
      BY <1>5, <2>2
    <3>2. DOMAIN map[m]
            = {RouteAt(i) : i \in {i \in 1 .. n - 1 : MethodAt(i) = m}}
      BY <3>1 DEF Holds
    <3>3. {i \in 1 .. n - 1 : MethodAt(i) = m}
            = {i \in 1 .. n : MethodAt(i) = m}
      BY <1>2, <2>2 DEF method
    <3> QED
      BY <3>1, <3>2, <3>3, Zenon
  <2> QED
    BY <2>1, <2>2
<1>8. ASSUME NEW i \in 1 .. n, LastOf(i, n)
      PROVE  new[MethodAt(i)][RouteAt(i)] = Registered[i].handler
  <2>1. CASE i = n
    BY <1>5, <1>4, <2>1 DEF method, route, handler
  <2>2. CASE i # n
    <3>1. /\ i \in 1 .. n - 1 /\ LastOf(i, n - 1)
          /\ MethodAt(i) # method \/ RouteAt(i) # route
      BY <1>2, <1>8, <2>2 DEF LastOf, method, route
    <3>2. map[MethodAt(i)][RouteAt(i)] = Registered[i].handler
      BY <3>1 DEF Holds
    <3>3. MethodAt(i) \in DOMAIN map
      BY <3>1 DEF Holds
    <3>4. CASE MethodAt(i) # method
      BY <1>5, <3>2, <3>3, <3>4
    <3>5. CASE MethodAt(i) = method
      <4>1. RouteAt(i) # route
        BY <3>1, <3>5
      <4>2. RouteAt(i) \in DOMAIN others
        BY <1>3, <3>1, <3>5
      <4>3. others = map[method]
        BY <3>3, <3>5 DEF others
      <4>4. table[RouteAt(i)] = others[RouteAt(i)]
        BY <1>4, <4>1, <4>2
      <4> QED
        BY <1>5, <3>2, <3>5, <4>3, <4>4
    <3> QED
      BY <3>4, <3>5
  <2> QED
    BY <2>1, <2>2
<1>9. Holds(new, n)
  BY <1>6, <1>7, <1>8 DEF Holds
<1> QED
  BY <1>1, <1>9 DEF new, table, others, method, route, handler

(* So the server has each method and route with the last handler.          *)
LEMMA MethodHandlersHold == Holds(MethodHandlers, Len(Registered))
<1> DEFINE N == Len(Registered)
<1>1. N \in Nat
  BY HttpAssumption
<1>2. PICK h : AreMaps(h)
  BY HandlersRun
<1> DEFINE K == {n \in 0 .. N : Holds(h[n], n)}
<1>3. 0 \in K
  <2>1. DOMAIN <<>> = {} /\ 1 .. 0 = {}
    OBVIOUS
  <2>2. Holds(<<>>, 0)
    BY <2>1 DEF Holds
  <2> QED
    BY <1>1, <1>2, <2>2 DEF AreMaps
<1>4. ASSUME NEW n \in 1 .. N, n - 1 \in K PROVE n \in K
  <2>1. Holds(h[n - 1], n - 1)
    BY <1>4
  <2>2. Holds(h[n], n)
    BY <1>2, <2>1, HandleHolds DEF AreMaps
  <2>3. n \in 0 .. N
    BY <1>1
  <2> QED
    BY <2>2, <2>3
<1> HIDE DEF K
<1>5. \A n \in 0 .. N : n \in K
  BY <1>1, <1>3, <1>4, SetInduction
<1>6. N \in K
  BY <1>1, <1>5
<1> QED
  BY <1>2, <1>6 DEF K, AreMaps

(* The current registrations are those that no later one replaces.         *)
LEMMA CurrentAre ==
  ASSUME NEW method
  PROVE  Current(method)
           = {Registered[i] : i \in {i \in 1 .. Len(Registered) :
                MethodAt(i) = method /\ LastOf(i, Len(Registered))}}
<1> DEFINE N == Len(Registered)
<1>1. DOMAIN Registered = 1 .. N /\ N \in Nat
  BY HttpAssumption
<1>2. ASSUME NEW i \in 1 .. N, NEW j \in i + 1 .. N
      PROVE  /\ MethodAt(j) # MethodAt(i)
                  <=> Registered[j].verb # Registered[i].verb
             /\ RouteAt(j) = Registered[j].route
             /\ RouteAt(i) = Registered[i].route
  <2>1. j \in 1 .. N
    BY <1>1
  <2>2. /\ Registered[i].verb \in DOMAIN MethodOf
        /\ Registered[j].verb \in DOMAIN MethodOf
    BY <1>1, <2>1, HttpAssumption
  <2> QED
    BY <2>2, MethodOfIsInjective DEF MethodAt, RouteAt
<1>3. ASSUME NEW i \in 1 .. N
      PROVE  LastOf(i, N)
               <=> \A j \in i + 1 .. N :
                     \/ Registered[j].verb # Registered[i].verb
                     \/ Registered[j].route # Registered[i].route
  BY <1>2 DEF LastOf
<1> QED
  BY <1>1, <1>3 DEF Current, MethodAt

(* The routes of a method are those of the current registrations, and each *)
(* has the handler of its own.                                             *)
LEMMA RoutesAreCurrent ==
  ASSUME NEW method
  PROVE  /\ \A r \in Current(method) :
              /\ r.route \in RoutesOf(method)
              /\ Handlers(method)[r.route] = r.handler
         /\ \A x \in RoutesOf(method) :
              \E r \in Current(method) : r.route = x
<1> DEFINE N == Len(Registered)
<1>1. N \in Nat
  BY HttpAssumption
<1>2. Holds(MethodHandlers, N)
  BY MethodHandlersHold
<1>3. ASSUME NEW r \in Current(method)
      PROVE  /\ r.route \in RoutesOf(method)
             /\ Handlers(method)[r.route] = r.handler
  <2>1. PICK i \in 1 .. N : /\ r = Registered[i] /\ MethodAt(i) = method
                            /\ LastOf(i, N)
    BY CurrentAre
  <2>2. method \in DOMAIN MethodHandlers
    BY <1>2, <2>1 DEF Holds
  <2>3. r.route \in DOMAIN MethodHandlers[method]
    BY <1>2, <2>1, <2>2 DEF Holds, RouteAt
  <2>4. MethodHandlers[method][r.route] = r.handler
    BY <1>2, <2>1 DEF Holds, RouteAt
  <2> QED
    BY <2>2, <2>3, <2>4 DEF RoutesOf, Handlers
<1>4. ASSUME NEW x \in RoutesOf(method)
      PROVE  \E r \in Current(method) : r.route = x
  <2>1. method \in DOMAIN MethodHandlers /\ x \in DOMAIN MethodHandlers[method]
    <3>1. DOMAIN <<>> = {}
      OBVIOUS
    <3> QED
      BY <3>1 DEF RoutesOf, Handlers
  <2> DEFINE Same == {i \in 1 .. N : MethodAt(i) = method /\ RouteAt(i) = x}
  <2>2. Same # {}
    BY <1>2, <2>1 DEF Holds
  <2>3. Same \in SUBSET (1 .. N)
    OBVIOUS
  <2>4. Max(Same) \in Same /\ \A j \in Same : j <= Max(Same)
    BY <1>1, <2>2, <2>3, MaxOfIndices
  <2> DEFINE i == Max(Same)
  <2> HIDE DEF i
  <2>5. i \in 1 .. N /\ MethodAt(i) = method /\ RouteAt(i) = x
    BY <2>4 DEF i
  <2>6. ASSUME NEW j \in i + 1 .. N
        PROVE  MethodAt(j) # MethodAt(i) \/ RouteAt(j) # RouteAt(i)
    <3>1. j \in 1 .. N /\ ~ (j <= i)
      BY <1>1, <2>5
    <3>2. j \notin Same
      BY <2>4, <3>1 DEF i
    <3> QED
      BY <2>5, <3>1, <3>2
  <2>7. LastOf(i, N)
    BY <2>6 DEF LastOf
  <2>8. Registered[i] \in Current(method) /\ Registered[i].route = x
    BY <2>5, <2>7, CurrentAre DEF RouteAt
  <2> QED
    BY <2>8
<1> QED
  BY <1>3, <1>4

(* A method that parse_http_method does not know has no routes.            *)
LEMMA UnknownHasNone ==
  ASSUME NEW method, method \notin Method
  PROVE  Current(method) = {}
<1>1. \A i \in 1 .. Len(Registered) : MethodAt(i) # method
  BY RegistrationIs
<1> QED
  BY <1>1, CurrentAre

(* No path is routed without routes, and only along one that fits it.      *)
LEMMA CandidatesFit ==
  ASSUME NEW method, NEW path, path \in Seq(Token)
  PROVE  LET fitting == {r \in Current(method) : IsPrefix(r.route, path)}
         IN  /\ Candidates(method, path) = {} <=> fitting = {}
             /\ \A x \in Candidates(method, path) :
                  /\ \E r \in fitting : /\ x = r.route
                                        /\ Handlers(method)[x] = r.handler
                  /\ \A r \in fitting : r.route = path => x = path
<1> DEFINE fitting == {r \in Current(method) : IsPrefix(r.route, path)}
<1>1. IsPrefix(path, path)
  BY DEF IsPrefix
<1>2. ASSUME NEW r \in fitting
      PROVE  /\ r.route # <<>> /\ r.route \in RoutesOf(method)
             /\ IsPrefix(r.route, path)
  <2>1. PICK i \in 1 .. Len(Registered) : r = Registered[i]
    BY CurrentAre
  <2>2. r.route # <<>>
    BY <2>1, HttpAssumption
  <2> QED
    BY <2>2, RoutesAreCurrent
<1>3. ASSUME NEW x \in Candidates(method, path)
      PROVE  \E r \in fitting : /\ x = r.route
                                /\ Handlers(method)[x] = r.handler
  <2>1. x \in RoutesOf(method) /\ IsPrefix(x, path)
    BY <1>1 DEF Candidates
  <2>2. PICK r \in Current(method) : r.route = x
    BY <2>1, RoutesAreCurrent
  <2> QED
    BY <2>1, <2>2, RoutesAreCurrent
<1>4. ASSUME NEW r \in fitting PROVE Candidates(method, path) # {}
  BY <1>2 DEF Candidates
<1>5. ASSUME NEW x \in Candidates(method, path), NEW r \in fitting,
             r.route = path
      PROVE  x = path
  BY <1>2, <1>5 DEF Candidates
<1> QED
  BY <1>3, <1>4, <1>5

(* An empty path has no route.                                             *)
LEMMA NothingRoutes ==
  ASSUME NEW method
  PROVE  Candidates(method, <<>>) = {}
<1>1. SUFFICES ASSUME NEW x \in Candidates(method, <<>>) PROVE FALSE
  OBVIOUS
<1>2. x \in RoutesOf(method) /\ Len(x) <= 0
  <2>1. Len(<<>>) = 0
    OBVIOUS
  <2> QED
    BY <2>1 DEF Candidates, IsPrefix
<1>3. PICK r \in Current(method) : r.route = x
  BY <1>2, RoutesAreCurrent
<1>4. PICK i \in 1 .. Len(Registered) : r = Registered[i]
  BY CurrentAre
<1>5. x \in Seq(Token) /\ x # <<>>
  BY <1>3, <1>4, HttpAssumption
<1> QED
  BY <1>2, <1>5

-----------------------------------------------------------------------------
(* The invariant. *)

(* A request that is parsed has a method of its own or none.               *)
LEMMA ParsedMethod ==
  ASSUME NEW text, NEW r \in Parsed(text)
  PROVE  r.method \in Method \cup {"UNKNOWN"}
<1>1. \/ \E m \in Method \cup {"UNKNOWN"} :
           r = Request(m, <<>>, <<>>, <<>>, <<>>)
      \/ \E word, path, params, headers, body :
           r = Request(ParseMethod(word), path, params, headers, body)
  BY DEF Parsed
<1>2. \A word : ParseMethod(word) \in Method \cup {"UNKNOWN"}
  BY DEF ParseMethod
<1> QED
  BY <1>1, <1>2 DEF Request

(* What is written is a request line, or an empty line before one.         *)
LEMMA StreamIsText ==
  ASSUME Dispatches, stage = "read"
  PROVE  /\ meant \in Meant
         /\ meant.lead = <<>> => BeginsAsMeant(stream, meant)
         /\ meant.lead = <<"\n">> =>
              stream \in Seq(Token) /\ Len(stream) \in Nat /\ stream[1] = "\n"
<1>1. /\ meant \in Meant
      /\ \E pad \in {<<>>, <<" ">>} : stream = Text(meant, pad)
  BY DEF Dispatches, WritesRequest
<1>2. <<>> \in Seq(Token) /\ <<" ">> \in Seq(Token)
  <2>1. <<>> \in Seq(Token)
    OBVIOUS
  <2>2. <<" ">> \in Seq(Token)
    BY TheTokens, One, Zenon
  <2> QED
    BY <2>1, <2>2
<1>3. PICK pad \in Seq(Token) : stream = Text(meant, pad)
  BY <1>1, <1>2, Zenon
<1>4. meant.lead = <<>> => BeginsAsMeant(stream, meant)
  BY <1>1, <1>3, StreamBegins
<1>5. ASSUME meant.lead = <<"\n">>
      PROVE  stream \in Seq(Token) /\ stream[1] = "\n"
  BY <1>1, <1>3, <1>5, StreamAfterLine
<1>6. ASSUME NEW s \in Seq(Token) PROVE Len(s) \in Nat
  OBVIOUS
<1> QED
  BY <1>1, <1>4, <1>5, <1>6, Zenon

(* A request after the read is the one that was written, or has no path.   *)
LEMMA ReadReadsRequest ==
  ASSUME Dispatches, Read
  PROVE  ReadsRequest'
<1>1. /\ stage = "read" /\ meant' = meant
      /\ \E n \in 1 .. Min({Len(stream), Limit}) :
           /\ req' \in Parsed(SubSeq(stream, 1, n))
           /\ whole' = (n = Len(stream))
  BY Zenon DEF Read
<1>2. PICK n \in 1 .. Min({Len(stream), Limit}) :
        /\ req' \in Parsed(SubSeq(stream, 1, n))
        /\ whole' = (n = Len(stream))
  BY <1>1, Zenon
<1>3. meant \in Meant
  BY <1>1, StreamIsText
<1>4. ASSUME meant.lead = <<"\n">>
      PROVE  req'.path = <<>>
  <2>1. stream \in Seq(Token) /\ Len(stream) \in Nat /\ stream[1] = "\n"
    BY <1>1, <1>4, StreamIsText
  <2>2. n \in 1 .. Len(stream)
    <3>1. Min({Len(stream), Limit}) \in {Len(stream), Limit}
          /\ Min({Len(stream), Limit}) <= Len(stream)
      BY <2>1, HttpAssumption, MinOfTwo
    <3> HIDE DEF Min
    <3> QED
      BY <2>1, <3>1, HttpAssumption
  <2> DEFINE s == SubSeq(stream, 1, n)
             lf == "\n"
  <2>3. s \in Seq(Token) /\ Len(s) >= 1 /\ s[1] = lf
    <3>1. stream[1] = lf
      BY <2>1
    <3> HIDE DEF lf
    <3>2. /\ s \in Seq(Token) /\ Len(s) = n /\ s[1] = stream[1]
      BY <2>1, <2>2
    <3> QED
      BY <2>1, <2>2, <3>1, <3>2
  <2> HIDE DEF s
  <2> QED
    BY <1>2, <2>3, ParsedLine DEF s
<1>5. ASSUME meant.lead = <<>>, whole'
      PROVE  /\ req'.path = meant.path
             /\ req'.method = ParseMethod(<<meant.method>>)
  <2>1. BeginsAsMeant(stream, meant)
    BY <1>1, <1>5, StreamIsText
  <2>2. stream \in Seq(Token)
    BY <2>1, Zenon DEF BeginsAsMeant, Begins
  <2>3. SubSeq(stream, 1, Len(stream)) = stream
    BY <2>2
  <2>4. req' \in Parsed(stream)
    BY <1>2, <1>5, <2>3, Zenon
  <2> QED
    BY <1>3, <2>1, <2>4, ParsedRequest
<1> QED
  BY <1>1, <1>4, <1>5 DEF ReadsRequest

(* Before the read there is neither a handler called nor a response.       *)
LEMMA InitDispatches == Init => Dispatches
<1> SUFFICES ASSUME Init PROVE Dispatches
  OBVIOUS
<1>0. calls = <<>> => Len(calls) <= 1
  OBVIOUS
<1>1. /\ stage = "read" /\ whole = FALSE /\ calls = <<>> /\ response = <<>>
      /\ meant \in Meant
      /\ \E pad \in {<<>>, <<" ">>} : stream = Text(meant, pad)
  BY DEF Init
<1>2. Len(calls) <= 1
  BY <1>0, <1>1
<1>3. meant.path \in Seq(Token)
  BY <1>1, PathIsText
<1> QED
  BY <1>1, <1>2, <1>3 DEF Dispatches, TypeOK, WritesRequest, ReadsRequest

(* What the invariant needs of an answer to a request.                     *)
LEMMA RespondServes ==
  ASSUME Dispatches, stage = "dispatch", NEW res, MayServe(res), Respond(res),
         Len(calls') <= 1
  PROVE  Dispatches'
<1>1. /\ stage' = "write" /\ response' = res
      /\ whole' = whole /\ req' = req /\ meant' = meant
  BY DEF Respond
<1>2. /\ response' # <<>>
      /\ response'.file # <<>> =>
           response'.file \in File /\ Agrees(response'.file)
  BY <1>1 DEF MayServe, IsResponse
<1>3. TypeOK'
  BY <1>1, <1>2 DEF Dispatches, TypeOK
<1>4. WritesRequest'
  BY <1>1 DEF WritesRequest
<1>5. ReadsRequest'
  BY <1>1 DEF Dispatches, ReadsRequest
<1> QED
  BY <1>1, <1>2, <1>3, <1>4, <1>5 DEF Dispatches, Agrees

(* The invariant is inductive.                                               *)
LEMMA NextDispatches ==
  ASSUME Dispatches, [Next]_vars
  PROVE  Dispatches'
<1>1. CASE Read
  <2>1. /\ stage = "read" /\ stage' = "dispatch" /\ whole' \in BOOLEAN
        /\ calls' = calls /\ response' = response
        /\ meant' = meant /\ \E text : req' \in Parsed(text)
    BY <1>1 DEF Read
  <2>2. req'.method \in Method \cup {"UNKNOWN"}
    BY <2>1, ParsedMethod
  <2>3. TypeOK'
    BY <2>1, <2>2 DEF Dispatches, TypeOK
  <2>4. WritesRequest' /\ ReadsRequest'
    BY <1>1, <2>1, ReadReadsRequest DEF WritesRequest
  <2> QED
    BY <2>1, <2>3, <2>4 DEF Dispatches, Agrees
<1>2. CASE RejectMethod
  <2>1. /\ stage = "dispatch" /\ calls' = calls
        /\ Respond(NotFound("Unknown HTTP method"))
    BY <1>2 DEF RejectMethod
  <2>2. MayServe(NotFound("Unknown HTTP method"))
    BY PlainResponse DEF NotFound, MayServe
  <2> QED
    BY <2>1, <2>2, RespondServes DEF Dispatches, TypeOK
<1>3. CASE Upgrade
  <2> DEFINE accept == AcceptHandshake(req.headers[<<"sec-websocket-key">>])
  <2>1. /\ stage = "dispatch" /\ calls' = calls
        /\ Respond(SwitchingProtocols(accept))
    BY <1>3 DEF Upgrade
  <2> HIDE DEF accept
  <2>2. MayServe(SwitchingProtocols(accept))
    <3>1. IsResponse(SwitchingProtocols(accept), <<>>)
      BY RecordResponse DEF SwitchingProtocols
    <3> QED
      BY <3>1 DEF MayServe
  <2> QED
    BY <2>1, <2>2, RespondServes DEF Dispatches, TypeOK
<1>4. CASE CallRoute
  <2>1. /\ stage = "dispatch"
        /\ \E call, handler : /\ calls' = Append(calls, call)
                              /\ \E res \in Results(handler) : Respond(res)
    BY <1>4 DEF CallRoute
  <2>2. PICK call, handler :
          /\ calls' = Append(calls, call)
          /\ \E res \in Results(handler) : Respond(res)
    BY <2>1
  <2>3. PICK res \in Results(handler) : Respond(res)
    BY <2>2
  <2>4. calls' = <<call>>
    BY <2>1, <2>2 DEF Dispatches
  <2>5. Len(calls') <= 1
    BY <2>4
  <2>6. MayServe(res)
    BY HandlersServe
  <2> QED
    BY <2>1, <2>3, <2>5, <2>6, RespondServes
<1>5. CASE NoRoute
  <2>1. /\ stage = "dispatch" /\ calls' = calls
        /\ Respond(NotFound("404 Not Found"))
    BY <1>5 DEF NoRoute
  <2>2. MayServe(NotFound("404 Not Found"))
    BY PlainResponse DEF NotFound, MayServe
  <2> QED
    BY <2>1, <2>2, RespondServes DEF Dispatches, TypeOK
<1>6. CASE Write
  <2>1. /\ stage = "write" /\ stage' = "done"
        /\ UNCHANGED <<meant, stream, whole, req, calls, response>>
    BY <1>6 DEF Write
  <2> QED
    BY <2>1 DEF Dispatches, TypeOK, WritesRequest, ReadsRequest, Agrees
<1>7. CASE UNCHANGED vars
  BY <1>7 DEF vars, Dispatches, TypeOK, WritesRequest, ReadsRequest, Agrees
<1>8. CASE HandlerThrows
  <2>1. /\ stage = "dispatch" /\ stage' = "thrown"
        /\ UNCHANGED <<meant, whole, req, response>>
        /\ \E call : calls' = Append(calls, call)
    BY <1>8, Zenon DEF HandlerThrows
  <2>2. PICK call : calls' = Append(calls, call)
    BY <2>1
  <2>3. calls' = <<call>>
    BY <2>1, <2>2 DEF Dispatches
  <2>4. Len(calls') <= 1
    BY <2>3
  <2> QED
    BY <2>1, <2>4 DEF Dispatches, TypeOK, WritesRequest, ReadsRequest, Agrees
<1> QED
  BY <1>1, <1>2, <1>3, <1>4, <1>5, <1>6, <1>7, <1>8 DEF Next

-----------------------------------------------------------------------------
(* The handler of a request. *)

(* What RightHandler says of a request, the calls and the status.          *)
Fitting(m) == {r \in Current(m.method) : IsPrefix(r.route, m.path)}
Routed(m, read, called, status) ==
  /\ m.lead = <<"\n">> => called = <<>> /\ status = "404"
  /\ read /\ m.lead = <<>> =>
       /\ called = <<>> <=> Fitting(m) = {}
       /\ called = <<>> => status = "404"
       /\ \A r \in Fitting(m) : r.route = m.path => called[1].route = r.route
       /\ called # <<>> =>
            \E r \in Fitting(m) :
              called[1] = [route |-> r.route, handler |-> r.handler]

(* This is what RightHandler says.                                         *)
LEMMA RightHandlerIs ==
  RightHandler <=> (stage = "write" /\ response.status # "101" =>
                      Routed(meant, whole, calls, response.status))
  BY Zenon DEF RightHandler, Routed, Fitting

(* The status of an answer that no handler gave.                           *)
LEMMA NotFoundStatus ==
  ASSUME NEW message
  PROVE  NotFound(message).status = "404"
  BY DEF NotFound, Plain, SetHeader

(* The status of an upgrade.                                               *)
LEMMA SwitchingStatus ==
  ASSUME NEW accept
  PROVE  SwitchingProtocols(accept).status = "101"
  BY DEF SwitchingProtocols

(* The method of a request that was read whole.                            *)
LEMMA MethodRead ==
  ASSUME NEW method
  PROVE  /\ ParseMethod(<<method>>) # "UNKNOWN" =>
              ParseMethod(<<method>>) = method
         /\ ParseMethod(<<method>>) = "UNKNOWN" => Current(method) = {}
<1>1. ParseMethod(<<method>>) = IF method \in Method THEN method ELSE "UNKNOWN"
  BY DEF ParseMethod
<1>2. "UNKNOWN" \notin Method
  BY HttpAssumption
<1> QED
  BY <1>1, <1>2, UnknownHasNone

(* An answer without a handler, to a request that has none.                *)
LEMMA NoneIsRight ==
  ASSUME NEW m, NEW read,
         read /\ m.lead = <<>> => Fitting(m) = {}
  PROVE  Routed(m, read, <<>>, "404")
  BY DEF Routed

(* An answer of the handler that was chosen.                               *)
LEMMA ChosenIsRight ==
  ASSUME NEW m, m.path \in Seq(Token), NEW read,
         NEW route \in Candidates(m.method, m.path), NEW status,
         m.lead # <<"\n">>
  PROVE  Routed(m, read,
                <<[route |-> route, handler |-> Handlers(m.method)[route]]>>,
                status)
<1> DEFINE handler == Handlers(m.method)[route]
           call == [route |-> route, handler |-> handler]
           called == <<call>>
<1>1. /\ Fitting(m) # {}
      /\ \E r \in Fitting(m) : route = r.route /\ handler = r.handler
      /\ \A r \in Fitting(m) : r.route = m.path => route = m.path
  BY CandidatesFit, Zenon DEF Fitting
<1> HIDE DEF handler
<1>2. called # <<>> /\ called[1] = call /\ call.route = route
  OBVIOUS
<1> HIDE DEF called
<1> DEFINE F == Fitting(m)
<1> HIDE DEF F
<1>3. \E r \in F : called[1] = [route |-> r.route, handler |-> r.handler]
  BY <1>1, <1>2 DEF F
<1>4. \A r \in F : r.route = m.path => called[1].route = r.route
  BY <1>1, <1>2 DEF F
<1>5. Routed(m, read, called, status)
  BY <1>1, <1>2, <1>3, <1>4, Zenon DEF Routed, F
<1> QED
  BY <1>5 DEF called, handler

(* Each answer is the right one.                                           *)
LEMMA AnswersAreRight ==
  ASSUME Dispatches, stage = "dispatch", RejectMethod \/ CallRoute \/ NoRoute
  PROVE  Routed(meant, whole, calls', response'.status)
<1>1. /\ meant.path \in Seq(Token) /\ calls = <<>>
      /\ meant.lead = <<"\n">> => req.path = <<>>
      /\ whole /\ meant.lead = <<>> =>
           req.path = meant.path /\ req.method = ParseMethod(<<meant.method>>)
  BY DEF Dispatches, TypeOK, ReadsRequest
<1>2. CASE RejectMethod
  <2>1. /\ req.method = "UNKNOWN" /\ calls' = calls
        /\ response' = NotFound("Unknown HTTP method")
    BY <1>2, Zenon DEF RejectMethod, Respond
  <2>2. ASSUME whole, meant.lead = <<>> PROVE Fitting(meant) = {}
    <3>1. Current(meant.method) = {}
      BY <1>1, <2>1, <2>2, MethodRead
    <3> QED
      BY <3>1 DEF Fitting
  <2> QED
    BY <1>1, <2>1, <2>2, NotFoundStatus, NoneIsRight
<1>3. CASE NoRoute
  <2>1. /\ req.method # "UNKNOWN" /\ calls' = calls
        /\ Candidates(req.method, req.path) = {}
        /\ response' = NotFound("404 Not Found")
    BY <1>3, Zenon DEF NoRoute, Respond
  <2>2. ASSUME whole, meant.lead = <<>> PROVE Fitting(meant) = {}
    <3>1. Candidates(meant.method, meant.path) = {}
      BY <1>1, <2>1, <2>2, MethodRead
    <3> QED
      BY <1>1, <3>1, CandidatesFit, Zenon DEF Fitting
  <2> QED
    BY <1>1, <2>1, <2>2, NotFoundStatus, NoneIsRight
<1>4. CASE CallRoute
  <2>1. PICK route \in Candidates(req.method, req.path) :
          calls' = Append(calls, [route |-> route,
                                  handler |-> Handlers(req.method)[route]])
    BY <1>4, Zenon DEF CallRoute
  <2>2. req.method # "UNKNOWN"
    BY <1>4, Zenon DEF CallRoute
  <2>3. calls' = <<[route |-> route,
                    handler |-> Handlers(req.method)[route]]>>
    BY <1>1, <2>1
  <2>4. meant.lead # <<"\n">>
    BY <1>1, NothingRoutes
  <2>5. CASE whole /\ meant.lead = <<>>
    <3>1. req.method = meant.method /\ req.path = meant.path
      BY <1>1, <2>2, <2>5, MethodRead
    <3>2. route \in Candidates(meant.method, meant.path)
      BY <3>1, Zenon
    <3> QED
      BY <1>1, <2>3, <2>4, <3>1, <3>2, ChosenIsRight
  <2>6. CASE ~ (whole /\ meant.lead = <<>>)
    BY <2>4, <2>6, Zenon DEF Routed
  <2> QED
    BY <2>5, <2>6
<1> QED
  BY <1>2, <1>3, <1>4

(* No step of on_http gives a request a wrong handler.                     *)
LEMMA NextRightHandler ==
  ASSUME Dispatches, RightHandler, [Next]_vars
  PROVE  RightHandler'
<1> DEFINE Right == stage = "write" /\ response.status # "101" =>
                      Routed(meant, whole, calls, response.status)
<1>1. RightHandler <=> Right
  BY RightHandlerIs
<1>2. RightHandler' <=> Right'
  BY <1>1, RightHandlerIs, PTL
<1> SUFFICES Right'
  BY <1>2
<1>3. CASE Read
  BY <1>3 DEF Read
<1>4. CASE RejectMethod \/ CallRoute \/ NoRoute
  <2>1. stage = "dispatch" /\ meant' = meant /\ whole' = whole
    BY <1>4 DEF RejectMethod, CallRoute, NoRoute, Respond
  <2>2. Routed(meant, whole, calls', response'.status)
    BY <1>4, <2>1, AnswersAreRight
  <2> QED
    BY <2>1, <2>2
<1>5. CASE Upgrade
  <2>1. \E accept : response' = SwitchingProtocols(accept)
    BY <1>5, Zenon DEF Upgrade, Respond
  <2> QED
    BY <2>1, SwitchingStatus
<1>6. CASE Write \/ HandlerThrows
  BY <1>6 DEF Write, HandlerThrows
<1>7. CASE UNCHANGED vars
  BY <1>1, <1>7 DEF vars
<1> QED
  BY <1>3, <1>4, <1>5, <1>6, <1>7 DEF Next

-----------------------------------------------------------------------------
(* The files that are asked for. *)

(* What FilesAreFound says of a path, the calls and the response.          *)
Slash(r) == IF Last(r) = "/" THEN <<>> ELSE <<"/">>
IsUrlOf(f, path, r) ==
  LET rest == From(f, Len(Base) + 1)
  IN  \/ path = r \o Slash(r) \o Join(rest, "/")
      \/ rest = <<<<"index.html">>>> /\ path \in {r, r \o Slash(r)}
MayAnswer(f) ==
  {FromFile(f), NotFound("Canonicalization error"), NotFound("File not found")}
Found(path, called, res) ==
  \A f \in File, i \in DOMAIN called :
    /\ called[i].handler = [returns |-> "file", prefix |-> called[i].route]
    /\ IsPrefix(Base, f)
    /\ IsUrlOf(f, path, called[i].route)
    => res \in MayAnswer(f)

(* This is what FilesAreFound says.                                        *)
LEMMA FilesAreFoundIs ==
  FilesAreFound <=> (stage = "write" /\ whole /\ meant.lead = <<>> =>
                       Found(meant.path, calls, response))
  BY Zenon DEF FilesAreFound, Found, MayAnswer, IsUrlOf, Slash

(* Routes are text.                                                        *)
LEMMA CandidatesAreText ==
  ASSUME NEW method, NEW path, NEW x \in Candidates(method, path)
  PROVE  x \in Seq(Token)
<1>1. x \in RoutesOf(method)
  BY DEF Candidates
<1>2. PICK r \in Current(method) : r.route = x
  BY <1>1, RoutesAreCurrent
<1>3. PICK i \in 1 .. Len(Registered) : r = Registered[i]
  BY CurrentAre
<1> QED
  BY <1>2, <1>3, HttpAssumption

(* A file is found by the handler that serves files from its prefix.       *)
LEMMA HandlerFinds ==
  ASSUME NEW r \in Seq(Token), NEW handler, NEW res \in Results(handler)
  PROVE  Found(req.path, <<[route |-> r, handler |-> handler]>>, res)
<1> DEFINE call == [route |-> r, handler |-> handler]
           called == <<call>>
<1>1. /\ \A i \in DOMAIN called : called[i] = call
      /\ call.route = r /\ call.handler = handler
  OBVIOUS
<1> HIDE DEF call, called
<1>2. ASSUME NEW f \in File, handler = [returns |-> "file", prefix |-> r],
             IsPrefix(Base, f), IsUrlOf(f, req.path, r)
      PROVE  res \in MayAnswer(f)
  <2>1. handler.returns = "file" /\ handler.prefix = r
    BY <1>2
  <2>2. res \in ServeStatic(req.path, r)
    BY <2>1 DEF Results
  <2>3. Slash(r) \in {<<>>, <<"/">>}
    BY DEF Slash
  <2>4. ServeStatic(req.path, r) \subseteq MayAnswer(f)
    BY <1>2, <2>3, FileIsServed, Zenon DEF MayAnswer, IsUrlOf
  <2> QED
    BY <2>2, <2>4
<1>3. Found(req.path, called, res)
  BY <1>1, <1>2, Zenon DEF Found
<1> QED
  BY <1>3 DEF called, call

(* Where no handler is called there is nothing to find.                    *)
LEMMA NothingToFind ==
  ASSUME NEW path, NEW res
  PROVE  Found(path, <<>>, res)
<1>1. DOMAIN <<>> = {}
  OBVIOUS
<1> QED
  BY <1>1 DEF Found

(* No step of on_http answers the URL of a file with anything else.        *)
LEMMA NextFilesAreFound ==
  ASSUME Dispatches, FilesAreFound, [Next]_vars
  PROVE  FilesAreFound'
<1> DEFINE Right == stage = "write" /\ whole /\ meant.lead = <<>> =>
                      Found(meant.path, calls, response)
<1>1. FilesAreFound <=> Right
  BY FilesAreFoundIs
<1>2. FilesAreFound' <=> Right'
  BY <1>1, FilesAreFoundIs, PTL
<1> SUFFICES Right'
  BY <1>2
<1>3. CASE Read
  BY <1>3 DEF Read
<1>4. CASE RejectMethod \/ Upgrade \/ NoRoute
  <2>1. stage = "dispatch" /\ calls' = calls
    BY <1>4 DEF RejectMethod, Upgrade, NoRoute
  <2>2. calls' = <<>>
    BY <2>1 DEF Dispatches
  <2> QED
    BY <2>2, NothingToFind
<1>5. CASE CallRoute
  <2>1. /\ stage = "dispatch" /\ meant' = meant /\ whole' = whole
        /\ \E route \in Candidates(req.method, req.path) :
             LET handler == Handlers(req.method)[route]
             IN  /\ calls' = Append(calls, [route |-> route,
                                            handler |-> handler])
                 /\ \E answer \in Results(handler) : response' = answer
    BY <1>5, Zenon DEF CallRoute, Respond
  <2>2. PICK route \in Candidates(req.method, req.path) :
          \E handler :
            /\ calls' = Append(calls, [route |-> route, handler |-> handler])
            /\ \E answer \in Results(handler) : response' = answer
    BY <2>1, Zenon
  <2>3. PICK handler :
          /\ calls' = Append(calls, [route |-> route, handler |-> handler])
          /\ \E answer \in Results(handler) : response' = answer
    BY <2>2, Zenon
  <2>4. calls' = <<[route |-> route, handler |-> handler]>>
    BY <2>1, <2>3 DEF Dispatches
  <2>5. route \in Seq(Token)
    BY CandidatesAreText
  <2>6. Found(req.path, calls', response')
    BY <2>3, <2>4, <2>5, HandlerFinds, Zenon
  <2>7. whole /\ meant.lead = <<>> => req.path = meant.path
    BY <2>1 DEF Dispatches, ReadsRequest
  <2> QED
    BY <2>1, <2>6, <2>7, Zenon
<1>6. CASE Write \/ HandlerThrows
  BY <1>6 DEF Write, HandlerThrows
<1>7. CASE UNCHANGED vars
  BY <1>1, <1>7 DEF vars
<1> QED
  BY <1>3, <1>4, <1>5, <1>6, <1>7 DEF Next

-----------------------------------------------------------------------------
(* What is read of a request. *)

(* What a request that was read whole is for the client that wrote it.     *)
Understood(r, m) ==
  /\ m.method \in Method => r.method = m.method
  /\ r.path = m.path
  /\ ReadsFields(r, m)

(* The property says that of a request that was just read.                 *)
LEMMA UnderstoodIs ==
  UnderstoodAsMeant <=> (stage = "dispatch" /\ whole /\ meant.lead = <<>> =>
                           Understood(req, meant))
  BY Zenon DEF UnderstoodAsMeant, Understood, ReadsFields, Pair, Field

(* The read makes it so.                                                   *)
LEMMA ReadUnderstands ==
  ASSUME Dispatches, Read, meant.lead = <<>>, whole'
  PROVE  Understood(req', meant)
<1>1. PICK n \in 1 .. Min({Len(stream), Limit}) :
        /\ req' \in Parsed(SubSeq(stream, 1, n))
        /\ whole' = (n = Len(stream))
  BY Zenon DEF Read
<1>2. stage = "read"
  BY DEF Read
<1>3. PICK pad \in Padding : meant \in Meant /\ stream = Text(meant, pad)
  BY <1>2 DEF Dispatches, WritesRequest, Padding
<1>4. IsRequest(stream, meant, pad)
  BY <1>3, TextIsRequest
<1>5. BeginsAsMeant(stream, meant)
  BY <1>4, Zenon DEF IsRequest
<1>6. req' \in Parsed(stream)
  <2>1. stream \in Seq(Token)
    BY <1>5, Zenon DEF BeginsAsMeant, Begins
  <2>2. SubSeq(stream, 1, Len(stream)) = stream
    BY <2>1
  <2> QED
    BY <1>1, <2>2, Zenon
<1>7. req'.path = meant.path /\ req'.method = ParseMethod(<<meant.method>>)
  BY <1>3, <1>5, <1>6, ParsedRequest
<1>8. ReadsFields(req', meant)
  BY <1>3, <1>4, <1>6, ParsedFields
<1>9. meant.method \in Method => ParseMethod(<<meant.method>>) = meant.method
  BY DEF ParseMethod
<1> QED
  BY <1>7, <1>8, <1>9, Zenon DEF Understood

(* No step of on_http makes it otherwise.                                  *)
LEMMA NextUnderstood ==
  ASSUME Dispatches, UnderstoodAsMeant, [Next]_vars
  PROVE  UnderstoodAsMeant'
<1> DEFINE Right == stage = "dispatch" /\ whole /\ meant.lead = <<>> =>
                      Understood(req, meant)
<1>1. UnderstoodAsMeant <=> Right
  BY UnderstoodIs
<1>2. UnderstoodAsMeant' <=> Right'
  BY <1>1, UnderstoodIs, PTL
<1> SUFFICES Right'
  BY <1>2
<1>3. CASE Read
  <2>1. meant' = meant
    BY <1>3 DEF Read
  <2> QED
    BY <1>3, <2>1, ReadUnderstands
<1>4. CASE RejectMethod \/ Upgrade \/ CallRoute \/ NoRoute
  <2>1. stage' = "write"
    BY <1>4 DEF RejectMethod, Upgrade, CallRoute, NoRoute, Respond
  <2> QED
    BY <2>1
<1>5. CASE Write \/ HandlerThrows
  BY <1>5 DEF Write, HandlerThrows
<1>6. CASE UNCHANGED vars
  BY <1>1, <1>6 DEF vars
<1> QED
  BY <1>3, <1>4, <1>5, <1>6 DEF Next

-----------------------------------------------------------------------------
(* What of a request may be in an answer. *)

(* The maps that ParseHeaders goes through.                                *)
HeaderMaps(T) == Maps({ToLower(w) : w \in Seq(T)}, Seq(T))

(* What it does with a line.                                               *)
HeaderNext(map, l) ==
  IF IndexOf(l, ":") = 0 THEN map
  ELSE Put(map, ToLower(Trim(Before(l, IndexOf(l, ":")))),
           Trim(From(l, IndexOf(l, ":") + 1)))
(* The value that a line adds is a part of it.                             *)
LEMMA HeaderAdded ==
  ASSUME NEW T, NEW map \in HeaderMaps(T), NEW l \in Seq(T)
  PROVE  HeaderNext(map, l) \in HeaderMaps(T)
<1> DEFINE c == IndexOf(l, ":")
           a == Trim(Before(l, c))
           b == Trim(From(l, c + 1))
           K == {ToLower(w) : w \in Seq(T)}
           V == Seq(T)
<1>1. c \in 0 .. Len(l)
  BY IndexIs
<1>2. HeaderNext(map, l) = IF c = 0 THEN map ELSE Put(map, ToLower(a), b)
  BY Zenon DEF HeaderNext
<1> HIDE DEF c
<1>3. Before(l, c) \in Seq(T) /\ From(l, c + 1) \in Seq(T)
  <2>1. c \in Int /\ c <= Len(l) /\ c >= 0
    BY <1>1
  <2> QED
    BY <2>1, SidesAreText
<1>4. a \in V /\ b \in V
  BY <1>3, TrimIsText
<1> HIDE DEF a, b
<1>5. ToLower(a) \in K
  BY <1>4
<1>6. map \in Maps(K, V)
  BY Zenon DEF HeaderMaps
<1> HIDE DEF K, V
<1>7. Put(map, ToLower(a), b) \in Maps(K, V)
  BY <1>4, <1>5, <1>6, PutMaps
<1>8. HeaderNext(map, l) \in Maps(K, V)
  BY <1>2, <1>6, <1>7
<1> QED
  BY <1>8, Zenon DEF HeaderMaps, K, V

(* So all values are parts of lines.                                       *)
LEMMA HeadersAreLines ==
  ASSUME NEW T, NEW lines \in Seq(Seq(T))
  PROVE  ParseHeaders(lines) \in HeaderMaps(T)
<1> DEFINE S == Seq(T)
           B == HeaderMaps(T)
           N == Len(lines)
           op == [p \in B \X S |-> HeaderNext(p[1], p[2])]
           Rec(f) == [I \in SUBSET (DOMAIN lines) |->
                        IF I = {} THEN <<>>
                        ELSE HeaderNext(f[I \ {Max(I)}], lines[Max(I)])]
           g == CHOOSE f : f = Rec(f)
<1>1. ParseHeaders(lines) = g[DOMAIN lines]
  BY Zenon DEF ParseHeaders, FoldLeft, MapThenFoldSet, HeaderNext
<1> HIDE DEF g
<1>2. <<>> \in B
  BY EmptyMap, Zenon DEF HeaderMaps
<1>3. \A map \in B, l \in S : HeaderNext(map, l) \in B
  BY HeaderAdded
<1>4. lines \in Seq(S)
  OBVIOUS
<1> HIDE DEF B, S
<1>5. N \in Nat /\ DOMAIN lines = 1 .. N /\ \A i \in 1 .. N : lines[i] \in S
  BY <1>4
<1>6. op \in [B \X S -> B]
  BY <1>3
<1>7. PICK f \in [SUBSET (1 .. N) -> B] : IsFold(f, op, <<>>, lines, N)
  BY <1>2, <1>4, <1>6, FoldExists
<1>8. ASSUME NEW I \in SUBSET (DOMAIN lines)
      PROVE  f[I] = IF I = {} THEN <<>>
                    ELSE HeaderNext(f[I \ {Max(I)}], lines[Max(I)])
  <2>1. CASE I = {}
    BY <1>5, <1>7, <2>1 DEF IsFold
  <2>2. CASE I # {}
    <3>1. f[I] = op[<<f[I \ {Max(I)}], lines[Max(I)]>>]
      BY <1>5, <1>7, <2>2 DEF IsFold
    <3>2. f[I \ {Max(I)}] \in B
      BY <1>5
    <3>3. Max(I) \in 1 .. N
      BY <1>5, <2>2, MaxOfIndices
    <3> QED
      BY <1>5, <2>2, <3>1, <3>2, <3>3
  <2> QED
    BY <2>1, <2>2
<1>9. f = Rec(f)
  BY <1>5, <1>8
<1>10. g = Rec(g)
  BY <1>9, Zenon DEF g
<1> DEFINE K == {n \in 0 .. N : g[1 .. n] \in B}
<1>11. \A n \in 0 .. N : n \in K
  <2>1. 0 \in K
    <3>1. 1 .. 0 = {} /\ {} \in SUBSET (DOMAIN lines) /\ 0 \in 0 .. N
      BY <1>5
    <3>2. Rec(g)[{}] = <<>>
      BY <3>1
    <3>3. g[1 .. 0] \in B
      BY <1>2, <1>10, <3>1, <3>2, Zenon
    <3> QED
      BY <3>1, <3>3
  <2>2. ASSUME NEW n \in 1 .. N, n - 1 \in K PROVE n \in K
    <3>1. /\ 1 .. n \in SUBSET (DOMAIN lines) /\ 1 .. n # {}
          /\ Max(1 .. n) = n /\ (1 .. n) \ {n} = 1 .. n - 1
      BY <1>5, IndexSets, Zenon
    <3>2. g[1 .. n] = Rec(g)[1 .. n]
      BY <1>10, Zenon
    <3>3. g[1 .. n] = HeaderNext(g[(1 .. n) \ {Max(1 .. n)}],
                                 lines[Max(1 .. n)])
      BY <3>1, <3>2
    <3>4. g[1 .. n] = HeaderNext(g[1 .. n - 1], lines[n])
      BY <3>1, <3>3, Zenon
    <3>5. g[1 .. n - 1] \in B /\ lines[n] \in S
      BY <1>5, <2>2
    <3>6. g[1 .. n] \in B
      BY <1>3, <3>4, <3>5
    <3> QED
      BY <1>5, <3>6
  <2> HIDE DEF K
  <2> QED
    BY <1>5, <2>1, <2>2, SetInduction
<1>12. g[1 .. N] \in B
  <2>1. N \in K
    BY <1>5, <1>11
  <2> QED
    BY <2>1
<1> QED
  BY <1>1, <1>5, <1>12, Zenon DEF B

(* What EchoesText says of a request.                                      *)
Echoed(r) ==
  /\ r.path \in Seq(Token \ {"\n"})
  /\ r.body \in Seq(Token)
  /\ \A key \in DOMAIN r.headers : r.headers[key] \in Seq(Token \ {"\n"})

(* It holds of a request whose parts are text.                             *)
LEMMA PartsEchoed ==
  ASSUME NEW method, NEW path \in Seq(Token \ {"\n"}), NEW params,
         NEW headers \in HeaderMaps(Token \ {"\n"}), NEW body \in Seq(Token)
  PROVE  Echoed(Request(method, path, params, headers, body))
<1> DEFINE V == Seq(Token \ {"\n"})
           K == {ToLower(w) : w \in V}
<1>1. PICK D \in SUBSET K : headers \in [D -> V]
  BY DEF HeaderMaps, Maps
<1> HIDE DEF K
<1>2. \A key \in DOMAIN headers : headers[key] \in V
  <2> HIDE DEF V
  <2> QED
    BY <1>1
<1>3. Request(method, path, params, headers, body)
        = [method |-> method, path |-> path, params |-> params,
           headers |-> headers, body |-> body]
  BY Zenon DEF Request
<1> DEFINE r == Request(method, path, params, headers, body)
<1>4. r.path = path /\ r.body = body /\ r.headers = headers
  BY <1>3
<1> HIDE DEF r
<1> QED
  BY <1>2, <1>4, Zenon DEF Echoed, r

(* Whatever is parsed is so, also of a text that was cut.                  *)
LEMMA ParsedEchoes ==
  ASSUME NEW text \in Seq(Token), NEW r \in Parsed(text)
  PROVE  Echoed(r)
<1> DEFINE lf == "\n"
           T == Token \ {lf}
           lines == Pieces(text, lf)
           target == Word(lines[1], 2)
           mark == IndexOf(target, "?")
           blank == Blank(lines, "\r")
           end == IF blank = 0 THEN Len(lines) + 1 ELSE blank
           path == IF mark = 0 THEN target ELSE Before(target, mark)
           headers == ParseHeaders(SubSeq(lines, 2, end - 1))
           body == Join(From(lines, end + 1), lf)
<1>1. \/ \E m : r = Request(m, <<>>, <<>>, <<>>, <<>>)
      \/ /\ lines # <<>>
         /\ \E m, params : r = Request(m, path, params, headers, body)
  BY Zenon DEF Parsed, Blank
<1>2. <<>> \in Seq(Token) /\ <<>> \in Seq(Token \ {"\n"})
  OBVIOUS
<1>3. CASE \E m : r = Request(m, <<>>, <<>>, <<>>, <<>>)
  <2>1. <<>> \in HeaderMaps(Token \ {"\n"})
    BY EmptyMap, Zenon DEF HeaderMaps
  <2> QED
    BY <1>2, <1>3, <2>1, PartsEchoed
<1>4. CASE /\ lines # <<>>
           /\ \E m, params : r = Request(m, path, params, headers, body)
  <2>1. lines \in Seq(Seq(T)) /\ lf \in Token
    <3>1. 0 \in Nat
      OBVIOUS
    <3>2. lf \in Token
      BY TheTokens
    <3> HIDE DEF lf
    <3>3. Cut(text, {lf}, 0) \in Seq(Seq(Token \ {lf}))
      BY <3>1, PartsHaveNone
    <3> QED
      BY <3>2, <3>3, Zenon DEF Pieces
  <2> HIDE DEF lines
  <2>2. lines[1] \in Seq(Token) /\ lines \in Seq(Seq(Token))
        /\ Len(lines) \in Nat
    <3>1. Len(lines) \in Nat /\ 1 \in 1 .. Len(lines)
      BY <1>4, <2>1
    <3>2. lines[1] \in Seq(T)
      BY <2>1, <3>1
    <3>3. T \subseteq Token
      OBVIOUS
    <3> HIDE DEF T
    <3>4. Seq(T) \subseteq Seq(Token)
      BY <3>3
    <3> DEFINE S == Seq(T)
               R == Seq(Token)
    <3>5. lines \in Seq(S) /\ S \subseteq R
      BY <2>1, <3>4
    <3> HIDE DEF S, R
    <3>6. lines \in Seq(R)
      BY <3>5
    <3> QED
      BY <3>1, <3>2, <3>4, <3>6 DEF R
  <2>3. target \in Seq(Token \ Space)
    <3> DEFINE words == Words(lines[1])
               S == Seq(Token \ Space)
    <3>1. words \in Seq(S)
      <4>1. 1 \in Nat
        OBVIOUS
      <4> QED
        BY <2>2, <4>1, PartsHaveNone DEF Words
    <3>2. target = IF 2 <= Len(words) THEN words[2] ELSE <<>>
      BY Zenon DEF Word
    <3>3. <<>> \in S
      OBVIOUS
    <3> HIDE DEF words, S
    <3>4. target \in S
      BY <3>1, <3>2, <3>3
    <3> QED
      BY <3>4 DEF S
  <2> HIDE DEF target
  <2>4. path \in Seq(T)
    <3>1. mark \in 0 .. Len(target)
      BY <2>3, IndexIs
    <3> HIDE DEF mark
    <3>2. Before(target, mark) \in Seq(Token \ Space)
      <4>1. mark \in Int /\ mark <= Len(target)
        BY <2>3, <3>1
      <4> QED
        BY <2>3, <4>1, SidesAreText
    <3>3. Token \ Space \subseteq T
      BY DEF Space
    <3> DEFINE R == Token \ Space
    <3> HIDE DEF T, R
    <3>4. R \subseteq T /\ path \in Seq(R)
      BY <2>3, <3>2, <3>3 DEF R
    <3> HIDE DEF path
    <3> QED
      BY <3>4
  <2> HIDE DEF path
  <2>5. blank \in {0} \cup 2 .. Len(lines)
    BY <2>1, BlankAmong
  <2> HIDE DEF blank
  <2>6. end \in 2 .. Len(lines) + 1
    <3>1. Len(lines) >= 1
      BY <1>4, <2>1
    <3> QED
      BY <2>2, <2>5, <3>1
  <2> HIDE DEF end
  <2>7. headers \in HeaderMaps(T)
    <3> DEFINE S == Seq(T)
    <3>1. lines \in Seq(S)
      BY <2>1
    <3> HIDE DEF S
    <3>2. SubSeq(lines, 2, end - 1) \in Seq(S)
      BY <2>2, <2>6, <3>1
    <3> QED
      BY <3>2, HeadersAreLines, Zenon DEF S
  <2>8. body \in Seq(Token)
    <3> DEFINE S == Seq(Token)
               rest == From(lines, end + 1)
    <3>1. lines \in Seq(S)
      BY <2>2
    <3> HIDE DEF S
    <3>2. rest \in Seq(S)
      <4>1. end \in Int /\ end >= 0
        BY <2>6
      <4> QED
        BY <3>1, <4>1, SidesAreText
    <3> HIDE DEF rest
    <3>3. Join(rest, lf) \in Seq(Token)
      BY <2>1, <3>2, JoinTypes, Zenon DEF S
    <3> QED
      BY <3>3, Zenon DEF rest
  <2> HIDE DEF headers, body
  <2>9. PICK m, params : r = Request(m, path, params, headers, body)
    BY <1>4
  <2>10. Echoed(Request(m, path, params, headers, body))
    BY <2>4, <2>7, <2>8, PartsEchoed, Zenon
  <2> QED
    BY <2>9, <2>10, Zenon
<1> QED
  BY <1>1, <1>3, <1>4

-----------------------------------------------------------------------------
(* Every response can be written. *)

(* A value on one line, and header fields of which each is on one.         *)
OneLine(value) == value \in Seq(ToSet(value) \ {"\n"})
AreFields(headers) ==
  /\ DOMAIN headers \in SUBSET FieldName
  /\ \A key \in DOMAIN headers : OneLine(headers[key])
IsText(s) == s \in Seq(ToSet(s))

(* A text has the tokens that are in it.                                   *)
LEMMA TextIs ==
  ASSUME NEW T, NEW s \in Seq(T), NEW lf
  PROVE  /\ s \in Seq(ToSet(s))
         /\ (\A i \in 1 .. Len(s) : s[i] # lf) => s \in Seq(ToSet(s) \ {lf})
<1>1. \A i \in 1 .. Len(s) : s[i] \in ToSet(s)
  BY DEF ToSet
<1> DEFINE S == ToSet(s)
<1> HIDE DEF S
<1>2. s \in Seq(S)
  BY <1>1 DEF S
<1>3. ASSUME \A i \in 1 .. Len(s) : s[i] # lf
      PROVE  s \in Seq(S \ {lf})
  BY <1>1, <1>3 DEF S
<1> QED
  BY <1>2, <1>3 DEF S

(* Text without a line feed is on one line.                                *)
LEMMA OneLineIs ==
  ASSUME NEW T, NEW s \in Seq(T \ {"\n"})
  PROVE  OneLine(s) /\ IsText(s)
<1> DEFINE lf == "\n"
<1>1. s \in Seq(T \ {lf})
  OBVIOUS
<1> HIDE DEF lf
<1>2. s \in Seq(T) /\ \A i \in 1 .. Len(s) : s[i] # lf
  BY <1>1
<1>3. s \in Seq(ToSet(s)) /\ s \in Seq(ToSet(s) \ {lf})
  BY <1>2, TextIs
<1> QED
  BY <1>3, Zenon DEF OneLine, IsText, lf

(* So is a word.                                                           *)
LEMMA OneWord ==
  ASSUME NEW a
  PROVE  IsText(<<a>>) /\ (a # "\n" => OneLine(<<a>>))
<1> DEFINE lf == "\n"
           s == <<a>>
<1> HIDE DEF lf
<1>1. a \in {a}
  OBVIOUS
<1>2. s \in Seq({a}) /\ Len(s) = 1 /\ s[1] = a
  BY <1>1, One
<1> HIDE DEF s
<1>3. /\ s \in Seq(ToSet(s))
      /\ (\A i \in 1 .. Len(s) : s[i] # lf) => s \in Seq(ToSet(s) \ {lf})
  BY <1>2, TextIs
<1>4. ASSUME a # lf PROVE \A i \in 1 .. Len(s) : s[i] # lf
  BY <1>2, <1>4
<1>5. a # lf => s \in Seq(ToSet(s) \ {lf})
  BY <1>3, <1>4
<1> QED
  BY <1>3, <1>5, Zenon DEF OneLine, IsText, lf, s

(* A header field is added.                                                *)
LEMMA FieldAdded ==
  ASSUME NEW headers, AreFields(headers), NEW key \in FieldName,
         NEW value, OneLine(value)
  PROVE  AreFields(Put(headers, key, value))
<1> DEFINE set == Put(headers, key, value)
<1>1. /\ DOMAIN set = DOMAIN headers \cup {key}
      /\ \A k \in DOMAIN set : set[k] = IF k = key THEN value ELSE headers[k]
  BY DEF Put
<1> HIDE DEF set
<1>2. ASSUME NEW k \in DOMAIN set PROVE OneLine(set[k])
  <2>1. CASE k = key
    BY <1>1, <2>1
  <2>2. CASE k # key
    BY <1>1, <2>2 DEF AreFields
  <2> QED
    BY <2>1, <2>2
<1>3. DOMAIN set \in SUBSET FieldName
  BY <1>1 DEF AreFields
<1> QED
  BY <1>2, <1>3, Zenon DEF AreFields, set

(* There are no header fields at first.                                    *)
LEMMA NoFields == AreFields(<<>>)
<1>1. DOMAIN <<>> = {}
  OBVIOUS
<1> QED
  BY <1>1 DEF AreFields

(* A response with all its parts.                                          *)
Record(version, status, text, headers, body, file) ==
  [version |-> version, status |-> status, text |-> text, headers |-> headers,
   body |-> body, file |-> file]
(* It can be, with or without a file.                                      *)
LEMMA RecordWritable ==
  ASSUME NEW version, NEW status, NEW text, NEW headers, NEW body, NEW file,
         version \notin Space, status \notin Space, text \notin Space,
         AreFields(headers), IsText(body)
  PROVE  Writable(Record(version, status, text, headers, body, file))
<1> DEFINE res == Record(version, status, text, headers, body, file)
<1>1. /\ res.version = version /\ res.status = status /\ res.text = text
      /\ res.headers = headers /\ res.body = body
  BY DEF Record
<1> HIDE DEF res
<1>2. {res.version, res.status, res.text} \cap Space = {}
  BY <1>1
<1> QED
  BY <1>1, <1>2, Zenon DEF Writable, AreFields, OneLine, IsText, res

(* What SetHeader makes of it.                                             *)
LEMMA RecordSet ==
  ASSUME NEW version, NEW status, NEW text, NEW headers, NEW body, NEW file,
         NEW key, NEW value
  PROVE  SetHeader(Record(version, status, text, headers, body, file), key,
                   value)
           = Record(version, status, text, Put(headers, key, value), body, file)
  BY DEF SetHeader, Record

(* The header fields of the responses of one type.                         *)
PlainFields(type) == Put(<<>>, "Content-Type", <<type>>)
(* That is what Plain returns.                                             *)
LEMMA PlainIs ==
  ASSUME NEW status, NEW text, NEW type, NEW body
  PROVE  Plain(status, text, type, body)
           = Record("HTTP/1.1", status, text, PlainFields(type), body, <<>>)
<1>1. Plain(status, text, type, body)
        = SetHeader(Record("HTTP/1.1", status, text, <<>>, body, <<>>),
                    "Content-Type", <<type>>)
  BY Zenon DEF Plain, Record
<1> DEFINE key == "Content-Type"
           v == "HTTP/1.1"
           t == <<type>>
           none == <<>>
<1>2. SetHeader(Record(v, status, text, none, body, none), key, t)
        = Record(v, status, text, Put(none, key, t), body, none)
  <2> HIDE DEF key, v, t, none
  <2> QED
    BY RecordSet
<1> QED
  BY <1>1, <1>2, Zenon DEF PlainFields

(* The type is on one line.                                                *)
LEMMA PlainFieldsAre ==
  ASSUME NEW type, type # "\n"
  PROVE  AreFields(PlainFields(type))
<1>1. "Content-Type" \in FieldName
  BY DEF FieldName
<1>2. OneLine(<<type>>)
  BY OneWord
<1> QED
  BY <1>1, <1>2, NoFields, FieldAdded, Zenon DEF PlainFields

(* Where the file is from does not matter for that.                        *)
LEMMA PlainWritable ==
  ASSUME NEW status, NEW text, NEW type, NEW body, NEW file,
         status \notin Space, text \notin Space, type # "\n", IsText(body)
  PROVE  /\ Writable(Plain(status, text, type, body))
         /\ Writable([Plain(status, text, type, body) EXCEPT !.file = file])
<1> DEFINE v == "HTTP/1.1"
           f == PlainFields(type)
<1>1. AreFields(f) /\ v \notin Space
  BY PlainFieldsAre DEF Space
<1>2. Plain(status, text, type, body)
        = Record(v, status, text, f, body, <<>>)
  BY PlainIs
<1> HIDE DEF v, f
<1>3. [Record(v, status, text, f, body, <<>>) EXCEPT !.file = file]
        = Record(v, status, text, f, body, file)
  BY DEF Record
<1>4. /\ Writable(Record(v, status, text, f, body, <<>>))
      /\ Writable(Record(v, status, text, f, body, file))
  BY <1>1, RecordWritable
<1> QED
  BY <1>2, <1>3, <1>4, Zenon

(* A 404.                                                                  *)
LEMMA NotFoundWritable ==
  ASSUME NEW message PROVE Writable(NotFound(message))
<1>1. /\ "404" \notin Space /\ "Not Found" \notin Space
      /\ "text/plain" # "\n"
  BY DEF Space
<1>2. IsText(<<message>>)
  BY OneWord
<1> QED
  BY <1>1, <1>2, PlainWritable, Zenon DEF NotFound

(* No MIME type has a line feed.                                           *)
LEMMA MimeTypeIs == ASSUME NEW ext PROVE MimeType(ext) # "\n"
<1>1. MimeType(ext) \in
        {"text/html", "text/css", "application/javascript", "image/png",
         "image/jpeg", "image/svg+xml", "application/json", "text/plain",
         "application/octet-stream"}
  BY DEF MimeType
<1> QED
  BY <1>1

(* A file is sent as text.                                                 *)
LEMMA FileWritable ==
  ASSUME NEW f \in File PROVE Writable(FromFile(f))
<1> DEFINE type == DetectMime(Last(f))
           body == FlattenSeq(f)
<1>1. type # "\n"
  BY MimeTypeIs, Zenon DEF DetectMime
<1>2. IsText(body)
  <2>1. f \in Seq(Name)
    BY HttpAssumption
  <2>2. Name \subseteq Seq(Token)
    <3> DEFINE R == Token \ {"/"}
    <3>1. R \subseteq Token
      OBVIOUS
    <3> HIDE DEF R
    <3>2. Seq(R) \subseteq Seq(Token)
      BY <3>1
    <3> QED
      BY <3>2 DEF Name, R
  <2> DEFINE S == Seq(Token)
             N == Name
  <2> HIDE DEF S, N
  <2>3. f \in Seq(S)
    <3>1. f \in Seq(N) /\ N \subseteq S
      BY <2>1, <2>2 DEF N, S
    <3> QED
      BY <3>1
  <2>4. body \in Seq(Token)
    BY <2>3, FlattenTypes, Zenon DEF S
  <2> HIDE DEF body
  <2> QED
    BY <2>4, TextIs DEF IsText
<1>3. "200" \notin Space /\ "OK" \notin Space
  BY DEF Space
<1> HIDE DEF type, body
<1> DEFINE ok == "200"
           okay == "OK"
<1> HIDE DEF ok, okay
<1>4. Writable([Plain(ok, okay, type, body) EXCEPT !.file = f])
  BY <1>1, <1>2, <1>3, PlainWritable DEF ok, okay
<1> QED
  BY <1>4, Zenon DEF FromFile, type, body, ok, okay

(* What ServeStatic returns is writable.                                   *)
LEMMA ServeStaticWritable ==
  ASSUME NEW path, NEW prefix, NEW res \in ServeStatic(path, prefix)
  PROVE  Writable(res)
<1>1. \/ \E message : res = NotFound(message)
      \/ \E f \in File : res = FromFile(f)
  BY DEF ServeStatic
<1> QED
  BY <1>1, NotFoundWritable, FileWritable

(* Whatever a handler makes of a request is writable.                      *)
LEMMA ResultsWritable ==
  ASSUME NEW handler, NEW res \in Results(handler), Echoed(req)
  PROVE  Writable(res)
<1> DEFINE lf == "\n"
<1>0. req.body \in Seq(Token) /\ req.path \in Seq(Token \ {lf})
  BY Zenon DEF Echoed
<1>1. CASE handler.returns = "file"
  BY <1>1, ServeStaticWritable DEF Results
<1>2. /\ "200" \notin Space /\ "201" \notin Space /\ "OK" \notin Space
      /\ "text/plain" # "\n" /\ "text/html" # "\n"
      /\ "application/json" # "\n"
  BY DEF Space
<1>3. IsText(req.body)
  <2> DEFINE b == req.body
  <2>1. b \in Seq(Token)
    BY <1>0
  <2> HIDE DEF b
  <2>2. IsText(b)
    BY <2>1, TextIs DEF IsText
  <2> QED
    BY <2>2, Zenon DEF b
<1>4. CASE handler.returns = "text"
  <2>1. res = TextResponse(<<"Received:", "\n">> \o req.body, "200")
    BY <1>4 DEF Results
  <2>2. IsText(<<"Received:", "\n">> \o req.body)
    <3> DEFINE b == req.body
               a == "Received:"
               S == Token \cup {a, lf}
    <3>1. b \in Seq(Token)
      BY <1>0
    <3> HIDE DEF b, a, lf
    <3>2. Token \subseteq S /\ a \in S /\ lf \in S
      OBVIOUS
    <3> HIDE DEF S
    <3>3. <<a, lf>> \in Seq(S)
      BY <3>2, Two
    <3>4. b \in Seq(S)
      BY <3>1, <3>2
    <3>5. <<a, lf>> \o b \in Seq(S)
      BY <3>3, <3>4
    <3>6. IsText(<<a, lf>> \o b)
      BY <3>5, TextIs, Zenon DEF IsText
    <3> QED
      BY <3>6, Zenon DEF a, b, lf
  <2> QED
    BY <1>2, <2>1, <2>2, PlainWritable, Zenon DEF TextResponse
<1>5. CASE handler.returns = "json"
  <2>1. res = Json(req.body, "201")
    BY <1>5 DEF Results
  <2> QED
    BY <1>2, <1>3, <2>1, PlainWritable, Zenon DEF Json
<1>6. CASE handler.returns = "html"
  <2>1. res = Html(req.body, "200")
    BY <1>6 DEF Results
  <2> QED
    BY <1>2, <1>3, <2>1, PlainWritable, Zenon DEF Html
<1>7. CASE handler.returns \notin {"file", "text", "json", "html"}
  <2>1. PICK b \in BOOLEAN : res = Redirect(req.path, b)
    BY <1>7 DEF Results
  <2> DEFINE path == req.path
             status == IF b THEN "301" ELSE "302"
             text == IF b THEN "Moved Permanently" ELSE "Found"
             type == "text/plain"
             to == "Redirecting to "
             body == <<to>> \o path
             f == PlainFields(type)
             v == "HTTP/1.1"
             key == "Location"
  <2>2. /\ status \notin Space /\ text \notin Space /\ v \notin Space
        /\ type # "\n" /\ key \in FieldName
    BY DEF Space, FieldName
  <2>3. OneLine(path)
    BY <1>0, OneLineIs
  <2>4. IsText(body)
    <3> DEFINE S == Token \cup {to}
    <3>1. path \in Seq(Token \ {lf})
      BY <1>0
    <3> HIDE DEF path, to, lf
    <3>2. Token \ {lf} \subseteq S /\ to \in S
      OBVIOUS
    <3> HIDE DEF S
    <3>3. <<to>> \in Seq(S)
      BY <3>2, One
    <3> DEFINE R == Token \ {lf}
    <3>4. path \in Seq(S)
      <4>1. path \in Seq(R) /\ R \subseteq S
        BY <3>1, <3>2
      <4> HIDE DEF R
      <4> QED
        BY <4>1
    <3>5. body \in Seq(S)
      BY <3>3, <3>4
    <3> HIDE DEF body
    <3> QED
      BY <3>5, TextIs, Zenon DEF IsText
  <2>5. AreFields(f)
    BY <2>2, PlainFieldsAre
  <2>6. res = SetHeader(Plain(status, text, type, body), key, path)
    BY <2>1, Zenon DEF Redirect
  <2>7. Plain(status, text, type, body) = Record(v, status, text, f, body, <<>>)
    BY PlainIs
  <2> HIDE DEF path, status, text, type, to, body, f, v, key
  <2>8. res = Record(v, status, text, Put(f, key, path), body, <<>>)
    <3> DEFINE none == <<>>
    <3>1. Plain(status, text, type, body)
            = Record(v, status, text, f, body, none)
      BY <2>7
    <3> HIDE DEF none
    <3>2. res = Record(v, status, text, Put(f, key, path), body, none)
      BY <2>6, <3>1, RecordSet
    <3> QED
      BY <3>2, Zenon DEF none
  <2>9. AreFields(Put(f, key, path))
    BY <2>2, <2>3, <2>5, FieldAdded
  <2> QED
    BY <2>2, <2>4, <2>8, <2>9, RecordWritable, Zenon
<1> QED
  BY <1>1, <1>4, <1>5, <1>6, <1>7

(* An upgrade.                                                             *)
LEMMA SwitchingWritable ==
  ASSUME NEW accept, OneLine(accept)
  PROVE  Writable(SwitchingProtocols(accept))
<1> DEFINE a == "Upgrade"
           b == "Connection"
           c == "Sec-WebSocket-Accept"
           u == <<"websocket">>
           w == <<"Upgrade">>
           v == "HTTP/1.1"
           s == "101"
           t == "Switching Protocols"
           none == <<>>
           f == Put(Put(Put(none, a, u), b, w), c, accept)
<1>1. /\ {a, b, c} \subseteq FieldName
      /\ v \notin Space /\ s \notin Space /\ t \notin Space
  BY DEF FieldName, Space
<1>2. OneLine(u) /\ OneLine(w)
  <2>1. "websocket" # "\n" /\ "Upgrade" # "\n"
    OBVIOUS
  <2> QED
    BY <2>1, OneWord, Zenon
<1>3. SwitchingProtocols(accept) = Record(v, s, t, f, none, none)
  BY Zenon DEF SwitchingProtocols, Record
<1>4. AreFields(none)
  BY NoFields
<1> HIDE DEF a, b, c, u, w, v, s, t, none
<1>5. AreFields(f)
  <2>1. AreFields(Put(none, a, u))
    BY <1>1, <1>2, <1>4, FieldAdded
  <2>2. AreFields(Put(Put(none, a, u), b, w))
    BY <1>1, <1>2, <2>1, FieldAdded
  <2> QED
    BY <1>1, <2>2, FieldAdded
<1> HIDE DEF f
<1>6. IsText(none)
  <2>1. none \in Seq({})
    BY DEF none
  <2> QED
    BY <2>1, TextIs, Zenon DEF IsText
<1> QED
  BY <1>1, <1>3, <1>5, <1>6, RecordWritable, Zenon

(* The answer to a key is on one line if the key is.                       *)
LEMMA AcceptIsOneLine ==
  ASSUME NEW key \in Seq(Token \ {"\n"})
  PROVE  OneLine(AcceptHandshake(key))
<1> DEFINE lf == "\n"
           a == "accept"
           S == Token \cup {a}
           T == S \ {lf}
<1>1. key \in Seq(Token \ {lf}) /\ a # lf
  OBVIOUS
<1> HIDE DEF lf, a
<1> DEFINE R == Token \ {lf}
<1>2. R \subseteq T /\ a \in T
  BY <1>1
<1>3. key \in Seq(R)
  BY <1>1
<1> HIDE DEF R, S, T
<1>4. <<a>> \in Seq(T)
  BY <1>2, One
<1>5. <<a>> \o key \in Seq(T)
  BY <1>2, <1>3, <1>4
<1>6. AcceptHandshake(key) = <<a>> \o key
  BY Zenon DEF AcceptHandshake, a
<1>7. AcceptHandshake(key) \in Seq(S \ {"\n"})
  BY <1>5, <1>6, Zenon DEF T, lf
<1> QED
  BY <1>7, OneLineIs, Zenon

-----------------------------------------------------------------------------
(* The whole invariant. *)

(* What one read gets is text.                                             *)
LEMMA ReadIsText ==
  ASSUME Dispatches, stage = "read",
         NEW n \in 1 .. Min({Len(stream), Limit})
  PROVE  SubSeq(stream, 1, n) \in Seq(Token)
<1>1. stream \in Seq(Token)
  <2>1. PICK pad \in Padding : meant \in Meant /\ stream = Text(meant, pad)
    BY DEF Dispatches, WritesRequest, Padding
  <2>2. meant.lead \in Seq(Token)
    BY <2>1, MeantAssumption, Zenon
  <2>3. pad \in Seq(Token)
    BY PaddingIs
  <2>4. PICK H : Text(meant, pad) = meant.lead \o H /\ BeginsAsMeant(H, meant)
    BY <2>1, <2>2, <2>3, StreamIs
  <2>5. H \in Seq(Token)
    BY <2>4, Zenon DEF BeginsAsMeant, Begins
  <2> DEFINE lead == meant.lead
  <2>6. lead \in Seq(Token)
    BY <2>2
  <2> HIDE DEF lead
  <2>7. lead \o H \in Seq(Token)
    BY <2>5, <2>6
  <2> QED
    BY <2>1, <2>4, <2>7, Zenon DEF lead
<1>2. n \in 1 .. Len(stream)
  <2>1. Len(stream) \in Nat
    BY <1>1
  <2>2. Min({Len(stream), Limit}) \in {Len(stream), Limit}
        /\ Min({Len(stream), Limit}) <= Len(stream)
    BY <2>1, HttpAssumption, MinOfTwo
  <2> HIDE DEF Min
  <2> QED
    BY <2>1, <2>2, HttpAssumption
<1> QED
  BY <1>1, <1>2

(* What EchoesText says.                                                   *)
LEMMA EchoesIs == EchoesText <=> (stage # "read" => Echoed(req))
  BY Zenon DEF EchoesText, Echoed

(* The read makes it so and no step undoes it.                             *)
LEMMA NextEchoes ==
  ASSUME Dispatches, EchoesText, [Next]_vars
  PROVE  EchoesText'
<1> DEFINE Right == stage # "read" => Echoed(req)
<1>1. EchoesText <=> Right
  BY EchoesIs
<1>2. EchoesText' <=> Right'
  BY <1>1, EchoesIs, PTL
<1> SUFFICES Right'
  BY <1>2
<1>3. CASE Read
  <2>1. stage = "read"
    BY <1>3 DEF Read
  <2>2. PICK n \in 1 .. Min({Len(stream), Limit}) :
          req' \in Parsed(SubSeq(stream, 1, n))
    BY <1>3, Zenon DEF Read
  <2>3. SubSeq(stream, 1, n) \in Seq(Token)
    BY <2>1, ReadIsText
  <2>4. Echoed(req')
    BY <2>2, <2>3, ParsedEchoes
  <2> QED
    BY <2>4
<1>4. CASE RejectMethod \/ Upgrade \/ CallRoute \/ NoRoute
  <2>1. stage # "read" /\ req' = req
    BY <1>4 DEF RejectMethod, Upgrade, CallRoute, NoRoute, Respond
  <2> QED
    BY <1>1, <2>1
<1>5. CASE Write \/ HandlerThrows
  <2>1. stage # "read" /\ req' = req
    BY <1>5 DEF Write, HandlerThrows
  <2> QED
    BY <1>1, <2>1
<1>6. CASE UNCHANGED vars
  BY <1>1, <1>6 DEF vars
<1> QED
  BY <1>3, <1>4, <1>5, <1>6 DEF Next

(* Every step that answers gives a response that can be written, and the   *)
(* write takes a beginning of it.                                          *)
LEMMA NextWrites ==
  ASSUME Dispatches, EchoesText, WritesResponse, [Next]_vars
  PROVE  WritesResponse'
<1>1. ASSUME NEW res, Respond(res), Writable(res) PROVE WritesResponse'
  <2>1. stage' = "write" /\ response' = res
    BY <1>1 DEF Respond
  <2>2. Writable(response')
    BY <1>1, <2>1
  <2> QED
    BY <2>1, <2>2 DEF WritesResponse
<1>2. CASE Read
  <2>1. stage' = "dispatch"
    BY <1>2 DEF Read
  <2> QED
    BY <2>1 DEF WritesResponse
<1>3. CASE RejectMethod
  BY <1>1, <1>3, NotFoundWritable DEF RejectMethod
<1>4. CASE Upgrade
  <2> DEFINE key == <<"sec-websocket-key">>
             accept == AcceptHandshake(req.headers[key])
  <2>1. /\ stage = "dispatch" /\ key \in DOMAIN req.headers
        /\ Respond(SwitchingProtocols(accept))
    BY <1>4 DEF Upgrade, IsWebSocketUpgrade
  <2>2. Echoed(req)
    BY <2>1, EchoesIs
  <2>3. req.headers[key] \in Seq(Token \ {"\n"})
    BY <2>1, <2>2, Zenon DEF Echoed
  <2>4. OneLine(accept)
    BY <2>3, AcceptIsOneLine
  <2> QED
    BY <1>1, <2>1, <2>4, SwitchingWritable
<1>5. CASE CallRoute
  <2>1. /\ stage = "dispatch"
        /\ \E handler : \E res \in Results(handler) : Respond(res)
    BY <1>5, Zenon DEF CallRoute
  <2>2. Echoed(req)
    BY <2>1, EchoesIs
  <2> QED
    BY <1>1, <2>1, <2>2, ResultsWritable
<1>6. CASE NoRoute
  BY <1>1, <1>6, NotFoundWritable DEF NoRoute
<1>7. CASE Write
  <2>1. /\ stage = "write" /\ stage' = "done" /\ response' = response
        /\ \E n \in 0 .. Len(Render(response)) :
             wire' = SubSeq(Render(response), 1, n)
    BY <1>7, Zenon DEF Write
  <2>2. Writable(response')
    BY <2>1 DEF WritesResponse
  <2> QED
    BY <2>1, <2>2, Zenon DEF WritesResponse
<1>8. CASE UNCHANGED vars
  <2>1. stage' = stage /\ response' = response /\ wire' = wire
    BY <1>8 DEF vars
  <2> QED
    BY <2>1, Zenon DEF WritesResponse
<1>9. CASE HandlerThrows
  <2>1. stage' = "thrown"
    BY <1>9 DEF HandlerThrows
  <2> QED
    BY <2>1 DEF WritesResponse
<1> QED
  BY <1>2, <1>3, <1>4, <1>5, <1>6, <1>7, <1>8, <1>9 DEF Next

(* The whole invariant holds at first.                                     *)
LEMMA InitIInv == Init => IInv
<1>1. Init => EchoesText /\ WritesResponse
  BY DEF Init, EchoesText, WritesResponse
<1> QED
  BY <1>1, InitDispatches DEF IInv

(* It has what the other proofs start from.                                *)
LEMMA IInvDispatches == IInv => Dispatches
  BY DEF IInv

(* It is inductive.                                                        *)
LEMMA NextIInv == IInv /\ [Next]_vars => IInv'
  BY NextDispatches, NextEchoes, NextWrites DEF IInv

(* So a client reads the answer back.                                      *)
LEMMA WrittenIsReadBack ==
  ASSUME IInv PROVE AnswerIsReadBack
<1>1. AnswerIsReadBack <=> (stage = "done" => ReadsBack(wire, response))
  BY Zenon DEF AnswerIsReadBack, ReadsBack
<1>2. CASE stage = "done"
  <2>1. PICK n \in 0 .. Len(Render(response)) :
          wire = SubSeq(Render(response), 1, n)
    BY <1>2 DEF IInv, WritesResponse
  <2>2. Writable(response)
    BY <1>2 DEF IInv, WritesResponse
  <2>3. ReadsBack(wire, response)
    BY <2>1, <2>2, PartIsReadBack
  <2> QED
    BY <1>1, <2>3
<1> QED
  BY <1>1, <1>2

-----------------------------------------------------------------------------
(* The results. *)

(* In every reachable state a request that was parsed has a method or      *)
(* none, at most one handler was called, on_http has a response exactly    *)
(* when it has one to write or has written it, and what of the request is  *)
(* in the response does not break a line of its head.                      *)
THEOREM IInvAlways == Spec => []IInv
<1> QED
  BY InitIInv, NextIInv, PTL DEF Spec

(* ServeStatic serves files below base_path only: for every request, also  *)
(* one that was cut, every route, prefix and base, and every tree without  *)
(* symbolic links in which no file is where the base or a directory above  *)
(* it is.                                                                  *)
THEOREM StaticFilesAreBelowBase == Spec => []ServedBelowBase
<1>1. IInv => ServedBelowBase
  BY FilesLieBelow DEF IInv, Dispatches, TypeOK, ServedBelowBase
<1> QED
  BY <1>1, IInvAlways, PTL

(* A request that was read whole gets the handler that was registered last *)
(* for its method and exactly its path, or else one for a beginning of the *)
(* path, or else a 404; after an empty line it gets a 404 whatever method  *)
(* is left in the request.  For all requests and all registrations.        *)
THEOREM RequestsReachTheirHandler == Spec => []RightHandler
<1>1. Init => RightHandler
  BY DEF Init, RightHandler
<1> QED
  BY <1>1, NextRightHandler, IInvAlways, IInvDispatches, PTL DEF Spec

(* Each file below base_path is served at its own URL, and index.html at   *)
(* that of the prefix, unless the file system fails.                       *)
THEOREM EachFileIsFound == Spec => []FilesAreFound
<1>1. Init => FilesAreFound
  BY DEF Init, FilesAreFound
<1> QED
  BY <1>1, NextFilesAreFound, IInvAlways, IInvDispatches, PTL DEF Spec

(* A request that was read whole is what the client had in mind.           *)
THEOREM RequestsAreUnderstood == Spec => []UnderstoodAsMeant
<1>1. Init => UnderstoodAsMeant
  BY DEF Init, UnderstoodAsMeant
<1> QED
  BY <1>1, NextUnderstood, IInvAlways, IInvDispatches, PTL DEF Spec

(* A client reads back of an answer what the handler returned, and nothing *)
(* of an answer that was cut.                                              *)
THEOREM AnswersAreReadBack == Spec => []AnswerIsReadBack
<1>1. IInv => AnswerIsReadBack
  BY WrittenIsReadBack
<1> QED
  BY <1>1, IInvAlways, PTL
=============================================================================
