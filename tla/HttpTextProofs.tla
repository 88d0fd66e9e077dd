--------------------------- MODULE HttpTextProofs ---------------------------
(***************************************************************************)
(* Proofs about the text of a request and of an answer, for all of them.   *)
(* Of a request: what cutting text at separators returns, that it undoes   *)
(* joining and joining undoes it, what a client writes, and that what      *)
(* parse_http_request reads of the request line, the header lines and the  *)
(* body is what was written.  Of an answer: that different lengths are     *)
(* written differently, that its head ends at its first empty line, and    *)
(* what a client reads of a beginning of it and of the whole.              *)
(***************************************************************************)
EXTENDS Http, DataInduction, FiniteSetTheorems

-----------------------------------------------------------------------------
(* Text put together. *)

(* Two texts one after the other.                                          *)
IsConcat(c, a, b, T) ==
  /\ c \in Seq(T) /\ Len(c) = Len(a) + Len(b)
  /\ Len(a) \in Nat /\ Len(b) \in Nat
  /\ \A i \in 1 .. Len(a) : c[i] = a[i]
  /\ \A i \in 1 .. Len(b) : c[Len(a) + i] = b[i]

(* What the concatenation of two texts is.                                 *)
LEMMA Concatenation ==
  ASSUME NEW T, NEW a \in Seq(T), NEW b \in Seq(T)
  PROVE  IsConcat(a \o b, a, b, T)
  BY DEF IsConcat

(* A text of one token.                                                    *)
LEMMA One ==
  ASSUME NEW T, NEW a \in T
  PROVE  <<a>> \in Seq(T) /\ Len(<<a>>) = 1 /\ <<a>>[1] = a
  OBVIOUS

(* The same for two tokens.                                                *)
LEMMA Two ==
  ASSUME NEW T, NEW a \in T, NEW b \in T
  PROVE  <<a, b>> \in Seq(T) /\ Len(<<a, b>>) = 2
         /\ <<a, b>>[1] = a /\ <<a, b>>[2] = b
  OBVIOUS

(* The same for four tokens.                                               *)
LEMMA Four ==
  ASSUME NEW T, NEW a \in T, NEW b \in T, NEW c \in T, NEW d \in T
  PROVE  <<a, b, c, d>> \in Seq(T) /\ Len(<<a, b, c, d>>) = 4
         /\ <<a, b, c, d>>[1] = a /\ <<a, b, c, d>>[2] = b
         /\ <<a, b, c, d>>[3] = c /\ <<a, b, c, d>>[4] = d
  OBVIOUS

(* It makes no difference which two of three texts are put together first. *)
Same3(x, y, z) == (x \o y) \o z = x \o (y \o z)

(* So the parts of a text may be grouped at will.                          *)
LEMMA Associative ==
  ASSUME NEW T, NEW x \in Seq(T), NEW y \in Seq(T), NEW z \in Seq(T)
  PROVE  Same3(x, y, z)
<1> DEFINE u == x \o y
           v == y \o z
           l == u \o z
           r == x \o v
           X == Len(x)
           Y == Len(y)
           Z == Len(z)
<1>1. /\ X \in Nat /\ Y \in Nat /\ Z \in Nat
      /\ u \in Seq(T) /\ Len(u) = X + Y
      /\ \A i \in 1 .. X : u[i] = x[i]
      /\ \A i \in 1 .. Y : u[X + i] = y[i]
  <2>1. IsConcat(u, x, y, T)
    BY Concatenation
  <2> HIDE DEF u
  <2> QED
    BY <2>1 DEF IsConcat, X, Y
<1>2. /\ v \in Seq(T) /\ Len(v) = Y + Z
      /\ \A i \in 1 .. Y : v[i] = y[i]
      /\ \A i \in 1 .. Z : v[Y + i] = z[i]
  <2>1. IsConcat(v, y, z, T)
    BY Concatenation
  <2> HIDE DEF v
  <2> QED
    BY <2>1 DEF IsConcat, Y, Z
<1> HIDE DEF u, v, X, Y, Z
<1>3. /\ l \in Seq(T) /\ Len(l) = (X + Y) + Z
      /\ \A i \in 1 .. X + Y : l[i] = u[i]
      /\ \A i \in 1 .. Z : l[(X + Y) + i] = z[i]
  <2>1. IsConcat(l, u, z, T)
    BY <1>1, Concatenation DEF l
  <2> HIDE DEF l
  <2> QED
    BY <1>1, <2>1 DEF IsConcat, Z
<1> HIDE DEF l
<1>4. /\ r \in Seq(T) /\ Len(r) = X + (Y + Z)
      /\ \A i \in 1 .. X : r[i] = x[i]
      /\ \A i \in 1 .. Y + Z : r[X + i] = v[i]
  <2>1. IsConcat(r, x, v, T)
    BY <1>2, Concatenation
  <2> HIDE DEF r
  <2> QED
    BY <1>2, <2>1 DEF IsConcat, X
<1> HIDE DEF r
<1>5. ASSUME NEW i \in 1 .. (X + Y) + Z PROVE l[i] = r[i]
  <2>1. CASE i <= X
    BY <1>1, <1>3, <1>4, <2>1
  <2>2. CASE i > X /\ i <= X + Y
    <3>1. i - X \in 1 .. Y /\ i - X \in 1 .. Y + Z /\ X + (i - X) = i
          /\ i \in 1 .. X + Y
      BY <1>1, <2>2
    <3>2. l[i] = u[X + (i - X)] /\ u[X + (i - X)] = y[i - X]
      BY <1>1, <1>3, <3>1
    <3>3. r[X + (i - X)] = v[i - X] /\ v[i - X] = y[i - X]
      BY <1>2, <1>4, <3>1
    <3> QED
      BY <3>1, <3>2, <3>3
  <2>3. CASE i > X + Y
    <3>1. /\ i - (X + Y) \in 1 .. Z /\ (X + Y) + (i - (X + Y)) = i
          /\ Y + (i - (X + Y)) \in 1 .. Y + Z
          /\ X + (Y + (i - (X + Y))) = i
      BY <1>1, <2>3
    <3>2. l[(X + Y) + (i - (X + Y))] = z[i - (X + Y)]
      BY <1>3, <3>1
    <3>3. /\ r[X + (Y + (i - (X + Y)))] = v[Y + (i - (X + Y))]
          /\ v[Y + (i - (X + Y))] = z[i - (X + Y)]
      BY <1>2, <1>4, <3>1
    <3> QED
      BY <3>1, <3>2, <3>3
  <2> QED
    BY <1>1, <2>1, <2>2, <2>3
<1>6. Len(l) = Len(r) /\ \A i \in 1 .. Len(l) : l[i] = r[i]
  BY <1>1, <1>3, <1>4, <1>5
<1>7. l = r
  BY <1>3, <1>4, <1>6
<1> QED
  BY <1>7 DEF Same3, l, r, u, v

(* The texts of which FlattenSeq makes one, joined one after another.      *)
AreJoined(g, seqs, T) ==
  /\ g[1] = seqs[1]
  /\ \A i \in 2 .. Len(seqs) : g[i] = g[i - 1] \o seqs[i]
  /\ \A i \in 1 .. Len(seqs) : g[i] \in Seq(T)
  /\ FlattenSeq(seqs) = g[Len(seqs)]

(* There are such texts.                                                   *)
LEMMA FlattenSteps ==
  ASSUME NEW T, NEW seqs \in Seq(Seq(T)), Len(seqs) # 0
  PROVE  \E h : AreJoined(h, seqs, T)
<1> DEFINE N == Len(seqs)
           Rec(f) == [i \in 1 .. N |-> IF i = 1 THEN seqs[i]
                                       ELSE f[i - 1] \o seqs[i]]
           op == [p \in Seq(T) \X Seq(T) |-> p[1] \o p[2]]
           g == CHOOSE f : f = Rec(f)
<1>1. N \in Nat /\ \A i \in 1 .. N : seqs[i] \in Seq(T)
  OBVIOUS
<1>2. FlattenSeq(seqs) = g[N]
  BY Zenon DEF FlattenSeq
<1>3. PICK f \in [SUBSET (1 .. N) -> Seq(T)] : IsFold(f, op, <<>>, seqs, N)
  <2>1. op \in [Seq(T) \X Seq(T) -> Seq(T)] /\ <<>> \in Seq(T)
    OBVIOUS
  <2> QED
    BY <2>1, FoldExists
<1> DEFINE c == [i \in 1 .. N |-> f[1 .. i]]
<1>4. ASSUME NEW i \in 1 .. N
      PROVE  f[1 .. i] = f[1 .. i - 1] \o seqs[i] /\ f[1 .. i] \in Seq(T)
  <2>1. /\ 1 .. i \in SUBSET (1 .. N) /\ 1 .. i # {}
        /\ Max(1 .. i) = i /\ (1 .. i) \ {i} = 1 .. i - 1
    BY <1>1, IndexSets, Zenon
  <2>2. f[1 .. i] = op[<<f[1 .. i - 1], seqs[i]>>]
    BY <1>3, <2>1 DEF IsFold
  <2>3. 1 .. i - 1 \in SUBSET (1 .. N)
    BY <2>1
  <2>4. f[1 .. i - 1] \in Seq(T) /\ f[1 .. i] \in Seq(T)
    BY <2>1, <2>3
  <2> QED
    BY <1>1, <2>2, <2>4
<1>5. ASSUME NEW i \in 1 .. N
      PROVE  c[i] = IF i = 1 THEN seqs[i] ELSE c[i - 1] \o seqs[i]
  <2>1. CASE i = 1
    <3>1. 1 .. i - 1 = {} /\ {} \in SUBSET (1 .. N)
      BY <2>1
    <3>2. f[{}] = <<>>
      BY <1>3, <3>1 DEF IsFold
    <3>3. <<>> \o seqs[i] = seqs[i]
      BY <1>1
    <3> QED
      BY <1>4, <2>1, <3>1, <3>2, <3>3
  <2>2. CASE i # 1
    <3>1. i - 1 \in 1 .. N
      BY <1>1, <2>2
    <3> QED
      BY <1>4, <2>2, <3>1
  <2> QED
    BY <2>1, <2>2
<1>6. g = Rec(g)
  <2>1. c = Rec(c)
    BY <1>5
  <2> HIDE DEF c
  <2> QED
    BY <2>1, Zenon
<1> HIDE DEF g
<1>7. g[1] = seqs[1] /\ \A i \in 2 .. N : g[i] = g[i - 1] \o seqs[i]
  <2>1. \A i \in 1 .. N : g[i] = IF i = 1 THEN seqs[i] ELSE g[i - 1] \o seqs[i]
    BY <1>6
  <2>2. /\ 1 \in 1 .. N /\ \A i \in 2 .. N : i \in 1 .. N /\ i # 1
    BY <1>1
  <2> QED
    BY <2>1, <2>2, Zenon
<1> DEFINE K == {n \in 0 .. N : n = 0 \/ g[n] \in Seq(T)}
<1>8. 0 \in K
  BY <1>1
<1>9. ASSUME NEW n \in 1 .. N, n - 1 \in K PROVE n \in K
  <2>1. seqs[n] \in Seq(T) /\ n \in 0 .. N
    BY <1>1
  <2>2. CASE n = 1
    BY <1>7, <2>1, <2>2
  <2>3. CASE n # 1
    <3>1. n \in 2 .. N /\ g[n - 1] \in Seq(T)
      BY <1>1, <1>9, <2>3
    <3>2. g[n - 1] \o seqs[n] \in Seq(T)
      BY <2>1, <3>1
    <3> QED
      BY <1>7, <2>1, <3>1, <3>2
  <2> QED
    BY <2>2, <2>3
<1> HIDE DEF K
<1>10. \A n \in 0 .. N : n \in K
  BY <1>1, <1>8, <1>9, SetInduction
<1>11. \A i \in 1 .. N : g[i] \in Seq(T)
  BY <1>1, <1>10 DEF K
<1>12. AreJoined(g, seqs, T)
  BY <1>2, <1>7, <1>11 DEF AreJoined
<1> QED
  BY <1>12

(* The concatenation of texts is a text.                                   *)
LEMMA FlattenTypes ==
  ASSUME NEW T, NEW seqs \in Seq(Seq(T))
  PROVE  FlattenSeq(seqs) \in Seq(T)
<1>1. CASE Len(seqs) = 0
  <2>1. FlattenSeq(seqs) = seqs /\ seqs = <<>>
    BY <1>1 DEF FlattenSeq
  <2> QED
    BY <2>1
<1>2. CASE Len(seqs) # 0
  <2>1. PICK g : AreJoined(g, seqs, T)
    BY <1>2, FlattenSteps
  <2>2. Len(seqs) \in 1 .. Len(seqs)
    BY <1>2
  <2> QED
    BY <2>1, <2>2 DEF AreJoined
<1> QED
  BY <1>1, <1>2

(* So is what Join makes of texts and a separator.                         *)
LEMMA JoinTypes ==
  ASSUME NEW T, NEW pieces \in Seq(Seq(T)), NEW sep \in T
  PROVE  Join(pieces, sep) \in Seq(T)
<1> DEFINE seqs == [i \in DOMAIN pieces |->
                      IF i = 1 THEN pieces[1] ELSE <<sep>> \o pieces[i]]
<1>1. seqs \in Seq(Seq(T))
  <2>1. DOMAIN pieces = 1 .. Len(pieces) /\ Len(pieces) \in Nat
    OBVIOUS
  <2>2. ASSUME NEW i \in 1 .. Len(pieces)
        PROVE  pieces[1] \in Seq(T) /\ <<sep>> \o pieces[i] \in Seq(T)
    <3>1. pieces[i] \in Seq(T) /\ <<sep>> \in Seq(T) /\ 1 \in 1 .. Len(pieces)
      OBVIOUS
    <3> QED
      BY <3>1
  <2> QED
    BY <2>1, <2>2
<1> HIDE DEF seqs
<1>2. FlattenSeq(seqs) \in Seq(T)
  BY <1>1, FlattenTypes
<1> QED
  BY <1>2 DEF Join, seqs

-----------------------------------------------------------------------------
(* Text cut at separators. *)

(* One step of the fold in Cut, and what Cut makes of its result.          *)
CutStart == [done |-> <<>>, cur |-> <<>>]
CutNext(separators, least, acc, t) ==
  IF t \notin separators THEN [acc EXCEPT !.cur = Append(@, t)]
  ELSE IF Len(acc.cur) < least THEN acc
  ELSE [done |-> Append(acc.done, acc.cur), cur |-> <<>>]
CutEnd(acc) ==
  IF acc.cur = <<>> THEN acc.done ELSE Append(acc.done, acc.cur)
Cutting(T) == [done : Seq(Seq(T)), cur : Seq(T)]

(* What Cut has after each token.                                          *)
AreCuts(a, s, separators, least, T) ==
  /\ s \in Seq(T) /\ least \in Nat
  /\ a[0] = CutStart
  /\ \A n \in 1 .. Len(s) : a[n] = CutNext(separators, least, a[n - 1], s[n])
  /\ \A n \in 0 .. Len(s) : a[n] \in Cutting(T)
  /\ Cut(s, separators, least) = CutEnd(a[Len(s)])

(* A step of the fold keeps to texts.                                      *)
LEMMA CutTypes ==
  ASSUME NEW T, NEW separators, NEW least \in Nat,
         NEW acc \in Cutting(T), NEW t \in T
  PROVE  CutNext(separators, least, acc, t) \in Cutting(T)
<1>1. /\ acc = [done |-> acc.done, cur |-> acc.cur]
      /\ acc.done \in Seq(Seq(T)) /\ acc.cur \in Seq(T)
  BY DEF Cutting
<1>2. /\ Append(acc.cur, t) \in Seq(T)
      /\ Append(acc.done, acc.cur) \in Seq(Seq(T)) /\ <<>> \in Seq(T)
  BY <1>1
<1>3. CASE t \notin separators
  <2>1. CutNext(separators, least, acc, t)
          = [done |-> acc.done, cur |-> Append(acc.cur, t)]
    BY <1>1, <1>3 DEF CutNext
  <2> QED
    BY <1>1, <1>2, <2>1 DEF Cutting
<1>4. CASE t \in separators
  BY <1>1, <1>2, <1>4 DEF CutNext, Cutting
<1> QED
  BY <1>3, <1>4

(* Cut has something after each token of every text.                       *)
LEMMA CutRuns ==
  ASSUME NEW T, NEW s \in Seq(T), NEW separators, NEW least \in Nat
  PROVE  \E a : AreCuts(a, s, separators, least, T)
<1> DEFINE N == Len(s)
           B == Cutting(T)
           op == [p \in B \X T |-> CutNext(separators, least, p[1], p[2])]
           Rec(f) == [S \in SUBSET (DOMAIN s) |->
                        IF S = {} THEN CutStart
                        ELSE CutNext(separators, least, f[S \ {Max(S)}],
                                     s[Max(S)])]
<1>1. /\ N \in Nat /\ DOMAIN s = 1 .. N
      /\ \A i \in 1 .. N : s[i] \in T
  OBVIOUS
<1>2. CutStart \in B
  BY DEF CutStart, Cutting
<1>3. op \in [B \X T -> B]
  BY CutTypes
<1>4. Cut(s, separators, least) = CutEnd((CHOOSE f : f = Rec(f))[DOMAIN s])
  BY Zenon DEF Cut, FoldLeft, MapThenFoldSet, CutNext, CutStart, CutEnd
<1> DEFINE g == CHOOSE f : f = Rec(f)
<1>5. g = Rec(g)
  <2>1. PICK f \in [SUBSET (1 .. N) -> B] : IsFold(f, op, CutStart, s, N)
    BY <1>2, <1>3, FoldExists
  <2>2. ASSUME NEW S \in SUBSET (DOMAIN s)
        PROVE  f[S] = IF S = {} THEN CutStart
                      ELSE CutNext(separators, least, f[S \ {Max(S)}],
                                   s[Max(S)])
    <3>1. CASE S = {}
      BY <1>1, <2>1, <3>1 DEF IsFold
    <3>2. CASE S # {}
      <4>1. f[S] = op[<<f[S \ {Max(S)}], s[Max(S)]>>]
        BY <1>1, <2>1, <3>2 DEF IsFold
      <4>2. f[S \ {Max(S)}] \in B
        BY <1>1
      <4>3. Max(S) \in 1 .. N
        BY <1>1, <3>2, MaxOfIndices
      <4> QED
        BY <1>1, <3>2, <4>1, <4>2, <4>3
    <3> QED
      BY <3>1, <3>2
  <2>3. f = Rec(f)
    BY <1>1, <2>2
  <2> QED
    BY <2>3, Zenon
<1> HIDE DEF g
<1>6. g[{}] = CutStart
  BY <1>5, Zenon
<1>7. ASSUME NEW n \in 1 .. N
      PROVE  g[1 .. n] = CutNext(separators, least, g[1 .. n - 1], s[n])
  <2>1. /\ 1 .. n \in SUBSET (1 .. N) /\ 1 .. n # {}
        /\ Max(1 .. n) = n /\ (1 .. n) \ {n} = 1 .. n - 1
    BY <1>1, IndexSets, Zenon
  <2>2. g[1 .. n] = Rec(g)[1 .. n]
    BY <1>5, Zenon
  <2>3. g[1 .. n] = CutNext(separators, least, g[(1 .. n) \ {Max(1 .. n)}],
                            s[Max(1 .. n)])
    BY <1>1, <2>1, <2>2
  <2> QED
    BY <2>1, <2>3, Zenon
<1> DEFINE a == [n \in 0 .. N |-> g[1 .. n]]
           K == {n \in 0 .. N : a[n] \in B}
<1>8. /\ 0 \in 0 .. N /\ N \in 0 .. N /\ 1 .. 0 = {}
      /\ \A n \in 1 .. N : n \in 0 .. N /\ n - 1 \in 0 .. N
  BY <1>1
<1>9. a[0] = CutStart /\ a[N] = g[1 .. N]
  BY <1>6, <1>8
<1>10. ASSUME NEW n \in 1 .. N
       PROVE  a[n] = CutNext(separators, least, a[n - 1], s[n])
  <2>1. a[n] = g[1 .. n] /\ a[n - 1] = g[1 .. n - 1]
    BY <1>8
  <2> QED
    BY <1>7, <2>1, Zenon
<1> HIDE DEF a
<1>11. \A n \in 0 .. N : n \in K
  <2>1. 0 \in K
    BY <1>2, <1>8, <1>9
  <2>2. ASSUME NEW n \in 1 .. N, n - 1 \in K PROVE n \in K
    <3>1. a[n - 1] \in B /\ s[n] \in T
      BY <1>1, <2>2
    <3>2. a[n] \in B
      BY <1>10, <3>1, CutTypes
    <3> QED
      BY <1>8, <3>2
  <2> HIDE DEF K
  <2> QED
    BY <1>1, <2>1, <2>2, SetInduction
<1>12. Cut(s, separators, least) = CutEnd(a[N])
  BY <1>1, <1>4, <1>9, Zenon DEF g
<1>13. AreCuts(a, s, separators, least, T)
  BY <1>9, <1>10, <1>11, <1>12 DEF AreCuts
<1> QED
  BY <1>13

(* There is no separator between two places of a text, where a part begins *)
(* at the first.                                                           *)
NoneBetween(a, s, separators, m, n) ==
  /\ m \in 0 .. Len(s) /\ n \in m .. Len(s) /\ a[m].cur = <<>>
  /\ \A j \in m + 1 .. n : s[j] \notin separators
Gathered(a, s, m, n) ==
  a[n].done = a[m].done /\ a[n].cur = SubSeq(s, m + 1, n)

(* There is a separator after a part that is long enough.                  *)
SeparatorAt(a, s, separators, least, n) ==
  n \in 1 .. Len(s) /\ s[n] \in separators /\ Len(a[n - 1].cur) >= least
PartEnded(a, n) ==
  a[n].done = Append(a[n - 1].done, a[n - 1].cur) /\ a[n].cur = <<>>

(* A part of the text that is done at a place.                             *)
HasPart(a, s, m, i) == m \in 0 .. Len(s) /\ i \in 1 .. Len(a[m].done)

(* Between separators the tokens gather in the current part.               *)
LEMMA Gather ==
  ASSUME NEW T, NEW s, NEW separators, NEW least,
         NEW a, AreCuts(a, s, separators, least, T),
         NEW m, NEW n, NoneBetween(a, s, separators, m, n)
  PROVE  Gathered(a, s, m, n)
<1> DEFINE N == n - m
           Right(k) == /\ a[m + k].done = a[m].done
                       /\ a[m + k].cur = SubSeq(s, m + 1, m + k)
           K == {k \in 0 .. N : Right(k)}
<1>0. s \in Seq(T) /\ Len(s) \in Nat /\ least \in Nat
  BY DEF AreCuts
<1>1. /\ N \in Nat /\ m + N = n /\ N \in 0 .. N
      /\ m \in 0 .. Len(s) /\ n \in m .. Len(s)
      /\ \A j \in m + 1 .. n : s[j] \notin separators
      /\ a[m].cur = <<>>
  BY <1>0 DEF NoneBetween
<1>2. 0 \in K
  <2>1. SubSeq(s, m + 1, m) = <<>> /\ m + 0 = m
    BY <1>0, <1>1
  <2>2. Right(0)
    BY <1>1, <2>1
  <2> HIDE DEF Right
  <2> QED
    BY <1>1, <2>2
<1>3. ASSUME NEW k \in 1 .. N, k - 1 \in K PROVE k \in K
  <2>1. /\ m + k \in 1 .. Len(s) /\ m + (k - 1) = (m + k) - 1
        /\ m + k \in m + 1 .. n /\ (m + k) - 1 \in 0 .. Len(s)
        /\ m \in Nat /\ m + k \in Nat
    BY <1>0, <1>1
  <2>2. Right(k - 1)
    BY <1>3
  <2>3. a[(m + k) - 1] \in Cutting(T) /\ s[m + k] \notin separators
    BY <1>1, <2>1 DEF AreCuts
  <2>4. a[m + k] = CutNext(separators, least, a[(m + k) - 1], s[m + k])
    BY <2>1 DEF AreCuts
  <2>5. /\ a[m + k].done = a[(m + k) - 1].done
        /\ a[m + k].cur = Append(a[(m + k) - 1].cur, s[m + k])
    BY <2>3, <2>4 DEF CutNext, Cutting
  <2>6. Append(SubSeq(s, m + 1, (m + k) - 1), s[m + k])
          = SubSeq(s, m + 1, m + k)
    <3>1. DOMAIN s = 1 .. Len(s) /\ m + 1 <= m + k
      BY <1>0, <1>1
    <3> QED
      BY <1>0, <2>1, <3>1
  <2>7. Right(k)
    BY <2>1, <2>2, <2>5, <2>6
  <2> HIDE DEF Right
  <2> QED
    BY <2>7
<1> HIDE DEF K
<1>4. \A k \in 0 .. N : k \in K
  BY <1>1, <1>2, <1>3, SetInduction
<1>5. Right(N)
  BY <1>1, <1>4 DEF K
<1> QED
  BY <1>1, <1>5 DEF Gathered

(* A separator after a part that is not empty, or that is kept, ends it.   *)
LEMMA CutHere ==
  ASSUME NEW T, NEW s, NEW separators, NEW least,
         NEW a, AreCuts(a, s, separators, least, T),
         NEW n, SeparatorAt(a, s, separators, least, n)
  PROVE  PartEnded(a, n)
<1>0. /\ n \in 1 .. Len(s) /\ s[n] \in separators
      /\ Len(a[n - 1].cur) >= least
  BY DEF SeparatorAt
<1>1. /\ a[n] = CutNext(separators, least, a[n - 1], s[n])
      /\ a[n - 1] \in Cutting(T) /\ least \in Nat
  <2>1. s \in Seq(T) /\ Len(s) \in Nat /\ n - 1 \in 0 .. Len(s)
    BY <1>0 DEF AreCuts
  <2> QED
    BY <1>0, <2>1 DEF AreCuts
<1>2. a[n] = [done |-> Append(a[n - 1].done, a[n - 1].cur), cur |-> <<>>]
  <2>1. Len(a[n - 1].cur) \in Nat
    BY <1>1 DEF Cutting
  <2>2. ~ (Len(a[n - 1].cur) < least)
    BY <1>0, <1>1, <2>1
  <2> QED
    BY <1>0, <1>1, <2>2 DEF CutNext
<1> QED
  BY <1>2 DEF PartEnded

(* A part that is done stays what it is.                                   *)
LEMMA DoneStays ==
  ASSUME NEW T, NEW s, NEW separators, NEW least,
         NEW a, AreCuts(a, s, separators, least, T),
         NEW m, NEW i, HasPart(a, s, m, i)
  PROVE  /\ Cut(s, separators, least) \in Seq(Seq(T))
         /\ i <= Len(Cut(s, separators, least))
         /\ Cut(s, separators, least)[i] = a[m].done[i]
<1> DEFINE N == Len(s) - m
           Right(k) == /\ i <= Len(a[m + k].done)
                       /\ a[m + k].done[i] = a[m].done[i]
           K == {k \in 0 .. N : Right(k)}
<1>0. s \in Seq(T) /\ Len(s) \in Nat /\ least \in Nat
  BY DEF AreCuts
<1>1. /\ N \in Nat /\ m + N = Len(s) /\ m \in Nat /\ N \in 0 .. N
      /\ Len(s) \in 0 .. Len(s) /\ m \in 0 .. Len(s)
      /\ i \in 1 .. Len(a[m].done)
  BY <1>0 DEF HasPart
<1>2. \A k \in 0 .. N : /\ a[m + k].done \in Seq(Seq(T))
                        /\ a[m + k].cur \in Seq(T)
  <2>1. ASSUME NEW k \in 0 .. N PROVE a[m + k] \in Cutting(T)
    BY <1>1 DEF AreCuts
  <2> QED
    BY <2>1 DEF Cutting
<1>3. a[m + 0] = a[m] /\ a[m].done \in Seq(Seq(T))
  BY <1>1, <1>2
<1>4. i \in Nat \ {0} /\ 0 \in K
  <2>1. i \in Nat \ {0}
    BY <1>1, <1>3
  <2>2. Right(0)
    BY <1>1, <1>3, <2>1
  <2> HIDE DEF Right
  <2> QED
    BY <1>1, <2>1, <2>2
<1>5. ASSUME NEW k \in 1 .. N, k - 1 \in K PROVE k \in K
  <2> DEFINE b == a[m + (k - 1)]
  <2>1. /\ m + k \in 1 .. Len(s) /\ m + (k - 1) = (m + k) - 1
        /\ k - 1 \in 0 .. N /\ (m + k) - 1 \in 0 .. Len(s)
    BY <1>0, <1>1
  <2>2. Right(k - 1)
    BY <1>5
  <2>3. a[m + k] = CutNext(separators, least, b, s[m + k])
    BY <2>1 DEF AreCuts
  <2>4. b.done \in Seq(Seq(T)) /\ b.cur \in Seq(T) /\ b \in Cutting(T)
    <3>1. b \in Cutting(T)
      BY <2>1 DEF AreCuts
    <3> QED
      BY <1>2, <2>1, <3>1
  <2> HIDE DEF b
  <2>5. \/ a[m + k].done = b.done
        \/ a[m + k].done = Append(b.done, b.cur)
    BY <2>3, <2>4 DEF CutNext, Cutting
  <2>6. i <= Len(b.done) /\ b.done[i] = a[m].done[i]
    BY <2>2 DEF b
  <2>7. ASSUME a[m + k].done = b.done PROVE Right(k)
    BY <2>6, <2>7
  <2>8. ASSUME a[m + k].done = Append(b.done, b.cur) PROVE Right(k)
    <3>1. /\ Append(b.done, b.cur)[i] = b.done[i]
          /\ i <= Len(Append(b.done, b.cur))
      BY <1>4, <2>4, <2>6
    <3> QED
      BY <2>6, <2>8, <3>1
  <2>9. Right(k)
    BY <2>5, <2>7, <2>8
  <2>10. k \in 0 .. N
    BY <1>1
  <2> QED
    BY <2>9, <2>10, Zenon
<1> HIDE DEF K
<1>6. \A k \in 0 .. N : k \in K
  BY <1>1, <1>4, <1>5, SetInduction
<1>7. Right(N)
  BY <1>1, <1>6 DEF K
<1>8. /\ i <= Len(a[Len(s)].done)
      /\ a[Len(s)].done[i] = a[m].done[i]
      /\ a[Len(s)].done \in Seq(Seq(T)) /\ a[Len(s)].cur \in Seq(T)
  BY <1>1, <1>2, <1>7
<1>9. Cut(s, separators, least) = CutEnd(a[Len(s)])
  BY DEF AreCuts
<1>10. \/ Cut(s, separators, least) = a[Len(s)].done
       \/ Cut(s, separators, least) = Append(a[Len(s)].done, a[Len(s)].cur)
  BY <1>9 DEF CutEnd
<1> DEFINE done == a[Len(s)].done
           cur == a[Len(s)].cur
<1>11. /\ Append(done, cur) \in Seq(Seq(T))
       /\ i <= Len(Append(done, cur)) /\ Append(done, cur)[i] = done[i]
  BY <1>4, <1>8
<1> QED
  BY <1>8, <1>10, <1>11

(* The first of several lines.                                             *)
LEMMA FirstPiece ==
  ASSUME NEW T, NEW s \in Seq(T), NEW sep, NEW n \in 1 .. Len(s), s[n] = sep,
         \A j \in 1 .. n - 1 : s[j] # sep
  PROVE  Pieces(s, sep) # <<>> /\ Pieces(s, sep)[1] = SubSeq(s, 1, n - 1)
<1> DEFINE seps == {sep}
<1>0. s[n] \in seps /\ \A j \in 1 .. n - 1 : s[j] \notin seps
  OBVIOUS
<1> HIDE DEF seps
<1>1. PICK a : AreCuts(a, s, seps, 0, T)
  BY CutRuns
<1>2. a[0].done = <<>> /\ a[0].cur = <<>>
  BY <1>1 DEF AreCuts, CutStart
<1>3. a[n - 1].done = <<>> /\ a[n - 1].cur = SubSeq(s, 1, n - 1)
  <2>1. NoneBetween(a, s, seps, 0, n - 1)
    BY <1>0, <1>2 DEF NoneBetween
  <2>2. Gathered(a, s, 0, n - 1)
    BY <1>1, <2>1, Gather
  <2> QED
    BY <1>2, <2>2 DEF Gathered
<1>4. a[n].done = Append(a[n - 1].done, a[n - 1].cur)
  <2>1. SeparatorAt(a, s, seps, 0, n)
    BY <1>0, <1>3 DEF SeparatorAt
  <2>2. PartEnded(a, n)
    BY <1>1, <2>1, CutHere
  <2> QED
    BY <2>2 DEF PartEnded
<1>5. a[n].done = <<SubSeq(s, 1, n - 1)>>
  BY <1>3, <1>4
<1>6. 1 \in 1 .. Len(a[n].done) /\ a[n].done[1] = SubSeq(s, 1, n - 1)
  BY <1>5
<1>7. HasPart(a, s, n, 1)
  BY <1>6 DEF HasPart
<1>8. /\ Cut(s, seps, 0) \in Seq(Seq(T)) /\ 1 <= Len(Cut(s, seps, 0))
      /\ Cut(s, seps, 0)[1] = a[n].done[1]
  BY <1>1, <1>7, DoneStays
<1>9. Pieces(s, sep) = Cut(s, seps, 0)
  BY DEF Pieces, seps
<1> QED
  BY <1>6, <1>8, <1>9

(* The first two words of a line.                                          *)
LEMMA TwoWords ==
  ASSUME NEW T, NEW s \in Seq(T),
         NEW m \in 2 .. Len(s), NEW n \in m + 2 .. Len(s),
         s[m] \in Space, s[n] \in Space,
         \A j \in 1 .. n - 1 : j # m => s[j] \notin Space
  PROVE  /\ Word(s, 1) = SubSeq(s, 1, m - 1)
         /\ Word(s, 2) = SubSeq(s, m + 1, n - 1)
<1>1. PICK a : AreCuts(a, s, Space, 1, T)
  BY CutRuns
<1>2. a[0].done = <<>> /\ a[0].cur = <<>>
  BY <1>1 DEF AreCuts, CutStart
<1>3. /\ 0 \in 0 .. Len(s) /\ 0 + 1 = 1 /\ m - 1 \in 0 .. Len(s)
      /\ m \in 0 .. Len(s) /\ m \in 1 .. Len(s)
      /\ n - 1 \in m .. Len(s) /\ n \in 0 .. Len(s) /\ n \in 1 .. Len(s)
      /\ m \in Nat /\ n \in Nat /\ Len(s) \in Nat
  OBVIOUS
<1>4. a[m - 1].done = <<>> /\ a[m - 1].cur = SubSeq(s, 1, m - 1)
  <2>1. NoneBetween(a, s, Space, 0, m - 1)
    BY <1>2, <1>3 DEF NoneBetween
  <2>2. Gathered(a, s, 0, m - 1)
    BY <1>1, <2>1, Gather
  <2> QED
    BY <1>2, <2>2 DEF Gathered
<1>5. Len(SubSeq(s, 1, m - 1)) >= 1 /\ Len(SubSeq(s, m + 1, n - 1)) >= 1
  <2>1. /\ Len(SubSeq(s, 1, m - 1)) = m - 1
        /\ Len(SubSeq(s, m + 1, n - 1)) = n - 1 - m
    BY <1>3
  <2> QED
    BY <1>3, <2>1
<1>6. a[m].done = <<SubSeq(s, 1, m - 1)>> /\ a[m].cur = <<>>
  <2>1. SeparatorAt(a, s, Space, 1, m)
    BY <1>3, <1>4, <1>5 DEF SeparatorAt
  <2>2. PartEnded(a, m)
    BY <1>1, <2>1, CutHere
  <2> QED
    BY <1>4, <2>2 DEF PartEnded
<1>7. a[n - 1].done = a[m].done /\ a[n - 1].cur = SubSeq(s, m + 1, n - 1)
  <2>1. NoneBetween(a, s, Space, m, n - 1)
    BY <1>3, <1>6 DEF NoneBetween
  <2>2. Gathered(a, s, m, n - 1)
    BY <1>1, <2>1, Gather
  <2> QED
    BY <2>2 DEF Gathered
<1>8. a[n].done = Append(a[n - 1].done, a[n - 1].cur)
  <2>1. SeparatorAt(a, s, Space, 1, n)
    BY <1>3, <1>5, <1>7 DEF SeparatorAt
  <2>2. PartEnded(a, n)
    BY <1>1, <2>1, CutHere
  <2> QED
    BY <2>2 DEF PartEnded
<1>10. /\ 1 \in 1 .. Len(a[n].done) /\ a[n].done[1] = SubSeq(s, 1, m - 1)
       /\ 2 \in 1 .. Len(a[n].done) /\ a[n].done[2] = SubSeq(s, m + 1, n - 1)
  <2> DEFINE x == SubSeq(s, 1, m - 1)
             y == SubSeq(s, m + 1, n - 1)
  <2>1. x \in Seq(T) /\ y \in Seq(T)
    BY <1>3
  <2>2. a[n].done = Append(<<x>>, y)
    BY <1>6, <1>7, <1>8, Zenon
  <2> HIDE DEF x, y
  <2>3. <<x>> \in Seq(Seq(T)) /\ Len(<<x>>) = 1 /\ <<x>>[1] = x
    BY <2>1
  <2>4. /\ Len(Append(<<x>>, y)) = 2
        /\ Append(<<x>>, y)[1] = x /\ Append(<<x>>, y)[2] = y
    BY <2>1, <2>3
  <2>5. 1 \in 1 .. 2 /\ 2 \in 1 .. 2
    OBVIOUS
  <2> QED
    BY <2>2, <2>4, <2>5, Zenon DEF x, y
<1>13. HasPart(a, s, n, 1) /\ HasPart(a, s, n, 2)
  BY <1>3, <1>10 DEF HasPart
<1>11. /\ Words(s) \in Seq(Seq(T)) /\ 2 <= Len(Words(s))
       /\ Words(s)[1] = a[n].done[1] /\ Words(s)[2] = a[n].done[2]
  BY <1>1, <1>13, DoneStays DEF Words
<1>12. 1 <= Len(Words(s))
  BY <1>11
<1> QED
  BY <1>10, <1>11, <1>12 DEF Word

-----------------------------------------------------------------------------
(* Text that is joined and cut again. *)

(* What follows a beginning of a text.                                     *)
LEMMA FromAfter ==
  ASSUME NEW T, NEW x \in Seq(T), NEW y \in Seq(T)
  PROVE  IsPrefix(x, x \o y) /\ From(x \o y, Len(x) + 1) = y
<1> DEFINE z == x \o y
           X == Len(x)
           Y == Len(y)
<1>1. IsConcat(z, x, y, T)
  BY Concatenation
<1> HIDE DEF z
<1>2. /\ z \in Seq(T) /\ Len(z) = X + Y /\ X \in Nat /\ Y \in Nat
      /\ \A i \in 1 .. X : z[i] = x[i]
      /\ \A i \in 1 .. Y : z[X + i] = y[i]
  BY <1>1 DEF IsConcat
<1>3. SubSeq(x, 1, X) = SubSeq(z, 1, X) /\ X <= Len(z)
  BY <1>2
<1>4. IsPrefix(x, z)
  BY <1>3 DEF IsPrefix
<1>5. SubSeq(z, X + 1, Len(z)) = y
  <2> DEFINE w == SubSeq(z, X + 1, X + Y)
  <2>1. w \in Seq(T) /\ Len(w) = Y /\ \A i \in 1 .. Y : w[i] = z[X + i]
    BY <1>2
  <2> HIDE DEF w
  <2>2. w = y
    BY <1>2, <2>1, SMTT(30)
  <2> QED
    BY <1>2, <2>2 DEF w
<1> QED
  BY <1>4, <1>5 DEF From, z

(* A run over a text goes like one over what it begins with.               *)
LEMMA RunsAgree ==
  ASSUME NEW T, NEW separators, NEW least, NEW x \in Seq(T), NEW y \in Seq(T),
         NEW a, AreCuts(a, x, separators, least, T),
         NEW b, AreCuts(b, x \o y, separators, least, T)
  PROVE  b[Len(x)] = a[Len(x)]
<1> DEFINE N == Len(x)
           K == {n \in 0 .. N : b[n] = a[n]}
           z == x \o y
<1>1. /\ N \in Nat /\ Len(z) \in Nat /\ N <= Len(z)
      /\ \A i \in 1 .. N : z[i] = x[i]
  <2>1. IsConcat(z, x, y, T)
    BY Concatenation
  <2> HIDE DEF z
  <2> QED
    BY <2>1 DEF IsConcat
<1> HIDE DEF z
<1>2. /\ a[0] = CutStart /\ b[0] = CutStart
      /\ \A n \in 1 .. N : a[n] = CutNext(separators, least, a[n - 1], x[n])
      /\ \A n \in 1 .. Len(z) :
           b[n] = CutNext(separators, least, b[n - 1], z[n])
  BY DEF AreCuts, z
<1>3. 0 \in K
  BY <1>1, <1>2
<1>4. ASSUME NEW n \in 1 .. N, n - 1 \in K PROVE n \in K
  <2>1. n \in 1 .. Len(z) /\ z[n] = x[n] /\ n \in 0 .. N
    BY <1>1
  <2>2. b[n - 1] = a[n - 1]
    BY <1>4
  <2>3. b[n] = a[n]
    BY <1>2, <2>1, <2>2, Zenon
  <2> QED
    BY <2>1, <2>3
<1> HIDE DEF K
<1>5. \A n \in 0 .. N : n \in K
  BY <1>1, <1>3, <1>4, SetInduction
<1>6. N \in K
  BY <1>1, <1>5
<1> QED
  BY <1>6 DEF K

(* What Cut has at the end of a text.                                      *)
EndsWith(s, separators, least, T, done, cur) ==
  \A a : AreCuts(a, s, separators, least, T) =>
           a[Len(s)].done = done /\ a[Len(s)].cur = cur

(* A text without separators is one part.                                  *)
LEMMA OnePart ==
  ASSUME NEW T, NEW separators, NEW least, NEW s \in Seq(T),
         \A i \in 1 .. Len(s) : s[i] \notin separators
  PROVE  EndsWith(s, separators, least, T, <<>>, s)
<1>1. SUFFICES ASSUME NEW a, AreCuts(a, s, separators, least, T)
               PROVE  a[Len(s)].done = <<>> /\ a[Len(s)].cur = s
  BY DEF EndsWith
<1>2. a[0].done = <<>> /\ a[0].cur = <<>>
  BY <1>1 DEF AreCuts, CutStart
<1>3. NoneBetween(a, s, separators, 0, Len(s))
  BY <1>2 DEF NoneBetween
<1>4. Gathered(a, s, 0, Len(s))
  BY <1>1, <1>3, Gather
<1>5. SubSeq(s, 0 + 1, Len(s)) = s
  OBVIOUS
<1> QED
  BY <1>2, <1>4, <1>5 DEF Gathered

(* A separator and a text without any add a part.                          *)
LEMMA AnotherPart ==
  ASSUME NEW T, NEW sep \in T, NEW separators, sep \in separators,
         NEW least \in Nat, NEW x \in Seq(T), NEW p \in Seq(T),
         \A i \in 1 .. Len(p) : p[i] \notin separators,
         NEW done, NEW cur \in Seq(T), Len(cur) >= least,
         EndsWith(x, separators, least, T, done, cur)
  PROVE  EndsWith(x \o (<<sep>> \o p), separators, least, T,
                  Append(done, cur), p)
<1> DEFINE y == <<sep>> \o p
           z == x \o y
           N == Len(x)
           L == Len(p)
<1>1. /\ y \in Seq(T) /\ Len(y) = 1 + L /\ L \in Nat /\ y[1] = sep
      /\ \A i \in 1 .. L : y[1 + i] = p[i]
  <2>1. IsConcat(y, <<sep>>, p, T)
    BY One, Concatenation
  <2>2. Len(<<sep>>) = 1 /\ <<sep>>[1] = sep
    BY One
  <2> HIDE DEF y
  <2>3. 1 \in 1 .. 1
    OBVIOUS
  <2> QED
    BY <2>1, <2>2, <2>3 DEF IsConcat
<1> HIDE DEF y
<1>2. /\ z \in Seq(T) /\ Len(z) = N + (1 + L) /\ N \in Nat
      /\ z[N + 1] = sep
      /\ \A i \in 1 .. L : z[N + (1 + i)] = p[i]
  <2>1. IsConcat(z, x, y, T)
    BY <1>1, Concatenation
  <2> HIDE DEF z
  <2>2. \A i \in 1 .. L : 1 + i \in 1 .. 1 + L
    BY <1>1
  <2>3. 1 \in 1 .. 1 + L
    BY <1>1
  <2> QED
    BY <1>1, <2>1, <2>2, <2>3 DEF IsConcat
<1>3. SUFFICES ASSUME NEW b, AreCuts(b, z, separators, least, T)
               PROVE  /\ b[Len(z)].done = Append(done, cur)
                      /\ b[Len(z)].cur = p
  BY Zenon DEF EndsWith, y
<1>4. b[N].done = done /\ b[N].cur = cur
  <2>1. PICK a : AreCuts(a, x, separators, least, T)
    BY CutRuns
  <2>2. b[N] = a[N]
    BY <1>1, <1>3, <2>1, RunsAgree
  <2> QED
    BY <2>1, <2>2, Zenon DEF EndsWith
<1> HIDE DEF z, N, L
<1>5. PartEnded(b, N + 1)
  <2>1. SeparatorAt(b, z, separators, least, N + 1)
    <3>1. N + 1 \in 1 .. Len(z) /\ (N + 1) - 1 = N
      BY <1>1, <1>2
    <3> QED
      BY <1>2, <1>4, <3>1 DEF SeparatorAt
  <2> QED
    BY <1>3, <2>1, CutHere
<1>6. b[N + 1].done = Append(done, cur) /\ b[N + 1].cur = <<>>
  <2>1. (N + 1) - 1 = N
    BY <1>2
  <2> QED
    BY <1>4, <1>5, <2>1 DEF PartEnded
<1>7. Gathered(b, z, N + 1, Len(z))
  <2>1. /\ N + 1 \in 0 .. Len(z) /\ Len(z) \in N + 1 .. Len(z)
    BY <1>1, <1>2
  <2>2. ASSUME NEW j \in (N + 1) + 1 .. Len(z) PROVE z[j] \notin separators
    <3>1. j - (N + 1) \in 1 .. L /\ N + (1 + (j - (N + 1))) = j
      BY <1>1, <1>2
    <3>2. z[N + (1 + (j - (N + 1)))] = p[j - (N + 1)]
      BY <1>2, <3>1
    <3> QED
      BY <3>1, <3>2 DEF L
  <2> QED
    BY <1>3, <1>6, <2>1, <2>2, Gather DEF NoneBetween
<1>8. SubSeq(z, (N + 1) + 1, Len(z)) = p
  <2> DEFINE u == SubSeq(z, (N + 1) + 1, Len(z))
  <2>1. /\ u \in Seq(T) /\ Len(u) = L
        /\ \A i \in 1 .. L : u[i] = z[(N + 1) + 1 + i - 1]
    BY <1>1, <1>2
  <2> HIDE DEF u
  <2>2. \A i \in 1 .. L : (N + 1) + 1 + i - 1 = N + (1 + i)
    BY <1>1, <1>2
  <2>3. \A i \in 1 .. L : u[i] = p[i]
    BY <1>2, <2>1, <2>2
  <2>4. u = p
    BY <2>1, <2>3 DEF L
  <2> QED
    BY <2>4 DEF u
<1> QED
  BY <1>6, <1>7, <1>8 DEF Gathered

(* Parts that are not empty and hold no separator.                         *)
Parts(T, sep) == Seq(Seq(T \ {sep}) \ {<<>>})

(* They are texts with a beginning and without the separator.              *)
LEMMA PartsAre ==
  ASSUME NEW T, NEW sep, NEW pieces \in Parts(T, sep)
  PROVE  /\ pieces \in Seq(Seq(T)) /\ Len(pieces) \in Nat
         /\ \A n \in 1 .. Len(pieces) :
              /\ pieces[n] \in Seq(T) /\ Len(pieces[n]) >= 1
              /\ \A i \in 1 .. Len(pieces[n]) : pieces[n][i] # sep
<1>1. \A n \in 1 .. Len(pieces) : pieces[n] \in Seq(T \ {sep}) \ {<<>>}
  BY DEF Parts
<1>2. ASSUME NEW p \in Seq(T \ {sep}) \ {<<>>}
      PROVE  /\ p \in Seq(T) /\ Len(p) >= 1
             /\ \A i \in 1 .. Len(p) : p[i] # sep
  <2>1. \A i \in 1 .. Len(p) : p[i] \in T \ {sep}
    OBVIOUS
  <2> QED
    BY <2>1
<1>3. /\ Len(pieces) \in Nat
      /\ \A n \in 1 .. Len(pieces) : pieces[n] \in Seq(T)
      /\ DOMAIN pieces = 1 .. Len(pieces)
  BY <1>1, <1>2 DEF Parts
<1>4. pieces = [n \in 1 .. Len(pieces) |-> pieces[n]]
  BY DEF Parts
<1>5. pieces \in Seq(Seq(T))
  BY <1>3, <1>4
<1> QED
  BY <1>1, <1>2, <1>3, <1>5

(* Cut undoes Join.                                                        *)
LEMMA CutUndoesJoin ==
  ASSUME NEW T, NEW sep \in T, NEW least \in 0 .. 1,
         NEW pieces \in Parts(T, sep), pieces # <<>>
  PROVE  /\ Cut(Join(pieces, sep), {sep}, least) = pieces
         /\ Join(pieces, sep) \in Seq(T)
<1> DEFINE N == Len(pieces)
           seqs == [i \in DOMAIN pieces |->
                      IF i = 1 THEN pieces[1] ELSE <<sep>> \o pieces[i]]
           seps == {sep}
<1>1. /\ pieces \in Seq(Seq(T)) /\ N \in Nat
      /\ \A n \in 1 .. N :
           /\ pieces[n] \in Seq(T) /\ Len(pieces[n]) >= 1
           /\ \A i \in 1 .. Len(pieces[n]) : pieces[n][i] # sep
  BY PartsAre
<1>2. N # 0 /\ DOMAIN pieces = 1 .. N
  BY <1>1
<1>3. /\ seqs \in Seq(Seq(T)) /\ Len(seqs) = N
      /\ seqs[1] = pieces[1]
      /\ \A i \in 2 .. N : seqs[i] = <<sep>> \o pieces[i]
  <2>1. ASSUME NEW i \in 1 .. N PROVE seqs[i] \in Seq(T)
    <3>1. pieces[i] \in Seq(T) /\ <<sep>> \in Seq(T) /\ 1 \in 1 .. N
      BY <1>1, <1>2
    <3> QED
      BY <1>1, <1>2, <3>1
  <2>2. seqs = [i \in 1 .. N |-> seqs[i]]
    BY <1>2
  <2>3. \A i \in 2 .. N : i \in 1 .. N /\ i # 1
    BY <1>1
  <2> QED
    BY <1>1, <1>2, <2>1, <2>2, <2>3
<1>4. PICK g : AreJoined(g, seqs, T)
  BY <1>2, <1>3, FlattenSteps
<1>5. Join(pieces, sep) = g[N]
  BY <1>3, <1>4 DEF Join, AreJoined
<1> HIDE DEF seqs
<1>6. /\ g[1] = pieces[1] /\ \A i \in 1 .. N : g[i] \in Seq(T)
      /\ \A i \in 2 .. N : g[i] = g[i - 1] \o (<<sep>> \o pieces[i])
  BY <1>3, <1>4 DEF AreJoined
<1>7. sep \in seps /\ least \in Nat /\ \A x : x # sep => x \notin seps
  OBVIOUS
<1> HIDE DEF seps
<1> DEFINE Good(i) == EndsWith(g[i], seps, least, T,
                               SubSeq(pieces, 1, i - 1), pieces[i])
           K == {n \in 0 .. N : n = 0 \/ Good(n)}
<1>8. 0 \in K
  BY <1>1
<1>9. ASSUME NEW n \in 1 .. N, n - 1 \in K PROVE n \in K
  <2>1. n \in 0 .. N
    BY <1>1
  <2>2. CASE n = 1
    <3>1. EndsWith(pieces[n], seps, least, T, <<>>, pieces[n])
      BY <1>1, <1>7, OnePart
    <3>2. SubSeq(pieces, 1, n - 1) = <<>>
      BY <1>1, <2>2
    <3> QED
      BY <1>6, <2>1, <2>2, <3>1, <3>2
  <2>3. CASE n # 1
    <3> DEFINE m == n - 1
               done == SubSeq(pieces, 1, m - 1)
    <3>1. m \in 1 .. N /\ n \in 2 .. N /\ m # 0
      BY <1>1, <2>3
    <3>2. Good(m)
      BY <1>9, <3>1
    <3>3. /\ g[m] \in Seq(T) /\ pieces[m] \in Seq(T)
          /\ Len(pieces[m]) >= least
          /\ pieces[n] \in Seq(T)
          /\ \A i \in 1 .. Len(pieces[n]) : pieces[n][i] \notin seps
      <4>1. Len(pieces[m]) \in Nat
        BY <1>1, <3>1
      <4> HIDE DEF m
      <4> QED
        BY <1>1, <1>6, <1>7, <3>1, <4>1
    <3>4. Append(done, pieces[m]) = SubSeq(pieces, 1, n - 1)
      BY <1>1, <3>1
    <3> HIDE DEF m, done
    <3>5. EndsWith(g[m] \o (<<sep>> \o pieces[n]), seps, least, T,
                   Append(done, pieces[m]), pieces[n])
      BY <1>7, <3>2, <3>3, AnotherPart DEF done
    <3>6. g[n] = g[m] \o (<<sep>> \o pieces[n])
      BY <1>6, <3>1 DEF m
    <3>7. Good(n)
      BY <3>4, <3>5, <3>6, Zenon
    <3> QED
      BY <2>1, <3>7
  <2> QED
    BY <2>2, <2>3
<1> HIDE DEF K
<1>10. \A n \in 0 .. N : n \in K
  BY <1>1, <1>8, <1>9, SetInduction
<1>11. Good(N)
  <2>1. N \in 0 .. N
    BY <1>1
  <2> QED
    BY <1>2, <1>10, <2>1 DEF K
<1>12. g[N] \in Seq(T)
  BY <1>1, <1>2, <1>6
<1> DEFINE s == g[N]
<1> HIDE DEF s
<1>13. PICK a : AreCuts(a, s, seps, least, T)
  BY <1>7, <1>12, CutRuns DEF s
<1>14. /\ a[Len(s)].done = SubSeq(pieces, 1, N - 1)
       /\ a[Len(s)].cur = pieces[N]
  BY <1>11, <1>13, Zenon DEF EndsWith, s
<1>15. Cut(s, seps, least) = CutEnd(a[Len(s)])
  BY <1>13 DEF AreCuts
<1>16. pieces[N] # <<>>
  <2>1. Len(pieces[N]) >= 1 /\ Len(<<>>) = 0
    BY <1>1, <1>2
  <2> QED
    BY <2>1
<1>17. Append(SubSeq(pieces, 1, N - 1), pieces[N]) = pieces
  BY <1>1, <1>2
<1>18. Cut(s, seps, least) = pieces
  BY <1>14, <1>15, <1>16, <1>17, Zenon DEF CutEnd
<1> QED
  BY <1>5, <1>12, <1>18 DEF s, seps

(* Parts that are joined begin with no separator, and are cut again.       *)
LEMMA JoinBegins ==
  ASSUME NEW T, NEW sep \in T, NEW pieces \in Parts(T, sep), pieces # <<>>
  PROVE  LET s == Join(pieces, sep)
         IN  /\ s \in Seq(T) /\ Len(s) >= 1 /\ s[1] # sep
             /\ Cut(s, {sep}, 1) = pieces
<1> DEFINE s == Join(pieces, sep)
<1>1. s \in Seq(T) /\ Cut(s, {sep}, 0) = pieces /\ Cut(s, {sep}, 1) = pieces
  <2>1. \A least \in 0 .. 1 : /\ Cut(Join(pieces, sep), {sep}, least) = pieces
                             /\ Join(pieces, sep) \in Seq(T)
    BY CutUndoesJoin
  <2>2. 0 \in 0 .. 1 /\ 1 \in 0 .. 1
    OBVIOUS
  <2> QED
    BY <2>1, <2>2, Zenon
<1>2. Len(pieces) >= 1 /\ Len(pieces[1]) >= 1
  BY PartsAre
<1> HIDE DEF s
<1>3. Len(s) \in Nat
  BY <1>1
<1>4. Len(s) # 0
  <2>1. SUFFICES ASSUME Len(s) = 0 PROVE FALSE
    OBVIOUS
  <2>2. PICK a : AreCuts(a, s, {sep}, 0, T)
    BY <1>1, CutRuns
  <2>3. pieces = CutEnd(CutStart)
    BY <1>1, <2>1, <2>2 DEF AreCuts
  <2>4. CutEnd(CutStart) = <<>>
    BY DEF CutEnd, CutStart
  <2> QED
    BY <2>3, <2>4
<1>5. s[1] # sep
  <2>1. SUFFICES ASSUME s[1] = sep PROVE FALSE
    OBVIOUS
  <2>2. 1 \in 1 .. Len(s) /\ \A j \in 1 .. 1 - 1 : s[j] # sep
    BY <1>3, <1>4
  <2>3. Pieces(s, sep)[1] = SubSeq(s, 1, 1 - 1)
    BY <1>1, <2>1, <2>2, FirstPiece, Zenon
  <2>4. pieces[1] = SubSeq(s, 1, 0)
    <3>1. Pieces(s, sep) = pieces
      BY <1>1, Zenon DEF Pieces
    <3>2. 1 - 1 = 0
      OBVIOUS
    <3> QED
      BY <2>3, <3>1, <3>2, Zenon
  <2>5. Len(SubSeq(s, 1, 0)) = 0
    BY <1>1
  <2> QED
    BY <1>2, <2>4, <2>5
<1> QED
  BY <1>1, <1>3, <1>4, <1>5 DEF s

(* One part that is joined is the text.                                    *)
LEMMA JoinOne ==
  ASSUME NEW T, NEW p \in Seq(T), NEW sep
  PROVE  Join(<<p>>, sep) = p
<1> DEFINE pieces == <<p>>
           seqs == [i \in DOMAIN pieces |->
                      IF i = 1 THEN pieces[1] ELSE <<sep>> \o pieces[i]]
<1>1. DOMAIN pieces = 1 .. 1 /\ pieces[1] = p
  OBVIOUS
<1>2. DOMAIN seqs = 1 .. 1 /\ seqs[1] = p
  BY <1>1
<1>3. seqs = [i \in 1 .. 1 |-> p]
  BY <1>1
<1>4. seqs \in Seq(Seq(T)) /\ Len(seqs) = 1
  BY <1>3
<1>5. Join(<<p>>, sep) = FlattenSeq(seqs)
  BY Zenon DEF Join
<1> HIDE DEF seqs
<1>6. PICK g : AreJoined(g, seqs, T)
  <2>1. Len(seqs) # 0
    BY <1>4
  <2> QED
    BY <1>4, <2>1, FlattenSteps, Zenon
<1>7. FlattenSeq(seqs) = seqs[1]
  BY <1>4, <1>6 DEF AreJoined
<1> QED
  BY <1>2, <1>5, <1>7

-----------------------------------------------------------------------------
(* What a client writes. *)

(* The path is a text.                                                     *)
LEMMA PathIsText ==
  ASSUME NEW m \in Meant
  PROVE  m.path \in Seq(Token)
<1> DEFINE P == m.path
<1>1. P \in Seq(Token \ (Space \cup {"?"}))
  BY MeantAssumption
<1> HIDE DEF P
<1>2. P \in Seq(Token)
  BY <1>1
<1> QED
  BY <1>2 DEF P

(* The tokens of which the model speaks.                                   *)
LEMMA TheTokens ==
  /\ " " \in Token /\ "\r" \in Token /\ "\n" \in Token
  /\ "HTTP/1.1" \in Token
  BY HttpAssumption DEF Space

(* The target of a request, and what follows the path in it.               *)
Query(m) == IF m.query = <<>> THEN <<>> ELSE <<"?">> \o Join(m.query, "&")
Target(m) == m.path \o Query(m)

(* The target has no space in it and begins with the path, up to the first *)
(* question mark.                                                          *)
LEMMA TargetIs ==
  ASSUME NEW m \in Meant
  PROVE  /\ Target(m) \in Seq(Token \ Space) /\ Len(Target(m)) >= 1
         /\ Query(m) \in Seq(Token \ Space)
         /\ LET mark == IndexOf(Target(m), "?")
            IN  (IF mark = 0 THEN Target(m) ELSE Before(Target(m), mark))
                  = m.path
<1> DEFINE P == m.path
           Q == Query(m)
           t == Target(m)
<1>1. /\ P \in Seq(Token) /\ P \in Seq(Token \ Space) /\ Len(P) >= 1
      /\ \A i \in 1 .. Len(P) : P[i] # "?"
  <2>1. P \in Seq(Token \ (Space \cup {"?"})) \ {<<>>}
    BY MeantAssumption
  <2> HIDE DEF P
  <2>2. \A i \in 1 .. Len(P) : P[i] \in Token \ (Space \cup {"?"})
    BY <2>1
  <2> QED
    BY <2>1, <2>2
<1>2. /\ Q \in Seq(Token \ Space)
      /\ Q # <<>> => Len(Q) >= 1 /\ Q[1] = "?"
  <2>1. m.query \in Seq(Seq(Token \ Space))
    BY MeantAssumption
  <2>2. "?" \in Token \ Space /\ "&" \in Token \ Space
    <3>1. "?" \in Token /\ "&" \in Token
      BY HttpAssumption
    <3>2. "?" \notin Space /\ "&" \notin Space
      BY DEF Space
    <3> QED
      BY <3>1, <3>2
  <2>3. Join(m.query, "&") \in Seq(Token \ Space)
    BY <2>1, <2>2, JoinTypes
  <2>4. CASE m.query = <<>>
    BY <2>4 DEF Query
  <2>5. CASE m.query # <<>>
    <3> DEFINE J == Join(m.query, "&")
    <3>1. Q = <<"?">> \o J /\ <<"?">> \in Seq(Token \ Space)
      BY <2>2, <2>5 DEF Query
    <3> HIDE DEF J, Q
    <3>2. J \in Seq(Token \ Space)
      BY <2>3 DEF J
    <3>3. <<"?">> \o J \in Seq(Token \ Space) /\ (<<"?">> \o J)[1] = "?"
          /\ Len(<<"?">> \o J) >= 1
      BY <3>1, <3>2
    <3> QED
      BY <3>1, <3>3
  <2> QED
    BY <2>4, <2>5
<1>3. t = P \o Q
  BY DEF Target
<1> HIDE DEF P, Q, t
<1>4. /\ t \in Seq(Token \ Space) /\ Len(t) = Len(P) + Len(Q)
      /\ \A i \in 1 .. Len(P) : t[i] = P[i]
      /\ \A i \in 1 .. Len(Q) : t[Len(P) + i] = Q[i]
      /\ Len(P) \in Nat /\ Len(Q) \in Nat
  BY <1>1, <1>2, <1>3
<1> DEFINE I == {i \in 1 .. Len(t) : t[i] = "?"}
           mark == IndexOf(t, "?")
<1>5. mark = IF I # {} THEN Min(I) ELSE 0
  BY DEF IndexOf, SelectInSeq
<1>6. (IF mark = 0 THEN t ELSE Before(t, mark)) = P
  <2>1. CASE Q = <<>>
    <3>1. I = {} /\ t = P
      BY <1>1, <1>3, <1>4, <2>1
    <3> HIDE DEF I, mark
    <3> QED
      BY <1>5, <3>1
  <2>2. CASE Q # <<>>
    <3>1. Len(P) + 1 \in I
      BY <1>2, <1>4, <2>2
    <3>2. \A i \in I : Len(P) + 1 <= i
      BY <1>1, <1>4
    <3>3. I \in SUBSET Int
      OBVIOUS
    <3>4. Min(I) = Len(P) + 1
      <4> HIDE DEF I
      <4> QED
        BY <3>1, <3>2, <3>3, MinIs
    <3> HIDE DEF I, mark
    <3>5. mark = Len(P) + 1
      BY <1>5, <3>1, <3>4
    <3>6. Before(t, mark) = SubSeq(t, 1, Len(P))
      BY <1>4, <3>5 DEF Before
    <3>7. SubSeq(t, 1, Len(P)) = P
      BY <1>1, <1>4
    <3>8. mark # 0
      BY <1>4, <3>5
    <3> QED
      BY <3>6, <3>7, <3>8
  <2> QED
    BY <2>1, <2>2
<1>7. Len(t) >= 1
  BY <1>1, <1>4
<1> QED
  BY <1>2, <1>4, <1>6, <1>7 DEF t, P, Q, mark

(* The header lines are a text, whatever the space around their values.    *)
LEMMA HeadersAreText ==
  ASSUME NEW m \in Meant, NEW pad \in Seq(Token)
  PROVE  FlattenSeq([i \in DOMAIN m.headers |->
           <<m.headers[i][1], ":">> \o pad \o m.headers[i][2] \o pad
             \o <<"\r", "\n">>]) \in Seq(Token)
<1> DEFINE line(i) == <<m.headers[i][1], ":">> \o pad \o m.headers[i][2] \o pad
                        \o <<"\r", "\n">>
           seqs == [i \in DOMAIN m.headers |-> line(i)]
<1> HIDE DEF line, seqs
<1>1. /\ m.headers \in Seq(Token \X Seq(Token)) /\ pad \in Seq(Token)
      /\ DOMAIN m.headers = 1 .. Len(m.headers) /\ Len(m.headers) \in Nat
  <2>1. m.headers \in Seq(Token \X Seq(Token))
    BY MeantAssumption, Zenon
  <2> QED
    BY <2>1
<1>2. \A a, b \in Seq(Token) : a \o b \in Seq(Token)
  OBVIOUS
<1>3. ASSUME NEW i \in 1 .. Len(m.headers) PROVE line(i) \in Seq(Token)
  <2>1. m.headers[i] \in Token \X Seq(Token)
    BY <1>1
  <2>2. m.headers[i][1] \in Token /\ m.headers[i][2] \in Seq(Token)
    BY <2>1
  <2>3. /\ <<m.headers[i][1], ":">> \in Seq(Token)
        /\ <<"\r", "\n">> \in Seq(Token)
    <3>1. ":" \in Token /\ "\r" \in Token /\ "\n" \in Token
      BY HttpAssumption DEF Space
    <3> QED
      BY <2>2, <3>1
  <2> QED
    BY <1>1, <1>2, <2>2, <2>3 DEF line
<1>4. seqs \in Seq(Seq(Token))
  BY <1>1, <1>3 DEF seqs
<1>5. FlattenSeq(seqs) \in Seq(Token)
  BY <1>4, FlattenTypes
<1> QED
  BY <1>5 DEF seqs, line

(* A text begins with a word, a blank, a target and the end of a line.     *)
Begins(x, T, method, t, blank, version, cr, lf) ==
  /\ x \in Seq(T) /\ Len(x) >= Len(t) + 6
  /\ x[1] = method /\ x[2] = blank
  /\ \A i \in 1 .. Len(t) : x[2 + i] = t[i]
  /\ x[Len(t) + 3] = blank /\ x[Len(t) + 4] = version
  /\ x[Len(t) + 5] = cr /\ x[Len(t) + 6] = lf

(* A request line is such a text.                                          *)
LEMMA LineBegins ==
  ASSUME NEW T, NEW method \in T, NEW blank \in T, NEW version \in T,
         NEW cr \in T, NEW lf \in T, NEW t \in Seq(T)
  PROVE  Begins(<<method, blank>> \o t \o <<blank, version, cr, lf>>,
                T, method, t, blank, version, cr, lf)
<1> DEFINE A == <<method, blank>>
           B == <<blank, version, cr, lf>>
           L == Len(t)
           x == A \o t
           y == x \o B
<1>1. A \in Seq(T) /\ Len(A) = 2 /\ A[1] = method /\ A[2] = blank
  BY Two
<1>2. /\ B \in Seq(T) /\ Len(B) = 4 /\ B[1] = blank /\ B[2] = version
      /\ B[3] = cr /\ B[4] = lf
  BY Four
<1>3. L \in Nat
  OBVIOUS
<1> HIDE DEF A, B, L
<1>4. /\ x \in Seq(T) /\ Len(x) = 2 + L
      /\ \A i \in 1 .. 2 : x[i] = A[i]
      /\ \A i \in 1 .. L : x[2 + i] = t[i]
  <2>1. IsConcat(x, A, t, T)
    BY <1>1, Concatenation
  <2> HIDE DEF x
  <2> QED
    BY <1>1, <2>1 DEF IsConcat, L
<1> HIDE DEF x
<1>5. /\ y \in Seq(T) /\ Len(y) = (2 + L) + 4
      /\ \A i \in 1 .. 2 + L : y[i] = x[i]
      /\ \A i \in 1 .. 4 : y[(2 + L) + i] = B[i]
  <2>1. IsConcat(y, x, B, T)
    BY <1>2, <1>4, Concatenation
  <2> HIDE DEF y
  <2> QED
    BY <1>2, <1>4, <2>1 DEF IsConcat
<1> HIDE DEF y
<1>6. /\ (2 + L) + 1 = L + 3 /\ (2 + L) + 2 = L + 4
      /\ (2 + L) + 3 = L + 5 /\ (2 + L) + 4 = L + 6
      /\ 1 \in 1 .. 2 + L /\ 2 \in 1 .. 2 + L /\ 1 \in 1 .. 2 /\ 2 \in 1 .. 2
      /\ \A i \in 1 .. L : 2 + i \in 1 .. 2 + L
      /\ 1 \in 1 .. 4 /\ 2 \in 1 .. 4 /\ 3 \in 1 .. 4 /\ 4 \in 1 .. 4
  BY <1>3
<1>7. /\ y[L + 3] = blank /\ y[L + 4] = version /\ y[L + 5] = cr
      /\ y[L + 6] = lf
  BY <1>2, <1>5, <1>6
<1>8. y[1] = method /\ y[2] = blank
  BY <1>1, <1>4, <1>5, <1>6
<1>9. \A i \in 1 .. L : y[2 + i] = t[i]
  BY <1>4, <1>5, <1>6
<1>10. Len(y) >= L + 6
  BY <1>3, <1>5
<1>11. Begins(y, T, method, t, blank, version, cr, lf)
  BY <1>5, <1>7, <1>8, <1>9, <1>10 DEF Begins, L
<1> QED
  BY <1>11 DEF y, x, A, B

(* What follows does not change how a text begins.                         *)
LEMMA StillBegins ==
  ASSUME NEW T, NEW method, NEW blank, NEW version, NEW cr, NEW lf,
         NEW t \in Seq(T), NEW x, NEW y \in Seq(T),
         Begins(x, T, method, t, blank, version, cr, lf)
  PROVE  Begins(x \o y, T, method, t, blank, version, cr, lf)
<1> DEFINE L == Len(t)
           z == x \o y
<1>1. /\ x \in Seq(T) /\ Len(x) >= L + 6 /\ Len(x) \in Nat /\ L \in Nat
  BY DEF Begins
<1>2. /\ z \in Seq(T) /\ Len(z) >= L + 6
      /\ \A i \in 1 .. Len(x) : z[i] = x[i]
  <2>1. /\ z \in Seq(T) /\ Len(z) = Len(x) + Len(y) /\ Len(y) \in Nat
        /\ \A i \in 1 .. Len(x) : z[i] = x[i]
    <3>1. IsConcat(z, x, y, T)
      BY <1>1, Concatenation
    <3> HIDE DEF z
    <3> QED
      BY <3>1 DEF IsConcat
  <2> HIDE DEF L, z
  <2> QED
    BY <1>1, <2>1
<1> HIDE DEF L, z
<1>3. /\ 1 \in 1 .. Len(x) /\ 2 \in 1 .. Len(x) /\ L + 3 \in 1 .. Len(x)
      /\ L + 4 \in 1 .. Len(x) /\ L + 5 \in 1 .. Len(x)
      /\ L + 6 \in 1 .. Len(x)
      /\ \A i \in 1 .. L : 2 + i \in 1 .. Len(x)
  BY <1>1
<1>4. Begins(z, T, method, t, blank, version, cr, lf)
  BY <1>2, <1>3 DEF Begins, L
<1> QED
  BY <1>4 DEF z

(* The parts of what a client writes.                                      *)
SameParts(lead, A, P, Q, B, F, E, body) ==
  lead \o A \o P \o Q \o B \o F \o E \o body
    = lead \o ((A \o (P \o Q)) \o B \o ((F \o E) \o body))

(* The text of a request is what leads, the request line, and a rest.      *)
LEMMA TextParts ==
  ASSUME NEW T, NEW lead \in Seq(T), NEW A \in Seq(T), NEW P \in Seq(T),
         NEW Q \in Seq(T), NEW B \in Seq(T), NEW F \in Seq(T),
         NEW E \in Seq(T), NEW body \in Seq(T)
  PROVE  SameParts(lead, A, P, Q, B, F, E, body)
<1>1. \A x \in Seq(T) : \A y \in Seq(T) : x \o y \in Seq(T)
  OBVIOUS
<1> DEFINE G == (F \o E) \o body
           H == (A \o (P \o Q)) \o B
<1>2. G \in Seq(T) /\ F \o E \in Seq(T) /\ P \o Q \in Seq(T)
      /\ A \o (P \o Q) \in Seq(T) /\ H \in Seq(T)
      /\ lead \o A \in Seq(T) /\ A \o P \in Seq(T)
      /\ lead \o (A \o P) \in Seq(T) /\ (A \o P) \o Q \in Seq(T)
  BY <1>1, Zenon
<1> DEFINE t == P \o Q
           V == ((lead \o A) \o P) \o Q
<1>3. V = lead \o (A \o t) /\ V \in Seq(T)
  <2>1. Same3(lead, A, P) /\ Same3(lead, A \o P, Q) /\ Same3(A, P, Q)
    BY <1>2, Associative
  <2>2. V = lead \o (A \o t)
    BY <2>1, Zenon DEF Same3
  <2> QED
    BY <1>1, <1>2, <2>2, Zenon
<1> HIDE DEF V
<1>4. V \o B = lead \o ((A \o t) \o B) /\ V \o B \in Seq(T)
  <2>1. Same3(lead, A \o t, B)
    BY <1>2, Associative
  <2> QED
    BY <1>1, <1>3, <2>1, Zenon DEF Same3
<1> DEFINE X == V \o B
           K == (A \o t) \o B
<1>5. X = lead \o K /\ X \in Seq(T) /\ K \in Seq(T)
  BY <1>2, <1>4, Zenon
<1> HIDE DEF X, K
<1>6. ((X \o F) \o E) \o body = X \o G
  <2>1. Same3(X, F, E) /\ Same3(X, F \o E, body)
    BY <1>2, <1>5, Associative
  <2> QED
    BY <2>1, Zenon DEF Same3
<1> HIDE DEF G
<1>7. (lead \o K) \o G = lead \o (K \o G) /\ K \o G \in Seq(T)
  <2>1. Same3(lead, K, G)
    BY <1>2, <1>5, Associative
  <2> QED
    BY <1>1, <1>2, <1>5, <2>1, Zenon DEF Same3
<1> QED
  BY <1>2, <1>5, <1>6, <1>7, Zenon DEF SameParts, X, K, V, G

(* What a client writes after what leads.                                  *)
BeginsAsMeant(H, m) ==
  Begins(H, Token, m.method, Target(m), " ", "HTTP/1.1", "\r", "\n")

(* After what leads, a client writes a text that begins with its request   *)
(* line.                                                                   *)
LEMMA StreamIs ==
  ASSUME NEW m \in Meant, NEW pad \in Seq(Token), m.lead \in Seq(Token)
  PROVE  \E H : Text(m, pad) = m.lead \o H /\ BeginsAsMeant(H, m)
<1> DEFINE lead == m.lead
           P == m.path
           Q == Query(m)
           t == P \o Q
           A == <<m.method, " ">>
           B == <<" ", "HTTP/1.1", "\r", "\n">>
           F == FlattenSeq([i \in DOMAIN m.headers |->
                  <<m.headers[i][1], ":">> \o pad \o m.headers[i][2] \o pad
                    \o <<"\r", "\n">>])
           E == <<"\r", "\n">>
           body == m.body
           G == (F \o E) \o body
<1>1. Text(m, pad) = lead \o A \o P \o Q \o B \o F \o E \o body
  BY Zenon DEF Text, Query
<1>2. /\ A \in Seq(Token) /\ E \in Seq(Token) /\ B \in Seq(Token)
      /\ m.method \in Token
  <2>1. m.method \in Token
    BY MeantAssumption
  <2>2. A \in Seq(Token)
    BY <2>1, TheTokens, Two, Zenon
  <2>3. E \in Seq(Token)
    BY TheTokens, Two, Zenon
  <2>4. B \in Seq(Token)
    BY TheTokens, Four, Zenon
  <2> QED
    BY <2>1, <2>2, <2>3, <2>4, Zenon
<1>3. /\ P \in Seq(Token) /\ Q \in Seq(Token) /\ t \in Seq(Token)
  <2>1. P \in Seq(Token \ (Space \cup {"?"}))
    BY MeantAssumption
  <2>2. Q \in Seq(Token \ Space)
    BY TargetIs
  <2> HIDE DEF P, Q
  <2> QED
    BY <2>1, <2>2
<1>4. F \in Seq(Token) /\ body \in Seq(Token) /\ lead \in Seq(Token)
  BY HeadersAreText, MeantAssumption
<1>5. t = Target(m)
  BY DEF Target
<1>6. Begins(A \o t \o B, Token, m.method, t, " ", "HTTP/1.1", "\r", "\n")
  BY <1>2, <1>3, TheTokens, LineBegins, Zenon
<1> HIDE DEF lead, P, Q, A, B, F, E, body
<1>7. /\ Text(m, pad) = lead \o ((A \o t) \o B \o G)
      /\ G \in Seq(Token)
  <2>1. SameParts(lead, A, P, Q, B, F, E, body)
    BY <1>2, <1>3, <1>4, TextParts
  <2>2. G \in Seq(Token)
    BY <1>2, <1>4
  <2> QED
    BY <1>1, <2>1, <2>2, Zenon DEF SameParts
<1> HIDE DEF t, G
<1>8. Begins(((A \o t) \o B) \o G, Token, m.method, t,
             " ", "HTTP/1.1", "\r", "\n")
  BY <1>3, <1>6, <1>7, StillBegins, Zenon
<1>9. BeginsAsMeant(((A \o t) \o B) \o G, m)
  BY <1>5, <1>8, Zenon DEF BeginsAsMeant
<1> QED
  BY <1>7, <1>9, Zenon DEF lead

(* A request that the client begins at once.                               *)
LEMMA StreamBegins ==
  ASSUME NEW m \in Meant, NEW pad \in Seq(Token), m.lead = <<>>
  PROVE  BeginsAsMeant(Text(m, pad), m)
<1>1. m.lead \in Seq(Token)
  OBVIOUS
<1>2. PICK H : Text(m, pad) = m.lead \o H /\ BeginsAsMeant(H, m)
  BY <1>1, StreamIs
<1>3. H \in Seq(Token)
  BY <1>2, Zenon DEF BeginsAsMeant, Begins
<1>4. <<>> \o H = H
  BY <1>3
<1> QED
  BY <1>2, <1>4, Zenon

(* A request after an empty line.                                          *)
LEMMA StreamAfterLine ==
  ASSUME NEW m \in Meant, NEW pad \in Seq(Token), m.lead = <<"\n">>
  PROVE  Text(m, pad) \in Seq(Token) /\ Text(m, pad)[1] = "\n"
<1>1. m.lead \in Seq(Token) /\ Len(m.lead) = 1 /\ m.lead[1] = "\n"
  BY TheTokens, One, Zenon
<1>2. PICK H : Text(m, pad) = m.lead \o H /\ BeginsAsMeant(H, m)
  BY <1>1, StreamIs
<1>3. H \in Seq(Token)
  BY <1>2, Zenon DEF BeginsAsMeant, Begins
<1>4. IsConcat(m.lead \o H, m.lead, H, Token)
  BY <1>1, <1>3, Concatenation
<1> DEFINE s == m.lead \o H
<1> HIDE DEF s
<1>5. s \in Seq(Token) /\ s[1] = m.lead[1]
  <2>1. IsConcat(s, m.lead, H, Token)
    BY <1>4 DEF s
  <2> QED
    BY <1>1, <2>1 DEF IsConcat
<1> QED
  BY <1>1, <1>2, <1>5, Zenon DEF s

-----------------------------------------------------------------------------
(* What parse_http_request reads. *)

(* The first of some lines has a word and a target.                        *)
FirstLine(lines, method, t) ==
  /\ lines # <<>> /\ lines[1] # <<>>
  /\ Word(lines[1], 1) = <<method>> /\ Word(lines[1], 2) = t

(* The first line of a text that begins with a request line.               *)
LEMMA LineOfRequest ==
  ASSUME NEW T, NEW method, NEW blank, NEW version, NEW cr, NEW lf,
         NEW t, NEW s,
         Begins(s, T, method, t, blank, version, cr, lf), t \in Seq(T),
         Len(t) >= 1,
         method \notin Space, version \notin Space, blank \in Space,
         lf \in Space, cr # lf, blank # lf,
         \A i \in 1 .. Len(t) : t[i] \notin Space
  PROVE  FirstLine(Pieces(s, lf), method, t)
<1> DEFINE L == Len(t)
           line == SubSeq(s, 1, L + 5)
           lines == Pieces(s, lf)
<1>1. /\ s \in Seq(T) /\ Len(s) >= L + 6 /\ L \in Nat /\ L >= 1
      /\ Len(s) \in Nat
      /\ s[1] = method /\ s[2] = blank
      /\ \A i \in 1 .. L : s[2 + i] = t[i] /\ t[i] \notin Space
      /\ s[L + 3] = blank /\ s[L + 4] = version
      /\ s[L + 5] = cr /\ s[L + 6] = lf
  BY DEF Begins
<1> HIDE DEF L
<1>2. ASSUME NEW j \in 1 .. L + 2, j # 2
      PROVE  s[j] \notin Space
  <2>1. CASE j = 1
    BY <1>1, <2>1
  <2>2. CASE j # 1
    <3>1. j - 2 \in 1 .. L /\ 2 + (j - 2) = j
      BY <1>1, <1>2, <2>2
    <3> QED
      BY <1>1, <3>1
  <2> QED
    BY <2>1, <2>2
<1>3. ASSUME NEW j \in 1 .. L + 5 PROVE s[j] # lf
  <2>1. CASE j \in 1 .. L + 2 /\ j # 2
    BY <1>2, <2>1
  <2>2. CASE j \in {2, L + 3, L + 4, L + 5}
    BY <1>1, <2>2
  <2> QED
    BY <1>1, <2>1, <2>2
<1>4. lines # <<>> /\ lines[1] = line
  <2> DEFINE n == L + 6
  <2>1. s \in Seq(T) /\ n \in 1 .. Len(s) /\ n - 1 = L + 5 /\ s[n] = lf
    BY <1>1
  <2>2. \A j \in 1 .. n - 1 : s[j] # lf
    BY <1>3, <2>1, Zenon
  <2> HIDE DEF n, line, lines
  <2>3. Pieces(s, lf) # <<>> /\ Pieces(s, lf)[1] = SubSeq(s, 1, n - 1)
    BY <2>1, <2>2, FirstPiece
  <2> QED
    BY <2>1, <2>3, Zenon DEF line, lines
<1> HIDE DEF lines
<1>5. /\ line \in Seq(T) /\ Len(line) = L + 5
      /\ \A j \in 1 .. L + 5 : line[j] = s[j]
  BY <1>1
<1> HIDE DEF line
<1>6. /\ Word(line, 1) = SubSeq(line, 1, 2 - 1)
      /\ Word(line, 2) = SubSeq(line, 2 + 1, (L + 3) - 1)
  <2> DEFINE n == L + 3
  <2>1. /\ 2 \in 2 .. Len(line) /\ n \in 2 + 2 .. Len(line)
        /\ 2 \in 1 .. L + 5 /\ n \in 1 .. L + 5
    BY <1>1, <1>5
  <2>2. line[2] \in Space /\ line[n] \in Space
    BY <1>1, <1>5, <2>1
  <2>3. \A j \in 1 .. n - 1 : j # 2 => line[j] \notin Space
    BY <1>1, <1>2, <1>5
  <2>4. line \in Seq(T)
    BY <1>5, Zenon
  <2> HIDE DEF n
  <2>5. /\ Word(line, 1) = SubSeq(line, 1, 2 - 1)
        /\ Word(line, 2) = SubSeq(line, 2 + 1, n - 1)
    BY <2>1, <2>2, <2>3, <2>4, TwoWords
  <2> QED
    BY <2>5, Zenon DEF n
<1>7. SubSeq(line, 1, 2 - 1) = <<method>>
  <2>1. 2 - 1 = 1 /\ 1 \in 1 .. L + 5 /\ line[1] = method
    BY <1>1, <1>5
  <2> DEFINE w == SubSeq(line, 1, 1)
  <2>2. /\ w \in Seq(T) /\ Len(w) = 1 /\ w[1] = method
    BY <1>1, <1>5, <2>1
  <2> HIDE DEF w
  <2>3. w = <<method>>
    BY <2>2
  <2> QED
    BY <2>1, <2>3 DEF w
<1>8. SubSeq(line, 2 + 1, (L + 3) - 1) = t
  <2>1. 2 + 1 = 3 /\ (L + 3) - 1 = L + 2
    BY <1>1
  <2> DEFINE u == SubSeq(line, 3, L + 2)
  <2>2. /\ u \in Seq(T) /\ Len(u) = L
        /\ \A i \in 1 .. L : u[i] = line[3 + i - 1]
    BY <1>1, <1>5
  <2>3. \A i \in 1 .. L : 3 + i - 1 = 2 + i /\ 2 + i \in 1 .. L + 5
    BY <1>1
  <2> HIDE DEF u
  <2>4. \A i \in 1 .. L : u[i] = t[i]
    BY <1>1, <1>5, <2>2, <2>3, SMTT(30)
  <2>5. u = t
    BY <2>2, <2>4 DEF L
  <2> QED
    BY <2>1, <2>5 DEF u
<1>9. line # <<>>
  BY <1>1, <1>5
<1> QED
  BY <1>4, <1>6, <1>7, <1>8, <1>9 DEF FirstLine, lines

(* What parse_http_request makes of a request line.                        *)
LEMMA ParsedRequest ==
  ASSUME NEW m \in Meant, NEW s, BeginsAsMeant(s, m), NEW r \in Parsed(s)
  PROVE  r.path = m.path /\ r.method = ParseMethod(<<m.method>>)
<1> DEFINE t == Target(m)
           lines == Pieces(s, "\n")
           mark == IndexOf(t, "?")
<1>1. /\ t \in Seq(Token) /\ Len(t) >= 1
      /\ \A i \in 1 .. Len(t) : t[i] \notin Space
  <2>1. t \in Seq(Token \ Space) /\ Len(t) >= 1
    BY TargetIs
  <2> HIDE DEF t
  <2> QED
    BY <2>1
<1>2. (IF mark = 0 THEN t ELSE Before(t, mark)) = m.path
  BY TargetIs, Zenon
<1>3. /\ m.method \notin Space /\ "HTTP/1.1" \notin Space /\ " " \in Space
      /\ "\n" \in Space /\ "\r" # "\n" /\ " " # "\n"
  <2>1. m.method \notin Space
    BY MeantAssumption, Zenon
  <2> QED
    BY <2>1 DEF Space
<1>4. Begins(s, Token, m.method, t, " ", "HTTP/1.1", "\r", "\n")
  BY DEF BeginsAsMeant
<1> HIDE DEF t, mark
<1>5. /\ lines # <<>> /\ lines[1] # <<>>
      /\ Word(lines[1], 1) = <<m.method>> /\ Word(lines[1], 2) = t
  <2>1. FirstLine(lines, m.method, t)
    BY <1>1, <1>3, <1>4, LineOfRequest
  <2> QED
    BY <2>1, Zenon DEF FirstLine
<1> HIDE DEF lines
<1>6. \E params, headers, body :
        r = Request(ParseMethod(Word(lines[1], 1)),
                    IF IndexOf(Word(lines[1], 2), "?") = 0
                    THEN Word(lines[1], 2)
                    ELSE Before(Word(lines[1], 2),
                                IndexOf(Word(lines[1], 2), "?")),
                    params, headers, body)
  BY <1>5, Zenon DEF Parsed, lines
<1>7. \E params, headers, body :
        r = Request(ParseMethod(<<m.method>>), m.path, params, headers, body)
  BY <1>2, <1>5, <1>6, Zenon DEF mark
<1> QED
  BY <1>7 DEF Request

(* What it makes of a text that begins with an empty line.                 *)
LEMMA ParsedLine ==
  ASSUME NEW s \in Seq(Token), Len(s) >= 1, s[1] = "\n", NEW r \in Parsed(s)
  PROVE  r.path = <<>>
<1> DEFINE lf == "\n"
           lines == Pieces(s, lf)
<1>1. lines # <<>> /\ lines[1] = <<>>
  <2>1. s[1] = lf
    OBVIOUS
  <2> HIDE DEF lf
  <2>2. 1 \in 1 .. Len(s) /\ \A j \in 1 .. 1 - 1 : s[j] # lf
    OBVIOUS
  <2>3. lines # <<>> /\ lines[1] = SubSeq(s, 1, 1 - 1)
    BY <2>1, <2>2, FirstPiece
  <2>4. SubSeq(s, 1, 1 - 1) = <<>>
    OBVIOUS
  <2> QED
    BY <2>3, <2>4
<1>2. \E m : r = Request(m, <<>>, <<>>, <<>>, <<>>)
  <2> HIDE DEF lines
  <2> QED
    BY <1>1, Zenon DEF Parsed, lines
<1> QED
  BY <1>2 DEF Request

-----------------------------------------------------------------------------
(* Text after text. *)

(* What is appended to two texts is appended to the second.                *)
LEMMA AppendToBoth ==
  ASSUME NEW S, NEW a \in Seq(S), NEW b \in Seq(S), NEW x \in S
  PROVE  Append(a \o b, x) = a \o Append(b, x) /\ Append(b, x) \in Seq(S)
<1>1. \A s \in Seq(S) : Append(s, x) = s \o <<x>>
  OBVIOUS
<1>2. /\ a \o b \in Seq(S) /\ <<x>> \in Seq(S)
      /\ Append(b, x) \in Seq(S)
  OBVIOUS
<1>3. Same3(a, b, <<x>>)
  BY <1>2, Associative
<1> QED
  BY <1>1, <1>2, <1>3, Zenon DEF Same3

(* Two runs of Cut, over a text and over what it has after a place where no*)
(* part is open.                                                           *)
RunsFrom(b, c, x, y, separators, least, T, done) ==
  /\ x \in Seq(T) /\ y \in Seq(T)
  /\ EndsWith(x, separators, least, T, done, <<>>)
  /\ AreCuts(b, x \o y, separators, least, T)
  /\ AreCuts(c, y, separators, least, T)
EndAlike(b, c, x, y, T, done) ==
  /\ b[Len(x \o y)].done = done \o c[Len(y)].done
  /\ b[Len(x \o y)].cur = c[Len(y)].cur
  /\ done \in Seq(Seq(T))

(* A text that follows one at the end of which no part is open is cut as   *)
(* it would be alone.                                                      *)
LEMMA CutAfter ==
  ASSUME NEW T, NEW separators, NEW least, NEW x, NEW y, NEW done, NEW b, NEW c,
         RunsFrom(b, c, x, y, separators, least, T, done)
  PROVE  EndAlike(b, c, x, y, T, done)
<1>0. /\ x \in Seq(T) /\ y \in Seq(T)
      /\ EndsWith(x, separators, least, T, done, <<>>)
      /\ AreCuts(b, x \o y, separators, least, T)
      /\ AreCuts(c, y, separators, least, T)
  BY DEF RunsFrom
<1> DEFINE N == Len(x)
           M == Len(y)
           z == x \o y
           Right(k) == /\ b[N + k].done = done \o c[k].done
                       /\ b[N + k].cur = c[k].cur
           K == {k \in 0 .. M : Right(k)}
<1>1. /\ N \in Nat /\ M \in Nat /\ Len(z) = N + M
      /\ \A i \in 1 .. M : z[N + i] = y[i]
  <2>1. IsConcat(z, x, y, T)
    BY <1>0, Concatenation
  <2> HIDE DEF z
  <2> QED
    BY <2>1 DEF IsConcat
<1>2. b[N].done = done /\ b[N].cur = <<>>
  <2>1. least \in Nat
    BY <1>0 DEF AreCuts
  <2>2. PICK a : AreCuts(a, x, separators, least, T)
    BY <1>0, <2>1, CutRuns
  <2>3. b[N] = a[N]
    BY <1>0, <2>2, RunsAgree
  <2> QED
    BY <1>0, <2>2, <2>3, Zenon DEF EndsWith
<1> HIDE DEF z
<1>3. /\ c[0] = CutStart
      /\ \A k \in 1 .. M : c[k] = CutNext(separators, least, c[k - 1], y[k])
      /\ \A k \in 0 .. M : c[k] \in Cutting(T)
  BY <1>0 DEF AreCuts
<1>4. /\ \A n \in 1 .. N + M :
           b[n] = CutNext(separators, least, b[n - 1], z[n])
      /\ \A n \in 0 .. N + M : b[n] \in Cutting(T)
  BY <1>0, <1>1 DEF AreCuts, z
<1>5. done \in Seq(Seq(T))
  <2>1. N \in 0 .. N + M
    BY <1>1
  <2>2. b[N] \in Cutting(T)
    BY <1>4, <2>1
  <2> QED
    BY <1>2, <2>2 DEF Cutting
<1> HIDE DEF N, M
<1>6. 0 \in K
  <2>1. N + 0 = N /\ 0 \in 0 .. M
    BY <1>1
  <2>2. c[0].done = <<>> /\ c[0].cur = <<>> /\ done \o <<>> = done
    BY <1>3, <1>5 DEF CutStart
  <2> QED
    BY <1>2, <2>1, <2>2
<1>7. ASSUME NEW k \in 1 .. M, k - 1 \in K PROVE k \in K
  <2> DEFINE p == c[k - 1]
             q == b[N + (k - 1)]
  <2>1. /\ N + k \in 1 .. N + M /\ (N + k) - 1 = N + (k - 1)
        /\ N + (k - 1) \in 0 .. N + M /\ k - 1 \in 0 .. M /\ k \in 0 .. M
    BY <1>1
  <2>2. q.done = done \o p.done /\ q.cur = p.cur
    BY <1>7
  <2>3. c[k] = CutNext(separators, least, p, y[k])
    BY <1>3
  <2>4. b[N + k] = CutNext(separators, least, q, y[k])
    <3>1. z[N + k] = y[k]
      BY <1>1
    <3> QED
      BY <1>4, <2>1, <3>1
  <2>5. p \in Cutting(T) /\ q \in Cutting(T)
    BY <1>3, <1>4, <2>1
  <2> HIDE DEF p, q
  <2>6. /\ p = [done |-> p.done, cur |-> p.cur]
        /\ q = [done |-> q.done, cur |-> q.cur]
        /\ p.done \in Seq(Seq(T)) /\ p.cur \in Seq(T)
    BY <2>5 DEF Cutting
  <2>7. Right(k)
    <3>1. CASE y[k] \notin separators
      BY <2>2, <2>3, <2>4, <2>6, <3>1 DEF CutNext
    <3>2. CASE y[k] \in separators /\ Len(p.cur) < least
      BY <2>2, <2>3, <2>4, <2>6, <3>2 DEF CutNext
    <3>3. CASE y[k] \in separators /\ ~ (Len(p.cur) < least)
      <4>1. Append(done \o p.done, p.cur) = done \o Append(p.done, p.cur)
        <5> DEFINE S == Seq(T)
        <5>1. done \in Seq(S) /\ p.done \in Seq(S) /\ p.cur \in S
          BY <1>5, <2>6
        <5>2. /\ Append(done \o p.done, p.cur) = done \o Append(p.done, p.cur)
              /\ Append(p.done, p.cur) \in Seq(S)
          <6> HIDE DEF S
          <6> QED
            BY <5>1, AppendToBoth, Zenon
        <5> QED
          BY <5>2, Zenon
      <4>2. /\ b[N + k] = [done |-> Append(q.done, q.cur), cur |-> <<>>]
            /\ c[k] = [done |-> Append(p.done, p.cur), cur |-> <<>>]
        BY <2>2, <2>3, <2>4, <3>3, Zenon DEF CutNext
      <4>3. /\ b[N + k].done = Append(q.done, q.cur) /\ b[N + k].cur = <<>>
            /\ c[k].done = Append(p.done, p.cur) /\ c[k].cur = <<>>
        BY <4>2
      <4> QED
        BY <2>2, <4>1, <4>3, Zenon
    <3> QED
      BY <3>1, <3>2, <3>3
  <2> HIDE DEF Right
  <2> QED
    BY <2>1, <2>7
<1> HIDE DEF K
<1>8. \A k \in 0 .. M : k \in K
  BY <1>1, <1>6, <1>7, SetInduction
<1>9. Right(M)
  <2>1. M \in 0 .. M
    BY <1>1
  <2> QED
    BY <1>8, <2>1 DEF K
<1> QED
  BY <1>1, <1>5, <1>9 DEF EndAlike, z, M

(* So what Cut has at the end of two texts is known of each.               *)
LEMMA EndsAfter ==
  ASSUME NEW T, NEW separators, NEW least \in Nat,
         NEW x \in Seq(T), NEW y \in Seq(T),
         NEW done, EndsWith(x, separators, least, T, done, <<>>),
         NEW more, NEW cur, EndsWith(y, separators, least, T, more, cur)
  PROVE  EndsWith(x \o y, separators, least, T, done \o more, cur)
<1>1. PICK c : AreCuts(c, y, separators, least, T)
  BY CutRuns
<1>2. c[Len(y)].done = more /\ c[Len(y)].cur = cur
  BY <1>1, Zenon DEF EndsWith
<1>3. ASSUME NEW b, AreCuts(b, x \o y, separators, least, T)
      PROVE  /\ b[Len(x \o y)].done = done \o more
             /\ b[Len(x \o y)].cur = cur
  <2>1. EndAlike(b, c, x, y, T, done)
    BY <1>1, <1>3, CutAfter DEF RunsFrom
  <2> QED
    BY <1>2, <2>1 DEF EndAlike
<1> QED
  BY <1>3, Zenon DEF EndsWith

(* And the parts of the one are followed by those of the other.            *)
LEMMA PartsAfter ==
  ASSUME NEW T, NEW separators, NEW least \in Nat,
         NEW x \in Seq(T), NEW y \in Seq(T),
         NEW done, EndsWith(x, separators, least, T, done, <<>>)
  PROVE  /\ Cut(x \o y, separators, least) = done \o Cut(y, separators, least)
         /\ done \in Seq(Seq(T)) /\ Cut(y, separators, least) \in Seq(Seq(T))
<1> DEFINE z == x \o y
<1>1. z \in Seq(T)
  OBVIOUS
<1>2. PICK b : AreCuts(b, z, separators, least, T)
  BY <1>1, CutRuns
<1>3. PICK c : AreCuts(c, y, separators, least, T)
  BY CutRuns
<1> DEFINE d == b[Len(z)]
           e == c[Len(y)]
<1>4. d.done = done \o e.done /\ d.cur = e.cur /\ done \in Seq(Seq(T))
  <2>1. EndAlike(b, c, x, y, T, done)
    BY <1>2, <1>3, CutAfter DEF RunsFrom
  <2> QED
    BY <2>1 DEF EndAlike
<1>5. e.done \in Seq(Seq(T)) /\ e.cur \in Seq(T)
  <2>1. e \in Cutting(T)
    <3>1. Len(y) \in 0 .. Len(y)
      OBVIOUS
    <3> QED
      BY <1>3, <3>1 DEF AreCuts
  <2> QED
    BY <2>1 DEF Cutting
<1>6. /\ Cut(z, separators, least) = CutEnd(d)
      /\ Cut(y, separators, least) = CutEnd(e)
  BY <1>2, <1>3 DEF AreCuts
<1> HIDE DEF d, e, z
<1>7. Append(done \o e.done, e.cur) = done \o Append(e.done, e.cur)
      /\ Append(e.done, e.cur) \in Seq(Seq(T))
  <2> DEFINE S == Seq(T)
  <2>1. done \in Seq(S) /\ e.done \in Seq(S) /\ e.cur \in S
    BY <1>4, <1>5
  <2>2. Append(done \o e.done, e.cur) = done \o Append(e.done, e.cur)
        /\ Append(e.done, e.cur) \in Seq(S)
    <3> HIDE DEF S
    <3> QED
      BY <2>1, AppendToBoth, Zenon
  <2> QED
    BY <2>2
<1>8. CutEnd(d) = done \o CutEnd(e) /\ CutEnd(e) \in Seq(Seq(T))
  BY <1>4, <1>5, <1>7 DEF CutEnd
<1> QED
  BY <1>4, <1>6, <1>8 DEF z

(* A text that ends with its only separator, and what it holds before it.  *)
IsLine(s, sep, T) ==
  /\ s \in Seq(T) /\ Len(s) >= 1 /\ s[Len(s)] = sep
  /\ \A i \in 1 .. Len(s) - 1 : s[i] # sep
Lines(seqs) == [i \in DOMAIN seqs |-> Front(seqs[i])]

(* It is cut to one part, and none is open at its end.                     *)
LEMMA LineEnds ==
  ASSUME NEW T, NEW sep, NEW s, IsLine(s, sep, T)
  PROVE  /\ EndsWith(s, {sep}, 0, T, <<Front(s)>>, <<>>)
         /\ Front(s) \in Seq(T)
<1> DEFINE N == Len(s)
           seps == {sep}
<1>1. /\ s \in Seq(T) /\ N \in Nat /\ N >= 1 /\ s[N] \in seps
      /\ \A i \in 1 .. N - 1 : s[i] \notin seps
  BY DEF IsLine
<1> HIDE DEF seps
<1>2. Front(s) = SubSeq(s, 1, N - 1) /\ Front(s) \in Seq(T)
  BY <1>1 DEF Front
<1>3. ASSUME NEW a, AreCuts(a, s, seps, 0, T)
      PROVE  a[N].done = <<Front(s)>> /\ a[N].cur = <<>>
  <2>1. a[0].done = <<>> /\ a[0].cur = <<>>
    BY <1>3 DEF AreCuts, CutStart
  <2>2. Gathered(a, s, 0, N - 1)
    <3>1. NoneBetween(a, s, seps, 0, N - 1)
      BY <1>1, <2>1 DEF NoneBetween
    <3> QED
      BY <1>3, <3>1, Gather
  <2>3. a[N - 1].done = <<>> /\ a[N - 1].cur = SubSeq(s, 1, N - 1)
    BY <2>1, <2>2 DEF Gathered
  <2>4. PartEnded(a, N)
    <3>1. SeparatorAt(a, s, seps, 0, N)
      BY <1>1, <2>3 DEF SeparatorAt
    <3> QED
      BY <1>3, <3>1, CutHere
  <2> QED
    BY <1>2, <2>3, <2>4 DEF PartEnded
<1>4. EndsWith(s, seps, 0, T, <<Front(s)>>, <<>>)
  BY <1>3, Zenon DEF EndsWith
<1> QED
  BY <1>2, <1>4 DEF seps

(* Lines one after another are cut to what each holds.                     *)
LEMMA LinesEnd ==
  ASSUME NEW T, NEW sep, NEW seqs \in Seq(Seq(T)),
         \A i \in 1 .. Len(seqs) : IsLine(seqs[i], sep, T)
  PROVE  /\ EndsWith(FlattenSeq(seqs), {sep}, 0, T, Lines(seqs), <<>>)
         /\ Lines(seqs) \in Seq(Seq(T))
<1> DEFINE N == Len(seqs)
           seps == {sep}
           lines == Lines(seqs)
           Ends(s, done) == EndsWith(s, seps, 0, T, done, <<>>)
<1>1. /\ N \in Nat /\ DOMAIN seqs = 1 .. N
      /\ \A i \in 1 .. N : seqs[i] \in Seq(T)
  OBVIOUS
<1>2. ASSUME NEW i \in 1 .. N
      PROVE  Ends(seqs[i], <<Front(seqs[i])>>) /\ Front(seqs[i]) \in Seq(T)
  BY LineEnds
<1>3. /\ lines \in Seq(Seq(T)) /\ Len(lines) = N
      /\ \A i \in 1 .. N : lines[i] = Front(seqs[i])
  <2>1. lines = [i \in 1 .. N |-> Front(seqs[i])]
    BY <1>1 DEF Lines
  <2>2. \A i \in 1 .. N : Front(seqs[i]) \in Seq(T)
    BY <1>2
  <2> HIDE DEF lines, N
  <2> QED
    BY <1>1, <2>1, <2>2
<1> HIDE DEF lines
<1>4. CASE N = 0
  <2>1. FlattenSeq(seqs) = seqs /\ seqs = <<>> /\ lines = <<>>
    BY <1>3, <1>4 DEF FlattenSeq
  <2>2. <<>> \in Seq(T) /\ \A i \in 1 .. Len(<<>>) : <<>>[i] \notin seps
    OBVIOUS
  <2>3. Ends(<<>>, <<>>)
    <3> HIDE DEF seps
    <3> QED
      BY <2>2, OnePart
  <2> QED
    BY <1>3, <2>1, <2>3 DEF lines
<1>5. CASE N # 0
  <2>1. PICK g : AreJoined(g, seqs, T)
    BY <1>5, FlattenSteps
  <2>2. /\ g[1] = seqs[1] /\ FlattenSeq(seqs) = g[N]
        /\ \A i \in 2 .. N : g[i] = g[i - 1] \o seqs[i]
        /\ \A i \in 1 .. N : g[i] \in Seq(T)
    BY <2>1 DEF AreJoined
  <2> DEFINE K == {n \in 0 .. N : n = 0 \/ Ends(g[n], SubSeq(lines, 1, n))}
  <2> HIDE DEF N, Ends
  <2>3. 0 \in K
    BY <1>1
  <2>4. ASSUME NEW n \in 1 .. N, n - 1 \in K PROVE n \in K
    <3>1. n \in 0 .. N
      BY <1>1
    <3>2. CASE n = 1
      <4>1. SubSeq(lines, 1, n) = <<Front(seqs[n])>>
        <5>1. 1 \in 1 .. N /\ Len(lines) = N /\ lines \in Seq(Seq(T))
          BY <1>3, <3>2
        <5>2. SubSeq(lines, 1, 1) = <<lines[1]>>
          <6> DEFINE u == SubSeq(lines, 1, 1)
          <6>1. u \in Seq(Seq(T)) /\ Len(u) = 1 /\ u[1] = lines[1]
            BY <1>1, <5>1
          <6> HIDE DEF u
          <6>2. u = <<lines[1]>>
            BY <6>1
          <6> QED
            BY <6>2 DEF u
        <5> QED
          BY <1>3, <3>2, <5>1, <5>2
      <4>2. Ends(g[n], SubSeq(lines, 1, n))
        BY <1>2, <2>2, <3>2, <4>1
      <4> QED
        BY <3>1, <4>2
    <3>3. CASE n # 1
      <4> DEFINE m == n - 1
                 done == SubSeq(lines, 1, m)
      <4>1. m \in 1 .. N /\ n \in 2 .. N /\ m # 0
        BY <1>1, <3>3
      <4>2. Ends(g[m], done)
        BY <2>4, <4>1
      <4>3. done \o <<Front(seqs[n])>> = SubSeq(lines, 1, n)
        <5>1. done \o <<lines[n]>> = SubSeq(lines, 1, n)
          BY <1>1, <1>3, <4>1
        <5> QED
          BY <1>3, <5>1
      <4>4. g[m] \in Seq(T) /\ g[n] = g[m] \o seqs[n]
        BY <2>2, <4>1
      <4> HIDE DEF m, done
      <4>5. Ends(g[m] \o seqs[n], done \o <<Front(seqs[n])>>)
        <5>1. Ends(seqs[n], <<Front(seqs[n])>>) /\ seqs[n] \in Seq(T)
          BY <1>1, <1>2
        <5> HIDE DEF seps
        <5> QED
          BY <4>2, <4>4, <5>1, EndsAfter DEF Ends
      <4>6. Ends(g[n], SubSeq(lines, 1, n))
        BY <4>3, <4>4, <4>5, Zenon
      <4> QED
        BY <3>1, <4>6
    <3> QED
      BY <3>2, <3>3
  <2> HIDE DEF K
  <2>5. \A n \in 0 .. N : n \in K
    BY <1>1, <2>3, <2>4, SetInduction
  <2>6. Ends(g[N], SubSeq(lines, 1, N))
    <3>1. N \in 0 .. N
      BY <1>1
    <3> QED
      BY <1>5, <2>5, <3>1 DEF K
  <2>7. SubSeq(lines, 1, N) = lines
    BY <1>1, <1>3
  <2> QED
    BY <1>3, <2>2, <2>6, <2>7 DEF Ends, lines
<1> QED
  BY <1>4, <1>5

-----------------------------------------------------------------------------
(* The lines of a request. *)

(* Texts with the same tokens are the same.                                *)
LEMMA SameText ==
  ASSUME NEW T, NEW a \in Seq(T), NEW b \in Seq(T), Len(a) = Len(b),
         \A i \in 1 .. Len(b) : a[i] = b[i]
  PROVE  a = b
  OBVIOUS

(* The number of the blank line that ends the header lines.                *)
Blank(lines, cr) ==
  SelectInSubSeq(lines, 2, Len(lines), LAMBDA l : l = <<cr>>)

(* What is before and after it.                                            *)
HeadersAndBody(lines, cr, headers, body) ==
  /\ Blank(lines, cr) # 0
  /\ SubSeq(lines, 2, Blank(lines, cr) - 1) = headers
  /\ From(lines, Blank(lines, cr) + 1) = body

(* It is found where it is, if no header line is one.                      *)
LEMMA BlankIs ==
  ASSUME NEW S, NEW first \in S, NEW headers \in Seq(S), NEW body \in Seq(S),
         NEW cr, <<cr>> \in S,
         \A i \in 1 .. Len(headers) : headers[i] # <<cr>>
  PROVE  HeadersAndBody(((<<first>> \o headers) \o <<<<cr>>>>) \o body,
                        cr, headers, body)
<1> DEFINE r == <<cr>>
           n == Len(headers)
           B == Len(body)
           u == <<first>> \o headers
           v == u \o <<r>>
           lines == v \o body
<1>1. n \in Nat /\ B \in Nat /\ r \in S
  OBVIOUS
<1> HIDE DEF r
<1>2. /\ u \in Seq(S) /\ Len(u) = 1 + n /\ u[1] = first
      /\ \A i \in 1 .. n : u[1 + i] = headers[i]
  <2>1. <<first>> \in Seq(S) /\ Len(<<first>>) = 1 /\ <<first>>[1] = first
    BY One
  <2>2. IsConcat(u, <<first>>, headers, S)
    BY <2>1, Concatenation
  <2>3. 1 \in 1 .. 1
    OBVIOUS
  <2> HIDE DEF u
  <2> QED
    BY <2>1, <2>2, <2>3 DEF IsConcat
<1> HIDE DEF u
<1>3. /\ v \in Seq(S) /\ Len(v) = (1 + n) + 1 /\ v[n + 2] = r
      /\ \A i \in 1 .. 1 + n : v[i] = u[i]
  <2>1. <<r>> \in Seq(S) /\ Len(<<r>>) = 1 /\ <<r>>[1] = r
    BY <1>1, One
  <2>2. IsConcat(v, u, <<r>>, S)
    BY <1>2, <2>1, Concatenation
  <2>3. 1 \in 1 .. 1 /\ (1 + n) + 1 = n + 2
    BY <1>1
  <2> HIDE DEF v
  <2> QED
    BY <1>2, <2>1, <2>2, <2>3 DEF IsConcat
<1> HIDE DEF v
<1>4. /\ lines \in Seq(S) /\ Len(lines) = (n + 2) + B
      /\ \A i \in 1 .. n + 2 : lines[i] = v[i]
      /\ \A i \in 1 .. B : lines[(n + 2) + i] = body[i]
  <2>1. IsConcat(lines, v, body, S)
    BY <1>3, Concatenation
  <2>2. Len(v) = n + 2
    BY <1>1, <1>3
  <2> HIDE DEF lines
  <2> QED
    BY <2>1, <2>2 DEF IsConcat
<1> HIDE DEF lines
<1>5. ASSUME NEW i \in 1 .. n
      PROVE  lines[1 + i] = headers[i] /\ lines[1 + i] # r
  <2>1. 1 + i \in 1 .. n + 2 /\ 1 + i \in 1 .. 1 + n
    BY <1>1
  <2>2. headers[i] # r
    BY DEF r
  <2> QED
    BY <1>2, <1>3, <1>4, <2>1, <2>2
<1>6. lines[n + 2] = r
  <2>1. n + 2 \in 1 .. n + 2
    BY <1>1
  <2> QED
    BY <1>3, <1>4, <2>1
<1> DEFINE I == {i \in 2 .. Len(lines) : lines[i] = r}
<1>7. Blank(lines, cr) = n + 2
  <2>1. Blank(lines, cr) = IF I # {} THEN Min(I) ELSE 0
    BY Zenon DEF Blank, SelectInSubSeq, r
  <2>2. n + 2 \in I /\ I \in SUBSET Int
    <3>1. n + 2 \in 2 .. Len(lines)
      BY <1>1, <1>4
    <3> QED
      BY <1>6, <3>1
  <2>3. ASSUME NEW i \in I PROVE n + 2 <= i
    <3>1. SUFFICES ASSUME i <= n + 1 PROVE FALSE
      BY <1>1
    <3>2. i - 1 \in 1 .. n /\ 1 + (i - 1) = i
      BY <1>1, <3>1
    <3> QED
      BY <1>5, <3>2
  <2> HIDE DEF I
  <2>4. Min(I) = n + 2
    BY <2>2, <2>3, MinIs
  <2> QED
    BY <2>1, <2>2, <2>4
<1>8. SubSeq(lines, 2, (n + 2) - 1) = headers
  <2> DEFINE w == SubSeq(lines, 2, (n + 2) - 1)
  <2>1. /\ w \in Seq(S) /\ Len(w) = n
        /\ \A i \in 1 .. n : w[i] = lines[1 + i]
    BY <1>1, <1>4
  <2> HIDE DEF w
  <2>2. \A i \in 1 .. n : w[i] = headers[i]
    BY <1>5, <2>1
  <2>3. w = headers
    BY <2>1, <2>2, SameText
  <2> QED
    BY <2>3 DEF w
<1>9. From(lines, (n + 2) + 1) = body
  <2> DEFINE w == SubSeq(lines, (n + 2) + 1, Len(lines))
  <2>1. /\ w \in Seq(S) /\ Len(w) = B
        /\ \A i \in 1 .. B : w[i] = lines[(n + 2) + i]
    BY <1>1, <1>4
  <2> HIDE DEF w
  <2>2. w = body
    BY <1>4, <2>1, SameText
  <2> QED
    BY <2>2 DEF From, w
<1>10. n + 2 # 0
  BY <1>1
<1>11. HeadersAndBody(lines, cr, headers, body)
  BY <1>7, <1>8, <1>9, <1>10, Zenon DEF HeadersAndBody
<1> QED
  BY <1>11 DEF lines, v, u, r

(* The lines of a text that is put together of lines and a rest.           *)
LEMMA TextOfLines ==
  ASSUME NEW T, NEW sep, NEW cr, NEW x, IsLine(x, sep, T),
         NEW seqs \in Seq(Seq(T)),
         \A i \in 1 .. Len(seqs) :
           IsLine(seqs[i], sep, T) /\ Front(seqs[i]) # <<cr>>,
         NEW e, IsLine(e, sep, T), Front(e) = <<cr>>, NEW body \in Seq(T)
  PROVE  HeadersAndBody(
           Pieces(x \o ((FlattenSeq(seqs) \o e) \o body), sep), cr,
           Lines(seqs), Pieces(body, sep))
<1> DEFINE F == FlattenSeq(seqs)
           H == Lines(seqs)
           P == Pieces(body, sep)
           f == <<Front(x)>>
           r == <<Front(e)>>
           seps == {sep}
           Ends(s, done) == EndsWith(s, seps, 0, T, done, <<>>)
<1>1. /\ x \in Seq(T) /\ e \in Seq(T)
      /\ Front(x) \in Seq(T) /\ Front(e) \in Seq(T)
      /\ Ends(x, f) /\ Ends(e, r)
  BY LineEnds DEF IsLine
<1>2. Ends(F, H) /\ H \in Seq(Seq(T))
  BY LinesEnd
<1>3. F \in Seq(T)
  BY FlattenTypes
<1> HIDE DEF F
<1>4. x \o F \in Seq(T) /\ (x \o F) \o e \in Seq(T)
  BY <1>1, <1>3
<1>5. Ends(x \o F, f \o H)
  <2> HIDE DEF f, r, H
  <2> QED
    BY <1>1, <1>2, <1>3, EndsAfter
<1>6. Ends((x \o F) \o e, (f \o H) \o r)
  <2> HIDE DEF f, r, H
  <2> QED
    BY <1>1, <1>4, <1>5, EndsAfter
<1>7. Pieces(((x \o F) \o e) \o body, sep) = ((f \o H) \o r) \o P
      /\ P \in Seq(Seq(T))
  <2> DEFINE done == (f \o H) \o r
             y == (x \o F) \o e
  <2> HIDE DEF done, y, seps
  <2>1. Ends(y, done) /\ y \in Seq(T) /\ 0 \in Nat
    BY <1>4, <1>6 DEF done, y
  <2>2. /\ Cut(y \o body, seps, 0) = done \o Cut(body, seps, 0)
        /\ Cut(body, seps, 0) \in Seq(Seq(T))
    <3>1. /\ Cut(y \o body, seps, 0) = done \o Cut(body, seps, 0)
          /\ done \in Seq(Seq(T)) /\ Cut(body, seps, 0) \in Seq(Seq(T))
      BY <2>1, PartsAfter, Zenon
    <3> QED
      BY <3>1, Zenon
  <2> QED
    BY <2>2, Zenon DEF Pieces, done, y, seps
<1>8. ((x \o F) \o e) \o body = x \o ((F \o e) \o body)
  <2>1. F \o e \in Seq(T)
    BY <1>1, <1>3
  <2>2. Same3(x, F, e) /\ Same3(x, F \o e, body)
    BY <1>1, <1>3, <2>1, Associative
  <2> QED
    BY <2>2, Zenon DEF Same3
<1>9. \A i \in 1 .. Len(H) : H[i] # <<cr>>
  <2>1. Len(H) = Len(seqs) /\ \A i \in 1 .. Len(seqs) : H[i] = Front(seqs[i])
    BY DEF Lines
  <2> HIDE DEF H
  <2> QED
    BY <2>1
<1> DEFINE S == Seq(T)
<1>10. HeadersAndBody(((f \o H) \o r) \o P, cr, H, P)
  <2>1. Front(x) \in S /\ H \in Seq(S) /\ P \in Seq(S) /\ <<cr>> \in S
    BY <1>1, <1>2, <1>7
  <2> HIDE DEF S, H, P
  <2> QED
    BY <1>9, <2>1, BlankIs, Zenon
<1> QED
  BY <1>7, <1>8, <1>10, Zenon DEF F

-----------------------------------------------------------------------------
(* Text that is cut and joined again. *)

(* A text put after others.                                                *)
LEMMA FlattenAppend ==
  ASSUME NEW T, NEW seqs \in Seq(Seq(T)), NEW s \in Seq(T)
  PROVE  FlattenSeq(Append(seqs, s)) = FlattenSeq(seqs) \o s
<1> DEFINE N == Len(seqs)
           more == Append(seqs, s)
<1>1. /\ N \in Nat /\ more \in Seq(Seq(T)) /\ Len(more) = N + 1
      /\ more[N + 1] = s /\ \A i \in 1 .. N : more[i] = seqs[i]
  OBVIOUS
<1> HIDE DEF more
<1>2. PICK h : AreJoined(h, more, T)
  <2>1. Len(more) # 0
    BY <1>1
  <2> QED
    BY <1>1, <2>1, FlattenSteps
<1>3. /\ h[1] = more[1] /\ FlattenSeq(more) = h[N + 1]
      /\ \A i \in 2 .. N + 1 : h[i] = h[i - 1] \o more[i]
  BY <1>1, <1>2 DEF AreJoined
<1>4. CASE N = 0
  <2>1. FlattenSeq(seqs) = seqs /\ seqs = <<>>
    BY <1>4 DEF FlattenSeq
  <2>2. <<>> \o s = s
    OBVIOUS
  <2>3. FlattenSeq(more) = s
    BY <1>1, <1>3, <1>4
  <2> QED
    BY <2>1, <2>2, <2>3 DEF more
<1>5. CASE N # 0
  <2>1. PICK g : AreJoined(g, seqs, T)
    BY <1>5, FlattenSteps
  <2>2. /\ g[1] = seqs[1] /\ FlattenSeq(seqs) = g[N]
        /\ \A i \in 2 .. N : g[i] = g[i - 1] \o seqs[i]
    BY <2>1 DEF AreJoined
  <2> DEFINE K == {n \in 0 .. N : n = 0 \/ h[n] = g[n]}
  <2> HIDE DEF N
  <2>3. 0 \in K
    BY <1>1
  <2>4. ASSUME NEW n \in 1 .. N, n - 1 \in K PROVE n \in K
    <3>1. CASE n = 1
      BY <1>1, <1>3, <2>2, <3>1
    <3>2. CASE n # 1
      <4>1. n \in 2 .. N /\ n \in 2 .. N + 1 /\ n - 1 # 0
        BY <1>1, <3>2
      <4>2. h[n - 1] = g[n - 1] /\ more[n] = seqs[n]
        BY <1>1, <2>4, <4>1
      <4>3. h[n] = g[n]
        BY <1>3, <2>2, <4>1, <4>2
      <4> QED
        BY <1>1, <4>3
    <3> QED
      BY <3>1, <3>2
  <2> HIDE DEF K
  <2>5. \A n \in 0 .. N : n \in K
    BY <1>1, <2>3, <2>4, SetInduction
  <2>6. h[N] = g[N]
    <3>1. N \in 0 .. N
      BY <1>1
    <3> QED
      BY <1>5, <2>5, <3>1 DEF K
  <2>7. h[N + 1] = h[N] \o s
    <3>1. N + 1 \in 2 .. N + 1 /\ (N + 1) - 1 = N
      BY <1>1, <1>5
    <3> QED
      BY <1>1, <1>3, <3>1
  <2> QED
    BY <1>3, <2>2, <2>6, <2>7 DEF more
<1> QED
  BY <1>4, <1>5

(* A part joined to others.                                                *)
LEMMA JoinAppend ==
  ASSUME NEW T, NEW sep \in T, NEW pieces \in Seq(Seq(T)), NEW p \in Seq(T)
  PROVE  Join(Append(pieces, p), sep)
           = IF pieces = <<>> THEN p ELSE Join(pieces, sep) \o (<<sep>> \o p)
<1> DEFINE seqs(q) == [i \in DOMAIN q |->
                         IF i = 1 THEN q[1] ELSE <<sep>> \o q[i]]
           N == Len(pieces)
           more == Append(pieces, p)
           tail == <<sep>> \o p
           last == IF pieces = <<>> THEN p ELSE tail
<1>1. /\ Join(pieces, sep) = FlattenSeq(seqs(pieces))
      /\ Join(more, sep) = FlattenSeq(seqs(more))
  BY Zenon DEF Join
<1>2. /\ N \in Nat /\ DOMAIN pieces = 1 .. N
      /\ DOMAIN more = 1 .. N + 1 /\ more[N + 1] = p
      /\ \A i \in 1 .. N : more[i] = pieces[i] /\ pieces[i] \in Seq(T)
  OBVIOUS
<1>3. tail \in Seq(T) /\ \A q \in Seq(T) : <<sep>> \o q \in Seq(T)
  OBVIOUS
<1>4. pieces = <<>> <=> N = 0
  OBVIOUS
<1> HIDE DEF more, N
<1>5. /\ seqs(pieces) \in Seq(Seq(T)) /\ Len(seqs(pieces)) = N
      /\ \A i \in 1 .. N : seqs(pieces)[i]
                             = IF i = 1 THEN pieces[1] ELSE <<sep>> \o pieces[i]
  <2> DEFINE u == seqs(pieces)
  <2>1. /\ u = [i \in 1 .. N |-> u[i]]
        /\ \A i \in 1 .. N : u[i] = IF i = 1 THEN pieces[1]
                                    ELSE <<sep>> \o pieces[i]
    BY <1>2
  <2>2. \A i \in 1 .. N : u[i] \in Seq(T)
    <3>1. \A i \in 1 .. N : 1 \in 1 .. N
      BY <1>2
    <3> HIDE DEF u
    <3> QED
      BY <1>2, <1>3, <2>1, <3>1
  <2> HIDE DEF u
  <2>3. u \in Seq(Seq(T)) /\ Len(u) = N
    <3> DEFINE S == Seq(T)
           e(i) == u[i]
    <3>1. u = [i \in 1 .. N |-> e(i)] /\ (\A i \in 1 .. N : e(i) \in S)
          /\ N \in Nat
      BY <1>2, <2>1, <2>2
    <3> HIDE DEF S, e
    <3>2. u \in Seq(S) /\ Len(u) = N
      BY <3>1
    <3> QED
      BY <3>2 DEF S
  <2> QED
    BY <2>1, <2>3 DEF u
<1>6. seqs(more) = Append(seqs(pieces), last)
  <2> DEFINE u == seqs(pieces)
             v == seqs(more)
             w == Append(u, last)
  <2>1. last \in Seq(T)
    BY <1>3
  <2>2. /\ DOMAIN w = 1 .. N + 1 /\ w[N + 1] = last
        /\ \A i \in 1 .. N : w[i] = u[i]
        /\ w \in Seq(Seq(T))
    <3> HIDE DEF u, last
    <3> QED
      BY <1>2, <1>5, <2>1 DEF u
  <2>3. /\ v = [i \in 1 .. N + 1 |-> v[i]]
        /\ \A i \in 1 .. N + 1 :
             v[i] = IF i = 1 THEN more[1] ELSE <<sep>> \o more[i]
    BY <1>2
  <2>4. ASSUME NEW i \in 1 .. N + 1 PROVE v[i] = w[i]
    <3> HIDE DEF w
    <3>1. CASE i \in 1 .. N
      <4>1. w[i] = u[i] /\ u[i] = IF i = 1 THEN pieces[1]
                                  ELSE <<sep>> \o pieces[i]
        BY <1>5, <2>2, <3>1
      <4>2. more[i] = pieces[i] /\ (i = 1 => more[1] = pieces[1])
        BY <1>2, <3>1
      <4> HIDE DEF u, v
      <4> QED
        BY <2>3, <4>1, <4>2, Zenon
    <3>2. CASE i = N + 1 /\ N = 0
      <4>1. i = 1
        BY <3>2
      <4> QED
        BY <1>2, <1>4, <2>2, <2>3, <3>2, <4>1
    <3>3. CASE i = N + 1 /\ N # 0
      <4>1. i # 1
        BY <1>2, <3>3
      <4> QED
        BY <1>2, <1>4, <2>2, <2>3, <3>3, <4>1
    <3> QED
      BY <1>2, <3>1, <3>2, <3>3
  <2> HIDE DEF u, v, w
  <2>5. v = w
    BY <2>2, <2>3, <2>4
  <2> QED
    BY <2>5 DEF u, v, w
<1>7. FlattenSeq(Append(seqs(pieces), last))
        = FlattenSeq(seqs(pieces)) \o last
  <2> DEFINE u == seqs(pieces)
  <2>1. last \in Seq(T) /\ u \in Seq(Seq(T))
    BY <1>3, <1>5
  <2> HIDE DEF u, last
  <2> QED
    BY <2>1, FlattenAppend DEF u
<1>8. Join(more, sep) = Join(pieces, sep) \o last
  <2> HIDE DEF seqs
  <2> QED
    BY <1>1, <1>6, <1>7, Zenon
<1>9. CASE pieces = <<>>
  <2>1. Join(pieces, sep) = <<>>
    <3> DEFINE u == seqs(pieces)
    <3>1. Len(u) = 0 /\ u \in Seq(Seq(T))
      BY <1>4, <1>5, <1>9
    <3> HIDE DEF u
    <3>2. FlattenSeq(u) = u /\ u = <<>>
      BY <3>1 DEF FlattenSeq
    <3> QED
      BY <1>1, <3>2 DEF u
  <2>2. <<>> \o p = p
    OBVIOUS
  <2> QED
    BY <1>8, <1>9, <2>1, <2>2 DEF more
<1>10. CASE pieces # <<>>
  BY <1>8, <1>10, Zenon DEF more
<1> QED
  BY <1>9, <1>10

(* What parts that are done and one that is not are of a text.             *)
Undone(done, cur, sep) ==
  IF done = <<>> THEN cur ELSE (Join(done, sep) \o <<sep>>) \o cur

(* Join undoes what getline does, but for a last separator.                *)
LEMMA JoinUndoesCut ==
  ASSUME NEW T, NEW sep \in T, NEW y \in Seq(T)
  PROVE  y \in {Join(Pieces(y, sep), sep), Join(Pieces(y, sep), sep) \o <<sep>>}
<1> DEFINE N == Len(y)
           seps == {sep}
<1>0. \A t : t \in seps <=> t = sep
  OBVIOUS
<1>1. N \in Nat /\ \A i \in 1 .. N : y[i] \in T
  OBVIOUS
<1> HIDE DEF seps
<1>2. PICK a : AreCuts(a, y, seps, 0, T)
  BY CutRuns
<1>3. /\ a[0] = CutStart /\ Cut(y, seps, 0) = CutEnd(a[N])
      /\ \A n \in 1 .. N : a[n] = CutNext(seps, 0, a[n - 1], y[n])
      /\ \A n \in 0 .. N : a[n] \in Cutting(T)
  BY <1>2 DEF AreCuts
<1>4. ASSUME NEW done \in Seq(Seq(T)), NEW cur \in Seq(T)
      PROVE  /\ Join(Append(done, cur), sep) = Undone(done, cur, sep)
             /\ Undone(done, cur, sep) \in Seq(T) /\ Join(done, sep) \in Seq(T)
             /\ done = <<>> => Join(done, sep) = <<>>
  <2>1. Join(Append(done, cur), sep)
          = IF done = <<>> THEN cur ELSE Join(done, sep) \o (<<sep>> \o cur)
    BY JoinAppend
  <2>2. Join(done, sep) \in Seq(T) /\ <<sep>> \in Seq(T)
    BY JoinTypes
  <2>3. Same3(Join(done, sep), <<sep>>, cur)
    BY <2>2, Associative
  <2>4. Undone(done, cur, sep) \in Seq(T)
    BY <2>2 DEF Undone
  <2>5. done = <<>> => Join(done, sep) = <<>>
    <3> DEFINE u == [i \in DOMAIN done |->
                       IF i = 1 THEN done[1] ELSE <<sep>> \o done[i]]
    <3>1. Join(done, sep) = FlattenSeq(u)
      BY Zenon DEF Join
    <3>2. ASSUME done = <<>> PROVE u = <<>>
      BY <3>2
    <3> HIDE DEF u
    <3>3. ASSUME u = <<>> PROVE FlattenSeq(u) = <<>>
      BY <3>3 DEF FlattenSeq
    <3> QED
      BY <3>1, <3>2, <3>3
  <2> QED
    BY <2>1, <2>2, <2>3, <2>4, <2>5, Zenon DEF Undone, Same3
<1> DEFINE Good(n) == Undone(a[n].done, a[n].cur, sep) = SubSeq(y, 1, n)
           K == {n \in 0 .. N : Good(n)}
<1>5. 0 \in K
  <2>1. a[0].done = <<>> /\ a[0].cur = <<>> /\ SubSeq(y, 1, 0) = <<>>
    BY <1>3 DEF CutStart
  <2>2. Good(0)
    BY <2>1 DEF Undone
  <2> HIDE DEF Good
  <2> QED
    BY <1>1, <2>2
<1>6. ASSUME NEW n \in 1 .. N, n - 1 \in K PROVE n \in K
  <2> DEFINE b == a[n - 1]
             x == SubSeq(y, 1, n - 1)
  <2>1. n \in 0 .. N /\ n - 1 \in 0 .. N /\ n \in Nat
    BY <1>1
  <2>2. b \in Cutting(T) /\ a[n] = CutNext(seps, 0, b, y[n]) /\ y[n] \in T
    BY <1>1, <1>3, <2>1
  <2>3. Undone(b.done, b.cur, sep) = x
    BY <1>6
  <2>4. SubSeq(y, 1, n) = Append(x, y[n]) /\ x \in Seq(T)
    BY <1>1, <2>1
  <2> HIDE DEF b, x
  <2>5. /\ b = [done |-> b.done, cur |-> b.cur]
        /\ b.done \in Seq(Seq(T)) /\ b.cur \in Seq(T) /\ Len(b.cur) >= 0
    BY <2>2 DEF Cutting
  <2>6. Append(x, y[n]) = x \o <<y[n]>>
    BY <2>2, <2>4
  <2>7. CASE y[n] \notin seps
    <3>1. a[n].done = b.done /\ a[n].cur = Append(b.cur, y[n])
      BY <2>2, <2>5, <2>7 DEF CutNext
    <3>2. Append(b.cur, y[n]) = b.cur \o <<y[n]>> /\ <<y[n]>> \in Seq(T)
      BY <2>2, <2>5
    <3>3. ASSUME b.done = <<>> PROVE Good(n)
      BY <2>3, <2>4, <3>1, <3>3 DEF Undone
    <3>4. ASSUME b.done # <<>> PROVE Good(n)
      <4> DEFINE J == Join(b.done, sep) \o <<sep>>
      <4>1. J \in Seq(T)
        BY <1>4, <2>5
      <4> HIDE DEF J
      <4>2. Same3(J, b.cur, <<y[n]>>)
        BY <2>5, <3>2, <4>1, Associative
      <4>3. J \o b.cur = x
        BY <2>3, <3>4 DEF Undone, J
      <4>4. J \o a[n].cur = SubSeq(y, 1, n)
        BY <2>4, <2>6, <3>1, <3>2, <4>2, <4>3, Zenon DEF Same3
      <4> QED
        BY <3>1, <3>4, <4>4 DEF Undone, J
    <3>5. Good(n)
      BY <3>3, <3>4
    <3> HIDE DEF Good
    <3> QED
      BY <2>1, <3>5
  <2>8. CASE y[n] \in seps
    <3>1. a[n].done = Append(b.done, b.cur) /\ a[n].cur = <<>>
      BY <2>2, <2>5, <2>8 DEF CutNext
    <3>2. Append(b.done, b.cur) # <<>>
      <4> DEFINE S == Seq(T)
      <4>1. b.done \in Seq(S) /\ b.cur \in S
        BY <2>5
      <4> HIDE DEF S
      <4>2. Len(Append(b.done, b.cur)) = Len(b.done) + 1 /\ Len(b.done) \in Nat
        BY <4>1
      <4>3. Len(<<>>) = 0
        OBVIOUS
      <4> HIDE DEF b
      <4>4. Len(Append(b.done, b.cur)) # 0
        BY <4>2
      <4> QED
        BY <4>3, <4>4, Zenon
    <3>3. Join(a[n].done, sep) = x
      BY <1>4, <2>3, <2>5, <3>1
    <3>4. y[n] = sep /\ (x \o <<y[n]>>) \o <<>> = x \o <<y[n]>>
      BY <1>0, <2>2, <2>4, <2>8
    <3>5. Good(n)
      BY <2>4, <2>6, <3>1, <3>2, <3>3, <3>4, Zenon DEF Undone
    <3> HIDE DEF Good
    <3> QED
      BY <2>1, <3>5
  <2> QED
    BY <2>7, <2>8
<1> HIDE DEF K
<1>7. \A n \in 0 .. N : n \in K
  BY <1>1, <1>5, <1>6, SetInduction
<1> DEFINE d == a[N].done
           c == a[N].cur
<1>8. Undone(d, c, sep) = y
  <2>1. N \in 0 .. N /\ SubSeq(y, 1, N) = y
    BY <1>1
  <2> QED
    BY <1>7, <2>1 DEF K
<1>9. d \in Seq(Seq(T)) /\ c \in Seq(T)
  <2>1. a[N] \in Cutting(T)
    BY <1>1, <1>3
  <2> QED
    BY <2>1 DEF Cutting
<1>10. Pieces(y, sep) = IF c = <<>> THEN d ELSE Append(d, c)
  BY <1>3, Zenon DEF Pieces, CutEnd, seps
<1> HIDE DEF d, c
<1>11. CASE c # <<>>
  BY <1>4, <1>8, <1>9, <1>10, <1>11
<1>12. CASE c = <<>> /\ d = <<>>
  <2>1. y = <<>> /\ Pieces(y, sep) = <<>> /\ Join(d, sep) = <<>>
    BY <1>4, <1>8, <1>9, <1>10, <1>12 DEF Undone
  <2> QED
    BY <1>12, <2>1
<1>13. CASE c = <<>> /\ d # <<>>
  <2>1. y = (Join(d, sep) \o <<sep>>) \o <<>> /\ Pieces(y, sep) = d
    BY <1>8, <1>10, <1>13 DEF Undone
  <2>2. Join(d, sep) \o <<sep>> \in Seq(T)
    <3>1. Join(d, sep) \in Seq(T)
      BY <1>4, <1>9, Zenon
    <3> QED
      BY <3>1
  <2>3. (Join(d, sep) \o <<sep>>) \o <<>> = Join(d, sep) \o <<sep>>
    BY <2>2
  <2> QED
    BY <2>1, <2>3
<1> QED
  BY <1>11, <1>12, <1>13

-----------------------------------------------------------------------------
(* Maps that are filled by a loop. *)

(* What the last of some of the pairs give to each name, and an assignment *)
(* of each pair in turn to a map.                                          *)
ValuesAt(pairs, S) ==
  [n \in {pairs[i][1] : i \in S} |->
     pairs[Max({i \in S : pairs[i][1] = n})][2]]
Assigns(f, pairs) ==
  f = [S \in SUBSET (DOMAIN pairs) |->
         IF S = {} THEN <<>>
         ELSE Put(f[S \ {Max(S)}], pairs[Max(S)][1], pairs[Max(S)][2])]

(* A pair is assigned after those before it.                               *)
LEMMA PutLast ==
  ASSUME NEW N \in Nat, NEW pairs, NEW S \in SUBSET (1 .. N), S # {}
  PROVE  ValuesAt(pairs, S)
           = Put(ValuesAt(pairs, S \ {Max(S)}), pairs[Max(S)][1],
                 pairs[Max(S)][2])
<1> DEFINE m == Max(S)
           R == S \ {m}
           key == pairs[m][1]
           f == ValuesAt(pairs, S)
           g == ValuesAt(pairs, R)
           h == Put(g, key, pairs[m][2])
           Of(n) == {i \in S : pairs[i][1] = n}
<1>1. m \in S /\ \A i \in S : i <= m
  BY MaxOfIndices
<1> HIDE DEF m
<1>2. DOMAIN f = {pairs[i][1] : i \in S} /\ DOMAIN h = DOMAIN g \cup {key}
      /\ DOMAIN g = {pairs[i][1] : i \in R}
  BY DEF ValuesAt, Put
<1>3. DOMAIN f = DOMAIN h
  BY <1>1, <1>2
<1>4. ASSUME NEW n \in DOMAIN f PROVE f[n] = h[n]
  <2>1. f[n] = pairs[Max(Of(n))][2]
    BY DEF ValuesAt
  <2>2. CASE n = key
    <3>1. /\ m \in Of(n) /\ Of(n) \in SUBSET Int
          /\ \A i \in Of(n) : i <= m
      <4>1. m \in Of(n) /\ \A i \in Of(n) : i <= m
        BY <1>1, <2>2
      <4>2. \A i \in Of(n) : i \in S
        OBVIOUS
      <4>3. \A i \in S : i \in Int
        OBVIOUS
      <4> HIDE DEF Of
      <4> QED
        BY <4>1, <4>2, <4>3
    <3> HIDE DEF Of, f, g, key
    <3>2. Max(Of(n)) = m
      BY <3>1, MaxIs
    <3>3. h[n] = pairs[m][2]
      BY <2>2 DEF Put
    <3> QED
      BY <2>1, <3>2, <3>3
  <2>3. CASE n # key
    <3>1. Of(n) = {i \in R : pairs[i][1] = n}
      BY <2>3
    <3>2. n \in DOMAIN g
      BY <1>2, <1>3, <2>3
    <3>3. g[n] = pairs[Max(Of(n))][2]
      <4>1. g[n] = pairs[Max({i \in R : pairs[i][1] = n})][2]
        BY <1>2, <3>2, Zenon DEF ValuesAt
      <4> QED
        BY <3>1, <4>1, Zenon
    <3> HIDE DEF Of, f, g, key
    <3>4. h[n] = g[n]
      BY <2>3, <3>2 DEF Put
    <3> QED
      BY <2>1, <3>3, <3>4
  <2> QED
    BY <2>2, <2>3
<1>5. f = [n \in DOMAIN f |-> f[n]] /\ h = [n \in DOMAIN h |-> h[n]]
  BY DEF ValuesAt, Put
<1> HIDE DEF f, h
<1>6. f = h
  BY <1>3, <1>4, <1>5
<1> QED
  BY <1>6 DEF f, h, g, R, key, m

(* Without pairs there are no names.                                       *)
LEMMA NoValues == ASSUME NEW pairs PROVE ValuesAt(pairs, {}) = <<>>
<1>1. {pairs[i][1] : i \in {}} = {}
  OBVIOUS
<1>2. DOMAIN ValuesAt(pairs, {}) = {}
  BY <1>1 DEF ValuesAt
<1>3. \A f, g : /\ f = [n \in DOMAIN f |-> f[n]] /\ DOMAIN f = {}
                /\ g = [n \in DOMAIN g |-> g[n]] /\ DOMAIN g = {}
                => f = g
  OBVIOUS
<1>4. /\ DOMAIN <<>> = {} /\ <<>> = [n \in DOMAIN <<>> |-> <<>>[n]]
  OBVIOUS
<1>5. ValuesAt(pairs, {})
        = [n \in DOMAIN ValuesAt(pairs, {}) |-> ValuesAt(pairs, {})[n]]
  BY DEF ValuesAt
<1> HIDE DEF ValuesAt
<1> QED
  BY <1>2, <1>3, <1>4, <1>5

(* The pairs can be assigned in turn.                                      *)
LEMMA AssignsExists ==
  ASSUME NEW A, NEW pairs \in Seq(A) PROVE \E f : Assigns(f, pairs)
<1> DEFINE N == Len(pairs)
           f == [S \in SUBSET (1 .. N) |-> ValuesAt(pairs, S)]
           Step(S) == Put(f[S \ {Max(S)}], pairs[Max(S)][1], pairs[Max(S)][2])
<1>1. N \in Nat /\ DOMAIN pairs = 1 .. N
  OBVIOUS
<1>2. ASSUME NEW S \in SUBSET (1 .. N)
      PROVE  f[S] = IF S = {} THEN <<>> ELSE Step(S)
  <2>1. f[S] = ValuesAt(pairs, S)
    OBVIOUS
  <2>2. CASE S = {}
    BY <2>1, <2>2, NoValues
  <2>3. CASE S # {}
    <3>1. f[S \ {Max(S)}] = ValuesAt(pairs, S \ {Max(S)})
      OBVIOUS
    <3>2. ValuesAt(pairs, S) = Step(S)
      <4>1. ValuesAt(pairs, S)
              = Put(ValuesAt(pairs, S \ {Max(S)}), pairs[Max(S)][1],
                    pairs[Max(S)][2])
        BY <1>1, <2>3, PutLast
      <4> HIDE DEF f
      <4> QED
        BY <3>1, <4>1, Zenon
    <3> HIDE DEF f
    <3> QED
      BY <2>1, <2>3, <3>2, Zenon
  <2> QED
    BY <2>2, <2>3
<1>3. f = [S \in SUBSET (1 .. N) |-> IF S = {} THEN <<>> ELSE Step(S)]
  <2>1. f = [S \in SUBSET (1 .. N) |-> f[S]]
    OBVIOUS
  <2> HIDE DEF f, Step
  <2> QED
    BY <1>2, <2>1
<1> HIDE DEF f
<1>4. Assigns(f, pairs)
  BY <1>1, <1>3, Zenon DEF Assigns
<1> QED
  BY <1>4

(* Whatever does so gives each name the value of its last pair.            *)
LEMMA AssignsLast ==
  ASSUME NEW A, NEW pairs \in Seq(A), NEW g, Assigns(g, pairs)
  PROVE  g[DOMAIN pairs] = LastValues(pairs)
<1> DEFINE N == Len(pairs)
           K == {n \in 0 .. N : g[1 .. n] = ValuesAt(pairs, 1 .. n)}
<1>1. N \in Nat /\ DOMAIN pairs = 1 .. N
  OBVIOUS
<1>2. ASSUME NEW S \in SUBSET (1 .. N)
      PROVE  g[S] = IF S = {} THEN <<>>
                    ELSE Put(g[S \ {Max(S)}], pairs[Max(S)][1],
                             pairs[Max(S)][2])
  BY <1>1, Zenon DEF Assigns
<1>3. 0 \in K
  <2>1. 1 .. 0 = {} /\ {} \in SUBSET (1 .. N) /\ 0 \in 0 .. N
    BY <1>1
  <2>2. g[{}] = <<>>
    BY <1>2, <2>1, Zenon
  <2>3. g[1 .. 0] = ValuesAt(pairs, 1 .. 0)
    BY <2>1, <2>2, NoValues
  <2> QED
    BY <2>1, <2>3
<1>4. ASSUME NEW n \in 1 .. N, n - 1 \in K PROVE n \in K
  <2>1. /\ 1 .. n \in SUBSET (1 .. N) /\ 1 .. n # {}
        /\ Max(1 .. n) = n /\ (1 .. n) \ {n} = 1 .. n - 1
    BY <1>1, IndexSets, Zenon
  <2>2. g[1 .. n - 1] = ValuesAt(pairs, 1 .. n - 1)
    BY <1>4
  <2>3. g[1 .. n] = Put(g[1 .. n - 1], pairs[n][1], pairs[n][2])
    BY <1>2, <2>1, Zenon
  <2>4. ValuesAt(pairs, 1 .. n)
          = Put(ValuesAt(pairs, 1 .. n - 1), pairs[n][1], pairs[n][2])
    <3>1. ValuesAt(pairs, 1 .. n)
            = Put(ValuesAt(pairs, (1 .. n) \ {Max(1 .. n)}),
                  pairs[Max(1 .. n)][1], pairs[Max(1 .. n)][2])
      BY <1>1, <2>1, PutLast, Zenon
    <3> QED
      BY <2>1, <3>1, Zenon
  <2>5. n \in 0 .. N
    BY <1>1
  <2>6. g[1 .. n] = ValuesAt(pairs, 1 .. n)
    BY <2>2, <2>3, <2>4, Zenon
  <2> QED
    BY <2>5, <2>6
<1> HIDE DEF K
<1>5. \A n \in 0 .. N : n \in K
  BY <1>1, <1>3, <1>4, SetInduction
<1>6. g[1 .. N] = ValuesAt(pairs, 1 .. N)
  <2>1. N \in 0 .. N
    BY <1>1
  <2> QED
    BY <1>5, <2>1 DEF K
<1> QED
  BY <1>1, <1>6, Zenon DEF ValuesAt, LastValues

(* The name and the value of a parameter, and of a header.                 *)
Pair(q) == LET e == IndexOf(q, "=")
           IN  IF e = 0 THEN <<q, <<>>>> ELSE <<Before(q, e), From(q, e + 1)>>
Field(h) == <<ToLower(<<h[1]>>), h[2]>>

(* Parameters are parsed to the last value of each name.                   *)
LEMMA ParamsAre ==
  ASSUME NEW A, NEW query \in Seq(A), NEW text, Pieces(text, "&") = query
  PROVE  ParseQueryParams(text)
           = LastValues([i \in DOMAIN query |-> Pair(query[i])])
<1> DEFINE pairs == [i \in DOMAIN query |-> Pair(query[i])]
           Step(params, q) ==
             IF IndexOf(q, "=") = 0 THEN Put(params, q, <<>>)
             ELSE Put(params, Before(q, IndexOf(q, "=")),
                      From(q, IndexOf(q, "=") + 1))
           Rec(f) == [S \in SUBSET (DOMAIN query) |->
                        IF S = {} THEN <<>>
                        ELSE Step(f[S \ {Max(S)}], query[Max(S)])]
           g == CHOOSE f : f = Rec(f)
           B == {Pair(q) : q \in A}
<1>1. ParseQueryParams(text) = g[DOMAIN query]
  BY Zenon DEF ParseQueryParams, FoldLeft, MapThenFoldSet
<1> HIDE DEF g
<1>2. DOMAIN query = 1 .. Len(query) /\ Len(query) \in Nat
      /\ \A i \in 1 .. Len(query) : query[i] \in A
  OBVIOUS
<1>3. DOMAIN pairs = DOMAIN query /\ pairs \in Seq(B)
      /\ \A i \in DOMAIN query : pairs[i] = Pair(query[i])
  <2>1. \A i \in 1 .. Len(query) : Pair(query[i]) \in B
    BY <1>2
  <2> HIDE DEF B
  <2> QED
    BY <1>2, <2>1
<1>4. \A params, q : Step(params, q) = Put(params, Pair(q)[1], Pair(q)[2])
  BY DEF Pair
<1> HIDE DEF Step, pairs, B
<1>5. ASSUME NEW f
      PROVE  Rec(f) = [S \in SUBSET (DOMAIN pairs) |->
                         IF S = {} THEN <<>>
                         ELSE Put(f[S \ {Max(S)}], pairs[Max(S)][1],
                                  pairs[Max(S)][2])]
  <2>1. ASSUME NEW S \in SUBSET (DOMAIN query), S # {}
        PROVE  Step(f[S \ {Max(S)}], query[Max(S)])
                 = Put(f[S \ {Max(S)}], pairs[Max(S)][1], pairs[Max(S)][2])
    <3>1. Max(S) \in DOMAIN query
      BY <1>2, <2>1, MaxOfIndices
    <3> QED
      BY <1>3, <1>4, <3>1
  <2> QED
    BY <1>3, <2>1
<1>6. PICK f : Assigns(f, pairs)
  BY <1>3, AssignsExists
<1>7. f = Rec(f)
  BY <1>5, <1>6, Zenon DEF Assigns
<1>8. g = Rec(g)
  BY <1>7, Zenon DEF g
<1>9. Assigns(g, pairs)
  BY <1>5, <1>8, Zenon DEF Assigns
<1>10. g[DOMAIN pairs] = LastValues(pairs)
  BY <1>3, <1>9, AssignsLast
<1> QED
  BY <1>1, <1>3, <1>10, Zenon DEF pairs

(* What parse_http_request reads in a header line.                         *)
ReadsField(line, h) ==
  LET c == IndexOf(line, ":")
  IN  /\ c # 0
      /\ Trim(Before(line, c)) = <<h[1]>>
      /\ Trim(From(line, c + 1)) = h[2]

(* Header lines are parsed to the last value of each name in lower case.   *)
LEMMA FieldsAre ==
  ASSUME NEW A, NEW lines \in Seq(A), NEW C, NEW headers \in Seq(C),
         Len(lines) = Len(headers),
         \A i \in 1 .. Len(headers) : ReadsField(lines[i], headers[i])
  PROVE  ParseHeaders(lines)
           = LastValues([i \in DOMAIN headers |-> Field(headers[i])])
<1> DEFINE pairs == [i \in DOMAIN headers |-> Field(headers[i])]
           Step(map, l) ==
             IF IndexOf(l, ":") = 0 THEN map
             ELSE Put(map, ToLower(Trim(Before(l, IndexOf(l, ":")))),
                      Trim(From(l, IndexOf(l, ":") + 1)))
           Rec(f) == [S \in SUBSET (DOMAIN lines) |->
                        IF S = {} THEN <<>>
                        ELSE Step(f[S \ {Max(S)}], lines[Max(S)])]
           g == CHOOSE f : f = Rec(f)
           B == {Field(h) : h \in C}
<1>1. ParseHeaders(lines) = g[DOMAIN lines]
  BY Zenon DEF ParseHeaders, FoldLeft, MapThenFoldSet
<1> HIDE DEF g
<1>2. /\ DOMAIN lines = 1 .. Len(headers) /\ Len(headers) \in Nat
      /\ DOMAIN headers = 1 .. Len(headers)
      /\ \A i \in 1 .. Len(headers) : headers[i] \in C
  OBVIOUS
<1>3. DOMAIN pairs = DOMAIN lines /\ pairs \in Seq(B)
      /\ \A i \in DOMAIN lines : pairs[i] = Field(headers[i])
  <2>1. \A i \in 1 .. Len(headers) : Field(headers[i]) \in B
    BY <1>2
  <2> HIDE DEF B
  <2> QED
    BY <1>2, <2>1
<1>4. ASSUME NEW i \in DOMAIN lines, NEW map
      PROVE  Step(map, lines[i]) = Put(map, pairs[i][1], pairs[i][2])
  <2>1. ReadsField(lines[i], headers[i]) /\ pairs[i] = Field(headers[i])
    BY <1>2, <1>3
  <2>2. pairs[i][1] = ToLower(<<headers[i][1]>>) /\ pairs[i][2] = headers[i][2]
    BY <2>1 DEF Field
  <2> QED
    BY <2>1, <2>2, Zenon DEF ReadsField
<1> HIDE DEF Step, pairs, B
<1>5. ASSUME NEW f
      PROVE  Rec(f) = [S \in SUBSET (DOMAIN pairs) |->
                         IF S = {} THEN <<>>
                         ELSE Put(f[S \ {Max(S)}], pairs[Max(S)][1],
                                  pairs[Max(S)][2])]
  <2>1. ASSUME NEW S \in SUBSET (DOMAIN lines), S # {}
        PROVE  Step(f[S \ {Max(S)}], lines[Max(S)])
                 = Put(f[S \ {Max(S)}], pairs[Max(S)][1], pairs[Max(S)][2])
    <3>1. Max(S) \in DOMAIN lines
      BY <1>2, <2>1, MaxOfIndices
    <3> QED
      BY <1>4, <3>1
  <2> QED
    BY <1>3, <2>1
<1>6. PICK f : Assigns(f, pairs)
  BY <1>3, AssignsExists
<1>7. f = Rec(f)
  BY <1>5, <1>6, Zenon DEF Assigns
<1>8. g = Rec(g)
  BY <1>7, Zenon DEF g
<1>9. Assigns(g, pairs)
  BY <1>5, <1>8, Zenon DEF Assigns
<1>10. g[DOMAIN pairs] = LastValues(pairs)
  BY <1>3, <1>9, AssignsLast
<1> QED
  BY <1>1, <1>3, <1>10, Zenon DEF pairs

-----------------------------------------------------------------------------
(* Header lines. *)

(* A text without separators makes a line.                                 *)
LEMMA LineIs ==
  ASSUME NEW T, NEW sep \in T, NEW m \in Seq(T),
         \A i \in 1 .. Len(m) : m[i] # sep
  PROVE  IsLine(m \o <<sep>>, sep, T) /\ Front(m \o <<sep>>) = m
<1> DEFINE s == m \o <<sep>>
           N == Len(m)
<1>1. /\ s \in Seq(T) /\ N \in Nat /\ Len(s) = N + 1 /\ s[N + 1] = sep
      /\ \A i \in 1 .. N : s[i] = m[i]
  <2>1. <<sep>> \in Seq(T) /\ Len(<<sep>>) = 1 /\ <<sep>>[1] = sep
    BY One
  <2>2. IsConcat(s, m, <<sep>>, T)
    BY <2>1, Concatenation
  <2>3. 1 \in 1 .. 1
    OBVIOUS
  <2> HIDE DEF s
  <2> QED
    BY <2>1, <2>2, <2>3 DEF IsConcat
<1> HIDE DEF s
<1>2. (N + 1) - 1 = N
  BY <1>1
<1>3. IsLine(s, sep, T)
  BY <1>1, <1>2 DEF IsLine
<1>4. Front(s) = m
  <2> DEFINE w == SubSeq(s, 1, N)
  <2>1. w \in Seq(T) /\ Len(w) = N /\ \A i \in 1 .. N : w[i] = s[i]
    BY <1>1
  <2> HIDE DEF w
  <2>2. w = m
    BY <1>1, <2>1, SameText
  <2> QED
    BY <1>1, <1>2, <2>2 DEF Front, w
<1> QED
  BY <1>3, <1>4 DEF s

(* No space begins or ends a text.                                         *)
IsTrim(v) ==
  v # <<>> => v[1] \notin Space /\ v[Len(v)] \notin Space

(* Trim leaves the text between spaces.                                    *)
LEMMA TrimIs ==
  ASSUME NEW T, NEW p \in Seq(T), NEW v \in Seq(T), NEW q \in Seq(T),
         \A i \in 1 .. Len(p) : p[i] \in Space,
         \A i \in 1 .. Len(q) : q[i] \in Space,
         IsTrim(v)
  PROVE  Trim((p \o v) \o q) = v
<1> DEFINE P == Len(p)
           V == Len(v)
           Q == Len(q)
           u == p \o v
           s == u \o q
           text == {i \in DOMAIN s : s[i] \notin Space}
<1>1. /\ P \in Nat /\ V \in Nat /\ Q \in Nat
      /\ u \in Seq(T) /\ Len(u) = P + V
      /\ \A i \in 1 .. P : u[i] = p[i]
      /\ \A i \in 1 .. V : u[P + i] = v[i]
  <2>1. IsConcat(u, p, v, T)
    BY Concatenation
  <2> HIDE DEF u
  <2> QED
    BY <2>1 DEF IsConcat
<1> HIDE DEF u
<1>2. /\ s \in Seq(T) /\ Len(s) = (P + V) + Q
      /\ \A i \in 1 .. P + V : s[i] = u[i]
      /\ \A i \in 1 .. Q : s[(P + V) + i] = q[i]
  <2>1. IsConcat(s, u, q, T)
    BY <1>1, Concatenation
  <2> HIDE DEF s
  <2> QED
    BY <1>1, <2>1 DEF IsConcat
<1>3. DOMAIN s = 1 .. (P + V) + Q
  BY <1>2
<1> HIDE DEF s
<1>4. ASSUME NEW i \in 1 .. P PROVE s[i] \in Space
  <2>1. i \in 1 .. P + V
    BY <1>1
  <2> QED
    BY <1>1, <1>2, <2>1
<1>5. ASSUME NEW i \in 1 .. V PROVE s[P + i] = v[i]
  <2>1. P + i \in 1 .. P + V
    BY <1>1
  <2> QED
    BY <1>1, <1>2, <2>1
<1>6. ASSUME NEW i \in 1 .. Q PROVE s[(P + V) + i] \in Space
  BY <1>2
<1>7. ASSUME NEW i \in text
      PROVE  i \in P + 1 .. P + V /\ i \in Int /\ V # 0
  <2>1. i \in 1 .. (P + V) + Q /\ s[i] \notin Space
    BY <1>3
  <2>2. ~ (i <= P)
    BY <1>4, <2>1
  <2>3. ~ (i > P + V)
    <3>1. SUFFICES ASSUME i > P + V PROVE FALSE
      OBVIOUS
    <3>2. i - (P + V) \in 1 .. Q /\ (P + V) + (i - (P + V)) = i
      BY <1>1, <2>1, <3>1
    <3> QED
      BY <1>6, <2>1, <3>2
  <2> QED
    BY <1>1, <2>1, <2>2, <2>3
<1>8. Trim(s) = IF text = {} THEN <<>> ELSE SubSeq(s, Min(text), Max(text))
  BY Zenon DEF Trim
<1>9. CASE V = 0
  <2>1. text = {} /\ v = <<>>
    BY <1>7, <1>9
  <2> HIDE DEF text
  <2> QED
    BY <1>8, <2>1, Zenon DEF s, u
<1>10. CASE V # 0
  <2>1. v[1] \notin Space /\ v[V] \notin Space
    <3>1. v # <<>>
      BY <1>10
    <3> QED
      BY <3>1 DEF IsTrim
  <2>2. P + 1 \in text /\ P + V \in text
    <3>1. /\ 1 \in 1 .. V /\ V \in 1 .. V
          /\ P + 1 \in 1 .. (P + V) + Q /\ P + V \in 1 .. (P + V) + Q
      BY <1>1, <1>10
    <3>2. s[P + 1] = v[1] /\ s[P + V] = v[V]
      BY <1>5, <3>1
    <3> QED
      BY <1>3, <2>1, <3>1, <3>2
  <2>3. text \in SUBSET Int
    BY <1>7
  <2>4. \A i \in text : P + 1 <= i /\ i <= P + V
    BY <1>1, <1>7
  <2> HIDE DEF text
  <2>5. Min(text) = P + 1
    BY <2>2, <2>3, <2>4, MinIs
  <2>6. Max(text) = P + V
    BY <2>2, <2>3, <2>4, MaxIs
  <2>7. SubSeq(s, P + 1, P + V) = v
    <3> DEFINE w == SubSeq(s, P + 1, P + V)
    <3>1. /\ w \in Seq(T) /\ Len(w) = V
          /\ \A i \in 1 .. V : w[i] = s[P + i]
      BY <1>1, <1>2
    <3> HIDE DEF w
    <3>2. \A i \in 1 .. V : w[i] = v[i]
      BY <1>5, <3>1
    <3>3. w = v
      BY <3>1, <3>2, SameText
    <3> QED
      BY <3>3 DEF w
  <2>8. text # {}
    BY <2>2
  <2> QED
    BY <1>8, <2>5, <2>6, <2>7, <2>8, Zenon DEF s, u
<1> QED
  BY <1>9, <1>10

(* Two tokens are one and another.                                         *)
LEMMA TwoIs ==
  ASSUME NEW T, NEW a \in T, NEW b \in T
  PROVE  <<a, b>> = <<a>> \o <<b>>
<1> DEFINE x == <<a>>
           y == <<b>>
           z == <<a, b>>
           w == x \o y
<1>1. z \in Seq(T) /\ Len(z) = 2 /\ z[1] = a /\ z[2] = b
  BY Two
<1>2. /\ x \in Seq(T) /\ Len(x) = 1 /\ x[1] = a
      /\ y \in Seq(T) /\ Len(y) = 1 /\ y[1] = b
  BY One
<1> HIDE DEF x, y, z
<1>3. IsConcat(w, x, y, T)
  BY <1>2, Concatenation
<1> HIDE DEF w
<1>4. w \in Seq(T) /\ Len(w) = 2 /\ w[1] = a /\ w[2] = b
  <2>1. 1 \in 1 .. 1 /\ 1 + 1 = 2
    OBVIOUS
  <2> QED
    BY <1>2, <1>3, <2>1 DEF IsConcat
<1>5. \A i \in 1 .. 2 : z[i] = w[i]
  BY <1>1, <1>4
<1>6. z = w
  BY <1>1, <1>4, <1>5, SameText
<1> QED
  BY <1>6 DEF w, x, y, z

(* The parts of a header line, grouped by how it is read.                  *)
FieldParts(a, p, v, c, l) ==
  a \o p \o v \o p \o (c \o l) = (a \o ((p \o v) \o (p \o c))) \o l

(* They may be grouped so.                                                 *)
LEMMA FieldGroups ==
  ASSUME NEW T, NEW a \in Seq(T), NEW p \in Seq(T), NEW v \in Seq(T),
         NEW c \in Seq(T), NEW l \in Seq(T)
  PROVE  FieldParts(a, p, v, c, l) /\ (p \o v) \o (p \o c) \in Seq(T)
<1>1. \A x \in Seq(T) : \A y \in Seq(T) : x \o y \in Seq(T)
  OBVIOUS
<1> DEFINE X == p \o v
           Y == X \o p
           Z == a \o Y
<1>2. X \in Seq(T) /\ Y \in Seq(T) /\ Z \in Seq(T) /\ X \o (p \o c) \in Seq(T)
  BY <1>1, Zenon
<1>3. ((a \o p) \o v) \o p = Z
  <2>1. Same3(a, p, v) /\ Same3(a, X, p)
    BY <1>2, Associative
  <2> QED
    BY <2>1, Zenon DEF Same3
<1>4. Z \o (c \o l) = (a \o (X \o (p \o c))) \o l
  <2>1. Same3(Z, c, l) /\ Same3(a, Y, c) /\ Same3(X, p, c)
    BY <1>2, Associative
  <2> QED
    BY <2>1, Zenon DEF Same3
<1> QED
  BY <1>2, <1>3, <1>4, Zenon DEF FieldParts

(* A header line, with some space around its value.                        *)
HeaderOf(name, colon, pad, value, cr, lf) ==
  <<name, colon>> \o pad \o value \o pad \o <<cr, lf>>

(* It is a line, of which the name and the value are read.                 *)
LEMMA HeaderRead ==
  ASSUME NEW T, NEW name \in T, NEW colon \in T, NEW pad \in Seq(T),
         NEW value \in Seq(T), NEW cr \in T, NEW lf \in T,
         name \notin Space, name # colon, colon \notin Space,
         cr \in Space, lf \in Space, cr # lf, IsTrim(value),
         \A i \in 1 .. Len(pad) : pad[i] \in Space /\ pad[i] # lf,
         \A i \in 1 .. Len(value) : value[i] # lf
  PROVE  LET s == HeaderOf(name, colon, pad, value, cr, lf)
         IN  /\ IsLine(s, lf, T) /\ Front(s) # <<cr>>
             /\ IndexOf(Front(s), colon) = 2
             /\ Trim(Before(Front(s), 2)) = <<name>>
             /\ Trim(From(Front(s), 3)) = value
<1> DEFINE a == <<name, colon>>
           c == <<cr>>
           l == <<lf>>
           q == pad \o c
           u == (pad \o value) \o q
           s == HeaderOf(name, colon, pad, value, cr, lf)
           m == a \o u
<1>1. /\ a \in Seq(T) /\ Len(a) = 2 /\ a[1] = name /\ a[2] = colon
      /\ c \in Seq(T) /\ l \in Seq(T) /\ Len(c) = 1 /\ c[1] = cr
      /\ <<cr, lf>> = c \o l
  <2>1. a \in Seq(T) /\ Len(a) = 2 /\ a[1] = name /\ a[2] = colon
    BY Two
  <2>2. c \in Seq(T) /\ l \in Seq(T) /\ Len(c) = 1 /\ c[1] = cr
    BY One
  <2>3. <<cr, lf>> = c \o l
    BY TwoIs
  <2> QED
    BY <2>1, <2>2, <2>3, Zenon
<1>2. s = m \o l /\ u \in Seq(T)
  <2>1. FieldParts(a, pad, value, c, l) /\ u \in Seq(T)
    BY <1>1, FieldGroups, Zenon
  <2> QED
    BY <1>1, <2>1, Zenon DEF FieldParts, HeaderOf
<1>3. /\ m \in Seq(T) /\ Len(m) = 2 + Len(u) /\ Len(u) \in Nat
      /\ m[1] = name /\ m[2] = colon
      /\ \A i \in 1 .. Len(u) : m[2 + i] = u[i]
  <2>1. IsConcat(m, a, u, T)
    BY <1>1, <1>2, Concatenation
  <2> HIDE DEF m, u, a
  <2>2. 1 \in 1 .. 2 /\ 2 \in 1 .. 2
    OBVIOUS
  <2> QED
    BY <1>1, <2>1, <2>2 DEF IsConcat
<1>4. /\ q \in Seq(T) /\ Len(q) \in Nat
      /\ \A i \in 1 .. Len(q) : q[i] \in Space /\ q[i] # lf
  <2>1. IsConcat(q, pad, c, T)
    BY <1>1, Concatenation
  <2> HIDE DEF q, c
  <2>2. /\ q \in Seq(T) /\ Len(q) = Len(pad) + 1 /\ Len(pad) \in Nat
        /\ \A i \in 1 .. Len(pad) : q[i] = pad[i]
        /\ q[Len(pad) + 1] = cr
    <3>1. 1 \in 1 .. 1
      OBVIOUS
    <3> QED
      BY <1>1, <2>1, <3>1 DEF IsConcat
  <2>3. ASSUME NEW i \in 1 .. Len(q) PROVE q[i] \in Space /\ q[i] # lf
    <3>1. i \in 1 .. Len(pad) \/ i = Len(pad) + 1
      BY <2>2
    <3> QED
      BY <2>2, <3>1
  <2> QED
    BY <2>2, <2>3
<1> HIDE DEF q, a, c, l, m, s
<1>5. \A i \in 1 .. Len(u) : u[i] # lf
  <2> DEFINE w == pad \o value
  <2>1. /\ w \in Seq(T) /\ Len(w) \in Nat
        /\ \A i \in 1 .. Len(w) : w[i] # lf
    <3>1. IsConcat(w, pad, value, T)
      BY Concatenation
    <3> HIDE DEF w
    <3>2. /\ w \in Seq(T) /\ Len(w) = Len(pad) + Len(value)
          /\ Len(pad) \in Nat /\ Len(value) \in Nat
          /\ \A i \in 1 .. Len(pad) : w[i] = pad[i]
          /\ \A i \in 1 .. Len(value) : w[Len(pad) + i] = value[i]
      BY <3>1 DEF IsConcat
    <3>3. ASSUME NEW i \in 1 .. Len(w) PROVE w[i] # lf
      <4>1. CASE i \in 1 .. Len(pad)
        BY <3>2, <4>1
      <4>2. CASE i \notin 1 .. Len(pad)
        <5>1. i - Len(pad) \in 1 .. Len(value)
              /\ Len(pad) + (i - Len(pad)) = i
          BY <3>2, <4>2
        <5> QED
          BY <3>2, <5>1
      <4> QED
        BY <4>1, <4>2
    <3> QED
      BY <3>2, <3>3
  <2>2. IsConcat(u, w, q, T)
    BY <1>4, <2>1, Concatenation
  <2> HIDE DEF w, u
  <2>3. /\ Len(u) = Len(w) + Len(q)
        /\ \A i \in 1 .. Len(w) : u[i] = w[i]
        /\ \A i \in 1 .. Len(q) : u[Len(w) + i] = q[i]
    BY <2>2 DEF IsConcat
  <2>4. ASSUME NEW i \in 1 .. Len(u) PROVE u[i] # lf
    <3>1. CASE i \in 1 .. Len(w)
      BY <2>1, <2>3, <3>1
    <3>2. CASE i \notin 1 .. Len(w)
      <4>1. i - Len(w) \in 1 .. Len(q) /\ Len(w) + (i - Len(w)) = i
        BY <1>4, <2>1, <2>3, <3>2
      <4>2. u[Len(w) + (i - Len(w))] = q[i - Len(w)]
        BY <2>3, <4>1, Zenon
      <4>3. q[i - Len(w)] # lf
        BY <1>4, <4>1, Zenon
      <4> QED
        BY <4>1, <4>2, <4>3, Zenon
    <3> QED
      BY <3>1, <3>2
  <2> QED
    BY <2>4
<1>6. Trim(u) = value
  BY <1>4, TrimIs
<1> HIDE DEF u
<1>7. IsLine(s, lf, T) /\ Front(s) = m
  <2>1. ASSUME NEW i \in 1 .. Len(m) PROVE m[i] # lf
    <3>1. CASE i \in 1 .. 2
      <4>1. name # lf /\ colon # lf
        OBVIOUS
      <4> QED
        BY <1>3, <3>1, <4>1
    <3>2. CASE i \notin 1 .. 2
      <4>1. i - 2 \in 1 .. Len(u) /\ 2 + (i - 2) = i
        BY <1>3, <3>2
      <4> QED
        BY <1>3, <1>5, <4>1
    <3> QED
      BY <3>1, <3>2
  <2>2. IsLine(m \o l, lf, T) /\ Front(m \o l) = m
    BY <1>3, <2>1, LineIs DEF l
  <2> QED
    BY <1>2, <2>2, Zenon
<1>8. m # <<cr>>
  <2>1. Len(c) # Len(m)
    BY <1>1, <1>3
  <2> QED
    BY <2>1, Zenon DEF c
<1>9. IndexOf(m, colon) = 2
  <2> DEFINE I == {i \in 1 .. Len(m) : m[i] = colon}
  <2>1. IndexOf(m, colon) = IF I # {} THEN Min(I) ELSE 0
    BY Zenon DEF IndexOf, SelectInSeq
  <2>2. 2 \in I /\ I \in SUBSET Int
    BY <1>3
  <2>3. \A i \in I : 2 <= i
    BY <1>3
  <2> HIDE DEF I
  <2>4. Min(I) = 2
    BY <2>2, <2>3, MinIs
  <2> QED
    BY <2>1, <2>2, <2>4
<1>10. Trim(Before(m, 2)) = <<name>>
  <2> DEFINE w == SubSeq(m, 1, 1)
             n == <<name>>
  <2>1. n \in Seq(T) /\ Len(n) = 1 /\ n[1] = name
    BY One
  <2>2. w \in Seq(T) /\ Len(w) = 1 /\ w[1] = name
    BY <1>3
  <2> HIDE DEF n, w
  <2>3. w = n
    BY <2>1, <2>2, SameText
  <2>4. IsTrim(n)
    BY <2>1 DEF IsTrim
  <2>5. <<>> \in Seq(T) /\ (<<>> \o n) \o <<>> = n
        /\ \A i \in 1 .. Len(<<>>) : <<>>[i] \in Space
    BY <2>1
  <2>6. Trim((<<>> \o n) \o <<>>) = n
    BY <2>1, <2>4, <2>5, TrimIs
  <2>7. Before(m, 2) = w
    BY DEF Before, w
  <2> QED
    BY <2>3, <2>5, <2>6, <2>7 DEF n
<1>11. Trim(From(m, 3)) = value
  <2>1. From(a \o u, Len(a) + 1) = u
    BY <1>1, <1>2, FromAfter
  <2>2. Len(a) + 1 = 3
    BY <1>1
  <2> QED
    BY <1>6, <2>1, <2>2 DEF m
<1> QED
  BY <1>7, <1>8, <1>9, <1>10, <1>11, Zenon DEF s

-----------------------------------------------------------------------------
(* Parameters. *)

(* A mark after a text without one is the first.                           *)
LEMMA MarkIs ==
  ASSUME NEW T, NEW mk \in T, NEW p \in Seq(T), NEW y \in Seq(T),
         \A i \in 1 .. Len(p) : p[i] # mk
  PROVE  /\ IndexOf(p, mk) = 0
         /\ LET s == p \o (<<mk>> \o y)
            IN  /\ IndexOf(s, mk) = Len(p) + 1
                /\ From(s, Len(p) + 1 + 1) = y
<1> DEFINE x == <<mk>>
           z == x \o y
           s == p \o z
           P == Len(p)
           Y == Len(y)
           I(q) == {i \in 1 .. Len(q) : q[i] = mk}
<1>1. x \in Seq(T) /\ Len(x) = 1 /\ x[1] = mk /\ P \in Nat /\ Y \in Nat
  BY One
<1> HIDE DEF x
<1>2. /\ z \in Seq(T) /\ Len(z) = 1 + Y /\ z[1] = mk
      /\ \A i \in 1 .. Y : z[1 + i] = y[i]
  <2>1. IsConcat(z, x, y, T)
    BY <1>1, Concatenation
  <2>2. 1 \in 1 .. 1
    OBVIOUS
  <2> HIDE DEF z
  <2> QED
    BY <1>1, <2>1, <2>2 DEF IsConcat
<1> HIDE DEF z
<1>3. /\ s \in Seq(T) /\ Len(s) = P + (1 + Y)
      /\ \A i \in 1 .. P : s[i] = p[i]
      /\ \A i \in 1 .. 1 + Y : s[P + i] = z[i]
  <2>1. IsConcat(s, p, z, T)
    BY <1>2, Concatenation
  <2> HIDE DEF s
  <2> QED
    BY <1>2, <2>1 DEF IsConcat
<1> HIDE DEF s
<1>4. \A q : IndexOf(q, mk) = IF I(q) # {} THEN Min(I(q)) ELSE 0
  BY Zenon DEF IndexOf, SelectInSeq
<1>5. I(p) = {}
  OBVIOUS
<1>6. IndexOf(s, mk) = P + 1
  <2>1. P + 1 \in I(s)
    <3>1. P + 1 \in 1 .. Len(s) /\ 1 \in 1 .. 1 + Y
      BY <1>1, <1>3
    <3>2. s[P + 1] = mk
      BY <1>2, <1>3, <3>1
    <3> QED
      BY <3>1, <3>2
  <2>2. ASSUME NEW i \in I(s) PROVE P + 1 <= i
    <3>1. i \in 1 .. Len(s) /\ s[i] = mk
      OBVIOUS
    <3>2. ASSUME i <= P PROVE FALSE
      <4>1. i \in 1 .. P
        BY <1>1, <1>3, <3>1, <3>2
      <4>2. p[i] = mk
        BY <1>3, <3>1, <4>1
      <4> QED
        BY <4>1, <4>2
    <3> QED
      BY <1>1, <1>3, <3>1, <3>2
  <2>3. I(s) \in SUBSET Int /\ I(s) # {}
    BY <2>1
  <2> HIDE DEF I
  <2>4. Min(I(s)) = P + 1
    BY <2>1, <2>2, <2>3, MinIs
  <2> QED
    BY <1>4, <2>3, <2>4
<1>7. From(s, P + 1 + 1) = y
  <2> DEFINE w == SubSeq(s, P + 1 + 1, Len(s))
  <2>1. /\ w \in Seq(T) /\ Len(w) = Y
        /\ \A i \in 1 .. Y : w[i] = s[P + (1 + i)]
    BY <1>1, <1>3
  <2>2. ASSUME NEW i \in 1 .. Y PROVE s[P + (1 + i)] = y[i]
    <3>1. 1 + i \in 1 .. 1 + Y
      BY <1>1
    <3> QED
      BY <1>2, <1>3, <3>1
  <2> HIDE DEF w
  <2>3. \A i \in 1 .. Y : w[i] = y[i]
    BY <2>1, <2>2
  <2>4. w = y
    BY <2>1, <2>3, SameText
  <2> QED
    BY <2>4 DEF From, w
<1>8. IndexOf(p, mk) = 0
  <2> HIDE DEF I
  <2> QED
    BY <1>4, <1>5
<1> QED
  BY <1>6, <1>7, <1>8 DEF s, z, x

(* What parse_http_request reads of the parameters in a target.            *)
ParamsOf(target) ==
  IF IndexOf(target, "?") = 0 THEN <<>>
  ELSE ParseQueryParams(From(target, IndexOf(target, "?") + 1))

(* They are those that were written.                                       *)
LEMMA ParamsOfTarget ==
  ASSUME NEW m \in Meant
  PROVE  ParamsOf(Target(m))
           = LastValues([i \in DOMAIN m.query |-> Pair(m.query[i])])
<1> DEFINE P == m.path
           q == m.query
           mk == "?"
           amp == "&"
           J == Join(q, amp)
           t == Target(m)
           pairs == [i \in DOMAIN q |-> Pair(q[i])]
<1>1. mk \in Token /\ amp \in Token
  BY HttpAssumption
<1>2. q \in Parts(Token, amp)
  BY FieldsAssumption, Zenon DEF Parts
<1>3. P \in Seq(Token) /\ \A i \in 1 .. Len(P) : P[i] # mk
  <2>1. P \in Seq(Token \ (Space \cup {mk})) \ {<<>>}
    BY MeantAssumption
  <2>2. P \in Seq(Token)
    BY PathIsText
  <2> HIDE DEF P, mk
  <2>3. \A i \in 1 .. Len(P) : P[i] \in Token \ (Space \cup {mk})
    BY <2>1
  <2> QED
    BY <2>2, <2>3
<1>4. t = P \o (IF q = <<>> THEN <<>> ELSE <<mk>> \o J)
  BY Zenon DEF Target, Query
<1>5. ParamsOf(t) = IF IndexOf(t, mk) = 0 THEN <<>>
                    ELSE ParseQueryParams(From(t, IndexOf(t, mk) + 1))
  BY Zenon DEF ParamsOf
<1> HIDE DEF mk, amp, J, P, t, q
<1>6. CASE q = <<>>
  <2>1. P \o <<>> = P
    BY <1>3
  <2>2. t = P
    BY <1>4, <1>6, <2>1, Zenon
  <2>3. <<>> \in Seq(Token)
    OBVIOUS
  <2>4. IndexOf(P, mk) = 0
    BY <1>1, <1>3, <2>3, MarkIs
  <2>5. DOMAIN pairs = {}
    BY <1>6
  <2>6. LastValues(pairs) = ValuesAt(pairs, DOMAIN pairs)
    BY Zenon DEF LastValues, ValuesAt
  <2>7. LastValues(pairs) = <<>>
    <3> HIDE DEF pairs
    <3> QED
      BY <2>5, <2>6, NoValues, Zenon
  <2>8. ParamsOf(t) = LastValues(pairs)
    BY <1>5, <2>2, <2>4, <2>7, Zenon
  <2> QED
    BY <2>8 DEF pairs, t, q
<1>7. CASE q # <<>>
  <2>1. Cut(J, {amp}, 0) = q /\ J \in Seq(Token)
    <3>1. \A least \in 0 .. 1 : Cut(Join(q, amp), {amp}, least) = q
                               /\ Join(q, amp) \in Seq(Token)
      BY <1>1, <1>2, <1>7, CutUndoesJoin
    <3>2. 0 \in 0 .. 1
      OBVIOUS
    <3> QED
      BY <3>1, <3>2, Zenon DEF J
  <2>2. Pieces(J, "&") = q
    BY <2>1, Zenon DEF Pieces, amp
  <2>3. t = P \o (<<mk>> \o J)
    BY <1>4, <1>7, Zenon
  <2>4. IndexOf(t, mk) = Len(P) + 1 /\ From(t, Len(P) + 1 + 1) = J
    BY <1>1, <1>3, <2>1, <2>3, MarkIs
  <2>5. Len(P) + 1 # 0
    BY <1>3
  <2>6. ParamsOf(t) = ParseQueryParams(J)
    BY <1>5, <2>4, <2>5, Zenon
  <2>7. ParseQueryParams(J) = LastValues(pairs)
    <3>1. q \in Seq(Seq(Token))
      BY <1>2, PartsAre
    <3> QED
      BY <2>2, <3>1, ParamsAre
  <2> QED
    BY <2>6, <2>7 DEF pairs, t, q
<1> QED
  BY <1>6, <1>7

-----------------------------------------------------------------------------
(* The whole of a request. *)

(* A request line alone is a line.                                         *)
LEMMA RequestLineIs ==
  ASSUME NEW T, NEW method \in T, NEW blank \in T, NEW version \in T,
         NEW cr \in T, NEW lf \in T, NEW t \in Seq(T),
         method \notin Space, version \notin Space, lf \in Space,
         blank # lf, cr # lf, \A i \in 1 .. Len(t) : t[i] \notin Space
  PROVE  LET x == <<method, blank>> \o t \o <<blank, version, cr, lf>>
         IN  /\ IsLine(x, lf, T)
             /\ Begins(x, T, method, t, blank, version, cr, lf)
<1> DEFINE A == <<method, blank>>
           B == <<blank, version, cr, lf>>
           L == Len(t)
           u == A \o t
           x == u \o B
<1>1. Begins(x, T, method, t, blank, version, cr, lf)
  BY LineBegins
<1>2. A \in Seq(T) /\ Len(A) = 2 /\ B \in Seq(T) /\ Len(B) = 4 /\ L \in Nat
  BY Two, Four
<1> HIDE DEF A, B, L
<1>3. u \in Seq(T) /\ Len(u) = 2 + L
  <2>1. IsConcat(u, A, t, T)
    BY <1>2, Concatenation
  <2> HIDE DEF u
  <2> QED
    BY <1>2, <2>1 DEF IsConcat, L
<1> HIDE DEF u
<1>4. Len(x) = L + 6
  <2>1. IsConcat(x, u, B, T)
    BY <1>2, <1>3, Concatenation
  <2> HIDE DEF x
  <2> QED
    BY <1>2, <1>3, <2>1 DEF IsConcat
<1> HIDE DEF x
<1>5. /\ x \in Seq(T)
      /\ x[1] = method /\ x[2] = blank
      /\ \A i \in 1 .. L : x[2 + i] = t[i]
      /\ x[L + 3] = blank /\ x[L + 4] = version
      /\ x[L + 5] = cr /\ x[L + 6] = lf
  BY <1>1 DEF Begins, L
<1>6. ASSUME NEW i \in 1 .. L + 5 PROVE x[i] # lf
  <2>1. CASE i \in {1, 2, L + 3, L + 4, L + 5}
    <3>1. method # lf /\ version # lf
      OBVIOUS
    <3> QED
      BY <1>5, <2>1, <3>1
  <2>2. CASE i \notin {1, 2, L + 3, L + 4, L + 5}
    <3>1. i - 2 \in 1 .. L /\ 2 + (i - 2) = i
      BY <1>2, <2>2
    <3>2. t[i - 2] \notin Space
      BY <3>1 DEF L
    <3> QED
      BY <1>5, <3>1, <3>2
  <2> QED
    BY <2>1, <2>2
<1>7. IsLine(x, lf, T)
  <2>1. (L + 6) - 1 = L + 5
    BY <1>2
  <2> QED
    BY <1>2, <1>4, <1>5, <1>6, <2>1 DEF IsLine
<1> QED
  BY <1>1, <1>7 DEF x, u, A, B

(* The space that a client writes around the values of headers.            *)
Padding == {<<>>, <<" ">>}

(* It is space and does not end a line.                                    *)
LEMMA PaddingIs ==
  ASSUME NEW pad \in Padding
  PROVE  pad \in Seq(Token)
         /\ \A i \in 1 .. Len(pad) : pad[i] \in Space /\ pad[i] # "\n"
<1>1. CASE pad = <<>>
  BY <1>1
<1>2. CASE pad = <<" ">>
  <2> DEFINE b == " "
             lf == "\n"
  <2>1. b \in Token /\ b \in Space /\ b # lf
    BY TheTokens DEF Space
  <2>2. pad = <<b>>
    BY <1>2
  <2> HIDE DEF b, lf
  <2>3. pad \in Seq(Token) /\ Len(pad) = 1 /\ pad[1] = b
    BY <2>1, <2>2, One
  <2>4. \A i \in 1 .. Len(pad) : pad[i] \in Space /\ pad[i] # lf
    BY <2>1, <2>3
  <2> QED
    BY <2>3, <2>4 DEF lf
<1> QED
  BY <1>1, <1>2 DEF Padding

(* A header of a request.                                                  *)
LEMMA HeaderIs ==
  ASSUME NEW m \in Meant, NEW i \in DOMAIN m.headers
  PROVE  LET h == m.headers[i]
         IN  /\ h[1] \in Token /\ h[1] \notin Space /\ h[1] # ":"
             /\ h[2] \in Seq(Token) /\ IsTrim(h[2])
             /\ \A j \in 1 .. Len(h[2]) : h[2][j] # "\n"
<1> DEFINE h == m.headers[i]
           v == h[2]
           lf == "\n"
           colon == ":"
<1>1. h \in (Token \ (Space \cup {colon})) \X Seq(Token \ {lf})
  <2>1. m.headers \in Seq((Token \ (Space \cup {colon}))
                            \X Seq(Token \ {lf}))
    BY FieldsAssumption
  <2> DEFINE S == (Token \ (Space \cup {colon})) \X Seq(Token \ {lf})
             hs == m.headers
  <2>2. hs \in Seq(S) /\ i \in DOMAIN hs
    BY <2>1
  <2> HIDE DEF S, hs
  <2>3. hs[i] \in S
    BY <2>2
  <2> QED
    BY <2>3 DEF S, hs
<1>2. v # <<>> => {v[1], Last(v)} \cap Space = {}
  BY FieldsAssumption, Zenon
<1> HIDE DEF h, lf, colon
<1>3. h[1] \in Token \ (Space \cup {colon}) /\ v \in Seq(Token \ {lf})
  BY <1>1
<1> HIDE DEF v
<1>4. v \in Seq(Token) /\ \A j \in 1 .. Len(v) : v[j] # lf
  <2>1. \A j \in 1 .. Len(v) : v[j] \in Token \ {lf}
    BY <1>3
  <2> QED
    BY <1>3, <2>1
<1>5. IsTrim(v)
  BY <1>2 DEF IsTrim, Last
<1> QED
  BY <1>3, <1>4, <1>5 DEF h, v, lf, colon

(* The header lines of a request.                                          *)
HeaderLines(m, pad) ==
  [i \in DOMAIN m.headers |->
     <<m.headers[i][1], ":">> \o pad \o m.headers[i][2] \o pad
       \o <<"\r", "\n">>]

(* They are lines, none is blank, and each holds a header.                 *)
LEMMA HeaderLinesAre ==
  ASSUME NEW m \in Meant, NEW pad \in Padding
  PROVE  LET seqs == HeaderLines(m, pad)
         IN  /\ seqs \in Seq(Seq(Token)) /\ Len(seqs) = Len(m.headers)
             /\ m.headers \in Seq(Token \X Seq(Token))
             /\ \A i \in 1 .. Len(seqs) :
                  /\ IsLine(seqs[i], "\n", Token) /\ Front(seqs[i]) # <<"\r">>
                  /\ ReadsField(Front(seqs[i]), m.headers[i])
<1> DEFINE seqs == HeaderLines(m, pad)
           hs == m.headers
           N == Len(hs)
           colon == ":"
           cr == "\r"
           lf == "\n"
           line(i) == HeaderOf(hs[i][1], colon, pad, hs[i][2], cr, lf)
<1>1. hs \in Seq(Token \X Seq(Token))
  BY MeantAssumption, Zenon
<1>2. /\ colon \in Token /\ cr \in Token /\ lf \in Token
      /\ colon \notin Space /\ cr \in Space /\ lf \in Space /\ cr # lf
  <2>1. colon \in Token
    BY HttpAssumption
  <2> QED
    BY <2>1, TheTokens DEF Space
<1>3. /\ pad \in Seq(Token)
      /\ \A i \in 1 .. Len(pad) : pad[i] \in Space /\ pad[i] # lf
  BY PaddingIs
<1>4. ASSUME NEW i \in DOMAIN hs
      PROVE  /\ hs[i][1] \in Token /\ hs[i][1] \notin Space
             /\ hs[i][1] # colon
             /\ hs[i][2] \in Seq(Token) /\ IsTrim(hs[i][2])
             /\ \A j \in 1 .. Len(hs[i][2]) : hs[i][2][j] # lf
  BY HeaderIs
<1>5. seqs = [i \in DOMAIN hs |-> line(i)]
  BY Zenon DEF HeaderLines, HeaderOf
<1> HIDE DEF seqs, hs, colon, cr, lf
<1>6. ASSUME NEW i \in DOMAIN hs
      PROVE  /\ IsLine(line(i), lf, Token) /\ Front(line(i)) # <<cr>>
             /\ IndexOf(Front(line(i)), colon) = 2
             /\ Trim(Before(Front(line(i)), 2)) = <<hs[i][1]>>
             /\ Trim(From(Front(line(i)), 3)) = hs[i][2]
  <2> DEFINE name == hs[i][1]
             value == hs[i][2]
  <2>1. /\ name \in Token /\ name \notin Space /\ name # colon
        /\ value \in Seq(Token) /\ IsTrim(value)
        /\ \A j \in 1 .. Len(value) : value[j] # lf
    BY <1>4
  <2> HIDE DEF name, value
  <2>2. LET s == HeaderOf(name, colon, pad, value, cr, lf)
        IN  /\ IsLine(s, lf, Token) /\ Front(s) # <<cr>>
            /\ IndexOf(Front(s), colon) = 2
            /\ Trim(Before(Front(s), 2)) = <<name>>
            /\ Trim(From(Front(s), 3)) = value
    BY <1>2, <1>3, <2>1, HeaderRead
  <2> QED
    BY <2>2, Zenon DEF name, value
<1>7. DOMAIN hs = 1 .. N /\ N \in Nat
  BY <1>1
<1> HIDE DEF line, N
<1>8. ASSUME NEW i \in DOMAIN hs PROVE line(i) \in Seq(Token)
  BY <1>6 DEF IsLine
<1>9. seqs \in Seq(Seq(Token)) /\ Len(seqs) = N
      /\ \A i \in 1 .. N : seqs[i] = line(i)
  <2> DEFINE S == Seq(Token)
  <2>1. \A i \in 1 .. N : line(i) \in S
    BY <1>7, <1>8
  <2> HIDE DEF S
  <2>2. seqs \in Seq(S) /\ Len(seqs) = N /\ \A i \in 1 .. N : seqs[i] = line(i)
    BY <1>5, <1>7, <2>1
  <2> QED
    BY <2>2 DEF S
<1>10. ASSUME NEW i \in DOMAIN hs PROVE ReadsField(Front(line(i)), hs[i])
  <2>1. 2 # 0 /\ 2 + 1 = 3
    OBVIOUS
  <2>2. IndexOf(Front(line(i)), ":") = 2
    BY <1>6 DEF colon
  <2> QED
    BY <1>6, <2>1, <2>2, Zenon DEF ReadsField
<1> QED
  BY <1>1, <1>6, <1>7, <1>9, <1>10, Zenon DEF seqs, hs, N, lf, cr

(* A request that the client begins at once is the request line, header    *)
(* lines, an empty line, and the body.                                     *)
IsRequest(s, m, pad) ==
  \E x : /\ s = x \o ((FlattenSeq(HeaderLines(m, pad)) \o <<"\r", "\n">>)
                        \o m.body)
         /\ IsLine(x, "\n", Token)
         /\ BeginsAsMeant(s, m)

(* What a client writes is one.                                            *)
LEMMA TextIsRequest ==
  ASSUME NEW m \in Meant, NEW pad \in Padding, m.lead = <<>>
  PROVE  IsRequest(Text(m, pad), m, pad)
<1> DEFINE lead == m.lead
           P == m.path
           Q == Query(m)
           t == P \o Q
           A == <<m.method, " ">>
           B == <<" ", "HTTP/1.1", "\r", "\n">>
           F == FlattenSeq(HeaderLines(m, pad))
           E == <<"\r", "\n">>
           body == m.body
           x == (A \o t) \o B
           G == (F \o E) \o body
<1>0. pad \in Seq(Token)
  BY PaddingIs
<1>1. Text(m, pad) = lead \o A \o P \o Q \o B \o F \o E \o body
  BY Zenon DEF Text, Query, HeaderLines
<1>2. /\ A \in Seq(Token) /\ E \in Seq(Token) /\ B \in Seq(Token)
      /\ m.method \in Token /\ m.method \notin Space
  <2>1. m.method \in Token /\ m.method \notin Space
    BY MeantAssumption
  <2>2. A \in Seq(Token)
    BY <2>1, TheTokens, Two, Zenon
  <2>3. E \in Seq(Token)
    BY TheTokens, Two, Zenon
  <2>4. B \in Seq(Token)
    BY TheTokens, Four, Zenon
  <2> QED
    BY <2>1, <2>2, <2>3, <2>4, Zenon
<1>3. /\ P \in Seq(Token) /\ Q \in Seq(Token) /\ t \in Seq(Token)
      /\ \A i \in 1 .. Len(t) : t[i] \notin Space
  <2>1. P \in Seq(Token)
    BY PathIsText
  <2>2. Q \in Seq(Token \ Space) /\ t \in Seq(Token \ Space)
    BY TargetIs, Zenon DEF Target
  <2> HIDE DEF P, Q, t
  <2>3. t \in Seq(Token) /\ Q \in Seq(Token)
    BY <2>2
  <2>4. \A i \in 1 .. Len(t) : t[i] \in Token \ Space
    BY <2>2
  <2> QED
    BY <2>1, <2>3, <2>4
<1>4. F \in Seq(Token) /\ body \in Seq(Token) /\ lead \in Seq(Token)
  <2>1. F \in Seq(Token)
    BY <1>0, HeadersAreText, Zenon DEF HeaderLines
  <2>2. body \in Seq(Token)
    BY MeantAssumption
  <2>3. lead \in Seq(Token)
    OBVIOUS
  <2> QED
    BY <2>1, <2>2, <2>3
<1>5. IsLine(x, "\n", Token)
  <2> DEFINE b == " "
             v == "HTTP/1.1"
             cr == "\r"
             lf == "\n"
  <2>1. /\ b \in Token /\ v \in Token /\ cr \in Token /\ lf \in Token
        /\ v \notin Space /\ lf \in Space /\ b # lf /\ cr # lf
    BY TheTokens DEF Space
  <2> HIDE DEF b, v, cr, lf, t
  <2>2. IsLine(<<m.method, b>> \o t \o <<b, v, cr, lf>>, lf, Token)
    BY <1>2, <1>3, <2>1, RequestLineIs
  <2> QED
    BY <2>2 DEF b, v, cr, lf
<1>6. BeginsAsMeant(Text(m, pad), m)
  BY <1>0, StreamBegins
<1> HIDE DEF P, Q, A, B, F, E, body
<1>7. Text(m, pad) = x \o G
  <2>1. SameParts(lead, A, P, Q, B, F, E, body)
    BY <1>2, <1>3, <1>4, TextParts
  <2>2. x \o G \in Seq(Token)
    BY <1>2, <1>3, <1>4
  <2>3. Text(m, pad) = lead \o (x \o G)
    BY <1>1, <2>1, Zenon DEF SameParts
  <2> DEFINE z == x \o G
  <2> HIDE DEF z, x, G
  <2>4. <<>> \o z = z
    BY <2>2 DEF z
  <2> QED
    BY <2>3, <2>4 DEF z
<1> QED
  BY <1>5, <1>6, <1>7, Zenon DEF IsRequest, F, E, body

(* What parse_http_request makes of the text of a request that has all of  *)
(* it.                                                                     *)
ReadsFields(r, m) ==
  /\ r.params = LastValues([i \in DOMAIN m.query |-> Pair(m.query[i])])
  /\ r.headers = LastValues([i \in DOMAIN m.headers |-> Field(m.headers[i])])
  /\ m.body \in {r.body, r.body \o <<"\n">>}

(* It reads the parameters, the headers and the body that were meant.      *)
LEMMA ParsedFields ==
  ASSUME NEW m \in Meant, NEW pad \in Padding, NEW s, IsRequest(s, m, pad),
         NEW r \in Parsed(s)
  PROVE  ReadsFields(r, m)
<1> DEFINE t == Target(m)
           cr == "\r"
           lf == "\n"
           seqs == HeaderLines(m, pad)
           lines == Pieces(s, lf)
           body == m.body
           heads == Lines(seqs)
           P == Pieces(body, lf)
<1>1. PICK x : /\ s = x \o ((FlattenSeq(seqs) \o <<cr, lf>>) \o body)
               /\ IsLine(x, lf, Token) /\ BeginsAsMeant(s, m)
  BY Zenon DEF IsRequest
<1>2. FirstLine(lines, m.method, t)
  <2>1. /\ t \in Seq(Token) /\ Len(t) >= 1
        /\ \A i \in 1 .. Len(t) : t[i] \notin Space
    <3>1. t \in Seq(Token \ Space) /\ Len(t) >= 1
      BY TargetIs
    <3> HIDE DEF t
    <3> QED
      BY <3>1
  <2>2. /\ m.method \notin Space /\ "HTTP/1.1" \notin Space /\ " " \in Space
        /\ lf \in Space /\ cr # lf /\ " " # lf
    <3>1. m.method \notin Space
      BY MeantAssumption, Zenon
    <3> QED
      BY <3>1 DEF Space
  <2>3. Begins(s, Token, m.method, t, " ", "HTTP/1.1", cr, lf)
    BY <1>1 DEF BeginsAsMeant
  <2> HIDE DEF t
  <2> QED
    BY <2>1, <2>2, <2>3, LineOfRequest
<1>3. /\ seqs \in Seq(Seq(Token)) /\ Len(seqs) = Len(m.headers)
      /\ m.headers \in Seq(Token \X Seq(Token))
      /\ \A i \in 1 .. Len(seqs) :
           /\ IsLine(seqs[i], lf, Token) /\ Front(seqs[i]) # <<cr>>
           /\ ReadsField(Front(seqs[i]), m.headers[i])
  BY HeaderLinesAre, Zenon
<1>4. body \in Seq(Token) /\ lf \in Token /\ cr \in Token /\ cr # lf
  BY MeantAssumption, TheTokens
<1> HIDE DEF cr, lf, seqs, body
<1>5. HeadersAndBody(lines, cr, heads, P)
  <2> DEFINE e == <<cr, lf>>
             c == <<cr>>
  <2>1. e = c \o <<lf>> /\ c \in Seq(Token) /\ Len(c) = 1 /\ c[1] = cr
    BY <1>4, TwoIs, One
  <2>2. IsLine(e, lf, Token) /\ Front(e) = c
    <3> HIDE DEF c, e
    <3>1. \A i \in 1 .. Len(c) : c[i] # lf
      BY <1>4, <2>1
    <3> QED
      BY <1>4, <2>1, <3>1, LineIs
  <2> HIDE DEF e
  <2>3. HeadersAndBody(Pieces(x \o ((FlattenSeq(seqs) \o e) \o body), lf), cr,
                       Lines(seqs), Pieces(body, lf))
    BY <1>1, <1>3, <1>4, <2>2, TextOfLines
  <2> QED
    BY <1>1, <2>3, Zenon DEF e
<1>6. /\ Blank(lines, cr) # 0
      /\ SubSeq(lines, 2, Blank(lines, cr) - 1) = heads
      /\ From(lines, Blank(lines, cr) + 1) = P
  BY <1>5, Zenon DEF HeadersAndBody
<1>7. ParseHeaders(heads)
        = LastValues([i \in DOMAIN m.headers |-> Field(m.headers[i])])
  <2>1. /\ heads \in Seq(Seq(Token)) /\ Len(heads) = Len(m.headers)
        /\ \A i \in 1 .. Len(m.headers) : ReadsField(heads[i], m.headers[i])
    <3>1. heads \in Seq(Seq(Token))
      BY <1>3, <1>4, LinesEnd
    <3>2. Len(heads) = Len(seqs)
          /\ \A i \in 1 .. Len(seqs) : heads[i] = Front(seqs[i])
      BY <1>3 DEF Lines
    <3> HIDE DEF heads
    <3> QED
      BY <1>3, <3>1, <3>2
  <2> HIDE DEF heads
  <2> QED
    BY <1>3, <2>1, FieldsAre
<1>8. body \in {Join(P, lf), Join(P, lf) \o <<lf>>}
  BY <1>4, JoinUndoesCut
<1>9. \E method, path :
        r = Request(method, path, ParamsOf(Word(lines[1], 2)),
                    ParseHeaders(SubSeq(lines, 2, Blank(lines, cr) - 1)),
                    Join(From(lines, Blank(lines, cr) + 1), lf))
  <2>1. lines # <<>> /\ lines[1] # <<>>
    BY <1>2, Zenon DEF FirstLine
  <2>2. Blank(lines, cr) # 0
    BY <1>6
  <2> HIDE DEF lines
  <2> QED
    BY <2>1, <2>2, Zenon DEF Parsed, Blank, ParamsOf, lines, cr, lf
<1>10. \E method, path :
         r = Request(method, path, ParamsOf(t), ParseHeaders(heads),
                     Join(P, lf))
  BY <1>2, <1>6, <1>9, Zenon DEF FirstLine
<1>11. r.params = ParamsOf(t) /\ r.headers = ParseHeaders(heads)
       /\ r.body = Join(P, lf)
  <2> HIDE DEF t, heads, P
  <2> QED
    BY <1>10 DEF Request
<1>12. r.params = LastValues([i \in DOMAIN m.query |-> Pair(m.query[i])])
  BY <1>11, ParamsOfTarget, Zenon
<1> QED
  BY <1>7, <1>8, <1>11, <1>12, Zenon DEF ReadsFields, body, lf

-----------------------------------------------------------------------------
(* Any text, also that of a request that was cut. *)

(* A step of the fold in Cut keeps separators out of the parts.            *)
LEMMA CutKeepsOut ==
  ASSUME NEW T, NEW separators, NEW least \in Nat,
         NEW acc \in Cutting(T \ separators), NEW t \in T
  PROVE  CutNext(separators, least, acc, t) \in Cutting(T \ separators)
<1> DEFINE R == T \ separators
<1>1. /\ acc = [done |-> acc.done, cur |-> acc.cur]
      /\ acc.done \in Seq(Seq(R)) /\ acc.cur \in Seq(R)
  BY DEF Cutting
<1>2. /\ t \notin separators => t \in R
  OBVIOUS
<1> HIDE DEF R
<1>3. /\ t \notin separators => Append(acc.cur, t) \in Seq(R)
      /\ Append(acc.done, acc.cur) \in Seq(Seq(R)) /\ <<>> \in Seq(R)
  BY <1>1, <1>2
<1>4. CASE t \notin separators
  <2>1. CutNext(separators, least, acc, t)
          = [done |-> acc.done, cur |-> Append(acc.cur, t)]
    BY <1>1, <1>4 DEF CutNext
  <2>2. CutNext(separators, least, acc, t) \in Cutting(R)
    BY <1>1, <1>3, <1>4, <2>1 DEF Cutting
  <2> QED
    BY <2>2 DEF R
<1>5. CASE t \in separators
  <2>1. acc \in Cutting(R)
    BY DEF R
  <2>2. CutNext(separators, least, acc, t) \in Cutting(R)
    BY <1>1, <1>3, <1>5, <2>1 DEF CutNext, Cutting
  <2> QED
    BY <2>2 DEF R
<1> QED
  BY <1>4, <1>5

(* So the parts have none.                                                 *)
LEMMA PartsHaveNone ==
  ASSUME NEW T, NEW s \in Seq(T), NEW separators, NEW least \in Nat
  PROVE  Cut(s, separators, least) \in Seq(Seq(T \ separators))
<1> DEFINE R == T \ separators
           N == Len(s)
           B == Cutting(R)
<1>1. PICK a : AreCuts(a, s, separators, least, T)
  BY CutRuns
<1>2. /\ a[0] = CutStart /\ Cut(s, separators, least) = CutEnd(a[N])
      /\ \A n \in 1 .. N : a[n] = CutNext(separators, least, a[n - 1], s[n])
  BY <1>1, Zenon DEF AreCuts
<1>3. N \in Nat /\ \A n \in 1 .. N : s[n] \in T
  OBVIOUS
<1> DEFINE K == {n \in 0 .. N : a[n] \in B}
<1>4. \A n \in 0 .. N : n \in K
  <2>1. 0 \in K
    <3>1. CutStart \in B
      BY DEF CutStart, Cutting
    <3> HIDE DEF B
    <3> QED
      BY <1>2, <1>3, <3>1
  <2>2. ASSUME NEW n \in 1 .. N, n - 1 \in K PROVE n \in K
    <3>1. a[n - 1] \in B
      BY <2>2
    <3>2. CutNext(separators, least, a[n - 1], s[n]) \in B
      BY <1>3, <3>1, CutKeepsOut
    <3> HIDE DEF B
    <3> QED
      BY <1>2, <1>3, <3>2
  <2> HIDE DEF K
  <2> QED
    BY <1>3, <2>1, <2>2, SetInduction
<1>5. a[N] \in B
  <2>1. N \in K
    BY <1>3, <1>4, SMTT(30)
  <2> QED
    BY <2>1
<1> DEFINE e == a[N]
<1> HIDE DEF e, R
<1>6. e.done \in Seq(Seq(R)) /\ e.cur \in Seq(R)
  BY <1>5 DEF e, Cutting
<1>7. CutEnd(e) \in Seq(Seq(R))
  BY <1>6 DEF CutEnd
<1> QED
  BY <1>2, <1>7, Zenon DEF e, R

(* The place of a token in a text, or 0.                                   *)
LEMMA IndexIs ==
  ASSUME NEW T, NEW s \in Seq(T), NEW t
  PROVE  IndexOf(s, t) \in 0 .. Len(s)
<1> DEFINE I == {i \in 1 .. Len(s) : s[i] = t}
<1>1. IndexOf(s, t) = IF I # {} THEN Min(I) ELSE 0
  BY Zenon DEF IndexOf, SelectInSeq
<1>2. CASE I # {}
  <2>1. I \subseteq Nat
    OBVIOUS
  <2>2. PICK m \in I : \A k \in I : m <= k
    BY <1>2, <2>1, LeastNatural
  <2>3. Min(I) = m
    <3>1. I \in SUBSET Int
      BY <2>1
    <3> HIDE DEF I
    <3> QED
      BY <2>2, <3>1, MinIs
  <2> QED
    BY <1>1, <1>2, <2>2, <2>3
<1>3. CASE I = {}
  BY <1>1, <1>3
<1> QED
  BY <1>2, <1>3

(* What is before and after it.                                            *)
LEMMA SidesAreText ==
  ASSUME NEW T, NEW s \in Seq(T), NEW i \in Int
  PROVE  /\ i <= Len(s) => Before(s, i) \in Seq(T)
         /\ i >= 0 => From(s, i + 1) \in Seq(T)
<1>1. Len(s) \in Nat
  OBVIOUS
<1>2. ASSUME i <= Len(s) PROVE SubSeq(s, 1, i - 1) \in Seq(T)
  BY <1>1, <1>2
<1>3. ASSUME i >= 0 PROVE SubSeq(s, i + 1, Len(s)) \in Seq(T)
  BY <1>1, <1>3
<1> QED
  BY <1>2, <1>3, Zenon DEF Before, From

(* Trim leaves a part of a text.                                           *)
LEMMA TrimIsText ==
  ASSUME NEW T, NEW s \in Seq(T)
  PROVE  Trim(s) \in Seq(T)
<1> DEFINE text == {i \in DOMAIN s : s[i] \notin Space}
<1>1. Trim(s) = IF text = {} THEN <<>> ELSE SubSeq(s, Min(text), Max(text))
  BY Zenon DEF Trim
<1>2. CASE text = {}
  BY <1>1, <1>2
<1>3. CASE text # {}
  <2>1. text \in SUBSET (1 .. Len(s)) /\ Len(s) \in Nat /\ text \subseteq Nat
    OBVIOUS
  <2> HIDE DEF text
  <2>2. PICK m \in text : \A k \in text : m <= k
    BY <1>3, <2>1, LeastNatural
  <2>3. Min(text) = m
    BY <2>1, <2>2, MinIs
  <2>4. Max(text) \in text
    BY <1>3, <2>1, MaxOfIndices
  <2>5. SubSeq(s, Min(text), Max(text)) \in Seq(T)
    <3> DEFINE p == Min(text)
               q == Max(text)
    <3>1. p \in 1 .. Len(s) /\ q \in 1 .. Len(s)
      BY <2>1, <2>2, <2>3, <2>4
    <3> HIDE DEF p, q
    <3>2. SubSeq(s, p, q) \in Seq(T)
      BY <3>1
    <3> QED
      BY <3>2 DEF p, q
  <2> QED
    BY <1>1, <1>3, <2>5
<1> QED
  BY <1>2, <1>3

(* A blank line is among the lines after the first, if there is one.       *)
LEMMA BlankAmong ==
  ASSUME NEW S, NEW lines \in Seq(S), NEW cr
  PROVE  Blank(lines, cr) \in {0} \cup 2 .. Len(lines)
<1> DEFINE I == {i \in 2 .. Len(lines) : lines[i] = <<cr>>}
<1>1. Blank(lines, cr) = IF I # {} THEN Min(I) ELSE 0
  BY Zenon DEF Blank, SelectInSubSeq
<1>2. CASE I # {}
  <2>1. I \subseteq Nat
    OBVIOUS
  <2>2. PICK m \in I : \A k \in I : m <= k
    BY <1>2, <2>1, LeastNatural
  <2>3. Min(I) = m
    <3>1. I \in SUBSET Int
      BY <2>1
    <3> HIDE DEF I
    <3> QED
      BY <2>2, <3>1, MinIs
  <2> QED
    BY <1>1, <1>2, <2>2, <2>3
<1>3. CASE I = {}
  BY <1>1, <1>3
<1> QED
  BY <1>2, <1>3

-----------------------------------------------------------------------------
(* Numbers. *)

(* The digits. *)
DigitSet == {Digit[d] : d \in 1 .. 10}

(* The digits of a number, if f has those of smaller ones.                 *)
DigitsOf(f, n) ==
  (IF n < 10 THEN <<>> ELSE f[n \div 10]) \o <<Digit[(n % 10) + 1]>>

(* The digits of all numbers up to N.                                      *)
AreDigits(f, N) ==
  /\ f \in [0 .. N -> Seq(DigitSet)]
  /\ \A n \in 0 .. N : f[n] = DigitsOf(f, n)

(* The tenth of a number is smaller.                                       *)
LEMMA Tenth ==
  ASSUME NEW n \in Nat
  PROVE  /\ n \div 10 \in Nat /\ n % 10 \in 0 .. 9
         /\ n = 10 * (n \div 10) + (n % 10)
         /\ n >= 10 => n \div 10 \in 1 .. n - 1
  OBVIOUS

(* Each digit is another piece of text, and none ends a line.              *)
LEMMA DigitIs ==
  /\ \A d \in 1 .. 10 : Digit[d] \in DigitSet \ {"\n"}
  /\ \A d, e \in 1 .. 10 : Digit[d] = Digit[e] => d = e
<1>1. /\ Digit[1] = "0" /\ Digit[2] = "1" /\ Digit[3] = "2" /\ Digit[4] = "3"
      /\ Digit[5] = "4" /\ Digit[6] = "5" /\ Digit[7] = "6" /\ Digit[8] = "7"
      /\ Digit[9] = "8" /\ Digit[10] = "9"
  BY DEF Digit
<1>2. \A d \in 1 .. 10 : \/ d = 1 \/ d = 2 \/ d = 3 \/ d = 4 \/ d = 5
                         \/ d = 6 \/ d = 7 \/ d = 8 \/ d = 9 \/ d = 10
  OBVIOUS
<1>3. \A d \in 1 .. 10 : Digit[d] # "\n"
  BY <1>1, <1>2
<1>4. \A d \in 1 .. 10 : Digit[d] \in DigitSet
  BY DEF DigitSet
<1>5. ASSUME NEW d \in 1 .. 10, NEW e \in 1 .. 10, d < e
      PROVE  Digit[d] # Digit[e]
  <2>1. /\ \/ d = 1 \/ d = 2 \/ d = 3 \/ d = 4 \/ d = 5
           \/ d = 6 \/ d = 7 \/ d = 8 \/ d = 9
        /\ \/ e = 2 \/ e = 3 \/ e = 4 \/ e = 5
           \/ e = 6 \/ e = 7 \/ e = 8 \/ e = 9 \/ e = 10
    BY <1>5
  <2> QED
    BY <1>1, <1>5, <2>1
<1> QED
  BY <1>3, <1>4, <1>5

(* They are digits again with those of one more number.                    *)
LEMMA DigitsExist ==
  ASSUME NEW N \in Nat
  PROVE  \E f : AreDigits(f, N)
<1> DEFINE K == {n \in 0 .. N : \E f : AreDigits(f, n)}
<1>1. ASSUME NEW n \in Nat, NEW f, n > 0 => AreDigits(f, n - 1)
      PROVE  \E g : AreDigits(g, n)
  <2> DEFINE last == DigitsOf(f, n)
             g == [m \in 0 .. n |-> IF m = n THEN last ELSE f[m]]
             d == Digit[(n % 10) + 1]
  <2>1. d \in DigitSet
    BY Tenth, DigitIs
  <2> HIDE DEF d
  <2>2. last \in Seq(DigitSet)
    <3>1. <<d>> \in Seq(DigitSet)
      BY <2>1, One, Zenon
    <3>2. CASE n < 10
      <4>1. last = <<>> \o <<d>>
        BY <3>2 DEF DigitsOf, d
      <4> QED
        BY <3>1, <4>1
    <3>3. CASE n >= 10
      <4>1. ~(n < 10)
        BY <3>3
      <4>2. last = f[n \div 10] \o <<d>>
        BY <4>1, Zenon DEF DigitsOf, d, last
      <4>3. n \div 10 \in 0 .. n - 1 /\ n > 0
        BY <3>3, Tenth
      <4>4. f[n \div 10] \in Seq(DigitSet)
        BY <1>1, <4>3 DEF AreDigits
      <4> QED
        BY <3>1, <4>2, <4>4
    <3> QED
      BY <3>2, <3>3
  <2> HIDE DEF last
  <2>3. g \in [0 .. n -> Seq(DigitSet)]
    <3>1. ASSUME NEW m \in 0 .. n, m # n PROVE f[m] \in Seq(DigitSet)
      <4>1. n > 0 /\ m \in 0 .. n - 1
        BY <3>1
      <4> QED
        BY <1>1, <4>1 DEF AreDigits
    <3> QED
      BY <2>2, <3>1
  <2>4. ASSUME NEW m \in 0 .. n PROVE g[m] = DigitsOf(g, m)
    <3>1. m >= 10 => m \div 10 \in 0 .. m - 1
      BY Tenth
    <3>2. m >= 10 => g[m \div 10] = f[m \div 10]
      BY <3>1
    <3>3. DigitsOf(g, m) = DigitsOf(f, m)
      <4> HIDE DEF g
      <4>1. CASE m >= 10
        BY <3>2, <4>1 DEF DigitsOf
      <4>2. CASE m < 10
        BY <4>2 DEF DigitsOf
      <4> QED
        BY <4>1, <4>2
    <3>4. CASE m = n
      <4>1. g[m] = last
        BY <3>4
      <4> QED
        BY <3>3, <3>4, <4>1, Zenon DEF last
    <3>5. CASE m # n
      <4>1. g[m] = f[m] /\ n > 0 /\ m \in 0 .. n - 1
        BY <3>5
      <4>2. f[m] = DigitsOf(f, m)
        BY <1>1, <4>1 DEF AreDigits
      <4> QED
        BY <3>3, <4>1, <4>2, Zenon
    <3> QED
      BY <3>4, <3>5
  <2>5. AreDigits(g, n)
    <3> HIDE DEF g
    <3> QED
      BY <2>3, <2>4 DEF AreDigits
  <2> QED
    BY <2>5
<1>2. 0 \in K
  BY <1>1
<1>3. ASSUME NEW n \in 1 .. N, n - 1 \in K PROVE n \in K
  <2>1. PICK f : AreDigits(f, n - 1)
    BY <1>3
  <2> QED
    BY <1>1, <2>1
<1> HIDE DEF K
<1>4. \A n \in 0 .. N : n \in K
  BY <1>2, <1>3, SetInduction
<1> QED
  BY <1>4 DEF K

(* They are the same however far they go.                                  *)
LEMMA DigitsAgree ==
  ASSUME NEW N \in Nat, NEW M \in Nat, NEW f, NEW g,
         AreDigits(f, N), AreDigits(g, M)
  PROVE  \A n \in 0 .. N : n \in 0 .. M => f[n] = g[n]
<1> DEFINE T == {n \in 0 .. N : n \in 0 .. M /\ f[n] # g[n]}
<1>1. SUFFICES ASSUME T # {} PROVE FALSE
  OBVIOUS
<1>2. PICK n \in T : \A k \in T : n <= k
  <2>1. T \subseteq Nat
    OBVIOUS
  <2> QED
    BY <1>1, <2>1, LeastNatural
<1>3. /\ n \in Nat /\ n \in 0 .. N /\ n \in 0 .. M
      /\ f[n] = DigitsOf(f, n) /\ g[n] = DigitsOf(g, n) /\ f[n] # g[n]
  BY DEF AreDigits
<1>4. n >= 10 => n \div 10 \in 0 .. n - 1
  BY <1>3, Tenth
<1>5. n >= 10 => f[n \div 10] = g[n \div 10]
  <2>1. ASSUME n >= 10 PROVE n \div 10 \notin T
    BY <1>2, <1>3, <1>4, <2>1
  <2> QED
    BY <1>3, <1>4, <2>1
<1> HIDE DEF T
<1>6. DigitsOf(f, n) = DigitsOf(g, n)
  <2>1. CASE n >= 10
    BY <1>5, <2>1 DEF DigitsOf
  <2>2. CASE n < 10
    BY <2>2 DEF DigitsOf
  <2> QED
    BY <1>3, <2>1, <2>2
<1> QED
  BY <1>3, <1>6

(* The digits of a number as the recursion says.                           *)
LEMMA DecimalIs ==
  \A n \in Nat :
    /\ Decimal[n] \in Seq(DigitSet)
    /\ Decimal[n] = DigitsOf(Decimal, n)
<1> DEFINE Upto(n) == CHOOSE f : AreDigits(f, n)
           F == [n \in Nat |-> Upto(n)[n]]
           Rec(f) == [n \in Nat |->
                        (IF n < 10 THEN <<>> ELSE f[n \div 10])
                          \o <<Digit[(n % 10) + 1]>>]
<1>1. ASSUME NEW n \in Nat PROVE AreDigits(Upto(n), n)
  BY DigitsExist
<1>2. ASSUME NEW n \in Nat
      PROVE  F[n] = DigitsOf(F, n) /\ F[n] \in Seq(DigitSet)
  <2>1. n \in 0 .. n
    OBVIOUS
  <2>2. F[n] = Upto(n)[n] /\ AreDigits(Upto(n), n)
    BY <1>1
  <2>3. F[n] = DigitsOf(Upto(n), n) /\ F[n] \in Seq(DigitSet)
    BY <2>1, <2>2 DEF AreDigits
  <2>4. n >= 10 => F[n \div 10] = Upto(n)[n \div 10]
    <3>1. ASSUME n >= 10
          PROVE  n \div 10 \in Nat /\ n \div 10 \in 0 .. n
                 /\ n \div 10 \in 0 .. n \div 10
      BY <3>1, Tenth
    <3>2. ASSUME NEW k \in Nat, k \in 0 .. n, k \in 0 .. k
          PROVE  F[k] = Upto(n)[k]
      <4>1. AreDigits(Upto(k), k) /\ AreDigits(Upto(n), n)
        BY <1>1
      <4>2. F[k] = Upto(k)[k]
        OBVIOUS
      <4> HIDE DEF Upto, F
      <4>3. Upto(k)[k] = Upto(n)[k]
        BY <3>2, <4>1, DigitsAgree
      <4> QED
        BY <4>2, <4>3
    <3> HIDE DEF F, Upto
    <3> QED
      BY <3>1, <3>2
  <2> HIDE DEF F, Upto
  <2>5. DigitsOf(F, n) = DigitsOf(Upto(n), n)
    <3>1. CASE n >= 10
      BY <2>4, <3>1 DEF DigitsOf
    <3>2. CASE n < 10
      BY <3>2 DEF DigitsOf
    <3> QED
      BY <3>1, <3>2
  <2> QED
    BY <2>3, <2>5
<1>3. F = Rec(F)
  <2>1. F = [n \in Nat |-> F[n]]
    OBVIOUS
  <2> HIDE DEF F
  <2> QED
    BY <1>2, <2>1 DEF DigitsOf
<1>4. Decimal = CHOOSE f : f = Rec(f)
  BY Zenon DEF Decimal
<1>5. Decimal = Rec(Decimal)
  <2> HIDE DEF F, Rec
  <2> QED
    BY <1>3, <1>4, Zenon
<1>6. ASSUME NEW n \in Nat PROVE Decimal[n] = DigitsOf(Decimal, n)
  BY <1>5 DEF DigitsOf
<1> DEFINE T == {n \in Nat : Decimal[n] \notin Seq(DigitSet)}
<1>7. T = {}
  <2>1. SUFFICES ASSUME T # {} PROVE FALSE
    OBVIOUS
  <2>2. PICK n \in T : \A k \in T : n <= k
    <3>1. T \subseteq Nat
      OBVIOUS
    <3> QED
      BY <2>1, <3>1, LeastNatural
  <2>3. n \in Nat /\ Decimal[n] \notin Seq(DigitSet)
        /\ Decimal[n] = DigitsOf(Decimal, n)
    BY <1>6
  <2>4. n >= 10 => Decimal[n \div 10] \in Seq(DigitSet)
    <3>1. n >= 10 => n \div 10 \in 0 .. n - 1
      BY <2>3, Tenth
    <3> QED
      BY <2>2, <2>3, <3>1
  <2> DEFINE d == Digit[(n % 10) + 1]
  <2>5. d \in DigitSet
    BY <2>3, Tenth, DigitIs
  <2> HIDE DEF d
  <2>6. <<d>> \in Seq(DigitSet)
    BY <2>5, One, Zenon
  <2>7. CASE n >= 10
    <3>1. ~(n < 10)
      BY <2>3, <2>7
    <3>2. DigitsOf(Decimal, n) = Decimal[n \div 10] \o <<d>>
      BY <3>1, Zenon DEF DigitsOf, d
    <3> QED
      BY <2>3, <2>4, <2>6, <2>7, <3>2
  <2>8. CASE n < 10
    <3>1. DigitsOf(Decimal, n) = <<>> \o <<d>>
      BY <2>3, <2>8 DEF DigitsOf, d
    <3> QED
      BY <2>3, <2>6, <3>1
  <2> QED
    BY <2>3, <2>7, <2>8
<1> QED
  BY <1>6, <1>7

(* What a text with one more token was before.                             *)
LEMMA WithoutLast ==
  ASSUME NEW T, NEW a \in Seq(T), NEW b \in Seq(T), NEW x \in T, NEW y \in T,
         a \o <<x>> = b \o <<y>>
  PROVE  a = b /\ x = y
<1>1. <<x>> \in Seq(T) /\ Len(<<x>>) = 1 /\ <<x>>[1] = x
      /\ <<y>> \in Seq(T) /\ Len(<<y>>) = 1 /\ <<y>>[1] = y
  BY One, Zenon
<1> DEFINE xs == <<x>>
           ys == <<y>>
           c == a \o xs
           d == b \o ys
<1> HIDE DEF xs, ys
<1>2. IsConcat(c, a, xs, T) /\ IsConcat(d, b, ys, T)
  BY <1>1, Concatenation DEF xs, ys
<1>3. c = d
  BY DEF xs, ys
<1> HIDE DEF c, d
<1>4. /\ Len(a) \in Nat /\ Len(b) \in Nat /\ Len(a) = Len(b)
      /\ \A i \in 1 .. Len(a) : c[i] = a[i] /\ c[i] = b[i]
      /\ c[Len(a) + 1] = x /\ c[Len(a) + 1] = y
  BY <1>1, <1>2, <1>3 DEF IsConcat, xs, ys
<1> QED
  BY <1>4, SameText

(* Different numbers have different digits.                                *)
LEMMA DecimalDiffers ==
  ASSUME NEW n \in Nat, NEW m \in Nat, Decimal[n] = Decimal[m]
  PROVE  n = m
<1> DEFINE T == {k \in Nat : \E l \in Nat : l # k /\ Decimal[k] = Decimal[l]}
           D(k) == Digit[(k % 10) + 1]
           F(k) == IF k < 10 THEN <<>> ELSE Decimal[k \div 10]
<1>1. SUFFICES ASSUME T # {} PROVE FALSE
  OBVIOUS
<1>2. PICK k \in T : \A j \in T : k <= j
  <2>1. T \subseteq Nat
    OBVIOUS
  <2> QED
    BY <1>1, <2>1, LeastNatural
<1>3. PICK l \in Nat : l # k /\ Decimal[k] = Decimal[l]
  OBVIOUS
<1>4. k \in Nat /\ l \in T
  BY <1>3
<1>5. k < l
  BY <1>2, <1>3, <1>4
<1>6. ASSUME NEW j \in Nat
      PROVE  /\ F(j) \in Seq(DigitSet) /\ D(j) \in DigitSet
             /\ Decimal[j] = F(j) \o <<D(j)>>
             /\ j >= 10 => Decimal[j \div 10] # <<>>
  <2>1. (j % 10) + 1 \in 1 .. 10 /\ (j >= 10 => j \div 10 \in Nat)
    BY Tenth
  <2>2. D(j) \in DigitSet
    BY <2>1, DigitIs
  <2>3. F(j) \in Seq(DigitSet)
    BY <2>1, DecimalIs
  <2>4. Decimal[j] = F(j) \o <<D(j)>>
    BY DecimalIs, Zenon DEF DigitsOf
  <2>5. ASSUME NEW i \in Nat PROVE Decimal[i] # <<>>
    <3> DEFINE x == Digit[(i % 10) + 1]
               f == IF i < 10 THEN <<>> ELSE Decimal[i \div 10]
               xs == <<x>>
    <3>1. (i % 10) + 1 \in 1 .. 10 /\ (i >= 10 => i \div 10 \in Nat)
      BY Tenth
    <3>2. x \in DigitSet /\ f \in Seq(DigitSet)
      <4>1. x \in DigitSet
        BY <3>1, DigitIs
      <4>2. i >= 10 => Decimal[i \div 10] \in Seq(DigitSet)
        BY <3>1, DecimalIs
      <4>3. <<>> \in Seq(DigitSet) /\ (~(i < 10) => i >= 10)
        OBVIOUS
      <4> QED
        BY <4>1, <4>2, <4>3, Zenon
    <3>3. Decimal[i] = f \o xs
      BY DecimalIs, Zenon DEF DigitsOf
    <3> HIDE DEF x, f
    <3>4. xs \in Seq(DigitSet) /\ Len(xs) = 1
      BY <3>2, One, Zenon
    <3> HIDE DEF xs
    <3>5. IsConcat(f \o xs, f, xs, DigitSet)
      BY <3>2, <3>4, Concatenation
    <3>6. Len(f \o xs) > 0
      BY <3>4, <3>5 DEF IsConcat
    <3> QED
      BY <3>3, <3>6
  <2> QED
    BY <2>1, <2>2, <2>3, <2>4, <2>5
<1>7. F(k) = F(l) /\ D(k) = D(l)
  <2> HIDE DEF F, D
  <2>1. F(k) \o <<D(k)>> = F(l) \o <<D(l)>>
    BY <1>3, <1>4, <1>6, Zenon
  <2>2. F(k) \in Seq(DigitSet) /\ D(k) \in DigitSet
        /\ F(l) \in Seq(DigitSet) /\ D(l) \in DigitSet
    BY <1>3, <1>4, <1>6, Zenon
  <2> QED
    BY <2>1, <2>2, WithoutLast, SMTT(30)
<1>8. /\ k % 10 \in 0 .. 9 /\ l % 10 \in 0 .. 9
      /\ k = 10 * (k \div 10) + (k % 10) /\ l = 10 * (l \div 10) + (l % 10)
      /\ k \div 10 \in Nat /\ l \div 10 \in Nat
      /\ (k >= 10 => k \div 10 \in 1 .. k - 1)
  BY <1>3, <1>4, Tenth
<1>9. k % 10 = l % 10
  <2>1. (k % 10) + 1 \in 1 .. 10 /\ (l % 10) + 1 \in 1 .. 10
    BY <1>8
  <2>2. (k % 10) + 1 = (l % 10) + 1
    BY <1>7, <2>1, DigitIs
  <2> QED
    BY <1>8, <2>2
<1>10. l >= 10
  <2>1. ASSUME l < 10, k < 10 PROVE k = l
    <3>1. \A j \in Nat : j < 10 => j % 10 = j
      OBVIOUS
    <3> QED
      BY <1>3, <1>4, <1>9, <2>1, <3>1
  <2> QED
    BY <1>3, <1>4, <1>5, <2>1
<1>11. k >= 10
  <2>1. ASSUME k < 10 PROVE FALSE
    <3>1. F(k) = <<>>
      BY <2>1
    <3>2. F(l) = Decimal[l \div 10]
      BY <1>3, <1>10
    <3>3. Decimal[l \div 10] # <<>>
      BY <1>3, <1>6, <1>10
    <3> QED
      BY <1>7, <3>1, <3>2, <3>3
  <2> QED
    BY <1>4, <2>1
<1>12. Decimal[k \div 10] = Decimal[l \div 10]
  BY <1>3, <1>4, <1>7, <1>10, <1>11
<1>13. k \div 10 # l \div 10
  BY <1>3, <1>8, <1>9
<1>14. k \div 10 \in T
  BY <1>8, <1>12, <1>13
<1> HIDE DEF T
<1>15. k \div 10 < k
  BY <1>4, <1>8, <1>11
<1> QED
  BY <1>2, <1>4, <1>8, <1>14, <1>15

-----------------------------------------------------------------------------
(* The lines of an answer. *)

(* Line i of some lines in a text x: it begins after position e[i - 1] and *)
(* its line feed is at e[i].                                               *)
Row(x, e, lines, i, cr, lf) ==
  /\ e[i - 1] \in Nat /\ e[i] \in Nat /\ e[i] <= Len(x)
  /\ e[i] = (e[i - 1] + Len(lines[i])) + 2
  /\ \A k \in 1 .. Len(lines[i]) : x[e[i - 1] + k] = lines[i][k]
  /\ x[e[i] - 1] = cr /\ x[e[i]] = lf

(* It is still there when the text goes on.                                *)
LEMMA RowKept ==
  ASSUME NEW T, NEW x, NEW y, NEW z, IsConcat(y, x, z, T),
         NEW e, NEW lines \in Seq(Seq(T)), NEW i \in 1 .. Len(lines),
         NEW cr, NEW lf, Row(x, e, lines, i, cr, lf)
  PROVE  Row(y, e, lines, i, cr, lf)
<1>1. /\ Len(x) \in Nat /\ Len(z) \in Nat /\ Len(y) = Len(x) + Len(z)
      /\ \A k \in 1 .. Len(x) : y[k] = x[k]
  BY DEF IsConcat
<1>2. lines[i] \in Seq(T) /\ Len(lines[i]) \in Nat
  OBVIOUS
<1>3. /\ e[i - 1] \in Nat /\ e[i] \in Nat /\ e[i] <= Len(x)
      /\ e[i] = (e[i - 1] + Len(lines[i])) + 2
      /\ \A k \in 1 .. Len(lines[i]) : x[e[i - 1] + k] = lines[i][k]
      /\ x[e[i] - 1] = cr /\ x[e[i]] = lf
  BY DEF Row
<1> DEFINE L == Len(lines[i])
           X == Len(x)
           a == e[i - 1]
           b == e[i]
<1>4. b \in 1 .. X /\ b - 1 \in 1 .. X
      /\ \A k \in 1 .. L : a + k \in 1 .. X
  <2>1. X \in Nat /\ L \in Nat /\ a \in Nat /\ b \in Nat
        /\ b <= X /\ b = (a + L) + 2
    BY <1>1, <1>2, <1>3
  <2> HIDE DEF L, X, a, b
  <2> QED
    BY <2>1
<1>5. ASSUME NEW k \in 1 .. Len(lines[i])
      PROVE  y[e[i - 1] + k] = lines[i][k]
  <2>1. e[i - 1] + k \in 1 .. Len(x)
    BY <1>4
  <2> QED
    BY <1>1, <1>3, <2>1
<1> QED
  BY <1>1, <1>3, <1>4, <1>5 DEF Row

(* Texts that grow by a line at a time.                                    *)
Grows(t, lines, cr, lf, T) ==
  /\ lines \in Seq(Seq(T)) /\ Len(lines) # 0 /\ cr \in T /\ lf \in T
  /\ t[1] = lines[1] \o <<cr, lf>>
  /\ \A i \in 2 .. Len(lines) : t[i] = t[i - 1] \o (lines[i] \o <<cr, lf>>)

(* A line with its end.                                                    *)
LEMMA ClosedIs ==
  ASSUME NEW T, NEW l \in Seq(T), NEW cr \in T, NEW lf \in T
  PROVE  /\ l \o <<cr, lf>> \in Seq(T)
         /\ Len(l \o <<cr, lf>>) = Len(l) + 2
         /\ \A k \in 1 .. Len(l) : (l \o <<cr, lf>>)[k] = l[k]
         /\ (l \o <<cr, lf>>)[Len(l) + 1] = cr
         /\ (l \o <<cr, lf>>)[Len(l) + 2] = lf
<1> DEFINE c == <<cr, lf>>
           d == l \o c
<1>1. c \in Seq(T) /\ Len(c) = 2 /\ c[1] = cr /\ c[2] = lf
  BY Two, Zenon
<1> HIDE DEF c
<1>2. IsConcat(d, l, c, T)
  BY <1>1, Concatenation
<1> HIDE DEF d
<1>3. /\ d \in Seq(T) /\ Len(d) = Len(l) + 2
      /\ \A k \in 1 .. Len(l) : d[k] = l[k]
      /\ d[Len(l) + 1] = cr /\ d[Len(l) + 2] = lf
  BY <1>1, <1>2 DEF IsConcat
<1> QED
  BY <1>3 DEF d, c

(* The line that is put last.                                              *)
LEMMA RowAdded ==
  ASSUME NEW T, NEW lines \in Seq(Seq(T)), NEW i \in 1 .. Len(lines),
         NEW cr \in T, NEW lf \in T, NEW x \in Seq(T), NEW y,
         y = x \o (lines[i] \o <<cr, lf>>),
         NEW e, e[i - 1] = Len(x), e[i] = Len(y)
  PROVE  Row(y, e, lines, i, cr, lf)
<1> DEFINE l == lines[i]
           c == l \o <<cr, lf>>
<1>1. l \in Seq(T) /\ Len(l) \in Nat /\ Len(x) \in Nat
  OBVIOUS
<1> HIDE DEF l
<1>2. /\ c \in Seq(T) /\ Len(c) = Len(l) + 2
      /\ \A k \in 1 .. Len(l) : c[k] = l[k]
      /\ c[Len(l) + 1] = cr /\ c[Len(l) + 2] = lf
  BY <1>1, ClosedIs
<1>3. y = x \o c
  BY DEF l
<1> HIDE DEF c
<1>4. IsConcat(y, x, c, T)
  BY <1>2, <1>3, Concatenation
<1>5. Len(y) = (Len(x) + Len(l)) + 2 /\ Len(y) \in Nat
  <2>1. Len(y) = Len(x) + Len(c)
    BY <1>4 DEF IsConcat
  <2> QED
    BY <1>1, <1>2, <2>1
<1>6. /\ y[(Len(x) + Len(l)) + 1] = cr /\ y[(Len(x) + Len(l)) + 2] = lf
  <2>1. /\ Len(l) + 1 \in 1 .. Len(c) /\ Len(l) + 2 \in 1 .. Len(c)
        /\ Len(x) + (Len(l) + 1) = (Len(x) + Len(l)) + 1
        /\ Len(x) + (Len(l) + 2) = (Len(x) + Len(l)) + 2
    BY <1>1, <1>2
  <2>2. y[Len(x) + (Len(l) + 1)] = cr /\ y[Len(x) + (Len(l) + 2)] = lf
    BY <1>2, <1>4, <2>1 DEF IsConcat
  <2> QED
    BY <1>2, <1>5, <2>1, <2>2
<1>7. ASSUME NEW k \in 1 .. Len(l) PROVE y[Len(x) + k] = l[k]
  <2>1. k \in 1 .. Len(c)
    BY <1>1, <1>2
  <2> QED
    BY <1>2, <1>4, <2>1 DEF IsConcat
<1>8. Len(y) - 1 = (Len(x) + Len(l)) + 1
  BY <1>1, <1>5
<1> DEFINE X == Len(x)
           Y == Len(y)
           L == Len(l)
<1>9. /\ X \in Nat /\ Y \in Nat /\ Y <= Y /\ Y = (X + L) + 2
      /\ \A k \in 1 .. L : y[X + k] = l[k]
      /\ y[Y - 1] = cr /\ y[Y] = lf
  <2>1. X \in Nat /\ Y \in Nat /\ Y <= Y /\ Y = (X + L) + 2
    BY <1>1, <1>5
  <2> QED
    BY <1>5, <1>6, <1>7, <1>8, <2>1, Zenon
<1> QED
  BY <1>9, Zenon DEF Row, l

(* All lines are in the text that has grown.                               *)
LEMMA GrowsRows ==
  ASSUME NEW T, NEW t, NEW lines, NEW cr, NEW lf, Grows(t, lines, cr, lf, T),
         NEW e, e[0] = 0, \A i \in 1 .. Len(lines) : e[i] = Len(t[i])
  PROVE  /\ t[Len(lines)] \in Seq(T)
         /\ \A i \in 1 .. Len(lines) : Row(t[Len(lines)], e, lines, i, cr, lf)
<1> DEFINE N == Len(lines)
           K == {n \in 0 .. N :
                   n # 0 => /\ t[n] \in Seq(T)
                            /\ \A i \in 1 .. n : Row(t[n], e, lines, i, cr, lf)}
<1>1. /\ lines \in Seq(Seq(T)) /\ N \in Nat /\ N # 0 /\ cr \in T /\ lf \in T
      /\ t[1] = lines[1] \o <<cr, lf>>
      /\ \A i \in 2 .. N : t[i] = t[i - 1] \o (lines[i] \o <<cr, lf>>)
      /\ \A i \in 1 .. N : lines[i] \in Seq(T)
  <2>1. /\ lines \in Seq(Seq(T)) /\ N # 0 /\ cr \in T /\ lf \in T
        /\ t[1] = lines[1] \o <<cr, lf>>
        /\ \A i \in 2 .. N : t[i] = t[i - 1] \o (lines[i] \o <<cr, lf>>)
    BY Zenon DEF Grows
  <2>2. N \in Nat /\ \A i \in 1 .. N : lines[i] \in Seq(T)
    BY <2>1
  <2> QED
    BY <2>1, <2>2, Zenon
<1>2. 0 \in K
  BY <1>1
<1>3. ASSUME NEW n \in 1 .. N, n - 1 \in K PROVE n \in K
  <2> DEFINE c == lines[n] \o <<cr, lf>>
  <2>1. c \in Seq(T)
    BY <1>1, ClosedIs
  <2> HIDE DEF c
  <2>2. CASE n = 1
    <3>1. <<>> \in Seq(T) /\ Len(<<>>) = 0 /\ <<>> \o c = c
      BY <2>1
    <3>2. t[n] = c
      BY <1>1, <2>2, Zenon DEF c
    <3>3. t[n] = <<>> \o c
      BY <3>1, <3>2
    <3>4. e[n - 1] = Len(<<>>) /\ e[n] = Len(t[n])
      BY <2>2, <3>1
    <3>5. Row(t[n], e, lines, n, cr, lf)
      BY <1>1, <3>1, <3>3, <3>4, RowAdded DEF c
    <3> QED
      BY <1>1, <2>1, <2>2, <3>2, <3>5
  <2>3. CASE n # 1
    <3>1. n \in 2 .. N /\ n - 1 \in 1 .. N /\ n - 1 # 0
      BY <1>1, <2>3
    <3>2. /\ t[n] = t[n - 1] \o c /\ t[n - 1] \in Seq(T)
          /\ \A i \in 1 .. n - 1 : Row(t[n - 1], e, lines, i, cr, lf)
      <4>1. t[n] = t[n - 1] \o c
        BY <1>1, <3>1, Zenon DEF c
      <4>2. /\ t[n - 1] \in Seq(T)
            /\ \A i \in 1 .. n - 1 : Row(t[n - 1], e, lines, i, cr, lf)
        BY <1>3, <3>1
      <4> QED
        BY <4>1, <4>2
    <3>3. IsConcat(t[n], t[n - 1], c, T)
      BY <2>1, <3>2, Concatenation
    <3>4. t[n] \in Seq(T)
      BY <3>3 DEF IsConcat
    <3>5. e[n - 1] = Len(t[n - 1]) /\ e[n] = Len(t[n])
      BY <3>1
    <3>6. Row(t[n], e, lines, n, cr, lf)
      BY <1>1, <3>2, <3>5, RowAdded DEF c
    <3>7. ASSUME NEW i \in 1 .. n - 1 PROVE Row(t[n], e, lines, i, cr, lf)
      <4>1. i \in 1 .. N /\ Row(t[n - 1], e, lines, i, cr, lf)
        BY <1>1, <3>1, <3>2, SMTT(30)
      <4> QED
        BY <1>1, <3>3, <4>1, RowKept
    <3>8. \A i \in 1 .. n : i = n \/ i \in 1 .. n - 1
      OBVIOUS
    <3>9. \A i \in 1 .. n : Row(t[n], e, lines, i, cr, lf)
      BY <3>6, <3>7, <3>8, Zenon
    <3> QED
      BY <1>1, <3>4, <3>9
  <2> QED
    BY <2>2, <2>3
<1> HIDE DEF K
<1>4. \A n \in 0 .. N : n \in K
  BY <1>1, <1>2, <1>3, SetInduction
<1>5. N \in K
  BY <1>1, <1>4
<1> QED
  BY <1>1, <1>5 DEF K

(* A text of some lines, an empty line and a rest.                         *)
IsAnswer(x, e, lines, rest, cr, lf, T) ==
  /\ x \in Seq(T) /\ lines \in Seq(Seq(T)) /\ Len(lines) # 0 /\ rest \in Seq(T)
  /\ cr # lf /\ e[0] = 0
  /\ \A i \in 1 .. Len(lines) : Row(x, e, lines, i, cr, lf)
  /\ \A i \in 1 .. Len(lines) :
       /\ Len(lines[i]) # 0 /\ lines[i][1] # cr
       /\ \A k \in 1 .. Len(lines[i]) : lines[i][k] # lf
  /\ Len(x) = (e[Len(lines)] + 2) + Len(rest)
  /\ x[e[Len(lines)] + 1] = cr /\ x[e[Len(lines)] + 2] = lf
  /\ \A k \in 1 .. Len(rest) : x[(e[Len(lines)] + 2) + k] = rest[k]

(* Where a line begins and ends, in numbers.                               *)
LineAt(x, e, lines, i, cr, lf, T) ==
  /\ Len(lines) \in Nat /\ Len(lines[i]) \in Nat \ {0}
  /\ lines[i] \in Seq(T)
  /\ e[i - 1] \in Nat /\ e[i] \in Nat /\ e[i] <= Len(x)
  /\ Len(x) \in Nat
  /\ e[i] = (e[i - 1] + Len(lines[i])) + 2
  /\ \A k \in 1 .. Len(lines[i]) :
       /\ x[e[i - 1] + k] = lines[i][k] /\ lines[i][k] # lf
       /\ e[i - 1] + k \in 1 .. Len(x)
  /\ x[e[i] - 1] = cr /\ x[e[i]] = lf /\ lines[i][1] # cr
  /\ e[i] \in 1 .. Len(x)

(* It is so for each line of an answer.                                    *)
LEMMA RowIs ==
  ASSUME NEW T, NEW x, NEW e, NEW lines, NEW rest, NEW cr, NEW lf,
         IsAnswer(x, e, lines, rest, cr, lf, T), NEW i \in 1 .. Len(lines)
  PROVE  LineAt(x, e, lines, i, cr, lf, T)
<1>1. /\ x \in Seq(T) /\ lines \in Seq(Seq(T)) /\ Len(lines) # 0
      /\ Row(x, e, lines, i, cr, lf)
      /\ Len(lines[i]) # 0 /\ lines[i][1] # cr
      /\ \A k \in 1 .. Len(lines[i]) : lines[i][k] # lf
  BY Zenon DEF IsAnswer
<1>2. /\ Len(x) \in Nat /\ Len(lines) \in Nat
      /\ lines[i] \in Seq(T) /\ Len(lines[i]) \in Nat
  <2>1. lines[i] \in Seq(T)
    BY <1>1
  <2> QED
    BY <1>1, <2>1
<1>3. /\ e[i - 1] \in Nat /\ e[i] \in Nat /\ e[i] <= Len(x)
      /\ e[i] = (e[i - 1] + Len(lines[i])) + 2
      /\ \A k \in 1 .. Len(lines[i]) : x[e[i - 1] + k] = lines[i][k]
      /\ x[e[i] - 1] = cr /\ x[e[i]] = lf
  BY <1>1, Zenon DEF Row
<1> DEFINE L == Len(lines[i])
           X == Len(x)
           a == e[i - 1]
           b == e[i]
<1>4. b \in 1 .. X /\ \A k \in 1 .. L : a + k \in 1 .. X
  <2>1. X \in Nat /\ L \in Nat /\ a \in Nat /\ b \in Nat
        /\ b <= X /\ b = (a + L) + 2
    BY <1>2, <1>3
  <2> HIDE DEF L, X, a, b
  <2> QED
    BY <2>1
<1>5. L \in Nat \ {0}
  BY <1>1, <1>2
<1> QED
  BY <1>1, <1>2, <1>3, <1>4, <1>5, Zenon DEF LineAt

(* The lines end one after the other, and nowhere else is a line feed.     *)
LEMMA LineFeeds ==
  ASSUME NEW T, NEW x, NEW e, NEW lines, NEW rest, NEW cr, NEW lf,
         IsAnswer(x, e, lines, rest, cr, lf, T)
  PROVE  /\ \A i, j \in 0 .. Len(lines) : i < j => e[i] < e[j]
         /\ \A p \in 1 .. e[Len(lines)] :
              x[p] = lf => \E j \in 1 .. Len(lines) : p = e[j]
<1> DEFINE N == Len(lines)
           K == {n \in 0 .. N :
                   /\ e[n] \in Nat
                   /\ \A i \in 0 .. n : i < n => e[i] < e[n]
                   /\ \A p \in 1 .. e[n] :
                        x[p] = lf => \E j \in 1 .. n : p = e[j]}
<1>1. N \in Nat /\ N # 0 /\ e[0] = 0 /\ cr # lf
  <2>1. lines \in Seq(Seq(T)) /\ N # 0 /\ e[0] = 0 /\ cr # lf
    BY Zenon DEF IsAnswer
  <2> QED
    BY <2>1
<1>2. 0 \in K
  BY <1>1
<1>3. ASSUME NEW n \in 1 .. N, n - 1 \in K PROVE n \in K
  <2> DEFINE a == e[n - 1]
             b == e[n]
             L == Len(lines[n])
  <2>1. /\ L \in Nat \ {0} /\ a \in Nat /\ b \in Nat /\ b = (a + L) + 2
        /\ \A k \in 1 .. L : x[a + k] # lf
        /\ x[b - 1] = cr
    <3>1. /\ L \in Nat \ {0} /\ a \in Nat /\ b \in Nat /\ b = (a + L) + 2
          /\ \A k \in 1 .. L : x[a + k] = lines[n][k] /\ lines[n][k] # lf
          /\ x[b - 1] = cr
      <4>1. LineAt(x, e, lines, n, cr, lf, T)
        BY RowIs
      <4> QED
        BY <4>1, Zenon DEF LineAt
    <3> HIDE DEF a, b, L
    <3> QED
      BY <3>1
  <2>2. /\ \A i \in 0 .. n - 1 : i < n - 1 => e[i] < a
        /\ \A p \in 1 .. a : x[p] = lf => \E j \in 1 .. n - 1 : p = e[j]
    BY <1>3
  <2>3. ASSUME NEW i \in 0 .. n, i < n PROVE e[i] < b
    <3>1. CASE i = n - 1
      <4>1. e[i] = a
        BY <3>1
      <4> HIDE DEF a, b, L
      <4> QED
        BY <2>1, <4>1
    <3>2. CASE i # n - 1
      <4>1. i \in 0 .. n - 1 /\ i < n - 1 /\ i \in 0 .. N
        BY <1>1, <2>3, <3>2
      <4>2. e[i] < a
        BY <2>2, <4>1
      <4>3. e[i] \in Nat
        <5>1. CASE i = 0
          BY <1>1, <5>1
        <5>2. CASE i # 0
          <6>1. i \in 1 .. N
            BY <4>1, <5>2
          <6> QED
            BY <6>1, RowIs DEF LineAt
        <5> QED
          BY <5>1, <5>2
      <4> HIDE DEF a, b, L
      <4> QED
        BY <2>1, <4>2, <4>3
    <3> QED
      BY <3>1, <3>2
  <2>4. ASSUME NEW p \in 1 .. b, x[p] = lf
        PROVE  \E j \in 1 .. n : p = e[j]
    <3>1. CASE p <= a
      <4>1. p \in 1 .. a
        <5> HIDE DEF a, b
        <5> QED
          BY <2>1, <3>1
      <4>2. PICK j \in 1 .. n - 1 : p = e[j]
        BY <2>2, <2>4, <4>1
      <4>3. j \in 1 .. n
        OBVIOUS
      <4> QED
        BY <4>2, <4>3
    <3>2. CASE p > a
      <4> DEFINE k == p - a
      <4>1. k \in Nat \ {0} /\ p = a + k /\ k <= L + 2
            /\ (k = L + 1 => p = b - 1) /\ (k = L + 2 => p = b)
        <5> HIDE DEF a, b, L
        <5> QED
          BY <2>1, <3>2
      <4>2. k \notin 1 .. L
        <5> HIDE DEF k, a, b, L
        <5> QED
          BY <2>1, <2>4, <4>1
      <4>3. k # L + 1
        <5> HIDE DEF k, a, b, L
        <5> QED
          BY <1>1, <2>1, <2>4, <4>1
      <4>4. p = b
        <5> HIDE DEF k, a, b, L
        <5> QED
          BY <2>1, <4>1, <4>2, <4>3
      <4>5. n \in 1 .. n
        OBVIOUS
      <4> QED
        BY <4>4, <4>5, Zenon
    <3>3. p <= a \/ p > a
      <4> HIDE DEF a, b
      <4> QED
        BY <2>1
    <3> QED
      BY <3>1, <3>2, <3>3
  <2>5. n \in 0 .. N
    BY <1>1
  <2> QED
    BY <2>1, <2>3, <2>4, <2>5
<1> HIDE DEF K
<1>4. \A n \in 0 .. N : n \in K
  BY <1>1, <1>2, <1>3, SetInduction
<1>5. ASSUME NEW i \in 0 .. N, NEW j \in 0 .. N, i < j
      PROVE  e[i] < e[j]
  <2>1. i \in 0 .. j
    BY <1>5
  <2> QED
    BY <1>4, <1>5, <2>1 DEF K
<1>6. N \in K
  BY <1>1, <1>4
<1> QED
  BY <1>5, <1>6 DEF K

(* Three tokens of a text.                                                 *)
LEMMA ThreeAre ==
  ASSUME NEW T, NEW w \in Seq(T), NEW i \in 1 .. Len(w) - 3,
         NEW a \in T, NEW b \in T, NEW c \in T
  PROVE  SubSeq(w, i, i + 2) = <<a, b>> \o <<c>>
           <=> w[i] = a /\ w[i + 1] = b /\ w[i + 2] = c
<1> DEFINE ab == <<a, b>>
           cs == <<c>>
           abc == ab \o cs
           s == SubSeq(w, i, i + 2)
<1>1. /\ ab \in Seq(T) /\ Len(ab) = 2 /\ ab[1] = a /\ ab[2] = b
      /\ cs \in Seq(T) /\ Len(cs) = 1 /\ cs[1] = c
  BY One, Two, Zenon
<1> HIDE DEF ab, cs
<1>2. IsConcat(abc, ab, cs, T)
  BY <1>1, Concatenation
<1> HIDE DEF abc
<1>3. abc \in Seq(T) /\ Len(abc) = 3 /\ abc[1] = a /\ abc[2] = b /\ abc[3] = c
  BY <1>1, <1>2 DEF IsConcat
<1>4. /\ s \in Seq(T) /\ Len(s) = 3
      /\ s[1] = w[i] /\ s[2] = w[i + 1] /\ s[3] = w[i + 2]
  OBVIOUS
<1> HIDE DEF s
<1>5. s = abc <=> s[1] = abc[1] /\ s[2] = abc[2] /\ s[3] = abc[3]
  <2>1. ASSUME s[1] = abc[1], s[2] = abc[2], s[3] = abc[3] PROVE s = abc
    <3>1. \A k \in 1 .. Len(abc) : s[k] = abc[k]
      <4>1. \A k \in 1 .. Len(abc) : k = 1 \/ k = 2 \/ k = 3
        BY <1>3
      <4> QED
        BY <2>1, <4>1
    <3> QED
      BY <1>3, <1>4, <3>1, SameText
  <2> QED
    BY <2>1
<1>6. s = abc <=> w[i] = a /\ w[i + 1] = b /\ w[i + 2] = c
  BY <1>3, <1>4, <1>5
<1> QED
  BY <1>6, Zenon DEF s, abc, ab, cs

-----------------------------------------------------------------------------
(* The head of an answer. *)

(* The part of an answer that a client got.                                *)
Got(w, x, m) ==
  /\ Len(w) = m /\ m \in Nat /\ m <= Len(x)
  /\ \A i \in 1 .. m : w[i] = x[i]

(* Where the head of an answer may end.                                    *)
Ends(w, cr, lf) ==
  {i \in 1 .. Len(w) - 3 :
     /\ w[i + 3] = lf
     /\ SubSeq(w, i, i + 2) = <<cr, lf>> \o <<cr>>}

(* The head is there and ends with the line feed at n and an empty line.   *)
HeadEndsAt(w, m, n, cr, lf) ==
  /\ m < n + 2 => Ends(w, cr, lf) = {}
  /\ m >= n + 2 => Min(Ends(w, cr, lf)) = n - 1 /\ Ends(w, cr, lf) # {}

(* It ends after its last line and nowhere before.                         *)
LEMMA HeadEnds ==
  ASSUME NEW T, NEW x, NEW e, NEW lines, NEW rest, NEW cr \in T, NEW lf \in T,
         IsAnswer(x, e, lines, rest, cr, lf, T),
         NEW w \in Seq(T), NEW m, Got(w, x, m)
  PROVE  HeadEndsAt(w, m, e[Len(lines)], cr, lf)
<1> DEFINE N == Len(lines)
           b == e[N]
           En == Ends(w, cr, lf)
<1>1. N \in Nat /\ N \in 1 .. N /\ cr # lf
  <2>1. lines \in Seq(Seq(T)) /\ N # 0 /\ cr # lf
    BY Zenon DEF IsAnswer
  <2> QED
    BY <2>1
<1>2. b \in Nat /\ b >= 3 /\ x[b - 1] = cr /\ x[b] = lf
  <2>1. /\ Len(lines[N]) \in Nat \ {0} /\ e[N - 1] \in Nat /\ e[N] \in Nat
        /\ e[N] = (e[N - 1] + Len(lines[N])) + 2
        /\ x[b - 1] = cr /\ x[b] = lf
    BY <1>1, RowIs DEF LineAt
  <2> QED
    BY <2>1
<1>3. x[b + 1] = cr /\ x[b + 2] = lf
  BY Zenon DEF IsAnswer
<1>4. Len(w) = m /\ m \in Nat /\ \A i \in 1 .. m : w[i] = x[i]
  BY DEF Got
<1> HIDE DEF b, N
<1>5. ASSUME NEW i \in 1 .. m - 3
      PROVE  i \in En <=> /\ x[i] = cr /\ x[i + 1] = lf
                          /\ x[i + 2] = cr /\ x[i + 3] = lf
  <2>1. i \in 1 .. Len(w) - 3 /\ i \in 1 .. m /\ i + 1 \in 1 .. m
        /\ i + 2 \in 1 .. m /\ i + 3 \in 1 .. m
    BY <1>4
  <2>2. SubSeq(w, i, i + 2) = <<cr, lf>> \o <<cr>>
          <=> w[i] = cr /\ w[i + 1] = lf /\ w[i + 2] = cr
    BY <2>1, ThreeAre
  <2>3. w[i] = x[i] /\ w[i + 1] = x[i + 1] /\ w[i + 2] = x[i + 2]
        /\ w[i + 3] = x[i + 3]
    BY <1>4, <2>1
  <2> QED
    BY <2>1, <2>2, <2>3, Zenon DEF Ends
<1>6. En \subseteq 1 .. m - 3
  BY <1>4 DEF Ends
<1>7. ASSUME NEW i \in En PROVE i >= b - 1
  <2>1. i \in 1 .. m - 3
    BY <1>6
  <2>2. x[i] = cr /\ x[i + 1] = lf /\ x[i + 2] = cr /\ x[i + 3] = lf
    BY <1>5, <2>1
  <2>3. SUFFICES ASSUME i < b - 1 PROVE FALSE
    BY <1>2, <2>1
  <2>4. i + 1 \in 1 .. b /\ i + 1 # b
    BY <1>2, <2>1, <2>3
  <2>5. PICK j \in 1 .. N : i + 1 = e[j]
    BY <2>2, <2>4, LineFeeds DEF b, N
  <2>6. j # N
    BY <2>4, <2>5 DEF b
  <2>7. j + 1 \in 1 .. N /\ (j + 1) - 1 = j
    BY <1>1, <2>6
  <2>8. /\ Len(lines[j + 1]) \in Nat \ {0} /\ lines[j + 1][1] # cr
        /\ \A k \in 1 .. Len(lines[j + 1]) :
             x[e[j] + k] = lines[j + 1][k]
    <3> DEFINE i1 == j + 1
    <3>1. i1 \in 1 .. Len(lines) /\ i1 - 1 = j
      BY <2>7 DEF N
    <3> HIDE DEF i1
    <3>2. LineAt(x, e, lines, i1, cr, lf, T)
      BY <3>1, RowIs
    <3>3. /\ Len(lines[i1]) \in Nat \ {0} /\ lines[i1][1] # cr
          /\ \A k \in 1 .. Len(lines[i1]) :
               x[e[i1 - 1] + k] = lines[i1][k]
      BY <3>2, Zenon DEF LineAt
    <3> QED
      BY <3>1, <3>3, Zenon DEF i1
  <2>9. x[e[j] + 1] # cr
    BY <2>8
  <2>10. e[j] + 1 = i + 2
    BY <2>1, <2>5
  <2> QED
    BY <2>2, <2>9, <2>10
<1> HIDE DEF En
<1>8. ASSUME m < b + 2 PROVE En = {}
  <2>1. ASSUME NEW i \in En PROVE FALSE
    <3>1. i \in 1 .. m - 3 /\ i >= b - 1
      BY <1>6, <1>7
    <3> QED
      BY <1>2, <1>4, <1>8, <3>1
  <2> QED
    BY <2>1
<1>9. ASSUME m >= b + 2 PROVE Min(En) = b - 1 /\ En # {}
  <2>1. /\ b - 1 \in 1 .. m - 3 /\ (b - 1) + 1 = b
        /\ (b - 1) + 2 = b + 1 /\ (b - 1) + 3 = b + 2
    BY <1>2, <1>4, <1>9
  <2>2. b - 1 \in En
    BY <1>2, <1>3, <1>5, <2>1
  <2>3. En \in SUBSET Int /\ \A i \in En : b - 1 <= i
    <3>1. ASSUME NEW i \in En PROVE i \in Int /\ b - 1 <= i
      <4>1. i \in 1 .. m - 3 /\ i >= b - 1
        BY <1>6, <1>7
      <4> QED
        BY <1>2, <4>1
    <3> QED
      BY <3>1
  <2> QED
    BY <2>2, <2>3, MinIs
<1> QED
  BY <1>8, <1>9, Zenon DEF b, N, En, HeadEndsAt

(* The whole head of an answer and maybe more of it.                       *)
HasHead(w, m, x, e, lines, rest, cr, lf, T) ==
  /\ IsAnswer(x, e, lines, rest, cr, lf, T) /\ cr \in T /\ lf \in T
  /\ w \in Seq(T) /\ Got(w, x, m) /\ m >= e[Len(lines)] + 2

(* The line feeds in it.                                                   *)
Feeds(w, n, lf) == {i \in 1 .. n : w[i] = lf}

(* They end the lines, and the next one ends the next line.                *)
FeedsEnd(head, e, lines) ==
  /\ head = {e[j] : j \in 1 .. Len(lines)}
  /\ Max(head) = e[Len(lines)]
  /\ \A j \in 1 .. Len(lines) - 1 :
       Min({i \in head : i > e[j]}) = e[j + 1]

(* So it is in each head.                                                  *)
LEMMA HeadFeeds ==
  ASSUME NEW T, NEW x, NEW e, NEW lines, NEW rest, NEW cr, NEW lf,
         NEW w, NEW m, HasHead(w, m, x, e, lines, rest, cr, lf, T)
  PROVE  FeedsEnd(Feeds(w, e[Len(lines)], lf), e, lines)
<1> DEFINE N == Len(lines)
           b == e[N]
           head == Feeds(w, e[Len(lines)], lf)
<1>0. /\ IsAnswer(x, e, lines, rest, cr, lf, T) /\ cr \in T /\ lf \in T
      /\ w \in Seq(T) /\ Got(w, x, m) /\ m >= e[Len(lines)] + 2
  BY Zenon DEF HasHead
<1>1. N \in Nat /\ N \in 1 .. N
  <2>1. lines \in Seq(Seq(T)) /\ N # 0
    BY <1>0, Zenon DEF IsAnswer
  <2> QED
    BY <2>1
<1>2. ASSUME NEW j \in 1 .. N PROVE e[j] \in Nat /\ e[j] >= 1 /\ x[e[j]] = lf
  <2>1. e[j] \in 1 .. Len(x) /\ Len(x) \in Nat /\ x[e[j]] = lf
    BY <1>0, RowIs DEF LineAt
  <2> QED
    BY <2>1
<1>3. /\ \A i, j \in 0 .. N : i < j => e[i] < e[j]
      /\ \A p \in 1 .. b : x[p] = lf => \E j \in 1 .. N : p = e[j]
  BY <1>0, LineFeeds
<1>4. m \in Nat /\ \A i \in 1 .. m : w[i] = x[i]
  BY <1>0 DEF Got
<1> HIDE DEF N
<1>5. b \in Nat /\ b <= m
  BY <1>0, <1>1, <1>2, <1>4 DEF N
<1>6. ASSUME NEW j \in 1 .. N PROVE e[j] <= b
  <2>1. CASE j = N
    BY <1>5, <2>1
  <2>2. CASE j # N
    <3>1. j \in 0 .. N /\ N \in 0 .. N /\ j < N
      BY <1>1, <2>2
    <3>2. e[j] < b
      BY <1>3, <3>1
    <3> QED
      BY <1>2, <1>5, <3>2
  <2> QED
    BY <2>1, <2>2
<1> HIDE DEF b, head
<1>7. \A p \in 1 .. b : w[p] = x[p]
  BY <1>4, <1>5
<1>8. ASSUME NEW i PROVE i \in head <=> \E j \in 1 .. N : i = e[j]
  <2>1. ASSUME i \in head PROVE \E j \in 1 .. N : i = e[j]
    <3>1. i \in 1 .. b /\ w[i] = lf
      BY <2>1 DEF b, N, head, Feeds
    <3> QED
      BY <1>3, <1>7, <3>1
  <2>2. ASSUME NEW j \in 1 .. N, i = e[j] PROVE i \in head
    <3>1. i \in 1 .. b /\ x[i] = lf
      BY <1>2, <1>5, <1>6, <2>2
    <3> QED
      BY <1>7, <3>1 DEF b, N, head, Feeds
  <2> QED
    BY <2>1, <2>2
<1>9. head = {e[j] : j \in 1 .. N}
  BY <1>8
<1>10. head \in SUBSET Int /\ \A i \in head : i <= b
  BY <1>2, <1>6, <1>8
<1>11. Max(head) = b
  <2>1. b \in head
    BY <1>1, <1>8 DEF b
  <2> QED
    BY <1>10, <2>1, MaxIs
<1>12. ASSUME NEW j \in 1 .. N - 1
       PROVE  Min({i \in head : i > e[j]}) = e[j + 1]
  <2> DEFINE S == {i \in head : i > e[j]}
  <2>1. j \in 0 .. N /\ j + 1 \in 0 .. N /\ j < j + 1 /\ j + 1 \in 1 .. N
        /\ j \in 1 .. N
    BY <1>1
  <2>2. e[j + 1] \in S
    <3>1. e[j + 1] > e[j]
      BY <1>2, <1>3, <2>1
    <3>2. e[j + 1] \in head
      BY <1>8, <2>1
    <3> QED
      BY <3>1, <3>2
  <2>3. ASSUME NEW i \in S PROVE e[j + 1] <= i
    <3>1. PICK k \in 1 .. N : i = e[k]
      BY <1>8
    <3>2. e[k] > e[j]
      BY <3>1
    <3>3. k > j
      <4>1. ASSUME k < j PROVE FALSE
        <5>1. k \in 0 .. N
          OBVIOUS
        <5>2. e[k] < e[j]
          BY <1>3, <2>1, <4>1, <5>1
        <5> QED
          BY <1>2, <2>1, <3>2, <5>2
      <4>2. k # j
        BY <1>2, <3>2
      <4> QED
        BY <1>1, <4>1, <4>2
    <3>4. CASE k = j + 1
      BY <1>2, <3>1, <3>4
    <3>5. CASE k # j + 1
      <4>1. k \in 0 .. N /\ j + 1 < k
        BY <1>1, <3>3, <3>5
      <4>2. e[j + 1] < e[k]
        BY <1>3, <2>1, <4>1
      <4> QED
        BY <1>2, <2>1, <3>1, <4>2
    <3> QED
      BY <3>4, <3>5
  <2>4. S \in SUBSET Int
    BY <1>10
  <2> HIDE DEF S
  <2>5. Min(S) = e[j + 1]
    BY <2>2, <2>3, <2>4, MinIs
  <2> QED
    BY <2>5 DEF S
<1> QED
  BY <1>9, <1>11, <1>12, Zenon DEF N, b, head, FeedsEnd

-----------------------------------------------------------------------------
(* The header fields of an answer. *)

(* A header line with its name and value.                                  *)
IsField(l, name, value, T) ==
  /\ value \in Seq(T) /\ Len(l) = 3 + Len(value) /\ l[1] = name
  /\ \A k \in 1 .. Len(value) : l[3 + k] = value[k]

(* What ReadAnswer takes for the header field after a line feed.           *)
FieldAt(w, head, i) ==
  [name |-> w[i + 1],
   value |-> SubSeq(w, i + 4, Min({j \in head : j > i}) - 2)]

(* The k-th token of a value of L tokens in the line that begins after a.  *)
LEMMA PlaceInField ==
  ASSUME NEW a \in Nat, NEW L \in Nat, NEW m \in Nat, NEW b,
         b = (a + (3 + L)) + 2, b <= m, NEW k \in 1 .. L
  PROVE  /\ (a + 4) + (k - 1) = a + (3 + k) /\ a + (3 + k) \in 1 .. m
         /\ 3 + k \in 1 .. 3 + L
  OBVIOUS

(* It is the one on the next line.                                         *)
LEMMA FieldIs ==
  ASSUME NEW T, NEW x, NEW e, NEW lines, NEW rest, NEW cr, NEW lf,
         NEW w, NEW m, HasHead(w, m, x, e, lines, rest, cr, lf, T),
         NEW i \in 2 .. Len(lines), NEW name, NEW value,
         IsField(lines[i], name, value, T)
  PROVE  FieldAt(w, Feeds(w, e[Len(lines)], lf), e[i - 1])
           = [name |-> name, value |-> value]
<1> DEFINE N == Len(lines)
           a == e[i - 1]
           b == e[i]
           c == e[N]
           L == Len(value)
           head == Feeds(w, e[Len(lines)], lf)
<1>0. /\ IsAnswer(x, e, lines, rest, cr, lf, T) /\ cr \in T /\ lf \in T
      /\ w \in Seq(T) /\ Got(w, x, m) /\ m >= e[Len(lines)] + 2
  BY Zenon DEF HasHead
<1>1. N \in Nat /\ i \in 1 .. N /\ i - 1 \in 1 .. N - 1 /\ (i - 1) + 1 = i
      /\ N \in 1 .. N
  <2>1. lines \in Seq(Seq(T))
    BY <1>0, Zenon DEF IsAnswer
  <2>2. N \in Nat
    BY <2>1
  <2> HIDE DEF N
  <2> QED
    BY <2>2 DEF N
<1>2. LineAt(x, e, lines, i, cr, lf, T)
  BY <1>0, <1>1, RowIs
<1>3. /\ value \in Seq(T) /\ Len(lines[i]) = 3 + L /\ lines[i][1] = name
      /\ \A k \in 1 .. L : lines[i][3 + k] = value[k]
  BY Zenon DEF IsField
<1>4. Min({j \in head : j > a}) = b
  <2> DEFINE j == i - 1
  <2>1. j \in 1 .. N - 1 /\ j + 1 = i
    BY <1>1
  <2> HIDE DEF j
  <2>2. \A k \in 1 .. Len(lines) - 1 :
          Min({p \in head : p > e[k]}) = e[k + 1]
    <3>1. FeedsEnd(Feeds(w, e[Len(lines)], lf), e, lines)
      BY HeadFeeds
    <3> QED
      BY <3>1, Zenon DEF FeedsEnd
  <2> QED
    BY <2>1, <2>2 DEF j
<1>5. /\ a \in Nat /\ b \in Nat /\ b = (a + (3 + L)) + 2
      /\ \A k \in 1 .. 3 + L : x[a + k] = lines[i][k]
  BY <1>2, <1>3, Zenon DEF LineAt
<1>6. L \in Nat
  BY <1>3
<1>7. m \in Nat /\ Len(w) = m /\ \A k \in 1 .. m : w[k] = x[k]
  BY <1>0 DEF Got
<1>8. b <= m
  <2>1. c \in Nat
    BY <1>0, <1>1, RowIs DEF LineAt
  <2>2. b <= c
    <3>1. CASE i = N
      BY <2>1, <3>1
    <3>2. CASE i # N
      <4>1. i \in 0 .. N /\ N \in 0 .. N /\ i < N
        BY <1>1, <3>2
      <4>2. b < c
        BY <1>0, <4>1, LineFeeds
      <4> QED
        BY <1>5, <2>1, <4>2
    <3> QED
      BY <3>1, <3>2
  <2>3. c + 2 <= m
    BY <1>0, <2>1, <1>7
  <2> HIDE DEF b, c
  <2> QED
    BY <1>5, <1>7, <2>1, <2>2, <2>3
<1> HIDE DEF a, b, c, L, N, head
<1>9. w[a + 1] = name
  <2>1. a + 1 \in 1 .. m /\ 1 \in 1 .. 3 + L
    BY <1>5, <1>6, <1>7, <1>8
  <2> QED
    BY <1>3, <1>5, <1>7, <2>1
<1>10. SubSeq(w, a + 4, b - 2) = value
  <2> DEFINE s == SubSeq(w, a + 4, b - 2)
  <2>1. b - 2 = a + (3 + L) /\ a + 4 >= 1 /\ b - 2 <= Len(w)
    BY <1>5, <1>6, <1>7, <1>8
  <2>2. /\ s \in Seq(T) /\ Len(s) = L
        /\ \A k \in 1 .. L : s[k] = w[(a + 4) + (k - 1)]
    BY <1>0, <1>5, <1>6, <2>1
  <2> HIDE DEF s
  <2>3. ASSUME NEW k \in 1 .. L PROVE s[k] = value[k]
    <3>1. /\ (a + 4) + (k - 1) = a + (3 + k) /\ a + (3 + k) \in 1 .. m
          /\ 3 + k \in 1 .. 3 + L
      <4>1. a \in Nat /\ b = (a + (3 + L)) + 2
        BY <1>5, Zenon
      <4>2. m \in Nat
        BY <1>7, Zenon
      <4> QED
        BY <1>6, <1>8, <4>1, <4>2, PlaceInField
    <3>2. s[k] = w[a + (3 + k)]
      BY <2>2, <3>1, Zenon
    <3>3. w[a + (3 + k)] = x[a + (3 + k)]
      BY <1>7, <3>1, Zenon
    <3>4. x[a + (3 + k)] = lines[i][3 + k]
      BY <1>5, <3>1, Zenon
    <3>5. lines[i][3 + k] = value[k]
      BY <1>3, Zenon
    <3> QED
      BY <3>2, <3>3, <3>4, <3>5, Zenon
  <2>4. s = value
    BY <1>3, <1>6, <2>2, <2>3, SameText DEF L
  <2> QED
    BY <2>4 DEF s
<1> QED
  BY <1>4, <1>9, <1>10, Zenon DEF FieldAt, a, head

(* The fields that ReadAnswer takes, and some names with their values.     *)
FieldsRead(w, n, lf) ==
  {FieldAt(w, Feeds(w, n, lf), i) :
     i \in Feeds(w, n, lf) \ {Max(Feeds(w, n, lf))}}
FieldsFrom(names, values, n) ==
  {[name |-> names[i], value |-> values[i]] : i \in 2 .. n}

(* All header fields are read, and nothing else.                           *)
LEMMA AllFields ==
  ASSUME NEW T, NEW x, NEW e, NEW lines, NEW rest, NEW cr, NEW lf,
         NEW w, NEW m, HasHead(w, m, x, e, lines, rest, cr, lf, T),
         NEW names, NEW values,
         \A i \in 2 .. Len(lines) : IsField(lines[i], names[i], values[i], T)
  PROVE  FieldsRead(w, e[Len(lines)], lf)
           = FieldsFrom(names, values, Len(lines))
<1> DEFINE N == Len(lines)
           head == Feeds(w, e[Len(lines)], lf)
           F(i) == FieldAt(w, head, i)
           G(i) == [name |-> names[i], value |-> values[i]]
<1>0. /\ IsAnswer(x, e, lines, rest, cr, lf, T) /\ cr \in T /\ lf \in T
      /\ w \in Seq(T) /\ Got(w, x, m) /\ m >= e[Len(lines)] + 2
  BY Zenon DEF HasHead
<1>1. N \in Nat
  <2>1. lines \in Seq(Seq(T))
    BY <1>0, Zenon DEF IsAnswer
  <2> QED
    BY <2>1
<1>2. head = {e[j] : j \in 1 .. N} /\ Max(head) = e[N]
  <2>1. FeedsEnd(Feeds(w, e[Len(lines)], lf), e, lines)
    BY HeadFeeds
  <2> QED
    BY <2>1, Zenon DEF FeedsEnd
<1>3. ASSUME NEW i \in 2 .. N PROVE F(e[i - 1]) = G(i)
  <2>1. IsField(lines[i], names[i], values[i], T)
    OBVIOUS
  <2>2. FieldAt(w, Feeds(w, e[Len(lines)], lf), e[i - 1])
          = [name |-> names[i], value |-> values[i]]
    BY <2>1, FieldIs
  <2> QED
    BY <2>2, Zenon
<1>4. \A i, j \in 0 .. N : i < j => e[i] < e[j]
  BY <1>0, LineFeeds
<1>5. ASSUME NEW j \in 1 .. N PROVE e[j] \in Nat
  BY <1>0, RowIs DEF LineAt
<1> HIDE DEF F, G, N, head
<1>6. ASSUME NEW p \in head \ {Max(head)}
      PROVE  \E i \in 2 .. N : F(p) = G(i)
  <2>1. PICK j \in 1 .. N : p = e[j]
    BY <1>2
  <2>2. j # N
    BY <1>2, <2>1
  <2> DEFINE i == j + 1
  <2>3. i \in 2 .. N /\ i - 1 = j
    BY <1>1, <2>2
  <2> HIDE DEF i
  <2>4. F(e[i - 1]) = G(i)
    BY <1>3, <2>3
  <2>5. F(p) = G(i)
    BY <2>1, <2>3, <2>4
  <2> QED
    BY <2>3, <2>5
<1>7. ASSUME NEW i \in 2 .. N
      PROVE  \E p \in head \ {Max(head)} : F(p) = G(i)
  <2>1. /\ i - 1 \in 1 .. N /\ i - 1 \in 0 .. N /\ N \in 0 .. N /\ i - 1 < N
        /\ N \in 1 .. N
    BY <1>1
  <2>2. e[i - 1] < e[N] /\ e[i - 1] \in Nat /\ e[N] \in Nat
    BY <1>4, <1>5, <2>1
  <2>3. e[i - 1] \in head \ {Max(head)}
    BY <1>2, <2>1, <2>2
  <2> QED
    BY <1>3, <2>3
<1>8. {F(p) : p \in head \ {Max(head)}} = {G(i) : i \in 2 .. N}
  BY <1>6, <1>7, Zenon
<1> QED
  BY <1>8, Zenon DEF F, G, N, head, FieldsRead, FieldsFrom

(* What is after the head.                                                 *)
LEMMA RestIs ==
  ASSUME NEW T, NEW x, NEW e, NEW lines, NEW rest, NEW cr, NEW lf,
         NEW w, NEW m, HasHead(w, m, x, e, lines, rest, cr, lf, T)
  PROVE  /\ Len(From(w, (e[Len(lines)] - 1) + 4)) \in Nat
         /\ Len(From(w, (e[Len(lines)] - 1) + 4)) = Len(rest) <=> m = Len(x)
         /\ m = Len(x) => From(w, (e[Len(lines)] - 1) + 4) = rest
<1> DEFINE N == Len(lines)
           c == e[N]
           s == From(w, (c - 1) + 4)
           L == Len(rest)
<1>0. /\ IsAnswer(x, e, lines, rest, cr, lf, T) /\ cr \in T /\ lf \in T
      /\ w \in Seq(T) /\ Got(w, x, m) /\ m >= e[Len(lines)] + 2
  BY Zenon DEF HasHead
<1>1. N \in 1 .. N
  <2>1. lines \in Seq(Seq(T)) /\ N # 0
    BY <1>0, Zenon DEF IsAnswer
  <2> QED
    BY <2>1
<1>2. c \in Nat
  BY <1>0, <1>1, RowIs DEF LineAt
<1>3. /\ rest \in Seq(T) /\ Len(x) = (c + 2) + L
      /\ \A k \in 1 .. L : x[(c + 2) + k] = rest[k]
  BY <1>0, Zenon DEF IsAnswer
<1>4. L \in Nat
  BY <1>3
<1>5. /\ Len(w) = m /\ m \in Nat /\ m <= Len(x) /\ m >= c + 2
      /\ \A i \in 1 .. m : w[i] = x[i]
  BY <1>0 DEF Got
<1> HIDE DEF N, c, L
<1>6. /\ s \in Seq(T) /\ Len(s) = m - (c + 2)
      /\ \A k \in 1 .. Len(s) : s[k] = w[((c - 1) + 4) + (k - 1)]
  <2> DEFINE p == (c - 1) + 4
             u == SubSeq(w, p, m)
  <2>1. p \in Nat /\ p >= 1 /\ p <= m + 1 /\ p = c + 3
    BY <1>2, <1>5
  <2>2. s = u
    BY <1>5, Zenon DEF From
  <2> HIDE DEF s, p
  <2>3. u \in Seq(T) /\ Len(u) = (m - p) + 1
        /\ \A k \in 1 .. Len(u) : u[k] = w[p + (k - 1)]
    BY <1>0, <1>5, <2>1, SMTT(30)
  <2>4. (m - p) + 1 = m - (c + 2)
    BY <1>2, <1>5, <2>1
  <2> HIDE DEF u
  <2> QED
    BY <2>2, <2>3, <2>4, Zenon DEF p
<1> HIDE DEF s
<1>7. Len(s) \in Nat /\ (Len(s) = L <=> m = Len(x))
  <2> DEFINE S == Len(s)
             X == Len(x)
  <2>1. /\ S = m - (c + 2) /\ X = (c + 2) + L /\ m >= c + 2
        /\ m \in Nat /\ c \in Nat /\ L \in Nat
    BY <1>2, <1>3, <1>4, <1>5, <1>6
  <2> HIDE DEF S, X
  <2>2. S \in Nat /\ (S = L <=> m = X)
    BY <2>1
  <2> QED
    BY <2>2 DEF S, X
<1>8. ASSUME m = Len(x) PROVE s = rest
  <2>1. Len(s) = L
    BY <1>7, <1>8
  <2>2. ASSUME NEW k \in 1 .. L PROVE s[k] = rest[k]
    <3>1. ((c - 1) + 4) + (k - 1) = (c + 2) + k /\ (c + 2) + k \in 1 .. m
      BY <1>2, <1>3, <1>4, <1>8
    <3> QED
      BY <1>3, <1>5, <1>6, <2>1, <3>1
  <2> QED
    BY <1>3, <1>6, <2>1, <2>2, SameText DEF L
<1> QED
  BY <1>7, <1>8, Zenon DEF s, c, N, L

(* What ReadAnswer does, in these terms.                                   *)
LEMMA ReadAnswerIs ==
  ASSUME NEW w
  PROVE  LET ends == Ends(w, "\r", "\n")
             head == Feeds(w, Min(ends) + 1, "\n")
             fields == {FieldAt(w, head, i) : i \in head \ {Max(head)}}
             rest == From(w, Min(ends) + 4)
         IN  ReadAnswer(w)
               = IF \/ ends = {}
                    \/ [name |-> "Content-Length",
                        value |-> Decimal[Len(rest)]] \notin fields
                 THEN Incomplete
                 ELSE [status |-> w[3], fields |-> fields, body |-> rest]
  BY Zenon DEF ReadAnswer, Ends, FieldAt, CRLF, Feeds

(* Each line from the second on holds its field, and the length is in the  *)
(* last one only.                                                          *)
HoldFields(lines, names, values, length, T) ==
  /\ Len(lines) >= 2
  /\ \A i \in 2 .. Len(lines) : IsField(lines[i], names[i], values[i], T)
  /\ values[Len(lines)] = length
  /\ \A i \in 2 .. Len(lines) : names[i] = "Content-Length" <=> i = Len(lines)

(* A part of m tokens is read if it is the whole x.                        *)
IsReadAs(w, m, x, names, values, n, rest) ==
  ReadAnswer(w) = IF m # Len(x) THEN Incomplete
                  ELSE [status |-> w[3],
                        fields |-> FieldsFrom(names, values, n),
                        body |-> rest]

(* A client takes the header fields and the rest from a whole answer, and  *)
(* nothing from a part of one, if the length of the rest is in the last    *)
(* field and in no other.                                                  *)
LEMMA AnswerRead ==
  ASSUME NEW T, NEW x, NEW e, NEW lines, NEW rest,
         IsAnswer(x, e, lines, rest, "\r", "\n", T),
         "\r" \in T, "\n" \in T,
         NEW w \in Seq(T), NEW m, Got(w, x, m),
         NEW names, NEW values,
         HoldFields(lines, names, values, Decimal[Len(rest)], T)
  PROVE  IsReadAs(w, m, x, names, values, Len(lines), rest)
<1> DEFINE N == Len(lines)
           c == e[N]
           ends == Ends(w, "\r", "\n")
           head == Feeds(w, Min(ends) + 1, "\n")
           fields == {FieldAt(w, head, i) : i \in head \ {Max(head)}}
           s == From(w, Min(ends) + 4)
           all == FieldsFrom(names, values, N)
           length == [name |-> "Content-Length", value |-> Decimal[Len(s)]]
<1>0. /\ Len(lines) >= 2 /\ values[Len(lines)] = Decimal[Len(rest)]
      /\ \A i \in 2 .. Len(lines) : IsField(lines[i], names[i], values[i], T)
      /\ \A i \in 2 .. Len(lines) :
           names[i] = "Content-Length" <=> i = Len(lines)
  BY Zenon DEF HoldFields
<1>1. ReadAnswer(w) = IF ends = {} \/ length \notin fields
                      THEN Incomplete
                      ELSE [status |-> w[3], fields |-> fields, body |-> s]
  BY ReadAnswerIs, Zenon
<1>2. N \in 1 .. N /\ N \in 2 .. N /\ N \in Nat
  <2>1. lines \in Seq(Seq(T))
    BY Zenon DEF IsAnswer
  <2> QED
    BY <1>0, <2>1
<1>3. c \in Nat
  BY <1>2, RowIs DEF LineAt
<1>4. m \in Nat /\ rest \in Seq(T) /\ Len(rest) \in Nat
      /\ Len(x) = (c + 2) + Len(rest)
  <2>1. rest \in Seq(T) /\ Len(x) = (c + 2) + Len(rest)
    BY Zenon DEF IsAnswer
  <2> QED
    BY <2>1 DEF Got
<1>5. CASE m < c + 2
  <2>1. ends = {}
    <3>1. HeadEndsAt(w, m, e[Len(lines)], "\r", "\n")
      BY HeadEnds
    <3> QED
      BY <1>5, <3>1, Zenon DEF HeadEndsAt
  <2>2. m # Len(x)
    BY <1>3, <1>4, <1>5
  <2> QED
    BY <1>1, <2>1, <2>2, Zenon DEF IsReadAs
<1>6. CASE m >= c + 2
  <2>1. Min(ends) = c - 1 /\ ends # {}
    <3>1. HeadEndsAt(w, m, e[Len(lines)], "\r", "\n")
      BY HeadEnds
    <3> QED
      BY <1>6, <3>1, Zenon DEF HeadEndsAt
  <2>2. HasHead(w, m, x, e, lines, rest, "\r", "\n", T)
    BY <1>6, Zenon DEF HasHead
  <2>3. head = Feeds(w, c, "\n") /\ s = From(w, (c - 1) + 4)
    <3>1. Min(ends) + 1 = c
      BY <1>3, <2>1
    <3> QED
      BY <2>1, <3>1, Zenon
  <2>4. fields = all
    <3>1. \A i \in 2 .. Len(lines) : IsField(lines[i], names[i], values[i], T)
      BY <1>0
    <3>2. FieldsRead(w, e[Len(lines)], "\n")
            = FieldsFrom(names, values, Len(lines))
      BY <2>2, <3>1, AllFields
    <3> QED
      BY <2>3, <3>2, Zenon DEF FieldsRead, FieldsFrom
  <2>5. /\ Len(s) \in Nat /\ (Len(s) = Len(rest) <=> m = Len(x))
        /\ (m = Len(x) => s = rest)
    <3> DEFINE r == From(w, (e[Len(lines)] - 1) + 4)
    <3>1. /\ Len(r) \in Nat /\ (Len(r) = Len(rest) <=> m = Len(x))
          /\ (m = Len(x) => r = rest)
      BY <2>2, RestIs
    <3> QED
      BY <2>3, <3>1, Zenon
  <2> HIDE DEF ends, head, fields, s
  <2>6. length \in all <=> Decimal[Len(s)] = Decimal[Len(rest)]
    <3>1. ASSUME length \in all PROVE Decimal[Len(s)] = Decimal[Len(rest)]
      <4>1. PICK i \in 2 .. N :
              length = [name |-> names[i], value |-> values[i]]
        BY <3>1 DEF FieldsFrom
      <4>2. names[i] = "Content-Length" /\ values[i] = Decimal[Len(s)]
        BY <1>0, <4>1
      <4> QED
        BY <1>0, <4>2, Zenon
    <3>2. ASSUME Decimal[Len(s)] = Decimal[Len(rest)] PROVE length \in all
      <4>1. names[N] = "Content-Length" /\ values[N] = Decimal[Len(s)]
        BY <1>0, <1>2, <3>2
      <4> QED
        BY <1>2, <4>1 DEF FieldsFrom
    <3> QED
      BY <3>1, <3>2
  <2>7. length \in all <=> m = Len(x)
    BY <1>4, <2>5, <2>6, DecimalDiffers
  <2> HIDE DEF length
  <2> QED
    BY <1>1, <2>1, <2>4, <2>5, <2>7, Zenon DEF IsReadAs
<1> QED
  BY <1>3, <1>4, <1>5, <1>6

-----------------------------------------------------------------------------
(* An answer as to_string writes it. *)

(* A line of the head: it does not begin like the empty line, and it ends  *)
(* where its line feed is.                                                 *)
HeadLine(l, cr, lf) ==
  Len(l) # 0 /\ l[1] # cr /\ \A k \in 1 .. Len(l) : l[k] # lf

(* The lines of a head: the first, those of a map and the last.            *)
HeadLines(first, middle, last) ==
  [i \in 1 .. Len(middle) + 2 |->
     IF i = 1 THEN first
     ELSE IF i = Len(middle) + 2 THEN last ELSE middle[i - 1]]

(* A head and an answer as to_string puts them together.                   *)
HeadText(first, middle, last, cr, lf) ==
  ((first \o <<cr, lf>>)
     \o FlattenSeq([i \in DOMAIN middle |-> middle[i] \o <<cr, lf>>]))
    \o (last \o <<cr, lf>>)
Assembled(first, middle, last, rest, cr, lf) ==
  (HeadText(first, middle, last, cr, lf) \o <<cr, lf>>) \o rest

(* What is in each number of lines of it.                                  *)
LEMMA HeadGrows ==
  ASSUME NEW T, NEW first \in Seq(T), NEW middle \in Seq(Seq(T)),
         NEW last \in Seq(T), NEW cr \in T, NEW lf \in T
  PROVE  \E t : /\ Grows(t, HeadLines(first, middle, last), cr, lf, T)
                /\ t[Len(middle) + 2] = HeadText(first, middle, last, cr, lf)
<1> DEFINE crlf == <<cr, lf>>
           n == Len(middle)
           c1 == first \o crlf
           cn == last \o crlf
           cs == [i \in DOMAIN middle |-> middle[i] \o crlf]
           F == FlattenSeq(cs)
           all == (c1 \o F) \o cn
           lines == HeadLines(first, middle, last)
<1>1. /\ n \in Nat /\ DOMAIN middle = 1 .. n
      /\ \A i \in 1 .. n : middle[i] \in Seq(T)
  OBVIOUS
<1>2. crlf \in Seq(T)
  BY Two, Zenon
<1> HIDE DEF crlf, n
<1>3. /\ c1 \in Seq(T) /\ cn \in Seq(T)
      /\ \A i \in 1 .. n : middle[i] \o crlf \in Seq(T)
  BY <1>1, <1>2
<1>4. /\ cs \in Seq(Seq(T)) /\ Len(cs) = n
      /\ \A i \in 1 .. n : cs[i] = middle[i] \o crlf
  BY <1>1, <1>3
<1> HIDE DEF cs
<1>5. F \in Seq(T)
  BY <1>4, FlattenTypes
<1>6. \E h : /\ n # 0 => F = h[n] /\ h[1] = cs[1]
             /\ n = 0 => F = <<>>
             /\ \A i \in 1 .. n : h[i] \in Seq(T) /\ cs[i] \in Seq(T)
             /\ \A i \in 2 .. n : h[i] = h[i - 1] \o cs[i]
  <2>1. CASE n = 0
    <3>1. cs = <<>> /\ F = cs
      BY <1>4, <2>1 DEF FlattenSeq
    <3>2. \A i : i \notin 1 .. n /\ i \notin 2 .. n
      BY <2>1
    <3> QED
      BY <2>1, <3>1, <3>2, Zenon
  <2>2. CASE n # 0
    <3>1. PICK h : AreJoined(h, cs, T)
      BY <1>4, <2>2, FlattenSteps
    <3>2. \A i \in 1 .. n : cs[i] \in Seq(T)
      BY <1>4
    <3> QED
      BY <1>4, <2>2, <3>1, <3>2, Zenon DEF AreJoined
  <2> QED
    BY <2>1, <2>2
<1>7. PICK h : /\ n # 0 => F = h[n] /\ h[1] = cs[1]
               /\ n = 0 => F = <<>>
               /\ \A i \in 1 .. n : h[i] \in Seq(T) /\ cs[i] \in Seq(T)
               /\ \A i \in 2 .. n : h[i] = h[i - 1] \o cs[i]
  BY <1>6, Zenon
<1> HIDE DEF F, c1, cn
<1> DEFINE t == [i \in 1 .. n + 2 |->
                   IF i = 1 THEN c1
                   ELSE IF i = n + 2 THEN all ELSE c1 \o h[i - 1]]
<1>8. /\ t[1] = c1 /\ t[n + 2] = all
      /\ \A i \in 2 .. n + 1 : t[i] = c1 \o h[i - 1]
  BY <1>1, SMTT(30)
<1>9. /\ lines \in Seq(Seq(T)) /\ Len(lines) = n + 2
      /\ lines[1] = first /\ lines[n + 2] = last
      /\ \A i \in 2 .. n + 1 : lines[i] = middle[i - 1]
  BY <1>1 DEF HeadLines, n
<1> HIDE DEF t, lines, all
<1>10. ASSUME NEW i \in 2 .. n + 2
       PROVE  t[i] = t[i - 1] \o (lines[i] \o crlf)
  <2>1. CASE i = n + 2
    <3>1. t[n + 1] = c1 \o F
      <4>1. CASE n = 0
        <5>1. c1 \o F = c1 /\ n + 1 = 1
          BY <1>3, <1>7, <4>1
        <5> QED
          BY <1>8, <5>1
      <4>2. CASE n # 0
        <5>1. n + 1 \in 2 .. n + 1 /\ (n + 1) - 1 = n
          BY <1>1, <4>2
        <5> QED
          BY <1>7, <1>8, <4>2, <5>1
      <4> QED
        BY <4>1, <4>2
    <3>2. i - 1 = n + 1
      BY <1>1, <2>1
    <3> QED
      BY <1>8, <1>9, <2>1, <3>1, <3>2, Zenon DEF all, cn
  <2>2. CASE i = 2 /\ i # n + 2
    <3>1. n # 0 /\ i \in 2 .. n + 1 /\ i - 1 = 1 /\ 1 \in 1 .. n
      BY <1>1, <2>2
    <3>2. t[i] = c1 \o cs[1] /\ cs[1] = middle[1] \o crlf
          /\ lines[i] = middle[1]
      <4>1. h[1] = cs[1] /\ cs[1] = middle[1] \o crlf
        BY <1>4, <1>7, <3>1, Zenon
      <4>2. t[i] = c1 \o h[i - 1] /\ lines[i] = middle[i - 1]
        BY <1>8, <1>9, <3>1, Zenon
      <4> QED
        BY <3>1, <4>1, <4>2, Zenon
    <3> QED
      BY <1>8, <3>1, <3>2, Zenon
  <2>3. CASE i # 2 /\ i # n + 2
    <3> DEFINE j == i - 1
    <3>1. /\ i \in 2 .. n + 1 /\ j \in 2 .. n /\ j - 1 \in 1 .. n
          /\ j \in 1 .. n /\ j \in 2 .. n + 1
      BY <1>1, <2>3
    <3> HIDE DEF j
    <3>2. /\ t[i] = c1 \o h[j] /\ t[j] = c1 \o h[j - 1]
          /\ lines[i] = middle[j]
      BY <1>8, <1>9, <3>1, Zenon DEF j
    <3>3. h[j] = h[j - 1] \o cs[j] /\ cs[j] = middle[j] \o crlf
      BY <1>4, <1>7, <3>1, Zenon
    <3>4. Same3(c1, h[j - 1], cs[j])
      <4>1. h[j - 1] \in Seq(T) /\ cs[j] \in Seq(T)
        BY <1>7, <3>1, Zenon
      <4> QED
        BY <1>3, <4>1, Associative
    <3> QED
      BY <3>2, <3>3, <3>4, Zenon DEF Same3, j
  <2> QED
    BY <2>1, <2>2, <2>3
<1>11. Grows(t, lines, cr, lf, T)
  <2>1. Len(lines) # 0
    BY <1>1, <1>9
  <2> QED
    BY <1>8, <1>9, <1>10, <2>1, Zenon DEF Grows, crlf, c1
<1> QED
  BY <1>8, <1>11, Zenon DEF lines, all, c1, F, cs, cn, crlf, n, HeadText

(* It is an answer.                                                        *)
LEMMA AssembledIs ==
  ASSUME NEW T, NEW first \in Seq(T), NEW middle \in Seq(Seq(T)),
         NEW last \in Seq(T), NEW rest \in Seq(T), NEW cr \in T, NEW lf \in T,
         cr # lf, HeadLine(first, cr, lf), HeadLine(last, cr, lf),
         \A i \in 1 .. Len(middle) : HeadLine(middle[i], cr, lf)
  PROVE  \E e : IsAnswer(Assembled(first, middle, last, rest, cr, lf), e,
                         HeadLines(first, middle, last), rest, cr, lf, T)
<1> DEFINE crlf == <<cr, lf>>
           n == Len(middle)
           lines == HeadLines(first, middle, last)
           x == Assembled(first, middle, last, rest, cr, lf)
<1>1. PICK t : /\ Grows(t, lines, cr, lf, T)
               /\ x = (t[n + 2] \o crlf) \o rest
  <2> DEFINE all == HeadText(first, middle, last, cr, lf)
  <2>1. \E t : /\ Grows(t, HeadLines(first, middle, last), cr, lf, T)
               /\ t[Len(middle) + 2] = HeadText(first, middle, last, cr, lf)
    BY HeadGrows
  <2>2. x = (all \o crlf) \o rest
    BY Zenon DEF Assembled
  <2> HIDE DEF x
  <2> QED
    BY <2>1, <2>2, Zenon
<1>2. /\ n \in Nat /\ lines \in Seq(Seq(T)) /\ Len(lines) = n + 2
      /\ \A i \in 1 .. n + 2 : HeadLine(lines[i], cr, lf)
  <2>1. n \in Nat
    OBVIOUS
  <2>2. lines \in Seq(Seq(T)) /\ Len(lines) = n + 2
    BY DEF HeadLines
  <2>3. ASSUME NEW i \in 1 .. n + 2 PROVE HeadLine(lines[i], cr, lf)
    <3>1. CASE i = 1
      <4>1. lines[i] = first
        BY <3>1 DEF HeadLines
      <4> QED
        BY <4>1
    <3>2. CASE i = n + 2
      <4>1. lines[i] = last
        BY <2>1, <3>2 DEF HeadLines
      <4> QED
        BY <4>1
    <3>3. CASE i # 1 /\ i # n + 2
      <4>1. lines[i] = middle[i - 1] /\ i - 1 \in 1 .. n
        BY <2>1, <3>3 DEF HeadLines
      <4> QED
        BY <4>1
    <3> QED
      BY <3>1, <3>2, <3>3
  <2> QED
    BY <2>1, <2>2, <2>3
<1> HIDE DEF lines, x, n
<1> DEFINE N == n + 2
           e == [i \in 0 .. N |-> IF i = 0 THEN 0 ELSE Len(t[i])]
           y == t[N] \o crlf
<1>3. e[0] = 0 /\ \A i \in 1 .. N : e[i] = Len(t[i])
  BY <1>2
<1> HIDE DEF e
<1>4. t[N] \in Seq(T) /\ \A i \in 1 .. N : Row(t[N], e, lines, i, cr, lf)
  <2> HIDE DEF N
  <2>1. /\ t[Len(lines)] \in Seq(T)
        /\ \A i \in 1 .. Len(lines) :
             Row(t[Len(lines)], e, lines, i, cr, lf)
    <3>1. \A i \in 1 .. Len(lines) : e[i] = Len(t[i])
      BY <1>2, <1>3 DEF N
    <3> QED
      BY <1>1, <1>3, <3>1, GrowsRows
  <2> QED
    BY <1>2, <2>1, Zenon DEF N
<1>5. crlf \in Seq(T) /\ Len(crlf) = 2 /\ crlf[1] = cr /\ crlf[2] = lf
  BY Two, Zenon
<1> HIDE DEF crlf
<1>6. IsConcat(y, t[N], crlf, T)
  BY <1>4, <1>5, Concatenation
<1>7. y \in Seq(T)
  BY <1>6 DEF IsConcat
<1> HIDE DEF y
<1>8. IsConcat(x, y, rest, T)
  <2>1. x = y \o rest
    BY <1>1 DEF y, N
  <2> QED
    BY <1>7, <2>1, Concatenation
<1> HIDE DEF N
<1>9. ASSUME NEW i \in 1 .. Len(lines) PROVE Row(x, e, lines, i, cr, lf)
  <2>1. Row(t[N], e, lines, i, cr, lf)
    BY <1>2, <1>4 DEF N
  <2>2. Row(y, e, lines, i, cr, lf)
    BY <1>2, <1>6, <2>1, RowKept
  <2> QED
    BY <1>2, <1>8, <2>2, RowKept
<1>10. N \in 1 .. N /\ N = Len(lines) /\ N # 0
  BY <1>2 DEF N
<1> DEFINE c == Len(t[N])
<1>11. /\ c \in Nat /\ e[N] = c /\ Len(y) = c + 2
       /\ y[c + 1] = cr /\ y[c + 2] = lf
  BY <1>3, <1>4, <1>5, <1>6, <1>10 DEF IsConcat
<1> HIDE DEF c
<1>12. /\ x \in Seq(T) /\ Len(x) = (c + 2) + Len(rest)
       /\ x[c + 1] = cr /\ x[c + 2] = lf
       /\ \A k \in 1 .. Len(rest) : x[(c + 2) + k] = rest[k]
  BY <1>8, <1>11 DEF IsConcat
<1>13. IsAnswer(x, e, lines, rest, cr, lf, T)
  <2>1. \A i \in 1 .. Len(lines) : HeadLine(lines[i], cr, lf)
    BY <1>2
  <2> QED
    BY <1>2, <1>3, <1>9, <1>10, <1>11, <1>12, <2>1, Zenon
       DEF IsAnswer, HeadLine
<1> QED
  BY <1>13 DEF x, lines

(* The same as One for three tokens.                                       *)
LEMMA Three ==
  ASSUME NEW T, NEW a \in T, NEW b \in T, NEW c \in T
  PROVE  <<a, b, c>> \in Seq(T) /\ Len(<<a, b, c>>) = 3
         /\ <<a, b, c>>[1] = a /\ <<a, b, c>>[2] = b /\ <<a, b, c>>[3] = c
  OBVIOUS

(* And for five.                                                           *)
LEMMA Five ==
  ASSUME NEW T, NEW a \in T, NEW b \in T, NEW c \in T, NEW d \in T, NEW f \in T
  PROVE  <<a, b, c, d, f>> \in Seq(T) /\ Len(<<a, b, c, d, f>>) = 5
         /\ <<a, b, c, d, f>>[1] = a /\ <<a, b, c, d, f>>[2] = b
         /\ <<a, b, c, d, f>>[3] = c /\ <<a, b, c, d, f>>[4] = d
         /\ <<a, b, c, d, f>>[5] = f
  OBVIOUS

(* The names of the header fields of a response, in some order.            *)
LEMMA KeysAre ==
  ASSUME NEW S \in SUBSET FieldName
  PROVE  /\ SetToSeq(S) \in Seq(S)
         /\ \A key \in S : \E i \in DOMAIN SetToSeq(S) : SetToSeq(S)[i] = key
<1> DEFINE n == Cardinality(S)
           keys == SetToSeq(S)
<1>1. IsFiniteSet(FieldName)
  <2> DEFINE A == {"Content-Type"}
             B == A \cup {"Location"}
             C == B \cup {"Upgrade"}
             D == C \cup {"Connection"}
             E == D \cup {"Sec-WebSocket-Accept"}
  <2>1. IsFiniteSet(A)
    BY FS_Singleton
  <2>2. IsFiniteSet(B)
    BY <2>1, FS_AddElement
  <2>3. IsFiniteSet(C)
    BY <2>2, FS_AddElement
  <2>4. IsFiniteSet(D)
    BY <2>3, FS_AddElement
  <2>5. IsFiniteSet(E)
    BY <2>4, FS_AddElement
  <2>6. E = FieldName
    BY DEF FieldName
  <2> QED
    BY <2>5, <2>6
<1>2. IsFiniteSet(S)
  BY <1>1, FS_Subset
<1>3. n \in Nat /\ ExistsBijection(1 .. n, S)
  BY <1>2, FS_CardinalityType
<1> HIDE DEF n
<1>4. \E f \in [1 .. n -> S] : IsInjective(f)
  BY <1>3 DEF ExistsBijection, Bijection, Injection
<1>5. keys \in [1 .. n -> S] /\ IsInjective(keys)
  BY <1>4, Zenon DEF SetToSeq, n
<1> HIDE DEF keys
<1>6. keys \in Seq(S)
  BY <1>3, <1>5
<1>7. keys \in Surjection(1 .. n, S)
  <2>1. keys \in Injection(1 .. n, S)
    BY <1>5 DEF Injection
  <2>2. Cardinality(1 .. n) = n
    BY <1>3, FS_Interval
  <2> QED
    BY <1>2, <2>1, <2>2, FS_Injection DEF n
<1>8. \A key \in S : \E i \in 1 .. n : keys[i] = key
  BY <1>7 DEF Surjection
<1>9. DOMAIN keys = 1 .. n
  BY <1>5
<1> QED
  BY <1>6, <1>8, <1>9, Zenon DEF keys

(* The lines of a response: the first, that of a header field, and those   *)
(* of all header fields.                                                   *)
StatusLine(res) == <<res.version, " ", res.status, " ", res.text>>
FieldLine(key, value) == <<key, ":", " ">> \o value
FieldLines(res) ==
  LET keys == SetToSeq(DOMAIN res.headers)
  IN  [i \in DOMAIN keys |-> FieldLine(keys[i], res.headers[keys[i]])]
LastLine(res) == FieldLine("Content-Length", Decimal[Len(res.body)])

(* to_string writes these, if the handler gives no length.                 *)
LEMMA RenderIs ==
  ASSUME NEW res, "Content-Length" \notin DOMAIN res.headers
  PROVE  Render(res) = Assembled(StatusLine(res), FieldLines(res),
                                 LastLine(res), res.body, "\r", "\n")
<1> DEFINE keys == SetToSeq(DOMAIN res.headers)
           f == [i \in DOMAIN keys |->
                   HeaderLine(keys[i], res.headers[keys[i]])]
           g == [i \in DOMAIN FieldLines(res) |->
                   FieldLines(res)[i] \o <<"\r", "\n">>]
<1>1. f = g
  <2>1. DOMAIN FieldLines(res) = DOMAIN keys
    BY DEF FieldLines
  <2>2. ASSUME NEW i \in DOMAIN keys
        PROVE  HeaderLine(keys[i], res.headers[keys[i]])
                 = FieldLines(res)[i] \o <<"\r", "\n">>
    <3>1. FieldLines(res)[i] = FieldLine(keys[i], res.headers[keys[i]])
      BY Zenon DEF FieldLines
    <3> QED
      BY <3>1, Zenon DEF HeaderLine, CRLF, FieldLine
  <2> HIDE DEF keys
  <2> QED
    BY <2>1, <2>2, Zenon
<1>2. LengthLine(res) = LastLine(res) \o <<"\r", "\n">>
  BY Zenon DEF LengthLine, LastLine, HeaderLine, CRLF, FieldLine
<1>3. Render(res) = (((StatusLine(res) \o <<"\r", "\n">>) \o FlattenSeq(f))
                       \o LengthLine(res)) \o <<"\r", "\n">> \o res.body
  BY Zenon DEF Render, StatusLine, CRLF
<1> HIDE DEF f
<1> QED
  BY <1>1, <1>2, <1>3, Zenon DEF Assembled, HeadText

-----------------------------------------------------------------------------
(* What a client reads of it. *)

(* The pieces of text that an answer is made of.                           *)
Fixed(res) ==
  {res.version, res.status, res.text, " ", ":", "\r", "\n", "Content-Length"}
Values(headers) == UNION {ToSet(headers[key]) : key \in DOMAIN headers}
Free(res) == DOMAIN res.headers \cup Values(res.headers) \cup ToSet(res.body)
Pool(res) == DigitSet \cup Fixed(res) \cup Free(res)

(* A union has its parts.                                                  *)
LEMMA UnionHas ==
  ASSUME NEW A, NEW B, NEW C
  PROVE  /\ A \subseteq A \cup B \cup C /\ B \subseteq A \cup B \cup C
         /\ C \subseteq A \cup B \cup C
  OBVIOUS

(* They are these.                                                         *)
LEMMA PoolHas ==
  ASSUME NEW res
  PROVE  /\ DigitSet \subseteq Pool(res) /\ Fixed(res) \subseteq Pool(res)
         /\ DOMAIN res.headers \subseteq Pool(res)
         /\ ToSet(res.body) \subseteq Pool(res)
         /\ \A key \in DOMAIN res.headers :
              ToSet(res.headers[key]) \subseteq Pool(res)
<1>1. /\ DOMAIN res.headers \subseteq Free(res)
      /\ ToSet(res.body) \subseteq Free(res)
      /\ \A key \in DOMAIN res.headers :
           ToSet(res.headers[key]) \subseteq Free(res)
  <2>1. ASSUME NEW h, NEW key \in DOMAIN h
        PROVE  ToSet(h[key]) \subseteq Values(h)
    BY DEF Values
  <2> QED
    BY <2>1, UnionHas, Zenon DEF Free
<1> QED
  BY <1>1, UnionHas, Zenon DEF Pool

(* A text over some tokens is one over more, without any that it lacks.    *)
LEMMA MoreTokens ==
  ASSUME NEW S, NEW T, NEW lf, S \ {lf} \subseteq T, NEW s \in Seq(S \ {lf})
  PROVE  /\ s \in Seq(T) /\ Len(s) \in Nat
         /\ \A k \in 1 .. Len(s) : s[k] # lf
  OBVIOUS

(* A line with a header field, and one of a head if the field is one line. *)
HoldsField(l, key, value, cr, lf, T) ==
  /\ l \in Seq(T) /\ IsField(l, key, value, T)
  /\ key # cr /\ key # lf /\ (\A k \in 1 .. Len(value) : value[k] # lf)
       => HeadLine(l, cr, lf)

(* A line of a name, two separators and a value.                           *)
LEMMA LineOfField ==
  ASSUME NEW T, NEW key \in T, NEW value \in Seq(T), NEW colon \in T,
         NEW space \in T, NEW cr, NEW lf, colon # lf, space # lf,
         NEW l, l = <<key, colon, space>> \o value
  PROVE  HoldsField(l, key, value, cr, lf, T)
<1> DEFINE p == <<key, colon, space>>
<1>1. /\ p \in Seq(T) /\ Len(p) = 3 /\ p[1] = key /\ p[2] = colon
      /\ p[3] = space
  BY Three, Zenon
<1>2. Len(value) \in Nat /\ l = p \o value
  OBVIOUS
<1> HIDE DEF p
<1>3. IsConcat(l, p, value, T)
  BY <1>1, <1>2, Concatenation
<1>4. /\ l \in Seq(T) /\ Len(l) = 3 + Len(value)
      /\ l[1] = key /\ l[2] = colon /\ l[3] = space
      /\ \A k \in 1 .. Len(value) : l[3 + k] = value[k]
  BY <1>1, <1>3 DEF IsConcat
<1>5. IsField(l, key, value, T)
  BY <1>4 DEF IsField
<1>6. ASSUME key # cr, key # lf, \A k \in 1 .. Len(value) : value[k] # lf
      PROVE  HeadLine(l, cr, lf)
  <2>1. ASSUME NEW k \in 1 .. Len(l) PROVE l[k] # lf
    <3>1. CASE k \in {1, 2, 3}
      BY <1>4, <1>6, <3>1
    <3>2. CASE k \notin {1, 2, 3}
      <4>1. k - 3 \in 1 .. Len(value) /\ 3 + (k - 3) = k
        BY <1>2, <1>4, <3>2
      <4> QED
        BY <1>4, <1>6, <4>1
    <3> QED
      BY <3>1, <3>2
  <2>2. Len(l) # 0
    BY <1>2, <1>4
  <2> QED
    BY <1>4, <1>6, <2>1, <2>2 DEF HeadLine
<1> QED
  BY <1>4, <1>5, <1>6, Zenon DEF HoldsField

(* A line with a header field, without a line feed if the value has none.  *)
LEMMA FieldLineIs ==
  ASSUME NEW T, NEW key \in T, NEW value \in Seq(T), ":" \in T, " " \in T
  PROVE  HoldsField(FieldLine(key, value), key, value, "\r", "\n", T)
<1> DEFINE l == FieldLine(key, value)
           colon == ":"
           space == " "
           cr == "\r"
           lf == "\n"
<1>1. colon # lf /\ space # lf /\ colon \in T /\ space \in T
  OBVIOUS
<1>2. l = <<key, colon, space>> \o value
  BY Zenon DEF FieldLine
<1> HIDE DEF l, colon, space, cr, lf
<1>3. HoldsField(l, key, value, cr, lf, T)
  BY <1>1, <1>2, LineOfField
<1> QED
  BY <1>3, Zenon DEF l, cr, lf

(* The first line of a response that can be written.                       *)
LEMMA StatusLineIs ==
  ASSUME NEW res, Writable(res)
  PROVE  /\ StatusLine(res) \in Seq(Pool(res))
         /\ Len(StatusLine(res)) = 5 /\ StatusLine(res)[3] = res.status
         /\ HeadLine(StatusLine(res), "\r", "\n")
<1> DEFINE T == Pool(res)
           v == res.version
           s == res.status
           t == res.text
           b == " "
           lf == "\n"
           cr == "\r"
           l == <<v, b, s, b, t>>
<1>1. v \in T /\ s \in T /\ t \in T /\ b \in T
  BY PoolHas DEF Fixed
<1>2. /\ v \notin {cr, lf} /\ s \notin {cr, lf} /\ t \notin {cr, lf}
      /\ b # lf
  BY DEF Writable, Space
<1> HIDE DEF T, v, s, t, b, lf, cr
<1>3. /\ l \in Seq(T) /\ Len(l) = 5 /\ l[1] = v /\ l[2] = b /\ l[3] = s
      /\ l[4] = b /\ l[5] = t
  BY <1>1, Five
<1>4. l = StatusLine(res)
  BY Zenon DEF StatusLine, v, b, s, t
<1> HIDE DEF l
<1>5. HeadLine(l, cr, lf)
  <2>1. ASSUME NEW k \in 1 .. Len(l) PROVE l[k] # lf
    <3>1. k = 1 \/ k = 2 \/ k = 3 \/ k = 4 \/ k = 5
      BY <1>3
    <3> QED
      BY <1>2, <1>3, <3>1
  <2> QED
    BY <1>2, <1>3, <2>1 DEF HeadLine
<1> QED
  BY <1>3, <1>4, <1>5, Zenon DEF T, s, cr, lf

(* The lines of its header fields.                                         *)
LEMMA FieldLinesAre ==
  ASSUME NEW res, Writable(res), NEW i \in DOMAIN SetToSeq(DOMAIN res.headers)
  PROVE  LET key == SetToSeq(DOMAIN res.headers)[i]
         IN  /\ key \in DOMAIN res.headers /\ key # "Content-Length"
             /\ FieldLine(key, res.headers[key]) \in Seq(Pool(res))
             /\ IsField(FieldLine(key, res.headers[key]), key,
                        res.headers[key], Pool(res))
             /\ HeadLine(FieldLine(key, res.headers[key]), "\r", "\n")
<1> DEFINE S == DOMAIN res.headers
           keys == SetToSeq(S)
           key == keys[i]
           value == res.headers[key]
           T == Pool(res)
<1>1. S \in SUBSET FieldName
  BY DEF Writable
<1>2. keys \in Seq(S)
  BY <1>1, KeysAre
<1>3. key \in S
  <2>1. i \in DOMAIN keys
    OBVIOUS
  <2> HIDE DEF keys
  <2> QED
    BY <1>2, <2>1
<1> HIDE DEF keys
<1> HIDE DEF key
<1>4. value \in Seq(ToSet(value) \ {"\n"})
  BY <1>3 DEF Writable
<1>5. key \in T /\ ToSet(value) \subseteq T /\ ":" \in T /\ " " \in T
  BY <1>3, PoolHas DEF Fixed
<1> DEFINE V == ToSet(value)
<1> HIDE DEF T, value, V
<1>6. value \in Seq(T) /\ \A k \in 1 .. Len(value) : value[k] # "\n"
  <2> DEFINE lf == "\n"
  <2>1. value \in Seq(V \ {lf})
    BY <1>4, Zenon DEF V
  <2>2. V \ {lf} \subseteq T
    BY <1>5, Zenon DEF V
  <2> HIDE DEF lf
  <2>3. value \in Seq(T) /\ \A k \in 1 .. Len(value) : value[k] # lf
    BY <2>1, <2>2, MoreTokens
  <2> QED
    BY <2>3, Zenon DEF lf
<1>7. key # "\r" /\ key # "\n" /\ key # "Content-Length"
  BY <1>1, <1>3 DEF FieldName
<1>8. /\ FieldLine(key, value) \in Seq(T)
      /\ IsField(FieldLine(key, value), key, value, T)
      /\ HeadLine(FieldLine(key, value), "\r", "\n")
  <2>1. HoldsField(FieldLine(key, value), key, value, "\r", "\n", T)
    BY <1>5, <1>6, FieldLineIs
  <2> QED
    BY <1>6, <1>7, <2>1, Zenon DEF HoldsField
<1> QED
  BY <1>3, <1>7, <1>8, Zenon DEF key, keys, value, T

(* The line that to_string adds.                                           *)
LEMMA LastLineIs ==
  ASSUME NEW res, Writable(res)
  PROVE  /\ LastLine(res) \in Seq(Pool(res))
         /\ IsField(LastLine(res), "Content-Length",
                    Decimal[Len(res.body)], Pool(res))
         /\ HeadLine(LastLine(res), "\r", "\n")
<1> DEFINE T == Pool(res)
           key == "Content-Length"
           n == Len(res.body)
           value == Decimal[n]
<1>1. n \in Nat
  BY DEF Writable
<1>2. value \in Seq(DigitSet)
  BY <1>1, DecimalIs
<1>3. DigitSet \subseteq T /\ key \in T /\ ":" \in T /\ " " \in T
  <2>1. DigitSet \subseteq T
    BY PoolHas
  <2>2. key \in T /\ ":" \in T /\ " " \in T
    BY PoolHas DEF Fixed
  <2> QED
    BY <2>1, <2>2
<1>4. \A d \in DigitSet : d # "\n"
  BY DigitIs DEF DigitSet
<1>5. key # "\r" /\ key # "\n"
  OBVIOUS
<1> HIDE DEF T, key, n, value
<1>6. value \in Seq(T) /\ \A k \in 1 .. Len(value) : value[k] # "\n"
  <2> DEFINE lf == "\n"
  <2>1. \A d \in DigitSet : d # lf
    BY <1>4
  <2> HIDE DEF lf
  <2>2. DigitSet \ {lf} = DigitSet
    BY <2>1
  <2>3. value \in Seq(DigitSet \ {lf}) /\ DigitSet \ {lf} \subseteq T
    BY <1>2, <1>3, <2>2, Zenon
  <2>4. value \in Seq(T) /\ \A k \in 1 .. Len(value) : value[k] # lf
    BY <2>3, MoreTokens
  <2> QED
    BY <2>4, Zenon DEF lf
<1>7. /\ FieldLine(key, value) \in Seq(T)
      /\ IsField(FieldLine(key, value), key, value, T)
      /\ HeadLine(FieldLine(key, value), "\r", "\n")
  <2>1. HoldsField(FieldLine(key, value), key, value, "\r", "\n", T)
    BY <1>3, <1>6, FieldLineIs
  <2> QED
    BY <1>5, <1>6, <2>1, Zenon DEF HoldsField
<1> QED
  BY <1>7, Zenon DEF LastLine, key, value, n, T

(* The names and the values of the header fields in an answer, by line.    *)
KeysOf(res) == SetToSeq(DOMAIN res.headers)
LineCount(res) == Len(KeysOf(res)) + 2
LinesOf(res) == HeadLines(StatusLine(res), FieldLines(res), LastLine(res))
NamesOf(res) ==
  [i \in 2 .. LineCount(res) |->
     IF i = LineCount(res) THEN "Content-Length" ELSE KeysOf(res)[i - 1]]
ValuesOf(res) ==
  [i \in 2 .. LineCount(res) |->
     IF i = LineCount(res) THEN Decimal[Len(res.body)]
     ELSE res.headers[KeysOf(res)[i - 1]]]

(* The lines of a response that can be written.                            *)
LEMMA LinesHold ==
  ASSUME NEW res, Writable(res)
  PROVE  /\ FieldLines(res) \in Seq(Seq(Pool(res)))
         /\ \A i \in 1 .. Len(FieldLines(res)) :
              HeadLine(FieldLines(res)[i], "\r", "\n")
         /\ HoldFields(LinesOf(res), NamesOf(res), ValuesOf(res),
                       Decimal[Len(res.body)], Pool(res))
         /\ Len(LinesOf(res)) = LineCount(res) /\ Len(KeysOf(res)) \in Nat
         /\ LinesOf(res)[1] = StatusLine(res)
<1> DEFINE keys == KeysOf(res)
           n == Len(keys)
           N == n + 2
           middle == FieldLines(res)
           first == StatusLine(res)
           last == LastLine(res)
           lines == LinesOf(res)
           names == NamesOf(res)
           values == ValuesOf(res)
           length == Decimal[Len(res.body)]
           T == Pool(res)
           name == "Content-Length"
<1>1. n \in Nat /\ DOMAIN keys = 1 .. n
  <2>1. DOMAIN res.headers \in SUBSET FieldName
    BY DEF Writable
  <2>2. keys \in Seq(DOMAIN res.headers)
    BY <2>1, KeysAre DEF KeysOf
  <2> HIDE DEF keys
  <2> QED
    BY <2>2
<1>2. ASSUME NEW i \in 1 .. n
      PROVE  /\ middle[i] \in Seq(T) /\ HeadLine(middle[i], "\r", "\n")
             /\ IsField(middle[i], keys[i], res.headers[keys[i]], T)
             /\ keys[i] # name
  <2>1. i \in DOMAIN SetToSeq(DOMAIN res.headers)
    BY <1>1 DEF KeysOf
  <2>2. middle[i] = FieldLine(keys[i], res.headers[keys[i]])
    BY <2>1, Zenon DEF FieldLines, KeysOf
  <2> QED
    BY <2>1, <2>2, FieldLinesAre DEF KeysOf
<1>3. DOMAIN middle = 1 .. n
  BY <1>1, Zenon DEF FieldLines, KeysOf
<1>4. /\ last \in Seq(T) /\ IsField(last, name, length, T)
  BY LastLineIs
<1>5. names = [i \in 2 .. N |-> IF i = N THEN name ELSE keys[i - 1]]
  BY Zenon DEF NamesOf, LineCount
<1>6. values = [i \in 2 .. N |-> IF i = N THEN length
                                 ELSE res.headers[keys[i - 1]]]
  BY Zenon DEF ValuesOf, LineCount
<1>7. lines = HeadLines(first, middle, last)
  BY Zenon DEF LinesOf
<1>8. middle = [i \in 1 .. n |-> FieldLine(keys[i], res.headers[keys[i]])]
  BY <1>1, Zenon DEF FieldLines, KeysOf
<1>9. LineCount(res) = N
  BY Zenon DEF LineCount
<1> HIDE DEF keys, n, middle, first, last, lines, names, values, length, T
<1> HIDE DEF name
<1>10. middle \in Seq(Seq(T)) /\ Len(middle) = n
  <2>1. /\ \A i \in 1 .. n : middle[i] \in Seq(T)
        /\ \E f : middle = [i \in 1 .. n |-> f[i]]
    <3>1. middle = [i \in 1 .. n |-> middle[i]]
      BY <1>8
    <3> QED
      BY <1>2, <3>1
  <2> DEFINE S == Seq(T)
  <2>2. \A i \in 1 .. n : middle[i] \in S
    BY <2>1
  <2> HIDE DEF S
  <2>3. middle \in Seq(S) /\ Len(middle) = n
    BY <1>1, <2>1, <2>2
  <2> QED
    BY <2>3 DEF S
<1>11. /\ Len(lines) = N /\ N \in Nat /\ N >= 2 /\ lines[1] = first
       /\ lines[N] = last
       /\ \A i \in 2 .. n + 1 : lines[i] = middle[i - 1]
  BY <1>1, <1>7, <1>10 DEF HeadLines
<1>12. HoldFields(lines, names, values, length, T)
  <2>1. ASSUME NEW i \in 2 .. N
        PROVE  /\ IsField(lines[i], names[i], values[i], T)
               /\ names[i] = name <=> i = N
    <3>1. CASE i = N
      <4>1. names[i] = name /\ values[i] = length /\ lines[i] = last
        BY <1>5, <1>6, <1>11, <3>1
      <4> QED
        BY <1>4, <3>1, <4>1, Zenon
    <3>2. CASE i # N
      <4> DEFINE j == i - 1
      <4>1. j \in 1 .. n /\ i \in 2 .. n + 1
        BY <1>1, <3>2
      <4>2. /\ names[i] = keys[j] /\ values[i] = res.headers[keys[j]]
            /\ lines[i] = middle[j]
        BY <1>5, <1>6, <1>11, <3>2, <4>1
      <4> HIDE DEF j
      <4> QED
        BY <1>2, <3>2, <4>1, <4>2, Zenon
    <3> QED
      BY <3>1, <3>2
  <2>2. values[N] = length
    BY <1>6, <1>11
  <2> QED
    BY <1>11, <2>1, <2>2, Zenon DEF HoldFields, name
<1>13. \A i \in 1 .. Len(middle) : HeadLine(middle[i], "\r", "\n")
  BY <1>2, <1>10, Zenon
<1>14. Len(lines) = LineCount(res) /\ Len(keys) \in Nat
  BY <1>1, <1>9, <1>11, Zenon DEF n
<1> QED
  BY <1>10, <1>11, <1>12, <1>13, <1>14, Zenon
     DEF middle, first, lines, names, values, length, T, keys

(* Each header field is on one of the lines.                               *)
LEMMA KeysHaveLines ==
  ASSUME NEW res, Writable(res), NEW key \in DOMAIN res.headers
  PROVE  [name |-> key, value |-> res.headers[key]]
           \in FieldsFrom(NamesOf(res), ValuesOf(res), LineCount(res))
<1> DEFINE keys == KeysOf(res)
           n == Len(keys)
<1>1. DOMAIN res.headers \in SUBSET FieldName
  BY DEF Writable
<1>2. keys \in Seq(DOMAIN res.headers) /\ \E i \in DOMAIN keys : keys[i] = key
  BY <1>1, KeysAre DEF KeysOf
<1>3. PICK i \in DOMAIN keys : keys[i] = key
  BY <1>2
<1> HIDE DEF keys
<1>4. n \in Nat /\ i \in 1 .. n
  BY <1>2
<1> HIDE DEF n
<1> DEFINE p == i + 1
<1>5. p \in 2 .. n + 2 /\ p # n + 2 /\ p - 1 = i
  BY <1>4
<1> HIDE DEF p
<1>6. LineCount(res) = n + 2
  BY Zenon DEF LineCount, n, keys
<1>7. NamesOf(res)[p] = key
  BY <1>3, <1>5, <1>6, Zenon DEF NamesOf, keys
<1>8. ValuesOf(res)[p] = res.headers[key]
  BY <1>3, <1>5, <1>6, Zenon DEF ValuesOf, keys
<1> QED
  BY <1>5, <1>6, <1>7, <1>8 DEF FieldsFrom

(* A part of a text.                                                       *)
LEMMA PartIs ==
  ASSUME NEW T, NEW x \in Seq(T), NEW m \in 0 .. Len(x),
         NEW w, w = SubSeq(x, 1, m)
  PROVE  w \in Seq(T) /\ Got(w, x, m) /\ (m = Len(x) <=> w = x)
<1>1. /\ w \in Seq(T) /\ Len(w) = m /\ m \in Nat /\ m <= Len(x)
      /\ \A i \in 1 .. m : w[i] = x[i]
  OBVIOUS
<1>2. m = Len(x) => w = x
  <2> SUFFICES ASSUME m = Len(x) PROVE w = x
    OBVIOUS
  <2> QED
    BY <1>1, SameText
<1> QED
  BY <1>1, <1>2 DEF Got

(* What a client makes of a part w of what is written of a response.       *)
ReadsBack(w, res) ==
  LET got == ReadAnswer(w)
  IN  IF w # Render(res) THEN got = Incomplete
      ELSE /\ got # Incomplete
           /\ got.status = res.status /\ got.body = res.body
           /\ \A key \in DOMAIN res.headers :
                [name |-> key, value |-> res.headers[key]] \in got.fields

(* What was read whole is not what was not read.                           *)
LEMMA IsComplete ==
  ASSUME NEW s, NEW f, NEW b
  PROVE  /\ [status |-> s, fields |-> f, body |-> b] # Incomplete
         /\ [status |-> s, fields |-> f, body |-> b].status = s
         /\ [status |-> s, fields |-> f, body |-> b].fields = f
         /\ [status |-> s, fields |-> f, body |-> b].body = b
<1> DEFINE r == [status |-> s, fields |-> f, body |-> b]
<1>1. "body" \in DOMAIN r /\ "body" \notin DOMAIN Incomplete
  BY DEF Incomplete
<1>2. r # Incomplete
  <2> HIDE DEF r
  <2> QED
    BY <1>1
<1> QED
  BY <1>2

(* The whole of what is written is read back, and a part of it is not.     *)
LEMMA PartIsReadBack ==
  ASSUME NEW res, Writable(res), NEW m \in 0 .. Len(Render(res)),
         NEW w, w = SubSeq(Render(res), 1, m)
  PROVE  ReadsBack(w, res)
<1> DEFINE T == Pool(res)
           first == StatusLine(res)
           middle == FieldLines(res)
           last == LastLine(res)
           lines == LinesOf(res)
           names == NamesOf(res)
           values == ValuesOf(res)
           rest == res.body
           x == Render(res)
           all == FieldsFrom(names, values, Len(lines))
<1>1. x = Assembled(first, middle, last, rest, "\r", "\n")
  <2>1. "Content-Length" \notin DOMAIN res.headers
    BY DEF Writable, FieldName
  <2> QED
    BY <2>1, RenderIs
<1>2. /\ first \in Seq(T) /\ Len(first) = 5 /\ first[3] = res.status
      /\ HeadLine(first, "\r", "\n")
  BY StatusLineIs
<1>3. /\ last \in Seq(T) /\ HeadLine(last, "\r", "\n")
  BY LastLineIs
<1>4. /\ middle \in Seq(Seq(T))
      /\ \A i \in 1 .. Len(middle) : HeadLine(middle[i], "\r", "\n")
      /\ HoldFields(lines, names, values, Decimal[Len(rest)], T)
      /\ Len(lines) = LineCount(res) /\ lines[1] = first
  BY LinesHold
<1>5. rest \in Seq(T) /\ "\r" \in T /\ "\n" \in T
  <2> DEFINE S == ToSet(rest)
  <2>1. rest \in Seq(S)
    BY DEF Writable
  <2>2. S \subseteq T /\ Fixed(res) \subseteq T
    BY PoolHas
  <2>3. "\r" \in T /\ "\n" \in T
    BY <2>2 DEF Fixed
  <2> HIDE DEF S, T, rest
  <2>4. rest \in Seq(T)
    BY <2>1, <2>2
  <2> QED
    BY <2>3, <2>4
<1>6. PICK e : IsAnswer(x, e, lines, rest, "\r", "\n", T)
  <2> DEFINE cr == "\r"
             lf == "\n"
  <2>1. cr # lf
    OBVIOUS
  <2>2. /\ HeadLine(first, cr, lf) /\ HeadLine(last, cr, lf)
        /\ \A i \in 1 .. Len(middle) : HeadLine(middle[i], cr, lf)
        /\ cr \in T /\ lf \in T
    BY <1>2, <1>3, <1>4, <1>5, Zenon
  <2>3. x = Assembled(first, middle, last, rest, cr, lf)
    BY <1>1, Zenon
  <2>4. lines = HeadLines(first, middle, last)
    BY Zenon DEF LinesOf
  <2> HIDE DEF cr, lf, x, T, first, middle, last, rest, lines
  <2>5. \E e : IsAnswer(Assembled(first, middle, last, rest, cr, lf), e,
                        HeadLines(first, middle, last), rest, cr, lf, T)
    BY <1>2, <1>3, <1>4, <1>5, <2>1, <2>2, AssembledIs
  <2> QED
    BY <2>3, <2>4, <2>5, Zenon DEF cr, lf
<1>7. x \in Seq(T)
  BY <1>6, Zenon DEF IsAnswer
<1>8. w \in Seq(T) /\ Got(w, x, m) /\ (m = Len(x) <=> w = x)
  <2>1. m \in 0 .. Len(x) /\ w = SubSeq(x, 1, m)
    BY Zenon
  <2> HIDE DEF x, T
  <2> QED
    BY <1>7, <2>1, PartIs
<1>9. ReadAnswer(w) = IF m # Len(x) THEN Incomplete
                      ELSE [status |-> w[3], fields |-> all, body |-> rest]
  <2> HIDE DEF T, x, lines, rest, names, values
  <2>1. IsReadAs(w, m, x, names, values, Len(lines), rest)
    BY <1>4, <1>5, <1>6, <1>8, AnswerRead, Zenon
  <2> QED
    BY <2>1, Zenon DEF IsReadAs
<1>10. ASSUME w = x PROVE w[3] = res.status
  <2>1. LineAt(x, e, lines, 1, "\r", "\n", T)
    <3>1. 1 \in 1 .. Len(lines)
      <4>1. Len(lines) >= 2 /\ lines \in Seq(Seq(T))
        BY <1>4, <1>6, Zenon DEF HoldFields, IsAnswer
      <4> HIDE DEF lines
      <4> QED
        BY <4>1
    <3> HIDE DEF x, T, lines, rest
    <3> QED
      BY <1>6, <3>1, RowIs
  <2>2. e[0] = 0
    BY <1>6, Zenon DEF IsAnswer
  <2> HIDE DEF x, T, lines, first
  <2>3. x[0 + 3] = lines[1][3]
    <3>1. 3 \in 1 .. Len(lines[1]) /\ 1 - 1 = 0
      <4>1. Len(lines[1]) = 5
        BY <1>2, <1>4, Zenon
      <4> QED
        BY <4>1
    <3> QED
      BY <2>1, <2>2, <3>1 DEF LineAt
  <2>4. 0 + 3 = 3
    OBVIOUS
  <2> QED
    BY <1>2, <1>4, <1>10, <2>3, <2>4, Zenon
<1>11. \A key \in DOMAIN res.headers :
         [name |-> key, value |-> res.headers[key]] \in all
  BY <1>4, KeysHaveLines, Zenon
<1> HIDE DEF x, all, rest
<1>12. CASE w # x
  <2>1. ReadAnswer(w) = Incomplete
    BY <1>8, <1>9, <1>12
  <2> QED
    BY <1>12, <2>1, Zenon DEF ReadsBack, x
<1>13. CASE w = x
  <2> DEFINE r == [status |-> w[3], fields |-> all, body |-> rest]
  <2>1. ReadAnswer(w) = r
    BY <1>8, <1>9, <1>13, Zenon
  <2>2. r # Incomplete /\ r.status = w[3] /\ r.fields = all /\ r.body = rest
    BY IsComplete, Zenon
  <2> HIDE DEF r
  <2> QED
    BY <1>10, <1>11, <1>13, <2>1, <2>2, Zenon DEF ReadsBack, x, rest
<1> QED
  BY <1>12, <1>13
=============================================================================
