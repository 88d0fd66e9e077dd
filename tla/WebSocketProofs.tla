-------------------------- MODULE WebSocketProofs ---------------------------
(***************************************************************************)
(* Proofs about WebSocket for all messages, all frames of a client, any    *)
(* number of them, however they are cut.                                   *)
(***************************************************************************)
EXTENDS WebSocket, DataInduction

-----------------------------------------------------------------------------
(* Sums. *)

AreSums(f, seq, N) ==
  /\ f \in [0 .. N -> Nat]
  /\ f[0] = 0
  /\ \A n \in 1 .. N : f[n] = f[n - 1] + seq[n]

(* The recursion of Sums has a solution.                                   *)
LEMMA SumsExist ==
  ASSUME NEW seq \in Seq(Nat)
  PROVE  \E f : AreSums(f, seq, Len(seq))
<1> DEFINE S == {N \in 0 .. Len(seq) : \E f : AreSums(f, seq, N)}
<1>0. /\ Len(seq) \in Nat
      /\ \A i \in 1 .. Len(seq) : seq[i] \in Nat
  OBVIOUS
<1>1. 0 \in S
  <2>1. AreSums([n \in 0 .. 0 |-> 0], seq, 0)
    BY DEF AreSums
  <2> QED
    BY <1>0, <2>1
<1>2. ASSUME NEW n \in 1 .. Len(seq), n - 1 \in S PROVE n \in S
  <2>1. PICK f : AreSums(f, seq, n - 1)
    BY <1>2
  <2> DEFINE g == [k \in 0 .. n |-> IF k = n THEN f[n - 1] + seq[n] ELSE f[k]]
  <2>2. n \in Nat /\ n - 1 \in 0 .. n - 1 /\ seq[n] \in Nat
    BY <1>0
  <2>3. g \in [0 .. n -> Nat]
    BY <2>1, <2>2 DEF AreSums
  <2>4. g[0] = 0
    BY <2>1, <2>2 DEF AreSums
  <2>5. ASSUME NEW k \in 1 .. n PROVE g[k] = g[k - 1] + seq[k]
    <3>1. CASE k = n
      BY <3>1, <2>2
    <3>2. CASE k # n
      <4>1. k \in 1 .. n - 1 /\ k \in 0 .. n /\ k - 1 \in 0 .. n /\ k - 1 # n
        BY <3>2
      <4>2. f[k] = f[k - 1] + seq[k]
        BY <2>1, <4>1 DEF AreSums
      <4> QED
        BY <4>1, <4>2, <3>2
    <3> QED
      BY <3>1, <3>2
  <2> HIDE DEF g
  <2>6. AreSums(g, seq, n)
    BY <2>3, <2>4, <2>5 DEF AreSums
  <2> QED
    BY <2>6
<1> HIDE DEF S
<1>3. \A n \in 0 .. Len(seq) : n \in S
  <2>1. \A n \in 1 .. Len(seq) : n - 1 \in S => n \in S
    BY <1>2
  <2> QED
    BY <1>0, <1>1, <2>1, SetInduction, Zenon
<1>4. Len(seq) \in 0 .. Len(seq)
  BY <1>0
<1> QED
  BY <1>3, <1>4, Zenon DEF S

(* What Sums returns.                                                      *)
LEMMA SumsAreSums ==
  ASSUME NEW seq \in Seq(Nat)
  PROVE  AreSums(Sums(seq), seq, Len(seq))
<1> DEFINE N == Len(seq)
           Rec(f) == [n \in 0 .. N |-> IF n = 0 THEN 0 ELSE f[n - 1] + seq[n]]
<1>0. N \in Nat /\ \A i \in 1 .. N : seq[i] \in Nat
  OBVIOUS
<1>1. \E f : f = Rec(f)
  <2>1. PICK f : AreSums(f, seq, N)
    BY SumsExist
  <2>2. f = Rec(f)
    BY <2>1, <1>0 DEF AreSums
  <2> QED
    BY <2>2
<1>2. Sums(seq) = CHOOSE f : f = Rec(f)
  BY Zenon DEF Sums
<1> DEFINE s == Sums(seq)
<1>3. s = Rec(s)
  BY <1>1, <1>2, Zenon
<1> HIDE DEF s
<1>4. /\ DOMAIN s = 0 .. N /\ s[0] = 0
      /\ \A n \in 1 .. N : s[n] = s[n - 1] + seq[n]
  BY <1>0, <1>3
<1>5. \A n \in 0 .. N : n \in {k \in 0 .. N : s[k] \in Nat}
  <2>1. 0 \in {k \in 0 .. N : s[k] \in Nat}
    BY <1>0, <1>4
  <2>2. ASSUME NEW n \in 1 .. N, n - 1 \in {k \in 0 .. N : s[k] \in Nat}
        PROVE  n \in {k \in 0 .. N : s[k] \in Nat}
    BY <1>0, <1>4, <2>2
  <2> QED
    BY <1>0, <2>1, <2>2, SetInduction
<1>6. s \in [0 .. N -> Nat]
  BY <1>3, <1>5
<1> QED
  BY <1>4, <1>6 DEF AreSums, s

(* Sums grow, and strictly if all elements are positive.                   *)
LEMMA SumsGrow ==
  ASSUME NEW seq \in Seq(Nat), NEW m \in 0 .. Len(seq), NEW n \in m .. Len(seq)
  PROVE  /\ Sums(seq)[m] \in Nat /\ Sums(seq)[n] \in Nat
         /\ Sums(seq)[m] <= Sums(seq)[n]
         /\ (\A i \in 1 .. Len(seq) : seq[i] > 0) /\ m < n =>
              Sums(seq)[m] < Sums(seq)[n]
<1> DEFINE N == Len(seq)
           s == Sums(seq)
           Positive == \A i \in 1 .. N : seq[i] > 0
           Larger(k) == /\ s[m] <= s[k]
                        /\ Positive /\ m < k => s[m] < s[k]
           S == {k \in 0 .. N : m <= k => Larger(k)}
<1>0. N \in Nat /\ \A i \in 1 .. N : seq[i] \in Nat
  OBVIOUS
<1>1. AreSums(s, seq, N)
  BY SumsAreSums
<1> HIDE DEF s, N
<1>2. /\ \A k \in 0 .. N : s[k] \in Nat
      /\ \A k \in 1 .. N : s[k] = s[k - 1] + seq[k]
  BY <1>1 DEF AreSums
<1>3. m \in 0 .. N /\ n \in 0 .. N /\ m <= n
  BY <1>0 DEF N
<1>4. 0 \in S
  BY <1>0, <1>2, <1>3
<1>5. \A k \in 1 .. N : k - 1 \in S => k \in S
  <2>1. SUFFICES ASSUME NEW k \in 1 .. N, k - 1 \in S, m <= k
                 PROVE  Larger(k)
    BY <1>0
  <2>2. CASE m = k
    BY <2>2, <1>2, <1>3
  <2>3. CASE m # k
    <3>1. m <= k - 1 /\ k - 1 \in 0 .. N
      BY <2>1, <2>3, <1>0, <1>3
    <3>2. Larger(k - 1)
      BY <2>1, <3>1
    <3>3. s[k] = s[k - 1] + seq[k] /\ s[k - 1] \in Nat /\ seq[k] \in Nat
      BY <1>0, <1>2, <3>1
    <3>4. Positive => seq[k] > 0
      OBVIOUS
    <3>5. s[m] \in Nat /\ s[k] \in Nat /\ s[m] <= s[k - 1]
      BY <1>2, <1>3, <3>1, <3>2
    <3> QED
      BY <3>3, <3>4, <3>5
  <2> QED
    BY <2>2, <2>3
<1> HIDE DEF S
<1>6. \A k \in 0 .. N : k \in S
  BY <1>0, <1>4, <1>5, SetInduction, Zenon
<1>7. Larger(n)
  BY <1>3, <1>6 DEF S
<1> QED
  BY <1>2, <1>3, <1>7 DEF s, N

(* Sums do not look ahead.                                                 *)
LEMMA SumsAppend ==
  ASSUME NEW seq \in Seq(Nat), NEW x \in Nat, NEW n \in 0 .. Len(seq)
  PROVE  Sums(Append(seq, x))[n] = Sums(seq)[n]
<1> DEFINE N == Len(seq)
           s == Sums(seq)
           t == Sums(Append(seq, x))
           S == {k \in 0 .. N : t[k] = s[k]}
<1>0. /\ N \in Nat /\ Append(seq, x) \in Seq(Nat)
      /\ Len(Append(seq, x)) = N + 1
      /\ \A i \in 1 .. N : Append(seq, x)[i] = seq[i]
  OBVIOUS
<1>1. AreSums(s, seq, N) /\ AreSums(t, Append(seq, x), N + 1)
  BY <1>0, SumsAreSums
<1> HIDE DEF s, t, N
<1>2. /\ s[0] = 0 /\ t[0] = 0
      /\ \A k \in 1 .. N : s[k] = s[k - 1] + seq[k]
      /\ \A k \in 1 .. N : t[k] = t[k - 1] + seq[k]
  <2>1. /\ s[0] = 0 /\ t[0] = 0
        /\ \A k \in 1 .. N : s[k] = s[k - 1] + seq[k]
        /\ \A k \in 1 .. N + 1 : t[k] = t[k - 1] + Append(seq, x)[k]
    BY <1>1 DEF AreSums
  <2>2. \A k \in 1 .. N : k \in 1 .. N + 1
    BY <1>0
  <2> HIDE <1>1
  <2> QED
    BY <1>0, <2>1, <2>2
<1>3. 0 \in S
  BY <1>0, <1>2
<1>4. \A k \in 1 .. N : k - 1 \in S => k \in S
  BY <1>0, <1>2
<1> HIDE DEF S
<1>5. \A k \in 0 .. N : k \in S
  BY <1>0, <1>3, <1>4, SetInduction, Zenon
<1>6. n \in 0 .. N
  BY DEF N
<1> QED
  BY <1>5, <1>6 DEF S, s, t

-----------------------------------------------------------------------------
(* The frames and their pieces. *)

(* Every frame in a stream.                                                *)
AnyFrame ==
  {ClientFrame(f) : f \in ClientFrames}
    \cup {SendFrame(op, len, fin) :
            op \in {TEXT, BINARY}, len \in Nat, fin \in BOOLEAN}

(* The fields of a frame; it has a piece at least, its header.               *)
LEMMA FrameFacts ==
  ASSUME NEW f \in AnyFrame
  PROVE  /\ f.fin \in BOOLEAN /\ f.op \in 0 .. 15 /\ f.len \in Nat
         /\ Len(Pieces(f)) \in Nat /\ Len(Pieces(f)) > 0
<1>1. f.fin \in BOOLEAN /\ f.op \in 0 .. 15 /\ f.len \in Nat
  BY WebSocketAssumption DEF AnyFrame, ClientFrame, SendFrame, TEXT, BINARY
<1>2. ASSUME NEW a \in {<<"length">>, <<>>}, NEW b \in {<<"mask">>, <<>>},
             NEW c \in {<<"payload">>, <<>>}
      PROVE  /\ Len(<<"header">> \o a \o b \o c) \in Nat
             /\ Len(<<"header">> \o a \o b \o c) > 0
  <2> DEFINE Kind == {"header", "length", "mask", "payload"}
  <2>0. /\ <<>> \in Seq(Kind) /\ <<"header">> \in Seq(Kind)
        /\ <<"length">> \in Seq(Kind) /\ <<"mask">> \in Seq(Kind)
        /\ <<"payload">> \in Seq(Kind)
    <3>1. \A x \in Kind : <<x>> \in Seq(Kind)
      OBVIOUS
    <3>2. <<>> \in Seq(Kind)
      OBVIOUS
    <3> QED
      BY <3>1, <3>2
  <2>1. /\ a \in Seq(Kind) /\ b \in Seq(Kind) /\ c \in Seq(Kind)
        /\ <<"header">> \in Seq(Kind) /\ Len(<<"header">>) = 1
    <3>1. a \in Seq(Kind)
      BY <2>0, Zenon
    <3>2. b \in Seq(Kind)
      BY <2>0, Zenon
    <3>3. c \in Seq(Kind)
      BY <2>0, Zenon
    <3>4. Len(<<"header">>) = 1
      OBVIOUS
    <3> QED
      BY <2>0, <3>1, <3>2, <3>3, <3>4, Zenon
  <2>2. /\ <<"header">> \o a \in Seq(Kind)
        /\ Len(<<"header">> \o a) = 1 + Len(a)
    BY <2>1
  <2>3. /\ (<<"header">> \o a) \o b \in Seq(Kind)
        /\ Len((<<"header">> \o a) \o b) = 1 + Len(a) + Len(b)
    BY <2>1, <2>2
  <2> QED
    BY <2>1, <2>3
<1>3. \E a \in {<<"length">>, <<>>}, b \in {<<"mask">>, <<>>},
         c \in {<<"payload">>, <<>>} : Pieces(f) = <<"header">> \o a \o b \o c
  BY DEF Pieces
<1> QED
  BY <1>1, <1>2, <1>3

Counts(q) == [i \in DOMAIN q |-> Len(Pieces(q[i]))]
Lengths(q) == [i \in DOMAIN q |-> q[i].len]

(* The pieces and the payloads of a stream's frames, as sequences.           *)
LEMMA CountsAreNatural ==
  ASSUME NEW q \in Seq(AnyFrame)
  PROVE  /\ Counts(q) \in Seq(Nat) /\ Len(Counts(q)) = Len(q)
         /\ \A i \in 1 .. Len(q) : Counts(q)[i] > 0
         /\ Lengths(q) \in Seq(Nat) /\ Len(Lengths(q)) = Len(q)
         /\ \A i \in 1 .. Len(q) : Lengths(q)[i] = q[i].len
<1>1. /\ Len(q) \in Nat /\ DOMAIN q = 1 .. Len(q)
      /\ \A i \in 1 .. Len(q) : q[i] \in AnyFrame
  OBVIOUS
<1>2. \A i \in 1 .. Len(q) : /\ Len(Pieces(q[i])) \in Nat
                             /\ Len(Pieces(q[i])) > 0
                             /\ q[i].len \in Nat
  BY <1>1, FrameFacts
<1>3. /\ Counts(q) \in [1 .. Len(q) -> Nat]
      /\ \A i \in 1 .. Len(q) : Counts(q)[i] > 0
  BY <1>1, <1>2 DEF Counts
<1>4. /\ Lengths(q) \in [1 .. Len(q) -> Nat]
      /\ \A i \in 1 .. Len(q) : Lengths(q)[i] = q[i].len
  BY <1>1, <1>2 DEF Lengths
<1>5. \A s \in [1 .. Len(q) -> Nat] : s \in Seq(Nat) /\ Len(s) = Len(q)
  BY <1>1
<1> QED
  BY <1>3, <1>4, <1>5

(* Pieces and bytes of a stream.                                           *)
LEMMA Amounts ==
  ASSUME NEW q \in Seq(AnyFrame), NEW m \in 0 .. Len(q), NEW n \in m .. Len(q)
  PROVE  /\ Sums(Counts(q))[0] = 0
         /\ Sums(Counts(q))[m] \in Nat /\ Sums(Counts(q))[n] \in Nat
         /\ Sums(Counts(q))[m] <= Sums(Counts(q))[n]
         /\ m < n => Sums(Counts(q))[m] < Sums(Counts(q))[n]
         /\ Sums(Lengths(q))[m] \in Nat /\ Sums(Lengths(q))[n] \in Nat
         /\ Sums(Lengths(q))[m] <= Sums(Lengths(q))[n]
         /\ n > 0 => Sums(Lengths(q))[n] = Sums(Lengths(q))[n - 1] + q[n].len
<1>1. /\ AreSums(Sums(Counts(q)), Counts(q), Len(q))
      /\ AreSums(Sums(Lengths(q)), Lengths(q), Len(q))
  BY CountsAreNatural, SumsAreSums
<1>2. Sums(Counts(q))[0] = 0
  BY <1>1 DEF AreSums
<1>3. n > 0 => Sums(Lengths(q))[n] = Sums(Lengths(q))[n - 1] + q[n].len
  BY <1>1, CountsAreNatural DEF AreSums
<1>4. /\ Sums(Counts(q))[m] \in Nat /\ Sums(Counts(q))[n] \in Nat
      /\ Sums(Counts(q))[m] <= Sums(Counts(q))[n]
      /\ m < n => Sums(Counts(q))[m] < Sums(Counts(q))[n]
  BY CountsAreNatural, SumsGrow
<1>5. /\ Sums(Lengths(q))[m] \in Nat /\ Sums(Lengths(q))[n] \in Nat
      /\ Sums(Lengths(q))[m] <= Sums(Lengths(q))[n]
  BY CountsAreNatural, SumsGrow
<1> QED
  BY <1>2, <1>3, <1>4, <1>5

(* The next frame changes nothing of what was there.                       *)
LEMMA AmountsAppend ==
  ASSUME NEW q \in Seq(AnyFrame), NEW f \in AnyFrame, NEW n \in 0 .. Len(q)
  PROVE  /\ Sums(Counts(Append(q, f)))[n] = Sums(Counts(q))[n]
         /\ Sums(Lengths(Append(q, f)))[n] = Sums(Lengths(q))[n]
<1>1. /\ Len(q) \in Nat /\ DOMAIN q = 1 .. Len(q)
      /\ Append(q, f) \in Seq(AnyFrame)
      /\ DOMAIN Append(q, f) = 1 .. Len(q) + 1
      /\ \A i \in 1 .. Len(q) : Append(q, f)[i] = q[i]
      /\ Append(q, f)[Len(q) + 1] = f
  OBVIOUS
<1>2. Len(Pieces(f)) \in Nat /\ f.len \in Nat
  BY FrameFacts
<1>3. Counts(Append(q, f)) = Append(Counts(q), Len(Pieces(f)))
  <2>1. /\ Counts(Append(q, f)) =
             [i \in 1 .. Len(q) + 1 |->
                IF i \in 1 .. Len(q) THEN Len(Pieces(q[i])) ELSE Len(Pieces(f))]
        /\ Counts(q) \in Seq(Nat) /\ Len(Counts(q)) = Len(q)
    BY <1>1, CountsAreNatural DEF Counts
  <2> QED
    BY <1>1, <1>2, <2>1 DEF Counts
<1>4. Lengths(Append(q, f)) = Append(Lengths(q), f.len)
  BY <1>1, <1>2, CountsAreNatural DEF Lengths
<1> QED
  BY <1>2, <1>3, <1>4, CountsAreNatural, SumsAppend

-----------------------------------------------------------------------------
(* What send writes. *)

(* The frames of a binary message carry all of it, each within the limit.  *)
LEMMA FrameSizesFacts ==
  ASSUME NEW len \in Nat
  PROVE  /\ FrameSizes(len) \in Seq(Nat)
         /\ Len(FrameSizes(len)) = FramesCount(len)
         /\ \A i \in 1 .. FramesCount(len) :
              FrameSizes(len)[i] \in 1 .. MAX_BINARY_FRAME_SIZE
         /\ Sums(FrameSizes(len))[FramesCount(len)] = len
<1> DEFINE c == FramesCount(len)
           M == MAX_BINARY_FRAME_SIZE
           point(i) == i * M
           upto(i) == IF point(i) < len THEN point(i) ELSE len
           size(i) == upto(i) - point(i - 1)
<1>1. /\ c \in Nat /\ c * 16384 <= len + 16383 /\ len <= c * 16384
      /\ M = 16384
  BY DEF FramesCount, MAX_BINARY_FRAME_SIZE
<1>2. FrameSizes(len) = [i \in 1 .. c |-> size(i)]
  <2>1. \A i \in 1 .. c : (i - 1) * M + M = point(i)
    BY <1>1
  <2>2. FrameSizes(len) =
          [i \in 1 .. c |->
             (IF (i - 1) * M + M < len THEN (i - 1) * M + M ELSE len)
               - (i - 1) * M]
    BY DEF FrameSizes
  <2> QED
    BY <2>1, <2>2
<1> HIDE DEF c
<1>3. /\ c \in Nat /\ M \in Nat /\ M > 0
      /\ point(0) = 0 /\ len <= point(c)
      /\ \A i \in 0 .. c : point(i) \in Nat
      /\ \A i \in 1 .. c : point(i) = point(i - 1) + M
      /\ \A i \in 1 .. c : point(i - 1) < len
  BY <1>1
<1> HIDE DEF point, M
<1>4. /\ upto(0) = 0 /\ upto(c) = len
      /\ \A i \in 0 .. c : upto(i) \in Nat
      /\ \A i \in 1 .. c : upto(i - 1) = point(i - 1)
  BY <1>3
<1>5. ASSUME NEW i \in 1 .. c
      PROVE  size(i) \in 1 .. M /\ size(i) = upto(i) - upto(i - 1)
  <2>1. /\ i \in 0 .. c /\ i - 1 \in 0 .. c /\ point(i) \in Nat
        /\ point(i - 1) \in Nat /\ point(i) = point(i - 1) + M
        /\ point(i - 1) < len /\ M \in Nat /\ M > 0
    BY <1>3
  <2>2. /\ upto(i) \in Nat /\ point(i - 1) < upto(i)
        /\ upto(i) <= point(i - 1) + M /\ upto(i - 1) = point(i - 1)
    BY <2>1
  <2> HIDE DEF upto
  <2> QED
    BY <2>1, <2>2
<1> HIDE DEF size, upto
<1>6. /\ FrameSizes(len) \in Seq(Nat) /\ Len(FrameSizes(len)) = c
      /\ \A i \in 1 .. c : FrameSizes(len)[i] = size(i)
  <2>0. \A i \in 1 .. c : size(i) \in Nat
    BY <1>5
  <2>1. FrameSizes(len) \in [1 .. c -> Nat]
    BY <1>2, <2>0
  <2>2. \A i \in 1 .. c : FrameSizes(len)[i] = size(i)
    BY <1>2
  <2> HIDE <1>2
  <2> QED
    BY <1>3, <2>1, <2>2
<1> DEFINE s == Sums(FrameSizes(len))
           S == {k \in 0 .. c : s[k] = upto(k)}
<1>7. AreSums(s, FrameSizes(len), c)
  BY <1>6, SumsAreSums
<1> HIDE DEF s
<1>8. 0 \in S
  BY <1>3, <1>4, <1>7 DEF AreSums
<1>9. \A k \in 1 .. c : k - 1 \in S => k \in S
  <2>1. SUFFICES ASSUME NEW k \in 1 .. c, k - 1 \in S PROVE s[k] = upto(k)
    BY <1>3
  <2>2. s[k] = s[k - 1] + FrameSizes(len)[k]
    BY <1>7 DEF AreSums
  <2>3. s[k - 1] = upto(k - 1)
    BY <2>1
  <2>4. FrameSizes(len)[k] = upto(k) - upto(k - 1)
    BY <1>5, <1>6
  <2>5. upto(k) \in Nat /\ upto(k - 1) \in Nat
    <3>1. k \in 0 .. c /\ k - 1 \in 0 .. c
      BY <1>3
    <3> QED
      BY <1>4, <3>1
  <2> QED
    BY <2>2, <2>3, <2>4, <2>5
<1> HIDE DEF S
<1>10. \A k \in 0 .. c : k \in S
  <2>1. c \in Nat
    BY <1>3
  <2> QED
    BY <1>8, <1>9, <2>1, SetInduction, Zenon
<1>11. s[c] = len
  <2>1. c \in S
    BY <1>3, <1>10
  <2> QED
    BY <1>4, <2>1 DEF S
<1>12. \A i \in 1 .. c : FrameSizes(len)[i] \in 1 .. M
  BY <1>5, <1>6
<1> QED
  BY <1>6, <1>11, <1>12 DEF c, s, M

(* The frames of one message.                                              *)
LEMMA SendFacts ==
  ASSUME NEW m \in Messages
  PROVE  /\ Send(m) \in Seq(AnyFrame)
         /\ Sums(Lengths(Send(m)))[Len(Send(m))] = m.len
         /\ \A i \in DOMAIN Send(m) :
              /\ Send(m)[i].fin <=> i = Len(Send(m))
              /\ Send(m)[i].op = m.op
              /\ m.op = BINARY =>
                   Send(m)[i].len \in 1 .. MAX_BINARY_FRAME_SIZE
         /\ FitsOneFrame(m) => Len(Send(m)) = 1 /\ Send(m)[1].len = m.len
<1>1. m.op \in {TEXT, BINARY} /\ m.len \in Nat
  BY WebSocketAssumption DEF TEXT, BINARY
<1>2. ASSUME NEW op \in {TEXT, BINARY}, NEW len \in Nat, NEW fin \in BOOLEAN
      PROVE  /\ SendFrame(op, len, fin) \in AnyFrame
             /\ SendFrame(op, len, fin).fin = fin
             /\ SendFrame(op, len, fin).op = op
             /\ SendFrame(op, len, fin).len = len
  <2>1. SendFrame(op, len, fin) \in AnyFrame
    BY DEF AnyFrame
  <2> QED
    BY <2>1 DEF SendFrame
<1>3. CASE m.op = TEXT
  <2> DEFINE f == SendFrame(TEXT, m.len, TRUE)
  <2>1. Send(m) = <<f>>
    BY <1>3 DEF Send
  <2>2. /\ f \in AnyFrame /\ f.fin = TRUE /\ f.op = TEXT /\ f.len = m.len
    BY <1>1, <1>2
  <2> HIDE DEF f
  <2>3. <<f>> \in Seq(AnyFrame) /\ Len(<<f>>) = 1
    BY <2>2
  <2>4. Sums(Lengths(<<f>>))[1] = m.len
    <3>1. AreSums(Sums(Lengths(<<f>>)), Lengths(<<f>>), 1)
      BY <2>3, CountsAreNatural, SumsAreSums
    <3>2. Lengths(<<f>>)[1] = m.len
      BY <2>2 DEF Lengths
    <3>3. /\ Sums(Lengths(<<f>>))[0] = 0
          /\ Sums(Lengths(<<f>>))[1] =
               Sums(Lengths(<<f>>))[0] + Lengths(<<f>>)[1]
      BY <3>1 DEF AreSums
    <3> QED
      BY <1>1, <3>2, <3>3
  <2> QED
    BY <1>3, <2>1, <2>2, <2>3, <2>4 DEF TEXT, BINARY
<1>4. CASE m.op = BINARY
  <2> DEFINE sizes == FrameSizes(m.len)
             c == FramesCount(m.len)
  <2>1. /\ sizes \in Seq(Nat) /\ Len(sizes) = c
        /\ \A i \in 1 .. c : sizes[i] \in 1 .. MAX_BINARY_FRAME_SIZE
        /\ Sums(sizes)[c] = m.len
    BY <1>1, FrameSizesFacts
  <2>2. Send(m) =
          [i \in DOMAIN sizes |-> SendFrame(BINARY, sizes[i], i = Len(sizes))]
    BY <1>4 DEF Send, TEXT, BINARY
  <2>3. FitsOneFrame(m) => c = 1
    BY <1>1, <1>4 DEF FitsOneFrame, FramesCount, MAX_BINARY_FRAME_SIZE
  <2> HIDE DEF sizes, c
  <2>4. DOMAIN sizes = 1 .. c /\ c \in Nat
    BY <2>1
  <2>5. \A i \in 1 .. c :
          /\ Send(m)[i] = SendFrame(BINARY, sizes[i], i = c)
          /\ Send(m)[i] \in AnyFrame
          /\ Send(m)[i].fin = (i = c)
          /\ Send(m)[i].op = BINARY
          /\ Send(m)[i].len = sizes[i]
    <3>1. ASSUME NEW i \in 1 .. c
          PROVE  Send(m)[i] = SendFrame(BINARY, sizes[i], i = c)
      BY <2>1, <2>2, <2>4
    <3>2. ASSUME NEW i \in 1 .. c, NEW fin \in BOOLEAN
          PROVE  /\ SendFrame(BINARY, sizes[i], fin) \in AnyFrame
                 /\ SendFrame(BINARY, sizes[i], fin).fin = fin
                 /\ SendFrame(BINARY, sizes[i], fin).op = BINARY
                 /\ SendFrame(BINARY, sizes[i], fin).len = sizes[i]
      <4>1. sizes[i] \in Nat
        BY <2>1, <2>4
      <4> QED
        BY <1>2, <4>1
    <3>3. \A i : (i = c) \in BOOLEAN
      OBVIOUS
    <3> QED
      BY <3>1, <3>2, <3>3, ZenonT(40)
  <2>6. Send(m) \in Seq(AnyFrame) /\ Len(Send(m)) = c
    <3>1. Send(m) \in [1 .. c -> AnyFrame]
      BY <2>2, <2>4, <2>5
    <3> QED
      BY <2>4, <3>1
  <2>7. Lengths(Send(m)) = sizes
    <3>1. /\ DOMAIN Send(m) = 1 .. c
          /\ \A i \in 1 .. c : Send(m)[i].len = sizes[i]
      BY <2>5, <2>6
    <3>2. sizes = [i \in 1 .. c |-> sizes[i]]
      BY <2>1, <2>4
    <3> QED
      BY <3>1, <3>2 DEF Lengths
  <2>8. FitsOneFrame(m) => Send(m)[1].len = m.len
    <3>1. SUFFICES ASSUME c = 1 PROVE Send(m)[1].len = m.len
      BY <2>3
    <3>2. AreSums(Sums(sizes), sizes, 1)
      BY <2>1, <3>1, SumsAreSums
    <3>3. m.len = sizes[1]
      BY <2>1, <3>1, <3>2 DEF AreSums
    <3> QED
      BY <2>5, <3>1, <3>3
  <2>9. ASSUME NEW i \in DOMAIN Send(m)
        PROVE  /\ Send(m)[i].fin <=> i = Len(Send(m))
               /\ Send(m)[i].op = m.op
               /\ Send(m)[i].len \in 1 .. MAX_BINARY_FRAME_SIZE
    <3>1. i \in 1 .. c
      BY <2>4, <2>6
    <3> QED
      BY <1>4, <2>1, <2>5, <2>6, <3>1
  <2>10. FitsOneFrame(m) => Len(Send(m)) = 1
    BY <2>3, <2>6
  <2>11. Sums(Lengths(Send(m)))[Len(Send(m))] = m.len
    BY <2>1, <2>6, <2>7
  <2> QED
    BY <2>6, <2>8, <2>9, <2>10, <2>11
<1> QED
  BY <1>1, <1>3, <1>4

(* Whose length field is read as it was meant: every frame of a client,    *)
(* and those that have none.                                               *)
LEMMA LengthsRead ==
  /\ \A f \in ClientFrames : LengthIsRead(ClientFrame(f))
  /\ \A op, fin : \A len \in 0 .. 125 : LengthIsRead(SendFrame(op, len, fin))
<1>1. ASSUME NEW f \in ClientFrames PROVE LengthIsRead(ClientFrame(f))
  BY DEF LengthIsRead, ClientFrame
<1>2. ASSUME NEW op, NEW fin, NEW len \in 0 .. 125
      PROVE  LengthIsRead(SendFrame(op, len, fin))
  <2>1. Len7(len) = len /\ ExtBytes(len) = 0
    BY DEF Len7, ExtBytes
  <2>2. NetworkOrder(len, 0) = <<>> /\ Reverse(<<>>) = <<>>
    <3>1. 1 .. 0 = {}
      OBVIOUS
    <3>2. NetworkOrder(len, 0) = <<>>
      BY <3>1 DEF NetworkOrder
    <3>3. Reverse(<<>>) = <<>>
      BY DEF Reverse
    <3> QED
      BY <3>2, <3>3
  <2>3. LengthField(len, 0) = <<>>
    BY <2>2 DEF LengthField
  <2> QED
    BY <2>1, <2>2, <2>3 DEF LengthIsRead, SendFrame
<1> QED
  BY <1>1, <1>2

-----------------------------------------------------------------------------
(* The reader. *)

(* Whoever made the stream, it consists of frames.                           *)
LEMMA StreamType ==
  ASSUME StreamIsMade
  PROVE  stream \in Seq(AnyFrame)
<1>1. CASE FromClient
  <2>1. stream \in Seq({ClientFrame(f) : f \in ClientFrames})
    BY <1>1 DEF StreamIsMade, ClientStreams
  <2>2. {ClientFrame(f) : f \in ClientFrames} \subseteq AnyFrame
    BY DEF AnyFrame
  <2> QED
    BY <2>1, <2>2
<1>2. CASE ~FromClient
  BY <1>2, SendFacts DEF StreamIsMade
<1> QED
  BY <1>1, <1>2

(* Pieces and bytes of the stream there is.                                *)
LEMMA StreamAmounts ==
  ASSUME StreamIsMade
  PROVE  /\ Len(stream) \in Nat /\ DOMAIN stream = 1 .. Len(stream)
         /\ \A i \in 1 .. Len(stream) :
              /\ stream[i].fin \in BOOLEAN /\ stream[i].op \in 0 .. 15
              /\ stream[i].len \in Nat
         /\ PiecesOf(0) = 0
         /\ \A n \in 0 .. Len(stream) : PiecesOf(n) \in Nat
         /\ \A n \in 0 .. Len(stream) : \A m \in 0 .. n :
              /\ PiecesOf(m) <= PiecesOf(n)
              /\ m < n => PiecesOf(m) < PiecesOf(n)
         /\ \A n \in 0 .. Len(stream) : Bytes(n + 1, n) = 0
         /\ \A n \in 0 .. Len(stream) : \A m \in 1 .. n :
              Bytes(m, n) = Bytes(m, n - 1) + stream[n].len
         /\ \A n \in 0 .. Len(stream) : \A m \in 1 .. n + 1 :
              Bytes(m, n) \in Nat
<1> DEFINE P(n) == Sums(Counts(stream))[n]
           L(n) == Sums(Lengths(stream))[n]
<1>1. /\ stream \in Seq(AnyFrame)
      /\ Len(stream) \in Nat /\ DOMAIN stream = 1 .. Len(stream)
  BY StreamType
<1>2. \A n : PiecesOf(n) = P(n)
  BY DEF PiecesOf, Counts
<1>3. \A m, n : Bytes(m, n) = L(n) - L(m - 1)
  BY DEF Bytes, Lengths
<1>4. \A n \in 0 .. Len(stream) : \A m \in 0 .. n :
        /\ P(0) = 0 /\ P(m) \in Nat /\ P(n) \in Nat /\ P(m) <= P(n)
        /\ m < n => P(m) < P(n)
        /\ L(m) \in Nat /\ L(n) \in Nat /\ L(m) <= L(n)
        /\ n > 0 => L(n) = L(n - 1) + stream[n].len
  <2>1. SUFFICES ASSUME NEW n \in 0 .. Len(stream), NEW m \in 0 .. n
                 PROVE  /\ P(0) = 0 /\ P(m) \in Nat /\ P(n) \in Nat
                        /\ P(m) <= P(n)
                        /\ m < n => P(m) < P(n)
                        /\ L(m) \in Nat /\ L(n) \in Nat /\ L(m) <= L(n)
                        /\ n > 0 => L(n) = L(n - 1) + stream[n].len
    OBVIOUS
  <2>2. m \in 0 .. Len(stream) /\ n \in m .. Len(stream)
    BY <1>1, <2>1
  <2> QED
    BY <1>1, <2>2, Amounts
<1> HIDE DEF P, L
<1>5. \A i \in 1 .. Len(stream) :
        /\ stream[i].fin \in BOOLEAN /\ stream[i].op \in 0 .. 15
        /\ stream[i].len \in Nat
  BY <1>1, FrameFacts
<1>6. /\ PiecesOf(0) = 0
      /\ \A n \in 0 .. Len(stream) : PiecesOf(n) \in Nat
      /\ \A n \in 0 .. Len(stream) : \A m \in 0 .. n :
           /\ PiecesOf(m) <= PiecesOf(n)
           /\ m < n => PiecesOf(m) < PiecesOf(n)
  <2>1. 0 \in 0 .. Len(stream) /\ \A n \in 0 .. Len(stream) : n \in 0 .. n
    BY <1>1
  <2> QED
    BY <1>2, <1>4, <2>1
<1>7. \A n \in 0 .. Len(stream) : Bytes(n + 1, n) = 0
  <2>1. SUFFICES ASSUME NEW n \in 0 .. Len(stream)
                 PROVE  L(n) - L(n + 1 - 1) = 0
    BY <1>3
  <2>2. L(n) \in Nat /\ n + 1 - 1 = n
    BY <1>1, <1>4
  <2> QED
    BY <2>2
<1>8. \A n \in 0 .. Len(stream) : \A m \in 1 .. n :
        Bytes(m, n) = Bytes(m, n - 1) + stream[n].len
  <2>1. SUFFICES ASSUME NEW n \in 0 .. Len(stream), NEW m \in 1 .. n
                 PROVE  L(n) - L(m - 1) =
                          (L(n - 1) - L(m - 1)) + stream[n].len
    BY <1>3
  <2>2. /\ n \in 1 .. Len(stream) /\ m - 1 \in 0 .. n /\ n - 1 \in 0 .. n
        /\ n \in 0 .. n
    BY <1>1
  <2>a. /\ n \in 0 .. Len(stream) /\ n > 0
        /\ m - 1 \in 0 .. n /\ n - 1 \in 0 .. n /\ n \in 0 .. n
    BY <1>1, <2>2
  <2>b. L(n) \in Nat /\ L(m - 1) \in Nat /\ L(n - 1) \in Nat
    BY <1>4, <2>a
  <2>c. stream[n].len \in Nat
    BY <1>5, <2>2
  <2>3. /\ L(n) \in Nat /\ L(m - 1) \in Nat /\ L(n - 1) \in Nat
        /\ stream[n].len \in Nat /\ L(n) = L(n - 1) + stream[n].len
    BY <1>4, <2>a, <2>b, <2>c
  <2> QED
    BY <2>3
<1>9. \A n \in 0 .. Len(stream) : \A m \in 1 .. n + 1 : Bytes(m, n) \in Nat
  <2>1. SUFFICES ASSUME NEW n \in 0 .. Len(stream), NEW m \in 1 .. n + 1
                 PROVE  L(n) - L(m - 1) \in Nat
    BY <1>3
  <2>2. m - 1 \in 0 .. n
    BY <1>1
  <2>3. L(n) \in Nat /\ L(m - 1) \in Nat /\ L(m - 1) <= L(n)
    BY <1>4, <2>2
  <2> QED
    BY <2>3
<1> QED
  BY <1>1, <1>5, <1>6, <1>7, <1>8, <1>9

(* Where the stream is left alone, so are its pieces, bytes and messages.  *)
LEMMA StreamStays ==
  ASSUME stream' = stream
  PROVE  /\ \A n : PiecesOf(n)' = PiecesOf(n)
         /\ \A a, b : Bytes(a, b)' = Bytes(a, b)
         /\ \A a, b : IsMessage(a, b)' <=> IsMessage(a, b)
         /\ \A a, r : IsBegun(a, r)' <=> IsBegun(a, r)
  BY DEF PiecesOf, Bytes, IsMessage, IsBegun

(* The reader's frame is the one behind the whole frames it has taken.     *)
LEMMA ReadingIs ==
  ASSUME StreamIsMade, NEW r \in 0 .. Len(stream) - 1,
         PiecesOf(r) <= taken, taken < PiecesOf(r + 1), taken \in Nat
  PROVE  Reading = r + 1
<1> DEFINE Holds(i) == PiecesOf(i - 1) <= taken /\ taken < PiecesOf(i)
<1>1. /\ r + 1 \in DOMAIN stream /\ r + 1 - 1 = r /\ Len(stream) \in Nat
      /\ DOMAIN stream = 1 .. Len(stream)
  BY StreamAmounts
<1>2. Holds(r + 1)
  BY <1>1
<1>3. Reading = CHOOSE i \in DOMAIN stream : Holds(i)
  BY Zenon DEF Reading
<1> HIDE DEF Holds
<1>4. Reading \in DOMAIN stream /\ Holds(Reading)
  BY <1>1, <1>2, <1>3, Zenon
<1> DEFINE i == Reading
<1> HIDE DEF i
<1>5. /\ i \in 1 .. Len(stream)
      /\ PiecesOf(i - 1) <= taken /\ taken < PiecesOf(i)
  BY <1>1, <1>4 DEF Holds, i
<1>6. /\ i \in 0 .. Len(stream) /\ i - 1 \in 0 .. Len(stream)
      /\ r \in 0 .. Len(stream) /\ r + 1 \in 0 .. Len(stream)
  BY <1>1, <1>5
<1>7. ~ (i <= r)
  <2>1. SUFFICES ASSUME i <= r PROVE FALSE
    OBVIOUS
  <2>2. i \in 0 .. r
    BY <1>5, <1>6, <2>1
  <2>3. /\ PiecesOf(i) <= PiecesOf(r)
        /\ PiecesOf(i) \in Nat /\ PiecesOf(r) \in Nat
    BY <1>6, <2>2, StreamAmounts
  <2> QED
    BY <1>5, <2>3
<1>8. ~ (r + 1 <= i - 1)
  <2>1. SUFFICES ASSUME r + 1 <= i - 1 PROVE FALSE
    OBVIOUS
  <2>2. r + 1 \in 0 .. i - 1
    BY <1>1, <1>5, <1>6, <2>1
  <2>3. /\ PiecesOf(r + 1) <= PiecesOf(i - 1)
        /\ PiecesOf(r + 1) \in Nat /\ PiecesOf(i - 1) \in Nat
    BY <1>6, <2>2, StreamAmounts
  <2> QED
    BY <1>5, <2>3
<1>9. i = r + 1
  BY <1>1, <1>5, <1>7, <1>8
<1> QED
  BY <1>9 DEF i

(* What recv finds while the reader is in a frame.                         *)
LEMMA InFrame ==
  ASSUME IInv, NEW r \in 0 .. Len(stream), HasTaken(r), taken < arrived
  PROVE  /\ r < Len(stream) /\ Reading = r + 1 /\ Frame = stream[r + 1]
         /\ PiecesOf(r) <= taken /\ taken < PiecesOf(r + 1)
<1>1. /\ StreamIsMade /\ taken \in Nat /\ arrived \in Nat
      /\ arrived <= PiecesOf(Len(stream)) /\ Len(stream) \in Nat
      /\ PiecesOf(Len(stream)) \in Nat
  <2>1. StreamIsMade /\ TypeOK
    BY DEF IInv
  <2>2. Len(stream) \in Nat /\ PiecesOf(Len(stream)) \in Nat
    BY <2>1, StreamAmounts
  <2>3. arrived \in 0 .. PiecesOf(Len(stream)) /\ taken \in 0 .. arrived
    BY <2>1 DEF TypeOK
  <2> QED
    BY <2>1, <2>2, <2>3
<1>2. r < Len(stream)
  BY <1>1 DEF HasTaken
<1>3. PiecesOf(r) <= taken /\ taken < PiecesOf(r + 1)
  BY <1>2 DEF HasTaken
<1>4. Reading = r + 1
  BY <1>1, <1>2, <1>3, ReadingIs
<1> QED
  BY <1>2, <1>3, <1>4 DEF Frame

(* The stream is still made by one end.                                    *)
LEMMA StreamIsMadeStep ==
  ASSUME IInv, [Next]_vars
  PROVE  StreamIsMade'
<1> USE DEF readerVars
<1>1. CASE ClientSends
  <2>1. PICK f \in ClientFrames : stream' = Append(stream, ClientFrame(f))
    BY <1>1 DEF ClientSends
  <2>2. /\ FromClient /\ origin' = origin
        /\ stream \in ClientStreams
    BY <1>1 DEF ClientSends, IInv, StreamIsMade
  <2>3. ASSUME NEW S, NEW x \in S, stream \in Seq(S),
               stream' = Append(stream, x)
        PROVE  stream' \in Seq(S)
    BY <2>3
  <2>4. ClientFrame(f) \in {ClientFrame(c) : c \in ClientFrames}
    OBVIOUS
  <2>5. stream' \in ClientStreams
    BY <2>1, <2>2, <2>3, <2>4, Zenon DEF ClientStreams
  <2>6. ClientStreams' = ClientStreams /\ FromClient'
    BY <2>2 DEF ClientStreams, FromClient
  <2> QED
    BY <2>5, <2>6 DEF StreamIsMade
<1>2. CASE ~ClientSends
  <2>1. stream' = stream /\ origin' = origin
    BY <1>2 DEF Next, Arrive, ReadFrame, RecvFails, RecvPiece, RecvLastPiece,
                vars
  <2> QED
    BY <2>1 DEF IInv, StreamIsMade, FromClient, NoMessage
<1> QED
  BY <1>1, <1>2

(* The initial states satisfy the invariant.                               *)
LEMMA InitIInv == Init => IInv
<1>1. SUFFICES ASSUME Init PROVE IInv
  OBVIOUS
<1>2. StreamIsMade
  <2>1. CASE origin \in Messages /\ stream = Send(origin)
    <3>1. origin.op \in {1, 2}
      BY <2>1, WebSocketAssumption
    <3>2. ~FromClient
      BY <3>1 DEF FromClient, NoMessage
    <3> QED
      BY <2>1, <3>2 DEF StreamIsMade
  <2>2. CASE origin = NoMessage /\ stream = <<>>
    <3>1. \A S : <<>> \in Seq(S)
      OBVIOUS
    <3> QED
      BY <2>2, <3>1 DEF StreamIsMade, FromClient, ClientStreams
  <2> QED
    BY <1>1, <2>1, <2>2 DEF Init
<1>3. /\ arrived = 0 /\ part = FALSE /\ taken = 0
      /\ first = TRUE /\ opcode = 0 /\ received = 0
      /\ delivered = <<>> /\ outcome = "waiting"
  BY <1>1 DEF Init
<1>4. Len(stream) \in Nat /\ PiecesOf(0) = 0 /\ PiecesOf(Len(stream)) \in Nat
  BY <1>2, StreamAmounts
<1>5. TypeOK
  <2>1. <<>> \in Seq([op : {TEXT, BINARY}, len : Nat])
    OBVIOUS
  <2>2. arrived \in 0 .. PiecesOf(Len(stream)) /\ taken \in 0 .. arrived
    BY <1>3, <1>4
  <2> QED
    BY <1>3, <2>1, <2>2 DEF TypeOK
<1>6. HasTaken(0)
  <2>1. Len(stream) # 0 => PiecesOf(0) < PiecesOf(0 + 1)
    <3>1. SUFFICES ASSUME Len(stream) # 0 PROVE PiecesOf(0) < PiecesOf(1)
      OBVIOUS
    <3>2. 1 \in 0 .. Len(stream) /\ 0 \in 0 .. 1
      BY <1>4, <3>1
    <3> QED
      BY <1>2, <3>2, StreamAmounts
  <2> QED
    BY <1>3, <1>4, <2>1 DEF HasTaken
<1>7. ReaderInStep
  <2> DEFINE end == [j \in 0 .. 0 |-> 0]
  <2>1. Len(delivered) = 0 /\ DOMAIN delivered = {}
    BY <1>3
  <2>2. end \in [0 .. Len(delivered) -> 0 .. 0] /\ end[0] = 0
    BY <2>1
  <2> HIDE DEF end
  <2>3. Returned(end)
    BY <2>1, <2>2 DEF Returned
  <2>4. InStep(0, end)
    BY <1>3, <1>4, <2>1, <2>2, <2>3 DEF InStep, GaveUp
  <2>5. 0 \in 0 .. Len(stream)
    BY <1>4
  <2> QED
    BY <1>6, <2>2, <2>4, <2>5 DEF ReaderInStep
<1> QED
  BY <1>2, <1>5, <1>7 DEF IInv

(* A new frame comes after all there was.                                  *)
LEMMA ClientSendsKeeps ==
  ASSUME StreamIsMade, NEW f \in ClientFrames,
         stream' = Append(stream, ClientFrame(f))
  PROVE  /\ Len(stream') = Len(stream) + 1
         /\ \A i \in 1 .. Len(stream) : stream'[i] = stream[i]
         /\ \A n \in 0 .. Len(stream) : PiecesOf(n)' = PiecesOf(n)
         /\ \A n \in {Len(stream) + 1} :
              PiecesOf(n)' \in Nat /\ PiecesOf(n - 1) < PiecesOf(n)'
         /\ \A a \in 1 .. Len(stream) + 1, b \in 0 .. Len(stream) :
              Bytes(a, b)' = Bytes(a, b)
         /\ \A a \in 1 .. Len(stream), b \in 1 .. Len(stream) :
              IsMessage(a, b)' <=> IsMessage(a, b)
<1> DEFINE q == stream
           x == ClientFrame(f)
<1>1. q \in Seq(AnyFrame) /\ x \in AnyFrame
  BY StreamType DEF AnyFrame
<1>2. stream' = Append(q, x)
  OBVIOUS
<1> HIDE DEF x
<1>3. /\ Len(q) \in Nat /\ stream' \in Seq(AnyFrame)
      /\ Len(stream') = Len(q) + 1
      /\ \A i \in 1 .. Len(q) : stream'[i] = q[i]
  BY <1>1, <1>2
<1>4. \A n \in 0 .. Len(q) : /\ Sums(Counts(stream'))[n] = Sums(Counts(q))[n]
                             /\ Sums(Lengths(stream'))[n] = Sums(Lengths(q))[n]
  BY <1>1, <1>2, AmountsAppend
<1>5. /\ \A n : PiecesOf(n) = Sums(Counts(q))[n]
      /\ \A n : PiecesOf(n)' = Sums(Counts(stream'))[n]
      /\ \A a, b : Bytes(a, b) = Sums(Lengths(q))[b] - Sums(Lengths(q))[a - 1]
      /\ \A a, b : Bytes(a, b)' = Sums(Lengths(stream'))[b]
                                    - Sums(Lengths(stream'))[a - 1]
  BY DEF PiecesOf, Counts, Bytes, Lengths
<1>6. ASSUME NEW n \in {Len(q) + 1}
      PROVE  PiecesOf(n)' \in Nat /\ PiecesOf(n - 1) < PiecesOf(n)'
  <2>1. /\ n - 1 \in 0 .. Len(q) /\ n - 1 \in 0 .. Len(stream')
        /\ n \in n - 1 .. Len(stream') /\ n - 1 < n
    BY <1>3
  <2>2. /\ Sums(Counts(stream'))[n] \in Nat
        /\ Sums(Counts(stream'))[n - 1] < Sums(Counts(stream'))[n]
    BY <1>3, <2>1, Amounts
  <2> QED
    BY <1>4, <1>5, <2>1, <2>2
<1>7. ASSUME NEW a \in 1 .. Len(q) + 1, NEW b \in 0 .. Len(q)
      PROVE  Bytes(a, b)' = Bytes(a, b)
  <2>1. a - 1 \in 0 .. Len(q)
    BY <1>3
  <2> QED
    BY <1>4, <1>5, <2>1
<1>8. ASSUME NEW a \in 1 .. Len(q), NEW b \in 1 .. Len(q)
      PROVE  IsMessage(a, b)' <=> IsMessage(a, b)
  <2>1. \A i \in a .. b : stream'[i] = q[i]
    BY <1>3
  <2> QED
    BY <2>1 DEF IsMessage
<1>9. \A n \in 0 .. Len(q) : PiecesOf(n)' = PiecesOf(n)
  BY <1>4, <1>5
<1> QED
  BY <1>3, <1>6, <1>7, <1>8, <1>9

(* What was returned stays so.                                             *)
LEMMA ReturnedStays ==
  ASSUME stream' = stream, delivered' = delivered
  PROVE  \A end : Returned(end)' <=> Returned(end)
  BY DEF Returned, Bytes, IsMessage

(* What the type invariant says of the parts the wire and the reader share.*)
LEMMA Places ==
  ASSUME TypeOK, StreamIsMade
  PROVE  /\ PiecesOf(Len(stream)) \in Nat /\ Len(stream) \in Nat
         /\ arrived \in Nat /\ arrived <= PiecesOf(Len(stream))
         /\ taken \in Nat /\ taken <= arrived
         /\ Len(delivered) \in Nat /\ DOMAIN delivered = 1 .. Len(delivered)
<1>1. PiecesOf(Len(stream)) \in Nat /\ Len(stream) \in Nat
  BY StreamAmounts
<1>2. arrived \in 0 .. PiecesOf(Len(stream)) /\ taken \in 0 .. arrived
  BY DEF TypeOK
<1>3. delivered \in Seq([op : {TEXT, BINARY}, len : Nat])
  BY DEF TypeOK
<1>4. Len(delivered) \in Nat /\ DOMAIN delivered = 1 .. Len(delivered)
  BY <1>3
<1> QED
  BY <1>1, <1>2, <1>4

(* A client writes a frame: the reader is where it was.                    *)
LEMMA ClientSendsStep ==
  ASSUME IInv, ClientSends
  PROVE  TypeOK' /\ ReaderInStep'
<1> USE DEF readerVars
<1>0. TypeOK /\ StreamIsMade /\ ReaderInStep
  BY DEF IInv
<1>1. PICK f \in ClientFrames : stream' = Append(stream, ClientFrame(f))
  BY DEF ClientSends
<1>2. /\ outcome = "waiting"
      /\ arrived' = arrived /\ part' = part /\ taken' = taken
      /\ first' = first /\ opcode' = opcode /\ received' = received
      /\ delivered' = delivered /\ outcome' = outcome
  BY DEF ClientSends
<1> DEFINE N == Len(stream)
<1>3. /\ N \in Nat /\ arrived \in Nat /\ taken \in Nat /\ taken <= arrived
      /\ PiecesOf(N) \in Nat /\ arrived <= PiecesOf(N)
  BY <1>0, Places
<1>4. /\ Len(stream') = N + 1
      /\ \A i \in 1 .. N : stream'[i] = stream[i]
      /\ \A n \in 0 .. N : PiecesOf(n)' = PiecesOf(n)
      /\ \A n \in {N + 1} :
           PiecesOf(n)' \in Nat /\ PiecesOf(n - 1) < PiecesOf(n)'
      /\ \A a \in 1 .. N + 1, b \in 0 .. N : Bytes(a, b)' = Bytes(a, b)
      /\ \A a \in 1 .. N, b \in 1 .. N :
           IsMessage(a, b)' <=> IsMessage(a, b)
  BY <1>0, <1>1, ClientSendsKeeps
<1> HIDE DEF N
<1>5. TypeOK'
  <2>1. PICK n \in {N + 1} : n = N + 1
    OBVIOUS
  <2>2. n - 1 = N /\ PiecesOf(n)' \in Nat /\ PiecesOf(N) < PiecesOf(n)'
    <3>1. n - 1 = N
      BY <1>3
    <3> QED
      BY <1>4, <3>1
  <2>3. PiecesOf(Len(stream))' = PiecesOf(n)'
    BY <1>4, <2>1 DEF PiecesOf
  <2>4. arrived' \in 0 .. PiecesOf(Len(stream))' /\ taken' \in 0 .. arrived'
    BY <1>2, <1>3, <2>2, <2>3
  <2> QED
    BY <1>0, <1>2, <2>4 DEF TypeOK
<1>6. PICK r \in 0 .. N :
        /\ HasTaken(r)
        /\ \E end \in [0 .. Len(delivered) -> 0 .. r] : InStep(r, end)
  BY <1>0 DEF ReaderInStep, N
<1>7. PICK end \in [0 .. Len(delivered) -> 0 .. r] : InStep(r, end)
  BY <1>6
<1>8. /\ Returned(end) /\ end[Len(delivered)] = r /\ taken = PiecesOf(r)
  BY <1>2, <1>7 DEF InStep
<1>9. r \in 0 .. N + 1 /\ r # N + 1 /\ r + 1 \in 1 .. N + 1
  BY <1>3
<1>10. HasTaken(r)'
  <2>1. PiecesOf(r)' = PiecesOf(r) /\ PiecesOf(r) \in Nat
    BY <1>0, <1>4, StreamAmounts DEF N
  <2>2. taken' < PiecesOf(r + 1)'
    <3>1. CASE r = N
      BY <1>2, <1>3, <1>4, <1>8, <3>1
    <3>2. CASE r # N
      <4>1. r + 1 \in 0 .. N /\ r \in 0 .. r + 1 /\ r < r + 1
        BY <1>3, <3>2
      <4>2. PiecesOf(r) < PiecesOf(r + 1)
        BY <1>0, <4>1, StreamAmounts DEF N
      <4> QED
        BY <1>2, <1>4, <1>8, <4>1, <4>2
    <3> QED
      BY <3>1, <3>2
  <2>3. PiecesOf(r)' <= taken'
    BY <1>2, <1>8, <2>1
  <2> QED
    BY <1>4, <1>9, <2>2, <2>3 DEF HasTaken
<1>11. Returned(end)'
  <2>1. Len(delivered) \in Nat /\ DOMAIN delivered = 1 .. Len(delivered)
    BY <1>0, Places
  <2>2. ASSUME NEW j \in DOMAIN delivered
        PROVE  /\ IsMessage(end[j - 1] + 1, end[j])'
               /\ delivered[j] =
                    [op |-> stream'[end[j - 1] + 1].op,
                     len |-> Bytes(end[j - 1] + 1, end[j])']
    <3> DEFINE a == end[j - 1] + 1
               b == end[j]
    <3>1. end[j - 1] \in 0 .. r /\ end[j] \in 0 .. r
      BY <2>1
    <3>2. /\ IsMessage(a, b)
          /\ delivered[j] = [op |-> stream[a].op, len |-> Bytes(a, b)]
      BY <1>8 DEF Returned
    <3>3. a <= b
      BY <3>2 DEF IsMessage
    <3>a. r \in Nat /\ r <= N
      BY <1>3
    <3>b. a \in 1 .. r + 1 /\ b \in 0 .. r
      BY <3>1, <3>a
    <3> HIDE DEF a, b
    <3>4. a \in 1 .. N /\ b \in 1 .. N
      BY <1>3, <3>3, <3>a, <3>b
    <3>5. /\ IsMessage(a, b)' /\ Bytes(a, b)' = Bytes(a, b)
          /\ stream'[a] = stream[a]
      <4>1. a \in 1 .. N + 1 /\ b \in 0 .. N
        BY <1>3, <3>4
      <4> QED
        BY <1>4, <3>2, <3>4, <4>1
    <3> QED
      BY <3>2, <3>5 DEF a, b
  <2>3. end[0] = 0
    BY <1>8 DEF Returned
  <2> QED
    BY <1>2, <2>2, <2>3 DEF Returned
<1>12. InStep(r, end)'
  <2>1. PiecesOf(r)' = PiecesOf(r)
    BY <1>4
  <2> QED
    BY <1>2, <1>8, <1>11, <2>1 DEF InStep, GaveUp
<1>13. r \in (0 .. Len(stream))'
  BY <1>4, <1>9
<1> QED
  BY <1>2, <1>5, <1>10, <1>12, <1>13 DEF ReaderInStep

(* The whole frames that were taken stay so.                               *)
LEMMA HasTakenStays ==
  ASSUME stream' = stream, taken' = taken
  PROVE  \A r : HasTaken(r)' <=> HasTaken(r)
  BY DEF HasTaken, PiecesOf

(* A number within its bound.                                              *)
LEMMA InRange == \A n \in Nat : \A a \in Nat : a <= n => a \in 0 .. n
  OBVIOUS

(* A step that leaves the stream alone keeps the type invariant if what it *)
(* changes has its type.                                                   *)
LEMMA TypeOKStays ==
  ASSUME stream' = stream, PiecesOf(Len(stream)) \in Nat,
         arrived' \in Nat, arrived' <= PiecesOf(Len(stream)),
         taken' \in Nat, taken' <= arrived',
         part' \in BOOLEAN, first' \in BOOLEAN,
         opcode' \in {0, TEXT, BINARY}, received' \in Nat,
         delivered' \in Seq([op : {TEXT, BINARY}, len : Nat]),
         outcome' \in {"waiting", "reading", "Failed to read", "out of step",
                       "Connection close frame received", "Make a pong",
                       "Unexpected opcode for initial frame",
                       "Expected continuation frame"}
  PROVE  TypeOK'
<1>1. PiecesOf(Len(stream))' = PiecesOf(Len(stream))
  BY DEF PiecesOf
<1>2. /\ arrived' \in 0 .. PiecesOf(Len(stream))
      /\ taken' \in 0 .. arrived'
  BY InRange, Zenon
<1> QED
  BY <1>1, <1>2 DEF TypeOK

(* More of the stream arrives.                                             *)
LEMMA ArriveStep ==
  ASSUME IInv, Arrive
  PROVE  TypeOK' /\ ReaderInStep'
<1> USE DEF readerVars
<1>0. TypeOK /\ StreamIsMade /\ ReaderInStep
  BY DEF IInv
<1>1. PICK n \in arrived .. PiecesOf(Len(stream)), p \in BOOLEAN :
        arrived' = n /\ part' = p
  BY DEF Arrive
<1>2. /\ outcome \in {"waiting", "reading"}
      /\ stream' = stream /\ taken' = taken
      /\ first' = first /\ opcode' = opcode /\ received' = received
      /\ delivered' = delivered /\ outcome' = outcome
  BY DEF Arrive
<1>3. /\ PiecesOf(Len(stream)) \in Nat
      /\ arrived' \in Nat /\ arrived' <= PiecesOf(Len(stream))
      /\ taken' \in Nat /\ taken' <= arrived'
  BY <1>0, <1>1, <1>2, Places
<1>4. TypeOK'
  <2>1. /\ first \in BOOLEAN /\ opcode \in {0, TEXT, BINARY}
        /\ received \in Nat
        /\ delivered \in Seq([op : {TEXT, BINARY}, len : Nat])
    BY <1>0 DEF TypeOK
  <2> QED
    BY <1>1, <1>2, <1>3, <2>1, TypeOKStays
<1>5. PICK r \in 0 .. Len(stream) :
        /\ HasTaken(r)
        /\ \E end \in [0 .. Len(delivered) -> 0 .. r] : InStep(r, end)
  BY <1>0 DEF ReaderInStep
<1>6. PICK end \in [0 .. Len(delivered) -> 0 .. r] : InStep(r, end)
  BY <1>5
<1>7. HasTaken(r)'
  BY <1>2, <1>5, HasTakenStays
<1>8. InStep(r, end)'
  BY <1>2, <1>6, StreamStays, ReturnedStays DEF InStep, GaveUp
<1> QED
  BY <1>2, <1>4, <1>7, <1>8 DEF ReaderInStep

(* read_frame is called: between messages.                                 *)
LEMMA ReadFrameStep ==
  ASSUME IInv, ReadFrame
  PROVE  TypeOK' /\ ReaderInStep'
<1>0. TypeOK /\ StreamIsMade /\ ReaderInStep
  BY DEF IInv
<1>1. /\ outcome = "waiting"
      /\ stream' = stream /\ arrived' = arrived /\ part' = part
      /\ taken' = taken /\ opcode' = opcode /\ delivered' = delivered
      /\ outcome' = "reading" /\ first' = TRUE /\ received' = 0
  BY DEF ReadFrame
<1>2. TypeOK'
  <2>1. /\ PiecesOf(Len(stream)) \in Nat
        /\ arrived' \in Nat /\ arrived' <= PiecesOf(Len(stream))
        /\ taken' \in Nat /\ taken' <= arrived'
    BY <1>0, <1>1, Places
  <2>2. /\ part \in BOOLEAN /\ opcode \in {0, TEXT, BINARY}
        /\ delivered \in Seq([op : {TEXT, BINARY}, len : Nat])
    BY <1>0 DEF TypeOK
  <2> QED
    BY <1>1, <2>1, <2>2, TypeOKStays
<1>3. PICK r \in 0 .. Len(stream) :
        /\ HasTaken(r)
        /\ \E end \in [0 .. Len(delivered) -> 0 .. r] : InStep(r, end)
  BY <1>0 DEF ReaderInStep
<1>4. PICK end \in [0 .. Len(delivered) -> 0 .. r] : InStep(r, end)
  BY <1>3
<1>5. HasTaken(r)'
  BY <1>1, <1>3, HasTakenStays
<1>6. InStep(r, end)'
  <2>1. Returned(end)' /\ end[Len(delivered)] = r
    BY <1>1, <1>4, ReturnedStays DEF InStep
  <2>2. IsBegun(r + 1, r)' /\ Bytes(r + 1, r)' = 0
    <3>1. r + 1 .. r = {} /\ Bytes(r + 1, r) = 0
      <4>1. Len(stream) \in Nat
        BY <1>0, StreamAmounts
      <4>2. Bytes(r + 1, r) = 0
        BY <1>0, StreamAmounts
      <4> QED
        BY <4>1, <4>2
    <3>2. IsBegun(r + 1, r)
      BY <3>1 DEF IsBegun
    <3> QED
      BY <1>1, <3>1, <3>2, StreamStays
  <2>3. ~ (r < r)
    BY <1>0, StreamAmounts
  <2> QED
    BY <1>1, <2>1, <2>2, <2>3 DEF InStep, GaveUp
<1> QED
  BY <1>1, <1>2, <1>5, <1>6 DEF ReaderInStep

(* recv returns less than it was asked for.                                *)
LEMMA RecvFailsStep ==
  ASSUME IInv, RecvFails
  PROVE  TypeOK' /\ ReaderInStep'
<1>0. TypeOK /\ StreamIsMade /\ ReaderInStep
  BY DEF IInv
<1>1. /\ outcome = "reading" /\ taken = arrived
      /\ stream' = stream /\ arrived' = arrived /\ part' = part
      /\ taken' = taken /\ first' = first /\ opcode' = opcode
      /\ received' = received /\ delivered' = delivered
      /\ outcome' = "Failed to read"
  BY DEF RecvFails, Throws
<1>2. TypeOK'
  <2>1. /\ PiecesOf(Len(stream)) \in Nat
        /\ arrived' \in Nat /\ arrived' <= PiecesOf(Len(stream))
        /\ taken' \in Nat /\ taken' <= arrived'
    BY <1>0, <1>1, Places
  <2>2. /\ part \in BOOLEAN /\ first \in BOOLEAN
        /\ opcode \in {0, TEXT, BINARY} /\ received \in Nat
        /\ delivered \in Seq([op : {TEXT, BINARY}, len : Nat])
    BY <1>0 DEF TypeOK
  <2> QED
    BY <1>1, <2>1, <2>2, TypeOKStays
<1>3. PICK r \in 0 .. Len(stream) :
        /\ HasTaken(r)
        /\ \E end \in [0 .. Len(delivered) -> 0 .. r] : InStep(r, end)
  BY <1>0 DEF ReaderInStep
<1>4. PICK end \in [0 .. Len(delivered) -> 0 .. r] : InStep(r, end)
  BY <1>3
<1>5. HasTaken(r)'
  BY <1>1, <1>3, HasTakenStays
<1>6. InStep(r, end)'
  BY <1>1, <1>4, StreamStays, ReturnedStays DEF InStep, GaveUp
<1> QED
  BY <1>1, <1>2, <1>5, <1>6 DEF ReaderInStep

(* A piece in the middle of a frame.                                       *)
LEMMA RecvPieceStep ==
  ASSUME IInv, RecvPiece
  PROVE  TypeOK' /\ ReaderInStep'
<1>0. TypeOK /\ StreamIsMade /\ ReaderInStep
  BY DEF IInv
<1>1. PICK r \in 0 .. Len(stream) :
        /\ HasTaken(r)
        /\ \E end \in [0 .. Len(delivered) -> 0 .. r] : InStep(r, end)
  BY <1>0 DEF ReaderInStep
<1>2. PICK end \in [0 .. Len(delivered) -> 0 .. r] : InStep(r, end)
  BY <1>1
<1>3. /\ outcome = "reading" /\ taken < arrived
      /\ stream' = stream /\ arrived' = arrived /\ part' = part
      /\ first' = first /\ opcode' = opcode
      /\ received' = received /\ delivered' = delivered
      /\ \/ /\ ~LengthIsRead(Frame)
            /\ taken' = taken /\ outcome' = "out of step"
         \/ /\ taken + 1 < PiecesOf(Reading)
            /\ taken' = taken + 1 /\ outcome' = outcome
  BY DEF RecvPiece, Throws
<1>4. /\ r < Len(stream) /\ Reading = r + 1 /\ Frame = stream[r + 1]
      /\ PiecesOf(r) <= taken /\ taken < PiecesOf(r + 1)
  BY <1>1, <1>3, InFrame
<1>5. /\ arrived \in Nat /\ taken \in Nat /\ arrived <= PiecesOf(Len(stream))
      /\ Len(stream) \in Nat /\ PiecesOf(r) \in Nat
      /\ PiecesOf(Len(stream)) \in Nat
  BY <1>0, Places, StreamAmounts
<1>9. taken' \in {taken, taken + 1} /\ taken' < PiecesOf(r + 1)
  BY <1>3, <1>4
<1>6. TypeOK'
  <2>1. /\ part \in BOOLEAN /\ first \in BOOLEAN
        /\ opcode \in {0, TEXT, BINARY} /\ received \in Nat
        /\ delivered \in Seq([op : {TEXT, BINARY}, len : Nat])
    BY <1>0 DEF TypeOK
  <2>2. taken' \in Nat /\ taken' <= arrived'
    <3>1. arrived' = arrived /\ taken < arrived
      BY <1>3
    <3> HIDE <1>3
    <3> QED
      BY <3>1, <1>5, <1>9
  <2>3. outcome' \in {"reading", "out of step"}
    BY <1>3
  <2> QED
    BY <1>3, <1>5, <2>1, <2>2, <2>3, TypeOKStays
<1>7. HasTaken(r)'
  <2>1. r # Len(stream)
    BY <1>4, <1>5
  <2>2. PiecesOf(r) <= taken' /\ taken' < PiecesOf(r + 1)
    BY <1>4, <1>5, <1>9
  <2> QED
    BY <1>3, <2>1, <2>2, StreamStays DEF HasTaken
<1>8. InStep(r, end)'
  <2>1. /\ outcome' \in {"reading", "out of step"}
        /\ outcome' = "out of step" => ~LengthIsRead(stream[r + 1])
    BY <1>3, <1>4
  <2>2. r + 1 \in DOMAIN stream
    BY <1>0, <1>4, <1>5, StreamAmounts
  <2>3. ~GaveUp'
    BY <2>1 DEF GaveUp
  <2>4. /\ Returned(end) /\ IsBegun(end[Len(delivered)] + 1, r)
        /\ first <=> end[Len(delivered)] = r
        /\ received = Bytes(end[Len(delivered)] + 1, r)
        /\ end[Len(delivered)] < r =>
             opcode = stream[end[Len(delivered)] + 1].op
    BY <1>2, <1>3 DEF InStep
  <2> QED
    BY <1>3, <2>1, <2>2, <2>3, <2>4, StreamStays, ReturnedStays DEF InStep
<1> QED
  BY <1>3, <1>6, <1>7, <1>8 DEF ReaderInStep

(* The last piece of a frame: what is thrown fits the frame, and what is   *)
(* returned is the message whose last frame this is.                       *)
LEMMA RecvLastPieceStep ==
  ASSUME IInv, RecvLastPiece
  PROVE  TypeOK' /\ ReaderInStep'
<1>0. TypeOK /\ StreamIsMade /\ ReaderInStep
  BY DEF IInv
<1>1. PICK r \in 0 .. Len(stream) :
        /\ HasTaken(r)
        /\ \E end \in [0 .. Len(delivered) -> 0 .. r] : InStep(r, end)
  BY <1>0 DEF ReaderInStep
<1>2. PICK end \in [0 .. Len(delivered) -> 0 .. r] : InStep(r, end)
  BY <1>1
<1>names. PICK D, N, last, f : /\ D = Len(delivered) /\ N = Len(stream)
                               /\ last = end[D] /\ f = stream[r + 1]
  BY Zenon
<1>3. /\ outcome = "reading" /\ taken < arrived
      /\ stream' = stream /\ arrived' = arrived /\ part' = part
      /\ taken + 1 = PiecesOf(Reading)
  BY DEF RecvLastPiece
<1>4. /\ r < N /\ Reading = r + 1 /\ Frame = f
      /\ PiecesOf(r) <= taken /\ taken < PiecesOf(r + 1)
  BY <1>1, <1>3, <1>names, InFrame
<1>5. /\ arrived \in Nat /\ taken \in Nat /\ arrived <= PiecesOf(N)
      /\ N \in Nat /\ PiecesOf(N) \in Nat
      /\ D \in Nat /\ DOMAIN delivered = 1 .. D
  BY <1>0, <1>names, Places
<1>6. /\ taken + 1 = PiecesOf(r + 1)
      /\ r + 1 \in 0 .. N /\ r + 1 \in 1 .. N /\ r \in Nat
      /\ last \in 0 .. r /\ last \in Nat
  <2>1. taken + 1 = PiecesOf(r + 1)
    BY <1>3, <1>4
  <2>2. last \in 0 .. r
    BY <1>5, <1>names
  <2> QED
    BY <1>4, <1>5, <2>1, <2>2
<1>7. /\ f.fin \in BOOLEAN /\ f.op \in 0 .. 15 /\ f.len \in Nat
  BY <1>0, <1>6, <1>names, StreamAmounts
<1>8. /\ Returned(end) /\ IsBegun(last + 1, r)
      /\ first <=> last = r
      /\ received = Bytes(last + 1, r)
      /\ last < r => opcode = stream[last + 1].op
  BY <1>2, <1>3, <1>names DEF InStep
<1>9. /\ part \in BOOLEAN /\ first \in BOOLEAN
      /\ opcode \in {0, TEXT, BINARY} /\ received \in Nat
      /\ delivered \in Seq([op : {TEXT, BINARY}, len : Nat])
  BY <1>0 DEF TypeOK
<1>10. Expected(f) <=>
         f.op \in IF last = r THEN {TEXT, BINARY} ELSE {CONTINUATION}
  BY <1>8 DEF Expected
<1> DEFINE Thrown == {"Connection close frame received", "Make a pong",
                      "Unexpected opcode for initial frame",
                      "Expected continuation frame"}
<1>11. \/ /\ f.op \in {CLOSE, PING} \/ ~Expected(f)
          /\ outcome' \in Thrown /\ taken' = taken /\ first' = first
          /\ opcode' = opcode /\ received' = received
          /\ delivered' = delivered
       \/ /\ Expected(f)
          /\ taken' = taken + 1 /\ first' = FALSE
          /\ opcode' = (IF first THEN f.op ELSE opcode)
          /\ received' = received + f.len
          /\ \/ /\ f.fin /\ outcome' = "waiting"
                /\ delivered' = Append(delivered, [op |-> ToOpcode(opcode'),
                                                   len |-> received'])
             \/ ~f.fin /\ outcome' = outcome /\ delivered' = delivered
  BY <1>4 DEF RecvLastPiece, Throws, Thrown
<1> HIDE DEF Thrown
<1>12. CASE /\ f.op \in {CLOSE, PING} \/ ~Expected(f)
            /\ outcome' \in Thrown /\ taken' = taken /\ first' = first
            /\ opcode' = opcode /\ received' = received
            /\ delivered' = delivered
  <2>1. TypeOK'
    <3>1. taken' \in Nat /\ taken' <= arrived' /\ arrived' \in Nat
      <4>1. taken' = taken
        BY <1>12
      <4> QED
        BY <1>3, <1>5, <4>1
    <3> QED
      BY <1>3, <1>5, <1>9, <1>12, <3>1, TypeOKStays, <1>names DEF Thrown
  <2>2. HasTaken(r)'
    BY <1>1, <1>3, <1>12, HasTakenStays
  <2>3. f.op \notin IF last = r THEN {TEXT, BINARY} ELSE {CONTINUATION}
    <3>1. f.op \in {CLOSE, PING} \/ ~Expected(f)
      BY <1>12
    <3> QED
      BY <1>10, <3>1 DEF TEXT, BINARY, CONTINUATION, CLOSE, PING
  <2>4. /\ outcome' # "waiting" /\ outcome' # "Failed to read"
        /\ outcome' # "out of step"
    BY <1>12 DEF Thrown
  <2>5. /\ Returned(end)' /\ IsBegun(last + 1, r)'
        /\ Bytes(last + 1, r)' = Bytes(last + 1, r)
    BY <1>3, <1>8, <1>12, StreamStays, ReturnedStays
  <2>6. InStep(r, end)'
    <3>1. end[Len(delivered)]' = last /\ Len(stream)' = N
      BY <1>3, <1>12, <1>names
    <3>2. stream'[r + 1] = f /\ stream'[last + 1] = stream[last + 1]
      BY <1>3, <1>names
    <3> HIDE <1>12
    <3>3. /\ first' = first /\ opcode' = opcode /\ received' = received
      BY <1>12
    <3> QED
      BY <1>4, <1>8, <2>3, <2>4, <2>5, <3>1, <3>2, <3>3 DEF InStep
  <2> QED
    BY <1>3, <1>12, <2>1, <2>2, <2>6 DEF ReaderInStep
<1>13. CASE /\ Expected(f)
            /\ taken' = taken + 1 /\ first' = FALSE
            /\ opcode' = (IF first THEN f.op ELSE opcode)
            /\ received' = received + f.len
            /\ \/ /\ f.fin /\ outcome' = "waiting"
                  /\ delivered' = Append(delivered, [op |-> ToOpcode(opcode'),
                                                     len |-> received'])
               \/ ~f.fin /\ outcome' = outcome /\ delivered' = delivered
  <2>1. f.op \in IF last = r THEN {TEXT, BINARY} ELSE {CONTINUATION}
    BY <1>10, <1>13
  <2>2. /\ opcode' = stream[last + 1].op /\ opcode' \in {TEXT, BINARY}
        /\ ToOpcode(opcode') = opcode'
    <3>1. CASE last = r
      BY <1>8, <1>13, <2>1, <3>1, <1>names DEF ToOpcode
    <3>2. CASE last # r
      <4>1. last < r /\ last + 1 \in last + 1 .. r
        BY <1>6, <3>2
      <4>2. stream[last + 1].op \in {TEXT, BINARY}
        BY <1>8, <4>1 DEF IsBegun
      <4> QED
        BY <1>8, <1>13, <3>2, <4>1, <4>2 DEF ToOpcode
    <3> QED
      BY <3>1, <3>2
  <2>3. received' \in Nat /\ received' = Bytes(last + 1, r + 1)
    <3>1. last + 1 \in 1 .. r + 1 /\ r + 1 - 1 = r
      BY <1>6
    <3>2. Bytes(last + 1, r + 1) = Bytes(last + 1, r + 1 - 1) + f.len
      <4> DEFINE n == r + 1
      <4>1. n \in 0 .. Len(stream) /\ last + 1 \in 1 .. n
        BY <1>6, <3>1, <1>names
      <4>2. f = stream[n]
        BY <1>names
      <4> HIDE DEF n
      <4>3. Bytes(last + 1, n) = Bytes(last + 1, n - 1) + stream[n].len
        BY <1>0, <4>1, StreamAmounts
      <4>4. Bytes(last + 1, n) = Bytes(last + 1, n - 1) + f.len
        BY <4>2, <4>3
      <4> QED
        BY <4>4 DEF n
    <3>3. received' = received + f.len
      BY <1>13
    <3> QED
      BY <1>7, <1>8, <1>9, <3>1, <3>2, <3>3
  <2>4. /\ taken' \in Nat /\ taken' <= arrived' /\ arrived' \in Nat
        /\ taken' = PiecesOf(r + 1)
    <3>1. taken' = taken + 1
      BY <1>13
    <3> QED
      BY <1>3, <1>5, <1>6, <3>1
  <2>5. HasTaken(r + 1)'
    <3>1. PiecesOf(r + 1) \in Nat
      BY <1>5, <1>6
    <3>2. ASSUME r + 1 # N PROVE PiecesOf(r + 1) < PiecesOf(r + 1 + 1)
      <4>1. r + 1 + 1 \in 0 .. N /\ r + 1 \in 0 .. r + 1 + 1
            /\ r + 1 < r + 1 + 1
        BY <1>5, <1>6, <3>2
      <4> QED
        BY <1>0, <4>1, StreamAmounts, <1>names
    <3>3. /\ \A n : PiecesOf(n)' = PiecesOf(n)
          /\ Len(stream)' = N
      BY <1>3, StreamStays, <1>names
    <3> QED
      BY <2>4, <3>1, <3>2, <3>3 DEF HasTaken
  <2>6. r + 1 \in (0 .. Len(stream))'
    BY <1>3, <1>6, <1>names
  <2>7. stream'[last + 1] = stream[last + 1]
    BY <1>3
  <2>8. CASE ~f.fin /\ outcome' = outcome /\ delivered' = delivered
    <3>1. TypeOK'
      BY <1>3, <1>5, <1>9, <1>13, <2>2, <2>3, <2>4, <2>8, TypeOKStays, <1>names
    <3>2. IsBegun(last + 1, r + 1)
      <4>1. ASSUME NEW i \in last + 1 .. r + 1
            PROVE  /\ stream[i].op \in IF i = last + 1 THEN {TEXT, BINARY}
                                       ELSE {CONTINUATION}
                   /\ ~stream[i].fin
        <5>1. CASE i = r + 1
          <6>1. last = r <=> i = last + 1
            BY <1>6, <5>1
          <6> QED
            BY <2>1, <2>8, <5>1, <6>1, <1>names
        <5>2. CASE i # r + 1
          <6>1. i \in last + 1 .. r
            BY <1>6, <5>2
          <6> QED
            BY <1>8, <6>1 DEF IsBegun
        <5> QED
          BY <5>1, <5>2
      <4> QED
        BY <4>1 DEF IsBegun
    <3>3. /\ Returned(end)' /\ IsBegun(last + 1, r + 1)'
          /\ Bytes(last + 1, r + 1)' = Bytes(last + 1, r + 1)
      BY <1>3, <1>8, <2>8, <3>2, StreamStays, ReturnedStays
    <3>4. end[Len(delivered)]' = last
      BY <2>8, <1>names
    <3>5. outcome' = "reading" /\ ~GaveUp' /\ first' = FALSE /\ last # r + 1
      <4>1. outcome' = "reading"
        BY <1>3, <2>8
      <4>2. last # r + 1
        BY <1>6
      <4> QED
        BY <1>13, <4>1, <4>2 DEF GaveUp
    <3>6. InStep(r + 1, end)'
      BY <2>2, <2>3, <2>7, <3>3, <3>4, <3>5 DEF InStep
    <3>7. end \in [(0 .. Len(delivered))' -> 0 .. r + 1]
      <4>1. \A n \in 0 .. r : n \in 0 .. r + 1
        BY <1>6
      <4> QED
        BY <2>8, <4>1
    <3> QED
      BY <2>5, <2>6, <3>1, <3>6, <3>7 DEF ReaderInStep
  <2>9. CASE /\ f.fin /\ outcome' = "waiting"
             /\ delivered' = Append(delivered, [op |-> ToOpcode(opcode'),
                                                len |-> received'])
    <3> DEFINE m == [op |-> opcode', len |-> received']
               next == [j \in 0 .. D + 1 |->
                          IF j = D + 1 THEN r + 1 ELSE end[j]]
    <3>1. delivered' = Append(delivered, m)
      BY <2>2, <2>9
    <3>2. m \in [op : {TEXT, BINARY}, len : Nat]
      BY <2>2, <2>3
    <3>3. /\ m.op = stream[last + 1].op
          /\ m = [op |-> stream[last + 1].op, len |-> Bytes(last + 1, r + 1)]
      BY <2>2, <2>3
    <3> HIDE DEF m
    <3>4. /\ delivered' \in Seq([op : {TEXT, BINARY}, len : Nat])
          /\ Len(delivered') = D + 1 /\ DOMAIN delivered' = 1 .. D + 1
          /\ delivered'[D + 1] = m
          /\ \A j \in 1 .. D : delivered'[j] = delivered[j]
      <4> DEFINE M == [op : {TEXT, BINARY}, len : Nat]
      <4>1. delivered \in Seq(M) /\ m \in M
        BY <1>9, <3>2
      <4> HIDE DEF M
      <4>2. /\ Append(delivered, m) \in Seq(M)
            /\ Len(Append(delivered, m)) = D + 1
            /\ DOMAIN Append(delivered, m) = 1 .. D + 1
            /\ Append(delivered, m)[D + 1] = m
            /\ \A j \in 1 .. D : Append(delivered, m)[j] = delivered[j]
        BY <4>1, <1>names
      <4> QED
        BY <3>1, <4>2 DEF M
    <3>5. TypeOK'
      <4>1. /\ first' \in BOOLEAN /\ opcode' \in {0, TEXT, BINARY}
            /\ outcome' = "waiting"
        BY <1>13, <2>2, <2>9
      <4> QED
        BY <1>3, <1>5, <1>9, <2>3, <2>4, <3>4, <4>1, TypeOKStays, <1>names
    <3>6. IsMessage(last + 1, r + 1)
      <4>1. ASSUME NEW i \in last + 1 .. r + 1
            PROVE  /\ stream[i].op \in IF i = last + 1 THEN {TEXT, BINARY}
                                       ELSE {CONTINUATION}
                   /\ stream[i].fin <=> i = r + 1
        <5>1. CASE i = r + 1
          <6>1. last = r <=> i = last + 1
            BY <1>6, <5>1
          <6> QED
            BY <2>1, <2>9, <5>1, <6>1, <1>names
        <5>2. CASE i # r + 1
          <6>1. i \in last + 1 .. r
            BY <1>6, <5>2
          <6> QED
            BY <1>8, <5>2, <6>1 DEF IsBegun
        <5> QED
          BY <5>1, <5>2
      <4>2. last + 1 <= r + 1
        BY <1>6
      <4> QED
        BY <4>1, <4>2 DEF IsMessage
    <3>7. /\ next \in [0 .. D + 1 -> 0 .. r + 1]
          /\ next[D + 1] = r + 1
          /\ \A j \in 0 .. D : next[j] = end[j]
      <4>1. /\ \A n \in 0 .. r : n \in 0 .. r + 1
            /\ r + 1 \in 0 .. r + 1 /\ D + 1 \in 0 .. D + 1
            /\ \A j \in 0 .. D : j \in 0 .. D + 1 /\ j # D + 1
            /\ \A j \in 0 .. D + 1 : j # D + 1 => j \in 0 .. D
        BY <1>5, <1>6
      <4>2. end \in [0 .. D -> 0 .. r]
        BY <1>names
      <4> QED
        BY <4>1, <4>2
    <3> HIDE DEF next
    <3>8. Returned(next)'
      <4>1. ASSUME NEW j \in 1 .. D + 1
            PROVE  /\ IsMessage(next[j - 1] + 1, next[j])
                   /\ delivered'[j] =
                        [op |-> stream[next[j - 1] + 1].op,
                         len |-> Bytes(next[j - 1] + 1, next[j])]
        <5>1. CASE j = D + 1
          <6>1. D \in 0 .. D /\ j - 1 = D
            BY <1>5, <5>1
          <6>2. next[j - 1] = last /\ next[j] = r + 1
            BY <3>7, <5>1, <6>1, <1>names
          <6> QED
            BY <3>3, <3>4, <3>6, <5>1, <6>2
        <5>2. CASE j # D + 1
          <6>1. j \in 1 .. D /\ j \in 0 .. D /\ j - 1 \in 0 .. D
            BY <1>5, <5>2
          <6>2. next[j - 1] = end[j - 1] /\ next[j] = end[j]
            BY <3>7, <6>1
          <6>3. /\ IsMessage(end[j - 1] + 1, end[j])
                /\ delivered[j] = [op |-> stream[end[j - 1] + 1].op,
                                   len |-> Bytes(end[j - 1] + 1, end[j])]
            BY <1>5, <1>8, <6>1 DEF Returned
          <6> QED
            BY <3>4, <6>1, <6>2, <6>3
        <5> QED
          BY <5>1, <5>2
      <4>2. next[0] = 0
        BY <1>5, <1>8, <3>7 DEF Returned
      <4>3. /\ \A a, b : IsMessage(a, b)' <=> IsMessage(a, b)
            /\ \A a, b : Bytes(a, b)' = Bytes(a, b)
        BY <1>3, StreamStays
      <4> QED
        BY <1>3, <3>4, <4>1, <4>2, <4>3 DEF Returned
    <3>9. InStep(r + 1, next)'
      <4>1. next[Len(delivered)]' = r + 1
        BY <3>4, <3>7
      <4>2. taken' = PiecesOf(r + 1)'
        BY <1>3, <2>4, StreamStays
      <4>3. outcome' = "waiting" /\ ~GaveUp'
        BY <2>9 DEF GaveUp
      <4> QED
        BY <3>8, <4>1, <4>2, <4>3 DEF InStep
    <3>10. next \in [(0 .. Len(delivered))' -> 0 .. r + 1]
      BY <3>4, <3>7
    <3> QED
      BY <2>5, <2>6, <3>5, <3>9, <3>10 DEF ReaderInStep
  <2> QED
    BY <1>13, <2>8, <2>9
<1> QED
  BY <1>11, <1>12, <1>13

(* The invariant is inductive.                                             *)
LEMMA NextIInv == IInv /\ [Next]_vars => IInv'
<1>1. SUFFICES ASSUME IInv, [Next]_vars PROVE IInv'
  OBVIOUS
<1>2. StreamIsMade'
  BY <1>1, StreamIsMadeStep
<1>3. TypeOK' /\ ReaderInStep'
  <2>1. CASE ClientSends
    BY <1>1, <2>1, ClientSendsStep
  <2>2. CASE Arrive
    BY <1>1, <2>2, ArriveStep
  <2>3. CASE ReadFrame
    BY <1>1, <2>3, ReadFrameStep
  <2>4. CASE RecvFails
    BY <1>1, <2>4, RecvFailsStep
  <2>5. CASE RecvPiece
    BY <1>1, <2>5, RecvPieceStep
  <2>6. CASE RecvLastPiece
    BY <1>1, <2>6, RecvLastPieceStep
  <2>7. CASE UNCHANGED vars
    <3>1. TypeOK /\ ReaderInStep
      BY <1>1 DEF IInv
    <3>2. /\ origin' = origin /\ stream' = stream /\ arrived' = arrived
          /\ part' = part /\ taken' = taken /\ first' = first
          /\ opcode' = opcode /\ received' = received
          /\ delivered' = delivered /\ outcome' = outcome
      BY <2>7 DEF vars, readerVars
    <3>3. TypeOK'
      BY <3>1, <3>2 DEF TypeOK, PiecesOf
    <3>4. PICK r \in 0 .. Len(stream) :
            /\ HasTaken(r)
            /\ \E end \in [0 .. Len(delivered) -> 0 .. r] : InStep(r, end)
      BY <3>1 DEF ReaderInStep
    <3>5. PICK end \in [0 .. Len(delivered) -> 0 .. r] : InStep(r, end)
      BY <3>4
    <3>6. HasTaken(r)'
      BY <3>2, <3>4, HasTakenStays
    <3>7. InStep(r, end)'
      BY <3>2, <3>5, StreamStays, ReturnedStays DEF InStep, GaveUp
    <3> QED
      BY <3>2, <3>3, <3>6, <3>7 DEF ReaderInStep
  <2> QED
    BY <1>1, <2>1, <2>2, <2>3, <2>4, <2>5, <2>6, <2>7 DEF Next
<1> QED
  BY <1>2, <1>3 DEF IInv

(* The stream is what one end wrote, and the reader is in step with it:    *)
(* what read_frame returned is the messages that end where it says, and    *)
(* what it holds is the beginning of the next.                             *)
THEOREM IInvAlways == Spec => []IInv
<1>1. Init => IInv
  BY InitIInv
<1>2. IInv /\ [Next]_vars => IInv'
  BY NextIInv
<1> QED
  BY <1>1, <1>2, PTL DEF Spec

-----------------------------------------------------------------------------
(* What read_frame promises. *)

(* A short frame is read as it was meant whoever made it.                  *)
LEMMA ShortLengthsRead ==
  ASSUME NEW f \in AnyFrame, f.len \in 0 .. 125
  PROVE  LengthIsRead(f)
<1>1. CASE \E c \in ClientFrames : f = ClientFrame(c)
  BY <1>1, LengthsRead
<1>2. ASSUME NEW op \in {TEXT, BINARY}, NEW len \in Nat, NEW fin \in BOOLEAN,
             f = SendFrame(op, len, fin)
      PROVE  LengthIsRead(f)
  <2>1. f.len = len
    BY <1>2 DEF SendFrame
  <2> QED
    BY <1>2, <2>1, LengthsRead
<1> QED
  BY <1>1, <1>2 DEF AnyFrame

(* The invariant says what was returned and why the reader gave up.          *)
LEMMA MessagesAreDelivered == IInv => DeliversMessages
<1>1. SUFFICES ASSUME IInv PROVE DeliversMessages
  OBVIOUS
<1>2. TypeOK /\ StreamIsMade /\ ReaderInStep
  BY <1>1 DEF IInv
<1>3. PICK r \in 0 .. Len(stream) :
        /\ HasTaken(r)
        /\ \E end \in [0 .. Len(delivered) -> 0 .. r] : InStep(r, end)
  BY <1>2 DEF ReaderInStep
<1>4. PICK end \in [0 .. Len(delivered) -> 0 .. r] : InStep(r, end)
  BY <1>3
<1>names. PICK N, last : N = Len(stream) /\ last = end[Len(delivered)]
  BY Zenon
<1>5. /\ N \in Nat /\ DOMAIN stream = 1 .. N /\ r \in 0 .. N
      /\ taken \in Nat /\ Len(delivered) \in Nat
      /\ last \in 0 .. r
  <2>1. N \in Nat /\ taken \in Nat /\ Len(delivered) \in Nat
    BY <1>2, <1>names, Places
  <2>2. DOMAIN stream = 1 .. N
    BY <1>2, <1>names, StreamAmounts
  <2>3. last \in 0 .. r
    BY <1>names, <2>1
  <2> QED
    BY <1>names, <2>1, <2>2, <2>3
<1>6. end \in [0 .. Len(delivered) -> 0 .. N] /\ Returned(end)
  <2>1. \A n \in 0 .. r : n \in 0 .. N
    BY <1>5
  <2> QED
    BY <1>4, <2>1 DEF InStep
<1>7. ASSUME outcome = "Failed to read", NEW b \in DOMAIN stream,
             IsMessage(last + 1, b), PiecesOf(b) <= arrived
      PROVE  FALSE
  <2>1. taken = arrived /\ IsBegun(last + 1, r)
    BY <1>4, <1>7, <1>names DEF InStep
  <2>2. b \in last + 1 .. b /\ b \in 1 .. N
    <3>1. last + 1 <= b
      BY <1>7 DEF IsMessage
    <3>2. b \in 1 .. N
      BY <1>5, <1>7
    <3> QED
      BY <1>5, <3>1, <3>2
  <2>3. stream[b].fin
    BY <1>7, <2>2 DEF IsMessage
  <2>4. ~ (b <= r)
    <3>1. SUFFICES ASSUME b <= r PROVE FALSE
      OBVIOUS
    <3>2. b \in last + 1 .. r
      BY <1>5, <2>2, <3>1
    <3> QED
      BY <2>1, <2>3, <3>2 DEF IsBegun
  <2>5. r + 1 \in 0 .. b /\ b \in 0 .. N /\ r # N
    BY <1>5, <2>2, <2>4
  <2>6. /\ PiecesOf(r + 1) <= PiecesOf(b)
        /\ PiecesOf(r + 1) \in Nat /\ PiecesOf(b) \in Nat
    <3>1. r + 1 \in 0 .. N
      BY <1>5, <2>5
    <3> QED
      BY <1>2, <1>names, <2>5, <3>1, StreamAmounts
  <2>7. taken < PiecesOf(r + 1)
    BY <1>3, <1>names, <2>5 DEF HasTaken
  <2>8. PiecesOf(b) <= taken
    BY <1>7, <2>1
  <2> QED
    BY <1>5, <2>6, <2>7, <2>8
<1>8. ASSUME GaveUp, NEW b \in Reading .. Len(stream), IsMessage(last + 1, b)
      PROVE  FALSE
  <2>1. /\ r < N
        /\ stream[r + 1].op \notin
             IF last = r THEN {TEXT, BINARY} ELSE {CONTINUATION}
    BY <1>4, <1>8, <1>names DEF InStep
  <2>2. Reading = r + 1
    <3>1. r \in 0 .. Len(stream) - 1 /\ r # Len(stream)
      <4>1. r \in 0 .. N - 1 /\ r # N
        BY <1>5, <2>1
      <4> QED
        BY <1>names, <4>1
    <3> QED
      BY <1>2, <1>3, <1>5, <3>1, ReadingIs DEF HasTaken
  <2>3. r + 1 \in last + 1 .. b /\ (r + 1 = last + 1 <=> last = r)
    BY <1>5, <1>8, <1>names, <2>2
  <2>4. stream[r + 1].op \in
          IF r + 1 = last + 1 THEN {TEXT, BINARY} ELSE {CONTINUATION}
    BY <1>8, <2>3 DEF IsMessage
  <2> QED
    BY <2>1, <2>3, <2>4
<1>9. ASSUME outcome = "out of step" PROVE ~FromClient
  <2>1. PICK i \in DOMAIN stream : ~LengthIsRead(stream[i])
    BY <1>4, <1>9 DEF InStep
  <2>2. SUFFICES ASSUME FromClient PROVE FALSE
    OBVIOUS
  <2>3. stream \in Seq({ClientFrame(f) : f \in ClientFrames})
    BY <1>2, <2>2 DEF StreamIsMade, ClientStreams
  <2>4. stream[i] \in {ClientFrame(f) : f \in ClientFrames}
    BY <2>1, <2>3
  <2> QED
    BY <2>1, <2>4, LengthsRead
<1> QED
  BY <1>6, <1>7, <1>8, <1>9, <1>names DEF DeliversMessages

(* Whatever frames a client sends and however the network cuts them,       *)
(* read_frame returns the messages they make, and gives up only over a     *)
(* frame that makes none.                                                  *)
THEOREM ReaderDeliversMessages == Spec => []DeliversMessages
BY IInvAlways, MessagesAreDelivered, PTL

LEMMA FitsIsShort ==
  ASSUME NEW m, m.len \in Nat, FitsOneFrame(m)
  PROVE  m.len \in 0 .. 125
BY DEF FitsOneFrame

(* The invariant tells the one frame of a short message from any other.    *)
LEMMA SentMessagesAreReadBack == IInv => SentIsReadBack
<1>1. SUFFICES ASSUME IInv, ~FromClient
               PROVE  /\ Bytes(1, Len(stream)) = origin.len
                      /\ \A i \in DOMAIN stream :
                           /\ stream[i].fin <=> i = Len(stream)
                           /\ origin.op = BINARY =>
                                stream[i].len \in 1 .. MAX_BINARY_FRAME_SIZE
                      /\ FitsOneFrame(origin) =>
                           /\ outcome \in {"waiting", "reading",
                                           "Failed to read"}
                           /\ taken = PiecesOf(Len(stream)) =>
                                delivered = <<origin>>
  BY DEF SentIsReadBack
<1>2. /\ TypeOK /\ StreamIsMade /\ ReaderInStep
      /\ origin \in Messages /\ stream = Send(origin)
  BY <1>1 DEF IInv, StreamIsMade
<1>3. /\ stream \in Seq(AnyFrame)
      /\ Sums(Lengths(stream))[Len(stream)] = origin.len
      /\ \A i \in DOMAIN stream :
           /\ stream[i].fin <=> i = Len(stream)
           /\ stream[i].op = origin.op
           /\ origin.op = BINARY =>
                stream[i].len \in 1 .. MAX_BINARY_FRAME_SIZE
      /\ FitsOneFrame(origin) => Len(stream) = 1
                                    /\ stream[1].len = origin.len
  BY <1>2, SendFacts
<1>4. origin \in [op : {TEXT, BINARY}, len : Nat]
  BY <1>2, WebSocketAssumption DEF TEXT, BINARY
<1>5. Bytes(1, Len(stream)) = origin.len
  <2>1. Bytes(1, Len(stream)) =
          Sums(Lengths(stream))[Len(stream)] - Sums(Lengths(stream))[1 - 1]
    BY DEF Bytes, Lengths
  <2>2. AreSums(Sums(Lengths(stream)), Lengths(stream), Len(stream))
    BY <1>3, CountsAreNatural, SumsAreSums
  <2>3. Sums(Lengths(stream))[0] = 0
    BY <2>2 DEF AreSums
  <2> QED
    BY <1>3, <1>4, <2>1, <2>3
<1>6. ASSUME FitsOneFrame(origin)
      PROVE  /\ outcome \in {"waiting", "reading", "Failed to read"}
             /\ taken = PiecesOf(Len(stream)) => delivered = <<origin>>
  <2>1. /\ Len(stream) = 1 /\ DOMAIN stream = {1} /\ stream[1] \in AnyFrame
        /\ stream[1].len = origin.len /\ stream[1].op = origin.op
        /\ stream[1].fin
    <3>1. Len(stream) = 1 /\ DOMAIN stream = {1}
      BY <1>3, <1>6
    <3>2. stream[1] \in AnyFrame
      <4>1. stream \in Seq(AnyFrame) /\ 1 \in DOMAIN stream
        BY <1>3, <3>1
      <4> HIDE <1>3
      <4> QED
        BY <4>1
    <3> QED
      BY <1>3, <1>6, <3>1, <3>2
  <2>2. PICK r \in 0 .. 1 :
          /\ HasTaken(r)
          /\ \E end \in [0 .. Len(delivered) -> 0 .. r] : InStep(r, end)
    BY <1>2, <2>1 DEF ReaderInStep
  <2>3. PICK end \in [0 .. Len(delivered) -> 0 .. r] : InStep(r, end)
    BY <2>2
  <2>names. PICK D, last : D = Len(delivered) /\ last = end[D]
    BY Zenon
  <2>4. /\ D \in Nat /\ DOMAIN delivered = 1 .. D
        /\ \A j \in 0 .. D : end[j] \in 0 .. r
        /\ last \in 0 .. r
    <3>1. D \in Nat /\ DOMAIN delivered = 1 .. D
      BY <1>2, <2>names, Places
    <3>2. \A j \in 0 .. D : end[j] \in 0 .. r
      BY <2>names
    <3> QED
      BY <2>names, <3>1, <3>2
  <2>5. outcome # "out of step"
    <3>1. origin.len \in 0 .. 125
      <4>1. origin.len \in Nat
        BY <1>4
      <4> QED
        BY <1>6, <4>1, FitsIsShort
    <3>2. LengthIsRead(stream[1])
      BY <2>1, <3>1, ShortLengthsRead
    <3> QED
      BY <2>1, <2>3, <3>2 DEF InStep
  <2>6. ~GaveUp
    <3>1. SUFFICES ASSUME GaveUp PROVE FALSE
      OBVIOUS
    <3>2. /\ r < 1
          /\ stream[r + 1].op \notin
               IF last = r THEN {TEXT, BINARY} ELSE {CONTINUATION}
      BY <2>1, <2>3, <2>names, <3>1 DEF InStep
    <3>3. r = 0 /\ last = r /\ r + 1 = 1
      BY <2>4, <3>2
    <3> QED
      BY <1>4, <2>1, <3>2, <3>3
  <2>7. outcome \in {"waiting", "reading", "Failed to read"}
    BY <2>5, <2>6 DEF GaveUp
  <2>8. ASSUME taken = PiecesOf(Len(stream)) PROVE delivered = <<origin>>
    <3>1. r = 1
      <4>1. SUFFICES ASSUME r = 0 PROVE FALSE
        BY <2>2
      <4>2. taken < PiecesOf(1)
        BY <2>1, <2>2, <4>1 DEF HasTaken
      <4>3. PiecesOf(1) \in Nat
        <5>1. 1 \in 0 .. Len(stream)
          BY <2>1
        <5> QED
          BY <1>2, <5>1, StreamAmounts
      <4> QED
        BY <2>1, <2>8, <4>2, <4>3
    <3>2. last = 1
      <4>1. CASE outcome = "waiting"
        BY <2>3, <2>names, <3>1, <4>1 DEF InStep
      <4>2. CASE outcome # "waiting"
        <5>1. IsBegun(last + 1, 1)
          BY <2>3, <2>names, <3>1, <4>2 DEF InStep
        <5>2. last # 0
          <6>1. SUFFICES ASSUME last = 0 PROVE FALSE
            OBVIOUS
          <6>2. 1 \in last + 1 .. 1
            BY <6>1
          <6> QED
            BY <2>1, <5>1, <6>2 DEF IsBegun
        <5> QED
          BY <2>4, <3>1, <5>2
      <4> QED
        BY <4>1, <4>2
    <3>3. /\ end[0] = 0
          /\ \A j \in 1 .. D :
               /\ end[j - 1] = 0 /\ end[j] = 1
               /\ delivered[j] = [op |-> stream[1].op, len |-> Bytes(1, 1)]
      <4>1. Returned(end)
        BY <2>3 DEF InStep
      <4>2. end[0] = 0
        BY <4>1 DEF Returned
      <4>3. ASSUME NEW j \in 1 .. D
            PROVE  /\ end[j - 1] = 0 /\ end[j] = 1
                   /\ delivered[j] = [op |-> stream[1].op, len |-> Bytes(1, 1)]
        <5>1. /\ IsMessage(end[j - 1] + 1, end[j])
              /\ delivered[j] = [op |-> stream[end[j - 1] + 1].op,
                                 len |-> Bytes(end[j - 1] + 1, end[j])]
          BY <2>4, <4>1 DEF Returned
        <5>2. end[j - 1] \in 0 .. 1 /\ end[j] \in 0 .. 1
          <6>1. j - 1 \in 0 .. D /\ j \in 0 .. D
            BY <2>4
          <6> QED
            BY <2>4, <3>1, <6>1
        <5>3. end[j - 1] + 1 <= end[j]
          BY <5>1 DEF IsMessage
        <5>4. end[j - 1] = 0 /\ end[j] = 1 /\ end[j - 1] + 1 = 1
          BY <5>2, <5>3
        <5> QED
          BY <5>1, <5>4
      <4> QED
        BY <4>2, <4>3
    <3>4. D = 1
      <4>1. D # 0
        <5>1. SUFFICES ASSUME D = 0 PROVE FALSE
          OBVIOUS
        <5>2. end[D] = 1 /\ end[0] = 0
          BY <2>names, <3>2, <3>3
        <5> QED
          BY <5>1, <5>2
      <4>2. SUFFICES ASSUME D > 1 PROVE FALSE
        BY <2>4, <4>1
      <4>3. D \in 1 .. D /\ D - 1 \in 1 .. D
        BY <2>4, <4>2
      <4>4. end[D - 1] = 0
        BY <3>3, <4>3
      <4>5. end[D - 1] = 1
        BY <3>3, <4>3
      <4> QED
        BY <4>4, <4>5
    <3>5. delivered[1] = origin
      <4>1. delivered[1] = [op |-> origin.op, len |-> origin.len]
        BY <1>5, <2>1, <3>3, <3>4
      <4> QED
        BY <1>4, <4>1
    <3>6. delivered \in Seq([op : {TEXT, BINARY}, len : Nat])
      BY <1>2 DEF TypeOK
    <3>7. ASSUME NEW M, NEW s \in Seq(M), NEW x, Len(s) = 1, s[1] = x
          PROVE  s = <<x>>
      BY <3>7
    <3>8. Len(delivered) = 1
      BY <2>names, <3>4
    <3> QED
      BY <3>5, <3>6, <3>7, <3>8, ZenonT(40)
  <2> QED
    BY <2>7, <2>8
<1> QED
  BY <1>3, <1>5, <1>6

(* The frames of send carry the whole message; a text shorter than 126     *)
(* bytes, and a binary message of 1 to 125 bytes, is read back as it was   *)
(* sent.                                                                   *)
THEOREM ShortMessagesAreReadBack == Spec => []SentIsReadBack
BY IInvAlways, SentMessagesAreReadBack, PTL
=============================================================================
