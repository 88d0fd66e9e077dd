---------------------------- MODULE CanvasProofs ----------------------------
(***************************************************************************)
(* Proofs about Canvas for any pages, descriptor numbers, buffers and      *)
(* number of messages, and for both programs.                              *)
(***************************************************************************)
EXTENDS Canvas, SequenceTheorems, TLAPS

ToServer == Message \cup {Join, Eof}
ToPage == Message \cup {Cut} \cup {Switching(k) : k \in Conn}

(* Messages of different types differ, and so do strokes.                  *)
LEMMA Kinds ==
  /\ \A s : Draw(s) \notin {Clear, Cursor, LongCursor, Join, Eof, Cut}
  /\ \A s, t : Draw(s) = Draw(t) => s = t
  /\ \A k : Switching(k) \notin Message \cup {Join, Eof, Cut}
  /\ \A j, k : Switching(j) = Switching(k) => j = k
  /\ \A j, s : Switching(j) # Draw(s)
  /\ Clear \notin {Cursor, LongCursor, Join, Eof, Cut}
  /\ Cursor \notin {LongCursor, Join, Eof, Cut}
  /\ LongCursor \notin {Join, Eof, Cut}
  /\ Join \notin {Eof, Cut} /\ Join \notin Message
  /\ Cut \notin Message /\ Eof # Cut /\ Eof \notin Message
<1> USE DEF Draw, Clear, Cursor, LongCursor, Join, Eof, Cut, Switching
<1>1. \A s : /\ Draw(s).type = "draw" /\ Draw(s).stroke = s
             /\ Switching(s).type = "101" /\ Switching(s).of = s
  OBVIOUS
<1>2. /\ Clear.type = "clear" /\ Cursor.type = "cursor" /\ Join.type = "join"
      /\ LongCursor.type = "long cursor"
      /\ Eof.type = "eof" /\ Cut.type = "cut"
  OBVIOUS
<1> HIDE DEF Draw, Clear, Cursor, LongCursor, Join, Eof, Cut, Switching
<1>3. /\ \A s : Draw(s) \notin {Clear, Cursor, LongCursor, Join, Eof, Cut}
      /\ \A s, t : Draw(s) = Draw(t) => s = t
      /\ \A j, k : Switching(j) = Switching(k) => j = k
      /\ \A j, s : Switching(j) # Draw(s)
      /\ \A k : Switching(k) \notin
                 {Clear, Cursor, LongCursor, Join, Eof, Cut}
  <2>1. \A s, t : Draw(s) = Draw(t) => s = t
    BY <1>1
  <2>2. \A j, k : Switching(j) = Switching(k) => j = k
    BY <1>1
  <2>3. \A j, s : Switching(j) # Draw(s)
    BY <1>1
  <2>4. \A s : Draw(s) \notin {Clear, Cursor, LongCursor, Join, Eof, Cut}
    BY <1>1, <1>2
  <2>5. \A k : Switching(k) \notin
                {Clear, Cursor, LongCursor, Join, Eof, Cut}
    BY <1>1, <1>2
  <2> QED
    BY <2>1, <2>2, <2>3, <2>4, <2>5
<1>4. /\ Clear \notin {Cursor, LongCursor, Join, Eof, Cut}
      /\ Cursor \notin {LongCursor, Join, Eof, Cut}
      /\ LongCursor \notin {Join, Eof, Cut}
      /\ Join \notin {Eof, Cut} /\ Eof # Cut
  BY <1>2
<1>5. /\ \A k : Switching(k) \notin Message
      /\ Join \notin Message /\ Cut \notin Message /\ Eof \notin Message
  BY <1>3, <1>4 DEF Message
<1> QED
  BY <1>3, <1>4, <1>5

(* The type of a draw. *)
LEMMA DrawType == \A s : Draw(s).type = "draw" /\ Draw(s).stroke = s
  BY DEF Draw

(* What the type of a message says of it. *)
LEMMA TypeOfMessage ==
  /\ \A m \in ToServer \cup ToPage :
       /\ m.type = "draw" => \E s \in Stroke : m = Draw(s) /\ m.stroke = s
       /\ m.type = "clear" <=> m = Clear
       /\ m.type = "cursor" <=> m = Cursor
       /\ m.type = "long cursor" <=> m = LongCursor
       /\ m.type = "join" <=> m = Join
       /\ m.type = "eof" <=> m = Eof
       /\ m.type \in Broadcasted => m \in Message \ {Join, Eof}
  /\ \A s : Draw(s).type = "draw" /\ Draw(s).stroke = s
<1> USE DEF Draw, Clear, Cursor, LongCursor, Join, Eof, Cut, Switching,
            Message
<1>1. \A s : /\ Draw(s).type = "draw" /\ Draw(s).stroke = s
             /\ Switching(s).type = "101" /\ Switching(s).of = s
  OBVIOUS
<1>2. /\ Clear.type = "clear" /\ Cursor.type = "cursor" /\ Join.type = "join"
      /\ LongCursor.type = "long cursor"
      /\ Eof.type = "eof" /\ Cut.type = "cut"
  OBVIOUS
<1> HIDE DEF Draw, Clear, Cursor, LongCursor, Join, Eof, Cut, Switching,
             Message
<1>3. \A m \in ToServer \cup ToPage :
        \/ \E s \in Stroke : m = Draw(s)
        \/ m \in {Clear, Cursor, LongCursor, Join, Eof, Cut}
        \/ \E k \in Conn : m = Switching(k)
  BY DEF ToServer, ToPage, Message
<1>4. ASSUME NEW m \in ToServer \cup ToPage
      PROVE  /\ m.type = "draw" =>
                  \E s \in Stroke : m = Draw(s) /\ m.stroke = s
             /\ m.type = "clear" <=> m = Clear
             /\ m.type = "cursor" <=> m = Cursor
             /\ m.type = "long cursor" <=> m = LongCursor
             /\ m.type = "join" <=> m = Join
             /\ m.type = "eof" <=> m = Eof
  <2>1. CASE \E s \in Stroke : m = Draw(s)
    <3>1. PICK s \in Stroke : m = Draw(s)
      BY <2>1
    <3>2. m.type = "draw" /\ m.stroke = s
      BY <1>1, <3>1
    <3> QED
      BY <1>2, <3>1, <3>2
  <2>2. CASE m \in {Clear, Cursor, LongCursor, Join, Eof, Cut}
    BY <1>2, <2>2
  <2>3. CASE \E k \in Conn : m = Switching(k)
    <3>1. m.type = "101"
      BY <1>1, <2>3
    <3> QED
      BY <1>2, <3>1
  <2> QED
    BY <1>3, <2>1, <2>2, <2>3
<1>5. ASSUME NEW m \in ToServer \cup ToPage, m.type \in Broadcasted
      PROVE  m \in Message \ {Join, Eof}
  <2>1. /\ m.type # "join" /\ m.type # "eof"
        /\ \/ m.type = "draw" \/ m.type = "clear"
           \/ m.type = "cursor" \/ m.type = "long cursor"
    BY <1>5 DEF Broadcasted
  <2>2. m \notin {Join, Eof}
    BY <1>2, <2>1
  <2>3. \/ \E s \in Stroke : m = Draw(s)
        \/ m \in {Clear, Cursor, LongCursor}
    BY <1>4, <2>1
  <2> QED
    BY <2>2, <2>3 DEF Message
<1> QED
  BY <1>1, <1>4, <1>5

-----------------------------------------------------------------------------
(* Queues. *)

(* What is in a queue after one more message. *)
LEMMA AppendSet ==
  ASSUME NEW S, NEW q \in Seq(S), NEW m \in S
  PROVE  ToSet(Append(q, m)) = ToSet(q) \cup {m}
<1>1. /\ DOMAIN q = 1 .. Len(q) /\ Len(q) \in Nat
      /\ DOMAIN Append(q, m) = 1 .. Len(q) + 1
  BY AppendProperties, LenProperties
<1> QED
  BY <1>1, AppendProperties DEF ToSet

(* What is in a queue that is not empty. *)
LEMMA HeadTailSet ==
  ASSUME NEW S, NEW q \in Seq(S), q # <<>>
  PROVE  /\ Head(q) \in S /\ Tail(q) \in Seq(S)
         /\ ToSet(q) = {Head(q)} \cup ToSet(Tail(q))
         /\ DOMAIN Tail(q) = 1 .. Len(q) - 1
         /\ \A i \in DOMAIN Tail(q) : Tail(q)[i] = q[i + 1]
<1>1. /\ DOMAIN q = 1 .. Len(q) /\ Len(q) \in Nat /\ Len(q) # 0
  BY LenProperties, EmptySeq
<1>2. /\ Head(q) \in S /\ Head(q) = q[1] /\ Tail(q) \in Seq(S)
      /\ Len(Tail(q)) = Len(q) - 1
      /\ \A i \in 1 .. Len(Tail(q)) : Tail(q)[i] = q[i + 1]
  BY HeadTailProperties
<1>3. DOMAIN Tail(q) = 1 .. Len(q) - 1
  BY <1>1, <1>2, LenProperties
<1>4. \A i \in DOMAIN q : i = 1 \/ i - 1 \in DOMAIN Tail(q)
  BY <1>1, <1>3
<1>5. \A i \in DOMAIN Tail(q) : i + 1 \in DOMAIN q
  BY <1>1, <1>3
<1>6. \A i \in DOMAIN q : i = 1 \/ q[i] = Tail(q)[i - 1]
  BY <1>1, <1>2, <1>3
<1>7. ToSet(q) = {Head(q)} \cup ToSet(Tail(q))
  <2>1. ToSet(q) \subseteq {Head(q)} \cup ToSet(Tail(q))
    BY <1>2, <1>4, <1>6 DEF ToSet
  <2>2. Head(q) \in ToSet(q)
    BY <1>1, <1>2 DEF ToSet
  <2>3. ToSet(Tail(q)) \subseteq ToSet(q)
    BY <1>1, <1>2, <1>3, <1>5 DEF ToSet
  <2> QED
    BY <2>1, <2>2, <2>3
<1> QED
  BY <1>1, <1>2, <1>3, <1>7

(* What a page shows in the end when one more message is on its way.       *)
LEMMA AppendEndsUp ==
  ASSUME NEW S, NEW q \in Seq(S), NEW m \in S, NEW s, NEW strokes
  PROVE  EndsUpIn(s, strokes, Append(q, m)) <=>
           m = Draw(s) \/ (m # Clear /\ EndsUpIn(s, strokes, q))
<1> DEFINE p == Append(q, m)
<1>1. /\ DOMAIN q = 1 .. Len(q) /\ Len(q) \in Nat
      /\ DOMAIN p = 1 .. Len(q) + 1
      /\ \A i \in 1 .. Len(q) : p[i] = q[i]
      /\ p[Len(q) + 1] = m
  BY AppendProperties, LenProperties
<1> HIDE DEF p
<1>2. Clear \in ToSet(p) <=> m = Clear \/ Clear \in ToSet(q)
  BY AppendSet DEF p
<1>3. Draw(s) # Clear
  BY Kinds
<1>4. CASE m = Clear
  <2>1. ~Survives(s, p)
    BY <1>1, <1>3, <1>4 DEF Survives
  <2> QED
    BY <1>2, <1>3, <1>4, <2>1 DEF EndsUpIn, p
<1>5. CASE m = Draw(s)
  <2>1. Survives(s, p)
    BY <1>1, <1>5 DEF Survives
  <2> QED
    BY <1>5, <2>1 DEF EndsUpIn, p
<1>6. CASE m # Clear /\ m # Draw(s)
  <2>1. Survives(s, q) => Survives(s, p)
    BY <1>1, <1>6 DEF Survives
  <2>2. Survives(s, p) => Survives(s, q)
    BY <1>1, <1>6 DEF Survives
  <2> QED
    BY <1>2, <1>6, <2>1, <2>2 DEF EndsUpIn, p
<1> QED
  BY <1>4, <1>5, <1>6

(* What a page shows in the end when the history is replayed to it.        *)
LEMMA ReplayEndsUp ==
  ASSUME NEW S, NEW q \in Seq(S), NEW r \in Seq(S), Clear \notin ToSet(r),
         NEW s, NEW strokes
  PROVE  EndsUpIn(s, strokes, q \o r) <=>
           Draw(s) \in ToSet(r) \/ EndsUpIn(s, strokes, q)
<1> DEFINE p == q \o r
<1>1. /\ DOMAIN q = 1 .. Len(q) /\ Len(q) \in Nat
      /\ DOMAIN r = 1 .. Len(r) /\ Len(r) \in Nat
      /\ DOMAIN p = 1 .. Len(q) + Len(r)
      /\ \A i \in 1 .. Len(q) : p[i] = q[i]
      /\ \A i \in 1 .. Len(r) : p[Len(q) + i] = r[i]
  BY ConcatProperties, LenProperties
<1> HIDE DEF p
<1>2. \A i \in DOMAIN p : i \in DOMAIN q \/ i - Len(q) \in DOMAIN r
  BY <1>1
<1>3. \A i \in DOMAIN p : i \notin DOMAIN q => p[i] = r[i - Len(q)]
  BY <1>1, <1>2
<1>4. \A i \in DOMAIN r : r[i] # Clear
  BY DEF ToSet
<1>5. Clear \in ToSet(p) <=> Clear \in ToSet(q)
  <2>1. Clear \in ToSet(q) => Clear \in ToSet(p)
    BY <1>1 DEF ToSet
  <2>2. Clear \in ToSet(p) => Clear \in ToSet(q)
    BY <1>1, <1>2, <1>3, <1>4 DEF ToSet
  <2> QED
    BY <2>1, <2>2
<1>6. Survives(s, q) => Survives(s, p)
  <2>1. SUFFICES ASSUME NEW i \in DOMAIN q, q[i] = Draw(s),
                        \A j \in DOMAIN q : j > i => q[j] # Clear
                 PROVE  Survives(s, p)
    BY DEF Survives
  <2>2. \A j \in DOMAIN p : j > i => p[j] # Clear
    BY <1>1, <1>2, <1>3, <1>4, <2>1
  <2>3. i \in DOMAIN p /\ p[i] = Draw(s)
    BY <1>1, <2>1
  <2> QED
    BY <2>2, <2>3 DEF Survives
<1>7. Draw(s) \in ToSet(r) => Survives(s, p)
  <2>1. SUFFICES ASSUME NEW i \in DOMAIN r, r[i] = Draw(s)
                 PROVE  Survives(s, p)
    BY DEF ToSet
  <2>2. Len(q) + i \in DOMAIN p /\ p[Len(q) + i] = Draw(s)
    BY <1>1, <2>1
  <2>3. \A j \in DOMAIN p : j > Len(q) + i => j \notin DOMAIN q
    BY <1>1
  <2>4. \A j \in DOMAIN p : j > Len(q) + i => p[j] # Clear
    BY <1>2, <1>3, <1>4, <2>3
  <2> QED
    BY <2>2, <2>4 DEF Survives
<1>8. Survives(s, p) => Survives(s, q) \/ Draw(s) \in ToSet(r)
  <2>1. SUFFICES ASSUME NEW i \in DOMAIN p, p[i] = Draw(s),
                        \A j \in DOMAIN p : j > i => p[j] # Clear
                 PROVE  Survives(s, q) \/ Draw(s) \in ToSet(r)
    BY DEF Survives
  <2>2. CASE i \in DOMAIN q
    <3>1. q[i] = Draw(s) /\ \A j \in DOMAIN q : j > i => q[j] # Clear
      BY <1>1, <2>1, <2>2
    <3> QED
      BY <2>2, <3>1 DEF Survives
  <2>3. CASE i \notin DOMAIN q
    BY <1>2, <1>3, <2>1, <2>3 DEF ToSet
  <2> QED
    BY <2>2, <2>3
<1> QED
  BY <1>5, <1>6, <1>7, <1>8 DEF EndsUpIn, p

(* Taking a message from the front uncovers no stroke behind it.           *)
LEMMA TailSurvives ==
  ASSUME NEW q \in Seq(ToPage), q # <<>>, NEW s
  PROVE  Survives(s, Tail(q)) => Survives(s, q)
<1> DEFINE p == Tail(q)
<1>1. /\ DOMAIN q = 1 .. Len(q) /\ Len(q) \in Nat
      /\ DOMAIN p = 1 .. Len(q) - 1
      /\ \A i \in DOMAIN p : p[i] = q[i + 1]
  BY HeadTailSet, LenProperties
<1> HIDE DEF p
<1>2. SUFFICES ASSUME NEW i \in DOMAIN p, p[i] = Draw(s),
                      \A j \in DOMAIN p : j > i => p[j] # Clear
               PROVE  Survives(s, q)
  BY DEF Survives, p
<1>3. i + 1 \in DOMAIN q /\ q[i + 1] = Draw(s)
  BY <1>1, <1>2
<1>4. \A j \in DOMAIN q : j > i + 1 =>
        j - 1 \in DOMAIN p /\ j - 1 > i /\ q[j] = p[j - 1]
  BY <1>1
<1>5. \A j \in DOMAIN q : j > i + 1 => q[j] # Clear
  BY <1>2, <1>4
<1> QED
  BY <1>3, <1>5 DEF Survives

(* A page that handles a message changes what it shows, not what it will   *)
(* show in the end.                                                        *)
LEMMA ReadingEndsUp ==
  ASSUME NEW q \in Seq(ToPage), q # <<>>, Head(q) \in Message \ {LongCursor},
         NEW s \in Stroke, NEW strokes
  PROVE  EndsUpIn(s, Shown(strokes, Head(q)), Tail(q)) <=>
           EndsUpIn(s, strokes, q)
<1> DEFINE p == Tail(q)
           m == Head(q)
<1>1. /\ DOMAIN q = 1 .. Len(q) /\ Len(q) \in Nat /\ Len(q) # 0
      /\ p \in Seq(ToPage) /\ m = q[1]
      /\ ToSet(q) = {m} \cup ToSet(p)
      /\ DOMAIN p = 1 .. Len(q) - 1
      /\ \A i \in DOMAIN p : p[i] = q[i + 1]
  BY HeadTailSet, HeadTailProperties, LenProperties, EmptySeq
<1>2. m \in Message \ {LongCursor}
  OBVIOUS
<1> HIDE DEF p, m
<1>3. \A i \in DOMAIN q : i = 1 \/ (i - 1 \in DOMAIN p /\ q[i] = p[i - 1])
  BY <1>1
<1>4. Survives(s, p) => Survives(s, q)
  BY TailSurvives DEF p
<1>5. Survives(s, q) =>
        Survives(s, p) \/ (m = Draw(s) /\ Clear \notin ToSet(p))
  <2>1. SUFFICES ASSUME NEW i \in DOMAIN q, q[i] = Draw(s),
                        \A j \in DOMAIN q : j > i => q[j] # Clear
                 PROVE  \/ Survives(s, p)
                        \/ m = Draw(s) /\ Clear \notin ToSet(p)
    BY DEF Survives
  <2>2. \A j \in DOMAIN p : j + 1 > i => p[j] # Clear
    BY <1>1, <2>1
  <2>3. CASE i = 1
    BY <1>1, <2>1, <2>2, <2>3 DEF ToSet
  <2>4. CASE i # 1
    <3>1. i - 1 \in DOMAIN p /\ p[i - 1] = Draw(s)
      BY <1>3, <2>1, <2>4
    <3>2. \A j \in DOMAIN p : j > i - 1 => p[j] # Clear
      BY <1>1, <2>2
    <3> QED
      BY <3>1, <3>2 DEF Survives
  <2> QED
    BY <2>3, <2>4
<1>6. m = Draw(s) /\ Clear \notin ToSet(p) => Survives(s, q)
  <2>1. SUFFICES ASSUME m = Draw(s), Clear \notin ToSet(p)
                 PROVE  Survives(s, q)
    OBVIOUS
  <2>2. \A j \in DOMAIN q : j > 1 => q[j] # Clear
    BY <1>3, <2>1 DEF ToSet
  <2>3. 1 \in DOMAIN q /\ q[1] = Draw(s)
    BY <1>1, <2>1
  <2> QED
    BY <2>2, <2>3 DEF Survives
<1>7. CASE m.type = "draw"
  <2>1. PICK t \in Stroke : m = Draw(t) /\ m.stroke = t
    BY <1>2, <1>7, TypeOfMessage DEF ToServer
  <2>2. Shown(strokes, m) = strokes \cup {t}
    BY <1>7, <2>1 DEF Shown
  <2>3. m # Clear /\ (m = Draw(s) <=> s = t)
    BY <2>1, Kinds
  <2> QED
    BY <1>1, <1>4, <1>5, <1>6, <2>2, <2>3 DEF EndsUpIn, p, m
<1>8. CASE m = Clear
  <2>1. Shown(strokes, m) = {}
    BY <1>2, <1>8, TypeOfMessage DEF Shown, ToServer
  <2>2. m # Draw(s)
    BY <1>8, Kinds
  <2> QED
    BY <1>1, <1>4, <1>5, <1>8, <2>1, <2>2 DEF EndsUpIn, p, m
<1>9. CASE m = Cursor
  <2>1. Shown(strokes, m) = strokes
    BY <1>2, <1>9, TypeOfMessage DEF Shown, ToServer
  <2>2. m # Draw(s) /\ m # Clear
    BY <1>9, Kinds
  <2> QED
    BY <1>1, <1>4, <1>5, <2>1, <2>2 DEF EndsUpIn, p, m
<1> QED
  <2>1. m.type = "draw" \/ m = Clear \/ m = Cursor
    BY <1>2, DrawType DEF Message
  <2> QED
    BY <1>7, <1>8, <1>9, <2>1

-----------------------------------------------------------------------------
(* What the actions are built from. *)

(* The queues have their types. *)
LEMMA QueueTypes ==
  ASSUME TypeOK
  PROVE  /\ inbox \in [Conn -> Seq(ToServer)]
         /\ outbox \in [Conn -> Seq(ToPage)]
         /\ \A k \in Conn : /\ inbox[k] \in Seq(ToServer)
                            /\ outbox[k] \in Seq(ToPage)
                            /\ DOMAIN outbox[k] = 1 .. Len(outbox[k])
                            /\ Len(outbox[k]) \in Nat
         /\ NoFd \notin Fd
<1>1. /\ inbox \in [Conn -> Seq(ToServer)]
      /\ outbox \in [Conn -> Seq(ToPage)]
  BY DEF TypeOK, ToServer, ToPage
<1>2. NoFd \notin Fd
  BY CanvasAssumption DEF NoFd
<1> QED
  BY <1>1, <1>2, LenProperties

(* send_frame to each of some connections: the whole frame, or nothing, or *)
(* a part of it, for each by itself.                                       *)
LEMMA SendEachSends ==
  ASSUME TypeOK, NEW msg \in ToPage, NEW to \in SUBSET Conn,
         SendEach(msg, to), NEW k \in Conn
  PROVE  /\ Gone(k) \/ k \notin to => outbox'[k] = outbox[k]
         /\ ~Gone(k) /\ k \in to \ Full(to) =>
              /\ outbox'[k] = Append(outbox[k], msg)
              /\ Len(outbox[k]) < Cap
         /\ k \in Full(to) =>
              outbox'[k] \in {outbox[k], Append(outbox[k], Cut)}
<1> DEFINE frames == [j \in Conn |-> IF j \in to THEN <<msg>> ELSE <<>>]
<1>1. PICK cut \in SUBSET Full(to) : AfterSends(frames, cut)
  BY DEF SendEach
<1>2. frames[k] = IF k \in to THEN <<msg>> ELSE <<>>
  OBVIOUS
<1> HIDE DEF frames
<1>3. outbox'[k] =
        IF Gone(k) \/ frames[k] = <<>> THEN outbox[k]
        ELSE IF Room(k, Len(frames[k])) THEN outbox[k] \o frames[k]
        ELSE IF k \in cut THEN Append(outbox[k], Cut) ELSE outbox[k]
  BY <1>1 DEF AfterSends
<1>4. CASE k \notin to
  BY <1>2, <1>3, <1>4 DEF Full
<1>5. CASE k \in to
  <2>1. frames[k] = <<msg>> /\ frames[k] # <<>> /\ Len(frames[k]) = 1
    BY <1>2, <1>5
  <2>2. outbox[k] \o <<msg>> = Append(outbox[k], msg)
    BY QueueTypes, AppendIsConcat
  <2>3. /\ k \in Full(to) <=> ~Gone(k) /\ ~Room(k, 1)
        /\ Room(k, 1) => Len(outbox[k]) < Cap
    BY <1>5, QueueTypes, CanvasAssumption DEF Full, Room
  <2> QED
    BY <1>3, <1>5, <2>1, <2>2, <2>3
<1> QED
  BY <1>4, <1>5

(* Frames go where they belong, and what does not fit is an unfinished     *)
(* frame.                                                                  *)
LEMMA SendEachTypes ==
  ASSUME TypeOK, NEW msg \in ToPage, NEW to \in SUBSET Conn,
         SendEach(msg, to)
  PROVE  /\ outbox' \in [Conn -> Seq(ToPage)]
         /\ \A k \in Conn :
              \A i \in DOMAIN outbox'[k] : i > Cap => outbox'[k][i] = Cut
<1>1. \A k \in Conn :
        \/ outbox'[k] = outbox[k]
        \/ outbox'[k] = Append(outbox[k], Cut)
        \/ outbox'[k] = Append(outbox[k], msg) /\ Len(outbox[k]) < Cap
  BY SendEachSends
<1>2. Cut \in ToPage
  BY DEF ToPage
<1>3. \E q : outbox' = [k \in Conn |-> q[k]]
  <2>1. PICK cut, frames : AfterSends(frames, cut)
    BY DEF SendEach
  <2>2. outbox' = [k \in Conn |-> outbox'[k]]
    BY <2>1 DEF AfterSends
  <2> QED
    BY <2>2
<1>4. ASSUME NEW k \in Conn
      PROVE  /\ outbox'[k] \in Seq(ToPage)
             /\ \A i \in DOMAIN outbox'[k] : i > Cap => outbox'[k][i] = Cut
  <2>1. /\ outbox[k] \in Seq(ToPage)
        /\ DOMAIN outbox[k] = 1 .. Len(outbox[k]) /\ Len(outbox[k]) \in Nat
        /\ \A i \in DOMAIN outbox[k] : i > Cap => outbox[k][i] = Cut
    BY QueueTypes DEF TypeOK
  <2>2. ASSUME NEW m \in ToPage, outbox'[k] = Append(outbox[k], m),
               m = Cut \/ Len(outbox[k]) < Cap
        PROVE  /\ outbox'[k] \in Seq(ToPage)
               /\ \A i \in DOMAIN outbox'[k] : i > Cap => outbox'[k][i] = Cut
    <3>1. /\ outbox'[k] \in Seq(ToPage)
          /\ DOMAIN outbox'[k] = 1 .. Len(outbox[k]) + 1
          /\ \A i \in 1 .. Len(outbox[k]) : outbox'[k][i] = outbox[k][i]
          /\ outbox'[k][Len(outbox[k]) + 1] = m
      BY <2>1, <2>2, AppendProperties, LenProperties
    <3> QED
      BY <2>1, <2>2, <3>1, CanvasAssumption
  <2> QED
    BY <1>1, <1>2, <2>1, <2>2
<1> QED
  BY <1>3, <1>4

(* One event of the listener thread takes one message from one page that   *)
(* is behind an open descriptor, after its registration.                   *)
LEMMA ReadsTakesOne ==
  ASSUME TypeOK, NEW f \in Fd, NEW types, Reads(f, types)
  PROVE  /\ closing = NoFd /\ file[f] \in Conn
         /\ upgrade[file[f]] \in {"registered", "opened", "done"}
         /\ inbox[file[f]] # <<>>
         /\ Head(inbox[file[f]]) \in ToServer
         /\ Head(inbox[file[f]]).type \in types
         /\ inbox' = [inbox EXCEPT ![file[f]] = Tail(@)]
         /\ inbox' \in [Conn -> Seq(ToServer)]
         /\ ToSet(inbox[file[f]]) =
              {Head(inbox[file[f]])} \cup ToSet(inbox'[file[f]])
         /\ \A k \in Conn : k # file[f] => inbox'[k] = inbox[k]
         /\ \A k \in Conn : ToSet(inbox'[k]) \subseteq ToSet(inbox[k])
<1> DEFINE k == file[f]
<1>1. /\ closing = NoFd /\ k \in Conn /\ inbox[k] # <<>>
      /\ upgrade[k] \in {"registered", "opened", "done"}
      /\ Head(inbox[k]).type \in types
      /\ inbox' = [inbox EXCEPT ![k] = Tail(@)]
  BY DEF Reads, Readable, TypeOK
<1>2. inbox \in [Conn -> Seq(ToServer)] /\ inbox[k] \in Seq(ToServer)
  BY <1>1, QueueTypes
<1> HIDE DEF k
<1>3. /\ Head(inbox[k]) \in ToServer /\ Tail(inbox[k]) \in Seq(ToServer)
      /\ ToSet(inbox[k]) = {Head(inbox[k])} \cup ToSet(Tail(inbox[k]))
  BY <1>1, <1>2, HeadTailSet
<1>4. /\ inbox'[k] = Tail(inbox[k])
      /\ \A j \in Conn : j # k => inbox'[j] = inbox[j]
      /\ inbox' \in [Conn -> Seq(ToServer)]
  BY <1>1, <1>2, <1>3
<1> QED
  BY <1>1, <1>3, <1>4 DEF k

(* The history as it is replayed to a page that joins. *)
Replay == [i \in DOMAIN drawHistory |-> Draw(drawHistory[i])]

(* What is replayed are the draws of the strokes the server remembers, and  *)
(* nothing else.                                                            *)
LEMMA ReplayIsTheHistory ==
  ASSUME TypeOK
  PROVE  /\ Replay \in Seq(ToPage) /\ Len(Replay) = Len(drawHistory)
         /\ Len(drawHistory) \in Nat
         /\ \A s \in Stroke :
              Draw(s) \in ToSet(Replay) <=> s \in ToSet(drawHistory)
         /\ \A m \in ToSet(Replay) : \E s \in Stroke : m = Draw(s)
<1>1. /\ drawHistory \in Seq(Stroke) /\ Len(drawHistory) \in Nat
      /\ DOMAIN drawHistory = 1 .. Len(drawHistory)
      /\ \A i \in DOMAIN drawHistory : drawHistory[i] \in Stroke
  BY ElementOfSeq, LenProperties DEF TypeOK
<1>2. \A s \in Stroke : Draw(s) \in ToPage
  BY DEF ToPage, Message
<1>3. /\ DOMAIN Replay = 1 .. Len(drawHistory)
      /\ \A i \in DOMAIN Replay : Replay[i] = Draw(drawHistory[i])
  BY <1>1 DEF Replay
<1>4. Replay \in [1 .. Len(drawHistory) -> ToPage]
  BY <1>1, <1>2 DEF Replay
<1>5. Replay \in Seq(ToPage) /\ Len(Replay) = Len(drawHistory)
  BY <1>1, <1>4, IsASeq, LenProperties
<1>6. \A s : Draw(s) \in ToSet(Replay) <=> s \in ToSet(drawHistory)
  BY <1>1, <1>3, Kinds DEF ToSet
<1>7. \A m \in ToSet(Replay) : \E s \in Stroke : m = Draw(s)
  BY <1>1, <1>3 DEF ToSet
<1> QED
  BY <1>1, <1>5, <1>6, <1>7

(* A page that says anything was opened; so neither program ignores it.    *)
LEMMA SpeakersAreKnown ==
  ASSUME IInv, NEW f \in Fd, Readable(f), Head(inbox[file[f]]) # Eof
  PROVE  Up(file[f]) /\ ~Ignores(f)
<1> DEFINE k == file[f]
<1>1. /\ closing = NoFd /\ k \in Conn /\ inbox[k] # <<>>
      /\ NoConn \notin Conn /\ NoFd \notin Fd /\ TypeOK
  BY QueueTypes, CanvasAssumption DEF Readable, IInv, TypeOK
<1> HIDE DEF k
<1>2. Head(inbox[k]) \in ToSet(inbox[k])
  BY <1>1, QueueTypes, HeadTailSet
<1>3. Up(k)
  BY <1>1, <1>2 DEF IInv, PagesSpeakInTurn, k
<1>4. app # "paint" => clients[f] = k \/ clients[f] \in overtaken
  BY <1>1, <1>3 DEF IInv, OnlyOvertakenDangle, k
<1>5. NoConn \notin overtaken
  BY <1>1 DEF TypeOK
<1>6. app = "olivec" => app # "paint"
  OBVIOUS
<1> QED
  BY <1>1, <1>3, <1>4, <1>5, <1>6 DEF Ignores, k

(* A join that does not throw adds the whole history to one outbox. *)
LEMMA JoinReplays ==
  ASSUME IInv, NEW f \in Fd, OnJoin(f)
  PROVE  /\ file[f] \in Conn /\ Head(inbox[file[f]]) = Join
         /\ outbox' = [outbox EXCEPT ![file[f]] =
                         IF Gone(file[f]) THEN @ ELSE @ \o Replay]
         /\ ~Gone(file[f]) => Len(outbox[file[f]]) + Len(Replay) <= Cap
<1> DEFINE k == file[f]
           frames == [j \in Conn |-> IF j = k THEN Replay ELSE <<>>]
<1>0. TypeOK
  BY DEF IInv
<1>1. /\ k \in Conn /\ Head(inbox[k]) = Join
  <2> DEFINE head == Head(inbox[k])
  <2>1. k \in Conn /\ head \in ToServer /\ head.type \in {"join"}
    BY <1>0, ReadsTakesOne DEF OnJoin
  <2> HIDE DEF head, k
  <2>2. head = Join
    BY <2>1, TypeOfMessage
  <2> QED
    BY <2>1, <2>2 DEF head
<1>2. ~Ignores(f)
  <2>1. Readable(f)
    BY DEF OnJoin, Reads
  <2> QED
    BY <1>1, <2>1, SpeakersAreKnown, Kinds
<1>3. /\ Gone(k) \/ Room(k, Len(Replay))
      /\ AfterSends(frames, {})
  BY <1>1, <1>2 DEF OnJoin, Replay
<1>4. frames[k] = Replay /\ \A j \in Conn : j # k => frames[j] = <<>>
  BY <1>1
<1> HIDE DEF k, frames
<1>5. /\ outbox \in [Conn -> Seq(ToPage)]
      /\ \A j \in Conn : outbox[j] \in Seq(ToPage)
  BY <1>0, QueueTypes
<1>6. outbox[k] \o <<>> = outbox[k]
  BY <1>1, <1>5, ConcatEmptySeq
<1>8. outbox' = [j \in Conn |->
         IF Gone(j) \/ frames[j] = <<>> THEN outbox[j]
         ELSE IF Room(j, Len(frames[j])) THEN outbox[j] \o frames[j]
         ELSE outbox[j]]
  BY <1>3 DEF AfterSends
<1>9. \A j \in Conn : outbox'[j] =
        IF j = k /\ ~Gone(k) THEN outbox[k] \o Replay ELSE outbox[j]
  BY <1>3, <1>4, <1>6, <1>8
<1>10. outbox' = [outbox EXCEPT ![k] = IF Gone(k) THEN @ ELSE @ \o Replay]
  BY <1>1, <1>5, <1>8, <1>9
<1>11. ~Gone(k) => Len(outbox[k]) + Len(Replay) <= Cap
  BY <1>3 DEF Room
<1> QED
  BY <1>1, <1>10, <1>11 DEF k

(* The pages a message of the page behind f is sent to. *)
Audience(f) == Recipients(Entries(Head(inbox[file[f]]), f))

(* on_message of both programs, for anything but a join: a frame goes to   *)
(* each recipient, none of them destroyed, and the history and the map are *)
(* written as follows.                                                     *)
LEMMA DrawBroadcasts ==
  ASSUME TypeOK, NEW f \in Fd, OnDrawCursorClear(f)
  PROVE  /\ file[f] \in Conn /\ Head(inbox[file[f]]) \in Message
         /\ Head(inbox[file[f]]) \notin {Join, Eof}
         /\ Audience(f) \subseteq Registered /\ Registered \subseteq Conn
         /\ \A g \in Entries(Head(inbox[file[f]]), f) : ~Dangling(g)
         /\ \E frame \in Message :
              /\ \/ frame = Head(inbox[file[f]])
                 \/ Head(inbox[file[f]]) = LongCursor /\ frame = Cursor
              /\ SendEach(frame, Audience(f))
         /\ \E failed \in SUBSET Audience(f) :
              /\ Full(Audience(f)) \subseteq failed
              /\ missed' = missed \cup failed
              /\ clients' = IF app = "paint" THEN DropsFailed(failed)
                            ELSE clients
         /\ drawHistory' = IF Ignores(f) THEN drawHistory
                           ELSE HistoryAfter(Head(inbox[file[f]]))
<1> DEFINE msg == Head(inbox[file[f]])
<1>1. Reads(f, Broadcasted)
  BY DEF OnDrawCursorClear
<1>2. /\ file[f] \in Conn /\ msg \in Message /\ msg \notin {Join, Eof}
  BY <1>1, ReadsTakesOne, TypeOfMessage
<1>3. Registered \subseteq Conn
  BY DEF Registered, TypeOK
<1>4. Audience(f) \subseteq Registered
  BY DEF Audience, Recipients, Registered, Entries
<1>5. PICK frame \in Relayed(f, msg) : SendEach(frame, Audience(f))
  BY DEF OnDrawCursorClear, Audience
<1>6. /\ frame \in Message
      /\ frame = msg \/ (msg = LongCursor /\ frame = Cursor)
  BY <1>2, <1>5 DEF Relayed, Message
<1>7. PICK failed \in Failures(Audience(f)) :
        /\ missed' = missed \cup failed
        /\ clients' = IF app = "paint" THEN DropsFailed(failed) ELSE clients
  BY DEF OnDrawCursorClear, Audience
<1>8. failed \in SUBSET Audience(f) /\ Full(Audience(f)) \subseteq failed
  BY <1>7 DEF Failures
<1>9. /\ \A g \in Entries(msg, f) : ~Dangling(g)
      /\ drawHistory' = IF Ignores(f) THEN drawHistory ELSE HistoryAfter(msg)
  BY DEF OnDrawCursorClear
<1> QED
  BY <1>2, <1>3, <1>4, <1>5, <1>6, <1>7, <1>8, <1>9

(* A page puts one message into its queue to the server. *)
LEMMA PageSends ==
  ASSUME TypeOK, NEW k \in Conn, NEW m \in ToServer,
         inbox' = [inbox EXCEPT ![k] = Append(@, m)]
  PROVE  /\ inbox' \in [Conn -> Seq(ToServer)]
         /\ inbox'[k] = Append(inbox[k], m)
         /\ ToSet(inbox'[k]) = ToSet(inbox[k]) \cup {m}
         /\ \A j \in Conn : j # k => inbox'[j] = inbox[j]
<1>1. inbox \in [Conn -> Seq(ToServer)] /\ inbox[k] \in Seq(ToServer)
  BY QueueTypes
<1>2. Append(inbox[k], m) \in Seq(ToServer)
  BY <1>1, AppendProperties
<1>3. ToSet(Append(inbox[k], m)) = ToSet(inbox[k]) \cup {m}
  BY <1>1, AppendSet
<1> QED
  BY <1>1, <1>2, <1>3

(* A page takes one message out of the queue to it. *)
OutboxTypes ==
  /\ outbox \in [Conn -> Seq(ToPage)]
  /\ \A k \in Conn : \A i \in DOMAIN outbox[k] : i > Cap => outbox[k][i] = Cut

(* A page that takes the next frame leaves the other frames and the other   *)
(* pages alone.                                                             *)
LEMMA PageReads ==
  ASSUME TypeOK, NEW k \in Conn, outbox[k] # <<>>,
         outbox' = [outbox EXCEPT ![k] = Tail(@)]
  PROVE  /\ OutboxTypes'
         /\ Head(outbox[k]) \in ToPage
         /\ outbox'[k] = Tail(outbox[k])
         /\ ToSet(outbox[k]) = {Head(outbox[k])} \cup ToSet(outbox'[k])
         /\ \A j \in Conn : j # k => outbox'[j] = outbox[j]
<1>1. outbox \in [Conn -> Seq(ToPage)] /\ outbox[k] \in Seq(ToPage)
  BY QueueTypes
<1>2. \A j \in Conn : \A i \in DOMAIN outbox[j] :
        i > Cap => outbox[j][i] = Cut
  BY DEF TypeOK
<1>3. /\ Head(outbox[k]) \in ToPage /\ Tail(outbox[k]) \in Seq(ToPage)
      /\ ToSet(outbox[k]) = {Head(outbox[k])} \cup ToSet(Tail(outbox[k]))
      /\ DOMAIN Tail(outbox[k]) = 1 .. Len(outbox[k]) - 1
      /\ \A i \in DOMAIN Tail(outbox[k]) :
           Tail(outbox[k])[i] = outbox[k][i + 1]
  BY <1>1, HeadTailSet
<1>4. /\ outbox'[k] = Tail(outbox[k])
      /\ \A j \in Conn : j # k => outbox'[j] = outbox[j]
      /\ outbox' \in [Conn -> Seq(ToPage)]
  BY <1>1, <1>3
<1>5. \A i \in DOMAIN outbox'[k] : i > Cap => outbox'[k][i] = Cut
  <2>1. DOMAIN outbox[k] = 1 .. Len(outbox[k]) /\ Len(outbox[k]) \in Nat
    BY QueueTypes
  <2>2. \A i \in DOMAIN outbox'[k] : i > Cap =>
          /\ i + 1 \in DOMAIN outbox[k] /\ i + 1 > Cap
          /\ outbox'[k][i] = outbox[k][i + 1]
    BY <1>3, <1>4, <2>1, CanvasAssumption
  <2> QED
    BY <1>2, <2>2
<1> QED
  BY <1>2, <1>3, <1>4, <1>5 DEF OutboxTypes

(* What the three kinds of steps leave alone. *)
WorkerFrame ==
  UNCHANGED <<app, drawHistory, missed, overtaken, closing, inbox, pageVars>>
ListenerFrame == UNCHANGED <<app, upgrade, clientFd, pageVars>>
PageFrame ==
  UNCHANGED <<app, server, roomVars, overtaken, closing, upgrade, clientFd,
              file, reset>>

-----------------------------------------------------------------------------
(* Types. *)

Stages == {"new", "accepted", "registered", "opened", "done"}

(* Every step keeps the types. *)
LEMMA TypeOKStep ==
  ASSUME IInv, [Next]_vars
  PROVE  TypeOK'
<1> USE DEF roomVars, pageVars
<1>0. /\ inbox \in [Conn -> Seq(ToServer)] /\ OutboxTypes
      /\ NoFd \notin Fd /\ TypeOK /\ OneDescriptorEach
  BY QueueTypes DEF IInv, TypeOK, OutboxTypes
<1>a. ASSUME /\ app' \in App /\ server' \in {"up", "down", "undefined"}
             /\ cleared' \in BOOLEAN /\ drawHistory' \in Seq(Stroke)
             /\ clients' \in [Fd -> Conn \cup {NoConn}]
             /\ file' \in [Fd -> Conn \cup {NoConn}]
             /\ closing' \in Fd \cup {NoFd}
             /\ upgrade' \in [Conn -> Stages] /\ overtaken' \subseteq Conn
             /\ clientFd' \in [Conn -> Fd \cup {NoFd}],
             inbox' \in [Conn -> Seq(ToServer)], OutboxTypes',
             /\ reset' \subseteq Conn /\ missed' \subseteq Conn
             /\ page' \in [Conn -> {"connecting", "open", "lost", "gone"}]
             /\ canvas' \in [Conn -> SUBSET Stroke]
             /\ sent' \in 0 .. MaxSends
      PROVE  TypeOK'
  BY <1>a DEF TypeOK, OutboxTypes, ToServer, ToPage, Stages
<1>r. reset' \subseteq Conn
  <2>1. \A frames, cut : AfterSends(frames, cut) => reset' \subseteq Conn
    BY <1>0 DEF AfterSends, TypeOK
  <2>2. WorkerStep => reset' \subseteq Conn
    BY <1>0, <2>1
    DEF WorkerStep, Accept, Register, OnOpen, Handshake, SendEach, TypeOK
  <2>3. ListenerStep => reset' \subseteq Conn
    BY <1>0, <2>1
    DEF ListenerStep, OnMessageThrows, OnMessageRaisesSigpipe, OnJoin,
        OnDrawCursorClear, FollowsDangling, OnClose, EraseConnection,
        SendEach, TypeOK
  <2>4. PageStep \/ UNCHANGED vars => reset' \subseteq Conn
    BY <1>0 DEF PageStep, vars, TypeOK
  <2> QED
    BY <2>2, <2>3, <2>4 DEF Next
<1>1. CASE UNCHANGED vars
  BY <1>0, <1>1 DEF vars, TypeOK
<1>2. ASSUME NEW k \in Conn, Accept(k) \/ Register(k) \/ OnOpen(k),
             WorkerFrame
      PROVE  TypeOK'
  <2>1. CASE Accept(k)
    <3>1. PICK f \in Fd : /\ file' = [file EXCEPT ![f] = k]
                          /\ clientFd' = [clientFd EXCEPT ![k] = f]
      BY <2>1 DEF Accept
    <3>2. /\ file' \in [Fd -> Conn \cup {NoConn}]
          /\ clientFd' \in [Conn -> Fd \cup {NoFd}]
      BY <1>0, <3>1 DEF TypeOK
    <3>3. /\ upgrade' \in [Conn -> Stages]
          /\ UNCHANGED <<server, clients, outbox>>
      BY <1>0, <2>1 DEF Accept, TypeOK, Stages
    <3> QED
      BY <1>0, <1>2, <1>a, <1>r, <3>2, <3>3 DEF TypeOK, OutboxTypes, WorkerFrame
  <2>2. CASE Register(k)
    BY <1>0, <1>2, <1>a, <1>r, <2>2
    DEF TypeOK, OutboxTypes, Register, WorkerFrame, Stages
  <2>3. CASE OnOpen(k)
    BY <1>0, <1>2, <1>a, <1>r, <2>3
    DEF TypeOK, OutboxTypes, OnOpen, WorkerFrame, Stages
  <2> QED
    BY <1>2, <2>1, <2>2, <2>3
<1>3. ASSUME NEW k \in Conn, Handshake(k), WorkerFrame PROVE TypeOK'
  <2>1. PICK to : /\ to = {file[clientFd[k]]} \ {NoConn}
                  /\ \/ server' = "down" /\ outbox' = outbox
                     \/ SendEach(Switching(k), to) /\ server' = server
    BY <1>3 DEF Handshake
  <2>2. OutboxTypes'
    <3>1. CASE outbox' = outbox
      BY <1>0, <3>1 DEF OutboxTypes
    <3>2. CASE SendEach(Switching(k), to)
      <4>1. Switching(k) \in ToPage
        BY DEF ToPage
      <4>2. to \in SUBSET Conn
        BY <1>0, <1>3, <2>1 DEF TypeOK, OneDescriptorEach, Handshake
      <4> QED
        BY <1>0, <3>2, <4>1, <4>2, SendEachTypes DEF OutboxTypes
    <3> QED
      BY <2>1, <3>1, <3>2
  <2>3. /\ UNCHANGED <<clients, clientFd, file>>
        /\ server' \in {"up", "down", "undefined"}
    BY <1>0, <1>3, <2>1 DEF Handshake, TypeOK
  <2>4. upgrade' \in [Conn -> Stages]
    BY <1>0, <1>3 DEF Handshake, TypeOK, Stages
  <2> QED
    BY <1>0, <1>3, <1>a, <1>r, <2>2, <2>3, <2>4 DEF WorkerFrame, TypeOK
<1>4. ASSUME NEW f \in Fd,
             \/ OnMessageThrows(f) \/ OnMessageRaisesSigpipe(f)
             \/ FollowsDangling(f),
             ListenerFrame
      PROVE  TypeOK'
  <2>1. CASE OnMessageThrows(f)
    BY <1>0, <1>4, <1>a, <1>r, <2>1
    DEF TypeOK, OutboxTypes, OnMessageThrows, ListenerFrame, Stages
  <2>2. CASE OnMessageRaisesSigpipe(f)
    <3>1. inbox' \in [Conn -> Seq(ToServer)]
      BY <1>0, <2>2, ReadsTakesOne DEF OnMessageRaisesSigpipe
    <3> QED
      BY <1>0, <1>4, <1>a, <1>r, <2>2, <3>1
      DEF TypeOK, OutboxTypes, OnMessageRaisesSigpipe, ListenerFrame, Stages
  <2>3. CASE FollowsDangling(f)
    <3>1. inbox' \in [Conn -> Seq(ToServer)]
      BY <1>0, <2>3, ReadsTakesOne DEF FollowsDangling
    <3> QED
      BY <1>0, <1>4, <1>a, <1>r, <2>3, <3>1
      DEF TypeOK, OutboxTypes, FollowsDangling, ListenerFrame, Stages
  <2> QED
    BY <1>4, <2>1, <2>2, <2>3
<1>5. ASSUME NEW f \in Fd, OnJoin(f), ListenerFrame PROVE TypeOK'
  <2>1. inbox' \in [Conn -> Seq(ToServer)]
    BY <1>0, <1>5, ReadsTakesOne DEF OnJoin
  <2>2. OutboxTypes'
    <3> DEFINE k == file[f]
    <3>1. /\ k \in Conn
          /\ outbox' = [outbox EXCEPT ![k] =
                          IF Gone(k) THEN @ ELSE @ \o Replay]
          /\ ~Gone(k) => Len(outbox[k]) + Len(Replay) <= Cap
      BY <1>5, JoinReplays
    <3> HIDE DEF k
    <3>2. /\ outbox[k] \in Seq(ToPage) /\ Replay \in Seq(ToPage)
          /\ Len(outbox[k]) \in Nat /\ Len(Replay) \in Nat
      BY <1>0, <3>1, ReplayIsTheHistory, QueueTypes
    <3>3. /\ outbox[k] \o Replay \in Seq(ToPage)
          /\ DOMAIN (outbox[k] \o Replay) = 1 .. Len(outbox[k]) + Len(Replay)
      BY <3>2, ConcatProperties, LenProperties
    <3>4. outbox' \in [Conn -> Seq(ToPage)]
      BY <1>0, <3>1, <3>3 DEF OutboxTypes
    <3>5. \A j \in Conn : j # k => outbox'[j] = outbox[j]
      BY <1>0, <3>1 DEF OutboxTypes
    <3>6. CASE outbox'[k] = outbox[k]
      BY <1>0, <3>4, <3>5, <3>6 DEF OutboxTypes
    <3>7. CASE outbox'[k] # outbox[k]
      <4>1. DOMAIN outbox'[k] = 1 .. Len(outbox[k]) + Len(Replay)
        BY <1>0, <3>1, <3>3, <3>7 DEF OutboxTypes
      <4>2. Len(outbox[k]) + Len(Replay) <= Cap
        BY <1>0, <3>1, <3>7 DEF OutboxTypes
      <4>3. \A i \in DOMAIN outbox'[k] : ~(i > Cap)
        BY <3>2, <4>1, <4>2, CanvasAssumption
      <4> QED
        BY <1>0, <3>4, <3>5, <4>3 DEF OutboxTypes
    <3> QED
      BY <3>6, <3>7
  <2> QED
    BY <1>0, <1>5, <1>a, <1>r, <2>1, <2>2
    DEF TypeOK, OnJoin, ListenerFrame, Stages
<1>6. ASSUME NEW f \in Fd, OnDrawCursorClear(f), ListenerFrame PROVE TypeOK'
  <2> DEFINE msg == Head(inbox[file[f]])
  <2>1. inbox' \in [Conn -> Seq(ToServer)]
    BY <1>0, <1>6, ReadsTakesOne DEF OnDrawCursorClear
  <2>2. /\ msg \in Message /\ Audience(f) \in SUBSET Conn
        /\ \E frame \in Message : SendEach(frame, Audience(f))
        /\ \E failed \in SUBSET Audience(f) :
             /\ missed' = missed \cup failed
             /\ clients' = IF app = "paint" THEN DropsFailed(failed)
                           ELSE clients
        /\ drawHistory' = IF Ignores(f) THEN drawHistory ELSE HistoryAfter(msg)
    BY <1>0, <1>6, DrawBroadcasts
  <2> HIDE DEF msg
  <2>3. OutboxTypes'
    BY <1>0, <2>2, SendEachTypes DEF OutboxTypes, ToPage
  <2>4. clients' \in [Fd -> Conn \cup {NoConn}]
    BY <1>0, <2>2 DEF DropsFailed, TypeOK
  <2>5. drawHistory' \in Seq(Stroke)
    <3>1. CASE msg.type = "draw"
      <4>a. msg \in ToServer
        BY <2>2 DEF ToServer
      <4>1. msg.stroke \in Stroke
        BY <3>1, <4>a, TypeOfMessage
      <4>0. drawHistory \in Seq(Stroke)
        BY <1>0 DEF TypeOK
      <4>2. Append(drawHistory, msg.stroke) \in Seq(Stroke)
        BY <4>0, <4>1, AppendProperties
      <4>3. HistoryAfter(msg) = Append(drawHistory, msg.stroke)
        BY <3>1 DEF HistoryAfter
      <4> QED
        BY <1>0, <2>2, <4>2, <4>3 DEF TypeOK
    <3>2. CASE msg = Clear
      <4>1. HistoryAfter(msg) = <<>>
        BY <3>2, TypeOfMessage DEF HistoryAfter, Clear
      <4> QED
        BY <1>0, <2>2, <4>1 DEF TypeOK
    <3>3. CASE msg = Cursor
      <4>1. msg.type = "cursor"
        BY <3>3 DEF Cursor
      <4> QED
        BY <1>0, <2>2, <4>1 DEF HistoryAfter, TypeOK
    <3>5. CASE msg = LongCursor
      <4>1. msg.type = "long cursor"
        BY <3>5 DEF LongCursor
      <4> QED
        BY <1>0, <2>2, <4>1 DEF HistoryAfter, TypeOK
    <3>4. \/ msg.type = "draw"
          \/ msg = Clear \/ msg = Cursor \/ msg = LongCursor
      BY <2>2, DrawType DEF Message
    <3> QED
      BY <3>1, <3>2, <3>3, <3>4, <3>5
  <2>6. missed' \subseteq Conn
    BY <1>0, <2>2 DEF TypeOK
  <2> QED
    BY <1>0, <1>6, <1>a, <1>r, <2>1, <2>3, <2>4, <2>5, <2>6
    DEF TypeOK, OnDrawCursorClear, ListenerFrame, Stages
<1>7. ASSUME NEW f \in Fd, OnClose(f), ListenerFrame PROVE TypeOK'
  <2>1. inbox' \in [Conn -> Seq(ToServer)]
    BY <1>0, <1>7, ReadsTakesOne DEF OnClose
  <2>2. overtaken' \subseteq Conn
    <3>1. file[f] \in Conn
      BY <1>0, <1>7, ReadsTakesOne DEF OnClose
    <3> QED
      BY <1>0, <1>7, <3>1 DEF OnClose, TypeOK
  <2> QED
    BY <1>0, <1>7, <1>a, <1>r, <2>1, <2>2
    DEF TypeOK, OutboxTypes, OnClose, ListenerFrame, Stages
<1>8. ASSUME EraseConnection, ListenerFrame PROVE TypeOK'
  BY <1>0, <1>8, <1>a
  DEF TypeOK, OutboxTypes, EraseConnection, ListenerFrame, Stages
<1>9. ASSUME NEW k \in Conn, Leave(k), PageFrame PROVE TypeOK'
  <2>1. inbox' \in [Conn -> Seq(ToServer)]
    BY <1>0, <1>9, PageSends DEF Leave, ToServer
  <2>2. /\ outbox' \in [Conn -> Seq(ToPage)] /\ outbox'[k] = <<>>
        /\ \A j \in Conn : j # k => outbox'[j] = outbox[j]
    BY <1>0, <1>9 DEF Leave, OutboxTypes
  <2>3. OutboxTypes'
    <3>1. \A i \in DOMAIN outbox'[k] : FALSE
      BY <2>2
    <3> QED
      BY <1>0, <2>2, <3>1 DEF OutboxTypes
  <2> QED
    BY <1>0, <1>9, <1>a, <1>r, <2>1, <2>3 DEF TypeOK, Leave, PageFrame, Stages
<1>10. ASSUME NEW k \in Conn, Opens(k), PageFrame PROVE TypeOK'
  <2>1. inbox' \in [Conn -> Seq(ToServer)]
    BY <1>0, <1>10, PageSends DEF Opens, ToServer
  <2>2. OutboxTypes'
    BY <1>0, <1>10, PageReads DEF Opens
  <2> QED
    BY <1>0, <1>10, <1>a, <1>r, <2>1, <2>2 DEF TypeOK, Opens, PageFrame, Stages
<1>11. ASSUME NEW k \in Conn, OnPageMessage(k), PageFrame PROVE TypeOK'
  <2>1. OutboxTypes' /\ Head(outbox[k]) \in ToPage
    BY <1>0, <1>11, PageReads DEF OnPageMessage
  <2>2. Shown(canvas[k], Head(outbox[k])) \in SUBSET Stroke
    <3>1. canvas[k] \in SUBSET Stroke
      BY <1>0 DEF TypeOK
    <3>2. Head(outbox[k]).type \in {"draw", "clear", "cursor"}
      BY <1>11 DEF OnPageMessage
    <3>3. Head(outbox[k]).type = "draw" => Head(outbox[k]).stroke \in Stroke
      BY <2>1, TypeOfMessage
    <3> QED
      BY <3>1, <3>2, <3>3 DEF Shown
  <2>3. canvas' \in [Conn -> SUBSET Stroke]
    BY <1>0, <1>11, <2>2 DEF OnPageMessage, TypeOK
  <2> QED
    BY <1>0, <1>11, <1>a, <1>r, <2>1, <2>3
    DEF TypeOK, OnPageMessage, PageFrame, Stages
<1>12. ASSUME NEW k \in Conn, Paint(k) \/ MoveCursor(k) \/ ClickClear(k),
              PageFrame
       PROVE  TypeOK'
  <2> DEFINE s == <<k, sent + 1>>
  <2>1. /\ sent < MaxSends /\ sent' = sent + 1 /\ UNCHANGED <<outbox, page>>
        /\ \E m \in {Draw(s), Cursor, LongCursor, Clear} :
             inbox' = [inbox EXCEPT ![k] = Append(@, m)]
    BY <1>12 DEF Paint, MoveCursor, ClickClear, Sends
  <2>2. s \in Stroke /\ sent' \in 0 .. MaxSends
    BY <1>0, <2>1, CanvasAssumption DEF TypeOK, Stroke
  <2>3. {Draw(s), Cursor, LongCursor, Clear} \subseteq ToServer
    BY <2>2 DEF ToServer, Message
  <2>4. inbox' \in [Conn -> Seq(ToServer)]
    BY <1>0, <2>1, <2>3, PageSends
  <2>5. cleared' \in BOOLEAN /\ canvas' \in [Conn -> SUBSET Stroke]
    <3>1. CASE Paint(k)
      BY <1>0, <2>2, <3>1 DEF Paint, TypeOK
    <3>2. CASE MoveCursor(k) \/ ClickClear(k)
      BY <1>0, <3>2 DEF MoveCursor, ClickClear, TypeOK
    <3> QED
      BY <1>12, <3>1, <3>2
  <2> QED
    BY <1>0, <1>12, <1>a, <1>r, <2>1, <2>2, <2>4, <2>5
    DEF TypeOK, OutboxTypes, PageFrame, Stages
<1>13. ASSUME NEW k \in Conn, LosesTrack(k) \/ Swallows(k), PageFrame
       PROVE  TypeOK'
  <2>1. /\ outbox[k] # <<>> /\ outbox' = [outbox EXCEPT ![k] = Tail(@)]
        /\ page' = page \/ page' = [page EXCEPT ![k] = "lost"]
        /\ UNCHANGED <<inbox, canvas, sent, cleared>>
    BY <1>13 DEF LosesTrack, Swallows
  <2>2. OutboxTypes'
    BY <1>0, <2>1, PageReads
  <2>3. page' \in [Conn -> {"connecting", "open", "lost", "gone"}]
    BY <1>0, <2>1 DEF TypeOK
  <2> QED
    BY <1>0, <1>13, <1>a, <1>r, <2>1, <2>2, <2>3 DEF TypeOK, PageFrame, Stages
<1> QED
  BY <1>1, <1>2, <1>3, <1>4, <1>5, <1>6, <1>7, <1>8, <1>9, <1>10, <1>11,
     <1>12, <1>13
  DEF Next, WorkerStep, ListenerStep, PageStep, WorkerFrame, ListenerFrame,
      PageFrame

-----------------------------------------------------------------------------
(* Which connection is behind which descriptor. *)

(* A page that has gone stays gone.                                        *)
LEMMA PagesGoOnce ==
  ASSUME TypeOK, PageStep, NEW k \in Conn
  PROVE  Gone(k) => Gone(k)'
<1>1. ASSUME NEW j \in Conn, Leave(j)
      PROVE  Gone(k) => Gone(k)'
  BY <1>1 DEF Leave, TypeOK, Gone
<1>2. ASSUME NEW j \in Conn, Opens(j) \/ LosesTrack(j)
      PROVE  Gone(k) => Gone(k)'
  BY <1>2 DEF Opens, LosesTrack, TypeOK, Gone
<1>3. ASSUME NEW j \in Conn,
             \/ OnPageMessage(j) \/ Swallows(j)
             \/ Paint(j) \/ MoveCursor(j) \/ ClickClear(j)
      PROVE  page' = page
  BY <1>3
  DEF OnPageMessage, Swallows, Paint, MoveCursor, ClickClear, Sends
<1> QED
  BY <1>1, <1>2, <1>3 DEF PageStep, Gone

(* A page is behind one descriptor at most, the one its worker was given,  *)
(* and it has it as long as it lives; what the registry has under another  *)
(* is an on_open that on_close overtook.                                   *)
LEMMA OneDescriptorStep ==
  ASSUME IInv, [Next]_vars
  PROVE  OneDescriptorEach'
<1> USE DEF roomVars, pageVars
<1>0. /\ file \in [Fd -> Conn \cup {NoConn}]
      /\ clients \in [Fd -> Conn \cup {NoConn}]
      /\ upgrade \in [Conn -> Stages]
      /\ clientFd \in [Conn -> Fd \cup {NoFd}]
      /\ closing \in Fd \cup {NoFd} /\ overtaken \subseteq Conn
      /\ NoFd \notin Fd /\ NoConn \notin Conn
      /\ TypeOK /\ OneDescriptorEach
      /\ \A f \in Fd : clients[f] # NoConn => Up(clients[f])
  BY QueueTypes, CanvasAssumption
  DEF IInv, TypeOK, OnlyOvertakenDangle, Stages
<1> HIDE DEF IInv
<1>a. ASSUME UNCHANGED <<file, upgrade, clientFd, closing, overtaken>>,
             \A k \in Conn : Gone(k) => Gone(k)',
             \A f \in Fd : clients'[f] \in {clients[f], NoConn}
      PROVE  OneDescriptorEach'
  BY <1>0, <1>a DEF OneDescriptorEach
<1>1. CASE UNCHANGED vars
  BY <1>1, <1>a DEF vars, Gone
<1>2. ASSUME NEW k \in Conn, Accept(k), WorkerFrame
      PROVE  OneDescriptorEach'
  <2>1. PICK f \in Fd : /\ file[f] = NoConn
                        /\ file' = [file EXCEPT ![f] = k]
                        /\ clientFd' = [clientFd EXCEPT ![k] = f]
    BY <1>2 DEF Accept
  <2>2. /\ upgrade[k] = "new" /\ upgrade' = [upgrade EXCEPT ![k] = "accepted"]
        /\ UNCHANGED <<clients, page, closing, overtaken>>
    BY <1>2 DEF Accept, WorkerFrame
  <2>3. /\ \A g \in Fd : file[g] # k /\ clients[g] # k
        /\ k \notin overtaken
    BY <1>0, <2>2 DEF OneDescriptorEach, Up
  <2>4. /\ file'[f] = k /\ \A g \in Fd : g # f => file'[g] = file[g]
        /\ upgrade'[k] = "accepted" /\ clientFd'[k] = f
        /\ \A j \in Conn : j # k => /\ upgrade'[j] = upgrade[j]
                                    /\ clientFd'[j] = clientFd[j]
    BY <1>0, <2>1, <2>2
  <2>5. closing # f
    BY <1>0, <2>1 DEF OneDescriptorEach
  <2>6. ASSUME NEW g \in Fd
        PROVE  /\ file'[g] # NoConn =>
                    upgrade'[file'[g]] # "new" /\ clientFd'[file'[g]] = g
               /\ clients'[g] # NoConn => clientFd'[clients'[g]] = g
    BY <1>0, <2>1, <2>2, <2>3, <2>4 DEF OneDescriptorEach
  <2>7. ASSUME NEW j \in Conn
        PROVE  /\ upgrade'[j] # "new" => clientFd'[j] \in Fd
               /\ upgrade'[j] # "new" /\ ~Gone(j)' =>
                    file'[clientFd'[j]] = j /\ closing' # clientFd'[j]
               /\ /\ upgrade'[j] \in {"accepted", "registered"}
                  /\ j \notin overtaken'
                  => file'[clientFd'[j]] = j /\ closing' # clientFd'[j]
               /\ j \in overtaken' =>
                    /\ Gone(j)'
                    /\ upgrade'[j] \in {"registered", "opened", "done"}
                    /\ file'[clientFd'[j]] = j => closing' = clientFd'[j]
    <3>1. CASE j = k
      BY <2>2, <2>3, <2>4, <2>5, <3>1
    <3>2. CASE j # k
      <4>1. upgrade[j] # "new" => clientFd[j] \in Fd
        BY <1>0 DEF OneDescriptorEach
      <4>2. file[clientFd[j]] = j => clientFd[j] # f
        BY <1>0, <2>1
      <4> QED
        BY <1>0, <2>1, <2>2, <2>4, <3>2, <4>1, <4>2
        DEF OneDescriptorEach, Gone
    <3> QED
      BY <3>1, <3>2
  <2>8. closing' # NoFd =>
          /\ file'[closing'] # NoConn /\ Gone(file[closing])'
          /\ upgrade'[file'[closing']] \in {"registered", "opened", "done"}
          /\ clients'[closing'] # NoConn => clients'[closing'] \in overtaken'
    BY <1>0, <2>2, <2>3, <2>4, <2>5 DEF OneDescriptorEach, Gone
  <2> QED
    BY <2>6, <2>7, <2>8 DEF OneDescriptorEach
<1>3. ASSUME NEW k \in Conn, Register(k), WorkerFrame
      PROVE  OneDescriptorEach'
  <2>1. /\ upgrade[k] = "accepted"
        /\ upgrade' = [upgrade EXCEPT ![k] = "registered"]
        /\ UNCHANGED <<file, page, closing, clientFd, clients, overtaken>>
    BY <1>3 DEF Register, WorkerFrame
  <2> QED
    BY <1>0, <2>1 DEF OneDescriptorEach, Gone
<1>4. ASSUME NEW k \in Conn, OnOpen(k), WorkerFrame
      PROVE  OneDescriptorEach'
  <2>1. /\ upgrade[k] = "registered"
        /\ upgrade' = [upgrade EXCEPT ![k] = "opened"]
        /\ clients' = [clients EXCEPT ![clientFd[k]] = k]
        /\ UNCHANGED <<file, page, closing, clientFd, overtaken>>
    BY <1>4 DEF OnOpen, WorkerFrame
  <2>2. clientFd[k] \in Fd
    BY <2>1, <1>0 DEF OneDescriptorEach
  <2>3. clientFd[k] = closing => k \in overtaken
    BY <1>0, <2>1 DEF OneDescriptorEach
  <2> QED
    BY <1>0, <2>1, <2>2, <2>3 DEF OneDescriptorEach, Gone
<1>5. ASSUME NEW k \in Conn, Handshake(k), WorkerFrame
      PROVE  OneDescriptorEach'
  <2>1. /\ upgrade[k] = "opened"
        /\ upgrade' = [upgrade EXCEPT ![k] = "done"]
        /\ UNCHANGED <<file, page, closing, clientFd, clients, overtaken>>
    BY <1>5 DEF Handshake, WorkerFrame
  <2> QED
    BY <1>0, <2>1 DEF OneDescriptorEach, Gone
<1>6. ASSUME NEW f \in Fd,
             \/ OnMessageThrows(f) \/ OnMessageRaisesSigpipe(f)
             \/ OnJoin(f) \/ OnDrawCursorClear(f) \/ FollowsDangling(f),
             ListenerFrame
      PROVE  OneDescriptorEach'
  <2>1. UNCHANGED <<file, closing, overtaken, upgrade, clientFd, page>>
    BY <1>6
    DEF OnMessageThrows, OnMessageRaisesSigpipe, OnJoin, OnDrawCursorClear,
        FollowsDangling, ListenerFrame
  <2>2. clients' = clients \/ \E failed : clients' = DropsFailed(failed)
    <3>1. CASE OnDrawCursorClear(f)
      BY <3>1 DEF OnDrawCursorClear
    <3>2. CASE ~OnDrawCursorClear(f)
      BY <1>6, <3>2
      DEF OnMessageThrows, OnMessageRaisesSigpipe, OnJoin, FollowsDangling
    <3> QED
      BY <3>1, <3>2
  <2>3. \A g \in Fd : clients'[g] \in {clients[g], NoConn}
    BY <2>2 DEF DropsFailed
  <2> QED
    BY <1>a, <2>1, <2>3 DEF Gone
<1>7. ASSUME NEW f \in Fd, OnClose(f), ListenerFrame
      PROVE  OneDescriptorEach'
  <2> DEFINE k == file[f]
  <2>1. /\ closing = NoFd /\ k \in Conn
        /\ upgrade[k] \in {"registered", "opened", "done"}
        /\ Eof \in ToSet(inbox[k])
    <3>1. Reads(f, {"eof"})
      BY <1>7 DEF OnClose
    <3> DEFINE head == Head(inbox[file[f]])
    <3>2. TypeOK
      BY <1>0
    <3>3. /\ closing = NoFd /\ k \in Conn
          /\ upgrade[k] \in {"registered", "opened", "done"}
          /\ head \in ToServer /\ head.type \in {"eof"}
          /\ ToSet(inbox[k]) = {head} \cup ToSet(inbox'[k])
      BY <3>1, <3>2, ReadsTakesOne
    <3> HIDE DEF head, k
    <3>4. head = Eof
      BY <3>3, TypeOfMessage
    <3> QED
      BY <3>3, <3>4
  <2>2. Gone(k)
    BY <2>1 DEF IInv, PagesSpeakInTurn
  <2>3. /\ clients' = [clients EXCEPT ![f] = NoConn] /\ closing' = f
        /\ overtaken' = IF upgrade[k] = "registered"
                        THEN overtaken \cup {k} ELSE overtaken
        /\ UNCHANGED <<file, page, upgrade, clientFd>>
    BY <1>7 DEF OnClose, ListenerFrame
  <2>4. clientFd[k] = f
    BY <1>0, <2>1 DEF OneDescriptorEach
  <2> HIDE DEF k
  <2>5. file[f] = k
    BY DEF k
  <2>6. ASSUME NEW j \in Conn
        PROVE  /\ upgrade'[j] # "new" => clientFd'[j] \in Fd
               /\ upgrade'[j] # "new" /\ ~Gone(j)' =>
                    file'[clientFd'[j]] = j /\ closing' # clientFd'[j]
               /\ /\ upgrade'[j] \in {"accepted", "registered"}
                  /\ j \notin overtaken'
                  => file'[clientFd'[j]] = j /\ closing' # clientFd'[j]
               /\ j \in overtaken' =>
                    /\ Gone(j)'
                    /\ upgrade'[j] \in {"registered", "opened", "done"}
                    /\ file'[clientFd'[j]] = j => closing' = clientFd'[j]
    <3>1. CASE j = k
      BY <1>0, <2>1, <2>2, <2>3, <2>4, <3>1 DEF OneDescriptorEach, Gone
    <3>2. CASE j # k
      <4>1. j \in overtaken' <=> j \in overtaken
        BY <2>3, <3>2
      <4>2. j \in overtaken => file[clientFd[j]] # j
        BY <1>0, <2>1 DEF OneDescriptorEach
      <4>3. file[clientFd[j]] = j => clientFd[j] # f
        BY <2>5, <3>2
      <4> QED
        BY <1>0, <2>3, <4>1, <4>2, <4>3 DEF OneDescriptorEach, Gone
    <3> QED
      BY <3>1, <3>2
  <2>7. ASSUME NEW g \in Fd
        PROVE  /\ file'[g] # NoConn =>
                    upgrade'[file'[g]] # "new" /\ clientFd'[file'[g]] = g
               /\ clients'[g] # NoConn => clientFd'[clients'[g]] = g
    BY <1>0, <2>3 DEF OneDescriptorEach
  <2>8. /\ file'[closing'] # NoConn /\ Gone(file[closing])'
        /\ upgrade'[file'[closing']] \in {"registered", "opened", "done"}
        /\ clients'[closing'] = NoConn
    BY <1>0, <2>1, <2>2, <2>3, <2>5 DEF Gone
  <2> QED
    BY <2>6, <2>7, <2>8 DEF OneDescriptorEach
<1>8. ASSUME EraseConnection, ListenerFrame PROVE OneDescriptorEach'
  <2>1. /\ closing \in Fd /\ closing' = NoFd
        /\ file' = [file EXCEPT ![closing] = NoConn]
        /\ UNCHANGED <<page, upgrade, clientFd, clients, overtaken>>
    BY <1>0, <1>8 DEF EraseConnection, ListenerFrame
  <2>2. /\ file'[closing] = NoConn
        /\ \A g \in Fd : g # closing => file'[g] = file[g]
    BY <1>0, <2>1
  <2>3. ASSUME NEW j \in Conn
        PROVE  /\ upgrade'[j] # "new" => clientFd'[j] \in Fd
               /\ upgrade'[j] # "new" /\ ~Gone(j)' =>
                    file'[clientFd'[j]] = j /\ closing' # clientFd'[j]
               /\ /\ upgrade'[j] \in {"accepted", "registered"}
                  /\ j \notin overtaken'
                  => file'[clientFd'[j]] = j /\ closing' # clientFd'[j]
               /\ j \in overtaken' =>
                    /\ Gone(j)'
                    /\ upgrade'[j] \in {"registered", "opened", "done"}
                    /\ file'[clientFd'[j]] # j
    <3>1. upgrade[j] # "new" => clientFd[j] \in Fd
      BY <1>0 DEF OneDescriptorEach
    <3>2. j \in overtaken => upgrade[j] # "new"
      BY <1>0 DEF OneDescriptorEach
    <3> QED
      BY <1>0, <2>1, <2>2, <3>1, <3>2 DEF OneDescriptorEach, Gone
  <2>4. ASSUME NEW g \in Fd
        PROVE  /\ file'[g] # NoConn =>
                    upgrade'[file'[g]] # "new" /\ clientFd'[file'[g]] = g
               /\ clients'[g] # NoConn => clientFd'[clients'[g]] = g
    BY <1>0, <2>1, <2>2 DEF OneDescriptorEach
  <2> QED
    BY <2>1, <2>3, <2>4 DEF OneDescriptorEach
<1>9. CASE PageStep
  BY <1>0, <1>9, <1>a, PagesGoOnce DEF PageStep
<1> QED
  BY <1>1, <1>2, <1>3, <1>4, <1>5, <1>6, <1>7, <1>8, <1>9
  DEF Next, WorkerStep, ListenerStep, WorkerFrame, ListenerFrame

(* What a page says, and when. *)
LEMMA PagesSpeakStep ==
  ASSUME IInv, [Next]_vars
  PROVE  PagesSpeakInTurn'
<1> USE DEF roomVars, pageVars
<1>0. /\ upgrade \in [Conn -> Stages]
      /\ page \in [Conn -> {"connecting", "open", "lost", "gone"}]
      /\ canvas \in [Conn -> SUBSET Stroke]
      /\ \A k \in Conn : inbox[k] \in Seq(ToServer)
      /\ TypeOK /\ PagesSpeakInTurn /\ OneDescriptorEach
  BY QueueTypes DEF IInv, TypeOK, Stages
<1> HIDE DEF IInv
<1>a. ASSUME UNCHANGED <<page, canvas>>,
             \A k \in Conn : /\ upgrade[k] = "done" => upgrade'[k] = "done"
                             /\ Up(k) => Up(k)',
             \A k \in Conn : \/ inbox'[k] = inbox[k]
                             \/ inbox[k] # <<>> /\ inbox'[k] = Tail(inbox[k])
      PROVE  PagesSpeakInTurn'
  <2>1. ASSUME NEW k \in Conn
        PROVE  /\ page[k] = "connecting" => inbox'[k] = <<>>
               /\ ~Up(k)' => ToSet(inbox'[k]) \subseteq {Eof}
               /\ Eof \in ToSet(inbox'[k]) => Gone(k)
               /\ \A i \in DOMAIN inbox'[k] : inbox'[k][i] = Join => i = 1
    <3>1. CASE inbox'[k] = inbox[k]
      BY <1>0, <1>a, <3>1 DEF PagesSpeakInTurn
    <3>2. CASE inbox[k] # <<>> /\ inbox'[k] = Tail(inbox[k])
      <4>1. /\ ToSet(inbox[k]) = {Head(inbox[k])} \cup ToSet(inbox'[k])
            /\ DOMAIN inbox'[k] = 1 .. Len(inbox[k]) - 1
            /\ \A i \in DOMAIN inbox'[k] : inbox'[k][i] = inbox[k][i + 1]
            /\ DOMAIN inbox[k] = 1 .. Len(inbox[k]) /\ Len(inbox[k]) \in Nat
        BY <1>0, <3>2, HeadTailSet, LenProperties
      <4>2. \A i \in DOMAIN inbox'[k] : i + 1 \in DOMAIN inbox[k] /\ i + 1 # 1
        BY <4>1
      <4>3. \A i \in DOMAIN inbox'[k] : inbox'[k][i] # Join
        BY <1>0, <4>1, <4>2 DEF PagesSpeakInTurn
      <4>4. page[k] # "connecting"
        BY <1>0, <3>2 DEF PagesSpeakInTurn
      <4> QED
        BY <1>0, <1>a, <4>1, <4>3, <4>4 DEF PagesSpeakInTurn
    <3> QED
      BY <1>a, <3>1, <3>2
  <2> QED
    BY <1>0, <1>a, <2>1 DEF PagesSpeakInTurn, Gone
<1>1. CASE UNCHANGED vars
  BY <1>1, <1>a DEF vars, Up
<1>2. CASE WorkerStep
  <2>1. UNCHANGED <<page, canvas, inbox>>
    BY <1>2 DEF WorkerStep
  <2>2. \A k \in Conn : /\ upgrade[k] = "done" => upgrade'[k] = "done"
                        /\ Up(k) => Up(k)'
    BY <1>0, <1>2 DEF WorkerStep, Accept, Register, OnOpen, Handshake, Up
  <2> QED
    BY <1>a, <2>1, <2>2
<1>3. CASE ListenerStep
  <2>1. UNCHANGED <<page, canvas, upgrade>>
    BY <1>3 DEF ListenerStep
  <2>2. ASSUME NEW f \in Fd, NEW types, Reads(f, types), NEW k \in Conn
        PROVE  \/ inbox'[k] = inbox[k]
               \/ inbox[k] # <<>> /\ inbox'[k] = Tail(inbox[k])
    <3>1. /\ inbox[file[f]] # <<>> /\ file[f] \in Conn
          /\ inbox' = [inbox EXCEPT ![file[f]] = Tail(@)]
      BY <1>0, <2>2, ReadsTakesOne
    <3> QED
      BY <1>0, <3>1 DEF TypeOK
  <2>3. \A k \in Conn : \/ inbox'[k] = inbox[k]
                        \/ inbox[k] # <<>> /\ inbox'[k] = Tail(inbox[k])
    BY <1>3, <2>2
    DEF ListenerStep, OnMessageThrows, OnMessageRaisesSigpipe, OnJoin,
        OnDrawCursorClear, FollowsDangling, OnClose, EraseConnection
  <2> QED
    BY <1>a, <2>1, <2>3 DEF Up
<1>4. ASSUME NEW k \in Conn, NEW m \in ToServer,
             inbox' = [inbox EXCEPT ![k] = Append(@, m)],
             page'[k] # "connecting",
             page'[k] \in {"open", "lost"} => upgrade[k] = "done",
             m # Eof => upgrade[k] = "done",
             m = Eof => Gone(k)', Gone(k) => Gone(k)',
             m = Join => inbox[k] = <<>>,
             UNCHANGED upgrade,
             \A j \in Conn : j # k => /\ page'[j] = page[j]
                                      /\ canvas'[j] = canvas[j]
      PROVE  PagesSpeakInTurn'
  <2>1. /\ inbox'[k] = Append(inbox[k], m)
        /\ ToSet(inbox'[k]) = ToSet(inbox[k]) \cup {m}
        /\ \A j \in Conn : j # k => inbox'[j] = inbox[j]
    BY <1>0, <1>4, PageSends
  <2>2. /\ DOMAIN inbox[k] = 1 .. Len(inbox[k]) /\ Len(inbox[k]) \in Nat
        /\ DOMAIN inbox'[k] = 1 .. Len(inbox[k]) + 1
        /\ \A i \in 1 .. Len(inbox[k]) : inbox'[k][i] = inbox[k][i]
        /\ inbox'[k][Len(inbox[k]) + 1] = m
    BY <1>0, <2>1, AppendProperties, LenProperties
  <2>3. \A i \in DOMAIN inbox'[k] : inbox'[k][i] = Join => i = 1
    <3>1. \A i \in DOMAIN inbox'[k] :
            i \in DOMAIN inbox[k] \/ i = Len(inbox[k]) + 1
      BY <2>2
    <3>2. m = Join => Len(inbox[k]) = 0
      BY <1>4
    <3> QED
      BY <1>0, <2>2, <3>1, <3>2 DEF PagesSpeakInTurn
  <2>4. Eof \in ToSet(inbox'[k]) => Gone(k)'
    BY <1>0, <1>4, <2>1 DEF PagesSpeakInTurn
  <2>5. ~Up(k)' => ToSet(inbox'[k]) \subseteq {Eof}
    BY <1>0, <1>4, <2>1 DEF PagesSpeakInTurn, Up
  <2>6. \A j \in Conn : j # k => /\ Up(j)' = Up(j) /\ Gone(j)' = Gone(j)
    BY <1>4 DEF Up, Gone
  <2> QED
    BY <1>0, <1>4, <2>1, <2>3, <2>4, <2>5, <2>6 DEF PagesSpeakInTurn
<1>5. ASSUME NEW k \in Conn, Leave(k), PageFrame PROVE PagesSpeakInTurn'
  <2>1. Eof \in ToServer /\ Eof # Join
    BY Kinds DEF ToServer
  <2> QED
    BY <1>0, <1>4, <1>5, <2>1 DEF Leave, PageFrame, Gone
<1>6. ASSUME NEW k \in Conn, Opens(k), PageFrame PROVE PagesSpeakInTurn'
  <2>1. Join \in ToServer /\ Eof # Join
    BY Kinds DEF ToServer
  <2>2. inbox[k] = <<>>
    BY <1>0, <1>6 DEF PagesSpeakInTurn, Opens
  <2>3. Switching(k) \in ToSet(outbox[k])
    BY <1>0, <1>6, PageReads DEF Opens
  <2>4. upgrade[k] = "done"
    BY <2>3 DEF IInv, NothingSentTooSoon
  <2> QED
    BY <1>0, <1>4, <1>6, <2>1, <2>2, <2>4 DEF Opens, PageFrame, Gone
<1>7. ASSUME NEW k \in Conn, OnPageMessage(k), PageFrame
      PROVE  PagesSpeakInTurn'
  <2>1. page[k] = "open"
    BY <1>7 DEF OnPageMessage
  <2> QED
    BY <1>0, <1>7, <2>1
    DEF PagesSpeakInTurn, OnPageMessage, PageFrame, Gone, Up
<1>8. ASSUME NEW k \in Conn, Paint(k) \/ MoveCursor(k) \/ ClickClear(k),
             PageFrame
      PROVE  PagesSpeakInTurn'
  <2> DEFINE s == <<k, sent + 1>>
  <2>1. /\ page[k] \in {"open", "lost"} /\ UNCHANGED page
        /\ \E m \in {Draw(s), Cursor, LongCursor, Clear} :
             inbox' = [inbox EXCEPT ![k] = Append(@, m)]
    BY <1>8 DEF Paint, MoveCursor, ClickClear, Sends
  <2>5. \A j \in Conn : j # k => canvas'[j] = canvas[j]
    BY <1>0, <1>8 DEF Paint, MoveCursor, ClickClear
  <2>2. s \in Stroke
    BY <1>8, CanvasAssumption
    DEF Paint, MoveCursor, ClickClear, Sends, IInv, TypeOK, Stroke
  <2>3. /\ {Draw(s), Cursor, LongCursor, Clear} \subseteq ToServer
        /\ Join \notin {Draw(s), Cursor, LongCursor, Clear}
        /\ Eof \notin {Draw(s), Cursor, LongCursor, Clear}
    BY <2>2, Kinds DEF ToServer, Message
  <2>4. upgrade[k] = "done"
    BY <1>0, <2>1 DEF PagesSpeakInTurn
  <2> QED
    BY <1>4, <1>8, <2>1, <2>3, <2>4, <2>5 DEF PageFrame, Gone
<1>9. ASSUME NEW k \in Conn, LosesTrack(k) \/ Swallows(k), PageFrame
      PROVE  PagesSpeakInTurn'
  <2>1. /\ page[k] \in {"open", "lost"}
        /\ page' = page \/ page' = [page EXCEPT ![k] = "lost"]
        /\ UNCHANGED <<inbox, canvas, upgrade>>
    BY <1>9 DEF LosesTrack, Swallows, PageFrame
  <2>2. /\ page'[k] \in {"open", "lost"}
        /\ \A j \in Conn : j # k => page'[j] = page[j]
        /\ \A j \in Conn : Gone(j)' <=> Gone(j)
    BY <1>0, <2>1 DEF Gone
  <2>3. \A j \in Conn : Up(j)' <=> Up(j)
    BY <2>1 DEF Up
  <2> QED
    BY <1>0, <2>1, <2>2, <2>3 DEF PagesSpeakInTurn
<1> QED
  BY <1>1, <1>2, <1>3, <1>5, <1>6, <1>7, <1>8, <1>9
  DEF Next, PageStep, PageFrame

-----------------------------------------------------------------------------
(* The registry. *)

(* broadcast empties entries of the registry, in paint and only there,     *)
(* and those are of clients that it missed; none of them was overtaken.    *)
LEMMA BroadcastForgets ==
  ASSUME IInv, NEW f \in Fd, OnDrawCursorClear(f)
  PROVE  \E failed \in SUBSET Audience(f) :
           /\ Full(Audience(f)) \subseteq failed
           /\ missed' = missed \cup failed
           /\ \A k \in failed : k \in Conn /\ Up(k) /\ k \notin overtaken
           /\ \A g \in Fd :
                clients'[g] = IF app = "paint" /\ clients[g] \in failed
                              THEN NoConn ELSE clients[g]
<1> DEFINE entries == Entries(Head(inbox[file[f]]), f)
<1>0. /\ clients \in [Fd -> Conn \cup {NoConn}] /\ NoFd \notin Fd
      /\ TypeOK /\ OneDescriptorEach
  BY QueueTypes DEF IInv, TypeOK
<1>1. /\ \A g \in entries : ~Dangling(g)
      /\ Registered \subseteq Conn /\ Audience(f) \subseteq Registered
  BY <1>0, DrawBroadcasts
<1>2. PICK failed \in SUBSET Audience(f) :
        /\ Full(Audience(f)) \subseteq failed
        /\ missed' = missed \cup failed
        /\ clients' = IF app = "paint" THEN DropsFailed(failed) ELSE clients
  BY <1>0, DrawBroadcasts
<1>3. entries \subseteq Fd /\ Audience(f) = Recipients(entries)
  BY DEF Entries, Audience
<1>4. closing = NoFd
  BY DEF OnDrawCursorClear, Reads, Readable
<1> HIDE DEF entries
<1>5. ASSUME NEW k \in failed
      PROVE  k \in Conn /\ Up(k) /\ k \notin overtaken
  <2>1. PICK g \in Fd : clients[g] = k /\ k # NoConn /\ ~Dangling(g)
    BY <1>1, <1>2, <1>3, <1>5 DEF Recipients
  <2>2. file[g] = k /\ k \in Conn
    BY <1>0, <2>1 DEF Dangling
  <2>3. Up(k)
    BY <2>1 DEF IInv, OnlyOvertakenDangle
  <2>4. k \notin overtaken
    BY <1>0, <1>4, <2>1, <2>2 DEF OneDescriptorEach
  <2> QED
    BY <2>2, <2>3, <2>4
<1>6. \A g \in Fd : clients'[g] = IF app = "paint" /\ clients[g] \in failed
                                  THEN NoConn ELSE clients[g]
  <2>1. CASE app = "paint"
    BY <1>2, <2>1 DEF DropsFailed
  <2>2. CASE app # "paint"
    BY <1>2, <2>2
  <2> QED
    BY <2>1, <2>2
<1> QED
  BY <1>2, <1>5, <1>6

(* A descriptor is entered while its own connection is open or when        *)
(* on_close has overtaken on_open, and otherwise taken out before it is    *)
(* closed; paint also takes out a client for which a send failed.          *)
LEMMA RegistryStep ==
  ASSUME IInv, [Next]_vars
  PROVE  OnlyOvertakenDangle' /\ MissedAreForgotten'
<1> DEFINE Goal == OnlyOvertakenDangle' /\ MissedAreForgotten'
<1> USE DEF roomVars, pageVars
<1>0. /\ file \in [Fd -> Conn \cup {NoConn}]
      /\ clients \in [Fd -> Conn \cup {NoConn}]
      /\ upgrade \in [Conn -> Stages] /\ overtaken \subseteq Conn
      /\ closing \in Fd \cup {NoFd}
      /\ NoFd \notin Fd /\ NoConn \notin Conn /\ missed \subseteq Conn
      /\ TypeOK /\ OneDescriptorEach
      /\ OnlyOvertakenDangle /\ MissedAreForgotten
  BY QueueTypes, CanvasAssumption DEF IInv, TypeOK, Stages
<1> HIDE DEF IInv
<1>a. ASSUME UNCHANGED <<file, clients, closing, missed, overtaken, app>>,
             \A k \in Conn : Up(k)' <=> Up(k)
      PROVE  Goal
  BY <1>0, <1>a DEF OnlyOvertakenDangle, MissedAreForgotten, Registered
<1>1. CASE UNCHANGED vars
  BY <1>1, <1>a DEF vars, Up
<1>2. ASSUME NEW k \in Conn, Accept(k), WorkerFrame PROVE Goal
  <2>1. PICK f \in Fd : /\ file[f] = NoConn
                        /\ file' = [file EXCEPT ![f] = k]
    BY <1>2 DEF Accept
  <2>2. /\ upgrade[k] = "new" /\ upgrade' = [upgrade EXCEPT ![k] = "accepted"]
        /\ UNCHANGED <<clients, closing, missed, overtaken, app>>
    BY <1>2 DEF Accept, WorkerFrame
  <2>3. /\ file'[f] = k /\ \A g \in Fd : g # f => file'[g] = file[g]
    BY <1>0, <2>1, <2>2
  <2>4. /\ ~Up(k) /\ ~Up(k)' /\ \A j \in Conn : Up(j)' <=> Up(j)
    BY <1>0, <2>2 DEF Up
  <2>5. OnlyOvertakenDangle'
    BY <1>0, <2>1, <2>2, <2>3, <2>4 DEF OnlyOvertakenDangle
  <2>6. MissedAreForgotten'
    BY <1>0, <2>2, <2>4 DEF MissedAreForgotten, Registered
  <2> QED
    BY <2>5, <2>6
<1>3. ASSUME NEW k \in Conn, Register(k), WorkerFrame PROVE Goal
  <2>1. \A j \in Conn : Up(j)' <=> Up(j)
    BY <1>0, <1>3 DEF Register, Up
  <2> QED
    BY <1>3, <1>a, <2>1 DEF Register, WorkerFrame
<1>4. ASSUME NEW k \in Conn, OnOpen(k), WorkerFrame PROVE Goal
  <2> DEFINE f == clientFd[k]
  <2>1. /\ upgrade[k] = "registered"
        /\ upgrade' = [upgrade EXCEPT ![k] = "opened"]
        /\ clients' = [clients EXCEPT ![f] = k]
        /\ UNCHANGED <<file, closing, missed, overtaken, app>>
    BY <1>4 DEF OnOpen, WorkerFrame
  <2>2. f \in Fd /\ (file[f] = k \/ k \in overtaken)
    BY <1>0, <2>1 DEF OneDescriptorEach
  <2>3. \A g \in Fd : g # f => file[g] # k
    BY <1>0 DEF OneDescriptorEach
  <2> HIDE DEF f
  <2>4. /\ clients'[f] = k /\ \A g \in Fd : g # f => clients'[g] = clients[g]
    BY <1>0, <2>1, <2>2
  <2>5. /\ ~Up(k) /\ Up(k)'
        /\ \A j \in Conn : j # k => (Up(j)' <=> Up(j))
    BY <1>0, <2>1 DEF Up
  <2>6. OnlyOvertakenDangle'
    BY <1>0, <2>1, <2>2, <2>3, <2>4, <2>5 DEF OnlyOvertakenDangle
  <2>7. MissedAreForgotten'
    <3>1. Registered' \subseteq Registered \cup {k}
      BY <2>4 DEF Registered
    <3>2. k \notin missed
      BY <2>5, <1>0 DEF MissedAreForgotten
    <3> QED
      BY <1>0, <2>1, <2>5, <3>1, <3>2 DEF MissedAreForgotten
  <2> QED
    BY <2>6, <2>7
<1>5. ASSUME NEW k \in Conn, Handshake(k), WorkerFrame PROVE Goal
  <2>1. \A j \in Conn : Up(j)' <=> Up(j)
    BY <1>0, <1>5 DEF Handshake, Up
  <2> QED
    BY <1>5, <1>a, <2>1 DEF Handshake, WorkerFrame
<1>6. ASSUME NEW f \in Fd,
             \/ OnMessageThrows(f) \/ OnMessageRaisesSigpipe(f)
             \/ OnJoin(f) \/ FollowsDangling(f),
             ListenerFrame
      PROVE  Goal
  BY <1>6, <1>a
  DEF OnMessageThrows, OnMessageRaisesSigpipe, OnJoin, FollowsDangling,
      ListenerFrame, Up
<1>7. ASSUME NEW f \in Fd, OnDrawCursorClear(f), ListenerFrame PROVE Goal
  <2>1. PICK failed \in SUBSET Audience(f) :
          /\ missed' = missed \cup failed
          /\ \A k \in failed : k \in Conn /\ Up(k) /\ k \notin overtaken
          /\ \A g \in Fd :
               clients'[g] = IF app = "paint" /\ clients[g] \in failed
                             THEN NoConn ELSE clients[g]
    BY <1>7, BroadcastForgets
  <2>2. UNCHANGED <<file, closing, overtaken, app, upgrade>>
    BY <1>7 DEF OnDrawCursorClear, ListenerFrame
  <2>3. \A k \in Conn : Up(k)' <=> Up(k)
    BY <2>2 DEF Up
  <2>4. OnlyOvertakenDangle'
    BY <1>0, <2>1, <2>2, <2>3 DEF OnlyOvertakenDangle
  <2>5. ASSUME NEW k \in missed'
        PROVE  /\ Up(k)' /\ k \notin overtaken'
               /\ app' = "paint" => \A g \in Fd : clients'[g] # k
    <3>1. CASE k \in missed
      <4>1. app = "paint" => \A g \in Fd : clients[g] # k
        BY <1>0, <3>1 DEF MissedAreForgotten, Registered
      <4> QED
        BY <1>0, <2>1, <2>2, <2>3, <3>1, <4>1 DEF MissedAreForgotten
    <3>2. CASE k \in failed
      BY <1>0, <2>1, <2>2, <2>3, <3>2
    <3> QED
      BY <2>1, <2>5, <3>1, <3>2
  <2>6. MissedAreForgotten'
    BY <2>5 DEF MissedAreForgotten, Registered
  <2> QED
    BY <2>4, <2>6
<1>8. ASSUME NEW f \in Fd, OnClose(f), ListenerFrame PROVE Goal
  <2>1. /\ closing = NoFd /\ closing' = f /\ file[f] \in Conn
        /\ clients' = [clients EXCEPT ![f] = NoConn]
        /\ overtaken' = IF upgrade[file[f]] = "registered"
                        THEN overtaken \cup {file[f]} ELSE overtaken
        /\ UNCHANGED <<file, upgrade, missed, app>>
    BY <1>0, <1>8 DEF OnClose, Reads, Readable, ListenerFrame
  <2>2. clients'[f] = NoConn /\ \A g \in Fd : g # f => clients'[g] = clients[g]
    BY <1>0, <2>1
  <2>3. \A k \in Conn : Up(k)' <=> Up(k)
    BY <2>1 DEF Up
  <2>4. /\ overtaken \subseteq overtaken'
        /\ \A k \in overtaken' \ overtaken : ~Up(k)
    BY <2>1 DEF Up
  <2>5. OnlyOvertakenDangle'
    BY <1>0, <2>1, <2>2, <2>3, <2>4 DEF OnlyOvertakenDangle
  <2>6. Registered' \subseteq Registered
    BY <2>2 DEF Registered
  <2>7. MissedAreForgotten'
    BY <1>0, <2>1, <2>3, <2>4, <2>6 DEF MissedAreForgotten
  <2> QED
    BY <2>5, <2>7
<1>9. ASSUME EraseConnection, ListenerFrame PROVE Goal
  <2>1. /\ closing \in Fd /\ closing' = NoFd
        /\ file' = [file EXCEPT ![closing] = NoConn]
        /\ UNCHANGED <<upgrade, clients, missed, overtaken, app>>
    BY <1>0, <1>9 DEF EraseConnection, ListenerFrame
  <2>2. /\ file'[closing] = NoConn
        /\ \A g \in Fd : g # closing => file'[g] = file[g]
    BY <1>0, <2>1
  <2>3. clients[closing] # NoConn => clients[closing] \in overtaken
    BY <1>0, <2>1 DEF OneDescriptorEach
  <2>4. \A k \in Conn : Up(k)' <=> Up(k)
    BY <2>1 DEF Up
  <2>5. OnlyOvertakenDangle'
    BY <1>0, <2>1, <2>2, <2>3, <2>4 DEF OnlyOvertakenDangle
  <2>6. MissedAreForgotten'
    BY <1>0, <2>1, <2>4 DEF MissedAreForgotten, Registered
  <2> QED
    BY <2>5, <2>6
<1>10. CASE PageStep
  BY <1>10, <1>a DEF PageStep, Up
<1> QED
  BY <1>1, <1>2, <1>3, <1>4, <1>5, <1>6, <1>7, <1>8, <1>9, <1>10
  DEF Next, WorkerStep, ListenerStep, WorkerFrame, ListenerFrame

-----------------------------------------------------------------------------
(* What is on its way. *)

(* The 101 of k goes to one connection, or a part of it, or nothing.       *)
LEMMA HandshakeSends ==
  ASSUME IInv, NEW k \in Conn, Handshake(k), NEW j \in Conn
  PROVE  outbox'[j] \in {outbox[j], Append(outbox[j], Cut),
                         Append(outbox[j], Switching(k))}
<1>1. PICK to : /\ to = {file[clientFd[k]]} \ {NoConn}
                /\ outbox' = outbox \/ SendEach(Switching(k), to)
  BY DEF Handshake
<1>2. to \in SUBSET Conn
  BY <1>1 DEF IInv, TypeOK, OneDescriptorEach, Handshake
<1>3. Switching(k) \in ToPage /\ TypeOK
  BY DEF ToPage, IInv
<1>4. CASE outbox' = outbox
  BY <1>4
<1>5. CASE SendEach(Switching(k), to)
  BY <1>2, <1>3, <1>5, SendEachSends
<1> QED
  BY <1>1, <1>4, <1>5

(* What is on its way to a page after a join.                              *)
LEMMA JoinSends ==
  ASSUME IInv, NEW f \in Fd, OnJoin(f), NEW j \in Conn
  PROVE  /\ file[f] \in Conn
         /\ j # file[f] \/ Gone(j) => outbox'[j] = outbox[j]
         /\ j = file[f] /\ ~Gone(j) =>
              outbox'[j] = outbox[j] \o Replay
<1>1. outbox \in [Conn -> Seq(ToPage)]
  BY QueueTypes DEF IInv
<1> DEFINE k == file[f]
<1>2. /\ k \in Conn
      /\ outbox' = [outbox EXCEPT ![k] =
                      IF Gone(k) THEN @ ELSE @ \o Replay]
  BY JoinReplays
<1> HIDE DEF k
<1>3. \A i \in Conn : outbox'[i] =
        IF i = k /\ ~Gone(k) THEN outbox[k] \o Replay ELSE outbox[i]
  BY <1>1, <1>2
<1> QED
  BY <1>2, <1>3 DEF k

(* What a concatenation holds.                                              *)
LEMMA ConcatSet ==
  ASSUME NEW S, NEW p \in Seq(S), NEW q \in Seq(S)
  PROVE  ToSet(p \o q) = ToSet(p) \cup ToSet(q)
<1>1. /\ Range(p \o q) = Range(p) \cup Range(q)
  BY RangeConcatenation
<1> QED
  BY <1>1 DEF Range, ToSet

(* Whatever the server does, it adds a whole or an unfinished frame, or a  *)
(* replay.                                                                 *)
LEMMA ServerSends ==
  ASSUME IInv, WorkerStep \/ ListenerStep, NEW j \in Conn,
         NEW m \in ToSet(outbox'[j]), m \notin ToSet(outbox[j]), m # Cut
  PROVE  \/ \E k \in Conn : m = Switching(k) /\ Handshake(k)
         \/ \E f \in Fd, s \in Stroke :
              /\ OnJoin(f) /\ file[f] = j
              /\ m = Draw(s) /\ s \in ToSet(drawHistory)
         \/ \E f \in Fd :
              /\ OnDrawCursorClear(f) /\ j \in Registered
              /\ m \in Message
              /\ \/ m = Head(inbox[file[f]])
                 \/ Head(inbox[file[f]]) = LongCursor /\ m = Cursor
<1>0. TypeOK /\ outbox[j] \in Seq(ToPage) /\ Cut \in ToPage
  BY QueueTypes DEF IInv, ToPage
<1>a. ASSUME NEW x \in ToPage, outbox'[j] = Append(outbox[j], x)
      PROVE  m = x
  <2>1. ToSet(outbox'[j]) = ToSet(outbox[j]) \cup {x}
    BY <1>0, <1>a, AppendSet
  <2> QED
    BY <2>1
<1>c. outbox'[j] # Append(outbox[j], Cut)
  BY <1>0, <1>a
<1>b. outbox'[j] # outbox[j]
  OBVIOUS
<1>1. ASSUME NEW k \in Conn, Handshake(k) PROVE m = Switching(k)
  <2>1. Switching(k) \in ToPage
    BY DEF ToPage
  <2>2. outbox'[j] \in {outbox[j], Append(outbox[j], Cut),
                        Append(outbox[j], Switching(k))}
    BY <1>1, HandshakeSends
  <2>3. \E x \in {Cut, Switching(k)} : outbox'[j] = Append(outbox[j], x)
    BY <1>b, <2>2
  <2> QED
    BY <1>a, <1>c, <2>1, <2>3
<1>2. ASSUME NEW f \in Fd, OnJoin(f)
      PROVE  \E s \in Stroke : /\ file[f] = j /\ m = Draw(s)
                               /\ s \in ToSet(drawHistory)
  <2>1. file[f] = j /\ outbox'[j] = outbox[j] \o Replay
    BY <1>2, <1>b, JoinSends
  <2>2. ToSet(outbox'[j]) = ToSet(outbox[j]) \cup ToSet(Replay)
    BY <1>0, <2>1, ConcatSet, ReplayIsTheHistory
  <2> QED
    BY <1>0, <2>1, <2>2, ReplayIsTheHistory
<1>3. ASSUME NEW f \in Fd, OnDrawCursorClear(f)
      PROVE  /\ j \in Registered /\ m \in Message
             /\ \/ m = Head(inbox[file[f]])
                \/ Head(inbox[file[f]]) = LongCursor /\ m = Cursor
  <2> DEFINE msg == Head(inbox[file[f]])
             to == Audience(f)
  <2>1. /\ to \subseteq Registered /\ to \in SUBSET Conn
        /\ \E frame \in Message :
             /\ frame = msg \/ (msg = LongCursor /\ frame = Cursor)
             /\ SendEach(frame, to)
    BY <1>0, <1>3, DrawBroadcasts
  <2>2. PICK frame \in Message :
          /\ frame = msg \/ (msg = LongCursor /\ frame = Cursor)
          /\ SendEach(frame, to)
    BY <2>1
  <2>3. frame \in ToPage
    BY DEF ToPage
  <2> HIDE DEF msg, to
  <2>4. /\ Gone(j) \/ j \notin to => outbox'[j] = outbox[j]
        /\ ~Gone(j) /\ j \in to \ Full(to) =>
             outbox'[j] = Append(outbox[j], frame)
        /\ j \in Full(to) =>
             outbox'[j] \in {outbox[j], Append(outbox[j], Cut)}
    BY <1>0, <2>1, <2>2, <2>3, SendEachSends
  <2>5. j \in to /\ outbox'[j] = Append(outbox[j], frame)
    BY <1>b, <1>c, <2>4
  <2>6. m = frame
    BY <1>a, <2>3, <2>5
  <2> QED
    BY <2>1, <2>2, <2>5, <2>6 DEF msg
<1>4. ASSUME NEW k \in Conn, Accept(k) \/ Register(k) \/ OnOpen(k)
      PROVE  FALSE
  BY <1>4, <1>b DEF Accept, Register, OnOpen
<1>5. ASSUME NEW f \in Fd,
             \/ OnMessageThrows(f) \/ OnMessageRaisesSigpipe(f)
             \/ FollowsDangling(f) \/ OnClose(f)
      PROVE  FALSE
  BY <1>5, <1>b
  DEF OnMessageThrows, OnMessageRaisesSigpipe, FollowsDangling, OnClose
<1>6. ~EraseConnection
  BY <1>b DEF EraseConnection
<1> QED
  BY <1>1, <1>2, <1>3, <1>4, <1>5, <1>6 DEF WorkerStep, ListenerStep

(* What a page still has to read only shrinks by what the page does.       *)
LEMMA PagesOnlyRead ==
  ASSUME TypeOK, PageStep, NEW k \in Conn
  PROVE  ToSet(outbox'[k]) \subseteq ToSet(outbox[k])
<1>0. outbox \in [Conn -> Seq(ToPage)]
  BY QueueTypes
<1>1. ASSUME NEW j \in Conn, Leave(j)
      PROVE  ToSet(outbox'[k]) \subseteq ToSet(outbox[k])
  <2>1. outbox'[k] = outbox[k] \/ outbox'[k] = <<>>
    BY <1>0, <1>1 DEF Leave
  <2>2. ToSet(<<>>) = {}
    BY DEF ToSet
  <2> QED
    BY <2>1, <2>2
<1>2. ASSUME NEW j \in Conn,
             \/ Opens(j) \/ OnPageMessage(j)
             \/ LosesTrack(j) \/ Swallows(j)
      PROVE  ToSet(outbox'[k]) \subseteq ToSet(outbox[k])
  <2>1. outbox[j] # <<>> /\ outbox' = [outbox EXCEPT ![j] = Tail(@)]
    BY <1>2 DEF Opens, OnPageMessage, LosesTrack, Swallows
  <2>2. /\ ToSet(outbox[j]) = {Head(outbox[j])} \cup ToSet(outbox'[j])
        /\ k # j => outbox'[k] = outbox[k]
    BY <2>1, PageReads
  <2> QED
    BY <2>2
<1>3. ASSUME NEW j \in Conn, Paint(j) \/ MoveCursor(j) \/ ClickClear(j)
      PROVE  outbox' = outbox
  BY <1>3 DEF Paint, MoveCursor, ClickClear, Sends
<1> QED
  BY <1>1, <1>2, <1>3 DEF PageStep

(* A draw is sent only to pages that on_open has registered, and a 101 ends *)
(* the upgrade of the page it was made for.                                 *)
LEMMA NothingTooSoonStep ==
  ASSUME IInv, [Next]_vars
  PROVE  NothingSentTooSoon'
<1> USE DEF roomVars, pageVars
<1>0. /\ TypeOK /\ NothingSentTooSoon
      /\ upgrade \in [Conn -> Stages]
  BY DEF IInv, TypeOK, Stages
<1>a. ASSUME \A k \in Conn : upgrade[k] = "done" => upgrade'[k] = "done",
             \A k \in Conn : Up(k) => Up(k)',
             \A k \in Conn : \A m \in ToSet(outbox'[k]) \ ToSet(outbox[k]) :
               /\ \A s \in Stroke : m = Draw(s) => Up(k)'
               /\ \A j \in Conn : m = Switching(j) => upgrade'[j] = "done"
      PROVE  NothingSentTooSoon'
  BY <1>0, <1>a DEF NothingSentTooSoon
<1>1. CASE UNCHANGED vars
  BY <1>0, <1>1 DEF vars, NothingSentTooSoon, Up
<1>2. CASE PageStep
  <2>1. UNCHANGED upgrade
    BY <1>2 DEF PageStep
  <2> QED
    BY <1>0, <1>2, <1>a, <2>1, PagesOnlyRead DEF Up
<1>3. CASE WorkerStep \/ ListenerStep
  <2>1. \A k \in Conn : /\ upgrade[k] = "done" => upgrade'[k] = "done"
                        /\ Up(k) => Up(k)'
    <3>1. CASE WorkerStep
      BY <1>0, <3>1 DEF WorkerStep, Accept, Register, OnOpen, Handshake, Up
    <3>2. CASE ListenerStep
      BY <3>2 DEF ListenerStep, Up
    <3> QED
      BY <1>3, <3>1, <3>2
  <2>2. ASSUME NEW k \in Conn, NEW m \in ToSet(outbox'[k]) \ ToSet(outbox[k])
        PROVE  /\ \A s \in Stroke : m = Draw(s) => Up(k)'
               /\ \A j \in Conn : m = Switching(j) => upgrade'[j] = "done"
    <3>1. CASE m = Cut
      BY <3>1, Kinds
    <3>2. ASSUME NEW j \in Conn, m = Switching(j), Handshake(j)
          PROVE  upgrade'[j] = "done"
      BY <1>0, <3>2 DEF Handshake
    <3>3. ASSUME NEW f \in Fd, OnJoin(f), file[f] = k PROVE Up(k)
      <4>1. Readable(f) /\ Head(inbox[file[f]]) # Eof
        BY <3>3, JoinReplays, Kinds DEF OnJoin, Reads
      <4> QED
        BY <3>3, <4>1, SpeakersAreKnown
    <3>4. ASSUME k \in Registered PROVE Up(k)
      BY <3>4 DEF Registered, IInv, OnlyOvertakenDangle
    <3>5. m \in Message => \A j \in Conn : m # Switching(j)
      BY Kinds
    <3>6. m # Cut =>
            \/ \E j \in Conn : m = Switching(j) /\ Handshake(j)
            \/ \E f \in Fd, s \in Stroke :
                 /\ OnJoin(f) /\ file[f] = k
                 /\ m = Draw(s) /\ s \in ToSet(drawHistory)
            \/ \E f \in Fd :
                 /\ OnDrawCursorClear(f) /\ k \in Registered
                 /\ m \in Message
      BY <1>3, ServerSends
    <3> QED
      BY <2>1, <3>1, <3>2, <3>3, <3>4, <3>5, <3>6, Kinds
  <2> QED
    BY <1>a, <2>1, <2>2
<1> QED
  BY <1>1, <1>2, <1>3 DEF Next

-----------------------------------------------------------------------------
(* Strokes, and who drew them. *)

(* What the history gains is the stroke that was read.                     *)
LEMMA HistoryGains ==
  ASSUME TypeOK, NEW f \in Fd, OnDrawCursorClear(f)
  PROVE  LET msg == Head(inbox[file[f]])
         IN  /\ ~Ignores(f) /\ msg = Clear => ToSet(drawHistory') = {}
             /\ msg # Clear \/ Ignores(f) =>
                  \A s \in Stroke :
                    s \in ToSet(drawHistory') <=>
                      \/ s \in ToSet(drawHistory)
                      \/ ~Ignores(f) /\ msg = Draw(s)
             /\ \A s \in ToSet(drawHistory') : s \in Stroke
<1> DEFINE msg == Head(inbox[file[f]])
<1>1. /\ msg \in Message
      /\ drawHistory' = IF Ignores(f) THEN drawHistory ELSE HistoryAfter(msg)
      /\ drawHistory \in Seq(Stroke)
  BY DrawBroadcasts DEF TypeOK
<1>2. \A s \in ToSet(drawHistory) : s \in Stroke
  BY <1>1, ElementOfSeq DEF ToSet
<1> HIDE DEF msg
<1>3. CASE Ignores(f)
  BY <1>1, <1>2, <1>3 DEF msg
<1>4. CASE ~Ignores(f) /\ msg.type = "draw"
  <2>1. PICK t \in Stroke : msg = Draw(t) /\ msg.stroke = t
    BY <1>1, <1>4, TypeOfMessage DEF ToServer
  <2>2. drawHistory' = Append(drawHistory, t)
    BY <1>1, <1>4, <2>1 DEF HistoryAfter
  <2>3. ToSet(drawHistory') = ToSet(drawHistory) \cup {t}
    <3>1. ToSet(Append(drawHistory, t)) = ToSet(drawHistory) \cup {t}
      BY <1>1, AppendSet
    <3> QED
      BY <2>2, <3>1
  <2>4. msg # Clear /\ \A s : msg = Draw(s) <=> s = t
    BY <2>1, Kinds
  <2> QED
    BY <1>2, <1>4, <2>3, <2>4 DEF msg
<1>5. CASE ~Ignores(f) /\ msg = Clear
  <2>1. drawHistory' = <<>>
    BY <1>1, <1>5 DEF HistoryAfter, Clear
  <2> QED
    BY <1>5, <2>1 DEF msg, ToSet
<1>6. CASE ~Ignores(f) /\ msg \in {Cursor, LongCursor}
  <2>1. drawHistory' = drawHistory
    <3>1. CASE msg = Cursor
      BY <1>1, <1>6, <3>1 DEF HistoryAfter, Cursor
    <3>2. CASE msg = LongCursor
      BY <1>1, <1>6, <3>2 DEF HistoryAfter, LongCursor
    <3> QED
      BY <1>6, <3>1, <3>2
  <2>2. msg # Clear /\ \A s : msg # Draw(s)
    BY <1>6, Kinds
  <2> QED
    BY <1>2, <2>1, <2>2 DEF msg
<1>7. msg.type = "draw" \/ msg = Clear \/ msg \in {Cursor, LongCursor}
  BY <1>1, DrawType DEF Message
<1> QED
  BY <1>3, <1>4, <1>5, <1>6, <1>7

(* A stroke waits in the queue of its author only, and as long as nobody    *)
(* clears its author shows it.                                              *)
LEMMA StrokesStep ==
  ASSUME IInv, [Next]_vars
  PROVE  StrokesHaveAuthors'
<1> USE DEF roomVars, pageVars
<1>0. /\ TypeOK /\ StrokesHaveAuthors
      /\ canvas \in [Conn -> SUBSET Stroke]
      /\ \A s \in ToSet(drawHistory) : s \in Stroke
      /\ \A s \in Stroke : s[1] \in Conn
  <2>1. \A s \in ToSet(drawHistory) : s \in Stroke
    BY ElementOfSeq DEF IInv, TypeOK, ToSet
  <2> QED
    BY <2>1 DEF IInv, TypeOK, Stroke
<1>a. ASSUME \A k \in Conn : canvas[k] \subseteq canvas'[k] \/ cleared,
             cleared => cleared',
             \A k \in Conn, s \in Stroke : Draw(s) \in ToSet(inbox'[k]) =>
               \/ Draw(s) \in ToSet(inbox[k])
               \/ s[1] = k /\ s \in canvas'[k],
             \A s \in ToSet(drawHistory') :
               /\ s \in Stroke
               /\ \/ s \in ToSet(drawHistory)
                  \/ \E k \in Conn : Draw(s) \in ToSet(inbox[k]),
             \A k \in Conn :
               Clear \in ToSet(inbox'[k]) \cup ToSet(outbox'[k]) =>
                 \/ cleared'
                 \/ \E j \in Conn :
                      Clear \in ToSet(inbox[j]) \cup ToSet(outbox[j])
      PROVE  StrokesHaveAuthors'
  <2>1. \A k \in Conn : \A s \in Stroke :
          Draw(s) \in ToSet(inbox'[k]) =>
            s[1] = k /\ (s \in canvas'[k] \/ cleared')
    BY <1>0, <1>a DEF StrokesHaveAuthors
  <2>2. \A s \in ToSet(drawHistory') : s \in canvas'[s[1]] \/ cleared'
    BY <1>0, <1>a DEF StrokesHaveAuthors
  <2>3. \A k \in Conn :
          Clear \in ToSet(inbox'[k]) \cup ToSet(outbox'[k]) => cleared'
    BY <1>0, <1>a DEF StrokesHaveAuthors
  <2> QED
    BY <2>1, <2>2, <2>3 DEF StrokesHaveAuthors
<1>1. CASE UNCHANGED vars
  BY <1>0, <1>1 DEF vars, StrokesHaveAuthors
<1>2. CASE WorkerStep \/ ListenerStep
  <2>1. UNCHANGED <<canvas, cleared>>
    BY <1>2 DEF WorkerStep, ListenerStep
  <2>2. \A k \in Conn : ToSet(inbox'[k]) \subseteq ToSet(inbox[k])
    BY <1>0, <1>2, ReadsTakesOne
    DEF WorkerStep, ListenerStep, OnMessageThrows, OnMessageRaisesSigpipe,
        OnJoin, OnDrawCursorClear, FollowsDangling, OnClose, EraseConnection
  <2>3. ASSUME NEW f \in Fd, OnDrawCursorClear(f)
        PROVE  /\ file[f] \in Conn
               /\ Head(inbox[file[f]]) \in ToSet(inbox[file[f]])
    BY <1>0, <2>3, ReadsTakesOne DEF OnDrawCursorClear
  <2>4. ASSUME NEW k \in Conn, Clear \in ToSet(outbox'[k]),
               Clear \notin ToSet(outbox[k])
        PROVE  \E j \in Conn : Clear \in ToSet(inbox[j])
    <3>1. \/ \E j \in Conn : Clear = Switching(j) /\ Handshake(j)
          \/ \E f \in Fd, s \in Stroke :
               /\ OnJoin(f) /\ file[f] = k
               /\ Clear = Draw(s) /\ s \in ToSet(drawHistory)
          \/ \E f \in Fd :
               /\ OnDrawCursorClear(f) /\ k \in Registered
               /\ \/ Clear = Head(inbox[file[f]])
                  \/ Clear = Cursor
      BY <1>2, <2>4, ServerSends, Kinds
    <3>2. /\ \A j : Clear # Switching(j)
          /\ \A s : Clear # Draw(s)
          /\ Clear # Cursor
      BY Kinds DEF Message
    <3> QED
      BY <2>3, <3>1, <3>2
  <2>5. ASSUME NEW s \in ToSet(drawHistory')
        PROVE  /\ s \in Stroke
               /\ \/ s \in ToSet(drawHistory)
                  \/ \E k \in Conn : Draw(s) \in ToSet(inbox[k])
    <3>1. CASE drawHistory' = drawHistory
      BY <1>0, <2>5, <3>1
    <3>2. ASSUME NEW f \in Fd, OnDrawCursorClear(f)
          PROVE  /\ s \in Stroke
                 /\ \/ s \in ToSet(drawHistory)
                    \/ Draw(s) = Head(inbox[file[f]])
      BY <1>0, <2>5, <3>2, HistoryGains
    <3>3. drawHistory' = drawHistory \/ \E f \in Fd : OnDrawCursorClear(f)
      BY <1>2
      DEF WorkerStep, ListenerStep, OnMessageThrows, OnMessageRaisesSigpipe,
          OnJoin, FollowsDangling, OnClose, EraseConnection
    <3> QED
      BY <2>3, <3>1, <3>2, <3>3
  <2> QED
    BY <1>a, <2>1, <2>2, <2>4, <2>5
<1>3. CASE PageStep
  <2>1. /\ UNCHANGED drawHistory
        /\ \A k \in Conn : ToSet(outbox'[k]) \subseteq ToSet(outbox[k])
    BY <1>0, <1>3, PagesOnlyRead DEF PageStep
  <2>a. ASSUME \A k \in Conn : canvas[k] \subseteq canvas'[k] \/ cleared,
               cleared => cleared',
               NEW k \in Conn, NEW m \in ToServer,
               inbox' = [inbox EXCEPT ![k] = Append(@, m)],
               \A s \in Stroke : m = Draw(s) => s[1] = k /\ s \in canvas'[k],
               m = Clear => cleared'
        PROVE  StrokesHaveAuthors'
    <3>1. /\ ToSet(inbox'[k]) = ToSet(inbox[k]) \cup {m}
          /\ \A j \in Conn : j # k => inbox'[j] = inbox[j]
      BY <1>0, <2>a, PageSends
    <3> QED
      BY <1>0, <1>a, <2>1, <2>a, <3>1
  <2>2. ASSUME NEW k \in Conn, Leave(k) PROVE StrokesHaveAuthors'
    <3>1. Eof \in ToServer /\ Eof # Clear /\ \A s : Eof # Draw(s)
      BY Kinds DEF ToServer
    <3> QED
      BY <1>0, <2>2, <2>a, <3>1 DEF Leave
  <2>3. ASSUME NEW k \in Conn, Opens(k) PROVE StrokesHaveAuthors'
    <3>1. Join \in ToServer /\ Join # Clear /\ \A s : Join # Draw(s)
      BY Kinds DEF ToServer
    <3> QED
      BY <1>0, <2>3, <2>a, <3>1 DEF Opens
  <2>4. ASSUME NEW k \in Conn, OnPageMessage(k) PROVE StrokesHaveAuthors'
    <3>1. /\ Head(outbox[k]) \in ToPage
          /\ Head(outbox[k]) \in ToSet(outbox[k])
      BY <1>0, <2>4, PageReads DEF OnPageMessage
    <3>2. canvas[k] \subseteq canvas'[k] \/ Head(outbox[k]).type = "clear"
      BY <1>0, <2>4 DEF OnPageMessage, Shown
    <3>3. Head(outbox[k]).type = "clear" => Head(outbox[k]) = Clear
      BY <3>1, TypeOfMessage
    <3>4. \A j \in Conn : canvas[j] \subseteq canvas'[j] \/ cleared
      BY <1>0, <2>4, <3>1, <3>2, <3>3 DEF StrokesHaveAuthors, OnPageMessage
    <3> QED
      BY <1>a, <1>0, <2>1, <2>4, <3>4 DEF OnPageMessage
  <2>5. ASSUME NEW k \in Conn, Paint(k) PROVE StrokesHaveAuthors'
    <3> DEFINE s == <<k, sent + 1>>
    <3>1. /\ inbox' = [inbox EXCEPT ![k] = Append(@, Draw(s))]
          /\ sent < MaxSends /\ cleared' = cleared
          /\ canvas' = [canvas EXCEPT ![k] = @ \cup {s}]
      BY <2>5 DEF Paint, Sends
    <3>2. s \in Stroke /\ s[1] = k
      BY <1>0, <3>1, CanvasAssumption DEF TypeOK, Stroke
    <3> HIDE DEF s
    <3>3. Draw(s) \in ToServer /\ Draw(s) # Clear
      BY <3>2, Kinds DEF ToServer, Message
    <3>4. /\ \A j \in Conn : canvas[j] \subseteq canvas'[j]
          /\ s \in canvas'[k]
      BY <1>0, <3>1
    <3>5. \A t \in Stroke : Draw(s) = Draw(t) => t[1] = k /\ t \in canvas'[k]
      BY <3>2, <3>4, Kinds
    <3> QED
      BY <2>a, <3>1, <3>3, <3>4, <3>5
  <2>6. ASSUME NEW k \in Conn, MoveCursor(k) PROVE StrokesHaveAuthors'
    <3>1. PICK m \in {Cursor, LongCursor} :
            /\ UNCHANGED <<canvas, cleared>>
            /\ inbox' = [inbox EXCEPT ![k] = Append(@, m)]
      BY <2>6 DEF MoveCursor, Sends
    <3>2. m \in ToServer /\ m # Clear /\ \A s : Draw(s) # m
      BY <3>1, Kinds DEF ToServer, Message
    <3> QED
      BY <2>a, <3>1, <3>2
  <2>7. ASSUME NEW k \in Conn, ClickClear(k) PROVE StrokesHaveAuthors'
    <3>1. /\ UNCHANGED canvas
          /\ cleared' = TRUE
          /\ inbox' = [inbox EXCEPT ![k] = Append(@, Clear)]
      BY <2>7 DEF ClickClear, Sends
    <3>2. Clear \in ToServer /\ \A s : Draw(s) # Clear
      BY Kinds DEF ToServer, Message
    <3> QED
      BY <2>a, <3>1, <3>2
  <2>8. ASSUME NEW k \in Conn, LosesTrack(k) \/ Swallows(k)
        PROVE  StrokesHaveAuthors'
    <3>1. UNCHANGED <<inbox, canvas, cleared>>
      BY <2>8 DEF LosesTrack, Swallows
    <3> QED
      BY <1>a, <1>0, <2>1, <3>1
  <2> QED
    BY <1>3, <2>2, <2>3, <2>4, <2>5, <2>6, <2>7, <2>8 DEF PageStep
<1> QED
  BY <1>1, <1>2, <1>3 DEF Next

-----------------------------------------------------------------------------
(* What each page will show. *)

(* A message that the listener reads is from a page that was opened, so    *)
(* that olivec ignores none.                                               *)
LEMMA NothingIgnored ==
  ASSUME IInv, NEW f \in Fd, OnDrawCursorClear(f)
  PROVE  ~Ignores(f)
<1>1. Readable(f)
  BY DEF OnDrawCursorClear, Reads
<1>2. Head(inbox[file[f]]) \notin {Join, Eof}
  BY DrawBroadcasts DEF IInv
<1> QED
  BY <1>1, <1>2, SpeakersAreKnown

(* A connection that on_open has seen, whose page is there and for which   *)
(* no send failed, hears what others send, and a "clear" of its own: its   *)
(* entry was not taken by a dangling one, or there is no broadcast.        *)
LEMMA PresentIsReached ==
  ASSUME IInv, NEW f \in Fd, OnDrawCursorClear(f),
         NEW k \in Conn, k \notin missed, Up(k), ~Gone(k),
         Head(inbox[file[f]]) = Clear \/ k # file[f]
  PROVE  k \in Audience(f)
<1> DEFINE g == clientFd[k]
           msg == Head(inbox[file[f]])
<1>1. NoConn \notin Conn /\ overtaken \subseteq Conn /\ k \notin overtaken
  BY CanvasAssumption DEF IInv, TypeOK, OneDescriptorEach
<1>2. g \in Fd /\ file[g] = k /\ closing # g
  BY DEF IInv, OneDescriptorEach, Up
<1>3. clients[g] = k \/ clients[g] \in overtaken
  BY <1>1, <1>2 DEF IInv, OnlyOvertakenDangle
<1>4. g \in Entries(msg, f)
  BY <1>2, NothingIgnored DEF Entries
<1>5. ~Dangling(g)
  BY <1>4, DrawBroadcasts DEF IInv
<1>6. clients[g] = k
  BY <1>1, <1>2, <1>3, <1>5 DEF Dangling
<1> QED
  BY <1>1, <1>4, <1>6 DEF Audience, Recipients

(* The two halves of CanvasesConverge, for one page and one stroke.        *)
ShowsNoMore(k, s) ==
  Follows(k) /\ WillShow(k, s) =>
    s \in ToSet(drawHistory) \/ Draw(s) \in ToSet(inbox[k])

ShowsAll(k, s) ==
  /\ page[k] = "open" /\ Follows(k) /\ Join \notin ToSet(inbox[k])
  /\ s \in ToSet(drawHistory) /\ s[1] # k
  => WillShow(k, s)

(* CanvasesConverge in the two halves that the steps are proved for.        *)
LEMMA ConvergeParts ==
  CanvasesConverge <=>
    (server = "up" => \A k \in Conn \ missed : \A s \in Stroke :
                        ShowsNoMore(k, s) /\ ShowsAll(k, s))
  BY DEF CanvasesConverge, ShowsNoMore, ShowsAll

(* A handshake changes nothing of it. *)
LEMMA HandshakeConverges ==
  ASSUME IInv, NEW k \in Conn, Handshake(k), WorkerFrame,
         NEW j \in Conn, NEW s \in Stroke, ShowsNoMore(j, s), ShowsAll(j, s)
  PROVE  ShowsNoMore(j, s)' /\ ShowsAll(j, s)'
<1>1. UNCHANGED <<drawHistory, inbox, page, canvas>>
  BY DEF WorkerFrame, pageVars
<1>2. outbox[j] \in Seq(ToPage)
  BY QueueTypes DEF IInv
<1>3. /\ Cut \in ToPage /\ Switching(k) \in ToPage
      /\ Clear \notin {Cut, Switching(k)} /\ Draw(s) \notin {Cut, Switching(k)}
  BY Kinds DEF ToPage, Message
<1>4. outbox'[j] \in {outbox[j], Append(outbox[j], Cut),
                      Append(outbox[j], Switching(k))}
  BY HandshakeSends
<1>5. EndsUpIn(s, canvas[j], outbox'[j]) <=> EndsUpIn(s, canvas[j], outbox[j])
  <2>1. \A m \in {Cut, Switching(k)} :
          EndsUpIn(s, canvas[j], Append(outbox[j], m)) <=>
            EndsUpIn(s, canvas[j], outbox[j])
    <3>1. SUFFICES ASSUME NEW m \in {Cut, Switching(k)}
                   PROVE  EndsUpIn(s, canvas[j], Append(outbox[j], m)) <=>
                            EndsUpIn(s, canvas[j], outbox[j])
      OBVIOUS
    <3>2. m \in ToPage /\ m # Clear /\ m # Draw(s)
      BY <1>3
    <3> QED
      BY <1>2, <3>2, AppendEndsUp
  <2> QED
    BY <1>4, <2>1
<1>6. WillShow(j, s)' <=> WillShow(j, s)
  BY <1>1, <1>5 DEF WillShow
<1>7. Follows(j)' => Follows(j)
  <2>1. \A m \in {Cut, Switching(k)} :
          ToSet(Append(outbox[j], m)) = ToSet(outbox[j]) \cup {m}
    BY <1>2, <1>3, AppendSet
  <2>2. ToSet(outbox[j]) \subseteq ToSet(outbox'[j])
    BY <1>4, <2>1
  <2> QED
    BY <1>1, <2>2 DEF Follows
<1> QED
  BY <1>1, <1>6, <1>7 DEF ShowsNoMore, ShowsAll

(* The answer to a join is all of the history. *)
LEMMA JoinConverges ==
  ASSUME IInv, NEW f \in Fd, OnJoin(f), ListenerFrame,
         NEW j \in Conn, NEW s \in Stroke, ShowsNoMore(j, s), ShowsAll(j, s)
  PROVE  ShowsNoMore(j, s)' /\ ShowsAll(j, s)'
<1>1. /\ UNCHANGED <<drawHistory, page, canvas>> /\ TypeOK
      /\ outbox[j] \in Seq(ToPage)
  BY QueueTypes DEF OnJoin, ListenerFrame, pageVars, roomVars, IInv
<1>2. /\ j # file[f] => inbox'[j] = inbox[j]
      /\ j # file[f] \/ Gone(j) => outbox'[j] = outbox[j]
      /\ j = file[f] /\ ~Gone(j) => outbox'[j] = outbox[j] \o Replay
      /\ file[f] \in Conn
  <2>1. j # file[f] => inbox'[j] = inbox[j]
    BY <1>1, ReadsTakesOne DEF OnJoin
  <2>2. /\ j # file[f] \/ Gone(j) => outbox'[j] = outbox[j]
        /\ j = file[f] /\ ~Gone(j) => outbox'[j] = outbox[j] \o Replay
        /\ file[f] \in Conn
    BY JoinSends
  <2> QED
    BY <2>1, <2>2
<1>3. CASE Gone(j)
  <2>1. ~Follows(j)'
    BY <1>1, <1>3 DEF Follows, Gone
  <2> QED
    BY <2>1 DEF ShowsNoMore, ShowsAll
<1>4. CASE j # file[f]
  BY <1>1, <1>2, <1>4 DEF ShowsNoMore, ShowsAll, WillShow, Follows
<1>5. CASE j = file[f] /\ ~Gone(j)
  <2>1. ToSet(inbox[j]) = {Join} \cup ToSet(inbox'[j])
    <3>1. /\ Head(inbox[file[f]]) = Join
          /\ ToSet(inbox[file[f]]) =
               {Head(inbox[file[f]])} \cup ToSet(inbox'[file[f]])
      BY <1>1, JoinReplays, ReadsTakesOne DEF OnJoin
    <3> QED
      BY <1>5, <3>1
  <2>2. /\ Replay \in Seq(ToPage) /\ Clear \notin ToSet(Replay)
        /\ Draw(s) \in ToSet(Replay) <=> s \in ToSet(drawHistory)
    BY <1>1, ReplayIsTheHistory, Kinds
  <2>3. EndsUpIn(s, canvas[j], outbox[j] \o Replay) <=>
          s \in ToSet(drawHistory) \/ EndsUpIn(s, canvas[j], outbox[j])
    BY <1>1, <2>2, ReplayEndsUp
  <2>4. WillShow(j, s)' <=> s \in ToSet(drawHistory) \/ WillShow(j, s)
    BY <1>1, <1>2, <1>5, <2>3 DEF WillShow
  <2>5. Draw(s) # Join
    BY Kinds
  <2>6. Follows(j)' => Follows(j)
    <3>1. ToSet(outbox[j] \o Replay) = ToSet(outbox[j]) \cup ToSet(Replay)
      BY <1>1, <2>2, ConcatSet
    <3> QED
      BY <1>1, <1>2, <1>5, <3>1 DEF Follows
  <2> QED
    BY <1>1, <1>5, <2>1, <2>4, <2>5, <2>6 DEF ShowsNoMore, ShowsAll
<1> QED
  BY <1>3, <1>4, <1>5

(* A stroke is shown to all but its author, who painted it before; "clear" *)
(* goes to everybody who may have something to wipe out.                   *)
LEMMA BroadcastConverges ==
  ASSUME IInv, NEW f \in Fd, OnDrawCursorClear(f), ListenerFrame,
         NEW j \in Conn, j \notin missed', NEW s \in Stroke,
         ShowsNoMore(j, s), ShowsAll(j, s)
  PROVE  ShowsNoMore(j, s)' /\ ShowsAll(j, s)'
<1> DEFINE msg == Head(inbox[file[f]])
           to == Audience(f)
<1>a. SUFFICES ASSUME Follows(j)'
               PROVE  ShowsNoMore(j, s)' /\ ShowsAll(j, s)'
  BY DEF ShowsNoMore, ShowsAll
<1>1. /\ UNCHANGED <<page, canvas>> /\ TypeOK
      /\ outbox[j] \in Seq(ToPage)
  BY QueueTypes DEF ListenerFrame, pageVars, IInv
<1>2. /\ file[f] \in Conn /\ msg \in Message
      /\ to \subseteq Registered /\ to \in SUBSET Conn
  BY <1>1, DrawBroadcasts
<1>b. PICK frame \in Message :
        /\ frame = msg \/ (msg = LongCursor /\ frame = Cursor)
        /\ SendEach(frame, to)
  BY <1>1, DrawBroadcasts
<1>3. /\ ToSet(inbox[file[f]]) = {msg} \cup ToSet(inbox'[file[f]])
      /\ j # file[f] => inbox'[j] = inbox[j]
  BY <1>1, ReadsTakesOne DEF OnDrawCursorClear
<1>4. /\ msg = Clear => ToSet(drawHistory') = {}
      /\ msg # Clear => (s \in ToSet(drawHistory') <=>
                           s \in ToSet(drawHistory) \/ msg = Draw(s))
  BY <1>1, HistoryGains, NothingIgnored
<1>5. j \notin missed /\ j \notin Full(to)
  <2>1. PICK failed \in SUBSET to :
          Full(to) \subseteq failed /\ missed' = missed \cup failed
    BY BroadcastForgets
  <2> QED
    BY <2>1
<1>9. page[j] \in {"connecting", "open"} /\ ~Gone(j)
  BY <1>1, <1>a DEF Follows, Gone
<1> HIDE DEF msg, to
<1>6. /\ j \in to => outbox'[j] = Append(outbox[j], frame)
      /\ j \notin to => outbox'[j] = outbox[j]
  <2>1. frame \in ToPage
    BY DEF ToPage
  <2> QED
    BY <1>1, <1>2, <1>5, <1>9, <1>b, <2>1, SendEachSends
<1>e. /\ Follows(j)
      /\ j \in to => frame # LongCursor
  <2>1. frame \in ToPage
    BY DEF ToPage
  <2>2. ToSet(Append(outbox[j], frame)) = ToSet(outbox[j]) \cup {frame}
    BY <1>1, <2>1, AppendSet
  <2> QED
    BY <1>1, <1>6, <1>a, <2>2 DEF Follows
<1>f. /\ frame # LongCursor => (frame = Clear <=> msg = Clear)
      /\ frame # LongCursor => (frame = Draw(s) <=> msg = Draw(s))
  BY <1>b, Kinds
<1>7. EndsUpIn(s, canvas[j], Append(outbox[j], frame)) <=>
        frame = Draw(s) \/ (frame # Clear /\ EndsUpIn(s, canvas[j], outbox[j]))
  <2>1. frame \in ToPage
    BY DEF ToPage
  <2> QED
    BY <1>1, <2>1, AppendEndsUp
<1>8. /\ j \in to =>
           (WillShow(j, s)' <=>
              msg = Draw(s) \/ (msg # Clear /\ WillShow(j, s)))
      /\ j \notin to => (WillShow(j, s)' <=> WillShow(j, s))
  BY <1>1, <1>6, <1>7, <1>e, <1>f DEF WillShow
<1>g. Up(j) /\ (msg = Clear \/ j # file[f]) => j \in to
  BY <1>5, <1>9, PresentIsReached DEF msg, to
<1>10. CASE msg = Clear
  <2>1. CASE j \in to
    <3>1. ~WillShow(j, s)'
      BY <1>8, <1>10, <2>1, Kinds
    <3> QED
      BY <1>4, <1>10, <3>1 DEF ShowsNoMore, ShowsAll
  <2>2. CASE j \notin to
    <3>1. ~Up(j)
      BY <1>10, <1>g, <2>2
    <3>2. page[j] = "connecting" /\ canvas[j] = {}
      BY <1>9, <3>1 DEF IInv, PagesSpeakInTurn, Up
    <3>3. Draw(s) \notin ToSet(outbox[j])
      BY <3>1 DEF IInv, NothingSentTooSoon
    <3>4. ~WillShow(j, s)
      BY <3>2, <3>3 DEF WillShow, EndsUpIn, Survives, ToSet
    <3> QED
      BY <1>4, <1>8, <1>10, <2>2, <3>4 DEF ShowsNoMore, ShowsAll
  <2> QED
    BY <2>1, <2>2
<1>11. CASE msg # Clear
  <2>1. WillShow(j, s)' => msg = Draw(s) \/ WillShow(j, s)
    BY <1>8, <1>11
  <2>2. ShowsNoMore(j, s)'
    <3>1. Draw(s) \in ToSet(inbox[j]) =>
            msg = Draw(s) \/ Draw(s) \in ToSet(inbox'[j])
      BY <1>3
    <3> QED
      BY <1>4, <1>11, <1>e, <2>1, <3>1 DEF ShowsNoMore
  <2>3. ShowsAll(j, s)'
    <3>1. SUFFICES ASSUME page[j] = "open", Join \notin ToSet(inbox'[j]),
                          s \in ToSet(drawHistory'), s[1] # j
                   PROVE  WillShow(j, s)'
      BY <1>1 DEF ShowsAll
    <3>2. CASE msg = Draw(s)
      <4>1. Draw(s) \in ToSet(inbox[file[f]])
        BY <1>3, <3>2
      <4>2. s[1] = file[f]
        BY <1>2, <4>1 DEF IInv, StrokesHaveAuthors
      <4>3. Up(j)
        BY <3>1 DEF IInv, PagesSpeakInTurn, Up
      <4>4. j \in to
        BY <1>g, <3>1, <4>2, <4>3
      <4> QED
        BY <1>8, <3>2, <4>4
    <3>3. CASE msg # Draw(s)
      <4>1. s \in ToSet(drawHistory)
        BY <1>4, <1>11, <3>1, <3>3
      <4>2. Join \notin ToSet(inbox[j])
        BY <1>2, <1>3, <3>1, Kinds
      <4>3. WillShow(j, s)
        BY <1>e, <3>1, <4>1, <4>2 DEF ShowsAll
      <4> QED
        BY <1>8, <1>11, <4>3
    <3> QED
      BY <3>2, <3>3
  <2> QED
    BY <2>2, <2>3
<1> QED
  BY <1>10, <1>11

(* What a page does. *)
LEMMA PageConverges ==
  ASSUME IInv, PageStep,
         NEW j \in Conn, NEW s \in Stroke, ShowsNoMore(j, s), ShowsAll(j, s)
  PROVE  ShowsNoMore(j, s)' /\ ShowsAll(j, s)'
<1> DEFINE Goal == ShowsNoMore(j, s)' /\ ShowsAll(j, s)'
<1>1. /\ UNCHANGED drawHistory /\ TypeOK /\ outbox[j] \in Seq(ToPage)
      /\ inbox \in [Conn -> Seq(ToServer)] /\ outbox \in [Conn -> Seq(ToPage)]
      /\ page \in [Conn -> {"connecting", "open", "lost", "gone"}]
      /\ canvas \in [Conn -> SUBSET Stroke]
  BY QueueTypes DEF PageStep, roomVars, IInv, TypeOK
<1>a. ASSUME page'[j] = page[j], canvas'[j] = canvas[j],
             inbox'[j] = inbox[j], outbox'[j] = outbox[j]
      PROVE  Goal
  BY <1>1, <1>a DEF ShowsNoMore, ShowsAll, WillShow, Follows
<1>b. ASSUME ~Follows(j)' PROVE Goal
  BY <1>b DEF ShowsNoMore, ShowsAll
<1>2. ASSUME NEW k \in Conn, Leave(k) \/ LosesTrack(k) \/ Swallows(k)
      PROVE  Goal
  <2>1. CASE j = k
    <3>1. page'[j] \in {"lost", "gone"}
      BY <1>1, <1>2, <2>1 DEF Leave, LosesTrack, Swallows
    <3>2. ~Follows(j)'
      BY <3>1 DEF Follows
    <3> QED
      BY <1>b, <3>2
  <2>2. CASE j # k
    BY <1>1, <1>2, <1>a, <2>2 DEF Leave, LosesTrack, Swallows
  <2> QED
    BY <2>1, <2>2
<1>3. ASSUME NEW k \in Conn, Opens(k) PROVE Goal
  <2>1. CASE j # k
    BY <1>1, <1>3, <1>a, <2>1 DEF Opens
  <2>2. CASE j = k
    <3>1. /\ page[j] = "connecting" /\ canvas' = canvas
          /\ outbox[j] # <<>> /\ outbox'[j] = Tail(outbox[j])
      BY <1>1, <1>3, <2>2 DEF Opens
    <3>2. ToSet(inbox'[j]) = ToSet(inbox[j]) \cup {Join}
      BY <1>1, <1>3, <2>2, PageSends DEF Opens, ToServer
    <3>3. canvas[j] = {}
      BY <3>1 DEF IInv, PagesSpeakInTurn
    <3>4. Survives(s, Tail(outbox[j])) => Survives(s, outbox[j])
      BY <1>1, <3>1, TailSurvives
    <3>5. WillShow(j, s)' => WillShow(j, s)
      BY <3>1, <3>3, <3>4 DEF WillShow, EndsUpIn
    <3>6. Follows(j)' => Follows(j)
      <4>1. /\ ToSet(outbox[j]) = {Head(outbox[j])} \cup ToSet(outbox'[j])
            /\ Head(outbox[j]) = Switching(j)
        BY <1>1, <1>3, <2>2, PageReads DEF Opens
      <4>2. Switching(j) # LongCursor
        BY Kinds DEF Message
      <4> QED
        BY <3>1, <4>1, <4>2 DEF Follows
    <3> QED
      BY <1>1, <3>1, <3>2, <3>5, <3>6 DEF ShowsNoMore, ShowsAll
  <2> QED
    BY <2>1, <2>2
<1>4. ASSUME NEW k \in Conn, OnPageMessage(k) PROVE Goal
  <2>1. CASE j # k
    BY <1>1, <1>4, <1>a, <2>1 DEF OnPageMessage
  <2>2. CASE j = k
    <3>1. /\ UNCHANGED <<page, inbox>> /\ outbox[j] # <<>>
          /\ outbox'[j] = Tail(outbox[j])
          /\ canvas'[j] = Shown(canvas[j], Head(outbox[j]))
          /\ Head(outbox[j]).type \in {"draw", "clear", "cursor"}
      BY <1>1, <1>4, <2>2 DEF OnPageMessage
    <3>2. Head(outbox[j]) \in Message \ {LongCursor}
      <4> DEFINE m == Head(outbox[j])
      <4>1. m \in ToPage /\ m.type \in {"draw", "clear", "cursor"}
        BY <1>1, <3>1, HeadTailSet
      <4> HIDE DEF m
      <4>2. (\E t \in Stroke : m = Draw(t)) \/ m = Clear \/ m = Cursor
        BY <4>1, TypeOfMessage
      <4>3. m \in Message \ {LongCursor}
        BY <4>2, Kinds DEF Message
      <4> QED
        BY <4>3 DEF m
    <3>3. EndsUpIn(s, Shown(canvas[j], Head(outbox[j])), Tail(outbox[j])) <=>
            EndsUpIn(s, canvas[j], outbox[j])
      BY <1>1, <3>1, <3>2, ReadingEndsUp
    <3>4. WillShow(j, s)' <=> WillShow(j, s)
      BY <3>1, <3>3 DEF WillShow
    <3>5. Follows(j)' => Follows(j)
      <4>1. ToSet(outbox[j]) = {Head(outbox[j])} \cup ToSet(outbox'[j])
        BY <1>1, <1>4, <2>2, PageReads DEF OnPageMessage
      <4> QED
        BY <3>1, <3>2, <4>1 DEF Follows
    <3> QED
      BY <1>1, <3>1, <3>4, <3>5 DEF ShowsNoMore, ShowsAll
  <2> QED
    BY <2>1, <2>2
<1>5. ASSUME NEW k \in Conn, NEW m \in ToServer, NEW new \in SUBSET Stroke,
             inbox' = [inbox EXCEPT ![k] = Append(@, m)],
             UNCHANGED <<page, outbox>>,
             canvas' = [canvas EXCEPT ![k] = @ \cup new],
             \A t \in new : m = Draw(t)
      PROVE  Goal
  <2>1. CASE j # k
    BY <1>1, <1>5, <1>a, <2>1
  <2>2. CASE j = k
    <3>1. ToSet(inbox'[j]) = ToSet(inbox[j]) \cup {m}
      BY <1>1, <1>5, <2>2, PageSends
    <3>2. canvas'[j] = canvas[j] \cup new
      BY <1>1, <1>5, <2>2
    <3>3. /\ WillShow(j, s) => WillShow(j, s)'
          /\ WillShow(j, s)' => WillShow(j, s) \/ s \in new
      BY <1>5, <3>2 DEF WillShow, EndsUpIn
    <3>a. Follows(j)' <=> Follows(j)
      BY <1>5 DEF Follows
    <3>4. ShowsNoMore(j, s)'
      BY <1>1, <1>5, <3>1, <3>3, <3>a DEF ShowsNoMore
    <3>5. ShowsAll(j, s)'
      BY <1>1, <1>5, <3>1, <3>3, <3>a DEF ShowsAll
    <3> QED
      BY <3>4, <3>5
  <2> QED
    BY <2>1, <2>2
<1>6. ASSUME NEW k \in Conn, Paint(k) PROVE Goal
  <2> DEFINE t == <<k, sent + 1>>
  <2>1. /\ inbox' = [inbox EXCEPT ![k] = Append(@, Draw(t))]
        /\ canvas' = [canvas EXCEPT ![k] = @ \cup {t}]
        /\ UNCHANGED <<page, outbox>> /\ sent < MaxSends
    BY <1>6 DEF Paint, Sends
  <2>2. t \in Stroke
    BY <1>1, <2>1, CanvasAssumption DEF TypeOK, Stroke
  <2> HIDE DEF t
  <2>3. Draw(t) \in ToServer
    BY <2>2 DEF ToServer, Message
  <2> QED
    BY <1>5, <2>1, <2>2, <2>3
<1>7. ASSUME NEW k \in Conn, MoveCursor(k) \/ ClickClear(k) PROVE Goal
  <2>1. /\ UNCHANGED <<page, outbox, canvas>>
        /\ \E m \in {Cursor, LongCursor, Clear} :
             inbox' = [inbox EXCEPT ![k] = Append(@, m)]
    BY <1>7 DEF MoveCursor, ClickClear, Sends
  <2>2. PICK m \in ToServer : inbox' = [inbox EXCEPT ![k] = Append(@, m)]
    BY <2>1 DEF ToServer, Message
  <2>3. PICK new \in SUBSET Stroke : new = {}
    OBVIOUS
  <2>4. /\ canvas' = [canvas EXCEPT ![k] = @ \cup new]
        /\ UNCHANGED <<page, outbox>>
        /\ \A t \in new : m = Draw(t)
    BY <1>1, <2>1, <2>3
  <2> QED
    BY <1>5, <2>2, <2>4
<1> QED
  BY <1>2, <1>3, <1>4, <1>6, <1>7 DEF PageStep

(* No step makes a page, for which no send failed, end up with anything but *)
(* what the server remembers.                                               *)
LEMMA ConvergeStep ==
  ASSUME IInv, [Next]_vars
  PROVE  CanvasesConverge'
<1> USE DEF roomVars, pageVars
<1>1. CASE UNCHANGED vars
  BY <1>1 DEF IInv, CanvasesConverge, WillShow, Follows, vars
<1>2. SUFFICES ASSUME server = "up", server' = "up", ~UNCHANGED vars,
                      NEW j \in Conn \ missed', NEW s \in Stroke
               PROVE  ShowsNoMore(j, s)' /\ ShowsAll(j, s)'
  <2>1. server = "up" \/ UNCHANGED vars
    BY DEF Next
  <2> QED
    BY <1>1, <2>1 DEF CanvasesConverge, ShowsNoMore, ShowsAll
<1>3. missed \subseteq missed' /\ TypeOK
  BY <1>2, DrawBroadcasts
  DEF IInv, Next, WorkerStep, ListenerStep, PageStep, OnMessageThrows,
      OnMessageRaisesSigpipe, OnJoin, FollowsDangling, OnClose,
      EraseConnection
<1>4. ShowsNoMore(j, s) /\ ShowsAll(j, s) /\ j \in Conn
  BY <1>2, <1>3, ConvergeParts DEF IInv
<1>5. ASSUME UNCHANGED <<drawHistory, outbox, page, canvas>>,
             \/ inbox'[j] = inbox[j]
             \/ ToSet(inbox[j]) = {Eof} \cup ToSet(inbox'[j])
      PROVE  ShowsNoMore(j, s)' /\ ShowsAll(j, s)'
  <2>1. /\ Join \in ToSet(inbox'[j]) <=> Join \in ToSet(inbox[j])
        /\ Draw(s) \in ToSet(inbox'[j]) <=> Draw(s) \in ToSet(inbox[j])
    BY <1>5, Kinds
  <2> QED
    BY <1>4, <1>5, <2>1 DEF ShowsNoMore, ShowsAll, WillShow, Follows
<1>6. CASE WorkerStep
  <2>1. ASSUME NEW k \in Conn, Accept(k) \/ Register(k) \/ OnOpen(k)
        PROVE  ShowsNoMore(j, s)' /\ ShowsAll(j, s)'
    BY <1>5, <1>6, <2>1 DEF WorkerStep, Accept, Register, OnOpen
  <2>2. ASSUME NEW k \in Conn, Handshake(k)
        PROVE  ShowsNoMore(j, s)' /\ ShowsAll(j, s)'
    BY <1>4, <1>6, <2>2, HandshakeConverges DEF WorkerStep, WorkerFrame
  <2> QED
    BY <1>6, <2>1, <2>2 DEF WorkerStep
<1>7. CASE ListenerStep
  <2>1. ListenerFrame
    BY <1>7 DEF ListenerStep, ListenerFrame
  <2>2. ASSUME NEW f \in Fd,
               \/ OnMessageThrows(f) \/ OnMessageRaisesSigpipe(f)
               \/ FollowsDangling(f)
        PROVE  FALSE
    BY <1>2, <2>2
    DEF OnMessageThrows, OnMessageRaisesSigpipe, FollowsDangling
  <2>3. ASSUME NEW f \in Fd, OnJoin(f)
        PROVE  ShowsNoMore(j, s)' /\ ShowsAll(j, s)'
    BY <1>4, <2>1, <2>3, JoinConverges
  <2>4. ASSUME NEW f \in Fd, OnDrawCursorClear(f)
        PROVE  ShowsNoMore(j, s)' /\ ShowsAll(j, s)'
    BY <1>2, <1>4, <2>1, <2>4, BroadcastConverges
  <2>5. ASSUME NEW f \in Fd, OnClose(f)
        PROVE  ShowsNoMore(j, s)' /\ ShowsAll(j, s)'
    <3> DEFINE head == Head(inbox[file[f]])
    <3>1. Reads(f, {"eof"}) /\ UNCHANGED <<drawHistory, outbox, page, canvas>>
      BY <2>1, <2>5 DEF OnClose, ListenerFrame
    <3>2. /\ head \in ToServer /\ head.type \in {"eof"}
          /\ ToSet(inbox[file[f]]) = {head} \cup ToSet(inbox'[file[f]])
          /\ j # file[f] => inbox'[j] = inbox[j]
      BY <1>3, <1>4, <3>1, ReadsTakesOne
    <3> HIDE DEF head
    <3>3. head = Eof
      BY <3>2, TypeOfMessage
    <3> QED
      BY <1>5, <3>1, <3>2, <3>3
  <2>6. ASSUME EraseConnection
        PROVE  ShowsNoMore(j, s)' /\ ShowsAll(j, s)'
    BY <1>5, <2>1, <2>6 DEF EraseConnection, ListenerFrame
  <2> QED
    BY <1>7, <2>2, <2>3, <2>4, <2>5, <2>6 DEF ListenerStep
<1>8. CASE PageStep
  BY <1>4, <1>8, PageConverges
<1> QED
  BY <1>2, <1>6, <1>7, <1>8 DEF Next

-----------------------------------------------------------------------------
(* The results. *)

(* Before the first page connects there is nothing to be wrong.             *)
LEMMA InitIInv == Init => IInv
<1> SUFFICES ASSUME Init PROVE IInv
  OBVIOUS
<1> USE DEF Init
<1>1. ToSet(<<>>) = {} /\ DOMAIN <<>> = {}
  BY DEF ToSet
<1>2. NoFd \notin Fd /\ NoConn \notin Conn
  BY CanvasAssumption DEF NoFd
<1>3. TypeOK
  <2>1. /\ inbox \in [Conn -> Seq(Message \cup {Join, Eof})]
        /\ outbox \in [Conn -> Seq(Message \cup {Cut}
                                   \cup {Switching(k) : k \in Conn})]
    OBVIOUS
  <2>2. /\ drawHistory \in Seq(Stroke) /\ sent \in 0 .. MaxSends
        /\ \A k \in Conn : \A i \in DOMAIN outbox[k] :
             i > Cap => outbox[k][i] = Cut
    BY CanvasAssumption
  <2>3. /\ upgrade \in [Conn -> Stages]
        /\ page \in [Conn -> {"connecting", "open", "lost", "gone"}]
        /\ canvas \in [Conn -> SUBSET Stroke]
        /\ clientFd \in [Conn -> Fd \cup {NoFd}]
        /\ clients \in [Fd -> Conn \cup {NoConn}]
        /\ file \in [Fd -> Conn \cup {NoConn}]
    BY DEF Stages
  <2>4. /\ server \in {"up", "down", "undefined"} /\ cleared \in BOOLEAN
        /\ overtaken \subseteq Conn /\ reset \subseteq Conn
        /\ missed \subseteq Conn
    OBVIOUS
  <2> QED
    BY <2>1, <2>2, <2>3, <2>4 DEF TypeOK, Stages
<1>4. OneDescriptorEach /\ OnlyOvertakenDangle /\ MissedAreForgotten
  BY <1>2
  DEF OneDescriptorEach, OnlyOvertakenDangle, MissedAreForgotten, Up
<1>5. PagesSpeakInTurn /\ NothingSentTooSoon /\ StrokesHaveAuthors
  BY <1>1 DEF PagesSpeakInTurn, NothingSentTooSoon, StrokesHaveAuthors
<1>6. CanvasesConverge
  BY <1>1 DEF CanvasesConverge, WillShow, EndsUpIn, Survives
<1> QED
  BY <1>3, <1>4, <1>5, <1>6 DEF IInv

(* The invariant IInv holds in every reachable state of both programs, for *)
(* any pages, descriptor numbers and buffers.                              *)
THEOREM IInvAlways == Spec => []IInv
<1>1. Init => IInv
  BY InitIInv
<1>2. IInv /\ [Next]_vars => IInv'
  BY TypeOKStep, OneDescriptorStep, PagesSpeakStep, RegistryStep,
     NothingTooSoonStep, StrokesStep, ConvergeStep
  DEF IInv
<1> QED
  BY <1>1, <1>2, PTL DEF Spec

(* Of the entries of the registry only those dangle, or are somebody       *)
(* else's, that an on_open wrote after the on_close of its connection; and *)
(* no live connection is forgotten but for one of those, or by paint after *)
(* a send to it failed.                                                    *)
THEOREM OnlyOvertakenEntriesDangle == Spec => []OnlyOvertakenDangle
<1>1. IInv => OnlyOvertakenDangle
  BY DEF IInv
<1> QED
  BY <1>1, IInvAlways, PTL

(* When nothing is on its way, a page that did not lose track of its       *)
(* frames and for which no send failed shows the history and nothing else; *)
(* it can lack only strokes of its own, wiped out by a "clear".            *)
THEOREM SettledCanvasesAgree == Spec => []CanvasesAgree
<1>1. IInv => CanvasesAgree
  <2>1. SUFFICES ASSUME IInv, Settled, NEW k \in Conn, page[k] = "open",
                        k \notin missed
                 PROVE  /\ canvas[k] \subseteq ToSet(drawHistory)
                        /\ \A s \in ToSet(drawHistory) \ canvas[k] :
                             s[1] = k /\ cleared
    BY DEF CanvasesAgree
  <2>2. /\ inbox[k] = <<>> /\ outbox[k] = <<>> /\ server = "up"
        /\ ToSet(<<>>) = {} /\ DOMAIN <<>> = {}
    BY <2>1 DEF Settled, ToSet
  <2>3. /\ canvas[k] \subseteq Stroke
        /\ \A s \in ToSet(drawHistory) : s \in Stroke
    BY <2>1, ElementOfSeq DEF IInv, TypeOK, ToSet
  <2>4. \A s \in Stroke : WillShow(k, s) <=> s \in canvas[k]
    BY <2>2 DEF WillShow, EndsUpIn, Survives
  <2>5. \A s \in Stroke :
          /\ WillShow(k, s) => s \in ToSet(drawHistory)
          /\ s \in ToSet(drawHistory) /\ s[1] # k => WillShow(k, s)
    <3>1. LongCursor \notin ToSet(outbox[k]) /\ Join \notin ToSet(inbox[k])
      BY <2>2
    <3>2. Follows(k)
      BY <2>1, <3>1 DEF Follows
    <3>3. \A s \in Stroke : Draw(s) \notin ToSet(inbox[k])
      BY <2>2
    <3> QED
      BY <2>1, <2>2, <3>1, <3>2, <3>3 DEF IInv, CanvasesConverge
  <2>6. \A s \in ToSet(drawHistory) : s \in canvas[s[1]] \/ cleared
    BY <2>1 DEF IInv, StrokesHaveAuthors
  <2> QED
    BY <2>3, <2>4, <2>5, <2>6
<1> QED
  BY <1>1, IInvAlways, PTL

(* Once a send of paint's broadcast to a page has failed, only two frames  *)
(* still reach it: the 101 of somebody else, and the replay that answers   *)
(* its own join.                                                           *)
THEOREM NothingIsSentAfterACut == Spec => NothingAfterACut
<1> DEFINE Quiet ==
      \A k \in Conn :
        /\ app = "paint" /\ k \in missed /\ page[k] \in {"open", "lost"}
        /\ Len(outbox'[k]) > Len(outbox[k])
        => \/ \E j \in Conn \ {k} : upgrade'[j] # upgrade[j]
           \/ Head(inbox[k]) = Join /\ inbox'[k] = Tail(inbox[k])
<1>1. ASSUME IInv, [Next]_vars PROVE [Quiet]_vars
  <2> USE DEF roomVars, pageVars
  <2>1. SUFFICES ASSUME NEW k \in Conn, app = "paint", k \in missed,
                        page[k] \in {"open", "lost"},
                        Len(outbox'[k]) > Len(outbox[k])
                 PROVE  \/ \E j \in Conn \ {k} : upgrade'[j] # upgrade[j]
                        \/ Head(inbox[k]) = Join /\ inbox'[k] = Tail(inbox[k])
    OBVIOUS
  <2>2. TypeOK /\ upgrade[k] = "done" /\ k \notin Registered
    BY <1>1, <2>1 DEF IInv, PagesSpeakInTurn, MissedAreForgotten
  <2>3. /\ Len(outbox[k]) \in Nat /\ outbox[k] \in Seq(ToPage)
        /\ outbox \in [Conn -> Seq(ToPage)]
    BY <2>2, QueueTypes
  <2>4. outbox'[k] # outbox[k]
    BY <2>1, <2>3
  <2>5. ASSUME NEW j \in Conn, Handshake(j)
        PROVE  j # k /\ upgrade'[j] # upgrade[j]
    BY <2>2, <2>5 DEF Handshake, TypeOK
  <2>6. ASSUME NEW f \in Fd, OnJoin(f)
        PROVE  Head(inbox[k]) = Join /\ inbox'[k] = Tail(inbox[k])
    <3>1. file[f] = k
      BY <1>1, <2>4, <2>6, JoinSends
    <3>2. Head(inbox[k]) = Join
      BY <1>1, <2>6, <3>1, JoinReplays
    <3>3. /\ inbox' = [inbox EXCEPT ![k] = Tail(@)]
          /\ inbox \in [Conn -> Seq(ToServer)]
      BY <2>2, <2>6, <3>1, ReadsTakesOne, QueueTypes DEF OnJoin
    <3> QED
      BY <3>2, <3>3
  <2>7. ASSUME NEW f \in Fd, OnDrawCursorClear(f) PROVE FALSE
    <3>1. /\ Audience(f) \subseteq Registered /\ Audience(f) \in SUBSET Conn
          /\ \E frame \in Message : SendEach(frame, Audience(f))
      BY <2>2, <2>7, DrawBroadcasts
    <3>2. PICK frame \in ToPage : SendEach(frame, Audience(f))
      BY <3>1 DEF ToPage
    <3> QED
      BY <2>2, <2>4, <3>1, <3>2, SendEachSends
  <2>8. ASSUME PageStep PROVE FALSE
    <3>1. ASSUME NEW j \in Conn, outbox[j] # <<>>,
                 outbox' = [outbox EXCEPT ![j] = Tail(@)]
          PROVE  FALSE
      <4>1. outbox'[k] = Tail(outbox[k]) /\ outbox[k] # <<>>
        BY <2>3, <2>4, <3>1
      <4>2. Len(Tail(outbox[k])) = Len(outbox[k]) - 1
        BY <2>3, <4>1, HeadTailProperties
      <4> QED
        BY <2>1, <2>3, <4>1, <4>2
    <3>2. ASSUME NEW j \in Conn, Leave(j) PROVE FALSE
      <4>1. outbox'[k] = <<>>
        BY <2>3, <2>4, <3>2 DEF Leave
      <4> QED
        BY <2>1, <2>3, <4>1
    <3> QED
      BY <2>4, <2>8, <3>1, <3>2
      DEF PageStep, Opens, OnPageMessage, LosesTrack, Swallows, Paint,
          MoveCursor, ClickClear, Sends
  <2> QED
    BY <1>1, <2>4, <2>5, <2>6, <2>7, <2>8
    DEF Next, vars, WorkerStep, ListenerStep, Accept, Register, OnOpen,
        OnMessageThrows, OnMessageRaisesSigpipe, FollowsDangling, OnClose,
        EraseConnection
<1> QED
  BY <1>1, IInvAlways, PTL DEF Spec, NothingAfterACut
=============================================================================
