---------------------------- MODULE ServerProofs ----------------------------
(***************************************************************************)
(* The request path of the server, for any number of connections, heap     *)
(* cells, worker threads, queue places and messages.                       *)
(*                                                                         *)
(* All theorems assume Prompt: no peer leaves, and no 10 s pass, while a   *)
(* request of the connection is being processed.  Without it they are      *)
(* false, and a run shows how.                                             *)
(*                                                                         *)
(* The inductive invariant SInv ties five things together: what is left of *)
(* each byte stream is whole messages (Streaming), no request without a    *)
(* message (Counting), every open connection owns a session that no other  *)
(* has (Sessions), an event is at one place of the pipeline and is the     *)
(* last request of an open connection that waits for it (OnePlace,         *)
(* LastRequest), and a session that waits has its event on its way         *)
(* (Waiting).                                                              *)
(***************************************************************************)
EXTENDS Server, FiniteSetTheorems, SequenceTheorems, TLAPS

\* A piece of the byte stream of a client.
Piece == [part : {"head", "body"}, msg : MessageKind]

\* Every variable has its type.
ServerTyped ==
    /\ conn \in [Conns -> {"new", "open", "closed"}]
    /\ cell \in [Conns -> Cells \cup {NoCell}]
    /\ heap \in [Cells -> Session \cup {Free}]
    /\ net \in [Conns -> Seq(Piece)]
    /\ inbuf \in [Conns -> Seq(Piece)]
    /\ phase \in {"events", "responses"}
    /\ args \in [Events -> Cells \cup {NoCell}]
    /\ responses \in Seq(Events)
    /\ ub \in BOOLEAN
    /\ pending \in Seq(Events)
    /\ running \in SUBSET Events
    /\ refused \in SUBSET Events
    /\ req \in [Conns -> Seq(Parsed)]
    /\ out \in [Conns -> Seq(Events)]
    /\ got \in [Conns -> Nat]

\* How many complete messages a stretch of the stream holds.
Bodies(s) == Cardinality({i \in 1..Len(s) : s[i].part = "body"})

\* What the client has sent and handle_request has not consumed.
Stream(c) == inbuf[c] \o net[c]

\* Headers and bodies alternate, and the last message is complete.
Framed(s) ==
    \A i \in 1..Len(s) : IF i < Len(s) THEN s[i].part # s[i + 1].part
                                       ELSE s[i].part = "body"

\* The stream begins with the body of a message whose header was read, or with
\* a header.
Starts(s, inside) ==
    IF inside THEN Len(s) > 0 /\ s[1].part = "body"
              ELSE Len(s) > 0 => s[1].part = "head"

\* The session has read the header of the request it is receiving.
InMessage(c) == Sess(c).stat = "request" /\ Sess(c).rstat = "message"

\* The stream of an open connection is a sequence of whole messages, of which
\* the session may have read the first header.
Streaming ==
    \A c \in Conns :
        IF conn[c] = "open"
          THEN Framed(Stream(c)) /\ Starts(Stream(c), InMessage(c))
          ELSE inbuf[c] = <<>> /\ net[c] = <<>>

\* No request without a message, no message beyond the client's last.
Counting ==
    ub \/ \A c \in Conns : /\ Len(req[c]) + Bodies(inbuf[c]) <= got[c]
                           /\ got[c] + Bodies(net[c]) <= MaxSend

\* An open connection owns its session, and no two share one.
Sessions ==
    \A c \in Conns :
        /\ conn[c] = "open" => /\ cell[c] \in Cells
                               /\ heap[cell[c]] # Free
                               /\ heap[cell[c]].bev = c
        /\ conn[c] = "new" => req[c] = <<>> /\ out[c] = <<>>

\* An event is in one place of the pipeline at a time.
OnePlace ==
    /\ \A i, j \in DOMAIN pending : pending[i] = pending[j] => i = j
    /\ \A i, j \in DOMAIN responses : responses[i] = responses[j] => i = j
    /\ \A i \in DOMAIN pending : pending[i] \notin running
    /\ \A i \in DOMAIN responses : responses[i] \notin running
    /\ \A i \in DOMAIN pending : \A j \in DOMAIN responses : pending[i] # responses[j]

\* The event on its way is the last request of an open connection, and its
\* session waits for it.
LastRequest ==
    \A e \in InFlight :
        /\ conn[e[1]] = "open"
        /\ args[e] = cell[e[1]]
        /\ Sess(e[1]).stat = "response"
        /\ e[2] = Len(req[e[1]])

\* A session that waits has its last request on its way or refused, and lacks
\* exactly this response.
Waiting ==
    \A c \in Conns : conn[c] = "open" =>
        IF Sess(c).stat = "response"
          THEN /\ <<c, Len(req[c])>> \in InFlight \cup refused
               /\ Len(req[c]) = Len(out[c]) + 1
          ELSE Len(req[c]) = Len(out[c])

\* The inductive invariant.
SInv ==
    /\ Prompt /\ ServerTyped /\ Streaming /\ Counting /\ Sessions
    /\ OnePlace /\ LastRequest /\ Waiting /\ ResponsesMatch
    /\ UndefinedOnlyByParse
-----------------------------------------------------------------------------
\* A stretch of the stream holds a finite number of messages.
LEMMA BodiesFinite ==
  ASSUME NEW s \in Seq(Piece)
  PROVE  /\ IsFiniteSet({i \in 1..Len(s) : s[i].part = "body"})
         /\ Bodies(s) \in Nat
<1>1. Len(s) \in Nat /\ IsFiniteSet(1..Len(s))
  BY FS_Interval
<1>2. {i \in 1..Len(s) : s[i].part = "body"} \in SUBSET (1..Len(s))
  OBVIOUS
<1>3. IsFiniteSet({i \in 1..Len(s) : s[i].part = "body"})
  BY <1>1, <1>2, FS_Subset
<1> QED
  BY <1>3, FS_CardinalityType DEF Bodies

\* The messages of two adjacent stretches add up.
LEMMA BodiesConcat ==
  ASSUME NEW s \in Seq(Piece), NEW t \in Seq(Piece)
  PROVE  Bodies(s \o t) = Bodies(s) + Bodies(t)
<1> DEFINE u == s \o t
<1> DEFINE S == {i \in 1..Len(s) : s[i].part = "body"}
<1> DEFINE T == {i \in 1..Len(t) : t[i].part = "body"}
<1> DEFINE U == {i \in 1..Len(u) : u[i].part = "body"}
<1> DEFINE V == {i \in U : i > Len(s)}
<1>1. /\ u \in Seq(Piece)
      /\ Len(s) \in Nat /\ Len(t) \in Nat
      /\ Len(u) = Len(s) + Len(t)
      /\ \A i \in 1..Len(u) : u[i] = IF i <= Len(s) THEN s[i] ELSE t[i - Len(s)]
  BY ConcatProperties, LenProperties
<1> HIDE DEF u
<1>2. U = S \cup V /\ S \cap V = {}
  BY <1>1
<1>3. [i \in T |-> i + Len(s)] \in Bijection(T, V)
  <2> DEFINE f == [i \in T |-> i + Len(s)]
  <2>1. ASSUME NEW i \in T PROVE f[i] \in V
    <3>1. i \in 1..Len(t) /\ t[i].part = "body" /\ f[i] = i + Len(s)
      OBVIOUS
    <3>2. i + Len(s) \in 1..Len(u) /\ u[i + Len(s)] = t[(i + Len(s)) - Len(s)]
      BY <1>1, <3>1
    <3>3. (i + Len(s)) - Len(s) = i /\ i + Len(s) > Len(s)
      BY <1>1, <3>1
    <3> QED
      BY <3>1, <3>2, <3>3
  <2>2. \A i, j \in T : f[i] = f[j] => i = j
    BY <1>1
  <2>3. ASSUME NEW j \in V PROVE \E i \in T : f[i] = j
    <3>1. j \in 1..Len(u) /\ u[j].part = "body" /\ j > Len(s)
      OBVIOUS
    <3>2. j - Len(s) \in 1..Len(t) /\ u[j] = t[j - Len(s)]
      BY <1>1, <3>1
    <3>3. j - Len(s) \in T
      BY <3>1, <3>2
    <3>4. f[j - Len(s)] = j
      BY <1>1, <3>1, <3>3
    <3> QED
      BY <3>3, <3>4
  <2> QED
    BY <2>1, <2>2, <2>3 DEF Bijection, Injection, Surjection, IsInjective
<1>4. IsFiniteSet(S) /\ IsFiniteSet(T)
  BY BodiesFinite
<1>5. IsFiniteSet(V) /\ Cardinality(V) = Cardinality(T)
  <2> HIDE DEF S, T, U, V
  <2>1. ExistsBijection(T, V)
    BY <1>3 DEF ExistsBijection
  <2> QED
    BY <1>4, <2>1, FS_Bijection
<1>6. Cardinality(U) = Cardinality(S) + Cardinality(T)
  <2> HIDE DEF S, T, U, V
  <2>1. Cardinality(S \cup V) = Cardinality(S) + Cardinality(V) - Cardinality(S \cap V)
    BY <1>4, <1>5, FS_Union
  <2>2. Cardinality(S) \in Nat /\ Cardinality(T) \in Nat
    BY <1>4, FS_CardinalityType
  <2>3. Cardinality(S \cap V) = 0
    BY <1>2, FS_EmptySet
  <2> QED
    BY <1>2, <1>5, <2>1, <2>2, <2>3
<1> QED
  BY <1>6 DEF Bodies, u

\* A message consists of one header and one body.
LEMMA PiecesFacts ==
  ASSUME NEW m \in MessageKind
  PROVE  /\ Pieces(m) \in Seq(Piece)
         /\ Len(Pieces(m)) = 2
         /\ Pieces(m)[1].part = "head" /\ Pieces(m)[2].part = "body"
         /\ Bodies(Pieces(m)) = 1
<1>1. /\ Pieces(m) \in Seq(Piece)
      /\ Len(Pieces(m)) = 2
      /\ Pieces(m)[1].part = "head" /\ Pieces(m)[2].part = "body"
  BY DEF Pieces, Piece
<1>2. {i \in 1..Len(Pieces(m)) : Pieces(m)[i].part = "body"} = {2}
  BY <1>1
<1> QED
  BY <1>1, <1>2, FS_Singleton DEF Bodies

\* What a piece is.
LEMMA PieceFacts ==
  ASSUME NEW s \in Seq(Piece), NEW i \in 1..Len(s)
  PROVE  s[i].part \in {"head", "body"} /\ s[i].msg \in MessageKind
<1>1. s[i] \in Piece
  BY ElementOfSeq
<1> QED
  BY <1>1 DEF Piece

\* A sequence is cut in two at k.
LEMMA SplitAt ==
  ASSUME NEW s \in Seq(Piece), NEW k \in 0..Len(s)
  PROVE  /\ SubSeq(s, 1, k) \in Seq(Piece)
         /\ Len(SubSeq(s, 1, k)) = k
         /\ \A i \in 1..k : SubSeq(s, 1, k)[i] = s[i]
         /\ SubSeq(s, k + 1, Len(s)) \in Seq(Piece)
         /\ Len(SubSeq(s, k + 1, Len(s))) = Len(s) - k
         /\ \A i \in 1..Len(s) - k : SubSeq(s, k + 1, Len(s))[i] = s[i + k]
         /\ SubSeq(s, 1, k) \o SubSeq(s, k + 1, Len(s)) = s
<1>1. Len(s) \in Nat /\ k \in Nat /\ k <= Len(s) /\ \A i \in 1..Len(s) : s[i] \in Piece
  BY LenProperties, ElementOfSeq
<1>2. /\ SubSeq(s, 1, k) \in Seq(Piece)
      /\ Len(SubSeq(s, 1, k)) = k
      /\ \A i \in 1..k : SubSeq(s, 1, k)[i] = s[i]
  <2>1. \A i \in 1..k : s[i] \in Piece
    BY <1>1
  <2> QED
    BY <1>1, <2>1, SubSeqProperties
<1>3. /\ SubSeq(s, k + 1, Len(s)) \in Seq(Piece)
      /\ Len(SubSeq(s, k + 1, Len(s))) = Len(s) - k
      /\ \A i \in 1..Len(s) - k : SubSeq(s, k + 1, Len(s))[i] = s[i + k]
  <2>1. \A i \in k + 1 .. Len(s) : s[i] \in Piece
    BY <1>1
  <2>2. /\ SubSeq(s, k + 1, Len(s)) \in Seq(Piece)
        /\ Len(SubSeq(s, k + 1, Len(s))) = IF k + 1 <= Len(s) THEN Len(s) - (k + 1) + 1 ELSE 0
        /\ \A i \in 1 .. Len(s) - (k + 1) + 1 : SubSeq(s, k + 1, Len(s))[i] = s[(k + 1) + i - 1]
    <3>1. k + 1 \in Int /\ Len(s) \in Int
      BY <1>1
    <3> QED
      BY <2>1, <3>1, SubSeqProperties
  <2>3. Len(SubSeq(s, k + 1, Len(s))) = Len(s) - k
    BY <1>1, <2>2
  <2>4. ASSUME NEW i \in 1..Len(s) - k PROVE SubSeq(s, k + 1, Len(s))[i] = s[i + k]
    <3>1. i \in 1 .. Len(s) - (k + 1) + 1 /\ (k + 1) + i - 1 = i + k
      BY <1>1
    <3> QED
      BY <2>2, <3>1
  <2> QED
    BY <2>2, <2>3, <2>4
<1>4. SubSeq(s, 1, k) \o SubSeq(s, k + 1, Len(s)) = s
  <2>1. 1 \in 1 .. Len(s) + 1 /\ k \in 1 - 1 .. Len(s) /\ Len(s) \in k .. Len(s)
    BY <1>1
  <2>2. SubSeq(s, 1, k) \o SubSeq(s, k + 1, Len(s)) = SubSeq(s, 1, Len(s))
    BY <2>1, ConcatAdjacentSubSeq
  <2> QED
    BY <2>2, SubSeqFull
<1> QED
  BY <1>2, <1>3, <1>4

\* Concatenation of stretches is associative.
LEMMA PiecesAssociative ==
  ASSUME NEW s \in Seq(Piece), NEW t \in Seq(Piece), NEW u \in Seq(Piece)
  PROVE  (s \o t) \o u = s \o (t \o u)
  BY ConcatAssociative

\* Reading k pieces of t behind s into the buffer b.
LEMMA BufferFacts ==
  ASSUME NEW s \in Seq(Piece), NEW t \in Seq(Piece), NEW k \in 1..Len(t),
         NEW b, b = s \o SubSeq(t, 1, k)
  PROVE  /\ b \in Seq(Piece)
         /\ Len(b) = Len(s) + k
         /\ SubSeq(t, k + 1, Len(t)) \in Seq(Piece)
         /\ b \o SubSeq(t, k + 1, Len(t)) = s \o t
         /\ Len(b) <= Len(s \o t)
         /\ \A i \in 1..Len(b) : b[i] = (s \o t)[i]
         /\ Cardinality({i \in 1..k : t[i].part = "body"}) \in Nat
         /\ Bodies(b) = Bodies(s) + Cardinality({i \in 1..k : t[i].part = "body"})
         /\ Bodies(t) = Cardinality({i \in 1..k : t[i].part = "body"})
                          + Bodies(SubSeq(t, k + 1, Len(t)))
<1> DEFINE p == SubSeq(t, 1, k)
<1> DEFINE r == SubSeq(t, k + 1, Len(t))
<1>1. /\ p \in Seq(Piece) /\ Len(p) = k /\ \A i \in 1..k : p[i] = t[i]
      /\ r \in Seq(Piece)
      /\ p \o r = t
  BY SplitAt
<1>2. Cardinality({i \in 1..k : t[i].part = "body"}) = Bodies(p)
  <2>1. {i \in 1..k : t[i].part = "body"} = {i \in 1..Len(p) : p[i].part = "body"}
    BY <1>1
  <2> QED
    BY <2>1 DEF Bodies
<1>3. b = s \o p
  OBVIOUS
<1> HIDE DEF p, r
<1>4. /\ b \in Seq(Piece)
      /\ Len(b) = Len(s) + Len(p)
      /\ Bodies(b) = Bodies(s) + Bodies(p)
  <2>1. p \in Seq(Piece)
    BY <1>1
  <2> QED
    BY <1>3, <2>1, ConcatProperties, BodiesConcat
<1>5. b \o r = s \o t
  <2>1. p \in Seq(Piece) /\ r \in Seq(Piece)
    BY <1>1
  <2>2. (s \o p) \o r = s \o (p \o r)
    BY <2>1, PiecesAssociative
  <2> QED
    BY <1>1, <1>3, <2>2
<1>6. /\ Len(b \o r) = Len(b) + Len(r)
      /\ \A i \in 1..Len(b) + Len(r) : (b \o r)[i] = IF i <= Len(b) THEN b[i] ELSE r[i - Len(b)]
      /\ Len(b) \in Nat /\ Len(r) \in Nat
  BY <1>1, <1>4, ConcatProperties, LenProperties
<1>7. Bodies(p) \in Nat /\ Bodies(t) = Bodies(p) + Bodies(r)
  BY <1>1, BodiesFinite, BodiesConcat
<1>8. /\ Len(b) <= Len(s \o t)
      /\ \A i \in 1..Len(b) : b[i] = (s \o t)[i]
  BY <1>5, <1>6
<1> QED
  BY <1>1, <1>2, <1>4, <1>5, <1>7, <1>8 DEF p, r

\* Dropping the first d pieces of the buffer b of a stream b \o r.
LEMMA DropFacts ==
  ASSUME NEW b \in Seq(Piece), NEW r \in Seq(Piece), NEW d \in 0..Len(b)
  PROVE  /\ SubSeq(b, d + 1, Len(b)) \in Seq(Piece)
         /\ SubSeq(b, d + 1, Len(b)) \o r \in Seq(Piece)
         /\ Len(SubSeq(b, d + 1, Len(b)) \o r) = Len(b \o r) - d
         /\ \A i \in 1..Len(b \o r) - d : (SubSeq(b, d + 1, Len(b)) \o r)[i] = (b \o r)[i + d]
         /\ Bodies(SubSeq(b, d + 1, Len(b))) <= Bodies(b)
         /\ \A i \in 1..d : b[i].part = "body" =>
              Bodies(SubSeq(b, d + 1, Len(b))) + 1 <= Bodies(b)
<1> DEFINE f == SubSeq(b, 1, d)
<1> DEFINE g == SubSeq(b, d + 1, Len(b))
<1>1. /\ f \in Seq(Piece) /\ Len(f) = d /\ \A i \in 1..d : f[i] = b[i]
      /\ g \in Seq(Piece) /\ Len(g) = Len(b) - d
      /\ \A i \in 1..Len(b) - d : g[i] = b[i + d]
      /\ f \o g = b
  BY SplitAt
<1> HIDE DEF f, g
<1>2. Bodies(b) = Bodies(f) + Bodies(g) /\ Bodies(f) \in Nat /\ Bodies(g) \in Nat
  BY <1>1, BodiesFinite, BodiesConcat
<1>3. ASSUME NEW i \in 1..d, b[i].part = "body" PROVE Bodies(f) # 0
  <2>1. i \in {j \in 1..Len(f) : f[j].part = "body"}
    BY <1>1, <1>3
  <2>2. IsFiniteSet({j \in 1..Len(f) : f[j].part = "body"})
    BY <1>1, BodiesFinite
  <2> QED
    BY <2>1, <2>2, FS_EmptySet DEF Bodies
<1>4. Len(b) \in Nat /\ Len(r) \in Nat /\ d \in Nat /\ d <= Len(b)
  BY LenProperties
<1>5. /\ g \o r \in Seq(Piece)
      /\ Len(g \o r) = Len(g) + Len(r)
      /\ \A i \in 1..Len(g) + Len(r) : (g \o r)[i] = IF i <= Len(g) THEN g[i] ELSE r[i - Len(g)]
  <2>1. g \in Seq(Piece)
    BY <1>1
  <2> QED
    BY <2>1, ConcatProperties
<1>6. /\ Len(b \o r) = Len(b) + Len(r)
      /\ \A i \in 1..Len(b) + Len(r) : (b \o r)[i] = IF i <= Len(b) THEN b[i] ELSE r[i - Len(b)]
  BY ConcatProperties
<1>7. Len(g \o r) = Len(b \o r) - d
  BY <1>1, <1>4, <1>5, <1>6
<1>8. ASSUME NEW i \in 1..Len(b \o r) - d PROVE (g \o r)[i] = (b \o r)[i + d]
  <2>1. i \in 1..Len(g) + Len(r) /\ i + d \in 1..Len(b) + Len(r)
    BY <1>1, <1>4, <1>6
  <2>2. CASE i <= Len(g)
    <3>1. i \in 1..Len(b) - d /\ i + d <= Len(b)
      BY <1>1, <1>4, <2>1, <2>2
    <3> QED
      BY <1>1, <1>5, <1>6, <2>1, <2>2, <3>1
  <2>3. CASE i > Len(g)
    <3>1. i + d > Len(b) /\ (i + d) - Len(b) = i - Len(g)
      BY <1>1, <1>4, <2>1, <2>3
    <3>2. (g \o r)[i] = r[i - Len(g)]
      BY <1>1, <1>4, <1>5, <2>1, <2>3
    <3>3. (b \o r)[i + d] = r[(i + d) - Len(b)]
      BY <1>4, <1>6, <2>1, <3>1
    <3> QED
      BY <3>1, <3>2, <3>3
  <2> QED
    BY <1>1, <1>4, <2>1, <2>2, <2>3
<1>9. Bodies(g) <= Bodies(b) /\ \A i \in 1..d : b[i].part = "body" => Bodies(g) + 1 <= Bodies(b)
  BY <1>2, <1>3
<1>10. g \in Seq(Piece)
  BY <1>1
<1> QED
  BY <1>5, <1>7, <1>8, <1>9, <1>10 DEF g

\* A client appends whole messages.
LEMMA FramedAppend ==
  ASSUME NEW s \in Seq(Piece), Framed(s), NEW m \in MessageKind,
         NEW x \in BOOLEAN, Starts(s, x)
  PROVE  Framed(s \o Pieces(m)) /\ Starts(s \o Pieces(m), x)
<1> DEFINE u == s \o Pieces(m)
<1>1. Len(s) \in Nat
  BY LenProperties
<1>2. /\ Len(u) = Len(s) + 2
      /\ \A i \in 1..Len(s) : u[i] = s[i]
      /\ u[Len(s) + 1].part = "head" /\ u[Len(s) + 2].part = "body"
  <2>1. /\ Len(Pieces(m)) = 2
        /\ Pieces(m)[1].part = "head" /\ Pieces(m)[2].part = "body"
    BY PiecesFacts
  <2>2. /\ Len(u) = Len(s) + 2
        /\ \A i \in 1..Len(s) + 2 : u[i] = IF i <= Len(s) THEN s[i] ELSE Pieces(m)[i - Len(s)]
    <3>1. Pieces(m) \in Seq(Piece)
      BY PiecesFacts
    <3>2. /\ Len(u) = Len(s) + Len(Pieces(m))
          /\ \A i \in 1..Len(s) + Len(Pieces(m)) :
               u[i] = IF i <= Len(s) THEN s[i] ELSE Pieces(m)[i - Len(s)]
      BY <3>1, ConcatProperties
    <3> QED
      BY <2>1, <3>2
  <2>3. /\ Len(s) + 1 \in 1..Len(s) + 2 /\ (Len(s) + 1) - Len(s) = 1 /\ ~(Len(s) + 1 <= Len(s))
        /\ Len(s) + 2 \in 1..Len(s) + 2 /\ (Len(s) + 2) - Len(s) = 2 /\ ~(Len(s) + 2 <= Len(s))
    BY <1>1
  <2>4. u[Len(s) + 1] = Pieces(m)[1] /\ u[Len(s) + 2] = Pieces(m)[2]
    BY <2>2, <2>3
  <2>5. \A i \in 1..Len(s) : u[i] = s[i]
    BY <1>1, <2>2
  <2> QED
    BY <2>1, <2>2, <2>4, <2>5
<1> HIDE DEF u
<1>3. ASSUME NEW i \in 1..Len(u)
      PROVE  IF i < Len(u) THEN u[i].part # u[i + 1].part ELSE u[i].part = "body"
  <2>1. CASE i < Len(s)
    <3>1. i \in 1..Len(s) /\ i + 1 \in 1..Len(s) /\ i < Len(u)
      BY <1>1, <1>2, <2>1
    <3>2. s[i].part # s[i + 1].part
      BY <2>1, <3>1 DEF Framed
    <3> QED
      BY <1>2, <3>1, <3>2
  <2>2. CASE i = Len(s)
    <3>1. i \in 1..Len(s) /\ i < Len(u) /\ ~(i < Len(s))
      BY <1>1, <1>2, <2>2
    <3>2. s[i].part = "body"
      BY <3>1 DEF Framed
    <3> QED
      BY <1>2, <2>2, <3>1, <3>2
  <2>3. CASE i = Len(s) + 1
    <3>1. i + 1 = Len(s) + 2 /\ i < Len(u)
      BY <1>1, <1>2, <2>3
    <3> QED
      BY <1>2, <2>3, <3>1
  <2>4. CASE i = Len(s) + 2
    BY <1>1, <1>2, <2>4
  <2> QED
    BY <1>1, <1>2, <2>1, <2>2, <2>3, <2>4
<1>4. Starts(u, x)
  <2>1. CASE Len(s) > 0
    <3>1. 1 \in 1..Len(s) /\ Len(u) > 0
      BY <1>1, <1>2, <2>1
    <3> QED
      BY <1>2, <2>1, <3>1 DEF Starts
  <2>2. CASE Len(s) = 0
    <3>1. Len(s) + 1 = 1 /\ ~x
      BY <2>2 DEF Starts
    <3> QED
      BY <1>2, <3>1 DEF Starts
  <2> QED
    BY <1>1, <2>1, <2>2
<1> QED
  BY <1>3, <1>4 DEF Framed, u

\* What is left of a stream whose first d pieces were consumed.
LEMMA FramedDrop ==
  ASSUME NEW s \in Seq(Piece), Framed(s), NEW d \in 0..Len(s),
         NEW r \in Seq(Piece), Len(r) = Len(s) - d,
         \A i \in 1..Len(s) - d : r[i] = s[i + d]
  PROVE  /\ Framed(r)
         /\ d = 0 => \A x \in BOOLEAN : Starts(s, x) => Starts(r, x)
         /\ d > 0 => Starts(r, s[d].part = "head")
<1>1. Len(s) \in Nat /\ d \in Nat /\ d <= Len(s) /\ Len(r) \in Nat
  BY LenProperties
<1>2. ASSUME NEW i \in 1..Len(r)
      PROVE  IF i < Len(r) THEN r[i].part # r[i + 1].part ELSE r[i].part = "body"
  <2>1. i \in 1..Len(s) - d /\ i + d \in 1..Len(s) /\ (i < Len(r) <=> i + d < Len(s))
    BY <1>1
  <2>2. r[i] = s[i + d]
    BY <2>1
  <2>3. i < Len(r) => r[i + 1] = s[(i + d) + 1]
    <3>1. i < Len(r) => i + 1 \in 1..Len(s) - d /\ (i + 1) + d = (i + d) + 1
      BY <1>1
    <3> QED
      BY <3>1
  <2>4. IF i + d < Len(s) THEN s[i + d].part # s[(i + d) + 1].part ELSE s[i + d].part = "body"
    BY <2>1 DEF Framed
  <2> QED
    BY <2>1, <2>2, <2>3, <2>4
<1>3. ASSUME d = 0, NEW x \in BOOLEAN, Starts(s, x) PROVE Starts(r, x)
  <2>1. Len(r) = Len(s) /\ (Len(s) > 0 => r[1] = s[1])
    BY <1>1, <1>3
  <2> QED
    BY <1>3, <2>1 DEF Starts
<1>4. ASSUME d > 0 PROVE Starts(r, s[d].part = "head")
  <2>1. d \in 1..Len(s) /\ s[d].part \in {"head", "body"}
    BY <1>1, <1>4, PieceFacts
  <2>2. IF d < Len(s) THEN s[d].part # s[d + 1].part ELSE s[d].part = "body"
    BY <2>1 DEF Framed
  <2>3. CASE d < Len(s)
    <3>1. 1 \in 1..Len(s) - d /\ 1 + d = d + 1 /\ Len(r) > 0 /\ d + 1 \in 1..Len(s)
      BY <1>1, <2>3
    <3>2. r[1] = s[d + 1] /\ s[d + 1].part \in {"head", "body"}
      BY <3>1, PieceFacts
    <3> QED
      BY <2>1, <2>2, <2>3, <3>1, <3>2 DEF Starts
  <2>4. CASE d = Len(s)
    BY <1>1, <2>1, <2>2, <2>4 DEF Starts
  <2> QED
    BY <2>1, <2>3, <2>4
<1> QED
  BY <1>2, <1>3, <1>4 DEF Framed

-----------------------------------------------------------------------------
\* Two open connections have different sessions.
LEMMA SessionOwner ==
  ASSUME Sessions, NEW c \in Conns, NEW d \in Conns, conn[c] = "open",
         conn[d] = "open", cell[c] = cell[d]
  PROVE  c = d
  BY DEF Sessions

\* An event on its way names a connection and one of its requests.
LEMMA InFlightType ==
  ASSUME NEW e \in InFlight
  PROVE  /\ e \in Events /\ e[1] \in Conns /\ e[2] \in 1..MaxSend
         /\ e = <<e[1], e[2]>>
  BY DEF InFlight, Events

\* Nothing in the pipeline moves.
LEMMA PipelineFrame ==
  ASSUME UNCHANGED <<pending, running, responses>>
  PROVE  InFlight' = InFlight /\ (OnePlace => OnePlace')
  BY DEF InFlight, OnePlace

\* listener_cb keeps the invariant.
LEMMA AcceptKeeps ==
  ASSUME SInv, ~ub, NEW c \in Conns, NEW a \in Cells, Accept(c, a)
  PROVE  SInv'
<1> USE DEF SInv, poolVars
<1>1. ServerTyped'
  <2>1. FreshSession(c) \in Session
    BY DEF FreshSession, Session
  <2> QED
    BY <2>1 DEF Accept, ServerTyped
<1>2. /\ conn' = [conn EXCEPT ![c] = "open"] /\ conn[c] = "new"
      /\ cell' = [cell EXCEPT ![c] = a]
      /\ heap' = [heap EXCEPT ![a] = FreshSession(c)] /\ heap[a] = Free
      /\ UNCHANGED <<net, inbuf, phase, args, responses, ub, pending, running,
                     refused, req, out, got>>
  BY DEF Accept
<1>3. \A d \in Conns : conn[d] = "open" =>
        d # c /\ cell[d] \in Cells /\ cell'[d] = cell[d] /\ Sess(d)' = Sess(d)
  BY <1>2 DEF Sessions, Sess, ServerTyped
<1>4. Sess(c)' = FreshSession(c) /\ cell'[c] = a
  BY <1>2 DEF Sess, ServerTyped
<1>5. \A d \in Conns : conn'[d] = "open" => d = c \/ conn[d] = "open"
  BY <1>2 DEF ServerTyped
<1>6. Streaming'
  <2>1. \A d \in Conns : Stream(d)' = Stream(d)
    BY <1>2 DEF Stream
  <2>2. Len(Stream(c)) = 0 /\ InMessage(c)' = FALSE
    <3>1. Stream(c) = <<>> \o <<>>
      BY <1>2 DEF Streaming, Stream
    <3>2. InMessage(c)' = FALSE
      BY <1>4 DEF InMessage, FreshSession
    <3> QED
      BY <3>1, <3>2
  <2>3. Framed(Stream(c)) /\ Starts(Stream(c), FALSE)
    BY <2>2 DEF Framed, Starts
  <2>4. \A d \in Conns : conn[d] = "open" => InMessage(d)' = InMessage(d)
    BY <1>3 DEF InMessage
  <2>5. \A d \in Conns \ {c} : conn'[d] = conn[d]
    BY <1>2 DEF ServerTyped
  <2>6. ASSUME NEW d \in Conns, conn'[d] = "open"
        PROVE  Framed(Stream(d)') /\ Starts(Stream(d)', InMessage(d)')
    <3>1. CASE d = c
      BY <2>1, <2>2, <2>3, <3>1
    <3>2. CASE d # c
      BY <1>5, <2>1, <2>4, <2>6, <3>2 DEF Streaming
    <3> QED
      BY <3>1, <3>2
  <2>7. ASSUME NEW d \in Conns, conn'[d] # "open" PROVE inbuf'[d] = <<>> /\ net'[d] = <<>>
    BY <1>2, <2>5, <2>7 DEF Streaming, ServerTyped
  <2> QED
    BY <2>6, <2>7 DEF Streaming
<1>7. Counting'
  BY <1>2 DEF Counting, Bodies
<1>8. Sessions'
  BY <1>2, <1>3, <1>4, <1>5 DEF Sessions, FreshSession, Free, ServerTyped, Sess
<1>9. InFlight' = InFlight /\ OnePlace'
  BY <1>2, PipelineFrame
<1>10. LastRequest'
  <2> SUFFICES ASSUME NEW e \in InFlight
               PROVE  /\ conn'[e[1]] = "open"
                      /\ args'[e] = cell'[e[1]]
                      /\ Sess(e[1])'.stat = "response"
                      /\ e[2] = Len(req'[e[1]])
    BY <1>9 DEF LastRequest
  <2>1. e[1] \in Conns /\ conn[e[1]] = "open"
    BY InFlightType DEF LastRequest
  <2> QED
    BY <1>2, <1>3, <2>1 DEF LastRequest, ServerTyped
<1>11. Waiting'
  <2>1. Sess(c)'.stat = "request" /\ Len(req[c]) = Len(out[c])
    BY <1>2, <1>4 DEF Sessions, FreshSession
  <2> QED
    BY <1>2, <1>3, <1>5, <1>9, <2>1 DEF Waiting
<1>12. ResponsesMatch' /\ UndefinedOnlyByParse'
  BY <1>2 DEF ResponsesMatch, UndefinedOnlyByParse
<1> QED
  BY <1>1, <1>6, <1>7, <1>8, <1>9, <1>10, <1>11, <1>12

\* A client that sends another message keeps the invariant.
LEMMA SendKeeps ==
  ASSUME SInv, ~ub, NEW c \in Conns, NEW m \in Messages, ClientSend(c, m)
  PROVE  SInv'
<1> USE DEF SInv, poolVars
<1>1. /\ conn[c] = "open"
      /\ net' = [net EXCEPT ![c] = net[c] \o Pieces(m)]
      /\ UNCHANGED <<conn, cell, heap, inbuf, phase, args, responses, ub,
                     pending, running, refused, req, out, got>>
  BY DEF ClientSend
<1>2. /\ m \in MessageKind
      /\ Pieces(m) \in Seq(Piece)
      /\ Len(Pieces(m)) = 2
      /\ Pieces(m)[1].part = "head" /\ Pieces(m)[2].part = "body"
      /\ Bodies(Pieces(m)) = 1
  BY PiecesFacts, ServerAssumption
<1>3. net[c] \in Seq(Piece) /\ inbuf[c] \in Seq(Piece)
  BY DEF ServerTyped
<1>4. net[c] \o Pieces(m) \in Seq(Piece)
  BY <1>2, <1>3, ConcatProperties
<1>5. ServerTyped'
  BY <1>1, <1>4 DEF ServerTyped
<1>6. Counting'
  <2>1. got[c] + Bodies(net[c]) < MaxSend
    <3>1. DOMAIN net[c] = 1..Len(net[c])
      BY <1>3, LenProperties
    <3> QED
      BY <3>1 DEF ClientSend, Bodies
  <2>2. Bodies(net[c] \o Pieces(m)) = Bodies(net[c]) + 1
    BY <1>2, <1>3, BodiesConcat
  <2>3. got[c] + Bodies(net[c] \o Pieces(m)) <= MaxSend
    <3>1. Bodies(net[c]) \in Nat /\ got[c] \in Nat /\ MaxSend \in Nat
      BY <1>3, BodiesFinite, ServerAssumption DEF ServerTyped
    <3> QED
      BY <2>1, <2>2, <3>1
  <2>4. net'[c] = net[c] \o Pieces(m) /\ \A d \in Conns \ {c} : net'[d] = net[d]
    BY <1>1 DEF ServerTyped
  <2> QED
    BY <1>1, <2>3, <2>4 DEF Counting
<1>7. Streaming'
  <2>1. Stream(c) \in Seq(Piece)
    BY <1>3, ConcatProperties DEF Stream
  <2>2. Stream(c)' = Stream(c) \o Pieces(m)
    <3>1. Stream(c)' = inbuf[c] \o (net[c] \o Pieces(m))
      BY <1>1 DEF Stream, ServerTyped
    <3> QED
      BY <1>2, <1>3, <3>1, PiecesAssociative DEF Stream
  <2>3. \A d \in Conns \ {c} : Stream(d)' = Stream(d) /\ net'[d] = net[d]
    BY <1>1 DEF Stream, ServerTyped
  <2>4. \A d \in Conns : InMessage(d)' = InMessage(d)
    BY <1>1 DEF Sess, InMessage
  <2>5. Framed(Stream(c)') /\ Starts(Stream(c)', InMessage(c))
    <3>1. Framed(Stream(c)) /\ Starts(Stream(c), InMessage(c)) /\ InMessage(c) \in BOOLEAN
      BY <1>1 DEF Streaming, InMessage
    <3> QED
      BY <1>2, <2>1, <2>2, <3>1, FramedAppend
  <2> QED
    BY <1>1, <2>3, <2>4, <2>5 DEF Streaming
<1>8. Sessions' /\ InFlight' = InFlight /\ OnePlace'
  BY <1>1, PipelineFrame DEF Sessions
<1>9. LastRequest' /\ Waiting'
  BY <1>1, <1>8 DEF LastRequest, Waiting, Sess
<1>10. ResponsesMatch' /\ UndefinedOnlyByParse'
  BY <1>1 DEF ResponsesMatch, UndefinedOnlyByParse
<1> QED
  BY <1>5, <1>6, <1>7, <1>8, <1>9, <1>10

-----------------------------------------------------------------------------
\* A change of the session of c is seen by no other connection.
LEMMA OwnSession ==
  ASSUME SInv, NEW c \in Conns, conn[c] = "open", NEW v,
         heap' = [heap EXCEPT ![cell[c]] = v], cell' = cell
  PROVE  /\ Sess(c)' = v
         /\ cell[c] \in Cells
         /\ \A d \in Conns \ {c} : conn[d] = "open" => Sess(d)' = Sess(d)
<1> USE DEF SInv
<1>1. cell[c] \in Cells
  BY DEF Sessions
<1>2. \A d \in Conns \ {c} : conn[d] = "open" => cell[d] # cell[c] /\ cell[d] \in Cells
  BY DEF Sessions
<1> QED
  BY <1>1, <1>2 DEF Sess, ServerTyped

\* Only the stream of c has changed.
LEMMA StreamFrame ==
  ASSUME SInv, NEW c \in Conns,
         \A d \in Conns \ {c} : /\ conn'[d] = conn[d]
                                /\ net'[d] = net[d]
                                /\ inbuf'[d] = inbuf[d]
                                /\ conn[d] = "open" => Sess(d)' = Sess(d),
         IF conn'[c] = "open"
           THEN Framed(Stream(c)') /\ Starts(Stream(c)', InMessage(c)')
           ELSE inbuf'[c] = <<>> /\ net'[c] = <<>>
  PROVE  Streaming'
<1>1. \A d \in Conns \ {c} : Stream(d)' = Stream(d) /\ (conn[d] = "open" => InMessage(d)' = InMessage(d))
  BY DEF Stream, InMessage
<1>2. ASSUME NEW d \in Conns \ {c}
      PROVE  IF conn'[d] = "open"
               THEN Framed(Stream(d)') /\ Starts(Stream(d)', InMessage(d)')
               ELSE inbuf'[d] = <<>> /\ net'[d] = <<>>
  <2>1. CASE conn[d] = "open"
    BY <1>1, <2>1 DEF SInv, Streaming
  <2>2. CASE conn[d] # "open"
    BY <2>2 DEF SInv, Streaming
  <2> QED
    BY <2>1, <2>2
<1> QED
  BY <1>2 DEF Streaming

\* The parts of a read: the buffer s with the first k pieces of the socket t,
\* the pieces left on the socket, the stream, and the bodies among the k.
Taken(s, t, k) == s \o SubSeq(t, 1, k)
Rest(t, k) == SubSeq(t, k + 1, Len(t))
Joined(s, t) == s \o t
BodiesRead(t, k) == Cardinality({i \in 1..k : t[i].part = "body"})

\* BufferFacts in these terms.
LEMMA ReadFacts ==
  ASSUME NEW s \in Seq(Piece), NEW t \in Seq(Piece), NEW k \in 1..Len(t)
  PROVE  /\ Taken(s, t, k) \in Seq(Piece)
         /\ Len(Taken(s, t, k)) = Len(s) + k
         /\ Rest(t, k) \in Seq(Piece)
         /\ Taken(s, t, k) \o Rest(t, k) = Joined(s, t)
         /\ Len(Taken(s, t, k)) <= Len(Joined(s, t))
         /\ \A i \in 1..Len(Taken(s, t, k)) : Taken(s, t, k)[i] = Joined(s, t)[i]
         /\ BodiesRead(t, k) \in Nat
         /\ Bodies(Taken(s, t, k)) = Bodies(s) + BodiesRead(t, k)
         /\ Bodies(t) = BodiesRead(t, k) + Bodies(Rest(t, k))
  BY BufferFacts DEF Taken, Rest, Joined, BodiesRead

\* What the buffer holds after k more pieces are the first pieces of the
\* stream.
LEMMA BufferedFacts ==
  ASSUME SInv, NEW c \in Conns, NEW k \in 1..Len(net[c])
  PROVE  /\ Buffered(c, k) \in Seq(Piece)
         /\ Len(Buffered(c, k)) \in Nat /\ Len(Buffered(c, k)) > 0
         /\ Stream(c) \in Seq(Piece)
         /\ Len(Buffered(c, k)) <= Len(Stream(c))
         /\ \A i \in 1..Len(Buffered(c, k)) : Buffered(c, k)[i] = Stream(c)[i]
<1>1. net[c] \in Seq(Piece) /\ inbuf[c] \in Seq(Piece)
  BY DEF SInv, ServerTyped
<1> DEFINE b == Buffered(c, k)
<1> DEFINE u == Stream(c)
<1>2. b = Taken(inbuf[c], net[c], k) /\ u = Joined(inbuf[c], net[c])
  BY DEF Buffered, Taken, Stream, Joined
<1>3. /\ b \in Seq(Piece)
      /\ Len(b) = Len(inbuf[c]) + k
      /\ Len(b) <= Len(u)
      /\ \A i \in 1..Len(b) : b[i] = u[i]
  <2> HIDE DEF b, u
  <2> QED
    BY <1>1, <1>2, ReadFacts
<1>4. Len(inbuf[c]) \in Nat
  BY <1>1, LenProperties
<1>5. Stream(c) \in Seq(Piece)
  BY <1>1, ConcatProperties DEF Stream
<1>6. Len(Buffered(c, k)) \in Nat /\ Len(Buffered(c, k)) > 0
  BY <1>3, <1>4
<1> QED
  BY <1>3, <1>5, <1>6

\* The history of the messages received on c.
Receive(c, k) ==
    got' = [got EXCEPT ![c] = @ + Cardinality({i \in 1..k : net[c][i].part = "body"})]

\* handle_request reads k pieces and consumes d of the buffer.
LEMMA ConsumeStep ==
  ASSUME SInv, ~ub, NEW c \in Conns, conn[c] = "open", NEW k \in 1..Len(net[c]),
         NEW d \in 0..Len(Buffered(c, k)), Consume(c, k, d),
         Receive(c, k)
  PROVE  /\ net' \in [Conns -> Seq(Piece)] /\ inbuf' \in [Conns -> Seq(Piece)]
         /\ got' \in [Conns -> Nat]
         /\ \A x \in Conns \ {c} : net'[x] = net[x] /\ inbuf'[x] = inbuf[x] /\ got'[x] = got[x]
         /\ Framed(Stream(c)')
         /\ d = 0 => \A x \in BOOLEAN : Starts(Stream(c), x) => Starts(Stream(c)', x)
         /\ d > 0 => Starts(Stream(c)', Stream(c)[d].part = "head")
         /\ Len(req[c]) + Bodies(inbuf'[c]) <= got'[c]
         /\ \A i \in 1..d : Stream(c)[i].part = "body" =>
              Len(req[c]) + 1 + Bodies(inbuf'[c]) <= got'[c]
         /\ got'[c] + Bodies(net'[c]) <= MaxSend
<1> DEFINE b == Buffered(c, k)
<1> DEFINE r == SubSeq(net[c], k + 1, Len(net[c]))
<1> DEFINE q == SubSeq(b, d + 1, Len(b))
<1> DEFINE n == Cardinality({i \in 1..k : net[c][i].part = "body"})
<1>1. net[c] \in Seq(Piece) /\ inbuf[c] \in Seq(Piece)
  BY DEF SInv, ServerTyped
<1>2. /\ b \in Seq(Piece)
      /\ Len(b) \in Nat
      /\ Len(b) <= Len(Stream(c))
      /\ Stream(c) \in Seq(Piece)
      /\ \A i \in 1..Len(b) : b[i] = Stream(c)[i]
  BY BufferedFacts
<1>3. /\ r \in Seq(Piece)
      /\ b \o r = Stream(c)
      /\ n \in Nat
      /\ Bodies(b) = Bodies(inbuf[c]) + n
      /\ Bodies(net[c]) = n + Bodies(r)
  <2>1. /\ b = Taken(inbuf[c], net[c], k)
        /\ r = Rest(net[c], k)
        /\ Stream(c) = Joined(inbuf[c], net[c])
        /\ n = BodiesRead(net[c], k)
    BY DEF Buffered, Taken, Rest, Stream, Joined, BodiesRead
  <2> HIDE DEF b, r, n
  <2> QED
    BY <1>1, <2>1, ReadFacts
<1>4. /\ net' = [net EXCEPT ![c] = r]
      /\ inbuf' = [inbuf EXCEPT ![c] = q]
      /\ got' = [got EXCEPT ![c] = got[c] + n]
  BY DEF Consume, Receive
<1> HIDE DEF b, r, n
<1>5. d \in Nat /\ d <= Len(b)
  BY <1>2 DEF b
<1>6. /\ q \in Seq(Piece)
      /\ q \o r \in Seq(Piece)
      /\ Len(q \o r) = Len(b \o r) - d
      /\ \A i \in 1..Len(b \o r) - d : (q \o r)[i] = (b \o r)[i + d]
      /\ Bodies(q) <= Bodies(b)
      /\ \A i \in 1..d : b[i].part = "body" => Bodies(q) + 1 <= Bodies(b)
  <2>1. d \in 0..Len(b) /\ b \in Seq(Piece) /\ r \in Seq(Piece)
    BY <1>2, <1>3, <1>5
  <2> QED
    BY <2>1, DropFacts, Zenon
<1> HIDE DEF q
<1>7. net'[c] = r /\ inbuf'[c] = q /\ got'[c] = got[c] + n /\ got[c] \in Nat
  BY <1>4 DEF SInv, ServerTyped
<1>8. Stream(c)' = q \o r
  BY <1>7 DEF Stream
<1>9. /\ net' \in [Conns -> Seq(Piece)] /\ inbuf' \in [Conns -> Seq(Piece)]
      /\ got' \in [Conns -> Nat]
      /\ \A x \in Conns \ {c} : net'[x] = net[x] /\ inbuf'[x] = inbuf[x] /\ got'[x] = got[x]
  <2>1. got[c] + n \in Nat
    BY <1>3, <1>7
  <2>2. r \in Seq(Piece) /\ q \in Seq(Piece)
    BY <1>3, <1>6
  <2> QED
    BY <1>4, <2>1, <2>2 DEF SInv, ServerTyped
<1>10. /\ Framed(q \o r)
       /\ d = 0 => \A x \in BOOLEAN : Starts(Stream(c), x) => Starts(q \o r, x)
       /\ d > 0 => Starts(q \o r, Stream(c)[d].part = "head")
  <2>1. Framed(Stream(c))
    BY DEF SInv, Streaming
  <2>2. d \in 0..Len(Stream(c))
    BY <1>2, <1>5, LenProperties
  <2>3. /\ q \o r \in Seq(Piece)
        /\ Len(q \o r) = Len(Stream(c)) - d
        /\ \A i \in 1..Len(Stream(c)) - d : (q \o r)[i] = Stream(c)[i + d]
    BY <1>3, <1>6
  <2> QED
    BY <1>2, <2>1, <2>2, <2>3, FramedDrop
<1>11. /\ Len(req[c]) + Bodies(inbuf[c]) <= got[c]
       /\ got[c] + Bodies(net[c]) <= MaxSend
       /\ Len(req[c]) \in Nat /\ Bodies(inbuf[c]) \in Nat /\ Bodies(net[c]) \in Nat
       /\ MaxSend \in Nat
  BY <1>1, BodiesFinite, LenProperties, ServerAssumption DEF SInv, Counting, ServerTyped
<1>12. Bodies(q) \in Nat /\ Bodies(r) \in Nat /\ Bodies(b) \in Nat
  BY <1>2, <1>3, <1>6, BodiesFinite
<1> DEFINE l == Len(req[c])
<1> DEFINE g == got[c]
<1> DEFINE Bi == Bodies(inbuf[c])
<1> DEFINE Bn == Bodies(net[c])
<1> DEFINE Bq == Bodies(q)
<1> DEFINE Bb == Bodies(b)
<1> DEFINE Br == Bodies(r)
<1>13. /\ l \in Nat /\ g \in Nat /\ Bi \in Nat /\ Bn \in Nat /\ Bq \in Nat /\ Bb \in Nat
       /\ Br \in Nat /\ n \in Nat /\ MaxSend \in Nat
       /\ l + Bi <= g /\ g + Bn <= MaxSend
       /\ Bb = Bi + n /\ Bn = n + Br /\ Bq <= Bb
  BY <1>3, <1>6, <1>7, <1>11, <1>12
<1>14. l + Bq <= g + n /\ g + n + Br <= MaxSend
  <2> HIDE DEF l, g, Bi, Bn, Bq, Bb, Br
  <2> QED
    BY <1>13
<1>15. ASSUME NEW i \in 1..d, Stream(c)[i].part = "body"
       PROVE  l + 1 + Bq <= g + n
  <2>1. b[i].part = "body"
    BY <1>2, <1>5, <1>15
  <2>2. Bq + 1 <= Bb
    BY <1>6, <2>1
  <2> HIDE DEF l, g, Bi, Bn, Bq, Bb, Br
  <2> QED
    BY <1>13, <2>2
<1> QED
  BY <1>7, <1>8, <1>9, <1>10, <1>14, <1>15

-----------------------------------------------------------------------------
\* Only the counts of c have changed.
LEMMA CountFrame ==
  ASSUME SInv, ~ub, NEW c \in Conns,
         \A d \in Conns \ {c} : /\ net'[d] = net[d] /\ inbuf'[d] = inbuf[d]
                                /\ got'[d] = got[d] /\ req'[d] = req[d],
         Len(req'[c]) + Bodies(inbuf'[c]) <= got'[c],
         got'[c] + Bodies(net'[c]) <= MaxSend
  PROVE  Counting'
<1>1. ASSUME NEW d \in Conns \ {c}
      PROVE  /\ Len(req'[d]) + Bodies(inbuf'[d]) <= got'[d]
             /\ got'[d] + Bodies(net'[d]) <= MaxSend
  BY DEF SInv, Counting
<1>2. \A d \in Conns : /\ Len(req'[d]) + Bodies(inbuf'[d]) <= got'[d]
                       /\ got'[d] + Bodies(net'[d]) <= MaxSend
  BY <1>1
<1> QED
  BY <1>2 DEF Counting

\* The session of c is replaced by another one of c.
LEMMA SessionKept ==
  ASSUME SInv, NEW c \in Conns, conn[c] = "open", cell[c] \in Cells,
         NEW v \in Session, v.bev = c,
         heap' = [heap EXCEPT ![cell[c]] = v], UNCHANGED <<conn, cell>>,
         \A d \in Conns : conn[d] = "new" => req'[d] = req[d] /\ out'[d] = out[d]
  PROVE  Sessions'
<1>1. v # Free
  BY DEF Session, Free
<1>2. ASSUME NEW d \in Conns, conn[d] = "open"
      PROVE  cell[d] \in Cells /\ heap'[cell[d]] # Free /\ heap'[cell[d]].bev = d
  <2>1. CASE d = c
    BY <1>1, <2>1 DEF SInv, ServerTyped
  <2>2. CASE d # c
    <3>1. cell[d] # cell[c] /\ cell[d] \in Cells
      BY <1>2, <2>2, SessionOwner DEF SInv, Sessions
    <3> QED
      BY <1>2, <3>1 DEF SInv, Sessions, ServerTyped
  <2> QED
    BY <2>1, <2>2
<1> QED
  BY <1>2 DEF SInv, Sessions

\* The input that arrives while a response is due stays in the buffer.
LEMMA IgnoreKeeps ==
  ASSUME SInv, ~ub, NEW c \in Conns, conn[c] = "open", NEW k \in 1..Len(net[c]),
         Receive(c, k), IgnoreInput(c, k)
  PROVE  SInv'
<1> USE DEF SInv
<1>1. /\ Consume(c, k, 0)
      /\ UNCHANGED <<conn, cell, heap, phase, args, responses, ub, pending,
                     running, refused, req, out>>
  BY DEF IgnoreInput, poolVars
<1>2. 0 \in 0..Len(Buffered(c, k))
  BY BufferedFacts
<1>3. /\ net' \in [Conns -> Seq(Piece)] /\ inbuf' \in [Conns -> Seq(Piece)]
      /\ got' \in [Conns -> Nat]
      /\ \A x \in Conns \ {c} : net'[x] = net[x] /\ inbuf'[x] = inbuf[x] /\ got'[x] = got[x]
      /\ Framed(Stream(c)')
      /\ \A x \in BOOLEAN : Starts(Stream(c), x) => Starts(Stream(c)', x)
      /\ Len(req[c]) + Bodies(inbuf'[c]) <= got'[c]
      /\ got'[c] + Bodies(net'[c]) <= MaxSend
  BY <1>1, <1>2, ConsumeStep
<1>4. ServerTyped'
  BY <1>1, <1>3 DEF ServerTyped
<1>5. \A d \in Conns : Sess(d)' = Sess(d) /\ InMessage(d)' = InMessage(d)
  BY <1>1 DEF Sess, InMessage
<1>6. Streaming'
  <2>1. Starts(Stream(c)', InMessage(c)')
    <3>1. Starts(Stream(c), InMessage(c)) /\ InMessage(c) \in BOOLEAN
      BY DEF Streaming, InMessage
    <3> QED
      BY <1>3, <1>5, <3>1
  <2> QED
    BY <1>1, <1>3, <1>5, <2>1, StreamFrame
<1>7. Counting'
  <2>1. Len(req'[c]) + Bodies(inbuf'[c]) <= got'[c]
    BY <1>1, <1>3
  <2> QED
    BY <1>1, <1>3, <2>1, CountFrame
<1>8. Sessions' /\ InFlight' = InFlight /\ OnePlace'
  BY <1>1, PipelineFrame DEF Sessions
<1>9. LastRequest' /\ Waiting'
  BY <1>1, <1>8 DEF LastRequest, Waiting, Sess
<1>10. ResponsesMatch' /\ UndefinedOnlyByParse'
  BY <1>1 DEF ResponsesMatch, UndefinedOnlyByParse
<1> QED
  BY <1>4, <1>6, <1>7, <1>8, <1>9, <1>10

\* A header without its body: the session expects the body next.
LEMMA ReadHeaderKeeps ==
  ASSUME SInv, ~ub, NEW c \in Conns, conn[c] = "open", NEW k \in 1..Len(net[c]),
         Receive(c, k), ReadHeader(c, k)
  PROVE  SInv'
<1> USE DEF SInv
<1> DEFINE v == [Sess(c) EXCEPT !.rstat = "message"]
<1>1. /\ Consume(c, k, 1)
      /\ Sess(c).stat = "request"
      /\ Buffered(c, k)[1].part = "head"
      /\ heap' = [heap EXCEPT ![cell[c]] = v]
      /\ UNCHANGED <<conn, cell, phase, args, responses, ub, pending,
                     running, refused, req, out>>
  BY DEF ReadHeader, HeaderNext, GoodHeader, poolVars, Sess
<1>2. 1 \in 0..Len(Buffered(c, k)) /\ Stream(c)[1].part = "head"
  BY <1>1, BufferedFacts
<1>3. /\ net' \in [Conns -> Seq(Piece)] /\ inbuf' \in [Conns -> Seq(Piece)]
      /\ got' \in [Conns -> Nat]
      /\ \A x \in Conns \ {c} : net'[x] = net[x] /\ inbuf'[x] = inbuf[x] /\ got'[x] = got[x]
      /\ Framed(Stream(c)')
      /\ Starts(Stream(c)', TRUE)
      /\ Len(req[c]) + Bodies(inbuf'[c]) <= got'[c]
      /\ got'[c] + Bodies(net'[c]) <= MaxSend
  <2>1. /\ net' \in [Conns -> Seq(Piece)] /\ inbuf' \in [Conns -> Seq(Piece)]
        /\ got' \in [Conns -> Nat]
        /\ \A x \in Conns \ {c} : net'[x] = net[x] /\ inbuf'[x] = inbuf[x] /\ got'[x] = got[x]
        /\ Framed(Stream(c)')
        /\ 1 > 0 => Starts(Stream(c)', Stream(c)[1].part = "head")
        /\ Len(req[c]) + Bodies(inbuf'[c]) <= got'[c]
        /\ got'[c] + Bodies(net'[c]) <= MaxSend
    BY <1>1, <1>2, ConsumeStep
  <2>2. (Stream(c)[1].part = "head") = TRUE
    BY <1>2
  <2>3. Starts(Stream(c)', Stream(c)[1].part = "head")
    BY <2>1
  <2>4. Starts(Stream(c)', TRUE)
    BY <1>2, <2>3 DEF Starts
  <2> QED
    BY <2>1, <2>4
<1>4. /\ Sess(c) \in Session /\ Sess(c).bev = c
      /\ v \in Session /\ v.bev = c /\ v.stat = "request" /\ v.rstat = "message"
  <2>1. Sess(c) \in Session /\ Sess(c).bev = c
    BY DEF Sess, Sessions, ServerTyped
  <2> QED
    BY <1>1, <2>1 DEF Session
<1> HIDE DEF v
<1>5. /\ Sess(c)' = v /\ cell[c] \in Cells
      /\ \A d \in Conns \ {c} : conn[d] = "open" => Sess(d)' = Sess(d)
  BY <1>1, OwnSession
<1>6. ServerTyped'
  BY <1>1, <1>3, <1>4, <1>5 DEF ServerTyped
<1>7. InMessage(c)' = TRUE
  BY <1>4, <1>5 DEF InMessage
<1>8. Streaming'
  BY <1>1, <1>3, <1>5, <1>7, StreamFrame
<1>9. Counting'
  <2>1. Len(req'[c]) + Bodies(inbuf'[c]) <= got'[c]
    BY <1>1, <1>3
  <2> QED
    BY <1>1, <1>3, <2>1, CountFrame
<1>10. Sessions'
  BY <1>1, <1>4, <1>5, SessionKept
<1>11. InFlight' = InFlight /\ OnePlace'
  BY <1>1, PipelineFrame
<1>12. \A d \in Conns : conn[d] = "open" => Sess(d)'.stat = Sess(d).stat
  BY <1>1, <1>4, <1>5
<1>13. LastRequest' /\ Waiting'
  <2>1. \A e \in InFlight : e[1] \in Conns
    BY InFlightType
  <2> QED
    BY <1>1, <1>11, <1>12, <2>1 DEF LastRequest, Waiting
<1>14. ResponsesMatch' /\ UndefinedOnlyByParse'
  BY <1>1 DEF ResponsesMatch, UndefinedOnlyByParse
<1> QED
  BY <1>6, <1>8, <1>9, <1>10, <1>11, <1>13, <1>14

\* parseEvent is undefined on a payload that protobuf rejects.
LEMMA ParseUndefinedKeeps ==
  ASSUME SInv, ~ub, NEW c \in Conns, conn[c] = "open", phase = "events",
         NEW k \in 1..Len(net[c]), Receive(c, k), ParseUndefined(c, k)
  PROVE  SInv'
<1> USE DEF SInv
<1>1. /\ ub' = TRUE
      /\ Sess(c).stat = "request"
      /\ Buffered(c, k)[1].msg = "garbled"
      /\ UNCHANGED <<conn, cell, heap, net, inbuf, phase, args, responses,
                     pending, running, refused, req, out>>
  BY DEF ParseUndefined, Complete, netVars, poolVars
<1>2. Stream(c) # <<>> /\ Head(Stream(c)).msg = "garbled"
  <2>1. Stream(c) \in Seq(Piece) /\ Len(Stream(c)) > 0 /\ Stream(c)[1].msg = "garbled"
    BY <1>1, BufferedFacts
  <2> QED
    BY <2>1
<1>3. got' \in [Conns -> Nat]
  <2>1. BodiesRead(net[c], k) \in Nat
    BY ReadFacts DEF ServerTyped
  <2>2. got' = [got EXCEPT ![c] = got[c] + BodiesRead(net[c], k)]
    BY DEF Receive, BodiesRead
  <2> QED
    BY <2>1, <2>2 DEF ServerTyped
<1>4. ServerTyped' /\ Counting'
  BY <1>1, <1>3 DEF ServerTyped, Counting
<1>5. Streaming' /\ Sessions' /\ InFlight' = InFlight /\ OnePlace'
  BY <1>1, PipelineFrame DEF Streaming, Stream, InMessage, Sess, Sessions
<1>6. LastRequest' /\ Waiting'
  BY <1>1, <1>5 DEF LastRequest, Waiting, Sess
<1>7. ResponsesMatch'
  BY <1>1 DEF ResponsesMatch
<1>8. UndefinedOnlyByParse'
  BY <1>1, <1>2 DEF UndefinedOnlyByParse, Stream, Sess
<1> QED
  BY <1>4, <1>5, <1>6, <1>7, <1>8

-----------------------------------------------------------------------------
\* The messages read are messages that were on the socket.
LEMMA ReceiveFacts ==
  ASSUME SInv, ~ub, NEW c \in Conns, NEW k \in 1..Len(net[c]), Receive(c, k)
  PROVE  /\ got' \in [Conns -> Nat]
         /\ \A d \in Conns \ {c} : got'[d] = got[d]
         /\ Len(req[c]) <= got'[c] /\ got'[c] <= MaxSend
<1> DEFINE n == BodiesRead(net[c], k)
<1> DEFINE r == Rest(net[c], k)
<1>1. net[c] \in Seq(Piece) /\ inbuf[c] \in Seq(Piece) /\ req[c] \in Seq(Parsed)
  BY DEF SInv, ServerTyped
<1>2. n \in Nat /\ r \in Seq(Piece) /\ Bodies(net[c]) = n + Bodies(r)
  <2>1. inbuf[c] \in Seq(Piece) /\ net[c] \in Seq(Piece)
    BY <1>1
  <2> QED
    BY <2>1, ReadFacts
<1>3. got' = [got EXCEPT ![c] = got[c] + n]
  BY DEF Receive, BodiesRead
<1> HIDE DEF n, r
<1> DEFINE g == got[c]
<1> DEFINE l == Len(req[c])
<1> DEFINE Bi == Bodies(inbuf[c])
<1> DEFINE Bn == Bodies(net[c])
<1> DEFINE Br == Bodies(r)
<1>4. /\ l \in Nat /\ g \in Nat /\ Bi \in Nat /\ Bn \in Nat /\ Br \in Nat /\ MaxSend \in Nat
      /\ l + Bi <= g /\ g + Bn <= MaxSend /\ Bn = n + Br
  <2>1. Bi \in Nat /\ Bn \in Nat /\ Br \in Nat
    BY <1>1, <1>2, BodiesFinite
  <2>2. l \in Nat /\ g \in Nat /\ MaxSend \in Nat
    BY <1>1, LenProperties, ServerAssumption DEF SInv, ServerTyped
  <2> QED
    BY <1>2, <2>1, <2>2 DEF SInv, Counting
<1>5. got'[c] = g + n /\ got[c] + n \in Nat
  BY <1>2, <1>3, <1>4 DEF SInv, ServerTyped
<1>6. got' \in [Conns -> Nat] /\ \A d \in Conns \ {c} : got'[d] = got[d]
  BY <1>3, <1>5 DEF SInv, ServerTyped
<1>7. l <= g + n /\ g + n <= MaxSend
  <2> HIDE DEF l, g, Bi, Bn, Br
  <2> QED
    BY <1>2, <1>4
<1> QED
  BY <1>5, <1>6, <1>7

\* A connection is closed only while no event holds its session.
LEMMA CloseKeeps ==
  ASSUME SInv, ~ub, NEW c \in Conns, conn[c] = "open", CloseSession(c),
         \A e \in InFlight : e[1] # c,
         got' \in [Conns -> Nat], \A d \in Conns \ {c} : got'[d] = got[d],
         Len(req[c]) <= got'[c], got'[c] <= MaxSend
  PROVE  SInv'
<1> USE DEF SInv
<1>1. /\ conn' = [conn EXCEPT ![c] = "closed"]
      /\ heap' = [heap EXCEPT ![cell[c]] = Free]
      /\ net' = [net EXCEPT ![c] = <<>>]
      /\ inbuf' = [inbuf EXCEPT ![c] = <<>>]
      /\ UNCHANGED <<cell, phase, args, responses, ub, pending, running, refused, req, out>>
  BY DEF CloseSession, poolVars
<1>2. ServerTyped'
  <2>1. cell[c] \in Cells /\ <<>> \in Seq(Piece)
    BY DEF Sessions
  <2>2. conn' \in [Conns -> {"new", "open", "closed"}] /\ heap' \in [Cells -> Session \cup {Free}]
    BY <1>1, <2>1 DEF ServerTyped
  <2>3. net' \in [Conns -> Seq(Piece)] /\ inbuf' \in [Conns -> Seq(Piece)]
    BY <1>1, <2>1 DEF ServerTyped
  <2> QED
    BY <1>1, <2>2, <2>3 DEF ServerTyped
<1>3. \A d \in Conns \ {c} : conn[d] = "open" => Sess(d)' = Sess(d)
  BY <1>1, OwnSession
<1>4. /\ conn'[c] = "closed" /\ net'[c] = <<>> /\ inbuf'[c] = <<>>
      /\ \A d \in Conns \ {c} : conn'[d] = conn[d] /\ net'[d] = net[d] /\ inbuf'[d] = inbuf[d]
  BY <1>1 DEF ServerTyped
<1>5. Streaming'
  BY <1>3, <1>4, StreamFrame
<1>6. Counting'
  <2>1. Bodies(<<>>) = 0
    <3>1. {i \in 1..Len(<<>>) : <<>>[i].part = "body"} = {}
      OBVIOUS
    <3> QED
      BY <3>1, FS_EmptySet DEF Bodies
  <2>2. Len(req[c]) \in Nat /\ got'[c] \in Nat /\ MaxSend \in Nat
    BY LenProperties, ServerAssumption DEF ServerTyped
  <2>3. /\ Len(req'[c]) + Bodies(inbuf'[c]) <= got'[c]
        /\ got'[c] + Bodies(net'[c]) <= MaxSend
    BY <1>1, <1>4, <2>1, <2>2
  <2> QED
    BY <1>1, <1>4, <2>3, CountFrame
<1>7. Sessions'
  <2>1. ASSUME NEW d \in Conns, conn'[d] = "open"
        PROVE  cell'[d] \in Cells /\ heap'[cell'[d]] # Free /\ heap'[cell'[d]].bev = d
    <3>1. d # c /\ conn[d] = "open" /\ Sess(d)' = Sess(d)
      BY <1>3, <1>4, <2>1
    <3> QED
      BY <1>1, <3>1 DEF Sessions, Sess
  <2>2. ASSUME NEW d \in Conns, conn'[d] = "new"
        PROVE  req'[d] = <<>> /\ out'[d] = <<>>
    BY <1>1, <1>4, <2>2 DEF Sessions
  <2> QED
    BY <2>1, <2>2 DEF Sessions
<1>8. InFlight' = InFlight /\ OnePlace'
  BY <1>1, PipelineFrame
<1>9. LastRequest'
  <2> SUFFICES ASSUME NEW e \in InFlight
               PROVE  /\ conn'[e[1]] = "open"
                      /\ args'[e] = cell'[e[1]]
                      /\ Sess(e[1])'.stat = "response"
                      /\ e[2] = Len(req'[e[1]])
    BY <1>8 DEF LastRequest
  <2>1. e[1] \in Conns \ {c} /\ conn[e[1]] = "open"
    BY InFlightType DEF LastRequest
  <2> QED
    BY <1>1, <1>3, <1>4, <2>1 DEF LastRequest
<1>10. Waiting'
  <2>1. \A d \in Conns : conn'[d] = "open" => d # c /\ conn[d] = "open" /\ Sess(d)' = Sess(d)
    BY <1>3, <1>4
  <2> QED
    BY <1>1, <1>8, <2>1 DEF Waiting
<1>11. ResponsesMatch' /\ UndefinedOnlyByParse'
  BY <1>1 DEF ResponsesMatch, UndefinedOnlyByParse
<1> QED
  BY <1>2, <1>5, <1>6, <1>7, <1>8, <1>9, <1>10, <1>11

\* handle_request closes a connection whose session waits for nothing.
LEMMA RejectKeeps ==
  ASSUME SInv, ~ub, NEW c \in Conns, conn[c] = "open", NEW k \in 1..Len(net[c]),
         Receive(c, k), BadHeader(c, k) \/ RejectMessage(c, k)
  PROVE  SInv'
<1>1. Sess(c).stat = "request" /\ CloseSession(c)
  BY DEF BadHeader, RejectMessage, HeaderNext, Complete
<1>2. \A e \in InFlight : e[1] # c
  BY <1>1 DEF SInv, LastRequest
<1>3. /\ got' \in [Conns -> Nat]
      /\ \A d \in Conns \ {c} : got'[d] = got[d]
      /\ Len(req[c]) <= got'[c] /\ got'[c] <= MaxSend
  BY ReceiveFacts
<1> QED
  BY <1>1, <1>2, <1>3, CloseKeeps

\* handle_error, when it does not run while an event holds the session.
LEMMA ErrorKeeps ==
  ASSUME SInv, ~ub, NEW c \in Conns, HandleError(c)
  PROVE  SInv'
<1>1. /\ conn[c] = "open" /\ CloseSession(c) /\ got' = got
      /\ \A e \in InFlight : e[1] # c
  BY DEF HandleError, SInv
<1>2. /\ got' \in [Conns -> Nat]
      /\ \A d \in Conns \ {c} : got'[d] = got[d]
  BY <1>1 DEF SInv, ServerTyped
<1>3. Len(req[c]) <= got'[c] /\ got'[c] <= MaxSend
  <2>1. net[c] \in Seq(Piece) /\ inbuf[c] \in Seq(Piece) /\ req[c] \in Seq(Parsed)
    BY DEF SInv, ServerTyped
  <2> DEFINE g == got[c]
  <2> DEFINE l == Len(req[c])
  <2> DEFINE Bi == Bodies(inbuf[c])
  <2> DEFINE Bn == Bodies(net[c])
  <2>2. l \in Nat /\ g \in Nat /\ MaxSend \in Nat
    BY <2>1, LenProperties, ServerAssumption DEF SInv, ServerTyped
  <2>3. Bi \in Nat /\ Bn \in Nat
    BY <2>1, BodiesFinite
  <2>4. l + Bi <= g /\ g + Bn <= MaxSend
    BY DEF SInv, Counting
  <2>5. l <= g /\ g <= MaxSend
    <3> HIDE DEF l, g, Bi, Bn
    <3> QED
      BY <2>2, <2>3, <2>4
  <2> QED
    BY <1>1, <2>5
<1> QED
  BY <1>1, <1>2, <1>3, CloseKeeps

-----------------------------------------------------------------------------
\* The members of a queue.
In(q, x) == \E i \in DOMAIN q : q[i] = x

\* No member is in a queue twice.
Distinct(q) == \A i, j \in DOMAIN q : q[i] = q[j] => i = j

\* Putting x at the end of a queue.
LEMMA AppendQueue ==
  ASSUME NEW S, NEW q \in Seq(S), NEW x \in S
  PROVE  /\ Append(q, x) \in Seq(S)
         /\ \A y : In(Append(q, x), y) <=> In(q, y) \/ y = x
         /\ Distinct(q) /\ ~In(q, x) => Distinct(Append(q, x))
<1> DEFINE a == Append(q, x)
<1>1. /\ a \in Seq(S) /\ Len(q) \in Nat /\ DOMAIN q = 1..Len(q)
      /\ Len(a) = Len(q) + 1 /\ DOMAIN a = 1..Len(q) + 1
      /\ \A i \in 1..Len(q) : a[i] = q[i]
      /\ a[Len(q) + 1] = x
  BY AppendProperties, LenProperties
<1> HIDE DEF a
<1>2. \A y : In(a, y) <=> In(q, y) \/ y = x
  BY <1>1 DEF In
<1>3. Distinct(q) /\ ~In(q, x) => Distinct(a)
  BY <1>1 DEF Distinct, In
<1> QED
  BY <1>1, <1>2, <1>3 DEF a

\* Taking the first member off a queue.
LEMMA TailQueue ==
  ASSUME NEW S, NEW q \in Seq(S), q # <<>>, Distinct(q)
  PROVE  /\ Tail(q) \in Seq(S) /\ Head(q) \in S /\ In(q, Head(q))
         /\ \A y : In(Tail(q), y) <=> In(q, y) /\ y # Head(q)
         /\ Distinct(Tail(q))
<1> DEFINE a == Tail(q)
<1> DEFINE h == Head(q)
<1>1. /\ a \in Seq(S) /\ h \in S /\ h = q[1]
      /\ Len(q) \in Nat /\ Len(q) > 0 /\ DOMAIN q = 1..Len(q)
      /\ Len(a) = Len(q) - 1 /\ DOMAIN a = 1..Len(q) - 1
      /\ \A i \in 1..Len(q) - 1 : a[i] = q[i + 1]
  BY HeadTailProperties, LenProperties
<1> HIDE DEF a, h
<1>2. In(q, h)
  BY <1>1 DEF In
<1>3. ASSUME NEW y, In(a, y) PROVE In(q, y) /\ y # h
  <2>1. PICK i \in 1..Len(q) - 1 : a[i] = y
    BY <1>1, <1>3 DEF In
  <2>2. q[i + 1] = y /\ i + 1 \in DOMAIN q /\ i + 1 # 1 /\ 1 \in DOMAIN q
    BY <1>1, <2>1
  <2> QED
    BY <1>1, <2>2 DEF In, Distinct
<1>4. ASSUME NEW y, In(q, y), y # h PROVE In(a, y)
  <2>1. PICK i \in 1..Len(q) : q[i] = y
    BY <1>1, <1>4 DEF In
  <2>2. i - 1 \in 1..Len(q) - 1 /\ a[i - 1] = q[i]
    <3>1. i # 1
      BY <1>1, <1>4, <2>1
    <3>2. i - 1 \in 1..Len(q) - 1 /\ (i - 1) + 1 = i
      BY <1>1, <3>1
    <3> QED
      BY <1>1, <3>2
  <2> QED
    BY <1>1, <2>1, <2>2 DEF In
<1>5. Distinct(a)
  <2> SUFFICES ASSUME NEW i \in DOMAIN a, NEW j \in DOMAIN a, a[i] = a[j] PROVE i = j
    BY DEF Distinct
  <2>1. i \in 1..Len(q) - 1 /\ j \in 1..Len(q) - 1
    BY <1>1
  <2>2. i + 1 \in DOMAIN q /\ j + 1 \in DOMAIN q /\ q[i + 1] = q[j + 1]
    BY <1>1, <2>1
  <2>3. i + 1 = j + 1
    BY <2>2 DEF Distinct
  <2> QED
    BY <2>1, <2>3
<1> QED
  BY <1>1, <1>2, <1>3, <1>4, <1>5 DEF a, h

\* The pipeline in these terms.
LEMMA Pipeline ==
  /\ \A e : e \in InFlight <=> e \in Events /\ (In(pending, e) \/ e \in running \/ In(responses, e))
  /\ OnePlace <=>
       /\ Distinct(pending) /\ Distinct(responses)
       /\ \A x : In(pending, x) => x \notin running /\ ~In(responses, x)
       /\ \A x : In(responses, x) => x \notin running
  BY DEF InFlight, OnePlace, In, Distinct

\* The same of the next state.
LEMMA PipelineNext ==
  /\ \A e : e \in InFlight' <=> e \in Events /\ (In(pending', e) \/ e \in running' \/ In(responses', e))
  /\ OnePlace' <=>
       /\ Distinct(pending') /\ Distinct(responses')
       /\ \A x : In(pending', x) => x \notin running' /\ ~In(responses', x)
       /\ \A x : In(responses', x) => x \notin running'
  BY DEF InFlight, OnePlace, In, Distinct

\* enqueue: the event is pending, or refused.
LEMMA EnqueueStep ==
  ASSUME SInv, NEW e \in Events, e \notin InFlight, responses' = responses,
         Pool!Accept(e) \/ Pool!Refuse(e)
  PROVE  /\ pending' \in Seq(Events) /\ running' \in SUBSET Events
         /\ refused' \in SUBSET Events
         /\ OnePlace'
         /\ e \in InFlight' \cup refused'
         /\ InFlight' \subseteq InFlight \cup {e}
         /\ InFlight \cup refused \subseteq InFlight' \cup refused'
<1>1. pending \in Seq(Events) /\ running \in SUBSET Events /\ refused \in SUBSET Events
      /\ running' = running
  BY DEF SInv, ServerTyped, Pool!Accept, Pool!Refuse
<1>2. CASE Pool!Accept(e)
  <2>1. pending' = Append(pending, e) /\ refused' = refused
    BY <1>2 DEF Pool!Accept
  <2>2. ~In(pending, e) /\ e \notin running /\ ~In(responses, e)
    BY Pipeline
  <2>3. /\ Distinct(pending) /\ Distinct(responses)
        /\ \A x : In(pending, x) => x \notin running /\ ~In(responses, x)
        /\ \A x : In(responses, x) => x \notin running
    BY Pipeline DEF SInv
  <2>4. /\ pending' \in Seq(Events)
        /\ \A y : In(pending', y) <=> In(pending, y) \/ y = e
        /\ Distinct(pending')
    BY <1>1, <2>1, <2>2, <2>3, AppendQueue
  <2>5. OnePlace'
    BY <1>1, <2>2, <2>3, <2>4, PipelineNext
  <2>6. \A x : x \in InFlight' <=> x \in InFlight \/ x = e
    BY <1>1, <2>4, Pipeline, PipelineNext
  <2> QED
    BY <1>1, <2>1, <2>4, <2>5, <2>6
<1>3. CASE Pool!Refuse(e)
  <2>1. pending' = pending /\ refused' = refused \cup {e}
    BY <1>3 DEF Pool!Refuse
  <2>2. InFlight' = InFlight /\ OnePlace'
    BY <1>1, <2>1, PipelineFrame DEF SInv
  <2> QED
    BY <1>1, <2>1, <2>2
<1> QED
  BY <1>2, <1>3

\* StartSvc: a worker takes the oldest event.
LEMMA StartStep ==
  ASSUME SInv, Pool!Start, responses' = responses
  PROVE  /\ pending' \in Seq(Events) /\ running' \in SUBSET Events
         /\ refused' = refused /\ OnePlace' /\ InFlight' = InFlight
<1>1. /\ pending # <<>> /\ pending' = Tail(pending)
      /\ running' = running \cup {Head(pending)} /\ refused' = refused
  BY DEF Pool!Start
<1>2. pending \in Seq(Events) /\ running \in SUBSET Events
  BY DEF SInv, ServerTyped
<1>3. /\ Distinct(pending) /\ Distinct(responses)
      /\ \A x : In(pending, x) => x \notin running /\ ~In(responses, x)
      /\ \A x : In(responses, x) => x \notin running
  BY Pipeline DEF SInv
<1>4. /\ pending' \in Seq(Events) /\ Head(pending) \in Events /\ In(pending, Head(pending))
      /\ \A y : In(pending', y) <=> In(pending, y) /\ y # Head(pending)
      /\ Distinct(pending')
  BY <1>1, <1>2, <1>3, TailQueue
<1> DEFINE h == Head(pending)
<1> HIDE DEF h
<1>5. /\ running' = running \cup {h} /\ h \in Events /\ In(pending, h)
      /\ \A y : In(pending', y) <=> In(pending, y) /\ y # h
  BY <1>1, <1>4 DEF h
<1>6. OnePlace'
  BY <1>3, <1>4, <1>5, PipelineNext
<1>7. \A x : x \in InFlight' <=> x \in InFlight
  BY <1>5, Pipeline, PipelineNext
<1> QED
  BY <1>1, <1>2, <1>4, <1>5, <1>6, <1>7

\* svc: the event becomes its response.
LEMMA SvcStep ==
  ASSUME SInv, NEW e \in Events, Pool!Finish(e), responses' = Append(responses, e)
  PROVE  /\ pending' = pending /\ running' \in SUBSET Events
         /\ refused' = refused /\ OnePlace' /\ InFlight' = InFlight
         /\ responses' \in Seq(Events)
<1>1. e \in running /\ running' = running \ {e} /\ pending' = pending /\ refused' = refused
  BY DEF Pool!Finish
<1>2. responses \in Seq(Events) /\ running \in SUBSET Events
  BY DEF SInv, ServerTyped
<1>3. /\ Distinct(pending) /\ Distinct(responses)
      /\ \A x : In(pending, x) => x \notin running /\ ~In(responses, x)
      /\ \A x : In(responses, x) => x \notin running
  BY Pipeline DEF SInv
<1>4. /\ responses' \in Seq(Events)
      /\ \A y : In(responses', y) <=> In(responses, y) \/ y = e
      /\ Distinct(responses')
  <2>1. ~In(responses, e)
    BY <1>1, <1>3
  <2> QED
    BY <1>2, <1>3, <2>1, AppendQueue
<1>5. OnePlace'
  BY <1>1, <1>3, <1>4, PipelineNext
<1>6. \A x : x \in InFlight' <=> x \in InFlight
  BY <1>1, <1>4, Pipeline, PipelineNext
<1> QED
  BY <1>1, <1>2, <1>4, <1>5, <1>6

\* The first response leaves the pipeline.
LEMMA PopStep ==
  ASSUME SInv, responses # <<>>, responses' = Tail(responses),
         UNCHANGED <<pending, running>>
  PROVE  /\ responses' \in Seq(Events) /\ Head(responses) \in InFlight
         /\ OnePlace' /\ InFlight' = InFlight \ {Head(responses)}
<1>1. responses \in Seq(Events)
  BY DEF SInv, ServerTyped
<1>2. /\ Distinct(pending) /\ Distinct(responses)
      /\ \A x : In(pending, x) => x \notin running /\ ~In(responses, x)
      /\ \A x : In(responses, x) => x \notin running
  BY Pipeline DEF SInv
<1> DEFINE h == Head(responses)
<1>3. /\ responses' \in Seq(Events) /\ h \in Events /\ In(responses, h)
      /\ \A y : In(responses', y) <=> In(responses, y) /\ y # h
      /\ Distinct(responses')
  BY <1>1, <1>2, TailQueue
<1> HIDE DEF h
<1>4. OnePlace'
  BY <1>2, <1>3, PipelineNext
<1>5. \A x : x \in InFlight' <=> x \in InFlight /\ x # h
  BY <1>2, <1>3, Pipeline, PipelineNext
<1>6. h \in InFlight
  BY <1>3, Pipeline
<1> QED
  BY <1>3, <1>4, <1>5, <1>6 DEF h

-----------------------------------------------------------------------------
\* A complete request: its body is where handle_request looks for it.
LEMMA BodyFound ==
  ASSUME SInv, NEW c \in Conns, conn[c] = "open", NEW k \in 1..Len(net[c]), Complete(c, k)
  PROVE  /\ BodyAt(c) \in 0..Len(Buffered(c, k)) /\ BodyAt(c) > 0
         /\ Stream(c)[BodyAt(c)].part = "body"
<1>1. /\ Sess(c).stat = "request" /\ Len(Buffered(c, k)) >= BodyAt(c)
  BY DEF Complete
<1>2. /\ Len(Buffered(c, k)) \in Nat /\ Len(Buffered(c, k)) > 0
      /\ Stream(c) \in Seq(Piece)
      /\ Len(Buffered(c, k)) <= Len(Stream(c))
  BY BufferedFacts
<1>3. Framed(Stream(c)) /\ Starts(Stream(c), InMessage(c)) /\ Len(Stream(c)) \in Nat
  BY <1>2, LenProperties DEF SInv, Streaming
<1>4. Sess(c).rstat \in {"header", "message"}
  <2>1. Sess(c) \in Session
    BY DEF SInv, Sessions, ServerTyped, Sess
  <2> QED
    BY <2>1 DEF Session
<1>5. CASE Sess(c).rstat = "header"
  <2>1. BodyAt(c) = 2 /\ InMessage(c) = FALSE
    BY <1>5 DEF BodyAt, InMessage
  <2>2. 1 \in 1..Len(Stream(c)) /\ 2 \in 1..Len(Stream(c)) /\ Len(Stream(c)) > 0
    BY <1>1, <1>2, <1>3, <2>1
  <2>3. Stream(c)[1].part = "head"
    BY <1>3, <2>1, <2>2 DEF Starts
  <2>4. Stream(c)[1].part # Stream(c)[2].part
    BY <1>3, <2>2 DEF Framed
  <2>5. Stream(c)[2].part \in {"head", "body"}
    BY <1>2, <2>2, PieceFacts
  <2> QED
    BY <1>1, <1>2, <2>1, <2>3, <2>4, <2>5
<1>6. CASE Sess(c).rstat = "message"
  <2>1. BodyAt(c) = 1 /\ InMessage(c) = TRUE
    BY <1>1, <1>6 DEF BodyAt, InMessage
  <2>2. Stream(c)[1].part = "body"
    BY <1>3, <2>1 DEF Starts
  <2> QED
    BY <1>1, <1>2, <2>1, <2>2
<1> QED
  BY <1>4, <1>5, <1>6

\* A request becomes an event: the session waits for its response.
LEMMA DispatchKeeps ==
  ASSUME SInv, ~ub, NEW c \in Conns, conn[c] = "open", NEW k \in 1..Len(net[c]),
         Receive(c, k), DispatchEvent(c, k)
  PROVE  SInv'
<1> USE DEF SInv
<1> DEFINE v == [Sess(c) EXCEPT !.stat = "response", !.rstat = "message"]
<1> DEFINE m == Buffered(c, k)[1].msg
<1> DEFINE e == <<c, Len(req[c]) + 1>>
<1> DEFINE d == BodyAt(c)
<1>1. /\ Complete(c, k) /\ Consume(c, k, d) /\ m \in Parsed
      /\ args' = [args EXCEPT ![e] = cell[c]]
      /\ req' = [req EXCEPT ![c] = Append(req[c], m)]
      /\ Pool!Accept(e) \/ Pool!Refuse(e)
      /\ UNCHANGED <<conn, cell, phase, responses, ub, out>>
  BY DEF DispatchEvent
<1>2. heap' = [heap EXCEPT ![cell[c]] = v]
  <2>1. cell[c] \in Cells
    BY DEF Sessions
  <2> QED
    BY <2>1 DEF DispatchEvent, Sess, ServerTyped
<1>3. Sess(c).stat = "request"
  BY <1>1 DEF Complete
<1>4. d \in 0..Len(Buffered(c, k)) /\ d > 0 /\ Stream(c)[d].part = "body"
  BY <1>1, BodyFound
<1> HIDE DEF d
<1>5. /\ net' \in [Conns -> Seq(Piece)] /\ inbuf' \in [Conns -> Seq(Piece)]
      /\ got' \in [Conns -> Nat]
      /\ \A x \in Conns \ {c} : net'[x] = net[x] /\ inbuf'[x] = inbuf[x] /\ got'[x] = got[x]
      /\ Framed(Stream(c)')
      /\ Starts(Stream(c)', FALSE)
      /\ Len(req[c]) + 1 + Bodies(inbuf'[c]) <= got'[c]
      /\ got'[c] + Bodies(net'[c]) <= MaxSend
  <2>1. /\ net' \in [Conns -> Seq(Piece)] /\ inbuf' \in [Conns -> Seq(Piece)]
        /\ got' \in [Conns -> Nat]
        /\ \A x \in Conns \ {c} : net'[x] = net[x] /\ inbuf'[x] = inbuf[x] /\ got'[x] = got[x]
        /\ Framed(Stream(c)')
        /\ d > 0 => Starts(Stream(c)', Stream(c)[d].part = "head")
        /\ \A i \in 1..d : Stream(c)[i].part = "body" =>
             Len(req[c]) + 1 + Bodies(inbuf'[c]) <= got'[c]
        /\ got'[c] + Bodies(net'[c]) <= MaxSend
    BY <1>1, <1>4, ConsumeStep
  <2>2. Starts(Stream(c)', Stream(c)[d].part = "head")
    BY <1>4, <2>1
  <2>3. Starts(Stream(c)', FALSE)
    BY <1>4, <2>2 DEF Starts
  <2>4. d \in 1..d
    BY <1>4
  <2> QED
    BY <1>4, <2>1, <2>3, <2>4
<1>6. e \in Events /\ Len(req[c]) \in Nat
  <2> DEFINE l == Len(req[c])
  <2> DEFINE g == got'[c]
  <2> DEFINE Bi == Bodies(inbuf'[c])
  <2> DEFINE Bn == Bodies(net'[c])
  <2>1. l \in Nat /\ MaxSend \in Nat
    BY LenProperties, ServerAssumption DEF ServerTyped
  <2>2. net'[c] \in Seq(Piece) /\ inbuf'[c] \in Seq(Piece)
    BY <1>5
  <2>3. Bi \in Nat /\ Bn \in Nat
    BY <2>2, BodiesFinite
  <2>4. g \in Nat /\ l + 1 + Bi <= g /\ g + Bn <= MaxSend
    BY <1>5
  <2>5. l + 1 \in 1..MaxSend
    <3> HIDE DEF l, g, Bi, Bn
    <3> QED
      BY <2>1, <2>3, <2>4
  <2> QED
    BY <2>1, <2>5 DEF Events
<1>7. \A x \in InFlight : x[1] \in Conns \ {c} /\ x # e
  BY <1>3, InFlightType DEF LastRequest
<1>8. /\ pending' \in Seq(Events) /\ running' \in SUBSET Events
      /\ refused' \in SUBSET Events
      /\ OnePlace'
      /\ e \in InFlight' \cup refused'
      /\ InFlight' \subseteq InFlight \cup {e}
      /\ InFlight \cup refused \subseteq InFlight' \cup refused'
  <2>1. e \notin InFlight
    BY <1>7
  <2> HIDE DEF e
  <2> QED
    BY <1>1, <1>6, <2>1, EnqueueStep
<1>9. v \in Session /\ v.bev = c /\ v.stat = "response"
  <2>1. Sess(c) \in Session /\ Sess(c).bev = c
    BY DEF Sess, Sessions, ServerTyped
  <2> QED
    BY <2>1 DEF Session
<1> HIDE DEF v, m
<1>10. /\ Sess(c)' = v /\ cell[c] \in Cells
       /\ \A x \in Conns \ {c} : conn[x] = "open" => Sess(x)' = Sess(x)
  BY <1>1, <1>2, OwnSession
<1>11. /\ req' \in [Conns -> Seq(Parsed)]
       /\ Len(req'[c]) = Len(req[c]) + 1
       /\ \A x \in Conns \ {c} : req'[x] = req[x]
  <2>1. Append(req[c], m) \in Seq(Parsed) /\ Len(Append(req[c], m)) = Len(req[c]) + 1
    BY <1>1, AppendProperties DEF ServerTyped
  <2> QED
    BY <1>1, <2>1 DEF ServerTyped
<1>12. ServerTyped'
  <2>1. heap' \in [Cells -> Session \cup {Free}]
    BY <1>2, <1>9, <1>10 DEF ServerTyped
  <2>2. args' \in [Events -> Cells \cup {NoCell}]
    BY <1>1, <1>6, <1>10 DEF ServerTyped
  <2> QED
    BY <1>1, <1>5, <1>8, <1>11, <2>1, <2>2 DEF ServerTyped
<1>13. InMessage(c)' = FALSE
  BY <1>9, <1>10 DEF InMessage
<1>14. Streaming'
  BY <1>1, <1>5, <1>10, <1>13, StreamFrame
<1>15. Counting'
  <2>1. Len(req'[c]) + Bodies(inbuf'[c]) <= got'[c]
    BY <1>5, <1>11
  <2> QED
    BY <1>5, <1>11, <2>1, CountFrame
<1>16. Sessions'
  <2>1. \A x \in Conns : conn[x] = "new" => req'[x] = req[x] /\ out'[x] = out[x]
    BY <1>1, <1>11
  <2> QED
    BY <1>1, <1>2, <1>9, <1>10, <2>1, SessionKept
<1>17. LastRequest'
  <2> SUFFICES ASSUME NEW x \in InFlight'
               PROVE  /\ conn'[x[1]] = "open"
                      /\ args'[x] = cell'[x[1]]
                      /\ Sess(x[1])'.stat = "response"
                      /\ x[2] = Len(req'[x[1]])
    BY DEF LastRequest
  <2>1. CASE x \in InFlight
    <3>1. x[1] \in Conns \ {c} /\ x # e /\ x \in Events
      BY <1>7, <2>1, InFlightType
    <3>2. args'[x] = args[x]
      BY <1>1, <3>1 DEF ServerTyped
    <3> QED
      BY <1>1, <1>10, <1>11, <2>1, <3>1, <3>2 DEF LastRequest
  <2>2. CASE x = e
    <3>1. x[1] = c /\ x[2] = Len(req[c]) + 1
      BY <2>2
    <3>2. args'[x] = cell[c]
      BY <1>1, <1>6, <2>2 DEF ServerTyped
    <3> QED
      BY <1>1, <1>9, <1>10, <1>11, <3>1, <3>2
  <2> QED
    BY <1>8, <2>1, <2>2
<1>18. Waiting'
  <2> SUFFICES ASSUME NEW x \in Conns, conn[x] = "open"
               PROVE  IF Sess(x)'.stat = "response"
                        THEN /\ <<x, Len(req'[x])>> \in InFlight' \cup refused'
                             /\ Len(req'[x]) = Len(out'[x]) + 1
                        ELSE Len(req'[x]) = Len(out'[x])
    BY <1>1 DEF Waiting
  <2>1. CASE x = c
    <3>1. Len(req[c]) = Len(out[c])
      BY <1>3 DEF Waiting
    <3>2. Sess(c)'.stat = "response" /\ <<c, Len(req'[c])>> \in InFlight' \cup refused'
      BY <1>8, <1>9, <1>10, <1>11
    <3> QED
      BY <1>1, <1>11, <2>1, <3>1, <3>2
  <2>2. CASE x # c
    BY <1>1, <1>8, <1>10, <1>11, <2>2 DEF Waiting
  <2> QED
    BY <2>1, <2>2
<1>19. ResponsesMatch' /\ UndefinedOnlyByParse'
  BY <1>1 DEF ResponsesMatch, UndefinedOnlyByParse
<1> QED
  BY <1>8, <1>12, <1>14, <1>15, <1>16, <1>17, <1>18, <1>19

\* Only the pipeline and the phase of the network thread have changed.
LEMMA PipelineKeeps ==
  ASSUME SInv, ~ub, InFlight' = InFlight, OnePlace', refused' = refused,
         pending' \in Seq(Events), running' \in SUBSET Events, responses' \in Seq(Events),
         phase' \in {"events", "responses"},
         UNCHANGED <<conn, cell, heap, net, inbuf, args, ub, req, out, got>>
  PROVE  SInv'
<1> USE DEF SInv
<1>1. ServerTyped'
  BY DEF ServerTyped
<1>2. Streaming' /\ Counting' /\ Sessions'
  BY DEF Streaming, Stream, InMessage, Sess, Counting, Sessions
<1>3. LastRequest' /\ Waiting'
  BY DEF LastRequest, Waiting, Sess
<1>4. ResponsesMatch' /\ UndefinedOnlyByParse'
  BY DEF ResponsesMatch, UndefinedOnlyByParse
<1> QED
  BY <1>1, <1>2, <1>3, <1>4

\* The workers move events along the pipeline and touch nothing else.
LEMMA WorkerKeeps ==
  ASSUME SInv, ~ub, StartSvc \/ \E e \in Events : Svc(e)
  PROVE  SInv'
<1>1. phase \in {"events", "responses"} /\ pending \in Seq(Events) /\ responses \in Seq(Events)
  BY DEF SInv, ServerTyped
<1>2. CASE StartSvc
  <2>1. /\ Pool!Start
        /\ UNCHANGED <<conn, cell, heap, net, inbuf, phase, args, responses, ub, req, out, got>>
    BY <1>2 DEF StartSvc, netVars
  <2>2. /\ pending' \in Seq(Events) /\ running' \in SUBSET Events
        /\ refused' = refused /\ OnePlace' /\ InFlight' = InFlight
    BY <2>1, StartStep
  <2> QED
    BY <1>1, <2>1, <2>2, PipelineKeeps
<1>3. ASSUME NEW e \in Events, Svc(e) PROVE SInv'
  <2>1. /\ Pool!Finish(e) /\ responses' = Append(responses, e)
        /\ UNCHANGED <<conn, cell, heap, net, inbuf, phase, args, ub, req, out, got>>
    BY <1>3 DEF Svc, netVars
  <2>2. /\ pending' = pending /\ running' \in SUBSET Events
        /\ refused' = refused /\ OnePlace' /\ InFlight' = InFlight
        /\ responses' \in Seq(Events)
    BY <2>1, SvcStep
  <2> QED
    BY <1>1, <2>1, <2>2, PipelineKeeps
<1> QED
  BY <1>2, <1>3

\* The network thread turns from the events to the responses and back.
LEMMA PhaseKeeps ==
  ASSUME SInv, ~ub, EventsHandled \/ ResponsesHandled
  PROVE  SInv'
<1>1. /\ phase' \in {"events", "responses"}
      /\ UNCHANGED <<conn, cell, heap, net, inbuf, args, responses, ub, pending,
                     running, refused, req, out, got>>
  BY DEF EventsHandled, ResponsesHandled, netVars, poolVars
<1>2. InFlight' = InFlight /\ OnePlace'
  BY <1>1, PipelineFrame DEF SInv
<1>3. pending' \in Seq(Events) /\ running' \in SUBSET Events /\ responses' \in Seq(Events)
  BY <1>1 DEF SInv, ServerTyped
<1> QED
  BY <1>1, <1>2, <1>3, PipelineKeeps

\* handleAllResponseEvent: the response goes to the connection of its request,
\* whose session starts over.
LEMMA ResponseKeeps ==
  ASSUME SInv, ~ub, HandleResponse
  PROVE  SInv'
<1> USE DEF SInv
<1>a. PICK e : e = Head(responses)
  OBVIOUS
<1>b. PICK c : c = e[1]
  OBVIOUS
<1>1. /\ responses # <<>> /\ responses' = Tail(responses)
      /\ UNCHANGED <<conn, cell, net, inbuf, phase, args, pending, running, refused, req, got>>
  BY DEF HandleResponse, poolVars
<1>2. /\ responses' \in Seq(Events) /\ e \in InFlight
      /\ OnePlace' /\ InFlight' = InFlight \ {e}
  BY <1>1, <1>a, PopStep
<1>3. /\ e \in Events /\ c \in Conns /\ e[2] \in 1..MaxSend /\ e = <<c, e[2]>>
  BY <1>2, <1>b, InFlightType
<1>4. IF heap[args[e]] = Free \/ IsExitRsp(e)
        THEN ub' = TRUE /\ UNCHANGED <<heap, out>>
        ELSE /\ out' = [out EXCEPT ![heap[args[e]].bev] = Append(@, e)]
             /\ heap' = [heap EXCEPT ![args[e]] = FreshSession(heap[args[e]].bev)]
             /\ UNCHANGED ub
  BY <1>a DEF HandleResponse
<1>5. /\ conn[c] = "open" /\ args[e] = cell[c] /\ Sess(c).stat = "response"
      /\ e[2] = Len(req[c])
  BY <1>2, <1>b DEF LastRequest
<1>6. heap[args[e]] # Free /\ heap[args[e]].bev = c /\ cell[c] \in Cells
  BY <1>3, <1>5 DEF Sessions
<1>7. ~IsExitRsp(e)
  <2>1. req[c] \in Seq(Parsed)
    BY <1>3 DEF ServerTyped
  <2>2. e[2] \in 1..Len(req[c])
    BY <1>3, <1>5
  <2>3. req[c][e[2]] \in Parsed
    BY <2>1, <2>2, ElementOfSeq
  <2> QED
    BY <1>b, <2>3 DEF IsExitRsp, Kind, Parsed, Subscribed
<1>8. /\ out' = [out EXCEPT ![c] = Append(out[c], e)]
      /\ heap' = [heap EXCEPT ![cell[c]] = FreshSession(c)]
      /\ ub' = ub
  BY <1>4, <1>5, <1>6, <1>7
<1>9. FreshSession(c) \in Session /\ FreshSession(c).bev = c
      /\ FreshSession(c).stat = "request"
  BY <1>3 DEF FreshSession, Session
<1>10. /\ Sess(c)' = FreshSession(c)
       /\ \A d \in Conns \ {c} : conn[d] = "open" => Sess(d)' = Sess(d)
  BY <1>1, <1>3, <1>5, <1>8, OwnSession
<1>11. /\ out[c] \in Seq(Events) /\ Len(out[c]) \in Nat
       /\ out' \in [Conns -> Seq(Events)]
       /\ out'[c] = Append(out[c], e)
       /\ \A d \in Conns \ {c} : out'[d] = out[d]
  <2>1. out[c] \in Seq(Events)
    BY <1>3 DEF ServerTyped
  <2>2. Append(out[c], e) \in Seq(Events) /\ Len(out[c]) \in Nat
    BY <1>3, <2>1, AppendProperties, LenProperties
  <2> QED
    BY <1>3, <1>8, <2>1, <2>2 DEF ServerTyped
<1>12. ServerTyped'
  BY <1>1, <1>2, <1>6, <1>8, <1>9, <1>11 DEF ServerTyped
<1>13. Streaming'
  <2>1. Stream(c)' = Stream(c) /\ InMessage(c) = FALSE /\ InMessage(c)' = FALSE
    BY <1>1, <1>5, <1>10 DEF Stream, InMessage, FreshSession
  <2>2. Framed(Stream(c)') /\ Starts(Stream(c)', InMessage(c)')
    BY <1>3, <1>5, <2>1 DEF Streaming
  <2> QED
    BY <1>1, <1>3, <1>5, <1>10, <2>2, StreamFrame
<1>14. Counting'
  BY <1>1, <1>8 DEF Counting
<1>15. Sessions'
  <2>1. \A d \in Conns : conn[d] = "new" => req'[d] = req[d] /\ out'[d] = out[d]
    BY <1>1, <1>5, <1>11
  <2> QED
    BY <1>1, <1>3, <1>5, <1>6, <1>8, <1>9, <2>1, SessionKept
<1>16. \A x \in InFlight : x # e => x[1] # c
  <2> SUFFICES ASSUME NEW x \in InFlight, x[1] = c PROVE x = e
    OBVIOUS
  <2>1. x = <<x[1], x[2]>> /\ x[2] = Len(req[c])
    BY InFlightType DEF LastRequest
  <2> QED
    BY <1>3, <1>5, <2>1
<1>17. LastRequest'
  <2> SUFFICES ASSUME NEW x \in InFlight, x # e
               PROVE  /\ conn'[x[1]] = "open"
                      /\ args'[x] = cell'[x[1]]
                      /\ Sess(x[1])'.stat = "response"
                      /\ x[2] = Len(req'[x[1]])
    BY <1>2 DEF LastRequest
  <2>1. x[1] \in Conns \ {c} /\ conn[x[1]] = "open"
    BY <1>16, InFlightType DEF LastRequest
  <2> QED
    BY <1>1, <1>10, <2>1 DEF LastRequest
<1>18. Waiting'
  <2> SUFFICES ASSUME NEW d \in Conns, conn[d] = "open"
               PROVE  IF Sess(d)'.stat = "response"
                        THEN /\ <<d, Len(req[d])>> \in (InFlight \ {e}) \cup refused
                             /\ Len(req[d]) = Len(out'[d]) + 1
                        ELSE Len(req[d]) = Len(out'[d])
    BY <1>1, <1>2 DEF Waiting
  <2>1. CASE d = c
    <3>1. Len(req[c]) = Len(out[c]) + 1
      BY <1>3, <1>5 DEF Waiting
    <3>2. Len(out'[c]) = Len(out[c]) + 1
      BY <1>3, <1>11, AppendProperties
    <3>3. Sess(c)'.stat = "request"
      BY <1>9, <1>10
    <3> QED
      BY <2>1, <3>1, <3>2, <3>3
  <2>2. CASE d # c
    <3>1. <<d, Len(req[d])>> # e
      BY <1>3, <2>2
    <3>2. Sess(d)' = Sess(d) /\ out'[d] = out[d]
      BY <1>10, <1>11, <2>2
    <3> QED
      BY <3>1, <3>2 DEF Waiting
  <2> QED
    BY <2>1, <2>2
<1>19. ResponsesMatch'
  <2> SUFFICES ASSUME NEW d \in Conns, NEW i \in DOMAIN out'[d]
               PROVE  out'[d][i] = <<d, i>>
    BY DEF ResponsesMatch
  <2>1. CASE d # c
    BY <1>11, <2>1 DEF ResponsesMatch
  <2>2. CASE d = c
    <3>1. /\ DOMAIN out[c] = 1..Len(out[c])
          /\ i \in 1..Len(out[c]) + 1
          /\ i <= Len(out[c]) => out'[c][i] = out[c][i]
          /\ i = Len(out[c]) + 1 => out'[c][i] = e
      BY <1>3, <1>11, <2>2, AppendProperties, LenProperties
    <3>2. e = <<c, Len(out[c]) + 1>>
      BY <1>3, <1>5 DEF Waiting
    <3>3. CASE i <= Len(out[c])
      BY <1>3, <1>11, <2>2, <3>1, <3>3 DEF ResponsesMatch
    <3>4. CASE i = Len(out[c]) + 1
      BY <2>2, <3>1, <3>2, <3>4
    <3> QED
      BY <1>11, <3>1, <3>3, <3>4
  <2> QED
    BY <2>1, <2>2
<1>20. UndefinedOnlyByParse'
  BY <1>8 DEF UndefinedOnlyByParse
<1> QED
  BY <1>2, <1>12, <1>13, <1>14, <1>15, <1>17, <1>18, <1>19, <1>20

\* Every step keeps the invariant.
LEMMA ServerStep == SInv /\ [Next]_vars => SInv'
<1> SUFFICES ASSUME SInv, [Next]_vars PROVE SInv'
  OBVIOUS
<1>1. CASE UNCHANGED vars
  <2>1. UNCHANGED <<conn, cell, heap, net, inbuf, phase, args, responses, ub, pending,
                    running, refused, req, out, got>>
    BY <1>1 DEF vars
  <2>2. InFlight' = InFlight /\ OnePlace'
    BY <2>1, PipelineFrame DEF SInv
  <2>3. ServerTyped' /\ Streaming' /\ Counting' /\ Sessions'
    BY <2>1 DEF SInv, ServerTyped, Streaming, Stream, InMessage, Sess, Counting, Sessions
  <2>4. LastRequest' /\ Waiting'
    BY <2>1, <2>2 DEF SInv, LastRequest, Waiting, Sess
  <2>5. ResponsesMatch' /\ UndefinedOnlyByParse'
    BY <2>1 DEF SInv, ResponsesMatch, UndefinedOnlyByParse, Sess
  <2> QED
    BY <2>2, <2>3, <2>4, <2>5 DEF SInv
<1>2. ASSUME ~ub, NEW c \in Conns, NEW a \in Cells, Accept(c, a) PROVE SInv'
  BY <1>2, AcceptKeeps
<1>3. ASSUME ~ub, NEW c \in Conns, NEW m \in Messages, ClientSend(c, m) PROVE SInv'
  BY <1>3, SendKeeps
<1>4. ASSUME ~ub, NEW c \in Conns, HandleRequest(c) PROVE SInv'
  <2>1. phase = "events" /\ conn[c] = "open"
    BY <1>4 DEF HandleRequest
  <2>2. PICK k \in 1..Len(net[c]) :
           /\ Receive(c, k)
           /\ \/ IgnoreInput(c, k) \/ BadHeader(c, k) \/ ReadHeader(c, k)
              \/ DispatchEvent(c, k) \/ RejectMessage(c, k) \/ ParseUndefined(c, k)
    BY <1>4 DEF HandleRequest, Receive
  <2> QED
    BY <1>4, <2>1, <2>2, IgnoreKeeps, RejectKeeps, ReadHeaderKeeps, DispatchKeeps,
       ParseUndefinedKeeps
<1>5. ASSUME ~ub, NEW c \in Conns, HandleError(c) PROVE SInv'
  BY <1>5, ErrorKeeps
<1>6. ASSUME ~ub, EventsHandled \/ HandleResponse \/ ResponsesHandled PROVE SInv'
  BY <1>6, PhaseKeeps, ResponseKeeps
<1>7. ASSUME ~ub, StartSvc \/ \E e \in Events : Svc(e) PROVE SInv'
  BY <1>7, WorkerKeeps
<1> QED
  BY <1>1, <1>2, <1>3, <1>4, <1>5, <1>6, <1>7 DEF Next

\* The server starts in the invariant.
LEMMA ServerInit == Prompt /\ Init => SInv
<1> SUFFICES ASSUME Prompt, Init PROVE SInv
  OBVIOUS
<1>1. /\ pending = <<>> /\ running = {} /\ refused = {} /\ responses = <<>>
      /\ InFlight = {}
  BY DEF Init, Pool!Init, InFlight
<1>2. ServerTyped
  <2>1. <<>> \in Seq(Piece) /\ <<>> \in Seq(Events) /\ <<>> \in Seq(Parsed)
    OBVIOUS
  <2>2. /\ conn \in [Conns -> {"new", "open", "closed"}]
        /\ cell \in [Conns -> Cells \cup {NoCell}]
        /\ heap \in [Cells -> Session \cup {Free}]
        /\ args \in [Events -> Cells \cup {NoCell}]
        /\ phase \in {"events", "responses"} /\ ub \in BOOLEAN
    BY DEF Init
  <2>3. net \in [Conns -> Seq(Piece)] /\ inbuf \in [Conns -> Seq(Piece)]
    BY <2>1 DEF Init
  <2>4. /\ req \in [Conns -> Seq(Parsed)] /\ out \in [Conns -> Seq(Events)]
        /\ got \in [Conns -> Nat]
    BY <2>1 DEF Init
  <2> QED
    BY <1>1, <2>1, <2>2, <2>3, <2>4 DEF ServerTyped
<1>3. Streaming /\ Sessions
  BY DEF Init, Streaming, Sessions
<1>4. Counting
  <2>1. Bodies(<<>>) = 0
    <3>1. {i \in 1..Len(<<>>) : <<>>[i].part = "body"} = {}
      OBVIOUS
    <3> QED
      BY <3>1, FS_EmptySet DEF Bodies
  <2> QED
    BY <2>1, ServerAssumption DEF Init, Counting
<1>5. OnePlace /\ LastRequest
  BY <1>1 DEF OnePlace, LastRequest
<1>6. Waiting /\ ResponsesMatch /\ UndefinedOnlyByParse
  BY DEF Init, Waiting, ResponsesMatch, UndefinedOnlyByParse
<1> QED
  BY <1>2, <1>3, <1>4, <1>5, <1>6 DEF SInv

\* What the invariant says of the sessions.
LEMMA ServerMeans ==
  ASSUME SInv PROVE EventKeepsSession /\ NoStrayWait
<1> USE DEF SInv
<1>1. EventKeepsSession
  <2> SUFFICES ASSUME NEW e \in InFlight
               PROVE  /\ heap[args[e]] # Free
                      /\ heap[args[e]].bev = e[1]
                      /\ heap[args[e]].stat = "response"
    BY DEF EventKeepsSession
  <2>1. /\ e[1] \in Conns /\ conn[e[1]] = "open" /\ args[e] = cell[e[1]]
        /\ Sess(e[1]).stat = "response"
    BY InFlightType DEF LastRequest
  <2> QED
    BY <2>1 DEF Sessions, Sess
<1>2. NoStrayWait
  <2> SUFFICES ASSUME NEW c \in Conns, conn[c] = "open", Sess(c).stat = "response",
                      <<c, Len(req[c])>> \notin refused
               PROVE  Cardinality({e \in InFlight : e[1] = c}) = 1
    BY DEF NoStrayWait
  <2> DEFINE x == <<c, Len(req[c])>>
  <2>1. x \in InFlight
    BY DEF Waiting
  <2>2. ASSUME NEW e \in InFlight, e[1] = c PROVE e = x
    <3>1. e = <<e[1], e[2]>> /\ e[2] = Len(req[c])
      BY <2>2, InFlightType DEF LastRequest
    <3> QED
      BY <2>2, <3>1
  <2>3. {e \in InFlight : e[1] = c} = {x}
    BY <2>1, <2>2
  <2> QED
    BY <2>3, FS_Singleton
<1> QED
  BY <1>1, <1>2

\* The server keeps its invariant as long as no peer leaves, and no 10 s pass,
\* while a request of the connection is being processed.
THEOREM ServerInvariance == Prompt /\ Spec => []SInv
  BY ServerInit, ServerStep, PTL DEF Spec

\* EventKeepsSession: handle_error and handle_request never free a session that
\* an event in the pool or in response_events still points to.
THEOREM EventsKeepSessions == Prompt /\ Spec => []EventKeepsSession
  BY ServerInvariance, ServerMeans, PTL

\* NoStrayWait: exactly one event of the connection is on its way while
\* handle_request ignores its input, unless enqueue refused it.
THEOREM WaitsAreAnswered == Prompt /\ Spec => []NoStrayWait
  BY ServerInvariance, ServerMeans, PTL

\* ResponsesMatch: send_response_msg writes the responses of a connection to its
\* own bufferevent, each once, in the order of its requests.
THEOREM ResponsesAreMatched == Prompt /\ Spec => []ResponsesMatch
<1>1. SInv => ResponsesMatch
  BY DEF SInv
<1> QED
  BY <1>1, ServerInvariance, PTL

\* UndefinedOnlyByParse: send_response_msg touches no freed session and never
\* sees an ExitRspEv; only parseEvent running off its end is undefined.
THEOREM OnlyParseIsUndefined == Prompt /\ Spec => []UndefinedOnlyByParse
<1>1. SInv => UndefinedOnlyByParse
  BY DEF SInv
<1> QED
  BY <1>1, ServerInvariance, PTL
=============================================================================
