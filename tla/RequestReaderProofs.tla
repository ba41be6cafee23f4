------------------------ MODULE RequestReaderProofs -------------------------
(***************************************************************************)
(* How handle_request cuts the byte stream of a connection into requests,  *)
(* for every header length, every maximal message length and every way in  *)
(* which TCP cuts the stream.                                              *)
(***************************************************************************)
EXTENDS RequestReader, SequenceTheorems, TLAPS

Byte == [msg : Nat, off : Nat]

\* Every variable has its type.
ReaderTyped ==
    /\ sent \in Seq(Lengths)
    /\ stream \in Seq(Byte) /\ inbuf \in Seq(Byte)
    /\ header \in Seq(Byte) /\ read_buf \in Seq(Byte)
    /\ stat \in {"request", "response", "closed"}
    /\ rstat \in {"header", "message"}
    /\ msg_len \in Nat /\ buf_size \in Nat
    /\ delivered \in Seq(Seq(Byte))

\* The bytes of a message with length field l, header included.
MsgLen(l) == HeaderLen + BodyLen(l)

\* A byte of a message brings along all bytes of the message that follow it,
\* and those before it up to the beginning of u.
Blocks(u, s) ==
    \A i \in 1..Len(u) : \A j \in 1..(i + MsgLen(s[u[i].msg]) - u[i].off) :
        j > i - u[i].off =>
            j <= Len(u) /\ u[j] = [msg |-> u[i].msg, off |-> u[i].off + j - i]

\* u holds the bytes of the messages s from byte p + 1 of message f on.
Whole(u, s, f, p) ==
    /\ \A i \in 1..Len(u) : /\ u[i].msg \in 1..Len(s)
                            /\ u[i].off \in 1..MsgLen(s[u[i].msg])
    /\ Blocks(u, s)
    /\ \A i \in 1..(Len(u) - 1) : u[i].off = MsgLen(s[u[i].msg]) =>
         u[i + 1] = [msg |-> u[i].msg + 1, off |-> 1]
    /\ IF Len(u) = 0
         THEN f = Len(s) + 1 /\ p = 0
         ELSE /\ u[1] = [msg |-> f, off |-> p + 1]
              /\ u[Len(u)] = [msg |-> Len(s), off |-> MsgLen(s[Len(s)])]

\* The message that handle_request is receiving, and how many of its bytes it
\* has read.
first == Len(delivered) + 1
Consumed == IF stat = "request" THEN Len(header) + Len(read_buf) ELSE 0

\* What is left to be read are whole messages but for what was consumed.
Position == stat # "closed" => Whole(inbuf \o stream, sent, first, Consumed)

\* What was consumed is the beginning of the message.
Receiving ==
    /\ Len(header) <= HeaderLen
    /\ Len(delivered) <= Len(sent)
    /\ stat # "request" => read_buf = <<>> /\ buf_size = 0
    /\ stat = "request" =>
         /\ \A i \in 1..Len(header) : header[i] = [msg |-> first, off |-> i]
         /\ \A i \in 1..Len(read_buf) :
              read_buf[i] = [msg |-> first, off |-> HeaderLen + i]
         /\ IF rstat = "header"
              THEN Len(header) < HeaderLen /\ read_buf = <<>> /\ buf_size = 0
              ELSE /\ Len(header) = HeaderLen
                   /\ first <= Len(sent) /\ sent[first] \in 1..MaxMsgLen
                   /\ msg_len = sent[first] /\ buf_size = msg_len
                   /\ Len(read_buf) < msg_len

\* The inductive invariant.
RInv == ReaderTyped /\ Position /\ Receiving /\ Framing

-----------------------------------------------------------------------------
(***************************************************************************)
(* Sequences of bytes.                                                     *)
(***************************************************************************)

\* At most is less or equal.
LEMMA AtMost == ASSUME NEW x \in Int, NEW y \in Int, x <= y PROVE x < y \/ x = y
OBVIOUS

\* A sequence is cut in two at k.
LEMMA SplitAt ==
  ASSUME NEW s \in Seq(Byte), NEW k \in 0..Len(s)
  PROVE  /\ SubSeq(s, 1, k) \in Seq(Byte)
         /\ Len(SubSeq(s, 1, k)) = k
         /\ \A i \in 1..k : SubSeq(s, 1, k)[i] = s[i]
         /\ SubSeq(s, k + 1, Len(s)) \in Seq(Byte)
         /\ Len(SubSeq(s, k + 1, Len(s))) = Len(s) - k
         /\ \A i \in 1..Len(s) - k : SubSeq(s, k + 1, Len(s))[i] = s[i + k]
         /\ SubSeq(s, 1, k) \o SubSeq(s, k + 1, Len(s)) = s
<1>1. Len(s) \in Nat /\ k \in Nat /\ k <= Len(s) /\ \A i \in 1..Len(s) : s[i] \in Byte
  BY LenProperties, ElementOfSeq
<1>2. /\ SubSeq(s, 1, k) \in Seq(Byte)
      /\ Len(SubSeq(s, 1, k)) = k
      /\ \A i \in 1..k : SubSeq(s, 1, k)[i] = s[i]
  <2>1. \A i \in 1..k : s[i] \in Byte
    BY <1>1
  <2> QED
    BY <1>1, <2>1, SubSeqProperties
<1>3. /\ SubSeq(s, k + 1, Len(s)) \in Seq(Byte)
      /\ Len(SubSeq(s, k + 1, Len(s))) = Len(s) - k
      /\ \A i \in 1..Len(s) - k : SubSeq(s, k + 1, Len(s))[i] = s[i + k]
  <2>1. \A i \in k + 1 .. Len(s) : s[i] \in Byte
    BY <1>1
  <2>2. /\ SubSeq(s, k + 1, Len(s)) \in Seq(Byte)
        /\ Len(SubSeq(s, k + 1, Len(s))) = IF k + 1 <= Len(s) THEN Len(s) - (k + 1) + 1 ELSE 0
        /\ \A i \in 1 .. Len(s) - (k + 1) + 1 : SubSeq(s, k + 1, Len(s))[i] = s[(k + 1) + i - 1]
    <3>1. k + 1 \in Int /\ Len(s) \in Int
      BY <1>1
    <3> QED
      BY <2>1, <3>1, SubSeqProperties
  <2>3. Len(SubSeq(s, k + 1, Len(s))) = Len(s) - k
    BY <1>1, <2>2
  <2>4. ASSUME NEW i \in 1..Len(s) - k PROVE SubSeq(s, k + 1, Len(s))[i] = s[i + k]
    <3>1. i \in 1 .. Len(s) - (k + 1) + 1 /\ (k + 1) + i - 1 = i + k
      BY <1>1
    <3> QED
      BY <2>2, <3>1
  <2> QED
    BY <2>2, <2>3, <2>4
<1>4. SubSeq(s, 1, k) \o SubSeq(s, k + 1, Len(s)) = s
  <2>1. 1 \in 1 .. Len(s) + 1 /\ k \in 1 - 1 .. Len(s) /\ Len(s) \in k .. Len(s)
    BY <1>1
  <2>2. SubSeq(s, 1, k) \o SubSeq(s, k + 1, Len(s)) = SubSeq(s, 1, Len(s))
    BY <2>1, ConcatAdjacentSubSeq
  <2> QED
    BY <2>2, SubSeqFull
<1> QED
  BY <1>2, <1>3, <1>4

\* Concatenation of stretches is associative.
LEMMA BytesAssociative ==
  ASSUME NEW s \in Seq(Byte), NEW t \in Seq(Byte), NEW u \in Seq(Byte)
  PROVE  (s \o t) \o u = s \o (t \o u)
  BY ConcatAssociative

\* The first n bytes of a sequence, and the others.
Take(s, n) == SubSeq(s, 1, n)
Drop(s, n) == SubSeq(s, n + 1, Len(s))

\* SplitAt in these terms.
LEMMA CutFacts ==
  ASSUME NEW s \in Seq(Byte), NEW n \in 0..Len(s)
  PROVE  /\ Take(s, n) \in Seq(Byte) /\ Len(Take(s, n)) = n
         /\ \A i \in 1..n : Take(s, n)[i] = s[i]
         /\ Drop(s, n) \in Seq(Byte) /\ Len(Drop(s, n)) = Len(s) - n
         /\ \A i \in 1..Len(s) - n : Drop(s, n)[i] = s[i + n]
         /\ Take(s, n) \o Drop(s, n) = s
  BY SplitAt DEF Take, Drop

\* What follows is not disturbed when bytes are dropped in front.
LEMMA DropFacts ==
  ASSUME NEW b \in Seq(Byte), NEW r \in Seq(Byte), NEW d \in 0..Len(b)
  PROVE  /\ Drop(b, d) \o r \in Seq(Byte)
         /\ Len(Drop(b, d) \o r) = Len(b \o r) - d
         /\ \A i \in 1..Len(b \o r) - d : (Drop(b, d) \o r)[i] = (b \o r)[i + d]
<1> DEFINE g == Drop(b, d)
<1>1. /\ g \in Seq(Byte) /\ Len(g) = Len(b) - d
      /\ \A i \in 1..Len(b) - d : g[i] = b[i + d]
  BY CutFacts
<1> HIDE DEF g
<1>4. Len(b) \in Nat /\ Len(r) \in Nat /\ d \in Nat /\ d <= Len(b)
  BY LenProperties
<1>5. /\ g \o r \in Seq(Byte)
      /\ Len(g \o r) = Len(g) + Len(r)
      /\ \A i \in 1..Len(g) + Len(r) : (g \o r)[i] = IF i <= Len(g) THEN g[i] ELSE r[i - Len(g)]
  <2>1. g \in Seq(Byte)
    BY <1>1
  <2> QED
    BY <2>1, ConcatProperties
<1>6. /\ Len(b \o r) = Len(b) + Len(r)
      /\ \A i \in 1..Len(b) + Len(r) : (b \o r)[i] = IF i <= Len(b) THEN b[i] ELSE r[i - Len(b)]
  BY ConcatProperties
<1>7. Len(g \o r) = Len(b \o r) - d
  BY <1>1, <1>4, <1>5, <1>6
<1>8. ASSUME NEW i \in 1..Len(b \o r) - d PROVE (g \o r)[i] = (b \o r)[i + d]
  <2>1. i \in 1..Len(g) + Len(r) /\ i + d \in 1..Len(b) + Len(r)
    BY <1>1, <1>4, <1>6
  <2>2. CASE i <= Len(g)
    <3>1. i \in 1..Len(b) - d /\ i + d <= Len(b)
      BY <1>1, <1>4, <2>1, <2>2
    <3> QED
      BY <1>1, <1>5, <1>6, <2>1, <2>2, <3>1
  <2>3. CASE i > Len(g)
    <3>1. i + d > Len(b) /\ (i + d) - Len(b) = i - Len(g)
      BY <1>1, <1>4, <2>1, <2>3
    <3>2. (g \o r)[i] = r[i - Len(g)]
      BY <1>1, <1>4, <1>5, <2>1, <2>3
    <3>3. (b \o r)[i + d] = r[(i + d) - Len(b)]
      BY <1>4, <1>6, <2>1, <3>1
    <3> QED
      BY <3>1, <3>2, <3>3
  <2> QED
    BY <1>1, <1>4, <2>1, <2>2, <2>3
<1> QED
  BY <1>5, <1>7, <1>8 DEF g

\* libevent moves k bytes from the socket t behind the buffer s.
LEMMA BufferFacts ==
  ASSUME NEW s \in Seq(Byte), NEW t \in Seq(Byte), NEW k \in 0..Len(t)
  PROVE  /\ s \o Take(t, k) \in Seq(Byte)
         /\ Len(s \o Take(t, k)) = Len(s) + k
         /\ (s \o Take(t, k)) \o Drop(t, k) = s \o t
<1> DEFINE p == Take(t, k)
<1> DEFINE r == Drop(t, k)
<1>1. p \in Seq(Byte) /\ Len(p) = k /\ r \in Seq(Byte) /\ p \o r = t
  BY CutFacts
<1> HIDE DEF p, r
<1>2. p \in Seq(Byte) /\ r \in Seq(Byte)
  BY <1>1
<1>3. s \o p \in Seq(Byte) /\ Len(s \o p) = Len(s) + Len(p)
  BY <1>2, ConcatProperties
<1>4. (s \o p) \o r = s \o (p \o r)
  BY <1>2, BytesAssociative
<1> QED
  BY <1>1, <1>3, <1>4 DEF p, r

\* The length of a message on the wire.
LEMMA MsgLenFacts ==
  ASSUME NEW l \in Lengths
  PROVE  /\ MsgLen(l) \in Nat /\ MsgLen(l) > HeaderLen /\ HeaderLen \in Nat /\ HeaderLen > 0
         /\ l \in 1..MaxMsgLen => MsgLen(l) = HeaderLen + l
  BY ReaderAssumption DEF MsgLen, BodyLen

\* The first bytes of the stream are the next bytes of the message f.
LEMMA WholeFront ==
  ASSUME NEW u \in Seq(Byte), NEW s \in Seq(Lengths), NEW f \in Nat, NEW p \in Nat,
         Whole(u, s, f, p), Len(u) > 0
  PROVE  /\ f \in 1..Len(s) /\ s[f] \in Lengths /\ p < MsgLen(s[f])
         /\ MsgLen(s[f]) - p <= Len(u)
         /\ \A j \in 1..(MsgLen(s[f]) - p) : u[j] = [msg |-> f, off |-> p + j]
<1>1. Len(u) \in Nat /\ 1 \in 1..Len(u)
  BY LenProperties
<1>2. u[1].msg = f /\ u[1].off = p + 1 /\ f \in 1..Len(s) /\ p + 1 \in 1..MsgLen(s[f])
  BY <1>1 DEF Whole
<1>3. s[f] \in Lengths
  BY <1>2, ElementOfSeq
<1> DEFINE m == MsgLen(s[f])
<1>4. m \in Nat /\ p < m
  BY <1>2, <1>3, MsgLenFacts
<1>5. \A j \in 1..(1 + m - (p + 1)) : j > 1 - (p + 1) =>
          j <= Len(u) /\ u[j] = [msg |-> f, off |-> p + 1 + j - 1]
  BY <1>1, <1>2 DEF Whole, Blocks
<1> HIDE DEF m
<1>6. ASSUME NEW j \in 1..(m - p) PROVE j <= Len(u) /\ u[j] = [msg |-> f, off |-> p + j]
  <2>1. j \in 1..(1 + m - (p + 1)) /\ j > 1 - (p + 1) /\ p + 1 + j - 1 = p + j
    BY <1>4
  <2> QED
    BY <1>5, <2>1
<1>7. m - p \in 1..(m - p)
  BY <1>4
<1> QED
  BY <1>2, <1>3, <1>4, <1>6, <1>7 DEF m

\* Reading n bytes of the message f, up to its end.
LEMMA WholeDrop ==
  ASSUME NEW u \in Seq(Byte), NEW s \in Seq(Lengths), NEW f \in Nat, NEW p \in Nat,
         Whole(u, s, f, p), Len(u) > 0, NEW n \in 0..Len(u), p + n <= MsgLen(s[f]),
         NEW v \in Seq(Byte), Len(v) = Len(u) - n,
         \A i \in 1..Len(u) - n : v[i] = u[i + n]
  PROVE  IF p + n < MsgLen(s[f]) THEN Whole(v, s, f, p + n) ELSE Whole(v, s, f + 1, 0)
<1>1. Len(u) \in Nat /\ n \in Nat /\ n <= Len(u) /\ Len(v) \in Nat
  BY LenProperties
<1> DEFINE m == MsgLen(s[f])
<1>2. /\ f \in 1..Len(s) /\ p < m /\ m \in Nat
      /\ m - p <= Len(u)
      /\ \A j \in 1..(m - p) : u[j] = [msg |-> f, off |-> p + j]
  BY WholeFront, MsgLenFacts
<1>3. \A i \in 1..Len(v) : i + n \in 1..Len(u) /\ v[i] = u[i + n]
  BY <1>1
<1>4. \A i \in 1..Len(v) : v[i].msg \in 1..Len(s) /\ v[i].off \in 1..MsgLen(s[v[i].msg])
  BY <1>3 DEF Whole
<1>5. Blocks(v, s)
  <2> SUFFICES ASSUME NEW i \in 1..Len(v),
                      NEW j \in 1..(i + MsgLen(s[v[i].msg]) - v[i].off),
                      j > i - v[i].off
               PROVE  j <= Len(v) /\ v[j] = [msg |-> v[i].msg, off |-> v[i].off + j - i]
    BY DEF Blocks
  <2> DEFINE k == v[i].msg
  <2> DEFINE o == v[i].off
  <2> DEFINE mk == MsgLen(s[k])
  <2>1. i + n \in 1..Len(u) /\ u[i + n].msg = k /\ u[i + n].off = o
    BY <1>3
  <2>2. k \in 1..Len(s) /\ o \in 1..mk
    BY <1>4
  <2>3. mk \in Nat /\ o \in Nat /\ i \in Nat /\ j \in Nat
    <3>1. s[k] \in Lengths
      BY <2>2, ElementOfSeq
    <3>2. mk \in Nat
      BY <3>1, MsgLenFacts
    <3>3. o \in Nat
      BY <2>2, <3>2
    <3> QED
      BY <1>1, <3>2, <3>3
  <2>4. \A h \in 1..((i + n) + mk - o) : h > (i + n) - o =>
           h <= Len(u) /\ u[h] = [msg |-> k, off |-> o + h - (i + n)]
    BY <2>1 DEF Whole, Blocks
  <2>5. j \in 1..(i + mk - o) /\ j > i - o
    OBVIOUS
  <2> HIDE DEF k, o, mk
  <2>6. j + n \in 1..((i + n) + mk - o) /\ j + n > (i + n) - o
        /\ o + (j + n) - (i + n) = o + j - i
    BY <1>1, <2>3, <2>5
  <2>7. j + n <= Len(u) /\ u[j + n] = [msg |-> k, off |-> o + j - i]
    BY <2>4, <2>6
  <2>8. j \in 1..Len(v)
    BY <1>1, <2>3, <2>5, <2>7
  <2> QED
    BY <1>3, <2>7, <2>8 DEF k, o
<1>6. ASSUME NEW i \in 1..(Len(v) - 1), v[i].off = MsgLen(s[v[i].msg])
      PROVE  v[i + 1] = [msg |-> v[i].msg + 1, off |-> 1]
  <2>1. i + n \in 1..(Len(u) - 1) /\ i \in 1..Len(v) /\ i + 1 \in 1..Len(v)
        /\ (i + 1) + n = (i + n) + 1
    BY <1>1
  <2>2. v[i] = u[i + n]
    BY <1>3, <2>1
  <2>3. v[i + 1] = u[(i + 1) + n]
    <3> DEFINE h == i + 1
    <3>1. h \in 1..Len(v)
      BY <2>1
    <3> HIDE DEF h
    <3>2. v[h] = u[h + n]
      BY <1>3, <3>1
    <3> QED
      BY <3>2 DEF h
  <2>4. v[i + 1] = u[(i + n) + 1]
    BY <2>1, <2>3
  <2> QED
    BY <1>6, <2>1, <2>2, <2>4 DEF Whole
<1>7. Len(v) > 0 => v[Len(v)] = [msg |-> Len(s), off |-> MsgLen(s[Len(s)])]
  <2>2. u[Len(u)] = [msg |-> Len(s), off |-> MsgLen(s[Len(s)])]
    BY <1>1 DEF Whole
  <2> SUFFICES ASSUME Len(v) > 0 PROVE v[Len(v)] = u[Len(u)]
    BY <2>2
  <2>1. Len(v) \in 1..Len(v) /\ Len(v) + n = Len(u)
    BY <1>1
  <2> QED
    BY <1>3, <2>1
<1> HIDE DEF m
<1>8. CASE p + n < m
  <2>1. n + 1 \in 1..(m - p) /\ p + (n + 1) = (p + n) + 1
    BY <1>1, <1>2, <1>8
  <2>2. Len(v) > 0
    BY <1>1, <1>2, <2>1
  <2>3. v[1] = u[n + 1]
    <3>1. 1 \in 1..Len(v) /\ 1 + n = n + 1
      BY <1>1, <2>2
    <3> QED
      BY <1>3, <3>1
  <2>4. v[1] = [msg |-> f, off |-> (p + n) + 1]
    BY <1>2, <2>1, <2>3
  <2>5. Whole(v, s, f, p + n)
    BY <1>1, <1>4, <1>5, <1>6, <1>7, <2>2, <2>4 DEF Whole
  <2> QED
    BY <1>8, <2>5 DEF m
<1>9. CASE p + n = m
  <2>1. n \in 1..(m - p) /\ p + n = m
    BY <1>1, <1>2, <1>9
  <2>2. u[n] = [msg |-> f, off |-> m]
    BY <1>2, <2>1
  <2>3. CASE Len(v) = 0
    <3>1. n = Len(u)
      BY <1>1, <2>3
    <3>2. u[Len(u)].msg = Len(s)
      BY <1>1 DEF Whole
    <3>3. f = Len(s)
      BY <2>2, <3>1, <3>2
    <3> QED
      BY <1>4, <1>5, <1>6, <1>9, <2>3, <3>3 DEF Whole, m
  <2>4. CASE Len(v) > 0
    <3>1. n \in 1..(Len(u) - 1)
      BY <1>1, <2>1, <2>4
    <3>2. u[n + 1] = [msg |-> f + 1, off |-> 1]
      BY <2>2, <3>1 DEF Whole, m
    <3>3. v[1] = u[n + 1]
      <4>1. 1 \in 1..Len(v) /\ 1 + n = n + 1
        BY <1>1, <2>4
      <4> QED
        BY <1>3, <4>1
    <3>4. v[1] = [msg |-> f + 1, off |-> 0 + 1]
      BY <3>2, <3>3
    <3>5. Whole(v, s, f + 1, 0)
      BY <1>1, <1>4, <1>5, <1>6, <1>7, <2>4, <3>4 DEF Whole
    <3> QED
      BY <1>9, <3>5 DEF m
  <2> QED
    BY <1>1, <2>3, <2>4
<1>10. p + n < m \/ p + n = m
  <2>1. p + n <= m
    BY DEF m
  <2>2. p + n \in Int /\ m \in Int
    BY <1>1, <1>2
  <2> QED
    BY <2>1, <2>2, AtMost
<1> QED
  BY <1>8, <1>9, <1>10

\* The bytes of a message.
LEMMA BytesFacts ==
  ASSUME NEW n \in Nat, NEW l \in Lengths
  PROVE  /\ Bytes(n, l) \in Seq(Byte) /\ Len(Bytes(n, l)) = MsgLen(l)
         /\ \A i \in 1..MsgLen(l) : Bytes(n, l)[i] = [msg |-> n, off |-> i]
<1> DEFINE m == MsgLen(l)
<1> DEFINE B == Bytes(n, l)
<1>1. m \in Nat
  BY MsgLenFacts
<1>2. B = [i \in 1..m |-> [msg |-> n, off |-> i]]
  BY DEF Bytes, MsgLen
<1> HIDE DEF B, m
<1>3. \A i \in 1..m : [msg |-> n, off |-> i] \in Byte
  BY <1>1 DEF Byte
<1>4. B \in Seq(Byte)
  BY <1>1, <1>2, <1>3, IsASeq
<1>5. Len(B) = m
  BY <1>1, <1>2, <1>4, LenProperties
<1> QED
  BY <1>2, <1>4, <1>5 DEF B, m

\* A client appends a message.
LEMMA WholeAppend ==
  ASSUME NEW u \in Seq(Byte), NEW s \in Seq(Lengths), NEW f \in Nat, NEW p \in Nat,
         Whole(u, s, f, p), NEW l \in Lengths
  PROVE  /\ u \o Bytes(Len(s) + 1, l) \in Seq(Byte)
         /\ Whole(u \o Bytes(Len(s) + 1, l), Append(s, l), f, p)
<1> DEFINE B == Bytes(Len(s) + 1, l)
<1> DEFINE w == u \o B
<1> DEFINE t == Append(s, l)
<1> DEFINE m == MsgLen(l)
<1> DEFINE n == Len(s) + 1
<1> DEFINE q == Len(u)
<1>1. m \in Nat /\ m > 0 /\ q \in Nat /\ Len(s) \in Nat /\ n \in Nat
  BY MsgLenFacts, LenProperties
<1>3. B \in Seq(Byte) /\ Len(B) = m /\ \A i \in 1..m : B[i] = [msg |-> n, off |-> i]
  BY <1>1, BytesFacts
<1> HIDE DEF B, m
<1>4. /\ w \in Seq(Byte) /\ Len(w) = q + m
      /\ \A i \in 1..(q + m) : w[i] = IF i <= q THEN u[i] ELSE B[i - q]
  <2>1. B \in Seq(Byte) /\ Len(B) = m
    BY <1>3
  <2> QED
    BY <2>1, ConcatProperties
<1> HIDE DEF w
<1>5. \A i \in 1..q : w[i] = u[i]
  BY <1>1, <1>4
<1>6. \A i \in (q + 1)..(q + m) : w[i] = [msg |-> n, off |-> i - q]
  <2> SUFFICES ASSUME NEW i \in (q + 1)..(q + m) PROVE w[i] = [msg |-> n, off |-> i - q]
    OBVIOUS
  <2>1. i \in 1..(q + m) /\ ~(i <= q) /\ i - q \in 1..m
    BY <1>1
  <2> QED
    BY <1>3, <1>4, <2>1
<1>7. t \in Seq(Lengths) /\ Len(t) = n /\ t[n] = l /\ \A k \in 1..Len(s) : t[k] = s[k]
  BY AppendProperties
<1> HIDE DEF t
<1>8. ASSUME NEW i \in 1..q
      PROVE  /\ w[i] = u[i]
             /\ u[i].msg \in 1..Len(s) /\ t[u[i].msg] = s[u[i].msg]
             /\ u[i].off \in 1..MsgLen(s[u[i].msg])
  BY <1>5, <1>7 DEF Whole
<1>9. ASSUME NEW i \in 1..Len(w), ~(i <= q)
      PROVE  /\ i \in (q + 1)..(q + m)
             /\ w[i].msg = n /\ w[i].off = i - q /\ t[w[i].msg] = l
  <2>1. i \in (q + 1)..(q + m)
    BY <1>1, <1>4, <1>9
  <2>2. w[i] = [msg |-> n, off |-> i - q]
    BY <1>6, <2>1
  <2>3. w[i].msg = n /\ w[i].off = i - q
    BY <2>2
  <2>4. t[n] = l
    BY <1>7
  <2> QED
    BY <2>1, <2>3, <2>4
<1>10. ASSUME NEW i \in 1..Len(w)
       PROVE  w[i].msg \in 1..Len(t) /\ w[i].off \in 1..MsgLen(t[w[i].msg])
  <2>1. CASE i <= q
    <3>1. i \in 1..q
      BY <1>1, <2>1
    <3>2. /\ w[i] = u[i]
          /\ u[i].msg \in 1..Len(s) /\ t[u[i].msg] = s[u[i].msg]
          /\ u[i].off \in 1..MsgLen(s[u[i].msg])
      BY <1>8, <3>1
    <3>3. u[i].msg \in 1..Len(t)
      BY <1>1, <1>7, <3>2
    <3> QED
      BY <3>2, <3>3
  <2>2. CASE ~(i <= q)
    <3>1. /\ i \in (q + 1)..(q + m)
          /\ w[i].msg = n /\ w[i].off = i - q /\ t[w[i].msg] = l
      BY <1>9, <2>2
    <3>2. i - q \in 1..m /\ n \in 1..Len(t)
      BY <1>1, <1>7, <3>1
    <3> QED
      BY <3>1, <3>2 DEF m
  <2> QED
    BY <2>1, <2>2
<1>11. Blocks(w, t)
  <2> SUFFICES ASSUME NEW i \in 1..Len(w),
                      NEW j \in 1..(i + MsgLen(t[w[i].msg]) - w[i].off),
                      j > i - w[i].off
               PROVE  j <= Len(w) /\ w[j] = [msg |-> w[i].msg, off |-> w[i].off + j - i]
    BY DEF Blocks
  <2>1. CASE i <= q
    <3>1. i \in 1..q
      BY <1>1, <2>1
    <3>2. /\ w[i] = u[i]
          /\ u[i].msg \in 1..Len(s) /\ t[u[i].msg] = s[u[i].msg]
      BY <1>8, <3>1
    <3>3. j <= q /\ u[j] = [msg |-> u[i].msg, off |-> u[i].off + j - i]
      <4>1. j \in 1..(i + MsgLen(s[u[i].msg]) - u[i].off) /\ j > i - u[i].off
        BY <3>2
      <4>2. Blocks(u, s)
        BY DEF Whole
      <4>3. \A x \in 1..Len(u) : \A y \in 1..(x + MsgLen(s[u[x].msg]) - u[x].off) :
              y > x - u[x].off =>
                y <= Len(u) /\ u[y] = [msg |-> u[x].msg, off |-> u[x].off + y - x]
        BY <4>2 DEF Blocks
      <4>4. i \in 1..Len(u) /\ q = Len(u)
        BY <3>1, <1>1
      <4>5. j <= Len(u) /\ u[j] = [msg |-> u[i].msg, off |-> u[i].off + j - i]
        BY <4>1, <4>3, <4>4
      <4> QED
        BY <4>4, <4>5
    <3>4. j \in 1..q
      BY <1>1, <3>3
    <3>5. w[j] = u[j]
      BY <1>5, <3>4
    <3>6. Len(w) = q + m
      BY <1>4
    <3>7. j <= Len(w)
      BY <1>1, <3>4, <3>6
    <3> QED
      BY <3>2, <3>3, <3>5, <3>7
  <2>2. CASE ~(i <= q)
    <3>1. /\ i \in (q + 1)..(q + m)
          /\ w[i].msg = n /\ w[i].off = i - q /\ t[w[i].msg] = l
      BY <1>9, <2>2
    <3>2. j \in 1..(i + m - (i - q)) /\ j > i - (i - q)
      BY <3>1 DEF m
    <3>3. j \in (q + 1)..(q + m) /\ j <= Len(w) /\ (i - q) + j - i = j - q
      BY <1>1, <1>4, <3>1, <3>2
    <3>4. w[j] = [msg |-> n, off |-> j - q]
      BY <1>6, <3>3
    <3> QED
      BY <3>1, <3>3, <3>4
  <2> QED
    BY <2>1, <2>2
<1>12. ASSUME NEW i \in 1..(Len(w) - 1), w[i].off = MsgLen(t[w[i].msg])
       PROVE  w[i + 1] = [msg |-> w[i].msg + 1, off |-> 1]
  <2>1. CASE i < q
    <3>1. i \in 1..(q - 1) /\ i \in 1..q /\ i + 1 \in 1..q
      BY <1>1, <2>1
    <3>2. /\ w[i] = u[i] /\ t[u[i].msg] = s[u[i].msg]
      BY <1>8, <3>1
    <3>3. u[i + 1] = [msg |-> u[i].msg + 1, off |-> 1]
      BY <1>12, <3>1, <3>2 DEF Whole
    <3> QED
      BY <1>5, <3>1, <3>2, <3>3
  <2>2. CASE i = q
    <3>1. i \in 1..q /\ i + 1 \in (q + 1)..(q + m) /\ (i + 1) - q = 1 /\ q > 0
      BY <1>1, <2>2
    <3>2. w[i] = u[i] /\ u[i].msg = Len(s)
      BY <1>8, <2>2, <3>1 DEF Whole
    <3> QED
      BY <1>6, <3>1, <3>2
  <2>3. CASE i > q
    <3>1. i \in 1..Len(w) /\ ~(i <= q)
      BY <1>1, <1>4, <2>3
    <3>2. w[i].off = i - q /\ t[w[i].msg] = l
      BY <1>9, <3>1
    <3>3. i - q = m
      BY <1>12, <3>2 DEF m
    <3> QED
      BY <1>1, <1>4, <3>3
  <2> QED
    BY <1>1, <2>1, <2>2, <2>3
<1>13. Len(w) # 0 /\ w[Len(w)] = [msg |-> Len(t), off |-> MsgLen(t[Len(t)])]
  <2>1. Len(w) \in (q + 1)..(q + m) /\ Len(w) - q = m /\ Len(w) # 0
    BY <1>1, <1>4
  <2> QED
    BY <1>6, <1>7, <2>1 DEF m
<1>14. w[1] = [msg |-> f, off |-> p + 1]
  <2>1. CASE q = 0
    <3>1. f = n /\ p = 0
      BY <2>1 DEF Whole
    <3>2. 1 \in (q + 1)..(q + m) /\ 1 - q = p + 1
      BY <1>1, <2>1, <3>1
    <3> QED
      BY <1>6, <3>1, <3>2
  <2>2. CASE q # 0
    <3>1. 1 \in 1..q
      BY <1>1, <2>2
    <3> QED
      BY <1>5, <2>2, <3>1 DEF Whole
  <2> QED
    BY <2>1, <2>2
<1>15. Whole(w, t, f, p)
  <2> HIDE DEF n, q
  <2> QED
    BY <1>10, <1>11, <1>12, <1>13, <1>14 DEF Whole
<1> QED
  BY <1>4, <1>15 DEF w, t, B

\* h are the bytes of message f from byte o + 1 on.
Stretch(h, f, o) == \A i \in 1..Len(h) : h[i] = [msg |-> f, off |-> o + i]

\* Reading the next m bytes from the buffer b behind hd, the bytes of message f
\* from o + 1 on that were read before.
LEMMA ReadOn ==
  ASSUME NEW hd \in Seq(Byte), NEW b \in Seq(Byte), NEW r \in Seq(Byte),
         NEW s \in Seq(Lengths), NEW f \in Nat, NEW o \in Nat,
         Whole(b \o r, s, f, o + Len(hd)), Len(b \o r) > 0,
         NEW m \in 0..Len(b), o + Len(hd) + m <= MsgLen(s[f]),
         Stretch(hd, f, o)
  PROVE  /\ hd \o Take(b, m) \in Seq(Byte)
         /\ Len(hd \o Take(b, m)) = Len(hd) + m
         /\ Stretch(hd \o Take(b, m), f, o)
         /\ Drop(b, m) \in Seq(Byte)
         /\ IF o + Len(hd) + m < MsgLen(s[f])
              THEN Whole(Drop(b, m) \o r, s, f, o + Len(hd) + m)
              ELSE Whole(Drop(b, m) \o r, s, f + 1, 0)
<1> DEFINE u == b \o r
<1> DEFINE p == o + Len(hd)
<1> DEFINE t == Take(b, m)
<1> DEFINE v == Drop(b, m) \o r
<1>1. /\ Len(hd) \in Nat /\ Len(b) \in Nat /\ Len(r) \in Nat
      /\ m \in Nat /\ m <= Len(b) /\ p \in Nat
  BY LenProperties
<1>2. /\ u \in Seq(Byte) /\ Len(u) = Len(b) + Len(r)
      /\ \A i \in 1..Len(b) : u[i] = b[i]
  BY <1>1, ConcatProperties
<1>3. /\ t \in Seq(Byte) /\ Len(t) = m /\ \A i \in 1..m : t[i] = b[i]
      /\ Drop(b, m) \in Seq(Byte)
  BY CutFacts
<1>4. /\ v \in Seq(Byte) /\ Len(v) = Len(u) - m
      /\ \A i \in 1..Len(u) - m : v[i] = u[i + m]
  BY DropFacts
<1>5. Whole(u, s, f, p) /\ Len(u) > 0 /\ p + m <= MsgLen(s[f])
  OBVIOUS
<1> HIDE DEF u, v, t
<1>6. /\ f \in 1..Len(s) /\ s[f] \in Lengths /\ p < MsgLen(s[f])
      /\ \A j \in 1..(MsgLen(s[f]) - p) : u[j] = [msg |-> f, off |-> p + j]
  <2> HIDE DEF p
  <2> QED
    BY <1>1, <1>2, <1>5, WholeFront
<1>7. IF p + m < MsgLen(s[f]) THEN Whole(v, s, f, p + m) ELSE Whole(v, s, f + 1, 0)
  <2>1. m \in 0..Len(u)
    BY <1>1, <1>2
  <2> HIDE DEF p
  <2> QED
    BY <1>1, <1>2, <1>4, <1>5, <2>1, WholeDrop
<1>8. /\ hd \o t \in Seq(Byte) /\ Len(hd \o t) = Len(hd) + m
      /\ \A i \in 1..(Len(hd) + m) : (hd \o t)[i] = IF i <= Len(hd) THEN hd[i] ELSE t[i - Len(hd)]
  <2>1. t \in Seq(Byte) /\ Len(t) = m
    BY <1>3
  <2> QED
    BY <2>1, ConcatProperties
<1>9. ASSUME NEW i \in 1..(Len(hd) + m) PROVE (hd \o t)[i] = [msg |-> f, off |-> o + i]
  <2>1. CASE i <= Len(hd)
    <3>1. i \in 1..Len(hd)
      BY <1>1, <2>1
    <3> QED
      BY <1>8, <2>1, <3>1 DEF Stretch
  <2>2. CASE ~(i <= Len(hd))
    <3> DEFINE j == i - Len(hd)
    <3>1. j \in 1..m /\ j \in 1..Len(b)
      BY <1>1, <2>2
    <3>2. j \in 1..(MsgLen(s[f]) - p)
      <4>1. MsgLen(s[f]) \in Nat
        BY <1>6, MsgLenFacts
      <4> QED
        BY <1>1, <1>5, <3>1, <4>1
    <3>3. (hd \o t)[i] = t[j]
      BY <1>8, <2>2
    <3>4. p + j = o + i
      BY <1>1, <3>1
    <3> HIDE DEF j, p
    <3>5. t[j] = u[j]
      BY <1>2, <1>3, <3>1
    <3>6. u[j] = [msg |-> f, off |-> p + j]
      BY <1>6, <3>2
    <3> QED
      BY <3>3, <3>4, <3>5, <3>6
  <2> QED
    BY <2>1, <2>2
<1>10. Stretch(hd \o t, f, o)
  BY <1>8, <1>9 DEF Stretch
<1> QED
  BY <1>3, <1>7, <1>8, <1>10 DEF v, t

-----------------------------------------------------------------------------
(***************************************************************************)
(* The actions.                                                            *)
(***************************************************************************)

\* A client that sends another message.
LEMMA SendKeeps ==
  ASSUME RInv, NEW l \in Lengths, ClientSend(l)
  PROVE  RInv'
<1> USE DEF RInv
<1>1. /\ stat # "closed"
      /\ sent' = Append(sent, l)
      /\ stream' = stream \o Bytes(Len(sent) + 1, l)
      /\ UNCHANGED <<inbuf, stat, rstat, header, msg_len, read_buf, buf_size, delivered>>
  BY DEF ClientSend
<1>2. /\ sent \in Seq(Lengths) /\ Len(sent) \in Nat /\ Len(delivered) \in Nat
      /\ stream \in Seq(Byte) /\ inbuf \in Seq(Byte)
  BY LenProperties DEF ReaderTyped
<1>3. /\ sent' \in Seq(Lengths) /\ Len(sent') = Len(sent) + 1
      /\ \A k \in 1..Len(sent) : sent'[k] = sent[k]
  BY <1>1, <1>2, AppendProperties
<1> DEFINE B == Bytes(Len(sent) + 1, l)
<1>4. B \in Seq(Byte)
  BY <1>2, BytesFacts
<1>5. stream \o B \in Seq(Byte)
  BY <1>2, <1>4, ConcatProperties
<1>6. ReaderTyped'
  BY <1>1, <1>3, <1>5 DEF ReaderTyped
<1>7. Position'
  <2> DEFINE u == inbuf \o stream
  <2>1. u \in Seq(Byte)
    BY <1>2, ConcatProperties
  <2>2. Whole(u, sent, first, Consumed)
    BY <1>1 DEF Position
  <2>3. first \in Nat /\ Consumed \in Nat
    BY <1>2, LenProperties DEF first, Consumed, ReaderTyped
  <2> HIDE DEF u
  <2>4. Whole(u \o B, Append(sent, l), first, Consumed)
    BY <1>2, <2>1, <2>2, <2>3, WholeAppend
  <2>5. inbuf' \o stream' = u \o B
    BY <1>1, <1>2, <1>4, BytesAssociative DEF u
  <2>6. first' = first /\ Consumed' = Consumed
    BY <1>1 DEF first, Consumed
  <2> HIDE DEF B
  <2> QED
    BY <1>1, <2>4, <2>5, <2>6 DEF Position
<1>8. Receiving'
  <2>1. first' = first
    BY <1>1 DEF first
  <2>2. first <= Len(sent) => first \in 1..Len(sent)
    BY <1>2 DEF first
  <2>3. first <= Len(sent) => first <= Len(sent') /\ sent'[first] = sent[first]
    BY <1>2, <1>3, <2>2
  <2>4. Len(delivered) <= Len(sent')
    BY <1>2, <1>3 DEF Receiving
  <2> QED
    BY <1>1, <2>1, <2>3, <2>4 DEF Receiving
<1>9. Framing'
  <2>1. \A k \in DOMAIN delivered : k \in 1..Len(sent)
    <3>1. DOMAIN delivered = 1..Len(delivered)
      BY LenProperties DEF ReaderTyped
    <3>2. Len(delivered) <= Len(sent)
      BY DEF Receiving
    <3> QED
      BY <1>2, <3>1, <3>2
  <2> QED
    BY <1>1, <1>3, <2>1 DEF Framing
<1> QED
  BY <1>6, <1>7, <1>8, <1>9

\* The session is freed: nothing is left to be read.
LEMMA CloseKeeps ==
  ASSUME RInv, CloseSession
  PROVE  RInv'
<1> USE DEF RInv, CloseSession
<1>1. ReaderTyped'
  BY DEF ReaderTyped
<1>2. Position' /\ Receiving' /\ Framing'
  BY DEF Position, Receiving, Framing
<1> QED
  BY <1>1, <1>2

\* session_reset: the next message begins.
LEMMA ResetKeeps ==
  ASSUME RInv, SessionReset
  PROVE  RInv'
<1> USE DEF RInv
<1>1. /\ stat = "response" /\ stat' = "request" /\ rstat' = "header"
      /\ header' = <<>> /\ msg_len' = 0 /\ read_buf' = <<>> /\ buf_size' = 0
      /\ UNCHANGED <<sent, stream, inbuf, delivered>>
  BY DEF SessionReset
<1>2. ReaderTyped'
  BY <1>1 DEF ReaderTyped
<1>3. Len(<<>>) = 0 /\ HeaderLen \in Nat /\ HeaderLen > 0
  BY ReaderAssumption
<1>4. Position'
  <2>1. first' = first /\ Consumed = 0 /\ Consumed' = 0
    BY <1>1, <1>3 DEF first, Consumed
  <2> QED
    BY <1>1, <2>1 DEF Position
<1>5. Receiving'
  BY <1>1, <1>3 DEF Receiving
<1>6. Framing'
  BY <1>1 DEF Framing
<1> QED
  BY <1>2, <1>4, <1>5, <1>6

\* The input that arrives while a response is due stays in the buffer.
LEMMA BusyKeeps ==
  ASSUME RInv, NEW k \in 1..Len(stream), HandleRequestBusy(k)
  PROVE  RInv'
<1> USE DEF RInv
<1>1. /\ stat = "response"
      /\ inbuf' = inbuf \o Take(stream, k)
      /\ stream' = Drop(stream, k)
      /\ UNCHANGED <<sent, stat, rstat, header, msg_len, read_buf, buf_size, delivered>>
  BY DEF HandleRequestBusy, Take, Drop
<1>2. stream \in Seq(Byte) /\ inbuf \in Seq(Byte) /\ k \in 0..Len(stream)
  BY LenProperties DEF ReaderTyped
<1>3. Drop(stream, k) \in Seq(Byte)
  BY <1>2, CutFacts
<1>4. /\ inbuf \o Take(stream, k) \in Seq(Byte)
      /\ (inbuf \o Take(stream, k)) \o Drop(stream, k) = inbuf \o stream
  BY <1>2, BufferFacts
<1>5. ReaderTyped'
  BY <1>1, <1>3, <1>4 DEF ReaderTyped
<1>6. first' = first /\ Consumed' = Consumed /\ inbuf' \o stream' = inbuf \o stream
  BY <1>1, <1>4 DEF first, Consumed
<1>7. Position'
  BY <1>1, <1>6 DEF Position
<1>8. Receiving' /\ Framing'
  BY <1>1, <1>6 DEF Receiving, Framing
<1> QED
  BY <1>5, <1>7, <1>8

\* bufferevent_read delivers what there is, and at most what was asked for.
LEMMA CountFacts ==
  ASSUME NEW b \in Seq(Byte), NEW w \in Nat
  PROVE  /\ ReadCount(b, w) \in 0..Len(b) /\ ReadCount(b, w) <= w
         /\ w = 0 => ReadCount(b, w) = 0
<1>1. Len(b) \in Nat
  BY LenProperties
<1> QED
  BY <1>1 DEF ReadCount

\* An i32 that is a valid length as a u32 is the same length.
LEMMA WidthFacts ==
  ASSUME NEW l \in Lengths, U32(l) >= 1, U32(l) <= MaxMsgLen
  PROVE  U32(l) = l /\ l \in 1..MaxMsgLen
<1>1. PICK x : x = 2^Width
  OBVIOUS
<1>2. /\ x \in Nat /\ l \in Int /\ -x <= 2 * l /\ 2 * l < x
      /\ MaxMsgLen \in Nat /\ 2 * MaxMsgLen < x
  BY <1>1, ReaderAssumption
<1>3. U32(l) = l % x
  BY <1>1 DEF U32
<1>4. CASE l >= 0
  <2>1. l % x = l
    BY <1>2, <1>4
  <2> QED
    BY <1>2, <1>3, <2>1
<1>5. CASE l < 0
  <2>1. l % x = l + x
    BY <1>2, <1>5
  <2>2. 2 * (l + x) >= x
    BY <1>2
  <2> QED
    BY <1>2, <1>3, <2>1, <2>2
<1> QED
  BY <1>2, <1>4, <1>5

\* libevent moved k bytes to the input buffer: it holds b, and r is to come.
Arrived(b, r, k) ==
    /\ b = inbuf \o SubSeq(stream, 1, k)
    /\ r = SubSeq(stream, k + 1, Len(stream))

\* What handle_request finds.
LEMMA InputFacts ==
  ASSUME RInv, stat = "request", NEW k \in 1..Len(stream),
         NEW b, NEW r, Arrived(b, r, k)
  PROVE  /\ b \in Seq(Byte) /\ r \in Seq(Byte) /\ b \o r \in Seq(Byte) /\ Len(b \o r) > 0
         /\ sent \in Seq(Lengths) /\ header \in Seq(Byte) /\ read_buf \in Seq(Byte)
         /\ first \in Nat
         /\ Whole(b \o r, sent, first, Len(header) + Len(read_buf))
         /\ first \in 1..Len(sent) /\ sent[first] \in Lengths
<1> USE DEF RInv
<1>1. /\ stream \in Seq(Byte) /\ inbuf \in Seq(Byte) /\ k \in 0..Len(stream) /\ k \in Nat /\ k > 0
      /\ sent \in Seq(Lengths) /\ header \in Seq(Byte) /\ read_buf \in Seq(Byte)
      /\ Len(inbuf) \in Nat
  BY LenProperties DEF ReaderTyped
<1>2. b = inbuf \o Take(stream, k) /\ r = Drop(stream, k)
  BY DEF Arrived, Take, Drop
<1>3. b \in Seq(Byte) /\ Len(b) = Len(inbuf) + k /\ b \o r = inbuf \o stream
  BY <1>1, <1>2, BufferFacts
<1>4. r \in Seq(Byte)
  BY <1>1, <1>2, CutFacts
<1>5. b \o r \in Seq(Byte) /\ Len(b \o r) = Len(b) + Len(r) /\ Len(r) \in Nat
  BY <1>3, <1>4, ConcatProperties, LenProperties
<1>6. Len(b \o r) > 0
  BY <1>1, <1>3, <1>5
<1>7. first \in Nat /\ Len(header) + Len(read_buf) \in Nat
  BY <1>1, LenProperties DEF first, ReaderTyped
<1>8. Whole(b \o r, sent, first, Len(header) + Len(read_buf))
  BY <1>3 DEF Position, Consumed
<1>9. first \in 1..Len(sent) /\ sent[first] \in Lengths
  <2>1. PICK p \in Nat : p = Len(header) + Len(read_buf)
    BY <1>7
  <2>2. Whole(b \o r, sent, first, p)
    BY <1>8, <2>1
  <2> QED
    BY <1>1, <1>5, <1>6, <1>7, <2>2, WholeFront
<1> QED
  BY <1>1, <1>3, <1>4, <1>5, <1>6, <1>7, <1>8, <1>9

\* The header is not complete yet.
LEMMA PartOfHeaderKeeps ==
  ASSUME RInv, stat = "request", NEW k \in 1..Len(stream),
         NEW b, NEW r, Arrived(b, r, k), PartOfHeader(b, k)
  PROVE  RInv'
<1> USE DEF RInv
<1>2. /\ b \in Seq(Byte) /\ r \in Seq(Byte) /\ b \o r \in Seq(Byte) /\ Len(b \o r) > 0
      /\ sent \in Seq(Lengths) /\ header \in Seq(Byte) /\ read_buf \in Seq(Byte)
      /\ first \in Nat
      /\ Whole(b \o r, sent, first, Len(header) + Len(read_buf))
      /\ first \in 1..Len(sent) /\ sent[first] \in Lengths
  BY InputFacts
<1>3. PICK m : m = HeaderRead(b)
  OBVIOUS
<1>4. PICK h : h = header \o Take(b, m)
  OBVIOUS
<1>5. PICK v : v = Drop(b, m)
  OBVIOUS
<1>6. NewHeader(b) = h /\ AfterHeader(b) = v
  BY <1>3, <1>4, <1>5 DEF NewHeader, AfterHeader, Take, Drop
<1>7. /\ Len(h) < HeaderLen
      /\ header' = h /\ inbuf' = v /\ stream' = r
      /\ UNCHANGED <<sent, stat, rstat, msg_len, read_buf, buf_size, delivered>>
  BY <1>6 DEF PartOfHeader, Arrived
<1>8. Len(header) \in Nat /\ HeaderLen \in Nat /\ Len(header) <= HeaderLen
  BY <1>2, LenProperties, ReaderAssumption DEF Receiving
<1>9. m \in 0..Len(b) /\ m <= HeaderLen - Len(header) /\ m \in Nat
  <2>1. HeaderLen - Len(header) \in Nat
    BY <1>8
  <2>2. m \in 0..Len(b) /\ m <= HeaderLen - Len(header)
    BY <1>2, <1>3, <2>1, CountFacts DEF HeaderRead, read_header_len
  <2> QED
    BY <2>2
<1>10. Take(b, m) \in Seq(Byte) /\ Len(Take(b, m)) = m
  BY <1>2, <1>9, CutFacts
<1>11. Len(h) = Len(header) + m
  BY <1>2, <1>4, <1>10, ConcatProperties
<1>12. rstat = "header" /\ read_buf = <<>> /\ buf_size = 0
  <2>1. Len(header) < HeaderLen
    BY <1>7, <1>8, <1>9, <1>11
  <2>2. rstat = "header"
    <3>1. rstat # "header" => Len(header) = HeaderLen
      BY DEF Receiving
    <3> QED
      BY <1>8, <2>1, <3>1
  <2> QED
    BY <2>2 DEF Receiving
<1>o. PICK o \in Nat : o = 0
  OBVIOUS
<1>13. Whole(b \o r, sent, first, o + Len(header))
  <2>1. Len(header) + Len(read_buf) = o + Len(header)
    BY <1>8, <1>12, <1>o
  <2> QED
    BY <1>2, <2>1
<1>14. /\ MsgLen(sent[first]) \in Nat /\ o + Len(header) + m < MsgLen(sent[first])
       /\ o + Len(header) + m <= MsgLen(sent[first])
       /\ o + Len(header) + m = Len(h)
  BY <1>2, <1>8, <1>9, <1>11, <1>o, MsgLenFacts
<1>15. Stretch(header, first, o)
  <2>1. \A i \in 1..Len(header) : header[i] = [msg |-> first, off |-> i]
    BY DEF Receiving
  <2>2. \A i \in 1..Len(header) : o + i = i
    BY <1>8, <1>o
  <2> QED
    BY <2>1, <2>2 DEF Stretch
<1>16. /\ h \in Seq(Byte)
       /\ Stretch(h, first, o)
       /\ v \in Seq(Byte)
       /\ Whole(v \o r, sent, first, o + Len(header) + m)
  BY <1>2, <1>4, <1>5, <1>9, <1>13, <1>14, <1>15, ReadOn
<1>17. \A i \in 1..Len(h) : h[i] = [msg |-> first, off |-> i]
  <2>1. \A i \in 1..Len(h) : o + i = i
    BY <1>8, <1>9, <1>11, <1>o
  <2> QED
    BY <1>16, <2>1 DEF Stretch
<1>18. ReaderTyped'
  BY <1>2, <1>7, <1>16 DEF ReaderTyped
<1>19. first' = first /\ Consumed' = Len(h) + 0
  BY <1>7, <1>12 DEF first, Consumed
<1>20. Position'
  <2>1. Len(h) + 0 = Len(h)
    BY <1>8, <1>9, <1>11
  <2> QED
    BY <1>7, <1>14, <1>16, <1>19, <2>1 DEF Position
<1>21. Receiving'
  <2>1. Len(h) <= HeaderLen
    BY <1>7, <1>8, <1>9, <1>11
  <2> QED
    BY <1>7, <1>12, <1>17, <1>19, <2>1 DEF Receiving
<1>22. Framing'
  BY <1>7 DEF Framing
<1> QED
  BY <1>18, <1>20, <1>21, <1>22

\* The length that handle_request works with once the header is complete.
BodyLength(b) == IF rstat = "header" THEN LengthOf(NewHeader(b)) ELSE msg_len

\* The header is complete: it is that of the message in turn, and its length
\* field is the length of the body.
LEMMA HeaderComplete ==
  ASSUME RInv, stat = "request", NEW k \in 1..Len(stream),
         NEW b, NEW r, Arrived(b, r, k),
         Len(NewHeader(b)) = HeaderLen,
         rstat = "header" => ValidHeader(NewHeader(b))
  PROVE  /\ NewHeader(b) \in Seq(Byte) /\ Stretch(NewHeader(b), first, 0)
         /\ AfterHeader(b) \in Seq(Byte)
         /\ Whole(AfterHeader(b) \o r, sent, first, HeaderLen + Len(read_buf))
         /\ sent[first] \in 1..MaxMsgLen
         /\ BodyLength(b) = sent[first]
         /\ Len(read_buf) < sent[first]
<1> USE DEF RInv
<1>2. /\ b \in Seq(Byte) /\ r \in Seq(Byte) /\ b \o r \in Seq(Byte) /\ Len(b \o r) > 0
      /\ sent \in Seq(Lengths) /\ header \in Seq(Byte) /\ read_buf \in Seq(Byte)
      /\ first \in Nat
      /\ Whole(b \o r, sent, first, Len(header) + Len(read_buf))
      /\ first \in 1..Len(sent) /\ sent[first] \in Lengths
  BY InputFacts
<1>3. PICK m : m = HeaderRead(b)
  OBVIOUS
<1>4. PICK h : h = header \o Take(b, m)
  OBVIOUS
<1>5. PICK v : v = Drop(b, m)
  OBVIOUS
<1>6. NewHeader(b) = h /\ AfterHeader(b) = v
  BY <1>3, <1>4, <1>5 DEF NewHeader, AfterHeader, Take, Drop
<1>7. Len(h) = HeaderLen /\ (rstat = "header" => ValidHeader(h))
  BY <1>6
<1>8. /\ Len(header) \in Nat /\ HeaderLen \in Nat /\ HeaderLen > 0 /\ Len(header) <= HeaderLen
      /\ Len(b) \in Nat
  <2>1. Len(header) \in Nat /\ Len(b) \in Nat
    BY <1>2, LenProperties
  <2>2. Len(header) <= HeaderLen
    BY DEF Receiving
  <2>3. HeaderLen \in Nat /\ HeaderLen > 0
    BY ReaderAssumption
  <2> QED
    BY <2>1, <2>2, <2>3
<1>9. m \in 0..Len(b) /\ m <= HeaderLen - Len(header) /\ m \in Nat
      /\ (Len(header) = HeaderLen => m = 0)
  <2>1. PICK w : w = HeaderLen - Len(header)
    OBVIOUS
  <2>2. w \in Nat /\ (Len(header) = HeaderLen => w = 0)
    BY <1>8, <2>1
  <2>3. m \in 0..Len(b) /\ m <= w /\ (w = 0 => m = 0)
    BY <1>2, <1>3, <2>1, <2>2, CountFacts DEF HeaderRead, read_header_len
  <2> QED
    BY <2>1, <2>2, <2>3
<1>10. /\ Take(b, m) \in Seq(Byte) /\ Len(Take(b, m)) = m
       /\ v \in Seq(Byte)
  BY <1>2, <1>5, <1>9, CutFacts
<1>11. Len(h) = Len(header) + m
  BY <1>2, <1>4, <1>10, ConcatProperties
<1>o. PICK o \in Nat : o = 0
  OBVIOUS
<1>15. Stretch(header, first, o)
  <2>1. \A i \in 1..Len(header) : header[i] = [msg |-> first, off |-> i]
    BY DEF Receiving
  <2>2. \A i \in 1..Len(header) : o + i = i
    BY <1>8, <1>o
  <2> QED
    BY <2>1, <2>2 DEF Stretch
<1>16. CASE rstat = "header"
  <2>1. read_buf = <<>> /\ Len(read_buf) = 0
    BY <1>16 DEF Receiving
  <2>2. Whole(b \o r, sent, first, o + Len(header))
    <3>1. Len(header) + Len(read_buf) = o + Len(header)
      BY <1>8, <2>1, <1>o
    <3> QED
      BY <1>2, <3>1
  <2>3. /\ MsgLen(sent[first]) \in Nat /\ o + Len(header) + m < MsgLen(sent[first])
        /\ o + Len(header) + m <= MsgLen(sent[first])
        /\ o + Len(header) + m = HeaderLen
    BY <1>2, <1>7, <1>8, <1>9, <1>11, <1>o, MsgLenFacts
  <2>4. /\ h \in Seq(Byte)
        /\ Stretch(h, first, o)
        /\ Whole(v \o r, sent, first, o + Len(header) + m)
    BY <1>2, <1>4, <1>5, <1>9, <2>2, <2>3, <1>15, ReadOn
  <2>5. h[1] = [msg |-> first, off |-> o + 1]
    <3>1. 1 \in 1..Len(h)
      BY <1>7, <1>8
    <3> QED
      BY <2>4, <3>1 DEF Stretch
  <2>6. LengthOf(h) = U32(sent[first])
    BY <2>5 DEF LengthOf
  <2>7. U32(sent[first]) >= 1 /\ U32(sent[first]) <= MaxMsgLen
    BY <1>7, <1>16, <2>6 DEF ValidHeader
  <2>8. U32(sent[first]) = sent[first] /\ sent[first] \in 1..MaxMsgLen
    BY <1>2, <2>7, WidthFacts
  <2>9. HeaderLen + Len(read_buf) = o + Len(header) + m /\ Len(read_buf) < sent[first]
    BY <1>8, <2>1, <2>3, <2>8, ReaderAssumption
  <2> QED
    BY <1>6, <1>10, <1>16, <1>o, <2>4, <2>6, <2>8, <2>9 DEF BodyLength
<1>17. CASE rstat # "header"
  <2>1. /\ Len(header) = HeaderLen /\ sent[first] \in 1..MaxMsgLen /\ msg_len = sent[first]
        /\ Len(read_buf) < msg_len
    BY <1>17 DEF Receiving
  <2>2. m = 0
    BY <1>9, <2>1
  <2>3. h = header
    <3>1. Take(b, m) = <<>>
      BY <1>10, <2>2, EmptySeq
    <3> QED
      BY <1>2, <1>4, <3>1, ConcatEmptySeq
  <2>4. v = b
    <3>1. v = SubSeq(b, 1, Len(b))
      BY <1>5, <2>2 DEF Drop
    <3> QED
      BY <1>2, <3>1, SubSeqFull
  <2> QED
    BY <1>2, <1>6, <1>15, <1>17, <1>o, <2>1, <2>3, <2>4 DEF BodyLength
<1> QED
  BY <1>16, <1>17

\* The body is read, and handed to parseEvent when it is complete.
LEMMA ReadBodyKeeps ==
  ASSUME RInv, stat = "request", NEW k \in 1..Len(stream),
         NEW b, NEW r, Arrived(b, r, k), ReadBody(b, k)
  PROVE  RInv'
<1> USE DEF RInv
<1>1. PICK h : h = NewHeader(b)
  OBVIOUS
<1>2. PICK v : v = AfterHeader(b)
  OBVIOUS
<1>3. PICK len : len = BodyLength(b)
  OBVIOUS
<1>4. PICK want : want = ReadCount(v, len - Len(read_buf))
  OBVIOUS
<1>5. PICK body : body = read_buf \o Take(v, want)
  OBVIOUS
<1>6. PICK z : z = Drop(v, want)
  OBVIOUS
<1>7. /\ Len(h) = HeaderLen /\ (rstat = "header" => ValidHeader(h))
      /\ rstat' = "message" /\ header' = h /\ msg_len' = len
      /\ inbuf' = z /\ stream' = r /\ sent' = sent
      /\ \/ /\ Len(body) < len
            /\ read_buf' = body /\ buf_size' = len
            /\ stat' = stat /\ delivered' = delivered
         \/ /\ Len(body) = len
            /\ stat' = "response"
            /\ delivered' = Append(delivered, body)
            /\ read_buf' = <<>> /\ buf_size' = 0
  BY <1>1, <1>2, <1>3, <1>4, <1>5, <1>6
     DEF ReadBody, Arrived, Take, Drop, BodyLength, read_msg_len
<1>8. /\ b \in Seq(Byte) /\ r \in Seq(Byte)
      /\ sent \in Seq(Lengths) /\ header \in Seq(Byte) /\ read_buf \in Seq(Byte)
      /\ first \in Nat /\ first \in 1..Len(sent) /\ sent[first] \in Lengths
  BY InputFacts
<1>9. /\ h \in Seq(Byte) /\ Stretch(h, first, 0)
      /\ v \in Seq(Byte)
      /\ Whole(v \o r, sent, first, HeaderLen + Len(read_buf))
      /\ len \in 1..MaxMsgLen /\ sent[first] = len
      /\ Len(read_buf) < len
  <2>1. Len(NewHeader(b)) = HeaderLen /\ (rstat = "header" => ValidHeader(NewHeader(b)))
    BY <1>1, <1>7
  <2> QED
    BY <1>1, <1>2, <1>3, <2>1, HeaderComplete
<1>10. /\ Len(read_buf) \in Nat /\ HeaderLen \in Nat /\ HeaderLen > 0 /\ len \in Nat
       /\ Len(v) \in Nat
  <2>1. Len(read_buf) \in Nat /\ Len(v) \in Nat
    BY <1>8, <1>9, LenProperties
  <2> QED
    BY <1>9, <2>1, ReaderAssumption
<1>11. want \in 0..Len(v) /\ want \in Nat /\ Len(read_buf) + want <= len
  <2>1. PICK w : w = len - Len(read_buf)
    OBVIOUS
  <2>2. w \in Nat
    BY <1>9, <1>10, <2>1
  <2>3. want \in 0..Len(v) /\ want <= w
    BY <1>4, <1>9, <2>1, <2>2, CountFacts
  <2> QED
    BY <1>10, <2>1, <2>3
<1>12. MsgLen(sent[first]) = HeaderLen + len
  <2>1. sent[first] \in 1..MaxMsgLen
    BY <1>9
  <2> QED
    BY <1>8, <1>9, <2>1, MsgLenFacts
<1>13. Stretch(read_buf, first, HeaderLen)
  <2>1. CASE rstat = "header"
    <3>1. read_buf = <<>>
      BY <2>1 DEF Receiving
    <3> QED
      BY <3>1 DEF Stretch
  <2>2. CASE rstat # "header"
    BY DEF Receiving, Stretch
  <2> QED
    BY <2>1, <2>2
<1>14. v \o r \in Seq(Byte) /\ Len(v \o r) > 0
  <2>1. /\ v \o r \in Seq(Byte) /\ Len(v \o r) \in Nat
    BY <1>8, <1>9, ConcatProperties, LenProperties
  <2>2. Len(v \o r) # 0
    <3>1. HeaderLen + Len(read_buf) # 0
      BY <1>10
    <3> QED
      BY <1>9, <3>1 DEF Whole
  <2> QED
    BY <2>1, <2>2
<1>15. HeaderLen + Len(read_buf) + want <= MsgLen(sent[first])
  BY <1>10, <1>11, <1>12
<1>16. /\ body \in Seq(Byte) /\ Len(body) = Len(read_buf) + want
       /\ Stretch(body, first, HeaderLen)
       /\ z \in Seq(Byte)
       /\ IF HeaderLen + Len(read_buf) + want < MsgLen(sent[first])
            THEN Whole(z \o r, sent, first, HeaderLen + Len(read_buf) + want)
            ELSE Whole(z \o r, sent, first + 1, 0)
  <2>1. PICK o \in Nat : o = HeaderLen
    BY <1>10
  <2>2. /\ Whole(v \o r, sent, first, o + Len(read_buf)) /\ Stretch(read_buf, first, o)
        /\ o + Len(read_buf) + want <= MsgLen(sent[first])
    BY <1>9, <1>13, <1>15, <2>1
  <2>3. /\ body \in Seq(Byte) /\ Len(body) = Len(read_buf) + want
        /\ Stretch(body, first, o)
        /\ z \in Seq(Byte)
        /\ IF o + Len(read_buf) + want < MsgLen(sent[first])
             THEN Whole(z \o r, sent, first, o + Len(read_buf) + want)
             ELSE Whole(z \o r, sent, first + 1, 0)
    <3>1. v \in Seq(Byte) /\ Len(v \o r) > 0 /\ want \in 0..Len(v)
      BY <1>9, <1>11, <1>14
    <3>2. /\ read_buf \o Take(v, want) \in Seq(Byte)
          /\ Len(read_buf \o Take(v, want)) = Len(read_buf) + want
          /\ Stretch(read_buf \o Take(v, want), first, o)
          /\ Drop(v, want) \in Seq(Byte)
          /\ IF o + Len(read_buf) + want < MsgLen(sent[first])
               THEN Whole(Drop(v, want) \o r, sent, first, o + Len(read_buf) + want)
               ELSE Whole(Drop(v, want) \o r, sent, first + 1, 0)
      BY <1>8, <2>2, <3>1, ReadOn
    <3> QED
      BY <1>5, <1>6, <3>2
  <2> QED
    BY <2>1, <2>3
<1>17. \A i \in 1..Len(h) : h[i] = [msg |-> first, off |-> i]
  <2>1. \A i \in 1..Len(h) : 0 + i = i
    BY <1>7, <1>10
  <2> QED
    BY <1>9, <2>1 DEF Stretch
<1>18. CASE Len(body) < len
  <2>1. /\ rstat' = "message" /\ header' = h /\ msg_len' = len
        /\ inbuf' = z /\ stream' = r /\ sent' = sent
        /\ read_buf' = body /\ buf_size' = len
        /\ stat' = "request" /\ delivered' = delivered
    BY <1>7, <1>10, <1>11, <1>16, <1>18
  <2>2. ReaderTyped'
    BY <1>8, <1>9, <1>10, <1>16, <2>1 DEF ReaderTyped
  <2>3. first' = first /\ Consumed' = Len(h) + Len(body)
    BY <2>1 DEF first, Consumed
  <2>4. Position'
    <3>1. HeaderLen + Len(read_buf) + want < MsgLen(sent[first])
      BY <1>10, <1>11, <1>12, <1>16, <1>18
    <3>2. HeaderLen + Len(read_buf) + want = Len(h) + Len(body)
      BY <1>7, <1>10, <1>11, <1>16
    <3>3. Whole(z \o r, sent, first, Len(h) + Len(body))
      BY <1>16, <3>1, <3>2
    <3> QED
      BY <2>1, <2>3, <3>3 DEF Position
  <2>5. Receiving'
    <3>1. /\ Len(h) <= HeaderLen /\ Len(delivered) <= Len(sent)
          /\ first <= Len(sent)
      <4>1. Len(sent) \in Nat
        BY <1>8, LenProperties
      <4> QED
        BY <1>7, <1>8, <1>10, <4>1 DEF Receiving
    <3>2. \A i \in 1..Len(body) : body[i] = [msg |-> first, off |-> HeaderLen + i]
      BY <1>16 DEF Stretch
    <3> QED
      BY <1>7, <1>9, <1>17, <1>18, <2>1, <2>3, <3>1, <3>2 DEF Receiving
  <2>6. Framing'
    BY <2>1 DEF Framing
  <2> QED
    BY <2>2, <2>4, <2>5, <2>6
<1>19. CASE Len(body) = len
  <2>1. /\ rstat' = "message" /\ header' = h /\ msg_len' = len
        /\ inbuf' = z /\ stream' = r /\ sent' = sent
        /\ stat' = "response" /\ delivered' = Append(delivered, body)
        /\ read_buf' = <<>> /\ buf_size' = 0
    BY <1>7, <1>10, <1>19
  <2>2. /\ delivered \in Seq(Seq(Byte)) /\ Len(delivered) \in Nat
        /\ DOMAIN delivered = 1..Len(delivered)
    BY LenProperties DEF ReaderTyped
  <2>3. /\ delivered' \in Seq(Seq(Byte)) /\ Len(delivered') = first
        /\ delivered'[first] = body
        /\ \A j \in 1..Len(delivered) : delivered'[j] = delivered[j]
    BY <1>16, <2>1, <2>2, AppendProperties DEF first
  <2>4. DOMAIN delivered' = 1..first
    BY <2>3, LenProperties
  <2>5. ReaderTyped'
    <3>1. <<>> \in Seq(Byte)
      BY EmptySeq
    <3> QED
      BY <1>8, <1>9, <1>10, <1>16, <2>1, <2>3, <3>1 DEF ReaderTyped
  <2>6. first' = first + 1 /\ Consumed' = 0
    BY <2>1, <2>3 DEF first, Consumed
  <2>7. Position'
    <3>1. ~(HeaderLen + Len(read_buf) + want < MsgLen(sent[first]))
      BY <1>10, <1>11, <1>12, <1>16, <1>19
    <3>2. Whole(z \o r, sent, first + 1, 0)
      BY <1>16, <3>1
    <3> QED
      BY <2>1, <2>6, <3>2 DEF Position
  <2>8. Receiving'
    <3>1. Len(h) <= HeaderLen /\ first <= Len(sent)
      <4>1. Len(sent) \in Nat
        BY <1>8, LenProperties
      <4> QED
        BY <1>7, <1>8, <1>10, <4>1
    <3> QED
      BY <2>1, <2>3, <3>1 DEF Receiving
  <2>9. Framing'
    <3> SUFFICES ASSUME NEW j \in DOMAIN delivered'
                 PROVE  /\ sent[j] \in 1..MaxMsgLen
                        /\ delivered'[j] =
                             [i \in 1..sent[j] |-> [msg |-> j, off |-> HeaderLen + i]]
      BY <2>1 DEF Framing
    <3>1. j \in 1..first
      BY <2>4
    <3>2. CASE j = first
      <4>1. body = [i \in 1..len |-> body[i]]
        <5>1. body = [i \in 1..Len(body) |-> body[i]]
          BY <1>16, LenProperties
        <5> QED
          BY <1>19, <5>1
      <4>2. \A i \in 1..len : body[i] = [msg |-> first, off |-> HeaderLen + i]
        BY <1>16, <1>19 DEF Stretch
      <4>3. body = [i \in 1..len |-> [msg |-> first, off |-> HeaderLen + i]]
        BY <4>1, <4>2
      <4> QED
        BY <1>9, <2>3, <3>2, <4>3
    <3>3. CASE j # first
      <4>1. j \in 1..Len(delivered)
        BY <2>2, <3>1, <3>3 DEF first
      <4> QED
        BY <2>2, <2>3, <4>1 DEF Framing
    <3> QED
      BY <3>2, <3>3
  <2> QED
    BY <2>5, <2>7, <2>8, <2>9
<1> QED
  BY <1>7, <1>18, <1>19

-----------------------------------------------------------------------------
(***************************************************************************)
(* The theorems.                                                           *)
(***************************************************************************)

\* A connection starts with nothing sent and nothing read.
LEMMA ReaderInit == Init => RInv
<1> SUFFICES ASSUME Init PROVE RInv
  OBVIOUS
<1>1. /\ sent = <<>> /\ stream = <<>> /\ inbuf = <<>>
      /\ stat = "request" /\ rstat = "header"
      /\ header = <<>> /\ msg_len = 0
      /\ read_buf = <<>> /\ buf_size = 0 /\ delivered = <<>>
  BY DEF Init
<1>2. HeaderLen \in Nat /\ HeaderLen > 0
  BY ReaderAssumption
<1>3. ReaderTyped
  BY <1>1 DEF ReaderTyped
<1>4. inbuf \o stream = <<>> /\ Len(<<>>) = 0 /\ first = 1 /\ Consumed = 0
  BY <1>1 DEF first, Consumed
<1>5. Position
  BY <1>1, <1>4 DEF Position, Whole, Blocks
<1>6. Receiving /\ Framing
  BY <1>1, <1>2, <1>4 DEF Receiving, Framing
<1> QED
  BY <1>3, <1>5, <1>6 DEF RInv

\* Every step of the reader keeps the invariant.
LEMMA ReaderStep == RInv /\ [Next]_vars => RInv'
<1> SUFFICES ASSUME RInv, [Next]_vars PROVE RInv'
  OBVIOUS
<1>1. CASE \E l \in Lengths : ClientSend(l)
  BY <1>1, SendKeeps
<1>2. ASSUME NEW k \in 1..Len(stream), HandleRequest(k)
      PROVE  RInv'
  <2>1. PICK b, r : Arrived(b, r, k)
    BY DEF Arrived
  <2>2. /\ stat = "request"
        /\ PartOfHeader(b, k) \/ WrongHeader(b) \/ ReadBody(b, k)
    BY <1>2, <2>1 DEF HandleRequest, Arrived
  <2>3. CASE PartOfHeader(b, k)
    BY <2>1, <2>2, <2>3, PartOfHeaderKeeps
  <2>4. CASE WrongHeader(b)
    <3>1. CloseSession
      BY <2>4 DEF WrongHeader
    <3> QED
      BY <3>1, CloseKeeps
  <2>5. CASE ReadBody(b, k)
    BY <2>1, <2>2, <2>5, ReadBodyKeeps
  <2> QED
    BY <2>2, <2>3, <2>4, <2>5
<1>3. CASE \E k \in 1..Len(stream) : HandleRequestBusy(k)
  BY <1>3, BusyKeeps
<1>4. CASE SessionReset
  BY <1>4, ResetKeeps
<1>5. CASE Close
  BY <1>5, CloseKeeps DEF Close
<1>6. CASE UNCHANGED vars
  <2> USE <1>6 DEF vars
  <2>1. ReaderTyped'
    BY DEF RInv, ReaderTyped
  <2>2. first' = first /\ Consumed' = Consumed
    BY DEF first, Consumed
  <2>3. Position'
    BY <2>2 DEF RInv, Position
  <2>4. Receiving'
    BY <2>2 DEF RInv, Receiving
  <2>5. Framing'
    BY DEF RInv, Framing
  <2> QED
    BY <2>1, <2>3, <2>4, <2>5 DEF RInv
<1> QED
  BY <1>1, <1>2, <1>3, <1>4, <1>5, <1>6 DEF Next

\* The stream is read in step with its messages, in every reachable state.
THEOREM ReaderInvariance == Spec => []RInv
  BY ReaderInit, ReaderStep, PTL DEF Spec

\* Neither bufferevent_read of handle_request overruns its buffer, whatever
\* length fields the clients write.
THEOREM ReadsStayInBounds == Spec => []InBounds
<1>1. RInv => InBounds
  <2> SUFFICES ASSUME RInv PROVE InBounds
    OBVIOUS
  <2>1. Len(<<>>) = 0 /\ MaxMsgLen \in Nat
    BY ReaderAssumption
  <2>2. Len(header) <= HeaderLen
    BY DEF RInv, Receiving
  <2>3. CASE stat = "request" /\ rstat # "header"
    <3>1. /\ msg_len \in 1..MaxMsgLen /\ buf_size = msg_len
          /\ Len(read_buf) < msg_len
      BY <2>3 DEF RInv, Receiving
    <3>2. Len(read_buf) \in Nat
      BY LenProperties DEF RInv, ReaderTyped
    <3> QED
      BY <2>1, <2>2, <3>1, <3>2 DEF InBounds, read_header_len, read_msg_len
  <2>4. CASE ~(stat = "request" /\ rstat # "header")
    <3>1. read_buf = <<>> /\ buf_size = 0
      BY <2>4 DEF RInv, Receiving
    <3> QED
      BY <2>1, <2>2, <2>4, <3>1 DEF InBounds, read_header_len, read_msg_len
  <2> QED
    BY <2>3, <2>4
<1> QED
  BY <1>1, ReaderInvariance, PTL

\* However the stream is cut, parseEvent gets message after message, each
\* complete, none skipped.
THEOREM MessagesAreFramed == Spec => []Framing
<1>1. RInv => Framing
  BY DEF RInv
<1> QED
  BY <1>1, ReaderInvariance, PTL

\* Byte after byte, and message after message.
Follows(x, y, s) ==
    \/ y = [msg |-> x.msg, off |-> x.off + 1]
    \/ /\ x.off = HeaderLen + BodyLen(s[x.msg])
       /\ y = [msg |-> x.msg + 1, off |-> 1]

InOrder(w, s, f) ==
    /\ w = <<>> <=> f > Len(s)
    /\ w # <<>> => w[1] = [msg |-> f, off |-> 1]
    /\ \A i \in 1..(Len(w) - 1) : Follows(w[i], w[i + 1], s)

\* What was read of a message and what is left of the stream are one sequence
\* of messages.
LEMMA HeldInOrder ==
  ASSUME NEW c \in Seq(Byte), NEW u \in Seq(Byte), NEW s \in Seq(Lengths), NEW f \in Nat,
         Stretch(c, f, 0), Whole(u, s, f, Len(c))
  PROVE  InOrder(c \o u, s, f)
<1>1. PICK w : w = c \o u
  OBVIOUS
<1>2. PICK n : n = Len(c)
  OBVIOUS
<1>3. PICK q : q = Len(u)
  OBVIOUS
<1>4. n \in Nat /\ q \in Nat /\ Len(s) \in Nat
  BY <1>2, <1>3, LenProperties
<1>5. /\ w \in Seq(Byte) /\ Len(w) = n + q
      /\ \A i \in 1..(n + q) : w[i] = IF i <= n THEN c[i] ELSE u[i - n]
  BY <1>1, <1>2, <1>3, ConcatProperties
<1>6. Whole(u, s, f, n)
  BY <1>2
<1>7. \A i \in 1..n : w[i] = [msg |-> f, off |-> i]
  <2> SUFFICES ASSUME NEW i \in 1..n PROVE w[i] = [msg |-> f, off |-> i]
    OBVIOUS
  <2>1. i \in 1..(n + q) /\ i <= n /\ 0 + i = i
    BY <1>4
  <2> QED
    BY <1>2, <1>5, <2>1 DEF Stretch
<1>8. \A j \in 1..q : w[n + j] = u[j]
  <2> SUFFICES ASSUME NEW j \in 1..q PROVE w[n + j] = u[j]
    OBVIOUS
  <2>1. n + j \in 1..(n + q) /\ ~(n + j <= n) /\ (n + j) - n = j
    BY <1>4
  <2> QED
    BY <1>5, <2>1
<1>9. q = 0 => f = Len(s) + 1 /\ n = 0
  BY <1>3, <1>6 DEF Whole
<1>10. q # 0 => f \in 1..Len(s) /\ u[1] = [msg |-> f, off |-> n + 1]
  <2> SUFFICES ASSUME q # 0 PROVE f \in 1..Len(s) /\ u[1] = [msg |-> f, off |-> n + 1]
    OBVIOUS
  <2>1. Len(u) > 0
    BY <1>3, <1>4
  <2>2. f \in 1..Len(s)
    BY <1>4, <1>6, <2>1, WholeFront
  <2> QED
    BY <1>3, <1>6, <2>2 DEF Whole
<1>11. w = <<>> <=> q = 0
  <2>1. w = <<>> <=> Len(w) = 0
    BY <1>5, EmptySeq
  <2> QED
    BY <1>4, <1>5, <1>9, <2>1
<1>12. w = <<>> <=> f > Len(s)
  BY <1>4, <1>9, <1>10, <1>11
<1>13. ASSUME w # <<>> PROVE w[1] = [msg |-> f, off |-> 1]
  <2>1. CASE n = 0
    <3>1. 1 \in 1..q /\ n + 1 = 1
      BY <1>4, <1>11, <1>13, <2>1
    <3> QED
      BY <1>8, <1>10, <1>11, <1>13, <3>1
  <2>2. CASE n # 0
    <3>1. 1 \in 1..n
      BY <1>4, <2>2
    <3> QED
      BY <1>7, <3>1
  <2> QED
    BY <2>1, <2>2
<1>14. ASSUME NEW i \in 1..(Len(w) - 1) PROVE Follows(w[i], w[i + 1], s)
  <2>0. i \in Nat /\ i > 0 /\ i + 1 <= n + q
    BY <1>4, <1>5
  <2>1. CASE i < n
    <3>1. i \in 1..n /\ i + 1 \in 1..n
      BY <1>4, <2>0, <2>1
    <3>2. w[i] = [msg |-> f, off |-> i]
      BY <1>7, <3>1
    <3>3. w[i + 1] = [msg |-> f, off |-> i + 1]
      <4>1. PICK h : h = i + 1
        OBVIOUS
      <4>2. w[h] = [msg |-> f, off |-> h]
        BY <1>7, <3>1, <4>1
      <4> QED
        BY <4>1, <4>2
    <3> QED
      BY <3>2, <3>3 DEF Follows
  <2>2. CASE i = n
    <3>1. i \in 1..n /\ 1 \in 1..q /\ q # 0
      BY <1>4, <2>0, <2>2
    <3>2. w[n + 1] = [msg |-> f, off |-> n + 1]
      BY <1>8, <1>10, <3>1
    <3>3. w[i] = [msg |-> f, off |-> n]
      BY <1>7, <2>2, <3>1
    <3> QED
      BY <2>2, <3>2, <3>3 DEF Follows
  <2>3. CASE i > n
    <3>1. PICK j : j = i - n
      OBVIOUS
    <3>2. /\ j \in 1..q /\ j \in 1..(Len(u) - 1) /\ j \in 1..Len(u) /\ j + 1 \in 1..q
          /\ n + j = i /\ n + (j + 1) = i + 1 /\ j \in Nat
      BY <1>3, <1>4, <2>0, <2>3, <3>1
    <3>3. w[i] = u[j]
      BY <1>8, <3>2
    <3>4. w[i + 1] = u[j + 1]
      BY <1>8, <3>2
    <3>5. PICK mk : mk = MsgLen(s[u[j].msg])
      OBVIOUS
    <3>6. PICK o : o = u[j].off
      OBVIOUS
    <3>7. u[j].msg \in 1..Len(s) /\ o \in 1..mk /\ mk \in Nat /\ o \in Nat
      <4>1. u[j].msg \in 1..Len(s) /\ o \in 1..mk
        BY <1>6, <3>2, <3>5, <3>6 DEF Whole
      <4>2. s[u[j].msg] \in Lengths
        BY <4>1, ElementOfSeq
      <4>3. mk \in Nat
        BY <3>5, <4>2, MsgLenFacts
      <4> QED
        BY <4>1, <4>3
    <3>8. CASE o = mk
      <4>1. u[j + 1] = [msg |-> u[j].msg + 1, off |-> 1]
        BY <1>6, <3>2, <3>5, <3>6, <3>8 DEF Whole
      <4> QED
        BY <3>3, <3>4, <3>5, <3>6, <3>8, <4>1 DEF Follows, MsgLen
    <3>9. CASE o # mk
      <4>1. j + 1 \in 1..(j + mk - o) /\ j + 1 > j - o /\ o + (j + 1) - j = o + 1
        BY <3>2, <3>7, <3>9
      <4>2. \A h \in 1..(j + mk - o) : h > j - o =>
               u[h] = [msg |-> u[j].msg, off |-> o + h - j]
        BY <1>6, <3>2, <3>5, <3>6 DEF Whole, Blocks
      <4>3. u[j + 1] = [msg |-> u[j].msg, off |-> o + 1]
        <5>1. PICK h : h = j + 1
          OBVIOUS
        <5>2. u[h] = [msg |-> u[j].msg, off |-> o + h - j]
          BY <4>1, <4>2, <5>1
        <5> QED
          BY <4>1, <5>1, <5>2
      <4> QED
        BY <3>3, <3>4, <3>6, <4>3 DEF Follows
    <3> QED
      BY <3>8, <3>9
  <2> QED
    BY <1>4, <2>0, <2>1, <2>2, <2>3
<1> QED
  BY <1>1, <1>12, <1>13, <1>14 DEF InOrder

\* Session, input buffer and socket together hold every byte that was not
\* delivered, in order: handle_request loses none and reads none twice.
THEOREM BytesAreKept == Spec => []NoByteLost
<1>1. RInv => NoByteLost
  <2> SUFFICES ASSUME RInv, stat # "closed" PROVE NoByteLost
    BY DEF NoByteLost
  <2>1. /\ sent \in Seq(Lengths) /\ header \in Seq(Byte) /\ read_buf \in Seq(Byte)
        /\ inbuf \in Seq(Byte) /\ stream \in Seq(Byte) /\ first \in Nat
        /\ HeaderLen \in Nat /\ Len(header) \in Nat /\ Len(read_buf) \in Nat
    BY LenProperties, ReaderAssumption DEF RInv, ReaderTyped, first
  <2>2. inbuf \o stream \in Seq(Byte)
    BY <2>1, ConcatProperties
  <2>3. CASE stat = "request"
    <3>1. PICK c : c = header \o read_buf
      OBVIOUS
    <3>2. /\ c \in Seq(Byte) /\ Len(c) = Len(header) + Len(read_buf)
          /\ \A i \in 1..(Len(header) + Len(read_buf)) :
               c[i] = IF i <= Len(header) THEN header[i] ELSE read_buf[i - Len(header)]
      BY <2>1, <3>1, ConcatProperties
    <3>3. Whole(inbuf \o stream, sent, first, Len(c))
      BY <2>3, <3>2 DEF RInv, Position, Consumed
    <3>4. Stretch(c, first, 0)
      <4> SUFFICES ASSUME NEW i \in 1..Len(c) PROVE c[i] = [msg |-> first, off |-> 0 + i]
        BY DEF Stretch
      <4>1. 0 + i = i /\ i \in 1..(Len(header) + Len(read_buf)) /\ i \in Nat
        BY <2>1, <3>2
      <4>2. CASE i <= Len(header)
        <5>1. i \in 1..Len(header)
          BY <2>1, <4>1, <4>2
        <5>2. header[i] = [msg |-> first, off |-> i]
          BY <2>3, <5>1 DEF RInv, Receiving
        <5> QED
          BY <3>2, <4>1, <4>2, <5>2
      <4>3. CASE ~(i <= Len(header))
        <5>1. PICK j : j = i - Len(header)
          OBVIOUS
        <5>2. j \in 1..Len(read_buf) /\ j > 0 /\ Len(header) + j = i
          BY <2>1, <4>1, <4>3, <5>1
        <5>3. read_buf[j] = [msg |-> first, off |-> HeaderLen + j]
          BY <2>3, <5>2 DEF RInv, Receiving
        <5>4. Len(header) = HeaderLen
          <6>1. rstat = "header" => read_buf = <<>>
            BY <2>3 DEF RInv, Receiving
          <6>2. rstat # "header" => Len(header) = HeaderLen
            BY <2>3 DEF RInv, Receiving
          <6>3. read_buf # <<>>
            BY <2>1, <5>2
          <6> QED
            BY <6>1, <6>2, <6>3
        <5> QED
          BY <3>2, <4>1, <4>3, <5>1, <5>2, <5>3, <5>4
      <4> QED
        BY <4>2, <4>3
    <3>5. InOrder(c \o (inbuf \o stream), sent, first)
      BY <2>1, <2>2, <3>2, <3>3, <3>4, HeldInOrder
    <3>6. header \o read_buf \o inbuf \o stream = c \o (inbuf \o stream)
      <4>1. c \in Seq(Byte)
        BY <3>2
      <4>2. (c \o inbuf) \o stream = c \o (inbuf \o stream)
        BY <2>1, <4>1, BytesAssociative
      <4> QED
        BY <3>1, <4>2
    <3>7. InOrder(header \o read_buf \o inbuf \o stream, sent, first)
      BY <3>5, <3>6
    <3> QED
      BY <2>3, <3>7 DEF NoByteLost, InOrder, Follows, first
  <2>4. CASE stat # "request"
    <3>1. PICK c \in Seq(Byte) : c = <<>>
      BY EmptySeq
    <3>2. Len(c) = 0 /\ Stretch(c, first, 0)
      BY <3>1 DEF Stretch
    <3>3. Whole(inbuf \o stream, sent, first, Len(c))
      BY <2>4, <3>2 DEF RInv, Position, Consumed
    <3>4. InOrder(c \o (inbuf \o stream), sent, first)
      BY <2>1, <2>2, <3>2, <3>3, HeldInOrder
    <3>5. c \o (inbuf \o stream) = inbuf \o stream
      BY <2>2, <3>1, ConcatEmptySeq
    <3>6. InOrder(inbuf \o stream, sent, first)
      BY <3>4, <3>5
    <3> QED
      BY <2>4, <3>6 DEF NoByteLost, InOrder, Follows, first
  <2> QED
    BY <2>3, <2>4
<1> QED
  BY <1>1, ReaderInvariance, PTL
=============================================================================
