--------------------------- MODULE RequestReader ----------------------------
(***************************************************************************)
(* How NetworkInterface::handle_request cuts one connection's byte stream  *)
(* into requests.  The bytes of a request arrive in pieces of any size;    *)
(* the session remembers in read_header_len and read_msg_len how far it    *)
(* has come, and session_reset prepares it for the next request.           *)
(*                                                                         *)
(* A byte is known by the message it belongs to and its offset there.      *)
(* Parsing the first HeaderLen bytes of a message yields its length        *)
(* field; any other bytes are no header.  The length is read from the wire *)
(* as i32 into the u32 msg_len.                                            *)
(***************************************************************************)
EXTENDS Integers, Sequences

CONSTANTS HeaderLen,  \* MESSAGE_HEADER_LEN
          MaxMsgLen,  \* MAX_MSG_LEN
          Lengths,    \* length fields that clients write (i32)
          MaxMsgs,    \* bound: messages per connection
          Width       \* bits of msg_len

\* A length field is a signed integer of Width bits, and the longest message is
\* one that it can express.
ASSUME ReaderAssumption ==
    /\ HeaderLen \in Nat \ {0}
    /\ Width \in Nat /\ 2^Width \in Nat
    /\ MaxMsgLen \in Nat \ {0} /\ 2 * MaxMsgLen < 2^Width
    /\ MaxMsgs \in Nat
    /\ \A l \in Lengths : l \in Int /\ -(2^Width) <= 2 * l /\ 2 * l < 2^Width

VARIABLES
    sent,             \* history: the length fields of the messages sent
    stream,           \* bytes sent and not yet in the input buffer
    inbuf,            \* the input evbuffer
    stat,             \* session_stat, or "closed"
    rstat,            \* req_stat
    header,           \* cs->header[0 .. read_header_len)
    msg_len,
    read_buf,         \* cs->read_buf[0 .. read_msg_len)
    buf_size,         \* bytes allocated for read_buf, 0 if it is NULL
    delivered         \* history: the messages handed to parseEvent

vars == <<sent, stream, inbuf, stat, rstat, header, msg_len, read_buf, buf_size,
          delivered>>

read_header_len == Len(header)
read_msg_len == Len(read_buf)

\* An i32 stored in a u32.
U32(i) == i % 2^Width

\* The bytes of message k with length field l.  A client that writes a wrong
\* length field sends one byte of payload.
BodyLen(l) == IF l \in 1..MaxMsgLen THEN l ELSE 1
Bytes(k, l) == [i \in 1..(HeaderLen + BodyLen(l)) |-> [msg |-> k, off |-> i]]

IsHeader(h) == \A i \in 1..HeaderLen : h[i] = [msg |-> h[1].msg, off |-> i]

Init ==
    /\ sent = <<>> /\ stream = <<>> /\ inbuf = <<>>
    /\ stat = "request" /\ rstat = "header"
    /\ header = <<>>
    /\ msg_len = 0
    /\ read_buf = <<>> /\ buf_size = 0
    /\ delivered = <<>>

ClientSend(l) ==
    /\ stat # "closed"
    /\ Len(sent) < MaxMsgs
    /\ sent' = Append(sent, l)
    /\ stream' = stream \o Bytes(Len(sent) + 1, l)
    /\ UNCHANGED <<inbuf, stat, rstat, header, msg_len, read_buf, buf_size, delivered>>

-----------------------------------------------------------------------------
(***************************************************************************)
(* handle_request, called after libevent moved k bytes into the input      *)
(* buffer, which then holds b.  The header is read first, and in the same  *)
(* call as much of the body as there is.                                   *)
(***************************************************************************)

\* bufferevent_read(bev, dst, want): how many bytes it delivers from b.
ReadCount(b, want) == IF Len(b) < want THEN Len(b) ELSE want

HeaderRead(b) == ReadCount(b, HeaderLen - read_header_len)

\* cs->header after the first bufferevent_read, and the input it leaves.
NewHeader(b) == header \o SubSeq(b, 1, HeaderRead(b))
AfterHeader(b) == SubSeq(b, HeaderRead(b) + 1, Len(b))

\* The length field of a complete header.
LengthOf(h) == U32(sent[h[1].msg])

ValidHeader(h) == IsHeader(h) /\ LengthOf(h) >= 1 /\ LengthOf(h) <= MaxMsgLen

\* bufferevent_free, session_free.
CloseSession ==
    /\ stat' = "closed"
    /\ stream' = <<>> /\ inbuf' = <<>>
    /\ read_buf' = <<>> /\ buf_size' = 0
    /\ UNCHANGED <<sent, rstat, header, msg_len, delivered>>

PartOfHeader(b, k) ==
    /\ Len(NewHeader(b)) < HeaderLen
    /\ header' = NewHeader(b)
    /\ inbuf' = AfterHeader(b)
    /\ stream' = SubSeq(stream, k + 1, Len(stream))
    /\ UNCHANGED <<sent, stat, rstat, msg_len, read_buf, buf_size, delivered>>

WrongHeader(b) ==
    /\ rstat = "header"
    /\ Len(NewHeader(b)) = HeaderLen
    /\ ~ValidHeader(NewHeader(b))
    /\ CloseSession

\* Mutant: bufferevent_read asks for msg_len bytes however many it has.
ReadBody_WholeLength(b, k) ==
    LET h == NewHeader(b)
        rest == AfterHeader(b)
        len == IF rstat = "header" THEN LengthOf(h) ELSE msg_len
        want == ReadCount(rest, len)
        body == read_buf \o SubSeq(rest, 1, want)
    IN  /\ Len(h) = HeaderLen
        /\ rstat = "header" => ValidHeader(h)
        /\ rstat' = "message"
        /\ header' = h
        /\ msg_len' = len
        /\ inbuf' = SubSeq(rest, want + 1, Len(rest))
        /\ stream' = SubSeq(stream, k + 1, Len(stream))
        /\ UNCHANGED sent
        /\ \/ /\ Len(body) # len
              /\ read_buf' = body /\ buf_size' = len
              /\ UNCHANGED <<stat, delivered>>
           \/ /\ Len(body) = len
              /\ stat' = "response"
              /\ delivered' = Append(delivered, body)
              /\ read_buf' = <<>> /\ buf_size' = 0

\* The header is complete: the session reads the body, and hands it to
\* parseEvent when msg_len == read_msg_len.
ReadBody(b, k) ==
    LET h == NewHeader(b)
        rest == AfterHeader(b)
        len == IF rstat = "header" THEN LengthOf(h) ELSE msg_len
        want == ReadCount(rest, len - read_msg_len)
        body == read_buf \o SubSeq(rest, 1, want)
    IN  /\ Len(h) = HeaderLen
        /\ rstat = "header" => ValidHeader(h)
        /\ rstat' = "message"
        /\ header' = h
        /\ msg_len' = len
        /\ inbuf' = SubSeq(rest, want + 1, Len(rest))
        /\ stream' = SubSeq(stream, k + 1, Len(stream))
        /\ UNCHANGED sent
        /\ \/ /\ Len(body) < len
              /\ read_buf' = body /\ buf_size' = len
              /\ UNCHANGED <<stat, delivered>>
           \/ /\ Len(body) = len
              /\ stat' = "response"
              /\ delivered' = Append(delivered, body)
              /\ read_buf' = <<>> /\ buf_size' = 0

HandleRequest(k) ==
    /\ stat = "request"
    /\ LET b == inbuf \o SubSeq(stream, 1, k)
       IN  PartOfHeader(b, k) \/ WrongHeader(b) \/ ReadBody(b, k)

\* Mutant: input that arrives while a response is due is drained.
HandleRequestBusy_Drain(k) ==
    /\ stat = "response"
    /\ inbuf' = <<>>
    /\ stream' = SubSeq(stream, k + 1, Len(stream))
    /\ UNCHANGED <<sent, stat, rstat, header, msg_len, read_buf, buf_size,
                   delivered>>

\* A response is due: the bytes stay in the input buffer.
HandleRequestBusy(k) ==
    /\ stat = "response"
    /\ inbuf' = inbuf \o SubSeq(stream, 1, k)
    /\ stream' = SubSeq(stream, k + 1, Len(stream))
    /\ UNCHANGED <<sent, stat, rstat, header, msg_len, read_buf, buf_size, delivered>>

\* Mutant: read_header_len is not reset.
SessionReset_KeepHeader ==
    /\ stat = "response"
    /\ stat' = "request"
    /\ rstat' = "header"
    /\ msg_len' = 0
    /\ read_buf' = <<>> /\ buf_size' = 0
    /\ UNCHANGED <<sent, stream, inbuf, header, delivered>>

\* send_response_msg: the response is written, then session_reset.
SessionReset ==
    /\ stat = "response"
    /\ stat' = "request"
    /\ rstat' = "header"
    /\ header' = <<>>
    /\ msg_len' = 0
    /\ read_buf' = <<>> /\ buf_size' = 0
    /\ UNCHANGED <<sent, stream, inbuf, delivered>>

\* parseEvent knows no such event, or handle_error: the session is freed.
Close ==
    /\ stat # "closed"
    /\ CloseSession

Next ==
    \/ \E l \in Lengths : ClientSend(l)
    \/ \E k \in 1..Len(stream) : HandleRequest(k) \/ HandleRequestBusy(k)
    \/ SessionReset
    \/ Close
    \/ stat = "closed" /\ UNCHANGED vars

Spec == Init /\ [][Next]_vars

-----------------------------------------------------------------------------

\* No read overruns its buffer: neither the ten bytes of the header (with its
\* terminating zero behind them) nor the msg_len bytes allocated for the body.
\* The second bufferevent_read asks for at least one byte.
InBounds ==
    /\ read_header_len <= HeaderLen
    /\ read_msg_len <= buf_size
    /\ buf_size <= MaxMsgLen
    /\ stat = "request" /\ rstat = "message" =>
         buf_size = msg_len /\ read_msg_len < msg_len

\* However the stream was cut, what parseEvent gets is message after message,
\* each complete, from its first byte to its last, none skipped.
Framing ==
    \A k \in DOMAIN delivered :
        /\ sent[k] \in 1..MaxMsgLen
        /\ delivered[k] = [i \in 1..sent[k] |-> [msg |-> k, off |-> HeaderLen + i]]

\* The session and the buffers together hold every byte that has not been
\* delivered yet, in order: no byte is lost or read twice.
NoByteLost ==
    stat # "closed" =>
        LET first == Len(delivered) + 1
            held == IF stat = "request" THEN header \o read_buf \o inbuf \o stream
                                        ELSE inbuf \o stream
        IN  /\ held = <<>> <=> first > Len(sent)
            /\ held # <<>> => held[1] = [msg |-> first, off |-> 1]
            /\ \A i \in 1..(Len(held) - 1) :
                 \/ held[i+1] = [msg |-> held[i].msg, off |-> held[i].off + 1]
                 \/ /\ held[i].off = HeaderLen + BodyLen(sent[held[i].msg])
                    /\ held[i+1] = [msg |-> held[i].msg + 1, off |-> 1]
=============================================================================
