------------------------------- MODULE Framing -------------------------------
(***************************************************************************)
(* The client's wire framing (src/corpc/corpc_client.cpp).  Encoder::encode *)
(* stores a 20-byte request head into the Sender's buffer with native      *)
(* stores of htonl/htonll values, then the body; Decoder::decode loads the *)
(* 12-byte response head with native loads and ntohl/ntohll.  A value is   *)
(* written as its big-endian digits (bytes, most significant first), so   *)
(* the u64 call id needs no integer wider than TLC's.  Both host byte     *)
(* orders are checked: le is chosen once, as a build is.                  *)
(*                                                                         *)
(* The Sender (buffering, flushing) and the server are not in this         *)
(* repository; they are modelled from the spec's contract: on "not enough *)
(* space" the Sender flushes its buffer and calls the Encoder again.      *)
(***************************************************************************)
EXTENDS Naturals, Sequences, SequencesExt

CONSTANTS
    BufSize,     \* the Sender's buffer capacity in bytes
    Sizes,       \* body sizes (ByteSize of the request)
    ServiceIds,  \* u32 service ids, as 4 big-endian digits
    MethodIds,   \* u32 method indexes, as 4 big-endian digits
    CallIds,     \* u64 call ids (caller coroutine pointers), as 8 digits
    NumReqs      \* requests handed to the Sender

Byte == 0..255
RequestHeadSize == 20   \* CORPC_REQUEST_HEAD_SIZE
ResponseHeadSize == 12  \* CORPC_RESPONSE_HEAD_SIZE
BodyByte == 171         \* the serialised body is opaque: one filler byte

Task == [size : Sizes, service : ServiceIds, method : MethodIds, co : CallIds]

VARIABLES
    le,       \* the host is little-endian
    pending,  \* requests the Sender has not yet encoded
    sent,     \* requests encoded, in order
    buf,      \* the Sender's buffer
    sock,     \* bytes written to the socket
    srv,      \* request frames the server has answered
    rsp,      \* response bytes from the server
    decoded   \* response heads Decoder::decode has read

vars == <<le, pending, sent, buf, sock, srv, rsp, decoded>>

-----------------------------------------------------------------------------
(* Conversions                                                             *)

\* The k big-endian digits of n (reference encoding).
RECURSIVE ToBE(_, _)
ToBE(n, k) == IF k = 0 THEN <<>> ELSE ToBE(n \div 256, k - 1) \o <<n % 256>>

\* The number whose big-endian digits are s (reference decoding).
FromBE(s) == FoldLeft(LAMBDA acc, b : acc * 256 + b, 0, s)

\* htonl / htonll / ntohl / ntohll: a byte swap on a little-endian host.
Hton(v) == IF le THEN Reverse(v) ELSE v
Ntoh(v) == IF le THEN Reverse(v) ELSE v

\* The memory bytes of a native store of v, and the value a native load of
\* memory bytes m reads.
Store(v) == IF le THEN Reverse(v) ELSE v
Load(m) == IF le THEN Reverse(m) ELSE m

Body(n) == [i \in 1..n |-> BodyByte]

-----------------------------------------------------------------------------
(* Encoder::encode and Decoder::decode                                     *)

EncodeNoHead(t, space) ==
    IF t.size >= space
    THEN [size |-> 0, bytes |-> <<>>]
    ELSE [size |-> RequestHeadSize + t.size,
          bytes |-> Store(Hton(ToBE(t.size, 4))) \o Store(Hton(t.service))
                    \o Store(Hton(t.method)) \o Store(Hton(t.co)) \o Body(t.size)]

EncodeNoHtonl(t, space) ==
    IF t.size + RequestHeadSize >= space
    THEN [size |-> 0, bytes |-> <<>>]
    ELSE [size |-> RequestHeadSize + t.size,
          bytes |-> Store(Hton(ToBE(t.size, 4))) \o Store(t.service)
                    \o Store(Hton(t.method)) \o Store(Hton(t.co)) \o Body(t.size)]

EncodeSizeBodyOnly(t, space) ==
    IF t.size + RequestHeadSize >= space
    THEN [size |-> 0, bytes |-> <<>>]
    ELSE [size |-> t.size,
          bytes |-> Store(Hton(ToBE(t.size, 4))) \o Store(Hton(t.service))
                    \o Store(Hton(t.method)) \o Store(Hton(t.co)) \o Body(t.size)]

\* The bytes the Encoder writes at the free end of the buffer and the size
\* it reports; size stays 0 (unset) when the frame is refused for space.
Encode(t, space) ==
    IF t.size + RequestHeadSize >= space
    THEN [size |-> 0, bytes |-> <<>>]
    ELSE [size |-> RequestHeadSize + t.size,
          bytes |-> Store(Hton(ToBE(t.size, 4))) \o Store(Hton(t.service))
                    \o Store(Hton(t.method)) \o Store(Hton(t.co)) \o Body(t.size)]

DecodeHeadNoNtohll(head) ==
    [size |-> FromBE(Ntoh(Load(SubSeq(head, 1, 4)))),
     co |-> Load(SubSeq(head, 5, 12))]

\* resphead.size and resphead.callId from the 12 head bytes.
DecodeHead(head) ==
    [size |-> FromBE(Ntoh(Load(SubSeq(head, 1, 4)))),
     co |-> Ntoh(Load(SubSeq(head, 5, 12)))]

-----------------------------------------------------------------------------
(* Stream parsing by the frame format of the spec (section 4.1)            *)

\* The request frames in a byte stream, read with the reference decoding.
RECURSIVE Requests(_)
Requests(s) ==
    IF Len(s) < RequestHeadSize THEN <<>>
    ELSE LET n == FromBE(SubSeq(s, 1, 4)) IN
         IF Len(s) < RequestHeadSize + n THEN <<>>
         ELSE << [size |-> n, service |-> SubSeq(s, 5, 8),
                  method |-> SubSeq(s, 9, 12), co |-> SubSeq(s, 13, 20),
                  body |-> SubSeq(s, 21, 20 + n)] >>
              \o Requests(SubSeq(s, RequestHeadSize + n + 1, Len(s)))

\* The response heads in a byte stream (the pipeline's FOUR_BYTES framing).
RECURSIVE ResponseHeads(_)
ResponseHeads(s) ==
    IF Len(s) < ResponseHeadSize THEN <<>>
    ELSE LET n == FromBE(SubSeq(s, 1, 4)) IN
         IF Len(s) < ResponseHeadSize + n THEN <<>>
         ELSE << SubSeq(s, 1, ResponseHeadSize) >>
              \o ResponseHeads(SubSeq(s, ResponseHeadSize + n + 1, Len(s)))

-----------------------------------------------------------------------------
(* Actions                                                                 *)

Space == BufSize - Len(buf)

\* The Encoder accepts the next request into the space left.
NextFits == pending # <<>> /\ Encode(Head(pending), Space).size > 0

\* The Sender encodes the next request into its buffer and advances by the
\* size the Encoder reports.
SenderEncode ==
    /\ NextFits
    /\ LET r == Encode(Head(pending), Space) IN
         /\ buf' = SubSeq(buf \o r.bytes, 1, Len(buf) + r.size)
    /\ pending' = Tail(pending)
    /\ sent' = Append(sent, Head(pending))
    /\ UNCHANGED <<le, sock, srv, rsp, decoded>>

\* The Sender writes its buffer out when the next frame does not fit or
\* nothing is left to encode.
SenderFlush ==
    /\ buf # <<>>
    /\ ~NextFits
    /\ sock' = sock \o buf
    /\ buf' = <<>>
    /\ UNCHANGED <<le, pending, sent, srv, rsp, decoded>>

\* The server answers the next request frame with the same call id and a
\* body of the same size.
ServerReply ==
    /\ srv < Len(Requests(sock))
    /\ LET f == Requests(sock)[srv + 1] IN
         rsp' = rsp \o ToBE(f.size, 4) \o f.co \o Body(f.size)
    /\ srv' = srv + 1
    /\ UNCHANGED <<le, pending, sent, buf, sock, decoded>>

\* Decoder::decode reads the head of the next complete response frame.
Decode ==
    /\ Len(decoded) < Len(ResponseHeads(rsp))
    /\ decoded' = Append(decoded, DecodeHead(ResponseHeads(rsp)[Len(decoded) + 1]))
    /\ UNCHANGED <<le, pending, sent, buf, sock, srv, rsp>>

\* Every request was written, answered and decoded.
Finished ==
    /\ pending = <<>> /\ buf = <<>>
    /\ srv = Len(sent) /\ Len(decoded) = Len(sent)
    /\ UNCHANGED vars

Init ==
    /\ le \in BOOLEAN
    /\ pending \in [1..NumReqs -> Task]
    /\ sent = <<>>
    /\ buf = <<>>
    /\ sock = <<>>
    /\ srv = 0
    /\ rsp = <<>>
    /\ decoded = <<>>

Next == SenderEncode \/ SenderFlush \/ ServerReply \/ Decode \/ Finished

Spec == Init /\ [][Next]_vars /\ WF_vars(SenderEncode) /\ WF_vars(SenderFlush)
        /\ WF_vars(ServerReply) /\ WF_vars(Decode)

-----------------------------------------------------------------------------
(* Properties                                                              *)

\* The buffer never holds more than BufSize bytes: no frame is written past
\* the space the Sender offered.
TypeOK ==
    /\ le \in BOOLEAN
    /\ pending \in Seq(Task) /\ sent \in Seq(Task)
    /\ buf \in Seq(Byte) /\ Len(buf) <= BufSize
    /\ sock \in Seq(Byte) /\ rsp \in Seq(Byte)
    /\ srv \in Nat

FrameOf(t) ==
    [size |-> t.size, service |-> t.service, method |-> t.method,
     co |-> t.co, body |-> Body(t.size)]

\* Read with the big-endian format of the spec, the bytes written so far
\* (socket, then buffer) are exactly the frames of the encoded requests, in
\* order, with nothing left over: every head field is big-endian on either
\* host, and each reported size covers the bytes written.
RequestFraming ==
    /\ Requests(sock \o buf) = [i \in 1..Len(sent) |-> FrameOf(sent[i])]
    /\ Len(sock \o buf) = FoldLeft(LAMBDA acc, t : acc + RequestHeadSize + t.size,
                                   0, sent)

\* Each decoded response head carries the call id and body size of the
\* request it answers: the call id survives htonll, the wire and ntohll.
CallIdRoundTrip ==
    /\ Len(decoded) <= Len(sent)
    /\ \A i \in 1..Len(decoded) :
         decoded[i] = [size |-> sent[i].size, co |-> sent[i].co]

\* Every request handed to the Sender is eventually written to the socket.
AllSent == <>(pending = <<>> /\ buf = <<>>)

=============================================================================
