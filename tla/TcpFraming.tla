----------------------------- MODULE TcpFraming -----------------------------
(***************************************************************************)
(* The receive loop of a TCP session: tcp_session_receive_message in       *)
(* src/port/linux/tcpsession.c, with get_total_length_from_header.         *)
(*                                                                         *)
(* The peer writes whole frames (CoAP-over-TCP messages, or TLS records    *)
(* when the endpoint is SECURED) into the connection; TCP hands them to    *)
(* the receiver in arbitrary segments.  Every time select() reports the    *)
(* socket readable, the network thread reads one frame into a message     *)
(* buffer: a first recv of at most DEFAULT_RECEIVE_SIZE bytes, the frame   *)
(* length taken from the header in the buffer, then recv until the buffer  *)
(* holds that many bytes.  The buffer is reused, so the bytes past what    *)
(* has been received are whatever the buffer held before (StaleBytes).     *)
(***************************************************************************)
EXTENDS Naturals, Sequences, SequencesExt

CONSTANTS
    Frames,      \* the frames the peer may write, each a sequence of bytes
    MaxFrames,   \* bound on the number of frames the peer writes
    StaleBytes,  \* values an unwritten byte of the message buffer may hold
    MaxPdu,      \* OC_MAX_APP_DATA_SIZE + COAP_MAX_HEADER_SIZE
    Secured,     \* the endpoint has the SECURED flag (TLS records)
    Blocking     \* O_NONBLOCK is cleared on the session's socket

ASSUME /\ Frames # {} /\ \A f \in Frames : Len(f) >= 1
       /\ MaxFrames \in Nat \ {0} /\ StaleBytes # {}
       /\ MaxPdu \in Nat /\ Secured \in BOOLEAN /\ Blocking \in BOOLEAN

VARIABLES
    sentFrames,  \* the frames the peer has written, in order (history)
    sent,        \* the bytes the peer has written
    arrived,     \* how many of them are in the socket's receive buffer
    consumed,    \* how many of them recv has returned
    peerClosed,  \* the peer has shut the connection down (FIN)
    pc,          \* "idle" between calls, "loop" inside the do-while
    msg,         \* message->data[0 .. message->length - 1]
    want,        \* want_read
    total,       \* total_length
    delivered,   \* the messages returned with ADAPTER_STATUS_RECEIVE
    outcome      \* "open", or how free_session_locked was reached

vars == <<sentFrames, sent, arrived, consumed, peerClosed, pc, msg, want,
          total, delivered, outcome>>

(* COAP_TCP_DEFAULT_HEADER_LEN + COAP_TCP_MAX_EXTENDED_LENGTH_LEN *)
DEFAULT_RECEIVE_SIZE_PLUS_ONE == 7
DEFAULT_RECEIVE_SIZE == 6
TLS_HEADER_SIZE == 5

(* The bytes get_total_length_from_header may read: the received prefix   *)
(* of message->data followed by whatever the buffer held past it.          *)
Buffers(m) == { m \o pad : pad \in [1 .. DEFAULT_RECEIVE_SIZE -> StaleBytes] }

(* coap_tcp_get_packet_size (RFC 8323 section 3.2): the high nibble of     *)
(* the first byte is Len, the low nibble the token length; Len 13, 14, 15  *)
(* announce 1, 2, 4 extended length bytes after the code byte.             *)
ExtLen(n) == CASE n = 13 -> 1 [] n = 14 -> 2 [] n = 15 -> 4 [] OTHER -> 0
ExtBase(n) == CASE n = 13 -> 13 [] n = 14 -> 269 [] n = 15 -> 65805
                [] OTHER -> n
BigEndian(d, from, k) == FoldLeft(LAMBDA acc, b : acc * 256 + b, 0,
                                  SubSeq(d, from, from + k - 1))
CoapPacketSize(d) ==
    LET n == d[1] \div 16
    IN  2 + ExtLen(n) + (d[1] % 16) + ExtBase(n) + BigEndian(d, 3, ExtLen(n))

(* get_total_length_from_header *)
TotalLength(d) ==
    IF Secured THEN TLS_HEADER_SIZE + BigEndian(d, 4, 2)
               ELSE CoapPacketSize(d)

(* The check "to avoid buffer overflow" after the header is read. *)
PduTooLargeOrEqual(t) == t >= MaxPdu
PduTooLarge(t) == t > MaxPdu

(* want_read once the header is known: what is left of the frame after    *)
(* the count bytes of the first recv.                                      *)
WantAfterHeaderPlusOne(t, count) == t - count + 1
WantAfterHeader(t, count) == t - count

(* The do-while condition. *)
MoreToRead(t, len) == t > len

Available == arrived - consumed
Eof == peerClosed /\ consumed = Len(sent)

-----------------------------------------------------------------------------
Init ==
    /\ sentFrames = <<>> /\ sent = <<>>
    /\ arrived = 0 /\ consumed = 0 /\ peerClosed = FALSE
    /\ pc = "idle" /\ msg = <<>> /\ want = 0 /\ total = 0
    /\ delivered = <<>> /\ outcome = "open"

(* The peer writes one frame. *)
PeerSend(f) ==
    /\ ~peerClosed /\ Len(sentFrames) < MaxFrames
    /\ sentFrames' = Append(sentFrames, f)
    /\ sent' = sent \o f
    /\ UNCHANGED <<arrived, consumed, peerClosed, pc, msg, want, total,
                   delivered, outcome>>

(* The peer closes its side; the FIN follows the bytes already written. *)
PeerClose ==
    /\ ~peerClosed
    /\ peerClosed' = TRUE
    /\ UNCHANGED <<sentFrames, sent, arrived, consumed, pc, msg, want, total,
                   delivered, outcome>>

(* A TCP segment of any size reaches the receive buffer. *)
Arrive ==
    /\ arrived < Len(sent)
    /\ \E a \in arrived + 1 .. Len(sent) : arrived' = a
    /\ UNCHANGED <<sentFrames, sent, consumed, peerClosed, pc, msg, want,
                   total, delivered, outcome>>

(* tcp_receive_message finds the session in the readable set and enters   *)
(* tcp_session_receive_message (lines 388-391).                            *)
Select ==
    /\ pc = "idle" /\ outcome = "open"
    /\ Available > 0 \/ (peerClosed /\ arrived = Len(sent))
    /\ pc' = "loop" /\ msg' = <<>>
    /\ want' = DEFAULT_RECEIVE_SIZE /\ total' = 0
    /\ UNCHANGED <<sentFrames, sent, arrived, consumed, peerClosed,
                   delivered, outcome>>

(* recv returns count > 0 bytes.  The first time, the header is read from *)
(* the buffer and the frame length checked; the loop ends, and the         *)
(* message is delivered, once the buffer holds total_length bytes.         *)
RecvData(count) ==
    LET m    == msg \o SubSeq(sent, consumed + 1, consumed + count)
        Done(t) == ~MoreToRead(t, Len(m))
    IN
    /\ pc = "loop"
    /\ consumed' = consumed + count /\ msg' = m
    /\ \/ /\ total # 0
          /\ want' = want - count /\ total' = total
          /\ pc' = IF Done(total) THEN "idle" ELSE "loop"
          /\ delivered' = IF Done(total) THEN Append(delivered, m)
                                         ELSE delivered
          /\ UNCHANGED outcome
       \/ /\ total = 0
          /\ \E d \in Buffers(m) :
                LET t == TotalLength(d) IN
                \/ /\ PduTooLarge(t)
                   /\ pc' = "idle" /\ outcome' = "error"
                   /\ UNCHANGED <<want, total, delivered>>
                \/ /\ ~PduTooLarge(t)
                   /\ total' = t /\ want' = WantAfterHeader(t, count)
                   /\ pc' = IF Done(t) THEN "idle" ELSE "loop"
                   /\ delivered' = IF Done(t) THEN Append(delivered, m)
                                              ELSE delivered
                   /\ UNCHANGED outcome
    /\ UNCHANGED <<sentFrames, sent, arrived, peerClosed>>

(* recv on a TCP socket returns all the queued bytes up to want_read;     *)
(* short reads come from how the stream arrives (Arrive).                  *)
Recv ==
    /\ pc = "loop" /\ Available > 0
    /\ RecvData(Min({want, Available}))

(* recv returns 0 at the end of the stream, or -1 with EAGAIN on a         *)
(* non-blocking socket with nothing to read: the session is freed          *)
(* (free_session_locked) and the partial message dropped.  On a blocking   *)
(* socket with nothing to read recv waits, so no step is taken.            *)
RecvNothing ==
    /\ pc = "loop" /\ Available = 0
    /\ Eof \/ ~Blocking
    /\ pc' = "idle"
    /\ outcome' = IF Eof THEN "closed" ELSE "error"
    /\ UNCHANGED <<sentFrames, sent, arrived, consumed, peerClosed, msg, want,
                   total, delivered>>

Next ==
    \/ \E f \in Frames : PeerSend(f)
    \/ PeerClose
    \/ Arrive
    \/ Select
    \/ Recv
    \/ RecvNothing

Spec == Init /\ [][Next]_vars

-----------------------------------------------------------------------------
TypeOK ==
    /\ sentFrames \in Seq(Frames) /\ Len(sentFrames) <= MaxFrames
    /\ sent = FlattenSeq(sentFrames)
    /\ 0 <= consumed /\ consumed <= arrived /\ arrived <= Len(sent)
    /\ peerClosed \in BOOLEAN /\ pc \in {"idle", "loop"}
    /\ pc = "loop" => /\ want \in 1 .. MaxPdu
                      /\ Len(msg) + want <= Max({total, DEFAULT_RECEIVE_SIZE})
    /\ outcome \in {"open", "closed", "error"}
    /\ outcome # "open" => pc = "idle"

(* Every message handed to the CoAP or TLS layer is exactly the next frame *)
(* the peer wrote: the receive loop neither merges two frames nor splits   *)
(* one, whatever the segmentation of the stream.                           *)
FramesIntact == IsPrefix(delivered, sentFrames)

(* The session is torn down with ADAPTER_STATUS_ERROR only when the peer   *)
(* wrote a frame longer than the largest PDU.                              *)
ErrorOnlyOnBadFrame ==
    outcome = "error" =>
        \E i \in 1 .. Len(sentFrames) : TotalLength(sentFrames[i]) > MaxPdu
=============================================================================
