------------------------------ MODULE NtsStream ------------------------------
(***************************************************************************)
(* libnts: one direction of an established connection, from nts_write and  *)
(* nts_close at one end to nts_read at the other.                          *)
(*                                                                         *)
(* nts_write cuts its buffer into messages of at most max_payloadsize      *)
(* bytes.  They pass through the sender's channel, the data ring of the    *)
(* partition and the receiver's channel, taken here to be three FIFOs of   *)
(* intact messages.  NtpShm shows that of the channels.  NtbDataLink shows *)
(* it of the data ring only for headers and up to the first packet that is *)
(* dropped; a payload can be torn there.  nts_read takes messages apart    *)
(* again and keeps what does not fit the caller's buffer in ntp_buf.       *)
(*                                                                         *)
(* A byte is known by its position in the stream, a payload by its first   *)
(* position and its length.  nts_read copies the rest of a cached payload  *)
(* over itself with memcpy; the C library's copies overlapping bytes as    *)
(* memmove does.                                                           *)
(***************************************************************************)
EXTENDS Integers, Sequences

CONSTANTS max_payloadsize, \* NTS_CONFIG.max_payloadsize
          ChannelBound,    \* messages a shared-memory channel holds
          LinkBound,       \* packets the data ring holds
          MaxWrite,        \* bound on the nbytes of an nts_write
          MaxRead,         \* bound on the nbytes of an nts_read
          MaxBytes         \* bound on the length of the stream

ASSUME SizeAssumption ==
    /\ max_payloadsize \in Nat \ {0}
    /\ ChannelBound \in Nat \ {0} /\ LinkBound \in Nat \ {0}
    /\ MaxWrite \in Nat /\ MaxRead \in Nat /\ MaxBytes \in Nat

VARIABLES
    sendRing, link, recvRing, \* the messages on their way
    written,        \* how many bytes were put into messages
    write_left,     \* nbytes - write_bytes of the nts_write under way, or 0
    closed,         \* nts_close has sent NTP_NTS_MSG_FIN
    read_pc,        \* the step of nts_read
    payload,        \* payload and bytes_left: what it is copying from
    is_cached,
    buf_avail_bytes, bytes_read,
    cache,          \* ntp_buf and ntp_buflen
    held,           \* packets taken from the pool's ring and not freed
    eof,            \* the socket is CLOSED: nts_read has met the FIN
    piece, copied,  \* what was last copied to a caller, how many bytes in all
    returned        \* how many of them calls have reported

writer == <<written, write_left, closed>>
reader == <<read_pc, payload, is_cached, buf_avail_bytes, bytes_read, cache, held, eof, piece, copied, returned>>
vars == <<sendRing, link, recvRing, writer, reader>>

Bytes(first, len) == [first |-> first, len |-> len]
DATA(first, len) == [type |-> "DATA", first |-> first, len |-> len]
FIN == [type |-> "FIN", first |-> written, len |-> 0]

Init ==
    /\ sendRing = <<>> /\ link = <<>> /\ recvRing = <<>>
    /\ written = 0 /\ write_left = 0 /\ closed = FALSE
    /\ read_pc = "idle"
    /\ payload = Bytes(0, 0) /\ cache = Bytes(0, 0) /\ piece = Bytes(0, 0)
    /\ is_cached = FALSE
    /\ buf_avail_bytes = 0 /\ bytes_read = 0
    /\ held = 0
    /\ eof = FALSE
    /\ copied = 0 /\ returned = 0

-----------------------------------------------------------------------------
(* nts_write and nts_close.                                                *)

nts_write(nbytes) ==
    /\ ~ closed
    /\ write_left = 0
    /\ written + nbytes <= MaxBytes
    /\ write_left' = nbytes
    /\ UNCHANGED <<sendRing, link, recvRing, written, closed, reader>>

\* The length of the next message: all that is left or a full payload.
next_msg_len == IF write_left <= max_payloadsize THEN write_left ELSE max_payloadsize

\* ntp_shm_send spins while the ring is full.
WriteMessage ==
    /\ write_left > 0
    /\ Len(sendRing) < ChannelBound
    /\ sendRing' = Append(sendRing, DATA(written, next_msg_len))
    /\ written' = written + next_msg_len
    /\ write_left' = write_left - next_msg_len
    /\ UNCHANGED <<link, recvRing, closed, reader>>

nts_close ==
    /\ ~ closed
    /\ write_left = 0
    /\ Len(sendRing) < ChannelBound
    /\ sendRing' = Append(sendRing, FIN)
    /\ closed' = TRUE
    /\ UNCHANGED <<link, recvRing, written, write_left, reader>>

-----------------------------------------------------------------------------
(* The two proxies.                                                        *)

ntp_send_buff_data ==
    /\ sendRing # <<>>
    /\ Len(link) < LinkBound
    /\ link' = Append(link, Head(sendRing))
    /\ sendRing' = Tail(sendRing)
    /\ UNCHANGED <<recvRing, writer, reader>>

ntp_recv_data_to_buf ==
    /\ link # <<>>
    /\ Len(recvRing) < ChannelBound
    /\ recvRing' = Append(recvRing, Head(link))
    /\ link' = Tail(link)
    /\ UNCHANGED <<sendRing, writer, reader>>

-----------------------------------------------------------------------------
(* nts_read.                                                               *)

\* A cached payload is read without a look at the ring.
nts_read(nbytes) ==
    /\ read_pc = "idle"
    /\ ~ eof
    /\ buf_avail_bytes' = nbytes
    /\ bytes_read' = 0
    /\ is_cached' = (cache.len > 0)
    /\ payload' = cache
    /\ read_pc' = IF cache.len > 0 THEN "copy" ELSE "front"
    /\ UNCHANGED <<sendRing, link, recvRing, writer, cache, held, eof, piece, copied, returned>>

\* ntp_shm_front, then ntp_shm_pop of a data message.
PopMessage ==
    /\ read_pc = "front"
    /\ recvRing # <<>>
    /\ Head(recvRing).type = "DATA"
    /\ recvRing' = Tail(recvRing)
    /\ payload' = Bytes(Head(recvRing).first, Head(recvRing).len)
    /\ held' = held + 1
    /\ read_pc' = "copy"
    /\ UNCHANGED <<sendRing, link, writer, is_cached, buf_avail_bytes, bytes_read, cache, eof, piece, copied, returned>>

\* handle_ntp_fin_msg closes the socket, and the call returns -1.
FrontFin ==
    /\ read_pc = "front"
    /\ recvRing # <<>>
    /\ Head(recvRing).type = "FIN"
    /\ eof' = TRUE
    /\ read_pc' = "idle"
    /\ UNCHANGED <<sendRing, link, recvRing, writer, payload, is_cached, buf_avail_bytes, bytes_read, cache, held,
                   piece, copied, returned>>

\* memcpy of n bytes to the caller.
CopyOut(n) ==
    /\ piece' = Bytes(payload.first, n)
    /\ copied' = copied + n

Rest(n) == Bytes(payload.first + n, payload.len - n)

Return(n) ==
    /\ read_pc' = "idle"
    /\ bytes_read' = bytes_read + n
    /\ returned' = returned + bytes_read + n
    /\ UNCHANGED <<sendRing, link, recvRing, writer, payload, is_cached, buf_avail_bytes, eof>>

CopyShortWaits ==
    /\ read_pc = "copy"
    /\ payload.len < max_payloadsize
    /\ buf_avail_bytes >= payload.len
    /\ CopyOut(payload.len)
    /\ cache' = IF is_cached THEN Bytes(cache.first, 0) ELSE cache
    /\ held' = IF is_cached THEN held ELSE held - 1
    /\ buf_avail_bytes' = buf_avail_bytes - payload.len
    /\ bytes_read' = bytes_read + payload.len
    /\ is_cached' = FALSE
    /\ read_pc' = "front"
    /\ UNCHANGED <<sendRing, link, recvRing, writer, payload, eof, returned>>

CopyShortKeepsPacket ==
    /\ read_pc = "copy"
    /\ payload.len < max_payloadsize
    /\ buf_avail_bytes >= payload.len
    /\ CopyOut(payload.len)
    /\ cache' = Bytes(cache.first, 0)
    /\ held' = held
    /\ Return(payload.len)

\* A short payload that fits: the packet is freed, or the cache emptied.
CopyShort ==
    /\ read_pc = "copy"
    /\ payload.len < max_payloadsize
    /\ buf_avail_bytes >= payload.len
    /\ CopyOut(payload.len)
    /\ cache' = IF is_cached THEN Bytes(cache.first, 0) ELSE cache
    /\ held' = IF is_cached THEN held ELSE held - 1
    /\ Return(payload.len)

CopyShortPartFromStart ==
    /\ read_pc = "copy"
    /\ payload.len < max_payloadsize
    /\ buf_avail_bytes < payload.len
    /\ CopyOut(buf_avail_bytes)
    /\ cache' = Bytes(payload.first, payload.len - buf_avail_bytes)
    /\ held' = IF is_cached THEN held ELSE held - 1
    /\ Return(buf_avail_bytes)

\* A short payload that does not fit: the rest of it is cached.
CopyShortPart ==
    /\ read_pc = "copy"
    /\ payload.len < max_payloadsize
    /\ buf_avail_bytes < payload.len
    /\ CopyOut(buf_avail_bytes)
    /\ cache' = Rest(buf_avail_bytes)
    /\ held' = IF is_cached THEN held ELSE held - 1
    /\ Return(buf_avail_bytes)

\* A full payload and a buffer no larger.  The packet is freed whether or not
\* the payload came from one.
CopyFull ==
    /\ read_pc = "copy"
    /\ payload.len >= max_payloadsize
    /\ buf_avail_bytes <= payload.len
    /\ CopyOut(buf_avail_bytes)
    /\ cache' = IF buf_avail_bytes < payload.len THEN Rest(buf_avail_bytes)
                ELSE IF is_cached THEN Bytes(cache.first, 0) ELSE cache
    /\ held' = held - 1
    /\ Return(buf_avail_bytes)

CopyFullMoreUncounted ==
    /\ read_pc = "copy"
    /\ payload.len >= max_payloadsize
    /\ buf_avail_bytes > payload.len
    /\ CopyOut(payload.len)
    /\ buf_avail_bytes' = buf_avail_bytes - payload.len
    /\ held' = held - 1
    /\ read_pc' = "front"
    /\ UNCHANGED <<sendRing, link, recvRing, writer, payload, is_cached, bytes_read, cache, eof, returned>>

\* A full payload and room for more: the call waits for the next message.
CopyFullMore ==
    /\ read_pc = "copy"
    /\ payload.len >= max_payloadsize
    /\ buf_avail_bytes > payload.len
    /\ CopyOut(payload.len)
    /\ buf_avail_bytes' = buf_avail_bytes - payload.len
    /\ bytes_read' = bytes_read + payload.len
    /\ held' = held - 1
    /\ read_pc' = "front"
    /\ UNCHANGED <<sendRing, link, recvRing, writer, payload, is_cached, cache, eof, returned>>

-----------------------------------------------------------------------------

Writer == WriteMessage \/ nts_close \/ \E n \in 1 .. MaxWrite : nts_write(n)

Proxies == ntp_send_buff_data \/ ntp_recv_data_to_buf

ReadStep == PopMessage \/ FrontFin \/ CopyShort \/ CopyShortPart \/ CopyFull \/ CopyFullMore

Reader == ReadStep \/ \E n \in 1 .. MaxRead : nts_read(n)

Next == Writer \/ Proxies \/ Reader

Spec == Init /\ [][Next]_vars

\* The proxies' threads run on cores of their own, and a call of nts_read, once
\* made, goes on.  Nothing makes an application read, write or close.
FairSpec == Spec /\ WF_vars(ntp_send_buff_data) /\ WF_vars(ntp_recv_data_to_buf) /\ WF_vars(ReadStep)

-----------------------------------------------------------------------------

Payloads == [first : Nat, len : Nat]
Messages == [type : {"DATA", "FIN"}, first : Nat, len : Nat]

\* Counts are natural numbers, the steps those of the code.
TypeOK ==
    /\ sendRing \in Seq(Messages) /\ link \in Seq(Messages) /\ recvRing \in Seq(Messages)
    /\ written \in Nat /\ write_left \in Nat /\ closed \in BOOLEAN
    /\ read_pc \in {"idle", "front", "copy"}
    /\ payload \in Payloads /\ cache \in Payloads /\ piece \in Payloads
    /\ is_cached \in BOOLEAN /\ eof \in BOOLEAN
    /\ buf_avail_bytes \in Nat /\ bytes_read \in Nat /\ copied \in Nat /\ returned \in Nat
    /\ held \in 0 .. 1

\* Every packet popped is freed by the time nts_read returns, and none is freed
\* twice: not when its payload went to the cache, nor when the payload came
\* from there and incoming_data was never set.
PacketsFreed == held = IF read_pc = "copy" /\ ~ is_cached THEN 1 ELSE 0

\* The bytes reported to the application are those copied, but for the call
\* under way; a call that meets the FIN loses what it had copied itself.
OnlyLastCallLost ==
    copied = returned + (IF read_pc = "idle" /\ ~ eof THEN 0 ELSE bytes_read)

\* The messages between the two applications, the oldest first.
Flight == recvRing \o link \o sendRing

\* What nts_read has in hand or in the cache of a message it has popped.
InHand == IF read_pc = "copy" THEN payload.len ELSE cache.len

\* The messages follow one another without gap from position a to position b,
\* each of a legal length, and a FIN is the last one.
Chain(s, a, b) ==
    /\ s = <<>> => a = b
    /\ s # <<>> => s[1].first = a /\ s[Len(s)].first + s[Len(s)].len = b
    /\ \A i \in 1 .. Len(s) :
         /\ i < Len(s) => s[i].first + s[i].len = s[i + 1].first /\ s[i].type = "DATA"
         /\ s[i].first + s[i].len <= b
         /\ s[i].type = "DATA" => s[i].len \in 1 .. max_payloadsize
         /\ s[i].type = "FIN" => s[i].len = 0

\* A cached rest is shorter than a full payload.
CacheState ==
    /\ cache.len > 0 => cache.len < max_payloadsize
    /\ cache.len > 0 /\ read_pc # "copy" => cache.first = copied /\ read_pc = "idle"

\* The payload starts at the next byte; it is the cached one or a message's.
PayloadState ==
    read_pc = "copy" =>
        /\ payload.first = copied
        /\ payload.len \in 1 .. max_payloadsize
        /\ buf_avail_bytes > 0
        /\ IF is_cached THEN cache = payload ELSE cache.len = 0

\* What every step preserves.
IndInv ==
    /\ TypeOK
    /\ Chain(Flight, copied + InHand, written)
    /\ CacheState /\ PayloadState
    /\ PacketsFreed /\ OnlyLastCallLost
    /\ read_pc = "front" => ~ is_cached /\ buf_avail_bytes > 0
    /\ closed => write_left = 0
    /\ eof => closed /\ read_pc = "idle" /\ copied = written
    /\ ~ closed => \A i \in 1 .. Len(Flight) : Flight[i].type = "DATA"
    /\ closed => Flight # <<>> /\ Flight[Len(Flight)].type = "FIN"

Stream == INSTANCE ByteStream

\* What nts_read copies to its callers is the stream that nts_write was given,
\* byte for byte and in order, however the sizes of the calls, the messages and
\* the cached rests fall together; and the end is reported after the last byte.
\* This is about libnts: it supposes a link that delivers intact payloads in order.
ImplementsStream == Stream!StreamSpec

\* An nts_read returns once a message shorter than a full payload, or the FIN,
\* is on its way to it.
ShortMessageEndsRead ==
    (read_pc # "idle" /\ \E i \in DOMAIN sendRing : sendRing[i].len < max_payloadsize)
        ~> read_pc = "idle"
=============================================================================
