-------------------------- MODULE NtsStreamProofs --------------------------
(***************************************************************************)
(* Proofs about NtsStream for every payload size and every size of the     *)
(* channels: nts_read gives its callers the stream that nts_write was      *)
(* given.                                                                  *)
(***************************************************************************)
EXTENDS NtsStream, SequenceTheorems, TLAPS

-----------------------------------------------------------------------------
(* Messages move along without changing what is in flight.                 *)

\* Appending to the last of three queues appends to the whole.
LEMMA FlightAppend ==
  ASSUME NEW S, NEW r \in Seq(S), NEW l \in Seq(S), NEW s \in Seq(S), NEW m \in S
  PROVE  /\ r \o l \o s \in Seq(S)
         /\ r \o l \o Append(s, m) = Append(r \o l \o s, m)
<1>1. r \o l \in Seq(S) /\ r \o l \o s \in Seq(S) /\ Append(s, m) \in Seq(S)
  OBVIOUS
<1>2. /\ r \o l \o Append(s, m) \in Seq(S)
      /\ Append(r \o l \o s, m) \in Seq(S)
  BY <1>1
<1>3. Len(r \o l \o Append(s, m)) = Len(Append(r \o l \o s, m))
  BY <1>1
<1>4. \A i \in 1 .. Len(r \o l \o Append(s, m)) : (r \o l \o Append(s, m))[i] = Append(r \o l \o s, m)[i]
  BY <1>1
<1>5. QED
  BY <1>1, <1>2, <1>3, <1>4, SeqEqual, Zenon

\* What leaves the head of one queue and joins the tail of the one before keeps
\* its place.
LEMMA MoveHead ==
  ASSUME NEW S, NEW a \in Seq(S), NEW b \in Seq(S), b # <<>>
  PROVE  Append(a, Head(b)) \o Tail(b) = a \o b
<1>1. Head(b) \in S /\ Tail(b) \in Seq(S) /\ Len(Tail(b)) = Len(b) - 1 /\ Head(b) = b[1]
      /\ \A i \in 1 .. Len(Tail(b)) : Tail(b)[i] = b[i + 1]
  BY HeadTailProperties
<1>2. Append(a, Head(b)) \in Seq(S)
  BY <1>1
<1>3. Append(a, Head(b)) \o Tail(b) \in Seq(S) /\ a \o b \in Seq(S)
  BY <1>1, <1>2
<1>4. Len(Append(a, Head(b)) \o Tail(b)) = Len(a \o b)
  BY <1>1, <1>2
<1>5. \A i \in 1 .. Len(a \o b) : (Append(a, Head(b)) \o Tail(b))[i] = (a \o b)[i]
  BY <1>1, <1>2
<1>6. \A i \in 1 .. Len(Append(a, Head(b)) \o Tail(b)) : (Append(a, Head(b)) \o Tail(b))[i] = (a \o b)[i]
  BY <1>4, <1>5, Zenon
<1>7. QED
  BY <1>3, <1>4, <1>6, SeqEqual, Zenon

\* Popping from the first queue pops from the whole.
LEMMA FlightTail ==
  ASSUME NEW r \in Seq(Messages), NEW l \in Seq(Messages), NEW s \in Seq(Messages), r # <<>>
  PROVE  /\ r \o l \o s \in Seq(Messages) /\ r \o l \o s # <<>>
         /\ (r \o l \o s)[1] = Head(r)
         /\ Tail(r) \o l \o s = Tail(r \o l \o s)
<1>1. Head(r) \in Messages /\ Tail(r) \in Seq(Messages) /\ Len(Tail(r)) = Len(r) - 1 /\ Head(r) = r[1]
      /\ \A i \in 1 .. Len(Tail(r)) : Tail(r)[i] = r[i + 1]
  BY HeadTailProperties
<1>2. r \o l \in Seq(Messages) /\ r \o l \o s \in Seq(Messages) /\ Tail(r) \o l \in Seq(Messages) /\ Tail(r) \o l \o s \in Seq(Messages)
  BY <1>1
<1>3. Len(r \o l \o s) = Len(r) + Len(l) + Len(s) /\ Len(r) > 0
  BY <1>2
<1>4. r \o l \o s # <<>> /\ (r \o l \o s)[1] = Head(r)
  BY <1>1, <1>2, <1>3
<1>5. /\ Tail(r \o l \o s) \in Seq(Messages) /\ Len(Tail(r \o l \o s)) = Len(r \o l \o s) - 1
      /\ \A i \in 1 .. Len(Tail(r \o l \o s)) : Tail(r \o l \o s)[i] = (r \o l \o s)[i + 1]
  BY <1>2, <1>4, HeadTailProperties
<1>6. Len(Tail(r) \o l \o s) = Len(Tail(r \o l \o s))
  BY <1>1, <1>2, <1>3, <1>5
<1>7. \A i \in 1 .. Len(Tail(r) \o l \o s) : (Tail(r) \o l \o s)[i] = (r \o l \o s)[i + 1]
  BY <1>1, <1>2, <1>3
<1>8. \A i \in 1 .. Len(Tail(r) \o l \o s) : (Tail(r) \o l \o s)[i] = Tail(r \o l \o s)[i]
  BY <1>5, <1>6, <1>7, Zenon
<1>9. Tail(r) \o l \o s = Tail(r \o l \o s)
  BY <1>2, <1>5, <1>6, <1>8, SeqEqual, Zenon
<1>10. QED
  BY <1>2, <1>4, <1>9, Zenon

\* A message that starts where a chain without FIN ends makes it longer.
LEMMA ChainAppend ==
  ASSUME NEW s \in Seq(Messages), NEW a \in Nat, NEW b \in Nat, NEW m \in Messages,
         Chain(s, a, b), \A i \in 1 .. Len(s) : s[i].type = "DATA",
         m.first = b,
         m.type = "DATA" => m.len \in 1 .. max_payloadsize, m.type = "FIN" => m.len = 0
  PROVE  Chain(Append(s, m), a, b + m.len)
<1> DEFINE t == Append(s, m)
<1>1. t \in Seq(Messages) /\ Len(t) = Len(s) + 1 /\ t # <<>> /\ t[Len(t)] = m
      /\ \A i \in 1 .. Len(s) : t[i] = s[i] /\ s[i] \in Messages
  OBVIOUS
<1>2. m.len \in Nat /\ m.first \in Nat /\ Len(s) \in Nat
  BY DEF Messages
<1>3. t[1].first = a
  BY <1>1, <1>2 DEF Chain
<1>4. ASSUME NEW i \in 1 .. Len(t)
      PROVE  /\ i < Len(t) => t[i].first + t[i].len = t[i + 1].first /\ t[i].type = "DATA"
             /\ t[i].first + t[i].len <= b + m.len
             /\ t[i].type = "DATA" => t[i].len \in 1 .. max_payloadsize
             /\ t[i].type = "FIN" => t[i].len = 0
  <2>1. CASE i = Len(t)
    BY <1>1, <1>2, <2>1
  <2>2. CASE i < Len(s)
    <3>1. t[i] = s[i] /\ t[i + 1] = s[i + 1] /\ i \in 1 .. Len(s) /\ s[i] \in Messages
      BY <1>1, <1>2, <2>2
    <3>2. s[i].first \in Nat /\ s[i].len \in Nat
      BY <3>1 DEF Messages
    <3>3. /\ s[i].first + s[i].len = s[i + 1].first /\ s[i].first + s[i].len <= b
          /\ s[i].type = "DATA" => s[i].len \in 1 .. max_payloadsize
      BY <2>2, <3>1 DEF Chain
    <3>4. s[i].first + s[i].len <= b + m.len
      <4>1. ASSUME NEW x \in Nat, NEW y \in Nat, NEW z \in Nat, NEW w \in Nat, x + w <= y
            PROVE  x + w <= y + z
        BY <4>1
      <4>2. QED
        BY <1>2, <3>2, <3>3, <4>1, Zenon
    <3>5. s[i].type = "DATA"
      BY <3>1
    <3>6. QED
      BY <3>1, <3>3, <3>4, <3>5
  <2>3. CASE i = Len(s)
    <3>1. t[i] = s[i] /\ t[i + 1] = m /\ i \in 1 .. Len(s) /\ s[i] \in Messages /\ s # <<>>
      BY <1>1, <1>2, <2>3
    <3>2. s[i].first \in Nat /\ s[i].len \in Nat
      BY <3>1 DEF Messages
    <3>3. QED
      BY <1>2, <2>3, <3>1, <3>2 DEF Chain
  <2>4. i = Len(t) \/ i < Len(s) \/ i = Len(s)
    <3>1. Len(t) = Len(s) + 1 /\ Len(s) \in Nat
      BY <1>1, <1>2, Zenon
    <3> HIDE DEF t
    <3>2. QED
      BY <3>1
  <2>5. QED
    BY <2>1, <2>2, <2>3, <2>4, Zenon
<1>5. QED
  BY <1>1, <1>2, <1>3, <1>4 DEF Chain

\* Without its first message a chain starts where that message ended.
LEMMA ChainTail ==
  ASSUME NEW s \in Seq(Messages), NEW a \in Nat, NEW b \in Nat, Chain(s, a, b), s # <<>>
  PROVE  /\ s[1] \in Messages /\ s[1].first = a /\ a + s[1].len <= b
         /\ s[1].type = "DATA" => s[1].len \in 1 .. max_payloadsize
         /\ s[1].type = "FIN" => a = b /\ Len(s) = 1
         /\ Chain(Tail(s), a + s[1].len, b)
<1> DEFINE t == Tail(s)
<1>1. t \in Seq(Messages) /\ Len(t) = Len(s) - 1 /\ Len(s) \in Nat \ {0} /\ Len(t) \in Nat
      /\ \A i \in 1 .. Len(t) : t[i] = s[i + 1]
  <2>1. t \in Seq(Messages) /\ Len(t) = Len(s) - 1 /\ \A i \in 1 .. Len(t) : t[i] = s[i + 1]
    BY HeadTailProperties
  <2>2. Len(s) \in Nat \ {0}
    BY EmptySeq
  <2>3. QED
    BY <2>1, <2>2
<1>0. 1 \in 1 .. Len(s)
  BY <1>1
<1>2. s[1] \in Messages /\ s[1].first \in Nat /\ s[1].len \in Nat
  <2>1. s[1] \in Messages
    BY <1>0
  <2>2. QED
    BY <2>1 DEF Messages
<1>3. /\ s[1].first = a /\ a + s[1].len <= b
      /\ s[1].type = "DATA" => s[1].len \in 1 .. max_payloadsize
      /\ s[1].type = "FIN" => s[1].len = 0 /\ ~ (1 < Len(s))
  BY <1>0 DEF Chain
<1>4. s[1].type = "FIN" => a = b /\ Len(s) = 1
  BY <1>1, <1>2, <1>3 DEF Chain
<1>5. t = <<>> => a + s[1].len = b
  <2>1. t = <<>> => Len(s) = 1
    <3> HIDE DEF t
    <3>1. t = <<>> => Len(t) = 0
      OBVIOUS
    <3>2. QED
      BY <1>1, <3>1
  <2>2. s[Len(s)].first + s[Len(s)].len = b
    BY DEF Chain
  <2>3. QED
    BY <1>3, <2>1, <2>2
<1>6. t # <<>> => t[1].first = a + s[1].len /\ t[Len(t)].first + t[Len(t)].len = b
  <2> SUFFICES ASSUME t # <<>>
               PROVE  t[1].first = a + s[1].len /\ t[Len(t)].first + t[Len(t)].len = b
    OBVIOUS
  <2>1. Len(t) \in Nat \ {0}
    BY <1>1, EmptySeq
  <2>2. t[1] = s[2] /\ t[Len(t)] = s[Len(s)] /\ 1 < Len(s)
    <3>1. t[1] = s[1 + 1] /\ t[Len(t)] = s[Len(t) + 1]
      BY <1>1, <2>1
    <3>2. Len(t) + 1 = Len(s) /\ 1 + 1 = 2
      BY <1>1
    <3>3. QED
      BY <2>1, <3>1, <3>2
  <2>3. s[1].first + s[1].len = s[1 + 1].first /\ s[Len(s)].first + s[Len(s)].len = b
    BY <1>0, <2>2 DEF Chain
  <2>4. QED
    BY <1>3, <2>2, <2>3
<1>7. ASSUME NEW i \in 1 .. Len(t)
      PROVE  /\ i < Len(t) => t[i].first + t[i].len = t[i + 1].first /\ t[i].type = "DATA"
             /\ t[i].first + t[i].len <= b
             /\ t[i].type = "DATA" => t[i].len \in 1 .. max_payloadsize
             /\ t[i].type = "FIN" => t[i].len = 0
  <2>1. i + 1 \in 1 .. Len(s) /\ t[i] = s[i + 1] /\ (i < Len(t) => i + 1 < Len(s) /\ t[i + 1] = s[i + 2])
    BY <1>1
  <2>2. (i + 1) + 1 = i + 2
    OBVIOUS
  <2>3. QED
    BY <2>1, <2>2 DEF Chain
<1>8. QED
  BY <1>2, <1>3, <1>4, <1>5, <1>6, <1>7 DEF Chain

-----------------------------------------------------------------------------
(* The inductive invariant.                                                *)

\* What is in flight is a sequence of messages.
LEMMA FlightType == ASSUME TypeOK PROVE Flight \in Seq(Messages)
<1>1. recvRing \in Seq(Messages) /\ link \in Seq(Messages) /\ sendRing \in Seq(Messages)
  BY DEF TypeOK
<1>2. QED
  BY <1>1 DEF Flight

\* Moving a message from one queue to the next changes nothing in flight.
LEMMA ProxiesKeepFlight ==
  ASSUME TypeOK, Proxies
  PROVE  /\ TypeOK' /\ Flight' = Flight
         /\ UNCHANGED <<writer, reader>>
<1>0. recvRing \in Seq(Messages) /\ link \in Seq(Messages) /\ sendRing \in Seq(Messages)
  BY DEF TypeOK
<1>1. CASE ntp_send_buff_data
  <2>1. Append(link, Head(sendRing)) \o Tail(sendRing) = link \o sendRing /\ sendRing # <<>>
    BY <1>0, <1>1, MoveHead, Zenon DEF ntp_send_buff_data
  <2>2. Head(sendRing) \in Messages /\ Tail(sendRing) \in Seq(Messages)
    BY <1>0, <2>1, HeadTailProperties
  <2>3. sendRing' \in Seq(Messages) /\ link' \in Seq(Messages) /\ link' \o sendRing' = link \o sendRing
    <3>1. sendRing' = Tail(sendRing) /\ link' = Append(link, Head(sendRing))
      BY <1>1, Zenon DEF ntp_send_buff_data
    <3>2. Append(link, Head(sendRing)) \in Seq(Messages)
      BY <1>0, <2>2, AppendProperties, Zenon
    <3>3. QED
      BY <2>1, <2>2, <3>1, <3>2, Zenon
  <2>4. recvRing' = recvRing /\ UNCHANGED <<writer, reader>>
    BY <1>1 DEF ntp_send_buff_data
  <2>5. TypeOK'
    BY <2>3, <2>4 DEF TypeOK, writer, reader
  <2>6. ASSUME NEW l \in Seq(Messages), NEW s \in Seq(Messages)
        PROVE  (recvRing \o l) \o s = recvRing \o (l \o s)
    <3>1. recvRing \in Seq(Messages)
      BY <1>0, Zenon
    <3>2. QED
      BY ONLY <3>1, l \in Seq(Messages), s \in Seq(Messages), ConcatAssociative
  <2>7. (recvRing \o link') \o sendRing' = (recvRing \o link) \o sendRing
    <3>1. (recvRing \o link') \o sendRing' = recvRing \o (link' \o sendRing')
      BY <2>3, <2>6, Zenon
    <3>2. (recvRing \o link) \o sendRing = recvRing \o (link \o sendRing)
      BY <1>0, <2>6, Zenon
    <3>3. recvRing \o (link' \o sendRing') = recvRing \o (link \o sendRing)
      BY <2>3, Zenon
    <3>4. QED
      BY <3>1, <3>2, <3>3, Zenon
  <2>8. QED
    BY <2>4, <2>5, <2>7 DEF Flight
<1>2. CASE ntp_recv_data_to_buf
  <2>1. Append(recvRing, Head(link)) \o Tail(link) = recvRing \o link /\ link # <<>>
    BY <1>0, <1>2, MoveHead, Zenon DEF ntp_recv_data_to_buf
  <2>2. Head(link) \in Messages /\ Tail(link) \in Seq(Messages)
    BY <1>0, <2>1, HeadTailProperties
  <2>3. recvRing' \in Seq(Messages) /\ link' \in Seq(Messages) /\ recvRing' \o link' = recvRing \o link
    <3>1. link' = Tail(link) /\ recvRing' = Append(recvRing, Head(link))
      BY <1>2, Zenon DEF ntp_recv_data_to_buf
    <3>2. Append(recvRing, Head(link)) \in Seq(Messages)
      BY <1>0, <2>2, AppendProperties, Zenon
    <3>3. QED
      BY <2>1, <2>2, <3>1, <3>2, Zenon
  <2>4. sendRing' = sendRing /\ UNCHANGED <<writer, reader>>
    BY <1>2 DEF ntp_recv_data_to_buf
  <2>5. TypeOK'
    BY <2>3, <2>4 DEF TypeOK, writer, reader
  <2>6. QED
    BY <2>3, <2>4, <2>5 DEF Flight
<1>3. QED
  BY <1>1, <1>2 DEF Proxies

\* The parts of the invariant that say how nts_read stands, and how nts_close.
ReadState == CacheState /\ PayloadState /\ PacketsFreed /\ OnlyLastCallLost
             /\ (read_pc = "front" => ~ is_cached /\ buf_avail_bytes > 0)
             /\ (eof => closed /\ read_pc = "idle" /\ copied = written)
CloseState == /\ closed => write_left = 0
              /\ ~ closed => \A i \in 1 .. Len(Flight) : Flight[i].type = "DATA"
              /\ closed => Flight # <<>> /\ Flight[Len(Flight)].type = "FIN"

\* nts_write and nts_close keep the invariant.
LEMMA WriterKeepsInvariant == ASSUME IndInv, Writer PROVE IndInv'
<1>0. /\ TypeOK /\ Chain(Flight, copied + InHand, written) /\ ReadState /\ CloseState
      /\ Flight \in Seq(Messages) /\ written \in Nat /\ write_left \in Nat
      /\ recvRing \in Seq(Messages) /\ link \in Seq(Messages) /\ sendRing \in Seq(Messages)
      /\ copied + InHand \in Nat
  <2>1. TypeOK /\ Chain(Flight, copied + InHand, written) /\ ReadState /\ CloseState
    BY DEF IndInv, ReadState, CloseState
  <2>2. copied \in Nat /\ InHand \in Nat
    BY <2>1 DEF TypeOK, InHand, Payloads
  <2>3. QED
    BY <2>1, <2>2, FlightType DEF TypeOK
<1>1. ASSUME NEW n \in 1 .. MaxWrite, nts_write(n)
      PROVE  IndInv'
  <2>1. UNCHANGED <<sendRing, link, recvRing, written, closed, reader>> /\ write_left' \in Nat /\ ~ closed
    BY <1>1, SizeAssumption DEF nts_write
  <2>2. UNCHANGED <<Flight, InHand, copied, eof, read_pc>>
    BY <2>1 DEF Flight, InHand, reader
  <2>3. TypeOK'
    BY <1>0, <2>1 DEF TypeOK, reader
  <2>4. ReadState'
    BY <1>0, <2>1 DEF ReadState, reader, CacheState, PayloadState, PacketsFreed, OnlyLastCallLost
  <2>5. CloseState'
    BY <1>0, <2>1, <2>2 DEF CloseState
  <2>6. QED
    BY <1>0, <2>1, <2>2, <2>3, <2>4, <2>5 DEF IndInv, ReadState, CloseState
<1>2. ASSUME NEW m \in Messages, sendRing' = Append(sendRing, m), UNCHANGED <<link, recvRing, reader>>,
             ~ closed, m.first = written, written' = written + m.len, write_left' \in Nat,
             closed' = (m.type = "FIN"), closed' => write_left' = 0,
             m.type = "DATA" => m.len \in 1 .. max_payloadsize, m.type = "FIN" => m.len = 0
      PROVE  IndInv'
  <2>1. Flight' = Append(Flight, m)
    <3>0. recvRing \in Seq(Messages) /\ link \in Seq(Messages) /\ sendRing \in Seq(Messages) /\ m \in Messages
      BY <1>0
    <3>1. recvRing \o link \o Append(sendRing, m) = Append(recvRing \o link \o sendRing, m)
      <4>1. \A r, l, s \in Seq(Messages) : \A k \in Messages :
               r \o l \o Append(s, k) = Append(r \o l \o s, k)
        BY ONLY FlightAppend, SMTT(60)
      <4>2. QED
        BY <3>0, <4>1, Zenon
    <3>2. QED
      BY <1>2, <3>1 DEF Flight
  <2>2. m.len \in Nat /\ m.type \in {"DATA", "FIN"}
    BY DEF Messages
  <2>3. ~ eof
    BY <1>0, <1>2 DEF ReadState
  <2>4. TypeOK'
    BY <1>0, <1>2, <2>2 DEF TypeOK, reader
  <2>5. InHand' = InHand /\ copied' = copied /\ eof' = eof
    BY <1>2 DEF InHand, reader
  <2>6. Chain(Flight', copied' + InHand', written')
    <3>1. \A i \in 1 .. Len(Flight) : Flight[i].type = "DATA"
      BY <1>0, <1>2 DEF CloseState
    <3>2. Chain(Append(Flight, m), copied + InHand, written + m.len)
      BY <1>0, <1>2, <3>1, ChainAppend
    <3>3. QED
      BY <1>2, <2>1, <2>5, <3>2
  <2>7. ReadState'
    BY <1>0, <1>2, <2>3 DEF ReadState, reader, CacheState, PayloadState, PacketsFreed, OnlyLastCallLost
  <2>8. CloseState'
    <3>1. Flight' # <<>> /\ Len(Flight') = Len(Flight) + 1 /\ Flight'[Len(Flight')] = m
          /\ \A i \in 1 .. Len(Flight) : Flight'[i] = Flight[i]
      <4>1. \A s \in Seq(Messages) : /\ Append(s, m) # <<>> /\ Len(Append(s, m)) = Len(s) + 1
                                      /\ Append(s, m)[Len(Append(s, m))] = m
                                      /\ \A i \in 1 .. Len(s) : Append(s, m)[i] = s[i]
        OBVIOUS
      <4>2. QED
        BY <1>0, <2>1, <4>1
    <3>2. ~ closed' => m.type = "DATA"
      BY <1>2, <2>2
    <3>3. ~ closed' => \A i \in 1 .. Len(Flight') : Flight'[i].type = "DATA"
      <4> SUFFICES ASSUME ~ closed', NEW i \in 1 .. Len(Flight')
                   PROVE  Flight'[i].type = "DATA"
        OBVIOUS
      <4>1. CASE i = Len(Flight')
        BY <3>1, <3>2, <4>1
      <4>2. CASE i # Len(Flight')
        <5>1. i \in 1 .. Len(Flight)
          BY <1>0, <3>1, <4>2
        <5>2. QED
          BY <1>0, <1>2, <3>1, <5>1 DEF CloseState
      <4>3. QED
        BY <4>1, <4>2
    <3>4. closed' => Flight' # <<>> /\ Flight'[Len(Flight')].type = "FIN"
      BY <1>2, <3>1
    <3>5. QED
      BY <1>2, <3>3, <3>4 DEF CloseState
  <2>9. QED
    BY <2>4, <2>6, <2>7, <2>8 DEF IndInv, ReadState, CloseState
<1>3. CASE WriteMessage
  <2>1. next_msg_len \in 1 .. max_payloadsize /\ next_msg_len <= write_left /\ next_msg_len \in Nat
    BY <1>0, <1>3, SizeAssumption DEF WriteMessage, next_msg_len
  <2>2. DATA(written, next_msg_len) \in Messages /\ DATA(written, next_msg_len).first = written
        /\ DATA(written, next_msg_len).type = "DATA" /\ DATA(written, next_msg_len).len = next_msg_len
    BY <1>0, <2>1 DEF DATA, Messages
  <2>3. ~ closed
    BY <1>0, <1>3 DEF WriteMessage, CloseState
  <2>4. write_left' \in Nat /\ closed' = FALSE
    BY <1>0, <1>3, <2>1, <2>3 DEF WriteMessage, TypeOK
  <2>5. QED
    BY <1>2, <1>3, <2>1, <2>2, <2>3, <2>4 DEF WriteMessage
<1>4. CASE nts_close
  <2>1. FIN \in Messages /\ FIN.first = written /\ FIN.type = "FIN" /\ FIN.len = 0
    BY <1>0 DEF FIN, Messages
  <2>2. /\ sendRing' = Append(sendRing, FIN) /\ UNCHANGED <<link, recvRing, reader>>
        /\ ~ closed /\ closed' = TRUE /\ write_left' \in Nat /\ write_left' = 0
    BY <1>0, <1>4 DEF nts_close
  <2>3. written' = written + FIN.len /\ closed' = (FIN.type = "FIN")
    <3>1. written' = written /\ written + 0 = written
      BY <1>0, <1>4 DEF nts_close
    <3>2. QED
      BY <2>1, <2>2, <3>1, Zenon
  <2>4. QED
    BY <1>2, <2>1, <2>2, <2>3
<1>5. QED
  BY <1>1, <1>3, <1>4 DEF Writer

\* A step of nts_read that leaves the messages in flight alone, and of the
\* bytes in hand copies some and keeps the others, keeps the invariant.
LEMMA CopyKeepsInvariant ==
  ASSUME IndInv, UNCHANGED <<sendRing, link, recvRing, writer, eof>>, ~ eof,
         TypeOK', copied' + InHand' = copied + InHand,
         CacheState', PayloadState', PacketsFreed', OnlyLastCallLost',
         read_pc' = "front" => ~ is_cached' /\ buf_avail_bytes' > 0
  PROVE  IndInv'
<1>1. UNCHANGED <<Flight, written, write_left, closed>>
  BY DEF Flight, writer
<1>2. QED
  BY <1>1 DEF IndInv

\* The four ways to copy a payload keep the invariant.
LEMMA CopiesKeepInvariant ==
  ASSUME IndInv, CopyShort \/ CopyShortPart \/ CopyFull \/ CopyFullMore
  PROVE  IndInv'
<1>0. /\ TypeOK /\ read_pc = "copy" /\ ~ eof
      /\ payload.first = copied /\ payload.len \in 1 .. max_payloadsize /\ buf_avail_bytes > 0
      /\ is_cached => cache = payload /\ payload.len < max_payloadsize
      /\ ~ is_cached => cache.len = 0
      /\ held = IF is_cached THEN 0 ELSE 1
      /\ copied = returned + bytes_read /\ InHand = payload.len
  <2>1. read_pc = "copy"
    BY DEF CopyShort, CopyShortPart, CopyFull, CopyFullMore
  <2>2. QED
    BY <2>1 DEF IndInv, CacheState, PayloadState, PacketsFreed, OnlyLastCallLost, InHand
<1>t. /\ payload \in Payloads /\ cache \in Payloads /\ copied \in Nat /\ returned \in Nat
      /\ bytes_read \in Nat /\ buf_avail_bytes \in Nat /\ is_cached \in BOOLEAN
      /\ payload.first \in Nat /\ payload.len \in Nat /\ cache.first \in Nat /\ cache.len \in Nat
  BY <1>0 DEF TypeOK, Payloads
<1>1. ASSUME NEW n \in 1 .. payload.len, CopyOut(n), Return(n), held' = 0,
             cache' \in Payloads, cache'.len = payload.len - n,
             cache'.len > 0 => cache'.first = payload.first + n
      PROVE  IndInv'
  <2>1. /\ read_pc' = "idle" /\ copied' = copied + n /\ bytes_read' = bytes_read + n
        /\ returned' = returned + bytes_read + n
        /\ UNCHANGED <<sendRing, link, recvRing, writer, payload, is_cached, buf_avail_bytes, eof>>
    BY <1>1 DEF CopyOut, Return
  <2>2. piece' \in Payloads /\ n \in Nat
    BY <1>1, <1>t DEF CopyOut, Payloads, Bytes
  <2>3. TypeOK'
    BY <1>0, <1>1, <1>t, <2>1, <2>2 DEF TypeOK, writer
  <2>4. InHand' = payload.len - n
    BY <1>1, <2>1 DEF InHand
  <2>5. copied' + InHand' = copied + InHand
    BY <1>0, <1>t, <2>1, <2>2, <2>4
  <2>6. CacheState'
    BY <1>0, <1>1, <1>t, <2>1, <2>2, SizeAssumption DEF CacheState
  <2>7. PayloadState' /\ PacketsFreed'
    BY <1>1, <2>1 DEF PayloadState, PacketsFreed
  <2>8. OnlyLastCallLost'
    BY <1>0, <1>t, <2>1, <2>2 DEF OnlyLastCallLost
  <2>9. QED
    BY <1>0, <2>1, <2>3, <2>5, <2>6, <2>7, <2>8, CopyKeepsInvariant
<1>r. ASSUME NEW n \in 1 .. payload.len
      PROVE  Rest(n) \in Payloads /\ Rest(n).len = payload.len - n /\ Rest(n).first = payload.first + n
  BY <1>t DEF Rest, Bytes, Payloads
<1>e. Bytes(cache.first, 0) \in Payloads /\ Bytes(cache.first, 0).len = 0
  BY <1>t DEF Bytes, Payloads
<1>2. CASE CopyShort
  <2>1. payload.len \in 1 .. payload.len /\ payload.len - payload.len = 0
    BY <1>0, <1>t
  <2>2. held' = 0 /\ cache' \in Payloads /\ cache'.len = 0
    BY <1>0, <1>t, <1>e, <1>2 DEF CopyShort
  <2>3. QED
    BY <1>1, <1>2, <2>1, <2>2 DEF CopyShort
<1>3. CASE CopyShortPart
  <2>1. buf_avail_bytes \in 1 .. payload.len
    BY <1>0, <1>t, <1>3 DEF CopyShortPart
  <2>2. held' = 0 /\ cache' = Rest(buf_avail_bytes)
    BY <1>0, <1>3 DEF CopyShortPart
  <2>3. QED
    BY <1>1, <1>3, <1>r, <2>1, <2>2 DEF CopyShortPart
<1>4. CASE CopyFull
  <2>0. ~ is_cached /\ cache.len = 0
    BY <1>0, <1>t, <1>4, SizeAssumption DEF CopyFull
  <2>1. buf_avail_bytes \in 1 .. payload.len /\ held' = 0
    BY <1>0, <1>t, <1>4, <2>0 DEF CopyFull
  <2>2. CASE buf_avail_bytes < payload.len
    BY <1>1, <1>4, <1>r, <2>1, <2>2 DEF CopyFull
  <2>3. CASE buf_avail_bytes = payload.len
    <3>1. cache' = cache /\ payload.len - buf_avail_bytes = 0
      BY <1>t, <1>4, <2>0, <2>3 DEF CopyFull
    <3>2. QED
      <4>1. cache' \in Payloads /\ cache'.len = payload.len - buf_avail_bytes /\ ~ (cache'.len > 0)
        BY <1>t, <2>0, <3>1
      <4>2. CopyOut(buf_avail_bytes) /\ Return(buf_avail_bytes)
        BY <1>4 DEF CopyFull
      <4>3. QED
        BY <1>1, <2>1, <4>1, <4>2
  <2>4. QED
    BY <1>t, <2>1, <2>2, <2>3
<1>5. CASE CopyFullMore
  <2>0. ~ is_cached /\ cache.len = 0 /\ held' = 0
    BY <1>0, <1>t, <1>5, SizeAssumption DEF CopyFullMore
  <2>1. /\ read_pc' = "front" /\ copied' = copied + payload.len /\ bytes_read' = bytes_read + payload.len
        /\ buf_avail_bytes' = buf_avail_bytes - payload.len /\ buf_avail_bytes > payload.len
        /\ UNCHANGED <<sendRing, link, recvRing, writer, payload, is_cached, cache, eof, returned>>
    BY <1>5 DEF CopyFullMore, CopyOut
  <2>2. piece' \in Payloads
    BY <1>5, <1>t DEF CopyFullMore, CopyOut, Payloads, Bytes
  <2>3. TypeOK'
    <3>1. copied' \in Nat /\ bytes_read' \in Nat /\ buf_avail_bytes' \in Nat /\ held' \in 0 .. 1
      BY <1>t, <2>0, <2>1
    <3>2. QED
      BY <1>0, <2>1, <2>2, <3>1 DEF TypeOK, writer
  <2>4. copied' + InHand' = copied + InHand
    BY <1>0, <1>t, <2>0, <2>1 DEF InHand
  <2>5. CacheState' /\ PayloadState' /\ PacketsFreed'
    BY <2>0, <2>1 DEF CacheState, PayloadState, PacketsFreed
  <2>6. OnlyLastCallLost'
    BY <1>0, <1>t, <2>1 DEF OnlyLastCallLost
  <2>7. buf_avail_bytes' > 0
    BY <1>t, <2>1
  <2>8. QED
    BY <1>0, <2>0, <2>1, <2>3, <2>4, <2>5, <2>6, <2>7, CopyKeepsInvariant
<1>6. QED
  BY <1>2, <1>3, <1>4, <1>5

\* Beginning a call, popping a message and meeting the FIN keep the invariant.
LEMMA FrontKeepsInvariant ==
  ASSUME IndInv, PopMessage \/ FrontFin \/ \E n \in 1 .. MaxRead : nts_read(n)
  PROVE  IndInv'
<1>0. /\ TypeOK /\ Chain(Flight, copied + InHand, written) /\ ReadState /\ CloseState
      /\ Flight \in Seq(Messages) /\ written \in Nat /\ copied \in Nat
      /\ recvRing \in Seq(Messages) /\ link \in Seq(Messages) /\ sendRing \in Seq(Messages)
      /\ payload \in Payloads /\ cache \in Payloads /\ cache.len \in Nat /\ cache.first \in Nat
  BY FlightType DEF IndInv, ReadState, CloseState, TypeOK, Payloads
<1>1. ASSUME NEW n \in 1 .. MaxRead, nts_read(n)
      PROVE  IndInv'
  <2>1. /\ read_pc = "idle" /\ ~ eof /\ buf_avail_bytes' = n /\ bytes_read' = 0
        /\ is_cached' = (cache.len > 0) /\ payload' = cache
        /\ read_pc' = IF cache.len > 0 THEN "copy" ELSE "front"
        /\ UNCHANGED <<sendRing, link, recvRing, writer, cache, held, eof, piece, copied, returned>>
    BY <1>1 DEF nts_read
  <2>2. n \in Nat /\ n > 0
    BY SizeAssumption
  <2>3. TypeOK'
    BY <1>0, <2>1, <2>2 DEF TypeOK, writer
  <2>4. InHand' = InHand
    BY <1>0, <2>1 DEF InHand
  <2>5. held = 0 /\ copied = returned /\ CacheState
    <3>1. returned \in Nat
      BY <1>0 DEF TypeOK
    <3>2. QED
      BY <1>0, <2>1, <3>1 DEF ReadState, PacketsFreed, OnlyLastCallLost
  <2>6. CacheState' /\ PayloadState'
    <3>1. CASE cache.len > 0
      <4>1. cache.len < max_payloadsize /\ cache.first = copied
        BY <2>1, <2>5, <3>1 DEF CacheState
      <4>2. cache.len \in 1 .. max_payloadsize
        BY <1>0, <3>1, <4>1, SizeAssumption
      <4>3. QED
        BY <2>1, <2>2, <3>1, <4>1, <4>2 DEF CacheState, PayloadState
    <3>2. CASE ~ (cache.len > 0)
      BY <2>1, <3>2 DEF CacheState, PayloadState
    <3>3. QED
      BY <3>1, <3>2
  <2>7. PacketsFreed'
    <3>1. CASE cache.len > 0
      BY <2>1, <2>5, <3>1 DEF PacketsFreed
    <3>2. CASE ~ (cache.len > 0)
      BY <2>1, <2>5, <3>2 DEF PacketsFreed
    <3>3. QED
      BY <3>1, <3>2
  <2>8. OnlyLastCallLost'
    BY <1>0, <2>1, <2>5 DEF OnlyLastCallLost, TypeOK
  <2>9. read_pc' = "front" => ~ is_cached' /\ buf_avail_bytes' > 0
    BY <2>1, <2>2
  <2>10. QED
    BY <2>1, <2>3, <2>4, <2>6, <2>7, <2>8, <2>9, CopyKeepsInvariant
<1>f. ASSUME read_pc = "front", recvRing # <<>>
      PROVE  /\ Flight # <<>> /\ Flight[1] = Head(recvRing) /\ InHand = 0 /\ cache.len = 0
             /\ Tail(recvRing) \o link \o sendRing = Tail(Flight)
             /\ held = 0 /\ ~ is_cached /\ buf_avail_bytes > 0 /\ ~ eof
             /\ Chain(Flight, copied, written)
  <2>1. /\ recvRing \in Seq(Messages) /\ link \in Seq(Messages) /\ sendRing \in Seq(Messages)
        /\ recvRing # <<>>
    BY <1>0, <1>f, Zenon
  <2>2. /\ Flight # <<>> /\ Flight[1] = Head(recvRing)
        /\ Tail(recvRing) \o link \o sendRing = Tail(Flight)
    <3>1. /\ recvRing \o link \o sendRing # <<>>
          /\ (recvRing \o link \o sendRing)[1] = Head(recvRing)
          /\ Tail(recvRing) \o link \o sendRing = Tail(recvRing \o link \o sendRing)
      BY ONLY <2>1, FlightTail, ZenonT(60)
    <3>2. QED
      BY ONLY <3>1, Zenon DEF Flight
  <2>3. /\ cache.len = 0 /\ held = 0 /\ ~ is_cached /\ buf_avail_bytes > 0 /\ ~ eof
    BY <1>0, <1>f DEF ReadState, CacheState, PacketsFreed
  <2>4. InHand = 0 /\ copied + 0 = copied
    BY <1>0, <1>f, <2>3 DEF InHand
  <2>5. QED
    BY <1>0, <2>2, <2>3, <2>4
<1>2. CASE PopMessage
  <2>1. read_pc = "front" /\ recvRing # <<>>
    BY <1>2 DEF PopMessage
  <2> DEFINE m == Head(recvRing)
  <2>2. /\ m \in Messages /\ m.first = copied /\ m.len \in 1 .. max_payloadsize /\ m.type = "DATA"
        /\ Chain(Tail(Flight), copied + m.len, written)
    BY <1>0, <1>2, <1>f, <2>1, ChainTail DEF PopMessage
  <2>3. /\ recvRing' = Tail(recvRing) /\ payload' = Bytes(m.first, m.len) /\ held' = held + 1
        /\ read_pc' = "copy"
        /\ UNCHANGED <<sendRing, link, writer, is_cached, buf_avail_bytes, bytes_read, cache, eof, piece, copied, returned>>
    BY <1>2 DEF PopMessage
  <2>4. m.len \in Nat /\ payload' \in Payloads /\ payload'.first = copied /\ payload'.len = m.len
    <3> HIDE DEF m
    <3>1. copied \in Nat /\ m.first = copied /\ m.len \in 1 .. max_payloadsize
          /\ payload' = [first |-> m.first, len |-> m.len]
      BY <1>0, <2>2, <2>3, Zenon DEF Bytes
    <3>2. m.len \in Nat
      BY <3>1, SizeAssumption
    <3>3. QED
      BY <3>1, <3>2 DEF Payloads
  <2>5. Tail(recvRing) \in Seq(Messages)
    BY <1>0, <2>1, HeadTailProperties
  <2>6. TypeOK'
    BY <1>0, <1>f, <2>1, <2>3, <2>4, <2>5 DEF TypeOK, writer
  <2>7. Flight' = Tail(Flight) /\ InHand' = m.len
    BY <1>f, <2>1, <2>3, <2>4 DEF Flight, InHand
  <2>8. ReadState'
    <3>1. CacheState' /\ PayloadState'
      BY <1>f, <2>1, <2>2, <2>3, <2>4 DEF CacheState, PayloadState
    <3>2. PacketsFreed'
      BY <1>f, <2>1, <2>3 DEF PacketsFreed
    <3>3. OnlyLastCallLost'
      BY <1>0, <2>1, <2>3 DEF ReadState, OnlyLastCallLost
    <3>4. QED
      BY <1>f, <2>1, <2>3, <3>1, <3>2, <3>3 DEF ReadState
  <2>9. CloseState'
    <3>1. /\ Tail(Flight) \in Seq(Messages) /\ Len(Tail(Flight)) = Len(Flight) - 1 /\ Len(Flight) \in Nat
          /\ \A i \in 1 .. Len(Tail(Flight)) : Tail(Flight)[i] = Flight[i + 1]
      BY <1>0, <1>f, <2>1, HeadTailProperties
    <3>2. ~ closed => \A i \in 1 .. Len(Tail(Flight)) : Tail(Flight)[i].type = "DATA"
      BY <1>0, <3>1 DEF CloseState
    <3>3. closed => Tail(Flight) # <<>> /\ Tail(Flight)[Len(Tail(Flight))].type = "FIN"
      <4> SUFFICES ASSUME closed
                   PROVE  Tail(Flight) # <<>> /\ Tail(Flight)[Len(Tail(Flight))].type = "FIN"
        OBVIOUS
      <4>1. Flight[Len(Flight)].type = "FIN" /\ Flight # <<>> /\ Flight[1].type = "DATA"
        BY <1>0, <1>f, <2>1, <2>2 DEF CloseState
      <4>2. Len(Flight) > 1
        BY <1>0, <3>1, <4>1
      <4>3. Tail(Flight) # <<>> /\ Tail(Flight)[Len(Tail(Flight))] = Flight[Len(Flight)]
        <5>1. Len(Tail(Flight)) \in 1 .. Len(Tail(Flight)) /\ Len(Tail(Flight)) + 1 = Len(Flight)
              /\ Len(Tail(Flight)) # 0
          <6>1. ASSUME NEW j, NEW n \in Nat, j = n - 1, n > 1
                PROVE  j \in 1 .. j /\ j + 1 = n /\ j # 0
            BY <6>1
          <6>2. QED
            BY <3>1, <4>2, <6>1, Zenon
        <5>2. Tail(Flight) # <<>>
          BY <3>1, <5>1, EmptySeq
        <5>3. QED
          BY <3>1, <5>1, <5>2
      <4>4. QED
        BY <4>1, <4>3
    <3>4. QED
      BY <1>0, <2>3, <2>7, <3>2, <3>3 DEF CloseState, writer
  <2>10. Chain(Flight', copied' + InHand', written')
    BY <2>2, <2>3, <2>7 DEF writer
  <2>11. QED
    BY <2>6, <2>8, <2>9, <2>10 DEF IndInv, ReadState, CloseState
<1>3. CASE FrontFin
  <2>1. /\ read_pc = "front" /\ recvRing # <<>> /\ Head(recvRing).type = "FIN" /\ eof' = TRUE /\ read_pc' = "idle"
        /\ UNCHANGED <<sendRing, link, recvRing, writer, payload, is_cached, buf_avail_bytes, bytes_read, cache, held,
                       piece, copied, returned>>
    BY <1>3 DEF FrontFin
  <2>2. copied = written
    BY <1>0, <1>f, <2>1, ChainTail
  <2>3. closed
    <3>1. Flight[1].type = "FIN" /\ 1 \in 1 .. Len(Flight)
      BY <1>0, <1>f, <2>1
    <3>2. QED
      BY <1>0, <3>1 DEF CloseState
  <2>4. TypeOK'
    BY <1>0, <2>1 DEF TypeOK, writer
  <2>5. UNCHANGED <<Flight, InHand, written, closed, write_left, copied>>
    BY <2>1 DEF Flight, InHand, writer
  <2>6. ReadState'
    <3>1. CacheState' /\ PayloadState' /\ PacketsFreed'
      BY <1>f, <2>1 DEF CacheState, PayloadState, PacketsFreed
    <3>2. OnlyLastCallLost'
      BY <1>0, <2>1 DEF ReadState, OnlyLastCallLost
    <3>3. QED
      BY <2>1, <2>2, <2>3, <2>5, <3>1, <3>2 DEF ReadState
  <2>7. CloseState'
    BY <1>0, <2>5 DEF CloseState
  <2>8. QED
    BY <1>0, <2>4, <2>5, <2>6, <2>7 DEF IndInv, ReadState, CloseState
<1>4. QED
  BY <1>1, <1>2, <1>3

-----------------------------------------------------------------------------

\* Every reachable state of the stream satisfies the inductive invariant.
THEOREM StreamInvariant == Spec => []IndInv
<1>1. Init => IndInv
  <2> SUFFICES ASSUME Init PROVE IndInv
    OBVIOUS
  <2>1. TypeOK
    <3>1. <<>> \in Seq(Messages) /\ Bytes(0, 0) \in Payloads /\ 0 \in 0 .. 1
      BY EmptySeq DEF Payloads, Bytes
    <3>2. QED
      BY <3>1 DEF Init, TypeOK
  <2>2. Flight = <<>>
    BY DEF Init, Flight
  <2>3. InHand = 0 /\ copied = 0 /\ written = 0 /\ cache.len = 0
    BY DEF Init, InHand, Bytes
  <2>4. Chain(<<>>, 0 + 0, 0)
    BY DEF Chain
  <2>5. CacheState /\ PayloadState /\ PacketsFreed /\ OnlyLastCallLost
    BY <2>3 DEF Init, CacheState, PayloadState, PacketsFreed, OnlyLastCallLost
  <2>6. \A i \in 1 .. Len(Flight) : Flight[i].type = "DATA"
    BY <2>2
  <2>7. Chain(Flight, copied + InHand, written)
    BY <2>2, <2>3, <2>4
  <2>8. QED
    BY <2>1, <2>5, <2>6, <2>7 DEF Init, IndInv
<1>2. IndInv /\ [Next]_vars => IndInv'
  <2> SUFFICES ASSUME IndInv, [Next]_vars
               PROVE  IndInv'
    OBVIOUS
  <2>1. CASE Writer
    BY <2>1, WriterKeepsInvariant
  <2>2. CASE Proxies
    <3>1. TypeOK' /\ Flight' = Flight /\ UNCHANGED <<writer, reader>>
      BY <2>2, ProxiesKeepFlight DEF IndInv
    <3>2. QED
      BY <3>1 DEF IndInv, writer, reader, InHand, CacheState, PayloadState, PacketsFreed, OnlyLastCallLost
  <2>3. CASE Reader
    BY <2>3, CopiesKeepInvariant, FrontKeepsInvariant DEF Reader, ReadStep
  <2>4. CASE UNCHANGED vars
    BY <2>4 DEF vars, writer, reader, IndInv, TypeOK, Flight, InHand, CacheState, PayloadState, PacketsFreed,
                OnlyLastCallLost
  <2>5. QED
    BY <2>1, <2>2, <2>3, <2>4 DEF Next
<1>3. QED
  BY <1>1, <1>2, PTL DEF Spec

\* The counts of nts_read and nts_write stay in range.
THEOREM StreamTypeOK == Spec => []TypeOK
<1>1. IndInv => TypeOK
  BY DEF IndInv
<1>2. QED
  BY <1>1, StreamInvariant, PTL

\* nts_read frees every packet it pops, once.
THEOREM StreamPacketsFreed == Spec => []PacketsFreed
<1>1. IndInv => PacketsFreed
  BY DEF IndInv
<1>2. QED
  BY <1>1, StreamInvariant, PTL

\* Only the call of nts_read that meets the FIN loses bytes it has copied.
THEOREM StreamOnlyLastCallLost == Spec => []OnlyLastCallLost
<1>1. IndInv => OnlyLastCallLost
  BY DEF IndInv
<1>2. QED
  BY <1>1, StreamInvariant, PTL

\* nts_write, the channels and nts_read together implement the byte stream.
THEOREM StreamImplementsByteStream == Spec => ImplementsStream
<1>1. Init => Stream!StreamInit
  BY DEF Init, Stream!StreamInit, Bytes
<1>2. IndInv /\ [Next]_vars => [Stream!StreamNext]_(Stream!streamVars)
  <2> SUFFICES ASSUME IndInv, [Next]_vars
               PROVE  Stream!StreamNext \/ UNCHANGED <<written, closed, piece, copied, eof>>
    BY DEF Stream!streamVars
  <2>0. /\ TypeOK /\ Chain(Flight, copied + InHand, written) /\ Flight \in Seq(Messages)
        /\ written \in Nat /\ copied \in Nat /\ InHand \in Nat /\ write_left \in Nat
        /\ payload.len \in Nat /\ buf_avail_bytes \in Nat
    BY FlightType DEF IndInv, TypeOK, InHand, Payloads
  <2>1. CASE WriteMessage
    <3>1. next_msg_len \in Nat /\ next_msg_len > 0 /\ ~ closed
      BY <2>0, <2>1, SizeAssumption DEF WriteMessage, next_msg_len, IndInv
    <3>2. written' > written /\ UNCHANGED <<closed, piece, copied, eof>>
      BY <2>0, <2>1, <3>1 DEF WriteMessage, reader
    <3>3. QED
      BY <3>1, <3>2 DEF Stream!StreamNext, Stream!Write
  <2>2. CASE nts_close
    BY <2>2 DEF nts_close, reader, Stream!StreamNext, Stream!Close
  <2>3. CASE FrontFin
    <3>1. IndInv'
      BY <2>3, FrontKeepsInvariant
    <3>2. eof' /\ UNCHANGED <<written, closed, piece, copied>>
      BY <2>3 DEF FrontFin, writer
    <3>3. closed /\ copied = written
      BY <3>1, <3>2 DEF IndInv
    <3>4. eof' = TRUE
      BY <2>3 DEF FrontFin
    <3>5. QED
      BY <3>2, <3>3, <3>4 DEF Stream!StreamNext, Stream!ReportEnd
  <2>4. ASSUME NEW n \in Nat, n > 0, n <= payload.len, CopyOut(n), read_pc = "copy",
               UNCHANGED <<written, closed, eof>>
        PROVE  Stream!StreamNext
    <3>1. payload.first = copied /\ InHand = payload.len /\ ~ eof
      BY <2>4 DEF IndInv, PayloadState, InHand
    <3>2. copied + payload.len <= written
      <4>1. CASE Flight = <<>>
        BY <2>0, <3>1, <4>1 DEF Chain
      <4>2. CASE Flight # <<>>
        <5>1. copied + InHand \in Nat
          BY <2>0
        <5>2. /\ Flight[1] \in Messages
              /\ (copied + InHand) + Flight[1].len <= written
          BY <2>0, <4>2, <5>1, ChainTail
        <5>3. Flight[1].len \in Nat
          BY <5>2 DEF Messages
        <5>4. QED
          BY <2>0, <3>1, <5>2, <5>3
      <4>3. QED
        BY <4>1, <4>2
    <3>3. copied' = copied + n /\ piece' = [first |-> copied, len |-> n]
      BY <2>4, <3>1 DEF CopyOut, Bytes
    <3>4. copied' > copied /\ copied' <= written /\ copied' - copied = n
      BY <2>0, <2>4, <3>2, <3>3
    <3>5. QED
      BY <2>4, <3>1, <3>3, <3>4 DEF Stream!StreamNext, Stream!Read
  <2>5. CASE CopyShort \/ CopyShortPart \/ CopyFull \/ CopyFullMore
    <3>1. read_pc = "copy" /\ UNCHANGED <<written, closed, eof>>
      BY <2>5 DEF CopyShort, CopyShortPart, CopyFull, CopyFullMore, Return, writer
    <3>2. payload.len > 0 /\ buf_avail_bytes > 0
      BY <3>1, SizeAssumption DEF IndInv, PayloadState
    <3>3. CopyOut(payload.len) \/ (CopyOut(buf_avail_bytes) /\ buf_avail_bytes <= payload.len)
      BY <2>0, <2>5 DEF CopyShort, CopyShortPart, CopyFull, CopyFullMore
    <3>4. QED
      BY <2>0, <2>4, <3>1, <3>2, <3>3
  <2>6. CASE Proxies
    BY <2>0, <2>6, ProxiesKeepFlight DEF writer, reader
  <2>7. CASE PopMessage \/ (\E n \in 1 .. MaxRead : nts_read(n)) \/ (\E n \in 1 .. MaxWrite : nts_write(n))
    BY <2>7 DEF PopMessage, nts_read, nts_write, writer, reader
  <2>8. CASE UNCHANGED vars
    BY <2>8 DEF vars, writer, reader
  <2>9. QED
    BY <2>1, <2>2, <2>3, <2>5, <2>6, <2>7, <2>8 DEF Next, Writer, Reader, ReadStep
<1>3. QED
  BY <1>1, <1>2, StreamInvariant, PTL DEF Spec, ImplementsStream, Stream!StreamSpec
=============================================================================
