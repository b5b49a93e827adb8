-------------------------- MODULE MemExchangeProofs ---------------------------
(***************************************************************************)
(* The memory exchange for any lists of addresses and any number of        *)
(* iterations and unasked packets: a response always has a time, and one   *)
(* that is not before its first byte; and the exchange implements          *)
(* MemoryReads, every reading being the answer to its own request.         *)
(*                                                                         *)
(* The second argument is about Flight, the bytes from OpenOCD that have   *)
(* not been taken as responses: no answer is among them unless one is      *)
(* awaited, and then only that one, as a whole.                            *)
(***************************************************************************)
EXTENDS MemExchange, SequenceTheorems, TLAPS

-----------------------------------------------------------------------------
(* The invariant: types.                                                   *)

WireBytes == [ch : {"+", "$", "#"}, of : Contents]

Received == [byte : WireBytes, at : Times \cup {NoTime}]

Addresses == UNION {{l[i] : i \in DOMAIN l} : l \in AddressLists}

Requests ==
  [op : {"QStart", "continue"}, addr : {None}, n : {0}] \cup
  [op : {"m"}, addr : Addresses, n : Nat]

Readings == [addr : Addresses, value : [addr : Addresses, n : Nat]]

\* TypeOK and the types of what no run enumerates; how many samples the
\* iteration has.
MemTypes ==
  /\ TypeOK
  /\ outgoing \in Seq(WireBytes)
  /\ requests \in Seq(Requests)
  /\ samples \in Seq(Readings)
  /\ delivered.upto \in Nat /\ delivered.upto <= sent
  /\ sent_at # NoTime => pc \in Packets
  /\ pc \in {"request", "reply"} =>
       addresses \in AddressLists /\ Len(samples) < Len(addresses)
  /\ pc = "deliver" =>
       addresses \in AddressLists /\ Len(samples) = Len(addresses)
  /\ pc \notin {"request", "reply", "deliver", "failed"} => samples = <<>>

-----------------------------------------------------------------------------
(* The invariant: times.                                                   *)

Starts(byte) == byte.ch \in {"+", "$"}

\* What waits in the kernel: in order, and not older than what was read.
InboxTimes ==
  /\ \A i \in DOMAIN inbox :
       /\ inbox[i].at <= now
       /\ inbox[i].at = NoTime \/ last_rx_packet_timestamp <= inbox[i].at
  /\ \A i, j \in DOMAIN inbox : i <= j => inbox[i].at <= inbox[j].at

\* A byte that starts a response has left its time.
BufferTimes ==
  \A i \in DOMAIN data_buffer :
    Starts(data_buffer[i].byte) =>
      /\ last_rx_packet_timestamp # NoTime
      /\ data_buffer[i].at <= last_rx_packet_timestamp

\* Acknowledgements, in order, and not before the request they may be taken for.
SendTimes ==
  /\ \A i \in DOMAIN errqueue : errqueue[i] <= now /\ requested_at <= errqueue[i]
  /\ \A i, j \in DOMAIN errqueue : i <= j => errqueue[i] <= errqueue[j]

ClockTimes ==
  /\ last_rx_packet_timestamp <= now /\ sent_at <= now
  /\ requested_at <= now /\ received_at <= last_rx_packet_timestamp
  /\ pc \in {"reply", "deliver"} => requested_at # NoTime
  /\ pc = "deliver" => received_at # NoTime

\* The time of the last sample is the mean of a time of sending and one of
\* receiving, and the next sample has later ones.
SampleTimes ==
  /\ Phase = "setup" => delivered.t = 0
  /\ \E a, b \in Times :
       /\ delivered.t <= (SinceStart(a) + SinceStart(b)) \div 2
       /\ a <= now /\ \A i \in DOMAIN errqueue : a <= errqueue[i]
       /\ sent_at # NoTime => a <= sent_at
       /\ requested_at # NoTime => a <= requested_at
       /\ b = 0 \/ b <= last_rx_packet_timestamp
       /\ received_at # NoTime => b <= received_at

TimesInv == InboxTimes /\ BufferTimes /\ SendTimes /\ ClockTimes /\ SampleTimes

-----------------------------------------------------------------------------
(* The invariant: requests and answers.                                    *)

BytesOf(s) == [i \in DOMAIN s |-> s[i].byte]

\* All that OpenOCD has written and that was not taken as a response.
Flight == BytesOf(data_buffer) \o (BytesOf(inbox) \o outgoing)

NoAnswers(f) == \A i \in DOMAIN f : ~IsAnswer(f[i])

NoReads(rs) == \A i \in DOMAIN rs : rs[i].op # "m"

\* The only answer in f is `c`, at k.
OnlyAnswer(f, k, c) ==
  /\ k \in 1 .. Len(f) - 1
  /\ f[k] = [ch |-> "$", of |-> c] /\ f[k + 1] = [ch |-> "#", of |-> c]
  /\ \A i \in DOMAIN f : i # k /\ i # k + 1 => ~IsAnswer(f[i])

\* The only read in rs is the n-th, of address a.
OnlyRead(rs, a, n) ==
  /\ \E i \in DOMAIN rs : rs[i].op = "m"
  /\ \A i \in DOMAIN rs : rs[i].op = "m" => rs[i].addr = a /\ rs[i].n = n
  /\ \A i, j \in DOMAIN rs : rs[i].op = "m" /\ rs[j].op = "m" => i = j

\* A request for memory was sent and its reply was not taken.
Awaiting == pc = "reply" \/ (pc = "request" /\ sent_at # NoTime)

Address == addresses[Len(samples) + 1]

InStep ==
  /\ ~Awaiting /\ pc # "failed" => NoAnswers(Flight) /\ NoReads(requests)
  /\ Awaiting =>
       \/ NoAnswers(Flight) /\ OnlyRead(requests, Address, sent)
       \/ NoReads(requests) /\ \E k \in Nat : OnlyAnswer(Flight, k, Answer(Address, sent))

\* The number of the request before the first of this iteration.
First == sent - Len(samples) - (IF Awaiting THEN 1 ELSE 0)

SamplesOwn ==
  pc \in {"request", "reply", "deliver"} =>
    /\ delivered.upto <= First
    /\ \A i \in 1 .. Len(samples) :
         samples[i] = [addr  |-> addresses[i],
                       value |-> [addr |-> addresses[i], n |-> First + i]]

IInv == MemTypes /\ TimesInv /\ InStep /\ SamplesOwn

-----------------------------------------------------------------------------
(* Bytes and sequences of them.                                            *)

LEMMA ContentsFields ==
  /\ \A c \in Contents :
       /\ c.type \in {"hello", "QAck", "OK", "O", "T05", "answer"}
       /\ c.type = "answer" => c.value \in [addr : Addresses, n : Nat]
  /\ \A type \in {"hello", "QAck", "OK", "O", "T05"} : Plain(type) \in Contents
  /\ \A a \in Addresses, n \in Nat : Answer(a, n) \in Contents
  BY DEF Contents, Addresses, Plain, Answer

LEMMA WireFields ==
  /\ \A b \in WireBytes : b.ch \in {"+", "$", "#"} /\ b.of \in Contents
  /\ \A r \in Received : /\ r.byte \in WireBytes
                         /\ r.at \in Times \cup {NoTime}
  BY DEF WireBytes, Received

LEMMA TimesAreNumbers ==
  /\ Times \subseteq Nat /\ 0 \in Times /\ NoTime = -1
  /\ \A t \in Times \cup {NoTime} : t \in Int /\ t >= -1
  /\ \A t \in Times : t >= 0
  BY StreamAssumption DEF Times, NoTime

\* What OpenOCD writes.
LEMMA WrittenBytes ==
  ASSUME NEW c \in Contents
  PROVE  /\ Ack(c) \in Seq(WireBytes) /\ Packet(c) \in Seq(WireBytes)
         /\ Len(Ack(c)) = 1 /\ Ack(c)[1] = [ch |-> "+", of |-> c]
         /\ Len(Packet(c)) = 2
         /\ Packet(c)[1] = [ch |-> "$", of |-> c]
         /\ Packet(c)[2] = [ch |-> "#", of |-> c]
<1>1. /\ [ch |-> "+", of |-> c] \in WireBytes /\ [ch |-> "$", of |-> c] \in WireBytes
      /\ [ch |-> "#", of |-> c] \in WireBytes
  BY DEF WireBytes
<1>. QED
  BY <1>1 DEF Ack, Packet

\* The rest of a sequence.
LEMMA Rest ==
  ASSUME NEW S, NEW s \in Seq(S), NEW n \in 0 .. Len(s)
  PROVE  /\ SubSeq(s, n + 1, Len(s)) \in Seq(S)
         /\ Len(SubSeq(s, n + 1, Len(s))) = Len(s) - n
         /\ \A i \in 1 .. Len(s) - n : SubSeq(s, n + 1, Len(s))[i] = s[i + n]
<1>1. \A i \in n + 1 .. Len(s) : s[i] \in S
  OBVIOUS
<1>2. n + 1 \in Int /\ Len(s) \in Int
  OBVIOUS
<1>3. /\ SubSeq(s, n + 1, Len(s)) \in Seq(S)
      /\ Len(SubSeq(s, n + 1, Len(s))) =
           IF n + 1 <= Len(s) THEN Len(s) - (n + 1) + 1 ELSE 0
      /\ \A i \in 1 .. Len(s) - (n + 1) + 1 :
           SubSeq(s, n + 1, Len(s))[i] = s[n + 1 + i - 1]
  BY ONLY <1>1, <1>2, SubSeqProperties
<1>. QED
  BY <1>2, <1>3

LEMMA BytesOfType ==
  ASSUME NEW s \in Seq(Received)
  PROVE  /\ BytesOf(s) \in Seq(WireBytes) /\ Len(BytesOf(s)) = Len(s)
         /\ \A i \in 1 .. Len(s) : BytesOf(s)[i] = s[i].byte
<1>1. \A i \in 1 .. Len(s) : s[i].byte \in WireBytes
  BY WireFields
<1>2. BytesOf(s) = [i \in 1 .. Len(s) |-> s[i].byte]
  BY DEF BytesOf
<1>. QED
  BY <1>1, <1>2

LEMMA BytesOfConcat ==
  ASSUME NEW s \in Seq(Received), NEW r \in Seq(Received)
  PROVE  BytesOf(s \o r) = BytesOf(s) \o BytesOf(r)
<1>1. /\ s \o r \in Seq(Received) /\ Len(s \o r) = Len(s) + Len(r)
      /\ \A i \in 1 .. Len(s) + Len(r) :
           (s \o r)[i] = IF i <= Len(s) THEN s[i] ELSE r[i - Len(s)]
  BY ConcatProperties
<1>. DEFINE d == BytesOf(s \o r)
            e == BytesOf(s) \o BytesOf(r)
<1>2. /\ d \in Seq(WireBytes) /\ Len(d) = Len(s) + Len(r)
      /\ \A i \in 1 .. Len(s) + Len(r) : d[i] = (s \o r)[i].byte
  BY <1>1, BytesOfType
<1>3. /\ BytesOf(s) \in Seq(WireBytes) /\ Len(BytesOf(s)) = Len(s)
      /\ \A i \in 1 .. Len(s) : BytesOf(s)[i] = s[i].byte
      /\ BytesOf(r) \in Seq(WireBytes) /\ Len(BytesOf(r)) = Len(r)
      /\ \A i \in 1 .. Len(r) : BytesOf(r)[i] = r[i].byte
  BY BytesOfType
<1>4. /\ e \in Seq(WireBytes) /\ Len(e) = Len(s) + Len(r)
      /\ \A i \in 1 .. Len(s) + Len(r) :
           e[i] = IF i <= Len(s) THEN BytesOf(s)[i] ELSE BytesOf(r)[i - Len(s)]
  <2>. DEFINE b == BytesOf(s)
              c == BytesOf(r)
  <2>1. b \in Seq(WireBytes) /\ Len(b) = Len(s) /\ c \in Seq(WireBytes) /\ Len(c) = Len(r)
    BY <1>3
  <2>. HIDE DEF b, c
  <2>2. /\ b \o c \in Seq(WireBytes) /\ Len(b \o c) = Len(b) + Len(c)
        /\ \A i \in 1 .. Len(b) + Len(c) :
             (b \o c)[i] = IF i <= Len(b) THEN b[i] ELSE c[i - Len(b)]
    BY <2>1, ConcatProperties
  <2>3. /\ b \o c \in Seq(WireBytes) /\ Len(b \o c) = Len(s) + Len(r)
        /\ \A i \in 1 .. Len(s) + Len(r) :
             (b \o c)[i] = IF i <= Len(s) THEN b[i] ELSE c[i - Len(s)]
    BY <2>1, <2>2
  <2>. QED
    BY <2>3 DEF b, c
<1>. HIDE DEF d, e
<1>5. ASSUME NEW i \in 1 .. Len(d) PROVE d[i] = e[i]
  <2>1. i \in 1 .. Len(s) + Len(r) /\ Len(s) \in Nat /\ Len(r) \in Nat
    BY <1>2
  <2>2. CASE i <= Len(s)
    <3>1. i \in 1 .. Len(s)
      BY <2>1, <2>2
    <3>. QED
      BY <1>1, <1>2, <1>3, <1>4, <2>1, <2>2, <3>1
  <2>3. CASE ~(i <= Len(s))
    <3>1. i - Len(s) \in 1 .. Len(r)
      BY <2>1, <2>3
    <3>. QED
      BY <1>1, <1>2, <1>3, <1>4, <2>1, <2>3, <3>1
  <2>. QED
    BY <2>2, <2>3
<1>6. d = e
  BY <1>2, <1>4, <1>5, SeqEqual
<1>. QED
  BY <1>6 DEF d, e

LEMMA BytesOfRest ==
  ASSUME NEW s \in Seq(Received), NEW n \in 0 .. Len(s)
  PROVE  BytesOf(SubSeq(s, n + 1, Len(s))) = SubSeq(BytesOf(s), n + 1, Len(BytesOf(s)))
<1>. DEFINE r == SubSeq(s, n + 1, Len(s))
            b == BytesOf(s)
            d == SubSeq(b, n + 1, Len(b))
<1>1. /\ r \in Seq(Received) /\ Len(r) = Len(s) - n
      /\ \A i \in 1 .. Len(s) - n : r[i] = s[i + n]
  BY Rest
<1>2. /\ b \in Seq(WireBytes) /\ Len(b) = Len(s)
      /\ \A i \in 1 .. Len(s) : b[i] = s[i].byte
  BY BytesOfType
<1>. HIDE DEF r, b
<1>3. /\ d \in Seq(WireBytes) /\ Len(d) = Len(s) - n
      /\ \A i \in 1 .. Len(s) - n : d[i] = b[i + n]
  <2>1. n \in 0 .. Len(b)
    BY <1>2
  <2>2. /\ d \in Seq(WireBytes) /\ Len(d) = Len(b) - n
        /\ \A i \in 1 .. Len(b) - n : d[i] = b[i + n]
    BY <1>2, <2>1, Rest
  <2>. QED
    BY <1>2, <2>2
<1>. HIDE DEF d
<1>4. /\ BytesOf(r) \in Seq(WireBytes) /\ Len(BytesOf(r)) = Len(s) - n
      /\ \A i \in 1 .. Len(s) - n : BytesOf(r)[i] = r[i].byte
  BY <1>1, BytesOfType
<1>5. ASSUME NEW i \in 1 .. Len(d) PROVE d[i] = BytesOf(r)[i]
  <2>1. i \in 1 .. Len(s) - n /\ i + n \in 1 .. Len(s)
    BY <1>3
  <2>. QED
    BY <1>1, <1>2, <1>3, <1>4, <2>1
<1>6. d = BytesOf(r)
  BY <1>3, <1>4, <1>5, SeqEqual
<1>. QED
  BY <1>6 DEF d, r, b

\* Bytes that come in at one time.
LEMMA Arrived ==
  ASSUME NEW bytes \in Seq(WireBytes), NEW t \in Times \cup {NoTime}
  PROVE  LET r == [i \in DOMAIN bytes |-> [byte |-> bytes[i], at |-> t]] IN
         /\ r \in Seq(Received) /\ Len(r) = Len(bytes)
         /\ \A i \in 1 .. Len(bytes) : r[i].at = t
         /\ BytesOf(r) = bytes
<1>. DEFINE r == [i \in DOMAIN bytes |-> [byte |-> bytes[i], at |-> t]]
<1>1. \A i \in 1 .. Len(bytes) : [byte |-> bytes[i], at |-> t] \in Received
  BY DEF Received
<1>2. DOMAIN bytes = 1 .. Len(bytes) /\ Len(bytes) \in Nat
  OBVIOUS
<1>3. /\ r \in Seq(Received) /\ Len(r) = Len(bytes)
      /\ \A i \in 1 .. Len(bytes) : r[i].byte = bytes[i] /\ r[i].at = t
  BY <1>1, <1>2
<1>. HIDE DEF r
<1>4. /\ BytesOf(r) \in Seq(WireBytes) /\ Len(BytesOf(r)) = Len(bytes)
      /\ \A i \in 1 .. Len(bytes) : BytesOf(r)[i] = bytes[i]
  <2>1. /\ BytesOf(r) \in Seq(WireBytes) /\ Len(BytesOf(r)) = Len(r)
        /\ \A i \in 1 .. Len(r) : BytesOf(r)[i] = r[i].byte
    BY <1>3, BytesOfType
  <2>. QED
    BY <1>3, <2>1
<1>5. BytesOf(r) = bytes
  BY <1>4, SeqEqual
<1>. QED
  BY <1>3, <1>5 DEF r

-----------------------------------------------------------------------------
(* Types.                                                                  *)

WireTypes ==
  /\ timestamping_enabled \in BOOLEAN
  /\ now \in Times /\ sent_at \in Times \cup {NoTime}
  /\ inbox \in Seq(Received) /\ unacked \in Nat /\ errqueue \in Seq(Times)
  /\ data_buffer \in Seq(Received)
  /\ last_rx_packet_timestamp \in Times \cup {NoTime}

LEMMA Wire == RemoteTypeOK(Contents) <=> WireTypes
  BY DEF RemoteTypeOK, StreamTypeOK, WireTypes, WireBytes, Received

LEMMA WirePrimed == RemoteTypeOK(Contents)' <=> WireTypes'
  BY DEF RemoteTypeOK, StreamTypeOK, WireTypes, WireBytes, Received, Contents

\* The times of a receive and of a send.
LEMMA StampTypes ==
  ASSUME WireTypes
  PROVE  /\ inbox # <<>> => ReceiveTimestamp \in Times
         /\ sent_at # NoTime => TxTimestamp \in Times
<1>1. inbox # <<>> => inbox[Len(inbox)] \in Received
  BY DEF WireTypes
<1>2. inbox # <<>> => inbox[Len(inbox)].at \in Times \cup {NoTime}
  BY <1>1, WireFields
<1>3. errqueue # <<>> => Head(errqueue) \in Times
  BY DEF WireTypes
<1>. QED
  BY <1>2, <1>3 DEF WireTypes, ReceiveTimestamp, TxTimestamp

\* What the program's calls do to a connection.
LEMMA CallTypes ==
  ASSUME WireTypes
  PROVE  /\ sendmsg /\ UNCHANGED remote => WireTypes'
         /\ get_tx_timestamp /\ UNCHANGED remote => WireTypes'
         /\ feed_buffer_from_stream => WireTypes'
         /\ TakeResponse => WireTypes'
<1>1. sendmsg /\ UNCHANGED remote => WireTypes'
  BY DEF WireTypes, sendmsg, remote
<1>2. ASSUME get_tx_timestamp, UNCHANGED remote PROVE WireTypes'
  <2>1. errqueue' \in Seq(Times)
    BY <1>2 DEF WireTypes, get_tx_timestamp
  <2>. QED
    BY <1>2, <2>1 DEF WireTypes, get_tx_timestamp, remote
<1>3. ASSUME feed_buffer_from_stream PROVE WireTypes'
  <2>1. data_buffer \o inbox \in Seq(Received)
    BY ConcatProperties DEF WireTypes
  <2>2. <<>> \in Seq(Received)
    OBVIOUS
  <2>3. ReceiveTimestamp \in Times
    BY <1>3, StampTypes DEF feed_buffer_from_stream, receive
  <2>4. last_rx_packet_timestamp' \in Times \cup {NoTime}
    BY <1>3, <2>3 DEF WireTypes, feed_buffer_from_stream, RxTimestamp
  <2>. QED
    BY <1>3, <2>1, <2>2, <2>4 DEF WireTypes, feed_buffer_from_stream, receive
<1>4. ASSUME TakeResponse PROVE WireTypes'
  <2>1. \E n \in {1, 2} : /\ n <= Len(data_buffer)
                          /\ data_buffer' = SubSeq(data_buffer, n + 1, Len(data_buffer))
    BY <1>4 DEF TakeResponse, ResponseInFront, AckInFront, PacketInFront, WireTypes
  <2>2. data_buffer' \in Seq(Received)
    BY <2>1, Rest DEF WireTypes
  <2>. QED
    BY <1>4, <2>2 DEF WireTypes, TakeResponse, stream
<1>. QED
  BY <1>1, <1>2, <1>3, <1>4

\* What the clock and the kernels do.
LEMMA KernelTypes ==
  ASSUME WireTypes, UNCHANGED remote
  PROVE  /\ Tick => WireTypes'
         /\ Acknowledge => WireTypes'
         /\ \A bytes \in Seq(WireBytes) : Arrive(bytes) => WireTypes'
<1>1. Tick => WireTypes'
  BY StreamAssumption DEF WireTypes, Tick, remote, Times
<1>2. ASSUME Acknowledge PROVE WireTypes'
  <2>1. PICK k \in 1 .. unacked :
          unacked' = unacked - k /\ errqueue' = errqueue \o [i \in 1 .. k |-> now]
    BY <1>2 DEF Acknowledge
  <2>2. [i \in 1 .. k |-> now] \in Seq(Times)
    BY <2>1 DEF WireTypes
  <2>3. errqueue' \in Seq(Times)
    BY <2>1, <2>2, ConcatProperties DEF WireTypes
  <2>. QED
    BY <1>2, <2>1, <2>3 DEF WireTypes, Acknowledge, remote
<1>3. ASSUME NEW bytes \in Seq(WireBytes), Arrive(bytes) PROVE WireTypes'
  <2>. DEFINE r == [i \in DOMAIN bytes |-> [byte |-> bytes[i], at |-> now]]
  <2>1. r \in Seq(Received)
    BY Arrived DEF WireTypes
  <2>2. inbox' = inbox \o r
    BY <1>3 DEF Arrive
  <2>. HIDE DEF r
  <2>3. inbox' \in Seq(Received)
    BY <2>1, <2>2, ConcatProperties DEF WireTypes
  <2>. QED
    BY <1>3, <2>3 DEF WireTypes, Arrive, remote
<1>. QED
  BY <1>1, <1>2, <1>3

LEMMA ResponseType ==
  ASSUME WireTypes, ResponseInFront
  PROVE  /\ Response \in Contents
         /\ data_buffer[1] \in Received /\ Len(data_buffer) >= 1
<1>1. data_buffer # <<>>
  BY DEF WireTypes, ResponseInFront, AckInFront, PacketInFront
<1>2. data_buffer[1] \in Received /\ Len(data_buffer) >= 1
  BY <1>1 DEF WireTypes
<1>. QED
  BY <1>2, WireFields DEF Response

LEMMA MeanType ==
  ASSUME NEW a \in Times \cup {NoTime}, NEW b \in Times \cup {NoTime}, start \in Times
  PROVE  (SinceStart(a) + SinceStart(b)) \div 2 \in Times
<1>1. \A t \in Times \cup {NoTime} : SinceStart(t) \in 0 .. MaxNow
  BY StreamAssumption DEF SinceStart, Times, NoTime
<1>2. \A m, n \in 0 .. MaxNow : (m + n) \div 2 \in 0 .. MaxNow
  BY StreamAssumption
<1>. QED
  BY <1>1, <1>2 DEF Times

LEMMA AddressTypes ==
  \A l \in AddressLists : /\ Len(l) \in Nat \ {0}
                          /\ \A i \in 1 .. Len(l) : l[i] \in Addresses
<1>1. \A l \in AddressLists : Len(l) \in Nat \ {0} /\ DOMAIN l = 1 .. Len(l)
  BY ExchangeAssumption
<1>. QED
  BY <1>1 DEF Addresses

\* The thread.
LEMMA SendTypes ==
  ASSUME MemTypes, SendPacket \/ PacketSent \/ SendFails
  PROVE  MemTypes'
<1>1. WireTypes
  BY Wire DEF MemTypes, TypeOK
<1>2. CASE SendPacket
  <2>1. RemoteTypeOK(Contents)'
    BY <1>1, <1>2, CallTypes, WirePrimed DEF SendPacket
  <2>2. pc = "request" => addresses[Len(samples) + 1] \in Addresses
    BY AddressTypes DEF MemTypes
  <2>3. requests' \in Seq(Requests)
    <3>. DEFINE r == IF pc = "request"
                     THEN [op |-> "m", addr |-> addresses[Len(samples) + 1], n |-> sent + 1]
                     ELSE [op |-> pc, addr |-> None, n |-> 0]
    <3>1. r \in Requests
      BY <1>2, <2>2 DEF SendPacket, Requests, MemTypes, TypeOK, Packets
    <3>2. requests' = Append(requests, r)
      BY <1>2 DEF SendPacket
    <3>. HIDE DEF r
    <3>. QED
      BY <3>1, <3>2 DEF MemTypes
  <2>. QED
    BY <1>2, <2>1, <2>3 DEF SendPacket, MemTypes, TypeOK, iteration
<1>3. CASE PacketSent
  <2>1. RemoteTypeOK(Contents)'
    BY <1>1, <1>3, CallTypes, WirePrimed DEF PacketSent
  <2>2. TxTimestamp \in Times
    BY <1>1, <1>3, StampTypes DEF PacketSent, get_tx_timestamp
  <2>3. requested_at' \in Times \cup {NoTime}
    BY <1>3, <2>2 DEF PacketSent, FirstOf, MemTypes, TypeOK
  <2>. QED
    BY <1>3, <2>1, <2>3 DEF PacketSent, get_tx_timestamp, MemTypes, TypeOK, openocd, Packets
<1>4. CASE SendFails
  <2>1. RemoteTypeOK(Contents)'
    BY <1>1, <1>4, WirePrimed DEF SendFails, WireTypes, stream, remote
  <2>. QED
    BY <1>4, <2>1 DEF SendFails, MemTypes, TypeOK, iteration, openocd, stream
<1>. QED
  BY <1>2, <1>3, <1>4

LEMMA ReadTypes ==
  ASSUME MemTypes, FeedBuffer \/ ReadError \/ Handshake \/ HandleReply
  PROVE  MemTypes'
<1>1. WireTypes
  BY Wire DEF MemTypes, TypeOK
<1>2. CASE FeedBuffer
  <2>1. RemoteTypeOK(Contents)'
    BY <1>1, <1>2, CallTypes, WirePrimed DEF FeedBuffer
  <2>. QED
    BY <1>2, <2>1 DEF FeedBuffer, feed_buffer_from_stream, receive, MemTypes, TypeOK,
                      sampler, openocd
<1>3. CASE ReadError
  <2>1. RemoteTypeOK(Contents)'
    BY <1>1, <1>3, WirePrimed DEF ReadError, ReadFails, WireTypes, stream, remote
  <2>. QED
    BY <1>3, <2>1 DEF ReadError, ReadFails, Reading, MemTypes, TypeOK, iteration, openocd,
                      stream, Packets
<1>4. CASE Handshake
  <2>1. RemoteTypeOK(Contents)'
    BY <1>1, <1>4, CallTypes, WirePrimed DEF Handshake
  <2>2. sent_at' = NoTime
    BY <1>4 DEF Handshake, TakeResponse, stream, MemTypes, Packets
  <2>3. /\ pc' \in {"failed", "QStart", "QOk", "continue"}
        /\ UNCHANGED <<iteration, delivered, sent, iterations, openocd>>
        /\ pc \in {"hello", "QAck", "QOk"} /\ start' \in Times
    BY <1>1, <1>4 DEF Handshake, MemTypes, TypeOK, WireTypes
  <2>. QED
    BY <2>1, <2>2, <2>3 DEF MemTypes, TypeOK, iteration, openocd
<1>5. CASE HandleReply
  <2>1. RemoteTypeOK(Contents)'
    BY <1>1, <1>5, CallTypes, WirePrimed DEF HandleReply
  <2>2. sent_at' = NoTime
    BY <1>5 DEF HandleReply, TakeResponse, stream, MemTypes, Packets
  <2>3. received_at' \in Times \cup {NoTime}
    BY <1>1, <1>5 DEF HandleReply, FirstOf, MemTypes, TypeOK, WireTypes
  <2>. DEFINE r == [addr |-> addresses[Len(samples) + 1], value |-> Response.value]
  <2>4. parse_hex_value(Response) => r \in Readings
    <3>1. Response \in Contents
      BY <1>1, <1>5, ResponseType DEF HandleReply, TakeResponse
    <3>2. addresses[Len(samples) + 1] \in Addresses
      BY <1>5, AddressTypes DEF HandleReply, MemTypes
    <3>. QED
      BY <3>1, <3>2, ContentsFields DEF parse_hex_value, Readings
  <2>5. /\ Len(samples) < Len(addresses) /\ addresses \in AddressLists
        /\ samples \in Seq(Readings) /\ Len(addresses) \in Nat
    BY <1>5, AddressTypes DEF HandleReply, MemTypes
  <2>6. CASE AckInFront \/ ~parse_hex_value(Response)
    <3>1. samples' = samples /\ pc' = "reply"
      BY <1>5, <2>6 DEF HandleReply, NextAfter
    <3>. QED
      BY <1>5, <2>1, <2>2, <2>3, <2>5, <3>1 DEF HandleReply, MemTypes, TypeOK, openocd
  <2>7. CASE ~AckInFront /\ parse_hex_value(Response)
    <3>1. samples' = Append(samples, r)
      BY <1>5, <2>7 DEF HandleReply
    <3>2. samples' \in Seq(Readings) /\ Len(samples') = Len(samples) + 1
      <4>. HIDE DEF r
      <4>. QED
        BY <2>4, <2>5, <2>7, <3>1, AppendProperties
    <3>3. pc' = IF Len(samples') = Len(addresses) THEN "deliver" ELSE "request"
      BY <1>5, <2>7 DEF HandleReply, NextAfter
    <3>. QED
      BY <1>5, <2>1, <2>2, <2>3, <2>5, <3>2, <3>3 DEF HandleReply, MemTypes, TypeOK, openocd
  <2>. QED
    BY <2>6, <2>7
<1>. QED
  BY <1>2, <1>3, <1>4, <1>5

LEMMA IterationTypes ==
  ASSUME MemTypes, BeginIteration \/ Deliver
  PROVE  MemTypes'
<1>1. WireTypes
  BY Wire DEF MemTypes, TypeOK
<1>2. CASE BeginIteration
  <2>1. RemoteTypeOK(Contents)'
    BY <1>1, <1>2, WirePrimed DEF BeginIteration, WireTypes, stream, remote
  <2>2. samples = <<>> /\ addresses' \in AddressLists /\ Len(addresses') \in Nat \ {0}
    BY <1>2, AddressTypes DEF BeginIteration, MemTypes
  <2>3. iterations' \in 0 .. MaxIterations
    BY <1>2, ExchangeAssumption DEF BeginIteration, MemTypes, TypeOK
  <2>4. sent_at' = NoTime
    BY <1>2 DEF BeginIteration, MemTypes, stream, Packets
  <2>. QED
    BY <1>2, <2>1, <2>2, <2>3, <2>4 DEF BeginIteration, MemTypes, TypeOK, openocd
<1>3. CASE Deliver
  <2>1. RemoteTypeOK(Contents)'
    BY <1>1, <1>3, WirePrimed DEF Deliver, WireTypes, stream, remote
  <2>2. delivered'.t \in Times /\ delivered'.upto = sent
    BY <1>3, MeanType DEF Deliver, MemTypes, TypeOK
  <2>3. sent_at' = NoTime
    BY <1>3 DEF Deliver, MemTypes, stream, Packets
  <2>4. samples' = <<>> /\ addresses' = <<>> /\ Len(samples') <= Len(addresses')
    BY <1>3 DEF Deliver
  <2>5. samples' \in Seq(Readings)
    BY <2>4
  <2>. QED
    BY <1>3, <2>1, <2>2, <2>3, <2>4, <2>5 DEF Deliver, MemTypes, TypeOK, openocd
<1>. QED
  BY <1>2, <1>3

LEMMA EnvironmentTypes ==
  ASSUME MemTypes, Environment
  PROVE  MemTypes'
<1>1. WireTypes
  BY Wire DEF MemTypes, TypeOK
<1>2. CASE ServerHandles
  <2>1. RemoteTypeOK(Contents)'
    BY <1>1, <1>2, WirePrimed DEF ServerHandles, WireTypes, stream, remote
  <2>2. Head(requests) \in Requests /\ requests' \in Seq(Requests)
    BY <1>2 DEF ServerHandles, MemTypes
  <2>3. outgoing' \in Seq(WireBytes) /\ resumed' \in BOOLEAN
    <3>1. CASE Head(requests).op = "QStart"
      <4>. DEFINE a == Ack(Plain("QAck"))
                  p == Packet(Plain("OK"))
      <4>1. a \in Seq(WireBytes) /\ p \in Seq(WireBytes)
        BY WrittenBytes, ContentsFields
      <4>2. outgoing' = (outgoing \o a) \o p /\ resumed' = resumed
        BY <1>2, <3>1 DEF ServerHandles
      <4>. HIDE DEF a, p
      <4>3. outgoing \o a \in Seq(WireBytes)
        BY <4>1, ConcatProperties DEF MemTypes
      <4>. QED
        BY <4>1, <4>2, <4>3, ConcatProperties DEF MemTypes, TypeOK
    <3>2. CASE Head(requests).op = "continue"
      BY <1>2, <3>2 DEF ServerHandles, MemTypes
    <3>3. CASE Head(requests).op = "m"
      <4>. DEFINE r == Head(requests)
                  p == Packet(Answer(r.addr, r.n))
      <4>1. Answer(r.addr, r.n) \in Contents
        <5>1. r.addr \in Addresses /\ r.n \in Nat
          BY <2>2, <3>3 DEF Requests
        <5>. QED
          BY <5>1, ContentsFields
      <4>2. p \in Seq(WireBytes)
        BY <4>1, WrittenBytes
      <4>3. outgoing' = outgoing \o p /\ resumed' = resumed
        BY <1>2, <3>3 DEF ServerHandles
      <4>. HIDE DEF p
      <4>. QED
        BY <4>2, <4>3, ConcatProperties DEF MemTypes, TypeOK
    <3>. QED
      BY <1>2, <3>1, <3>2, <3>3 DEF ServerHandles
  <2>. QED
    BY <1>2, <2>1, <2>2, <2>3 DEF ServerHandles, MemTypes, TypeOK, sampler, stream
<1>3. CASE ServerChatters
  <2>1. RemoteTypeOK(Contents)'
    BY <1>1, <1>3, WirePrimed DEF ServerChatters, WireTypes, stream, remote
  <2>2. PICK type \in {"O", "T05"} : outgoing' = outgoing \o Packet(Plain(type))
    BY <1>3 DEF ServerChatters
  <2>. DEFINE p == Packet(Plain(type))
  <2>3. p \in Seq(WireBytes)
    BY WrittenBytes, ContentsFields
  <2>. HIDE DEF p
  <2>4. outgoing' \in Seq(WireBytes)
    BY <2>2, <2>3, ConcatProperties DEF MemTypes, p
  <2>5. chatter' \in 0 .. MaxChatter
    BY <1>3, ExchangeAssumption DEF ServerChatters, MemTypes, TypeOK
  <2>. QED
    BY <1>3, <2>1, <2>4, <2>5 DEF ServerChatters, MemTypes, TypeOK, sampler, stream
<1>4. CASE Delivery
  <2>1. PICK n \in 1 .. Len(outgoing) :
          /\ Arrive(SubSeq(outgoing, 1, n))
          /\ outgoing' = SubSeq(outgoing, n + 1, Len(outgoing))
    BY <1>4 DEF Delivery
  <2>2. SubSeq(outgoing, 1, n) \in Seq(WireBytes) /\ outgoing' \in Seq(WireBytes)
    BY <2>1, Rest DEF MemTypes
  <2>3. RemoteTypeOK(Contents)'
    BY <1>1, <1>4, <2>1, <2>2, KernelTypes, WirePrimed DEF Delivery
  <2>. QED
    BY <1>4, <2>1, <2>2, <2>3 DEF Delivery, Arrive, MemTypes, TypeOK, sampler
<1>5. CASE (Tick \/ Acknowledge) /\ UNCHANGED <<remote, sampler, openocd>>
  <2>1. RemoteTypeOK(Contents)'
    BY <1>1, <1>5, KernelTypes, WirePrimed
  <2>. QED
    BY <1>5, <2>1 DEF Tick, Acknowledge, MemTypes, TypeOK, sampler, openocd
<1>. QED
  BY <1>2, <1>3, <1>4, <1>5 DEF Environment

LEMMA TypesInit == Init => MemTypes
<1>. SUFFICES ASSUME Init PROVE MemTypes
  OBVIOUS
<1>1. PICK first \in {<<>>, Ack(Plain("hello"))} :
        /\ ConnectedWith(first)
        /\ outgoing = IF first = <<>> THEN Ack(Plain("hello")) ELSE <<>>
  BY DEF Init
<1>2. first \in Seq(WireBytes) /\ outgoing \in Seq(WireBytes)
  <2>. DEFINE a == Ack(Plain("hello"))
  <2>0. Plain("hello") \in Contents
    BY ContentsFields
  <2>1. a \in Seq(WireBytes)
    BY <2>0, WrittenBytes
  <2>3. <<>> \in Seq(WireBytes)
    OBVIOUS
  <2>2. first \in {<<>>, a} /\ outgoing = IF first = <<>> THEN a ELSE <<>>
    BY <1>1
  <2>. HIDE DEF a
  <2>. QED
    BY <2>1, <2>2, <2>3
<1>. DEFINE r == [i \in DOMAIN first |-> [byte |-> first[i], at |-> NoTime]]
<1>3. r \in Seq(Received)
  BY <1>2, Arrived
<1>4. inbox = r
  BY <1>1 DEF ConnectedWith
<1>. HIDE DEF r
<1>5. WireTypes
  BY <1>1, <1>3, <1>4, TimesAreNumbers DEF WireTypes, ConnectedWith, Init
<1>6. RemoteTypeOK(Contents)
  BY <1>5, Wire
<1>7. /\ addresses = <<>> /\ samples = <<>> /\ Len(samples) <= Len(addresses)
      /\ samples \in Seq(Readings) /\ requests \in Seq(Requests)
      /\ delivered.t = 0 /\ delivered.upto = 0
  BY DEF Init
<1>8. TypeOK
  <2>1. /\ pc = "hello" /\ requested_at = NoTime /\ received_at = NoTime /\ start = 0
        /\ sent = 0 /\ iterations = 0 /\ resumed = FALSE /\ chatter = 0
    BY DEF Init
  <2>2. iterations \in 0 .. MaxIterations /\ chatter \in 0 .. MaxChatter
    BY <2>1, ExchangeAssumption
  <2>3. addresses \in AddressLists \cup {<<>>}
    BY <1>7
  <2>. QED
    BY <1>6, <1>7, <2>1, <2>2, <2>3, TimesAreNumbers DEF TypeOK
<1>. QED
  BY <1>1, <1>2, <1>7, <1>8 DEF MemTypes, Init, ConnectedWith

LEMMA TypesStep ==
  ASSUME MemTypes, [Next]_vars
  PROVE  MemTypes'
<1>1. CASE UNCHANGED vars
  <2>1. WireTypes
    BY Wire DEF MemTypes, TypeOK
  <2>2. RemoteTypeOK(Contents)'
    BY <1>1, <2>1, WirePrimed DEF WireTypes, vars, stream, remote
  <2>. QED
    BY <1>1, <2>2 DEF MemTypes, TypeOK, vars, stream, remote, sampler, openocd
<1>. QED
  BY <1>1, SendTypes, ReadTypes, IterationTypes, EnvironmentTypes
     DEF Next, SamplerThread

\* The variables keep their types in any number of iterations and with any
\* lists of addresses; sample times stay within the clock's range.
THEOREM ExchangeTypeCorrect == Spec => []TypeOK
<1>1. MemTypes => TypeOK
  BY DEF MemTypes
<1>. QED
  BY <1>1, TypesInit, TypesStep, PTL DEF Spec

-----------------------------------------------------------------------------
(* Times.                                                                  *)

\* What a step does to the connection and the buffer.
Effect ==
  \/ sendmsg /\ UNCHANGED remote
  \/ get_tx_timestamp /\ UNCHANGED remote
  \/ feed_buffer_from_stream
  \/ TakeResponse
  \/ Tick /\ UNCHANGED remote
  \/ Acknowledge /\ UNCHANGED remote
  \/ \E bytes \in Seq(WireBytes) : Arrive(bytes) /\ UNCHANGED remote
  \/ UNCHANGED <<stream, remote>>

LEMMA Effects ==
  ASSUME MemTypes, [Next]_vars
  PROVE  Effect
<1>1. CASE Delivery
  <2>1. PICK n \in 1 .. Len(outgoing) : Arrive(SubSeq(outgoing, 1, n))
    BY <1>1 DEF Delivery
  <2>2. SubSeq(outgoing, 1, n) \in Seq(WireBytes)
    BY <2>1 DEF MemTypes
  <2>. QED
    BY <1>1, <2>1, <2>2 DEF Delivery, Effect
<1>2. CASE SendPacket \/ PacketSent \/ FeedBuffer \/ Handshake \/ HandleReply
  BY <1>2 DEF SendPacket, PacketSent, FeedBuffer, Handshake, HandleReply, Effect
<1>3. CASE SendFails \/ ReadError \/ BeginIteration \/ Deliver
  BY <1>3 DEF SendFails, ReadError, ReadFails, BeginIteration, Deliver, Effect
<1>4. CASE Environment
  BY <1>1, <1>4 DEF Environment, ServerHandles, ServerChatters, Effect
<1>5. CASE UNCHANGED vars
  BY <1>5 DEF vars, Effect
<1>. QED
  BY <1>2, <1>3, <1>4, <1>5 DEF Next, SamplerThread

\* What a receive returns with its bytes.
LEMMA ReceiveTime ==
  ASSUME WireTypes, InboxTimes, last_rx_packet_timestamp <= now, inbox # <<>>
  PROVE  /\ ReceiveTimestamp \in Times /\ ReceiveTimestamp <= now
         /\ last_rx_packet_timestamp <= ReceiveTimestamp
         /\ \A i \in DOMAIN inbox : inbox[i].at <= ReceiveTimestamp
<1>1. Len(inbox) \in DOMAIN inbox /\ \A i \in DOMAIN inbox : i <= Len(inbox)
  BY DEF WireTypes
<1>2. \A i \in DOMAIN inbox : inbox[i].at <= now /\ inbox[i].at <= inbox[Len(inbox)].at
  BY <1>1 DEF InboxTimes
<1>3. ReceiveTimestamp \in Times
  BY StampTypes
<1>4. inbox[Len(inbox)].at = NoTime \/ last_rx_packet_timestamp <= inbox[Len(inbox)].at
  BY <1>1 DEF InboxTimes
<1>5. \/ ReceiveTimestamp = now
      \/ /\ ReceiveTimestamp = inbox[Len(inbox)].at
         /\ inbox[Len(inbox)].at # NoTime
  BY DEF ReceiveTimestamp
<1>6. now <= now
  BY TimesAreNumbers DEF WireTypes
<1>. QED
  BY <1>1, <1>2, <1>3, <1>4, <1>5, <1>6

\* Time does not go back.
LEMMA Forward ==
  ASSUME WireTypes, InboxTimes, last_rx_packet_timestamp <= now, Effect
  PROVE  /\ now <= now'
         /\ last_rx_packet_timestamp <= last_rx_packet_timestamp'
         /\ last_rx_packet_timestamp' <= now'
         /\ last_rx_packet_timestamp # NoTime => last_rx_packet_timestamp' # NoTime
<1>1. now \in Int /\ last_rx_packet_timestamp \in Int /\ last_rx_packet_timestamp >= NoTime
      /\ NoTime \in Int
  BY TimesAreNumbers DEF WireTypes
<1>2. CASE feed_buffer_from_stream
  <2>1. /\ ReceiveTimestamp \in Int /\ ReceiveTimestamp <= now
        /\ last_rx_packet_timestamp <= ReceiveTimestamp
    BY <1>2, ReceiveTime, TimesAreNumbers DEF feed_buffer_from_stream, receive
  <2>2. last_rx_packet_timestamp' \in {ReceiveTimestamp, last_rx_packet_timestamp}
        /\ now' = now
    BY <1>2 DEF feed_buffer_from_stream, RxTimestamp, receive
  <2>. QED
    BY <1>1, <2>1, <2>2
<1>3. CASE sendmsg /\ UNCHANGED remote
  BY <1>1, <1>3 DEF sendmsg, remote
<1>4. CASE get_tx_timestamp /\ UNCHANGED remote
  BY <1>1, <1>4 DEF get_tx_timestamp, remote
<1>5. CASE TakeResponse \/ UNCHANGED <<stream, remote>>
  BY <1>1, <1>5 DEF TakeResponse, stream, remote
<1>6. CASE (Tick \/ Acknowledge) /\ UNCHANGED remote
  BY <1>1, <1>6 DEF Tick, Acknowledge, remote
<1>7. CASE \E bytes \in Seq(WireBytes) : Arrive(bytes) /\ UNCHANGED remote
  BY <1>1, <1>7 DEF Arrive, remote
<1>. QED
  BY <1>2, <1>3, <1>4, <1>5, <1>6, <1>7 DEF Effect

LEMMA InboxStep ==
  ASSUME WireTypes, InboxTimes, last_rx_packet_timestamp <= now, Effect
  PROVE  InboxTimes'
<1>1. \A i \in DOMAIN inbox : inbox[i].at \in Int
  <2>1. \A i \in DOMAIN inbox : inbox[i] \in Received
    BY DEF WireTypes
  <2>. QED
    BY <2>1, WireFields, TimesAreNumbers
<1>2. now \in Int
  BY TimesAreNumbers DEF WireTypes
<1>3. CASE feed_buffer_from_stream
  <2>1. inbox' = <<>>
    BY <1>3 DEF feed_buffer_from_stream, receive
  <2>2. DOMAIN inbox' = {}
    BY <2>1
  <2>. QED
    BY <2>2 DEF InboxTimes
<1>4. CASE Tick /\ UNCHANGED remote
  BY <1>1, <1>2, <1>4 DEF InboxTimes, Tick, remote
<1>5. CASE \/ sendmsg /\ UNCHANGED remote
           \/ (get_tx_timestamp \/ Acknowledge) /\ UNCHANGED remote
           \/ TakeResponse
           \/ UNCHANGED <<stream, remote>>
  BY <1>5 DEF InboxTimes, sendmsg, get_tx_timestamp, Acknowledge, TakeResponse, stream,
              remote
<1>6. CASE \E bytes \in Seq(WireBytes) : Arrive(bytes) /\ UNCHANGED remote
  <2>1. PICK bytes \in Seq(WireBytes) : Arrive(bytes) /\ UNCHANGED remote
    BY <1>6
  <2>. DEFINE r == [i \in DOMAIN bytes |-> [byte |-> bytes[i], at |-> now]]
  <2>2. r \in Seq(Received) /\ \A i \in 1 .. Len(r) : r[i].at = now
    BY Arrived DEF WireTypes
  <2>3. inbox' = inbox \o r /\ now' = now
        /\ last_rx_packet_timestamp' = last_rx_packet_timestamp
    BY <2>1 DEF Arrive, remote
  <2>. HIDE DEF r
  <2>4. inbox \in Seq(Received) /\ Len(inbox) \in Nat /\ Len(r) \in Nat
    BY <2>2 DEF WireTypes
  <2>5. /\ DOMAIN inbox' = 1 .. Len(inbox) + Len(r)
        /\ \A i \in 1 .. Len(inbox) + Len(r) :
             inbox'[i] = IF i <= Len(inbox) THEN inbox[i] ELSE r[i - Len(inbox)]
    <3>1. /\ inbox \o r \in Seq(Received) /\ Len(inbox \o r) = Len(inbox) + Len(r)
          /\ \A i \in 1 .. Len(inbox) + Len(r) :
               (inbox \o r)[i] = IF i <= Len(inbox) THEN inbox[i] ELSE r[i - Len(inbox)]
      BY <2>2, <2>4, ConcatProperties
    <3>2. DOMAIN (inbox \o r) = 1 .. Len(inbox) + Len(r)
      BY <3>1
    <3>. QED
      BY <2>3, <3>1, <3>2
  <2>6. ASSUME NEW i \in DOMAIN inbox'
        PROVE  \/ i <= Len(inbox) /\ i \in DOMAIN inbox /\ inbox'[i].at = inbox[i].at
               \/ i > Len(inbox) /\ inbox'[i].at = now
    <3>1. i \in 1 .. Len(inbox) + Len(r)
      BY <2>5
    <3>2. CASE i <= Len(inbox)
      BY <2>4, <2>5, <3>1, <3>2
    <3>3. CASE i > Len(inbox)
      <4>1. i - Len(inbox) \in 1 .. Len(r) /\ ~(i <= Len(inbox))
        BY <2>4, <3>1, <3>3
      <4>2. inbox'[i] = r[i - Len(inbox)]
        BY <2>5, <3>1, <4>1
      <4>. QED
        BY <2>2, <3>3, <4>1, <4>2
    <3>. QED
      BY <2>4, <3>1, <3>2, <3>3
  <2>7. \A i \in DOMAIN inbox' : inbox'[i].at <= now'
    BY <1>2, <2>3, <2>6 DEF InboxTimes
  <2>8. \A i \in DOMAIN inbox' : \/ inbox'[i].at = NoTime
                                 \/ last_rx_packet_timestamp' <= inbox'[i].at
    BY <2>3, <2>6 DEF InboxTimes
  <2>9. ASSUME NEW i \in DOMAIN inbox', NEW j \in DOMAIN inbox', i <= j
        PROVE  inbox'[i].at <= inbox'[j].at
    <3>1. i \in Int /\ j \in Int
      BY <2>5
    <3>2. CASE j <= Len(inbox)
      <4>1. i <= Len(inbox) /\ ~(i > Len(inbox)) /\ ~(j > Len(inbox))
        BY <2>4, <2>9, <3>1, <3>2
      <4>2. i \in DOMAIN inbox /\ j \in DOMAIN inbox
            /\ inbox'[i].at = inbox[i].at /\ inbox'[j].at = inbox[j].at
        BY <2>6, <4>1
      <4>. QED
        BY <2>9, <4>2 DEF InboxTimes
    <3>3. CASE j > Len(inbox)
      <4>1. inbox'[j].at = now
        BY <2>4, <2>6, <3>1, <3>3
      <4>. QED
        BY <2>3, <2>7, <4>1
    <3>. QED
      BY <2>4, <3>1, <3>2, <3>3
  <2>. QED
    BY <2>7, <2>8, <2>9 DEF InboxTimes
<1>. QED
  BY <1>3, <1>4, <1>5, <1>6 DEF Effect

LEMMA BufferStep ==
  ASSUME WireTypes, InboxTimes, BufferTimes, last_rx_packet_timestamp <= now, Effect
  PROVE  BufferTimes'
<1>1. CASE feed_buffer_from_stream
  <2>1. inbox # <<>> /\ data_buffer' = data_buffer \o inbox
        /\ last_rx_packet_timestamp' = RxTimestamp(inbox, ReceiveTimestamp)
    BY <1>1 DEF feed_buffer_from_stream, receive
  <2>2. /\ ReceiveTimestamp \in Times
        /\ last_rx_packet_timestamp <= ReceiveTimestamp
        /\ \A i \in DOMAIN inbox : inbox[i].at <= ReceiveTimestamp
    BY <2>1, ReceiveTime
  <2>3. /\ Len(data_buffer) \in Nat /\ Len(inbox) \in Nat
        /\ DOMAIN data_buffer = 1 .. Len(data_buffer) /\ DOMAIN inbox = 1 .. Len(inbox)
    BY DEF WireTypes
  <2>4. /\ DOMAIN data_buffer' = 1 .. Len(data_buffer) + Len(inbox)
        /\ \A i \in 1 .. Len(data_buffer) + Len(inbox) :
             data_buffer'[i] = IF i <= Len(data_buffer) THEN data_buffer[i]
                               ELSE inbox[i - Len(data_buffer)]
    <3>. DEFINE d == data_buffer \o inbox
    <3>1. /\ d \in Seq(Received) /\ Len(d) = Len(data_buffer) + Len(inbox)
          /\ \A i \in 1 .. Len(data_buffer) + Len(inbox) :
               d[i] = IF i <= Len(data_buffer) THEN data_buffer[i]
                      ELSE inbox[i - Len(data_buffer)]
      BY ConcatProperties DEF WireTypes
    <3>2. DOMAIN d = 1 .. Len(data_buffer) + Len(inbox)
      BY <3>1
    <3>. QED
      BY <2>1, <3>1, <3>2
  <2>5. ASSUME NEW i \in DOMAIN data_buffer', Starts(data_buffer'[i].byte)
        PROVE  /\ last_rx_packet_timestamp' # NoTime
               /\ data_buffer'[i].at <= last_rx_packet_timestamp'
    <3>1. i \in 1 .. Len(data_buffer) + Len(inbox)
      BY <2>4
    <3>2. CASE i <= Len(data_buffer)
      <4>1. i \in DOMAIN data_buffer /\ data_buffer'[i] = data_buffer[i]
        BY <2>3, <2>4, <3>1, <3>2
      <4>2. /\ last_rx_packet_timestamp # NoTime
            /\ data_buffer[i].at <= last_rx_packet_timestamp
        BY <2>5, <4>1 DEF BufferTimes
      <4>3. last_rx_packet_timestamp' \in {ReceiveTimestamp, last_rx_packet_timestamp}
        BY <2>1 DEF RxTimestamp
      <4>4. data_buffer[i].at \in Int /\ last_rx_packet_timestamp \in Int
            /\ ReceiveTimestamp \in Int /\ ReceiveTimestamp # NoTime
        <5>1. data_buffer[i] \in Received
          BY <4>1 DEF WireTypes
        <5>2. data_buffer[i].at \in Times \cup {NoTime}
          BY <5>1, WireFields
        <5>3. last_rx_packet_timestamp \in Times \cup {NoTime}
          BY DEF WireTypes
        <5>4. ReceiveTimestamp \in Times
          BY <2>2
        <5>5. data_buffer[i].at \in Int
          BY <5>2, TimesAreNumbers
        <5>6. last_rx_packet_timestamp \in Int
          BY <5>3, TimesAreNumbers
        <5>7. ReceiveTimestamp \in Int /\ ReceiveTimestamp # NoTime
          BY <5>4, TimesAreNumbers
        <5>. QED
          BY <5>5, <5>6, <5>7
      <4>. QED
        BY <2>2, <4>1, <4>2, <4>3, <4>4
    <3>3. CASE i > Len(data_buffer)
      <4>1. i - Len(data_buffer) \in DOMAIN inbox /\ ~(i <= Len(data_buffer))
        BY <2>3, <3>1, <3>3
      <4>2. data_buffer'[i] = inbox[i - Len(data_buffer)]
        BY <2>4, <3>1, <4>1
      <4>3. StartsResponse(inbox)
        BY <2>5, <4>1, <4>2 DEF StartsResponse, Starts
      <4>4. last_rx_packet_timestamp' = ReceiveTimestamp
        BY <2>1, <4>3 DEF RxTimestamp
      <4>. QED
        BY <2>2, <4>1, <4>2, <4>4, TimesAreNumbers
    <3>. QED
      BY <2>3, <3>1, <3>2, <3>3
  <2>. QED
    BY <2>5 DEF BufferTimes
<1>2. CASE TakeResponse
  <2>1. PICK n \in {1, 2} : /\ n <= Len(data_buffer)
                            /\ data_buffer' = SubSeq(data_buffer, n + 1, Len(data_buffer))
    BY <1>2 DEF TakeResponse, ResponseInFront, AckInFront, PacketInFront, WireTypes
  <2>2. n \in 0 .. Len(data_buffer)
    BY <2>1 DEF WireTypes
  <2>3. /\ data_buffer' \in Seq(Received) /\ Len(data_buffer') = Len(data_buffer) - n
        /\ \A i \in 1 .. Len(data_buffer) - n : data_buffer'[i] = data_buffer[i + n]
    BY <2>1, <2>2, Rest DEF WireTypes
  <2>4. \A i \in DOMAIN data_buffer' :
          i + n \in DOMAIN data_buffer /\ data_buffer'[i] = data_buffer[i + n]
    BY <2>2, <2>3 DEF WireTypes
  <2>5. last_rx_packet_timestamp' = last_rx_packet_timestamp
    BY <1>2 DEF TakeResponse
  <2>. QED
    BY <2>4, <2>5 DEF BufferTimes
<1>3. CASE UNCHANGED remote
  BY <1>3 DEF BufferTimes, remote
<1>. QED
  BY <1>1, <1>2, <1>3 DEF Effect

\* The times on the error queue.
Above(x) == \A i \in DOMAIN errqueue : x <= errqueue[i]

Queue ==
  /\ \A i \in DOMAIN errqueue : errqueue[i] <= now
  /\ \A i, j \in DOMAIN errqueue : i <= j => errqueue[i] <= errqueue[j]

LEMMA QueueOfSendTimes == SendTimes <=> Queue /\ Above(requested_at)
  BY DEF SendTimes, Queue, Above

LEMMA QueueStep ==
  ASSUME WireTypes, Queue, Effect
  PROVE  Queue' /\ \A x \in Int : x <= now /\ Above(x) => Above(x)'
<1>1. now \in Int /\ Len(errqueue) \in Nat /\ DOMAIN errqueue = 1 .. Len(errqueue)
      /\ \A i \in DOMAIN errqueue : errqueue[i] \in Int
  <2>1. \A i \in DOMAIN errqueue : errqueue[i] \in Times
    BY DEF WireTypes
  <2>2. \A i \in DOMAIN errqueue : errqueue[i] \in Int
    BY <2>1, TimesAreNumbers
  <2>3. now \in Int /\ Len(errqueue) \in Nat /\ DOMAIN errqueue = 1 .. Len(errqueue)
    BY TimesAreNumbers DEF WireTypes
  <2>. QED
    BY <2>2, <2>3
<1>2. CASE \/ sendmsg \/ feed_buffer_from_stream \/ TakeResponse
           \/ UNCHANGED <<stream, remote>>
           \/ \E bytes \in Seq(WireBytes) : Arrive(bytes) /\ UNCHANGED remote
  <2>1. errqueue' = errqueue /\ now' = now
    BY <1>2 DEF sendmsg, feed_buffer_from_stream, receive, TakeResponse, stream, Arrive
  <2>. QED
    BY <2>1 DEF Queue, Above
<1>3. CASE Tick
  <2>1. errqueue' = errqueue /\ now' = now + 1
    BY <1>3 DEF Tick
  <2>. QED
    BY <1>1, <2>1 DEF Queue, Above
<1>4. CASE get_tx_timestamp
  <2>1. CASE errqueue = <<>>
    <3>1. DOMAIN errqueue' = {}
      BY <1>4, <2>1 DEF get_tx_timestamp
    <3>. QED
      BY <3>1 DEF Queue, Above
  <2>2. CASE errqueue # <<>>
    <3>1. /\ DOMAIN errqueue' = 1 .. Len(errqueue) - 1
          /\ \A i \in 1 .. Len(errqueue) - 1 :
               errqueue'[i] = errqueue[i + 1] /\ i + 1 \in DOMAIN errqueue
      BY <1>4, <2>2 DEF get_tx_timestamp, WireTypes
    <3>2. now' = now
      BY <1>4 DEF get_tx_timestamp
    <3>3. \A i, j \in DOMAIN errqueue' : i <= j => i + 1 <= j + 1
      BY <1>1, <3>1
    <3>. QED
      BY <3>1, <3>2, <3>3 DEF Queue, Above
  <2>. QED
    BY <2>1, <2>2
<1>5. CASE Acknowledge
  <2>1. PICK k \in 1 .. unacked : errqueue' = errqueue \o [i \in 1 .. k |-> now]
    BY <1>5 DEF Acknowledge
  <2>. DEFINE r == [i \in 1 .. k |-> now]
  <2>2. /\ r \in Seq(Times) /\ Len(r) = k /\ k \in Nat /\ now' = now
        /\ \A i \in 1 .. k : r[i] = now
    BY <1>5, <2>1 DEF WireTypes, Acknowledge
  <2>3. errqueue' = errqueue \o r
    BY <2>1
  <2>. HIDE DEF r
  <2>4. /\ errqueue \o r \in Seq(Times) /\ Len(errqueue \o r) = Len(errqueue) + k
        /\ \A i \in 1 .. Len(errqueue) + k :
             (errqueue \o r)[i] = IF i <= Len(errqueue) THEN errqueue[i]
                                  ELSE r[i - Len(errqueue)]
    BY <2>2, ConcatProperties DEF WireTypes
  <2>5. DOMAIN errqueue' = 1 .. Len(errqueue) + k
    BY <2>3, <2>4
  <2>6. ASSUME NEW i \in DOMAIN errqueue'
        PROVE  \/ i <= Len(errqueue) /\ i \in DOMAIN errqueue /\ errqueue'[i] = errqueue[i]
               \/ i > Len(errqueue) /\ errqueue'[i] = now
    <3>1. i \in 1 .. Len(errqueue) + k
      BY <2>5
    <3>2. CASE i <= Len(errqueue)
      BY <1>1, <2>3, <2>4, <3>1, <3>2
    <3>3. CASE i > Len(errqueue)
      <4>1. i - Len(errqueue) \in 1 .. k /\ ~(i <= Len(errqueue))
        BY <1>1, <2>2, <3>1, <3>3
      <4>. QED
        BY <2>2, <2>3, <2>4, <3>1, <3>3, <4>1
    <3>. QED
      BY <1>1, <3>1, <3>2, <3>3
  <2>7. \A i \in DOMAIN errqueue' : errqueue'[i] <= now'
    BY <1>1, <2>2, <2>6 DEF Queue
  <2>8. \A x \in Int : x <= now /\ Above(x) => Above(x)'
    BY <1>1, <2>6 DEF Above
  <2>9. ASSUME NEW i \in DOMAIN errqueue', NEW j \in DOMAIN errqueue', i <= j
        PROVE  errqueue'[i] <= errqueue'[j]
    <3>1. i \in Int /\ j \in Int
      BY <2>5
    <3>2. CASE j <= Len(errqueue)
      <4>1. ~(i > Len(errqueue)) /\ ~(j > Len(errqueue))
        BY <1>1, <2>9, <3>1, <3>2
      <4>2. /\ i \in DOMAIN errqueue /\ j \in DOMAIN errqueue
            /\ errqueue'[i] = errqueue[i] /\ errqueue'[j] = errqueue[j]
        BY <2>6, <4>1
      <4>. QED
        BY <2>9, <4>2 DEF Queue
    <3>3. CASE j > Len(errqueue)
      <4>1. errqueue'[j] = now
        BY <1>1, <2>6, <3>1, <3>3
      <4>. QED
        BY <2>2, <2>7, <4>1
    <3>. QED
      BY <1>1, <3>1, <3>2, <3>3
  <2>. QED
    BY <2>7, <2>8, <2>9 DEF Queue
<1>. QED
  BY <1>2, <1>3, <1>4, <1>5 DEF Effect

\* The time that a send returns, and what it leaves on the queue.
LEMMA TxTime ==
  ASSUME WireTypes, Queue, sent_at <= now, get_tx_timestamp
  PROVE  /\ TxTimestamp \in Times /\ TxTimestamp <= now
         /\ \A i \in DOMAIN errqueue' : TxTimestamp <= errqueue'[i]
         /\ \A x \in Int : Above(x) /\ x <= sent_at => x <= TxTimestamp
         /\ now' = now /\ sent_at' = NoTime
<1>1. TxTimestamp \in Times /\ now' = now /\ sent_at' = NoTime /\ sent_at \in Times
  BY StampTypes DEF get_tx_timestamp, WireTypes
<1>2. CASE errqueue = <<>>
  <2>1. errqueue' = <<>> /\ TxTimestamp = sent_at
    BY <1>2 DEF get_tx_timestamp, TxTimestamp
  <2>2. DOMAIN errqueue' = {}
    BY <2>1
  <2>. QED
    BY <1>1, <2>1, <2>2
<1>3. CASE errqueue # <<>>
  <2>1. errqueue' = Tail(errqueue) /\ TxTimestamp = Head(errqueue)
    BY <1>3 DEF get_tx_timestamp, TxTimestamp
  <2>2. errqueue \in Seq(Times) /\ Len(errqueue) \in Nat /\ 1 \in DOMAIN errqueue
        /\ Head(errqueue) = errqueue[1]
    BY <1>3 DEF WireTypes
  <2>3. /\ DOMAIN errqueue' = 1 .. Len(errqueue) - 1
        /\ \A i \in 1 .. Len(errqueue) - 1 :
             errqueue'[i] = errqueue[i + 1] /\ i + 1 \in DOMAIN errqueue
    BY <1>3, <2>1, <2>2
  <2>4. ASSUME NEW i \in DOMAIN errqueue' PROVE TxTimestamp <= errqueue'[i]
    <3>1. errqueue'[i] = errqueue[i + 1] /\ i + 1 \in DOMAIN errqueue /\ 1 <= i + 1
      BY <2>3
    <3>. QED
      BY <2>1, <2>2, <3>1 DEF Queue
  <2>. QED
    BY <1>1, <2>1, <2>2, <2>4 DEF Queue, Above
<1>. QED
  BY <1>2, <1>3

\* A step that is not about the times of a sample.
Untimed ==
  /\ UNCHANGED <<requested_at, received_at, start, delivered>>
  /\ \/ pc' = pc
     \/ pc' = "failed"
     \/ pc = "idle" /\ pc' = "request"
  /\ \/ sent_at' = sent_at
     \/ sent_at' = now

LEMMA StepKinds ==
  ASSUME [Next]_vars
  PROVE  PacketSent \/ Handshake \/ HandleReply \/ Deliver \/ Untimed
<1>1. CASE SendPacket \/ SendFails
  BY <1>1 DEF SendPacket, SendFails, sendmsg, iteration, stream, Untimed
<1>2. CASE FeedBuffer \/ ReadError
  BY <1>2 DEF FeedBuffer, ReadError, feed_buffer_from_stream, receive, ReadFails, iteration,
              sampler, stream, Untimed
<1>3. CASE BeginIteration
  BY <1>3 DEF BeginIteration, stream, Untimed
<1>4. CASE Environment
  BY <1>4 DEF Environment, ServerHandles, ServerChatters, Delivery, Arrive, Tick, Acknowledge,
              stream, sampler, Untimed
<1>5. CASE UNCHANGED vars
  BY <1>5 DEF vars, stream, sampler, Untimed
<1>. QED
  BY <1>1, <1>2, <1>3, <1>4, <1>5 DEF Next, SamplerThread

\* What is known of times in a state, as numbers.
LEMMA Numbers ==
  ASSUME MemTypes
  PROVE  /\ now \in Nat /\ start \in Nat
         /\ sent_at \in Int /\ (sent_at # NoTime => sent_at \in Nat)
         /\ requested_at \in Int /\ (requested_at # NoTime => requested_at \in Nat)
         /\ received_at \in Int /\ (received_at # NoTime => received_at \in Nat)
         /\ last_rx_packet_timestamp \in Int /\ last_rx_packet_timestamp >= NoTime
         /\ (last_rx_packet_timestamp # NoTime => last_rx_packet_timestamp \in Nat)
         /\ NoTime = -1
         /\ \A i \in DOMAIN errqueue : errqueue[i] \in Nat
<1>1. WireTypes
  BY Wire DEF MemTypes, TypeOK
<1>2. \A t \in Times \cup {NoTime} : t \in Int /\ t >= NoTime /\ (t # NoTime => t \in Nat)
  BY TimesAreNumbers
<1>3. now \in Nat /\ start \in Nat
  BY <1>1, TimesAreNumbers DEF WireTypes, MemTypes, TypeOK
<1>4. /\ sent_at \in Times \cup {NoTime} /\ last_rx_packet_timestamp \in Times \cup {NoTime}
      /\ requested_at \in Times \cup {NoTime} /\ received_at \in Times \cup {NoTime}
  BY <1>1 DEF WireTypes, MemTypes, TypeOK
<1>5. \A i \in DOMAIN errqueue : errqueue[i] \in Times
  BY <1>1 DEF WireTypes
<1>. QED
  BY <1>2, <1>3, <1>4, <1>5, TimesAreNumbers

LEMMA ResponseHasTime ==
  ASSUME WireTypes, BufferTimes, ResponseInFront
  PROVE  /\ last_rx_packet_timestamp # NoTime
         /\ data_buffer[1].at <= last_rx_packet_timestamp
  BY DEF WireTypes, BufferTimes, ResponseInFront, AckInFront, PacketInFront, Starts

LEMMA SendTimesStep ==
  ASSUME MemTypes, TimesInv, MemTypes', [Next]_vars
  PROVE  SendTimes'
<1>1. WireTypes /\ Effect /\ Queue /\ Above(requested_at)
  BY Wire, Effects, QueueOfSendTimes DEF MemTypes, TypeOK, TimesInv
<1>2. Queue' /\ \A x \in Int : x <= now /\ Above(x) => Above(x)'
  BY <1>1, QueueStep
<1>3. requested_at \in Int /\ requested_at <= now
  BY Numbers DEF TimesInv, ClockTimes
<1>4. \A i \in DOMAIN errqueue' : requested_at <= errqueue'[i]
  BY <1>1, <1>2, <1>3 DEF Above
<1>5. CASE UNCHANGED requested_at
  BY <1>2, <1>4, <1>5 DEF Queue, SendTimes
<1>6. CASE PacketSent
  <2>1. \A i \in DOMAIN errqueue' : TxTimestamp <= errqueue'[i]
    BY <1>1, <1>6, TxTime DEF PacketSent, TimesInv, ClockTimes
  <2>2. requested_at' \in {requested_at, TxTimestamp}
    BY <1>6 DEF PacketSent, FirstOf
  <2>. QED
    BY <1>2, <1>4, <2>1, <2>2 DEF Queue, SendTimes
<1>7. CASE Deliver
  <2>1. requested_at' = NoTime /\ errqueue' = errqueue
    BY <1>7 DEF Deliver, stream
  <2>2. \A i \in DOMAIN errqueue : NoTime <= errqueue[i]
    BY Numbers
  <2>. QED
    BY <1>2, <2>1, <2>2 DEF Queue, SendTimes
<1>. QED
  BY <1>5, <1>6, <1>7, StepKinds DEF Handshake, HandleReply, iteration, Untimed

LEMMA ClockTimesStep ==
  ASSUME MemTypes, TimesInv, MemTypes', [Next]_vars
  PROVE  ClockTimes'
<1>1. WireTypes /\ Effect /\ Queue /\ InboxTimes /\ BufferTimes /\ ClockTimes
  BY Wire, Effects, QueueOfSendTimes DEF MemTypes, TypeOK, TimesInv
<1>2. /\ now <= now' /\ last_rx_packet_timestamp <= last_rx_packet_timestamp'
      /\ last_rx_packet_timestamp' <= now'
      /\ last_rx_packet_timestamp' \in Int /\ last_rx_packet_timestamp' >= NoTime
      /\ now' \in Nat
  <2>1. last_rx_packet_timestamp' \in Int /\ last_rx_packet_timestamp' >= NoTime /\ now' \in Nat
    <3>1. WireTypes'
      BY WirePrimed DEF MemTypes, TypeOK
    <3>. QED
      BY <3>1, TimesAreNumbers DEF WireTypes
  <2>. QED
    BY <1>1, <2>1, Forward DEF ClockTimes
<1>3. /\ sent_at <= now /\ requested_at <= now /\ received_at <= last_rx_packet_timestamp
      /\ last_rx_packet_timestamp <= now
      /\ pc \in {"reply", "deliver"} => requested_at # NoTime
      /\ pc = "deliver" => received_at # NoTime
  BY <1>1 DEF ClockTimes
<1>4. CASE Untimed
  BY <1>2, <1>3, <1>4, Numbers DEF Untimed, ClockTimes
<1>5. CASE PacketSent
  <2>1. /\ TxTimestamp \in Times /\ TxTimestamp <= now /\ now' = now /\ sent_at' = NoTime
    BY <1>1, <1>5, TxTime DEF PacketSent, ClockTimes
  <2>2. /\ TxTimestamp \in Nat /\ TxTimestamp # NoTime
    BY <2>1, TimesAreNumbers
  <2>3. /\ requested_at' = IF pc = "request"
                           THEN IF requested_at = NoTime THEN TxTimestamp ELSE requested_at
                           ELSE requested_at
        /\ received_at' = received_at
        /\ pc' \in {"QAck", "idle", "reply"} /\ (pc' = "reply" => pc = "request")
    BY <1>5 DEF PacketSent, FirstOf, Packets
  <2>. QED
    BY <1>2, <1>3, <2>1, <2>2, <2>3, Numbers DEF ClockTimes
<1>6. CASE Handshake
  <2>1. /\ now' = now /\ sent_at' = sent_at /\ requested_at' = requested_at
        /\ received_at' = received_at /\ pc' \in {"failed", "QStart", "QOk", "continue"}
    BY <1>6 DEF Handshake, TakeResponse, stream, iteration
  <2>. QED
    BY <1>2, <1>3, <2>1, Numbers DEF ClockTimes
<1>7. CASE HandleReply
  <2>1. /\ now' = now /\ sent_at' = sent_at /\ requested_at' = requested_at
        /\ last_rx_packet_timestamp' = last_rx_packet_timestamp
        /\ received_at' = IF received_at = NoTime THEN last_rx_packet_timestamp
                          ELSE received_at
        /\ pc = "reply"
    BY <1>7 DEF HandleReply, TakeResponse, stream, FirstOf
  <2>2. last_rx_packet_timestamp # NoTime
    BY <1>1, <1>7, ResponseHasTime DEF HandleReply, TakeResponse
  <2>. QED
    BY <1>2, <1>3, <2>1, <2>2, Numbers DEF ClockTimes
<1>8. CASE Deliver
  <2>1. /\ now' = now /\ sent_at' = sent_at /\ requested_at' = NoTime
        /\ received_at' = NoTime /\ pc' = "idle"
    BY <1>8 DEF Deliver, stream
  <2>. QED
    BY <1>2, <1>3, <2>1, Numbers DEF ClockTimes
<1>. QED
  BY <1>4, <1>5, <1>6, <1>7, <1>8, StepKinds

LEMMA Mean ==
  ASSUME NEW a \in Int, NEW b \in Int, NEW c \in Int, NEW d \in Int, a <= c, b <= d,
         start \in Int
  PROVE  (SinceStart(a) + SinceStart(b)) \div 2 <= (SinceStart(c) + SinceStart(d)) \div 2
<1>1. /\ SinceStart(a) \in Int /\ SinceStart(b) \in Int
      /\ SinceStart(c) \in Int /\ SinceStart(d) \in Int
      /\ SinceStart(a) <= SinceStart(c) /\ SinceStart(b) <= SinceStart(d)
  BY DEF SinceStart
<1>2. \A m, n \in Int : m <= n => m \div 2 <= n \div 2
  OBVIOUS
<1>. QED
  BY <1>1, <1>2

LEMMA SampleTimesStep ==
  ASSUME MemTypes, TimesInv, MemTypes', [Next]_vars
  PROVE  SampleTimes'
<1>1. /\ WireTypes /\ Effect /\ Queue /\ InboxTimes /\ BufferTimes /\ ClockTimes /\ SampleTimes
  BY Wire, Effects, QueueOfSendTimes DEF MemTypes, TypeOK, TimesInv
<1>2. /\ last_rx_packet_timestamp <= last_rx_packet_timestamp' /\ now <= now'
      /\ last_rx_packet_timestamp' \in Int /\ now' \in Nat
  <2>1. WireTypes'
    BY WirePrimed DEF MemTypes, TypeOK
  <2>. QED
    BY <1>1, <2>1, Forward, TimesAreNumbers DEF ClockTimes, WireTypes
<1>3. PICK a \in Times, b \in Times :
        /\ delivered.t <= (SinceStart(a) + SinceStart(b)) \div 2
        /\ a <= now /\ \A i \in DOMAIN errqueue : a <= errqueue[i]
        /\ sent_at # NoTime => a <= sent_at
        /\ requested_at # NoTime => a <= requested_at
        /\ b = 0 \/ b <= last_rx_packet_timestamp
        /\ received_at # NoTime => b <= received_at
  BY <1>1 DEF SampleTimes
<1>4. a \in Nat /\ b \in Nat
  BY TimesAreNumbers
<1>5. \A i \in DOMAIN errqueue' : a <= errqueue'[i]
  BY <1>1, <1>3, <1>4, QueueStep DEF Above
<1>6. a <= now' /\ (b = 0 \/ b <= last_rx_packet_timestamp')
  BY <1>2, <1>3, <1>4, Numbers
<1>7. CASE Untimed
  <2>1. Phase' = "setup" => Phase = "setup"
    BY <1>7 DEF Untimed, Phase
  <2>2. /\ delivered' = delivered /\ start' = start /\ requested_at' = requested_at
        /\ received_at' = received_at /\ (sent_at' = sent_at \/ sent_at' = now)
    BY <1>7 DEF Untimed
  <2>3. delivered'.t <= (SinceStart(a)' + SinceStart(b)') \div 2
    BY <1>3, <2>2 DEF SinceStart
  <2>. QED
    BY <1>1, <1>3, <1>5, <1>6, <2>1, <2>2, <2>3 DEF SampleTimes
<1>8. CASE PacketSent
  <2>1. Phase' = "setup" => Phase = "setup"
    BY <1>8 DEF PacketSent, Phase, Packets
  <2>2. /\ delivered' = delivered /\ start' = start /\ received_at' = received_at
        /\ requested_at' \in {requested_at, TxTimestamp}
        /\ sent_at # NoTime
    BY <1>8 DEF PacketSent, FirstOf, get_tx_timestamp
  <2>3. a <= TxTimestamp /\ sent_at' = NoTime
    BY <1>1, <1>3, <1>4, <1>8, <2>2, TxTime DEF PacketSent, ClockTimes, Above
  <2>4. delivered'.t <= (SinceStart(a)' + SinceStart(b)') \div 2
    BY <1>3, <2>2 DEF SinceStart
  <2>. QED
    BY <1>1, <1>3, <1>5, <1>6, <2>1, <2>2, <2>3, <2>4 DEF SampleTimes
<1>9. CASE Handshake
  <2>1. /\ Phase = "setup" /\ delivered' = delivered
        /\ requested_at' = requested_at /\ received_at' = received_at
    BY <1>9 DEF Handshake, Phase, iteration
  <2>2. delivered'.t = 0
    BY <1>1, <2>1 DEF SampleTimes
  <2>3. /\ start' \in Nat /\ (sent_at' # NoTime => 0 <= sent_at')
        /\ (requested_at' # NoTime => 0 <= requested_at')
        /\ (received_at' # NoTime => 0 <= received_at')
        /\ \A i \in DOMAIN errqueue' : 0 <= errqueue'[i]
    <3>1. WireTypes' /\ start' \in Times
      BY WirePrimed DEF MemTypes, TypeOK
    <3>2. \A i \in DOMAIN errqueue' : errqueue'[i] \in Times
      BY <3>1 DEF WireTypes
    <3>3. sent_at' \in Times \cup {NoTime}
      BY <3>1 DEF WireTypes
    <3>4. requested_at' \in Times \cup {NoTime} /\ received_at' \in Times \cup {NoTime}
      BY DEF MemTypes, TypeOK
    <3>. QED
      BY <3>1, <3>2, <3>3, <3>4, TimesAreNumbers
  <2>4. PICK z \in Times : z = 0
    BY TimesAreNumbers
  <2>5. delivered'.t <= (SinceStart(z)' + SinceStart(z)') \div 2
    <3>1. \A n \in Nat : n = 0 \/ 0 < n
      OBVIOUS
    <3>2. (IF z < start' THEN 0 ELSE z - start') = 0
      <4>1. CASE start' = 0
        BY <2>4, <4>1
      <4>2. CASE 0 < start'
        BY <2>4, <4>2
      <4>. QED
        BY <2>3, <3>1, <4>1, <4>2
    <3>3. 0 <= (0 + 0) \div 2
      OBVIOUS
    <3>. QED
      BY <2>2, <3>2, <3>3 DEF SinceStart
  <2>. QED
    BY <1>2, <2>2, <2>3, <2>4, <2>5 DEF SampleTimes
<1>10. CASE HandleReply
  <2>1. Phase' = "ready" \/ Phase' = "failed"
    BY <1>10 DEF HandleReply, NextAfter, Phase
  <2>2. /\ delivered' = delivered /\ start' = start /\ requested_at' = requested_at
        /\ sent_at' = sent_at
        /\ received_at' \in {received_at, last_rx_packet_timestamp}
        /\ (received_at # NoTime => received_at' = received_at)
    BY <1>10 DEF HandleReply, FirstOf, TakeResponse, stream
  <2>3. last_rx_packet_timestamp \in Nat
    BY <1>1, <1>10, ResponseHasTime, Numbers DEF HandleReply, TakeResponse
  <2>4. delivered'.t <= (SinceStart(a)' + SinceStart(b)') \div 2
    BY <1>3, <2>2 DEF SinceStart
  <2>5. b <= last_rx_packet_timestamp
    BY <1>3, <2>3
  <2>. QED
    BY <1>1, <1>3, <1>5, <1>6, <2>1, <2>2, <2>4, <2>5 DEF SampleTimes
<1>11. CASE Deliver
  <2>1. /\ delivered'.t = (SinceStart(requested_at) + SinceStart(received_at)) \div 2
        /\ pc' = "idle" /\ pc = "deliver" /\ start' = start
        /\ requested_at' = NoTime /\ received_at' = NoTime
        /\ UNCHANGED stream /\ UNCHANGED last_rx_packet_timestamp
    BY <1>11 DEF Deliver, remote
  <2>2. /\ requested_at \in Times /\ received_at \in Times
        /\ requested_at <= now /\ received_at <= last_rx_packet_timestamp
        /\ \A i \in DOMAIN errqueue : requested_at <= errqueue[i]
    BY <1>1, <2>1 DEF ClockTimes, MemTypes, TypeOK, TimesInv, SendTimes
  <2>3. sent_at' = NoTime /\ now' = now /\ errqueue' = errqueue
    BY <2>1 DEF stream, MemTypes, Packets
  <2>4. delivered'.t <= (SinceStart(requested_at) + SinceStart(received_at)) \div 2
    <3>1. delivered'.t \in Nat
      BY TimesAreNumbers DEF MemTypes, TypeOK
    <3>. QED
      BY <2>1, <3>1
  <2>5. \E c, d \in Times : c = requested_at /\ d = received_at
    BY <2>2
  <2>6. PICK c \in Times, d \in Times : c = requested_at /\ d = received_at
    BY <2>5
  <2>7. delivered'.t <= (SinceStart(c)' + SinceStart(d)') \div 2
    BY <2>1, <2>4, <2>6 DEF SinceStart
  <2>8. Phase' # "setup"
    BY <2>1 DEF Phase
  <2>. QED
    BY <2>1, <2>2, <2>3, <2>6, <2>7, <2>8 DEF SampleTimes
<1>. QED
  BY <1>7, <1>8, <1>9, <1>10, <1>11, StepKinds

LEMMA TimesInit == Init => TimesInv
<1>. SUFFICES ASSUME Init PROVE TimesInv
  OBVIOUS
<1>1. MemTypes
  BY TypesInit
<1>2. /\ now = 0 /\ errqueue = <<>> /\ sent_at = NoTime /\ data_buffer = <<>>
      /\ last_rx_packet_timestamp = NoTime /\ requested_at = NoTime
      /\ received_at = NoTime /\ pc = "hello" /\ start = 0 /\ delivered.t = 0
  BY DEF Init, ConnectedWith
<1>3. NoTime <= NoTime /\ NoTime <= 0
  BY TimesAreNumbers
<1>4. DOMAIN errqueue = {} /\ DOMAIN data_buffer = {}
  BY <1>2
<1>5. \A i \in DOMAIN inbox : inbox[i].at = NoTime
  <2>1. PICK first \in {<<>>, Ack(Plain("hello"))} : ConnectedWith(first)
    BY DEF Init
  <2>. QED
    BY <2>1 DEF ConnectedWith
<1>6. InboxTimes /\ BufferTimes /\ SendTimes /\ ClockTimes
  BY <1>2, <1>3, <1>4, <1>5 DEF InboxTimes, BufferTimes, SendTimes, ClockTimes
<1>7. 0 <= (SinceStart(0) + SinceStart(0)) \div 2
  BY <1>2 DEF SinceStart
<1>8. SampleTimes
  BY <1>2, <1>4, <1>7, TimesAreNumbers DEF SampleTimes
<1>. QED
  BY <1>6, <1>8 DEF TimesInv

LEMMA TimesStep ==
  ASSUME MemTypes, TimesInv, MemTypes', [Next]_vars
  PROVE  TimesInv'
<1>1. WireTypes /\ Effect /\ InboxTimes /\ BufferTimes /\ last_rx_packet_timestamp <= now
  BY Wire, Effects DEF MemTypes, TypeOK, TimesInv, ClockTimes
<1>. QED
  BY <1>1, InboxStep, BufferStep, SendTimesStep, ClockTimesStep, SampleTimesStep DEF TimesInv

\* The two expect() of read_response never see None.
THEOREM ExpectCorrect == Spec => []ExpectNeverPanics
<1>1. MemTypes /\ TimesInv => ExpectNeverPanics
  BY Wire, ResponseHasTime DEF MemTypes, TypeOK, TimesInv, ExpectNeverPanics
<1>. QED
  BY <1>1, TypesInit, TypesStep, TimesInit, TimesStep, PTL DEF Spec

\* A response is not taken for older than its first byte, nor for later than now,
\* however bytes are split and joined on the way.
THEOREM ResponseTimeCorrect == Spec => []ResponseTimeIsPlausible
<1>1. MemTypes /\ TimesInv => ResponseTimeIsPlausible
  BY Wire, ResponseHasTime
     DEF MemTypes, TypeOK, TimesInv, ClockTimes, ResponseTimeIsPlausible
<1>. QED
  BY <1>1, TypesInit, TypesStep, TimesInit, TimesStep, PTL DEF Spec

-----------------------------------------------------------------------------
(* Requests and answers: the bytes on their way.                           *)

LEMMA Concat ==
  ASSUME NEW s \in Seq(WireBytes), NEW r \in Seq(WireBytes), NEW u \in Seq(WireBytes)
  PROVE  /\ s \o r \in Seq(WireBytes) /\ Len(s \o r) = Len(s) + Len(r)
         /\ \A i \in 1 .. Len(s) + Len(r) :
              (s \o r)[i] = IF i <= Len(s) THEN s[i] ELSE r[i - Len(s)]
         /\ (s \o r) \o u = s \o (r \o u)
         /\ <<>> \o s = s
<1>1. (s \o r) \o u = s \o (r \o u)
  BY ConcatAssociative
<1>2. /\ s \o r \in Seq(WireBytes) /\ Len(s \o r) = Len(s) + Len(r)
      /\ \A i \in 1 .. Len(s) + Len(r) :
           (s \o r)[i] = IF i <= Len(s) THEN s[i] ELSE r[i - Len(s)]
  BY ConcatProperties
<1>3. <<>> \o s = s
  BY ConcatEmptySeq
<1>. QED
  BY <1>1, <1>2, <1>3

\* Named, so that a proof can regroup without every way of doing so.
Associates(s, r, u) == (s \o r) \o u = s \o (r \o u)

LEMMA Regroup ==
  ASSUME NEW s \in Seq(WireBytes), NEW r \in Seq(WireBytes), NEW u \in Seq(WireBytes)
  PROVE  Associates(s, r, u)
  BY ConcatAssociative DEF Associates

LEMMA FlightType ==
  ASSUME MemTypes
  PROVE  /\ Flight \in Seq(WireBytes) /\ data_buffer \in Seq(Received)
         /\ BytesOf(data_buffer) \in Seq(WireBytes) /\ BytesOf(inbox) \in Seq(WireBytes)
         /\ Len(data_buffer) <= Len(Flight)
         /\ \A i \in 1 .. Len(data_buffer) : Flight[i] = data_buffer[i].byte
<1>. DEFINE b == BytesOf(data_buffer)
            c == BytesOf(inbox)
            f == c \o outgoing
<1>1. WireTypes
  BY Wire DEF MemTypes, TypeOK
<1>2. /\ b \in Seq(WireBytes) /\ Len(b) = Len(data_buffer)
      /\ \A i \in 1 .. Len(data_buffer) : b[i] = data_buffer[i].byte
      /\ c \in Seq(WireBytes) /\ outgoing \in Seq(WireBytes)
  BY <1>1, BytesOfType DEF WireTypes, MemTypes
<1>. HIDE DEF b, c
<1>3. f \in Seq(WireBytes)
  BY <1>2, Concat
<1>. HIDE DEF f
<1>4. /\ b \o f \in Seq(WireBytes) /\ Len(b \o f) = Len(b) + Len(f)
      /\ \A i \in 1 .. Len(b) + Len(f) :
           (b \o f)[i] = IF i <= Len(b) THEN b[i] ELSE f[i - Len(b)]
  BY <1>2, <1>3, Concat
<1>5. Len(f) \in Nat /\ Len(b) \in Nat
  BY <1>2, <1>3
<1>6. Len(b) <= Len(b \o f)
  BY <1>4, <1>5
<1>7. \A i \in 1 .. Len(data_buffer) : (b \o f)[i] = data_buffer[i].byte
  BY <1>2, <1>4, <1>5
<1>8. Flight = b \o f
  BY DEF Flight, b, c, f
<1>. QED
  BY <1>1, <1>2, <1>4, <1>6, <1>7, <1>8 DEF WireTypes, b, c

\* Bytes that are read or delivered stay in flight.
LEMMA FlightFeed ==
  ASSUME MemTypes, FeedBuffer
  PROVE  Flight' = Flight
<1>. DEFINE b == BytesOf(data_buffer)
            c == BytesOf(inbox)
<1>1. b \in Seq(WireBytes) /\ c \in Seq(WireBytes) /\ outgoing \in Seq(WireBytes)
  BY FlightType DEF MemTypes
<1>2. /\ data_buffer' = data_buffer \o inbox /\ inbox' = <<>> /\ outgoing' = outgoing
  BY DEF FeedBuffer, feed_buffer_from_stream, receive, openocd
<1>3. BytesOf(data_buffer)' = b \o c
  <2>1. data_buffer \in Seq(Received) /\ inbox \in Seq(Received)
    BY Wire DEF MemTypes, TypeOK, WireTypes
  <2>2. BytesOf(data_buffer \o inbox) = b \o c
    BY <2>1, BytesOfConcat
  <2>. QED
    BY <1>2, <2>2 DEF BytesOf
<1>4. BytesOf(inbox)' = <<>>
  BY <1>2 DEF BytesOf
<1>. HIDE DEF b, c
<1>5. (b \o c) \o (<<>> \o outgoing) = b \o (c \o outgoing)
  <2>1. <<>> \o outgoing = outgoing
    BY <1>1, Concat
  <2>2. (b \o c) \o outgoing = b \o (c \o outgoing)
    BY <1>1, Concat
  <2>. QED
    BY <2>1, <2>2
<1>6. Flight' = BytesOf(data_buffer)' \o (BytesOf(inbox)' \o outgoing')
  BY DEF Flight
<1>. QED
  BY <1>2, <1>3, <1>4, <1>5, <1>6 DEF Flight, b, c

LEMMA FlightDelivery ==
  ASSUME MemTypes, Delivery
  PROVE  Flight' = Flight
<1>1. PICK n \in 1 .. Len(outgoing) :
        /\ Arrive(SubSeq(outgoing, 1, n))
        /\ outgoing' = SubSeq(outgoing, n + 1, Len(outgoing))
  BY DEF Delivery
<1>. DEFINE b == BytesOf(data_buffer)
            c == BytesOf(inbox)
            p == SubSeq(outgoing, 1, n)
            q == SubSeq(outgoing, n + 1, Len(outgoing))
            r == [i \in DOMAIN p |-> [byte |-> p[i], at |-> now]]
<1>2. b \in Seq(WireBytes) /\ c \in Seq(WireBytes) /\ outgoing \in Seq(WireBytes)
      /\ inbox \in Seq(Received) /\ now \in Times
  BY FlightType, Wire DEF MemTypes, TypeOK, WireTypes
<1>3. p \in Seq(WireBytes) /\ q \in Seq(WireBytes) /\ p \o q = outgoing
  <2>1. n \in 0 .. Len(outgoing)
    BY <1>1
  <2>2. p \in Seq(WireBytes) /\ q \in Seq(WireBytes)
    BY <1>2, <2>1, Rest
  <2>3. SubSeq(outgoing, 1, n) \o SubSeq(outgoing, n + 1, Len(outgoing))
          = SubSeq(outgoing, 1, Len(outgoing))
    <3>1. 1 \in 1 .. Len(outgoing) + 1 /\ n \in 1 - 1 .. Len(outgoing)
          /\ Len(outgoing) \in n .. Len(outgoing)
      BY <1>2, <2>1
    <3>. QED
      BY <1>2, <3>1, ConcatAdjacentSubSeq
  <2>4. SubSeq(outgoing, 1, Len(outgoing)) = outgoing
    BY <1>2, SubSeqFull
  <2>. QED
    BY <2>2, <2>3, <2>4
<1>4. inbox' = inbox \o r /\ outgoing' = q /\ data_buffer' = data_buffer
  BY <1>1 DEF Arrive, Delivery, remote
<1>. HIDE DEF p, q
<1>5. r \in Seq(Received) /\ BytesOf(r) = p
  BY <1>2, <1>3, Arrived
<1>. HIDE DEF r
<1>6. BytesOf(inbox)' = c \o p
  <2>1. BytesOf(inbox \o r) = c \o BytesOf(r)
    BY <1>2, <1>5, BytesOfConcat
  <2>. QED
    BY <1>4, <1>5, <2>1 DEF BytesOf
<1>7. BytesOf(data_buffer)' = b
  BY <1>4 DEF BytesOf
<1>. HIDE DEF b, c
<1>8. b \o ((c \o p) \o q) = b \o (c \o outgoing)
  <2>1. c \in Seq(WireBytes) /\ p \in Seq(WireBytes) /\ q \in Seq(WireBytes)
    BY <1>2, <1>3
  <2>2. Associates(c, p, q)
    BY ONLY <2>1, Regroup
  <2>. QED
    BY <1>3, <2>2 DEF Associates
<1>9. Flight' = BytesOf(data_buffer)' \o (BytesOf(inbox)' \o outgoing')
  BY DEF Flight
<1>. QED
  BY <1>4, <1>6, <1>7, <1>8, <1>9 DEF Flight, b, c

\* What OpenOCD writes comes last.
LEMMA FlightGrows ==
  ASSUME MemTypes, NEW p \in Seq(WireBytes), outgoing' = outgoing \o p,
         UNCHANGED <<data_buffer, inbox>>
  PROVE  Flight' = Flight \o p
<1>. DEFINE b == BytesOf(data_buffer)
            c == BytesOf(inbox)
<1>1. b \in Seq(WireBytes) /\ c \in Seq(WireBytes) /\ outgoing \in Seq(WireBytes)
  BY FlightType DEF MemTypes
<1>2. BytesOf(data_buffer)' = b /\ BytesOf(inbox)' = c
  BY DEF BytesOf
<1>. HIDE DEF b, c
<1>3. b \o (c \o (outgoing \o p)) = (b \o (c \o outgoing)) \o p
  <2>1. c \o outgoing \in Seq(WireBytes) /\ Associates(c, outgoing, p)
    BY <1>1, ConcatProperties, Regroup
  <2>. DEFINE d == c \o outgoing
  <2>2. d \in Seq(WireBytes)
    BY <2>1
  <2>. HIDE DEF d
  <2>3. Associates(b, d, p)
    BY ONLY <1>1, <2>2, p \in Seq(WireBytes), Regroup
  <2>. QED
    BY ONLY <2>1, <2>3 DEF d, Associates
<1>4. Flight' = BytesOf(data_buffer)' \o (BytesOf(inbox)' \o outgoing')
  BY DEF Flight
<1>. QED
  BY <1>2, <1>3, <1>4 DEF Flight, b, c

\* A response is taken from the front: an acknowledgement is one byte, a packet two.
LEMMA FlightTake ==
  ASSUME MemTypes, TakeResponse, outgoing' = outgoing
  PROVE  \/ /\ AckInFront /\ Len(Flight) >= 1 /\ Flight[1].ch = "+"
            /\ Flight' = SubSeq(Flight, 1 + 1, Len(Flight))
         \/ /\ ~AckInFront /\ Len(Flight) >= 2
            /\ Flight[1].ch = "$" /\ Flight[2].ch = "#" /\ Flight[1].of = Response
            /\ Flight' = SubSeq(Flight, 2 + 1, Len(Flight))
<1>. DEFINE n == IF AckInFront THEN 1 ELSE 2
            b == BytesOf(data_buffer)
            c == BytesOf(inbox)
            f == c \o outgoing
            s == SubSeq(b, n + 1, Len(b))
<1>1. /\ data_buffer \in Seq(Received) /\ b \in Seq(WireBytes) /\ c \in Seq(WireBytes)
      /\ outgoing \in Seq(WireBytes) /\ Len(b) = Len(data_buffer)
      /\ Len(data_buffer) <= Len(Flight)
      /\ \A i \in 1 .. Len(data_buffer) : Flight[i] = data_buffer[i].byte
  BY FlightType, BytesOfType DEF MemTypes
<1>2. n \in 0 .. Len(data_buffer) /\ n >= 1
  BY <1>1 DEF TakeResponse, ResponseInFront, AckInFront, PacketInFront
<1>3. data_buffer' = SubSeq(data_buffer, n + 1, Len(data_buffer)) /\ inbox' = inbox
  BY DEF TakeResponse, stream
<1>4. BytesOf(data_buffer)' = s
  <2>. HIDE DEF n
  <2>1. BytesOf(SubSeq(data_buffer, n + 1, Len(data_buffer))) = s
    BY <1>1, <1>2, BytesOfRest
  <2>. QED
    BY <1>3, <2>1 DEF BytesOf
<1>5. BytesOf(inbox)' = c
  BY <1>3 DEF BytesOf
<1>6. Flight = b \o f
  BY DEF Flight
<1>7. Flight' = s \o f
  <2>1. Flight' = BytesOf(data_buffer)' \o (BytesOf(inbox)' \o outgoing')
    BY DEF Flight
  <2>. QED
    BY <1>4, <1>5, <2>1
<1>. HIDE DEF b, c
<1>8. f \in Seq(WireBytes)
  BY <1>1, Concat
<1>. HIDE DEF f, n
<1>9. s \o f = SubSeq(b \o f, n + 1, Len(b \o f))
  <2>. DEFINE p == SubSeq(b, 1, n)
  <2>1. /\ p \in Seq(WireBytes) /\ Len(p) = n /\ s \in Seq(WireBytes) /\ p \o s = b
        /\ Len(s) = Len(b) - n
    <3>1. n \in 0 .. Len(b) /\ Len(b) \in Nat
      BY <1>1, <1>2
    <3>2. p \in Seq(WireBytes) /\ Len(p) = n
      BY <1>1, <3>1
    <3>3. s \in Seq(WireBytes) /\ Len(s) = Len(b) - n
      BY <1>1, <3>1, Rest
    <3>4. 1 \in 1 .. Len(b) + 1 /\ n \in 1 - 1 .. Len(b) /\ Len(b) \in n .. Len(b)
      BY <3>1
    <3>5. SubSeq(b, 1, n) \o SubSeq(b, n + 1, Len(b)) = SubSeq(b, 1, Len(b))
      BY <1>1, <3>4, ConcatAdjacentSubSeq
    <3>6. SubSeq(b, 1, Len(b)) = b
      BY <1>1, SubSeqFull
    <3>. QED
      BY <3>2, <3>3, <3>5, <3>6
  <2>. HIDE DEF p, s
  <2>2. b \o f = p \o (s \o f)
    <3>1. Associates(p, s, f)
      BY ONLY <1>8, <2>1, Regroup
    <3>. QED
      BY <2>1, <3>1 DEF Associates
  <2>3. s \o f \in Seq(WireBytes) /\ p \o (s \o f) \in Seq(WireBytes)
        /\ Len(p \o (s \o f)) = n + Len(s \o f)
        /\ \A i \in 1 .. n + Len(s \o f) :
             (p \o (s \o f))[i] = IF i <= n THEN p[i] ELSE (s \o f)[i - n]
    <3>. DEFINE t == s \o f
    <3>1. t \in Seq(WireBytes)
      BY <1>8, <2>1, Concat
    <3>. HIDE DEF t
    <3>2. /\ p \o t \in Seq(WireBytes) /\ Len(p \o t) = Len(p) + Len(t)
          /\ \A i \in 1 .. Len(p) + Len(t) :
               (p \o t)[i] = IF i <= Len(p) THEN p[i] ELSE t[i - Len(p)]
      BY <2>1, <3>1, Concat
    <3>. QED
      BY <2>1, <3>1, <3>2 DEF t
  <2>. DEFINE t == s \o f
              w == p \o t
              v == SubSeq(w, n + 1, Len(w))
  <2>4. t \in Seq(WireBytes) /\ w \in Seq(WireBytes) /\ Len(w) = n + Len(t)
        /\ \A i \in 1 .. n + Len(t) : w[i] = IF i <= n THEN p[i] ELSE t[i - n]
    BY <2>3
  <2>5. n \in Nat
    BY <1>2
  <2>. HIDE DEF t, w
  <2>6. /\ v \in Seq(WireBytes) /\ Len(v) = Len(t)
        /\ \A i \in 1 .. Len(t) : v[i] = w[i + n]
    <3>1. n \in 0 .. Len(w) /\ Len(w) - n = Len(t)
      BY <2>4, <2>5
    <3>. QED
      BY <2>4, <3>1, Rest
  <2>. HIDE DEF v
  <2>7. \A i \in 1 .. Len(v) : v[i] = t[i]
    <3>. SUFFICES ASSUME NEW i \in 1 .. Len(v) PROVE v[i] = t[i]
      OBVIOUS
    <3>1. i + n \in 1 .. n + Len(t) /\ ~(i + n <= n) /\ i + n - n = i /\ i \in 1 .. Len(t)
      BY <2>4, <2>5, <2>6
    <3>2. v[i] = w[i + n]
      BY <2>6, <3>1
    <3>3. PICK k \in 1 .. n + Len(t) : k = i + n
      BY <3>1
    <3>4. w[k] = IF k <= n THEN p[k] ELSE t[k - n]
      BY <2>4
    <3>5. ~(k <= n) /\ k - n = i
      BY <2>5, <3>1, <3>3
    <3>. QED
      BY <3>2, <3>3, <3>4, <3>5
  <2>8. v = t
    BY <2>4, <2>6, <2>7, SeqEqual
  <2>. QED
    BY <2>2, <2>8 DEF t, w, v
<1>10. Flight' = SubSeq(Flight, n + 1, Len(Flight))
  BY <1>6, <1>7, <1>9
<1>11. CASE AckInFront
  <2>1. n = 1 /\ data_buffer # <<>> /\ data_buffer[1].byte.ch = "+"
    BY <1>11 DEF n, AckInFront
  <2>2. 1 \in 1 .. Len(data_buffer) /\ Len(Flight) >= 1
    BY <1>1, <2>1, FlightType
  <2>. QED
    BY <1>1, <1>10, <1>11, <2>1, <2>2
<1>12. CASE ~AckInFront
  <2>1. n = 2 /\ Len(data_buffer) >= 2
        /\ data_buffer[1].byte.ch = "$" /\ data_buffer[2].byte.ch = "#"
    BY <1>12 DEF n, TakeResponse, ResponseInFront, PacketInFront
  <2>2. 1 \in 1 .. Len(data_buffer) /\ 2 \in 1 .. Len(data_buffer) /\ Len(Flight) >= 2
    BY <1>1, <2>1, FlightType
  <2>. QED
    BY <1>1, <1>10, <1>12, <2>1, <2>2 DEF Response
<1>. QED
  BY <1>11, <1>12

-----------------------------------------------------------------------------
(* Requests and answers: the invariant.                                    *)

\* Bytes that start nothing but unasked packets, acknowledgements and OK.
LEMMA AppendOthers ==
  ASSUME NEW f \in Seq(WireBytes), NEW p \in Seq(WireBytes), NoAnswers(p)
  PROVE  /\ NoAnswers(f) => NoAnswers(f \o p)
         /\ \A k \in Nat, c \in Contents : OnlyAnswer(f, k, c) => OnlyAnswer(f \o p, k, c)
<1>. DEFINE g == f \o p
<1>1. /\ g \in Seq(WireBytes) /\ Len(g) = Len(f) + Len(p)
      /\ \A i \in 1 .. Len(f) + Len(p) : g[i] = IF i <= Len(f) THEN f[i] ELSE p[i - Len(f)]
      /\ Len(f) \in Nat /\ Len(p) \in Nat
  BY Concat
<1>. HIDE DEF g
<1>2. ASSUME NEW i \in DOMAIN g
      PROVE  (i \in DOMAIN f /\ g[i] = f[i]) \/ ~IsAnswer(g[i])
  <2>1. i \in 1 .. Len(f) + Len(p)
    BY <1>1
  <2>2. CASE i <= Len(f)
    BY <1>1, <2>1, <2>2
  <2>3. CASE ~(i <= Len(f))
    <3>1. i - Len(f) \in DOMAIN p
      BY <1>1, <2>1, <2>3
    <3>. QED
      BY <1>1, <2>1, <2>3, <3>1 DEF NoAnswers
  <2>. QED
    BY <2>2, <2>3
<1>3. NoAnswers(f) => NoAnswers(g)
  BY <1>2 DEF NoAnswers
<1>4. ASSUME NEW k \in Nat, NEW c \in Contents, OnlyAnswer(f, k, c) PROVE OnlyAnswer(g, k, c)
  <2>1. /\ k \in 1 .. Len(f) - 1
        /\ f[k] = [ch |-> "$", of |-> c] /\ f[k + 1] = [ch |-> "#", of |-> c]
        /\ \A i \in DOMAIN f : i # k /\ i # k + 1 => ~IsAnswer(f[i])
    BY <1>4 DEF OnlyAnswer
  <2>2. k \in 1 .. Len(g) - 1 /\ g[k] = f[k]
    BY <1>1, <2>1
  <2>3. g[k + 1] = f[k + 1]
    <3>1. k + 1 \in 1 .. Len(f) + Len(p) /\ k + 1 <= Len(f)
      BY <1>1, <2>1
    <3>. QED
      BY <1>1, <3>1
  <2>4. \A i \in DOMAIN g : i # k /\ i # k + 1 => ~IsAnswer(g[i])
    BY <1>2, <2>1
  <2>. QED
    BY <2>1, <2>2, <2>3, <2>4 DEF OnlyAnswer
<1>. QED
  BY <1>3, <1>4 DEF g

\* The reply to the request.
LEMMA AppendReply ==
  ASSUME NEW f \in Seq(WireBytes), NEW c \in Contents, NoAnswers(f)
  PROVE  OnlyAnswer(f \o Packet(c), Len(f) + 1, c)
<1>. DEFINE p == Packet(c)
            g == f \o p
            k == Len(f) + 1
<1>1. /\ p \in Seq(WireBytes) /\ Len(p) = 2
      /\ p[1] = [ch |-> "$", of |-> c] /\ p[2] = [ch |-> "#", of |-> c]
  BY WrittenBytes
<1>. HIDE DEF p
<1>2. /\ g \in Seq(WireBytes) /\ Len(g) = Len(f) + 2 /\ Len(f) \in Nat
      /\ \A i \in 1 .. Len(f) + 2 : g[i] = IF i <= Len(f) THEN f[i] ELSE p[i - Len(f)]
  <2>1. /\ g \in Seq(WireBytes) /\ Len(g) = Len(f) + Len(p) /\ Len(f) \in Nat
        /\ \A i \in 1 .. Len(f) + Len(p) :
             g[i] = IF i <= Len(f) THEN f[i] ELSE p[i - Len(f)]
    <3>1. p \in Seq(WireBytes)
      BY <1>1
    <3>. QED
      BY <3>1, Concat
  <2>. HIDE DEF g
  <2>. QED
    BY <1>1, <2>1
<1>. HIDE DEF g
<1>3. PICK m \in 1 .. Len(f) + 2 : m = Len(f) + 1
  BY <1>2
<1>4. PICK n \in 1 .. Len(f) + 2 : n = Len(f) + 2
  BY <1>2
<1>5. ~(m <= Len(f)) /\ m - Len(f) = 1 /\ ~(n <= Len(f)) /\ n - Len(f) = 2 /\ n = m + 1
      /\ m \in 1 .. Len(g) - 1
  BY <1>2, <1>3, <1>4
<1>6. g[m] = p[1] /\ g[m + 1] = p[2]
  BY <1>2, <1>5
<1>7. \A i \in DOMAIN g : i # m /\ i # m + 1 => i <= Len(f) /\ i \in DOMAIN f /\ g[i] = f[i]
  BY <1>2, <1>3
<1>8. OnlyAnswer(g, m, c)
  BY <1>1, <1>5, <1>6, <1>7 DEF OnlyAnswer, NoAnswers
<1>. QED
  BY <1>3, <1>8 DEF g, p

LEMMA DropOthers ==
  ASSUME NEW f \in Seq(WireBytes), NEW n \in 0 .. Len(f)
  PROVE  LET g == SubSeq(f, n + 1, Len(f)) IN
         /\ NoAnswers(f) => NoAnswers(g)
         /\ \A k \in Nat, c \in Contents : OnlyAnswer(f, k, c) /\ k > n => OnlyAnswer(g, k - n, c)
         /\ \A k \in Nat, c \in Contents : OnlyAnswer(f, k, c) /\ k + 1 <= n => NoAnswers(g)
<1>. DEFINE g == SubSeq(f, n + 1, Len(f))
<1>1. /\ g \in Seq(WireBytes) /\ Len(g) = Len(f) - n /\ n \in Nat /\ Len(f) \in Nat
      /\ \A i \in 1 .. Len(f) - n : g[i] = f[i + n]
  BY Rest
<1>. HIDE DEF g
<1>2. \A i \in DOMAIN g : /\ i \in Nat /\ i >= 1 /\ i + n \in DOMAIN f /\ g[i] = f[i + n]
  BY <1>1
<1>3. NoAnswers(f) => NoAnswers(g)
  BY <1>2 DEF NoAnswers
<1>4. ASSUME NEW k \in Nat, NEW c \in Contents, OnlyAnswer(f, k, c), k > n PROVE OnlyAnswer(g, k - n, c)
  <2>1. /\ k \in 1 .. Len(f) - 1
        /\ f[k] = [ch |-> "$", of |-> c] /\ f[k + 1] = [ch |-> "#", of |-> c]
        /\ \A i \in DOMAIN f : i # k /\ i # k + 1 => ~IsAnswer(f[i])
    BY <1>4 DEF OnlyAnswer
  <2>2. PICK m \in 1 .. Len(g) - 1 : m = k - n
    BY <1>1, <1>4, <2>1
  <2>3. m \in 1 .. Len(f) - n /\ m + 1 \in 1 .. Len(f) - n /\ m + n = k /\ (m + 1) + n = k + 1
    BY <1>1, <2>1, <2>2
  <2>4. g[m] = f[k] /\ g[m + 1] = f[k + 1]
    BY <1>1, <2>3
  <2>5. ASSUME NEW i \in DOMAIN g, i # m, i # m + 1 PROVE ~IsAnswer(g[i])
    <3>1. i + n \in DOMAIN f /\ g[i] = f[i + n] /\ i \in Int
      BY <1>2
    <3>2. m \in Int /\ n \in Int
      BY <1>1, <2>2
    <3>3. i + n # m + n /\ i + n # (m + 1) + n
      BY <2>5, <3>1, <3>2
    <3>. QED
      BY <2>1, <2>3, <3>1, <3>3
  <2>. QED
    BY <2>1, <2>2, <2>4, <2>5 DEF OnlyAnswer
<1>5. ASSUME NEW k \in Nat, NEW c \in Contents, OnlyAnswer(f, k, c), k + 1 <= n PROVE NoAnswers(g)
  <2>1. \A i \in DOMAIN g : i + n # k /\ i + n # k + 1
    BY <1>1, <1>2, <1>5
  <2>. QED
    BY <1>2, <1>5, <2>1 DEF OnlyAnswer, NoAnswers
<1>. QED
  BY <1>3, <1>4, <1>5 DEF g

LEMMA OthersAreNoAnswers ==
  ASSUME NEW type \in {"QAck", "OK", "O", "T05"}
  PROVE  /\ Plain(type) \in Contents
         /\ Ack(Plain(type)) \in Seq(WireBytes) /\ NoAnswers(Ack(Plain(type)))
         /\ Packet(Plain(type)) \in Seq(WireBytes) /\ NoAnswers(Packet(Plain(type)))
<1>1. Plain(type) \in Contents /\ Plain(type).type # "answer"
  BY ContentsFields DEF Plain
<1>2. /\ Ack(Plain(type)) \in Seq(WireBytes) /\ Packet(Plain(type)) \in Seq(WireBytes)
  BY <1>1, WrittenBytes
<1>3. NoAnswers(Ack(Plain(type)))
  BY <1>1 DEF NoAnswers, IsAnswer, Ack
<1>4. NoAnswers(Packet(Plain(type)))
  BY <1>1 DEF NoAnswers, IsAnswer, Packet
<1>. QED
  BY <1>1, <1>2, <1>3, <1>4

LEMMA AwaitedAnswer ==
  ASSUME MemTypes, Awaiting
  PROVE  /\ Address \in Addresses /\ sent \in Nat /\ Answer(Address, sent) \in Contents
         /\ Answer(Address, sent).type = "answer"
<1>1. Address \in Addresses
  BY AddressTypes DEF MemTypes, Awaiting, Address
<1>2. sent \in Nat
  BY DEF MemTypes, TypeOK
<1>. QED
  BY <1>1, <1>2, ContentsFields DEF Answer

\* Nothing of what the awaited answer depends on has changed.
SameWait ==
  /\ (Awaiting' <=> Awaiting)
  /\ Address' = Address /\ sent' = sent
  /\ NoReads(requests) => NoReads(requests)'
  /\ OnlyRead(requests, Address, sent) => OnlyRead(requests, Address, sent)'
  /\ pc' # "failed" => pc # "failed"

LEMMA SameFlight ==
  ASSUME InStep, SameWait, Flight' = Flight
  PROVE  InStep'
<1>1. CASE ~Awaiting
  BY <1>1 DEF InStep, SameWait, NoAnswers
<1>2. CASE Awaiting
  <2>1. CASE NoAnswers(Flight) /\ OnlyRead(requests, Address, sent)
    <3>1. NoAnswers(Flight)' /\ OnlyRead(requests, Address, sent)'
      BY <2>1 DEF SameWait, NoAnswers
    <3>. QED
      BY <1>2, <3>1 DEF InStep, SameWait
  <2>2. CASE NoReads(requests) /\ \E k \in Nat : OnlyAnswer(Flight, k, Answer(Address, sent))
    <3>1. NoReads(requests)' /\ \E k \in Nat : OnlyAnswer(Flight, k, Answer(Address, sent))'
      BY <2>2 DEF SameWait, OnlyAnswer, Answer
    <3>. QED
      BY <1>2, <3>1 DEF InStep, SameWait
  <2>. QED
    BY <1>2, <2>1, <2>2 DEF InStep
<1>. QED
  BY <1>1, <1>2

\* More bytes of others.
LEMMA MoreFlight ==
  ASSUME MemTypes, InStep, SameWait, NEW p \in Seq(WireBytes), NoAnswers(p),
         Flight' = Flight \o p
  PROVE  InStep'
<1>1. Flight \in Seq(WireBytes)
  BY FlightType
<1>2. /\ NoAnswers(Flight) => NoAnswers(Flight \o p)
      /\ \A k \in Nat, c \in Contents : OnlyAnswer(Flight, k, c) => OnlyAnswer(Flight \o p, k, c)
  BY <1>1, AppendOthers
<1>3. NoAnswers(Flight) => NoAnswers(Flight)'
  BY <1>2 DEF NoAnswers
<1>4. \A k \in Nat, c \in Contents : OnlyAnswer(Flight, k, c) => OnlyAnswer(Flight', k, c)
  BY <1>2
<1>5. CASE ~Awaiting
  BY <1>3, <1>5 DEF InStep, SameWait
<1>6. CASE Awaiting
  <2>1. CASE NoAnswers(Flight) /\ OnlyRead(requests, Address, sent)
    <3>1. NoAnswers(Flight)' /\ OnlyRead(requests, Address, sent)'
      BY <1>3, <2>1 DEF SameWait
    <3>. QED
      BY <1>6, <3>1 DEF InStep, SameWait
  <2>2. CASE NoReads(requests) /\ \E k \in Nat : OnlyAnswer(Flight, k, Answer(Address, sent))
    <3>1. PICK k \in Nat : OnlyAnswer(Flight, k, Answer(Address, sent))
      BY <2>2
    <3>2. OnlyAnswer(Flight', k, Answer(Address, sent))
      BY <1>4, <1>6, <3>1, AwaitedAnswer
    <3>3. NoReads(requests)' /\ \E j \in Nat : OnlyAnswer(Flight, j, Answer(Address, sent))'
      BY <2>2, <3>2 DEF SameWait, OnlyAnswer, Answer
    <3>. QED
      BY <1>6, <3>3 DEF InStep, SameWait
  <2>. QED
    BY <1>6, <2>1, <2>2 DEF InStep
<1>. QED
  BY <1>5, <1>6

LEMMA SendInStep ==
  ASSUME MemTypes, InStep, SendPacket
  PROVE  InStep'
<1>1. ~Awaiting /\ pc # "failed" /\ sent_at = NoTime /\ sent_at' # NoTime /\ pc' = pc
  BY Numbers DEF SendPacket, sendmsg, Awaiting, Packets
<1>2. NoAnswers(Flight) /\ NoReads(requests)
  BY <1>1 DEF InStep
<1>3. Flight' = Flight
  BY DEF SendPacket, sendmsg, remote, Flight, BytesOf
<1>4. NoAnswers(Flight)'
  BY <1>2, <1>3 DEF NoAnswers
<1>. DEFINE r == IF pc = "request" THEN [op |-> "m", addr |-> Address, n |-> sent + 1]
                 ELSE [op |-> pc, addr |-> None, n |-> 0]
<1>5. requests' = Append(requests, r) /\ requests \in Seq(Requests)
  BY DEF SendPacket, Address, MemTypes
<1>6. /\ pc = "request" => r.op = "m" /\ r.addr = Address /\ r.n = sent + 1
      /\ pc # "request" => r.op # "m"
  BY DEF SendPacket, Packets
<1>. HIDE DEF r
<1>7. /\ Len(requests) \in Nat /\ DOMAIN requests' = 1 .. Len(requests) + 1
      /\ requests'[Len(requests) + 1] = r
      /\ \A i \in DOMAIN requests : requests'[i] = requests[i]
      /\ \A i \in DOMAIN requests' : i # Len(requests) + 1 => i \in DOMAIN requests
  BY <1>5
<1>8. CASE pc = "request"
  <2>1. Awaiting' /\ Address' = Address /\ sent' = sent + 1
    BY <1>1, <1>8 DEF Awaiting, Address, SendPacket, iteration
  <2>2. \A i \in DOMAIN requests' : requests'[i].op = "m" => i = Len(requests) + 1
    BY <1>2, <1>7 DEF NoReads
  <2>3. OnlyRead(requests', Address, sent + 1)
    BY <1>6, <1>7, <1>8, <2>2 DEF OnlyRead
  <2>4. OnlyRead(requests, Address, sent)'
    BY <2>1, <2>3 DEF OnlyRead
  <2>. QED
    BY <1>4, <2>1, <2>4 DEF InStep
<1>9. CASE pc # "request"
  <2>1. ~Awaiting'
    BY <1>1, <1>9 DEF Awaiting, SendPacket, Packets
  <2>2. NoReads(requests)'
    BY <1>2, <1>6, <1>7, <1>9 DEF NoReads
  <2>. QED
    BY <1>4, <2>1, <2>2 DEF InStep
<1>. QED
  BY <1>8, <1>9

\* The reply loop takes nothing but the answer it waits for.
LEMMA TakeReply ==
  ASSUME MemTypes, InStep, HandleReply
  PROVE  \/ /\ ~AckInFront /\ Response = Answer(Address, sent)
            /\ NoAnswers(Flight)' /\ NoReads(requests)
         \/ /\ AckInFront \/ ~parse_hex_value(Response)
            /\ InStep'
<1>1. Awaiting /\ pc = "reply" /\ requests' = requests /\ outgoing' = outgoing /\ sent' = sent
      /\ addresses' = addresses /\ TakeResponse
  BY DEF HandleReply, Awaiting, openocd
<1>2. Flight \in Seq(WireBytes) /\ Len(Flight) \in Nat
  BY FlightType
<1>3. /\ Answer(Address, sent) \in Contents /\ Answer(Address, sent).type = "answer"
  BY <1>1, AwaitedAnswer
<1>. DEFINE c == Answer(Address, sent)
            n == IF AckInFront THEN 1 ELSE 2
            g == SubSeq(Flight, n + 1, Len(Flight))
<1>4. /\ n \in 0 .. Len(Flight) /\ Flight' = g
      /\ Flight[1].ch = IF AckInFront THEN "+" ELSE "$"
      /\ ~AckInFront => Flight[1].of = Response /\ Flight[2].ch = "#"
  BY <1>1, <1>2, FlightTake
<1>5. /\ NoAnswers(Flight) => NoAnswers(g)
      /\ \A k \in Nat : OnlyAnswer(Flight, k, c) /\ k > n => OnlyAnswer(g, k - n, c)
      /\ \A k \in Nat : OnlyAnswer(Flight, k, c) /\ k + 1 <= n => NoAnswers(g)
  <2>. HIDE DEF n, c
  <2>. QED
    BY <1>2, <1>3, <1>4, DropOthers DEF c
<1>. HIDE DEF c, g
<1>6. AckInFront \/ ~parse_hex_value(Response) =>
        SameWait /\ pc' = "reply"
  <2>1. AckInFront \/ ~parse_hex_value(Response) =>
          pc' = "reply" /\ samples' = samples
    BY <1>1 DEF HandleReply, NextAfter
  <2>2. samples' = samples => Address' = Address
    BY <1>1 DEF Address
  <2>. QED
    BY <1>1, <2>1, <2>2 DEF SameWait, Awaiting, NoReads, OnlyRead
<1>7. CASE NoAnswers(Flight) /\ OnlyRead(requests, Address, sent)
  <2>1. NoAnswers(Flight)'
    BY <1>4, <1>5, <1>7 DEF NoAnswers
  <2>2. AckInFront \/ ~parse_hex_value(Response)
    <3>1. 1 \in DOMAIN Flight
      BY <1>2, <1>4
    <3>2. ~IsAnswer(Flight[1])
      BY <1>7, <3>1 DEF NoAnswers
    <3>. QED
      BY <1>4, <3>2 DEF IsAnswer, parse_hex_value
  <2>3. OnlyRead(requests, Address, sent)'
    BY <1>6, <1>7, <2>2 DEF SameWait
  <2>. QED
    BY <1>1, <1>6, <2>1, <2>2, <2>3 DEF InStep, SameWait
<1>8. CASE NoReads(requests) /\ \E k \in Nat : OnlyAnswer(Flight, k, c)
  <2>1. PICK k \in Nat : OnlyAnswer(Flight, k, c)
    BY <1>8
  <2>2. /\ k \in 1 .. Len(Flight) - 1
        /\ Flight[k] = [ch |-> "$", of |-> c] /\ Flight[k + 1] = [ch |-> "#", of |-> c]
        /\ \A i \in DOMAIN Flight : i # k /\ i # k + 1 => ~IsAnswer(Flight[i])
    BY <2>1 DEF OnlyAnswer
  <2>3. CASE k = 1
    <3>1. ~AckInFront /\ Response = c
      BY <1>4, <2>2, <2>3
    <3>2. NoAnswers(g)
      BY <1>5, <2>1, <2>3, <3>1
    <3>. QED
      BY <1>4, <1>8, <3>1, <3>2 DEF NoAnswers, c
  <2>4. CASE k # 1
    <3>1. 1 \in DOMAIN Flight /\ 1 # k /\ 1 # k + 1
      BY <1>2, <2>2, <2>4
    <3>2. ~IsAnswer(Flight[1])
      BY <2>2, <3>1
    <3>3. AckInFront \/ ~parse_hex_value(Response)
      BY <1>4, <3>2 DEF IsAnswer, parse_hex_value
    <3>4. k > n
      <4>1. CASE AckInFront
        BY <2>2, <2>4, <4>1
      <4>2. CASE ~AckInFront
        <5>1. k # 2
          BY <1>4, <2>2, <4>2
        <5>. QED
          BY <2>2, <2>4, <4>2, <5>1
      <4>. QED
        BY <4>1, <4>2
    <3>5. OnlyAnswer(g, k - n, c) /\ k - n \in Nat
      BY <1>5, <2>1, <3>4
    <3>6. NoReads(requests)' /\ \E j \in Nat : OnlyAnswer(Flight, j, Answer(Address, sent))'
      <4>1. OnlyAnswer(Flight', k - n, c)
        BY <1>4, <3>5
      <4>2. Answer(Address, sent)' = c
        BY <1>6, <3>3 DEF SameWait, Answer, c
      <4>3. PICK j \in Nat : j = k - n
        BY <3>5
      <4>4. OnlyAnswer(Flight, j, Answer(Address, sent))'
        BY <4>1, <4>2, <4>3 DEF OnlyAnswer
      <4>. QED
        BY <1>1, <1>8, <4>4 DEF NoReads
    <3>. QED
      BY <1>1, <1>6, <3>3, <3>6 DEF InStep, SameWait
  <2>. QED
    BY <2>3, <2>4
<1>. QED
  BY <1>1, <1>7, <1>8 DEF InStep, c

LEMMA ServeInStep ==
  ASSUME MemTypes, InStep, ServerHandles, pc # "failed"
  PROVE  InStep'
<1>1. /\ requests # <<>> /\ requests' = Tail(requests) /\ UNCHANGED <<data_buffer, inbox>>
      /\ pc' = pc /\ sent_at' = sent_at /\ sent' = sent /\ samples' = samples
      /\ addresses' = addresses
  BY DEF ServerHandles, stream, remote, sampler
<1>2. /\ Head(requests) = requests[1] /\ 1 \in DOMAIN requests
      /\ \A i \in DOMAIN requests' : i \in Nat /\ i >= 1 /\ i + 1 \in DOMAIN requests
                                     /\ requests'[i] = requests[i + 1]
      /\ \A i \in DOMAIN requests : i # 1 => i - 1 \in DOMAIN requests'
                                             /\ requests'[i - 1] = requests[i]
  BY <1>1 DEF MemTypes
<1>3. (Awaiting' <=> Awaiting) /\ Address' = Address
  BY <1>1 DEF Awaiting, Address
<1>4. CASE Head(requests).op = "m"
  <2>1. ~NoReads(requests)
    BY <1>2, <1>4 DEF NoReads
  <2>2. Awaiting /\ NoAnswers(Flight) /\ OnlyRead(requests, Address, sent)
    BY <2>1 DEF InStep
  <2>3. Head(requests).addr = Address /\ Head(requests).n = sent
    BY <1>2, <1>4, <2>2 DEF OnlyRead
  <2>. DEFINE c == Answer(Address, sent)
              p == Packet(c)
  <2>4. c \in Contents
    BY <2>2, AwaitedAnswer
  <2>5. p \in Seq(WireBytes) /\ outgoing' = outgoing \o p
    BY <1>4, <2>3, <2>4, WrittenBytes DEF ServerHandles
  <2>. HIDE DEF c
  <2>6. Flight' = Flight \o p
    <3>. HIDE DEF p
    <3>. QED
      BY <1>1, <2>5, FlightGrows
  <2>7. Flight \in Seq(WireBytes) /\ Len(Flight) + 1 \in Nat
    BY FlightType
  <2>8. OnlyAnswer(Flight', Len(Flight) + 1, c)
    BY <2>2, <2>4, <2>6, <2>7, AppendReply
  <2>9. NoReads(requests)'
    <3>1. \A i \in DOMAIN requests : i # 1 => requests[i].op # "m"
      BY <1>2, <1>4, <2>2 DEF OnlyRead
    <3>2. \A i \in DOMAIN requests' : i + 1 # 1
      BY <1>2
    <3>. QED
      BY <1>2, <3>1, <3>2 DEF NoReads
  <2>10. \E k \in Nat : OnlyAnswer(Flight, k, Answer(Address, sent))'
    <3>1. PICK k \in Nat : k = Len(Flight) + 1
      BY <2>7
    <3>2. Answer(Address, sent)' = c
      BY <1>1, <1>3 DEF Answer, c
    <3>3. OnlyAnswer(Flight, k, Answer(Address, sent))'
      BY <2>8, <3>1, <3>2 DEF OnlyAnswer
    <3>. QED
      BY <3>3
  <2>. QED
    BY <1>3, <2>2, <2>9, <2>10 DEF InStep
<1>5. CASE Head(requests).op # "m"
  <2>1. NoReads(requests) => NoReads(requests)'
    BY <1>2 DEF NoReads
  <2>2. ASSUME OnlyRead(requests, Address, sent) PROVE OnlyRead(requests, Address, sent)'
    <3>1. PICK j \in DOMAIN requests : requests[j].op = "m"
      BY <2>2 DEF OnlyRead
    <3>2. \E i \in DOMAIN requests' : requests'[i].op = "m"
      BY <1>2, <1>5, <3>1
    <3>3. \A i \in DOMAIN requests' : requests'[i].op = "m" =>
            requests'[i].addr = Address /\ requests'[i].n = sent
      BY <1>2, <2>2 DEF OnlyRead
    <3>4. ASSUME NEW i \in DOMAIN requests', NEW k \in DOMAIN requests',
                 requests'[i].op = "m", requests'[k].op = "m"
          PROVE  i = k
      <4>1. i + 1 = k + 1 /\ i \in Int /\ k \in Int
        BY <1>2, <2>2, <3>4 DEF OnlyRead
      <4>. QED
        BY <4>1
    <3>. QED
      BY <1>1, <1>3, <3>2, <3>3, <3>4 DEF OnlyRead
  <2>3. SameWait
    BY <1>1, <1>3, <2>1, <2>2 DEF SameWait
  <2>4. CASE outgoing' = outgoing
    <3>1. Flight' = Flight
      BY <1>1, <2>4 DEF Flight, BytesOf
    <3>. QED
      BY <2>3, <3>1, SameFlight
  <2>5. CASE outgoing' = outgoing \o Ack(Plain("QAck")) \o Packet(Plain("OK"))
    <3>. DEFINE a == Ack(Plain("QAck"))
                b == Packet(Plain("OK"))
                p == a \o b
    <3>1. a \in Seq(WireBytes) /\ NoAnswers(a)
      BY OthersAreNoAnswers
    <3>2. b \in Seq(WireBytes) /\ NoAnswers(b)
      BY OthersAreNoAnswers
    <3>3. outgoing' = (outgoing \o a) \o b /\ outgoing \in Seq(WireBytes)
      BY <2>5 DEF MemTypes
    <3>. HIDE DEF a, b
    <3>4. p \in Seq(WireBytes)
      BY <3>1, <3>2, Concat
    <3>5. NoAnswers(p)
      BY <3>1, <3>2, AppendOthers
    <3>6. (outgoing \o a) \o b = outgoing \o p
      <4>1. Associates(outgoing, a, b)
        BY ONLY <3>1, <3>2, <3>3, Regroup
      <4>. QED
        BY ONLY <4>1 DEF Associates
    <3>. HIDE DEF p
    <3>7. Flight' = Flight \o p
      BY <1>1, <3>3, <3>4, <3>6, FlightGrows
    <3>. QED
      BY <2>3, <3>4, <3>5, <3>7, MoreFlight
  <2>. QED
    BY <1>5, <2>4, <2>5 DEF ServerHandles
<1>. QED
  BY <1>4, <1>5

LEMMA InStepStep ==
  ASSUME MemTypes, InStep, MemTypes', [Next]_vars
  PROVE  InStep'
<1>1. CASE SendPacket
  BY <1>1, SendInStep
<1>2. CASE PacketSent
  <2>1. Flight' = Flight /\ requests' = requests /\ sent_at # NoTime
    BY <1>2 DEF PacketSent, get_tx_timestamp, remote, openocd, Flight, BytesOf
  <2>2. (Awaiting' <=> Awaiting) /\ pc # "failed"
    BY <1>2, <2>1 DEF PacketSent, Awaiting, Packets, get_tx_timestamp
  <2>3. Address' = Address /\ sent' = sent
    BY <1>2 DEF PacketSent, Address
  <2>4. SameWait
    BY <2>1, <2>2, <2>3 DEF SameWait, NoReads, OnlyRead
  <2>. QED
    BY <2>1, <2>4, SameFlight
<1>3. CASE SendFails \/ ReadError
  BY <1>3 DEF SendFails, ReadError, InStep, Awaiting
<1>4. CASE FeedBuffer
  <2>1. SameWait
    BY <1>4 DEF FeedBuffer, feed_buffer_from_stream, receive, sampler, openocd, SameWait,
                Awaiting, Address, NoReads, OnlyRead
  <2>. QED
    BY <1>4, <2>1, FlightFeed, SameFlight
<1>5. CASE Handshake
  <2>1. ~Awaiting /\ pc # "failed" /\ ~Awaiting' /\ requests' = requests
        /\ outgoing' = outgoing /\ TakeResponse
    BY <1>5 DEF Handshake, Awaiting, openocd
  <2>2. NoAnswers(Flight) /\ NoReads(requests)
    BY <2>1 DEF InStep
  <2>3. Flight \in Seq(WireBytes) /\ Len(Flight) \in Nat
    BY FlightType
  <2>4. PICK n \in 0 .. Len(Flight) : Flight' = SubSeq(Flight, n + 1, Len(Flight))
    BY <2>1, <2>3, FlightTake
  <2>5. NoAnswers(SubSeq(Flight, n + 1, Len(Flight)))
    BY <2>2, <2>3, DropOthers
  <2>6. NoAnswers(Flight)'
    BY <2>4, <2>5 DEF NoAnswers
  <2>. QED
    BY <2>1, <2>2, <2>6 DEF InStep, NoReads
<1>6. CASE BeginIteration
  <2>1. ~Awaiting /\ pc # "failed" /\ requests' = requests
    BY <1>6 DEF BeginIteration, Awaiting, openocd
  <2>2. ~Awaiting' /\ Flight' = Flight
    BY <1>6 DEF BeginIteration, Awaiting, MemTypes, stream, remote, openocd, Flight, BytesOf,
                Packets
  <2>. QED
    BY <2>1, <2>2 DEF InStep, NoAnswers, NoReads
<1>7. CASE HandleReply
  <2>1. CASE NoAnswers(Flight)' /\ NoReads(requests) /\ Response = Answer(Address, sent)
             /\ ~AckInFront
    <3>1. parse_hex_value(Response)
      BY <2>1 DEF parse_hex_value, Answer
    <3>2. pc' # "reply" /\ sent_at' = NoTime /\ requests' = requests
      BY <1>7, <2>1, <3>1 DEF HandleReply, NextAfter, TakeResponse, stream, openocd, MemTypes,
                              Packets
    <3>3. ~Awaiting'
      BY <3>2 DEF Awaiting
    <3>. QED
      BY <2>1, <3>2, <3>3 DEF InStep, NoReads
  <2>. QED
    BY <1>7, <2>1, TakeReply
<1>8. CASE Deliver
  <2>1. ~Awaiting /\ pc # "failed" /\ ~Awaiting' /\ Flight' = Flight /\ requests' = requests
    BY <1>8 DEF Deliver, Awaiting, stream, remote, openocd, Flight, BytesOf
  <2>. QED
    BY <2>1 DEF InStep, NoAnswers, NoReads
<1>9. CASE Environment
  <2>1. CASE ServerHandles
    BY <1>9, <2>1, ServeInStep DEF Environment
  <2>2. CASE ServerChatters
    <3>1. PICK type \in {"O", "T05"} : outgoing' = outgoing \o Packet(Plain(type))
      BY <2>2 DEF ServerChatters
    <3>2. Packet(Plain(type)) \in Seq(WireBytes) /\ NoAnswers(Packet(Plain(type)))
      BY OthersAreNoAnswers
    <3>3. SameWait /\ UNCHANGED <<data_buffer, inbox>>
      BY <2>2 DEF ServerChatters, stream, remote, sampler, SameWait, Awaiting, Address,
                  NoReads, OnlyRead
    <3>4. Flight' = Flight \o Packet(Plain(type))
      BY <3>1, <3>2, <3>3, FlightGrows
    <3>. QED
      BY <3>2, <3>3, <3>4, MoreFlight
  <2>3. CASE Delivery
    <3>1. SameWait
      BY <2>3 DEF Delivery, Arrive, sampler, SameWait, Awaiting, Address, NoReads, OnlyRead
    <3>. QED
      BY <2>3, <3>1, FlightDelivery, SameFlight
  <2>4. CASE (Tick \/ Acknowledge) /\ UNCHANGED <<remote, sampler, openocd>>
    <3>1. SameWait /\ Flight' = Flight
      BY <2>4 DEF Tick, Acknowledge, remote, sampler, openocd, SameWait, Awaiting, Address,
                  NoReads, OnlyRead, Flight, BytesOf
    <3>. QED
      BY <3>1, SameFlight
  <2>. QED
    BY <1>9, <2>1, <2>2, <2>3, <2>4 DEF Environment
<1>10. CASE UNCHANGED vars
  <2>1. SameWait /\ Flight' = Flight
    BY <1>10 DEF vars, stream, remote, sampler, openocd, SameWait, Awaiting, Address,
                 NoReads, OnlyRead, Flight, BytesOf
  <2>. QED
    BY <2>1, SameFlight
<1>. QED
  BY <1>1, <1>2, <1>3, <1>4, <1>5, <1>6, <1>7, <1>8, <1>9, <1>10 DEF Next, SamplerThread
-----------------------------------------------------------------------------
(* Requests and answers: the reads never fall out of step.                 *)

LEMMA NoAnswersInParts ==
  ASSUME NEW f \in Seq(WireBytes), NEW p \in Seq(WireBytes), NoAnswers(f \o p)
  PROVE  NoAnswers(f) /\ NoAnswers(p)
<1>. DEFINE g == f \o p
<1>1. /\ g \in Seq(WireBytes) /\ Len(g) = Len(f) + Len(p)
      /\ \A i \in 1 .. Len(f) + Len(p) : g[i] = IF i <= Len(f) THEN f[i] ELSE p[i - Len(f)]
      /\ Len(f) \in Nat /\ Len(p) \in Nat
  BY Concat
<1>2. \A i \in DOMAIN g : ~IsAnswer(g[i])
  BY DEF NoAnswers
<1>. HIDE DEF g
<1>3. ASSUME NEW i \in DOMAIN f PROVE ~IsAnswer(f[i])
  <2>1. i \in 1 .. Len(f) + Len(p) /\ i <= Len(f)
    <3>1. i \in 1 .. Len(f)
      OBVIOUS
    <3>2. Len(f) \in Nat /\ Len(p) \in Nat
      BY <1>1
    <3>. QED
      BY <3>1, <3>2
  <2>2. i \in DOMAIN g /\ g[i] = f[i]
    BY <1>1, <2>1
  <2>. QED
    BY <1>2, <2>2
<1>4. ASSUME NEW i \in DOMAIN p PROVE ~IsAnswer(p[i])
  <2>1. PICK j \in 1 .. Len(f) + Len(p) : j = i + Len(f) /\ i \in Nat /\ i >= 1
    <3>1. i \in 1 .. Len(p)
      OBVIOUS
    <3>2. Len(f) \in Nat /\ Len(p) \in Nat
      BY <1>1
    <3>3. i + Len(f) \in 1 .. Len(f) + Len(p) /\ i \in Nat /\ i >= 1
      BY <3>1, <3>2
    <3>. QED
      BY <3>3
  <2>2. ~(j <= Len(f)) /\ j - Len(f) = i /\ j \in DOMAIN g
    BY <1>1, <2>1
  <2>3. g[j] = p[i]
    BY <1>1, <2>1, <2>2
  <2>. QED
    BY <1>2, <2>2, <2>3
<1>. QED
  BY <1>3, <1>4 DEF NoAnswers

LEMMA InStepInit == Init => InStep
<1>. SUFFICES ASSUME Init PROVE InStep
  OBVIOUS
<1>1. /\ pc = "hello" /\ requests = <<>> /\ data_buffer = <<>>
      /\ sent_at = NoTime
  BY DEF Init, ConnectedWith
<1>2. PICK first \in {<<>>, Ack(Plain("hello"))} :
        /\ ConnectedWith(first)
        /\ outgoing = IF first = <<>> THEN Ack(Plain("hello")) ELSE <<>>
  BY DEF Init
<1>. DEFINE a == Ack(Plain("hello"))
<1>3. Plain("hello") \in Contents
  BY ContentsFields
<1>4. a \in Seq(WireBytes)
  BY <1>3, WrittenBytes
<1>5. NoAnswers(a) /\ NoAnswers(<<>>)
  BY DEF NoAnswers, IsAnswer, Ack, Plain
<1>6. /\ first \in {<<>>, a} /\ outgoing \in {<<>>, a}
      /\ inbox = [i \in DOMAIN first |-> [byte |-> first[i], at |-> NoTime]]
  BY <1>2 DEF ConnectedWith
<1>. HIDE DEF a
<1>7. /\ first \in Seq(WireBytes) /\ NoAnswers(first) /\ outgoing \in Seq(WireBytes)
      /\ NoAnswers(outgoing) /\ <<>> \in Seq(WireBytes)
  <2>1. <<>> \in Seq(WireBytes)
    OBVIOUS
  <2>2. \A x \in {<<>>, a} : x \in Seq(WireBytes) /\ NoAnswers(x)
    BY <1>4, <1>5, <2>1
  <2>. QED
    BY <1>6, <2>1, <2>2
<1>8. BytesOf(inbox) = first
  BY <1>6, <1>7, Arrived
<1>9. BytesOf(data_buffer) = <<>>
  BY <1>1 DEF BytesOf
<1>10. NoAnswers(first \o outgoing) /\ first \o outgoing \in Seq(WireBytes)
  BY <1>7, AppendOthers, Concat
<1>11. Flight = first \o outgoing
  <2>1. <<>> \o (first \o outgoing) = first \o outgoing
    BY <1>10, ConcatEmptySeq
  <2>. QED
    BY <1>8, <1>9, <2>1 DEF Flight
<1>. QED
  BY <1>1, <1>10, <1>11 DEF InStep, Awaiting, NoReads

LEMMA ReadsWhenInStep ==
  ASSUME MemTypes, InStep
  PROVE  ReadsInStep
<1>. SUFFICES ASSUME pc # "reply", sent_at = NoTime, pc # "failed"
             PROVE  /\ \A i \in DOMAIN data_buffer : ~IsAnswer(data_buffer[i].byte)
                    /\ \A i \in DOMAIN inbox : ~IsAnswer(inbox[i].byte)
                    /\ \A i \in DOMAIN outgoing : ~IsAnswer(outgoing[i])
                    /\ \A i \in DOMAIN requests : requests[i].op # "m"
  BY DEF ReadsInStep
<1>1. NoAnswers(Flight) /\ NoReads(requests)
  BY DEF InStep, Awaiting
<1>. DEFINE b == BytesOf(data_buffer)
            c == BytesOf(inbox)
<1>2. b \in Seq(WireBytes) /\ c \in Seq(WireBytes) /\ outgoing \in Seq(WireBytes)
  BY FlightType DEF MemTypes
<1>3. Flight = b \o (c \o outgoing)
  BY DEF Flight
<1>4. \A i \in DOMAIN b : b[i] = data_buffer[i].byte
  BY DEF BytesOf
<1>5. \A i \in DOMAIN c : c[i] = inbox[i].byte
  BY DEF BytesOf
<1>6. DOMAIN b = DOMAIN data_buffer /\ DOMAIN c = DOMAIN inbox
  BY DEF BytesOf
<1>. HIDE DEF b, c
<1>7. c \o outgoing \in Seq(WireBytes)
  BY <1>2, Concat
<1>8. NoAnswers(b) /\ NoAnswers(c \o outgoing)
  BY <1>1, <1>2, <1>3, <1>7, NoAnswersInParts
<1>9. NoAnswers(c) /\ NoAnswers(outgoing)
  BY <1>2, <1>8, NoAnswersInParts
<1>. QED
  BY <1>1, <1>4, <1>5, <1>6, <1>8, <1>9 DEF NoAnswers, NoReads

\* Outside the reply loop no answer is unread, on its way or owed, for any lists
\* of addresses, any chatter of OpenOCD and any splitting of its bytes.
THEOREM ReadsCorrect == Spec => []ReadsInStep
<1>1. MemTypes /\ InStep => ReadsInStep
  BY ReadsWhenInStep
<1>. QED
  BY <1>1, TypesInit, TypesStep, InStepInit, InStepStep, PTL DEF Spec
-----------------------------------------------------------------------------
(* Requests and answers: a reading is the answer to its own request.       *)

Sampling == {"request", "reply", "deliver"}

LEMMA SameSamples ==
  ASSUME SamplesOwn, pc' \in Sampling => pc \in Sampling /\ First' = First,
         UNCHANGED <<addresses, samples, delivered>>
  PROVE  SamplesOwn'
<1>. SUFFICES ASSUME pc' \in Sampling
             PROVE  /\ delivered'.upto <= First'
                    /\ \A i \in 1 .. Len(samples') :
                         samples'[i] = [addr  |-> addresses'[i],
                                        value |-> [addr |-> addresses'[i], n |-> First' + i]]
  BY DEF SamplesOwn, Sampling
<1>. QED
  BY DEF SamplesOwn, Sampling

\* The answer that was awaited is the next reading.
LEMMA NewReading ==
  ASSUME MemTypes, InStep, SamplesOwn, MemTypes', HandleReply,
         ~AckInFront, Response = Answer(Address, sent)
  PROVE  SamplesOwn'
<1>1. parse_hex_value(Response) /\ Response.value = [addr |-> Address, n |-> sent]
  BY DEF parse_hex_value, Answer
<1>2. /\ samples' = Append(samples, [addr |-> Address, value |-> [addr |-> Address, n |-> sent]])
      /\ pc' \in {"request", "deliver"} /\ pc = "reply" /\ sent_at' = NoTime
      /\ addresses' = addresses /\ delivered' = delivered /\ sent' = sent
  BY <1>1 DEF HandleReply, NextAfter, Address, TakeResponse, stream, MemTypes, Packets
<1>3. Awaiting /\ ~Awaiting'
  BY <1>2 DEF Awaiting
<1>4. /\ samples \in Seq(Readings) /\ sent \in Nat /\ Len(samples) \in Nat
  BY DEF MemTypes, TypeOK
<1>5. First = sent - Len(samples) - 1
  BY <1>3 DEF First
<1>6. First' = sent - Len(samples') - 0
  BY <1>2, <1>3 DEF First
<1>. DEFINE r == [addr |-> Address, value |-> [addr |-> Address, n |-> sent]]
<1>7. /\ Len(samples') = Len(samples) + 1
      /\ \A i \in 1 .. Len(samples) : samples'[i] = samples[i]
      /\ samples'[Len(samples) + 1] = r
  <2>. HIDE DEF r
  <2>1. samples' = Append(samples, r)
    BY <1>2 DEF r
  <2>. QED
    BY <1>4, <2>1
<1>8. First' = First /\ First \in Int /\ sent = First + (Len(samples) + 1)
  <2>1. First' = sent - (Len(samples) + 1) - 0
    BY <1>6, <1>7
  <2>. QED
    BY <1>4, <1>5, <2>1
<1>9. /\ delivered.upto <= First
      /\ \A i \in 1 .. Len(samples) :
           samples[i] = [addr  |-> addresses[i],
                         value |-> [addr |-> addresses[i], n |-> First + i]]
  BY <1>2 DEF SamplesOwn
<1>10. r = [addr  |-> addresses[Len(samples) + 1],
            value |-> [addr |-> addresses[Len(samples) + 1],
                       n |-> First + (Len(samples) + 1)]]
  BY <1>8 DEF Address
<1>. HIDE DEF r
<1>11. ASSUME NEW i \in 1 .. Len(samples) + 1
       PROVE  samples'[i] = [addr  |-> addresses[i],
                             value |-> [addr |-> addresses[i], n |-> First + i]]
  <2>1. CASE i = Len(samples) + 1
    BY <1>7, <1>10, <2>1
  <2>2. CASE i # Len(samples) + 1
    <3>1. i \in 1 .. Len(samples)
      BY <1>4, <2>2
    <3>. QED
      BY <1>7, <1>9, <3>1
  <2>. QED
    BY <2>1, <2>2
<1>. QED
  BY <1>2, <1>7, <1>8, <1>9, <1>11 DEF SamplesOwn

LEMMA SamplesOwnStep ==
  ASSUME MemTypes, InStep, SamplesOwn, MemTypes', [Next]_vars
  PROVE  SamplesOwn'
<1>1. CASE SendPacket
  <2>1. CASE pc = "request"
    <3>1. ~Awaiting /\ Awaiting' /\ sent' = sent + 1 /\ pc' = pc
      BY <1>1, <2>1, Numbers DEF SendPacket, sendmsg, Awaiting
    <3>2. UNCHANGED <<addresses, samples, delivered>>
      BY <1>1 DEF SendPacket, iteration
    <3>3. sent \in Nat /\ Len(samples) \in Nat
      BY DEF MemTypes, TypeOK
    <3>4. First = sent - Len(samples) - 0 /\ First' = (sent + 1) - Len(samples) - 1
      BY <3>1, <3>2 DEF First
    <3>5. First' = First
      BY <3>3, <3>4
    <3>. QED
      BY <2>1, <3>1, <3>2, <3>5, SameSamples DEF Sampling
  <2>2. CASE pc # "request"
    BY <1>1, <2>2 DEF SendPacket, Packets, SamplesOwn
  <2>. QED
    BY <2>1, <2>2
<1>2. CASE PacketSent
  <2>1. CASE pc = "request"
    <3>1. Awaiting /\ Awaiting'
      BY <1>2, <2>1 DEF PacketSent, get_tx_timestamp, Awaiting
    <3>2. UNCHANGED <<addresses, samples, delivered, sent>>
      BY <1>2 DEF PacketSent
    <3>3. First' = First
      BY <3>1, <3>2 DEF First
    <3>. QED
      BY <2>1, <3>2, <3>3, SameSamples DEF Sampling
  <2>2. CASE pc # "request"
    BY <1>2, <2>2 DEF PacketSent, Packets, SamplesOwn
  <2>. QED
    BY <2>1, <2>2
<1>3. CASE SendFails \/ ReadError \/ Handshake \/ Deliver
  BY <1>3 DEF SendFails, ReadError, Handshake, Deliver, SamplesOwn
<1>4. CASE BeginIteration
  <2>1. /\ pc = "idle" /\ pc' = "request" /\ sent_at' = sent_at
        /\ samples' = samples /\ sent' = sent /\ delivered' = delivered
    BY <1>4 DEF BeginIteration, stream
  <2>2. samples = <<>> /\ sent_at = NoTime /\ delivered.upto <= sent /\ sent \in Nat
    BY <2>1 DEF MemTypes, TypeOK, Packets
  <2>3. ~Awaiting'
    BY <2>1, <2>2 DEF Awaiting
  <2>4. Len(samples') = 0
    BY <2>1, <2>2
  <2>5. First' = sent - 0 - 0
    BY <2>1, <2>3, <2>4 DEF First
  <2>6. delivered'.upto <= First' /\ 1 .. Len(samples') = {}
    BY <2>1, <2>2, <2>4, <2>5
  <2>. QED
    BY <2>6 DEF SamplesOwn
<1>5. CASE HandleReply
  <2>1. CASE ~AckInFront /\ Response = Answer(Address, sent)
    BY <1>5, <2>1, NewReading
  <2>2. CASE AckInFront \/ ~parse_hex_value(Response)
    <3>1. /\ pc = "reply" /\ pc' = "reply"
          /\ UNCHANGED <<addresses, samples, delivered, sent>>
      BY <1>5, <2>2 DEF HandleReply, NextAfter
    <3>2. First' = First
      BY <3>1 DEF First, Awaiting
    <3>. QED
      BY <3>1, <3>2, SameSamples DEF Sampling
  <2>. QED
    BY <1>5, <2>1, <2>2, TakeReply
<1>6. CASE FeedBuffer \/ Environment \/ UNCHANGED vars
  <2>1. UNCHANGED <<sampler, sent_at>>
    BY <1>6 DEF FeedBuffer, feed_buffer_from_stream, receive, Environment, ServerHandles,
                ServerChatters, Delivery, Arrive, Tick, Acknowledge, vars, stream
  <2>2. UNCHANGED <<pc, addresses, samples, delivered, sent, sent_at>>
    BY <2>1 DEF sampler
  <2>3. First' = First
    BY <2>2 DEF First, Awaiting
  <2>. QED
    BY <2>2, <2>3, SameSamples
<1>. QED
  BY <1>1, <1>2, <1>3, <1>4, <1>5, <1>6 DEF Next, SamplerThread

-----------------------------------------------------------------------------
(* The refinement.                                                         *)

LEMMA InvInit == Init => IInv
<1>1. Init => SamplesOwn
  BY DEF Init, SamplesOwn
<1>. QED
  BY <1>1, TypesInit, TimesInit, InStepInit DEF IInv

LEMMA InvStep ==
  ASSUME IInv, [Next]_vars
  PROVE  IInv'
<1>1. MemTypes'
  BY TypesStep DEF IInv
<1>. QED
  BY <1>1, TimesStep, InStepStep, SamplesOwnStep DEF IInv

LEMMA DeliveredTime ==
  ASSUME IInv, Deliver
  PROVE  delivered'.t >= delivered.t
<1>1. /\ MemTypes /\ SampleTimes /\ ClockTimes
      /\ delivered'.t = (SinceStart(requested_at) + SinceStart(received_at)) \div 2
      /\ pc = "deliver"
  BY DEF IInv, TimesInv, Deliver
<1>2. /\ requested_at # NoTime /\ received_at # NoTime
      /\ requested_at \in Int /\ received_at \in Int /\ start \in Int
  BY <1>1, Numbers DEF ClockTimes
<1>3. PICK a \in Times, b \in Times :
        /\ delivered.t <= (SinceStart(a) + SinceStart(b)) \div 2
        /\ a <= requested_at /\ b <= received_at
  BY <1>1, <1>2 DEF SampleTimes
<1>4. a \in Int /\ b \in Int
  BY TimesAreNumbers
<1>5. (SinceStart(a) + SinceStart(b)) \div 2
        <= (SinceStart(requested_at) + SinceStart(received_at)) \div 2
  BY <1>2, <1>3, <1>4, Mean
<1>6. delivered.t \in Nat
  BY <1>1, TimesAreNumbers DEF MemTypes, TypeOK
<1>7. /\ SinceStart(a) \in Int /\ SinceStart(b) \in Int
      /\ SinceStart(requested_at) \in Int /\ SinceStart(received_at) \in Int
  BY <1>2, <1>4 DEF SinceStart
<1>. DEFINE x == (SinceStart(a) + SinceStart(b)) \div 2
            y == (SinceStart(requested_at) + SinceStart(received_at)) \div 2
<1>8. x \in Int /\ y \in Int
  BY <1>7
<1>9. delivered.t <= x /\ x <= y /\ delivered'.t = y
  BY <1>1, <1>3, <1>5
<1>. HIDE DEF x, y
<1>. QED
  BY <1>6, <1>8, <1>9

LEMMA DeliverIsPromised ==
  ASSUME IInv, Deliver
  PROVE  Reads!DeliverSample
<1>1. /\ MemTypes /\ SamplesOwn /\ pc = "deliver" /\ pc' = "idle"
      /\ delivered'.readings = samples /\ delivered'.upto = sent
  BY DEF IInv, Deliver
<1>2. /\ addresses \in AddressLists /\ Len(samples) = Len(addresses)
      /\ samples \in Seq(Readings)
      /\ DOMAIN addresses = 1 .. Len(samples)
  BY <1>1, ExchangeAssumption DEF MemTypes
<1>3. First = sent - Len(samples) - 0
  BY <1>1 DEF First, Awaiting
<1>4. First = sent - Len(addresses)
  <2>1. sent \in Nat /\ Len(samples) \in Nat
    BY <1>1, <1>2 DEF MemTypes, TypeOK
  <2>. QED
    BY <1>2, <1>3, <2>1
<1>5. delivered.upto <= First /\ delivered.upto \in Nat /\ First \in Int
  <2>1. sent \in Nat /\ Len(samples) \in Nat
    BY <1>1, <1>2 DEF MemTypes, TypeOK
  <2>2. First \in Int
    BY <1>3, <2>1
  <2>. QED
    BY <1>1, <2>2 DEF SamplesOwn, MemTypes
<1>6. samples = [i \in DOMAIN addresses |-> Reads!Reading(addresses[i], First + i)]
  <2>1. \A i \in DOMAIN addresses :
          samples[i] = Reads!Reading(addresses[i], First + i)
    BY <1>1, <1>2 DEF SamplesOwn, Reads!Reading
  <2>2. samples = [i \in 1 .. Len(samples) |-> samples[i]]
    BY <1>2
  <2>3. samples = [i \in DOMAIN addresses |-> samples[i]]
    BY <1>2, <2>2
  <2>. QED
    BY <2>1, <2>3
<1>7. Phase = "ready" /\ Phase' = Phase
  BY <1>1 DEF Phase
<1>8. delivered'.t >= delivered.t
  BY DeliveredTime
<1>9. First >= delivered.upto
  BY <1>5
<1>10. \E list \in AddressLists :
         LET first == delivered'.upto - Len(list) IN
         /\ delivered'.readings = [i \in DOMAIN list |-> Reads!Reading(list[i], first + i)]
         /\ first >= delivered.upto
  BY <1>1, <1>2, <1>4, <1>6, <1>9
<1>. QED
  BY <1>7, <1>8, <1>10 DEF Reads!DeliverSample

LEMMA StepIsPromised ==
  ASSUME IInv, IInv', [Next]_vars
  PROVE  [Reads!Next]_(Reads!readsVars)
<1>1. CASE PacketSent
  <2>1. delivered' = delivered
    BY <1>1 DEF PacketSent
  <2>2. \/ Phase = "setup" /\ Phase' \in {"setup", "ready"}
        \/ Phase = "ready" /\ Phase' = "ready"
    BY <1>1 DEF PacketSent, Packets, Phase
  <2>. QED
    BY <2>1, <2>2 DEF Reads!Next, Reads!GetReady, Reads!readsVars
<1>2. CASE Handshake
  <2>1. delivered' = delivered
    BY <1>2 DEF Handshake
  <2>2. Phase = "setup" /\ Phase' \in {"setup", "failed"}
    BY <1>2 DEF Handshake, Phase
  <2>. QED
    BY <2>1, <2>2 DEF Reads!Next, Reads!Fail, Reads!readsVars
<1>3. CASE HandleReply
  <2>1. delivered' = delivered
    BY <1>3 DEF HandleReply
  <2>2. Phase = "ready" /\ Phase' = "ready"
    BY <1>3 DEF HandleReply, NextAfter, Phase
  <2>. QED
    BY <2>1, <2>2 DEF Reads!readsVars
<1>4. CASE Deliver
  BY <1>4, DeliverIsPromised DEF Reads!Next
<1>5. CASE Untimed
  <2>1. delivered' = delivered
    BY <1>5 DEF Untimed
  <2>2. Phase' = Phase \/ Phase' = "failed"
    BY <1>5 DEF Untimed, Phase
  <2>. QED
    BY <2>1, <2>2 DEF Reads!Next, Reads!Fail, Reads!readsVars
<1>. QED
  BY <1>1, <1>2, <1>3, <1>4, <1>5, StepKinds

\* The exchange keeps the promises of MemoryReads: each reading of a sample is the
\* answer to the request made for it, addresses keep their order, the requests of
\* a sample come after those of earlier ones, and time does not go back.
THEOREM ExchangeRefinement == Spec => ImplementsMemoryReads
<1>1. Init => Reads!Init
  BY DEF Init, Reads!Init, Reads!NoSample, Phase
<1>2. IInv /\ [Next]_vars => IInv'
  BY InvStep
<1>3. IInv /\ IInv' /\ [Next]_vars => [Reads!Next]_(Reads!readsVars)
  BY StepIsPromised
<1>. QED
  BY <1>1, <1>2, <1>3, InvInit, PTL DEF Spec, ImplementsMemoryReads, Reads!Spec

=============================================================================
