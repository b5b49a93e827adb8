----------------------------- MODULE MemExchange ------------------------------
(***************************************************************************)
(* The exchange of the memory sampler (src/sampler/memsampler.rs) with     *)
(* OpenOCD's GDB server: the handshake, the continue command, and the      *)
(* reads of each iteration.  MemSampler has the rest of the thread's loop  *)
(* and takes an iteration's reads for one step, as MemoryReads does.       *)
(*                                                                         *)
(* `pc` says where the thread is:                                          *)
(*   "hello", "QAck", "QOk", "reply"   in read_response                    *)
(*   "QStart", "continue", "request"   in send_packet                      *)
(*   "idle", "deliver"                 between iterations, and at the send *)
(*                                     of a sample                         *)
(*   "failed"                          sampler_thread has returned         *)
(***************************************************************************)
EXTENDS GDBRemote

CONSTANTS
  AddressLists,  \* values of active_memory_addresses
  MaxIterations, \* bound: iterations that sample
  MaxChatter     \* bound: packets OpenOCD sends unasked

ASSUME ExchangeAssumption ==
  /\ \A l \in AddressLists : Len(l) \in Nat \ {0} /\ DOMAIN l = 1 .. Len(l)
  /\ MaxIterations \in Nat /\ MaxChatter \in Nat

VARIABLES
  pc,
  addresses,      \* active_memory_addresses in this iteration
  samples, requested_at, received_at,  \* locals of the iteration
  start,          \* SystemTime::now() before the loop
  delivered,      \* the last sample sent: [t, readings, upto]
  sent,           \* requests for memory sent so far
  stamped_by,     \* type of the response received_at was taken from
  iterations,
  requests,       \* client -> OpenOCD, not handled yet
  outgoing,       \* bytes OpenOCD has written and that have not arrived
  resumed,        \* OpenOCD has let the target run
  chatter

sampler == <<pc, addresses, samples, requested_at, received_at, start,
             delivered, sent, stamped_by, iterations>>
openocd == <<requests, outgoing, resumed, chatter>>
vars    == <<stream, remote, sampler, openocd>>

None == "None"

Plain(type) == [type |-> type, value |-> None]

\* The reply to the n-th request.  An error reply like E0E is no exception: it
\* consists of hexadecimal digits too and is taken for a value.
Answer(a, n) == [type |-> "answer", value |-> [addr |-> a, n |-> n]]

Init ==
  /\ \E first \in {<<>>, Ack(Plain("hello"))} :
       /\ ConnectedWith(first)
       /\ outgoing = IF first = <<>> THEN Ack(Plain("hello")) ELSE <<>>
  /\ data_buffer = <<>> /\ last_rx_packet_timestamp = NoTime
  /\ pc = "hello"
  /\ addresses = <<>> /\ samples = <<>>
  /\ requested_at = NoTime /\ received_at = NoTime /\ start = 0
  /\ delivered = [t |-> 0, readings |-> <<>>, upto |-> 0]
  /\ sent = 0 /\ stamped_by = None /\ iterations = 0
  /\ requests = <<>>
  /\ resumed = FALSE /\ chatter = 0

-----------------------------------------------------------------------------
(* sampler_thread.                                                         *)

iteration == <<addresses, samples, requested_at, received_at, stamped_by>>

Packets == {"QStart", "continue", "request"}

\* send_packet, up to sendmsg.
SendPacket ==
  /\ pc \in Packets
  /\ sendmsg
  /\ requests' = Append(requests,
       IF pc = "request" THEN [op |-> "m", addr |-> addresses[Len(samples) + 1],
                               n |-> sent + 1]
       ELSE [op |-> pc, addr |-> None, n |-> 0])
  /\ sent' = IF pc = "request" THEN sent + 1 ELSE sent
  /\ UNCHANGED <<remote, pc, iteration, start, delivered, iterations, outgoing,
                 resumed, chatter>>

\* get_or_insert
FirstOf(old, t) == IF old = NoTime THEN t ELSE old

\* send_packet returns; its time is only used for reads.
PacketSent ==
  /\ pc \in Packets
  /\ requested_at' = IF pc = "request" THEN FirstOf(requested_at, TxTimestamp)
                     ELSE requested_at
  /\ pc' = CASE pc = "QStart"   -> "QAck"
             [] pc = "continue" -> "idle"
             [] pc = "request"  -> "reply"
  /\ get_tx_timestamp
  /\ UNCHANGED <<remote, addresses, samples, received_at, start, delivered, sent,
                 stamped_by, iterations, openocd>>

SendFails ==
  /\ pc \in Packets /\ sent_at = NoTime
  /\ pc' = "failed"
  /\ UNCHANGED <<stream, remote, iteration, start, delivered, sent, iterations,
                 openocd>>

Reading == pc \in {"hello", "QAck", "QOk", "reply"}

FeedBuffer ==
  /\ Reading
  /\ feed_buffer_from_stream
  /\ UNCHANGED <<sampler, openocd>>

ReadError ==
  /\ Reading
  /\ ReadFails
  /\ pc' = "failed"
  /\ UNCHANGED <<iteration, start, delivered, sent, iterations, openocd>>

\* The initial ACK, and QStartNoAckMode's ACK and OK; any other response ends
\* the thread.  The clock is read before the loop starts.
Handshake ==
  /\ pc \in {"hello", "QAck", "QOk"}
  /\ TakeResponse
  /\ LET expected == IF pc = "QOk" THEN ~AckInFront /\ Response.type = "OK"
                     ELSE AckInFront IN
       pc' = IF ~expected THEN "failed"
             ELSE CASE pc = "hello" -> "QStart"
                    [] pc = "QAck"  -> "QOk"
                    [] pc = "QOk"   -> "continue"
  /\ start' = IF pc = "QOk" THEN now ELSE start
  /\ UNCHANGED <<iteration, delivered, sent, iterations, openocd>>

\* An iteration with addresses; without any, nothing happens here.
BeginIteration ==
  /\ pc = "idle" /\ iterations < MaxIterations
  /\ \E list \in AddressLists : addresses' = list
  /\ iterations' = iterations + 1
  /\ pc' = "request"
  /\ UNCHANGED <<stream, remote, samples, requested_at, received_at, stamped_by,
                 start, delivered, sent, openocd>>

parse_hex_value(response) == response.type = "answer"

\* Faulty variant of `NextAfter`: an unexpected packet ends the wait for a reply.
NextAfterAny(response, got) ==
  IF Len(got) = Len(addresses) THEN "deliver" ELSE "request"

\* The reply loop goes on until a value comes, the next address follows.
NextAfter(response, got) ==
  IF AckInFront \/ ~parse_hex_value(response) THEN "reply"
  ELSE IF Len(got) = Len(addresses) THEN "deliver" ELSE "request"

\* One turn of the reply loop: every response may set received_at, a value is
\* kept, `O` packets are ignored, others are logged.
HandleReply ==
  /\ pc = "reply"
  /\ TakeResponse
  /\ received_at' = FirstOf(received_at, last_rx_packet_timestamp)
  /\ stamped_by' = IF received_at = NoTime THEN Response.type ELSE stamped_by
  /\ samples' = IF ~AckInFront /\ parse_hex_value(Response)
                THEN Append(samples, [addr  |-> addresses[Len(samples) + 1],
                                      value |-> Response.value])
                ELSE samples
  /\ pc' = NextAfter(Response, samples')
  /\ UNCHANGED <<addresses, requested_at, start, delivered, sent, iterations,
                 openocd>>

\* duration_since(start), 0 for an earlier time.
SinceStart(t) == IF t < start THEN 0 ELSE t - start

\* Faulty variant of `Deliver`: the readings are kept for the next sample.
DeliverAndKeep ==
  /\ pc = "deliver"
  /\ delivered' = [t |-> (SinceStart(requested_at) + SinceStart(received_at)) \div 2,
                   readings |-> samples, upto |-> sent]
  /\ pc' = "idle"
  /\ addresses' = <<>>
  /\ requested_at' = NoTime /\ received_at' = NoTime /\ stamped_by' = None
  /\ UNCHANGED <<stream, remote, samples, start, sent, iterations, openocd>>

\* sampled_tx.send; the locals of the iteration end.
Deliver ==
  /\ pc = "deliver"
  /\ delivered' = [t |-> (SinceStart(requested_at) + SinceStart(received_at)) \div 2,
                   readings |-> samples, upto |-> sent]
  /\ pc' = "idle"
  /\ samples' = <<>> /\ addresses' = <<>>
  /\ requested_at' = NoTime /\ received_at' = NoTime /\ stamped_by' = None
  /\ UNCHANGED <<stream, remote, start, sent, iterations, openocd>>

-----------------------------------------------------------------------------
(* OpenOCD's GDB server and the network.                                   *)

\* The oldest request.  Requests are acknowledged until QStartNoAckMode is.
ServerHandles ==
  /\ requests # <<>>
  /\ requests' = Tail(requests)
  /\ LET r == Head(requests) IN
       \/ /\ r.op = "QStart"
          /\ outgoing' = outgoing \o Ack(Plain("QAck")) \o Packet(Plain("OK"))
          /\ UNCHANGED resumed
       \/ /\ r.op = "continue"
          /\ resumed' = TRUE
          /\ UNCHANGED outgoing
       \/ /\ r.op = "m"
          /\ outgoing' = outgoing \o Packet(Answer(r.addr, r.n))
          /\ UNCHANGED resumed
  /\ UNCHANGED <<stream, remote, sampler, chatter>>

\* Keep-alive packets while the target runs, and the reply to `continue` if the
\* target stops after all.
ServerChatters ==
  /\ resumed /\ chatter < MaxChatter
  /\ \E type \in {"O", "T05"} : outgoing' = outgoing \o Packet(Plain(type))
  /\ chatter' = chatter + 1
  /\ UNCHANGED <<stream, remote, sampler, requests, resumed>>

\* TCP delivers in order, in pieces of any size.
Delivery ==
  /\ \E n \in 1 .. Len(outgoing) :
       /\ Arrive(SubSeq(outgoing, 1, n))
       /\ outgoing' = SubSeq(outgoing, n + 1, Len(outgoing))
  /\ UNCHANGED <<remote, sampler, requests, resumed, chatter>>

\* A thread that has failed closes the connection.
Environment ==
  /\ pc # "failed"
  /\ \/ ServerHandles
     \/ ServerChatters
     \/ Delivery
     \/ (Tick \/ Acknowledge) /\ UNCHANGED <<remote, sampler, openocd>>

SamplerThread ==
  \/ SendPacket
  \/ PacketSent
  \/ SendFails
  \/ FeedBuffer
  \/ ReadError
  \/ Handshake
  \/ BeginIteration
  \/ HandleReply
  \/ Deliver

Next == SamplerThread \/ Environment

Spec == Init /\ [][Next]_vars

-----------------------------------------------------------------------------

Contents ==
  [type : {"hello", "QAck", "OK", "O", "T05"}, value : {None}] \cup
  [type : {"answer"},
   value : [addr : UNION {{l[i] : i \in DOMAIN l} : l \in AddressLists}, n : Nat]]

\* Every variable keeps its type.
TypeOK ==
  /\ RemoteTypeOK(Contents)
  /\ pc \in {"hello", "QAck", "QOk", "reply", "QStart", "continue", "request",
             "idle", "deliver", "failed"}
  /\ addresses \in AddressLists \cup {<<>>}
  /\ Len(samples) <= Len(addresses)
  /\ {requested_at, received_at} \subseteq Times \cup {NoTime}
  /\ start \in Times /\ delivered.t \in Times
  /\ sent \in Nat /\ iterations \in 0 .. MaxIterations
  /\ chatter \in 0 .. MaxChatter /\ resumed \in BOOLEAN

\* The two expect() in read_response: a response has always been preceded by a
\* segment whose time was kept.
ExpectNeverPanics ==
  ResponseInFront => last_rx_packet_timestamp # NoTime

\* The time returned with a response is one at which its first byte was there,
\* whatever pieces it came in and whatever came with it.
ResponseTimeIsPlausible ==
  ResponseInFront =>
    /\ data_buffer[1].at <= last_rx_packet_timestamp
    /\ last_rx_packet_timestamp <= now

IsAnswer(byte) == byte.of.type = "answer"

\* Outside the reply loop no answer is unread, on its way or owed: the reads
\* never fall out of step, in spite of unasked packets and of replies in pieces.
ReadsInStep ==
  pc # "reply" /\ sent_at = NoTime /\ pc # "failed" =>
    /\ \A i \in DOMAIN data_buffer : ~IsAnswer(data_buffer[i].byte)
    /\ \A i \in DOMAIN inbox : ~IsAnswer(inbox[i].byte)
    /\ \A i \in DOMAIN outgoing : ~IsAnswer(outgoing[i])
    /\ \A i \in DOMAIN requests : requests[i].op # "m"

Phase ==
  CASE pc = "failed" -> "failed"
    [] pc \in {"hello", "QStart", "QAck", "QOk", "continue"} -> "setup"
    [] OTHER -> "ready"

Reads == INSTANCE MemoryReads WITH phase <- Phase

\* The exchange keeps the promises of MemoryReads: every reading of a sample is
\* the answer to its own request, and time does not go back.
ImplementsMemoryReads == Reads!Spec

-----------------------------------------------------------------------------
(* What the code says and the runs refute.                                 *)

\* The comment in the reply loop: `O` packets are ignored, everything is fine
\* if one comes.  Then the time of a sample is not that of an `O` packet.
KeepAlivesAreIgnored == stamped_by # "O"

\* The test of send in ttstream.rs: the time of a send is not before the send.
SendTimeIsOwn == sent_at # NoTime => TxTimestamp >= sent_at

=============================================================================
