------------------------------ MODULE GDBRemote -------------------------------
(***************************************************************************)
(* GDBRemote of src/gdbremote.rs: packets of GDB's remote protocol on a    *)
(* timestamped stream.                                                     *)
(*                                                                         *)
(* A byte is an acknowledgement `+`, the `$` and contents of a packet, or  *)
(* its `#` and checksum: packets may arrive in pieces and several at once. *)
(* TCP does not corrupt them, so checksums match.  The times of arrival    *)
(* kept in data_buffer are ghosts.                                         *)
(***************************************************************************)
EXTENDS TimestampedStream

VARIABLES
  data_buffer,
  last_rx_packet_timestamp

remote == <<data_buffer, last_rx_packet_timestamp>>

Packet(contents) == <<[ch |-> "$", of |-> contents], [ch |-> "#", of |-> contents]>>

Ack(contents) == <<[ch |-> "+", of |-> contents]>>

\* eat_ack and eat_packet, which parse_gdb_packet lets succeed only on a whole
\* packet at the front of the buffer.
AckInFront == data_buffer # <<>> /\ data_buffer[1].byte.ch = "+"

PacketInFront ==
  Len(data_buffer) >= 2 /\ data_buffer[1].byte.ch = "$" /\ data_buffer[2].byte.ch = "#"

\* read_response() can return, and what it returns.
ResponseInFront == AckInFront \/ PacketInFront

Response == data_buffer[1].byte.of

TakeResponse ==
  /\ ResponseInFront
  /\ data_buffer' = SubSeq(data_buffer, IF AckInFront THEN 2 ELSE 3, Len(data_buffer))
  /\ UNCHANGED <<stream, last_rx_packet_timestamp>>

\* Faulty variant of `StartsResponse`: acknowledgements are forgotten.
StartsPacket(bytes) == \E i \in DOMAIN bytes : bytes[i].byte.ch = "$"

StartsResponse(bytes) == \E i \in DOMAIN bytes : bytes[i].byte.ch \in {"$", "+"}

\* Faulty variant of `RxTimestamp`: the first segment's time is kept.
RxTimestampOnce(bytes, t) ==
  IF StartsResponse(bytes) /\ last_rx_packet_timestamp = NoTime THEN t
  ELSE last_rx_packet_timestamp

\* A segment in which a response starts gives its time to the responses.
RxTimestamp(bytes, t) ==
  IF StartsResponse(bytes) THEN t ELSE last_rx_packet_timestamp

\* One turn of read_response that finds no response and reads some bytes.
feed_buffer_from_stream ==
  /\ ~ResponseInFront
  /\ receive
  /\ data_buffer' = data_buffer \o inbox
  /\ last_rx_packet_timestamp' = RxTimestamp(inbox, ReceiveTimestamp)

\* The turn that fails: no more bytes in time, or never again.
ReadFails ==
  /\ ~ResponseInFront
  /\ UNCHANGED <<stream, remote>>

-----------------------------------------------------------------------------

RemoteTypeOK(Contents) ==
  LET Bytes == [ch : {"+", "$", "#"}, of : Contents] IN
  /\ StreamTypeOK(Bytes)
  /\ data_buffer \in Seq([byte : Bytes, at : Times \cup {NoTime}])
  /\ last_rx_packet_timestamp \in Times \cup {NoTime}

=============================================================================
