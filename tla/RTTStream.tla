------------------------------ MODULE RTTStream -------------------------------
(***************************************************************************)
(* The bytes of the scope channel, from the ring buffer in the target      *)
(* through OpenOCD's RTT server and its TCP connection to sampler_thread   *)
(* of src/sampler/rttsampler.rs, which cuts them into packets.  Nothing in *)
(* the stream marks where a packet begins: synchronize_rtt_channel has to  *)
(* leave the reader at such a place.                                       *)
(*                                                                         *)
(* A byte is the number of its packet and its position in it.  The target  *)
(* writes a packet as a whole or, when there is no room, not at all.  An   *)
(* earlier client may have left the rest of a packet in the ring.          *)
(***************************************************************************)
EXTENDS Integers, Sequences

CONSTANTS
  Size,        \* bytes of a packet
  Capacity,    \* bytes of the ring buffer
  MaxWrites,   \* bound: packets written
  SlowPolling  \* OpenOCD may leave the ring unpolled for the 100 ms for which
               \* synchronize_rtt_channel waits for bytes: the polling interval
               \* is not shorter, or OpenOCD is busy, say with a halt that has
               \* timed out

ASSUME StreamAssumption ==
  /\ Size \in Nat \ {0} /\ Capacity \in Nat /\ MaxWrites \in Nat
  /\ SlowPolling \in BOOLEAN

VARIABLES
  running,  \* the target runs
  ring,     \* bytes in the target's ring buffer
  writes,   \* packets written so far
  client,   \* the sampler's connection to the RTT server is accepted
  rttnet,   \* bytes on the connection, not read by the sampler
  quiet,    \* the ring was found empty since the sampler began to wait
  sync,     \* "before", "drain", "resume", "loop" or "ended"
  buffer,   \* bytes read and not cut
  decoded   \* the bytes of the last packet cut

target    == <<running, ring, writes>>
server    == <<client, rttnet, quiet>>
reader    == <<sync, buffer, decoded>>
rttStream == <<target, server, reader>>

PacketBytes(n) == [i \in 1 .. Size |-> [of |-> n, pos |-> i]]

DropFirst(n, s) == SubSeq(s, n + 1, Len(s))

StreamInit ==
  /\ running \in BOOLEAN
  /\ \E n \in 0 .. Size - 1 :
       n <= Capacity /\ ring = SubSeq(PacketBytes(0), Size - n + 1, Size)
  /\ writes = 0
  /\ client = FALSE /\ rttnet = <<>> /\ quiet = FALSE
  /\ sync = "before" /\ buffer = <<>> /\ decoded = <<>>

-----------------------------------------------------------------------------
(* The target and OpenOCD.                                                 *)

TargetWrites ==
  /\ running /\ writes < MaxWrites
  /\ Len(ring) + Size <= Capacity
  /\ ring' = ring \o PacketBytes(writes + 1)
  /\ writes' = writes + 1
  /\ UNCHANGED <<running, server, reader>>

SetRunning(r) ==
  /\ running' = r
  /\ UNCHANGED <<ring, writes, server, reader>>

Accept ==
  /\ ~client
  /\ client' = TRUE
  /\ UNCHANGED <<target, rttnet, quiet, reader>>

\* Only a channel with a client is read, up to where the ring wraps around.
Poll ==
  /\ client
  /\ \/ /\ ring = <<>>
        /\ quiet' = TRUE
        /\ UNCHANGED <<ring, rttnet>>
     \/ \E n \in 1 .. Len(ring) :
          /\ rttnet' = rttnet \o SubSeq(ring, 1, n)
          /\ ring' = DropFirst(n, ring)
          /\ UNCHANGED quiet
  /\ UNCHANGED <<running, writes, client, reader>>

-----------------------------------------------------------------------------
(* synchronize_rtt_channel, once the halt command is done, and the loop.   *)

BeginDrain ==
  /\ sync = "before"
  /\ sync' = "drain"
  /\ quiet' = FALSE
  /\ UNCHANGED <<target, client, rttnet, buffer, decoded>>

\* Faulty variant of `DrainRead`: a read of no bytes is not an error.
DrainReadOn ==
  /\ sync = "drain"
  /\ \E n \in 0 .. Len(rttnet) : rttnet' = DropFirst(n, rttnet)
  /\ quiet' = FALSE
  /\ UNCHANGED <<target, client, reader>>

\* rtt_channel.read returns some bytes; they are thrown away.
DrainRead ==
  /\ sync = "drain"
  /\ \E n \in 1 .. Len(rttnet) : rttnet' = DropFirst(n, rttnet)
  /\ quiet' = FALSE
  /\ UNCHANGED <<target, client, reader>>

\* Faulty variant of `NothingComes`: the first moment without bytes will do.
NothingThere == rttnet = <<>>

\* Faulty variant of `NothingComes`: the read has no timeout.
NoTimeout == FALSE

\* No bytes for 100 ms, in which OpenOCD has accepted the connection and, unless it
\* polls too slowly, polled: then the ring was empty.  The code measures the time
\* only; that a poll falls into it is an assumption.
NothingComes == rttnet = <<>> /\ (quiet \/ SlowPolling)

DrainEnds ==
  /\ sync = "drain"
  /\ NothingComes
  /\ sync' = "resume"
  /\ UNCHANGED <<target, server, buffer, decoded>>

BeginLoop ==
  /\ sync = "resume"
  /\ sync' = "loop"
  /\ UNCHANGED <<target, server, buffer, decoded>>

\* The read of an iteration ...
Read ==
  /\ sync = "loop" /\ Len(buffer) < Size
  /\ \E n \in 1 .. Len(rttnet) :
       /\ buffer' = buffer \o SubSeq(rttnet, 1, n)
       /\ rttnet' = DropFirst(n, rttnet)
  /\ UNCHANGED <<target, client, quiet, sync, decoded>>

\* Faulty variant of `Uncut`: what follows the packet is thrown away.
UncutNone == <<>>

Uncut == DropFirst(Size, buffer)

\* ... and one turn of `while buffer.len() >= packet_size`.
Cut ==
  /\ sync = "loop" /\ Len(buffer) >= Size
  /\ decoded' = SubSeq(buffer, 1, Size)
  /\ buffer' = Uncut
  /\ UNCHANGED <<target, server, sync>>

\* Stop, or an error anywhere.
EndReading ==
  /\ sync # "ended"
  /\ sync' = "ended"
  /\ UNCHANGED <<target, server, buffer, decoded>>

StreamNext ==
  \/ TargetWrites
  \/ \E r \in BOOLEAN : SetRunning(r)
  \/ Accept
  \/ Poll
  \/ BeginDrain
  \/ DrainRead
  \/ DrainEnds
  \/ BeginLoop
  \/ Read
  \/ Cut
  \/ EndReading

StreamSpec == StreamInit /\ [][StreamNext]_rttStream

-----------------------------------------------------------------------------

Bytes == [of : Nat, pos : 1 .. Size]

\* Every variable keeps its type, and the ring its capacity.
StreamTypeOK ==
  /\ running \in BOOLEAN /\ client \in BOOLEAN /\ quiet \in BOOLEAN
  /\ ring \in Seq(Bytes) /\ Len(ring) <= Capacity
  /\ rttnet \in Seq(Bytes) /\ buffer \in Seq(Bytes) /\ decoded \in Seq(Bytes)
  /\ writes \in 0 .. MaxWrites
  /\ sync \in {"before", "drain", "resume", "loop", "ended"}

\* Everything on its way to the reader.
InFlight == buffer \o rttnet \o ring

\* Once synchronised, what the reader has not cut begins where a packet does,
\* however the bytes are split by the polls, the connection and the reads, and
\* whether the target stood still or not.
StreamAligned ==
  sync \in {"resume", "loop"} /\ InFlight # <<>> => InFlight[1].pos = 1

\* A packet cut from the stream is one the target wrote, ...
PacketsAreWhole == decoded # <<>> => decoded = PacketBytes(decoded[1].of)

\* ... and of those that fitted into the ring none is lost, repeated or
\* overtaken from then on.
NothingIsLost ==
  [][decoded' # decoded /\ decoded # <<>> =>
       decoded'[1].of = decoded[1].of + 1]_rttStream

\* What the drain of a target that stands still has before it: each byte is polled
\* and read, and the polls that follow find nothing.
Backlog == 3 * Len(ring) + 2 * Len(rttnet) + (IF quiet THEN 0 ELSE 1)

\* It only gets less, so the drain cannot go on for ever.
DrainProgress ==
  [][sync = "drain" /\ sync' = "drain" /\ ~running =>
       Backlog' < Backlog \/ UNCHANGED <<ring, rttnet, quiet>>]_rttStream

=============================================================================
