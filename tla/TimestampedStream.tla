-------------------------- MODULE TimestampedStream ---------------------------
(***************************************************************************)
(* TimestampedTcpStream of src/ttstream.rs: a TCP connection whose sends   *)
(* and receives come with a time.                                          *)
(*                                                                         *)
(* With timestamping enabled, a receive has the time at which the kernel   *)
(* got the last byte it returns.  The time of a send is that of its        *)
(* acknowledgement (SOF_TIMESTAMPING_TX_ACK), which the kernel puts on the *)
(* error queue when it comes; `send` looks at the queue once, just after   *)
(* sendmsg.  Without timestamping both read the clock.                     *)
(*                                                                         *)
(* A byte is whatever its reader tells apart (GDBRemote).                  *)
(***************************************************************************)
EXTENDS Integers, Sequences

CONSTANT MaxNow  \* bound: readings of the clock

ASSUME StreamAssumption == MaxNow \in Nat

VARIABLES
  timestamping_enabled,  \* the socket option was accepted
  now,                   \* the system clock
  inbox,        \* received by the kernel and not read: [byte, at]
  unacked,      \* sends the peer's kernel has not acknowledged
  errqueue,     \* times of the acknowledgements not read yet
  sent_at       \* fallback_timestamp of the send under way, or NoTime

stream == <<timestamping_enabled, now, inbox, unacked, errqueue, sent_at>>

NoTime == -1

Times == 0 .. MaxNow

\* connect().  Bytes that came before the option was set carry no time.
ConnectedWith(bytes) ==
  /\ timestamping_enabled \in BOOLEAN
  /\ now = 0
  /\ inbox = [i \in DOMAIN bytes |-> [byte |-> bytes[i], at |-> NoTime]]
  /\ unacked = 0 /\ errqueue = <<>> /\ sent_at = NoTime

-----------------------------------------------------------------------------
(* The program's calls.                                                    *)

\* receive(): all bytes there are (a reader's buffer that is too short splits
\* them as the network may have done), and the time that comes with them.
ReceiveTimestamp ==
  LET at == inbox[Len(inbox)].at IN
  IF timestamping_enabled /\ at # NoTime THEN at ELSE now

receive ==
  /\ inbox # <<>>
  /\ inbox' = <<>>
  /\ UNCHANGED <<timestamping_enabled, now, unacked, errqueue, sent_at>>

\* send(), first half: sendmsg and the reading of the clock that follows it.
sendmsg ==
  /\ sent_at = NoTime
  /\ sent_at' = now
  /\ unacked' = IF timestamping_enabled THEN unacked + 1 ELSE 0
  /\ UNCHANGED <<timestamping_enabled, now, inbox, errqueue>>

\* send(), second half: the oldest time on the error queue, else the fallback.
TxTimestamp == IF errqueue # <<>> THEN Head(errqueue) ELSE sent_at

get_tx_timestamp ==
  /\ sent_at # NoTime
  /\ errqueue' = IF errqueue # <<>> THEN Tail(errqueue) ELSE <<>>
  /\ sent_at' = NoTime
  /\ UNCHANGED <<timestamping_enabled, now, inbox, unacked>>

-----------------------------------------------------------------------------
(* The clock, and the kernels of both ends.                                *)

Tick ==
  /\ now < MaxNow
  /\ now' = now + 1
  /\ UNCHANGED <<timestamping_enabled, inbox, unacked, errqueue, sent_at>>

\* One acknowledgement may cover several sends.
Acknowledge ==
  /\ \E k \in 1 .. unacked :
       /\ unacked' = unacked - k
       /\ errqueue' = errqueue \o [i \in 1 .. k |-> now]
  /\ UNCHANGED <<timestamping_enabled, now, inbox, sent_at>>

Arrive(bytes) ==
  /\ inbox' = inbox \o [i \in DOMAIN bytes |-> [byte |-> bytes[i], at |-> now]]
  /\ UNCHANGED <<timestamping_enabled, now, unacked, errqueue, sent_at>>

-----------------------------------------------------------------------------

StreamTypeOK(Bytes) ==
  /\ timestamping_enabled \in BOOLEAN
  /\ now \in Times /\ sent_at \in Times \cup {NoTime}
  /\ inbox \in Seq([byte : Bytes, at : Times \cup {NoTime}])
  /\ unacked \in Nat /\ errqueue \in Seq(Times)

=============================================================================
