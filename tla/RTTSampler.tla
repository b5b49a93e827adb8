----------------------------- MODULE RTTSampler ------------------------------
(***************************************************************************)
(* sampler_thread of src/sampler/rttsampler.rs, with the byte stream       *)
(* reduced to the packets an iteration completes.  The thread keeps        *)
(* polling while paused, and an iteration that took Stop or Pause still    *)
(* sends every packet it read, since `status` changes only at its end.     *)
(***************************************************************************)
EXTENDS Sampler

CONSTANTS
  NRtt,       \* fields of the scope packet: ids 0..NRtt-1
  MaxBatch,   \* bound: packets completed by one read
  MaxNotes    \* bound: a rate report is sent while fewer are waiting

ASSUME RTTAssumption ==
  /\ NRtt \in Nat /\ 0 .. NRtt - 1 \subseteq Ids
  /\ MaxBatch \in Nat /\ MaxNotes \in Nat

RTTAvailable == [i \in 1 .. NRtt |-> i - 1]

RTTSample(t) == [t |-> t, ids |-> Once(0 .. NRtt - 1)]

\* Second Telnet session, rtt server start, TCP connection ("connected"),
\* synchronisation with the target halted ("synchronized").
RTTSetup ==
  /\ kind = "RTT" /\ tpc = "setup"
  /\ \/ tpc' = "err" /\ UNCHANGED notifications
     \/ tpc' = "err" /\ Notify(Info)
     \/ /\ tpc' = "loop"
        /\ notifications' = IF handle THEN notifications \o <<Info, Info>>
                                      ELSE notifications
  /\ UNCHANGED <<commands, sampled, owner, status, maybe_new_status, active,
                 outbox, clock>>

RTTInitializing ==
  /\ AtLoop("RTT", {"Initializing"})
  /\ maybe_new_status' = "Sampling"
  /\ tpc' = "status"
  /\ UNCHANGED <<channels, owner, status, active, outbox, clock>>

\* Faulty variant of `Forwards`: packets are sent in every status.
ForwardsAlways == TRUE

\* Packets are decoded and sent only if the iteration began in Sampling.
Forwards == status = "Sampling"

\* One command at most, then one read: nothing (timeout, error, or no packet
\* completed), n packets stamped by the target, or a failure (socket closed,
\* packet structure that cannot be decoded or has no timestamp, which shows at
\* the first packet).  While paused the packets are consumed and dropped.
RTTPoll ==
  /\ AtLoop("RTT", {"Sampling", "Paused"})
  /\ TakeCommand \/ NoCommand
  /\ \/ \E n \in 0 .. MaxBatch :
          /\ clock + n <= MaxTime
          /\ clock' = clock + n
          /\ IF Forwards /\ n > 0
             THEN /\ \E ts \in [1 .. n -> 1 .. MaxTime] :
                       outbox' = [i \in 1 .. n |-> RTTSample(ts[i])]
                  /\ tpc' = "send"
             ELSE /\ tpc' = "rate"
                  /\ UNCHANGED outbox
     \/ /\ tpc' = "err"
        /\ UNCHANGED <<outbox, clock>>
  /\ UNCHANGED <<notifications, sampled, owner, status>>

\* Once per second the measured rate is reported.
RTTRate ==
  /\ tpc = "rate"
  /\ \/ UNCHANGED notifications
     \/ Len(notifications) < MaxNotes /\ Notify(Info)
  /\ tpc' = "status"
  /\ UNCHANGED <<commands, sampled, owner, status, maybe_new_status, active,
                 outbox, clock>>

\* rtt server stop; when it fails the thread reports an error after having
\* announced Terminated.
RTTTerminated ==
  /\ AtLoop("RTT", {"Terminated"})
  /\ tpc' \in {"exit", "err"}
  /\ UNCHANGED <<channels, owner, status, maybe_new_status, active, outbox,
                 clock>>

RTTNext ==
  \/ RTTSetup
  \/ RTTInitializing
  \/ RTTPoll
  \/ RTTRate
  \/ Disconnected("RTT", {"Sampling", "Paused"})
  \/ RTTTerminated

=============================================================================
