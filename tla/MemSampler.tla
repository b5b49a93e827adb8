----------------------------- MODULE MemSampler ------------------------------
(***************************************************************************)
(* sampler_thread of src/sampler/memsampler.rs, with the GDB exchange      *)
(* reduced to its outcome: every read of the iteration answered, or one of *)
(* them failed (timeout, closed stream).  An iteration in Sampling takes   *)
(* at most one command and then always samples, also when the command was  *)
(* Pause or Stop.                                                          *)
(***************************************************************************)
EXTENDS Sampler

\* maximize_adapter_speed (its failure is ignored), GDBRemote::connect, the
\* initial ACK and QStartNoAckMode.
MemSetup ==
  /\ kind = "MemorySampling" /\ tpc = "setup"
  /\ tpc' \in {"loop", "err"}
  /\ UNCHANGED <<channels, owner, status, maybe_new_status, active, outbox,
                 clock>>

\* The continue packet is sent; the send may fail.
MemInitializing ==
  /\ AtLoop("MemorySampling", {"Initializing"})
  /\ \/ maybe_new_status' = "Sampling" /\ tpc' = "status"
     \/ tpc' = "err" /\ UNCHANGED maybe_new_status
  /\ UNCHANGED <<channels, owner, status, active, outbox, clock>>

\* The timestamp averages the times of the first request and the first response
\* of the iteration, so it lies between its beginning and its end and two samples
\* may have the same one.  That the system clock is set back is left out.  At
\* MaxTime an iteration takes no sample.
MemSampling ==
  /\ AtLoop("MemorySampling", {"Sampling"})
  /\ TakeCommand \/ NoCommand
  /\ \/ /\ Present(active') = {} \/ clock = MaxTime
        /\ tpc' = "status"
        /\ UNCHANGED <<outbox, clock>>
     \/ /\ Present(active') # {}
        /\ clock' \in clock + 1 .. MaxTime
        /\ \E t \in clock .. clock' : outbox' = <<[t |-> t, ids |-> active']>>
        /\ tpc' = "send"
     \/ /\ Present(active') # {}
        /\ tpc' = "err"
        /\ UNCHANGED <<outbox, clock>>
  /\ UNCHANGED <<notifications, sampled, owner, status>>

MemTerminated ==
  /\ AtLoop("MemorySampling", {"Terminated"})
  /\ tpc' = "exit"
  /\ UNCHANGED <<channels, owner, status, maybe_new_status, active, outbox,
                 clock>>

MemNext ==
  \/ MemSetup
  \/ MemInitializing
  \/ MemSampling
  \/ PausedCommand("MemorySampling")
  \/ Disconnected("MemorySampling", {"Sampling", "Paused"})
  \/ MemTerminated

=============================================================================
