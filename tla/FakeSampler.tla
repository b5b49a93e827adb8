----------------------------- MODULE FakeSampler -----------------------------
(***************************************************************************)
(* sampler_thread of src/sampler/fakesampler.rs.  An iteration in Sampling *)
(* either takes one command or produces one sample, never both.            *)
(***************************************************************************)
EXTENDS Sampler

CONSTANT NFake  \* number of simulated signals (3 in the code): ids 0..NFake-1

ASSUME FakeAssumption == NFake \in Nat /\ 0 .. NFake - 1 \subseteq Ids

FakeAvailable == [i \in 1 .. NFake |-> i - 1]

FakeInitializing ==
  /\ AtLoop("Simulated", {"Initializing"})
  /\ maybe_new_status' = "Sampling"
  /\ tpc' = "status"
  /\ UNCHANGED <<channels, owner, status, active, outbox, clock>>

FakeCommand ==
  /\ AtLoop("Simulated", {"Sampling"})
  /\ TakeCommand
  /\ tpc' = "status"
  /\ UNCHANGED <<notifications, sampled, owner, status, outbox, clock>>

\* No command pending: wait for the instant and sample.  Its time is rounded down
\* to microseconds, so at the highest rate two samples may have the same one.
\* Identifiers are not validated when they are set; one that `ys` does not have
\* ends the thread.
FakeSample ==
  /\ AtLoop("Simulated", {"Sampling"})
  /\ NoCommand
  /\ clock < MaxTime
  /\ clock' = clock + 1
  /\ \/ /\ Present(active) = {}
        /\ tpc' = "status"
        /\ UNCHANGED outbox
     \/ /\ Present(active) # {}
        /\ Present(active) \subseteq 0 .. NFake - 1
        /\ \E t \in clock .. clock' : outbox' = <<[t |-> t, ids |-> active]>>
        /\ tpc' = "send"
     \/ /\ ~(Present(active) \subseteq 0 .. NFake - 1)
        /\ tpc' = "err"
        /\ UNCHANGED outbox
  /\ UNCHANGED <<notifications, sampled, owner, status>>

FakeTerminated ==
  /\ AtLoop("Simulated", {"Terminated"})
  /\ tpc' = "exit"
  /\ UNCHANGED <<channels, owner, status, maybe_new_status, active, outbox,
                 clock>>

FakeNext ==
  \/ FakeInitializing
  \/ FakeCommand
  \/ FakeSample
  \/ PausedCommand("Simulated")
  \/ Disconnected("Simulated", {"Sampling", "Paused"})
  \/ FakeTerminated

=============================================================================
