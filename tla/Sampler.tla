------------------------------- MODULE Sampler -------------------------------
(***************************************************************************)
(* What the three samplers of src/sampler share: the Sampler trait object  *)
(* held by the GUI, the worker thread behind it, and the three mpsc        *)
(* channels that join them.  FakeSampler, MemSampler and RTTSampler add    *)
(* the loop body of their thread; OCDScope adds the GUI.                   *)
(*                                                                         *)
(*   commands       mpsc::channel, GUI -> thread, unbounded                *)
(*   notifications  mpsc::channel, thread -> GUI, unbounded                *)
(*   sampled        mpsc::sync_channel(SAMPLE_BUFFER_SIZE), thread -> GUI: *)
(*                  a send to a full channel blocks the thread             *)
(*                                                                         *)
(* A thread iteration is cut where another thread can see it: taking a     *)
(* command and producing samples (module of the sampler), each blocking    *)
(* send of a sample (Deliver), and the status change (EndIteration).       *)
(* Signal values are left out: a sample is its time and the bag of signals *)
(* it has values for.                                                      *)
(***************************************************************************)
EXTENDS Integers, Sequences

CONSTANTS
  Ids,                 \* signal identifiers (u32: field numbers, addresses)
  SAMPLE_BUFFER_SIZE,  \* capacity of the sampled channel
  MaxTime              \* bound: instants of one session

ASSUME SamplerAssumption ==
  /\ SAMPLE_BUFFER_SIZE \in Nat \ {0}
  /\ MaxTime \in Nat

VARIABLES
  handle,           \* the GUI still owns the sampler's ends of the channels
  kind,             \* which sampler the thread belongs to
  commands, notifications, sampled,
  tpc,              \* where the thread is (ThreadStates)
  status,           \* `status` of sampler_thread
  maybe_new_status, \* `maybe_new_status` of the current iteration
  active,           \* active_ids / active_memory_addresses, as a bag
  outbox,           \* samples of this iteration not yet sent
  clock,            \* the clock when the last sample was complete (RTT: packets)
  session           \* sessions started so far (bounds the runs)

channels == <<commands, notifications, sampled>>
worker   == <<tpc, status, maybe_new_status, active, outbox, clock>>
owner    == <<handle, kind, session>>

None == "None"

Statuses == {"Initializing", "Sampling", "Paused", "Terminated"}

Kinds == {"Simulated", "MemorySampling", "RTT"}

\* Lists of identifiers up to their order: how often each one is listed.
IdBags     == [Ids -> Nat]
Once(S)    == [id \in Ids |-> IF id \in S THEN 1 ELSE 0]
Present(b) == {id \in Ids : b[id] > 0}

\* ThreadCommand: `ids` is only meaningful in SetActive.
Commands == [op : {"SetActive", "Pause", "Resume", "Stop"}, ids : IdBags]

\* Notification: `status` is only meaningful in NewStatus.
Notifications == [type : {"NewStatus", "Info", "Error"},
                  status : Statuses \cup {None}]

\* Two enabled entries for one address give two equal points.
Samples == [t : Nat, ids : IdBags]

Cmd(op)       == [op |-> op, ids |-> Once({})]
SetActive(b)  == [op |-> "SetActive", ids |-> b]
NewStatus(s)  == [type |-> "NewStatus", status |-> s]
Info          == [type |-> "Info", status |-> None]
ErrorNote     == [type |-> "Error", status |-> None]

\* "none": never spawned; "setup": before the loop; "loop": top of the loop;
\* "send": in sampled_tx.send; "rate": RTT rate report; "status": end of the
\* iteration; "err", "errterm": the two notifications sent when sampler_thread
\* has returned an error; "exit": the closure's tail; "finished".
ThreadStates == {"none", "setup", "loop", "send", "rate", "status",
                 "err", "errterm", "exit", "finished"}

\* command_rx and sampled_tx are arguments of sampler_thread and die with it.
Running == tpc \in {"setup", "loop", "send", "rate", "status"}

Notify(n) == notifications' = IF handle THEN Append(notifications, n)
                                        ELSE notifications

-----------------------------------------------------------------------------
(* The Sampler trait, called by the GUI.                                   *)

\* Faulty variant of `SendCommand`: there is room for one command only.
SendCommandIfEmpty(c) ==
  commands' = IF Running /\ commands = <<>> THEN Append(commands, c) ELSE commands

\* command_tx.send: an error is logged and the command is lost.
SendCommand(c) ==
  commands' = IF Running THEN Append(commands, c) ELSE commands

\* RTT ignores the request: the target decides what it sends.
set_active_signals(k, b) ==
  IF k = "RTT" THEN UNCHANGED commands ELSE SendCommand(SetActive(b))

pause  == SendCommand(Cmd("Pause"))
resume == SendCommand(Cmd("Resume"))

\* Faulty variant of `stop`: the thread is joined without being told.
stopUntold == UNCHANGED commands

\* stop() consumes the sampler: Stop is sent, then the thread is joined; the
\* receivers are dropped when the join returns (JoinReturns in OCDScope).
stop == SendCommand(Cmd("Stop"))

\* The thread and the channels as XSampler::start leaves them.
Spawn(k, firstCommands) ==
  /\ handle' = TRUE
  /\ kind' = k
  /\ session' = session + 1
  /\ commands' = firstCommands
  /\ notifications' = <<>>
  /\ sampled' = <<>>
  /\ tpc' = IF k = "Simulated" THEN "loop" ELSE "setup"
  /\ status' = "Initializing"
  /\ maybe_new_status' = None
  /\ active' = Once({})
  /\ outbox' = <<>>
  /\ clock' = 0

-----------------------------------------------------------------------------
(* The worker thread: what its loop bodies have in common.                 *)

AtLoop(k, S) == kind = k /\ tpc = "loop" /\ status \in S

\* Faulty variant of `StatusFor`: Pause falls through to the unexpected commands.
StatusForNoPause(st, op) ==
  CASE op = "Stop"                      -> "Terminated"
    [] op = "Resume" /\ st = "Paused"  -> "Sampling"
    [] OTHER                            -> None

\* The status a command asks for in a given status, None when the command is
\* unexpected there and only logged.
StatusFor(st, op) ==
  CASE op = "Stop"                        -> "Terminated"
    [] op = "Pause" /\ st = "Sampling"    -> "Paused"
    [] op = "Resume" /\ st = "Paused"     -> "Sampling"
    [] OTHER                              -> None

\* Ok(command) of try_recv or recv.
TakeCommand ==
  /\ commands # <<>>
  /\ commands' = Tail(commands)
  /\ maybe_new_status' = StatusFor(status, Head(commands).op)
  /\ active' = IF Head(commands).op = "SetActive" THEN Head(commands).ids
                                                  ELSE active

\* Err(TryRecvError::Empty) of try_recv.
NoCommand ==
  /\ commands = <<>>
  /\ handle
  /\ UNCHANGED <<commands, maybe_new_status, active>>

\* Err(Disconnected): the queue is empty and the GUI dropped its end.
Disconnected(k, S) ==
  /\ AtLoop(k, S)
  /\ commands = <<>>
  /\ ~handle
  /\ tpc' = "err"
  /\ UNCHANGED <<channels, owner, status, maybe_new_status, active, outbox,
                 clock>>

\* Status::Paused of the fake and memory samplers: a blocking recv.
PausedCommand(k) ==
  /\ AtLoop(k, {"Paused"})
  /\ TakeCommand
  /\ tpc' = "status"
  /\ UNCHANGED <<notifications, sampled, owner, status, outbox, clock>>

\* Faulty variant of `CanSend`: an unbounded channel.
CanSendAlways == TRUE

\* A sync_channel has a free slot.
CanSend == Len(sampled) < SAMPLE_BUFFER_SIZE

\* sampled_tx.send(..): blocks on a full channel, fails when the receiver is
\* gone.
Deliver ==
  /\ tpc = "send"
  /\ \/ /\ handle
        /\ CanSend
        /\ sampled' = Append(sampled, Head(outbox))
        /\ outbox' = Tail(outbox)
        /\ tpc' = IF Tail(outbox) # <<>> THEN "send"
                  ELSE IF kind = "RTT" THEN "rate" ELSE "status"
     \/ /\ ~handle
        /\ outbox' = <<>>
        /\ tpc' = "err"
        /\ UNCHANGED sampled
  /\ UNCHANGED <<commands, notifications, owner, status, maybe_new_status,
                 active, clock>>

\* `match maybe_new_status` at the bottom of the loop.
EndIteration ==
  /\ tpc = "status"
  /\ maybe_new_status' = None
  /\ IF maybe_new_status \in {None, status}
     THEN /\ tpc' = "loop"
          /\ UNCHANGED <<status, notifications>>
     ELSE IF handle
     THEN /\ notifications' = Append(notifications, NewStatus(maybe_new_status))
          /\ status' = maybe_new_status
          /\ tpc' = "loop"
     ELSE /\ tpc' = "err"
          /\ UNCHANGED <<status, notifications>>
  /\ UNCHANGED <<commands, sampled, owner, active, outbox, clock>>

\* Faulty variant of `ReportError`: the error is only logged.
ReportErrorSilently ==
  /\ tpc = "err"
  /\ tpc' = "errterm"
  /\ UNCHANGED <<channels, owner, status, maybe_new_status, active, outbox,
                 clock>>

\* The spawned closure, after sampler_thread has returned an error ...
ReportError ==
  /\ tpc = "err"
  /\ Notify(ErrorNote)
  /\ tpc' = "errterm"
  /\ UNCHANGED <<commands, sampled, owner, status, maybe_new_status, active,
                 outbox, clock>>

\* Faulty variant of `ReportTerminated`: the end of the thread is not announced.
ReportTerminatedSilently ==
  /\ tpc = "errterm"
  /\ tpc' = "exit"
  /\ UNCHANGED <<channels, owner, status, maybe_new_status, active, outbox,
                 clock>>

ReportTerminated ==
  /\ tpc = "errterm"
  /\ Notify(NewStatus("Terminated"))
  /\ tpc' = "exit"
  /\ UNCHANGED <<commands, sampled, owner, status, maybe_new_status, active,
                 outbox, clock>>

\* ... and its end, from which join_handle.is_finished() holds.
ThreadReturns ==
  /\ tpc = "exit"
  /\ tpc' = "finished"
  /\ UNCHANGED <<channels, owner, status, maybe_new_status, active, outbox,
                 clock>>

EpilogueNext == ReportError \/ ReportTerminated \/ ThreadReturns

-----------------------------------------------------------------------------

SamplerTypeOK ==
  /\ handle \in BOOLEAN /\ kind \in Kinds /\ session \in Nat
  /\ commands \in Seq(Commands)
  /\ notifications \in Seq(Notifications)
  /\ sampled \in Seq(Samples) /\ Len(sampled) <= SAMPLE_BUFFER_SIZE
  /\ tpc \in ThreadStates
  /\ status \in Statuses /\ maybe_new_status \in Statuses \cup {None}
  /\ active \in IdBags
  /\ outbox \in Seq(Samples) /\ (tpc = "send" => outbox # <<>>)
  /\ clock \in 0 .. MaxTime

=============================================================================
