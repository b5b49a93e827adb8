------------------------------ MODULE OCDScope -------------------------------
(***************************************************************************)
(* The GUI of src/main.rs, composed with the three samplers.               *)
(*                                                                         *)
(* A frame (`update`) is handle_messages, cut at every receive because the *)
(* thread runs meanwhile, followed by the widgets:                         *)
(*                                                                         *)
(*    "Notes"    the notification loop                                     *)
(*    "Samples"  the sample loop, then the truncation of the buffers       *)
(*    "Ui"       the widgets: at most one input of the user per frame      *)
(*    "Join"     inside stop(), in join_handle.join()                      *)
(*    "Closed"   the window is gone                                        *)
(*                                                                         *)
(* current_sampler is Some exactly when `handle` holds and the GUI is not  *)
(* in "Join".  Names, scales, colours and the plot are left out.           *)
(***************************************************************************)
EXTENDS FakeSampler, MemSampler, RTTSampler, SampleBufferOps, FiniteSets

CONSTANTS
  ElfLists,     \* symbol lists (sequences of Ids) an ELF file may give
  KeepTimes,    \* values of the "Keep last" control
  Methods,      \* sampling methods the user picks from
  MaxSessions,  \* bound: sessions started
  MaxCommands,  \* bound: commands waiting when the user clicks
  MaxSignals    \* bound: signals in the sidebar when one is added

ASSUME OCDScopeAssumption ==
  /\ \A l \in ElfLists : l \in Seq(Ids)
  /\ KeepTimes \subseteq Nat \ {0} /\ KeepTimes # {}
  /\ Methods \subseteq Kinds
  /\ MaxSessions \in Nat /\ MaxCommands \in Nat /\ MaxSignals \in Nat

VARIABLES
  uipc,                    \* where the GUI thread is
  sampler_terminated,      \* the local of handle_messages
  current_sampler_status,
  signals,                 \* sequence of [id, enabled]
  samples,                 \* id -> SampleBuffer
  max_time,
  dialogs,                 \* the dialogs shown: "connect", "add", "error"
  sampling_method,
  buffer_auto_truncate,
  keep,                    \* buffer_auto_truncate_at
  wanted                   \* what the user last asked of the sampler

shown    == <<sampler_terminated, current_sampler_status>>
plotted  == <<signals, samples, max_time>>
settings == <<sampling_method, buffer_auto_truncate, keep>>
gui      == <<uipc, shown, plotted, dialogs, settings, wanted>>
vars     == <<channels, worker, owner, gui>>

Dialogs == {"connect", "add", "error"}

Signals == [id : Ids, enabled : BOOLEAN]

connected == handle /\ uipc # "Join"

EnabledIds(sigs) ==
  [id \in Ids |-> Cardinality({i \in DOMAIN sigs : sigs[i].enabled /\ sigs[i].id = id})]

\* SignalConfig::new for every available signal, the first one enabled.
NewSignals(available) ==
  [i \in DOMAIN available |-> [id |-> available[i], enabled |-> i = 1]]

\* No sampler and the connection dialog open.
Init ==
  /\ handle = FALSE /\ kind = "Simulated" /\ session = 0
  /\ commands = <<>> /\ notifications = <<>> /\ sampled = <<>>
  /\ tpc = "none" /\ status = "Initializing" /\ maybe_new_status = None
  /\ active = Once({}) /\ outbox = <<>> /\ clock = 0
  /\ uipc = "Notes"
  /\ sampler_terminated = FALSE
  /\ current_sampler_status = None
  /\ signals = <<>> /\ samples = <<>> /\ max_time = 0
  /\ dialogs = {"connect"}
  /\ sampling_method = "Simulated"
  /\ buffer_auto_truncate = TRUE
  /\ keep \in KeepTimes
  /\ wanted = "Stopped"

-----------------------------------------------------------------------------
(* handle_messages.                                                        *)

\* One turn of the notification loop; an error replaces every other dialog.
HandleNotification ==
  /\ uipc = "Notes" /\ handle
  /\ notifications # <<>>
  /\ notifications' = Tail(notifications)
  /\ LET n == Head(notifications) IN
       \/ /\ n.type = "NewStatus"
          /\ current_sampler_status' = n.status
          /\ sampler_terminated' = (sampler_terminated \/ n.status = "Terminated")
          /\ UNCHANGED dialogs
       \/ /\ n.type = "Info"
          /\ UNCHANGED <<shown, dialogs>>
       \/ /\ n.type = "Error"
          /\ dialogs' = {"error"}
          /\ UNCHANGED shown
  /\ UNCHANGED <<commands, sampled, worker, owner, uipc, plotted, settings,
                 wanted>>

\* The notification loop is over and Terminated was seen: stop the sampler.
StopTerminated ==
  /\ uipc = "Notes" /\ handle /\ notifications = <<>>
  /\ sampler_terminated
  /\ stop
  /\ sampler_terminated' = FALSE
  /\ uipc' = "Join"
  /\ UNCHANGED <<notifications, sampled, worker, owner, current_sampler_status,
                 plotted, dialogs, settings, wanted>>

\* Faulty variant of `NotesDone`: a session whose end was reported goes on.
NotesDoneAnyway ==
  /\ uipc = "Notes"
  /\ handle => notifications = <<>>
  /\ uipc' = IF handle THEN "Samples" ELSE "Ui"
  /\ UNCHANGED <<channels, worker, owner, shown, plotted, dialogs, settings,
                 wanted>>

\* The notification loop is over and the session goes on, or there is none.
NotesDone ==
  /\ uipc = "Notes"
  /\ handle => notifications = <<>> /\ ~sampler_terminated
  /\ uipc' = IF handle THEN "Samples" ELSE "Ui"
  /\ UNCHANGED <<channels, worker, owner, shown, plotted, dialogs, settings,
                 wanted>>

\* Faulty variant of `Later`: the comparison is reversed.
Earlier(time, max) == IF time < max THEN time ELSE max

\* if t > self.max_time { self.max_time = t; }
Later(time, max) == IF time > max THEN time ELSE max

\* One turn of the sample loop.
HandleSample ==
  /\ uipc = "Samples"
  /\ sampled # <<>>
  /\ sampled' = Tail(sampled)
  /\ LET s == Head(sampled) IN
       /\ samples' = [id \in DOMAIN samples \cup Present(s.ids) |->
                        Push(samples, id, s.t, s.ids[id])]
       /\ max_time' = Later(s.t, max_time)
  /\ UNCHANGED <<commands, notifications, worker, owner, uipc, shown, signals,
                 dialogs, settings, wanted>>

\* The sample loop found the channel empty: truncate, request a repaint.
SamplesDone ==
  /\ uipc = "Samples"
  /\ sampled = <<>>
  /\ IF buffer_auto_truncate
     THEN samples' \in
            {f \in [DOMAIN samples ->
                      UNION {Truncations(samples[id], keep) : id \in DOMAIN samples}] :
               \A id \in DOMAIN samples : f[id] \in Truncations(samples[id], keep)}
     ELSE UNCHANGED samples
  /\ uipc' = "Ui"
  /\ UNCHANGED <<channels, worker, owner, shown, signals, max_time, dialogs,
                 settings, wanted>>

\* Faulty variant of `JoinReturns`: the thread is detached, not joined.
Detach ==
  /\ uipc = "Join"
  /\ handle' = FALSE
  /\ notifications' = <<>> /\ sampled' = <<>>
  /\ uipc' = "Ui"
  /\ UNCHANGED <<commands, worker, kind, session, shown, plotted, dialogs,
                 settings, wanted>>

\* join() returns; stop() consumed the sampler, so its receivers are dropped.
JoinReturns ==
  /\ uipc = "Join"
  /\ tpc = "finished"
  /\ handle' = FALSE
  /\ commands' = <<>> /\ notifications' = <<>> /\ sampled' = <<>>
  /\ uipc' = "Ui"
  /\ UNCHANGED <<worker, kind, session, shown, plotted, dialogs, settings,
                 wanted>>

-----------------------------------------------------------------------------
(* The widgets.  An open dialog disables the toolbar, not the sidebar.     *)

NoInput ==
  /\ uipc = "Ui"
  /\ uipc' = "Notes"
  /\ UNCHANGED <<channels, worker, owner, shown, plotted, dialogs, settings,
                 wanted>>

\* Faulty variant of `ClickConnect`: the button is there during a session too.
ClickConnectAnyTime ==
  /\ uipc = "Ui" /\ dialogs = {}
  /\ dialogs' = {"connect"}
  /\ uipc' = "Notes"
  /\ UNCHANGED <<channels, worker, owner, shown, plotted, settings, wanted>>

\* The toolbar without a sampler: "Connect...".
ClickConnect ==
  /\ uipc = "Ui" /\ dialogs = {} /\ ~handle
  /\ dialogs' = {"connect"}
  /\ uipc' = "Notes"
  /\ UNCHANGED <<channels, worker, owner, shown, plotted, settings, wanted>>

\* "Disconnect": the status on display is left as it is.
ClickDisconnect ==
  /\ uipc = "Ui" /\ dialogs = {} /\ handle
  /\ stop
  /\ wanted' = "Stopped"
  /\ uipc' = "Join"
  /\ UNCHANGED <<notifications, sampled, worker, owner, shown, plotted, dialogs,
                 settings>>

\* "Pause" and "Resume": which of them is there depends on the status that was
\* last reported, possibly by the previous session.
ClickPause ==
  /\ uipc = "Ui" /\ dialogs = {} /\ handle
  /\ current_sampler_status = "Sampling"
  /\ Len(commands) < MaxCommands
  /\ pause
  /\ wanted' = "Paused"
  /\ uipc' = "Notes"
  /\ UNCHANGED <<notifications, sampled, worker, owner, shown, plotted, dialogs,
                 settings>>

ClickResume ==
  /\ uipc = "Ui" /\ dialogs = {} /\ handle
  /\ current_sampler_status = "Paused"
  /\ Len(commands) < MaxCommands
  /\ resume
  /\ wanted' = "Sampling"
  /\ uipc' = "Notes"
  /\ UNCHANGED <<notifications, sampled, worker, owner, shown, plotted, dialogs,
                 settings>>

\* A signal's checkbox; the ids of all enabled signals go to the sampler.
ToggleSignal(i) ==
  /\ uipc = "Ui"
  /\ Len(commands) < MaxCommands
  /\ signals' = [signals EXCEPT ![i].enabled = ~@]
  /\ IF handle THEN set_active_signals(kind, EnabledIds(signals'))
               ELSE UNCHANGED commands
  /\ uipc' = "Notes"
  /\ UNCHANGED <<notifications, sampled, worker, owner, shown, samples, max_time,
                 dialogs, settings, wanted>>

\* "Add memory address" in the sidebar, and its dialog.
ClickAddAddress ==
  /\ uipc = "Ui" /\ sampling_method = "MemorySampling"
  /\ dialogs' = dialogs \cup {"add"}
  /\ uipc' = "Notes"
  /\ UNCHANGED <<channels, worker, owner, shown, plotted, settings, wanted>>

AddCancel ==
  /\ uipc = "Ui" /\ "add" \in dialogs
  /\ dialogs' = dialogs \ {"add"}
  /\ uipc' = "Notes"
  /\ UNCHANGED <<channels, worker, owner, shown, plotted, settings, wanted>>

AddAddress(id) ==
  /\ uipc = "Ui" /\ "add" \in dialogs
  /\ Len(signals) < MaxSignals
  /\ signals' = Append(signals, [id |-> id, enabled |-> FALSE])
  /\ dialogs' = dialogs \ {"add"}
  /\ uipc' = "Notes"
  /\ UNCHANGED <<channels, worker, owner, shown, samples, max_time, settings,
                 wanted>>

\* The connection dialog.
SelectMethod(m) ==
  /\ uipc = "Ui" /\ "connect" \in dialogs
  /\ sampling_method' = m
  /\ uipc' = "Notes"
  /\ UNCHANGED <<channels, worker, owner, shown, plotted, dialogs,
                 buffer_auto_truncate, keep, wanted>>

ConnectCancel ==
  /\ uipc = "Ui" /\ "connect" \in dialogs
  /\ dialogs' = dialogs \ {"connect"}
  /\ uipc' = "Notes"
  /\ UNCHANGED <<channels, worker, owner, shown, plotted, settings, wanted>>

\* available_signals() of the sampler a method starts.
AvailableLists(method) ==
  CASE method = "Simulated"      -> {FakeAvailable}
    [] method = "MemorySampling" -> ElfLists
    [] method = "RTT"            -> {RTTAvailable}

\* try_connect_sampler: start the thread, reset the buffers, list the signals
\* and activate the first one.  The status on display is not reset.
Connect(available) ==
  /\ uipc = "Ui" /\ "connect" \in dialogs
  /\ session < MaxSessions
  /\ Spawn(sampling_method,
           IF available = <<>> \/ sampling_method = "RTT" THEN <<>>
           ELSE <<SetActive(Once({available[1]}))>>)
  /\ samples' = <<>>
  /\ max_time' = 0
  /\ signals' = NewSignals(available)
  /\ dialogs' = dialogs \ {"connect"}
  /\ wanted' = "Sampling"
  /\ uipc' = "Notes"
  /\ UNCHANGED <<shown, settings>>

\* XSampler::start returns an error before it spawns the thread.
ConnectFails ==
  /\ uipc = "Ui" /\ "connect" \in dialogs
  /\ sampling_method # "Simulated"
  /\ dialogs' = {"error"}
  /\ uipc' = "Notes"
  /\ UNCHANGED <<channels, worker, owner, shown, plotted, settings, wanted>>

\* parse_elf_symbols unwraps: a file that cannot be opened, is not an ELF file
\* or has no symbol table panics the GUI, the thread being already spawned.
ConnectPanics ==
  /\ uipc = "Ui" /\ "connect" \in dialogs
  /\ sampling_method = "MemorySampling"
  /\ session < MaxSessions
  /\ handle' = FALSE
  /\ kind' = sampling_method
  /\ session' = session + 1
  /\ tpc' = "setup"
  /\ status' = "Initializing"
  /\ maybe_new_status' = None
  /\ active' = Once({}) /\ outbox' = <<>> /\ clock' = 0
  /\ uipc' = "Closed"
  /\ UNCHANGED <<channels, shown, plotted, dialogs, settings, wanted>>

CloseError ==
  /\ uipc = "Ui" /\ "error" \in dialogs
  /\ dialogs' = dialogs \ {"error"}
  /\ uipc' = "Notes"
  /\ UNCHANGED <<channels, worker, owner, shown, plotted, settings, wanted>>

\* What write_csv and write_npy export, if every signal has a buffer: a row for
\* every index that all of the buffers have, nothing without signals.
HasBuffers == \A s \in DOMAIN signals : signals[s].id \in DOMAIN samples

Rows ==
  {i \in UNION {DOMAIN samples[signals[s].id] : s \in DOMAIN signals} :
     \A s \in DOMAIN signals : i \in DOMAIN samples[signals[s].id]}

\* Export: an unsupported extension, an I/O error or a signal without a buffer
\* is reported; success changes nothing here.
ExportData ==
  /\ uipc = "Ui"
  /\ \/ dialogs' = {"error"}
     \/ /\ HasBuffers
        /\ UNCHANGED dialogs
  /\ uipc' = "Notes"
  /\ UNCHANGED <<channels, worker, owner, shown, plotted, settings, wanted>>

ToggleTruncate ==
  /\ uipc = "Ui"
  /\ buffer_auto_truncate' = ~buffer_auto_truncate
  /\ uipc' = "Notes"
  /\ UNCHANGED <<channels, worker, owner, shown, plotted, dialogs,
                 sampling_method, keep, wanted>>

SetKeep(k) ==
  /\ uipc = "Ui" /\ buffer_auto_truncate
  /\ keep' = k
  /\ uipc' = "Notes"
  /\ UNCHANGED <<channels, worker, owner, shown, plotted, dialogs,
                 sampling_method, buffer_auto_truncate, wanted>>

\* The application is dropped, with the sampler's ends of the channels, and the
\* process ends some time later: no Stop is sent and nobody joins the thread.
CloseWindow ==
  /\ uipc = "Ui"
  /\ handle' = FALSE
  /\ notifications' = <<>> /\ sampled' = <<>>
  /\ uipc' = "Closed"
  /\ UNCHANGED <<commands, worker, kind, session, shown, plotted, dialogs, settings,
                 wanted>>

-----------------------------------------------------------------------------

HandleMessages ==
  \/ HandleNotification
  \/ StopTerminated
  \/ NotesDone
  \/ HandleSample
  \/ SamplesDone
  \/ JoinReturns

UserInput ==
  \/ NoInput
  \/ ClickConnect
  \/ ClickDisconnect
  \/ ClickPause
  \/ ClickResume
  \/ \E i \in DOMAIN signals : ToggleSignal(i)
  \/ ClickAddAddress
  \/ AddCancel
  \/ \E id \in Ids : AddAddress(id)
  \/ \E m \in Methods : SelectMethod(m)
  \/ ConnectCancel
  \/ \E l \in AvailableLists(sampling_method) : Connect(l)
  \/ ConnectFails
  \/ ConnectPanics
  \/ CloseError
  \/ ExportData
  \/ ToggleTruncate
  \/ \E k \in KeepTimes : SetKeep(k)
  \/ CloseWindow

\* sampler_thread and the closure that wraps it.
SamplerThread ==
  /\ FakeNext \/ MemNext \/ RTTNext \/ Deliver \/ EndIteration \/ EpilogueNext
  /\ UNCHANGED gui

Next == HandleMessages \/ UserInput \/ SamplerThread

Spec == Init /\ [][Next]_vars

\* The operating system runs both threads, reads and sends of the samplers
\* end, and request_repaint keeps the frames coming while there is a sampler.
Fairness ==
  /\ WF_vars(SamplerThread)
  /\ WF_vars(HandleMessages)
  /\ WF_vars(NoInput /\ handle)

FairSpec == Spec /\ Fairness

-----------------------------------------------------------------------------
(* Safety.                                                                 *)

GuiTypeOK ==
  /\ uipc \in {"Notes", "Samples", "Ui", "Join", "Closed"}
  /\ sampler_terminated \in BOOLEAN
  /\ current_sampler_status \in Statuses \cup {None}
  /\ signals \in Seq(Signals)
  /\ DOMAIN samples \subseteq Ids
  /\ \A id \in DOMAIN samples : samples[id] \in Seq(Nat)
  /\ max_time \in Nat
  /\ dialogs \subseteq Dialogs
  /\ sampling_method \in Kinds
  /\ buffer_auto_truncate \in BOOLEAN /\ keep \in KeepTimes
  /\ wanted \in {"Sampling", "Paused", "Stopped"}

\* Every variable keeps its type; the channel of samples stays within its
\* capacity and the thread is in send only with something to send.
TypeOK == SamplerTypeOK /\ GuiTypeOK

\* At most one thread ever talks to the probe: without a sampler the thread of
\* every earlier session has returned (stop() joins before it gives up).
OneThread ==
  ~handle /\ uipc # "Closed" => tpc \in {"none", "finished"}

\* The connection dialog is never open over a live session: what the assertions
\* `current_sampler.is_none()` of main.rs rely on.
ConnectDialogMeansNoSampler ==
  "connect" \in dialogs /\ uipc # "Closed" => ~handle

\* While the GUI waits in join(), Stop is on its way or the thread is past the
\* point where it needs one; it is never left running without having been told.
StopPending ==
  uipc = "Join" =>
    \/ \E i \in DOMAIN commands : commands[i].op = "Stop"
    \/ "Terminated" \in {status, maybe_new_status}
    \/ tpc \in {"err", "errterm", "exit", "finished"}

\* The status the thread has announced; it never announces Initializing.
Announced == IF tpc \in {"exit", "finished"} THEN "Terminated" ELSE status

\* Once the notifications are handled, the status on display is st.
WillShow(notes, displayed, st) ==
  /\ \A i \in DOMAIN notes :
       /\ notes[i].type = "NewStatus"
       /\ \A j \in DOMAIN notes : j > i => notes[j].type # "NewStatus"
       => notes[i].status = st
  /\ (\A i \in DOMAIN notes : notes[i].type # "NewStatus") => displayed = st

\* The GUI and the thread agree on the status up to the notifications still in
\* the channel: no status change is lost, repeated or overtaken.
StatusAgreement ==
  handle /\ Announced # "Initializing" =>
    WillShow(notifications, current_sampler_status, Announced)

PauseOps == {"Pause", "Resume"}

Asked(op) == IF op = "Pause" THEN "Paused" ELSE "Sampling"

\* The status the thread is heading for, commands in the channel left aside.
Heading ==
  IF maybe_new_status # None THEN maybe_new_status
  ELSE IF status = "Initializing" THEN "Sampling" ELSE status

\* Once the commands are taken, a thread heading for h has status st.
WillBe(cmds, h, st) ==
  /\ \A i \in DOMAIN cmds :
       /\ cmds[i].op \in PauseOps
       /\ \A j \in DOMAIN cmds : j > i => cmds[j].op \notin PauseOps
       => Asked(cmds[i].op) = st
  /\ (\A i \in DOMAIN cmds : cmds[i].op \notin PauseOps) => h = st

\* The last Pause or Resume the user clicked wins, whatever was clicked before
\* on the strength of a status that was out of date.
IntentAgreement == connected /\ Running => WillBe(commands, Heading, wanted)

\* Once the commands are taken, a thread that samples b samples c.
WillSample(cmds, b, c) ==
  /\ \A i \in DOMAIN cmds :
       /\ cmds[i].op = "SetActive"
       /\ \A j \in DOMAIN cmds : j > i => cmds[j].op # "SetActive"
       => cmds[i].ids = c
  /\ (\A i \in DOMAIN cmds : cmds[i].op # "SetActive") => b = c

\* The thread samples the signals ticked in the sidebar, up to the commands
\* still in the channel (RTT sends what the target sends).
ActiveAgreement ==
  connected /\ Running /\ kind # "RTT" =>
    WillSample(commands, active, EnabledIds(signals))

\* The session on display is one whose samples are stamped by the host.
HostStamped == kind # "RTT" /\ uipc # "Closed"

\* Buffers hold one session, are never empty (index_before_at needs a point)
\* and, when the samples are stamped by the host, are in the order of time,
\* as the binary search of index_before_at requires.
BuffersOrdered ==
  \A id \in DOMAIN samples :
    /\ samples[id] # <<>>
    /\ HostStamped =>
         \A i, j \in DOMAIN samples[id] : i < j => samples[id][i] <= samples[id][j]

\* max_time, the right edge the plot follows, is the newest point on display:
\* truncation never takes it away.
NewestIsPlotted ==
  /\ \A id \in DOMAIN samples :
       \A i \in DOMAIN samples[id] : samples[id][i] <= max_time
  /\ HostStamped /\ DOMAIN samples # {} =>
       \E id \in DOMAIN samples : samples[id][Len(samples[id])] = max_time

\* A paused thread has no sample left to send: once Paused is announced nothing
\* is added to the channel, although the RTT thread still reads the target.
PausedIsQuiet == status = "Paused" => outbox = <<>>

-----------------------------------------------------------------------------
(* Refinement.                                                             *)

Phase ==
  CASE uipc = "Closed" -> "closed"
    [] uipc = "Join"   -> "leaving"
    [] OTHER           -> IF handle THEN "live" ELSE "idle"

Thread == IF tpc \in {"none", "finished"} THEN "gone" ELSE "running"

Session ==
  INSTANCE Session WITH
    EmptyPlot <- [buffers |-> <<>>, newest |-> 0],
    phase     <- Phase,
    thread    <- Thread,
    display   <- current_sampler_status,
    over      <- sampler_terminated,
    plot      <- [buffers |-> samples, newest |-> max_time]

\* The GUI and the thread, cut at every receive and every send, keep the
\* promises of Session: sessions do not overlap, statuses are shown in a legal
\* order, and nothing is plotted after the end has been reported.
ImplementsSession == Session!Spec

-----------------------------------------------------------------------------
(* Liveness, under FairSpec.                                               *)

\* A thread that failed is reported in a dialog, unless the user was already
\* disconnecting or has closed the window.
FailureIsReported ==
  tpc = "err" /\ connected ~>
    "error" \in dialogs \/ wanted = "Stopped" \/ uipc = "Closed"

\* Turns of its loop that a thread told to stop has still to begin, and the steps
\* left of the present one.
Turns ==
  Len(commands)
    + (IF status = "Initializing" /\ maybe_new_status = None THEN 1 ELSE 0)
    + (IF Running THEN 1 ELSE 0)

Stage ==
  CASE tpc = "send"                  -> 2 + Len(outbox)
    [] tpc = "err"                   -> 3
    [] tpc \in {"rate", "errterm"}   -> 2
    [] tpc \in {"setup", "status", "exit"} -> 1
    [] OTHER                         -> 0

\* While stop() waits, every step of the thread brings its end nearer: Stop and the
\* commands before it are taken, one a turn, and nothing starts it over.
JoinProgress ==
  [][uipc = "Join" /\ uipc' = "Join" =>
       Turns' < Turns \/ (Turns' = Turns /\ Stage' < Stage)]_vars

\* stop() returns, unless the thread is held in a send to the full channel that
\* the joining GUI no longer drains.
StopReturnsUnlessFull ==
  uipc = "Join" ~>
    uipc # "Join" \/ (tpc = "send" /\ Len(sampled) = SAMPLE_BUFFER_SIZE)

\* A click on Pause ends with "Paused" on display, unless the user changes his
\* mind, or the session ends.
PauseIsShown ==
  wanted = "Paused" /\ connected ~>
    current_sampler_status = "Paused" \/ wanted # "Paused" \/ ~handle

-----------------------------------------------------------------------------
(* What the code or its documentation says and the runs refute.            *)

\* The comment in stop(): only an implementation error that leaves Stop
\* unprocessed can make the join block.
StopReturns == uipc = "Join" ~> uipc # "Join"

\* debug_assert!(self.join_handle.is_finished()) in stop(): when the command
\* cannot be sent, the thread has finished.
StopAssertion ==
  [][uipc # "Join" /\ uipc' = "Join" /\ ~Running => tpc = "finished"]_vars

\* debug_assert_eq!(t, buffer.samples()[i].x) in write_csv and write_npy: when
\* every signal has a buffer, equal rows have equal times.
ExportTimesAgree ==
  HasBuffers =>
    \A i \in Rows : \A r, s \in DOMAIN signals :
      samples[signals[r].id][i] = samples[signals[s].id][i]

=============================================================================
