# OCDScope in TLA+

OCDScope is an oscilloscope for variables of a running microcontroller: a GUI
plots signals that a *sampler* thread obtains from a simulation, from memory
reads over OpenOCD's GDB port, or from a SEGGER RTT channel. This directory holds
its TLA+ model, the TLC runs that check it and the TLAPS proofs about it.

Source paths below are relative to `src/`, the root of the repository; `map` in
`PROJECT.json` gives the lines each definition stands for.

## Inventory

| Component | State | Operations | Interacts with | Hard part |
|---|---|---|---|---|
| Application (`src/main.rs`) | `current_sampler`, the status on display, signals, buffers, dialogs, settings | one frame = `handle_messages` + the widgets | calls the `Sampler` trait, drains two channels, owns the buffers | stale status, blocking `stop()`, dialogs that overlap a session |
| `Sampler` trait and thread protocol (`src/sampler/*.rs`) | three `mpsc` channels, a join handle | `set_active_signals`, `pause`, `resume`, `stop`, and the thread loop | GUI <-> thread | two threads, a bounded channel, failures at every send and read |
| Simulated sampler (`fakesampler.rs`) | `status`, `active_ids`, time | one command or one sample per iteration | the three channels | identifiers are validated only when sampled |
| Memory sampler (`memsampler.rs`) | `status`, `active_memory_addresses` | at most one command, then one sample | channels, GDB remote, Telnet, ELF file | a failed read ends the session; ELF panics |
| RTT sampler (`rttsampler.rs`) | `status`, byte buffer, rate counter | at most one command, one read, all complete packets | channels, Telnet, a TCP stream | keeps reading while paused; synchronisation with the target |
| Sample buffer (`buffer.rs`) | samples of one signal | `push`, `truncate`, `plot_points`, `index_before_at` | the GUI | binary search on data the target may deliver out of order |
| Export (`export.rs`) | none | `write_csv`, `write_npy` | signals and buffers | rows paired by index |
| GDB remote (`gdbremote.rs`) | receive buffer, last receive timestamp | connect, send a packet, read a response | memory sampler, TCP stream | packets in pieces, unasked packets, the time of a response |
| Timestamped stream (`ttstream.rs`) | socket, error queue | connect, send, receive | GDB remote | late transmission timestamps |
| Telnet interface (`openocd/telnet_interface.rs`) | line buffer | OpenOCD commands | memory and RTT sampler | debug output between command and response, answers of a call that timed out |
| RTT stream (`rttsampler.rs`, OpenOCD's RTT server) | ring buffer, connection, byte buffer | drain, read, cut packets | RTT sampler, Telnet interface | nothing marks where a packet begins |
| Drawing, file dialogs, `utils.rs` | - | - | the GUI | none: pure |

The properties that make the application and the samplers' threads correct: at most
one thread works on the probe; GUI and thread agree, up to the messages under way,
on status, on pausing and on the signals sampled; failures reach the user;
disconnecting ends; buffers stay ordered, non-empty and within the time to keep, and
are cut and sliced without a panic. Those of the connections to OpenOCD: a reading
is the answer to its own request, with a time that does not go back; an answer of
OpenOCD belongs to the command it is taken for; packets of the scope channel are cut
where the target cut them. `hazards` in `PROJECT.json` lists what can go wrong, at
its line.

## Modules

```
Sampler               channels, Sampler trait, what the thread loops share
  FakeSampler         \
  MemSampler           } loop of each sampler_thread
  RTTSampler          /
SampleBufferOps       a buffer as a sequence of times; what truncate may do
  OCDScope            the GUI, composed with the three samplers; the properties
    MCOCDScope        values for TLC
  SampleBuffer        buffer.rs in detail, binary search turn by turn
Session               abstract: what a user sees of sessions (OCDScope implements it)

TimestampedStream     ttstream.rs: sends and receives with times, the error queue
  GDBRemote           gdbremote.rs: packets on that stream
    MemExchange       the memory sampler's handshake and reads; OpenOCD's GDB server
      MCMemExchange   values for TLC
MemoryReads           abstract: what the memory sampler delivers (MemExchange implements it)

RTTStream             scope channel: ring buffer, RTT server, drain, read and cut
TelnetInterface       telnet_interface.rs and OpenOCD's Telnet server
ScopePacket           list of channels, packet structure, decoding: pure functions
  RTTSession          start() and sampler_thread of the RTT sampler, from the three
    MCRTTSession      values for TLC

OCDScopeProofs       types, order of the samples, sessions and pausing in OCDScope
  AgreementProofs    GUI and thread agree; OCDScope implements Session
SampleBufferProofs                                theorems about SampleBuffer
MemExchangeProofs                                 ... about MemExchange
FoldFacts            folds over sequences, for any closure
  ScopePacketProofs  theorems about ScopePacket
RTTStreamProofs      ... about RTTStream
  RTTSessionProofs   ... about RTTSession, from the two above
```

### The application and the threads

`Sampler` cuts a thread iteration where the GUI can see it: taking a command and
producing samples (an action of the sampler's module), each blocking send
(`Deliver`), the status change at the bottom of the loop (`EndIteration`). When
`sampler_thread` returns an error, the closure around it sends two notifications
and ends: three more steps (`err`, `errterm`, `exit`). `command_rx` dies with
`sampler_thread`, so `SendCommand` loses commands from then on (`Running`).

`OCDScope` cuts a frame at every receive of `handle_messages` (`uipc` = `Notes`,
`Samples`), then lets the user do at most one thing (`Ui`), the most a mouse can do
in a frame. `stop()` sends Stop (`ClickDisconnect`, `StopTerminated`) and
waits in `Join` until the thread is `finished` (`JoinReturns`). `handle` says that
the GUI still owns its ends of the channels. `wanted` is a ghost: the last of
Pause, Resume, Connect, Disconnect the user asked for. A dialog disables the
toolbar but not the sidebar, so signals are toggled and addresses added at any time.

`Session` is the same without channels and frames: a session begins, shows
statuses in a legal order, plots, is left, and releases the probe when its thread
has gone. `ImplementsSession` maps `OCDScope` to it: a session is live from the
creation of a sampler to the Stop sent to it, its end is `over` when Terminated is
noted and handled later in the same frame.

`SampleBuffer` takes `index_before_at` one turn of its loop at a time and checks
that `truncate` meets the contract (`Truncations` in `SampleBufferOps`) which
`OCDScope` uses: prefixes a search may remove. On an ordered buffer the contract
has one outcome; on another, `OCDScope` considers all of them, a superset of what
the search can do.

### The memory sampler's exchange

`MemSampler` takes the reads of an iteration for one step with an outcome.
`MemExchange` shows what that step consists of, and that the outcome may be relied
on. `send` is two actions, `SendPacket` (sendmsg and the clock) and `PacketSent` (the
one look at the error queue), between which the acknowledgement may or may not come
(`Acknowledge`, which may cover several sends). `read_response` is a turn that finds no
response and reads some bytes (`FeedBuffer`), one that fails (`ReadError`), or one
that takes a response (`Handshake`, `HandleReply`). OpenOCD answers requests in
order (`ServerHandles`), sends keep-alive packets or a stop reply unasked
(`ServerChatters`), and TCP delivers any prefix of what it wrote (`Delivery`).

A packet is two marks, its beginning and its end, an acknowledgement one: enough for
packets to come in pieces and several at once. Bytes are not corrupted, so checksums
match and a packet is never refused for its checksum. The ghost `at` is the time at
which the kernel received a byte, `n` of an answer the number of its request. Timeouts may strike at any moment (`ReadError`);
`set_timeout` and the durations are left out. Memory is read one address per request
as in the code. An error reply consists of hexadecimal digits and is an answer
like others.

### The RTT session

`RTTStream` has the path of a byte: the target puts whole packets into its ring
buffer, OpenOCD's poll takes up to all of them, the connection and the reads split
them again; the reader drains, then cuts. A byte is its packet's number and its place
in it. The 100 ms without bytes that end the drain are the flag `quiet`: a poll has
found the ring empty since the last read. That a poll falls into those 100 ms is an
assumption, for the code measures the time only. `SlowPolling` drops it: it stands for a
polling interval of 100 ms, which the settings allow, and for an OpenOCD that is too busy
to poll, say with the halt that has just timed out.

`TelnetInterface` has tokens, prompts and lines, on the connection: the client reads
any prefix (`ReadIntoBuffer`), waits for a prompt, writes the command (`WriteCommand`) and
takes lines until echo and answer have come (`TakeLine`), or gives up at any moment
(`CallFails`), leaving the rest of the answer for the next call. The ghost `of` is the
command a line was printed for. The server echoes, executes, prints and prompts, with debug
output at any moment.

`RTTSession` composes both with the script of `start` and `sampler_thread`:
commands, a second Telnet connection, the choice of the channel, halt, drain,
resume, loop, the end. `RTTSampler` has the thread's commands and notifications, and what
its statuses let through to the plot. A channel without a time is accepted by
`start` and fails at its first packet (`Broken`). Every packet of a run has `Size`
> 0 bytes. OpenOCD may refuse any command with a line that says why (`Serve`). A resume that
it refuses leaves the target halted: `resume` (`telnet_interface.rs:409-417`, called at
`rttsampler.rs:574`) waits for the echo alone and returns before that line comes. This is one
way to "it happened, sometimes, that the target didn't resume after sampling started"
(`rttsampler.rs:27-28`). `HaltedMeansRefused` says that, in the model, there is no other.

`ScopePacket` is what the session computes: `parse_rtt_channels`,
`parse_scope_packet_structure`, `decode_bytes` with little-endian two's
complement and rounding to f32, each with a reference definition it is
compared with.

### What is abstracted

Values of samples (but for `ScopePacket`), signal names, scales and colours; the
factor between microseconds and seconds. The ids in a command are a bag: two enabled
entries for one address give two equal points, in an order that nothing depends on. The
time of a sample of the memory sampler lies between the beginning and the end of its
iteration, so two samples may have the same one; that it does not go back is what
`MemExchange` shows, if the system clock is not set back. If it is, a time may be anything
down to 0 (`unwrap_or(0)`, `memsampler.rs:352`) and the buffer is out of order: `SampleBuffer`
has that case. RTT timestamps are arbitrary. A panic in
`parse_elf_symbols` (`ConnectPanics`) ends the application. After the window closes,
nothing is claimed but the end of the thread's own steps. Operators commented
"Faulty variant of" are not part of any specification: each is a plausible bug
that some property must detect.

## Runs

| Run | Shows |
|---|---|
| `scope_two` | `ActiveAgreement`, `OneThread`, `ConnectDialogMeansNoSampler`, `StatusAgreement`, `IntentAgreement`, `PausedIsQuiet`, `JoinProgress` and types over two sessions, simulated or RTT, each of which may fail; all of it implements `Session` |
| `scope_live` | `StopPending`, `BuffersOrdered`, `NewestIsPlotted` for a memory session, and under fairness `FailureIsReported`, `StopReturnsUnlessFull`, `PauseIsShown` |
| `sample_buffer` | search, truncation and slicing on every buffer of up to five samples over four instants, ordered or not |
| `mem_exchange` | types, `ExpectNeverPanics`, `ResponseTimeIsPlausible`, `ReadsInStep` for two iterations of two reads; all of it implements `MemoryReads` |
| `rtt_session` | types, `AnswersBelong`, `NoLateHalt`, `HaltedMeansRefused`, `StreamAligned`, `PacketsAreWhole`, `NothingIsLost`, the parsing and decoding properties, `DrainProgress`, `SyncEnds`, for a whole session, which uses the stream as `RTTStream` says (`UsesStream`) |
| `stop_returns` | refutes `StopReturns` |
| `stop_assertion` | refutes `StopAssertion` |
| `export_times` | refutes `ExportTimesAgree` |
| `keep_alive` | refutes `KeepAlivesAreIgnored` |
| `send_time` | refutes `SendTimeIsOwn` |
| `slow_polling` | refutes `StreamAligned` when the polling interval is 100 ms |
| `debug_lines` | refutes `DebugIsIgnored` |

Bounds of `OCDScope`. `MaxSessions` = 2 lets a session meet the leftovers of another (status on
display, dialogs, commands); `SAMPLE_BUFFER_SIZE` = 1 (1024 in the code) makes the
channel full, the only thing its size is about; `MaxCommands` = 2 lets two clicks
overtake the thread: two SetActive, or one behind a Pause or Resume, wait together in
`scope_two`, where `ActiveAgreement` is checked; `MaxTime` = 2 with a time to keep of 1 makes
truncation cut;
`MaxBatch` = 2 makes one RTT read complete two packets; `MaxSignals` = 2 with two
identifiers gives a simulated session (`NFake` = 1, 3 in the code) a duplicate of its signal or
an identifier that it does not have, and an RTT session has both (`NRtt` = 2); `MaxNotes` bounds
the RTT rate reports, one per second in the code, that may wait. At `MaxTime` a
thread takes no more samples but still takes commands. `scope_live` uses the memory sampler because
it fails in every phase and still takes commands while it samples; with one command waiting at
a time it leaves overtaking to `scope_two`.

Bounds of `MemExchange`. `MaxNow` = 2 gives three readings of the clock: a send, its
acknowledgement and a reply can each have their own. Two addresses and
`MaxIterations` = 2 make a reply of one read meet the next read and the next
iteration; `MaxChatter` = 1 puts one unasked packet anywhere between them. The
theorems have no such bounds but `MaxNow`, a constant of any value.

Bounds of `RTTSession`. A packet of `Size` = 2 bytes can be split; the ring of
`Capacity` = 4 holds two, so that a third may not fit; `MaxWrites` = 3 lets the target
write before, during and after the drain; `MaxChatter` = 1 puts one debug output
anywhere. `MCRTTSession` has some 180 lists of channels: every list of up to three
lines of four kinds, and the names of all structures of one field, some of two, and all
pairs of seven characters. Integers of four bytes are taken up to 2147483000 in
`PacketsDecoded`, the range of TLC's integers; the theorem takes the others
too.

Fairness of `OCDScope`. `WF(SamplerThread)`: the operating system runs the thread, and the reads
it makes end (every socket has a timeout; that a reply loop may go on for ever is
listed as a hazard). `WF(HandleMessages)`: a frame that has begun proceeds.
`WF(NoInput /\ handle)`: `request_repaint` at the end of `handle_messages`
schedules the next frame as long as there is a sampler. The user is never
required to do anything.

Fairness of `RTTSession`: OpenOCD accepts a connection and polls (it is a polling
loop), the reads of the drain and its end happen (the thread runs). `SyncEnds` only
claims an end once the target stands still: a target that writes for ever may keep the
drain going.

Deadlock is not checked for `OCDScope`: a closed window stops the system, and so
does a GUI that joins a thread waiting for it, which `StopReturns` is about. Nor for
`MemExchange` and `RTTSession`, whose thread stops when it fails or has finished. It is
checked for `SampleBuffer`.

### Findings

* `StopReturns`: `stop()` hangs when the thread is blocked in a send on the full
  channel of samples, which nobody drains during the join. The comment in `stop()`
  (`fakesampler.rs:104`) only reckons with an error in the thread.
  `StopReturnsUnlessFull` shows that this is the one way it can hang.
* `StopAssertion`: `debug_assert!(self.join_handle.is_finished())` fails when the
  user disconnects while the closure is still reporting an error.
* `ExportTimesAgree`: `debug_assert_eq!` in `write_csv` and `write_npy` fails when
  signals were enabled at different times, as the FIXME there fears.
* `KeepAlivesAreIgnored`: the reply loop says it ignores `O` packets
  (`memsampler.rs:318`), but takes `received_at` from the first packet of the
  iteration before it looks at it (line 315). A keep-alive that was waiting in the
  socket puts the sample earlier than its reading.
* `SendTimeIsOwn`: the timestamp of a send is that of its acknowledgement, looked for
  once, right after sendmsg (`ttstream.rs:213`). One that comes later is returned for
  the next send, contrary to the assertion in the test of `send` (line 440).
* `StreamAligned` under `SlowPolling`: between two polls 100 ms apart nothing comes
  although the ring is not empty (`rttsampler.rs:552`, settings in `main.rs:669`). The
  drain ends, and the loop starts in the middle of a packet, which the comment at
  `rttsampler.rs:254` says cannot happen and the one at line 32 says does ("loses
  synchronization, sometimes").
* `DebugIsIgnored`: debug output that comes while a call waits is ignored if it begins with
  two backspaces, and then only up to the end of that line (`telnet_interface.rs:120`). A
  blank line in it ends the list of channels before its last line, or the wait for the answer
  to `adapter_khz`. The TODO at lines 117-119 asks for more lines to be ignored.

While modelling it also turned out what the code's guarantees rest on. Answers of a
Telnet call that timed out are kept from the next call by the echo it waits for, not
by the buffer that `wait_prompt` clears. Of debug output, `AnswersBelong` lets only blank
lines and the lines of the list of channels be taken. Alignment needs no successful halt: a poll
within the 100 ms that finds the ring empty is enough, because packets enter the ring
whole.

## Proofs

For every value of the constants satisfying the `ASSUME`s of the modules:

* `TypeCorrect`: `Spec => []TypeOK`, by itself inductive.
* `AtMostOneThread`, `ConnectFindsNoSampler`, `JoinedThreadIsTold`: from
  `SessionInv`. The three properties are not inductive alone: a thread past `stop()`
  has to be known to carry its Stop through the queue, the pending status and the
  epilogue, which needs `PendingStatus` (no status change is pending at the top of
  the loop, none is asked for in Terminated) and `Ownership`. `ThreadEffects`
  first reduces every step of the three threads to nine effects on the control state.
* `JoinEnds`: while the GUI waits in `join()` every step of the thread lowers the pair
  (`Turns`, `Stage`), in the order of pairs. `Turns` counts the commands waiting, which are
  taken one a turn, Stop among them by `SessionInv`; `Stage` the steps left in the turn under
  way, one for each sample in the outbox. So `stop()` waits for ever only if the thread takes no
  step, which under the fairness of `StopReturnsUnlessFull` leaves the blocked send.
* `PausedThreadIsQuiet`: with its outbox empty when it announces Paused, a thread
  sends nothing more until it resumes.
* `StatusCorrect`: `WillShow` relates the queue to the display under Append and
  Tail; every status change of the thread appends exactly one notification.
* `IntentCorrect`, `ActiveCorrect`: from `Agreed`, which adds that a thread the GUI
  is connected to has not been told to stop (otherwise Stop would be handled before a
  later Pause, and the thread would not head where the user wants). `WillBe` and
  `WillSample` follow the last relevant command through the queue.
* `SessionRefinement`: `OCDScope` implements `Session`. `RefInv` adds to `SessionInv`
  that the notifications under way form a legal path from the status on display, so
  that each of them is a `Show` the abstract session allows.
* `SearchCorrect`, `TruncateSafe`, `TruncateCorrect`, `TruncateKeepsWindow`,
  `SearchProgress`: from `IInv`, whose `TruncateStarted` records the early return of
  `truncate` (the first sample is before the cut-off); without it `unwrap()` could
  not be justified. `TruncateCorrect` ties the detailed buffer to the contract used by `OCDScope`.
* `ExpectCorrect`, `ResponseTimeCorrect`: from `TimesInv`. What waits in the kernel is in
  order of time and not older than what was read, and a byte that starts a response has
  left its time.
* `ReadsCorrect`: from `InStep`, which is about `Flight`, the bytes that OpenOCD has
  written and that were not taken as a response, wherever they are. No answer is among
  them and no read among the requests, unless one is awaited; then there is exactly one,
  as a request or as an answer, for the address and with the number awaited.
* `ExchangeRefinement`: `MemExchange` implements `MemoryReads`, from `IInv`. `SamplesOwn` (the
  i-th reading of an iteration answers its i-th request) follows from `InStep`; that
  sample times do not go back follows from `SampleTimes`: the last sample's time is at most
  the mean of a time of sending and one of receiving that no later sample is before,
  although a late acknowledgement may give the time of an earlier send.
* `StreamTypeCorrect`, `AlignmentCorrect`, `PacketsCorrect`, `NoPacketLost`: for every size
  of packet and ring. The invariant says that the bytes in flight are a chain: each is
  followed by the next byte of its packet or the first of the next packet, up to the last
  packet written; what is cut is followed by the byte at the same place in the next packet
  (`NextInLine`); and if polling is not slow the chain begins with a packet once the drain has
  ended.
* `SliceCorrect`: the invariant follows both searches of `plot_points`. They go alike until
  they meet the first sample inside the window, where the search for the end goes right and
  the other left; so the end is not before the start, even in a buffer that is out of order.
  `PlotCorrect`: in an ordered one, each search splits the buffer at its time.
* `OrderCorrect`, `NewestCorrect`: `OrderInv` orders the samples along their way, buffers <=
  `max_time` <= channel <= sample being sent <= clock of the thread, equal times included, for
  samplers that stamp on the host. That the truncation leaves the last point needs `keep > 0`. `HostStamped` leaves
  out a closed window: a panic in `parse_elf_symbols` leaves the samples of an earlier RTT
  session under a memory sampler.
* `AnswersCorrect`: from `TelnetInv`. Every command is issued once on its way through the
  session, so its number can be read off each line that it causes (`Marked`); and from the
  commands to the lines read, all that comes after the first thing that belongs to the call
  belongs to it too (`InOrder`), so once the echo is read nothing older can be taken. Debug
  output has no number: of it, blank lines and lines of the list can be taken, and
  `debug_lines` shows that a blank one is.
* `HaltCorrect`: when the loop begins the echo of `resume` has been read, so by `InOrder` the
  server is past the halt before it.
* `HaltedTarget`: from `ResumeInv`. While the resume is called, a refusal that is unread has the
  echo before it (`EchoFirst`), so the call that takes the echo leaves the refusal unread; and
  from the echo on the target runs, is being resumed, or a refusal is unread. No halt can undo
  that, for by `InOrder` the server has none left (`HaltIsPast`).
* `DrainShrinks`, `SessionDrains`: while the target stands still, a poll or a read of the drain
  lowers `Backlog`: a byte is polled once and read once, and then polls find the ring empty.
* `SessionUsesStream`: every step of `RTTSession` is a step of `RTTStream` or leaves it
  alone, so `SessionAligned`, `SessionPackets` and `SessionLosesNothing` follow, and with
  them and `TelnetInv` `SessionTypeCorrect`.
* `ChannelsCorrect`, `NamesCorrect`, `DecodingCorrect`: the session keeps `listing` a member
  of `Listings`, and the rest is about the functions of `ScopePacket`, below. They need of
  `Listings` only that a list is a sequence of lines whose headers say Up or Down.

The functions of `ScopePacket` work on lists of any length, and each is, or is specified by, a
fold. A theorem with an operator as parameter cannot be used by the provers; but a module can
have an operator as CONSTANT. `FoldFacts` does, with lemmas that are not about this program: the
closure is `op`, its start `base` and what is claimed of every prefix `P`. `FoldTrace` shows that `FoldLeft`, which the community modules
define with a CHOOSE over sets of indices, goes through the sequence in order, and
`FoldInvariant` is the induction. `ScopePacketProofs` instantiates the module for each
closure, and shows for every input

* `ChannelsAreListed`: after each line the channels found so far are those listed so far
  (`ChannelFacts`), at the place that their number among them gives.
* `SpellingIsParsed`, `AcceptedIsSpelled`: the naming convention and the parser are inverse to
  each other, for any number of fields; only a last character without a partner is ignored.
* `PacketIsDecoded`: for every structure, any 32-bit time and numbers of the full range of
  their types. The bytes of a field are found at its offset (`PacketLayout`), little-endian and
  two's complement give the number back (`UnsignedIsRead`, `SignedIsRead`), and `as f32` keeps 24
  significant bits (`ToF32IsNear`). `StructuresDecode` restates it as the runs check it.

Only model-checked: liveness under fairness (`FailureIsReported`, `StopReturnsUnlessFull`,
`PauseIsShown`, `SyncEnds`), which is out of the prover's reach. What makes `StopReturnsUnlessFull`
and `SyncEnds` end is proved as an action property, a variant that each step lowers
(`JoinProgress`, `DrainProgress`); that the next step is taken is what TLC checks. Every safety
property of a passing run is a theorem.

`SessionAligned`, `SessionPackets` and the two theorems about `RTTStream` they come from assume
`~SlowPolling`, and run `slow_polling` shows why. What the invariant says of the order of the
bytes does not: a reader that has begun in the middle of a packet still loses none.

## Not modelled

* Drawing, fonts and colours, zooming and scrolling, the file dialogs: no state that
  another component reads.
* `utils.rs`: one call that finds a free port; the race for it is one of the failures of
  `RTTSetup`.
* The contents of ELF files and of exported files. That parsing an ELF file may panic and
  that rows are paired by index are modelled.
* Pointer arithmetic and system calls of `ttstream.rs`: `TimestampedStream` has what they
  are for. Memory safety is not expressible here.
* Durations of timeouts, except the one that synchronisation depends on.
* `ImplementsMemoryReads` and `MemSampler` meet in the README only: `MemSampler` shares the
  thread protocol with the other samplers and has no bytes, `MemExchange` has no commands. The
  two take turns, one iteration each, and share no variable but the list of addresses.
