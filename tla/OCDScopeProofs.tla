--------------------------- MODULE OCDScopeProofs ----------------------------
(***************************************************************************)
(* Invariants of the GUI and the sampler threads, for every number of      *)
(* sessions, commands, signals and samples: the types, and the order of the*)
(* samples from the thread's clock to the plot.                            *)
(***************************************************************************)
EXTENDS OCDScope, FiniteSetTheorems, TLAPS

\* A command sent by the GUI keeps the channel's type.
LEMMA SendCommandType ==
  ASSUME NEW c \in Commands, commands \in Seq(Commands), SendCommand(c)
  PROVE  commands' \in Seq(Commands)
  BY DEF SendCommand

\* Bags of identifiers.
LEMMA BagTypes ==
  /\ \A S : Once(S) \in IdBags
  /\ \A b \in IdBags : \A id \in Ids : b[id] \in Nat
  BY DEF Once, IdBags

\* What the sidebar has enabled is a bag.
LEMMA EnabledType ==
  ASSUME NEW sigs \in Seq(Signals)
  PROVE  EnabledIds(sigs) \in IdBags
<1>. SUFFICES ASSUME NEW id \in Ids
              PROVE  Cardinality({i \in DOMAIN sigs : sigs[i].enabled /\ sigs[i].id = id})
                       \in Nat
  BY DEF EnabledIds, IdBags
<1>. DEFINE E == {i \in DOMAIN sigs : sigs[i].enabled /\ sigs[i].id = id}
<1>1. E \subseteq 1 .. Len(sigs) /\ 0 \in Int /\ 1 \in Int /\ Len(sigs) \in Int
  OBVIOUS
<1>2. IsFiniteSet(1 .. Len(sigs))
  BY <1>1, FS_Interval
<1>3. IsFiniteSet(E)
  BY <1>1, <1>2, FS_Subset
<1>. QED
  BY <1>3, FS_CardinalityType

\* The messages are messages.
LEMMA MessageTypes ==
  /\ \A op \in {"SetActive", "Pause", "Resume", "Stop"} : Cmd(op) \in Commands
  /\ \A b \in IdBags : SetActive(b) \in Commands
  /\ \A s \in Statuses : NewStatus(s) \in Notifications
  /\ Info \in Notifications /\ ErrorNote \in Notifications
  BY BagTypes DEF Cmd, SetActive, NewStatus, Info, ErrorNote, Commands, Notifications

\* A notification, sent or not, keeps the channel's type.
LEMMA NotifyType ==
  ASSUME notifications \in Seq(Notifications), NEW n \in Notifications, Notify(n)
  PROVE  notifications' \in Seq(Notifications)
  BY DEF Notify

\* A command asks for a status or for none.
LEMMA StatusForType ==
  ASSUME NEW st, NEW op PROVE StatusFor(st, op) \in Statuses \cup {None}
  BY DEF StatusFor, Statuses

\* Taking a command keeps the types of what it changes.
LEMMA TakeCommandType ==
  ASSUME SamplerTypeOK, TakeCommand \/ NoCommand
  PROVE  /\ commands' \in Seq(Commands)
         /\ maybe_new_status' \in Statuses \cup {None}
         /\ active' \in IdBags
<1>1. CASE TakeCommand
  <2>1. Head(commands) \in Commands /\ Tail(commands) \in Seq(Commands)
    BY <1>1 DEF TakeCommand, SamplerTypeOK
  <2>2. Head(commands).ids \in IdBags
    BY <2>1 DEF Commands
  <2>. QED
    BY <1>1, <2>1, <2>2, StatusForType DEF TakeCommand, SamplerTypeOK
<1>2. CASE NoCommand
  BY <1>2 DEF NoCommand, SamplerTypeOK
<1>. QED
  BY <1>1, <1>2

\* The first state is well typed.
LEMMA InitType == Init => TypeOK
<1>. SUFFICES ASSUME Init PROVE TypeOK
  OBVIOUS
<1>1. SamplerTypeOK
  <2>1. handle \in BOOLEAN
    BY DEF Init
  <2>. QED
    BY <2>1, SamplerAssumption, BagTypes
       DEF Init, SamplerTypeOK, Kinds, ThreadStates, Statuses
<1>2. GuiTypeOK
  <2>1. sampler_terminated \in BOOLEAN /\ buffer_auto_truncate \in BOOLEAN
    BY DEF Init
  <2>2. signals \in Seq(Signals) /\ DOMAIN samples = {}
    BY DEF Init
  <2>. QED
    BY <2>1, <2>2 DEF Init, GuiTypeOK, Dialogs, Kinds
<1>. QED
  BY <1>1, <1>2 DEF TypeOK

\* The thread's steps keep the sampler's types.
LEMMA ThreadType == SamplerTypeOK /\ SamplerThread => SamplerTypeOK'
<1>. SUFFICES ASSUME SamplerTypeOK, SamplerThread PROVE SamplerTypeOK'
  OBVIOUS
<1>. USE DEF channels, worker, owner
<1>1. CASE FakeInitializing
  BY <1>1 DEF FakeInitializing, SamplerTypeOK, ThreadStates, Statuses
<1>2. CASE FakeCommand
  BY <1>2, TakeCommandType DEF FakeCommand, SamplerTypeOK, ThreadStates
<1>3. CASE FakeSample
  <2>1. /\ commands' \in Seq(Commands) /\ active' \in IdBags
        /\ maybe_new_status' \in Statuses \cup {None}
    BY <1>3, TakeCommandType DEF FakeSample
  <2>2. clock' \in 0 .. MaxTime /\ clock \in Nat
    BY <1>3, SamplerAssumption DEF FakeSample, SamplerTypeOK
  <2>3. \A t \in clock .. clock' : [t |-> t, ids |-> active] \in Samples
    BY <2>2, SamplerAssumption DEF SamplerTypeOK, Samples
  <2>4. outbox' \in Seq(Samples) /\ (tpc' = "send" => outbox' # <<>>)
    <3>1. CASE UNCHANGED outbox /\ tpc' \in {"status", "err"}
      BY <3>1 DEF SamplerTypeOK
    <3>2. CASE \E t \in clock .. clock' : outbox' = <<[t |-> t, ids |-> active]>>
      BY <2>3, <3>2
    <3>. QED
      BY <1>3, <3>1, <3>2 DEF FakeSample
  <2>5. tpc' \in ThreadStates
    BY <1>3 DEF FakeSample, ThreadStates
  <2>. QED
    BY <1>3, <2>1, <2>2, <2>4, <2>5 DEF FakeSample, SamplerTypeOK
<1>4. ASSUME NEW k, PausedCommand(k) PROVE SamplerTypeOK'
  BY <1>4, TakeCommandType DEF PausedCommand, SamplerTypeOK, ThreadStates
<1>5. ASSUME NEW k, NEW S, Disconnected(k, S) PROVE SamplerTypeOK'
  BY <1>5 DEF Disconnected, SamplerTypeOK, ThreadStates
<1>6. CASE FakeTerminated \/ MemTerminated \/ RTTTerminated \/ MemSetup
  BY <1>6 DEF FakeTerminated, MemTerminated, RTTTerminated, MemSetup,
              SamplerTypeOK, ThreadStates
<1>7. CASE MemInitializing \/ RTTInitializing
  BY <1>7 DEF MemInitializing, RTTInitializing, SamplerTypeOK, ThreadStates,
              Statuses
<1>8. CASE MemSampling
  <2>1. /\ commands' \in Seq(Commands) /\ active' \in IdBags
        /\ maybe_new_status' \in Statuses \cup {None}
    BY <1>8, TakeCommandType DEF MemSampling
  <2>2. /\ clock' \in 0 .. MaxTime
        /\ outbox' \in Seq(Samples) /\ (tpc' = "send" => outbox' # <<>>)
        /\ tpc' \in ThreadStates
    <3>1. CASE tpc' # "send"
      BY <1>8, <3>1 DEF MemSampling, SamplerTypeOK, ThreadStates
    <3>2. CASE tpc' = "send"
      <4>1. /\ clock' \in clock + 1 .. MaxTime
            /\ \E t \in clock .. clock' : outbox' = <<[t |-> t, ids |-> active']>>
        BY <1>8, <3>2 DEF MemSampling
      <4>2. clock \in Nat /\ clock' \in Nat /\ clock' \in 0 .. MaxTime
        BY <4>1, SamplerAssumption DEF SamplerTypeOK
      <4>3. \A t \in clock .. clock' : [t |-> t, ids |-> active'] \in Samples
        BY <2>1, <4>2 DEF Samples
      <4>. QED
        BY <3>2, <4>1, <4>2, <4>3 DEF ThreadStates
    <3>. QED
      BY <3>1, <3>2
  <2>. QED
    BY <1>8, <2>1, <2>2 DEF MemSampling, SamplerTypeOK
<1>9. CASE RTTSetup
  <2>1. notifications' \in Seq(Notifications)
    <3>1. CASE Notify(Info)
      BY <3>1, MessageTypes, NotifyType DEF SamplerTypeOK
    <3>2. CASE notifications' = notifications \o <<Info, Info>>
      BY <3>2, MessageTypes DEF SamplerTypeOK
    <3>3. CASE UNCHANGED notifications
      BY <3>3 DEF SamplerTypeOK
    <3>. QED
      BY <1>9, <3>1, <3>2, <3>3 DEF RTTSetup
  <2>. QED
    BY <1>9, <2>1 DEF RTTSetup, SamplerTypeOK, ThreadStates
<1>10. CASE RTTPoll
  <2>1. /\ commands' \in Seq(Commands) /\ active' \in IdBags
        /\ maybe_new_status' \in Statuses \cup {None}
    BY <1>10, TakeCommandType DEF RTTPoll
  <2>2. \A u \in Nat : RTTSample(u) \in Samples
    BY BagTypes DEF RTTSample, Samples
  <2>3. /\ clock' \in 0 .. MaxTime
        /\ outbox' \in Seq(Samples) /\ (tpc' = "send" => outbox' # <<>>)
        /\ tpc' \in ThreadStates
    <3>1. CASE tpc' = "err"
      BY <1>10, <3>1 DEF RTTPoll, SamplerTypeOK, ThreadStates
    <3>2. CASE tpc' # "err"
      <4>1. PICK n \in 0 .. MaxBatch :
              /\ clock + n <= MaxTime
              /\ clock' = clock + n
              /\ IF Forwards /\ n > 0
                 THEN /\ \E ts \in [1 .. n -> 1 .. MaxTime] :
                           outbox' = [i \in 1 .. n |-> RTTSample(ts[i])]
                      /\ tpc' = "send"
                 ELSE tpc' = "rate" /\ UNCHANGED outbox
        BY <1>10, <3>2 DEF RTTPoll
      <4>2. clock' \in 0 .. MaxTime /\ n \in Nat
        BY <4>1, RTTAssumption, SamplerAssumption DEF SamplerTypeOK
      <4>3. CASE Forwards /\ n > 0
        <5>1. PICK ts \in [1 .. n -> 1 .. MaxTime] :
                outbox' = [i \in 1 .. n |-> RTTSample(ts[i])]
          BY <4>1, <4>3
        <5>2. \A i \in 1 .. n : ts[i] \in Nat
          BY <5>1, SamplerAssumption
        <5>3. outbox' \in Seq(Samples)
          BY <2>2, <4>2, <5>1, <5>2
        <5>4. outbox' # <<>>
          BY <4>2, <4>3, <5>1
        <5>. QED
          BY <4>1, <4>2, <4>3, <5>3, <5>4 DEF ThreadStates
      <4>4. CASE ~(Forwards /\ n > 0)
        BY <4>1, <4>2, <4>4 DEF SamplerTypeOK, ThreadStates
      <4>. QED
        BY <4>3, <4>4
    <3>. QED
      BY <3>1, <3>2
  <2>. QED
    BY <1>10, <2>1, <2>3 DEF RTTPoll, SamplerTypeOK
<1>11. CASE RTTRate
  <2>1. notifications' \in Seq(Notifications)
    BY <1>11, MessageTypes, NotifyType DEF RTTRate, SamplerTypeOK
  <2>. QED
    BY <1>11, <2>1 DEF RTTRate, SamplerTypeOK, ThreadStates
<1>12. CASE Deliver
  <2>1. CASE handle
    <3>1. outbox # <<>> /\ Head(outbox) \in Samples /\ Tail(outbox) \in Seq(Samples)
      BY <1>12 DEF Deliver, SamplerTypeOK
    <3>2. /\ CanSend
          /\ sampled' = Append(sampled, Head(outbox))
          /\ outbox' = Tail(outbox)
          /\ tpc' = IF Tail(outbox) # <<>> THEN "send"
                    ELSE IF kind = "RTT" THEN "rate" ELSE "status"
      BY <1>12, <2>1 DEF Deliver
    <3>3. sampled' \in Seq(Samples) /\ Len(sampled') <= SAMPLE_BUFFER_SIZE
      BY <3>1, <3>2, SamplerAssumption DEF SamplerTypeOK, CanSend
    <3>. QED
      BY <1>12, <3>1, <3>2, <3>3 DEF Deliver, SamplerTypeOK, ThreadStates
  <2>2. CASE ~handle
    <3>1. outbox' = <<>> /\ tpc' = "err" /\ UNCHANGED sampled
      BY <1>12, <2>2 DEF Deliver
    <3>2. outbox' \in Seq(Samples) /\ tpc' \in ThreadStates
      BY <3>1 DEF ThreadStates
    <3>. QED
      BY <1>12, <3>1, <3>2 DEF Deliver, SamplerTypeOK
  <2>. QED
    BY <2>1, <2>2 DEF SamplerTypeOK
<1>13. CASE EndIteration
  <2>1. notifications' \in Seq(Notifications) /\ status' \in Statuses
    <3>1. CASE maybe_new_status \in {None, status} \/ ~handle
      BY <1>13, <3>1 DEF EndIteration, SamplerTypeOK
    <3>2. CASE maybe_new_status \notin {None, status} /\ handle
      <4>1. NewStatus(maybe_new_status) \in Notifications
        BY <3>2, MessageTypes DEF SamplerTypeOK
      <4>. QED
        BY <1>13, <3>2, <4>1 DEF EndIteration, SamplerTypeOK
    <3>. QED
      BY <3>1, <3>2
  <2>. QED
    BY <1>13, <2>1 DEF EndIteration, SamplerTypeOK, ThreadStates
<1>14. CASE EpilogueNext
  <2>1. notifications' \in Seq(Notifications)
    <3>1. NewStatus("Terminated") \in Notifications
      BY MessageTypes DEF Statuses
    <3>. QED
      BY <1>14, <3>1, MessageTypes, NotifyType
         DEF EpilogueNext, ReportError, ReportTerminated, ThreadReturns, SamplerTypeOK
  <2>. QED
    BY <1>14, <2>1 DEF EpilogueNext, ReportError, ReportTerminated, ThreadReturns,
                       SamplerTypeOK, ThreadStates
<1>. QED
  BY <1>1, <1>2, <1>3, <1>4, <1>5, <1>6, <1>7, <1>8, <1>9, <1>10, <1>11, <1>12,
     <1>13, <1>14 DEF SamplerThread, FakeNext, MemNext, RTTNext

\* Pushing points leaves a buffer.
LEMMA PushType ==
  ASSUME NEW old \in Seq(Nat), NEW t \in Nat, NEW n \in Nat
  PROVE  old \o [i \in 1 .. n |-> t] \in Seq(Nat)
<1>1. [i \in 1 .. n |-> t] \in Seq(Nat)
  OBVIOUS
<1>. QED
  BY <1>1

\* The buffers after truncation are buffers for the same signals.
LEMMA TruncateType ==
  ASSUME NEW buf \in Seq(Nat), NEW k, NEW r \in Truncations(buf, k)
  PROVE  r \in Seq(Nat)
<1>1. PICK n \in 0 .. Len(buf) : r = SubSeq(buf, n + 1, Len(buf))
  BY DEF Truncations
<1>. QED
  BY <1>1

\* handle_messages keeps the types.
LEMMA HandleMessagesType == TypeOK /\ HandleMessages => TypeOK'
<1>. SUFFICES ASSUME TypeOK, HandleMessages PROVE TypeOK'
  OBVIOUS
<1>. USE DEF TypeOK, channels, worker, owner, shown, plotted, settings
<1>1. CASE HandleNotification
  <2>1. notifications' \in Seq(Notifications)
    BY <1>1 DEF HandleNotification, SamplerTypeOK
  <2>2. SamplerTypeOK'
    BY <1>1, <2>1 DEF HandleNotification, SamplerTypeOK
  <2>3. Head(notifications) \in Notifications
    BY <1>1 DEF HandleNotification, SamplerTypeOK
  <2>4. current_sampler_status' \in Statuses \cup {None}
    BY <1>1, <2>3 DEF HandleNotification, GuiTypeOK, Notifications
  <2>5. sampler_terminated' \in BOOLEAN
    BY <1>1 DEF HandleNotification, GuiTypeOK
  <2>6. dialogs' \subseteq Dialogs
    BY <1>1 DEF HandleNotification, GuiTypeOK, Dialogs
  <2>. QED
    BY <1>1, <2>2, <2>4, <2>5, <2>6 DEF HandleNotification, GuiTypeOK
<1>2. CASE StopTerminated
  <2>1. commands' \in Seq(Commands)
    BY <1>2, SendCommandType, MessageTypes DEF StopTerminated, stop, SamplerTypeOK
  <2>2. sampler_terminated' \in BOOLEAN
    BY <1>2 DEF StopTerminated
  <2>. QED
    BY <1>2, <2>1, <2>2 DEF StopTerminated, SamplerTypeOK, GuiTypeOK
<1>3. CASE NotesDone
  BY <1>3 DEF NotesDone, SamplerTypeOK, GuiTypeOK
<1>4. CASE HandleSample
  <2>. DEFINE s == Head(sampled)
  <2>1. s \in Samples /\ s.t \in Nat /\ \A id \in Ids : s.ids[id] \in Nat
    <3>1. Head(sampled) \in Samples
      BY <1>4 DEF HandleSample, SamplerTypeOK
    <3>. QED
      BY <3>1, BagTypes DEF Samples
  <2>2. sampled' \in Seq(Samples) /\ Len(sampled') <= SAMPLE_BUFFER_SIZE
    BY <1>4, SamplerAssumption DEF HandleSample, SamplerTypeOK
  <2>3. max_time' \in Nat
    BY <1>4, <2>1 DEF HandleSample, GuiTypeOK, Later
  <2>4. ASSUME NEW id \in Ids PROVE Push(samples, id, s.t, s.ids[id]) \in Seq(Nat)
    <3>. DEFINE t == s.t
                n == s.ids[id]
    <3>1. t \in Nat /\ n \in Nat
      BY <2>1
    <3>. HIDE DEF t, n
    <3>2. PICK old \in Seq(Nat) : Push(samples, id, t, n) = old \o [i \in 1 .. n |-> t]
      <4>1. CASE id \in DOMAIN samples
        <5>1. samples[id] \in Seq(Nat)
          BY <4>1 DEF GuiTypeOK
        <5>. QED
          BY <4>1, <5>1 DEF Push
      <4>2. CASE id \notin DOMAIN samples
        <5>1. <<>> \in Seq(Nat)
          OBVIOUS
        <5>. QED
          BY <4>2, <5>1 DEF Push
      <4>. QED
        BY <4>1, <4>2
    <3>3. Push(samples, id, t, n) \in Seq(Nat)
      BY ONLY <3>1, <3>2, PushType
    <3>. QED
      BY ONLY <3>3 DEF t, n
  <2>5. samples' = [id \in DOMAIN samples \cup Present(s.ids) |->
                      Push(samples, id, s.t, s.ids[id])]
    BY <1>4 DEF HandleSample
  <2>6. DOMAIN samples' \subseteq Ids
    BY <2>5 DEF GuiTypeOK, Present
  <2>7. \A id \in DOMAIN samples' : samples'[id] \in Seq(Nat)
    BY <2>4, <2>5, <2>6
  <2>8. SamplerTypeOK'
    BY <1>4, <2>2 DEF HandleSample, SamplerTypeOK
  <2>. QED
    BY <1>4, <2>3, <2>6, <2>7, <2>8 DEF HandleSample, GuiTypeOK
<1>5. CASE SamplesDone
  <2>1. /\ DOMAIN samples' = DOMAIN samples
        /\ \A id \in DOMAIN samples : samples'[id] \in Seq(Nat)
    BY <1>5, TruncateType DEF SamplesDone, GuiTypeOK
  <2>2. SamplerTypeOK'
    BY <1>5 DEF SamplesDone, SamplerTypeOK
  <2>. QED
    BY <1>5, <2>1, <2>2 DEF SamplesDone, GuiTypeOK
<1>6. CASE JoinReturns
  <2>1. handle' \in BOOLEAN
    BY <1>6 DEF JoinReturns
  <2>2. SamplerTypeOK'
    BY <1>6, <2>1, SamplerAssumption DEF JoinReturns, SamplerTypeOK
  <2>. QED
    BY <1>6, <2>2 DEF JoinReturns, GuiTypeOK
<1>. QED
  BY <1>1, <1>2, <1>3, <1>4, <1>5, <1>6 DEF HandleMessages

\* available_signals() lists identifiers.
LEMMA AvailableTyped ==
  ASSUME sampling_method \in Kinds, NEW l \in AvailableLists(sampling_method)
  PROVE  l \in Seq(Ids)
<1>1. CASE sampling_method = "Simulated"
  <2>1. l = FakeAvailable
    BY <1>1 DEF AvailableLists
  <2>. QED
    BY <2>1, FakeAssumption DEF FakeAvailable
<1>2. CASE sampling_method = "MemorySampling"
  <2>1. l \in ElfLists
    BY <1>2 DEF AvailableLists
  <2>. QED
    BY <2>1, OCDScopeAssumption
<1>3. CASE sampling_method = "RTT"
  <2>1. l = RTTAvailable
    BY <1>3 DEF AvailableLists
  <2>. QED
    BY <2>1, RTTAssumption DEF RTTAvailable
<1>. QED
  BY <1>1, <1>2, <1>3 DEF Kinds

\* A connection keeps the types.
LEMMA ConnectType ==
  ASSUME TypeOK, NEW l \in AvailableLists(sampling_method), Connect(l)
  PROVE  TypeOK'
<1>. USE DEF TypeOK, channels, worker, owner, shown, plotted, settings
<1>1. l \in Seq(Ids)
  BY AvailableTyped DEF GuiTypeOK
<1>2. signals' \in Seq(Signals)
  <2>1. \A i \in DOMAIN l : l[i] \in Ids
    BY <1>1
  <2>2. \A i \in DOMAIN l : [id |-> l[i], enabled |-> i = 1] \in Signals
    BY <2>1 DEF Signals
  <2>3. DOMAIN l = 1 .. Len(l) /\ Len(l) \in Nat
    BY <1>1
  <2>4. NewSignals(l) \in [1 .. Len(l) -> Signals]
    BY <2>2, <2>3 DEF NewSignals
  <2>. QED
    BY <2>3, <2>4 DEF Connect
<1>3. commands' \in Seq(Commands)
  <2>1. CASE commands' = <<>>
    BY <2>1
  <2>2. CASE l # <<>> /\ commands' = <<SetActive(Once({l[1]}))>>
    <3>1. SetActive(Once({l[1]})) \in Commands
      BY BagTypes, MessageTypes
    <3>. QED
      BY <2>2, <3>1
  <2>. QED
    BY <2>1, <2>2 DEF Connect, Spawn
<1>4. handle' \in BOOLEAN
  BY DEF Connect, Spawn
<1>5. kind' \in Kinds /\ tpc' \in ThreadStates /\ status' \in Statuses
  BY DEF Connect, Spawn, GuiTypeOK, ThreadStates, Statuses
<1>6. /\ sampled' = <<>> /\ outbox' = <<>> /\ notifications' = <<>> /\ clock' = 0
      /\ tpc' # "send" /\ session' = session + 1 /\ active' \in IdBags
      /\ maybe_new_status' = None
  BY BagTypes DEF Connect, Spawn
<1>7. SamplerTypeOK'
  BY <1>3, <1>4, <1>5, <1>6, SamplerAssumption DEF SamplerTypeOK
<1>8. DOMAIN samples' = {}
  BY DEF Connect
<1>9. dialogs' \subseteq Dialogs /\ wanted' = "Sampling" /\ uipc' = "Notes"
      /\ max_time' = 0
  BY DEF Connect, GuiTypeOK
<1>. QED
  BY <1>2, <1>7, <1>8, <1>9 DEF Connect, GuiTypeOK

\* The user's inputs keep the types.
LEMMA UserInputType == TypeOK /\ UserInput => TypeOK'
<1>. SUFFICES ASSUME TypeOK, UserInput PROVE TypeOK'
  OBVIOUS
<1>. USE DEF TypeOK, channels, worker, owner, shown, plotted, settings
<1>1. CASE NoInput \/ ClickConnect \/ ClickAddAddress \/ AddCancel \/ ConnectCancel
           \/ ConnectFails \/ CloseError \/ ExportData
  <2>1. SamplerTypeOK'
    BY <1>1 DEF NoInput, ClickConnect, ClickAddAddress, AddCancel, ConnectCancel,
                ConnectFails, CloseError, ExportData, SamplerTypeOK
  <2>2. dialogs' \subseteq Dialogs
    BY <1>1 DEF NoInput, ClickConnect, ClickAddAddress, AddCancel, ConnectCancel,
                ConnectFails, CloseError, ExportData, GuiTypeOK, Dialogs
  <2>. QED
    BY <1>1, <2>1, <2>2 DEF NoInput, ClickConnect, ClickAddAddress, AddCancel,
         ConnectCancel, ConnectFails, CloseError, ExportData, GuiTypeOK
<1>2. CASE ClickDisconnect \/ ClickPause \/ ClickResume
  <2>1. commands' \in Seq(Commands)
    BY <1>2, SendCommandType, MessageTypes
       DEF ClickDisconnect, ClickPause, ClickResume, stop, pause, resume, SamplerTypeOK
  <2>. QED
    BY <1>2, <2>1 DEF ClickDisconnect, ClickPause, ClickResume, SamplerTypeOK, GuiTypeOK
<1>3. ASSUME NEW i \in DOMAIN signals, ToggleSignal(i) PROVE TypeOK'
  <2>1. signals[i] \in Signals
    BY DEF GuiTypeOK
  <2>2. signals[i].enabled \in BOOLEAN
    BY <2>1 DEF Signals
  <2>3. (~signals[i].enabled) \in BOOLEAN
    OBVIOUS
  <2>4. [signals[i] EXCEPT !.enabled = ~signals[i].enabled] \in Signals
    BY <2>1, <2>3 DEF Signals
  <2>5. signals' = [signals EXCEPT ![i] =
                      [signals[i] EXCEPT !.enabled = ~signals[i].enabled]]
    BY <1>3 DEF ToggleSignal
  <2>6. signals' \in Seq(Signals)
    BY <2>4, <2>5 DEF GuiTypeOK
  <2>8. EnabledIds(signals') \in IdBags
    BY <2>6, EnabledType
  <2>9. commands' \in Seq(Commands)
    BY <1>3, <2>8, SendCommandType, MessageTypes
       DEF ToggleSignal, set_active_signals, SamplerTypeOK
  <2>10. SamplerTypeOK'
    BY <1>3, <2>9 DEF ToggleSignal, SamplerTypeOK
  <2>. QED
    BY <1>3, <2>6, <2>10 DEF ToggleSignal, GuiTypeOK
<1>4. ASSUME NEW id \in Ids, AddAddress(id) PROVE TypeOK'
  <2>1. [id |-> id, enabled |-> FALSE] \in Signals
    BY DEF Signals
  <2>2. signals' \in Seq(Signals)
    BY <1>4, <2>1 DEF AddAddress, GuiTypeOK
  <2>3. SamplerTypeOK'
    BY <1>4 DEF AddAddress, SamplerTypeOK
  <2>. QED
    BY <1>4, <2>2, <2>3 DEF AddAddress, GuiTypeOK
<1>5. ASSUME NEW m \in Methods, SelectMethod(m) PROVE TypeOK'
  BY <1>5, OCDScopeAssumption DEF SelectMethod, SamplerTypeOK, GuiTypeOK
<1>6. ASSUME NEW l \in AvailableLists(sampling_method), Connect(l) PROVE TypeOK'
  BY <1>6, ConnectType
<1>7. CASE ConnectPanics
  <2>1. handle' \in BOOLEAN
    BY <1>7 DEF ConnectPanics
  <2>2. SamplerTypeOK'
    BY <1>7, <2>1, SamplerAssumption, BagTypes
       DEF ConnectPanics, SamplerTypeOK, GuiTypeOK, ThreadStates, Statuses
  <2>. QED
    BY <1>7, <2>2 DEF ConnectPanics, GuiTypeOK
<1>8. CASE ToggleTruncate
  <2>1. buffer_auto_truncate' \in BOOLEAN
    BY <1>8 DEF ToggleTruncate
  <2>2. SamplerTypeOK'
    BY <1>8 DEF ToggleTruncate, SamplerTypeOK
  <2>. QED
    BY <1>8, <2>1, <2>2 DEF ToggleTruncate, GuiTypeOK
<1>9. ASSUME NEW k \in KeepTimes, SetKeep(k) PROVE TypeOK'
  BY <1>9 DEF SetKeep, SamplerTypeOK, GuiTypeOK
<1>10. CASE CloseWindow
  <2>1. handle' \in BOOLEAN
    BY <1>10 DEF CloseWindow
  <2>2. SamplerTypeOK'
    BY <1>10, <2>1, SamplerAssumption DEF CloseWindow, SamplerTypeOK
  <2>. QED
    BY <1>10, <2>2 DEF CloseWindow, GuiTypeOK
<1>. QED
  BY <1>1, <1>2, <1>3, <1>4, <1>5, <1>6, <1>7, <1>8, <1>9, <1>10 DEF UserInput

\* Every step keeps the types.
LEMMA NextType == TypeOK /\ [Next]_vars => TypeOK'
<1>. SUFFICES ASSUME TypeOK, [Next]_vars PROVE TypeOK'
  OBVIOUS
<1>1. CASE SamplerThread
  <2>1. SamplerTypeOK'
    BY <1>1, ThreadType DEF TypeOK
  <2>2. GuiTypeOK'
    BY <1>1 DEF TypeOK, SamplerThread, gui, shown, plotted, settings, GuiTypeOK
  <2>. QED
    BY <2>1, <2>2 DEF TypeOK
<1>2. CASE UNCHANGED vars
  BY <1>2 DEF vars, channels, worker, owner, gui, shown, plotted, settings,
              TypeOK, SamplerTypeOK, GuiTypeOK
<1>. QED
  BY <1>1, <1>2, HandleMessagesType, UserInputType DEF Next

\* Every variable keeps its type, whatever the constants.
THEOREM TypeCorrect == Spec => []TypeOK
  BY InitType, NextType, PTL DEF Spec


-----------------------------------------------------------------------------
(* The order of the samples, from the clock of the thread to the plot:     *)
(*                                                                         *)
(*      buffers <= max_time <= channel <= sample being sent <= clock       *)

Sorted(buf) == \A i, j \in DOMAIN buf : i < j => buf[i] <= buf[j]

\* What holds for every sampler: truncation leaves every buffer a point, and
\* max_time has seen them all.
PlotBounded ==
  \A id \in DOMAIN samples :
    /\ samples[id] # <<>>
    /\ \A i \in DOMAIN samples[id] : samples[id][i] <= max_time

\* A sample on its way, in the channel or in the hands of the thread.
OnItsWay(s) == Present(s.ids) # {} /\ max_time <= s.t /\ s.t <= clock

ChannelOrdered ==
  /\ \A i \in DOMAIN sampled : OnItsWay(sampled[i])
  /\ \A i, j \in DOMAIN sampled : i < j => sampled[i].t <= sampled[j].t
  /\ tpc = "send" =>
       /\ Len(outbox) = 1
       /\ OnItsWay(outbox[1])
       /\ \A i \in DOMAIN sampled : sampled[i].t <= outbox[1].t
  /\ max_time <= clock

PlotOrdered ==
  /\ \A id \in DOMAIN samples : Sorted(samples[id])
  /\ DOMAIN samples # {} =>
       \E id \in DOMAIN samples : samples[id][Len(samples[id])] = max_time

OrderInv ==
  /\ PlotBounded
  /\ HostStamped => ChannelOrdered /\ PlotOrdered

\* Nothing is there before the first session.
LEMMA InitOrder == Init => OrderInv
  BY DEF Init, OrderInv, PlotBounded, ChannelOrdered, OnItsWay, PlotOrdered

\* What a buffer is made of once n points of time t have been pushed.
LEMMA PushPoints ==
  ASSUME NEW buf \in Seq(Nat), NEW t \in Nat, NEW n \in Nat, NEW r,
         r = buf \o [i \in 1 .. n |-> t]
  PROVE  /\ r \in Seq(Nat) /\ Len(r) = Len(buf) + n
         /\ \A i \in DOMAIN r : IF i \in DOMAIN buf THEN r[i] = buf[i]
                                                   ELSE i > Len(buf) /\ r[i] = t
         /\ DOMAIN buf = 1 .. Len(buf) /\ DOMAIN r = 1 .. Len(r)
<1>. DEFINE p == [i \in 1 .. n |-> t]
<1>1. p \in Seq(Nat) /\ Len(p) = n /\ \A i \in 1 .. n : p[i] = t
  OBVIOUS
<1>. HIDE DEF p
<1>2. r = buf \o p
  BY DEF p
<1>3. \A i \in 1 .. Len(buf) + n :
        r[i] = IF i <= Len(buf) THEN buf[i] ELSE p[i - Len(buf)]
  BY <1>1, <1>2
<1>4. \A i \in 1 .. Len(buf) + n : i > Len(buf) => i - Len(buf) \in 1 .. n
  OBVIOUS
<1>5. r \in Seq(Nat) /\ Len(r) = Len(buf) + n
  BY <1>1, <1>2
<1>. QED
  BY <1>1, <1>3, <1>4, <1>5

\* What pushing points does to a sorted buffer.
LEMMA PushSorted ==
  ASSUME NEW buf \in Seq(Nat), NEW t \in Nat, NEW n \in Nat, NEW m \in Nat, m <= t,
         \A i \in DOMAIN buf : buf[i] <= m, Sorted(buf),
         NEW r, r = buf \o [i \in 1 .. n |-> t]
  PROVE  Sorted(r)
<1>1. /\ r \in Seq(Nat) /\ Len(r) = Len(buf) + n
      /\ \A i \in DOMAIN r : IF i \in DOMAIN buf THEN r[i] = buf[i]
                                                ELSE i > Len(buf) /\ r[i] = t
      /\ DOMAIN buf = 1 .. Len(buf) /\ DOMAIN r = 1 .. Len(r)
  BY PushPoints
<1>2. \A i \in DOMAIN buf : buf[i] \in Nat /\ buf[i] <= t
  OBVIOUS
<1>. QED
  BY <1>1, <1>2 DEF Sorted

\* What pushing points does to any buffer.
LEMMA PushBounded ==
  ASSUME NEW buf \in Seq(Nat), NEW t \in Nat, NEW n \in Nat, NEW m \in Nat,
         \A i \in DOMAIN buf : buf[i] <= m, buf # <<>> \/ n > 0,
         NEW r, r = buf \o [i \in 1 .. n |-> t]
  PROVE  /\ r # <<>>
         /\ \A i \in DOMAIN r : r[i] <= Later(t, m)
         /\ n > 0 => r[Len(r)] = t
<1>1. /\ r \in Seq(Nat) /\ Len(r) = Len(buf) + n
      /\ \A i \in DOMAIN r : IF i \in DOMAIN buf THEN r[i] = buf[i]
                                                ELSE i > Len(buf) /\ r[i] = t
      /\ DOMAIN buf = 1 .. Len(buf) /\ DOMAIN r = 1 .. Len(r)
  BY PushPoints
<1>2. \A i \in DOMAIN buf : buf[i] \in Nat /\ buf[i] <= Later(t, m)
  BY DEF Later
<1>3. t <= Later(t, m)
  BY DEF Later
<1>4. r # <<>> /\ Len(r) \in Nat /\ Len(r) > 0
  <2>1. buf # <<>> => Len(buf) > 0
    OBVIOUS
  <2>2. Len(r) \in Nat /\ Len(r) > 0
    BY ONLY <1>1, <2>1, buf \in Seq(Nat), n \in Nat, buf # <<>> \/ n > 0
  <2>. QED
    BY <2>2
<1>5. \A i \in DOMAIN r : r[i] <= Later(t, m)
  BY ONLY <1>1, <1>2, <1>3
<1>6. ASSUME n > 0 PROVE r[Len(r)] = t
  <2>1. Len(r) \in DOMAIN r /\ Len(r) \notin DOMAIN buf
    BY <1>1, <1>4, <1>6
  <2>. QED
    BY ONLY <1>1, <2>1
<1>. QED
  BY ONLY <1>4, <1>5, <1>6

\* Truncation keeps the last point, and the order of what it keeps.
LEMMA TruncateKeeps ==
  ASSUME NEW buf \in Seq(Nat), buf # <<>>, NEW k \in Nat \ {0},
         NEW r \in Truncations(buf, k)
  PROVE  /\ r # <<>>
         /\ r[Len(r)] = buf[Len(buf)]
         /\ \A m \in Nat : (\A i \in DOMAIN buf : buf[i] <= m)
                              => \A i \in DOMAIN r : r[i] <= m
         /\ Sorted(buf) => Sorted(r)
<1>1. PICK n \in 0 .. Len(buf) : r = SubSeq(buf, n + 1, Len(buf)) /\ CutOK(buf, k, n)
  BY DEF Truncations
<1>2. buf[Len(buf)] \in Nat /\ Len(buf) \in Nat \ {0}
  OBVIOUS
<1>3. n < Len(buf)
  <2>. SUFFICES ASSUME n = Len(buf) PROVE FALSE
    BY <1>2
  <2>. QED
    BY <1>1, <1>2 DEF CutOK
<1>4. Len(r) = Len(buf) - n /\ \A i \in 1 .. Len(r) : r[i] = buf[i + n]
  BY <1>1, <1>2, <1>3
<1>5. DOMAIN r = 1 .. Len(r) /\ DOMAIN buf = 1 .. Len(buf)
  BY <1>1
<1>6. \A i \in DOMAIN r : i + n \in DOMAIN buf /\ r[i] = buf[i + n]
  BY <1>2, <1>3, <1>4, <1>5
<1>7. r # <<>> /\ r[Len(r)] = buf[Len(buf)]
  <2>1. Len(r) \in 1 .. Len(r) /\ Len(r) + n = Len(buf)
    BY <1>2, <1>3, <1>4
  <2>2. r # <<>>
    BY <2>1
  <2>. QED
    BY <1>4, <2>1, <2>2
<1>8. Sorted(buf) => Sorted(r)
  BY <1>5, <1>6 DEF Sorted
<1>. QED
  BY <1>6, <1>7, <1>8

\* The steps of the thread: what it samples is stamped after all it has sent.
LEMMA ThreadOrder == TypeOK /\ OrderInv /\ SamplerThread => OrderInv'
<1>. SUFFICES ASSUME TypeOK, OrderInv, SamplerThread PROVE OrderInv'
  OBVIOUS
<1>. USE DEF TypeOK, channels, worker, owner
<1>1. UNCHANGED <<samples, max_time, uipc, kind>>
  BY DEF SamplerThread, gui, plotted, FakeNext, MemNext, RTTNext, EpilogueNext,
         FakeInitializing, FakeCommand, FakeSample, FakeTerminated, MemSetup,
         MemInitializing, MemSampling, MemTerminated, RTTSetup, RTTInitializing,
         RTTPoll, RTTRate, RTTTerminated, PausedCommand, Disconnected, Deliver,
         EndIteration, ReportError, ReportTerminated, ThreadReturns
<1>2. PlotBounded'
  BY <1>1 DEF OrderInv, PlotBounded
<1>. SUFFICES ASSUME HostStamped PROVE ChannelOrdered'
  BY <1>1, <1>2 DEF OrderInv, HostStamped, PlotOrdered
<1>3. ChannelOrdered /\ kind # "RTT" /\ clock \in Nat /\ max_time \in Nat
  BY SamplerAssumption DEF OrderInv, HostStamped, SamplerTypeOK, GuiTypeOK
<1>4. CASE UNCHANGED <<sampled, clock>> /\ tpc' # "send"
  BY <1>1, <1>3, <1>4 DEF ChannelOrdered, OnItsWay
<1>5. ASSUME UNCHANGED sampled, clock' \in Nat, clock < clock',
             tpc' = "send" =>
               \E t \in clock .. clock' : \E b \in IdBags :
                 Present(b) # {} /\ outbox' = <<[t |-> t, ids |-> b]>>
      PROVE  ChannelOrdered'
  <2>1. \A i \in DOMAIN sampled : sampled[i].t \in Nat
    <3>1. \A i \in DOMAIN sampled : sampled[i] \in Samples
      BY DEF SamplerTypeOK
    <3>. QED
      BY <3>1 DEF Samples
  <2>2. /\ \A i \in DOMAIN sampled : Present(sampled[i].ids) # {}
        /\ \A i \in DOMAIN sampled :
             max_time <= sampled[i].t /\ sampled[i].t <= clock
        /\ max_time <= clock
    BY <1>3 DEF ChannelOrdered, OnItsWay
  <2>3. tpc' = "send" =>
          /\ Len(outbox') = 1
          /\ Present(outbox'[1].ids) # {}
          /\ outbox'[1].t \in Nat /\ clock <= outbox'[1].t /\ outbox'[1].t <= clock'
    BY <1>3, <1>5
  <2>4. \A i \in DOMAIN sampled : OnItsWay(sampled[i])'
    BY <1>1, <1>3, <1>5, <2>1, <2>2 DEF OnItsWay
  <2>5. tpc' = "send" =>
          OnItsWay(outbox[1])' /\ \A i \in DOMAIN sampled : sampled[i].t <= outbox'[1].t
    BY <1>1, <1>3, <1>5, <2>1, <2>2, <2>3 DEF OnItsWay
  <2>6. max_time' <= clock'
    BY <1>1, <1>3, <1>5, <2>2
  <2>. QED
    BY <1>3, <1>5, <2>3, <2>4, <2>5, <2>6 DEF ChannelOrdered
<1>6. CASE FakeSample
  <2>1. clock' = clock + 1 /\ UNCHANGED sampled
    BY <1>6 DEF FakeSample
  <2>2. tpc' = "send" =>
          \E t \in clock .. clock' :
            Present(active) # {} /\ outbox' = <<[t |-> t, ids |-> active]>>
    BY <1>6, <2>1 DEF FakeSample
  <2>3. active \in IdBags
    BY DEF SamplerTypeOK
  <2>. QED
    BY <1>3, <1>5, <2>1, <2>2, <2>3
<1>7. CASE MemSampling
  <2>1. UNCHANGED sampled
    BY <1>7 DEF MemSampling
  <2>2. CASE UNCHANGED clock /\ tpc' # "send"
    BY <1>4, <2>1, <2>2
  <2>3. ASSUME clock' \in clock + 1 .. MaxTime, Present(active') # {},
               \E t \in clock .. clock' : outbox' = <<[t |-> t, ids |-> active']>>
        PROVE  ChannelOrdered'
    <3>1. active' \in IdBags
      BY ThreadType DEF SamplerTypeOK
    <3>. QED
      BY <1>3, <1>5, <2>1, <2>3, <3>1, SamplerAssumption
  <2>. QED
    BY <1>7, <2>2, <2>3 DEF MemSampling
<1>8. CASE Deliver
  <2>1. CASE ~handle
    BY <1>4, <1>8, <2>1 DEF Deliver
  <2>2. CASE handle
    <3>1. /\ tpc = "send" /\ outbox # <<>> /\ UNCHANGED clock
          /\ sampled' = Append(sampled, Head(outbox))
          /\ outbox' = Tail(outbox)
          /\ Tail(outbox) = <<>> => tpc' # "send"
      BY <1>8, <2>2 DEF Deliver, SamplerTypeOK
    <3>2. outbox \in Seq(Samples) /\ sampled \in Seq(Samples)
      BY DEF SamplerTypeOK
    <3>3. /\ Head(outbox) \in Samples /\ Head(outbox) = outbox[1] /\ Len(outbox) = 1
          /\ OnItsWay(outbox[1])
          /\ \A i \in DOMAIN sampled : sampled[i].t <= outbox[1].t
      BY <1>3, <3>1, <3>2 DEF ChannelOrdered
    <3>4. tpc' # "send"
      BY <3>1, <3>2, <3>3
    <3>5. /\ DOMAIN sampled' = 1 .. Len(sampled) + 1
          /\ \A i \in 1 .. Len(sampled) : sampled'[i] = sampled[i]
          /\ sampled'[Len(sampled) + 1] = outbox[1]
          /\ DOMAIN sampled = 1 .. Len(sampled) /\ Len(sampled) \in Nat
      BY <3>1, <3>2, <3>3
    <3>6. \A i \in DOMAIN sampled' : OnItsWay(sampled[i])'
      <4>1. \A i \in DOMAIN sampled' : OnItsWay(sampled'[i])
        BY <1>3, <3>3, <3>5 DEF ChannelOrdered
      <4>. QED
        BY <1>1, <3>1, <4>1 DEF OnItsWay
    <3>8. max_time <= clock
      BY <1>3 DEF ChannelOrdered
    <3>7. ASSUME NEW i \in DOMAIN sampled', NEW j \in DOMAIN sampled', i < j
          PROVE  sampled'[i].t <= sampled'[j].t
      <4>1. CASE j = Len(sampled) + 1
        <5>1. i \in DOMAIN sampled
          BY <3>5, <3>7, <4>1
        <5>. QED
          BY ONLY <3>3, <3>5, <4>1, <5>1
      <4>2. CASE j # Len(sampled) + 1
        <5>1. i \in DOMAIN sampled /\ j \in DOMAIN sampled
          BY <3>5, <3>7, <4>2
        <5>. QED
          BY ONLY <1>3, <3>5, <3>7, <5>1 DEF ChannelOrdered
      <4>. QED
        BY <4>1, <4>2
    <3>. QED
      BY <1>1, <3>1, <3>4, <3>6, <3>7, <3>8 DEF ChannelOrdered
  <2>. QED
    BY <2>1, <2>2 DEF SamplerTypeOK
<1>9. CASE ~FakeSample /\ ~MemSampling /\ ~Deliver
  <2>1. RTTNext => RTTRate \/ kind = "RTT"
    BY DEF RTTNext, RTTSetup, RTTInitializing, RTTPoll, RTTTerminated,
           Disconnected, AtLoop
  <2>2. UNCHANGED <<sampled, clock>> /\ tpc' # "send"
    BY <1>1, <1>3, <1>9, <2>1
       DEF SamplerThread, FakeNext, MemNext, EpilogueNext, FakeInitializing,
           FakeCommand, FakeTerminated, MemSetup, MemInitializing, MemTerminated,
           PausedCommand, Disconnected, RTTRate, EndIteration, ReportError,
           ReportTerminated, ThreadReturns
  <2>. QED
    BY <1>4, <2>2
<1>. QED
  BY <1>6, <1>7, <1>8, <1>9


\* The steps of the GUI's frame: the next sample is the latest on display.
LEMMA FrameOrder == TypeOK /\ OrderInv /\ HandleMessages => OrderInv'
<1>. SUFFICES ASSUME TypeOK, OrderInv, HandleMessages PROVE OrderInv'
  OBVIOUS
<1>. USE DEF TypeOK, channels, worker, owner, shown, plotted, settings
<1>1. uipc # "Closed" /\ UNCHANGED kind
  BY DEF HandleMessages, HandleNotification, StopTerminated, NotesDone,
         HandleSample, SamplesDone, JoinReturns
<1>2. HostStamped' => HostStamped
  BY <1>1 DEF HostStamped
<1>3. CASE HandleNotification \/ StopTerminated \/ NotesDone
  <2>1. UNCHANGED <<samples, max_time, sampled, tpc, outbox, clock>>
    BY <1>3 DEF HandleNotification, StopTerminated, NotesDone
  <2>. QED
    BY <1>2, <2>1 DEF OrderInv, PlotBounded, ChannelOrdered, OnItsWay, PlotOrdered
<1>4. CASE HandleSample
  <2>. DEFINE s == Head(sampled)
  <2>1. /\ sampled \in Seq(Samples) /\ sampled # <<>> /\ max_time \in Nat
        /\ \A id \in DOMAIN samples : samples[id] \in Seq(Nat)
    BY <1>4 DEF HandleSample, SamplerTypeOK, GuiTypeOK
  <2>2. s \in Samples /\ s = sampled[1] /\ 1 \in DOMAIN sampled
    BY <2>1
  <2>3. s.t \in Nat /\ \A id \in Ids : s.ids[id] \in Nat
    BY <2>2, BagTypes DEF Samples
  <2>4. /\ samples' = [id \in DOMAIN samples \cup Present(s.ids) |->
                        Push(samples, id, s.t, s.ids[id])]
        /\ max_time' = Later(s.t, max_time)
        /\ sampled' = Tail(sampled)
        /\ UNCHANGED <<tpc, outbox, clock>>
    BY <1>4 DEF HandleSample
  <2>. HIDE DEF s
  <2>. DEFINE old(id) == IF id \in DOMAIN samples THEN samples[id] ELSE <<>>
  <2>5. ASSUME NEW id \in DOMAIN samples'
        PROVE  /\ old(id) \in Seq(Nat) /\ id \in Ids /\ s.ids[id] \in Nat
               /\ \A i \in DOMAIN old(id) : old(id)[i] <= max_time
               /\ samples'[id] = old(id) \o [i \in 1 .. s.ids[id] |-> s.t]
               /\ old(id) # <<>> \/ s.ids[id] > 0
    <3>1. id \in Ids /\ (id \in DOMAIN samples \/ s.ids[id] > 0)
      BY <2>4 DEF GuiTypeOK, Present
    <3>2. CASE id \in DOMAIN samples
      BY <2>1, <2>3, <2>4, <3>1, <3>2 DEF OrderInv, PlotBounded, Push
    <3>3. CASE id \notin DOMAIN samples
      BY <2>3, <2>4, <3>1, <3>3 DEF Push
    <3>. QED
      BY <3>2, <3>3
  <2>7. max_time' \in Nat /\ max_time <= max_time'
    BY <2>1, <2>3, <2>4 DEF Later
  <2>8. PlotBounded'
    <3>1. ASSUME NEW id \in DOMAIN samples'
          PROVE  /\ samples'[id] # <<>>
                 /\ \A i \in DOMAIN samples'[id] : samples'[id][i] <= max_time'
      <4>. DEFINE buf == old(id)
                  n == s.ids[id]
                  r == samples'[id]
                  t == s.t
      <4>1. /\ buf \in Seq(Nat) /\ t \in Nat /\ max_time \in Nat /\ n \in Nat
            /\ \A i \in DOMAIN buf : buf[i] <= max_time
            /\ buf # <<>> \/ n > 0
        BY <2>1, <2>3, <2>5, <3>1
      <4>2. r = buf \o [i \in 1 .. n |-> t] /\ max_time' = Later(t, max_time)
        BY <2>4, <2>5, <3>1
      <4>. HIDE DEF buf, n, r, t
      <4>3. /\ r # <<>>
            /\ \A i \in DOMAIN r : r[i] <= Later(t, max_time)
        BY ONLY <4>1, <4>2, PushBounded
      <4>. QED
        BY ONLY <4>2, <4>3 DEF r
    <3>. QED
      BY <3>1 DEF PlotBounded
  <2>. SUFFICES ASSUME HostStamped PROVE ChannelOrdered' /\ PlotOrdered'
    BY <1>2, <2>8 DEF OrderInv
  <2>9. ChannelOrdered /\ PlotOrdered
    BY DEF OrderInv
  <2>10. Present(s.ids) # {} /\ max_time <= s.t /\ s.t <= clock
    BY <2>2, <2>9 DEF ChannelOrdered, OnItsWay
  <2>11. max_time' = s.t
    BY <2>1, <2>3, <2>4, <2>10 DEF Later
  <2>12. ChannelOrdered'
    <3>1. \A i \in DOMAIN Tail(sampled) :
            i + 1 \in DOMAIN sampled /\ Tail(sampled)[i] = sampled[i + 1] /\ 1 < i + 1
      BY <2>1
    <3>2. ASSUME NEW i \in DOMAIN sampled' PROVE OnItsWay(sampled[i])'
      <4>1. /\ Present(Tail(sampled)[i].ids) # {}
            /\ s.t <= Tail(sampled)[i].t /\ Tail(sampled)[i].t <= clock
        BY <2>2, <2>4, <2>9, <3>1 DEF ChannelOrdered, OnItsWay
      <4>. QED
        BY <2>4, <2>11, <4>1 DEF OnItsWay
    <3>4. tpc = "send" =>
            /\ OnItsWay(outbox[1])'
            /\ \A i \in DOMAIN sampled' : sampled'[i].t <= outbox'[1].t
      <4>1. tpc = "send" =>
              /\ s.t <= outbox[1].t /\ OnItsWay(outbox[1])
              /\ \A i \in DOMAIN sampled : sampled[i].t <= outbox[1].t
        BY <2>2, <2>9 DEF ChannelOrdered
      <4>. QED
        BY <2>4, <2>11, <3>1, <4>1 DEF OnItsWay
    <3>3. ASSUME NEW i \in DOMAIN Tail(sampled), NEW j \in DOMAIN Tail(sampled), i < j
          PROVE  Tail(sampled)[i].t <= Tail(sampled)[j].t
      <4>1. i + 1 < j + 1
        BY <2>1, <3>3
      <4>. QED
        BY <2>9, <3>1, <4>1 DEF ChannelOrdered
    <3>. QED
      BY <2>4, <2>9, <2>10, <2>11, <3>2, <3>3, <3>4 DEF ChannelOrdered
  <2>13. PlotOrdered'
    <3>1. ASSUME NEW id \in DOMAIN samples' PROVE Sorted(samples'[id])
      <4>. DEFINE buf == old(id)
                  n == s.ids[id]
                  r == samples'[id]
                  t == s.t
      <4>1. Sorted(buf)
        BY <2>9 DEF PlotOrdered, Sorted
      <4>2. /\ buf \in Seq(Nat) /\ t \in Nat /\ max_time \in Nat /\ n \in Nat
            /\ max_time <= t
            /\ \A i \in DOMAIN buf : buf[i] <= max_time
            /\ r = buf \o [i \in 1 .. n |-> t]
        BY <2>1, <2>3, <2>5, <2>10, <3>1
      <4>. HIDE DEF buf, n, r, t
      <4>3. Sorted(r)
        BY ONLY <4>1, <4>2, PushSorted
      <4>. QED
        BY ONLY <4>3 DEF r
    <3>2. PICK id \in Present(s.ids) : TRUE
      BY <2>10
    <3>3. id \in DOMAIN samples' /\ s.ids[id] > 0
      BY <2>4 DEF Present
    <3>4. samples'[id][Len(samples'[id])] = s.t
      <4>. DEFINE buf == old(id)
                  n == s.ids[id]
                  r == samples'[id]
                  t == s.t
      <4>1. /\ buf \in Seq(Nat) /\ t \in Nat /\ max_time \in Nat /\ n \in Nat
            /\ n > 0 /\ (\A i \in DOMAIN buf : buf[i] <= max_time)
            /\ r = buf \o [i \in 1 .. n |-> t]
        BY <2>1, <2>3, <2>5, <3>3
      <4>. HIDE DEF buf, n, r, t
      <4>2. r[Len(r)] = t
        BY ONLY <4>1, PushBounded
      <4>. QED
        BY ONLY <4>2 DEF r, t
    <3>. QED
      BY <2>11, <3>1, <3>3, <3>4 DEF PlotOrdered
  <2>. QED
    BY <2>12, <2>13
<1>5. CASE SamplesDone
  <2>1. UNCHANGED <<max_time, sampled, tpc, outbox, clock>>
    BY <1>5 DEF SamplesDone
  <2>2. CASE UNCHANGED samples
    BY <1>2, <2>1, <2>2 DEF OrderInv, PlotBounded, ChannelOrdered, OnItsWay, PlotOrdered
  <2>3. CASE ~UNCHANGED samples
    <3>1. /\ DOMAIN samples' = DOMAIN samples
          /\ \A id \in DOMAIN samples : samples'[id] \in Truncations(samples[id], keep)
      BY <1>5, <2>3 DEF SamplesDone
    <3>2. keep \in Nat \ {0} /\ max_time \in Nat
      BY OCDScopeAssumption DEF GuiTypeOK
    <3>3. ASSUME NEW id \in DOMAIN samples
          PROVE  samples[id] \in Seq(Nat) /\ samples[id] # <<>>
      BY DEF GuiTypeOK, OrderInv, PlotBounded
    <3>4. ASSUME NEW id \in DOMAIN samples
          PROVE  /\ samples'[id] # <<>>
                 /\ samples'[id][Len(samples'[id])] = samples[id][Len(samples[id])]
                 /\ \A i \in DOMAIN samples'[id] : samples'[id][i] <= max_time
                 /\ Sorted(samples[id]) => Sorted(samples'[id])
      <4>1. \A i \in DOMAIN samples[id] : samples[id][i] <= max_time
        BY DEF OrderInv, PlotBounded
      <4>. DEFINE buf == samples[id]
                  r == samples'[id]
      <4>2. /\ buf \in Seq(Nat) /\ buf # <<>> /\ keep \in Nat \ {0}
            /\ r \in Truncations(buf, keep) /\ max_time \in Nat
            /\ \A i \in DOMAIN buf : buf[i] <= max_time
        BY <3>1, <3>2, <3>3, <4>1
      <4>. HIDE DEF buf, r
      <4>3. /\ r # <<>> /\ r[Len(r)] = buf[Len(buf)]
            /\ \A i \in DOMAIN r : r[i] <= max_time
            /\ Sorted(buf) => Sorted(r)
        BY ONLY <4>2, TruncateKeeps
      <4>. QED
        BY ONLY <4>3 DEF buf, r
    <3>. QED
      BY <1>2, <2>1, <3>1, <3>4 DEF OrderInv, PlotBounded, ChannelOrdered, OnItsWay, PlotOrdered
  <2>. QED
    BY <2>2, <2>3
<1>6. CASE JoinReturns
  <2>1. UNCHANGED <<samples, max_time, tpc, outbox, clock>> /\ sampled' = <<>>
    BY <1>6 DEF JoinReturns
  <2>. QED
    BY <1>2, <2>1 DEF OrderInv, PlotBounded, ChannelOrdered, OnItsWay, PlotOrdered
<1>. QED
  BY <1>3, <1>4, <1>5, <1>6 DEF HandleMessages

\* The user's inputs: a session starts with an empty plot, and the plot of a
\* session stays as it is.
LEMMA InputOrder == TypeOK /\ OrderInv /\ UserInput => OrderInv'
<1>. SUFFICES ASSUME TypeOK, OrderInv, UserInput PROVE OrderInv'
  OBVIOUS
<1>1. CASE \E l \in AvailableLists(sampling_method) : Connect(l)
  BY <1>1 DEF Connect, Spawn, OrderInv, PlotBounded, ChannelOrdered, OnItsWay, PlotOrdered
<1>2. CASE ConnectPanics \/ CloseWindow
  <2>1. uipc' = "Closed" /\ UNCHANGED <<samples, max_time>>
    BY <1>2 DEF ConnectPanics, CloseWindow, plotted
  <2>. QED
    BY <2>1 DEF OrderInv, PlotBounded, HostStamped
<1>3. CASE /\ UNCHANGED <<samples, max_time, sampled, tpc, outbox, clock, kind>>
           /\ uipc # "Closed"
  BY <1>3 DEF OrderInv, HostStamped, PlotBounded, ChannelOrdered, OnItsWay, PlotOrdered
<1>. QED
  BY <1>1, <1>2, <1>3
     DEF UserInput, NoInput, ClickConnect, ClickDisconnect, ClickPause, ClickResume,
         ToggleSignal, ClickAddAddress, AddCancel, AddAddress, SelectMethod,
         ConnectCancel, ConnectFails, CloseError, ExportData, ToggleTruncate,
         SetKeep, channels, worker, owner, plotted

\* Every step keeps the order.
LEMMA NextOrder == TypeOK /\ OrderInv /\ [Next]_vars => OrderInv'
<1>1. OrderInv /\ UNCHANGED vars => OrderInv'
  BY DEF vars, channels, worker, owner, gui, plotted, OrderInv, HostStamped,
         PlotBounded, ChannelOrdered, OnItsWay, PlotOrdered
<1>. QED
  BY <1>1, ThreadOrder, FrameOrder, InputOrder DEF Next

LEMMA OrderInvariance == Spec => []OrderInv
  BY InitOrder, NextOrder, TypeCorrect, PTL DEF Spec

\* Buffers are never empty and, when the host stamps the samples, in order of
\* time, as the binary search of index_before_at requires.
THEOREM OrderCorrect == Spec => []BuffersOrdered
<1>1. OrderInv => BuffersOrdered
  BY DEF OrderInv, PlotBounded, PlotOrdered, Sorted, BuffersOrdered
<1>. QED
  BY <1>1, OrderInvariance, PTL

\* max_time, the right edge of the plot, is the newest point on display.
THEOREM NewestCorrect == Spec => []NewestIsPlotted
<1>1. OrderInv => NewestIsPlotted
  BY DEF OrderInv, PlotBounded, PlotOrdered, NewestIsPlotted
<1>. QED
  BY <1>1, OrderInvariance, PTL

-----------------------------------------------------------------------------
(* Who runs when: at most one sampler thread, no connection dialog over a  *)
(* session, and a Stop on its way to every thread the GUI waits for.       *)

\* The GUI owns a sampler only after it has spawned one, and joins only its own.
Ownership ==
  /\ handle => tpc # "none"
  /\ uipc = "Join" => handle

\* At the top of the loop no status change is pending, Initializing is never
\* asked for, and no iteration runs past its `match` in Terminated.
PendingStatus ==
  /\ tpc \in {"setup", "loop"} => maybe_new_status = None
  /\ maybe_new_status # "Initializing"
  /\ status = "Terminated" => tpc \notin {"setup", "send", "rate", "status"}

SessionInv ==
  /\ TypeOK
  /\ OneThread
  /\ ConnectDialogMeansNoSampler
  /\ Ownership
  /\ PendingStatus
  /\ StopPending

StopIn(cmds) == \E i \in DOMAIN cmds : cmds[i].op = "Stop"

Ending == {"err", "errterm", "exit", "finished"}

\* The steps of the thread, by what they do to the thread's control state.
ThreadEffect ==
  \/ /\ tpc = "setup" /\ tpc' \in {"loop", "err"}
     /\ UNCHANGED <<commands, status, maybe_new_status, active>>
  \/ /\ tpc = "loop" /\ status = "Initializing"
     /\ \/ tpc' = "status" /\ maybe_new_status' = "Sampling"
        \/ tpc' = "err" /\ UNCHANGED maybe_new_status
     /\ UNCHANGED <<commands, status, active>>
  \/ /\ tpc = "loop" /\ status \in {"Sampling", "Paused"}
     /\ TakeCommand \/ NoCommand
     /\ tpc' \in {"send", "rate", "status", "err"}
     /\ UNCHANGED status
  \/ /\ tpc = "loop" /\ ~handle /\ tpc' = "err"
     /\ UNCHANGED <<commands, status, maybe_new_status, active>>
  \/ /\ tpc = "loop" /\ status = "Terminated" /\ tpc' \in {"exit", "err"}
     /\ UNCHANGED <<commands, status, maybe_new_status, active>>
  \/ /\ tpc \in {"send", "rate"} /\ tpc' \in {"send", "rate", "status", "err"}
     /\ UNCHANGED <<commands, status, maybe_new_status, active>>
  \/ EndIteration
  \/ /\ tpc \in {"err", "errterm", "exit"}
     /\ tpc' \in {"errterm", "exit", "finished"}
     /\ UNCHANGED <<commands, status, maybe_new_status, active>>

\* Every step of the thread has one of these effects, and leaves the owner and
\* the GUI alone.
LEMMA ThreadEffects == SamplerThread => ThreadEffect /\ UNCHANGED <<owner, gui>>
<1>. SUFFICES ASSUME SamplerThread PROVE ThreadEffect /\ UNCHANGED <<owner, gui>>
  OBVIOUS
<1>. USE DEF channels, worker, AtLoop
<1>0. UNCHANGED gui
  BY DEF SamplerThread
<1>1. CASE MemSetup \/ RTTSetup
  BY <1>0, <1>1 DEF MemSetup, RTTSetup, ThreadEffect
<1>2. CASE FakeInitializing \/ MemInitializing \/ RTTInitializing
  BY <1>0, <1>2 DEF FakeInitializing, MemInitializing, RTTInitializing, ThreadEffect
<1>3. CASE FakeCommand \/ FakeSample
  BY <1>0, <1>3 DEF FakeCommand, FakeSample, ThreadEffect
<1>4. CASE MemSampling
  BY <1>0, <1>4 DEF MemSampling, ThreadEffect
<1>5. CASE RTTPoll
  BY <1>0, <1>5 DEF RTTPoll, ThreadEffect
<1>6. ASSUME NEW k, PausedCommand(k) PROVE ThreadEffect /\ UNCHANGED <<owner, gui>>
  BY <1>0, <1>6 DEF PausedCommand, ThreadEffect
<1>7. ASSUME NEW k, NEW S, Disconnected(k, S)
      PROVE ThreadEffect /\ UNCHANGED <<owner, gui>>
  BY <1>0, <1>7 DEF Disconnected, ThreadEffect
<1>8. CASE FakeTerminated \/ MemTerminated \/ RTTTerminated
  BY <1>0, <1>8 DEF FakeTerminated, MemTerminated, RTTTerminated, ThreadEffect
<1>9. CASE Deliver \/ RTTRate
  BY <1>0, <1>9 DEF Deliver, RTTRate, ThreadEffect
<1>10. CASE EndIteration
  BY <1>0, <1>10 DEF EndIteration, ThreadEffect
<1>11. CASE EpilogueNext
  BY <1>0, <1>11 DEF EpilogueNext, ReportError, ReportTerminated, ThreadReturns,
                     ThreadEffect
<1>. QED
  BY <1>1, <1>2, <1>3, <1>4, <1>5, <1>6, <1>7, <1>8, <1>9, <1>10, <1>11
     DEF SamplerThread, FakeNext, MemNext, RTTNext

\* A Stop in the channel stays there or is the command that is taken.
LEMMA StopStays ==
  ASSUME commands \in Seq(Commands), StopIn(commands), TakeCommand
  PROVE  StopIn(commands') \/ maybe_new_status' = "Terminated"
<1>1. PICK i \in DOMAIN commands : commands[i].op = "Stop"
  BY DEF StopIn
<1>2. CASE i = 1
  <2>1. Head(commands).op = "Stop"
    BY <1>1, <1>2 DEF TakeCommand
  <2>. QED
    BY <2>1 DEF TakeCommand, StatusFor
<1>3. CASE i # 1
  <2>1. /\ i - 1 \in DOMAIN Tail(commands)
        /\ Tail(commands)[i - 1] = commands[i]
    BY <1>1, <1>3 DEF TakeCommand
  <2>. QED
    BY <1>1, <2>1 DEF TakeCommand, StopIn
<1>. QED
  BY <1>2, <1>3

\* After stop() the thread has been told, or needs not be.
LEMMA StopTells ==
  ASSUME TypeOK, tpc # "none", stop
  PROVE  StopIn(commands') \/ tpc \in Ending
<1>1. commands \in Seq(Commands)
  BY DEF TypeOK, SamplerTypeOK
<1>2. CASE Running
  <2>1. commands' = Append(commands, Cmd("Stop"))
    BY <1>2 DEF stop, SendCommand
  <2>2. /\ Len(commands) + 1 \in DOMAIN commands'
        /\ commands'[Len(commands) + 1] = Cmd("Stop")
    BY <1>1, <2>1
  <2>. QED
    BY <2>2 DEF StopIn, Cmd
<1>3. CASE ~Running
  BY <1>3 DEF TypeOK, SamplerTypeOK, ThreadStates, Running, Ending
<1>. QED
  BY <1>2, <1>3

\* The first state.
LEMMA InitSession == Init => SessionInv
<1>. SUFFICES ASSUME Init PROVE SessionInv
  OBVIOUS
<1>1. TypeOK
  BY InitType
<1>. QED
  BY <1>1 DEF Init, SessionInv, OneThread, ConnectDialogMeansNoSampler, Ownership,
              PendingStatus, StopPending, None

\* The thread's steps.
LEMMA ThreadSession ==
  SessionInv /\ SamplerThread => SessionInv'
<1>. SUFFICES ASSUME SessionInv, SamplerThread PROVE SessionInv'
  OBVIOUS
<1>1. TypeOK'
  BY NextType DEF SessionInv, Next
<1>2. ThreadEffect
  BY ThreadEffects
<1>3. UNCHANGED <<handle, uipc, dialogs>>
  BY ThreadEffects DEF owner, gui
<1>4. OneThread'
  BY <1>2, <1>3 DEF SessionInv, OneThread, ThreadEffect, EndIteration
<1>5. ConnectDialogMeansNoSampler'
  BY <1>3 DEF SessionInv, ConnectDialogMeansNoSampler
<1>6. Ownership'
  BY <1>2, <1>3 DEF SessionInv, Ownership, ThreadEffect, EndIteration
<1>7. PendingStatus'
  <2>1. CASE /\ TakeCommand /\ tpc' \in {"send", "rate", "status", "err"}
             /\ status \in {"Sampling", "Paused"} /\ UNCHANGED status
    BY <2>1 DEF TakeCommand, StatusFor, PendingStatus, None
  <2>. QED
    BY <1>2, <2>1 DEF SessionInv, PendingStatus, ThreadEffect, EndIteration,
                      NoCommand, None
<1>8. StopPending'
  <2>. SUFFICES ASSUME uipc = "Join"
                PROVE  \/ StopIn(commands')
                       \/ "Terminated" \in {status', maybe_new_status'}
                       \/ tpc' \in Ending
    BY <1>3 DEF StopPending, StopIn, Ending
  <2>1. \/ StopIn(commands)
        \/ "Terminated" \in {status, maybe_new_status}
        \/ tpc \in Ending
    BY DEF SessionInv, StopPending, StopIn, Ending
  <2>2. handle
    BY DEF SessionInv, Ownership
  <2>3. CASE tpc = "loop" /\ status \in {"Sampling", "Paused"} /\ TakeCommand
    <3>1. StopIn(commands)
      BY <2>1, <2>3 DEF SessionInv, PendingStatus, Ending, None
    <3>. QED
      BY <2>3, <3>1, StopStays DEF SessionInv, TypeOK, SamplerTypeOK
  <2>4. CASE EndIteration
    <3>1. commands' = commands
      BY <2>4 DEF EndIteration
    <3>2. "Terminated" \in {status, maybe_new_status} => status' = "Terminated"
                                                       \/ tpc' \in Ending
      BY <2>2, <2>4 DEF EndIteration, Ending, SessionInv, PendingStatus, None
    <3>. QED
      BY <2>1, <2>4, <3>1, <3>2 DEF StopIn, Ending, EndIteration
  <2>5. CASE tpc = "loop" /\ status = "Initializing" /\ UNCHANGED commands
    <3>1. StopIn(commands)
      BY <2>1, <2>5 DEF SessionInv, PendingStatus, Ending, None
    <3>. QED
      BY <2>5, <3>1 DEF StopIn
  <2>6. CASE UNCHANGED <<commands, status, maybe_new_status>>
    BY <1>2, <2>1, <2>6 DEF ThreadEffect, EndIteration, Ending, StopIn
  <2>. QED
    BY <1>2, <2>3, <2>4, <2>5, <2>6 DEF ThreadEffect, NoCommand
<1>. QED
  BY <1>1, <1>4, <1>5, <1>6, <1>7, <1>8 DEF SessionInv

\* The steps of the GUI that neither start nor stop a sampler.
LEMMA QuietSession ==
  ASSUME SessionInv, TypeOK',
         UNCHANGED <<handle, tpc, status, maybe_new_status>>,
         uipc # "Join", uipc # "Closed", uipc' \notin {"Join", "Closed"},
         "connect" \in dialogs' => "connect" \in dialogs \/ ~handle
  PROVE  SessionInv'
  BY DEF SessionInv, OneThread, ConnectDialogMeansNoSampler, Ownership,
         PendingStatus, StopPending

\* The GUI calls stop().
LEMMA StopSession ==
  ASSUME SessionInv, TypeOK', stop, handle,
         uipc \notin {"Join", "Closed"}, uipc' = "Join",
         UNCHANGED <<handle, tpc, status, maybe_new_status, dialogs>>
  PROVE  SessionInv'
<1>1. StopIn(commands') \/ tpc \in Ending
  BY StopTells DEF SessionInv, Ownership
<1>2. StopPending'
  BY <1>1 DEF StopPending, StopIn, Ending
<1>. QED
  BY <1>2 DEF SessionInv, OneThread, ConnectDialogMeansNoSampler, Ownership,
              PendingStatus

\* handle_messages.
LEMMA HandleMessagesSession == SessionInv /\ HandleMessages => SessionInv'
<1>. SUFFICES ASSUME SessionInv, HandleMessages PROVE SessionInv'
  OBVIOUS
<1>1. TypeOK'
  BY NextType DEF SessionInv, Next
<1>. USE DEF channels, worker, owner, shown, plotted, settings
<1>2. CASE HandleNotification \/ NotesDone \/ HandleSample \/ SamplesDone
  BY <1>1, <1>2, QuietSession
     DEF HandleNotification, NotesDone, HandleSample, SamplesDone
<1>3. CASE StopTerminated
  BY <1>1, <1>3, StopSession DEF StopTerminated
<1>4. CASE JoinReturns
  BY <1>1, <1>4 DEF JoinReturns, SessionInv, OneThread,
     ConnectDialogMeansNoSampler, Ownership, PendingStatus, StopPending
<1>. QED
  BY <1>2, <1>3, <1>4 DEF HandleMessages

\* The user's inputs.
LEMMA UserInputSession == SessionInv /\ UserInput => SessionInv'
<1>. SUFFICES ASSUME SessionInv, UserInput PROVE SessionInv'
  OBVIOUS
<1>1. TypeOK'
  BY NextType DEF SessionInv, Next
<1>. USE DEF channels, worker, owner, shown, plotted, settings
<1>2. CASE NoInput \/ ClickConnect \/ ClickPause \/ ClickResume \/ ClickAddAddress
           \/ AddCancel \/ ConnectCancel \/ ConnectFails \/ CloseError \/ ExportData
           \/ ToggleTruncate
  BY <1>1, <1>2, QuietSession
     DEF NoInput, ClickConnect, ClickPause, ClickResume, ClickAddAddress, AddCancel,
         ConnectCancel, ConnectFails, CloseError, ExportData, ToggleTruncate
<1>3. ASSUME NEW i \in DOMAIN signals, ToggleSignal(i) PROVE SessionInv'
  BY <1>1, <1>3, QuietSession DEF ToggleSignal
<1>4. ASSUME NEW id \in Ids, AddAddress(id) PROVE SessionInv'
  BY <1>1, <1>4, QuietSession DEF AddAddress
<1>5. ASSUME NEW m \in Methods, SelectMethod(m) PROVE SessionInv'
  BY <1>1, <1>5, QuietSession DEF SelectMethod
<1>6. ASSUME NEW k \in KeepTimes, SetKeep(k) PROVE SessionInv'
  BY <1>1, <1>6, QuietSession DEF SetKeep
<1>7. CASE ClickDisconnect
  BY <1>1, <1>7, StopSession DEF ClickDisconnect
<1>8. ASSUME NEW l, Connect(l) PROVE SessionInv'
  <2>1. /\ handle' = TRUE /\ tpc' \in {"loop", "setup"} /\ maybe_new_status' = None
        /\ uipc' = "Notes" /\ "connect" \notin dialogs' /\ status' = "Initializing"
    BY <1>8 DEF Connect, Spawn
  <2>. QED
    BY <1>1, <2>1 DEF SessionInv, OneThread, ConnectDialogMeansNoSampler,
       Ownership, PendingStatus, StopPending, None
<1>9. CASE ConnectPanics \/ CloseWindow
  BY <1>1, <1>9 DEF ConnectPanics, CloseWindow, SessionInv, OneThread,
     ConnectDialogMeansNoSampler, Ownership, PendingStatus, StopPending, None
<1>. QED
  BY <1>2, <1>3, <1>4, <1>5, <1>6, <1>7, <1>8, <1>9 DEF UserInput

\* Every step keeps the invariant.
LEMMA NextSession == SessionInv /\ [Next]_vars => SessionInv'
<1>1. SessionInv /\ UNCHANGED vars => SessionInv'
  <2>. SUFFICES ASSUME SessionInv, UNCHANGED vars PROVE SessionInv'
    OBVIOUS
  <2>1. TypeOK'
    BY NextType DEF SessionInv
  <2>. QED
    BY <2>1 DEF vars, channels, worker, owner, gui, SessionInv, OneThread,
       ConnectDialogMeansNoSampler, Ownership, PendingStatus, StopPending
<1>. QED
  BY <1>1, ThreadSession, HandleMessagesSession, UserInputSession DEF Next

\* The invariant holds throughout.
LEMMA SessionInvariance == Spec => []SessionInv
  BY InitSession, NextSession, PTL DEF Spec

\* Two sampler threads never run at the same time, however often the user
\* disconnects and connects, and whichever way sessions end.
THEOREM AtMostOneThread == Spec => []OneThread
  BY SessionInvariance, PTL DEF SessionInv

\* The assertions of main.rs that there is no sampler when the user connects
\* cannot fail.
THEOREM ConnectFindsNoSampler == Spec => []ConnectDialogMeansNoSampler
  BY SessionInvariance, PTL DEF SessionInv

\* A thread that the GUI waits for has been told to stop, or is ending.
THEOREM JoinedThreadIsTold == Spec => []StopPending
  BY SessionInvariance, PTL DEF SessionInv

-----------------------------------------------------------------------------
(* Pausing.                                                                *)

\* Only a thread in send has samples to send, and only one that samples sends.
SendsWhileSampling ==
  /\ tpc # "send" => outbox = <<>>
  /\ tpc = "send" => status = "Sampling"

\* One step of the thread.
LEMMA ThreadSends ==
  SessionInv /\ SendsWhileSampling /\ SamplerThread => SendsWhileSampling'
<1>. SUFFICES ASSUME SessionInv, SendsWhileSampling, SamplerThread
              PROVE  SendsWhileSampling'
  OBVIOUS
<1>. USE DEF channels, worker, AtLoop, SendsWhileSampling
<1>1. CASE FakeSample
  BY <1>1 DEF FakeSample
<1>2. CASE MemSampling
  BY <1>2 DEF MemSampling
<1>3. CASE RTTPoll
  BY <1>3 DEF RTTPoll, Forwards
<1>4. CASE Deliver
  <2>1. outbox \in Seq(Samples) /\ outbox # <<>>
    BY <1>4 DEF Deliver, SessionInv, TypeOK, SamplerTypeOK
  <2>. QED
    BY <1>4, <2>1 DEF Deliver
<1>5. CASE EndIteration
  BY <1>5 DEF EndIteration
<1>6. CASE FakeInitializing \/ FakeCommand \/ FakeTerminated \/ MemSetup
           \/ MemInitializing \/ MemTerminated \/ RTTSetup \/ RTTInitializing
           \/ RTTRate \/ RTTTerminated \/ EpilogueNext
  BY <1>6 DEF FakeInitializing, FakeCommand, FakeTerminated, MemSetup, MemInitializing,
     MemTerminated, RTTSetup, RTTInitializing, RTTRate, RTTTerminated, EpilogueNext,
     ReportError, ReportTerminated, ThreadReturns
<1>7. ASSUME NEW k, NEW S, PausedCommand(k) \/ Disconnected(k, S)
      PROVE  SendsWhileSampling'
  BY <1>7 DEF PausedCommand, Disconnected
<1>. QED
  BY <1>1, <1>2, <1>3, <1>4, <1>5, <1>6, <1>7
     DEF SamplerThread, FakeNext, MemNext, RTTNext

\* One step of the system.
LEMMA NextSends ==
  SessionInv /\ SendsWhileSampling /\ [Next]_vars => SendsWhileSampling'
<1>. SUFFICES ASSUME SessionInv, SendsWhileSampling, [Next]_vars
              PROVE  SendsWhileSampling'
  OBVIOUS
<1>. USE DEF channels, worker, owner, SendsWhileSampling
<1>1. CASE SamplerThread
  BY <1>1, ThreadSends
<1>2. ASSUME NEW l, Connect(l) PROVE SendsWhileSampling'
  BY <1>2 DEF Connect, Spawn
<1>3. CASE ConnectPanics
  BY <1>3 DEF ConnectPanics
<1>4. CASE UNCHANGED worker
  BY <1>4
<1>. QED
  BY <1>1, <1>2, <1>3, <1>4
     DEF Next, HandleMessages, UserInput, vars, HandleNotification, StopTerminated,
         NotesDone, HandleSample, SamplesDone, JoinReturns, NoInput, ClickConnect,
         ClickDisconnect, ClickPause, ClickResume, ToggleSignal, ClickAddAddress,
         AddCancel, AddAddress, SelectMethod, ConnectCancel, ConnectFails, CloseError,
         ExportData, ToggleTruncate, SetKeep, CloseWindow

\* A paused thread, of whichever sampler, has nothing left to send.
THEOREM PausedThreadIsQuiet == Spec => []PausedIsQuiet
<1>1. Init => SendsWhileSampling
  BY DEF Init, SendsWhileSampling
<1>2. SendsWhileSampling => PausedIsQuiet
  BY DEF SendsWhileSampling, PausedIsQuiet
<1>. QED
  BY <1>1, <1>2, SessionInvariance, NextSends, PTL DEF Spec

-----------------------------------------------------------------------------
(* Ending: what stop() waits for comes nearer with every step.             *)

\* Outside the top of the loop and the setup the thread has one thing to do.
LEMMA ThreadSteps ==
  SamplerThread =>
    /\ tpc = "send" => Deliver
    /\ tpc = "rate" => RTTRate
    /\ tpc = "status" => EndIteration
    /\ tpc \in {"err", "errterm", "exit"} => EpilogueNext
    /\ tpc \notin {"none", "finished"}
<1>. SUFFICES ASSUME SamplerThread,
                     ~(Deliver \/ RTTRate \/ EndIteration \/ EpilogueNext)
              PROVE  tpc \in {"setup", "loop"}
  BY DEF Deliver, RTTRate, EndIteration, EpilogueNext, ReportError, ReportTerminated,
         ThreadReturns
<1>. USE DEF AtLoop
<1>1. CASE FakeNext
  BY <1>1 DEF FakeNext, FakeInitializing, FakeCommand, FakeSample, PausedCommand,
              Disconnected, FakeTerminated
<1>2. CASE MemNext
  BY <1>2 DEF MemNext, MemSetup, MemInitializing, MemSampling, PausedCommand,
              Disconnected, MemTerminated
<1>3. CASE RTTNext
  BY <1>3 DEF RTTNext, RTTSetup, RTTInitializing, RTTPoll, Disconnected, RTTTerminated
<1>. QED
  BY <1>1, <1>2, <1>3 DEF SamplerThread

\* A step that the joining GUI waits through: nothing starts the thread over, and
\* at the top of its loop it finds the Stop that was sent.
Nearer == Turns' < Turns \/ (Turns' = Turns /\ Stage' < Stage)

LEMMA StageOf ==
  /\ tpc \in {"loop", "finished"} => Stage = 0
  /\ tpc \in {"setup", "status", "exit"} => Stage = 1
  /\ tpc \in {"rate", "errterm"} => Stage = 2
  /\ tpc = "err" => Stage = 3
  /\ tpc = "send" => Stage = 2 + Len(outbox)
  /\ tpc' \in {"loop", "finished"} => Stage' = 0
  /\ tpc' \in {"setup", "status", "exit"} => Stage' = 1
  /\ tpc' \in {"rate", "errterm"} => Stage' = 2
  /\ tpc' = "err" => Stage' = 3
  /\ tpc' = "send" => Stage' = 2 + Len(outbox')
  BY DEF Stage

LEMMA JoinNearer ==
  ASSUME SessionInv, SamplerThread, uipc = "Join"
  PROVE  Nearer
<1>1. /\ ThreadEffect
      /\ handle
  BY ThreadEffects DEF SessionInv, Ownership
<1>2. /\ commands \in Seq(Commands) /\ outbox \in Seq(Samples)
      /\ Len(commands) \in Nat /\ Len(outbox) \in Nat
  BY DEF SessionInv, TypeOK, SamplerTypeOK
<1>3. PendingStatus
  BY DEF SessionInv
<1>. USE DEF Nearer
<1>4. CASE tpc = "setup"
  <2>1. tpc' \in {"loop", "err"} /\ UNCHANGED <<commands, status, maybe_new_status>>
    BY <1>1, <1>4 DEF ThreadEffect, EndIteration
  <2>2. CASE tpc' = "loop"
    BY <1>2, <1>4, <2>1, <2>2, StageOf DEF Turns, Running
  <2>3. CASE tpc' = "err"
    BY <1>2, <1>4, <2>1, <2>3 DEF Turns, Running
  <2>. QED
    BY <2>1, <2>2, <2>3
<1>5. CASE tpc = "loop" /\ status = "Initializing"
  <2>1. UNCHANGED <<commands, status>> /\ maybe_new_status = None
    BY <1>1, <1>3, <1>5 DEF ThreadEffect, EndIteration, PendingStatus
  <2>2. \/ tpc' = "status" /\ maybe_new_status' # None
        \/ tpc' = "err"
    BY <1>1, <1>5 DEF ThreadEffect, EndIteration, None
  <2>3. CASE tpc' = "status" /\ maybe_new_status' # None
    BY <1>2, <1>5, <2>1, <2>3 DEF Turns, Running
  <2>4. CASE tpc' = "err"
    BY <1>2, <1>5, <2>1, <2>4 DEF Turns, Running
  <2>. QED
    BY <2>2, <2>3, <2>4
<1>6. CASE tpc = "loop" /\ status \in {"Sampling", "Paused"}
  <2>1. commands # <<>>
    BY <1>3, <1>6 DEF SessionInv, StopPending, PendingStatus, None
  <2>2. TakeCommand /\ tpc' \in {"send", "rate", "status", "err"} /\ status' = status
    BY <1>1, <1>6, <2>1 DEF ThreadEffect, EndIteration, NoCommand
  <2>3. Len(commands') = Len(commands) - 1
    BY <1>2, <2>1, <2>2 DEF TakeCommand
  <2>4. status # "Initializing" /\ status' # "Initializing" /\ Running
    BY <1>6, <2>2 DEF Running
  <2>. QED
    BY <1>2, <2>3, <2>4 DEF Turns
<1>7. CASE tpc = "loop" /\ status = "Terminated"
  <2>1. /\ tpc' \in {"exit", "err"}
        /\ UNCHANGED <<commands, status, maybe_new_status>>
    BY <1>1, <1>7 DEF ThreadEffect, EndIteration
  <2>. QED
    BY <1>2, <1>7, <2>1 DEF Turns, Running
<1>8. CASE tpc = "send"
  <2>1. Deliver /\ outbox # <<>>
    BY <1>8, ThreadSteps DEF SessionInv, TypeOK, SamplerTypeOK
  <2>2. Len(outbox') = Len(outbox) - 1 /\ tpc' \in {"send", "rate", "status"}
    BY <1>1, <1>2, <2>1 DEF Deliver
  <2>3. outbox' # <<>> => Len(outbox') > 0
    BY <1>2, <2>1 DEF Deliver
  <2>4. Turns' = Turns
    BY <1>1, <1>8, <2>1, <2>2 DEF Deliver, Turns, Running
  <2>5. Len(outbox) \in Nat \ {0}
    BY <1>2, <2>1
  <2>6. Stage' < Stage
    BY <1>2, <1>8, <2>2, <2>5, StageOf
  <2>. QED
    BY <2>4, <2>6
<1>9. CASE tpc = "rate"
  <2>1. tpc' = "status" /\ UNCHANGED <<commands, status, maybe_new_status>>
    BY <1>9, ThreadSteps DEF RTTRate
  <2>2. Turns' = Turns
    BY <1>9, <2>1 DEF Turns, Running
  <2>. QED
    BY <1>9, <2>1, <2>2, StageOf
<1>10. CASE tpc = "status"
  <2>1. /\ tpc' = "loop" /\ commands' = commands
        /\ status' = "Initializing" =>
             status = "Initializing" /\ maybe_new_status = None
    BY <1>1, <1>3, <1>10, ThreadSteps DEF EndIteration, PendingStatus, None
  <2>2. Running /\ Running'
    BY <1>10, <2>1 DEF Running
  <2>3. Turns' = Turns \/ Turns' < Turns
    BY <1>2, <2>1, <2>2 DEF Turns
  <2>. QED
    BY <1>10, <2>1, <2>3, StageOf
<1>11. CASE tpc \in {"err", "errterm", "exit"}
  <2>1. /\ UNCHANGED <<commands, status, maybe_new_status>>
        /\ \/ tpc = "err" /\ tpc' = "errterm"
           \/ tpc = "errterm" /\ tpc' = "exit"
           \/ tpc = "exit" /\ tpc' = "finished"
    BY <1>11, ThreadSteps
       DEF EpilogueNext, ReportError, ReportTerminated, ThreadReturns, channels
  <2>2. Turns' = Turns
    BY <1>11, <2>1 DEF Turns, Running
  <2>. QED
    BY <2>1, <2>2, StageOf
<1>. QED
  BY <1>4, <1>5, <1>6, <1>7, <1>8, <1>9, <1>10, <1>11, ThreadSteps
     DEF SessionInv, TypeOK, SamplerTypeOK, ThreadStates, Statuses

\* The join is short of its end by a number of steps that every step of the thread
\* reduces: while stop() waits, commands are taken one a turn, the samples of a
\* turn are sent one by one, and no turn begins that has no command to take.
THEOREM JoinEnds == Spec => JoinProgress
<1>1. SessionInv /\ [Next]_vars
        => [uipc = "Join" /\ uipc' = "Join" =>
              Turns' < Turns \/ (Turns' = Turns /\ Stage' < Stage)]_vars
  <2>. SUFFICES ASSUME SessionInv, Next, uipc = "Join", uipc' = "Join"
                PROVE  SamplerThread
    BY JoinNearer DEF Nearer
  <2>. QED
    BY DEF Next, HandleMessages, UserInput, HandleNotification, StopTerminated,
       NotesDone, HandleSample, SamplesDone, JoinReturns, NoInput, ClickConnect,
       ClickDisconnect, ClickPause, ClickResume, ToggleSignal, ClickAddAddress,
       AddCancel, AddAddress, SelectMethod, ConnectCancel, Connect, ConnectFails,
       ConnectPanics, CloseError, ExportData, ToggleTruncate, SetKeep, CloseWindow
<1>. QED
  BY <1>1, SessionInvariance, PTL DEF Spec, JoinProgress

=============================================================================
