--------------------------- MODULE AgreementProofs ---------------------------
(***************************************************************************)
(* The GUI and the thread agree, up to the messages in the channels: on    *)
(* the status on display, on pausing, and on the signals sampled.          *)
(***************************************************************************)
EXTENDS OCDScopeProofs

-----------------------------------------------------------------------------
(* WillShow, WillBe and WillSample under Append and Tail.                  *)

\* Other notifications do not matter.
LEMMA ShowAppendOther ==
  ASSUME NEW notes \in Seq(Notifications), NEW d, NEW st, NEW n \in Notifications,
         n.type # "NewStatus", WillShow(notes, d, st)
  PROVE  WillShow(Append(notes, n), d, st)
  BY DEF WillShow

\* The last NewStatus decides.
LEMMA ShowAppendStatus ==
  ASSUME NEW notes \in Seq(Notifications), NEW d, NEW st
  PROVE  WillShow(Append(notes, NewStatus(st)), d, st)
  BY DEF WillShow, NewStatus

\* Handling a notification.
LEMMA ShowTail ==
  ASSUME NEW notes \in Seq(Notifications), notes # <<>>, NEW d, NEW st,
         WillShow(notes, d, st), NEW e,
         e = IF Head(notes).type = "NewStatus" THEN Head(notes).status ELSE d
  PROVE  WillShow(Tail(notes), e, st)
<1>1. \A i \in DOMAIN Tail(notes) :
        i + 1 \in DOMAIN notes /\ Tail(notes)[i] = notes[i + 1]
  OBVIOUS
<1>2. \A j \in DOMAIN notes : j # 1 => j - 1 \in DOMAIN Tail(notes)
  OBVIOUS
<1>3. 1 \in DOMAIN notes /\ Head(notes) = notes[1]
  OBVIOUS
<1>4. /\ \A j \in DOMAIN notes : j \in Int /\ j >= 1
      /\ \A j \in DOMAIN Tail(notes) : j \in Int /\ j >= 1
  OBVIOUS
<1>5. ASSUME NEW i \in DOMAIN Tail(notes), Tail(notes)[i].type = "NewStatus",
             \A j \in DOMAIN Tail(notes) : j > i => Tail(notes)[j].type # "NewStatus"
      PROVE  Tail(notes)[i].status = st
  <2>1. \A j \in DOMAIN notes : j > i + 1 => notes[j].type # "NewStatus"
    <3>. SUFFICES ASSUME NEW j \in DOMAIN notes, j > i + 1
                  PROVE  notes[j].type # "NewStatus"
      OBVIOUS
    <3>1. j \in Int /\ i \in Int /\ j # 1 /\ j - 1 > i
      BY <1>4
    <3>2. j - 1 \in DOMAIN Tail(notes) /\ Tail(notes)[j - 1] = notes[j]
      BY <1>1, <1>2, <3>1
    <3>. QED
      BY <1>5, <3>1, <3>2
  <2>. QED
    BY <1>1, <1>5, <2>1 DEF WillShow
<1>6. ASSUME \A i \in DOMAIN Tail(notes) : Tail(notes)[i].type # "NewStatus"
      PROVE  e = st
  <2>1. \A j \in DOMAIN notes : j # 1 => notes[j].type # "NewStatus"
    <3>. SUFFICES ASSUME NEW j \in DOMAIN notes, j # 1
                  PROVE  notes[j].type # "NewStatus"
      OBVIOUS
    <3>1. j - 1 \in DOMAIN Tail(notes) /\ Tail(notes)[j - 1] = notes[j]
      BY <1>1, <1>2, <1>4
    <3>. QED
      BY <1>6, <3>1
  <2>2. CASE notes[1].type = "NewStatus"
    <3>1. \A j \in DOMAIN notes : j > 1 => notes[j].type # "NewStatus"
      BY <2>1, <1>4
    <3>. QED
      BY <1>3, <2>2, <3>1 DEF WillShow
  <2>3. CASE ~(notes[1].type = "NewStatus")
    <3>1. \A j \in DOMAIN notes : notes[j].type # "NewStatus"
      BY <2>1, <2>3
    <3>. QED
      BY <1>3, <2>3, <3>1 DEF WillShow
  <2>. QED
    BY <2>2, <2>3
<1>. QED
  BY <1>5, <1>6 DEF WillShow

\* Other commands do not matter for pausing.
LEMMA BeAppendOther ==
  ASSUME NEW cmds \in Seq(Commands), NEW h, NEW st, NEW c \in Commands,
         c.op \notin PauseOps, WillBe(cmds, h, st)
  PROVE  WillBe(Append(cmds, c), h, st)
  BY DEF WillBe

\* The last Pause or Resume decides.
LEMMA BeAppend ==
  ASSUME NEW cmds \in Seq(Commands), NEW h, NEW c \in Commands, c.op \in PauseOps
  PROVE  WillBe(Append(cmds, c), h, Asked(c.op))
  BY DEF WillBe

\* Taking a command.
LEMMA BeTail ==
  ASSUME NEW cmds \in Seq(Commands), cmds # <<>>, NEW h, NEW st,
         WillBe(cmds, h, st), NEW g,
         g = IF Head(cmds).op \in PauseOps THEN Asked(Head(cmds).op) ELSE h
  PROVE  WillBe(Tail(cmds), g, st)
<1>1. \A i \in DOMAIN Tail(cmds) :
        i + 1 \in DOMAIN cmds /\ Tail(cmds)[i] = cmds[i + 1]
  OBVIOUS
<1>2. \A j \in DOMAIN cmds : j # 1 => j - 1 \in DOMAIN Tail(cmds)
  OBVIOUS
<1>3. 1 \in DOMAIN cmds /\ Head(cmds) = cmds[1]
  OBVIOUS
<1>4. /\ \A j \in DOMAIN cmds : j \in Int /\ j >= 1
      /\ \A j \in DOMAIN Tail(cmds) : j \in Int /\ j >= 1
  OBVIOUS
<1>5. ASSUME NEW i \in DOMAIN Tail(cmds), Tail(cmds)[i].op \in PauseOps,
             \A j \in DOMAIN Tail(cmds) : j > i => Tail(cmds)[j].op \notin PauseOps
      PROVE  Asked(Tail(cmds)[i].op) = st
  <2>1. \A j \in DOMAIN cmds : j > i + 1 => cmds[j].op \notin PauseOps
    <3>. SUFFICES ASSUME NEW j \in DOMAIN cmds, j > i + 1
                  PROVE  cmds[j].op \notin PauseOps
      OBVIOUS
    <3>1. j \in Int /\ i \in Int /\ j # 1 /\ j - 1 > i
      BY <1>4
    <3>2. j - 1 \in DOMAIN Tail(cmds) /\ Tail(cmds)[j - 1] = cmds[j]
      BY <1>1, <1>2, <3>1
    <3>. QED
      BY <1>5, <3>1, <3>2
  <2>. QED
    BY <1>1, <1>5, <2>1 DEF WillBe
<1>6. ASSUME \A i \in DOMAIN Tail(cmds) : Tail(cmds)[i].op \notin PauseOps
      PROVE  g = st
  <2>1. \A j \in DOMAIN cmds : j # 1 => cmds[j].op \notin PauseOps
    <3>. SUFFICES ASSUME NEW j \in DOMAIN cmds, j # 1
                  PROVE  cmds[j].op \notin PauseOps
      OBVIOUS
    <3>1. j - 1 \in DOMAIN Tail(cmds) /\ Tail(cmds)[j - 1] = cmds[j]
      BY <1>1, <1>2, <1>4
    <3>. QED
      BY <1>6, <3>1
  <2>2. CASE cmds[1].op \in PauseOps
    <3>1. \A j \in DOMAIN cmds : j > 1 => cmds[j].op \notin PauseOps
      BY <2>1, <1>4
    <3>. QED
      BY <1>3, <2>2, <3>1 DEF WillBe
  <2>3. CASE ~(cmds[1].op \in PauseOps)
    <3>1. \A j \in DOMAIN cmds : cmds[j].op \notin PauseOps
      BY <2>1, <2>3
    <3>. QED
      BY <1>3, <2>3, <3>1 DEF WillBe
  <2>. QED
    BY <2>2, <2>3
<1>. QED
  BY <1>5, <1>6 DEF WillBe

\* Other commands do not matter for the active signals.
LEMMA SampleAppendOther ==
  ASSUME NEW cmds \in Seq(Commands), NEW S, NEW T, NEW c \in Commands,
         c.op # "SetActive", WillSample(cmds, S, T)
  PROVE  WillSample(Append(cmds, c), S, T)
  BY DEF WillSample

\* The last SetActive decides.
LEMMA SampleAppend ==
  ASSUME NEW cmds \in Seq(Commands), NEW S, NEW T
  PROVE  WillSample(Append(cmds, SetActive(T)), S, T)
  BY DEF WillSample, SetActive

\* Taking a command.
LEMMA SampleTail ==
  ASSUME NEW cmds \in Seq(Commands), cmds # <<>>, NEW S, NEW T,
         WillSample(cmds, S, T), NEW R,
         R = IF Head(cmds).op = "SetActive" THEN Head(cmds).ids ELSE S
  PROVE  WillSample(Tail(cmds), R, T)
<1>1. \A i \in DOMAIN Tail(cmds) :
        i + 1 \in DOMAIN cmds /\ Tail(cmds)[i] = cmds[i + 1]
  OBVIOUS
<1>2. \A j \in DOMAIN cmds : j # 1 => j - 1 \in DOMAIN Tail(cmds)
  OBVIOUS
<1>3. 1 \in DOMAIN cmds /\ Head(cmds) = cmds[1]
  OBVIOUS
<1>4. /\ \A j \in DOMAIN cmds : j \in Int /\ j >= 1
      /\ \A j \in DOMAIN Tail(cmds) : j \in Int /\ j >= 1
  OBVIOUS
<1>5. ASSUME NEW i \in DOMAIN Tail(cmds), Tail(cmds)[i].op = "SetActive",
             \A j \in DOMAIN Tail(cmds) : j > i => Tail(cmds)[j].op # "SetActive"
      PROVE  Tail(cmds)[i].ids = T
  <2>1. \A j \in DOMAIN cmds : j > i + 1 => cmds[j].op # "SetActive"
    <3>. SUFFICES ASSUME NEW j \in DOMAIN cmds, j > i + 1
                  PROVE  cmds[j].op # "SetActive"
      OBVIOUS
    <3>1. j \in Int /\ i \in Int /\ j # 1 /\ j - 1 > i
      BY <1>4
    <3>2. j - 1 \in DOMAIN Tail(cmds) /\ Tail(cmds)[j - 1] = cmds[j]
      BY <1>1, <1>2, <3>1
    <3>. QED
      BY <1>5, <3>1, <3>2
  <2>. QED
    BY <1>1, <1>5, <2>1 DEF WillSample
<1>6. ASSUME \A i \in DOMAIN Tail(cmds) : Tail(cmds)[i].op # "SetActive"
      PROVE  R = T
  <2>1. \A j \in DOMAIN cmds : j # 1 => cmds[j].op # "SetActive"
    <3>. SUFFICES ASSUME NEW j \in DOMAIN cmds, j # 1
                  PROVE  cmds[j].op # "SetActive"
      OBVIOUS
    <3>1. j - 1 \in DOMAIN Tail(cmds) /\ Tail(cmds)[j - 1] = cmds[j]
      BY <1>1, <1>2, <1>4
    <3>. QED
      BY <1>6, <3>1
  <2>2. CASE cmds[1].op = "SetActive"
    <3>1. \A j \in DOMAIN cmds : j > 1 => cmds[j].op # "SetActive"
      BY <2>1, <1>4
    <3>. QED
      BY <1>3, <2>2, <3>1 DEF WillSample
  <2>3. CASE ~(cmds[1].op = "SetActive")
    <3>1. \A j \in DOMAIN cmds : cmds[j].op # "SetActive"
      BY <2>1, <2>3
    <3>. QED
      BY <1>3, <2>3, <3>1 DEF WillSample
  <2>. QED
    BY <2>2, <2>3
<1>. QED
  BY <1>5, <1>6 DEF WillSample

-----------------------------------------------------------------------------
(* The status on display.                                                  *)

\* One step of the thread.
LEMMA ThreadStatus ==
  ASSUME SessionInv, SamplerThread, handle,
         Announced # "Initializing" =>
           WillShow(notifications, current_sampler_status, Announced),
         Announced' # "Initializing"
  PROVE  WillShow(notifications', current_sampler_status, Announced')
<1>. USE DEF channels, worker, owner, AtLoop
<1>0. notifications \in Seq(Notifications)
  BY DEF SessionInv, TypeOK, SamplerTypeOK
<1>1. CASE UNCHANGED <<notifications, Announced>>
  BY <1>1
<1>2. CASE EndIteration /\ ~UNCHANGED <<notifications, Announced>>
  <2>1. /\ notifications' = Append(notifications, NewStatus(maybe_new_status))
        /\ Announced' = maybe_new_status
    BY <1>2 DEF EndIteration, Announced
  <2>. QED
    BY <1>0, <2>1, ShowAppendStatus
<1>3. CASE ReportTerminated
  <2>1. /\ notifications' = Append(notifications, NewStatus("Terminated"))
        /\ Announced' = "Terminated"
    BY <1>3 DEF ReportTerminated, Notify, Announced
  <2>. QED
    BY <1>0, <2>1, ShowAppendStatus
<1>4. CASE UNCHANGED Announced /\ (Notify(Info) \/ Notify(ErrorNote))
  <2>1. \E n \in {Info, ErrorNote} : notifications' = Append(notifications, n)
    BY <1>4 DEF Notify
  <2>2. \A n \in {Info, ErrorNote} : n \in Notifications /\ n.type # "NewStatus"
    BY DEF Info, ErrorNote, Notifications
  <2>. QED
    BY <1>0, <1>4, <2>1, <2>2, ShowAppendOther
<1>5. CASE UNCHANGED Announced /\ notifications' = notifications \o <<Info, Info>>
  <2>1. notifications \o <<Info, Info>> = Append(Append(notifications, Info), Info)
    BY <1>0
  <2>2. Info \in Notifications /\ Info.type # "NewStatus"
    BY DEF Info, Notifications
  <2>3. /\ Append(notifications, Info) \in Seq(Notifications)
        /\ WillShow(Append(notifications, Info), current_sampler_status, Announced)
    BY <1>0, <1>5, <2>2, ShowAppendOther
  <2>4. WillShow(Append(Append(notifications, Info), Info),
                 current_sampler_status, Announced)
    BY <2>2, <2>3, ShowAppendOther
  <2>. QED
    BY <1>5, <2>1, <2>4
<1>6. CASE RTTSetup \/ RTTRate \/ ReportError
  <2>1. UNCHANGED Announced
    BY <1>6 DEF RTTSetup, RTTRate, ReportError, Announced
  <2>. QED
    BY <1>1, <1>4, <1>5, <1>6, <2>1 DEF RTTSetup, RTTRate, ReportError
<1>7. CASE FakeTerminated \/ MemTerminated \/ RTTTerminated \/ ThreadReturns
  BY <1>1, <1>7 DEF FakeTerminated, MemTerminated, RTTTerminated, ThreadReturns,
                    Announced
<1>8. CASE FakeInitializing \/ FakeCommand \/ FakeSample \/ MemSetup
           \/ MemInitializing \/ MemSampling \/ RTTInitializing \/ RTTPoll \/ Deliver
  BY <1>1, <1>8 DEF FakeInitializing, FakeCommand, FakeSample, MemSetup,
     MemInitializing, MemSampling, RTTInitializing, RTTPoll, Deliver, Announced
<1>9. ASSUME NEW k, NEW S, PausedCommand(k) \/ Disconnected(k, S)
      PROVE  UNCHANGED <<notifications, Announced>>
  BY <1>9 DEF PausedCommand, Disconnected, Announced
<1>. QED
  BY <1>1, <1>2, <1>3, <1>6, <1>7, <1>8, <1>9
     DEF SamplerThread, FakeNext, MemNext, RTTNext, EpilogueNext

\* One step of the system.
LEMMA NextStatus ==
  SessionInv /\ StatusAgreement /\ [Next]_vars => StatusAgreement'
<1>. SUFFICES ASSUME SessionInv, StatusAgreement, [Next]_vars,
                     handle', Announced' # "Initializing"
              PROVE  WillShow(notifications', current_sampler_status', Announced')
  BY DEF StatusAgreement
<1>. USE DEF channels, worker, owner, gui, shown, plotted, settings
<1>1. CASE SamplerThread
  <2>1. handle /\ UNCHANGED current_sampler_status
    BY <1>1, ThreadEffects
  <2>. QED
    BY <1>1, <2>1, ThreadStatus DEF StatusAgreement
<1>2. CASE HandleNotification
  <2>1. /\ handle /\ notifications # <<>> /\ notifications' = Tail(notifications)
        /\ Announced' = Announced
        /\ notifications \in Seq(Notifications)
    BY <1>2 DEF HandleNotification, Announced, SessionInv, TypeOK, SamplerTypeOK
  <2>2. current_sampler_status' =
          IF Head(notifications).type = "NewStatus" THEN Head(notifications).status
          ELSE current_sampler_status
    BY <1>2 DEF HandleNotification
  <2>3. WillShow(notifications, current_sampler_status, Announced)
    BY <2>1 DEF StatusAgreement
  <2>. QED
    BY <2>1, <2>2, <2>3, ShowTail
<1>3. ASSUME NEW l, Connect(l) PROVE FALSE
  BY <1>3 DEF Connect, Spawn, Announced
<1>4. CASE JoinReturns \/ CloseWindow \/ ConnectPanics
  BY <1>4 DEF JoinReturns, CloseWindow, ConnectPanics
<1>5. CASE UNCHANGED <<handle, notifications, current_sampler_status, tpc, status>>
  BY <1>5 DEF StatusAgreement, Announced
<1>. QED
  BY <1>1, <1>2, <1>3, <1>4, <1>5
     DEF Next, HandleMessages, UserInput, vars, StopTerminated, NotesDone,
         HandleSample, SamplesDone, NoInput, ClickConnect, ClickDisconnect,
         ClickPause, ClickResume, ToggleSignal, ClickAddAddress, AddCancel,
         AddAddress, SelectMethod, ConnectCancel, ConnectFails, CloseError,
         ExportData, ToggleTruncate, SetKeep

\* No status change of the thread is lost or overtaken on its way to the display.
THEOREM StatusCorrect == Spec => []StatusAgreement
<1>1. Init => StatusAgreement
  BY DEF Init, StatusAgreement
<1>. QED
  BY <1>1, SessionInvariance, NextStatus, PTL DEF Spec

-----------------------------------------------------------------------------
(* Pausing and the signals sampled.                                        *)

\* The inductive invariant for a thread the GUI is connected to: it agrees with
\* the user, and it has not been told to stop, which only stop() does.
Agreed ==
  /\ ~StopIn(commands) /\ "Terminated" \notin {status, maybe_new_status}
  /\ WillBe(commands, Heading, wanted)
  /\ kind # "RTT" => WillSample(commands, active, EnabledIds(signals))

\* The thread takes a command.
LEMMA TakeAgreed ==
  ASSUME SessionInv, Agreed, TakeCommand, tpc = "loop",
         status \in {"Sampling", "Paused"},
         UNCHANGED <<status, wanted, kind, signals>>
  PROVE  Agreed'
<1>1. /\ commands \in Seq(Commands) /\ commands # <<>>
      /\ commands' = Tail(commands) /\ maybe_new_status = None
  BY DEF TakeCommand, SessionInv, TypeOK, SamplerTypeOK, PendingStatus
<1>2. Head(commands) \in Commands /\ Head(commands) = commands[1] /\ 1 \in DOMAIN commands
  BY <1>1
<1>3. Head(commands).op \in {"SetActive", "Pause", "Resume"}
  BY <1>2 DEF Agreed, StopIn, Commands
<1>4. maybe_new_status' = StatusFor(status, Head(commands).op)
  BY DEF TakeCommand
<1>5. /\ maybe_new_status' \in {"Paused", "Sampling", None}
      /\ Heading' = IF Head(commands).op \in PauseOps
                    THEN Asked(Head(commands).op) ELSE Heading
  <2>1. Heading = status
    BY <1>1 DEF Heading
  <2>2. CASE Head(commands).op = "SetActive"
    BY <1>4, <2>1, <2>2 DEF StatusFor, Heading, PauseOps, None
  <2>3. CASE Head(commands).op = "Pause"
    BY <1>4, <2>1, <2>3 DEF StatusFor, Heading, PauseOps, Asked, None
  <2>4. CASE Head(commands).op = "Resume"
    BY <1>4, <2>1, <2>4 DEF StatusFor, Heading, PauseOps, Asked, None
  <2>. QED
    BY <1>3, <2>2, <2>3, <2>4
<1>6. ~StopIn(commands')
  <2>1. \A i \in DOMAIN Tail(commands) :
          i + 1 \in DOMAIN commands /\ Tail(commands)[i] = commands[i + 1]
    BY <1>1
  <2>. QED
    BY <1>1, <2>1 DEF Agreed, StopIn
<1>7. WillBe(commands', Heading', wanted)
  BY <1>1, <1>5, BeTail DEF Agreed
<1>8. kind # "RTT" => WillSample(commands', active', EnabledIds(signals))
  <2>1. active' = IF Head(commands).op = "SetActive" THEN Head(commands).ids ELSE active
    BY DEF TakeCommand
  <2>. QED
    BY <1>1, <2>1, SampleTail DEF Agreed
<1>9. EnabledIds(signals)' = EnabledIds(signals)
  BY DEF EnabledIds
<1>. QED
  BY <1>5, <1>6, <1>7, <1>8, <1>9 DEF Agreed, None

\* One step of the thread.
LEMMA ThreadAgreed ==
  ASSUME SessionInv, handle, Agreed, SamplerThread, Running'
  PROVE  Agreed'
<1>1. ThreadEffect /\ UNCHANGED <<handle, wanted, kind, signals>>
  BY ThreadEffects DEF owner, gui, plotted
<1>2. EnabledIds(signals)' = EnabledIds(signals)
  BY <1>1 DEF EnabledIds
<1>3. CASE UNCHANGED <<commands, status, maybe_new_status, active>>
  BY <1>1, <1>2, <1>3 DEF Agreed, StopIn, Heading
<1>4. CASE /\ tpc = "loop" /\ status = "Initializing"
           /\ maybe_new_status' = "Sampling"
           /\ UNCHANGED <<commands, status, active>>
  <2>1. maybe_new_status = None
    BY <1>4 DEF SessionInv, PendingStatus
  <2>2. Heading' = Heading
    BY <1>4, <2>1 DEF Heading, None
  <2>. QED
    BY <1>1, <1>2, <1>4, <2>2 DEF Agreed, StopIn
<1>5. CASE /\ tpc = "loop" /\ status \in {"Sampling", "Paused"} /\ TakeCommand
           /\ UNCHANGED status
  BY <1>1, <1>5, TakeAgreed
<1>6. CASE EndIteration
  <2>1. Heading' = Heading /\ "Terminated" \notin {status', maybe_new_status'}
    BY <1>6 DEF EndIteration, Heading, Agreed, SessionInv, PendingStatus, None
  <2>2. UNCHANGED <<commands, active>>
    BY <1>6 DEF EndIteration
  <2>. QED
    BY <1>1, <1>2, <2>1, <2>2 DEF Agreed, StopIn
<1>7. tpc' \notin {"err", "errterm", "exit", "finished"}
  BY DEF Running
<1>. QED
  BY <1>1, <1>3, <1>4, <1>5, <1>6, <1>7 DEF ThreadEffect, NoCommand

\* A step of the GUI that touches neither commands, signals nor the intent.
LEMMA QuietAgreed ==
  ASSUME Agreed, UNCHANGED <<commands, status, maybe_new_status, active, kind,
                             wanted, EnabledIds(signals)>>
  PROVE  Agreed'
  BY DEF Agreed, StopIn, Heading

\* Pause, Resume or a checkbox sends a command to a running thread.
LEMMA SendAgreed ==
  ASSUME SessionInv, Agreed, Running, NEW c \in Commands, SendCommand(c),
         UNCHANGED <<status, maybe_new_status, active, kind>>,
         \/ /\ c.op \in PauseOps
            /\ wanted' = Asked(c.op)
            /\ UNCHANGED signals
         \/ /\ c = SetActive(EnabledIds(signals'))
            /\ UNCHANGED wanted
  PROVE  Agreed'
<1>1. commands \in Seq(Commands) /\ commands' = Append(commands, c)
  BY DEF SendCommand, SessionInv, TypeOK, SamplerTypeOK
<1>2. c.op \in {"Pause", "Resume", "SetActive"}
  BY DEF PauseOps, SetActive
<1>3. ~StopIn(commands')
  BY <1>1, <1>2 DEF Agreed, StopIn
<1>4. Heading' = Heading
  BY DEF Heading
<1>5. CASE c.op \in PauseOps /\ wanted' = Asked(c.op) /\ UNCHANGED signals
  <2>1. WillBe(commands', Heading', wanted')
    BY <1>1, <1>5, BeAppend
  <2>2. kind # "RTT" => WillSample(commands', active, EnabledIds(signals))
    BY <1>1, <1>5, SampleAppendOther DEF Agreed, PauseOps
  <2>3. EnabledIds(signals)' = EnabledIds(signals)
    BY <1>5 DEF EnabledIds
  <2>. QED
    BY <1>3, <2>1, <2>2, <2>3 DEF Agreed
<1>6. CASE c = SetActive(EnabledIds(signals')) /\ UNCHANGED wanted
  <2>1. c.op \notin PauseOps
    BY <1>6 DEF SetActive, PauseOps
  <2>2. WillBe(commands', Heading', wanted')
    BY <1>1, <1>4, <1>6, <2>1, BeAppendOther DEF Agreed
  <2>3. WillSample(commands', active', EnabledIds(signals'))
    BY <1>1, <1>6, SampleAppend
  <2>. QED
    BY <1>3, <2>2, <2>3 DEF Agreed
<1>. QED
  BY <1>5, <1>6

\* A checkbox is clicked while a thread runs.
LEMMA ToggleAgreed ==
  ASSUME SessionInv, Agreed, Running, handle,
         NEW i \in DOMAIN signals, ToggleSignal(i)
  PROVE  Agreed'
<1>1. UNCHANGED <<status, maybe_new_status, active, kind, wanted>>
  BY DEF ToggleSignal, worker, owner
<1>2. set_active_signals(kind, EnabledIds(signals'))
  BY DEF ToggleSignal
<1>3. CASE kind = "RTT"
  <2>1. UNCHANGED commands
    BY <1>2, <1>3 DEF set_active_signals
  <2>. QED
    BY <1>1, <1>3, <2>1 DEF Agreed, StopIn, Heading
<1>4. CASE kind # "RTT"
  <2>. DEFINE c == SetActive(EnabledIds(signals'))
  <2>1. SendCommand(c)
    BY <1>2, <1>4 DEF set_active_signals
  <2>2. signals' \in Seq(Signals)
    <3>1. UserInput
      BY DEF UserInput
    <3>. QED
      BY <3>1, NextType DEF SessionInv, Next, TypeOK, GuiTypeOK
  <2>3. EnabledIds(signals') \in IdBags
    BY <2>2, EnabledType
  <2>4. c \in Commands
    BY <2>3, MessageTypes
  <2>. QED
    BY <1>1, <2>1, <2>4, SendAgreed
<1>. QED
  BY <1>3, <1>4

\* A new entry of the sidebar is not enabled.
LEMMA AddKeepsEnabled ==
  ASSUME NEW sigs \in Seq(Signals), NEW id \in Ids
  PROVE  EnabledIds(Append(sigs, [id |-> id, enabled |-> FALSE])) = EnabledIds(sigs)
<1>. DEFINE new == Append(sigs, [id |-> id, enabled |-> FALSE])
<1>1. /\ DOMAIN new = 1 .. Len(sigs) + 1 /\ DOMAIN sigs = 1 .. Len(sigs)
      /\ \A i \in 1 .. Len(sigs) : new[i] = sigs[i]
      /\ new[Len(sigs) + 1].enabled = FALSE
  OBVIOUS
<1>. HIDE DEF new
<1>2. ASSUME NEW k
      PROVE  {j \in DOMAIN new : new[j].enabled /\ new[j].id = k}
               = {j \in DOMAIN sigs : sigs[j].enabled /\ sigs[j].id = k}
  <2>1. \A j \in 1 .. Len(sigs) + 1 : j \in 1 .. Len(sigs) \/ j = Len(sigs) + 1
    OBVIOUS
  <2>2. 1 .. Len(sigs) \subseteq 1 .. Len(sigs) + 1
    OBVIOUS
  <2>. QED
    BY <1>1, <2>1, <2>2
<1>3. EnabledIds(new) = EnabledIds(sigs)
  BY ONLY <1>2 DEF EnabledIds
<1>. QED
  BY <1>3 DEF new

\* A new sidebar has its first signal enabled, if there is one.
LEMMA NewEnabled ==
  ASSUME NEW l \in Seq(Ids)
  PROVE  EnabledIds(NewSignals(l)) = Once(IF l = <<>> THEN {} ELSE {l[1]})
<1>. DEFINE new == NewSignals(l)
<1>1. /\ DOMAIN new = DOMAIN l
      /\ \A i \in DOMAIN l : new[i].id = l[i] /\ (new[i].enabled <=> i = 1)
  BY DEF NewSignals
<1>. HIDE DEF new
<1>2. l # <<>> => 1 \in DOMAIN l
  OBVIOUS
<1>3. l = <<>> => DOMAIN l = {}
  OBVIOUS
<1>4. ASSUME NEW k \in Ids
      PROVE  Cardinality({i \in DOMAIN new : new[i].enabled /\ new[i].id = k})
               = IF k \in (IF l = <<>> THEN {} ELSE {l[1]}) THEN 1 ELSE 0
  <2>1. CASE l # <<>> /\ k = l[1]
    <3>1. {i \in DOMAIN new : new[i].enabled /\ new[i].id = k} = {1}
      BY <1>1, <1>2, <2>1
    <3>. QED
      BY <2>1, <3>1, FS_Singleton
  <2>2. CASE ~(l # <<>> /\ k = l[1])
    <3>1. {i \in DOMAIN new : new[i].enabled /\ new[i].id = k} = {}
      BY <1>1, <1>3, <2>2
    <3>. QED
      BY <2>2, <3>1, FS_EmptySet
  <2>. QED
    BY <2>1, <2>2
<1>5. EnabledIds(new) = Once(IF l = <<>> THEN {} ELSE {l[1]})
  BY ONLY <1>4 DEF EnabledIds, Once
<1>. QED
  BY <1>5 DEF new

\* A thread that has just been started.
LEMMA ConnectAgreed ==
  ASSUME SessionInv, NEW l \in AvailableLists(sampling_method), Connect(l)
  PROVE  Agreed'
<1>1. /\ status' = "Initializing" /\ maybe_new_status' = None /\ active' = Once({})
      /\ kind' = sampling_method /\ wanted' = "Sampling"
      /\ signals' = NewSignals(l)
      /\ commands' = IF l = <<>> \/ sampling_method = "RTT" THEN <<>>
                     ELSE <<SetActive(Once({l[1]}))>>
  BY DEF Connect, Spawn
<1>2. Heading' = "Sampling"
  BY <1>1 DEF Heading
<1>3. l \in Seq(Ids)
  BY AvailableTyped DEF SessionInv, TypeOK, GuiTypeOK
<1>4. CASE l = <<>>
  <2>1. EnabledIds(signals') = Once({})
    BY <1>1, <1>3, <1>4, NewEnabled
  <2>2. WillSample(commands', active', EnabledIds(signals'))
    BY <1>1, <1>4, <2>1 DEF WillSample
  <2>. QED
    BY <1>1, <1>2, <1>4, <2>2 DEF Agreed, StopIn, WillBe, None
<1>5. CASE l # <<>>
  <2>1. 1 \in DOMAIN l
    BY <1>3, <1>5
  <2>2. EnabledIds(signals') = Once({l[1]})
    BY <1>1, <1>3, <1>5, NewEnabled
  <2>3. CASE sampling_method = "RTT"
    BY <1>1, <1>2, <2>3 DEF Agreed, StopIn, WillBe, None
  <2>4. CASE sampling_method # "RTT"
    <3>1. commands' = <<SetActive(Once({l[1]}))>>
      BY <1>1, <1>5, <2>4
    <3>2. /\ DOMAIN commands' = {1} /\ commands'[1].op = "SetActive"
          /\ commands'[1].ids = Once({l[1]})
      BY <3>1 DEF SetActive
    <3>3. ~StopIn(commands')
      BY <3>2 DEF StopIn
    <3>4. WillBe(commands', Heading', wanted')
      BY <1>1, <1>2, <3>2 DEF WillBe, PauseOps
    <3>5. WillSample(commands', active', EnabledIds(signals'))
      BY <2>2, <3>2 DEF WillSample
    <3>. QED
      BY <1>1, <3>3, <3>4, <3>5 DEF Agreed, None
  <2>. QED
    BY <2>3, <2>4
<1>. QED
  BY <1>4, <1>5

\* One step of the system.
LEMMA NextCommands ==
  ASSUME SessionInv, connected /\ Running => Agreed, [Next]_vars,
         connected', Running'
  PROVE  Agreed'
<1>. USE DEF channels, worker, owner, gui, shown, plotted, settings, connected
<1>1. CASE SamplerThread
  <2>1. handle /\ uipc # "Join" /\ ThreadEffect
    BY <1>1, ThreadEffects
  <2>2. Running
    BY <2>1 DEF Running, ThreadEffect, EndIteration
  <2>. QED
    BY <1>1, <2>1, <2>2, ThreadAgreed
<1>2. CASE /\ UNCHANGED <<commands, status, maybe_new_status, active, kind,
                          wanted, signals, tpc, handle>>
           /\ uipc # "Join"
  <2>1. Running
    BY <1>2 DEF Running
  <2>2. UNCHANGED EnabledIds(signals)
    BY <1>2
  <2>. QED
    BY <1>2, <2>1, <2>2, QuietAgreed
<1>3. CASE ClickPause \/ ClickResume
  <2>1. Running /\ uipc # "Join" /\ handle
    BY <1>3 DEF ClickPause, ClickResume, Running
  <2>2. \E c \in {Cmd("Pause"), Cmd("Resume")} :
          SendCommand(c) /\ wanted' = Asked(c.op)
    BY <1>3 DEF ClickPause, ClickResume, pause, resume, Cmd, Asked
  <2>3. \A c \in {Cmd("Pause"), Cmd("Resume")} : c \in Commands /\ c.op \in PauseOps
    BY MessageTypes DEF Cmd, PauseOps
  <2>4. UNCHANGED <<status, maybe_new_status, active, kind, signals>>
    BY <1>3 DEF ClickPause, ClickResume
  <2>. QED
    BY <2>1, <2>2, <2>3, <2>4, SendAgreed
<1>4. ASSUME NEW i \in DOMAIN signals, ToggleSignal(i) PROVE Agreed'
  <2>1. Running /\ uipc # "Join" /\ handle
    BY <1>4 DEF ToggleSignal, Running
  <2>. QED
    BY <1>4, <2>1, ToggleAgreed
<1>5. ASSUME NEW id \in Ids, AddAddress(id) PROVE Agreed'
  <2>1. Running /\ uipc # "Join" /\ handle
    BY <1>5 DEF AddAddress, Running
  <2>2. UNCHANGED EnabledIds(signals)
    BY <1>5, AddKeepsEnabled DEF AddAddress, SessionInv, TypeOK, GuiTypeOK
  <2>. QED
    BY <1>5, <2>1, <2>2, QuietAgreed DEF AddAddress
<1>6. ASSUME NEW l \in AvailableLists(sampling_method), Connect(l) PROVE Agreed'
  BY <1>6, ConnectAgreed
<1>7. CASE JoinReturns \/ CloseWindow \/ ConnectPanics
  BY <1>7 DEF JoinReturns, CloseWindow, ConnectPanics
<1>8. CASE StopTerminated \/ ClickDisconnect
  BY <1>8 DEF StopTerminated, ClickDisconnect
<1>9. CASE HandleNotification \/ NotesDone \/ HandleSample \/ SamplesDone
           \/ NoInput \/ ClickConnect \/ ClickAddAddress \/ AddCancel
           \/ ConnectCancel \/ ConnectFails \/ CloseError \/ ExportData
           \/ ToggleTruncate
  BY <1>2, <1>9 DEF HandleNotification, NotesDone, HandleSample, SamplesDone,
     NoInput, ClickConnect, ClickAddAddress, AddCancel, ConnectCancel,
     ConnectFails, CloseError, ExportData, ToggleTruncate
<1>10. ASSUME NEW v, SelectMethod(v) \/ SetKeep(v) PROVE Agreed'
  BY <1>2, <1>10 DEF SelectMethod, SetKeep
<1>11. CASE UNCHANGED vars
  BY <1>2, <1>11 DEF vars
<1>. QED
  BY <1>1, <1>3, <1>4, <1>5, <1>6, <1>7, <1>8, <1>9, <1>10, <1>11
     DEF Next, HandleMessages, UserInput

\* The invariant holds throughout.
LEMMA AgreedInvariance == Spec => [](connected /\ Running => Agreed)
<1>1. Init => (connected /\ Running => Agreed)
  BY DEF Init, connected
<1>2. SessionInv /\ (connected /\ Running => Agreed) /\ [Next]_vars
        => (connected /\ Running => Agreed)'
  BY NextCommands
<1>. QED
  BY <1>1, <1>2, SessionInvariance, PTL DEF Spec

\* The thread ends up in the status the user last asked for: Pause and Resume
\* are neither lost nor reordered, and none of them is ignored for good, however
\* late the status they were clicked on was.
THEOREM IntentCorrect == Spec => []IntentAgreement
<1>1. (connected /\ Running => Agreed) => IntentAgreement
  BY DEF Agreed, IntentAgreement
<1>. QED
  BY <1>1, AgreedInvariance, PTL

\* The thread ends up sampling the signals ticked in the sidebar.
THEOREM ActiveCorrect == Spec => []ActiveAgreement
<1>1. (connected /\ Running => Agreed) => ActiveAgreement
  BY DEF Agreed, ActiveAgreement
<1>. QED
  BY <1>1, AgreedInvariance, PTL

-----------------------------------------------------------------------------
(* OCDScope, with its channels and its threads, implements Session.  What  *)
(* has to be shown is that the notifications on their way to the GUI are   *)
(* in a legal order, whenever the GUI gets round to handling them, and     *)
(* that the end of a session is acted upon in the frame that sees it.      *)

IsStatus(n, s) == n.type = "NewStatus" /\ n.status = s

\* The notifications before the j-th leave the status s on display.
ShownBefore(notes, j, displayed, s) ==
  /\ \A i \in DOMAIN notes :
       /\ i < j /\ notes[i].type = "NewStatus"
       /\ \A k \in DOMAIN notes : i < k /\ k < j => notes[k].type # "NewStatus"
       => notes[i].status = s
  /\ (\A i \in DOMAIN notes : i < j => notes[i].type # "NewStatus") => displayed = s

\* Statuses in a legal order: one pauses only while sampling, Terminated is the
\* last one, and Initializing is never among them.
LegalNotes(notes, displayed) ==
  \A j \in DOMAIN notes :
    /\ ~IsStatus(notes[j], "Initializing") /\ ~IsStatus(notes[j], None)
    /\ IsStatus(notes[j], "Paused") => ShownBefore(notes, j, displayed, "Sampling")
    /\ IsStatus(notes[j], "Terminated") =>
         \A k \in DOMAIN notes :
           k > j /\ notes[k].type = "NewStatus" => notes[k].status = "Terminated"

\* The end was seen: only the end can be reported again.
OnlyTheEnd(notes) ==
  \A j \in DOMAIN notes : notes[j].type = "NewStatus" => notes[j].status = "Terminated"

EndIn(notes) == \E j \in DOMAIN notes : IsStatus(notes[j], "Terminated")

Reports ==
  handle =>
    /\ LegalNotes(notifications, current_sampler_status)
    /\ EndIn(notifications) \/ sampler_terminated => Announced = "Terminated"
    /\ sampler_terminated =>
         current_sampler_status = "Terminated" /\ OnlyTheEnd(notifications)

\* Where the GUI is while it plots or knows of the end, and when a thread pauses.
Frames ==
  /\ uipc = "Samples" => handle
  /\ sampler_terminated => uipc = "Notes" /\ handle
  /\ maybe_new_status = "Paused" => status = "Sampling"

RefInv ==
  /\ SessionInv
  /\ StatusAgreement
  /\ Reports
  /\ Frames

-----------------------------------------------------------------------------
(* LegalNotes under Append and Tail.                                       *)

\* The elements of a longer queue.
LEMMA AppendElements ==
  ASSUME NEW notes \in Seq(Notifications), NEW n \in Notifications
  PROVE  /\ Append(notes, n) \in Seq(Notifications)
         /\ DOMAIN Append(notes, n) = 1 .. Len(notes) + 1
         /\ DOMAIN notes = 1 .. Len(notes) /\ Len(notes) \in Nat
         /\ Append(notes, n)[Len(notes) + 1] = n
         /\ \A i \in DOMAIN notes : Append(notes, n)[i] = notes[i]
  OBVIOUS

\* A notification that is no status.
LEMMA LegalAppendOther ==
  ASSUME NEW notes \in Seq(Notifications), NEW d, NEW n \in Notifications,
         n.type # "NewStatus", LegalNotes(notes, d)
  PROVE  /\ LegalNotes(Append(notes, n), d)
         /\ EndIn(Append(notes, n)) => EndIn(notes)
         /\ OnlyTheEnd(notes) => OnlyTheEnd(Append(notes, n))
<1>. DEFINE m == Append(notes, n)
            L == Len(notes)
<1>1. /\ DOMAIN m = 1 .. L + 1 /\ DOMAIN notes = 1 .. L /\ L \in Nat
      /\ m[L + 1] = n /\ \A i \in 1 .. L : m[i] = notes[i]
  BY AppendElements
<1>. HIDE DEF m, L
<1>2. \A i \in 1 .. L + 1 : i \in 1 .. L \/ i = L + 1
  BY <1>1
<1>3. \A i \in 1 .. L : i \in 1 .. L + 1
  BY <1>1
<1>4. ASSUME NEW j \in DOMAIN m
      PROVE  /\ ~IsStatus(m[j], "Initializing") /\ ~IsStatus(m[j], None)
             /\ IsStatus(m[j], "Paused") => ShownBefore(m, j, d, "Sampling")
             /\ IsStatus(m[j], "Terminated") =>
                  \A k \in DOMAIN m : k > j /\ m[k].type = "NewStatus"
                                        => m[k].status = "Terminated"
  <2>1. CASE j = L + 1
    BY <1>1, <2>1 DEF IsStatus
  <2>2. CASE j \in 1 .. L
    <3>1. IsStatus(notes[j], "Paused") => ShownBefore(m, j, d, "Sampling")
      <4>. SUFFICES ASSUME ShownBefore(notes, j, d, "Sampling")
                    PROVE  ShownBefore(m, j, d, "Sampling")
        BY <1>1, <2>2 DEF LegalNotes
      <4>1. \A i \in DOMAIN m : i < j => i \in 1 .. L
        BY <1>1, <2>2
      <4>2. \A i \in DOMAIN notes : i \in DOMAIN m /\ m[i] = notes[i]
        BY <1>1, <1>3
      <4>. QED
        BY <1>1, <4>1, <4>2 DEF ShownBefore
    <3>2. m[j] = notes[j] /\ j \in DOMAIN notes
      BY <1>1, <2>2
    <3>3. IsStatus(m[j], "Terminated") =>
            \A k \in DOMAIN m : k > j /\ m[k].type = "NewStatus"
                                  => m[k].status = "Terminated"
      BY <1>1, <1>2, <3>2 DEF LegalNotes
    <3>. QED
      BY <3>1, <3>2, <3>3 DEF LegalNotes
  <2>. QED
    BY <1>1, <1>2, <2>1, <2>2
<1>5. LegalNotes(m, d)
  BY <1>4 DEF LegalNotes
<1>6. EndIn(m) => EndIn(notes)
  BY <1>1, <1>2 DEF EndIn, IsStatus
<1>7. OnlyTheEnd(notes) => OnlyTheEnd(m)
  BY <1>1, <1>2 DEF OnlyTheEnd
<1>. QED
  BY <1>5, <1>6, <1>7 DEF m

\* A status: no end has been reported yet, or it is the end; Paused follows
\* Sampling.
LEMMA LegalAppendStatus ==
  ASSUME NEW notes \in Seq(Notifications), NEW d,
         NEW s \in {"Sampling", "Paused", "Terminated"},
         LegalNotes(notes, d),
         s = "Terminated" \/ ~EndIn(notes),
         s = "Paused" => WillShow(notes, d, "Sampling")
  PROVE  /\ LegalNotes(Append(notes, NewStatus(s)), d)
         /\ EndIn(Append(notes, NewStatus(s))) => s = "Terminated"
         /\ OnlyTheEnd(notes) /\ s = "Terminated"
              => OnlyTheEnd(Append(notes, NewStatus(s)))
<1>. DEFINE n == NewStatus(s)
            m == Append(notes, n)
            L == Len(notes)
<1>0. n \in Notifications /\ n.type = "NewStatus" /\ n.status = s
  BY DEF NewStatus, Notifications, Statuses
<1>1. /\ DOMAIN m = 1 .. L + 1 /\ DOMAIN notes = 1 .. L /\ L \in Nat
      /\ m[L + 1] = n /\ \A i \in 1 .. L : m[i] = notes[i]
  BY <1>0, AppendElements
<1>. HIDE DEF n, m, L
<1>2. \A i \in 1 .. L + 1 : i \in 1 .. L \/ i = L + 1
  BY <1>1
<1>3. \A i \in 1 .. L : i \in 1 .. L + 1 /\ i < L + 1
  BY <1>1
<1>4. ASSUME NEW j \in DOMAIN m
      PROVE  /\ ~IsStatus(m[j], "Initializing") /\ ~IsStatus(m[j], None)
             /\ IsStatus(m[j], "Paused") => ShownBefore(m, j, d, "Sampling")
             /\ IsStatus(m[j], "Terminated") =>
                  \A k \in DOMAIN m : k > j /\ m[k].type = "NewStatus"
                                        => m[k].status = "Terminated"
  <2>1. CASE j = L + 1
    <3>1. m[j] = n /\ \A k \in DOMAIN m : ~(k > j)
      BY <1>1, <2>1
    <3>2. s = "Paused" => ShownBefore(m, j, d, "Sampling")
      <4>. SUFFICES ASSUME WillShow(notes, d, "Sampling")
                    PROVE  ShownBefore(m, j, d, "Sampling")
        OBVIOUS
      <4>1. \A i \in DOMAIN m : i < j => i \in DOMAIN notes /\ m[i] = notes[i]
        BY <1>1, <2>1
      <4>2. \A i \in DOMAIN notes : i \in DOMAIN m /\ i < j /\ m[i] = notes[i]
        BY <1>1, <1>3, <2>1
      <4>. QED
        BY <4>1, <4>2 DEF ShownBefore, WillShow
    <3>. QED
      BY <1>0, <3>1, <3>2 DEF IsStatus, None
  <2>2. CASE j \in 1 .. L
    <3>1. IsStatus(notes[j], "Paused") => ShownBefore(m, j, d, "Sampling")
      <4>. SUFFICES ASSUME ShownBefore(notes, j, d, "Sampling")
                    PROVE  ShownBefore(m, j, d, "Sampling")
        BY <1>1, <2>2 DEF LegalNotes
      <4>1. \A i \in DOMAIN m : i < j => i \in 1 .. L
        BY <1>1, <2>2
      <4>2. \A i \in DOMAIN notes : i \in DOMAIN m /\ m[i] = notes[i]
        BY <1>1, <1>3
      <4>. QED
        BY <1>1, <4>1, <4>2 DEF ShownBefore
    <3>2. m[j] = notes[j] /\ j \in DOMAIN notes
      BY <1>1, <2>2
    <3>3. ASSUME IsStatus(m[j], "Terminated"), NEW k \in DOMAIN m, k > j,
                 m[k].type = "NewStatus"
          PROVE  m[k].status = "Terminated"
      <4>1. EndIn(notes)
        BY <3>2, <3>3 DEF EndIn
      <4>2. s = "Terminated"
        BY <4>1
      <4>. QED
        BY <1>0, <1>1, <1>2, <3>2, <3>3, <4>2 DEF LegalNotes
    <3>. QED
      BY <3>1, <3>2, <3>3 DEF LegalNotes
  <2>. QED
    BY <1>1, <1>2, <2>1, <2>2
<1>5. LegalNotes(m, d)
  BY <1>4 DEF LegalNotes
<1>6. EndIn(m) => s = "Terminated"
  BY <1>0, <1>1, <1>2 DEF EndIn, IsStatus
<1>7. OnlyTheEnd(notes) /\ s = "Terminated" => OnlyTheEnd(m)
  BY <1>0, <1>1, <1>2 DEF OnlyTheEnd
<1>. QED
  BY <1>5, <1>6, <1>7 DEF m, n

\* Handling a notification.
LEMMA LegalTail ==
  ASSUME NEW notes \in Seq(Notifications), notes # <<>>, NEW d, LegalNotes(notes, d),
         NEW e,
         e = IF Head(notes).type = "NewStatus" THEN Head(notes).status ELSE d
  PROVE  /\ LegalNotes(Tail(notes), e)
         /\ EndIn(Tail(notes)) => EndIn(notes)
         /\ OnlyTheEnd(notes) => OnlyTheEnd(Tail(notes))
         /\ IsStatus(Head(notes), "Paused") => d = "Sampling"
         /\ IsStatus(Head(notes), "Terminated") => OnlyTheEnd(Tail(notes)) /\ EndIn(notes)
         /\ Head(notes).type = "NewStatus" =>
              Head(notes).status \in {"Sampling", "Paused", "Terminated"}
<1>. DEFINE r == Tail(notes)
            h == Head(notes)
            L == Len(notes)
<1>1. /\ DOMAIN notes = 1 .. L /\ L \in Nat /\ L >= 1 /\ DOMAIN r = 1 .. L - 1
      /\ h = notes[1] /\ \A i \in 1 .. L - 1 : r[i] = notes[i + 1]
      /\ h \in Notifications
  OBVIOUS
<1>. HIDE DEF r, h, L
<1>2. /\ 1 \in 1 .. L
      /\ \A i \in 1 .. L - 1 : i + 1 \in 1 .. L /\ i + 1 > 1
      /\ \A i \in 1 .. L : i = 1 \/ (i - 1 \in 1 .. L - 1 /\ (i - 1) + 1 = i)
      /\ \A i, j \in 1 .. L - 1 : i < j <=> i + 1 < j + 1
  BY <1>1
<1>3. \A i \in 1 .. L : i = 1 \/ r[i - 1] = notes[i]
  BY <1>1, <1>2
<1>4. ASSUME NEW j \in DOMAIN r
      PROVE  /\ ~IsStatus(r[j], "Initializing") /\ ~IsStatus(r[j], None)
             /\ IsStatus(r[j], "Paused") => ShownBefore(r, j, e, "Sampling")
             /\ IsStatus(r[j], "Terminated") =>
                  \A k \in DOMAIN r : k > j /\ r[k].type = "NewStatus"
                                        => r[k].status = "Terminated"
  <2>1. j + 1 \in DOMAIN notes /\ r[j] = notes[j + 1] /\ j \in 1 .. L - 1
    BY <1>1, <1>2
  <2>2. ASSUME ShownBefore(notes, j + 1, d, "Sampling")
        PROVE  ShownBefore(r, j, e, "Sampling")
    <3>1. ASSUME NEW i \in DOMAIN r, i < j, r[i].type = "NewStatus",
                 \A k \in DOMAIN r : i < k /\ k < j => r[k].type # "NewStatus"
          PROVE  r[i].status = "Sampling"
      <4>1. i + 1 \in DOMAIN notes /\ i + 1 < j + 1 /\ r[i] = notes[i + 1]
        BY <1>1, <1>2, <2>1, <3>1
      <4>2. ASSUME NEW k \in DOMAIN notes, i + 1 < k, k < j + 1
            PROVE  notes[k].type # "NewStatus"
        <5>1. k - 1 \in DOMAIN r /\ i < k - 1 /\ k - 1 < j /\ r[k - 1] = notes[k]
          <6>1. k \in 1 .. L /\ i \in 1 .. L - 1 /\ j \in 1 .. L - 1 /\ L \in Nat
            BY <1>1, <2>1
          <6>2. k # 1 /\ i < k - 1 /\ k - 1 < j
            BY <6>1, <4>2
          <6>. QED
            BY <1>1, <1>2, <1>3, <6>1, <6>2
        <5>. QED
          BY <3>1, <5>1
      <4>. QED
        BY <2>2, <3>1, <4>1, <4>2 DEF ShownBefore
    <3>2. ASSUME \A i \in DOMAIN r : i < j => r[i].type # "NewStatus"
          PROVE  e = "Sampling"
      <4>1. ASSUME NEW k \in DOMAIN notes, 1 < k, k < j + 1
            PROVE  notes[k].type # "NewStatus"
        <5>1. k - 1 \in DOMAIN r /\ k - 1 < j /\ r[k - 1] = notes[k]
          BY <1>1, <1>2, <1>3, <2>1, <4>1
        <5>. QED
          BY <3>2, <5>1
      <4>2. 1 \in DOMAIN notes /\ 1 < j + 1
        BY <1>1, <1>2, <2>1
      <4>3. CASE h.type = "NewStatus"
        <5>1. notes[1].status = "Sampling"
          BY <1>1, <2>2, <4>1, <4>2, <4>3 DEF ShownBefore
        <5>. QED
          BY <1>1, <4>3, <5>1 DEF h
      <4>4. CASE h.type # "NewStatus"
        <5>1. \A k \in DOMAIN notes : k < j + 1 => notes[k].type # "NewStatus"
          <6>. SUFFICES ASSUME NEW k \in DOMAIN notes, k < j + 1
                        PROVE  notes[k].type # "NewStatus"
            OBVIOUS
          <6>1. k = 1 \/ 1 < k
            BY <1>1
          <6>. QED
            BY <1>1, <4>1, <4>4, <6>1
        <5>. QED
          BY <2>2, <4>4, <5>1 DEF ShownBefore, h
      <4>. QED
        BY <4>3, <4>4
    <3>. QED
      BY <3>1, <3>2 DEF ShownBefore
  <2>3. ASSUME IsStatus(r[j], "Terminated"), NEW k \in DOMAIN r, k > j,
               r[k].type = "NewStatus"
        PROVE  r[k].status = "Terminated"
    <3>1. k + 1 \in DOMAIN notes /\ k + 1 > j + 1 /\ r[k] = notes[k + 1]
      BY <1>1, <1>2, <2>1, <2>3
    <3>. QED
      BY <2>1, <2>3, <3>1 DEF LegalNotes
  <2>. QED
    BY <2>1, <2>2, <2>3 DEF LegalNotes
<1>5. LegalNotes(r, e)
  BY <1>4 DEF LegalNotes
<1>6. EndIn(r) => EndIn(notes)
  BY <1>1, <1>2 DEF EndIn
<1>7. OnlyTheEnd(notes) => OnlyTheEnd(r)
  <2>1. \A j \in DOMAIN r : j + 1 \in DOMAIN notes /\ r[j] = notes[j + 1]
    BY <1>1, <1>2
  <2>. QED
    BY ONLY <2>1 DEF OnlyTheEnd
<1>8. IsStatus(h, "Paused") => d = "Sampling"
  <2>. SUFFICES ASSUME ShownBefore(notes, 1, d, "Sampling") PROVE d = "Sampling"
    BY <1>1, <1>2 DEF LegalNotes
  <2>1. \A i \in DOMAIN notes : ~(i < 1)
    BY <1>1
  <2>. QED
    BY <2>1 DEF ShownBefore
<1>9. IsStatus(h, "Terminated") => OnlyTheEnd(r) /\ EndIn(notes)
  BY <1>1, <1>2 DEF LegalNotes, OnlyTheEnd, EndIn
<1>10. h.type = "NewStatus" => h.status \in {"Sampling", "Paused", "Terminated"}
  BY <1>1, <1>2 DEF LegalNotes, IsStatus, Notifications, Statuses
<1>. QED
  BY <1>5, <1>6, <1>7, <1>8, <1>9, <1>10 DEF r, h

-----------------------------------------------------------------------------
(* The invariant.                                                          *)

\* The first state.
LEMMA InitRef == Init => RefInv
<1>1. Init => SessionInv
  BY InitSession
<1>. QED
  BY <1>1 DEF Init, RefInv, StatusAgreement, Reports, Frames, None

\* The thread pauses only while it samples.
LEMMA ThreadFrames ==
  ASSUME SessionInv, Frames, SamplerThread
  PROVE  Frames'
<1>1. ThreadEffect /\ UNCHANGED <<handle, uipc, sampler_terminated>>
  BY ThreadEffects DEF owner, gui, shown
<1>2. maybe_new_status' = "Paused" => status' = "Sampling"
  BY <1>1 DEF ThreadEffect, TakeCommand, NoCommand, StatusFor, EndIteration, Frames,
              SessionInv, PendingStatus, None
<1>. QED
  BY <1>1, <1>2 DEF Frames

\* What the thread sends is legal.
LEMMA ThreadReports ==
  ASSUME RefInv, SamplerThread
  PROVE  Reports'
<1>. SUFFICES ASSUME handle
              PROVE  /\ LegalNotes(notifications', current_sampler_status)
                     /\ EndIn(notifications') \/ sampler_terminated
                          => Announced' = "Terminated"
                     /\ sampler_terminated =>
                          /\ current_sampler_status = "Terminated"
                          /\ OnlyTheEnd(notifications')
  BY ThreadEffects DEF Reports, owner, gui, shown
<1>. USE DEF channels, worker, owner, AtLoop
<1>0. /\ notifications \in Seq(Notifications)
      /\ LegalNotes(notifications, current_sampler_status)
      /\ EndIn(notifications) \/ sampler_terminated => Announced = "Terminated"
      /\ sampler_terminated =>
           current_sampler_status = "Terminated" /\ OnlyTheEnd(notifications)
  BY DEF RefInv, Reports, SessionInv, TypeOK, SamplerTypeOK
<1>1. CASE UNCHANGED <<notifications, Announced>>
  BY <1>0, <1>1
<1>2. CASE EndIteration /\ ~UNCHANGED <<notifications, Announced>>
  <2>. DEFINE s == maybe_new_status
  <2>1. /\ notifications' = Append(notifications, NewStatus(s))
        /\ Announced' = s /\ Announced = status
        /\ status # "Terminated" /\ s \in {"Sampling", "Paused", "Terminated"}
    BY <1>2 DEF EndIteration, Announced, RefInv, SessionInv, PendingStatus, TypeOK,
                SamplerTypeOK, Statuses
  <2>2. ~EndIn(notifications) /\ ~sampler_terminated
    BY <1>0, <2>1
  <2>3. s = "Paused" => WillShow(notifications, current_sampler_status, "Sampling")
    BY <2>1 DEF RefInv, Frames, StatusAgreement
  <2>. QED
    BY <1>0, <2>1, <2>2, <2>3, LegalAppendStatus
<1>3. CASE ReportTerminated
  <2>1. /\ notifications' = Append(notifications, NewStatus("Terminated"))
        /\ Announced' = "Terminated"
    BY <1>3 DEF ReportTerminated, Notify, Announced
  <2>. QED
    BY <1>0, <2>1, LegalAppendStatus
<1>4. CASE UNCHANGED Announced /\ (Notify(Info) \/ Notify(ErrorNote))
  <2>1. \E n \in {Info, ErrorNote} : notifications' = Append(notifications, n)
    BY <1>4 DEF Notify
  <2>2. \A n \in {Info, ErrorNote} : n \in Notifications /\ n.type # "NewStatus"
    BY DEF Info, ErrorNote, Notifications
  <2>. QED
    BY <1>0, <1>4, <2>1, <2>2, LegalAppendOther
<1>5. CASE UNCHANGED Announced /\ notifications' = notifications \o <<Info, Info>>
  <2>1. notifications \o <<Info, Info>> = Append(Append(notifications, Info), Info)
    BY <1>0
  <2>2. Info \in Notifications /\ Info.type # "NewStatus"
    BY DEF Info, Notifications
  <2>. DEFINE m == Append(notifications, Info)
  <2>3. /\ m \in Seq(Notifications)
        /\ LegalNotes(m, current_sampler_status)
        /\ EndIn(m) => EndIn(notifications)
        /\ OnlyTheEnd(notifications) => OnlyTheEnd(m)
    BY <1>0, <2>2, LegalAppendOther
  <2>. HIDE DEF m
  <2>4. /\ LegalNotes(Append(m, Info), current_sampler_status)
        /\ EndIn(Append(m, Info)) => EndIn(m)
        /\ OnlyTheEnd(m) => OnlyTheEnd(Append(m, Info))
    BY <2>2, <2>3, LegalAppendOther
  <2>5. notifications' = Append(m, Info)
    BY <1>5, <2>1 DEF m
  <2>. QED
    BY <1>0, <1>5, <2>3, <2>4, <2>5
<1>6. CASE RTTSetup \/ RTTRate \/ ReportError
  <2>1. UNCHANGED Announced
    BY <1>6 DEF RTTSetup, RTTRate, ReportError, Announced
  <2>. QED
    BY <1>1, <1>4, <1>5, <1>6, <2>1 DEF RTTSetup, RTTRate, ReportError
<1>7. CASE FakeTerminated \/ MemTerminated \/ RTTTerminated \/ ThreadReturns
  BY <1>0, <1>7 DEF FakeTerminated, MemTerminated, RTTTerminated, ThreadReturns,
                    Announced
<1>8. CASE FakeInitializing \/ FakeCommand \/ FakeSample \/ MemSetup
           \/ MemInitializing \/ MemSampling \/ RTTInitializing \/ RTTPoll \/ Deliver
  BY <1>1, <1>8 DEF FakeInitializing, FakeCommand, FakeSample, MemSetup,
     MemInitializing, MemSampling, RTTInitializing, RTTPoll, Deliver, Announced
<1>9. ASSUME NEW k, NEW S, PausedCommand(k) \/ Disconnected(k, S)
      PROVE  UNCHANGED <<notifications, Announced>>
  BY <1>9 DEF PausedCommand, Disconnected, Announced
<1>. QED
  BY <1>1, <1>2, <1>3, <1>6, <1>7, <1>8, <1>9
     DEF SamplerThread, FakeNext, MemNext, RTTNext, EpilogueNext

\* One turn of the notification loop.
LEMMA HandleReports ==
  ASSUME RefInv, HandleNotification
  PROVE  /\ Reports' /\ Frames'
         /\ UNCHANGED <<Phase, Thread, samples, max_time>>
         /\ \/ /\ current_sampler_status' \in {"Sampling", "Paused", "Terminated"}
               /\ current_sampler_status' = "Paused" => current_sampler_status = "Sampling"
               /\ sampler_terminated' = (current_sampler_status' = "Terminated")
               /\ Phase = "live" /\ ~sampler_terminated
            \/ UNCHANGED shown
<1>. DEFINE h == Head(notifications)
            d == current_sampler_status
<1>1. /\ uipc = "Notes" /\ handle /\ notifications # <<>>
      /\ notifications' = Tail(notifications)
      /\ notifications \in Seq(Notifications) /\ h \in Notifications
      /\ UNCHANGED <<handle, uipc, tpc, status, maybe_new_status, samples, max_time>>
  BY DEF HandleNotification, worker, owner, plotted, RefInv, SessionInv, TypeOK,
         SamplerTypeOK
<1>2. Announced' = Announced /\ Phase' = Phase /\ Thread' = Thread /\ Phase = "live"
  BY <1>1 DEF Announced, Phase, Thread
<1>3. d' = IF h.type = "NewStatus" THEN h.status ELSE d
  BY DEF HandleNotification, shown
<1>4. /\ sampler_terminated \in BOOLEAN
      /\ IsStatus(h, "Terminated") => sampler_terminated' = TRUE
      /\ ~IsStatus(h, "Terminated") => sampler_terminated' = sampler_terminated
  <2>1. sampler_terminated \in BOOLEAN
    BY DEF RefInv, SessionInv, TypeOK, GuiTypeOK
  <2>2. CASE h.type # "NewStatus"
    BY <2>1, <2>2 DEF HandleNotification, shown, IsStatus
  <2>3. CASE h.type = "NewStatus"
    <3>1. sampler_terminated' = (sampler_terminated \/ h.status = "Terminated")
      BY <2>3 DEF HandleNotification
    <3>2. CASE h.status = "Terminated"
      BY <2>1, <2>3, <3>1, <3>2 DEF IsStatus
    <3>3. CASE h.status # "Terminated"
      BY <2>1, <2>3, <3>1, <3>3 DEF IsStatus
    <3>. QED
      BY <3>2, <3>3
  <2>. QED
    BY <2>1, <2>2, <2>3
<1>5. /\ LegalNotes(notifications, d)
      /\ EndIn(notifications) \/ sampler_terminated => Announced = "Terminated"
      /\ sampler_terminated => d = "Terminated" /\ OnlyTheEnd(notifications)
  BY <1>1 DEF RefInv, Reports
<1>6. /\ LegalNotes(Tail(notifications), d')
      /\ EndIn(Tail(notifications)) => EndIn(notifications)
      /\ OnlyTheEnd(notifications) => OnlyTheEnd(Tail(notifications))
      /\ IsStatus(h, "Paused") => d = "Sampling"
      /\ IsStatus(h, "Terminated") => OnlyTheEnd(Tail(notifications)) /\ EndIn(notifications)
      /\ h.type = "NewStatus" => h.status \in {"Sampling", "Paused", "Terminated"}
  BY <1>1, <1>3, <1>5, LegalTail
<1>7. OnlyTheEnd(notifications) /\ h.type = "NewStatus" => h.status = "Terminated"
  BY <1>1 DEF OnlyTheEnd
<1>. HIDE DEF h
<1>8. sampler_terminated' => d' = "Terminated" /\ OnlyTheEnd(notifications')
  BY <1>1, <1>3, <1>4, <1>5, <1>6, <1>7 DEF IsStatus
<1>9. EndIn(notifications') \/ sampler_terminated' => Announced' = "Terminated"
  BY <1>1, <1>2, <1>4, <1>5, <1>6
<1>10. Reports'
  BY <1>1, <1>6, <1>8, <1>9 DEF Reports
<1>11. Frames'
  BY <1>1 DEF RefInv, Frames
<1>12. CASE h.type = "NewStatus" /\ ~sampler_terminated
  <2>1. d' = h.status /\ d' \in {"Sampling", "Paused", "Terminated"}
    BY <1>3, <1>6, <1>12
  <2>2. d' = "Paused" => d = "Sampling"
    BY <1>6, <1>12, <2>1 DEF IsStatus
  <2>3. sampler_terminated' = (d' = "Terminated")
    <3>1. CASE d' = "Terminated"
      BY <1>4, <1>12, <2>1, <3>1 DEF IsStatus
    <3>2. CASE d' # "Terminated"
      BY <1>4, <1>12, <2>1, <3>2 DEF IsStatus
    <3>. QED
      BY <3>1, <3>2
  <2>. QED
    BY <1>1, <1>2, <1>10, <1>11, <1>12, <2>1, <2>2, <2>3
<1>13. CASE h.type # "NewStatus"
  <2>1. d' = d /\ sampler_terminated' = sampler_terminated
    BY <1>3, <1>4, <1>13 DEF IsStatus
  <2>. QED
    BY <1>1, <1>2, <1>10, <1>11, <2>1 DEF shown
<1>14. CASE h.type = "NewStatus" /\ sampler_terminated
  <2>1. h.status = "Terminated" /\ d = "Terminated" /\ sampler_terminated = TRUE
    BY <1>4, <1>5, <1>7, <1>14
  <2>2. d' = d /\ sampler_terminated' = sampler_terminated
    BY <1>3, <1>4, <1>14, <2>1 DEF IsStatus
  <2>. QED
    BY <1>1, <1>2, <1>10, <1>11, <2>2 DEF shown
<1>. QED
  BY <1>4, <1>12, <1>13, <1>14

\* The steps of the GUI that neither handle a notification nor start a session.
LEMMA QuietReports ==
  ASSUME Reports,
         UNCHANGED <<notifications, tpc, status, current_sampler_status>>,
         handle' => handle, sampler_terminated' => sampler_terminated
  PROVE  Reports'
  BY DEF Reports, Announced

\* Every step keeps the invariant.
LEMMA NextRef == RefInv /\ [Next]_vars => RefInv'
<1>. SUFFICES ASSUME RefInv, [Next]_vars PROVE RefInv'
  OBVIOUS
<1>1. SessionInv' /\ StatusAgreement'
  BY NextSession, NextStatus DEF RefInv
<1>. SUFFICES Reports' /\ Frames'
  BY <1>1 DEF RefInv
<1>. USE DEF channels, worker, owner, gui, shown, plotted, settings
<1>2. CASE SamplerThread
  BY <1>2, ThreadFrames, ThreadReports DEF RefInv
<1>3. CASE HandleNotification
  BY <1>3, HandleReports
<1>4. ASSUME NEW l, Connect(l) PROVE Reports' /\ Frames'
  <2>1. /\ notifications' = <<>> /\ maybe_new_status' = None /\ uipc' = "Notes"
        /\ sampler_terminated' = sampler_terminated /\ uipc = "Ui"
    BY <1>4 DEF Connect, Spawn
  <2>2. ~sampler_terminated'
    BY <2>1 DEF RefInv, Frames
  <2>. QED
    BY <2>1, <2>2 DEF Reports, Frames, LegalNotes, EndIn, None
<1>5. CASE StopTerminated \/ NotesDone \/ HandleSample \/ SamplesDone
  BY <1>5, QuietReports DEF StopTerminated, NotesDone, HandleSample, SamplesDone,
                            RefInv, Frames
<1>6. CASE JoinReturns \/ CloseWindow \/ ConnectPanics
  BY <1>6 DEF JoinReturns, CloseWindow, ConnectPanics, RefInv, Reports, Frames, None
<1>7. CASE UNCHANGED vars
  BY <1>7, QuietReports DEF vars, RefInv, Frames
<1>8. CASE \/ NoInput \/ ClickConnect \/ ClickDisconnect \/ ClickPause \/ ClickResume
           \/ (\E i \in DOMAIN signals : ToggleSignal(i))
           \/ ClickAddAddress \/ AddCancel \/ (\E id \in Ids : AddAddress(id))
           \/ (\E m \in Methods : SelectMethod(m)) \/ ConnectCancel \/ ConnectFails
           \/ CloseError \/ ExportData \/ ToggleTruncate
           \/ (\E k \in KeepTimes : SetKeep(k))
  <2>1. /\ UNCHANGED <<notifications, tpc, status, maybe_new_status, handle, shown>>
        /\ uipc = "Ui" /\ uipc' # "Samples"
    BY <1>8 DEF NoInput, ClickConnect, ClickDisconnect, ClickPause, ClickResume,
       ToggleSignal, ClickAddAddress, AddCancel, AddAddress, SelectMethod,
       ConnectCancel, ConnectFails, CloseError, ExportData, ToggleTruncate, SetKeep
  <2>. QED
    BY <2>1, QuietReports DEF RefInv, Frames
<1>. QED
  BY <1>2, <1>3, <1>4, <1>5, <1>6, <1>7, <1>8 DEF Next, HandleMessages, UserInput

\* The invariant holds throughout.
LEMMA RefInvariance == Spec => []RefInv
  BY InitRef, NextRef, PTL DEF Spec

-----------------------------------------------------------------------------
(* The refinement.                                                         *)

\* The first state maps to Session's first state.
LEMMA InitMaps == Init => Session!Init
  BY DEF Init, Session!Init, Phase, Thread, None

\* Every step maps to a step of Session or to none.
LEMMA StepMaps == RefInv /\ [Next]_vars => [Session!Next]_(Session!sessionVars)
<1>. SUFFICES ASSUME RefInv, [Next]_vars
              PROVE  Session!Next \/ UNCHANGED Session!sessionVars
  OBVIOUS
<1>. USE DEF channels, worker, owner, gui, shown, plotted, settings
<1>1. CASE SamplerThread
  <2>1. /\ UNCHANGED <<Phase, current_sampler_status, sampler_terminated, samples,
                       max_time>>
    BY <1>1, ThreadEffects DEF Phase
  <2>2. \/ Thread' = Thread
        \/ Thread = "running" /\ Thread' = "gone"
    BY <1>1, ThreadEffects DEF ThreadEffect, EndIteration, Thread
  <2>. QED
    BY <2>1, <2>2 DEF Session!Next, Session!ThreadEnds, Session!sessionVars
<1>2. CASE HandleNotification
  BY <1>2, HandleReports DEF Session!Next, Session!Show, Session!sessionVars
<1>3. CASE StopTerminated \/ ClickDisconnect
  <2>1. /\ Phase = "live" /\ Phase' = "leaving" /\ sampler_terminated' = FALSE
        /\ UNCHANGED <<Thread, current_sampler_status, samples, max_time>>
    BY <1>3 DEF StopTerminated, ClickDisconnect, Phase, Thread, RefInv, Frames,
                SessionInv, TypeOK, GuiTypeOK
  <2>. QED
    BY <2>1 DEF Session!Next, Session!Leave
<1>4. CASE HandleSample \/ SamplesDone
  <2>1. /\ Phase = "live" /\ ~sampler_terminated
        /\ UNCHANGED <<Phase, Thread, current_sampler_status, sampler_terminated>>
    BY <1>4 DEF HandleSample, SamplesDone, Phase, Thread, RefInv, Frames
  <2>. QED
    BY <2>1 DEF Session!Next, Session!Plot
<1>5. CASE JoinReturns
  <2>1. /\ Phase = "leaving" /\ Phase' = "idle" /\ Thread = "gone"
        /\ UNCHANGED <<Thread, current_sampler_status, sampler_terminated, samples,
                       max_time>>
    BY <1>5 DEF JoinReturns, Phase, Thread
  <2>. QED
    BY <2>1 DEF Session!Next, Session!Release
<1>6. ASSUME NEW l, Connect(l)
      PROVE  Session!Next
  <2>1. ~handle /\ uipc = "Ui" /\ tpc \in {"none", "finished"}
    BY <1>6 DEF Connect, RefInv, SessionInv, ConnectDialogMeansNoSampler, OneThread
  <2>2. /\ Phase = "idle" /\ Thread = "gone" /\ Phase' = "live" /\ Thread' = "running"
        /\ samples' = <<>> /\ max_time' = 0
        /\ UNCHANGED <<current_sampler_status, sampler_terminated>>
    BY <1>6, <2>1 DEF Connect, Spawn, Phase, Thread
  <2>. QED
    BY <2>2 DEF Session!Next, Session!Begin
<1>7. CASE ConnectPanics
  <2>1. ~handle /\ uipc = "Ui" /\ tpc \in {"none", "finished"}
    BY <1>7 DEF ConnectPanics, RefInv, SessionInv, ConnectDialogMeansNoSampler,
                OneThread
  <2>2. /\ Phase = "idle" /\ Thread = "gone" /\ Phase' = "closed" /\ Thread' = "running"
        /\ UNCHANGED <<current_sampler_status, sampler_terminated, samples, max_time>>
    BY <1>7, <2>1 DEF ConnectPanics, Phase, Thread
  <2>. QED
    BY <2>2 DEF Session!Next, Session!Crash
<1>8. CASE CloseWindow
  <2>1. /\ Phase \in {"idle", "live"} /\ Phase' = "closed"
        /\ UNCHANGED <<Thread, current_sampler_status, sampler_terminated, samples,
                       max_time>>
    BY <1>8 DEF CloseWindow, Phase, Thread
  <2>. QED
    BY <2>1 DEF Session!Next, Session!Close
<1>9. CASE NotesDone \/ UNCHANGED vars
  BY <1>9 DEF NotesDone, vars, Phase, Thread, Session!sessionVars
<1>10. CASE \/ NoInput \/ ClickConnect \/ ClickPause \/ ClickResume
            \/ (\E i \in DOMAIN signals : ToggleSignal(i))
            \/ ClickAddAddress \/ AddCancel \/ (\E id \in Ids : AddAddress(id))
            \/ (\E m \in Methods : SelectMethod(m)) \/ ConnectCancel \/ ConnectFails
            \/ CloseError \/ ExportData \/ ToggleTruncate
            \/ (\E k \in KeepTimes : SetKeep(k))
  <2>1. /\ UNCHANGED <<handle, tpc, shown, samples, max_time>>
        /\ uipc = "Ui" /\ uipc' = "Notes"
    BY <1>10 DEF NoInput, ClickConnect, ClickPause, ClickResume,
       ToggleSignal, ClickAddAddress, AddCancel, AddAddress, SelectMethod,
       ConnectCancel, ConnectFails, CloseError, ExportData, ToggleTruncate, SetKeep
  <2>. QED
    BY <2>1 DEF Phase, Thread, Session!sessionVars
<1>. QED
  BY <1>1, <1>2, <1>3, <1>4, <1>5, <1>6, <1>7, <1>8, <1>9, <1>10
     DEF Next, HandleMessages, UserInput

\* The GUI and the sampler threads, of whichever kind, keep the promises of
\* Session: one session at a time, statuses shown in a legal order, nothing
\* plotted or reported after the end of the session.
THEOREM SessionRefinement == Spec => ImplementsSession
  BY RefInvariance, InitMaps, StepMaps, PTL DEF Spec, ImplementsSession, Session!Spec

=============================================================================
