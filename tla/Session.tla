------------------------------- MODULE Session --------------------------------
(***************************************************************************)
(* What OCDScope promises its user, the channels and the frames left       *)
(* aside.  One session at a time has the probe: the next one begins only   *)
(* when the thread of the last one is gone, also if it ended by itself.    *)
(* The status on display is one the thread reported, in a legal order, and *)
(* after the end of the session is reported neither status nor plot change *)
(* until a new session begins.  The plot of an ended session stays.        *)
(***************************************************************************)

CONSTANT EmptyPlot  \* what is plotted before the first sample

VARIABLES
  phase,      \* "idle", "live", "leaving" or "closed"
  thread,     \* "gone" or "running"
  display,    \* the status on display, from an earlier session at first
  over,       \* the end of this session has been reported
  plot

sessionVars == <<phase, thread, display, over, plot>>

Init ==
  /\ phase = "idle" /\ thread = "gone"
  /\ display = "None" /\ over = FALSE /\ plot = EmptyPlot

Begin ==
  /\ phase = "idle" /\ thread = "gone"
  /\ phase' = "live" /\ thread' = "running"
  /\ plot' = EmptyPlot
  /\ UNCHANGED <<display, over>>

\* A session is paused only while it samples.
Show(s) ==
  /\ phase = "live" /\ ~over
  /\ s = "Paused" => display = "Sampling"
  /\ display' = s
  /\ over' = (s = "Terminated")
  /\ UNCHANGED <<phase, thread, plot>>

\* Any change of the plot: samples arrive, old ones are dropped.
Plot ==
  /\ phase = "live" /\ ~over
  /\ UNCHANGED <<phase, thread, display, over>>

\* By the user, or because the session is over.
Leave ==
  /\ phase = "live"
  /\ phase' = "leaving"
  /\ over' = FALSE
  /\ UNCHANGED <<thread, display, plot>>

ThreadEnds ==
  /\ thread = "running"
  /\ thread' = "gone"
  /\ UNCHANGED <<phase, display, over, plot>>

Release ==
  /\ phase = "leaving" /\ thread = "gone"
  /\ phase' = "idle"
  /\ UNCHANGED <<thread, display, over, plot>>

\* The window is closed, with a session or without.
Close ==
  /\ phase \in {"idle", "live"}
  /\ phase' = "closed"
  /\ UNCHANGED <<thread, display, over, plot>>

\* The application dies while it starts a session.
Crash ==
  /\ phase = "idle" /\ thread = "gone"
  /\ phase' = "closed" /\ thread' = "running"
  /\ UNCHANGED <<display, over, plot>>

Next ==
  \/ Begin
  \/ \E s \in {"Sampling", "Paused", "Terminated"} : Show(s)
  \/ Plot
  \/ Leave
  \/ ThreadEnds
  \/ Release
  \/ Close
  \/ Crash

Spec == Init /\ [][Next]_sessionVars

=============================================================================
