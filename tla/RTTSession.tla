------------------------------ MODULE RTTSession ------------------------------
(***************************************************************************)
(* An RTT session of src/sampler/rttsampler.rs: RTTSampler::start with its *)
(* Telnet connection, then sampler_thread with a second one and with the   *)
(* stream of the scope channel.  RTTSampler has the thread's commands and  *)
(* notifications and takes all that is modelled here for its setup and its *)
(* polls.                                                                  *)
(*                                                                         *)
(* `step` is the method under way, or                                      *)
(*   "open"           TcpStream::connect                                   *)
(*   "drain", "loop"  see RTTStream                                        *)
(*   "done", "failed" start or sampler_thread has returned                 *)
(***************************************************************************)
EXTENDS RTTStream, TelnetInterface, ScopePacket

CONSTANT Listings  \* what OpenOCD may list: sequences of lines

\* A line as parse_line tells it apart; the format of a name is a string.
IsLine(line) ==
  /\ line.type = "header"  => line.name \in Directions
  /\ line.type = "channel" => line.name.format \in Seq(Range(line.name.format))

ASSUME ListingsAssumption ==
  \A l \in Listings :
    l # <<>> /\ l \in Seq(Range(l)) /\ \A i \in DOMAIN l : IsLine(l[i])

VARIABLES
  step,
  listing  \* the lines OpenOCD has printed for `rtt channels`, until they are used

vars == <<rttStream, telnetVars, step, listing>>

Init ==
  /\ StreamInit
  /\ telnet = Greeting /\ buffered = <<>>
  /\ call = [name |-> "rtt_stop", n |-> 1, failure |-> "none",
             todo |-> <<"prompt", "echo">> \o Waits("rtt_stop")]
  /\ answers = <<>> /\ discarded = FALSE
  /\ commands = <<>> /\ serving = NoCommand /\ chatter = 0
  /\ step = "rtt_stop"
  /\ listing = <<>>

-----------------------------------------------------------------------------
(* The sampler.                                                            *)

Script ==
  <<"rtt_stop", "rtt_setup", "rtt_start", "set_adapter_speed",
    "set_rtt_polling_interval", "rtt_channels">>

Fails ==
  /\ step' = "failed"
  /\ EndReading
  /\ listing' = <<>>
  /\ UNCHANGED telnetVars

\* The `?` after a call; a halt that times out is taken for done.
CallFailed ==
  /\ ~Waiting /\ call.name = step /\ call.failure # "none"
  /\ ~(step = "halt" /\ call.failure = "timeout")
  /\ Fails

\* Go on with the method of a command, on the same connection.
Issue(name) ==
  /\ step' = name
  /\ Call(name)
  /\ UNCHANGED <<telnet, buffered, commands, telnetServer, listing>>

\* start(), up to the list of channels.
NextCommand ==
  /\ \E i \in 1 .. Len(Script) - 1 : step = Script[i] /\ Issue(Script[i + 1])
  /\ Returned
  /\ UNCHANGED rttStream

\* rtt_channels parses the lines it has collected.
ListRead == \E i \in DOMAIN answers : answers[i].kind = "list"

Channels == IF ListRead THEN parse_rtt_channels(listing) ELSE <<>>

\* rtt_channels has returned them.
Listed == step = "rtt_channels" /\ Returned

Candidates == CandidateScopeChannels(Channels)

\* The structure that the name of the first candidate gives.
packet_structure == parse_scope_packet_structure(Channels[Min(Candidates)].name.format)

Suitable == Candidates # {} /\ packet_structure # Nothing

\* The rest of start(), and the beginning of the thread it spawns: the Telnet
\* connection is closed and a new one is opened.
ChooseChannel ==
  /\ Listed /\ Suitable
  /\ step' = "rtt_server_start"
  /\ Call("rtt_server_start")
  /\ telnet' = Greeting /\ buffered' = <<>>
  /\ listing' = <<>>
  /\ UNCHANGED <<rttStream, commands, telnetServer>>

NoChannel ==
  /\ Listed /\ ~Suitable
  /\ Fails

ServerStarted ==
  /\ step = "rtt_server_start" /\ Returned
  /\ step' = "open"
  /\ UNCHANGED <<rttStream, telnetVars, listing>>

\* The connection is in the server's backlog.
Open ==
  /\ step = "open"
  /\ Issue("halt")
  /\ UNCHANGED rttStream

\* Faulty variant of `Halted`: nothing is thrown away.
HaltedOnly ==
  /\ step = "halt" /\ ~Waiting /\ call.failure \in {"none", "timeout"}
  /\ Issue("resume")
  /\ sync' = "resume"
  /\ UNCHANGED <<target, server, buffer, decoded>>

Halted ==
  /\ step = "halt" /\ ~Waiting /\ call.failure \in {"none", "timeout"}
  /\ step' = "drain"
  /\ BeginDrain
  /\ UNCHANGED <<telnetVars, listing>>

Drain ==
  /\ DrainRead
  /\ UNCHANGED <<telnetVars, step, listing>>

Drained ==
  /\ DrainEnds
  /\ Issue("resume")

Resumed ==
  /\ step = "resume" /\ Returned
  /\ step' = "loop"
  /\ BeginLoop
  /\ UNCHANGED <<telnetVars, listing>>

Iterate ==
  /\ Read \/ Cut
  /\ UNCHANGED <<telnetVars, step, listing>>

\* Stop was taken: Terminated.
Stop ==
  /\ step = "loop" /\ Len(buffer) < Size
  /\ EndReading
  /\ Issue("rtt_server_stop")

Finished ==
  /\ step = "rtt_server_stop" /\ Returned
  /\ step' = "done"
  /\ UNCHANGED <<rttStream, telnetVars, listing>>

\* A connection that cannot be opened or is closed by the other end, and in the
\* loop a packet that has no time.
Broken ==
  /\ step \in {"open", "drain", "loop"}
  /\ Fails

Sampler ==
  \/ TelnetClient /\ UNCHANGED <<rttStream, step, listing>>
  \/ CallFailed
  \/ NextCommand
  \/ ChooseChannel
  \/ NoChannel
  \/ ServerStarted
  \/ Open
  \/ Halted
  \/ Drain
  \/ Drained
  \/ Resumed
  \/ Iterate
  \/ Stop
  \/ Finished
  \/ Broken

-----------------------------------------------------------------------------
(* The target and OpenOCD.                                                 *)

\* What a command prints, if OpenOCD can carry it out.
Printed(name) ==
  CASE name = "rtt_channels"   -> <<"list", "blank">>
    [] name = "halt" -> IF running THEN <<"halted">> ELSE <<>>
    [] OTHER         -> Waits(name)

\* What a command does to the target, if OpenOCD can carry it out.
Effect(name) ==
  CASE name = "halt"   -> SetRunning(FALSE)
    [] name = "resume" -> SetRunning(TRUE)
    [] OTHER           -> UNCHANGED rttStream

\* A command is carried out or fails with a line that says why.
Serve ==
  /\ \/ /\ Answer(Printed(serving.name))
        /\ Effect(serving.name)
        /\ IF serving.name = "rtt_channels" THEN listing' \in Listings
                                            ELSE UNCHANGED listing
     \/ /\ Answer(<<"info">>)
        /\ UNCHANGED <<rttStream, listing>>
  /\ UNCHANGED step

Connection == step \in {"halt", "drain", "resume", "loop"}

\* What the target wrote before the sampler opened its connection is in the ring
\* from the start.
OpenOCD ==
  /\ step \notin {"done", "failed"}
  /\ \/ (Echo \/ Debug) /\ UNCHANGED <<rttStream, step, listing>>
     \/ Serve
     \/ Connection /\ (Accept \/ Poll \/ TargetWrites)
        /\ UNCHANGED <<telnetVars, step, listing>>

Next == Sampler \/ OpenOCD

Spec == Init /\ [][Next]_vars

\* OpenOCD accepts and polls, and the thread runs.
Fairness ==
  /\ WF_vars(Connection /\ (Accept \/ Poll) /\ UNCHANGED <<telnetVars, step, listing>>)
  /\ WF_vars(Drain)
  /\ WF_vars(Drained)

FairSpec == Spec /\ Fairness

-----------------------------------------------------------------------------

\* Every variable keeps its type.
TypeOK ==
  /\ StreamTypeOK
  /\ TelnetTypeOK
  /\ step \in CommandNames \cup {"open", "drain", "loop", "done", "failed"}
  /\ listing \in Listings \cup {<<>>}

\* A halt that timed out does not catch up with the loop: when the resume that
\* follows it is echoed it has been executed, and nothing halts the target later.
NoLateHalt ==
  sync = "loop" =>
    /\ serving.name # "halt"
    /\ \A i \in DOMAIN commands : commands[i].name # "halt"

\* What OpenOCD printed and the thread has not looked at.
Unread == buffered \o telnet

\* If the target does not run in the loop, either OpenOCD is still resuming it or
\* it has said why it cannot, in a line that comes after the echo resume() waits
\* for and stays unread.  No halt, late or not, is the reason.
HaltedMeansRefused ==
  step = "loop" /\ ~running =>
    \/ serving.name = "resume"
    \/ \E i \in DOMAIN Unread : Unread[i] = Line("info", call.n)

\* Every channel under a header is listed, in order, with the direction of the
\* last header before it, whatever other lines there are.
ChannelsParsed ==
  LET IsHeader(i) == listing[i].type = "header"
      LastHeader(i) == Max({h \in 1 .. i : IsHeader(h)})
      listed == {i \in DOMAIN listing : /\ listing[i].type = "channel"
                                       /\ \E h \in 1 .. i : IsHeader(h)} IN
  Listed /\ ListRead =>
    /\ Len(Channels) = Cardinality(listed)
    /\ \A i \in listed :
         Channels[Cardinality(listed \cap 1 .. i)] =
           [id |-> listing[i].id, name |-> listing[i].name,
            direction |-> listing[LastHeader(i)].name]

\* The name of a scope channel is accepted exactly when it spells a structure,
\* one more character at its end left aside, and gives that structure.
NamesParsed ==
  Listed => \A i \in Candidates : SpellsWhatItGives(Channels[i].name.format)

\* What the target puts into a packet of the structure that its channel is named
\* after is what comes out, up to the precision of f32.
PacketsDecoded ==
  Listed /\ Suitable => DecodesWhatIsPut(packet_structure)

\* The session uses the stream as RTTStream says, so what is proved of RTTStream
\* holds here.
UsesStream == StreamSpec

\* Synchronisation comes to an end once the target has stopped writing.
SyncEnds == sync = "drain" /\ ~running ~> sync # "drain"

=============================================================================
