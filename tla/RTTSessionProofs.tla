--------------------------- MODULE RTTSessionProofs ---------------------------
(***************************************************************************)
(* The RTT session, with its Telnet calls, its errors and the target that  *)
(* halts and resumes, uses the stream of the scope channel only as         *)
(* RTTStream says: so what RTTStreamProofs proves of the stream holds of   *)
(* the session.  Its calls take no line for an answer that another command *)
(* has caused.  And what ScopePacketProofs says of the parsers and the     *)
(* decoder holds of the channels it lists and of the one it chooses.       *)
(***************************************************************************)
EXTENDS RTTSession, RTTStreamProofs, ScopePacketProofs

\* Every step of the session is a step of the stream or leaves it alone.
LEMMA SessionStep ==
  ASSUME [Next]_vars
  PROVE  [StreamNext]_rttStream
<1>1. CASE CallFailed \/ NoChannel \/ Broken
  BY <1>1 DEF CallFailed, NoChannel, Broken, Fails, StreamNext
<1>2. CASE NextCommand \/ ChooseChannel \/ ServerStarted \/ Open \/ Finished
  BY <1>2 DEF NextCommand, ChooseChannel, ServerStarted, Open, Finished
<1>3. CASE Halted \/ Drain \/ Drained \/ Resumed \/ Iterate \/ Stop
  BY <1>3 DEF Halted, Drain, Drained, Resumed, Iterate, Stop, StreamNext
<1>4. CASE Serve
  <2>1. Effect(serving.name) => [StreamNext]_rttStream
    BY DEF Effect, StreamNext
  <2>. QED
    BY <1>4, <2>1 DEF Serve
<1>5. CASE OpenOCD
  BY <1>4, <1>5 DEF OpenOCD, StreamNext
<1>6. CASE UNCHANGED vars
  BY <1>6 DEF vars
<1>. QED
  BY <1>1, <1>2, <1>3, <1>5, <1>6 DEF Next, Sampler

\* The session implements RTTStream: of all that the thread, the Telnet server
\* and the RTT server do, only the actions of RTTStream touch the stream.
THEOREM SessionUsesStream == Spec => UsesStream
<1>1. Init => StreamInit
  BY DEF Init
<1>. QED
  BY <1>1, SessionStep, PTL DEF Spec, StreamSpec, UsesStream

\* Polled in time, the loop of sampler_thread starts where a packet does and
\* stays aligned, whether the halt was executed, failed or timed out.
THEOREM SessionAligned ==
  ASSUME ~SlowPolling
  PROVE  Spec => []StreamAligned
  BY SessionUsesStream, AlignmentCorrect, PTL DEF UsesStream

\* Polled in time, sampler_thread decodes only packets that the target wrote,
THEOREM SessionPackets ==
  ASSUME ~SlowPolling
  PROVE  Spec => []PacketsAreWhole
  BY SessionUsesStream, PacketsCorrect, PTL DEF UsesStream

\* and, however it is polled, none is lost, repeated or overtaken.
THEOREM SessionLosesNothing == Spec => NothingIsLost
  BY SessionUsesStream, NoPacketLost, PTL DEF UsesStream

\* While it synchronises with a target that stands still, the thread throws away
\* what is there, and there is less of it with every step that changes anything.
THEOREM SessionDrains == Spec => DrainProgress
  BY SessionUsesStream, DrainShrinks, PTL DEF UsesStream

-----------------------------------------------------------------------------
(* What a call accepts was printed for it.  Every command is issued once,  *)
(* so its number can be read off what it prints; and when its echo has     *)
(* been read, all that was printed before has been read too.               *)

Number(name) ==
  CASE name = "rtt_stop" -> 1 [] name = "rtt_setup" -> 2 [] name = "rtt_start" -> 3
    [] name = "set_adapter_speed" -> 4 [] name = "set_rtt_polling_interval" -> 5
    [] name = "rtt_channels" -> 6 [] name = "rtt_server_start" -> 7
    [] name = "halt" -> 8 [] name = "resume" -> 9 [] name = "rtt_server_stop" -> 10

\* The lines that no other command causes.
Own(name) ==
  CASE name = "rtt_start"        -> {name, "searching", "found"}
    [] name = "set_adapter_speed" -> {name, "speed"}
    [] name = "rtt_channels"     -> {name, "list"}
    [] name = "rtt_server_start" -> {name, "listening"}
    [] name = "halt"             -> {name, "halted"}
    [] OTHER                     -> {name}

Tokens == [kind : CommandNames \cup Answers \cup {"prompt", "banner", "erase", "info"},
           of : Nat]

Served == [name : CommandNames \cup {"none"}, n : Nat]

Failures == {"none", "timeout", "unexpected", "io"}

CallType ==
  call \in [name : CommandNames, n : Nat, todo : Seq({"prompt", "echo"} \cup Answers),
            failure : Failures]

TelnetTyped ==
  /\ telnet \in Seq(Tokens) /\ buffered \in Seq(Tokens) /\ answers \in Seq(Tokens)
  /\ discarded \in BOOLEAN
  /\ call.failure \in Failures
  /\ Waiting => call.failure = "none"
  /\ commands \in Seq(Served) /\ serving \in Served
  /\ chatter \in 0 .. MaxChatter

Marked(t) == \A name \in CommandNames : t.kind \in Own(name) => t.of = Number(name)

\* Commands, calls and lines carry the numbers of their commands.
Numbered ==
  /\ call.n = Number(call.name)
  /\ \A i \in DOMAIN commands :
       commands[i].name \in CommandNames /\ commands[i].n = Number(commands[i].name)
  /\ serving # NoCommand =>
       serving.name \in CommandNames /\ serving.n = Number(serving.name)
  /\ \A i \in DOMAIN buffered : Marked(buffered[i])
  /\ \A i \in DOMAIN telnet : Marked(telnet[i])

\* There is nothing yet of a later call.
Bounded ==
  /\ \A i \in DOMAIN buffered : buffered[i].of <= call.n
  /\ \A i \in DOMAIN telnet : telnet[i].of <= call.n
  /\ serving.n <= call.n
  /\ \A i \in DOMAIN commands : commands[i].n <= call.n

\* What is left of the waits of the call.
Plan ==
  \/ call.todo = <<"prompt", "echo">> \o Waits(call.name)
  \/ call.todo = <<"echo">> \o Waits(call.name)
  \/ \A i \in DOMAIN call.todo :
       call.todo[i] = "blank" \/ call.todo[i] \in Own(call.name) \ {call.name}

EchoRead ==
  /\ call.failure = "none"
  /\ \A i \in DOMAIN call.todo : call.todo[i] \notin {"prompt", "echo"}

Mine(n) == n = 0 \/ n = call.n

BufferedMine == \A i \in DOMAIN buffered : Mine(buffered[i].of)
TelnetMine   == \A i \in DOMAIN telnet : Mine(telnet[i].of)
CommandsMine == \A i \in DOMAIN commands : Mine(commands[i].n)
ServerMine   == Mine(serving.n) /\ CommandsMine

\* From the commands to the lines read, what comes after the first thing that
\* belongs to the call belongs to it too.
InOrder ==
  /\ \A i, j \in DOMAIN buffered :
       i < j /\ buffered[i].of = call.n => Mine(buffered[j].of)
  /\ \A i \in DOMAIN buffered : buffered[i].of = call.n => TelnetMine /\ ServerMine
  /\ \A i, j \in DOMAIN telnet :
       i < j /\ telnet[i].of = call.n => Mine(telnet[j].of)
  /\ \A i \in DOMAIN telnet : telnet[i].of = call.n => ServerMine
  /\ serving.n = call.n => CommandsMine
  /\ \A i, j \in DOMAIN commands :
       i < j /\ commands[i].n = call.n => Mine(commands[j].n)
  /\ EchoRead => BufferedMine /\ TelnetMine /\ ServerMine

TelnetInv ==
  /\ TelnetTyped
  /\ CallType
  /\ Numbered
  /\ Bounded
  /\ Plan
  /\ InOrder
  /\ AnswersBelong

\* The method of a step, and the calls after which the loop runs.
Steps ==
  /\ step \in CommandNames => call.name = step
  /\ step = "open" => call.name = "rtt_server_start"
  /\ step = "drain" => call.name = "halt"
  /\ step = "loop" => call.name = "resume" /\ Returned
  /\ sync \in {"drain", "loop"} => step = sync

\* Numbers and lines tell commands apart.
LEMMA NumberOf ==
  /\ Number("rtt_stop") = 1
  /\ Number("rtt_setup") = 2
  /\ Number("rtt_start") = 3
  /\ Number("set_adapter_speed") = 4
  /\ Number("set_rtt_polling_interval") = 5
  /\ Number("rtt_channels") = 6
  /\ Number("rtt_server_start") = 7
  /\ Number("halt") = 8
  /\ Number("resume") = 9
  /\ Number("rtt_server_stop") = 10
  BY DEF Number

LEMMA NumbersTell ==
  /\ \A name \in CommandNames : Number(name) \in Nat /\ Number(name) >= 1
  /\ \A a \in CommandNames, b \in CommandNames : Number(a) = Number(b) => a = b
  BY NumberOf DEF CommandNames

LEMMA OwnOf ==
  /\ Own("rtt_stop") = {"rtt_stop"}
  /\ Own("rtt_setup") = {"rtt_setup"}
  /\ Own("rtt_start") = {"rtt_start", "searching", "found"}
  /\ Own("set_adapter_speed") = {"set_adapter_speed", "speed"}
  /\ Own("set_rtt_polling_interval") = {"set_rtt_polling_interval"}
  /\ Own("rtt_channels") = {"rtt_channels", "list"}
  /\ Own("rtt_server_start") = {"rtt_server_start", "listening"}
  /\ Own("halt") = {"halt", "halted"}
  /\ Own("resume") = {"resume"}
  /\ Own("rtt_server_stop") = {"rtt_server_stop"}
  BY DEF Own

LEMMA OwnLines ==
  ASSUME NEW a \in CommandNames, NEW b \in CommandNames
  PROVE  /\ a \in Own(a)
         /\ \A k \in Own(a) : k \in Own(b) => a = b
         /\ {"prompt", "banner", "erase", "info", "blank"} \cap Own(a) = {}
  BY OwnOf DEF CommandNames

LEMMA LinesAreOwned ==
  \A k \in Answers \ {"blank"} : \E name \in CommandNames : k \in Own(name)
  BY OwnOf DEF Answers, CommandNames

LEMMA WaitsOf ==
  /\ Waits("rtt_start") = <<"searching", "found">>
  /\ Waits("set_adapter_speed") = <<"speed", "blank">>
  /\ Waits("rtt_channels") = <<"blank">>
  /\ Waits("rtt_server_start") = <<"listening">>
  /\ Waits("halt") = <<"halted">>
  /\ \A name \in CommandNames \ {"rtt_start", "set_adapter_speed", "rtt_channels",
                                  "rtt_server_start", "halt"} : Waits(name) = <<>>
  BY DEF Waits

\* What a method waits for and what the server prints.
LEMMA WaitsOwn ==
  ASSUME NEW name \in CommandNames
  PROVE  /\ Waits(name) \in Seq(Answers)
         /\ \A i \in DOMAIN Waits(name) :
              Waits(name)[i] = "blank" \/ Waits(name)[i] \in Own(name) \ {name}
<1>1. CASE name = "rtt_start"
  <2>1. Waits(name) = <<"searching", "found">>
    BY <1>1, WaitsOf, Zenon
  <2>2. <<"searching", "found">> \in Seq(Answers)
    BY DEF Answers
  <2>3. {"searching", "found"} \subseteq Own(name) \ {name}
    BY <1>1, OwnOf
  <2>. QED
    BY <2>1, <2>2, <2>3
<1>2. CASE name = "set_adapter_speed"
  <2>1. Waits(name) = <<"speed", "blank">>
    BY <1>2, WaitsOf, Zenon
  <2>2. <<"speed", "blank">> \in Seq(Answers)
    BY DEF Answers
  <2>3. "speed" \in Own(name) \ {name}
    BY <1>2, OwnOf
  <2>. QED
    BY <2>1, <2>2, <2>3
<1>3. CASE name \in {"rtt_channels", "rtt_server_start", "halt"}
  BY <1>3, WaitsOf, OwnOf DEF Answers
<1>4. CASE name \notin {"rtt_start", "set_adapter_speed", "rtt_channels",
                       "rtt_server_start", "halt"}
  <2>1. Waits(name) = <<>>
    BY <1>4, WaitsOf, Zenon
  <2>. QED
    BY <2>1
<1>. QED
  BY <1>1, <1>2, <1>3, <1>4

LEMMA PrintsOwn ==
  ASSUME NEW name \in CommandNames
  PROVE  /\ Printed(name) \in Seq(Answers)
         /\ \A i \in DOMAIN Printed(name) :
              Printed(name)[i] = "blank" \/ Printed(name)[i] \in Own(name)
<1>1. CASE name = "rtt_channels"
  <2>1. Printed(name) = <<"list", "blank">>
    BY <1>1, Zenon DEF Printed
  <2>2. <<"list", "blank">> \in Seq(Answers)
    BY DEF Answers
  <2>3. "list" \in Own(name)
    BY <1>1, OwnOf
  <2>. QED
    BY <2>1, <2>2, <2>3
<1>2. CASE name = "halt"
  <2>1. Printed(name) = <<"halted">> \/ Printed(name) = <<>>
    BY <1>2, Zenon DEF Printed
  <2>2. <<"halted">> \in Seq(Answers)
    BY DEF Answers
  <2>3. "halted" \in Own(name)
    BY <1>2, OwnOf
  <2>4. CASE Printed(name) = <<>>
    BY <2>4
  <2>5. CASE Printed(name) = <<"halted">>
    BY <2>2, <2>3, <2>5
  <2>. QED
    BY <2>1, <2>4, <2>5
<1>3. CASE name \notin {"rtt_channels", "halt"}
  BY <1>3, WaitsOwn DEF Printed
<1>. QED
  BY <1>1, <1>2, <1>3

\* read_line finds the first line that is complete.
LEMMA FirstLine ==
  ASSUME buffered \in Seq(Tokens), LineEnds # {}
  PROVE  LineEnd \in DOMAIN buffered /\ buffered[LineEnd].kind # "prompt"
<1>1. LineEnds \subseteq Nat
  BY DEF LineEnds
<1>2. \E i \in LineEnds : \A j \in LineEnds : i <= j
  BY <1>1, Adding!LeastNatural
<1>3. LineEnd \in LineEnds
  BY <1>2 DEF LineEnd
<1>. QED
  BY <1>3 DEF LineEnds

LEMMA TelnetTypes == TelnetTyped => TelnetTypeOK
  BY DEF TelnetTyped, TelnetTypeOK, Tokens, Served, Failures

LEMMA CallTypes ==
  CallType => /\ call.name \in CommandNames /\ call.n \in Nat
              /\ call.todo \in Seq({"prompt", "echo"} \cup Answers)
              /\ call.failure \in Failures
  BY DEF CallType

\* What is left once the first wait is over.
LEMMA TakeWait ==
  ASSUME CallType, Plan, Waiting, call' = [call EXCEPT !.todo = Tail(@)]
  PROVE  /\ CallType' /\ Plan'
         /\ call'.name = call.name /\ call'.n = call.n
         /\ call'.failure = call.failure
         /\ EchoRead' => EchoRead \/ Awaited = "echo"
         /\ Awaited \notin {"prompt", "echo"} =>
              Awaited = "blank" \/ Awaited \in Own(call.name) \ {call.name}
<1>. DEFINE W == Waits(call.name)
<1>1. /\ call.todo \in Seq({"prompt", "echo"} \cup Answers) /\ call.todo # <<>>
      /\ Awaited = Head(call.todo)
      /\ call.name \in CommandNames
  BY CallTypes DEF Waiting, Awaited
<1>2. /\ call'.name = call.name /\ call'.n = call.n /\ call'.failure = call.failure
      /\ call'.todo = Tail(call.todo)
      /\ CallType'
  <2>1. Tail(call.todo) \in Seq({"prompt", "echo"} \cup Answers)
    BY <1>1
  <2>. QED
    BY <2>1 DEF CallType
<1>3. /\ W \in Seq(Answers)
      /\ \A i \in DOMAIN W : W[i] = "blank" \/ W[i] \in Own(call.name) \ {call.name}
  BY <1>1, WaitsOwn
<1>. HIDE DEF W
<1>4. CASE call.todo = <<"prompt", "echo">> \o W
  <2>1. Tail(call.todo) = <<"echo">> \o W /\ Head(call.todo) = "prompt"
    BY <1>3, <1>4
  <2>2. 1 \in DOMAIN Tail(call.todo) /\ Tail(call.todo)[1] = "echo"
    BY <1>3, <2>1
  <2>. QED
    BY <1>1, <1>2, <2>1, <2>2 DEF Plan, EchoRead, W
<1>5. CASE call.todo = <<"echo">> \o W
  <2>1. Tail(call.todo) = W /\ Head(call.todo) = "echo"
    BY <1>3, <1>5
  <2>. QED
    BY <1>1, <1>2, <1>3, <2>1 DEF Plan, EchoRead
<1>6. CASE \A i \in DOMAIN call.todo :
             call.todo[i] = "blank" \/ call.todo[i] \in Own(call.name) \ {call.name}
  <2>1. \A i \in DOMAIN Tail(call.todo) :
          i + 1 \in DOMAIN call.todo /\ Tail(call.todo)[i] = call.todo[i + 1]
    BY <1>1
  <2>2. Head(call.todo) = call.todo[1] /\ 1 \in DOMAIN call.todo
    BY <1>1
  <2>3. Plan'
    BY <1>2, <1>6, <2>1 DEF Plan
  <2>4. "prompt" \notin Own(call.name) /\ \A k \in {"echo"} : k \notin Own(call.name)
    BY <1>1, OwnOf DEF CommandNames
  <2>5. EchoRead' => EchoRead
    BY <1>2, <1>6, <2>4 DEF EchoRead
  <2>. QED
    BY <1>1, <1>2, <1>6, <2>2, <2>3, <2>5
<1>. QED
  BY <1>4, <1>5, <1>6, CallTypes DEF Plan, W

\* A new call: nothing of it is anywhere yet.
LEMMA CallStarts ==
  ASSUME TelnetInv, NEW name \in CommandNames, Call(name), Number(name) = call.n + 1,
         UNCHANGED <<commands, serving, chatter>>,
         \/ UNCHANGED <<telnet, buffered>>
         \/ telnet' = Greeting /\ buffered' = <<>>
  PROVE  TelnetInv'
<1>1. /\ call.n \in Nat /\ call.n >= 1 /\ call'.n = call.n + 1 /\ call'.name = name
      /\ call'.todo = <<"prompt", "echo">> \o Waits(name)
      /\ call'.failure = "none" /\ answers' = <<>> /\ discarded' = FALSE
  BY CallTypes, NumbersTell DEF TelnetInv, Call, Numbered
<1>2. Waits(name) \in Seq(Answers)
  BY WaitsOwn
<1>3. call'.todo \in Seq({"prompt", "echo"} \cup Answers)
  BY <1>1, <1>2
<1>4. CallType' /\ Waiting'
  BY <1>1, <1>2, <1>3 DEF Call, CallType, Failures, Waiting
<1>5. Plan' /\ ~EchoRead'
  <2>1. 1 \in DOMAIN call'.todo /\ call'.todo[1] = "prompt"
    BY <1>1, <1>2
  <2>. QED
    BY <1>1, <2>1 DEF Plan, EchoRead
<1>6. /\ telnet' \in Seq(Tokens) /\ buffered' \in Seq(Tokens)
      /\ \A i \in DOMAIN telnet' : telnet'[i].of <= call.n /\ Marked(telnet'[i])
      /\ \A i \in DOMAIN buffered' : buffered'[i].of <= call.n /\ Marked(buffered'[i])
  <2>1. CASE UNCHANGED <<telnet, buffered>>
    BY <2>1 DEF TelnetInv, TelnetTyped, Bounded, Numbered
  <2>2. CASE telnet' = Greeting /\ buffered' = <<>>
    <3>1. \A n \in CommandNames : "banner" \notin Own(n) /\ "prompt" \notin Own(n)
      BY OwnLines
    <3>. QED
      BY <1>1, <2>2, <3>1 DEF Greeting, Line, Prompt, Tokens, Marked
  <2>. QED
    BY <2>1, <2>2
<1>7. /\ \A i \in DOMAIN telnet' : telnet'[i].of \in Nat
      /\ \A i \in DOMAIN buffered' : buffered'[i].of \in Nat
      /\ \A i \in DOMAIN commands : commands[i].n \in Nat
      /\ serving.n \in Nat
  <2>1. commands \in Seq(Served) /\ serving \in Served
    BY DEF TelnetInv, TelnetTyped
  <2>2. \A i \in DOMAIN commands : commands[i] \in Served
    BY <2>1
  <2>3. /\ \A i \in DOMAIN telnet' : telnet'[i] \in Tokens
        /\ \A i \in DOMAIN buffered' : buffered'[i] \in Tokens
    BY <1>6
  <2>. QED
    BY <2>1, <2>2, <2>3 DEF Tokens, Served
<1>8. TelnetTyped'
  <2>1. commands' \in Seq(Served) /\ serving' \in Served /\ chatter' \in 0 .. MaxChatter
    BY DEF TelnetInv, TelnetTyped
  <2>2. answers' \in Seq(Tokens)
    BY <1>1
  <2>3. discarded' \in BOOLEAN
    BY <1>1
  <2>. QED
    BY <1>1, <1>6, <2>1, <2>2, <2>3 DEF TelnetTyped, Failures
<1>9. Numbered'
  BY <1>1, <1>6 DEF TelnetInv, Numbered
<1>10. Bounded'
  <2>1. /\ serving.n <= call.n
        /\ \A i \in DOMAIN commands : commands[i].n <= call.n
    BY DEF TelnetInv, Bounded
  <2>2. UNCHANGED <<commands, serving>>
    OBVIOUS
  <2>. QED
    BY ONLY <1>1, <1>6, <1>7, <2>1, <2>2 DEF Bounded
<1>11. InOrder'
  <2>1. /\ \A i \in DOMAIN telnet' : telnet'[i].of # call'.n
        /\ \A i \in DOMAIN buffered' : buffered'[i].of # call'.n
        /\ \A i \in DOMAIN commands' : commands'[i].n # call'.n
        /\ serving'.n # call'.n
    BY <1>1, <1>6, <1>7 DEF TelnetInv, Bounded
  <2>. QED
    BY <1>5, <2>1 DEF InOrder
<1>. QED
  BY <1>1, <1>4, <1>5, <1>8, <1>9, <1>10, <1>11 DEF TelnetInv, AnswersBelong


\* What belongs to a call, line by line.
LEMMA Facts ==
  ASSUME TelnetInv
  PROVE  /\ call.n \in Nat /\ call.n >= 1 /\ call.n = Number(call.name)
         /\ call.name \in CommandNames
         /\ telnet \in Seq(Tokens) /\ buffered \in Seq(Tokens) /\ answers \in Seq(Tokens)
         /\ commands \in Seq(Served) /\ serving \in Served
         /\ \A i \in DOMAIN telnet : telnet[i] \in Tokens /\ telnet[i].of \in Nat
         /\ \A i \in DOMAIN buffered : buffered[i] \in Tokens /\ buffered[i].of \in Nat
         /\ \A i \in DOMAIN commands : commands[i] \in Served /\ commands[i].n \in Nat
         /\ serving.n \in Nat
<1>1. /\ call.n \in Nat /\ call.n >= 1 /\ call.n = Number(call.name)
      /\ call.name \in CommandNames
  BY CallTypes, NumbersTell DEF TelnetInv, Numbered
<1>2. /\ telnet \in Seq(Tokens) /\ buffered \in Seq(Tokens) /\ answers \in Seq(Tokens)
      /\ commands \in Seq(Served) /\ serving \in Served
  BY DEF TelnetInv, TelnetTyped
<1>3. /\ \A i \in DOMAIN telnet : telnet[i] \in Tokens
      /\ \A i \in DOMAIN buffered : buffered[i] \in Tokens
      /\ \A i \in DOMAIN commands : commands[i] \in Served
  BY <1>2
<1>. QED
  BY <1>1, <1>2, <1>3 DEF Tokens, Served

\* read_into_buffer moves lines from one end of the connection to the other.
LEMMA ReadOrder == TelnetInv /\ ReadIntoBuffer => TelnetInv'
<1>. SUFFICES ASSUME TelnetInv, ReadIntoBuffer PROVE TelnetInv'
  OBVIOUS
<1>1. PICK n \in 1 .. Len(telnet) :
        /\ buffered' = buffered \o SubSeq(telnet, 1, n)
        /\ telnet' = SubSeq(telnet, n + 1, Len(telnet))
  BY DEF ReadIntoBuffer
<1>2. /\ UNCHANGED <<call, answers, discarded, commands, serving, chatter>>
  BY DEF ReadIntoBuffer, telnetServer
<1>3. telnet \in Seq(Tokens) /\ buffered \in Seq(Tokens)
  BY Facts
<1>4. /\ telnet' \in Seq(Tokens) /\ Len(telnet') = Len(telnet) - n
      /\ \A i \in 1 .. Len(telnet) - n : telnet'[i] = telnet[i + n]
  <2>1. /\ SubSeq(telnet, n + 1, Len(telnet)) \in Seq(Tokens)
        /\ Len(SubSeq(telnet, n + 1, Len(telnet))) =
             IF n + 1 <= Len(telnet) THEN Len(telnet) - (n + 1) + 1 ELSE 0
        /\ \A i \in 1 .. Len(telnet) - (n + 1) + 1 :
             SubSeq(telnet, n + 1, Len(telnet))[i] = telnet[n + 1 + i - 1]
    <3>1. \A i \in n + 1 .. Len(telnet) : telnet[i] \in Tokens
      BY <1>3
    <3>. QED
      BY <1>3, <3>1, SubSeqProperties
  <2>. QED
    BY <1>1, <1>3, <2>1
<1>5. /\ SubSeq(telnet, 1, n) \in Seq(Tokens) /\ Len(SubSeq(telnet, 1, n)) = n
      /\ \A i \in 1 .. n : SubSeq(telnet, 1, n)[i] = telnet[i]
  <2>1. \A i \in 1 .. n : telnet[i] \in Tokens
    BY <1>3
  <2>. QED
    BY <1>3, <2>1, SubSeqProperties
<1>6. /\ buffered' \in Seq(Tokens) /\ Len(buffered') = Len(buffered) + n
      /\ \A i \in 1 .. Len(buffered) : buffered'[i] = buffered[i]
      /\ \A i \in Len(buffered) + 1 .. Len(buffered') :
           buffered'[i] = telnet[i - Len(buffered)]
  BY <1>1, <1>3, <1>5
<1>7. /\ DOMAIN telnet = 1 .. Len(telnet) /\ DOMAIN buffered = 1 .. Len(buffered)
      /\ DOMAIN telnet' = 1 .. Len(telnet) - n
      /\ DOMAIN buffered' = 1 .. Len(buffered) + n
      /\ Len(telnet) \in Nat /\ Len(buffered) \in Nat /\ n \in Nat
  BY <1>3, <1>4, <1>6
<1>8. ASSUME NEW i \in DOMAIN buffered'
      PROVE  \/ i \in DOMAIN buffered /\ buffered'[i] = buffered[i]
             \/ /\ i - Len(buffered) \in 1 .. n /\ i - Len(buffered) \in DOMAIN telnet
                /\ buffered'[i] = telnet[i - Len(buffered)]
  BY <1>6, <1>7
<1>9. ASSUME NEW i \in DOMAIN telnet'
      PROVE  i + n \in DOMAIN telnet /\ telnet'[i] = telnet[i + n]
  BY <1>4, <1>7
<1>10. TelnetTyped'
  BY <1>2, <1>4, <1>6 DEF TelnetInv, TelnetTyped, Waiting
<1>11. Numbered' /\ Bounded'
  BY <1>2, <1>8, <1>9 DEF TelnetInv, Numbered, Bounded
<1>12. InOrder'
  <2>1. EchoRead' => BufferedMine' /\ TelnetMine' /\ ServerMine'
    BY <1>2, <1>8, <1>9
       DEF TelnetInv, InOrder, EchoRead, BufferedMine, TelnetMine, ServerMine,
           CommandsMine, Mine
  <2>2. ASSUME NEW i \in DOMAIN telnet', NEW j \in DOMAIN telnet', i < j,
               telnet'[i].of = call.n
        PROVE  Mine(telnet'[j].of)
    <3>1. i + n < j + n
      BY <1>7, <2>2
    <3>. QED
      BY <1>9, <2>2, <3>1 DEF TelnetInv, InOrder
  <2>3. ASSUME NEW i \in DOMAIN buffered', NEW j \in DOMAIN buffered', i < j,
               buffered'[i].of = call.n
        PROVE  Mine(buffered'[j].of)
    <3>1. CASE i \in DOMAIN buffered /\ buffered'[i] = buffered[i]
      BY <1>8, <2>3, <3>1 DEF TelnetInv, InOrder, TelnetMine
    <3>2. CASE i \notin DOMAIN buffered
      <4>1. /\ i - Len(buffered) \in DOMAIN telnet
            /\ buffered'[i] = telnet[i - Len(buffered)]
            /\ j - Len(buffered) \in DOMAIN telnet
            /\ buffered'[j] = telnet[j - Len(buffered)]
            /\ i - Len(buffered) < j - Len(buffered)
        BY <1>6, <1>7, <1>8, <2>3, <3>2
      <4>. QED
        BY <2>3, <4>1 DEF TelnetInv, InOrder
    <3>. QED
      BY <1>6, <1>7, <3>1, <3>2
  <2>4. ASSUME NEW i \in DOMAIN buffered', buffered'[i].of = call.n
        PROVE  TelnetMine' /\ ServerMine'
    <3>1. CASE i \in DOMAIN buffered /\ buffered'[i] = buffered[i]
      BY <1>2, <1>9, <2>4, <3>1
         DEF TelnetInv, InOrder, TelnetMine, ServerMine, CommandsMine, Mine
    <3>2. CASE /\ i - Len(buffered) \in 1 .. n /\ i - Len(buffered) \in DOMAIN telnet
               /\ buffered'[i] = telnet[i - Len(buffered)]
      <4>1. ServerMine'
        BY <1>2, <2>4, <3>2
           DEF TelnetInv, InOrder, ServerMine, CommandsMine, Mine
      <4>2. ASSUME NEW j \in DOMAIN telnet' PROVE Mine(telnet'[j].of)
        <5>1. i - Len(buffered) < j + n
          BY <1>7, <3>2, <4>2
        <5>. QED
          BY <1>9, <2>4, <3>2, <4>2, <5>1 DEF TelnetInv, InOrder
      <4>. QED
        BY <1>2, <4>1, <4>2 DEF TelnetMine, Mine
    <3>. QED
      BY <1>8, <3>1, <3>2
  <2>5. ASSUME NEW i \in DOMAIN telnet', telnet'[i].of = call.n
        PROVE  ServerMine'
    BY <1>2, <1>9, <2>5 DEF TelnetInv, InOrder, ServerMine, CommandsMine, Mine
  <2>6. /\ serving'.n = call'.n => CommandsMine'
        /\ \A i, j \in DOMAIN commands' :
             i < j /\ commands'[i].n = call'.n => Mine(commands'[j].n)
    BY <1>2 DEF TelnetInv, InOrder, CommandsMine, Mine
  <2>. QED
    BY <1>2, <2>1, <2>2, <2>3, <2>4, <2>5, <2>6 DEF InOrder, Mine
<1>13. CallType' /\ Plan' /\ AnswersBelong'
  BY <1>2 DEF TelnetInv, CallType, Plan, AnswersBelong
<1>. QED
  BY <1>10, <1>11, <1>12, <1>13 DEF TelnetInv


\* While the call waits for its prompt or its echo, it has not read the echo;
\* when it waits for the end of a list, it has.
LEMMA AwaitedTells ==
  ASSUME TelnetInv, Waiting
  PROVE  /\ call.failure = "none"
         /\ Awaited \in {"prompt", "echo"} => ~EchoRead
         /\ Awaited \notin {"prompt", "echo"} => EchoRead
<1>1. /\ call.todo \in Seq({"prompt", "echo"} \cup Answers) /\ call.todo # <<>>
      /\ Awaited = call.todo[1] /\ 1 \in DOMAIN call.todo
      /\ call.name \in CommandNames /\ call.failure = "none"
  <2>1. call.todo \in Seq({"prompt", "echo"} \cup Answers) /\ call.todo # <<>>
    BY CallTypes DEF TelnetInv, Waiting
  <2>2. Awaited = Head(call.todo)
    BY DEF Awaited
  <2>. QED
    BY <2>1, <2>2, CallTypes DEF TelnetInv, TelnetTyped
<1>2. Waits(call.name) \in Seq(Answers)
  BY <1>1, WaitsOwn
<1>3. CASE call.todo = <<"prompt", "echo">> \o Waits(call.name)
  <2>1. call.todo[1] = "prompt"
    BY <1>2, <1>3
  <2>. QED
    BY <1>1, <2>1 DEF EchoRead
<1>4. CASE call.todo = <<"echo">> \o Waits(call.name)
  <2>1. call.todo[1] = "echo"
    BY <1>2, <1>4
  <2>. QED
    BY <1>1, <2>1 DEF EchoRead
<1>5. CASE \A i \in DOMAIN call.todo :
             call.todo[i] = "blank" \/ call.todo[i] \in Own(call.name) \ {call.name}
  <2>1. "prompt" \notin Own(call.name) /\ \A k \in {"echo"} : k \notin Own(call.name)
    BY <1>1, OwnOf DEF CommandNames
  <2>. QED
    BY <1>1, <1>5, <2>1 DEF EchoRead
<1>. QED
  BY <1>3, <1>4, <1>5 DEF TelnetInv, Plan

\* The command is written behind what the server has not yet executed.
LEMMA WriteOrder == TelnetInv /\ WriteCommand => TelnetInv'
<1>. SUFFICES ASSUME TelnetInv, WriteCommand PROVE TelnetInv'
  OBVIOUS
<1>. DEFINE c == [name |-> call.name, n |-> call.n]
<1>1. /\ Awaited = "prompt" /\ buffered' = <<>> /\ commands' = Append(commands, c)
      /\ call' = [call EXCEPT !.todo = Tail(@)]
      /\ UNCHANGED <<telnet, answers, discarded, serving, chatter>>
  BY DEF WriteCommand, telnetServer
<1>2. Waiting
  BY <1>1 DEF Awaited
<1>3. /\ CallType' /\ Plan' /\ call'.name = call.name /\ call'.n = call.n
      /\ call'.failure = call.failure /\ ~EchoRead'
  BY <1>1, <1>2, TakeWait, AwaitedTells DEF TelnetInv
<1>4. c \in Served /\ c.n = call.n /\ c.name = call.name
  BY Facts DEF Served
<1>. HIDE DEF c
<1>5. /\ commands' \in Seq(Served)
      /\ DOMAIN commands' = 1 .. Len(commands) + 1
      /\ DOMAIN commands = 1 .. Len(commands) /\ Len(commands) \in Nat
      /\ \A i \in DOMAIN commands : commands'[i] = commands[i]
      /\ commands'[Len(commands) + 1] = c
  BY <1>1, <1>4, Facts
<1>6. ASSUME NEW i \in DOMAIN commands'
      PROVE  \/ i \in DOMAIN commands /\ commands'[i] = commands[i]
             \/ commands'[i] = c
  BY <1>5
<1>7. TelnetTyped'
  <2>1. buffered' \in Seq(Tokens)
    BY <1>1
  <2>. QED
    BY <1>1, <1>2, <1>3, <1>5, <2>1, AwaitedTells DEF TelnetInv, TelnetTyped
<1>8. Numbered' /\ Bounded'
  BY <1>1, <1>3, <1>4, <1>6, Facts DEF TelnetInv, Numbered, Bounded
<1>9. InOrder'
  <2>1. CommandsMine => CommandsMine'
    BY <1>3, <1>4, <1>6 DEF CommandsMine, Mine
  <2>2. ServerMine => ServerMine'
    BY <1>1, <1>3, <2>1 DEF ServerMine, Mine
  <2>3. ASSUME NEW i \in DOMAIN commands', NEW j \in DOMAIN commands', i < j,
               commands'[i].n = call.n
        PROVE  Mine(commands'[j].n)
    <3>1. CASE j = Len(commands) + 1
      BY <1>4, <1>5, <3>1 DEF Mine
    <3>2. CASE j # Len(commands) + 1
      <4>1. i \in DOMAIN commands /\ j \in DOMAIN commands
        BY <1>5, <2>3, <3>2
      <4>. QED
        BY <1>5, <2>3, <4>1 DEF TelnetInv, InOrder
    <3>. QED
      BY <3>1, <3>2
  <2>4. /\ serving'.n = call'.n => CommandsMine'
        /\ \A i \in DOMAIN telnet' : telnet'[i].of = call'.n => ServerMine'
        /\ \A i, j \in DOMAIN telnet' :
             i < j /\ telnet'[i].of = call'.n => Mine(telnet'[j].of)
    BY <1>1, <1>3, <2>1, <2>2 DEF TelnetInv, InOrder
  <2>. QED
    BY <1>1, <1>3, <2>3, <2>4 DEF InOrder, Mine
<1>10. AnswersBelong'
  BY <1>1, <1>3 DEF TelnetInv, AnswersBelong
<1>. QED
  BY <1>3, <1>7, <1>8, <1>9, <1>10 DEF TelnetInv

\* A line that only one command causes tells the number of the command.
LEMMA MarkedLine ==
  ASSUME TelnetInv, NEW t \in Tokens, Marked(t)
  PROVE  /\ t.kind \in Own(call.name) => t.of = call.n
         /\ /\ Mine(t.of)
            /\ t.kind \in CommandNames \cup (Answers \ {"blank"})
            => t.of = call.n
<1>1. t.kind \in Own(call.name) => t.of = call.n
  BY Facts DEF Marked
<1>2. ASSUME Mine(t.of), t.kind \in CommandNames \cup (Answers \ {"blank"})
      PROVE  t.of = call.n
  <2>1. PICK name \in CommandNames : t.kind \in Own(name)
    BY <1>2, LinesAreOwned, OwnLines
  <2>2. t.of = Number(name) /\ Number(name) \in Nat /\ Number(name) >= 1
    BY <2>1, NumbersTell DEF Marked
  <2>. QED
    BY <1>2, <2>2 DEF Mine
<1>. QED
  BY <1>1, <1>2


\* The first line is read, with the prompts before it.
LEMMA TakeOrder == TelnetInv /\ TakeLine => TelnetInv'
<1>. SUFFICES ASSUME TelnetInv, TakeLine PROVE TelnetInv'
  OBVIOUS
<1>. DEFINE t == TheLine
            e == LineEnd
<1>1. /\ Awaited # "prompt" /\ Waiting /\ LineEnds # {} /\ buffered' = AfterLine
      /\ UNCHANGED <<telnet, commands, serving, chatter>>
  BY DEF TakeLine, telnetServer, Awaited
<1>2. e \in DOMAIN buffered /\ t = buffered[e]
  BY <1>1, FirstLine, Facts DEF TheLine
<1>3. t \in Tokens /\ Marked(t) /\ t.of \in Nat
  BY <1>2, Facts DEF TelnetInv, Numbered
<1>4. /\ buffered' = SubSeq(buffered, e + 1, Len(buffered))
      /\ buffered \in Seq(Tokens)
  BY <1>1, Facts DEF AfterLine
<1>. HIDE DEF t, e
<1>5. /\ buffered' \in Seq(Tokens) /\ Len(buffered') = Len(buffered) - e
      /\ \A i \in 1 .. Len(buffered) - e : buffered'[i] = buffered[i + e]
      /\ e \in 1 .. Len(buffered) /\ Len(buffered) \in Nat
  <2>1. e \in 1 .. Len(buffered)
    BY <1>2, <1>4
  <2>2. \A i \in e + 1 .. Len(buffered) : buffered[i] \in Tokens
    BY <1>4, <2>1
  <2>3. /\ SubSeq(buffered, e + 1, Len(buffered)) \in Seq(Tokens)
        /\ Len(SubSeq(buffered, e + 1, Len(buffered))) =
             IF e + 1 <= Len(buffered) THEN Len(buffered) - (e + 1) + 1 ELSE 0
        /\ \A i \in 1 .. Len(buffered) - (e + 1) + 1 :
             SubSeq(buffered, e + 1, Len(buffered))[i] = buffered[e + 1 + i - 1]
    BY <1>4, <2>1, <2>2, SubSeqProperties
  <2>. QED
    BY <1>4, <2>1, <2>3
<1>6. ASSUME NEW i \in DOMAIN buffered'
      PROVE  i + e \in DOMAIN buffered /\ buffered'[i] = buffered[i + e] /\ e < i + e
  BY <1>5
<1>7. /\ call'.name = call.name /\ call'.n = call.n /\ call'.failure = call.failure
      /\ CallType' /\ Plan'
  BY <1>1, TakeWait DEF TelnetInv, TakeLine, CallType, Plan
<1>8. EchoRead' => EchoRead \/ (Awaited = "echo" /\ t.kind = call.name)
  <2>1. CASE UNCHANGED call
    BY <2>1 DEF EchoRead
  <2>2. CASE call' = [call EXCEPT !.todo = Tail(@)] /\ Matches
    BY <1>1, <2>2, TakeWait DEF TelnetInv, Matches, t
  <2>. QED
    BY <2>1, <2>2 DEF TakeLine
<1>9. Awaited = "echo" /\ t.kind = call.name => t.of = call.n
  BY <1>3, MarkedLine, OwnLines, Facts
<1>10. EchoRead => Mine(t.of)
  BY <1>2 DEF TelnetInv, InOrder, BufferedMine
<1>11. AnswersBelong'
  <2>1. CASE UNCHANGED <<call, answers>>
    BY <2>1 DEF TelnetInv, AnswersBelong
  <2>2. ASSUME answers' = Append(answers, t), Mine(t.of),
               t.kind \in CommandNames \cup (Answers \ {"blank"}) => t.of = call.n
        PROVE  AnswersBelong'
    <3>1. \A i \in DOMAIN answers' :
            answers'[i] = t \/ (i \in DOMAIN answers /\ answers'[i] = answers[i])
      BY <1>3, <2>2, Facts
    <3>. QED
      BY <1>7, <2>2, <3>1 DEF TelnetInv, AnswersBelong, Mine
  <2>3. CASE /\ Matches /\ answers' = Append(answers, t)
             /\ call' = [call EXCEPT !.todo = Tail(@)]
    <3>1. CASE Awaited = "echo"
      BY <1>9, <2>2, <2>3, <3>1 DEF Matches, Mine, t
    <3>2. CASE Awaited # "echo"
      <4>1. t.kind = Awaited
        BY <2>3, <3>2 DEF Matches, t
      <4>2. Awaited = "blank" \/ Awaited \in Own(call.name)
        BY <1>1, <2>3, <3>2, TakeWait DEF TelnetInv
      <4>3. "blank" \notin CommandNames
        BY DEF CommandNames
      <4>4. Mine(t.of)
        BY <1>1, <1>10, <3>2, AwaitedTells
      <4>. QED
        BY <1>3, <2>2, <2>3, <4>1, <4>2, <4>3, <4>4, MarkedLine
    <3>. QED
      BY <3>1, <3>2
  <2>4. CASE Collects /\ answers' = Append(answers, t)
    BY <1>1, <1>3, <1>10, <2>2, <2>4, MarkedLine, AwaitedTells DEF Collects
  <2>5. CASE UNCHANGED answers
    BY <1>7, <2>5 DEF TelnetInv, AnswersBelong
  <2>. QED
    BY <2>1, <2>3, <2>4, <2>5 DEF TakeLine, t
<1>12. TelnetTyped'
  <2>1. answers' \in Seq(Tokens)
    <3>1. answers' = answers \/ answers' = Append(answers, t)
      BY DEF TakeLine, t
    <3>2. answers \in Seq(Tokens) /\ t \in Tokens
      BY <1>3, Facts
    <3>. QED
      BY <3>1, <3>2
  <2>2. discarded' \in BOOLEAN
    BY DEF TakeLine, TelnetInv, TelnetTyped
  <2>. QED
    BY <1>1, <1>5, <1>7, <2>1, <2>2, AwaitedTells DEF TelnetInv, TelnetTyped
<1>13. Numbered' /\ Bounded'
  BY <1>1, <1>6, <1>7 DEF TelnetInv, Numbered, Bounded
<1>14. InOrder'
  <2>1. EchoRead' => BufferedMine' /\ TelnetMine' /\ ServerMine'
    <3>1. CASE EchoRead
      BY <1>1, <1>6, <1>7, <3>1
         DEF TelnetInv, InOrder, BufferedMine, TelnetMine, ServerMine, CommandsMine, Mine
    <3>2. CASE t.of = call.n
      BY <1>1, <1>2, <1>6, <1>7, <3>2
         DEF TelnetInv, InOrder, BufferedMine, TelnetMine, ServerMine, CommandsMine, Mine
    <3>. QED
      BY <1>8, <1>9, <3>1, <3>2
  <2>2. ASSUME NEW i \in DOMAIN buffered', NEW j \in DOMAIN buffered', i < j,
               buffered'[i].of = call.n
        PROVE  Mine(buffered'[j].of)
    <3>1. i + e < j + e
      BY <1>5, <2>2
    <3>. QED
      BY <1>6, <2>2, <3>1 DEF TelnetInv, InOrder
  <2>3. ASSUME NEW i \in DOMAIN buffered', buffered'[i].of = call.n
        PROVE  TelnetMine' /\ ServerMine'
    BY <1>1, <1>6, <1>7, <2>3
       DEF TelnetInv, InOrder, TelnetMine, ServerMine, CommandsMine, Mine
  <2>4. /\ serving'.n = call'.n => CommandsMine'
        /\ \A i \in DOMAIN telnet' : telnet'[i].of = call'.n => ServerMine'
        /\ \A i, j \in DOMAIN telnet' :
             i < j /\ telnet'[i].of = call'.n => Mine(telnet'[j].of)
        /\ \A i, j \in DOMAIN commands' :
             i < j /\ commands'[i].n = call'.n => Mine(commands'[j].n)
    BY <1>1, <1>7 DEF TelnetInv, InOrder, ServerMine, CommandsMine, Mine
  <2>. QED
    BY <1>7, <2>1, <2>2, <2>3, <2>4 DEF InOrder, Mine
<1>. QED
  BY <1>7, <1>11, <1>12, <1>13, <1>14 DEF TelnetInv

\* A call that fails waits no more.
LEMMA FailOrder == TelnetInv /\ CallFails => TelnetInv'
<1>. SUFFICES ASSUME TelnetInv, CallFails PROVE TelnetInv'
  OBVIOUS
<1>1. PICK failure \in {"timeout", "unexpected", "io"} :
        call' = [call EXCEPT !.todo = <<>>, !.failure = failure]
  BY DEF CallFails
<1>2. UNCHANGED <<telnet, buffered, answers, discarded, commands, serving, chatter>>
  BY DEF CallFails, telnetServer
<1>3. /\ call'.name = call.name /\ call'.n = call.n /\ call'.todo = <<>>
      /\ call'.failure = failure /\ CallType'
  <2>1. <<>> \in Seq({"prompt", "echo"} \cup Answers) /\ failure \in Failures
    BY DEF Failures
  <2>. QED
    BY <1>1, <2>1 DEF TelnetInv, CallType
<1>4. Plan' /\ ~EchoRead' /\ ~Waiting'
  BY <1>3 DEF Plan, EchoRead, Waiting
<1>5. TelnetTyped'
  BY <1>2, <1>3, <1>4 DEF TelnetInv, TelnetTyped, Failures
<1>6. Numbered' /\ Bounded' /\ AnswersBelong'
  BY <1>2, <1>3 DEF TelnetInv, Numbered, Bounded, AnswersBelong
<1>7. InOrder'
  BY <1>2, <1>3, <1>4
     DEF TelnetInv, InOrder, TelnetMine, ServerMine, CommandsMine, Mine
<1>. QED
  BY <1>3, <1>4, <1>5, <1>6, <1>7 DEF TelnetInv


\* What the server does: it writes more lines, and goes from one command to the
\* next.
LEMMA ServerWrites ==
  ASSUME TelnetInv, UNCHANGED telnetClient,
         NEW more \in Seq(Tokens), telnet' = telnet \o more,
         commands' \in Seq(Served), serving' \in Served, chatter' \in 0 .. MaxChatter,
         \A i \in DOMAIN commands' : \E j \in DOMAIN commands : commands'[i] = commands[j],
         serving' # NoCommand =>
           /\ serving'.name \in CommandNames /\ serving'.n = Number(serving'.name)
           /\ serving'.n <= call.n,
         serving'.n <= call.n,
         \A i \in DOMAIN more : Marked(more[i]) /\ more[i].of <= call.n,
         ServerMine => ServerMine' /\ \A i \in DOMAIN more : Mine(more[i].of),
         \A i \in DOMAIN more : more[i].of = call.n =>
           ServerMine' /\ \A j \in DOMAIN more : Mine(more[j].of),
         serving'.n = call.n => CommandsMine',
         \A i, j \in DOMAIN commands' :
           i < j /\ commands'[i].n = call.n => Mine(commands'[j].n)
  PROVE  TelnetInv'
<1>1. UNCHANGED <<buffered, call, answers, discarded>>
  BY DEF telnetClient
<1>2. /\ telnet' \in Seq(Tokens)
      /\ DOMAIN telnet' = 1 .. Len(telnet) + Len(more)
      /\ DOMAIN telnet = 1 .. Len(telnet) /\ DOMAIN more = 1 .. Len(more)
      /\ Len(telnet) \in Nat /\ Len(more) \in Nat
      /\ \A i \in 1 .. Len(telnet) : telnet'[i] = telnet[i]
      /\ \A i \in Len(telnet) + 1 .. Len(telnet) + Len(more) :
           telnet'[i] = more[i - Len(telnet)]
  BY Facts
<1>3. ASSUME NEW i \in DOMAIN telnet'
      PROVE  \/ i \in DOMAIN telnet /\ telnet'[i] = telnet[i]
             \/ /\ i - Len(telnet) \in DOMAIN more /\ i > Len(telnet)
                /\ telnet'[i] = more[i - Len(telnet)]
  BY <1>2
<1>4. TelnetTyped'
  BY <1>1, <1>2 DEF TelnetInv, TelnetTyped, Waiting
<1>5. Numbered' /\ Bounded'
  BY <1>1, <1>3 DEF TelnetInv, Numbered, Bounded
<1>6. InOrder'
  <2>1. EchoRead' => BufferedMine' /\ TelnetMine' /\ ServerMine'
    BY <1>1, <1>3 DEF TelnetInv, InOrder, EchoRead, BufferedMine, TelnetMine, Mine
  <2>2. ASSUME NEW i \in DOMAIN buffered', buffered'[i].of = call'.n
        PROVE  TelnetMine' /\ ServerMine'
    BY <1>1, <1>3, <2>2 DEF TelnetInv, InOrder, TelnetMine, Mine
  <2>3. ASSUME NEW i \in DOMAIN telnet', telnet'[i].of = call.n PROVE ServerMine'
    BY <1>3, <2>3 DEF TelnetInv, InOrder
  <2>4. ASSUME NEW i \in DOMAIN telnet', NEW j \in DOMAIN telnet', i < j,
               telnet'[i].of = call.n
        PROVE  Mine(telnet'[j].of)
    <3>1. CASE i \in DOMAIN telnet /\ j \in DOMAIN telnet
      BY <1>2, <2>4, <3>1 DEF TelnetInv, InOrder
    <3>2. CASE i \in DOMAIN telnet /\ j \notin DOMAIN telnet
      BY <1>2, <1>3, <2>4, <3>2 DEF TelnetInv, InOrder
    <3>3. CASE i \notin DOMAIN telnet
      <4>1. j \notin DOMAIN telnet
        BY <1>2, <2>4, <3>3
      <4>. QED
        BY <1>3, <2>4, <3>3, <4>1
    <3>. QED
      BY <3>1, <3>2, <3>3
  <2>5. \A i, j \in DOMAIN buffered' :
          i < j /\ buffered'[i].of = call'.n => Mine(buffered'[j].of)
    BY <1>1 DEF TelnetInv, InOrder
  <2>. QED
    BY <1>1, <2>1, <2>2, <2>3, <2>4, <2>5 DEF InOrder, Mine
<1>7. CallType' /\ Plan' /\ AnswersBelong'
  BY <1>1 DEF TelnetInv, CallType, Plan, AnswersBelong
<1>. QED
  BY <1>4, <1>5, <1>6, <1>7 DEF TelnetInv

LEMMA EchoOrder == TelnetInv /\ Echo => TelnetInv'
<1>. SUFFICES ASSUME TelnetInv, Echo PROVE TelnetInv'
  OBVIOUS
<1>. DEFINE h == Head(commands)
            more == <<Line(h.name, h.n)>>
<1>1. /\ commands \in Seq(Served) /\ commands # <<>>
      /\ commands' = Tail(commands) /\ serving' = h /\ serving.n = 0
      /\ telnet' = telnet \o more
      /\ UNCHANGED telnetClient /\ UNCHANGED chatter
  BY Facts DEF Echo, NoCommand
<1>2. /\ h = commands[1] /\ 1 \in DOMAIN commands /\ h \in Served
      /\ h.name \in CommandNames /\ h.n = Number(h.name) /\ h.n <= call.n /\ h.n \in Nat
  <2>1. h = commands[1] /\ 1 \in DOMAIN commands
    BY <1>1
  <2>. QED
    BY <2>1, Facts DEF TelnetInv, Numbered, Bounded
<1>. HIDE DEF h
<1>3. Line(h.name, h.n) \in Tokens /\ Marked(Line(h.name, h.n))
  <2>1. \A name \in CommandNames : h.name \in Own(name) => name = h.name
    BY <1>2, OwnLines
  <2>. QED
    BY <1>2, <2>1 DEF Line, Tokens, Marked
<1>4. more \in Seq(Tokens) /\ \A i \in DOMAIN more : more[i] = Line(h.name, h.n)
  BY <1>3
<1>5. Line(h.name, h.n).of = h.n
  BY DEF Line
<1>. HIDE DEF more
<1>6. /\ commands' \in Seq(Served)
      /\ \A i \in DOMAIN commands' :
           i + 1 \in DOMAIN commands /\ commands'[i] = commands[i + 1] /\ 1 < i + 1
  BY <1>1
<1>7. h.n = call.n => CommandsMine'
  <2>. SUFFICES ASSUME h.n = call.n, NEW i \in DOMAIN commands'
                PROVE  Mine(commands'[i].n)
    BY <1>1 DEF telnetClient, CommandsMine, Mine
  <2>. QED
    BY <1>2, <1>6 DEF TelnetInv, InOrder
<1>8. CommandsMine => CommandsMine' /\ Mine(h.n)
  BY <1>1, <1>2, <1>6 DEF telnetClient, CommandsMine, Mine
<1>9. ASSUME NEW i \in DOMAIN commands', NEW j \in DOMAIN commands', i < j,
             commands'[i].n = call.n
      PROVE  Mine(commands'[j].n)
  <2>1. i + 1 < j + 1
    BY <1>1, <1>9
  <2>. QED
    BY <1>6, <1>9, <2>1 DEF TelnetInv, InOrder
<1>10. /\ ServerMine => ServerMine' /\ Mine(h.n)
       /\ h.n = call.n => ServerMine'
  BY <1>1, <1>7, <1>8 DEF telnetClient, ServerMine, Mine
<1>11. chatter' \in 0 .. MaxChatter
  BY <1>1 DEF TelnetInv, TelnetTyped
<1>12. h.n = call.n => Mine(h.n)
  BY DEF Mine
<1>13. \A i \in DOMAIN commands' : \E j \in DOMAIN commands : commands'[i] = commands[j]
  BY <1>6
<1>. QED
  BY <1>1, <1>2, <1>3, <1>4, <1>5, <1>6, <1>7, <1>9, <1>10, <1>11, <1>12, <1>13,
     ServerWrites

\* What an answer adds to what is on the way: its lines and a prompt.
LEMMA AnswerPrints ==
  ASSUME TelnetInv, NEW kinds \in Seq(Answers \cup {"info"}), Answer(kinds)
  PROVE  \E m \in Seq(Tokens) :
           /\ telnet' = telnet \o m
           /\ \A i \in DOMAIN m :
                \/ m[i] = Prompt
                \/ \E k \in DOMAIN kinds : m[i] = Line(kinds[k], serving.n)
           /\ \A k \in DOMAIN kinds : \E i \in DOMAIN m : m[i] = Line(kinds[k], serving.n)
<1>. DEFINE lines == [i \in DOMAIN kinds |-> Line(kinds[i], serving.n)]
            m == lines \o <<Prompt>>
<1>1. telnet' = (telnet \o lines) \o <<Prompt>>
  BY DEF Answer
<1>2. <<Prompt>> \in Seq(Tokens)
  BY DEF Prompt, Line, Tokens
<1>3. ASSUME NEW i \in DOMAIN kinds
      PROVE  lines[i] \in Tokens /\ lines[i] = Line(kinds[i], serving.n)
  <2>1. kinds[i] \in Answers \cup {"info"}
    OBVIOUS
  <2>. QED
    BY <2>1, Facts DEF Line, Tokens
<1>4. /\ lines \in Seq(Tokens) /\ DOMAIN lines = DOMAIN kinds
      /\ DOMAIN kinds = 1 .. Len(kinds) /\ Len(kinds) \in Nat /\ Len(lines) = Len(kinds)
  <2>1. DOMAIN lines = 1 .. Len(kinds) /\ Len(kinds) \in Nat
    OBVIOUS
  <2>2. lines = [i \in 1 .. Len(kinds) |-> lines[i]]
    BY <2>1
  <2>. HIDE DEF lines
  <2>3. lines \in [1 .. Len(kinds) -> Tokens]
    BY <1>3, <2>1, <2>2
  <2>. QED
    BY <2>1, <2>3
<1>. HIDE DEF lines
<1>5. telnet' = telnet \o m
  <2>1. telnet \in Seq(Tokens)
    BY Facts
  <2>2. (telnet \o lines) \o <<Prompt>> = telnet \o (lines \o <<Prompt>>)
    BY <1>2, <1>4, <2>1, ConcatAssociative
  <2>. QED
    BY <1>1, <2>2
<1>6. /\ m \in Seq(Tokens)
      /\ \A i \in DOMAIN m : (i \in DOMAIN kinds /\ m[i] = lines[i]) \/ m[i] = Prompt
      /\ \A i \in DOMAIN kinds : i \in DOMAIN m /\ m[i] = lines[i]
  BY <1>2, <1>4
<1>. HIDE DEF m
<1>. QED
  BY <1>3, <1>5, <1>6

\* The server prints the answer to the command it serves.
LEMMA AnswerOrder ==
  ASSUME TelnetInv, NEW kinds \in Seq(Answers \cup {"info"}), Answer(kinds),
         \A i \in DOMAIN kinds : kinds[i] \in {"blank", "info"} \/ kinds[i] \in Own(serving.name)
  PROVE  TelnetInv'
<1>1. /\ serving # NoCommand /\ serving' = NoCommand
      /\ UNCHANGED telnetClient /\ UNCHANGED <<commands, chatter>>
  BY DEF Answer
<1>2. /\ serving.name \in CommandNames /\ serving.n = Number(serving.name)
      /\ serving.n <= call.n /\ serving.n \in Nat
  BY <1>1, Facts DEF TelnetInv, Numbered, Bounded
<1>3. Marked(Prompt) /\ Prompt.of = 0
  <2>1. \A name \in CommandNames : "prompt" \notin Own(name)
    BY OwnLines
  <2>. QED
    BY <2>1 DEF Prompt, Line, Marked
<1>4. ASSUME NEW i \in DOMAIN kinds
      PROVE  Marked(Line(kinds[i], serving.n)) /\ Line(kinds[i], serving.n).of = serving.n
  <2>1. \A name \in CommandNames : kinds[i] \in Own(name) => name = serving.name
    BY <1>2, OwnLines
  <2>. QED
    BY <1>2, <2>1 DEF Line, Marked
<1>5. PICK more \in Seq(Tokens) :
        /\ telnet' = telnet \o more
        /\ \A i \in DOMAIN more :
             more[i] = Prompt \/ \E k \in DOMAIN kinds : more[i] = Line(kinds[k], serving.n)
  BY AnswerPrints
<1>7. ASSUME NEW i \in DOMAIN more
      PROVE  /\ Marked(more[i]) /\ more[i].of <= call.n
             /\ more[i].of = 0 \/ more[i].of = serving.n
  <2>1. CASE more[i] = Prompt
    BY <1>3, <2>1, Facts
  <2>2. ASSUME NEW k \in DOMAIN kinds, more[i] = Line(kinds[k], serving.n)
        PROVE  Marked(more[i]) /\ more[i].of = serving.n
    BY <1>4, <2>2
  <2>. QED
    BY <1>2, <1>5, <2>1, <2>2
<1>8. /\ commands' \in Seq(Served) /\ serving' \in Served /\ chatter' \in 0 .. MaxChatter
      /\ serving'.n = 0
  BY <1>1 DEF NoCommand, Served, TelnetInv, TelnetTyped
<1>9. /\ ServerMine => ServerMine' /\ Mine(serving.n)
      /\ serving.n = call.n => ServerMine'
  BY <1>1, <1>8 DEF telnetClient, TelnetInv, InOrder, ServerMine, CommandsMine, Mine
<1>10. ASSUME NEW i \in DOMAIN more, more[i].of = call.n
       PROVE  ServerMine' /\ \A j \in DOMAIN more : Mine(more[j].of)
  <2>1. serving.n = call.n
    BY <1>7, <1>10, Facts
  <2>. QED
    BY <1>7, <1>9, <2>1 DEF Mine
<1>11. ServerMine => \A i \in DOMAIN more : Mine(more[i].of)
  BY <1>7, <1>9 DEF Mine
<1>12. \A i, j \in DOMAIN commands' :
         i < j /\ commands'[i].n = call.n => Mine(commands'[j].n)
  BY <1>1 DEF TelnetInv, InOrder
<1>13. serving'.n <= call.n /\ serving'.n # call.n
  BY <1>8, Facts
<1>14. \A i \in DOMAIN commands' : \E j \in DOMAIN commands : commands'[i] = commands[j]
  BY <1>1
<1>. QED
  BY <1>1, <1>5, <1>7, <1>8, <1>9, <1>10, <1>11, <1>12, <1>13, <1>14, ServerWrites

\* Text that is printed bit by bit.
JoinsUp(a, b, c, d) == ((a \o b) \o c) \o d = a \o (b \o (c \o d))

LEMMA JoinFour ==
  ASSUME NEW a \in Seq(Tokens), NEW b \in Seq(Tokens), NEW c \in Seq(Tokens),
         NEW d \in Seq(Tokens)
  PROVE  JoinsUp(a, b, c, d)
<1>1. a \o b \in Seq(Tokens) /\ c \o d \in Seq(Tokens)
  BY ConcatProperties
<1>2. Associates(a \o b, c, d)
  BY <1>1, Reassociate
<1>3. Associates(a, b, c \o d)
  BY <1>1, Reassociate
<1>. QED
  BY <1>2, <1>3, Zenon DEF Associates, JoinsUp

\* Debug output belongs to no command.
LEMMA DebugPrints ==
  ASSUME TelnetInv, Debug
  PROVE  \E m \in Seq(Tokens) :
           telnet' = telnet \o m /\ \A i \in DOMAIN m : Marked(m[i]) /\ m[i].of = 0
<1>1. PICK rest \in {<<>>, <<Line("info", 0)>>, <<Line("blank", 0)>>} :
        telnet' = IF serving = NoCommand
                  THEN telnet \o <<Line("erase", 0)>> \o rest \o <<Prompt>>
                  ELSE telnet \o <<Line("info", 0)>> \o rest
  BY DEF Debug
<1>. DEFINE Quiet == {t \in Tokens : Marked(t) /\ t.of = 0}
<1>3. /\ Line("info", 0) \in Quiet /\ Line("blank", 0) \in Quiet
      /\ Line("erase", 0) \in Quiet /\ Prompt \in Quiet
  <2>1. \A name \in CommandNames :
          {"prompt", "info", "erase", "blank"} \cap Own(name) = {}
    BY OwnLines
  <2>. QED
    BY <2>1 DEF Prompt, Line, Tokens, Marked, Answers
<1>. HIDE DEF Quiet
<1>4. /\ rest \in Seq(Quiet) /\ <<Prompt>> \in Seq(Quiet)
      /\ <<Line("erase", 0)>> \in Seq(Quiet) /\ <<Line("info", 0)>> \in Seq(Quiet)
  <2>1. \A t \in Quiet : <<t>> \in Seq(Quiet)
    OBVIOUS
  <2>2. <<>> \in Seq(Quiet)
    OBVIOUS
  <2>. QED
    BY <1>3, <2>1, <2>2
<1>5. Quiet \subseteq Tokens /\ \A t \in Quiet : Marked(t) /\ t.of = 0
  BY DEF Quiet
<1>6. \E m \in Seq(Quiet) : telnet' = telnet \o m
  <2>1. telnet \in Seq(Tokens) /\ Seq(Quiet) \subseteq Seq(Tokens)
    BY <1>5, Facts
  <2>2. CASE serving = NoCommand
    <3>1. <<Line("erase", 0)>> \o (rest \o <<Prompt>>) \in Seq(Quiet)
      BY <1>4
    <3>2. telnet' = telnet \o (<<Line("erase", 0)>> \o (rest \o <<Prompt>>))
      <4>. DEFINE head == <<Line("erase", 0)>>
                  tail == <<Prompt>>
      <4>1. telnet' = ((telnet \o head) \o rest) \o tail
        BY <1>1, <2>2
      <4>2. /\ telnet \in Seq(Tokens) /\ head \in Seq(Tokens)
            /\ rest \in Seq(Tokens) /\ tail \in Seq(Tokens)
        BY <1>4, <2>1
      <4>. HIDE DEF head, tail
      <4>3. JoinsUp(telnet, head, rest, tail)
        BY ONLY <4>2, JoinFour
      <4>. QED
        BY <4>1, <4>3, Zenon DEF head, tail, JoinsUp
    <3>. QED
      BY <3>1, <3>2
  <2>3. CASE serving # NoCommand
    <3>1. <<Line("info", 0)>> \o rest \in Seq(Quiet)
      BY <1>4
    <3>2. telnet' = telnet \o (<<Line("info", 0)>> \o rest)
      BY <1>1, <1>4, <2>1, <2>3
    <3>. QED
      BY <3>1, <3>2
  <2>. QED
    BY <2>2, <2>3
<1>7. PICK m \in Seq(Quiet) : telnet' = telnet \o m
  BY <1>6
<1>8. m \in Seq(Tokens) /\ \A i \in DOMAIN m : Marked(m[i]) /\ m[i].of = 0
  <2>1. \A i \in DOMAIN m : m[i] \in Quiet
    OBVIOUS
  <2>. QED
    BY <1>5, <2>1
<1>. QED
  BY <1>7, <1>8

LEMMA DebugOrder == TelnetInv /\ Debug => TelnetInv'
<1>. SUFFICES ASSUME TelnetInv, Debug PROVE TelnetInv'
  OBVIOUS
<1>2. UNCHANGED telnetClient /\ UNCHANGED <<commands, serving>>
      /\ chatter' \in 0 .. MaxChatter
  BY TelnetAssumption DEF Debug, TelnetInv, TelnetTyped
<1>7. PICK m \in Seq(Tokens) :
        telnet' = telnet \o m /\ \A i \in DOMAIN m : Marked(m[i]) /\ m[i].of = 0
  BY DebugPrints
<1>9. /\ commands' \in Seq(Served) /\ serving' \in Served
      /\ serving' # NoCommand =>
           /\ serving'.name \in CommandNames /\ serving'.n = Number(serving'.name)
      /\ serving'.n <= call.n
      /\ serving'.n = call.n => CommandsMine'
      /\ \A i, j \in DOMAIN commands' :
           i < j /\ commands'[i].n = call.n => Mine(commands'[j].n)
      /\ ServerMine => ServerMine'
  BY <1>2, Facts DEF telnetClient, TelnetInv, Numbered, Bounded, InOrder, ServerMine,
                     CommandsMine, Mine
<1>10. /\ \A i \in DOMAIN m : m[i].of # call.n /\ m[i].of <= call.n /\ Mine(m[i].of)
       /\ \A i \in DOMAIN commands' : \E j \in DOMAIN commands : commands'[i] = commands[j]
  BY <1>2, <1>7, Facts DEF Mine
<1>. QED
  BY <1>2, <1>7, <1>9, <1>10, ServerWrites


LEMMA ClientSteps ==
  TelnetInv /\ TelnetClient => TelnetInv' /\ Waiting /\ call'.name = call.name
<1>1. ReadIntoBuffer => Waiting /\ call' = call
  BY DEF ReadIntoBuffer
<1>2. WriteCommand => Waiting /\ call' = [call EXCEPT !.todo = Tail(@)]
  BY DEF WriteCommand, Awaited
<1>3. TakeLine => Waiting /\ (call' = call \/ call' = [call EXCEPT !.todo = Tail(@)])
  BY DEF TakeLine, Awaited
<1>4. CallFails => Waiting /\ \E f : call' = [call EXCEPT !.todo = <<>>, !.failure = f]
  BY DEF CallFails
<1>5. ASSUME TelnetInv, TelnetClient PROVE call'.name = call.name
  <2>1. [call EXCEPT !.todo = Tail(@)].name = call.name
    BY <1>5 DEF TelnetInv, CallType
  <2>2. CASE \E f : call' = [call EXCEPT !.todo = <<>>, !.failure = f]
    BY <1>5, <2>2 DEF TelnetInv, CallType
  <2>. QED
    BY <1>1, <1>2, <1>3, <1>4, <1>5, <2>1, <2>2 DEF TelnetClient
<1>6. TelnetInv /\ TelnetClient => TelnetInv'
  BY ReadOrder, WriteOrder, TakeOrder, FailOrder DEF TelnetClient
<1>. QED
  BY <1>1, <1>2, <1>3, <1>4, <1>5, <1>6 DEF TelnetClient

LEMMA QuietTelnet ==
  ASSUME TelnetInv, UNCHANGED telnetVars
  PROVE  TelnetInv' /\ UNCHANGED <<call, commands, serving>>
<1>1. UNCHANGED <<telnet, buffered, call, answers, discarded, commands, serving, chatter>>
  BY DEF telnetVars, telnetClient, telnetServer
<1>2. TelnetTyped' /\ CallType' /\ Numbered' /\ Bounded' /\ Plan' /\ AnswersBelong'
  BY <1>1 DEF TelnetInv, TelnetTyped, CallType, Numbered, Bounded, Plan, AnswersBelong,
              Waiting
<1>3. InOrder'
  BY <1>1 DEF TelnetInv, InOrder, EchoRead, BufferedMine, TelnetMine, ServerMine,
              CommandsMine, Mine
<1>. QED
  BY <1>1, <1>2, <1>3 DEF TelnetInv

\* The next method, on the same connection.
LEMMA IssueOrder ==
  ASSUME TelnetInv, NEW name \in CommandNames, Issue(name), Number(name) = call.n + 1
  PROVE  TelnetInv' /\ call'.name = name /\ step' = name
<1>1. UNCHANGED <<commands, serving, chatter>> /\ UNCHANGED <<telnet, buffered>>
      /\ Call(name) /\ step' = name
  BY DEF Issue, telnetServer
<1>2. call'.name = name
  BY <1>1 DEF Call
<1>. QED
  BY <1>1, <1>2, CallStarts

LEMMA InitTelnet == Init => TelnetInv /\ Steps
<1>. SUFFICES ASSUME Init PROVE TelnetInv /\ Steps
  OBVIOUS
<1>1. /\ telnet = <<Line("banner", 0), Prompt>> /\ buffered = <<>> /\ answers = <<>>
      /\ call = [name |-> "rtt_stop", n |-> 1, failure |-> "none",
                 todo |-> <<"prompt", "echo">> \o Waits("rtt_stop")]
      /\ commands = <<>> /\ serving = NoCommand /\ chatter = 0
      /\ step = "rtt_stop" /\ sync = "before"
  BY DEF Init, StreamInit, Greeting
<1>2. Waits("rtt_stop") \in Seq(Answers) /\ "rtt_stop" \in CommandNames
  BY WaitsOwn DEF CommandNames
<1>3. /\ call.todo \in Seq({"prompt", "echo"} \cup Answers) /\ call.todo # <<>>
      /\ 1 \in DOMAIN call.todo /\ call.todo[1] = "prompt"
      /\ call.failure = "none" /\ call.n = 1 /\ call.name = "rtt_stop"
  BY <1>1, <1>2
<1>4. CallType /\ Plan /\ ~EchoRead
  BY <1>1, <1>2, <1>3 DEF CallType, Plan, EchoRead, Failures
<1>5. Line("banner", 0) \in Tokens /\ Prompt \in Tokens
      /\ Marked(Line("banner", 0)) /\ Marked(Prompt)
      /\ Line("banner", 0).of = 0 /\ Prompt.of = 0
  <2>1. \A name \in CommandNames : "banner" \notin Own(name) /\ "prompt" \notin Own(name)
    BY OwnLines
  <2>. QED
    BY <2>1 DEF Prompt, Line, Tokens, Marked
<1>6. telnet \in Seq(Tokens)
      /\ \A i \in DOMAIN telnet : Marked(telnet[i]) /\ telnet[i].of = 0
  BY <1>1, <1>5
<1>7. TelnetTyped
  <2>1. discarded \in BOOLEAN
    BY DEF Init
  <2>2. serving \in Served
    BY <1>1 DEF Served, NoCommand
  <2>3. buffered \in Seq(Tokens) /\ answers \in Seq(Tokens) /\ commands \in Seq(Served)
    BY <1>1
  <2>4. chatter \in 0 .. MaxChatter
    BY <1>1, TelnetAssumption
  <2>. QED
    BY <1>3, <1>6, <2>1, <2>2, <2>3, <2>4 DEF TelnetTyped, Failures
<1>8. Numbered
  BY <1>1, <1>3, <1>6, NumberOf DEF Numbered
<1>9. Bounded /\ InOrder
  <2>1. serving.n = 0
    BY <1>1 DEF NoCommand
  <2>. QED
    BY <1>1, <1>3, <1>4, <1>6, <2>1 DEF Bounded, InOrder
<1>. QED
  BY <1>1, <1>3, <1>4, <1>7, <1>8, <1>9 DEF TelnetInv, Steps, AnswersBelong, CommandNames

\* The thread: every command is issued once, in the order of their numbers.
LEMMA SamplerOrder == TelnetInv /\ Steps /\ Sampler => TelnetInv' /\ Steps'
<1>. SUFFICES ASSUME TelnetInv, Steps, Sampler PROVE TelnetInv' /\ Steps'
  OBVIOUS
<1>0. call.n = Number(call.name) /\ call.name \in CommandNames
  BY Facts
<1>. USE DEF rttStream, reader
<1>1. CASE TelnetClient /\ UNCHANGED <<rttStream, step, listing>>
  BY <1>1, ClientSteps DEF Steps, Returned
<1>2. CASE CallFailed \/ NoChannel \/ Broken
  <2>1. /\ UNCHANGED telnetVars /\ step' = "failed" /\ sync' = "ended"
    BY <1>2 DEF CallFailed, NoChannel, Broken, Fails, EndReading
  <2>. QED
    BY <2>1, QuietTelnet DEF Steps, CommandNames
<1>3. CASE NextCommand
  <2>1. PICK i \in 1 .. Len(Script) - 1 : step = Script[i] /\ Issue(Script[i + 1])
    BY <1>3 DEF NextCommand
  <2>2. i \in 1 .. 5
    BY <2>1 DEF Script
  <2>3. /\ Script[i] \in CommandNames /\ Script[i + 1] \in CommandNames
        /\ Script[i + 1] \notin {"open", "drain", "loop", "failed", "done"}
        /\ Number(Script[i + 1]) = Number(Script[i]) + 1
    <3>1. CASE i = 1 BY <3>1, NumberOf DEF Script, CommandNames
    <3>2. CASE i = 2 BY <3>2, NumberOf DEF Script, CommandNames
    <3>3. CASE i = 3 BY <3>3, NumberOf DEF Script, CommandNames
    <3>4. CASE i = 4 BY <3>4, NumberOf DEF Script, CommandNames
    <3>5. CASE i = 5 BY <3>5, NumberOf DEF Script, CommandNames
    <3>. QED BY <2>2, <3>1, <3>2, <3>3, <3>4, <3>5
  <2>4. call.name = step /\ sync \notin {"drain", "loop"}
    BY <2>1, <2>3 DEF Steps, CommandNames
  <2>5. TelnetInv' /\ call'.name = step' /\ step' = Script[i + 1]
    BY <1>0, <2>1, <2>3, <2>4, IssueOrder
  <2>6. sync' \notin {"drain", "loop"}
    BY <1>3, <2>4 DEF NextCommand
  <2>. QED
    BY <2>3, <2>5, <2>6 DEF Steps
<1>4. CASE ChooseChannel
  <2>1. /\ step = "rtt_channels" /\ step' = "rtt_server_start" /\ Call("rtt_server_start")
        /\ telnet' = Greeting /\ buffered' = <<>>
        /\ UNCHANGED <<commands, serving, chatter>> /\ UNCHANGED sync
    BY <1>4 DEF ChooseChannel, Listed, telnetServer
  <2>2. /\ "rtt_server_start" \in CommandNames /\ "rtt_channels" \in CommandNames
        /\ call.name = "rtt_channels" /\ sync \notin {"drain", "loop"}
    BY <2>1 DEF Steps, CommandNames
  <2>3. TelnetInv' /\ call'.name = "rtt_server_start"
    <3>1. call'.name = "rtt_server_start"
      BY <2>1 DEF Call
    <3>. QED
      BY <1>0, <2>1, <2>2, <3>1, NumberOf, CallStarts
  <2>. QED
    BY <2>1, <2>2, <2>3 DEF Steps
<1>5. CASE ServerStarted \/ Finished
  <2>1. /\ UNCHANGED telnetVars /\ UNCHANGED sync
        /\ \/ step = "rtt_server_start" /\ step' = "open"
           \/ step = "rtt_server_stop" /\ step' = "done"
    BY <1>5 DEF ServerStarted, Finished
  <2>. QED
    BY <2>1, QuietTelnet DEF Steps, CommandNames
<1>6. CASE Open
  <2>1. step = "open" /\ Issue("halt") /\ UNCHANGED sync
    BY <1>6 DEF Open
  <2>2. call.name = "rtt_server_start" /\ sync \notin {"drain", "loop"} /\ "halt" \in CommandNames
    BY <2>1 DEF Steps, CommandNames
  <2>3. TelnetInv' /\ call'.name = "halt" /\ step' = "halt"
    BY <1>0, <2>1, <2>2, NumberOf, IssueOrder
  <2>. QED
    BY <2>1, <2>2, <2>3 DEF Steps
<1>7. CASE Halted
  <2>1. step = "halt" /\ step' = "drain" /\ sync' = "drain" /\ UNCHANGED telnetVars
    BY <1>7 DEF Halted, BeginDrain
  <2>. QED
    BY <2>1, QuietTelnet DEF Steps, CommandNames
<1>8. CASE Drain
  <2>1. UNCHANGED telnetVars /\ UNCHANGED <<step, sync>>
    BY <1>8 DEF Drain, DrainRead
  <2>. QED
    BY <2>1, QuietTelnet DEF Steps, Returned, Waiting
<1>9. CASE Drained
  <2>1. sync = "drain" /\ sync' = "resume" /\ Issue("resume")
    BY <1>9 DEF Drained, DrainEnds
  <2>2. step = "drain"
    BY <2>1 DEF Steps
  <2>3. call.name = "halt" /\ "resume" \in CommandNames
    BY <2>2 DEF Steps, CommandNames
  <2>4. TelnetInv' /\ call'.name = "resume" /\ step' = "resume"
    BY <1>0, <2>1, <2>3, NumberOf, IssueOrder
  <2>. QED
    BY <2>1, <2>4 DEF Steps
<1>10. CASE Resumed
  <2>1. /\ step = "resume" /\ Returned /\ UNCHANGED telnetVars
        /\ step' = "loop" /\ sync' = "loop"
    BY <1>10 DEF Resumed, BeginLoop
  <2>2. call.name = "resume"
    BY <2>1 DEF Steps, CommandNames
  <2>. QED
    BY <2>1, <2>2, QuietTelnet DEF Steps, CommandNames, Returned, Waiting
<1>11. CASE Iterate
  <2>1. UNCHANGED telnetVars /\ UNCHANGED <<step, sync>>
    BY <1>11 DEF Iterate, Read, Cut
  <2>. QED
    BY <2>1, QuietTelnet DEF Steps, Returned, Waiting
<1>12. CASE Stop
  <2>1. step = "loop" /\ Issue("rtt_server_stop") /\ sync' = "ended"
    BY <1>12 DEF Stop, EndReading
  <2>2. call.name = "resume" /\ "rtt_server_stop" \in CommandNames
    BY <2>1 DEF Steps, CommandNames
  <2>3. TelnetInv' /\ call'.name = "rtt_server_stop" /\ step' = "rtt_server_stop"
    BY <1>0, <2>1, <2>2, NumberOf, IssueOrder
  <2>. QED
    BY <2>1, <2>3 DEF Steps
<1>. QED
  BY <1>1, <1>2, <1>3, <1>4, <1>5, <1>6, <1>7, <1>8, <1>9, <1>10, <1>11, <1>12
     DEF Sampler

\* The server: it prints what a command is due, or why there is nothing to print.
LEMMA ServerOrder == TelnetInv /\ Steps /\ OpenOCD => TelnetInv' /\ Steps'
<1>. SUFFICES ASSUME TelnetInv, Steps, OpenOCD PROVE TelnetInv' /\ Steps'
  OBVIOUS
<1>1. UNCHANGED <<step, sync>>
  BY DEF OpenOCD, Serve, Effect, SetRunning, Accept, Poll, TargetWrites, rttStream, reader
<1>2. ASSUME UNCHANGED telnetClient PROVE Steps'
  BY <1>1, <1>2 DEF Steps, telnetClient, Returned, Waiting
<1>3. CASE Echo \/ Debug
  BY <1>2, <1>3, EchoOrder, DebugOrder DEF Echo, Debug
<1>4. CASE Serve
  <2>1. serving # NoCommand /\ UNCHANGED telnetClient
    BY <1>4 DEF Serve, Answer
  <2>2. serving.name \in CommandNames
    BY <2>1 DEF TelnetInv, Numbered
  <2>3. CASE Answer(Printed(serving.name))
    <3>1. Printed(serving.name) \in Seq(Answers \cup {"info"})
      <4>1. Printed(serving.name) \in Seq(Answers)
        BY <2>2, PrintsOwn
      <4>. QED
        BY <4>1
    <3>. QED
      BY <1>2, <2>1, <2>2, <2>3, <3>1, PrintsOwn, AnswerOrder
  <2>4. CASE Answer(<<"info">>)
    <3>1. <<"info">> \in Seq(Answers \cup {"info"})
      OBVIOUS
    <3>2. \A i \in DOMAIN <<"info">> : <<"info">>[i] \in {"blank", "info"}
      OBVIOUS
    <3>3. TelnetInv'
      BY <2>4, <3>1, <3>2, AnswerOrder
    <3>. QED
      BY <1>2, <2>1, <3>3
  <2>. QED
    BY <1>4, <2>3, <2>4 DEF Serve
<1>5. CASE UNCHANGED telnetVars
  BY <1>2, <1>5, QuietTelnet DEF telnetVars
<1>. QED
  BY <1>3, <1>4, <1>5 DEF OpenOCD

LEMMA TelnetInvariance == Spec => [](TelnetInv /\ Steps)
<1>1. TelnetInv /\ Steps /\ UNCHANGED vars => TelnetInv' /\ Steps'
  BY QuietTelnet DEF vars, rttStream, reader, Steps, Returned, Waiting
<1>. QED
  BY <1>1, InitTelnet, SamplerOrder, ServerOrder, PTL DEF Spec, Next

\* What an earlier call left unread is never taken by a later one, whatever the
\* server prints in between: every line a call takes was printed for it or is debug
\* output, and of debug output it takes none for its echo or for an answer with a
\* text of its own.  A blank line of debug output can end a wait.
THEOREM AnswersCorrect == Spec => []AnswersBelong
<1>1. TelnetInv => AnswersBelong
  BY DEF TelnetInv
<1>. QED
  BY <1>1, TelnetInvariance, PTL

\* A halt that timed out is not executed after the resume: when the loop begins,
\* the server is past it.
THEOREM HaltCorrect == Spec => []NoLateHalt
<1>1. TelnetInv /\ Steps => NoLateHalt
  <2>. SUFFICES ASSUME TelnetInv, Steps, sync = "loop"
                PROVE  /\ serving.name # "halt"
                       /\ \A i \in DOMAIN commands : commands[i].name # "halt"
    BY DEF NoLateHalt
  <2>1. call.name = "resume" /\ EchoRead
    BY DEF Steps, Returned, Waiting, EchoRead
  <2>2. call.n = 9 /\ ServerMine
    BY <2>1, Facts, NumberOf DEF TelnetInv, InOrder
  <2>3. serving # NoCommand => serving.name # "halt"
    BY <2>2, NumberOf DEF TelnetInv, Numbered, ServerMine, Mine
  <2>4. \A i \in DOMAIN commands : commands[i].name # "halt"
    BY <2>2, NumberOf DEF TelnetInv, Numbered, ServerMine, CommandsMine, Mine
  <2>. QED
    BY <2>3, <2>4 DEF NoCommand
<1>. QED
  BY <1>1, TelnetInvariance, PTL

-----------------------------------------------------------------------------
(* Why the target may stand still in the loop.                             *)

Echoes(tokens) == \E i \in DOMAIN tokens : tokens[i].kind = "resume"

Refusal == Line("info", 9)

Refuses(tokens) == \E i \in DOMAIN tokens : tokens[i] = Refusal

EchoFirst(tokens) ==
  \A i \in DOMAIN tokens :
    tokens[i] = Refusal => \E j \in DOMAIN tokens : j < i /\ tokens[j].kind = "resume"

\* From the call of resume() on: the refusal comes behind the echo, so what reads
\* the one leaves the other unread; and once OpenOCD has taken the command up, the
\* target runs unless there is a refusal.
ResumeInv ==
  call.name = "resume" /\ call.failure = "none" =>
    /\ call.todo \in {<<"prompt", "echo">>, <<"echo">>, <<>>}
    /\ call.todo = <<"prompt", "echo">> =>
         /\ serving.name # "resume"
         /\ \A i \in DOMAIN commands : commands[i].name # "resume"
         /\ ~Echoes(Unread) /\ ~Refuses(Unread)
    /\ call.todo # <<>> =>
         EchoFirst(Unread) /\ (serving.name = "resume" => Echoes(Unread))
    /\ call.todo = <<>> \/ Echoes(Unread) =>
         running \/ serving.name = "resume" \/ Refuses(Unread)

\* What is unread, line by line.
LEMMA UnreadFacts ==
  ASSUME TelnetInv
  PROVE  /\ Unread \in Seq(Tokens)
         /\ \A i \in DOMAIN Unread :
              /\ Unread[i].of \in Nat /\ Unread[i].of <= call.n /\ Marked(Unread[i])
              /\ Unread[i].of = call.n => ServerMine
<1>1. buffered \in Seq(Tokens) /\ telnet \in Seq(Tokens)
  BY Facts
<1>2. \A i \in DOMAIN Unread :
        \/ i \in DOMAIN buffered /\ Unread[i] = buffered[i]
        \/ i - Len(buffered) \in DOMAIN telnet /\ Unread[i] = telnet[i - Len(buffered)]
  BY <1>1 DEF Unread
<1>3. Unread \in Seq(Tokens)
  BY <1>1 DEF Unread
<1>. QED
  BY <1>2, <1>3, Facts DEF TelnetInv, Numbered, Bounded, InOrder

\* The echo and the refusal of resume carry its number.
LEMMA ResumeNumber ==
  ASSUME TelnetInv
  PROVE  /\ call.name = "resume" => call.n = 9
         /\ serving.name = "resume" => serving.n = 9
         /\ serving # NoCommand /\ serving.n = 9 => serving.name = "resume"
         /\ \A i \in DOMAIN Unread :
              Unread[i].kind = "resume" \/ Unread[i] = Refusal => Unread[i].of = 9
<1>1. call.name = "resume" => call.n = 9
  BY Facts, NumberOf
<1>2. serving.name = "resume" => serving # NoCommand
  BY DEF NoCommand
<1>3. serving # NoCommand => (serving.n = 9 <=> serving.name = "resume")
  BY NumberOf, NumbersTell DEF TelnetInv, Numbered, CommandNames
<1>4. ASSUME NEW i \in DOMAIN Unread, Unread[i].kind = "resume" \/ Unread[i] = Refusal
      PROVE  Unread[i].of = 9
  <2>1. "resume" \in Own("resume") /\ "resume" \in CommandNames
    BY OwnOf DEF CommandNames
  <2>. QED
    BY <1>4, <2>1, UnreadFacts, NumberOf DEF Marked, Refusal, Line
<1>. QED
  BY <1>1, <1>2, <1>3, <1>4

\* When the resume has been taken up, the server has no halt left to carry out.
LEMMA HaltIsPast ==
  ASSUME TelnetInv, ResumeInv, call.name = "resume", call.failure = "none",
         call.todo = <<>> \/ Echoes(Unread)
  PROVE  serving.name # "halt"
<1>1. call.n = 9
  BY ResumeNumber
<1>2. ServerMine
  <2>1. CASE call.todo = <<>>
    <3>1. EchoRead
      BY <2>1 DEF EchoRead
    <3>. QED
      BY <3>1 DEF TelnetInv, InOrder
  <2>2. CASE Echoes(Unread)
    BY <1>1, <2>2, UnreadFacts, ResumeNumber DEF Echoes
  <2>. QED
    BY <2>1, <2>2
<1>3. serving # NoCommand => serving.name # "halt"
  BY <1>1, <1>2, NumberOf DEF TelnetInv, Numbered, ServerMine, Mine
<1>. QED
  BY <1>3 DEF NoCommand

\* What is printed goes behind what is unread.
LEMMA PrintedBehind ==
  ASSUME NEW a \in Seq(Tokens), NEW m \in Seq(Tokens), NEW r, r = a \o m
  PROVE  /\ Echoes(r) <=> Echoes(a) \/ Echoes(m)
         /\ Refuses(r) <=> Refuses(a) \/ Refuses(m)
         /\ EchoFirst(a) /\ (Refuses(m) => Echoes(a)) => EchoFirst(r)
<1>1. /\ \A i \in DOMAIN r :
           \/ i \in DOMAIN a /\ r[i] = a[i]
           \/ /\ i - Len(a) \in DOMAIN m /\ r[i] = m[i - Len(a)]
              /\ \A j \in DOMAIN a : j < i
      /\ \A i \in DOMAIN a : i \in DOMAIN r /\ r[i] = a[i]
      /\ \A i \in DOMAIN m : i + Len(a) \in DOMAIN r /\ r[i + Len(a)] = m[i]
  OBVIOUS
<1>2. Echoes(r) <=> Echoes(a) \/ Echoes(m)
  BY ONLY <1>1 DEF Echoes
<1>3. Refuses(r) <=> Refuses(a) \/ Refuses(m)
  BY ONLY <1>1 DEF Refuses
<1>4. EchoFirst(a) /\ (Refuses(m) => Echoes(a)) => EchoFirst(r)
  BY ONLY <1>1 DEF EchoFirst, Refuses, Echoes
<1>. QED
  BY <1>2, <1>3, <1>4

\* What the client does to what is unread: nothing when it reads or fails.
LEMMA ReadLeaves ==
  ASSUME TelnetInv, ReadIntoBuffer
  PROVE  Unread' = Unread
<1>1. PICK n \in 1 .. Len(telnet) :
        /\ buffered' = buffered \o SubSeq(telnet, 1, n)
        /\ telnet' = SubSeq(telnet, n + 1, Len(telnet))
  BY DEF ReadIntoBuffer
<1>. DEFINE p == SubSeq(telnet, 1, n)
            q == SubSeq(telnet, n + 1, Len(telnet))
<1>2. /\ telnet \in Seq(Tokens) /\ buffered \in Seq(Tokens)
      /\ p \in Seq(Tokens) /\ q \in Seq(Tokens) /\ telnet = p \o q
  BY Facts
<1>3. buffered' = buffered \o p /\ telnet' = q
  BY <1>1
<1>. HIDE DEF p, q
<1>4. Associates(buffered, p, q)
  BY ONLY <1>2, Reassociate
<1>. QED
  BY ONLY <1>2, <1>3, <1>4 DEF Unread, Associates

\* u is the first e elements of b and v.
HeadOf(b, e, u, v) ==
  /\ e \in DOMAIN u /\ u[e] = b[e]
  /\ \A i \in DOMAIN u : i \in Nat /\ (i < e => i \in DOMAIN b /\ u[i] = b[i])
  /\ \A i \in DOMAIN u : i > e => i - e \in DOMAIN v /\ v[i - e] = u[i]
  /\ \A i \in DOMAIN v : i \in Nat /\ i + e \in DOMAIN u /\ v[i] = u[i + e]

LEMMA DropHead ==
  ASSUME NEW b \in Seq(Tokens), NEW t \in Seq(Tokens), NEW e \in 1 .. Len(b),
         NEW u, u = b \o t, NEW v, v = SubSeq(b, e + 1, Len(b)) \o t
  PROVE  HeadOf(b, e, u, v)
<1>. DEFINE c == SubSeq(b, e + 1, Len(b))
<1>0. c \in Seq(Tokens)
  OBVIOUS
<1>1. Len(c) = Len(b) - e /\ \A i \in 1 .. Len(b) - e : c[i] = b[i + e]
  OBVIOUS
<1>2. /\ e \in Nat /\ e >= 1 /\ e <= Len(b) /\ Len(b) \in Nat /\ Len(t) \in Nat
      /\ DOMAIN b = 1 .. Len(b)
  OBVIOUS
<1>. HIDE DEF c
<1>3. v = c \o t
  BY DEF c
<1>4. /\ DOMAIN u = 1 .. Len(b) + Len(t)
      /\ \A i \in 1 .. Len(b) + Len(t) : u[i] = IF i <= Len(b) THEN b[i] ELSE t[i - Len(b)]
  OBVIOUS
<1>5. /\ DOMAIN v = 1 .. Len(c) + Len(t)
      /\ \A i \in 1 .. Len(c) + Len(t) : v[i] = IF i <= Len(c) THEN c[i] ELSE t[i - Len(c)]
  BY ONLY <1>0, <1>3, t \in Seq(Tokens)
<1>6. \A i \in DOMAIN v : i \in Nat /\ i + e \in DOMAIN u /\ v[i] = u[i + e]
  <2>. SUFFICES ASSUME NEW i \in DOMAIN v
                PROVE  i \in Nat /\ i + e \in DOMAIN u /\ v[i] = u[i + e]
    OBVIOUS
  <2>1. i \in Nat /\ i >= 1 /\ i <= Len(b) - e + Len(t)
    BY ONLY <1>1, <1>2, <1>5, i \in DOMAIN v
  <2>2. i + e \in 1 .. Len(b) + Len(t)
    BY ONLY <1>2, <2>1
  <2>3. i + e \in DOMAIN u /\ i \in 1 .. Len(c) + Len(t)
    BY ONLY <1>1, <1>2, <1>4, <2>1, <2>2
  <2>4. CASE i <= Len(b) - e
    <3>1. i \in 1 .. Len(b) - e /\ i <= Len(c) /\ i + e <= Len(b)
      BY ONLY <1>1, <1>2, <2>1, <2>4
    <3>2. v[i] = c[i] /\ u[i + e] = b[i + e] /\ c[i] = b[i + e]
      BY ONLY <1>1, <1>4, <1>5, <2>2, <2>3, <3>1
    <3>. QED
      BY <2>1, <2>3, <3>2
  <2>5. CASE i > Len(b) - e
    <3>1. ~(i <= Len(c)) /\ ~(i + e <= Len(b)) /\ i - Len(c) = i + e - Len(b)
      BY ONLY <1>1, <1>2, <2>1, <2>5
    <3>2. v[i] = t[i - Len(c)] /\ u[i + e] = t[i + e - Len(b)]
      BY ONLY <1>4, <1>5, <2>2, <2>3, <3>1
    <3>. QED
      BY <2>1, <2>3, <3>1, <3>2
  <2>. QED
    BY ONLY <1>2, <2>1, <2>4, <2>5
<1>7. \A i \in DOMAIN u : i > e => i - e \in DOMAIN v /\ v[i - e] = u[i]
  <2>. SUFFICES ASSUME NEW i \in DOMAIN u, i > e
                PROVE  i - e \in DOMAIN v /\ v[i - e] = u[i]
    OBVIOUS
  <2>1. i - e \in DOMAIN v /\ i - e + e = i
    BY ONLY <1>1, <1>2, <1>4, <1>5, i \in DOMAIN u, i > e
  <2>. QED
    BY <1>6, <2>1
<1>8. \A i \in DOMAIN u : i \in Nat /\ (i < e => i \in DOMAIN b /\ u[i] = b[i])
  BY ONLY <1>2, <1>4
<1>9. e \in DOMAIN u /\ u[e] = b[e]
  BY ONLY <1>2, <1>4
<1>. QED
  BY <1>6, <1>7, <1>8, <1>9 DEF HeadOf

\* read_line takes the first line and the prompts before it from what is unread.
LEMMA TakeLeaves ==
  ASSUME TelnetInv, LineEnds # {}, buffered' = AfterLine, UNCHANGED telnet
  PROVE  /\ LineEnd \in DOMAIN Unread /\ Unread[LineEnd] = TheLine
         /\ \A i \in DOMAIN Unread :
              i \in Nat /\ (i < LineEnd => Unread[i].kind = "prompt")
         /\ \A i \in DOMAIN Unread :
              i > LineEnd => i - LineEnd \in DOMAIN Unread'
                             /\ Unread'[i - LineEnd] = Unread[i]
         /\ \A i \in DOMAIN Unread' :
              i \in Nat /\ i + LineEnd \in DOMAIN Unread
              /\ Unread'[i] = Unread[i + LineEnd]
<1>. DEFINE e == LineEnd
            u == Unread
            v == Unread'
<1>1. telnet \in Seq(Tokens) /\ buffered \in Seq(Tokens)
  BY Facts
<1>2. e \in DOMAIN buffered /\ TheLine = buffered[e]
  BY <1>1, FirstLine DEF TheLine
<1>3. ASSUME NEW i \in DOMAIN buffered, i < e PROVE buffered[i].kind = "prompt"
  <2>1. LineEnds \subseteq Nat
    BY <1>1 DEF LineEnds
  <2>2. \E k \in LineEnds : \A j \in LineEnds : k <= j
    BY <2>1, Adding!LeastNatural
  <2>3. \A j \in LineEnds : e <= j
    BY <2>2 DEF LineEnd
  <2>. QED
    BY <1>1, <1>2, <1>3, <2>3 DEF LineEnds
<1>4. u = buffered \o telnet
  BY DEF Unread
<1>5. v = SubSeq(buffered, e + 1, Len(buffered)) \o telnet
  BY DEF Unread, AfterLine
<1>. HIDE DEF e, u, v
<1>6. e \in 1 .. Len(buffered)
  BY <1>1, <1>2
<1>7. HeadOf(buffered, e, u, v)
  BY ONLY <1>1, <1>4, <1>5, <1>6, DropHead
<1>8. /\ e \in DOMAIN u /\ u[e] = TheLine
      /\ \A i \in DOMAIN u : i \in Nat /\ (i < e => u[i].kind = "prompt")
      /\ \A i \in DOMAIN u : i > e => i - e \in DOMAIN v /\ v[i - e] = u[i]
      /\ \A i \in DOMAIN v : i \in Nat /\ i + e \in DOMAIN u /\ v[i] = u[i + e]
  BY ONLY <1>2, <1>3, <1>7 DEF HeadOf
<1>. QED
  BY ONLY <1>8 DEF e, u, v

\* The client: what it reads is the echo, or leaves the echo and what follows it.
LEMMA ClientResumes ==
  TelnetInv /\ ResumeInv /\ TelnetClient /\ UNCHANGED running => ResumeInv'
<1>. SUFFICES ASSUME TelnetInv, ResumeInv, TelnetClient, UNCHANGED running,
                     call'.name = "resume", call'.failure = "none"
              PROVE  ResumeInv'
  BY DEF ResumeInv
<1>1. /\ call.name = "resume" /\ call.failure = "none" /\ call.todo # <<>>
      /\ call.todo \in Seq({"prompt", "echo"} \cup Answers)
      /\ UNCHANGED serving
  <2>1. Waiting /\ call.name = "resume"
    BY ClientSteps
  <2>2. UNCHANGED serving
    BY DEF TelnetClient, ReadIntoBuffer, WriteCommand, TakeLine, CallFails, telnetServer
  <2>. QED
    BY <2>1, <2>2, AwaitedTells, CallTypes DEF Waiting, TelnetInv
<1>2. CASE ReadIntoBuffer
  <2>1. UNCHANGED <<call, commands>> /\ Unread' = Unread
    BY <1>2, ReadLeaves DEF ReadIntoBuffer
  <2>. QED
    BY <1>1, <2>1 DEF ResumeInv
<1>3. CASE WriteCommand
  <2>1. /\ Awaited = "prompt" /\ buffered' = <<>> /\ UNCHANGED telnet
        /\ call' = [call EXCEPT !.todo = Tail(@)]
    BY <1>3 DEF WriteCommand
  <2>2. call.todo = <<"prompt", "echo">>
    BY <1>1, <2>1 DEF ResumeInv, Awaited, Waiting
  <2>3. call'.todo = <<"echo">>
    BY <2>1, <2>2 DEF TelnetInv, CallType
  <2>4. Unread' = telnet
    BY <2>1, Facts DEF Unread
  <2>5. ~Echoes(Unread') /\ ~Refuses(Unread')
    BY <1>1, <2>2, <2>4, PrintedBehind, Facts DEF ResumeInv, Unread
  <2>6. serving'.name # "resume"
    BY <1>1, <2>2 DEF ResumeInv
  <2>7. EchoFirst(Unread')
    BY <2>5 DEF EchoFirst, Refuses
  <2>. QED
    BY <2>3, <2>5, <2>6, <2>7 DEF ResumeInv
<1>4. CASE TakeLine
  <2>1. /\ Awaited # "prompt" /\ LineEnds # {} /\ buffered' = AfterLine
        /\ UNCHANGED <<telnet, commands>>
        /\ \/ UNCHANGED call /\ (Ignored \/ ~Matches)
           \/ call' = [call EXCEPT !.todo = Tail(@)] /\ Matches
    BY <1>4 DEF TakeLine
  <2>2. call.todo = <<"echo">> /\ Awaited = "echo"
    BY <1>1, <2>1 DEF ResumeInv, Awaited, Waiting
  <2>3. Matches <=> TheLine.kind = "resume"
    BY <1>1, <2>2 DEF Matches
  <2>4. /\ LineEnd \in DOMAIN Unread /\ Unread[LineEnd] = TheLine
        /\ \A i \in DOMAIN Unread :
             i \in Nat /\ (i < LineEnd => Unread[i].kind = "prompt")
        /\ \A i \in DOMAIN Unread :
             i > LineEnd => i - LineEnd \in DOMAIN Unread'
                            /\ Unread'[i - LineEnd] = Unread[i]
        /\ \A i \in DOMAIN Unread' :
             i \in Nat /\ i + LineEnd \in DOMAIN Unread
             /\ Unread'[i] = Unread[i + LineEnd]
    BY <2>1, TakeLeaves
  <2>5. \A i \in DOMAIN Unread : i \in Nat /\ (i < LineEnd \/ i = LineEnd \/ i > LineEnd)
    BY <2>4
  <2>6. Refuses(Unread) => Refuses(Unread')
    <3>. SUFFICES ASSUME NEW i \in DOMAIN Unread, Unread[i] = Refusal
                  PROVE  Refuses(Unread')
      BY DEF Refuses
    <3>1. PICK j \in DOMAIN Unread : j < i /\ Unread[j].kind = "resume"
      BY <1>1 DEF ResumeInv, EchoFirst
    <3>2. j >= LineEnd
      BY <2>4, <2>5, <3>1
    <3>3. i > LineEnd
      BY <2>4, <2>5, <3>1, <3>2
    <3>. QED
      BY <2>4, <3>3 DEF Refuses
  <2>7. running \/ serving.name = "resume" \/ Refuses(Unread) \/ ~Echoes(Unread)
    BY <1>1 DEF ResumeInv
  <2>8. CASE call' = [call EXCEPT !.todo = Tail(@)] /\ Matches
    <3>1. call'.todo = <<>>
      BY <2>2, <2>8 DEF TelnetInv, CallType
    <3>2. Echoes(Unread)
      BY <2>3, <2>4, <2>8 DEF Echoes
    <3>. QED
      BY <1>1, <2>6, <2>7, <3>1, <3>2 DEF ResumeInv
  <2>9. CASE UNCHANGED call /\ (Ignored \/ ~Matches)
    <3>1. TheLine.kind # "resume"
      BY <2>3, <2>9 DEF Ignored
    <3>2. ASSUME NEW i \in DOMAIN Unread, Unread[i].kind = "resume"
          PROVE  i > LineEnd
      BY <2>4, <2>5, <3>1, <3>2
    <3>3. Echoes(Unread') <=> Echoes(Unread)
      BY <2>4, <3>2 DEF Echoes
    <3>4. EchoFirst(Unread')
      <4>. SUFFICES ASSUME NEW i \in DOMAIN Unread', Unread'[i] = Refusal
                    PROVE  \E j \in DOMAIN Unread' : j < i /\ Unread'[j].kind = "resume"
        BY DEF EchoFirst
      <4>1. PICK j \in DOMAIN Unread : j < i + LineEnd /\ Unread[j].kind = "resume"
        BY <1>1, <2>4 DEF ResumeInv, EchoFirst
      <4>2. /\ j - LineEnd \in DOMAIN Unread' /\ Unread'[j - LineEnd].kind = "resume"
        BY <2>4, <3>2, <4>1
      <4>3. j - LineEnd < i
        <5>1. LineEnd \in Int /\ j \in Int /\ i \in Int
          BY <2>4
        <5>. QED
          BY <4>1, <5>1
      <4>. QED
        BY <4>2, <4>3
    <3>5. serving.name = "resume" => Echoes(Unread')
      BY <1>1, <3>3 DEF ResumeInv
    <3>6. Echoes(Unread') => running \/ serving.name = "resume" \/ Refuses(Unread')
      BY <2>6, <2>7, <3>3
    <3>7. call'.todo = <<"echo">> /\ UNCHANGED <<running, serving>>
      BY <1>1, <2>2, <2>9
    <3>8. <<"echo">> # <<"prompt", "echo">> /\ <<"echo">> # <<>>
      OBVIOUS
    <3>. QED
      BY ONLY <3>4, <3>5, <3>6, <3>7, <3>8 DEF ResumeInv
  <2>. QED
    BY <2>1, <2>8, <2>9
<1>5. CASE CallFails
  <2>1. \E f \in {"timeout", "unexpected", "io"} :
          call' = [call EXCEPT !.todo = <<>>, !.failure = f]
    BY <1>5 DEF CallFails
  <2>. QED
    BY <2>1 DEF TelnetInv, CallType
<1>. QED
  BY <1>2, <1>3, <1>4, <1>5 DEF TelnetClient

\* The thread: the call begins with nothing of it anywhere.
LEMMA ThreadResumes ==
  TelnetInv /\ Steps /\ ResumeInv /\ Sampler => ResumeInv'
<1>. SUFFICES ASSUME TelnetInv, Steps, ResumeInv, Sampler PROVE ResumeInv'
  OBVIOUS
<1>. USE DEF rttStream, target
<1>1. CASE TelnetClient /\ UNCHANGED <<rttStream, step, listing>>
  BY <1>1, ClientResumes
<1>2. ASSUME UNCHANGED telnetVars, UNCHANGED running PROVE ResumeInv'
  BY <1>2 DEF telnetVars, telnetClient, telnetServer, ResumeInv, Unread
<1>3. CASE \/ CallFailed \/ NoChannel \/ Broken \/ ServerStarted \/ Halted \/ Drain
           \/ Resumed \/ Iterate \/ Finished
  <2>1. UNCHANGED telnetVars /\ UNCHANGED running
    BY <1>3 DEF CallFailed, NoChannel, Broken, Fails, EndReading, ServerStarted, Halted,
                BeginDrain, Drain, DrainRead, Resumed, BeginLoop, Iterate, Read, Cut,
                Finished
  <2>. QED
    BY <1>2, <2>1
<1>4. ASSUME NEW name, Call(name), name # "resume" PROVE ResumeInv'
  BY <1>4 DEF Call, ResumeInv
<1>5. CASE NextCommand \/ ChooseChannel \/ Open \/ Stop
  <2>1. CASE NextCommand
    <3>1. PICK i \in 1 .. Len(Script) - 1 : Issue(Script[i + 1])
      BY <2>1 DEF NextCommand
    <3>2. Script[i + 1] # "resume"
      BY <3>1 DEF Script
    <3>. QED
      BY <1>4, <3>1, <3>2 DEF Issue
  <2>2. CASE ChooseChannel \/ Open \/ Stop
    BY <1>4, <2>2 DEF ChooseChannel, Open, Stop, Issue
  <2>. QED
    BY <1>5, <2>1, <2>2
<1>6. CASE Drained
  <2>1. /\ Call("resume") /\ UNCHANGED <<telnet, buffered, commands, serving>>
        /\ step = "drain"
    BY <1>6 DEF Drained, DrainEnds, Issue, telnetServer, Steps
  <2>2. call.name = "halt" /\ call.n = 8
    BY <2>1, Facts, NumberOf DEF Steps
  <2>3. call'.todo = <<"prompt", "echo">>
    <3>1. call'.todo = <<"prompt", "echo">> \o Waits("resume")
      BY <2>1 DEF Call
    <3>2. Waits("resume") = <<>>
      BY WaitsOf DEF CommandNames
    <3>3. <<"prompt", "echo">> \in Seq({"prompt", "echo"})
      OBVIOUS
    <3>. QED
      BY <3>1, <3>2, <3>3, ConcatEmptySeq
  <2>4. ~Echoes(Unread) /\ ~Refuses(Unread)
    BY <2>2, UnreadFacts, ResumeNumber DEF Echoes, Refuses
  <2>5. serving.name # "resume"
    BY <2>2, ResumeNumber DEF TelnetInv, Bounded
  <2>6. \A i \in DOMAIN commands : commands[i].name # "resume"
    BY <2>2, NumberOf DEF TelnetInv, Numbered, Bounded
  <2>7. Unread' = Unread
    BY <2>1 DEF Unread
  <2>8. EchoFirst(Unread)
    BY <2>4 DEF EchoFirst, Refuses
  <2>. QED
    BY <2>1, <2>3, <2>4, <2>5, <2>6, <2>7, <2>8 DEF ResumeInv
<1>. QED
  BY <1>1, <1>3, <1>5, <1>6 DEF Sampler

\* The server prints: what that changes of what is unread.
LEMMA ServerPrints ==
  ASSUME TelnetInv, UNCHANGED telnetClient, NEW m \in Seq(Tokens), telnet' = telnet \o m
  PROVE  /\ UNCHANGED call
         /\ Echoes(Unread)' <=> Echoes(Unread) \/ Echoes(m)
         /\ Refuses(Unread)' <=> Refuses(Unread) \/ Refuses(m)
         /\ EchoFirst(Unread) /\ (Refuses(m) => Echoes(Unread)) => EchoFirst(Unread)'
<1>1. buffered \in Seq(Tokens) /\ telnet \in Seq(Tokens) /\ Unread \in Seq(Tokens)
  BY Facts, UnreadFacts
<1>2. UNCHANGED <<buffered, call>>
  BY DEF telnetClient
<1>3. Associates(buffered, telnet, m)
  BY ONLY <1>1, m \in Seq(Tokens), Reassociate
<1>4. Unread' = Unread \o m
  BY ONLY <1>2, <1>3, telnet' = telnet \o m DEF Unread, Associates
<1>. DEFINE a == Unread
            r == Unread'
<1>5. a \in Seq(Tokens) /\ r = a \o m
  BY <1>1, <1>4
<1>. HIDE DEF a, r
<1>6. /\ Echoes(r) <=> Echoes(a) \/ Echoes(m)
      /\ Refuses(r) <=> Refuses(a) \/ Refuses(m)
      /\ EchoFirst(a) /\ (Refuses(m) => Echoes(a)) => EchoFirst(r)
  BY ONLY <1>5, m \in Seq(Tokens), PrintedBehind
<1>. QED
  BY <1>2, <1>6 DEF a, r

\* What is printed neither for the resume nor as its echo.
LEMMA OthersPrint ==
  ASSUME TelnetInv, ResumeInv, UNCHANGED telnetClient,
         NEW m \in Seq(Tokens), telnet' = telnet \o m, ~Echoes(m), ~Refuses(m),
         serving'.name = "resume" => serving.name = "resume",
         \A i \in DOMAIN commands' : \E j \in DOMAIN commands : commands'[i] = commands[j],
         \/ UNCHANGED <<running, serving>>
         \/ /\ serving.name # "resume"
            /\ serving.name # "halt" => UNCHANGED running
  PROVE  ResumeInv'
<1>. SUFFICES ASSUME call'.name = "resume", call'.failure = "none" PROVE ResumeInv'
  BY DEF ResumeInv
<1>1. /\ UNCHANGED call
      /\ Echoes(Unread)' <=> Echoes(Unread)
      /\ Refuses(Unread)' <=> Refuses(Unread)
      /\ EchoFirst(Unread) => EchoFirst(Unread)'
  BY ServerPrints
<1>2. call.todo = <<>> \/ Echoes(Unread) => serving.name # "halt"
  BY <1>1, HaltIsPast
<1>3. call.todo = <<>> \/ Echoes(Unread) =>
        running \/ serving.name = "resume" \/ Refuses(Unread)
  BY <1>1 DEF ResumeInv
<1>4. call'.todo = <<>> \/ Echoes(Unread)' =>
        running' \/ serving'.name = "resume" \/ Refuses(Unread)'
  BY <1>1, <1>2, <1>3
<1>. QED
  BY <1>1, <1>4 DEF ResumeInv

\* The server: taking up the resume, it makes the target run or says why it cannot,
\* and after that it has no halt to carry out.
LEMMA ServerResumes ==
  TelnetInv /\ ResumeInv /\ OpenOCD => ResumeInv'
<1>. SUFFICES ASSUME TelnetInv, ResumeInv, OpenOCD PROVE ResumeInv'
  OBVIOUS
<1>. USE DEF rttStream, target
<1>1. telnet \in Seq(Tokens) /\ commands \in Seq(Served) /\ serving \in Served
  BY Facts
<1>2. CASE Echo
  <2>. DEFINE h == Head(commands)
              m == <<Line(h.name, h.n)>>
  <2>1. /\ UNCHANGED telnetClient /\ UNCHANGED running
        /\ serving = NoCommand /\ commands # <<>> /\ serving' = h
        /\ commands' = Tail(commands) /\ telnet' = telnet \o m
    BY <1>1, <1>2 DEF OpenOCD, Echo, Serve, Answer, TargetWrites, Accept, Poll
  <2>2. 1 \in DOMAIN commands /\ h = commands[1]
    BY <1>1, <2>1
  <2>3. h.name \in CommandNames /\ h.n \in Nat
    BY <2>2, Facts DEF TelnetInv, Numbered
  <2>. HIDE DEF h
  <2>4. m \in Seq(Tokens) /\ 1 \in DOMAIN m /\ DOMAIN m = {1} /\ m[1] = Line(h.name, h.n)
    BY <2>3 DEF Line, Tokens
  <2>. HIDE DEF m
  <2>5. ~Refuses(m) /\ (Echoes(m) <=> h.name = "resume")
    <3>1. h.name # "info"
      BY <2>3 DEF CommandNames
    <3>. QED
      BY <2>4, <3>1 DEF Refuses, Echoes, Refusal, Line
  <2>6. \A i \in DOMAIN commands' : \E j \in DOMAIN commands : commands'[i] = commands[j]
    BY <1>1, <2>1
  <2>7. CASE h.name = "resume"
    <3>. SUFFICES ASSUME call'.name = "resume", call'.failure = "none" PROVE ResumeInv'
      BY DEF ResumeInv
    <3>1. /\ UNCHANGED call /\ Echoes(Unread)' /\ (Refuses(Unread)' <=> Refuses(Unread))
          /\ EchoFirst(Unread) => EchoFirst(Unread)'
      BY <2>1, <2>4, <2>5, <2>7, ServerPrints
    <3>2. call.todo # <<"prompt", "echo">>
      BY <2>2, <2>7, <3>1 DEF ResumeInv
    <3>. QED
      BY <2>1, <2>7, <3>1, <3>2 DEF ResumeInv
  <2>8. CASE h.name # "resume"
    <3>1. serving.name # "resume" /\ serving'.name # "resume"
      BY <2>1, <2>8 DEF NoCommand
    <3>. QED
      BY <2>1, <2>4, <2>5, <2>6, <2>8, <3>1, OthersPrint
  <2>. QED
    BY <2>7, <2>8
<1>3. CASE Debug
  <2>1. UNCHANGED telnetClient /\ UNCHANGED <<running, commands, serving>>
    BY <1>3 DEF OpenOCD, Debug, Echo, Serve, Answer, TargetWrites, Accept, Poll
  <2>2. PICK m \in Seq(Tokens) :
          telnet' = telnet \o m /\ \A i \in DOMAIN m : Marked(m[i]) /\ m[i].of = 0
    BY <1>3, DebugPrints
  <2>3. ~Echoes(m) /\ ~Refuses(m)
    <3>1. "resume" \in Own("resume") /\ "resume" \in CommandNames
      BY OwnOf DEF CommandNames
    <3>2. \A i \in DOMAIN m : m[i].kind # "resume"
      BY <2>2, <3>1, NumberOf DEF Marked
    <3>3. \A i \in DOMAIN m : m[i] # Refusal
      BY <2>2 DEF Refusal, Line
    <3>. QED
      BY <3>2, <3>3 DEF Echoes, Refuses
  <2>. QED
    BY <2>1, <2>2, <2>3, OthersPrint
<1>4. CASE UNCHANGED telnetVars /\ (Accept \/ Poll \/ TargetWrites)
  BY <1>4 DEF Accept, Poll, TargetWrites, telnetVars, telnetClient, telnetServer,
              ResumeInv, Unread
<1>5. CASE Serve
  <2>. DEFINE name == serving.name
  <2>1. /\ serving # NoCommand /\ serving' = NoCommand
        /\ UNCHANGED telnetClient /\ UNCHANGED commands
    BY <1>5 DEF Serve, Answer
  <2>2. name \in CommandNames
    BY <2>1 DEF TelnetInv, Numbered
  <2>3. serving'.name # "resume"
    BY <2>1 DEF NoCommand
  <2>4. PICK kinds \in Seq(Answers \cup {"info"}) :
          /\ Answer(kinds)
          /\ \/ Effect(name)
             \/ UNCHANGED rttStream /\ kinds = <<"info">>
    <3>1. <<"info">> \in Seq(Answers \cup {"info"})
      OBVIOUS
    <3>2. Printed(name) \in Seq(Answers \cup {"info"})
      <4>1. Printed(name) \in Seq(Answers)
        BY <2>2, PrintsOwn
      <4>. QED
        BY <4>1
    <3>. QED
      BY <1>5, <3>1, <3>2 DEF Serve
  <2>5. PICK m \in Seq(Tokens) :
          /\ telnet' = telnet \o m
          /\ \A i \in DOMAIN m :
               m[i] = Prompt \/ \E k \in DOMAIN kinds : m[i] = Line(kinds[k], serving.n)
          /\ \A k \in DOMAIN kinds : \E i \in DOMAIN m : m[i] = Line(kinds[k], serving.n)
    BY <2>4, AnswerPrints
  <2>6. ~Echoes(m)
    <3>1. \A k \in DOMAIN kinds : kinds[k] # "resume"
      <4>1. \A k \in DOMAIN kinds : kinds[k] \in Answers \cup {"info"}
        OBVIOUS
      <4>. QED
        BY <4>1 DEF Answers
    <3>. QED
      BY <2>5, <3>1 DEF Echoes, Line, Prompt
  <2>7. Refuses(m) => serving.n = 9
    BY <2>5 DEF Refuses, Refusal, Line, Prompt
  <2>8. CASE name # "resume"
    <3>1. ~Refuses(m)
      BY <2>1, <2>7, <2>8, ResumeNumber
    <3>2. name # "halt" => UNCHANGED running
      BY <2>4, <2>8 DEF Effect
    <3>3. \A i \in DOMAIN commands' : \E j \in DOMAIN commands : commands'[i] = commands[j]
      BY <2>1
    <3>. QED
      BY <2>1, <2>3, <2>5, <2>6, <2>8, <3>1, <3>2, <3>3, OthersPrint
  <2>9. CASE name = "resume"
    <3>. SUFFICES ASSUME call'.name = "resume", call'.failure = "none" PROVE ResumeInv'
      BY DEF ResumeInv
    <3>1. /\ UNCHANGED call /\ (Echoes(Unread)' <=> Echoes(Unread))
          /\ Refuses(m) => Refuses(Unread)'
          /\ EchoFirst(Unread) /\ Echoes(Unread) => EchoFirst(Unread)'
      BY <2>1, <2>5, <2>6, ServerPrints
    <3>2. /\ call.todo # <<"prompt", "echo">>
          /\ call.todo # <<>> => EchoFirst(Unread) /\ Echoes(Unread)
          /\ call.todo \in {<<"prompt", "echo">>, <<"echo">>, <<>>}
      BY <2>9, <3>1 DEF ResumeInv
    <3>3. running' \/ Refuses(m)
      <4>1. CASE Effect(name)
        BY <2>9, <4>1 DEF Effect, SetRunning
      <4>2. CASE kinds = <<"info">>
        <5>1. serving.n = 9 /\ 1 \in DOMAIN kinds /\ kinds[1] = "info"
          BY <2>9, <4>2, ResumeNumber
        <5>. QED
          BY <2>5, <5>1 DEF Refuses, Refusal
      <4>. QED
        BY <2>4, <4>1, <4>2
    <3>. QED
      BY <2>3, <3>1, <3>2, <3>3 DEF ResumeInv
  <2>. QED
    BY <2>8, <2>9
<1>. QED
  BY <1>2, <1>3, <1>4, <1>5 DEF OpenOCD

LEMMA ResumeInvariance == Spec => []ResumeInv
<1>1. Init => ResumeInv
  BY DEF Init, ResumeInv
<1>2. ResumeInv /\ UNCHANGED vars => ResumeInv'
  BY DEF vars, rttStream, target, telnetVars, telnetClient, telnetServer, ResumeInv,
         Unread
<1>. QED
  BY <1>1, <1>2, ThreadResumes, ServerResumes, TelnetInvariance, PTL DEF Spec, Next

\* A target that does not run in the loop has been refused its resume: resume()
\* returned at the echo, before OpenOCD printed why, and nobody reads that line.
\* The halt of the synchronisation, executed late or not, is never the reason.
THEOREM HaltedTarget == Spec => []HaltedMeansRefused
<1>1. TelnetInv /\ Steps /\ ResumeInv => HaltedMeansRefused
  <2>. SUFFICES ASSUME TelnetInv, Steps, ResumeInv, step = "loop", ~running
                PROVE  \/ serving.name = "resume"
                       \/ \E i \in DOMAIN Unread : Unread[i] = Line("info", call.n)
    BY DEF HaltedMeansRefused
  <2>1. call.name = "resume" /\ call.todo = <<>> /\ call.failure = "none"
    BY DEF Steps, Returned, Waiting
  <2>2. call.n = 9
    BY <2>1, ResumeNumber
  <2>. QED
    BY <2>1, <2>2 DEF ResumeInv, Refuses, Refusal
<1>. QED
  BY <1>1, ResumeInvariance, TelnetInvariance, PTL

SessionTyped ==
  /\ step \in CommandNames \cup {"open", "drain", "loop", "done", "failed"}
  /\ listing \in Listings \cup {<<>>}

LEMMA SessionTypes == Spec => []SessionTyped
<1>1. Init => SessionTyped
  BY DEF Init, CommandNames, SessionTyped
<1>2. SessionTyped /\ [Next]_vars => SessionTyped'
  <2>. SUFFICES ASSUME SessionTyped, [Next]_vars PROVE SessionTyped'
    OBVIOUS
  <2>. USE DEF SessionTyped
  <2>1. CASE NextCommand
    <3>1. PICK i \in 1 .. Len(Script) - 1 : Issue(Script[i + 1])
      BY <2>1 DEF NextCommand
    <3>2. Script[i + 1] \in CommandNames
      BY <3>1 DEF Script, CommandNames
    <3>. QED
      BY <3>1, <3>2 DEF Issue
  <2>2. CASE OpenOCD
    BY <2>2 DEF OpenOCD, Serve
  <2>3. CASE Sampler /\ ~NextCommand
    BY <2>3 DEF Sampler, CallFailed, NoChannel, Broken, Fails, ChooseChannel,
                ServerStarted, Open, Halted, Drain, Drained, Resumed, Iterate, Stop,
                Finished, Issue, CommandNames
  <2>4. CASE UNCHANGED vars
    BY <2>4 DEF vars
  <2>. QED
    BY <2>1, <2>2, <2>3, <2>4 DEF Next
<1>. QED
  BY <1>1, <1>2, PTL DEF Spec

\* Every variable of the session keeps its type.
THEOREM SessionTypeCorrect == Spec => []TypeOK
<1>1. TelnetInv => TelnetTypeOK
  BY TelnetTypes DEF TelnetInv
<1>2. StreamTypeOK /\ TelnetTypeOK /\ SessionTyped => TypeOK
  BY DEF TypeOK, SessionTyped
<1>3. Spec => []StreamTypeOK
  BY SessionUsesStream, StreamTypeCorrect, PTL DEF UsesStream
<1>. QED
  BY <1>1, <1>2, <1>3, SessionTypes, TelnetInvariance, PTL

-----------------------------------------------------------------------------
(* The choice of the scope channel.  What ScopePacketProofs says of the    *)
(* functions holds of every list of channels that OpenOCD may print.       *)

LEMMA ListingFacts ==
  ASSUME SessionTyped
  PROVE  /\ Len(listing) \in Nat /\ DOMAIN listing = 1 .. Len(listing)
         /\ \A i \in 1 .. Len(listing) : IsLine(listing[i])
<1>1. CASE listing = <<>>
  BY <1>1
<1>2. CASE listing \in Listings
  <2>1. /\ listing \in Seq(Range(listing))
        /\ \A i \in DOMAIN listing : IsLine(listing[i])
    BY <1>2, ListingsAssumption
  <2>. QED
    BY <2>1, LenProperties
<1>. QED
  BY <1>1, <1>2 DEF SessionTyped

LEMMA ListedChannels ==
  ASSUME SessionTyped, ListRead
  PROVE  /\ Channels \in Seq(Entries(listing))
         /\ Len(Channels) = Cardinality(ListedUpTo(listing, Len(listing)))
         /\ \A i \in ListedUpTo(listing, Len(listing)) :
              Channels[Cardinality(ListedUpTo(listing, i))] = Entry(listing, i)
<1>1. \A i \in 1 .. Len(listing) :
        listing[i].type = "header" => listing[i].name # "None"
  BY ListingFacts DEF IsLine, Directions
<1>2. Channels = parse_rtt_channels(listing)
  BY DEF Channels
<1>. QED
  BY <1>1, <1>2, ListingFacts, ChannelsAreListed

\* RTTSampler::start gets from parse_rtt_channels every channel under a header,
\* in order, with the direction of the last header before it.
THEOREM ChannelsCorrect == Spec => []ChannelsParsed
<1>1. SessionTyped => ChannelsParsed
  <2>. DEFINE n == Len(listing)
              IsHeader(i) == listing[i].type = "header"
              listed == {i \in DOMAIN listing : /\ listing[i].type = "channel"
                                               /\ \E h \in 1 .. i : IsHeader(h)}
  <2>. SUFFICES ASSUME SessionTyped, ListRead
                PROVE  /\ Len(Channels) = Cardinality(listed)
                       /\ \A i \in listed :
                            Channels[Cardinality(listed \cap 1 .. i)] =
                              [id |-> listing[i].id, name |-> listing[i].name,
                               direction |-> listing[Max({h \in 1 .. i : IsHeader(h)})].name]
    BY Zenon DEF ChannelsParsed
  <2>1. n \in Nat /\ DOMAIN listing = 1 .. n
    BY ListingFacts
  <2>2. listed = ListedUpTo(listing, n)
    BY <2>1 DEF ListedUpTo, HeadersUpTo
  <2>3. \A i \in listed : listed \cap 1 .. i = ListedUpTo(listing, i)
    BY <2>1 DEF ListedUpTo, HeadersUpTo
  <2>4. \A i : Entry(listing, i) =
          [id |-> listing[i].id, name |-> listing[i].name,
           direction |-> listing[Max({h \in 1 .. i : IsHeader(h)})].name]
    BY DEF Entry, LastHeader, HeadersUpTo
  <2>. HIDE DEF listed, IsHeader
  <2>. QED
    BY <2>2, <2>3, <2>4, ListedChannels
<1>. QED
  BY <1>1, SessionTypes, PTL

\* The names that start parses are strings.
LEMMA CandidateNames ==
  ASSUME SessionTyped, NEW i \in Candidates
  PROVE  Channels[i].name.format \in Seq(Range(Channels[i].name.format))
<1>1. i \in DOMAIN Channels
  BY DEF Candidates, CandidateScopeChannels
<1>2. ListRead
  <2>1. CASE ~ListRead
    BY <1>1, <2>1 DEF Channels
  <2>. QED
    BY <2>1
<1>3. Channels[i] \in Entries(listing)
  BY <1>1, <1>2, ListedChannels, LenProperties
<1>4. PICK j \in DOMAIN listing :
        listing[j].type = "channel" /\ Channels[i] = Entry(listing, j)
  BY <1>3 DEF Entries
<1>5. Channels[i].name = listing[j].name
  BY <1>4 DEF Entry
<1>6. IsLine(listing[j])
  BY <1>4, ListingFacts
<1>. QED
  BY <1>4, <1>5, <1>6 DEF IsLine

\* The name of every scope channel that start may choose is accepted exactly when
\* it spells a structure, and gives that structure.
THEOREM NamesCorrect == Spec => []NamesParsed
<1>1. SessionTyped => NamesParsed
  BY CandidateNames, NamesSpell DEF NamesParsed
<1>. QED
  BY <1>1, SessionTypes, PTL

\* What the target puts into a packet of the structure that start has chosen is
\* what decode_bytes gives, up to the precision of f32.
THEOREM DecodingCorrect == Spec => []PacketsDecoded
<1>1. SessionTyped => PacketsDecoded
  <2>. SUFFICES ASSUME SessionTyped, Candidates # {}, packet_structure # Nothing
                PROVE  DecodesWhatIsPut(packet_structure)
    BY DEF PacketsDecoded, Suitable
  <2>1. Candidates \subseteq Nat
    <3>1. DOMAIN Channels \subseteq Nat
      <4>1. CASE ListRead
        BY <4>1, ListedChannels, LenProperties
      <4>2. CASE ~ListRead
        BY <4>2 DEF Channels
      <4>. QED
        BY <4>1, <4>2
    <3>. QED
      BY <3>1 DEF Candidates, CandidateScopeChannels
  <2>2. Min(Candidates) \in Candidates
    BY <2>1, LeastOf
  <2>. DEFINE format == Channels[Min(Candidates)].name.format
  <2>3. format \in Seq(Range(format))
    BY <2>2, CandidateNames
  <2>4. packet_structure = parse_scope_packet_structure(format)
    BY DEF packet_structure
  <2>. HIDE DEF format
  <2>5. packet_structure \in AnyStructures
    BY <2>3, <2>4, AcceptedIsSpelled
  <2>. QED
    BY <2>5, StructuresDecode
<1>. QED
  BY <1>1, SessionTypes, PTL

=============================================================================
