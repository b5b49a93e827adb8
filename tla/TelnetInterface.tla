--------------------------- MODULE TelnetInterface ----------------------------
(***************************************************************************)
(* TelnetInterface of src/openocd/telnet_interface.rs, and OpenOCD's       *)
(* Telnet server as the code relies on it.                                 *)
(*                                                                         *)
(* The server executes one command at a time: it echoes the line, writes   *)
(* the answer and then a prompt.  Between commands it may write debug      *)
(* output, which erases the prompt with two backspaces first; during a     *)
(* command such output comes between the lines.                            *)
(*                                                                         *)
(* A token is a prompt "> " or a line with its CRLF; `of` is the number of *)
(* the command it was printed for, 0 for debug output (a ghost).           *)
(* A command has the name of its method; its arguments are left out.       *)
(***************************************************************************)
EXTENDS Integers, Sequences

CONSTANT MaxChatter  \* bound: debug outputs

ASSUME TelnetAssumption == MaxChatter \in Nat

VARIABLES
  telnet,    \* tokens on the way to the client
  buffered,  \* self.buffer
  call,      \* the method under way: [name, n, todo, failure]
  answers,   \* lines this call has accepted
  discarded, \* discarded_lines of this wait is not empty
  commands,  \* written by the client, not executed by the server
  serving,   \* the command the server is executing
  chatter

telnetClient == <<buffered, call, answers, discarded>>
telnetServer == <<serving, chatter>>
telnetVars   == <<telnet, telnetClient, commands, telnetServer>>

Line(kind, n) == [kind |-> kind, of |-> n]

Prompt == Line("prompt", 0)

NoCommand == [name |-> "none", n |-> 0]

\* What a method waits for after the echo.
Waits(name) ==
  CASE name = "rtt_start"         -> <<"searching", "found">>
    [] name = "set_adapter_speed" -> <<"speed", "blank">>
    [] name = "rtt_channels"      -> <<"blank">>
    [] name = "rtt_server_start"  -> <<"listening">>
    [] name = "halt"              -> <<"halted">>
    [] OTHER                      -> <<>>

\* What the server sends to a new client.
Greeting == <<Line("banner", 0), Prompt>>

\* A method is called.
Call(name) ==
  /\ call' = [name |-> name, n |-> call.n + 1,
              todo |-> <<"prompt", "echo">> \o Waits(name), failure |-> "none"]
  /\ answers' = <<>> /\ discarded' = FALSE

Waiting == call.todo # <<>>

Awaited == IF Waiting THEN Head(call.todo) ELSE "nothing"

Returned == ~Waiting /\ call.failure = "none"

-----------------------------------------------------------------------------
(* The client.                                                             *)

\* read_into_buffer
ReadIntoBuffer ==
  /\ Waiting
  /\ \E n \in 1 .. Len(telnet) :
       /\ buffered' = buffered \o SubSeq(telnet, 1, n)
       /\ telnet' = SubSeq(telnet, n + 1, Len(telnet))
  /\ UNCHANGED <<call, answers, discarded, commands, telnetServer>>

PromptSeen == buffered # <<>> /\ buffered[Len(buffered)].kind = "prompt"

\* wait_prompt returns, and the command is written.
WriteCommand ==
  /\ Awaited = "prompt" /\ PromptSeen
  /\ buffered' = <<>>
  /\ commands' = Append(commands, [name |-> call.name, n |-> call.n])
  /\ call' = [call EXCEPT !.todo = Tail(@)]
  /\ UNCHANGED <<telnet, answers, discarded, telnetServer>>

\* read_line: up to the end of the first line, prompts included.
LineEnds == {i \in DOMAIN buffered : buffered[i].kind # "prompt"}

LineEnd == CHOOSE i \in LineEnds : \A j \in LineEnds : i <= j

TheLine == buffered[LineEnd]

AfterLine == SubSeq(buffered, LineEnd + 1, Len(buffered))

\* A line that starts with two backspaces is ignored, but not after a prompt.
Ignored == TheLine.kind = "erase" /\ LineEnd = 1

\* Faulty variant of `Matches`: any line will do for the echo.
MatchesAnyEcho ==
  CASE Awaited = "echo"   -> TRUE
    [] Awaited = "halted" -> TheLine.kind = "halted"
    [] OTHER              -> TheLine.kind = Awaited /\ LineEnd = 1

\* The predicates.  The echo ends with the command and the halt line contains
\* its text; the other answers start with it, so no prompt may precede them.
Matches ==
  CASE Awaited = "echo"   -> TheLine.kind = call.name
    [] Awaited = "halted" -> TheLine.kind = "halted"
    [] OTHER              -> TheLine.kind = Awaited /\ LineEnd = 1

\* rtt_channels collects the lines up to the blank one.
Collects == call.name = "rtt_channels" /\ Awaited = "blank"

TakeLine ==
  /\ Awaited \notin {"prompt", "nothing"} /\ LineEnds # {}
  /\ buffered' = AfterLine
  /\ \/ /\ Ignored
        /\ UNCHANGED <<call, answers, discarded>>
     \/ /\ ~Ignored /\ Matches
        /\ call' = [call EXCEPT !.todo = Tail(@)]
        /\ answers' = Append(answers, TheLine)
        /\ discarded' = FALSE
     \/ /\ ~Ignored /\ ~Matches
        /\ answers' = IF Collects THEN Append(answers, TheLine) ELSE answers
        /\ discarded' = (discarded \/ ~(Collects \/ Awaited = "speed"))
        /\ UNCHANGED call
  /\ UNCHANGED <<telnet, commands, telnetServer>>

\* Faulty variant of `CallFails`: the wait goes on.
CallGoesOn ==
  /\ Waiting
  /\ IF Awaited = "prompt" THEN ~PromptSeen ELSE LineEnds = {}
  /\ call' = [call EXCEPT !.failure = "timeout"]
  /\ UNCHANGED <<telnet, buffered, answers, discarded, commands, telnetServer>>

\* The method's time is over and what it has read will not do, or the connection
\* fails.  A wait that has discarded a line does not report a timeout.
CallFails ==
  /\ Waiting
  /\ IF Awaited = "prompt" THEN ~PromptSeen ELSE LineEnds = {}
  /\ \E failure \in {IF discarded THEN "unexpected" ELSE "timeout", "io"} :
       call' = [call EXCEPT !.todo = <<>>, !.failure = failure]
  /\ UNCHANGED <<telnet, buffered, answers, discarded, commands, telnetServer>>

TelnetClient == ReadIntoBuffer \/ WriteCommand \/ TakeLine \/ CallFails

-----------------------------------------------------------------------------
(* The server.                                                             *)

Echo ==
  /\ serving = NoCommand /\ commands # <<>>
  /\ serving' = Head(commands)
  /\ commands' = Tail(commands)
  /\ telnet' = Append(telnet, Line(Head(commands).name, Head(commands).n))
  /\ UNCHANGED <<telnetClient, chatter>>

\* The command is done and has printed `kinds`.
Answer(kinds) ==
  /\ serving # NoCommand
  /\ telnet' = telnet \o [i \in DOMAIN kinds |-> Line(kinds[i], serving.n)]
                      \o <<Prompt>>
  /\ serving' = NoCommand
  /\ UNCHANGED <<telnetClient, commands, chatter>>

\* Debug output of one or two lines, the second of which may be blank.
Debug ==
  /\ chatter < MaxChatter
  /\ \E more \in {<<>>, <<Line("info", 0)>>, <<Line("blank", 0)>>} :
       telnet' = IF serving = NoCommand
                 THEN telnet \o <<Line("erase", 0)>> \o more \o <<Prompt>>
                 ELSE telnet \o <<Line("info", 0)>> \o more
  /\ chatter' = chatter + 1
  /\ UNCHANGED <<telnetClient, commands, serving>>

-----------------------------------------------------------------------------

CommandNames ==
  {"rtt_stop", "rtt_setup", "rtt_start", "set_adapter_speed", "set_rtt_polling_interval",
   "rtt_channels", "rtt_server_start", "halt", "resume", "rtt_server_stop"}

Answers == {"searching", "found", "speed", "blank", "list", "listening", "halted"}

TelnetTypeOK ==
  LET Tokens == [kind : CommandNames \cup Answers \cup
                        {"prompt", "banner", "erase", "info"}, of : Nat]
      Served == [name : CommandNames \cup {"none"}, n : Nat] IN
  /\ telnet \in Seq(Tokens) /\ buffered \in Seq(Tokens) /\ answers \in Seq(Tokens)
  /\ discarded \in BOOLEAN
  /\ call.failure \in {"none", "timeout", "unexpected", "io"}
  /\ Waiting => call.failure = "none"
  /\ commands \in Seq(Served) /\ serving \in Served
  /\ chatter \in 0 .. MaxChatter

\* A call takes nothing that an earlier call has left unread: an echo or an answer
\* with a text of its own was printed for it, and of blank lines and of the lines
\* that rtt_channels collects only those of debug output are taken for it besides.
AnswersBelong ==
  \A i \in DOMAIN answers :
    /\ answers[i].of \in {0, call.n}
    /\ answers[i].kind \in CommandNames \cup (Answers \ {"blank"}) =>
         answers[i].of = call.n

\* What the TODO of read_line asks for and a run refutes: no line of debug output
\* is taken for an answer, blank ones included.
DebugIsIgnored ==
  \A i \in DOMAIN answers : answers[i].kind \in Answers => answers[i].of = call.n

=============================================================================
