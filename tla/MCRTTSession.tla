----------------------------- MODULE MCRTTSession -----------------------------
(***************************************************************************)
(* Values for the constants of RTTSession.                                 *)
(***************************************************************************)
EXTENDS RTTSession

Name(scope, format) == [scope |-> scope, format |-> format]

Header(direction) == [type |-> "header", id |-> 0, name |-> direction]

Channel(i, name) == [type |-> "channel", id |-> i, name |-> name]

\* Every list of up to three lines ...
Lines == {Header("Up"), Header("Down"), Channel(0, Name(TRUE, <<"t", "4">>)),
          [type |-> "other", id |-> 0, name |-> "None"]}

\* ... and after a channel that is not for the scope one with the name of every
\* structure of one field, or of one after it, with every pair of characters, and
\* with one character left over.
Characters == {"t", "b", "f", "u", "1", "4", "x"}

Formats ==
  {Spelling(s) \o f : s \in {t \in Structures : Len(t.fields) <= 1},
                     f \in {<<>>, <<"i", "4">>}} \cup
  UNION {[1 .. n -> Characters] : n \in 0 .. 2} \cup
  {<<"t", "4", "b", "1">> \o f : f \in [1 .. 1 -> Characters]}

Lists ==
  UNION {[1 .. n -> Lines] : n \in 1 .. 3} \cup
  {<<Header("Up"), Channel(0, Name(FALSE, <<>>)), Channel(1, Name(TRUE, f))>> :
     f \in Formats}

=============================================================================
