----------------------------- MODULE ScopePacket ------------------------------
(***************************************************************************)
(* The pure functions of the RTT sampler: the parsing of the list of       *)
(* channels (src/openocd/telnet_interface.rs), the choice of the scope     *)
(* channel, and the packet structure that its name gives                   *)
(* (src/sampler/rttsampler.rs), each with what it is checked against.      *)
(*                                                                         *)
(* A format is the part of the channel's name after the last underscore,   *)
(* in lower case, as a sequence of characters.                             *)
(***************************************************************************)
EXTENDS Integers, Sequences, SequencesExt, FiniteSetsExt

-----------------------------------------------------------------------------
(* parse_rtt_channels.  A line is [type, id, name]: a "header" of the      *)
(* direction `name`, a "channel", or "other", like a channel whose name    *)
(* has a space: its second word is no size.                                *)

Directions == {"Up", "Down"}

\* Faulty variant of `AddLine`: channels before any header are taken.
AddLineAlways(found, line) ==
  CASE line.type = "header"  -> [found EXCEPT !.direction = line.name]
    [] line.type = "channel" ->
         [found EXCEPT !.channels =
            Append(@, [id |-> line.id, name |-> line.name,
                       direction |-> found.direction])]
    [] OTHER -> found

\* The closure of the fold.
AddLine(found, line) ==
  CASE line.type = "header"  -> [found EXCEPT !.direction = line.name]
    [] line.type = "channel" /\ found.direction # "None" ->
         [found EXCEPT !.channels =
            Append(@, [id |-> line.id, name |-> line.name,
                       direction |-> found.direction])]
    [] OTHER -> found

parse_rtt_channels(lines) ==
  FoldLeft(AddLine, [channels |-> <<>>, direction |-> "None"], lines).channels

\* The up channels with "scope" in their name: where they are in the list.
CandidateScopeChannels(channels) ==
  {i \in DOMAIN channels : channels[i].direction = "Up" /\ channels[i].name.scope}

-----------------------------------------------------------------------------
(* parse_scope_packet_structure.                                           *)

Invalid == [type |-> "Invalid", size |-> 0]

Sizes == [c \in {"1", "2", "4"} |-> CASE c = "1" -> 1 [] c = "2" -> 2 [] c = "4" -> 4]

\* Faulty variant of `ParseField`: a float may have any size.
ParseFieldLoose(type_char, size_char) ==
  IF size_char \notin DOMAIN Sizes THEN Invalid
  ELSE CASE type_char = "b" /\ size_char = "1" -> [type |-> "Boolean", size |-> 1]
         [] type_char = "f" -> [type |-> "Float", size |-> Sizes[size_char]]
         [] type_char = "i" -> [type |-> "Signed", size |-> Sizes[size_char]]
         [] type_char = "u" -> [type |-> "Unsigned", size |-> Sizes[size_char]]
         [] OTHER -> Invalid

\* RTTScopePacketField::parse
ParseField(type_char, size_char) ==
  CASE type_char = "b" /\ size_char = "1" -> [type |-> "Boolean", size |-> 1]
    [] type_char = "f" /\ size_char = "4" -> [type |-> "Float", size |-> 4]
    [] type_char = "i" /\ size_char \in DOMAIN Sizes ->
         [type |-> "Signed", size |-> Sizes[size_char]]
    [] type_char = "u" /\ size_char \in DOMAIN Sizes ->
         [type |-> "Unsigned", size |-> Sizes[size_char]]
    [] OTHER -> Invalid

Nothing == [has_u32_us_time |-> FALSE, fields |-> <<Invalid>>]

\* A time only comes first; a character left over is only logged.
parse_scope_packet_structure(format) ==
  LET timed    == IsPrefix(<<"t", "4">>, format)
      to_parse == IF timed THEN SubSeq(format, 3, Len(format)) ELSE format
      fields   == [i \in 1 .. Len(to_parse) \div 2 |->
                     ParseField(to_parse[2 * i - 1], to_parse[2 * i])] IN
  IF \E i \in DOMAIN fields : fields[i] = Invalid THEN Nothing
  ELSE [has_u32_us_time |-> timed, fields |-> fields]

-----------------------------------------------------------------------------
(* decode_bytes.                                                           *)

Total(numbers) == FoldLeft(LAMBDA a, b : a + b, 0, numbers)

\* Bytes of the packet before the i-th field.
Offset(structure, i) ==
  (IF structure.has_u32_us_time THEN 4 ELSE 0)
    + Total([j \in 1 .. i - 1 |-> structure.fields[j].size])

packet_size(structure) == Offset(structure, Len(structure.fields) + 1)

Power256 == <<1, 256, 65536, 16777216>>

LittleEndian(bytes) == Total([i \in DOMAIN bytes |-> bytes[i] * Power256[i]])

\* Faulty variant of `TwosComplement`: narrow integers have no sign.
NoSign(bytes) ==
  LET last == bytes[Len(bytes)] IN
  LittleEndian([bytes EXCEPT ![Len(bytes)] =
                  IF last < 128 \/ Len(bytes) < 4 THEN last ELSE last - 256])

\* i8, i16, i32::from_le_bytes: the last byte has the sign.
TwosComplement(bytes) ==
  LET last == bytes[Len(bytes)] IN
  LittleEndian([bytes EXCEPT ![Len(bytes)] = IF last < 128 THEN last ELSE last - 256])

\* What 24 bits can count.
Precision == 16777216

\* What the last of 24 significant bits may stand for in a number below 2^32.
Units == {1, 2, 4, 8, 16, 32, 64, 128, 256}

\* `as f32`: 24 significant bits, to the nearest and on a tie to the even one.
ToF32(v) ==
  LET m    == IF v < 0 THEN -v ELSE v
      unit == Min({u \in Units : m \div u < Precision})
      q    == m \div unit
      r    == m % unit
      up   == 2 * r > unit \/ (2 * r = unit /\ q % 2 = 1)
      f    == (IF up THEN q + 1 ELSE q) * unit IN
  IF v < 0 THEN -f ELSE f

\* RTTScopePacketField::decode.  A float is its bytes.
DecodeField(field, bytes) ==
  CASE field.type = "Boolean"  -> IF bytes[1] # 0 THEN 1 ELSE 0
    [] field.type = "Float"    -> bytes
    [] field.type = "Signed"   -> ToF32(TwosComplement(bytes))
    [] field.type = "Unsigned" -> ToF32(LittleEndian(bytes))

\* The time, or -1 without one, and the value of every field.
decode_bytes(structure, bytes) ==
  [time   |-> IF structure.has_u32_us_time THEN LittleEndian(SubSeq(bytes, 1, 4))
              ELSE -1,
   values |-> [i \in DOMAIN structure.fields |->
                 DecodeField(structure.fields[i],
                             SubSeq(bytes, Offset(structure, i) + 1,
                                           Offset(structure, i + 1)))]]

-----------------------------------------------------------------------------
(* What these functions are checked against, on bounded inputs.            *)

\* The two letters of every field the naming convention has.
TypeLetter == [Boolean |-> "b", Float |-> "f", Signed |-> "i", Unsigned |-> "u"]

SizeLetter == [n \in {1, 2, 4} |-> CASE n = 1 -> "1" [] n = 2 -> "2" [] n = 4 -> "4"]

Fields ==
  {[type |-> "Boolean", size |-> 1], [type |-> "Float", size |-> 4]} \cup
  [type : {"Signed", "Unsigned"}, size : {1, 2, 4}]

Structures ==
  [has_u32_us_time : BOOLEAN, fields : UNION {[1 .. n -> Fields] : n \in 0 .. 2}]

Joined(seqs) == FoldLeft(LAMBDA a, b : a \o b, <<>>, seqs)

FieldSpelling(field) == <<TypeLetter[field.type], SizeLetter[field.size]>>

Spelling(structure) ==
  (IF structure.has_u32_us_time THEN <<"t", "4">> ELSE <<>>) \o
  Joined([i \in DOMAIN structure.fields |-> FieldSpelling(structure.fields[i])])

SpellsWhatItGives(format) ==
  LET s == parse_scope_packet_structure(format) IN
  /\ \A t \in Structures : Spelling(t) = format => s = t
  /\ s # Nothing =>
       /\ \A i \in DOMAIN s.fields : s.fields[i] \in Fields
       /\ SubSeq(format, 1, 2 * (Len(format) \div 2)) = Spelling(s)

\* Those of four bytes stay within the integers of the model checker.
WideNumbers == {0, 255, 16777217, 16777219, 2147483000}

NegativeNumbers == {-1, -16777217}

\* Numbers at the boundaries of each type.
Numbers(field) ==
  CASE field.type = "Boolean" -> {0, 1, 255}
    [] field.type = "Float"   -> {0}
    [] field.type = "Signed" /\ field.size = 4   -> WideNumbers \cup NegativeNumbers
    [] field.type = "Unsigned" /\ field.size = 4 -> WideNumbers
    [] field.type = "Signed" /\ field.size < 4 ->
         {-1, 0, 1, Power256[field.size + 1] \div 2 - 1,
          -(Power256[field.size + 1] \div 2)}
    [] field.type = "Unsigned" /\ field.size < 4 ->
         {0, 1, Power256[field.size + 1] - 1}

Times == {0, 2147483000}

ToBytes(number, size) == [i \in 1 .. size |-> (number \div Power256[i]) % 256]

PacketOf(structure, time, numbers) ==
  (IF structure.has_u32_us_time THEN ToBytes(time, 4) ELSE <<>>) \o
  Joined([i \in DOMAIN structure.fields |->
            ToBytes(numbers[i], structure.fields[i].size)])

\* x is n, or the nearest number with 24 significant bits.
Nearest(x, n) ==
  LET m == IF n < 0 THEN -n ELSE n
      y == IF n < 0 THEN -x ELSE x IN
  \/ m < Precision /\ y = m
  \/ \E unit \in Units \ {1} :
       /\ Precision \div 2 <= m \div unit /\ m \div unit < Precision
       /\ y % unit = 0
       /\ 2 * (y - m) <= unit /\ 2 * (m - y) <= unit

DecodesWhatIsPut(s) ==
  \A time \in Times :
    \A numbers \in {f \in [DOMAIN s.fields ->
                             UNION {Numbers(s.fields[i]) : i \in DOMAIN s.fields}] :
                      \A i \in DOMAIN f : f[i] \in Numbers(s.fields[i])} :
      LET bytes == PacketOf(s, time, numbers)
          d     == decode_bytes(s, bytes) IN
      /\ Len(bytes) = packet_size(s)
      /\ d.time = IF s.has_u32_us_time THEN time ELSE -1
      /\ \A i \in DOMAIN numbers :
           CASE s.fields[i].type = "Boolean" -> d.values[i] = Min({numbers[i], 1})
             [] s.fields[i].type = "Float"   -> d.values[i] = ToBytes(numbers[i], 4)
             [] OTHER                        -> Nearest(d.values[i], numbers[i])

=============================================================================
