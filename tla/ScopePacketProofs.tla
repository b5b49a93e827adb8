-------------------------- MODULE ScopePacketProofs --------------------------
(***************************************************************************)
(* What the pure functions of ScopePacket give, for names of any length,   *)
(* structures of any number of fields and numbers of the full range of     *)
(* their types.                                                            *)
(***************************************************************************)
EXTENDS ScopePacket, SequenceTheorems, FiniteSetTheorems, TLAPS

-----------------------------------------------------------------------------
(* Sums.                                                                   *)

Plus(a, b) == a + b

SumFacts(s, k, v) ==
  /\ (\A i \in DOMAIN s : s[i] \in Nat) => v \in Nat
  /\ (\A i \in DOMAIN s : s[i] = 2) => v = 2 * k

Adding == INSTANCE FoldFacts WITH op <- Plus, base <- 0, P <- SumFacts

LEMMA TotalIsFold ==
  ASSUME NEW s
  PROVE  Total(s) = Adding!FoldLeft(Plus, 0, s)
BY DEF Total, Plus, FoldLeft, Adding!FoldLeft, MapThenFoldSet,
       Adding!MapThenFoldSet, Max, Adding!Max

LEMMA TotalFacts ==
  ASSUME NEW s, NEW n \in Nat, DOMAIN s = 1 .. n
  PROVE  /\ (\A i \in 1 .. n : s[i] \in Nat) => Total(s) \in Nat
         /\ (\A i \in 1 .. n : s[i] = 2) => Total(s) = 2 * n
<1>1. SumFacts(s, 0, 0)
  BY DEF SumFacts
<1>2. ASSUME NEW k \in 1 .. n, NEW v, SumFacts(s, k - 1, v)
      PROVE  SumFacts(s, k, Plus(v, s[k]))
  <2>1. ASSUME \A i \in DOMAIN s : s[i] \in Nat
        PROVE  Plus(v, s[k]) \in Nat
    BY <1>2, <2>1 DEF SumFacts, Plus
  <2>2. ASSUME \A i \in DOMAIN s : s[i] = 2
        PROVE  Plus(v, s[k]) = 2 * k
    BY <1>2, <2>2 DEF SumFacts, Plus
  <2>. QED
    BY <2>1, <2>2 DEF SumFacts
<1>3. SumFacts(s, n, Adding!FoldLeft(Plus, 0, s))
  BY <1>1, <1>2, Adding!FoldInvariant
<1>. QED
  BY <1>3, TotalIsFold DEF SumFacts

LEMMA TotalOfNone ==
  ASSUME NEW s, DOMAIN s = 1 .. 0
  PROVE  Total(s) = 0
<1>1. PICK r : Adding!Trace(r, s, 0) /\ r[0] = Adding!FoldLeft(Plus, 0, s)
  BY Adding!FoldTrace
<1>. QED
  BY <1>1, TotalIsFold DEF Adding!Trace

LEMMA TotalOfOneMore ==
  ASSUME NEW s, NEW t, NEW n \in Nat, DOMAIN s = 1 .. n, DOMAIN t = 1 .. n + 1,
         \A k \in 1 .. n : t[k] = s[k]
  PROVE  Total(t) = Total(s) + t[n + 1]
<1>1. Adding!FoldLeft(Plus, 0, t) = Plus(Adding!FoldLeft(Plus, 0, s), t[n + 1])
  BY Adding!FoldAppend
<1>. QED
  BY <1>1, TotalIsFold DEF Plus

-----------------------------------------------------------------------------
(* Sequences joined to one.                                                *)

Symbols == {"t", "b", "f", "i", "u", "1", "2", "4"} \cup 0 .. 255

\* Where the i-th of them begins.
Start(seqs, i) == Total([j \in 1 .. i - 1 |-> Len(seqs[j])])

Chain(a, b) == a \o b

JoinFacts(s, k, v) ==
  (\A i \in DOMAIN s : s[i] \in Seq(Symbols)) =>
    /\ v \in Seq(Symbols)
    /\ Len(v) = Start(s, k + 1)
    /\ \A i \in 1 .. k :
         /\ Start(s, i) + Len(s[i]) <= Len(v)
         /\ \A j \in 1 .. Len(s[i]) : v[Start(s, i) + j] = s[i][j]

Joining == INSTANCE FoldFacts WITH op <- Chain, base <- <<>>, P <- JoinFacts

LEMMA JoinedIsFold ==
  ASSUME NEW s
  PROVE  Joined(s) = Joining!FoldLeft(Chain, <<>>, s)
BY DEF Joined, Chain, FoldLeft, Joining!FoldLeft, MapThenFoldSet,
       Joining!MapThenFoldSet, Max, Joining!Max

LEMMA StartStep ==
  ASSUME NEW s, NEW n \in Nat, DOMAIN s = 1 .. n,
         \A i \in 1 .. n : s[i] \in Seq(Symbols)
  PROVE  /\ Start(s, 1) = 0
         /\ \A k \in 1 .. n + 1 : Start(s, k) \in Nat
         /\ \A k \in 1 .. n : Start(s, k + 1) = Start(s, k) + Len(s[k])
<1>. DEFINE L(k) == [j \in 1 .. k - 1 |-> Len(s[j])]
<1>1. Start(s, 1) = 0
  <2>1. DOMAIN L(1) = 1 .. 0
    OBVIOUS
  <2>. QED
    BY <2>1, TotalOfNone DEF Start
<1>2. ASSUME NEW k \in 1 .. n + 1
      PROVE  Start(s, k) \in Nat
  <2>1. k - 1 \in Nat /\ DOMAIN L(k) = 1 .. k - 1
    OBVIOUS
  <2>2. \A i \in 1 .. k - 1 : L(k)[i] \in Nat
    <3>1. SUFFICES ASSUME NEW i \in 1 .. k - 1 PROVE L(k)[i] \in Nat
      OBVIOUS
    <3>2. i \in 1 .. n /\ L(k)[i] = Len(s[i])
      OBVIOUS
    <3>. QED
      BY <3>2
  <2>. HIDE DEF L
  <2>3. Total(L(k)) \in Nat
    BY <2>1, <2>2, TotalFacts
  <2>. QED
    BY <2>3 DEF Start, L
<1>3. ASSUME NEW k \in 1 .. n
      PROVE  Start(s, k + 1) = Start(s, k) + Len(s[k])
  <2>1. /\ k - 1 \in Nat /\ (k - 1) + 1 = k
        /\ DOMAIN L(k) = 1 .. k - 1 /\ DOMAIN L(k + 1) = 1 .. (k - 1) + 1
        /\ \A j \in 1 .. k - 1 : L(k + 1)[j] = L(k)[j]
        /\ L(k + 1)[k] = Len(s[k])
    OBVIOUS
  <2>. HIDE DEF L
  <2>2. Total(L(k + 1)) = Total(L(k)) + L(k + 1)[(k - 1) + 1]
    BY <2>1, TotalOfOneMore
  <2>. QED
    BY <2>1, <2>2 DEF Start, L
<1>. QED
  BY <1>1, <1>2, <1>3

\* The i-th sequence is found where those before it end.
LEMMA JoinedProperties ==
  ASSUME NEW s, NEW n \in Nat, DOMAIN s = 1 .. n,
         \A i \in 1 .. n : s[i] \in Seq(Symbols)
  PROVE  /\ Joined(s) \in Seq(Symbols)
         /\ Len(Joined(s)) = Start(s, n + 1)
         /\ \A i \in 1 .. n :
              /\ Start(s, i) + Len(s[i]) <= Len(Joined(s))
              /\ \A j \in 1 .. Len(s[i]) : Joined(s)[Start(s, i) + j] = s[i][j]
<1>1. JoinFacts(s, 0, <<>>)
  <2>1. <<>> \in Seq(Symbols) /\ Len(<<>>) = 0
    OBVIOUS
  <2>2. Start(s, 0 + 1) = 0
    BY StartStep
  <2>. QED
    BY <2>1, <2>2 DEF JoinFacts
<1>2. ASSUME NEW k \in 1 .. n, NEW v, JoinFacts(s, k - 1, v)
      PROVE  JoinFacts(s, k, Chain(v, s[k]))
  <2>. DEFINE w == v \o s[k]
  <2>1. /\ v \in Seq(Symbols) /\ Len(v) = Start(s, k)
        /\ \A i \in 1 .. k - 1 :
             /\ Start(s, i) + Len(s[i]) <= Len(v)
             /\ \A j \in 1 .. Len(s[i]) : v[Start(s, i) + j] = s[i][j]
    BY <1>2 DEF JoinFacts
  <2>2. s[k] \in Seq(Symbols)
    OBVIOUS
  <2>3. /\ w \in Seq(Symbols) /\ Len(w) = Len(v) + Len(s[k])
        /\ Len(v) \in Nat /\ Len(s[k]) \in Nat
        /\ \A x \in 1 .. Len(v) : w[x] = v[x]
        /\ \A x \in 1 .. Len(s[k]) : w[Len(v) + x] = s[k][x]
    <3>1. /\ Len(v) \in Nat /\ Len(s[k]) \in Nat
          /\ w \in Seq(Symbols) /\ Len(w) = Len(v) + Len(s[k])
      BY <2>1, <2>2, ConcatProperties, LenProperties
    <3>2. \A x \in 1 .. Len(w) :
            w[x] = IF x <= Len(v) THEN v[x] ELSE s[k][x - Len(v)]
      BY <2>1, <2>2, <3>1, ConcatProperties
    <3>. HIDE DEF w
    <3>3. \A x \in 1 .. Len(v) : w[x] = v[x]
      BY <3>1, <3>2
    <3>4. ASSUME NEW x \in 1 .. Len(s[k]) PROVE w[Len(v) + x] = s[k][x]
      <4>1. /\ Len(v) + x \in 1 .. Len(w) /\ ~(Len(v) + x <= Len(v))
            /\ (Len(v) + x) - Len(v) = x
        BY <3>1
      <4>. QED
        BY <3>2, <4>1
    <3>. QED
      BY <3>1, <3>3, <3>4
  <2>. HIDE DEF w
  <2>4. Len(w) = Start(s, k + 1)
    BY <2>1, <2>3, StartStep
  <2>5. \A i \in 1 .. n + 1 : Start(s, i) \in Nat
    BY StartStep
  <2>6. ASSUME NEW i \in 1 .. k
        PROVE  /\ Start(s, i) + Len(s[i]) <= Len(w)
               /\ \A j \in 1 .. Len(s[i]) : w[Start(s, i) + j] = s[i][j]
    <3>1. CASE i = k
      BY <2>1, <2>3, <3>1
    <3>2. CASE i # k
      <4>1. i \in 1 .. k - 1 /\ i \in 1 .. n + 1 /\ i \in 1 .. n
        BY <3>2
      <4>2. Start(s, i) \in Nat /\ Len(s[i]) \in Nat
        BY <2>5, <4>1, LenProperties
      <4>3. /\ Start(s, i) + Len(s[i]) <= Len(v)
            /\ \A j \in 1 .. Len(s[i]) : v[Start(s, i) + j] = s[i][j]
        BY <2>1, <4>1
      <4>4. ASSUME NEW j \in 1 .. Len(s[i]) PROVE w[Start(s, i) + j] = s[i][j]
        <5>. DEFINE x == Start(s, i) + j
        <5>1. x \in 1 .. Len(v)
          <6>1. Len(v) \in Nat /\ Start(s, i) + Len(s[i]) <= Len(v)
            BY <2>3, <4>3
          <6>. QED
            BY ONLY <4>2, <6>1, j \in 1 .. Len(s[i])
        <5>2. v[x] = s[i][j]
          BY <4>3
        <5>. HIDE DEF x
        <5>3. w[x] = v[x]
          BY <2>3, <5>1
        <5>. QED
          BY <5>2, <5>3 DEF x
      <4>5. Start(s, i) + Len(s[i]) <= Len(w)
        BY <2>3, <4>2, <4>3
      <4>. QED
        BY <4>4, <4>5
    <3>. QED
      BY <3>1, <3>2
  <2>. QED
    BY <2>3, <2>4, <2>6 DEF JoinFacts, Chain, w
<1>3. JoinFacts(s, n, Joining!FoldLeft(Chain, <<>>, s))
  BY <1>1, <1>2, Joining!FoldInvariant
<1>. QED
  BY <1>3, JoinedIsFold DEF JoinFacts

-----------------------------------------------------------------------------
(* Fields and their two letters.                                           *)

\* What each pair of letters is parsed as.
LEMMA ParseFieldCases ==
  ASSUME NEW a, NEW b
  PROVE  /\ a = "b" /\ b = "1" => ParseField(a, b) = [type |-> "Boolean", size |-> 1]
         /\ a = "f" /\ b = "4" => ParseField(a, b) = [type |-> "Float", size |-> 4]
         /\ a = "i" /\ b \in {"1", "2", "4"} =>
              ParseField(a, b) = [type |-> "Signed", size |-> Sizes[b]]
         /\ a = "u" /\ b \in {"1", "2", "4"} =>
              ParseField(a, b) = [type |-> "Unsigned", size |-> Sizes[b]]
         /\ \/ a = "b" /\ b = "1"
            \/ a = "f" /\ b = "4"
            \/ a \in {"i", "u"} /\ b \in {"1", "2", "4"}
            \/ ParseField(a, b) = Invalid
<1>1. DOMAIN Sizes = {"1", "2", "4"}
  BY DEF Sizes
<1>2. CASE a = "b" /\ b = "1"
  <2>1. ParseField(a, b) = [type |-> "Boolean", size |-> 1]
    BY <1>2 DEF ParseField
  <2>. QED
    BY <1>2, <2>1
<1>3. CASE a = "f" /\ b = "4"
  <2>1. ParseField(a, b) = [type |-> "Float", size |-> 4]
    BY <1>3 DEF ParseField
  <2>. QED
    BY <1>3, <2>1
<1>4. CASE a = "i" /\ b \in {"1", "2", "4"}
  <2>1. ParseField(a, b) = [type |-> "Signed", size |-> Sizes[b]]
    BY <1>1, <1>4 DEF ParseField
  <2>. QED
    BY <1>4, <2>1
<1>5. CASE a = "u" /\ b \in {"1", "2", "4"}
  <2>1. ParseField(a, b) = [type |-> "Unsigned", size |-> Sizes[b]]
    BY <1>1, <1>5 DEF ParseField
  <2>. QED
    BY <1>5, <2>1
<1>6. CASE /\ ~(a = "b" /\ b = "1") /\ ~(a = "f" /\ b = "4")
           /\ ~(a = "i" /\ b \in {"1", "2", "4"})
           /\ ~(a = "u" /\ b \in {"1", "2", "4"})
  <2>1. ParseField(a, b) = Invalid
    BY <1>1, <1>6 DEF ParseField
  <2>. QED
    BY <1>6, <2>1
<1>. QED
  BY <1>2, <1>3, <1>4, <1>5, <1>6

LEMMA SizeLetters ==
  /\ Sizes["1"] = 1 /\ Sizes["2"] = 2 /\ Sizes["4"] = 4
  /\ SizeLetter[1] = "1" /\ SizeLetter[2] = "2" /\ SizeLetter[4] = "4"
<1>1. Sizes["1"] = 1 /\ Sizes["2"] = 2 /\ Sizes["4"] = 4
  BY DEF Sizes
<1>2. SizeLetter[1] = "1" /\ SizeLetter[2] = "2" /\ SizeLetter[4] = "4"
  BY DEF SizeLetter
<1>. QED
  BY <1>1, <1>2

LEMMA FieldForms ==
  ASSUME NEW f \in Fields
  PROVE  \/ f = [type |-> "Boolean", size |-> 1]
         \/ f = [type |-> "Float", size |-> 4]
         \/ \E n \in {1, 2, 4} : f = [type |-> "Signed", size |-> n]
         \/ \E n \in {1, 2, 4} : f = [type |-> "Unsigned", size |-> n]
<1>1. CASE f \in [type : {"Signed", "Unsigned"}, size : {1, 2, 4}]
  <2>1. f = [type |-> f.type, size |-> f.size] /\ f.size \in {1, 2, 4}
    BY <1>1
  <2>2. f.type = "Signed" \/ f.type = "Unsigned"
    BY <1>1
  <2>. QED
    BY <2>1, <2>2
<1>2. CASE f \in {[type |-> "Boolean", size |-> 1], [type |-> "Float", size |-> 4]}
  BY <1>2
<1>. QED
  BY <1>1, <1>2 DEF Fields

\* A field is parsed from its two letters.
LEMMA FieldIsParsed ==
  ASSUME NEW f \in Fields
  PROVE  /\ ParseField(TypeLetter[f.type], SizeLetter[f.size]) = f
         /\ TypeLetter[f.type] \in {"b", "f", "i", "u"}
         /\ SizeLetter[f.size] \in {"1", "2", "4"}
         /\ f # Invalid
<1>1. CASE f = [type |-> "Boolean", size |-> 1]
  <2>1. f.type = "Boolean" /\ f.size = 1
    BY <1>1
  <2>2. TypeLetter[f.type] = "b" /\ SizeLetter[f.size] = "1"
    BY <2>1, SizeLetters DEF TypeLetter
  <2>3. f # Invalid
    BY <2>1 DEF Invalid
  <2>. QED
    BY <1>1, <2>2, <2>3, ParseFieldCases
<1>2. CASE f = [type |-> "Float", size |-> 4]
  <2>1. f.type = "Float" /\ f.size = 4
    BY <1>2
  <2>2. TypeLetter[f.type] = "f" /\ SizeLetter[f.size] = "4"
    BY <2>1, SizeLetters DEF TypeLetter
  <2>3. f # Invalid
    BY <2>1 DEF Invalid
  <2>. QED
    BY <1>2, <2>2, <2>3, ParseFieldCases
<1>3. ASSUME NEW n \in {1, 2, 4},
             f = [type |-> "Signed", size |-> n] \/ f = [type |-> "Unsigned", size |-> n]
      PROVE  /\ ParseField(TypeLetter[f.type], SizeLetter[f.size]) = f
             /\ TypeLetter[f.type] \in {"b", "f", "i", "u"}
             /\ SizeLetter[f.size] \in {"1", "2", "4"}
             /\ f # Invalid
  <2>1. f.type \in {"Signed", "Unsigned"} /\ f.size = n
    BY <1>3
  <2>2. SizeLetter[n] \in {"1", "2", "4"} /\ Sizes[SizeLetter[n]] = n
    BY SizeLetters
  <2>3. TypeLetter["Signed"] = "i" /\ TypeLetter["Unsigned"] = "u"
    BY DEF TypeLetter
  <2>4. f # Invalid
    BY <2>1 DEF Invalid
  <2>5. CASE f.type = "Signed"
    <3>1. f = [type |-> "Signed", size |-> n]
      BY <1>3, <2>5
    <3>2. ParseField("i", SizeLetter[n]) = [type |-> "Signed", size |-> Sizes[SizeLetter[n]]]
      BY <2>2, ParseFieldCases
    <3>. QED
      BY <2>1, <2>2, <2>3, <2>4, <2>5, <3>1, <3>2
  <2>6. CASE f.type = "Unsigned"
    <3>1. f = [type |-> "Unsigned", size |-> n]
      BY <1>3, <2>6
    <3>2. ParseField("u", SizeLetter[n]) = [type |-> "Unsigned", size |-> Sizes[SizeLetter[n]]]
      BY <2>2, ParseFieldCases
    <3>. QED
      BY <2>1, <2>2, <2>3, <2>4, <2>6, <3>1, <3>2
  <2>. QED
    BY <2>1, <2>5, <2>6
<1>. QED
  BY <1>1, <1>2, <1>3, FieldForms

\* Two letters that are parsed are the letters of the field.
LEMMA LettersAreSpelled ==
  ASSUME NEW a, NEW b, ParseField(a, b) # Invalid
  PROVE  /\ ParseField(a, b) \in Fields
         /\ TypeLetter[ParseField(a, b).type] = a
         /\ SizeLetter[ParseField(a, b).size] = b
<1>. DEFINE f == ParseField(a, b)
<1>1. CASE a = "b" /\ b = "1"
  <2>1. f = [type |-> "Boolean", size |-> 1]
    BY <1>1, ParseFieldCases
  <2>2. f.type = "Boolean" /\ f.size = 1
    BY <2>1
  <2>3. f \in Fields
    BY <2>1 DEF Fields
  <2>. QED
    BY <1>1, <2>2, <2>3, SizeLetters DEF TypeLetter
<1>2. CASE a = "f" /\ b = "4"
  <2>1. f = [type |-> "Float", size |-> 4]
    BY <1>2, ParseFieldCases
  <2>2. f.type = "Float" /\ f.size = 4
    BY <2>1
  <2>3. f \in Fields
    BY <2>1 DEF Fields
  <2>. QED
    BY <1>2, <2>2, <2>3, SizeLetters DEF TypeLetter
<1>3. CASE a = "i" /\ b \in {"1", "2", "4"}
  <2>1. f = [type |-> "Signed", size |-> Sizes[b]]
    BY <1>3, ParseFieldCases
  <2>2. f.type = "Signed" /\ f.size = Sizes[b] /\ Sizes[b] \in {1, 2, 4}
    BY <1>3, <2>1, SizeLetters
  <2>3. f \in Fields
    BY <2>1, <2>2 DEF Fields
  <2>4. SizeLetter[f.size] = b
    BY <1>3, <2>2, SizeLetters
  <2>. QED
    BY <1>3, <2>2, <2>3, <2>4 DEF TypeLetter
<1>4. CASE a = "u" /\ b \in {"1", "2", "4"}
  <2>1. f = [type |-> "Unsigned", size |-> Sizes[b]]
    BY <1>4, ParseFieldCases
  <2>2. f.type = "Unsigned" /\ f.size = Sizes[b] /\ Sizes[b] \in {1, 2, 4}
    BY <1>4, <2>1, SizeLetters
  <2>3. f \in Fields
    BY <2>1, <2>2 DEF Fields
  <2>4. SizeLetter[f.size] = b
    BY <1>4, <2>2, SizeLetters
  <2>. QED
    BY <1>4, <2>2, <2>3, <2>4 DEF TypeLetter
<1>. QED
  BY <1>1, <1>2, <1>3, <1>4, ParseFieldCases

-----------------------------------------------------------------------------
(* Names.                                                                  *)

\* The fields of a structure as Spelling joins them.
Spelled(fields) == [i \in DOMAIN fields |-> FieldSpelling(fields[i])]

LEMMA SpelledField ==
  ASSUME NEW f \in Fields
  PROVE  /\ FieldSpelling(f) \in Seq(Symbols)
         /\ Len(FieldSpelling(f)) = 2
         /\ FieldSpelling(f)[1] = TypeLetter[f.type]
         /\ FieldSpelling(f)[2] = SizeLetter[f.size]
<1>1. TypeLetter[f.type] \in Symbols /\ SizeLetter[f.size] \in Symbols
  BY FieldIsParsed DEF Symbols
<1>. QED
  BY <1>1 DEF FieldSpelling

\* The letters of the i-th field are the i-th pair.
LEMMA SpelledFields ==
  ASSUME NEW fields, NEW n \in Nat, DOMAIN fields = 1 .. n,
         \A i \in 1 .. n : fields[i] \in Fields
  PROVE  /\ Joined(Spelled(fields)) \in Seq(Symbols)
         /\ Len(Joined(Spelled(fields))) = 2 * n
         /\ \A i \in 1 .. n :
              /\ Joined(Spelled(fields))[2 * i - 1] = TypeLetter[fields[i].type]
              /\ Joined(Spelled(fields))[2 * i] = SizeLetter[fields[i].size]
<1>. DEFINE s == Spelled(fields)
<1>1. /\ DOMAIN s = 1 .. n
      /\ \A i \in 1 .. n : s[i] = FieldSpelling(fields[i])
  BY DEF Spelled
<1>2. \A i \in 1 .. n : /\ s[i] \in Seq(Symbols) /\ Len(s[i]) = 2
                        /\ s[i][1] = TypeLetter[fields[i].type]
                        /\ s[i][2] = SizeLetter[fields[i].size]
  BY <1>1, SpelledField
<1>. HIDE DEF s
<1>3. ASSUME NEW k \in 1 .. n + 1
      PROVE  Start(s, k) = 2 * (k - 1)
  <2>. DEFINE L == [j \in 1 .. k - 1 |-> Len(s[j])]
  <2>1. k - 1 \in Nat /\ DOMAIN L = 1 .. k - 1
    OBVIOUS
  <2>2. \A i \in 1 .. k - 1 : L[i] = 2
    <3>1. \A i \in 1 .. k - 1 : i \in 1 .. n /\ L[i] = Len(s[i])
      OBVIOUS
    <3>. QED
      BY <1>2, <3>1
  <2>. HIDE DEF L
  <2>3. Total(L) = 2 * (k - 1)
    BY <2>1, <2>2, TotalFacts
  <2>. QED
    BY <2>3 DEF Start, L
<1>4. /\ Joined(s) \in Seq(Symbols)
      /\ Len(Joined(s)) = Start(s, n + 1)
      /\ \A i \in 1 .. n :
           \A j \in 1 .. Len(s[i]) : Joined(s)[Start(s, i) + j] = s[i][j]
  BY <1>1, <1>2, JoinedProperties
<1>5. Len(Joined(s)) = 2 * n
  BY <1>3, <1>4
<1>6. ASSUME NEW i \in 1 .. n
      PROVE  /\ Joined(s)[2 * i - 1] = TypeLetter[fields[i].type]
             /\ Joined(s)[2 * i] = SizeLetter[fields[i].size]
  <2>1. Start(s, i) = 2 * (i - 1)
    BY <1>3
  <2>2. Start(s, i) + 1 = 2 * i - 1 /\ Start(s, i) + 2 = 2 * i
    BY <2>1
  <2>3. 1 \in 1 .. Len(s[i]) /\ 2 \in 1 .. Len(s[i])
    BY <1>2
  <2>4. /\ Joined(s)[Start(s, i) + 1] = s[i][1]
        /\ Joined(s)[Start(s, i) + 2] = s[i][2]
    BY <1>4, <2>3
  <2>. QED
    BY <1>2, <2>2, <2>4
<1>. QED
  BY <1>4, <1>5, <1>6 DEF s

\* Structures of any number of fields.
AnyStructures == [has_u32_us_time : BOOLEAN, fields : Seq(Fields)]

LEMMA StructuresAreSome == Structures \subseteq AnyStructures
<1>1. ASSUME NEW n \in 0 .. 2, NEW F \in [1 .. n -> Fields]
      PROVE  F \in Seq(Fields)
  <2>1. n \in Nat
    OBVIOUS
  <2>. QED
    BY <2>1, <1>1, SeqDef
<1>2. UNION {[1 .. n -> Fields] : n \in 0 .. 2} \subseteq Seq(Fields)
  BY <1>1
<1>. QED
  BY <1>2 DEF Structures, AnyStructures

LEMMA StructureFields ==
  ASSUME NEW s \in AnyStructures
  PROVE  /\ s = [has_u32_us_time |-> s.has_u32_us_time, fields |-> s.fields]
         /\ s.has_u32_us_time \in BOOLEAN
         /\ Len(s.fields) \in Nat /\ DOMAIN s.fields = 1 .. Len(s.fields)
         /\ s.fields = [i \in 1 .. Len(s.fields) |-> s.fields[i]]
         /\ \A i \in 1 .. Len(s.fields) : s.fields[i] \in Fields
<1>1. /\ s = [has_u32_us_time |-> s.has_u32_us_time, fields |-> s.fields]
      /\ s.has_u32_us_time \in BOOLEAN /\ s.fields \in Seq(Fields)
  BY DEF AnyStructures
<1>2. /\ Len(s.fields) \in Nat /\ DOMAIN s.fields = 1 .. Len(s.fields)
      /\ s.fields \in [1 .. Len(s.fields) -> Fields]
  BY <1>1, LenProperties
<1>. QED
  BY <1>1, <1>2

\* The steps of parse_scope_packet_structure: what is left after the time, and
\* the fields that its pairs of letters give.
Timed(format) == IsPrefix(<<"t", "4">>, format)

ToParse(format) ==
  IF Timed(format) THEN SubSeq(format, 3, Len(format)) ELSE format

ParsedFields(to_parse) ==
  [i \in 1 .. Len(to_parse) \div 2 |-> ParseField(to_parse[2 * i - 1], to_parse[2 * i])]

LEMMA ParseSteps ==
  ASSUME NEW format
  PROVE  parse_scope_packet_structure(format) =
           IF \E i \in DOMAIN ParsedFields(ToParse(format)) :
                ParsedFields(ToParse(format))[i] = Invalid
           THEN Nothing
           ELSE [has_u32_us_time |-> Timed(format),
                 fields |-> ParsedFields(ToParse(format))]
BY DEF parse_scope_packet_structure, ParsedFields, ToParse, Timed

LEMMA TimedMeans ==
  ASSUME NEW C, NEW format \in Seq(C)
  PROVE  Timed(format) <=> 2 <= Len(format) /\ format[1] = "t" /\ format[2] = "4"
<1>. DEFINE t4 == <<"t", "4">>
<1>1. Len(t4) = 2 /\ t4[1] = "t" /\ t4[2] = "4"
  OBVIOUS
<1>2. Len(format) \in Nat
  OBVIOUS
<1>3. CASE 2 <= Len(format)
  <2>. DEFINE a == SubSeq(t4, 1, 2)
              b == SubSeq(format, 1, 2)
  <2>1. a = [i \in 1 .. 2 |-> t4[i]]
    OBVIOUS
  <2>2. b = [i \in 1 .. 2 |-> format[i]]
    BY <1>3
  <2>3. Timed(format) <=> a = b
    BY <1>1, <1>2, <1>3 DEF Timed, IsPrefix
  <2>4. a = b <=> t4[1] = format[1] /\ t4[2] = format[2]
    <3>1. 1 .. 2 = {1, 2}
      OBVIOUS
    <3>2. a = b => t4[1] = format[1] /\ t4[2] = format[2]
      <4>1. a[1] = t4[1] /\ a[2] = t4[2] /\ b[1] = format[1] /\ b[2] = format[2]
        BY <2>1, <2>2, <3>1
      <4>. HIDE DEF a, b
      <4>. QED
        BY <4>1
    <3>3. t4[1] = format[1] /\ t4[2] = format[2] => a = b
      BY <2>1, <2>2, <3>1
    <3>. QED
      BY <3>2, <3>3
  <2>. QED
    BY <1>1, <1>3, <2>3, <2>4
<1>4. CASE ~(2 <= Len(format))
  BY <1>1, <1>2, <1>4 DEF Timed, IsPrefix
<1>. QED
  BY <1>3, <1>4

\* The name of a structure gives the structure (parse_scope_packet_structure),
\* whatever its number of fields.
THEOREM SpellingIsParsed ==
  ASSUME NEW t \in AnyStructures
  PROVE  parse_scope_packet_structure(Spelling(t)) = t
<1>. DEFINE n == Len(t.fields)
            p == Joined(Spelled(t.fields))
            format == Spelling(t)
<1>1. /\ n \in Nat /\ DOMAIN t.fields = 1 .. n
      /\ t.fields = [i \in 1 .. n |-> t.fields[i]]
      /\ \A i \in 1 .. n : t.fields[i] \in Fields
      /\ t.has_u32_us_time \in BOOLEAN
      /\ t = [has_u32_us_time |-> t.has_u32_us_time, fields |-> t.fields]
  BY StructureFields
<1>2. /\ p \in Seq(Symbols) /\ Len(p) = 2 * n
      /\ \A i \in 1 .. n : /\ p[2 * i - 1] = TypeLetter[t.fields[i].type]
                           /\ p[2 * i] = SizeLetter[t.fields[i].size]
  BY <1>1, SpelledFields
<1>3. format = (IF t.has_u32_us_time THEN <<"t", "4">> ELSE <<>>) \o p
  BY DEF Spelling, Spelled
<1>. HIDE DEF p, format, n
<1>4. Timed(format) = t.has_u32_us_time /\ ToParse(format) = p
  <2>1. CASE t.has_u32_us_time
    <3>1. <<"t", "4">> \in Seq(Symbols) /\ Len(<<"t", "4">>) = 2
      BY DEF Symbols
    <3>2. format = <<"t", "4">> \o p
      BY <1>3, <2>1
    <3>3. /\ format \in Seq(Symbols) /\ Len(format) = 2 + Len(p) /\ Len(p) \in Nat
          /\ format[1] = "t" /\ format[2] = "4"
      BY <1>2, <3>1, <3>2
    <3>4. Timed(format)
      BY <3>3, TimedMeans
    <3>5. SubSeq(format, 3, Len(format)) = p
      <4>1. CASE Len(p) = 0
        <5>1. p = <<>>
          BY <1>2, <4>1
        <5>2. SubSeq(format, 3, Len(format)) = <<>>
          BY <3>3, <4>1, SubSeqEmpty
        <5>. QED
          BY <5>1, <5>2
      <4>2. CASE Len(p) # 0
        <5>1. 3 \in 2 + 1 .. 2 + Len(p) /\ 2 + Len(p) \in 2 + 1 .. 2 + Len(p)
          BY <3>3, <4>2
        <5>2. SubSeq(<<"t", "4">> \o p, 3, 2 + Len(p)) = SubSeq(p, 3 - 2, 2 + Len(p) - 2)
          BY <1>2, <3>1, <5>1, SubSeqOfConcat2
        <5>3. SubSeq(p, 1, Len(p)) = p
          BY <1>2, SubSeqFull
        <5>. QED
          BY <3>2, <3>3, <5>2, <5>3
      <4>. QED
        BY <4>1, <4>2
    <3>. QED
      BY <2>1, <3>4, <3>5 DEF ToParse
  <2>2. CASE ~t.has_u32_us_time
    <3>1. format = p
      BY <1>2, <1>3, <2>2, ConcatEmptySeq
    <3>2. ~Timed(p)
      <4>1. CASE n = 0
        <5>1. Len(p) = 0
          BY <1>2, <4>1
        <5>2. Timed(p) => 2 <= Len(p)
          BY <1>2, TimedMeans
        <5>. QED
          BY <5>1, <5>2
      <4>2. CASE n # 0
        <5>1. 1 \in 1 .. n
          BY <1>1, <4>2
        <5>2. p[2 * 1 - 1] = TypeLetter[t.fields[1].type]
          BY <1>2, <5>1
        <5>3. TypeLetter[t.fields[1].type] # "t"
          BY <1>1, <5>1, FieldIsParsed
        <5>4. p[1] # "t"
          BY <5>2, <5>3
        <5>. QED
          BY <1>2, <5>4, TimedMeans
      <4>. QED
        BY <4>1, <4>2
    <3>3. ToParse(p) = p
      BY <3>2 DEF ToParse
    <3>. QED
      BY <1>1, <2>2, <3>1, <3>2, <3>3 DEF Timed, IsPrefix
  <2>. QED
    BY <2>1, <2>2
<1>5. ParsedFields(p) = t.fields
  <2>1. Len(p) \div 2 = n
    BY <1>1, <1>2
  <2>2. \A i \in 1 .. n : ParseField(p[2 * i - 1], p[2 * i]) = t.fields[i]
    BY <1>1, <1>2, FieldIsParsed
  <2>3. ParsedFields(p) = [i \in 1 .. n |-> t.fields[i]]
    BY <2>1, <2>2 DEF ParsedFields
  <2>. QED
    BY <1>1, <2>3
<1>6. \A i \in DOMAIN t.fields : t.fields[i] # Invalid
  BY <1>1, FieldIsParsed
<1>7. parse_scope_packet_structure(format) =
        [has_u32_us_time |-> t.has_u32_us_time, fields |-> t.fields]
  BY <1>4, <1>5, <1>6, ParseSteps
<1>. QED
  BY <1>1, <1>7 DEF format

\* A name that is accepted spells the structure it gives, but for a character
\* left over at its end.
THEOREM AcceptedIsSpelled ==
  ASSUME NEW C, NEW format \in Seq(C),
         parse_scope_packet_structure(format) # Nothing
  PROVE  /\ parse_scope_packet_structure(format) \in AnyStructures
         /\ SubSeq(format, 1, 2 * (Len(format) \div 2)) =
              Spelling(parse_scope_packet_structure(format))
<1>. DEFINE q == ToParse(format)
            n == Len(q) \div 2
            F == ParsedFields(q)
            s == parse_scope_packet_structure(format)
            p == Joined(Spelled(F))
            skip == IF Timed(format) THEN 2 ELSE 0
<1>1. /\ s = [has_u32_us_time |-> Timed(format), fields |-> F]
      /\ \A i \in DOMAIN F : F[i] # Invalid
  BY ParseSteps
<1>2. /\ Len(format) \in Nat /\ q \in Seq(C) /\ Len(q) = Len(format) - skip
      /\ Len(q) \in Nat
      /\ \A i \in 1 .. Len(q) : q[i] = format[skip + i]
  <2>1. Len(format) \in Nat
    OBVIOUS
  <2>2. CASE Timed(format)
    <3>1. 2 <= Len(format) /\ q = SubSeq(format, 3, Len(format)) /\ skip = 2
      BY <2>2, TimedMeans DEF ToParse
    <3>2. \A i \in 3 .. Len(format) : format[i] \in C
      BY <2>1
    <3>3. /\ SubSeq(format, 3, Len(format)) \in Seq(C)
          /\ Len(SubSeq(format, 3, Len(format))) =
               IF 3 <= Len(format) THEN Len(format) - 3 + 1 ELSE 0
          /\ \A i \in 1 .. Len(format) - 3 + 1 :
               SubSeq(format, 3, Len(format))[i] = format[3 + i - 1]
      BY <2>1, <3>2, SubSeqProperties
    <3>4. q \in Seq(C) /\ Len(q) = Len(format) - 2
      <4>1. q \in Seq(C)
        BY <3>1, <3>3
      <4>2. Len(q) = IF 3 <= Len(format) THEN Len(format) - 3 + 1 ELSE 0
        BY <3>1, <3>3
      <4>3. Len(format) \in Nat /\ 2 <= Len(format)
        BY <2>1, <3>1
      <4>. HIDE DEF q, skip
      <4>4. Len(q) = Len(format) - 2
        <5>1. CASE 3 <= Len(format)
          <6>1. Len(q) = Len(format) - 3 + 1
            BY <4>2, <5>1
          <6>. QED
            BY <4>3, <6>1
        <5>2. CASE ~(3 <= Len(format))
          <6>0. \A x \in Nat : 2 <= x /\ ~(3 <= x) => x = 2
            OBVIOUS
          <6>1. Len(format) = 2
            BY <4>3, <5>2, <6>0
          <6>2. Len(q) = 0
            BY <4>2, <5>2, Zenon
          <6>. QED
            BY <6>1, <6>2
        <5>. QED
          BY <5>1, <5>2
      <4>. QED
        BY <4>1, <4>4
    <3>5. \A i \in 1 .. Len(q) : q[i] = format[2 + i]
      <4>1. SUFFICES ASSUME NEW i \in 1 .. Len(q) PROVE q[i] = format[2 + i]
        OBVIOUS
      <4>2. i \in 1 .. Len(format) - 3 + 1 /\ 3 + i - 1 = 2 + i
        BY <2>1, <3>4, <4>1
      <4>. QED
        BY <3>1, <3>3, <4>2
    <3>6. Len(q) \in Nat
      BY <2>1, <3>1, <3>4
    <3>. HIDE DEF q, skip
    <3>. QED
      BY <2>1, <3>1, <3>4, <3>5, <3>6
  <2>3. CASE ~Timed(format)
    BY <2>1, <2>3 DEF ToParse
  <2>. QED
    BY <2>2, <2>3
<1>. HIDE DEF q
<1>3. /\ n \in Nat /\ 2 * n <= Len(q) /\ Len(q) <= 2 * n + 1
      /\ DOMAIN F = 1 .. n
      /\ \A i \in 1 .. n : F[i] = ParseField(q[2 * i - 1], q[2 * i])
      /\ F = [i \in 1 .. n |-> F[i]]
  <2>1. n \in Nat /\ 2 * n <= Len(q) /\ Len(q) <= 2 * n + 1
    <3>1. Len(q) \in Nat
      BY <1>2
    <3>. QED
      BY <3>1
  <2>2. F = [i \in 1 .. n |-> ParseField(q[2 * i - 1], q[2 * i])]
    BY DEF ParsedFields
  <2>. HIDE DEF F, n
  <2>. QED
    BY <2>1, <2>2
<1>. HIDE DEF F, n
<1>4. \A i \in 1 .. n : /\ F[i] \in Fields
                        /\ TypeLetter[F[i].type] = q[2 * i - 1]
                        /\ SizeLetter[F[i].size] = q[2 * i]
  BY <1>1, <1>3, LettersAreSpelled
<1>5. s \in AnyStructures
  <2>1. F \in [1 .. n -> Fields]
    BY <1>3, <1>4
  <2>2. F \in Seq(Fields)
    BY <1>3, <2>1, SeqDef
  <2>3. Timed(format) \in BOOLEAN
    BY DEF Timed, IsPrefix
  <2>. QED
    BY <1>1, <2>2, <2>3 DEF AnyStructures
<1>6. /\ p \in Seq(Symbols) /\ Len(p) = 2 * n
      /\ \A i \in 1 .. n : p[2 * i - 1] = q[2 * i - 1] /\ p[2 * i] = q[2 * i]
  BY <1>3, <1>4, SpelledFields
<1>. HIDE DEF p
<1>7. \A x \in 1 .. 2 * n : p[x] = q[x]
  <2>1. SUFFICES ASSUME NEW x \in 1 .. 2 * n PROVE p[x] = q[x]
    OBVIOUS
  <2>2. \E i \in 1 .. n : x = 2 * i - 1 \/ x = 2 * i
    <3>1. x \in Int /\ 1 <= x /\ x <= 2 * n
      BY <1>3
    <3>. DEFINE i == (x + 1) \div 2
    <3>2. i \in Int /\ (x + 1 = 2 * i \/ x + 1 = 2 * i + 1)
      BY <3>1
    <3>. HIDE DEF i
    <3>3. i \in 1 .. n /\ (x = 2 * i - 1 \/ x = 2 * i)
      BY <1>3, <3>1, <3>2
    <3>. QED
      BY <3>3
  <2>. QED
    BY <1>6, <2>2
<1>8. Spelling(s) = (IF Timed(format) THEN <<"t", "4">> ELSE <<>>) \o p
  BY <1>1 DEF Spelling, Spelled, p
<1>9. SubSeq(format, 1, 2 * (Len(format) \div 2)) = Spelling(s)
  <2>. DEFINE m == 2 * (Len(format) \div 2)
              a == SubSeq(format, 1, m)
              b == Spelling(s)
              t4 == IF Timed(format) THEN <<"t", "4">> ELSE <<>>
  <2>1. m = 2 * n + skip /\ m \in Nat /\ m <= Len(format) /\ skip \in Nat
    <3>1. skip \in {0, 2}
      OBVIOUS
    <3>. HIDE DEF skip
    <3>. DEFINE h == Len(format) \div 2
    <3>2. h \in Int /\ 2 * h <= Len(format) /\ Len(format) <= 2 * h + 1
      BY <1>2
    <3>3. m = 2 * h
      OBVIOUS
    <3>. HIDE DEF h, m
    <3>4. /\ Len(q) \in Int /\ Len(format) \in Int
          /\ Len(q) = Len(format) - skip
      BY <1>2
    <3>5. n \in Int /\ n >= 0 /\ 2 * n <= Len(q) /\ Len(q) <= 2 * n + 1
      BY <1>3
    <3>. QED
      BY <3>1, <3>2, <3>3, <3>4, <3>5
  <2>2. Len(a) = m /\ \A x \in 1 .. m : a[x] = format[x]
    <3>1. a \in Seq(C) /\ Len(a) = (IF 1 <= m THEN m - 1 + 1 ELSE 0)
          /\ \A x \in 1 .. m - 1 + 1 : a[x] = format[1 + x - 1]
      <4>1. \A x \in 1 .. m : format[x] \in C
        BY <1>2, <2>1
      <4>. HIDE DEF m
      <4>. QED
        BY <2>1, <4>1, SubSeqProperties
    <3>. HIDE DEF a, m
    <3>. QED
      BY <2>1, <3>1
  <2>3. /\ t4 \in Seq(Symbols) /\ Len(t4) = skip
        /\ \A x \in 1 .. skip : t4[x] = format[x]
    <3>1. CASE Timed(format)
      <4>1. t4 = <<"t", "4">> /\ skip = 2
        BY <3>1
      <4>2. format[1] = "t" /\ format[2] = "4"
        BY <3>1, TimedMeans
      <4>3. <<"t", "4">> \in Seq(Symbols)
        BY DEF Symbols
      <4>4. Len(t4) = 2 /\ t4[1] = "t" /\ t4[2] = "4"
        BY <4>1
      <4>5. \A x \in 1 .. 2 : x = 1 \/ x = 2
        OBVIOUS
      <4>6. <<"t", "4">>[1] = "t" /\ <<"t", "4">>[2] = "4"
        OBVIOUS
      <4>. HIDE DEF t4, skip
      <4>. QED
        BY <4>1, <4>2, <4>3, <4>4, <4>5
    <3>2. CASE ~Timed(format)
      BY <3>2
    <3>. QED
      BY <3>1, <3>2
  <2>. HIDE DEF t4
  <2>4. b = t4 \o p
    BY <1>8 DEF t4
  <2>5. /\ b \in Seq(Symbols) /\ Len(b) = m
        /\ \A x \in 1 .. m : b[x] = IF x <= skip THEN t4[x] ELSE p[x - skip]
    <3>1. Len(t4) = skip /\ Len(p) = 2 * n /\ skip + 2 * n = m
      BY <1>3, <1>6, <2>1, <2>3
    <3>. HIDE DEF b, skip
    <3>2. /\ b \in Seq(Symbols) /\ Len(b) = Len(t4) + Len(p)
          /\ \A x \in 1 .. Len(t4) + Len(p) :
               b[x] = IF x <= Len(t4) THEN t4[x] ELSE p[x - Len(t4)]
      BY <1>6, <2>3, <2>4, ConcatProperties
    <3>. HIDE DEF m
    <3>. QED
      BY <3>1, <3>2
  <2>6. a = [x \in 1 .. m |-> a[x]] /\ b = [x \in 1 .. m |-> b[x]]
    <3>1. b = [x \in 1 .. m |-> b[x]]
      BY <2>1, <2>5
    <3>2. a = [x \in 1 .. m |-> format[x]]
      BY <2>1
    <3>. QED
      BY <2>2, <3>1, <3>2
  <2>. HIDE DEF a, b, m, skip, s
  <2>7. ASSUME NEW x \in 1 .. m
        PROVE  a[x] = b[x]
    <3>1. CASE x <= skip
      BY <2>1, <2>2, <2>3, <2>5, <3>1
    <3>2. CASE ~(x <= skip)
      <4>1. x - skip \in 1 .. 2 * n /\ x - skip \in 1 .. Len(q) /\ skip + (x - skip) = x
        BY <1>3, <2>1, <3>2
      <4>2. p[x - skip] = q[x - skip] /\ q[x - skip] = format[skip + (x - skip)]
        BY <1>2, <1>7, <4>1
      <4>. QED
        BY <2>2, <2>5, <3>2, <4>1, <4>2
    <3>. QED
      BY <3>1, <3>2
  <2>. QED
    BY <2>6, <2>7 DEF a, b, m
<1>. QED
  BY <1>5, <1>9

THEOREM NamesSpell ==
  ASSUME NEW C, NEW format \in Seq(C)
  PROVE  SpellsWhatItGives(format)
<1>. DEFINE s == parse_scope_packet_structure(format)
<1>1. ASSUME NEW t \in Structures, Spelling(t) = format
      PROVE  s = t
  <2>1. t \in AnyStructures
    BY StructuresAreSome
  <2>. QED
    BY <1>1, <2>1, SpellingIsParsed
<1>2. ASSUME s # Nothing
      PROVE  /\ \A i \in DOMAIN s.fields : s.fields[i] \in Fields
             /\ SubSeq(format, 1, 2 * (Len(format) \div 2)) = Spelling(s)
  <2>1. s \in AnyStructures
    BY <1>2, AcceptedIsSpelled
  <2>2. \A i \in DOMAIN s.fields : s.fields[i] \in Fields
    BY <2>1, StructureFields
  <2>. QED
    BY <1>2, <2>2, AcceptedIsSpelled
<1>. QED
  BY <1>1, <1>2 DEF SpellsWhatItGives

-----------------------------------------------------------------------------
(* The list of channels.                                                   *)

HeadersUpTo(lines, k) == {h \in 1 .. k : lines[h].type = "header"}

LastHeader(lines, k) == Max(HeadersUpTo(lines, k))

\* The lines up to the k-th that describe a channel of a known direction.
ListedUpTo(lines, k) ==
  {i \in 1 .. k : lines[i].type = "channel" /\ HeadersUpTo(lines, i) # {}}

Entry(lines, i) ==
  [id |-> lines[i].id, name |-> lines[i].name,
   direction |-> lines[LastHeader(lines, i)].name]

Entries(lines) ==
  {Entry(lines, i) : i \in {j \in DOMAIN lines : lines[j].type = "channel"}}

\* What the fold of parse_rtt_channels has found after the k-th line.
ChannelFacts(lines, k, found) ==
  (\A i \in DOMAIN lines : lines[i].type = "header" => lines[i].name # "None") =>
    /\ found.channels \in Seq(Entries(lines))
    /\ DOMAIN found = {"channels", "direction"}
    /\ found = [f \in DOMAIN found |-> found[f]]
    /\ Len(found.channels) = Cardinality(ListedUpTo(lines, k))
    /\ \A i \in ListedUpTo(lines, k) :
         found.channels[Cardinality(ListedUpTo(lines, i))] = Entry(lines, i)
    /\ HeadersUpTo(lines, k) = {} => found.direction = "None"
    /\ HeadersUpTo(lines, k) # {} =>
         found.direction = lines[LastHeader(lines, k)].name

NothingFound == [channels |-> <<>>, direction |-> "None"]

Listing == INSTANCE FoldFacts WITH op <- AddLine, base <- NothingFound, P <- ChannelFacts

LEMMA ParsedIsFold ==
  ASSUME NEW lines
  PROVE  parse_rtt_channels(lines) = Listing!FoldLeft(AddLine, NothingFound, lines).channels
BY DEF parse_rtt_channels, NothingFound, FoldLeft, Listing!FoldLeft, MapThenFoldSet,
       Listing!MapThenFoldSet, Max, Listing!Max

LEMMA LastHeaderProperties ==
  ASSUME NEW lines, NEW k \in Nat, HeadersUpTo(lines, k) # {}
  PROVE  /\ LastHeader(lines, k) \in HeadersUpTo(lines, k)
         /\ \A h \in HeadersUpTo(lines, k) : h <= LastHeader(lines, k)
<1>1. \A T : Listing!Max(T) = Max(T)
  BY DEF Listing!Max, Max
<1>2. HeadersUpTo(lines, k) \in SUBSET (1 .. k)
  BY DEF HeadersUpTo
<1>. QED
  BY <1>1, <1>2, Listing!GreatestIndex DEF LastHeader

LEMMA ListedIsFinite ==
  ASSUME NEW lines, NEW k \in Nat
  PROVE  /\ IsFiniteSet(ListedUpTo(lines, k))
         /\ Cardinality(ListedUpTo(lines, k)) \in Nat
         /\ \A i \in ListedUpTo(lines, k) :
              Cardinality(ListedUpTo(lines, i)) \in 1 .. Cardinality(ListedUpTo(lines, k))
<1>1. ASSUME NEW j \in Nat
      PROVE  IsFiniteSet(ListedUpTo(lines, j)) /\ Cardinality(ListedUpTo(lines, j)) \in Nat
  <2>1. IsFiniteSet(1 .. j)
    BY FS_Interval
  <2>2. ListedUpTo(lines, j) \subseteq 1 .. j
    BY DEF ListedUpTo
  <2>3. IsFiniteSet(ListedUpTo(lines, j))
    BY <2>1, <2>2, FS_Subset
  <2>. QED
    BY <2>3, FS_CardinalityType
<1>2. ASSUME NEW i \in ListedUpTo(lines, k)
      PROVE  Cardinality(ListedUpTo(lines, i)) \in 1 .. Cardinality(ListedUpTo(lines, k))
  <2>1. i \in 1 .. k /\ i \in Nat /\ i \in ListedUpTo(lines, i)
    BY DEF ListedUpTo
  <2>2. ListedUpTo(lines, i) \subseteq ListedUpTo(lines, k)
    BY <2>1 DEF ListedUpTo
  <2>3. Cardinality(ListedUpTo(lines, i)) <= Cardinality(ListedUpTo(lines, k))
    BY <1>1, <2>2, FS_Subset
  <2>4. Cardinality(ListedUpTo(lines, i)) # 0
    BY <1>1, <2>1, FS_EmptySet
  <2>. QED
    BY <1>1, <2>1, <2>3, <2>4
<1>. QED
  BY <1>1, <1>2

\* What a line that is no header adds.
LEMMA OneMoreLine ==
  ASSUME NEW lines, NEW k \in Nat, k # 0
  PROVE  /\ lines[k].type # "header" =>
              HeadersUpTo(lines, k) = HeadersUpTo(lines, k - 1)
         /\ lines[k].type = "channel" /\ HeadersUpTo(lines, k) # {} =>
              /\ ListedUpTo(lines, k) = ListedUpTo(lines, k - 1) \cup {k}
              /\ k \notin ListedUpTo(lines, k - 1)
         /\ ~(lines[k].type = "channel" /\ HeadersUpTo(lines, k) # {}) =>
              ListedUpTo(lines, k) = ListedUpTo(lines, k - 1)
<1>1. 1 .. k = (1 .. k - 1) \cup {k} /\ k \notin 1 .. k - 1
  OBVIOUS
<1>2. lines[k].type # "header" => HeadersUpTo(lines, k) = HeadersUpTo(lines, k - 1)
  BY <1>1 DEF HeadersUpTo
<1>3. /\ lines[k].type = "channel" /\ HeadersUpTo(lines, k) # {} =>
           /\ ListedUpTo(lines, k) = ListedUpTo(lines, k - 1) \cup {k}
           /\ k \notin ListedUpTo(lines, k - 1)
      /\ ~(lines[k].type = "channel" /\ HeadersUpTo(lines, k) # {}) =>
           ListedUpTo(lines, k) = ListedUpTo(lines, k - 1)
  BY <1>1 DEF ListedUpTo
<1>. QED
  BY <1>2, <1>3

LEMMA HeaderIsLast ==
  ASSUME NEW lines, NEW k \in Nat, k # 0, lines[k].type = "header"
  PROVE  HeadersUpTo(lines, k) # {} /\ LastHeader(lines, k) = k
<1>1. k \in HeadersUpTo(lines, k)
  BY DEF HeadersUpTo
<1>2. \A h \in HeadersUpTo(lines, k) : h \in Nat /\ h <= k
  BY DEF HeadersUpTo
<1>3. LastHeader(lines, k) \in Nat /\ LastHeader(lines, k) <= k /\ k <= LastHeader(lines, k)
  BY <1>1, <1>2, LastHeaderProperties
<1>. QED
  BY <1>1, <1>3

\* Every line keeps the claim.
LEMMA LineIsAdded ==
  ASSUME NEW lines, NEW n \in Nat, DOMAIN lines = 1 .. n, NEW k \in 1 .. n,
         NEW found, ChannelFacts(lines, k - 1, found)
  PROVE  ChannelFacts(lines, k, AddLine(found, lines[k]))
<1>. DEFINE new == AddLine(found, lines[k])
            line == lines[k]
            entry == [id |-> line.id, name |-> line.name, direction |-> found.direction]
<1>. SUFFICES ASSUME \A i \in DOMAIN lines :
                       lines[i].type = "header" => lines[i].name # "None"
              PROVE  /\ new.channels \in Seq(Entries(lines))
                     /\ DOMAIN new = {"channels", "direction"}
                     /\ new = [f \in DOMAIN new |-> new[f]]
                     /\ Len(new.channels) = Cardinality(ListedUpTo(lines, k))
                     /\ \A i \in ListedUpTo(lines, k) :
                          new.channels[Cardinality(ListedUpTo(lines, i))] = Entry(lines, i)
                     /\ HeadersUpTo(lines, k) = {} => new.direction = "None"
                     /\ HeadersUpTo(lines, k) # {} =>
                          new.direction = lines[LastHeader(lines, k)].name
  BY DEF ChannelFacts
<1>1. /\ found.channels \in Seq(Entries(lines))
      /\ DOMAIN found = {"channels", "direction"}
      /\ found = [f \in DOMAIN found |-> found[f]]
      /\ Len(found.channels) = Cardinality(ListedUpTo(lines, k - 1))
      /\ \A i \in ListedUpTo(lines, k - 1) :
           found.channels[Cardinality(ListedUpTo(lines, i))] = Entry(lines, i)
      /\ HeadersUpTo(lines, k - 1) = {} => found.direction = "None"
      /\ HeadersUpTo(lines, k - 1) # {} =>
           found.direction = lines[LastHeader(lines, k - 1)].name
  BY DEF ChannelFacts
<1>2. k \in Nat /\ k # 0 /\ k - 1 \in Nat
  OBVIOUS
<1>3. HeadersUpTo(lines, k - 1) # {} => found.direction # "None"
  <2>1. SUFFICES ASSUME HeadersUpTo(lines, k - 1) # {} PROVE found.direction # "None"
    OBVIOUS
  <2>2. LastHeader(lines, k - 1) \in HeadersUpTo(lines, k - 1)
    BY <1>2, <2>1, LastHeaderProperties
  <2>3. /\ LastHeader(lines, k - 1) \in 1 .. n
        /\ lines[LastHeader(lines, k - 1)].type = "header"
    BY <1>2, <2>2 DEF HeadersUpTo
  <2>. QED
    BY <1>1, <2>1, <2>3
<1>4. CASE line.type = "header"
  <2>1. new = [found EXCEPT !.direction = line.name]
    BY <1>4 DEF AddLine
  <2>2. /\ new.channels = found.channels /\ new.direction = line.name
        /\ DOMAIN new = {"channels", "direction"}
        /\ new = [f \in DOMAIN new |-> new[f]]
    BY <1>1, <2>1
  <2>3. ListedUpTo(lines, k) = ListedUpTo(lines, k - 1)
    BY <1>2, <1>4, OneMoreLine
  <2>4. HeadersUpTo(lines, k) # {} /\ LastHeader(lines, k) = k
    BY <1>2, <1>4, HeaderIsLast
  <2>. HIDE DEF new
  <2>. QED
    BY <1>1, <2>2, <2>3, <2>4
<1>5. CASE line.type = "channel" /\ HeadersUpTo(lines, k - 1) # {}
  <2>0. line.type # "header"
    BY <1>5
  <2>1. new = [found EXCEPT !.channels = Append(@, entry)]
    BY <1>3, <1>5, <2>0 DEF AddLine
  <2>2. /\ new.channels = Append(found.channels, entry)
        /\ new.direction = found.direction
        /\ DOMAIN new = {"channels", "direction"}
        /\ new = [f \in DOMAIN new |-> new[f]]
    BY <1>1, <2>1
  <2>3. HeadersUpTo(lines, k) = HeadersUpTo(lines, k - 1)
    BY <1>2, <2>0, OneMoreLine
  <2>4. /\ ListedUpTo(lines, k) = ListedUpTo(lines, k - 1) \cup {k}
        /\ k \notin ListedUpTo(lines, k - 1)
    BY <1>2, <1>5, <2>3, OneMoreLine
  <2>5. LastHeader(lines, k) = LastHeader(lines, k - 1)
    BY <2>3 DEF LastHeader
  <2>6. entry = Entry(lines, k)
    BY <1>1, <1>5, <2>5 DEF Entry
  <2>7. Entry(lines, k) \in Entries(lines)
    BY <1>5 DEF Entries
  <2>. DEFINE c == Cardinality(ListedUpTo(lines, k - 1))
  <2>8. c \in Nat /\ Cardinality(ListedUpTo(lines, k)) = c + 1
    BY <1>2, <2>4, ListedIsFinite, FS_AddElement
  <2>. HIDE DEF new, entry
  <2>9. /\ new.channels \in Seq(Entries(lines))
        /\ Len(new.channels) = c + 1
        /\ \A x \in 1 .. c : new.channels[x] = found.channels[x]
        /\ new.channels[c + 1] = Entry(lines, k)
    BY <1>1, <2>2, <2>6, <2>7, <2>8, AppendProperties
  <2>10. \A i \in ListedUpTo(lines, k) :
           new.channels[Cardinality(ListedUpTo(lines, i))] = Entry(lines, i)
    <3>1. SUFFICES ASSUME NEW i \in ListedUpTo(lines, k)
                   PROVE  new.channels[Cardinality(ListedUpTo(lines, i))] = Entry(lines, i)
      OBVIOUS
    <3>2. CASE i = k
      BY <2>8, <2>9, <3>2
    <3>3. CASE i # k
      <4>1. i \in ListedUpTo(lines, k - 1)
        BY <2>4, <3>3
      <4>2. Cardinality(ListedUpTo(lines, i)) \in 1 .. c
        BY <1>2, <4>1, ListedIsFinite
      <4>. QED
        BY <1>1, <2>9, <4>1, <4>2
    <3>. QED
      BY <3>2, <3>3
  <2>. QED
    BY <1>1, <1>5, <2>2, <2>3, <2>5, <2>8, <2>9, <2>10
<1>6. CASE line.type # "header" /\ ~(line.type = "channel" /\ HeadersUpTo(lines, k - 1) # {})
  <2>1. HeadersUpTo(lines, k) = HeadersUpTo(lines, k - 1)
    BY <1>2, <1>6, OneMoreLine
  <2>2. ListedUpTo(lines, k) = ListedUpTo(lines, k - 1)
    BY <1>2, <1>6, <2>1, OneMoreLine
  <2>3. new = found
    <3>1. ~(line.type = "channel" /\ found.direction # "None")
      BY <1>1, <1>6
    <3>. QED
      BY <1>6, <3>1 DEF AddLine
  <2>4. LastHeader(lines, k) = LastHeader(lines, k - 1)
    BY <2>1 DEF LastHeader
  <2>. HIDE DEF new
  <2>. QED
    BY <1>1, <2>1, <2>2, <2>3, <2>4
<1>. QED
  BY <1>4, <1>5, <1>6

\* parse_rtt_channels lists every channel under a header, in order and with the
\* direction of the last header before it, whatever the other lines are.
THEOREM ChannelsAreListed ==
  ASSUME NEW lines, NEW n \in Nat, DOMAIN lines = 1 .. n,
         \A i \in 1 .. n : lines[i].type = "header" => lines[i].name # "None"
  PROVE  /\ parse_rtt_channels(lines) \in Seq(Entries(lines))
         /\ Len(parse_rtt_channels(lines)) = Cardinality(ListedUpTo(lines, n))
         /\ \A i \in ListedUpTo(lines, n) :
              parse_rtt_channels(lines)[Cardinality(ListedUpTo(lines, i))] = Entry(lines, i)
<1>1. ChannelFacts(lines, 0, NothingFound)
  <2>1. HeadersUpTo(lines, 0) = {} /\ ListedUpTo(lines, 0) = {}
    BY DEF HeadersUpTo, ListedUpTo
  <2>2. /\ NothingFound.channels = <<>> /\ NothingFound.direction = "None"
        /\ DOMAIN NothingFound = {"channels", "direction"}
        /\ NothingFound = [f \in DOMAIN NothingFound |-> NothingFound[f]]
    BY DEF NothingFound
  <2>3. <<>> \in Seq(Entries(lines)) /\ Len(<<>>) = 0
    OBVIOUS
  <2>. QED
    BY <2>1, <2>2, <2>3, FS_EmptySet DEF ChannelFacts
<1>2. ASSUME NEW k \in 1 .. n, NEW found, ChannelFacts(lines, k - 1, found)
      PROVE  ChannelFacts(lines, k, AddLine(found, lines[k]))
  BY <1>2, LineIsAdded
<1>3. ChannelFacts(lines, n, Listing!FoldLeft(AddLine, NothingFound, lines))
  BY <1>1, <1>2, Listing!FoldInvariant
<1>. QED
  BY <1>3, ParsedIsFold DEF ChannelFacts

-----------------------------------------------------------------------------
(* Numbers and their bytes.                                                *)

\* The integers from low on that are below high.
From(low, high) == {n \in Int : low <= n /\ n < high}

UnsignedOf(size) ==
  CASE size = 1 -> From(0, 256) [] size = 2 -> From(0, 65536)
    [] size = 4 -> From(0, 4294967296)

SignedOf(size) ==
  CASE size = 1 -> From(-128, 128) [] size = 2 -> From(-32768, 32768)
    [] size = 4 -> From(-2147483648, 2147483648)

IsByte(b) == b \in Int /\ 0 <= b /\ b < 256

\* So many integers.
AreIntegers(s, k) == DOMAIN s = 1 .. k /\ \A i \in 1 .. k : s[i] \in Int

LEMMA Ranges ==
  /\ UnsignedOf(1) = From(0, 256) /\ UnsignedOf(2) = From(0, 65536)
  /\ UnsignedOf(4) = From(0, 4294967296)
  /\ SignedOf(1) = From(-128, 128) /\ SignedOf(2) = From(-32768, 32768)
  /\ SignedOf(4) = From(-2147483648, 2147483648)
BY DEF UnsignedOf, SignedOf

Byte(n, i) == (n \div Power256[i]) % 256

LEMMA Powers ==
  /\ Power256[1] = 1 /\ Power256[2] = 256 /\ Power256[3] = 65536
  /\ Power256[4] = 16777216
BY DEF Power256

\* A number is its bytes and what is left above them.
Digits(n) ==
  /\ n = Byte(n, 1) + 256 * (n \div 256)
  /\ n \div 256 = Byte(n, 2) + 256 * (n \div 65536)
  /\ n \div 65536 = Byte(n, 3) + 256 * (n \div 16777216)
  /\ Byte(n, 4) = (n \div 16777216) % 256
  /\ IsByte(Byte(n, 1)) /\ IsByte(Byte(n, 2)) /\ IsByte(Byte(n, 3)) /\ IsByte(Byte(n, 4))

LEMMA NumberOfBytes ==
  ASSUME NEW n \in Int
  PROVE  Digits(n) /\ \A i \in 1 .. 4 : IsByte(Byte(n, i))
<1>1. \A i \in 1 .. 4 : i = 1 \/ i = 2 \/ i = 3 \/ i = 4
  OBVIOUS
<1>2. /\ Byte(n, 1) = n % 256
      /\ Byte(n, 2) = (n \div 256) % 256
      /\ Byte(n, 3) = (n \div 65536) % 256
      /\ Byte(n, 4) = (n \div 16777216) % 256
  <2>1. n \div 1 = n
    OBVIOUS
  <2>. QED
    BY <2>1, Powers DEF Byte
<1>3. \A m \in Int : IsByte(m % 256) /\ m \div 256 \in Int
                     /\ m = 256 * (m \div 256) + (m % 256)
  BY DEF IsByte
<1>4. n \div 65536 = (n \div 256) \div 256
  OBVIOUS
<1>5. n \div 16777216 = (n \div 65536) \div 256
  OBVIOUS
<1>6. n \div 256 \in Int /\ n \div 65536 \in Int /\ n \div 16777216 \in Int
  OBVIOUS
<1>7. IsByte(Byte(n, 1)) /\ IsByte(Byte(n, 2)) /\ IsByte(Byte(n, 3)) /\ IsByte(Byte(n, 4))
  BY <1>2, <1>3, <1>6
<1>8. \A i \in 1 .. 4 : IsByte(Byte(n, i))
  BY <1>1, <1>7
<1>9. n = Byte(n, 1) + 256 * (n \div 256)
  BY <1>2, <1>3
<1>10. n \div 256 = Byte(n, 2) + 256 * (n \div 65536)
  BY <1>2, <1>3, <1>4, <1>6
<1>11. n \div 65536 = Byte(n, 3) + 256 * (n \div 16777216)
  BY <1>2, <1>3, <1>5, <1>6
<1>. QED
  BY <1>2, <1>7, <1>8, <1>9, <1>10, <1>11 DEF Digits

\* What the last byte says of a number with a sign.
SignOf(b) == IF b < 128 THEN b ELSE b - 256

\* The number is the sum of its four bytes, the last with or without a sign.
LEMMA DigitsAddUp ==
  ASSUME NEW n \in Int, Digits(n)
  PROVE  /\ 0 <= n \div 16777216 /\ n \div 16777216 < 256 =>
              n = Byte(n, 1) + 256 * Byte(n, 2) + 65536 * Byte(n, 3)
                    + 16777216 * Byte(n, 4)
         /\ -128 <= n \div 16777216 /\ n \div 16777216 < 128 =>
              n = Byte(n, 1) + 256 * Byte(n, 2) + 65536 * Byte(n, 3)
                    + 16777216 * SignOf(Byte(n, 4))
<1>. DEFINE p == n \div 256
            r == n \div 65536
            q == n \div 16777216
            b1 == Byte(n, 1)
            b2 == Byte(n, 2)
            b3 == Byte(n, 3)
            b4 == Byte(n, 4)
<1>1. /\ n = b1 + 256 * p /\ p = b2 + 256 * r /\ r = b3 + 256 * q
      /\ b4 = q % 256
      /\ b1 \in Int /\ b2 \in Int /\ b3 \in Int /\ b4 \in Int
      /\ p \in Int /\ r \in Int /\ q \in Int
  BY DEF Digits, IsByte
<1>. HIDE DEF p, r, q, b1, b2, b3, b4
<1>2. p = b2 + 256 * b3 + 65536 * q
  BY <1>1
<1>3. n = b1 + 256 * b2 + 65536 * b3 + 16777216 * q
  BY <1>1, <1>2
<1>4. 0 <= q /\ q < 256 => b4 = q
  BY <1>1
<1>5. -128 <= q /\ q < 128 => SignOf(b4) = q
  BY <1>1 DEF SignOf
<1>6. 0 <= q /\ q < 256 => n = b1 + 256 * b2 + 65536 * b3 + 16777216 * b4
  BY <1>3, <1>4
<1>7. -128 <= q /\ q < 128 => n = b1 + 256 * b2 + 65536 * b3 + 16777216 * SignOf(b4)
  BY <1>3, <1>5
<1>. QED
  BY <1>6, <1>7 DEF q, b1, b2, b3, b4

\* The sums of as many numbers as a field has bytes.
LEMMA TotalOfFew ==
  ASSUME NEW k \in {1, 2, 4}, NEW s, AreIntegers(s, k)
  PROVE  Total(s) = IF k = 1 THEN s[1]
                    ELSE IF k = 2 THEN s[1] + s[2] ELSE s[1] + s[2] + s[3] + s[4]
<1>0. k \in Nat /\ DOMAIN s = 1 .. k /\ \A i \in 1 .. k : s[i] \in Int
  BY DEF AreIntegers
<1>1. PICK r : Adding!Trace(r, s, k) /\ r[k] = Adding!FoldLeft(Plus, 0, s)
  BY <1>0, Adding!FoldTrace
<1>2. r[0] = 0 /\ \A j \in 1 .. k : r[j] = r[j - 1] + s[j]
  BY <1>1 DEF Adding!Trace, Plus
<1>3. Total(s) = r[k]
  BY <1>1, TotalIsFold
<1>4. 1 \in 1 .. k
  OBVIOUS
<1>5. r[1] = s[1]
  <2>1. r[1] = r[0] + s[1]
    BY <1>0, <1>2, <1>4
  <2>. QED
    BY <1>0, <1>2, <1>4, <2>1
<1>6. k # 1 => r[2] = s[1] + s[2]
  <2>1. k # 1 => 2 \in 1 .. k
    OBVIOUS
  <2>2. k # 1 => r[2] = r[1] + s[2]
    BY <1>2, <2>1
  <2>. QED
    BY <1>0, <1>5, <2>2
<1>7. k = 4 => r[4] = s[1] + s[2] + s[3] + s[4]
  <2>1. SUFFICES ASSUME k = 4 PROVE r[4] = s[1] + s[2] + s[3] + s[4]
    OBVIOUS
  <2>2. 2 \in 1 .. k /\ 3 \in 1 .. k /\ 4 \in 1 .. k
    BY <2>1
  <2>3. r[3] = r[2] + s[3] /\ r[4] = r[3] + s[4]
    BY <1>2, <2>2
  <2>. QED
    BY <1>0, <1>6, <2>1, <2>2, <2>3
<1>. QED
  BY <1>3, <1>5, <1>6, <1>7

LEMMA LittleEndianIs ==
  ASSUME NEW k \in {1, 2, 4}, NEW bytes, AreIntegers(bytes, k)
  PROVE  LittleEndian(bytes) =
           IF k = 1 THEN bytes[1]
           ELSE IF k = 2 THEN bytes[1] + 256 * bytes[2]
           ELSE bytes[1] + 256 * bytes[2] + 65536 * bytes[3] + 16777216 * bytes[4]
<1>. DEFINE s == [i \in DOMAIN bytes |-> bytes[i] * Power256[i]]
<1>0. DOMAIN bytes = 1 .. k /\ \A i \in 1 .. k : bytes[i] \in Int
  BY DEF AreIntegers
<1>1. DOMAIN s = 1 .. k /\ \A i \in 1 .. k : s[i] = bytes[i] * Power256[i]
  BY <1>0
<1>2. \A i \in 1 .. k : Power256[i] \in Int
  <2>1. \A i \in 1 .. k : i = 1 \/ i = 2 \/ i = 3 \/ i = 4
    OBVIOUS
  <2>. QED
    BY <2>1, Powers
<1>3. LittleEndian(bytes) = Total(s)
  BY DEF LittleEndian
<1>. HIDE DEF s
<1>4. AreIntegers(s, k)
  BY <1>0, <1>1, <1>2 DEF AreIntegers
<1>5. Total(s) = IF k = 1 THEN s[1]
                 ELSE IF k = 2 THEN s[1] + s[2] ELSE s[1] + s[2] + s[3] + s[4]
  BY <1>4, TotalOfFew
<1>6. CASE k = 1
  <2>1. s[1] = bytes[1] * 1 /\ bytes[1] \in Int
    BY <1>0, <1>1, <1>6, Powers
  <2>. QED
    BY <1>3, <1>5, <1>6, <2>1
<1>7. CASE k = 2
  <2>1. /\ s[1] = bytes[1] * 1 /\ bytes[1] \in Int
        /\ s[2] = bytes[2] * 256 /\ bytes[2] \in Int
    BY <1>0, <1>1, <1>7, Powers
  <2>. QED
    BY <1>3, <1>5, <1>7, <2>1
<1>8. CASE k = 4
  <2>1. /\ s[1] = bytes[1] * 1 /\ bytes[1] \in Int
        /\ s[2] = bytes[2] * 256 /\ bytes[2] \in Int
        /\ s[3] = bytes[3] * 65536 /\ bytes[3] \in Int
        /\ s[4] = bytes[4] * 16777216 /\ bytes[4] \in Int
    BY <1>0, <1>1, <1>8, Powers
  <2>. QED
    BY <1>3, <1>5, <1>8, <2>1
<1>. QED
  BY <1>6, <1>7, <1>8

LEMMA BytesOf ==
  ASSUME NEW k \in {1, 2, 4}, NEW n \in Int
  PROVE  /\ ToBytes(n, k) \in Seq(Symbols)
         /\ Len(ToBytes(n, k)) = k /\ DOMAIN ToBytes(n, k) = 1 .. k
         /\ \A i \in 1 .. k : ToBytes(n, k)[i] = Byte(n, i)
         /\ AreIntegers(ToBytes(n, k), k)
         /\ \A i \in 1 .. k : IsByte(ToBytes(n, k)[i])
<1>. DEFINE b == ToBytes(n, k)
<1>1. DOMAIN b = 1 .. k /\ \A i \in 1 .. k : b[i] = Byte(n, i)
  BY DEF ToBytes, Byte
<1>2. k \in Nat /\ \A i \in 1 .. k : i \in 1 .. 4
  OBVIOUS
<1>3. \A i \in 1 .. k : IsByte(b[i])
  BY <1>1, <1>2, NumberOfBytes
<1>4. \A i \in 1 .. k : b[i] \in Symbols /\ b[i] \in Int
  <2>1. \A x : IsByte(x) => x \in Symbols /\ x \in Int
    BY DEF IsByte, Symbols
  <2>. QED
    BY <1>3, <2>1
<1>5. b = [i \in 1 .. k |-> b[i]]
  BY DEF ToBytes
<1>. HIDE DEF b
<1>6. b \in Seq(Symbols) /\ Len(b) = k
  <2>1. b \in [1 .. k -> Symbols]
    BY <1>4, <1>5
  <2>2. b \in Seq(Symbols)
    BY <1>2, <2>1, SeqDef
  <2>. QED
    BY <1>1, <1>2, <2>2
<1>7. AreIntegers(b, k)
  BY <1>1, <1>4 DEF AreIntegers
<1>. QED
  BY <1>1, <1>3, <1>6, <1>7 DEF b

\* from_le_bytes of an unsigned number's bytes is the number.
LEMMA UnsignedIsRead ==
  ASSUME NEW k \in {1, 2, 4}, NEW n \in UnsignedOf(k)
  PROVE  LittleEndian(ToBytes(n, k)) = n
<1>. DEFINE b == ToBytes(n, k)
<1>1. /\ k = 1 => n \in Int /\ 0 <= n /\ n < 256
      /\ k = 2 => n \in Int /\ 0 <= n /\ n < 65536
      /\ k = 4 => n \in Int /\ 0 <= n /\ n < 4294967296
  BY DEF UnsignedOf, From
<1>2. n \in Int
  BY <1>1
<1>3. AreIntegers(b, k) /\ \A i \in 1 .. k : b[i] = Byte(n, i)
  BY <1>2, BytesOf
<1>. HIDE DEF b
<1>4. LittleEndian(b) =
        IF k = 1 THEN b[1]
        ELSE IF k = 2 THEN b[1] + 256 * b[2]
        ELSE b[1] + 256 * b[2] + 65536 * b[3] + 16777216 * b[4]
  BY <1>3, LittleEndianIs
<1>5. Digits(n)
  BY <1>2, NumberOfBytes
<1>6. CASE k = 1
  <2>1. n \in Int /\ 0 <= n /\ n < 256
    BY <1>1, <1>6
  <2>2. n = Byte(n, 1) + 256 * (n \div 256) /\ IsByte(Byte(n, 1))
    BY <1>5 DEF Digits
  <2>3. n \div 256 = 0
    BY <2>1
  <2>4. n = Byte(n, 1)
    BY <2>2, <2>3 DEF IsByte
  <2>5. b[1] = Byte(n, 1)
    BY <1>3, <1>6
  <2>. QED
    BY <1>4, <1>6, <2>4, <2>5 DEF b
<1>7. CASE k = 2
  <2>1. n \in Int /\ 0 <= n /\ n < 65536
    BY <1>1, <1>7
  <2>2. /\ n = Byte(n, 1) + 256 * (n \div 256) /\ IsByte(Byte(n, 1))
        /\ n \div 256 = Byte(n, 2) + 256 * (n \div 65536) /\ IsByte(Byte(n, 2))
    BY <1>5 DEF Digits
  <2>3. n \div 65536 = 0
    BY <2>1
  <2>4. n = Byte(n, 1) + 256 * Byte(n, 2)
    BY <2>2, <2>3 DEF IsByte
  <2>5. b[1] = Byte(n, 1) /\ b[2] = Byte(n, 2)
    BY <1>3, <1>7
  <2>. QED
    BY <1>4, <1>7, <2>4, <2>5 DEF b
<1>8. CASE k = 4
  <2>1. n \in Int /\ 0 <= n /\ n < 4294967296
    BY <1>1, <1>8
  <2>2. 0 <= n \div 16777216 /\ n \div 16777216 < 256
    BY <2>1
  <2>3. n = Byte(n, 1) + 256 * Byte(n, 2) + 65536 * Byte(n, 3)
              + 16777216 * Byte(n, 4)
    BY <1>2, <1>5, <2>2, DigitsAddUp
  <2>4. b[1] = Byte(n, 1) /\ b[2] = Byte(n, 2) /\ b[3] = Byte(n, 3) /\ b[4] = Byte(n, 4)
    BY <1>3, <1>8
  <2>. QED
    BY <1>4, <1>8, <2>3, <2>4 DEF b
<1>. QED
  BY <1>6, <1>7, <1>8

\* i8, i16, i32::from_le_bytes of a signed number's bytes is the number.
LEMMA SignedIsRead ==
  ASSUME NEW k \in {1, 2, 4}, NEW n \in SignedOf(k)
  PROVE  TwosComplement(ToBytes(n, k)) = n
<1>. DEFINE b == ToBytes(n, k)
            top == SignOf(b[k])
            c == [b EXCEPT ![k] = top]
<1>1. /\ k = 1 => n \in Int /\ -128 <= n /\ n < 128
      /\ k = 2 => n \in Int /\ -32768 <= n /\ n < 32768
      /\ k = 4 => n \in Int /\ -2147483648 <= n /\ n < 2147483648
  BY DEF SignedOf, From
<1>2. n \in Int
  BY <1>1
<1>3. /\ DOMAIN b = 1 .. k /\ Len(b) = k
      /\ \A i \in 1 .. k : b[i] = Byte(n, i)
      /\ \A i \in 1 .. k : IsByte(b[i])
  BY <1>2, BytesOf
<1>. HIDE DEF b
<1>4. k \in 1 .. k
  OBVIOUS
<1>5. top \in Int /\ top = SignOf(Byte(n, k))
  <2>1. IsByte(b[k]) /\ b[k] = Byte(n, k)
    BY <1>3, <1>4
  <2>. QED
    BY <2>1 DEF IsByte, SignOf
<1>6. TwosComplement(b) = LittleEndian(c)
  BY <1>3 DEF TwosComplement, SignOf
<1>7. DOMAIN c = 1 .. k /\ c[k] = top /\ \A i \in 1 .. k : i # k => c[i] = b[i]
  BY <1>3, <1>4
<1>. HIDE DEF c, top
<1>8. LittleEndian(c) =
        IF k = 1 THEN c[1]
        ELSE IF k = 2 THEN c[1] + 256 * c[2]
        ELSE c[1] + 256 * c[2] + 65536 * c[3] + 16777216 * c[4]
  <2>1. \A i \in 1 .. k : b[i] \in Int
    BY <1>3 DEF IsByte
  <2>2. AreIntegers(c, k)
    BY <1>5, <1>7, <2>1 DEF AreIntegers
  <2>. QED
    BY <2>2, LittleEndianIs
<1>9. Digits(n)
  BY <1>2, NumberOfBytes
<1>10. CASE k = 1
  <2>1. n \in Int /\ -128 <= n /\ n < 128
    BY <1>1, <1>10
  <2>2. n = Byte(n, 1) + 256 * (n \div 256) /\ IsByte(Byte(n, 1))
    BY <1>9 DEF Digits
  <2>3. n \div 256 \in {-1, 0}
    BY <2>1
  <2>4. n = SignOf(Byte(n, 1))
    BY <2>1, <2>2, <2>3 DEF IsByte, SignOf
  <2>5. c[1] = SignOf(Byte(n, 1))
    BY <1>5, <1>7, <1>10
  <2>. QED
    BY <1>6, <1>8, <1>10, <2>4, <2>5 DEF b
<1>11. CASE k = 2
  <2>1. n \in Int /\ -32768 <= n /\ n < 32768
    BY <1>1, <1>11
  <2>2. /\ n = Byte(n, 1) + 256 * (n \div 256) /\ IsByte(Byte(n, 1))
        /\ n \div 256 = Byte(n, 2) + 256 * (n \div 65536) /\ IsByte(Byte(n, 2))
    BY <1>9 DEF Digits
  <2>3. n \div 65536 \in {-1, 0}
    BY <2>1
  <2>4. n = Byte(n, 1) + 256 * SignOf(Byte(n, 2))
    BY <2>1, <2>2, <2>3 DEF IsByte, SignOf
  <2>5. /\ c[1] = Byte(n, 1)
        /\ c[2] = SignOf(Byte(n, 2))
    <3>1. 1 \in 1 .. k /\ 1 # k
      BY <1>11
    <3>. QED
      BY <1>3, <1>5, <1>7, <1>11, <3>1
  <2>. QED
    BY <1>6, <1>8, <1>11, <2>4, <2>5 DEF b
<1>12. CASE k = 4
  <2>1. n \in Int /\ -2147483648 <= n /\ n < 2147483648
    BY <1>1, <1>12
  <2>2. -128 <= n \div 16777216 /\ n \div 16777216 < 128
    BY <2>1
  <2>3. n = Byte(n, 1) + 256 * Byte(n, 2) + 65536 * Byte(n, 3)
              + 16777216 * SignOf(Byte(n, 4))
    BY <1>2, <1>9, <2>2, DigitsAddUp
  <2>4. /\ c[1] = Byte(n, 1) /\ c[2] = Byte(n, 2) /\ c[3] = Byte(n, 3)
        /\ c[4] = SignOf(Byte(n, 4))
    <3>1. 1 \in 1 .. k /\ 2 \in 1 .. k /\ 3 \in 1 .. k /\ 1 # k /\ 2 # k /\ 3 # k
      BY <1>12
    <3>. QED
      BY <1>3, <1>5, <1>7, <1>12, <3>1
  <2>. QED
    BY <1>6, <1>8, <1>12, <2>3, <2>4 DEF b
<1>. QED
  BY <1>10, <1>11, <1>12

-----------------------------------------------------------------------------
(* Rounding.                                                               *)

\* The unit that ToF32 takes: the least that leaves 24 bits.
UnitOf(m) == Min({u \in Units : m \div u < Precision})

LEMMA LeastOf ==
  ASSUME NEW T, T \subseteq Nat, T # {}
  PROVE  Min(T) \in T /\ \A y \in T : Min(T) <= y
<1>1. \E x \in T : \A y \in T : x <= y
  BY Adding!LeastNatural
<1>. QED
  BY <1>1 DEF Min

\* What 32 bits can count.
Words == 4294967296

LEMMA UnitIsLeast ==
  ASSUME NEW m \in Nat, m < Words
  PROVE  /\ UnitOf(m) \in Units /\ m \div UnitOf(m) < Precision
         /\ \A u \in Units : u < UnitOf(m) => ~(m \div u < Precision)
<1>. DEFINE T == {u \in Units : m \div u < Precision}
<1>1. Units \subseteq Nat /\ 256 \in Units
  BY DEF Units
<1>2. 256 \in T
  <2>1. m \div 256 < Precision
    BY DEF Words, Precision
  <2>. QED
    BY <1>1, <2>1
<1>3. T \subseteq Nat
  BY <1>1
<1>4. UnitOf(m) = Min(T)
  BY DEF UnitOf
<1>5. \A u \in Units : u \in T <=> m \div u < Precision
  OBVIOUS
<1>6. T \subseteq Units
  OBVIOUS
<1>. HIDE DEF T
<1>7. Min(T) \in T /\ \A y \in T : Min(T) <= y
  BY <1>2, <1>3, LeastOf
<1>8. \A u \in Units : u < Min(T) => u \notin T
  <2>1. SUFFICES ASSUME NEW u \in T, u < Min(T) PROVE FALSE
    OBVIOUS
  <2>2. Min(T) <= u /\ u \in Nat /\ Min(T) \in Nat
    BY <1>3, <1>7
  <2>. QED
    BY <2>1, <2>2
<1>. QED
  BY <1>4, <1>5, <1>6, <1>7, <1>8

\* m in units, and rounded to a whole number of them.
RoundedTo(unit, m) ==
  LET q  == m \div unit
      r  == m % unit
      up == 2 * r > unit \/ (2 * r = unit /\ q % 2 = 1) IN
  (IF up THEN q + 1 ELSE q) * unit

LEMMA RoundedIsNear ==
  ASSUME NEW unit \in Units, NEW m \in Nat
  PROVE  /\ RoundedTo(unit, m) \in Nat
         /\ RoundedTo(unit, m) % unit = 0
         /\ 2 * (RoundedTo(unit, m) - m) <= unit
         /\ 2 * (m - RoundedTo(unit, m)) <= unit
         /\ unit = 1 => RoundedTo(unit, m) = m
<1>. DEFINE q == m \div unit
            r == m % unit
            up == 2 * r > unit \/ (2 * r = unit /\ q % 2 = 1)
            x == IF up THEN q + 1 ELSE q
<1>0. RoundedTo(unit, m) = x * unit
  BY DEF RoundedTo
<1>. HIDE DEF up
<1>1. CASE unit = 1
  <2>1. m = 1 * q + r /\ 0 <= r /\ r < 1 /\ q \in Nat /\ r \in Nat
    BY <1>1
  <2>2. (up => 2 * r >= 1) /\ (~up => 2 * r <= 1)
    BY <1>1, <2>1 DEF up
  <2>. HIDE DEF q, r
  <2>3. x \in Nat /\ 2 * (1 * x - m) <= 1 /\ 2 * (m - 1 * x) <= 1
    BY <2>1, <2>2
  <2>. HIDE DEF x
  <2>4. (1 * x) % 1 = 0
    BY <2>3
  <2>. QED
    BY <1>0, <1>1, <2>3, <2>4
<1>2. CASE unit = 2
  <2>1. m = 2 * q + r /\ 0 <= r /\ r < 2 /\ q \in Nat /\ r \in Nat
    BY <1>2
  <2>2. (up => 2 * r >= 2) /\ (~up => 2 * r <= 2)
    BY <1>2, <2>1 DEF up
  <2>. HIDE DEF q, r
  <2>3. x \in Nat /\ 2 * (2 * x - m) <= 2 /\ 2 * (m - 2 * x) <= 2
    BY <2>1, <2>2
  <2>. HIDE DEF x
  <2>4. (2 * x) % 2 = 0
    BY <2>3
  <2>. QED
    BY <1>0, <1>2, <2>3, <2>4
<1>3. CASE unit = 4
  <2>1. m = 4 * q + r /\ 0 <= r /\ r < 4 /\ q \in Nat /\ r \in Nat
    BY <1>3
  <2>2. (up => 2 * r >= 4) /\ (~up => 2 * r <= 4)
    BY <1>3, <2>1 DEF up
  <2>. HIDE DEF q, r
  <2>3. x \in Nat /\ 2 * (4 * x - m) <= 4 /\ 2 * (m - 4 * x) <= 4
    BY <2>1, <2>2
  <2>. HIDE DEF x
  <2>4. (4 * x) % 4 = 0
    BY <2>3
  <2>. QED
    BY <1>0, <1>3, <2>3, <2>4
<1>4. CASE unit = 8
  <2>1. m = 8 * q + r /\ 0 <= r /\ r < 8 /\ q \in Nat /\ r \in Nat
    BY <1>4
  <2>2. (up => 2 * r >= 8) /\ (~up => 2 * r <= 8)
    BY <1>4, <2>1 DEF up
  <2>. HIDE DEF q, r
  <2>3. x \in Nat /\ 2 * (8 * x - m) <= 8 /\ 2 * (m - 8 * x) <= 8
    BY <2>1, <2>2
  <2>. HIDE DEF x
  <2>4. (8 * x) % 8 = 0
    BY <2>3
  <2>. QED
    BY <1>0, <1>4, <2>3, <2>4
<1>5. CASE unit = 16
  <2>1. m = 16 * q + r /\ 0 <= r /\ r < 16 /\ q \in Nat /\ r \in Nat
    BY <1>5
  <2>2. (up => 2 * r >= 16) /\ (~up => 2 * r <= 16)
    BY <1>5, <2>1 DEF up
  <2>. HIDE DEF q, r
  <2>3. x \in Nat /\ 2 * (16 * x - m) <= 16 /\ 2 * (m - 16 * x) <= 16
    BY <2>1, <2>2
  <2>. HIDE DEF x
  <2>4. (16 * x) % 16 = 0
    BY <2>3
  <2>. QED
    BY <1>0, <1>5, <2>3, <2>4
<1>6. CASE unit = 32
  <2>1. m = 32 * q + r /\ 0 <= r /\ r < 32 /\ q \in Nat /\ r \in Nat
    BY <1>6
  <2>2. (up => 2 * r >= 32) /\ (~up => 2 * r <= 32)
    BY <1>6, <2>1 DEF up
  <2>. HIDE DEF q, r
  <2>3. x \in Nat /\ 2 * (32 * x - m) <= 32 /\ 2 * (m - 32 * x) <= 32
    BY <2>1, <2>2
  <2>. HIDE DEF x
  <2>4. (32 * x) % 32 = 0
    BY <2>3
  <2>. QED
    BY <1>0, <1>6, <2>3, <2>4
<1>7. CASE unit = 64
  <2>1. m = 64 * q + r /\ 0 <= r /\ r < 64 /\ q \in Nat /\ r \in Nat
    BY <1>7
  <2>2. (up => 2 * r >= 64) /\ (~up => 2 * r <= 64)
    BY <1>7, <2>1 DEF up
  <2>. HIDE DEF q, r
  <2>3. x \in Nat /\ 2 * (64 * x - m) <= 64 /\ 2 * (m - 64 * x) <= 64
    BY <2>1, <2>2
  <2>. HIDE DEF x
  <2>4. (64 * x) % 64 = 0
    BY <2>3
  <2>. QED
    BY <1>0, <1>7, <2>3, <2>4
<1>8. CASE unit = 128
  <2>1. m = 128 * q + r /\ 0 <= r /\ r < 128 /\ q \in Nat /\ r \in Nat
    BY <1>8
  <2>2. (up => 2 * r >= 128) /\ (~up => 2 * r <= 128)
    BY <1>8, <2>1 DEF up
  <2>. HIDE DEF q, r
  <2>3. x \in Nat /\ 2 * (128 * x - m) <= 128 /\ 2 * (m - 128 * x) <= 128
    BY <2>1, <2>2
  <2>. HIDE DEF x
  <2>4. (128 * x) % 128 = 0
    BY <2>3
  <2>. QED
    BY <1>0, <1>8, <2>3, <2>4
<1>9. CASE unit = 256
  <2>1. m = 256 * q + r /\ 0 <= r /\ r < 256 /\ q \in Nat /\ r \in Nat
    BY <1>9
  <2>2. (up => 2 * r >= 256) /\ (~up => 2 * r <= 256)
    BY <1>9, <2>1 DEF up
  <2>. HIDE DEF q, r
  <2>3. x \in Nat /\ 2 * (256 * x - m) <= 256 /\ 2 * (m - 256 * x) <= 256
    BY <2>1, <2>2
  <2>. HIDE DEF x
  <2>4. (256 * x) % 256 = 0
    BY <2>3
  <2>. QED
    BY <1>0, <1>9, <2>3, <2>4
<1>. QED
  BY <1>1, <1>2, <1>3, <1>4, <1>5, <1>6, <1>7, <1>8, <1>9 DEF Units

\* `as f32` of an integer of at most 32 bits gives it or a nearest number that
\* 24 significant bits can write.
LEMMA ToF32IsNear ==
  ASSUME NEW n \in Int, -Words < n, n < Words
  PROVE  Nearest(ToF32(n), n)
<1>. DEFINE m == IF n < 0 THEN -n ELSE n
            unit == UnitOf(m)
            f == RoundedTo(unit, m)
            x == ToF32(n)
            y == IF n < 0 THEN -x ELSE x
<1>1. m \in Nat /\ m < Words
  BY DEF Words
<1>2. x = IF n < 0 THEN -f ELSE f
  BY DEF ToF32, RoundedTo, UnitOf
<1>3. /\ unit \in Units /\ m \div unit < Precision
      /\ \A u \in Units : u < unit => ~(m \div u < Precision)
  BY <1>1, UnitIsLeast
<1>4. /\ f \in Nat /\ f % unit = 0
      /\ 2 * (f - m) <= unit /\ 2 * (m - f) <= unit
      /\ unit = 1 => f = m
  BY <1>1, <1>3, RoundedIsNear
<1>. HIDE DEF unit, f, x
<1>5. y = f
  BY <1>2, <1>4
<1>. HIDE DEF m, y
<1>6. Nearest(x, n) <=>
        \/ m < Precision /\ y = m
        \/ \E u \in Units \ {1} :
             /\ Precision \div 2 <= m \div u /\ m \div u < Precision
             /\ y % u = 0
             /\ 2 * (y - m) <= u /\ 2 * (m - y) <= u
  BY DEF Nearest, m, y
<1>7. CASE unit = 1
  <2>1. m \div 1 = m
    BY <1>1
  <2>. QED
    BY <1>3, <1>4, <1>5, <1>6, <1>7, <2>1 DEF x
<1>8. CASE unit # 1
  <2>1. Precision \div 2 <= m \div unit
    <3>1. CASE unit = 2
      <4>1. 1 \in Units /\ 1 < unit
        BY <3>1 DEF Units
      <4>2. ~(m \div 1 < Precision)
        BY <1>3, <4>1
      <4>3. Precision \div 2 <= m \div 2
        BY <1>1, <4>2 DEF Precision
      <4>. QED
        BY <3>1, <4>3
    <3>2. CASE unit = 4
      <4>1. 2 \in Units /\ 2 < unit
        BY <3>2 DEF Units
      <4>2. ~(m \div 2 < Precision)
        BY <1>3, <4>1
      <4>3. Precision \div 2 <= m \div 4
        BY <1>1, <4>2 DEF Precision
      <4>. QED
        BY <3>2, <4>3
    <3>3. CASE unit = 8
      <4>1. 4 \in Units /\ 4 < unit
        BY <3>3 DEF Units
      <4>2. ~(m \div 4 < Precision)
        BY <1>3, <4>1
      <4>3. Precision \div 2 <= m \div 8
        BY <1>1, <4>2 DEF Precision
      <4>. QED
        BY <3>3, <4>3
    <3>4. CASE unit = 16
      <4>1. 8 \in Units /\ 8 < unit
        BY <3>4 DEF Units
      <4>2. ~(m \div 8 < Precision)
        BY <1>3, <4>1
      <4>3. Precision \div 2 <= m \div 16
        BY <1>1, <4>2 DEF Precision
      <4>. QED
        BY <3>4, <4>3
    <3>5. CASE unit = 32
      <4>1. 16 \in Units /\ 16 < unit
        BY <3>5 DEF Units
      <4>2. ~(m \div 16 < Precision)
        BY <1>3, <4>1
      <4>3. Precision \div 2 <= m \div 32
        BY <1>1, <4>2 DEF Precision
      <4>. QED
        BY <3>5, <4>3
    <3>6. CASE unit = 64
      <4>1. 32 \in Units /\ 32 < unit
        BY <3>6 DEF Units
      <4>2. ~(m \div 32 < Precision)
        BY <1>3, <4>1
      <4>3. Precision \div 2 <= m \div 64
        BY <1>1, <4>2 DEF Precision
      <4>. QED
        BY <3>6, <4>3
    <3>7. CASE unit = 128
      <4>1. 64 \in Units /\ 64 < unit
        BY <3>7 DEF Units
      <4>2. ~(m \div 64 < Precision)
        BY <1>3, <4>1
      <4>3. Precision \div 2 <= m \div 128
        BY <1>1, <4>2 DEF Precision
      <4>. QED
        BY <3>7, <4>3
    <3>8. CASE unit = 256
      <4>1. 128 \in Units /\ 128 < unit
        BY <3>8 DEF Units
      <4>2. ~(m \div 128 < Precision)
        BY <1>3, <4>1
      <4>3. Precision \div 2 <= m \div 256
        BY <1>1, <4>2 DEF Precision
      <4>. QED
        BY <3>8, <4>3
    <3>. QED
      BY <1>3, <1>8, <3>1, <3>2, <3>3, <3>4, <3>5, <3>6, <3>7, <3>8 DEF Units
  <2>2. unit \in Units \ {1}
    BY <1>3, <1>8
  <2>. QED
    BY <1>3, <1>4, <1>5, <1>6, <2>1, <2>2 DEF x
<1>. QED
  BY <1>7, <1>8 DEF x

-----------------------------------------------------------------------------
(* Packets.                                                                *)

\* What the target may put into a field; a float is any four bytes.
Values(field) ==
  CASE field.type = "Boolean"  -> UnsignedOf(1)
    [] field.type = "Float"    -> UnsignedOf(4)
    [] field.type = "Signed"   -> SignedOf(field.size)
    [] field.type = "Unsigned" -> UnsignedOf(field.size)

Fits(numbers, s) ==
  /\ DOMAIN numbers = DOMAIN s.fields
  /\ \A i \in DOMAIN s.fields : numbers[i] \in Values(s.fields[i])

\* The bytes of the fields, as PacketOf joins them.
Parts(s, numbers) ==
  [i \in DOMAIN s.fields |-> ToBytes(numbers[i], s.fields[i].size)]

\* The bytes of the time.
Head4(s, time) == IF s.has_u32_us_time THEN ToBytes(time, 4) ELSE <<>>

LEMMA ValuesAreIntegers ==
  ASSUME NEW f \in Fields, NEW v \in Values(f)
  PROVE  v \in Int /\ f.size \in {1, 2, 4}
<1>1. \A k \in {1, 2, 4} : UnsignedOf(k) \subseteq Int /\ SignedOf(k) \subseteq Int
  <2>1. \A a, b : From(a, b) \subseteq Int
    BY DEF From
  <2>2. /\ UnsignedOf(1) \subseteq Int /\ UnsignedOf(2) \subseteq Int
        /\ UnsignedOf(4) \subseteq Int
    BY <2>1 DEF UnsignedOf
  <2>3. /\ SignedOf(1) \subseteq Int /\ SignedOf(2) \subseteq Int
        /\ SignedOf(4) \subseteq Int
    BY <2>1 DEF SignedOf
  <2>. QED
    BY <2>2, <2>3
<1>2. CASE f = [type |-> "Boolean", size |-> 1] \/ f = [type |-> "Float", size |-> 4]
  <2>1. \/ f.type = "Boolean" /\ f.size = 1
        \/ f.type = "Float" /\ f.size = 4
    BY <1>2
  <2>2. Values(f) = UnsignedOf(1) \/ Values(f) = UnsignedOf(4)
    BY <2>1 DEF Values
  <2>. QED
    BY <1>1, <2>1, <2>2
<1>3. ASSUME NEW n \in {1, 2, 4},
             f = [type |-> "Signed", size |-> n] \/ f = [type |-> "Unsigned", size |-> n]
      PROVE  v \in Int /\ f.size \in {1, 2, 4}
  <2>1. f.size = n /\ (f.type = "Signed" \/ f.type = "Unsigned")
    BY <1>3
  <2>2. Values(f) = SignedOf(n) \/ Values(f) = UnsignedOf(n)
    BY <2>1 DEF Values
  <2>. QED
    BY <1>1, <2>1, <2>2
<1>. QED
  BY <1>2, <1>3, FieldForms

\* Where each part of a packet is.
LEMMA PacketLayout ==
  ASSUME NEW s \in AnyStructures, NEW time \in Int, NEW numbers, Fits(numbers, s)
  PROVE  /\ Len(PacketOf(s, time, numbers)) = packet_size(s)
         /\ s.has_u32_us_time =>
              SubSeq(PacketOf(s, time, numbers), 1, 4) = ToBytes(time, 4)
         /\ \A i \in DOMAIN s.fields :
              SubSeq(PacketOf(s, time, numbers), Offset(s, i) + 1, Offset(s, i + 1))
                = ToBytes(numbers[i], s.fields[i].size)
<1>. DEFINE n == Len(s.fields)
            p == Parts(s, numbers)
            j == Joined(p)
            t == Head4(s, time)
            b == PacketOf(s, time, numbers)
            h == IF s.has_u32_us_time THEN 4 ELSE 0
<1>1. /\ n \in Nat /\ DOMAIN s.fields = 1 .. n
      /\ \A i \in 1 .. n : s.fields[i] \in Fields
      /\ s.has_u32_us_time \in BOOLEAN
  BY StructureFields
<1>2. b = t \o j
  BY DEF PacketOf, Parts, Head4
<1>3. \A i \in 1 .. n : numbers[i] \in Int /\ s.fields[i].size \in {1, 2, 4}
  BY <1>1, ValuesAreIntegers DEF Fits
<1>4. DOMAIN p = 1 .. n /\ \A i \in 1 .. n : p[i] = ToBytes(numbers[i], s.fields[i].size)
  BY <1>1 DEF Parts
<1>. HIDE DEF p, j, b, t
<1>5. ASSUME NEW i \in 1 .. n
      PROVE  p[i] \in Seq(Symbols) /\ Len(p[i]) = s.fields[i].size
  <2>1. numbers[i] \in Int /\ s.fields[i].size \in {1, 2, 4}
    BY <1>3
  <2>. QED
    BY <1>4, <2>1, BytesOf
<1>6. /\ j \in Seq(Symbols)
      /\ Len(j) = Start(p, n + 1)
      /\ \A i \in 1 .. n :
           /\ Start(p, i) + Len(p[i]) <= Len(j)
           /\ \A k \in 1 .. Len(p[i]) : j[Start(p, i) + k] = p[i][k]
  <2>1. n \in Nat /\ DOMAIN p = 1 .. n /\ j = Joined(p)
    BY <1>1, <1>4 DEF j
  <2>2. \A i \in 1 .. n : p[i] \in Seq(Symbols)
    BY <1>5
  <2>. QED
    BY ONLY <2>1, <2>2, JoinedProperties
<1>7. t \in Seq(Symbols) /\ Len(t) = h
  <2>1. CASE s.has_u32_us_time
    <3>1. t = ToBytes(time, 4)
      BY <2>1 DEF t, Head4
    <3>. QED
      BY <2>1, <3>1, BytesOf
  <2>2. CASE ~s.has_u32_us_time
    <3>1. t = <<>>
      BY <2>2 DEF t, Head4
    <3>. QED
      BY <2>2, <3>1
  <2>. QED
    BY <2>1, <2>2
<1>8. h \in Nat /\ Len(j) \in Nat
  BY <1>6
<1>9. /\ b \in Seq(Symbols) /\ Len(b) = h + Len(j)
      /\ \A x \in 1 .. Len(j) : b[h + x] = j[x]
  <2>1. /\ b \in Seq(Symbols) /\ Len(b) = Len(t) + Len(j)
        /\ \A x \in 1 .. Len(t) + Len(j) :
             b[x] = IF x <= Len(t) THEN t[x] ELSE j[x - Len(t)]
    <3>1. t \in Seq(Symbols) /\ j \in Seq(Symbols) /\ b = t \o j
      BY ONLY <1>2, <1>6, <1>7
    <3>. QED
      BY ONLY <3>1, ConcatProperties
  <2>. HIDE DEF h
  <2>2. ASSUME NEW x \in 1 .. Len(j) PROVE b[h + x] = j[x]
    <3>1. /\ h + x \in 1 .. Len(t) + Len(j) /\ ~(h + x <= Len(t))
          /\ (h + x) - Len(t) = x
      BY <1>7, <1>8
    <3>. QED
      BY <2>1, <3>1
  <2>. QED
    BY <1>7, <2>1, <2>2
<1>10. ASSUME NEW i \in 1 .. n + 1
       PROVE  Offset(s, i) = h + Start(p, i)
  <2>1. \A k \in 1 .. i - 1 : k \in 1 .. n
    BY <1>1
  <2>2. [k \in 1 .. i - 1 |-> s.fields[k].size] = [k \in 1 .. i - 1 |-> Len(p[k])]
    BY <1>5, <2>1
  <2>. QED
    BY <2>2 DEF Offset, Start
<1>11. /\ \A i \in 1 .. n + 1 : Start(p, i) \in Nat
       /\ \A i \in 1 .. n : Start(p, i + 1) = Start(p, i) + Len(p[i])
  BY <1>1, <1>4, <1>5, StartStep
<1>12. Len(b) = packet_size(s)
  <2>1. n + 1 \in 1 .. n + 1
    BY <1>1
  <2>2. packet_size(s) = h + Start(p, n + 1)
    BY <1>10, <2>1 DEF packet_size
  <2>. QED
    BY <1>6, <1>9, <2>2
<1>13. ASSUME s.has_u32_us_time
       PROVE  SubSeq(b, 1, 4) = ToBytes(time, 4)
  <2>1. t = ToBytes(time, 4) /\ Len(t) = 4
    BY <1>7, <1>13 DEF t, Head4
  <2>2. 1 \in 1 .. Len(t) /\ 4 \in 1 .. Len(t)
    BY <2>1
  <2>3. SubSeq(t \o j, 1, 4) = SubSeq(t, 1, 4)
    BY <1>6, <1>7, <2>2, SubSeqOfConcat1
  <2>4. SubSeq(t, 1, 4) = t
    BY <1>7, <2>1, SubSeqFull
  <2>. QED
    BY <1>2, <2>1, <2>3, <2>4
<1>14. ASSUME NEW i \in 1 .. n
       PROVE  SubSeq(b, Offset(s, i) + 1, Offset(s, i + 1)) = p[i]
  <2>. DEFINE from == Offset(s, i) + 1
              to == Offset(s, i + 1)
              st == Start(p, i)
              w == Len(p[i])
              part == SubSeq(b, from, to)
  <2>1. i \in 1 .. n + 1 /\ i + 1 \in 1 .. n + 1
    BY <1>1
  <2>2. from = h + st + 1 /\ to = h + st + w
    BY <1>8, <1>10, <1>11, <1>5, <2>1
  <2>3. st \in Nat /\ w \in {1, 2, 4} /\ st + w <= Len(j)
    BY <1>3, <1>5, <1>6, <1>11, <2>1
  <2>. HIDE DEF from, to, st, w
  <2>4. /\ from \in Int /\ to \in Int /\ from <= to /\ to - from + 1 = w
        /\ \A x \in from .. to : x \in 1 .. Len(b)
    <3>. HIDE DEF h
    <3>. QED
      BY <1>8, <1>9, <2>2, <2>3
  <2>5. \A x \in from .. to : b[x] \in Symbols
    BY <1>9, <2>4, ElementOfSeq
  <2>6. /\ part \in Seq(Symbols)
        /\ Len(part) = IF from <= to THEN to - from + 1 ELSE 0
        /\ \A x \in 1 .. to - from + 1 : part[x] = b[from + x - 1]
    BY <2>4, <2>5, SubSeqProperties
  <2>. HIDE DEF part
  <2>7. part \in Seq(Symbols) /\ Len(part) = w
    BY <2>4, <2>6
  <2>8. ASSUME NEW x \in 1 .. w PROVE part[x] = p[i][x]
    <3>. HIDE DEF h
    <3>1. from + x - 1 = h + (st + x) /\ st + x \in 1 .. Len(j) /\ x \in 1 .. to - from + 1
      BY <1>8, <2>2, <2>3, <2>4
    <3>2. part[x] = j[st + x]
      BY <1>9, <2>6, <3>1
    <3>3. j[st + x] = p[i][x]
      BY <1>6 DEF st, w
    <3>. QED
      BY <3>2, <3>3
  <2>9. p[i] \in Seq(Symbols) /\ Len(p[i]) = w
    BY <1>5 DEF w
  <2>10. part = p[i]
    BY <2>7, <2>8, <2>9, SeqEqual
  <2>. QED
    BY <2>10 DEF part, from, to
<1>. QED
  BY <1>1, <1>4, <1>12, <1>13, <1>14 DEF b

\* What DecodesWhatIsPut says of one value, and of one packet.
ComesOut(f, x, v) ==
  CASE f.type = "Boolean" -> x = Min({v, 1})
    [] f.type = "Float"   -> x = ToBytes(v, 4)
    [] OTHER              -> Nearest(x, v)

Decoded(s, time, numbers) ==
  LET bytes == PacketOf(s, time, numbers)
      d     == decode_bytes(s, bytes) IN
  /\ Len(bytes) = packet_size(s)
  /\ d.time = IF s.has_u32_us_time THEN time ELSE -1
  /\ \A i \in DOMAIN numbers : ComesOut(s.fields[i], d.values[i], numbers[i])

LEMMA WordsAreNear ==
  ASSUME NEW k \in {1, 2, 4}, NEW n \in Int, n \in UnsignedOf(k) \/ n \in SignedOf(k)
  PROVE  Nearest(ToF32(n), n)
<1>1. -Words < n /\ n < Words
  BY DEF UnsignedOf, SignedOf, From, Words
<1>. QED
  BY <1>1, ToF32IsNear

\* A value of any field comes out of its bytes.
LEMMA FieldIsDecoded ==
  ASSUME NEW f \in Fields, NEW v \in Values(f)
  PROVE  ComesOut(f, DecodeField(f, ToBytes(v, f.size)), v)
<1>. DEFINE x == DecodeField(f, ToBytes(v, f.size))
<1>0. v \in Int
  BY ValuesAreIntegers
<1>1. CASE f = [type |-> "Boolean", size |-> 1]
  <2>1. f.type = "Boolean" /\ f.size = 1
    BY <1>1
  <2>2. v \in UnsignedOf(1)
    BY <2>1 DEF Values
  <2>3. 0 <= v /\ v < 256
    BY <2>2 DEF UnsignedOf, From
  <2>4. ToBytes(v, 1)[1] = v
    <3>1. 1 \in 1 .. 1
      OBVIOUS
    <3>2. ToBytes(v, 1)[1] = Byte(v, 1)
      BY <1>0, <3>1, BytesOf
    <3>3. Byte(v, 1) = v % 256
      BY <1>0, Powers DEF Byte
    <3>4. v % 256 = v
      BY <1>0, <2>3
    <3>. QED
      BY <3>2, <3>3, <3>4
  <2>5. x = IF v # 0 THEN 1 ELSE 0
    BY <2>1, <2>4 DEF DecodeField
  <2>6. Min({v, 1}) = IF v # 0 THEN 1 ELSE 0
    <3>1. {v, 1} \subseteq Nat /\ {v, 1} # {}
      BY <1>0, <2>3
    <3>2. Min({v, 1}) \in {v, 1} /\ \A y \in {v, 1} : Min({v, 1}) <= y
      BY <3>1, LeastOf
    <3>. QED
      BY <1>0, <2>3, <3>2
  <2>. QED
    BY <2>1, <2>5, <2>6 DEF ComesOut
<1>2. CASE f = [type |-> "Float", size |-> 4]
  <2>1. f.type = "Float" /\ f.size = 4
    BY <1>2
  <2>2. x = ToBytes(v, 4)
    BY <2>1 DEF DecodeField
  <2>. QED
    BY <2>1, <2>2 DEF ComesOut
<1>3. ASSUME NEW n \in {1, 2, 4},
             f = [type |-> "Signed", size |-> n] \/ f = [type |-> "Unsigned", size |-> n]
      PROVE  ComesOut(f, x, v)
  <2>1. f.size = n /\ (f.type = "Signed" \/ f.type = "Unsigned")
    BY <1>3
  <2>2. CASE f.type = "Signed"
    <3>1. v \in SignedOf(n)
      BY <2>1, <2>2 DEF Values
    <3>2. x = ToF32(v)
      <4>1. TwosComplement(ToBytes(v, n)) = v
        BY <3>1, SignedIsRead
      <4>. QED
        BY <2>1, <2>2, <4>1 DEF DecodeField
    <3>3. Nearest(ToF32(v), v)
      BY <1>0, <3>1, WordsAreNear
    <3>. QED
      BY <2>2, <3>2, <3>3 DEF ComesOut
  <2>3. CASE f.type = "Unsigned"
    <3>1. v \in UnsignedOf(n)
      BY <2>1, <2>3 DEF Values
    <3>2. x = ToF32(v)
      <4>1. LittleEndian(ToBytes(v, n)) = v
        BY <3>1, UnsignedIsRead
      <4>. QED
        BY <2>1, <2>3, <4>1 DEF DecodeField
    <3>3. Nearest(ToF32(v), v)
      BY <1>0, <3>1, WordsAreNear
    <3>. QED
      BY <2>3, <3>2, <3>3 DEF ComesOut
  <2>. QED
    BY <2>1, <2>2, <2>3
<1>. QED
  BY <1>1, <1>2, <1>3, FieldForms

\* Whatever the target puts into a packet of any structure, numbers of the full
\* range of their types, decode_bytes gives it back, up to the precision of f32.
THEOREM PacketIsDecoded ==
  ASSUME NEW s \in AnyStructures, NEW time \in UnsignedOf(4), NEW numbers,
         Fits(numbers, s)
  PROVE  Decoded(s, time, numbers)
<1>. DEFINE b == PacketOf(s, time, numbers)
            d == decode_bytes(s, b)
<1>1. time \in Int
  BY Ranges DEF From
<1>2. /\ Len(b) = packet_size(s)
      /\ s.has_u32_us_time => SubSeq(b, 1, 4) = ToBytes(time, 4)
      /\ \A i \in DOMAIN s.fields :
           SubSeq(b, Offset(s, i) + 1, Offset(s, i + 1))
             = ToBytes(numbers[i], s.fields[i].size)
  BY <1>1, PacketLayout
<1>. HIDE DEF b
<1>3. /\ d.time = IF s.has_u32_us_time THEN LittleEndian(SubSeq(b, 1, 4)) ELSE -1
      /\ \A i \in DOMAIN s.fields :
           d.values[i] = DecodeField(s.fields[i],
                           SubSeq(b, Offset(s, i) + 1, Offset(s, i + 1)))
  BY DEF decode_bytes
<1>. HIDE DEF d
<1>4. d.time = IF s.has_u32_us_time THEN time ELSE -1
  <2>1. LittleEndian(ToBytes(time, 4)) = time
    BY UnsignedIsRead
  <2>. QED
    BY <1>2, <1>3, <2>1
<1>5. ASSUME NEW i \in DOMAIN numbers
      PROVE  ComesOut(s.fields[i], d.values[i], numbers[i])
  <2>1. i \in DOMAIN s.fields /\ numbers[i] \in Values(s.fields[i])
    BY DEF Fits
  <2>2. s.fields[i] \in Fields
    BY <2>1, StructureFields
  <2>3. d.values[i] = DecodeField(s.fields[i], ToBytes(numbers[i], s.fields[i].size))
    BY <1>2, <1>3, <2>1
  <2>. QED
    BY <2>1, <2>2, <2>3, FieldIsDecoded
<1>. QED
  BY <1>2, <1>4, <1>5 DEF Decoded, b, d

\* The boundaries that the runs try are numbers of the types.
LEMMA NumbersAreValues ==
  ASSUME NEW f \in Fields
  PROVE  Numbers(f) \subseteq Values(f)
<1>1. CASE f = [type |-> "Boolean", size |-> 1]
  <2>1. f.type = "Boolean" /\ f.size = 1
    BY <1>1
  <2>2. Numbers(f) = {0, 1, 255}
    BY <2>1 DEF Numbers
  <2>3. {0, 1, 255} \subseteq From(0, 256)
    BY DEF From
  <2>. QED
    BY <2>1, <2>2, <2>3, Ranges DEF Values
<1>2. CASE f = [type |-> "Float", size |-> 4]
  <2>1. f.type = "Float" /\ f.size = 4
    BY <1>2
  <2>2. Numbers(f) = {0}
    BY <2>1 DEF Numbers
  <2>3. 0 \in UnsignedOf(4)
    <3>1. 0 \in From(0, 4294967296)
      BY DEF From
    <3>. QED
      BY <3>1, Ranges
  <2>. QED
    BY <2>1, <2>2, <2>3 DEF Values
<1>3. ASSUME NEW n \in {1, 2, 4}, f = [type |-> "Signed", size |-> n]
      PROVE  Numbers(f) \subseteq Values(f)
  <2>1. f.type = "Signed" /\ f.size = n /\ Values(f) = SignedOf(n)
    BY <1>3 DEF Values
  <2>2. CASE n = 1
    <3>1. Power256[n + 1] \div 2 = 128
      BY <2>2, Powers
    <3>2. Numbers(f) = {-1, 0, 1, 128 - 1, -128}
      BY <2>1, <2>2, <3>1 DEF Numbers
    <3>3. {-1, 0, 1, 128 - 1, -128} \subseteq From(-128, 128)
      BY DEF From
    <3>. QED
      BY <2>1, <2>2, <3>2, <3>3, Ranges
  <2>3. CASE n = 2
    <3>1. Power256[n + 1] \div 2 = 32768
      BY <2>3, Powers
    <3>2. Numbers(f) = {-1, 0, 1, 32768 - 1, -32768}
      BY <2>1, <2>3, <3>1 DEF Numbers
    <3>3. {-1, 0, 1, 32768 - 1, -32768} \subseteq From(-32768, 32768)
      BY DEF From
    <3>. QED
      BY <2>1, <2>3, <3>2, <3>3, Ranges
  <2>4. CASE n = 4
    <3>1. Numbers(f) = WideNumbers \cup NegativeNumbers
      BY <2>1, <2>4 DEF Numbers
    <3>2. \A x \in WideNumbers \cup NegativeNumbers : x \in From(-2147483648, 2147483648)
      BY DEF From, WideNumbers, NegativeNumbers
    <3>3. \A x \in Numbers(f) : x \in Values(f)
      BY <2>1, <2>4, <3>1, <3>2, Ranges
    <3>. QED
      BY <3>3
  <2>. QED
    BY <2>2, <2>3, <2>4
<1>4. ASSUME NEW n \in {1, 2, 4}, f = [type |-> "Unsigned", size |-> n]
      PROVE  Numbers(f) \subseteq Values(f)
  <2>1. f.type = "Unsigned" /\ f.size = n /\ Values(f) = UnsignedOf(n)
    BY <1>4 DEF Values
  <2>2. CASE n = 1
    <3>1. Power256[n + 1] - 1 = 255
      BY <2>2, Powers
    <3>2. Numbers(f) = {0, 1, 255}
      BY <2>1, <2>2, <3>1 DEF Numbers
    <3>3. {0, 1, 255} \subseteq From(0, 256)
      BY DEF From
    <3>. QED
      BY <2>1, <2>2, <3>2, <3>3, Ranges
  <2>3. CASE n = 2
    <3>1. Power256[n + 1] - 1 = 65535
      BY <2>3, Powers
    <3>2. Numbers(f) = {0, 1, 65535}
      BY <2>1, <2>3, <3>1 DEF Numbers
    <3>3. {0, 1, 65535} \subseteq From(0, 65536)
      BY DEF From
    <3>. QED
      BY <2>1, <2>3, <3>2, <3>3, Ranges
  <2>4. CASE n = 4
    <3>1. Numbers(f) = WideNumbers
      BY <2>1, <2>4 DEF Numbers
    <3>2. \A x \in WideNumbers : x \in From(0, 4294967296)
      BY DEF From, WideNumbers
    <3>3. \A x \in Numbers(f) : x \in Values(f)
      BY <2>1, <2>4, <3>1, <3>2, Ranges
    <3>. QED
      BY <3>3
  <2>. QED
    BY <2>2, <2>3, <2>4
<1>. QED
  BY <1>1, <1>2, <1>3, <1>4, FieldForms

\* So DecodesWhatIsPut holds of every structure.
THEOREM StructuresDecode ==
  ASSUME NEW s \in AnyStructures
  PROVE  DecodesWhatIsPut(s)
<1>. DEFINE All == UNION {Numbers(s.fields[i]) : i \in DOMAIN s.fields}
            Tried == {f \in [DOMAIN s.fields -> All] :
                        \A i \in DOMAIN f : f[i] \in Numbers(s.fields[i])}
<1>1. \A time \in Times : time \in UnsignedOf(4)
  <2>1. \A time \in Times : time \in From(0, 4294967296)
    BY DEF From, Times
  <2>. QED
    BY <2>1, Ranges
<1>2. ASSUME NEW time \in Times, NEW numbers \in Tried
      PROVE  Decoded(s, time, numbers)
  <2>1. /\ DOMAIN numbers = DOMAIN s.fields
        /\ \A i \in DOMAIN s.fields : numbers[i] \in Numbers(s.fields[i])
    OBVIOUS
  <2>2. \A i \in DOMAIN s.fields : s.fields[i] \in Fields
    BY StructureFields
  <2>. HIDE DEF Tried, All
  <2>3. Fits(numbers, s)
    BY <2>1, <2>2, NumbersAreValues DEF Fits
  <2>. QED
    BY <1>1, <2>3, PacketIsDecoded
<1>3. DecodesWhatIsPut(s) <=>
        \A time \in Times : \A numbers \in Tried : Decoded(s, time, numbers)
  BY Zenon DEF DecodesWhatIsPut, Decoded, ComesOut
<1>. QED
  BY <1>2, <1>3

=============================================================================
