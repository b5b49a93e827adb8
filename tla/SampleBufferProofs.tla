------------------------- MODULE SampleBufferProofs --------------------------
(***************************************************************************)
(* The binary search of SampleBuffer for buffers of every length, ordered  *)
(* or not: its loop invariant, that truncate's unwrap() cannot panic, that *)
(* truncate meets the contract of SampleBufferOps, that the loop makes     *)
(* progress, that plot_points slices its buffer within its bounds and, in an*)
(* ordered one, shows the window and nothing after it.                     *)
(***************************************************************************)
EXTENDS SampleBuffer, TLAPS

\* During truncate, t is the cut-off and the first sample is before it: the
\* early return of truncate has seen to that.
TruncateStarted ==
  goal = "truncate" =>
    /\ xs # <<>>
    /\ t = xs[Len(xs)] - keep_seconds
    /\ xs[1] < t

IInv ==
  /\ TypeOK
  /\ LoopInvariant
  /\ TruncateStarted
  /\ UnwrapNeverPanics

\* A search started on a non-empty buffer begins with the loop invariant.
LEMMA StartOK ==
  ASSUME TypeOK, xs # <<>>, NEW for \in {"truncate", "from", "to"}, NEW at \in Int,
         StartSearch(for, at), xs' = xs
  PROVE  /\ LoopInvariant'
         /\ t' \in Int /\ a' \in Nat /\ b' \in Nat /\ goal' = for /\ t' = at
<1>1. Len(xs) \in Nat /\ Len(xs) > 0
  BY DEF TypeOK
<1>. QED
  BY <1>1 DEF StartSearch, LoopInvariant, Searching

\* The start of the program.
LEMMA InitOK == Init => IInv
  BY DEF Init, IInv, TypeOK, LoopInvariant, Searching, TruncateStarted,
         UnwrapNeverPanics, NoIndex

\* What index_before_at returns for truncate is an index, never None.
LEMMA FoundForTruncate ==
  ASSUME IInv, goal = "truncate", a + 1 >= b
  PROVE  /\ Found = a /\ a \in Nat /\ a < Len(xs)
         /\ xs[a + 1] <= t
         /\ a + 1 = Len(xs) \/ xs[a + 2] > t
<1>1. /\ a \in Nat /\ b \in Nat /\ xs \in Seq(Int) /\ t \in Int
      /\ a < b /\ b <= Len(xs)
      /\ a = 0 \/ xs[a + 1] <= t
      /\ b = Len(xs) \/ xs[b + 1] > t
      /\ xs[1] < t
  BY DEF IInv, TypeOK, LoopInvariant, Searching, TruncateStarted, x
<1>2. b = a + 1 /\ Len(xs) \in Nat
  BY <1>1
<1>3. xs[a + 1] \in Int /\ xs[a + 1] <= t
  BY <1>1, <1>2
<1>4. Found = a
  BY <1>1, <1>3 DEF Found, x
<1>. QED
  BY <1>1, <1>2, <1>3, <1>4

\* Every step keeps the invariant.
LEMMA NextOK == IInv /\ [Next]_vars => IInv'
<1>. SUFFICES ASSUME IInv, [Next]_vars PROVE IInv'
  OBVIOUS
<1>. USE DEF IInv
<1>1. ASSUME NEW time \in Times, push(time) PROVE IInv'
  <2>1. time \in Int
    BY SampleBufferAssumption
  <2>2. TypeOK'
    BY <1>1, <2>1 DEF push, ForgetPlot, search, TypeOK, NoIndex
  <2>. QED
    BY <1>1, <2>2 DEF push, search, LoopInvariant, Searching, TruncateStarted,
                      UnwrapNeverPanics
<1>2. ASSUME NEW k \in Keeps, truncate(k) PROVE IInv'
  <2>1. k \in Int
    BY SampleBufferAssumption
  <2>2. CASE xs # <<>> /\ xs[1] < xs[Len(xs)] - k
    <3>1. Len(xs) \in Nat /\ Len(xs) > 0 /\ xs[Len(xs)] \in Int
      BY <2>2 DEF TypeOK
    <3>2. StartSearch("truncate", xs[Len(xs)] - k) /\ xs' = xs
      BY <1>2, <2>2 DEF truncate
    <3>3. /\ LoopInvariant'
          /\ t' \in Int /\ a' \in Nat /\ b' \in Nat /\ goal' = "truncate"
          /\ t' = xs[Len(xs)] - k
      BY <2>1, <2>2, <3>1, <3>2, StartOK
    <3>4. TypeOK'
      BY <1>2, <2>1, <3>3 DEF truncate, ForgetPlot, TypeOK, NoIndex
    <3>5. TruncateStarted' /\ UnwrapNeverPanics'
      BY <1>2, <2>2, <3>3 DEF truncate, TruncateStarted, UnwrapNeverPanics
    <3>. QED
      BY <3>3, <3>4, <3>5
  <2>3. CASE ~(xs # <<>> /\ xs[1] < xs[Len(xs)] - k)
    <3>1. TypeOK'
      <4>1. UNCHANGED <<xs, goal, t, a, b>> /\ keep_seconds' \in Int
        BY <1>2, <2>1, <2>3 DEF truncate, search
      <4>2. /\ from_t' \in Int /\ to_t' \in Int /\ from_i' \in Int
            /\ slice' \in Int \X Int
        BY <1>2 DEF truncate, ForgetPlot, NoIndex
      <4>. QED
        BY <4>1, <4>2 DEF TypeOK
    <3>. QED
      BY <1>2, <2>3, <3>1 DEF truncate, search, LoopInvariant, Searching,
                              TruncateStarted, UnwrapNeverPanics
  <2>. QED
    BY <2>2, <2>3
<1>3. ASSUME NEW from \in Times, NEW to \in Times, plot_points(from, to)
      PROVE IInv'
  <2>1. from \in Int /\ to \in Int
    BY SampleBufferAssumption
  <2>2. /\ LoopInvariant'
        /\ t' \in Int /\ a' \in Nat /\ b' \in Nat /\ goal' = "from"
    BY <1>3, <2>1, StartOK DEF plot_points
  <2>3. TypeOK'
    BY <1>3, <2>1, <2>2 DEF plot_points, TypeOK, NoIndex
  <2>. QED
    BY <2>2, <2>3 DEF TruncateStarted, UnwrapNeverPanics
<1>4. CASE Halve
  <2>. DEFINE i == (a + b) \div 2
  <2>1. a \in Nat /\ b \in Nat /\ xs \in Seq(Int) /\ t \in Int /\ Len(xs) \in Nat
    BY DEF TypeOK
  <2>2. Searching
    BY <1>4 DEF Halve, Searching, TypeOK, UnwrapNeverPanics
  <2>3. a < b /\ b <= Len(xs) /\ a + 1 < b
    BY <1>4, <2>2 DEF Halve, LoopInvariant
  <2>4. i \in Nat /\ a < i /\ i < b
    BY <2>1, <2>3
  <2>5. x(i) \in Int
    BY <2>1, <2>3, <2>4 DEF x
  <2>6. \/ x(i) > t /\ b' = i /\ a' = a
        \/ x(i) <= t /\ a' = i /\ b' = b
    BY <1>4, <2>1, <2>5 DEF Halve
  <2>7. xs' = xs /\ t' = t /\ goal' = goal /\ keep_seconds' = keep_seconds
    BY <1>4 DEF Halve
  <2>8. TypeOK'
    BY <1>4, <2>1, <2>4, <2>6, <2>7 DEF Halve, TypeOK, window
  <2>9. LoopInvariant'
    <3>1. x(a)' = xs[a' + 1] /\ x(b)' = xs[b' + 1]
      BY <2>7 DEF x
    <3>2. /\ a = 0 \/ xs[a + 1] <= t
          /\ b = Len(xs) \/ xs[b + 1] > t
      BY <2>2 DEF LoopInvariant, x
    <3>3. CASE x(i) > t /\ b' = i /\ a' = a
      <4>1. a < i /\ i <= Len(xs) /\ xs[i + 1] > t /\ (a = 0 \/ xs[a + 1] <= t)
        BY <2>1, <2>3, <2>4, <3>2, <3>3 DEF x
      <4>2. /\ a' = a /\ b' = i /\ xs' = xs /\ t' = t
        BY <2>7, <3>3
      <4>. QED
        BY <4>1, <4>2 DEF LoopInvariant, x
    <3>4. CASE x(i) <= t /\ a' = i /\ b' = b
      <4>1. i < b /\ xs[i + 1] <= t /\ (b = Len(xs) \/ xs[b + 1] > t)
        BY <2>4, <3>2, <3>4 DEF x
      <4>2. /\ a' = i /\ b' = b /\ xs' = xs /\ t' = t /\ b <= Len(xs)
        BY <2>3, <2>7, <3>4
      <4>. QED
        BY <4>1, <4>2 DEF LoopInvariant, x
    <3>. QED
      BY <2>6, <3>3, <3>4
  <2>. QED
    BY <2>7, <2>8, <2>9 DEF TruncateStarted, UnwrapNeverPanics
<1>5. CASE TruncateReturns
  <2>1. Found = a /\ a \in Nat /\ a < Len(xs)
    BY <1>5, FoundForTruncate DEF TruncateReturns
  <2>2. EndSearch("none") /\ xs' = SubSeq(xs, a + 2, Len(xs))
    BY <1>5, <2>1 DEF TruncateReturns, NoIndex, Drained
  <2>3. xs' \in Seq(Int)
    BY <2>1, <2>2 DEF TypeOK
  <2>4. TypeOK'
    BY <1>5, <2>2, <2>3 DEF TruncateReturns, EndSearch, TypeOK, window
  <2>. QED
    BY <2>2, <2>4 DEF EndSearch, LoopInvariant, Searching, TruncateStarted,
                      UnwrapNeverPanics
<1>6. CASE FromReturns
  <2>1. goal = "from" /\ xs # <<>> /\ to_t \in Int /\ a \in Nat
    BY <1>6 DEF FromReturns, LoopInvariant, Searching, TypeOK
  <2>2. /\ LoopInvariant'
        /\ t' \in Int /\ a' \in Nat /\ b' \in Nat /\ goal' = "to"
    BY <1>6, <2>1, StartOK DEF FromReturns
  <2>3. from_i' \in Int
    BY <1>6, <2>1 DEF FromReturns, Found, NoIndex
  <2>4. TypeOK'
    BY <1>6, <2>2, <2>3 DEF FromReturns, TypeOK
  <2>. QED
    BY <2>2, <2>4 DEF TruncateStarted, UnwrapNeverPanics
<1>7. CASE ToReturns
  <2>1. a \in Nat /\ from_i \in Int /\ Len(xs) \in Nat
    BY DEF TypeOK
  <2>2. Found \in Int
    BY <2>1 DEF Found, NoIndex
  <2>3. Slice(from_i, Found) \in Int \X Int
    BY <2>1, <2>2 DEF Slice
  <2>4. TypeOK'
    BY <1>7, <2>3 DEF ToReturns, EndSearch, TypeOK, window
  <2>. QED
    BY <1>7, <2>4 DEF ToReturns, EndSearch, LoopInvariant, Searching,
                      TruncateStarted, UnwrapNeverPanics
<1>8. CASE UNCHANGED vars
  BY <1>8 DEF vars, search, window, TypeOK, LoopInvariant, Searching, x,
              TruncateStarted, UnwrapNeverPanics
<1>. QED
  BY <1>1, <1>2, <1>3, <1>4, <1>5, <1>6, <1>7, <1>8 DEF Next

\* The invariant holds throughout.
LEMMA Invariance == Spec => []IInv
  BY InitOK, NextOK, PTL DEF Spec

\* Every variable keeps its type, for buffers of every length.
THEOREM TypeCorrect == Spec => []TypeOK
  BY Invariance, PTL DEF IInv

\* The bounds of the binary search stay in order and in the buffer, and
\* enclose t, for buffers of every length and order.
THEOREM SearchCorrect == Spec => []LoopInvariant
  BY Invariance, PTL DEF IInv

\* truncate never unwraps None.
THEOREM TruncateSafe == Spec => []UnwrapNeverPanics
  BY Invariance, PTL DEF IInv

\* One step of truncate's end meets the contract.
LEMMA ContractStep ==
  IInv /\ [Next]_vars =>
    [goal = "truncate" /\ goal' = "none" => xs' \in Truncations(xs, keep_seconds)]_vars
<1>. SUFFICES ASSUME IInv, [Next]_vars, goal = "truncate", goal' = "none"
              PROVE xs' \in Truncations(xs, keep_seconds)
  OBVIOUS
<1>1. TruncateReturns
  BY DEF Next, vars, push, truncate, plot_points, Halve, FromReturns, ToReturns,
         StartSearch
<1>2. /\ Found = a /\ a \in Nat /\ a < Len(xs)
      /\ xs[a + 1] <= t
      /\ a + 1 = Len(xs) \/ xs[a + 2] > t
  BY <1>1, FoundForTruncate DEF TruncateReturns
<1>3. xs' = SubSeq(xs, (a + 1) + 1, Len(xs))
  BY <1>1, <1>2 DEF TruncateReturns, NoIndex, Drained
<1>4. Len(xs) \in Nat /\ a + 1 \in 0 .. Len(xs)
  BY <1>2 DEF IInv, TypeOK
<1>5. /\ xs # <<>> /\ t = xs[Len(xs)] - keep_seconds /\ xs[1] < t
  BY DEF IInv, TruncateStarted
<1>6. CutOK(xs, keep_seconds, a + 1)
  BY <1>2, <1>4, <1>5 DEF CutOK
<1>. QED
  BY <1>3, <1>4, <1>6 DEF Truncations

\* truncate meets the contract that OCDScope's buffers rely on.
THEOREM TruncateCorrect == Spec => TruncateMeetsContract
  BY Invariance, ContractStep, PTL DEF Spec, TruncateMeetsContract

\* The first sample left by truncate(k) is at most k seconds before the last.
Trimmed ==
  /\ goal = "none" /\ keep_seconds > 0 /\ xs # <<>> =>
       xs[1] >= xs[Len(xs)] - keep_seconds
  /\ goal \in {"from", "to"} => keep_seconds = 0

\* Removing a prefix keeps the last element.
LEMMA SuffixEnds ==
  ASSUME NEW q \in Seq(Int), NEW n \in 1 .. Len(q), NEW r, r = SubSeq(q, n, Len(q))
  PROVE  r[1] = q[n] /\ r[Len(r)] = q[Len(q)]
<1>1. Len(q) \in Nat /\ n \in Nat /\ 1 <= n /\ n <= Len(q)
  OBVIOUS
<1>2. Len(r) = Len(q) - n + 1
  BY <1>1
<1>3. \A i \in 1 .. Len(q) - n + 1 : r[i] = q[n + i - 1]
  BY <1>1
<1>. QED
  BY <1>1, <1>2, <1>3

\* One step.
LEMMA TrimmedStep == IInv /\ Trimmed /\ [Next]_vars => Trimmed'
<1>. SUFFICES ASSUME IInv, Trimmed, [Next]_vars PROVE Trimmed'
  OBVIOUS
<1>0. xs \in Seq(Int) /\ Len(xs) \in Nat /\ keep_seconds \in Int
  BY DEF IInv, TypeOK
<1>1. ASSUME NEW time, push(time) PROVE Trimmed'
  BY <1>1 DEF push, Trimmed
<1>2. ASSUME NEW k \in Keeps, truncate(k) PROVE Trimmed'
  <2>1. k \in Int
    BY SampleBufferAssumption
  <2>2. CASE xs # <<>> /\ xs[1] < xs[Len(xs)] - k
    BY <1>2, <2>2 DEF truncate, StartSearch, Trimmed
  <2>3. CASE ~(xs # <<>> /\ xs[1] < xs[Len(xs)] - k)
    <3>1. goal' = "none" /\ keep_seconds' = k /\ xs' = xs
      BY <1>2, <2>3 DEF truncate
    <3>2. xs # <<>> => xs[1] \in Int /\ xs[Len(xs)] \in Int
      BY <1>0
    <3>. QED
      BY <2>1, <2>3, <3>1, <3>2 DEF Trimmed
  <2>. QED
    BY <2>2, <2>3
<1>3. ASSUME NEW from, NEW to, plot_points(from, to) PROVE Trimmed'
  BY <1>3 DEF plot_points, StartSearch, Trimmed
<1>4. CASE TruncateReturns
  <2>1. /\ Found = a /\ a \in Nat /\ a < Len(xs)
        /\ a + 1 = Len(xs) \/ xs[a + 2] > t
    BY <1>4, FoundForTruncate DEF TruncateReturns
  <2>2. /\ xs' = SubSeq(xs, a + 2, Len(xs)) /\ goal' = "none"
        /\ keep_seconds' = keep_seconds
    BY <1>4, <2>1 DEF TruncateReturns, NoIndex, Drained, EndSearch
  <2>3. t = xs[Len(xs)] - keep_seconds
    BY <1>4 DEF IInv, TruncateStarted, TruncateReturns
  <2>4. CASE a + 1 = Len(xs)
    <3>1. xs' = <<>>
      BY <1>0, <2>1, <2>2, <2>4
    <3>. QED
      BY <2>2, <3>1 DEF Trimmed
  <2>5. CASE a + 1 # Len(xs)
    <3>1. xs'[1] = xs[a + 2] /\ xs'[Len(xs')] = xs[Len(xs)]
      <4>1. a + 2 \in 1 .. Len(xs)
        BY <1>0, <2>1, <2>5
      <4>. QED
        BY <1>0, <2>2, <4>1, SuffixEnds
    <3>2. xs[a + 2] \in Int /\ xs[Len(xs)] \in Int /\ xs[a + 2] > t
      BY <1>0, <2>1, <2>5
    <3>3. xs[a + 2] >= xs[Len(xs)] - keep_seconds
      BY <1>0, <2>3, <3>2
    <3>4. keep_seconds' = keep_seconds
      BY <2>2
    <3>5. xs'[1] >= xs'[Len(xs')] - keep_seconds'
      BY <3>1, <3>3, <3>4
    <3>. QED
      BY <2>2, <3>5 DEF Trimmed
  <2>. QED
    BY <2>4, <2>5
<1>5. CASE Halve \/ FromReturns \/ ToReturns
  BY <1>0, <1>5 DEF Halve, FromReturns, ToReturns, StartSearch, EndSearch, Trimmed
<1>6. CASE UNCHANGED vars
  BY <1>6 DEF vars, Trimmed
<1>. QED
  BY <1>1, <1>2, <1>3, <1>4, <1>5, <1>6 DEF Next

\* After truncate(k) an ordered buffer spans at most k seconds.
THEOREM TruncateKeepsWindow == Spec => []WindowKept
<1>1. Init => Trimmed
  BY DEF Init, Trimmed
<1>2. IInv /\ Trimmed => WindowKept
  <2>. SUFFICES ASSUME IInv, Trimmed, goal = "none", keep_seconds > 0, Ordered,
                       NEW i \in DOMAIN xs
                PROVE  xs[i] >= xs[Len(xs)] - keep_seconds
    BY DEF WindowKept
  <2>1. /\ xs \in Seq(Int) /\ keep_seconds \in Int /\ Len(xs) \in Nat
        /\ DOMAIN xs = 1 .. Len(xs)
    BY DEF IInv, TypeOK
  <2>2. i \in 1 .. Len(xs) /\ 1 \in 1 .. Len(xs) /\ Len(xs) \in 1 .. Len(xs)
        /\ xs # <<>>
    BY <2>1
  <2>3. xs[1] \in Int /\ xs[i] \in Int /\ xs[Len(xs)] \in Int
    BY <2>1, <2>2
  <2>4. xs[1] >= xs[Len(xs)] - keep_seconds
    BY <2>2 DEF Trimmed
  <2>5. xs[1] <= xs[i]
    BY <2>1, <2>2, <2>3 DEF Ordered
  <2>. QED
    BY <2>1, <2>3, <2>4, <2>5
<1>. QED
  BY <1>1, <1>2, Invariance, TrimmedStep, PTL DEF Spec

\* Each turn of the loop narrows the search, so index_before_at returns: b - a
\* is a natural number while it searches.
THEOREM SearchProgress ==
  ASSUME IInv, Halve
  PROVE  b - a \in Nat /\ b' - a' \in Nat /\ b' - a' < b - a
<1>1. a \in Nat /\ b \in Nat
  BY DEF IInv, TypeOK
<1>2. a + 1 < b
  BY DEF Halve
<1>. DEFINE i == (a + b) \div 2
<1>3. i \in Nat /\ a < i /\ i < b
  BY <1>1, <1>2
<1>4. (b' = i /\ a' = a) \/ (a' = i /\ b' = b)
  BY DEF Halve
<1>. QED
  BY <1>1, <1>3, <1>4

-----------------------------------------------------------------------------
(* The slice of plot_points.  Both searches start alike and, as long as     *)
(* they have met no sample in the window, go on alike; at the first such   *)
(* sample the one for the end of the window goes to its right, the other   *)
(* one to its left.                                                        *)

\* Where a search for `at` goes from c and d.
Turned(c, d, at) ==
  LET i == (c + d) \div 2 IN IF x(i) > at THEN <<c, i>> ELSE <<i, d>>

\* A search for from_t that has come to c and d has passed p.
Passed(p, c, d) ==
  /\ <<0, Len(xs)>> \in p /\ <<c, d>> \in p
  /\ \A u, v \in Nat : <<u, v>> \in p =>
       /\ u <= c /\ d <= v
       /\ <<u, v>> # <<c, d>> => u + 1 < v /\ Turned(u, v, from_t) \in p

\* The search for to_t has not left the way of the one for from_t, which ended
\* at `end`, or has left it to the right.
Beside(end) ==
  \E p \in SUBSET (Nat \X Nat) :
    /\ Passed(p, end, end + 1)
    /\ <<a, b>> \in p \/ a > end

WindowSearched ==
  /\ goal \in {"from", "to"} => from_t <= to_t
  /\ goal = "from" =>
       t = from_t /\ \E p \in SUBSET (Nat \X Nat) : Passed(p, a, b)
  /\ goal = "to" =>
       t = to_t /\ \E end \in Nat : from_i \in {NoIndex, end} /\ Beside(end)

SliceInv ==
  /\ WindowSearched
  /\ Searching => slice = <<0, 0>>
  /\ SliceIsValid

\* One turn of either search.
LEMMA HalveTurns ==
  ASSUME IInv, Halve
  PROVE  /\ a \in Nat /\ b \in Nat /\ a' \in Nat /\ b' \in Nat
         /\ <<a', b'>> = Turned(a, b, t)
         /\ a <= a' /\ b' <= b /\ a + 1 < b
         /\ xs' = xs /\ t' = t /\ goal' = goal /\ window' = window /\ slice' = slice
<1>. DEFINE i == (a + b) \div 2
<1>1. a \in Nat /\ b \in Nat /\ a + 1 < b
  BY DEF IInv, TypeOK, Halve
<1>2. i \in Nat /\ a < i /\ i < b
  BY <1>1
<1>3. (x(i) > t /\ b' = i /\ a' = a) \/ (~(x(i) > t) /\ a' = i /\ b' = b)
  BY DEF Halve
<1>4. <<a', b'>> = Turned(a, b, t)
  BY <1>3 DEF Turned
<1>. HIDE DEF i
<1>5. a <= a' /\ b' <= b /\ a' \in Nat /\ b' \in Nat
  BY <1>1, <1>2, <1>3
<1>. QED
  BY <1>1, <1>4, <1>5 DEF Halve

LEMMA FromTurn ==
  ASSUME IInv, Halve, goal = "from", WindowSearched
  PROVE  \E p \in SUBSET (Nat \X Nat) : Passed(p, a', b')
<1>1. PICK p \in SUBSET (Nat \X Nat) : Passed(p, a, b)
  BY DEF WindowSearched
<1>2. /\ a \in Nat /\ b \in Nat /\ a' \in Nat /\ b' \in Nat
      /\ <<a', b'>> = Turned(a, b, from_t)
      /\ a <= a' /\ b' <= b /\ a + 1 < b
  BY HalveTurns DEF WindowSearched
<1>. DEFINE q == p \cup {<<a', b'>>}
<1>3. q \in SUBSET (Nat \X Nat)
  BY <1>2
<1>4. <<0, Len(xs)>> \in q /\ <<a', b'>> \in q
  BY <1>1 DEF Passed
<1>5. ASSUME NEW u \in Nat, NEW v \in Nat, <<u, v>> \in q
      PROVE  /\ u <= a' /\ b' <= v
             /\ <<u, v>> # <<a', b'>> => u + 1 < v /\ Turned(u, v, from_t) \in q
  <2>1. CASE <<u, v>> \in p
    <3>1. u <= a /\ b <= v
      BY <1>1, <2>1 DEF Passed
    <3>2. u <= a' /\ b' <= v
      BY <1>2, <3>1
    <3>3. CASE u = a /\ v = b
      BY <1>2, <3>2, <3>3
    <3>4. CASE ~(u = a /\ v = b)
      <4>1. u + 1 < v /\ Turned(u, v, from_t) \in p
        BY <1>1, <2>1, <3>4 DEF Passed
      <4>. QED
        BY <3>2, <4>1
    <3>. QED
      BY <3>3, <3>4
  <2>2. CASE u = a' /\ v = b'
    BY <1>2, <2>2
  <2>. QED
    BY <1>5, <2>1, <2>2
<1>6. Passed(q, a', b')
  BY <1>4, <1>5 DEF Passed
<1>. QED
  BY <1>3, <1>6

LEMMA ToTurn ==
  ASSUME IInv, Halve, goal = "to", WindowSearched,
         NEW end \in Nat, NEW p \in SUBSET (Nat \X Nat),
         Passed(p, end, end + 1), <<a, b>> \in p \/ a > end
  PROVE  <<a', b'>> \in p \/ a' > end
<1>1. /\ a \in Nat /\ b \in Nat /\ a' \in Nat /\ b' \in Nat
      /\ <<a', b'>> = Turned(a, b, to_t)
      /\ a <= a' /\ a + 1 < b
  BY HalveTurns DEF WindowSearched
<1>2. CASE a > end
  BY <1>1, <1>2
<1>3. CASE <<a, b>> \in p
  <2>. DEFINE i == (a + b) \div 2
  <2>1. <<a, b>> # <<end, end + 1>>
    BY <1>1
  <2>2. Turned(a, b, from_t) \in p
    BY <1>1, <1>3, <2>1 DEF Passed
  <2>3. i \in Nat /\ a < i /\ i < b
    BY <1>1
  <2>4. i + 1 \in 1 .. Len(xs) /\ xs \in Seq(Int)
    <3>1. b <= Len(xs) /\ xs \in Seq(Int) /\ Len(xs) \in Nat
      BY DEF IInv, TypeOK, LoopInvariant, Searching
    <3>. QED
      BY <1>1, <2>3, <3>1
  <2>5. x(i) \in Int
    <3>. HIDE DEF i
    <3>. QED
      BY <2>4 DEF x
  <2>6. from_t \in Int /\ to_t \in Int /\ from_t <= to_t
    BY DEF IInv, TypeOK, WindowSearched
  <2>7. CASE x(i) > to_t
    <3>1. x(i) > from_t
      <4>. HIDE DEF i
      <4>. QED
        BY <2>5, <2>6, <2>7
    <3>2. Turned(a, b, to_t) = Turned(a, b, from_t)
      BY <2>7, <3>1 DEF Turned
    <3>. QED
      BY <1>1, <2>2, <3>2
  <2>8. CASE ~(x(i) > to_t) /\ ~(x(i) > from_t)
    <3>1. Turned(a, b, to_t) = Turned(a, b, from_t)
      BY <2>8 DEF Turned
    <3>. QED
      BY <1>1, <2>2, <3>1
  <2>9. CASE ~(x(i) > to_t) /\ x(i) > from_t
    <3>1. Turned(a, b, to_t) = <<i, b>> /\ Turned(a, b, from_t) = <<a, i>>
      BY <2>9 DEF Turned
    <3>2. a' = i
      BY <1>1, <3>1
    <3>3. <<a, i>> \in p
      BY <2>2, <3>1
    <3>. HIDE DEF i
    <3>4. end + 1 <= i
      BY <1>1, <2>3, <3>3 DEF Passed
    <3>. QED
      BY <2>3, <3>2, <3>4
  <2>. QED
    BY <2>7, <2>8, <2>9
<1>. QED
  BY <1>2, <1>3

\* The search for the end of the window does not end before the other one.
LEMMA ToEnds ==
  ASSUME IInv, WindowSearched, goal = "to", a + 1 >= b
  PROVE  \E end \in Nat : from_i \in {NoIndex, end} /\ end <= a
<1>1. PICK end \in Nat : from_i \in {NoIndex, end} /\ Beside(end)
  BY DEF WindowSearched
<1>2. PICK p \in SUBSET (Nat \X Nat) :
        Passed(p, end, end + 1) /\ (<<a, b>> \in p \/ a > end)
  BY <1>1 DEF Beside
<1>3. a \in Nat /\ b \in Nat
  BY DEF IInv, TypeOK
<1>4. CASE a > end
  BY <1>1, <1>3, <1>4
<1>5. CASE <<a, b>> \in p
  <2>1. <<a, b>> # <<end, end + 1>> => a + 1 < b
    BY <1>2, <1>3, <1>5 DEF Passed
  <2>2. a = end
    BY <1>3, <2>1
  <2>. QED
    BY <1>1, <2>2
<1>. QED
  BY <1>2, <1>4, <1>5

LEMMA SliceStep == IInv /\ SliceInv /\ [Next]_vars => SliceInv'
<1>. SUFFICES ASSUME IInv, SliceInv, [Next]_vars PROVE SliceInv'
  OBVIOUS
<1>0. xs \in Seq(Int) /\ Len(xs) \in Nat
  BY DEF IInv, TypeOK
<1>1. ASSUME NEW time \in Times, push(time) PROVE SliceInv'
  <2>1. xs' \in Seq(Int) /\ slice' = <<0, 0>> /\ goal' = "none"
    <3>1. time \in Int
      BY SampleBufferAssumption
    <3>. QED
      BY <1>0, <1>1, <3>1 DEF push, ForgetPlot
  <2>2. Len(xs') \in Nat
    BY <2>1
  <2>. QED
    BY <2>1, <2>2 DEF SliceInv, WindowSearched, Searching, SliceIsValid
<1>2. ASSUME NEW k \in Keeps, truncate(k) PROVE SliceInv'
  <2>1. xs' = xs /\ slice' = <<0, 0>> /\ goal' \in {"none", "truncate"}
    BY <1>2 DEF truncate, StartSearch, ForgetPlot
  <2>. QED
    BY <1>0, <2>1 DEF SliceInv, WindowSearched, Searching, SliceIsValid
<1>3. ASSUME NEW from \in Times, NEW to \in Times, plot_points(from, to)
      PROVE SliceInv'
  <2>1. /\ xs' = xs /\ slice' = <<0, 0>> /\ goal' = "from" /\ t' = from_t'
        /\ from_t' <= to_t' /\ a' = 0 /\ b' = Len(xs)
    BY <1>3 DEF plot_points, StartSearch
  <2>. DEFINE p == {<<0, Len(xs)>>}
  <2>2. p \in SUBSET (Nat \X Nat)
    BY <1>0
  <2>3. Passed(p, a, b)'
    BY <1>0, <2>1 DEF Passed
  <2>4. \E q \in SUBSET (Nat \X Nat) : Passed(q, a, b)'
    BY <2>2, <2>3
  <2>. QED
    BY <1>0, <2>1, <2>4 DEF SliceInv, WindowSearched, SliceIsValid
<1>4. CASE Halve
  <2>1. /\ xs' = xs /\ t' = t /\ goal' = goal /\ window' = window /\ slice' = slice
    BY <1>4, HalveTurns
  <2>2. from_t' = from_t /\ to_t' = to_t /\ from_i' = from_i
    BY <2>1 DEF window
  <2>3. WindowSearched
    BY DEF SliceInv
  <2>5. CASE goal = "from"
    <3>1. PICK p \in SUBSET (Nat \X Nat) : Passed(p, a', b')
      BY <1>4, <2>3, <2>5, FromTurn
    <3>2. Passed(p, a, b)'
      BY <2>1, <2>2, <3>1 DEF Passed, Turned, x
    <3>3. \E q \in SUBSET (Nat \X Nat) : Passed(q, a, b)'
      BY <3>2
    <3>. QED
      BY <2>1, <2>2, <2>5, <3>3 DEF SliceInv, WindowSearched, Searching, SliceIsValid
  <2>6. CASE goal = "to"
    <3>1. PICK end \in Nat : from_i \in {NoIndex, end} /\ Beside(end)
      BY <2>3, <2>6 DEF WindowSearched
    <3>2. PICK p \in SUBSET (Nat \X Nat) :
            Passed(p, end, end + 1) /\ (<<a, b>> \in p \/ a > end)
      BY <3>1 DEF Beside
    <3>3. <<a', b'>> \in p \/ a' > end
      BY <1>4, <2>3, <2>6, <3>2, ToTurn
    <3>4. Passed(p, end, end + 1)'
      BY <2>1, <2>2, <3>2 DEF Passed, Turned, x
    <3>5. Beside(end)'
      BY <3>3, <3>4 DEF Beside
    <3>. QED
      BY <2>1, <2>2, <2>6, <3>1, <3>5
         DEF SliceInv, WindowSearched, Searching, SliceIsValid
  <2>7. CASE goal \notin {"from", "to"}
    BY <2>1, <2>7 DEF SliceInv, WindowSearched, Searching, SliceIsValid
  <2>. QED
    BY <2>5, <2>6, <2>7
<1>5. CASE TruncateReturns
  <2>1. /\ Found = a /\ a \in Nat /\ a < Len(xs)
    BY <1>5, FoundForTruncate DEF TruncateReturns
  <2>2. xs' = SubSeq(xs, a + 2, Len(xs)) /\ goal' = "none" /\ slice' = slice
    BY <1>5, <2>1 DEF TruncateReturns, NoIndex, Drained, EndSearch
  <2>3. slice = <<0, 0>>
    BY <1>5 DEF TruncateReturns, SliceInv, Searching
  <2>4. Len(xs') \in Nat
    BY <1>0, <2>1, <2>2
  <2>5. slice' = <<0, 0>> /\ goal' = "none"
    BY <2>2, <2>3
  <2>. QED
    BY <2>4, <2>5 DEF SliceInv, WindowSearched, Searching, SliceIsValid
<1>6. CASE FromReturns
  <2>1. /\ goal = "from" /\ goal' = "to" /\ from_i' = Found /\ t' = to_t
        /\ a' = 0 /\ b' = Len(xs) /\ from_t' = from_t /\ to_t' = to_t
        /\ xs' = xs /\ slice' = slice /\ a + 1 >= b
    BY <1>6 DEF FromReturns, StartSearch
  <2>2. a \in Nat /\ b \in Nat /\ a < b
    BY <2>1 DEF IInv, TypeOK, LoopInvariant, Searching
  <2>3. b = a + 1
    BY <2>1, <2>2
  <2>4. PICK p \in SUBSET (Nat \X Nat) : Passed(p, a, b)
    BY <2>1 DEF SliceInv, WindowSearched
  <2>5. PICK end \in Nat : end = a
    BY <2>2
  <2>6. Passed(p, end, end + 1)'
    BY <2>1, <2>3, <2>4, <2>5 DEF Passed, Turned, x
  <2>7. <<a', b'>> \in p
    BY <2>1, <2>4 DEF Passed
  <2>8. Beside(end)'
    BY <2>6, <2>7 DEF Beside
  <2>9. from_i' \in {NoIndex, end}
    BY <2>1, <2>5 DEF Found
  <2>. QED
    BY <2>1, <2>8, <2>9 DEF SliceInv, WindowSearched, Searching, SliceIsValid
<1>7. CASE ToReturns
  <2>1. /\ goal = "to" /\ a + 1 >= b /\ goal' = "none" /\ xs' = xs
        /\ slice' = Slice(from_i, Found)
    BY <1>7 DEF ToReturns, EndSearch
  <2>2. PICK end \in Nat : from_i \in {NoIndex, end} /\ end <= a
    BY <2>1, ToEnds DEF SliceInv
  <2>3. a \in Nat /\ a < Len(xs)
    BY <1>0, <2>1 DEF IInv, TypeOK, LoopInvariant, Searching
  <2>4. Found \in {NoIndex, a}
    BY DEF Found
  <2>5. slice' \in {<<end, a>>, <<0, a>>, <<0, Len(xs)>>}
    BY <1>0, <2>1, <2>2, <2>3, <2>4 DEF Slice, NoIndex
  <2>6. SliceIsValid'
    BY <1>0, <2>1, <2>2, <2>3, <2>5 DEF SliceIsValid
  <2>. QED
    BY <2>1, <2>6 DEF SliceInv, WindowSearched, Searching
<1>8. CASE UNCHANGED vars
  <2>1. /\ xs' = xs /\ goal' = goal /\ t' = t /\ a' = a /\ b' = b /\ from_t' = from_t
        /\ to_t' = to_t /\ from_i' = from_i /\ slice' = slice
    BY <1>8 DEF vars, search, window
  <2>2. ASSUME NEW p PROVE Passed(p, a, b) => Passed(p, a, b)'
    BY <2>1 DEF Passed, Turned, x
  <2>3. ASSUME NEW end PROVE Beside(end) => Beside(end)'
    <3>1. ASSUME NEW p PROVE Passed(p, end, end + 1) => Passed(p, end, end + 1)'
      BY <2>1 DEF Passed, Turned, x
    <3>. QED
      BY <2>1, <3>1 DEF Beside
  <2>4. WindowSearched'
    BY <2>1, <2>2, <2>3 DEF SliceInv, WindowSearched
  <2>. QED
    BY <2>1, <2>4 DEF SliceInv, Searching, SliceIsValid
<1>. QED
  BY <1>1, <1>2, <1>3, <1>4, <1>5, <1>6, <1>7, <1>8 DEF Next

\* plot_points slices its samples within their bounds, for buffers of every
\* length and order and every window.
THEOREM SliceCorrect == Spec => []SliceIsValid
<1>1. Init => SliceInv
  BY DEF Init, SliceInv, WindowSearched, Searching, SliceIsValid
<1>2. SliceInv => SliceIsValid
  BY DEF SliceInv
<1>. QED
  BY <1>1, <1>2, Invariance, SliceStep, PTL DEF Spec

-----------------------------------------------------------------------------
(* What the slice holds.                                                   *)

\* index_before_at(at) has returned i.
Splits(i, at) ==
  \/ i = NoIndex /\ x(0) > at
  \/ /\ i \in 0 .. Len(xs) - 1 /\ x(i) <= at
     /\ i + 1 = Len(xs) \/ x(i + 1) > at

NoPlot == slice = <<0, 0>> /\ from_t = 0 /\ to_t = 0 /\ from_i = NoIndex

\* The bounds of the slice came from two searches.
Plotted ==
  /\ xs # <<>> /\ from_t <= to_t
  /\ Splits(from_i, from_t)
  /\ \E to_i \in Int : Splits(to_i, to_t) /\ slice = Slice(from_i, to_i)

PlotInv ==
  /\ goal = "truncate" => NoPlot
  /\ goal = "to" => Splits(from_i, from_t)
  /\ goal = "none" => NoPlot \/ Plotted

LEMMA FoundSplits ==
  ASSUME IInv, Searching, a + 1 >= b
  PROVE  xs # <<>> /\ Found \in Int /\ Splits(Found, t)
<1>1. /\ a \in Nat /\ b \in Nat /\ xs \in Seq(Int) /\ t \in Int /\ Len(xs) \in Nat
      /\ a < b /\ b <= Len(xs)
      /\ a = 0 \/ x(a) <= t
      /\ b = Len(xs) \/ x(b) > t
  BY DEF IInv, TypeOK, LoopInvariant
<1>2. b = a + 1 /\ a \in 0 .. Len(xs) - 1 /\ xs # <<>> /\ a + 1 \in 1 .. Len(xs)
  BY <1>1
<1>3. x(a) \in Int
  BY <1>1, <1>2 DEF x
<1>4. CASE t < x(a)
  <2>1. a = 0
    BY <1>1, <1>3, <1>4
  <2>. QED
    BY <1>1, <1>2, <1>3, <1>4, <2>1 DEF Found, Splits, NoIndex
<1>5. CASE ~(t < x(a))
  BY <1>1, <1>2, <1>3, <1>5 DEF Found, Splits
<1>. QED
  BY <1>4, <1>5

LEMMA PlotStep == IInv /\ SliceInv /\ PlotInv /\ [Next]_vars => PlotInv'
<1>. SUFFICES ASSUME IInv, SliceInv, PlotInv, [Next]_vars PROVE PlotInv'
  OBVIOUS
<1>1. ASSUME NEW time, push(time) PROVE PlotInv'
  BY <1>1 DEF push, ForgetPlot, PlotInv, NoPlot
<1>2. ASSUME NEW k, truncate(k) PROVE PlotInv'
  BY <1>2 DEF truncate, StartSearch, ForgetPlot, PlotInv, NoPlot
<1>3. ASSUME NEW from, NEW to, plot_points(from, to) PROVE PlotInv'
  BY <1>3 DEF plot_points, StartSearch, PlotInv
<1>4. CASE Halve \/ UNCHANGED vars
  <2>1. /\ xs' = xs /\ goal' = goal /\ from_t' = from_t /\ to_t' = to_t
        /\ from_i' = from_i /\ slice' = slice
    BY <1>4 DEF Halve, vars, window
  <2>2. Splits(from_i, from_t) => Splits(from_i, from_t)'
    BY <2>1 DEF Splits, x
  <2>3. Plotted => Plotted'
    <3>1. ASSUME NEW i PROVE Splits(i, to_t) => Splits(i, to_t)'
      BY <2>1 DEF Splits, x
    <3>2. ASSUME NEW i PROVE Slice(from_i, i)' = Slice(from_i, i)
      BY <2>1 DEF Slice
    <3>. QED
      BY <2>1, <2>2, <3>1, <3>2 DEF Plotted
  <2>. QED
    BY <2>1, <2>2, <2>3 DEF PlotInv, NoPlot
<1>5. CASE TruncateReturns
  BY <1>5 DEF TruncateReturns, EndSearch, window, PlotInv, NoPlot
<1>6. CASE FromReturns
  <2>1. /\ goal = "from" /\ goal' = "to" /\ from_i' = Found /\ from_t' = from_t
        /\ xs' = xs /\ a + 1 >= b
    BY <1>6 DEF FromReturns, StartSearch
  <2>2. Splits(Found, from_t)
    BY <2>1, FoundSplits DEF Searching, SliceInv, WindowSearched
  <2>3. Splits(from_i, from_t)'
    BY <2>1, <2>2 DEF Splits, x
  <2>. QED
    BY <2>1, <2>3 DEF PlotInv
<1>7. CASE ToReturns
  <2>1. /\ goal = "to" /\ goal' = "none" /\ slice' = Slice(from_i, Found)
        /\ xs' = xs /\ a + 1 >= b /\ window' = window
    BY <1>7 DEF ToReturns, EndSearch
  <2>2. from_t' = from_t /\ to_t' = to_t /\ from_i' = from_i
    BY <2>1 DEF window
  <2>3. xs # <<>> /\ Found \in Int /\ Splits(Found, to_t) /\ from_t <= to_t
    BY <2>1, FoundSplits DEF Searching, SliceInv, WindowSearched
  <2>4. Splits(from_i, from_t)'
    BY <2>1, <2>2 DEF PlotInv, Splits, x
  <2>5. PICK i \in Int : i = Found
    BY <2>3
  <2>6. Splits(i, to_t)'
    BY <2>1, <2>2, <2>3, <2>5 DEF Splits, x
  <2>7. slice' = Slice(from_i, i)'
    BY <2>1, <2>2, <2>5 DEF Slice
  <2>8. Plotted'
    BY <2>1, <2>2, <2>3, <2>4, <2>6, <2>7 DEF Plotted
  <2>. QED
    BY <2>1, <2>8 DEF PlotInv
<1>. QED
  BY <1>1, <1>2, <1>3, <1>4, <1>5, <1>6, <1>7 DEF Next

\* In an ordered buffer the result of a search separates what is before from what
\* is after.
LEMMA SplitsOrdered ==
  ASSUME TypeOK, Ordered, xs # <<>>, NEW i \in Int, NEW at \in Int, Splits(i, at),
         NEW j \in 0 .. Len(xs) - 1
  PROVE  /\ x(j) \in Int
         /\ i = NoIndex => x(j) > at
         /\ i # NoIndex => i \in 0 .. Len(xs) - 1 /\ (j <= i <=> x(j) <= at)
<1>1. xs \in Seq(Int) /\ Len(xs) \in Nat /\ DOMAIN xs = 1 .. Len(xs) /\ j \in Nat
  BY DEF TypeOK
<1>2. \A k \in 0 .. Len(xs) - 1 : k + 1 \in 1 .. Len(xs) /\ x(k) \in Int
  BY <1>1 DEF x
<1>3. \A k, l \in 0 .. Len(xs) - 1 : k <= l => x(k) <= x(l)
  <2>. SUFFICES ASSUME NEW k \in 0 .. Len(xs) - 1, NEW l \in 0 .. Len(xs) - 1, k <= l
                PROVE  x(k) <= x(l)
    OBVIOUS
  <2>1. CASE k = l
    BY <1>2, <2>1
  <2>2. CASE k # l
    <3>1. k + 1 \in DOMAIN xs /\ l + 1 \in DOMAIN xs /\ k + 1 < l + 1
      BY <1>1, <2>2
    <3>. QED
      BY <3>1 DEF Ordered, x
  <2>. QED
    BY <2>1, <2>2
<1>4. CASE i = NoIndex
  <2>1. 0 \in 0 .. Len(xs) - 1 /\ 0 <= j
    BY <1>1
  <2>2. x(0) <= x(j) /\ x(0) \in Int /\ x(j) \in Int
    BY <1>2, <1>3, <2>1
  <2>3. x(0) > at
    BY <1>4 DEF Splits, NoIndex
  <2>. QED
    BY <1>4, <2>2, <2>3
<1>5. CASE i # NoIndex
  <2>1. i \in 0 .. Len(xs) - 1 /\ x(i) <= at /\ (i + 1 = Len(xs) \/ x(i + 1) > at)
    BY <1>5 DEF Splits
  <2>0. x(j) \in Int /\ x(i) \in Int /\ i \in Nat
    <3>1. i \in 0 .. Len(xs) - 1 /\ Len(xs) \in Nat
      BY <1>1, <2>1
    <3>2. i \in Nat
      BY <3>1
    <3>. QED
      BY <1>2, <3>1, <3>2
  <2>2. CASE j <= i
    <3>1. x(j) <= x(i)
      BY <1>3, <2>1, <2>2
    <3>2. x(j) <= at
      BY <2>0, <2>1, <3>1
    <3>. QED
      BY <1>5, <2>0, <2>1, <2>2, <3>2
  <2>3. CASE ~(j <= i)
    <3>0. Len(xs) \in Nat /\ j \in Nat /\ j <= Len(xs) - 1 /\ i \in Nat /\ ~(j <= i)
      BY <1>1, <2>0, <2>3
    <3>1. i + 1 # Len(xs)
      BY <3>0
    <3>5. i + 1 \in 0 .. Len(xs) - 1 /\ i + 1 <= j
      BY <3>0
    <3>2. PICK k \in 0 .. Len(xs) - 1 : k = i + 1 /\ k <= j
      BY <3>5
    <3>3. x(k) > at /\ x(k) <= x(j) /\ x(k) \in Int
      BY <1>2, <1>3, <2>1, <3>1, <3>2
    <3>4. ~(x(j) <= at)
      BY <2>0, <3>3
    <3>. QED
      BY <1>5, <2>0, <2>1, <2>3, <3>4
  <2>. QED
    BY <2>2, <2>3
<1>. QED
  BY <1>4, <1>5

LEMMA PlottedCovers ==
  ASSUME TypeOK, Ordered, Plotted
  PROVE  /\ \A i \in 0 .. Len(xs) - 2 :
              from_t < x(i) /\ x(i + 1) <= to_t => i \in slice[1] .. slice[2] - 1
         /\ from_i # NoIndex =>
              \A i \in slice[1] .. slice[2] - 1 : x(i) <= to_t
<1>1. /\ from_t \in Int /\ to_t \in Int /\ from_i \in Int /\ Len(xs) \in Nat
      /\ xs # <<>> /\ from_t <= to_t /\ Splits(from_i, from_t)
  BY DEF TypeOK, Plotted
<1>2. PICK to_i \in Int : Splits(to_i, to_t) /\ slice = Slice(from_i, to_i)
  BY DEF Plotted
<1>3. \A j \in 0 .. Len(xs) - 1 :
        /\ x(j) \in Int
        /\ from_i = NoIndex => x(j) > from_t
        /\ from_i # NoIndex => from_i \in 0 .. Len(xs) - 1 /\ (j <= from_i <=> x(j) <= from_t)
  BY <1>1, SplitsOrdered
<1>4. \A j \in 0 .. Len(xs) - 1 :
        /\ to_i = NoIndex => x(j) > to_t
        /\ to_i # NoIndex => to_i \in 0 .. Len(xs) - 1 /\ (j <= to_i <=> x(j) <= to_t)
  BY <1>1, <1>2, SplitsOrdered
<1>5. 0 \in 0 .. Len(xs) - 1
  BY <1>1 DEF TypeOK
<1>6. CASE to_i = NoIndex
  <2>1. \A i \in 0 .. Len(xs) - 2 : ~(x(i + 1) <= to_t)
    <3>1. \A i \in 0 .. Len(xs) - 2 : i + 1 \in 0 .. Len(xs) - 1
      BY <1>1
    <3>. QED
      BY <1>1, <1>3, <1>4, <1>6, <3>1
  <2>2. from_i = NoIndex
    <3>. SUFFICES ASSUME from_i # NoIndex PROVE FALSE
      OBVIOUS
    <3>1. x(0) <= from_t /\ x(0) > to_t /\ x(0) \in Int
      BY <1>1, <1>3, <1>4, <1>5, <1>6
    <3>. QED
      BY <1>1, <3>1
  <2>. QED
    BY <2>1, <2>2
<1>7. CASE to_i # NoIndex
  <2>1. to_i \in 0 .. Len(xs) - 1 /\ to_i < Len(xs)
    BY <1>4, <1>5, <1>7, <1>1
  <2>2. slice = <<IF from_i = NoIndex THEN 0 ELSE from_i, to_i>>
    BY <1>1, <1>2, <1>7, <2>1 DEF Slice
  <2>3. ASSUME NEW i \in 0 .. Len(xs) - 2, from_t < x(i), x(i + 1) <= to_t
        PROVE  i \in slice[1] .. slice[2] - 1
    <3>1. i \in 0 .. Len(xs) - 1 /\ i + 1 \in 0 .. Len(xs) - 1 /\ i \in Nat
      BY <1>1
    <3>2. i + 1 <= to_i
      BY <1>4, <1>7, <2>3, <3>1
    <3>3. from_i # NoIndex => from_i \in Nat /\ ~(i <= from_i)
      <4>1. x(i) \in Int /\ ~(x(i) <= from_t)
        BY <1>1, <1>3, <2>3, <3>1
      <4>2. from_i # NoIndex => from_i \in 0 .. Len(xs) - 1 /\ ~(i <= from_i)
        BY <1>3, <3>1, <4>1
      <4>. QED
        BY <4>2
    <3>4. CASE from_i = NoIndex
      <4>1. slice[1] = 0 /\ slice[2] = to_i
        BY <2>2, <3>4
      <4>. QED
        BY <2>1, <3>1, <3>2, <4>1
    <3>5. CASE from_i # NoIndex
      <4>1. slice[1] = from_i /\ slice[2] = to_i
        BY <2>2, <3>5
      <4>. QED
        BY <2>1, <3>1, <3>2, <3>3, <3>5, <4>1
    <3>. QED
      BY <3>4, <3>5
  <2>4. ASSUME from_i # NoIndex, NEW i \in slice[1] .. slice[2] - 1
        PROVE  x(i) <= to_t
    <3>1. slice[1] = from_i /\ slice[2] = to_i /\ from_i \in 0 .. Len(xs) - 1
      BY <1>3, <1>5, <2>2, <2>4
    <3>2. i \in 0 .. Len(xs) - 1 /\ i <= to_i
      BY <1>1, <2>1, <3>1
    <3>. QED
      BY <1>4, <1>7, <3>2
  <2>. QED
    BY <2>3, <2>4
<1>. QED
  BY <1>6, <1>7

\* In an ordered buffer plot_points shows the window: every sample in it that has
\* a successor in it, and none after it, for buffers of every length.
THEOREM PlotCorrect == Spec => []PlotCoversWindow
<1>1. Init => SliceInv
  BY DEF Init, SliceInv, WindowSearched, Searching, SliceIsValid
<1>2. Init => PlotInv
  BY DEF Init, PlotInv, NoPlot
<1>3. IInv /\ PlotInv => PlotCoversWindow
  <2>. SUFFICES ASSUME IInv, PlotInv, goal = "none", Ordered
                PROVE  /\ \A i \in 0 .. Len(xs) - 2 :
                            from_t < x(i) /\ x(i + 1) <= to_t =>
                              i \in slice[1] .. slice[2] - 1
                       /\ from_i # NoIndex =>
                            \A i \in slice[1] .. slice[2] - 1 : x(i) <= to_t
    BY DEF PlotCoversWindow
  <2>1. CASE Plotted
    BY <2>1, PlottedCovers DEF IInv
  <2>2. CASE NoPlot
    <3>1. from_t = 0 /\ to_t = 0 /\ from_i = NoIndex
      BY <2>2 DEF NoPlot
    <3>2. ASSUME NEW i \in 0 .. Len(xs) - 2 PROVE ~(0 < x(i) /\ x(i + 1) <= 0)
      <4>1. xs \in Seq(Int) /\ Len(xs) \in Nat /\ i \in Nat
        BY DEF IInv, TypeOK
      <4>2. /\ i + 1 \in DOMAIN xs /\ (i + 1) + 1 \in DOMAIN xs
            /\ i + 1 < (i + 1) + 1
        BY <4>1
      <4>3. xs[i + 1] <= xs[(i + 1) + 1]
        BY <4>2 DEF Ordered
      <4>4. x(i) <= x(i + 1) /\ x(i) \in Int /\ x(i + 1) \in Int
        BY <4>1, <4>2, <4>3 DEF x
      <4>. QED
        BY <4>4
    <3>. QED
      BY <3>1, <3>2
  <2>. QED
    BY <2>1, <2>2 DEF PlotInv
<1>. QED
  BY <1>1, <1>2, <1>3, Invariance, SliceStep, PlotStep, PTL DEF Spec

=============================================================================
