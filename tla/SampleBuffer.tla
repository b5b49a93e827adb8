---------------------------- MODULE SampleBuffer -----------------------------
(***************************************************************************)
(* SampleBuffer of src/buffer.rs, with the binary search of                *)
(* index_before_at taken one turn of its loop at a time.  Samples arrive   *)
(* in any order: the RTT target stamps them and its counter may restart.   *)
(* Indices are 0-based, as in the code; times are integers for f64.        *)
(***************************************************************************)
EXTENDS SampleBufferOps

CONSTANTS
  Times,   \* times of samples, window bounds of plot_points
  Keeps,   \* arguments of truncate
  MaxLen   \* bound: samples in the buffer

ASSUME SampleBufferAssumption ==
  Times \subseteq Int /\ Keeps \subseteq Int /\ MaxLen \in Nat

VARIABLES
  xs,            \* self.samples
  goal,          \* who called index_before_at: truncate, plot_points; "none"
  keep_seconds,  \* argument of the last truncate, 0 after another operation
  t, a, b,       \* argument and locals of index_before_at
  from_t, to_t,  \* window of plot_points
  from_i,        \* result of its first search
  slice          \* <<lo, hi>>: plot_points returned self.samples[lo..hi]

search == <<t, a, b>>
window == <<from_t, to_t, from_i>>
vars   == <<xs, goal, keep_seconds, search, window, slice>>

NoIndex == -1  \* Option::None

x(i) == xs[i + 1]

Init ==
  /\ xs = <<>> /\ goal = "none" /\ keep_seconds = 0
  /\ t = 0 /\ a = 0 /\ b = 0
  /\ from_t = 0 /\ to_t = 0 /\ from_i = NoIndex
  /\ slice = <<0, 0>>

StartSearch(for, at) ==
  /\ goal' = for
  /\ t' = at /\ a' = 0 /\ b' = Len(xs)

\* index_before_at returns to an operation that is over; its locals die.
EndSearch(end) ==
  /\ goal' = end
  /\ t' = 0 /\ a' = 0 /\ b' = 0

\* The result of an earlier plot_points has been drawn.
ForgetPlot ==
  /\ from_t' = 0 /\ to_t' = 0 /\ from_i' = NoIndex
  /\ slice' = <<0, 0>>

\* Faulty variant of `Found`: t <= samples[a].x.
FoundBefore == IF t <= x(a) THEN NoIndex ELSE a

\* The value index_before_at returns when its loop is over.
Found == IF t < x(a) THEN NoIndex ELSE a

push(time) ==
  /\ goal = "none"
  /\ Len(xs) < MaxLen
  /\ xs' = Append(xs, time)
  /\ keep_seconds' = 0
  /\ ForgetPlot
  /\ UNCHANGED <<goal, search>>

\* truncate returns early on an empty buffer and on one whose first sample is
\* recent enough.
truncate(k) ==
  /\ goal = "none"
  /\ keep_seconds' = k
  /\ IF xs # <<>> /\ xs[1] < xs[Len(xs)] - k
     THEN StartSearch("truncate", xs[Len(xs)] - k)
     ELSE UNCHANGED <<goal, search>>
  /\ ForgetPlot
  /\ UNCHANGED xs

\* plot_points is called on the buffer of a signal, which has a sample, with a
\* window of non-negative width.
plot_points(from, to) ==
  /\ goal = "none" /\ xs # <<>>
  /\ from <= to
  /\ from_t' = from /\ to_t' = to
  /\ keep_seconds' = 0
  /\ StartSearch("from", from)
  /\ from_i' = NoIndex /\ slice' = <<0, 0>>
  /\ UNCHANGED xs

\* Faulty variant of `Halve`: the halves are swapped.
HalveWrongWay ==
  /\ goal # "none" /\ a + 1 < b
  /\ LET i == (a + b) \div 2 IN
       IF x(i) > t THEN a' = i /\ UNCHANGED b ELSE b' = i /\ UNCHANGED a
  /\ UNCHANGED <<xs, goal, keep_seconds, t, window, slice>>

\* One turn of the loop of index_before_at.
Halve ==
  /\ goal # "none" /\ a + 1 < b
  /\ LET i == (a + b) \div 2 IN
       IF x(i) > t THEN b' = i /\ UNCHANGED a ELSE a' = i /\ UNCHANGED b
  /\ UNCHANGED <<xs, goal, keep_seconds, t, window, slice>>

\* Faulty variant of `Drained`: drain(..a).
DrainedOneLess(i) == SubSeq(xs, i + 1, Len(xs))

\* samples.drain(..(a + 1))
Drained(i) == SubSeq(xs, i + 2, Len(xs))

\* The rest of truncate: the result is unwrapped, so None panics.
TruncateReturns ==
  /\ goal = "truncate" /\ a + 1 >= b
  /\ IF Found = NoIndex
     THEN EndSearch("panic") /\ UNCHANGED xs
     ELSE EndSearch("none") /\ xs' = Drained(Found)
  /\ UNCHANGED <<keep_seconds, window, slice>>

FromReturns ==
  /\ goal = "from" /\ a + 1 >= b
  /\ from_i' = Found
  /\ StartSearch("to", to_t)
  /\ UNCHANGED <<xs, keep_seconds, from_t, to_t, slice>>

\* Faulty variant of `Slice`: the bounds are swapped.
SliceSwapped(from, to) ==
  IF from # NoIndex /\ to # NoIndex THEN <<to, from>> ELSE <<0, Len(xs)>>

\* The match of plot_points on (from_i, to_i).
Slice(from, to) ==
  CASE from # NoIndex /\ to # NoIndex /\ to >= Len(xs) -> <<from, Len(xs)>>
    [] from # NoIndex /\ to # NoIndex /\ to < Len(xs)  -> <<from, to>>
    [] from = NoIndex /\ to # NoIndex /\ to < Len(xs)  -> <<0, to>>
    [] OTHER                                           -> <<0, Len(xs)>>

ToReturns ==
  /\ goal = "to" /\ a + 1 >= b
  /\ slice' = Slice(from_i, Found)
  /\ EndSearch("none")
  /\ UNCHANGED <<xs, keep_seconds, window>>

Next ==
  \/ \E time \in Times : push(time)
  \/ \E k \in Keeps : truncate(k)
  \/ \E from, to \in Times : plot_points(from, to)
  \/ Halve
  \/ TruncateReturns
  \/ FromReturns
  \/ ToReturns

Spec == Init /\ [][Next]_vars

-----------------------------------------------------------------------------

\* Every variable keeps its type.
TypeOK ==
  /\ xs \in Seq(Int)
  /\ goal \in {"none", "truncate", "from", "to", "panic"}
  /\ keep_seconds \in Int
  /\ t \in Int /\ a \in Nat /\ b \in Nat
  /\ from_t \in Int /\ to_t \in Int /\ from_i \in Int
  /\ slice \in Int \X Int

Searching == goal \in {"truncate", "from", "to"}

\* The binary search keeps its bounds apart and inside the buffer (what the
\* assertions in its loop say), with a sample at or before t at a, once a has
\* moved, and a later one at b, whatever the order of the samples.
LoopInvariant ==
  Searching =>
    /\ a < b /\ b <= Len(xs)
    /\ a = 0 \/ x(a) <= t
    /\ b = Len(xs) \/ x(b) > t

\* truncate's unwrap() never meets None, not even in an unordered buffer.
UnwrapNeverPanics == goal # "panic"

\* truncate does what the rest of the system relies on (SampleBufferOps).
TruncateMeetsContract ==
  [][goal = "truncate" /\ goal' = "none"
       => xs' \in Truncations(xs, keep_seconds)]_vars

Ordered == \A i, j \in DOMAIN xs : i < j => xs[i] <= xs[j]

\* After truncate(k) an ordered buffer spans at most k seconds.
WindowKept ==
  goal = "none" /\ keep_seconds > 0 /\ Ordered =>
    \A i \in DOMAIN xs : xs[i] >= xs[Len(xs)] - keep_seconds

\* plot_points never builds a range that Rust refuses (start after end, end
\* past the length), also on an unordered buffer: of two searches in the same
\* samples the one for the later time does not end before the other.
SliceIsValid == 0 <= slice[1] /\ slice[1] <= slice[2] /\ slice[2] <= Len(xs)

\* In an ordered buffer plot_points returns every sample after the start of the
\* window but the last one, and none after its end (the debug_assert!) unless
\* the whole buffer is later.
PlotCoversWindow ==
  goal = "none" /\ Ordered =>
    /\ \A i \in 0 .. Len(xs) - 2 :
         from_t < x(i) /\ x(i + 1) <= to_t => i \in slice[1] .. slice[2] - 1
    /\ from_i # NoIndex =>
         \A i \in slice[1] .. slice[2] - 1 : x(i) <= to_t

=============================================================================
