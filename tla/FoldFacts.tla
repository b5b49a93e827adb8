------------------------------ MODULE FoldFacts ------------------------------
(***************************************************************************)
(* What FoldLeft of the community modules does, for the proofs about the   *)
(* closures that the code folds over its lines, fields and bytes: it goes  *)
(* through the sequence from its first element to its last (FoldTrace),    *)
(* one more element is one more step (FoldAppend), and what every step     *)
(* keeps holds of its result (FoldInvariant).                              *)
(*                                                                         *)
(* The operator that is folded is a constant of this module.  A proof      *)
(* instantiates the module once per operator and cites the instance, which *)
(* is how it reasons by induction over the sequence.                       *)
(***************************************************************************)
EXTENDS Integers, SequencesExt, SequenceTheorems, WellFoundedInduction, TLAPS

CONSTANTS
  op(_, _),   \* the closure
  base,       \* what it starts with
  P(_, _, _)  \* what is claimed of a sequence, an index and the value there

-----------------------------------------------------------------------------

\* A set of numbers that is not empty has a least member.
LEMMA LeastNatural ==
  ASSUME NEW T, T \subseteq Nat, T # {}
  PROVE  \E x \in T : \A y \in T : x <= y
<1>. DEFINE R == {ss \in Nat \X Nat : ss[1] < ss[2]}
<1>1. IsWellFoundedOn(R, Nat)
  BY NatLessThanWellFounded DEF OpToRel
<1>. HIDE DEF R
<1>2. PICK x \in T : \A y \in T : ~(<<y, x>> \in R)
  BY <1>1, WFMin
<1>3. ASSUME NEW y \in T PROVE x <= y
  <2>1. <<y, x>> \in Nat \X Nat /\ <<y, x>>[1] = y /\ <<y, x>>[2] = x
    OBVIOUS
  <2>2. y < x => <<y, x>> \in R
    BY <2>1 DEF R
  <2>. QED
    BY <1>2, <1>3, <2>2
<1>. QED
  BY <1>3

\* FoldLeft picks the greatest index that is left: there is one.
LEMMA GreatestIndex ==
  ASSUME NEW n \in Nat, NEW T \in SUBSET (1 .. n), T # {}
  PROVE  Max(T) \in T /\ \A y \in T : y <= Max(T)
<1>. DEFINE D == {n - x : x \in T}
<1>1. D \subseteq Nat /\ D # {}
  <2>1. \A x \in T : x \in Nat /\ n - x \in Nat
    OBVIOUS
  <2>. QED
    BY <2>1
<1>2. PICK d \in D : \A e \in D : d <= e
  BY <1>1, LeastNatural
<1>3. PICK x \in T : d = n - x
  OBVIOUS
<1>4. \A y \in T : y <= x
  <2>1. SUFFICES ASSUME NEW y \in T PROVE y <= x
    OBVIOUS
  <2>2. d <= n - y
    BY <1>2
  <2>. QED
    BY <1>3, <2>2
<1>5. x \in T /\ \A y \in T : x >= y
  BY <1>4
<1>. QED
  BY <1>5 DEF Max

LEMMA GreatestOfInterval ==
  ASSUME NEW k \in Nat, k # 0
  PROVE  Max(1 .. k) = k
<1>. DEFINE I == 1 .. k
<1>0. I \in SUBSET (1 .. k) /\ k \in I
  OBVIOUS
<1>. HIDE DEF I
<1>1. Max(I) \in I /\ \A y \in I : y <= Max(I)
  BY <1>0, GreatestIndex
<1>. QED
  BY <1>0, <1>1 DEF I

\* The recursive function that FoldLeft is defined by: `g` follows it on the
\* sets of indices up to k.
Folds(g, s, k) ==
  g = [T \in SUBSET (1 .. k) |->
         IF T = {} THEN base ELSE op(g[T \ {Max(T)}], s[Max(T)])]

LEMMA FoldsExtend ==
  ASSUME NEW s, NEW k \in Nat, k # 0, NEW g, Folds(g, s, k - 1)
  PROVE  \E h : Folds(h, s, k)
<1>. DEFINE h == [T \in SUBSET (1 .. k) |->
                    IF k \in T THEN op(g[T \ {k}], s[k]) ELSE g[T]]
<1>1. \A T \in SUBSET (1 .. k - 1) :
        g[T] = IF T = {} THEN base ELSE op(g[T \ {Max(T)}], s[Max(T)])
  BY DEF Folds
<1>2. ASSUME NEW T \in SUBSET (1 .. k)
      PROVE  h[T] = IF T = {} THEN base ELSE op(h[T \ {Max(T)}], s[Max(T)])
  <2>1. CASE T = {}
    <3>1. {} \in SUBSET (1 .. k - 1) /\ {} \in SUBSET (1 .. k)
      OBVIOUS
    <3>2. g[{}] = base
      BY <1>1, <3>1
    <3>3. h[{}] = g[{}]
      BY <3>1
    <3>. QED
      BY <2>1, <3>2, <3>3
  <2>2. CASE k \in T
    <3>1. Max(T) \in T /\ k <= Max(T)
      BY <2>2, GreatestIndex
    <3>2. Max(T) \in 1 .. k
      BY <3>1
    <3>5. Max(T) = k
      BY <3>1, <3>2
    <3>3. T \ {k} \in SUBSET (1 .. k) /\ k \notin T \ {k}
      OBVIOUS
    <3>4. h[T \ {k}] = g[T \ {k}] /\ h[T] = op(g[T \ {k}], s[k])
      BY <2>2, <3>3
    <3>. QED
      BY <2>2, <3>5, <3>4
  <2>3. CASE T # {} /\ k \notin T
    <3>1. Max(T) \in T
      BY <2>3, GreatestIndex
    <3>. DEFINE U == T \ {Max(T)}
    <3>2. T \in SUBSET (1 .. k - 1) /\ U \in SUBSET (1 .. k) /\ k \notin U
      <4>1. \A x \in T : x \in 1 .. k /\ x # k
        BY <2>3
      <4>2. \A x \in T : x \in 1 .. k - 1
        BY <4>1
      <4>. QED
        BY <2>3, <4>2
    <3>3. h[T] = g[T] /\ h[U] = g[U]
      BY <2>3, <3>2
    <3>4. g[T] = op(g[U], s[Max(T)])
      BY <1>1, <2>3, <3>2
    <3>. HIDE DEF h
    <3>. QED
      BY <2>3, <3>3, <3>4
  <2>. QED
    BY <2>1, <2>2, <2>3
<1>. HIDE DEF h
<1>3. h = [T \in SUBSET (1 .. k) |-> h[T]]
  BY DEF h
<1>4. h = [T \in SUBSET (1 .. k) |->
             IF T = {} THEN base ELSE op(h[T \ {Max(T)}], s[Max(T)])]
  BY <1>2, <1>3
<1>. QED
  BY <1>4 DEF Folds

\* The function exists.
LEMMA FoldsExist ==
  ASSUME NEW s, NEW n \in Nat
  PROVE  \E g : Folds(g, s, n)
<1>. DEFINE Bad == {k \in Nat : ~\E g : Folds(g, s, k)}
<1>1. SUFFICES ASSUME Bad # {} PROVE FALSE
  OBVIOUS
<1>2. PICK k \in Bad : \A j \in Bad : k <= j
  BY <1>1, LeastNatural
<1>3. CASE k = 0
  <2>. DEFINE g == [T \in SUBSET (1 .. 0) |-> base]
  <2>1. \A T \in SUBSET (1 .. 0) : T = {}
    OBVIOUS
  <2>2. g = [T \in SUBSET (1 .. 0) |->
               IF T = {} THEN base ELSE op(g[T \ {Max(T)}], s[Max(T)])]
    BY <2>1
  <2>3. Folds(g, s, 0)
    BY <2>2 DEF Folds
  <2>. QED
    BY <1>3, <2>3
<1>4. CASE k # 0
  <2>1. k - 1 \in Nat /\ k - 1 \notin Bad
    BY <1>2, <1>4
  <2>2. PICK g : Folds(g, s, k - 1)
    BY <2>1
  <2>. QED
    BY <1>4, <2>2, FoldsExtend
<1>. QED
  BY <1>3, <1>4

-----------------------------------------------------------------------------

\* The values of a fold, one after another: the base, and op for every element.
Trace(r, s, n) ==
  /\ r[0] = base
  /\ \A k \in 1 .. n : r[k] = op(r[k - 1], s[k])

\* FoldLeft goes through the sequence in order: there is a trace of its values,
\* from the base to its result.
LEMMA FoldTrace ==
  ASSUME NEW s, NEW n \in Nat, DOMAIN s = 1 .. n
  PROVE  \E r : Trace(r, s, n) /\ r[n] = FoldLeft(op, base, s)
<1>. DEFINE g == CHOOSE g : Folds(g, s, n)
            r == [k \in 0 .. n |-> g[1 .. k]]
<1>1. Folds(g, s, n)
  BY FoldsExist
<1>2. g[1 .. n] = FoldLeft(op, base, s)
  BY DEF FoldLeft, MapThenFoldSet, Folds
<1>. HIDE DEF g
<1>3. r[0] = base
  BY <1>1 DEF Folds
<1>4. ASSUME NEW k \in 1 .. n
      PROVE  r[k] = op(r[k - 1], s[k])
  <2>1. Max(1 .. k) = k
    BY GreatestOfInterval
  <2>2. (1 .. k) \ {k} = 1 .. k - 1 /\ 1 .. k # {} /\ 1 .. k \in SUBSET (1 .. n)
    OBVIOUS
  <2>3. g[1 .. k] = op(g[1 .. k - 1], s[k])
    BY <1>1, <2>1, <2>2 DEF Folds
  <2>. QED
    BY <2>3
<1>5. r[n] = FoldLeft(op, base, s)
  BY <1>2
<1>. QED
  BY <1>3, <1>4, <1>5 DEF Trace

\* Two traces of the same steps do not differ.
LEMMA TracesAgree ==
  ASSUME NEW n \in Nat, NEW s, NEW r, NEW q, Trace(r, s, n), Trace(q, s, n)
  PROVE  r[n] = q[n]
<1>. DEFINE Differ == {k \in 0 .. n : r[k] # q[k]}
<1>1. SUFFICES ASSUME Differ # {} PROVE FALSE
  OBVIOUS
<1>2. PICK k \in Differ : \A j \in Differ : k <= j
  <2>1. Differ \subseteq Nat
    OBVIOUS
  <2>. QED
    BY <1>1, <2>1, LeastNatural
<1>3. k \in 1 .. n /\ k - 1 \in 0 .. n /\ k - 1 \notin Differ
  <2>1. k # 0
    BY DEF Trace
  <2>. QED
    BY <1>2, <2>1
<1>. QED
  BY <1>2, <1>3 DEF Trace

\* One more element is one more step.
LEMMA FoldAppend ==
  ASSUME NEW s, NEW t, NEW n \in Nat, DOMAIN s = 1 .. n, DOMAIN t = 1 .. n + 1,
         \A k \in 1 .. n : t[k] = s[k]
  PROVE  FoldLeft(op, base, t) = op(FoldLeft(op, base, s), t[n + 1])
<1>1. PICK r : Trace(r, s, n) /\ r[n] = FoldLeft(op, base, s)
  BY FoldTrace
<1>2. PICK q : Trace(q, t, n + 1) /\ q[n + 1] = FoldLeft(op, base, t)
  <2>1. n + 1 \in Nat
    OBVIOUS
  <2>. QED
    BY <2>1, FoldTrace
<1>3. r[n] = q[n]
  <2>1. Trace(q, s, n)
    BY <1>2 DEF Trace
  <2>. QED
    BY <1>1, <2>1, TracesAgree
<1>4. q[n + 1] = op(q[n], t[n + 1])
  <2>1. n + 1 \in 1 .. n + 1 /\ (n + 1) - 1 = n
    OBVIOUS
  <2>2. q[n + 1] = op(q[(n + 1) - 1], t[n + 1])
    BY <1>2, <2>1 DEF Trace
  <2>. QED
    BY <2>1, <2>2
<1>. QED
  BY <1>1, <1>2, <1>3, <1>4

LEMMA FoldEmpty ==
  FoldLeft(op, base, <<>>) = base
<1>1. DOMAIN <<>> = 1 .. 0
  OBVIOUS
<1>. QED
  BY <1>1, FoldTrace DEF Trace

\* What holds of the base and is kept by every step holds of the result.
LEMMA FoldInvariant ==
  ASSUME NEW s, NEW n \in Nat, DOMAIN s = 1 .. n,
         P(s, 0, base),
         \A k \in 1 .. n : \A v : P(s, k - 1, v) => P(s, k, op(v, s[k]))
  PROVE  P(s, n, FoldLeft(op, base, s))
<1>1. PICK r : Trace(r, s, n) /\ r[n] = FoldLeft(op, base, s)
  BY FoldTrace
<1>. DEFINE Bad == {k \in 0 .. n : ~P(s, k, r[k])}
<1>2. SUFFICES ASSUME Bad # {} PROVE FALSE
  BY <1>1
<1>3. PICK k \in Bad : \A j \in Bad : k <= j
  <2>1. Bad \subseteq Nat
    OBVIOUS
  <2>. QED
    BY <1>2, <2>1, LeastNatural
<1>4. k \in 1 .. n /\ k - 1 \in 0 .. n /\ k - 1 \notin Bad
  BY <1>1, <1>3 DEF Trace
<1>. QED
  BY <1>1, <1>3, <1>4 DEF Trace

=============================================================================
