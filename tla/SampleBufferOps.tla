--------------------------- MODULE SampleBufferOps ---------------------------
(***************************************************************************)
(* A SampleBuffer (src/buffer.rs) as the sequence of its points' times,    *)
(* and what truncate may do to one.  Values follow their times.            *)
(***************************************************************************)
EXTENDS Integers, Sequences

\* push(t, _), n times, on the buffer of a HashMap entry, created when it is missing.
Push(samples, id, t, n) ==
  (IF id \in DOMAIN samples THEN samples[id] ELSE <<>>) \o [i \in 1 .. n |-> t]

\* Faulty variant of `CutOK`: the time to keep is forgotten.
CutAll(buf, keep, n) ==
  n = IF buf # <<>> /\ buf[1] < buf[Len(buf)] THEN Len(buf) ELSE 0

\* truncate(keep) may remove the first n points: none unless the first point
\* is older than the cut-off, else a prefix that ends with a point at or before
\* it and is not followed by another.  In an ordered buffer exactly one n fits;
\* in another one the binary search may stop at any of them.
CutOK(buf, keep, n) ==
  LET cutoff == buf[Len(buf)] - keep IN
  IF buf # <<>> /\ buf[1] < cutoff
  THEN /\ n >= 1
       /\ buf[n] <= cutoff
       /\ n = Len(buf) \/ buf[n + 1] > cutoff
  ELSE n = 0

Truncations(buf, keep) ==
  {SubSeq(buf, n + 1, Len(buf)) : n \in {m \in 0 .. Len(buf) : CutOK(buf, keep, m)}}

=============================================================================
