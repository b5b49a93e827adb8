----------------------------- MODULE MemoryReads ------------------------------
(***************************************************************************)
(* What the memory sampler promises to its caller, the exchange with       *)
(* OpenOCD left aside: once ready, it delivers samples.  A sample has one  *)
(* reading for every address asked for, in that order; each reading is the *)
(* answer to a request of its own, later than all requests of earlier      *)
(* samples; and the time of a sample is never before that of an earlier    *)
(* one.  When it fails it delivers nothing more.                           *)
(***************************************************************************)
EXTENDS Integers, Sequences

CONSTANT AddressLists  \* the lists of addresses a sample may be asked for

VARIABLES
  phase,      \* "setup", "ready" or "failed"
  delivered   \* the last sample: its time, readings and last request

readsVars == <<phase, delivered>>

NoSample == [t |-> 0, readings |-> <<>>, upto |-> 0]

\* The answer to the n-th request, which was for address a.
Reading(a, n) == [addr |-> a, value |-> [addr |-> a, n |-> n]]

Init == phase = "setup" /\ delivered = NoSample

GetReady ==
  /\ phase = "setup" /\ phase' = "ready"
  /\ UNCHANGED delivered

Fail ==
  /\ phase # "failed" /\ phase' = "failed"
  /\ UNCHANGED delivered

DeliverSample ==
  /\ phase = "ready"
  /\ delivered'.t >= delivered.t
  /\ \E list \in AddressLists :
       LET first == delivered'.upto - Len(list) IN
       /\ delivered'.readings = [i \in DOMAIN list |-> Reading(list[i], first + i)]
       /\ first >= delivered.upto
  /\ UNCHANGED phase

Next == GetReady \/ Fail \/ DeliverSample

Spec == Init /\ [][Next]_readsVars

=============================================================================
