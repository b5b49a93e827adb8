---------------------------- MODULE MCMemExchange -----------------------------
(***************************************************************************)
(* Values for the constants of MemExchange.                                *)
(***************************************************************************)
EXTENDS MemExchange

\* Two addresses in every iteration.
Two == {<<"a", "b">>}

=============================================================================
