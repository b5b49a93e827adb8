----------------------------- MODULE MCOCDScope ------------------------------
(***************************************************************************)
(* OCDScope for TLC: the values of the constants that a .cfg cannot write. *)
(***************************************************************************)
EXTENDS OCDScope

\* What an ELF file may give: nothing, or the symbols at addresses 0 and 1.
OneOrNoSymbol == {<<>>, <<0>>}
NoList == {}
TwoSymbols == {<<0, 1>>}

=============================================================================
