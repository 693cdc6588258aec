----------------------------- MODULE MCConsole ------------------------------
(***************************************************************************)
(* Minutes of three seconds; an authorization of a two-character block and *)
(* one-character numbers, then one more character and a BREAK.  The hours  *)
(* leap ahead or back early, late or not at all.                           *)
(***************************************************************************)
EXTENDS Console

MCNeed == <<2, 1, 1>>
MCChars == <<"b1", "b2", "r", "s", "x", "B", "y", "z">>
MCLeaps == {<<31, 0>>} \cup ({4, 7} \X {5, -3})
=============================================================================
