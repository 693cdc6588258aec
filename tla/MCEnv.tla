-------------------------------- MODULE MCEnv --------------------------------
(***************************************************************************)
(* Every text of up to four characters, and well-formed files of two and   *)
(* three lines with names that come twice, masks, empty lines and values   *)
(* that are empty or do not fit the buffer; four ways for it to go on.     *)
(***************************************************************************)
EXTENDS Env

Short == UNION {[1 .. n -> {"a", "b", Sep, Msk, NewLine}] : n \in 0 .. 4}

Line == {<<>>, <<"a", Sep>>, <<"a", Sep, "b">>, <<"b", Sep, "a", Msk, Sep, "b">>,
         <<"a", Msk, Sep, "b", Sep, "a">>, <<"a", Msk, "b", Sep, "a">>, <<"b", Sep, "b", "b", "a", "a", "b">>}

MCFiles ==
  Short \cup {k \o <<NewLine>> \o l \o <<NewLine>> : k, l \in Line}
      \cup {k \o <<NewLine>> \o l \o <<NewLine>> \o m \o <<NewLine>> : k, l, m \in Line}

MCTails == {<<>>, <<"b", "a">>, <<"a", Sep, "b">>, <<"b", NewLine, "a", Sep, "a">>}
MCValues == {<<"a">>, <<"b">>, <<>>}
=============================================================================
