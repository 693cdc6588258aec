----------------------------- MODULE MCCmdLine ------------------------------
(***************************************************************************)
(* Every line of up to five characters over letters that are aliases of    *)
(* each kind of command, a letter that is none, the blank and the          *)
(* separator; the commands' names; a line that goes on behind boot, and    *)
(* one as long as the buffer.  A STARTUP that fits and ends with boot, one *)
(* that does not fit, and an empty one.                                    *)
(***************************************************************************)
EXTENDS CmdLine

Name(s, a, k) == [name |-> s, alias |-> <<a>>, kind |-> k]

MCCommands ==
  << Name(<<"h","e","l","p">>, "h", "plain"),
     Name(<<"k","e","r","n","e","l","l","o","a","d">>, "k", "load"),
     Name(<<"l","o","a","d">>, "l", "load"),
     Name(<<"b","o","o","t">>, "b", "boot"),
     Name(<<"d","i","s","p","l","a","y">>, "d", "display"),
     Name(<<"h","e","a","p","i","n","f","o">>, "e", "plain"),
     Name(<<"p","r","i","n","t","e","n","v">>, "p", "plain") >>

Short == UNION {[1 .. n -> {"h", "k", "d", "x", " ", ";"}] : n \in 0 .. 5}
Names == {MCCommands[k].name : k \in DOMAIN MCCommands}
Loads == <<"p", ";", "l", " ", "0", " ", "9", ";", "k", " ", "0", ";", "b">>
Boots == <<"b", ";", "h", ";", "d">>
Long == [i \in 1 .. 35 |-> "x"]

MCStartups == {Loads, Loads \o Loads \o Loads, <<>>}
MCNoStartups == {}
MCTyped == Short \cup Names \cup {Loads, Boots, Long, <<"e">>}
MCNames == Names
=============================================================================
