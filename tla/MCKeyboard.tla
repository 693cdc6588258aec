----------------------------- MODULE MCKeyboard -----------------------------
(* Two keys that type, an extended one, and one of each kind of modifier.  *)
EXTENDS Keyboard

MCGlyphs ==
  [a |-> [letter |-> TRUE, plain |-> "a", upper |-> "A", shifted |-> "A"],
   one |-> [letter |-> FALSE, plain |-> "1", upper |-> "1", shifted |-> "!"]]

Plain(k) == [code |-> k, ext |-> FALSE]
MCKeys == {Plain("a"), [code |-> "one", ext |-> TRUE], Plain("lshift"),
           Plain("caps"), [code |-> "ctrl", ext |-> TRUE]}
=============================================================================
