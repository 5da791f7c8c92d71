----------------------------- MODULE MCTS6Wire ------------------------------
(* An instance of TS6Wire for TLC: the empty word, and words with colons   *)
(* at the beginning, twice, and at the end.                                *)
EXTENDS TS6Wire

MCSymbol == {":", "@", "P", "p", "s", "t", "a"}

MCWord == {<<>>, <<"a">>, <<":">>, <<":", "a">>, <<":", ":">>, <<"a", ":">>}
=============================================================================
