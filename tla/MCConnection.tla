---------------------------- MODULE MCConnection ----------------------------
(* An instance of Connection for TLC: nicknames that case folding keeps    *)
(* apart.                                                                  *)
EXTENDS Connection

MCNick == {"a", "b"}
MCLower == [n \in MCNick |-> n]
=============================================================================
