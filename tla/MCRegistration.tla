--------------------------- MODULE MCRegistration ---------------------------
(***************************************************************************)
(* Instances of Registration for TLC.  Nick names are strings so that the  *)
(* case folding can be written down: "A" and "a" fold to "a".              *)
(***************************************************************************)
EXTENDS Registration, TLC

MCNick == {"a", "A", "b"}
MCLower == ("a" :> "a") @@ ("A" :> "a") @@ ("b" :> "b")
Symmetry == Permutations(Client)
=============================================================================
