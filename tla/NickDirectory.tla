--------------------------- MODULE NickDirectory ----------------------------
(***************************************************************************)
(* What the server promises about nicknames, without saying how: a         *)
(* directory of keys (case-folded nicknames), each owned by at most one    *)
(* client.  A client claims a free key while it owns at most one key, and  *)
(* gives a key up only while it owns another, so that a client that once   *)
(* had a nickname always has one, and no key passes from one client to     *)
(* another without being free in between.                                  *)
(***************************************************************************)
CONSTANTS Client,    \* the clients
          Key,       \* the keys of the directory
          NoClient   \* the owner of a free key

VARIABLE owner       \* owner[k]: the client that owns key k

Init == owner = [k \in Key |-> NoClient]

Owns(c, k) == owner[k] = c

(* c takes the free key k; it may hold one other key, which it is about to *)
(* give up.                                                                *)
Claim(c, k) ==
  /\ owner[k] = NoClient
  /\ \A k1, k2 \in Key : Owns(c, k1) /\ Owns(c, k2) => k1 = k2
  /\ owner' = [owner EXCEPT ![k] = c]

(* c gives up one of its keys and keeps another one. *)
Release(c, k) ==
  /\ Owns(c, k)
  /\ \E k2 \in Key \ {k} : Owns(c, k2)
  /\ owner' = [owner EXCEPT ![k] = NoClient]

Next == \E c \in Client, k \in Key : Claim(c, k) \/ Release(c, k)

Spec == Init /\ [][Next]_owner
=============================================================================
