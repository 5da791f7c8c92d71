------------------------------ MODULE FairLock ------------------------------
(***************************************************************************)
(* The Mutex and RwLock of tokio, as src/src uses them: a request that     *)
(* cannot be granted waits, and waiting requests are granted in the order  *)
(* they were made, whether or not the task that made one is being polled.  *)
(* A lock is the set of pairs <<a, b>> of its requests, held or waiting,   *)
(* such that a was made no later than b.                                   *)
(***************************************************************************)

Requests(lock) == {p[1] : p \in lock}

(* lock(), read() or write(): r waits behind everyone. *)
Enqueue(lock, r) == lock \cup (Requests(lock) \cup {r}) \X {r}

(* The requests in R are dropped: guards released, waiters cancelled. *)
Withdraw(lock, R) == {p \in lock : p[1] \notin R /\ p[2] \notin R}

Release(lock, r) == Withdraw(lock, {r})

(* An exclusive request is granted when it is first, a shared one when all *)
(* before it are shared.                                                   *)
Granted(lock, r) == r \in Requests(lock) /\ \A p \in lock : p[2] = r => p[1] = r

GrantedShared(lock, r, Shared) ==
  r \in Requests(lock) /\ \A p \in lock : p[2] = r => p[1] \in Shared

(* The pairs are an order of the requests in which any of them have a first, *)
(* so that any two are ordered.                                            *)
Fifo(lock) ==
  /\ \A p \in lock : p = <<p[1], p[2]>> /\ p[2] \in Requests(lock)
  /\ \A a, b \in Requests(lock) : <<a, b>> \in lock /\ <<b, a>> \in lock => a = b
  /\ \A R \in SUBSET Requests(lock) :
       R # {} => \E a \in R : \A b \in R : <<a, b>> \in lock
=============================================================================
