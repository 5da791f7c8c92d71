--------------------------- MODULE FairLockProofs ---------------------------
(***************************************************************************)
(* What the operations of FairLock do to the requests of a lock, to the    *)
(* order it keeps and to the request that is granted.                      *)
(***************************************************************************)
EXTENDS FairLock, TLAPS

(* Of any two requests one came no later than the other. *)
LEMMA FifoTotal ==
  ASSUME NEW lock, Fifo(lock), NEW a \in Requests(lock), NEW b \in Requests(lock)
  PROVE  <<a, b>> \in lock \/ <<b, a>> \in lock
<1>1. {a, b} \in SUBSET Requests(lock) /\ {a, b} # {}
  OBVIOUS
<1>2. PICK x \in {a, b} : \A y \in {a, b} : <<x, y>> \in lock
  BY <1>1 DEF Fifo
<1> QED
  BY <1>2

(* A request joins the others ... *)
LEMMA EnqueueRequests ==
  ASSUME NEW lock, NEW r
  PROVE  Requests(Enqueue(lock, r)) = Requests(lock) \cup {r}
<1>1. \A p \in (Requests(lock) \cup {r}) \X {r} : p[1] \in Requests(lock) \cup {r}
  OBVIOUS
<1>2. <<r, r>> \in Enqueue(lock, r)
  BY DEF Enqueue
<1>3. \A x \in Requests(lock) : x \in Requests(Enqueue(lock, r))
  BY DEF Requests, Enqueue
<1>4. r \in Requests(Enqueue(lock, r))
  BY <1>2 DEF Requests
<1>5. \A x \in Requests(Enqueue(lock, r)) : x \in Requests(lock) \cup {r}
  BY <1>1 DEF Requests, Enqueue
<1> QED
  BY <1>3, <1>4, <1>5

(* ... behind all of them, so that the order stays total ... *)
LEMMA EnqueueFifo ==
  ASSUME NEW lock, NEW r, Fifo(lock), r \notin Requests(lock)
  PROVE  Fifo(Enqueue(lock, r))
<1>1. Requests(Enqueue(lock, r)) = Requests(lock) \cup {r}
  BY EnqueueRequests
<1>2. \A a, b : <<a, b>> \in Enqueue(lock, r) <=>
               \/ <<a, b>> \in lock
               \/ a \in Requests(lock) \cup {r} /\ b = r
  BY DEF Enqueue
<1>3. \A p \in Enqueue(lock, r) :
         p = <<p[1], p[2]>> /\ p[2] \in Requests(lock) \cup {r}
  <2>1. \A p \in (Requests(lock) \cup {r}) \X {r} : p = <<p[1], p[2]>> /\ p[2] = r
    OBVIOUS
  <2> QED
    BY <2>1 DEF Enqueue, Fifo
<1>4. \A a, b : <<a, b>> \in lock => a \in Requests(lock) /\ b \in Requests(lock)
  BY DEF Fifo, Requests
<1>5. ASSUME NEW R \in SUBSET (Requests(lock) \cup {r}), R # {}
      PROVE  \E a \in R : \A b \in R : <<a, b>> \in Enqueue(lock, r)
  <2>1. CASE R = {r}
    BY <1>2, <2>1
  <2>2. CASE R # {r}
    <3>1. R \ {r} \in SUBSET Requests(lock) /\ R \ {r} # {}
      BY <1>5, <2>2
    <3>2. PICK a \in R \ {r} : \A b \in R \ {r} : <<a, b>> \in lock
      BY <3>1 DEF Fifo
    <3> QED
      BY <1>2, <3>1, <3>2
  <2> QED
    BY <2>1, <2>2
<1>6. \A a, b \in Requests(lock) \cup {r} :
         <<a, b>> \in Enqueue(lock, r) /\ <<b, a>> \in Enqueue(lock, r) => a = b
  BY <1>2, <1>4 DEF Fifo
<1> QED
  BY <1>1, <1>3, <1>5, <1>6 DEF Fifo

(* ... and the request that is granted stays so. *)
LEMMA EnqueueGranted ==
  ASSUME NEW lock, NEW r, NEW s, Granted(lock, s), s # r
  PROVE  Granted(Enqueue(lock, r), s)
<1>1. s \in Requests(Enqueue(lock, r))
  BY EnqueueRequests DEF Granted
<1>2. \A p \in Enqueue(lock, r) : p[2] = s => p \in lock
  BY DEF Enqueue
<1> QED
  BY <1>1, <1>2 DEF Granted

(* Requests that are withdrawn are gone, and only they. *)
LEMMA WithdrawRequests ==
  ASSUME NEW lock, NEW R, Fifo(lock)
  PROVE  Requests(Withdraw(lock, R)) = Requests(lock) \ R
<1>1. ASSUME NEW x \in Requests(lock), x \notin R
      PROVE  <<x, x>> \in Withdraw(lock, R)
  <2>1. <<x, x>> \in lock
    BY FifoTotal
  <2>2. <<x, x>>[1] = x /\ <<x, x>>[2] = x
    OBVIOUS
  <2> QED
    BY <2>1, <2>2, <1>1 DEF Withdraw
<1>2. \A x \in Requests(lock) \ R : x \in Requests(Withdraw(lock, R))
  <2>1. \A x : <<x, x>>[1] = x
    OBVIOUS
  <2> QED
    BY <1>1, <2>1 DEF Requests
<1>3. \A x \in Requests(Withdraw(lock, R)) : x \in Requests(lock) \ R
  BY DEF Requests, Withdraw
<1> QED
  BY <1>2, <1>3

(* The others keep their order. *)
LEMMA WithdrawFifo ==
  ASSUME NEW lock, NEW R, Fifo(lock)
  PROVE  Fifo(Withdraw(lock, R))
<1>1. Requests(Withdraw(lock, R)) = Requests(lock) \ R
  BY WithdrawRequests
<1>2. \A a, b \in Requests(lock) \ R :
         <<a, b>> \in Withdraw(lock, R) <=> <<a, b>> \in lock
  BY DEF Withdraw
<1>3. \A p \in Withdraw(lock, R) :
         p = <<p[1], p[2]>> /\ p[2] \in Requests(lock) \ R
  BY DEF Withdraw, Fifo
<1>4. ASSUME NEW S \in SUBSET (Requests(lock) \ R), S # {}
      PROVE  \E a \in S : \A b \in S : <<a, b>> \in Withdraw(lock, R)
  <2>1. PICK a \in S : \A b \in S : <<a, b>> \in lock
    BY <1>4 DEF Fifo
  <2> QED
    BY <1>2, <2>1
<1>5. \A a, b \in Requests(lock) \ R :
         <<a, b>> \in Withdraw(lock, R) /\ <<b, a>> \in Withdraw(lock, R) => a = b
  BY <1>2 DEF Fifo
<1> QED
  BY <1>1, <1>3, <1>4, <1>5 DEF Fifo

(* A granted request that is not withdrawn stays granted. *)
LEMMA WithdrawGranted ==
  ASSUME NEW lock, NEW R, NEW s, Fifo(lock), Granted(lock, s), s \notin R
  PROVE  Granted(Withdraw(lock, R), s)
<1>1. s \in Requests(Withdraw(lock, R))
  BY WithdrawRequests DEF Granted
<1>2. \A p \in Withdraw(lock, R) : p \in lock
  BY DEF Withdraw
<1> QED
  BY <1>1, <1>2 DEF Granted

(* Mutual exclusion: an exclusive lock is granted to one request. *)
THEOREM OneHolder ==
  ASSUME NEW lock, NEW r, NEW s, Fifo(lock), Granted(lock, r), Granted(lock, s)
  PROVE  r = s
<1>1. <<r, s>> \in lock \/ <<s, r>> \in lock
  BY FifoTotal DEF Granted
<1> QED
  BY <1>1 DEF Granted

(* Requests each of which is behind another one of them cannot be: one of  *)
(* them came first.                                                        *)
THEOREM OneIsFirst ==
  ASSUME NEW lock, Fifo(lock), NEW R \in SUBSET Requests(lock),
         \A r \in R : \E q \in R : q # r /\ <<q, r>> \in lock
  PROVE  R = {}
<1> SUFFICES ASSUME R # {} PROVE FALSE
  OBVIOUS
<1>1. PICK a \in R : \A b \in R : <<a, b>> \in lock
  BY DEF Fifo
<1>2. PICK q \in R : q # a /\ <<q, a>> \in lock
  OBVIOUS
<1> QED
  BY <1>1, <1>2 DEF Fifo
=============================================================================
