----------------------------- MODULE WriterTask -----------------------------
(***************************************************************************)
(* The writer task of one client (src/src/client/mod.rs, Client::new).  It *)
(* takes messages from two unbounded queues: tx, which write_raw() sends   *)
(* to, and sendq, which send_message() and the ping timer send to.  Who    *)
(* has the Client and the timer, and until when, is in Session.            *)
(*                                                                         *)
(* The sender of tx is owned by the Client; that of sendq by the Client    *)
(* and by its ping timer.  A queue is closed when all its senders are gone *)
(* and it is empty.                                                        *)
(***************************************************************************)
EXTENDS Naturals, SequencesExt

CONSTANTS
  Limit,    \* MAX_SENDQ
  Sizes,    \* the sizes of messages
  MaxSent   \* how many messages are sent to each queue: a bound for TLC

Queue == {"tx", "sendq"}
Message == [to : Queue, n : 1..MaxSent, size : Sizes]

VARIABLES
  queue,       \* queue[q]: messages that wait in the channel
  hand,        \* the message that is being written, as a sequence
  sendq_size,  \* current_sendq_size
  task,        \* "select", "writing" or "ended"
  client,      \* the Client has not been dropped
  timer,       \* a ping timer has a clone of the sender of sendq
  sent,        \* sent[q]: what was sent, for the properties only
  written      \* what the peer gets

vars == <<queue, hand, sendq_size, task, client, timer, sent, written>>

WriterTypeOK ==
  /\ queue \in [Queue -> Seq(Message)]
  /\ hand \in Seq(Message) /\ Len(hand) = (IF task = "writing" THEN 1 ELSE 0)
  /\ sendq_size \in 0..Limit
  /\ task \in {"select", "writing", "ended"}
  /\ client \in BOOLEAN
  /\ timer \in BOOLEAN
  /\ sent \in [Queue -> Seq(Message)]
  /\ written \in Seq(Message)

Init ==
  /\ queue = [q \in Queue |-> <<>>]
  /\ hand = <<>>
  /\ sendq_size = 0
  /\ task = "select"
  /\ client = TRUE
  /\ timer = FALSE
  /\ sent = [q \in Queue |-> <<>>]
  /\ written = <<>>

-----------------------------------------------------------------------------
(* A message is queued; there is no bound, and no one waits. *)
Enqueue(q, size) ==
  LET m == [to |-> q, n |-> Len(sent[q]) + 1, size |-> size] IN
  /\ task # "ended"
  /\ Len(sent[q]) < MaxSent
  /\ queue' = [queue EXCEPT ![q] = Append(@, m)]
  /\ sent' = [sent EXCEPT ![q] = Append(@, m)]
  /\ UNCHANGED <<hand, sendq_size, task, client, timer, written>>

(* write_raw, send_message and the ping timer. *)
ClientSends(q, size) == client /\ Enqueue(q, size)
TimerSends(size) == timer /\ Enqueue("sendq", size)

(* start_ping_timer clones the sender. *)
StartTimer ==
  /\ client /\ ~timer
  /\ timer' = TRUE
  /\ UNCHANGED <<queue, hand, sendq_size, task, client, sent, written>>

(* The Client is dropped with the last reference to it, the timer's clone  *)
(* when that task ends or is aborted.                                      *)
DropClient ==
  /\ client
  /\ client' = FALSE
  /\ UNCHANGED <<queue, hand, sendq_size, task, timer, sent, written>>

DropTimer ==
  /\ timer
  /\ timer' = FALSE
  /\ UNCHANGED <<queue, hand, sendq_size, task, client, sent, written>>

-----------------------------------------------------------------------------
(* When both queues have something select! takes either. *)
TakeTx ==
  /\ task = "select"
  /\ queue["tx"] # <<>>
  /\ hand' = <<Head(queue["tx"])>>
  /\ queue' = [queue EXCEPT !["tx"] = Tail(@)]
  /\ task' = "writing"
  /\ UNCHANGED <<sendq_size, client, timer, sent, written>>

\* Mutant: the message that was queued last is taken.
TakeSendqNewest ==
  /\ task = "select"
  /\ queue["sendq"] # <<>>
  /\ queue' = [queue EXCEPT !["sendq"] = Front(@)]
  /\ LET m == Last(queue["sendq"]) IN
     \/ /\ sendq_size + m.size <= Limit
        /\ sendq_size' = sendq_size + m.size
        /\ hand' = <<m>>
        /\ task' = "writing"
     \/ /\ sendq_size + m.size > Limit
        /\ UNCHANGED <<sendq_size, hand, task>>
  /\ UNCHANGED <<client, timer, sent, written>>

(* A message that would exceed the limit is dropped. *)
TakeSendq ==
  /\ task = "select"
  /\ queue["sendq"] # <<>>
  /\ queue' = [queue EXCEPT !["sendq"] = Tail(@)]
  /\ LET m == Head(queue["sendq"]) IN
     \/ /\ sendq_size + m.size <= Limit
        /\ sendq_size' = sendq_size + m.size
        /\ hand' = <<m>>
        /\ task' = "writing"
     \/ /\ sendq_size + m.size > Limit
        /\ UNCHANGED <<sendq_size, hand, task>>
  /\ UNCHANGED <<client, timer, sent, written>>

(* write_all and flush return Ok. *)
Written ==
  /\ task = "writing"
  /\ written' = written \o hand
  /\ hand' = <<>>
  /\ sendq_size' = IF hand[1].to = "sendq" THEN sendq_size - hand[1].size
                                           ELSE sendq_size
  /\ task' = "select"
  /\ UNCHANGED <<queue, client, timer, sent>>

(* The task ends, and what is still queued is dropped. *)
End ==
  /\ task' = "ended"
  /\ queue' = [q \in Queue |-> <<>>]
  /\ hand' = <<>>
  /\ UNCHANGED <<sendq_size, client, timer, sent, written>>

WriteFails == task = "writing" /\ End

\* Mutant: the task ends with the Client, whatever is queued.
TxClosedAtOnce == task = "select" /\ ~client /\ End

(* Either queue ends the task once it is closed, whatever the other has.   *)
TxClosed == task = "select" /\ ~client /\ queue["tx"] = <<>> /\ End

SendqClosed ==
  task = "select" /\ ~client /\ ~timer /\ queue["sendq"] = <<>> /\ End

Next ==
  \/ \E size \in Sizes : ClientSends("tx", size) \/ ClientSends("sendq", size)
                         \/ TimerSends(size)
  \/ StartTimer \/ DropClient \/ DropTimer
  \/ TakeTx \/ TakeSendq \/ Written \/ WriteFails \/ TxClosed \/ SendqClosed

Spec == Init /\ [][Next]_vars

-----------------------------------------------------------------------------
Fits(m) == m.to = "sendq" => m.size <= Limit

(* What is written, being written and queued, in that order. *)
Way(q) == written \o hand \o queue[q]

(* Each queue is written in order and without loss until the task ends,    *)
(* except for messages that are over the limit by themselves; and when it  *)
(* has ended nothing is missing before a message that was written.  The    *)
(* order of the two queues among each other is not kept.                   *)
WrittenInOrder == \A q \in Queue :
  LET way == Way(q)
      Mine == {i \in DOMAIN way : way[i].to = q /\ Fits(way[i])}
      Due == {n \in DOMAIN sent[q] : Fits(sent[q][n])}
  IN  /\ \A i \in Mine : way[i].n \in Due /\ way[i] = sent[q][way[i].n]
      /\ \A i, j \in Mine : i < j => way[i].n < way[j].n
      /\ \A n \in Due : \/ \E i \in Mine : way[i].n = n
                        \/ task = "ended" /\ \A i \in Mine : way[i].n < n
=============================================================================
