------------------------------ MODULE Session ------------------------------
(***************************************************************************)
(* How long a connection stays open: the writer task of a client together  *)
(* with everything that holds a sender of its queues.  These are the       *)
(* connection future (handle_connection in src/src/server/mod.rs), the     *)
(* entry in client_map, other tasks that have looked the client up, and    *)
(* the client's ping timer.  The socket is closed when the task ends.      *)
(*                                                                         *)
(* Connection has the locks; here a step that waits for one is taken when  *)
(* it comes to it.  Session implements WriterTask.                         *)
(***************************************************************************)
EXTENDS Naturals, SequencesExt

CONSTANTS Limit, Sizes, MaxSent   \* see WriterTask

ASSUME SessionAssumption ==
  /\ Limit \in Nat
  /\ Sizes \subseteq Nat
  /\ MaxSent \in Nat

VARIABLES
  stage,     \* where the connection future is
  listed,    \* client_map has the client
  borrowed,  \* another task has a reference from get_client
  ping,      \* the ping timer
  queue, hand, sendq_size, task, sent, written  \* see WriterTask

sessionVars == <<stage, listed, borrowed, ping>>
writerVars == <<queue, hand, sendq_size, task, sent, written>>
vars == <<sessionVars, writerVars>>

(* A frozen future is not polled any more, though it has the mutex of the  *)
(* client; a queued one is not polled and waits for it behind others.  A   *)
(* dead one has panicked, and an expired one was dropped by the            *)
(* registration timeout.                                                   *)
Stage == {"new", "serving", "ended", "cleaning", "removing", "done",
          "queued", "frozen", "dead", "expiring", "expired"}

(* The task of the timer runs, was aborted, or has sent its ERROR.         *)
Ping == {"none", "running", "aborted", "broken", "over"}

(* Somebody has a reference to the Client. *)
Held == stage \notin {"done", "dead", "expired"} \/ listed \/ borrowed

TimerHolds == ping \in {"running", "aborted", "broken"}

W == INSTANCE WriterTask WITH client <- Held, timer <- TimerHolds

SessTypeOK ==
  /\ stage \in Stage
  /\ listed \in BOOLEAN
  /\ borrowed \in BOOLEAN
  /\ ping \in Ping
  /\ W!WriterTypeOK

Init ==
  /\ stage = "new"
  /\ listed = FALSE
  /\ borrowed = FALSE
  /\ ping = "none"
  /\ W!Init

-----------------------------------------------------------------------------
(* The connection future *)

MoveTo(s) == stage' = s

AddClient ==
  /\ stage = "new" /\ ~listed
  /\ listed' = TRUE
  /\ UNCHANGED <<stage, borrowed, ping, writerVars>>

BeginServing ==
  /\ stage = "new" /\ listed
  /\ MoveTo("serving")
  /\ UNCHANGED <<listed, borrowed, ping, writerVars>>

(* A handler answers: numerics and PONGs, and what CAP has to say. *)
Answers(q, size) ==
  /\ stage = "serving"
  /\ UNCHANGED sessionVars
  /\ W!ClientSends(q, size)

(* Registration is complete. *)
StartTimer ==
  /\ stage = "serving" /\ ping = "none"
  /\ ping' = "running"
  /\ UNCHANGED <<stage, listed, borrowed, writerVars>>

(* The end of the input, or an Err. *)
StopServing ==
  /\ stage = "serving"
  /\ MoveTo("ended")
  /\ UNCHANGED <<listed, borrowed, ping, writerVars>>

\* Mutant: a panic takes the client out of client_map.
PanicRemoves ==
  /\ stage = "serving"
  /\ MoveTo("dead")
  /\ listed' = FALSE
  /\ UNCHANGED <<borrowed, ping, writerVars>>

(* The task unwinds: there is no cleanup, and the timer is not aborted. *)
Panic ==
  /\ stage = "serving"
  /\ MoveTo("dead")
  /\ UNCHANGED <<listed, borrowed, ping, writerVars>>

(* cleanup() aborts the timer, then leaves the channels. *)
CleanUp ==
  /\ stage = "ended"
  /\ MoveTo("cleaning")
  /\ ping' = IF ping = "running" THEN "aborted" ELSE ping
  /\ UNCHANGED <<listed, borrowed, writerVars>>

LeaveChannels ==
  /\ stage = "cleaning"
  /\ MoveTo("removing")
  /\ UNCHANGED <<listed, borrowed, ping, writerVars>>

\* Mutant: the client stays in client_map.
RemoveFromListOnly ==
  /\ stage = "removing"
  /\ MoveTo("done")
  /\ UNCHANGED <<listed, borrowed, ping, writerVars>>

(* remove_client, and handle_connection returns. *)
RemoveClient ==
  /\ stage = "removing"
  /\ MoveTo("done")
  /\ listed' = FALSE
  /\ UNCHANGED <<borrowed, ping, writerVars>>

(* The 60 seconds pass while the future has the mutex ... *)
Freeze ==
  /\ stage \in {"serving", "cleaning"}
  /\ MoveTo("frozen")
  /\ UNCHANGED <<listed, borrowed, ping, writerVars>>

(* ... or while it has asked for it and others are before it.  The timer   *)
(* branch asks after it, so that it gets the mutex, and keeps it.          *)
FreezeQueued ==
  /\ \/ stage = "new" /\ listed
     \/ stage = "ended"
  /\ MoveTo("queued")
  /\ UNCHANGED <<listed, borrowed, ping, writerVars>>

QueuedGetsMutex ==
  /\ stage = "queued"
  /\ MoveTo("frozen")
  /\ UNCHANGED <<listed, borrowed, ping, writerVars>>

(* They pass while it waits for a lock of the server, and the client is    *)
(* not registered: an ERROR is sent, or cannot be sent.                    *)
SendTimeout(size) ==
  /\ \/ stage = "new" /\ ~listed
     \/ stage = "removing"
  /\ ping = "none"
  /\ MoveTo("expiring")
  /\ UNCHANGED <<listed, borrowed, ping>>
  /\ \/ W!ClientSends("tx", size)
     \/ task = "ended" /\ UNCHANGED writerVars

(* handle_connection returns an Err and drops the future. *)
Expire ==
  /\ stage = "expiring"
  /\ MoveTo("expired")
  /\ UNCHANGED <<listed, borrowed, ping, writerVars>>

-----------------------------------------------------------------------------
(* Other tasks *)

\* Mutant: a client is found after it has been removed.
BorrowRemoved ==
  /\ ~borrowed
  /\ borrowed' = TRUE
  /\ UNCHANGED <<stage, listed, ping, writerVars>>

(* get_client, or find_client_by_nick. *)
Borrow ==
  /\ listed /\ ~borrowed
  /\ borrowed' = TRUE
  /\ UNCHANGED <<stage, listed, ping, writerVars>>

(* The message of another client, sent when nobody else has the mutex. *)
Relay(size) ==
  /\ borrowed
  /\ stage \notin {"serving", "cleaning", "frozen"}
  /\ UNCHANGED sessionVars
  /\ W!ClientSends("sendq", size)

GiveBack ==
  /\ borrowed
  /\ borrowed' = FALSE
  /\ UNCHANGED <<stage, listed, ping, writerVars>>

-----------------------------------------------------------------------------
(* The ping timer *)

(* A PING.  An aborted task goes on to its next await. *)
TimerSends(size) ==
  /\ ping \in {"running", "aborted"}
  /\ UNCHANGED sessionVars
  /\ W!TimerSends(size)

(* No PONG came: an ERROR is sent and the timer ends, nothing else does. *)
TimesOut(size) ==
  /\ ping = "running"
  /\ ping' = "broken"
  /\ UNCHANGED <<stage, listed, borrowed>>
  /\ W!TimerSends(size)

(* The task of the timer ends; by itself when it cannot send. *)
TimerEnds ==
  /\ \/ ping \in {"aborted", "broken"}
     \/ ping = "running" /\ task = "ended"
  /\ ping' = "over"
  /\ UNCHANGED <<stage, listed, borrowed, writerVars>>

-----------------------------------------------------------------------------
(* The writer task *)
TakeTx == UNCHANGED sessionVars /\ W!TakeTx
TakeSendq == UNCHANGED sessionVars /\ W!TakeSendq
TxClosed == UNCHANGED sessionVars /\ W!TxClosed
Writes ==
  UNCHANGED sessionVars /\ (W!Written \/ W!WriteFails \/ W!SendqClosed)

Next ==
  \/ AddClient \/ BeginServing \/ StartTimer \/ StopServing \/ Panic
  \/ CleanUp \/ LeaveChannels \/ RemoveClient \/ Expire
  \/ Freeze \/ FreezeQueued \/ QueuedGetsMutex
  \/ Borrow \/ GiveBack \/ TimerEnds
  \/ TakeTx \/ TakeSendq \/ TxClosed \/ Writes
  \/ \E size \in Sizes :
       \/ Relay(size) \/ TimerSends(size) \/ TimesOut(size) \/ SendTimeout(size)
       \/ \E q \in W!Queue : Answers(q, size)

Spec == Init /\ [][Next]_vars

(* tokio polls the tasks, and select! picks a ready branch at random, so   *)
(* that none is passed over for ever.  The peer need not read.             *)
FairSpec ==
  /\ Spec
  /\ WF_vars(TimerEnds)
  /\ SF_vars(TakeTx) /\ SF_vars(TakeSendq) /\ SF_vars(TxClosed)

-----------------------------------------------------------------------------
(* Properties *)

(* What is written is what was sent to each queue, in order; see there. *)
WrittenInOrder == W!WrittenInOrder

(* The senders are where WriterTask has them: the Client and the timer,    *)
(* and once the last reference to the Client is gone no one finds another. *)
WriterSpec == W!Spec

Drained(q) == \A n \in DOMAIN sent[q] :
                W!Fits(sent[q][n]) => sent[q][n] \in Range(written)

(* When the task ends because a queue is closed, all that was sent to that *)
(* queue has been written; what the other holds is lost, be it the answer  *)
(* to the last command.  While the timer has its sender that is sendq.     *)
OneQueueDrained == [][
  task = "select" /\ task' = "ended" =>
    \E q \in W!Queue : Drained(q) /\ (TimerHolds => q = "tx")]_vars

(* While a client is served, also when the ping timer has given it up, and *)
(* after a panic, a frozen read loop or a registration timeout during the  *)
(* removal the socket stays open: the entry in client_map, or the future,  *)
(* holds the Client, and only a failing write ends the task.               *)
LeftOpen == [][
  \/ stage \in {"serving", "dead", "queued", "frozen"}
  \/ stage = "expired" /\ listed
  =>
    (task' = "ended" => task \in {"writing", "ended"})]_vars

(* A connection that has been cleaned up and removed is closed, if the     *)
(* tasks that have looked the client up let go of it and the peer reads;   *)
(* the ping timer cannot keep it open.                                     *)
EndsAfterRemoval ==
  <>[]~borrowed /\ []<>(task # "writing") =>
    (stage = "done" ~> task = "ended")
=============================================================================
