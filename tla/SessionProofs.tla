--------------------------- MODULE SessionProofs ---------------------------
(***************************************************************************)
(* Proofs about Session, for messages of any size and number.              *)
(***************************************************************************)
EXTENDS Session, TLAPS

(* Every step of the connection future, of other tasks and of the ping     *)
(* timer is to the writer task one of its own steps, a message that is     *)
(* sent, a sender that goes, or nothing.                                   *)
THEOREM SessionWrites == Spec => WriterSpec
<1>1. Init => W!Init
  BY DEF Init, W!Init, Held, TimerHolds
<1>2. [Next]_vars => [W!Next]_(W!vars)
  <2> SUFFICES ASSUME [Next]_vars PROVE [W!Next]_(W!vars)
    OBVIOUS
  <2>1. CASE UNCHANGED vars
    BY <2>1 DEF vars, sessionVars, writerVars, W!vars, Held, TimerHolds
  <2>2. ASSUME UNCHANGED writerVars, UNCHANGED <<Held, TimerHolds>>
        PROVE  UNCHANGED W!vars
    BY <2>2 DEF writerVars, W!vars
  <2>3. ASSUME UNCHANGED writerVars, UNCHANGED TimerHolds, Held, ~Held'
        PROVE  W!DropClient
    BY <2>3 DEF writerVars, W!DropClient
  <2>4. CASE AddClient \/ BeginServing \/ StopServing \/ LeaveChannels \/ Freeze
             \/ FreezeQueued
             \/ QueuedGetsMutex \/ Borrow
    BY <2>2, <2>4 DEF AddClient, BeginServing, StopServing, LeaveChannels,
        Freeze, FreezeQueued,
        QueuedGetsMutex,
        Borrow, MoveTo, Held, TimerHolds
  <2>5. CASE CleanUp
    BY <2>2, <2>5 DEF CleanUp, MoveTo, Held, TimerHolds
  <2>6. CASE Panic \/ RemoveClient \/ Expire \/ GiveBack
    <3>1. UNCHANGED writerVars /\ UNCHANGED TimerHolds /\ Held
      BY <2>6 DEF Panic, RemoveClient, Expire, GiveBack, MoveTo, Held, TimerHolds
    <3>2. Held' \in BOOLEAN /\ Held \in BOOLEAN
      BY DEF Held
    <3> QED
      BY <2>2, <2>3, <3>1, <3>2 DEF W!Next
  <2>7. CASE StartTimer
    <3>1. W!StartTimer
      BY <2>7 DEF StartTimer, W!StartTimer, writerVars, Held, TimerHolds
    <3> QED
      BY <3>1 DEF W!Next
  <2>8. CASE TimerEnds
    <3>1. W!DropTimer
      BY <2>8 DEF TimerEnds, W!DropTimer, writerVars, Held, TimerHolds
    <3> QED
      BY <3>1 DEF W!Next
  <2>9. CASE TakeTx \/ TakeSendq \/ TxClosed \/ Writes
    BY <2>9 DEF TakeTx, TakeSendq, TxClosed, Writes, W!Next
  <2>10. ASSUME NEW size \in Sizes,
                \/ Relay(size) \/ TimerSends(size) \/ TimesOut(size)
                \/ SendTimeout(size)
                \/ \E q \in W!Queue : Answers(q, size)
         PROVE  [W!Next]_(W!vars)
    <3>1. CASE SendTimeout(size) /\ UNCHANGED writerVars
      BY <2>2, <3>1 DEF SendTimeout, MoveTo, Held, TimerHolds
    <3>2. CASE \E q \in W!Queue : W!ClientSends(q, size)
      BY <3>2 DEF W!Next, W!Queue
    <3>3. CASE W!TimerSends(size)
      BY <3>3 DEF W!Next
    <3> QED
      BY <2>10, <3>1, <3>2, <3>3
      DEF Relay, TimerSends, TimesOut, SendTimeout, Answers, W!Queue
  <2> QED
    BY <2>1, <2>4, <2>5, <2>6, <2>7, <2>8, <2>9, <2>10 DEF Next
<1> QED
  BY <1>1, <1>2, PTL DEF Spec, WriterSpec, W!Spec

-----------------------------------------------------------------------------
(* What is counted against MAX_SENDQ is the message in hand and no other,  *)
(* and each queue has messages of its own.                                 *)
Counted ==
  /\ SessTypeOK
  /\ task # "ended" => sendq_size = IF task = "writing" /\ hand[1].to = "sendq"
                                     THEN hand[1].size ELSE 0
  /\ \A q \in W!Queue : \A i \in 1..Len(queue[q]) : queue[q][i].to = q

(* The variables keep their types: what is written is within MAX_SENDQ if  *)
(* it came from the send queue, and nothing but it is counted, so that the *)
(* queue itself has no bound.                                              *)
THEOREM OneMessageCounted == Spec => []Counted
<1> USE SessionAssumption
<1>1. Init => Counted
  <2> SUFFICES ASSUME Init PROVE Counted
    OBVIOUS
  <2>1. /\ W!Init
        /\ stage \in Stage /\ listed \in BOOLEAN /\ borrowed \in BOOLEAN
        /\ ping \in Ping
    BY DEF Init, Stage, Ping
  <2>2. Held \in BOOLEAN /\ TimerHolds \in BOOLEAN
    BY DEF Held, TimerHolds
  <2>3. /\ queue \in [W!Queue -> Seq(W!Message)]
        /\ sent \in [W!Queue -> Seq(W!Message)]
        /\ hand \in Seq(W!Message) /\ Len(hand) = 0 /\ written \in Seq(W!Message)
    BY <2>1 DEF W!Init
  <2>4. \A q \in W!Queue : 1..Len(queue[q]) = {}
    BY <2>1 DEF W!Init
  <2> QED
    BY <2>1, <2>2, <2>3, <2>4 DEF W!Init, Counted, SessTypeOK, W!WriterTypeOK
<1>2. Counted /\ [Next]_vars => Counted'
  <2> SUFFICES ASSUME Counted, [Next]_vars PROVE Counted'
    OBVIOUS
  <2>0. W!WriterTypeOK
    BY DEF Counted, SessTypeOK
  <2>h. Held' \in BOOLEAN /\ TimerHolds' \in BOOLEAN
    BY DEF Held, TimerHolds
  <2>s. /\ stage' \in Stage /\ listed' \in BOOLEAN /\ borrowed' \in BOOLEAN
        /\ ping' \in Ping
    BY DEF Counted, SessTypeOK, Stage, Ping, Next, vars, sessionVars, MoveTo,
        AddClient, BeginServing, StartTimer, StopServing, Panic, CleanUp,
        LeaveChannels, RemoveClient, Freeze, FreezeQueued, QueuedGetsMutex,
        Expire, Borrow, GiveBack, TimerEnds,
        TakeTx, TakeSendq, TxClosed, Writes, Relay, TimerSends, TimesOut,
        SendTimeout, Answers
  <2> DEFINE Unsent == /\ hand' \in Seq(W!Message)
                       /\ Len(hand') = (IF task' = "writing" THEN 1 ELSE 0)
                       /\ sendq_size' \in 0..Limit
                       /\ task' \in {"select", "writing", "ended"}
                       /\ written' \in Seq(W!Message)
                       /\ task' # "ended" =>
                            sendq_size' = IF task' = "writing" /\ hand'[1].to = "sendq"
                                          THEN hand'[1].size ELSE 0
  <2>1. ASSUME Unsent, queue' \in [W!Queue -> Seq(W!Message)],
               sent' \in [W!Queue -> Seq(W!Message)],
               \A q \in W!Queue : \A i \in 1..Len(queue'[q]) : queue'[q][i].to = q
        PROVE  Counted'
    BY <2>1, <2>h, <2>s DEF Counted, SessTypeOK, W!WriterTypeOK
  <2>2. CASE UNCHANGED writerVars
    BY <2>0, <2>1, <2>2 DEF Counted, writerVars, W!WriterTypeOK
  <2>3. ASSUME NEW q \in W!Queue, NEW size \in Sizes, W!Enqueue(q, size)
        PROVE  Counted'
    <3> DEFINE m == [to |-> q, n |-> Len(sent[q]) + 1, size |-> size]
    <3>1. Len(sent[q]) + 1 \in 1..MaxSent
      BY <2>0, <2>3 DEF W!Enqueue, W!WriterTypeOK
    <3>2. m \in W!Message
      BY <3>1 DEF W!Message
    <3>3. Append(queue[q], m) \in Seq(W!Message) /\ Append(sent[q], m) \in Seq(W!Message)
      BY <2>0, <3>2 DEF W!WriterTypeOK
    <3>4. /\ queue' = [queue EXCEPT ![q] = Append(queue[q], m)]
          /\ sent' = [sent EXCEPT ![q] = Append(sent[q], m)]
          /\ UNCHANGED <<hand, sendq_size, task, written>>
      BY <2>3 DEF W!Enqueue
    <3>7. \A p \in W!Queue : \A i \in 1..Len(queue'[p]) : queue'[p][i].to = p
      <4> SUFFICES ASSUME NEW p \in W!Queue, NEW i \in 1..Len(queue'[p])
                   PROVE  queue'[p][i].to = p
        OBVIOUS
      <4>1. CASE p = q
        <5>1. queue'[p] = Append(queue[q], m)
          BY <2>0, <3>4, <4>1 DEF W!WriterTypeOK
        <5>2. queue[q] \in Seq(W!Message)
          BY <2>0 DEF W!WriterTypeOK
        <5>3. CASE i \in 1..Len(queue[q])
          <6>1. queue'[p][i] = queue[q][i]
            BY <5>1, <5>2, <5>3, <3>2
          <6> QED
            BY <6>1, <5>3, <4>1 DEF Counted
        <5>4. CASE i = Len(queue[q]) + 1
          <6>1. queue'[p][i] = m
            BY <5>1, <5>2, <5>4, <3>2
          <6> QED
            BY <6>1, <4>1
        <5> QED
          BY <5>1, <5>2, <5>3, <5>4, <3>2
      <4>2. CASE p # q
        <5>1. queue'[p] = queue[p]
          BY <2>0, <3>4, <4>2 DEF W!WriterTypeOK
        <5> QED
          BY <5>1 DEF Counted
      <4> QED
        BY <4>1, <4>2
    <3> HIDE DEF m
    <3>5. /\ queue' \in [W!Queue -> Seq(W!Message)]
          /\ sent' \in [W!Queue -> Seq(W!Message)]
      BY <2>0, <3>3, <3>4 DEF W!WriterTypeOK
    <3>6. Unsent
      BY <2>0, <3>4 DEF Counted, W!WriterTypeOK
    <3> QED
      BY <2>1, <3>5, <3>6, <3>7
  <2>4. ASSUME NEW q \in W!Queue, task = "select", queue[q] # <<>>,
               UNCHANGED <<sent, written>>,
               queue' = [queue EXCEPT ![q] = Tail(@)],
               \/ UNCHANGED <<sendq_size, hand, task>>
               \/ /\ hand' = <<Head(queue[q])>> /\ task' = "writing"
                  /\ sendq_size' \in 0..Limit
                  /\ sendq_size' = IF q = "sendq" THEN Head(queue[q]).size ELSE 0
        PROVE  Counted'
    <3>1. queue[q] \in Seq(W!Message)
      BY <2>0 DEF W!WriterTypeOK
    <3>2. /\ Tail(queue[q]) \in Seq(W!Message) /\ Head(queue[q]) \in W!Message
          /\ Len(Tail(queue[q])) = Len(queue[q]) - 1
          /\ \A i \in 1..Len(Tail(queue[q])) : Tail(queue[q])[i] = queue[q][i + 1]
          /\ Head(queue[q]) = queue[q][1] /\ 1 \in 1..Len(queue[q])
          /\ Len(queue[q]) \in Nat
      BY <2>4, <3>1
    <3>3. queue' \in [W!Queue -> Seq(W!Message)]
      BY <2>0, <2>4, <3>2 DEF W!WriterTypeOK
    <3>4. Head(queue[q]).to = q
      BY <3>2 DEF Counted
    <3>5. Unsent
      <4>1. CASE UNCHANGED <<sendq_size, hand, task>>
        BY <2>0, <2>4, <4>1 DEF Counted, W!WriterTypeOK
      <4>2. CASE hand' = <<Head(queue[q])>>
        <5>1. hand' \in Seq(W!Message) /\ Len(hand') = 1 /\ hand'[1].to = q
              /\ hand'[1] = Head(queue[q])
          BY <3>2, <3>4, <4>2
        <5>2. CASE task' = "writing"
          BY <2>0, <2>4, <5>1, <5>2 DEF W!WriterTypeOK
        <5> QED
          BY <2>4, <4>1, <5>2
      <4> QED
        BY <2>4, <4>1, <4>2
    <3>6. \A p \in W!Queue : \A i \in 1..Len(queue'[p]) : queue'[p][i].to = p
      <4>1. \A p \in W!Queue : p # q => queue'[p] = queue[p]
        BY <2>0, <2>4 DEF W!WriterTypeOK
      <4>2. queue'[q] = Tail(queue[q])
        BY <2>0, <2>4 DEF W!WriterTypeOK
      <4>3. \A i \in 1..Len(queue'[q]) : queue'[q][i].to = q
        BY <3>2, <4>2 DEF Counted
      <4> QED
        BY <4>1, <4>3 DEF Counted
    <3> QED
      BY <2>0, <2>1, <2>4, <3>3, <3>5, <3>6 DEF W!WriterTypeOK
  <2>5. CASE TakeTx
    <3>1. sendq_size' = 0 /\ 0 \in 0..Limit
      BY <2>5 DEF TakeTx, W!TakeTx, Counted
    <3> QED
      BY <2>4, <2>5, <3>1 DEF TakeTx, W!TakeTx, W!Queue
  <2>6. CASE TakeSendq
    <3>1. queue["sendq"] \in Seq(W!Message) /\ queue["sendq"] # <<>> /\ sendq_size = 0
      BY <2>0, <2>6 DEF TakeSendq, W!TakeSendq, W!WriterTypeOK, W!Queue, Counted
    <3>2. Head(queue["sendq"]).size \in Nat
      <4>1. Head(queue["sendq"]) \in W!Message
        BY <3>1
      <4> QED
        BY <4>1 DEF W!Message
    <3> QED
      BY <2>4, <2>6, <3>1, <3>2 DEF TakeSendq, W!TakeSendq, W!Queue
  <2>12. ASSUME W!End PROVE Counted'
    <3>1. \A q \in W!Queue : queue'[q] = <<>>
      BY <2>12 DEF W!End
    <3>2. queue' \in [W!Queue -> Seq(W!Message)]
      BY <2>12 DEF W!End
    <3>3. Unsent
      BY <2>0, <2>12 DEF W!End, W!WriterTypeOK
    <3>4. sent' \in [W!Queue -> Seq(W!Message)]
      BY <2>0, <2>12 DEF W!End, W!WriterTypeOK
    <3>5. \A q \in W!Queue : \A i \in 1..Len(queue'[q]) : queue'[q][i].to = q
      <4>1. \A q \in W!Queue : 1..Len(queue'[q]) = {}
        BY <3>1
      <4> QED
        BY <4>1
    <3> HIDE DEF Unsent
    <3> QED
      BY <2>1, <3>2, <3>3, <3>4, <3>5
  <2>7. CASE Writes
    <3>1. CASE W!Written
      <4>0. task = "writing" /\ hand \in Seq(W!Message) /\ Len(hand) = 1
        BY <2>0, <3>1 DEF W!Written, W!WriterTypeOK
      <4>5. hand[1] \in W!Message
        BY <4>0
      <4>1. hand[1] \in W!Message /\ task = "writing" /\ hand[1].size \in Nat
        BY <4>0, <4>5 DEF W!Message
      <4>2. sendq_size' = 0
        BY <3>1, <4>1, <2>0 DEF W!Written, Counted
      <4>3. written' \in Seq(W!Message) /\ hand' = <<>> /\ task' = "select"
        BY <2>0, <3>1 DEF W!Written, W!WriterTypeOK
      <4>4. Unsent
        BY <4>2, <4>3
      <4> QED
        BY <2>0, <2>1, <3>1, <4>4 DEF W!Written, W!WriterTypeOK, Counted
    <3>2. CASE W!WriteFails \/ W!SendqClosed
      BY <2>12, <3>2 DEF W!WriteFails, W!SendqClosed
    <3> QED
      BY <2>7, <3>1, <3>2 DEF Writes
  <2>8. CASE TxClosed
    BY <2>12, <2>8 DEF TxClosed, W!TxClosed
  <2>9. CASE \/ AddClient \/ BeginServing \/ StartTimer \/ StopServing \/ Panic
             \/ CleanUp \/ LeaveChannels \/ RemoveClient \/ Freeze \/ FreezeQueued
             \/ QueuedGetsMutex \/ Expire \/ Borrow \/ GiveBack \/ TimerEnds
    BY <2>2, <2>9 DEF AddClient, BeginServing, StartTimer, StopServing, Panic,
        CleanUp, LeaveChannels, RemoveClient, Freeze, FreezeQueued,
        QueuedGetsMutex, Expire, Borrow, GiveBack,
        TimerEnds
  <2>10. ASSUME NEW size \in Sizes,
                \/ Relay(size) \/ TimerSends(size) \/ TimesOut(size)
                \/ SendTimeout(size)
                \/ \E q \in W!Queue : Answers(q, size)
         PROVE  Counted'
    <3>1. \/ UNCHANGED writerVars
          \/ \E q \in W!Queue : W!Enqueue(q, size)
      BY <2>10 DEF Relay, TimerSends, TimesOut, SendTimeout, Answers,
          W!ClientSends, W!TimerSends, W!Queue
    <3> QED
      BY <2>2, <2>3, <3>1
  <2>11. CASE UNCHANGED vars
    BY <2>2, <2>11 DEF vars
  <2> QED
    BY <2>5, <2>6, <2>7, <2>8, <2>9, <2>10, <2>11 DEF Next
<1> QED
  BY <1>1, <1>2, PTL DEF Spec

-----------------------------------------------------------------------------
ServedIsListed == stage \in {"serving", "dead"} => listed

(* A client is in client_map while it is served and after a panic.         *)
THEOREM ServedListed == Spec => []ServedIsListed
<1>1. Init => ServedIsListed
  BY DEF Init, ServedIsListed
<1>2. ServedIsListed /\ [Next]_vars => ServedIsListed'
  BY DEF ServedIsListed, Next, vars, sessionVars, MoveTo, AddClient, BeginServing,
      StartTimer, StopServing, Panic, CleanUp, LeaveChannels, RemoveClient,
      Freeze, FreezeQueued, QueuedGetsMutex, Expire, Borrow, GiveBack,
      TimerEnds, TakeTx, TakeSendq, TxClosed,
      Writes, Relay, TimerSends, TimesOut, SendTimeout, Answers
<1> QED
  BY <1>1, <1>2, PTL DEF Spec

(* The socket of a client that is served, has panicked, is frozen or was   *)
(* dropped while it is listed is closed by a failing write only: the       *)
(* senders of its queues are not gone, as the Client is not.               *)
THEOREM StaysOpen == Spec => LeftOpen
<1> DEFINE Left == \/ stage \in {"serving", "dead", "queued", "frozen"}
                   \/ stage = "expired" /\ listed
           Step == Left => (task' = "ended" => task \in {"writing", "ended"})
<1>1. ServedIsListed /\ [Next]_vars => Step
  <2> SUFFICES ASSUME ServedIsListed, [Next]_vars, Left, task' = "ended",
                      task \notin {"writing", "ended"}
               PROVE  FALSE
    OBVIOUS
  <2>1. Held
    BY DEF Held, ServedIsListed
  <2>2. ~TxClosed /\ ~Writes
    BY <2>1 DEF TxClosed, Writes, W!TxClosed, W!SendqClosed, W!WriteFails, W!Written
  <2>3. ~TakeTx /\ ~TakeSendq
    BY DEF TakeTx, TakeSendq, W!TakeTx, W!TakeSendq
  <2> QED
    BY <2>2, <2>3 DEF Next, vars, writerVars, AddClient, BeginServing, StartTimer,
        StopServing, Panic, CleanUp, LeaveChannels, RemoveClient, Freeze,
        FreezeQueued, QueuedGetsMutex, Expire,
        Borrow, GiveBack, TimerEnds, Relay, TimerSends, TimesOut, SendTimeout,
        Answers, W!ClientSends, W!TimerSends, W!Enqueue
<1> QED
  BY <1>1, ServedListed, PTL DEF Spec, LeftOpen
-----------------------------------------------------------------------------
(* all was sent to queue q, wait is still queued, out is what the task     *)
(* took from both queues and did not drop; the rest is lost if over.  What *)
(* is queued is the end of all.  What was taken is in out in the order it  *)
(* was sent; what is not was over the limit, or nothing after it is either.*)
TakenInOrder(q, out, all, taken, over) ==
  LET Mine == {i \in 1..Len(out) : out[i].to = q}
  IN  /\ \A i \in Mine : /\ out[i].n \in 1..taken /\ out[i] = all[out[i].n]
                         /\ W!Fits(out[i])
      /\ \A i, j \in Mine : i < j => out[i].n < out[j].n
      /\ \A n \in 1..taken : W!Fits(all[n]) =>
           \/ \E i \in Mine : out[i].n = n
           \/ over /\ \A i \in Mine : out[i].n < n

LineUp(q, out, all, wait, over) ==
  /\ \A n \in 1..Len(all) : all[n].to = q /\ all[n].n = n
  /\ Len(wait) <= Len(all)
  /\ \A i \in 1..Len(wait) : wait[i] = all[Len(all) - Len(wait) + i]
  /\ TakenInOrder(q, out, all, Len(all) - Len(wait), over)

(* A message that is sent waits behind the others. *)
LEMMA LineUpSend ==
  ASSUME NEW q, NEW out \in Seq(W!Message), NEW all \in Seq(W!Message),
         NEW wait \in Seq(W!Message), NEW over \in BOOLEAN,
         NEW m \in W!Message, m.to = q, m.n = Len(all) + 1,
         LineUp(q, out, all, wait, over)
  PROVE  LineUp(q, out, Append(all, m), Append(wait, m), over)
<1> DEFINE All == Append(all, m)
           Wait == Append(wait, m)
<1>1. /\ Len(All) = Len(all) + 1 /\ Len(Wait) = Len(wait) + 1
      /\ Len(all) \in Nat /\ Len(wait) \in Nat /\ Len(wait) <= Len(all)
  BY DEF LineUp
<1>2. \A n \in 1..Len(all) : All[n] = all[n]
  OBVIOUS
<1>3. All[Len(all) + 1] = m /\ Wait[Len(wait) + 1] = m
  OBVIOUS
<1>4. \A i \in 1..Len(wait) : Wait[i] = wait[i]
  OBVIOUS
<1> HIDE DEF All, Wait
<1>5. Len(All) - Len(Wait) = Len(all) - Len(wait)
  BY <1>1
<1>6. \A n \in 1..Len(All) : All[n].to = q /\ All[n].n = n
  BY <1>1, <1>2, <1>3 DEF LineUp
<1>7. \A i \in 1..Len(Wait) : Wait[i] = All[Len(All) - Len(Wait) + i]
  <2> SUFFICES ASSUME NEW i \in 1..Len(Wait)
               PROVE  Wait[i] = All[Len(all) - Len(wait) + i]
    BY <1>5
  <2>1. CASE i = Len(wait) + 1
    BY <2>1, <1>1, <1>3
  <2>2. CASE i \in 1..Len(wait)
    <3>1. Len(all) - Len(wait) + i \in 1..Len(all)
      BY <2>2, <1>1
    <3> QED
      BY <3>1, <2>2, <1>2, <1>4 DEF LineUp
  <2> QED
    BY <2>1, <2>2, <1>1
<1>8. \A n \in 1..(Len(all) - Len(wait)) : All[n] = all[n]
  BY <1>1, <1>2
<1>9. TakenInOrder(q, out, All, Len(all) - Len(wait), over)
  <2> DEFINE taken == Len(all) - Len(wait)
             Mine == {i \in 1..Len(out) : out[i].to = q}
  <2>1. TakenInOrder(q, out, all, taken, over)
    BY DEF LineUp
  <2> HIDE DEF taken
  <2>2. \A n \in 1..taken : All[n] = all[n]
    BY <1>8 DEF taken
  <2>3. \A i \in Mine : /\ out[i].n \in 1..taken /\ out[i] = All[out[i].n]
                        /\ W!Fits(out[i])
    BY <2>1, <2>2 DEF TakenInOrder
  <2>4. \A n \in 1..taken : W!Fits(All[n]) =>
          \/ \E i \in Mine : out[i].n = n
          \/ over /\ \A i \in Mine : out[i].n < n
    BY <2>1, <2>2 DEF TakenInOrder
  <2>5. TakenInOrder(q, out, All, taken, over)
    BY <2>1, <2>3, <2>4 DEF TakenInOrder
  <2> QED
    BY <2>5 DEF taken
<1>10. LineUp(q, out, All, Wait, over)
  BY <1>1, <1>5, <1>6, <1>7, <1>9 DEF LineUp
<1> QED
  BY <1>10 DEF All, Wait

(* What is taken next is the first message that waits. *)
LEMMA LineUpNext ==
  ASSUME NEW q, NEW out \in Seq(W!Message), NEW all \in Seq(W!Message),
         NEW wait \in Seq(W!Message), wait # <<>>, NEW over \in BOOLEAN,
         LineUp(q, out, all, wait, over)
  PROVE  LET k == Len(all) - Len(wait) + 1
         IN  /\ k \in 1..Len(all) /\ Head(wait) = all[k]
             /\ Head(wait).to = q /\ Head(wait).n = k
             /\ Len(Tail(wait)) = Len(wait) - 1 /\ Tail(wait) \in Seq(W!Message)
             /\ Len(all) - Len(Tail(wait)) = k
             /\ \A i \in 1..Len(Tail(wait)) : Tail(wait)[i] = all[k + i]
<1> DEFINE k == Len(all) - Len(wait) + 1
<1>1. Len(wait) \in Nat /\ Len(wait) # 0 /\ Len(all) \in Nat /\ Len(wait) <= Len(all)
  BY DEF LineUp
<1>2. /\ Len(Tail(wait)) = Len(wait) - 1 /\ Head(wait) = wait[1]
      /\ Tail(wait) \in Seq(W!Message)
      /\ \A i \in 1..Len(Tail(wait)) : Tail(wait)[i] = wait[i + 1]
  BY <1>1
<1>3. k \in 1..Len(all) /\ 1 \in 1..Len(wait)
  BY <1>1
<1>4. Head(wait) = all[k]
  BY <1>1, <1>2, <1>3 DEF LineUp
<1>5. \A i \in 1..Len(Tail(wait)) : Tail(wait)[i] = all[k + i]
  <2> SUFFICES ASSUME NEW i \in 1..Len(Tail(wait)) PROVE Tail(wait)[i] = all[k + i]
    OBVIOUS
  <2>1. i + 1 \in 1..Len(wait) /\ k + i = Len(all) - Len(wait) + (i + 1)
    BY <1>1, <1>2
  <2>2. wait[i + 1] = all[Len(all) - Len(wait) + (i + 1)]
    BY <2>1 DEF LineUp
  <2> QED
    BY <1>2, <2>1, <2>2
<1>6. all[k].to = q /\ all[k].n = k
  BY <1>3 DEF LineUp
<1> QED
  BY <1>1, <1>2, <1>3, <1>4, <1>5, <1>6

(* A message that is taken and written comes after all that were. *)
LEMMA LineUpTake ==
  ASSUME NEW q, NEW out \in Seq(W!Message), NEW all \in Seq(W!Message),
         NEW wait \in Seq(W!Message), wait # <<>>,
         LineUp(q, out, all, wait, FALSE), W!Fits(Head(wait))
  PROVE  LineUp(q, Append(out, Head(wait)), all, Tail(wait), FALSE)
<1> DEFINE k == Len(all) - Len(wait) + 1
           m == Head(wait)
           Out == Append(out, m)
           Wait == Tail(wait)
<1>1. /\ k \in 1..Len(all) /\ m = all[k] /\ m.to = q /\ m.n = k
      /\ Len(Wait) = Len(wait) - 1 /\ Len(all) - Len(Wait) = k
      /\ \A i \in 1..Len(Wait) : Wait[i] = all[k + i]
      /\ Len(wait) \in Nat /\ Len(wait) <= Len(all) /\ Len(all) \in Nat
  BY LineUpNext DEF LineUp
<1>t. /\ TakenInOrder(q, out, all, k - 1, FALSE)
      /\ k \in Nat /\ \A n \in 1..k : n \in 1..(k - 1) \/ n = k
      /\ Len(Wait) <= Len(all)
  <2>1. Len(wait) \in Nat /\ Len(wait) <= Len(all) /\ Len(all) \in Nat
    BY DEF LineUp
  <2>2. k - 1 = Len(all) - Len(wait)
    BY <2>1
  <2>3. TakenInOrder(q, out, all, k - 1, FALSE)
    BY <2>2 DEF LineUp
  <2>4. Len(Wait) <= Len(all)
    BY <1>1, <2>1
  <2>5. k \in Nat
    BY <1>1
  <2> HIDE DEF k
  <2>6. \A n \in 1..k : n \in 1..(k - 1) \/ n = k
    BY <2>5
  <2> QED
    BY <2>3, <2>4, <2>5, <2>6
<1>2. Len(Out) = Len(out) + 1 /\ Out[Len(out) + 1] = m /\ Len(out) \in Nat
  OBVIOUS
<1>3. \A i \in 1..Len(out) : Out[i] = out[i]
  OBVIOUS
<1>4. W!Fits(m)
  OBVIOUS
<1> HIDE DEF k, m, Out, Wait
<1> DEFINE Mine == {i \in 1..Len(Out) : Out[i].to = q}
           mine == {i \in 1..Len(out) : out[i].to = q}
<1>5. Mine = mine \cup {Len(out) + 1}
  BY <1>1, <1>2, <1>3
<1>6. \A i \in mine : Out[i] = out[i] /\ i < Len(out) + 1
  BY <1>2, <1>3
<1>7. \A i \in mine : /\ out[i].n \in 1..(k - 1) /\ out[i] = all[out[i].n]
                      /\ W!Fits(out[i])
  BY <1>t DEF TakenInOrder
<1>8. \A i \in Mine : /\ Out[i].n \in 1..k /\ Out[i] = all[Out[i].n]
                      /\ W!Fits(Out[i])
  <2> SUFFICES ASSUME NEW i \in Mine
               PROVE  Out[i].n \in 1..k /\ Out[i] = all[Out[i].n] /\ W!Fits(Out[i])
    OBVIOUS
  <2>1. CASE i \in mine
    BY <2>1, <1>t, <1>6, <1>7
  <2>2. CASE i = Len(out) + 1
    BY <2>2, <1>1, <1>t, <1>2, <1>4
  <2> QED
    BY <1>5, <2>1, <2>2
<1>9. \A i, j \in Mine : i < j => Out[i].n < Out[j].n
  <2> SUFFICES ASSUME NEW i \in Mine, NEW j \in Mine, i < j
               PROVE  Out[i].n < Out[j].n
    OBVIOUS
  <2>1. i \in mine
    <3>1. j <= Len(out) + 1 /\ i \in Int /\ j \in Int
      BY <1>2
    <3> QED
      BY <1>2, <1>5, <3>1
  <2>2. CASE j \in mine
    BY <2>1, <2>2, <1>6, <1>t DEF TakenInOrder
  <2>3. CASE j = Len(out) + 1
    BY <2>1, <2>3, <1>1, <1>t, <1>2, <1>6, <1>7
  <2> QED
    BY <1>5, <2>2, <2>3
<1>10. \A n \in 1..k : W!Fits(all[n]) => \E i \in Mine : Out[i].n = n
  <2> SUFFICES ASSUME NEW n \in 1..k, W!Fits(all[n])
               PROVE  \E i \in Mine : Out[i].n = n
    OBVIOUS
  <2>1. CASE n = k
    BY <2>1, <1>1, <1>2, <1>5
  <2>2. CASE n # k
    <3>1. n \in 1..(k - 1)
      BY <2>2, <1>t
    <3>2. PICK i \in mine : out[i].n = n
      BY <3>1, <1>t DEF TakenInOrder
    <3> QED
      BY <3>2, <1>5, <1>6
  <2> QED
    BY <2>1, <2>2
<1>11. \A n \in 1..Len(all) : all[n].to = q /\ all[n].n = n
  BY DEF LineUp
<1>12. TakenInOrder(q, Out, all, k, FALSE)
  BY <1>8, <1>9, <1>10 DEF TakenInOrder
<1>13. LineUp(q, Out, all, Wait, FALSE)
  BY <1>1, <1>t, <1>11, <1>12 DEF LineUp
<1> QED
  BY <1>13 DEF m, Out, Wait

(* One that is over the limit is dropped. *)
LEMMA LineUpDrop ==
  ASSUME NEW q, NEW out \in Seq(W!Message), NEW all \in Seq(W!Message),
         NEW wait \in Seq(W!Message), wait # <<>>,
         LineUp(q, out, all, wait, FALSE), ~W!Fits(Head(wait))
  PROVE  LineUp(q, out, all, Tail(wait), FALSE)
<1> DEFINE k == Len(all) - Len(wait) + 1
           Wait == Tail(wait)
           mine == {i \in 1..Len(out) : out[i].to = q}
<1>1. /\ k \in 1..Len(all) /\ ~W!Fits(all[k])
      /\ Len(Wait) = Len(wait) - 1 /\ Len(all) - Len(Wait) = k
      /\ \A i \in 1..Len(Wait) : Wait[i] = all[k + i]
      /\ Len(wait) \in Nat /\ Len(wait) <= Len(all) /\ Len(all) \in Nat
  BY LineUpNext DEF LineUp
<1> HIDE DEF Wait
<1>t. TakenInOrder(q, out, all, Len(all) - Len(wait), FALSE)
  BY DEF LineUp
<1>2. \A i \in mine : out[i].n \in 1..k
  BY <1>1, <1>t DEF TakenInOrder
<1>3. \A n \in 1..k : W!Fits(all[n]) => \E i \in mine : out[i].n = n
  <2> SUFFICES ASSUME NEW n \in 1..k, W!Fits(all[n])
               PROVE  \E i \in mine : out[i].n = n
    OBVIOUS
  <2>1. n \in 1..(Len(all) - Len(wait))
    BY <1>1
  <2> QED
    BY <2>1, <1>t DEF TakenInOrder
<1>4. TakenInOrder(q, out, all, k, FALSE)
  BY <1>2, <1>3, <1>t DEF TakenInOrder
<1>5. LineUp(q, out, all, Wait, FALSE)
  <2> HIDE DEF k
  <2>1. \A n \in 1..Len(all) : all[n].to = q /\ all[n].n = n
    BY DEF LineUp
  <2>2. Len(Wait) <= Len(all)
    BY <1>1
  <2> QED
    BY <1>1, <1>4, <2>1, <2>2 DEF LineUp
<1> QED
  BY <1>5 DEF Wait

(* What is taken from the other queue is no matter. *)
LEMMA LineUpOther ==
  ASSUME NEW q, NEW out \in Seq(W!Message), NEW all \in Seq(W!Message),
         NEW wait \in Seq(W!Message), NEW over \in BOOLEAN,
         NEW m \in W!Message, m.to # q,
         LineUp(q, out, all, wait, over)
  PROVE  LineUp(q, Append(out, m), all, wait, over)
<1> DEFINE Out == Append(out, m)
           Mine == {i \in 1..Len(Out) : Out[i].to = q}
           mine == {i \in 1..Len(out) : out[i].to = q}
<1>1. Len(Out) = Len(out) + 1 /\ Out[Len(out) + 1] = m /\ Len(out) \in Nat
  OBVIOUS
<1>2. \A i \in 1..Len(out) : Out[i] = out[i]
  OBVIOUS
<1> HIDE DEF Out
<1>3. Mine = mine /\ \A i \in mine : Out[i] = out[i]
  BY <1>1, <1>2
<1>4. ASSUME NEW taken, TakenInOrder(q, out, all, taken, over)
      PROVE  TakenInOrder(q, Out, all, taken, over)
  <2>1. \A i \in Mine : /\ Out[i].n \in 1..taken /\ Out[i] = all[Out[i].n]
                        /\ W!Fits(Out[i])
    BY <1>3, <1>4 DEF TakenInOrder
  <2>2. \A i, j \in Mine : i < j => Out[i].n < Out[j].n
    BY <1>3, <1>4 DEF TakenInOrder
  <2>3. \A n \in 1..taken : W!Fits(all[n]) =>
           \/ \E i \in Mine : Out[i].n = n
           \/ over /\ \A i \in Mine : Out[i].n < n
    BY <1>3, <1>4 DEF TakenInOrder
  <2> QED
    BY <2>1, <2>2, <2>3 DEF TakenInOrder
<1>5. LineUp(q, Out, all, wait, over)
  BY <1>4 DEF LineUp
<1> QED
  BY <1>5 DEF Out

(* The task ends with what waits, and it is lost. *)
LEMMA LineUpOver ==
  ASSUME NEW q, NEW out \in Seq(W!Message), NEW all \in Seq(W!Message),
         NEW wait \in Seq(W!Message), NEW over \in BOOLEAN,
         LineUp(q, out, all, wait, over)
  PROVE  LineUp(q, out, all, <<>>, TRUE)
<1> DEFINE mine == {i \in 1..Len(out) : out[i].to = q}
           taken == Len(all) - Len(wait)
           rest == Len(all) - 0
<1>0. Len(wait) \in Nat /\ Len(all) \in Nat /\ Len(wait) <= Len(all)
  BY DEF LineUp
<1>1. /\ \A n \in 1..Len(all) : all[n].to = q /\ all[n].n = n
      /\ \A i \in mine : /\ out[i].n \in 1..taken /\ out[i] = all[out[i].n]
                         /\ W!Fits(out[i])
      /\ \A i, j \in mine : i < j => out[i].n < out[j].n
      /\ \A n \in 1..taken : W!Fits(all[n]) =>
           \/ \E i \in mine : out[i].n = n
           \/ \A i \in mine : out[i].n < n
  BY DEF LineUp, TakenInOrder
<1>2. \A i \in mine : out[i].n \in 1..rest
  BY <1>0, <1>1
<1>3. \A n \in 1..rest : W!Fits(all[n]) =>
           \/ \E i \in mine : out[i].n = n
           \/ \A i \in mine : out[i].n < n
  <2> SUFFICES ASSUME NEW n \in 1..rest, n \notin 1..taken, NEW i \in mine
               PROVE  out[i].n < n
    BY <1>1
  <2> QED
    BY <1>0, <1>1
<1>4. Len(<<>>) = 0 /\ 1..0 = {}
  OBVIOUS
<1>5. TakenInOrder(q, out, all, rest, TRUE)
  BY <1>1, <1>2, <1>3 DEF TakenInOrder
<1>6. TakenInOrder(q, out, all, Len(all) - Len(<<>>), TRUE)
  BY <1>4, <1>5
<1>7. \A i \in 1..Len(<<>>) : <<>>[i] = all[Len(all) - Len(<<>>) + i]
  BY <1>4
<1>8. \A n \in 1..Len(all) : all[n].to = q /\ all[n].n = n
  BY DEF LineUp
<1>9. Len(<<>>) <= Len(all)
  BY <1>0, <1>4
<1> QED
  BY <1>6, <1>7, <1>8, <1>9 DEF LineUp

(* The last message is lost, and with it what comes after it. *)
LEMMA LineUpLose ==
  ASSUME NEW q, NEW out \in Seq(W!Message), NEW all \in Seq(W!Message),
         NEW wait \in Seq(W!Message), NEW over \in BOOLEAN, NEW m \in W!Message,
         LineUp(q, Append(out, m), all, wait, over)
  PROVE  LineUp(q, out, all, wait, TRUE)
<1> DEFINE Out == Append(out, m)
           Mine == {i \in 1..Len(Out) : Out[i].to = q}
           mine == {i \in 1..Len(out) : out[i].to = q}
           taken == Len(all) - Len(wait)
<1>1. Len(Out) = Len(out) + 1 /\ Len(out) \in Nat
  OBVIOUS
<1>2. \A i \in 1..Len(out) : Out[i] = out[i]
  OBVIOUS
<1>3. LineUp(q, Out, all, wait, over)
  OBVIOUS
<1> HIDE DEF Out
<1>4. /\ \A i \in mine : i \in Mine /\ Out[i] = out[i] /\ i < Len(out) + 1
      /\ \A i \in Mine : i \in mine \/ i = Len(out) + 1
  BY <1>1, <1>2
<1>5. /\ \A i \in Mine : /\ Out[i].n \in 1..taken /\ Out[i] = all[Out[i].n]
                         /\ W!Fits(Out[i])
      /\ \A i, j \in Mine : i < j => Out[i].n < Out[j].n
  BY <1>3 DEF LineUp, TakenInOrder
<1>6. \A n \in 1..taken : W!Fits(all[n]) =>
        \/ \E i \in mine : out[i].n = n
        \/ \A i \in mine : out[i].n < n
  <2> SUFFICES ASSUME NEW n \in 1..taken, W!Fits(all[n]),
                      NEW j \in mine, ~(out[j].n < n)
               PROVE  \E i \in mine : out[i].n = n
    OBVIOUS
  <2>1. Out[j] = out[j] /\ j \in Mine /\ Out[j].n \in Int /\ n \in Int
    BY <1>4, <1>5
  <2>2. PICK i \in Mine : Out[i].n = n
    BY <2>1, <1>3 DEF LineUp, TakenInOrder
  <2>3. i # Len(out) + 1
    <3> SUFFICES ASSUME i = Len(out) + 1 PROVE FALSE
      OBVIOUS
    <3>1. j < i
      BY <1>4
    <3>2. Out[j].n < Out[i].n
      BY <3>1, <2>1, <2>2, <1>5
    <3> QED
      BY <3>2, <2>1, <2>2
  <2> QED
    BY <2>2, <2>3, <1>4
<1>7. TakenInOrder(q, out, all, taken, TRUE)
  BY <1>4, <1>5, <1>6 DEF TakenInOrder
<1> QED
  BY <1>3, <1>7 DEF LineUp

LineUps == \A q \in W!Queue :
  /\ LineUp(q, written \o hand, sent[q], queue[q], task = "ended")
  /\ task = "ended" => queue[q] = <<>>

(* A step of a session sends one message, takes one, writes what is in     *)
(* hand, ends the task, or leaves the writer task as it is.                *)
LEMMA WriterSteps ==
  ASSUME [Next]_vars
  PROVE  \/ UNCHANGED writerVars
         \/ \E q \in W!Queue, size \in Sizes : W!Enqueue(q, size)
         \/ W!TakeTx \/ W!TakeSendq \/ W!Written
         \/ W!End /\ task \in {"select", "writing"}
<1>1. CASE TakeTx \/ TakeSendq \/ TxClosed \/ Writes
  BY <1>1 DEF TakeTx, TakeSendq, TxClosed, Writes, W!TxClosed, W!WriteFails,
      W!SendqClosed
<1>2. ASSUME NEW size \in Sizes,
             \/ Relay(size) \/ TimerSends(size) \/ TimesOut(size)
             \/ SendTimeout(size)
             \/ \E q \in W!Queue : Answers(q, size)
      PROVE  UNCHANGED writerVars \/ \E q \in W!Queue : W!Enqueue(q, size)
  BY <1>2 DEF Relay, TimerSends, TimesOut, SendTimeout, Answers,
      W!ClientSends, W!TimerSends, W!Queue
<1>3. CASE \/ AddClient \/ BeginServing \/ StartTimer \/ StopServing \/ Panic
           \/ CleanUp \/ LeaveChannels \/ RemoveClient \/ Freeze \/ FreezeQueued
           \/ QueuedGetsMutex \/ Expire \/ Borrow \/ GiveBack \/ TimerEnds
  BY <1>3 DEF AddClient, BeginServing, StartTimer, StopServing, Panic,
      CleanUp, LeaveChannels, RemoveClient, Freeze, FreezeQueued,
      QueuedGetsMutex, Expire, Borrow, GiveBack,
      TimerEnds
<1>4. CASE UNCHANGED vars
  BY <1>4 DEF vars
<1> QED
  BY <1>1, <1>2, <1>3, <1>4 DEF Next

(* The message that is taken is written next. *)
LEMMA LineUpsTaken ==
  ASSUME Counted, LineUps, NEW q \in W!Queue, task = "select", queue[q] # <<>>,
         sent' = sent, written' = written, task' # "ended",
         queue' = [queue EXCEPT ![q] = Tail(@)],
         \/ hand' = hand /\ ~W!Fits(Head(queue[q]))
         \/ hand' = <<Head(queue[q])>> /\ W!Fits(Head(queue[q]))
  PROVE  LineUps'
<1> DEFINE m == Head(queue[q])
<1>1. /\ queue \in [W!Queue -> Seq(W!Message)] /\ sent \in [W!Queue -> Seq(W!Message)]
      /\ written \in Seq(W!Message) /\ hand = <<>>
  <2>1. hand \in Seq(W!Message) /\ Len(hand) = 0
    BY DEF Counted, SessTypeOK, W!WriterTypeOK
  <2> QED
    BY <2>1 DEF Counted, SessTypeOK, W!WriterTypeOK
<1>2. queue[q] \in Seq(W!Message) /\ m \in W!Message /\ Len(queue[q]) \in Nat
      /\ Len(queue[q]) # 0 /\ m = queue[q][1]
  BY <1>1
<1>3. m.to = q
  BY <1>2 DEF Counted
<1>4. written \o hand = written
  BY <1>1
<1>5. \A p \in W!Queue : LineUp(p, written, sent[p], queue[p], FALSE)
  BY <1>4 DEF LineUps
<1>6. \A p \in W!Queue : queue'[p] = IF p = q THEN Tail(queue[q]) ELSE queue[p]
  BY <1>1
<1>7. CASE hand' = hand /\ ~W!Fits(m)
  <2>1. LineUp(q, written, sent[q], Tail(queue[q]), FALSE)
    BY <1>1, <1>2, <1>5, <1>7, LineUpDrop
  <2>2. \A p \in W!Queue : LineUp(p, written, sent[p], queue'[p], FALSE)
    BY <2>1, <1>5, <1>6
  <2> QED
    BY <2>2, <1>4, <1>7 DEF LineUps
<1>8. CASE hand' = <<m>> /\ W!Fits(m)
  <2>1. written \o <<m>> = Append(written, m)
    BY <1>1, <1>2
  <2>2. LineUp(q, Append(written, m), sent[q], Tail(queue[q]), FALSE)
    BY <1>1, <1>2, <1>5, <1>8, LineUpTake
  <2>3. ASSUME NEW p \in W!Queue, p # q
        PROVE  LineUp(p, Append(written, m), sent[p], queue[p], FALSE)
    <3>1. sent[p] \in Seq(W!Message) /\ queue[p] \in Seq(W!Message) /\ m.to # p
      BY <1>1, <1>3, <2>3
    <3> QED
      BY <1>1, <1>2, <1>5, <3>1, LineUpOther
  <2>4. \A p \in W!Queue :
          LineUp(p, Append(written, m), sent[p], queue'[p], FALSE)
    BY <2>2, <2>3, <1>6
  <2> QED
    BY <2>1, <2>4, <1>8 DEF LineUps
<1> QED
  BY <1>7, <1>8

(* Whatever the connection does, each queue is written in its order.       *)
THEOREM QueuesLineUp == Spec => []LineUps
<1> USE SessionAssumption
<1>1. Init => LineUps
  <2> SUFFICES ASSUME Init, NEW q \in W!Queue
               PROVE  LineUp(q, written \o hand, sent[q], queue[q], task = "ended")
    BY DEF LineUps, Init, W!Init
  <2>1. /\ queue[q] = <<>> /\ sent[q] = <<>> /\ hand = <<>> /\ written = <<>>
        /\ written \o hand = <<>>
    BY DEF Init, W!Init
  <2>2. Len(<<>>) = 0 /\ 1..0 = {} /\ 0 - 0 = 0
    OBVIOUS
  <2> QED
    BY <2>1, <2>2 DEF LineUp, TakenInOrder
<1>2. LineUps /\ Counted /\ [Next]_vars => LineUps'
  <2> SUFFICES ASSUME LineUps, Counted, [Next]_vars PROVE LineUps'
    OBVIOUS
  <2>0. /\ queue \in [W!Queue -> Seq(W!Message)] /\ sent \in [W!Queue -> Seq(W!Message)]
        /\ written \in Seq(W!Message) /\ hand \in Seq(W!Message)
        /\ Len(hand) = (IF task = "writing" THEN 1 ELSE 0)
    BY DEF Counted, SessTypeOK, W!WriterTypeOK
  <2>1. CASE UNCHANGED writerVars
    BY <2>1 DEF LineUps, writerVars
  <2>2. ASSUME NEW q \in W!Queue, NEW size \in Sizes, W!Enqueue(q, size)
        PROVE  LineUps'
    <3> DEFINE m == [to |-> q, n |-> Len(sent[q]) + 1, size |-> size]
    <3>1. m \in W!Message /\ m.to = q /\ m.n = Len(sent[q]) + 1
      BY <2>0, <2>2 DEF W!Enqueue, W!Message
    <3>2. /\ queue' = [queue EXCEPT ![q] = Append(queue[q], m)]
          /\ sent' = [sent EXCEPT ![q] = Append(sent[q], m)]
          /\ UNCHANGED <<hand, task, written>> /\ task # "ended"
      BY <2>2 DEF W!Enqueue
    <3> HIDE DEF m
    <3>3. written \o hand \in Seq(W!Message)
      BY <2>0
    <3>4. LineUp(q, written \o hand, Append(sent[q], m), Append(queue[q], m),
                 task = "ended")
      <4>1. LineUp(q, written \o hand, sent[q], queue[q], task = "ended")
        BY DEF LineUps
      <4>2. sent[q] \in Seq(W!Message) /\ queue[q] \in Seq(W!Message)
            /\ (task = "ended") \in BOOLEAN
        BY <2>0
      <4> QED
        BY <3>1, <3>3, <4>1, <4>2, LineUpSend
    <3>5. \A p \in W!Queue :
            LineUp(p, written \o hand, sent'[p], queue'[p], task = "ended")
      <4>1. sent'[q] = Append(sent[q], m) /\ queue'[q] = Append(queue[q], m)
        BY <2>0, <3>2
      <4>2. \A p \in W!Queue : p # q => sent'[p] = sent[p] /\ queue'[p] = queue[p]
        BY <2>0, <3>2
      <4> QED
        BY <3>4, <4>1, <4>2 DEF LineUps
    <3> QED
      BY <3>2, <3>5 DEF LineUps
  <2>3. CASE W!TakeTx
    <3>1. queue["tx"] \in Seq(W!Message) /\ queue["tx"] # <<>> /\ "tx" \in W!Queue
      BY <2>0, <2>3 DEF W!TakeTx, W!Queue
    <3>2. Head(queue["tx"]).to = "tx"
      <4>1. 1 \in 1..Len(queue["tx"]) /\ Head(queue["tx"]) = queue["tx"][1]
        BY <3>1
      <4> QED
        BY <3>1, <4>1 DEF Counted
    <3>3. W!Fits(Head(queue["tx"]))
      BY <3>2 DEF W!Fits
    <3> QED
      BY <2>3, <3>1, <3>3, LineUpsTaken DEF W!TakeTx
  <2>4. CASE W!TakeSendq
    <3>1. queue["sendq"] \in Seq(W!Message) /\ queue["sendq"] # <<>>
          /\ "sendq" \in W!Queue /\ task = "select" /\ sendq_size = 0
      BY <2>0, <2>4 DEF W!TakeSendq, W!Queue, Counted
    <3>2. /\ 1 \in 1..Len(queue["sendq"]) /\ Head(queue["sendq"]) = queue["sendq"][1]
          /\ Head(queue["sendq"]) \in W!Message
      BY <3>1
    <3>3. Head(queue["sendq"]).to = "sendq" /\ Head(queue["sendq"]).size \in Nat
      BY <3>1, <3>2 DEF Counted, W!Message
    <3> DEFINE m == Head(queue["sendq"])
    <3>4. \/ m.size <= Limit /\ hand' = <<m>> /\ task' = "writing"
          \/ ~(m.size <= Limit) /\ hand' = hand /\ task' = task
      BY <2>4, <3>1, <3>3 DEF W!TakeSendq
    <3>5. W!Fits(m) <=> m.size <= Limit
      BY <3>3 DEF W!Fits
    <3> QED
      BY <2>4, <3>1, <3>4, <3>5, LineUpsTaken DEF W!TakeSendq
  <2>5. CASE W!Written
    <3>1. /\ written' = written \o hand /\ hand' = <<>> /\ task = "writing"
          /\ task' = "select" /\ UNCHANGED <<queue, sent>>
      BY <2>5 DEF W!Written
    <3>2. written' \o hand' = written \o hand
      BY <2>0, <3>1
    <3> QED
      BY <3>1, <3>2 DEF LineUps
  <2>6. CASE W!End /\ task \in {"select", "writing"}
    <3>1. /\ queue' = [q \in W!Queue |-> <<>>] /\ hand' = <<>> /\ task' = "ended"
          /\ UNCHANGED <<sent, written>>
      BY <2>6 DEF W!End
    <3>2. written' \o hand' = written
      BY <2>0, <3>1
    <3>3. ASSUME NEW q \in W!Queue PROVE LineUp(q, written, sent[q], <<>>, TRUE)
      <4>1. LineUp(q, written \o hand, sent[q], queue[q], FALSE)
        BY <2>6 DEF LineUps
      <4>2. sent[q] \in Seq(W!Message) /\ queue[q] \in Seq(W!Message)
        BY <2>0
      <4>3. CASE task = "writing"
        <5>1. hand[1] \in W!Message /\ written \o hand = Append(written, hand[1])
          <6>0. Len(hand) = 1 /\ hand \in Seq(W!Message)
            BY <2>0, <4>3
          <6>1. Len(hand) = 1 /\ hand[1] \in W!Message
            BY <6>0
          <6>2. hand = <<hand[1]>>
            BY <2>0, <6>1
          <6>3. ASSUME NEW m \in W!Message
                PROVE  written \o <<m>> = Append(written, m)
            BY <2>0
          <6> QED
            BY <6>1, <6>2, <6>3
        <5> QED
          <6>1. LineUp(q, Append(written, hand[1]), sent[q], queue[q], FALSE)
            BY <4>1, <5>1
          <6>2. LineUp(q, written, sent[q], queue[q], TRUE)
            BY <2>0, <4>2, <5>1, <6>1, LineUpLose
          <6> QED
            BY <2>0, <4>2, <6>2, LineUpOver
      <4>4. CASE task = "select"
        <5>1. written \o hand = written
          BY <2>0, <4>4
        <5>2. LineUp(q, written, sent[q], queue[q], FALSE)
          BY <4>1, <5>1
        <5> QED
          BY <2>0, <4>2, <5>2, LineUpOver
      <4> QED
        BY <2>6, <4>3, <4>4
    <3> QED
      BY <3>1, <3>2, <3>3 DEF LineUps
  <2> QED
    BY <2>1, <2>2, <2>3, <2>4, <2>5, <2>6, WriterSteps
<1> QED
  BY <1>1, <1>2, OneMessageCounted, PTL DEF Spec

(* Each queue is written in order and without loss until the task ends,    *)
(* except for messages over the limit, and nothing is missing before a     *)
(* message that was written: whatever was sent, to whichever queue, and    *)
(* however the two were taken.                                             *)
THEOREM EachQueueInOrder == Spec => []WrittenInOrder
<1>1. Counted /\ LineUps => WrittenInOrder
  <2> SUFFICES ASSUME Counted, LineUps, NEW q \in W!Queue
      PROVE LET way == W!Way(q)
                Mine == {i \in DOMAIN way : way[i].to = q /\ W!Fits(way[i])}
                Due == {n \in DOMAIN sent[q] : W!Fits(sent[q][n])}
            IN  /\ \A i \in Mine : way[i].n \in Due /\ way[i] = sent[q][way[i].n]
                /\ \A i, j \in Mine : i < j => way[i].n < way[j].n
                /\ \A n \in Due : \/ \E i \in Mine : way[i].n = n
                                  \/ task = "ended" /\ \A i \in Mine : way[i].n < n
    BY DEF WrittenInOrder, W!WrittenInOrder
  <2> DEFINE out == written \o hand
             all == sent[q]
             wait == queue[q]
             taken == Len(all) - Len(wait)
             way == W!Way(q)
             mine == {i \in 1..Len(out) : out[i].to = q}
             Mine == {i \in DOMAIN way : way[i].to = q /\ W!Fits(way[i])}
             Due == {n \in DOMAIN all : W!Fits(all[n])}
  <2>0. written \in Seq(W!Message) /\ hand \in Seq(W!Message)
    BY DEF Counted, SessTypeOK, W!WriterTypeOK
  <2>1. out \in Seq(W!Message) /\ all \in Seq(W!Message) /\ wait \in Seq(W!Message)
    <3>1. out \in Seq(W!Message)
      BY <2>0
    <3> QED
      BY <3>1 DEF Counted, SessTypeOK, W!WriterTypeOK
  <2>2. LineUp(q, out, all, wait, task = "ended")
    BY DEF LineUps
  <2>3. way = out \o wait
    BY DEF W!Way
  <2>4. task = "ended" => wait = <<>>
    BY DEF LineUps
  <2> HIDE DEF out, all, wait, way
  <2>5. /\ Len(way) = Len(out) + Len(wait) /\ DOMAIN way = 1..Len(way)
        /\ Len(out) \in Nat /\ Len(wait) \in Nat /\ Len(all) \in Nat
        /\ DOMAIN all = 1..Len(all) /\ Len(wait) <= Len(all)
        /\ taken \in Nat
    BY <2>1, <2>2, <2>3 DEF LineUp
  <2>6. /\ \A i \in 1..Len(out) : i \in DOMAIN way /\ way[i] = out[i]
        /\ \A i \in 1..Len(wait) : /\ Len(out) + i \in DOMAIN way
                                   /\ way[Len(out) + i] = wait[i]
    BY <2>1, <2>3, <2>5
  <2> HIDE DEF taken
  <2>7. \A i \in 1..Len(wait) : /\ taken + i \in 1..Len(all)
                                /\ wait[i] = all[taken + i]
                                /\ wait[i].to = q /\ wait[i].n = taken + i
    <3> SUFFICES ASSUME NEW i \in 1..Len(wait)
                 PROVE  /\ taken + i \in 1..Len(all)
                        /\ wait[i] = all[taken + i]
                        /\ wait[i].to = q /\ wait[i].n = taken + i
      OBVIOUS
    <3>1. taken + i \in 1..Len(all)
      BY <2>5 DEF taken
    <3>2. wait[i] = all[taken + i]
      BY <2>2 DEF LineUp, taken
    <3> QED
      BY <3>1, <3>2, <2>2 DEF LineUp
  <2>8. /\ \A i \in mine : /\ out[i].n \in 1..taken /\ out[i] = all[out[i].n]
                           /\ W!Fits(out[i])
        /\ \A i, j \in mine : i < j => out[i].n < out[j].n
        /\ \A n \in 1..taken : W!Fits(all[n]) =>
             \/ \E i \in mine : out[i].n = n
             \/ task = "ended" /\ \A i \in mine : out[i].n < n
    BY <2>2 DEF LineUp, TakenInOrder, taken
  <2>9. \A i \in mine : i \in Mine /\ way[i] = out[i] /\ i <= Len(out)
    BY <2>5, <2>6, <2>8
  <2>10. ASSUME NEW i \in Mine, i \notin mine
         PROVE  \E k \in 1..Len(wait) : i = Len(out) + k /\ way[i] = wait[k]
    <3>1. i \in 1..(Len(out) + Len(wait)) /\ i \notin 1..Len(out)
      BY <2>5, <2>6, <2>10
    <3>2. i - Len(out) \in 1..Len(wait) /\ i = Len(out) + (i - Len(out))
      BY <2>5, <3>1
    <3> QED
      BY <2>6, <3>2
  <2>11. ASSUME NEW i \in Mine PROVE way[i].n \in Due /\ way[i] = all[way[i].n]
    <3>0. W!Fits(way[i])
      OBVIOUS
    <3>1. CASE i \in mine
      <4>1. way[i].n \in 1..Len(all)
        BY <2>5, <2>8, <2>9, <3>1 DEF taken
      <4> QED
        BY <2>5, <2>8, <2>9, <3>0, <3>1, <4>1
    <3>2. CASE i \notin mine
      BY <2>5, <2>7, <2>10, <3>0, <3>2
    <3> QED
      BY <3>1, <3>2
  <2>12. ASSUME NEW i \in Mine, NEW j \in Mine, i < j
         PROVE  way[i].n < way[j].n
    <3>1. CASE i \in mine /\ j \in mine
      BY <2>8, <2>9, <2>12, <3>1
    <3>2. CASE i \in mine /\ j \notin mine
      <4>1. way[i].n \in 1..taken
        BY <2>8, <2>9, <3>2
      <4>2. PICK k \in 1..Len(wait) : way[j] = wait[k]
        BY <2>10, <3>2
      <4>3. way[j].n = taken + k
        BY <2>7, <4>2
      <4> QED
        BY <2>5, <4>1, <4>3
    <3>3. CASE i \notin mine
      <4>1. PICK k \in 1..Len(wait) : i = Len(out) + k /\ way[i] = wait[k]
        BY <2>10, <3>3
      <4>2. j \notin mine
        BY <2>5, <2>9, <2>12, <4>1
      <4>3. PICK l \in 1..Len(wait) : j = Len(out) + l /\ way[j] = wait[l]
        BY <2>10, <4>2
      <4>4. k < l
        BY <2>5, <2>12, <4>1, <4>3
      <4> QED
        BY <2>5, <2>7, <4>1, <4>3, <4>4
    <3> QED
      BY <3>1, <3>2, <3>3
  <2>13. ASSUME NEW n \in Due
         PROVE  \/ \E i \in Mine : way[i].n = n
                \/ task = "ended" /\ \A i \in Mine : way[i].n < n
    <3>0. W!Fits(all[n]) /\ n \in 1..Len(all)
      BY <2>5
    <3>1. CASE n \in 1..taken
      <4>1. CASE \E i \in mine : out[i].n = n
        BY <2>9, <4>1
      <4>2. CASE task = "ended" /\ \A i \in mine : out[i].n < n
        <5>1. \A i \in Mine : i \in mine
          <6>1. Len(wait) = 0
            BY <2>4, <4>2
          <6> QED
            BY <2>10, <6>1
        <5> QED
          BY <2>9, <4>2, <5>1
      <4> QED
        BY <2>8, <3>0, <3>1, <4>1, <4>2
    <3>2. CASE n \notin 1..taken
      <4> DEFINE k == n - taken
      <4>1. k \in 1..Len(wait) /\ n = taken + k
        BY <2>5, <3>0, <3>2 DEF taken
      <4> HIDE DEF k
      <4>2. way[Len(out) + k] = all[n] /\ all[n].to = q /\ all[n].n = n
        BY <2>6, <2>7, <4>1
      <4>3. Len(out) + k \in Mine
        BY <2>6, <3>0, <4>1, <4>2
      <4> QED
        BY <4>2, <4>3
    <3> QED
      BY <3>1, <3>2
  <2> QED
    BY <2>11, <2>12, <2>13 DEF all, way
<1> QED
  BY <1>1, OneMessageCounted, QueuesLineUp, PTL

(* When the task ends because a queue is closed, all that was sent to that *)
(* queue has been written, but for what is over the limit; and sendq is    *)
(* not closed while the ping timer has its sender.                         *)
THEOREM ClosedWhenDrained == Spec => OneQueueDrained
<1> DEFINE Step == task = "select" /\ task' = "ended" =>
                     \E q \in W!Queue : Drained(q) /\ (TimerHolds => q = "tx")
<1>1. ASSUME Counted, LineUps, NEW q \in W!Queue, task = "select", queue[q] = <<>>
      PROVE  Drained(q)
  <2>1. /\ written \in Seq(W!Message) /\ sent[q] \in Seq(W!Message)
        /\ hand \in Seq(W!Message) /\ Len(hand) = 0
    BY <1>1 DEF Counted, SessTypeOK, W!WriterTypeOK
  <2>2. written \o hand = written
    BY <2>1
  <2>3. LineUp(q, written, sent[q], <<>>, FALSE)
    BY <1>1, <2>2 DEF LineUps
  <2>4. Len(sent[q]) - Len(<<>>) = Len(sent[q]) /\ DOMAIN sent[q] = 1..Len(sent[q])
        /\ DOMAIN written = 1..Len(written)
    BY <2>1
  <2>5. TakenInOrder(q, written, sent[q], Len(sent[q]), FALSE)
    BY <2>3, <2>4 DEF LineUp
  <2>6. \A n \in DOMAIN sent[q] : W!Fits(sent[q][n]) =>
          \E i \in DOMAIN written : written[i] = sent[q][n]
    BY <2>4, <2>5 DEF TakenInOrder
  <2> QED
    BY <2>6 DEF Drained, Range
<1>2. Counted /\ LineUps /\ [Next]_vars => Step
  <2> SUFFICES ASSUME Counted, LineUps, [Next]_vars,
                      task = "select", task' = "ended"
               PROVE  \E q \in W!Queue : Drained(q) /\ (TimerHolds => q = "tx")
    OBVIOUS
  <2>1. TxClosed \/ Writes
    BY DEF Next, vars, writerVars, AddClient, BeginServing, StartTimer,
        StopServing, Panic, CleanUp, LeaveChannels, RemoveClient, Freeze,
        FreezeQueued, QueuedGetsMutex, Expire,
        Borrow, GiveBack, TimerEnds, Relay, TimerSends, TimesOut, SendTimeout,
        Answers, W!ClientSends, W!TimerSends, W!Enqueue, TakeTx, TakeSendq,
        W!TakeTx, W!TakeSendq
  <2>2. \/ queue["tx"] = <<>>
        \/ queue["sendq"] = <<>> /\ ~TimerHolds
    BY <2>1 DEF TxClosed, Writes, W!TxClosed, W!SendqClosed, W!Written, W!WriteFails
  <2>3. "tx" \in W!Queue /\ "sendq" \in W!Queue
    BY DEF W!Queue
  <2> QED
    BY <1>1, <2>2, <2>3
<1> QED
  BY <1>2, OneMessageCounted, QueuesLineUp, PTL DEF Spec, OneQueueDrained
=============================================================================
