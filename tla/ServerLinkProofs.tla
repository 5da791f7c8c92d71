-------------------------- MODULE ServerLinkProofs --------------------------
(***************************************************************************)
(* Proofs about ServerLink, for any number of calls of connect_to_server,  *)
(* any configuration and peers that say anything.  LinkInv says of each    *)
(* link what its task has read and answered, according to its stage, and   *)
(* of linked_servers which links it can name.                              *)
(***************************************************************************)
EXTENDS ServerLink, TLAPS

Step(l) ==
  \/ Dial(l) \/ Dialed(l) \/ Task(l)
  \/ PeerReads(l) \/ PeerCloses(l)
  \/ \E m \in Line : PeerSends(l, m)

-----------------------------------------------------------------------------
(* Types *)

LEMMA LinkTypeStep == LinkTypeOK /\ [Next]_vars => LinkTypeOK'
<1> SUFFICES ASSUME LinkTypeOK, [Next]_vars PROVE LinkTypeOK'
  OBVIOUS
<1> USE DEF LinkTypeOK, MoveTo, End, Stage
<1>1. CASE UNCHANGED vars
  BY <1>1 DEF vars
<1>2. ASSUME NEW l \in Link, Step(l) PROVE LinkTypeOK'
  <2>1. CASE Dial(l)
    BY <2>1 DEF Dial
  <2>2. CASE Dialed(l)
    BY <2>2 DEF Dialed
  <2>3. CASE Store(l)
    BY <2>3 DEF Store
  <2>4. CASE TakeLine(l)
    <3>1. /\ stage' \in [Link -> Stage]
          /\ UNCHANGED <<linked, name, said, written, seen, peer>>
      BY <2>4 DEF TakeLine
    <3>2. /\ taken' \in [Link -> Nat]
          /\ \A k \in Link : taken'[k] <= Len(said[k])
      BY <2>4 DEF TakeLine
    <3> QED
      BY <3>1, <3>2
  <2>5. CASE WritePong(l)
    <3>1. Append(written[l], taken[l]) \in Seq(Nat)
      OBVIOUS
    <3>2. Len(Append(written[l], taken[l])) = Len(written[l]) + 1
      OBVIOUS
    <3> QED
      BY <2>5, <3>1, <3>2 DEF WritePong
  <2>6. CASE Hangup(l)
    BY <2>6 DEF Hangup
  <2>7. CASE PeerReads(l)
    BY <2>7 DEF PeerReads
  <2>8. CASE PeerCloses(l)
    BY <2>8 DEF PeerCloses
  <2>9. ASSUME NEW m \in Line, PeerSends(l, m) PROVE LinkTypeOK'
    <3>1. Append(said[l], m) \in Seq(Line) /\ Len(Append(said[l], m)) = Len(said[l]) + 1
      OBVIOUS
    <3> QED
      BY <2>9, <3>1 DEF PeerSends
  <2> QED
    BY <1>2, <2>1, <2>2, <2>3, <2>4, <2>5, <2>6, <2>7, <2>8, <2>9 DEF Step, Task
<1> QED
  BY <1>1, <1>2 DEF Next, Step

(* The variables keep their types; a task has read no more than was sent,  *)
(* a peer no more than was written.                                        *)
THEOREM LinkTypeCorrect == Spec => []LinkTypeOK
<1>1. Init => LinkTypeOK
  BY DEF Init, LinkTypeOK, Stage
<1> QED
  BY <1>1, LinkTypeStep, PTL DEF Spec

-----------------------------------------------------------------------------
(* What is read and answered *)

(* A link answers only what it has read, and the PING it is answering is   *)
(* the line that it read last.                                             *)
Answers(l) ==
  /\ stage[l] \in {"idle", "dialing", "storing"} => taken[l] = 0
  /\ stage[l] = "writing" => /\ taken[l] > 0
                             /\ Known(said[l][taken[l]], "PING")
                             /\ \A i \in 1..Len(written[l]) : written[l][i] # taken[l]
  /\ \A i, j \in 1..Len(written[l]) : i < j => written[l][i] < written[l][j]
  /\ \A i \in 1..Len(written[l]) :
       written[l][i] \in 1..taken[l] /\ Known(said[l][written[l][i]], "PING")
  /\ \A k \in 1..taken[l] :
       /\ Known(said[l][k], "PING")
       /\ k < taken[l] \/ stage[l] = "reading"
       => \E i \in 1..Len(written[l]) : written[l][i] = k

LEMMA AnswersStep ==
  ASSUME LinkTypeOK, NEW l \in Link, Answers(l), NEW k \in Link, Step(k)
  PROVE  Answers(l)'
<1> USE DEF LinkTypeOK, MoveTo, End, Stage
<1>0. /\ taken[l] \in Nat /\ taken[l] <= Len(said[l])
      /\ said[l] \in Seq(Line) /\ written[l] \in Seq(Nat)
      /\ stage[l] \in Stage
  OBVIOUS
<1>1. CASE UNCHANGED <<stage[l], taken[l], written[l], said[l]>>
  BY <1>1 DEF Answers
<1>2. CASE k = l /\ TakeLine(l)
  <2>1. /\ taken'[l] = taken[l] + 1 /\ UNCHANGED <<said, written>>
        /\ stage[l] = "reading" /\ stage'[l] \in {"reading", "writing", "ended"}
        /\ stage'[l] = "writing" => Known(said[l][taken[l] + 1], "PING")
        /\ stage'[l] = "reading" => ~Known(said[l][taken[l] + 1], "PING")
    BY <1>2 DEF TakeLine
  <2>2. \A i \in 1..Len(written[l]) : written[l][i] # taken'[l]
    BY <1>0, <2>1 DEF Answers
  <2>3. \A n \in 1..taken'[l] :
          /\ Known(said[l][n], "PING")
          /\ n < taken'[l] \/ stage'[l] = "reading"
          => \E i \in 1..Len(written[l]) : written[l][i] = n
    <3> TAKE n \in 1..taken'[l]
    <3>1. CASE n \in 1..taken[l]
      BY <1>0, <2>1, <3>1 DEF Answers
    <3>2. CASE n = taken[l] + 1
      BY <1>0, <2>1, <3>2
    <3> QED
      BY <1>0, <2>1, <3>1, <3>2
  <2>4. taken'[l] > 0 /\ \A i \in 1..Len(written[l]) : written[l][i] \in 1..taken'[l]
    BY <1>0, <2>1 DEF Answers
  <2> QED
    BY <2>1, <2>2, <2>3, <2>4 DEF Answers
<1>3. CASE k = l /\ WritePong(l)
  <2>1. /\ written'[l] = Append(written[l], taken[l]) /\ UNCHANGED <<said, taken>>
        /\ stage[l] = "writing" /\ stage'[l] = "reading"
    BY <1>3 DEF WritePong
  <2> DEFINE len == Len(written[l])
  <2>2. /\ Len(written'[l]) = len + 1 /\ len \in Nat
        /\ \A i \in 1..len : written'[l][i] = written[l][i]
        /\ written'[l][len + 1] = taken[l]
    BY <1>0, <2>1
  <2>3. \A i \in 1..len : written[l][i] < taken[l]
    BY <1>0, <2>1 DEF Answers
  <2> HIDE DEF LinkTypeOK
  <2>4. \A i, j \in 1..Len(written'[l]) : i < j => written'[l][i] < written'[l][j]
    <3> SUFFICES ASSUME NEW i \in 1..(len + 1), NEW j \in 1..(len + 1), i < j
                 PROVE  written'[l][i] < written'[l][j]
      BY <2>2
    <3>1. CASE j \in 1..len
      <4>1. i \in 1..len
        BY <2>2, <3>1
      <4>2. written[l][i] < written[l][j]
        BY <3>1, <4>1 DEF Answers
      <4> QED
        BY <2>2, <3>1, <4>1, <4>2
    <3>2. CASE j = len + 1
      <4>1. i \in 1..len
        BY <2>2, <3>2
      <4> QED
        BY <2>2, <2>3, <3>2, <4>1
    <3> QED
      BY <2>2, <3>1, <3>2
  <2>5. \A i \in 1..Len(written'[l]) :
          written'[l][i] \in 1..taken[l] /\ Known(said[l][written'[l][i]], "PING")
    BY <1>0, <2>1, <2>2 DEF Answers
  <2>6. \A n \in 1..taken[l] : Known(said[l][n], "PING")
          => \E i \in 1..Len(written'[l]) : written'[l][i] = n
    <3> SUFFICES ASSUME NEW n \in 1..taken[l], Known(said[l][n], "PING")
                 PROVE  \E i \in 1..(len + 1) : written'[l][i] = n
      BY <2>2
    <3>1. CASE n = taken[l]
      BY <2>2, <3>1
    <3>2. CASE n < taken[l]
      <4>1. PICK i \in 1..len : written[l][i] = n
        BY <2>1, <3>2 DEF Answers
      <4>2. i \in 1..(len + 1) /\ written'[l][i] = n
        BY <2>2, <4>1
      <4> QED
        BY <4>2
    <3> QED
      BY <1>0, <3>1, <3>2
  <2> QED
    BY <2>1, <2>4, <2>5, <2>6 DEF Answers
<1>4. CASE k = l /\ (Dial(l) \/ Dialed(l) \/ Store(l))
  <2>1. /\ taken[l] = 0 /\ UNCHANGED <<taken, written, said>>
        /\ stage'[l] \in {"dialing", "storing", "reading", "ended"}
    BY <1>4 DEF Dial, Dialed, Store, Answers
  <2> QED
    BY <1>0, <2>1 DEF Answers
<1>5. CASE k = l /\ Hangup(l)
  <2>1. stage'[l] = "ended" /\ UNCHANGED <<taken, written, said>>
    BY <1>5 DEF Hangup
  <2> QED
    BY <2>1 DEF Answers
<1>6. ASSUME NEW m \in Line, k = l, PeerSends(l, m) PROVE Answers(l)'
  <2>1. said'[l] = Append(said[l], m) /\ UNCHANGED <<stage, taken, written>>
    BY <1>6 DEF PeerSends
  <2>2. \A n \in 1..taken[l] : said'[l][n] = said[l][n]
    BY <1>0, <2>1
  <2>3. stage[l] = "writing" => taken[l] \in 1..taken[l]
    BY <1>0 DEF Answers
  <2> HIDE DEF LinkTypeOK
  <2> QED
    BY <2>1, <2>2, <2>3 DEF Answers
<1>7. CASE k = l /\ (PeerReads(l) \/ PeerCloses(l))
  BY <1>1, <1>7 DEF PeerReads, PeerCloses
<1>8. CASE k # l
  BY <1>1, <1>8
  DEF Step, Task, Dial, Dialed, Store, TakeLine, WritePong, Hangup, PeerReads,
      PeerCloses, PeerSends
<1> QED
  BY <1>2, <1>3, <1>4, <1>5, <1>6, <1>7, <1>8 DEF Step, Task

THEOREM AnswersHold == Spec => [](\A l \in Link : Answers(l))
<1> DEFINE AllAnswers == \A l \in Link : Answers(l)
<1>1. Init => AllAnswers
  <2> SUFFICES ASSUME Init, NEW l \in Link PROVE Answers(l)
    OBVIOUS
  <2>1. taken[l] = 0 /\ written[l] = <<>> /\ stage[l] = "idle"
    BY DEF Init
  <2>2. 1..Len(written[l]) = {} /\ 1..taken[l] = {}
    BY <2>1
  <2> QED
    BY <2>1, <2>2 DEF Answers
<1>2. AllAnswers /\ LinkTypeOK /\ [Next]_vars => AllAnswers'
  <2> SUFFICES ASSUME AllAnswers, LinkTypeOK, [Next]_vars, NEW l \in Link
               PROVE  Answers(l)'
    OBVIOUS
  <2>1. CASE UNCHANGED vars
    BY <2>1 DEF vars, Answers
  <2> QED
    BY <2>1, AnswersStep DEF Next, Step
<1> QED
  BY <1>1, <1>2, LinkTypeCorrect, PTL DEF Spec

(* PONGs answer the PINGs of the peer, in their order and once each.       *)
THEOREM PongsAnswer == Spec => []PongsAnswerPings
<1>1. (\A l \in Link : Answers(l)) => PongsAnswerPings
  BY DEF Answers, PongsAnswerPings
<1> QED
  BY <1>1, AnswersHold, PTL

-----------------------------------------------------------------------------
(* Two servers of this program have nothing to say to each other: no       *)
(* command crosses a link to a server that runs this code.                 *)
THEOREM OwnLinksSilent == Spec => []OwnServersSilent
<1> DEFINE AllAnswers == \A l \in Link : Answers(l)
<1>n. [Next]_vars => UNCHANGED name
  <2>1. ASSUME NEW k \in Link, Step(k) PROVE UNCHANGED name
    BY <2>1 DEF Step, Task, Dial, Dialed, Store, TakeLine, WritePong, Hangup,
                PeerReads, PeerCloses, PeerSends
  <2> QED
    BY <2>1 DEF Next, Step, vars
<1>1. Init => OwnServersSilent
  BY DEF Init, OwnServersSilent
<1>2. OwnServersSilent /\ AllAnswers /\ LinkTypeOK /\ [Next]_vars => OwnServersSilent'
  <2> SUFFICES ASSUME OwnServersSilent, AllAnswers, LinkTypeOK, [Next]_vars,
                      NEW l \in Link, name[l] \in Own
               PROVE  /\ written'[l] = <<>>
                      /\ \A k \in 1..Len(said'[l]) : said'[l][k].cmd = "other"
    BY <1>n DEF OwnServersSilent
  <2>1. /\ written[l] = <<>>
        /\ \A k \in 1..Len(said[l]) : said[l][k].cmd = "other"
        /\ said[l] \in Seq(Line) /\ taken[l] <= Len(said[l]) /\ taken[l] \in Nat
    BY DEF OwnServersSilent, LinkTypeOK
  <2>2. CASE UNCHANGED <<written[l], said[l]>>
    BY <2>1, <2>2
  <2>3. ASSUME NEW m \in Line, PeerSends(l, m)
        PROVE  written'[l] = <<>> /\ \A k \in 1..Len(said'[l]) : said'[l][k].cmd = "other"
    <3>1. m.cmd = "other" /\ said'[l] = Append(said[l], m) /\ UNCHANGED written
      BY <2>1, <2>3 DEF PeerSends, LinkTypeOK
    <3> QED
      BY <2>1, <3>1
  <2>4. CASE WritePong(l)
    <3>1. taken[l] > 0 /\ Known(said[l][taken[l]], "PING")
      BY <2>4 DEF WritePong, Answers
    <3> QED
      BY <2>1, <3>1 DEF Known
  <2> QED
    BY <2>2, <2>3, <2>4
    DEF Next, Task, vars, LinkTypeOK, Dial, Dialed, Store, TakeLine, WritePong,
        Hangup, PeerReads, PeerCloses, PeerSends
<1> QED
  BY <1>1, <1>2, AnswersHold, LinkTypeCorrect, PTL DEF Spec

-----------------------------------------------------------------------------
(* linked_servers *)

(* An entry names a link of that name, and a task that runs has been       *)
(* entered, though its entry can have been replaced.                       *)
Entered ==
  /\ \A n \in Name : linked[n] # NoLink => linked[n] \in Link /\ name[linked[n]] = n
  /\ \A l \in Link : Running(l) => linked[name[l]] # NoLink

LEMMA EnteredStep ==
  ASSUME LinkTypeOK, Entered, NEW l \in Link, Step(l)
  PROVE  Entered'
<1> USE DEF LinkTypeOK, MoveTo, End, Running
<1>1. CASE Store(l)
  BY <1>1, LinkAssumption DEF Store, Entered
<1>2. CASE UNCHANGED <<linked, name>> /\ \A k \in Link : Running(k)' => Running(k)
  BY <1>2 DEF Entered
<1>3. CASE Dial(l) \/ Dialed(l) \/ PeerReads(l) \/ PeerCloses(l)
  BY <1>2, <1>3 DEF Dial, Dialed, PeerReads, PeerCloses
<1>4. CASE TakeLine(l) \/ WritePong(l) \/ Hangup(l)
  BY <1>2, <1>4 DEF TakeLine, WritePong, Hangup
<1>5. CASE \E m \in Line : PeerSends(l, m)
  BY <1>2, <1>5 DEF PeerSends
<1> QED
  BY <1>1, <1>3, <1>4, <1>5 DEF Step, Task

(* Only a later link of the same name closes the socket of a link.         *)
THEOREM KeptOpen == Spec => KeptUntilReplaced
<1> DEFINE Kept == \A l \in Link :
              SocketOpen(l) /\ ~SocketOpen(l)' =>
                \E k \in Link \ {l} : name[k] = name[l] /\ linked'[name[l]] = k
<1>1. Init => Entered
  BY DEF Init, Entered, Running
<1>2. Entered /\ LinkTypeOK /\ [Next]_vars => Entered'
  <2>1. UNCHANGED vars => (Entered => Entered')
    BY DEF vars, Entered, Running
  <2> QED
    BY <2>1, EnteredStep DEF Next, Step
<1>3. Entered /\ LinkTypeOK /\ [Next]_vars => [Kept]_vars
  <2> SUFFICES ASSUME Entered, LinkTypeOK, NEW k \in Link, Step(k),
                      NEW l \in Link, SocketOpen(l), ~SocketOpen(l)'
               PROVE  \E j \in Link \ {l} : name[j] = name[l] /\ linked'[name[l]] = j
    BY DEF Next, Step
  <2>1. linked'[name[l]] # l /\ name' = name
    BY DEF SocketOpen, Step, Task, Dial, Dialed, Store, TakeLine, WritePong,
           Hangup, PeerReads, PeerCloses, PeerSends
  <2>2. Entered'
    BY EnteredStep
  <2>3. linked'[name[l]] # NoLink
    <3>1. CASE Store(k)
      BY <3>1, <2>1, LinkAssumption
      DEF LinkTypeOK, Store, MoveTo, Entered, SocketOpen, Running
    <3>2. CASE UNCHANGED linked
      BY <3>2, <2>1, LinkAssumption
      DEF LinkTypeOK, MoveTo, End, Entered, SocketOpen, Running, Step, Task,
          Dial, Dialed, Store, TakeLine, WritePong, Hangup, PeerReads,
          PeerCloses, PeerSends
    <3> QED
      BY <3>1, <3>2
      DEF Step, Task, End, Dial, Dialed, TakeLine, WritePong, Hangup, PeerReads,
          PeerCloses, PeerSends
  <2> QED
    BY <2>1, <2>2, <2>3 DEF Entered, LinkTypeOK
<1> QED
  BY <1>1, <1>2, <1>3, LinkTypeCorrect, PTL DEF Spec, KeptUntilReplaced
=============================================================================
