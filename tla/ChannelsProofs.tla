--------------------------- MODULE ChannelsProofs ---------------------------
(***************************************************************************)
(* Proofs about Channels, for any sets of clients and channels, whatever   *)
(* commands the clients send and whichever of them reach their 60 seconds. *)
(* LockInv says of every lock which requests it has and which of them are  *)
(* granted, according to where each future is; MemberInv adds where a      *)
(* client can be a member.  The order of the requests comes from           *)
(* FairLockProofs.                                                         *)
(***************************************************************************)
EXTENDS Channels, FairLockProofs

(* One step of one client. *)
Handled(c) ==
  \/ Progress(c)
  \/ Connect(c) \/ Identify(c) \/ StopServing(c)
  \/ \E cmd \in Commands, ch \in Channel : Begin(c, cmd, ch)

Step(c) ==
  \/ Handled(c) /\ Polled(c)
  \/ WriterFails(c) /\ UNCHANGED frozen
  \/ TimeoutFires(c)

(* A step of the system is a step of one client. *)
LEMMA NextIsStep == Next => \E c \in Client : Step(c)
BY DEF Next, Step, Handled

-----------------------------------------------------------------------------
(* The invariant *)

Idle == {"none", "serving", "cleaning", "gone", "dead"}
Scanning == {"scan_map", "scan_chan", "leave_next"}
Broadcasting == {"bc_map", "bc_chan", "bc_next", "bc_send"}
Leaving == Broadcasting \cup {"remove_map", "remove_chan"}

(* A future that has asked for its mutex, and one that has been given it.  *)
Live == Pc \ {"none", "gone", "dead"}
Holding == Live \ {"cleaning"}

(* What a future has in hand fits the place where it is. *)
JobSound(c) ==
  /\ pc[c] \in Idle <=> job[c].cmd = "none"
  /\ job[c].cmd = "none" => job[c] = NoJob
  /\ pc[c] \in {"create", "enter", "confirm"} => job[c].cmd = "JOIN"
  /\ pc[c] = "count" => job[c].cmd = "LUSERS"
  /\ pc[c] \in {"member_map", "member_chan"} => job[c].cmd \in {"PART", "PRIVMSG"}
  /\ pc[c] = "get" => job[c].cmd \in {"WHO", "MODE"}
  /\ pc[c] \in {"who_read", "who_next", "who_send"} => job[c].cmd = "WHO"
  /\ pc[c] \in {"mode_read", "mode_write"} => job[c].cmd = "MODE"
  /\ pc[c] \in {"remove_map", "remove_chan"} => job[c].cmd \in {"PART", "QUIT"}
  /\ pc[c] \in Broadcasting =>
       job[c].cmd \in {"JOIN", "MODE", "PART", "PRIVMSG", "QUIT"}
  /\ pc[c] \in Scanning => job[c].cmd = "QUIT"
  /\ pc[c] \notin Idle \cup {"scan_map", "leave_next"} => job[c].chan \in Channel
  /\ pc[c] \in ForClient => job[c].to \in Client
  /\ pc[c] = "scan_chan" => job[c].chan \notin job[c].scan

(* The mutex of e: that of its connection, and senders. *)
MutexKept(e) ==
  /\ Fifo(mutex[e])
  /\ Own(e) \in Requests(mutex[e]) <=> pc[e] \in Live
  /\ pc[e] \in Holding => Granted(mutex[e], Own(e))
  /\ pc[e] = "none" => Requests(mutex[e]) = {}
  /\ \A d \in Client : /\ Send(d) \in Requests(mutex[e])
                         <=> pc[d] \in ForClient /\ job[d].to = e
                       /\ d # e => Own(d) \notin Requests(mutex[e])

(* The lock around the map of channels. *)
MapReaders == (ForMap \ {"create"})
              \cup {"member_chan", "bc_chan", "scan_map", "scan_chan"}
MapHolders == {"member_chan", "bc_chan", "scan_chan"}

MapKept(c) ==
  /\ Read(c) \in Requests(map_lock) <=> pc[c] \in MapReaders
  /\ Write(c) \in Requests(map_lock) <=> pc[c] = "create"
  /\ pc[c] \in MapHolders => GrantedShared(map_lock, Read(c), Shared)

(* The lock of a channel. *)
Reads(c, ch) ==
  /\ job[c].chan = ch
  /\ pc[c] \in {"member_chan", "bc_chan", "who_read", "who_next", "who_send",
                "mode_read", "scan_chan"}
ModeHolds(c, ch) ==
  job[c].chan = ch /\ job[c].cmd = "MODE" /\ pc[c] \in {"bc_map", "bc_chan"}
Writes(c, ch) ==
  \/ job[c].chan = ch /\ pc[c] \in {"enter", "remove_chan", "mode_write"}
  \/ ModeHolds(c, ch)

LockKept(ch) ==
  /\ Fifo(lock[ch])
  /\ \A c \in Client :
       /\ Read(c) \in Requests(lock[ch]) <=> Reads(c, ch)
       /\ Write(c) \in Requests(lock[ch]) <=> Writes(c, ch)
       /\ ModeHolds(c, ch) => Granted(lock[ch], Write(c))

(* Where a client can be a member, given what it is doing. *)
MemberSound(c) ==
  /\ pc[c] = "none" => \A ch \in Channel : c \notin members[ch]
  /\ pc[c] = "enter" => job[c].chan \in channels
  /\ \A ch \in Channel : c \in members[ch] => ch \in channels
  /\ job[c].cmd = "JOIN" /\ pc[c] \in {"confirm", "bc_map", "bc_chan"} =>
       c \in members[job[c].chan]
  /\ pc[c] = "scan_chan" => \A ch \in Channel :
       c \in members[ch] => ch \in job[c].scan \cup job[c].found \cup {job[c].chan}
  /\ pc[c] = "leave_next" => \A ch \in Channel :
       c \in members[ch] => ch \in job[c].found
  /\ job[c].cmd = "QUIT" /\ pc[c] \in Leaving => \A ch \in Channel :
       c \in members[ch] => ch \in job[c].found \cup {job[c].chan}
  /\ job[c].cmd = "JOIN" /\ pc[c] = "bc_next" => c \in job[c].todo
  /\ job[c].cmd = "JOIN" /\ pc[c] = "bc_send" =>
       c \in job[c].todo \cup {job[c].to}
  /\ job[c].cmd \notin {"JOIN", "QUIT"} /\ pc[c] \in ReadPc =>
       \A ch \in Channel : c \notin members[ch]
  /\ pc[c] = "gone" /\ name[c] # "new" =>
       \A ch \in Channel : c \notin members[ch]

LockInv ==
  /\ ChTypeOK
  /\ \A c \in Client : JobSound(c) /\ MutexKept(c) /\ MapKept(c)
  /\ Fifo(map_lock)
  /\ \A ch \in Channel : LockKept(ch)

MemberInv == LockInv /\ \A c \in Client : MemberSound(c)

-----------------------------------------------------------------------------
(* Types *)

(* The requests of a client are requests. *)
LEMMA RequestsTyped ==
  ASSUME NEW c \in Client
  PROVE  /\ Own(c) \in Request /\ Send(c) \in Request
         /\ Write(c) \in Request /\ Read(c) \in Request
BY DEF Request, RequestsOf

(* The operations of a lock keep its pairs requests. *)
LEMMA LockTyped ==
  ASSUME NEW l \in SUBSET (Request \X Request)
  PROVE  /\ \A r \in Request : Enqueue(l, r) \in SUBSET (Request \X Request)
         /\ \A R : Withdraw(l, R) \in SUBSET (Request \X Request)
         /\ \A r : Release(l, r) \in SUBSET (Request \X Request)
<1>1. Requests(l) \subseteq Request
  BY DEF Requests
<1> QED
  BY <1>1 DEF Enqueue, Withdraw, Release

(* Where a future goes and what it takes in hand. *)
LEMMA JobStep ==
  ASSUME ChTypeOK, NEW c \in Client, JobSound(c), Handled(c)
  PROVE  /\ JobSound(c)'
         /\ \E p \in Pc : pc' = [pc EXCEPT ![c] = p]
         /\ \E j \in Job : job' = [job EXCEPT ![c] = j]
<1>0. /\ pc \in [Client -> Pc] /\ job \in [Client -> Job]
      /\ members \in [Channel -> SUBSET Client] /\ channels \subseteq Channel
      /\ pc[c] \in Pc /\ job[c] \in Job
  BY DEF ChTypeOK
<1>n. /\ NoJob \in Job /\ NoJob.cmd = "none"
  BY DEF NoJob, Job
<1> DEFINE Goal == /\ JobSound(c)'
                   /\ \E p \in Pc : pc' = [pc EXCEPT ![c] = p]
                   /\ \E j \in Job : job' = [job EXCEPT ![c] = j]
<1>g. ASSUME NEW p \in Pc, NEW j \in Job, pc' = [pc EXCEPT ![c] = p],
             job' = [job EXCEPT ![c] = j],
             /\ p \in Idle <=> j.cmd = "none"
             /\ j.cmd = "none" => j = NoJob
             /\ p \in {"create", "enter", "confirm"} => j.cmd = "JOIN"
             /\ p = "count" => j.cmd = "LUSERS"
             /\ p \in {"member_map", "member_chan"} => j.cmd \in {"PART", "PRIVMSG"}
             /\ p = "get" => j.cmd \in {"WHO", "MODE"}
             /\ p \in {"who_read", "who_next", "who_send"} => j.cmd = "WHO"
             /\ p \in {"mode_read", "mode_write"} => j.cmd = "MODE"
             /\ p \in {"remove_map", "remove_chan"} => j.cmd \in {"PART", "QUIT"}
             /\ p \in Broadcasting => j.cmd \in {"JOIN", "MODE", "PART", "PRIVMSG", "QUIT"}
             /\ p \in Scanning => j.cmd = "QUIT"
             /\ p \notin Idle \cup {"scan_map", "leave_next"} => j.chan \in Channel
             /\ p \in ForClient => j.to \in Client
             /\ p = "scan_chan" => j.chan \notin j.scan
      PROVE  Goal
  <2>1. pc'[c] = p /\ job'[c] = j
    BY <1>0, <1>g
  <2> QED
    BY <1>g, <2>1 DEF JobSound
<1> SUFFICES Goal
  OBVIOUS
<1> HIDE DEF Goal
<1> USE DEF Pc, ReadPc, ForMap, ForChannel, ForClient, Idle, Scanning, Broadcasting
(* A handler that returns, or panics. *)
<1>r. ASSUME NEW p \in {"serving", "cleaning", "dead", "gone"}, MoveTo(c, p),
             job' = [job EXCEPT ![c] = NoJob]
      PROVE  Goal
  BY <1>g, <1>n, <1>r DEF MoveTo
(* A future that keeps what it has in hand. *)
<1>m. ASSUME NEW p \in Pc, MoveTo(c, p), UNCHANGED job,
             \/ pc[c] \in Idle /\ p \in Idle
             \/ <<pc[c], p>> \in {<<"create", "enter">>, <<"enter", "confirm">>,
                  <<"bc_map", "bc_chan">>, <<"confirm", "bc_map">>,
                  <<"member_map", "member_chan">>, <<"member_chan", "bc_map">>,
                  <<"mode_write", "bc_map">>, <<"remove_map", "remove_chan">>}
             \/ pc[c] = "get" /\ job[c].cmd = "WHO" /\ p = "who_read"
             \/ pc[c] = "get" /\ job[c].cmd = "MODE" /\ p \in {"mode_read", "mode_write"}
             \/ pc[c] = "bc_next" /\ job[c].cmd \in {"PART", "QUIT"} /\ p = "remove_map"
             \/ pc[c] = "remove_chan" /\ job[c].cmd # "PART" /\ p = "leave_next"
             \/ pc[c] = "scan_map" /\ p = "leave_next"
      PROVE  Goal
  <2>1. job' = [job EXCEPT ![c] = job[c]]
    BY <1>0, <1>m
  <2> DEFINE j == job[c]
  <2>2. j \in Job /\ pc' = [pc EXCEPT ![c] = p] /\ job' = [job EXCEPT ![c] = j]
    BY <1>0, <1>m, <2>1 DEF MoveTo
  <2> QED
    BY <1>g, <1>m, <2>2 DEF JobSound
<1>1. CASE Connect(c)
  BY <1>m, <1>1 DEF Connect
<1>2. CASE Identify(c)
  <2>1. MoveTo(c, pc[c])
    BY <1>0, <1>2 DEF Identify, MoveTo
  <2> QED
    BY <1>0, <1>m, <1>2, <2>1 DEF Identify
<1>3. CASE StopServing(c) \/ Count(c) \/ ModeQuery(c) \/ WhoDone(c)
  BY <1>r, <1>3 DEF StopServing, Count, ModeQuery, WhoDone, Return
<1>4. ASSUME NEW cmd \in Commands, NEW ch \in Channel, Begin(c, cmd, ch) PROVE Goal
  <2>1. cmd \in {"JOIN", "PART", "PRIVMSG", "WHO", "MODE", "LUSERS"}
    BY ChannelsAssumption
  <2>2. job[c] = NoJob
    BY <1>4 DEF Begin, JobSound
  <2> DEFINE j == [NoJob EXCEPT !.cmd = cmd, !.chan = ch]
  <2>3. j \in Job /\ j.cmd = cmd /\ j.chan = ch
    BY <2>1 DEF NoJob, Job
  <2>4. job' = [job EXCEPT ![c] = j]
    BY <1>0, <1>4, <2>2 DEF Begin
  <2> HIDE DEF j
  <2>5. CASE cmd = "JOIN"
    BY <1>g, <1>4, <2>3, <2>4, <2>5 DEF Begin, MoveTo
  <2>6. CASE cmd = "LUSERS"
    BY <1>g, <1>4, <2>3, <2>4, <2>6 DEF Begin, MoveTo
  <2>7. CASE cmd \in {"PART", "PRIVMSG"}
    BY <1>g, <1>4, <2>3, <2>4, <2>7 DEF Begin, MoveTo
  <2>8. CASE cmd \in {"WHO", "MODE"}
    BY <1>g, <1>4, <2>3, <2>4, <2>8 DEF Begin, MoveTo
  <2> QED
    BY <2>1, <2>5, <2>6, <2>7, <2>8
<1>5. CASE Create(c)
  BY <1>m, <1>5 DEF Create
<1>6. CASE Enter(c)
  BY <1>m, <1>r, <1>6 DEF Enter, Die
<1>7. CASE Confirm(c)
  BY <1>m, <1>r, <1>7 DEF Confirm, AskMap, Return
<1>8. CASE BroadcastMap(c)
  BY <1>m, <1>8 DEF BroadcastMap
<1>9. CASE CopyMembers(c)
  <2> DEFINE todo == members[job[c].chan] \
                          IF job[c].cmd \in {"JOIN", "MODE"} THEN {} ELSE {c}
             j == [job[c] EXCEPT !.todo = todo]
  <2>1. /\ job[c].chan \in Channel
        /\ job[c].cmd \in {"JOIN", "MODE", "PART", "PRIVMSG", "QUIT"}
    BY <1>9 DEF CopyMembers, JobSound
  <2>2. todo \subseteq Client
    BY <1>0, <2>1
  <2> HIDE DEF todo
  <2>3. j \in Job /\ j.chan = job[c].chan /\ j.cmd = job[c].cmd
    BY <1>0, <2>2 DEF Job
  <2>4. job' = [job EXCEPT ![c] = j]
    BY <1>0, <1>9 DEF CopyMembers, todo
  <2> HIDE DEF j
  <2> QED
    BY <1>g, <1>9, <2>1, <2>3, <2>4 DEF CopyMembers, MoveTo
<1>10. CASE NextMember(c)
  <2> PICK d \in job[c].todo :
         \/ /\ Found(d)
            /\ job' = [job EXCEPT ![c].to = d, ![c].todo = @ \ {d}]
            /\ MoveTo(c, IF pc[c] = "bc_next" THEN "bc_send" ELSE "who_send")
         \/ /\ ~Found(d)
            /\ job' = [job EXCEPT ![c].todo = @ \ {d}]
            /\ UNCHANGED pc
    BY <1>10 DEF NextMember
  <2>1. pc[c] \in {"bc_next", "who_next"} /\ d \in Client
    BY <1>0, <1>10 DEF NextMember, Job
  <2>2. CASE /\ job' = [job EXCEPT ![c].to = d, ![c].todo = @ \ {d}]
             /\ MoveTo(c, IF pc[c] = "bc_next" THEN "bc_send" ELSE "who_send")
    <3> DEFINE j == [job[c] EXCEPT !.to = d, !.todo = @ \ {d}]
    <3>1. j \in Job /\ j.chan = job[c].chan /\ j.cmd = job[c].cmd /\ j.to = d
      BY <1>0, <2>1 DEF Job
    <3>2. job' = [job EXCEPT ![c] = j]
      BY <1>0, <2>2
    <3> HIDE DEF j
    <3> QED
      BY <1>g, <2>1, <2>2, <3>1, <3>2 DEF MoveTo, JobSound
  <2>3. CASE job' = [job EXCEPT ![c].todo = @ \ {d}] /\ UNCHANGED pc
    <3> DEFINE j == [job[c] EXCEPT !.todo = @ \ {d}]
    <3>1. j \in Job /\ j.chan = job[c].chan /\ j.cmd = job[c].cmd
      BY <1>0, <2>1 DEF Job
    <3>2. job' = [job EXCEPT ![c] = j] /\ pc' = [pc EXCEPT ![c] = pc[c]]
      BY <1>0, <2>3
    <3> HIDE DEF j
    <3> QED
      BY <1>g, <1>0, <2>1, <3>1, <3>2 DEF JobSound
  <2> QED
    BY <2>2, <2>3
<1>11. CASE SendToMember(c)
  <2> DEFINE j == [job[c] EXCEPT !.to = NoClient]
  <2>1. j \in Job /\ j.chan = job[c].chan /\ j.cmd = job[c].cmd
    BY <1>0 DEF Job
  <2>2. job' = [job EXCEPT ![c] = j]
    BY <1>0, <1>11 DEF SendToMember
  <2> HIDE DEF j
  <2> QED
    BY <1>g, <1>11, <2>1, <2>2 DEF SendToMember, MoveTo, JobSound
<1>12. CASE BroadcastDone(c)
  <2>1. CASE job[c].cmd = "PRIVMSG"
    BY <1>r, <1>12, <2>1 DEF BroadcastDone, Return
  <2>2. CASE job[c].cmd # "PRIVMSG"
    BY <1>m, <1>12, <2>2 DEF BroadcastDone, AskMap
  <2> QED
    BY <2>1, <2>2
<1>13. CASE RemoveMap(c)
  BY <1>m, <1>13 DEF RemoveMap
<1>14. CASE RemoveMember(c)
  BY <1>r, <1>m, <1>14 DEF RemoveMember, Return
<1>15. CASE CheckMap(c) \/ CheckMember(c)
  BY <1>r, <1>m, <1>15 DEF CheckMap, CheckMember, NotOnChannel, Return
<1>16. CASE GetChannel(c)
  BY <1>r, <1>m, <1>16 DEF GetChannel, Return
<1>17. CASE ModeChange(c)
  BY <1>r, <1>m, <1>17 DEF ModeChange, Return, AskMap
<1>18. CASE WhoChannel(c)
  <2> DEFINE j == [job[c] EXCEPT !.todo = members[job[c].chan]]
  <2>1. job[c].chan \in Channel /\ job[c].cmd = "WHO"
    BY <1>18 DEF WhoChannel, JobSound
  <2>2. j \in Job /\ j.chan = job[c].chan /\ j.cmd = "WHO"
    BY <1>0, <2>1 DEF Job
  <2>3. job' = [job EXCEPT ![c] = j]
    BY <1>0, <1>18 DEF WhoChannel
  <2> HIDE DEF j
  <2> QED
    BY <1>g, <1>18, <2>1, <2>2, <2>3 DEF WhoChannel, MoveTo
<1>19. CASE WhoMember(c)
  <2> DEFINE j == [job[c] EXCEPT !.to = NoClient]
  <2>1. j \in Job /\ j.chan = job[c].chan /\ j.cmd = job[c].cmd
    BY <1>0 DEF Job
  <2>2. job[c].chan \in Channel /\ job[c].cmd = "WHO"
    BY <1>19 DEF WhoMember, JobSound
  <2>3. CASE job' = [job EXCEPT ![c].to = NoClient] /\ MoveTo(c, "who_next")
    <3>1. job' = [job EXCEPT ![c] = j]
      BY <1>0, <2>3
    <3> HIDE DEF j
    <3> QED
      BY <1>g, <2>1, <2>2, <2>3, <3>1 DEF MoveTo
  <2>4. CASE Die(c) \/ \E m : Return(c, m, FALSE)
    BY <1>r, <2>4 DEF Die, Return
  <2> QED
    BY <1>19, <2>3, <2>4 DEF WhoMember
<1>20. CASE CleanUp(c)
  <2>1. CASE MoveTo(c, "gone") /\ UNCHANGED job
    BY <1>m, <1>20, <2>1 DEF CleanUp
  <2>2. CASE job' = [job EXCEPT ![c].cmd = "QUIT"] /\ MoveTo(c, "scan_map")
    <3> DEFINE j == [job[c] EXCEPT !.cmd = "QUIT"]
    <3>1. j \in Job /\ j.cmd = "QUIT"
      BY <1>0 DEF Job
    <3>2. job' = [job EXCEPT ![c] = j]
      BY <1>0, <2>2
    <3> HIDE DEF j
    <3> QED
      BY <1>g, <2>2, <3>1, <3>2 DEF MoveTo
  <2> QED
    BY <1>20, <2>1, <2>2 DEF CleanUp, AskMap
<1>21. CASE Scan(c)
  <2>1. CASE MoveTo(c, "leave_next") /\ UNCHANGED job
    BY <1>m, <1>21, <2>1 DEF Scan
  <2>2. ASSUME NEW ch \in channels, MoveTo(c, "scan_chan"),
               job' = [job EXCEPT ![c].chan = ch, ![c].scan = channels \ {ch}]
        PROVE  Goal
    <3> DEFINE j == [job[c] EXCEPT !.chan = ch, !.scan = channels \ {ch}]
    <3>1. job[c].cmd = "QUIT"
      BY <1>21 DEF Scan, JobSound
    <3>2. /\ j \in Job /\ j.cmd = job[c].cmd
          /\ j.chan \in Channel /\ j.chan \notin j.scan
      BY <1>0 DEF Job
    <3>3. job' = [job EXCEPT ![c] = j]
      BY <1>0, <2>2
    <3> HIDE DEF j
    <3> QED
      BY <1>g, <2>2, <3>1, <3>2, <3>3 DEF MoveTo
  <2> QED
    BY <1>21, <2>1, <2>2 DEF Scan
<1>22. CASE ScanChannel(c)
  <2> DEFINE here == {ch \in {job[c].chan} : c \in members[ch]}
             found == job[c].found \cup here
  <2>1. job[c].cmd = "QUIT" /\ job[c].chan \in Channel
    BY <1>22 DEF ScanChannel, JobSound
  <2>2. found \subseteq Channel
    BY <1>0, <2>1 DEF Job
  <2> HIDE DEF here
  <2>3. CASE job' = [job EXCEPT ![c].found = @ \cup here] /\ MoveTo(c, "leave_next")
    <3> DEFINE j == [job[c] EXCEPT !.found = @ \cup here]
    <3>1. j \in Job /\ j.cmd = job[c].cmd
      BY <1>0, <2>2 DEF Job
    <3>2. job' = [job EXCEPT ![c] = j]
      BY <1>0, <2>3
    <3> HIDE DEF j
    <3> QED
      BY <1>g, <2>1, <2>3, <3>1, <3>2 DEF MoveTo
  <2>4. ASSUME NEW ch \in job[c].scan, UNCHANGED pc,
               job' = [job EXCEPT ![c].chan = ch, ![c].scan = @ \ {ch},
                                  ![c].found = @ \cup here]
        PROVE  Goal
    <3> DEFINE j == [job[c] EXCEPT !.chan = ch, !.scan = @ \ {ch},
                                   !.found = @ \cup here]
    <3>4. ch \in Channel
      BY <1>0, <2>4 DEF Job
    <3>5. pc[c] = "scan_chan"
      BY <1>22 DEF ScanChannel
    <3>1. ch \in Channel /\ pc' = [pc EXCEPT ![c] = "scan_chan"]
      BY <1>0, <2>4, <3>4, <3>5
    <3>2. j \in Job /\ j.cmd = job[c].cmd /\ j.chan = ch /\ j.chan \notin j.scan
      BY <1>0, <2>2, <3>1 DEF Job
    <3>3. job' = [job EXCEPT ![c] = j]
      BY <1>0, <2>4
    <3> HIDE DEF j
    <3> QED
      BY <1>g, <2>1, <3>1, <3>2, <3>3
  <2> QED
    BY <1>22, <2>3, <2>4 DEF ScanChannel, here
<1>23. CASE LeaveNext(c)
  <2>1. CASE job' = [job EXCEPT ![c] = NoJob] /\ MoveTo(c, "gone")
    BY <1>r, <2>1
  <2>2. ASSUME NEW ch \in job[c].found, MoveTo(c, "bc_map"),
               job' = [job EXCEPT ![c].chan = ch, ![c].found = @ \ {ch}]
        PROVE  Goal
    <3> DEFINE j == [job[c] EXCEPT !.chan = ch, !.found = @ \ {ch}]
    <3>1. job[c].cmd = "QUIT" /\ ch \in Channel
      BY <1>0, <1>23 DEF LeaveNext, JobSound, Job
    <3>2. j \in Job /\ j.cmd = job[c].cmd /\ j.chan = ch
      BY <1>0, <3>1 DEF Job
    <3>3. job' = [job EXCEPT ![c] = j]
      BY <1>0, <2>2
    <3> HIDE DEF j
    <3> QED
      BY <1>g, <2>2, <3>1, <3>2, <3>3 DEF MoveTo
  <2> QED
    BY <1>23, <2>1, <2>2 DEF LeaveNext, AskMap
<1> QED
  BY <1>1, <1>2, <1>3, <1>4, <1>5, <1>6, <1>7, <1>8, <1>9, <1>10, <1>11, <1>12,
     <1>13, <1>14, <1>15, <1>16, <1>17, <1>18, <1>19, <1>20, <1>21, <1>22, <1>23
  DEF Handled, Progress

(* A step of one client leaves the futures of the others where they are,   *)
(* and them in the channels where they are.                                *)
LEMMA OthersStay ==
  ASSUME ChTypeOK, NEW c \in Client, JobSound(c), Handled(c),
         NEW d \in Client, d # c
  PROVE  /\ pc'[d] = pc[d] /\ job'[d] = job[d] /\ name'[d] = name[d]
         /\ \A ch \in Channel : d \in members'[ch] <=> d \in members[ch]
<1>1. pc'[d] = pc[d] /\ job'[d] = job[d]
  BY JobStep DEF ChTypeOK
<1>2. name'[d] = name[d]
  BY DEF ChTypeOK, Handled, Progress, Connect, Identify, StopServing, Begin, Count,
      Create, Enter, Confirm, BroadcastMap, CopyMembers, NextMember, SendToMember,
      BroadcastDone, RemoveMap, RemoveMember, CheckMap, CheckMember, GetChannel,
      ModeQuery, ModeChange, WhoChannel, WhoMember, WhoDone, CleanUp, Scan,
      ScanChannel, LeaveNext
<1>3. \/ UNCHANGED members
      \/ members' = [members EXCEPT ![job[c].chan] = @ \cup {c}]
      \/ members' = [members EXCEPT ![job[c].chan] = @ \ {c}]
  BY DEF Handled, Progress, Connect, Identify, StopServing, Begin, Count,
      Create, Enter, Confirm, BroadcastMap, CopyMembers, NextMember, SendToMember,
      BroadcastDone, RemoveMap, RemoveMember, CheckMap, CheckMember, GetChannel,
      ModeQuery, ModeChange, WhoChannel, WhoMember, WhoDone, CleanUp, Scan,
      ScanChannel, LeaveNext
<1>4. members \in [Channel -> SUBSET Client]
  BY DEF ChTypeOK
<1>5. \A ch \in Channel : d \in members'[ch] <=> d \in members[ch]
  BY <1>3, <1>4
<1> QED
  BY <1>1, <1>2, <1>5

-----------------------------------------------------------------------------
(* What the steps do to the mutexes, by where the future goes. *)

Requeued(m, c) == [m EXCEPT ![c] = Enqueue(Release(@, Own(c)), Own(c))]
Sent(c) == [mutex EXCEPT ![job[c].to] = Release(@, Send(c))]

MutexQuiet(c) ==
  /\ mutex' = mutex
  /\ pc[c] \in Live \ ForClient /\ pc'[c] \in Live \ ForClient
  /\ pc'[c] \in Holding => pc[c] \in Holding \/ Granted(mutex[c], Own(c))
MutexRequeue(c) ==
  /\ pc[c] \in Holding \ ForClient /\ pc'[c] = "cleaning"
  /\ mutex' = Requeued(mutex, c)
MutexConnect(c) ==
  /\ pc[c] = "none" /\ pc'[c] = "serving"
  /\ mutex' = [mutex EXCEPT ![c] = Enqueue(@, Own(c))]
MutexAsk(c) ==
  /\ pc[c] \in Holding \ ForClient /\ pc'[c] \in ForClient
  /\ job'[c].to \in Client /\ Found(job'[c].to)
  /\ mutex' = [mutex EXCEPT ![job'[c].to] = Enqueue(@, Send(c))]
MutexSent(c) ==
  /\ pc[c] \in ForClient /\ pc'[c] \in Holding \ ForClient
  /\ HasClient(c)
  /\ mutex' = Sent(c)
MutexFails(c) ==
  /\ pc[c] \in ForClient /\ pc'[c] = "cleaning"
  /\ HasClient(c)
  /\ mutex' = Requeued(Sent(c), c)
MutexLeft(c) ==
  /\ pc[c] \in {"cleaning", "leave_next"} /\ pc'[c] = "gone"
  /\ mutex' = [mutex EXCEPT ![c] = Release(@, Own(c))]
MutexDropped(c) ==
  /\ pc[c] \in Live /\ pc'[c] = "dead"
  /\ mutex' = [d \in Client |-> Withdraw(mutex[d], RequestsOf(c))]

(* Every handler does one of these to the mutexes. *)
LEMMA MutexShape ==
  ASSUME ChTypeOK, NEW c \in Client, JobSound(c), Handled(c)
  PROVE  \/ MutexQuiet(c) \/ MutexRequeue(c) \/ MutexConnect(c) \/ MutexAsk(c)
         \/ MutexSent(c) \/ MutexFails(c) \/ MutexLeft(c) \/ MutexDropped(c)
<1>0. pc \in [Client -> Pc] /\ job \in [Client -> Job] /\ pc[c] \in Pc
  BY DEF ChTypeOK
<1> DEFINE Goal == \/ MutexQuiet(c) \/ MutexRequeue(c) \/ MutexConnect(c)
                   \/ MutexAsk(c) \/ MutexSent(c) \/ MutexFails(c)
                   \/ MutexLeft(c) \/ MutexDropped(c)
<1> SUFFICES Goal
  OBVIOUS
<1>t. ASSUME NEW p, MoveTo(c, p) PROVE pc'[c] = p
  BY <1>0, <1>t DEF MoveTo
<1> USE DEF Live, Holding, Pc, ReadPc, ForMap, ForChannel, ForClient
<1>r. ASSUME NEW ok \in BOOLEAN, Return(c, mutex, ok), pc[c] \in Holding \ ForClient
      PROVE  Goal
  <2>1. CASE ok
    BY <1>r, <1>t, <2>1 DEF Return, MutexQuiet
  <2>2. CASE ~ok
    BY <1>r, <1>t, <2>2 DEF Return, MutexRequeue, Requeued
  <2> QED
    BY <2>1, <2>2
<1>d. ASSUME Die(c), pc[c] \in Live PROVE Goal
  BY <1>d, <1>t DEF Die, MutexDropped
<1>q. ASSUME NEW p \in Holding \ ForClient, MoveTo(c, p), UNCHANGED mutex,
             pc[c] \in Holding \ ForClient
      PROVE  Goal
  BY <1>q, <1>t DEF MutexQuiet
<1>w. writer_alive[c] \in BOOLEAN
  BY DEF ChTypeOK
<1> HIDE DEF Goal
<1>1. CASE Connect(c)
  BY <1>1, <1>t DEF Connect, MutexConnect, Goal
<1>2. CASE Identify(c)
  BY <1>2 DEF Identify, MutexQuiet, Goal
<1>3. CASE StopServing(c) \/ Count(c) \/ ModeQuery(c) \/ WhoDone(c)
  BY <1>r, <1>w, <1>3 DEF StopServing, Count, ModeQuery, WhoDone
<1>4. ASSUME NEW cmd \in Commands, NEW ch \in Channel, Begin(c, cmd, ch) PROVE Goal
  <2>1. cmd \in {"JOIN", "PART", "PRIVMSG", "WHO", "MODE", "LUSERS"}
    BY ChannelsAssumption
  <2>2. PICK p \in {"create", "count", "member_map", "get"} : MoveTo(c, p)
    BY <1>4, <2>1 DEF Begin
  <2> QED
    BY <1>q, <1>4, <2>2 DEF Begin
<1>5. CASE Create(c) \/ BroadcastMap(c) \/ CopyMembers(c) \/ RemoveMap(c)
           \/ WhoChannel(c)
  BY <1>q, <1>5 DEF Create, BroadcastMap, CopyMembers, RemoveMap, WhoChannel
<1>6. CASE Enter(c)
  BY <1>q, <1>d, <1>6 DEF Enter
<1>7. CASE Confirm(c) \/ ModeChange(c)
  BY <1>q, <1>r, <1>w, <1>7 DEF Confirm, ModeChange, AskMap
<1>8. CASE RemoveMember(c)
  BY <1>q, <1>r, <1>w, <1>8 DEF RemoveMember
<1>9. CASE BroadcastDone(c)
  BY <1>q, <1>r, <1>9 DEF BroadcastDone, AskMap
<1>10. CASE CheckMap(c) \/ CheckMember(c)
  BY <1>q, <1>r, <1>w, <1>10 DEF CheckMap, CheckMember, NotOnChannel
<1>11. CASE GetChannel(c)
  BY <1>q, <1>r, <1>11 DEF GetChannel
<1>12. CASE NextMember(c)
  <2> PICK d \in job[c].todo :
         \/ /\ Found(d)
            /\ job' = [job EXCEPT ![c].to = d, ![c].todo = @ \ {d}]
            /\ mutex' = [mutex EXCEPT ![d] = Enqueue(@, Send(c))]
            /\ MoveTo(c, IF pc[c] = "bc_next" THEN "bc_send" ELSE "who_send")
         \/ UNCHANGED <<pc, mutex>>
    BY <1>12 DEF NextMember
  <2>1. pc[c] \in {"bc_next", "who_next"}
    BY <1>12 DEF NextMember
  <2>2. CASE UNCHANGED <<pc, mutex>>
    BY <2>1, <2>2 DEF MutexQuiet, Goal
  <2>3. CASE /\ Found(d)
             /\ job' = [job EXCEPT ![c].to = d, ![c].todo = @ \ {d}]
             /\ mutex' = [mutex EXCEPT ![d] = Enqueue(@, Send(c))]
             /\ MoveTo(c, IF pc[c] = "bc_next" THEN "bc_send" ELSE "who_send")
    <3>1. d \in Client
      BY <1>0 DEF Job
    <3>2. job'[c].to = d
      BY <1>0, <2>3 DEF Job
    <3>3. pc'[c] \in ForClient
      BY <1>t, <2>3
    <3> QED
      BY <2>1, <2>3, <3>1, <3>2, <3>3 DEF MutexAsk, Goal
  <2> QED
    BY <2>2, <2>3
<1>13. CASE SendToMember(c)
  BY <1>t, <1>13 DEF SendToMember, MutexSent, Sent, Goal
<1>14. CASE WhoMember(c)
  <2>1. CASE Die(c)
    BY <1>d, <1>14, <2>1 DEF WhoMember
  <2>2. CASE MoveTo(c, "who_next") /\ mutex' = Sent(c)
    BY <1>t, <1>14, <2>2 DEF WhoMember, MutexSent, Goal
  <2>3. CASE Return(c, Sent(c), FALSE)
    BY <1>t, <1>14, <2>3 DEF WhoMember, Return, MutexFails, Requeued, Goal
  <2> QED
    BY <1>14, <2>1, <2>2, <2>3 DEF WhoMember, Sent
<1>15. CASE CleanUp(c)
  BY <1>t, <1>15 DEF CleanUp, AskMap, MutexQuiet, MutexLeft, Goal
<1>16. CASE Scan(c)
  BY <1>q, <1>16 DEF Scan
<1>17. CASE ScanChannel(c)
  <2>1. pc[c] = "scan_chan" /\ UNCHANGED mutex
    BY <1>17 DEF ScanChannel
  <2>2. MoveTo(c, "leave_next") \/ UNCHANGED pc
    BY <1>17 DEF ScanChannel
  <2> QED
    BY <1>q, <2>1, <2>2 DEF MutexQuiet, Goal
<1>18. CASE LeaveNext(c)
  BY <1>t, <1>q, <1>18 DEF LeaveNext, AskMap, MutexLeft, Goal
<1> QED
  BY <1>1, <1>2, <1>3, <1>4, <1>5, <1>6, <1>7, <1>8, <1>9, <1>10, <1>11, <1>12,
     <1>13, <1>14, <1>15, <1>16, <1>17, <1>18
  DEF Handled, Progress

(* Requests of different clients, and of different kinds, differ. *)
LEMMA RequestsDiffer ==
  ASSUME NEW c, NEW d
  PROVE  /\ Own(c) # Send(d) /\ Write(c) # Read(d)
         /\ Own(c) = Own(d) <=> c = d
         /\ Send(c) = Send(d) <=> c = d
         /\ Write(c) = Write(d) <=> c = d
         /\ Read(c) = Read(d) <=> c = d
         /\ Own(d) \in RequestsOf(c) <=> d = c
         /\ Send(d) \in RequestsOf(c) <=> d = c
         /\ Write(d) \in RequestsOf(c) <=> d = c
         /\ Read(d) \in RequestsOf(c) <=> d = c
BY DEF RequestsOf, Own, Send, Write, Read

(* A lock after an operation about one request. *)
LEMMA LockOps ==
  ASSUME NEW l, NEW r, Fifo(l)
  PROVE  /\ r \notin Requests(l) => Fifo(Enqueue(l, r))
         /\ Requests(Enqueue(l, r)) = Requests(l) \cup {r}
         /\ \A s : s # r /\ Granted(l, s) => Granted(Enqueue(l, r), s)
         /\ Fifo(Release(l, r))
         /\ Requests(Release(l, r)) = Requests(l) \ {r}
         /\ \A s : s # r /\ Granted(l, s) => Granted(Release(l, r), s)
         /\ r \in Requests(l) =>
              /\ Fifo(Enqueue(Release(l, r), r))
              /\ Requests(Enqueue(Release(l, r), r)) = Requests(l)
<1>1. /\ Fifo(Release(l, r))
      /\ Requests(Release(l, r)) = Requests(l) \ {r}
  BY WithdrawFifo, WithdrawRequests DEF Release
<1>2. \A s : s # r /\ Granted(l, s) => Granted(Release(l, r), s)
  BY WithdrawGranted DEF Release
<1>3. /\ Fifo(Enqueue(Release(l, r), r))
      /\ Requests(Enqueue(Release(l, r), r)) = (Requests(l) \ {r}) \cup {r}
  <2>1. r \notin Requests(Release(l, r))
    BY <1>1
  <2> QED
    BY <1>1, <2>1, EnqueueFifo, EnqueueRequests
<1> QED
  BY <1>1, <1>2, <1>3, EnqueueFifo, EnqueueRequests, EnqueueGranted

(* The first request is granted. *)
LEMMA EnqueueFirst ==
  ASSUME NEW l, NEW r, Fifo(l), Requests(l) = {}
  PROVE  Granted(Enqueue(l, r), r)
<1>1. l = {}
  BY DEF Requests
<1>2. Enqueue(l, r) = {r} \X {r}
  BY <1>1 DEF Enqueue, Requests
<1>3. \A p \in {r} \X {r} : p[1] = r
  OBVIOUS
<1> QED
  BY <1>2, <1>3, EnqueueRequests DEF Granted

(* Every mutex has the requests that the places of the futures call for. *)
LEMMA MutexStep ==
  ASSUME ChTypeOK, NEW c \in Client, JobSound(c), Handled(c),
         \A d \in Client : MutexKept(d), NEW e \in Client
  PROVE  MutexKept(e)'
<1>0. /\ pc \in [Client -> Pc] /\ job \in [Client -> Job] /\ pc[c] \in Pc
      /\ DOMAIN mutex = Client
  BY DEF ChTypeOK
<1>k. MutexKept(c) /\ MutexKept(e) /\ Fifo(mutex[c]) /\ Fifo(mutex[e])
  BY DEF MutexKept
<1>s. \A d \in Client \ {c} : pc'[d] = pc[d] /\ job'[d] = job[d]
  BY OthersStay
<1>d. \A d : /\ Own(c) # Send(d) /\ Own(d) # Send(c) /\ Own(e) # Send(d)
             /\ Own(c) = Own(d) <=> c = d
             /\ Send(c) = Send(d) <=> c = d
  BY RequestsDiffer
<1> USE DEF Live, Holding, Pc, ReadPc, ForMap, ForChannel, ForClient
(* The part of it about the sends of others. *)
<1>1. CASE MutexQuiet(c)
  <2>1. CASE e = c
    BY <1>k, <1>s, <1>1, <2>1 DEF MutexQuiet, MutexKept
  <2>2. CASE e # c
    BY <1>k, <1>s, <1>1, <2>2 DEF MutexQuiet, MutexKept
  <2> QED
    BY <2>1, <2>2
<1>2. CASE MutexRequeue(c)
  <2>1. CASE e = c
    <3>1. Own(c) \in Requests(mutex[c])
      BY <1>k, <1>2 DEF MutexKept, MutexRequeue
    <3>2. mutex'[c] = Enqueue(Release(mutex[c], Own(c)), Own(c))
      BY <1>0, <1>2 DEF MutexRequeue, Requeued
    <3>3. Fifo(mutex'[c]) /\ Requests(mutex'[c]) = Requests(mutex[c])
      BY <1>k, <3>1, <3>2, LockOps
    <3> QED
      BY <1>k, <1>s, <1>2, <2>1, <3>1, <3>3 DEF MutexRequeue, MutexKept
  <2>2. CASE e # c
    <3>1. mutex'[e] = mutex[e]
      BY <1>0, <1>2, <2>2 DEF MutexRequeue, Requeued
    <3> QED
      BY <1>k, <1>s, <1>2, <2>2, <3>1 DEF MutexRequeue, MutexKept
  <2> QED
    BY <2>1, <2>2
<1>3. CASE MutexConnect(c)
  <2>1. CASE e = c
    <3>1. Requests(mutex[c]) = {}
      BY <1>k, <1>3 DEF MutexKept, MutexConnect
    <3>2. mutex'[c] = Enqueue(mutex[c], Own(c))
      BY <1>0, <1>3 DEF MutexConnect
    <3>3. /\ Fifo(mutex'[c]) /\ Requests(mutex'[c]) = {Own(c)}
          /\ Granted(mutex'[c], Own(c))
      <4>1. Own(c) \notin Requests(mutex[c])
        BY <3>1
      <4>2. Fifo(mutex'[c])
        BY <1>k, <3>2, <4>1, EnqueueFifo
      <4>3. Requests(mutex'[c]) = Requests(mutex[c]) \cup {Own(c)}
        BY <3>2, EnqueueRequests
      <4>4. Granted(mutex'[c], Own(c))
        BY <1>k, <3>1, <3>2, EnqueueFirst
      <4> QED
        BY <3>1, <4>2, <4>3, <4>4
    <3>4. \A d \in Client : Send(d) \notin Requests(mutex[c])
      BY <3>1
    <3> QED
      BY <1>k, <1>s, <1>d, <1>3, <2>1, <3>1, <3>3, <3>4 DEF MutexConnect, MutexKept
  <2>2. CASE e # c
    <3>1. mutex'[e] = mutex[e]
      BY <1>0, <1>3, <2>2 DEF MutexConnect
    <3> QED
      BY <1>k, <1>s, <1>3, <2>2, <3>1 DEF MutexConnect, MutexKept
  <2> QED
    BY <2>1, <2>2
<1>4. CASE MutexAsk(c)
  <2>1. CASE e = job'[c].to
    <3>1. Send(c) \notin Requests(mutex[e]) /\ pc[e] # "none"
      BY <1>k, <1>4, <2>1 DEF MutexKept, MutexAsk, Found
    <3>2. mutex'[e] = Enqueue(mutex[e], Send(c))
      BY <1>0, <1>4, <2>1 DEF MutexAsk
    <3>3. /\ Fifo(mutex'[e])
          /\ Requests(mutex'[e]) = Requests(mutex[e]) \cup {Send(c)}
          /\ Granted(mutex[e], Own(e)) => Granted(mutex'[e], Own(e))
      BY <1>k, <1>d, <3>1, <3>2, LockOps
    <3>4. pc'[e] \in Live <=> pc[e] \in Live
      BY <1>s, <1>4 DEF MutexAsk
    <3>5. pc'[e] \in Holding => Granted(mutex'[e], Own(e))
      BY <1>s, <1>k, <1>4, <3>3 DEF MutexAsk, MutexKept
    <3>6. pc'[e] # "none"
      BY <1>s, <1>4, <3>1 DEF MutexAsk
    <3>7. ASSUME NEW d \in Client
          PROVE  /\ Send(d) \in Requests(mutex'[e])
                      <=> pc'[d] \in ForClient /\ job'[d].to = e
                 /\ d # e => Own(d) \notin Requests(mutex'[e])
      <4>1. CASE d = c
        BY <1>k, <1>d, <1>4, <2>1, <3>3, <4>1 DEF MutexAsk, MutexKept
      <4>2. CASE d # c
        BY <1>k, <1>s, <1>d, <3>3, <4>2 DEF MutexKept
      <4> QED
        BY <4>1, <4>2
    <3> QED
      BY <1>k, <1>d, <3>3, <3>4, <3>5, <3>6, <3>7 DEF MutexKept
  <2>2. CASE e # job'[c].to
    <3>1. mutex'[e] = mutex[e]
      BY <1>0, <1>4, <2>2 DEF MutexAsk
    <3>2. pc[c] \notin ForClient /\ pc'[c] \in Holding /\ pc[c] \in Holding
      BY <1>4 DEF MutexAsk
    <3>3. \A d \in Client : pc'[d] \in ForClient /\ job'[d].to = e
                              <=> pc[d] \in ForClient /\ job[d].to = e
      BY <1>s, <2>2, <3>2
    <3>4. /\ pc'[e] \in Live <=> pc[e] \in Live
          /\ pc'[e] \in Holding <=> pc[e] \in Holding
          /\ pc'[e] = "none" <=> pc[e] = "none"
      BY <1>s, <3>2
    <3> QED
      BY <1>k, <3>1, <3>3, <3>4 DEF MutexKept
  <2> QED
    BY <2>1, <2>2
<1>5. CASE MutexSent(c) \/ MutexFails(c)
  <2> DEFINE freed == Release(mutex[e], Send(c))
  <2>1. /\ pc[c] \in ForClient /\ pc'[c] \in Live \ ForClient
        /\ pc'[c] \in Holding \/ pc'[c] = "cleaning"
    BY <1>5 DEF MutexSent, MutexFails
  <2>2. /\ Fifo(freed)
        /\ Requests(freed) = Requests(mutex[e]) \ {Send(c)}
        /\ Granted(mutex[e], Own(e)) => Granted(freed, Own(e))
    BY <1>k, <1>d, LockOps
  <2>3. \A d \in Client : Send(d) \in Requests(freed)
                            <=> pc'[d] \in ForClient /\ job'[d].to = e
    BY <1>k, <1>s, <1>d, <2>1, <2>2 DEF MutexKept
  <2>4. \/ mutex'[e] = freed
        \/ e = c /\ pc'[c] = "cleaning"
           /\ mutex'[e] = Enqueue(Release(freed, Own(c)), Own(c))
        \/ mutex'[e] = mutex[e] /\ Send(c) \notin Requests(mutex[e])
        \/ e = c /\ pc'[c] = "cleaning" /\ Send(c) \notin Requests(mutex[e])
           /\ mutex'[e] = Enqueue(Release(mutex[e], Own(c)), Own(c))
    <3>1. job[c].to \in Client
      BY <2>1 DEF JobSound
    <3>2. e # job[c].to => Send(c) \notin Requests(mutex[e])
      BY <1>k DEF MutexKept
    <3>3. Sent(c)[e] = IF e = job[c].to THEN freed ELSE mutex[e]
      BY <1>0, <3>1 DEF Sent
    <3>4. DOMAIN Sent(c) = Client
      BY <1>0 DEF Sent
    <3>5. CASE MutexSent(c)
      BY <3>2, <3>3, <3>5 DEF MutexSent
    <3>6. CASE MutexFails(c)
      <4>1. mutex'[e] = IF e = c THEN Enqueue(Release(Sent(c)[e], Own(c)), Own(c))
                        ELSE Sent(c)[e]
        BY <3>4, <3>6 DEF MutexFails, Requeued
      <4> QED
        BY <3>2, <3>3, <3>6, <4>1 DEF MutexFails
    <3> QED
      BY <1>5, <3>5, <3>6
  <2>5. pc'[e] \in Live <=> pc[e] \in Live
    BY <1>s, <2>1
  <2>6. \/ pc'[e] # "none" /\ pc[e] # "none"
        \/ pc'[e] = pc[e]
    BY <1>s, <2>1
  <2>7. \A d \in Client : d # e => Own(d) \notin Requests(mutex[e])
    BY <1>k DEF MutexKept
  <2>8. CASE mutex'[e] = freed
    <3>1. pc'[e] \in Holding => Granted(mutex[e], Own(e))
      BY <1>k, <1>s, <2>1 DEF MutexKept
    <3> QED
      BY <1>k, <1>d, <2>2, <2>3, <2>5, <2>6, <2>7, <2>8, <3>1 DEF MutexKept
  <2>9. CASE e = c /\ pc'[c] = "cleaning"
             /\ mutex'[e] = Enqueue(Release(freed, Own(c)), Own(c))
    <3>1. Own(c) \in Requests(freed)
      BY <1>k, <1>d, <2>1, <2>2, <2>9 DEF MutexKept
    <3>2. Fifo(mutex'[e]) /\ Requests(mutex'[e]) = Requests(freed)
      BY <2>2, <2>9, <3>1, LockOps
    <3> QED
      BY <1>k, <1>d, <2>1, <2>2, <2>3, <2>5, <2>7, <2>9, <3>1, <3>2 DEF MutexKept
  <2>10. CASE mutex'[e] = mutex[e] /\ Send(c) \notin Requests(mutex[e])
    <3>1. Requests(freed) = Requests(mutex[e])
      BY <2>2, <2>10
    <3>2. pc'[e] \in Holding => Granted(mutex[e], Own(e))
      BY <1>k, <1>s, <2>1 DEF MutexKept
    <3> QED
      BY <1>k, <2>3, <2>5, <2>6, <2>7, <2>10, <3>1, <3>2 DEF MutexKept
  <2>11. CASE e = c /\ pc'[c] = "cleaning" /\ Send(c) \notin Requests(mutex[e])
              /\ mutex'[e] = Enqueue(Release(mutex[e], Own(c)), Own(c))
    <3>1. Own(c) \in Requests(mutex[e]) /\ Requests(freed) = Requests(mutex[e])
      BY <1>k, <2>1, <2>2, <2>11 DEF MutexKept
    <3>2. Fifo(mutex'[e]) /\ Requests(mutex'[e]) = Requests(mutex[e])
      BY <1>k, <2>11, <3>1, LockOps
    <3> QED
      BY <1>k, <2>3, <2>5, <2>7, <2>11, <3>1, <3>2 DEF MutexKept
  <2> QED
    BY <2>4, <2>8, <2>9, <2>10, <2>11
<1>6. CASE MutexLeft(c)
  <2>1. CASE e = c
    <3>1. mutex'[c] = Release(mutex[c], Own(c))
      BY <1>0, <1>6 DEF MutexLeft
    <3>2. Fifo(mutex'[c]) /\ Requests(mutex'[c]) = Requests(mutex[c]) \ {Own(c)}
      BY <1>k, <3>1, LockOps
    <3> QED
      BY <1>k, <1>s, <1>d, <1>6, <2>1, <3>2 DEF MutexLeft, MutexKept
  <2>2. CASE e # c
    <3>1. mutex'[e] = mutex[e]
      BY <1>0, <1>6, <2>2 DEF MutexLeft
    <3> QED
      BY <1>k, <1>s, <1>6, <2>2, <3>1 DEF MutexLeft, MutexKept
  <2> QED
    BY <2>1, <2>2
<1>7. CASE MutexDropped(c)
  <2>1. mutex'[e] = Withdraw(mutex[e], RequestsOf(c))
    BY <1>7 DEF MutexDropped
  <2>2. Fifo(mutex'[e]) /\ Requests(mutex'[e]) = Requests(mutex[e]) \ RequestsOf(c)
    BY <1>k, <2>1, WithdrawFifo, WithdrawRequests
  <2>3. \A d \in Client : /\ Own(d) \in RequestsOf(c) <=> d = c
                          /\ Send(d) \in RequestsOf(c) <=> d = c
    BY RequestsDiffer
  <2>4. e # c /\ Granted(mutex[e], Own(e)) => Granted(mutex'[e], Own(e))
    BY <1>k, <2>1, <2>3, WithdrawGranted
  <2> QED
    BY <1>k, <1>s, <1>7, <2>2, <2>3, <2>4 DEF MutexDropped, MutexKept
<1> QED
  BY <1>1, <1>2, <1>3, <1>4, <1>5, <1>6, <1>7, MutexShape

-----------------------------------------------------------------------------
(* A lock after the operations of one client *)

(* To the requests of the others, lock m is what l was. *)
SameForOthers(l, m, c) == \A s : s \notin RequestsOf(c) =>
  /\ s \in Requests(m) <=> s \in Requests(l)
  /\ Granted(l, s) => Granted(m, s)
  /\ GrantedShared(l, s, Shared) => GrantedShared(m, s, Shared)
  /\ \A q : q \notin RequestsOf(c) => (<<q, s>> \in m <=> <<q, s>> \in l)

(* A request that is made changes nothing for the others ... *)
LEMMA EnqueueSame ==
  ASSUME NEW l, NEW c, NEW r \in RequestsOf(c)
  PROVE  SameForOthers(l, Enqueue(l, r), c)
<1> SUFFICES ASSUME NEW s, s \notin RequestsOf(c)
             PROVE  /\ s \in Requests(Enqueue(l, r)) <=> s \in Requests(l)
                    /\ Granted(l, s) => Granted(Enqueue(l, r), s)
                    /\ GrantedShared(l, s, Shared)
                         => GrantedShared(Enqueue(l, r), s, Shared)
                    /\ \A q : q \notin RequestsOf(c) =>
                         (<<q, s>> \in Enqueue(l, r) <=> <<q, s>> \in l)
  BY DEF SameForOthers
<1>1. s # r
  OBVIOUS
<1>2. s \in Requests(Enqueue(l, r)) <=> s \in Requests(l)
  BY <1>1, EnqueueRequests
<1>3. \A p \in Enqueue(l, r) : p[2] = s => p \in l
  BY <1>1 DEF Enqueue
<1>4. GrantedShared(l, s, Shared) => GrantedShared(Enqueue(l, r), s, Shared)
  BY <1>2, <1>3 DEF GrantedShared
<1>5. \A q : <<q, s>> \in Enqueue(l, r) <=> <<q, s>> \in l
  BY <1>1 DEF Enqueue
<1> QED
  BY <1>1, <1>2, <1>4, <1>5, EnqueueGranted

(* ... nor do requests that are withdrawn ... *)
LEMMA WithdrawSame ==
  ASSUME NEW l, NEW c, NEW R \in SUBSET RequestsOf(c), Fifo(l)
  PROVE  SameForOthers(l, Withdraw(l, R), c)
<1> SUFFICES ASSUME NEW s, s \notin RequestsOf(c)
             PROVE  /\ s \in Requests(Withdraw(l, R)) <=> s \in Requests(l)
                    /\ Granted(l, s) => Granted(Withdraw(l, R), s)
                    /\ GrantedShared(l, s, Shared)
                         => GrantedShared(Withdraw(l, R), s, Shared)
                    /\ \A q : q \notin RequestsOf(c) =>
                         (<<q, s>> \in Withdraw(l, R) <=> <<q, s>> \in l)
  BY DEF SameForOthers
<1>1. s \notin R
  OBVIOUS
<1>2. s \in Requests(Withdraw(l, R)) <=> s \in Requests(l)
  BY <1>1, WithdrawRequests
<1>3. \A p \in Withdraw(l, R) : p \in l
  BY DEF Withdraw
<1>4. GrantedShared(l, s, Shared) => GrantedShared(Withdraw(l, R), s, Shared)
  BY <1>2, <1>3 DEF GrantedShared
<1>5. ASSUME NEW q, q \notin RequestsOf(c)
      PROVE  <<q, s>> \in Withdraw(l, R) <=> <<q, s>> \in l
  <2>1. q \notin R /\ <<q, s>>[1] = q /\ <<q, s>>[2] = s
    BY <1>5
  <2> QED
    BY <1>1, <2>1 DEF Withdraw
<1> QED
  BY <1>1, <1>2, <1>4, <1>5, WithdrawGranted

(* ... or released ... *)
LEMMA ReleaseSame ==
  ASSUME NEW l, NEW c, NEW r \in RequestsOf(c), Fifo(l)
  PROVE  SameForOthers(l, Release(l, r), c)
BY WithdrawSame DEF Release

(* ... one after the other. *)
LEMMA SameTwice ==
  ASSUME NEW l, NEW m, NEW n, NEW c, SameForOthers(l, m, c), SameForOthers(m, n, c)
  PROVE  SameForOthers(l, n, c)
BY DEF SameForOthers

(* A request that is granted alone does not share the lock. *)
LEMMA WriterExcludes ==
  ASSUME NEW l, NEW c, NEW d, Fifo(l), Granted(l, Write(c)), d \in Client
  PROVE  ~GrantedShared(l, Read(d), Shared)
<1> SUFFICES ASSUME GrantedShared(l, Read(d), Shared) PROVE FALSE
  OBVIOUS
<1>1. Write(c) \notin Shared
  BY DEF Shared, Write, Read
<1>2. Write(c) # Read(d)
  BY RequestsDiffer
<1>3. <<Write(c), Read(d)>> \in l \/ <<Read(d), Write(c)>> \in l
  BY FifoTotal DEF Granted, GrantedShared
<1>4. <<Write(c), Read(d)>> \notin l
  <2>1. <<Write(c), Read(d)>>[1] = Write(c) /\ <<Write(c), Read(d)>>[2] = Read(d)
    OBVIOUS
  <2> QED
    BY <1>1, <2>1 DEF GrantedShared
<1>5. <<Read(d), Write(c)>> \notin l
  <2>1. <<Read(d), Write(c)>>[1] = Read(d) /\ <<Read(d), Write(c)>>[2] = Write(c)
    OBVIOUS
  <2> QED
    BY <1>2, <2>1 DEF Granted
<1> QED
  BY <1>3, <1>4, <1>5

-----------------------------------------------------------------------------
(* The lock around the map *)

OnMap(c) == pc[c] \in MapReaders \/ pc[c] = "create"

MapQuiet(c) ==
  /\ map_lock' = map_lock
  /\ pc'[c] \in MapReaders <=> pc[c] \in MapReaders
  /\ pc'[c] = "create" <=> pc[c] = "create"
  /\ pc'[c] \in MapHolders => pc[c] \in MapHolders \/ HasMap(c)
MapAsked(c) ==
  /\ ~OnMap(c)
  /\ \/ map_lock' = Enqueue(map_lock, Read(c)) /\ pc'[c] \in MapReaders \ MapHolders
     \/ map_lock' = Enqueue(map_lock, Write(c)) /\ pc'[c] = "create"
MapDropped(c) ==
  /\ pc'[c] \notin MapReaders \cup {"create"}
  /\ \/ map_lock' = Release(map_lock, Read(c)) /\ pc[c] # "create"
     \/ map_lock' = Release(map_lock, Write(c)) /\ pc[c] = "create"
     \/ map_lock' = Withdraw(map_lock, RequestsOf(c))
MapAgain(c) ==
  /\ pc[c] \in MapReaders /\ pc'[c] \in MapReaders \ MapHolders
  /\ map_lock' = Enqueue(Release(map_lock, Read(c)), Read(c))

(* Every handler does one of these to the lock around the map. *)
LEMMA MapShape ==
  ASSUME ChTypeOK, NEW c \in Client, JobSound(c), Handled(c)
  PROVE  MapQuiet(c) \/ MapAsked(c) \/ MapDropped(c) \/ MapAgain(c)
<1>0. pc \in [Client -> Pc] /\ job \in [Client -> Job] /\ pc[c] \in Pc
  BY DEF ChTypeOK
<1> DEFINE Goal == MapQuiet(c) \/ MapAsked(c) \/ MapDropped(c) \/ MapAgain(c)
<1> SUFFICES Goal
  OBVIOUS
<1>t. ASSUME NEW p, MoveTo(c, p) PROVE pc'[c] = p
  BY <1>0, <1>t DEF MoveTo
<1> USE DEF MapReaders, MapHolders, ForMap
<1>r. ASSUME NEW m, NEW ok, Return(c, m, ok)
      PROVE  pc'[c] \in {"serving", "cleaning"}
  BY <1>r, <1>t DEF Return
<1>1. CASE Connect(c)
  BY <1>1, <1>t DEF Connect, MapQuiet
<1>2. CASE Identify(c)
  BY <1>2 DEF Identify, MapQuiet
<1>3. CASE StopServing(c) \/ ModeQuery(c) \/ WhoDone(c) \/ RemoveMember(c)
  BY <1>r, <1>t, <1>3 DEF StopServing, ModeQuery, WhoDone, RemoveMember, MapQuiet
<1>4. ASSUME NEW cmd \in Commands, NEW ch \in Channel, Begin(c, cmd, ch) PROVE Goal
  <2>1. cmd \in {"JOIN", "PART", "PRIVMSG", "WHO", "MODE", "LUSERS"}
    BY ChannelsAssumption
  <2>2. CASE cmd = "JOIN"
    BY <1>4, <1>t, <2>2 DEF Begin, MapAsked, OnMap
  <2>3. CASE cmd # "JOIN"
    <3>1. PICK p \in {"count", "member_map", "get"} : MoveTo(c, p)
      BY <1>4, <2>1, <2>3 DEF Begin
    <3> QED
      BY <1>4, <1>t, <2>3, <3>1 DEF Begin, MapAsked, OnMap
  <2> QED
    BY <2>2, <2>3
<1>5. CASE Count(c) \/ Create(c) \/ RemoveMap(c)
  BY <1>t, <1>r, <1>5 DEF Count, Create, RemoveMap, DropMap, MapDropped
<1>6. CASE Enter(c)
  BY <1>t, <1>6 DEF Enter, Die, MapDropped, MapQuiet
<1>7. CASE Confirm(c) \/ ModeChange(c)
  BY <1>t, <1>r, <1>7 DEF Confirm, ModeChange, AskMap, MapAsked, OnMap, MapQuiet
<1>8. CASE BroadcastMap(c)
  BY <1>t, <1>8 DEF BroadcastMap, MapQuiet
<1>9. CASE CopyMembers(c)
  BY <1>t, <1>9 DEF CopyMembers, DropMap, MapDropped
<1>10. CASE NextMember(c)
  <2>1. \/ MoveTo(c, IF pc[c] = "bc_next" THEN "bc_send" ELSE "who_send")
        \/ UNCHANGED pc
    BY <1>10 DEF NextMember
  <2> QED
    BY <1>t, <1>10, <2>1 DEF NextMember, MapQuiet
<1>11. CASE SendToMember(c) \/ WhoChannel(c)
  BY <1>t, <1>11 DEF SendToMember, WhoChannel, MapQuiet
<1>12. CASE BroadcastDone(c)
  BY <1>t, <1>r, <1>12 DEF BroadcastDone, AskMap, MapAsked, OnMap, MapQuiet
<1>13. CASE CheckMap(c)
  BY <1>t, <1>r, <1>13 DEF CheckMap, NotOnChannel, DropMap, MapDropped, MapQuiet
<1>14. CASE CheckMember(c)
  BY <1>t, <1>r, <1>14 DEF CheckMember, NotOnChannel, DropMap, MapDropped, MapAgain
<1>15. CASE GetChannel(c)
  BY <1>t, <1>r, <1>15 DEF GetChannel, DropMap, MapDropped
<1>16. CASE WhoMember(c)
  BY <1>t, <1>r, <1>16 DEF WhoMember, Die, MapDropped, MapQuiet
<1>17. CASE CleanUp(c) \/ LeaveNext(c)
  BY <1>t, <1>17 DEF CleanUp, LeaveNext, AskMap, MapAsked, OnMap, MapQuiet
<1>18. CASE Scan(c)
  BY <1>t, <1>18 DEF Scan, DropMap, MapDropped, MapQuiet
<1>19. CASE ScanChannel(c)
  BY <1>t, <1>19 DEF ScanChannel, DropMap, MapDropped, MapQuiet
<1> QED
  BY <1>1, <1>2, <1>3, <1>4, <1>5, <1>6, <1>7, <1>8, <1>9, <1>10, <1>11, <1>12,
     <1>13, <1>14, <1>15, <1>16, <1>17, <1>18, <1>19
  DEF Handled, Progress

(* The lock around the map has the requests that it should. *)
LEMMA MapStep ==
  ASSUME ChTypeOK, NEW c \in Client, JobSound(c), Handled(c), Fifo(map_lock),
         \A d \in Client : MapKept(d)
  PROVE  /\ Fifo(map_lock')
         /\ SameForOthers(map_lock, map_lock', c)
         /\ \A d \in Client : MapKept(d)'
<1>k. MapKept(c)
  OBVIOUS
<1>r. \A d : /\ Read(c) \in RequestsOf(c) /\ Write(c) \in RequestsOf(c)
             /\ Write(c) # Read(c)
             /\ Read(d) \in RequestsOf(c) <=> d = c
             /\ Write(d) \in RequestsOf(c) <=> d = c
  BY RequestsDiffer
<1> USE DEF MapReaders, MapHolders, ForMap
<1>1. /\ Fifo(map_lock')
      /\ SameForOthers(map_lock, map_lock', c)
      /\ MapKept(c)'
  <2>1. CASE MapQuiet(c)
    <3>1. SameForOthers(map_lock, map_lock', c)
      BY <2>1 DEF MapQuiet, SameForOthers
    <3> QED
      BY <1>k, <2>1, <3>1 DEF MapQuiet, MapKept, HasMap
  <2>2. CASE MapAsked(c)
    <3>1. /\ Read(c) \notin Requests(map_lock) /\ Write(c) \notin Requests(map_lock)
      BY <1>k, <2>2 DEF MapAsked, OnMap, MapKept
    <3>2. CASE map_lock' = Enqueue(map_lock, Read(c)) /\ pc'[c] \in MapReaders \ MapHolders
      <4>1. Fifo(map_lock') /\ Requests(map_lock') = Requests(map_lock) \cup {Read(c)}
        BY <3>1, <3>2, EnqueueFifo, EnqueueRequests
      <4> QED
        BY <1>r, <3>1, <3>2, <4>1, EnqueueSame DEF MapKept
    <3>3. CASE map_lock' = Enqueue(map_lock, Write(c)) /\ pc'[c] = "create"
      <4>1. Fifo(map_lock') /\ Requests(map_lock') = Requests(map_lock) \cup {Write(c)}
        BY <3>1, <3>3, EnqueueFifo, EnqueueRequests
      <4> QED
        BY <1>r, <3>1, <3>3, <4>1, EnqueueSame DEF MapKept
    <3> QED
      BY <2>2, <3>2, <3>3 DEF MapAsked
  <2>3. CASE MapDropped(c)
    <3>1. CASE map_lock' = Withdraw(map_lock, RequestsOf(c))
      <4>1. Fifo(map_lock') /\ Requests(map_lock') = Requests(map_lock) \ RequestsOf(c)
        BY <3>1, WithdrawFifo, WithdrawRequests
      <4>2. SameForOthers(map_lock, map_lock', c)
        BY <3>1, WithdrawSame
      <4> QED
        BY <1>r, <2>3, <4>1, <4>2 DEF MapDropped, MapKept
    <3>2. ASSUME NEW r \in {Read(c), Write(c)}, map_lock' = Release(map_lock, r),
                 r = Read(c) => pc[c] # "create",
                 r = Write(c) => pc[c] = "create"
          PROVE  /\ Fifo(map_lock')
                 /\ SameForOthers(map_lock, map_lock', c)
                 /\ MapKept(c)'
      <4>1. Fifo(map_lock') /\ Requests(map_lock') = Requests(map_lock) \ {r}
        BY <3>2, LockOps
      <4>2. SameForOthers(map_lock, map_lock', c)
        BY <1>r, <3>2, ReleaseSame
      <4>3. Read(c) \notin Requests(map_lock') /\ Write(c) \notin Requests(map_lock')
        BY <1>k, <1>r, <3>2, <4>1 DEF MapKept
      <4> QED
        BY <2>3, <4>1, <4>2, <4>3 DEF MapDropped, MapKept
    <3> QED
      BY <1>r, <2>3, <3>1, <3>2 DEF MapDropped
  <2>4. CASE MapAgain(c)
    <3>1. Read(c) \in Requests(map_lock) /\ Write(c) \notin Requests(map_lock)
      BY <1>k, <2>4 DEF MapAgain, MapKept
    <3>2. Fifo(map_lock') /\ Requests(map_lock') = Requests(map_lock)
      BY <2>4, <3>1, LockOps DEF MapAgain
    <3>3. SameForOthers(map_lock, map_lock', c)
      BY <1>r, <2>4, ReleaseSame, EnqueueSame, SameTwice DEF MapAgain
    <3> QED
      BY <2>4, <3>1, <3>2, <3>3 DEF MapAgain, MapKept
  <2> QED
    BY <2>1, <2>2, <2>3, <2>4, MapShape
<1>2. ASSUME NEW d \in Client, d # c PROVE MapKept(d)'
  <2>1. pc'[d] = pc[d]
    BY <1>2, OthersStay
  <2>2. MapKept(d)
    OBVIOUS
  <2> QED
    BY <1>1, <1>2, <1>r, <2>1, <2>2 DEF MapKept, SameForOthers
<1> QED
  BY <1>1, <1>2

-----------------------------------------------------------------------------
(* The locks of the channels *)

(* What a handler is about changes only when it begins, or in cleanup().   *)
LEMMA JobMoves ==
  ASSUME ChTypeOK, NEW c \in Client, JobSound(c), Handled(c)
  PROVE  \/ job'[c] = NoJob
         \/ pc[c] \in {"serving", "cleaning", "scan_map", "scan_chan", "leave_next"}
         \/ job'[c].chan = job[c].chan /\ job'[c].cmd = job[c].cmd
<1>0. job \in [Client -> Job] /\ job[c] \in Job
  BY DEF ChTypeOK
<1> DEFINE Goal == \/ job'[c] = NoJob
                   \/ pc[c] \in {"serving", "cleaning", "scan_map", "scan_chan",
                                 "leave_next"}
                   \/ job'[c].chan = job[c].chan /\ job'[c].cmd = job[c].cmd
<1> SUFFICES Goal
  OBVIOUS
<1>r. ASSUME NEW m, NEW ok, Return(c, m, ok) PROVE job'[c] = NoJob
  BY <1>0, <1>r DEF Return
<1>1. CASE Connect(c) \/ Identify(c) \/ StopServing(c) \/ CleanUp(c) \/ Scan(c)
           \/ ScanChannel(c) \/ LeaveNext(c)
           \/ \E cmd \in Commands, ch \in Channel : Begin(c, cmd, ch)
  BY <1>1 DEF Connect, Identify, StopServing, CleanUp, Scan, ScanChannel, LeaveNext,
      Begin
<1>2. CASE Count(c) \/ Create(c) \/ Enter(c) \/ Confirm(c) \/ BroadcastMap(c)
           \/ BroadcastDone(c) \/ RemoveMap(c) \/ RemoveMember(c) \/ CheckMap(c)
           \/ CheckMember(c) \/ GetChannel(c) \/ ModeQuery(c) \/ ModeChange(c)
           \/ WhoDone(c)
  BY <1>0, <1>r, <1>2 DEF Count, Create, Enter, Die, Confirm, BroadcastMap,
      BroadcastDone, RemoveMap, RemoveMember, CheckMap, CheckMember, NotOnChannel,
      GetChannel, ModeQuery, ModeChange, WhoDone
<1>3. ASSUME NEW todo, job' = [job EXCEPT ![c].todo = todo] PROVE Goal
  BY <1>0, <1>3 DEF Job
<1>4. ASSUME NEW d, NEW todo, job' = [job EXCEPT ![c].to = d, ![c].todo = todo]
      PROVE  Goal
  BY <1>0, <1>4 DEF Job
<1>5. ASSUME NEW d, job' = [job EXCEPT ![c].to = d] PROVE Goal
  BY <1>0, <1>5 DEF Job
<1> HIDE DEF Goal
<1>6. CASE CopyMembers(c) \/ WhoChannel(c)
  BY <1>3, <1>6 DEF CopyMembers, WhoChannel
<1>7. CASE NextMember(c)
  <2> PICK d \in job[c].todo :
         \/ job' = [job EXCEPT ![c].to = d, ![c].todo = @ \ {d}]
         \/ job' = [job EXCEPT ![c].todo = @ \ {d}]
    BY <1>7 DEF NextMember
  <2>1. \/ job' = [job EXCEPT ![c].to = d, ![c].todo = job[c].todo \ {d}]
        \/ job' = [job EXCEPT ![c].todo = job[c].todo \ {d}]
    BY <1>0
  <2> QED
    BY <1>3, <1>4, <2>1
<1>8. CASE SendToMember(c)
  BY <1>5, <1>8 DEF SendToMember
<1>9. CASE WhoMember(c)
  <2>1. \/ job' = [job EXCEPT ![c].to = NoClient]
        \/ Die(c)
        \/ \E m : Return(c, m, FALSE)
    BY <1>9 DEF WhoMember
  <2> QED
    BY <1>0, <1>5, <1>r, <2>1 DEF Die, Goal
<1> QED
  BY <1>1, <1>2, <1>6, <1>7, <1>8, <1>9 DEF Handled, Progress

(* A broadcast that reads the members is not one of MODE, which excludes   *)
(* itself.                                                                 *)
LEMMA NoModeReads ==
  ASSUME NEW c \in Client, pc[c] = "bc_chan", HasRead(c), job[c].chan \in Channel,
         \A ch \in Channel : LockKept(ch)
  PROVE  job[c].cmd # "MODE"
<1> SUFFICES ASSUME job[c].cmd = "MODE" PROVE FALSE
  OBVIOUS
<1>1. Fifo(lock[job[c].chan]) /\ Granted(lock[job[c].chan], Write(c))
  BY DEF LockKept, ModeHolds
<1> QED
  BY <1>1, WriterExcludes DEF HasRead

(* Locks that are not touched, a request that is made, one that is dropped *)
(* and a future that dies.                                                 *)
Keeps(c, ch) ==
  /\ lock'[ch] = lock[ch]
  /\ Reads(c, ch)' <=> Reads(c, ch)
  /\ Writes(c, ch)' <=> Writes(c, ch)
  /\ ModeHolds(c, ch)' => ModeHolds(c, ch) \/ Granted(lock[ch], Write(c))
ReadAsked(c, ch) ==
  /\ lock'[ch] = Enqueue(lock[ch], Read(c))
  /\ ~Reads(c, ch) /\ Reads(c, ch)'
  /\ Writes(c, ch)' <=> Writes(c, ch)
  /\ ModeHolds(c, ch)' => ModeHolds(c, ch)
WriteAsked(c, ch) ==
  /\ lock'[ch] = Enqueue(lock[ch], Write(c))
  /\ ~Reads(c, ch) /\ ~Reads(c, ch)'
  /\ ~Writes(c, ch) /\ Writes(c, ch)'
  /\ ~ModeHolds(c, ch)'
ReadDropped(c, ch) ==
  /\ lock'[ch] = Release(lock[ch], Read(c))
  /\ ~Reads(c, ch)' /\ ~Writes(c, ch)' /\ ~Writes(c, ch)
WriteDropped(c, ch) ==
  /\ lock'[ch] = Release(lock[ch], Write(c))
  /\ ~Reads(c, ch)' /\ ~Writes(c, ch)' /\ ~Reads(c, ch)
AllDropped(c, ch) ==
  /\ lock'[ch] = Withdraw(lock[ch], RequestsOf(c))
  /\ ~Reads(c, ch)' /\ ~Writes(c, ch)'

Places == {"member_chan", "bc_chan", "who_read", "who_next", "who_send", "mode_read",
           "scan_chan", "enter", "remove_chan", "mode_write"}

(* Every handler does one of these to the lock of each channel. *)
LEMMA LockShape ==
  ASSUME ChTypeOK, NEW c \in Client, JobSound(c), Handled(c), NEW ch \in Channel,
         \A h \in Channel : LockKept(h)
  PROVE  \/ Keeps(c, ch) \/ ReadAsked(c, ch) \/ WriteAsked(c, ch)
         \/ ReadDropped(c, ch) \/ WriteDropped(c, ch) \/ AllDropped(c, ch)
<1>0. /\ pc \in [Client -> Pc] /\ job \in [Client -> Job] /\ job[c] \in Job
      /\ DOMAIN lock = Channel
  BY DEF ChTypeOK
<1> DEFINE Goal == \/ Keeps(c, ch) \/ ReadAsked(c, ch) \/ WriteAsked(c, ch)
                   \/ ReadDropped(c, ch) \/ WriteDropped(c, ch)
                   \/ AllDropped(c, ch)
<1> SUFFICES Goal
  OBVIOUS
<1>t. ASSUME NEW p, MoveTo(c, p) PROVE pc'[c] = p
  BY <1>0, <1>t DEF MoveTo
<1>r. ASSUME NEW m, NEW ok, Return(c, m, ok)
      PROVE  pc'[c] \in {"serving", "cleaning"}
  BY <1>r, <1>t DEF Return
<1>j. \/ job'[c] = NoJob
      \/ pc[c] \in {"serving", "cleaning", "scan_map", "scan_chan", "leave_next"}
      \/ job'[c].chan = job[c].chan /\ job'[c].cmd = job[c].cmd
  BY JobMoves
<1>a. ASSUME NEW h, NEW r, Ask(c, h, r)
      PROVE  lock'[ch] = IF ch = h THEN Enqueue(lock[ch], r) ELSE lock[ch]
  BY <1>0, <1>a DEF Ask
<1>d. ASSUME NEW r, Drop(c, r)
      PROVE  lock'[ch] = IF ch = job[c].chan THEN Release(lock[ch], r) ELSE lock[ch]
  BY <1>0, <1>d DEF Drop
<1>s. JobSound(c)'
  BY JobStep
<1> USE DEF Places, Idle
(* A step that begins and ends away from the locks of channels. *)
<1>q. ASSUME lock' = lock,
             pc[c] \notin Places, pc'[c] \notin Places,
             pc[c] = "bc_map" => job[c].cmd # "MODE",
             pc'[c] = "bc_map" => job'[c].cmd # "MODE"
      PROVE  Goal
  BY <1>q DEF Keeps, Reads, Writes, ModeHolds
(* A step that ends away from them. *)
<1>e. ASSUME pc'[c] \notin Places, pc'[c] = "bc_map" => job'[c].cmd # "MODE"
      PROVE  ~Reads(c, ch)' /\ ~Writes(c, ch)' /\ ~ModeHolds(c, ch)'
  BY <1>e DEF Reads, Writes, ModeHolds
<1>x. ASSUME Drop(c, Read(c)), pc[c] \in Places \ {"enter", "remove_chan", "mode_write"},
             pc[c] = "bc_chan" => job[c].cmd # "MODE",
             pc'[c] \notin Places, pc'[c] = "bc_map" => job'[c].cmd # "MODE"
      PROVE  Goal
  <2>1. ~Writes(c, ch) /\ (ch # job[c].chan => ~Reads(c, ch))
    BY <1>x DEF Reads, Writes, ModeHolds
  <2>2. ch = job[c].chan => lock'[ch] = Release(lock[ch], Read(c))
    BY <1>x, <1>d
  <2>3. ch # job[c].chan => lock'[ch] = lock[ch]
    BY <1>x, <1>d
  <2> QED
    BY <1>e, <1>x, <2>1, <2>2, <2>3 DEF Keeps, ReadDropped
<1>w. ASSUME Drop(c, Write(c)), pc[c] \in {"enter", "remove_chan", "mode_write"},
             pc'[c] \notin Places, pc'[c] = "bc_map" => job'[c].cmd # "MODE"
      PROVE  Goal
  <2>1. ~Reads(c, ch) /\ (ch # job[c].chan => ~Writes(c, ch))
    BY <1>w DEF Reads, Writes, ModeHolds
  <2>2. ch = job[c].chan => lock'[ch] = Release(lock[ch], Write(c))
    BY <1>w, <1>d
  <2>3. ch # job[c].chan => lock'[ch] = lock[ch]
    BY <1>w, <1>d
  <2> QED
    BY <1>e, <1>w, <2>1, <2>2, <2>3 DEF Keeps, WriteDropped
<1>z. ASSUME Die(c) PROVE Goal
  <2>1. pc'[c] = "dead"
    BY <1>t, <1>z DEF Die
  <2> QED
    BY <1>z, <2>1 DEF Die, AllDropped, Reads, Writes, ModeHolds
<1> HIDE DEF Goal
<1>1. CASE Connect(c) \/ Identify(c) \/ StopServing(c) \/ Count(c)
           \/ BroadcastDone(c) \/ SendToMember(c)
  BY <1>q, <1>t, <1>r, <1>1 DEF Connect, Identify, StopServing, Count, BroadcastDone,
      AskMap, SendToMember
<1>2. ASSUME NEW cmd \in Commands, NEW h \in Channel, Begin(c, cmd, h) PROVE Goal
  <2>1. cmd \in {"JOIN", "PART", "PRIVMSG", "WHO", "MODE", "LUSERS"}
    BY ChannelsAssumption
  <2>2. PICK p \in {"create", "count", "member_map", "get"} : MoveTo(c, p)
    BY <1>2, <2>1 DEF Begin
  <2> QED
    BY <1>2, <1>q, <1>t, <2>2 DEF Begin
<1>3. CASE Create(c)
  <2>1. /\ pc[c] = "create" /\ pc'[c] = "enter" /\ job' = job
        /\ Ask(c, job[c].chan, Write(c))
    BY <1>t, <1>3 DEF Create
  <2> QED
    BY <1>a, <2>1 DEF Goal, WriteAsked, Keeps, Reads, Writes, ModeHolds
<1>4. CASE Enter(c)
  <2>1. CASE Die(c)
    BY <1>z, <2>1
  <2>2. CASE Drop(c, Write(c)) /\ MoveTo(c, "confirm")
    BY <1>w, <1>t, <1>4, <2>2 DEF Enter
  <2> QED
    BY <1>4, <2>1, <2>2 DEF Enter
<1>5. CASE Confirm(c)
  <2>1. job[c].cmd = "JOIN"
    BY <1>5 DEF Confirm, JobSound
  <2> QED
    BY <1>q, <1>t, <1>r, <1>j, <1>5, <2>1 DEF Confirm, AskMap, NoJob
<1>6. CASE BroadcastMap(c)
  <2>1. /\ pc[c] = "bc_map" /\ pc'[c] = "bc_chan" /\ job' = job
        /\ Ask(c, job[c].chan, Read(c))
    BY <1>t, <1>6 DEF BroadcastMap
  <2> QED
    BY <1>a, <2>1 DEF Goal, ReadAsked, Keeps, Reads, Writes, ModeHolds
<1>7. CASE CopyMembers(c)
  <2>1. pc[c] = "bc_chan" /\ HasRead(c) /\ Drop(c, Read(c)) /\ pc'[c] = "bc_next"
    BY <1>t, <1>7 DEF CopyMembers
  <2>2. job[c].cmd # "MODE"
    BY <2>1, NoModeReads DEF JobSound
  <2> QED
    BY <1>x, <2>1, <2>2
<1>8. CASE NextMember(c)
  <2>1. /\ lock' = lock
        /\ \/ pc[c] = "bc_next" /\ pc'[c] \in {"bc_next", "bc_send"}
           \/ pc[c] = "who_next" /\ pc'[c] \in {"who_next", "who_send"}
    <3>1. /\ lock' = lock /\ pc[c] \in {"bc_next", "who_next"}
          /\ \/ MoveTo(c, IF pc[c] = "bc_next" THEN "bc_send" ELSE "who_send")
             \/ UNCHANGED pc
      BY <1>8 DEF NextMember
    <3> QED
      BY <1>t, <3>1
  <2>2. CASE pc[c] = "bc_next"
    BY <1>q, <2>1, <2>2
  <2>3. CASE pc[c] = "who_next"
    <3>1. job'[c].chan = job[c].chan
      <4>1. job'[c].cmd = "WHO"
        BY <1>s, <2>1, <2>3 DEF JobSound
      <4> QED
        BY <1>j, <2>3, <4>1 DEF NoJob
    <3> QED
      BY <2>1, <2>3, <3>1 DEF Goal, Keeps, Reads, Writes, ModeHolds
  <2> QED
    BY <2>1, <2>2, <2>3
<1>9. CASE RemoveMap(c)
  <2>1. /\ pc[c] = "remove_map" /\ pc'[c] = "remove_chan" /\ job' = job
        /\ Ask(c, job[c].chan, Write(c))
    BY <1>t, <1>9 DEF RemoveMap
  <2> QED
    BY <1>a, <2>1 DEF Goal, WriteAsked, Keeps, Reads, Writes, ModeHolds
<1>10. CASE RemoveMember(c)
  <2>1. /\ pc[c] = "remove_chan" /\ Drop(c, Write(c))
        /\ pc'[c] \in {"serving", "cleaning", "leave_next"}
    BY <1>t, <1>r, <1>10 DEF RemoveMember
  <2> QED
    BY <1>w, <2>1
<1>11. CASE CheckMap(c)
  <2>1. CASE Ask(c, job[c].chan, Read(c)) /\ MoveTo(c, "member_chan") /\ job' = job
    BY <1>t, <1>a, <1>11, <2>1
    DEF CheckMap, Goal, ReadAsked, Keeps, Reads, Writes, ModeHolds
  <2>2. CASE NotOnChannel(c) /\ UNCHANGED lock
    BY <1>q, <1>r, <1>11, <2>2 DEF CheckMap, NotOnChannel
  <2> QED
    BY <1>11, <2>1, <2>2 DEF CheckMap
<1>12. CASE CheckMember(c)
  <2>1. /\ pc[c] = "member_chan" /\ Drop(c, Read(c))
        /\ job[c].cmd \in {"PART", "PRIVMSG"}
    BY <1>12 DEF CheckMember, JobSound
  <2>2. CASE MoveTo(c, "bc_map") /\ job' = job
    BY <1>x, <1>t, <2>1, <2>2
  <2>3. CASE NotOnChannel(c)
    BY <1>x, <1>r, <2>1, <2>3 DEF NotOnChannel
  <2> QED
    BY <1>12, <2>2, <2>3 DEF CheckMember
<1>13. CASE GetChannel(c)
  <2>1. CASE \E ok : Return(c, mutex, ok) /\ UNCHANGED lock
    BY <1>q, <1>r, <1>13, <2>1 DEF GetChannel
  <2>2. CASE /\ Ask(c, job[c].chan, Read(c)) /\ job' = job
             /\ MoveTo(c, "who_read") \/ MoveTo(c, "mode_read")
    BY <1>t, <1>a, <1>13, <2>2
    DEF GetChannel, Goal, ReadAsked, Keeps, Reads, Writes, ModeHolds
  <2>3. CASE Ask(c, job[c].chan, Write(c)) /\ MoveTo(c, "mode_write") /\ job' = job
    BY <1>t, <1>a, <1>13, <2>3
    DEF GetChannel, Goal, WriteAsked, Keeps, Reads, Writes, ModeHolds
  <2> QED
    BY <1>13, <2>1, <2>2, <2>3 DEF GetChannel
<1>14. CASE ModeQuery(c) \/ WhoDone(c)
  <2>1. /\ pc[c] \in {"mode_read", "who_next"} /\ Drop(c, Read(c))
        /\ pc'[c] \in {"serving", "cleaning"}
    BY <1>r, <1>14 DEF ModeQuery, WhoDone
  <2> QED
    BY <1>x, <2>1
<1>15. CASE ModeChange(c)
  <2>1. CASE Drop(c, Write(c)) /\ Return(c, mutex, TRUE)
    BY <1>w, <1>r, <1>15, <2>1 DEF ModeChange
  <2>2. CASE AskMap(c, "bc_map") /\ UNCHANGED <<job, lock>>
    <3>1. /\ pc[c] = "mode_write" /\ pc'[c] = "bc_map" /\ job[c].cmd = "MODE"
          /\ HasWrite(c)
      BY <1>t, <1>15, <2>2 DEF ModeChange, AskMap, JobSound
    <3> QED
      BY <2>2, <3>1 DEF Goal, Keeps, Reads, Writes, ModeHolds, HasWrite
  <2> QED
    BY <1>15, <2>1, <2>2 DEF ModeChange
<1>16. CASE WhoChannel(c)
  <2>1. /\ pc[c] = "who_read" /\ pc'[c] = "who_next" /\ lock' = lock
    BY <1>t, <1>16 DEF WhoChannel
  <2>2. job'[c].chan = job[c].chan
    <3>1. job'[c].cmd = "WHO"
      BY <1>s, <2>1 DEF JobSound
    <3> QED
      BY <1>j, <2>1, <3>1 DEF NoJob
  <2> QED
    BY <2>1, <2>2 DEF Goal, Keeps, Reads, Writes, ModeHolds
<1>17. CASE WhoMember(c)
  <2>0. pc[c] = "who_send"
    BY <1>17 DEF WhoMember
  <2>1. CASE Die(c)
    BY <1>z, <2>1
  <2>2. CASE MoveTo(c, "who_next") /\ UNCHANGED lock
    <3>1. pc'[c] = "who_next"
      BY <1>t, <2>2
    <3>2. job'[c].chan = job[c].chan
      <4>1. job'[c].cmd = "WHO"
        BY <1>s, <3>1 DEF JobSound
      <4> QED
        BY <1>j, <2>0, <4>1 DEF NoJob
    <3> QED
      BY <2>0, <2>2, <3>1, <3>2 DEF Goal, Keeps, Reads, Writes, ModeHolds
  <2>3. CASE Drop(c, Read(c)) /\ \E m : Return(c, m, FALSE)
    BY <1>x, <1>r, <2>0, <2>3
  <2> QED
    BY <1>17, <2>1, <2>2, <2>3 DEF WhoMember
<1>18. CASE CleanUp(c)
  BY <1>q, <1>t, <1>18 DEF CleanUp, AskMap
<1>19. CASE Scan(c)
  <2>1. CASE MoveTo(c, "leave_next") /\ UNCHANGED lock
    BY <1>q, <1>t, <1>19, <2>1 DEF Scan
  <2>2. ASSUME NEW h \in channels, MoveTo(c, "scan_chan"), Ask(c, h, Read(c)),
               job' = [job EXCEPT ![c].chan = h, ![c].scan = channels \ {h}]
        PROVE  Goal
    <3>1. pc[c] = "scan_map" /\ pc'[c] = "scan_chan" /\ job'[c].chan = h
      BY <1>0, <1>t, <1>19, <2>2 DEF Scan, Job
    <3> QED
      BY <1>a, <2>2, <3>1 DEF Goal, ReadAsked, Keeps, Reads, Writes, ModeHolds
  <2> QED
    BY <1>19, <2>1, <2>2 DEF Scan
<1>20. CASE ScanChannel(c)
  <2>0. pc[c] = "scan_chan" /\ job[c].chan \notin job[c].scan
    BY <1>20 DEF ScanChannel, JobSound
  <2>1. CASE MoveTo(c, "leave_next") /\ Drop(c, Read(c))
    BY <1>x, <1>t, <2>0, <2>1
  <2>2. ASSUME NEW h \in job[c].scan, UNCHANGED pc, job'[c].chan = h,
               lock' = [lock EXCEPT ![job[c].chan] = Release(@, Read(c)),
                                    ![h] = Enqueue(@, Read(c))]
        PROVE  Goal
    <3>1. h # job[c].chan
      BY <2>0
    <3>2. lock'[ch] = IF ch = h THEN Enqueue(lock[ch], Read(c))
                      ELSE IF ch = job[c].chan THEN Release(lock[ch], Read(c))
                      ELSE lock[ch]
      BY <1>0, <2>2, <3>1
    <3> QED
      BY <2>0, <2>2, <3>1, <3>2
      DEF Goal, ReadAsked, ReadDropped, Keeps, Reads, Writes, ModeHolds
  <2>3. ASSUME NEW h \in job[c].scan, NEW found,
               job' = [job EXCEPT ![c].chan = h, ![c].scan = @ \ {h},
                                  ![c].found = found]
        PROVE  job'[c].chan = h
    BY <1>0, <2>3 DEF Job
  <2>4. \/ MoveTo(c, "leave_next") /\ Drop(c, Read(c))
        \/ \E h \in job[c].scan : \E found :
             /\ job' = [job EXCEPT ![c].chan = h, ![c].scan = @ \ {h},
                                   ![c].found = found]
             /\ lock' = [lock EXCEPT ![job[c].chan] = Release(@, Read(c)),
                                     ![h] = Enqueue(@, Read(c))]
             /\ UNCHANGED pc
    BY <1>0, <1>20 DEF ScanChannel
  <2> QED
    BY <2>1, <2>2, <2>3, <2>4
<1>21. CASE LeaveNext(c)
  <2>1. pc'[c] = "bc_map" => job'[c].cmd # "MODE"
    <3>1. pc'[c] = "bc_map" => \E h \in job[c].found :
             job' = [job EXCEPT ![c].chan = h, ![c].found = @ \ {h}]
      BY <1>t, <1>21 DEF LeaveNext
    <3>2. job[c].cmd = "QUIT"
      BY <1>21 DEF LeaveNext, JobSound, Scanning
    <3>3. ASSUME NEW h, NEW found,
                 job' = [job EXCEPT ![c].chan = h, ![c].found = found]
          PROVE  job'[c].cmd = job[c].cmd
      BY <1>0, <3>3 DEF Job
    <3>4. pc'[c] = "bc_map" => \E h, found :
             job' = [job EXCEPT ![c].chan = h, ![c].found = found]
      BY <1>0, <3>1
    <3> QED
      BY <3>2, <3>3, <3>4
  <2> QED
    BY <1>q, <1>t, <1>21, <2>1 DEF LeaveNext, AskMap
<1> QED
  BY <1>1, <1>2, <1>3, <1>4, <1>5, <1>6, <1>7, <1>8, <1>9, <1>10, <1>11, <1>12,
     <1>13, <1>14, <1>15, <1>16, <1>17, <1>18, <1>19, <1>20, <1>21
  DEF Handled, Progress

(* The lock of a channel has the requests that it should. *)
LEMMA LockStep ==
  ASSUME ChTypeOK, NEW c \in Client, JobSound(c), Handled(c), NEW ch \in Channel,
         \A h \in Channel : LockKept(h)
  PROVE  LockKept(ch)' /\ SameForOthers(lock[ch], lock'[ch], c)
<1>k. LockKept(ch) /\ Fifo(lock[ch])
  BY DEF LockKept
<1>r. \A d : /\ Read(c) \in RequestsOf(c) /\ Write(c) \in RequestsOf(c)
             /\ Write(c) # Read(c)
             /\ Read(d) \in RequestsOf(c) <=> d = c
             /\ Write(d) \in RequestsOf(c) <=> d = c
  BY RequestsDiffer
<1>h. ModeHolds(c, ch) => Writes(c, ch)
  BY DEF Writes
<1>n. ModeHolds(c, ch)' => Writes(c, ch)'
  BY DEF Writes
<1> DEFINE Goal == /\ Fifo(lock'[ch])
                   /\ SameForOthers(lock[ch], lock'[ch], c)
                   /\ Read(c) \in Requests(lock'[ch]) <=> Reads(c, ch)'
                   /\ Write(c) \in Requests(lock'[ch]) <=> Writes(c, ch)'
                   /\ ModeHolds(c, ch)' => Granted(lock'[ch], Write(c))
<1>o. /\ Read(c) \in Requests(lock[ch]) <=> Reads(c, ch)
      /\ Write(c) \in Requests(lock[ch]) <=> Writes(c, ch)
      /\ ModeHolds(c, ch) => Granted(lock[ch], Write(c))
  BY <1>k DEF LockKept
<1>1. Goal
  <2>1. CASE Keeps(c, ch)
    <3>1. SameForOthers(lock[ch], lock'[ch], c)
      BY <2>1 DEF Keeps, SameForOthers
    <3> QED
      BY <1>k, <1>o, <2>1, <3>1 DEF Keeps
  <2>2. CASE ReadAsked(c, ch)
    <3>1. /\ Fifo(lock'[ch]) /\ Requests(lock'[ch]) = Requests(lock[ch]) \cup {Read(c)}
          /\ SameForOthers(lock[ch], lock'[ch], c)
      BY <1>k, <1>o, <1>r, <2>2, EnqueueFifo, EnqueueRequests, EnqueueSame DEF ReadAsked
    <3>2. Granted(lock[ch], Write(c)) => Granted(lock'[ch], Write(c))
      BY <1>r, <2>2, EnqueueGranted DEF ReadAsked
    <3> QED
      BY <1>o, <1>r, <2>2, <3>1, <3>2 DEF ReadAsked
  <2>3. CASE WriteAsked(c, ch)
    <3>1. /\ Fifo(lock'[ch]) /\ Requests(lock'[ch]) = Requests(lock[ch]) \cup {Write(c)}
          /\ SameForOthers(lock[ch], lock'[ch], c)
      BY <1>k, <1>o, <1>r, <2>3, EnqueueFifo, EnqueueRequests, EnqueueSame DEF WriteAsked
    <3> QED
      BY <1>o, <1>r, <2>3, <3>1 DEF WriteAsked
  <2>4. CASE ReadDropped(c, ch)
    <3>1. /\ Fifo(lock'[ch]) /\ Requests(lock'[ch]) = Requests(lock[ch]) \ {Read(c)}
          /\ SameForOthers(lock[ch], lock'[ch], c)
      BY <1>k, <1>r, <2>4, LockOps, ReleaseSame DEF ReadDropped
    <3> QED
      BY <1>n, <1>o, <1>r, <2>4, <3>1 DEF ReadDropped
  <2>5. CASE WriteDropped(c, ch)
    <3>1. /\ Fifo(lock'[ch]) /\ Requests(lock'[ch]) = Requests(lock[ch]) \ {Write(c)}
          /\ SameForOthers(lock[ch], lock'[ch], c)
      BY <1>k, <1>r, <2>5, LockOps, ReleaseSame DEF WriteDropped
    <3> QED
      BY <1>n, <1>o, <1>r, <2>5, <3>1 DEF WriteDropped
  <2>6. CASE AllDropped(c, ch)
    <3>1. /\ Fifo(lock'[ch]) /\ Requests(lock'[ch]) = Requests(lock[ch]) \ RequestsOf(c)
          /\ SameForOthers(lock[ch], lock'[ch], c)
      BY <1>k, <2>6, WithdrawFifo, WithdrawRequests, WithdrawSame DEF AllDropped
    <3> QED
      BY <1>n, <1>o, <1>r, <2>6, <3>1 DEF AllDropped
  <2> QED
    BY <2>1, <2>2, <2>3, <2>4, <2>5, <2>6, LockShape
<1>2. ASSUME NEW d \in Client, d # c
      PROVE  /\ Read(d) \in Requests(lock'[ch]) <=> Reads(d, ch)'
             /\ Write(d) \in Requests(lock'[ch]) <=> Writes(d, ch)'
             /\ ModeHolds(d, ch)' => Granted(lock'[ch], Write(d))
  <2>1. pc'[d] = pc[d] /\ job'[d] = job[d]
    BY <1>2, OthersStay
  <2>2. /\ Reads(d, ch)' <=> Reads(d, ch)
        /\ Writes(d, ch)' <=> Writes(d, ch)
        /\ ModeHolds(d, ch)' <=> ModeHolds(d, ch)
    BY <2>1 DEF Reads, Writes, ModeHolds
  <2>3. /\ Read(d) \in Requests(lock[ch]) <=> Reads(d, ch)
        /\ Write(d) \in Requests(lock[ch]) <=> Writes(d, ch)
        /\ ModeHolds(d, ch) => Granted(lock[ch], Write(d))
    BY <1>k DEF LockKept
  <2>4. Read(d) \notin RequestsOf(c) /\ Write(d) \notin RequestsOf(c)
    BY <1>2, <1>r
  <2> QED
    BY <1>1, <2>2, <2>3, <2>4 DEF SameForOthers
<1>3. LockKept(ch)'
  BY <1>1, <1>2 DEF LockKept
<1> QED
  BY <1>1, <1>3

-----------------------------------------------------------------------------
(* The types of the variables *)

(* Handlers keep the types. *)
LEMMA ChannelsTyped ==
  ASSUME ChTypeOK, NEW c \in Client, JobSound(c), Handled(c), frozen' = frozen,
         \A h \in Channel : LockKept(h)
  PROVE  ChTypeOK'
<1>0. /\ pc \in [Client -> Pc] /\ job \in [Client -> Job]
      /\ name \in [Client -> {"new", "named", "registered"}]
      /\ writer_alive \in [Client -> BOOLEAN]
      /\ channels \subseteq Channel
      /\ members \in [Channel -> SUBSET Client]
      /\ map_lock \subseteq Request \X Request
      /\ lock \in [Channel -> SUBSET (Request \X Request)]
      /\ mutex \in [Client -> SUBSET (Request \X Request)]
      /\ frozen' \in [Client -> BOOLEAN]
  BY DEF ChTypeOK
<1>q. /\ Own(c) \in Request /\ Send(c) \in Request
      /\ Write(c) \in Request /\ Read(c) \in Request
  BY RequestsTyped
<1>1. pc' \in [Client -> Pc] /\ job' \in [Client -> Job]
  BY <1>0, JobStep
<1>2. name' \in [Client -> {"new", "named", "registered"}] /\ writer_alive' = writer_alive
  BY <1>0 DEF Handled, Progress, Connect, Identify, StopServing, Begin, Count,
      Create, Enter, Confirm, BroadcastMap, CopyMembers, NextMember, SendToMember,
      BroadcastDone, RemoveMap, RemoveMember, CheckMap, CheckMember, GetChannel,
      ModeQuery, ModeChange, WhoChannel, WhoMember, WhoDone, CleanUp, Scan,
      ScanChannel, LeaveNext
<1>3. channels' \subseteq Channel
  <2>1. channels' = channels \/ Create(c)
    BY DEF Handled, Progress, Connect, Identify, StopServing, Begin, Count,
      Create, Enter, Confirm, BroadcastMap, CopyMembers, NextMember, SendToMember,
      BroadcastDone, RemoveMap, RemoveMember, CheckMap, CheckMember, GetChannel,
      ModeQuery, ModeChange, WhoChannel, WhoMember, WhoDone, CleanUp, Scan,
      ScanChannel, LeaveNext
  <2>2. CASE Create(c)
    <3>1. job[c].chan \in Channel
      BY <2>2 DEF Create, JobSound, Idle
    <3> QED
      BY <1>0, <2>2, <3>1 DEF Create
  <2> QED
    BY <1>0, <2>1, <2>2
<1>4. members' \in [Channel -> SUBSET Client]
  <2>1. \/ UNCHANGED members
        \/ members' = [members EXCEPT ![job[c].chan] = @ \cup {c}]
        \/ members' = [members EXCEPT ![job[c].chan] = @ \ {c}]
    BY DEF Handled, Progress, Connect, Identify, StopServing, Begin, Count,
      Create, Enter, Confirm, BroadcastMap, CopyMembers, NextMember, SendToMember,
      BroadcastDone, RemoveMap, RemoveMember, CheckMap, CheckMember, GetChannel,
      ModeQuery, ModeChange, WhoChannel, WhoMember, WhoDone, CleanUp, Scan,
      ScanChannel, LeaveNext
  <2> QED
    BY <1>0, <2>1
<1>5. map_lock' \subseteq Request \X Request
  <2>1. \/ MapQuiet(c) \/ MapAsked(c) \/ MapDropped(c) \/ MapAgain(c)
    BY MapShape
  <2>2. \/ map_lock' = map_lock
        \/ map_lock' = Enqueue(map_lock, Read(c))
        \/ map_lock' = Enqueue(map_lock, Write(c))
        \/ map_lock' = Release(map_lock, Read(c))
        \/ map_lock' = Release(map_lock, Write(c))
        \/ map_lock' = Withdraw(map_lock, RequestsOf(c))
        \/ map_lock' = Enqueue(Release(map_lock, Read(c)), Read(c))
    BY <2>1 DEF MapQuiet, MapAsked, MapDropped, MapAgain
  <2>3. map_lock \in SUBSET (Request \X Request)
    BY <1>0
  <2>4. Release(map_lock, Read(c)) \in SUBSET (Request \X Request)
    BY <2>3, LockTyped
  <2>5. map_lock' \in SUBSET (Request \X Request)
    BY <1>q, <2>2, <2>3, <2>4, LockTyped
  <2> QED
    BY <2>5
<1>6. lock' \in [Channel -> SUBSET (Request \X Request)]
  <2>1. \/ lock' = lock
        \/ \E m : lock' = [ch \in Channel |-> Withdraw(lock[ch], m)]
        \/ \E h, x : lock' = [lock EXCEPT ![h] = x]
        \/ \E h, i, x, y : lock' = [lock EXCEPT ![h] = x, ![i] = y]
    <3>1. ASSUME NEW h, NEW r, Ask(c, h, r) PROVE \E x : lock' = [lock EXCEPT ![h] = x]
      BY <3>1 DEF Ask
    <3>2. ASSUME NEW r, Drop(c, r) PROVE \E h, x : lock' = [lock EXCEPT ![h] = x]
      BY <3>2 DEF Drop
    <3>3. CASE ScanChannel(c)
      <4>1. \/ Drop(c, Read(c))
            \/ \E h : lock' = [lock EXCEPT ![job[c].chan] = Release(@, Read(c)),
                                           ![h] = Enqueue(@, Read(c))]
        BY <3>3 DEF ScanChannel
      <4> QED
        BY <3>2, <4>1
    <3>4. CASE Enter(c) \/ WhoMember(c)
      BY <3>2, <3>4 DEF Enter, WhoMember, Die
    <3>5. lock' = lock \/ (\E h, r : Ask(c, h, r)) \/ (\E r : Drop(c, r))
            \/ ScanChannel(c) \/ Enter(c) \/ WhoMember(c)
      BY DEF Handled, Progress, Connect, Identify, StopServing, Begin, Count,
        Create, Confirm, BroadcastMap, CopyMembers, NextMember, SendToMember,
        BroadcastDone, RemoveMap, RemoveMember, CheckMap, CheckMember, GetChannel,
        ModeQuery, ModeChange, WhoChannel, WhoDone, CleanUp, Scan, LeaveNext
    <3> QED
      BY <3>1, <3>2, <3>3, <3>4, <3>5
  <2>2. DOMAIN lock' = Channel /\ lock' = [ch \in Channel |-> lock'[ch]]
    <3>1. lock = [ch \in Channel |-> lock[ch]] /\ DOMAIN lock = Channel
      BY <1>0
    <3> QED
      BY <1>0, <2>1, <3>1
  <2>3. ASSUME NEW ch \in Channel PROVE lock'[ch] \in SUBSET (Request \X Request)
    <3>1. lock[ch] \in SUBSET (Request \X Request)
      BY <1>0
    <3> QED
      BY <1>q, <3>1, LockShape, LockTyped
      DEF Keeps, ReadAsked, WriteAsked, ReadDropped, WriteDropped, AllDropped
  <2> QED
    BY <2>2, <2>3
<1>7. mutex' \in [Client -> SUBSET (Request \X Request)]
  <2> DEFINE M == [Client -> SUBSET (Request \X Request)]
  <2>1. ASSUME NEW m \in M, NEW d, NEW r \in Request
        PROVE  /\ [m EXCEPT ![d] = Enqueue(@, r)] \in M
               /\ [m EXCEPT ![d] = Release(@, r)] \in M
               /\ [m EXCEPT ![d] = Enqueue(Release(@, r), r)] \in M
    <3>1. CASE d \in Client
      <4>1. m[d] \in SUBSET (Request \X Request)
        BY <3>1
      <4>2. /\ Enqueue(m[d], r) \in SUBSET (Request \X Request)
            /\ Release(m[d], r) \in SUBSET (Request \X Request)
        BY <4>1, LockTyped
      <4>3. Enqueue(Release(m[d], r), r) \in SUBSET (Request \X Request)
        BY <4>2, LockTyped
      <4> QED
        BY <4>2, <4>3
    <3>2. CASE d \notin Client
      BY <3>2
    <3> QED
      BY <3>1, <3>2
  <2>2. \A m \in M : Requeued(m, c) \in M
    BY <1>q, <2>1 DEF Requeued
  <2>3. Sent(c) \in M
    BY <1>0, <1>q, <2>1 DEF Sent
  <2>4. \A d \in Client : Withdraw(mutex[d], RequestsOf(c)) \in SUBSET (Request \X Request)
    BY <1>0, LockTyped
  <2>5. mutex \in M
    BY <1>0
  <2>6. CASE MutexQuiet(c) \/ MutexRequeue(c) \/ MutexFails(c) \/ MutexSent(c)
    <3>1. \/ mutex' = mutex \/ mutex' = Requeued(mutex, c)
          \/ mutex' = Requeued(Sent(c), c) \/ mutex' = Sent(c)
      BY <2>6 DEF MutexQuiet, MutexRequeue, MutexFails, MutexSent
    <3> HIDE DEF M
    <3>2. mutex' \in M
      BY <2>2, <2>3, <2>5, <3>1
    <3> QED
      BY <3>2 DEF M
  <2>7. CASE MutexConnect(c) \/ MutexAsk(c) \/ MutexLeft(c)
    <3>1. PICK d \in Client, r \in Request :
           \/ mutex' = [mutex EXCEPT ![d] = Enqueue(@, r)]
           \/ mutex' = [mutex EXCEPT ![d] = Release(@, r)]
      BY <1>q, <2>7 DEF MutexConnect, MutexAsk, MutexLeft
    <3>2. /\ [mutex EXCEPT ![d] = Enqueue(@, r)] \in M
          /\ [mutex EXCEPT ![d] = Release(@, r)] \in M
      BY <2>1, <2>5
    <3> QED
      BY <3>1, <3>2
  <2>8. CASE MutexDropped(c)
    BY <2>4, <2>8 DEF MutexDropped
  <2>9. \/ MutexQuiet(c) \/ MutexRequeue(c) \/ MutexConnect(c) \/ MutexAsk(c)
        \/ MutexSent(c) \/ MutexFails(c) \/ MutexLeft(c) \/ MutexDropped(c)
    BY MutexShape
  <2> QED
    BY <2>6, <2>7, <2>8, <2>9
<1> QED
  BY <1>0, <1>1, <1>2, <1>3, <1>4, <1>5, <1>6, <1>7 DEF ChTypeOK

-----------------------------------------------------------------------------
(* The invariant of the locks *)

(* Without connections there are no requests. *)
LEMMA LockInit == Init => LockInv
<1> SUFFICES ASSUME Init PROVE LockInv
  OBVIOUS
<1>1. NoJob \in Job
  BY DEF NoJob, Job
<1>2. ChTypeOK
  BY <1>1 DEF Init, ChTypeOK, Pc
<1>3. Requests({}) = {} /\ Fifo({})
  BY DEF Requests, Fifo
<1>4. ASSUME NEW c \in Client PROVE JobSound(c) /\ MutexKept(c) /\ MapKept(c)
  <2>1. pc[c] = "none" /\ job[c] = NoJob /\ mutex[c] = {} /\ map_lock = {}
        /\ \A d \in Client : pc[d] = "none"
    BY <1>4 DEF Init
  <2>2. NoJob.cmd = "none"
    BY DEF NoJob
  <2> QED
    BY <1>3, <2>1, <2>2 DEF JobSound, MutexKept, MapKept, Idle, Broadcasting, Scanning,
      Live, Holding, MapReaders, MapHolders, ForMap, ForClient, ForChannel
<1>5. ASSUME NEW ch \in Channel PROVE LockKept(ch)
  <2>1. lock[ch] = {} /\ \A d \in Client : pc[d] = "none"
    BY <1>5 DEF Init
  <2> QED
    BY <1>3, <2>1 DEF LockKept, Reads, Writes, ModeHolds
<1> QED
  BY <1>2, <1>3, <1>4, <1>5 DEF LockInv, Init

(* What only writer_alive and frozen can change. *)
LEMMA LockStays ==
  ASSUME LockInv, ChTypeOK',
         UNCHANGED <<pc, job, name, channels, members, map_lock, lock, mutex>>
  PROVE  LockInv'
<1>1. ASSUME NEW c \in Client PROVE (JobSound(c) /\ MutexKept(c) /\ MapKept(c))'
  <2>1. JobSound(c) /\ MutexKept(c) /\ MapKept(c)
    BY DEF LockInv
  <2> QED
    BY <2>1 DEF JobSound, MutexKept, MapKept
<1>2. ASSUME NEW ch \in Channel PROVE LockKept(ch)'
  <2>1. LockKept(ch)
    BY DEF LockInv
  <2> QED
    BY <2>1 DEF LockKept, Reads, Writes, ModeHolds
<1> QED
  BY <1>1, <1>2 DEF LockInv

(* The invariant of the locks is inductive. *)
LEMMA LockNext == LockInv /\ [Next]_vars => LockInv'
<1> SUFFICES ASSUME LockInv, [Next]_vars PROVE LockInv'
  OBVIOUS
<1>t. ChTypeOK /\ \A c \in Client : JobSound(c) /\ MutexKept(c) /\ MapKept(c)
  BY DEF LockInv
<1>l. Fifo(map_lock) /\ \A ch \in Channel : LockKept(ch)
  BY DEF LockInv
<1>1. ASSUME NEW c \in Client, Handled(c), frozen' = frozen PROVE LockInv'
  <2>1. ChTypeOK'
    BY <1>t, <1>l, <1>1, ChannelsTyped
  <2>2. Fifo(map_lock') /\ \A d \in Client : MapKept(d)'
    BY <1>t, <1>l, <1>1, MapStep
  <2>3. \A ch \in Channel : LockKept(ch)'
    BY <1>t, <1>l, <1>1, LockStep
  <2>4. \A d \in Client : MutexKept(d)'
    BY <1>t, <1>1, MutexStep
  <2>5. ASSUME NEW d \in Client PROVE JobSound(d)'
    <3>1. CASE d = c
      BY <1>t, <1>1, <3>1, JobStep
    <3>2. CASE d # c
      <4>1. pc'[d] = pc[d] /\ job'[d] = job[d]
        BY <1>t, <1>1, <3>2, OthersStay
      <4> QED
        BY <1>t, <4>1 DEF JobSound
    <3> QED
      BY <3>1, <3>2
  <2> QED
    BY <2>1, <2>2, <2>3, <2>4, <2>5 DEF LockInv
<1>2. ASSUME NEW c \in Client, WriterFails(c) /\ UNCHANGED frozen PROVE LockInv'
  BY <1>t, <1>2, LockStays DEF WriterFails, ChTypeOK
<1>3. ASSUME NEW c \in Client, TimeoutFires(c) PROVE LockInv'
  BY <1>t, <1>3, LockStays DEF TimeoutFires, ChTypeOK
<1>4. CASE UNCHANGED vars
  BY <1>t, <1>4, LockStays DEF vars, ChTypeOK
<1> QED
  BY <1>1, <1>2, <1>3, <1>4, NextIsStep DEF Step, Polled

(* The variables keep their types. *)
THEOREM ChTypeCorrect == Spec => []ChTypeOK
<1>1. LockInv => ChTypeOK
  BY DEF LockInv
<1> QED
  BY <1>1, LockInit, LockNext, PTL DEF Spec

(* Where a future is decides which locks it has asked for, whatever        *)
(* handlers return, fail, panic or are cleaned up (ChannelLocks).          *)
THEOREM LocksByPlace == Spec => []ChannelLocks
<1>1. LockInv => ChannelLocks
  <2> SUFFICES ASSUME LockInv, NEW c \in Client
               PROVE  /\ Own(c) \in Requests(mutex[c])
                           <=> pc[c] \notin {"none", "gone", "dead"}
                      /\ pc[c] \in ReadPc => Granted(mutex[c], Own(c))
                      /\ Read(c) \in Requests(map_lock) <=> pc[c] \in MapReaders
                      /\ Write(c) \in Requests(map_lock) <=> pc[c] = "create"
                      /\ \A ch \in Channel :
                           /\ Read(c) \in Requests(lock[ch]) <=> Reads(c, ch)
                           /\ Write(c) \in Requests(lock[ch]) <=> Writes(c, ch)
                      /\ \A d \in Client : Send(c) \in Requests(mutex[d])
                           <=> pc[c] \in ForClient /\ job[c].to = d
    BY DEF ChannelLocks, MapReaders, Reads, Writes, ModeHolds
  <2>1. /\ MutexKept(c) /\ MapKept(c) /\ \A ch \in Channel : LockKept(ch)
        /\ \A d \in Client : MutexKept(d)
        /\ pc[c] \in Pc
    BY DEF LockInv, ChTypeOK
  <2>2. pc[c] \in ReadPc => pc[c] \in Holding
    BY DEF Holding, Live, Pc, ReadPc, ForMap, ForChannel, ForClient
  <2>3. pc[c] \in Live <=> pc[c] \notin {"none", "gone", "dead"}
    BY <2>1 DEF Live
  <2> QED
    BY <2>1, <2>2, <2>3 DEF MutexKept, MapKept, LockKept
<1> QED
  BY <1>1, LockInit, LockNext, PTL DEF Spec

-----------------------------------------------------------------------------
(* The invariant of the members *)

(* Only Enter makes c a member, of the channel its JOIN is about.          *)
LEMMA OwnMembership ==
  ASSUME ChTypeOK, NEW c \in Client, Handled(c)
  PROVE  /\ channels \subseteq channels'
         /\ \A ch \in Channel : c \in members'[ch] =>
              c \in members[ch] \/ (pc[c] = "enter" /\ ch = job[c].chan)
<1>0. members \in [Channel -> SUBSET Client]
  BY DEF ChTypeOK
<1>1. \/ UNCHANGED members
      \/ pc[c] = "enter" /\ members' = [members EXCEPT ![job[c].chan] = @ \cup {c}]
      \/ members' = [members EXCEPT ![job[c].chan] = @ \ {c}]
  BY DEF Handled, Progress, Connect, Identify, StopServing, Begin, Count,
      Create, Enter, Confirm, BroadcastMap, CopyMembers, NextMember, SendToMember,
      BroadcastDone, RemoveMap, RemoveMember, CheckMap, CheckMember, GetChannel,
      ModeQuery, ModeChange, WhoChannel, WhoMember, WhoDone, CleanUp, Scan,
      ScanChannel, LeaveNext
<1>2. channels \subseteq channels'
  BY DEF Handled, Progress, Connect, Identify, StopServing, Begin, Count,
      Create, Enter, Confirm, BroadcastMap, CopyMembers, NextMember, SendToMember,
      BroadcastDone, RemoveMap, RemoveMember, CheckMap, CheckMember, GetChannel,
      ModeQuery, ModeChange, WhoChannel, WhoMember, WhoDone, CleanUp, Scan,
      ScanChannel, LeaveNext
<1>3. ASSUME NEW ch \in Channel, c \in members'[ch], c \notin members[ch]
      PROVE  pc[c] = "enter" /\ ch = job[c].chan
  <2>1. CASE members' = [members EXCEPT ![job[c].chan] = @ \cup {c}]
    BY <1>0, <1>1, <1>3, <2>1
  <2>2. CASE members' = [members EXCEPT ![job[c].chan] = @ \ {c}]
    BY <1>0, <1>3, <2>2
  <2> QED
    BY <1>1, <1>3, <2>1, <2>2
<1>4. \A ch \in Channel : c \in members'[ch] =>
        c \in members[ch] \/ (pc[c] = "enter" /\ ch = job[c].chan)
  BY <1>3
<1> QED
  BY <1>2, <1>4

(* A handler that is neither JOIN nor cleanup() belongs to no member.      *)
LEMMA OutsiderStep ==
  ASSUME LockInv, LockInv', NEW c \in Client, Handled(c), MemberSound(c),
         \/ pc[c] = "none"
         \/ pc[c] \in ReadPc /\ job[c].cmd \notin {"JOIN", "QUIT"}
  PROVE  MemberSound(c)'
<1>0. /\ ChTypeOK /\ JobSound(c) /\ pc \in [Client -> Pc] /\ job[c] \in Job
      /\ JobSound(c)' /\ pc'[c] \in Pc
  BY DEF LockInv, ChTypeOK
<1>1. ASSUME NEW ch \in Channel PROVE c \notin members'[ch]
  <2>1. c \notin members[ch]
    BY DEF MemberSound
  <2>2. pc[c] # "enter"
    BY <1>0 DEF JobSound
  <2> QED
    BY <1>0, <2>1, <2>2, OwnMembership
<1>2. /\ pc'[c] \in Broadcasting \cup {"enter", "confirm"} => job'[c].cmd # "JOIN"
      /\ pc'[c] # "enter"
  <2>1. CASE pc[c] \in {"none", "serving"}
    <3>1. ASSUME NEW cmd \in Commands, NEW ch \in Channel, Begin(c, cmd, ch)
          PROVE  pc'[c] \in {"create", "count", "member_map", "get"}
      <4>1. cmd \in {"JOIN", "PART", "PRIVMSG", "WHO", "MODE", "LUSERS"}
        BY ChannelsAssumption
      <4> QED
        BY <1>0, <3>1, <4>1 DEF Begin, MoveTo
    <3>2. CASE Connect(c) \/ Identify(c) \/ StopServing(c)
      BY <1>0, <2>1, <3>2 DEF Connect, Identify, StopServing, Return, MoveTo, Broadcasting
    <3>3. ~Progress(c)
      BY <2>1 DEF Progress, Count,
        Create, Enter, Confirm, BroadcastMap, CopyMembers, NextMember, SendToMember,
        BroadcastDone, RemoveMap, RemoveMember, CheckMap, CheckMember, GetChannel,
        ModeQuery, ModeChange, WhoChannel, WhoMember, WhoDone, CleanUp, Scan,
        ScanChannel, LeaveNext
    <3> QED
      BY <3>1, <3>2, <3>3 DEF Handled, Broadcasting
  <2>2. CASE pc[c] \notin {"none", "serving"}
    <3>1. pc[c] \notin {"none", "serving", "cleaning", "scan_map", "scan_chan", "leave_next"}
      BY <2>2 DEF ReadPc, ForMap, ForChannel, ForClient
    <3>2. job'[c] = NoJob \/ job'[c].cmd = job[c].cmd
      BY <1>0, <3>1, JobMoves
    <3>3. job'[c].cmd # "JOIN"
      BY <2>2, <3>2 DEF NoJob
    <3> QED
      BY <1>0, <3>3 DEF JobSound
  <2> QED
    BY <2>1, <2>2
<1> QED
  BY <1>1, <1>2 DEF MemberSound, Broadcasting

(* A JOIN on its way. *)
LEMMA JoinStep ==
  ASSUME LockInv, LockInv', NEW c \in Client, Handled(c), MemberSound(c),
         job[c].cmd = "JOIN"
  PROVE  MemberSound(c)'
<1>0. /\ ChTypeOK /\ JobSound(c) /\ pc \in [Client -> Pc] /\ job \in [Client -> Job]
      /\ job[c] \in Job /\ pc[c] \in Pc /\ JobSound(c)' /\ pc'[c] \in Pc
      /\ members \in [Channel -> SUBSET Client]
  BY DEF LockInv, ChTypeOK
<1>1. pc[c] \in {"create", "enter", "confirm"} \cup Broadcasting
  BY <1>0 DEF JobSound, Idle, Scanning, Broadcasting, Pc, ReadPc, ForMap, ForChannel,
    ForClient
<1>2. /\ job[c].chan \in Channel
      /\ \A ch \in Channel : c \in members[ch] => ch \in channels
  BY <1>0, <1>1 DEF JobSound, MemberSound, Idle, Broadcasting
<1>3. ASSUME NEW ch \in Channel, c \in members'[ch],
             pc[c] = "enter" => job[c].chan \in channels
      PROVE  ch \in channels'
  BY <1>0, <1>2, <1>3, OwnMembership
<1>4. ASSUME pc'[c] \in {"cleaning", "dead"} PROVE MemberSound(c)'
  <2>1. job'[c].cmd = "none"
    BY <1>0, <1>4 DEF JobSound, Idle
  <2>2. \A ch \in Channel : c \in members'[ch] => ch \in channels'
    BY <1>3 DEF MemberSound
  <2> QED
    BY <1>4, <2>1, <2>2 DEF MemberSound, Leaving, ReadPc, ForMap, ForChannel, ForClient
<1>5. ASSUME job'[c].cmd = "JOIN",
             pc'[c] \in {"create", "enter", "confirm"} \cup Broadcasting,
             pc'[c] = "enter" => job'[c].chan \in channels',
             pc'[c] \in {"confirm", "bc_map", "bc_chan"} => c \in members'[job'[c].chan],
             pc'[c] = "bc_next" => c \in job'[c].todo,
             pc'[c] = "bc_send" => c \in job'[c].todo \cup {job'[c].to}
      PROVE  MemberSound(c)'
  <2>1. \A ch \in Channel : c \in members'[ch] => ch \in channels'
    BY <1>3 DEF MemberSound
  <2> QED
    BY <1>5, <2>1 DEF MemberSound, Broadcasting
<1>t. ASSUME NEW p, MoveTo(c, p) PROVE pc'[c] = p
  BY <1>0, <1>t DEF MoveTo
<1> USE DEF Broadcasting
<1>6. CASE Create(c)
  BY <1>t, <1>5, <1>6 DEF Create
<1>7. CASE Enter(c)
  <2>1. CASE Die(c)
    BY <1>t, <1>4, <2>1 DEF Die
  <2>2. CASE MoveTo(c, "confirm") /\ job' = job
    <3>1. c \in members'[job[c].chan]
      BY <1>0, <1>2, <1>7 DEF Enter
    <3> QED
      BY <1>t, <1>5, <2>2, <3>1
  <2> QED
    BY <1>7, <2>1, <2>2 DEF Enter
<1>8. CASE Confirm(c)
  <2>1. CASE AskMap(c, "bc_map") /\ job' = job
    <3>1. c \in members'[job[c].chan]
      BY <1>8 DEF Confirm, MemberSound
    <3> QED
      BY <1>t, <1>5, <2>1, <3>1 DEF AskMap
  <2>2. CASE Return(c, mutex, FALSE)
    BY <1>t, <1>4, <2>2 DEF Return
  <2> QED
    BY <1>8, <2>1, <2>2 DEF Confirm
<1>9. CASE BroadcastMap(c)
  <2>1. c \in members'[job[c].chan]
    BY <1>9 DEF BroadcastMap, MemberSound
  <2> QED
    BY <1>t, <1>5, <1>9, <2>1 DEF BroadcastMap
<1>10. CASE CopyMembers(c)
  <2> DEFINE j == [job[c] EXCEPT !.todo = members[job[c].chan]]
  <2>1. job' = [job EXCEPT ![c].todo = members[job[c].chan]] /\ pc'[c] = "bc_next"
    BY <1>t, <1>10 DEF CopyMembers
  <2>2. job'[c].cmd = "JOIN" /\ job'[c].todo = members[job[c].chan]
    BY <1>0, <2>1 DEF Job
  <2>3. c \in members[job[c].chan]
    BY <1>10 DEF CopyMembers, MemberSound
  <2> QED
    BY <1>5, <2>1, <2>2, <2>3
<1>11. CASE NextMember(c)
  <2>1. pc[c] = "bc_next"
    BY <1>1, <1>11 DEF NextMember
  <2>b. c \in job[c].todo
    BY <2>1 DEF MemberSound
  <2> PICK d \in job[c].todo :
         \/ /\ Found(d)
            /\ job' = [job EXCEPT ![c].to = d, ![c].todo = @ \ {d}]
            /\ MoveTo(c, "bc_send")
         \/ /\ ~Found(d)
            /\ job' = [job EXCEPT ![c].todo = @ \ {d}]
            /\ UNCHANGED pc
    BY <1>11, <2>1 DEF NextMember
  <2>2. CASE job' = [job EXCEPT ![c].to = d, ![c].todo = @ \ {d}] /\ MoveTo(c, "bc_send")
    <3>1. /\ job'[c].cmd = "JOIN" /\ job'[c].to = d
          /\ job'[c].todo = job[c].todo \ {d} /\ pc'[c] = "bc_send"
      BY <1>0, <1>t, <2>2 DEF Job
    <3> QED
      BY <1>5, <2>b, <3>1
  <2>3. CASE ~Found(d) /\ job' = [job EXCEPT ![c].todo = @ \ {d}] /\ UNCHANGED pc
    <3>1. /\ job'[c].cmd = "JOIN" /\ job'[c].todo = job[c].todo \ {d}
          /\ pc'[c] = "bc_next"
      BY <1>0, <2>1, <2>3 DEF Job
    <3>2. d # c
      BY <2>1, <2>3 DEF Found
    <3> QED
      BY <1>5, <2>b, <3>1, <3>2
  <2> QED
    BY <2>2, <2>3
<1>12. CASE SendToMember(c)
  <2>1. pc[c] = "bc_send" /\ HasClient(c)
    BY <1>12 DEF SendToMember
  <2>2. job[c].to # c
    <3> SUFFICES ASSUME job[c].to = c PROVE FALSE
      OBVIOUS
    <3>1. MutexKept(c)
      BY DEF LockInv
    <3>2. Granted(mutex[c], Own(c)) /\ Fifo(mutex[c])
      BY <2>1, <3>1 DEF MutexKept, Holding, Live, Pc, ReadPc, ForClient
    <3>3. Granted(mutex[c], Send(c))
      BY <2>1 DEF HasClient
    <3> QED
      BY <3>2, <3>3, OneHolder, RequestsDiffer
  <2>3. c \in job[c].todo
    BY <2>1, <2>2 DEF MemberSound
  <2>4. job'[c].cmd = "JOIN" /\ job'[c].todo = job[c].todo /\ pc'[c] = "bc_next"
    BY <1>0, <1>t, <1>12 DEF SendToMember, Job
  <2> QED
    BY <1>5, <2>3, <2>4
<1> QED
  BY <1>1, <1>6, <1>7, <1>8, <1>9, <1>10, <1>11, <1>12
  DEF Handled, Progress, Connect, Identify, StopServing, Begin, Count, BroadcastDone,
    RemoveMap, RemoveMember, CheckMap, CheckMember, GetChannel, ModeQuery, ModeChange,
    WhoChannel, WhoMember, WhoDone, CleanUp, Scan, ScanChannel, LeaveNext

(* cleanup() on its way. *)
LEMMA QuitStep ==
  ASSUME LockInv, LockInv', NEW c \in Client, Handled(c), MemberSound(c),
         job[c].cmd = "QUIT"
  PROVE  MemberSound(c)'
<1>0. /\ ChTypeOK /\ JobSound(c) /\ pc \in [Client -> Pc] /\ job \in [Client -> Job]
      /\ job[c] \in Job /\ pc[c] \in Pc /\ members \in [Channel -> SUBSET Client]
  BY DEF LockInv, ChTypeOK
<1>1. pc[c] \in Scanning \cup Leaving
  BY <1>0 DEF JobSound, Idle, Scanning, Leaving, Broadcasting, Pc, ReadPc, ForMap,
    ForChannel, ForClient
<1>2. \A ch \in Channel : c \in members'[ch] => c \in members[ch] /\ ch \in channels'
  <2>1. pc[c] # "enter"
    BY <1>1 DEF Scanning, Leaving, Broadcasting
  <2> QED
    BY <1>0, <2>1, OwnMembership DEF MemberSound
<1>3. ASSUME job'[c].cmd = "QUIT", pc'[c] \in Scanning \cup Leaving,
             pc'[c] = "scan_chan" => \A ch \in Channel :
               c \in members'[ch] =>
                 ch \in job'[c].scan \cup job'[c].found \cup {job'[c].chan},
             pc'[c] = "leave_next" => \A ch \in Channel :
               c \in members'[ch] => ch \in job'[c].found,
             pc'[c] \in Leaving => \A ch \in Channel :
               c \in members'[ch] => ch \in job'[c].found \cup {job'[c].chan}
      PROVE  MemberSound(c)'
  BY <1>2, <1>3 DEF MemberSound, Scanning, Leaving, Broadcasting
<1> USE DEF Broadcasting, Scanning, Leaving
(* The steps that leave the channels to do as they are. *)
<1>4. ASSUME pc[c] \in Leaving, pc'[c] \in Leaving,
             /\ job'[c].cmd = job[c].cmd /\ job'[c].chan = job[c].chan
             /\ job'[c].found = job[c].found
      PROVE  MemberSound(c)'
  <2>1. \A ch \in Channel : c \in members'[ch] => ch \in job'[c].found \cup {job'[c].chan}
    BY <1>2, <1>4 DEF MemberSound
  <2> QED
    BY <1>3, <1>4, <2>1
<1>t. ASSUME NEW p, MoveTo(c, p) PROVE pc'[c] = p
  BY <1>0, <1>t DEF MoveTo
<1>5. CASE BroadcastMap(c) \/ RemoveMap(c) \/ BroadcastDone(c)
  BY <1>t, <1>4, <1>5 DEF BroadcastMap, RemoveMap, BroadcastDone, AskMap
<1>6. CASE CopyMembers(c)
  <2>1. \E todo : job' = [job EXCEPT ![c].todo = todo]
    BY <1>6 DEF CopyMembers
  <2>2. /\ job'[c].cmd = job[c].cmd /\ job'[c].chan = job[c].chan
        /\ job'[c].found = job[c].found
    BY <1>0, <2>1 DEF Job
  <2> QED
    BY <1>t, <1>4, <1>6, <2>2 DEF CopyMembers
<1>7. CASE NextMember(c)
  <2>1. pc[c] = "bc_next"
    BY <1>1, <1>7 DEF NextMember
  <2>2. \E d \in job[c].todo :
         \/ /\ job' = [job EXCEPT ![c].to = d, ![c].todo = @ \ {d}]
            /\ MoveTo(c, "bc_send")
         \/ /\ job' = [job EXCEPT ![c].todo = @ \ {d}]
            /\ UNCHANGED pc
    BY <1>7, <2>1 DEF NextMember
  <2>3. /\ job'[c].cmd = job[c].cmd /\ job'[c].chan = job[c].chan
        /\ job'[c].found = job[c].found
    BY <1>0, <2>2 DEF Job
  <2> QED
    BY <1>t, <1>4, <2>1, <2>2, <2>3
<1>8. CASE SendToMember(c)
  <2>1. /\ job'[c].cmd = job[c].cmd /\ job'[c].chan = job[c].chan
        /\ job'[c].found = job[c].found
    BY <1>0, <1>8 DEF SendToMember, Job
  <2> QED
    BY <1>t, <1>4, <1>8, <2>1 DEF SendToMember
<1>9. CASE RemoveMember(c)
  <2>1. /\ job' = job /\ pc[c] = "remove_chan" /\ pc'[c] = "leave_next"
        /\ members' = [members EXCEPT ![job[c].chan] = @ \ {c}]
    BY <1>t, <1>9 DEF RemoveMember
  <2>2. ASSUME NEW ch \in Channel, c \in members'[ch] PROVE ch \in job'[c].found
    <3>1. ch \in job[c].found \cup {job[c].chan}
      BY <1>2, <2>1, <2>2 DEF MemberSound
    <3>2. ch # job[c].chan
      BY <1>0, <2>1, <2>2
    <3> QED
      BY <2>1, <3>1, <3>2
  <2> QED
    BY <1>3, <2>1, <2>2
<1>10. CASE Scan(c)
  <2>1. CASE channels = {} /\ MoveTo(c, "leave_next") /\ UNCHANGED job
    <3>1. \A ch \in Channel : c \notin members'[ch]
      BY <1>2, <2>1 DEF MemberSound
    <3> QED
      BY <1>t, <1>3, <2>1, <3>1
  <2>2. ASSUME NEW h \in channels, MoveTo(c, "scan_chan"),
               job' = [job EXCEPT ![c].chan = h, ![c].scan = channels \ {h}]
        PROVE  MemberSound(c)'
    <3>1. /\ job'[c].cmd = job[c].cmd /\ job'[c].chan = h
          /\ job'[c].scan = channels \ {h}
      BY <1>0, <2>2 DEF Job
    <3>2. \A ch \in Channel : c \in members'[ch] => ch \in job'[c].scan \cup {job'[c].chan}
      BY <1>2, <3>1 DEF MemberSound
    <3> QED
      BY <1>t, <1>3, <2>2, <3>1, <3>2
  <2> QED
    BY <1>10, <2>1, <2>2 DEF Scan
<1>11. CASE ScanChannel(c)
  <2> DEFINE here == {ch \in {job[c].chan} : c \in members[ch]}
  <2>1. /\ pc[c] = "scan_chan" /\ members' = members
        /\ \A ch \in Channel : c \in members[ch] =>
             ch \in job[c].scan \cup job[c].found \cup {job[c].chan}
    BY <1>11 DEF ScanChannel, MemberSound
  <2>2. \A ch \in Channel : c \in members[ch] =>
             ch \in job[c].scan \cup (job[c].found \cup here)
    BY <2>1
  <2> HIDE DEF here
  <2>3. CASE /\ job[c].scan = {}
             /\ job' = [job EXCEPT ![c].found = @ \cup here]
             /\ MoveTo(c, "leave_next")
    <3>1. job'[c].cmd = "QUIT" /\ job'[c].found = job[c].found \cup here
      BY <1>0, <2>3 DEF Job
    <3> QED
      BY <1>t, <1>3, <2>1, <2>2, <2>3, <3>1
  <2>4. ASSUME NEW h \in job[c].scan, UNCHANGED pc,
               job' = [job EXCEPT ![c].chan = h, ![c].scan = @ \ {h},
                                  ![c].found = @ \cup here]
        PROVE  MemberSound(c)'
    <3>1. /\ job'[c].cmd = "QUIT" /\ job'[c].found = job[c].found \cup here
          /\ job'[c].scan = job[c].scan \ {h} /\ job'[c].chan = h
      BY <1>0, <2>4 DEF Job
    <3> QED
      BY <1>3, <2>1, <2>2, <2>4, <3>1
  <2> QED
    BY <1>11, <2>3, <2>4 DEF ScanChannel, here
<1>12. CASE LeaveNext(c)
  <2>1. /\ pc[c] = "leave_next" /\ members' = members /\ name' = name
        /\ \A ch \in Channel : c \in members[ch] => ch \in job[c].found
    BY <1>12 DEF LeaveNext, MemberSound
  <2>2. CASE job[c].found = {} /\ job' = [job EXCEPT ![c] = NoJob] /\ MoveTo(c, "gone")
    <3>1. \A ch \in Channel : c \notin members'[ch]
      BY <2>1, <2>2
    <3>2. pc'[c] = "gone" /\ job'[c].cmd = "none"
      BY <1>0, <1>t, <2>2 DEF NoJob
    <3> QED
      BY <3>1, <3>2 DEF MemberSound
  <2>3. ASSUME NEW h \in job[c].found, MoveTo(c, "bc_map"),
               job' = [job EXCEPT ![c].chan = h, ![c].found = @ \ {h}]
        PROVE  MemberSound(c)'
    <3>1. /\ job'[c].cmd = "QUIT" /\ job'[c].chan = h
          /\ job'[c].found = job[c].found \ {h}
      BY <1>0, <2>3 DEF Job
    <3> QED
      BY <1>t, <1>3, <2>1, <2>3, <3>1
  <2> QED
    BY <1>12, <2>2, <2>3 DEF LeaveNext, AskMap
<1> QED
  BY <1>1, <1>5, <1>6, <1>7, <1>8, <1>9, <1>10, <1>11, <1>12
  DEF Handled, Progress, Connect, Identify, StopServing, Begin, Count, Create, Enter,
    Confirm, CheckMap, CheckMember, GetChannel, ModeQuery, ModeChange,
    WhoChannel, WhoMember, WhoDone, CleanUp

(* cleanup() begins. *)
LEMMA CleaningStep ==
  ASSUME LockInv, NEW c \in Client, Handled(c), MemberSound(c),
         pc[c] \in {"cleaning", "gone", "dead"}
  PROVE  MemberSound(c)'
<1>0. /\ JobSound(c) /\ pc \in [Client -> Pc] /\ job \in [Client -> Job]
      /\ job[c] \in Job
  BY DEF LockInv, ChTypeOK
<1>1. CleanUp(c)
  BY DEF Handled, Progress, Connect, Identify, StopServing, Begin, Count,
      Create, Enter, Confirm, BroadcastMap, CopyMembers, NextMember, SendToMember,
      BroadcastDone, RemoveMap, RemoveMember, CheckMap, CheckMember, GetChannel,
      ModeQuery, ModeChange, WhoChannel, WhoMember, WhoDone, Scan,
      ScanChannel, LeaveNext
<1>2. members' = members /\ channels' = channels /\ name' = name /\ job[c].cmd = "none"
  BY <1>0, <1>1 DEF CleanUp, JobSound, Idle
<1>3. CASE name[c] = "new" /\ MoveTo(c, "gone") /\ UNCHANGED job
  <2>1. pc'[c] = "gone"
    BY <1>0, <1>3 DEF MoveTo
  <2> QED
    BY <1>2, <1>3, <2>1
    DEF MemberSound, Leaving, Broadcasting, ReadPc, ForMap, ForChannel, ForClient
<1>4. CASE job' = [job EXCEPT ![c].cmd = "QUIT"] /\ AskMap(c, "scan_map")
  <2>1. pc'[c] = "scan_map" /\ job'[c].cmd = "QUIT"
    BY <1>0, <1>4 DEF AskMap, MoveTo, Job
  <2> QED
    BY <1>2, <2>1 DEF MemberSound, Leaving, Broadcasting
<1> QED
  BY <1>1, <1>3, <1>4 DEF CleanUp

(* Without connections there are no members. *)
LEMMA MemberInit == Init => MemberInv
BY LockInit DEF MemberInv, MemberSound, Init, NoJob, Leaving, Broadcasting

(* A client whose future and memberships stay is where it can be. *)
LEMMA MemberStays ==
  ASSUME NEW c \in Client, JobSound(c), MemberSound(c), pc'[c] = pc[c], job'[c] = job[c],
         name'[c] = name[c], channels \subseteq channels',
         \A ch \in Channel : c \in members'[ch] <=> c \in members[ch]
  PROVE  MemberSound(c)'
<1>1. \A ch \in Channel : ch \in channels => ch \in channels'
  OBVIOUS
<1>2. job[c].cmd = "JOIN" /\ pc[c] \in {"confirm", "bc_map", "bc_chan"} =>
        c \in members'[job[c].chan]
  BY DEF MemberSound, JobSound, Idle
<1> QED
  BY <1>1, <1>2 DEF MemberSound

(* The invariant of the members is inductive. *)
LEMMA MemberNext == MemberInv /\ [Next]_vars => MemberInv'
<1> SUFFICES ASSUME MemberInv, [Next]_vars PROVE MemberInv'
  OBVIOUS
<1>1. LockInv /\ LockInv' /\ ChTypeOK
  BY LockNext DEF MemberInv, LockInv
<1>2. ASSUME NEW c \in Client, Handled(c), frozen' = frozen, NEW d \in Client
      PROVE  MemberSound(d)'
  <2>0. JobSound(c) /\ JobSound(d) /\ pc[c] \in Pc /\ MemberSound(c) /\ MemberSound(d)
    BY <1>1 DEF LockInv, ChTypeOK, MemberInv
  <2>1. CASE d = c
    <3>1. \/ pc[c] = "none"
          \/ pc[c] \in {"cleaning", "gone", "dead"}
          \/ job[c].cmd \in {"JOIN", "QUIT"}
          \/ pc[c] \in ReadPc /\ job[c].cmd \notin {"JOIN", "QUIT"}
      BY <2>0 DEF Pc, JobSound, Scanning
    <3> QED
      BY <1>1, <1>2, <2>0, <2>1, <3>1, OutsiderStep, JoinStep, QuitStep, CleaningStep
  <2>2. CASE d # c
    <3>1. channels \subseteq channels'
      BY <1>1, <1>2, OwnMembership
    <3> QED
      BY <1>1, <1>2, <2>0, <2>2, <3>1, OthersStay, MemberStays
  <2> QED
    BY <2>1, <2>2
<1>3. ASSUME UNCHANGED <<pc, job, name, channels, members>>, NEW d \in Client
      PROVE  MemberSound(d)'
  BY <1>3 DEF MemberInv, MemberSound
<1>4. \/ \E c \in Client : Handled(c) /\ frozen' = frozen
      \/ UNCHANGED <<pc, job, name, channels, members>>
  BY NextIsStep DEF Step, Polled, WriterFails, TimeoutFires, vars
<1> QED
  BY <1>1, <1>2, <1>3, <1>4 DEF MemberInv

(* Whatever the order of the ids, a JOIN comes to the one who joins        *)
(* (JoinComesToItself).                                                    *)
THEOREM JoinReachesItself == Spec => []JoinComesToItself
<1>1. MemberInv => JoinComesToItself
  BY DEF MemberInv, MemberSound, JoinComesToItself
<1> QED
  BY <1>1, MemberInit, MemberNext, PTL DEF Spec

(* No client that reads commands is in a channel (NoMemberServed).         *)
THEOREM MembersNotServed == Spec => []NoMemberServed
<1>1. MemberInv => NoMemberServed
  BY DEF MemberInv, MemberSound, NoMemberServed
<1> QED
  BY <1>1, MemberInit, MemberNext, PTL DEF Spec

(* A client that had a nickname leaves no membership behind (CleanedUp).   *)
THEOREM MembersRemoved == Spec => []CleanedUp
<1>1. MemberInv => CleanedUp
  BY DEF MemberInv, MemberSound, CleanedUp
<1> QED
  BY <1>1, MemberInit, MemberNext, PTL DEF Spec

-----------------------------------------------------------------------------
(* What a MODE that broadcasts excludes *)

(* No channel is created, and the members of the channel stay, while the   *)
(* broadcast of a MODE waits for the channel (FrozenByMode).               *)
THEOREM ModeFreezes == Spec => FrozenByMode
<1>1. LockInv /\ [Next]_vars =>
        [\A c \in Client : pc[c] = "bc_chan" /\ job[c].cmd = "MODE" =>
           channels' = channels /\ members'[job[c].chan] = members[job[c].chan]]_vars
  <2> SUFFICES ASSUME LockInv, Next, NEW c \in Client,
                      pc[c] = "bc_chan", job[c].cmd = "MODE"
               PROVE  channels' = channels /\ members'[job[c].chan] = members[job[c].chan]
    OBVIOUS
  <2>1. /\ Fifo(map_lock) /\ GrantedShared(map_lock, Read(c), Shared)
        /\ job[c].chan \in Channel
        /\ members \in [Channel -> SUBSET Client]
    BY DEF LockInv, MapKept, MapHolders, JobSound, Idle, ChTypeOK
  <2>2. Fifo(lock[job[c].chan]) /\ Granted(lock[job[c].chan], Write(c))
    BY <2>1 DEF LockInv, LockKept, ModeHolds
  <2>3. ASSUME NEW d \in Client, Granted(map_lock, Write(d)) PROVE FALSE
    BY <2>1, <2>3, WriterExcludes
  <2>4. ASSUME NEW d \in Client, HasWrite(d), job[d].chan = job[c].chan PROVE d = c
    BY <2>2, <2>4, OneHolder, RequestsDiffer DEF HasWrite
  <2>5. PICK d \in Client : \/ UNCHANGED <<channels, members>>
                            \/ Create(d)
                            \/ UNCHANGED channels /\ (Enter(d) \/ RemoveMember(d))
    <3>1. PICK d \in Client : Step(d)
      BY NextIsStep
    <3> QED
      BY <3>1 DEF Step, WriterFails, TimeoutFires,
        Handled, Progress, Connect, Identify, StopServing, Begin, Count,
        Enter, Confirm, BroadcastMap, CopyMembers, NextMember, SendToMember,
        BroadcastDone, RemoveMap, RemoveMember, CheckMap, CheckMember, GetChannel,
        ModeQuery, ModeChange, WhoChannel, WhoMember, WhoDone, CleanUp, Scan,
        ScanChannel, LeaveNext
  <2>6. CASE Create(d)
    BY <2>3, <2>6 DEF Create
  <2>7. CASE UNCHANGED channels /\ (Enter(d) \/ RemoveMember(d))
    <3>1. HasWrite(d) /\ d # c
      BY <2>7 DEF Enter, RemoveMember
    <3>2. job[d].chan # job[c].chan
      BY <2>4, <3>1
    <3>3. \/ members' = [members EXCEPT ![job[d].chan] = @ \cup {d}]
          \/ members' = [members EXCEPT ![job[d].chan] = @ \ {d}]
      BY <2>7 DEF Enter, RemoveMember
    <3> QED
      BY <2>1, <2>7, <3>2, <3>3
  <2> QED
    BY <2>5, <2>6, <2>7
<1> QED
  BY <1>1, LockInit, LockNext, PTL DEF Spec, FrozenByMode

-----------------------------------------------------------------------------
(* Futures that stop for good *)

(* A future that waits behind a request does not have its lock. *)
LEMMA BehindNotGranted ==
  ASSUME NEW c \in Client, NEW d, NEW r, NEW l, Behind(c, r, l, d)
  PROVE  /\ r \notin Shared => ~Granted(l, r)
         /\ r \in Shared => ~GrantedShared(l, r, Shared)
         /\ ~Granted(l, r)
<1>1. PICK q \in RequestsOf(d) : <<q, r>> \in l /\ q # r /\ {q, r} \cap Shared # {q, r}
  BY DEF Behind
<1>2. <<q, r>>[1] = q /\ <<q, r>>[2] = r
  OBVIOUS
<1> QED
  BY <1>1, <1>2 DEF Granted, GrantedShared

(* A future that waits for another takes no step. *)
LEMMA WaitingStays ==
  ASSUME LockInv, NEW c \in Client, NEW d, WaitsFor(c, d)
  PROVE  ~Handled(c)
<1> SUFFICES ASSUME Handled(c) PROVE FALSE
  OBVIOUS
<1>0. MapKept(c) /\ Read(c) \in Shared
  BY DEF LockInv, Shared
<1> USE DEF ForMap, ForChannel, ForClient, MapReaders
<1>1. ASSUME NEW r \in {Read(c), Write(c)}, pc[c] \in ForMap \cup {"scan_map"},
             r \in Requests(map_lock), Behind(c, r, map_lock, d)
      PROVE  FALSE
  <2>1. CASE pc[c] = "create"
    <3>1. Granted(map_lock, Write(c))
      BY <2>1 DEF Handled, Progress, Connect, Identify, StopServing, Begin, Count,
        Create, Enter, Confirm, BroadcastMap, CopyMembers, NextMember, SendToMember,
        BroadcastDone, RemoveMap, RemoveMember, CheckMap, CheckMember, GetChannel,
        ModeQuery, ModeChange, WhoChannel, WhoMember, WhoDone, CleanUp, Scan,
        ScanChannel, LeaveNext
    <3>2. r = Write(c)
      BY <1>0, <1>1, <2>1 DEF MapKept
    <3> QED
      BY <1>1, <3>1, <3>2, BehindNotGranted
  <2>2. CASE pc[c] # "create"
    <3>1. GrantedShared(map_lock, Read(c), Shared)
      BY <1>1, <2>2 DEF Handled, Progress, Connect, Identify, StopServing, Begin, Count,
        Create, Enter, Confirm, BroadcastMap, CopyMembers, NextMember, SendToMember,
        BroadcastDone, RemoveMap, RemoveMember, CheckMap, CheckMember, GetChannel,
        ModeQuery, ModeChange, WhoChannel, WhoMember, WhoDone, CleanUp, Scan,
        ScanChannel, LeaveNext, HasMap
    <3>2. r = Read(c)
      BY <1>0, <1>1, <2>2 DEF MapKept
    <3> QED
      BY <1>0, <1>1, <3>1, <3>2, BehindNotGranted
  <2> QED
    BY <2>1, <2>2
<1>2. ASSUME pc[c] \in {"enter", "remove_chan", "mode_write"},
             Behind(c, Write(c), lock[job[c].chan], d)
      PROVE  FALSE
  <2>1. HasWrite(c)
    BY <1>2 DEF Handled, Progress, Connect, Identify, StopServing, Begin, Count,
      Create, Enter, Confirm, BroadcastMap, CopyMembers, NextMember, SendToMember,
      BroadcastDone, RemoveMap, RemoveMember, CheckMap, CheckMember, GetChannel,
      ModeQuery, ModeChange, WhoChannel, WhoMember, WhoDone, CleanUp, Scan,
      ScanChannel, LeaveNext
  <2> QED
    BY <1>2, <2>1, BehindNotGranted DEF HasWrite
<1>3. ASSUME pc[c] \in (ForChannel \ {"enter", "remove_chan", "mode_write"})
                       \cup {"scan_chan"},
             Behind(c, Read(c), lock[job[c].chan], d)
      PROVE  FALSE
  <2>1. HasRead(c)
    BY <1>3 DEF Handled, Progress, Connect, Identify, StopServing, Begin, Count,
      Create, Enter, Confirm, BroadcastMap, CopyMembers, NextMember, SendToMember,
      BroadcastDone, RemoveMap, RemoveMember, CheckMap, CheckMember, GetChannel,
      ModeQuery, ModeChange, WhoChannel, WhoMember, WhoDone, CleanUp, Scan,
      ScanChannel, LeaveNext
  <2> QED
    BY <1>0, <1>3, <2>1, BehindNotGranted DEF HasRead
<1>4. ASSUME pc[c] \in ForClient, Behind(c, Send(c), mutex[job[c].to], d)
      PROVE  FALSE
  <2>1. HasClient(c)
    BY <1>4 DEF Handled, Progress, Connect, Identify, StopServing, Begin, Count,
      Create, Enter, Confirm, BroadcastMap, CopyMembers, NextMember, SendToMember,
      BroadcastDone, RemoveMap, RemoveMember, CheckMap, CheckMember, GetChannel,
      ModeQuery, ModeChange, WhoChannel, WhoMember, WhoDone, CleanUp, Scan,
      ScanChannel, LeaveNext
  <2> QED
    BY <1>4, <2>1, BehindNotGranted DEF HasClient
<1>5. ASSUME pc[c] = "cleaning", Behind(c, Own(c), mutex[c], d)
      PROVE  FALSE
  <2>1. Granted(mutex[c], Own(c))
    BY <1>5 DEF Handled, Progress, Connect, Identify, StopServing, Begin, Count,
      Create, Enter, Confirm, BroadcastMap, CopyMembers, NextMember, SendToMember,
      BroadcastDone, RemoveMap, RemoveMember, CheckMap, CheckMember, GetChannel,
      ModeQuery, ModeChange, WhoChannel, WhoMember, WhoDone, CleanUp, Scan,
      ScanChannel, LeaveNext
  <2> QED
    BY <1>5, <2>1, BehindNotGranted
<1>6. pc[c] \in ForChannel \cup {"scan_chan"} =>
        \/ pc[c] \in {"enter", "remove_chan", "mode_write"}
        \/ pc[c] \in (ForChannel \ {"enter", "remove_chan", "mode_write"})
                     \cup {"scan_chan"}
  OBVIOUS
<1> QED
  BY <1>1, <1>2, <1>3, <1>4, <1>5, <1>6 DEF WaitsFor

(* The requests of the others in a mutex keep their order. *)
LEMMA MutexSame ==
  ASSUME LockInv, NEW e \in Client, Handled(e), NEW x \in Client
  PROVE  SameForOthers(mutex[x], mutex'[x], e)
<1>0. /\ ChTypeOK /\ JobSound(e) /\ DOMAIN mutex = Client
      /\ Fifo(mutex[x])
  BY DEF LockInv, ChTypeOK, MutexKept
<1>r. Own(e) \in RequestsOf(e) /\ Send(e) \in RequestsOf(e)
  BY DEF RequestsOf
<1>1. SameForOthers(mutex[x], mutex[x], e)
  BY DEF SameForOthers
<1>2. ASSUME NEW l, Fifo(l)
      PROVE  SameForOthers(l, Enqueue(Release(l, Own(e)), Own(e)), e)
  <2>1. SameForOthers(l, Release(l, Own(e)), e)
    BY <1>r, <1>2, ReleaseSame
  <2>2. SameForOthers(Release(l, Own(e)), Enqueue(Release(l, Own(e)), Own(e)), e)
    BY <1>r, EnqueueSame
  <2> QED
    BY <2>1, <2>2, SameTwice
<1>3. Sent(e)[x] = mutex[x] \/ Sent(e)[x] = Release(mutex[x], Send(e))
  BY <1>0 DEF Sent
<1>4. Fifo(Sent(e)[x]) /\ SameForOthers(mutex[x], Sent(e)[x], e)
  <2>1. /\ Fifo(Release(mutex[x], Send(e)))
        /\ SameForOthers(mutex[x], Release(mutex[x], Send(e)), e)
    BY <1>0, <1>r, LockOps, ReleaseSame
  <2> QED
    BY <1>0, <1>1, <1>3, <2>1
<1>5. DOMAIN Sent(e) = Client
  BY <1>0 DEF Sent
<1>6. CASE MutexQuiet(e) \/ MutexSent(e)
  BY <1>1, <1>4, <1>6 DEF MutexQuiet, MutexSent
<1>7. CASE MutexRequeue(e) \/ MutexFails(e)
  <2>1. PICK m \in {mutex, Sent(e)} : mutex' = Requeued(m, e)
    BY <1>7 DEF MutexRequeue, MutexFails
  <2>2. /\ DOMAIN m = Client /\ Fifo(m[x]) /\ SameForOthers(mutex[x], m[x], e)
    BY <1>0, <1>1, <1>4, <1>5
  <2>3. \/ mutex'[x] = m[x]
        \/ mutex'[x] = Enqueue(Release(m[x], Own(e)), Own(e))
    BY <2>1, <2>2 DEF Requeued
  <2> QED
    BY <1>2, <2>2, <2>3, SameTwice
<1>8. CASE MutexConnect(e) \/ MutexAsk(e) \/ MutexLeft(e)
  <2>1. PICK r \in {Own(e), Send(e)} : \/ mutex'[x] = mutex[x]
                                       \/ mutex'[x] = Enqueue(mutex[x], r)
                                       \/ mutex'[x] = Release(mutex[x], r)
    BY <1>0, <1>8 DEF MutexConnect, MutexAsk, MutexLeft
  <2> QED
    BY <1>0, <1>1, <1>r, <2>1, EnqueueSame, ReleaseSame
<1>9. CASE MutexDropped(e)
  BY <1>0, <1>9, WithdrawSame DEF MutexDropped
<1>10. \/ MutexQuiet(e) \/ MutexRequeue(e) \/ MutexConnect(e) \/ MutexAsk(e)
       \/ MutexSent(e) \/ MutexFails(e) \/ MutexLeft(e) \/ MutexDropped(e)
  BY <1>0, MutexShape
<1> QED
  BY <1>6, <1>7, <1>8, <1>9, <1>10

(* What c waits for behind d, it waits for until one of the two takes a    *)
(* step.                                                                   *)
LEMMA WaitingOn ==
  ASSUME LockInv, NEW c \in Client, NEW d \in Client, WaitsFor(c, d),
         NEW e \in Client, Handled(e), e # c, e # d
  PROVE  WaitsFor(c, d)'
<1>0. /\ ChTypeOK /\ JobSound(e) /\ JobSound(c) /\ Fifo(map_lock)
      /\ (\A x \in Client : MapKept(x)) /\ (\A h \in Channel : LockKept(h))
  BY DEF LockInv
<1>1. pc'[c] = pc[c] /\ job'[c] = job[c]
  BY <1>0, OthersStay
<1>2. /\ \A q \in RequestsOf(d) : q \notin RequestsOf(e)
      /\ \A r \in {Own(c), Send(c), Write(c), Read(c)} : r \notin RequestsOf(e)
  <2>1. /\ Own(d) \notin RequestsOf(e) /\ Send(d) \notin RequestsOf(e)
        /\ Write(d) \notin RequestsOf(e) /\ Read(d) \notin RequestsOf(e)
    BY RequestsDiffer
  <2>2. /\ Own(c) \notin RequestsOf(e) /\ Send(c) \notin RequestsOf(e)
        /\ Write(c) \notin RequestsOf(e) /\ Read(c) \notin RequestsOf(e)
    BY RequestsDiffer
  <2>3. RequestsOf(d) = {Own(d), Send(d), Write(d), Read(d)}
    BY DEF RequestsOf
  <2> QED
    BY <2>1, <2>2, <2>3
<1>3. ASSUME NEW l, NEW m, SameForOthers(l, m, e),
             NEW r \in {Own(c), Send(c), Write(c), Read(c)}
      PROVE  /\ Behind(c, r, l, d) => Behind(c, r, m, d)
             /\ r \in Requests(l) => r \in Requests(m)
  BY <1>2, <1>3 DEF SameForOthers, Behind
<1>4. CASE pc[c] \in ForMap \cup {"scan_map"} /\ \E r \in {Read(c), Write(c)} :
             r \in Requests(map_lock) /\ Behind(c, r, map_lock, d)
  <2>1. SameForOthers(map_lock, map_lock', e)
    BY <1>0, MapStep
  <2>2. PICK r \in {Read(c), Write(c)} :
          r \in Requests(map_lock) /\ Behind(c, r, map_lock, d)
    BY <1>4
  <2>3. r \in Requests(map_lock') /\ Behind(c, r, map_lock', d)
    BY <1>3, <2>1, <2>2
  <2>4. Behind(c, r, map_lock, d)' <=> Behind(c, r, map_lock', d)
    BY DEF Behind
  <2>5. pc'[c] \in ForMap \cup {"scan_map"}
    BY <1>1, <1>4
  <2> QED
    BY <2>3, <2>4, <2>5 DEF WaitsFor
<1>5. CASE pc[c] \in ForChannel \cup {"scan_chan"} /\
             LET r == IF pc[c] \in {"enter", "remove_chan", "mode_write"}
                      THEN Write(c) ELSE Read(c)
             IN  Behind(c, r, lock[job[c].chan], d)
  <2> DEFINE r == IF pc[c] \in {"enter", "remove_chan", "mode_write"}
                  THEN Write(c) ELSE Read(c)
  <2>1. job[c].chan \in Channel
    BY <1>0, <1>5 DEF JobSound, Idle, ForChannel
  <2>2. SameForOthers(lock[job[c].chan], lock'[job[c].chan], e)
    BY <1>0, <2>1, LockStep
  <2>3. Behind(c, r, lock[job[c].chan], d)
    BY <1>5
  <2>4. Behind(c, r, lock'[job[c].chan], d)
    BY <1>3, <2>2, <2>3
  <2>5. /\ pc'[c] \in ForChannel \cup {"scan_chan"}
        /\ Behind(c, IF pc'[c] \in {"enter", "remove_chan", "mode_write"}
                     THEN Write(c) ELSE Read(c), lock'[job'[c].chan], d)
    BY <1>1, <1>5, <2>4
  <2> HIDE DEF r
  <2> QED
    BY <2>5 DEF WaitsFor, Behind
<1>6. CASE pc[c] \in ForClient /\ Behind(c, Send(c), mutex[job[c].to], d)
  <2>1. job[c].to \in Client
    BY <1>0, <1>6 DEF JobSound
  <2>2. Behind(c, Send(c), mutex'[job[c].to], d)
    BY <1>3, <1>6, <2>1, MutexSame
  <2> QED
    BY <1>1, <1>6, <2>2 DEF WaitsFor, Behind
<1>7. CASE pc[c] = "cleaning" /\ Behind(c, Own(c), mutex[c], d)
  <2>1. Behind(c, Own(c), mutex'[c], d)
    BY <1>3, <1>7, MutexSame
  <2> QED
    BY <1>1, <1>7, <2>1 DEF WaitsFor, Behind
<1> QED
  BY <1>4, <1>5, <1>6, <1>7 DEF WaitsFor

(* It waits on when only writer tasks and timers change. *)
LEMMA WaitingStill ==
  ASSUME NEW c, NEW d, WaitsFor(c, d), UNCHANGED <<pc, job, map_lock, lock, mutex>>
  PROVE  WaitsFor(c, d)'
<1> DEFINE Asked == IF pc[c] \in {"enter", "remove_chan", "mode_write"}
                    THEN Write(c) ELSE Read(c)
<1>1. CASE pc[c] \in ForMap \cup {"scan_map"} /\ \E r \in {Read(c), Write(c)} :
             r \in Requests(map_lock) /\ Behind(c, r, map_lock, d)
  BY <1>1 DEF WaitsFor, Behind
<1>2. CASE pc[c] \in ForChannel \cup {"scan_chan"} /\ Behind(c, Asked, lock[job[c].chan], d)
  <2>1. /\ pc'[c] \in ForChannel \cup {"scan_chan"}
        /\ Behind(c, IF pc'[c] \in {"enter", "remove_chan", "mode_write"}
                     THEN Write(c) ELSE Read(c), lock'[job'[c].chan], d)
    BY <1>2
  <2> QED
    BY <2>1 DEF WaitsFor, Behind
<1>3. CASE pc[c] \in ForClient /\ Behind(c, Send(c), mutex[job[c].to], d)
  BY <1>3 DEF WaitsFor, Behind
<1>4. CASE pc[c] = "cleaning" /\ Behind(c, Own(c), mutex[c], d)
  BY <1>4 DEF WaitsFor, Behind
<1> QED
  BY <1>1, <1>2, <1>3, <1>4 DEF WaitsFor

(* A future in a deadlock, or behind one whose timer has fired, stays      *)
(* where it is for good (StoppedForGood).                                  *)
THEOREM StopsForGood == Spec => StoppedForGood
<1>1. LockInv /\ [Next]_vars =>
        [\A c \in Client : Stopped(c) =>
           pc'[c] = pc[c] /\ job'[c] = job[c] /\ Stopped(c)']_vars
  <2> SUFFICES ASSUME LockInv, Next, NEW c \in Client, Stopped(c)
               PROVE  pc'[c] = pc[c] /\ job'[c] = job[c] /\ Stopped(c)'
    OBVIOUS
  <2>0. ChTypeOK /\ \A x \in Client : JobSound(x)
    BY DEF LockInv
  <2>1. PICK S \in SUBSET Client : c \in S /\ Deadlocked(S)
    BY DEF Stopped
  <2>2. PICK e \in Client : Step(e)
    BY NextIsStep
  <2>3. CASE Handled(e) /\ Polled(e)
    <3>1. e \notin S
      <4> SUFFICES ASSUME e \in S PROVE FALSE
        OBVIOUS
      <4>1. PICK d \in S : WaitsFor(e, d)
        BY <2>1, <2>3 DEF Deadlocked, Polled
      <4> QED
        BY <2>3, <4>1, WaitingStays
    <3>2. \A x \in S : pc'[x] = pc[x] /\ job'[x] = job[x]
      BY <2>0, <2>3, <3>1, OthersStay
    <3>3. ASSUME NEW x \in S PROVE frozen'[x] \/ \E d \in S : WaitsFor(x, d)'
      <4>1. CASE frozen[x]
        BY <2>3, <4>1 DEF Polled
      <4>2. ASSUME NEW d \in S, WaitsFor(x, d) PROVE WaitsFor(x, d)'
        BY <2>3, <3>1, <4>2, WaitingOn
      <4> QED
        BY <2>1, <4>1, <4>2 DEF Deadlocked
    <3>4. Deadlocked(S)'
      BY <3>3 DEF Deadlocked
    <3> QED
      BY <2>1, <3>2, <3>4 DEF Stopped
  <2>4. CASE (WriterFails(e) /\ UNCHANGED frozen) \/ TimeoutFires(e)
    <3>1. /\ UNCHANGED <<pc, job, map_lock, lock, mutex>>
          /\ \A x \in Client : frozen[x] => frozen'[x]
      BY <2>0, <2>4 DEF WriterFails, TimeoutFires, ChTypeOK
    <3>2. \A x, d \in Client : WaitsFor(x, d) => WaitsFor(x, d)'
      BY <3>1, WaitingStill
    <3>3. Deadlocked(S)'
      BY <2>1, <3>1, <3>2 DEF Deadlocked
    <3> QED
      BY <2>1, <3>1, <3>3 DEF Stopped
  <2> QED
    BY <2>2, <2>3, <2>4 DEF Step
<1> QED
  BY <1>1, LockInit, LockNext, PTL DEF Spec, StoppedForGood

-----------------------------------------------------------------------------
(* Who stops the map *)

(* The requests of a lock of the server are those of readers and writers.  *)
ReadersAndWriters(l) ==
  \A q \in Requests(l) : \E c \in Client : q \in {Read(c), Write(c)}

LEMMA RequestsAdded ==
  ASSUME LockInv, NEW c \in Client, Handled(c)
  PROVE  /\ Requests(map_lock') \subseteq Requests(map_lock) \cup {Read(c), Write(c)}
         /\ \A ch \in Channel : Requests(lock'[ch])
                 \subseteq Requests(lock[ch]) \cup {Read(c), Write(c)}
<1>0. /\ ChTypeOK /\ JobSound(c) /\ Fifo(map_lock)
      /\ (\A h \in Channel : LockKept(h) /\ Fifo(lock[h]))
  BY DEF LockInv, LockKept
<1>1. ASSUME NEW l, NEW m, Fifo(l),
             \/ m = l
             \/ \E r \in {Read(c), Write(c)} :
                  \/ m = Enqueue(l, r) \/ m = Release(l, r)
                  \/ m = Enqueue(Release(l, r), r)
             \/ m = Withdraw(l, RequestsOf(c))
      PROVE  Requests(m) \subseteq Requests(l) \cup {Read(c), Write(c)}
  <2>1. CASE m = Withdraw(l, RequestsOf(c))
    BY <1>1, <2>1, WithdrawRequests
  <2>2. ASSUME NEW r \in {Read(c), Write(c)},
               \/ m = Enqueue(l, r) \/ m = Release(l, r)
               \/ m = Enqueue(Release(l, r), r)
        PROVE  Requests(m) \subseteq Requests(l) \cup {r}
    <3>1. Requests(Release(l, r)) = Requests(l) \ {r}
      BY <1>1, WithdrawRequests DEF Release
    <3> QED
      BY <2>2, <3>1, EnqueueRequests
  <2> QED
    BY <1>1, <2>1, <2>2
<1>2. Requests(map_lock') \subseteq Requests(map_lock) \cup {Read(c), Write(c)}
  <2>1. MapQuiet(c) \/ MapAsked(c) \/ MapDropped(c) \/ MapAgain(c)
    BY <1>0, MapShape
  <2> QED
    BY <1>0, <1>1, <2>1 DEF MapQuiet, MapAsked, MapDropped, MapAgain
<1>3. ASSUME NEW ch \in Channel
      PROVE  Requests(lock'[ch]) \subseteq Requests(lock[ch]) \cup {Read(c), Write(c)}
  <2>1. \/ Keeps(c, ch) \/ ReadAsked(c, ch) \/ WriteAsked(c, ch)
        \/ ReadDropped(c, ch) \/ WriteDropped(c, ch) \/ AllDropped(c, ch)
    BY <1>0, LockShape
  <2> QED
    BY <1>0, <1>1, <2>1 DEF Keeps, ReadAsked, WriteAsked, ReadDropped,
        WriteDropped, AllDropped
<1> QED
  BY <1>2, <1>3

(* Futures that wait for each other without a WHO, a MODE or a timer       *)
(* between them wait for clients only.  One that waits for a channel waits *)
(* for another one that does, and one of them has asked first; with those  *)
(* out of the way the same holds of the map.                               *)
LEMMA QuietWaiters ==
  ASSUME LockInv, ReadersAndWriters(map_lock),
         \A ch \in Channel : ReadersAndWriters(lock[ch]),
         NEW S \in SUBSET Client, Deadlocked(S),
         \A d \in S : ~frozen[d] /\ job[d].cmd \notin {"WHO", "MODE"}
  PROVE  \A d \in S : {Read(d), Write(d)} \cap Requests(map_lock) = {}
<1>0. /\ \A d \in S : JobSound(d) /\ MapKept(d) /\ pc[d] \in Pc
      /\ \A ch \in Channel : LockKept(ch) /\ Fifo(lock[ch])
      /\ Fifo(map_lock)
  BY DEF LockInv, LockKept, ChTypeOK
<1>r. \A d, e \in Client : Read(d) # Write(e)
  BY RequestsDiffer
<1>q. ASSUME NEW l, ReadersAndWriters(l), NEW r, NEW c \in Client, NEW d \in S,
             Behind(c, r, l, d)
      PROVE  \E q \in {Read(d), Write(d)} :
               q \in Requests(l) /\ q # r /\ <<q, r>> \in l
  <2>1. PICK q \in RequestsOf(d) : <<q, r>> \in l /\ q # r
    BY <1>q DEF Behind
  <2>2. q \in Requests(l)
    <3>1. <<q, r>>[1] = q
      OBVIOUS
    <3> QED
      BY <2>1, <3>1 DEF Requests
  <2>3. PICK e \in Client : q \in {Read(e), Write(e)}
    BY <1>q, <2>2 DEF ReadersAndWriters
  <2>4. q \in {Read(d), Write(d)}
    BY <2>1, <2>3, RequestsDiffer DEF RequestsOf
  <2> QED
    BY <2>1, <2>2, <2>4
<1>1. ASSUME NEW ch \in Channel, NEW d \in S
      PROVE  ~Reads(d, ch) /\ ~Writes(d, ch)
  <2> DEFINE R == {q \in Requests(lock[ch]) : \E e \in S : q \in {Read(e), Write(e)}}
  <2>1. ASSUME NEW r \in R PROVE \E q \in R : q # r /\ <<q, r>> \in lock[ch]
    <3>1. PICK e \in S : r \in {Read(e), Write(e)}
      OBVIOUS
    <3>2. /\ r = Read(e) => Reads(e, ch)
          /\ r = Write(e) => Writes(e, ch)
      BY <1>0 DEF LockKept
    <3>3. /\ job[e].chan = ch
          /\ \/ r = Read(e) /\ pc[e] \in {"member_chan", "bc_chan", "scan_chan"}
             \/ r = Write(e) /\ pc[e] \in {"enter", "remove_chan"}
      <4>1. JobSound(e) /\ job[e].cmd \notin {"WHO", "MODE"}
        BY <1>0
      <4> QED
        BY <3>1, <3>2, <4>1 DEF Reads, Writes, ModeHolds, JobSound
    <3>4. PICK f \in S : WaitsFor(e, f)
      BY DEF Deadlocked
    <3>5. Behind(e, r, lock[ch], f)
      BY <3>3, <3>4 DEF WaitsFor, ForMap, ForChannel, ForClient
    <3> QED
      BY <1>q, <3>5
  <2>2. R = {}
    <3> HIDE DEF R
    <3>1. R \in SUBSET Requests(lock[ch])
      BY DEF R
    <3> QED
      BY <1>0, <2>1, <3>1, OneIsFirst
  <2> QED
    BY <1>0, <2>2 DEF LockKept
<1> DEFINE R == {q \in Requests(map_lock) : \E e \in S : q \in {Read(e), Write(e)}}
<1>2. ASSUME NEW r \in R PROVE \E q \in R : q # r /\ <<q, r>> \in map_lock
  <2>1. PICK e \in S : r \in {Read(e), Write(e)}
    OBVIOUS
  <2>2. \/ r = Read(e) /\ pc[e] \in MapReaders
        \/ r = Write(e) /\ pc[e] = "create"
    BY <1>0, <2>1 DEF MapKept
  <2>3. pc[e] \notin {"member_chan", "bc_chan", "scan_chan"}
    <3>1. pc[e] \in {"member_chan", "bc_chan", "scan_chan"} => job[e].chan \in Channel
      BY <1>0 DEF JobSound, Idle
    <3> QED
      BY <1>1, <3>1 DEF Reads
  <2>4. pc[e] \in ForMap \cup {"scan_map"}
    BY <2>2, <2>3 DEF MapReaders, ForMap
  <2>5. PICK f \in S : WaitsFor(e, f)
    BY DEF Deadlocked
  <2>6. PICK t \in {Read(e), Write(e)} :
          t \in Requests(map_lock) /\ Behind(e, t, map_lock, f)
    BY <2>4, <2>5 DEF WaitsFor, ForMap, ForChannel, ForClient
  <2>7. t = r
    BY <1>0, <1>r, <2>2, <2>6 DEF MapKept, MapReaders, ForMap
  <2> QED
    BY <1>q, <2>6, <2>7
<1>3. R = {}
  <2> HIDE DEF R
  <2>1. R \in SUBSET Requests(map_lock)
    BY DEF R
  <2> QED
    BY <1>0, <1>2, <2>1, OneIsFirst
<1> QED
  BY <1>3

(* A future that stops with the map, or before it, is in a deadlock with a *)
(* WHO, a MODE or a client whose timer has fired                           *)
(* (MapStopsByWhoModeTimer).                                               *)
THEOREM MapStoppers == Spec => []MapStopsByWhoModeTimer
<1> DEFINE Asked == /\ ReadersAndWriters(map_lock)
                    /\ \A ch \in Channel : ReadersAndWriters(lock[ch])
<1>1. Init => Asked
  <2>1. Requests({}) = {}
    BY DEF Requests
  <2> QED
    BY <2>1 DEF Init, ReadersAndWriters
<1>2. LockInv /\ Asked /\ [Next]_vars => Asked'
  <2> SUFFICES ASSUME LockInv, Asked, [Next]_vars PROVE Asked'
    OBVIOUS
  <2>1. CASE UNCHANGED <<map_lock, lock>>
    BY <2>1 DEF ReadersAndWriters
  <2>2. ASSUME NEW c \in Client, Handled(c) PROVE Asked'
    BY <2>2, RequestsAdded DEF ReadersAndWriters
  <2> QED
    BY <2>1, <2>2, NextIsStep DEF vars, Step, WriterFails, TimeoutFires
<1>3. LockInv /\ Asked => MapStopsByWhoModeTimer
  <2> SUFFICES ASSUME LockInv, Asked, NEW c \in Client, Stopped(c),
                      {Read(c), Write(c)} \cap Requests(map_lock) # {},
                      \A d \in Client : Stopped(d) =>
                        ~frozen[d] /\ job[d].cmd \notin {"WHO", "MODE"}
               PROVE  FALSE
    BY DEF MapStopsByWhoModeTimer
  <2>1. PICK S \in SUBSET Client : c \in S /\ Deadlocked(S)
    BY DEF Stopped
  <2>2. \A d \in S : Stopped(d)
    BY <2>1 DEF Stopped
  <2> QED
    BY <2>1, <2>2, QuietWaiters
<1> QED
  BY <1>1, <1>2, <1>3, LockInit, LockNext, PTL DEF Spec
=============================================================================
