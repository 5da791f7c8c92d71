------------------------------ MODULE Channels ------------------------------
(***************************************************************************)
(* Channels: the handlers of JOIN, PART, MODE #channel, WHO #channel,      *)
(* PRIVMSG #channel and LUSERS (src/src/client/{channel,query,server}.rs), *)
(* the operations of src/src/server/channel.rs they call, and the part of  *)
(* cleanup() that takes a client out of its channels.                      *)
(*                                                                         *)
(* Three kinds of locks meet here: the RwLock around the map of channels,  *)
(* the RwLock of each channel, and the Mutex of each client, which is held *)
(* while the client's read loop runs and while it is cleaned up.  One      *)
(* action is the code from one granted lock to the next request.           *)
(*                                                                         *)
(* Registration is reduced to what these handlers ask: whether a client    *)
(* has a nickname, and whether it is registered.  When the 60 seconds of a *)
(* connection pass, its future is not polled any more (see Connection); it *)
(* keeps the locks it has and its places in the queues.                    *)
(***************************************************************************)
EXTENDS FairLock

CONSTANTS Client, Channel,
          Commands,             \* the commands that clients send
          Slow,                 \* the clients whose 60 seconds may pass
          NoClient, NoChannel

ASSUME ChannelsAssumption ==
  /\ Commands \subseteq {"JOIN", "PART", "PRIVMSG", "WHO", "MODE", "LUSERS"}
  /\ Slow \subseteq Client
  /\ NoClient \notin Client
  /\ NoChannel \notin Channel

VARIABLES
  pc,            \* pc[c]: where the connection future of c is
  job,           \* job[c]: what the running handler of c has in hand
  name,          \* name[c]: how far c has come with NICK and USER
  writer_alive,  \* the writer task of c still takes messages
  channels,      \* the keys of Server.channels; none is ever removed
  members,       \* members[ch]: Channel.members
  map_lock,      \* the RwLock around Server.channels
  lock,          \* lock[ch]: the RwLock around the channel
  mutex,         \* mutex[c]: the Mutex around Client c
  frozen         \* frozen[c]: the timer of c has fired

vars == <<pc, job, name, writer_alive, channels, members, map_lock, lock, mutex,
          frozen>>

(* Positions of a connection future, grouped by the lock it waits for; in  *)
(* serving, confirm, bc_next and who_next it waits for none.               *)
ForMap == {"create", "count", "get", "member_map", "bc_map", "remove_map"}
ForChannel == {"enter", "member_chan", "bc_chan", "remove_chan", "who_read",
               "mode_read", "mode_write"}
ForClient == {"bc_send", "who_send"}
ReadPc == ForMap \cup ForChannel \cup ForClient \cup
          {"serving", "confirm", "bc_next", "who_next"}
Pc == ReadPc \cup {"none", "cleaning", "scan_map", "scan_chan", "leave_next",
                   "gone", "dead"}

NoJob == [cmd |-> "none", chan |-> NoChannel, todo |-> {}, to |-> NoClient,
          scan |-> {}, found |-> {}]
Job == [cmd : {"none", "QUIT", "JOIN", "PART", "PRIVMSG", "WHO", "MODE", "LUSERS"},
        chan : Channel \cup {NoChannel},
        todo : SUBSET Client, to : Client \cup {NoClient},
        scan : SUBSET Channel, found : SUBSET Channel]

Own(c) == <<c, "own">>
Send(c) == <<c, "send">>
Write(c) == <<c, "write">>
Read(c) == <<c, "read">>
Shared == {Read(c) : c \in Client}
RequestsOf(c) == {Own(c), Send(c), Write(c), Read(c)}
Request == UNION {RequestsOf(c) : c \in Client}

ChTypeOK ==
  /\ pc \in [Client -> Pc]
  /\ job \in [Client -> Job]
  /\ name \in [Client -> {"new", "named", "registered"}]
  /\ writer_alive \in [Client -> BOOLEAN]
  /\ channels \subseteq Channel
  /\ members \in [Channel -> SUBSET Client]
  /\ map_lock \subseteq Request \X Request
  /\ lock \in [Channel -> SUBSET (Request \X Request)]
  /\ mutex \in [Client -> SUBSET (Request \X Request)]
  /\ frozen \in [Client -> BOOLEAN]

Init ==
  /\ pc = [c \in Client |-> "none"]
  /\ job = [c \in Client |-> NoJob]
  /\ name = [c \in Client |-> "new"]
  /\ writer_alive = [c \in Client |-> TRUE]
  /\ channels = {}
  /\ members = [ch \in Channel |-> {}]
  /\ map_lock = {}
  /\ lock = [ch \in Channel |-> {}]
  /\ mutex = [c \in Client |-> {}]
  /\ frozen = [c \in Client |-> FALSE]

-----------------------------------------------------------------------------
(* Steps that the handlers share *)

MoveTo(c, p) == pc' = [pc EXCEPT ![c] = p]

(* get_client finds c in client_map. *)
Found(c) == pc[c] \notin {"none", "gone"}

HasMap(c) == GrantedShared(map_lock, Read(c), Shared)
HasRead(c) == GrantedShared(lock[job[c].chan], Read(c), Shared)
HasWrite(c) == Granted(lock[job[c].chan], Write(c))

\* Mutant: the mutex counts as locked as soon as it is asked for.
AskedClient(c) == Send(c) \in Requests(mutex[job[c].to])

HasClient(c) == Granted(mutex[job[c].to], Send(c))

AskMap(c, p) == map_lock' = Enqueue(map_lock, Read(c)) /\ MoveTo(c, p)
DropMap(c) == map_lock' = Release(map_lock, Read(c))
Ask(c, ch, r) == lock' = [lock EXCEPT ![ch] = Enqueue(@, r)]
Drop(c, r) == lock' = [lock EXCEPT ![job[c].chan] = Release(@, r)]

(* A handler returns, with the mutexes as in m: on Ok the read loop reads  *)
(* on, on Err it ends and the mutex is requested again for cleanup().      *)
Return(c, m, ok) ==
  /\ job' = [job EXCEPT ![c] = NoJob]
  /\ MoveTo(c, IF ok THEN "serving" ELSE "cleaning")
  /\ mutex' = IF ok THEN m
              ELSE [m EXCEPT ![c] = Enqueue(Release(@, Own(c)), Own(c))]

\* Mutant: the guard of a channel outlives the task.
DieKeepsChannel(c) ==
  /\ MoveTo(c, "dead")
  /\ job' = [job EXCEPT ![c] = NoJob]
  /\ map_lock' = Withdraw(map_lock, RequestsOf(c))
  /\ lock' = lock
  /\ mutex' = [d \in Client |-> Withdraw(mutex[d], RequestsOf(c))]

(* The task of c unwinds and its guards are dropped. *)
Die(c) ==
  /\ MoveTo(c, "dead")
  /\ job' = [job EXCEPT ![c] = NoJob]
  /\ map_lock' = Withdraw(map_lock, RequestsOf(c))
  /\ lock' = [ch \in Channel |-> Withdraw(lock[ch], RequestsOf(c))]
  /\ mutex' = [d \in Client |-> Withdraw(mutex[d], RequestsOf(c))]

-----------------------------------------------------------------------------
(* The connection *)

(* add_client and the mutex for the read loop. *)
Connect(c) ==
  /\ pc[c] = "none"
  /\ MoveTo(c, "serving")
  /\ mutex' = [mutex EXCEPT ![c] = Enqueue(@, Own(c))]
  /\ UNCHANGED <<job, name, writer_alive, channels, members, map_lock, lock>>

(* NICK, then USER, as far as the handlers here see them. *)
Identify(c) ==
  /\ pc[c] = "serving"
  /\ name' = [name EXCEPT ![c] = IF @ = "new" THEN "named" ELSE "registered"]
  /\ UNCHANGED <<pc, job, writer_alive, channels, members, map_lock, lock, mutex>>

WriterFails(c) ==
  /\ writer_alive[c]
  /\ pc[c] \notin {"none", "gone"}
  /\ writer_alive' = [writer_alive EXCEPT ![c] = FALSE]
  /\ UNCHANGED <<pc, job, name, channels, members, map_lock, lock, mutex>>

(* End of input, or an Err of a handler that is not modelled here. *)
StopServing(c) ==
  /\ pc[c] = "serving"
  /\ Return(c, mutex, FALSE)
  /\ UNCHANGED <<name, writer_alive, channels, members, map_lock, lock>>

(* A command about channel ch; JOIN asks for the map to write, the others  *)
(* to read: check_channel_membership, get_channel, get_stats.              *)
Begin(c, cmd, ch) ==
  /\ pc[c] = "serving"
  /\ cmd = "PRIVMSG" => name[c] = "registered"
  /\ job' = [job EXCEPT ![c].cmd = cmd, ![c].chan = ch]
  /\ MoveTo(c, CASE cmd = "JOIN" -> "create"
                 [] cmd = "LUSERS" -> "count"
                 [] cmd \in {"PART", "PRIVMSG"} -> "member_map"
                 [] cmd \in {"WHO", "MODE"} -> "get")
  /\ map_lock' = Enqueue(map_lock, IF cmd = "JOIN" THEN Write(c) ELSE Read(c))
  /\ UNCHANGED <<name, writer_alive, channels, members, lock, mutex>>

\* Mutant: the map stays locked when the numerics are sent.
CountKeepsMap(c) ==
  /\ pc[c] = "count"
  /\ HasMap(c)
  /\ Return(c, mutex, writer_alive[c])
  /\ UNCHANGED <<name, writer_alive, channels, members, map_lock, lock>>

(* LUSERS counts the channels. *)
Count(c) ==
  /\ pc[c] = "count"
  /\ HasMap(c)
  /\ DropMap(c)
  /\ Return(c, mutex, writer_alive[c])
  /\ UNCHANGED <<name, writer_alive, channels, members, lock>>

-----------------------------------------------------------------------------
(* JOIN *)

(* get_or_create_channel. *)
Create(c) ==
  /\ pc[c] = "create"
  /\ Granted(map_lock, Write(c))
  /\ channels' = channels \cup {job[c].chan}
  /\ map_lock' = Release(map_lock, Write(c))
  /\ Ask(c, job[c].chan, Write(c))
  /\ MoveTo(c, "enter")
  /\ UNCHANGED <<job, name, writer_alive, members, mutex>>

(* c becomes a member; the first one is given +o by its nickname, which is *)
(* unwrapped while the channel is locked.                                  *)
Enter(c) ==
  /\ pc[c] = "enter"
  /\ HasWrite(c)
  /\ members' = [members EXCEPT ![job[c].chan] = @ \cup {c}]
  /\ \/ /\ members[job[c].chan] = {} /\ name[c] = "new"
        /\ Die(c)
     \/ /\ members[job[c].chan] # {} \/ name[c] # "new"
        /\ Drop(c, Write(c))
        /\ MoveTo(c, "confirm")
        /\ UNCHANGED <<job, map_lock, mutex>>
  /\ UNCHANGED <<name, writer_alive, channels>>

\* Mutant: the handler returns Ok when the JOIN cannot be sent.
ConfirmIgnoresErr(c) ==
  /\ pc[c] = "confirm"
  /\ \/ /\ writer_alive[c]
        /\ AskMap(c, "bc_map")
        /\ UNCHANGED <<job, mutex>>
     \/ /\ ~writer_alive[c]
        /\ Return(c, mutex, TRUE)
        /\ UNCHANGED map_lock
  /\ UNCHANGED <<name, writer_alive, channels, members, lock>>

(* The JOIN is sent to c, then broadcast; c stays a member when it cannot  *)
(* be sent.                                                                *)
Confirm(c) ==
  /\ pc[c] = "confirm"
  /\ \/ /\ writer_alive[c]
        /\ AskMap(c, "bc_map")
        /\ UNCHANGED <<job, mutex>>
     \/ /\ ~writer_alive[c]
        /\ Return(c, mutex, FALSE)
        /\ UNCHANGED map_lock
  /\ UNCHANGED <<name, writer_alive, channels, members, lock>>

-----------------------------------------------------------------------------
(* broadcast_to_channel *)

(* The map stays locked while the channel is waited for. *)
BroadcastMap(c) ==
  /\ pc[c] = "bc_map"
  /\ HasMap(c)
  /\ Ask(c, job[c].chan, Read(c))
  /\ MoveTo(c, "bc_chan")
  /\ UNCHANGED <<job, name, writer_alive, channels, members, map_lock, mutex>>

\* Mutant: the one who joins is skipped.
CopyOtherMembers(c) ==
  /\ pc[c] = "bc_chan"
  /\ HasRead(c)
  /\ job' = [job EXCEPT ![c].todo = members[job[c].chan] \ {c}]
  /\ Drop(c, Read(c))
  /\ DropMap(c)
  /\ MoveTo(c, "bc_next")
  /\ UNCHANGED <<name, writer_alive, channels, members, mutex>>

\* Mutant: the map is held until the broadcast is over.
CopyMembersKeepsMap(c) ==
  /\ pc[c] = "bc_chan"
  /\ HasRead(c)
  /\ job' = [job EXCEPT ![c].todo = members[job[c].chan] \
                          IF job[c].cmd \in {"JOIN", "MODE"} THEN {} ELSE {c}]
  /\ Drop(c, Read(c))
  /\ MoveTo(c, "bc_next")
  /\ UNCHANGED <<name, writer_alive, channels, members, map_lock, mutex>>

(* The member ids are copied and both locks released.  JOIN and MODE skip  *)
(* no one, the others skip c.                                              *)
CopyMembers(c) ==
  /\ pc[c] = "bc_chan"
  /\ HasRead(c)
  /\ job' = [job EXCEPT ![c].todo = members[job[c].chan] \
                          IF job[c].cmd \in {"JOIN", "MODE"} THEN {} ELSE {c}]
  /\ Drop(c, Read(c))
  /\ DropMap(c)
  /\ MoveTo(c, "bc_next")
  /\ UNCHANGED <<name, writer_alive, channels, members, mutex>>

(* The next id, in no particular order: its client is locked if it is      *)
(* still there.                                                            *)
NextMember(c) ==
  /\ pc[c] \in {"bc_next", "who_next"}
  /\ \E d \in job[c].todo :
       \/ /\ Found(d)
          /\ job' = [job EXCEPT ![c].to = d, ![c].todo = @ \ {d}]
          /\ mutex' = [mutex EXCEPT ![d] = Enqueue(@, Send(c))]
          /\ MoveTo(c, IF pc[c] = "bc_next" THEN "bc_send" ELSE "who_send")
       \/ /\ ~Found(d)
          /\ job' = [job EXCEPT ![c].todo = @ \ {d}]
          /\ UNCHANGED <<pc, mutex>>
  /\ UNCHANGED <<name, writer_alive, channels, members, map_lock, lock>>

(* The message is queued for the member, or a warning logged. *)
SendToMember(c) ==
  /\ pc[c] = "bc_send"
  /\ HasClient(c)
  /\ mutex' = [mutex EXCEPT ![job[c].to] = Release(@, Send(c))]
  /\ job' = [job EXCEPT ![c].to = NoClient]
  /\ MoveTo(c, "bc_next")
  /\ UNCHANGED <<name, writer_alive, channels, members, map_lock, lock>>

(* The broadcast is over.  PRIVMSG is done; PART and cleanup() go on to    *)
(* remove_from_channel.  JOIN and MODE never come here: they come to     *)
(* themselves first (JoinComesToItself, FrozenByMode).                     *)
BroadcastDone(c) ==
  /\ pc[c] = "bc_next"
  /\ job[c].todo = {}
  /\ job[c].cmd \in {"PRIVMSG", "PART", "QUIT"}
  /\ IF job[c].cmd = "PRIVMSG"
     THEN Return(c, mutex, TRUE) /\ UNCHANGED map_lock
     ELSE AskMap(c, "remove_map") /\ UNCHANGED <<job, mutex>>
  /\ UNCHANGED <<name, writer_alive, channels, members, lock>>

(* get_channel and the map lock of remove_from_channel. *)
RemoveMap(c) ==
  /\ pc[c] = "remove_map"
  /\ HasMap(c)
  /\ DropMap(c)
  /\ Ask(c, job[c].chan, Write(c))
  /\ MoveTo(c, "remove_chan")
  /\ UNCHANGED <<job, name, writer_alive, channels, members, mutex>>

(* c leaves the channel; PART then tells it so, cleanup() goes on. *)
RemoveMember(c) ==
  /\ pc[c] = "remove_chan"
  /\ HasWrite(c)
  /\ members' = [members EXCEPT ![job[c].chan] = @ \ {c}]
  /\ Drop(c, Write(c))
  /\ IF job[c].cmd = "PART"
     THEN Return(c, mutex, writer_alive[c])
     ELSE MoveTo(c, "leave_next") /\ UNCHANGED <<job, mutex>>
  /\ UNCHANGED <<name, writer_alive, channels, map_lock>>

-----------------------------------------------------------------------------
(* PART and PRIVMSG: check_channel_membership *)

(* PART is an Err; PRIVMSG is answered with 442, NOTICE with nothing. *)
NotOnChannel(c) ==
  \E ok \in IF job[c].cmd = "PART" THEN {FALSE} ELSE {TRUE, writer_alive[c]} :
    Return(c, mutex, ok)

CheckMap(c) ==
  /\ pc[c] = "member_map"
  /\ HasMap(c)
  /\ \/ /\ job[c].chan \in channels
        /\ Ask(c, job[c].chan, Read(c))
        /\ MoveTo(c, "member_chan")
        /\ UNCHANGED <<job, map_lock, mutex>>
     \/ /\ job[c].chan \notin channels
        /\ DropMap(c)
        /\ NotOnChannel(c)
        /\ UNCHANGED lock
  /\ UNCHANGED <<name, writer_alive, channels, members>>

(* A member goes on to the broadcast. *)
CheckMember(c) ==
  /\ pc[c] = "member_chan"
  /\ HasRead(c)
  /\ Drop(c, Read(c))
  /\ IF c \in members[job[c].chan]
     THEN /\ map_lock' = Enqueue(Release(map_lock, Read(c)), Read(c))
          /\ MoveTo(c, "bc_map")
          /\ UNCHANGED <<job, mutex>>
     ELSE /\ DropMap(c)
          /\ NotOnChannel(c)
  /\ UNCHANGED <<name, writer_alive, channels, members>>

-----------------------------------------------------------------------------
(* MODE and WHO *)

(* get_channel; MODE with one parameter reads the modes. *)
GetChannel(c) ==
  /\ pc[c] = "get"
  /\ HasMap(c)
  /\ DropMap(c)
  /\ \/ /\ job[c].chan \notin channels
        /\ Return(c, mutex, FALSE)
        /\ UNCHANGED lock
     \/ /\ job[c].chan \in channels
        /\ \/ /\ job[c].cmd = "WHO"
              /\ Ask(c, job[c].chan, Read(c)) /\ MoveTo(c, "who_read")
           \/ /\ job[c].cmd = "MODE"
              /\ Ask(c, job[c].chan, Read(c)) /\ MoveTo(c, "mode_read")
           \/ /\ job[c].cmd = "MODE"
              /\ Ask(c, job[c].chan, Write(c)) /\ MoveTo(c, "mode_write")
        /\ UNCHANGED <<job, mutex>>
  /\ UNCHANGED <<name, writer_alive, channels, members>>

ModeQuery(c) ==
  /\ pc[c] = "mode_read"
  /\ HasRead(c)
  /\ Drop(c, Read(c))
  /\ Return(c, mutex, writer_alive[c])
  /\ UNCHANGED <<name, writer_alive, channels, members, map_lock>>

\* Mutant: the channel is released before the broadcast.
ModeChangeReleases(c) ==
  /\ pc[c] = "mode_write"
  /\ HasWrite(c)
  /\ Drop(c, Write(c))
  /\ \/ /\ Return(c, mutex, TRUE)
        /\ UNCHANGED map_lock
     \/ /\ AskMap(c, "bc_map")
        /\ UNCHANGED <<job, mutex>>
  /\ UNCHANGED <<name, writer_alive, channels, members>>

(* The modes are changed, by anyone.  When a change was recognised it is   *)
(* broadcast with the channel still locked.                                *)
ModeChange(c) ==
  /\ pc[c] = "mode_write"
  /\ HasWrite(c)
  /\ \/ /\ Drop(c, Write(c))
        /\ Return(c, mutex, TRUE)
        /\ UNCHANGED map_lock
     \/ /\ AskMap(c, "bc_map")
        /\ UNCHANGED <<job, lock, mutex>>
  /\ UNCHANGED <<name, writer_alive, channels, members>>

WhoChannel(c) ==
  /\ pc[c] = "who_read"
  /\ HasRead(c)
  /\ job' = [job EXCEPT ![c].todo = members[job[c].chan]]
  /\ MoveTo(c, "who_next")
  /\ UNCHANGED <<name, writer_alive, channels, members, map_lock, lock, mutex>>

(* The member's nickname and user name are unwrapped, and the reply is     *)
(* sent to c; the channel stays locked.                                    *)
WhoMember(c) ==
  /\ pc[c] = "who_send"
  /\ HasClient(c)
  /\ \/ /\ name[job[c].to] # "registered"
        /\ Die(c)
     \/ /\ name[job[c].to] = "registered"
        /\ writer_alive[c]
        /\ mutex' = [mutex EXCEPT ![job[c].to] = Release(@, Send(c))]
        /\ job' = [job EXCEPT ![c].to = NoClient]
        /\ MoveTo(c, "who_next")
        /\ UNCHANGED <<map_lock, lock>>
     \/ /\ name[job[c].to] = "registered"
        /\ ~writer_alive[c]
        /\ Drop(c, Read(c))
        /\ Return(c, [mutex EXCEPT ![job[c].to] = Release(@, Send(c))], FALSE)
        /\ UNCHANGED map_lock
  /\ UNCHANGED <<name, writer_alive, channels, members>>

WhoDone(c) ==
  /\ pc[c] = "who_next"
  /\ job[c].todo = {}
  /\ Drop(c, Read(c))
  /\ Return(c, mutex, writer_alive[c])
  /\ UNCHANGED <<name, writer_alive, channels, members, map_lock>>

-----------------------------------------------------------------------------
(* cleanup() *)

(* A client with a nickname is taken out of its channels; one without is   *)
(* done.  The mutex is held to the end.                                    *)
CleanUp(c) ==
  /\ pc[c] = "cleaning"
  /\ Granted(mutex[c], Own(c))
  /\ \/ /\ name[c] = "new"
        /\ mutex' = [mutex EXCEPT ![c] = Release(@, Own(c))]
        /\ MoveTo(c, "gone")
        /\ UNCHANGED <<job, map_lock>>
     \/ /\ name[c] # "new"
        /\ job' = [job EXCEPT ![c].cmd = "QUIT"]
        /\ AskMap(c, "scan_map")
        /\ UNCHANGED mutex
  /\ UNCHANGED <<name, writer_alive, channels, members, lock>>

(* get_client_channels reads one channel after the other, with the map     *)
(* locked all the time.                                                    *)
Scan(c) ==
  /\ pc[c] = "scan_map"
  /\ HasMap(c)
  /\ \/ /\ channels = {}
        /\ DropMap(c)
        /\ MoveTo(c, "leave_next")
        /\ UNCHANGED <<job, lock>>
     \/ /\ \E ch \in channels :
             /\ job' = [job EXCEPT ![c].chan = ch, ![c].scan = channels \ {ch}]
             /\ Ask(c, ch, Read(c))
        /\ MoveTo(c, "scan_chan")
        /\ UNCHANGED map_lock
  /\ UNCHANGED <<name, writer_alive, channels, members, mutex>>

\* Mutant: the last channel of the scan is not looked at.
ScanChannelMissesLast(c) ==
  /\ pc[c] = "scan_chan"
  /\ HasRead(c)
  /\ LET here == {ch \in {job[c].chan} : c \in members[ch]} IN
     \/ /\ job[c].scan = {}
        /\ Drop(c, Read(c))
        /\ DropMap(c)
        /\ MoveTo(c, "leave_next")
        /\ UNCHANGED job
     \/ /\ \E ch \in job[c].scan :
             /\ job' = [job EXCEPT ![c].chan = ch, ![c].scan = @ \ {ch},
                                   ![c].found = @ \cup here]
             /\ lock' = [lock EXCEPT ![job[c].chan] = Release(@, Read(c)),
                                     ![ch] = Enqueue(@, Read(c))]
        /\ UNCHANGED <<pc, map_lock>>
  /\ UNCHANGED <<name, writer_alive, channels, members, mutex>>

ScanChannel(c) ==
  /\ pc[c] = "scan_chan"
  /\ HasRead(c)
  /\ LET here == {ch \in {job[c].chan} : c \in members[ch]} IN
     \/ /\ job[c].scan = {}
        /\ job' = [job EXCEPT ![c].found = @ \cup here]
        /\ Drop(c, Read(c))
        /\ DropMap(c)
        /\ MoveTo(c, "leave_next")
     \/ /\ \E ch \in job[c].scan :
             /\ job' = [job EXCEPT ![c].chan = ch, ![c].scan = @ \ {ch},
                                   ![c].found = @ \cup here]
             /\ lock' = [lock EXCEPT ![job[c].chan] = Release(@, Read(c)),
                                     ![ch] = Enqueue(@, Read(c))]
        /\ UNCHANGED <<pc, map_lock>>
  /\ UNCHANGED <<name, writer_alive, channels, members, mutex>>

(* The next channel gets a QUIT and loses c, or c is removed for good. *)
LeaveNext(c) ==
  /\ pc[c] = "leave_next"
  /\ \/ /\ job[c].found = {}
        /\ job' = [job EXCEPT ![c] = NoJob]
        /\ mutex' = [mutex EXCEPT ![c] = Release(@, Own(c))]
        /\ MoveTo(c, "gone")
        /\ UNCHANGED map_lock
     \/ /\ \E ch \in job[c].found :
             job' = [job EXCEPT ![c].chan = ch, ![c].found = @ \ {ch}]
        /\ AskMap(c, "bc_map")
        /\ UNCHANGED mutex
  /\ UNCHANGED <<name, writer_alive, channels, members, lock>>

-----------------------------------------------------------------------------
(* Steps that need no input of the peer. *)
Progress(c) ==
  \/ Count(c) \/ Create(c) \/ Enter(c) \/ Confirm(c)
  \/ BroadcastMap(c) \/ CopyMembers(c) \/ NextMember(c) \/ SendToMember(c)
  \/ BroadcastDone(c) \/ RemoveMap(c) \/ RemoveMember(c)
  \/ CheckMap(c) \/ CheckMember(c)
  \/ GetChannel(c) \/ ModeQuery(c) \/ ModeChange(c)
  \/ WhoChannel(c) \/ WhoMember(c) \/ WhoDone(c)
  \/ CleanUp(c) \/ Scan(c) \/ ScanChannel(c) \/ LeaveNext(c)

(* The 60 seconds pass.  The timer branch asks for the mutex of the        *)
(* client, behind the request of the future for the read loop or for       *)
(* cleanup(); that request is never released, so the branch waits on.      *)
TimeoutFires(c) ==
  /\ c \in Slow
  /\ ~frozen[c]
  /\ pc[c] \notin {"none", "gone", "dead"}
  /\ frozen' = [frozen EXCEPT ![c] = TRUE]
  /\ UNCHANGED <<pc, job, name, writer_alive, channels, members,
                 map_lock, lock, mutex>>

(* The connection future of c is polled. *)
Polled(c) == ~frozen[c] /\ UNCHANGED frozen

Next == \E c \in Client :
  \/ Polled(c) /\ Progress(c)
  \/ /\ Polled(c)
     /\ \/ Connect(c) \/ Identify(c) \/ StopServing(c)
        \/ \E cmd \in Commands, ch \in Channel : Begin(c, cmd, ch)
  \/ WriterFails(c) /\ UNCHANGED frozen
  \/ TimeoutFires(c)

Spec == Init /\ [][Next]_vars

(* tokio polls a task whose lock is granted; the peers owe nothing. *)
FairSpec == Spec /\ \A c \in Client : WF_vars(Polled(c) /\ Progress(c))

-----------------------------------------------------------------------------
(* Properties *)

(* Where a future is decides which locks it has asked for: none is left    *)
(* behind by an Err, a panic or the end of a handler, and none is asked    *)
(* for twice.  MODE keeps the channel locked while it broadcasts.          *)
ChannelLocks == \A c \in Client :
  /\ Own(c) \in Requests(mutex[c]) <=> pc[c] \notin {"none", "gone", "dead"}
  /\ pc[c] \in ReadPc => Granted(mutex[c], Own(c))
  /\ Read(c) \in Requests(map_lock) <=>
       pc[c] \in (ForMap \ {"create"})
                 \cup {"member_chan", "bc_chan", "scan_map", "scan_chan"}
  /\ Write(c) \in Requests(map_lock) <=> pc[c] = "create"
  /\ \A ch \in Channel :
       /\ Read(c) \in Requests(lock[ch]) <=>
            /\ job[c].chan = ch
            /\ pc[c] \in {"member_chan", "bc_chan", "who_read", "who_next",
                          "who_send", "mode_read", "scan_chan"}
       /\ Write(c) \in Requests(lock[ch]) <=>
            /\ job[c].chan = ch
            /\ \/ pc[c] \in {"enter", "remove_chan", "mode_write"}
               \/ job[c].cmd = "MODE" /\ pc[c] \in {"bc_map", "bc_chan"}
  /\ \A d \in Client : Send(c) \in Requests(mutex[d]) <=>
       pc[c] \in ForClient /\ job[c].to = d

(* A JOIN is broadcast to the one who joins as well, whose mutex is held:  *)
(* whatever the order of the ids, the handler comes to it.                 *)
JoinComesToItself == \A c \in Client :
  job[c].cmd = "JOIN" /\ pc[c] \in {"bc_next", "bc_send"}
    => c \in job[c].todo \cup {job[c].to}

(* No client that reads commands is in a channel.  A member is stuck in    *)
(* its JOIN, or its connection has ended: PART, PRIVMSG and NOTICE never   *)
(* find their sender on the channel.                                       *)
NoMemberServed == \A c \in Client : \A ch \in Channel :
  c \in members[ch] =>
    \/ job[c].cmd = "JOIN"
    \/ pc[c] \notin ReadPc
    \/ job[c].cmd = "QUIT"

(* A client that had a nickname is in no channel once it is removed. *)
CleanedUp == \A c \in Client :
  pc[c] = "gone" /\ name[c] # "new" => \A ch \in Channel : c \notin members[ch]

(* What c waits for in a lock has to wait for a request of d: for its own  *)
(* when d is c.                                                            *)
Behind(c, r, queue, d) ==
  \E q \in RequestsOf(d) : /\ <<q, r>> \in queue
                           /\ q # r
                           /\ {q, r} \cap Shared # {q, r}

WaitsFor(c, d) ==
  \/ pc[c] \in ForMap \cup {"scan_map"} /\ \E r \in {Read(c), Write(c)} :
       r \in Requests(map_lock) /\ Behind(c, r, map_lock, d)
  \/ pc[c] \in ForChannel \cup {"scan_chan"} /\
       LET r == IF pc[c] \in {"enter", "remove_chan", "mode_write"}
                THEN Write(c) ELSE Read(c)
       IN  Behind(c, r, lock[job[c].chan], d)
  \/ pc[c] \in ForClient /\ Behind(c, Send(c), mutex[job[c].to], d)
  \/ pc[c] = "cleaning" /\ Behind(c, Own(c), mutex[c], d)

(* The futures in S wait for each other, or their timers have fired. *)
Deadlocked(S) == \A c \in S : frozen[c] \/ \E d \in S : WaitsFor(c, d)

Stopped(c) == \E S \in SUBSET Client : c \in S /\ Deadlocked(S)

(* Whatever the others do, a future that waits in a deadlock, or behind a  *)
(* future whose timer has fired, never takes another step and stays in it: *)
(* no Err, panic or cleanup of another client sets it free.                *)
StoppedForGood == [][\A c \in Client :
  Stopped(c) => pc'[c] = pc[c] /\ job'[c] = job[c] /\ Stopped(c)']_vars

(* From the first MODE that changes something on, no channel is created    *)
(* any more, and the members of that channel stay as they are.             *)
FrozenByMode == [][\A c \in Client :
  pc[c] = "bc_chan" /\ job[c].cmd = "MODE" =>
    channels' = channels /\ members'[job[c].chan] = members[job[c].chan]]_vars

(* A future stops for good with the map of channels in its hands, or while *)
(* it waits for the map, only when a timer has fired, or a WHO or a MODE   *)
(* waits in a deadlock: every JOIN gets stuck, but has released the map.   *)
MapStopsByWhoModeTimer == \A c \in Client :
  Stopped(c) /\ {Read(c), Write(c)} \cap Requests(map_lock) # {} =>
    \E d \in Client : /\ Stopped(d)
                      /\ frozen[d] \/ job[d].cmd \in {"WHO", "MODE"}

(* Every handler and every cleanup comes to its end, unless its future is  *)
(* stopped in a deadlock or by a timer: nobody waits for ever behind locks *)
(* that are taken and released again.                                      *)
EndsOrStops == \A c \in Client :
  pc[c] \notin {"none", "serving", "gone", "dead"}
    ~> pc[c] \in {"serving", "gone", "dead"} \/ Stopped(c)
=============================================================================
