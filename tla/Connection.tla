----------------------------- MODULE Connection -----------------------------
(***************************************************************************)
(* handle_connection (src/src/server/mod.rs) and the locks it takes.  The  *)
(* connection future of a client adds it to the server, holds its mutex    *)
(* for the whole read loop, cleans up and removes it; select! runs it      *)
(* against a timer of 60 seconds.  When the timer fires, the future is no  *)
(* longer polled, but keeps the locks it has and its place in the queue of *)
(* the lock it waits for, until the timer branch has looked whether the    *)
(* client is registered, for which it takes the mutex of the client.       *)
(* PRIVMSG, NOTICE and WHO to a nickname, and the QUIT that cleanup()      *)
(* sends to the members of the client's channels, lock the mutex of        *)
(* another client while the sender's own is held.                          *)
(*                                                                         *)
(* The handlers of channel commands, and the locks of the channels that    *)
(* cleanup() waits for, are in Channels: here a client that cleans up      *)
(* leaves its channels in any number of sends, and it need not come to an  *)
(* end.  The RwLocks of client_map and nickname_map are read as atomic:    *)
(* each is held for one operation without an .await, so that a task waits  *)
(* for it only while another thread is inside; that the 60 seconds pass in *)
(* just that wait is left out.                                             *)
(***************************************************************************)
EXTENDS Registration, FairLock

CONSTANT Slow   \* the clients whose 60 seconds may pass

ASSUME ConnectionAssumption == Slow \subseteq Client

VARIABLES
  stage,        \* stage[c]: where the connection future of c is
  timer,        \* timer[c]: where the timer branch of c's select! is
  query,        \* query[c]: the message that c is in the middle of sending
  mutex,        \* mutex[c]: the Mutex around Client c
  clients,      \* Server.clients
  client_map,   \* Server.client_map
  clients_lock  \* the RwLock around Server.clients

connVars == <<stage, timer, query, mutex, clients, client_map, clients_lock>>
allVars == <<vars, connVars>>

(* The read loop runs in these; "counting" is LUSERS. *)
ReadStage == {"serving", "looking", "sending", "counting"}
(* cleanup() takes the client out of its channels; in the second it waits  *)
(* for the mutex of a member, to send the QUIT.                            *)
LeaveStage == {"leaving", "quitting"}
Stage == ReadStage \cup LeaveStage \cup
  {"none", "adding", "locking", "cleaning", "removing", "unmapping", "done",
   "dead"}
(* A future holds its own mutex in the first, asks for it in the second.   *)
Holding == ReadStage \cup LeaveStage
Asking == {"locking", "cleaning"}
(* ... and for the mutex of the client its message goes to. *)
Addressing == {"sending", "quitting"}
Timer == {"armed", "checking", "expiring", "passed"}

NoQuery == [cmd |-> "none", to |-> NoClient]
Query == [cmd : {"PRIVMSG", "WHO", "QUIT"}, to : Client] \cup {NoQuery}

(* Requests: the guard for serving or cleanup, the lock on an addressee,   *)
(* the timer branch; write() and read() of clients.                        *)
Own(c) == <<c, "own">>
Send(c) == <<c, "send">>
Check(c) == <<c, "timer">>
Write(c) == <<c, "write">>
Read(c) == <<c, "read">>
RequestsOf(c) == {Own(c), Send(c), Check(c), Write(c), Read(c)}
Request == UNION {RequestsOf(c) : c \in Client}
Shared == {Read(c) : c \in Client}

ConnTypeOK ==
  /\ stage \in [Client -> Stage]
  /\ timer \in [Client -> Timer]
  /\ query \in [Client -> Query]
  /\ mutex \in [Client -> SUBSET (Request \X Request)]
  /\ clients \subseteq Client
  /\ client_map \subseteq Client
  /\ clients_lock \subseteq Request \X Request

ConnInit ==
  /\ Init
  /\ stage = [c \in Client |-> "none"]
  /\ timer = [c \in Client |-> "armed"]
  /\ query = [c \in Client |-> NoQuery]
  /\ mutex = [c \in Client |-> {}]
  /\ clients = {}
  /\ client_map = {}
  /\ clients_lock = {}

-----------------------------------------------------------------------------
(* The timer branch is running and the connection future is not polled. *)
Frozen(c) == timer[c] \in {"checking", "expiring"}

\* Mutant: the future is polled while the timer branch runs.
AtPolled(c, s) == stage[c] = s

At(c, s) == stage[c] = s /\ ~Frozen(c)

MoveTo(c, s) == stage' = [stage EXCEPT ![c] = s]

(* Every request of the task of c is gone. *)
Forget(c) ==
  /\ mutex' = [d \in Client |-> Withdraw(mutex[d], RequestsOf(c))]
  /\ clients_lock' = Withdraw(clients_lock, RequestsOf(c))

(* The server accepts; add_client asks for the client list. *)
Accept(c) ==
  /\ stage[c] = "none"
  /\ MoveTo(c, "adding")
  /\ clients_lock' = Enqueue(clients_lock, Write(c))
  /\ UNCHANGED <<vars, timer, query, mutex, clients, client_map>>

(* add_client, and the request for the mutex that follows it. *)
AddClient(c) ==
  /\ At(c, "adding")
  /\ Granted(clients_lock, Write(c))
  /\ clients' = clients \cup {c}
  /\ client_map' = client_map \cup {c}
  /\ clients_lock' = Release(clients_lock, Write(c))
  /\ mutex' = [mutex EXCEPT ![c] = Enqueue(@, Own(c))]
  /\ MoveTo(c, "locking")
  /\ UNCHANGED <<vars, timer, query>>

(* The guard is there: the read loop starts. *)
BeginServing(c) ==
  /\ At(c, "locking")
  /\ Granted(mutex[c], Own(c))
  /\ Connect(c)
  /\ MoveTo(c, "serving")
  /\ UNCHANGED <<timer, query, mutex, clients, client_map, clients_lock>>

(* The read loop goes on, or it returns: the guard is dropped and the      *)
(* mutex requested again for cleanup().                                    *)
AfterHandler(c) ==
  \/ /\ phase'[c] = "online"
     /\ UNCHANGED <<stage, mutex>>
  \/ /\ phase'[c] = "closing"
     /\ MoveTo(c, "cleaning")
     /\ mutex' = [mutex EXCEPT ![c] = Enqueue(Release(@, Own(c)), Own(c))]

(* A command of Registration, or the end of the input. *)
Serve(c) ==
  /\ At(c, "serving")
  /\ Command(c) \/ StopServing(c)
  /\ AfterHandler(c)
  /\ UNCHANGED <<timer, query, clients, client_map, clients_lock>>

FinishRename(c) ==
  /\ At(c, "serving")
  /\ ReleaseOldNick(c)
  /\ AfterHandler(c)
  /\ UNCHANGED <<timer, query, clients, client_map, clients_lock>>

(* A handler panics: WHOIS always, JOIN of an empty channel without a      *)
(* nickname.  The task is gone and its guards with it.                     *)
Panic(c) ==
  /\ At(c, "serving")
  /\ Commanded(c)
  /\ Die(c)
  /\ MoveTo(c, "dead")
  /\ Forget(c)
  /\ UNCHANGED <<timer, query, clients, client_map>>

WriterDies(c) == WriterFails(c) /\ UNCHANGED connVars

TimerTaskEnds(c) == TimerEnds(c) /\ UNCHANGED connVars

-----------------------------------------------------------------------------
(* PRIVMSG, NOTICE and WHO to a nickname *)

(* find_client_by_nick reads nickname_map; PRIVMSG and NOTICE need a       *)
(* registered sender, WHO does not.                                        *)
FindNick(c, n, cmd) ==
  /\ At(c, "serving")
  /\ Commanded(c)
  /\ cmd = "PRIVMSG" => registered[c]
  /\ KeyTaken(n)
  /\ query' = [query EXCEPT ![c] = [cmd |-> cmd, to |-> nickname_map[Lower[n]]]]
  /\ MoveTo(c, "looking")
  /\ UNCHANGED <<vars, timer, mutex, clients, client_map, clients_lock>>

(* Then it reads client_map; the client found is locked. *)
FindClient(c) ==
  /\ At(c, "looking")
  /\ \/ /\ query[c].to \in client_map
        /\ MoveTo(c, "sending")
        /\ mutex' = [mutex EXCEPT ![query[c].to] = Enqueue(@, Send(c))]
        /\ UNCHANGED query
     \/ /\ query[c].to \notin client_map
        /\ query[c].cmd = "WHO" => writer_alive[c]
        /\ MoveTo(c, "serving")
        /\ query' = [query EXCEPT ![c] = NoQuery]
        /\ UNCHANGED mutex
  /\ UNCHANGED <<vars, timer, clients, client_map, clients_lock>>

\* Mutant: the client found is used without its guard.
ReachedUnlocked(c) == At(c, "sending")

(* The sender has the guard of the addressee. *)
Reached(c) == At(c, "sending") /\ Granted(mutex[query[c].to], Send(c))

(* The writer that takes the message is alive, and WHO finds a user name.  *)
Accepted(c) ==
  \/ query[c].cmd = "PRIVMSG" /\ writer_alive[query[c].to]
  \/ query[c].cmd = "WHO" /\ writer_alive[c] /\ username[query[c].to] # NoUser

(* The message is queued for the addressee, or the WHO reply for c. *)
Deliver(c) ==
  /\ Reached(c)
  /\ Accepted(c)
  /\ MoveTo(c, "serving")
  /\ mutex' = [mutex EXCEPT ![query[c].to] = Release(@, Send(c))]
  /\ query' = [query EXCEPT ![c] = NoQuery]
  /\ UNCHANGED <<vars, timer, clients, client_map, clients_lock>>

\* Mutant: the Err leaves the guard of the addressee behind.
DeliverFailsKeepsGuard(c) ==
  /\ Reached(c)
  /\ ~Accepted(c)
  /\ query[c].cmd = "WHO" => username[query[c].to] # NoUser
  /\ StopServing(c)
  /\ MoveTo(c, "cleaning")
  /\ mutex' = [mutex EXCEPT ![c] = Enqueue(Release(@, Own(c)), Own(c))]
  /\ query' = [query EXCEPT ![c] = NoQuery]
  /\ UNCHANGED <<timer, clients, client_map, clients_lock>>

(* That writer task is gone, the addressee's for PRIVMSG: send_message     *)
(* fails, and the Err ends the connection of the sender.                   *)
DeliverFails(c) ==
  /\ Reached(c)
  /\ ~Accepted(c)
  /\ query[c].cmd = "WHO" => username[query[c].to] # NoUser
  /\ StopServing(c)
  /\ MoveTo(c, "cleaning")
  /\ mutex' = [mutex EXCEPT
       ![query[c].to] = Release(@, Send(c)),
       ![c] = Enqueue(Release(@, Own(c)), Own(c))]
  /\ query' = [query EXCEPT ![c] = NoQuery]
  /\ UNCHANGED <<timer, clients, client_map, clients_lock>>

(* WHO unwraps the user name of a client that never sent USER. *)
WhoPanics(c) ==
  /\ Reached(c)
  /\ query[c].cmd = "WHO"
  /\ username[query[c].to] = NoUser
  /\ Die(c)
  /\ MoveTo(c, "dead")
  /\ Forget(c)
  /\ query' = [query EXCEPT ![c] = NoQuery]
  /\ UNCHANGED <<timer, clients, client_map>>

(* LUSERS asks for the client list and counts it. *)
Lusers(c) ==
  /\ At(c, "serving")
  /\ Commanded(c)
  /\ MoveTo(c, "counting")
  /\ clients_lock' = Enqueue(clients_lock, Read(c))
  /\ UNCHANGED <<vars, timer, query, mutex, clients, client_map>>

CountClients(c) ==
  /\ At(c, "counting")
  /\ GrantedShared(clients_lock, Read(c), Shared)
  /\ writer_alive[c]
  /\ MoveTo(c, "serving")
  /\ clients_lock' = Release(clients_lock, Read(c))
  /\ UNCHANGED <<vars, timer, query, mutex, clients, client_map>>

(* The reply to a WHO, a PRIVMSG without addressee or LUSERS cannot be     *)
(* sent, and the read loop ends.                                           *)
ReplyFails(c) ==
  /\ ~writer_alive[c]
  /\ StopServing(c)
  /\ AfterHandler(c)
  /\ \/ /\ At(c, "looking")
        /\ query[c].to \notin client_map
        /\ query' = [query EXCEPT ![c] = NoQuery]
        /\ UNCHANGED clients_lock
     \/ /\ At(c, "counting")
        /\ GrantedShared(clients_lock, Read(c), Shared)
        /\ clients_lock' = Release(clients_lock, Read(c))
        /\ UNCHANGED query
  /\ UNCHANGED <<timer, clients, client_map>>

-----------------------------------------------------------------------------
(* The end of a connection *)

(* cleanup() aborts the ping timer.  A client with a nickname is then      *)
(* taken out of its channels, with its mutex held; one without is done.    *)
CleanUp(c) ==
  /\ At(c, "cleaning")
  /\ Granted(mutex[c], Own(c))
  /\ Cleanup(c)
  /\ \/ /\ nickname[c] # NoNick
        /\ MoveTo(c, "leaving")
        /\ UNCHANGED <<mutex, clients_lock>>
     \/ /\ nickname[c] = NoNick
        /\ MoveTo(c, "removing")
        /\ mutex' = [mutex EXCEPT ![c] = Release(@, Own(c))]
        /\ clients_lock' = Enqueue(clients_lock, Write(c))
  /\ UNCHANGED <<timer, query, clients, client_map>>

(* The QUIT goes to another member of a channel, whom get_client finds. *)
Quit(c, d) ==
  /\ At(c, "leaving")
  /\ d \in client_map \ {c}
  /\ phase[d] # "offline"
  /\ MoveTo(c, "quitting")
  /\ query' = [query EXCEPT ![c] = [cmd |-> "QUIT", to |-> d]]
  /\ mutex' = [mutex EXCEPT ![d] = Enqueue(@, Send(c))]
  /\ UNCHANGED <<vars, timer, clients, client_map, clients_lock>>

(* It is sent; that the member's writer is gone is only logged. *)
QuitSent(c) ==
  /\ At(c, "quitting")
  /\ Granted(mutex[query[c].to], Send(c))
  /\ MoveTo(c, "leaving")
  /\ mutex' = [mutex EXCEPT ![query[c].to] = Release(@, Send(c))]
  /\ query' = [query EXCEPT ![c] = NoQuery]
  /\ UNCHANGED <<vars, timer, clients, client_map, clients_lock>>

\* Mutant: the guard for cleanup() lives on.
LeftChannelsKeepsGuard(c) ==
  /\ At(c, "leaving")
  /\ MoveTo(c, "removing")
  /\ clients_lock' = Enqueue(clients_lock, Write(c))
  /\ UNCHANGED <<vars, timer, query, mutex, clients, client_map>>

(* The last channel is left: cleanup() returns, its guard is dropped, and  *)
(* remove_client asks for the client list.                                 *)
LeftChannels(c) ==
  /\ At(c, "leaving")
  /\ MoveTo(c, "removing")
  /\ mutex' = [mutex EXCEPT ![c] = Release(@, Own(c))]
  /\ clients_lock' = Enqueue(clients_lock, Write(c))
  /\ UNCHANGED <<vars, timer, query, clients, client_map>>

\* Mutant: the map before the list.
RemoveFromMapFirst(c) ==
  /\ At(c, "removing")
  /\ Granted(clients_lock, Write(c))
  /\ client_map' = client_map \ {c}
  /\ MoveTo(c, "unmapping")
  /\ UNCHANGED <<vars, timer, query, mutex, clients, clients_lock>>

(* remove_client takes c from the list, and with the list still locked ... *)
RemoveFromList(c) ==
  /\ At(c, "removing")
  /\ Granted(clients_lock, Write(c))
  /\ clients' = clients \ {c}
  /\ MoveTo(c, "unmapping")
  /\ UNCHANGED <<vars, timer, query, mutex, client_map, clients_lock>>

\* Mutant: the guard of the list is not dropped.
RemoveFromMapKeepsList(c) ==
  /\ At(c, "unmapping")
  /\ client_map' = client_map \ {c}
  /\ MoveTo(c, "done")
  /\ UNCHANGED <<vars, timer, query, mutex, clients, clients_lock>>

(* ... from the map. *)
RemoveFromMap(c) ==
  /\ At(c, "unmapping")
  /\ client_map' = client_map \ {c}
  /\ clients_lock' = Release(clients_lock, Write(c))
  /\ MoveTo(c, "done")
  /\ UNCHANGED <<vars, timer, query, mutex, clients>>

-----------------------------------------------------------------------------
(* The timer branch of select! *)

TimeoutFires(c) ==
  /\ c \in Slow
  /\ timer[c] = "armed"
  /\ stage[c] \notin {"none", "done", "dead"}
  /\ timer' = [timer EXCEPT ![c] = "checking"]
  /\ mutex' = [mutex EXCEPT ![c] = Enqueue(@, Check(c))]
  /\ UNCHANGED <<vars, stage, query, clients, client_map, clients_lock>>

(* A registered client's future is polled again; for another one the mutex *)
(* is locked a second time, to send the ERROR.                             *)
TimerCheck(c) ==
  /\ timer[c] = "checking"
  /\ Granted(mutex[c], Check(c))
  /\ \/ /\ registered[c]
        /\ timer' = [timer EXCEPT ![c] = "passed"]
        /\ mutex' = [mutex EXCEPT ![c] = Release(@, Check(c))]
     \/ /\ ~registered[c]
        /\ timer' = [timer EXCEPT ![c] = "expiring"]
        /\ mutex' = [mutex EXCEPT ![c] = Enqueue(Release(@, Check(c)), Check(c))]
  /\ UNCHANGED <<vars, stage, query, clients, client_map, clients_lock>>

(* The ERROR is sent, handle_connection returns an Err and drops the       *)
(* connection future, wherever it is.                                      *)
TimerExpires(c) ==
  /\ timer[c] = "expiring"
  /\ Granted(mutex[c], Check(c))
  /\ timer' = [timer EXCEPT ![c] = "passed"]
  /\ MoveTo(c, "dead")
  /\ Forget(c)
  /\ UNCHANGED <<vars, query, clients, client_map>>

-----------------------------------------------------------------------------
(* Steps that need no input of the peer and no lock of a channel. *)
Progress(c) ==
  \/ AddClient(c) \/ BeginServing(c) \/ FinishRename(c) \/ FindClient(c)
  \/ Deliver(c) \/ DeliverFails(c) \/ WhoPanics(c) \/ CountClients(c)
  \/ ReplyFails(c)
  \/ CleanUp(c) \/ QuitSent(c) \/ RemoveFromList(c) \/ RemoveFromMap(c)
  \/ TimerCheck(c) \/ TimerExpires(c)

ConnNext == \E c \in Client :
  \/ Progress(c)
  \/ Accept(c) \/ Serve(c) \/ Panic(c) \/ Lusers(c)
  \/ \E n \in Nick, cmd \in {"PRIVMSG", "WHO"} : FindNick(c, n, cmd)
  \/ (\E d \in Client : Quit(c, d)) \/ LeftChannels(c)
  \/ TimeoutFires(c) \/ WriterDies(c) \/ TimerTaskEnds(c)

ConnSpec == ConnInit /\ [][ConnNext]_allVars

(* tokio polls a task whose lock is granted; clients owe nothing, the 60   *)
(* seconds need not pass, and leaving the channels need not end.           *)
ConnFairSpec == ConnSpec /\ \A c \in Client : WF_allVars(Progress(c))

-----------------------------------------------------------------------------
(* Properties *)

(* Where a future is decides which locks it holds and waits for: it reads  *)
(* commands and leaves channels only with its own mutex, asks for another  *)
(* one only to send, empties the map only with the list locked, and leaves *)
(* no request behind when it is done or dropped; a lock has never two      *)
(* holders.                                                                *)
LockDiscipline ==
  /\ \A c \in Client : Fifo(mutex[c])
  /\ Fifo(clients_lock)
  /\ \A c \in Client :
       /\ Own(c) \in Requests(mutex[c]) <=> stage[c] \in Holding \cup Asking
       /\ stage[c] \in Holding => Granted(mutex[c], Own(c))
       /\ Check(c) \in Requests(mutex[c]) <=> Frozen(c)
       /\ \A d \in Client : /\ Send(d) \in Requests(mutex[c])
                               <=> stage[d] \in Addressing /\ query[d].to = c
                            /\ d # c => Own(d) \notin Requests(mutex[c])
       /\ Write(c) \in Requests(clients_lock)
            <=> stage[c] \in {"adding", "removing", "unmapping"}
       /\ stage[c] = "unmapping" => Granted(clients_lock, Write(c))
       /\ Read(c) \in Requests(clients_lock) <=> stage[c] = "counting"

(* The list and the map of clients differ only for a client that is being  *)
(* removed, or whose task ended in the middle of that; every client that   *)
(* is served or leaves its channels is in both, and its nickname leads to  *)
(* it: find_client_by_nick never misses it between the two maps it reads.  *)
ListsAgree ==
  /\ clients \subseteq client_map
  /\ \A c \in client_map \ clients : stage[c] \in {"unmapping", "dead"}
  /\ \A c \in Client : stage[c] \in Holding => c \in clients
  /\ \A k \in Nick : \A c \in Client :
       nickname_map[k] = c /\ c \notin client_map => stage[c] \in {"done", "dead"}

(* A PRIVMSG, NOTICE, WHO or QUIT that waits for the mutex of a client is  *)
(* done with it only after that client's read loop has ended.              *)
AnsweredAfterReadLoop == [][\A c \in Client :
  stage[c] \in Addressing /\ stage'[c] # stage[c]
    => phase[query[c].to] # "online"]_allVars

(* When the 60 seconds pass while the future holds its own mutex, which it *)
(* does for the whole read loop and in cleanup(), neither the future nor   *)
(* the timer branch takes another step.                                    *)
FrozenForGood == [][\A c \in Client :
  Frozen(c) /\ Granted(mutex[c], Own(c))
    => /\ stage'[c] = stage[c] /\ timer'[c] = timer[c]
       /\ phase'[c] = phase[c] /\ nickname'[c] = nickname[c]
       /\ registered'[c] = registered[c]]_allVars

(* Ahead of r in the queue of a lock is a request of a future that is not  *)
(* polled.                                                                 *)
StoppedAhead(r, lock) == \E d \in Client :
  Frozen(d) /\ \E q \in RequestsOf(d) : q # r /\ <<q, r>> \in lock

(* Apart from the channels it leaves, a connection whose read loop has     *)
(* returned is cleaned up and removed: only a timer branch stops it for    *)
(* ever, its own or that of a future ahead of it in the queue of its mutex *)
(* or of the client list, never the senders and the LUSERS that keep       *)
(* coming.                                                                 *)
CleanupCompletes == \A c \in Client :
  <>[](stage[c] \in {"cleaning", "removing", "unmapping"}) =>
    <>[]( \/ Frozen(c)
          \/ StoppedAhead(Own(c), mutex[c])
          \/ StoppedAhead(Write(c), clients_lock) )

(* A sender waits for ever only while the addressee reads commands or      *)
(* leaves its channels, or behind a future that is not polled (or when it  *)
(* is not polled itself).                                                  *)
SendersReleased == \A c \in Client :
  <>[](stage[c] \in Addressing) =>
    <>[]( \/ Frozen(c)
          \/ \E d \in Client : /\ query[c].to = d
                               /\ \/ stage[d] \in Holding
                                  \/ StoppedAhead(Send(c), mutex[d]) )
=============================================================================
