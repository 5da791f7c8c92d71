---------------------------- MODULE Registration ----------------------------
(***************************************************************************)
(* Nicknames and registration of clients: what the handlers of CAP, NICK   *)
(* and USER (src/src/client/{capability,user,registration}.rs) do to the   *)
(* client and to the server's nickname map (src/src/server/registration.rs)*)
(*                                                                         *)
(* Every connection is served by one task that holds the client's mutex    *)
(* for as long as it reads commands, so the fields of a client change only *)
(* in that task; the nickname map is shared, behind a lock that is taken   *)
(* for one operation at a time.  An action below is therefore one critical *)
(* section of nickname_map together with the assignments that follow it up *)
(* to the next .await on shared state.  NICK with an old nickname takes    *)
(* two: the new name is inserted, then the old one is removed, and other   *)
(* tasks run in between.                                                   *)
(***************************************************************************)
EXTENDS Naturals

CONSTANTS Client,     \* client ids
          Nick,       \* nickname strings
          User,       \* user names
          Lower,      \* str::to_lowercase on nicknames
          NoClient, NoNick, NoUser  \* the None of an Option

ASSUME RegistrationAssumption ==
  /\ Lower \in [Nick -> Nick]
  /\ NoClient \notin Client
  /\ NoNick \notin Nick
  /\ NoUser \notin User

VARIABLES
  phase,            \* phase[c]: how far the connection of c has come
  nickname,         \* Client.nickname
  username,         \* Client.username (set together with realname)
  cap_negotiating,  \* Client.cap_negotiating
  registered,       \* Client.registered
  ping_timer,       \* Client.ping_timer is Some: there is a handle to abort
  ping_tasks,       \* how many timer tasks of c run, with a handle or not
  writer_alive,     \* the writer task of c still takes messages
  renaming,         \* new nickname inserted, old one not yet removed
  nickname_map      \* Server.nickname_map, by case-folded nickname

vars == <<phase, nickname, username, cap_negotiating, registered,
          ping_timer, ping_tasks, writer_alive, renaming, nickname_map>>

(* "offline": not accepted yet; "online": the read loop runs; "closing":   *)
(* the read loop has returned; "closed": cleanup() has aborted the timer   *)
(* and may still be taking the client out of its channels; "dead": the     *)
(* task is gone without cleanup().                                         *)
Phase == {"offline", "online", "closing", "closed", "dead"}

TypeOK ==
  /\ phase \in [Client -> Phase]
  /\ nickname \in [Client -> Nick \cup {NoNick}]
  /\ username \in [Client -> User \cup {NoUser}]
  /\ cap_negotiating \in [Client -> BOOLEAN]
  /\ registered \in [Client -> BOOLEAN]
  /\ ping_timer \in [Client -> BOOLEAN]
  /\ ping_tasks \in [Client -> Nat]
  /\ writer_alive \in [Client -> BOOLEAN]
  /\ renaming \in [Client -> Nick \cup {NoNick}]
  /\ nickname_map \in [Nick -> Client \cup {NoClient}]

Init ==
  /\ phase = [c \in Client |-> "offline"]
  /\ nickname = [c \in Client |-> NoNick]
  /\ username = [c \in Client |-> NoUser]
  /\ cap_negotiating = [c \in Client |-> FALSE]
  /\ registered = [c \in Client |-> FALSE]
  /\ ping_timer = [c \in Client |-> FALSE]
  /\ ping_tasks = [c \in Client |-> 0]
  /\ writer_alive = [c \in Client |-> TRUE]
  /\ renaming = [c \in Client |-> NoNick]
  /\ nickname_map = [k \in Nick |-> NoClient]

-----------------------------------------------------------------------------
(* The connection of c *)

(* The read loop of c is between two commands. *)
Idle(c) == phase[c] = "online" /\ renaming[c] = NoNick

(* Client::new and add_client. *)
Connect(c) ==
  /\ phase[c] = "offline"
  /\ phase' = [phase EXCEPT ![c] = "online"]
  /\ UNCHANGED <<nickname, username, cap_negotiating, registered, ping_timer,
                 ping_tasks, writer_alive, renaming, nickname_map>>

(* The read loop returns: end of input, a read error, or a handler's Err   *)
(* that "handle_message(message).await?" passes on.                        *)
StopServing(c) ==
  /\ Idle(c)
  /\ phase' = [phase EXCEPT ![c] = "closing"]
  /\ UNCHANGED <<nickname, username, cap_negotiating, registered, ping_timer,
                 ping_tasks, writer_alive, renaming, nickname_map>>

(* Client::cleanup aborts the ping timer whose handle it finds, which may  *)
(* have ended by itself; it does not touch nickname_map.                   *)
Cleanup(c) ==
  /\ phase[c] = "closing"
  /\ phase' = [phase EXCEPT ![c] = "closed"]
  /\ ping_timer' = [ping_timer EXCEPT ![c] = FALSE]
  /\ ping_tasks' = [ping_tasks EXCEPT ![c] = IF ping_timer[c] /\ @ > 0
                                             THEN @ - 1 ELSE @]
  /\ UNCHANGED <<nickname, username, cap_negotiating, registered,
                 writer_alive, renaming, nickname_map>>

(* The task unwinds from a panic in a handler (WHOIS, WHO, JOIN): the       *)
(* client's mutex is released and cleanup() does not run.                  *)
Die(c) ==
  /\ Idle(c)
  /\ phase' = [phase EXCEPT ![c] = "dead"]
  /\ UNCHANGED <<nickname, username, cap_negotiating, registered, ping_timer,
                 ping_tasks, writer_alive, renaming, nickname_map>>

(* A write error ends the writer task; from then on every send of a        *)
(* message to c fails with "Channel closed".                               *)
WriterFails(c) ==
  /\ phase[c] # "offline"
  /\ writer_alive[c]
  /\ writer_alive' = [writer_alive EXCEPT ![c] = FALSE]
  /\ UNCHANGED <<phase, nickname, username, cap_negotiating, registered,
                 ping_timer, ping_tasks, renaming, nickname_map>>

(* The timer task ends by itself, after its ERROR or a send that failed    *)
(* (when it does is in PingTimer); the handle stays where it is.           *)
TimerEnds(c) ==
  /\ ping_tasks[c] > 0
  /\ ping_tasks' = [ping_tasks EXCEPT ![c] = @ - 1]
  /\ UNCHANGED <<phase, nickname, username, cap_negotiating, registered,
                 ping_timer, writer_alive, renaming, nickname_map>>

-----------------------------------------------------------------------------
(* CAP *)

(* CAP LS starts the negotiation, also on a registered connection. *)
CapLs(c) ==
  /\ Idle(c)
  /\ writer_alive[c]
  /\ cap_negotiating' = [cap_negotiating EXCEPT ![c] = TRUE]
  /\ UNCHANGED <<phase, nickname, username, registered, ping_timer,
                 ping_tasks, writer_alive, renaming, nickname_map>>

(* CAP END ends it and nothing more: check_registration is not called.     *)
(* The flush that handle_message sends after every CAP can fail.           *)
CapEnd(c) ==
  /\ Idle(c)
  /\ cap_negotiating' = [cap_negotiating EXCEPT ![c] = FALSE]
  /\ phase' = [phase EXCEPT ![c] =
                 IF writer_alive[c] THEN "online" ELSE "closing"]
  /\ UNCHANGED <<nickname, username, registered, ping_timer, ping_tasks,
                 writer_alive, renaming, nickname_map>>

-----------------------------------------------------------------------------
(* check_registration and complete_registration *)

(* The read loop of c dispatches NICK and USER. *)
Commanded(c) == Idle(c) /\ ~cap_negotiating[c]

\* Mutant: a registration that needs no USER.
ReadyWithoutUser(c, nick, user) ==
  ~registered[c] /\ nick # NoNick /\ ~cap_negotiating[c]

\* Mutant: a client that is registered registers again.
ReadyAgain(c, nick, user) ==
  nick # NoNick /\ user # NoUser /\ ~cap_negotiating[c]

Ready(c, nick, user) ==
  ~registered[c] /\ nick # NoNick /\ user # NoUser /\ ~cap_negotiating[c]

(* A task is spawned and its handle stored; one that is there already is   *)
(* overwritten, and its task goes on.                                      *)
StartPingTimer(c) ==
  /\ ping_timer' = [ping_timer EXCEPT ![c] = TRUE]
  /\ ping_tasks' = [ping_tasks EXCEPT ![c] = @ + 1]

(* With the given nickname and user name c registers if it can.  The       *)
(* welcome numerics are sent after registered is set and before the ping   *)
(* timer starts; the first that cannot be sent ends the connection.        *)
CheckRegistration(c, nick, user) ==
  \/ /\ Ready(c, nick, user)
     /\ registered' = [registered EXCEPT ![c] = TRUE]
     /\ \/ /\ writer_alive[c]
           /\ StartPingTimer(c)
           /\ UNCHANGED phase
        \/ /\ ~writer_alive[c]
           /\ phase' = [phase EXCEPT ![c] = "closing"]
           /\ UNCHANGED <<ping_timer, ping_tasks>>
  \/ /\ ~Ready(c, nick, user)
     /\ UNCHANGED <<registered, ping_timer, ping_tasks, phase>>

-----------------------------------------------------------------------------
(* NICK and USER *)

\* Mutant: the map is asked for the nickname as it was typed.
KeyTakenCaseSensitive(n) == nickname_map[n] # NoClient

KeyTaken(n) == nickname_map[Lower[n]] # NoClient

(* register_nickname finds the key, the client's own included: NICK fails  *)
(* with an Err and the connection ends.                                    *)
NickInUse(c, n) ==
  /\ Commanded(c)
  /\ KeyTaken(n)
  /\ phase' = [phase EXCEPT ![c] = "closing"]
  /\ UNCHANGED <<nickname, username, cap_negotiating, registered, ping_timer,
                 ping_tasks, writer_alive, renaming, nickname_map>>

(* The first nickname of c. *)
FirstNick(c, n) ==
  /\ Commanded(c)
  /\ ~KeyTaken(n)
  /\ nickname[c] = NoNick
  /\ nickname_map' = [nickname_map EXCEPT ![Lower[n]] = c]
  /\ nickname' = [nickname EXCEPT ![c] = n]
  /\ CheckRegistration(c, n, username[c])
  /\ UNCHANGED <<username, cap_negotiating, writer_alive, renaming>>

(* A change of nickname: the new one is registered first ...               *)
ClaimNewNick(c, n) ==
  /\ Commanded(c)
  /\ ~KeyTaken(n)
  /\ nickname[c] # NoNick
  /\ nickname_map' = [nickname_map EXCEPT ![Lower[n]] = c]
  /\ renaming' = [renaming EXCEPT ![c] = n]
  /\ UNCHANGED <<phase, nickname, username, cap_negotiating, registered,
                 ping_timer, ping_tasks, writer_alive>>

\* Mutant: the old nickname stays in the map.
KeepOldNick(c) ==
  /\ renaming[c] # NoNick
  /\ nickname' = [nickname EXCEPT ![c] = renaming[c]]
  /\ renaming' = [renaming EXCEPT ![c] = NoNick]
  /\ CheckRegistration(c, renaming[c], username[c])
  /\ UNCHANGED <<username, cap_negotiating, writer_alive, nickname_map>>

(* ... then the old one is unregistered and the field assigned.            *)
ReleaseOldNick(c) ==
  /\ renaming[c] # NoNick
  /\ nickname_map' = [nickname_map EXCEPT ![Lower[nickname[c]]] = NoClient]
  /\ nickname' = [nickname EXCEPT ![c] = renaming[c]]
  /\ renaming' = [renaming EXCEPT ![c] = NoNick]
  /\ CheckRegistration(c, renaming[c], username[c])
  /\ UNCHANGED <<username, cap_negotiating, writer_alive>>

\* Mutant: USER is accepted on a registered connection.
AcceptUserAgain(c, u) ==
  /\ Commanded(c)
  /\ username' = [username EXCEPT ![c] = u]
  /\ CheckRegistration(c, nickname[c], u)
  /\ UNCHANGED <<nickname, cap_negotiating, writer_alive, renaming,
                 nickname_map>>

(* USER; it may be given again as long as c is not registered.  On a       *)
(* registered connection it is an Err: StopServing.                        *)
AcceptUser(c, u) ==
  /\ Commanded(c)
  /\ ~registered[c]
  /\ username' = [username EXCEPT ![c] = u]
  /\ CheckRegistration(c, nickname[c], u)
  /\ UNCHANGED <<nickname, cap_negotiating, writer_alive, renaming,
                 nickname_map>>

-----------------------------------------------------------------------------
(* One command of c, as handle_message dispatches it. *)
Command(c) ==
  \/ CapLs(c) \/ CapEnd(c)
  \/ \E n \in Nick : NickInUse(c, n) \/ FirstNick(c, n) \/ ClaimNewNick(c, n)
  \/ \E u \in User : AcceptUser(c, u)

(* The parts that the task of c takes without waiting for its peer. *)
Continue(c) == ReleaseOldNick(c) \/ Cleanup(c)

Next == \E c \in Client :
  Connect(c) \/ Command(c) \/ Continue(c) \/ StopServing(c) \/ Die(c)
             \/ WriterFails(c) \/ TimerEnds(c)

Spec == Init /\ [][Next]_vars

(* A step of the server that needs no input is eventually taken: the       *)
(* tokio runtime polls a task that is ready.  The peers owe nothing.       *)
FairSpec == Spec /\ \A c \in Client : WF_vars(Continue(c))

-----------------------------------------------------------------------------
(* Properties *)

KeysOf(c) == {k \in Nick : nickname_map[k] = c}

(* The map holds for a client exactly the key of its nickname and, in the  *)
(* middle of a NICK, the key of the new one: nothing is lost, and nothing  *)
(* but the nickname of a finished connection is left behind.               *)
KeysExact == \A c \in Client :
  KeysOf(c) = {Lower[n] : n \in {nickname[c], renaming[c]} \ {NoNick}}

(* No two clients, in whatever phase, have nicknames that differ only in   *)
(* case: a PRIVMSG to a nickname has one addressee.                        *)
NickUnique == \A c, d \in Client :
  /\ c # d
  /\ nickname[c] # NoNick
  /\ nickname[d] # NoNick
  => Lower[nickname[c]] # Lower[nickname[d]]

(* A client is registered as soon as, and only if, it has both names,      *)
(* whatever the order of CAP, NICK and USER: the checks after NICK and     *)
(* USER suffice although CAP END makes none.                               *)
RegisteredIffNamed == \A c \in Client :
  registered[c] <=> nickname[c] # NoNick /\ username[c] # NoUser

(* A client has at most one ping timer task.  While one runs, the client   *)
(* is registered and the handle is stored, so that cleanup() finds it, and *)
(* after cleanup() none runs: no order of the commands starts a second     *)
(* timer over the handle of the first, and no failed welcome one that      *)
(* nobody aborts.                                                          *)
TimerFollowsRegistration == \A c \in Client :
  /\ ping_tasks[c] <= 1
  /\ ping_tasks[c] > 0 => registered[c] /\ ping_timer[c]
  /\ ping_timer[c] => registered[c]
  /\ phase[c] = "closed" => ~ping_timer[c]
  /\ phase[c] = "online" /\ registered[c] => ping_timer[c]

(* What other tasks and the PRIVMSG handler rely on once a client is       *)
(* registered stays: it is never unregistered, its user name is fixed and  *)
(* it always has a nickname.                                               *)
RegistrationIsFinal == [][\A c \in Client : registered[c] =>
  /\ registered'[c]
  /\ username'[c] = username[c]
  /\ nickname'[c] # NoNick]_vars

(* The nickname map is a directory of nicknames: keys are claimed only     *)
(* when free and given up only by a client that owns another one.          *)
Directory == INSTANCE NickDirectory WITH Key <- Nick, owner <- nickname_map
DirectorySpec == Directory!Spec

(* src/src/server/tests.rs: "First client disconnects, freeing the         *)
(* nickname".  The nicknames of a client whose read loop has returned      *)
(* leave the map.                                                          *)
DisconnectFreesNick == \A c \in Client : \A k \in Nick :
  phase[c] = "closing" ~> nickname_map[k] # c
=============================================================================
