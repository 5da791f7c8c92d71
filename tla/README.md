# A TLA+ development of the IRC server

The program is an IRC server in Rust on the tokio runtime. Each connection is
served by one task; the tasks share a client list, a client map, a nickname map
and a map of channels, each behind a lock of its own, and every client and every
channel is behind a lock too. Most of what can go wrong lies between these
locks, so that is where the models are most detailed.

## The system

| Component | State | Operations | Hard about it |
|---|---|---|---|
| Nicknames and registration (`client/user.rs`, `client/registration.rs`, `client/capability.rs`, `server/registration.rs`) | fields of `Client`; `Server.nickname_map` | CAP, NICK, USER, end of the connection | NICK is two critical sections; CAP, NICK, USER in any order; sends that fail half-way |
| Connection life cycle (`server/mod.rs`, `server/client.rs`, `client/mod.rs`) | mutex of each client, `Server.clients`, `Server.client_map`, the 60-second timer | accept, add, read loop, cleanup, remove, timer branch; PRIVMSG, NOTICE, WHO to a nickname; QUIT to the members of a channel; LUSERS | the mutex is held for the whole read loop; `select!` stops polling a future that holds locks; panics |
| Channels (`server/channel.rs`, `client/channel.rs`, `client/query.rs`) | `Server.channels`, each channel's lock and members | JOIN, PART, MODE, WHO, PRIVMSG and NOTICE to a channel, leaving at cleanup, the 60-second timer | three kinds of locks held at once; member lists copied before they are used; a timer that stops a future between two locks |
| Channel modes and user modes (`channel/mod.rs`, `client/channel.rs`, `client/user.rs`) | modes and their parameters of a channel, modes of a client | the loop over a MODE, the line composed of the changes, the operator of a first JOIN | signs, keys and parameters that have to stay together |
| Ping timer (`client/ping.rs`) | `last_ping`, the schedule, a broadcast channel for PONGs | tick, PONG, abort | lag of the bounded channel, late polls, the configuration of interval and timeout |
| Writer task and end of a session (`client/mod.rs`, `server/mod.rs`) | two unbounded queues, the size in hand; who holds a sender of them | take, write, fail, close; answer, relay, ping, cleanup, removal, panic, expiry | two queues in random order; senders in four places that are dropped in different orders |
| Server links (`link/mod.rs`, `server/mod.rs`) | `linked_servers`, the socket of a link | connect, store, read, answer, end | concurrent calls for one name; a peer that stops reading; a link that outlives its task |
| Line database (`database/mod.rs`) | list in memory, file | add, remove, save, load | the lock is released between change and save; crash in the middle of a write |
| Wire format (`ts6/parser.rs`, `ts6/mod.rs`) | none | parse, format | colons and empty words |
| Host masks (`server/mask.rs`) | none | match | characters with a meaning in regular expressions |
| Access lines of the server (`server/xline.rs`) | none: the operations change a copy | add, remove, load | the copy is dropped |
| Topics and bans, capabilities, replies, configuration, command line | data of one object that no command changes, or none | | |

A client's task calls the server's operations directly, with its own mutex
held. Tasks meet in four ways: through the shared maps; by locking another
client's mutex to queue a message for it; through channels to a client's writer
task; and through the PONG channel to its ping timer. `PROJECT.json` lists the
components with what is modelled of each, and the hazards of the code, each with
the properties that would catch it going wrong.

## Modules

- **`NickDirectory`** is what the server promises about nicknames, without
  saying how: each key has at most one owner, is claimed only when free and
  given up only by a client that owns another.
- **`Registration`** models CAP, NICK and USER. An action is one critical
  section of `nickname_map` with the assignments up to the next await. A change
  of nickname is `ClaimNewNick` (`register_nickname`), then `ReleaseOldNick`
  (`unregister_nickname`, the field, `check_registration`); `renaming` is the
  local variable `new_nick` in between. `CheckRegistration` is
  `check_registration` with `complete_registration`: the welcome fails when the
  writer task is gone. `ping_timer` is the field with the handle, `ping_tasks`
  the number of timer tasks that run: starting one overwrites the handle, and a
  task may end by itself (`TimerEnds`). `StopServing` is the end of the read
  loop for whatever reason, including each `Err` of a handler that changes
  nothing; `Die` is a panic. `Registration` implements `NickDirectory`
  (`DirectorySpec`).
- **`FairLock`** is the `Mutex` and `RwLock` of tokio as the code uses them: a
  lock is the ordered set of its requests; a request keeps its place while its
  task is not polled, and is withdrawn when the future that made it is dropped.
- **`Connection`** puts the actions of `Registration` under the locks of
  `handle_connection`. `stage` is the position of `connection_future`, `timer`
  that of the other branch of `select!`. When the timer fires the future is
  frozen (`At` fails) but its requests stay. Each action is one of
  `Registration` or leaves its variables alone. `cleanup()` aborts the timer,
  and then a client with a nickname is `leaving`: it sends QUITs to others,
  waiting for the mutex of each, with its own held. How many it sends and
  whether it comes to an end lies in the channels, so `LeftChannels` may be
  taken at any time or never; what can stop it is in `Channels`. In the same way
  a client whose channel handler hangs is here one that reads commands and gets
  none. The RwLocks of `client_map` and `nickname_map` are left out: each is
  held for one operation without an await, so that a task can wait only for one
  that is running.
- **`Channels`** models the handlers about channels from one granted lock to the
  next request: `pc` is the position, `job` what the handler has in hand.
  Registration is reduced to whether a client has a nickname and is registered.
  `TimeoutFires` is the same timer as in `Connection`, for the clients in
  `Slow`: the future of a `frozen` client keeps its locks and its places in
  every queue.
- **`ChannelModes`** is what a MODE does to a channel or a client: `ReadChar` is
  the body of the loop, `ReadChars` the loop, `Compose` the line composed of the
  changes, which `AddChange` writes change by change. The line is meant for the
  members of the channel, but the handler hangs in the broadcast
  (`FrozenByMode`) and nobody gets it; the reply to the sender after the
  broadcast is never reached and is left out.
- **`PingTimer`** models the timer task and `handle_pong` in discrete time.
- **`WriterTask`** models the writer task with its queues. Who holds senders is
  reduced to two facts: whether the `Client` still lives, which ends once, and
  whether the ping timer does, which a live `Client` starts.
- **`Session`** has the holders themselves: the connection future with its ends
  (cleanup and removal, panic, frozen read loop, expiry), the entry of
  `client_map`, other tasks that have looked the client up, and the ping timer.
  It implements `WriterTask` with those two facts as expressions (`WriterSpec`).
  It has no locks: a step that waits for one in `Connection` is taken here when
  it comes to it, so every order in which the locks let the steps happen is one
  of `Session`. A future that is stopped while it waits for the mutex is
  `queued`: those before it still get the mutex and send; once it has it, it is
  `frozen`.
- **`ServerLink`** models concurrent calls of `connect_to_server`, the task of
  each link, and peers that send, stop reading, close or reset. A peer in `Own`
  is this program, which takes the link for a client. Nothing in the program
  calls `connect_to_server` but the tests.
- **`LineDatabase`** models concurrent calls, the save in two steps, and the end
  and restart of the process. Lines are a set: `remove_kline` takes out every
  copy of a line. This is a model of what the database offers: no code of the
  program calls the two operations; those of the server with the same names
  (`server/xline.rs`) change a copy of the access lists.
- **`TS6Wire`** has `parse_message`, `parse_params` and `to_string` as
  operators on sequences of words, and a system that parses, relays and parses.
  `ReadWord` is the body of the loop of `parse_params`. `Meant` is the reference:
  the parameters as a client means them.
- **`MaskMatch`** has `mask_match` as an operator, with the regular expression
  it builds, and a reference definition of wildcards. `Reached` is how far into
  the host each item of the expression can have come. `is_host_klined` and
  `has_oline`, which call it, are called by tests only.
- `MCRegistration`, `MCConnection` and `MCTS6Wire` give TLC nicknames, a case
  folding and words; the other modules take their constants from the .cfg.
- `ConnectionProofs`, `FairLockProofs`, `ChannelsProofs`, `TextProofs`,
  `SessionProofs`, `PingTimerProofs`, `ServerLinkProofs` and
  `LineDatabaseProofs` hold the theorems.

An operator commented with "Mutant:" is a plausible bug in the definition after
it; `PROJECT.json` names the property that finds it.

## What the runs check

| Run | Bounds | What it shows |
|---|---|---|
| `registration` | 3 clients (symmetric), nicknames `a`, `A`, `b`, 2 user names | `KeysExact`, `NickUnique`: the map has exactly the nicknames of the clients and no two differ only in case; `RegisteredIffNamed`: no order of CAP, NICK and USER leaves a client with both names unregistered; `TimerFollowsRegistration`: there is at most one timer task, and one that runs can be aborted; `RegistrationIsFinal`; `DirectorySpec` |
| `connection` | 2 clients whose 60 seconds may pass, 2 nicknames, 1 user name | `LockDiscipline`: no request is left behind by an error, a panic, a timeout; `ListsAgree`: the client list, the client map and the nickname map agree at every stage; `AnsweredAfterReadLoop`, `FrozenForGood`: what the mutex held by the read loop does; `CleanupCompletes`: apart from the channels only a timer branch stops a cleanup for ever; `SendersReleased`: a sender waits for ever only for a client that reads commands or leaves its channels, or behind a timer branch |
| `channels` | 2 clients of which one can run into its 60 seconds, 2 channels, all commands | `ChannelLocks`: where a handler is decides its requests; `JoinComesToItself`, `NoMemberServed`: every JOIN that can be sent waits for itself, so that no client that reads commands is a member; `CleanedUp`; `StoppedForGood`, `FrozenByMode`, `MapStopsByWhoModeTimer`: what a deadlock stops, for how long, and who can stop the map of channels; `EndsOrStops`: everything else comes to an end |
| `ping` | interval 3, timeout 1 or 4, delay 1, 2 PONGs in the channel, time up to 15 | `NeverTimesOut` when interval and delay fit into the timeout; `SilenceDetected` when the interval is above it |
| `session` | 2 messages per queue of size 1 or 3, limit 2 | `WrittenInOrder`, `OneQueueDrained`: what has been written when the task ends; `LeftOpen`: who keeps the socket open although the client is not served; `EndsAfterRemoval`; `WriterSpec` |
| `modes` | lines of up to 4 characters, 2 parameters, 2 flags | `ComposedLineReplays`: the line composed of the changes makes the same changes; `LastSignWins`; `OpOnlyByJoin` |
| `link` | 2 links to the same or to different servers, 2 lines per peer, 1 answer in the socket | `PongsAnswerPings`, `OwnServersSilent`, `KeptUntilReplaced`, `SquitEndsTask` |
| `database` | 2 tasks, 2 lines | `FileCurrent`, `ReturnedIsSaved` |
| `wire` | lines of up to 4 words out of 6, four kinds of prefix | `ParsedAsMeant`, `RelayKept`: exactly when a line is understood and kept |
| `mask` | masks and hosts of up to 3 characters | `MatchesWildcards` |
| `reg_nick_freed` | 2 clients | violated: a disconnect does not free the nickname |
| `db_persist` | 2 tasks, 1 line | violated: a saved line is lost by a crash in a later save |

**Why the bounds are enough.** The third client in `registration` is the one
that takes a name while another changes from or to it. A deadlock between
connections needs two of them and one addressee; two clients give sender,
addressee and the case that both are the same, and a third one only adds waiters
to a queue whose order `FairLock` keeps. Two channels are needed for the scan of
`get_client_channels` and for a channel that is not affected by a MODE; one
client that can time out stops the other in every place, and both together stop
in the order in which they asked. What `channels` shows of deadlocks between two
clients is proved for any number, except for `EndsOrStops`. In `ping` the third
interval after a PONG falls within the time, as does the delay, and two PONGs
overflow the channel. In `session` two messages per queue leave one behind the
one in hand, and size 3 is above the limit. Four characters of a MODE are a
sign, two changes and what lies between them, and two parameters a key and one
left over or wrongly taken. Two links are needed for one to take the place of
the other; an answer that does not fit into the socket needs a second PING. The
database needs two concurrent saves and a line each. Words and masks are short
because parsing and matching look at one word or one character with what came
before it; the theorems are about any length. `MaxSent`, `MaxLines`, `MaxChars`,
`MaxParams`, `MaxWords`, `MaxLength` and `MaxTime` bound the inputs for TLC; the
theorems hold for any value of those that occur in them.

**Deadlock** is not looked for in the runs other than those of `LineDatabase`,
because these systems may stop: connections end for good (`closed`, `done`,
`gone`, `dead`), the queues are bounded for TLC, the clock stops at `MaxTime`, a
line is parsed once, a MODE that changes something keeps its channel. Where
clients wait for each other although they should not, a property says so.

**Fairness.** tokio polls a task when it is ready, so a step that waits for
nothing but a granted lock is taken: weak fairness of `Continue(c)` in
`Registration`, of `Progress(c)` in `Connection`, which has the steps that wait
for no channel, of the same while the future is polled at all in `Channels`, for
each client, of the task of each link in `ServerLink`, and of the end of an
aborted timer in `Session`. Nothing is assumed of `Quit` and `LeftChannels` in
`Connection`: a cleanup can hang in the broadcast to a channel, with no timer
involved. And nothing of the peers: that they send commands, read, close the
connection, or let the 60 seconds pass. In the writer task `select!` chooses
between ready branches at random, so that none is passed over for ever: strong
fairness of its branches in `Session`, but none of `Writes`, because the peer
need not read. `PingTimer` has no fairness: its clock does not move on while the
task is more than `MaxDelay` late.

Two liveness properties have a premise in the formula. `EndsAfterRemoval`:
whoever has looked the client up lets go of it, and the peer reads.
`SquitEndsTask`: the peer reads what was written. `EndsOrStops` needs none,
because "stopped" is a predicate of the state (`Stopped`: there is a set of
futures each of which waits for one of the set, or has timed out), and
`StoppedForGood` says that it is never left. `CleanupCompletes` and
`SendersReleased` have none either: they say where a cleanup or a sender that
never gets on must be for ever. Two cleanups with a common channel, which wait
for each other, are in that place (`quitting`, whose addressee is in `quitting`
too).

## Where code, comments and tests disagree

`PROJECT.json` lists the findings with the lines. Two are shown by runs that
expect a violation. Others are shown by properties that hold and say what the
code does instead:

- a connection whose 60 seconds pass during its read loop is frozen
  (`FrozenForGood`); a private message waits for the end of the addressee's read
  loop (`AnsweredAfterReadLoop`);
- a JOIN waits for its own client and is never answered (`JoinComesToItself`
  with `StoppedForGood`); a MODE freezes its channel and the map
  (`FrozenByMode`); a cleanup can be stopped by another (`EndsOrStops`); a client
  without a nickname stays in its channels (`CleanedUp` has to exclude it);
- a connection that panicked, froze, expired during its removal, or was given up
  by the ping timer stays open (`LeftOpen`); with the default configuration no
  ping times out (`NeverTimesOut`);
- a link does not introduce itself (`OwnServersSilent`) and outlives its task
  (`KeptUntilReplaced`);
- a MODE knows neither bans nor operators and asks nobody for permission
  (`OpOnlyByJoin`);
- a second colon in a trailing parameter is lost (`ParsedAsMeant`); dots in masks
  match anything (`MatchesWildcards`).

The rest is visible in the code alone: K-lines added at run time are dropped,
commands during CAP negotiation are dropped, QUIT does nothing, the announced
casemapping is not the one used, MAX_SENDQ does not bound the queue (the size in
hand is that of one message: `OneMessageCounted`).

## What is proved

The theorems hold for every value of the constants; the assumptions are those
named in the modules (`RegistrationAssumption`: the case folding maps nicknames
to nicknames, and the values for "none" are no clients, nicknames or user names;
`ConnectionAssumption`, `ChannelsAssumption`, `SessionAssumption`,
`LinkAssumption`, `PingAssumption`, `DatabaseAssumption` likewise;
`ModesAssumption`, `MaskAssumption`, `WireAssumption`: the characters with a
meaning are characters, and different from each other and from the rest). Every
invariant and action property of the runs that are expected to pass is stated by
a theorem.

- **`ConnectionProofs`**, about `Registration`: `TypeCorrect`,
  `KeysAlwaysExact`, `NicknamesUnique`, `RegistrationComplete`, `TimerFollows`,
  `RegistrationFinal`, `ImplementsDirectory`. `KeysExact` is inductive only
  together with facts about a rename: the new key is not the old one, and only a
  client with a nickname is renaming. Uniqueness follows because a key has one
  owner. `TimerFollows` needs that a timer is started only by the step that
  registers, when none can run yet. A step of the directory is a claim or a
  release by the inductive invariant. About `Connection`: `LocksDisciplined` has
  one case for each action, in terms of the lemmas of `FairLockProofs`.
  `ImplementsRegistration` is a lemma that holds by the shape of the actions and
  says nothing of the code; it brings the invariants of `Registration` over
  (`ConnNicknamesUnique`). `ClientsListed` (`ListsAgree`) needs `Listed`, what a
  stage says about the list and the map, and the invariant of `Registration`, by
  which only a client that was served owns a key. `AnswersAfterReadLoop` and
  `FreezesForGood` follow from lock discipline and `OneHolder`: the guard that a
  sender or the timer needs is the one the read loop holds.
- **`FairLockProofs`**: requests stay in a total order under `Enqueue` and
  `Withdraw`, and then at most one exclusive request is granted (`OneHolder`) and
  any requests have a first among them (`OneIsFirst`).
- **`ChannelsProofs`**: the inductive invariant `LockInv` is about one client or
  lock at a time. `JobSound` says what a future has in hand at each place;
  `MutexKept`, `MapKept` and `LockKept` say of each lock that its requests are
  in order and which they are, from the places of the futures. A step of a
  client keeps it for the client itself; for the others `OthersStay` says that
  their places stay, and `SameForOthers` that a lock has the same requests of
  theirs, so that each action has one case and not one for each pair of clients.
  `LocksByPlace` is read off it. `MemberInv` adds where a member can be: it
  gives `JoinReachesItself`, `MembersNotServed` and `MembersRemoved`, and the
  last needs that a scan of the channels has either found a channel of the
  client or has it still to visit. `ModeFreezes` is that a writer of a channel
  excludes its readers, and its reader in the map the writers there. For
  `StopsForGood`: a request that waits behind another is not granted, so its
  future does not move; and a step of anybody else keeps the order of the
  requests that are in a queue, so that it still waits behind the same ones
  afterwards. `MapStoppers` says who can stop the map
  (`MapStopsByWhoModeTimer`). Take a set of futures each of which waits for one
  of the set, with no WHO, no MODE and no timeout in it. One that waits for a
  channel waits for another that does, because whoever has a channel goes on to
  mutexes only with a WHO or a MODE; but of all that wait for it one has asked
  first. So none waits for a channel, and then the same argument rules out the
  map (`QuietWaiters`).
- **`SessionProofs`**: `SessionWrites` is the refinement of `WriterTask`: the
  `Client` is held until its last reference goes, and none comes back, because
  `get_client` finds it only while it is listed. `StaysOpen` needs that a client
  that is served or dead is listed (`ServedListed`). `OneMessageCounted` is the
  inductive fact about the size in hand. `LineUps` says of each queue, by
  numbers instead of by selection, that the messages written, the one in hand
  and those waiting are the messages sent, in order and without a gap, except
  for those above the limit (`QueuesLineUp`). `EachQueueInOrder`
  (`WrittenInOrder`) and `ClosedWhenDrained` (`OneQueueDrained`) follow, the
  first by an induction along what has been written, because the property
  selects the messages of a queue from it.
- **`PingTimerProofs`**: `NoTimeout` needs that an unanswered PING was sent by
  the last tick (`OnSchedule`). `SilenceIsDetected` needs `Silence`, which says
  how old a PONG can be that the timer has not acted upon, in each state of the
  channel.
- **`ServerLinkProofs`**: `PongsAnswer` counts from what the task has read: every
  PING up to there is answered except the one in hand. `OwnLinksSilent` is
  an invariant about both sides at once: a peer of this program sends a PING
  only after an answer, and an answer only follows a PING. `KeptOpen` needs
  `Entered`: a task that runs has been entered in `linked_servers`.
- **`TextProofs`** is about texts of any length. A loop along a text is a
  recursive function in the models; `StepByStep` says that such a function
  exists, and an induction along it is the inclusion of an interval in a set
  (`UpTheInterval`), which follows from the least number of a set
  (`LeastNumber`) and that from the finite subsets of an interval.
  `LastSignDecides`, `OperatorsByJoin` and `ModesTypeCorrect` come from `After`,
  what a MODE has done after each character: which modes and key the last sign
  has decided so far, and how many parameters are left. `ComposedLinesReplay` is
  an induction along the MODE of a statement about another reading: the line
  composed so far, read with any further parameters behind its own, makes the
  same changes and leaves just those (`Recomposed`). `MasksMatch`: the set that the
  expression reaches has a position exactly when the text up to there can be
  shared out among the items (`Shares`), which is how the wildcards are defined.
  `UnderstoodAsMeant` and `RelayedAsSent` come from one invariant along the
  words of a line and the place of its first colon (`Single` before it,
  `Trailing` from there): with no second colon the trailing parameter has the
  words as they are, with a second one it is shorter. For the relay `WireTypeOK`
  says that a line is either what a client sent or `to_string` of a word without
  a colon and a text, so that its first colon is the one that `to_string` added.
- **`LineDatabaseProofs`**: `FileStaysCurrent` and `ReturnedStaysSaved` from
  `SaveInvariant`: the text that any task is writing is what is in memory,
  because no change can come in while one holds the read lock.

**Only model-checked.** Liveness (`CleanupCompletes`, `SendersReleased`,
`EndsOrStops`, `EndsAfterRemoval`, `SquitEndsTask`) and the violations: the
prover has no rules for fairness. That the predicate in which `EndsOrStops` ends
is never left is proved (`StopsForGood`).

## What is not modelled

- Topics and bans: no command reaches the functions that set them.
- The access lines of the server: their operations change a copy and drop it.
- Replies without state (PING, MOTD, VERSION and the like): they queue a message
  or fail, and both are in the handlers that are modelled.
- Capabilities: an enumeration; the sets are never filled.
- Configuration, command line, binding the socket: input before the server runs.
- Of the links, the handlers of PASS, SERVER and PING of the server, which check
  parameters, log and are called by nothing. Of WHOIS the lookup, which never
  runs; its panic is modelled.

Some code is reached from tests only and is modelled all the same, as what it
offers: `Database::add_kline` and `remove_kline`, `connect_to_server`,
`is_host_klined` and `has_oline`. The RwLocks of `client_map` and `nickname_map`,
and that the 60 seconds pass while a task waits for one of them, are left out, as
is the reply to the sender at the end of a channel MODE, which no run reaches.

Message texts are left out except for the colons that parsing depends on. Ids do
not wrap around. `ChannelModes` has one channel and one client, because a MODE
touches nothing else. The parts of the handlers that only a client in a channel
could reach (what a PART or a PRIVMSG to a channel does for a member) are in
`Channels` although, as `NoMemberServed` says, no client gets there.

## Plan

What is done: registration with its abstract directory; locks and the connection
life cycle composed with it; channels with their locks and timers; ping timer;
line database; session and writer task; server links; modes, wire format and
masks; with proofs of all that is not liveness.

What is left, in this order:

1. The properties of `Channels` and `Session` that hold between them, such as
   what a full PART or QUIT leaves in the queues of the members, should the code
   come to let a JOIN end.
2. Theorems about the premises of liveness that are safety properties: which
   steps stay enabled until they are taken, for `CleanupCompletes` and
   `EndsOrStops`.
3. Topics, bans, the access lines and the introduction of a link, should the
   code come to use what it has of them.
