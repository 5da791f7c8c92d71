----------------------------- MODULE PingTimer ------------------------------
(***************************************************************************)
(* The ping timer of one registered client: the task that                  *)
(* start_ping_timer() spawns (src/src/client/ping.rs), and handle_pong()   *)
(* (src/src/client/server.rs), which notifies it over a bounded broadcast  *)
(* channel.                                                                *)
(*                                                                         *)
(* Time is discrete.  The interval has a fixed schedule: a tick that is    *)
(* taken late does not move the later ones.  A late tick is at most        *)
(* MaxDelay late, and the task takes a PONG before the clock moves on;     *)
(* within one unit of time select! may take the two in either order.       *)
(***************************************************************************)
EXTENDS Integers

CONSTANTS
  Intervals,  \* what the configuration may say for timeouts.ping_interval
  Timeouts,   \* and for timeouts.ping_timeout
  MaxDelay,   \* how late the task is polled at most
  Capacity,   \* PONGs that the broadcast channel holds, 16 in the code
  MaxTime     \* where the clock stops: a bound for TLC only

ASSUME PingAssumption ==
  /\ Intervals \subseteq Nat \ {0}
  /\ Timeouts \subseteq Nat
  /\ MaxDelay \in Nat
  /\ Capacity \in Nat \ {0}
  /\ MaxTime \in Nat

VARIABLES
  ping_interval, ping_timeout,  \* of the Client: they never change
  now,
  due,         \* when the interval ticks next
  last_ping,   \* when the unanswered PING was sent, or None
  pongs,       \* PONGs waiting in the broadcast channel
  lagged,      \* an older one was overwritten and recv() has to say so
  deaf,        \* recv() said so: its branch is disabled until the next tick
  sendq_open,  \* the writer task still takes messages
  timer,       \* what has become of the task
  heard        \* when the client last sent a PONG, for the properties only

config == <<ping_interval, ping_timeout>>
vars == <<config, now, due, last_ping, pongs, lagged, deaf, sendq_open, timer, heard>>

None == -1

PingTypeOK ==
  /\ ping_interval \in Intervals
  /\ ping_timeout \in Timeouts
  /\ now \in Nat
  /\ due \in Nat
  /\ last_ping \in Nat \cup {None}
  /\ pongs \in 0..Capacity
  /\ lagged \in BOOLEAN
  /\ deaf \in BOOLEAN
  /\ sendq_open \in BOOLEAN
  /\ timer \in {"running", "timed_out", "ended", "aborted"}
  /\ heard \in Nat

(* The first tick is immediate and skipped. *)
Init ==
  /\ ping_interval \in Intervals
  /\ ping_timeout \in Timeouts
  /\ now = 0
  /\ due = ping_interval
  /\ last_ping = None
  /\ pongs = 0
  /\ lagged = FALSE
  /\ deaf = FALSE
  /\ sendq_open = TRUE
  /\ timer = "running"
  /\ heard = 0

-----------------------------------------------------------------------------
TooLate == last_ping # None /\ now - last_ping > ping_timeout

\* Mutant: only the first of several unanswered PINGs is remembered.
TickKeepsFirstPing ==
  /\ timer = "running"
  /\ now >= due
  /\ due' = due + ping_interval
  /\ deaf' = FALSE
  /\ \/ TooLate /\ timer' = "timed_out" /\ UNCHANGED last_ping
     \/ /\ ~TooLate /\ sendq_open
        /\ last_ping' = IF last_ping = None THEN now ELSE last_ping
        /\ UNCHANGED timer
     \/ ~TooLate /\ ~sendq_open /\ timer' = "ended" /\ UNCHANGED last_ping
  /\ UNCHANGED <<config, now, pongs, lagged, sendq_open, heard>>

\* Mutant: the loop goes on after the ERROR.
TickWithoutBreak ==
  /\ timer = "running"
  /\ now >= due
  /\ due' = due + ping_interval
  /\ deaf' = FALSE
  /\ \/ TooLate /\ UNCHANGED <<timer, last_ping>>
     \/ ~TooLate /\ sendq_open /\ last_ping' = now /\ UNCHANGED timer
     \/ ~TooLate /\ ~sendq_open /\ timer' = "ended" /\ UNCHANGED last_ping
  /\ UNCHANGED <<config, now, pongs, lagged, sendq_open, heard>>

(* A tick: the ERROR and the end of the task, or the next PING.  The task  *)
(* ends as well when the PING cannot be queued.                            *)
Tick ==
  /\ timer = "running"
  /\ now >= due
  /\ due' = due + ping_interval
  /\ deaf' = FALSE
  /\ \/ TooLate /\ timer' = "timed_out" /\ UNCHANGED last_ping
     \/ ~TooLate /\ sendq_open /\ last_ping' = now /\ UNCHANGED timer
     \/ ~TooLate /\ ~sendq_open /\ timer' = "ended" /\ UNCHANGED last_ping
  /\ UNCHANGED <<config, now, pongs, lagged, sendq_open, heard>>

(* recv() yields a PONG. *)
TakePong ==
  /\ timer = "running"
  /\ ~deaf /\ ~lagged
  /\ pongs > 0
  /\ pongs' = pongs - 1
  /\ last_ping' = None
  /\ UNCHANGED <<config, now, due, lagged, deaf, sendq_open, timer, heard>>

(* recv() yields Lagged, which the pattern Ok(_) does not match. *)
NoticeLag ==
  /\ timer = "running"
  /\ ~deaf /\ lagged
  /\ lagged' = FALSE
  /\ deaf' = TRUE
  /\ UNCHANGED <<config, now, due, last_ping, pongs, sendq_open, timer, heard>>

(* The client sends a PONG, in answer to a PING or not. *)
HandlePong ==
  /\ heard' = now
  /\ \/ /\ timer = "running" /\ pongs < Capacity
        /\ pongs' = pongs + 1
        /\ UNCHANGED lagged
     \/ /\ timer = "running" /\ pongs = Capacity
        /\ lagged' = TRUE
        /\ UNCHANGED pongs
     \/ /\ timer # "running"
        /\ UNCHANGED <<pongs, lagged>>
  /\ UNCHANGED <<config, now, due, last_ping, deaf, sendq_open, timer>>

(* The writer task ends. *)
SendqCloses ==
  /\ sendq_open
  /\ sendq_open' = FALSE
  /\ UNCHANGED <<config, now, due, last_ping, pongs, lagged, deaf, timer, heard>>

(* cleanup() aborts the task. *)
Abort ==
  /\ timer = "running"
  /\ timer' = "aborted"
  /\ UNCHANGED <<config, now, due, last_ping, pongs, lagged, deaf, sendq_open, heard>>

TimePasses ==
  /\ now < MaxTime
  /\ timer = "running" => now < due + MaxDelay /\ (pongs = 0 \/ deaf)
  /\ now' = now + 1
  /\ UNCHANGED <<config, due, last_ping, pongs, lagged, deaf, sendq_open, timer, heard>>

Next ==
  \/ Tick \/ TakePong \/ NoticeLag
  \/ HandlePong \/ SendqCloses \/ Abort \/ TimePasses

Spec == Init /\ [][Next]_vars

-----------------------------------------------------------------------------
(* Every PING that is sent resets last_ping, answered or not.  So with an  *)
(* interval below the timeout, as in the default configuration (16 and 128 *)
(* seconds), no client is ever timed out.                                  *)
NeverTimesOut == ping_interval + MaxDelay <= ping_timeout => timer # "timed_out"

(* With an interval above the timeout a client is given up after at most   *)
(* three intervals of silence, although PONGs that were sent before it     *)
(* fell silent can still wait in the channel while the task is deaf.       *)
SilenceDetected ==
  ping_interval > ping_timeout + MaxDelay /\ timer = "running"
    => now - heard <= 3 * ping_interval + MaxDelay
=============================================================================
