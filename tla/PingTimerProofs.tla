-------------------------- MODULE PingTimerProofs ---------------------------
(* Proofs about PingTimer, for every interval, timeout and capacity. *)
EXTENDS PingTimer, TLAPS

(* The ping timer keeps its variables in range. *)
THEOREM PingTypeCorrect == Spec => []PingTypeOK
<1>1. Init => PingTypeOK
  <2> SUFFICES ASSUME Init PROVE PingTypeOK
    OBVIOUS
  <2>1. due \in Nat /\ pongs \in 0..Capacity
    BY PingAssumption DEF PingAssumption, Init
  <2> QED
    BY <2>1 DEF Init, PingTypeOK
<1>2. PingTypeOK /\ [Next]_vars => PingTypeOK'
  <2> SUFFICES ASSUME PingTypeOK, [Next]_vars PROVE PingTypeOK'
    OBVIOUS
  <2> USE PingAssumption DEF PingAssumption, PingTypeOK
  <2>1. CASE Tick
    <3>1. due' \in Nat
      BY <2>1 DEF Tick, config
    <3>2. last_ping' \in Nat \cup {None} /\ timer' \in {"running", "timed_out", "ended"}
      BY <2>1 DEF Tick, config
    <3> QED
      BY <2>1, <3>1, <3>2 DEF Tick, config
  <2>2. CASE TakePong
    BY <2>2 DEF TakePong, config, None
  <2>3. CASE NoticeLag
    BY <2>3 DEF NoticeLag, config
  <2>4. CASE HandlePong
    <3>1. pongs' \in 0..Capacity
      BY <2>4 DEF HandlePong, config
    <3>2. lagged' \in BOOLEAN
      BY <2>4 DEF HandlePong, config
    <3> QED
      BY <2>4, <3>1, <3>2 DEF HandlePong, config
  <2>5. CASE SendqCloses
    BY <2>5 DEF SendqCloses, config
  <2>6. CASE Abort
    BY <2>6 DEF Abort, config
  <2>7. CASE TimePasses
    BY <2>7 DEF TimePasses, config
  <2>8. CASE UNCHANGED vars
    BY <2>8 DEF vars, config
  <2> QED
    BY <2>1, <2>2, <2>3, <2>4, <2>5, <2>6, <2>7, <2>8 DEF Next
<1> QED
  BY <1>1, <1>2, PTL DEF Spec

(* No step changes the configuration of the client. *)
LEMMA ConfigFixed ==
  [Next]_vars => ping_interval' = ping_interval /\ ping_timeout' = ping_timeout
BY DEF Next, vars, config, Tick, TakePong, NoticeLag, HandlePong, SendqCloses,
       Abort, TimePasses

(* When the last tick was due. *)
LastTick == due - ping_interval

(* The clock against the schedule of a running timer.  An unanswered PING  *)
(* was sent by the last tick.                                              *)
OnSchedule == timer = "running" =>
  /\ LastTick <= now /\ now <= due + MaxDelay
  /\ last_ping # None => LastTick <= last_ping /\ last_ping <= LastTick + MaxDelay

(* OnSchedule is an invariant.                                             *)
THEOREM Schedule == Spec => []OnSchedule
<1>1. Init => OnSchedule
  BY PingAssumption DEF PingAssumption, Init, OnSchedule, LastTick, None
<1>2. PingTypeOK /\ OnSchedule /\ [Next]_vars => OnSchedule'
  <2> SUFFICES ASSUME PingTypeOK, OnSchedule, [Next]_vars PROVE OnSchedule'
    OBVIOUS
  <2> USE PingAssumption DEF PingAssumption, PingTypeOK, OnSchedule, LastTick, None
  <2>1. CASE Tick
    BY <2>1 DEF Tick, config, TooLate
  <2>2. CASE TakePong
    BY <2>2 DEF TakePong, config
  <2>3. CASE NoticeLag \/ HandlePong \/ SendqCloses \/ Abort
    BY <2>3 DEF NoticeLag, HandlePong, SendqCloses, Abort, config
  <2>4. CASE TimePasses
    BY <2>4 DEF TimePasses, config
  <2>5. CASE UNCHANGED vars
    BY <2>5 DEF vars, config
  <2> QED
    BY <2>1, <2>2, <2>3, <2>4, <2>5 DEF Next
<1> QED
  BY <1>1, <1>2, PingTypeCorrect, PTL DEF Spec

(* Whatever the interval and the timeout are, as long as an interval and   *)
(* the delay of the task fit into the timeout: no client is timed out.     *)
THEOREM NoTimeout == Spec => []NeverTimesOut
<1>1. Init => NeverTimesOut
  BY DEF Init, NeverTimesOut
<1>2. PingTypeOK /\ OnSchedule /\ NeverTimesOut /\ [Next]_vars => NeverTimesOut'
  <2> SUFFICES ASSUME PingTypeOK, OnSchedule, NeverTimesOut, [Next]_vars,
                      ping_interval + MaxDelay <= ping_timeout
               PROVE  timer' # "timed_out"
    BY ConfigFixed DEF NeverTimesOut
  <2> USE DEF NeverTimesOut
  <2>1. CASE Tick
    <3>1. ~TooLate
      BY <2>1, PingAssumption
      DEF PingAssumption, Tick, config, TooLate, OnSchedule, LastTick, PingTypeOK, None
    <3> QED
      BY <2>1, <3>1 DEF Tick, config
  <2>2. CASE TakePong \/ NoticeLag \/ HandlePong \/ SendqCloses \/ Abort \/ TimePasses
    BY <2>2 DEF TakePong, NoticeLag, HandlePong, SendqCloses, Abort, TimePasses, config
  <2>3. CASE UNCHANGED vars
    BY <2>3 DEF vars, config
  <2> QED
    BY <2>1, <2>2, <2>3 DEF Next
<1> QED
  BY <1>1, <1>2, PingTypeCorrect, Schedule, PTL DEF Spec

-----------------------------------------------------------------------------
(* How old a PONG can be that a running timer, whose interval is above the *)
(* timeout, has not acted upon yet: one that waits to be taken, one that   *)
(* was taken since the last tick, or one that made the task deaf.          *)
Silence == ping_interval > ping_timeout + MaxDelay /\ timer = "running" =>
  /\ heard >= LastTick - 2 * ping_interval
  /\ pongs > 0 \/ last_ping = None => heard >= LastTick - ping_interval
  /\ last_ping = None /\ (lagged \/ deaf) => heard >= LastTick
  /\ pongs > 0 /\ ~deaf => heard >= LastTick \/ now <= LastTick + MaxDelay

(* Silence is an invariant.                                                *)
THEOREM SilenceInvariant == Spec => []Silence
<1>1. Init => Silence
  BY PingAssumption DEF PingAssumption, Init, Silence, LastTick, None
<1>2. PingTypeOK /\ OnSchedule /\ Silence /\ [Next]_vars => Silence'
  <2> SUFFICES ASSUME PingTypeOK, OnSchedule, Silence, [Next]_vars,
                      ping_interval > ping_timeout + MaxDelay, timer' = "running"
               PROVE  Silence'
    BY ConfigFixed DEF Silence
  <2> USE PingAssumption DEF PingAssumption, PingTypeOK, OnSchedule, Silence, LastTick, None
  <2>1. CASE Tick
    (* A PING that is unanswered at a tick is too late: the task went on,  *)
    (* so there was none.                                                  *)
    <3>1. timer = "running" /\ now >= due /\ due' = due + ping_interval
          /\ now' = now /\ heard' = heard /\ pongs' = pongs
          /\ ping_interval' = ping_interval
      BY <2>1 DEF Tick, config
    <3>2. ~TooLate /\ last_ping' = now
      BY <2>1 DEF Tick, config
    <3>3. last_ping = None
      BY <3>1, <3>2 DEF TooLate
    <3>4. pongs > 0 => heard >= LastTick
      BY <3>1, <3>3
    <3>5. ping_interval \in Nat \ {0} /\ last_ping' # None /\ LastTick' = due
      BY <3>1, <3>2
    <3> QED
      BY <3>1, <3>3, <3>4, <3>5
  <2>2. CASE TakePong
    BY <2>2 DEF TakePong, config
  <2>3. CASE NoticeLag
    BY <2>3 DEF NoticeLag, config
  <2>4. CASE HandlePong
    BY <2>4 DEF HandlePong, config
  <2>5. CASE SendqCloses \/ Abort
    BY <2>5 DEF SendqCloses, Abort, config
  <2>6. CASE TimePasses
    BY <2>6 DEF TimePasses, config
  <2>7. CASE UNCHANGED vars
    BY <2>7 DEF vars, config
  <2> QED
    BY <2>1, <2>2, <2>3, <2>4, <2>5, <2>6, <2>7 DEF Next
<1> QED
  BY <1>1, <1>2, PingTypeCorrect, Schedule, PTL DEF Spec

(* With an interval above the timeout a silent client is given up after at *)
(* most three intervals and the delay of the task.                         *)
THEOREM SilenceIsDetected == Spec => []SilenceDetected
<1>1. PingTypeOK /\ OnSchedule /\ Silence => SilenceDetected
  BY PingAssumption
  DEF PingAssumption, PingTypeOK, OnSchedule, Silence, SilenceDetected,
      LastTick
<1> QED
  BY <1>1, PingTypeCorrect, Schedule, SilenceInvariant, PTL
=============================================================================
