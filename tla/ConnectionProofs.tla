------------------------- MODULE ConnectionProofs -------------------------
(***************************************************************************)
(* Proofs about Registration and Connection, for any set of clients,       *)
(* nicknames and user names, any case folding, and whichever clients reach *)
(* their 60 seconds.                                                       *)
(*                                                                         *)
(* Registration first.  IInv says of every client which keys of the        *)
(* nickname map are its own (KeysPointwise), what holds in the middle of a *)
(* NICK (RenamingSound) and before the connection is accepted              *)
(* (OfflineFresh), and that registration follows from the two names; the   *)
(* properties of Registration follow from it.                              *)
(*                                                                         *)
(* Then Connection, whose steps are steps of Registration or leave its     *)
(* variables alone (ImplementsRegistration).  LockInv says of every        *)
(* mutex, and of the lock around the client list, which requests it has    *)
(* and which is granted, according to the stage of each connection future; *)
(* the order of the requests comes from FairLockProofs.                    *)
(***************************************************************************)
EXTENDS Connection, FairLockProofs

-----------------------------------------------------------------------------
(* Registration *)

HasKey(c, k) ==
  \/ nickname[c] # NoNick /\ k = Lower[nickname[c]]
  \/ renaming[c] # NoNick /\ k = Lower[renaming[c]]

(* KeysExact, key by key. *)
KeysPointwise == \A c \in Client, k \in Nick :
  nickname_map[k] = c <=> HasKey(c, k)

(* A client in the middle of a NICK has an old nickname of another key,    *)
(* and its read loop waits for the map's lock.                             *)
RenamingSound == \A c \in Client : renaming[c] # NoNick =>
  /\ phase[c] = "online"
  /\ ~cap_negotiating[c]
  /\ nickname[c] # NoNick
  /\ Lower[renaming[c]] # Lower[nickname[c]]

(* A connection that was not accepted yet has no names. *)
OfflineFresh == \A c \in Client : phase[c] = "offline" =>
  /\ ~registered[c]
  /\ ~ping_timer[c]
  /\ nickname[c] = NoNick

IInv ==
  /\ TypeOK
  /\ KeysPointwise
  /\ RenamingSound
  /\ OfflineFresh
  /\ RegisteredIffNamed
  /\ TimerFollowsRegistration

(* One step of one client; Next is a step of some client. *)
Step(c) ==
  Connect(c) \/ Command(c) \/ Continue(c) \/ StopServing(c) \/ Die(c)
             \/ WriterFails(c) \/ TimerEnds(c)

USE RegistrationAssumption

-----------------------------------------------------------------------------
(* Type correctness: the part of the invariant that stands on its own. *)

(* CheckRegistration keeps the types of what it changes. *)
LEMMA CheckTypes ==
  ASSUME TypeOK, NEW c \in Client, NEW n, NEW u, CheckRegistration(c, n, u)
  PROVE  /\ phase' \in [Client -> Phase]
         /\ registered' \in [Client -> BOOLEAN]
         /\ ping_timer' \in [Client -> BOOLEAN]
         /\ ping_tasks' \in [Client -> Nat]
<1>1. ping_tasks[c] + 1 \in Nat
  BY DEF TypeOK
<1>2. \/ UNCHANGED ping_tasks
      \/ ping_tasks' = [ping_tasks EXCEPT ![c] = ping_tasks[c] + 1]
  BY DEF CheckRegistration, StartPingTimer
<1>3. ping_tasks' \in [Client -> Nat]
  BY <1>1, <1>2 DEF TypeOK
<1> QED
  BY <1>3 DEF TypeOK, CheckRegistration, StartPingTimer, Phase

(* Every step keeps the variables in their types. *)
LEMMA TypeStep == TypeOK /\ [Next]_vars => TypeOK'
<1> SUFFICES ASSUME TypeOK, [Next]_vars PROVE TypeOK'
  OBVIOUS
<1>1. CASE UNCHANGED vars
  BY <1>1 DEF TypeOK, vars
<1>2. ASSUME NEW c \in Client, Step(c) PROVE TypeOK'
  <2>1. CASE Connect(c)
    BY <2>1 DEF TypeOK, Connect, Phase
  <2>2. CASE StopServing(c) \/ Die(c)
    BY <2>2 DEF TypeOK, StopServing, Die, Phase
  <2>3. CASE Cleanup(c)
    BY <2>3 DEF TypeOK, Cleanup, Phase
  <2>4. CASE WriterFails(c)
    BY <2>4 DEF TypeOK, WriterFails
  <2>11. CASE TimerEnds(c)
    <3>1. ping_tasks[c] - 1 \in Nat
      BY <2>11 DEF TypeOK, TimerEnds
    <3> QED
      BY <2>11, <3>1 DEF TypeOK, TimerEnds
  <2>5. CASE CapLs(c) \/ CapEnd(c)
    BY <2>5 DEF TypeOK, CapLs, CapEnd, Phase
  <2>6. ASSUME NEW n \in Nick, NickInUse(c, n) PROVE TypeOK'
    BY <2>6 DEF TypeOK, NickInUse, Phase
  <2>7. ASSUME NEW n \in Nick, FirstNick(c, n) PROVE TypeOK'
    BY <2>7, CheckTypes DEF TypeOK, FirstNick
  <2>8. ASSUME NEW n \in Nick, ClaimNewNick(c, n) PROVE TypeOK'
    BY <2>8 DEF TypeOK, ClaimNewNick
  <2>9. CASE ReleaseOldNick(c)
    <3>1. renaming[c] \in Nick
      BY <2>9 DEF TypeOK, ReleaseOldNick
    <3> QED
      BY <2>9, <3>1, CheckTypes DEF TypeOK, ReleaseOldNick
  <2>10. ASSUME NEW u \in User, AcceptUser(c, u) PROVE TypeOK'
    BY <2>10, CheckTypes DEF TypeOK, AcceptUser
  <2> QED
    BY <1>2, <2>1, <2>2, <2>3, <2>4, <2>5, <2>6, <2>7, <2>8, <2>9, <2>10,
       <2>11
    DEF Step, Command, Continue
<1> QED
  BY <1>1, <1>2 DEF Next, Step

(* Type correctness: whatever the clients send, the fields of a client and *)
(* the nickname map hold values of their types.                            *)
THEOREM TypeCorrect == Spec => []TypeOK
<1>1. Init => TypeOK
  BY DEF Init, TypeOK, Phase
<1> QED
  BY <1>1, TypeStep, PTL DEF Spec

-----------------------------------------------------------------------------
(* The strengthened invariant, one lemma per part. *)

(* Reading KeysPointwise as KeysExact. *)
LEMMA KeysEquivalent == TypeOK => (KeysPointwise <=> KeysExact)
<1> SUFFICES ASSUME TypeOK PROVE KeysPointwise <=> KeysExact
  OBVIOUS
<1>1. ASSUME NEW c \in Client, NEW k \in Nick
      PROVE  HasKey(c, k) <=>
               k \in {Lower[n] : n \in {nickname[c], renaming[c]} \ {NoNick}}
  BY DEF HasKey
<1>2. ASSUME NEW c \in Client
      PROVE  {Lower[n] : n \in {nickname[c], renaming[c]} \ {NoNick}}
               \subseteq Nick
  BY DEF TypeOK
<1> QED
  BY <1>1, <1>2 DEF KeysPointwise, KeysExact, KeysOf

(* The keys of a client change only with its names and the map. *)
LEMMA KeysStep == IInv /\ [Next]_vars => KeysPointwise'
<1> SUFFICES ASSUME IInv, [Next]_vars PROVE KeysPointwise'
  OBVIOUS
<1> USE DEF IInv
<1>1. CASE UNCHANGED <<nickname, renaming, nickname_map>>
  BY <1>1 DEF KeysPointwise, HasKey
<1>2. ASSUME NEW c \in Client, NEW n \in Nick, FirstNick(c, n)
      PROVE  KeysPointwise'
  <2>1. renaming[c] = NoNick /\ nickname[c] = NoNick
    BY <1>2 DEF FirstNick, Commanded, Idle
  <2>2. ASSUME NEW d \in Client, NEW k \in Nick
        PROVE  (nickname_map[k] = d <=> HasKey(d, k))'
    <3>1. CASE d = c
      BY <1>2, <2>1, <3>1 DEF FirstNick, KeyTaken, KeysPointwise, HasKey, TypeOK
    <3>2. CASE d # c
      BY <1>2, <3>2 DEF FirstNick, KeyTaken, KeysPointwise, HasKey, TypeOK
    <3> QED
      BY <3>1, <3>2
  <2> QED
    BY <2>2 DEF KeysPointwise
<1>3. ASSUME NEW c \in Client, NEW n \in Nick, ClaimNewNick(c, n)
      PROVE  KeysPointwise'
  <2>1. renaming[c] = NoNick
    BY <1>3 DEF ClaimNewNick, Commanded, Idle
  <2>2. ASSUME NEW d \in Client, NEW k \in Nick
        PROVE  (nickname_map[k] = d <=> HasKey(d, k))'
    <3>1. CASE d = c
      BY <1>3, <2>1, <3>1 DEF ClaimNewNick, KeyTaken, KeysPointwise, HasKey, TypeOK
    <3>2. CASE d # c
      BY <1>3, <3>2 DEF ClaimNewNick, KeyTaken, KeysPointwise, HasKey, TypeOK
    <3> QED
      BY <3>1, <3>2
  <2> QED
    BY <2>2 DEF KeysPointwise
<1>4. ASSUME NEW c \in Client, ReleaseOldNick(c)
      PROVE  KeysPointwise'
  <2>1. /\ renaming[c] \in Nick /\ nickname[c] \in Nick
        /\ Lower[renaming[c]] # Lower[nickname[c]]
    BY <1>4 DEF ReleaseOldNick, RenamingSound, TypeOK
  <2>2. ASSUME NEW d \in Client, NEW k \in Nick
        PROVE  (nickname_map[k] = d <=> HasKey(d, k))'
    <3>1. CASE d = c
      BY <1>4, <2>1, <3>1 DEF ReleaseOldNick, KeysPointwise, HasKey, TypeOK
    <3>2. CASE d # c
      <4>1. nickname_map[Lower[nickname[c]]] = c
        BY <2>1 DEF KeysPointwise, HasKey
      <4>2. HasKey(d, k) <=> HasKey(d, k)'
        BY <1>4, <3>2 DEF ReleaseOldNick, HasKey, TypeOK
      <4> QED
        BY <1>4, <3>2, <4>1, <4>2 DEF ReleaseOldNick, KeysPointwise, TypeOK
    <3> QED
      BY <3>1, <3>2
  <2> QED
    BY <2>2 DEF KeysPointwise
<1>5. UNCHANGED <<nickname, renaming, nickname_map>>
      \/ \E c \in Client : \/ \E n \in Nick : FirstNick(c, n) \/ ClaimNewNick(c, n)
                           \/ ReleaseOldNick(c)
  BY DEF Next, vars, Command, Continue, Connect, Cleanup, StopServing, Die,
         WriterFails, TimerEnds, CapLs, CapEnd, NickInUse, AcceptUser
<1> QED
  BY <1>1, <1>2, <1>3, <1>4, <1>5

(* NICK leaves and enters its middle with two different keys, and no other *)
(* step of the client happens meanwhile.                                   *)
LEMMA RenamingStep == IInv /\ [Next]_vars => RenamingSound'
<1> SUFFICES ASSUME IInv, [Next]_vars PROVE RenamingSound'
  OBVIOUS
<1> USE DEF IInv
<1>1. CASE UNCHANGED vars
  BY <1>1 DEF vars, RenamingSound
<1>2. ASSUME NEW c \in Client, Step(c) PROVE RenamingSound'
  <2>1. CASE \/ Connect(c) \/ StopServing(c) \/ Die(c) \/ CapLs(c) \/ CapEnd(c)
             \/ \E n \in Nick : NickInUse(c, n)
    BY <2>1 DEF RenamingSound, TypeOK, Connect, StopServing, Die, CapLs,
                CapEnd, NickInUse, Commanded, Idle
  <2>2. CASE Cleanup(c) \/ WriterFails(c) \/ TimerEnds(c)
    BY <2>2 DEF RenamingSound, TypeOK, Cleanup, WriterFails, TimerEnds
  <2>3. ASSUME NEW n \in Nick, FirstNick(c, n) PROVE RenamingSound'
    BY <2>3 DEF RenamingSound, TypeOK, FirstNick, Commanded, Idle,
                CheckRegistration
  <2>4. ASSUME NEW n \in Nick, ClaimNewNick(c, n) PROVE RenamingSound'
    <3>1. nickname[c] \in Nick /\ nickname_map[Lower[nickname[c]]] = c
      BY <2>4 DEF ClaimNewNick, KeysPointwise, HasKey, TypeOK
    <3>2. Lower[n] # Lower[nickname[c]]
      BY <2>4, <3>1 DEF ClaimNewNick, KeyTaken
    <3> QED
      BY <2>4, <3>2 DEF RenamingSound, TypeOK, ClaimNewNick, Commanded, Idle
  <2>5. CASE ReleaseOldNick(c)
    BY <2>5 DEF RenamingSound, TypeOK, ReleaseOldNick, CheckRegistration
  <2>6. ASSUME NEW u \in User, AcceptUser(c, u) PROVE RenamingSound'
    BY <2>6 DEF RenamingSound, TypeOK, AcceptUser, Commanded, Idle,
                CheckRegistration
  <2> QED
    BY <1>2, <2>1, <2>2, <2>3, <2>4, <2>5, <2>6 DEF Step, Command, Continue
<1> QED
  BY <1>1, <1>2 DEF Next, Step

(* What CheckRegistration decides, for a client that was consistent: in    *)
(* particular it starts a timer only where none runs.                      *)
LEMMA CheckDecides ==
  ASSUME TypeOK, NEW c \in Client, NEW n, NEW u, CheckRegistration(c, n, u),
         ~cap_negotiating[c], n # NoNick \/ ~registered[c],
         u # NoUser \/ ~registered[c], phase[c] = "online",
         ping_timer[c] <=> registered[c],
         ping_tasks[c] <= 1, ping_tasks[c] > 0 => ping_timer[c]
  PROVE  /\ registered'[c] <=> registered[c] \/ (n # NoNick /\ u # NoUser)
         /\ phase'[c] = "online" => (ping_timer'[c] <=> registered'[c])
         /\ ping_timer'[c] => registered'[c]
         /\ ping_tasks'[c] <= 1 /\ (ping_tasks'[c] > 0 => ping_timer'[c])
         /\ phase'[c] \in {"online", "closing"}
         /\ registered[c] => registered'[c]
         /\ \A d \in Client \ {c} : /\ registered'[d] = registered[d]
                                    /\ ping_timer'[d] = ping_timer[d]
                                    /\ ping_tasks'[d] = ping_tasks[d]
                                    /\ phase'[d] = phase[d]
<1>1. CASE Ready(c, n, u)
  BY <1>1 DEF CheckRegistration, StartPingTimer, TypeOK, Ready
<1>2. CASE ~Ready(c, n, u)
  BY <1>2 DEF CheckRegistration, StartPingTimer, TypeOK, Ready
<1> QED
  BY <1>1, <1>2

(* Registration, its timer and the state before the connection agree after *)
(* every step.                                                             *)
LEMMA RegisteredStep ==
  IInv /\ [Next]_vars
    => RegisteredIffNamed' /\ TimerFollowsRegistration' /\ OfflineFresh'
<1> DEFINE Goal == RegisteredIffNamed /\ TimerFollowsRegistration /\ OfflineFresh
<1> SUFFICES ASSUME IInv, [Next]_vars PROVE Goal'
  OBVIOUS
<1> USE DEF IInv, RegisteredIffNamed, TimerFollowsRegistration, OfflineFresh
<1>1. CASE UNCHANGED vars
  BY <1>1 DEF vars
<1>2. ASSUME NEW c \in Client, Step(c) PROVE Goal'
  <2>1. CASE Connect(c) \/ StopServing(c) \/ Die(c)
    BY <2>1 DEF TypeOK, Connect, StopServing, Die, Idle
  <2>2. CASE Cleanup(c) \/ WriterFails(c) \/ TimerEnds(c)
    BY <2>2 DEF TypeOK, Cleanup, WriterFails, TimerEnds
  <2>3. CASE CapLs(c) \/ CapEnd(c)
    BY <2>3 DEF TypeOK, CapLs, CapEnd, Idle
  <2>4. ASSUME NEW n \in Nick, NickInUse(c, n) PROVE Goal'
    BY <2>4 DEF TypeOK, NickInUse, Commanded, Idle
  <2>5. ASSUME NEW n \in Nick, FirstNick(c, n) PROVE Goal'
    <3>1. /\ phase[c] = "online" /\ ~cap_negotiating[c] /\ ~registered[c]
          /\ ~ping_timer[c] /\ n # NoNick
      BY <2>5 DEF FirstNick, Commanded, Idle
    <3>2. CheckRegistration(c, n, username[c])
      BY <2>5 DEF FirstNick
    <3>3. /\ nickname' = [nickname EXCEPT ![c] = n]
          /\ username' = username
      BY <2>5 DEF FirstNick
    <3> HIDE DEF IInv
    <3>4. TypeOK
      BY DEF IInv
    <3> QED
      BY <3>1, <3>2, <3>3, <3>4, CheckDecides DEF IInv, TypeOK
  <2>6. ASSUME NEW n \in Nick, ClaimNewNick(c, n) PROVE Goal'
    BY <2>6 DEF TypeOK, ClaimNewNick
  <2>7. CASE ReleaseOldNick(c)
    <3>1. /\ phase[c] = "online" /\ ~cap_negotiating[c] /\ nickname[c] # NoNick
          /\ renaming[c] # NoNick
      BY <2>7 DEF ReleaseOldNick, RenamingSound
    <3>2. CheckRegistration(c, renaming[c], username[c])
      BY <2>7 DEF ReleaseOldNick
    <3>3. /\ nickname' = [nickname EXCEPT ![c] = renaming[c]]
          /\ username' = username
      BY <2>7 DEF ReleaseOldNick
    <3> QED
      BY <3>1, <3>2, <3>3, CheckDecides DEF TypeOK
  <2>8. ASSUME NEW u \in User, AcceptUser(c, u) PROVE Goal'
    <3>1. /\ phase[c] = "online" /\ ~cap_negotiating[c] /\ ~registered[c]
          /\ ~ping_timer[c] /\ u # NoUser
      BY <2>8 DEF AcceptUser, Commanded, Idle
    <3>2. CheckRegistration(c, nickname[c], u)
      BY <2>8 DEF AcceptUser
    <3>3. /\ username' = [username EXCEPT ![c] = u]
          /\ nickname' = nickname
      BY <2>8 DEF AcceptUser
    <3> QED
      BY <3>1, <3>2, <3>3, CheckDecides DEF TypeOK
  <2> QED
    BY <1>2, <2>1, <2>2, <2>3, <2>4, <2>5, <2>6, <2>7, <2>8
    DEF Step, Command, Continue
<1> QED
  BY <1>1, <1>2 DEF Next, Step

(* IInv holds in every reachable state. *)
THEOREM Invariant == Spec => []IInv
<1>1. Init => IInv
  BY DEF Init, IInv, TypeOK, Phase, KeysPointwise, HasKey, RenamingSound,
         OfflineFresh, RegisteredIffNamed, TimerFollowsRegistration
<1>2. IInv /\ [Next]_vars => IInv'
  BY TypeStep, KeysStep, RenamingStep, RegisteredStep DEF IInv
<1> QED
  BY <1>1, <1>2, PTL DEF Spec

-----------------------------------------------------------------------------
(* The properties. *)

(* The map never loses a nickname in use and never keeps one that was      *)
(* changed: KeysExact, whatever NICK commands interleave.                  *)
THEOREM KeysAlwaysExact == Spec => []KeysExact
<1>1. IInv => KeysExact
  BY KeysEquivalent DEF IInv
<1> QED
  BY <1>1, Invariant, PTL

(* Two clients never have nicknames that fold to the same key. *)
THEOREM NicknamesUnique == Spec => []NickUnique
<1>1. IInv => NickUnique
  <2> SUFFICES ASSUME IInv, NEW c \in Client, NEW d \in Client, c # d,
                      nickname[c] # NoNick, nickname[d] # NoNick
               PROVE  Lower[nickname[c]] # Lower[nickname[d]]
    BY DEF NickUnique
  <2>1. nickname[c] \in Nick /\ nickname[d] \in Nick
    BY DEF IInv, TypeOK
  <2> QED
    BY <2>1 DEF IInv, KeysPointwise, HasKey
<1> QED
  BY <1>1, Invariant, PTL

(* A client is registered exactly when it has a nickname and a user name,  *)
(* in whatever order CAP, NICK and USER came.                              *)
THEOREM RegistrationComplete == Spec => []RegisteredIffNamed
<1>1. IInv => RegisteredIffNamed
  BY DEF IInv
<1> QED
  BY <1>1, Invariant, PTL

(* A client never has two ping timer tasks; one that runs is that of a     *)
(* registered client and can be aborted, and none runs after cleanup().    *)
THEOREM TimerFollows == Spec => []TimerFollowsRegistration
<1>1. IInv => TimerFollowsRegistration
  BY DEF IInv
<1> QED
  BY <1>1, Invariant, PTL

(* Once registered, a client stays registered, keeps its user name and     *)
(* always has a nickname.                                                  *)
THEOREM RegistrationFinal == Spec => RegistrationIsFinal
<1> DEFINE Kept == \A c \in Client : registered[c] =>
                     /\ registered'[c]
                     /\ username'[c] = username[c]
                     /\ nickname'[c] # NoNick
<1>1. IInv /\ [Next]_vars => [Kept]_vars
  <2> SUFFICES ASSUME IInv, NEW c \in Client, Step(c),
                      NEW d \in Client, registered[d]
               PROVE  /\ registered'[d]
                      /\ username'[d] = username[d]
                      /\ nickname'[d] # NoNick
    BY DEF Next, Step
  <2>1. nickname[d] # NoNick
    BY DEF IInv, RegisteredIffNamed
  <2>2. ASSUME NEW n, NEW u, CheckRegistration(c, n, u) PROVE registered'[d]
    BY <2>2 DEF IInv, TypeOK, CheckRegistration, Ready
  <2>3. CASE \/ Connect(c) \/ StopServing(c) \/ Die(c) \/ CapLs(c) \/ CapEnd(c)
             \/ Cleanup(c) \/ WriterFails(c) \/ TimerEnds(c)
             \/ \E n \in Nick : NickInUse(c, n) \/ ClaimNewNick(c, n)
    BY <2>1, <2>3 DEF Connect, StopServing, Die, CapLs, CapEnd, Cleanup,
                      WriterFails, TimerEnds, NickInUse, ClaimNewNick
  <2>4. ASSUME NEW n \in Nick, FirstNick(c, n)
        PROVE  /\ registered'[d]
               /\ username'[d] = username[d]
               /\ nickname'[d] # NoNick
    BY <2>1, <2>2, <2>4 DEF IInv, TypeOK, FirstNick
  <2>5. CASE ReleaseOldNick(c)
    BY <2>1, <2>2, <2>5 DEF IInv, TypeOK, ReleaseOldNick
  <2>6. ASSUME NEW u \in User, AcceptUser(c, u)
        PROVE  /\ registered'[d]
               /\ username'[d] = username[d]
               /\ nickname'[d] # NoNick
    BY <2>1, <2>2, <2>6 DEF IInv, TypeOK, AcceptUser
  <2> QED
    BY <2>3, <2>4, <2>5, <2>6 DEF Step, Command, Continue
<1> QED
  BY <1>1, Invariant, PTL DEF Spec, RegistrationIsFinal

(* Registration implements NickDirectory: every step maps to a claim, a    *)
(* release or a stutter of the abstract directory.                         *)
THEOREM ImplementsDirectory == Spec => DirectorySpec
<1>1. Init => Directory!Init
  BY DEF Init, Directory!Init
<1>2. IInv /\ [Next]_vars => [Directory!Next]_nickname_map
  <2> SUFFICES ASSUME IInv, [Next]_vars PROVE [Directory!Next]_nickname_map
    OBVIOUS
  <2>1. CASE UNCHANGED nickname_map
    BY <2>1
  <2>2. ASSUME NEW c \in Client, NEW n \in Nick, FirstNick(c, n)
        PROVE  Directory!Next
    <3>1. \A k \in Nick : nickname_map[k] # c
      BY <2>2 DEF FirstNick, Commanded, Idle, IInv, KeysPointwise, HasKey
    <3>2. Directory!Claim(c, Lower[n])
      BY <2>2, <3>1 DEF FirstNick, KeyTaken, Directory!Claim, Directory!Owns
    <3> QED
      BY <3>2 DEF Directory!Next
  <2>3. ASSUME NEW c \in Client, NEW n \in Nick, ClaimNewNick(c, n)
        PROVE  Directory!Next
    <3>1. \A k \in Nick : nickname_map[k] = c => k = Lower[nickname[c]]
      BY <2>3 DEF ClaimNewNick, Commanded, Idle, IInv, KeysPointwise, HasKey
    <3>2. Directory!Claim(c, Lower[n])
      BY <2>3, <3>1 DEF ClaimNewNick, KeyTaken, Directory!Claim, Directory!Owns
    <3> QED
      BY <3>2 DEF Directory!Next
  <2>4. ASSUME NEW c \in Client, ReleaseOldNick(c)
        PROVE  Directory!Next
    <3>1. /\ nickname[c] \in Nick /\ renaming[c] \in Nick
          /\ Lower[renaming[c]] # Lower[nickname[c]]
      BY <2>4 DEF ReleaseOldNick, IInv, RenamingSound, TypeOK
    <3>2. /\ nickname_map[Lower[nickname[c]]] = c
          /\ nickname_map[Lower[renaming[c]]] = c
      BY <3>1 DEF IInv, KeysPointwise, HasKey
    <3>3. Directory!Release(c, Lower[nickname[c]])
      BY <2>4, <3>1, <3>2 DEF ReleaseOldNick, Directory!Release, Directory!Owns
    <3> QED
      BY <3>1, <3>3 DEF Directory!Next
  <2>5. UNCHANGED nickname_map
        \/ \E c \in Client : \/ \E n \in Nick : FirstNick(c, n) \/ ClaimNewNick(c, n)
                             \/ ReleaseOldNick(c)
    BY DEF Next, vars, Command, Continue, Connect, Cleanup, StopServing, Die,
           WriterFails, TimerEnds, CapLs, CapEnd, NickInUse, AcceptUser
  <2> QED
    BY <2>1, <2>2, <2>3, <2>4, <2>5
<1> QED
  BY <1>1, <1>2, Invariant, PTL DEF Spec, DirectorySpec, Directory!Spec

-----------------------------------------------------------------------------
(* Connection *)

(* One step of one client, connection and timer branch. *)
ConnStep(c) ==
  \/ Progress(c)
  \/ Accept(c) \/ Serve(c) \/ Panic(c) \/ Lusers(c)
  \/ \E n \in Nick, cmd \in {"PRIVMSG", "WHO"} : FindNick(c, n, cmd)
  \/ (\E d \in Client : Quit(c, d)) \/ LeftChannels(c)
  \/ TimeoutFires(c) \/ WriterDies(c) \/ TimerTaskEnds(c)

-----------------------------------------------------------------------------
(* Registration inside Connection.  Each action of Connection is written   *)
(* as an action of Registration and its locks, or leaves the variables of  *)
(* Registration alone, so that the lemma says nothing of the code; it      *)
(* brings the invariants of Registration over to Connection.               *)
LEMMA ImplementsRegistration == ConnSpec => Spec
<1>1. ConnInit => Init
  BY DEF ConnInit
<1>2. ASSUME NEW c \in Client, ConnStep(c) PROVE [Next]_vars
  <2>1. CASE UNCHANGED vars
    BY <2>1
  <2>2. CASE \/ Connect(c) \/ Command(c) \/ StopServing(c)
             \/ ReleaseOldNick(c) \/ Die(c) \/ WriterFails(c) \/ Cleanup(c)
             \/ TimerEnds(c)
    BY <2>2 DEF Next, Continue
  <2> QED
    BY <1>2, <2>1, <2>2
    DEF ConnStep, Progress, AddClient, BeginServing, FinishRename, FindClient,
        Deliver, DeliverFails, WhoPanics, CountClients, ReplyFails, CleanUp, Quit, QuitSent,
        LeftChannels, RemoveFromList, RemoveFromMap, TimerCheck, TimerExpires, Accept,
        Serve, Panic, WriterDies, TimerTaskEnds, Lusers, FindNick, TimeoutFires
<1>3. [ConnNext]_allVars => [Next]_vars
  <2>1. CASE UNCHANGED allVars
    BY <2>1 DEF allVars, vars
  <2> QED
    BY <1>2, <2>1 DEF ConnNext, ConnStep
<1> QED
  BY <1>1, <1>3, PTL DEF ConnSpec, Spec

(* Two clients never have the same folded nickname, also when connections  *)
(* freeze, panic or are dropped.                                           *)
THEOREM ConnNicknamesUnique == ConnSpec => []NickUnique
BY ImplementsRegistration, NicknamesUnique, PTL

-----------------------------------------------------------------------------
(* Requests of different clients or for different purposes differ. *)
LEMMA RequestsDiffer ==
  ASSUME NEW c, NEW d
  PROVE  /\ Own(c) # Send(d) /\ Own(c) # Check(d) /\ Send(c) # Check(d)
         /\ Write(c) # Read(d)
         /\ Own(c) = Own(d) <=> c = d
         /\ Send(c) = Send(d) <=> c = d
         /\ Check(c) = Check(d) <=> c = d
         /\ Write(c) = Write(d) <=> c = d
         /\ Read(c) = Read(d) <=> c = d
BY DEF Own, Send, Check, Write, Read

LEMMA RequestsOfOne ==
  ASSUME NEW c, NEW d
  PROVE  /\ Own(d) \in RequestsOf(c) <=> d = c
         /\ Send(d) \in RequestsOf(c) <=> d = c
         /\ Check(d) \in RequestsOf(c) <=> d = c
         /\ Write(d) \in RequestsOf(c) <=> d = c
         /\ Read(d) \in RequestsOf(c) <=> d = c
BY DEF RequestsOf, Own, Send, Check, Write, Read

LEMMA RequestsTyped ==
  ASSUME NEW c \in Client
  PROVE  /\ Own(c) \in Request /\ Send(c) \in Request /\ Check(c) \in Request
         /\ Write(c) \in Request /\ Read(c) \in Request
BY DEF Request, RequestsOf

(* The operations of a lock keep its pairs requests. *)
LEMMA LockTyped ==
  ASSUME NEW lock \in SUBSET (Request \X Request)
  PROVE  /\ \A r \in Request : Enqueue(lock, r) \in SUBSET (Request \X Request)
         /\ \A R : Withdraw(lock, R) \in SUBSET (Request \X Request)
         /\ \A r : Release(lock, r) \in SUBSET (Request \X Request)
<1>1. Requests(lock) \subseteq Request
  BY DEF Requests
<1> QED
  BY <1>1 DEF Enqueue, Withdraw, Release

-----------------------------------------------------------------------------
(* The part of LockDiscipline about the mutex of c, and about the list. *)
MutexKept(c) ==
  /\ Fifo(mutex[c])
  /\ Own(c) \in Requests(mutex[c]) <=> stage[c] \in Holding \cup Asking
  /\ stage[c] \in Holding => Granted(mutex[c], Own(c))
  /\ Check(c) \in Requests(mutex[c]) <=> Frozen(c)
  /\ \A d \in Client : /\ Send(d) \in Requests(mutex[c])
                         <=> stage[d] \in Addressing /\ query[d].to = c
                       /\ d # c => Own(d) \notin Requests(mutex[c])

ListKept(c) ==
  /\ Write(c) \in Requests(clients_lock)
       <=> stage[c] \in {"adding", "removing", "unmapping"}
  /\ stage[c] = "unmapping" => Granted(clients_lock, Write(c))
  /\ Read(c) \in Requests(clients_lock) <=> stage[c] = "counting"

(* The read loop runs in a reading stage, and a message has an addressee.  *)
StageSound == \A c \in Client :
  /\ stage[c] \in ReadStage <=> phase[c] = "online"
  /\ stage[c] = "cleaning" => phase[c] = "closing"
  /\ stage[c] \in {"looking"} \cup Addressing => query[c].to \in Client
  /\ stage[c] = "none" => timer[c] = "armed"

LockInv ==
  /\ ConnTypeOK
  /\ StageSound
  /\ \A c \in Client : MutexKept(c) /\ ListKept(c)
  /\ Fifo(clients_lock)

LEMMA LockInvDiscipline == LockInv => LockDiscipline
BY DEF LockInv, LockDiscipline, MutexKept, ListKept

-----------------------------------------------------------------------------
(* Types. *)
LEMMA ConnTypeStep ==
  ASSUME ConnTypeOK, TypeOK, NEW c \in Client, ConnStep(c), StageSound
  PROVE  ConnTypeOK'
<1> DEFINE Locks == SUBSET (Request \X Request)
<1>0. /\ \A lock \in Locks, r \in Request :
              Enqueue(lock, r) \in Locks /\ Release(lock, r) \in Locks
      /\ \A lock \in Locks : \A R : Withdraw(lock, R) \in Locks
  BY LockTyped
<1> HIDE DEF Locks
<1>t. /\ Own(c) \in Request /\ Send(c) \in Request /\ Check(c) \in Request
      /\ Write(c) \in Request /\ Read(c) \in Request
  BY RequestsTyped
<1>a. mutex \in [Client -> Locks] /\ clients_lock \in Locks
  BY DEF Locks, ConnTypeOK
<1>b. clients_lock' \in Locks
  <2>1. \/ clients_lock' = clients_lock
        \/ \E r \in {Write(c), Read(c)} :
              \/ clients_lock' = Enqueue(clients_lock, r)
              \/ clients_lock' = Release(clients_lock, r)
        \/ clients_lock' = Withdraw(clients_lock, RequestsOf(c))
    BY DEF ConnStep, Progress, AddClient, BeginServing, FinishRename,
        FindClient, Deliver, DeliverFails, WhoPanics, CountClients, ReplyFails, CleanUp, Quit, QuitSent,
        LeftChannels, RemoveFromList, RemoveFromMap, TimerCheck, TimerExpires, Accept,
        Serve, Panic, WriterDies, TimerTaskEnds, Lusers, FindNick, TimeoutFires, connVars,
        Forget
  <2> QED
    BY <1>0, <1>t, <1>a, <2>1
<1>g. mutex' \in [Client -> Locks]
  <2>1. \A d \in Client : mutex[d] \in Locks
    BY <1>a
  <2>2. /\ Enqueue(mutex[c], Own(c)) \in Locks
        /\ Release(mutex[c], Own(c)) \in Locks
        /\ Enqueue(Release(mutex[c], Own(c)), Own(c)) \in Locks
        /\ Enqueue(mutex[c], Check(c)) \in Locks
        /\ Release(mutex[c], Check(c)) \in Locks
        /\ Enqueue(Release(mutex[c], Check(c)), Check(c)) \in Locks
    BY <1>0, <1>t, <2>1
  <2>3. \A d \in Client : /\ Enqueue(mutex[d], Send(c)) \in Locks
                          /\ Release(mutex[d], Send(c)) \in Locks
                          /\ Withdraw(mutex[d], RequestsOf(c)) \in Locks
    BY <1>0, <1>t, <2>1
  <2>4. CASE \E lock \in Locks : mutex' = [mutex EXCEPT ![c] = lock]
    BY <1>a, <2>4
  <2>5. CASE UNCHANGED mutex
    BY <1>a, <2>5
  <2>6. CASE Forget(c)
    BY <2>3, <2>6 DEF Forget
  <2>7. CASE FindClient(c)
    <3>1. \/ UNCHANGED mutex
          \/ mutex' = [mutex EXCEPT ![query[c].to]
                          = Enqueue(mutex[query[c].to], Send(c))]
      BY <2>7 DEF FindClient
    <3> QED
      BY <1>a, <2>3, <3>1
  <2>8. CASE Deliver(c) \/ QuitSent(c)
    <3>1. mutex' = [mutex EXCEPT ![query[c].to]
                      = Release(mutex[query[c].to], Send(c))]
      BY <2>8 DEF Deliver, QuitSent
    <3> QED
      BY <1>a, <2>3, <3>1
  <2>10. ASSUME NEW x \in Client, Quit(c, x) PROVE mutex' \in [Client -> Locks]
    <3>1. mutex' = [mutex EXCEPT ![x] = Enqueue(mutex[x], Send(c))]
      BY <2>10 DEF Quit
    <3> QED
      BY <1>a, <2>3, <3>1
  <2>9. CASE DeliverFails(c)
    <3>1. query[c].to \in Client
      BY <2>9 DEF DeliverFails, Reached, At, StageSound, Addressing
    <3> DEFINE to == query[c].to
               freed == Release(mutex[to], Send(c))
    <3>2. freed \in Locks
      BY <2>3, <3>1
    <3>3. Release(freed, Own(c)) \in Locks
      BY <1>0, <1>t, <3>2
    <3>4. Enqueue(Release(freed, Own(c)), Own(c)) \in Locks
      BY <1>0, <1>t, <3>3
    <3>5. mutex' = [mutex EXCEPT
            ![to] = Release(@, Send(c)),
            ![c] = Enqueue(Release(@, Own(c)), Own(c))]
      BY <2>9 DEF DeliverFails
    <3> QED
      BY <1>a, <2>2, <3>1, <3>2, <3>4, <3>5
  <2> QED
    BY <2>2, <2>4, <2>5, <2>6, <2>7, <2>8, <2>9, <2>10
    DEF ConnStep, Progress, AddClient, BeginServing, FinishRename, WhoPanics,
        CountClients, ReplyFails, CleanUp, Quit, QuitSent, LeftChannels, RemoveFromList, RemoveFromMap, TimerCheck,
        TimerExpires, Accept, Serve, AfterHandler, Panic, WriterDies, TimerTaskEnds, Lusers,
        FindNick, TimeoutFires, connVars
<1> USE DEF ConnTypeOK, MoveTo, Stage, ReadStage, LeaveStage
<1>c. stage' \in [Client -> Stage]
  <2>1. stage' = stage \/ \E s \in Stage : stage' = [stage EXCEPT ![c] = s]
    BY DEF ConnStep, Progress, AddClient, BeginServing, FinishRename, FindClient,
        Deliver, DeliverFails, WhoPanics, CountClients, ReplyFails, CleanUp, Quit, QuitSent,
        LeftChannels, RemoveFromList, RemoveFromMap, TimerCheck, TimerExpires, Accept,
        Serve, Panic, WriterDies, TimerTaskEnds, Lusers, FindNick, TimeoutFires, connVars,
        AfterHandler
  <2> QED
    BY <2>1
<1>d. timer' \in [Client -> Timer]
  BY DEF Timer, ConnStep, Progress, AddClient, BeginServing, FinishRename, FindClient,
      Deliver, DeliverFails, WhoPanics, CountClients, ReplyFails, CleanUp, Quit, QuitSent,
      LeftChannels, RemoveFromList, RemoveFromMap, TimerCheck, TimerExpires, Accept,
      Serve, Panic, WriterDies, TimerTaskEnds, Lusers, FindNick, TimeoutFires, connVars
<1>e. query' \in [Client -> Query]
  <2>1. ASSUME NEW n \in Nick, NEW cmd \in {"PRIVMSG", "WHO"}, FindNick(c, n, cmd)
        PROVE  query' \in [Client -> Query]
    <3>1. nickname_map[Lower[n]] \in Client
      BY <2>1, RegistrationAssumption DEF FindNick, KeyTaken, TypeOK
    <3>2. [cmd |-> cmd, to |-> nickname_map[Lower[n]]] \in Query
      BY <3>1 DEF Query
    <3> QED
      BY <2>1, <3>2 DEF FindNick
  <2>2. NoQuery \in Query
    BY DEF Query
  <2>3. \A x \in Client : [cmd |-> "QUIT", to |-> x] \in Query
    BY DEF Query
  <2> QED
    BY <2>1, <2>2, <2>3
    DEF ConnStep, Progress, AddClient, BeginServing, FinishRename, FindClient,
        Deliver, DeliverFails, WhoPanics, CountClients, ReplyFails, CleanUp, Quit, QuitSent,
        LeftChannels, RemoveFromList, RemoveFromMap, TimerCheck, TimerExpires, Accept,
        Serve, Panic, WriterDies, TimerTaskEnds, Lusers, TimeoutFires, connVars
<1>f. clients' \subseteq Client /\ client_map' \subseteq Client
  BY DEF ConnStep, Progress, AddClient, BeginServing, FinishRename, FindClient,
      Deliver, DeliverFails, WhoPanics, CountClients, ReplyFails, CleanUp, Quit, QuitSent,
      LeftChannels, RemoveFromList, RemoveFromMap, TimerCheck, TimerExpires, Accept,
      Serve, Panic, WriterDies, TimerTaskEnds, Lusers, FindNick, TimeoutFires, connVars
<1> QED
  BY <1>b, <1>g, <1>c, <1>d, <1>e, <1>f DEF Locks

-----------------------------------------------------------------------------
(* The mutexes. *)

(* A mutex that did not change is kept when the stages still fit it. *)
LEMMA MutexSame ==
  ASSUME NEW e \in Client, MutexKept(e), mutex'[e] = mutex[e],
         timer'[e] = timer[e],
         stage'[e] \in Holding \cup Asking <=> stage[e] \in Holding \cup Asking,
         stage'[e] \in Holding => Granted(mutex[e], Own(e)),
         \A d \in Client : stage'[d] \in Addressing /\ query'[d].to = e
                             <=> stage[d] \in Addressing /\ query[d].to = e
  PROVE  MutexKept(e)'
BY DEF MutexKept, Frozen

(* A future that holds its mutex excludes every other from the grant. *)
LEMMA ReaderHolds ==
  ASSUME NEW c \in Client, MutexKept(c), NEW r, Granted(mutex[c], r), r # Own(c)
  PROVE  stage[c] \notin Holding
BY OneHolder DEF MutexKept

(* The requests of a mutex after an operation that is about one request.   *)
LEMMA LockOps ==
  ASSUME NEW lock, NEW r, Fifo(lock)
  PROVE  /\ r \notin Requests(lock) => Fifo(Enqueue(lock, r))
         /\ Requests(Enqueue(lock, r)) = Requests(lock) \cup {r}
         /\ \A s : s # r /\ Granted(lock, s) => Granted(Enqueue(lock, r), s)
         /\ Fifo(Release(lock, r))
         /\ Requests(Release(lock, r)) = Requests(lock) \ {r}
         /\ \A s : s # r /\ Granted(lock, s) => Granted(Release(lock, r), s)
         /\ r \in Requests(lock) =>
              /\ Fifo(Enqueue(Release(lock, r), r))
              /\ Requests(Enqueue(Release(lock, r), r)) = Requests(lock)
<1>1. /\ Fifo(Release(lock, r))
      /\ Requests(Release(lock, r)) = Requests(lock) \ {r}
  BY WithdrawFifo, WithdrawRequests DEF Release
<1>2. \A s : s # r /\ Granted(lock, s) => Granted(Release(lock, r), s)
  BY WithdrawGranted DEF Release
<1>3. /\ Fifo(Enqueue(Release(lock, r), r))
      /\ Requests(Enqueue(Release(lock, r), r)) = (Requests(lock) \ {r}) \cup {r}
  <2>1. r \notin Requests(Release(lock, r))
    BY <1>1
  <2> QED
    BY <1>1, <2>1, EnqueueFifo, EnqueueRequests
<1>4. /\ r \notin Requests(lock) => Fifo(Enqueue(lock, r))
      /\ Requests(Enqueue(lock, r)) = Requests(lock) \cup {r}
  BY EnqueueFifo, EnqueueRequests
<1>5. \A s : s # r /\ Granted(lock, s) => Granted(Enqueue(lock, r), s)
  BY EnqueueGranted
<1> QED
  BY <1>1, <1>2, <1>3, <1>4, <1>5

LEMMA MutexStep ==
  ASSUME ConnTypeOK, StageSound, \A d \in Client : MutexKept(d),
         NEW c \in Client, ConnStep(c), NEW e \in Client
  PROVE  MutexKept(e)'
<1> USE DEF At, MoveTo
<1>k. MutexKept(c) /\ MutexKept(e) /\ Fifo(mutex[c]) /\ Fifo(mutex[e])
  BY DEF MutexKept
<1>d. /\ Own(c) # Send(c) /\ Own(c) # Check(c) /\ Send(c) # Check(c)
      /\ Own(e) # Send(c) /\ Own(e) # Check(e) /\ Check(e) # Send(c)
      /\ \A d : /\ Own(c) # Send(d) /\ Check(c) # Send(d) /\ Check(c) # Own(d)
                /\ Own(c) = Own(d) <=> c = d
                /\ Send(c) = Send(d) <=> c = d
  BY RequestsDiffer
<1> USE DEF ConnTypeOK, Holding, ReadStage, LeaveStage, Asking, Addressing
<1>1. CASE BeginServing(c)
  <2>1. CASE e = c
    BY <1>k, <1>1, <2>1, MutexSame DEF BeginServing
  <2>2. CASE e # c
    BY <1>k, <1>1, <2>2, MutexSame DEF BeginServing, MutexKept
  <2> QED
    BY <2>1, <2>2
<1>2. CASE Accept(c) \/ RemoveFromList(c) \/ RemoveFromMap(c)
  BY <1>k, <1>2, MutexSame DEF Accept, RemoveFromList, RemoveFromMap, MutexKept
<1>3. CASE Lusers(c) \/ CountClients(c)
  BY <1>k, <1>3, MutexSame DEF Lusers, CountClients, MutexKept
<1>4. ASSUME NEW n \in Nick, NEW cmd \in {"PRIVMSG", "WHO"}, FindNick(c, n, cmd)
      PROVE  MutexKept(e)'
  BY <1>k, <1>4, MutexSame DEF FindNick, MutexKept
<1>5. CASE WriterDies(c) \/ TimerTaskEnds(c)
  BY <1>k, <1>5, MutexSame DEF WriterDies, TimerTaskEnds, connVars, MutexKept
<1>6. CASE FindClient(c)
  <2>1. CASE query[c].to \notin client_map
    <3>1. /\ stage' = [stage EXCEPT ![c] = "serving"]
          /\ UNCHANGED <<mutex, timer>>
          /\ query' = [query EXCEPT ![c] = NoQuery]
          /\ stage[c] = "looking"
      BY <1>6, <2>1 DEF FindClient
    <3> QED
      BY <1>k, <3>1, MutexSame DEF MutexKept
  <2>2. CASE query[c].to \in client_map
    <3>1. /\ stage' = [stage EXCEPT ![c] = "sending"]
          /\ mutex' = [mutex EXCEPT ![query[c].to]
                          = Enqueue(mutex[query[c].to], Send(c))]
          /\ UNCHANGED <<query, timer>>
          /\ stage[c] = "looking"
          /\ query[c].to \in Client
      BY <1>6, <2>2 DEF FindClient, StageSound
    <3>2. CASE e # query[c].to
      BY <1>k, <3>1, <3>2, MutexSame DEF MutexKept
    <3>3. CASE e = query[c].to
      <4>1. mutex'[e] = Enqueue(mutex[e], Send(c))
        BY <3>1, <3>3
      <4>2. Send(c) \notin Requests(mutex[e])
        BY <1>k, <3>1 DEF MutexKept
      <4>3. /\ Fifo(mutex'[e])
            /\ Requests(mutex'[e]) = Requests(mutex[e]) \cup {Send(c)}
            /\ Granted(mutex[e], Own(e)) => Granted(mutex'[e], Own(e))
        BY <1>k, <1>d, <4>1, <4>2, LockOps
      <4>4. \A d \in Client : stage'[d] \in Addressing /\ query'[d].to = e
              <=> (stage[d] \in Addressing /\ query[d].to = e) \/ d = c
        BY <3>1, <3>3
      <4>5. /\ stage'[e] \in Holding <=> stage[e] \in Holding
            /\ stage'[e] \in Asking <=> stage[e] \in Asking
        BY <3>1
      <4>6. ASSUME NEW d \in Client
            PROVE  /\ Send(d) \in Requests(mutex'[e])
                        <=> stage'[d] \in Addressing /\ query'[d].to = e
                   /\ d # e => Own(d) \notin Requests(mutex'[e])
        <5>1. /\ Send(d) \in Requests(mutex[e])
                   <=> stage[d] \in Addressing /\ query[d].to = e
              /\ d # e => Own(d) \notin Requests(mutex[e])
          BY <1>k DEF MutexKept
        <5>2. Own(d) # Send(c) /\ (Send(c) = Send(d) <=> c = d)
          BY RequestsDiffer
        <5> QED
          BY <4>3, <4>4, <5>1, <5>2
      <4>7. /\ Own(e) \in Requests(mutex'[e]) <=> Own(e) \in Requests(mutex[e])
            /\ Check(e) \in Requests(mutex'[e]) <=> Check(e) \in Requests(mutex[e])
        BY <1>d, <4>3
      <4>8. timer' = timer
        BY <3>1
      <4> QED
        BY <1>k, <4>3, <4>5, <4>6, <4>7, <4>8 DEF MutexKept, Frozen
    <3> QED
      BY <3>2, <3>3
  <2> QED
    BY <2>1, <2>2
<1>7. CASE Serve(c) \/ FinishRename(c) \/ ReplyFails(c)
  <2>1. /\ stage[c] \in {"serving", "looking", "counting"} /\ UNCHANGED timer
        /\ \A d \in Client \ {c} : query'[d] = query[d]
    BY <1>7 DEF Serve, FinishRename, ReplyFails
  <2>2. CASE UNCHANGED <<stage, mutex>>
    BY <1>k, <2>1, <2>2, MutexSame DEF MutexKept
  <2>3. CASE /\ stage' = [stage EXCEPT ![c] = "cleaning"]
             /\ mutex' = [mutex EXCEPT ![c] = Enqueue(Release(@, Own(c)), Own(c))]
    <3>1. CASE e # c
      BY <1>k, <2>1, <2>3, <3>1, MutexSame DEF MutexKept
    <3>2. CASE e = c
      <4>1. mutex'[e] = Enqueue(Release(mutex[c], Own(c)), Own(c))
        BY <2>3, <3>2
      <4>2. Own(c) \in Requests(mutex[c])
        BY <1>k, <2>1 DEF MutexKept
      <4>3. /\ Fifo(mutex'[e])
            /\ Requests(mutex'[e]) = Requests(mutex[e])
        BY <1>k, <4>1, <4>2, <3>2, LockOps
      <4> QED
        BY <1>k, <2>1, <2>3, <3>2, <4>3 DEF MutexKept, Frozen
    <3> QED
      BY <3>1, <3>2
  <2> QED
    BY <1>7, <2>2, <2>3 DEF Serve, FinishRename, ReplyFails, AfterHandler
<1>8. CASE AddClient(c)
  <2>1. CASE e # c
    BY <1>k, <1>8, <2>1, MutexSame DEF AddClient, MutexKept
  <2>2. CASE e = c
    <3>1. mutex'[e] = Enqueue(mutex[c], Own(c)) /\ Own(c) \notin Requests(mutex[c])
      BY <1>k, <1>8, <2>2 DEF AddClient, MutexKept
    <3>2. /\ Fifo(mutex'[e])
          /\ Requests(mutex'[e]) = Requests(mutex[e]) \cup {Own(c)}
      BY <1>k, <3>1, <2>2, LockOps
    <3> QED
      BY <1>k, <1>d, <1>8, <2>2, <3>2 DEF AddClient, MutexKept, Frozen
  <2> QED
    BY <2>1, <2>2
<1>9. CASE CleanUp(c) \/ LeftChannels(c)
  <2>1. /\ stage[c] \in {"cleaning", "leaving"} /\ UNCHANGED <<timer, query>>
        /\ Granted(mutex[c], Own(c))
    BY <1>k, <1>9 DEF CleanUp, LeftChannels, MutexKept
  <2>2. CASE stage' = [stage EXCEPT ![c] = "leaving"] /\ UNCHANGED mutex
    <3>1. CASE e # c
      BY <1>k, <2>1, <2>2, <3>1, MutexSame DEF MutexKept
    <3>2. CASE e = c
      BY <1>k, <2>1, <2>2, <3>2, MutexSame
    <3> QED
      BY <3>1, <3>2
  <2>3. CASE /\ stage' = [stage EXCEPT ![c] = "removing"]
             /\ mutex' = [mutex EXCEPT ![c] = Release(@, Own(c))]
    <3>1. CASE e # c
      BY <1>k, <2>1, <2>3, <3>1, MutexSame DEF MutexKept
    <3>2. CASE e = c
      <4>1. mutex'[e] = Release(mutex[c], Own(c))
        BY <2>3, <3>2
      <4>2. /\ Fifo(mutex'[e])
            /\ Requests(mutex'[e]) = Requests(mutex[e]) \ {Own(c)}
        BY <1>k, <4>1, <3>2, LockOps
      <4> QED
        BY <1>k, <1>d, <2>1, <2>3, <3>2, <4>2 DEF MutexKept, Frozen
    <3> QED
      BY <3>1, <3>2
  <2> QED
    BY <1>9, <2>2, <2>3 DEF CleanUp, LeftChannels
<1>15. ASSUME NEW x \in Client, Quit(c, x) PROVE MutexKept(e)'
  <2>1. /\ stage[c] = "leaving"
        /\ stage' = [stage EXCEPT ![c] = "quitting"]
        /\ query' = [query EXCEPT ![c] = [cmd |-> "QUIT", to |-> x]]
        /\ mutex' = [mutex EXCEPT ![x] = Enqueue(mutex[x], Send(c))]
        /\ UNCHANGED timer
    BY <1>15 DEF Quit
  <2>2. CASE e # x
    BY <1>k, <2>1, <2>2, MutexSame DEF MutexKept
  <2>3. CASE e = x
    <3>1. mutex'[e] = Enqueue(mutex[e], Send(c)) /\ Send(c) \notin Requests(mutex[e])
      BY <1>k, <2>1, <2>3 DEF MutexKept
    <3>2. /\ Fifo(mutex'[e])
          /\ Requests(mutex'[e]) = Requests(mutex[e]) \cup {Send(c)}
          /\ Granted(mutex[e], Own(e)) => Granted(mutex'[e], Own(e))
      BY <1>k, <1>d, <3>1, LockOps
    <3>3. \A d \in Client : stage'[d] \in Addressing /\ query'[d].to = e
            <=> (stage[d] \in Addressing /\ query[d].to = e) \/ d = c
      BY <2>1, <2>3
    <3>4. ASSUME NEW d \in Client
          PROVE  /\ Send(d) \in Requests(mutex'[e])
                      <=> stage'[d] \in Addressing /\ query'[d].to = e
                 /\ d # e => Own(d) \notin Requests(mutex'[e])
      <4>1. /\ Send(d) \in Requests(mutex[e])
                 <=> stage[d] \in Addressing /\ query[d].to = e
            /\ d # e => Own(d) \notin Requests(mutex[e])
        BY <1>k DEF MutexKept
      <4>2. Own(d) # Send(c) /\ (Send(c) = Send(d) <=> c = d)
        BY RequestsDiffer
      <4> QED
        BY <3>2, <3>3, <4>1, <4>2
    <3>5. /\ Own(e) \in Requests(mutex'[e]) <=> Own(e) \in Requests(mutex[e])
          /\ Check(e) \in Requests(mutex'[e]) <=> Check(e) \in Requests(mutex[e])
      BY <1>d, <3>2
    <3>6. /\ stage'[e] \in Holding <=> stage[e] \in Holding
          /\ stage'[e] \in Asking <=> stage[e] \in Asking
      BY <2>1
    <3> QED
      BY <1>k, <2>1, <3>2, <3>4, <3>5, <3>6 DEF MutexKept, Frozen
  <2> QED
    BY <2>2, <2>3
<1>10. CASE TimeoutFires(c)
  <2>1. /\ UNCHANGED <<stage, query>>
        /\ timer[c] = "armed"
        /\ timer' = [timer EXCEPT ![c] = "checking"]
        /\ mutex' = [mutex EXCEPT ![c] = Enqueue(@, Check(c))]
    BY <1>10 DEF TimeoutFires
  <2>2. CASE e # c
    BY <1>k, <2>1, <2>2, MutexSame DEF MutexKept
  <2>3. CASE e = c
    <3>1. mutex'[e] = Enqueue(mutex[c], Check(c)) /\ Check(c) \notin Requests(mutex[c])
      BY <1>k, <2>1, <2>3 DEF MutexKept, Frozen
    <3>2. /\ Fifo(mutex'[e])
          /\ Requests(mutex'[e]) = Requests(mutex[e]) \cup {Check(c)}
          /\ Granted(mutex[e], Own(e)) => Granted(mutex'[e], Own(e))
      BY <1>k, <1>d, <3>1, <2>3, LockOps
    <3>3. Frozen(e)'
      BY <2>1, <2>3 DEF Frozen
    <3> QED
      BY <1>k, <1>d, <2>1, <2>3, <3>2, <3>3 DEF MutexKept
  <2> QED
    BY <2>2, <2>3
<1>11. CASE TimerCheck(c)
  <2>1. UNCHANGED <<stage, query>> /\ timer[c] = "checking"
    BY <1>11 DEF TimerCheck
  <2>2. stage[c] \notin Holding
    BY <1>k, <1>d, <1>11, ReaderHolds DEF TimerCheck
  <2>3. CASE e # c
    BY <1>k, <1>11, <2>1, <2>3, MutexSame DEF TimerCheck, MutexKept
  <2>4. CASE e = c /\ registered[c]
    <3>1. mutex'[e] = Release(mutex[c], Check(c)) /\ timer'[e] = "passed"
      BY <1>11, <2>4 DEF TimerCheck
    <3>2. /\ Fifo(mutex'[e])
          /\ Requests(mutex'[e]) = Requests(mutex[e]) \ {Check(c)}
      BY <1>k, <3>1, <2>4, LockOps
    <3>3. ~Frozen(e)'
      BY <3>1 DEF Frozen
    <3> QED
      BY <1>k, <1>d, <2>1, <2>2, <2>4, <3>2, <3>3 DEF MutexKept
  <2>5. CASE e = c /\ ~registered[c]
    <3>1. /\ mutex'[e] = Enqueue(Release(mutex[c], Check(c)), Check(c))
          /\ timer'[e] = "expiring"
      BY <1>11, <2>5 DEF TimerCheck
    <3>2. Check(c) \in Requests(mutex[c])
      BY <1>11 DEF TimerCheck, Granted
    <3>3. /\ Fifo(mutex'[e])
          /\ Requests(mutex'[e]) = Requests(mutex[e])
      BY <1>k, <3>1, <3>2, <2>5, LockOps
    <3>4. Frozen(e)'
      BY <3>1 DEF Frozen
    <3> QED
      BY <1>k, <1>d, <2>1, <2>2, <2>5, <3>2, <3>3, <3>4 DEF MutexKept
  <2> QED
    BY <2>3, <2>4, <2>5
<1>12. CASE Deliver(c) \/ QuitSent(c)
  <2>1. /\ query[c].to \in Client
        /\ \/ stage[c] = "sending" /\ stage' = [stage EXCEPT ![c] = "serving"]
           \/ stage[c] = "quitting" /\ stage' = [stage EXCEPT ![c] = "leaving"]
        /\ query' = [query EXCEPT ![c] = NoQuery]
        /\ mutex' = [mutex EXCEPT ![query[c].to]
                        = Release(mutex[query[c].to], Send(c))]
        /\ UNCHANGED timer
    BY <1>12 DEF Deliver, QuitSent, Reached, StageSound
  <2>2. CASE e # query[c].to
    BY <1>k, <2>1, <2>2, MutexSame DEF MutexKept
  <2>3. CASE e = query[c].to
    <3>1. mutex'[e] = Release(mutex[e], Send(c))
      BY <2>1, <2>3
    <3>2. /\ Fifo(mutex'[e])
          /\ Requests(mutex'[e]) = Requests(mutex[e]) \ {Send(c)}
          /\ Granted(mutex[e], Own(e)) => Granted(mutex'[e], Own(e))
      BY <1>k, <1>d, <3>1, LockOps
    <3> QED
      BY <1>k, <1>d, <2>1, <2>3, <3>2 DEF MutexKept, Frozen
  <2> QED
    BY <2>2, <2>3
<1>13. CASE DeliverFails(c)
  <2> DEFINE to == query[c].to
  <2>1. /\ stage[c] = "sending" /\ to \in Client
        /\ Granted(mutex[to], Send(c))
        /\ stage' = [stage EXCEPT ![c] = "cleaning"]
        /\ query' = [query EXCEPT ![c] = NoQuery]
        /\ mutex' = [mutex EXCEPT
              ![to] = Release(@, Send(c)),
              ![c] = Enqueue(Release(@, Own(c)), Own(c))]
        /\ UNCHANGED timer
    BY <1>13 DEF DeliverFails, Reached, StageSound
  <2>2. to # c
    BY <1>k, <1>d, <2>1, ReaderHolds
  <2> HIDE DEF to
  <2>3. \A d \in Client : stage'[d] \in Addressing /\ query'[d].to = e
                    <=> stage[d] \in Addressing /\ query[d].to = e /\ d # c
    BY <2>1
  <2>4. CASE e # to /\ e # c
    BY <1>k, <2>1, <2>4, MutexSame DEF MutexKept, to
  <2>5. CASE e = to
    <3>1. mutex'[e] = Release(mutex[e], Send(c))
      BY <2>1, <2>2, <2>5
    <3>2. /\ Fifo(mutex'[e])
          /\ Requests(mutex'[e]) = Requests(mutex[e]) \ {Send(c)}
          /\ Granted(mutex[e], Own(e)) => Granted(mutex'[e], Own(e))
      BY <1>k, <1>d, <3>1, LockOps
    <3> QED
      BY <1>k, <1>d, <2>1, <2>2, <2>3, <2>5, <3>2 DEF MutexKept, Frozen, to
  <2>6. CASE e = c
    <3>1. mutex'[e] = Enqueue(Release(mutex[c], Own(c)), Own(c))
      BY <2>1, <2>2, <2>6
    <3>2. Own(c) \in Requests(mutex[c])
      BY <1>k, <2>1 DEF MutexKept
    <3>3. /\ Fifo(mutex'[e])
          /\ Requests(mutex'[e]) = Requests(mutex[e])
      BY <1>k, <3>1, <3>2, <2>6, LockOps
    <3> QED
      BY <1>k, <2>1, <2>2, <2>3, <2>6, <3>3 DEF MutexKept, Frozen, to
  <2> QED
    BY <2>4, <2>5, <2>6
<1>14. CASE Panic(c) \/ WhoPanics(c) \/ TimerExpires(c)
  <2>1. /\ stage' = [stage EXCEPT ![c] = "dead"]
        /\ mutex'[e] = Withdraw(mutex[e], RequestsOf(c))
        /\ \A d \in Client \ {c} : query'[d] = query[d] /\ timer'[d] = timer[d]
        /\ timer'[c] \notin {"checking", "expiring"}
    BY <1>14 DEF Panic, WhoPanics, TimerExpires, Forget, Reached, Frozen
  <2>2. /\ Fifo(mutex'[e])
        /\ Requests(mutex'[e]) = Requests(mutex[e]) \ RequestsOf(c)
        /\ \A s : s \notin RequestsOf(c) /\ Granted(mutex[e], s)
                => Granted(mutex'[e], s)
    BY <1>k, <2>1, WithdrawFifo, WithdrawRequests, WithdrawGranted
  <2>3. /\ Own(e) \in RequestsOf(c) <=> e = c
        /\ Check(e) \in RequestsOf(c) <=> e = c
    BY RequestsOfOne
  <2>4. \A d \in Client : stage'[d] \in Addressing /\ query'[d].to = e
          <=> stage[d] \in Addressing /\ query[d].to = e /\ d # c
    BY <2>1
  <2>5. ASSUME NEW d \in Client
        PROVE  /\ Send(d) \in Requests(mutex'[e])
                    <=> stage'[d] \in Addressing /\ query'[d].to = e
               /\ d # e => Own(d) \notin Requests(mutex'[e])
    <3>1. Send(d) \in RequestsOf(c) <=> d = c
      BY RequestsOfOne
    <3>2. /\ Send(d) \in Requests(mutex[e])
               <=> stage[d] \in Addressing /\ query[d].to = e
          /\ d # e => Own(d) \notin Requests(mutex[e])
      BY <1>k DEF MutexKept
    <3> QED
      BY <2>2, <2>4, <3>1, <3>2
  <2>6. CASE e = c
    BY <1>k, <2>1, <2>2, <2>3, <2>5, <2>6 DEF MutexKept, Frozen
  <2>7. CASE e # c
    BY <1>k, <2>1, <2>2, <2>3, <2>5, <2>7 DEF MutexKept, Frozen
  <2> QED
    BY <2>6, <2>7
<1> QED
  BY <1>1, <1>2, <1>3, <1>4, <1>5, <1>6, <1>7, <1>8, <1>9, <1>10, <1>11,
     <1>12, <1>13, <1>14, <1>15
  DEF ConnStep, Progress

-----------------------------------------------------------------------------
(* The lock around the client list. *)
LEMMA ListStep ==
  ASSUME ConnTypeOK, TypeOK, \A d \in Client : ListKept(d), Fifo(clients_lock),
         NEW c \in Client, ConnStep(c), NEW e \in Client
  PROVE  ListKept(e)' /\ Fifo(clients_lock)'
<1> USE DEF At, MoveTo, ConnTypeOK, ReadStage
<1>k. ListKept(c) /\ ListKept(e)
  OBVIOUS
<1>d. /\ Write(c) # Read(e) /\ Read(c) # Write(e) /\ Write(c) # Read(c)
      /\ Write(c) = Write(e) <=> c = e
      /\ Read(c) = Read(e) <=> c = e
  BY RequestsDiffer
<1>r. ReplyFails(c) => stage' = [stage EXCEPT ![c] = "cleaning"]
  BY DEF ReplyFails, AfterHandler, StopServing, TypeOK
<1>1. CASE /\ clients_lock' = clients_lock
           /\ \E s \in Stage : stage' = [stage EXCEPT ![c] = s]
           /\ stage[c] \notin {"adding", "removing", "unmapping", "counting"}
           /\ stage'[c] \notin {"adding", "removing", "unmapping", "counting"}
  BY <1>k, <1>1 DEF ListKept
<1>2. CASE UNCHANGED <<clients_lock, stage>>
  BY <1>k, <1>2 DEF ListKept
<1>3. CASE RemoveFromList(c)
  BY <1>k, <1>3 DEF RemoveFromList, ListKept
<1>4. CASE \/ Accept(c) \/ LeftChannels(c)
           \/ CleanUp(c) /\ stage'[c] = "removing"
  <2>1. /\ clients_lock' = Enqueue(clients_lock, Write(c))
        /\ stage'[c] \in {"adding", "removing"}
        /\ e # c => stage'[e] = stage[e]
        /\ stage[c] \in {"none", "cleaning", "leaving"}
    BY <1>4 DEF Accept, CleanUp, LeftChannels
  <2>2. Write(c) \notin Requests(clients_lock) /\ Read(c) \notin Requests(clients_lock)
    BY <1>k, <2>1 DEF ListKept
  <2>3. /\ Fifo(clients_lock')
        /\ Requests(clients_lock') = Requests(clients_lock) \cup {Write(c)}
        /\ Write(e) # Write(c) /\ Granted(clients_lock, Write(e))
             => Granted(clients_lock', Write(e))
    BY <2>1, <2>2, LockOps
  <2> QED
    BY <1>k, <1>d, <2>1, <2>2, <2>3 DEF ListKept
<1>5. CASE AddClient(c) \/ RemoveFromMap(c)
  <2>1. /\ clients_lock' = Release(clients_lock, Write(c))
        /\ stage'[c] \in {"locking", "done"}
        /\ e # c => stage'[e] = stage[e]
        /\ stage[c] \in {"adding", "unmapping"}
    BY <1>5 DEF AddClient, RemoveFromMap
  <2>2. /\ Fifo(clients_lock')
        /\ Requests(clients_lock') = Requests(clients_lock) \ {Write(c)}
        /\ Write(e) # Write(c) /\ Granted(clients_lock, Write(e))
             => Granted(clients_lock', Write(e))
    BY <2>1, LockOps
  <2> QED
    BY <1>k, <1>d, <2>1, <2>2 DEF ListKept
<1>6. CASE Lusers(c)
  <2>1. /\ clients_lock' = Enqueue(clients_lock, Read(c))
        /\ stage'[c] = "counting" /\ stage[c] = "serving"
        /\ e # c => stage'[e] = stage[e]
    BY <1>6 DEF Lusers
  <2>2. Write(c) \notin Requests(clients_lock) /\ Read(c) \notin Requests(clients_lock)
    BY <1>k, <2>1 DEF ListKept
  <2>3. /\ Fifo(clients_lock')
        /\ Requests(clients_lock') = Requests(clients_lock) \cup {Read(c)}
        /\ Write(e) # Read(c) /\ Granted(clients_lock, Write(e))
             => Granted(clients_lock', Write(e))
    BY <2>1, <2>2, LockOps
  <2> QED
    BY <1>k, <1>d, <2>1, <2>2, <2>3 DEF ListKept
<1>7. CASE CountClients(c) \/ (ReplyFails(c) /\ stage[c] = "counting")
  <2>1. /\ clients_lock' = Release(clients_lock, Read(c))
        /\ stage'[c] \in {"serving", "cleaning"} /\ stage[c] = "counting"
        /\ e # c => stage'[e] = stage[e]
    BY <1>7, <1>r DEF CountClients, ReplyFails
  <2>2. /\ Fifo(clients_lock')
        /\ Requests(clients_lock') = Requests(clients_lock) \ {Read(c)}
        /\ Write(e) # Read(c) /\ Granted(clients_lock, Write(e))
             => Granted(clients_lock', Write(e))
    BY <2>1, LockOps
  <2> QED
    BY <1>k, <1>d, <2>1, <2>2 DEF ListKept
<1>8. CASE Panic(c) \/ WhoPanics(c) \/ TimerExpires(c)
  <2>1. /\ clients_lock' = Withdraw(clients_lock, RequestsOf(c))
        /\ stage'[c] = "dead"
        /\ e # c => stage'[e] = stage[e]
    BY <1>8 DEF Panic, WhoPanics, TimerExpires, Forget
  <2>2. /\ Fifo(clients_lock')
        /\ Requests(clients_lock') = Requests(clients_lock) \ RequestsOf(c)
        /\ Write(e) \notin RequestsOf(c) /\ Granted(clients_lock, Write(e))
             => Granted(clients_lock', Write(e))
    BY <2>1, WithdrawFifo, WithdrawRequests, WithdrawGranted
  <2>3. /\ Write(e) \in RequestsOf(c) <=> e = c
        /\ Read(e) \in RequestsOf(c) <=> e = c
    BY RequestsOfOne
  <2> QED
    BY <1>k, <2>1, <2>2, <2>3 DEF ListKept
<1>9. CASE \/ BeginServing(c) \/ FindClient(c) \/ Deliver(c) \/ DeliverFails(c)
           \/ ReplyFails(c) /\ stage[c] # "counting"
  BY <1>1, <1>r, <1>9
  DEF BeginServing, FindClient, Deliver, DeliverFails, ReplyFails, Reached, Stage
<1>13. CASE \/ CleanUp(c) /\ stage'[c] # "removing"
            \/ (\E x \in Client : Quit(c, x)) \/ QuitSent(c)
  BY <1>1, <1>13 DEF CleanUp, Quit, QuitSent, Stage, LeaveStage
<1>10. ASSUME NEW n \in Nick, NEW cmd \in {"PRIVMSG", "WHO"}, FindNick(c, n, cmd)
       PROVE  ListKept(e)' /\ Fifo(clients_lock)'
  BY <1>1, <1>10 DEF FindNick, Stage
<1>11. CASE Serve(c) \/ FinishRename(c)
  BY <1>1, <1>2, <1>11 DEF Serve, FinishRename, AfterHandler, Stage
<1>12. CASE WriterDies(c) \/ TimerTaskEnds(c) \/ TimeoutFires(c) \/ TimerCheck(c)
  BY <1>2, <1>12 DEF WriterDies, TimerTaskEnds, TimeoutFires, TimerCheck, connVars
<1> QED
  BY <1>3, <1>4, <1>5, <1>6, <1>7, <1>8, <1>9, <1>10, <1>11, <1>12, <1>13
  DEF ConnStep, Progress

-----------------------------------------------------------------------------
(* The stages follow the phases of Registration. *)
LEMMA StageStep ==
  ASSUME ConnTypeOK, TypeOK, StageSound, \A d \in Client : MutexKept(d),
         NEW c \in Client, ConnStep(c)
  PROVE  StageSound'
<1> USE DEF At, MoveTo, ConnTypeOK, TypeOK, ReadStage, LeaveStage, Holding,
        Addressing, StageSound
<1>1. CASE Accept(c) \/ AddClient(c) \/ RemoveFromList(c) \/ RemoveFromMap(c)
  BY <1>1 DEF Accept, AddClient, RemoveFromList, RemoveFromMap, Frozen, vars
<1>2. CASE BeginServing(c)
  BY <1>2 DEF BeginServing, Connect, Phase
<1>3. CASE (Serve(c) \/ FinishRename(c)) /\ phase'[c] = "online" /\ UNCHANGED stage
  <2>1. \A d \in Client \ {c} : phase'[d] = phase[d]
    BY <1>3 DEF Serve, FinishRename, Command, StopServing, ReleaseOldNick,
                CapLs, CapEnd, NickInUse, FirstNick, ClaimNewNick, AcceptUser,
                CheckRegistration
  <2>2. UNCHANGED <<timer, query, stage>> /\ stage[c] = "serving"
    BY <1>3 DEF Serve, FinishRename
  <2> QED
    BY <1>3, <2>1, <2>2
<1>4. CASE (Serve(c) \/ FinishRename(c)) /\ phase'[c] = "closing"
           /\ stage' = [stage EXCEPT ![c] = "cleaning"]
  <2>1. \A d \in Client \ {c} : phase'[d] = phase[d]
    BY <1>4 DEF Serve, FinishRename, Command, StopServing, ReleaseOldNick,
                CapLs, CapEnd, NickInUse, FirstNick, ClaimNewNick, AcceptUser,
                CheckRegistration
  <2>2. UNCHANGED <<timer, query>>
    BY <1>4 DEF Serve, FinishRename
  <2> QED
    BY <1>4, <2>1, <2>2
<1>5. CASE Panic(c) \/ WhoPanics(c)
  BY <1>5 DEF Panic, WhoPanics, Die
<1>6. CASE WriterDies(c) \/ TimerTaskEnds(c)
  BY <1>6 DEF WriterDies, TimerTaskEnds, WriterFails, TimerEnds, connVars
<1>7. ASSUME NEW n \in Nick, NEW cmd \in {"PRIVMSG", "WHO"}, FindNick(c, n, cmd)
      PROVE  StageSound'
  <2>1. nickname_map[Lower[n]] \in Client
    BY <1>7, RegistrationAssumption DEF FindNick, KeyTaken
  <2>2. query'[c].to \in Client
    BY <1>7, <2>1 DEF FindNick
  <2> QED
    BY <1>7, <2>2 DEF FindNick, vars
<1>8. CASE FindClient(c) \/ Deliver(c)
  BY <1>8 DEF FindClient, Deliver, Reached, vars
<1>9. CASE DeliverFails(c)
  BY <1>9 DEF DeliverFails, Reached, StopServing
<1>14. CASE ReplyFails(c)
  BY <1>14 DEF ReplyFails, AfterHandler, StopServing
<1>10. CASE Lusers(c) \/ CountClients(c)
  BY <1>10 DEF Lusers, CountClients, vars
<1>11. CASE CleanUp(c)
  BY <1>11 DEF CleanUp, Cleanup
<1>15. CASE QuitSent(c) \/ LeftChannels(c)
  BY <1>15 DEF QuitSent, LeftChannels, vars
<1>16. ASSUME NEW x \in Client, Quit(c, x) PROVE StageSound'
  BY <1>16 DEF Quit, vars
<1>12. CASE TimeoutFires(c) \/ TimerCheck(c)
  BY <1>12 DEF TimeoutFires, TimerCheck, vars
<1>13. CASE TimerExpires(c)
  <2>1. stage[c] \notin Holding
    <3>1. Granted(mutex[c], Check(c)) /\ Check(c) # Own(c) /\ MutexKept(c)
      BY <1>13, RequestsDiffer DEF TimerExpires
    <3> QED
      BY <3>1, ReaderHolds
  <2> QED
    BY <1>13, <2>1 DEF TimerExpires, vars
<1> QED
  BY <1>1, <1>2, <1>3, <1>4, <1>5, <1>6, <1>7, <1>8, <1>9, <1>10, <1>11,
     <1>12, <1>13, <1>14, <1>15, <1>16
  DEF ConnStep, Progress, Serve, FinishRename, AfterHandler

-----------------------------------------------------------------------------
(* LockInv holds in every reachable state. *)
THEOREM LockInvariant == ConnSpec => [](LockInv /\ TypeOK)
<1>1. ConnInit => LockInv
  <2> SUFFICES ASSUME ConnInit PROVE LockInv
    OBVIOUS
  <2> USE DEF ConnInit
  <2>1. ConnTypeOK
    BY DEF ConnTypeOK, Stage, Timer, Query
  <2>2. StageSound
    BY DEF StageSound, Init, ReadStage, Addressing
  <2>3. Fifo({}) /\ Requests({}) = {}
    BY DEF Fifo, Requests
  <2>4. ASSUME NEW c \in Client PROVE MutexKept(c) /\ ListKept(c)
    BY <2>3 DEF MutexKept, ListKept, Frozen, ReadStage, LeaveStage, Holding,
                      Asking, Addressing
  <2> QED
    BY <2>1, <2>2, <2>3, <2>4 DEF LockInv
<1>2. LockInv /\ TypeOK /\ [ConnNext]_allVars => LockInv'
  <2> SUFFICES ASSUME LockInv, TypeOK, [ConnNext]_allVars PROVE LockInv'
    OBVIOUS
  <2>1. CASE UNCHANGED allVars
    BY <2>1 DEF allVars, vars, connVars, LockInv, ConnTypeOK, StageSound,
                MutexKept, ListKept, Frozen
  <2>2. ASSUME NEW c \in Client, ConnStep(c) PROVE LockInv'
    <3>1. ConnTypeOK'
      BY <2>2, ConnTypeStep DEF LockInv
    <3>2. StageSound'
      BY <2>2, StageStep DEF LockInv
    <3>3. \A e \in Client : MutexKept(e)'
      BY <2>2, MutexStep DEF LockInv
    <3>4. \A e \in Client : ListKept(e)' /\ Fifo(clients_lock)'
      BY <2>2, ListStep DEF LockInv
    <3>5. Fifo(clients_lock)'
      BY <2>2, <3>4
    <3> QED
      BY <3>1, <3>2, <3>3, <3>4, <3>5 DEF LockInv
  <2> QED
    BY <2>1, <2>2 DEF ConnNext, ConnStep
<1> QED
  BY <1>1, <1>2, ImplementsRegistration, TypeCorrect, PTL DEF ConnSpec

(* Every lock has the requests, and is granted to the one, that the stage  *)
(* of each connection calls for, whatever panics, timeouts and writer      *)
(* failures interleave.                                                    *)
THEOREM LocksDisciplined == ConnSpec => []LockDiscipline
BY LockInvariant, LockInvDiscipline, PTL

(* A PRIVMSG, NOTICE, WHO or QUIT to another client (or to oneself) is     *)
(* done only when the addressee's read loop is over.                       *)
THEOREM AnswersAfterReadLoop == ConnSpec => AnsweredAfterReadLoop
<1> DEFINE Answered == \A c \in Client :
                         stage[c] \in Addressing /\ stage'[c] # stage[c]
                           => phase[query[c].to] # "online"
<1>1. LockInv /\ TypeOK /\ [ConnNext]_allVars => [Answered]_allVars
  <2> SUFFICES ASSUME LockInv, NEW c \in Client, ConnStep(c),
                      NEW d \in Client, stage[d] \in Addressing,
                      stage'[d] # stage[d]
               PROVE  phase[query[d].to] # "online"
    BY DEF ConnNext, ConnStep
  <2> USE DEF LockInv, ConnTypeOK, MoveTo, At
  <2>1. query[d].to \in Client
    BY DEF StageSound
  <2>2. CASE Granted(mutex[query[d].to], Send(d))
    <3>1. Send(d) # Own(query[d].to)
      BY RequestsDiffer
    <3>2. MutexKept(query[d].to)
      BY <2>1
    <3>3. stage[query[d].to] \notin Holding
      BY <2>1, <2>2, <3>1, <3>2, ReaderHolds
    <3> QED
      BY <2>1, <3>3 DEF StageSound, Holding
  <2>3. CASE TimerExpires(c) /\ c = d
    <3>1. Granted(mutex[c], Check(c)) /\ Check(c) # Own(c) /\ MutexKept(c)
      BY <2>3, RequestsDiffer DEF TimerExpires
    <3>2. stage[c] \notin Holding
      BY <3>1, ReaderHolds
    <3> QED
      BY <2>3, <3>2 DEF Holding, ReadStage, LeaveStage, Addressing
  <2>4. CASE c # d
    BY <2>4
    DEF ConnStep, Progress, AddClient, BeginServing, FinishRename, FindClient,
        Deliver, DeliverFails, WhoPanics, CountClients, ReplyFails, CleanUp, Quit, QuitSent,
        LeftChannels, RemoveFromList, RemoveFromMap, TimerCheck, TimerExpires, Accept,
        Serve, AfterHandler, Panic, WriterDies, TimerTaskEnds, Lusers, FindNick,
        TimeoutFires, connVars
  <2> QED
    BY <2>2, <2>3, <2>4
    DEF ConnStep, Progress, AddClient, BeginServing, FinishRename, FindClient,
        Deliver, DeliverFails, WhoPanics, CountClients, ReplyFails, CleanUp, Quit, QuitSent,
        LeftChannels, RemoveFromList, RemoveFromMap, TimerCheck, Accept,
        Serve, AfterHandler, Panic, WriterDies, TimerTaskEnds, Lusers, FindNick,
        TimeoutFires, connVars, Reached, Addressing
<1> QED
  BY <1>1, LockInvariant, PTL DEF ConnSpec, AnsweredAfterReadLoop

(* A client whose 60 seconds pass while its connection future holds its    *)
(* mutex is never served again: neither select! branch takes a step.       *)
THEOREM FreezesForGood == ConnSpec => FrozenForGood
<1> DEFINE Stuck == \A c \in Client :
              Frozen(c) /\ Granted(mutex[c], Own(c))
                => /\ stage'[c] = stage[c] /\ timer'[c] = timer[c]
                   /\ phase'[c] = phase[c] /\ nickname'[c] = nickname[c]
                   /\ registered'[c] = registered[c]
<1>1. LockInv /\ TypeOK /\ [ConnNext]_allVars => [Stuck]_allVars
  <2> SUFFICES ASSUME LockInv, TypeOK, NEW c \in Client, ConnStep(c),
                      NEW d \in Client, Frozen(d), Granted(mutex[d], Own(d))
               PROVE  /\ stage'[d] = stage[d] /\ timer'[d] = timer[d]
                      /\ phase'[d] = phase[d] /\ nickname'[d] = nickname[d]
                      /\ registered'[d] = registered[d]
    BY DEF ConnNext, ConnStep
  <2>1. ~Granted(mutex[d], Check(d))
    BY OneHolder, RequestsDiffer DEF LockInv, MutexKept
  <2>2. CASE c = d
    BY <2>1, <2>2
    DEF ConnStep, Progress, At, Frozen, AddClient, BeginServing, FinishRename,
        FindClient, Deliver, DeliverFails, WhoPanics, CountClients, ReplyFails, CleanUp, Quit, QuitSent,
        LeftChannels, RemoveFromList, RemoveFromMap, TimerCheck, TimerExpires, Accept,
        Serve, Panic, WriterDies, TimerTaskEnds, Lusers, FindNick, TimeoutFires, connVars,
        Reached, WriterFails, TimerEnds, LockInv, StageSound
  <2>3. CASE c # d
    <3>1. /\ phase'[d] = phase[d] /\ nickname'[d] = nickname[d]
          /\ registered'[d] = registered[d]
      BY <2>3
      DEF ConnStep, Progress, AddClient, BeginServing, FinishRename,
          FindClient, Deliver, DeliverFails, WhoPanics, CountClients, ReplyFails, CleanUp, Quit, QuitSent,
          LeftChannels, RemoveFromList, RemoveFromMap, TimerCheck, TimerExpires, Accept,
          Serve, Panic, WriterDies, TimerTaskEnds, Lusers, FindNick, TimeoutFires, vars,
          TypeOK, Connect, Command, StopServing, ReleaseOldNick, Die, Cleanup,
          WriterFails, TimerEnds, CapLs, CapEnd, NickInUse, FirstNick, ClaimNewNick,
          AcceptUser, CheckRegistration
    <3>2. stage'[d] = stage[d] /\ timer'[d] = timer[d]
      BY <2>3
      DEF LockInv, ConnTypeOK, MoveTo, ConnStep, Progress, AddClient,
          BeginServing, FinishRename, FindClient, Deliver, DeliverFails,
          WhoPanics, CountClients, ReplyFails, CleanUp, Quit, QuitSent, LeftChannels, RemoveFromList, RemoveFromMap,
          TimerCheck, TimerExpires, Accept, Serve, AfterHandler, Panic,
          WriterDies, TimerTaskEnds, Lusers, FindNick, TimeoutFires, connVars
    <3> QED
      BY <3>1, <3>2
  <2> QED
    BY <2>2, <2>3
<1> QED
  BY <1>1, LockInvariant, PTL DEF ConnSpec, FrozenForGood

-----------------------------------------------------------------------------
(* The types, and the client list and map. *)

(* Every variable of Connection keeps its type. *)
THEOREM ConnTypeCorrect == ConnSpec => []ConnTypeOK
<1>1. LockInv => ConnTypeOK
  BY DEF LockInv
<1> QED
  BY <1>1, LockInvariant, PTL

(* What the stage of e says about the list and the map. *)
Listed(e) ==
  /\ stage[e] \in Holding \cup {"locking", "cleaning", "removing"}
       => e \in clients
  /\ stage[e] = "unmapping" => e \in client_map /\ e \notin clients
  /\ stage[e] \in {"none", "adding", "locking"} => phase[e] = "offline"
  /\ e \in clients => e \in client_map
  /\ e \in client_map => e \in clients \/ stage[e] \in {"unmapping", "dead"}

LEMMA ListedStep ==
  ASSUME ConnTypeOK, TypeOK, NEW c \in Client, ConnStep(c),
         NEW e \in Client, Listed(e)
  PROVE  Listed(e)'
<1> USE DEF At, MoveTo, ConnTypeOK, TypeOK, ReadStage, LeaveStage, Holding, Listed
<1>1. CASE Accept(c) \/ AddClient(c) \/ RemoveFromList(c) \/ RemoveFromMap(c)
  <2>1. UNCHANGED phase
    BY <1>1 DEF Accept, AddClient, RemoveFromList, RemoveFromMap, vars
  <2>2. CASE Accept(c) \/ AddClient(c)
    BY <2>1, <2>2 DEF Accept, AddClient
  <2>3. CASE RemoveFromList(c) \/ RemoveFromMap(c)
    BY <2>1, <2>3 DEF RemoveFromList, RemoveFromMap
  <2> QED
    BY <1>1, <2>2, <2>3
<1>2. CASE BeginServing(c)
  BY <1>2 DEF BeginServing, Connect
<1>3. CASE Serve(c) \/ FinishRename(c)
  <2>1. /\ stage[c] = "serving" /\ UNCHANGED <<clients, client_map>>
        /\ stage' = stage \/ stage' = [stage EXCEPT ![c] = "cleaning"]
    BY <1>3 DEF Serve, FinishRename, AfterHandler
  <2>2. e # c => phase'[e] = phase[e]
    BY <1>3 DEF Serve, FinishRename, Command, StopServing, ReleaseOldNick,
                CapLs, CapEnd, NickInUse, FirstNick, ClaimNewNick, AcceptUser,
                CheckRegistration
  <2> QED
    BY <2>1, <2>2
<1>4. CASE Panic(c) \/ WhoPanics(c) \/ TimerExpires(c)
  BY <1>4 DEF Panic, WhoPanics, TimerExpires, Die, vars
<1>5. CASE WriterDies(c) \/ TimerTaskEnds(c) \/ TimeoutFires(c) \/ TimerCheck(c)
  BY <1>5 DEF WriterDies, TimerTaskEnds, TimerEnds, WriterFails, TimeoutFires, TimerCheck, connVars, vars
<1>6. CASE \E n \in Nick, cmd \in {"PRIVMSG", "WHO"} : FindNick(c, n, cmd)
  BY <1>6 DEF FindNick, vars
<1>7. CASE FindClient(c) \/ Deliver(c) \/ Lusers(c) \/ CountClients(c)
  BY <1>7 DEF FindClient, Deliver, Reached, Lusers, CountClients, vars
<1>8. CASE DeliverFails(c)
  BY <1>8 DEF DeliverFails, Reached, StopServing
<1>9. CASE ReplyFails(c)
  BY <1>9 DEF ReplyFails, AfterHandler, StopServing
<1>10. CASE CleanUp(c)
  BY <1>10 DEF CleanUp, Cleanup
<1>11. CASE (\E x \in Client : Quit(c, x)) \/ QuitSent(c) \/ LeftChannels(c)
  BY <1>11 DEF Quit, QuitSent, LeftChannels, vars
<1> QED
  BY <1>1, <1>2, <1>3, <1>4, <1>5, <1>6, <1>7, <1>8, <1>9, <1>10, <1>11
  DEF ConnStep, Progress

(* find_client_by_nick finds every client that is served, and the list and *)
(* the map differ only in the middle of a removal.                         *)
THEOREM ClientsListed == ConnSpec => []ListsAgree
<1> DEFINE AllListed == \A e \in Client : Listed(e)
<1>1. ConnInit => AllListed
  BY DEF ConnInit, Init, Listed, ReadStage, LeaveStage, Holding
<1>2. AllListed /\ LockInv /\ TypeOK /\ [ConnNext]_allVars => AllListed'
  <2> SUFFICES ASSUME AllListed, LockInv, TypeOK, [ConnNext]_allVars,
                      NEW e \in Client
               PROVE  Listed(e)'
    OBVIOUS
  <2>1. CASE UNCHANGED allVars
    BY <2>1 DEF allVars, vars, connVars, Listed
  <2> QED
    BY <2>1, ListedStep DEF ConnNext, ConnStep, LockInv
<1>3. AllListed /\ LockInv /\ IInv => ListsAgree
  <2> SUFFICES ASSUME AllListed, LockInv, IInv PROVE ListsAgree
    OBVIOUS
  <2>1. clients \subseteq Client /\ client_map \subseteq Client
    BY DEF LockInv, ConnTypeOK
  <2>2. ASSUME NEW k \in Nick, NEW c \in Client, nickname_map[k] = c,
               c \notin client_map
        PROVE  stage[c] \in {"done", "dead"}
    <3>1. HasKey(c, k)
      BY <2>2 DEF IInv, KeysPointwise
    <3>2. phase[c] # "offline"
      BY <3>1 DEF IInv, HasKey, OfflineFresh, RenamingSound
    <3>3. stage[c] \in Stage
      BY DEF LockInv, ConnTypeOK
    <3> QED
      BY <2>2, <3>2, <3>3 DEF Listed, Stage, Holding
  <2> QED
    BY <2>1, <2>2 DEF ListsAgree, Listed, Holding, ReadStage, LeaveStage
<1>4. ConnSpec => []IInv
  BY ImplementsRegistration, Invariant, PTL
<1> QED
  BY <1>1, <1>2, <1>3, <1>4, LockInvariant, PTL DEF ConnSpec
=============================================================================
