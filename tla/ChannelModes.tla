---------------------------- MODULE ChannelModes ----------------------------
(***************************************************************************)
(* The modes of one channel and of one client: what handle_channel_mode()  *)
(* (src/src/client/channel.rs) and handle_user_mode() (client/user.rs) do  *)
(* with the characters and parameters of a MODE, the line that is composed *)
(* of the changes, and the operator that a first JOIN makes.               *)
(*                                                                         *)
(* The line is composed for the members of the channel, but as the code is *)
(* none of them gets it: the broadcast asks for the channel, which the     *)
(* handler holds for writing, and never returns; that the channel then     *)
(* stays locked is FrozenByMode in Channels.  The reply to the sender, the *)
(* characters of the line without its parameters, would come after the     *)
(* broadcast and is left out: no run of the program gets that far.         *)
(***************************************************************************)
EXTENDS Naturals, SequencesExt

CONSTANTS
  Flags,      \* modes of a channel that take no parameter
  UserFlags,  \* modes of a client
  Others,     \* characters that mean nothing in a MODE of a channel
  Param,      \* keys, and nicknames of operators
  MaxChars, MaxParams,  \* the length of a MODE: bounds for TLC
  NoParam, NoCommand

ASSUME ModesAssumption ==
  /\ {"n", "t"} \subseteq Flags
  /\ {"+", "-", "k", "o"} \cap Flags = {}
  /\ {"+", "-", "k"} \cap (UserFlags \cup Others) = {}
  /\ Others \cap Flags = {}
  /\ MaxChars \in Nat /\ MaxParams \in Nat
  /\ NoParam \notin Param

Char == Flags \cup Others \cup {"+", "-", "k"}
UserChar == UserFlags \cup {"+", "-", "k"}
Letter == Flags \cup {"k", "o"}

UpTo(S, n) == UNION {[1..k -> S] : k \in 0..n}

VARIABLES
  channel,     \* Channel.modes and Channel.mode_params
  locked,      \* a MODE holds the channel for good
  user_modes,  \* Client.modes
  composed,    \* the line composed of the changes of the last MODE, to be
               \* broadcast, or NoCommand
  asked        \* the MODE before, with the modes it found, or NoCommand: for
               \* the properties, and one at a time, a bound for TLC

vars == <<channel, locked, user_modes, composed, asked>>

-----------------------------------------------------------------------------
(* set_mode *)
SetMode(ch, c, param, adding) ==
  IF adding
  THEN [modes |-> ch.modes \cup {c},
        params |-> IF param = NoParam THEN ch.params
                   ELSE [ch.params EXCEPT ![c] = param]]
  ELSE [modes |-> ch.modes \ {c},
        params |-> [ch.params EXCEPT ![c] = NoParam]]

(* has_mode with a nickname: WHO marks it with an @. *)
HasMode(ch, c, nick) == ch.params[c] = nick

(* A change is made and noted down. *)
Change(s, c, param) ==
  [s EXCEPT !.ch = SetMode(@, c, param, s.adding),
            !.changes = Append(@, [mode |-> c, param |-> param,
                                   adding |-> s.adding])]

\* Mutant: a sign holds for one character only.
ReadCharOnce(s, c) ==
  CASE c \in {"+", "-"} -> [s EXCEPT !.adding = (c = "+")]
    [] c \in Flags -> [Change(s, c, NoParam) EXCEPT !.adding = TRUE]
    [] c = "k" /\ s.adding /\ s.left # <<>> ->
         [Change(s, c, Head(s.left)) EXCEPT !.left = Tail(@)]
    [] c = "k" /\ ~s.adding -> Change(s, c, NoParam)
    [] OTHER -> s

\* Mutant: +o and -o are taken for flags.
ReadCharWithOp(s, c) ==
  CASE c \in {"+", "-"} -> [s EXCEPT !.adding = (c = "+")]
    [] c \in Flags \cup {"o"} -> Change(s, c, NoParam)
    [] c = "k" /\ s.adding /\ s.left # <<>> ->
         [Change(s, c, Head(s.left)) EXCEPT !.left = Tail(@)]
    [] c = "k" /\ ~s.adding -> Change(s, c, NoParam)
    [] OTHER -> s

(* One character: +k takes the next parameter and is passed over without   *)
(* one, -k takes none.                                                     *)
ReadChar(s, c) ==
  CASE c \in {"+", "-"} -> [s EXCEPT !.adding = (c = "+")]
    [] c \in Flags -> Change(s, c, NoParam)
    [] c = "k" /\ s.adding /\ s.left # <<>> ->
         [Change(s, c, Head(s.left)) EXCEPT !.left = Tail(@)]
    [] c = "k" /\ ~s.adding -> Change(s, c, NoParam)
    [] OTHER -> s

(* The loop over the characters: what it has come to after i of them. *)
ReadChars(s, chars) ==
  LET run[i \in 0..Len(chars)] ==
        IF i = 0 THEN s ELSE ReadChar(run[i - 1], chars[i])
  IN  run

Apply(ch, chars, params) ==
  ReadChars([ch |-> ch, adding |-> TRUE, left |-> params, changes |-> <<>>],
            chars)[Len(chars)]

Sign(change) == IF change.adding THEN "+" ELSE "-"

\* Mutant: a sign is written where one was asked for first, and no other.
ComposeOneSign(changes) ==
  [chars |-> <<Sign(changes[1])>> \o [i \in DOMAIN changes |-> changes[i].mode],
   params |-> LET With == SelectSeq(changes, LAMBDA d : d.param # NoParam)
              IN  [i \in DOMAIN With |-> With[i].param]]

(* A change is added to a line; before is the sign that holds in it. *)
AddChange(line, change, before) ==
  [chars |-> line.chars \o (IF Sign(change) = before THEN <<>> ELSE <<Sign(change)>>)
                        \o <<change.mode>>,
   params |-> IF change.param = NoParam THEN line.params
              ELSE Append(line.params, change.param)]

(* The changes as a line: a sign first, and where it changes. *)
Lines(changes) ==
  LET line[i \in 0..Len(changes)] ==
        IF i = 0 THEN [chars |-> <<>>, params |-> <<>>]
        ELSE AddChange(line[i - 1], changes[i],
                  IF i = 1 THEN "none" ELSE Sign(changes[i - 1]))
  IN  line

Compose(changes) == Lines(changes)[Len(changes)]

-----------------------------------------------------------------------------
(* Channel::new *)
NewChannel == [modes |-> {"n", "t"}, params |-> [c \in Letter |-> NoParam]]

Init ==
  /\ channel = NewChannel
  /\ locked = FALSE
  /\ user_modes = {}
  /\ asked = NoCommand
  /\ composed = NoCommand

(* JOIN of a channel without members; it can have had some before. *)
FirstJoin(nick) ==
  /\ ~locked
  /\ channel' = SetMode(channel, "o", nick, TRUE)
  /\ asked' = NoCommand
  /\ composed' = NoCommand
  /\ UNCHANGED <<locked, user_modes>>

(* MODE of a channel, by anyone.  When something was changed the line is   *)
(* composed and the handler hangs in the broadcast, with the channel; when *)
(* nothing was, the channel is released.                                   *)
ChannelMode(chars, params) ==
  /\ ~locked /\ asked = NoCommand
  /\ LET s == Apply(channel, chars, params) IN
       /\ channel' = s.ch
       /\ locked' = (s.changes # <<>>)
       /\ composed' = IF s.changes = <<>> THEN NoCommand ELSE Compose(s.changes)
  /\ asked' = [of |-> "channel", chars |-> chars, params |-> params,
               found |-> channel]
  /\ UNCHANGED user_modes

ReadUserChar(s, c) ==
  CASE c \in {"+", "-"} -> [s EXCEPT !.adding = (c = "+")]
    [] c \in UserFlags -> [s EXCEPT !.modes = IF s.adding THEN @ \cup {c}
                                                          ELSE @ \ {c}]
    [] OTHER -> s

ReadUserChars(s, chars) ==
  LET run[i \in 0..Len(chars)] ==
        IF i = 0 THEN s ELSE ReadUserChar(run[i - 1], chars[i])
  IN  run

(* MODE of the client's own nickname; it is not answered. *)
UserMode(chars) ==
  /\ ~locked /\ asked = NoCommand
  /\ user_modes' = ReadUserChars([modes |-> user_modes, adding |-> TRUE],
                                 chars)[Len(chars)].modes
  /\ asked' = [of |-> "user", chars |-> chars, found |-> user_modes]
  /\ composed' = NoCommand
  /\ UNCHANGED <<channel, locked>>

Next ==
  \/ \E nick \in Param : FirstJoin(nick)
  \/ \E chars \in UpTo(UserChar, MaxChars) : UserMode(chars)
  \/ \E chars \in UpTo(Char, MaxChars), params \in UpTo(Param, MaxParams) :
       ChannelMode(chars, params)

Spec == Init /\ [][Next]_vars

-----------------------------------------------------------------------------
(* Properties *)

(* The line that is composed of the changes of a MODE says what they are:  *)
(* read by the same rules, from the modes that the MODE found, it makes    *)
(* the same channel, uses up its parameters and composes itself again.     *)
(* Signs that were left out, repeated or without effect, and keys that     *)
(* were passed over, do not shift what belongs together.                   *)
ComposedLineReplays ==
  composed # NoCommand =>
    LET s == Apply(asked.found, composed.chars, composed.params)
    IN  s.ch = channel /\ s.left = <<>> /\ Compose(s.changes) = composed

(* The sign that holds for the i-th character. *)
Adds(chars, i) ==
  LET signs == {j \in 1..(i - 1) : chars[j] \in {"+", "-"}}
  IN  signs = {} \/ chars[Max(signs)] = "+"

(* The number of the parameter that a +k would take. *)
KeyNo(chars, i) ==
  Cardinality({j \in 1..i : chars[j] = "k" /\ Adds(chars, j)})

(* Where a mode occurs: a key that has no parameter left does not count. *)
Occurs(chars, c, count) ==
  {i \in DOMAIN chars : /\ chars[i] = c
                        /\ c = "k" /\ Adds(chars, i) => KeyNo(chars, i) <= count}

(* The occurrence that decides on a mode, or 0. *)
Deciding(chars, c, count) ==
  LET at == Occurs(chars, c, count)
  IN  IF at = {} THEN 0 ELSE Max(at)

(* Each mode is as the last sign before its last occurrence has it, and as *)
(* it was when it does not occur; the key is the parameter that belongs to *)
(* its occurrence.                                                         *)
LastSignWins ==
  asked # NoCommand =>
    LET Decided(c, after, before) ==
          LET i == Deciding(asked.chars, c,
                            IF asked.of = "user" THEN 0 ELSE Len(asked.params))
          IN  c \in after <=> IF i = 0 THEN c \in before ELSE Adds(asked.chars, i)
        KeyAt == Deciding(asked.chars, "k", Len(asked.params))
    IN  IF asked.of = "user"
        THEN \A c \in UserFlags : Decided(c, user_modes, asked.found)
        ELSE /\ \A c \in Flags \cup {"k"} :
                  Decided(c, channel.modes, asked.found.modes)
             /\ channel.params["k"] =
                  IF KeyAt = 0 THEN asked.found.params["k"]
                  ELSE IF Adds(asked.chars, KeyAt) THEN asked.params[KeyNo(asked.chars, KeyAt)]
                  ELSE NoParam

(* No MODE makes an operator or takes one away: whom WHO marks with an @   *)
(* is decided by the JOINs of an empty channel alone.                      *)
OpOnlyByJoin == [][
  (asked' # NoCommand =>
    \A nick \in Param : HasMode(channel, "o", nick) <=> HasMode(channel', "o", nick))
  ]_vars
=============================================================================
