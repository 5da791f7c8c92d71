------------------------------ MODULE TS6Wire -------------------------------
(***************************************************************************)
(* Messages on the wire: parse_message() (src/src/ts6/parser.rs),          *)
(* TS6Message::to_string() (src/src/ts6/mod.rs) and what handle_privmsg()  *)
(* (src/src/client/query.rs) makes of one for the other.                   *)
(*                                                                         *)
(* A line is the sequence of its words, between single spaces; a word is a *)
(* sequence of characters, of which only the colon and the @ matter; a     *)
(* parameter is the sequence of the words it consists of.  A client sends  *)
(* a line, it is parsed and relayed, and parsed again at the other end.    *)
(***************************************************************************)
EXTENDS Naturals, SequencesExt

CONSTANTS
  Symbol,    \* the characters
  Word,      \* the words that a client may put after the command
  MaxWords,  \* how many of them: a bound for TLC
  NoMessage

ASSUME WireAssumption ==
  /\ {":", "@", "P", "p", "s", "t"} \subseteq Symbol
  /\ Word \subseteq Seq(Symbol)
  /\ MaxWords \in Nat
  /\ NoMessage \notin [source : Seq(Symbol), command : Seq(Symbol),
                       params : Seq(Seq(Seq(Symbol)))]

Colon == ":"
Privmsg == <<"P">>
Tags == <<"@", "t">>
Source == <<Colon, "s">>
Prefix == <<"p">>

VARIABLES
  wire,    \* the line that was sent last
  msg,     \* what was parsed from it, or NoMessage
  said,    \* what the client sent after the command, for the properties only
  relayed  \* the parameters that were relayed, or NoMessage

wire_vars == <<wire, msg, said, relayed>>

-----------------------------------------------------------------------------
(* Parsing *)

Starts(word, char) == word # <<>> /\ Head(word) = char

\* Mutant: the space is lost before any word.
ReadWordGlued(s, word) ==
  IF Starts(word, Colon) \/ s.in_trailing
  THEN [s EXCEPT !.in_trailing = TRUE,
                 !.trailing[Len(s.trailing)] =
                   @ \o (IF Starts(word, Colon) THEN Tail(word) ELSE word)]
  ELSE [s EXCEPT !.params = Append(@, <<word>>)]

(* One word.  The last word of the trailing parameter grows when a word    *)
(* starts with a colon: the space between them is lost, and the colon.     *)
ReadWord(s, word) ==
  IF Starts(word, Colon)
  THEN [s EXCEPT !.in_trailing = TRUE,
                 !.trailing[Len(s.trailing)] = @ \o Tail(word)]
  ELSE IF s.in_trailing THEN [s EXCEPT !.trailing = Append(@, word)]
  ELSE [s EXCEPT !.params = Append(@, <<word>>)]

ReadWords(words) ==
  LET run[i \in 0..Len(words)] ==
        IF i = 0
        THEN [params |-> <<>>, trailing |-> << <<>> >>, in_trailing |-> FALSE]
        ELSE ReadWord(run[i - 1], words[i])
  IN  run

(* parse_params *)
ParseParams(words) ==
  LET s == ReadWords(words)[Len(words)]
  IN  IF s.in_trailing THEN Append(s.params, s.trailing) ELSE s.params

(* A message is parsed from its words when tags and source leave a command.*)
ParseMessage(line) ==
  LET tagged == Starts(Head(line), "@")
      rest == IF tagged THEN Tail(line) ELSE line
      sourced == rest # <<>> /\ Starts(Head(rest), Colon)
      body == IF sourced THEN Tail(rest) ELSE rest
  IN  IF line = << <<>> >> \/ body = <<>>
      THEN NoMessage
      ELSE [source |-> IF sourced THEN Tail(Head(rest)) ELSE <<>>,
            command |-> Head(body),
            params |-> ParseParams(Tail(body))]

-----------------------------------------------------------------------------
(* Formatting *)

\* Mutant: the colon only where a space or nothing follows, as one branch of
\* the code has it.
FormatBare(m) ==
  LET last == Last(m.params)
      bare == Len(last) = 1 /\ last[1] # <<>>
  IN  <<<<Colon>> \o m.source, m.command>>
        \o (IF m.params = <<>> THEN <<>>
            ELSE FlattenSeq(Front(m.params))
                   \o (IF bare THEN last
                       ELSE [last EXCEPT ![1] = <<Colon>> \o @]))

(* to_string: the last parameter gets a colon, whatever it is. *)
Format(m) ==
  <<<<Colon>> \o m.source, m.command>>
    \o (IF m.params = <<>> THEN <<>>
        ELSE FlattenSeq(Front(m.params))
               \o [Last(m.params) EXCEPT ![1] = <<Colon>> \o @])

-----------------------------------------------------------------------------
(* The words are on their own, or follow tags or a source. *)
WireInit ==
  /\ said \in UNION {[1..n -> Word] : n \in 0..MaxWords}
  /\ \E before \in {<<>>, <<Tags>>, <<Source>>, <<Tags, Source>>} :
       wire = before \o <<Privmsg>> \o said
  /\ msg = NoMessage
  /\ relayed = NoMessage

(* The line reaches the server, or the client at the other end. *)
Receive ==
  /\ msg = NoMessage
  /\ msg' = ParseMessage(wire)
  /\ UNCHANGED <<wire, said, relayed>>

(* handle_privmsg: two parameters are relayed, with the sender's prefix.   *)
Relay ==
  /\ msg # NoMessage
  /\ Len(msg.params) >= 2
  /\ LET m == [source |-> Prefix, command |-> msg.command,
               params |-> SubSeq(msg.params, 1, 2)]
     IN  wire' = Format(m) /\ relayed' = m
  /\ msg' = NoMessage
  /\ UNCHANGED said

WireNext == Receive \/ Relay

WireSpec == WireInit /\ [][WireNext]_wire_vars

-----------------------------------------------------------------------------
(* What is relayed is parsed at the other end as it was sent, at every     *)
(* hop: a parameter that starts with a colon, an empty one, and one with   *)
(* spaces in it included.  The exception is text in which a later word     *)
(* starts with a colon, which parsing can leave in.                        *)
RelayKept == msg # NoMessage /\ relayed # NoMessage =>
  (msg = relayed <=>
     \A text \in Range(relayed.params) :
       \A i \in 2..Len(text) : ~Starts(text[i], Colon))

(* The parameters as a client means them: words, and after the first colon *)
(* the rest of the line as it is.                                          *)
Meant(words) ==
  LET colons == {i \in DOMAIN words : Starts(words[i], Colon)}
      last == IF colons = {} THEN Len(words)
              ELSE CHOOSE i \in colons : \A j \in colons : i <= j
  IN  [i \in 1..last |->
         IF i \in colons
         THEN <<Tail(words[i])>> \o SubSeq(words, i + 1, Len(words))
         ELSE <<words[i]>>]

(* The server understands a line as the client means it, with tags and a   *)
(* source or without, unless a second word starts with a colon: then it    *)
(* never does.                                                             *)
ParsedAsMeant == msg # NoMessage /\ relayed = NoMessage =>
  (msg.params = Meant(said) <=>
     Cardinality({i \in DOMAIN said : Starts(said[i], Colon)}) <= 1)
=============================================================================
