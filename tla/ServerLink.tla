----------------------------- MODULE ServerLink -----------------------------
(***************************************************************************)
(* The links to other servers: connect_to_server (src/src/server/mod.rs)   *)
(* and the task that reads from a link (src/src/link/mod.rs).  Calls of    *)
(* connect_to_server run concurrently; each that connects stores its link  *)
(* in linked_servers under the name of the peer and spawns the task, which *)
(* holds the mutex of the link as long as it reads.                        *)
(*                                                                         *)
(* The peer speaks first: the link never sends PASS, CAPAB, SERVER or a    *)
(* burst.  A server of this program takes the link for a client.           *)
(*                                                                         *)
(* No command of a client and nothing in main() calls connect_to_server:   *)
(* the tests do.                                                           *)
(***************************************************************************)
EXTENDS Naturals, Sequences

CONSTANTS
  Link,      \* the calls of connect_to_server
  Name,      \* the names of the servers in the configuration
  Own,       \* those that are served by this program
  NoLink,
  Buffer,    \* answers that fit into the socket while the peer does not read
  MaxLines   \* how many lines a peer sends: a bound for TLC only

ASSUME LinkAssumption ==
  /\ Own \subseteq Name
  /\ NoLink \notin Link
  /\ Buffer \in Nat \ {0}
  /\ MaxLines \in Nat

(* A line that a peer sends.  An argument holds the end of the line, which *)
(* read_line does not strip; without arguments it is part of the command.  *)
(* "other" does nothing, be it unknown or not parsed; "garbled" is not     *)
(* UTF-8.                                                                  *)
Line == [cmd : {"PING", "SQUIT"}, args : BOOLEAN]
        \cup [cmd : {"other", "garbled"}, args : {FALSE}]

VARIABLES
  stage,    \* stage[l]: where the call, and then the task, of l is
  name,     \* name[l]: the peer
  linked,   \* Server.linked_servers
  said,     \* said[l]: the lines the peer has sent
  taken,    \* taken[l]: how many of them the task has read
  written,  \* written[l]: the PINGs answered, as positions in said[l]
  seen,     \* seen[l]: how many of the answers the peer has read
  peer      \* peer[l]: the peer can send, has closed or has reset

vars == <<stage, name, linked, said, taken, written, seen, peer>>

Stage == {"idle", "dialing", "storing", "reading", "writing", "ended"}

LinkTypeOK ==
  /\ stage \in [Link -> Stage]
  /\ name \in [Link -> Name]
  /\ linked \in [Name -> Link \cup {NoLink}]
  /\ said \in [Link -> Seq(Line)]
  /\ taken \in [Link -> Nat]
  /\ written \in [Link -> Seq(Nat)]
  /\ seen \in [Link -> Nat]
  /\ peer \in [Link -> {"open", "closed", "reset"}]
  /\ \A l \in Link : taken[l] <= Len(said[l]) /\ seen[l] <= Len(written[l])

Init ==
  /\ stage = [l \in Link |-> "idle"]
  /\ name \in [Link -> Name]
  /\ linked = [n \in Name |-> NoLink]
  /\ said = [l \in Link |-> <<>>]
  /\ taken = [l \in Link |-> 0]
  /\ written = [l \in Link |-> <<>>]
  /\ seen = [l \in Link |-> 0]
  /\ peer = [l \in Link |-> "open"]

-----------------------------------------------------------------------------
MoveTo(l, s) == stage' = [stage EXCEPT ![l] = s]

Running(l) == stage[l] \in {"reading", "writing"}

(* The socket of l is open as long as somebody has the link: the call, the *)
(* task or linked_servers.                                                 *)
SocketOpen(l) ==
  stage[l] = "storing" \/ Running(l) \/ linked[name[l]] = l

(* connect_to_server is called; it waits for the connection. *)
Dial(l) ==
  /\ stage[l] = "idle"
  /\ MoveTo(l, "dialing")
  /\ UNCHANGED <<name, linked, said, taken, written, seen, peer>>

(* The connection is there, or the call returns an Err. *)
Dialed(l) ==
  /\ stage[l] = "dialing"
  /\ \E s \in {"storing", "ended"} : MoveTo(l, s)
  /\ UNCHANGED <<name, linked, said, taken, written, seen, peer>>

\* Mutant: the link introduces itself.
StoreAndGreet(l) ==
  /\ stage[l] = "storing"
  /\ linked' = [linked EXCEPT ![name[l]] = l]
  /\ written' = [written EXCEPT ![l] = <<0>>]
  /\ MoveTo(l, "reading")
  /\ UNCHANGED <<name, said, taken, seen, peer>>

(* The link replaces an earlier one of that name, whose task goes on.      *)
Store(l) ==
  /\ stage[l] = "storing"
  /\ linked' = [linked EXCEPT ![name[l]] = l]
  /\ MoveTo(l, "reading")
  /\ UNCHANGED <<name, said, taken, written, seen, peer>>

-----------------------------------------------------------------------------
(* The task *)

(* handle_message knows the command. *)
Known(m, cmd) == m.cmd = cmd /\ m.args

\* Mutant: the entry of the link is removed when its task ends.
EndUnlinks(l) ==
  /\ MoveTo(l, "ended")
  /\ linked' = [n \in Name |-> IF linked[n] = l THEN NoLink ELSE linked[n]]

(* The task ends with Ok or a logged Err.  linked_servers keeps the link. *)
End(l) == MoveTo(l, "ended") /\ UNCHANGED linked

\* Mutant: a SQUIT is logged, and the task reads on.
TakeLineIgnoresSquit(l) ==
  /\ stage[l] = "reading"
  /\ peer[l] # "reset"
  /\ taken[l] < Len(said[l])
  /\ taken' = [taken EXCEPT ![l] = @ + 1]
  /\ LET m == said[l][taken[l] + 1] IN
     \/ Known(m, "PING") /\ MoveTo(l, "writing") /\ UNCHANGED linked
     \/ m.cmd = "garbled" /\ End(l)
     \/ ~Known(m, "PING") /\ m.cmd # "garbled" /\ UNCHANGED <<stage, linked>>
  /\ UNCHANGED <<name, said, written, seen, peer>>

(* read_line, parse_message and handle_message up to the answer: SQUIT and *)
(* a line that is not UTF-8 end the task.                                  *)
TakeLine(l) ==
  /\ stage[l] = "reading"
  /\ peer[l] # "reset"
  /\ taken[l] < Len(said[l])
  /\ taken' = [taken EXCEPT ![l] = @ + 1]
  /\ LET m == said[l][taken[l] + 1] IN
     \/ Known(m, "PING") /\ MoveTo(l, "writing") /\ UNCHANGED linked
     \/ (Known(m, "SQUIT") \/ m.cmd = "garbled") /\ End(l)
     \/ /\ ~Known(m, "PING") /\ ~Known(m, "SQUIT") /\ m.cmd # "garbled"
        /\ UNCHANGED <<stage, linked>>
  /\ UNCHANGED <<name, said, written, seen, peer>>

\* Mutant: the task reads on before the answer is written.
WriteLastPong(l) ==
  /\ stage[l] \in {"reading", "writing"}
  /\ peer[l] # "reset"
  /\ taken[l] > 0 /\ Known(said[l][taken[l]], "PING")
  /\ Len(written[l]) - seen[l] < Buffer
  /\ written' = [written EXCEPT ![l] = Append(@, taken[l])]
  /\ MoveTo(l, "reading")
  /\ UNCHANGED <<name, linked, said, taken, seen, peer>>

(* send_message: nothing is read until the answer fits into the socket. *)
WritePong(l) ==
  /\ stage[l] = "writing"
  /\ peer[l] # "reset"
  /\ Len(written[l]) - seen[l] < Buffer
  /\ written' = [written EXCEPT ![l] = Append(@, taken[l])]
  /\ MoveTo(l, "reading")
  /\ UNCHANGED <<name, linked, said, taken, seen, peer>>

(* The end of the input, or an error of the socket. *)
Hangup(l) ==
  /\ \/ peer[l] = "closed" /\ stage[l] = "reading" /\ taken[l] = Len(said[l])
     \/ peer[l] = "reset" /\ Running(l)
  /\ End(l)
  /\ UNCHANGED <<name, said, taken, written, seen, peer>>

-----------------------------------------------------------------------------
(* The peers *)

(* A server of this program that accepts the link serves it as a client:   *)
(* its ping timer starts at the registration, so that it sends no PING     *)
(* before the link has sent anything.  It has no SQUIT for clients.        *)
PeerSends(l, m) ==
  /\ SocketOpen(l)
  /\ peer[l] = "open"
  /\ Len(said[l]) < MaxLines
  /\ name[l] \in Own => \/ m.cmd = "other"
                        \/ m.cmd = "PING" /\ written[l] # <<>>
  /\ said' = [said EXCEPT ![l] = Append(@, m)]
  /\ UNCHANGED <<stage, name, linked, taken, written, seen, peer>>

PeerReads(l) ==
  /\ seen[l] < Len(written[l])
  /\ peer[l] # "reset"
  /\ seen' = [seen EXCEPT ![l] = @ + 1]
  /\ UNCHANGED <<stage, name, linked, said, taken, written, peer>>

PeerCloses(l) ==
  /\ SocketOpen(l)
  /\ \/ peer[l] = "open" /\ peer' = [peer EXCEPT ![l] = "closed"]
     \/ peer[l] # "reset" /\ peer' = [peer EXCEPT ![l] = "reset"]
  /\ UNCHANGED <<stage, name, linked, said, taken, written, seen>>

-----------------------------------------------------------------------------
Task(l) == Store(l) \/ TakeLine(l) \/ WritePong(l) \/ Hangup(l)

Next == \E l \in Link :
  \/ Dial(l) \/ Dialed(l) \/ Task(l)
  \/ PeerReads(l) \/ PeerCloses(l)
  \/ \E m \in Line : PeerSends(l, m)

Spec == Init /\ [][Next]_vars

(* tokio polls a task that is ready; the peers owe nothing. *)
FairSpec == Spec /\ \A l \in Link : WF_vars(Task(l))

-----------------------------------------------------------------------------
(* Properties *)

(* The answers of a link are those to the PINGs with an argument that its  *)
(* peer has sent, in the order in which they came, each once; only the     *)
(* last one can be missing, while it is being written or when the task has *)
(* ended over it.                                                          *)
PongsAnswerPings == \A l \in Link :
  /\ \A i, j \in 1..Len(written[l]) : i < j => written[l][i] < written[l][j]
  /\ \A i \in 1..Len(written[l]) :
       written[l][i] \in 1..taken[l] /\ Known(said[l][written[l][i]], "PING")
  /\ \A k \in 1..taken[l] :
       /\ Known(said[l][k], "PING")
       /\ k < taken[l] \/ stage[l] = "reading"
       => \E i \in 1..Len(written[l]) : written[l][i] = k

(* Two servers of this program that are linked never exchange a command:   *)
(* each waits for the other to introduce itself.                           *)
OwnServersSilent == \A l \in Link : name[l] \in Own =>
  /\ written[l] = <<>>
  /\ \A k \in 1..Len(said[l]) : said[l][k].cmd = "other"

(* A link that has been stored keeps its socket open, whatever the peer    *)
(* does, until a later link of the same name takes its place; a SQUIT ends *)
(* the task and nothing else.                                              *)
KeptUntilReplaced == [][\A l \in Link :
  SocketOpen(l) /\ ~SocketOpen(l)' =>
    \E k \in Link \ {l} : name[k] = name[l] /\ linked'[name[l]] = k]_vars

SquitWaits(l) ==
  /\ Running(l)
  /\ \E k \in (taken[l] + 1)..Len(said[l]) : Known(said[l][k], "SQUIT")

(* A SQUIT comes to be read, and the task ends, if the peer reads what was *)
(* written from time to time; one that does not read stops the task.       *)
SquitEndsTask == \A l \in Link :
  []<>(seen[l] = Len(written[l])) => (SquitWaits(l) ~> stage[l] = "ended")
=============================================================================
