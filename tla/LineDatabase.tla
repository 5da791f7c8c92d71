---------------------------- MODULE LineDatabase ----------------------------
(***************************************************************************)
(* K-lines: the database (src/src/database/mod.rs) keeps a list of them in *)
(* memory, behind an RwLock, and saves it to a file.                       *)
(*                                                                         *)
(* Tasks call the database's add_kline() and remove_kline(); the process   *)
(* can end at any point and is started again.  One action is what a task   *)
(* does between two points where another task or the end of the process    *)
(* can come in.  fs::write() is two: the file is truncated when it is      *)
(* opened, then written.                                                   *)
(*                                                                         *)
(* This is a model of what the database offers.  No code of the program    *)
(* calls add_kline() or remove_kline(): the operations of the server with  *)
(* these names (src/src/server/xline.rs) change a copy of the access lists *)
(* instead.                                                                *)
(***************************************************************************)
CONSTANTS Task, Line, NoLine

ASSUME DatabaseAssumption == NoLine \notin Line

VARIABLES
  running,    \* the process is up
  content,    \* DatabaseContent.klines
  file,       \* the lines that the file held when it was last complete
  torn,       \* the file is truncated, or half written
  pc,         \* pc[t]: how far the call of task t is
  data,       \* data[t]: what it is writing
  added       \* the line a task has added, for the properties only

vars == <<running, content, file, torn, pc, data, added>>

Saving == {"opening", "writing"}

(* A text to save is there as long as the read lock is held. *)
DbTypeOK ==
  /\ running \in BOOLEAN
  /\ content \subseteq Line
  /\ file \subseteq Line
  /\ torn \in BOOLEAN
  /\ pc \in [Task -> {"idle", "save", "opening", "writing", "failed"}]
  /\ data \in [Task -> SUBSET Line]
  /\ \A t \in Task : pc[t] \notin Saving => data[t] = {}
  /\ added \in [Task -> Line \cup {NoLine}]

Init ==
  /\ running = TRUE
  /\ content = {}
  /\ file = {}
  /\ torn = FALSE
  /\ pc = [t \in Task |-> "idle"]
  /\ data = [t \in Task |-> {}]
  /\ added = [t \in Task |-> NoLine]

-----------------------------------------------------------------------------
(* The database *)

MoveTo(t, p) == pc' = [pc EXCEPT ![t] = p]
Idle(t) == running /\ pc[t] \in {"idle", "failed"}

(* The write lock is free: no task holds the read lock. *)
Writable == \A t \in Task : pc[t] \notin Saving

\* Mutant: the content is changed while another task saves it.
AddUnlocked(t, line) ==
  /\ Idle(t)
  /\ content' = content \cup {line}
  /\ added' = [added EXCEPT ![t] = line]
  /\ MoveTo(t, "save")
  /\ UNCHANGED <<running, file, torn, data>>

(* add_kline, remove_kline up to the release of the write lock. *)
Add(t, line) ==
  /\ Idle(t)
  /\ Writable
  /\ content' = content \cup {line}
  /\ added' = [added EXCEPT ![t] = line]
  /\ MoveTo(t, "save")
  /\ UNCHANGED <<running, file, torn, data>>

Remove(t, line) ==
  /\ Idle(t)
  /\ Writable
  /\ content' = content \ {line}
  /\ added' = [u \in Task |-> IF added[u] = line THEN NoLine ELSE added[u]]
  /\ MoveTo(t, "save")
  /\ UNCHANGED <<running, file, torn, data>>

(* save() takes the read lock, which other tasks may hold as well. *)
SaveLocks(t) ==
  /\ running /\ pc[t] = "save"
  /\ data' = [data EXCEPT ![t] = content]
  /\ MoveTo(t, "opening")
  /\ UNCHANGED <<running, content, file, torn, added>>

SaveOpens(t) ==
  /\ running /\ pc[t] = "opening"
  /\ torn' = TRUE
  /\ MoveTo(t, "writing")
  /\ UNCHANGED <<running, content, file, data, added>>

SaveWrites(t) ==
  /\ running /\ pc[t] = "writing"
  /\ file' = data[t]
  /\ torn' = FALSE
  /\ data' = [data EXCEPT ![t] = {}]
  /\ MoveTo(t, "idle")
  /\ UNCHANGED <<running, content, added>>

\* Mutant: the error of fs::write is ignored.
SaveFailsSilently(t) ==
  /\ running /\ pc[t] \in Saving
  /\ data' = [data EXCEPT ![t] = {}]
  /\ MoveTo(t, "idle")
  /\ UNCHANGED <<running, content, file, torn, added>>

(* The file cannot be opened or written: the caller gets the error, and    *)
(* what it changed stays changed in memory.                                *)
SaveFails(t) ==
  /\ running /\ pc[t] \in Saving
  /\ data' = [data EXCEPT ![t] = {}]
  /\ MoveTo(t, "failed")
  /\ UNCHANGED <<running, content, file, torn, added>>

-----------------------------------------------------------------------------
(* The end of the process *)

(* The process ends; a call that had not returned never does. *)
Crash ==
  /\ running
  /\ running' = FALSE
  /\ content' = {}
  /\ pc' = [t \in Task |-> "idle"]
  /\ data' = [t \in Task |-> {}]
  /\ added' = [t \in Task |-> IF pc[t] = "idle" THEN added[t] ELSE NoLine]
  /\ UNCHANGED <<file, torn>>

(* What Database::new reads: a file that cannot be parsed counts as empty. *)
OnDisk == IF torn THEN {} ELSE file

(* Database::new *)
Restart ==
  /\ ~running
  /\ running' = TRUE
  /\ content' = OnDisk
  /\ added' = [t \in Task |-> IF added[t] \in OnDisk THEN added[t] ELSE NoLine]
  /\ UNCHANGED <<file, torn, pc, data>>

Next ==
  \/ \E t \in Task :
       \/ SaveLocks(t) \/ SaveOpens(t) \/ SaveWrites(t) \/ SaveFails(t)
       \/ \E line \in Line : Add(t, line) \/ Remove(t, line)
  \/ Crash \/ Restart

Spec == Init /\ [][Next]_vars

-----------------------------------------------------------------------------
(* Whatever the order in which concurrent calls change the list and save   *)
(* it: once they have all returned without error the file is what is in    *)
(* memory.                                                                 *)
FileCurrent ==
  running /\ (\A t \in Task : pc[t] = "idle") => OnDisk = content

(* A line whose add_kline() returned is in the file, as long as the file   *)
(* is complete, while other calls come, fail and are cut off.              *)
ReturnedIsSaved == ~torn => \A t \in Task :
  pc[t] = "idle" /\ added[t] # NoLine => added[t] \in file

(* config.toml:24: "Whether to persist lines between restarts".  A line    *)
(* whose add_kline() has returned is loaded again.                         *)
LinesPersist == [][~running /\ running' => \A t \in Task :
  added[t] # NoLine => added[t] \in content']_vars
=============================================================================
