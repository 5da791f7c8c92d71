------------------------- MODULE LineDatabaseProofs -------------------------
(* Proofs about LineDatabase, for every set of tasks and lines. *)
EXTENDS LineDatabase, TLAPS

(* The database keeps its variables in range, and holds a text to save     *)
(* only under the read lock.                                               *)
THEOREM DbTypeCorrect == Spec => []DbTypeOK
<1>1. Init => DbTypeOK
  BY DatabaseAssumption DEF DatabaseAssumption, Init, DbTypeOK, Saving
<1>2. DbTypeOK /\ [Next]_vars => DbTypeOK'
  <2> SUFFICES ASSUME DbTypeOK, [Next]_vars PROVE DbTypeOK'
    OBVIOUS
  <2> USE DatabaseAssumption
      DEF DatabaseAssumption, DbTypeOK, Saving, MoveTo, Idle
  <2>1. ASSUME NEW t \in Task, NEW line \in Line, Add(t, line) PROVE DbTypeOK'
    BY <2>1 DEF Add
  <2>2. ASSUME NEW t \in Task, NEW line \in Line, Remove(t, line) PROVE DbTypeOK'
    BY <2>2 DEF Remove
  <2>3. ASSUME NEW t \in Task, SaveLocks(t) PROVE DbTypeOK'
    BY <2>3 DEF SaveLocks
  <2>4. ASSUME NEW t \in Task, SaveOpens(t) PROVE DbTypeOK'
    BY <2>4 DEF SaveOpens
  <2>5. ASSUME NEW t \in Task, SaveWrites(t) PROVE DbTypeOK'
    BY <2>5 DEF SaveWrites
  <2>6. ASSUME NEW t \in Task, SaveFails(t) PROVE DbTypeOK'
    BY <2>6 DEF SaveFails
  <2>7. CASE Crash
    BY <2>7 DEF Crash
  <2>8. CASE Restart
    BY <2>8 DEF Restart, OnDisk
  <2>9. CASE UNCHANGED vars
    BY <2>9 DEF vars
  <2> QED
    BY <2>1, <2>2, <2>3, <2>4, <2>5, <2>6, <2>7, <2>8, <2>9 DEF Next
<1> QED
  BY <1>1, <1>2, PTL DEF Spec

-----------------------------------------------------------------------------
(* What a task is writing is what is in memory: no change can come between *)
(* the text and the file.  A difference between file and memory is one     *)
(* that some call is still working on, or has failed to save.              *)
SaveInvariant ==
  /\ running => \A t \in Task : pc[t] \in Saving => data[t] = content
  /\ running => \A t \in Task : added[t] # NoLine => added[t] \in content
  /\ ~running => \A t \in Task : pc[t] = "idle"
  /\ running /\ (\A t \in Task : pc[t] = "idle") => OnDisk = content
  /\ ReturnedIsSaved

(* SaveInvariant is an invariant.                                          *)
THEOREM Saves == Spec => []SaveInvariant
<1>1. Init => SaveInvariant
  BY DEF Init, SaveInvariant, ReturnedIsSaved, Saving, OnDisk
<1>2. DbTypeOK /\ SaveInvariant /\ [Next]_vars => SaveInvariant'
  <2> SUFFICES ASSUME DbTypeOK, SaveInvariant, [Next]_vars PROVE SaveInvariant'
    OBVIOUS
  <2> USE DatabaseAssumption
      DEF DatabaseAssumption, DbTypeOK, Saving, MoveTo, Idle,
          SaveInvariant, ReturnedIsSaved, OnDisk
  <2>1. ASSUME NEW t \in Task, NEW line \in Line, Add(t, line)
        PROVE  SaveInvariant'
    BY <2>1 DEF Add, Writable
  <2>2. ASSUME NEW t \in Task, NEW line \in Line, Remove(t, line)
        PROVE  SaveInvariant'
    BY <2>2 DEF Remove, Writable
  <2>3. ASSUME NEW t \in Task, SaveLocks(t) PROVE SaveInvariant'
    BY <2>3 DEF SaveLocks
  <2>4. ASSUME NEW t \in Task, SaveOpens(t) PROVE SaveInvariant'
    BY <2>4 DEF SaveOpens
  <2>5. ASSUME NEW t \in Task, SaveWrites(t) PROVE SaveInvariant'
    BY <2>5 DEF SaveWrites
  <2>6. ASSUME NEW t \in Task, SaveFails(t) PROVE SaveInvariant'
    BY <2>6 DEF SaveFails
  <2>7. CASE Crash
    BY <2>7 DEF Crash
  <2>8. CASE Restart
    BY <2>8 DEF Restart
  <2>9. CASE UNCHANGED vars
    BY <2>9 DEF vars
  <2> QED
    BY <2>1, <2>2, <2>3, <2>4, <2>5, <2>6, <2>7, <2>8, <2>9 DEF Next
<1> QED
  BY <1>1, <1>2, DbTypeCorrect, PTL DEF Spec

(* Once all calls have returned without error the file is what is in       *)
(* memory, for any number of concurrent calls.                             *)
THEOREM FileStaysCurrent == Spec => []FileCurrent
<1>1. SaveInvariant => FileCurrent
  BY DEF SaveInvariant, FileCurrent
<1> QED
  BY <1>1, Saves, PTL

(* A line whose add_kline() returned is in the file while it is complete.  *)
THEOREM ReturnedStaysSaved == Spec => []ReturnedIsSaved
<1>1. SaveInvariant => ReturnedIsSaved
  BY DEF SaveInvariant
<1> QED
  BY <1>1, Saves, PTL
=============================================================================
