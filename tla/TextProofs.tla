----------------------------- MODULE TextProofs -----------------------------
(***************************************************************************)
(* Proofs about ChannelModes, MaskMatch and TS6Wire, which read a text     *)
(* character by character or a line word by word, for MODEs, masks, hosts  *)
(* and lines of any length.                                                *)
(*                                                                         *)
(* They are inductions along the text: an induction along an interval is   *)
(* the inclusion of the interval in a set (UpTheInterval), and follows     *)
(* from the least number of a set (LeastNumber).  The loops are recursive  *)
(* functions; StepByStep says that these exist.                            *)
(***************************************************************************)
EXTENDS ChannelModes, MaskMatch, TS6Wire, Integers, FiniteSetTheorems, SequenceTheorems, TLAPS

-----------------------------------------------------------------------------
(* Induction.  That the numbers are well ordered follows from the finite   *)
(* subsets of an interval, which are well founded.                         *)

LEMMA LeastNumber ==
  ASSUME NEW S \in SUBSET Nat, S # {}
  PROVE  \E n \in S : \A m \in S : n <= m
<1>1. PICK k \in S : TRUE
  OBVIOUS
<1> DEFINE T == {0..n : n \in {m \in S : m <= k}}
<1>2. IsFiniteSet(0..k)
  BY FS_Interval
<1>3. T \subseteq SUBSET (0..k) /\ T # {}
  OBVIOUS
<1>4. IsWellFoundedOn(StrictSubsetOrdering(0..k), FiniteSubsetsOf(0..k))
  BY FS_StrictSubsetOrderingWellFounded
<1>5. T \subseteq FiniteSubsetsOf(0..k)
  BY <1>2, <1>3, FS_FiniteSubsetsOfFinite
<1>6. PICK x \in T : \A y \in T : ~ (<<y, x>> \in StrictSubsetOrdering(0..k))
  <2> HIDE DEF T
  <2> QED
    BY <1>3, <1>4, <1>5, WFMin
<1>7. PICK n \in S : n <= k /\ x = 0..n
  BY <1>6
<1>8. ASSUME NEW m \in S, m < n PROVE FALSE
  <2>1. (0..m) \in T /\ 0..m \subseteq 0..n /\ n \in 0..n /\ n \notin 0..m
    BY <1>7, <1>8
  <2>2. <<0..m, 0..n>> \in StrictSubsetOrdering(0..k)
    BY <2>1, <1>7, <1>8 DEF StrictSubsetOrdering
  <2> QED
    BY <1>6, <1>7, <2>1, <2>2
<1> QED
  BY <1>8

(* Induction along an interval. *)
LEMMA UpTheInterval ==
  ASSUME NEW S, NEW k \in Nat, 0 \in S,
         \A n \in 0..(k - 1) : n \in S => n + 1 \in S
  PROVE  0..k \subseteq S
<1> SUFFICES ASSUME (0..k) \ S # {} PROVE FALSE
  OBVIOUS
<1>1. (0..k) \ S \in SUBSET Nat
  OBVIOUS
<1>2. PICK n \in (0..k) \ S : \A m \in (0..k) \ S : n <= m
  BY LeastNumber, <1>1
<1>3. n # 0 /\ n - 1 \in 0..(k - 1)
  BY <1>2
<1>4. n - 1 \in S
  BY <1>2, <1>3
<1> QED
  BY <1>2, <1>3, <1>4

(* The last position of a set of positions. *)
LEMMA LastPosition ==
  ASSUME NEW k \in Nat, NEW S \in SUBSET (1..k), S # {}
  PROVE  /\ Max(S) \in S
         /\ \A i \in S : Max(S) >= i
<1> DEFINE T == {n \in 0..k : k - n \in S}
<1>1. PICK i \in S : TRUE
  OBVIOUS
<1>2. k - i \in T /\ T \in SUBSET Nat
  BY <1>1
<1>3. PICK n \in T : \A m \in T : n <= m
  BY <1>2, LeastNumber
<1>4. k - n \in S /\ \A j \in S : k - n >= j
  <2>1. \A j \in S : k - j \in T
    OBVIOUS
  <2> QED
    BY <1>3, <2>1
<1>5. \E x \in S : \A y \in S : x >= y
  BY <1>4
<1> QED
  BY <1>5 DEF Max

(* A recursive function on an interval has its values, when each of them   *)
(* follows from the one before within a set.                               *)
StepsWithin(V, k) == [1..k -> [V -> V]]

Follows(f, V, s, k, step) ==
  f \in [0..k -> V] /\ f[0] = s /\ \A i \in 1..k : f[i] = step[i][f[i - 1]]

LEMMA StepByStep ==
  ASSUME NEW V, NEW s \in V, NEW k \in Nat, NEW step \in StepsWithin(V, k)
  PROVE  \E f : Follows(f, V, s, k, step)
<1> USE DEF StepsWithin
<1> DEFINE Steps(f, n) == f[0] = s /\ \A i \in 1..n : f[i] = step[i][f[i - 1]]
           S == {n \in 0..k : \E f \in [0..n -> V] : Steps(f, n)}
<1>1. 0 \in S
  <2> DEFINE f == [i \in 0..0 |-> s]
  <2>1. f \in [0..0 -> V] /\ Steps(f, 0)
    OBVIOUS
  <2> HIDE DEF f
  <2> QED
    BY <2>1
<1>2. ASSUME NEW n \in 0..(k - 1), n \in S PROVE n + 1 \in S
  <2>1. PICK f \in [0..n -> V] : Steps(f, n)
    BY <1>2
  <2> DEFINE g == [i \in 0..(n + 1) |-> IF i = n + 1 THEN step[i][f[n]] ELSE f[i]]
  <2>2. step[n + 1][f[n]] \in V
    <3>1. f[n] \in V /\ n + 1 \in 1..k
      OBVIOUS
    <3> QED
      BY <3>1
  <2>3. g \in [0..(n + 1) -> V]
    <3>1. \A i \in 0..(n + 1) : i = n + 1 \/ i \in 0..n
      OBVIOUS
    <3> QED
      BY <2>2, <3>1
  <2>4. /\ g[n + 1] = step[n + 1][f[n]]
        /\ \A i \in 0..n : g[i] = f[i]
    OBVIOUS
  <2> HIDE DEF g
  <2>5. \A i \in 1..(n + 1) : g[i] = step[i][g[i - 1]]
    <3> SUFFICES ASSUME NEW i \in 1..(n + 1) PROVE g[i] = step[i][g[i - 1]]
      OBVIOUS
    <3>1. CASE i = n + 1
      <4>1. i - 1 = n /\ n \in 0..n
        BY <3>1
      <4> QED
        BY <2>4, <3>1, <4>1
    <3>2. CASE i \in 1..n
      <4>1. i \in 0..n /\ i - 1 \in 0..n
        BY <3>2
      <4> QED
        BY <2>1, <2>4, <3>2, <4>1
    <3> QED
      BY <3>1, <3>2
  <2>6. g[0] = s
    BY <2>1, <2>4
  <2>7. n + 1 \in 0..k
    OBVIOUS
  <2> QED
    BY <2>3, <2>5, <2>6, <2>7
<1>3. k \in S
  <2> HIDE DEF S
  <2>1. 0..k \subseteq S
    BY <1>1, <1>2, UpTheInterval
  <2> QED
    BY <2>1
<1> QED
  BY <1>3 DEF Follows

-----------------------------------------------------------------------------
(* Modes, the characters one by one *)

ChannelState == [modes : SUBSET Letter, params : [Letter -> Param \cup {NoParam}]]
ChangeMade == [mode : Letter, param : Param \cup {NoParam}, adding : BOOLEAN]
Reading == [ch : ChannelState, adding : BOOLEAN, left : Seq(Param),
            changes : Seq(ChangeMade)]

LEMMA ChangeType ==
  ASSUME NEW s \in Reading, NEW c \in Letter, NEW p \in Param \cup {NoParam}
  PROVE  /\ Change(s, c, p) \in Reading
         /\ Change(s, c, p).ch = SetMode(s.ch, c, p, s.adding)
         /\ Change(s, c, p).adding = s.adding /\ Change(s, c, p).left = s.left
<1>1. SetMode(s.ch, c, p, s.adding) \in ChannelState
  BY DEF Reading, SetMode, ChannelState
<1>2. [mode |-> c, param |-> p, adding |-> s.adding] \in ChangeMade
  BY DEF ChangeMade, Reading
<1>3. Append(s.changes, [mode |-> c, param |-> p, adding |-> s.adding])
        \in Seq(ChangeMade)
  BY <1>2 DEF Reading
<1> QED
  BY <1>1, <1>3 DEF Change, Reading

(* What a character does, one case at a time. *)
LEMMA ReadCharCases ==
  ASSUME NEW s, NEW c
  PROVE  /\ c \in {"+", "-"} => ReadChar(s, c) = [s EXCEPT !.adding = (c = "+")]
         /\ c \in Flags => ReadChar(s, c) = Change(s, c, NoParam)
         /\ c = "k" /\ s.adding /\ s.left # <<>> =>
              ReadChar(s, c) = [Change(s, c, Head(s.left)) EXCEPT !.left = Tail(@)]
         /\ c = "k" /\ ~s.adding => ReadChar(s, c) = Change(s, c, NoParam)
         /\ c = "k" /\ s.adding /\ s.left = <<>> => ReadChar(s, c) = s
         /\ c \notin Flags \cup {"+", "-", "k"} => ReadChar(s, c) = s
<1>1. /\ c \in {"+", "-"} => c \notin Flags /\ c # "k"
      /\ c \in Flags => c \notin {"+", "-"} /\ c # "k"
      /\ c = "k" => c \notin Flags /\ c \notin {"+", "-"}
  BY ModesAssumption
<1> QED
  BY <1>1 DEF ReadChar

LEMMA ReadCharType ==
  ASSUME NEW s \in Reading, NEW c
  PROVE  ReadChar(s, c) \in Reading
<1>1. CASE c \in {"+", "-"}
  <2>1. ReadChar(s, c) = [s EXCEPT !.adding = (c = "+")]
    BY <1>1, ReadCharCases
  <2>2. (c = "+") \in BOOLEAN
    OBVIOUS
  <2> QED
    BY <2>1, <2>2 DEF Reading
<1>2. CASE c \in Flags
  <2>1. c \in Letter /\ c \notin {"+", "-"}
    BY <1>2, ModesAssumption DEF Letter
  <2>2. ReadChar(s, c) = Change(s, c, NoParam)
    BY <1>2, ReadCharCases
  <2>3. NoParam \in Param \cup {NoParam}
    OBVIOUS
  <2> QED
    BY <2>1, <2>2, <2>3, ChangeType
<1>3. CASE c = "k"
  <2>1. c \in Letter /\ c \notin {"+", "-"} /\ c \notin Flags
    BY <1>3, ModesAssumption DEF Letter
  <2>2. CASE s.adding /\ s.left # <<>>
    <3>1. Head(s.left) \in Param /\ Tail(s.left) \in Seq(Param)
      BY <2>2 DEF Reading
    <3>2. Change(s, c, Head(s.left)) \in Reading
      BY <2>1, <3>1, ChangeType
    <3>3. [Change(s, c, Head(s.left)) EXCEPT !.left = Tail(@)] \in Reading
      <4>1. Change(s, c, Head(s.left)).left = s.left
        BY <2>1, <3>1, ChangeType
      <4> QED
        BY <3>1, <3>2, <4>1 DEF Reading
    <3> QED
      BY <1>3, <2>2, <3>3, ReadCharCases
  <2>3. CASE ~s.adding
    BY <1>3, <2>1, <2>3, ChangeType, ReadCharCases
  <2>4. CASE s.adding /\ s.left = <<>>
    BY <1>3, <2>4, ReadCharCases
  <2> QED
    BY <2>2, <2>3, <2>4
<1>4. CASE c \notin Flags \cup {"+", "-", "k"}
  BY <1>4, ReadCharCases
<1> QED
  BY <1>1, <1>2, <1>3, <1>4

(* The loop has one state before each character and after the last. *)
LEMMA CharsRead ==
  ASSUME NEW s \in Reading, NEW chars, Len(chars) \in Nat
  PROVE  LET run == ReadChars(s, chars)
         IN  /\ run[0] = s
             /\ \A i \in 1..Len(chars) : run[i] = ReadChar(run[i - 1], chars[i])
             /\ \A i \in 0..Len(chars) : run[i] \in Reading
<1> DEFINE k == Len(chars)
           step == [i \in 1..k |-> [r \in Reading |-> ReadChar(r, chars[i])]]
           run == ReadChars(s, chars)
<1>1. step \in StepsWithin(Reading, k)
  BY ReadCharType DEF StepsWithin
<1>2. \A r \in Reading, i \in 1..k : step[i][r] = ReadChar(r, chars[i])
  OBVIOUS
<1> HIDE DEF step
<1>3. PICK f : Follows(f, Reading, s, k, step)
  BY <1>1, StepByStep
<1>4. f = [i \in 0..k |-> IF i = 0 THEN s ELSE ReadChar(f[i - 1], chars[i])]
  <2>1. \A i \in 0..k : i # 0 => i - 1 \in 0..k /\ i \in 1..k
    OBVIOUS
  <2>2. \A i \in 0..k : i # 0 => f[i] = ReadChar(f[i - 1], chars[i])
    BY <1>2, <1>3, <2>1 DEF Follows
  <2> QED
    BY <1>3, <2>2 DEF Follows
<1>5. run = [i \in 0..k |-> IF i = 0 THEN s ELSE ReadChar(run[i - 1], chars[i])]
  BY <1>4 DEF ReadChars
<1> HIDE DEF run
<1>6. \A i \in 0..k : run[i] = IF i = 0 THEN s ELSE ReadChar(run[i - 1], chars[i])
  BY <1>5
<1>7. run[0] = s /\ \A i \in 1..k : run[i] = ReadChar(run[i - 1], chars[i])
  <2>1. 0 \in 0..k /\ \A i \in 1..k : i \in 0..k /\ i # 0
    OBVIOUS
  <2> QED
    BY <1>6, <2>1
<1>8. \A i \in 0..k : run[i] \in Reading
  <2> DEFINE S == {i \in 0..k : run[i] \in Reading}
  <2>1. 0 \in S
    BY <1>7
  <2>2. ASSUME NEW n \in 0..(k - 1), n \in S PROVE n + 1 \in S
    <3>1. n + 1 \in 1..k /\ n + 1 \in 0..k /\ (n + 1) - 1 = n
      OBVIOUS
    <3>2. run[n + 1] = ReadChar(run[n], chars[n + 1])
      BY <1>7, <3>1
    <3>3. run[n + 1] \in Reading
      BY <2>2, <3>2, ReadCharType
    <3> QED
      BY <3>1, <3>3
  <2>3. 0..k \subseteq S
    <3> HIDE DEF S
    <3> QED
      BY <2>1, <2>2, UpTheInterval
  <2> QED
    BY <2>3
<1> QED
  BY <1>7, <1>8 DEF run

-----------------------------------------------------------------------------
(* Signs and keys *)

(* A sign holds for what comes after it. *)
LEMMA AddsNext ==
  ASSUME NEW chars, NEW i \in Nat \ {0}
  PROVE  Adds(chars, i + 1) <=> IF chars[i] \in {"+", "-"} THEN chars[i] = "+"
                                                          ELSE Adds(chars, i)
<1> DEFINE Signs(n) == {j \in 1..(n - 1) : chars[j] \in {"+", "-"}}
<1>1. \A n \in Nat : Adds(chars, n) <=> Signs(n) = {} \/ chars[Max(Signs(n))] = "+"
  BY DEF Adds
<1>2. CASE chars[i] \in {"+", "-"}
  <2>1. i \in Signs(i + 1) /\ Signs(i + 1) \in SUBSET (1..i)
    BY <1>2
  <2>2. Max(Signs(i + 1)) \in Signs(i + 1) /\ Max(Signs(i + 1)) >= i
    <3> HIDE DEF Signs
    <3> QED
      BY <2>1, LastPosition
  <2>3. Max(Signs(i + 1)) = i
    BY <2>1, <2>2
  <2> HIDE DEF Signs
  <2> QED
    BY <1>1, <1>2, <2>1, <2>3
<1>3. CASE chars[i] \notin {"+", "-"}
  <2>1. Signs(i + 1) = Signs(i)
    <3>1. \A j \in 1..((i + 1) - 1) : j \in 1..(i - 1) \/ j = i
      OBVIOUS
    <3>2. \A j \in 1..(i - 1) : j \in 1..((i + 1) - 1)
      OBVIOUS
    <3> QED
      BY <1>3, <3>1, <3>2
  <2> HIDE DEF Signs
  <2> QED
    BY <1>1, <1>3, <2>1
<1> QED
  BY <1>2, <1>3

LEMMA AddsFirst ==
  ASSUME NEW chars
  PROVE  Adds(chars, 1)
BY DEF Adds

(* Each +k asks for one more parameter. *)
LEMMA KeyNoNext ==
  ASSUME NEW chars, NEW i \in Nat
  PROVE  /\ KeyNo(chars, i) \in Nat /\ KeyNo(chars, 0) = 0
         /\ KeyNo(chars, i + 1) =
              IF chars[i + 1] = "k" /\ Adds(chars, i + 1) THEN KeyNo(chars, i) + 1
                                                         ELSE KeyNo(chars, i)
<1> DEFINE Keys(n) == {j \in 1..n : chars[j] = "k" /\ Adds(chars, j)}
<1>1. \A n \in Nat : KeyNo(chars, n) = Cardinality(Keys(n))
  BY DEF KeyNo
<1>2. \A n \in Nat : IsFiniteSet(Keys(n))
  <2> TAKE n \in Nat
  <2>1. IsFiniteSet(1..n) /\ Keys(n) \subseteq 1..n
    BY FS_Interval
  <2> QED
    BY <2>1, FS_Subset
<1>3. i + 1 \notin Keys(i)
  OBVIOUS
<1>4. Keys(i + 1) = IF chars[i + 1] = "k" /\ Adds(chars, i + 1)
                    THEN Keys(i) \cup {i + 1} ELSE Keys(i)
  <2>1. \A j : j \in 1..(i + 1) <=> j \in 1..i \/ j = i + 1
    OBVIOUS
  <2> QED
    BY <2>1
<1>5. Keys(0) = {}
  OBVIOUS
<1> HIDE DEF Keys
<1>6. Cardinality(Keys(i)) \in Nat
  BY <1>2, FS_CardinalityType
<1>7. Cardinality(Keys(i) \cup {i + 1}) = Cardinality(Keys(i)) + 1
  BY <1>2, <1>3, FS_AddElement
<1>8. Cardinality(Keys(0)) = 0
  BY <1>5, FS_EmptySet
<1>9. KeyNo(chars, i + 1) = Cardinality(Keys(i + 1))
  BY <1>1
<1> QED
  BY <1>1, <1>4, <1>6, <1>7, <1>8, <1>9

-----------------------------------------------------------------------------
(* The last occurrence decides *)

(* Of the occurrences up to i the last is j. *)
IsLast(at, i, j) == j \in at /\ j <= i /\ \A l \in at : l <= i => l <= j

LEMMA LastHere ==
  ASSUME NEW at \in SUBSET Nat, NEW i \in Nat, i + 1 \in at
  PROVE  /\ \A j : IsLast(at, i + 1, j) => j = i + 1
         /\ ~ \A j \in at : j > i + 1
<1>1. ASSUME NEW j, IsLast(at, i + 1, j) PROVE j = i + 1
  <2>1. j \in Nat /\ j <= i + 1 /\ i + 1 <= j
    BY <1>1 DEF IsLast
  <2> QED
    BY <2>1
<1> QED
  BY <1>1

LEMMA LastBefore ==
  ASSUME NEW at \in SUBSET Nat, NEW i \in Nat, i + 1 \notin at
  PROVE  /\ \A j : IsLast(at, i + 1, j) => IsLast(at, i, j)
         /\ (\A j \in at : j > i + 1) => \A j \in at : j > i
<1>1. \A j \in at : j <= i + 1 => j <= i
  OBVIOUS
<1>2. \A j \in at : j <= i => j <= i + 1
  OBVIOUS
<1>3. ASSUME NEW j, IsLast(at, i + 1, j) PROVE IsLast(at, i, j)
  <2>1. j \in at /\ j <= i
    BY <1>1, <1>3 DEF IsLast
  <2>2. \A l \in at : l <= i => l <= j
    BY <1>2, <1>3 DEF IsLast
  <2> QED
    BY <2>1, <2>2 DEF IsLast
<1>4. ASSUME \A j \in at : j > i + 1 PROVE \A j \in at : j > i
  BY <1>4
<1> QED
  BY <1>3, <1>4

(* After i characters: the sign, the parameters that are left, each mode,  *)
(* and the key. *)
LeftAfter(s, chars, params, i) ==
  LET no == KeyNo(chars, i)
  IN  IF no < Len(params)
      THEN /\ Len(s.left) = Len(params) - no
           /\ \A n \in 1..(Len(params) - no) : s.left[n] = params[no + n]
      ELSE s.left = <<>>

ModeAfter(modes, found, chars, count, c, i) ==
  LET at == Occurs(chars, c, count)
  IN  /\ \A j : IsLast(at, i, j) => (c \in modes <=> Adds(chars, j))
      /\ (\A j \in at : j > i) => (c \in modes <=> c \in found)

KeyAfter(key, found, chars, params, i) ==
  LET at == Occurs(chars, "k", Len(params))
  IN  /\ \A j : IsLast(at, i, j) =>
           key = IF Adds(chars, j) THEN params[KeyNo(chars, j)] ELSE NoParam
      /\ (\A j \in at : j > i) => key = found

After(s, found, chars, params, i) ==
  /\ s.adding <=> Adds(chars, i + 1)
  /\ LeftAfter(s, chars, params, i)
  /\ \A c \in Flags \cup {"k"} :
       ModeAfter(s.ch.modes, found.modes, chars, Len(params), c, i)
  /\ KeyAfter(s.ch.params["k"], found.params["k"], chars, params, i)
  /\ s.ch.params["o"] = found.params["o"]

(* A mode that does not occur stays, one that does follows the sign. *)
LEMMA ModeAfterNext ==
  ASSUME NEW modes, NEW before, NEW found, NEW chars, NEW count, NEW c,
         NEW i \in Nat, DOMAIN chars \subseteq Nat,
         ModeAfter(before, found, chars, count, c, i),
         IF i + 1 \in Occurs(chars, c, count)
         THEN c \in modes <=> Adds(chars, i + 1)
         ELSE c \in modes <=> c \in before
  PROVE  ModeAfter(modes, found, chars, count, c, i + 1)
<1> DEFINE at == Occurs(chars, c, count)
<1>1. at \in SUBSET Nat
  BY DEF Occurs
<1> HIDE DEF at
<1>2. CASE i + 1 \in at
  <2>1. (\A j : IsLast(at, i + 1, j) => j = i + 1) /\ ~ \A j \in at : j > i + 1
    BY <1>1, <1>2, LastHere
  <2> QED
    BY <1>2, <2>1 DEF ModeAfter, at
<1>3. CASE i + 1 \notin at
  <2>1. /\ \A j : IsLast(at, i + 1, j) => IsLast(at, i, j)
        /\ (\A j \in at : j > i + 1) => \A j \in at : j > i
    BY <1>1, <1>3, LastBefore
  <2> QED
    BY <1>3, <2>1 DEF ModeAfter, at
<1> QED
  BY <1>2, <1>3

LEMMA KeyAfterNext ==
  ASSUME NEW key, NEW before, NEW found, NEW chars, NEW params,
         NEW i \in Nat, DOMAIN chars \subseteq Nat,
         KeyAfter(before, found, chars, params, i),
         IF i + 1 \in Occurs(chars, "k", Len(params))
         THEN key = IF Adds(chars, i + 1) THEN params[KeyNo(chars, i + 1)] ELSE NoParam
         ELSE key = before
  PROVE  KeyAfter(key, found, chars, params, i + 1)
<1> DEFINE at == Occurs(chars, "k", Len(params))
<1>1. at \in SUBSET Nat
  BY DEF Occurs
<1> HIDE DEF at
<1>2. CASE i + 1 \in at
  <2>1. (\A j : IsLast(at, i + 1, j) => j = i + 1) /\ ~ \A j \in at : j > i + 1
    BY <1>1, <1>2, LastHere
  <2> QED
    BY <1>2, <2>1 DEF KeyAfter, at
<1>3. CASE i + 1 \notin at
  <2>1. /\ \A j : IsLast(at, i + 1, j) => IsLast(at, i, j)
        /\ (\A j \in at : j > i + 1) => \A j \in at : j > i
    BY <1>1, <1>3, LastBefore
  <2> QED
    BY <1>3, <2>1 DEF KeyAfter, at
<1> QED
  BY <1>2, <1>3

(* Each character keeps it so. *)
LEMMA AfterNext ==
  ASSUME NEW s \in Reading, NEW found \in ChannelState, NEW chars,
         NEW params \in Seq(Param), NEW i \in Nat,
         DOMAIN chars \subseteq Nat, i + 1 \in DOMAIN chars,
         After(s, found, chars, params, i)
  PROVE  After(ReadChar(s, chars[i + 1]), found, chars, params, i + 1)
<1> DEFINE x == chars[i + 1]
           t == ReadChar(s, x)
           n == i + 1
           count == Len(params)
           no == KeyNo(chars, i)
           At(c) == Occurs(chars, c, count)
<1> SUFFICES After(t, found, chars, params, n)
  OBVIOUS
<1>1. /\ s.adding <=> Adds(chars, n)
      /\ s.adding \in BOOLEAN
      /\ s.ch \in ChannelState /\ s.left \in Seq(Param)
  BY DEF After, Reading
<1>2. Adds(chars, n + 1) <=> IF x \in {"+", "-"} THEN x = "+" ELSE Adds(chars, n)
  BY AddsNext
<1>3. /\ KeyNo(chars, n) = IF x = "k" /\ Adds(chars, n) THEN no + 1 ELSE no
      /\ no \in Nat /\ count \in Nat
  BY KeyNoNext
<1>4. ASSUME NEW c
      PROVE  n \in At(c) <=> x = c /\ (c = "k" /\ Adds(chars, n) => KeyNo(chars, n) <= count)
  BY DEF Occurs
<1>5. ASSUME t.adding <=> Adds(chars, n + 1),
             LeftAfter(t, chars, params, n),
             \A c \in Flags \cup {"k"} :
               /\ n \in At(c) => (c \in t.ch.modes <=> Adds(chars, n))
               /\ n \notin At(c) => (c \in t.ch.modes <=> c \in s.ch.modes),
             n \in At("k") => t.ch.params["k"] = IF Adds(chars, n)
                                                THEN params[KeyNo(chars, n)]
                                                ELSE NoParam,
             n \notin At("k") => t.ch.params["k"] = s.ch.params["k"],
             t.ch.params["o"] = s.ch.params["o"]
      PROVE  After(t, found, chars, params, n)
  <2> HIDE DEF t
  <2>1. ASSUME NEW c \in Flags \cup {"k"}
        PROVE  ModeAfter(t.ch.modes, found.modes, chars, count, c, n)
    <3>1. ModeAfter(s.ch.modes, found.modes, chars, count, c, i)
      BY DEF After
    <3> QED
      BY <1>5, <3>1, ModeAfterNext
  <2>2. KeyAfter(t.ch.params["k"], found.params["k"], chars, params, n)
    <3>1. KeyAfter(s.ch.params["k"], found.params["k"], chars, params, i)
      BY DEF After
    <3> QED
      BY <1>5, <3>1, KeyAfterNext
  <2> QED
    BY <1>5, <2>1, <2>2 DEF After
<1>6. ASSUME t.left = s.left, ~(x = "k" /\ Adds(chars, n))
      PROVE  LeftAfter(t, chars, params, n)
  BY <1>3, <1>6 DEF After, LeftAfter
<1> HIDE DEF x, t, n
<1>x. /\ x \in {"+", "-"} => x \notin Flags /\ x # "k"
      /\ x \in Flags => x \notin {"+", "-"} /\ x # "k" /\ x # "o"
      /\ {"k", "o"} \cap Flags = {}
  BY ModesAssumption
<1>7. CASE x \in {"+", "-"}
  <2>1. t = [s EXCEPT !.adding = (x = "+")]
    BY <1>7, ReadCharCases DEF t
  <2>2. t.adding = (x = "+") /\ t.ch = s.ch /\ t.left = s.left
    BY <2>1 DEF Reading
  <2>3. \A c \in Flags \cup {"k"} : n \notin At(c)
    BY <1>4, <1>7, <1>x
  <2>4. t.adding <=> Adds(chars, n + 1)
    BY <1>2, <1>7, <2>2
  <2>5. LeftAfter(t, chars, params, n)
    BY <1>6, <1>7, <1>x, <2>2
  <2> QED
    BY <1>5, <2>2, <2>3, <2>4, <2>5
<1>8. CASE x \in Flags
  <2>1. t = Change(s, x, NoParam) /\ x \in Letter
    BY <1>8, ReadCharCases DEF t, Letter
  <2>2. t.ch = SetMode(s.ch, x, NoParam, s.adding) /\ t.adding = s.adding
        /\ t.left = s.left
    BY <2>1, ChangeType
  <2>3. /\ \A c : c \in t.ch.modes <=> IF c = x THEN s.adding ELSE c \in s.ch.modes
        /\ t.ch.params["k"] = s.ch.params["k"] /\ t.ch.params["o"] = s.ch.params["o"]
    BY <1>1, <1>8, <1>x, <2>1, <2>2 DEF SetMode, ChannelState, Letter
  <2>4. \A c \in Flags \cup {"k"} : n \in At(c) <=> c = x
    BY <1>4, <1>8, <1>x
  <2>5. t.adding <=> Adds(chars, n + 1)
    BY <1>1, <1>2, <1>8, <1>x, <2>2
  <2>6. LeftAfter(t, chars, params, n)
    BY <1>6, <1>8, <1>x, <2>2
  <2>7. ASSUME NEW c \in Flags \cup {"k"}
        PROVE  /\ n \in At(c) => (c \in t.ch.modes <=> Adds(chars, n))
               /\ n \notin At(c) => (c \in t.ch.modes <=> c \in s.ch.modes)
    BY <1>1, <2>3, <2>4
  <2>8. n \notin At("k")
    BY <1>8, <1>x, <2>4
  <2> QED
    BY <1>5, <2>3, <2>5, <2>6, <2>7, <2>8
<1>9. CASE x = "k" /\ s.adding /\ s.left # <<>>
  <2>1. no < count /\ Len(s.left) = count - no
        /\ \A l \in 1..(count - no) : s.left[l] = params[no + l]
    BY <1>9 DEF After, LeftAfter
  <2>2. KeyNo(chars, n) = no + 1 /\ no + 1 <= count
    BY <1>1, <1>3, <1>9, <2>1
  <2>3. /\ Head(s.left) \in Param /\ Head(s.left) = params[no + 1]
        /\ Len(Tail(s.left)) = count - (no + 1)
        /\ \A l \in 1..(count - (no + 1)) : Tail(s.left)[l] = params[(no + 1) + l]
    <3>1. Head(s.left) \in Param /\ Head(s.left) = s.left[1] /\ 1 \in 1..(count - no)
      BY <1>1, <1>3, <1>9, <2>1
    <3>2. /\ Len(Tail(s.left)) = Len(s.left) - 1
          /\ \A l \in 1..Len(Tail(s.left)) : Tail(s.left)[l] = s.left[l + 1]
      BY <1>1, <1>9
    <3>3. Len(Tail(s.left)) = count - (no + 1)
      BY <1>3, <2>1, <3>2
    <3>4. \A l \in 1..(count - (no + 1)) : l + 1 \in 1..(count - no)
                                          /\ no + (l + 1) = (no + 1) + l
      BY <1>3
    <3>5. ASSUME NEW l \in 1..(count - (no + 1))
          PROVE  Tail(s.left)[l] = params[(no + 1) + l]
      BY <2>1, <3>2, <3>3, <3>4
    <3> QED
      BY <2>1, <3>1, <3>3, <3>5
  <2>4. t = [Change(s, x, Head(s.left)) EXCEPT !.left = Tail(@)] /\ x \in Letter
    BY <1>9, ReadCharCases DEF t, Letter
  <2>5. /\ Change(s, x, Head(s.left)) \in Reading
        /\ Change(s, x, Head(s.left)).ch = SetMode(s.ch, x, Head(s.left), s.adding)
        /\ Change(s, x, Head(s.left)).adding = s.adding
        /\ Change(s, x, Head(s.left)).left = s.left
    BY <2>3, <2>4, ChangeType
  <2>6. /\ t.ch = SetMode(s.ch, x, Head(s.left), s.adding)
        /\ t.adding = s.adding /\ t.left = Tail(s.left)
    BY <2>4, <2>5 DEF Reading
  <2>7. /\ \A c : c \in t.ch.modes <=> c = x \/ c \in s.ch.modes
        /\ t.ch.params["k"] = Head(s.left) /\ t.ch.params["o"] = s.ch.params["o"]
    BY <1>1, <1>9, <2>3, <2>6, ModesAssumption DEF SetMode, ChannelState, Letter
  <2>8. \A c \in Flags \cup {"k"} : n \in At(c) <=> c = x
    BY <1>4, <1>9, <1>x, <2>2
  <2>9. LeftAfter(t, chars, params, n)
    <3>1. CASE no + 1 < count
      BY <2>2, <2>3, <2>6, <3>1 DEF LeftAfter
    <3>2. CASE ~(no + 1 < count)
      <4>1. Len(t.left) = 0 /\ t.left \in Seq(Param)
        <5>1. Tail(s.left) \in Seq(Param)
          BY <1>1, <1>9
        <5>2. count - (no + 1) = 0
          BY <1>3, <2>2, <3>2
        <5> QED
          BY <2>3, <2>6, <5>1, <5>2
      <4>2. t.left = <<>>
        BY <4>1
      <4> QED
        BY <2>2, <3>2, <4>2 DEF LeftAfter
    <3> QED
      BY <3>1, <3>2
  <2>10. t.adding <=> Adds(chars, n + 1)
    BY <1>1, <1>2, <1>9, <1>x, <2>6
  <2>11. ASSUME NEW c \in Flags \cup {"k"}
         PROVE  /\ n \in At(c) => (c \in t.ch.modes <=> Adds(chars, n))
                /\ n \notin At(c) => (c \in t.ch.modes <=> c \in s.ch.modes)
    BY <1>1, <1>9, <2>7, <2>8
  <2>12. n \in At("k") /\ Adds(chars, n)
    BY <1>1, <1>9, <2>8
  <2>13. t.ch.params["k"] = params[KeyNo(chars, n)]
    BY <2>2, <2>3, <2>7
  <2> QED
    BY <1>5, <2>7, <2>9, <2>10, <2>11, <2>12, <2>13
<1>10. CASE x = "k" /\ s.adding /\ s.left = <<>>
  <2>1. t = s
    BY <1>10, ReadCharCases DEF t
  <2>2. ~(no < count)
    BY <1>3, <1>10 DEF After, LeftAfter
  <2>3. ~(KeyNo(chars, n) <= count) /\ ~(KeyNo(chars, n) < count)
    BY <1>1, <1>3, <1>10, <2>2
  <2>4. \A c \in Flags \cup {"k"} : n \notin At(c)
    BY <1>1, <1>4, <1>10, <1>x, <2>3
  <2>5. LeftAfter(t, chars, params, n)
    BY <1>10, <2>1, <2>3 DEF LeftAfter
  <2>6. t.adding <=> Adds(chars, n + 1)
    BY <1>1, <1>2, <1>10, <1>x, <2>1
  <2> QED
    BY <1>5, <2>1, <2>4, <2>5, <2>6
<1>11. CASE x = "k" /\ ~s.adding
  <2>1. t = Change(s, x, NoParam) /\ x \in Letter
    BY <1>11, ReadCharCases DEF t, Letter
  <2>2. t.ch = SetMode(s.ch, x, NoParam, s.adding) /\ t.adding = s.adding
        /\ t.left = s.left
    BY <2>1, ChangeType
  <2>3. /\ \A c : c \in t.ch.modes <=> c # x /\ c \in s.ch.modes
        /\ t.ch.params["k"] = NoParam /\ t.ch.params["o"] = s.ch.params["o"]
    BY <1>1, <1>11, <2>2 DEF SetMode, ChannelState, Letter
  <2>4. \A c \in Flags \cup {"k"} : n \in At(c) <=> c = x
    BY <1>1, <1>4, <1>11, <1>x
  <2>5. t.adding <=> Adds(chars, n + 1)
    BY <1>1, <1>2, <1>11, <1>x, <2>2
  <2>6. LeftAfter(t, chars, params, n)
    BY <1>1, <1>6, <1>11, <2>2
  <2>7. ASSUME NEW c \in Flags \cup {"k"}
        PROVE  /\ n \in At(c) => (c \in t.ch.modes <=> Adds(chars, n))
               /\ n \notin At(c) => (c \in t.ch.modes <=> c \in s.ch.modes)
    BY <1>1, <1>11, <2>3, <2>4
  <2>8. n \in At("k") /\ ~Adds(chars, n)
    BY <1>1, <1>11, <2>4
  <2> QED
    BY <1>5, <2>3, <2>5, <2>6, <2>7, <2>8
<1>12. CASE x \notin Flags \cup {"+", "-", "k"}
  <2>1. t = s
    BY <1>12, ReadCharCases DEF t
  <2>2. \A c \in Flags \cup {"k"} : n \notin At(c)
    BY <1>4, <1>12
  <2>3. t.adding <=> Adds(chars, n + 1)
    BY <1>1, <1>2, <1>12, <2>1
  <2>4. LeftAfter(t, chars, params, n)
    BY <1>6, <1>12, <2>1
  <2> QED
    BY <1>5, <2>1, <2>2, <2>3, <2>4
<1> QED
  BY <1>1, <1>7, <1>8, <1>9, <1>10, <1>11, <1>12

-----------------------------------------------------------------------------
(* Whole MODEs *)

LEMMA WordOf ==
  ASSUME NEW S, NEW n \in Nat, NEW w \in UpTo(S, n)
  PROVE  w \in Seq(S) /\ Len(w) \in Nat /\ DOMAIN w = 1..Len(w)
<1>1. PICK k \in 0..n : w \in [1..k -> S]
  BY DEF UpTo
<1>2. w \in Seq(S)
  BY <1>1, SeqDef
<1> QED
  BY <1>2

LEMMA AppliedAfter ==
  ASSUME NEW found \in ChannelState, NEW chars, Len(chars) \in Nat,
         DOMAIN chars = 1..Len(chars), NEW params \in Seq(Param)
  PROVE  /\ Apply(found, chars, params) \in Reading
         /\ After(Apply(found, chars, params), found, chars, params, Len(chars))
<1> DEFINE k == Len(chars)
           start == [ch |-> found, adding |-> TRUE, left |-> params, changes |-> <<>>]
           run == ReadChars(start, chars)
<1>1. start \in Reading
  BY DEF Reading
<1>2. /\ run[0] = start
      /\ \A i \in 1..k : run[i] = ReadChar(run[i - 1], chars[i])
      /\ \A i \in 0..k : run[i] \in Reading
  <2> HIDE DEF start
  <2> QED
    BY <1>1, CharsRead
<1>3. Apply(found, chars, params) = run[k]
  BY DEF Apply
<1> DEFINE S == {i \in 0..k : After(run[i], found, chars, params, i)}
<1>4. 0 \in S
  <2>1. \A c, count : \A j \in Occurs(chars, c, count) : j > 0 /\ ~(j <= 0)
    BY DEF Occurs
  <2>2. Adds(chars, 1) /\ KeyNo(chars, 0) = 0
    BY AddsFirst, KeyNoNext
  <2>3. LeftAfter(start, chars, params, 0)
    <3>1. Len(params) \in Nat /\ (Len(params) = 0 => params = <<>>)
      OBVIOUS
    <3> QED
      BY <2>2, <3>1 DEF LeftAfter
  <2>4. After(start, found, chars, params, 0)
    BY <2>1, <2>2, <2>3 DEF After, ModeAfter, KeyAfter, IsLast
  <2> QED
    BY <1>2, <2>4
<1>5. ASSUME NEW n \in 0..(k - 1), n \in S PROVE n + 1 \in S
  <2>1. n + 1 \in 1..k /\ n + 1 \in 0..k /\ (n + 1) - 1 = n /\ n \in 0..k /\ n \in Nat
    OBVIOUS
  <2>2. run[n + 1] = ReadChar(run[n], chars[n + 1]) /\ run[n] \in Reading
    BY <1>2, <2>1
  <2>3. After(run[n], found, chars, params, n)
    BY <1>5
  <2>4. DOMAIN chars \subseteq Nat /\ n + 1 \in DOMAIN chars
    BY <2>1
  <2> HIDE DEF run
  <2>5. After(ReadChar(run[n], chars[n + 1]), found, chars, params, n + 1)
    BY <2>1, <2>2, <2>3, <2>4, AfterNext
  <2> QED
    BY <2>1, <2>2, <2>5
<1>6. 0..k \subseteq S
  <2> HIDE DEF S
  <2> QED
    BY <1>4, <1>5, UpTheInterval
<1>7. k \in 0..k
  OBVIOUS
<1> QED
  BY <1>2, <1>3, <1>6, <1>7

(* The deciding occurrence is the last. *)
LEMMA DecidedByLast ==
  ASSUME NEW modes, NEW found, NEW chars, NEW count, NEW c, Len(chars) \in Nat,
         DOMAIN chars = 1..Len(chars),
         ModeAfter(modes, found, chars, count, c, Len(chars))
  PROVE  c \in modes <=> IF Deciding(chars, c, count) = 0 THEN c \in found
                         ELSE Adds(chars, Deciding(chars, c, count))
<1> DEFINE at == Occurs(chars, c, count)
<1>1. at \in SUBSET (1..Len(chars))
  BY DEF Occurs
<1>2. Deciding(chars, c, count) = IF at = {} THEN 0 ELSE Max(at)
  BY DEF Deciding
<1> HIDE DEF at
<1>3. CASE at = {}
  BY <1>2, <1>3 DEF ModeAfter, at
<1>4. CASE at # {}
  <2>1. Max(at) \in at /\ \A i \in at : Max(at) >= i
    BY <1>1, <1>4, LastPosition
  <2>2. /\ Max(at) \in 1..Len(chars)
        /\ \A l \in at : l \in 1..Len(chars) /\ Max(at) >= l
    BY <1>1, <2>1
  <2> DEFINE m == Max(at)
  <2> HIDE DEF m
  <2>3. m <= Len(chars) /\ m # 0 /\ \A l \in at : l <= m
    BY <2>2 DEF m
  <2>4. IsLast(at, Len(chars), m)
    BY <2>1, <2>3 DEF IsLast, m
  <2> QED
    BY <1>2, <1>4, <2>3, <2>4 DEF ModeAfter, at, m
<1> QED
  BY <1>3, <1>4

LEMMA KeyDecidedByLast ==
  ASSUME NEW key, NEW found, NEW chars, NEW params, Len(chars) \in Nat,
         DOMAIN chars = 1..Len(chars),
         KeyAfter(key, found, chars, params, Len(chars))
  PROVE  LET i == Deciding(chars, "k", Len(params))
         IN  key = IF i = 0 THEN found
                   ELSE IF Adds(chars, i) THEN params[KeyNo(chars, i)]
                   ELSE NoParam
<1> DEFINE at == Occurs(chars, "k", Len(params))
<1>1. at \in SUBSET (1..Len(chars))
  BY DEF Occurs
<1>2. Deciding(chars, "k", Len(params)) = IF at = {} THEN 0 ELSE Max(at)
  BY DEF Deciding
<1> HIDE DEF at
<1>3. CASE at = {}
  BY <1>2, <1>3 DEF KeyAfter, at
<1>4. CASE at # {}
  <2>1. Max(at) \in at /\ \A i \in at : Max(at) >= i
    BY <1>1, <1>4, LastPosition
  <2>2. /\ Max(at) \in 1..Len(chars)
        /\ \A l \in at : l \in 1..Len(chars) /\ Max(at) >= l
    BY <1>1, <2>1
  <2> DEFINE m == Max(at)
  <2> HIDE DEF m
  <2>3. m <= Len(chars) /\ m # 0 /\ \A l \in at : l <= m
    BY <2>2 DEF m
  <2>4. IsLast(at, Len(chars), m)
    BY <2>1, <2>3 DEF IsLast, m
  <2> QED
    BY <1>2, <1>4, <2>3, <2>4 DEF KeyAfter, at, m
<1> QED
  BY <1>3, <1>4

(* The same for the modes of a client, where no mode has a parameter. *)
UserReading == [modes : SUBSET UserFlags, adding : BOOLEAN]

LEMMA ReadUserCharCases ==
  ASSUME NEW s, NEW c
  PROVE  /\ c \in {"+", "-"} => ReadUserChar(s, c) = [s EXCEPT !.adding = (c = "+")]
         /\ c \in UserFlags =>
              ReadUserChar(s, c) = [s EXCEPT !.modes = IF s.adding THEN s.modes \cup {c}
                                                       ELSE s.modes \ {c}]
         /\ c \notin UserFlags \cup {"+", "-"} => ReadUserChar(s, c) = s
<1>1. c \in UserFlags => c \notin {"+", "-"}
  BY ModesAssumption
<1> QED
  BY <1>1 DEF ReadUserChar

LEMMA UserAfterNext ==
  ASSUME NEW s \in UserReading, NEW found, NEW chars, NEW i \in Nat,
         DOMAIN chars \subseteq Nat, i + 1 \in DOMAIN chars,
         s.adding <=> Adds(chars, i + 1),
         \A c \in UserFlags : ModeAfter(s.modes, found, chars, 0, c, i)
  PROVE  LET t == ReadUserChar(s, chars[i + 1])
         IN  /\ t \in UserReading
             /\ t.adding <=> Adds(chars, (i + 1) + 1)
             /\ \A c \in UserFlags : ModeAfter(t.modes, found, chars, 0, c, i + 1)
<1> DEFINE n == i + 1
           x == chars[n]
           t == ReadUserChar(s, x)
<1> SUFFICES /\ t \in UserReading
             /\ t.adding <=> Adds(chars, n + 1)
             /\ \A c \in UserFlags : ModeAfter(t.modes, found, chars, 0, c, n)
  OBVIOUS
<1>1. Adds(chars, n + 1) <=> IF x \in {"+", "-"} THEN x = "+" ELSE Adds(chars, n)
  BY AddsNext
<1>2. \A c \in UserFlags : n \in Occurs(chars, c, 0) <=> x = c
  BY ModesAssumption DEF Occurs
<1>3. s.adding \in BOOLEAN /\ (s.adding <=> Adds(chars, n)) /\ s.modes \subseteq UserFlags
  BY DEF UserReading
<1>4. ASSUME NEW modes, \A c \in UserFlags :
               /\ x = c => (c \in modes <=> Adds(chars, n))
               /\ x # c => (c \in modes <=> c \in s.modes)
      PROVE  \A c \in UserFlags : ModeAfter(modes, found, chars, 0, c, n)
  <2> SUFFICES ASSUME NEW c \in UserFlags
               PROVE  ModeAfter(modes, found, chars, 0, c, n)
    OBVIOUS
  <2> QED
    BY <1>2, <1>4, ModeAfterNext
<1> HIDE DEF x, t, n
<1>5. CASE x \in {"+", "-"}
  <2>1. t = [s EXCEPT !.adding = (x = "+")] /\ (x = "+") \in BOOLEAN
    BY <1>5, ReadUserCharCases DEF t
  <2>2. t \in UserReading /\ t.adding = (x = "+") /\ t.modes = s.modes
    BY <2>1 DEF UserReading
  <2>3. x \notin UserFlags
    BY <1>5, ModesAssumption
  <2>4. \A c \in UserFlags : ModeAfter(t.modes, found, chars, 0, c, n)
    BY <1>4, <2>2, <2>3
  <2>5. t.adding <=> Adds(chars, n + 1)
    BY <1>1, <1>5, <2>2
  <2> QED
    BY <2>2, <2>4, <2>5
<1>6. CASE x \in UserFlags
  <2>1. t = [s EXCEPT !.modes = IF s.adding THEN s.modes \cup {x} ELSE s.modes \ {x}]
    BY <1>6, ReadUserCharCases DEF t
  <2>2. /\ t \in UserReading /\ t.adding = s.adding
        /\ t.modes = IF s.adding THEN s.modes \cup {x} ELSE s.modes \ {x}
    BY <1>3, <1>6, <2>1 DEF UserReading
  <2>3. \A c \in UserFlags : /\ x = c => (c \in t.modes <=> Adds(chars, n))
                             /\ x # c => (c \in t.modes <=> c \in s.modes)
    BY <1>3, <2>2
  <2>4. \A c \in UserFlags : ModeAfter(t.modes, found, chars, 0, c, n)
    BY <1>4, <2>3
  <2>5. x \notin {"+", "-"}
    BY <1>6, ModesAssumption
  <2>6. t.adding <=> Adds(chars, n + 1)
    BY <1>1, <1>3, <2>2, <2>5
  <2> QED
    BY <2>2, <2>4, <2>6
<1>7. CASE x \notin UserFlags \cup {"+", "-"}
  <2>1. t = s
    BY <1>7, ReadUserCharCases DEF t
  <2>2. \A c \in UserFlags : ModeAfter(t.modes, found, chars, 0, c, n)
    BY <1>4, <1>7, <2>1
  <2> QED
    BY <1>1, <1>3, <1>7, <2>1, <2>2
<1> QED
  BY <1>5, <1>6, <1>7

LEMMA ReadUserCharType ==
  ASSUME NEW s \in UserReading, NEW c
  PROVE  ReadUserChar(s, c) \in UserReading
<1>1. CASE c \in {"+", "-"}
  <2>1. ReadUserChar(s, c) = [s EXCEPT !.adding = (c = "+")] /\ (c = "+") \in BOOLEAN
    BY <1>1, ReadUserCharCases
  <2> QED
    BY <2>1 DEF UserReading
<1>2. CASE c \in UserFlags
  <2>1. ReadUserChar(s, c) = [s EXCEPT !.modes = IF s.adding THEN s.modes \cup {c}
                                                 ELSE s.modes \ {c}]
    BY <1>2, ReadUserCharCases
  <2> QED
    BY <1>2, <2>1 DEF UserReading
<1>3. CASE c \notin UserFlags \cup {"+", "-"}
  BY <1>3, ReadUserCharCases
<1> QED
  BY <1>1, <1>2, <1>3

LEMMA UserCharsRead ==
  ASSUME NEW s \in UserReading, NEW chars, Len(chars) \in Nat
  PROVE  LET run == ReadUserChars(s, chars)
         IN  /\ run[0] = s
             /\ \A i \in 1..Len(chars) : run[i] = ReadUserChar(run[i - 1], chars[i])
<1> DEFINE k == Len(chars)
           step == [i \in 1..k |-> [r \in UserReading |-> ReadUserChar(r, chars[i])]]
           run == ReadUserChars(s, chars)
<1>1. step \in StepsWithin(UserReading, k)
  BY ReadUserCharType DEF StepsWithin
<1>2. \A r \in UserReading, i \in 1..k : step[i][r] = ReadUserChar(r, chars[i])
  OBVIOUS
<1> HIDE DEF step
<1>3. PICK f : Follows(f, UserReading, s, k, step)
  BY <1>1, StepByStep
<1>4. f = [i \in 0..k |-> IF i = 0 THEN s ELSE ReadUserChar(f[i - 1], chars[i])]
  <2>1. \A i \in 0..k : i # 0 => i - 1 \in 0..k /\ i \in 1..k
    OBVIOUS
  <2>2. \A i \in 0..k : i # 0 => f[i] = ReadUserChar(f[i - 1], chars[i])
    BY <1>2, <1>3, <2>1 DEF Follows
  <2> QED
    BY <1>3, <2>2 DEF Follows
<1>5. run = [i \in 0..k |-> IF i = 0 THEN s ELSE ReadUserChar(run[i - 1], chars[i])]
  BY <1>4 DEF ReadUserChars
<1> HIDE DEF run
<1>6. \A i \in 0..k : run[i] = IF i = 0 THEN s ELSE ReadUserChar(run[i - 1], chars[i])
  BY <1>5
<1>7. 0 \in 0..k /\ \A i \in 1..k : i \in 0..k /\ i # 0
  OBVIOUS
<1>8. run[0] = s /\ \A i \in 1..k : run[i] = ReadUserChar(run[i - 1], chars[i])
  BY <1>6, <1>7
<1> QED
  BY <1>8 DEF run

LEMMA UserAppliedAfter ==
  ASSUME NEW found \in SUBSET UserFlags, NEW chars, Len(chars) \in Nat,
         DOMAIN chars = 1..Len(chars)
  PROVE  LET s == ReadUserChars([modes |-> found, adding |-> TRUE], chars)[Len(chars)]
         IN  /\ s \in UserReading
             /\ \A c \in UserFlags :
                  ModeAfter(s.modes, found, chars, 0, c, Len(chars))
<1> DEFINE k == Len(chars)
           start == [modes |-> found, adding |-> TRUE]
           run == ReadUserChars(start, chars)
<1>0. start \in UserReading
  BY DEF UserReading
<1>5. run[0] = start /\ \A i \in 1..k : run[i] = ReadUserChar(run[i - 1], chars[i])
  <2> HIDE DEF start
  <2> QED
    BY <1>0, UserCharsRead
<1> HIDE DEF start, run
<1> DEFINE S == {i \in 0..k : /\ run[i] \in UserReading
                              /\ run[i].adding <=> Adds(chars, i + 1)
                              /\ \A c \in UserFlags :
                                   ModeAfter(run[i].modes, found, chars, 0, c, i)}
<1>6. 0 \in S
  <2>1. \A c, count : \A j \in Occurs(chars, c, count) : j > 0 /\ ~(j <= 0)
    BY DEF Occurs
  <2>2. run[0] = start /\ start.adding = TRUE /\ start.modes = found
    BY <1>5 DEF start
  <2>3. \A c \in UserFlags : ModeAfter(run[0].modes, found, chars, 0, c, 0)
    BY <2>1, <2>2 DEF ModeAfter, IsLast
  <2>4. Adds(chars, 0 + 1)
    BY AddsFirst
  <2> QED
    BY <1>0, <2>2, <2>3, <2>4
<1>7. ASSUME NEW n \in 0..(k - 1), n \in S PROVE n + 1 \in S
  <2>1. n + 1 \in 0..k /\ n + 1 \in 1..k /\ (n + 1) - 1 = n /\ n \in Nat
    OBVIOUS
  <2>2. run[n + 1] = ReadUserChar(run[n], chars[n + 1])
    BY <1>5, <2>1
  <2>3. /\ run[n] \in UserReading
        /\ run[n].adding <=> Adds(chars, n + 1)
        /\ \A c \in UserFlags : ModeAfter(run[n].modes, found, chars, 0, c, n)
    BY <1>7
  <2>4. DOMAIN chars \subseteq Nat /\ n + 1 \in DOMAIN chars
    OBVIOUS
  <2> DEFINE t == ReadUserChar(run[n], chars[n + 1])
  <2>5. /\ t \in UserReading
        /\ t.adding <=> Adds(chars, (n + 1) + 1)
        /\ \A c \in UserFlags : ModeAfter(t.modes, found, chars, 0, c, n + 1)
    BY <2>1, <2>3, <2>4, UserAfterNext
  <2> HIDE DEF t
  <2>6. run[n + 1] = t
    BY <2>2 DEF t
  <2> QED
    BY <2>1, <2>5, <2>6
<1>8. 0..k \subseteq S
  <2> HIDE DEF S
  <2> QED
    BY <1>6, <1>7, UpTheInterval
<1>9. k \in 0..k
  OBVIOUS
<1> QED
  BY <1>8, <1>9 DEF run, start

-----------------------------------------------------------------------------
(* Reading the line that is composed of the changes *)

ReadAll(s, chars) == ReadChars(s, chars)[Len(chars)]

LEMMA ReadAppended ==
  ASSUME NEW S, NEW s \in Reading, NEW chars \in Seq(S), NEW c \in S
  PROVE  /\ ReadAll(s, chars) \in Reading
         /\ ReadAll(s, Append(chars, c)) = ReadChar(ReadAll(s, chars), c)
<1> DEFINE k == Len(chars)
           more == Append(chars, c)
           run == ReadChars(s, chars)
           rerun == ReadChars(s, more)
<1>1. /\ k \in Nat /\ Len(more) = k + 1 /\ more[k + 1] = c
      /\ \A i \in 1..k : more[i] = chars[i]
  OBVIOUS
<1> HIDE DEF more
<1>2. /\ run[0] = s
      /\ \A i \in 1..k : run[i] = ReadChar(run[i - 1], chars[i])
      /\ \A i \in 0..k : run[i] \in Reading
  BY <1>1, CharsRead
<1>3. /\ rerun[0] = s
      /\ \A i \in 1..(k + 1) : rerun[i] = ReadChar(rerun[i - 1], more[i])
  <2>1. Len(more) \in Nat
    BY <1>1
  <2> QED
    BY <1>1, <2>1, CharsRead
<1> HIDE DEF run, rerun
<1> DEFINE S0 == {i \in 0..k : rerun[i] = run[i]}
<1>4. 0 \in S0
  BY <1>1, <1>2, <1>3
<1>5. ASSUME NEW n \in 0..(k - 1), n \in S0 PROVE n + 1 \in S0
  <2>1. n + 1 \in 1..k /\ n + 1 \in 0..k /\ n + 1 \in 1..(k + 1) /\ (n + 1) - 1 = n
    BY <1>1
  <2> QED
    BY <1>1, <1>2, <1>3, <1>5, <2>1
<1>6. 0..k \subseteq S0
  <2> HIDE DEF S0
  <2> QED
    BY <1>1, <1>4, <1>5, UpTheInterval
<1>7. rerun[k] = run[k] /\ run[k] \in Reading
  <2>1. k \in 0..k
    BY <1>1
  <2> QED
    BY <1>2, <1>6, <2>1
<1>8. rerun[k + 1] = ReadChar(run[k], c)
  <2>1. k + 1 \in 1..(k + 1) /\ (k + 1) - 1 = k
    BY <1>1
  <2> QED
    BY <1>1, <1>3, <1>7, <2>1
<1> QED
  BY <1>1, <1>7, <1>8 DEF ReadAll, run, rerun, more

LEMMA ReadNothing ==
  ASSUME NEW s \in Reading
  PROVE  ReadAll(s, <<>>) = s
<1>1. Len(<<>>) \in Nat /\ Len(<<>>) = 0
  OBVIOUS
<1>2. ReadChars(s, <<>>)[0] = s
  BY <1>1, CharsRead
<1> QED
  BY <1>1, <1>2 DEF ReadAll

Signed == Letter \cup {"+", "-"}
Line == [chars : Seq(Signed), params : Seq(Param)]

LEMMA AddChangeType ==
  ASSUME NEW line \in Line, NEW d \in ChangeMade, NEW before
  PROVE  AddChange(line, d, before) \in Line
<1>1. d.mode \in Signed /\ Sign(d) \in Signed
  BY DEF ChangeMade, Signed, Sign
<1>2. line.chars \o (IF Sign(d) = before THEN <<>> ELSE <<Sign(d)>>) \in Seq(Signed)
  <2>1. line.chars \in Seq(Signed) /\ <<>> \in Seq(Signed) /\ <<Sign(d)>> \in Seq(Signed)
    BY <1>1 DEF Line
  <2> QED
    BY <2>1
<1>3. line.chars \o (IF Sign(d) = before THEN <<>> ELSE <<Sign(d)>>) \o <<d.mode>>
        \in Seq(Signed)
  BY <1>1, <1>2
<1>4. (IF d.param = NoParam THEN line.params ELSE Append(line.params, d.param))
        \in Seq(Param)
  BY DEF Line, ChangeMade
<1> QED
  BY <1>3, <1>4 DEF AddChange, Line

SignBefore(changes, i) == IF i = 1 THEN "none" ELSE Sign(changes[i - 1])

(* A line is composed change by change. *)
LEMMA ChangesComposed ==
  ASSUME NEW changes \in Seq(ChangeMade)
  PROVE  LET line == Lines(changes)
         IN  /\ line[0] = [chars |-> <<>>, params |-> <<>>]
             /\ \A i \in 1..Len(changes) :
                  line[i] = AddChange(line[i - 1], changes[i], SignBefore(changes, i))
             /\ \A i \in 0..Len(changes) : line[i] \in Line
<1> DEFINE k == Len(changes)
           line == Lines(changes)
           step == [i \in 1..k |->
                      [l \in Line |-> AddChange(l, changes[i], SignBefore(changes, i))]]
           empty == [chars |-> <<>>, params |-> <<>>]
<1>0. empty \in Line
  BY DEF Line
<1> HIDE DEF empty
<1>1. step \in StepsWithin(Line, k)
  BY AddChangeType DEF StepsWithin
<1>2. \A l \in Line, i \in 1..k : step[i][l] = AddChange(l, changes[i], SignBefore(changes, i))
  OBVIOUS
<1> HIDE DEF step
<1>3. ASSUME NEW s \in Line
      PROVE  \E f : Follows(f, Line, s, k, step)
  <2>1. k \in Nat
    OBVIOUS
  <2> HIDE DEF k
  <2> QED
    BY <1>1, <2>1, StepByStep
<1>4. PICK f : Follows(f, Line, empty, k, step)
  BY <1>0, <1>3
<1>5. f = [i \in 0..k |-> IF i = 0 THEN empty
                          ELSE AddChange(f[i - 1], changes[i], SignBefore(changes, i))]
  <2>1. \A i \in 0..k : i # 0 => i - 1 \in 0..k /\ i \in 1..k
    OBVIOUS
  <2>2. \A i \in 0..k : i # 0 =>
          f[i] = AddChange(f[i - 1], changes[i], SignBefore(changes, i))
    BY <1>2, <1>4, <2>1 DEF Follows
  <2> QED
    BY <1>4, <2>2 DEF Follows
<1>6. line = [i \in 0..k |-> IF i = 0 THEN empty
                             ELSE AddChange(line[i - 1], changes[i], SignBefore(changes, i))]
  BY <1>5 DEF Lines, SignBefore, empty
<1> HIDE DEF line
<1>7. /\ line[0] = empty
      /\ \A i \in 1..k : line[i] = AddChange(line[i - 1], changes[i], SignBefore(changes, i))
  <2>1. \A i \in 0..k : line[i] = IF i = 0 THEN empty
                             ELSE AddChange(line[i - 1], changes[i], SignBefore(changes, i))
    BY <1>6
  <2>2. 0 \in 0..k /\ \A i \in 1..k : i \in 0..k /\ i # 0
    OBVIOUS
  <2> QED
    BY <2>1, <2>2
<1> DEFINE S == {i \in 0..k : line[i] \in Line}
<1>8. 0 \in S
  BY <1>0, <1>7
<1>9. ASSUME NEW n \in 0..(k - 1), n \in S PROVE n + 1 \in S
  <2>1. n + 1 \in 1..k /\ n + 1 \in 0..k /\ (n + 1) - 1 = n
    OBVIOUS
  <2>2. changes[n + 1] \in ChangeMade
    BY <2>1
  <2> QED
    BY <1>7, <1>9, <2>1, <2>2, AddChangeType
<1>10. 0..k \subseteq S
  <2>1. k \in Nat /\ \A n \in 0..(k - 1) : n \in S => n + 1 \in S
    <3> HIDE DEF S
    <3> QED
      BY <1>9
  <2> HIDE DEF S, k
  <2> QED
    BY <1>8, <2>1, UpTheInterval
<1> QED
  BY <1>7, <1>10 DEF line, empty

LEMMA ComposeAppended ==
  ASSUME NEW changes \in Seq(ChangeMade), NEW d \in ChangeMade
  PROVE  /\ Compose(changes) \in Line
         /\ Compose(Append(changes, d)) =
              AddChange(Compose(changes), d, SignBefore(Append(changes, d), Len(changes) + 1))
<1> DEFINE k == Len(changes)
           more == Append(changes, d)
           line == Lines(changes)
           longer == Lines(more)
<1>1. /\ k \in Nat /\ Len(more) = k + 1 /\ more[k + 1] = d /\ more \in Seq(ChangeMade)
      /\ \A i \in 1..k : more[i] = changes[i]
  OBVIOUS
<1> HIDE DEF more
<1>2. /\ line[0] = [chars |-> <<>>, params |-> <<>>]
      /\ \A i \in 1..k : line[i] = AddChange(line[i - 1], changes[i], SignBefore(changes, i))
      /\ \A i \in 0..k : line[i] \in Line
  BY ChangesComposed
<1>3. /\ longer[0] = [chars |-> <<>>, params |-> <<>>]
      /\ \A i \in 1..(k + 1) :
           longer[i] = AddChange(longer[i - 1], more[i], SignBefore(more, i))
  BY <1>1, ChangesComposed
<1> HIDE DEF line, longer
<1> DEFINE S == {i \in 0..k : longer[i] = line[i]}
<1>4. 0 \in S
  BY <1>1, <1>2, <1>3
<1>5. ASSUME NEW n \in 0..(k - 1), n \in S PROVE n + 1 \in S
  <2>1. n + 1 \in 1..k /\ n + 1 \in 0..k /\ n + 1 \in 1..(k + 1) /\ (n + 1) - 1 = n
    BY <1>1
  <2>2. SignBefore(more, n + 1) = SignBefore(changes, n + 1)
    BY <1>1, <2>1 DEF SignBefore
  <2> QED
    BY <1>1, <1>2, <1>3, <1>5, <2>1, <2>2
<1>6. 0..k \subseteq S
  <2> HIDE DEF S
  <2> QED
    BY <1>1, <1>4, <1>5, UpTheInterval
<1>7. longer[k] = line[k] /\ line[k] \in Line
  <2>1. k \in 0..k
    BY <1>1
  <2> QED
    BY <1>2, <1>6, <2>1
<1>8. longer[k + 1] = AddChange(line[k], d, SignBefore(more, k + 1))
  <2>1. k + 1 \in 1..(k + 1) /\ (k + 1) - 1 = k
    BY <1>1
  <2> QED
    BY <1>1, <1>3, <1>7, <2>1
<1> QED
  BY <1>1, <1>7, <1>8 DEF Compose, line, longer, more

(* From the same modes, reading the line composed of the changes so far    *)
(* comes to what the channel has come to, with the same changes and no     *)
(* parameter used too many.                                                *)
Begin(found, params) ==
  [ch |-> found, adding |-> TRUE, left |-> params, changes |-> <<>>]

LastAdds(changes) ==
  IF changes = <<>> THEN TRUE ELSE changes[Len(changes)].adding

(* What a reading has come to, field by field. *)
Has(r, ch, adding, left, changes) ==
  r.ch = ch /\ r.adding = adding /\ r.left = left /\ r.changes = changes

Recomposed(s, found) ==
  LET line == Compose(s.changes)
  IN  \A rest \in Seq(Param) :
        Has(ReadAll(Begin(found, line.params \o rest), line.chars),
            s.ch, LastAdds(s.changes), rest, s.changes)

(* A parameter in front of the others. *)
LEMMA ParamInFront ==
  ASSUME NEW a \in Seq(Param), NEW p \in Param, NEW rest \in Seq(Param)
  PROVE  /\ Append(a, p) \o rest = a \o (<<p>> \o rest)
         /\ <<p>> \o rest \in Seq(Param) /\ <<p>> \o rest # <<>>
         /\ Head(<<p>> \o rest) = p /\ Tail(<<p>> \o rest) = rest
<1>1. <<p>> \in Seq(Param) /\ Len(<<p>>) = 1 /\ <<p>>[1] = p
  OBVIOUS
<1>2. Append(a, p) \o rest = a \o (<<p>> \o rest)
  BY <1>1, AppendIsConcat, ConcatAssociative
<1> DEFINE front == <<p>> \o rest
<1>3. /\ front \in Seq(Param) /\ Len(front) = 1 + Len(rest) /\ Len(rest) \in Nat
      /\ \A i \in 1..(1 + Len(rest)) :
           front[i] = IF i <= 1 THEN p ELSE rest[i - 1]
  BY <1>1, ConcatProperties
<1> HIDE DEF front
<1>4. front # <<>> /\ Head(front) = p
  BY <1>3
<1>5. /\ Tail(front) \in Seq(Param) /\ Len(Tail(front)) = Len(rest)
      /\ \A i \in 1..Len(rest) : Tail(front)[i] = front[i + 1]
  <2>1. /\ Tail(front) \in Seq(Param) /\ Len(Tail(front)) = Len(front) - 1
        /\ \A i \in 1..Len(Tail(front)) : Tail(front)[i] = front[i + 1]
    BY <1>3, <1>4, HeadTailProperties
  <2> QED
    BY <1>3, <2>1
<1>6. \A i \in 1..Len(rest) : Tail(front)[i] = rest[i]
  BY <1>3, <1>5
<1>7. Tail(front) = rest
  BY <1>5, <1>6, SeqEqual
<1> QED
  BY <1>2, <1>3, <1>4, <1>7 DEF front

(* A change that is in the line is made by reading it. *)
LEMMA MadeAgain ==
  ASSUME NEW q \in Reading, NEW rest \in Seq(Param),
         NEW c \in Flags \cup {"k"}, NEW p \in Param \cup {NoParam},
         p # NoParam <=> c = "k" /\ q.adding,
         q.left = IF p = NoParam THEN rest ELSE <<p>> \o rest
  PROVE  LET r == ReadChar(q, c)
         IN  /\ r.ch = SetMode(q.ch, c, p, q.adding) /\ r.adding = q.adding
             /\ r.left = rest
             /\ r.changes = Append(q.changes, [mode |-> c, param |-> p,
                                               adding |-> q.adding])
<1> DEFINE r == ReadChar(q, c)
           m == Change(q, c, p)
           note == [mode |-> c, param |-> p, adding |-> q.adding]
<1>1. /\ m \in Reading /\ m.ch = SetMode(q.ch, c, p, q.adding)
      /\ m.adding = q.adding /\ m.left = q.left
  BY ChangeType DEF Letter
<1>2. m.changes = Append(q.changes, note)
  BY DEF Change, Reading
<1>3. CASE p = NoParam
  <2>1. r = m
    BY <1>3, ReadCharCases, ModesAssumption DEF Reading
  <2> HIDE DEF r, m, note
  <2>2. /\ r.ch = SetMode(q.ch, c, p, q.adding) /\ r.adding = q.adding
        /\ r.left = rest /\ r.changes = Append(q.changes, note)
    BY <1>1, <1>2, <1>3, <2>1
  <2> QED
    BY <2>2 DEF r, note
<1>4. CASE p # NoParam
  <2>1. p \in Param /\ q.left = <<p>> \o rest
    BY <1>4
  <2>2. q.left # <<>> /\ Head(q.left) = p /\ Tail(q.left) = rest
    BY <2>1, ParamInFront
  <2>3. r = [m EXCEPT !.left = Tail(@)]
    <3>1. c = "k" /\ q.adding
      BY <1>4
    <3>2. r = [Change(q, c, Head(q.left)) EXCEPT !.left = Tail(@)]
      BY <2>2, <3>1, ReadCharCases
    <3> QED
      BY <2>2, <3>2
  <2> HIDE DEF r, m, note
  <2>4. /\ r.ch = m.ch /\ r.adding = m.adding /\ r.left = Tail(m.left)
        /\ r.changes = m.changes
    BY <1>1, <2>3 DEF Reading
  <2>5. /\ r.ch = SetMode(q.ch, c, p, q.adding) /\ r.adding = q.adding
        /\ r.left = rest /\ r.changes = Append(q.changes, note)
    BY <1>1, <1>2, <2>2, <2>4
  <2> QED
    BY <2>5 DEF r, note
<1> QED
  BY <1>3, <1>4

(* A sign that is in the line holds when it is read. *)
LEMMA SignTaken ==
  ASSUME NEW b \in Reading, NEW chars \in Seq(Signed), NEW sign \in {"+", "-"}
  PROVE  LET r == ReadAll(b, chars)
             q == ReadAll(b, Append(chars, sign))
         IN  /\ r \in Reading /\ q \in Reading
             /\ q.ch = r.ch /\ q.adding = (sign = "+") /\ q.left = r.left
             /\ q.changes = r.changes
<1> DEFINE r == ReadAll(b, chars)
           q == ReadAll(b, Append(chars, sign))
<1>1. sign \in Signed
  BY DEF Signed
<1>2. r \in Reading /\ q = ReadChar(r, sign)
  BY <1>1, ReadAppended
<1>3. q = [r EXCEPT !.adding = (sign = "+")] /\ q \in Reading
  BY <1>2, ReadCharCases, ReadCharType
<1> HIDE DEF r, q
<1>4. /\ q.ch = r.ch /\ q.adding = (sign = "+") /\ q.left = r.left
      /\ q.changes = r.changes
  BY <1>2, <1>3 DEF Reading
<1> QED
  BY <1>2, <1>3, <1>4 DEF r, q

(* The sign written before a change is the one that holds there, or none.  *)
LEMMA SignHeld ==
  ASSUME NEW D \in Seq(ChangeMade), NEW d \in ChangeMade
  PROVE  /\ Sign(d) \in {"+", "-"} /\ (d.adding = (Sign(d) = "+"))
         /\ Sign(d) = SignBefore(Append(D, d), Len(D) + 1) => LastAdds(D) = d.adding
         /\ LastAdds(Append(D, d)) = d.adding
<1>1. d.adding \in BOOLEAN
  BY DEF ChangeMade
<1>2. Sign(d) \in {"+", "-"} /\ (d.adding = (Sign(d) = "+"))
  BY <1>1 DEF Sign
<1>3. /\ Len(D) \in Nat /\ Append(D, d) # <<>> /\ Len(Append(D, d)) = Len(D) + 1
      /\ Append(D, d)[Len(D) + 1] = d
      /\ \A i \in 1..Len(D) : Append(D, d)[i] = D[i]
  BY AppendProperties, LenProperties
<1>4. CASE D = <<>>
  <2>1. Len(D) + 1 = 1
    BY <1>4
  <2>2. SignBefore(Append(D, d), Len(D) + 1) = "none"
    BY <2>1 DEF SignBefore
  <2> QED
    BY <1>2, <1>3, <2>2 DEF LastAdds
<1>5. CASE D # <<>>
  <2>1. Len(D) \in 1..Len(D) /\ Len(D) + 1 # 1 /\ (Len(D) + 1) - 1 = Len(D)
    BY <1>3, <1>5
  <2>2. SignBefore(Append(D, d), Len(D) + 1) = Sign(D[Len(D)])
    BY <1>3, <2>1 DEF SignBefore
  <2>3. D[Len(D)] \in ChangeMade
    BY <2>1
  <2>4. D[Len(D)].adding \in BOOLEAN
    BY <2>3 DEF ChangeMade
  <2>5. LastAdds(D) = D[Len(D)].adding /\ LastAdds(Append(D, d)) = d.adding
    BY <1>3, <1>5 DEF LastAdds
  <2>6. Sign(d) = Sign(D[Len(D)]) => d.adding = D[Len(D)].adding
    BY <1>1, <2>4 DEF Sign
  <2> QED
    BY <1>2, <2>2, <2>5, <2>6
<1> QED
  BY <1>4, <1>5

LEMMA RecomposedChange ==
  ASSUME NEW s \in Reading, NEW found \in ChannelState, Recomposed(s, found),
         NEW c \in Flags \cup {"k"}, NEW p \in Param \cup {NoParam},
         p # NoParam <=> c = "k" /\ s.adding,
         NEW t \in Reading, t.ch = SetMode(s.ch, c, p, s.adding),
         t.changes = Append(s.changes, [mode |-> c, param |-> p, adding |-> s.adding])
  PROVE  Recomposed(t, found)
<1> DEFINE d == [mode |-> c, param |-> p, adding |-> s.adding]
           D == s.changes
           line == Compose(D)
           longer == Compose(Append(D, d))
           before == SignBefore(Append(D, d), Len(D) + 1)
<1>1. /\ D \in Seq(ChangeMade) /\ d \in ChangeMade /\ s.adding \in BOOLEAN
      /\ d.adding = s.adding /\ d.mode = c /\ d.param = p
  BY DEF Reading, ChangeMade, Letter
<1>2. line \in Line /\ longer = AddChange(line, d, before)
  BY <1>1, ComposeAppended
<1> HIDE DEF d
<1>3. /\ Sign(d) \in {"+", "-"} /\ (s.adding = (Sign(d) = "+"))
      /\ Sign(d) = before => (LastAdds(D) = (Sign(d) = "+"))
      /\ LastAdds(Append(D, d)) = s.adding
  BY <1>1, SignHeld
<1>4. c \in Signed
  BY DEF Signed, Letter
<1>5. line.chars \in Seq(Signed) /\ line.params \in Seq(Param)
  BY <1>2 DEF Line
<1>7. \A r \in Seq(Param) :
        Has(ReadAll(Begin(found, line.params \o r), line.chars),
            s.ch, LastAdds(D), r, D)
  BY DEF Recomposed
<1> HIDE DEF D, line, longer, before
<1> DEFINE signs == line.chars \o (IF Sign(d) = before THEN <<>> ELSE <<Sign(d)>>)
<1>6. /\ longer.chars = signs \o <<c>>
      /\ longer.params = IF p = NoParam THEN line.params ELSE Append(line.params, p)
  <2>1. longer = [chars |-> signs \o <<c>>,
                  params |-> IF p = NoParam THEN line.params
                             ELSE Append(line.params, p)]
    BY <1>1, <1>2 DEF AddChange
  <2> QED
    BY <2>1
<1>8. ASSUME NEW rest \in Seq(Param)
      PROVE  Has(ReadAll(Begin(found, longer.params \o rest), longer.chars),
                 t.ch, s.adding, rest, Append(D, d))
  <2> DEFINE more == IF p = NoParam THEN rest ELSE <<p>> \o rest
             b == Begin(found, line.params \o more)
             q == ReadAll(b, signs)
             z == ReadAll(b, longer.chars)
  <2>1. more \in Seq(Param) /\ longer.params \o rest = line.params \o more
    <3>1. CASE p = NoParam
      BY <1>6, <3>1
    <3>2. CASE p # NoParam
      <4>1. p \in Param /\ longer.params = Append(line.params, p) /\ more = <<p>> \o rest
        BY <1>6, <3>2
      <4>2. /\ Append(line.params, p) \o rest = line.params \o (<<p>> \o rest)
            /\ <<p>> \o rest \in Seq(Param)
        BY <1>5, <4>1, ParamInFront
      <4> HIDE DEF more
      <4> QED
        BY <4>1, <4>2
    <3> QED
      BY <3>1, <3>2
  <2> HIDE DEF more
  <2>2. b \in Reading
    <3>1. /\ line.params \o more \in Seq(Param) /\ TRUE \in BOOLEAN
          /\ <<>> \in Seq(ChangeMade)
      BY <1>5, <2>1, ConcatProperties
    <3> QED
      BY <3>1 DEF Begin, Reading
  <2>3. Has(ReadAll(b, line.chars), s.ch, LastAdds(D), more, D)
    BY <1>7, <2>1
  <2> HIDE DEF b
  <2>4. signs \in Seq(Signed) /\ q \in Reading /\ Has(q, s.ch, s.adding, more, D)
    <3> DEFINE r == ReadAll(b, line.chars)
               sign == Sign(d)
    <3>1. /\ sign \in {"+", "-"} /\ (s.adding = (sign = "+"))
          /\ r.ch = s.ch /\ r.left = more /\ r.changes = D
          /\ sign = before => r.adding = s.adding
      BY <1>3, <2>3 DEF Has
    <3>2. signs = line.chars \o (IF sign = before THEN <<>> ELSE <<sign>>)
      OBVIOUS
    <3>3. sign \in Signed
      BY <3>1 DEF Signed
    <3> HIDE DEF signs, sign
    <3>4. CASE sign = before
      <4>1. signs = line.chars
        BY <1>5, <3>2, <3>4, ConcatEmptySeq
      <4>2. r \in Reading
        BY <1>5, <2>2, <3>3, ReadAppended
      <4> QED
        BY <1>5, <3>1, <3>4, <4>1, <4>2 DEF Has
    <3>5. CASE sign # before
      <4>1. signs = Append(line.chars, sign) /\ signs \in Seq(Signed)
        BY <1>5, <3>2, <3>3, <3>5, AppendIsConcat, AppendProperties
      <4>2. /\ q \in Reading /\ q.ch = r.ch /\ q.adding = (sign = "+")
            /\ q.left = r.left /\ q.changes = r.changes
        BY <1>5, <2>2, <3>1, <4>1, SignTaken
      <4> QED
        BY <3>1, <4>1, <4>2 DEF Has
    <3> QED
      BY <3>4, <3>5
  <2> HIDE DEF signs
  <2>5. z = ReadChar(q, c)
    <3>1. longer.chars = Append(signs, c)
      BY <1>4, <1>6, <2>4, AppendIsConcat
    <3> QED
      BY <1>4, <2>2, <2>4, <3>1, ReadAppended
  <2>6. Has(ReadChar(q, c), SetMode(s.ch, c, p, s.adding), s.adding, rest, Append(D, d))
    <3>1. d = [mode |-> c, param |-> p, adding |-> s.adding]
      BY DEF d
    <3>2. q.left = IF p = NoParam THEN rest ELSE <<p>> \o rest
      BY <2>4 DEF more, Has
    <3>3. q.ch = s.ch /\ q.adding = s.adding /\ q.changes = D
      BY <2>4 DEF Has
    <3> HIDE DEF q
    <3> QED
      BY <2>4, <3>1, <3>2, <3>3, MadeAgain DEF Has
  <2> QED
    BY <2>1, <2>5, <2>6 DEF b
<1>9. t.changes = Append(D, d)
  BY DEF D, d
<1>10. Compose(t.changes) = longer
  BY <1>9 DEF longer
<1> QED
  BY <1>3, <1>8, <1>9, <1>10 DEF Recomposed

LEMMA RecomposedChar ==
  ASSUME NEW s \in Reading, NEW found \in ChannelState, Recomposed(s, found), NEW c
  PROVE  Recomposed(ReadChar(s, c), found)
<1> DEFINE t == ReadChar(s, c)
<1>1. t \in Reading /\ s.adding \in BOOLEAN
  BY ReadCharType DEF Reading
<1>2. ASSUME t.ch = s.ch, t.changes = s.changes PROVE Recomposed(t, found)
  BY <1>2 DEF Recomposed
<1>3. ASSUME NEW r, NEW p, r = Change(s, c, p)
      PROVE  /\ r.ch = SetMode(s.ch, c, p, s.adding)
             /\ r.changes = Append(s.changes, [mode |-> c, param |-> p,
                                               adding |-> s.adding])
  BY <1>3 DEF Change, Reading
<1>4. CASE c \in {"+", "-"}
  <2>1. t = [s EXCEPT !.adding = (c = "+")]
    BY <1>4, ReadCharCases
  <2>2. t.ch = s.ch /\ t.changes = s.changes
    BY <2>1 DEF Reading
  <2> QED
    BY <1>2, <2>2
<1>5. CASE c \in Flags \/ (c = "k" /\ ~s.adding)
  <2>1. t = Change(s, c, NoParam) /\ (c \in Flags => c # "k")
    BY <1>5, ReadCharCases, ModesAssumption
  <2> HIDE DEF t
  <2>2. /\ t.ch = SetMode(s.ch, c, NoParam, s.adding)
        /\ t.changes = Append(s.changes, [mode |-> c, param |-> NoParam,
                                          adding |-> s.adding])
    BY <1>3, <2>1
  <2>3. Recomposed(t, found)
    BY <1>1, <1>5, <2>1, <2>2, RecomposedChange
  <2> QED
    BY <2>3 DEF t
<1>6. CASE c = "k" /\ s.adding /\ s.left # <<>>
  <2> DEFINE p == Head(s.left)
  <2>1. t = [Change(s, c, p) EXCEPT !.left = Tail(@)]
    BY <1>6, ReadCharCases
  <2>2. p \in Param /\ p # NoParam
    BY <1>6, ModesAssumption DEF Reading
  <2> HIDE DEF t, p
  <2>3. t.ch = Change(s, c, p).ch /\ t.changes = Change(s, c, p).changes
    <3>1. Change(s, c, p) \in Reading
      BY <1>6, <2>2, ChangeType DEF Letter
    <3> QED
      BY <2>1, <3>1 DEF Reading
  <2>4. /\ t.ch = SetMode(s.ch, c, p, s.adding)
        /\ t.changes = Append(s.changes, [mode |-> c, param |-> p,
                                          adding |-> s.adding])
    BY <1>3, <2>3
  <2>5. Recomposed(t, found)
    BY <1>1, <1>6, <2>2, <2>4, RecomposedChange
  <2> QED
    BY <2>5 DEF t
<1>7. CASE /\ c \notin Flags \cup {"+", "-"}
           /\ ~(c = "k" /\ ~s.adding) /\ ~(c = "k" /\ s.adding /\ s.left # <<>>)
  <2>1. t = s
    BY <1>1, <1>7, ReadCharCases
  <2> QED
    BY <2>1
<1>8. \/ c \in {"+", "-"} \/ c \in Flags
      \/ (c = "k" /\ ~s.adding) \/ (c = "k" /\ s.adding /\ s.left # <<>>)
      \/ /\ c \notin Flags \cup {"+", "-"}
         /\ ~(c = "k" /\ ~s.adding) /\ ~(c = "k" /\ s.adding /\ s.left # <<>>)
  OBVIOUS
<1> QED
  BY <1>4, <1>5, <1>6, <1>7, <1>8

LEMMA AppliedRecomposed ==
  ASSUME NEW found \in ChannelState, NEW chars, Len(chars) \in Nat,
         NEW params \in Seq(Param)
  PROVE  Recomposed(Apply(found, chars, params), found)
<1> DEFINE k == Len(chars)
           start == [ch |-> found, adding |-> TRUE, left |-> params, changes |-> <<>>]
           run == ReadChars(start, chars)
<1>1. start \in Reading
  BY DEF Reading
<1>2. /\ run[0] = start
      /\ \A i \in 1..k : run[i] = ReadChar(run[i - 1], chars[i])
      /\ \A i \in 0..k : run[i] \in Reading
  <2> HIDE DEF start
  <2> QED
    BY <1>1, CharsRead
<1> DEFINE S == {i \in 0..k : Recomposed(run[i], found)}
<1>3. 0 \in S
  <2>1. Compose(<<>>) = [chars |-> <<>>, params |-> <<>>]
    <3>1. <<>> \in Seq(ChangeMade) /\ Len(<<>>) = 0
      OBVIOUS
    <3> QED
      BY <3>1, ChangesComposed DEF Compose
  <2>2. ASSUME NEW rest \in Seq(Param)
        PROVE  Has(ReadAll(Begin(found, <<>> \o rest), <<>>), found, TRUE, rest, <<>>)
    <3>1. <<>> \o rest = rest /\ Begin(found, rest) \in Reading
      BY DEF Begin, Reading
    <3>2. ReadAll(Begin(found, rest), <<>>) = Begin(found, rest)
      BY <3>1, ReadNothing
    <3> QED
      BY <3>1, <3>2 DEF Begin, Has
  <2>3. start.changes = <<>> /\ start.ch = found /\ LastAdds(<<>>) = TRUE
    BY DEF LastAdds
  <2> HIDE DEF start
  <2>4. Recomposed(start, found)
    <3>1. Compose(start.changes).params = <<>> /\ Compose(start.changes).chars = <<>>
      BY <2>1, <2>3
    <3> QED
      BY <2>2, <2>3, <3>1 DEF Recomposed
  <2> QED
    BY <1>2, <2>4
<1> HIDE DEF start, run
<1>4. ASSUME NEW n \in 0..(k - 1), n \in S PROVE n + 1 \in S
  <2>1. n + 1 \in 1..k /\ n + 1 \in 0..k /\ (n + 1) - 1 = n /\ n \in 0..k
    OBVIOUS
  <2>2. run[n + 1] = ReadChar(run[n], chars[n + 1]) /\ run[n] \in Reading
    BY <1>2, <2>1
  <2>3. Recomposed(ReadChar(run[n], chars[n + 1]), found)
    BY <1>4, <2>2, RecomposedChar
  <2> QED
    BY <2>1, <2>2, <2>3
<1>5. 0..k \subseteq S
  <2> HIDE DEF S
  <2> QED
    BY <1>3, <1>4, UpTheInterval
<1>6. k \in 0..k
  OBVIOUS
<1> QED
  BY <1>5, <1>6 DEF Apply, run, start

-----------------------------------------------------------------------------
(* Masks *)

LEMMA Reads ==
  ASSUME NEW items, Len(items) \in Nat, NEW text, Len(text) \in Nat
  PROVE  LET reached == Reached(items, text)
         IN  /\ reached[0] = {0}
             /\ \A i \in 1..Len(items) :
                  reached[i] = {n \in 0..Len(text) :
                                  \E j \in reached[i - 1] :
                                    StandsFor(items[i], text, j, n)}
<1> DEFINE k == Len(items)
           V == SUBSET (0..Len(text))
           Next1(i, r) == {n \in 0..Len(text) : \E j \in r : StandsFor(items[i], text, j, n)}
           step == [i \in 1..k |-> [r \in V |-> Next1(i, r)]]
           reached == Reached(items, text)
<1>1. step \in StepsWithin(V, k)
  BY DEF StepsWithin
<1>2. \A r \in V, i \in 1..k : step[i][r] = Next1(i, r)
  OBVIOUS
<1>3. {0} \in V
  OBVIOUS
<1> HIDE DEF step, V
<1>4. ASSUME NEW s \in V PROVE \E f : Follows(f, V, s, k, step)
  <2>1. k \in Nat
    OBVIOUS
  <2> HIDE DEF k
  <2> QED
    BY <1>1, <2>1, StepByStep
<1>5. PICK f : Follows(f, V, {0}, k, step)
  BY <1>3, <1>4
<1>6. f = [i \in 0..k |-> IF i = 0 THEN {0} ELSE Next1(i, f[i - 1])]
  <2>1. \A i \in 0..k : i # 0 => i - 1 \in 0..k /\ i \in 1..k
    OBVIOUS
  <2> HIDE DEF Next1
  <2>2. \A i \in 0..k : i # 0 => f[i] = Next1(i, f[i - 1])
    BY <1>2, <1>5, <2>1 DEF Follows
  <2> QED
    BY <1>5, <2>2 DEF Follows
<1>7. reached = [i \in 0..k |-> IF i = 0 THEN {0} ELSE Next1(i, reached[i - 1])]
  BY <1>6 DEF Reached
<1> HIDE DEF reached, Next1
<1>8. \A i \in 0..k : reached[i] = IF i = 0 THEN {0} ELSE Next1(i, reached[i - 1])
  BY <1>7
<1>9. reached[0] = {0} /\ \A i \in 1..k : reached[i] = Next1(i, reached[i - 1])
  <2>1. 0 \in 0..k /\ \A i \in 1..k : i \in 0..k /\ i # 0
    OBVIOUS
  <2> QED
    BY <1>8, <2>1
<1> QED
  BY <1>9 DEF reached, Next1

(* How much of the text each of the first i items stands for. *)
Shares(items, text, i, ends) ==
  /\ ends \in [0..i -> 0..Len(text)]
  /\ ends[0] = 0
  /\ \A n \in 1..i : StandsFor(items[n], text, ends[n - 1], ends[n])

(* The regular expression matches when the items can share the text. *)
LEMMA MatchIsShared ==
  ASSUME NEW items, Len(items) \in Nat, NEW text, Len(text) \in Nat
  PROVE  IsMatch(items, text) <=>
           \E ends : Shares(items, text, Len(items), ends) /\ ends[Len(items)] = Len(text)
<1> DEFINE k == Len(items)
           reached == Reached(items, text)
<1>1. /\ reached[0] = {0}
      /\ \A i \in 1..k : reached[i] = {n \in 0..Len(text) :
                                        \E j \in reached[i - 1] :
                                          StandsFor(items[i], text, j, n)}
  BY Reads
<1> HIDE DEF reached
<1>2. k \in Nat
  OBVIOUS
<1>3. ASSUME NEW ends, Shares(items, text, k, ends) PROVE ends[k] \in reached[k]
  <2> DEFINE S == {i \in 0..k : ends[i] \in reached[i]}
  <2>1. 0 \in S
    BY <1>1, <1>2, <1>3 DEF Shares
  <2>2. ASSUME NEW n \in 0..(k - 1), n \in S PROVE n + 1 \in S
    <3>1. n + 1 \in 1..k /\ n + 1 \in 0..k /\ (n + 1) - 1 = n
      BY <1>2
    <3>2. ends[n + 1] \in 0..Len(text) /\ StandsFor(items[n + 1], text, ends[n], ends[n + 1])
      BY <1>3, <3>1 DEF Shares
    <3> QED
      BY <1>1, <2>2, <3>1, <3>2
  <2>3. 0..k \subseteq S
    <3>1. \A n \in 0..(k - 1) : n \in S => n + 1 \in S
      BY <2>2
    <3> HIDE DEF S, k
    <3> QED
      BY <1>2, <2>1, <3>1, UpTheInterval
  <2> QED
    BY <1>2, <2>3
<1>4. \A m \in reached[k] : \E ends : Shares(items, text, k, ends) /\ ends[k] = m
  <2> DEFINE S == {i \in 0..k : \A m \in reached[i] :
                                 \E ends : Shares(items, text, i, ends) /\ ends[i] = m}
  <2>1. 0 \in S
    <3> DEFINE e == [i \in 0..0 |-> 0]
    <3>1. Shares(items, text, 0, e) /\ e[0] = 0
      BY DEF Shares
    <3> HIDE DEF e
    <3> QED
      BY <1>1, <1>2, <3>1
  <2>2. ASSUME NEW n \in 0..(k - 1), n \in S PROVE n + 1 \in S
    <3>1. n + 1 \in 1..k /\ n + 1 \in 0..k /\ (n + 1) - 1 = n /\ n \in Nat
      BY <1>2
    <3>2. ASSUME NEW m \in reached[n + 1]
          PROVE  \E ends : Shares(items, text, n + 1, ends) /\ ends[n + 1] = m
      <4>1. m \in 0..Len(text)
            /\ \E j \in reached[n] : StandsFor(items[n + 1], text, j, m)
        BY <1>1, <3>1
      <4>2. PICK j \in reached[n] : StandsFor(items[n + 1], text, j, m)
        BY <4>1
      <4>3. PICK e : Shares(items, text, n, e) /\ e[n] = j
        BY <2>2
      <4> DEFINE g == [i \in 0..(n + 1) |-> IF i = n + 1 THEN m ELSE e[i]]
      <4>4. g \in [0..(n + 1) -> 0..Len(text)]
        <5>1. \A i \in 0..(n + 1) : i = n + 1 \/ i \in 0..n
          BY <3>1
        <5> QED
          BY <4>1, <4>3, <5>1 DEF Shares
      <4>5. g[n + 1] = m /\ \A i \in 0..n : g[i] = e[i]
        BY <3>1
      <4> HIDE DEF g
      <4>6. g[0] = 0
        BY <3>1, <4>3, <4>5 DEF Shares
      <4>7. ASSUME NEW i \in 1..(n + 1) PROVE StandsFor(items[i], text, g[i - 1], g[i])
        <5>1. CASE i = n + 1
          <6>1. i - 1 = n /\ n \in 0..n
            BY <3>1, <5>1
          <6> QED
            BY <4>2, <4>3, <4>5, <5>1, <6>1
        <5>2. CASE i # n + 1
          <6>1. i \in 1..n /\ i \in 0..n /\ i - 1 \in 0..n
            BY <3>1, <5>2
          <6>2. StandsFor(items[i], text, e[i - 1], e[i])
            BY <4>3, <6>1 DEF Shares
          <6>3. g[i] = e[i] /\ g[i - 1] = e[i - 1]
            BY <4>5, <6>1
          <6> QED
            BY <6>2, <6>3
        <5> QED
          BY <5>1, <5>2
      <4>8. Shares(items, text, n + 1, g)
        BY <4>4, <4>6, <4>7 DEF Shares
      <4> QED
        BY <4>5, <4>8
    <3> QED
      BY <3>1, <3>2
  <2>3. 0..k \subseteq S
    <3>1. \A n \in 0..(k - 1) : n \in S => n + 1 \in S
      BY <2>2
    <3> HIDE DEF S, k
    <3> QED
      BY <1>2, <2>1, <3>1, UpTheInterval
  <2> QED
    BY <1>2, <2>3
<1>5. IsMatch(items, text) <=> Len(text) \in reached[k]
  BY DEF IsMatch, reached
<1> HIDE DEF k
<1>6. IsMatch(items, text) <=>
        \E ends : Shares(items, text, k, ends) /\ ends[k] = Len(text)
  BY <1>3, <1>4, <1>5
<1> QED
  BY <1>6 DEF k

(* What a character of a mask stands for, and what its item does. *)
LEMMA ItemsOfMask ==
  ASSUME NEW c \in MaskChar, NEW text, NEW j \in Nat, NEW n \in Nat,
         text[n] \in HostChar \/ n # j + 1
  PROVE  /\ c = "*" => (StandsFor(Item(c), text, j, n) <=> j <= n)
         /\ c # "*" /\ n = j + 1 /\ c \in {"?", text[n]} => StandsFor(Item(c), text, j, n)
         /\ c \notin {"*", "."} /\ StandsFor(Item(c), text, j, n) =>
              n = j + 1 /\ c \in {"?", text[n]}
<1>1. CASE c = "*"
  BY <1>1 DEF Item, StandsFor
<1>2. CASE c \in {"?", "."}
  <2>1. Item(c) = "any"
    BY <1>2 DEF Item
  <2> QED
    BY <1>2, <2>1 DEF StandsFor
<1>3. CASE c \notin {"*", "?", "."}
  <2>1. Item(c) = c /\ c # "any" /\ c # "repeat any"
    BY <1>3, MaskAssumption DEF Item, MaskChar
  <2> QED
    BY <1>3, <2>1 DEF StandsFor
<1> QED
  BY <1>1, <1>2, <1>3

(* The wildcards, for masks and hosts of any length. *)
LEMMA WildcardsMatched ==
  ASSUME NEW m \in Seq(MaskChar), NEW h \in Seq(HostChar), ~Contains(m, "(")
  PROVE  /\ GlobMatch(h, m) => mask_match(h, m)
         /\ ~Contains(m, ".") /\ mask_match(h, m) => GlobMatch(h, m)
<1> DEFINE k == Len(m)
           items == pattern(m)
<1>1. /\ k \in Nat /\ Len(h) \in Nat /\ DOMAIN m = 1..k
      /\ \A i \in 1..k : m[i] \in MaskChar
      /\ \A j \in 1..Len(h) : h[j] \in HostChar
  OBVIOUS
<1>2. Len(items) = k /\ \A i \in 1..k : items[i] = Item(m[i])
  BY <1>1 DEF pattern
<1>3. mask_match(h, m) <=>
        \E ends : Shares(items, h, k, ends) /\ ends[k] = Len(h)
  <2>1. Len(items) \in Nat
    BY <1>1, <1>2
  <2> HIDE DEF items, k
  <2>2. IsMatch(items, h) <=>
          \E ends : Shares(items, h, Len(items), ends) /\ ends[Len(items)] = Len(h)
    BY <1>1, <2>1, MatchIsShared
  <2> QED
    BY <1>2, <2>2 DEF mask_match, items
<1>4. ASSUME NEW ends \in [0..k -> 0..Len(h)], NEW i \in 1..k
      PROVE  /\ ends[i - 1] \in Nat /\ ends[i] \in Nat
             /\ h[ends[i]] \in HostChar \/ ends[i] # ends[i - 1] + 1
  <2>1. i - 1 \in 0..k /\ i \in 0..k
    BY <1>1
  <2>2. ends[i - 1] \in 0..Len(h) /\ ends[i] \in 0..Len(h)
    BY <2>1
  <2> QED
    BY <1>1, <2>2
<1> HIDE DEF items
<1>5. ASSUME GlobMatch(h, m) PROVE mask_match(h, m)
  <2>1. PICK ends \in [0..k -> 0..Len(h)] :
          /\ ends[0] = 0 /\ ends[k] = Len(h)
          /\ \A i \in 1..k :
               IF m[i] = "*" THEN ends[i - 1] <= ends[i]
               ELSE ends[i] = ends[i - 1] + 1 /\ m[i] \in {"?", h[ends[i]]}
    BY <1>5 DEF GlobMatch
  <2> HIDE DEF k
  <2>2. ASSUME NEW i \in 1..k PROVE StandsFor(items[i], h, ends[i - 1], ends[i])
    <3>1. StandsFor(Item(m[i]), h, ends[i - 1], ends[i])
      BY <1>1, <1>4, <2>1, ItemsOfMask
    <3> QED
      BY <1>2, <3>1
  <2>3. Shares(items, h, k, ends)
    BY <2>1, <2>2 DEF Shares
  <2> QED
    BY <1>3, <2>1, <2>3
<1>6. ASSUME ~Contains(m, "."), mask_match(h, m) PROVE GlobMatch(h, m)
  <2>1. PICK ends : Shares(items, h, k, ends) /\ ends[k] = Len(h)
    BY <1>3, <1>6
  <2>2. /\ ends \in [0..k -> 0..Len(h)] /\ ends[0] = 0
        /\ \A i \in 1..k : StandsFor(items[i], h, ends[i - 1], ends[i])
    BY <2>1 DEF Shares
  <2>3. \A i \in 1..k : m[i] # "."
    BY <1>6 DEF Contains
  <2>4. ASSUME NEW i \in 1..k
        PROVE  IF m[i] = "*" THEN ends[i - 1] <= ends[i]
               ELSE ends[i] = ends[i - 1] + 1 /\ m[i] \in {"?", h[ends[i]]}
    <3>1. StandsFor(Item(m[i]), h, ends[i - 1], ends[i])
      BY <1>2, <2>2
    <3> HIDE DEF k
    <3> QED
      BY <1>1, <1>4, <2>2, <2>3, <3>1, ItemsOfMask
  <2> QED
    BY <2>1, <2>2, <2>4 DEF GlobMatch
<1> QED
  BY <1>5, <1>6

-----------------------------------------------------------------------------
(* Lines, the words one by one *)

AnyWord == Seq(Symbol)
Text == Seq(AnyWord) \ {<<>>}
Parsing == [params : Seq(Text), trailing : Text, in_trailing : BOOLEAN]
NothingRead == [params |-> <<>>, trailing |-> << <<>> >>, in_trailing |-> FALSE]

LEMMA TextType ==
  ASSUME NEW w \in AnyWord
  PROVE  <<w>> \in Text /\ Len(<<w>>) = 1 /\ <<w>>[1] = w
BY DEF Text

LEMMA TailType ==
  ASSUME NEW w \in AnyWord, Starts(w, Colon)
  PROVE  Tail(w) \in AnyWord
BY DEF Starts, AnyWord

(* What a word does, one case at a time. *)
LEMMA WordStarts ==
  ASSUME NEW s \in Parsing, NEW w \in AnyWord, Starts(w, Colon)
  PROVE  LET t == ReadWord(s, w)
         IN  /\ t \in Parsing
             /\ t.params = s.params /\ t.in_trailing = TRUE
             /\ Len(t.trailing) = Len(s.trailing)
             /\ t.trailing[Len(s.trailing)] = s.trailing[Len(s.trailing)] \o Tail(w)
             /\ \A i \in 1..(Len(s.trailing) - 1) : t.trailing[i] = s.trailing[i]
<1> DEFINE text == s.trailing
           k == Len(text)
           last == text[k] \o Tail(w)
           grown == [text EXCEPT ![k] = last]
           t == ReadWord(s, w)
<1>1. t = [s EXCEPT !.in_trailing = TRUE, !.trailing = grown]
  BY DEF ReadWord, Parsing
<1>2. text \in Seq(AnyWord) /\ k \in Nat \ {0}
  BY EmptySeq DEF Text, Parsing
<1>3. last \in AnyWord
  <2>1. text[k] \in Seq(Symbol) /\ Tail(w) \in Seq(Symbol)
    BY <1>2, TailType DEF AnyWord
  <2> QED
    BY <2>1, ConcatProperties DEF AnyWord
<1>4. /\ grown \in Seq(AnyWord) /\ Len(grown) = k
      /\ \A i \in 1..k : grown[i] = IF i = k THEN last ELSE text[i]
  <2>1. k \in 1..k
    BY <1>2
  <2> HIDE DEF last, text
  <2> QED
    BY <1>2, <1>3, <2>1, ExceptSeq
<1> HIDE DEF grown, last
<1>5. grown \in Text
  BY <1>2, <1>4 DEF Text
<1>6. t \in Parsing /\ t.params = s.params /\ t.in_trailing = TRUE /\ t.trailing = grown
  BY <1>1, <1>5 DEF Parsing
<1>7. k \in 1..k /\ \A i \in 1..(k - 1) : i \in 1..k /\ i # k
  BY <1>2
<1> QED
  BY <1>4, <1>6, <1>7 DEF last

LEMMA WordFollows ==
  ASSUME NEW s \in Parsing, NEW w \in AnyWord, ~Starts(w, Colon), s.in_trailing
  PROVE  LET t == ReadWord(s, w)
         IN  /\ t \in Parsing
             /\ t.params = s.params /\ t.in_trailing = TRUE
             /\ t.trailing = Append(s.trailing, w)
<1>1. ReadWord(s, w) = [s EXCEPT !.trailing = Append(@, w)]
  BY DEF ReadWord
<1>2. s.trailing \in Seq(AnyWord)
  BY DEF Parsing, Text
<1>3. Append(s.trailing, w) \in Text
  BY <1>2, AppendProperties DEF Text
<1>4. s.in_trailing = TRUE
  BY DEF Parsing
<1> QED
  BY <1>1, <1>3, <1>4 DEF Parsing

LEMMA WordStands ==
  ASSUME NEW s \in Parsing, NEW w \in AnyWord, ~Starts(w, Colon), ~s.in_trailing
  PROVE  LET t == ReadWord(s, w)
         IN  /\ t \in Parsing
             /\ t.params = Append(s.params, <<w>>)
             /\ t.in_trailing = FALSE /\ t.trailing = s.trailing
<1>1. ReadWord(s, w) = [s EXCEPT !.params = Append(@, <<w>>)]
  BY DEF ReadWord
<1>2. Append(s.params, <<w>>) \in Seq(Text)
  BY TextType, AppendProperties DEF Parsing
<1>3. s.in_trailing = FALSE
  BY DEF Parsing
<1> QED
  BY <1>1, <1>2, <1>3 DEF Parsing

LEMMA ReadWordType ==
  ASSUME NEW s \in Parsing, NEW w \in AnyWord
  PROVE  ReadWord(s, w) \in Parsing
<1>1. CASE Starts(w, Colon)
  BY <1>1, WordStarts
<1>2. CASE ~Starts(w, Colon) /\ s.in_trailing
  BY <1>2, WordFollows
<1>3. CASE ~Starts(w, Colon) /\ ~s.in_trailing
  BY <1>3, WordStands
<1> QED
  BY <1>1, <1>2, <1>3

LEMMA WordsRead ==
  ASSUME NEW words \in Seq(AnyWord)
  PROVE  LET run == ReadWords(words)
         IN  /\ run[0] = NothingRead
             /\ \A i \in 1..Len(words) : run[i] = ReadWord(run[i - 1], words[i])
             /\ \A i \in 0..Len(words) : run[i] \in Parsing
<1> DEFINE k == Len(words)
           step == [i \in 1..k |-> [r \in Parsing |-> ReadWord(r, words[i])]]
           run == ReadWords(words)
<1>1. k \in Nat /\ \A i \in 1..k : words[i] \in AnyWord
  OBVIOUS
<1>2. step \in StepsWithin(Parsing, k)
  BY <1>1, ReadWordType DEF StepsWithin
<1>3. \A r \in Parsing, i \in 1..k : step[i][r] = ReadWord(r, words[i])
  OBVIOUS
<1>4. NothingRead \in Parsing
  <2>1. <<>> \in AnyWord
    BY DEF AnyWord
  <2>2. << <<>> >> \in Text
    BY <2>1, TextType
  <2> QED
    BY <2>2 DEF NothingRead, Parsing
<1> HIDE DEF step, k
<1>5. PICK f : Follows(f, Parsing, NothingRead, k, step)
  BY <1>1, <1>2, <1>4, StepByStep
<1>6. f = [i \in 0..k |-> IF i = 0 THEN NothingRead ELSE ReadWord(f[i - 1], words[i])]
  <2>1. \A i \in 0..k : i # 0 => i - 1 \in 0..k /\ i \in 1..k
    BY <1>1
  <2>2. \A i \in 0..k : i # 0 => f[i] = ReadWord(f[i - 1], words[i])
    BY <1>3, <1>5, <2>1 DEF Follows
  <2> QED
    BY <1>5, <2>2 DEF Follows
<1>7. run = [i \in 0..k |-> IF i = 0 THEN NothingRead
                            ELSE ReadWord(run[i - 1], words[i])]
  BY <1>6 DEF ReadWords, NothingRead, k
<1> HIDE DEF run
<1>8. \A i \in 0..k : run[i] = IF i = 0 THEN NothingRead
                               ELSE ReadWord(run[i - 1], words[i])
  BY <1>7
<1>9. /\ run[0] = NothingRead
      /\ \A i \in 1..k : run[i] = ReadWord(run[i - 1], words[i])
  <2>1. 0 \in 0..k /\ \A i \in 1..k : i \in 0..k /\ i # 0
    BY <1>1
  <2> QED
    BY <1>8, <2>1
<1>10. \A i \in 0..k : run[i] \in Parsing
  <2> DEFINE S == {i \in 0..k : run[i] \in Parsing}
  <2>1. 0 \in S
    BY <1>1, <1>4, <1>9
  <2>2. ASSUME NEW n \in 0..(k - 1), n \in S PROVE n + 1 \in S
    <3>1. n + 1 \in 1..k /\ n + 1 \in 0..k /\ (n + 1) - 1 = n
      BY <1>1
    <3>2. run[n + 1] = ReadWord(run[n], words[n + 1]) /\ words[n + 1] \in AnyWord
      BY <1>1, <1>9, <3>1
    <3>3. run[n + 1] \in Parsing
      BY <2>2, <3>2, ReadWordType
    <3> QED
      BY <3>1, <3>3
  <2>3. 0..k \subseteq S
    <3> HIDE DEF S
    <3> QED
      BY <1>1, <2>1, <2>2, UpTheInterval
  <2> QED
    BY <2>3
<1> QED
  BY <1>9, <1>10 DEF run, k

(* The first word with a colon, or the end of the line. *)
SplitsAt(words, f) ==
  /\ f \in 1..(Len(words) + 1)
  /\ f <= Len(words) => Starts(words[f], Colon)
  /\ \A j \in 1..(f - 1) : ~Starts(words[j], Colon)

(* No second one up to i. *)
OneColon(words, f, i) == \A j \in (f + 1)..i : ~Starts(words[j], Colon)

LEMMA Splits ==
  ASSUME NEW words \in Seq(AnyWord)
  PROVE  \E f : SplitsAt(words, f)
<1> DEFINE k == Len(words)
           S == {i \in 1..(k + 1) : i <= k => Starts(words[i], Colon)}
<1>1. k \in Nat
  OBVIOUS
<1>2. S \in SUBSET Nat /\ k + 1 \in S
  BY <1>1
<1>3. PICK f \in S : \A j \in S : f <= j
  BY <1>2, LeastNumber
<1>4. ASSUME NEW j \in 1..(f - 1) PROVE ~Starts(words[j], Colon)
  <2>1. j \in 1..(k + 1) /\ ~(f <= j)
    BY <1>1, <1>3
  <2> QED
    BY <1>3, <2>1
<1> QED
  BY <1>3, <1>4 DEF SplitsAt

(* What has been understood after i words of a line that splits at f: the  *)
(* words before f are parameters, and those from there are the trailing    *)
(* one, as they are or, after a second colon, fewer.                       *)
Singles(params, words, n) ==
  Len(params) = n /\ \A j \in 1..n : params[j] = <<words[j]>>

Rest(text, words, f, i) ==
  /\ Len(text) = i - f + 1
  /\ text[1] = Tail(words[f])
  /\ \A j \in 2..(i - f + 1) : text[j] = words[f + j - 1]

Single(s, words, i) ==
  ~s.in_trailing /\ s.trailing = << <<>> >> /\ Singles(s.params, words, i)

Trailing(s, words, f, i) ==
  /\ s.in_trailing /\ Singles(s.params, words, f - 1)
  /\ OneColon(words, f, i) => Rest(s.trailing, words, f, i)
  /\ ~OneColon(words, f, i) => Len(s.trailing) <= i - f

LEMMA PlainNext ==
  ASSUME NEW words \in Seq(AnyWord), NEW i \in Nat, i + 1 <= Len(words),
         NEW s \in Parsing, Single(s, words, i), ~Starts(words[i + 1], Colon)
  PROVE  Single(ReadWord(s, words[i + 1]), words, i + 1)
<1>1. words[i + 1] \in AnyWord
  OBVIOUS
<1> DEFINE w == words[i + 1]
           t == ReadWord(s, w)
<1>2. /\ t.params = Append(s.params, <<w>>)
      /\ t.in_trailing = FALSE /\ t.trailing = s.trailing
  <2> HIDE DEF w
  <2>1. w \in AnyWord /\ ~Starts(w, Colon) /\ ~s.in_trailing
    BY <1>1 DEF w, Single
  <2> QED
    BY <2>1, WordStands
<1>3. Singles(t.params, words, i + 1)
  <2>1. /\ s.params \in Seq(Text) /\ Len(s.params) = i
        /\ \A j \in 1..i : s.params[j] = <<words[j]>>
    BY DEF Single, Singles, Parsing
  <2>2. <<w>> \in Text
    BY <1>1, TextType
  <2> HIDE DEF w
  <2>3. /\ Len(Append(s.params, <<w>>)) = i + 1
        /\ \A j \in 1..i : Append(s.params, <<w>>)[j] = <<words[j]>>
        /\ Append(s.params, <<w>>)[i + 1] = <<w>>
    BY <2>1, <2>2, AppendProperties
  <2>4. \A j \in 1..(i + 1) : j \in 1..i \/ j = i + 1
    OBVIOUS
  <2> QED
    BY <1>2, <2>3, <2>4 DEF Singles, w
<1> QED
  BY <1>2, <1>3 DEF Single

LEMMA TrailingFirst ==
  ASSUME NEW words \in Seq(AnyWord), NEW i \in Nat, i + 1 <= Len(words),
         NEW s \in Parsing, Single(s, words, i), Starts(words[i + 1], Colon)
  PROVE  Trailing(ReadWord(s, words[i + 1]), words, i + 1, i + 1)
<1>1. words[i + 1] \in AnyWord
  OBVIOUS
<1> DEFINE w == words[i + 1]
           t == ReadWord(s, w)
<1>2. /\ t.params = s.params /\ t.in_trailing = TRUE
      /\ Len(t.trailing) = Len(s.trailing)
      /\ t.trailing[Len(s.trailing)] = s.trailing[Len(s.trailing)] \o Tail(w)
  <2> HIDE DEF w
  <2>1. w \in AnyWord /\ Starts(w, Colon)
    BY <1>1 DEF w
  <2> QED
    BY <2>1, WordStarts
<1>3. s.trailing = << <<>> >> /\ Singles(s.params, words, i)
  BY DEF Single
<1>4. Tail(w) \in Seq(Symbol)
  BY <1>1, TailType DEF AnyWord
<1>5. <<>> \o Tail(w) = Tail(w)
  BY <1>4, ConcatEmptySeq
<1>6. Len(t.trailing) = 1 /\ t.trailing[1] = Tail(w)
  <2>1. Len(s.trailing) = 1 /\ s.trailing[1] = <<>>
    BY <1>3
  <2> HIDE DEF t, w
  <2> QED
    BY <1>2, <1>5, <2>1
<1>7. Rest(t.trailing, words, i + 1, i + 1)
  BY <1>6 DEF Rest
<1>8. OneColon(words, i + 1, i + 1)
  BY DEF OneColon
<1>9. (i + 1) - 1 = i
  OBVIOUS
<1> QED
  BY <1>2, <1>3, <1>7, <1>8, <1>9 DEF Trailing

LEMMA TrailingNext ==
  ASSUME NEW words \in Seq(AnyWord), NEW i \in Nat, i + 1 <= Len(words),
         NEW f \in 1..i, NEW s \in Parsing, Trailing(s, words, f, i)
  PROVE  Trailing(ReadWord(s, words[i + 1]), words, f, i + 1)
<1>1. words[i + 1] \in AnyWord
  OBVIOUS
<1> DEFINE w == words[i + 1]
           t == ReadWord(s, w)
<1>2. /\ s.in_trailing /\ Singles(s.params, words, f - 1)
      /\ s.trailing \in Seq(AnyWord) /\ Len(s.trailing) \in Nat
  BY DEF Trailing, Parsing, Text
<1>3. OneColon(words, f, i + 1) <=> OneColon(words, f, i) /\ ~Starts(w, Colon)
  <2>1. \A j : j \in (f + 1)..(i + 1) <=> j \in (f + 1)..i \/ j = i + 1
    OBVIOUS
  <2> QED
    BY <2>1 DEF OneColon
<1>4. Len(s.trailing) <= i - f + 1
  BY <1>2 DEF Trailing, Rest
<1>5. CASE Starts(w, Colon)
  <2>1. t.params = s.params /\ t.in_trailing = TRUE /\ Len(t.trailing) = Len(s.trailing)
    <3> HIDE DEF w
    <3>1. w \in AnyWord
      BY <1>1 DEF w
    <3> QED
      BY <1>5, <3>1, WordStarts
  <2>2. Len(t.trailing) <= (i + 1) - f
    BY <1>2, <1>4, <2>1
  <2> QED
    BY <1>2, <1>3, <1>5, <2>1, <2>2 DEF Trailing
<1>6. CASE ~Starts(w, Colon)
  <2>1. t.params = s.params /\ t.in_trailing = TRUE /\ t.trailing = Append(s.trailing, w)
    <3> HIDE DEF w
    <3>1. w \in AnyWord
      BY <1>1 DEF w
    <3> QED
      BY <1>2, <1>6, <3>1, WordFollows
  <2>2. /\ Len(t.trailing) = Len(s.trailing) + 1
        /\ \A j \in 1..Len(s.trailing) : t.trailing[j] = s.trailing[j]
        /\ t.trailing[Len(s.trailing) + 1] = w
    <3> HIDE DEF w, t
    <3>1. w \in AnyWord
      BY <1>1 DEF w
    <3> QED
      BY <1>2, <2>1, <3>1, AppendProperties
  <2>3. CASE OneColon(words, f, i)
    <3>1. Rest(s.trailing, words, f, i)
      BY <2>3 DEF Trailing
    <3>2. Rest(t.trailing, words, f, i + 1)
      <4>1. /\ Len(s.trailing) = i - f + 1 /\ s.trailing[1] = Tail(words[f])
            /\ \A j \in 2..(i - f + 1) : s.trailing[j] = words[f + j - 1]
        BY <3>1 DEF Rest
      <4>2. Len(t.trailing) = (i + 1) - f + 1 /\ 1 \in 1..Len(s.trailing)
        <5>1. (i + 1) - f + 1 = (i - f + 1) + 1 /\ 1 \in 1..(i - f + 1)
          OBVIOUS
        <5> HIDE DEF t
        <5> QED
          BY <2>2, <4>1, <5>1
      <4>3. ASSUME NEW j \in 2..((i + 1) - f + 1) PROVE t.trailing[j] = words[f + j - 1]
        <5>1. CASE j \in 2..(i - f + 1)
          BY <2>2, <4>1, <5>1
        <5>2. CASE j = Len(s.trailing) + 1
          <6>1. f + j - 1 = i + 1
            BY <4>1, <5>2
          <6> QED
            BY <2>2, <5>2, <6>1
        <5> QED
          BY <4>1, <5>1, <5>2
      <4> HIDE DEF t
      <4> QED
        BY <2>2, <4>1, <4>2, <4>3 DEF Rest
    <3> QED
      BY <1>2, <1>3, <1>6, <2>1, <2>3, <3>2 DEF Trailing
  <2>4. CASE ~OneColon(words, f, i)
    <3>1. Len(s.trailing) <= i - f
      BY <2>4 DEF Trailing
    <3>2. Len(t.trailing) <= (i + 1) - f
      BY <1>2, <2>2, <3>1
    <3> QED
      BY <1>2, <1>3, <2>1, <2>4, <3>2 DEF Trailing
  <2> QED
    BY <2>3, <2>4
<1> QED
  BY <1>5, <1>6

(* A whole line. *)
LEMMA LineUnderstood ==
  ASSUME NEW words \in Seq(AnyWord), NEW f, SplitsAt(words, f)
  PROVE  LET s == ReadWords(words)[Len(words)]
         IN  /\ s \in Parsing
             /\ f = Len(words) + 1 => Single(s, words, Len(words))
             /\ f <= Len(words) => Trailing(s, words, f, Len(words))
<1> DEFINE k == Len(words)
           run == ReadWords(words)
           S == {i \in 0..k : IF i < f THEN Single(run[i], words, i)
                              ELSE Trailing(run[i], words, f, i)}
<1>1. /\ run[0] = NothingRead
      /\ \A i \in 1..k : run[i] = ReadWord(run[i - 1], words[i])
      /\ \A i \in 0..k : run[i] \in Parsing
  BY WordsRead
<1>2. k \in Nat /\ f \in 1..(k + 1)
  BY DEF SplitsAt
<1> HIDE DEF run
<1>3. 0 \in S
  <2>1. Single(run[0], words, 0)
    BY <1>1 DEF NothingRead, Single, Singles
  <2> QED
    BY <1>2, <2>1
<1>4. ASSUME NEW n \in 0..(k - 1), n \in S PROVE n + 1 \in S
  <2>1. n \in Nat /\ n + 1 <= Len(words) /\ n + 1 \in 1..k /\ n + 1 \in 0..k
          /\ (n + 1) - 1 = n /\ n \in 0..k
    BY <1>2
  <2>2. run[n + 1] = ReadWord(run[n], words[n + 1]) /\ run[n] \in Parsing
    BY <1>1, <2>1
  <2>3. CASE n + 1 < f
    <3>1. ~Starts(words[n + 1], Colon) /\ Single(run[n], words, n)
      <4>1. n + 1 \in 1..(f - 1) /\ n < f
        BY <1>2, <2>1, <2>3
      <4> QED
        BY <1>4, <4>1 DEF SplitsAt
    <3>2. Single(run[n + 1], words, n + 1)
      BY <2>1, <2>2, <3>1, PlainNext
    <3> QED
      BY <2>1, <2>3, <3>2
  <2>4. CASE n + 1 = f
    <3>1. Starts(words[n + 1], Colon) /\ Single(run[n], words, n)
      <4>1. f <= Len(words) /\ n < f
        BY <1>2, <2>1, <2>4
      <4> QED
        BY <1>4, <2>4, <4>1 DEF SplitsAt
    <3>2. Trailing(run[n + 1], words, n + 1, n + 1)
      BY <2>1, <2>2, <3>1, TrailingFirst
    <3> QED
      BY <1>2, <2>1, <2>4, <3>2
  <2>5. CASE f < n + 1
    <3>1. f \in 1..n /\ ~(n < f) /\ ~(n + 1 < f)
      BY <1>2, <2>1, <2>5
    <3>2. Trailing(run[n], words, f, n)
      BY <1>4, <3>1
    <3>3. Trailing(run[n + 1], words, f, n + 1)
      BY <2>1, <2>2, <3>1, <3>2, TrailingNext
    <3> QED
      BY <2>1, <3>1, <3>3
  <2> QED
    BY <1>2, <2>1, <2>3, <2>4, <2>5
<1>5. k \in S
  <2> HIDE DEF S, k
  <2>1. 0..k \subseteq S
    BY <1>2, <1>3, <1>4, UpTheInterval
  <2> QED
    BY <1>2, <2>1
<1>6. IF k < f THEN Single(run[k], words, k) ELSE Trailing(run[k], words, f, k)
  BY <1>5
<1>7. (f = k + 1 => k < f) /\ (f <= k => ~(k < f)) /\ k \in 0..k
  BY <1>2
<1> QED
  BY <1>1, <1>6, <1>7 DEF run

LEMMA ParamsRead ==
  ASSUME NEW words \in Seq(AnyWord), NEW f, SplitsAt(words, f)
  PROVE  LET p == ParseParams(words)
         IN  /\ p \in Seq(Text)
             /\ f = Len(words) + 1 => Singles(p, words, Len(words))
             /\ f <= Len(words) =>
                  /\ Len(p) = f /\ p[f] \in Text
                  /\ \A j \in 1..(f - 1) : p[j] = <<words[j]>>
                  /\ OneColon(words, f, Len(words)) => Rest(p[f], words, f, Len(words))
                  /\ ~OneColon(words, f, Len(words)) => Len(p[f]) <= Len(words) - f
<1> DEFINE n == Len(words)
           s == ReadWords(words)[n]
           p == ParseParams(words)
<1>1. /\ s \in Parsing
      /\ f = n + 1 => Single(s, words, n)
      /\ f <= n => Trailing(s, words, f, n)
  BY LineUnderstood
<1>2. p = IF s.in_trailing THEN Append(s.params, s.trailing) ELSE s.params
  BY DEF ParseParams
<1>3. n \in Nat /\ f \in 1..(n + 1)
  BY DEF SplitsAt
<1> HIDE DEF s, p
<1>4. s.params \in Seq(Text) /\ s.trailing \in Text
  BY <1>1 DEF Parsing
<1>5. CASE f = n + 1
  <2>1. ~(f <= n)
    BY <1>3, <1>5
  <2>2. ~s.in_trailing /\ Singles(s.params, words, n)
    BY <1>1, <1>5 DEF Single
  <2> QED
    BY <1>2, <1>4, <2>1, <2>2 DEF p
<1>6. CASE f <= n
  <2>1. f # n + 1
    BY <1>3, <1>6
  <2>2. /\ s.in_trailing /\ Len(s.params) = f - 1
        /\ \A j \in 1..(f - 1) : s.params[j] = <<words[j]>>
    BY <1>1, <1>6 DEF Trailing, Singles
  <2>3. p = Append(s.params, s.trailing)
    BY <1>2, <2>2
  <2>4. /\ p \in Seq(Text) /\ Len(p) = f /\ p[f] = s.trailing
        /\ \A j \in 1..(f - 1) : p[j] = <<words[j]>>
    BY <1>3, <1>4, <2>2, <2>3, AppendProperties
  <2> QED
    BY <1>1, <1>4, <1>6, <2>1, <2>4 DEF Trailing, p
<1> QED
  BY <1>3, <1>5, <1>6

(* What a client means, from where its line splits. *)
RestOf(words, f) == <<Tail(words[f])>> \o SubSeq(words, f + 1, Len(words))

LEMMA RestIs ==
  ASSUME NEW words \in Seq(AnyWord), NEW f, SplitsAt(words, f), f <= Len(words)
  PROVE  /\ RestOf(words, f) \in Text
         /\ Rest(RestOf(words, f), words, f, Len(words))
<1> DEFINE n == Len(words)
           t == <<Tail(words[f])>>
           u == SubSeq(words, f + 1, n)
<1>1. n \in Nat /\ f \in 1..n /\ \A i \in 1..n : words[i] \in AnyWord
  BY DEF SplitsAt
<1>2. Tail(words[f]) \in AnyWord
  BY <1>1, TailType DEF SplitsAt
<1>3. t \in Seq(AnyWord) /\ Len(t) = 1 /\ t[1] = Tail(words[f])
  BY <1>2
<1>4. /\ u \in Seq(AnyWord) /\ Len(u) = n - f
      /\ \A j \in 1..(n - f) : u[j] = words[f + j]
  <2>1. \A i \in (f + 1)..n : words[i] \in AnyWord
    BY <1>1
  <2>2. f + 1 \in Int /\ n \in Int
    BY <1>1
  <2>3. /\ u \in Seq(AnyWord)
        /\ Len(u) = IF f + 1 <= n THEN n - (f + 1) + 1 ELSE 0
        /\ \A j \in 1..(n - (f + 1) + 1) : u[j] = words[(f + 1) + j - 1]
    <3> HIDE DEF n
    <3> QED
      BY <2>1, <2>2, SubSeqProperties
  <2> HIDE DEF u
  <2>4. Len(u) = n - f
    BY <1>1, <2>3
  <2>5. ASSUME NEW j \in 1..(n - f) PROVE u[j] = words[f + j]
    <3>1. j \in 1..(n - (f + 1) + 1) /\ (f + 1) + j - 1 = f + j
      BY <1>1
    <3> QED
      BY <2>3, <3>1
  <2> QED
    BY <2>3, <2>4, <2>5
<1> HIDE DEF t, u
<1> DEFINE r == t \o u
<1>5. /\ r \in Seq(AnyWord) /\ Len(r) = 1 + (n - f)
      /\ \A j \in 1..(1 + (n - f)) : r[j] = IF j <= 1 THEN t[j] ELSE u[j - 1]
  <2>1. /\ r \in Seq(AnyWord) /\ Len(r) = Len(t) + Len(u)
        /\ \A j \in 1..(Len(t) + Len(u)) :
             r[j] = IF j <= Len(t) THEN t[j] ELSE u[j - Len(t)]
    BY <1>3, <1>4, ConcatProperties
  <2> HIDE DEF r, n
  <2> QED
    BY <1>3, <1>4, <2>1
<1>6. r = RestOf(words, f)
  BY DEF t, u, RestOf
<1> HIDE DEF r
<1>7. Len(r) = n - f + 1 /\ r # <<>>
  <2> HIDE DEF n
  <2> QED
    BY <1>1, <1>5
<1>8. r[1] = Tail(words[f])
  <2>1. 1 \in 1..(1 + (n - f))
    BY <1>1
  <2> HIDE DEF n
  <2> QED
    BY <1>3, <1>5, <2>1
<1>9. ASSUME NEW j \in 2..(n - f + 1) PROVE r[j] = words[f + j - 1]
  <2>1. j \in 1..(1 + (n - f)) /\ ~(j <= 1) /\ j - 1 \in 1..(n - f) /\ f + (j - 1) = f + j - 1
    BY <1>1
  <2> QED
    BY <1>4, <1>5, <2>1
<1>10. r \in Text /\ Rest(r, words, f, n)
  BY <1>5, <1>7, <1>8, <1>9 DEF Rest, Text
<1> QED
  BY <1>6, <1>10

LEMMA MeantIs ==
  ASSUME NEW words \in Seq(AnyWord), NEW f, SplitsAt(words, f)
  PROVE  /\ f = Len(words) + 1 => Meant(words) = [i \in 1..Len(words) |-> <<words[i]>>]
         /\ f <= Len(words) =>
              Meant(words) = [i \in 1..f |-> IF i = f THEN RestOf(words, f)
                                             ELSE <<words[i]>>]
<1> DEFINE n == Len(words)
           colons == {i \in DOMAIN words : Starts(words[i], Colon)}
           last == IF colons = {} THEN n
                   ELSE CHOOSE i \in colons : \A j \in colons : i <= j
<1>1. n \in Nat /\ DOMAIN words = 1..n /\ f \in 1..(n + 1)
  BY DEF SplitsAt
<1>2. \A i \in colons : f <= i /\ i \in 1..n
  <2>1. \A i \in 1..n : ~(f <= i) => i \in 1..(f - 1)
    BY <1>1
  <2> QED
    BY <1>1, <2>1 DEF SplitsAt
<1>3. Meant(words) = [i \in 1..last |->
                        IF i \in colons
                        THEN <<Tail(words[i])>> \o SubSeq(words, i + 1, n)
                        ELSE <<words[i]>>]
  BY DEF Meant
<1>4. CASE f = n + 1
  <2>1. colons = {}
    BY <1>1, <1>2, <1>4
  <2>2. last = n
    BY <2>1
  <2>3. ~(f <= n)
    BY <1>1, <1>4
  <2> HIDE DEF colons, last
  <2> QED
    BY <1>3, <2>1, <2>2, <2>3
<1>5. CASE f <= n
  <2>1. f \in colons
    BY <1>1, <1>5 DEF SplitsAt
  <2>2. last = f
    <3> HIDE DEF colons
    <3>1. \A j \in colons : f <= j
      BY <1>2
    <3>2. last \in colons /\ \A j \in colons : last <= j
      BY <2>1, <3>1
    <3>3. last <= f /\ f <= last /\ last \in Nat
      BY <1>2, <2>1, <3>1, <3>2
    <3> HIDE DEF last
    <3> QED
      BY <1>1, <3>3
  <2>3. ASSUME NEW i \in 1..f PROVE i \in colons <=> i = f
    BY <1>1, <1>2, <2>1
  <2>4. f # n + 1
    BY <1>1, <1>5
  <2> HIDE DEF colons, last
  <2>5. Meant(words) = [i \in 1..f |-> IF i = f THEN RestOf(words, f) ELSE <<words[i]>>]
    BY <1>3, <2>2, <2>3 DEF RestOf
  <2> QED
    BY <2>4, <2>5
<1> QED
  BY <1>1, <1>4, <1>5

LEMMA SameRest ==
  ASSUME NEW words, NEW f \in Nat, NEW i \in Nat, NEW x \in Text, NEW y \in Text,
         Rest(x, words, f, i), Rest(y, words, f, i)
  PROVE  x = y
<1>1. x \in Seq(AnyWord) /\ y \in Seq(AnyWord) /\ Len(x) = i - f + 1 /\ Len(x) = Len(y)
  BY DEF Text, Rest
<1>2. ASSUME NEW j \in 1..Len(x) PROVE x[j] = y[j]
  <2>1. j = 1 \/ j \in 2..(i - f + 1)
    BY <1>1
  <2> QED
    BY <2>1 DEF Rest
<1> QED
  BY <1>1, <1>2, SeqEqual

LEMMA AsMeant ==
  ASSUME NEW words \in Seq(AnyWord), NEW f, SplitsAt(words, f)
  PROVE  ParseParams(words) = Meant(words) <=> OneColon(words, f, Len(words))
<1> DEFINE n == Len(words)
           p == ParseParams(words)
           r == RestOf(words, f)
<1>1. n \in Nat /\ f \in 1..(n + 1) /\ \A i \in 1..n : <<words[i]>> \in Text
  BY TextType DEF SplitsAt
<1>2. /\ p \in Seq(Text)
      /\ f = n + 1 => Singles(p, words, n)
      /\ f <= n =>
           /\ Len(p) = f /\ p[f] \in Text
           /\ \A j \in 1..(f - 1) : p[j] = <<words[j]>>
           /\ OneColon(words, f, n) => Rest(p[f], words, f, n)
           /\ ~OneColon(words, f, n) => Len(p[f]) <= n - f
  BY ParamsRead
<1> HIDE DEF p
<1>3. CASE f = n + 1
  <2> DEFINE q == [i \in 1..n |-> <<words[i]>>]
  <2>1. Meant(words) = q
    BY <1>3, MeantIs
  <2>2. q \in Seq(Text) /\ Len(q) = n /\ \A i \in 1..n : q[i] = <<words[i]>>
    BY <1>1
  <2>3. Len(p) = n /\ \A i \in 1..n : p[i] = <<words[i]>>
    BY <1>2, <1>3 DEF Singles
  <2> HIDE DEF q
  <2>4. p = q
    <3>1. Len(p) = Len(q) /\ \A i \in 1..Len(p) : p[i] = q[i]
      BY <2>2, <2>3
    <3> QED
      BY <1>2, <2>2, <3>1, SeqEqual
  <2>5. OneColon(words, f, n)
    BY <1>1, <1>3 DEF OneColon
  <2> QED
    BY <2>1, <2>4, <2>5 DEF p
<1>4. CASE f <= n
  <2> DEFINE q == [i \in 1..f |-> IF i = f THEN r ELSE <<words[i]>>]
  <2>1. Meant(words) = q
    BY <1>4, MeantIs
  <2>2. r \in Text /\ Rest(r, words, f, n)
    BY <1>4, RestIs
  <2> HIDE DEF r
  <2>3. q \in Seq(Text) /\ Len(q) = f /\ q[f] = r /\ \A i \in 1..(f - 1) : q[i] = <<words[i]>>
    BY <1>1, <1>4, <2>2
  <2> HIDE DEF q
  <2>4. CASE OneColon(words, f, n)
    <3>1. Rest(p[f], words, f, n) /\ p[f] \in Text
      BY <1>2, <1>4, <2>4
    <3>2. p[f] = r
      <4>1. f \in Nat
        BY <1>1
      <4> HIDE DEF n
      <4> QED
        BY <1>1, <2>2, <3>1, <4>1, SameRest
    <3>3. ASSUME NEW j \in 1..f PROVE p[j] = q[j]
      <4>1. j = f \/ j \in 1..(f - 1)
        BY <1>1
      <4> QED
        BY <1>2, <1>4, <2>3, <3>2, <4>1
    <3>4. p = q
      BY <1>2, <1>4, <2>3, <3>3, SeqEqual
    <3> QED
      BY <2>1, <2>4, <3>4 DEF p
  <2>5. CASE ~OneColon(words, f, n)
    <3>1. Len(p[f]) <= n - f /\ Len(r) = n - f + 1
      BY <1>2, <1>4, <2>2, <2>5 DEF Rest
    <3>2. p # q
      BY <1>1, <2>3, <3>1
    <3> QED
      BY <2>1, <2>5, <3>2 DEF p
  <2> QED
    BY <2>4, <2>5
<1> QED
  BY <1>1, <1>3, <1>4

(* At most one word starts with a colon when there is no second one. *)
LEMMA AtMostOne ==
  ASSUME NEW words \in Seq(AnyWord), NEW f, SplitsAt(words, f)
  PROVE  Cardinality({i \in DOMAIN words : Starts(words[i], Colon)}) <= 1
           <=> OneColon(words, f, Len(words))
<1> DEFINE n == Len(words)
           colons == {i \in DOMAIN words : Starts(words[i], Colon)}
<1>1. n \in Nat /\ DOMAIN words = 1..n /\ f \in 1..(n + 1) /\ colons \subseteq 1..n
  BY DEF SplitsAt
<1>2. IsFiniteSet(1..n)
  BY <1>1, FS_Interval
<1>3. IsFiniteSet(colons) /\ Cardinality(colons) \in Nat
  BY <1>1, <1>2, FS_Subset, FS_CardinalityType
<1>4. CASE OneColon(words, f, n)
  <2>1. colons \subseteq {f}
    <3>1. \A i \in 1..n : i = f \/ i \in 1..(f - 1) \/ i \in (f + 1)..n
      BY <1>1
    <3> QED
      BY <1>1, <1>4, <3>1 DEF OneColon, SplitsAt
  <2>2. IsFiniteSet({f}) /\ Cardinality({f}) = 1
    BY FS_Singleton
  <2> HIDE DEF colons
  <2>3. Cardinality(colons) <= Cardinality({f})
    BY <2>1, <2>2, FS_Subset
  <2> QED
    BY <1>4, <2>2, <2>3 DEF colons
<1>5. CASE ~OneColon(words, f, n)
  <2>1. PICK j \in (f + 1)..n : Starts(words[j], Colon)
    BY <1>5 DEF OneColon
  <2>2. f <= n /\ f # j /\ j \in 1..n
    BY <1>1, <2>1
  <2>3. f \in colons /\ j \in colons
    BY <1>1, <2>1, <2>2 DEF SplitsAt
  <2> DEFINE one == {f}
             two == one \cup {j}
  <2>4. IsFiniteSet(one) /\ Cardinality(one) = 1
    BY FS_Singleton
  <2>5. Cardinality(two) = 2
    <3>1. j \notin one
      BY <2>2
    <3> HIDE DEF one
    <3>2. Cardinality(two) = Cardinality(one) + 1
      BY <2>4, <3>1, FS_AddElement
    <3> QED
      BY <2>4, <3>2
  <2>6. Cardinality(two) <= Cardinality(colons)
    <3>1. two \in SUBSET colons
      BY <2>3
    <3> HIDE DEF two, colons
    <3> QED
      BY <1>3, <3>1, FS_Subset
  <2> HIDE DEF colons, two
  <2>7. ~(Cardinality(colons) <= 1)
    BY <1>3, <2>5, <2>6
  <2> QED
    BY <1>5, <2>7 DEF colons
<1> QED
  BY <1>4, <1>5

-----------------------------------------------------------------------------
(* Messages *)

Message(source, words) ==
  [source |-> source, command |-> Privmsg, params |-> ParseParams(words)]

LEMMA FirstWord ==
  ASSUME NEW w \in AnyWord, NEW words \in Seq(AnyWord)
  PROVE  LET line == <<w>> \o words
         IN  /\ line \in Seq(AnyWord) /\ line # <<>>
             /\ Len(line) = 1 + Len(words)
             /\ Head(line) = w /\ Tail(line) = words
<1> DEFINE line == <<w>> \o words
           k == Len(words)
<1>1. <<w>> \in Seq(AnyWord) /\ Len(<<w>>) = 1 /\ <<w>>[1] = w /\ k \in Nat
  OBVIOUS
<1>2. /\ line \in Seq(AnyWord) /\ Len(line) = 1 + k
      /\ \A i \in 1..(1 + k) : line[i] = IF i <= 1 THEN w ELSE words[i - 1]
  <2> DEFINE t == <<w>>
             l == t \o words
  <2>1. t \in Seq(AnyWord) /\ Len(t) = 1 /\ t[1] = w
    BY <1>1
  <2> HIDE DEF t
  <2>2. /\ l \in Seq(AnyWord) /\ Len(l) = Len(t) + Len(words)
        /\ \A i \in 1..(Len(t) + Len(words)) :
             l[i] = IF i <= Len(t) THEN t[i] ELSE words[i - Len(t)]
    BY <2>1, ConcatProperties
  <2> HIDE DEF l
  <2>3. /\ l \in Seq(AnyWord) /\ Len(l) = 1 + k
        /\ \A i \in 1..(1 + k) : l[i] = IF i <= 1 THEN w ELSE words[i - 1]
    BY <1>1, <2>1, <2>2
  <2> QED
    BY <2>3 DEF l, t
<1> HIDE DEF line
<1>3. line # <<>> /\ 1 \in 1..(1 + k)
  BY <1>1, <1>2
<1>4. Head(line) = w
  BY <1>2, <1>3
<1>5. Tail(line) = words
  <2>1. /\ Tail(line) \in Seq(AnyWord) /\ Len(Tail(line)) = k
        /\ \A i \in 1..k : Tail(line)[i] = line[i + 1]
    BY <1>1, <1>2, <1>3, HeadTailProperties
  <2>2. ASSUME NEW i \in 1..k PROVE Tail(line)[i] = words[i]
    <3>1. i + 1 \in 1..(1 + k) /\ ~(i + 1 <= 1) /\ (i + 1) - 1 = i
      BY <1>1
    <3> QED
      BY <1>2, <2>1, <3>1
  <2> QED
    BY <2>1, <2>2, SeqEqual
<1> QED
  BY <1>2, <1>3, <1>4, <1>5 DEF line

LEMMA Characters ==
  /\ Privmsg \in AnyWord /\ ~Starts(Privmsg, "@") /\ ~Starts(Privmsg, Colon)
  /\ Tags \in AnyWord /\ Starts(Tags, "@")
  /\ Privmsg # <<>> /\ Prefix \in AnyWord
BY WireAssumption DEF Privmsg, Tags, Prefix, Starts, Colon, AnyWord

LEMMA ColonInFront ==
  ASSUME NEW w \in AnyWord
  PROVE  LET word == <<Colon>> \o w
         IN  /\ word \in AnyWord /\ word # <<>> /\ Tail(word) = w
             /\ Starts(word, Colon) /\ ~Starts(word, "@")
<1>1. Colon \in Symbol /\ Colon # "@"
  BY WireAssumption DEF Colon
<1>2. /\ <<Colon>> \o w \in Seq(Symbol) /\ <<Colon>> \o w # <<>>
      /\ Head(<<Colon>> \o w) = Colon /\ Tail(<<Colon>> \o w) = w
  <2> DEFINE c == Colon
  <2> HIDE DEF c
  <2>1. c \in Symbol /\ w \in Seq(Symbol)
    BY <1>1 DEF c, AnyWord
  <2>2. /\ <<c>> \o w \in Seq(Symbol) /\ <<c>> \o w # <<>>
        /\ Head(<<c>> \o w) = c /\ Tail(<<c>> \o w) = w
    BY <2>1
  <2> QED
    BY <2>2 DEF c
<1> QED
  BY <1>1, <1>2 DEF Starts, AnyWord

LEMMA CommandParsed ==
  ASSUME NEW words \in Seq(AnyWord), NEW line, line = <<Privmsg>> \o words
  PROVE  /\ line \in Seq(AnyWord) /\ line # << <<>> >> /\ line # <<>>
         /\ ~Starts(Head(line), "@")
         /\ ParseMessage(line) = Message(<<>>, words)
<1>1. /\ line \in Seq(AnyWord) /\ line # <<>>
      /\ Head(line) = Privmsg /\ Tail(line) = words
  BY FirstWord, Characters
<1>2. line # << <<>> >>
  <2> DEFINE empty == << <<>> >>
  <2>1. Head(empty) = <<>>
    OBVIOUS
  <2> HIDE DEF empty
  <2>2. line # empty
    BY <1>1, <2>1, Characters
  <2> QED
    BY <2>2 DEF empty
<1>3. ~Starts(Head(line), "@") /\ ~Starts(Head(line), Colon)
  BY <1>1, Characters
<1> QED
  BY <1>1, <1>2, <1>3 DEF ParseMessage, Message

LEMMA SourceParsed ==
  ASSUME NEW words \in Seq(AnyWord), NEW name \in AnyWord, NEW line,
         line = << <<Colon>> \o name >> \o (<<Privmsg>> \o words)
  PROVE  /\ line \in Seq(AnyWord) /\ line # << <<>> >> /\ line # <<>>
         /\ ~Starts(Head(line), "@")
         /\ ParseMessage(line) = Message(name, words)
<1> DEFINE word == <<Colon>> \o name
           body == <<Privmsg>> \o words
<1>1. /\ word \in AnyWord /\ word # <<>> /\ Tail(word) = name
      /\ Starts(word, Colon) /\ ~Starts(word, "@")
  BY ColonInFront
<1>2. /\ body \in Seq(AnyWord) /\ body # <<>>
      /\ Head(body) = Privmsg /\ Tail(body) = words
  BY FirstWord, Characters
<1>3. line = <<word>> \o body
  OBVIOUS
<1> HIDE DEF word, body
<1>4. /\ line \in Seq(AnyWord) /\ line # <<>>
      /\ Head(line) = word /\ Tail(line) = body
  <2> DEFINE l == <<word>> \o body
  <2>1. l \in Seq(AnyWord) /\ l # <<>> /\ Head(l) = word /\ Tail(l) = body
    BY <1>1, <1>2, FirstWord
  <2>2. line = l
    BY <1>3
  <2> HIDE DEF l
  <2> QED
    BY <2>1, <2>2
<1>5. line # << <<>> >>
  <2>1. Head(<< <<>> >>) = <<>>
    OBVIOUS
  <2> QED
    BY <1>1, <1>4, <2>1
<1>6. ParseMessage(line) = [source |-> Tail(word), command |-> Head(body),
                            params |-> ParseParams(Tail(body))]
  BY <1>1, <1>2, <1>4, <1>5 DEF ParseMessage
<1> QED
  BY <1>1, <1>2, <1>4, <1>5, <1>6 DEF Message

(* Tags are read over. *)
LEMMA TagsParsed ==
  ASSUME NEW line \in Seq(AnyWord), line # <<>>, line # << <<>> >>,
         ~Starts(Head(line), "@")
  PROVE  ParseMessage(<<Tags>> \o line) = ParseMessage(line)
<1> DEFINE tagged == <<Tags>> \o line
<1>1. tagged # <<>> /\ Head(tagged) = Tags /\ Tail(tagged) = line
  BY FirstWord, Characters
<1>2. tagged # << <<>> >> /\ Starts(Head(tagged), "@")
  BY <1>1, Characters DEF Starts
<1> HIDE DEF tagged
<1>3. ParseMessage(tagged) = ParseMessage(line)
  BY <1>1, <1>2 DEF ParseMessage
<1> QED
  BY <1>3 DEF tagged

LEMMA Pair ==
  ASSUME NEW a \in AnyWord, NEW b \in AnyWord
  PROVE  <<a, b>> = <<a>> \o <<b>>
<1>1. Append(<<a>>, b) = <<a>> \o <<b>>
  <2>1. <<a>> \in Seq(AnyWord)
    OBVIOUS
  <2> QED
    BY <2>1, AppendIsConcat
<1> DEFINE t == Append(<<a>>, b)
           u == <<a, b>>
<1>2. t \in Seq(AnyWord) /\ Len(t) = 2 /\ t[1] = a /\ t[2] = b
  OBVIOUS
<1>3. u \in Seq(AnyWord) /\ Len(u) = 2 /\ u[1] = a /\ u[2] = b
  OBVIOUS
<1>4. \A i \in 1..2 : i = 1 \/ i = 2
  OBVIOUS
<1> HIDE DEF t, u
<1>5. t = u
  BY <1>2, <1>3, <1>4, SeqEqual
<1> QED
  BY <1>1, <1>5 DEF t, u

LEMMA SentParsed ==
  ASSUME NEW words \in Seq(AnyWord),
         NEW before \in {<<>>, <<Tags>>, <<Source>>, <<Tags, Source>>}
  PROVE  \E source : ParseMessage(before \o <<Privmsg>> \o words) = Message(source, words)
<1> DEFINE body == <<Privmsg>> \o words
           line == <<Source>> \o body
<1>1. /\ body \in Seq(AnyWord) /\ body # << <<>> >> /\ body # <<>>
      /\ ~Starts(Head(body), "@")
      /\ ParseMessage(body) = Message(<<>>, words)
  BY CommandParsed
<1>2. <<"s">> \in AnyWord /\ Source = <<Colon>> \o <<"s">> /\ Source \in AnyWord
  BY WireAssumption DEF Source, Colon, AnyWord
<1>3. /\ line \in Seq(AnyWord) /\ line # << <<>> >> /\ line # <<>>
      /\ ~Starts(Head(line), "@")
      /\ ParseMessage(line) = Message(<<"s">>, words)
  BY <1>2, SourceParsed
<1>4. Privmsg \in AnyWord /\ Tags \in AnyWord /\ <<Privmsg>> \in Seq(AnyWord)
  BY Characters
<1>5. CASE before = <<>>
  <2>1. before \o <<Privmsg>> = <<Privmsg>>
    BY <1>4, <1>5, ConcatEmptySeq
  <2> QED
    BY <1>1, <2>1
<1>6. CASE before = <<Tags>>
  <2>1. (before \o <<Privmsg>>) \o words = <<Tags>> \o body
    <3>1. <<Tags>> \in Seq(AnyWord)
      BY <1>4
    <3> QED
      BY <1>4, <1>6, <3>1, ConcatAssociative
  <2> QED
    BY <1>1, <2>1, TagsParsed
<1>7. CASE before = <<Source>>
  <2>1. (before \o <<Privmsg>>) \o words = line
    <3>1. <<Source>> \in Seq(AnyWord)
      BY <1>2
    <3> QED
      BY <1>4, <1>7, <3>1, ConcatAssociative
  <2> QED
    BY <1>3, <2>1
<1>8. CASE before = <<Tags, Source>>
  <2>1. <<Source>> \in Seq(AnyWord) /\ <<Tags>> \in Seq(AnyWord)
    BY <1>2, <1>4
  <2>2. before = <<Tags>> \o <<Source>>
    BY <1>2, <1>4, <1>8, Pair
  <2>3. (before \o <<Privmsg>>) \o words = <<Tags>> \o line
    <3>1. before \in Seq(AnyWord)
      BY <1>2, <1>4, <1>8
    <3>2. (before \o <<Privmsg>>) \o words = before \o body
      BY <1>4, <3>1, ConcatAssociative
    <3>3. before \o body = <<Tags>> \o line
      BY <1>1, <2>1, <2>2, ConcatAssociative
    <3> QED
      BY <3>2, <3>3
  <2> QED
    BY <1>3, <2>3, TagsParsed
<1> QED
  BY <1>5, <1>6, <1>7, <1>8

(* What is relayed: a word, and a text with a colon in front. *)
Relays(m, w, text) ==
  /\ w \in AnyWord /\ ~Starts(w, Colon) /\ text \in Text
  /\ m = [source |-> Prefix, command |-> Privmsg, params |-> << <<w>>, text >>]

WithColon(text) == [text EXCEPT ![1] = <<Colon>> \o @]

LEMMA ColonAdded ==
  ASSUME NEW text \in Text
  PROVE  /\ WithColon(text) \in Seq(AnyWord) /\ Len(WithColon(text)) = Len(text)
         /\ WithColon(text)[1] = <<Colon>> \o text[1]
         /\ \A i \in 2..Len(text) : WithColon(text)[i] = text[i]
<1> DEFINE first == <<Colon>> \o text[1]
           t == [text EXCEPT ![1] = first]
<1>1. text \in Seq(AnyWord) /\ Len(text) \in Nat \ {0} /\ text[1] \in AnyWord
  BY EmptySeq DEF Text
<1>2. first \in AnyWord
  BY <1>1, ColonInFront
<1>3. WithColon(text) = t
  BY DEF WithColon
<1>4. /\ t \in Seq(AnyWord) /\ Len(t) = Len(text)
      /\ \A j \in 1..Len(text) : t[j] = IF j = 1 THEN first ELSE text[j]
  <2>1. 1 \in 1..Len(text)
    BY <1>1
  <2> HIDE DEF first
  <2> QED
    BY <1>1, <1>2, <2>1, ExceptSeq
<1> HIDE DEF first, t
<1>5. 1 \in 1..Len(text) /\ \A i \in 2..Len(text) : i \in 1..Len(text) /\ i # 1
  BY <1>1
<1> QED
  BY <1>3, <1>4, <1>5 DEF first

LEMMA Formatted ==
  ASSUME NEW m, NEW w, NEW text, Relays(m, w, text)
  PROVE  ParseMessage(Format(m)) = Message(Prefix, <<w>> \o WithColon(text))
<1> DEFINE q == WithColon(text)
           word == <<Colon>> \o Prefix
           words == <<w>> \o q
<1>1. q \in Seq(AnyWord) /\ w \in AnyWord /\ text \in Text
  BY ColonAdded DEF Relays
<1>2. word \in AnyWord /\ Privmsg \in AnyWord /\ Prefix \in AnyWord
  BY Characters, ColonInFront
<1>3. /\ m.source = Prefix /\ m.command = Privmsg /\ m.params = << <<w>>, text >>
      /\ m.params # <<>>
  BY DEF Relays
<1>4. Last(m.params) = text
  <2>1. Len(<< <<w>>, text >>) = 2 /\ << <<w>>, text >>[2] = text
    OBVIOUS
  <2> QED
    BY <1>3, <2>1 DEF Last
<1>5. FlattenSeq(Front(m.params)) = <<w>>
  <2> DEFINE front == Front(m.params)
             pair == << <<w>>, text >>
  <2>1. front \in Seq(Seq(AnyWord)) /\ Len(front) = 1 /\ front[1] = <<w>>
    <3>1. /\ pair \in Seq(Seq(AnyWord)) /\ Len(pair) = 2 /\ pair[1] = <<w>>
      BY <1>1 DEF Text
    <3>2. front = SubSeq(pair, 1, 1)
      BY <1>3, <3>1 DEF Front
    <3> HIDE DEF pair
    <3>3. \A i \in 1..1 : pair[i] \in Seq(AnyWord)
      BY <3>1
    <3>4. /\ SubSeq(pair, 1, 1) \in Seq(Seq(AnyWord)) /\ Len(SubSeq(pair, 1, 1)) = 1
          /\ SubSeq(pair, 1, 1)[1] = pair[1]
      BY <3>1, <3>3
    <3> QED
      BY <3>1, <3>2, <3>4
  <2> HIDE DEF front
  <2> DEFINE flatten == [i \in 1..Len(front) |-> front[i]]
  <2>2. FlattenSeq(front) = front[1]
    <3>1. Len(front) # 0
      BY <2>1
    <3>2. FlattenSeq(front) =
            LET f[i \in 1..1] == IF i = 1 THEN front[i] ELSE f[i - 1] \o front[i]
            IN  f[1]
      BY <2>1, <3>1 DEF FlattenSeq
    <3> DEFINE f[i \in 1..1] == IF i = 1 THEN front[i] ELSE f[i - 1] \o front[i]
               g == [i \in 1..1 |-> front[i]]
    <3>3. g = [i \in 1..1 |-> IF i = 1 THEN front[i] ELSE g[i - 1] \o front[i]]
      OBVIOUS
    <3>4. f = [i \in 1..1 |-> IF i = 1 THEN front[i] ELSE f[i - 1] \o front[i]]
      BY <3>3
    <3> HIDE DEF f
    <3>5. f[1] = front[1]
      BY <3>4
    <3> QED
      BY <3>2, <3>5 DEF f
  <2> QED
    BY <2>1, <2>2 DEF front
<1>6. Format(m) = <<word, Privmsg>> \o (<<w>> \o q)
  BY <1>3, <1>4, <1>5 DEF Format, WithColon
<1> HIDE DEF q, word
<1>7. words \in Seq(AnyWord)
  BY <1>1, FirstWord
<1> HIDE DEF words
<1>8. <<word, Privmsg>> \o words = <<word>> \o (<<Privmsg>> \o words)
  <2>1. <<word>> \in Seq(AnyWord) /\ <<Privmsg>> \in Seq(AnyWord)
    BY <1>2
  <2>2. <<word, Privmsg>> = <<word>> \o <<Privmsg>>
    BY <1>2, Pair
  <2> QED
    BY <1>7, <2>1, <2>2, ConcatAssociative
<1>9. ParseMessage(<<word>> \o (<<Privmsg>> \o words)) = Message(Prefix, words)
  BY <1>2, <1>7, SourceParsed DEF word
<1> QED
  BY <1>6, <1>8, <1>9 DEF words, q

(* It is read as it was written, or is shorter. *)
LEMMA ReadAsWritten ==
  ASSUME NEW m, NEW w, NEW text, Relays(m, w, text)
  PROVE  ParseParams(<<w>> \o WithColon(text)) = << <<w>>, text >>
           <=> \A i \in 2..Len(text) : ~Starts(text[i], Colon)
<1> DEFINE q == WithColon(text)
           words == <<w>> \o q
           n == Len(words)
           k == Len(text)
           p == ParseParams(words)
<1>1. w \in AnyWord /\ ~Starts(w, Colon) /\ text \in Text
  BY DEF Relays
<1>2. /\ q \in Seq(AnyWord) /\ Len(q) = k
      /\ q[1] = <<Colon>> \o text[1]
      /\ \A i \in 2..k : q[i] = text[i]
  BY <1>1, ColonAdded
<1>3. /\ text \in Seq(AnyWord) /\ k \in Nat \ {0} /\ text[1] \in AnyWord
  BY <1>1, EmptySeq DEF Text
<1> HIDE DEF q
<1>4. /\ words \in Seq(AnyWord) /\ n = 1 + k /\ words[1] = w
      /\ words[2] = <<Colon>> \o text[1]
      /\ \A j \in 2..k : words[2 + j - 1] = text[j]
  <2>1. /\ words \in Seq(AnyWord) /\ n = 1 + k
        /\ Head(words) = w /\ Tail(words) = q
    BY <1>1, <1>2, FirstWord
  <2> HIDE DEF words
  <2>2. \A i \in 1..k : words[i + 1] = q[i]
    <3>1. Len(Tail(words)) = n - 1 /\ \A i \in 1..(n - 1) : Tail(words)[i] = words[i + 1]
      BY <1>3, <2>1, HeadTailProperties
    <3> HIDE DEF n, k
    <3>2. n - 1 = k
      BY <1>3, <2>1
    <3> QED
      BY <2>1, <3>1, <3>2
  <2>3. words[1] = w
    BY <1>3, <2>1
  <2>4. words[2] = q[1]
    <3>1. 1 \in 1..k /\ 1 + 1 = 2
      BY <1>3
    <3> QED
      BY <2>2, <3>1
  <2>5. ASSUME NEW j \in 2..k PROVE words[2 + j - 1] = text[j]
    <3>1. j \in 1..k /\ 2 + j - 1 = j + 1
      OBVIOUS
    <3> QED
      BY <1>2, <2>2, <3>1
  <2> QED
    BY <1>2, <2>1, <2>3, <2>4, <2>5
<1> HIDE DEF words
<1>5. Starts(words[2], Colon) /\ Tail(words[2]) = text[1]
  BY <1>3, <1>4, ColonInFront
<1>6. SplitsAt(words, 2)
  <2>1. 2 \in 1..(n + 1) /\ \A j \in 1..(2 - 1) : j = 1
    BY <1>3, <1>4
  <2> QED
    BY <1>1, <1>4, <1>5, <2>1 DEF SplitsAt
<1>7. OneColon(words, 2, n) <=> \A i \in 2..k : ~Starts(text[i], Colon)
  <2>1. ASSUME NEW i \in 2..k PROVE i + 1 \in 3..n /\ words[i + 1] = text[i]
    <3>1. 2 + i - 1 = i + 1 /\ i + 1 \in 3..n
      BY <1>3, <1>4
    <3> QED
      BY <1>4, <3>1
  <2>2. \A j \in 3..n : j - 1 \in 2..k /\ (j - 1) + 1 = j
    BY <1>3, <1>4
  <2>3. 2 + 1 = 3
    OBVIOUS
  <2> HIDE DEF n, k
  <2> QED
    BY <2>1, <2>2, <2>3 DEF OneColon
<1>8. 2 <= n /\ n - 2 + 1 = k /\ n - 2 < k /\ n \in Nat
  BY <1>3, <1>4
<1>9. /\ p \in Seq(Text) /\ Len(p) = 2 /\ p[2] \in Text /\ p[1] = <<w>>
      /\ OneColon(words, 2, n) => Rest(p[2], words, 2, n)
      /\ ~OneColon(words, 2, n) => Len(p[2]) <= n - 2
  <2>1. /\ p \in Seq(Text) /\ Len(p) = 2 /\ p[2] \in Text
        /\ \A j \in 1..(2 - 1) : p[j] = <<words[j]>>
        /\ OneColon(words, 2, n) => Rest(p[2], words, 2, n)
        /\ ~OneColon(words, 2, n) => Len(p[2]) <= n - 2
    BY <1>4, <1>6, <1>8, ParamsRead
  <2>2. 1 \in 1..(2 - 1)
    OBVIOUS
  <2> QED
    BY <1>4, <2>1, <2>2
<1>10. Rest(text, words, 2, n)
  BY <1>4, <1>5, <1>8 DEF Rest
<1> HIDE DEF p, n, k
<1>11. p = << <<w>>, text >> <=> p[2] = text
  <2> DEFINE pair == << <<w>>, text >>
  <2>1. pair \in Seq(Text) /\ Len(pair) = 2 /\ pair[1] = <<w>> /\ pair[2] = text
    BY <1>1, TextType
  <2>2. \A i \in 1..2 : i = 1 \/ i = 2
    OBVIOUS
  <2> HIDE DEF pair
  <2>3. ASSUME p[2] = text PROVE p = pair
    BY <1>9, <2>1, <2>2, <2>3, SeqEqual
  <2>4. ASSUME p = pair PROVE p[2] = text
    BY <2>1, <2>4
  <2> QED
    BY <2>3, <2>4 DEF pair
<1>12. CASE OneColon(words, 2, n)
  <2>1. p[2] = text
    <3>1. Rest(p[2], words, 2, n) /\ p[2] \in Text /\ 2 \in Nat
      BY <1>9, <1>12
    <3> QED
      BY <1>1, <1>8, <1>10, <3>1, SameRest
  <2> QED
    BY <1>7, <1>11, <1>12, <2>1 DEF p, words, q, k
<1>13. CASE ~OneColon(words, 2, n)
  <2>1. p[2] # text
    <3>1. Len(p[2]) <= n - 2 /\ Len(p[2]) \in Nat
      BY <1>9, <1>13 DEF Text
    <3>2. Len(p[2]) < k
      BY <1>3, <1>8, <3>1 DEF k
    <3>3. Len(p[2]) # Len(text)
      BY <1>3, <3>1, <3>2 DEF k
    <3> QED
      BY <3>3
  <2> QED
    BY <1>7, <1>11, <1>13, <2>1 DEF p, words, q, k
<1> QED
  BY <1>12, <1>13

WireTypeOK ==
  /\ said \in Seq(AnyWord)
  /\ relayed = NoMessage =>
       \E before \in {<<>>, <<Tags>>, <<Source>>, <<Tags, Source>>} :
         wire = before \o <<Privmsg>> \o said
  /\ relayed # NoMessage =>
       wire = Format(relayed) /\ \E w, text : Relays(relayed, w, text)
  /\ msg # NoMessage => msg = ParseMessage(wire)

(* A message is always the command with the parameters of some words. *)
LEMMA MessageParsed ==
  ASSUME WireTypeOK
  PROVE  \E source : \E words \in Seq(AnyWord) :
           /\ ParseMessage(wire) = Message(source, words)
           /\ relayed = NoMessage => words = said
<1>1. CASE relayed = NoMessage
  BY <1>1, SentParsed DEF WireTypeOK
<1>2. CASE relayed # NoMessage
  <2>1. PICK w, text : Relays(relayed, w, text)
    BY <1>2 DEF WireTypeOK
  <2>2. wire = Format(relayed)
    BY <1>2 DEF WireTypeOK
  <2>3. <<w>> \o WithColon(text) \in Seq(AnyWord)
    <3>1. w \in AnyWord /\ text \in Text
      BY <2>1 DEF Relays
    <3>2. WithColon(text) \in Seq(AnyWord)
      BY <3>1, ColonAdded
    <3> QED
      BY <3>1, <3>2, FirstWord
  <2> QED
    BY <1>2, <2>1, <2>2, <2>3, Formatted
<1> QED
  BY <1>1, <1>2

LEMMA WireTypeInductive ==
  /\ WireInit => WireTypeOK
  /\ WireTypeOK /\ [WireNext]_wire_vars => WireTypeOK'
<1>1. ASSUME WireInit PROVE WireTypeOK
  <2>1. PICK n \in 0..MaxWords : said \in [1..n -> Word]
    BY <1>1 DEF WireInit
  <2>2. n \in Nat
    BY WireAssumption
  <2>3. said \in [1..n -> AnyWord]
    BY <2>1, WireAssumption DEF AnyWord
  <2>4. said \in Seq(AnyWord)
    BY <2>2, <2>3, SeqDef
  <2> QED
    BY <1>1, <2>4 DEF WireInit, WireTypeOK
<1>2. ASSUME WireTypeOK, Receive PROVE WireTypeOK'
  BY <1>2 DEF Receive, WireTypeOK
<1>3. ASSUME WireTypeOK, Relay PROVE WireTypeOK'
  <2> DEFINE m == [source |-> Prefix, command |-> msg.command,
                   params |-> SubSeq(msg.params, 1, 2)]
  <2>1. /\ msg # NoMessage /\ Len(msg.params) >= 2
        /\ wire' = Format(m) /\ relayed' = m
        /\ msg' = NoMessage /\ said' = said
    BY <1>3 DEF Relay
  <2>2. PICK source : \E words \in Seq(AnyWord) : msg = Message(source, words)
    BY <1>3, <2>1, MessageParsed DEF WireTypeOK
  <2> PICK words \in Seq(AnyWord) : msg = Message(source, words)
    BY <2>2
  <2> DEFINE p == ParseParams(words)
  <2>3. msg.command = Privmsg /\ msg.params = p
    BY DEF Message
  <2>4. PICK f : SplitsAt(words, f)
    BY Splits
  <2>5. p \in Seq(Text) /\ p[1] = <<words[1]>> /\ words[1] \in AnyWord
          /\ ~Starts(words[1], Colon)
    <3>1. /\ f = Len(words) + 1 => Singles(p, words, Len(words))
          /\ f <= Len(words) => Len(p) = f /\ \A j \in 1..(f - 1) : p[j] = <<words[j]>>
          /\ p \in Seq(Text)
      BY <2>4, ParamsRead
    <3>2. f \in 1..(Len(words) + 1) /\ Len(words) \in Nat /\ Len(p) >= 2
      BY <2>1, <2>3, <2>4 DEF SplitsAt
    <3> HIDE DEF p
    <3>3. 1 \in 1..(f - 1) /\ 1 \in 1..Len(words) /\ p[1] = <<words[1]>>
      BY <3>1, <3>2 DEF Singles
    <3> QED
      BY <2>4, <3>1, <3>3 DEF SplitsAt
  <2>6. SubSeq(p, 1, 2) = << <<words[1]>>, p[2] >> /\ p[2] \in Text
    <3> HIDE DEF p
    <3>1. p[1] \in Text /\ p[2] \in Text
      <4>1. Len(p) \in Nat /\ Len(p) >= 2
        BY <2>1, <2>3, <2>5
      <4>2. 1 \in 1..Len(p) /\ 2 \in 1..Len(p)
        BY <4>1
      <4> QED
        BY <2>5, <4>2
    <3>2. SubSeq(p, 1, 2) = <<p[1], p[2]>>
      <4> DEFINE t == SubSeq(p, 1, 2)
                 u == <<p[1], p[2]>>
      <4>1. \A i \in 1..2 : i = 1 \/ i = 2
        OBVIOUS
      <4>2. t \in Seq(Text) /\ Len(t) = 2 /\ t[1] = p[1] /\ t[2] = p[2]
        <5>1. \A i \in 1..2 : p[i] \in Text
          BY <3>1, <4>1
        <5>2. /\ t \in Seq(Text) /\ Len(t) = IF 1 <= 2 THEN 2 - 1 + 1 ELSE 0
              /\ \A i \in 1..(2 - 1 + 1) : t[i] = p[1 + i - 1]
          BY <5>1, SubSeqProperties
        <5> HIDE DEF t
        <5>3. t[1] = p[1] /\ t[2] = p[2]
          <6>1. 1 \in 1..(2 - 1 + 1) /\ 2 \in 1..(2 - 1 + 1) /\ 1 + 1 - 1 = 1 /\ 1 + 2 - 1 = 2
            OBVIOUS
          <6> QED
            BY <5>2, <6>1
        <5> QED
          BY <5>2, <5>3
      <4>3. u \in Seq(Text) /\ Len(u) = 2 /\ u[1] = p[1] /\ u[2] = p[2]
        BY <3>1
      <4> HIDE DEF t, u
      <4>4. t = u
        BY <4>1, <4>2, <4>3, SeqEqual
      <4> QED
        BY <4>4 DEF t, u
    <3> QED
      BY <2>5, <3>1, <3>2
  <2>7. Relays(m, words[1], p[2])
    BY <2>3, <2>5, <2>6 DEF Relays
  <2>8. m # NoMessage
    <3>1. m.source \in AnyWord /\ m.command \in AnyWord /\ m.params \in Seq(Seq(AnyWord))
      <4>1. << <<words[1]>>, p[2] >> \in Seq(Seq(AnyWord))
        BY <2>5, <2>6 DEF Text
      <4> QED
        BY <2>3, <2>6, <4>1, Characters
    <3>2. m \in [source : AnyWord, command : AnyWord, params : Seq(Seq(AnyWord))]
      BY <3>1
    <3> QED
      BY <3>2, WireAssumption DEF AnyWord
  <2> HIDE DEF m
  <2> QED
    BY <1>3, <2>1, <2>7, <2>8 DEF WireTypeOK
<1>4. ASSUME WireTypeOK, UNCHANGED wire_vars PROVE WireTypeOK'
  BY <1>4 DEF WireTypeOK, wire_vars
<1> QED
  BY <1>1, <1>2, <1>3, <1>4 DEF WireNext

-----------------------------------------------------------------------------
(* Theorems *)

ModesTypeOK == channel \in ChannelState /\ user_modes \in SUBSET UserFlags

(* The modes and parameters that a channel and a client have are those     *)
(* that exist, after any number of MODEs of any length.                    *)
THEOREM ModesTypeCorrect == Spec => []ModesTypeOK
<1>1. Init => ModesTypeOK
  BY ModesAssumption DEF Init, ModesTypeOK, NewChannel, ChannelState, Letter
<1>2. ModesTypeOK /\ [Next]_vars => ModesTypeOK'
  <2> SUFFICES ASSUME ModesTypeOK, [Next]_vars PROVE ModesTypeOK'
    OBVIOUS
  <2>1. ASSUME NEW nick \in Param, FirstJoin(nick) PROVE ModesTypeOK'
    <3>1. SetMode(channel, "o", nick, TRUE) \in ChannelState
      BY DEF ModesTypeOK, SetMode, ChannelState, Letter
    <3> QED
      BY <2>1, <3>1 DEF FirstJoin, ModesTypeOK
  <2>2. ASSUME NEW chars \in UpTo(UserChar, MaxChars), UserMode(chars)
        PROVE  ModesTypeOK'
    <3> DEFINE s == ReadUserChars([modes |-> user_modes, adding |-> TRUE],
                                  chars)[Len(chars)]
    <3>1. s \in UserReading
      BY WordOf, UserAppliedAfter, ModesAssumption DEF ModesTypeOK
    <3>2. user_modes' = s.modes /\ channel' = channel
      BY <2>2 DEF UserMode
    <3> HIDE DEF s
    <3> QED
      BY <3>1, <3>2 DEF ModesTypeOK, UserReading
  <2>3. ASSUME NEW chars \in UpTo(Char, MaxChars), NEW params \in UpTo(Param, MaxParams),
               ChannelMode(chars, params)
        PROVE  ModesTypeOK'
    <3>1. Apply(channel, chars, params) \in Reading
      BY WordOf, AppliedAfter, ModesAssumption DEF ModesTypeOK
    <3>2. channel' = Apply(channel, chars, params).ch /\ user_modes' = user_modes
      BY <2>3 DEF ChannelMode
    <3> QED
      BY <3>1, <3>2 DEF ModesTypeOK, Reading
  <2>4. CASE UNCHANGED vars
    BY <2>4 DEF vars, ModesTypeOK
  <2> QED
    BY <2>1, <2>2, <2>3, <2>4 DEF Next
<1> QED
  BY <1>1, <1>2, PTL DEF Spec

(* No MODE makes an operator or takes one away, however long it is and     *)
(* whatever parameters it has: only the JOIN of an empty channel does.     *)
THEOREM OperatorsByJoin == Spec => OpOnlyByJoin
<1> DEFINE Step == asked' # NoCommand =>
                     \A nick \in Param : HasMode(channel, "o", nick)
                                           <=> HasMode(channel', "o", nick)
<1>1. ModesTypeOK /\ [Next]_vars => [Step]_vars
  <2> SUFFICES ASSUME ModesTypeOK, Next PROVE Step
    OBVIOUS
  <2>1. ASSUME NEW chars \in UpTo(Char, MaxChars), NEW params \in UpTo(Param, MaxParams),
               ChannelMode(chars, params)
        PROVE  Step
    <3>1. After(Apply(channel, chars, params), channel, chars, params, Len(chars))
      BY WordOf, AppliedAfter, ModesAssumption DEF ModesTypeOK
    <3>2. channel'.params["o"] = channel.params["o"]
      BY <2>1, <3>1 DEF ChannelMode, After
    <3> QED
      BY <3>2 DEF HasMode
  <2>2. CASE \E nick \in Param : FirstJoin(nick)
    BY <2>2 DEF FirstJoin
  <2>3. CASE \E chars \in UpTo(UserChar, MaxChars) : UserMode(chars)
    BY <2>3 DEF UserMode, HasMode
  <2> QED
    BY <2>1, <2>2, <2>3 DEF Next
<1> QED
  BY <1>1, ModesTypeCorrect, PTL DEF Spec, OpOnlyByJoin

(* After a MODE of any length each mode is as the last sign before its     *)
(* last occurrence has it, and the key is the parameter of its own.        *)
THEOREM LastSignDecides == Spec => []LastSignWins
<1>1. Init => LastSignWins
  BY DEF Init, LastSignWins
<1>2. LastSignWins /\ ModesTypeOK /\ [Next]_vars => LastSignWins'
  <2> SUFFICES ASSUME LastSignWins, ModesTypeOK, [Next]_vars PROVE LastSignWins'
    OBVIOUS
  <2>1. CASE \E nick \in Param : FirstJoin(nick)
    BY <2>1 DEF FirstJoin, LastSignWins
  <2>2. ASSUME NEW chars \in UpTo(UserChar, MaxChars), UserMode(chars)
        PROVE  LastSignWins'
    <3>1. \A c \in UserFlags :
            ModeAfter(user_modes', user_modes, chars, 0, c, Len(chars))
      BY <2>2, WordOf, UserAppliedAfter, ModesAssumption DEF ModesTypeOK, UserMode
    <3>2. ASSUME NEW c \in UserFlags
          PROVE  c \in user_modes' <=>
                   IF Deciding(chars, c, 0) = 0 THEN c \in user_modes
                   ELSE Adds(chars, Deciding(chars, c, 0))
      BY <3>1, WordOf, DecidedByLast, ModesAssumption
    <3>3. asked'.of = "user" /\ asked'.chars = chars /\ asked'.found = user_modes
      BY <2>2 DEF UserMode
    <3> QED
      BY <3>2, <3>3 DEF LastSignWins
  <2>3. ASSUME NEW chars \in UpTo(Char, MaxChars), NEW params \in UpTo(Param, MaxParams),
               ChannelMode(chars, params)
        PROVE  LastSignWins'
    <3>1. After(Apply(channel, chars, params), channel, chars, params, Len(chars))
      BY WordOf, AppliedAfter, ModesAssumption DEF ModesTypeOK
    <3>2. channel' = Apply(channel, chars, params).ch
      BY <2>3 DEF ChannelMode
    <3>3. ASSUME NEW c \in Flags \cup {"k"}
          PROVE  c \in channel'.modes <=>
                   IF Deciding(chars, c, Len(params)) = 0 THEN c \in channel.modes
                   ELSE Adds(chars, Deciding(chars, c, Len(params)))
      <4>1. ModeAfter(channel'.modes, channel.modes, chars, Len(params), c, Len(chars))
        BY <3>1, <3>2 DEF After
      <4> QED
        BY <4>1, WordOf, DecidedByLast, ModesAssumption
    <3> DEFINE i == Deciding(chars, "k", Len(params))
    <3>4. channel'.params["k"] = IF i = 0 THEN channel.params["k"]
                                 ELSE IF Adds(chars, i) THEN params[KeyNo(chars, i)]
                                 ELSE NoParam
      <4>1. KeyAfter(channel'.params["k"], channel.params["k"], chars, params,
                     Len(chars))
        BY <3>1, <3>2 DEF After
      <4> QED
        BY <4>1, WordOf, KeyDecidedByLast, ModesAssumption
    <3>5. /\ asked'.of = "channel" /\ asked'.chars = chars /\ asked'.params = params
          /\ asked'.found = channel
      BY <2>3 DEF ChannelMode
    <3> QED
      BY <3>3, <3>4, <3>5 DEF LastSignWins
  <2>4. CASE UNCHANGED vars
    BY <2>4 DEF vars, LastSignWins
  <2> QED
    BY <2>1, <2>2, <2>3, <2>4 DEF Next
<1> QED
  BY <1>1, <1>2, ModesTypeCorrect, PTL DEF Spec

(* The line that a MODE of any length composes for its broadcast makes,    *)
(* read by the rules of MODE, the same changes as the MODE, and leaves no  *)
(* parameter over.                                                         *)
THEOREM ComposedLinesReplay == Spec => []ComposedLineReplays
<1>1. Init => ComposedLineReplays
  BY DEF Init, ComposedLineReplays
<1>2. ComposedLineReplays /\ ModesTypeOK /\ [Next]_vars => ComposedLineReplays'
  <2> SUFFICES ASSUME ComposedLineReplays, ModesTypeOK, [Next]_vars
               PROVE  ComposedLineReplays'
    OBVIOUS
  <2>1. CASE \E nick \in Param : FirstJoin(nick)
    BY <2>1 DEF FirstJoin, ComposedLineReplays
  <2>2. CASE \E chars \in UpTo(UserChar, MaxChars) : UserMode(chars)
    BY <2>2 DEF UserMode, ComposedLineReplays
  <2>3. ASSUME NEW chars \in UpTo(Char, MaxChars), NEW params \in UpTo(Param, MaxParams),
               ChannelMode(chars, params)
        PROVE  ComposedLineReplays'
    <3> DEFINE s == Apply(channel, chars, params)
               line == Compose(s.changes)
               t == Apply(channel, line.chars, line.params)
    <3>1. s \in Reading /\ Recomposed(s, channel)
      BY WordOf, AppliedAfter, AppliedRecomposed, ModesAssumption DEF ModesTypeOK
    <3>2. /\ channel' = s.ch /\ asked'.found = channel
          /\ composed' = IF s.changes = <<>> THEN NoCommand ELSE line
      BY <2>3 DEF ChannelMode
    <3> HIDE DEF s
    <3>3. line \in Line
      <4>1. s.changes \in Seq(ChangeMade)
        BY <3>1 DEF Reading
      <4>2. Len(s.changes) \in 0..Len(s.changes)
        BY <4>1
      <4> QED
        BY <4>1, <4>2, ChangesComposed DEF Compose
    <3>4. line.params \o <<>> = line.params /\ <<>> \in Seq(Param)
      BY <3>3 DEF Line
    <3>5. t = ReadAll(Begin(channel, line.params \o <<>>), line.chars)
      BY <3>4 DEF Apply, ReadAll, Begin
    <3>6. t.ch = s.ch /\ t.left = <<>> /\ t.changes = s.changes
      <4>1. Has(ReadAll(Begin(channel, line.params \o <<>>), line.chars),
                s.ch, LastAdds(s.changes), <<>>, s.changes)
        BY <3>1, <3>4 DEF Recomposed
      <4> HIDE DEF t, line
      <4> QED
        BY <3>5, <4>1 DEF Has
    <3> QED
      BY <3>2, <3>6 DEF ComposedLineReplays
  <2>4. CASE UNCHANGED vars
    BY <2>4 DEF vars, ComposedLineReplays
  <2> QED
    BY <2>1, <2>2, <2>3, <2>4 DEF Next
<1> QED
  BY <1>1, <1>2, ModesTypeCorrect, PTL DEF Spec

MaskTypeOK ==
  /\ mask \in Seq(MaskChar) /\ host \in Seq(HostChar)
  /\ answer # "none" => (answer = "match" <=> mask_match(host, mask))

(* A mask and a host of any length: the answer is that of the wildcards    *)
(* when there is no dot in the mask, and with dots no host that the mask   *)
(* names is missed.                                                        *)
THEOREM MasksMatch == MaskSpec => []MatchesWildcards
<1>1. MaskInit => MaskTypeOK
  <2> SUFFICES ASSUME MaskInit PROVE MaskTypeOK
    OBVIOUS
  <2>1. mask \in UpTo(MaskChar, MaxLength) /\ host \in UpTo(HostChar, MaxLength)
    BY DEF MaskInit, UpTo
  <2>2. mask \in Seq(MaskChar) /\ host \in Seq(HostChar)
    BY <2>1, WordOf, MaskAssumption
  <2> QED
    BY <2>2 DEF MaskInit, MaskTypeOK
<1>2. MaskTypeOK /\ [Match]_mask_vars => MaskTypeOK'
  <2> SUFFICES ASSUME MaskTypeOK, [Match]_mask_vars PROVE MaskTypeOK'
    OBVIOUS
  <2>1. CASE Match
    <3>1. mask' = mask /\ host' = host
          /\ answer' = IF mask_match(host, mask) THEN "match" ELSE "no match"
      BY <2>1 DEF Match
    <3>2. mask_match(host, mask)' <=> mask_match(host, mask)
      BY <3>1
    <3> QED
      BY <3>1, <3>2 DEF MaskTypeOK
  <2>2. CASE UNCHANGED mask_vars
    BY <2>2 DEF MaskTypeOK, mask_vars
  <2> QED
    BY <2>1, <2>2
<1>3. MaskTypeOK => MatchesWildcards
  BY WildcardsMatched DEF MaskTypeOK, MatchesWildcards
<1> QED
  BY <1>1, <1>2, <1>3, PTL DEF MaskSpec

(* A client's line of any length is understood as it means it exactly when *)
(* at most one of its words starts with a colon.                           *)
THEOREM UnderstoodAsMeant == WireSpec => []ParsedAsMeant
<1>1. ASSUME WireTypeOK PROVE ParsedAsMeant
  <2> SUFFICES ASSUME msg # NoMessage, relayed = NoMessage
               PROVE  msg.params = Meant(said) <=>
                        Cardinality({i \in DOMAIN said : Starts(said[i], Colon)}) <= 1
    BY DEF ParsedAsMeant
  <2>1. PICK source : msg = Message(source, said)
    BY <1>1, MessageParsed DEF WireTypeOK
  <2>2. msg.params = ParseParams(said) /\ said \in Seq(AnyWord)
    BY <1>1, <2>1 DEF Message, WireTypeOK
  <2>3. PICK f : SplitsAt(said, f)
    BY <2>2, Splits
  <2> QED
    BY <2>2, <2>3, AsMeant, AtMostOne
<1> QED
  BY <1>1, WireTypeInductive, PTL DEF WireSpec

(* What is relayed is parsed at the other end as it was sent, whatever the *)
(* number of hops and words, exactly when no later word of the text starts *)
(* with a colon.                                                           *)
THEOREM RelayedAsSent == WireSpec => []RelayKept
<1>1. ASSUME WireTypeOK PROVE RelayKept
  <2> SUFFICES ASSUME msg # NoMessage, relayed # NoMessage
               PROVE  msg = relayed <=>
                        \A text \in Range(relayed.params) :
                          \A i \in 2..Len(text) : ~Starts(text[i], Colon)
    BY DEF RelayKept
  <2>1. PICK w, t : Relays(relayed, w, t)
    BY <1>1 DEF WireTypeOK
  <2> DEFINE p == ParseParams(<<w>> \o WithColon(t))
  <2>2. msg = [source |-> Prefix, command |-> Privmsg, params |-> p]
    BY <1>1, <2>1, Formatted DEF WireTypeOK, Message
  <2>3. relayed = [source |-> Prefix, command |-> Privmsg, params |-> << <<w>>, t >>]
    BY <2>1 DEF Relays
  <2>4. p = << <<w>>, t >> <=> \A i \in 2..Len(t) : ~Starts(t[i], Colon)
    BY <2>1, ReadAsWritten
  <2> HIDE DEF p
  <2>5. msg = relayed <=> p = << <<w>>, t >>
    BY <2>2, <2>3
  <2>6. Range(relayed.params) = {<<w>>, t}
    <3>1. relayed.params = << <<w>>, t >>
      BY <2>3
    <3> QED
      BY <3>1 DEF Range
  <2>7. \A i \in 2..Len(<<w>>) : ~Starts(<<w>>[i], Colon)
    OBVIOUS
  <2> QED
    BY <2>4, <2>5, <2>6, <2>7
<1> QED
  BY <1>1, WireTypeInductive, PTL DEF WireSpec
=============================================================================
