----------------------------- MODULE MaskMatch ------------------------------
(***************************************************************************)
(* Server::mask_match (src/src/server/mask.rs), which is_host_klined() and *)
(* has_oline() call: an IRC mask is turned into a regular expression by    *)
(* replacing characters, and the host is matched against it.  The program  *)
(* itself calls neither of the two, the tests do.                          *)
(*                                                                         *)
(* Masks and hosts are sequences of characters: the wildcards, a dot and a *)
(* parenthesis, which mean something in a regular expression and are not   *)
(* escaped, a bracket, which is, and letters.  Other characters that mean  *)
(* something there (|, +, ^ ...) are left out.                             *)
(***************************************************************************)
EXTENDS Naturals, SequencesExt

CONSTANTS
  Plain,      \* characters that mean themselves everywhere
  MaxLength   \* the length of masks and hosts: a bound for TLC

ASSUME MaskAssumption ==
  /\ Plain \cap {"*", "?", ".", "[", "(", "any", "repeat any"} = {}
  /\ MaxLength \in Nat

VARIABLES mask, host, answer

mask_vars == <<mask, host, answer>>

MaskChar == Plain \cup {"*", "?", ".", "[", "("}
HostChar == Plain \cup {".", "[", "("}

-----------------------------------------------------------------------------
\* Mutant: a single-character wildcard is not translated.
ItemKeepsQuestionMark(c) ==
  CASE c = "*" -> "repeat any"
    [] c = "." -> "any"
    [] OTHER -> c

(* What each character of a mask becomes: an item that repeats any         *)
(* character, that is any character, or that is one character.  Brackets   *)
(* are escaped; a dot is left as it is, and so is a parenthesis.           *)
Item(c) ==
  CASE c = "*" -> "repeat any"
    [] c \in {"?", "."} -> "any"
    [] OTHER -> c

pattern(m) == [i \in DOMAIN m |-> Item(m[i])]

(* An item stands for the characters of the text from j + 1 to k. *)
StandsFor(item, text, j, k) ==
  IF item = "repeat any" THEN j <= k
  ELSE k = j + 1 /\ item \in {"any", text[k]}

(* The regex crate reads items and text once, with every way to read them  *)
(* at the same time: how much of the text the first i items can stand for. *)
Reached(items, text) ==
  LET reached[i \in 0..Len(items)] ==
        IF i = 0 THEN {0}
        ELSE {k \in 0..Len(text) :
                \E j \in reached[i - 1] : StandsFor(items[i], text, j, k)}
  IN  reached

IsMatch(items, text) == Len(text) \in Reached(items, text)[Len(items)]

(* An expression that does not parse, as with an open parenthesis, matches *)
(* nothing.                                                                *)
mask_match(h, m) == ~Contains(m, "(") /\ IsMatch(pattern(m), h)

-----------------------------------------------------------------------------
MaskInit ==
  /\ mask \in UNION {[1..n -> MaskChar] : n \in 0..MaxLength}
  /\ host \in UNION {[1..n -> HostChar] : n \in 0..MaxLength}
  /\ answer = "none"

Match ==
  /\ answer = "none"
  /\ answer' = IF mask_match(host, mask) THEN "match" ELSE "no match"
  /\ UNCHANGED <<mask, host>>

MaskSpec == MaskInit /\ [][Match]_mask_vars

-----------------------------------------------------------------------------
(* The mask as IRC defines it: * stands for any characters, ? for one, and *)
(* every other character for itself.  Some choice of how much each         *)
(* character of the mask stands for makes up the host.                     *)
GlobMatch(h, m) ==
  \E ends \in [0..Len(m) -> 0..Len(h)] :
    /\ ends[0] = 0 /\ ends[Len(m)] = Len(h)
    /\ \A i \in 1..Len(m) :
         IF m[i] = "*" THEN ends[i - 1] <= ends[i]
         ELSE /\ ends[i] = ends[i - 1] + 1
              /\ m[i] \in {"?", h[ends[i]]}

(* Without a dot or a parenthesis in the mask the answer is that of the    *)
(* wildcards; with a dot no host that the mask names is missed.            *)
MatchesWildcards ==
  answer # "none" /\ ~Contains(mask, "(") =>
    /\ GlobMatch(host, mask) => answer = "match"
    /\ ~Contains(mask, ".") /\ answer = "match" => GlobMatch(host, mask)
=============================================================================
