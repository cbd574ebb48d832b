--------------------------- MODULE AgentDiagnostics ---------------------------
(***************************************************************************)
(* error_json of agent/diagnostics.rs: an error as JSON within max_bytes.   *)
(*                                                                         *)
(* A message is a sequence of runs of one character, of which only its      *)
(* class counts.  What is fixed for a category (its name, the next step and *)
(* the JSON around them) is a number of bytes, as is the error class.       *)
(***************************************************************************)
EXTENDS Integers, Sequences

Runs == [char : {"plain", "quote", "control", "wide"}, times : Nat]

\* What a character takes in UTF-8, and in a JSON string.
Utf8(char) == IF char = "wide" THEN 3 ELSE 1
JsonOf(char) == CASE char = "wide" -> 3 [] char = "quote" -> 2 [] char = "control" -> 6 [] OTHER -> 1

LeastOf(a, b) == IF a <= b THEN a ELSE b

\* is_char_boundary, from a byte backwards: the characters before the byte in each
\* run, what they take in either encoding, and their number.
Before(text, byte) ==
  LET before[n \in 0..Len(text)] ==
        IF n = 0 THEN [utf8 |-> 0, json |-> 0, chars |-> 0]
        ELSE LET got == before[n - 1]
                 char == text[n].char
                 times == text[n].times
                 whole == IF byte <= got.utf8 THEN 0 ELSE LeastOf(times, (byte - got.utf8) \div Utf8(char))
             IN  [utf8 |-> got.utf8 + times * Utf8(char),
                  json |-> got.json + whole * JsonOf(char),
                  chars |-> got.chars + whole]
  IN  before[Len(text)]

Utf8Length(text) == Before(text, 0).utf8

\* `,"truncated":true'
Truncated == 17

\* Mutant: the middle is rounded down, and the search ends one short.
SearchShort(text, room, bytes) ==
  LET search[ends \in (0..bytes) \X (0..bytes)] ==
        LET low == ends[1]
            high == ends[2]
            middle == low + (high - low) \div 2
        IN  IF low + 1 >= high THEN low
            ELSE IF Before(text, middle).json <= room THEN search[<<middle, high>>] ELSE search[<<low, middle - 1>>]
  IN  search[<<0, bytes>>]

\* Binary search over bytes: each end is rounded down to a character.
Search(text, room, bytes) ==
  LET search[ends \in (0..bytes) \X (0..bytes)] ==
        LET low == ends[1]
            high == ends[2]
            middle == low + (high - low + 1) \div 2
        IN  IF low >= high THEN low
            ELSE IF Before(text, middle).json <= room THEN search[<<middle, high>>] ELSE search[<<low, middle - 1>>]
  IN  search[<<0, bytes>>]

\* The bytes of the document and the characters of the message it shows.  fixed
\* leaves room for a message in every max of at least 256 bytes.
error_json(text, fixed, class, max) ==
  LET length == Utf8Length(text)
      end == LeastOf(length, max)
      whole == fixed + class + Before(text, end).json + (IF end < length THEN Truncated ELSE 0)
      room == max - fixed - Truncated
      shown == Before(text, Search(text, room, end))
  IN  IF whole <= max
      THEN [bytes |-> whole, json |-> Before(text, end).json, chars |-> Before(text, end).chars]
      ELSE [bytes |-> fixed + Truncated + shown.json, json |-> shown.json, chars |-> shown.chars]
=============================================================================
