------------------------------- MODULE Words --------------------------------
(***************************************************************************)
(* The words of headers and of files: numbers as bytes, lowest first, the  *)
(* way memcpy and DS8WORD store a uint64_t.                                *)
(***************************************************************************)
EXTENDS Integers, Sequences

CONSTANTS
  Word,      \* bytes of a word
  Base       \* values of a byte

ASSUME WordsAssumption == Word \in Nat \ {0} /\ Base \in Nat /\ Base > 3

(* What the next byte after i others counts for.                           *)
Weight[i \in 0 .. Word] == IF i = 0 THEN 1 ELSE Base * Weight[i - 1]

(* The word of a number, and the number of a word.                         *)
ToWord(n)   == [i \in 1 .. Word |-> (n \div Weight[i - 1]) % Base]
ToNumber(w) ==
  LET sum[i \in 0 .. Word] ==
        IF i = 0 THEN 0 ELSE sum[i - 1] + w[i] * Weight[i - 1]
  IN  sum[Word]
=============================================================================
