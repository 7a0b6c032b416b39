---------------------------- MODULE MCConverters ----------------------------
(***************************************************************************)
(* Instances of Converters for TLC.                                        *)
(***************************************************************************)
EXTENDS Converters

Content(n) == [i \in 1 .. n |-> 100 + i]

(* From empty to more than a block, whole blocks and words and not.        *)
MCBinFiles == {Content(n) : n \in {0, 5, 8, 9}}

(* From empty to a block and a word, and malformed ones.                   *)
MCHexFiles ==
  {WordsOf(Content(Word * n)) : n \in {0, 3}}
  \cup {<<Bad>>, WordsOf(Content(2 * Word)) \o <<Bad, Tag>>}

(* A full block that begins like the data of a terminate block, and the    *)
(* terminate block.                                                        *)
MCDs8Files ==
  {[block |-> 16, data |-> Block(16 - 2 * Word,
                                 Terminate \o Content(16 - 3 * Word))
                             \o TerminateBlock(16)]}
=============================================================================
