------------------------------ MODULE MCBobFS ------------------------------
(* BobFS for TLC: blocks of two words, so an entry always crosses blocks. *)
EXTENDS BobFS, TLC

CONSTANTS b1, b2, b3, b4, b5, b6, d1, d2

\* The root's generator and those of the other i-nodes try the blocks in
\* opposite orders.
Upwards == SelectSeq(<<b1, b2, b3, b4, b5, b6>>, LAMBDA b : b \in Block)
Orders == [n \in Inum |-> IF n = Root THEN Upwards ELSE Reverse(Upwards)]

\* An i-number and a name are words like any other: zero, the root, would be the
\* length of an empty name, i1 that of one word, i2 that of two, and all else
\* announces more words than a directory has.
CONSTANTS zero, i1, i2
Lengths == [w \in Word |-> CASE w = zero -> 0 [] w = i1 -> 1 [] w = i2 -> 2
                             [] OTHER -> MaxWords]

SomeBuffers == {<<d1>>, <<d1, d2, d2>>}
=============================================================================
