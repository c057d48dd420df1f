------------------------------- MODULE Files -------------------------------
(***************************************************************************)
(* What BobFS promises: nodes made once, each with a content that changes  *)
(* only by the call in progress, from its first word to its last; a crash  *)
(* loses the rest of that call and nothing else.                           *)
(***************************************************************************)
EXTENDS Naturals, Sequences

CONSTANTS Inum, Root, Zero, MaxWords

VARIABLES
  kind,     \* "none", "file" or "dir"
  links,    \* the directory entries made for a node, and those begun
  content,  \* the words of a node
  target, at, words, \* the call: the node it writes, where, and what is left
  crashed   \* whether a call was ever lost

vars == <<kind, links, content, target, at, words, crashed>>

Init ==
  /\ kind = [n \in Inum |-> IF n = Root THEN "dir" ELSE "none"]
  /\ links = [n \in Inum |-> 1]
  /\ content = [n \in Inum |-> <<>>]
  /\ target = Zero /\ at = 0 /\ words = <<>>
  /\ crashed = FALSE

Idle == words = <<>>

Begin == Idle /\ target' \in Inum /\ at' \in 0..MaxWords /\ words' # <<>>

WriteAll ==
  /\ Begin
  /\ kind[target'] = "file"
  /\ UNCHANGED <<kind, links, content, crashed>>

\* An entry is written to a directory for a node that is there already.
NewNode(n) ==
  /\ Begin
  /\ kind[target'] = "dir" /\ at' = Len(content[target']) /\ words'[1] = n
  /\ kind[n] = "none"
  /\ \E k \in {"file", "dir"} : kind' = [kind EXCEPT ![n] = k]
  /\ UNCHANGED <<links, content, crashed>>

LinkNode(n) ==
  /\ Begin
  /\ kind[target'] = "dir" /\ at' = Len(content[target']) /\ words'[1] = n
  /\ kind[n] = "file"
  /\ links' = [links EXCEPT ![n] = @ + 1]
  /\ UNCHANGED <<kind, content, crashed>>

\* The first k words are written, as far as the node already reaches ...
Overwrite(k) ==
  LET over == {i \in 1..Len(content[target]) : i \in at + 1..at + k} IN
  /\ content' = [content EXCEPT ![target] =
       [i \in 1..Len(content[target]) |->
          IF i \in over THEN words[i - at] ELSE content[target][i]]]
  /\ UNCHANGED <<kind, links, target, at, words, crashed>>

\* ... and all the way.  The words between the old end and the new ones are
\* zero, unless a lost call has left some of its words there.
Advance(k) ==
  LET old == content[target]
      new == content'[target]
  IN
  /\ content' = [content EXCEPT ![target] = new]
  /\ Len(new) = IF at + k > Len(old) THEN at + k ELSE Len(old)
  /\ \A i \in 1..Len(new) :
       IF i \in at + 1..at + k THEN new[i] = words[i - at]
       ELSE IF i <= Len(old) THEN new[i] = old[i] ELSE new[i] = Zero \/ crashed
  /\ words' = SubSeq(words, k + 1, Len(words))
  /\ IF words' = <<>> THEN target' = Zero /\ at' = 0
                      ELSE target' = target /\ at' = at + k
  /\ UNCHANGED <<kind, links, crashed>>

Crash ==
  /\ target' = Zero /\ at' = 0 /\ words' = <<>>
  /\ crashed' = TRUE
  /\ UNCHANGED <<kind, links, content>>

Next ==
  \/ WriteAll
  \/ \E n \in Inum : NewNode(n) \/ LinkNode(n)
  \/ \E k \in 1..Len(words) : Overwrite(k) \/ Advance(k)
  \/ Crash

Spec == Init /\ [][Next]_vars
=============================================================================
