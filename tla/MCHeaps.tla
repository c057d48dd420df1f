------------------------------ MODULE MCHeaps -------------------------------
(***************************************************************************)
(* The two heaps of the project for TLC: one run explores both, each on    *)
(* its own, and asks the same of both; and both once more, a write to      *)
(* memory at a time, with two callers.                                     *)
(***************************************************************************)
EXTENDS Heap, Sequences, TLC

CONSTANTS Words, Caller

\* heapInit makes one block of the memory it gets, with room for two links.
ASSUME WordsAssumption == Words \in Nat /\ Words >= 4

VARIABLES
  design,  \* "best" for p4 to p6, "first" for p2 and p3, and with " steps"
  taken, pc, arg, local, todo, before

stepped == <<taken, pc, arg, local, todo, before>>

F == INSTANCE FirstFit
BS == INSTANCE BestFitSteps
FS == INSTANCE FirstFitSteps WITH Core <- Caller, block <- local

NotStepped == /\ taken = FALSE /\ before = heap
              /\ pc = 0 /\ arg = 0 /\ local = 0 /\ todo = 0

HeapsInit == \/ design = "best" /\ Init /\ NotStepped
             \/ design = "first" /\ F!Init /\ NotStepped
             \/ design = "best steps" /\ BS!Init
             \/ design = "first steps" /\ FS!Init
HeapsNext == /\ UNCHANGED design
             /\ \/ design = "best" /\ Next /\ UNCHANGED stepped
                \/ design = "first" /\ F!Next /\ UNCHANGED stepped
                \/ design = "best steps" /\ BS!Next
                \/ design = "first steps" /\ FS!Next
HeapsSpec == HeapsInit /\ [][HeapsNext]_<<vars, design, stepped>>

\* The words heap.cc still reads: two states that differ in others, the remains
\* of old headers and what users keep in their blocks, are one.
BestWords(h, starts) ==
  LET used == UNION {IF IsAvail(h, i) THEN {i, i + 1, i + 2, Footer(h, i)}
                                      ELSE {i, Footer(h, i)} : i \in starts}
  IN  <<[i \in used |-> h.array[i]], h.avail>>
FirstWords(h, starts) ==
  LET used == UNION {IF F!isfree(h, i) THEN {i, i + 1, i + 2, F!findFooter(h, i)}
                                       ELSE {i, F!findFooter(h, i)} : i \in starts}
  IN  <<[i \in used |-> h.word[i]], h.freehead>>

\* Inside a call the heap is what it was before it, and the writes that are made.
HeapView ==
  <<design, live, failed>> \o
  CASE design = "best"  -> BestWords(heap, Blocks)
    [] design = "first" -> FirstWords(heap, F!Blocks)
    [] design = "best steps"  -> BestWords(before, BS!Whole!Blocks) \o <<taken, pc, arg, local, todo>>
    [] design = "first steps" -> FirstWords(before, FS!Whole!Blocks) \o <<taken, pc, arg, local, todo>>
Symmetric == Permutations(Caller)

\* The blocks tile the heap, sizes agree at both ends, free ones are joined, and
\* what users hold are the others, each as long as was asked for.  The list runs
\* through exactly the free ones, once and both ways.
BlocksAndLists ==
  /\ design = "best" => Tiled /\ ListsAvailable
  /\ design = "first" => F!Tiled /\ F!ListsFree

\* malloc and free write nothing into blocks that stay in use.
PayloadKept == [][/\ design = "best" => KeepsPayload
                  /\ design = "first" => F!KeepsPayload]_vars

\* As its users see it the heap hands out disjoint blocks, and malloc fails only
\* when no gap would do.
ImplementsAllocator ==
  /\ design = "best" => AsAllocator!Init
  /\ design = "first" => F!AsAllocator!Init
  /\ [][/\ design = "best" => AsAllocator!Next
        /\ design = "first" => F!AsAllocator!Next]_vars

\* However the writes of the callers interleave, every call of malloc and free
\* does what it does alone, in one step: that is what the lock of heap.cc is for.
CallsAreOneStep ==
  /\ design = "best steps" => BS!Whole!Init
  /\ design = "first steps" => FS!Whole!Init
  /\ [][/\ design = "best steps" => BS!Whole!Next
        /\ design = "first steps" => FS!Whole!Next]_<<before, live, failed>>
=============================================================================
