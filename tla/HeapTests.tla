----------------------------- MODULE HeapTests -----------------------------
(***************************************************************************)
(* The test programs of p2 and p3 (simple, t0, t1, qxwang) on the first-   *)
(* fit heap: a text per core, of which the last does the test while the    *)
(* others allocate, write and free for ever.  What a program writes into   *)
(* its blocks is written into the words of the heap.                       *)
(***************************************************************************)
EXTENDS FirstFit, SequencesExt, TLC

CONSTANTS
  Rounds,    \* turns of the tests' loops
  Small,     \* the sizes that their generator draws
  Large,     \* the size of the block that t1 gets and frees again
  Expected,  \* the total that t1 asks for
  Others     \* what another core asks for

VARIABLES
  test,              \* the program: text and ok
  at,                \* per core, its next instruction; 0 once the machine is off
  ptr,               \* per core, its pointers
  x,                 \* the pointer of the last core that it chose last
  mCount, fCount, total,
  printed            \* the lines that begin with ***, and the panic of new[]

program == <<test, at, ptr, x, mCount, fCount, total, printed>>

\* A byte a program writes, and a string.
Mark == 119
Friend == 42
End == Words + 1  \* what malloc(0) returns

-----------------------------------------------------------------------------
(* The tests *)

Repeat(n, Text(_)) == FlattenSeq([i \in 1..n |-> Text(i)])

\* Every other core: a block is taken, written at both ends and freed.
Other(bytes) == << <<"new", "p", {bytes}>>, <<"write", "p">>, <<"free", "p">>, <<"jump", 1>> >>

\* Four blocks; the second is freed before the first.
simple ==
  [text |-> << << <<"jump", 1>> >>,
               << <<"malloc", "a", {15}>>, <<"malloc", "b", {10}>>, <<"malloc", "c", {1}>>,
                  <<"free", "b">>, <<"free", "a">>, <<"malloc", "d", {8}>>,
                  <<"free", "c">>, <<"free", "d">>, <<"shutdown">> >> >>,
   ok   |-> <<"shutdown">>]

\* A pointer is chosen, freed and set anew, again and again; all are freed in
\* the end, and there must have been as many calls of free as of malloc.
last == <<"last1", "last2">>
t0 ==
  [text |-> << Other(Others),
               Repeat(Rounds, LAMBDA i :
                 << <<"choose">>, <<"free", "x">>, <<"malloc", "x", Small>>, <<"write", "x">> >>)
               \o [i \in DOMAIN last |-> <<"free", last[i]>>]
               \o << <<"report counts">>, <<"shutdown">> >> >>,
   ok   |-> <<"count match", "count ok", "shutdown">>]

\* A small block is kept and a large one freed, until there is no room.
t1 ==
  [text |-> << Other(Others),
               << <<"get", "a", Small, 7>>, <<"write", "a">>,
                  <<"get", "b", {Large}, 7>>, <<"write", "b">>,
                  <<"free", "b">>, <<"jump", 1>>,
                  <<"report total">>, <<"shutdown">> >> >>,
   ok   |-> <<"total above", "shutdown">>]

\* Blocks of 0, 1, ... units are kept, one of them with a string, and larger
\* ones freed; then the string is read again, all are freed, and the heap must
\* be in one piece.  Meanwhile core 0 asks for as many bytes as its number.
array == [i \in 1..Rounds |-> "x" \o ToString(i)]
qxwang ==
  [text |-> << Other(0),
               Repeat(Rounds, LAMBDA i :
                 << <<"malloc", "y", {16 * (i - 1)}>>, <<"new", array[i], {6 * (i - 1)}>> >>
                 \o (IF i = 2 THEN << <<"store", array[i], Friend>> >> ELSE <<>>)
                 \o << <<"free", "y">> >>)
               \o Repeat(Rounds, LAMBDA i :
                    (IF i = 2 THEN << <<"print", array[i]>> >> ELSE <<>>) \o << <<"free", array[i]>> >>)
               \o << <<"malloc", "p", {4 * Words - 16}>>, <<"free", "p">>, <<"shutdown">> >> >>,
   ok   |-> <<Friend, "shutdown">>]

Tests == {simple, t0, t1, qxwang}
Pointers == {"a", "b", "c", "d", "p", "y"} \cup Range(last) \cup Range(array)

-----------------------------------------------------------------------------
InitTests(tests) ==
  /\ Init
  /\ test \in tests
  /\ at = [c \in DOMAIN test.text |-> 1]
  /\ ptr = [c \in DOMAIN at |-> [s \in Pointers |-> null]]
  /\ x = last[1]
  /\ mCount = 0 /\ fCount = 0 /\ total = 0
  /\ printed = <<>>

Going(c) == at[c] \in DOMAIN test.text[c]
Instruction(c) == test.text[c][at[c]]
Does(c, what) == Going(c) /\ Instruction(c)[1] = what
Slot(c) == IF Instruction(c)[2] = "x" THEN x ELSE Instruction(c)[2]
Pointer(c) == ptr[c][Slot(c)]
GoTo(c, i) == at' = [at EXCEPT ![c] = i]
GoOn(c) == GoTo(c, at[c] + 1)
Block(p) == p \notin {null, End}

\* malloc's result goes to a pointer.
Allocated(c, bytes) ==
  IF bytes = 0
    THEN ptr' = [ptr EXCEPT ![c][Slot(c)] = End] /\ UNCHANGED vars
    ELSE /\ malloc(bytes)
         /\ ptr' = [ptr EXCEPT ![c][Slot(c)] =
              IF failed' # 0 THEN null ELSE CHOOSE p \in DOMAIN live' : p \notin DOMAIN live]

Malloc(c) ==
  /\ Does(c, "malloc") /\ GoOn(c)
  /\ \E bytes \in Instruction(c)[3] : Allocated(c, bytes)
  /\ mCount' = mCount + 1
  /\ printed' = IF ptr'[c][Slot(c)] = null /\ Slot(c) \in Range(last)
                  THEN Append(printed, "failed to allocate") ELSE printed
  /\ UNCHANGED <<test, x, fCount, total>>

\* operator new[]: without a block the core panics, which turns the machine off.
New(c) ==
  /\ Does(c, "new")
  /\ \E bytes \in Instruction(c)[3] : Allocated(c, bytes)
  /\ IF ptr'[c][Slot(c)] = null
       THEN at' = [d \in DOMAIN at |-> 0] /\ printed' = Append(printed, "out of memory")
       ELSE GoOn(c) /\ UNCHANGED printed
  /\ UNCHANGED <<test, x, mCount, fCount, total>>

\* get() of t1 adds up what it got.
Get(c) ==
  /\ Does(c, "get")
  /\ \E bytes \in Instruction(c)[3] :
       /\ Allocated(c, bytes)
       /\ IF ptr'[c][Slot(c)] = null
            THEN GoTo(c, Instruction(c)[4]) /\ UNCHANGED total
            ELSE GoOn(c) /\ total' = total + bytes
  /\ UNCHANGED <<test, x, mCount, fCount, printed>>

\* free of null and of what malloc(0) returned changes nothing; t0 counts the
\* pointers it frees that are not null.
Free(c) ==
  /\ Does(c, "free") /\ GoOn(c)
  /\ IF Block(Pointer(c)) THEN free(Pointer(c)) ELSE UNCHANGED vars
  /\ fCount' = IF Pointer(c) = null \/ c = 1 THEN fCount ELSE fCount + 1
  /\ UNCHANGED <<test, ptr, x, mCount, total, printed>>

\* The first byte of a block is written, and the last.  The last one of no bytes
\* is that before the pointer, which is of the last word of the heap.
Write(c) ==
  LET p == Pointer(c) IN
  /\ Does(c, "write") /\ GoOn(c)
  /\ heap' = IF Block(p) THEN [heap EXCEPT !.word[p + 1] = Mark,
                                           !.word[p + 1 + (live[p] - 1) \div 4] = Mark]
               ELSE IF p = End THEN [heap EXCEPT !.word[Words] = Mark] ELSE heap
  /\ UNCHANGED <<live, failed, test, ptr, x, mCount, fCount, total, printed>>

Store(c) ==
  /\ Does(c, "store") /\ GoOn(c)
  /\ heap' = [heap EXCEPT !.word[Pointer(c) + 1] = Instruction(c)[3]]
  /\ UNCHANGED <<live, failed, test, ptr, x, mCount, fCount, total, printed>>

Choose(c) ==
  /\ Does(c, "choose") /\ GoOn(c)
  /\ x' \in Range(last)
  /\ UNCHANGED <<vars, test, ptr, mCount, fCount, total, printed>>

Jump(c) ==
  /\ Does(c, "jump") /\ GoTo(c, Instruction(c)[2])
  /\ UNCHANGED <<vars, test, ptr, x, mCount, fCount, total, printed>>

\* What the tests print, and the shutdown, which stops every core.
PrintLines(c) ==
  /\ \/ /\ Does(c, "print")
        /\ printed' = Append(printed, heap.word[Pointer(c) + 1])
     \/ /\ Does(c, "report counts")
        /\ printed' = printed \o << IF mCount = fCount THEN "count match" ELSE "counts differ",
                                    IF mCount = Rounds THEN "count ok" ELSE "wrong count" >>
     \/ /\ Does(c, "report total")
        /\ printed' = Append(printed, IF total > Expected THEN "total above" ELSE "total is too low")
  /\ GoOn(c)
  /\ UNCHANGED <<vars, test, ptr, x, mCount, fCount, total>>
Shutdown(c) ==
  /\ Does(c, "shutdown")
  /\ printed' = Append(printed, "shutdown")
  /\ at' = [d \in DOMAIN at |-> 0]
  /\ UNCHANGED <<vars, test, ptr, x, mCount, fCount, total>>

Run(c) ==
  \/ Malloc(c) \/ New(c) \/ Get(c) \/ Free(c) \/ Write(c) \/ Store(c) \/ Choose(c) \/ Jump(c)
  \/ PrintLines(c) \/ Shutdown(c)

-----------------------------------------------------------------------------
(* Properties *)

\* Whatever the other core does, a test prints what its .ok file says, or the
\* beginning of it.  But while t1 has filled the heap, the other core may fail.
PrintsWhatIsExpected ==
  LET lines == IF test = t1 THEN SelectSeq(printed, LAMBDA l : l # "out of memory") ELSE printed
  IN  IsPrefix(lines, test.ok)
=============================================================================
