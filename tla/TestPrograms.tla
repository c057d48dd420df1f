---------------------------- MODULE TestPrograms ----------------------------
(***************************************************************************)
(* The test programs of p1 (t0, 050, qxwang), p4 and p5 (t0, t1, t2, t014, *)
(* qxwang) as texts for module Programs: a text per thread, the first for  *)
(* kernelMain, which in p1 every core runs; and an instruction for each    *)
(* step that other threads can see.  The loops of the tests are shorter.   *)
(***************************************************************************)
EXTENDS Integers, SequencesExt, TLC

CONSTANTS
  Workers,  \* threads that a test starts in a loop
  Cores,    \* that run kernelMain in p1
  Rounds,   \* turns of its other loops
  Slots     \* of the bounded buffer

Threads(a, b) == [i \in 1..b - a + 1 |-> <<"thread", a + i - 1>>]
Repeat(n, Text(_)) == FlattenSeq([i \in 1..n |-> Text(i)])
SumTo(n) == (n * (n + 1)) \div 2

\* Barrier::sync() of p5; each barrier is named by the test that makes it.
Sync(b) == << <<"arrive", b>>, <<"down unless last", b>>, <<"up", b>> >>

\* BoundedBuffer::put(x) and get() of p5.
Put == << <<"down", "empty">>, <<"down", "mutex">>, <<"store">>, <<"advance", "next_in">>,
          <<"up", "mutex">>, <<"up", "data">> >>
Get == << <<"down", "data">>, <<"down", "mutex">>, <<"fetch">>, <<"advance", "next_out">>,
          <<"up", "mutex">>, <<"up", "empty">> >>

-----------------------------------------------------------------------------
(* The tests.  text: per thread, from kernelMain on; cores: how many of them *)
(* are there from the start; cells: what is set before any thread runs;      *)
(* sems: the counts; ok: what the test must print.                           *)

\* Each thread counts itself and waits for the others (t0 of p4 and p5: with
\* and without a yield() in the waiting loop).
t0 ==
  LET Meet == << <<"add", "waitingFor", -1>>, <<"until", "waitingFor", 0>> >>
  IN  [text  |-> << Threads(1, Workers) \o Meet \o << <<"print", "waitingFor">> >> >>
                   \o [i \in 1..Workers |-> Meet],
       cores |-> 1,
       cells |-> [waitingFor |-> Workers + 1],
       sems  |-> <<>>,
       ok    |-> <<0>>]

\* p4: each thread counts its turns; a count that is not N is printed.  The
\* turns per core are the scheduler's affair.
perThread(i) == "perThread" \o ToString(i)
p4t1 ==
  [text  |-> << Threads(1, Workers)
                \o << <<"until", "running", 0>> >>
                \o [i \in 1..Workers |-> <<"print unless", perThread(i), Rounds>>]
                \o << <<"print", "running">> >> >>
             \o [i \in 1..Workers |->
                   [j \in 1..Rounds |-> <<"add", perThread(i), 1>>] \o << <<"add", "running", -1>> >>],
   cores |-> 1,
   cells |-> [c \in {perThread(i) : i \in 1..Workers} \cup {"running"} |->
                IF c = "running" THEN Workers ELSE 0],
   sems  |-> <<>>,
   ok    |-> <<0>>]

\* p4: a future; get() yields until it is ready.
p4t2 ==
  [text  |-> << << <<"thread", 1>>, <<"until", "isReady", 1>>, <<"print", "t">> >>,
                << <<"add", "t", 42>>, <<"add", "isReady", 1>> >> >>,
   cores |-> 1,
   cells |-> [t |-> 0, isReady |-> 0],
   sems  |-> <<>>,
   ok    |-> <<42>>]

\* p4: a thread makes others one after the other, and each of them one that
\* stops before its end.  The number of turns given away, which kernelMain
\* prints as well, is the scheduler's affair.
p4qxwang ==
  LET middle(k) == 2 * k
      inner(k) == 2 * k + 1
      Nested(i) == << <<"add", "mycount", 1>>, <<"thread", i>>, <<"add", "yieldTimes", 1>> >>
  IN  [text  |-> << << <<"thread", 1>>, <<"until", "mycount", 3 * Rounds>>, <<"say", "done">> >>,
                    Repeat(Rounds, LAMBDA j : Nested(middle(j))) >>
                 \o Repeat(Rounds, LAMBDA j :
                      << Nested(inner(j)),
                         << <<"add", "mycount", 1>>, <<"jump", 4>>, <<"add", "yieldTimes", 1>> >> >>),
       cores |-> 1,
       cells |-> [c \in {"mycount", "yieldTimes"} |-> 0],
       sems  |-> <<>>,
       ok    |-> <<"done">>]

\* p5: each thread adds its number before it comes to the barrier.
p5t1 ==
  [text  |-> << Threads(1, Workers) \o Sync("bar") \o << <<"print", "sum">> >> >>
             \o [i \in 1..Workers |-> << <<"add", "sum", i>> >> \o Sync("bar")],
   cores |-> 1,
   cells |-> [bar |-> Workers + 1, sum |-> 0],
   sems  |-> [bar |-> 0],
   ok    |-> <<SumTo(Workers)>>]

\* p5: the same again and again, on a new barrier and a sum that is set to 0.
bar(j) == "bar" \o ToString(j)
t014 ==
  [text  |-> << Repeat(Rounds, LAMBDA j :
                  << <<"set", "sum", 0>> >> \o Threads((j - 1) * Workers + 1, j * Workers)
                  \o Sync(bar(j)) \o << <<"print", "sum">> >>) >>
             \o Repeat(Rounds, LAMBDA j :
                  [i \in 1..Workers |-> << <<"add", "sum", i>> >> \o Sync(bar(j))]),
   cores |-> 1,
   cells |-> [c \in {bar(j) : j \in 1..Rounds} \cup {"sum"} |-> IF c = "sum" THEN 0 ELSE Workers + 1],
   sems  |-> [s \in {bar(j) : j \in 1..Rounds} |-> 0],
   ok    |-> [j \in 1..Rounds |-> SumTo(Workers)]]

\* The words of a bounded buffer and the counts of its semaphores.
buffer == [i \in 1..Slots |-> "buffer" \o ToString(i)]
BufferCells == ToSet(buffer) \cup {"next_in", "next_out"}
BufferSems == [empty |-> Slots, data |-> 0, mutex |-> 1]

\* p5: kernelMain puts numbers that the others get and add; whoever gets the
\* last of them ups done.
Items == Workers * Rounds
p5t2 ==
  [text  |-> << Threads(1, Workers) \o Repeat(Items, LAMBDA i : << <<"let", i>> >> \o Put)
                \o << <<"down", "done">>, <<"print", "sum">>, <<"print", "togo">> >> >>
             \o [i \in 1..Workers |->
                   Get \o << <<"add x", "sum">>, <<"add", "togo", -1>>, <<"up if last", "done">>, <<"jump", 1>> >>],
   cores |-> 1,
   cells |-> [c \in BufferCells \cup {"sum", "togo"} |-> IF c = "togo" THEN Items ELSE 0],
   sems  |-> BufferSems @@ [done |-> 0],
   ok    |-> <<SumTo(Items), 0>>]

\* p5: thread 1 makes, one after the other, threads that count and make a
\* thread that puts the count, until the sum of what kernelMain got is reached;
\* kernelMain gets Rounds numbers and waits for thread 1.  Once kernelMain has
\* got its numbers, Slots more fit into the buffer and the next put waits.
Feeds == Rounds + Slots + 1
qxwang ==
  LET middle(k) == 2 * k
      inner(k) == 2 * k + 1
  IN  [text  |-> << << <<"thread", 1>> >> \o Repeat(Rounds, LAMBDA i : Get \o << <<"add x", "mysum">> >>)
                    \o << <<"down", "done">>, <<"print", "mysum">> >>,
                    Repeat(Feeds, LAMBDA k :
                      << <<"jump if reached", "mysum", SumTo(Rounds), 3 * Feeds + 1>>,
                         <<"thread", middle(k)>>, <<"down", "sem">> >>)
                    \o << <<"up", "done">> >> >>
                 \o Repeat(Feeds, LAMBDA k :
                      << << <<"add", "mycount", 1>>, <<"thread", inner(k)>> >>,
                         << <<"read", "mycount">> >> \o Put \o << <<"up", "sem">> >> >>),
       cores |-> 1,
       cells |-> [c \in BufferCells \cup {"mycount", "mysum"} |-> 0],
       sems  |-> BufferSems @@ [sem |-> 0, done |-> 0],
       ok    |-> <<SumTo(Rounds)>>]

-----------------------------------------------------------------------------
(* p1: each core begins and ends its sections, and core 0 waits for all.     *)

done(i) == "done" \o ToString(i)
SetDone(i) == << <<"set", done(i), 1>> >>
AllDone == [i \in 1..Cores |-> <<"until", done(i), 1>>]
AllDoneAgain == Repeat(Cores, LAMBDA i : << <<"until", done(i), 1>>, <<"set", done(i), 0>> >>)
Shutdown == << <<"say", "shutdown">> >>

Begins(n) == [i \in 1..n |-> <<"critical_begin">>]
Ends(n) == [i \in 1..n |-> <<"critical_end">>]
Stars == [i \in 1..3 |-> <<"say", "*">>] \o << <<"say", " ">> >>

\* A core counts a cell down to 0, which no other core touches in a section.
CountDown(c) == << <<"set", c, 2>>, <<"add", c, -1>>, <<"back unless 0", 1>> >>

\* What the cores print: a line each, and again, and core 0's last word.
Lines(line) == Repeat(Cores, LAMBDA i : line)
P1Cells(cs) == [c \in cs \cup {done(i) : i \in 1..Cores} \cup {"taken", "alldone0", "alldone1"}
                     \cup {"mycounters" \o ToString(i) : i \in 1..Cores} |-> IF c = "y" THEN 1 ELSE 0]

\* Two sections, one in the other, around a line of numbers.
counters(i) == "counters" \o ToString(i)
p1t0 ==
  LET Line(i) == Begins(2) \o Stars
                 \o Repeat(Rounds, LAMBDA j : << <<"say", j>> >> \o CountDown(counters(i)))
                 \o << <<"say", "newline">> >> \o Ends(2) \o SetDone(i)
  IN  [text  |-> [i \in 1..Cores |-> Line(i) \o IF i = 1 THEN AllDone \o Shutdown ELSE <<>>],
       cores |-> Cores,
       cells |-> P1Cells({counters(i) : i \in 1..Cores}),
       sems  |-> <<>>,
       ok    |-> Lines(<<"*", "*", "*", " ">> \o [j \in 1..Rounds |-> j] \o <<"newline">>)
                 \o <<"shutdown">>]

\* Three such lines of different lengths, on one counter; core 0 prints a line
\* of stars when all have printed theirs, and the others wait for it.
t050 ==
  LET Line(depth, n) == Begins(depth) \o Stars
                        \o Repeat(n, LAMBDA j : << <<"say", j>> >> \o CountDown("counter"))
                        \o << <<"say", "newline">> >> \o Ends(depth)
      Meet(i, k) == SetDone(i) \o IF i = 1
                      THEN AllDoneAgain \o << <<"say", "*****">>, <<"set", k, 1>> >>
                      ELSE << <<"until", k, 1>> >>
      Stop(i) == SetDone(i) \o IF i = 1
                   THEN AllDone \o << <<"say", "*****">> >> \o Shutdown ELSE <<>>
      Said(n) == Lines(<<"*", "*", "*", " ">> \o [j \in 1..n |-> j] \o <<"newline">>) \o <<"*****">>
  IN  [text  |-> [i \in 1..Cores |-> Line(2, 2) \o Meet(i, "alldone0") \o Line(1, 1)
                                     \o Meet(i, "alldone1") \o Line(1, 2) \o Stop(i)],
       cores |-> Cores,
       cells |-> P1Cells({"counter"}),
       sems  |-> <<>>,
       ok    |-> Said(2) \o Said(1) \o Said(2) \o <<"shutdown">>]

\* The cores go on with one Fibonacci sequence, each where the one before ended.
Fibonacci(n) ==
  LET f[k \in 0..n] == IF k <= 1 THEN k ELSE f[k - 1] + f[k - 2] IN f[n]
p1qxwang ==
  LET Number(i) == << <<"read", "y">>, <<"assign", "temp">>, <<"read", "x">>, <<"add x", "y">>,
                      <<"read", "temp">>, <<"assign", "x">>, <<"print", "x">> >>
                   \o CountDown(counters(i))
      Line(i) == Begins(1) \o << <<"say", "begins!">> >> \o Repeat(Rounds, LAMBDA j : Number(i))
                 \o << <<"say", "newline">> >> \o Ends(1) \o SetDone(i)
  IN  [text  |-> [i \in 1..Cores |-> Line(i) \o IF i = 1 THEN AllDone \o Shutdown ELSE <<>>],
       cores |-> Cores,
       cells |-> P1Cells({counters(i) : i \in 1..Cores} \cup {"x", "y", "temp"}),
       sems  |-> <<>>,
       ok    |-> Repeat(Cores, LAMBDA i :
                   <<"begins!">> \o [j \in 1..Rounds |-> Fibonacci((i - 1) * Rounds + j)]
                   \o <<"newline">>) \o <<"shutdown">>]

Tests == {t0, p4t1, p4t2, p4qxwang, p5t1, t014, p5t2, qxwang, p1t0, t050, p1qxwang}

Sems == {bar(j) : j \in 1..Rounds} \cup {"bar", "empty", "data", "mutex", "sem", "done"}
=============================================================================
