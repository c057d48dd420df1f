----------------------------- MODULE MCPrograms -----------------------------
(* What runs on the kernels, for TLC: Critical, and the test programs of p1, *)
(* p4 and p5 (Programs), of p2 and p3 (HeapTests) and of p6 (FileTests).     *)
(* Each has its own state; a behaviour is one of the four.                   *)
EXTENDS Critical, TestPrograms

CONSTANTS
  Words, Small, Large, Expected, Others,   \* of HeapTests
  Many                                     \* of FileTests

VARIABLES
  part,                                                             \* which of the four
  pTest, pAt, cell, got, sum, pPrinted, count, waiting,             \* of Programs
  heap, live, failed, hTest, hAt, ptr, x, mCount, fCount, total, hPrinted,  \* of HeapTests
  fTest, fAt, nodes, held, read, fPrinted                           \* of FileTests

pVars == <<pTest, pAt, cell, got, sum, pPrinted, count, waiting>>
hVars == <<heap, live, failed, hTest, hAt, ptr, x, mCount, fCount, total, hPrinted>>
fVars == <<fTest, fAt, nodes, held, read, fPrinted>>

P == INSTANCE Programs WITH
  Sem <- Sems, test <- pTest, at <- pAt, x <- got, r <- sum, printed <- pPrinted
H == INSTANCE HeapTests WITH Bytes <- {}, test <- hTest, at <- hAt, printed <- hPrinted
F == INSTANCE FileTests WITH test <- fTest, at <- fAt, got <- read, printed <- fPrinted

\* The tests of a part, or a fixed one while another part runs.
Of(p, tests, one) == IF part = p THEN tests ELSE {one}
Nothing == [text |-> <<>>, ok |-> <<>>]

ProgramsInit ==
  /\ part \in {"critical", "programs", "heap", "files"}
  /\ Init
  /\ P!Init(Of("programs", Tests, t0))
  /\ H!InitTests(Of("heap", H!Tests, Nothing))
  /\ F!Init(Of("files", F!Tests, Nothing))

\* Step i is a step of the i-th core or thread of its part.
Booting(i) ==
  /\ part = "critical" /\ i <= N
  /\ LET c == i - 1 IN Boot(c) \/ CallBegin(c) \/ Section(c) \/ CallEnd(c)
  /\ UNCHANGED <<pVars, hVars, fVars>>
Test(i) ==
  /\ part = "programs" /\ P!Run(i)
  /\ UNCHANGED <<vars, hVars, fVars>>
HeapTest(i) ==
  /\ part = "heap" /\ i \in DOMAIN hAt
  /\ H!Run(i) /\ UNCHANGED <<vars, pVars, fVars>>
FileTest(i) == part = "files" /\ i = 1 /\ F!Next /\ UNCHANGED <<vars, pVars, hVars>>

Most == Max({Len(p.text) : p \in Tests})
Turn(i) == (Booting(i) \/ Test(i) \/ HeapTest(i) \/ FileTest(i)) /\ UNCHANGED part
ProgramsNext == \E i \in 1..Most : Turn(i)

all == <<part, vars, pVars, hVars, fVars>>

\* A core that loops in its critical sections must not be all that runs; threads
\* and calls come to an end, and it is enough that one of them goes on.
CoreTurn(i) == Booting(i) /\ UNCHANGED part
TestTurn == (FileTest(1) \/ \E i \in 1..Most : Test(i)) /\ UNCHANGED part
ProgramsSpec ==
  /\ ProgramsInit /\ [][ProgramsNext]_all
  /\ \A i \in 1..N : WF_all(CoreTurn(i))
  /\ WF_all(TestTurn)

-----------------------------------------------------------------------------
(* Properties *)

\* Whatever the order in which cores and threads run, a test prints what its .ok
\* file says, or the beginning of it.
PrintsWhatIsExpected ==
  P!PrintsWhatIsExpected /\ H!PrintsWhatIsExpected /\ F!PrintsWhatIsExpected

\* What each part is to come to; but qxwang of p5 may wait for ever.
Through ==
  CASE part = "critical" -> AllArrived
    [] part = "programs" -> P!HasEnded \/ pTest = qxwang
    [] part = "files"    -> F!HasEnded
    [] part = "heap"     -> TRUE

\* The handshake of started and all_here lets every core into kernelMain, and in
\* every order of its threads a test gets to its end.
EverybodyGetsThrough == <>Through
=============================================================================
