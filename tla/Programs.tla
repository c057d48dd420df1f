------------------------------ MODULE Programs ------------------------------
(***************************************************************************)
(* Threads that run the texts of TestPrograms over what p1, p4 and p5 give *)
(* them: critical sections, atomic counters, a future, semaphores, and on  *)
(* these the bounded buffer and the barrier.                               *)
(***************************************************************************)
EXTENDS Integers, SequencesExt, TLC

CONSTANTS
  Sem,    \* the semaphores of all tests
  buffer  \* the words of the bounded buffer

VARIABLES
  test,           \* the program: text, cores, cells, sems and ok of TestPrograms
  at,             \* per thread, its next instruction; 0 before it is created
  cell,           \* the counters and the other words of memory
  x, r,           \* per thread, what it got or read last, and what add_fetch returned
  printed,        \* what begins with ***
  count, waiting  \* of the semaphores

sems == <<count, waiting>>
vars == <<test, at, cell, x, r, printed, sems>>

Semaphore == INSTANCE Semaphores WITH Thread <- Nat

Init(tests) ==
  /\ test \in tests
  /\ at = [t \in DOMAIN test.text |-> IF t <= test.cores THEN 1 ELSE 0]
  /\ cell = test.cells
  /\ x = [t \in DOMAIN at |-> 0] /\ r = x
  /\ printed = <<>>
  /\ Semaphore!Constructed([s \in Sem |->
       IF s \in DOMAIN test.sems THEN test.sems[s] ELSE 0])

text(t) == test.text[t]
Going(t) == at[t] \in DOMAIN text(t) /\ ~Semaphore!Blocked(t)
GoTo(t, i) == at' = [at EXCEPT ![t] = i]
GoOn(t) == GoTo(t, at[t] + 1)

\* The actions take the instruction: what to do, and with what.
NewThread(t, do) ==
  /\ do[1] = "thread"
  /\ at' = [at EXCEPT ![t] = @ + 1, ![do[2] + 1] = 1]
  /\ UNCHANGED <<cell, x, r, printed, sems>>

\* add_fetch; a barrier panics when it counts one thread too many.
Change(t, c, d) ==
  /\ cell' = [cell EXCEPT ![c] = @ + d]
  /\ r' = [r EXCEPT ![t] = cell'[c]]
  /\ GoOn(t)
  /\ UNCHANGED <<x, sems>>
Add(t, do) == do[1] = "add" /\ Change(t, do[2], do[3]) /\ UNCHANGED printed
AddX(t, do) == do[1] = "add x" /\ Change(t, do[2], x[t]) /\ UNCHANGED printed
Arrive(t, do) ==
  /\ do[1] = "arrive" /\ Change(t, do[2], -1)
  /\ printed' = IF cell'[do[2]] < 0 THEN Append(printed, "panic") ELSE printed

Set(t, do) ==
  /\ do[1] = "set" /\ GoOn(t)
  /\ cell' = [cell EXCEPT ![do[2]] = do[3]]
  /\ UNCHANGED <<x, r, printed, sems>>
Let(t, do) ==
  /\ do[1] = "let" /\ GoOn(t)
  /\ x' = [x EXCEPT ![t] = do[2]]
  /\ UNCHANGED <<cell, r, printed, sems>>
ReadCell(t, do) ==
  /\ do[1] = "read" /\ GoOn(t)
  /\ x' = [x EXCEPT ![t] = cell[do[2]]]
  /\ UNCHANGED <<cell, r, printed, sems>>

\* A loop that waits, whether it spins or yields.
Until(t, do) ==
  /\ do[1] = "until" /\ cell[do[2]] = do[3]
  /\ GoOn(t)
  /\ UNCHANGED <<cell, x, r, printed, sems>>

DownSem(t, do) ==
  /\ \/ do[1] = "down"
     \/ do[1] = "down unless last" /\ r[t] # 0
  /\ GoOn(t) /\ Semaphore!Down(t, do[2])
  /\ UNCHANGED <<cell, x, r, printed>>
UpSem(t, do) ==
  /\ \/ do[1] = "up"
     \/ do[1] = "up if last" /\ r[t] = 0
  /\ GoOn(t) /\ Semaphore!Up(do[2])
  /\ UNCHANGED <<cell, x, r, printed>>
Skip(t, do) ==
  /\ \/ do[1] = "down unless last" /\ r[t] = 0
     \/ do[1] = "up if last" /\ r[t] # 0
  /\ GoOn(t)
  /\ UNCHANGED <<cell, x, r, printed, sems>>

Store(t, do) ==
  /\ do[1] = "store" /\ GoOn(t)
  /\ cell' = [cell EXCEPT ![buffer[cell["next_in"] + 1]] = x[t]]
  /\ UNCHANGED <<x, r, printed, sems>>
Fetch(t, do) ==
  /\ do[1] = "fetch" /\ GoOn(t)
  /\ x' = [x EXCEPT ![t] = cell[buffer[cell["next_out"] + 1]]]
  /\ UNCHANGED <<cell, r, printed, sems>>
Advance(t, do) ==
  /\ do[1] = "advance" /\ GoOn(t)
  /\ cell' = [cell EXCEPT ![do[2]] = (@ + 1) % Len(buffer)]
  /\ UNCHANGED <<x, r, printed, sems>>

Assign(t, do) ==
  /\ do[1] = "assign" /\ GoOn(t)
  /\ cell' = [cell EXCEPT ![do[2]] = x[t]]
  /\ UNCHANGED <<x, r, printed, sems>>

\* The critical sections of p1: a lock, and a counter per core (module Critical).
mycounters(t) == "mycounters" \o ToString(t)
Begin(t, do) ==
  /\ do[1] = "critical_begin" /\ GoOn(t)
  /\ cell[mycounters(t)] = 0 => cell["taken"] = 0
  /\ cell' = [cell EXCEPT !["taken"] = 1, ![mycounters(t)] = @ + 1]
  /\ UNCHANGED <<x, r, printed, sems>>
End(t, do) ==
  /\ do[1] = "critical_end" /\ GoOn(t)
  /\ cell' = [cell EXCEPT ![mycounters(t)] = @ - 1,
                          !["taken"] = IF cell[mycounters(t)] = 1 THEN 0 ELSE @]
  /\ UNCHANGED <<x, r, printed, sems>>

Jump(t, do) ==
  /\ \/ do[1] = "jump" /\ GoTo(t, do[2])
     \/ do[1] = "back unless 0" /\ IF r[t] # 0 THEN GoTo(t, at[t] - do[2]) ELSE GoOn(t)
     \/ /\ do[1] = "jump if reached"
        /\ IF cell[do[2]] >= do[3] THEN GoTo(t, do[4]) ELSE GoOn(t)
  /\ UNCHANGED <<cell, x, r, printed, sems>>

PrintLine(t, do) ==
  /\ do[1] = "print" \/ do[1] = "print unless"
  /\ printed' = IF do[1] = "print unless" /\ cell[do[2]] = do[3]
                  THEN printed ELSE Append(printed, cell[do[2]])
  /\ GoOn(t)
  /\ UNCHANGED <<cell, x, r, sems>>

Say(t, do) ==
  /\ do[1] = "say"
  /\ printed' = Append(printed, do[2])
  /\ GoOn(t)
  /\ UNCHANGED <<cell, x, r, sems>>

Run(t) ==
  /\ t \in DOMAIN at /\ Going(t)
  /\ LET do == text(t)[at[t]] IN
       \/ NewThread(t, do) \/ Add(t, do) \/ AddX(t, do) \/ Arrive(t, do) \/ Set(t, do)
       \/ Let(t, do) \/ ReadCell(t, do) \/ Until(t, do) \/ DownSem(t, do) \/ UpSem(t, do)
       \/ Skip(t, do) \/ Store(t, do) \/ Fetch(t, do) \/ Advance(t, do) \/ Assign(t, do)
       \/ Begin(t, do) \/ End(t, do) \/ Jump(t, do) \/ PrintLine(t, do) \/ Say(t, do)
  /\ UNCHANGED test

Next == \E t \in DOMAIN at : Run(t)

-----------------------------------------------------------------------------
(* Properties *)

\* Whatever the order in which the threads run, a test prints what its .ok file
\* says, or the beginning of it.
PrintsWhatIsExpected == IsPrefix(printed, test.ok)

\* It has got to the end of it.
HasEnded == printed = test.ok
=============================================================================
