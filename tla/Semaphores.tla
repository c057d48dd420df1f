----------------------------- MODULE Semaphores -----------------------------
(***************************************************************************)
(* Semaphores as the threads that use them see them (semaphore.cc of       *)
(* p6_file_system): down and up are one step, a thread that finds the      *)
(* count 0 waits in a queue, and up wakes the first of them instead of     *)
(* counting.  KThreads shows that the code with its locks, queues and      *)
(* context switches does no more than this (module Threads).               *)
(***************************************************************************)
EXTENDS Naturals, Sequences

CONSTANTS Thread, Sem

VARIABLES count, waiting

Blocked(t) == \E s \in Sem : \E i \in 1..Len(waiting[s]) : waiting[s][i] = t

Constructed(initial) ==
  /\ count = initial
  /\ waiting = [s \in Sem |-> <<>>]

Down(t, s) ==
  IF count[s] = 0
    THEN waiting' = [waiting EXCEPT ![s] = Append(@, t)] /\ UNCHANGED count
    ELSE count' = [count EXCEPT ![s] = @ - 1] /\ UNCHANGED waiting

Up(s) ==
  IF waiting[s] = <<>>
    THEN count' = [count EXCEPT ![s] = @ + 1] /\ UNCHANGED waiting
    ELSE waiting' = [waiting EXCEPT ![s] = Tail(@)] /\ UNCHANGED count
=============================================================================
