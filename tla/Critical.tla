------------------------------ MODULE Critical ------------------------------
(***************************************************************************)
(* The kernel of p1_critical_section: the first core starts the others one *)
(* by one (mbr.S, init.cc), all of them run kernelMain, and its critical   *)
(* sections are nestable, on one spin lock and a counter per core          *)
(* (critical.cc).  There are no interrupts: only other cores interleave.   *)
(***************************************************************************)
EXTENDS Naturals

CONSTANTS N,        \* kConfig.totalProcs
          MaxDepth  \* how deep kernelMain nests its sections

ASSUME CriticalAssumption == N \in Nat \ {0} /\ MaxDepth \in Nat \ {0}

Core == 0..N - 1  \* a core is its APIC id, SMP::me()
Temp == N         \* tempStack of mbr.S, on which nobody stays
None == N + 1     \* the core is off

VARIABLES
  at,           \* per core, what it does next
  stack,        \* per core, the stack it is on
  started,      \* SMP::started
  smpInitDone,
  id,           \* the core that core 0 is starting
  all_here,
  taken,        \* the SpinLock s
  mycounters,   \* per core, sections it counts
  depth         \* per core, sections kernelMain is in

boot == <<stack, started, smpInitDone, id, all_here>>
section == <<taken, mycounters, depth>>
vars == <<at, boot, section>>

Init ==
  /\ at = [c \in Core |-> IF c = 0 THEN "reset" ELSE "off"]
  /\ stack = [c \in Core |-> None]
  /\ started = 0 /\ smpInitDone = FALSE /\ id = 0 /\ all_here = FALSE
  /\ taken = FALSE
  /\ mycounters = [c \in Core |-> 0]
  /\ depth = [c \in Core |-> 0]

Step(c, from, to) == at[c] = from /\ at' = [at EXCEPT ![c] = to]

-----------------------------------------------------------------------------
(* Booting *)

\* Every core comes out of its reset on the same stack...
Reset(c) ==
  /\ Step(c, "reset", "pick")
  /\ stack' = [stack EXCEPT ![c] = Temp]
  /\ UNCHANGED <<started, smpInitDone, id, all_here, section>>

\* ...and leaves it for one of its own.
PickKernelStack(c) ==
  /\ Step(c, "pick", "count")
  /\ stack' = [stack EXCEPT ![c] = IF smpInitDone THEN c ELSE 0]
  /\ UNCHANGED <<started, smpInitDone, id, all_here, section>>

\* Whoever is the first to count starts the others.
Count(c) ==
  /\ Step(c, "count", IF started = 0 THEN "configure" ELSE "gather")
  /\ started' = started + 1
  /\ UNCHANGED <<stack, smpInitDone, id, all_here, section>>

Configure(c) ==
  /\ Step(c, "configure", "start")
  /\ smpInitDone' = TRUE
  /\ id' = 1
  /\ UNCHANGED <<stack, started, all_here, section>>

StartNext(c) ==
  /\ at[c] = "start" /\ id < N
  /\ at' = [at EXCEPT ![c] = "await", ![id] = "reset"]
  /\ UNCHANGED <<boot, section>>

\* Mutant: the next core is started at once.
AwaitNothing(c) ==
  /\ Step(c, "await", "start")
  /\ id' = id + 1
  /\ UNCHANGED <<stack, started, smpInitDone, all_here, section>>

Await(c) ==
  /\ started > id
  /\ Step(c, "await", "start")
  /\ id' = id + 1
  /\ UNCHANGED <<stack, started, smpInitDone, all_here, section>>

\* Mutant: the last core is forgotten.
AllButOneStarted(c) ==
  /\ id >= N - 1
  /\ Step(c, "start", "main")
  /\ all_here' = TRUE
  /\ UNCHANGED <<stack, started, smpInitDone, id, section>>

AllStarted(c) ==
  /\ id = N
  /\ Step(c, "start", "main")
  /\ all_here' = TRUE
  /\ UNCHANGED <<stack, started, smpInitDone, id, section>>

Gather(c) ==
  /\ all_here
  /\ Step(c, "gather", "main")
  /\ UNCHANGED <<boot, section>>

Boot(c) == Reset(c) \/ PickKernelStack(c) \/ Count(c) \/ Configure(c)
           \/ StartNext(c) \/ Await(c) \/ AllStarted(c) \/ Gather(c)

-----------------------------------------------------------------------------
(* Critical sections *)

CallBegin(c) ==
  /\ depth[c] < MaxDepth
  /\ Step(c, "main", "begin")
  /\ UNCHANGED <<boot, section>>

\* Only the outermost section takes the lock.
Nest(c) ==
  /\ mycounters[c] # 0
  /\ Step(c, "begin", "main")
  /\ mycounters' = [mycounters EXCEPT ![c] = @ + 1]
  /\ depth' = [depth EXCEPT ![c] = @ + 1]
  /\ UNCHANGED <<boot, taken>>

WantLock(c) ==
  /\ mycounters[c] = 0
  /\ Step(c, "begin", "lock")
  /\ UNCHANGED <<boot, section>>

\* One exchange of the spin lock; it is tried again until it was free.
Lock(c) ==
  /\ Step(c, "lock", IF taken THEN "lock" ELSE "locked")
  /\ taken' = TRUE
  /\ UNCHANGED <<boot, mycounters, depth>>

Enter(c) ==
  /\ Step(c, "locked", "main")
  /\ mycounters' = [mycounters EXCEPT ![c] = @ + 1]
  /\ depth' = [depth EXCEPT ![c] = @ + 1]
  /\ UNCHANGED <<boot, taken>>

CallEnd(c) ==
  /\ depth[c] > 0
  /\ Step(c, "main", "end")
  /\ depth' = [depth EXCEPT ![c] = @ - 1]
  /\ UNCHANGED <<boot, taken, mycounters>>

\* Mutant: an inner section gives the lock up.
EndAlways(c) ==
  /\ Step(c, "end", "unlock")
  /\ mycounters' = [mycounters EXCEPT ![c] = IF @ = 0 THEN 0 ELSE @ - 1]
  /\ UNCHANGED <<boot, taken, depth>>

End(c) ==
  /\ Step(c, "end", IF mycounters[c] <= 1 THEN "unlock" ELSE "main")
  /\ mycounters' = [mycounters EXCEPT ![c] = IF @ = 0 THEN 0 ELSE @ - 1]
  /\ UNCHANGED <<boot, taken, depth>>

Unlock(c) ==
  /\ Step(c, "unlock", "main")
  /\ taken' = FALSE
  /\ UNCHANGED <<boot, mycounters, depth>>

Section(c) == Nest(c) \/ WantLock(c) \/ Lock(c) \/ Enter(c) \/ End(c) \/ Unlock(c)

Next == \E c \in Core : Boot(c) \/ CallBegin(c) \/ Section(c) \/ CallEnd(c)

Spec == Init /\ [][Next]_vars

\* A core runs on.  Nothing is fair about the spin lock.
FairSpec == Spec /\ \A c \in Core : WF_vars(Boot(c) \/ Section(c))

-----------------------------------------------------------------------------
(* Properties *)

\* "Two cores shouldn't enter the space between critical_begin and critical_end
\* at the same time" (050.cc), however their calls nest.
MutualExclusion ==
  \A c, d \in Core : depth[c] > 0 /\ depth[d] > 0 => c = d

\* From its first instruction on, no core is on the stack of another, though
\* all of them come up on tempStack and the first picks before SMP::init.
StacksExclusive ==
  \A c, d \in Core : stack[c] # None /\ stack[c] = stack[d] => c = d

-----------------------------------------------------------------------------
(* The inductive invariant *)

Running == {"main", "begin", "lock", "locked", "end", "unlock"}
Label == {"off", "reset", "pick", "count", "configure", "start", "await", "gather"}
         \cup Running

\* Every core has come to kernelMain.
AllArrived == \A c \in Core : at[c] \in Running

TypeOK ==
  /\ at \in [Core -> Label]
  /\ stack \in [Core -> 0..N + 1]
  /\ started \in Nat /\ id \in Nat
  /\ smpInitDone \in BOOLEAN /\ all_here \in BOOLEAN /\ taken \in BOOLEAN
  /\ mycounters \in [Core -> Nat] /\ depth \in [Core -> Nat]

Off(c) == at[c] = "off"
Coming(c) == at[c] \in {"reset", "pick", "count"}
Alone == \A c \in Core \ {0} : Off(c)

\* Cores come up one after the other, each when the one before has counted
\* itself, and a core that has picked is on its own stack.
StackInv ==
  \A c \in Core : stack[c] = IF at[c] \in {"off", "reset"} THEN None
                             ELSE IF at[c] = "pick" THEN Temp ELSE c
BootInv ==
  /\ \A c \in Core : at[c] \in {"configure", "start", "await"} => c = 0
  /\ ~Off(0)
  /\ IF Coming(0) THEN started = 0 ELSE started > 0
  /\ Coming(0) \/ at[0] = "configure" => Alone
  /\ at[0] = "configure" => started = 1
  /\ at[0] = "start" => /\ smpInitDone /\ id \in 1..N
                        /\ \A c \in Core : IF c < id THEN ~Off(c) /\ ~Coming(c) ELSE Off(c)
                        /\ started = id
  /\ at[0] = "await" => /\ smpInitDone /\ id \in 1..N - 1
                        /\ \A c \in Core : /\ c < id => ~Off(c) /\ ~Coming(c)
                                           /\ c > id => Off(c)
                        /\ ~Off(id)
                        /\ started = IF Coming(id) THEN id ELSE id + 1
  /\ Coming(0) \/ at[0] \in {"configure", "start", "await"}
       \/ \A c \in Core : ~Off(c) /\ ~Coming(c)

\* The lock is taken while a core owns it, and one at most does; the counter is
\* the depth, except on the way out.
Owns(c) == mycounters[c] > 0 \/ at[c] \in {"locked", "unlock"}
LockInv ==
  /\ \A c \in Core : Owns(c) => taken
  /\ \A c, d \in Core : Owns(c) /\ Owns(d) => c = d
  /\ \A c \in Core :
       /\ mycounters[c] = depth[c] + (IF at[c] = "end" THEN 1 ELSE 0)
       /\ at[c] \notin {"main", "begin", "end"} => mycounters[c] = 0

IInv == TypeOK /\ StackInv /\ BootInv /\ LockInv
=============================================================================
