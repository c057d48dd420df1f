--------------------------- MODULE CriticalProofs ---------------------------
(***************************************************************************)
(* Proofs about the code that lets one in at a time: the kernel of         *)
(* p1_critical_section, for any number of cores and any depth of nesting,  *)
(* and the locks of the two heaps of p2 to p6, for any number of callers   *)
(* and any size of the heap.                                               *)
(***************************************************************************)
EXTENDS Critical, Integers, Sequences, TLAPS

\* What Core is to arithmetic.
LEMMA Cores == 0 \in Core /\ N \in Nat /\ N > 0 /\ (\A c : c \in Core <=> c \in Nat /\ c < N)
BY CriticalAssumption DEF Core

\* What a core can be on.
LEMMA Stacks == None \in 0..N + 1 /\ Temp \in 0..N + 1 /\ Core \subseteq 0..N + 1
BY Cores DEF None, Temp, Core

\* One core goes from one label to another.
Moves(c, from, to) ==
  /\ at' \in [Core -> Label]
  /\ at[c] = from /\ at'[c] = to
  /\ \A d \in Core : d # c => at'[d] = at[d]

LEMMA StepMoves ==
  ASSUME TypeOK, NEW c \in Core, NEW from, NEW to \in Label, Step(c, from, to)
  PROVE  Moves(c, from, to)
BY DEF TypeOK, Step, Moves

\* Where a core is while only one at a time can be there.
LEMMA OneComing ==
  ASSUME IInv, NEW c \in Core, Coming(c)
  PROVE  \/ c = 0 /\ Coming(0)
         \/ at[0] = "await" /\ c = id /\ Coming(id)
<1>1. CASE Coming(0) \/ at[0] = "configure"
  BY <1>1 DEF IInv, BootInv, Alone, Off, Coming
<1>2. CASE at[0] = "start"
  BY <1>2, Cores DEF IInv, BootInv, Off, Coming
<1>3. CASE at[0] = "await"
  <2>1. id \in Nat /\ c \in Nat /\ ~(c < id) /\ ~(c > id)
    <3>1. id \in Nat /\ c \in Nat
      BY Cores DEF IInv, TypeOK
    <3>2. ~Off(c)
      BY DEF Off, Coming
    <3>3. (c < id => ~Coming(c)) /\ (c > id => Off(c))
      BY SMTT(30), <1>3 DEF IInv, BootInv
    <3> QED BY <3>1, <3>2, <3>3
  <2> QED BY <2>1, <1>3
<1>4. CASE ~Coming(0) /\ at[0] \notin {"configure", "start", "await"}
  BY <1>4 DEF IInv, BootInv
<1> QED BY <1>1, <1>2, <1>3, <1>4

\* A step between the labels of kernelMain and its sections is no step of the boot.
LEMMA BootFrame ==
  ASSUME IInv, NEW c \in Core, NEW from \in Running, NEW to \in Running,
         Moves(c, from, to), UNCHANGED boot
  PROVE  StackInv' /\ BootInv'
<1>1. /\ \A d \in Core : \A l \in Label \ Running : at'[d] = l <=> at[d] = l
      /\ \A d \in Core : (Off(d)' <=> Off(d)) /\ (Coming(d)' <=> Coming(d))
  BY DEF Moves, Running, Label, Off, Coming
<1>2. StackInv'
  BY <1>1 DEF IInv, StackInv, Running, Label, boot, None, Temp
<1>3. BootInv'
  <2>1. at[0] = "await" => id \in Core
    BY Cores DEF IInv, BootInv
  <2>2. /\ at'[0] = "configure" <=> at[0] = "configure"
        /\ at'[0] = "start" <=> at[0] = "start"
        /\ at'[0] = "await" <=> at[0] = "await"
        /\ \A d \in Core : at'[d] \in {"configure", "start", "await"}
                             => at[d] \in {"configure", "start", "await"}
    BY <1>1, Cores DEF Label, Running
  <2> QED BY <1>1, <2>1, <2>2, Cores DEF IInv, BootInv, Alone, boot
<1> QED BY <1>2, <1>3

\* A step of the boot is no step of the sections.
LEMMA LockFrame ==
  ASSUME IInv, taken' = taken, mycounters' = mycounters, depth' = depth,
         \A d \in Core : \/ at'[d] = at[d]
                         \/ at[d] \notin Running /\ at'[d] \notin {"locked", "unlock", "end"}
  PROVE  LockInv'
<1>1. \A d \in Core : (Owns(d)' <=> Owns(d)) /\ (at'[d] = "end" <=> at[d] = "end")
  BY DEF Owns, Running
<1>2. \A d \in Core : at'[d] \notin {"main", "begin", "end"} => mycounters[d] = 0
  BY DEF IInv, LockInv, Running
<1> QED BY <1>1, <1>2 DEF IInv, LockInv

LEMMA InitHolds == Init => IInv
<1> SUFFICES ASSUME Init PROVE IInv
  OBVIOUS
<1>1. /\ at \in [Core -> Label] /\ at[0] = "reset"
      /\ \A c \in Core \ {0} : at[c] = "off"
  BY Cores DEF Init, Label
<1>2. stack \in [Core -> 0..N + 1] /\ \A c \in Core : stack[c] = None
  BY Cores DEF Init, None
<1>3. TypeOK
  BY <1>1, <1>2 DEF Init, TypeOK
<1>4. StackInv
  BY <1>1, <1>2 DEF StackInv
<1>5. BootInv
  BY <1>1, Cores DEF Init, BootInv, Alone, Off, Coming
<1>6. LockInv
  BY <1>1, Cores DEF Init, LockInv, Owns
<1> QED BY <1>3, <1>4, <1>5, <1>6 DEF IInv

LEMMA ResetKeeps == ASSUME IInv, NEW c \in Core, Reset(c) PROVE IInv'
<1>1. Moves(c, "reset", "pick")
  BY StepMoves DEF IInv, Reset, Label, Running
<1>2. TypeOK'
  BY <1>1, Cores, Stacks DEF IInv, TypeOK, Moves, Reset, section, boot
<1>3. LockInv'
  <2>1. taken' = taken /\ mycounters' = mycounters /\ depth' = depth
    BY DEF Reset, section
  <2>2. \A d \in Core : \/ at'[d] = at[d]
                        \/ at[d] \notin Running /\ at'[d] \notin {"locked", "unlock", "end"}
    BY <1>1 DEF Moves, Running
  <2> QED BY <2>1, <2>2, LockFrame
<1>4. \/ c = 0 /\ Coming(0)
      \/ at[0] = "await" /\ c = id /\ Coming(id)
  BY <1>1, OneComing DEF Coming, Moves
<1>5. StackInv'
  BY <1>1, <1>4, Cores DEF IInv, TypeOK, StackInv, BootInv, Moves, Alone, Off, Coming, Reset, boot, None, Temp
<1>6. BootInv'
  BY <1>1, <1>4, Cores DEF IInv, TypeOK, BootInv, Moves, Alone, Off, Coming, Reset, boot
<1> QED BY <1>2, <1>3, <1>5, <1>6 DEF IInv

LEMMA PickKernelStackKeeps == ASSUME IInv, NEW c \in Core, PickKernelStack(c) PROVE IInv'
<1>1. Moves(c, "pick", "count")
  BY StepMoves DEF IInv, PickKernelStack, Label, Running
<1>2. TypeOK'
  BY <1>1, Cores, Stacks DEF IInv, TypeOK, Moves, PickKernelStack, section, boot
<1>3. LockInv'
  <2>1. taken' = taken /\ mycounters' = mycounters /\ depth' = depth
    BY DEF PickKernelStack, section
  <2>2. \A d \in Core : \/ at'[d] = at[d]
                        \/ at[d] \notin Running /\ at'[d] \notin {"locked", "unlock", "end"}
    BY <1>1 DEF Moves, Running
  <2> QED BY <2>1, <2>2, LockFrame
<1>4. \/ c = 0 /\ Coming(0)
      \/ at[0] = "await" /\ c = id /\ Coming(id)
  BY <1>1, OneComing DEF Coming, Moves
<1>5. StackInv'
  BY <1>1, <1>4, Cores DEF IInv, TypeOK, StackInv, BootInv, Moves, Alone, Off, Coming, PickKernelStack, boot, None, Temp
<1>6. BootInv'
  BY <1>1, <1>4, Cores DEF IInv, TypeOK, BootInv, Moves, Alone, Off, Coming, PickKernelStack, boot
<1> QED BY <1>2, <1>3, <1>5, <1>6 DEF IInv

LEMMA CountKeeps == ASSUME IInv, NEW c \in Core, Count(c) PROVE IInv'
<1>1. Moves(c, "count", IF started = 0 THEN "configure" ELSE "gather")
  BY StepMoves DEF IInv, Count, Label, Running
<1>2. TypeOK'
  BY <1>1, Cores, Stacks DEF IInv, TypeOK, Moves, Count, section, boot
<1>3. LockInv'
  <2>1. taken' = taken /\ mycounters' = mycounters /\ depth' = depth
    BY DEF Count, section
  <2>2. \A d \in Core : \/ at'[d] = at[d]
                        \/ at[d] \notin Running /\ at'[d] \notin {"locked", "unlock", "end"}
    BY <1>1 DEF Moves, Running
  <2> QED BY <2>1, <2>2, LockFrame
<1>4. \/ c = 0 /\ Coming(0)
      \/ at[0] = "await" /\ c = id /\ Coming(id)
  BY <1>1, OneComing DEF Coming, Moves
<1>5. StackInv'
  BY <1>1, <1>4, Cores DEF IInv, TypeOK, StackInv, BootInv, Moves, Alone, Off, Coming, Count, boot, None, Temp
<1>6. BootInv'
  BY <1>1, <1>4, Cores DEF IInv, TypeOK, BootInv, Moves, Alone, Off, Coming, Count, boot
<1> QED BY <1>2, <1>3, <1>5, <1>6 DEF IInv

LEMMA ConfigureKeeps == ASSUME IInv, NEW c \in Core, Configure(c) PROVE IInv'
<1>1. Moves(c, "configure", "start")
  BY StepMoves DEF IInv, Configure, Label, Running
<1>2. TypeOK'
  BY <1>1, Cores, Stacks DEF IInv, TypeOK, Moves, Configure, section, boot
<1>3. LockInv'
  <2>1. taken' = taken /\ mycounters' = mycounters /\ depth' = depth
    BY DEF Configure, section
  <2>2. \A d \in Core : \/ at'[d] = at[d]
                        \/ at[d] \notin Running /\ at'[d] \notin {"locked", "unlock", "end"}
    BY <1>1 DEF Moves, Running
  <2> QED BY <2>1, <2>2, LockFrame
<1>4. c = 0
  BY <1>1 DEF IInv, BootInv, Moves
<1>5. StackInv'
  BY <1>1, <1>4, Cores DEF IInv, TypeOK, StackInv, BootInv, Moves, Alone, Off, Coming, Configure, boot, None, Temp
<1>6. BootInv'
  <2>1. /\ \A d \in Core \ {0} : at'[d] = "off"
        /\ at'[0] = "start" /\ started > 0 /\ started' = started
        /\ smpInitDone' = TRUE /\ id' = 1
    BY <1>1, <1>4, Cores DEF IInv, BootInv, Alone, Off, Coming, Moves, Configure
  <2>2. started = 1
    BY <1>1, <1>4 DEF IInv, BootInv, Moves
  <2>3. 1 \in 1..N /\ \A d \in Core : d < 1 <=> d = 0
    BY Cores
  <2> QED BY <2>1, <2>2, <2>3, Cores DEF BootInv, Off, Coming
<1> QED BY <1>2, <1>3, <1>5, <1>6 DEF IInv

LEMMA StartNextKeeps == ASSUME IInv, NEW c \in Core, StartNext(c) PROVE IInv'
<1>1. /\ c = 0 /\ at[0] = "start" /\ id \in Core /\ id # 0 /\ Off(id)
  BY Cores DEF IInv, TypeOK, BootInv, StartNext
<1>2. /\ at' \in [Core -> Label] /\ at'[0] = "await" /\ at'[id] = "reset"
      /\ \A d \in Core : d # 0 /\ d # id => at'[d] = at[d]
  BY <1>1, Cores DEF IInv, TypeOK, StartNext, Label
<1>3. TypeOK'
  BY <1>2 DEF IInv, TypeOK, StartNext, boot, section
<1>4. LockInv'
  <2>1. taken' = taken /\ mycounters' = mycounters /\ depth' = depth
    BY DEF StartNext, section
  <2>2. \A d \in Core : \/ at'[d] = at[d]
                        \/ at[d] \notin Running /\ at'[d] \notin {"locked", "unlock", "end"}
    BY <1>1, <1>2 DEF Running, Off
  <2> QED BY <2>1, <2>2, LockFrame
<1>5. StackInv'
  BY <1>1, <1>2 DEF IInv, StackInv, StartNext, boot, Off, None, Temp
<1>6. BootInv'
  BY <1>1, <1>2, Cores DEF IInv, TypeOK, BootInv, Alone, Off, Coming, StartNext, boot
<1> QED BY <1>3, <1>4, <1>5, <1>6 DEF IInv

LEMMA AwaitKeeps == ASSUME IInv, NEW c \in Core, Await(c) PROVE IInv'
<1>1. Moves(c, "await", "start")
  BY StepMoves DEF IInv, Await, Label, Running
<1>2. TypeOK'
  BY <1>1, Cores, Stacks DEF IInv, TypeOK, Moves, Await, section, boot
<1>3. LockInv'
  <2>1. taken' = taken /\ mycounters' = mycounters /\ depth' = depth
    BY DEF Await, section
  <2>2. \A d \in Core : \/ at'[d] = at[d]
                        \/ at[d] \notin Running /\ at'[d] \notin {"locked", "unlock", "end"}
    BY <1>1 DEF Moves, Running
  <2> QED BY <2>1, <2>2, LockFrame
<1>4. c = 0
  BY <1>1 DEF IInv, BootInv, Moves
<1>5. StackInv'
  BY <1>1, <1>4, Cores DEF IInv, TypeOK, StackInv, BootInv, Moves, Alone, Off, Coming, Await, boot, None, Temp
<1>6. BootInv'
  <2>1. /\ id \in 1..N - 1 /\ id \in Core /\ ~Off(id) /\ ~Coming(id)
        /\ started = id + 1 /\ smpInitDone
    BY <1>1, <1>4, Cores DEF IInv, TypeOK, BootInv, Moves, Await
  <2>2. /\ \A d \in Core : at'[d] \in {"configure", "start", "await"} => d = 0
        /\ at'[0] = "start" /\ \A d \in Core \ {0} : at'[d] = at[d]
    BY <1>1, <1>4 DEF IInv, BootInv, Moves
  <2>3. /\ \A d \in Core : d < id' => ~Off(d) /\ ~Coming(d)
        /\ \A d \in Core : ~(d < id') => Off(d)
    <3> SUFFICES ASSUME NEW d \in Core
                 PROVE  IF d < id' THEN ~Off(d) /\ ~Coming(d) ELSE Off(d)
      OBVIOUS
    <3>1. /\ d < id => ~Off(d) /\ ~Coming(d)
          /\ d > id => Off(d)
      BY <1>1, <1>4 DEF IInv, BootInv, Moves
    <3>2. d \in Nat /\ id \in Nat /\ id' = id + 1
      BY <2>1, Cores DEF Await
    <3> QED BY <2>1, <3>1, <3>2
  <2>4. id' \in 1..N /\ started' = id' /\ smpInitDone' /\ 0 < id'
    BY <2>1, Cores DEF Await
  <2> QED BY <2>1, <2>2, <2>3, <2>4, Cores DEF BootInv, Off, Coming
<1> QED BY <1>2, <1>3, <1>5, <1>6 DEF IInv

LEMMA AllStartedKeeps == ASSUME IInv, NEW c \in Core, AllStarted(c) PROVE IInv'
<1>1. Moves(c, "start", "main")
  BY StepMoves DEF IInv, AllStarted, Label, Running
<1>2. TypeOK'
  BY <1>1, Cores, Stacks DEF IInv, TypeOK, Moves, AllStarted, section, boot
<1>3. LockInv'
  <2>1. taken' = taken /\ mycounters' = mycounters /\ depth' = depth
    BY DEF AllStarted, section
  <2>2. \A d \in Core : \/ at'[d] = at[d]
                        \/ at[d] \notin Running /\ at'[d] \notin {"locked", "unlock", "end"}
    BY <1>1 DEF Moves, Running
  <2> QED BY <2>1, <2>2, LockFrame
<1>4. c = 0
  BY <1>1 DEF IInv, BootInv, Moves
<1>5. StackInv'
  BY <1>1, <1>4, Cores DEF IInv, TypeOK, StackInv, BootInv, Moves, Alone, Off, Coming, AllStarted, boot, None, Temp
<1>6. BootInv'
  BY <1>1, <1>4, Cores DEF IInv, TypeOK, BootInv, Moves, Alone, Off, Coming, AllStarted, boot
<1> QED BY <1>2, <1>3, <1>5, <1>6 DEF IInv

LEMMA GatherKeeps == ASSUME IInv, NEW c \in Core, Gather(c) PROVE IInv'
<1>1. Moves(c, "gather", "main")
  BY StepMoves DEF IInv, Gather, Label, Running
<1>2. TypeOK'
  BY <1>1, Cores, Stacks DEF IInv, TypeOK, Moves, Gather, section, boot
<1>3. LockInv'
  <2>1. taken' = taken /\ mycounters' = mycounters /\ depth' = depth
    BY DEF Gather, section
  <2>2. \A d \in Core : \/ at'[d] = at[d]
                        \/ at[d] \notin Running /\ at'[d] \notin {"locked", "unlock", "end"}
    BY <1>1 DEF Moves, Running
  <2> QED BY <2>1, <2>2, LockFrame
<1>4. c # 0 => ~Coming(c) /\ ~Off(c)
  BY <1>1 DEF Coming, Moves, Off
<1>5. StackInv'
  BY <1>1, <1>4, Cores DEF IInv, TypeOK, StackInv, BootInv, Moves, Alone, Off, Coming, Gather, boot, None, Temp
<1>6. BootInv'
  BY <1>1, <1>4, Cores DEF IInv, TypeOK, BootInv, Moves, Alone, Off, Coming, Gather, boot
<1> QED BY <1>2, <1>3, <1>5, <1>6 DEF IInv

LEMMA CallBeginKeeps == ASSUME IInv, NEW c \in Core, CallBegin(c) PROVE IInv'
<1>1. Moves(c, "main", "begin")
  BY StepMoves DEF IInv, CallBegin, Label, Running
<1>2. /\ mycounters[c] \in Nat /\ depth[c] \in Nat
      /\ mycounters' \in [Core -> Nat] /\ depth' \in [Core -> Nat]
      /\ \A d \in Core : d # c => mycounters'[d] = mycounters[d] /\ depth'[d] = depth[d]
  BY <1>1 DEF IInv, TypeOK, LockInv, Moves, CallBegin, section
<1>3. TypeOK'
  BY <1>1, <1>2 DEF IInv, TypeOK, Moves, CallBegin, section, boot
<1>4. StackInv' /\ BootInv'
  BY <1>1, BootFrame DEF CallBegin, Running
<1>5. LockInv'
  BY <1>1, <1>2 DEF IInv, TypeOK, LockInv, Owns, Moves, CallBegin, section
<1> QED BY <1>3, <1>4, <1>5 DEF IInv

LEMMA NestKeeps == ASSUME IInv, NEW c \in Core, Nest(c) PROVE IInv'
<1>1. Moves(c, "begin", "main")
  BY StepMoves DEF IInv, Nest, Label, Running
<1>2. /\ mycounters[c] \in Nat /\ depth[c] \in Nat
      /\ mycounters' \in [Core -> Nat] /\ depth' \in [Core -> Nat]
      /\ \A d \in Core : d # c => mycounters'[d] = mycounters[d] /\ depth'[d] = depth[d]
  BY <1>1 DEF IInv, TypeOK, LockInv, Moves, Nest, section
<1>3. TypeOK'
  BY <1>1, <1>2 DEF IInv, TypeOK, Moves, Nest, section, boot
<1>4. StackInv' /\ BootInv'
  BY <1>1, BootFrame DEF Nest, Running
<1>5. LockInv'
  BY <1>1, <1>2 DEF IInv, TypeOK, LockInv, Owns, Moves, Nest, section
<1> QED BY <1>3, <1>4, <1>5 DEF IInv

LEMMA WantLockKeeps == ASSUME IInv, NEW c \in Core, WantLock(c) PROVE IInv'
<1>1. Moves(c, "begin", "lock")
  BY StepMoves DEF IInv, WantLock, Label, Running
<1>2. /\ mycounters[c] \in Nat /\ depth[c] \in Nat
      /\ mycounters' \in [Core -> Nat] /\ depth' \in [Core -> Nat]
      /\ \A d \in Core : d # c => mycounters'[d] = mycounters[d] /\ depth'[d] = depth[d]
  BY <1>1 DEF IInv, TypeOK, LockInv, Moves, WantLock, section
<1>3. TypeOK'
  BY <1>1, <1>2 DEF IInv, TypeOK, Moves, WantLock, section, boot
<1>4. StackInv' /\ BootInv'
  BY <1>1, BootFrame DEF WantLock, Running
<1>5. LockInv'
  BY <1>1, <1>2 DEF IInv, TypeOK, LockInv, Owns, Moves, WantLock, section
<1> QED BY <1>3, <1>4, <1>5 DEF IInv

LEMMA LockKeeps == ASSUME IInv, NEW c \in Core, Lock(c) PROVE IInv'
<1>1. Moves(c, "lock", IF taken THEN "lock" ELSE "locked")
  BY StepMoves DEF IInv, Lock, Label, Running
<1>2. /\ mycounters[c] \in Nat /\ depth[c] \in Nat
      /\ mycounters' \in [Core -> Nat] /\ depth' \in [Core -> Nat]
      /\ \A d \in Core : d # c => mycounters'[d] = mycounters[d] /\ depth'[d] = depth[d]
  BY <1>1 DEF IInv, TypeOK, LockInv, Moves, Lock, section
<1>3. TypeOK'
  BY <1>1, <1>2 DEF IInv, TypeOK, Moves, Lock, section, boot
<1>4. StackInv' /\ BootInv'
  BY <1>1, BootFrame DEF Lock, Running
<1>5. LockInv'
  BY <1>1, <1>2 DEF IInv, TypeOK, LockInv, Owns, Moves, Lock, section
<1> QED BY <1>3, <1>4, <1>5 DEF IInv

LEMMA EnterKeeps == ASSUME IInv, NEW c \in Core, Enter(c) PROVE IInv'
<1>1. Moves(c, "locked", "main")
  BY StepMoves DEF IInv, Enter, Label, Running
<1>2. /\ mycounters[c] \in Nat /\ depth[c] \in Nat
      /\ mycounters' \in [Core -> Nat] /\ depth' \in [Core -> Nat]
      /\ \A d \in Core : d # c => mycounters'[d] = mycounters[d] /\ depth'[d] = depth[d]
  BY <1>1 DEF IInv, TypeOK, LockInv, Moves, Enter, section
<1>3. TypeOK'
  BY <1>1, <1>2 DEF IInv, TypeOK, Moves, Enter, section, boot
<1>4. StackInv' /\ BootInv'
  BY <1>1, BootFrame DEF Enter, Running
<1>5. LockInv'
  BY <1>1, <1>2 DEF IInv, TypeOK, LockInv, Owns, Moves, Enter, section
<1> QED BY <1>3, <1>4, <1>5 DEF IInv

LEMMA CallEndKeeps == ASSUME IInv, NEW c \in Core, CallEnd(c) PROVE IInv'
<1>1. Moves(c, "main", "end")
  BY StepMoves DEF IInv, CallEnd, Label, Running
<1>2. /\ mycounters[c] \in Nat /\ depth[c] \in Nat
      /\ mycounters' \in [Core -> Nat] /\ depth' \in [Core -> Nat]
      /\ \A d \in Core : d # c => mycounters'[d] = mycounters[d] /\ depth'[d] = depth[d]
  BY <1>1 DEF IInv, TypeOK, LockInv, Moves, CallEnd, section
<1>3. TypeOK'
  BY <1>1, <1>2 DEF IInv, TypeOK, Moves, CallEnd, section, boot
<1>4. StackInv' /\ BootInv'
  BY <1>1, BootFrame DEF CallEnd, Running
<1>5. LockInv'
  BY <1>1, <1>2 DEF IInv, TypeOK, LockInv, Owns, Moves, CallEnd, section
<1> QED BY <1>3, <1>4, <1>5 DEF IInv

LEMMA EndKeeps == ASSUME IInv, NEW c \in Core, End(c) PROVE IInv'
<1>1. Moves(c, "end", IF mycounters[c] <= 1 THEN "unlock" ELSE "main")
  BY StepMoves DEF IInv, End, Label, Running
<1>2. /\ mycounters[c] \in Nat /\ depth[c] \in Nat
      /\ mycounters' \in [Core -> Nat] /\ depth' \in [Core -> Nat]
      /\ \A d \in Core : d # c => mycounters'[d] = mycounters[d] /\ depth'[d] = depth[d]
  BY <1>1 DEF IInv, TypeOK, LockInv, Moves, End, section
<1>3. TypeOK'
  BY <1>1, <1>2 DEF IInv, TypeOK, Moves, End, section, boot
<1>4. StackInv' /\ BootInv'
  BY <1>1, BootFrame DEF End, Running
<1>5. LockInv'
  BY <1>1, <1>2 DEF IInv, TypeOK, LockInv, Owns, Moves, End, section
<1> QED BY <1>3, <1>4, <1>5 DEF IInv

LEMMA UnlockKeeps == ASSUME IInv, NEW c \in Core, Unlock(c) PROVE IInv'
<1>1. Moves(c, "unlock", "main")
  BY StepMoves DEF IInv, Unlock, Label, Running
<1>2. /\ mycounters[c] \in Nat /\ depth[c] \in Nat
      /\ mycounters' \in [Core -> Nat] /\ depth' \in [Core -> Nat]
      /\ \A d \in Core : d # c => mycounters'[d] = mycounters[d] /\ depth'[d] = depth[d]
  BY <1>1 DEF IInv, TypeOK, LockInv, Moves, Unlock, section
<1>3. TypeOK'
  BY <1>1, <1>2 DEF IInv, TypeOK, Moves, Unlock, section, boot
<1>4. StackInv' /\ BootInv'
  BY <1>1, BootFrame DEF Unlock, Running
<1>5. LockInv'
  BY <1>1, <1>2 DEF IInv, TypeOK, LockInv, Owns, Moves, Unlock, section
<1> QED BY <1>3, <1>4, <1>5 DEF IInv

LEMMA NextKeeps == IInv /\ [Next]_vars => IInv'
<1> SUFFICES ASSUME IInv, [Next]_vars PROVE IInv'
  OBVIOUS
<1>1. ASSUME NEW c \in Core, Boot(c) PROVE IInv'
  BY <1>1, ResetKeeps, PickKernelStackKeeps, CountKeeps, ConfigureKeeps,
     StartNextKeeps, AwaitKeeps, AllStartedKeeps, GatherKeeps DEF Boot
<1>2. ASSUME NEW c \in Core, Section(c) PROVE IInv'
  BY <1>2, NestKeeps, WantLockKeeps, LockKeeps, EnterKeeps, EndKeeps, UnlockKeeps DEF Section
<1>3. CASE UNCHANGED vars
  BY <1>3 DEF vars, boot, section, IInv, TypeOK, StackInv, BootInv, LockInv, Owns,
              Alone, Off, Coming
<1> QED BY <1>1, <1>2, <1>3, CallBeginKeeps, CallEndKeeps DEF Next

\* The invariant of the boot and of the critical sections (init.cc:28-73,
\* critical.cc) holds in every reachable state.
THEOREM BootAndLockInvariant == Spec => []IInv
BY InitHolds, NextKeeps, PTL DEF Spec

\* However calls of critical_begin and critical_end nest, two cores are never
\* between them at once.
THEOREM CriticalExclusive == Spec => []MutualExclusion
<1>1. IInv => MutualExclusion
  BY DEF IInv, LockInv, MutualExclusion, Owns, TypeOK
<1> QED BY <1>1, BootAndLockInvariant, PTL

\* No core is ever on another's stack, tempStack included.
THEOREM BootStacksExclusive == Spec => []StacksExclusive
<1>1. IInv => StacksExclusive
  <2> SUFFICES ASSUME IInv, NEW c \in Core, NEW d \in Core,
                      stack[c] # None, stack[c] = stack[d]
               PROVE  c = d
    BY DEF StacksExclusive
  <2>1. CASE at[c] = "pick" /\ at[d] = "pick"
    <3>1. Coming(c) /\ Coming(d)
      BY <2>1 DEF Coming
    <3>2. at[0] = "await" => ~Coming(0)
      BY DEF Coming
    <3> QED BY <3>1, <3>2, OneComing
  <2>2. CASE ~(at[c] = "pick" /\ at[d] = "pick")
    BY <2>2, Cores DEF IInv, StackInv, None, Temp
  <2> QED BY <2>1, <2>2
<1> QED BY <1>1, BootAndLockInvariant, PTL
-----------------------------------------------------------------------------
(* The locks of the heaps *)

CONSTANTS Caller, ArrayLen, CountDown, Words, Bytes

VARIABLES heap, live, failed, heapLock, pc, arg, local, todo, before

\* Both heaps, a write at a time; they call some variables by other names.
Best == INSTANCE BestFitSteps WITH taken <- heapLock
First == INSTANCE FirstFitSteps WITH Core <- Caller, block <- local, taken <- heapLock

Inside(c) == pc[c] # "out"

\* The lock is heapLock exactly while one caller is in malloc or free; all the others
\* are out and have nothing to write, and while nobody is inside the heap is as
\* the last one left it.
OneInside ==
  /\ DOMAIN pc = Caller /\ DOMAIN todo = Caller /\ heapLock \in BOOLEAN
  /\ \A c, d \in Caller : Inside(c) /\ Inside(d) => c = d
  /\ heapLock <=> \E c \in Caller : Inside(c)
  /\ \A c \in Caller : ~Inside(c) => todo[c] = <<>>
  /\ ~heapLock => heap = before

\* A step is one of the caller inside, or takes the lock while nobody is: the
\* lock of heap.cc keeps any number of callers apart, whichever way each
\* call goes and wherever it is interrupted.
THEOREM BestFitCallsAreApart == Best!Spec => []OneInside
<1>1. ASSUME Best!Init PROVE OneInside
  <2>1. /\ heapLock = FALSE /\ before = heap
        /\ pc = [c \in Caller |-> "out"] /\ todo = [c \in Caller |-> <<>>]
    BY <1>1 DEF Best!Init
  <2>2. QED
    BY <2>1 DEF OneInside, Inside
<1>2. ASSUME OneInside, [Best!Next]_Best!stepVars PROVE OneInside'
  <2>1. SUFFICES ASSUME NEW c \in Caller, Best!Step(c) PROVE OneInside'
    <3>1. CASE UNCHANGED Best!stepVars
      BY <1>2, <3>1 DEF OneInside, Inside, Best!stepVars
    <3>2. QED
      BY <1>2, <2>1, <3>1 DEF Best!Next
  <2>2. CASE Best!Store(c)
    BY <1>2, <2>2 DEF OneInside, Inside, Best!Store
  <2>3. ASSUME NEW where, where # "out", NEW x, Best!Lock(c, where, x) PROVE OneInside'
    BY <1>2, <2>3 DEF OneInside, Inside, Best!Lock, Best!At, Best!Go
  <2>4. CASE Best!malloc(c) \/ Best!free(c)
    BY <2>3, <2>4 DEF Best!malloc, Best!free
  <2>5. ASSUME NEW from, from # "out", Best!At(c, from), Best!Look,
               NEW to, to # "out", NEW writes, Best!Go(c, to, writes)
        PROVE  OneInside'
    BY <1>2, <2>5 DEF OneInside, Inside, Best!At, Best!Look, Best!Go
  <2>6. CASE Best!Search(c) \/ Best!Found(c) \/ Best!NotFound(c) \/ Best!Cut(c) \/ Best!Measure(c)
             \/ Best!Merged(c) \/ Best!Find(c) \/ Best!MergeLeft(c) \/ Best!MergeRight(c)
    <3>1. CASE Best!Search(c)
      <4>1. Best!At(c, "malloc") /\ Best!Look /\ Best!Go(c, "find", <<>>)
        BY <3>1 DEF Best!Search
      <4>2. QED
        BY <2>5, <4>1
    <3>2. CASE Best!Found(c)
      <4>1. Best!At(c, "find") /\ Best!Look /\ (\E writes : Best!Go(c, "cut", writes))
        BY <3>2 DEF Best!Found
      <4>2. QED
        BY <2>5, <4>1
    <3>3. CASE Best!NotFound(c)
      <4>1. Best!At(c, "find") /\ Best!Look /\ Best!Go(c, "failed", <<>>)
        BY <3>3 DEF Best!NotFound
      <4>2. QED
        BY <2>5, <4>1
    <3>4. CASE Best!Cut(c)
      <4>1. Best!At(c, "cut") /\ Best!Look /\ (\E writes : Best!Go(c, "found", writes))
        BY <3>4 DEF Best!Cut
      <4>2. QED
        BY <2>5, <4>1
    <3>5. CASE Best!Measure(c)
      <4>1. Best!At(c, "free") /\ Best!Look /\ Best!Go(c, "merge left", <<>>)
        BY <3>5 DEF Best!Measure
      <4>2. QED
        BY <2>5, <4>1
    <3>6. CASE Best!Merged(c)
      <4>1. Best!At(c, "merged") /\ Best!Look /\ (\E writes : Best!Go(c, "freed", writes))
        BY <3>6 DEF Best!Merged
      <4>2. QED
        BY <2>5, <4>1
    <3>7. CASE Best!Find(c)
      <4>1. Best!At(c, "find") /\ Best!Look /\ UNCHANGED <<pc, todo>>
        BY <3>7 DEF Best!Find
      <4>2. QED
        BY <1>2, <4>1 DEF OneInside, Best!Look, Inside
    <3>8. CASE Best!MergeLeft(c)
      <4>1. Best!At(c, "merge left") /\ Best!Look /\ (\E writes : Best!Go(c, "merge right", writes))
        BY <3>8 DEF Best!MergeLeft, Best!Merge
      <4>2. QED
        BY <2>5, <4>1
    <3>9. CASE Best!MergeRight(c)
      <4>1. Best!At(c, "merge right") /\ Best!Look /\ (\E writes : Best!Go(c, "merged", writes))
        BY <3>9 DEF Best!MergeRight, Best!Merge
      <4>2. QED
        BY <2>5, <4>1
    <3>10. QED
      BY <2>6, <3>1, <3>2, <3>3, <3>4, <3>5, <3>6, <3>7, <3>8, <3>9
  <2>7. CASE Best!Unlock(c)
    <3>1. /\ Inside(c) /\ ~heapLock' /\ heapLock' \in BOOLEAN /\ before' = heap /\ heap' = heap
          /\ pc' = [pc EXCEPT ![c] = "out"] /\ todo' = [todo EXCEPT ![c] = <<>>]
      BY <2>7 DEF Best!Unlock, Best!Go, Inside
    <3>2. QED
      BY <1>2, <3>1 DEF OneInside, Inside
  <2>8. QED
    BY <2>1, <2>2, <2>4, <2>6, <2>7 DEF Best!Step
<1>3. QED
  BY <1>1, <1>2, PTL DEF Best!Spec

\* The lock s of p2 and p3: the same, for each of its seven ways out.
THEOREM FirstFitCallsAreApart == First!Spec => []OneInside
<1>1. ASSUME First!Init PROVE OneInside
  <2>1. /\ heapLock = FALSE /\ before = heap
        /\ pc = [c \in Caller |-> "out"] /\ todo = [c \in Caller |-> <<>>]
    BY <1>1 DEF First!Init
  <2>2. QED
    BY <2>1 DEF OneInside, Inside
<1>2. ASSUME OneInside, [First!Next]_First!stepVars PROVE OneInside'
  <2>1. SUFFICES ASSUME NEW c \in Caller, First!Step(c) PROVE OneInside'
    <3>1. CASE UNCHANGED First!stepVars
      BY <1>2, <3>1 DEF OneInside, Inside, First!stepVars, First!locals
    <3>2. QED
      BY <1>2, <2>1, <3>1 DEF First!Next
  <2>2. CASE First!Store(c)
    BY <1>2, <2>2 DEF OneInside, Inside, First!Store
  <2>3. ASSUME NEW where, where # "out", NEW x, First!Lock(c, where, x) PROVE OneInside'
    BY <1>2, <2>3 DEF OneInside, Inside, First!Lock, First!At, First!Go
  <2>4. CASE First!Malloc(c) \/ First!Free(c)
    BY <2>3, <2>4 DEF First!Malloc, First!Free
  <2>5. ASSUME NEW from, from # "out", First!At(c, from), First!Look,
               NEW to, to # "out", NEW writes, First!Go(c, to, writes)
        PROVE  OneInside'
    BY <1>2, <2>5 DEF OneInside, Inside, First!At, First!Look, First!Go
  <2>6. CASE First!Begin(c) \/ First!NotFound(c) \/ First!Found(c) \/ First!FreeNothing(c) \/ First!FreeBlock(c)
             \/ First!Find(c) \/ First!MergeRight(c) \/ First!MergeLeft(c)
    <3>1. CASE First!Begin(c)
      <4>1. First!At(c, "malloc") /\ First!Look /\ (\E to \in {"find", "nothing", "failed"} : First!Go(c, to, <<>>))
        BY <3>1 DEF First!Begin
      <4>2. QED
        BY <2>5, <4>1
    <3>2. CASE First!NotFound(c)
      <4>1. First!At(c, "find") /\ First!Look /\ First!Go(c, "failed", <<>>)
        BY <3>2 DEF First!NotFound
      <4>2. QED
        BY <2>5, <4>1
    <3>3. CASE First!Found(c)
      <4>1. First!At(c, "find") /\ First!Look /\ (\E writes : First!Go(c, "found", writes))
        BY <3>3 DEF First!Found
      <4>2. QED
        BY <2>5, <4>1
    <3>4. CASE First!FreeNothing(c)
      <4>1. First!At(c, "free") /\ First!Look /\ First!Go(c, "nothing", <<>>)
        BY <3>4 DEF First!FreeNothing
      <4>2. QED
        BY <2>5, <4>1
    <3>5. CASE First!FreeBlock(c)
      <4>1. First!At(c, "free") /\ First!Look /\ (\E writes : First!Go(c, "merge right", writes))
        BY <3>5 DEF First!FreeBlock
      <4>2. QED
        BY <2>5, <4>1
    <3>6. CASE First!Find(c)
      <4>1. First!At(c, "find") /\ First!Look /\ UNCHANGED <<pc, todo>>
        BY <3>6 DEF First!Find
      <4>2. QED
        BY <1>2, <4>1 DEF OneInside, First!Look, Inside
    <3>7. CASE First!MergeRight(c)
      <4>1. First!At(c, "merge right") /\ First!Look /\ (\E writes : First!Go(c, "merge left", writes))
        BY <3>7 DEF First!MergeRight, First!Merge
      <4>2. QED
        BY <2>5, <4>1
    <3>8. CASE First!MergeLeft(c)
      <4>1. First!At(c, "merge left") /\ First!Look /\ (\E writes : First!Go(c, "freed", writes))
        BY <3>8 DEF First!MergeLeft, First!Merge
      <4>2. QED
        BY <2>5, <4>1
    <3>9. QED
      BY <2>6, <3>1, <3>2, <3>3, <3>4, <3>5, <3>6, <3>7, <3>8
  <2>7. CASE First!Unlock(c)
    <3>1. /\ Inside(c) /\ ~heapLock' /\ heapLock' \in BOOLEAN /\ before' = heap /\ heap' = heap
          /\ pc' = [pc EXCEPT ![c] = "out"] /\ todo' = [todo EXCEPT ![c] = <<>>]
      BY <2>7 DEF First!Unlock, First!Go, Inside
    <3>2. QED
      BY <1>2, <3>1 DEF OneInside, Inside
  <2>8. QED
    BY <2>1, <2>2, <2>4, <2>6, <2>7 DEF First!Step
<1>3. QED
  BY <1>1, <1>2, PTL DEF First!Spec
=============================================================================
