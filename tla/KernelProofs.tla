---------------------------- MODULE KernelProofs -----------------------------
(***************************************************************************)
(* Proofs about Kernel: the order of the boot of p2 to p6 for any number   *)
(* of cores and whatever the firmware leaves, and that the driver of p6    *)
(* does what Disk says, for drives and sectors of any size.                *)
(***************************************************************************)
EXTENDS Kernel, FunctionTheorems, FiniteSetTheorems, SequenceTheorems, TLAPS

-----------------------------------------------------------------------------
(* The inductive invariant of the boot *)

From(list, k) == SubSeq(list, k, Len(list))
Plan(c) == kernelInit(c = 0)

\* The places of SMP::init and of the start of the others in the plan of core 0.
Registers0 == IF stage = "p2" THEN 5 ELSE 6
Wake0 == IF stage = "p2" THEN 6 ELSE 9

\* What a step of kernelInit leaves for all that follow.
Did(step) ==
  CASE step = "config" -> /\ kConfig # None
                          /\ kConfig.memSize = memInfo.above1M + 2^20
                          /\ kConfig.totalProcs = N /\ kConfig.ioAPIC # None
    [] step = "heap" -> "heap" \in ready
    [] step = "uart" -> sink = "heap"
    [] step = "threads" -> /\ "threads" \in ready
                           /\ activeThreads = IF stage = "p6" THEN Core ELSE 0..3
    [] step = "smpFirst" -> "registers" \in ready /\ smpInitDone
    [] step = "calibrate" -> "apitCounter" \in ready
    [] step = "handler" -> APIT_vector \in idt
    [] step = "wake" -> id = N
    [] step \in {"all", "gather"} -> all_here
    [] OTHER -> TRUE

\* Core c has come as far as step k of its plan, and maybe waits for one it has started.
Reached(c, k) ==
  /\ stack[c] = c
  /\ k \in 1..Len(Plan(c)) + 1
  /\ todo[c] = From(Plan(c), k)
  /\ \A i \in 1..k - 1 : Did(Plan(c)[i])

Awaiting(k) ==
  /\ stack[0] = 0
  /\ k = Wake0 /\ id < N
  /\ todo[0] = <<"await">> \o From(Plan(0), k)
  /\ \A i \in 1..k - 1 : Did(Plan(0)[i])

Sleeps(c) == stack[c] = Off /\ todo[c] = <<>>
Coming(c) ==
  \/ todo[c] = Reset /\ stack[c] = Off
  \/ todo[c] = <<"pick", "count">> /\ stack[c] = Temp
  \/ todo[c] = <<"count">> /\ stack[c] = c
Counted(c) == stack[c] = c /\ todo[c] # <<"count">>

\* The first core is alone until it has counted, and starts the others after Did.
FirstCore ==
  \/ /\ Coming(0)
     /\ started = 0 /\ id = 0 /\ ~smpInitDone /\ ~all_here
     /\ \A c \in Core \ {0} : Sleeps(c)
  \/ /\ \E k \in 1..Len(Plan(0)) + 1 :
          /\ Reached(0, k) \/ Awaiting(k)
          /\ k <= Registers0 => id = 0 /\ ~smpInitDone
          /\ k > Registers0 => id >= 1 /\ smpInitDone
          /\ k < Wake0 => id <= 1 /\ ~all_here
     /\ started = IF id = 0 THEN 1 ELSE IF At(0, "await") /\ Counted(id) THEN id + 1 ELSE id

\* Those before id have counted, and id itself is on its way while it is waited for.
OtherCores ==
  \A c \in Core \ {0} :
    /\ Sleeps(c) \/ Coming(c) \/ \E k \in 1..Len(Plan(c)) + 1 : Reached(c, k)
    /\ c < id => Counted(c)
    /\ c = id => (At(0, "await") <=> ~Sleeps(c))
    /\ c > id => Sleeps(c)

Arrived == {c \in Core : stack[c] = c /\ todo[c] = <<>>}

\* Who has arrived is counted; kernelMain is for the last one, or for all when all are there.
Mains ==
  /\ all_here => id = N
  /\ stage = "p2" => (mains > 0 => all_here) /\ mains \in Nat
  /\ stage # "p2" => /\ howManyAreHere = Cardinality(Arrived)
                     /\ mains = IF howManyAreHere = N THEN 1 ELSE 0

\* Interrupts are let in by p5 and p6 alone, when there is somebody to handle them.
Ticks ==
  \A c \in Core : intr[c] =>
    /\ stage # "p2" /\ APIT_vector \in idt /\ {"heap", "threads"} \subseteq ready
    /\ activeThreads = IF stage = "p6" THEN Core ELSE 0..3

BootInv ==
  /\ stage \in Stage
  /\ DOMAIN todo = Core /\ DOMAIN stack = Core /\ DOMAIN intr = Core
  /\ id \in 0..N
  /\ ip \in {"enter", "entered"} => memInfo \in Reports
  /\ ip # "entered" => todo[0] = Reset
  /\ FirstCore /\ OtherCores /\ Mains /\ Ticks

-----------------------------------------------------------------------------
(* The plans *)

\* What is left of a list behind a step of it.
LEMMA Rest ==
  ASSUME NEW S, NEW list \in Seq(S), NEW k \in 1..Len(list) + 1
  PROVE  /\ From(list, k) \in Seq(S) /\ Len(From(list, k)) = Len(list) + 1 - k
         /\ k <= Len(list) => /\ From(list, k) # <<>>
                              /\ Head(From(list, k)) = list[k]
                              /\ Tail(From(list, k)) = From(list, k + 1)
         /\ k = Len(list) + 1 => From(list, k) = <<>>
         /\ From(list, 1) = list
<1>1. Len(list) \in Nat /\ (\A i \in k..Len(list) : list[i] \in S)
  BY LenProperties, ElementOfSeq
<1>2. From(list, k) \in Seq(S) /\ Len(From(list, k)) = Len(list) + 1 - k
  BY <1>1, SubSeqProperties DEF From
<1>3. k <= Len(list) => /\ Head(From(list, k)) = list[k]
                        /\ Tail(From(list, k)) = From(list, k + 1)
  BY <1>1, HeadTailOfSubSeq DEF From
<1>4. From(list, 1) = list
  BY SubSeqFull DEF From
<1>5. k = Len(list) + 1 => From(list, k) = <<>>
  BY <1>1, SubSeqEmpty DEF From
<1>6. k <= Len(list) => From(list, k) # <<>>
  BY <1>1, <1>2, EmptySeq
<1> QED
  BY <1>2, <1>3, <1>4, <1>5, <1>6

\* The steps of kernelInit.
Steps == {"print", "config", "heap", "uart", "threads", "smpFirst", "calibrate", "handler", "wake",
          "unscope", "all", "main", "smp", "gather", "timer", "sti", "arrive"}

\* The plans of core 0.
First2 == <<"print", "config", "heap", "uart", "smpFirst", "wake", "all", "main">>
First4 == <<"print", "config", "heap", "uart", "threads", "smpFirst", "calibrate",
           "handler", "wake", "timer", "arrive">>
First5 == <<"print", "config", "heap", "uart", "threads", "smpFirst", "calibrate",
           "handler", "wake", "timer", "sti", "arrive">>
First6 == <<"print", "config", "heap", "uart", "threads", "smpFirst", "calibrate",
           "handler", "wake", "unscope", "timer", "sti", "arrive">>

LEMMA StepsOnly ==
  /\ First2 \in Seq(Steps) /\ First4 \in Seq(Steps)
  /\ First5 \in Seq(Steps) /\ First6 \in Seq(Steps)
<1>1. First2 \in Seq(Steps)
  BY DEF First2, Steps
<1>2. First4 \in Seq(Steps)
  BY DEF First4, Steps
<1>3. First5 \in Seq(Steps)
  BY DEF First5, Steps
<1>4. First6 \in Seq(Steps)
  BY DEF First6, Steps
<1> QED
  BY <1>1, <1>2, <1>3, <1>4

\* What core 0 does before it starts the others, and then.
LEMMA PlanOfFirst ==
  ASSUME stage \in Stage, NEW list, list = Plan(0)
  PROVE  /\ list \in Seq(Steps)
         /\ list[1] = "print" /\ list[2] = "config" /\ list[3] = "heap" /\ list[4] = "uart"
         /\ stage = "p2" => /\ Len(list) = 8 /\ list[5] = "smpFirst" /\ list[6] = "wake"
                            /\ list[7] = "all" /\ list[8] = "main"
         /\ stage # "p2" => /\ Len(list) >= 11 /\ list[5] = "threads" /\ list[6] = "smpFirst"
                            /\ list[7] = "calibrate" /\ list[8] = "handler" /\ list[9] = "wake"
         /\ stage = "p4" => /\ Len(list) = 11 /\ list[10] = "timer" /\ list[11] = "arrive"
         /\ stage = "p5" => /\ Len(list) = 12 /\ list[10] = "timer" /\ list[11] = "sti"
                            /\ list[12] = "arrive"
         /\ stage = "p6" => /\ Len(list) = 13 /\ list[10] = "unscope" /\ list[11] = "timer"
                            /\ list[12] = "sti" /\ list[13] = "arrive"
<1>1. CASE stage = "p2"
  <2>1. list = kernelInit2(0 = 0)
    BY <1>1 DEF Plan, kernelInit
  <2>2. list = First2
    BY <2>1 DEF kernelInit2, First2
  <2>3. list \in Seq(Steps)
    BY <2>2, StepsOnly
  <2>4. /\ Len(list) = 8 /\ list[1] = "print" /\ list[2] = "config" /\ list[3] = "heap"
        /\ list[4] = "uart" /\ list[5] = "smpFirst" /\ list[6] = "wake" /\ list[7] = "all"
        /\ list[8] = "main"
    BY <2>2 DEF First2
  <2> QED
    BY <1>1, <2>3, <2>4
<1>2. CASE stage = "p4"
  <2>1. list = kernelInit4(0 = 0)
    BY <1>2 DEF Plan, kernelInit
  <2>2. list = First4
    BY <2>1 DEF kernelInit4, First4
  <2>3. list \in Seq(Steps)
    BY <2>2, StepsOnly
  <2>4. /\ Len(list) = 11 /\ list[1] = "print" /\ list[2] = "config" /\ list[3] = "heap"
        /\ list[4] = "uart" /\ list[5] = "threads" /\ list[6] = "smpFirst" /\ list[7] = "calibrate"
        /\ list[8] = "handler" /\ list[9] = "wake" /\ list[10] = "timer" /\ list[11] = "arrive"
    BY <2>2 DEF First4
  <2> QED
    BY <1>2, <2>3, <2>4
<1>3. CASE stage = "p5"
  <2>1. list = kernelInit5(0 = 0)
    BY <1>3 DEF Plan, kernelInit
  <2>2. list = First5
    BY <2>1 DEF kernelInit5, First5
  <2>3. list \in Seq(Steps)
    BY <2>2, StepsOnly
  <2>4. /\ Len(list) = 12 /\ list[1] = "print" /\ list[2] = "config" /\ list[3] = "heap"
        /\ list[4] = "uart" /\ list[5] = "threads" /\ list[6] = "smpFirst" /\ list[7] = "calibrate"
        /\ list[8] = "handler" /\ list[9] = "wake" /\ list[10] = "timer" /\ list[11] = "sti"
        /\ list[12] = "arrive"
    BY <2>2 DEF First5
  <2> QED
    BY <1>3, <2>3, <2>4
<1>4. CASE stage = "p6"
  <2>1. list = kernelInit6(0 = 0)
    BY <1>4 DEF Plan, kernelInit
  <2>2. list = First6
    BY <2>1 DEF kernelInit6, First6
  <2>3. list \in Seq(Steps)
    BY <2>2, StepsOnly
  <2>4. /\ Len(list) = 13 /\ list[1] = "print" /\ list[2] = "config" /\ list[3] = "heap"
        /\ list[4] = "uart" /\ list[5] = "threads" /\ list[6] = "smpFirst" /\ list[7] = "calibrate"
        /\ list[8] = "handler" /\ list[9] = "wake" /\ list[10] = "unscope" /\ list[11] = "timer"
        /\ list[12] = "sti" /\ list[13] = "arrive"
    BY <2>2 DEF First6
  <2> QED
    BY <1>4, <2>3, <2>4
<1> QED
  BY <1>1, <1>2, <1>3, <1>4 DEF Stage

LEMMA PlanOfOthers ==
  ASSUME stage \in Stage, NEW c \in Core \ {0}, NEW list, list = Plan(c)
  PROVE  /\ list \in Seq(Steps)
         /\ list[1] = "smp"
         /\ stage = "p2" => Len(list) = 3 /\ list[2] = "gather" /\ list[3] = "main"
         /\ stage = "p4" => Len(list) = 3 /\ list[2] = "timer" /\ list[3] = "arrive"
         /\ stage \in {"p5", "p6"} =>
                  Len(list) = 4 /\ list[2] = "timer" /\ list[3] = "sti" /\ list[4] = "arrive"
<1>1. CASE stage = "p2"
  <2>1. list = kernelInit2(c = 0)
    BY <1>1 DEF Plan, kernelInit
  <2>2. list = <<"smp", "gather", "main">>
    BY <2>1 DEF kernelInit2
  <2>3. list \in Seq(Steps)
    BY <2>2 DEF Steps
  <2> QED
    BY <1>1, <2>2, <2>3
<1>2. CASE stage = "p4"
  <2>1. list = kernelInit4(c = 0)
    BY <1>2 DEF Plan, kernelInit
  <2>2. list = <<"smp", "timer", "arrive">>
    BY <2>1 DEF kernelInit4
  <2>3. list \in Seq(Steps)
    BY <2>2 DEF Steps
  <2> QED
    BY <1>2, <2>2, <2>3
<1>3. CASE stage = "p5"
  <2>1. list = kernelInit5(c = 0)
    BY <1>3 DEF Plan, kernelInit
  <2>2. list = <<"smp", "timer", "sti", "arrive">>
    BY <2>1 DEF kernelInit5
  <2>3. list \in Seq(Steps)
    BY <2>2 DEF Steps
  <2> QED
    BY <1>3, <2>2, <2>3
<1>4. CASE stage = "p6"
  <2>1. list = kernelInit6(c = 0)
    BY <1>4 DEF Plan, kernelInit
  <2>2. list = <<"smp", "timer", "sti", "arrive">>
    BY <2>1 DEF kernelInit6
  <2>3. list \in Seq(Steps)
    BY <2>2 DEF Steps
  <2> QED
    BY <1>4, <2>2, <2>3
<1> QED
  BY <1>1, <1>2, <1>3, <1>4 DEF Stage

LEMMA PlansAreLists ==
  ASSUME stage \in Stage, NEW c \in Core
  PROVE  Plan(c) \in Seq(Steps) /\ Len(Plan(c)) \in Nat /\ Len(Plan(c)) >= 3
<1>1. PICK list : list = Plan(c)
  OBVIOUS
<1>2. CASE c = 0
  BY <1>1, <1>2, PlanOfFirst DEF Stage
<1>3. CASE c # 0
  BY <1>1, <1>3, PlanOfOthers DEF Stage
<1> QED
  BY <1>2, <1>3

LEMMA Cores == N \in Nat /\ N > 0 /\ 0 \in Core /\ (\A c : c \in Core <=> c \in Nat /\ c < N)
BY StartupAssumption DEF Core

-----------------------------------------------------------------------------
(* Where a core is *)

\* A core in its plan has the rest of it to do.
LEMMA InPlan ==
  ASSUME stage \in Stage, NEW c \in Core, NEW k, Reached(c, k)
  PROVE  /\ k \in Nat /\ k >= 1 /\ k <= Len(Plan(c)) + 1
         /\ k <= Len(Plan(c)) => /\ todo[c] # <<>> /\ Head(todo[c]) = Plan(c)[k]
                                 /\ Plan(c)[k] \in Steps
                                 /\ Tail(todo[c]) = From(Plan(c), k + 1)
         /\ k = Len(Plan(c)) + 1 => todo[c] = <<>>
         /\ Len(todo[c]) = Len(Plan(c)) + 1 - k
<1>1. PICK list \in Seq(Steps) : list = Plan(c) /\ Len(list) \in Nat
  BY PlansAreLists
<1>2. k \in 1..Len(list) + 1 /\ todo[c] = From(list, k)
  BY <1>1 DEF Reached
<1>3. k <= Len(list) => list[k] \in Steps
  BY <1>1, <1>2, ElementOfSeq
<1> QED
  BY <1>1, <1>2, <1>3, Rest

\* Core 0 waits before it goes on with its plan.
LEMMA InWait ==
  ASSUME stage \in Stage, NEW k, Awaiting(k)
  PROVE  /\ At(0, "await") /\ Tail(todo[0]) = From(Plan(0), k)
         /\ k = Wake0 /\ k \in Nat /\ k >= 6 /\ k <= Len(Plan(0)) /\ Plan(0)[k] = "wake"
<1>1. PICK list \in Seq(Steps) : list = Plan(0) /\ Len(list) \in Nat
  BY PlansAreLists, Cores
<1>2. k = Wake0 /\ k \in Nat /\ k >= 6 /\ k <= Len(list) /\ list[k] = "wake"
  BY <1>1, PlanOfFirst DEF Awaiting, Wake0, Stage
<1>3. PICK rest : rest = From(list, k)
  OBVIOUS
<1>4. rest \in Seq(Steps)
  BY <1>1, <1>2, <1>3, Rest
<1>5. /\ <<"await">> \o rest # <<>> /\ Head(<<"await">> \o rest) = "await"
      /\ Tail(<<"await">> \o rest) = rest
  BY <1>4
<1>6. todo[0] = <<"await">> \o rest
  BY <1>1, <1>3 DEF Awaiting
<1> QED
  BY <1>1, <1>2, <1>3, <1>5, <1>6 DEF At

LEMMA InComing ==
  ASSUME NEW c \in Core, Coming(c)
  PROVE  /\ todo[c] # <<>> /\ Head(todo[c]) \in {"reset", "pick", "count"}
         /\ At(c, "reset") => /\ todo[c] = Reset /\ stack[c] = Off
                              /\ Tail(todo[c]) = <<"pick", "count">>
         /\ At(c, "pick") => /\ todo[c] = <<"pick", "count">> /\ stack[c] = Temp
                             /\ Tail(todo[c]) = <<"count">>
         /\ At(c, "count") => todo[c] = <<"count">> /\ stack[c] = c
         /\ ~Counted(c)
<1>1. c # Off /\ c # Temp
  BY Cores DEF Off, Temp
<1>2. CASE todo[c] = Reset /\ stack[c] = Off
  <2>1. todo[c] # <<>> /\ Head(todo[c]) = "reset" /\ Tail(todo[c]) = <<"pick", "count">>
    BY <1>2 DEF Reset
  <2> QED
    BY <1>1, <1>2, <2>1 DEF At, Counted
<1>3. CASE todo[c] = <<"pick", "count">> /\ stack[c] = Temp
  <2>1. todo[c] # <<>> /\ Head(todo[c]) = "pick" /\ Tail(todo[c]) = <<"count">>
    BY <1>3
  <2> QED
    BY <1>1, <1>3, <2>1 DEF At, Counted
<1>4. CASE todo[c] = <<"count">> /\ stack[c] = c
  <2>1. todo[c] # <<>> /\ Head(todo[c]) = "count"
    BY <1>4
  <2> QED
    BY <1>1, <1>4, <2>1 DEF At, Counted
<1> QED
  BY <1>2, <1>3, <1>4 DEF Coming

\* Every core is in one of these places.
LEMMA Whereabouts ==
  ASSUME BootInv, NEW c \in Core
  PROVE  \/ Sleeps(c) /\ c # 0
         \/ Coming(c)
         \/ \E k \in 1..Len(Plan(c)) + 1 : Reached(c, k)
         \/ c = 0 /\ \E k \in 1..Len(Plan(0)) + 1 : Awaiting(k)
<1>1. CASE c = 0
  BY <1>1 DEF BootInv, FirstCore
<1>2. CASE c # 0
  BY <1>2 DEF BootInv, OtherCores
<1> QED
  BY <1>1, <1>2

LEMMA Where ==
  ASSUME BootInv, NEW c \in Core, NEW s \in Steps, At(c, s)
  PROVE  \E k \in 1..Len(Plan(c)) : Reached(c, k) /\ Plan(c)[k] = s
<1>1. s \notin {"reset", "pick", "count", "await"}
  BY DEF Steps
<1>2. ~Sleeps(c)
  BY DEF Sleeps, At
<1>3. ~Coming(c)
  BY <1>1, InComing DEF At
<1>4. ~(c = 0 /\ \E k \in 1..Len(Plan(0)) + 1 : Awaiting(k))
  BY <1>1, InWait DEF At, BootInv
<1>5. PICK k \in 1..Len(Plan(c)) + 1 : Reached(c, k)
  BY <1>2, <1>3, <1>4, Whereabouts
<1>6. Len(Plan(c)) \in Nat /\ stage \in Stage
  BY PlansAreLists DEF BootInv
<1> QED
  BY <1>5, <1>6, InPlan DEF At

\* Which step stands where.
LEMMA Order ==
  ASSUME stage \in Stage, NEW c \in Core, NEW k \in 1..Len(Plan(c)), NEW s, s = Plan(c)[k]
  PROVE  /\ s = "print" => c = 0 /\ k = 1
         /\ s = "config" => c = 0 /\ k = 2
         /\ s = "heap" => c = 0 /\ k = 3
         /\ s = "uart" => c = 0 /\ k = 4
         /\ s = "threads" => c = 0 /\ k = 5 /\ stage # "p2"
         /\ s = "smpFirst" <=> c = 0 /\ k = Registers0
         /\ s \in {"calibrate", "handler"} => c = 0 /\ k < Wake0 /\ k > Registers0 /\ stage # "p2"
         /\ s = "wake" <=> c = 0 /\ k = Wake0
         /\ s = "all" => c = 0 /\ k = 7 /\ stage = "p2"
         /\ s = "gather" => c # 0 /\ k = 2 /\ stage = "p2"
         /\ s = "main" => stage = "p2" /\ (c = 0 => k = 8) /\ (c # 0 => k = 3)
         /\ s = "smp" => c # 0
         /\ s \in {"unscope", "timer", "sti", "arrive"} => stage # "p2" /\ (c = 0 => k > Wake0)
         /\ s = "sti" => stage \in {"p5", "p6"}
         /\ stage # "p2" => (s = "arrive" <=> k = Len(Plan(c)))
         /\ s \in Steps
<1>1. PICK list : list = Plan(c) /\ s = list[k] /\ k \in 1..Len(list)
  OBVIOUS
<1>2. CASE c = 0
  <2>1. CASE stage = "p2"
    <3>1. k \in 1..8
      BY <1>1, <1>2, <2>1, PlanOfFirst
    <3>2. k = 1 \/ k = 2 \/ k = 3 \/ k = 4 \/ k = 5 \/ k = 6 \/ k = 7 \/ k = 8
      BY <3>1
    <3> QED
      BY <1>1, <1>2, <2>1, <3>2, PlanOfFirst DEF Wake0, Registers0, Steps
  <2>2. CASE stage # "p2"
    <3>2. /\ list[1] = "print" /\ list[2] = "config" /\ list[3] = "heap" /\ list[4] = "uart"
          /\ list[5] = "threads" /\ list[6] = "smpFirst" /\ list[7] = "calibrate"
          /\ list[8] = "handler" /\ list[9] = "wake"
      BY <1>1, <1>2, <2>2, PlanOfFirst
    <3>3. CASE stage = "p4"
      <4>1. Len(list) = 11 /\ list[10] = "timer" /\ list[11] = "arrive"
        BY <1>1, <1>2, <3>3, PlanOfFirst
      <4>2. k \in 1..11
        BY <1>1, <4>1
      <4>3. \/ k = 1 /\ s = "print"
            \/ k = 2 /\ s = "config"
            \/ k = 3 /\ s = "heap"
            \/ k = 4 /\ s = "uart"
            \/ k = 5 /\ s = "threads"
            \/ k = 6 /\ s = "smpFirst"
            \/ k = 7 /\ s = "calibrate"
            \/ k = 8 /\ s = "handler"
            \/ k = 9 /\ s = "wake"
            \/ k = 10 /\ s = "timer"
            \/ k = 11 /\ s = "arrive"
        BY <1>1, <3>2, <4>1, <4>2
      <4>4. /\ s = "smpFirst" <=> c = 0 /\ k = Registers0
            /\ s \in {"calibrate", "handler"} => k < Wake0 /\ k > Registers0
            /\ s = "wake" <=> c = 0 /\ k = Wake0
            /\ s \in {"unscope", "timer", "sti", "arrive"} => k > Wake0
        BY <1>2, <3>3, <4>3 DEF Wake0, Registers0
      <4>5. (s = "arrive" <=> k = Len(Plan(c))) /\ s \in Steps
        BY <1>1, <4>1, <4>3 DEF Steps
      <4> QED
        BY <1>2, <3>3, <4>3, <4>4, <4>5
    <3>4. CASE stage = "p5"
      <4>1. Len(list) = 12 /\ list[10] = "timer" /\ list[11] = "sti" /\ list[12] = "arrive"
        BY <1>1, <1>2, <3>4, PlanOfFirst
      <4>2. k \in 1..12
        BY <1>1, <4>1
      <4>3. \/ k = 1 /\ s = "print"
            \/ k = 2 /\ s = "config"
            \/ k = 3 /\ s = "heap"
            \/ k = 4 /\ s = "uart"
            \/ k = 5 /\ s = "threads"
            \/ k = 6 /\ s = "smpFirst"
            \/ k = 7 /\ s = "calibrate"
            \/ k = 8 /\ s = "handler"
            \/ k = 9 /\ s = "wake"
            \/ k = 10 /\ s = "timer"
            \/ k = 11 /\ s = "sti"
            \/ k = 12 /\ s = "arrive"
        BY <1>1, <3>2, <4>1, <4>2
      <4>4. /\ s = "smpFirst" <=> c = 0 /\ k = Registers0
            /\ s \in {"calibrate", "handler"} => k < Wake0 /\ k > Registers0
            /\ s = "wake" <=> c = 0 /\ k = Wake0
            /\ s \in {"unscope", "timer", "sti", "arrive"} => k > Wake0
        BY <1>2, <3>4, <4>3 DEF Wake0, Registers0
      <4>5. (s = "arrive" <=> k = Len(Plan(c))) /\ s \in Steps
        BY <1>1, <4>1, <4>3 DEF Steps
      <4> QED
        BY <1>2, <3>4, <4>3, <4>4, <4>5
    <3>5. CASE stage = "p6"
      <4>1. Len(list) = 13 /\ list[10] = "unscope" /\ list[11] = "timer" /\ list[12] = "sti"
          /\ list[13] = "arrive"
        BY <1>1, <1>2, <3>5, PlanOfFirst
      <4>2. k \in 1..13
        BY <1>1, <4>1
      <4>3. \/ k = 1 /\ s = "print"
            \/ k = 2 /\ s = "config"
            \/ k = 3 /\ s = "heap"
            \/ k = 4 /\ s = "uart"
            \/ k = 5 /\ s = "threads"
            \/ k = 6 /\ s = "smpFirst"
            \/ k = 7 /\ s = "calibrate"
            \/ k = 8 /\ s = "handler"
            \/ k = 9 /\ s = "wake"
            \/ k = 10 /\ s = "unscope"
            \/ k = 11 /\ s = "timer"
            \/ k = 12 /\ s = "sti"
            \/ k = 13 /\ s = "arrive"
        BY <1>1, <3>2, <4>1, <4>2
      <4>4. /\ s = "smpFirst" <=> c = 0 /\ k = Registers0
            /\ s \in {"calibrate", "handler"} => k < Wake0 /\ k > Registers0
            /\ s = "wake" <=> c = 0 /\ k = Wake0
            /\ s \in {"unscope", "timer", "sti", "arrive"} => k > Wake0
        BY <1>2, <3>5, <4>3 DEF Wake0, Registers0
      <4>5. (s = "arrive" <=> k = Len(Plan(c))) /\ s \in Steps
        BY <1>1, <4>1, <4>3 DEF Steps
      <4> QED
        BY <1>2, <3>5, <4>3, <4>4, <4>5
    <3> QED
      BY <2>2, <3>3, <3>4, <3>5 DEF Stage
  <2> QED
    BY <2>1, <2>2
<1>3. CASE c # 0
  <2>1. CASE stage = "p2"
    <3>1. Len(list) = 3 /\ list[1] = "smp" /\ list[2] = "gather" /\ list[3] = "main"
      BY <1>1, <1>3, <2>1, PlanOfOthers
    <3>2. k = 1 \/ k = 2 \/ k = 3
      BY <1>1, <3>1
    <3> QED
      BY <1>1, <1>3, <2>1, <3>1, <3>2 DEF Steps
  <2>2. CASE stage = "p4"
    <3>1. Len(list) = 3 /\ list[1] = "smp" /\ list[2] = "timer" /\ list[3] = "arrive"
      BY <1>1, <1>3, <2>2, PlanOfOthers
    <3>2. k = 1 \/ k = 2 \/ k = 3
      BY <1>1, <3>1
    <3> QED
      BY <1>1, <1>3, <2>2, <3>1, <3>2 DEF Steps
  <2>3. CASE stage \in {"p5", "p6"}
    <3>1. /\ Len(list) = 4 /\ list[1] = "smp" /\ list[2] = "timer" /\ list[3] = "sti"
          /\ list[4] = "arrive"
      BY <1>1, <1>3, <2>3, PlanOfOthers
    <3>2. k = 1 \/ k = 2 \/ k = 3 \/ k = 4
      BY <1>1, <3>1
    <3> QED
      BY <1>1, <1>3, <2>3, <3>1, <3>2 DEF Steps
  <2> QED
    BY <2>1, <2>2, <2>3 DEF Stage
<1> QED
  BY <1>2, <1>3

\* A core that is not asleep was started when all that core 0 does before was done.
LEMMA Opened ==
  ASSUME BootInv, NEW c \in Core \ {0}, ~Sleeps(c)
  PROVE  /\ id >= 1 /\ started >= 1 /\ smpInitDone /\ c <= id /\ Counted(0)
         /\ \A i \in 1..Wake0 - 1 : Did(Plan(0)[i])
<1>1. c <= id /\ id >= 1 /\ id \in Nat /\ id \in 0..N
  BY Cores DEF BootInv, OtherCores
<1>2. PICK k \in 1..Len(Plan(0)) + 1 :
        /\ Reached(0, k) \/ Awaiting(k)
        /\ k <= Registers0 => id = 0 /\ ~smpInitDone
        /\ k > Registers0 => id >= 1 /\ smpInitDone
        /\ k < Wake0 => id <= 1 /\ ~all_here
  BY DEF BootInv, FirstCore
<1>3. started = IF id = 0 THEN 1 ELSE IF At(0, "await") /\ Counted(id) THEN id + 1 ELSE id
  BY <1>1 DEF BootInv, FirstCore
<1>4. k \in Nat /\ Len(Plan(0)) \in Nat /\ stage \in Stage
  BY PlansAreLists, Cores DEF BootInv
<1>5. ASSUME k < Wake0 PROVE FALSE
  <2>1. c = id
    BY <1>1, <1>2, <1>5, Cores
  <2>2. At(0, "await")
    BY <2>1 DEF BootInv, OtherCores
  <2>3. Reached(0, k)
    BY <1>2, <1>4, <1>5, InWait
  <2>4. todo[0] = <<>> \/ Head(todo[0]) \in Steps
    BY <1>4, <2>3, InPlan, Cores
  <2> QED
    BY <2>2, <2>4 DEF At, Steps
<1>6. k >= Wake0 /\ Wake0 \in Nat
  BY <1>4, <1>5 DEF Wake0
<1>7. Counted(0)
  <2>1. CASE Reached(0, k)
    <3>1. todo[0] = <<>> \/ Head(todo[0]) \in Steps
      BY <1>4, <2>1, InPlan, Cores
    <3>2. <<"count">> # <<>> /\ Head(<<"count">>) = "count" /\ "count" \notin Steps
      BY DEF Steps
    <3> QED
      BY <2>1, <3>1, <3>2 DEF Counted, Reached
  <2>2. CASE Awaiting(k)
    <3>1. stack[0] = 0 /\ Head(todo[0]) = "await"
      BY <1>4, <2>2, InWait DEF Awaiting, At
    <3>2. todo[0] # <<"count">>
      BY <3>1
    <3> QED
      BY <3>1, <3>2 DEF Counted
  <2> QED
    BY <1>2, <2>1, <2>2
<1>8. k > Registers0
  BY <1>6 DEF Wake0, Registers0
<1>9. \A i \in 1..Wake0 - 1 : Did(Plan(0)[i])
  BY <1>2, <1>4, <1>6 DEF Reached, Awaiting
<1> QED
  BY <1>1, <1>2, <1>3, <1>7, <1>8, <1>9

-----------------------------------------------------------------------------
(* One core takes the next step of its plan *)

\* A core that is in its plan is counted and waits for nobody.
LEMMA InPlanMeans ==
  ASSUME stage \in Stage, NEW c \in Core, NEW k, Reached(c, k)
  PROVE  Counted(c) /\ ~At(c, "await") /\ ~Sleeps(c)
<1>1. todo[c] = <<>> \/ Head(todo[c]) \in Steps
  BY InPlan, PlansAreLists
<1>2. <<"count">> # <<>> /\ Head(<<"count">>) = "count" /\ "count" \notin Steps /\ "await" \notin Steps
  BY DEF Steps
<1>3. c # Off
  BY Cores DEF Off
<1> QED
  BY <1>1, <1>2, <1>3 DEF Counted, Reached, At, Sleeps

\* The plans are those of the stage.
LEMMA SamePlans ==
  ASSUME UNCHANGED stage, NEW c
  PROVE  Plan(c)' = Plan(c)
<1>1. kernelInit(c = 0)' = kernelInit(c = 0)
  BY Zenon DEF kernelInit, kernelInit2, kernelInit4, kernelInit5, kernelInit6
<1> QED
  BY <1>1, Zenon DEF Plan

LEMMA GoesOn ==
  ASSUME BootInv, NEW c \in Core, NEW k \in 1..Len(Plan(c)), Reached(c, k),
         NEW s, s = Plan(c)[k], Do(c, s),
         UNCHANGED <<stage, stack, started>>,
         id' = IF s = "smpFirst" THEN 1 ELSE id,
         smpInitDone' <=> s = "smpFirst" \/ smpInitDone,
         all_here' <=> s = "all" \/ all_here,
         \A x \in Steps : /\ Did(x)
                          /\ ~(x = "wake" /\ s = "smpFirst") /\ ~(x = "uart" /\ s = "print")
                          => Did(x)',
         Did(s)'
  PROVE  FirstCore' /\ OtherCores'
<1>1. /\ stage \in Stage /\ id \in Nat /\ N \in Nat /\ id <= N /\ k \in Nat /\ 0 \in Core
      /\ \A d \in Core : Plan(d)' = Plan(d) /\ Len(Plan(d)) \in Nat
      /\ Wake0' = Wake0 /\ Registers0' = Registers0
      /\ Wake0 \in Nat /\ Registers0 \in Nat /\ Registers0 < Wake0
  <2>1. stage \in Stage /\ id \in Nat /\ N \in Nat /\ id <= N /\ k \in Nat /\ 0 \in Core
    BY PlansAreLists, Cores DEF BootInv
  <2>2. \A d \in Core : Plan(d)' = Plan(d) /\ Len(Plan(d)) \in Nat
    BY <2>1, PlansAreLists, SamePlans
  <2> QED
    BY <2>1, <2>2 DEF Wake0, Registers0
<1>2. todo' = [todo EXCEPT ![c] = From(Plan(c), k + 1)] /\ DOMAIN todo = Core
  <2>1. Tail(todo[c]) = From(Plan(c), k + 1)
    BY <1>1, InPlan
  <2> QED
    BY <2>1 DEF Do, BootInv
<1>3. /\ s = "smpFirst" <=> c = 0 /\ k = Registers0
      /\ s = "wake" <=> c = 0 /\ k = Wake0
      /\ s = "print" => c = 0 /\ k = 1
      /\ s = "all" => c = 0 /\ k >= Wake0
      /\ s \in Steps
  BY <1>1, Order DEF Wake0
\* What has been done by a core in its plan stays done.
<1>4. ASSUME NEW d \in Core, NEW j \in 1..Len(Plan(d)) + 1, d = c => j <= k,
             \A i \in 1..j - 1 : Did(Plan(d)[i])
      PROVE  \A i \in 1..j - 1 : Did(Plan(d)[i])'
  <2>1. SUFFICES ASSUME NEW i \in 1..j - 1 PROVE Did(Plan(d)[i])'
    OBVIOUS
  <2>2. i \in 1..Len(Plan(d)) /\ Did(Plan(d)[i])
    BY <1>1, <1>4
  <2>3. PICK x : x = Plan(d)[i]
    OBVIOUS
  <2>4. x \in Steps /\ (x = "wake" => d = 0 /\ i = Wake0) /\ (x = "uart" => d = 0)
    BY <1>1, <2>2, <2>3, Order
  <2>5. ~(x = "wake" /\ s = "smpFirst") /\ ~(x = "uart" /\ s = "print")
    BY <1>1, <1>3, <1>4, <2>2, <2>4
  <2>6. Did(x)'
    BY <2>2, <2>3, <2>4, <2>5
  <2> QED
    BY <1>1, <2>3, <2>6
<1>5. Reached(c, k + 1)'
  <2>1. \A i \in 1..k - 1 : Did(Plan(c)[i])'
    BY <1>1, <1>4 DEF Reached
  <2>2. \A i \in 1..k : Did(Plan(c)[i])'
    BY <1>1, <2>1
  <2> QED
    BY <1>1, <1>2, <2>2 DEF Reached
\* Every other core is where it was.
<1>6. ASSUME NEW d \in Core, d # c
      PROVE  /\ todo'[d] = todo[d] /\ stack'[d] = stack[d]
             /\ Sleeps(d)' <=> Sleeps(d)
             /\ Coming(d) => Coming(d)'
             /\ Counted(d)' <=> Counted(d)
             /\ At(d, "await")' <=> At(d, "await")
             /\ \A j \in 1..Len(Plan(d)) + 1 : Reached(d, j) => Reached(d, j)'
  <2>1. todo'[d] = todo[d] /\ stack'[d] = stack[d]
    BY <1>2, <1>6
  <2>2. ASSUME NEW j \in 1..Len(Plan(d)) + 1, Reached(d, j) PROVE Reached(d, j)'
    <3>1. \A i \in 1..j - 1 : Did(Plan(d)[i])'
      BY <1>4, <1>6, <2>2 DEF Reached
    <3> QED
      BY <1>1, <2>1, <2>2, <3>1 DEF Reached
  <2> QED
    BY <2>1, <2>2 DEF Sleeps, Coming, Counted, At
<1>7. Counted(c) /\ Counted(c)' /\ ~At(c, "await") /\ ~At(c, "await")' /\ ~Sleeps(c) /\ ~Sleeps(c)'
  <2>1. stack'[c] = c /\ c # Off /\ Off' = Off
    BY Cores DEF Reached, Off
  <2>2. todo'[c] = <<>> \/ Head(todo'[c]) \in Steps
    <3>1. PICK list \in Seq(Steps) : list = Plan(c) /\ Len(list) \in Nat
      BY <1>1, PlansAreLists
    <3>2. k + 1 \in 1..Len(list) + 1
      BY <1>1, <3>1
    <3>3. k + 1 <= Len(list) => list[k + 1] \in Steps
      BY <1>1, <3>1, <3>2, ElementOfSeq
    <3> QED
      BY <1>1, <1>2, <3>1, <3>2, <3>3, Rest
  <2>3. <<"count">> # <<>> /\ Head(<<"count">>) = "count" /\ "count" \notin Steps /\ "await" \notin Steps
    BY DEF Steps
  <2> QED
    BY <1>1, <2>1, <2>2, <2>3, InPlanMeans DEF Counted, At, Sleeps
<1>8. ASSUME c = 0
      PROVE  /\ k <= Registers0 => id = 0 /\ ~smpInitDone
             /\ k > Registers0 => id >= 1 /\ smpInitDone
             /\ k < Wake0 => id <= 1 /\ ~all_here
             /\ started = IF id = 0 THEN 1 ELSE id
  <2>1. ~Coming(0) /\ (\A j : ~Awaiting(j))
    BY <1>1, <1>7, <1>8, InComing, InWait
  <2>2. PICK j \in 1..Len(Plan(0)) + 1 :
          /\ Reached(0, j)
          /\ j <= Registers0 => id = 0 /\ ~smpInitDone
          /\ j > Registers0 => id >= 1 /\ smpInitDone
          /\ j < Wake0 => id <= 1 /\ ~all_here
    BY <2>1 DEF BootInv, FirstCore
  <2>3. started = IF id = 0 THEN 1 ELSE IF At(0, "await") /\ Counted(id) THEN id + 1 ELSE id
    BY <2>1 DEF BootInv, FirstCore
  <2>4. j = k
    <3>1. Len(todo[0]) = Len(Plan(0)) + 1 - j /\ Len(todo[0]) = Len(Plan(0)) + 1 - k
      BY <1>1, <1>8, <2>2, InPlan
    <3> QED
      BY <1>1, <1>8, <3>1
  <2> QED
    BY <1>7, <1>8, <2>2, <2>3, <2>4
<1>9. FirstCore'
  <2>1. CASE c = 0
    <3>5. k + 1 \in 1..Len(Plan(0)) + 1
      BY <1>1, <2>1
    <3>6. /\ k + 1 <= Registers0 => id' = 0 /\ ~smpInitDone'
          /\ k + 1 > Registers0 => id' >= 1 /\ smpInitDone'
          /\ k + 1 < Wake0 => id' <= 1 /\ ~all_here'
      BY <1>1, <1>3, <1>8, <2>1
    <3>7. started' = IF id' = 0 THEN 1 ELSE id'
      BY <1>1, <1>3, <1>8, <2>1
    <3> QED
      BY <1>1, <1>5, <1>7, <2>1, <3>5, <3>6, <3>7 DEF FirstCore
  <2>2. CASE c # 0
    <3>1. /\ Counted(0) /\ id >= 1 /\ id' = id
          /\ (smpInitDone' <=> smpInitDone) /\ (all_here' <=> all_here) /\ started' = started
      BY <1>3, <1>7, <2>2, Opened
    <3>2. ~Coming(0)
      BY <1>1, <3>1, InComing
    <3>3. PICK j \in 1..Len(Plan(0)) + 1 :
            /\ Reached(0, j) \/ Awaiting(j)
            /\ j <= Registers0 => id = 0 /\ ~smpInitDone
            /\ j > Registers0 => id >= 1 /\ smpInitDone
            /\ j < Wake0 => id <= 1 /\ ~all_here
      BY <3>2 DEF BootInv, FirstCore
    <3>4. started = IF id = 0 THEN 1 ELSE IF At(0, "await") /\ Counted(id) THEN id + 1 ELSE id
      BY <3>2 DEF BootInv, FirstCore
    <3>5. Reached(0, j)' \/ Awaiting(j)'
      <4>1. CASE Reached(0, j)
        BY <1>1, <1>6, <2>2, <4>1
      <4>2. CASE Awaiting(j)
        <5>1. \A i \in 1..j - 1 : Did(Plan(0)[i])'
          BY <1>1, <1>4, <2>2, <4>2 DEF Awaiting
        <5> QED
          BY <1>1, <1>6, <2>2, <3>1, <4>2, <5>1 DEF Awaiting
      <4> QED
        BY <3>3, <4>1, <4>2
    <3>6. At(0, "await")' <=> At(0, "await")
      BY <1>1, <1>6, <2>2
    <3>7. id \in Core /\ At(0, "await") => (Counted(id)' <=> Counted(id))
      BY <1>6, <1>7, <3>1
    <3>8. At(0, "await") => id \in Core
      BY <1>1, <1>7, <3>3, InPlanMeans, Cores DEF Awaiting
    <3>9. started' = IF id' = 0 THEN 1 ELSE IF At(0, "await")' /\ Counted(id)' THEN id' + 1 ELSE id'
      BY <3>1, <3>4, <3>6, <3>7, <3>8
    <3> QED
      BY <1>1, <3>1, <3>3, <3>5, <3>9 DEF FirstCore
  <2> QED
    BY <2>1, <2>2
<1>10. OtherCores'
  <2>1. SUFFICES ASSUME NEW d \in Core \ {0}
        PROVE  /\ Sleeps(d)' \/ Coming(d)' \/ \E j \in 1..Len(Plan(d)') + 1 : Reached(d, j)'
               /\ d < id' => Counted(d)'
               /\ d = id' => (At(0, "await")' <=> ~Sleeps(d)')
               /\ d > id' => Sleeps(d)'
    BY DEF OtherCores
  <2>2. /\ Sleeps(d) \/ Coming(d) \/ \E j \in 1..Len(Plan(d)) + 1 : Reached(d, j)
        /\ d < id => Counted(d)
        /\ d = id => (At(0, "await") <=> ~Sleeps(d))
        /\ d > id => Sleeps(d)
    BY DEF BootInv, OtherCores
  <2>3. Sleeps(d)' \/ Coming(d)' \/ \E j \in 1..Len(Plan(d)') + 1 : Reached(d, j)'
    <3>1. CASE d = c
      <4>1. k + 1 \in 1..Len(Plan(d)') + 1
        BY <1>1, <3>1
      <4> QED
        BY <1>5, <3>1, <4>1
    <3>2. CASE d # c
      BY <1>1, <1>6, <2>2, <3>2
    <3> QED
      BY <3>1, <3>2
  <2>4. d < id' => Counted(d)'
    BY <1>1, <1>3, <1>6, <1>7, <2>2, Cores
  <2>5. Sleeps(d)' <=> Sleeps(d)
    BY <1>1, <1>5, <1>6, <1>7
  <2>6. At(0, "await")' <=> At(0, "await")
    BY <1>1, <1>6, <1>7
  <2>7. CASE s = "smpFirst"
    <3>1. id = 0
      BY <1>1, <1>3, <1>8, <2>7
    <3> QED
      BY <1>1, <1>3, <1>7, <2>2, <2>3, <2>4, <2>5, <2>6, <2>7, <3>1, Cores
  <2>8. CASE s # "smpFirst"
    BY <2>2, <2>3, <2>4, <2>5, <2>6, <2>8
  <2> QED
    BY <2>7, <2>8
<1> QED
  BY <1>9, <1>10

\* What a core that stands at a step of its plan can rely on.
LEMMA Before ==
  ASSUME BootInv, NEW c \in Core, NEW s \in Steps, At(c, s)
  PROVE  /\ c = 0 /\ s \notin {"print", "config"} => Did("config")
         /\ c = 0 /\ s \notin {"print", "config", "heap"} => Did("heap")
         /\ c = 0 /\ s \notin {"print", "config", "heap", "uart"} => Did("uart")
         /\ s \in {"smp", "gather", "wake", "unscope", "all", "timer", "sti", "arrive"} =>
              Did("config") /\ Did("heap") /\ Did("uart") /\ Did("smpFirst")
         /\ s \in {"timer", "sti", "arrive"} =>
              stage # "p2" /\ Did("threads") /\ Did("calibrate") /\ Did("handler")
         /\ s = "all" => Did("wake")
         /\ s = "main" => Did("all") /\ stage = "p2"
         /\ s \in {"threads", "calibrate", "handler"} => c = 0 /\ stage # "p2"
         /\ s = "smpFirst" => ~all_here
         /\ s = "sti" => stage \in {"p5", "p6"}
<1>1. PICK k \in 1..Len(Plan(c)) : Reached(c, k) /\ Plan(c)[k] = s
  BY Where
<1>2. k \in Nat /\ stage \in Stage
  BY PlansAreLists DEF BootInv
<1>3. CASE c = 0
  <2>1. PICK list : list = Plan(0)
    OBVIOUS
  <2>2. /\ list[2] = "config" /\ list[3] = "heap" /\ list[4] = "uart"
        /\ stage = "p2" => list[5] = "smpFirst" /\ list[6] = "wake" /\ list[7] = "all"
        /\ stage # "p2" => /\ list[5] = "threads" /\ list[6] = "smpFirst"
                           /\ list[7] = "calibrate" /\ list[8] = "handler" /\ list[9] = "wake"
    BY <1>2, <2>1, PlanOfFirst
  <2>3. \A i \in Nat : i >= 1 /\ i < k => Did(list[i])
    BY <1>1, <1>2, <1>3, <2>1 DEF Reached
  <2>4. /\ k > 2 => Did("config")
        /\ k > 3 => Did("heap")
        /\ k > 4 => Did("uart")
        /\ stage = "p2" => (k > 5 => Did("smpFirst")) /\ (k > 6 => Did("wake")) /\ (k > 7 => Did("all"))
        /\ stage # "p2" => /\ k > 5 => Did("threads")
                           /\ k > 6 => Did("smpFirst")
                           /\ k > 7 => Did("calibrate")
                           /\ k > 8 => Did("handler")
    BY <2>2, <2>3
  <2>5. /\ k = 1 => s = "print"
        /\ k = 2 => s = "config"
        /\ k = 3 => s = "heap"
        /\ k = 4 => s = "uart"
    BY <1>1, <1>2, <1>3, PlanOfFirst
  <2>6. s = "smpFirst" => ~all_here
    <3>1. SUFFICES ASSUME s = "smpFirst" PROVE ~all_here
      OBVIOUS
    <3>2. k = Registers0 /\ k < Wake0 /\ Wake0 \in Nat
      BY <1>1, <1>2, <3>1, Order DEF Registers0, Wake0
    <3>3. ~Coming(0) /\ (\A j : ~Awaiting(j))
      BY <1>1, <1>2, <1>3, InPlanMeans, InComing, InWait
    <3>4. PICK j \in 1..Len(Plan(0)) + 1 :
            Reached(0, j) /\ (j < Wake0 => id <= 1 /\ ~all_here)
      BY <3>3 DEF BootInv, FirstCore
    <3>5. j = k
      <4>1. Len(todo[0]) = Len(Plan(0)) + 1 - j /\ Len(todo[0]) = Len(Plan(0)) + 1 - k
        BY <1>1, <1>2, <1>3, <3>4, InPlan
      <4> QED
        BY <1>2, <1>3, <4>1, PlansAreLists
    <3> QED
      BY <3>2, <3>4, <3>5
  <2> QED
    BY <1>1, <1>2, <1>3, <2>4, <2>5, <2>6, Order DEF Wake0, Registers0
<1>4. CASE c # 0
  <2>1. \A i \in 1..Wake0 - 1 : Did(Plan(0)[i])
    BY <1>1, <1>2, <1>4, InPlanMeans, Opened
  <2>2. PICK list : list = Plan(0)
    OBVIOUS
  <2>3. /\ list[2] = "config" /\ list[3] = "heap" /\ list[4] = "uart"
        /\ stage = "p2" => list[5] = "smpFirst"
        /\ stage # "p2" => /\ list[5] = "threads" /\ list[6] = "smpFirst"
                           /\ list[7] = "calibrate" /\ list[8] = "handler"
    BY <1>2, <2>2, PlanOfFirst
  <2>4. /\ Did("config") /\ Did("heap") /\ Did("uart") /\ Did("smpFirst")
        /\ stage # "p2" => Did("threads") /\ Did("calibrate") /\ Did("handler")
    <3>1. Wake0 - 1 = IF stage = "p2" THEN 5 ELSE 8
      BY DEF Wake0
    <3>2. \A i \in 1..5 : Did(list[i])
      BY <2>1, <2>2, <3>1
    <3>3. stage # "p2" => \A i \in 1..8 : Did(list[i])
      BY <2>1, <2>2, <3>1
    <3> QED
      BY <2>3, <3>2, <3>3
  <2>5. s = "main" => Did("gather")
    <3>1. s = "main" => stage = "p2" /\ k = 3
      BY <1>1, <1>2, <1>4, Order
    <3>2. stage = "p2" => Plan(c)[2] = "gather"
      BY <1>4, PlanOfOthers, <1>2
    <3> QED
      BY <1>1, <3>1, <3>2 DEF Reached
  <2>6. Did("gather") <=> Did("all")
    BY DEF Did
  <2> QED
    BY <1>1, <1>2, <1>4, <2>4, <2>5, <2>6, Order
<1> QED
  BY <1>3, <1>4

-----------------------------------------------------------------------------
(* The rest of the invariant *)

LEMMA CoreIsFinite == IsFiniteSet(Core) /\ Cardinality(Core) = N
BY Cores, FS_Interval DEF Core

\* Who arrives is one more of those who are here.
LEMMA OneMore ==
  ASSUME BootInv, NEW c \in Core, NEW s \in Steps, Do(c, s), UNCHANGED <<stage, stack>>
  PROVE  stage # "p2" => /\ s = "arrive" =>
                               /\ Cardinality(Arrived') = Cardinality(Arrived) + 1
                               /\ Cardinality(Arrived) # N
                         /\ s # "arrive" => Arrived' = Arrived
                         /\ Cardinality(Arrived) \in Nat
<1>1. PICK k \in 1..Len(Plan(c)) : Reached(c, k) /\ Plan(c)[k] = s
  BY Where DEF Do
<1>2. stage \in Stage /\ DOMAIN todo = Core /\ k \in Nat /\ Len(Plan(c)) \in Nat
  BY PlansAreLists DEF BootInv
<1>3. PICK list \in Seq(Steps) : list = Plan(c) /\ Len(list) \in Nat
  BY <1>2, PlansAreLists
<1>4. todo' = [todo EXCEPT ![c] = From(list, k + 1)]
  <2>1. Tail(todo[c]) = From(list, k + 1)
    BY <1>1, <1>2, <1>3, InPlan
  <2> QED
    BY <2>1 DEF Do
<1>5. From(list, k + 1) = <<>> <=> k = Len(list)
  <2>1. k + 1 \in 1..Len(list) + 1
    BY <1>1, <1>2, <1>3
  <2> QED
    BY <1>1, <1>2, <1>3, <2>1, Rest
<1>6. stack[c] = c /\ todo[c] # <<>>
  BY <1>1 DEF Reached, Do, At
<1>7. Arrived' = Arrived \cup (IF k = Len(list) THEN {c} ELSE {}) /\ c \notin Arrived
  BY <1>2, <1>4, <1>5, <1>6 DEF Arrived
<1>8. stage # "p2" => (s = "arrive" <=> k = Len(list))
  BY <1>1, <1>2, <1>3, Order
<1>9. IsFiniteSet(Arrived) /\ Cardinality(Arrived) \in Nat /\ Arrived # Core /\ Arrived \subseteq Core
  <2>1. Arrived \subseteq Core /\ Arrived # Core
    BY <1>7 DEF Arrived
  <2> QED
    BY <2>1, CoreIsFinite, FS_Subset, FS_CardinalityType
<1>10. Cardinality(Arrived) # N
  BY <1>9, CoreIsFinite, FS_Subset
<1>11. Cardinality(Arrived \cup {c}) = Cardinality(Arrived) + 1
  BY <1>7, <1>9, FS_AddElement
<1> QED
  BY <1>7, <1>8, <1>9, <1>10, <1>11

\* A step of a plan that leaves the order, adds up what it counts and takes nothing
\* back keeps the invariant.
LEMMA Keeps ==
  ASSUME BootInv, NEW c \in Core, NEW s \in Steps, Do(c, s),
         UNCHANGED <<stage, stack, started, ip, memInfo>>, ip = "entered",
         id' = IF s = "smpFirst" THEN 1 ELSE id,
         smpInitDone' <=> s = "smpFirst" \/ smpInitDone,
         all_here' <=> s = "all" \/ all_here,
         \A x \in Steps : /\ Did(x)
                          /\ ~(x = "wake" /\ s = "smpFirst") /\ ~(x = "uart" /\ s = "print")
                          => Did(x)',
         Did(s)',
         DOMAIN intr' = Core,
         \A d \in Core : intr'[d] => intr[d] \/ s = "sti",
         idt \subseteq idt', ready \subseteq ready',
         s # "threads" => UNCHANGED activeThreads,
         s = "arrive" => /\ howManyAreHere' = howManyAreHere + 1
                         /\ mains' = IF howManyAreHere' = N THEN mains + 1 ELSE mains,
         s # "arrive" => howManyAreHere' = howManyAreHere,
         s = "main" => mains' = mains + 1,
         s \notin {"main", "arrive"} => mains' = mains
  PROVE  BootInv'
<1>1. FirstCore' /\ OtherCores'
  <2>1. PICK k \in 1..Len(Plan(c)) : Reached(c, k) /\ Plan(c)[k] = s
    BY Where DEF Do
  <2> QED
    BY <2>1, GoesOn
<1>2. /\ stage' \in Stage /\ DOMAIN todo' = Core /\ DOMAIN stack' = Core /\ DOMAIN intr' = Core
      /\ id' \in 0..N
      /\ (ip \in {"enter", "entered"})' => (memInfo \in Reports)'
      /\ (ip # "entered")' => (todo[0] = Reset)'
  BY Cores DEF BootInv, Do
<1>3. Mains'
  <2>1. CASE stage = "p2"
    <3>1. s # "arrive" /\ (s = "all" => id = N) /\ (s = "main" => all_here) /\ (all_here => s # "smpFirst")
      <4>1. s # "arrive" /\ (s = "all" => Did("wake")) /\ (s = "main" => Did("all"))
            /\ (s = "smpFirst" => ~all_here)
        BY <2>1, Before DEF Do
      <4> QED
        BY <4>1 DEF Did
    <3>2. /\ all_here => id = N
          /\ mains > 0 => all_here
          /\ mains \in Nat
      BY <2>1 DEF BootInv, Mains
    <3> QED
      BY <2>1, <3>1, <3>2 DEF Mains
  <2>2. CASE stage # "p2"
    <3>1. s # "main" /\ s # "all"
      <4>1. PICK k \in 1..Len(Plan(c)) : Reached(c, k) /\ Plan(c)[k] = s
        BY Where DEF Do
      <4> QED
        BY <2>2, <4>1, Order DEF BootInv
    <3>2. s = "smpFirst" => ~all_here
      BY Before DEF Do
    <3>3. /\ all_here => id = N
          /\ howManyAreHere = Cardinality(Arrived)
          /\ mains = IF howManyAreHere = N THEN 1 ELSE 0
      BY <2>2 DEF BootInv, Mains
    <3>4. CASE s = "arrive"
      BY <2>2, <3>1, <3>2, <3>3, <3>4, OneMore DEF Mains
    <3>5. CASE s # "arrive"
      <4>1. Arrived' = Arrived
        BY <2>2, <3>5, OneMore
      <4> QED
        BY <2>2, <3>1, <3>2, <3>3, <3>5, <4>1 DEF Mains
    <3> QED
      BY <3>4, <3>5
  <2> QED
    BY <2>1, <2>2
<1>4. Ticks'
  <2>1. SUFFICES ASSUME NEW d \in Core, intr'[d]
        PROVE  /\ stage # "p2" /\ APIT_vector \in idt' /\ {"heap", "threads"} \subseteq ready'
               /\ activeThreads' = IF stage = "p6" THEN Core ELSE 0..3
    BY DEF Ticks
  <2>2. /\ stage # "p2" /\ APIT_vector \in idt /\ {"heap", "threads"} \subseteq ready
        /\ activeThreads = IF stage = "p6" THEN Core ELSE 0..3
    <3>1. CASE s = "sti"
      BY <3>1, Before DEF Do, Did
    <3>2. CASE s # "sti"
      BY <2>1, <3>2 DEF BootInv, Ticks
    <3> QED
      BY <3>1, <3>2
  <2>3. activeThreads' = IF stage = "p6" THEN Core ELSE 0..3
    <3>1. CASE s = "threads"
      BY <3>1 DEF Did
    <3>2. CASE s # "threads"
      BY <2>2, <3>2
    <3> QED
      BY <3>1, <3>2
  <2> QED
    BY <2>2, <2>3
<1> QED
  BY <1>1, <1>2, <1>3, <1>4 DEF BootInv

-----------------------------------------------------------------------------
(* Discovery *)

LEMMA OnlyOne ==
  ASSUME NEW x \in Int
  PROVE  Min({x}) = x /\ Max({x}) = x
BY DEF Min, Max

\* The walk finds the right number: the entry that it skips is that of the core that
\* boots, and what lies behind the table is no other.
LEMMA WalkCounts ==
  ASSUME NEW madt, Describes(madt)
  PROVE  Cardinality(apicInfo(madt)) = N - 1 /\ ioAPIC(madt) # None
<1> DEFINE n == Len(madt.entries)
           Cpus(p) == {i \in 1..n : madt.entries[i].type = "cpu" /\ madt.entries[i].processorId = p}
           E == Examined(madt)
<1>1. /\ n \in Nat \ {0} /\ Cpus(0) = {1}
      /\ \A i \in 1..n : madt.entries[i].type = "cpu" => madt.entries[i].processorId \in Core
      /\ \A p \in 1..N - 1 : \E i \in 2..n : Cpus(p) = {i}
      /\ \E i \in 2..n : /\ {j \in 1..n : madt.entries[j].type = "ioapic"} = {i}
                         /\ madt.entries[i].address # None
      /\ madt.behind.type = "cpu" => madt.behind.processorId = 0
      /\ madt.behind.type # "ioapic"
  BY DEF Describes
<1>2. DOMAIN E = 1..n /\ \A i \in 1..n : E[i] = IF i < n THEN madt.entries[i + 1] ELSE madt.behind
  BY DEF Examined
<1>3. Cardinality(apicInfo(madt)) = N - 1
  <2> DEFINE S == apicInfo(madt)
             f == [i \in S |-> E[i].processorId]
  <2>1. S = {i \in 1..n : E[i].type = "cpu" /\ E[i].processorId # 0}
    BY <1>2 DEF apicInfo
  <2>2. ASSUME NEW i \in S
        PROVE  /\ i \in 1..n - 1 /\ E[i] = madt.entries[i + 1]
               /\ E[i].processorId \in 1..N - 1 /\ i + 1 \in Cpus(E[i].processorId)
    <3>1. i \in 1..n /\ E[i].type = "cpu" /\ E[i].processorId # 0
      BY <2>1
    <3>2. i < n /\ E[i] = madt.entries[i + 1]
      BY <1>1, <1>2, <3>1
    <3>3. i \in 1..n - 1 /\ i + 1 \in 1..n
      BY <1>1, <3>1, <3>2
    <3>4. E[i].processorId \in Core
      BY <1>1, <3>1, <3>2, <3>3
    <3>5. PICK p : p = E[i].processorId
      OBVIOUS
    <3>6. p \in 1..N - 1
      <4>1. p \in Core /\ p # 0
        BY <3>1, <3>4, <3>5
      <4> QED
        BY <4>1, Cores DEF Core
    <3>7. i + 1 \in Cpus(p)
      BY <3>1, <3>2, <3>3, <3>5
    <3> QED
      BY <3>2, <3>3, <3>5, <3>6, <3>7
  <2>3. \A i \in S : f[i] = E[i].processorId
    OBVIOUS
  <2>4. f \in [S -> 1..N - 1]
    BY <2>2
  <2>5. ASSUME NEW i \in S, NEW j \in S, f[i] = f[j] PROVE i = j
    <3>1. PICK p : p = E[i].processorId /\ p = E[j].processorId
      BY <2>3, <2>5
    <3>2. p \in 1..N - 1 /\ i + 1 \in Cpus(p) /\ j + 1 \in Cpus(p) /\ i \in Int /\ j \in Int
      <4>1. i \in 1..n - 1 /\ E[i].processorId \in 1..N - 1 /\ i + 1 \in Cpus(E[i].processorId)
        BY <2>2
      <4>2. j \in 1..n - 1 /\ j + 1 \in Cpus(E[j].processorId)
        BY <2>2
      <4> QED
        BY <3>1, <4>1, <4>2
    <3>3. PICK k : Cpus(p) = {k}
      BY <1>1, <3>2
    <3>4. i + 1 = j + 1
      BY <3>2, <3>3
    <3> QED
      BY <3>2, <3>4
  <2>6. ASSUME NEW p \in 1..N - 1 PROVE \E i \in S : f[i] = p
    <3>1. PICK k \in 2..n : Cpus(p) = {k}
      BY <1>1
    <3>2. madt.entries[k].type = "cpu" /\ madt.entries[k].processorId = p
      BY <3>1
    <3>3. k - 1 \in 1..n /\ k - 1 < n /\ (k - 1) + 1 = k
      BY <1>1, <3>1
    <3>4. E[k - 1] = madt.entries[k]
      BY <1>2, <3>3
    <3>5. p # 0
      BY Cores
    <3>6. k - 1 \in S
      BY <2>1, <3>2, <3>3, <3>4, <3>5
    <3> QED
      BY <2>3, <3>2, <3>4, <3>6
  <2>7. ExistsBijection(S, 1..N - 1)
    <3>1. f \in Injection(S, 1..N - 1)
      BY <2>4, <2>5, Fun_IsInj
    <3>2. f \in Surjection(S, 1..N - 1)
      BY <2>4, <2>6, Fun_IsSurj
    <3> QED
      BY <3>1, <3>2 DEF ExistsBijection, Bijection
  <2>8. ExistsBijection(1..N - 1, S)
    BY <2>7, Fun_ExistsBijSymmetric
  <2>9. N - 1 \in Nat
    BY Cores
  <2> HIDE DEF S
  <2> QED
    BY <2>8, <2>9, FS_CountingElements DEF S
<1>4. ioAPIC(madt) # None
  <2>1. PICK i \in 2..n : /\ {j \in 1..n : madt.entries[j].type = "ioapic"} = {i}
                          /\ madt.entries[i].address # None
    BY <1>1
  <2>2. i - 1 \in 1..n /\ i - 1 < n /\ (i - 1) + 1 = i /\ i - 1 \in Int
    BY <1>1, <2>1
  <2>3. {j \in DOMAIN E : E[j].type = "ioapic"} = {i - 1}
    <3>1. ASSUME NEW j \in 1..n PROVE E[j].type = "ioapic" <=> j = i - 1
      <4>1. CASE j < n
        <5>1. j + 1 \in 1..n /\ E[j] = madt.entries[j + 1]
          BY <1>1, <1>2, <4>1
        <5>2. madt.entries[j + 1].type = "ioapic" <=> j + 1 = i
          BY <2>1, <5>1
        <5> QED
          BY <2>1, <5>1, <5>2
      <4>2. CASE ~(j < n)
        BY <1>1, <1>2, <2>2, <4>2
      <4> QED
        BY <4>1, <4>2
    <3> QED
      BY <1>2, <2>2, <3>1
  <2>4. Max({i - 1}) = i - 1
    BY <2>2, OnlyOne
  <2>5. E[i - 1] = madt.entries[i]
    BY <1>2, <2>2
  <2>6. ioAPIC(madt) = E[i - 1].address
    BY <2>3, <2>4 DEF ioAPIC
  <2> QED
    BY <2>1, <2>5, <2>6
<1> QED
  BY <1>3, <1>4

\* Whatever the firmware has left, configInit finds all processors and the IOAPIC.
LEMMA TablesAreFound ==
  ASSUME NEW memory \in Memories, NEW info \in Reports
  PROVE  LET found == configInit(memory, info)
         IN  found # None /\ found.totalProcs = N /\ found.ioAPIC # None
<1>1. PICK i \in memory.bios \cup memory.ebda :
        /\ i \in Nat
        /\ {j \in memory.bios \cup memory.ebda : memory.at[j] = RSD} = {i}
        /\ \E t \in DOMAIN memory.rsdt[i] :
             /\ t \in Nat
             /\ {u \in DOMAIN memory.rsdt[i] : memory.rsdt[i][u].name = "APIC"} = {t}
             /\ Describes(memory.rsdt[i][t])
  BY FirmwareAssumption
<1>2. PICK t \in DOMAIN memory.rsdt[i] :
        /\ t \in Nat
        /\ {u \in DOMAIN memory.rsdt[i] : memory.rsdt[i][u].name = "APIC"} = {t}
        /\ Describes(memory.rsdt[i][t])
  BY <1>1
<1>3. findRSD(memory) = i
  <2>1. ASSUME NEW range, range \subseteq memory.bios \cup memory.ebda
        PROVE  findRSDInRange(memory, range) = IF i \in range THEN i ELSE None
    <3>1. {j \in range : memory.at[j] = RSD} = IF i \in range THEN {i} ELSE {}
      BY <1>1, <2>1
    <3>2. CASE i \in range
      <4>1. {j \in range : memory.at[j] = RSD} = {i} /\ {i} # {} /\ Min({i}) = i
        BY <1>1, <3>1, <3>2, OnlyOne
      <4> QED
        BY <3>2, <4>1 DEF findRSDInRange
    <3>3. CASE i \notin range
      BY <3>1, <3>3 DEF findRSDInRange
    <3> QED
      BY <3>2, <3>3
  <2>2. None \notin memory.bios
    BY FirmwareAssumption
  <2> QED
    BY <1>1, <2>1, <2>2 DEF findRSD
<1>4. findSDT(memory.rsdt[i], "APIC") = memory.rsdt[i][t]
  BY <1>2, OnlyOne DEF findSDT
<1>5. LET found == configInit(memory, info)
      IN  found.totalProcs = N /\ found.ioAPIC # None
  <2>1. Cardinality(apicInfo(memory.rsdt[i][t])) + 1 = N
    BY <1>2, WalkCounts, Cores
  <2> QED
    BY <1>2, <1>3, <1>4, <2>1, WalkCounts DEF configInit
<1> QED
  BY <1>5, NoneAssumption

-----------------------------------------------------------------------------
(* What the first core does alone *)

\* A step that changes nothing that a step has left.
LEMMA NothingTakenBack ==
  ASSUME UNCHANGED <<stage, kConfig, memInfo, ready, sink, smpInitDone, activeThreads, idt, id,
                     all_here>>
  PROVE  \A x \in Steps : Did(x) => Did(x)'
BY DEF Did

LEMMA DebugInitKeeps ==
  ASSUME BootInv, NEW c \in Core, DebugInit(c), ip = "entered", UNCHANGED <<ip, memInfo>>
  PROVE  BootInv'
<1>1. PICK s \in {"print", "uart"} : Do(c, s) /\ sink' = IF s = "print" THEN "stack" ELSE "heap"
  BY DEF DebugInit
<1>2. s \in Steps /\ s \notin {"smpFirst", "all", "threads", "arrive", "main"}
  BY <1>1 DEF Steps
<1>3. Did(s)'
  BY <1>1 DEF Did, DebugInit
<1>4. \A x \in Steps : Did(x) /\ ~(x = "uart" /\ s = "print") => Did(x)'
  BY <1>1 DEF Did, DebugInit, counts
<1> QED
  BY <1>1, <1>2, <1>3, <1>4, Keeps DEF DebugInit, counts, BootInv

LEMMA DiscoveredKeeps ==
  ASSUME BootInv, NEW c \in Core, Discovered(c), ip = "entered", UNCHANGED <<ip, memInfo>>
  PROVE  BootInv'
<1>1. Do(c, "config") /\ "config" \in Steps
  BY DEF Discovered, Steps
<1>2. PICK memory \in Memories : kConfig' = configInit(memory, memInfo)
  BY DEF Discovered
<1>3. memInfo \in Reports
  BY DEF BootInv
<1>4. kConfig' # None /\ kConfig'.totalProcs = N /\ kConfig'.ioAPIC # None
  BY <1>2, <1>3, TablesAreFound
<1>5. kConfig'.memSize = memAbove1M(memInfo) + 2^20
  BY <1>2 DEF configInit
<1>6. memAbove1M(memInfo) = memInfo.above1M
  <2>1. CASE /\ memInfo.above1M = Memory(memInfo.ax, memInfo.bx)
             /\ <<memInfo.cx, memInfo.dx>> \in {<<memInfo.ax, memInfo.bx>>, <<{}, {}>>}
    <3>1. memInfo.ax \cup memInfo.cx = memInfo.ax /\ memInfo.bx \cup memInfo.dx = memInfo.bx
      BY <2>1
    <3> QED
      BY <2>1, <3>1 DEF memAbove1M
  <2>2. CASE /\ memInfo.above1M = Memory(memInfo.cx, memInfo.dx)
             /\ <<memInfo.ax, memInfo.bx>> = <<{}, {}>>
    <3>1. memInfo.ax \cup memInfo.cx = memInfo.cx /\ memInfo.bx \cup memInfo.dx = memInfo.dx
      BY <2>2
    <3> QED
      BY <2>2, <3>1 DEF memAbove1M
  <2> QED
    BY <1>3, <2>1, <2>2, ReportsAssumption
<1>7. Did("config")'
  BY <1>4, <1>5, <1>6 DEF Did
<1>8. \A x \in Steps : Did(x) => Did(x)'
  BY <1>7 DEF Did, Discovered, counts
<1> QED
  BY <1>1, <1>7, <1>8, Keeps DEF Discovered, counts, BootInv

LEMMA heapInitKeeps ==
  ASSUME BootInv, NEW c \in Core, heapInit(c), ip = "entered", UNCHANGED <<ip, memInfo>>
  PROVE  BootInv'
<1>1. Do(c, "heap") /\ "heap" \in Steps
  BY DEF heapInit, Steps
<1>2. Did("heap")' /\ (\A x \in Steps : Did(x) => Did(x)')
  BY DEF Did, heapInit, counts
<1> QED
  BY <1>1, <1>2, Keeps DEF heapInit, counts, BootInv

LEMMA threadsInitKeeps ==
  ASSUME BootInv, NEW c \in Core, threadsInit(c), ip = "entered", UNCHANGED <<ip, memInfo>>
  PROVE  BootInv'
<1>1. Do(c, "threads") /\ "threads" \in Steps
  BY DEF threadsInit, Steps
<1>2. kConfig.totalProcs = N
  <2>1. At(c, "threads") /\ "threads" \notin {"print", "config"}
    BY <1>1 DEF Do
  <2>2. Did("config")
    BY <1>1, <2>1, Before
  <2> QED
    BY <2>2 DEF Did
<1>3. activeThreads' = IF stage = "p6" THEN Core ELSE 0..3
  BY <1>2 DEF threadsInit, Core
<1>4. Did("threads")'
  BY <1>3 DEF Did, threadsInit
<1>5. \A x \in Steps : Did(x) => Did(x)'
  BY <1>4 DEF Did, threadsInit, counts
<1> QED
  BY <1>1, <1>4, <1>5, Keeps DEF threadsInit, counts, BootInv

LEMMA SMPInitFirstKeeps ==
  ASSUME BootInv, NEW c \in Core, SMPInitFirst(c), ip = "entered", UNCHANGED <<ip, memInfo>>
  PROVE  BootInv'
<1>1. Do(c, "smpFirst") /\ "smpFirst" \in Steps
  BY DEF SMPInitFirst, Steps
<1>2. Did("smpFirst")'
  BY DEF Did, SMPInitFirst
<1>3. \A x \in Steps : Did(x) /\ x # "wake" => Did(x)'
  BY DEF Did, SMPInitFirst, interrupt
<1> QED
  BY <1>1, <1>2, <1>3, Keeps DEF SMPInitFirst, interrupt, BootInv

LEMMA calibrateKeeps ==
  ASSUME BootInv, NEW c \in Core, calibrate(c), ip = "entered", UNCHANGED <<ip, memInfo>>
  PROVE  BootInv'
<1>1. PICK s \in {"calibrate", "handler"} :
        /\ Do(c, s)
        /\ s = "calibrate" => ready' = ready \cup {"apitCounter"} /\ UNCHANGED idt
        /\ s = "handler" => interrupt(APIT_vector) /\ UNCHANGED ready
  BY DEF calibrate
<1>2. s \in Steps /\ s \notin {"smpFirst", "all", "threads", "arrive", "main", "sti"}
  BY <1>1 DEF Steps
<1>3. Did(s)'
  BY <1>1 DEF Did, interrupt
<1>4. \A x \in Steps : Did(x) => Did(x)'
  BY <1>1 DEF Did, calibrate, counts, interrupt
<1> QED
  BY <1>1, <1>2, <1>3, <1>4, Keeps DEF calibrate, counts, interrupt, BootInv

LEMMA AllAwakeKeeps ==
  ASSUME BootInv, NEW c \in Core, AllAwake(c), ip = "entered", UNCHANGED <<ip, memInfo>>
  PROVE  BootInv'
<1>1. Do(c, "wake") /\ "wake" \in Steps
  BY DEF AllAwake, Steps
<1>2. kConfig.totalProcs = N
  <2>1. At(c, "wake")
    BY <1>1 DEF Do
  <2>2. Did("config")
    BY <1>1, <2>1, Before
  <2> QED
    BY <2>2 DEF Did
<1>3. Did("wake")'
  BY <1>2, Cores DEF Did, AllAwake, counts, BootInv
<1>4. \A x \in Steps : Did(x) => Did(x)'
  BY NothingTakenBack DEF AllAwake, counts, shared
<1> QED
  BY <1>1, <1>3, <1>4, Keeps DEF AllAwake, counts, shared, BootInv

-----------------------------------------------------------------------------
(* What every core does *)

\* The steps that only wait, or end a block.
LEMMA PassingKeeps ==
  ASSUME BootInv, NEW c \in Core, LeaveBlock(c) \/ SMPInit(c), ip = "entered",
         UNCHANGED <<ip, memInfo>>
  PROVE  BootInv'
<1>1. PICK s \in {"unscope", "smp", "gather"} : Do(c, s) /\ (s = "gather" => all_here)
  BY DEF LeaveBlock, SMPInit
<1>2. s \in Steps /\ s \notin {"smpFirst", "all", "threads", "arrive", "main", "sti"}
  BY <1>1 DEF Steps
<1>3. UNCHANGED <<stage, stack, shared, counts, timer, intr>>
  BY DEF LeaveBlock, SMPInit
<1>4. \A x \in Steps : Did(x) => Did(x)'
  BY <1>3, NothingTakenBack DEF counts, shared
<1>5. Did(s)'
  BY <1>1, <1>3 DEF Did, counts
<1> QED
  BY <1>1, <1>2, <1>3, <1>4, <1>5, Keeps DEF counts, shared, BootInv

LEMMA AllHereKeeps ==
  ASSUME BootInv, NEW c \in Core, AllHere(c), ip = "entered", UNCHANGED <<ip, memInfo>>
  PROVE  BootInv'
<1>1. Do(c, "all") /\ "all" \in Steps
  BY DEF AllHere, Steps
<1>2. Did("all")' /\ (\A x \in Steps : Did(x) => Did(x)')
  BY DEF Did, AllHere, shared
<1> QED
  BY <1>1, <1>2, Keeps DEF AllHere, shared, BootInv

LEMMA kernelMainKeeps ==
  ASSUME BootInv, NEW c \in Core, kernelMain(c), ip = "entered", UNCHANGED <<ip, memInfo>>
  PROVE  BootInv'
<1>1. Do(c, "main") /\ "main" \in Steps
  BY DEF kernelMain, Steps
<1>2. Did("main")' /\ (\A x \in Steps : Did(x) => Did(x)')
  BY DEF Did, kernelMain, shared
<1> QED
  BY <1>1, <1>2, Keeps DEF kernelMain, shared, BootInv

LEMMA PitInitKeeps ==
  ASSUME BootInv, NEW c \in Core, PitInit(c), ip = "entered", UNCHANGED <<ip, memInfo>>
  PROVE  BootInv'
<1>1. Do(c, "timer") /\ "timer" \in Steps
  BY DEF PitInit, Steps
<1>2. Did("timer")' /\ (\A x \in Steps : Did(x) => Did(x)')
  BY DEF Did, PitInit, shared, counts
<1> QED
  BY <1>1, <1>2, Keeps DEF PitInit, shared, counts, BootInv

LEMMA stiKeeps ==
  ASSUME BootInv, NEW c \in Core, sti(c), ip = "entered", UNCHANGED <<ip, memInfo>>
  PROVE  BootInv'
<1>1. Do(c, "sti") /\ "sti" \in Steps
  BY DEF sti, Steps
<1>2. Did("sti")' /\ (\A x \in Steps : Did(x) => Did(x)')
  BY DEF Did, sti, shared, counts
<1> QED
  BY <1>1, <1>2, Keeps DEF sti, shared, counts, BootInv

LEMMA ArriveKeeps ==
  ASSUME BootInv, NEW c \in Core, Arrive(c), ip = "entered", UNCHANGED <<ip, memInfo>>
  PROVE  BootInv'
<1>1. Do(c, "arrive") /\ "arrive" \in Steps
  BY DEF Arrive, Steps
<1>2. Did("arrive")' /\ (\A x \in Steps : Did(x) => Did(x)')
  BY DEF Did, Arrive, shared
<1>3. kConfig.totalProcs = N
  <2>1. At(c, "arrive")
    BY <1>1 DEF Do
  <2>2. Did("config")
    BY <1>1, <2>1, Before
  <2> QED
    BY <2>2 DEF Did
<1> QED
  BY <1>1, <1>2, <1>3, Keeps DEF Arrive, shared, BootInv

-----------------------------------------------------------------------------
(* On the way into kernelInit *)

\* A core that is on its way has neither come nor arrived, and core 0 waits for it.
LEMMA OnTheWay ==
  ASSUME BootInv, NEW c \in Core, Coming(c)
  PROVE  /\ ~Counted(c) /\ ~Sleeps(c) /\ c \notin Arrived
         /\ c = 0 => /\ started = 0 /\ id = 0 /\ ~smpInitDone /\ ~all_here
                     /\ \A d \in Core \ {0} : Sleeps(d)
         /\ c # 0 => /\ c = id /\ At(0, "await") /\ started = id /\ smpInitDone
                     /\ started # 0 /\ Awaiting(Wake0)
<1>1. ~Counted(c) /\ ~Sleeps(c) /\ c \notin Arrived
  BY InComing DEF Sleeps, Arrived
<1>2. CASE c = 0
  <2>1. ~Awaiting(Wake0) /\ (\A k : ~Reached(0, k)) /\ (\A k : ~Awaiting(k))
    <3>1. stage \in Stage
      BY DEF BootInv
    <3>2. ASSUME NEW k PROVE ~Awaiting(k)
      <4>1. SUFFICES ASSUME Awaiting(k) PROVE FALSE
        OBVIOUS
      <4>2. At(0, "await")
        BY <3>1, <4>1, InWait
      <4> QED
        BY <1>2, <4>2, InComing DEF At
    <3> QED
      BY <1>1, <1>2, <3>1, <3>2, InPlanMeans
  <2> QED
    BY <1>1, <1>2, <2>1 DEF BootInv, FirstCore
<1>3. CASE c # 0
  <2>1. id >= 1 /\ started >= 1 /\ smpInitDone /\ c <= id /\ Counted(0) /\ id \in Nat
    BY <1>1, <1>3, Opened, Cores DEF BootInv
  <2>2. c = id /\ At(0, "await")
    BY <1>1, <1>3, <2>1, Cores DEF BootInv, OtherCores
  <2>3. started = id
    BY <1>1, <1>3, <2>1, <2>2 DEF BootInv, FirstCore
  <2>4. stage \in Stage
    BY DEF BootInv
  <2>5. Awaiting(Wake0)
    <3>1. \A k : ~Reached(0, k)
      BY <2>2, <2>4, Cores, InPlanMeans
    <3>2. ~Coming(0)
      BY <2>1, Cores, InComing
    <3>3. PICK k : Awaiting(k)
      BY <3>1, <3>2 DEF BootInv, FirstCore
    <3> QED
      BY <3>3 DEF Awaiting
  <2> QED
    BY <1>1, <1>3, <2>1, <2>2, <2>3, <2>5
<1> QED
  BY <1>2, <1>3

\* The list and the stack of one core change, and nothing else that the plans of the
\* others speak of.
LEMMA OthersStay ==
  ASSUME NEW c \in Core, NEW d \in Core, d # c,
         todo'[d] = todo[d], stack'[d] = stack[d],
         UNCHANGED <<stage, memInfo, shared, id, all_here>>
  PROVE  /\ Sleeps(d)' <=> Sleeps(d)
         /\ Coming(d)' <=> Coming(d)
         /\ Counted(d)' <=> Counted(d)
         /\ \A s : At(d, s)' <=> At(d, s)
         /\ \A j : Reached(d, j) => Reached(d, j)'
         /\ d = 0 => \A j : Awaiting(j) => Awaiting(j)'
<1>1. Plan(d)' = Plan(d)
  BY SamePlans
<1>2. ASSUME NEW x PROVE Did(x)' <=> Did(x)
  BY DEF Did, shared
<1>3. \A j : Reached(d, j) => Reached(d, j)'
  BY <1>1, <1>2 DEF Reached
<1>4. d = 0 => \A j : Awaiting(j) => Awaiting(j)'
  BY <1>1, <1>2 DEF Awaiting, Wake0
<1> QED
  BY <1>3, <1>4 DEF Sleeps, Coming, Counted, At, Off, Temp

\* What does not touch a list that ends, the handlers and the counts, keeps Mains and Ticks.
LEMMA MainsAndTicks ==
  ASSUME BootInv, Arrived' = Arrived, UNCHANGED <<stage, shared, all_here, howManyAreHere, mains>>,
         all_here => id' = id,
         \A d \in Core : intr'[d] => intr[d]
  PROVE  Mains' /\ Ticks'
<1>1. Mains'
  BY DEF BootInv, Mains
<1>2. Ticks'
  BY DEF BootInv, Ticks, shared
<1> QED
  BY <1>1, <1>2

\* A core leaves its reset, or takes its stack.
LEMMA OneStepIn ==
  ASSUME BootInv, NEW c \in Core, Coming(c), Coming(c)',
         todo'[c] \in {<<"pick", "count">>, <<"count">>},
         \A d \in Core : d # c => todo'[d] = todo[d] /\ stack'[d] = stack[d],
         DOMAIN todo' = Core, DOMAIN stack' = Core, DOMAIN intr' = Core,
         \A d \in Core : intr'[d] => intr[d],
         ip = "entered", UNCHANGED <<ip, stage, memInfo, shared, counts>>
  PROVE  BootInv'
<1>1. todo'[c] # <<>> /\ Head(todo'[c]) \in {"pick", "count"}
  OBVIOUS
<1>2. ~Counted(c)' /\ ~Sleeps(c)' /\ c \notin Arrived'
  <2>1. c # Temp /\ c # Off
    BY Cores DEF Temp, Off
  <2>2. CASE todo'[c] = <<"count">>
    BY <1>1, <2>2 DEF Counted, Sleeps, Arrived
  <2>3. CASE todo'[c] = <<"pick", "count">>
    <3>1. stack'[c] = Temp
      <4>1. <<"pick", "count">> # <<"count">> /\ <<"pick", "count">> # Reset
        BY DEF Reset
      <4> QED
        BY <2>3, <4>1 DEF Coming, Temp
    <3> QED
      BY <1>1, <2>1, <3>1 DEF Counted, Sleeps, Arrived
  <2> QED
    BY <2>2, <2>3
<1>3. Arrived' = Arrived
  BY <1>2, OnTheWay DEF Arrived
<1>4. Mains' /\ Ticks'
  BY <1>3, MainsAndTicks DEF counts
<1>5. CASE c = 0
  <2>1. FirstCore'
    BY <1>5, OnTheWay, OthersStay DEF FirstCore, counts, shared
  <2>2. OtherCores'
    BY <1>5, OnTheWay, OthersStay, Cores DEF OtherCores, counts, shared
  <2> QED
    BY <1>4, <2>1, <2>2 DEF BootInv, counts, shared
<1>6. CASE c # 0
  <2> PICK w : w = Wake0
    OBVIOUS
  <2>1. Awaiting(w)' /\ (At(0, "await")' <=> At(0, "await"))
    BY <1>6, OnTheWay, OthersStay, Cores DEF counts, shared
  <2>2. stage \in Stage /\ 0 \in Core
    BY Cores DEF BootInv
  <2>3. w \in 1..Len(Plan(0)) + 1 /\ Plan(0)' = Plan(0) /\ w > Registers0
    BY <1>6, <2>2, OnTheWay, InWait, PlansAreLists, SamePlans DEF Wake0, Registers0
  <2>4. FirstCore'
    <3>1. id >= 1 /\ smpInitDone /\ c = id /\ started = id
      BY <1>6, OnTheWay, Cores
    <3>2. UNCHANGED <<id, started, smpInitDone, all_here, Wake0, Registers0>>
      BY DEF counts, shared, Wake0, Registers0
    <3>3. ~Counted(id)'
      BY <1>2, <3>1, <3>2 DEF Counted
    <3>4. started' = IF id' = 0 THEN 1 ELSE IF At(0, "await")' /\ Counted(id)' THEN id' + 1 ELSE id'
      BY <3>1, <3>2, <3>3, Cores
    <3>5. /\ w <= Registers0' => id' = 0 /\ ~smpInitDone'
          /\ w > Registers0' => id' >= 1 /\ smpInitDone'
          /\ w < Wake0' => id' <= 1 /\ ~all_here'
      BY <2>3, <3>1, <3>2 DEF Wake0, Registers0
    <3> QED
      BY <2>1, <2>3, <3>4, <3>5 DEF FirstCore
  <2>5. OtherCores'
    <3>1. SUFFICES ASSUME NEW d \in Core \ {0}
          PROVE  /\ Sleeps(d)' \/ Coming(d)' \/ \E k \in 1..Len(Plan(d)') + 1 : Reached(d, k)'
                 /\ d < id => Counted(d)'
                 /\ d = id => (At(0, "await")' <=> ~Sleeps(d)')
                 /\ d > id => Sleeps(d)'
      BY DEF OtherCores, counts
    <3>2. CASE d = c
      BY <1>2, <1>6, <2>1, <3>2, OnTheWay, Cores
    <3>3. CASE d # c
      BY <2>1, <3>3, OthersStay, SamePlans DEF BootInv, OtherCores, counts, shared
    <3> QED
      BY <3>2, <3>3
  <2> QED
    BY <1>4, <2>4, <2>5 DEF BootInv, counts, shared
<1> QED
  BY <1>5, <1>6

\* What a core that does none of the steps of kernelInit stands at.
LEMMA Elsewhere ==
  ASSUME BootInv, NEW c \in Core, NEW s, s \notin Steps, At(c, s)
  PROVE  Coming(c) \/ (c = 0 /\ Awaiting(Wake0) /\ s = "await")
<1>1. stage \in Stage
  BY DEF BootInv
<1>2. ~Sleeps(c)
  BY DEF Sleeps, At
<1>3. \A k : ~Reached(c, k)
  BY <1>1, InPlan, PlansAreLists DEF At
<1>4. \A k : Awaiting(k) => k = Wake0
  BY DEF Awaiting
<1>5. Awaiting(Wake0) /\ c = 0 => s = "await"
  BY <1>1, InWait DEF At
<1> QED
  BY <1>2, <1>3, <1>4, <1>5, Whereabouts

LEMMA LeaveResetKeeps ==
  ASSUME BootInv, NEW c \in Core, LeaveReset(c), ip = "entered", UNCHANGED <<ip, memInfo>>
  PROVE  BootInv'
<1>1. Coming(c) /\ At(c, "reset")
  BY Elsewhere DEF LeaveReset, Do, Steps
<1>2. todo[c] = Reset /\ Tail(todo[c]) = <<"pick", "count">>
  BY <1>1, InComing
<1>3. todo'[c] = <<"pick", "count">> /\ stack'[c] = Temp
  BY <1>2 DEF LeaveReset, Do, BootInv
<1>4. Coming(c)'
  BY <1>3 DEF Coming, Temp
<1> QED
  BY <1>1, <1>3, <1>4, OneStepIn DEF LeaveReset, Do, BootInv

LEMMA pickKernelStackKeeps ==
  ASSUME BootInv, NEW c \in Core, pickKernelStack(c), ip = "entered", UNCHANGED <<ip, memInfo>>
  PROVE  BootInv'
<1>1. Coming(c) /\ At(c, "pick")
  BY Elsewhere DEF pickKernelStack, Do, Steps
<1>2. Tail(todo[c]) = <<"count">>
  BY <1>1, InComing
<1>3. todo'[c] = <<"count">> /\ stack'[c] = c
  BY <1>1, <1>2, OnTheWay DEF pickKernelStack, Do, BootInv
<1>4. Coming(c)'
  BY <1>3 DEF Coming
<1> QED
  BY <1>1, <1>3, <1>4, OneStepIn DEF pickKernelStack, Do, BootInv

\* The first to count takes the long plan, and every other one the short one.
LEMMA CountInKeeps ==
  ASSUME BootInv, NEW c \in Core, CountIn(c), ip = "entered", UNCHANGED <<ip, memInfo>>
  PROVE  BootInv'
<1> USE DEF counts, shared
<1>1. Coming(c) /\ At(c, "count")
  BY Elsewhere DEF CountIn, Steps
<1>2. stack[c] = c /\ todo[c] = <<"count">> /\ stage \in Stage /\ DOMAIN todo = Core
  BY <1>1, InComing DEF BootInv
<1>3. started = 0 <=> c = 0
  BY <1>1, OnTheWay
<1>4. PICK list \in Seq(Steps) : list = Plan(c) /\ Len(list) \in Nat /\ Len(list) >= 3
  BY <1>2, PlansAreLists
<1>5. kernelInit(started = 0) = list
  BY <1>2, <1>3, <1>4, Zenon
     DEF Plan, kernelInit, kernelInit2, kernelInit4, kernelInit5, kernelInit6
<1>6. todo' = [todo EXCEPT ![c] = list] /\ stack' = stack
  BY <1>5 DEF CountIn
<1>7. UNCHANGED <<stage, memInfo, shared, id, howManyAreHere, all_here, mains, intr>>
  BY DEF CountIn
<1>8. Reached(c, 1)'
  <2>1. list = From(list, 1) /\ 1 \in 1..Len(list) + 1
    BY <1>4, Rest
  <2>2. Plan(c)' = list
    BY <1>4, <1>7, SamePlans
  <2> QED
    BY <1>2, <1>6, <2>1, <2>2 DEF Reached
<1>9. Counted(c)' /\ ~Sleeps(c)' /\ c \notin Arrived' /\ ~At(c, "await")'
  <2>1. list # <<"count">> /\ list # <<>>
    <3>1. Len(<<"count">>) = 1
      OBVIOUS
    <3>2. Len(list) # 1 /\ Len(list) # 0
      BY <1>4
    <3>3. list # <<"count">>
      BY <3>1, <3>2
    <3> QED
      BY <3>2, <3>3, EmptySeq
  <2>2. Head(list) \in Steps
    BY <1>4, <2>1, HeadTailProperties
  <2>3. "await" \notin Steps
    BY DEF Steps
  <2> QED
    BY <1>2, <1>6, <2>1, <2>2, <2>3 DEF Counted, Sleeps, Arrived, At
<1>10. Mains' /\ Ticks'
  <2>1. Arrived' = Arrived
    BY <1>1, <1>2, <1>6, <1>9, OnTheWay DEF Arrived
  <2> QED
    BY <1>7, <2>1, MainsAndTicks
<1>11. \A d \in Core : d # c => todo'[d] = todo[d] /\ stack'[d] = stack[d]
  BY <1>6
<1>12. FirstCore' /\ OtherCores'
  <2>1. CASE c = 0
    <3>1. FirstCore'
      <4>1. 1 \in 1..Len(Plan(0)') + 1
        BY <1>4, <1>7, <2>1, SamePlans
      <4>2. started' = 1 /\ id' = 0 /\ ~smpInitDone' /\ ~all_here'
        BY <1>1, <1>7, <2>1, OnTheWay DEF CountIn
      <4>3. Registers0' \in Nat /\ Registers0' >= 1
        BY DEF Registers0
      <4> QED
        BY <1>8, <2>1, <4>1, <4>2, <4>3 DEF FirstCore
    <3>2. OtherCores'
      BY <1>1, <1>7, <1>11, <2>1, OnTheWay, OthersStay, Cores DEF OtherCores
    <3> QED
      BY <3>1, <3>2
  <2>2. CASE c # 0
    <3> PICK w : w = Wake0
      OBVIOUS
    <3>1. Awaiting(w)' /\ (At(0, "await")' <=> At(0, "await"))
      BY <1>1, <1>7, <1>11, <2>2, OnTheWay, OthersStay, Cores
    <3>2. w \in 1..Len(Plan(0)) + 1 /\ Plan(0)' = Plan(0) /\ w > Registers0
      BY <1>1, <1>2, <1>7, <2>2, Cores, OnTheWay, InWait, PlansAreLists, SamePlans
         DEF Wake0, Registers0
    <3>3. id >= 1 /\ smpInitDone /\ c = id /\ started = id /\ started' = id + 1 /\ At(0, "await")
      BY <1>1, <2>2, OnTheWay, Cores DEF CountIn
    <3>4. FirstCore'
      <4>1. Counted(id)'
        BY <1>7, <1>9, <3>3 DEF Counted
      <4>2. started' = IF id' = 0 THEN 1 ELSE IF At(0, "await")' /\ Counted(id)' THEN id' + 1 ELSE id'
        BY <1>7, <3>1, <3>3, <4>1, Cores
      <4>3. /\ w <= Registers0' => id' = 0 /\ ~smpInitDone'
            /\ w > Registers0' => id' >= 1 /\ smpInitDone'
            /\ w < Wake0' => id' <= 1 /\ ~all_here'
        BY <1>7, <3>2, <3>3 DEF Wake0, Registers0
      <4> QED
        BY <3>1, <3>2, <4>2, <4>3 DEF FirstCore
    <3>5. OtherCores'
      <4>1. SUFFICES ASSUME NEW d \in Core \ {0}
            PROVE  /\ Sleeps(d)' \/ Coming(d)' \/ \E k \in 1..Len(Plan(d)') + 1 : Reached(d, k)'
                   /\ d < id => Counted(d)'
                   /\ d = id => (At(0, "await")' <=> ~Sleeps(d)')
                   /\ d > id => Sleeps(d)'
        BY <1>7 DEF OtherCores
      <4>2. CASE d = c
        <5>1. 1 \in 1..Len(Plan(c)') + 1
          BY <1>4, <1>7, SamePlans
        <5> QED
          BY <1>8, <1>9, <3>1, <3>3, <4>2, <5>1, Cores
      <4>3. CASE d # c
        BY <1>7, <1>11, <3>1, <4>3, OthersStay, SamePlans DEF BootInv, OtherCores
      <4> QED
        BY <4>2, <4>3
    <3> QED
      BY <3>4, <3>5
  <2> QED
    BY <2>1, <2>2
<1> QED
  BY <1>2, <1>6, <1>7, <1>10, <1>12 DEF BootInv

-----------------------------------------------------------------------------
(* The start of the others *)

\* How far core 0 is says whom it has started.
LEMMA FirstIsAt ==
  ASSUME BootInv, NEW k, Reached(0, k) \/ Awaiting(k)
  PROVE  /\ k \in 1..Len(Plan(0)) + 1
         /\ k <= Registers0 => id = 0 /\ ~smpInitDone
         /\ k > Registers0 => id >= 1 /\ smpInitDone
         /\ k < Wake0 => id <= 1 /\ ~all_here
         /\ started = IF id = 0 THEN 1 ELSE IF At(0, "await") /\ Counted(id) THEN id + 1 ELSE id
<1>1. stage \in Stage /\ 0 \in Core
  BY Cores DEF BootInv
<1>2. ~Coming(0)
  <2>1. CASE Reached(0, k)
    BY <1>1, <2>1, InPlanMeans, InComing
  <2>2. CASE Awaiting(k)
    <3>1. At(0, "await")
      BY <1>1, <2>2, InWait
    <3> QED
      BY <1>1, <3>1, InComing DEF At
  <2> QED
    BY <2>1, <2>2
<1>3. PICK j \in 1..Len(Plan(0)) + 1 :
        /\ Reached(0, j) \/ Awaiting(j)
        /\ j <= Registers0 => id = 0 /\ ~smpInitDone
        /\ j > Registers0 => id >= 1 /\ smpInitDone
        /\ j < Wake0 => id <= 1 /\ ~all_here
  BY <1>2 DEF BootInv, FirstCore
<1>4. j = k
  <2>1. CASE Reached(0, k) /\ Reached(0, j)
    <3>1. Len(todo[0]) = Len(Plan(0)) + 1 - j /\ Len(todo[0]) = Len(Plan(0)) + 1 - k
      BY <1>1, <2>1, InPlan
    <3>2. k \in Nat /\ j \in Nat /\ Len(Plan(0)) \in Nat
      BY <1>1, <2>1, InPlan, PlansAreLists
    <3> QED
      BY <3>1, <3>2
  <2>2. CASE Awaiting(k) /\ Awaiting(j)
    BY <2>2 DEF Awaiting
  <2>3. ~(Reached(0, k) /\ Awaiting(j)) /\ ~(Awaiting(k) /\ Reached(0, j))
    BY <1>1, InWait, InPlanMeans
  <2> QED
    BY <1>3, <2>1, <2>2, <2>3
<1>5. started = IF id = 0 THEN 1 ELSE IF At(0, "await") /\ Counted(id) THEN id + 1 ELSE id
  BY <1>2 DEF BootInv, FirstCore
<1> QED
  BY <1>3, <1>4, <1>5

LEMMA WakeKeeps ==
  ASSUME BootInv, NEW c \in Core, Wake(c), ip = "entered", UNCHANGED <<ip, memInfo>>
  PROVE  BootInv'
<1> USE DEF counts, shared
<1>1. stage \in Stage /\ DOMAIN todo = Core /\ 0 \in Core /\ At(c, "wake") /\ "wake" \in Steps
  BY Cores DEF BootInv, Wake, Steps
<1>2. PICK w \in 1..Len(Plan(c)) : Reached(c, w) /\ Plan(c)[w] = "wake"
  BY <1>1, Where
<1>3. c = 0 /\ w = Wake0
  BY <1>1, <1>2, Order
<1>4. id < N /\ id \in Nat
  <2>1. Did("config")
    BY <1>1, Before
  <2> QED
    BY <2>1, Cores DEF Did, Wake, BootInv
<1>5. id >= 1 /\ smpInitDone /\ ~At(0, "await") /\ started = id
  <2>1. w > Registers0
    BY <1>3 DEF Wake0, Registers0
  <2>2. ~At(0, "await")
    BY <1>1, <1>2, <1>3, InPlanMeans
  <2> QED
    BY <1>2, <1>3, <1>4, <2>1, <2>2, FirstIsAt
<1>6. id \in Core \ {0} /\ Sleeps(id)
  <2>1. id \in Core \ {0}
    BY <1>4, <1>5, Cores
  <2> QED
    BY <1>5, <2>1 DEF BootInv, OtherCores
<1>7. UNCHANGED <<stage, memInfo, shared, counts, stack, intr>>
  BY DEF Wake
<1>8. /\ todo' = [e \in Core |-> IF e = id THEN Reset
                                 ELSE IF e = 0 THEN <<"await">> \o todo[0] ELSE todo[e]]
  BY <1>1, <1>3 DEF Wake, ipi
<1>9. PICK i \in Core : i = id /\ i # 0
  BY <1>6
<1>10. Coming(i)' /\ ~Sleeps(i)' /\ ~Counted(i)' /\ i \notin Arrived'
  <2>1. Reset # <<>> /\ stack[i] = Off /\ Off # i
    BY <1>6, <1>9, Cores DEF Reset, Sleeps, Off
  <2> QED
    BY <1>7, <1>8, <1>9, <2>1 DEF Coming, Sleeps, Counted, Arrived, Off, Temp
<1>11. Awaiting(w)' /\ At(0, "await")' /\ 0 \notin Arrived' /\ 0 \notin Arrived
  <2>1. PICK list \in Seq(Steps) : list = Plan(0) /\ Len(list) \in Nat
    BY <1>1, PlansAreLists
  <2>2. todo[0] = From(list, w) /\ todo[0] # <<>> /\ stack[0] = 0
    BY <1>1, <1>2, <1>3, <2>1 DEF Reached, At
  <2>3. todo[0] \in Seq(Steps)
    BY <1>2, <1>3, <2>1, <2>2, Rest
  <2>4. <<"await">> \o todo[0] # <<>> /\ Head(<<"await">> \o todo[0]) = "await"
    BY <2>3
  <2>5. todo'[0] = <<"await">> \o todo[0]
    BY <1>1, <1>8, <1>9
  <2>6. \A x : Did(x) => Did(x)'
    BY <1>7 DEF Did
  <2>7. Plan(0)' = Plan(0)
    BY <1>7, SamePlans
  <2>8. \A j \in 1..w - 1 : Did(Plan(0)[j])'
    BY <1>2, <1>3, <2>6, <2>7 DEF Reached
  <2>9. Awaiting(w)'
    BY <1>3, <1>4, <1>7, <2>1, <2>2, <2>5, <2>7, <2>8 DEF Awaiting, Wake0
  <2> QED
    BY <2>2, <2>4, <2>5, <2>9 DEF At, Arrived
<1>12. \A d \in Core : d # i /\ d # 0 => todo'[d] = todo[d] /\ stack'[d] = stack[d]
  BY <1>7, <1>8, <1>9
<1>13. Mains' /\ Ticks'
  <2>1. i \notin Arrived
    BY <1>6, <1>9, Cores DEF Sleeps, Arrived, Off
  <2>2. Arrived' = Arrived
    BY <1>1, <1>10, <1>11, <1>12, <2>1 DEF Arrived
  <2> QED
    BY <1>7, <2>2, MainsAndTicks
<1>14. FirstCore'
  <2>1. w \in 1..Len(Plan(0)') + 1 /\ w > Registers0' /\ w = Wake0'
    <3>1. Plan(0)' = Plan(0) /\ Len(Plan(0)) \in Nat
      BY <1>1, <1>7, PlansAreLists, SamePlans
    <3> QED
      BY <1>2, <1>3, <1>7, <3>1 DEF Wake0, Registers0
  <2>2. ~Counted(id)'
    BY <1>7, <1>9, <1>10 DEF Counted
  <2>3. Registers0' \in Nat /\ Wake0' \in Nat
    BY DEF Wake0, Registers0
  <2> QED
    BY <1>5, <1>7, <1>11, <2>1, <2>2, <2>3 DEF FirstCore
<1>15. OtherCores'
  <2>1. SUFFICES ASSUME NEW d \in Core \ {0}
        PROVE  /\ Sleeps(d)' \/ Coming(d)' \/ \E k \in 1..Len(Plan(d)') + 1 : Reached(d, k)'
               /\ d < id => Counted(d)'
               /\ d = id => (At(0, "await")' <=> ~Sleeps(d)')
               /\ d > id => Sleeps(d)'
    BY <1>7 DEF OtherCores
  <2>2. CASE d = i
    BY <1>4, <1>9, <1>10, <1>11, <2>2
  <2>3. CASE d # i
    BY <1>7, <1>9, <1>11, <1>12, <2>3, OthersStay, SamePlans DEF BootInv, OtherCores
  <2> QED
    BY <2>2, <2>3
<1> QED
  BY <1>1, <1>7, <1>8, <1>13, <1>14, <1>15 DEF BootInv

LEMMA AwaitKeeps ==
  ASSUME BootInv, NEW c \in Core, Await(c), ip = "entered", UNCHANGED <<ip, memInfo>>
  PROVE  BootInv'
<1>1. stage \in Stage /\ DOMAIN todo = Core /\ 0 \in Core /\ At(c, "await") /\ "await" \notin Steps
  BY Cores DEF BootInv, Await, Do, Steps
<1>2. c = 0 /\ Awaiting(Wake0)
  BY <1>1, Elsewhere, InComing DEF At
<1>3. PICK w : w = Wake0
  OBVIOUS
<1>4. /\ w \in 1..Len(Plan(0)) /\ Plan(0)[w] = "wake" /\ w > Registers0 /\ w \in Nat
      /\ todo[0] # <<>> /\ Tail(todo[0]) = From(Plan(0), w)
  BY <1>1, <1>2, <1>3, InWait, PlansAreLists DEF At, Wake0, Registers0
<1>5. id >= 1 /\ smpInitDone /\ id \in Core /\ Counted(id) /\ started = id + 1 /\ ~all_here
  <2>1. id >= 1 /\ smpInitDone /\ id < N /\ id \in Nat
    BY <1>2, <1>3, <1>4, FirstIsAt, Cores DEF Awaiting, BootInv
  <2>2. started = IF Counted(id) THEN id + 1 ELSE id
    BY <1>1, <1>2, <2>1, FirstIsAt
  <2>3. started > id
    BY DEF Await
  <2> QED
    BY <2>1, <2>2, <2>3, Cores DEF BootInv, Mains
<1>6. UNCHANGED <<stage, memInfo, shared, started, howManyAreHere, all_here, mains, stack, intr>>
  BY DEF Await
<1>7. todo' = [todo EXCEPT ![0] = From(Plan(0), w)] /\ id' = id + 1
  BY <1>2, <1>4 DEF Await, Do
<1>8. Plan(0)' = Plan(0) /\ Len(Plan(0)) \in Nat /\ \A d \in Core : Plan(d)' = Plan(d)
  BY <1>1, <1>6, PlansAreLists, SamePlans
<1>9. \A x : Did(x) /\ x # "wake" => Did(x)'
  BY <1>6 DEF Did, shared
<1>10. Reached(0, w)'
  <2>1. \A i \in 1..w - 1 : Did(Plan(0)[i])'
    <3>1. SUFFICES ASSUME NEW i \in 1..w - 1 PROVE Did(Plan(0)[i])'
      OBVIOUS
    <3>2. PICK x : x = Plan(0)[i]
      OBVIOUS
    <3>3. i \in 1..Len(Plan(0)) /\ i # w /\ Did(x)
      BY <1>2, <1>3, <1>4, <1>8, <3>2 DEF Awaiting
    <3>4. x # "wake"
      BY <1>1, <1>3, <3>2, <3>3, Order
    <3>5. Did(x)'
      BY <1>9, <3>3, <3>4
    <3> QED
      BY <1>8, <3>2, <3>5
  <2> QED
    BY <1>1, <1>2, <1>4, <1>6, <1>7, <1>8, <2>1 DEF Reached, Awaiting
<1>11. ~At(0, "await")' /\ 0 \notin Arrived' /\ 0 \notin Arrived
  <2>1. PICK list \in Seq(Steps) : list = Plan(0)
    BY <1>1, PlansAreLists
  <2>2. From(list, w) # <<>> /\ Head(From(list, w)) = "wake"
    BY <1>4, <1>8, <2>1, Rest
  <2> QED
    BY <1>1, <1>4, <1>7, <2>1, <2>2 DEF At, Arrived
<1>12. ASSUME NEW d \in Core \ {0}
       PROVE  /\ Sleeps(d)' <=> Sleeps(d)
              /\ Coming(d)' <=> Coming(d)
              /\ Counted(d)' <=> Counted(d)
              /\ \A j \in 1..Len(Plan(d)) + 1 : Reached(d, j) => Reached(d, j)'
  <2>1. todo'[d] = todo[d] /\ stack'[d] = stack[d]
    BY <1>6, <1>7
  <2>2. ASSUME NEW j \in 1..Len(Plan(d)) + 1, Reached(d, j) PROVE Reached(d, j)'
    <3>1. SUFFICES ASSUME NEW i \in 1..j - 1 PROVE Did(Plan(d)[i])'
      BY <1>8, <2>1, <2>2 DEF Reached
    <3>2. PICK x : x = Plan(d)[i]
      OBVIOUS
    <3>3. i \in 1..Len(Plan(d)) /\ Did(x)
      BY <1>1, <2>2, <3>2, PlansAreLists DEF Reached
    <3>4. x # "wake"
      BY <1>1, <3>2, <3>3, Order
    <3>5. Did(x)'
      BY <1>9, <3>3, <3>4
    <3> QED
      BY <1>8, <3>2, <3>5
  <2> QED
    BY <2>1, <2>2 DEF Sleeps, Coming, Counted, Off, Temp
<1>13. Mains' /\ Ticks'
  <2>1. Arrived' = Arrived
    BY <1>1, <1>6, <1>7, <1>11 DEF Arrived
  <2> QED
    BY <1>5, <1>6, <2>1, MainsAndTicks
<1>14. FirstCore'
  <2>1. Registers0' = Registers0 /\ Wake0' = Wake0 /\ id' # 0 /\ id' >= 1 /\ id \in Nat
    BY <1>5, <1>6, <1>7, Cores DEF Registers0, Wake0
  <2>2. w \in 1..Len(Plan(0)') + 1
    BY <1>4, <1>8
  <2>3. started' = id' /\ smpInitDone'
    BY <1>5, <1>6, <1>7 DEF shared
  <2>4. ~(w <= Registers0) /\ ~(w < Wake0)
    BY <1>3, <1>4 DEF Registers0, Wake0
  <2> QED
    BY <1>10, <1>11, <2>1, <2>2, <2>3, <2>4 DEF FirstCore
<1>15. OtherCores'
  <2>1. SUFFICES ASSUME NEW d \in Core \ {0}
        PROVE  /\ Sleeps(d)' \/ Coming(d)' \/ \E k \in 1..Len(Plan(d)') + 1 : Reached(d, k)'
               /\ d < id' => Counted(d)'
               /\ d = id' => (At(0, "await")' <=> ~Sleeps(d)')
               /\ d > id' => Sleeps(d)'
    BY DEF OtherCores
  <2>2. /\ Sleeps(d) \/ Coming(d) \/ \E k \in 1..Len(Plan(d)) + 1 : Reached(d, k)
        /\ d < id => Counted(d)
        /\ d > id => Sleeps(d)
    BY DEF BootInv, OtherCores
  <2>3. d < id + 1 => d < id \/ d = id
    BY <1>5, Cores
  <2>4. d >= id + 1 => d > id
    BY <1>5, Cores
  <2>5. d = id => Counted(d)
    BY <1>5
  <2> QED
    BY <1>7, <1>8, <1>11, <1>12, <2>2, <2>3, <2>4, <2>5, Cores
<1> QED
  BY <1>1, <1>5, <1>6, <1>7, <1>13, <1>14, <1>15, Cores DEF BootInv, Await

-----------------------------------------------------------------------------
(* The invariant of the boot *)

LEMMA BootStarts ==
  ASSUME KernelInit
  PROVE  BootInv
<1>1. /\ ip = "start" /\ stage \in Stage /\ started = 0 /\ smpInitDone = FALSE /\ id = 0
      /\ todo = [c \in Core |-> IF c = 0 THEN Reset ELSE <<>>]
      /\ stack = [c \in Core |-> Off] /\ intr = [c \in Core |-> FALSE]
      /\ howManyAreHere = 0 /\ all_here = FALSE /\ mains = 0
  BY DEF KernelInit, Init, InitLoader
<1>2. \A c \in Core : c # Off
  BY Cores DEF Off
<1>3. FirstCore
  BY <1>1, Cores DEF FirstCore, Coming, Sleeps
<1>4. OtherCores
  BY <1>1, Cores DEF OtherCores, Sleeps
<1>5. Mains
  <2>1. Arrived = {}
    BY <1>1, <1>2 DEF Arrived
  <2> QED
    BY <1>1, <2>1, FS_EmptySet, Cores DEF Mains
<1>6. Ticks
  BY <1>1 DEF Ticks
<1> QED
  BY <1>1, <1>3, <1>4, <1>5, <1>6, Cores DEF BootInv

\* Where a core is does not change when nothing of the boot does.
LEMMA Stays ==
  ASSUME BootInv, UNCHANGED <<vars, ip, memInfo>>
  PROVE  BootInv'
<1> USE DEF vars, shared, counts
<1>1. \A c \in Core : Plan(c)' = Plan(c)
  BY SamePlans
<1>2. \A x : Did(x)' <=> Did(x)
  BY DEF Did
<1>3. \A c \in Core : \A k : Reached(c, k)' <=> Reached(c, k)
  BY <1>1, <1>2 DEF Reached
<1>4. \A k : Awaiting(k)' <=> Awaiting(k)
  BY <1>1, <1>2, Cores DEF Awaiting, Wake0
<1>5. \A c \in Core : /\ Sleeps(c)' <=> Sleeps(c)
                      /\ Coming(c)' <=> Coming(c)
                      /\ Counted(c)' <=> Counted(c)
  BY DEF Sleeps, Coming, Counted, Off, Temp
<1>6. FirstCore'
  <2>1. CASE /\ Coming(0)
             /\ started = 0 /\ id = 0 /\ ~smpInitDone /\ ~all_here
             /\ \A c \in Core \ {0} : Sleeps(c)
    BY <1>5, <2>1, Cores DEF FirstCore
  <2>2. ASSUME NEW k \in 1..Len(Plan(0)) + 1, Reached(0, k) \/ Awaiting(k)
        PROVE  FirstCore'
    <3>1. /\ k <= Registers0 => id = 0 /\ ~smpInitDone
          /\ k > Registers0 => id >= 1 /\ smpInitDone
          /\ k < Wake0 => id <= 1 /\ ~all_here
          /\ started = IF id = 0 THEN 1 ELSE IF At(0, "await") /\ Counted(id) THEN id + 1 ELSE id
      BY <2>2, FirstIsAt
    <3>2. UNCHANGED <<Registers0, Wake0>> /\ (At(0, "await")' <=> At(0, "await"))
          /\ (Counted(id)' <=> Counted(id))
      BY DEF Registers0, Wake0, At, Counted
    <3>3. k \in 1..Len(Plan(0)') + 1 /\ (Reached(0, k)' \/ Awaiting(k)')
      BY <1>1, <1>3, <1>4, <2>2, Cores
    <3>4. /\ k <= Registers0' => id' = 0 /\ ~smpInitDone'
          /\ k > Registers0' => id' >= 1 /\ smpInitDone'
          /\ k < Wake0' => id' <= 1 /\ ~all_here'
          /\ started' = IF id' = 0 THEN 1 ELSE IF At(0, "await")' /\ Counted(id)' THEN id' + 1 ELSE id'
      BY <3>1, <3>2
    <3> QED
      BY <3>3, <3>4 DEF FirstCore
  <2> QED
    BY <2>1, <2>2 DEF BootInv, FirstCore
<1>7. OtherCores'
  BY <1>1, <1>3, <1>5 DEF BootInv, OtherCores, At
<1>8. Mains' /\ Ticks'
  BY MainsAndTicks DEF Arrived
<1> QED
  BY <1>6, <1>7, <1>8 DEF BootInv

\* While the loader works no core has left its reset.
LEMMA LoadKeeps ==
  ASSUME BootInv, Load, UNCHANGED vars
  PROVE  BootInv'
<1>1. /\ ip # "entered"
      /\ ip' \in {"next", "memory", "read", "lost", "enter", "entered"}
      /\ ip' = "enter" => memInfo' \in Reports
      /\ ip' = "entered" => ip = "enter" /\ memInfo' = memInfo
  BY DEF Load, ReadDriveParameters, NextSector, ReadSector, Overwrite, ReadMemoryInfo, Enter, Goes
<1>2. todo[0] = Reset /\ todo'[0] = Reset
  BY <1>1 DEF BootInv, vars
<1>3. /\ Coming(0) /\ started = 0 /\ id = 0 /\ ~smpInitDone /\ ~all_here
      /\ \A c \in Core \ {0} : Sleeps(c)
  <2>1. At(0, "reset")
    BY <1>2 DEF At, Reset
  <2> QED
    BY <2>1, Elsewhere, Cores, OnTheWay DEF Steps
<1>4. FirstCore'
  BY <1>3 DEF FirstCore, Coming, Sleeps, vars, shared, counts, Off, Temp
<1>5. OtherCores'
  BY <1>3, Cores DEF OtherCores, Sleeps, vars, shared, counts, Off
<1>6. Mains' /\ Ticks'
  BY MainsAndTicks DEF Arrived, vars, counts
<1> QED
  BY <1>1, <1>2, <1>4, <1>5, <1>6 DEF BootInv, vars, shared, counts

LEMMA BootKeeps ==
  ASSUME BootInv, [KernelNext]_allVars
  PROVE  BootInv'
<1>1. CASE Load /\ UNCHANGED <<vars, ideVars>>
  BY <1>1, LoadKeeps
<1>2. ASSUME NEW c \in Core, Boots(c) PROVE BootInv'
  <2>1. ip = "entered" /\ UNCHANGED <<ip, memInfo>> /\ CoreStep(c)
    BY <1>2 DEF Boots, EnterProtectedMode, loaderVars
  <2> QED
    BY <2>1, LeaveResetKeeps, pickKernelStackKeeps, CountInKeeps, DebugInitKeeps, DiscoveredKeeps,
       heapInitKeeps, threadsInitKeeps, SMPInitFirstKeeps, calibrateKeeps, WakeKeeps, AwaitKeeps,
       AllAwakeKeeps, PassingKeeps, AllHereKeeps, kernelMainKeeps, PitInitKeeps, stiKeeps,
       ArriveKeeps
       DEF CoreStep
<1>3. CASE (Call \/ Driver \/ Device) /\ UNCHANGED <<vars, loaderVars>>
  BY <1>3, Stays DEF loaderVars
<1>4. CASE UNCHANGED allVars
  BY <1>4, Stays DEF allVars, loaderVars
<1> QED
  BY <1>1, <1>2, <1>3, <1>4 DEF KernelNext

\* The order in which the cores of p2 to p6 boot, as one invariant of all stages.
THEOREM TheBootIsInOrder == KernelSpec => []BootInv
<1>1. KernelInit => BootInv
  BY BootStarts
<1>2. BootInv /\ [KernelNext]_allVars => BootInv'
  BY BootKeeps
<1> QED
  BY <1>1, <1>2, PTL DEF KernelSpec

-----------------------------------------------------------------------------
(* What the boot promises *)

\* Who has arrived, or has run all of its plan, is on a stack of its own.
LEMMA MainsAreLast ==
  ASSUME BootInv
  PROVE  MainRunsLast
<1>1. ASSUME mains > 0, NEW c \in Core PROVE stack[c] = c
  <2>1. CASE stage = "p2"
    <3>1. id = N
      BY <1>1, <2>1 DEF BootInv, Mains
    <3>2. CASE c = 0
      <4>1. ~Coming(0)
        BY <3>1, Cores, OnTheWay
      <4> QED
        BY <3>2, <4>1 DEF BootInv, FirstCore, Reached, Awaiting
    <3>3. CASE c # 0
      BY <3>1, <3>3, Cores DEF BootInv, OtherCores, Counted
    <3> QED
      BY <3>2, <3>3
  <2>2. CASE stage # "p2"
    <3>1. howManyAreHere = N /\ howManyAreHere = Cardinality(Arrived)
      BY <1>1, <2>2 DEF BootInv, Mains
    <3>2. Arrived = Core
      <4>1. Arrived \subseteq Core
        BY DEF Arrived
      <4> QED
        BY <3>1, <4>1, CoreIsFinite, FS_Subset
    <3> QED
      BY <3>2 DEF Arrived
  <2> QED
    BY <2>1, <2>2
<1>2. stage # "p2" => mains <= 1 /\ (mains = 1 => howManyAreHere = N)
  BY DEF BootInv, Mains
<1> QED
  BY <1>1, <1>2 DEF MainRunsLast

\* kernelMain runs when all cores are up, on stacks of their own: once from p4 on, for
\* the last one to count itself among howManyAreHere, for any number of cores.
THEOREM KernelMainRunsLast == KernelSpec => []MainRunsLast
<1>1. BootInv => MainRunsLast
  BY MainsAreLast
<1> QED
  BY <1>1, TheBootIsInOrder, PTL

\* The current threads of p4 and p5 are for four cores.
Served == stage \in {"p4", "p5"} => N <= 4

\* A timer interrupts a core only when the vector has its handler and yield() finds a
\* current thread: for all cores of p6, and for the first four of p5.
THEOREM EveryTickIsHandled == KernelSpec => [](Served => TicksAreHandled)
<1>1. BootInv => (Served => TicksAreHandled)
  <2>1. SUFFICES ASSUME BootInv, Served, NEW c \in Core, intr[c]
        PROVE  APIT_vector \in idt /\ {"heap", "threads"} \subseteq ready /\ c \in activeThreads
    BY DEF TicksAreHandled
  <2>2. /\ stage # "p2" /\ APIT_vector \in idt /\ {"heap", "threads"} \subseteq ready
        /\ activeThreads = IF stage = "p6" THEN Core ELSE 0..3
    BY <2>1 DEF BootInv, Ticks
  <2> QED
    BY <2>1, <2>2, Cores DEF Served, BootInv, Stage
<1> QED
  BY <1>1, TheBootIsInOrder, PTL

LEMMA NothingIsEarly ==
  ASSUME BootInv, Served
  PROVE  NothingUsedTooEarly
<1>1. SUFFICES ASSUME NEW c \in Core, ip = "entered", todo[c] # <<>>
      PROVE  /\ Uses(Head(todo[c])) \subseteq ready
             /\ At(c, "heap") => kConfig.memSize = memInfo.above1M + 2^20
             /\ At(c, "threads") \/ At(c, "smpFirst") => kConfig # None
             /\ At(c, "wake") => kConfig.totalProcs = N /\ kConfig.ioAPIC # None
             /\ At(c, "arrive") => c \in activeThreads
             /\ At(c, "unscope") => sink = "heap"
  BY DEF NothingUsedTooEarly
<1>2. PICK s : s = Head(todo[c])
  OBVIOUS
<1>3. At(c, s) /\ (\A x : At(c, x) => x = s)
  BY <1>1, <1>2 DEF At
<1>4. CASE s \notin Steps
  <2>1. s \notin {"uart", "threads", "calibrate", "smp", "wake", "timer", "sti", "arrive", "heap",
                  "smpFirst", "unscope"}
    BY <1>4 DEF Steps
  <2>2. Uses(s) = {}
    BY <2>1 DEF Uses
  <2> QED
    BY <1>2, <1>3, <2>1, <2>2
<1>5. CASE s \in Steps
  <2>1. s \in {"smp", "wake", "unscope", "timer", "sti", "arrive"} =>
          Did("config") /\ Did("heap") /\ Did("uart") /\ Did("smpFirst")
    BY <1>3, <1>5, Before
  <2>2. s \in {"timer", "sti", "arrive"} => stage # "p2" /\ Did("threads") /\ Did("calibrate")
    BY <1>3, <1>5, Before
  <2>3. s \in {"uart", "heap", "threads", "calibrate", "smpFirst"} => Did("config")
    <3>1. s \in {"uart", "heap", "threads", "calibrate", "smpFirst"} => c = 0
      BY <1>3, <1>5, Where, Order DEF BootInv
    <3> QED
      BY <1>3, <1>5, <3>1, Before
  <2>4. s \in {"uart", "threads", "calibrate"} => Did("heap")
    <3>1. s \in {"uart", "threads", "calibrate"} => c = 0
      BY <1>3, <1>5, Where, Order DEF BootInv
    <3> QED
      BY <1>3, <1>5, <3>1, Before
  <2>5. Uses(s) \subseteq ready
    BY <2>1, <2>2, <2>4 DEF Uses, Did
  <2>6. s = "arrive" => c \in activeThreads
    BY <2>2, Cores DEF Did, Served, BootInv, Stage
  <2>7. /\ s = "heap" => kConfig.memSize = memInfo.above1M + 2^20
        /\ s \in {"threads", "smpFirst"} => kConfig # None
        /\ s = "wake" => kConfig.totalProcs = N /\ kConfig.ioAPIC # None
        /\ s = "unscope" => sink = "heap"
    BY <2>1, <2>3 DEF Did
  <2> QED
    BY <1>2, <1>3, <2>5, <2>6, <2>7
<1> QED
  BY <1>4, <1>5

\* No core uses the heap, the thread module, the APIC registers or the counter of the
\* timer before it is there, and the heap gets the memory that there is: for any number
\* of cores in p2 and p6, and for up to the four that the threads of p4 and p5 are for.
THEOREM NothingIsUsedTooEarly == KernelSpec => [](Served => NothingUsedTooEarly)
<1>1. BootInv => (Served => NothingUsedTooEarly)
  BY NothingIsEarly
<1> QED
  BY <1>1, TheBootIsInOrder, PTL

-----------------------------------------------------------------------------
(* The inductive invariant of the driver *)

Unit == 0..SectorSize - 1

\* Unit j of the sector the call has come to: on the drive, and as a write has it.
OnDrive(j) == disk[call.drive][Sector * SectorSize + j]
ToWrite(j) == IF j \in Begin..Begin + Count - 1 THEN call.buffer[call.total + (j - Begin)]
                                                ELSE OnDrive(j)

IdeTypes ==
  /\ selected \in Drive /\ lba \in Nat /\ moved \in 0..SectorSize
  /\ state \in [Drive -> {"ready", "busy", "drq"}] /\ DOMAIN command = Drive
  /\ data \in [Unit -> Value] /\ inside \in [Unit -> Value]
  /\ disk \in [Drive -> [0..Capacity - 1 -> Value]]
  /\ pc \in {"idle", "next", "ready", "registers", "select", "command", "settle", "request",
             "move", "finish", "after"}

Between == pc \in {"idle", "next"}
AtWork == pc \in {"settle", "request", "move", "finish"}

CallInRange ==
  /\ pc = "idle" <=> call = NoCall
  /\ pc # "idle" =>
       /\ call \in Asked /\ call.buffer \in [0..call.n - 1 -> Value]
       /\ call.offset + call.n <= Capacity /\ call.total <= call.n
  /\ ~Between => /\ call.total < call.n
                 /\ job = "read" \/ (job = "write" /\ call.write)

\* Which drive works, on which sector, and how far it is.
DriveInStep ==
  /\ \A d \in Drive : ~AtWork \/ d # selected => state[d] = "ready"
  /\ AtWork => /\ selected = call.drive
               /\ command[selected] = job
               /\ moved = 0 => pc # "finish"
  /\ AtWork \/ pc \in {"select", "command"} => lba = Sector
  /\ pc = "command" => selected = call.drive
  /\ pc = "settle" => moved = 0 /\ state[selected] # "ready"
  /\ pc = "request" => moved = 0 /\ state[selected] = "drq"
  /\ pc = "move" => moved < SectorSize /\ state[selected] = "drq"
  /\ pc = "finish" => job = "write" /\ moved = SectorSize /\ state[selected] # "drq"

\* Where the sector is: on the way from the drive...
SectorComes ==
  job = "read" =>
    /\ AtWork /\ state[selected] = "drq" => \A j \in Unit : inside[j] = OnDrive(j)
    /\ pc = "move" => \A j \in Unit : j < moved => data[j] = OnDrive(j)
    /\ pc = "after" => \A j \in Unit : data[j] = OnDrive(j)

\* ...or to it.
SectorGoes ==
  job = "write" /\ ~Between /\ ~Stored =>
    /\ \A j \in Unit : data[j] = ToWrite(j)
    /\ pc = "move" => \A j \in Unit : j < moved => inside[j] = data[j]
    /\ pc = "finish" => inside = data

IdeInv == IdeTypes /\ CallInRange /\ DriveInStep /\ SectorComes /\ SectorGoes

-----------------------------------------------------------------------------
(* Sectors *)

LEMMA Products ==
  ASSUME NEW a \in Nat, NEW b \in Nat, a < b
  PROVE  a * SectorSize + SectorSize <= b * SectorSize /\ a * SectorSize \in Nat
<1>1. PICK s \in Nat : s = SectorSize
  BY IdeAssumption
<1>2. PICK r \in Nat : b = a + 1 + r
  <2>1. b - a - 1 \in Nat /\ b = a + 1 + (b - a - 1)
    OBVIOUS
  <2> QED
    BY <2>1
<1>3. b * s = (a + 1) * s + r * s /\ (a + 1) * s = a * s + s /\ r * s \in Nat /\ a * s \in Nat
  BY <1>1, <1>2
<1> QED
  BY <1>1, <1>3

LEMMA Sectors ==
  ASSUME NEW a \in Nat
  PROVE  /\ a \div SectorSize \in Nat /\ a % SectorSize \in Unit
         /\ a = (a \div SectorSize) * SectorSize + (a % SectorSize)
BY IdeAssumption DEF Unit

LEMMA OneSector ==
  ASSUME NEW q \in Nat, NEW j \in Unit, NEW i \in Nat, i = q * SectorSize + j
  PROVE  i \div SectorSize = q /\ i % SectorSize = j
<1>1. PICK s \in Nat, p \in Nat, r \in Nat :
        s = SectorSize /\ p = i \div SectorSize /\ r = i % SectorSize
  <2>1. SectorSize \in Nat
    BY IdeAssumption
  <2>2. i \div SectorSize \in Nat /\ i % SectorSize \in Nat
    BY <2>1, Sectors DEF Unit
  <2> QED
    BY <2>1, <2>2
<1>2. i = p * s + r /\ r < s /\ j \in Nat /\ j < s
  BY <1>1, Sectors, IdeAssumption DEF Unit
<1>3. ~(p < q)
  <2>1. SUFFICES ASSUME p < q PROVE FALSE
    OBVIOUS
  <2>2. p * s + s <= q * s
    BY <1>1, <2>1, Products
  <2>3. q * s \in Nat /\ p * s \in Nat
    BY <1>1
  <2> QED
    BY <1>1, <1>2, <2>2, <2>3
<1>4. ~(q < p)
  <2>1. SUFFICES ASSUME q < p PROVE FALSE
    OBVIOUS
  <2>2. q * s + s <= p * s
    BY <1>1, <2>1, Products
  <2>3. q * s \in Nat /\ p * s \in Nat
    BY <1>1
  <2> QED
    BY <1>1, <1>2, <2>2, <2>3
<1>5. p = q
  BY <1>1, <1>3, <1>4
<1>6. q * s \in Nat
  BY <1>1
<1> QED
  BY <1>1, <1>2, <1>5, <1>6

\* The sector of a unit of a drive is on the drive.
LEMMA WholeSectors ==
  ASSUME NEW a \in Nat, a < Capacity, NEW j \in Unit
  PROVE  (a \div SectorSize) * SectorSize + j \in 0..Capacity - 1
<1>1. PICK s \in Nat, q \in Nat, m \in Nat, c \in Nat :
        s = SectorSize /\ q = a \div SectorSize /\ m = Capacity \div SectorSize /\ c = Capacity
  BY IdeAssumption, Sectors
<1>2. q * s \in Nat /\ m * s \in Nat /\ c = m * s /\ j \in Nat /\ j < s
      /\ a < c /\ a >= q * s
  BY <1>1, Sectors, IdeAssumption DEF Unit
<1>3. q < m
  <2>1. SUFFICES ASSUME ~(q < m) PROVE FALSE
    OBVIOUS
  <2>2. m = q \/ m < q
    BY <1>1, <2>1
  <2>3. m < q => m * s + s <= q * s
    BY <1>1, Products
  <2> QED
    BY <1>1, <1>2, <2>2, <2>3
<1>4. q * s + s <= m * s
  BY <1>1, <1>3, Products
<1> QED
  BY <1>1, <1>2, <1>4

-----------------------------------------------------------------------------
(* The sector of a call *)

\* The part of the call in its sector is not empty, and lies on the drive.
LEMMA ThePart ==
  ASSUME IdeInv, call # NoCall, call.total < call.n
  PROVE  /\ call \in Asked /\ call.buffer \in [0..call.n - 1 -> Value]
         /\ call.drive \in Drive /\ call.offset \in Nat /\ call.n \in Nat /\ call.total \in Nat
         /\ Place \in Nat /\ Place < Capacity /\ Sector \in Nat /\ Begin \in Unit
         /\ Begin \in Nat /\ SectorSize \in Nat
         /\ Sector * SectorSize \in Nat /\ Place = Sector * SectorSize + Begin
         /\ Count \in Nat /\ Count >= 1
         /\ Begin + Count <= SectorSize /\ call.total + Count <= call.n
         /\ \A j \in Unit : j \in Nat /\ Sector * SectorSize + j \in 0..Capacity - 1
         /\ \A j \in Unit : OnDrive(j) \in Value /\ ToWrite(j) \in Value
<1>1. /\ call \in Asked /\ call.buffer \in [0..call.n - 1 -> Value]
      /\ call.offset + call.n <= Capacity /\ SectorSize \in Nat /\ SectorSize > 0 /\ Capacity \in Nat
  BY IdeAssumption DEF IdeInv, CallInRange
<1>2. call.drive \in Drive /\ call.offset \in Nat /\ call.n \in Nat /\ call.total \in Nat
  BY <1>1 DEF Asked
<1>3. Place \in Nat /\ Place < Capacity
  BY <1>1, <1>2 DEF Place
<1>4. Sector \in Nat /\ Begin \in Unit /\ Place = Sector * SectorSize + Begin
  BY <1>3, Sectors DEF Sector, Begin
<1>5. Begin \in Nat /\ Begin < SectorSize
  BY <1>1, <1>4 DEF Unit
<1>6. /\ Count \in Nat /\ Count >= 1
      /\ Begin + Count <= SectorSize /\ call.total + Count <= call.n
  BY <1>1, <1>2, <1>5 DEF Count
<1>7. \A j \in Unit : j \in Nat /\ Sector * SectorSize + j \in 0..Capacity - 1
  BY <1>1, <1>3, WholeSectors DEF Sector, Unit
<1>8. Sector * SectorSize \in Nat
  BY <1>1, <1>4
<1>9. ASSUME NEW j \in Unit PROVE OnDrive(j) \in Value /\ ToWrite(j) \in Value
  <2>1. OnDrive(j) \in Value
    BY <1>2, <1>7 DEF OnDrive, IdeInv, IdeTypes
  <2>2. ASSUME j \in Begin..Begin + Count - 1 PROVE call.total + (j - Begin) \in 0..call.n - 1
    BY <1>2, <1>5, <1>6, <2>2
  <2> QED
    BY <1>1, <2>1, <2>2 DEF ToWrite
<1> QED
  BY <1>1, <1>2, <1>3, <1>4, <1>5, <1>6, <1>7, <1>8, <1>9

LEMMA SamePart ==
  ASSUME UNCHANGED call
  PROVE  /\ Sector' = Sector /\ Begin' = Begin /\ Count' = Count
         /\ UNCHANGED disk => \A j : OnDrive(j)' = OnDrive(j) /\ ToWrite(j)' = ToWrite(j)
BY DEF Sector, Begin, Count, Place, OnDrive, ToWrite

\* A call that has come further is still one.
LEMMA GoneOn ==
  ASSUME call \in Asked, NEW t, t \in Nat, NEW b, b \in [0..call.n - 1 -> Value],
         call' = [call EXCEPT !.total = t, !.buffer = b]
  PROVE  /\ call' \in Asked /\ call' # NoCall
         /\ call'.n = call.n /\ call'.offset = call.offset
         /\ call'.buffer = b /\ call'.total = t
<1>1. /\ call.write \in BOOLEAN /\ call.drive \in Drive /\ call.offset \in Nat
      /\ call.n \in 1..Capacity
      /\ call = [write |-> call.write, drive |-> call.drive, offset |-> call.offset, n |-> call.n,
                 buffer |-> call.buffer, total |-> call.total]
  BY DEF Asked
<1>2. call' = [write |-> call.write, drive |-> call.drive, offset |-> call.offset, n |-> call.n,
               buffer |-> b, total |-> t]
  BY <1>1
<1>3. b \in UNION {[0..n - 1 -> Value] : n \in 1..Capacity}
  BY <1>1
<1>4. call' \in Asked
  BY <1>1, <1>2, <1>3 DEF Asked
<1> QED
  BY <1>2, <1>4, IdeAssumption

\* What Disk sees of the call.
Seen == IF call # NoCall /\ Stored THEN [call EXCEPT !.total = @ + Count] ELSE call

\* A step of the driver that Disk does not see.
Unseen == UNCHANGED <<disk, Seen>>

LEMMA NotSeen ==
  ASSUME UNCHANGED <<call, disk>>, Stored' <=> Stored
  PROVE  Unseen
BY SamePart DEF Unseen, Seen

-----------------------------------------------------------------------------
(* The steps between the sectors *)

LEMMA DriverReturns ==
  ASSUME IdeInv, Return
  PROVE  IdeInv' /\ AsDisk!Return
<1> USE DEF Return, Step, driver, device
<1>1. ~Stored /\ ~Stored'
  BY DEF Stored
<1>2. Clean \in [Unit -> Value]
  BY IdeAssumption DEF Clean, Unit
<1>3. IdeInv'
  BY <1>2 DEF IdeInv, IdeTypes, CallInRange, DriveInStep, SectorComes, SectorGoes, Between, AtWork
<1>4. AsDisk!Return
  BY <1>1 DEF AsDisk!Return
<1> QED
  BY <1>3, <1>4

LEMMA DriverChooses ==
  ASSUME IdeInv, Choose
  PROVE  IdeInv' /\ Unseen
<1>1. /\ call # NoCall /\ call.total < call.n /\ pc = "next" /\ pc' = "ready"
      /\ job' = IF call.write /\ Count = SectorSize THEN "write" ELSE "read"
      /\ data' = IF job' = "write" THEN [i \in 0..SectorSize - 1 |-> call.buffer[call.total + i]]
                                   ELSE data
      /\ UNCHANGED <<call, device>>
  BY DEF Choose, Step
<1>2. Unseen
  BY <1>1, NotSeen DEF Stored, device
<1>3. ASSUME job' = "write"
      PROVE  data' \in [Unit -> Value] /\ \A j \in Unit : data'[j] = ToWrite(j)
  <2>1. Count = SectorSize /\ Begin = 0
    BY <1>1, <1>3, ThePart
  <2>2. \A j \in Unit : j \in Begin..Begin + Count - 1 /\ ToWrite(j) = call.buffer[call.total + j]
    <3>1. SUFFICES ASSUME NEW j \in Unit
          PROVE  j \in Begin..Begin + Count - 1 /\ ToWrite(j) = call.buffer[call.total + j]
      OBVIOUS
    <3>2. j \in Begin..Begin + Count - 1 /\ j - Begin = j
      BY <1>1, <2>1, ThePart DEF Unit
    <3> QED
      BY <3>2 DEF ToWrite
  <2>3. data' = [i \in Unit |-> call.buffer[call.total + i]]
    BY <1>1, <1>3 DEF Unit
  <2> QED
    BY <1>1, <2>2, <2>3, ThePart
<1>4. IdeTypes'
  BY <1>1, <1>3 DEF IdeInv, IdeTypes, device
<1>5. CallInRange' /\ DriveInStep' /\ SectorComes'
  BY <1>1, SamePart
     DEF IdeInv, CallInRange, DriveInStep, SectorComes, Between, AtWork, device
<1>6. SectorGoes'
  BY <1>1, <1>3, SamePart DEF SectorGoes, device
<1> QED
  BY <1>2, <1>4, <1>5, <1>6 DEF IdeInv

\* The part is copied over the sector that was read, to be written...
LEMMA DriverMerges ==
  ASSUME IdeInv, AfterRead, call.write
  PROVE  IdeInv' /\ Unseen
<1>1. /\ job = "read" /\ pc = "after" /\ pc' = "ready" /\ job' = "write"
      /\ data' = memcpy(data, Begin, call.buffer, call.total, Count)
      /\ UNCHANGED <<call, device>>
  BY DEF AfterRead, Step
<1>2. Unseen
  BY <1>1, NotSeen DEF Stored, device
<1>3. call # NoCall /\ call.total < call.n
  BY <1>1 DEF IdeInv, CallInRange, Between
<1>4. \A j \in Unit : data[j] = OnDrive(j)
  BY <1>1 DEF IdeInv, SectorComes
<1>5. data' \in [Unit -> Value] /\ \A j \in Unit : data'[j] = ToWrite(j)
  <2>1. data \in [Unit -> Value]
    BY DEF IdeInv, IdeTypes
  <2>2. \A j \in Unit : call.total + j - Begin = call.total + (j - Begin)
    BY <1>3, ThePart
  <2>3. data' = [j \in Unit |-> IF j \in Begin..Begin + Count - 1 THEN call.buffer[call.total + j - Begin]
                                                                ELSE data[j]]
    BY <1>1, <2>1 DEF memcpy
  <2>4. \A j \in Unit : data'[j] = ToWrite(j)
    BY <1>4, <2>2, <2>3 DEF ToWrite
  <2> QED
    BY <1>3, <2>3, <2>4, ThePart
<1>6. IdeTypes'
  BY <1>1, <1>5 DEF IdeInv, IdeTypes, device
<1>7. CallInRange' /\ DriveInStep' /\ SectorComes'
  BY <1>1, <1>3, SamePart
     DEF IdeInv, CallInRange, DriveInStep, SectorComes, Between, AtWork, device
<1>8. SectorGoes'
  BY <1>1, <1>5, SamePart DEF SectorGoes, device
<1> QED
  BY <1>2, <1>6, <1>7, <1>8 DEF IdeInv

\* ...or out of it into the buffer.
LEMMA DriverDelivers ==
  ASSUME IdeInv, AfterRead, ~call.write
  PROVE  IdeInv' /\ AsDisk!Move
<1>1. /\ job = "read" /\ pc = "after" /\ pc' = "next"
      /\ call' = [call EXCEPT !.total = @ + Count,
                              !.buffer = memcpy(@, call.total, data, Begin, Count)]
      /\ UNCHANGED <<job, data, device>>
  BY DEF AfterRead, Step
<1>2. call # NoCall /\ call.total < call.n
  BY <1>1 DEF IdeInv, CallInRange, Between
<1>3. \A j \in Unit : data[j] = OnDrive(j)
  BY <1>1 DEF IdeInv, SectorComes
<1>4. PICK buffer : buffer = memcpy(call.buffer, call.total, data, Begin, Count)
  OBVIOUS
<1>5. /\ buffer \in [0..call.n - 1 -> Value]
      /\ buffer = [i \in DOMAIN call.buffer |->
                    IF i \in call.total..call.total + Count - 1 THEN disk[call.drive][call.offset + i]
                                                               ELSE call.buffer[i]]
  <2>1. /\ DOMAIN call.buffer = 0..call.n - 1
        /\ buffer = [i \in 0..call.n - 1 |->
                      IF i \in call.total..call.total + Count - 1 THEN data[Begin + i - call.total]
                                                                  ELSE call.buffer[i]]
    BY <1>2, <1>4, ThePart DEF memcpy
  <2>2. ASSUME NEW i \in call.total..call.total + Count - 1
        PROVE  /\ data[Begin + i - call.total] = disk[call.drive][call.offset + i]
               /\ data[Begin + i - call.total] \in Value
    <3>1. PICK j : j = Begin + i - call.total
      OBVIOUS
    <3>2. PICK b \in Nat, k \in Nat : b = Begin /\ k = Count
      BY <1>2, ThePart
    <3>3. /\ call.total \in Nat /\ call.offset \in Nat /\ SectorSize \in Nat /\ i \in Int
          /\ i >= call.total /\ i <= call.total + k - 1 /\ b + k <= SectorSize
          /\ Sector * SectorSize \in Nat
      BY <1>2, <3>2, ThePart
    <3>4. call.offset + call.total = Sector * SectorSize + b
      BY <1>2, <3>2, ThePart DEF Place
    <3>5. j = b + i - call.total /\ j \in 0..SectorSize - 1
      BY <3>1, <3>2, <3>3
    <3>6. j \in Unit /\ Sector * SectorSize + j = call.offset + i
      BY <3>3, <3>4, <3>5 DEF Unit
    <3>7. data[j] = disk[call.drive][call.offset + i]
      BY <1>3, <3>6 DEF OnDrive
    <3>8. data[j] \in Value
      BY <3>6 DEF IdeInv, IdeTypes
    <3> QED
      BY <3>1, <3>7, <3>8
  <2>3. buffer \in [0..call.n - 1 -> Value]
    <3>1. ASSUME NEW i \in 0..call.n - 1 PROVE buffer[i] \in Value
      BY <1>2, <2>1, <2>2, ThePart
    <3> QED
      BY <2>1, <3>1
  <2> QED
    BY <2>1, <2>2, <2>3
<1>6. call' = [call EXCEPT !.total = call.total + Count, !.buffer = buffer]
  BY <1>1, <1>4
<1>7. /\ call' \in Asked /\ call' # NoCall /\ call'.n = call.n /\ call'.offset = call.offset
      /\ call'.buffer = buffer /\ call'.total = call.total + Count
  <2>1. PICK t : t = call.total + Count
    OBVIOUS
  <2>2. call \in Asked /\ t \in Nat /\ buffer \in [0..call.n - 1 -> Value]
    BY <1>2, <1>5, <2>1, ThePart
  <2>3. call' = [call EXCEPT !.total = t, !.buffer = buffer]
    BY <1>6, <2>1
  <2>4. call' \in Asked /\ call' # NoCall /\ call'.n = call.n /\ call'.offset = call.offset
        /\ call'.buffer = buffer /\ call'.total = t
    BY <2>2, <2>3, GoneOn, Zenon
  <2> QED
    BY <2>1, <2>4
<1>8. IdeTypes'
  BY <1>1 DEF IdeInv, IdeTypes, device
<1>9. CallInRange'
  BY <1>1, <1>2, <1>5, <1>7, ThePart DEF IdeInv, CallInRange, Between
<1>10. DriveInStep' /\ SectorComes' /\ SectorGoes'
  BY <1>1 DEF IdeInv, DriveInStep, SectorComes, SectorGoes, AtWork, Between, device
<1>11. AsDisk!Move
  <2>1. ~Stored /\ ~Stored'
    BY <1>1 DEF Stored
  <2>2. Seen = call /\ Seen' = call'
    BY <2>1 DEF Seen
  <2>3. Count = IF call.n - call.total < SectorSize - ((call.offset + call.total) % SectorSize)
                THEN call.n - call.total
                ELSE SectorSize - ((call.offset + call.total) % SectorSize)
    <3>1. Begin = (call.offset + call.total) % SectorSize
      BY DEF Begin, Place
    <3>2. Begin \in Nat /\ SectorSize \in Nat /\ call.n - call.total \in Int
      BY <1>2, ThePart
    <3> QED
      BY <3>1, <3>2 DEF Count
  <2>4. call' = [call EXCEPT !.total = @ + Count,
                   !.buffer = [i \in DOMAIN @ |->
                     IF i \in call.total..call.total + Count - 1 THEN disk[call.drive][call.offset + i]
                                                                 ELSE @[i]]]
    BY <1>5, <1>6
  <2> QED
    <3>1. AsDisk!Part = [at |-> call.offset + call.total, count |-> Count]
      BY <2>1, <2>3 DEF AsDisk!Part
    <3> QED
      BY <1>1, <1>2, <2>1, <2>4, <3>1 DEF AsDisk!Move, device
<1> QED
  BY <1>8, <1>9, <1>10, <1>11 DEF IdeInv

\* A sector is written: Disk has seen it when it was stored.
LEMMA DriverCounts ==
  ASSUME IdeInv, AfterWrite
  PROVE  IdeInv' /\ Unseen
<1>1. /\ job = "write" /\ pc = "after" /\ pc' = "next"
      /\ call' = [call EXCEPT !.total = @ + Count]
      /\ UNCHANGED <<job, data, device>>
  BY DEF AfterWrite, Step
<1>2. call # NoCall /\ call.total < call.n
  BY <1>1 DEF IdeInv, CallInRange, Between
<1>3. /\ call' \in Asked /\ call' # NoCall /\ call'.n = call.n /\ call'.offset = call.offset
      /\ call'.buffer = call.buffer /\ call'.total = call.total + Count
  <2>1. PICK t, b : t = call.total + Count /\ b = call.buffer
    OBVIOUS
  <2>2. call \in Asked /\ t \in Nat /\ b \in [0..call.n - 1 -> Value]
    BY <1>2, <2>1, ThePart
  <2>3. call' = [call EXCEPT !.total = t, !.buffer = b]
    BY <1>1, <2>1, <2>2 DEF Asked
  <2>4. call' \in Asked /\ call' # NoCall /\ call'.n = call.n /\ call'.offset = call.offset
        /\ call'.buffer = b /\ call'.total = t
    BY <2>2, <2>3, GoneOn, Zenon
  <2> QED
    BY <2>1, <2>4
<1>4. IdeTypes'
  BY <1>1 DEF IdeInv, IdeTypes, device
<1>5. CallInRange'
  BY <1>1, <1>2, <1>3, ThePart DEF IdeInv, CallInRange, Between
<1>6. DriveInStep' /\ SectorComes' /\ SectorGoes'
  BY <1>1 DEF IdeInv, DriveInStep, SectorComes, SectorGoes, AtWork, Between, device
<1>7. Unseen
  BY <1>1, <1>2 DEF Unseen, Seen, Stored, device
<1> QED
  BY <1>4, <1>5, <1>6, <1>7 DEF IdeInv

-----------------------------------------------------------------------------
(* The steps of a sector *)

LEMMA DriverCalls ==
  ASSUME IdeInv, Call
  PROVE  IdeInv' /\ AsDisk!Call
<1>1. PICK k \in Calls : Start(k.write, k.drive, k.offset, k.buffer, k.n)
  BY DEF Call
<1>2. /\ pc = "idle" /\ pc' = "next" /\ UNCHANGED <<job, data, device>>
      /\ call' = [write |-> k.write, drive |-> k.drive, offset |-> k.offset, n |-> k.n,
                  buffer |-> k.buffer, total |-> 0]
  BY <1>1 DEF Start, Step
<1>3. /\ k.write \in BOOLEAN /\ k.drive \in Drive /\ k.offset \in 0..Capacity - 1
      /\ k.n \in 1..Capacity /\ k.offset + k.n <= Capacity /\ k.buffer \in [0..k.n - 1 -> Value]
  BY CallsAssumption, IdeAssumption
<1>4. call' \in Asked
  <2>1. k.buffer \in UNION {[0..n - 1 -> Value] : n \in 1..Capacity}
    BY <1>3
  <2> QED
    BY <1>2, <1>3, <2>1, IdeAssumption DEF Asked
<1>5. CallInRange'
  BY <1>2, <1>3, <1>4, IdeAssumption DEF CallInRange, Between
<1>6. IdeTypes' /\ DriveInStep' /\ SectorComes' /\ SectorGoes'
  BY <1>2 DEF IdeInv, IdeTypes, DriveInStep, SectorComes, SectorGoes, Between, AtWork, device
<1>7. AsDisk!Call
  <2>1. call = NoCall /\ ~Stored'
    BY <1>2 DEF IdeInv, CallInRange, Stored
  <2>2. k.buffer \in AsDisk!Buffer(k.n)
    BY <1>3 DEF AsDisk!Buffer
  <2> QED
    BY <1>2, <1>3, <2>1, <2>2 DEF AsDisk!Call, device
<1> QED
  BY <1>5, <1>6, <1>7 DEF IdeInv

LEMMA DriverWaits ==
  ASSUME IdeInv,
         \/ waitForDrive("ready", "registers") \/ waitForDrive("settle", "request")
         \/ waitForDrive("finish", "after") \/ Request
  PROVE  IdeInv' /\ Unseen
<1>1. /\ UNCHANGED <<call, job, data, device>>
      /\ \/ pc = "ready" /\ pc' = "registers"
         \/ pc = "settle" /\ pc' = "request" /\ state[selected] # "busy"
         \/ pc = "finish" /\ pc' = "after" /\ state[selected] # "busy"
         \/ pc = "request" /\ pc' = "move"
  BY DEF waitForDrive, Request, Step, getStatus
<1>2. UNCHANGED <<lba, selected, state, command, moved, inside, disk>>
  BY <1>1 DEF device
<1>3. state[selected] \in {"ready", "busy", "drq"} /\ SectorSize > 0
  BY IdeAssumption DEF IdeInv, IdeTypes
<1>4. Stored' <=> Stored
  BY <1>1, <1>2, <1>3 DEF Stored, IdeInv, DriveInStep
<1>5. Unseen
  BY <1>1, <1>2, <1>4, NotSeen
<1>6. IdeTypes' /\ CallInRange'
  BY <1>1, <1>2 DEF IdeInv, IdeTypes, CallInRange, Between
<1>7. DriveInStep'
  <2>1. Sector' = Sector
    BY <1>1, SamePart
  <2> QED
    BY <1>1, <1>2, <1>3, <2>1 DEF IdeInv, IdeTypes, DriveInStep, AtWork
<1>8. SectorComes'
  <2>1. \A j : OnDrive(j)' = OnDrive(j)
    BY <1>1, <1>2, SamePart
  <2>2. moved \in Nat /\ (pc = "request" => moved = 0) /\ (pc = "finish" => job = "write")
    BY IdeAssumption DEF IdeInv, IdeTypes, DriveInStep
  <2> QED
    BY <1>1, <1>2, <1>3, <2>1, <2>2 DEF IdeInv, SectorComes, AtWork, Unit
<1>9. SectorGoes'
  <2>1. \A j : ToWrite(j)' = ToWrite(j)
    BY <1>1, <1>2, SamePart
  <2>2. pc = "request" => moved = 0
    BY DEF IdeInv, DriveInStep
  <2> QED
    BY <1>1, <1>2, <1>4, <2>1, <2>2 DEF IdeInv, SectorGoes, Between, Unit
<1> QED
  BY <1>5, <1>6, <1>7, <1>8, <1>9 DEF IdeInv

LEMMA DriverTells ==
  ASSUME IdeInv, Registers \/ Select \/ Command
  PROVE  IdeInv' /\ Unseen
<1>1. /\ UNCHANGED <<call, job, data, inside, disk>>
      /\ \/ /\ pc = "registers" /\ pc' = "select" /\ lba' = Sector
            /\ UNCHANGED <<selected, state, command, moved>>
         \/ /\ pc = "select" /\ pc' = "command" /\ selected' = call.drive
            /\ UNCHANGED <<lba, state, command, moved>>
         \/ /\ pc = "command" /\ pc' = "settle" /\ moved' = 0
            /\ state' = [state EXCEPT ![selected] = "busy"]
            /\ command' = [command EXCEPT ![selected] = job]
            /\ UNCHANGED <<lba, selected>>
  BY DEF Registers, Select, Command, Step
<1>2. ~Stored /\ ~Stored'
  BY <1>1 DEF Stored
<1>3. Unseen
  BY <1>1, <1>2, NotSeen
<1>4. call # NoCall /\ call.total < call.n
  BY <1>1 DEF IdeInv, CallInRange, Between
<1>5. Sector' = Sector /\ (\A j : ToWrite(j)' = ToWrite(j))
  BY <1>1, SamePart
<1>6. IdeTypes'
  <2>1. Sector \in Nat /\ call.drive \in Drive /\ 0 \in 0..SectorSize
    BY <1>4, ThePart
  <2> QED
    BY <1>1, <2>1 DEF IdeInv, IdeTypes
<1>7. CallInRange'
  BY <1>1 DEF IdeInv, CallInRange, Between
<1>8. DriveInStep'
  BY <1>1, <1>5 DEF IdeInv, IdeTypes, DriveInStep, AtWork
<1>9. SectorComes'
  BY <1>1 DEF IdeInv, IdeTypes, SectorComes, AtWork
<1>10. SectorGoes'
  BY <1>1, <1>2, <1>5 DEF IdeInv, SectorGoes, Between
<1> QED
  BY <1>3, <1>6, <1>7, <1>8, <1>9, <1>10 DEF IdeInv

LEMMA UnitMoves ==
  ASSUME IdeInv, Move
  PROVE  IdeInv' /\ Unseen
<1>1. /\ pc = "move" /\ moved' = moved + 1
      /\ UNCHANGED <<call, job, lba, selected, command, disk>>
      /\ job = "read" => data' = [data EXCEPT ![moved] = inside[moved]] /\ UNCHANGED inside
      /\ job # "read" => inside' = [inside EXCEPT ![moved] = data[moved]] /\ UNCHANGED data
      /\ moved' < SectorSize => UNCHANGED <<pc, state>>
      /\ ~(moved' < SectorSize) =>
           /\ pc' = IF job = "read" THEN "after" ELSE "finish"
           /\ state' = [state EXCEPT ![selected] = IF job = "read" THEN "ready" ELSE "busy"]
  BY DEF Move, inl, outl
<1>2. /\ moved \in Nat /\ moved < SectorSize /\ SectorSize \in Nat /\ moved \in Unit
      /\ state[selected] = "drq" /\ selected \in Drive
      /\ job = "read" \/ (job = "write" /\ call.write)
      /\ call.total < call.n /\ call # NoCall
  BY <1>1, IdeAssumption DEF IdeInv, IdeTypes, DriveInStep, CallInRange, Between, Unit
<1>3. ~Stored /\ ~Stored'
  <2>1. ~(moved' < SectorSize) /\ job # "read" => state'[selected] = "busy"
    BY <1>1, <1>2 DEF IdeInv, IdeTypes
  <2> QED
    BY <1>1, <1>2, <2>1 DEF Stored
<1>4. Unseen
  BY <1>1, <1>3, NotSeen
<1>5. /\ Sector' = Sector
      /\ \A j : OnDrive(j)' = OnDrive(j) /\ ToWrite(j)' = ToWrite(j)
  BY <1>1, SamePart
<1>6. IdeTypes'
  BY <1>1, <1>2 DEF IdeInv, IdeTypes
<1>7. CallInRange'
  BY <1>1, <1>2 DEF IdeInv, CallInRange, Between
<1>8. DriveInStep'
  BY <1>1, <1>2, <1>5 DEF IdeInv, IdeTypes, DriveInStep, AtWork
<1>9. SectorComes'
  <2>1. SUFFICES ASSUME job = "read" PROVE SectorComes'
    BY <1>1 DEF SectorComes
  <2>2. \A j \in Unit : inside[j] = OnDrive(j) /\ (j < moved => data[j] = OnDrive(j))
    BY <1>1, <1>2, <2>1 DEF IdeInv, SectorComes, AtWork
  <2>3. \A j \in Unit : j < moved + 1 => j < moved \/ j = moved
    BY <1>2 DEF Unit
  <2>4. \A j \in Unit : j < moved' => data'[j] = OnDrive(j)
    BY <1>1, <1>2, <2>1, <2>2, <2>3 DEF IdeInv, IdeTypes
  <2>5. ~(moved' < SectorSize) => \A j \in Unit : j < moved'
    BY <1>1, <1>2 DEF Unit
  <2> QED
    BY <1>1, <1>2, <1>5, <2>1, <2>2, <2>4, <2>5 DEF SectorComes, AtWork, Unit
<1>10. SectorGoes'
  <2>1. SUFFICES ASSUME job = "write" PROVE SectorGoes'
    BY <1>1 DEF SectorGoes
  <2>2. \A j \in Unit : data[j] = ToWrite(j) /\ (j < moved => inside[j] = data[j])
    BY <1>1, <1>3, <2>1 DEF IdeInv, SectorGoes, Between
  <2>3. \A j \in Unit : j < moved + 1 => j < moved \/ j = moved
    BY <1>2 DEF Unit
  <2>4. \A j \in Unit : j < moved' => inside'[j] = data'[j]
    BY <1>1, <1>2, <2>1, <2>2, <2>3 DEF IdeInv, IdeTypes
  <2>5. ~(moved' < SectorSize) => inside' = data'
    <3>1. ~(moved' < SectorSize) => \A j \in Unit : j < moved'
      BY <1>1, <1>2 DEF Unit
    <3>2. inside' \in [Unit -> Value] /\ data' \in [Unit -> Value]
      BY <1>6 DEF IdeTypes, Unit
    <3> QED
      BY <2>4, <3>1, <3>2
  <2> QED
    BY <1>1, <1>5, <2>1, <2>2, <2>4, <2>5 DEF SectorGoes, Unit
<1> QED
  BY <1>4, <1>6, <1>7, <1>8, <1>9, <1>10 DEF IdeInv

-----------------------------------------------------------------------------
(* The drive *)

LEMMA DrivePrepares ==
  ASSUME IdeInv, NEW d \in Drive, Prepare(d)
  PROVE  IdeInv' /\ Unseen
<1>1. /\ state[d] = "busy" /\ ~(command[d] = "write" /\ moved = SectorSize)
      /\ state' = [state EXCEPT ![d] = "drq"]
      /\ UNCHANGED <<pc, call, job, data, lba, selected, command, moved, disk>>
      /\ inside' = IF command[d] = "read" THEN [i \in Unit |-> disk[d][lba * SectorSize + i]]
                                          ELSE Clean
  BY DEF Prepare, driver, Located, Unit
<1>2. AtWork /\ d = selected /\ selected = call.drive /\ command[d] = job /\ lba = Sector
  BY <1>1 DEF IdeInv, DriveInStep
<1>3. pc = "settle" /\ moved = 0
  BY <1>1, <1>2 DEF IdeInv, DriveInStep, AtWork
<1>4. call # NoCall /\ call.total < call.n
  BY <1>3 DEF IdeInv, CallInRange, Between
<1>5. ~Stored /\ ~Stored'
  BY <1>1, <1>3 DEF Stored
<1>6. Unseen
  BY <1>1, <1>5, NotSeen
<1>7. Sector' = Sector /\ \A j : OnDrive(j)' = OnDrive(j) /\ ToWrite(j)' = ToWrite(j)
  BY <1>1, SamePart
<1>8. inside' \in [Unit -> Value] /\ (job = "read" => \A j \in Unit : inside'[j] = OnDrive(j))
  <2>1. Clean \in [Unit -> Value]
    BY IdeAssumption DEF Clean, Unit
  <2>2. job = "read" => \A j \in Unit : inside'[j] = OnDrive(j)
    BY <1>1, <1>2 DEF OnDrive
  <2>3. job = "read" => inside' = [i \in Unit |-> disk[d][lba * SectorSize + i]]
    BY <1>1, <1>2
  <2> QED
    BY <1>1, <1>2, <1>4, <2>1, <2>2, <2>3, ThePart
<1>9. IdeTypes'
  BY <1>1, <1>8 DEF IdeInv, IdeTypes, Unit
<1>10. CallInRange'
  BY <1>1 DEF IdeInv, CallInRange, Between
<1>11. DriveInStep'
  BY <1>1, <1>2, <1>3, <1>7 DEF IdeInv, IdeTypes, DriveInStep, AtWork
<1>12. SectorComes'
  BY <1>1, <1>3, <1>7, <1>8 DEF SectorComes, AtWork, Unit
<1>13. SectorGoes'
  BY <1>1, <1>3, <1>5, <1>7 DEF IdeInv, SectorGoes, Between, Unit
<1> QED
  BY <1>6, <1>9, <1>10, <1>11, <1>12, <1>13 DEF IdeInv

LEMMA DriveStores ==
  ASSUME IdeInv, NEW d \in Drive, Store(d)
  PROVE  IdeInv' /\ AsDisk!Move
<1>1. /\ state[d] = "busy" /\ command[d] = "write" /\ moved = SectorSize
      /\ state' = [state EXCEPT ![d] = "ready"]
      /\ UNCHANGED <<pc, call, job, data, lba, selected, command, moved, inside>>
      /\ disk' = [disk EXCEPT ![d] = [i \in DOMAIN disk[d] |->
                    IF i \div SectorSize = lba THEN inside[i % SectorSize] ELSE disk[d][i]]]
  BY DEF Store, driver
<1>2. AtWork /\ d = selected /\ selected = call.drive /\ command[d] = job /\ lba = Sector
  BY <1>1 DEF IdeInv, DriveInStep
<1>3. pc = "finish" /\ job = "write"
  BY <1>1, <1>2, IdeAssumption DEF IdeInv, DriveInStep, AtWork
<1>4. call # NoCall /\ call.total < call.n /\ call.write
  BY <1>3 DEF IdeInv, CallInRange, Between
<1>5. ~Stored /\ Stored'
  BY <1>1, <1>2, <1>3 DEF Stored, IdeInv, IdeTypes
<1>6. \A j \in Unit : inside[j] = ToWrite(j)
  BY <1>3, <1>5 DEF IdeInv, SectorGoes, Between
<1>7. DOMAIN disk[d] = 0..Capacity - 1 /\ DOMAIN disk = Drive
  BY DEF IdeInv, IdeTypes
<1>8. ASSUME NEW i \in 0..Capacity - 1
      PROVE  /\ disk'[d][i] \in Value
             /\ disk'[d][i] = IF i \in Place..Place + Count - 1 THEN call.buffer[i - call.offset]
                                                                ELSE disk[d][i]
  <2>1. disk'[d][i] = IF i \div SectorSize = Sector THEN inside[i % SectorSize] ELSE disk[d][i]
    BY <1>1, <1>2, <1>7
  <2>2. i \in Nat /\ Capacity \in Nat
    BY IdeAssumption
  <2>3. PICK b \in Nat, k \in Nat, at \in Nat, off \in Nat, tot \in Nat :
          b = Begin /\ k = Count /\ at = Place /\ off = call.offset /\ tot = call.total
    BY <1>4, ThePart
  <2>4. PICK s \in Nat : s = Sector * SectorSize
    BY <1>4, ThePart
  <2>5. at = s + b /\ b + k <= SectorSize /\ SectorSize \in Nat /\ at = off + tot
    BY <1>4, <2>3, <2>4, ThePart DEF Place
  <2>6. CASE i \div SectorSize = Sector
    <3>1. PICK j \in Unit : j = i % SectorSize
      BY <2>2, Sectors
    <3>2. i = s + j /\ j \in Nat /\ j < SectorSize
      <4>1. i = (i \div SectorSize) * SectorSize + j
        BY <2>2, <3>1, Sectors
      <4>2. (i \div SectorSize) * SectorSize = s
        BY <2>4, <2>6
      <4> QED
        BY <2>5, <4>1, <4>2 DEF Unit
    <3>3. disk'[d][i] = ToWrite(j)
      BY <1>6, <2>1, <2>6, <3>1
    <3>4. j \in b..b + k - 1 <=> i \in at..at + k - 1
      BY <2>5, <3>2
    <3>5. tot + (j - b) = i - off
      BY <2>5, <3>2
    <3>6. OnDrive(j) = disk[d][i]
      BY <1>2, <2>4, <3>2 DEF OnDrive
    <3>7. ToWrite(j) = IF i \in at..at + k - 1 THEN call.buffer[i - off] ELSE disk[d][i]
      BY <2>3, <3>4, <3>5, <3>6 DEF ToWrite
    <3>8. ToWrite(j) \in Value
      BY <1>4, <3>1, ThePart
    <3> QED
      BY <2>3, <3>3, <3>7, <3>8
  <2>7. CASE i \div SectorSize # Sector
    <3>1. i \notin at..at + k - 1
      <4>1. SUFFICES ASSUME i \in at..at + k - 1 PROVE FALSE
        OBVIOUS
      <4>2. i - s \in Unit /\ i = s + (i - s)
        BY <2>2, <2>5, <4>1 DEF Unit
      <4>3. PICK j \in Unit : i = Sector * SectorSize + j
        BY <2>4, <4>2
      <4>4. Sector \in Nat
        BY <1>4, ThePart
      <4> QED
        BY <2>2, <2>7, <4>3, <4>4, OneSector
    <3>2. disk[d][i] \in Value
      BY DEF IdeInv, IdeTypes
    <3> QED
      BY <2>1, <2>3, <2>7, <3>1, <3>2
  <2> QED
    BY <2>6, <2>7
<1>9. /\ disk' = [disk EXCEPT ![d] = [i \in DOMAIN disk[d] |->
                    IF i \in Place..Place + Count - 1 THEN call.buffer[i - call.offset]
                                                      ELSE disk[d][i]]]
      /\ disk' \in [Drive -> [0..Capacity - 1 -> Value]]
  <2>1. PICK new : new = [i \in DOMAIN disk[d] |->
                    IF i \div SectorSize = lba THEN inside[i % SectorSize] ELSE disk[d][i]]
    OBVIOUS
  <2>2. disk' = [disk EXCEPT ![d] = new] /\ disk'[d] = new
    BY <1>1, <1>7, <2>1
  <2>3. new = [i \in DOMAIN disk[d] |->
                    IF i \in Place..Place + Count - 1 THEN call.buffer[i - call.offset]
                                                      ELSE disk[d][i]]
    <3>1. DOMAIN new = 0..Capacity - 1
      BY <1>7, <2>1
    <3>2. \A i \in 0..Capacity - 1 :
            new[i] = IF i \in Place..Place + Count - 1 THEN call.buffer[i - call.offset]
                                                       ELSE disk[d][i]
      BY <1>8, <2>2
    <3> QED
      BY <1>7, <2>1, <3>1, <3>2
  <2>4. new \in [0..Capacity - 1 -> Value]
    BY <1>7, <1>8, <2>1, <2>2
  <2>5. disk' \in [Drive -> [0..Capacity - 1 -> Value]]
    BY <2>2, <2>4 DEF IdeInv, IdeTypes
  <2> QED
    BY <2>2, <2>3, <2>5
<1>10. IdeTypes'
  BY <1>1, <1>9 DEF IdeInv, IdeTypes, Unit
<1>11. CallInRange'
  BY <1>1 DEF IdeInv, CallInRange, Between
<1>12. DriveInStep'
  <2>1. Sector' = Sector
    BY <1>1, SamePart
  <2> QED
    BY <1>1, <1>2, <1>3, <2>1, IdeAssumption DEF IdeInv, IdeTypes, DriveInStep, AtWork
<1>13. SectorComes' /\ SectorGoes'
  BY <1>1, <1>3, <1>5 DEF SectorComes, SectorGoes
<1>14. AsDisk!Move
  <2>1. Count = IF call.n - call.total < SectorSize - ((call.offset + call.total) % SectorSize)
                THEN call.n - call.total
                ELSE SectorSize - ((call.offset + call.total) % SectorSize)
    <3>1. Begin = (call.offset + call.total) % SectorSize
      BY DEF Begin, Place
    <3>2. Begin \in Nat /\ SectorSize \in Nat /\ call.n - call.total \in Int
      BY <1>4, ThePart
    <3> QED
      BY <3>1, <3>2 DEF Count
  <2>2. AsDisk!Part = [at |-> Place, count |-> Count]
    BY <1>5, <2>1 DEF AsDisk!Part, Place
  <2>3. Count' = Count /\ call' = call
    BY <1>1, SamePart
  <2>4. [call EXCEPT !.total = @ + Count]
          = [call EXCEPT !.total = @ + Count, !.buffer = IF call.write THEN @ ELSE 
               [i \in DOMAIN @ |->
                  IF i \in call.total..call.total + Count - 1 THEN disk[d][call.offset + i] ELSE @[i]]]
    <3>1. call = [write |-> call.write, drive |-> call.drive, offset |-> call.offset, n |-> call.n,
                  buffer |-> call.buffer, total |-> call.total]
      BY <1>4, ThePart DEF Asked
    <3> QED
      BY <1>4, <3>1
  <2> QED
    BY <1>2, <1>4, <1>5, <1>9, <2>2, <2>3, <2>4 DEF AsDisk!Move
<1> QED
  BY <1>10, <1>11, <1>12, <1>13, <1>14 DEF IdeInv

-----------------------------------------------------------------------------
(* The driver does what Disk says *)

LEMMA DriverStarts ==
  ASSUME KernelInit
  PROVE  IdeInv /\ AsDisk!Init
<1>1. /\ pc = "idle" /\ call = NoCall /\ job = NoCall /\ data = Clean
      /\ lba = 0 /\ selected \in Drive
      /\ state = [d \in Drive |-> "ready"] /\ command = [d \in Drive |-> NoCall]
      /\ moved = 0 /\ inside = Clean
      /\ disk = [d \in Drive |-> [i \in 0..Capacity - 1 |-> CHOOSE v \in Value : TRUE]]
  BY DEF KernelInit, InitIde
<1>2. Clean \in [Unit -> Value] /\ (CHOOSE v \in Value : TRUE) \in Value
  BY IdeAssumption DEF Clean, Unit
<1>3. disk \in [Drive -> [0..Capacity - 1 -> Value]] /\ 0 \in 0..SectorSize
  BY <1>1, <1>2, IdeAssumption
<1>4. IdeTypes
  BY <1>1, <1>2, <1>3 DEF IdeTypes
<1>5. CallInRange /\ DriveInStep /\ SectorComes /\ SectorGoes
  BY <1>1 DEF CallInRange, DriveInStep, SectorComes, SectorGoes, Between, AtWork
<1>6. AsDisk!Init
  BY <1>1, <1>3 DEF AsDisk!Init, AsDisk!Buffer
<1> QED
  BY <1>4, <1>5, <1>6 DEF IdeInv

\* Every step of the driver and the drive is one of Disk, or is not seen by it.
LEMMA DriverSteps ==
  ASSUME IdeInv, [KernelNext]_allVars
  PROVE  IdeInv' /\ (AsDisk!Next \/ Unseen)
<1>1. CASE UNCHANGED ideVars
  <2>1. UNCHANGED <<pc, call, job, data, lba, selected, state, command, moved, inside, disk>>
    BY <1>1 DEF ideVars, driver, device
  <2>2. Stored' <=> Stored
    BY <2>1 DEF Stored
  <2>3. Unseen
    BY <2>1, <2>2, NotSeen
  <2>4. Sector' = Sector /\ \A j : OnDrive(j)' = OnDrive(j) /\ ToWrite(j)' = ToWrite(j)
    BY <2>1, SamePart
  <2>5. IdeTypes' /\ CallInRange' /\ DriveInStep'
    BY <2>1, <2>4 DEF IdeInv, IdeTypes, CallInRange, DriveInStep, Between, AtWork
  <2>6. SectorComes' /\ SectorGoes'
    BY <2>1, <2>2, <2>4 DEF IdeInv, SectorComes, SectorGoes, Between, AtWork, Unit
  <2> QED
    BY <2>3, <2>5, <2>6 DEF IdeInv
<1>2. CASE Call
  BY <1>2, DriverCalls DEF AsDisk!Next
<1>3. CASE Driver
  <2>1. CASE Return
    BY <2>1, DriverReturns DEF AsDisk!Next
  <2>2. CASE AfterRead
    BY <2>2, DriverMerges, DriverDelivers DEF AsDisk!Next
  <2>3. CASE Choose \/ AfterWrite \/ Move
    BY <2>3, DriverChooses, DriverCounts, UnitMoves
  <2>4. CASE Registers \/ Select \/ Command
    BY <2>4, DriverTells
  <2>5. CASE \/ waitForDrive("ready", "registers") \/ waitForDrive("settle", "request")
             \/ waitForDrive("finish", "after") \/ Request
    BY <2>5, DriverWaits
  <2> QED
    BY <1>3, <2>1, <2>2, <2>3, <2>4, <2>5 DEF Driver
<1>4. CASE Device
  BY <1>4, DrivePrepares, DriveStores DEF Device, AsDisk!Next
<1>5. UNCHANGED ideVars \/ Call \/ Driver \/ Device
  BY DEF KernelNext, Boots, allVars
<1> QED
  BY <1>1, <1>2, <1>3, <1>4, <1>5

\* What the driver relies on between two steps of the drive, for sectors and drives of
\* any size and any call that is within its drive.
THEOREM DriveAndDriverAgree == KernelSpec => []IdeInv
<1>1. KernelInit => IdeInv
  BY DriverStarts
<1>2. IdeInv /\ [KernelNext]_allVars => IdeInv'
  BY DriverSteps
<1> QED
  BY <1>1, <1>2, PTL DEF KernelSpec

\* readAll and writeAll of the driver, which reads a sector before it writes a part of
\* it and polls a drive that works on its own, move the range they are asked for and
\* nothing else: they implement Disk.
THEOREM DriverDoesWhatDisksDo == KernelSpec => ImplementsDisk
<1>1. KernelInit => AsDisk!Init
  BY DriverStarts
<1>2. IdeInv /\ [KernelNext]_allVars => [AsDisk!Next]_<<disk, Seen>>
  BY DriverSteps DEF Unseen
<1> QED
  BY <1>1, <1>2, DriveAndDriverAgree, PTL DEF KernelSpec, ImplementsDisk, AsDisk!Spec, Seen
=============================================================================
