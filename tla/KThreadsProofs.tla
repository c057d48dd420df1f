--------------------------- MODULE KThreadsProofs ---------------------------
(* Spec => []SafeInv, and what it says of the threads: first the steps that    *)
(* stay on their stack, then those that move a thread between a queue and a    *)
(* hand, then all of them, and what follows.                                   *)
EXTENDS MCThreads, TLAPS

\* The context a core is in is the top frame of the stack it is on.
LEMMA HereFacts ==
  ASSUME TypeOK, NEW c \in Core
  PROVE  /\ sp[c] \in Thread /\ Here(c) \in Ctx
         /\ \/ Here(c) = <<sp[c], 0>> /\ pc[<<sp[c], 1>>] = "none"
            \/ Here(c) = <<sp[c], 1>> /\ pc[<<sp[c], 1>>] # "none"
  BY DEF TypeOK, Here, Top, Ctx

\* A context is a thread and a level, and nothing else.
LEMMA CtxFacts ==
  /\ \A u \in Thread : <<u, 0>> \in Ctx /\ <<u, 1>> \in Ctx /\ <<u, 0>> # <<u, 1>>
  /\ \A k \in Ctx : \E u \in Thread : k = <<u, 0>> \/ k = <<u, 1>>
  /\ \A u, v \in Thread : \A l, m \in {0, 1} : <<u, l>> = <<v, m>> => u = v /\ l = m
  BY DEF Ctx

\* What a step of core c from label a to label b does to the program counters.
Moves(c, a, b) ==
  /\ \A l \in Ctx : l # Here(c) => pc'[l] = pc[l]
  /\ \A u \in Thread : u # sp[c] => /\ pc'[<<u, 0>>] = pc[<<u, 0>>]
                                    /\ pc'[<<u, 1>>] = pc[<<u, 1>>]
  /\ pc[Here(c)] = a /\ pc'[Here(c)] = b
  /\ \/ /\ Here(c) = <<sp[c], 0>>
        /\ pc[<<sp[c], 1>>] = "none" /\ pc'[<<sp[c], 1>>] = "none"
        /\ pc[<<sp[c], 0>>] = a /\ pc'[<<sp[c], 0>>] = b
     \/ /\ Here(c) = <<sp[c], 1>>
        /\ pc[<<sp[c], 1>>] = a /\ pc'[<<sp[c], 1>>] = b
        /\ pc'[<<sp[c], 0>>] = pc[<<sp[c], 0>>]
        /\ a # "none"

\* One Goto moves one program counter, and only on the core's own stack.
LEMMA Moved ==
  ASSUME TypeOK, NEW c \in Core, NEW a, NEW b, At(c, a), Goto(Here(c), b)
  PROVE  Moves(c, a, b)
<1> DEFINE k == Here(c)
<1>1. sp[c] \in Thread /\ k \in Ctx
  BY HereFacts
<1>2. \A l \in Ctx : l # k => pc'[l] = pc[l]
  BY <1>1 DEF TypeOK, Goto
<1>3. pc[k] = a /\ pc'[k] = b
  BY <1>1 DEF TypeOK, Goto, At
<1>4. \A u \in Thread : u # sp[c] => /\ <<u, 0>> # k /\ <<u, 1>> # k
                                     /\ <<u, 0>> \in Ctx /\ <<u, 1>> \in Ctx
  BY HereFacts, CtxFacts
<1>5. CASE k = <<sp[c], 0>> /\ pc[<<sp[c], 1>>] = "none"
  BY <1>1, <1>2, <1>3, <1>4, <1>5, CtxFacts DEF Moves
<1>6. CASE k = <<sp[c], 1>> /\ pc[<<sp[c], 1>>] # "none"
  BY <1>1, <1>2, <1>3, <1>4, <1>6, CtxFacts DEF Moves
<1> QED
  BY <1>5, <1>6, HereFacts

\* What an assignment to f[Here(c)] does to f.
Assigns(c, f, g, v) ==
  /\ \A u \in Thread : u # sp[c] => g[<<u, 0>>] = f[<<u, 0>>] /\ g[<<u, 1>>] = f[<<u, 1>>]
  /\ pc[<<sp[c], 1>>] = "none" => g[<<sp[c], 0>>] = v /\ g[<<sp[c], 1>>] = f[<<sp[c], 1>>]
  /\ pc[<<sp[c], 1>>] # "none" => g[<<sp[c], 1>>] = v /\ g[<<sp[c], 0>>] = f[<<sp[c], 0>>]

\* One assignment to a register changes it for one context.
LEMMA Assigned ==
  ASSUME TypeOK, NEW c \in Core, NEW f, DOMAIN f = Ctx, NEW v, NEW g,
         g = [f EXCEPT ![Here(c)] = v]
  PROVE  Assigns(c, f, g, v)
<1>1. sp[c] \in Thread /\ Here(c) \in Ctx
  BY HereFacts
<1>2. g[Here(c)] = v /\ \A l \in Ctx : l # Here(c) => g[l] = f[l]
  BY <1>1
<1> QED
  BY <1>1, <1>2, HereFacts, CtxFacts DEF Assigns

-----------------------------------------------------------------------------
(* Steps that stay on the stack their core is on *)

Local(c) ==
  /\ sp' = sp
  /\ \A u \in Thread : u # sp[c] =>
       /\ pc'[<<u, 0>>] = pc[<<u, 0>>] /\ pc'[<<u, 1>>] = pc[<<u, 1>>]
       /\ me'[<<u, 0>>] = me[<<u, 0>>] /\ me'[<<u, 1>>] = me[<<u, 1>>]
       /\ nxt'[<<u, 0>>] = nxt[<<u, 0>>] /\ nxt'[<<u, 1>>] = nxt[<<u, 1>>]
       /\ flag'[u] = flag[u] /\ context'[u] = context[u]
  /\ \A d \in Core : d # c => active'[d] = active[d] /\ intr'[d] = intr[d]

\* No context of thread t comes to hold a thread or lets go of one.
KeepsHands(t) ==
  \A l \in {0, 1} :
    /\ pc'[<<t, l>>] \in Holding <=> pc[<<t, l>>] \in Holding
    /\ pc'[<<t, l>>] \in Reaping <=> pc[<<t, l>>] \in Reaping
    /\ pc'[<<t, l>>] = "delete" => ~flag[nxt[<<t, l>>]]

\* No context of thread t chooses a thread.
KeepsChoice(t) ==
  \A l \in {0, 1} : pc'[<<t, l>>] \in Chosen =>
    /\ pc[<<t, l>>] \in Chosen
    /\ nxt'[<<t, l>>] = nxt[<<t, l>>]
    /\ pc'[<<t, l>>] = "claim" <=> pc[<<t, l>>] = "claim"

\* While no stack changes, the same threads run.
LEMMA RunningSame ==
  ASSUME sp' = sp
  PROVE  /\ \A u : Running(u)' <=> Running(u)
         /\ \A c \in Core : Running(sp[c])
  BY DEF Running

\* A local step leaves every other thread as it should be.
LEMMA LocalThreads ==
  ASSUME SafeInv, NEW c \in Core, Local(c), NEW u \in Thread, u # sp[c],
         Held(u)' => Held(u), u \in stopped' => u \in stopped
  PROVE  ThreadInv(u)'
<1>1. ThreadInv(u)
  BY DEF SafeInv
<1>2. Running(u)' <=> Running(u)
  BY RunningSame DEF Local
<1> QED
  BY <1>1, <1>2
     DEF Local, ThreadInv, LevelsAt, StackAt, FlagAt, HeldAt, MeAt, Switching

\* A local step leaves every other core as it should be.
LEMMA LocalCores ==
  ASSUME SafeInv, NEW c \in Core, Local(c), NEW d \in Core, d # c
  PROVE  CoreInv(d)'
<1>1. CoreInv(d) /\ sp[d] # sp[c] /\ sp[d] \in Thread
  BY DEF SafeInv, OneCorePerStack, TypeOK
<1> QED
  BY <1>1 DEF Local, CoreInv

\* What the parts of SafeInv say of the thread in a chooser's or a reaper's hands.
LEMMA HandFacts ==
  ASSUME SafeInv, KThreadsAssumption, NEW k \in Ctx, pc[k] \in Holding
  PROVE  /\ nxt[k] \in Thread /\ Held(nxt[k]) /\ nxt[k] # None
         /\ \A l \in Ctx : l # k => nxt[l] # nxt[k]
         /\ \A q \in Queue : ~InQueue(q, nxt[k])
         /\ pc[<<nxt[k], 0>>] # "free"
<1>1. nxt[k] \in Thread /\ nxt[k] # None
  BY DEF SafeInv, TypeOK, HandsInv
<1>2. Held(nxt[k]) /\ ThreadInv(nxt[k])
  BY <1>1 DEF SafeInv, Held
<1> QED
  BY <1>1, <1>2 DEF SafeInv, HandsInv, ThreadInv, HeldAt

\* A thread on a core that is also in a queue or a hand is inside block().
LEMMA RunningHeld ==
  ASSUME SafeInv, NEW t \in Thread, Running(t), Held(t)
  PROVE  /\ flag[t]
         /\ \/ pc[<<t, 0>>] \in Queued
            \/ pc[<<t, 1>>] \in Queued
<1>1. ThreadInv(t)
  BY DEF SafeInv
<1> QED
  BY <1>1 DEF ThreadInv, HeldAt, FlagAt, Flagged

\* A local step that chooses nobody leaves every choice sound.
LEMMA LocalChosen ==
  ASSUME SafeInv, KThreadsAssumption, NEW c \in Core, Local(c), prev' = prev,
         KeepsChoice(sp[c])
  PROVE  ChosenInv'
<1> SUFFICES ASSUME NEW k \in Ctx, pc'[k] \in Chosen
             PROVE  /\ ~Running(nxt'[k])
                    /\ \A u \in Thread : prev[u] # nxt'[k]
                    /\ flag'[nxt'[k]] <=> pc'[k] # "claim"
  BY RunningSame DEF ChosenInv, Local
<1>1. PICK u \in Thread, l \in {0, 1} : k = <<u, l>>
  BY DEF Ctx
<1>2. sp[c] \in Thread
  BY DEF SafeInv, TypeOK
<1>3. /\ pc[k] \in Chosen /\ nxt'[k] = nxt[k]
      /\ pc'[k] = "claim" <=> pc[k] = "claim"
  BY ZenonT(60), <1>1, <1>2 DEF Local, KeepsChoice
<1>4. nxt[k] \in Thread
  BY <1>3, HandFacts DEF Holding
<1>5. /\ ~Running(nxt[k])
      /\ \A v \in Thread : prev[v] # nxt[k]
      /\ flag[nxt[k]] <=> pc[k] # "claim"
  BY <1>3 DEF SafeInv, ChosenInv
<1>6. nxt[k] # sp[c]
  BY <1>5 DEF Running
<1> QED
  BY <1>3, <1>4, <1>5, <1>6 DEF Local

\* A local step leaves every pending release sound.
LEMMA LocalPrev ==
  ASSUME SafeInv, NEW c \in Core, NEW t \in Thread, t = sp[c],
         Local(c), prev' = prev,
         Switching(t) /\ prev[t] # None => Switching(t)',
         pc'[<<t, 0>>] # "free"
  PROVE  PrevInv'
<1> SUFFICES ASSUME NEW u \in Thread, prev[u] # None
             PROVE  /\ Running(u) /\ Switching(u)'
                    /\ ~Running(prev[u]) /\ flag'[prev[u]]
                    /\ pc'[<<prev[u], 0>>] # "free"
  BY RunningSame DEF PrevInv, Local, SafeInv
<1>1. /\ Running(u) /\ Switching(u)
      /\ ~Running(prev[u]) /\ flag[prev[u]] /\ pc[<<prev[u], 0>>] # "free"
      /\ prev[u] \in Thread
  BY DEF SafeInv, PrevInv, TypeOK
<1>2. prev[u] # sp[c]
  BY <1>1 DEF Running
<1>3. Switching(u)'
  BY <1>1 DEF Switching, Local
<1> QED
  BY <1>1, <1>2, <1>3 DEF Local

\* A local step that moves no thread leaves queues and hands sound.
LEMMA LocalCustody ==
  ASSUME SafeInv, KThreadsAssumption, NEW c \in Core, Local(c),
         nxt' = nxt, queue' = queue, stopped' = stopped,
         KeepsHands(sp[c])
  PROVE  /\ OneCorePerStack' /\ QueuesInv' /\ HandsInv' /\ ZombieInv'
         /\ \A u : Held(u)' <=> Held(u)
<1>1. sp[c] \in Thread
  BY DEF SafeInv, TypeOK
<1>2. ASSUME NEW k \in Ctx
      PROVE  /\ pc'[k] \in Holding <=> pc[k] \in Holding
             /\ pc'[k] \in Reaping <=> pc[k] \in Reaping
             /\ pc'[k] = "delete" => ~flag[nxt[k]] /\ k \in Ctx
  <2>1. PICK u \in Thread, l \in {0, 1} : k = <<u, l>>
    BY DEF Ctx
  <2>2. pc[k] = "delete" => ~flag[nxt[k]]
    BY DEF SafeInv, ZombieInv
  <2> QED
    BY ZenonT(60), <2>1, <2>2, <1>1 DEF Local, KeepsHands
<1>3. ASSUME NEW k \in Ctx, pc'[k] = "delete"
      PROVE  ~flag'[nxt[k]]
  <2>1. ~flag[nxt[k]] /\ pc[k] \in Holding
    BY <1>2, <1>3 DEF Reaping, Holding
  <2>2. nxt[k] \in Thread /\ Held(nxt[k])
    BY <2>1, HandFacts
  <2>3. nxt[k] # sp[c]
    BY <2>1, <2>2, RunningHeld DEF Running
  <2> QED
    BY <2>1, <2>2, <2>3 DEF Local
<1>4. \A q, u : InQueue(q, u)' <=> InQueue(q, u)
  BY DEF InQueue
<1>5. OneCorePerStack' /\ QueuesInv'
  BY DEF SafeInv, OneCorePerStack, QueuesInv, Local
<1>6. HandsInv'
  BY <1>2, <1>4 DEF SafeInv, HandsInv
<1>7. ZombieInv'
  BY <1>2, <1>3, <1>4 DEF SafeInv, ZombieInv
<1> QED
  BY <1>4, <1>5, <1>6, <1>7 DEF Held

\* A step that only moves its own program counter, its own `me`, its core's
\* slots, its own flag or save area.
LEMMA LocalStep ==
  ASSUME SafeInv, KThreadsAssumption, NEW c \in Core, NEW t \in Thread, t = sp[c],
         Local(c),
         nxt' = nxt, queue' = queue, stopped' = stopped, prev' = prev,
         KeepsHands(t), KeepsChoice(t),
         Switching(t) /\ prev[t] # None => Switching(t)',
         TypeOK', ThreadInv(t)', CoreInv(c)'
  PROVE  SafeInv'
<1>1. /\ OneCorePerStack' /\ QueuesInv' /\ HandsInv' /\ ZombieInv'
      /\ \A u : Held(u)' <=> Held(u)
  BY LocalCustody
<1>2. ChosenInv'
  BY LocalChosen
<1>3. pc'[<<t, 0>>] # "free"
  BY RunningSame DEF ThreadInv, StackAt, Local, SafeInv, TypeOK
<1>4. PrevInv'
  BY <1>3, LocalPrev
<1>5. \A u \in Thread : ThreadInv(u)'
  BY <1>1, LocalThreads
<1>6. \A d \in Core : CoreInv(d)'
  BY LocalCores
<1> QED
  BY <1>1, <1>2, <1>4, <1>5, <1>6 DEF SafeInv

\* A move between labels of one kind moves no thread and chooses none.
LEMMA PlainMove ==
  ASSUME SafeInv, KThreadsAssumption, NEW c \in Core, NEW t \in Thread, t = sp[c],
         NEW a, NEW b, Moves(c, a, b), nxt' = nxt,
         b \in Holding <=> a \in Holding,
         b \in Reaping <=> a \in Reaping,
         b = "delete" => ~flag[nxt[Here(c)]],
         b \in Chosen => a \in Chosen /\ (b = "claim" <=> a = "claim")
  PROVE  KeepsHands(t) /\ KeepsChoice(t)
<1> SUFFICES ASSUME NEW l \in {0, 1}
             PROVE  /\ pc'[<<t, l>>] \in Holding <=> pc[<<t, l>>] \in Holding
                    /\ pc'[<<t, l>>] \in Reaping <=> pc[<<t, l>>] \in Reaping
                    /\ pc'[<<t, l>>] = "delete" => ~flag[nxt[<<t, l>>]]
                    /\ pc'[<<t, l>>] \in Chosen =>
                         /\ pc[<<t, l>>] \in Chosen
                         /\ pc'[<<t, l>>] = "claim" <=> pc[<<t, l>>] = "claim"
  BY DEF KeepsHands, KeepsChoice
<1>1. pc[<<t, l>>] = "delete" => ~flag[nxt[<<t, l>>]]
  BY CtxFacts DEF SafeInv, ZombieInv
<1>2. \/ pc'[<<t, l>>] = pc[<<t, l>>]
      \/ <<t, l>> = Here(c) /\ pc[<<t, l>>] = a /\ pc'[<<t, l>>] = b
  BY DEF Moves
<1> QED
  BY <1>1, <1>2

\* The core turns its interrupts on.
LEMMA StiStep ==
  ASSUME SafeInv, KThreadsAssumption, NEW c \in Core, NEW t \in Thread, t = sp[c],
         Sti(c)
  PROVE  SafeInv'
<1>1. TypeOK /\ ThreadInv(t) /\ CoreInv(c)
  BY DEF SafeInv
<1>2. Moves(c, "boot", "arrive")
  BY <1>1, Moved DEF Sti
<1>3. /\ UNCHANGED <<sp, active, me, nxt, prev, flag, context, queue, stopped>>
      /\ intr'[c] = TRUE /\ \A d \in Core : d # c => intr'[d] = intr[d]
  BY <1>1 DEF Sti, cpu, regs, mem, TypeOK
<1>4. Local(c)
  BY <1>1, <1>2, <1>3 DEF Local, Moves, Assigns, TypeOK
<1>5. KeepsHands(t) /\ KeepsChoice(t)
  BY <1>2, <1>3, PlainMove DEF Holding, Reaping, Chosen
<1>6. Running(t) /\ Running(t)' /\ (Held(t)' <=> Held(t))
  BY <1>3, <1>4, <1>5, LocalCustody, RunningSame
<1>7. TypeOK'
  BY <1>1, <1>3, HereFacts DEF TypeOK, Label, Sti, Goto, cpu, regs, mem
<1>8. ThreadInv(t)'
  BY <1>1, <1>2, <1>3, <1>6
     DEF ThreadInv, LevelsAt, StackAt, FlagAt, HeldAt, MeAt, Switching, Moves,
         Suspending, Calm, Queued, Flagged, Away, Window, Assigns
<1>9. CoreInv(c)'
  BY <1>1, <1>2, <1>3
     DEF CoreInv, Moves, Window, Assigns, ThreadInv, LevelsAt, Suspending, Queued
<1>10. Switching(t) /\ prev[t] # None => Switching(t)'
  BY <1>1, <1>2, <1>3
     DEF Switching, Moves, Away, ThreadInv, LevelsAt, Suspending, Queued, Calm
<1> QED
  BY <1>3, <1>4, <1>5, <1>7, <1>8, <1>9, <1>10, LocalStep

\* The core counts itself in.
LEMMA ArriveStep ==
  ASSUME SafeInv, KThreadsAssumption, NEW c \in Core, NEW t \in Thread, t = sp[c],
         Arrive(c)
  PROVE  SafeInv'
<1>1. TypeOK /\ ThreadInv(t) /\ CoreInv(c)
  BY DEF SafeInv
<1>a. PICK b \in {"reap", "stop"} : Goto(Here(c), b)
  BY DEF Arrive
<1>2. Moves(c, "arrive", b)
  BY <1>1, <1>a, Moved DEF Arrive
<1>3. UNCHANGED <<sp, active, intr, me, nxt, prev, flag, context, queue, stopped>>
  BY <1>1 DEF Arrive, cpu, regs, mem
<1>4. Local(c)
  BY <1>1, <1>2, <1>3 DEF Local, Moves, Assigns, TypeOK
<1>5. KeepsHands(t) /\ KeepsChoice(t)
  BY <1>2, <1>3, PlainMove DEF Holding, Reaping, Chosen
<1>6. Running(t) /\ Running(t)' /\ (Held(t)' <=> Held(t))
  BY <1>3, <1>4, <1>5, LocalCustody, RunningSame
<1>7. TypeOK'
  <2>1. pc' \in [Ctx -> Label]
    BY <1>1 DEF TypeOK, Arrive, Goto, Label
  <2>2. here' \in Nat
    BY <1>1 DEF TypeOK, Arrive
  <2> QED
    BY <1>1, <2>1, <2>2 DEF TypeOK, Arrive, cpu, regs, mem
<1>8. ThreadInv(t)'
  BY <1>1, <1>2, <1>3, <1>6
     DEF ThreadInv, LevelsAt, StackAt, FlagAt, HeldAt, MeAt, Switching, Moves,
         Suspending, Calm, Queued, Flagged, Away, Window, Assigns
<1>9. CoreInv(c)'
  BY <1>1, <1>2, <1>3 DEF CoreInv, Moves, Window, Assigns
<1>10. Switching(t) /\ prev[t] # None => Switching(t)'
  BY <1>1, <1>2, <1>3
     DEF Switching, Moves, Away, ThreadInv, LevelsAt, Suspending, Queued, Calm
<1> QED
  BY <1>3, <1>4, <1>5, <1>7, <1>8, <1>9, <1>10, LocalStep

\* yield() reads active().
LEMMA YieldStep ==
  ASSUME SafeInv, KThreadsAssumption, NEW c \in Core, NEW t \in Thread, t = sp[c],
         Yield(c)
  PROVE  SafeInv'
<1>1. TypeOK /\ ThreadInv(t) /\ CoreInv(c)
  BY DEF SafeInv
<1>a. PICK a \in {"yield", "work"} : At(c, a)
  BY DEF Yield, Enter
<1>2. Moves(c, a, "check")
  BY <1>1, <1>a, Moved DEF Yield
<1>3. /\ UNCHANGED <<sp, active, intr, nxt, prev, flag, context, queue, stopped>>
      /\ Assigns(c, me, me', active[c])
  BY <1>1, Assigned DEF Yield, cpu, regs, mem, TypeOK
<1>4. Local(c)
  BY <1>1, <1>2, <1>3 DEF Local, Moves, Assigns, TypeOK
<1>5. KeepsHands(t) /\ KeepsChoice(t)
  BY <1>2, <1>3, PlainMove, <1>a DEF Holding, Reaping, Chosen
<1>6. Running(t) /\ Running(t)' /\ (Held(t)' <=> Held(t))
  BY <1>3, <1>4, <1>5, LocalCustody, RunningSame
<1>7. TypeOK'
  BY <1>1, <1>3, HereFacts DEF TypeOK, Label, Yield, Goto, cpu, regs, mem
<1>8. ThreadInv(t)'
  BY <1>1, <1>2, <1>3, <1>6
     DEF ThreadInv, LevelsAt, StackAt, FlagAt, HeldAt, MeAt, Switching, Moves,
         Suspending, Calm, Queued, Flagged, Away, Window, Assigns, CoreInv
<1>9. CoreInv(c)'
  BY <1>1, <1>2, <1>3 DEF CoreInv, Moves, Window, Assigns
<1>10. Switching(t) /\ prev[t] # None => Switching(t)'
  BY <1>1, <1>2, <1>3, <1>a
     DEF Switching, Moves, Away, ThreadInv, LevelsAt, Suspending, Queued, Calm
<1> QED
  BY <1>3, <1>4, <1>5, <1>7, <1>8, <1>9, <1>10, LocalStep

\* stop() reads active().
LEMMA StopStep ==
  ASSUME SafeInv, KThreadsAssumption, NEW c \in Core, NEW t \in Thread, t = sp[c],
         Stop(c)
  PROVE  SafeInv'
<1>1. TypeOK /\ ThreadInv(t) /\ CoreInv(c)
  BY DEF SafeInv
<1>a. PICK a \in {"stop", "work"} : At(c, a)
  BY DEF Stop, Enter
<1>2. Moves(c, a, "mark")
  BY <1>1, <1>a, Moved DEF Stop
<1>3. /\ UNCHANGED <<sp, active, intr, nxt, prev, flag, context, queue, stopped>>
      /\ Assigns(c, me, me', active[c])
  BY <1>1, Assigned DEF Stop, cpu, regs, mem, TypeOK
<1>4. Local(c)
  BY <1>1, <1>2, <1>3 DEF Local, Moves, Assigns, TypeOK
<1>5. KeepsHands(t) /\ KeepsChoice(t)
  BY <1>2, <1>3, PlainMove, <1>a DEF Holding, Reaping, Chosen
<1>6. Running(t) /\ Running(t)' /\ (Held(t)' <=> Held(t))
  BY <1>3, <1>4, <1>5, LocalCustody, RunningSame
<1>7. TypeOK'
  BY <1>1, <1>3, HereFacts DEF TypeOK, Label, Stop, Goto, cpu, regs, mem
<1>8. ThreadInv(t)'
  BY <1>1, <1>2, <1>3, <1>6
     DEF ThreadInv, LevelsAt, StackAt, FlagAt, HeldAt, MeAt, Switching, Moves,
         Suspending, Calm, Queued, Flagged, Away, Window, Assigns, CoreInv
<1>9. CoreInv(c)'
  BY <1>1, <1>2, <1>3 DEF CoreInv, Moves, Window, Assigns
<1>10. Switching(t) /\ prev[t] # None => Switching(t)'
  BY <1>1, <1>2, <1>3, <1>a
     DEF Switching, Moves, Away, ThreadInv, LevelsAt, Suspending, Queued, Calm
<1> QED
  BY <1>3, <1>4, <1>5, <1>7, <1>8, <1>9, <1>10, LocalStep

\* yield() raises the flag.
LEMMA SetAloneStep ==
  ASSUME SafeInv, KThreadsAssumption, NEW c \in Core, NEW t \in Thread, t = sp[c],
         SetAlone(c)
  PROVE  SafeInv'
<1>1. TypeOK /\ ThreadInv(t) /\ CoreInv(c)
  BY DEF SafeInv
<1>2. Moves(c, "set", "enqueue")
  BY <1>1, Moved DEF SetAlone
<1>3. /\ UNCHANGED <<sp, active, intr, me, nxt, prev, context, queue, stopped>>
      /\ flag'[t] = TRUE /\ \A u \in Thread : u # t => flag'[u] = flag[u]
  BY <1>1, <1>2
     DEF SetAlone, cpu, regs, mem, TypeOK, Moves, MeAt, ThreadInv, LevelsAt
<1>4. Local(c)
  BY <1>1, <1>2, <1>3 DEF Local, Moves, Assigns, TypeOK
<1>5. KeepsHands(t) /\ KeepsChoice(t)
  BY <1>2, <1>3, PlainMove DEF Holding, Reaping, Chosen
<1>6. Running(t) /\ Running(t)' /\ (Held(t)' <=> Held(t))
  BY <1>3, <1>4, <1>5, LocalCustody, RunningSame
<1>7. TypeOK'
  BY ZenonT(60), <1>1, <1>3, HereFacts
     DEF TypeOK, Label, SetAlone, Goto, cpu, regs, mem, Moves, MeAt, ThreadInv,
         LevelsAt
<1>8. ThreadInv(t)'
  BY <1>1, <1>2, <1>3, <1>6
     DEF ThreadInv, LevelsAt, StackAt, FlagAt, HeldAt, MeAt, Switching, Moves,
         Suspending, Calm, Queued, Flagged, Away, Window, Assigns
<1>9. CoreInv(c)'
  BY <1>1, <1>2, <1>3 DEF CoreInv, Moves, Window, Assigns
<1>10. Switching(t) /\ prev[t] # None => Switching(t)'
  BY <1>1, <1>2, <1>3
     DEF Switching, Moves, Away, ThreadInv, LevelsAt, Suspending, Queued, Calm
<1> QED
  BY <1>3, <1>4, <1>5, <1>7, <1>8, <1>9, <1>10, LocalStep

\* stop() raises the flag.
LEMMA MarkStep ==
  ASSUME SafeInv, KThreadsAssumption, NEW c \in Core, NEW t \in Thread, t = sp[c],
         Mark(c)
  PROVE  SafeInv'
<1>1. TypeOK /\ ThreadInv(t) /\ CoreInv(c)
  BY DEF SafeInv
<1>2. Moves(c, "mark", "bury")
  BY <1>1, Moved DEF Mark
<1>3. /\ UNCHANGED <<sp, active, intr, me, nxt, prev, context, queue, stopped>>
      /\ flag'[t] = TRUE /\ \A u \in Thread : u # t => flag'[u] = flag[u]
  BY <1>1, <1>2
     DEF Mark, cpu, regs, mem, TypeOK, Moves, MeAt, ThreadInv, LevelsAt, Suspending,
         Queued
<1>4. Local(c)
  BY <1>1, <1>2, <1>3 DEF Local, Moves, Assigns, TypeOK
<1>5. KeepsHands(t) /\ KeepsChoice(t)
  BY <1>2, <1>3, PlainMove DEF Holding, Reaping, Chosen
<1>6. Running(t) /\ Running(t)' /\ (Held(t)' <=> Held(t))
  BY <1>3, <1>4, <1>5, LocalCustody, RunningSame
<1>7. TypeOK'
  BY ZenonT(60), <1>1, <1>3, HereFacts
     DEF TypeOK, Label, Mark, Goto, cpu, regs, mem, Moves, MeAt, ThreadInv,
         LevelsAt, Suspending, Queued
<1>8. ThreadInv(t)'
  BY <1>1, <1>2, <1>3, <1>6
     DEF ThreadInv, LevelsAt, StackAt, FlagAt, HeldAt, MeAt, Switching, Moves,
         Suspending, Calm, Queued, Flagged, Away, Window, Assigns
<1>9. CoreInv(c)'
  BY <1>1, <1>2, <1>3 DEF CoreInv, Moves, Window, Assigns
<1>10. Switching(t) /\ prev[t] # None => Switching(t)'
  BY <1>1, <1>2, <1>3
     DEF Switching, Moves, Away, ThreadInv, LevelsAt, Suspending, Queued, Calm
<1> QED
  BY <1>3, <1>4, <1>5, <1>7, <1>8, <1>9, <1>10, LocalStep

\* block() writes activeThreads.
LEMMA ActivateStep ==
  ASSUME SafeInv, KThreadsAssumption, NEW c \in Core, NEW t \in Thread, t = sp[c],
         Activate(c)
  PROVE  SafeInv'
<1>1. TypeOK /\ ThreadInv(t) /\ CoreInv(c)
  BY DEF SafeInv
<1>2. Moves(c, "activate", "save")
  BY <1>1, Moved DEF Activate
<1>3. /\ UNCHANGED <<sp, intr, me, nxt, prev, flag, context, queue, stopped>>
      /\ active'[c] = nxt[Here(c)] /\ \A d \in Core : d # c => active'[d] = active[d]
  BY <1>1 DEF Activate, cpu, regs, mem, TypeOK
<1>4. Local(c)
  BY <1>1, <1>2, <1>3 DEF Local, Moves, Assigns, TypeOK
<1>5. KeepsHands(t) /\ KeepsChoice(t)
  BY <1>2, <1>3, PlainMove DEF Holding, Reaping, Chosen
<1>6. Running(t) /\ Running(t)' /\ (Held(t)' <=> Held(t))
  BY <1>3, <1>4, <1>5, LocalCustody, RunningSame
<1>7. TypeOK'
  <2>1. pc' \in [Ctx -> Label]
    BY <1>1 DEF TypeOK, Activate, Goto, Label
  <2>2. active' \in [Core -> Thread]
    BY <1>1, HandFacts, HereFacts DEF TypeOK, Activate, At, Holding, Chosen
  <2> QED
    BY <1>1, <2>1, <2>2 DEF TypeOK, Activate, cpu, regs, mem
<1>8. ThreadInv(t)'
  BY <1>1, <1>2, <1>3, <1>6
     DEF ThreadInv, LevelsAt, StackAt, FlagAt, HeldAt, MeAt, Switching, Moves,
         Suspending, Calm, Queued, Flagged, Away, Window, Assigns
<1>9. CoreInv(c)'
  BY <1>1, <1>2, <1>3
     DEF CoreInv, Moves, Window, Assigns, ThreadInv, LevelsAt, Suspending, Queued,
         Calm
<1>10. Switching(t) /\ prev[t] # None => Switching(t)'
  BY <1>1, <1>2, <1>3
     DEF Switching, Moves, Away, ThreadInv, LevelsAt, Suspending, Queued, Calm
<1> QED
  BY <1>3, <1>4, <1>5, <1>7, <1>8, <1>9, <1>10, LocalStep

\* contextSwitch writes the save area of the thread on the core.
LEMMA SaveStep ==
  ASSUME SafeInv, KThreadsAssumption, NEW c \in Core, NEW t \in Thread, t = sp[c],
         Save(c)
  PROVE  SafeInv'
<1>1. TypeOK /\ ThreadInv(t) /\ CoreInv(c)
  BY DEF SafeInv
<1>2. Moves(c, "save", "load")
  BY <1>1, Moved DEF Save
<1>3. /\ UNCHANGED <<sp, active, intr, me, nxt, prev, flag, queue, stopped>>
      /\ context'[t] = IF intr[c] THEN "on" ELSE "off"
      /\ \A u \in Thread : u # t => context'[u] = context[u]
  BY <1>1, <1>2
     DEF Save, cpu, regs, mem, TypeOK, Moves, MeAt, ThreadInv, LevelsAt, Flagged,
         Queued
<1>4. Local(c)
  BY <1>1, <1>2, <1>3 DEF Local, Moves, Assigns, TypeOK
<1>5. KeepsHands(t) /\ KeepsChoice(t)
  BY <1>2, <1>3, PlainMove DEF Holding, Reaping, Chosen
<1>6. Running(t) /\ Running(t)' /\ (Held(t)' <=> Held(t))
  BY <1>3, <1>4, <1>5, LocalCustody, RunningSame
<1>7. TypeOK'
  <2>1. pc' \in [Ctx -> Label]
    BY <1>1 DEF TypeOK, Save, Goto, Label
  <2>2. context' \in [Thread -> {"on", "off", "stale"}]
    BY <1>1 DEF TypeOK, Save
  <2> QED
    BY <1>1, <2>1, <2>2 DEF TypeOK, Save, cpu, regs, mem
<1>8. ThreadInv(t)'
  BY <1>1, <1>2, <1>3, <1>6
     DEF ThreadInv, LevelsAt, StackAt, FlagAt, HeldAt, MeAt, Switching, Moves,
         Suspending, Calm, Queued, Flagged, Away, Window, Assigns, CoreInv
<1>9. CoreInv(c)'
  BY <1>1, <1>2, <1>3 DEF CoreInv, Moves, Window, Assigns
<1>10. Switching(t) /\ prev[t] # None => Switching(t)'
  BY <1>1, <1>2, <1>3
     DEF Switching, Moves, Away, ThreadInv, LevelsAt, Suspending, Queued, Calm
<1> QED
  BY <1>3, <1>4, <1>5, <1>7, <1>8, <1>9, <1>10, LocalStep

\* A thread is started.
LEMMA EntryStep ==
  ASSUME SafeInv, KThreadsAssumption, NEW c \in Core, NEW t \in Thread, t = sp[c],
         Entry(c)
  PROVE  SafeInv'
<1>1. TypeOK /\ ThreadInv(t) /\ CoreInv(c)
  BY DEF SafeInv
<1>a. PICK b \in {"reap", "work"} : Goto(Here(c), b)
  BY DEF Entry
<1>2. Moves(c, "entry", b)
  BY <1>1, <1>a, Moved DEF Entry
<1>3. UNCHANGED <<sp, active, intr, me, nxt, prev, flag, context, queue, stopped>>
  BY <1>1 DEF Entry, cpu, regs, mem
<1>4. Local(c)
  BY <1>1, <1>2, <1>3 DEF Local, Moves, Assigns, TypeOK
<1>5. KeepsHands(t) /\ KeepsChoice(t)
  BY <1>2, <1>3, PlainMove DEF Holding, Reaping, Chosen
<1>6. Running(t) /\ Running(t)' /\ (Held(t)' <=> Held(t))
  BY <1>3, <1>4, <1>5, LocalCustody, RunningSame
<1>7. TypeOK'
  BY <1>1, <1>3, HereFacts DEF TypeOK, Label, Entry, Goto, cpu, regs, mem
<1>8. ThreadInv(t)'
  BY <1>1, <1>2, <1>3, <1>6
     DEF ThreadInv, LevelsAt, StackAt, FlagAt, HeldAt, MeAt, Switching, Moves,
         Suspending, Calm, Queued, Flagged, Away, Window, Assigns
<1>9. CoreInv(c)'
  BY <1>1, <1>2, <1>3 DEF CoreInv, Moves, Window, Assigns
<1>10. Switching(t) /\ prev[t] # None => Switching(t)'
  BY <1>1, <1>2, <1>3
     DEF Switching, Moves, Away, ThreadInv, LevelsAt, Suspending, Queued, Calm
<1> QED
  BY <1>3, <1>4, <1>5, <1>7, <1>8, <1>9, <1>10, LocalStep

\* What a return from yield() or block() does.
LEMMA Returned ==
  ASSUME TypeOK, NEW c \in Core, NEW a, At(c, a), Return(c)
  PROVE  \E b \in {"none", "reap", "work"} :
           /\ Moves(c, a, b)
           /\ b = "none" <=> pc[<<sp[c], 1>>] # "none"
           /\ Assigns(c, me, me', None)
           /\ intr'[c] <=> intr[c] \/ pc[<<sp[c], 1>>] # "none"
           /\ \A d \in Core : d # c => intr'[d] = intr[d]
           /\ pc' \in [Ctx -> Label]
           /\ me' \in [Ctx -> Thread \cup {None}]
           /\ intr' \in [Core -> BOOLEAN]
<1>1. Here(c) \in Ctx /\ sp[c] \in Thread
  BY HereFacts
<1>2. Here(c)[2] = 1 <=> pc[<<sp[c], 1>>] # "none"
  BY HereFacts
<1>3. PICK b \in {"none", "reap", "work"} : Goto(Here(c), b) /\ (b = "none" <=> Here(c)[2] = 1)
  BY DEF Return
<1>4. Moves(c, a, b)
  BY <1>3, Moved
<1>5. Assigns(c, me, me', None)
  BY Assigned DEF Return, TypeOK
<1>6. /\ pc' \in [Ctx -> Label]
      /\ me' \in [Ctx -> Thread \cup {None}]
  BY <1>3 DEF Return, TypeOK, Goto, Label
<1>7. /\ intr'[c] <=> intr[c] \/ Here(c)[2] = 1
      /\ \A d \in Core : d # c => intr'[d] = intr[d]
      /\ intr' \in [Core -> BOOLEAN]
  BY DEF Return, TypeOK
<1> QED
  BY <1>2, <1>3, <1>4, <1>5, <1>6, <1>7

\* yield() returns at once: the flag is up.
LEMMA CheckAloneReturnStep ==
  ASSUME SafeInv, KThreadsAssumption, NEW c \in Core, NEW t \in Thread, t = sp[c],
         CheckAlone(c), flag[me[Here(c)]]
  PROVE  SafeInv'
<1>1. TypeOK /\ ThreadInv(t) /\ CoreInv(c)
  BY DEF SafeInv
<1>a. PICK b \in {"none", "reap", "work"} :
        /\ Moves(c, "check", b)
        /\ b = "none" <=> pc[<<t, 1>>] # "none"
        /\ Assigns(c, me, me', None)
        /\ intr'[c] <=> intr[c] \/ pc[<<t, 1>>] # "none"
        /\ \A d \in Core : d # c => intr'[d] = intr[d]
        /\ pc' \in [Ctx -> Label]
        /\ me' \in [Ctx -> Thread \cup {None}]
        /\ intr' \in [Core -> BOOLEAN]
  BY <1>1, Returned DEF CheckAlone, At
<1>2. Moves(c, "check", b)
  BY <1>a
<1>3. /\ UNCHANGED <<sp, active, nxt, prev, flag, context, queue, stopped>>
      /\ \A d \in Core : d # c => intr'[d] = intr[d]
  BY <1>1, <1>a DEF CheckAlone, cpu, regs, mem
<1>4. Local(c)
  BY <1>1, <1>2, <1>3, <1>a DEF Local, Moves, Assigns, TypeOK
<1>5. KeepsHands(t) /\ KeepsChoice(t)
  BY <1>2, <1>3, PlainMove, <1>a DEF Holding, Reaping, Chosen
<1>6. Running(t) /\ Running(t)' /\ (Held(t)' <=> Held(t))
  BY <1>3, <1>4, <1>5, LocalCustody, RunningSame
<1>7. TypeOK'
  BY <1>1, <1>a DEF TypeOK, CheckAlone, cpu, regs, mem
<1>8. ThreadInv(t)'
  BY <1>1, <1>2, <1>3, <1>6, <1>a
     DEF ThreadInv, LevelsAt, StackAt, FlagAt, HeldAt, MeAt, Switching, Moves,
         Suspending, Calm, Queued, Flagged, Away, Window, Assigns
<1>9. CoreInv(c)'
  BY <1>1, <1>2, <1>3, <1>a
     DEF CoreInv, Moves, Window, Assigns, ThreadInv, LevelsAt, Suspending, Queued,
         Calm
<1>10. Switching(t) /\ prev[t] # None => Switching(t)'
  BY <1>1, <1>2, <1>3, <1>a
     DEF Switching, Moves, Away, ThreadInv, LevelsAt, Suspending, Queued, Calm
<1> QED
  BY <1>3, <1>4, <1>5, <1>7, <1>8, <1>9, <1>10, LocalStep

\* yield() goes on: the flag is down, so the code below it is calm.
LEMMA CheckAloneSetStep ==
  ASSUME SafeInv, KThreadsAssumption, NEW c \in Core, NEW t \in Thread, t = sp[c],
         CheckAlone(c), ~flag[me[Here(c)]]
  PROVE  SafeInv'
<1>1. TypeOK /\ ThreadInv(t) /\ CoreInv(c)
  BY DEF SafeInv
<1>2. Moves(c, "check", "set")
  BY <1>1, Moved DEF CheckAlone
<1>a. pc[<<t, 0>>] \in Label
  <2>1. pc \in [Ctx -> Label]
    BY <1>1 DEF TypeOK
  <2>2. <<t, 0>> \in Ctx
    BY DEF Ctx
  <2> QED
    BY <2>1, <2>2
<1>b. flag[t] = FALSE
  <2>1. CASE me[Here(c)] = t
    BY <2>1, <1>1 DEF TypeOK
  <2>2. CASE me[Here(c)] # t
    <3>1. pc[<<t, 0>>] \in Window /\ me[Here(c)] = nxt[<<t, 0>>]
      BY <1>1, <1>2, <2>2 DEF ThreadInv, MeAt, Moves
    <3> QED
      BY <3>1, CtxFacts DEF SafeInv, ChosenInv, Chosen, Window
  <2> QED
    BY <2>1, <2>2
<1>3. UNCHANGED <<sp, active, intr, me, nxt, prev, flag, context, queue, stopped>>
  BY <1>1 DEF CheckAlone, cpu, regs, mem
<1>4. Local(c)
  BY <1>1, <1>2, <1>3, <1>a, <1>b DEF Local, Moves, Assigns, TypeOK
<1>5. KeepsHands(t) /\ KeepsChoice(t)
  BY <1>2, <1>3, PlainMove DEF Holding, Reaping, Chosen
<1>6. Running(t) /\ Running(t)' /\ (Held(t)' <=> Held(t))
  BY <1>3, <1>4, <1>5, LocalCustody, RunningSame
<1>7. TypeOK'
  BY <1>1, <1>3, HereFacts DEF TypeOK, Label, CheckAlone, Goto, cpu, regs, mem
<1>8. ThreadInv(t)'
  BY <1>1, <1>2, <1>3, <1>6, <1>a, <1>b
     DEF ThreadInv, LevelsAt, StackAt, FlagAt, HeldAt, MeAt, Switching, Moves,
         Suspending, Calm, Queued, Flagged, Away, Window, Assigns, Label
<1>9. CoreInv(c)'
  BY <1>1, <1>2, <1>3, <1>a, <1>b DEF CoreInv, Moves, Window, Assigns
<1>10. Switching(t) /\ prev[t] # None => Switching(t)'
  BY <1>1, <1>2, <1>3
     DEF Switching, Moves, Away, ThreadInv, LevelsAt, Suspending, Queued, Calm
<1> QED
  BY <1>3, <1>4, <1>5, <1>7, <1>8, <1>9, <1>10, LocalStep

\* The thread switched to clears its flag and returns.
LEMMA ReleaseCurrReturnStep ==
  ASSUME SafeInv, KThreadsAssumption, NEW c \in Core, NEW t \in Thread, t = sp[c],
         ReleaseCurr(c), At(c, "off")
  PROVE  SafeInv'
<1>1. TypeOK /\ ThreadInv(t) /\ CoreInv(c)
  BY DEF SafeInv
<1>a. PICK b \in {"none", "reap", "work"} :
        /\ Moves(c, "off", b)
        /\ b = "none" <=> pc[<<t, 1>>] # "none"
        /\ Assigns(c, me, me', None)
        /\ intr'[c] <=> intr[c] \/ pc[<<t, 1>>] # "none"
        /\ \A d \in Core : d # c => intr'[d] = intr[d]
        /\ pc' \in [Ctx -> Label]
        /\ me' \in [Ctx -> Thread \cup {None}]
        /\ intr' \in [Core -> BOOLEAN]
  BY <1>1, Returned DEF ReleaseCurr, At
<1>2. Moves(c, "off", b)
  BY <1>a
<1>3. /\ UNCHANGED <<sp, active, nxt, prev, context, queue, stopped>>
      /\ \A d \in Core : d # c => intr'[d] = intr[d]
      /\ flag'[t] = FALSE /\ \A u \in Thread : u # t => flag'[u] = flag[u]
      /\ prev[t] = None
  BY <1>1, <1>a DEF ReleaseCurr, cpu, regs, mem, TypeOK
<1>4. Local(c)
  BY <1>1, <1>2, <1>3, <1>a DEF Local, Moves, Assigns, TypeOK
<1>5. KeepsHands(t) /\ KeepsChoice(t)
  BY <1>2, <1>3, PlainMove, <1>a DEF Holding, Reaping, Chosen
<1>6. Running(t) /\ Running(t)' /\ (Held(t)' <=> Held(t))
  BY <1>3, <1>4, <1>5, LocalCustody, RunningSame
<1>7. TypeOK'
  BY <1>1, <1>a DEF TypeOK, ReleaseCurr, cpu, regs, mem
<1>8. ThreadInv(t)'
  BY <1>1, <1>2, <1>3, <1>6, <1>a
     DEF ThreadInv, LevelsAt, StackAt, FlagAt, HeldAt, MeAt, Switching, Moves,
         Suspending, Calm, Queued, Flagged, Away, Window, Assigns
<1>9. CoreInv(c)'
  BY <1>1, <1>2, <1>3, <1>a
     DEF CoreInv, Moves, Window, Assigns, ThreadInv, LevelsAt, Suspending, Queued,
         Calm
<1>10. Switching(t) /\ prev[t] # None => Switching(t)'
  BY <1>1, <1>2, <1>3, <1>a
     DEF Switching, Moves, Away, ThreadInv, LevelsAt, Suspending, Queued, Calm
<1> QED
  BY <1>3, <1>4, <1>5, <1>7, <1>8, <1>9, <1>10, LocalStep

\* A thread switched to for the first time clears its flag.
LEMMA ReleaseCurrEntryStep ==
  ASSUME SafeInv, KThreadsAssumption, NEW c \in Core, NEW t \in Thread, t = sp[c],
         ReleaseCurr(c), At(c, "born")
  PROVE  SafeInv'
<1>1. TypeOK /\ ThreadInv(t) /\ CoreInv(c)
  BY DEF SafeInv
<1>2. Moves(c, "born", "entry")
  BY <1>1, Moved DEF ReleaseCurr
<1>3. /\ UNCHANGED <<sp, active, intr, me, nxt, prev, context, queue, stopped>>
      /\ flag'[t] = FALSE /\ \A u \in Thread : u # t => flag'[u] = flag[u]
      /\ prev[t] = None
  BY <1>1 DEF ReleaseCurr, cpu, regs, mem, TypeOK
<1>4. Local(c)
  BY <1>1, <1>2, <1>3 DEF Local, Moves, Assigns, TypeOK
<1>5. KeepsHands(t) /\ KeepsChoice(t)
  BY <1>2, <1>3, PlainMove DEF Holding, Reaping, Chosen
<1>6. Running(t) /\ Running(t)' /\ (Held(t)' <=> Held(t))
  BY <1>3, <1>4, <1>5, LocalCustody, RunningSame
<1>7. TypeOK'
  <2>1. pc' \in [Ctx -> Label]
    BY <1>1 DEF TypeOK, ReleaseCurr, Goto, Label
  <2>2. flag' \in [Thread -> BOOLEAN]
    BY <1>1 DEF TypeOK, ReleaseCurr
  <2> QED
    BY <1>1, <2>1, <2>2 DEF TypeOK, ReleaseCurr, cpu, regs, mem
<1>8. ThreadInv(t)'
  BY <1>1, <1>2, <1>3, <1>6
     DEF ThreadInv, LevelsAt, StackAt, FlagAt, HeldAt, MeAt, Switching, Moves,
         Suspending, Calm, Queued, Flagged, Away, Window, Assigns
<1>9. CoreInv(c)'
  BY <1>1, <1>2, <1>3
     DEF CoreInv, Moves, Window, Assigns, ThreadInv, LevelsAt, Suspending, Queued,
         Calm
<1>10. Switching(t) /\ prev[t] # None => Switching(t)'
  BY <1>1, <1>2, <1>3
     DEF Switching, Moves, Away, ThreadInv, LevelsAt, Suspending, Queued, Calm
<1> QED
  BY <1>3, <1>4, <1>5, <1>7, <1>8, <1>9, <1>10, LocalStep

\* block() finds the flag of the next thread up.
LEMMA TestNextRequeueStep ==
  ASSUME SafeInv, KThreadsAssumption, NEW c \in Core, NEW t \in Thread, t = sp[c],
         TestNext(c), flag[nxt[Here(c)]]
  PROVE  SafeInv'
<1>1. TypeOK /\ ThreadInv(t) /\ CoreInv(c)
  BY DEF SafeInv
<1>2. Moves(c, "test", "requeue")
  BY <1>1, Moved DEF TestNext
<1>3. UNCHANGED <<sp, active, intr, me, nxt, prev, flag, context, queue, stopped>>
  BY <1>1 DEF TestNext, cpu, regs, mem
<1>4. Local(c)
  BY <1>1, <1>2, <1>3 DEF Local, Moves, Assigns, TypeOK
<1>5. KeepsHands(t) /\ KeepsChoice(t)
  BY <1>2, <1>3, PlainMove DEF Holding, Reaping, Chosen
<1>6. Running(t) /\ Running(t)' /\ (Held(t)' <=> Held(t))
  BY <1>3, <1>4, <1>5, LocalCustody, RunningSame
<1>7. TypeOK'
  BY <1>1, <1>3, HereFacts DEF TypeOK, Label, TestNext, Goto, cpu, regs, mem
<1>8. ThreadInv(t)'
  BY <1>1, <1>2, <1>3, <1>6
     DEF ThreadInv, LevelsAt, StackAt, FlagAt, HeldAt, MeAt, Switching, Moves,
         Suspending, Calm, Queued, Flagged, Away, Window, Assigns
<1>9. CoreInv(c)'
  BY <1>1, <1>2, <1>3 DEF CoreInv, Moves, Window, Assigns
<1>10. Switching(t) /\ prev[t] # None => Switching(t)'
  BY <1>1, <1>2, <1>3
     DEF Switching, Moves, Away, ThreadInv, LevelsAt, Suspending, Queued, Calm
<1> QED
  BY <1>3, <1>4, <1>5, <1>7, <1>8, <1>9, <1>10, LocalStep

\* reaper() finds zombieQ empty.
LEMMA ReapNoneStep ==
  ASSUME SafeInv, KThreadsAssumption, NEW c \in Core, NEW t \in Thread, t = sp[c],
         Reap(c), queue["zombie"] = <<>>
  PROVE  SafeInv'
<1>1. TypeOK /\ ThreadInv(t) /\ CoreInv(c)
  BY DEF SafeInv
<1>a. PICK a \in {"reap", "work"} : At(c, a)
  BY DEF Reap, Enter
<1>b. PICK b \in {"yield", "spawn"} : Goto(Here(c), b) /\ Reaped(Here(c)) /\ queue' = queue
  BY DEF Reap, Reaped
<1>2. Moves(c, a, b)
  BY <1>1, <1>a, <1>b, Moved
<1>c. nxt[Here(c)] = None
  BY <1>1, <1>a, HereFacts DEF SafeInv, HandsInv, Holding, Reaping, Chosen, At
<1>d. nxt' = nxt
  BY <1>b, <1>c, <1>1 DEF Reaped, TypeOK
<1>3. UNCHANGED <<sp, active, intr, me, nxt, prev, flag, context, queue, stopped>>
  BY <1>1, <1>b, <1>d DEF Reap, cpu, regs, mem
<1>4. Local(c)
  BY <1>1, <1>2, <1>3 DEF Local, Moves, Assigns, TypeOK
<1>5. KeepsHands(t) /\ KeepsChoice(t)
  BY <1>2, <1>3, PlainMove, <1>a, <1>b DEF Holding, Reaping, Chosen
<1>6. Running(t) /\ Running(t)' /\ (Held(t)' <=> Held(t))
  BY <1>3, <1>4, <1>5, LocalCustody, RunningSame
<1>7. TypeOK'
  <2>1. pc' \in [Ctx -> Label]
    BY <1>1, <1>b DEF TypeOK, Goto, Label
  <2>2. first' \in [Thread -> Thread \cup {None}]
    BY <1>1, <1>b DEF TypeOK, Reaped
  <2> QED
    BY <1>1, <1>3, <2>1, <2>2 DEF TypeOK, Reap, cpu, regs, mem
<1>8. ThreadInv(t)'
  BY <1>1, <1>2, <1>3, <1>6
     DEF ThreadInv, LevelsAt, StackAt, FlagAt, HeldAt, MeAt, Switching, Moves,
         Suspending, Calm, Queued, Flagged, Away, Window, Assigns
<1>9. CoreInv(c)'
  BY <1>1, <1>2, <1>3 DEF CoreInv, Moves, Window, Assigns
<1>10. Switching(t) /\ prev[t] # None => Switching(t)'
  BY <1>1, <1>2, <1>3, <1>a, <1>b
     DEF Switching, Moves, Away, ThreadInv, LevelsAt, Suspending, Queued, Calm
<1> QED
  BY <1>3, <1>4, <1>5, <1>7, <1>8, <1>9, <1>10, LocalStep

\* reaper() decides to put a zombie back or to delete it.
LEMMA InspectOneStep ==
  ASSUME SafeInv, KThreadsAssumption, NEW c \in Core, NEW t \in Thread, t = sp[c],
         Inspect(c), flag[nxt[Here(c)]] => nxt[Here(c)] # first[Here(c)[1]]
  PROVE  SafeInv'
<1>1. TypeOK /\ ThreadInv(t) /\ CoreInv(c)
  BY DEF SafeInv
<1>b. PICK b \in {"rebury", "delete"} :
        /\ Goto(Here(c), b) /\ nxt' = nxt
        /\ b = "delete" => ~flag[nxt[Here(c)]]
  BY DEF Inspect
<1>2. Moves(c, "inspect", b)
  BY <1>1, <1>b, Moved DEF Inspect
<1>c. nxt[Here(c)] \in Thread \cup {None} /\ first[Here(c)[1]] \in Thread \cup {None}
  <2>a. sp[c] \in Thread /\ Here(c) \in Ctx
        /\ (Here(c) = <<sp[c], 0>> \/ Here(c) = <<sp[c], 1>>)
    BY <1>1, HereFacts
  <2>1. Here(c) \in Ctx /\ Here(c)[1] \in Thread
    BY <2>a
  <2>2. nxt \in [Ctx -> Thread \cup {None}] /\ first \in [Thread -> Thread \cup {None}]
    BY <1>1 DEF TypeOK
  <2> QED
    BY <2>1, <2>2
<1>3. UNCHANGED <<sp, active, intr, me, nxt, prev, flag, context, queue, stopped>>
  BY <1>1, <1>b DEF Inspect, cpu, regs, mem
<1>4. Local(c)
  BY <1>1, <1>2, <1>3 DEF Local, Moves, Assigns, TypeOK
<1>5. KeepsHands(t) /\ KeepsChoice(t)
  BY <1>2, <1>3, PlainMove, <1>b DEF Holding, Reaping, Chosen
<1>6. Running(t) /\ Running(t)' /\ (Held(t)' <=> Held(t))
  BY <1>3, <1>4, <1>5, LocalCustody, RunningSame
<1>7. TypeOK'
  <2>1. pc' \in [Ctx -> Label]
    BY <1>1 DEF TypeOK, Inspect, Goto, Label
  <2>2. first' \in [Thread -> Thread \cup {None}]
    <3>1. \/ first' = first
          \/ \E v \in Thread \cup {None} : first' = [first EXCEPT ![Here(c)[1]] = v]
      BY <1>c DEF Inspect, Reaped
    <3>2. first \in [Thread -> Thread \cup {None}]
      BY <1>1 DEF TypeOK
    <3> QED
      BY <3>1, <3>2
  <2> QED
    BY <1>1, <2>1, <2>2 DEF TypeOK, Inspect, cpu, regs, mem
<1>8. ThreadInv(t)'
  BY <1>1, <1>2, <1>3, <1>6
     DEF ThreadInv, LevelsAt, StackAt, FlagAt, HeldAt, MeAt, Switching, Moves,
         Suspending, Calm, Queued, Flagged, Away, Window, Assigns
<1>9. CoreInv(c)'
  BY <1>1, <1>2, <1>3 DEF CoreInv, Moves, Window, Assigns
<1>10. Switching(t) /\ prev[t] # None => Switching(t)'
  BY <1>1, <1>2, <1>3, <1>b
     DEF Switching, Moves, Away, ThreadInv, LevelsAt, Suspending, Queued, Calm
<1> QED
  BY <1>3, <1>4, <1>5, <1>7, <1>8, <1>9, <1>10, LocalStep

\* The timer interrupts a core whose interrupts are on.
LEMMA InterruptStep ==
  ASSUME SafeInv, KThreadsAssumption, NEW c \in Core, NEW t \in Thread, t = sp[c],
         Interrupt(c)
  PROVE  SafeInv'
<1>1. TypeOK /\ ThreadInv(t) /\ CoreInv(c)
  BY DEF SafeInv
<1>2. /\ pc[<<t, 1>>] = "none" /\ pc[<<t, 0>>] # "boot"
      /\ pc' = [pc EXCEPT ![<<t, 1>>] = "yield"]
      /\ intr' = [intr EXCEPT ![c] = FALSE]
  BY <1>1 DEF Interrupt, CoreInv, Goto
<1>a. /\ pc'[<<t, 1>>] = "yield" /\ pc'[<<t, 0>>] = pc[<<t, 0>>]
      /\ \A u \in Thread : u # t =>
           pc'[<<u, 0>>] = pc[<<u, 0>>] /\ pc'[<<u, 1>>] = pc[<<u, 1>>]
  BY <1>1, <1>2, CtxFacts DEF TypeOK
<1>3. /\ UNCHANGED <<sp, active, me, nxt, prev, flag, context, queue, stopped>>
      /\ intr'[c] = FALSE /\ \A d \in Core : d # c => intr'[d] = intr[d]
  BY <1>1, <1>2 DEF Interrupt, mem, TypeOK
<1>4. Local(c)
  BY <1>a, <1>3 DEF Local
<1>5. KeepsHands(t) /\ KeepsChoice(t)
  <2> SUFFICES ASSUME NEW l \in {0, 1}, pc'[<<t, l>>] = "delete"
               PROVE  ~flag[nxt[<<t, l>>]]
    BY <1>2, <1>a, <1>3 DEF KeepsHands, KeepsChoice, Holding, Reaping, Chosen
  <2> QED
    BY <1>a, CtxFacts DEF SafeInv, ZombieInv
<1>6. Running(t) /\ Running(t)' /\ (Held(t)' <=> Held(t))
  BY <1>3, <1>4, <1>5, LocalCustody, RunningSame
<1>7. TypeOK'
  BY ZenonT(60), <1>1, <1>2, <1>3 DEF TypeOK, Interrupt, mem, Label
<1>8. ThreadInv(t)'
  BY <1>1, <1>2, <1>a, <1>3, <1>6
     DEF ThreadInv, LevelsAt, StackAt, FlagAt, HeldAt, MeAt, Switching, Suspending,
         Calm, Queued, Flagged, Away, Window
<1>9. CoreInv(c)'
  BY <1>1, <1>2, <1>a, <1>3 DEF CoreInv, Window
<1>10. Switching(t) /\ prev[t] # None => Switching(t)'
  BY <1>2, <1>a DEF Switching, Away
<1> QED
  BY <1>3, <1>4, <1>5, <1>7, <1>8, <1>9, <1>10, LocalStep

-----------------------------------------------------------------------------
(* Moving a thread between queues and hands *)

\* Appending a thread that is in no queue puts it into one.
LEMMA QueuePut ==
  ASSUME TypeOK, QueuesInv, NEW q \in Queue, NEW x \in Thread, Add(q, x),
         \A r \in Queue : ~InQueue(r, x)
  PROVE  /\ QueuesInv'
         /\ queue' \in [Queue -> Seq(Thread)]
         /\ \A r \in Queue, u \in Thread :
              InQueue(r, u)' <=> InQueue(r, u) \/ (r = q /\ u = x)
<1>1. /\ queue \in [Queue -> Seq(Thread)]
      /\ queue' = [queue EXCEPT ![q] = Append(queue[q], x)]
  BY DEF TypeOK, Add
<1>2. /\ queue'[q] = Append(queue[q], x)
      /\ queue[q] \in Seq(Thread)
      /\ \A r \in Queue : r # q => queue'[r] = queue[r]
      /\ queue' \in [Queue -> Seq(Thread)]
  BY <1>1
<1>3. /\ Len(queue'[q]) = Len(queue[q]) + 1 /\ Len(queue[q]) \in Nat
      /\ queue'[q][Len(queue[q]) + 1] = x
      /\ \A i \in 1..Len(queue[q]) : queue'[q][i] = queue[q][i]
  BY <1>2
<1>4. \A r \in Queue : \A i \in 1..Len(queue'[r]) :
        \/ i \in 1..Len(queue[r]) /\ queue'[r][i] = queue[r][i]
        \/ r = q /\ i = Len(queue[q]) + 1 /\ queue'[r][i] = x
  <2> TAKE r \in Queue
  <2> TAKE i \in 1..Len(queue'[r])
  <2>1. CASE r # q
    BY <2>1, <1>2
  <2>2. CASE r = q
    <3>1. i \in 1..Len(queue[q]) \/ i = Len(queue[q]) + 1
      BY <2>2, <1>3
    <3> QED
      BY <3>1, <2>2, <1>3
  <2> QED
    BY <2>1, <2>2
<1>5. \A r \in Queue : \A i \in 1..Len(queue[r]) :
        i \in 1..Len(queue'[r]) /\ queue'[r][i] = queue[r][i] /\ queue[r][i] # x
  <2> TAKE r \in Queue
  <2> TAKE i \in 1..Len(queue[r])
  <2>1. queue[r][i] # x
    BY DEF InQueue
  <2>2. CASE r # q
    BY <2>1, <2>2, <1>2
  <2>3. CASE r = q
    BY <2>1, <2>3, <1>3
  <2> QED
    BY <2>2, <2>3
<1>6. QueuesInv'
  <2> SUFFICES ASSUME NEW r \in Queue, NEW s \in Queue,
                      NEW i \in 1..Len(queue'[r]), NEW j \in 1..Len(queue'[s]),
                      queue'[r][i] = queue'[s][j]
               PROVE  r = s /\ i = j
    BY DEF QueuesInv
  <2>1. CASE i \in 1..Len(queue[r]) /\ j \in 1..Len(queue[s])
    BY <2>1, <1>5 DEF QueuesInv
  <2>2. CASE ~(i \in 1..Len(queue[r]) /\ j \in 1..Len(queue[s]))
    BY <2>2, <1>4, <1>5
  <2> QED
    BY <2>1, <2>2
<1>7. ASSUME NEW r \in Queue, NEW u \in Thread
      PROVE  InQueue(r, u)' <=> InQueue(r, u) \/ (r = q /\ u = x)
  <2>1. ASSUME InQueue(r, u)'
        PROVE  InQueue(r, u) \/ (r = q /\ u = x)
    BY <2>1, <1>4 DEF InQueue
  <2>2. ASSUME InQueue(r, u)
        PROVE  InQueue(r, u)'
    BY <2>2, <1>5 DEF InQueue
  <2>3. Len(queue[q]) + 1 \in 1..Len(queue'[q])
    BY <1>3
  <2>4. InQueue(q, x)'
    BY <2>3, <1>3 DEF InQueue
  <2> QED
    BY <2>1, <2>2, <2>4
<1> QED
  BY <1>2, <1>6, <1>7

\* Removing the head of a queue takes that thread out of every queue.
LEMMA QueueTake ==
  ASSUME TypeOK, QueuesInv, NEW q \in Queue, queue[q] # <<>>, Remove(q)
  PROVE  /\ QueuesInv'
         /\ queue' \in [Queue -> Seq(Thread)]
         /\ Head(queue[q]) \in Thread /\ InQueue(q, Head(queue[q]))
         /\ \A r \in Queue, u \in Thread :
              InQueue(r, u)' <=> InQueue(r, u) /\ u # Head(queue[q])
<1>1. /\ queue \in [Queue -> Seq(Thread)]
      /\ queue' = [queue EXCEPT ![q] = Tail(queue[q])]
  BY DEF TypeOK, Remove
<1>2. /\ queue'[q] = Tail(queue[q])
      /\ queue[q] \in Seq(Thread)
      /\ \A r \in Queue : r # q => queue'[r] = queue[r]
      /\ queue' \in [Queue -> Seq(Thread)]
  BY <1>1
<1>3. /\ Len(queue'[q]) = Len(queue[q]) - 1 /\ Len(queue[q]) \in Nat \ {0}
      /\ \A i \in 1..Len(queue[q]) - 1 : queue'[q][i] = queue[q][i + 1]
      /\ Head(queue[q]) = queue[q][1] /\ 1 \in 1..Len(queue[q])
      /\ Head(queue[q]) \in Thread
  BY <1>2
<1>4. \A r \in Queue : \A i \in 1..Len(queue'[r]) :
        \/ r # q /\ i \in 1..Len(queue[r]) /\ queue'[r][i] = queue[r][i]
        \/ r = q /\ i + 1 \in 1..Len(queue[r]) /\ queue'[r][i] = queue[r][i + 1]
             /\ i \in Nat /\ i # 0
  <2> TAKE r \in Queue
  <2> TAKE i \in 1..Len(queue'[r])
  <2>1. CASE r # q
    BY <2>1, <1>2
  <2>2. CASE r = q
    <3>1. i \in 1..Len(queue[q]) - 1 /\ i + 1 \in 1..Len(queue[q])
      BY <2>2, <1>3
    <3> QED
      BY <3>1, <2>2, <1>3
  <2> QED
    BY <2>1, <2>2
<1>5. QueuesInv'
  <2> SUFFICES ASSUME NEW r \in Queue, NEW s \in Queue,
                      NEW i \in 1..Len(queue'[r]), NEW j \in 1..Len(queue'[s]),
                      queue'[r][i] = queue'[s][j]
               PROVE  r = s /\ i = j
    BY DEF QueuesInv
  <2>1. CASE r # q /\ s # q
    BY <2>1, <1>4 DEF QueuesInv
  <2>2. CASE r = q /\ s # q
    BY <2>2, <1>4 DEF QueuesInv
  <2>3. CASE r # q /\ s = q
    BY <2>3, <1>4 DEF QueuesInv
  <2>4. CASE r = q /\ s = q
    <3>1. i + 1 = j + 1
      BY <2>4, <1>4 DEF QueuesInv
    <3> QED
      BY <2>4, <1>4, <3>1
  <2> QED
    BY <2>1, <2>2, <2>3, <2>4
<1>6. InQueue(q, Head(queue[q]))
  BY <1>3 DEF InQueue
<1>7. ASSUME NEW r \in Queue, NEW u \in Thread
      PROVE  InQueue(r, u)' <=> InQueue(r, u) /\ u # Head(queue[q])
  <2>1. ASSUME InQueue(r, u)'
        PROVE  InQueue(r, u) /\ u # Head(queue[q])
    <3>1. PICK i \in 1..Len(queue'[r]) : queue'[r][i] = u
      BY <2>1 DEF InQueue
    <3>2. CASE r # q
      BY <3>1, <3>2, <1>3, <1>4 DEF InQueue, QueuesInv
    <3>3. CASE r = q
      <4>1. i + 1 \in 1..Len(queue[q]) /\ queue[q][i + 1] = u /\ i + 1 # 1
        BY <3>1, <3>3, <1>4
      <4>2. u # queue[q][1]
        BY <4>1, <1>3 DEF QueuesInv
      <4> QED
        BY <4>1, <4>2, <1>3, <3>3 DEF InQueue
    <3> QED
      BY <3>2, <3>3
  <2>2. ASSUME InQueue(r, u), u # Head(queue[q])
        PROVE  InQueue(r, u)'
    <3>1. PICK i \in 1..Len(queue[r]) : queue[r][i] = u
      BY <2>2 DEF InQueue
    <3>2. CASE r # q
      BY <3>1, <3>2, <1>2 DEF InQueue
    <3>3. CASE r = q
      <4>1. i # 1
        BY <3>1, <3>3, <2>2, <1>3
      <4>2. i - 1 \in 1..Len(queue'[q]) /\ queue'[q][i - 1] = u
        BY <4>1, <3>1, <3>3, <1>3
      <4> QED
        BY <4>2, <3>3 DEF InQueue
    <3> QED
      BY <3>2, <3>3
  <2> QED
    BY <2>1, <2>2
<1> QED
  BY <1>2, <1>3, <1>5, <1>6, <1>7

\* What a step that gives context k label b and v to hold does to all contexts.
Hands(k, b, v) ==
  /\ k \in Ctx /\ pc'[k] = b /\ nxt'[k] = v
  /\ \A l \in Ctx : l # k => pc'[l] = pc[l] /\ nxt'[l] = nxt[l]

\* A thread goes from a hand into a queue.
LEMMA PutHand ==
  ASSUME SafeInv, KThreadsAssumption, NEW k, NEW b, Hands(k, b, None),
         pc[k] \in Holding, b \notin Holding,
         NEW q \in Queue, Add(q, nxt[k]),
         pc[k] \in Reaping <=> q = "zombie",
         stopped' = stopped,
         \A u \in Thread : flag'[u] => flag[u]
  PROVE  /\ QueuesInv' /\ HandsInv' /\ ZombieInv'
         /\ queue' \in [Queue -> Seq(Thread)]
         /\ \A u \in Thread : Held(u)' <=> Held(u)
<1>1. k \in Ctx /\ TypeOK /\ QueuesInv /\ HandsInv /\ ZombieInv
  BY DEF SafeInv, Hands
<1>2. /\ nxt[k] \in Thread /\ \A r \in Queue : ~InQueue(r, nxt[k])
      /\ \A l \in Ctx : l # k => nxt[l] # nxt[k]
  BY <1>1, HandFacts
<1>3. /\ QueuesInv'
      /\ queue' \in [Queue -> Seq(Thread)]
      /\ \A r \in Queue, u \in Thread :
           InQueue(r, u)' <=> InQueue(r, u) \/ (r = q /\ u = nxt[k])
  BY <1>1, <1>2, QueuePut
<1>4. \A l \in Ctx : nxt[l] \in Thread \cup {None}
  BY <1>1 DEF TypeOK
<1>5. None \notin Thread /\ stopped \subseteq Thread
  BY <1>1 DEF KThreadsAssumption, Thread, TypeOK
<1>6. HandsInv'
  <2>1. \A l \in Ctx : nxt'[l] # None <=> pc'[l] \in Holding
    BY <1>1 DEF HandsInv, Hands
  <2>2. ASSUME NEW l \in Ctx, NEW r \in Queue, nxt'[l] # None
        PROVE  ~InQueue(r, nxt[l])'
    <3>1. nxt'[l] = nxt[l] /\ nxt[l] \in Thread /\ nxt[l] # nxt[k]
      BY <1>2, <1>4, <2>2 DEF Hands
    <3>2. ~InQueue(r, nxt[l])
      BY <1>1, <2>2, <3>1 DEF HandsInv
    <3> QED
      BY <1>3, <3>1, <3>2
  <2>3. \A l, m \in Ctx : nxt'[l] # None /\ nxt'[l] = nxt'[m] => l = m
    BY <1>1 DEF HandsInv, Hands
  <2> QED
    BY <2>1, <2>2, <2>3 DEF HandsInv
<1>7. nxt[k] \in stopped <=> q = "zombie"
  BY <1>1 DEF ZombieInv
<1>8. "zombie" \in Queue
  BY DEF Queue
<1>9. \A t \in stopped' : \A r \in Queue : InQueue(r, t)' => r = "zombie"
  BY <1>1, <1>3, <1>5, <1>7 DEF ZombieInv
<1>10. \A t \in Thread : InQueue("zombie", t)' => t \in stopped'
  BY <1>1, <1>3, <1>7, <1>8 DEF ZombieInv
<1>11. \A l \in Ctx : nxt'[l] \in stopped' <=> pc'[l] \in Reaping
  BY <1>1, <1>5 DEF ZombieInv, Hands, Holding
<1>12. ASSUME NEW l \in Ctx, pc'[l] = "delete"
       PROVE  ~flag'[nxt'[l]]
  <2>1. l # k /\ pc[l] = "delete" /\ nxt'[l] = nxt[l]
    BY <1>12 DEF Hands, Holding, Reaping
  <2>2. nxt[l] \in Thread
    BY <2>1, HandFacts DEF Holding, Reaping
  <2> QED
    BY <1>1, <2>1, <2>2 DEF ZombieInv
<1>13. ZombieInv'
  BY <1>9, <1>10, <1>11, <1>12 DEF ZombieInv
<1>14. ASSUME NEW u \in Thread
       PROVE  Held(u)' <=> Held(u)
  <2>1. (\E l \in Ctx : nxt'[l] = u) <=> u # nxt[k] /\ \E l \in Ctx : nxt[l] = u
    BY <1>1, <1>2, <1>5 DEF Hands
  <2>2. (\E r \in Queue : InQueue(r, u)') <=> u = nxt[k] \/ \E r \in Queue : InQueue(r, u)
    BY <1>3
  <2> QED
    BY <1>1, <2>1, <2>2 DEF Held
<1> QED
  BY <1>3, <1>6, <1>13, <1>14

\* The thread on the core goes into a queue.
LEMMA PutSelf ==
  ASSUME SafeInv, KThreadsAssumption, NEW k, NEW b, Hands(k, b, None),
         pc[k] \notin Holding, b \notin Holding,
         NEW t \in Thread, Running(t), ~Held(t), t \notin stopped,
         NEW q \in Queue, Add(q, t),
         stopped' = IF q = "zombie" THEN stopped \cup {t} ELSE stopped,
         \A u \in Thread : u # t /\ flag'[u] => flag[u]
  PROVE  /\ QueuesInv' /\ HandsInv' /\ ZombieInv'
         /\ queue' \in [Queue -> Seq(Thread)]
         /\ \A u \in Thread : Held(u)' <=> Held(u) \/ u = t
<1>1. k \in Ctx /\ TypeOK /\ QueuesInv /\ HandsInv /\ ZombieInv
  BY DEF SafeInv, Hands
<1>2. /\ \A r \in Queue : ~InQueue(r, t)
      /\ \A l \in Ctx : nxt[l] # t
  BY DEF Held
<1>3. /\ QueuesInv'
      /\ queue' \in [Queue -> Seq(Thread)]
      /\ \A r \in Queue, u \in Thread :
           InQueue(r, u)' <=> InQueue(r, u) \/ (r = q /\ u = t)
  BY <1>1, <1>2, QueuePut
<1>4. \A l \in Ctx : nxt'[l] = nxt[l] /\ nxt[l] \in Thread \cup {None}
  BY <1>1 DEF TypeOK, Hands, HandsInv
<1>5. None \notin Thread /\ stopped \subseteq Thread
  BY <1>1 DEF KThreadsAssumption, Thread, TypeOK
<1>6. HandsInv'
  <2>1. \A l \in Ctx : nxt'[l] # None <=> pc'[l] \in Holding
    BY <1>1, <1>4 DEF HandsInv, Hands
  <2>2. ASSUME NEW l \in Ctx, NEW r \in Queue, nxt'[l] # None
        PROVE  ~InQueue(r, nxt[l])'
    <3>1. nxt'[l] = nxt[l] /\ nxt[l] \in Thread /\ nxt[l] # t
      BY <1>2, <1>4, <2>2
    <3>2. ~InQueue(r, nxt[l])
      BY <1>1, <2>2, <3>1 DEF HandsInv
    <3> QED
      BY <1>3, <3>1, <3>2
  <2>3. \A l, m \in Ctx : nxt'[l] # None /\ nxt'[l] = nxt'[m] => l = m
    BY <1>1, <1>4 DEF HandsInv
  <2> QED
    BY <2>1, <2>2, <2>3 DEF HandsInv
<1>8. "zombie" \in Queue
  BY DEF Queue
<1>9. \A u \in stopped' : \A r \in Queue : InQueue(r, u)' => r = "zombie"
  BY <1>1, <1>2, <1>3, <1>5 DEF ZombieInv
<1>10. \A u \in Thread : InQueue("zombie", u)' => u \in stopped'
  BY <1>1, <1>3, <1>8 DEF ZombieInv
<1>11. \A l \in Ctx : nxt'[l] \in stopped' <=> pc'[l] \in Reaping
  BY <1>1, <1>2, <1>4, <1>5 DEF ZombieInv, Hands, Holding
<1>12. ASSUME NEW l \in Ctx, pc'[l] = "delete"
       PROVE  ~flag'[nxt'[l]]
  <2>1. l # k /\ pc[l] = "delete" /\ nxt'[l] = nxt[l]
    BY <1>12 DEF Hands, Holding, Reaping
  <2>2. nxt[l] \in Thread /\ nxt[l] # t
    BY <1>2, <2>1, HandFacts DEF Holding, Reaping
  <2> QED
    BY <1>1, <2>1, <2>2 DEF ZombieInv
<1>13. ZombieInv'
  BY <1>9, <1>10, <1>11, <1>12 DEF ZombieInv
<1>14. ASSUME NEW u \in Thread
       PROVE  Held(u)' <=> Held(u) \/ u = t
  <2>1. (\E l \in Ctx : nxt'[l] = u) <=> \E l \in Ctx : nxt[l] = u
    BY <1>4
  <2>2. (\E r \in Queue : InQueue(r, u)') <=> u = t \/ \E r \in Queue : InQueue(r, u)
    BY <1>3
  <2> QED
    BY <2>1, <2>2 DEF Held
<1> QED
  BY <1>3, <1>6, <1>13, <1>14

\* The head of a queue goes into a hand.
LEMMA TakeHead ==
  ASSUME SafeInv, KThreadsAssumption, NEW k, NEW b,
         NEW q \in Queue, queue[q] # <<>>, Remove(q),
         Hands(k, b, Head(queue[q])),
         pc[k] \notin Holding, b \in Holding, b # "delete",
         b \in Reaping <=> q = "zombie",
         flag' = flag, stopped' = stopped
  PROVE  /\ QueuesInv' /\ HandsInv' /\ ZombieInv'
         /\ queue' \in [Queue -> Seq(Thread)]
         /\ Head(queue[q]) \in Thread /\ InQueue(q, Head(queue[q]))
         /\ \A u \in Thread : Held(u)' <=> Held(u)
<1>1. k \in Ctx /\ TypeOK /\ QueuesInv /\ HandsInv /\ ZombieInv
  BY DEF SafeInv, Hands
<1> DEFINE h == Head(queue[q])
<1>2. /\ QueuesInv'
      /\ queue' \in [Queue -> Seq(Thread)]
      /\ h \in Thread /\ InQueue(q, h)
      /\ \A r \in Queue, u \in Thread : InQueue(r, u)' <=> InQueue(r, u) /\ u # h
  BY <1>1, QueueTake
<1>3. /\ pc'[k] = b /\ nxt'[k] = h
      /\ \A l \in Ctx : l # k => pc'[l] = pc[l] /\ nxt'[l] = nxt[l]
  BY DEF Hands
<1> HIDE DEF h
<1>4. None \notin Thread /\ stopped \subseteq Thread
  BY <1>1 DEF KThreadsAssumption, Thread, TypeOK
<1>5. \A l \in Ctx : nxt[l] # h /\ nxt[l] \in Thread \cup {None}
  BY <1>1, <1>2, <1>4 DEF HandsInv, TypeOK
<1>6. HandsInv'
  <2>1. \A l \in Ctx : nxt'[l] # None <=> pc'[l] \in Holding
    BY <1>1, <1>2, <1>3, <1>4 DEF HandsInv
  <2>2. ASSUME NEW l \in Ctx, NEW r \in Queue, nxt'[l] # None
        PROVE  ~InQueue(r, nxt[l])'
    <3>1. nxt'[l] \in Thread
      BY <1>2, <1>3, <1>5, <2>2
    <3>2. nxt'[l] # h => nxt'[l] = nxt[l] /\ nxt[l] # None
      BY <1>3, <2>2
    <3>3. nxt[l] # None => ~InQueue(r, nxt[l])
      BY <1>1 DEF HandsInv
    <3> QED
      BY <1>2, <3>1, <3>2, <3>3
  <2>3. \A l, m \in Ctx : nxt'[l] # None /\ nxt'[l] = nxt'[m] => l = m
    BY <1>1, <1>3, <1>5 DEF HandsInv
  <2> QED
    BY <2>1, <2>2, <2>3 DEF HandsInv
<1>7. h \in stopped <=> q = "zombie"
  BY <1>1, <1>2 DEF ZombieInv
<1>8. "zombie" \in Queue
  BY DEF Queue
<1>9. \A t \in stopped' : \A r \in Queue : InQueue(r, t)' => r = "zombie"
  BY <1>1, <1>2, <1>4 DEF ZombieInv
<1>10. \A t \in Thread : InQueue("zombie", t)' => t \in stopped'
  BY <1>1, <1>2, <1>8 DEF ZombieInv
<1>11. \A l \in Ctx : nxt'[l] \in stopped' <=> pc'[l] \in Reaping
  BY <1>1, <1>3, <1>7 DEF ZombieInv
<1>12. \A l \in Ctx : pc'[l] = "delete" => ~flag'[nxt'[l]]
  BY <1>1, <1>3 DEF ZombieInv
<1>13. ZombieInv'
  BY <1>9, <1>10, <1>11, <1>12 DEF ZombieInv
<1>14. ASSUME NEW u \in Thread
       PROVE  Held(u)' <=> Held(u)
  <2>1. nxt[k] # u
    BY <1>1, <1>4 DEF HandsInv
  <2>2. (\E l \in Ctx : nxt'[l] = u) <=> u = h \/ \E l \in Ctx : nxt[l] = u
    BY <1>1, <1>3, <2>1
  <2>3. (\E r \in Queue : InQueue(r, u)') <=> u # h /\ \E r \in Queue : InQueue(r, u)
    BY <1>2
  <2> QED
    BY <1>2, <2>2, <2>3 DEF Held
<1> QED
  BY <1>2, <1>6, <1>13, <1>14 DEF h

\* A thread goes out of a hand and into no queue.
LEMMA DropHand ==
  ASSUME SafeInv, KThreadsAssumption, NEW k, NEW b, Hands(k, b, None),
         pc[k] \in Holding, b \notin Holding,
         queue' = queue, stopped' = stopped,
         \A u \in Thread : flag'[u] => flag[u]
  PROVE  /\ QueuesInv' /\ HandsInv' /\ ZombieInv'
         /\ \A u \in Thread : Held(u)' <=> Held(u) /\ u # nxt[k]
<1>1. k \in Ctx /\ TypeOK /\ QueuesInv /\ HandsInv /\ ZombieInv
  BY DEF SafeInv, Hands
<1>2. /\ nxt[k] \in Thread /\ \A r \in Queue : ~InQueue(r, nxt[k])
      /\ \A l \in Ctx : l # k => nxt[l] # nxt[k]
  BY <1>1, HandFacts
<1>3. \A r, u : InQueue(r, u)' <=> InQueue(r, u)
  BY DEF InQueue
<1>4. QueuesInv'
  BY <1>1 DEF QueuesInv
<1>5. None \notin Thread /\ stopped \subseteq Thread
  BY <1>1 DEF KThreadsAssumption, Thread, TypeOK
<1>6. HandsInv'
  BY <1>1, <1>2, <1>3 DEF HandsInv, Hands
<1>11. \A l \in Ctx : nxt'[l] \in stopped' <=> pc'[l] \in Reaping
  BY <1>1, <1>5 DEF ZombieInv, Hands, Holding
<1>12. ASSUME NEW l \in Ctx, pc'[l] = "delete"
       PROVE  ~flag'[nxt'[l]]
  <2>1. l # k /\ pc[l] = "delete" /\ nxt'[l] = nxt[l]
    BY <1>12 DEF Hands, Holding, Reaping
  <2>2. nxt[l] \in Thread
    BY <2>1, HandFacts DEF Holding, Reaping
  <2> QED
    BY <1>1, <2>1, <2>2 DEF ZombieInv
<1>13. ZombieInv'
  BY <1>1, <1>3, <1>11, <1>12 DEF ZombieInv
<1>14. ASSUME NEW u \in Thread
       PROVE  Held(u)' <=> Held(u) /\ u # nxt[k]
  <2>1. (\E l \in Ctx : nxt'[l] = u) <=> u # nxt[k] /\ \E l \in Ctx : nxt[l] = u
    BY <1>1, <1>2, <1>5 DEF Hands
  <2> QED
    BY <1>2, <1>3, <2>1 DEF Held
<1> QED
  BY <1>4, <1>6, <1>13, <1>14

\* A step that stays on its stack and moves threads between queues and hands.
LEMMA HandStep ==
  ASSUME SafeInv, KThreadsAssumption, NEW c \in Core, NEW t \in Thread, t = sp[c],
         Local(c), prev' = prev,
         KeepsChoice(t),
         \A u \in Thread : u # t =>
           (Held(u)' => Held(u)) /\ (u \in stopped' => u \in stopped),
         Switching(t) /\ prev[t] # None => Switching(t)',
         QueuesInv', HandsInv', ZombieInv', TypeOK', ThreadInv(t)', CoreInv(c)'
  PROVE  SafeInv'
<1>1. ChosenInv'
  BY LocalChosen
<1>2. pc'[<<t, 0>>] # "free"
  BY RunningSame DEF ThreadInv, StackAt, Local, SafeInv, TypeOK
<1>3. PrevInv'
  BY <1>2, LocalPrev
<1>4. OneCorePerStack'
  BY DEF SafeInv, OneCorePerStack, Local
<1>5. \A u \in Thread : ThreadInv(u)'
  BY LocalThreads
<1>6. \A d \in Core : CoreInv(d)'
  BY LocalCores
<1> QED
  BY <1>1, <1>3, <1>4, <1>5, <1>6 DEF SafeInv

\* What one assignment to next does, with a move of the program counter.
LEMMA HandMove ==
  ASSUME SafeInv, NEW c \in Core, NEW t \in Thread, t = sp[c], NEW a, NEW b, NEW v,
         Moves(c, a, b), nxt' = [nxt EXCEPT ![Here(c)] = v]
  PROVE  /\ Hands(Here(c), b, v)
         /\ Assigns(c, nxt, nxt', v)
         /\ b \notin Chosen => KeepsChoice(t)
<1>1. TypeOK /\ Here(c) \in Ctx /\ nxt \in [Ctx -> Thread \cup {None}]
  BY HereFacts DEF SafeInv, TypeOK
<1>2. Hands(Here(c), b, v)
  BY <1>1 DEF Hands, Moves
<1>3. Assigns(c, nxt, nxt', v)
  BY <1>1, Assigned
<1>4. ASSUME NEW l \in {0, 1}, b \notin Chosen, pc'[<<t, l>>] \in Chosen
      PROVE  /\ pc[<<t, l>>] \in Chosen
             /\ nxt'[<<t, l>>] = nxt[<<t, l>>]
             /\ pc'[<<t, l>>] = "claim" <=> pc[<<t, l>>] = "claim"
  <2>1. <<t, l>> \in Ctx /\ <<t, l>> # Here(c)
    BY <1>2, <1>4, CtxFacts DEF Hands
  <2> QED
    BY <1>2, <1>4, <2>1 DEF Hands
<1> QED
  BY <1>2, <1>3, <1>4 DEF KeepsChoice

\* yield() puts the thread on the core into readyQ.
LEMMA EnqueueStep ==
  ASSUME SafeInv, KThreadsAssumption, NEW c \in Core, NEW t \in Thread, t = sp[c],
         Enqueue(c)
  PROVE  SafeInv'
<1>1. TypeOK /\ ThreadInv(t) /\ CoreInv(c)
  BY DEF SafeInv
<1>2. Moves(c, "enqueue", "block")
  BY <1>1, Moved DEF Enqueue
<1>a. me[Here(c)] = t /\ nxt[Here(c)] = None /\ flag[t]
  <2>1. Here(c) \in Ctx /\ pc[Here(c)] = "enqueue"
    BY <1>1, <1>2, HereFacts DEF Moves
  <2>2. nxt[Here(c)] = None
    BY <2>1 DEF SafeInv, HandsInv, Holding, Chosen, Reaping
  <2> QED
    BY <1>1, <1>2, <2>2 DEF ThreadInv, MeAt, LevelsAt, FlagAt, Flagged, Moves
<1>3. UNCHANGED <<sp, active, intr, me, prev, flag, context, stopped>>
  BY <1>1 DEF Enqueue, cpu, regs, mem
<1>4. nxt' = [nxt EXCEPT ![Here(c)] = None]
  BY <1>1, <1>a, HereFacts DEF Enqueue, TypeOK, regs
<1>5. /\ Hands(Here(c), "block", None)
      /\ Assigns(c, nxt, nxt', None)
      /\ KeepsChoice(t)
  <2>1. "block" \notin Chosen
    BY DEF Chosen
  <2> QED
    BY <1>2, <1>4, <2>1, HandMove
<1>6. Local(c)
  BY <1>1, <1>2, <1>3, <1>5 DEF Local, Moves, Assigns, TypeOK
<1>b. Running(t) /\ ~Held(t) /\ t \notin stopped
  <2>1. pc[<<t, 0>>] \notin Queued /\ pc[<<t, 1>>] \notin Queued
    BY <1>1, <1>2 DEF ThreadInv, LevelsAt, Moves, Queued, Calm, Suspending
  <2>2. Running(t) /\ ~Held(t)
    <3>1. Running(t)
      BY DEF Running
    <3> QED
      BY <2>1, <3>1, RunningHeld
  <2>3. t \notin stopped
    BY <1>1, <1>2, <2>1, <2>2 DEF ThreadInv, HeldAt, Moves
  <2> QED
    BY <2>2, <2>3
<1>7. /\ QueuesInv' /\ HandsInv' /\ ZombieInv'
      /\ queue' \in [Queue -> Seq(Thread)]
      /\ \A u \in Thread : Held(u)' <=> Held(u) \/ u = t
  BY PutSelf, <1>2, <1>3, <1>5, <1>a, <1>b
     DEF Enqueue, Moves, Queue, Holding, Chosen, Reaping
<1>8. Running(t) /\ Running(t)' /\ Held(t)'
  BY <1>3, <1>7, RunningSame
<1>9. TypeOK'
  <2>1. pc' \in [Ctx -> Label]
    BY <1>1, <1>a DEF TypeOK, Enqueue, Goto, Label
  <2>2. nxt' \in [Ctx -> Thread \cup {None}]
    BY <1>1, <1>4 DEF TypeOK
  <2> QED
    BY <1>1, <1>3, <1>7, <2>1, <2>2 DEF TypeOK, Enqueue, cpu, regs, mem
<1>10. ThreadInv(t)'
  BY <1>1, <1>2, <1>3, <1>5, <1>8, <1>a
     DEF ThreadInv, LevelsAt, StackAt, FlagAt, HeldAt, MeAt, Switching, Moves,
         Suspending, Calm, Queued, Flagged, Away, Window, Assigns
<1>11. CoreInv(c)'
  BY <1>1, <1>2, <1>3, <1>5, <1>a DEF CoreInv, Moves, Window, Assigns
<1>12. Switching(t) /\ prev[t] # None => Switching(t)'
  BY <1>1, <1>2, <1>3, <1>a
     DEF Switching, Moves, Away, ThreadInv, LevelsAt, Suspending, Queued, Calm
<1> QED
  BY <1>3, <1>5, <1>6, <1>7, <1>9, <1>10, <1>11, <1>12, HandStep

\* stop() puts the thread on the core into zombieQ.
LEMMA BuryStep ==
  ASSUME SafeInv, KThreadsAssumption, NEW c \in Core, NEW t \in Thread, t = sp[c],
         Bury(c)
  PROVE  SafeInv'
<1>1. TypeOK /\ ThreadInv(t) /\ CoreInv(c)
  BY DEF SafeInv
<1>2. Moves(c, "bury", "block")
  BY <1>1, Moved DEF Bury
<1>a. me[Here(c)] = t /\ nxt[Here(c)] = None /\ flag[t]
  <2>1. Here(c) \in Ctx /\ pc[Here(c)] = "bury"
    BY <1>1, <1>2, HereFacts DEF Moves
  <2>2. nxt[Here(c)] = None
    BY <2>1 DEF SafeInv, HandsInv, Holding, Chosen, Reaping
  <2> QED
    BY <1>1, <1>2, <2>2 DEF ThreadInv, MeAt, LevelsAt, FlagAt, Flagged, Moves
<1>3. /\ UNCHANGED <<sp, active, intr, me, prev, flag, context>>
      /\ stopped' = stopped \cup {t}
  BY <1>1, <1>a DEF Bury, cpu, regs, mem
<1>4. nxt' = [nxt EXCEPT ![Here(c)] = None]
  BY <1>1, <1>a, HereFacts DEF Bury, TypeOK, regs
<1>5. /\ Hands(Here(c), "block", None)
      /\ Assigns(c, nxt, nxt', None)
      /\ KeepsChoice(t)
  <2>1. "block" \notin Chosen
    BY DEF Chosen
  <2> QED
    BY <1>2, <1>4, <2>1, HandMove
<1>6. Local(c)
  BY <1>1, <1>2, <1>3, <1>5 DEF Local, Moves, Assigns, TypeOK
<1>b. Running(t) /\ ~Held(t) /\ t \notin stopped
  <2>1. pc[<<t, 0>>] \notin Queued /\ pc[<<t, 1>>] \notin Queued
    BY <1>1, <1>2 DEF ThreadInv, LevelsAt, Moves, Queued, Calm, Suspending
  <2>2. Running(t) /\ ~Held(t)
    <3>1. Running(t)
      BY DEF Running
    <3> QED
      BY <2>1, <3>1, RunningHeld
  <2>3. t \notin stopped
    BY <1>1, <1>2, <2>1, <2>2 DEF ThreadInv, HeldAt, Moves
  <2> QED
    BY <2>2, <2>3
<1>7. /\ QueuesInv' /\ HandsInv' /\ ZombieInv'
      /\ queue' \in [Queue -> Seq(Thread)]
      /\ \A u \in Thread : Held(u)' <=> Held(u) \/ u = t
  BY ZenonT(60), PutSelf, <1>2, <1>3, <1>5, <1>a, <1>b
     DEF Bury, Moves, Queue, Holding, Chosen, Reaping
<1>8. Running(t) /\ Running(t)' /\ Held(t)'
  BY <1>3, <1>7, RunningSame
<1>9. TypeOK'
  <2>1. pc' \in [Ctx -> Label]
    BY <1>1, <1>a DEF TypeOK, Bury, Goto, Label
  <2>2. nxt' \in [Ctx -> Thread \cup {None}]
    BY <1>1, <1>4 DEF TypeOK
  <2> QED
    BY <1>1, <1>3, <1>7, <2>1, <2>2 DEF TypeOK, Bury, cpu, regs, mem
<1>10. ThreadInv(t)'
  BY <1>1, <1>2, <1>3, <1>5, <1>8, <1>a
     DEF ThreadInv, LevelsAt, StackAt, FlagAt, HeldAt, MeAt, Switching, Moves,
         Suspending, Calm, Queued, Flagged, Away, Window, Assigns
<1>11. CoreInv(c)'
  BY <1>1, <1>2, <1>3, <1>5, <1>a DEF CoreInv, Moves, Window, Assigns
<1>12. Switching(t) /\ prev[t] # None => Switching(t)'
  BY <1>1, <1>2, <1>3, <1>a
     DEF Switching, Moves, Away, ThreadInv, LevelsAt, Suspending, Queued, Calm
<1> QED
  BY <1>3, <1>5, <1>6, <1>7, <1>9, <1>10, <1>11, <1>12, HandStep

\* block() puts a flagged thread back into readyQ.
LEMMA RequeueStep ==
  ASSUME SafeInv, KThreadsAssumption, NEW c \in Core, NEW t \in Thread, t = sp[c],
         Requeue(c)
  PROVE  SafeInv'
<1>1. TypeOK /\ ThreadInv(t) /\ CoreInv(c)
  BY DEF SafeInv
<1>2. Moves(c, "requeue", "block")
  BY <1>1, Moved DEF Requeue
<1>3. UNCHANGED <<sp, active, intr, me, prev, flag, context, stopped>>
  BY <1>1 DEF Requeue, cpu, regs, mem
<1>4. nxt' = [nxt EXCEPT ![Here(c)] = None]
  BY DEF Requeue
<1>5. /\ Hands(Here(c), "block", None)
      /\ Assigns(c, nxt, nxt', None)
      /\ KeepsChoice(t)
  <2>1. "block" \notin Chosen
    BY DEF Chosen
  <2> QED
    BY <1>2, <1>4, <2>1, HandMove
<1>6. Local(c)
  BY <1>1, <1>2, <1>3, <1>5 DEF Local, Moves, Assigns, TypeOK
<1>7. /\ QueuesInv' /\ HandsInv' /\ ZombieInv'
      /\ queue' \in [Queue -> Seq(Thread)]
      /\ \A u \in Thread : Held(u)' <=> Held(u)
  BY PutHand, <1>2, <1>3, <1>5 DEF Requeue, Moves, Queue, Holding, Chosen, Reaping
<1>8. Running(t) /\ Running(t)' /\ (Held(t)' <=> Held(t))
  BY <1>3, <1>7, RunningSame
<1>9. TypeOK'
  <2>1. pc' \in [Ctx -> Label]
    BY <1>1 DEF TypeOK, Requeue, Goto, Label
  <2>2. nxt' \in [Ctx -> Thread \cup {None}]
    BY <1>1, <1>4 DEF TypeOK
  <2> QED
    BY <1>1, <1>3, <1>7, <2>1, <2>2 DEF TypeOK, Requeue, cpu, regs, mem
<1>10. ThreadInv(t)'
  BY <1>1, <1>2, <1>3, <1>5, <1>8
     DEF ThreadInv, LevelsAt, StackAt, FlagAt, HeldAt, MeAt, Switching, Moves,
         Suspending, Calm, Queued, Flagged, Away, Window, Assigns
<1>11. CoreInv(c)'
  BY <1>1, <1>2, <1>3, <1>5 DEF CoreInv, Moves, Window, Assigns
<1>12. Switching(t) /\ prev[t] # None => Switching(t)'
  BY <1>1, <1>2, <1>3
     DEF Switching, Moves, Away, ThreadInv, LevelsAt, Suspending, Queued, Calm
<1> QED
  BY <1>3, <1>5, <1>6, <1>7, <1>9, <1>10, <1>11, <1>12, HandStep

\* reaper() puts a flagged zombie back into zombieQ.
LEMMA ReburyStep ==
  ASSUME SafeInv, KThreadsAssumption, NEW c \in Core, NEW t \in Thread, t = sp[c],
         Rebury(c)
  PROVE  SafeInv'
<1>1. TypeOK /\ ThreadInv(t) /\ CoreInv(c)
  BY DEF SafeInv
<1>2. Moves(c, "rebury", "reap")
  BY <1>1, Moved DEF Rebury
<1>3. UNCHANGED <<sp, active, intr, me, prev, flag, context, stopped>>
  BY <1>1 DEF Rebury, cpu, regs, mem
<1>4. nxt' = [nxt EXCEPT ![Here(c)] = None]
  BY DEF Rebury
<1>5. /\ Hands(Here(c), "reap", None)
      /\ Assigns(c, nxt, nxt', None)
      /\ KeepsChoice(t)
  <2>1. "reap" \notin Chosen
    BY DEF Chosen
  <2> QED
    BY <1>2, <1>4, <2>1, HandMove
<1>6. Local(c)
  BY <1>1, <1>2, <1>3, <1>5 DEF Local, Moves, Assigns, TypeOK
<1>7. /\ QueuesInv' /\ HandsInv' /\ ZombieInv'
      /\ queue' \in [Queue -> Seq(Thread)]
      /\ \A u \in Thread : Held(u)' <=> Held(u)
  BY PutHand, <1>2, <1>3, <1>5 DEF Rebury, Moves, Queue, Holding, Chosen, Reaping
<1>8. Running(t) /\ Running(t)' /\ (Held(t)' <=> Held(t))
  BY <1>3, <1>7, RunningSame
<1>9. TypeOK'
  <2>1. pc' \in [Ctx -> Label]
    BY <1>1 DEF TypeOK, Rebury, Goto, Label
  <2>2. nxt' \in [Ctx -> Thread \cup {None}]
    BY <1>1, <1>4 DEF TypeOK
  <2> QED
    BY <1>1, <1>3, <1>7, <2>1, <2>2 DEF TypeOK, Rebury, cpu, regs, mem
<1>10. ThreadInv(t)'
  BY <1>1, <1>2, <1>3, <1>5, <1>8
     DEF ThreadInv, LevelsAt, StackAt, FlagAt, HeldAt, MeAt, Switching, Moves,
         Suspending, Calm, Queued, Flagged, Away, Window, Assigns
<1>11. CoreInv(c)'
  BY <1>1, <1>2, <1>3, <1>5 DEF CoreInv, Moves, Window, Assigns
<1>12. Switching(t) /\ prev[t] # None => Switching(t)'
  BY <1>1, <1>2, <1>3
     DEF Switching, Moves, Away, ThreadInv, LevelsAt, Suspending, Queued, Calm
<1> QED
  BY <1>3, <1>5, <1>6, <1>7, <1>9, <1>10, <1>11, <1>12, HandStep

\* schedule() puts a new or woken thread into readyQ.
LEMMA ScheduleStep ==
  ASSUME SafeInv, KThreadsAssumption, NEW c \in Core, NEW t \in Thread, t = sp[c],
         Schedule(c)
  PROVE  SafeInv'
<1>1. TypeOK /\ ThreadInv(t) /\ CoreInv(c)
  BY DEF SafeInv
<1>a. PICK b \in {"work", "stop"} : Goto(Here(c), b)
  BY DEF Schedule
<1>2. Moves(c, "schedule", b)
  BY <1>1, <1>a, Moved DEF Schedule
<1>3. UNCHANGED <<sp, active, intr, me, prev, flag, context, stopped>>
  BY <1>1 DEF Schedule, cpu, regs, mem
<1>4. nxt' = [nxt EXCEPT ![Here(c)] = None]
  BY DEF Schedule
<1>5. /\ Hands(Here(c), b, None)
      /\ Assigns(c, nxt, nxt', None)
      /\ KeepsChoice(t)
  <2>1. b \notin Chosen
    BY DEF Chosen
  <2> QED
    BY <1>2, <1>4, <2>1, HandMove
<1>6. Local(c)
  BY <1>1, <1>2, <1>3, <1>5 DEF Local, Moves, Assigns, TypeOK
<1>7. /\ QueuesInv' /\ HandsInv' /\ ZombieInv'
      /\ queue' \in [Queue -> Seq(Thread)]
      /\ \A u \in Thread : Held(u)' <=> Held(u)
  BY PutHand, <1>2, <1>3, <1>5 DEF Schedule, Moves, Queue, Holding, Chosen, Reaping
<1>8. Running(t) /\ Running(t)' /\ (Held(t)' <=> Held(t))
  BY <1>3, <1>7, RunningSame
<1>9. TypeOK'
  <2>1. pc' \in [Ctx -> Label]
    BY <1>1 DEF TypeOK, Schedule, Goto, Label
  <2>2. nxt' \in [Ctx -> Thread \cup {None}]
    BY <1>1, <1>4 DEF TypeOK
  <2> QED
    BY <1>1, <1>3, <1>7, <2>1, <2>2 DEF TypeOK, Schedule, cpu, regs, mem
<1>10. ThreadInv(t)'
  BY <1>1, <1>2, <1>3, <1>5, <1>8
     DEF ThreadInv, LevelsAt, StackAt, FlagAt, HeldAt, MeAt, Switching, Moves,
         Suspending, Calm, Queued, Flagged, Away, Window, Assigns
<1>11. CoreInv(c)'
  BY <1>1, <1>2, <1>3, <1>5 DEF CoreInv, Moves, Window, Assigns
<1>12. Switching(t) /\ prev[t] # None => Switching(t)'
  BY <1>1, <1>2, <1>3
     DEF Switching, Moves, Away, ThreadInv, LevelsAt, Suspending, Queued, Calm
<1> QED
  BY <1>3, <1>5, <1>6, <1>7, <1>9, <1>10, <1>11, <1>12, HandStep

\* block() takes the head of readyQ.
LEMMA PickStep ==
  ASSUME SafeInv, KThreadsAssumption, NEW c \in Core, NEW t \in Thread, t = sp[c],
         Pick(c)
  PROVE  SafeInv'
<1>1. TypeOK /\ ThreadInv(t) /\ CoreInv(c)
  BY DEF SafeInv
<1>2. Moves(c, "block", "test")
  BY <1>1, Moved DEF Pick
<1>3. UNCHANGED <<sp, active, intr, me, prev, flag, context, stopped>>
  BY <1>1 DEF Pick, cpu, regs, mem
<1>4. nxt' = [nxt EXCEPT ![Here(c)] = Head(queue["ready"])]
  BY DEF Pick
<1>5. /\ Hands(Here(c), "test", Head(queue["ready"]))
      /\ Assigns(c, nxt, nxt', Head(queue["ready"]))
      /\ KeepsChoice(t)
  <2>1. "test" \notin Chosen
    BY DEF Chosen
  <2> QED
    BY <1>2, <1>4, <2>1, HandMove
<1>6. Local(c)
  BY <1>1, <1>2, <1>3, <1>5 DEF Local, Moves, Assigns, TypeOK
<1>7. /\ QueuesInv' /\ HandsInv' /\ ZombieInv'
      /\ queue' \in [Queue -> Seq(Thread)]
      /\ Head(queue["ready"]) \in Thread
      /\ \A u \in Thread : Held(u)' <=> Held(u)
  BY TakeHead, <1>2, <1>3, <1>5 DEF Pick, Moves, Queue, Holding, Chosen, Reaping
<1>8. Running(t) /\ Running(t)' /\ (Held(t)' <=> Held(t))
  BY <1>3, <1>7, RunningSame
<1>9. TypeOK'
  <2>1. pc' \in [Ctx -> Label]
    BY <1>1 DEF TypeOK, Pick, Goto, Label
  <2>2. nxt' \in [Ctx -> Thread \cup {None}]
    BY <1>1, <1>4, <1>7 DEF TypeOK
  <2> QED
    BY <1>1, <1>3, <1>7, <2>1, <2>2 DEF TypeOK, Pick, cpu, regs, mem
<1>10. ThreadInv(t)'
  BY <1>1, <1>2, <1>3, <1>5, <1>8
     DEF ThreadInv, LevelsAt, StackAt, FlagAt, HeldAt, MeAt, Switching, Moves,
         Suspending, Calm, Queued, Flagged, Away, Window, Assigns
<1>11. CoreInv(c)'
  BY <1>1, <1>2, <1>3, <1>5 DEF CoreInv, Moves, Window, Assigns
<1>12. Switching(t) /\ prev[t] # None => Switching(t)'
  BY <1>1, <1>2, <1>3
     DEF Switching, Moves, Away, ThreadInv, LevelsAt, Suspending, Queued, Calm
<1> QED
  BY <1>3, <1>5, <1>6, <1>7, <1>9, <1>10, <1>11, <1>12, HandStep

\* reaper() takes the head of zombieQ.
LEMMA ReapSomeStep ==
  ASSUME SafeInv, KThreadsAssumption, NEW c \in Core, NEW t \in Thread, t = sp[c],
         Reap(c), queue["zombie"] # <<>>
  PROVE  SafeInv'
<1>1. TypeOK /\ ThreadInv(t) /\ CoreInv(c)
  BY DEF SafeInv
<1>a. PICK a \in {"reap", "work"} : At(c, a)
  BY DEF Reap, Enter
<1>b. Goto(Here(c), "inspect") /\ queue' = [queue EXCEPT !["zombie"] = Tail(@)]
  BY DEF Reap, Remove
<1>2. Moves(c, a, "inspect")
  BY <1>1, <1>a, <1>b, Moved
<1>3. UNCHANGED <<sp, active, intr, me, prev, flag, context, stopped>>
  BY <1>1 DEF Reap, cpu, regs, mem
<1>4. nxt' = [nxt EXCEPT ![Here(c)] = Head(queue["zombie"])]
  BY DEF Reap
<1>5. /\ Hands(Here(c), "inspect", Head(queue["zombie"]))
      /\ Assigns(c, nxt, nxt', Head(queue["zombie"]))
      /\ KeepsChoice(t)
  <2>1. "inspect" \notin Chosen
    BY DEF Chosen
  <2> QED
    BY <1>2, <1>4, <2>1, HandMove
<1>6. Local(c)
  BY <1>1, <1>2, <1>3, <1>5 DEF Local, Moves, Assigns, TypeOK
<1>7. /\ QueuesInv' /\ HandsInv' /\ ZombieInv'
      /\ queue' \in [Queue -> Seq(Thread)]
      /\ Head(queue["zombie"]) \in Thread
      /\ \A u \in Thread : Held(u)' <=> Held(u)
  BY TakeHead, <1>a, <1>b, <1>2, <1>3, <1>5
     DEF Reap, Remove, Moves, Queue, Holding, Chosen, Reaping
<1>8. Running(t) /\ Running(t)' /\ (Held(t)' <=> Held(t))
  BY <1>3, <1>7, RunningSame
<1>9. TypeOK'
  <2>1. pc' \in [Ctx -> Label]
    BY <1>1, <1>b DEF TypeOK, Reap, Goto, Label
  <2>2. nxt' \in [Ctx -> Thread \cup {None}]
    BY <1>1, <1>4, <1>7 DEF TypeOK
  <2> QED
    BY <1>1, <1>3, <1>7, <2>1, <2>2 DEF TypeOK, Reap, cpu, regs, mem
<1>10. ThreadInv(t)'
  BY <1>1, <1>2, <1>3, <1>5, <1>8, <1>b
     DEF ThreadInv, LevelsAt, StackAt, FlagAt, HeldAt, MeAt, Switching, Moves,
         Suspending, Calm, Queued, Flagged, Away, Window, Assigns
<1>11. CoreInv(c)'
  BY <1>1, <1>2, <1>3, <1>5, <1>b DEF CoreInv, Moves, Window, Assigns
<1>12. Switching(t) /\ prev[t] # None => Switching(t)'
  BY <1>1, <1>2, <1>3, <1>b
     DEF Switching, Moves, Away, ThreadInv, LevelsAt, Suspending, Queued, Calm
<1> QED
  BY <1>3, <1>5, <1>6, <1>7, <1>9, <1>10, <1>11, <1>12, HandStep

\* up() takes the head of the semaphore's queue.
LEMMA UpWakeStep ==
  ASSUME SafeInv, KThreadsAssumption, NEW c \in Core, NEW t \in Thread, t = sp[c],
         NEW s \in Sem, Up(c, s), queue[s] # <<>>
  PROVE  SafeInv'
<1>1. TypeOK /\ ThreadInv(t) /\ CoreInv(c)
  BY DEF SafeInv
<1>a. PICK a \in {"up", "work"} : At(c, a)
  BY DEF Up, Enter
<1>2. Moves(c, a, "schedule")
  BY <1>1, <1>a, Moved DEF Up
<1>3. UNCHANGED <<sp, active, intr, me, prev, flag, context, stopped>>
  BY <1>1 DEF Up, cpu, regs, mem
<1>4. nxt' = [nxt EXCEPT ![Here(c)] = Head(queue[s])]
  BY DEF Up
<1>5. /\ Hands(Here(c), "schedule", Head(queue[s]))
      /\ Assigns(c, nxt, nxt', Head(queue[s]))
      /\ KeepsChoice(t)
  <2>1. "schedule" \notin Chosen
    BY DEF Chosen
  <2> QED
    BY <1>2, <1>4, <2>1, HandMove
<1>6. Local(c)
  BY <1>1, <1>2, <1>3, <1>5 DEF Local, Moves, Assigns, TypeOK
<1>7. /\ QueuesInv' /\ HandsInv' /\ ZombieInv'
      /\ queue' \in [Queue -> Seq(Thread)]
      /\ Head(queue[s]) \in Thread
      /\ \A u \in Thread : Held(u)' <=> Held(u)
  BY TakeHead, <1>a, <1>2, <1>3, <1>5
     DEF Up, KThreadsAssumption, Moves, Queue, Holding, Chosen, Reaping
<1>8. Running(t) /\ Running(t)' /\ (Held(t)' <=> Held(t))
  BY <1>3, <1>7, RunningSame
<1>9. TypeOK'
  <2>1. pc' \in [Ctx -> Label]
    BY <1>1 DEF TypeOK, Up, Goto, Label
  <2>2. nxt' \in [Ctx -> Thread \cup {None}]
    BY <1>1, <1>4, <1>7 DEF TypeOK
  <2> QED
    BY <1>1, <1>3, <1>7, <2>1, <2>2 DEF TypeOK, Up, cpu, regs, mem
<1>10. ThreadInv(t)'
  BY <1>1, <1>2, <1>3, <1>5, <1>8
     DEF ThreadInv, LevelsAt, StackAt, FlagAt, HeldAt, MeAt, Switching, Moves,
         Suspending, Calm, Queued, Flagged, Away, Window, Assigns
<1>11. CoreInv(c)'
  BY <1>1, <1>2, <1>3, <1>5 DEF CoreInv, Moves, Window, Assigns
<1>12. Switching(t) /\ prev[t] # None => Switching(t)'
  BY <1>1, <1>2, <1>3
     DEF Switching, Moves, Away, ThreadInv, LevelsAt, Suspending, Queued, Calm
<1> QED
  BY <1>3, <1>5, <1>6, <1>7, <1>9, <1>10, <1>11, <1>12, HandStep

\* reaper() meets the same flagged zombie again and drops it.
LEMMA InspectDropStep ==
  ASSUME SafeInv, KThreadsAssumption, NEW c \in Core, NEW t \in Thread, t = sp[c],
         Inspect(c), flag[nxt[Here(c)]], nxt[Here(c)] = first[Here(c)[1]]
  PROVE  SafeInv'
<1>1. TypeOK /\ ThreadInv(t) /\ CoreInv(c)
  BY DEF SafeInv
<1>b. PICK b \in {"yield", "spawn"} : Goto(Here(c), b) /\ Reaped(Here(c))
  BY DEF Inspect, Reaped
<1>2. Moves(c, "inspect", b)
  BY <1>1, <1>b, Moved DEF Inspect
<1>3. /\ UNCHANGED <<sp, active, intr, me, prev, flag, context, stopped>>
      /\ UNCHANGED queue
  BY <1>1 DEF Inspect, cpu, regs, mem
<1>4. nxt' = [nxt EXCEPT ![Here(c)] = None]
  BY <1>b DEF Reaped
<1>5. /\ Hands(Here(c), b, None)
      /\ Assigns(c, nxt, nxt', None)
      /\ KeepsChoice(t)
  <2>1. b \notin Chosen
    BY DEF Chosen
  <2> QED
    BY <1>2, <1>4, <2>1, HandMove
<1>6. Local(c)
  BY <1>1, <1>2, <1>3, <1>5 DEF Local, Moves, Assigns, TypeOK
<1>7. /\ QueuesInv' /\ HandsInv' /\ ZombieInv'
      /\ \A u \in Thread : Held(u)' <=> Held(u) /\ u # nxt[Here(c)]
  BY DropHand, <1>b, <1>2, <1>3, <1>5 DEF Moves, Holding, Chosen, Reaping
<1>8. Running(t) /\ Running(t)' /\ (Held(t)' <=> Held(t) /\ t # nxt[Here(c)])
  BY <1>3, <1>7, RunningSame
<1>9. TypeOK'
  <2>1. pc' \in [Ctx -> Label]
    BY <1>1, <1>b DEF TypeOK, Inspect, Goto, Label
  <2>2. nxt' \in [Ctx -> Thread \cup {None}]
    BY <1>1, <1>4 DEF TypeOK
  <2>3. first' \in [Thread -> Thread \cup {None}]
    BY <1>1, <1>b DEF TypeOK, Reaped
  <2> QED
    BY <1>1, <1>3, <1>7, <2>1, <2>2, <2>3 DEF TypeOK, Inspect, cpu, regs, mem
<1>10. ThreadInv(t)'
  BY <1>1, <1>2, <1>3, <1>5, <1>8, <1>b
     DEF ThreadInv, LevelsAt, StackAt, FlagAt, HeldAt, MeAt, Switching, Moves,
         Suspending, Calm, Queued, Flagged, Away, Window, Assigns
<1>11. CoreInv(c)'
  BY <1>1, <1>2, <1>3, <1>5, <1>b DEF CoreInv, Moves, Window, Assigns
<1>12. Switching(t) /\ prev[t] # None => Switching(t)'
  BY <1>1, <1>2, <1>3, <1>b
     DEF Switching, Moves, Away, ThreadInv, LevelsAt, Suspending, Queued, Calm
<1> QED
  BY <1>3, <1>5, <1>6, <1>7, <1>9, <1>10, <1>11, <1>12, HandStep

\* down() on a zero count puts the thread on the core into the queue.
LEMMA DownWaitStep ==
  ASSUME SafeInv, KThreadsAssumption, NEW c \in Core, NEW t \in Thread, t = sp[c],
         NEW s \in Sem, Down(c, s), count[s] = 0
  PROVE  SafeInv'
<1>1. TypeOK /\ ThreadInv(t) /\ CoreInv(c)
  BY DEF SafeInv
<1>a. PICK a \in {"down", "work"} : At(c, a)
  BY DEF Down, Enter
<1>2. Moves(c, a, "block")
  BY <1>1, <1>a, Moved DEF Down
<1>b. active[c] = t
  BY <1>1, <1>a, <1>2
     DEF CoreInv, Window, Moves, ThreadInv, LevelsAt, Suspending, Queued
<1>c. nxt[Here(c)] = None
  BY <1>1, <1>a, <1>2, HereFacts DEF SafeInv, HandsInv, Holding, Reaping, Chosen, Moves
<1>d. Running(t) /\ ~Held(t) /\ t \notin stopped
  <2>1. pc[<<t, 0>>] \notin Queued /\ pc[<<t, 1>>] \notin Queued
    BY <1>1, <1>a, <1>2 DEF ThreadInv, LevelsAt, Moves, Queued, Calm, Suspending
  <2>2. Running(t) /\ ~Held(t)
    <3>1. Running(t)
      BY DEF Running
    <3> QED
      BY <2>1, <3>1, RunningHeld
  <2>3. t \notin stopped
    BY <1>1, <1>a, <1>2, <2>1, <2>2 DEF ThreadInv, HeldAt, Moves
  <2> QED
    BY <2>2, <2>3
<1>3. /\ UNCHANGED <<sp, active, intr, prev, context, stopped>>
      /\ Assigns(c, me, me', t)
      /\ flag'[t] = TRUE /\ \A u \in Thread : u # t => flag'[u] = flag[u]
  BY <1>1, <1>b, Assigned DEF Down, cpu, regs, mem, TypeOK
<1>4. nxt' = [nxt EXCEPT ![Here(c)] = None]
  BY <1>1, <1>c, HereFacts DEF Down, TypeOK
<1>5. /\ Hands(Here(c), "block", None)
      /\ Assigns(c, nxt, nxt', None)
      /\ KeepsChoice(t)
  <2>1. "block" \notin Chosen
    BY DEF Chosen
  <2> QED
    BY <1>2, <1>4, <2>1, HandMove
<1>6. Local(c)
  BY <1>1, <1>2, <1>3, <1>5 DEF Local, Moves, Assigns, TypeOK
<1>7. /\ QueuesInv' /\ HandsInv' /\ ZombieInv'
      /\ queue' \in [Queue -> Seq(Thread)]
      /\ \A u \in Thread : Held(u)' <=> Held(u) \/ u = t
  <2>1. s \in Queue /\ s # "zombie"
    BY DEF Queue, KThreadsAssumption
  <2>2. Add(s, t)
    BY <1>b DEF Down
  <2>3. pc[Here(c)] \notin Holding /\ "block" \notin Holding
    BY <1>a, <1>2 DEF Moves, Holding, Chosen, Reaping
  <2> QED
    BY <1>3, <1>5, <1>d, <2>1, <2>2, <2>3, PutSelf
<1>8. Running(t) /\ Running(t)' /\ Held(t)'
  BY <1>3, <1>7, RunningSame
<1>9. TypeOK'
  <2>1. pc' \in [Ctx -> Label]
    BY <1>1, <1>a, <1>b DEF TypeOK, Down, Goto, Label
  <2>2. nxt' \in [Ctx -> Thread \cup {None}]
    BY <1>1, <1>4 DEF TypeOK
  <2>3. me' \in [Ctx -> Thread \cup {None}]
    BY <1>1, <1>b DEF TypeOK, Down
  <2>4. flag' \in [Thread -> BOOLEAN]
    BY <1>1, <1>b DEF TypeOK, Down
  <2> QED
    BY <1>1, <1>3, <1>7, <2>1, <2>2, <2>3, <2>4 DEF TypeOK, Down, cpu, regs, mem
<1>10. ThreadInv(t)'
  BY <1>1, <1>2, <1>3, <1>5, <1>8, <1>a, <1>b
     DEF ThreadInv, LevelsAt, StackAt, FlagAt, HeldAt, MeAt, Switching, Moves,
         Suspending, Calm, Queued, Flagged, Away, Window, Assigns
<1>11. CoreInv(c)'
  BY <1>1, <1>2, <1>3, <1>5, <1>a, <1>b DEF CoreInv, Moves, Window, Assigns
<1>12. Switching(t) /\ prev[t] # None => Switching(t)'
  BY <1>1, <1>2, <1>3, <1>a, <1>b
     DEF Switching, Moves, Away, ThreadInv, LevelsAt, Suspending, Queued, Calm
<1> QED
  BY <1>3, <1>5, <1>6, <1>7, <1>9, <1>10, <1>11, <1>12, HandStep

\* block() takes its own thread out of readyQ and returns.
LEMMA PickedMyselfStep ==
  ASSUME SafeInv, KThreadsAssumption, NEW c \in Core, NEW t \in Thread, t = sp[c],
         PickedMyself(c)
  PROVE  SafeInv'
<1>1. TypeOK /\ ThreadInv(t) /\ CoreInv(c)
  BY DEF SafeInv
<1>a. PICK b \in {"none", "reap", "work"} :
        /\ Moves(c, "test", b)
        /\ b = "none" <=> pc[<<t, 1>>] # "none"
        /\ Assigns(c, me, me', None)
        /\ intr'[c] <=> intr[c] \/ pc[<<t, 1>>] # "none"
        /\ \A d \in Core : d # c => intr'[d] = intr[d]
        /\ pc' \in [Ctx -> Label]
        /\ me' \in [Ctx -> Thread \cup {None}]
        /\ intr' \in [Core -> BOOLEAN]
  BY <1>1, Returned DEF PickedMyself, At
<1>2. Moves(c, "test", b)
  BY <1>a
<1>b. nxt[Here(c)] = t /\ me[Here(c)] = t /\ t \notin stopped
  <2>1. me[Here(c)] = t /\ nxt[Here(c)] = t
    BY <1>1, <1>2 DEF PickedMyself, ThreadInv, MeAt, Moves, Flagged, Queued
  <2>2. t \notin stopped
    BY <1>1, <1>2, <2>1, HereFacts DEF SafeInv, ZombieInv, Reaping, Moves
  <2> QED
    BY <2>1, <2>2
<1>3. /\ UNCHANGED <<sp, active, prev, context, stopped>>
      /\ UNCHANGED queue
      /\ flag'[t] = FALSE /\ \A u \in Thread : u # t => flag'[u] = flag[u]
  BY <1>1, <1>b DEF PickedMyself, cpu, regs, mem, TypeOK
<1>4. nxt' = [nxt EXCEPT ![Here(c)] = None]
  BY DEF PickedMyself
<1>5. /\ Hands(Here(c), b, None)
      /\ Assigns(c, nxt, nxt', None)
      /\ KeepsChoice(t)
  <2>1. b \notin Chosen
    BY DEF Chosen
  <2> QED
    BY <1>2, <1>4, <2>1, HandMove
<1>6. Local(c)
  BY <1>1, <1>2, <1>3, <1>5, <1>a DEF Local, Moves, Assigns, TypeOK
<1>7. /\ QueuesInv' /\ HandsInv' /\ ZombieInv'
      /\ \A u \in Thread : Held(u)' <=> Held(u) /\ u # nxt[Here(c)]
  BY DropHand, <1>a, <1>2, <1>3, <1>5 DEF Moves, Holding, Chosen, Reaping
<1>8. Running(t) /\ Running(t)' /\ ~Held(t)'
  BY <1>3, <1>7, <1>b, RunningSame
<1>9. TypeOK'
  <2>1. pc' \in [Ctx -> Label]
    BY <1>1, <1>a, <1>b DEF TypeOK, PickedMyself, Goto, Label
  <2>2. nxt' \in [Ctx -> Thread \cup {None}]
    BY <1>1, <1>4 DEF TypeOK
  <2>4. flag' \in [Thread -> BOOLEAN]
    BY <1>1, <1>b DEF TypeOK, PickedMyself
  <2> QED
    BY <1>1, <1>3, <1>7, <2>1, <2>2, <1>a, <2>4
       DEF TypeOK, PickedMyself, cpu, regs, mem
<1>10. ThreadInv(t)'
  BY <1>1, <1>2, <1>3, <1>5, <1>8, <1>a, <1>b
     DEF ThreadInv, LevelsAt, StackAt, FlagAt, HeldAt, MeAt, Switching, Moves,
         Suspending, Calm, Queued, Flagged, Away, Window, Assigns
<1>11. CoreInv(c)'
  BY <1>1, <1>2, <1>3, <1>5, <1>a, <1>b
     DEF CoreInv, Moves, Window, Assigns, ThreadInv, LevelsAt, Calm, Suspending,
         Queued
<1>12. Switching(t) /\ prev[t] # None => Switching(t)'
  BY <1>1, <1>2, <1>3, <1>a, <1>b
     DEF Switching, Moves, Away, ThreadInv, LevelsAt, Suspending, Queued, Calm
<1> QED
  BY <1>3, <1>5, <1>6, <1>7, <1>9, <1>10, <1>11, <1>12, HandStep

-----------------------------------------------------------------------------
(* The steps of Next *)

\* Steps that move nothing SafeInv speaks of: stuttering, and a count alone.
LEMMA StillStep ==
  ASSUME SafeInv, UNCHANGED <<cpu, regs, flag, context, queue, stopped>>, TypeOK'
  PROVE  SafeInv'
<1>1. /\ UNCHANGED <<sp, active, intr, pc, me, nxt, prev, flag, context, queue, stopped>>
  BY DEF cpu, regs
<1>2. \A u : (Running(u)' <=> Running(u)) /\ (Held(u)' <=> Held(u))
  BY <1>1 DEF Running, Held, InQueue
<1>3. \A q, u : InQueue(q, u)' <=> InQueue(q, u)
  BY <1>1 DEF InQueue
<1>4. OneCorePerStack' /\ QueuesInv'
  BY <1>1 DEF SafeInv, OneCorePerStack, QueuesInv
<1>5. HandsInv' /\ ZombieInv'
  BY <1>1, <1>3 DEF SafeInv, HandsInv, ZombieInv
<1>6. ChosenInv' /\ PrevInv'
  BY <1>1, <1>2 DEF SafeInv, ChosenInv, PrevInv, Switching
<1>7. \A u \in Thread : ThreadInv(u)'
  <2> SUFFICES ASSUME NEW u \in Thread PROVE ThreadInv(u)'
    OBVIOUS
  <2>1. ThreadInv(u)
    BY DEF SafeInv
  <2> QED
    BY <1>1, <1>2, <2>1
       DEF ThreadInv, LevelsAt, StackAt, FlagAt, HeldAt, MeAt, Switching
<1>8. \A d \in Core : CoreInv(d)'
  BY <1>1 DEF SafeInv, CoreInv
<1> QED
  BY <1>4, <1>5, <1>6, <1>7, <1>8 DEF SafeInv

\* block() finds a thread nobody else is about to run.
LEMMA TestNextClaimStep ==
  ASSUME SafeInv, KThreadsAssumption, NEW c \in Core, NEW t \in Thread, t = sp[c],
         TestNext(c), ~flag[nxt[Here(c)]]
  PROVE  SafeInv'
<1>1. TypeOK /\ ThreadInv(t) /\ CoreInv(c)
  BY DEF SafeInv
<1>2. Moves(c, "test", "claim")
  BY <1>1, Moved DEF TestNext
<1>3. UNCHANGED <<sp, active, intr, me, nxt, prev, flag, context, queue, stopped>>
  BY DEF TestNext, cpu, mem
<1>4. Local(c)
  BY <1>1, <1>2, <1>3 DEF Local, Moves
<1>5. KeepsHands(t)
  <2> SUFFICES ASSUME NEW l \in {0, 1}
               PROVE  /\ pc'[<<t, l>>] \in Holding <=> pc[<<t, l>>] \in Holding
                      /\ pc'[<<t, l>>] \in Reaping <=> pc[<<t, l>>] \in Reaping
                      /\ pc'[<<t, l>>] = "delete" => ~flag[nxt[<<t, l>>]]
    BY DEF KeepsHands
  <2>1. pc[<<t, l>>] = "delete" => ~flag[nxt[<<t, l>>]]
    BY CtxFacts DEF SafeInv, ZombieInv
  <2>2. pc'[<<t, l>>] = pc[<<t, l>>] \/ (pc[<<t, l>>] = "test" /\ pc'[<<t, l>>] = "claim")
    BY <1>2 DEF Moves
  <2> QED
    BY <2>1, <2>2 DEF Holding, Reaping, Chosen
<1>6. /\ OneCorePerStack' /\ QueuesInv' /\ HandsInv' /\ ZombieInv'
      /\ \A u : Held(u)' <=> Held(u)
  BY <1>3, <1>4, <1>5, LocalCustody
<1>7. ChosenInv'
  <2> SUFFICES ASSUME NEW l \in Ctx, pc'[l] \in Chosen
               PROVE  /\ ~Running(nxt[l])
                      /\ \A u \in Thread : prev[u] # nxt[l]
                      /\ flag[nxt[l]] <=> pc'[l] # "claim"
    BY <1>3, RunningSame DEF ChosenInv
  <2>1. CASE l # Here(c)
    BY <2>1, <1>2 DEF SafeInv, ChosenInv, Moves
  <2>2. CASE l = Here(c)
    <3>1. pc[l] \in Holding /\ pc'[l] = "claim" /\ ~flag[nxt[l]]
      BY <1>2, <2>2 DEF Moves, Holding
    <3>2. nxt[l] \in Thread /\ Held(nxt[l]) /\ nxt[l] # None
      BY <3>1, HandFacts
    <3>3. ~Running(nxt[l])
      BY <3>1, <3>2, RunningHeld
    <3>4. \A u \in Thread : prev[u] # nxt[l]
      BY <3>1, <3>2 DEF SafeInv, PrevInv
    <3> QED
      BY <3>1, <3>3, <3>4
  <2> QED
    BY <2>1, <2>2
<1>8. TypeOK'
  BY <1>1, <1>3 DEF TypeOK, TestNext, Goto, cpu, mem, Label
<1>9. Running(t)' /\ Running(t)
  BY <1>3, RunningSame
<1>10. ThreadInv(t)'
  BY <1>1, <1>2, <1>3, <1>6, <1>9
     DEF ThreadInv, LevelsAt, StackAt, FlagAt, HeldAt, MeAt, Switching, Moves,
         Suspending, Calm, Queued, Flagged, Away, Window
<1>11. \A u \in Thread : ThreadInv(u)'
  BY <1>3, <1>4, <1>6, <1>10, LocalThreads
<1>12. \A d \in Core : CoreInv(d)'
  <2>1. CoreInv(c)'
    BY <1>1, <1>2, <1>3 DEF CoreInv, Moves, Window
  <2> QED
    BY <2>1, <1>4, LocalCores
<1>13. PrevInv'
  <2>1. pc'[<<t, 0>>] # "free"
    BY <1>9, <1>10 DEF ThreadInv, StackAt
  <2>2. Switching(t) => Switching(t)'
    BY <1>1, <1>2 DEF Switching, Moves, Away
  <2> QED
    BY <2>1, <2>2, <1>3, <1>4, LocalPrev
<1> QED
  BY <1>6, <1>7, <1>8, <1>11, <1>12, <1>13 DEF SafeInv

\* The flag of the chosen thread goes up.
LEMMA ClaimStep ==
  ASSUME SafeInv, KThreadsAssumption, NEW c \in Core, Claim(c)
  PROVE  SafeInv'
<1>1. TypeOK /\ Here(c) \in Ctx
  BY HereFacts DEF SafeInv
<1>2. Moves(c, "claim", "activate")
  BY <1>1, Moved DEF Claim
<1> DEFINE k == Here(c)
           n == nxt[k]
<1>3. /\ UNCHANGED <<sp, active, intr, me, nxt, prev, context, queue, stopped>>
      /\ flag' = [flag EXCEPT ![n] = TRUE]
  BY DEF Claim, cpu, mem
<1>4. /\ pc[k] = "claim" /\ pc'[k] = "activate"
      /\ \A l \in Ctx : l # k => pc'[l] = pc[l]
  BY <1>2 DEF Moves
<1> HIDE DEF k, n
<1>5. k \in Ctx /\ n = nxt[k]
  BY <1>1 DEF k, n
<1>6. n \in Thread /\ \A l \in Ctx : l # k => nxt[l] # n
  BY <1>4, <1>5, HandFacts DEF Holding, Chosen
<1>7. ~Running(n) /\ \A u \in Thread : prev[u] # n
  BY <1>4, <1>5 DEF SafeInv, ChosenInv, Chosen
<1>8. flag'[n] = TRUE /\ \A u \in Thread : u # n => flag'[u] = flag[u]
  BY <1>1, <1>3, <1>6 DEF TypeOK
<1>9. \A q, u : InQueue(q, u)' <=> InQueue(q, u)
  BY <1>3 DEF InQueue
<1>10. \A u : (Running(u)' <=> Running(u)) /\ (Held(u)' <=> Held(u))
  BY <1>3, <1>9 DEF Running, Held
<1>11. OneCorePerStack' /\ QueuesInv'
  BY <1>3 DEF SafeInv, OneCorePerStack, QueuesInv
<1>12. HandsInv'
  BY <1>3, <1>4, <1>9 DEF SafeInv, HandsInv, Holding, Chosen
<1>13. ZombieInv'
  <2>1. \A l \in Ctx : pc'[l] = "delete" => ~flag'[nxt[l]]
    <3> SUFFICES ASSUME NEW l \in Ctx, pc'[l] = "delete" PROVE ~flag'[nxt[l]]
      OBVIOUS
    <3>1. l # k /\ pc[l] = "delete"
      BY <1>4
    <3>2. nxt[l] \in Thread /\ nxt[l] # n
      BY <3>1, <1>6, HandFacts DEF Holding, Reaping
    <3> QED
      BY <3>1, <3>2, <1>8 DEF SafeInv, ZombieInv
  <2>2. \A l \in Ctx : pc'[l] \in Reaping <=> pc[l] \in Reaping
    BY <1>4 DEF Reaping
  <2> QED
    BY <2>1, <2>2, <1>3, <1>9 DEF SafeInv, ZombieInv
<1>14. ChosenInv'
  <2> SUFFICES ASSUME NEW l \in Ctx, pc'[l] \in Chosen
               PROVE  /\ ~Running(nxt[l])
                      /\ \A u \in Thread : prev[u] # nxt[l]
                      /\ flag'[nxt[l]] <=> pc'[l] # "claim"
    BY <1>3, <1>10 DEF ChosenInv
  <2>1. CASE l = k
    BY <2>1, <1>4, <1>5, <1>7, <1>8
  <2>2. CASE l # k
    <3>1. pc'[l] = pc[l] /\ nxt[l] \in Thread /\ nxt[l] # n
      BY <2>2, <1>4, <1>6, HandFacts DEF Holding
    <3> QED
      BY <3>1, <1>8 DEF SafeInv, ChosenInv
  <2> QED
    BY <2>1, <2>2
<1>15. \A l \in Ctx : pc'[l] = pc[l] \/ (pc[l] = "claim" /\ pc'[l] = "activate")
  BY <1>4
<1>16. PrevInv'
  <2> SUFFICES ASSUME NEW u \in Thread, prev[u] # None
               PROVE  /\ Running(u) /\ Switching(u)'
                      /\ ~Running(prev[u]) /\ flag'[prev[u]]
                      /\ pc'[<<prev[u], 0>>] # "free"
    BY <1>3, <1>10 DEF SafeInv, PrevInv
  <2>1. /\ Running(u) /\ Switching(u)
        /\ ~Running(prev[u]) /\ flag[prev[u]] /\ pc[<<prev[u], 0>>] # "free"
        /\ prev[u] \in Thread
    BY <1>1 DEF SafeInv, PrevInv, TypeOK
  <2>2. Switching(u)'
    BY <2>1, <1>15, CtxFacts DEF Switching, Away
  <2>3. pc'[<<prev[u], 0>>] # "free"
    BY <2>1, <1>15, CtxFacts
  <2> QED
    BY <2>1, <2>2, <2>3, <1>8
<1>17. \A u \in Thread : ThreadInv(u)'
  <2> SUFFICES ASSUME NEW u \in Thread PROVE ThreadInv(u)'
    OBVIOUS
  <2>1. ThreadInv(u) /\ (flag[u] => flag'[u])
    BY <1>8 DEF SafeInv
  <2>2. /\ pc'[<<u, 0>>] = pc[<<u, 0>>]
           \/ (pc[<<u, 0>>] = "claim" /\ pc'[<<u, 0>>] = "activate")
        /\ pc'[<<u, 1>>] = pc[<<u, 1>>]
           \/ (pc[<<u, 1>>] = "claim" /\ pc'[<<u, 1>>] = "activate")
    BY <1>15, CtxFacts
  <2> QED
    BY <2>1, <2>2, <1>3, <1>10
       DEF ThreadInv, LevelsAt, StackAt, FlagAt, HeldAt, MeAt, Switching,
           Suspending, Calm, Queued, Flagged, Away, Window
<1>18. \A d \in Core : CoreInv(d)'
  <2> SUFFICES ASSUME NEW d \in Core PROVE CoreInv(d)'
    OBVIOUS
  <2>1. CoreInv(d) /\ <<sp[d], 0>> \in Ctx /\ <<sp[d], 1>> \in Ctx
    BY <1>1, CtxFacts DEF SafeInv, TypeOK
  <2> QED
    BY <2>1, <1>3, <1>15 DEF CoreInv, Window
<1>19. TypeOK'
  BY <1>1, <1>3 DEF TypeOK, Claim, Goto, cpu, mem, Label
<1> QED
  BY <1>11, <1>12, <1>13, <1>14, <1>16, <1>17, <1>18, <1>19 DEF SafeInv

\* contextSwitch clears the flag of the thread it came from.
LEMMA ReleasePrevStep ==
  ASSUME SafeInv, KThreadsAssumption, NEW c \in Core, NEW t \in Thread, t = sp[c],
         NEW p, p = prev[t], ReleasePrev(c)
  PROVE  SafeInv'
<1>1. TypeOK /\ p # None
  BY DEF SafeInv, ReleasePrev
<1>2. /\ p \in Thread /\ Running(t) /\ ~Running(p) /\ flag[p]
      /\ pc[<<p, 0>>] # "free"
      /\ \A u \in Thread : u # t => prev[u] # p
  BY <1>1 DEF TypeOK, SafeInv, PrevInv
<1>3. /\ UNCHANGED <<sp, active, intr, pc, me, nxt, context, queue, stopped>>
      /\ flag' = [flag EXCEPT ![p] = FALSE]
      /\ prev' = [prev EXCEPT ![t] = None]
  BY DEF ReleasePrev, cpu
<1>4. /\ flag'[p] = FALSE /\ \A u \in Thread : u # p => flag'[u] = flag[u]
      /\ prev'[t] = None /\ \A u \in Thread : u # t => prev'[u] = prev[u]
  BY <1>1, <1>2, <1>3 DEF TypeOK
<1>5. \A u : (Running(u)' <=> Running(u)) /\ (Held(u)' <=> Held(u))
             /\ \A q : InQueue(q, u)' <=> InQueue(q, u)
  BY <1>3 DEF Running, Held, InQueue
<1>6. OneCorePerStack' /\ QueuesInv' /\ HandsInv'
  <2>1. OneCorePerStack' /\ QueuesInv'
    BY <1>3 DEF SafeInv, OneCorePerStack, QueuesInv
  <2>2. HandsInv'
    BY <1>3, <1>5 DEF SafeInv, HandsInv
  <2> QED
    BY <2>1, <2>2
<1>7. ZombieInv'
  <2>1. \A l \in Ctx : pc[l] = "delete" => ~flag'[nxt[l]]
    <3> SUFFICES ASSUME NEW l \in Ctx, pc[l] = "delete" PROVE ~flag'[nxt[l]]
      OBVIOUS
    <3>1. nxt[l] \in Thread
      BY HandFacts DEF Holding, Reaping
    <3> QED
      BY <3>1, <1>4 DEF SafeInv, ZombieInv
  <2> QED
    BY <2>1, <1>3, <1>5 DEF SafeInv, ZombieInv
<1>8. ChosenInv'
  <2> SUFFICES ASSUME NEW l \in Ctx, pc[l] \in Chosen
               PROVE  /\ ~Running(nxt[l])
                      /\ \A u \in Thread : prev'[u] # nxt[l]
                      /\ flag'[nxt[l]] <=> pc[l] # "claim"
    BY <1>3, <1>5 DEF ChosenInv
  <2>1. nxt[l] \in Thread /\ nxt[l] # None
    BY HandFacts DEF Holding
  <2>2. /\ ~Running(nxt[l])
        /\ \A u \in Thread : prev[u] # nxt[l]
        /\ flag[nxt[l]] <=> pc[l] # "claim"
    BY DEF SafeInv, ChosenInv
  <2> QED
    BY <2>1, <2>2, <1>4
<1>9. PrevInv'
  <2>1. ASSUME NEW u \in Thread, prev'[u] # None
        PROVE  /\ Running(u) /\ Switching(u)
               /\ ~Running(prev'[u]) /\ flag'[prev'[u]]
               /\ pc[<<prev'[u], 0>>] # "free"
    <3>1. u # t /\ prev'[u] = prev[u] /\ prev[u] # p /\ prev[u] \in Thread
      BY <2>1, <1>1, <1>2, <1>4 DEF TypeOK
    <3> QED
      BY <2>1, <3>1, <1>4 DEF SafeInv, PrevInv
  <2>2. \A u, v \in Thread : prev'[u] # None /\ prev'[u] = prev'[v] => u = v
    BY <1>4 DEF SafeInv, PrevInv
  <2>3. \A u : Switching(u)' <=> Switching(u)
    BY <1>3 DEF Switching
  <2> QED
    BY <2>1, <2>2, <2>3, <1>3, <1>5 DEF PrevInv
<1>10. \A u \in Thread : ThreadInv(u)'
  <2> SUFFICES ASSUME NEW u \in Thread PROVE ThreadInv(u)'
    OBVIOUS
  <2>1. ThreadInv(u)
    BY DEF SafeInv
  <2>2. LevelsAt(u)' /\ StackAt(u)' /\ HeldAt(u)' /\ MeAt(u)'
    BY <2>1, <1>3, <1>5 DEF ThreadInv, LevelsAt, StackAt, HeldAt, MeAt
  <2>3. FlagAt(u)'
    <3>1. CASE u # p
      BY <2>1, <3>1, <1>3, <1>4, <1>5 DEF ThreadInv, FlagAt, Switching
    <3>2. CASE u = p
      <4>1. ~(pc[<<u, 0>>] \in Flagged \/ pc[<<u, 1>>] \in Flagged)
        BY <2>1, <3>2, <1>2
           DEF ThreadInv, StackAt, LevelsAt, Flagged, Queued, Calm, Away, Suspending
      <4> QED
        BY <4>1, <3>2, <1>2, <1>3, <1>5 DEF FlagAt
    <3> QED
      BY <3>1, <3>2
  <2> QED
    BY <2>2, <2>3 DEF ThreadInv
<1>11. \A d \in Core : CoreInv(d)'
  BY <1>3 DEF SafeInv, CoreInv
<1>12. TypeOK'
  BY <1>1, <1>3 DEF TypeOK, ReleasePrev, cpu
<1> QED
  BY <1>6, <1>7, <1>8, <1>9, <1>10, <1>11, <1>12 DEF SafeInv

\* The core leaves one stack for another.
LEMMA LoadStep ==
  ASSUME SafeInv, KThreadsAssumption, NEW c \in Core, NEW t \in Thread, t = sp[c],
         NEW k, k = Here(c), NEW n, n = nxt[k], Load(c)
  PROVE  SafeInv'
<1>1. TypeOK /\ k \in Ctx /\ ThreadInv(t) /\ CoreInv(c)
  BY HereFacts DEF SafeInv
<1>2. Moves(c, "load", "off")
  BY <1>1, Moved DEF Load
<1>3. pc[k] = "load" /\ pc'[k] = "off" /\ \A l \in Ctx : l # k => pc'[l] = pc[l]
  BY <1>2 DEF Moves
<1>4. /\ n \in Thread /\ n # None
      /\ \A l \in Ctx : l # k => nxt[l] # n
      /\ \A q \in Queue : ~InQueue(q, n)
      /\ pc[<<n, 0>>] # "free"
  BY <1>1, <1>3, HandFacts DEF Holding, Chosen
<1>5. ~Running(n) /\ flag[n] /\ \A u \in Thread : prev[u] # n
  BY <1>1, <1>3 DEF SafeInv, ChosenInv, Chosen
<1>6. Running(t) /\ n # t /\ n \notin stopped
  BY <1>1, <1>3, <1>5 DEF Running, SafeInv, ZombieInv, Reaping
<1>7. /\ UNCHANGED <<active, flag, queue, stopped>>
      /\ Assigns(c, me, me', None) /\ Assigns(c, nxt, nxt', None)
      /\ Hands(k, "off", None)
      /\ sp' = [sp EXCEPT ![c] = n]
      /\ context' = [context EXCEPT ![n] = "stale"]
      /\ intr'[c] <=> context[n] = "on"
      /\ \A d \in Core : d # c => intr'[d] = intr[d]
  BY <1>1, <1>3, Assigned DEF Load, TypeOK, Hands
<1>8. me[k] = t
  BY <1>1, <1>2 DEF ThreadInv, MeAt, Moves, Flagged, Queued
<1>9. /\ sp'[c] = n /\ \A d \in Core : d # c => sp'[d] = sp[d]
      /\ context'[n] = "stale" /\ \A u \in Thread : u # n => context'[u] = context[u]
      /\ prev'[n] = t /\ \A u \in Thread : u # n => prev'[u] = prev[u]
  BY <1>1, <1>4, <1>7, <1>8 DEF TypeOK, Load
<1>10. \A u \in Thread : Running(u)' <=> (Running(u) /\ u # t) \/ u = n
  BY <1>9 DEF Running, SafeInv, OneCorePerStack
<1>11. /\ QueuesInv' /\ HandsInv' /\ ZombieInv'
       /\ \A u \in Thread : Held(u)' <=> Held(u) /\ u # n
  BY <1>1, <1>3, <1>7, DropHand DEF Holding, Chosen, Reaping
<1>12. OneCorePerStack'
  BY <1>5, <1>9 DEF Running, SafeInv, OneCorePerStack
<1>13. /\ pc[<<n, 1>>] = "off" \/ (pc[<<n, 1>>] = "none" /\ pc[<<n, 0>>] \in Away)
       /\ context[n] # "stale"
       /\ context[n] = "off" <=> pc[<<n, 1>>] \in {"load", "off"}
       /\ pc[<<n, 1>>] = "off" => pc[<<n, 0>>] \in Calm
       /\ ThreadInv(n)
  BY <1>4, <1>5 DEF SafeInv, ThreadInv, StackAt, LevelsAt, Suspending
<1>14. /\ pc'[<<n, 0>>] = pc[<<n, 0>>] /\ pc'[<<n, 1>>] = pc[<<n, 1>>]
       /\ me'[<<n, 0>>] = me[<<n, 0>>] /\ me'[<<n, 1>>] = me[<<n, 1>>]
  BY <1>2, <1>4, <1>6, <1>7 DEF Moves, Assigns
<1>15. ThreadInv(n)'
  BY <1>4, <1>5, <1>6, <1>7, <1>9, <1>10, <1>11, <1>13, <1>14
     DEF ThreadInv, LevelsAt, StackAt, FlagAt, HeldAt, MeAt, Switching, Suspending,
         Calm, Queued, Flagged, Away, Window
<1>16. ThreadInv(t)'
  BY <1>1, <1>2, <1>6, <1>7, <1>9, <1>10, <1>11
     DEF ThreadInv, LevelsAt, StackAt, FlagAt, HeldAt, MeAt, Switching, Moves,
         Assigns, Suspending, Calm, Queued, Flagged, Away, Window
<1>17. ASSUME NEW u \in Thread, u # t, u # n
       PROVE  ThreadInv(u)'
  <2>1. ThreadInv(u)
    BY DEF SafeInv
  <2>2. /\ pc'[<<u, 0>>] = pc[<<u, 0>>] /\ pc'[<<u, 1>>] = pc[<<u, 1>>]
        /\ me'[<<u, 0>>] = me[<<u, 0>>] /\ me'[<<u, 1>>] = me[<<u, 1>>]
        /\ nxt'[<<u, 0>>] = nxt[<<u, 0>>]
    BY <1>2, <1>7, <1>17 DEF Moves, Assigns
  <2>3. /\ Running(u)' <=> Running(u)
        /\ Held(u)' <=> Held(u)
        /\ context'[u] = context[u]
    BY <1>9, <1>10, <1>11, <1>17
  <2> QED
    BY <2>1, <2>2, <2>3, <1>7
       DEF ThreadInv, LevelsAt, StackAt, FlagAt, HeldAt, MeAt, Switching
<1>18. ~Switching(t)
  BY <1>1, <1>2
     DEF Switching, Moves, ThreadInv, LevelsAt, Calm, Away, Suspending, Queued
<1>19. ChosenInv'
  <2> SUFFICES ASSUME NEW l \in Ctx, pc'[l] \in Chosen
               PROVE  /\ ~Running(nxt[l])'
                      /\ \A u \in Thread : prev'[u] # nxt'[l]
                      /\ flag[nxt'[l]] <=> pc'[l] # "claim"
    BY <1>7 DEF ChosenInv
  <2>1. l # k /\ pc'[l] = pc[l] /\ nxt'[l] = nxt[l]
    BY <1>3, <1>7 DEF Chosen, Hands
  <2>2. nxt[l] \in Thread /\ nxt[l] # n
    BY <2>1, <1>4, HandFacts DEF Holding
  <2>3. /\ ~Running(nxt[l])
        /\ \A u \in Thread : prev[u] # nxt[l]
        /\ flag[nxt[l]] <=> pc[l] # "claim"
    BY <2>1 DEF SafeInv, ChosenInv
  <2>4. nxt[l] # t
    BY <2>3, <1>6
  <2> QED
    BY <2>1, <2>2, <2>3, <2>4, <1>9, <1>10
<1>20. PrevInv'
  <2>1. flag[t] /\ pc'[<<t, 0>>] # "free"
    BY <1>1, <1>2, <1>6 DEF ThreadInv, FlagAt, StackAt, Moves, Flagged, Queued
  <2>2. Switching(n)'
    BY <1>13, <1>14 DEF Switching
  <2>3. ASSUME NEW u \in Thread, u # n, prev[u] # None
        PROVE  /\ Running(u) /\ Switching(u)' /\ u # t
               /\ ~Running(prev[u]) /\ prev[u] # n /\ prev[u] # t /\ flag[prev[u]]
               /\ pc'[<<prev[u], 0>>] # "free" /\ prev[u] \in Thread
    <3>1. /\ Running(u) /\ Switching(u) /\ ~Running(prev[u]) /\ flag[prev[u]]
          /\ pc[<<prev[u], 0>>] # "free" /\ prev[u] \in Thread
      BY <2>3, <1>1 DEF SafeInv, PrevInv, TypeOK
    <3>2. u # t /\ prev[u] # t /\ prev[u] # n
      BY <3>1, <1>5, <1>6, <1>18
    <3>3. Switching(u)' /\ pc'[<<prev[u], 0>>] # "free"
      BY <3>1, <3>2, <1>2 DEF Switching, Moves
    <3> QED
      BY <3>1, <3>2, <3>3
  <2>4. ASSUME NEW u \in Thread, prev'[u] # None
        PROVE  /\ Running(u)' /\ Switching(u)'
               /\ ~Running(prev[u])' /\ flag[prev'[u]]
               /\ pc'[<<prev'[u], 0>>] # "free"
    <3>1. CASE u = n
      BY <3>1, <2>1, <2>2, <1>4, <1>6, <1>9, <1>10
    <3>2. CASE u # n
      BY <2>4, <3>2, <2>3, <1>9, <1>10
    <3> QED
      BY <3>1, <3>2
  <2>5. ASSUME NEW u \in Thread, NEW v \in Thread, prev'[u] # None, prev'[u] = prev'[v]
        PROVE  u = v
    <3>a. \A w \in Thread : w # n => prev'[w] # t
      <4> SUFFICES ASSUME NEW w \in Thread, w # n, prev'[w] = t PROVE FALSE
        OBVIOUS
      <4>1. prev[w] = t /\ prev[w] # None
        BY <2>5, <1>9, <1>1 DEF KThreadsAssumption, Thread
      <4> QED
        BY <4>1, <2>3
    <3>1. CASE u = n \/ v = n
      BY <2>5, <3>a, <3>1, <1>9
    <3>2. CASE u # n /\ v # n
      BY <2>5, <3>2, <1>9 DEF SafeInv, PrevInv
    <3> QED
      BY <3>1, <3>2
  <2> QED
    BY <2>4, <2>5, <1>7 DEF PrevInv
<1>21. CoreInv(c)'
  <2>1. active[c] = n
    BY <1>1, <1>2 DEF CoreInv, Moves, Window
  <2>2. pc'[<<n, 0>>] \notin Window /\ pc'[<<n, 1>>] \notin Window /\ pc'[<<n, 0>>] # "boot"
    BY <1>13, <1>14 DEF Window, Away, Calm
  <2>3. intr'[c] <=> pc'[<<n, 1>>] = "none"
    <3>1. context[n] \in {"on", "off", "stale"}
      BY <1>1, <1>4 DEF TypeOK
    <3> QED
      BY <3>1, <1>7, <1>13, <1>14
  <2> QED
    BY <2>1, <2>2, <2>3, <1>7, <1>9 DEF CoreInv
<1>22. \A d \in Core : d # c => CoreInv(d)'
  <2> SUFFICES ASSUME NEW d \in Core, d # c PROVE CoreInv(d)'
    OBVIOUS
  <2>1. CoreInv(d) /\ sp[d] # t /\ sp[d] \in Thread
    BY <1>1 DEF SafeInv, OneCorePerStack, TypeOK
  <2> QED
    BY <2>1, <1>2, <1>7, <1>9 DEF CoreInv, Moves, Assigns
<1>23. TypeOK'
  <2>1. pc' \in [Ctx -> Label] /\ me' \in [Ctx -> Thread \cup {None}]
        /\ nxt' \in [Ctx -> Thread \cup {None}]
    BY <1>1 DEF TypeOK, Load, Goto, Label
  <2>2. /\ sp' \in [Core -> Thread] /\ intr' \in [Core -> BOOLEAN]
        /\ context' \in [Thread -> {"on", "off", "stale"}]
        /\ prev' \in [Thread -> Thread \cup {None}]
    BY <1>1, <1>4, <1>8 DEF TypeOK, Load
  <2> QED
    BY <1>1, <2>1, <2>2 DEF TypeOK, Load
<1> QED
  BY <1>11, <1>12, <1>15, <1>16, <1>17, <1>19, <1>20, <1>21, <1>22, <1>23 DEF SafeInv

\* delete of a stopped thread that is off its core.
LEMMA DeleteStep ==
  ASSUME SafeInv, KThreadsAssumption, NEW c \in Core, NEW t \in Thread, t = sp[c],
         NEW k, k = Here(c), NEW z, z = nxt[k], Delete(c)
  PROVE  SafeInv'
<1>1. TypeOK /\ k \in Ctx /\ ThreadInv(t) /\ CoreInv(c)
  BY HereFacts DEF SafeInv
<1>2. pc[k] = "delete"
  BY DEF Delete, At
<1>3. k = <<t, 0>> /\ pc[<<t, 1>>] = "none"
  BY <1>1, <1>2, HereFacts DEF ThreadInv, LevelsAt, Suspending, Queued
<1>4. /\ z \in Thread /\ Held(z) /\ z # None
      /\ \A l \in Ctx : l # k => nxt[l] # z
      /\ \A q \in Queue : ~InQueue(q, z)
  BY <1>1, <1>2, HandFacts DEF Holding, Reaping
<1>5. z \in stopped /\ ~flag[z]
  BY <1>1, <1>2 DEF SafeInv, ZombieInv, Reaping
<1>6. ~Running(z) /\ Running(t) /\ z # t
  BY <1>4, <1>5, RunningHeld DEF Running
<1>7. /\ UNCHANGED <<sp, active, intr, me, prev, flag, queue>>
      /\ pc' = [pc EXCEPT ![k] = "reap", ![<<z, 0>>] = "free"]
      /\ nxt' = [nxt EXCEPT ![k] = None]
      /\ context' = [context EXCEPT ![z] = "stale"]
      /\ stopped' = stopped \ {z}
  BY DEF Delete, cpu
<1>8. ThreadInv(z)
  BY <1>4 DEF SafeInv
<1>9. pc[<<z, 0>>] = "off" /\ pc[<<z, 1>>] = "none"
  BY <1>4, <1>5, <1>6, <1>8 DEF ThreadInv, StackAt, HeldAt, LevelsAt, Away, Queued
<1>10. <<z, 0>> \in Ctx /\ <<z, 0>> # k
  BY <1>2, <1>4, <1>9, CtxFacts
<1>11. /\ pc'[k] = "reap" /\ pc'[<<z, 0>>] = "free"
       /\ nxt'[k] = None
       /\ \A l \in Ctx : l # k => nxt'[l] = nxt[l] /\ (l # <<z, 0>> => pc'[l] = pc[l])
  BY <1>1, <1>7, <1>10 DEF TypeOK
<1>12. context'[z] = "stale" /\ \A u \in Thread : u # z => context'[u] = context[u]
  BY <1>1, <1>4, <1>7 DEF TypeOK
<1>13. \A q, u : InQueue(q, u)' <=> InQueue(q, u)
  BY <1>7 DEF InQueue
<1>14. \A u : Running(u)' <=> Running(u)
  BY <1>7 DEF Running
<1>15. None \notin Thread /\ stopped \subseteq Thread
  BY <1>1 DEF KThreadsAssumption, Thread, TypeOK
<1>16. \A u \in Thread : Held(u)' <=> Held(u) /\ u # z
  <2> SUFFICES ASSUME NEW u \in Thread PROVE Held(u)' <=> Held(u) /\ u # z
    OBVIOUS
  <2>1. (\E l \in Ctx : nxt'[l] = u) <=> u # z /\ \E l \in Ctx : nxt[l] = u
    BY <1>1, <1>4, <1>11, <1>15
  <2> QED
    BY <2>1, <1>4, <1>13 DEF Held
<1>17. /\ \A l \in Ctx : pc'[l] \in Holding <=> pc[l] \in Holding /\ l # k
       /\ \A l \in Ctx : pc'[l] \in Reaping <=> pc[l] \in Reaping /\ l # k
       /\ \A l \in Ctx : pc'[l] \in Chosen \/ pc'[l] = "delete" => pc'[l] = pc[l] /\ l # k
  BY <1>9, <1>11 DEF Holding, Reaping, Chosen
<1>18. OneCorePerStack' /\ QueuesInv'
  BY <1>7 DEF SafeInv, OneCorePerStack, QueuesInv
<1>19. HandsInv'
  <2>1. \A l \in Ctx : nxt'[l] # None <=> pc'[l] \in Holding
    BY <1>11, <1>17 DEF SafeInv, HandsInv
  <2>2. \A l \in Ctx : nxt'[l] # None => l # k /\ nxt'[l] = nxt[l]
    BY <1>11
  <2>3. ASSUME NEW l \in Ctx, nxt'[l] # None, NEW q \in Queue
        PROVE  ~InQueue(q, nxt[l])'
    BY <2>2, <2>3, <1>13 DEF SafeInv, HandsInv
  <2>4. \A l, m \in Ctx : nxt'[l] # None /\ nxt'[l] = nxt'[m] => l = m
    BY <2>2 DEF SafeInv, HandsInv
  <2> QED
    BY <2>1, <2>3, <2>4 DEF HandsInv
<1>20. ZombieInv'
  <2>1. \A l \in Ctx : nxt'[l] \in stopped' <=> pc'[l] \in Reaping
    <3> SUFFICES ASSUME NEW l \in Ctx PROVE nxt'[l] \in stopped' <=> pc'[l] \in Reaping
      OBVIOUS
    <3>1. CASE l = k
      <4>1. None \notin stopped'
        BY <1>7, <1>15
      <4>2. nxt'[k] = None /\ pc'[k] \notin Reaping
        BY <1>11 DEF Reaping
      <4> QED
        BY <3>1, <4>1, <4>2
    <3>2. CASE l # k
      <4>1. nxt'[l] = nxt[l] /\ nxt[l] # z /\ (pc'[l] \in Reaping <=> pc[l] \in Reaping)
        BY <3>2, <1>4, <1>11, <1>17
      <4> QED
        BY <4>1, <1>7 DEF SafeInv, ZombieInv
    <3> QED
      BY <3>1, <3>2
  <2>2. \A l \in Ctx : pc'[l] = "delete" => ~flag[nxt'[l]]
    BY <1>11, <1>17 DEF SafeInv, ZombieInv
  <2>3. \A u \in stopped' : \A q \in Queue : InQueue(q, u)' => q = "zombie"
    BY <1>7, <1>13 DEF SafeInv, ZombieInv
  <2>4. "zombie" \in Queue
    BY DEF Queue
  <2>5. \A u \in Thread : InQueue("zombie", u)' => u \in stopped'
    BY <2>4, <1>4, <1>7, <1>13 DEF SafeInv, ZombieInv
  <2> QED
    BY <2>1, <2>2, <2>3, <2>5, <1>7 DEF ZombieInv
<1>21. ChosenInv'
  <2> SUFFICES ASSUME NEW l \in Ctx, pc'[l] \in Chosen
               PROVE  /\ ~Running(nxt'[l])
                      /\ \A u \in Thread : prev[u] # nxt'[l]
                      /\ flag[nxt'[l]] <=> pc'[l] # "claim"
    BY <1>7, <1>14 DEF ChosenInv
  <2>1. pc'[l] = pc[l] /\ nxt'[l] = nxt[l]
    BY <1>11, <1>17
  <2> QED
    BY <2>1 DEF SafeInv, ChosenInv
<1>22. ASSUME NEW u \in Thread, u # z, u # t
       PROVE  /\ pc'[<<u, 0>>] = pc[<<u, 0>>] /\ pc'[<<u, 1>>] = pc[<<u, 1>>]
              /\ nxt'[<<u, 0>>] = nxt[<<u, 0>>] /\ nxt'[<<u, 1>>] = nxt[<<u, 1>>]
  BY <1>3, <1>4, <1>11, <1>22, CtxFacts
<1>23. /\ pc'[<<t, 0>>] = "reap" /\ pc'[<<t, 1>>] = "none" /\ pc[<<t, 0>>] = "delete"
       /\ pc'[<<z, 0>>] = "free" /\ pc'[<<z, 1>>] = "none"
  BY <1>2, <1>3, <1>4, <1>9, <1>11, CtxFacts
<1>24. PrevInv'
  <2>1. ASSUME NEW u \in Thread, prev[u] # None
        PROVE  /\ Running(u) /\ Switching(u)'
               /\ ~Running(prev[u]) /\ flag[prev[u]]
               /\ pc'[<<prev[u], 0>>] # "free"
    <3>1. /\ Running(u) /\ Switching(u) /\ ~Running(prev[u]) /\ flag[prev[u]]
          /\ pc[<<prev[u], 0>>] # "free" /\ prev[u] \in Thread
      BY <2>1, <1>1 DEF SafeInv, PrevInv, TypeOK
    <3>2. u # z /\ prev[u] # z /\ prev[u] # t /\ u # t
      BY <3>1, <1>5, <1>6, <1>3, <1>23 DEF Switching, Away
    <3> QED
      BY <3>1, <3>2, <1>22 DEF Switching
  <2> QED
    BY <2>1, <1>7, <1>14 DEF SafeInv, PrevInv
<1>25. \A u \in Thread : ThreadInv(u)'
  <2>1. ThreadInv(z)'
    BY <1>4, <1>6, <1>7, <1>8, <1>9, <1>12, <1>14, <1>16, <1>23
       DEF ThreadInv, LevelsAt, StackAt, FlagAt, HeldAt, MeAt, Switching,
           Suspending, Calm, Queued, Flagged, Away, Window
  <2>2. ThreadInv(t)'
    BY <1>1, <1>3, <1>6, <1>7, <1>12, <1>14, <1>16, <1>23
       DEF ThreadInv, LevelsAt, StackAt, FlagAt, HeldAt, MeAt, Switching,
           Suspending, Calm, Queued, Flagged, Away, Window
  <2>3. ASSUME NEW u \in Thread, u # z, u # t
        PROVE  ThreadInv(u)'
    <3>1. ThreadInv(u)
      BY DEF SafeInv
    <3> QED
      BY ZenonT(60), <2>3, <3>1, <1>7, <1>12, <1>14, <1>16, <1>22
         DEF ThreadInv, LevelsAt, StackAt, FlagAt, HeldAt, MeAt, Switching
  <2> QED
    BY <2>1, <2>2, <2>3
<1>26. \A d \in Core : CoreInv(d)'
  <2>1. CoreInv(c)'
    BY <1>1, <1>3, <1>7, <1>23 DEF CoreInv, Window
  <2>2. ASSUME NEW d \in Core, d # c
        PROVE  CoreInv(d)'
    <3>1. CoreInv(d) /\ sp[d] # t /\ sp[d] # z /\ sp[d] \in Thread
      BY <2>2, <1>1, <1>6 DEF SafeInv, OneCorePerStack, TypeOK, Running
    <3> QED
      BY ZenonT(60), <3>1, <1>7, <1>22 DEF CoreInv
  <2> QED
    BY <2>1, <2>2
<1>27. TypeOK'
  <2>1. pc' \in [Ctx -> Label] /\ nxt' \in [Ctx -> Thread \cup {None}]
    BY <1>1, <1>7 DEF TypeOK, Label
  <2>2. context' \in [Thread -> {"on", "off", "stale"}] /\ stopped' \in SUBSET Thread
    BY <1>1, <1>7 DEF TypeOK
  <2> QED
    BY <1>1, <2>1, <2>2 DEF TypeOK, Delete, cpu
<1> QED
  BY <1>18, <1>19, <1>20, <1>21, <1>24, <1>25, <1>26, <1>27 DEF SafeInv

\* A free block becomes a thread.
LEMMA SpawnStep ==
  ASSUME SafeInv, KThreadsAssumption, NEW c \in Core, NEW t \in Thread, t = sp[c],
         NEW k, k = Here(c), Spawn(c)
  PROVE  SafeInv'
<1>1. TypeOK /\ k \in Ctx /\ ThreadInv(t) /\ CoreInv(c) /\ Running(t)
  BY HereFacts DEF SafeInv, Running
<1>2. pc[k] = "spawn"
  BY DEF Spawn, At
<1>3. k = <<t, 0>> /\ pc[<<t, 1>>] = "none"
  BY <1>1, <1>2, HereFacts DEF ThreadInv, LevelsAt, Suspending, Queued
<1>4. PICK z \in User :
        /\ pc[<<z, 0>>] = "free"
        /\ pc' = [pc EXCEPT ![k] = "schedule", ![<<z, 0>>] = "born"]
        /\ nxt' = [nxt EXCEPT ![k] = z]
        /\ flag' = [flag EXCEPT ![z] = FALSE]
        /\ context' = [context EXCEPT ![z] = "on"]
  BY DEF Spawn
<1>5. UNCHANGED <<sp, active, intr, me, prev, queue, stopped>>
  BY DEF Spawn, cpu
<1>6. /\ z \in Thread /\ None \notin Thread /\ stopped \subseteq Thread
      /\ \A l \in Ctx : nxt[l] \in Thread \cup {None}
  BY <1>1 DEF KThreadsAssumption, Thread, TypeOK
<1>7. ThreadInv(z)
  BY <1>6 DEF SafeInv
<1>8. /\ ~Running(z) /\ ~Held(z) /\ z \notin stopped /\ z # t
      /\ pc[<<z, 1>>] = "none"
  BY <1>1, <1>4, <1>7 DEF ThreadInv, StackAt, HeldAt, LevelsAt, Queued, Suspending
<1>9. /\ \A q \in Queue : ~InQueue(q, z)
      /\ \A l \in Ctx : nxt[l] # z
  BY <1>8 DEF Held
<1>10. <<z, 0>> \in Ctx /\ <<z, 0>> # k
  BY <1>2, <1>4, <1>6, CtxFacts
<1>11. /\ pc'[k] = "schedule" /\ pc'[<<z, 0>>] = "born"
       /\ nxt'[k] = z
       /\ \A l \in Ctx : l # k => nxt'[l] = nxt[l] /\ (l # <<z, 0>> => pc'[l] = pc[l])
  BY <1>1, <1>4, <1>10 DEF TypeOK
<1>12. /\ context'[z] = "on" /\ \A u \in Thread : u # z => context'[u] = context[u]
       /\ flag'[z] = FALSE /\ \A u \in Thread : u # z => flag'[u] = flag[u]
  BY <1>1, <1>4, <1>6 DEF TypeOK
<1>13. \A q, u : InQueue(q, u)' <=> InQueue(q, u)
  BY <1>5 DEF InQueue
<1>14. \A u : Running(u)' <=> Running(u)
  BY <1>5 DEF Running
<1>15. pc[k] \notin Holding /\ nxt[k] = None
  BY <1>1, <1>2 DEF SafeInv, HandsInv, Holding, Chosen, Reaping
<1>16. \A u \in Thread : Held(u)' <=> Held(u) \/ u = z
  <2> SUFFICES ASSUME NEW u \in Thread PROVE Held(u)' <=> Held(u) \/ u = z
    OBVIOUS
  <2>1. (\E l \in Ctx : nxt'[l] = u) <=> u = z \/ \E l \in Ctx : nxt[l] = u
    BY <1>1, <1>6, <1>11, <1>15
  <2> QED
    BY <2>1, <1>13 DEF Held
<1>17. /\ \A l \in Ctx : pc'[l] \in Holding <=> pc[l] \in Holding \/ l = k
       /\ \A l \in Ctx : pc'[l] \in Reaping <=> pc[l] \in Reaping
       /\ \A l \in Ctx : pc'[l] \in Chosen \/ pc'[l] = "delete" => pc'[l] = pc[l] /\ l # k
  BY <1>2, <1>4, <1>11 DEF Holding, Reaping, Chosen
<1>18. OneCorePerStack' /\ QueuesInv'
  BY <1>5 DEF SafeInv, OneCorePerStack, QueuesInv
<1>19. HandsInv'
  <2>1. \A l \in Ctx : nxt'[l] # None <=> pc'[l] \in Holding
    BY <1>6, <1>11, <1>17 DEF SafeInv, HandsInv
  <2>2. \A l \in Ctx : nxt'[l] = z \/ nxt'[l] = nxt[l]
    BY <1>11
  <2>3. ASSUME NEW l \in Ctx, nxt'[l] # None, NEW q \in Queue
        PROVE  ~InQueue(q, nxt[l])'
    <3>1. CASE nxt'[l] = z
      BY <3>1, <1>9, <1>13
    <3>2. CASE nxt'[l] = nxt[l]
      BY <3>2, <2>3, <1>13 DEF SafeInv, HandsInv
    <3> QED
      BY <3>1, <3>2, <2>2
  <2>4. \A l, m \in Ctx : nxt'[l] # None /\ nxt'[l] = nxt'[m] => l = m
    BY <1>9, <1>11 DEF SafeInv, HandsInv
  <2> QED
    BY <2>1, <2>3, <2>4 DEF HandsInv
<1>20. ZombieInv'
  <2>1. \A l \in Ctx : nxt'[l] \in stopped' <=> pc'[l] \in Reaping
    BY <1>2, <1>5, <1>8, <1>11, <1>17 DEF SafeInv, ZombieInv, Reaping
  <2>2. \A l \in Ctx : pc'[l] = "delete" => ~flag'[nxt'[l]]
    <3> SUFFICES ASSUME NEW l \in Ctx, pc'[l] = "delete" PROVE ~flag'[nxt'[l]]
      OBVIOUS
    <3>1. pc[l] = "delete" /\ l # k /\ nxt'[l] = nxt[l]
      BY <1>11, <1>17
    <3>2. nxt[l] \in Thread /\ nxt[l] # z
      BY <3>1, <1>9, HandFacts DEF Holding, Reaping
    <3> QED
      BY <3>1, <3>2, <1>12 DEF SafeInv, ZombieInv
  <2> QED
    BY <2>1, <2>2, <1>5, <1>13 DEF SafeInv, ZombieInv
<1>21. ChosenInv'
  <2> SUFFICES ASSUME NEW l \in Ctx, pc'[l] \in Chosen
               PROVE  /\ ~Running(nxt'[l])
                      /\ \A u \in Thread : prev[u] # nxt'[l]
                      /\ flag'[nxt'[l]] <=> pc'[l] # "claim"
    BY <1>5, <1>14 DEF ChosenInv
  <2>1. pc'[l] = pc[l] /\ nxt'[l] = nxt[l]
    BY <1>11, <1>17
  <2>2. nxt[l] \in Thread /\ nxt[l] # z
    BY <2>1, <1>9, HandFacts DEF Holding
  <2> QED
    BY <2>1, <2>2, <1>12 DEF SafeInv, ChosenInv
<1>22. ASSUME NEW u \in Thread, u # z, u # t
       PROVE  /\ pc'[<<u, 0>>] = pc[<<u, 0>>] /\ pc'[<<u, 1>>] = pc[<<u, 1>>]
              /\ nxt'[<<u, 0>>] = nxt[<<u, 0>>] /\ nxt'[<<u, 1>>] = nxt[<<u, 1>>]
  BY <1>3, <1>6, <1>11, <1>22, CtxFacts
<1>23. /\ pc'[<<t, 0>>] = "schedule" /\ pc'[<<t, 1>>] = "none" /\ pc[<<t, 0>>] = "spawn"
       /\ pc'[<<z, 0>>] = "born" /\ pc'[<<z, 1>>] = "none"
  BY <1>2, <1>3, <1>6, <1>8, <1>11, CtxFacts
<1>24. PrevInv'
  <2>1. ASSUME NEW u \in Thread, prev[u] # None
        PROVE  /\ Running(u) /\ Switching(u)'
               /\ ~Running(prev[u]) /\ flag'[prev[u]]
               /\ pc'[<<prev[u], 0>>] # "free"
    <3>1. /\ Running(u) /\ Switching(u) /\ ~Running(prev[u]) /\ flag[prev[u]]
          /\ pc[<<prev[u], 0>>] # "free" /\ prev[u] \in Thread
      BY <2>1, <1>1 DEF SafeInv, PrevInv, TypeOK
    <3>2. u # z /\ prev[u] # z /\ prev[u] # t /\ u # t
      BY <3>1, <1>1, <1>4, <1>8, <1>3, <1>23 DEF Switching, Away
    <3> QED
      BY <3>1, <3>2, <1>12, <1>22 DEF Switching
  <2> QED
    BY <2>1, <1>5, <1>14 DEF SafeInv, PrevInv
<1>25. \A u \in Thread : ThreadInv(u)'
  <2>1. ThreadInv(z)'
    BY <1>4, <1>5, <1>7, <1>8, <1>12, <1>14, <1>16, <1>23
       DEF ThreadInv, LevelsAt, StackAt, FlagAt, HeldAt, MeAt, Switching,
           Suspending, Calm, Queued, Flagged, Away, Window
  <2>2. ThreadInv(t)'
    BY <1>1, <1>3, <1>5, <1>8, <1>12, <1>14, <1>16, <1>23
       DEF ThreadInv, LevelsAt, StackAt, FlagAt, HeldAt, MeAt, Switching,
           Suspending, Calm, Queued, Flagged, Away, Window
  <2>3. ASSUME NEW u \in Thread, u # z, u # t
        PROVE  ThreadInv(u)'
    <3>1. ThreadInv(u)
      BY DEF SafeInv
    <3> QED
      BY <2>3, <3>1, <1>5, <1>12, <1>14, <1>16, <1>22
         DEF ThreadInv, LevelsAt, StackAt, FlagAt, HeldAt, MeAt, Switching
  <2> QED
    BY <2>1, <2>2, <2>3
<1>26. \A d \in Core : CoreInv(d)'
  <2>1. CoreInv(c)'
    BY <1>1, <1>3, <1>5, <1>23 DEF CoreInv, Window
  <2>2. ASSUME NEW d \in Core, d # c
        PROVE  CoreInv(d)'
    <3>1. CoreInv(d) /\ sp[d] # t /\ sp[d] # z /\ sp[d] \in Thread
      BY <2>2, <1>1, <1>8 DEF SafeInv, OneCorePerStack, TypeOK, Running
    <3> QED
      BY <3>1, <1>5, <1>22 DEF CoreInv
  <2> QED
    BY <2>1, <2>2
<1>27. TypeOK'
  <2>1. pc' \in [Ctx -> Label] /\ nxt' \in [Ctx -> Thread \cup {None}]
    BY <1>1, <1>4, <1>6 DEF TypeOK, Label
  <2>2. context' \in [Thread -> {"on", "off", "stale"}] /\ flag' \in [Thread -> BOOLEAN]
    BY <1>1, <1>4 DEF TypeOK
  <2> QED
    BY <1>1, <2>1, <2>2 DEF TypeOK, Spawn, cpu
<1> QED
  BY <1>18, <1>19, <1>20, <1>21, <1>24, <1>25, <1>26, <1>27 DEF SafeInv

-----------------------------------------------------------------------------
(* Nobody gets lost *)

\* Who is in a queue or a hand depends on the queues and the hands alone.
LEMMA HeldSame ==
  ASSUME queue' = queue, nxt' = nxt
  PROVE  \A u : Held(u)' <=> Held(u)
  BY DEF Held, InQueue

\* A step of one program counter loses nobody as long as who was in a queue or a
\* hand still is, or leaves block(), and who enters block() is in a queue.
LEMMA FoundAfter ==
  ASSUME SafeInv, NoneLost, NEW c \in Core, NEW a, NEW b, Moves(c, a, b),
         sp' = sp, stopped \subseteq stopped',
         \A u \in Thread : Held(u) /\ u \notin stopped' =>
           Held(u)' \/ (u = sp[c] /\ a \in Queued /\ b \notin Queued),
         b \in Queued => a \in Queued \/ Held(sp[c])' \/ sp[c] \in stopped'
  PROVE  NoneLost'
<1> SUFFICES ASSUME NEW u \in Thread, pc'[<<u, 0>>] # "free", u \notin stopped'
             PROVE  \/ Held(u)'
                    \/ /\ Running(u)'
                       /\ pc'[<<u, 0>>] \notin Queued /\ pc'[<<u, 1>>] \notin Queued
  BY DEF NoneLost
<1>1. u \notin stopped /\ (Running(u)' <=> Running(u))
  BY RunningSame
<1>2. CASE u # sp[c]
  <2>1. pc'[<<u, 0>>] = pc[<<u, 0>>] /\ pc'[<<u, 1>>] = pc[<<u, 1>>]
    BY <1>2 DEF Moves
  <2>2. Held(u) => Held(u)'
    BY <1>2
  <2> QED
    BY <1>1, <2>1, <2>2 DEF NoneLost
<1>3. CASE u = sp[c]
  <2>1. Running(u) /\ ThreadInv(u)
    BY <1>3, RunningSame DEF SafeInv, Running
  <2>2. pc[<<u, 0>>] # "free"
    BY <2>1 DEF ThreadInv, StackAt
  <2>3. \/ Held(u)
        \/ pc[<<u, 0>>] \notin Queued /\ pc[<<u, 1>>] \notin Queued
    BY <1>1, <2>2 DEF NoneLost
  <2>4. Held(u) => Held(u)' \/ (a \in Queued /\ b \notin Queued)
    BY <1>3
  <2>5. b \in Queued => a \in Queued \/ Held(u)'
    BY <1>3
  <2>6. CASE pc[<<u, 1>>] = "none"
    <3>1. /\ pc[<<u, 0>>] = a /\ pc'[<<u, 0>>] = b
          /\ pc'[<<u, 1>>] = "none" /\ "none" \notin Queued
      BY <1>3, <2>6 DEF Moves, Queued
    <3> QED
      BY <1>1, <2>1, <2>3, <2>4, <2>5, <3>1
  <2>7. CASE pc[<<u, 1>>] # "none"
    <3>1. /\ pc[<<u, 1>>] = a /\ pc'[<<u, 1>>] = b
          /\ pc'[<<u, 0>>] = pc[<<u, 0>>]
      BY <1>3, <2>7 DEF Moves
    <3>2. a \in Queued => pc[<<u, 0>>] \notin Queued
      BY <2>1, <3>1 DEF ThreadInv, LevelsAt, Suspending, Calm, Queued
    <3> QED
      BY <1>1, <2>1, <2>3, <2>4, <2>5, <3>1, <3>2
  <2> QED
    BY <2>6, <2>7
<1> QED
  BY <1>2, <1>3

\* A step that leaves the queues and the hands alone and does not enter block().
LEMMA StaysFound ==
  ASSUME SafeInv, NoneLost, NEW c \in Core, NEW a, NEW b,
         At(c, a), Goto(Here(c), b), b \in Queued => a \in Queued,
         UNCHANGED <<sp, nxt, queue, stopped>>
  PROVE  NoneLost'
<1>1. Moves(c, a, b)
  BY Moved DEF SafeInv
<1>2. \A u \in Thread : Held(u)' <=> Held(u)
  BY HeldSame
<1> QED
  BY <1>1, <1>2, FoundAfter

\* Steps that change no program counter, queue, hand or core.
LEMMA StillFound ==
  ASSUME NoneLost, UNCHANGED <<sp, pc, nxt, queue, stopped>>
  PROVE  NoneLost'
<1>1. \A u : (Held(u)' <=> Held(u)) /\ (Running(u)' <=> Running(u))
  BY HeldSame, RunningSame
<1> QED
  BY <1>1 DEF NoneLost

\* A step of a core that takes nobody out of a queue and puts nobody into one.
LEMMA QuietFound ==
  ASSUME SafeInv, NoneLost, NEW c \in Core,
         \/ Sti(c) \/ Arrive(c) \/ Yield(c) \/ CheckAlone(c) \/ SetAlone(c)
         \/ Stop(c) \/ Mark(c)
         \/ TestNext(c) \/ Claim(c) \/ Activate(c)
         \/ Save(c) \/ ReleaseCurr(c) \/ Entry(c)
  PROVE  NoneLost'
<1> USE DEF Queued
<1>1. CASE Sti(c)
  BY <1>1, StaysFound DEF Sti, mem
<1>2. CASE Arrive(c)
  BY <1>2, StaysFound DEF Arrive, cpu
<1>3. CASE Yield(c)
  <2>1. PICK a \in {"yield", "work"} : At(c, a)
    BY <1>3 DEF Yield, Enter
  <2> QED
    BY <1>3, <2>1, StaysFound DEF Yield, cpu, mem
<1>4. CASE CheckAlone(c)
  <2>1. PICK b \in {"none", "reap", "work", "set"} : Goto(Here(c), b)
    BY <1>4 DEF CheckAlone, Return
  <2> QED
    BY <1>4, <2>1, StaysFound DEF CheckAlone, mem
<1>5. CASE SetAlone(c)
  BY <1>5, StaysFound DEF SetAlone, cpu
<1>6. CASE Stop(c)
  <2>1. PICK a \in {"stop", "work"} : At(c, a)
    BY <1>6 DEF Stop, Enter
  <2> QED
    BY <1>6, <2>1, StaysFound DEF Stop, cpu, mem
<1>7. CASE Mark(c)
  BY <1>7, StaysFound DEF Mark, cpu
<1>8. CASE TestNext(c)
  BY <1>8, StaysFound DEF TestNext, cpu, mem
<1>9. CASE Claim(c)
  BY <1>9, StaysFound DEF Claim, cpu
<1>10. CASE Activate(c)
  BY <1>10, StaysFound DEF Activate, mem
<1>11. CASE Save(c)
  BY <1>11, StaysFound DEF Save, cpu
<1>12. CASE ReleaseCurr(c)
  <2>1. PICK a \in {"off", "born"} : At(c, a)
    BY <1>12 DEF ReleaseCurr, Switched
  <2>2. PICK b \in {"none", "reap", "work", "entry"} : Goto(Here(c), b)
    BY <1>12 DEF ReleaseCurr, Return
  <2> QED
    BY <1>12, <2>1, <2>2, StaysFound DEF ReleaseCurr
<1>13. CASE Entry(c)
  BY <1>13, StaysFound DEF Entry, cpu, mem
<1> QED
  BY <1>1, <1>2, <1>3, <1>4, <1>5, <1>6, <1>7, <1>8, <1>9, <1>10, <1>11, <1>12,
     <1>13

\* A handler begins on top of a thread that is not in block(), or is to be found.
LEMMA InterruptFound ==
  ASSUME SafeInv, NoneLost, NEW c \in Core, Interrupt(c)
  PROVE  NoneLost'
<1>1. UNCHANGED <<sp, nxt, queue, stopped>> /\ pc' = [pc EXCEPT ![<<sp[c], 1>>] = "yield"]
  BY DEF Interrupt, Goto, mem
<1>2. \A u \in Thread : /\ Held(u)' <=> Held(u)
                        /\ Running(u)' <=> Running(u)
  BY <1>1, HeldSame, RunningSame
<1>3. \A u \in Thread : /\ pc'[<<u, 0>>] = pc[<<u, 0>>]
                        /\ pc'[<<u, 1>>] = pc[<<u, 1>>] \/ pc'[<<u, 1>>] = "yield"
  BY <1>1, CtxFacts DEF SafeInv, TypeOK
<1> QED
  BY <1>1, <1>2, <1>3 DEF NoneLost, Queued

\* yield(), stop() and down() put the thread that runs into a queue.
LEMMA SelfFound ==
  ASSUME SafeInv, KThreadsAssumption, NoneLost, NEW c \in Core, NEW a, NEW q \in Queue,
         At(c, a), Goto(Here(c), "block"), Add(q, sp[c]),
         UNCHANGED <<sp, nxt>>, stopped \subseteq stopped',
         \A r \in Queue : ~InQueue(r, sp[c])
  PROVE  NoneLost'
<1>1. sp[c] \in Thread /\ TypeOK /\ QueuesInv /\ Moves(c, a, "block")
  BY Moved, HereFacts DEF SafeInv
<1>2. \A r \in Queue, u \in Thread :
        InQueue(r, u)' <=> InQueue(r, u) \/ (r = q /\ u = sp[c])
  BY <1>1, QueuePut
<1>3. Held(sp[c])' /\ \A u \in Thread : Held(u) => Held(u)'
  BY <1>1, <1>2 DEF Held
<1> QED
  BY <1>1, <1>3, FoundAfter

\* A thread that blocks is in no queue when it begins to.
LEMMA SelfOutside ==
  ASSUME SafeInv, NEW c \in Core, NEW a, At(c, a), a # "none", a \notin Queued,
         a \in Suspending \/ Here(c)[2] = 0
  PROVE  ~Held(sp[c]) /\ sp[c] \in Thread
<1>1. sp[c] \in Thread /\ Running(sp[c]) /\ ThreadInv(sp[c])
  BY HereFacts DEF SafeInv, Running
<1>2. pc[<<sp[c], 0>>] \notin Queued /\ pc[<<sp[c], 1>>] \notin Queued
  <2>1. CASE Here(c) = <<sp[c], 0>> /\ pc[<<sp[c], 1>>] = "none"
    BY <2>1 DEF At, Queued
  <2>2. CASE Here(c) = <<sp[c], 1>> /\ pc[<<sp[c], 1>>] # "none"
    BY <1>1, <2>2 DEF At, ThreadInv, LevelsAt, Calm, Queued
  <2> QED
    BY <2>1, <2>2, HereFacts DEF SafeInv
<1> QED
  BY <1>1, <1>2, RunningHeld

\* What yield(), stop() and down() queue is the thread on the core's stack.
LEMMA QueueingFound ==
  ASSUME SafeInv, KThreadsAssumption, NoneLost, NEW c \in Core,
         Enqueue(c) \/ Bury(c) \/ \E s \in Sem : Down(c, s) /\ count[s] = 0
  PROVE  NoneLost'
<1>1. TypeOK /\ sp[c] \in Thread /\ ThreadInv(sp[c]) /\ CoreInv(c)
  BY HereFacts DEF SafeInv
<1>2. CASE Enqueue(c) \/ Bury(c)
  <2>1. PICK a \in {"enqueue", "bury"} : At(c, a)
    BY <1>2 DEF Enqueue, Bury
  <2>2. /\ Goto(Here(c), "block") /\ UNCHANGED <<sp, nxt>>
        /\ Add("ready", me[Here(c)]) \/ Add("zombie", me[Here(c)])
        /\ stopped \subseteq stopped'
    BY <1>2 DEF Enqueue, Bury, cpu
  <2>3. me[Here(c)] = sp[c]
    BY <1>1, <2>1, HereFacts DEF At, ThreadInv, MeAt, Flagged
  <2>4. a # "none" /\ a \notin Queued /\ (a \in Suspending \/ Here(c)[2] = 0)
    BY <1>1, <2>1, HereFacts
       DEF At, ThreadInv, LevelsAt, Suspending, Queued
  <2>5. ~Held(sp[c])
    BY <2>1, <2>4, SelfOutside
  <2>6. "ready" \in Queue /\ "zombie" \in Queue
    BY DEF Queue
  <2>7. \A r \in Queue : ~InQueue(r, sp[c])
    BY <2>5 DEF Held
  <2>8. CASE Add("ready", me[Here(c)])
    BY <2>1, <2>2, <2>3, <2>6, <2>7, <2>8, SelfFound
  <2>9. CASE Add("zombie", me[Here(c)])
    BY <2>1, <2>2, <2>3, <2>6, <2>7, <2>9, SelfFound
  <2> QED
    BY <2>2, <2>8, <2>9
<1>3. ASSUME NEW s \in Sem, Down(c, s), count[s] = 0
      PROVE  NoneLost'
  <2>1. At(c, "work") /\ Here(c) \in User \X {0}
    BY <1>1, <1>3, HereFacts DEF Down, Enter, At, TypeOK, Label
  <2>2. /\ Goto(Here(c), "block") /\ UNCHANGED <<sp, nxt, stopped>>
        /\ Add(s, active[c])
    BY <1>3 DEF Down, cpu
  <2>3. Here(c)[2] = 0 /\ Here(c) = <<sp[c], 0>> /\ pc[<<sp[c], 1>>] = "none"
    BY <1>1, <2>1, HereFacts
  <2>4. active[c] = sp[c]
    BY <1>1, <2>1, <2>3 DEF CoreInv, At, Window
  <2>5. ~Held(sp[c])
    BY <2>1, <2>3, SelfOutside DEF Queued
  <2>6. s \in Queue /\ \A r \in Queue : ~InQueue(r, sp[c])
    BY <2>5 DEF Held, Queue
  <2> QED
    BY <2>1, <2>2, <2>4, <2>6, SelfFound
<1> QED
  BY <1>2, <1>3

\* A thread taken out of a queue is in the hand that took it.
LEMMA TakenFound ==
  ASSUME SafeInv, NoneLost, NEW c \in Core, NEW a, NEW b, NEW q \in Queue,
         At(c, a), Goto(Here(c), b), b \in Queued => a \in Queued,
         queue[q] # <<>>, Remove(q), nxt[Here(c)] = None, None \notin Thread,
         nxt' = [nxt EXCEPT ![Here(c)] = Head(queue[q])],
         UNCHANGED <<sp, stopped>>
  PROVE  NoneLost'
<1>1. TypeOK /\ QueuesInv /\ Moves(c, a, b) /\ Here(c) \in Ctx
  BY Moved, HereFacts DEF SafeInv
<1>2. \A r \in Queue, u \in Thread :
        InQueue(r, u)' <=> InQueue(r, u) /\ u # Head(queue[q])
  BY <1>1, QueueTake
<1>3. /\ nxt'[Here(c)] = Head(queue[q])
      /\ \A l \in Ctx : l # Here(c) => nxt'[l] = nxt[l]
  BY <1>1 DEF TypeOK
<1>4. ASSUME NEW u \in Thread, Held(u) PROVE Held(u)'
  <2>1. CASE u = Head(queue[q])
    BY <1>1, <1>3, <2>1 DEF Held
  <2>2. CASE u # Head(queue[q]) /\ \E r \in Queue : InQueue(r, u)
    BY <1>2, <2>2 DEF Held
  <2>3. ASSUME NEW l \in Ctx, nxt[l] = u PROVE Held(u)'
    BY <1>3, <2>3 DEF Held
  <2> QED
    BY <1>4, <2>1, <2>2, <2>3 DEF Held
<1> QED
  BY <1>1, <1>4, FoundAfter

\* block(), reaper() and up() take the head of a queue into an empty hand.
LEMMA TakingFound ==
  ASSUME SafeInv, KThreadsAssumption, NoneLost, NEW c \in Core,
         \/ Pick(c)
         \/ Reap(c) /\ queue["zombie"] # <<>>
         \/ \E s \in Sem : Up(c, s) /\ queue[s] # <<>>
  PROVE  NoneLost'
<1>1. /\ TypeOK /\ Here(c) \in Ctx /\ None \notin Thread
      /\ "ready" \in Queue /\ "zombie" \in Queue /\ Sem \subseteq Queue
  BY HereFacts DEF SafeInv, Queue, KThreadsAssumption, Thread
<1>2. ASSUME NEW a, At(c, a), a \notin Holding PROVE nxt[Here(c)] = None
  BY <1>1, <1>2 DEF SafeInv, HandsInv, At
<1>3. CASE Pick(c)
  <2>1. /\ At(c, "block") /\ Goto(Here(c), "test") /\ queue["ready"] # <<>>
        /\ Remove("ready") /\ UNCHANGED <<sp, stopped>>
        /\ nxt' = [nxt EXCEPT ![Here(c)] = Head(queue["ready"])]
    BY <1>3 DEF Pick, cpu
  <2>2. nxt[Here(c)] = None
    BY <1>2, <2>1 DEF Holding, Chosen, Reaping
  <2> QED
    BY <1>1, <2>1, <2>2, TakenFound DEF Queued
<1>4. CASE Reap(c) /\ queue["zombie"] # <<>>
  <2>1. PICK a \in {"reap", "work"} : At(c, a)
    BY <1>4 DEF Reap, Enter
  <2>2. /\ Goto(Here(c), "inspect") /\ Remove("zombie") /\ UNCHANGED <<sp, stopped>>
        /\ nxt' = [nxt EXCEPT ![Here(c)] = Head(queue["zombie"])]
    BY <1>4 DEF Reap, cpu
  <2>3. nxt[Here(c)] = None
    BY <1>2, <2>1 DEF Holding, Chosen, Reaping
  <2> QED
    BY <1>1, <1>4, <2>1, <2>2, <2>3, TakenFound DEF Queued
<1>5. ASSUME NEW s \in Sem, Up(c, s), queue[s] # <<>>
      PROVE  NoneLost'
  <2>1. PICK a \in {"up", "work"} : At(c, a)
    BY <1>5 DEF Up, Enter
  <2>2. /\ Goto(Here(c), "schedule") /\ Remove(s) /\ UNCHANGED <<sp, stopped>>
        /\ nxt' = [nxt EXCEPT ![Here(c)] = Head(queue[s])]
    BY <1>5 DEF Up, cpu
  <2>3. nxt[Here(c)] = None
    BY <1>2, <2>1 DEF Holding, Chosen, Reaping
  <2> QED
    BY <1>1, <1>5, <2>1, <2>2, <2>3, TakenFound DEF Queued
<1> QED
  BY <1>3, <1>4, <1>5

\* A thread put from a hand into a queue can be found there.
LEMMA PutFound ==
  ASSUME SafeInv, KThreadsAssumption, NoneLost, NEW c \in Core, NEW a, NEW b,
         NEW q \in Queue,
         At(c, a), Goto(Here(c), b), b \in Queued => a \in Queued, a \in Holding,
         Add(q, nxt[Here(c)]), nxt' = [nxt EXCEPT ![Here(c)] = None],
         UNCHANGED <<sp, stopped>>
  PROVE  NoneLost'
<1>1. TypeOK /\ QueuesInv /\ Moves(c, a, b) /\ Here(c) \in Ctx
  BY Moved, HereFacts DEF SafeInv
<1>2. nxt[Here(c)] \in Thread /\ \A r \in Queue : ~InQueue(r, nxt[Here(c)])
  BY <1>1, HandFacts DEF At
<1>3. \A r \in Queue, u \in Thread :
        InQueue(r, u)' <=> InQueue(r, u) \/ (r = q /\ u = nxt[Here(c)])
  BY <1>1, <1>2, QueuePut
<1>4. \A l \in Ctx : l # Here(c) => nxt'[l] = nxt[l]
  BY <1>1 DEF TypeOK
<1>5. ASSUME NEW u \in Thread, Held(u) PROVE Held(u)'
  <2>1. CASE u = nxt[Here(c)]
    BY <1>3, <2>1 DEF Held
  <2>2. CASE \E r \in Queue : InQueue(r, u)
    BY <1>3, <2>2 DEF Held
  <2>3. ASSUME NEW l \in Ctx, nxt[l] = u, u # nxt[Here(c)] PROVE Held(u)'
    BY <1>4, <2>3 DEF Held
  <2> QED
    BY <1>5, <2>1, <2>2, <2>3 DEF Held
<1> QED
  BY <1>1, <1>5, FoundAfter

\* block(), reaper(), thread() and up() empty their hand into a queue.
LEMMA PuttingFound ==
  ASSUME SafeInv, KThreadsAssumption, NoneLost, NEW c \in Core,
         Requeue(c) \/ Rebury(c) \/ Schedule(c)
  PROVE  NoneLost'
<1> USE DEF Queued, Holding, Chosen, Reaping
<1>1. "ready" \in Queue /\ "zombie" \in Queue
  BY DEF Queue
<1>2. CASE Requeue(c)
  BY <1>1, <1>2, PutFound DEF Requeue, cpu
<1>3. CASE Rebury(c)
  BY <1>1, <1>3, PutFound DEF Rebury, cpu
<1>4. CASE Schedule(c)
  <2>1. PICK b \in {"work", "stop"} : Goto(Here(c), b)
    BY <1>4 DEF Schedule
  <2> QED
    BY <1>1, <1>4, <2>1, PutFound DEF Schedule, cpu
<1> QED
  BY <1>2, <1>3, <1>4

\* A hand lets go of a thread that runs on, or that has stopped.
LEMMA DropFound ==
  ASSUME SafeInv, KThreadsAssumption, NoneLost, NEW c \in Core, NEW a, NEW b,
         At(c, a), Goto(Here(c), b), b \notin Queued,
         nxt' = [nxt EXCEPT ![Here(c)] = None], UNCHANGED <<sp, queue, stopped>>,
         \/ nxt[Here(c)] = sp[c] /\ a \in Queued
         \/ nxt[Here(c)] \in stopped \cup {None}
  PROVE  NoneLost'
<1>1. TypeOK /\ Moves(c, a, b) /\ Here(c) \in Ctx
  BY Moved, HereFacts DEF SafeInv
<1>2. \A l \in Ctx : l # Here(c) => nxt'[l] = nxt[l]
  BY <1>1 DEF TypeOK
<1>3. \A r, u : InQueue(r, u)' <=> InQueue(r, u)
  BY DEF InQueue
<1>4. None \notin Thread
  BY DEF KThreadsAssumption, Thread
<1>5. \A u \in Thread : Held(u) => Held(u)' \/ u = nxt[Here(c)]
  BY <1>2, <1>3 DEF Held
<1> QED
  BY <1>1, <1>4, <1>5, FoundAfter

\* block() returns with the thread itself, and reaper() without a zombie.
LEMMA DroppingFound ==
  ASSUME SafeInv, KThreadsAssumption, NoneLost, NEW c \in Core,
         PickedMyself(c) \/ Inspect(c) \/ (Reap(c) /\ queue["zombie"] = <<>>)
  PROVE  NoneLost'
<1> USE DEF Queued
<1>1. /\ TypeOK /\ Here(c) \in Ctx /\ sp[c] \in Thread /\ None \notin Thread
      /\ ThreadInv(sp[c])
  BY HereFacts DEF SafeInv, KThreadsAssumption, Thread
<1>2. CASE PickedMyself(c)
  <2>1. PICK b \in {"none", "reap", "work"} : Goto(Here(c), b)
    BY <1>2 DEF PickedMyself, Return
  <2>2. /\ At(c, "test") /\ nxt[Here(c)] = me[Here(c)]
        /\ UNCHANGED <<sp, queue, stopped>> /\ nxt' = [nxt EXCEPT ![Here(c)] = None]
    BY <1>2 DEF PickedMyself
  <2>3. me[Here(c)] = sp[c]
    BY <1>1, <2>2, HereFacts DEF At, ThreadInv, MeAt, Flagged
  <2> QED
    BY <2>1, <2>2, <2>3, DropFound
<1>3. CASE Inspect(c)
  <2>1. At(c, "inspect") /\ UNCHANGED <<sp, queue, stopped>>
    BY <1>3 DEF Inspect, cpu, mem
  <2>2. CASE nxt' = nxt /\ \E b \in {"rebury", "delete"} : Goto(Here(c), b)
    BY <2>1, <2>2, StaysFound
  <2>3. CASE Reaped(Here(c))
    <3>1. nxt' = [nxt EXCEPT ![Here(c)] = None]
      BY <2>3 DEF Reaped
    <3>2. PICK b \in {"yield", "spawn"} : Goto(Here(c), b)
      BY <2>3 DEF Reaped
    <3>3. nxt[Here(c)] \in stopped
      BY <1>1, <2>1 DEF At, SafeInv, ZombieInv, Reaping
    <3> QED
      BY <2>1, <3>1, <3>2, <3>3, DropFound
  <2> QED
    BY <1>3, <2>2, <2>3 DEF Inspect
<1>4. CASE Reap(c) /\ queue["zombie"] = <<>>
  <2>1. PICK a \in {"reap", "work"} : At(c, a)
    BY <1>4 DEF Reap, Enter
  <2>2. /\ nxt' = [nxt EXCEPT ![Here(c)] = None]
        /\ UNCHANGED <<sp, queue, stopped>>
    BY <1>4 DEF Reap, Reaped, cpu
  <2>3. PICK b \in {"yield", "spawn"} : Goto(Here(c), b)
    BY <1>4 DEF Reap, Reaped
  <2>4. nxt[Here(c)] = None
    BY <1>1, <2>1 DEF At, SafeInv, HandsInv, Holding, Chosen, Reaping
  <2> QED
    BY <2>1, <2>2, <2>3, <2>4, DropFound
<1> QED
  BY <1>2, <1>3, <1>4

\* The thread a core leaves is in a queue or a hand; the one it takes up runs, and
\* not in block().
LEMMA LoadFound ==
  ASSUME SafeInv, KThreadsAssumption, NoneLost, NEW c \in Core, Load(c)
  PROVE  NoneLost'
<1> DEFINE k == Here(c)
<1>a. PICK n : n = nxt[k]
  OBVIOUS
<1>1. TypeOK /\ k \in Ctx /\ sp[c] \in Thread /\ ThreadInv(sp[c])
  BY HereFacts DEF SafeInv
<1>2. Moves(c, "load", "off") /\ pc[k] = "load"
  BY <1>1, Moved DEF Load, At
<1>3. /\ n \in Thread /\ n # None /\ pc[<<n, 0>>] # "free" /\ ~Running(n)
      /\ \A l \in Ctx : l # k => nxt[l] # n
      /\ \A q \in Queue : ~InQueue(q, n)
  BY <1>a, <1>1, <1>2, HandFacts DEF Holding, Chosen, SafeInv, ChosenInv
<1>4. ThreadInv(n)
  BY <1>3 DEF SafeInv
<1>5. pc[<<n, 0>>] \notin Queued /\ pc[<<n, 1>>] \notin Queued
  BY <1>3, <1>4 DEF ThreadInv, StackAt, LevelsAt, Away, Suspending, Calm, Queued
<1>6. Running(sp[c]) /\ n # sp[c]
  BY <1>3 DEF Running
<1> HIDE DEF k
<1>7. /\ sp' = [sp EXCEPT ![c] = n] /\ UNCHANGED <<queue, stopped>>
      /\ nxt' = [nxt EXCEPT ![k] = None]
  BY <1>a DEF Load, k
<1>8. /\ sp'[c] = n /\ \A d \in Core : d # c => sp'[d] = sp[d]
      /\ \A l \in Ctx : l # k => nxt'[l] = nxt[l]
  BY <1>1, <1>7 DEF TypeOK
<1>9. \A u \in Thread : u # n /\ Held(u) => Held(u)'
  <2>1. \A r, u : InQueue(r, u)' <=> InQueue(r, u)
    BY <1>7 DEF InQueue
  <2> QED
    BY <1>a, <1>8, <2>1 DEF Held
<1>10. Running(n)' /\ pc'[<<n, 0>>] = pc[<<n, 0>>] /\ pc'[<<n, 1>>] = pc[<<n, 1>>]
  BY <1>2, <1>3, <1>6, <1>8 DEF Running, Moves
<1>11. ASSUME NEW u \in Thread, pc'[<<u, 0>>] # "free", u \notin stopped', u # n
       PROVE  \/ Held(u)'
              \/ /\ Running(u)'
                 /\ pc'[<<u, 0>>] \notin Queued /\ pc'[<<u, 1>>] \notin Queued
  <2>1. CASE u = sp[c]
    <3>1. pc[<<u, 0>>] # "free" /\ u \notin stopped
      BY <1>1, <1>6, <1>7, <1>11, <2>1 DEF ThreadInv, StackAt
    <3>2. pc[<<u, 0>>] = "load" \/ pc[<<u, 1>>] = "load"
      BY <1>2, <2>1 DEF Moves
    <3>3. Held(u)
      BY <3>1, <3>2 DEF NoneLost, Queued
    <3> QED
      BY <1>9, <1>11, <3>3
  <2>2. CASE u # sp[c]
    <3>1. pc'[<<u, 0>>] = pc[<<u, 0>>] /\ pc'[<<u, 1>>] = pc[<<u, 1>>]
      BY <1>2, <2>2 DEF Moves
    <3>2. Running(u) => Running(u)'
      BY <1>8, <2>2 DEF Running
    <3> QED
      BY <1>7, <1>9, <1>11, <3>1, <3>2 DEF NoneLost
  <2> QED
    BY <2>1, <2>2
<1> QED
  BY <1>5, <1>10, <1>11 DEF NoneLost

\* A deleted thread is nobody any more, and the others stay where they are.
LEMMA DeleteFound ==
  ASSUME SafeInv, KThreadsAssumption, NoneLost, NEW c \in Core, Delete(c)
  PROVE  NoneLost'
<1> DEFINE k == Here(c)
<1> DEFINE z == nxt[k]
<1>1. TypeOK /\ k \in Ctx /\ sp[c] \in Thread /\ ThreadInv(sp[c])
  BY HereFacts DEF SafeInv
<1>2. pc[k] = "delete"
  BY DEF Delete, At
<1>3. z \in Thread
  BY <1>1, <1>2, HandFacts DEF Holding, Reaping
<1>4. k = <<sp[c], 0>>
  BY <1>1, <1>2, HereFacts DEF ThreadInv, LevelsAt, Suspending, Queued
<1> HIDE DEF k, z
<1>5. /\ pc' = [pc EXCEPT ![k] = "reap", ![<<z, 0>>] = "free"]
      /\ nxt' = [nxt EXCEPT ![k] = None]
      /\ stopped' = stopped \ {z} /\ UNCHANGED <<sp, queue>>
  BY DEF Delete, cpu, k, z
<1>6. \A u \in Thread : Running(u)' <=> Running(u)
  BY <1>5, RunningSame
<1>7. \A u \in Thread : u # z /\ Held(u) => Held(u)'
  <2>1. \A r, u : InQueue(r, u)' <=> InQueue(r, u)
    BY <1>5 DEF InQueue
  <2>2. z = nxt[k] /\ \A l \in Ctx : l # k => nxt'[l] = nxt[l]
    BY <1>1, <1>5 DEF TypeOK, z
  <2> QED
    BY <2>1, <2>2 DEF Held
<1>8. pc'[<<z, 0>>] = "free"
  BY <1>1, <1>3, <1>5, CtxFacts DEF TypeOK
<1>9. \A u \in Thread : u # z =>
        /\ pc'[<<u, 1>>] = pc[<<u, 1>>]
        /\ \/ pc'[<<u, 0>>] = pc[<<u, 0>>]
           \/ pc'[<<u, 0>>] = "reap" /\ pc[<<u, 0>>] = "delete"
  <2>1. \A l \in Ctx : l # k /\ l # <<z, 0>> => pc'[l] = pc[l]
    BY <1>1, <1>5 DEF TypeOK
  <2>2. k # <<z, 0>> => pc'[k] = "reap"
    BY <1>1, <1>5 DEF TypeOK
  <2> QED
    BY <1>2, <1>3, <1>4, <2>1, <2>2, CtxFacts
<1>10. ASSUME NEW u \in Thread, pc'[<<u, 0>>] # "free", u \notin stopped', u # z
       PROVE  \/ Held(u)'
              \/ /\ Running(u)'
                 /\ pc'[<<u, 0>>] \notin Queued /\ pc'[<<u, 1>>] \notin Queued
  BY <1>5, <1>6, <1>7, <1>9, <1>10 DEF NoneLost, Queued
<1> QED
  BY <1>8, <1>10 DEF NoneLost

\* A new thread is in the hand of the one that made it.
LEMMA SpawnFound ==
  ASSUME SafeInv, KThreadsAssumption, NoneLost, NEW c \in Core, Spawn(c)
  PROVE  NoneLost'
<1> DEFINE k == Here(c)
<1>1. TypeOK /\ k \in Ctx /\ sp[c] \in Thread /\ ThreadInv(sp[c]) /\ None \notin Thread
  BY HereFacts DEF SafeInv, KThreadsAssumption, Thread
<1>2. pc[k] = "spawn"
  BY DEF Spawn, At
<1>3. k = <<sp[c], 0>>
  BY <1>1, <1>2, HereFacts DEF ThreadInv, LevelsAt, Suspending, Queued
<1>4. nxt[k] = None
  BY <1>1, <1>2 DEF SafeInv, HandsInv, Holding, Chosen, Reaping
<1>5. PICK z \in User :
        /\ pc' = [pc EXCEPT ![k] = "schedule", ![<<z, 0>>] = "born"]
        /\ nxt' = [nxt EXCEPT ![k] = z]
  BY DEF Spawn
<1>6. UNCHANGED <<sp, queue, stopped>> /\ z \in Thread
  BY DEF Spawn, cpu, Thread
<1> HIDE DEF k
<1>7. \A u \in Thread : Running(u)' <=> Running(u)
  BY <1>6, RunningSame
<1>8. nxt'[k] = z /\ \A l \in Ctx : l # k => nxt'[l] = nxt[l]
  BY <1>1, <1>5 DEF TypeOK
<1>9. \A u \in Thread : Held(u) \/ u = z => Held(u)'
  <2>1. \A r, u : InQueue(r, u)' <=> InQueue(r, u)
    BY <1>6 DEF InQueue
  <2> QED
    BY <1>1, <1>4, <1>8, <2>1 DEF Held
<1>10. \A u \in Thread : u # z =>
         /\ pc'[<<u, 1>>] = pc[<<u, 1>>]
         /\ \/ pc'[<<u, 0>>] = pc[<<u, 0>>]
            \/ pc'[<<u, 0>>] = "schedule" /\ pc[<<u, 0>>] = "spawn"
  <2>1. \A l \in Ctx : l # k /\ l # <<z, 0>> => pc'[l] = pc[l]
    BY <1>1, <1>5 DEF TypeOK
  <2>2. k # <<z, 0>> => pc'[k] = "schedule"
    BY <1>1, <1>5 DEF TypeOK
  <2> QED
    BY <1>2, <1>3, <1>6, <2>1, <2>2, CtxFacts
<1>11. ASSUME NEW u \in Thread, pc'[<<u, 0>>] # "free", u \notin stopped', u # z
       PROVE  \/ Held(u)'
              \/ /\ Running(u)'
                 /\ pc'[<<u, 0>>] \notin Queued /\ pc'[<<u, 1>>] \notin Queued
  BY <1>6, <1>7, <1>9, <1>10, <1>11 DEF NoneLost, Queued
<1> QED
  BY <1>6, <1>9, <1>11 DEF NoneLost

\* At the start the reaper is in readyQ and every core is on its own thread.
LEMMA InitFound ==
  ASSUME KThreadsAssumption, Init
  PROVE  NoneLost
<1> SUFFICES ASSUME NEW t \in Thread, pc[<<t, 0>>] # "free"
             PROVE  \/ Held(t)
                    \/ /\ Running(t)
                       /\ pc[<<t, 0>>] \notin Queued /\ pc[<<t, 1>>] \notin Queued
  BY DEF NoneLost
<1>1. <<t, 0>> \in Ctx /\ <<t, 1>> \in Ctx /\ "ready" \in Queue
  BY CtxFacts DEF Queue
<1>2. CASE t \in Core
  <2>1. sp[t] = t /\ pc[<<t, 0>>] = "boot" /\ pc[<<t, 1>>] = "none"
    BY <1>1, <1>2 DEF Init
  <2> QED
    BY <1>2, <2>1 DEF Running, Queued
<1>3. CASE t = Reaper
  <2>1. queue["ready"] = <<Reaper>>
    BY <1>1 DEF Init
  <2>2. InQueue("ready", Reaper)
    BY <2>1 DEF InQueue
  <2> QED
    BY <1>1, <1>3, <2>2 DEF Held
<1>4. CASE t \notin Core /\ t # Reaper
  BY <1>1, <1>4 DEF Init
<1> QED
  BY <1>2, <1>3, <1>4

\* Every step of the system loses nobody.
LEMMA NextFound ==
  ASSUME SafeInv, KThreadsAssumption, NoneLost, [Next]_vars
  PROVE  NoneLost'
<1>1. CASE UNCHANGED vars
  BY <1>1, StillFound DEF vars, cpu, regs, mem
<1>2. ASSUME NEW c \in Core, CoreStep(c) \/ Interrupt(c)
      PROVE  NoneLost'
  <2>1. CASE Sti(c) \/ Arrive(c) \/ Interrupt(c)
    BY <2>1, QuietFound, InterruptFound
  <2>2. CASE YieldOrStop(c)
    BY <2>2, QuietFound, QueueingFound DEF YieldOrStop
  <2>3. CASE Block(c)
    BY <2>3, QuietFound, TakingFound, DroppingFound, PuttingFound DEF Block
  <2>4. CASE ReleasePrev(c)
    BY <2>4, StillFound DEF ReleasePrev, cpu
  <2>5. CASE Switch(c) /\ ~ReleasePrev(c)
    BY <2>5, QuietFound, LoadFound DEF Switch
  <2>6. CASE ReapOrSpawn(c)
    BY <2>6, TakingFound, DroppingFound, PuttingFound, DeleteFound, SpawnFound
       DEF ReapOrSpawn
  <2>7. ASSUME NEW s \in Sem, Down(c, s) \/ Up(c, s)
        PROVE  NoneLost'
    <3>1. CASE (Down(c, s) /\ count[s] # 0) \/ (Up(c, s) /\ queue[s] = <<>>)
      BY <3>1, StillFound DEF Down, Up, cpu
    <3> QED
      BY <2>7, <3>1, QueueingFound, TakingFound
  <2> QED
    BY <1>2, <2>1, <2>2, <2>3, <2>4, <2>5, <2>6, <2>7 DEF CoreStep
<1> QED
  BY <1>1, <1>2 DEF Next

-----------------------------------------------------------------------------
(* The parts together *)

\* Every step of the kernel keeps the invariant.
LEMMA CoreStepKeeps ==
  ASSUME SafeInv, KThreadsAssumption, NEW c \in Core, CoreStep(c)
  PROVE  SafeInv'
<1>1. sp[c] \in Thread
  BY DEF SafeInv, TypeOK
<1>2. CASE Sti(c) \/ Arrive(c)
  BY <1>1, <1>2, StiStep, ArriveStep
<1>3. CASE YieldOrStop(c)
  <2>1. CASE Yield(c) \/ Stop(c)
    BY <1>1, <2>1, YieldStep, StopStep
  <2>2. CASE SetAlone(c) \/ Mark(c)
    BY <1>1, <2>2, SetAloneStep, MarkStep
  <2>3. CASE Enqueue(c) \/ Bury(c)
    BY <1>1, <2>3, EnqueueStep, BuryStep
  <2>4. CASE CheckAlone(c)
    BY <1>1, <2>4, CheckAloneReturnStep, CheckAloneSetStep
  <2> QED
    BY <1>3, <2>1, <2>2, <2>3, <2>4 DEF YieldOrStop
<1>4. CASE Block(c)
  <2>1. CASE Pick(c) \/ PickedMyself(c)
    BY <1>1, <2>1, PickStep, PickedMyselfStep
  <2>2. CASE TestNext(c)
    BY <1>1, <2>2, TestNextRequeueStep, TestNextClaimStep
  <2>3. CASE Requeue(c) \/ Activate(c)
    BY <1>1, <2>3, RequeueStep, ActivateStep
  <2>4. CASE Claim(c)
    BY <2>4, ClaimStep
  <2> QED
    BY <1>4, <2>1, <2>2, <2>3, <2>4 DEF Block
<1>5. CASE Switch(c)
  <2>1. CASE Save(c) \/ Entry(c)
    BY <1>1, <2>1, SaveStep, EntryStep
  <2>2. CASE Load(c)
    BY <1>1, <2>2, LoadStep
  <2>3. CASE ReleasePrev(c)
    BY <1>1, <2>3, ReleasePrevStep
  <2>4. CASE ReleaseCurr(c)
    <3>1. At(c, "off") \/ At(c, "born")
      BY <2>4 DEF ReleaseCurr, Switched
    <3> QED
      BY <1>1, <2>4, <3>1, ReleaseCurrReturnStep, ReleaseCurrEntryStep
  <2> QED
    BY <1>5, <2>1, <2>2, <2>3, <2>4 DEF Switch
<1>6. CASE ReapOrSpawn(c)
  <2>1. CASE Reap(c)
    BY <1>1, <2>1, ReapNoneStep, ReapSomeStep
  <2>2. CASE Inspect(c)
    BY <1>1, <2>2, InspectOneStep, InspectDropStep
  <2>3. CASE Rebury(c) \/ Schedule(c)
    BY <1>1, <2>3, ReburyStep, ScheduleStep
  <2>4. CASE Delete(c)
    BY <1>1, <2>4, DeleteStep
  <2>5. CASE Spawn(c)
    BY <1>1, <2>5, SpawnStep
  <2> QED
    BY <1>6, <2>1, <2>2, <2>3, <2>4, <2>5 DEF ReapOrSpawn
<1>7. CASE \E s \in Sem : Down(c, s) \/ Up(c, s)
  <2> SUFFICES ASSUME NEW s \in Sem, Down(c, s) \/ Up(c, s) PROVE SafeInv'
    BY <1>7
  <2>1. CASE Down(c, s) /\ count[s] = 0
    BY <1>1, <2>1, DownWaitStep
  <2>2. CASE Up(c, s) /\ queue[s] # <<>>
    BY <1>1, <2>2, UpWakeStep
  <2>3. CASE (Down(c, s) /\ count[s] # 0) \/ (Up(c, s) /\ queue[s] = <<>>)
    <3>1. /\ UNCHANGED <<cpu, regs, flag, context, queue, here, stopped>>
          /\ \/ count' = [count EXCEPT ![s] = count[s] - 1] /\ count[s] # 0
             \/ count' = [count EXCEPT ![s] = count[s] + 1]
      BY <2>3 DEF Down, Up, regs
    <3>2. TypeOK /\ count \in [Sem -> Nat]
      BY DEF SafeInv, TypeOK
    <3>3. count[s] \in Nat
      BY <3>2
    <3>4. count[s] # 0 => count[s] - 1 \in Nat
      BY <3>3
    <3>5. count' \in [Sem -> Nat]
      BY <3>1, <3>2, <3>3, <3>4
    <3>6. TypeOK'
      BY <3>1, <3>2, <3>5 DEF TypeOK, cpu, regs
    <3> QED
      BY <3>1, <3>6, StillStep
  <2> QED
    BY <2>1, <2>2, <2>3
<1> QED
  BY <1>2, <1>3, <1>4, <1>5, <1>6, <1>7 DEF CoreStep

\* Every step of the system keeps the invariant.
LEMMA NextKeeps ==
  ASSUME SafeInv, KThreadsAssumption, [Next]_vars
  PROVE  SafeInv'
<1>1. CASE UNCHANGED vars
  <2>1. TypeOK'
    BY <1>1 DEF SafeInv, TypeOK, vars, cpu, regs, mem
  <2> QED
    BY <1>1, <2>1, StillStep DEF vars, mem
<1>2. CASE Next
  <2> SUFFICES ASSUME NEW c \in Core, CoreStep(c) \/ Interrupt(c) PROVE SafeInv'
    BY <1>2 DEF Next
  <2>1. sp[c] \in Thread
    BY DEF SafeInv, TypeOK
  <2> QED
    BY <2>1, CoreStepKeeps, InterruptStep
<1> QED
  BY <1>1, <1>2

\* The kernel starts with the reaper in readyQ and each core on its own thread.
LEMMA InitHolds ==
  ASSUME KThreadsAssumption, Init
  PROVE  SafeInv
<1>1. /\ None \notin Thread /\ Reaper \in Thread /\ Core \subseteq Thread
      /\ Reaper \notin Core /\ "ready" \in Queue /\ "ready" # "zombie"
      /\ InitCount \in [Sem -> Nat]
  BY DEF KThreadsAssumption, Thread, Queue
<1>2. TypeOK
  BY <1>1 DEF TypeOK, Init, Label, Ctx
<1>3. \A u \in Thread :
        /\ pc[<<u, 1>>] = "none"
        /\ pc[<<u, 0>>] = IF u \in Core THEN "boot" ELSE IF u = Reaper THEN "born" ELSE "free"
        /\ me[<<u, 0>>] = None /\ me[<<u, 1>>] = None
        /\ nxt[<<u, 0>>] = None /\ nxt[<<u, 1>>] = None
  <2> TAKE u \in Thread
  <2>1. /\ <<u, 0>> \in Ctx /\ <<u, 0>>[1] = u /\ <<u, 0>>[2] = 0
        /\ <<u, 1>> \in Ctx /\ <<u, 1>>[1] = u /\ <<u, 1>>[2] = 1
    BY DEF Ctx
  <2>2. pc[<<u, 1>>] = "none"
    BY <2>1 DEF Init
  <2>3. pc[<<u, 0>>] = IF u \in Core THEN "boot" ELSE IF u = Reaper THEN "born" ELSE "free"
    BY <2>1, <1>1 DEF Init
  <2>4. /\ me[<<u, 0>>] = None /\ me[<<u, 1>>] = None
        /\ nxt[<<u, 0>>] = None /\ nxt[<<u, 1>>] = None
    BY <2>1 DEF Init
  <2> QED
    BY <2>2, <2>3, <2>4
<1>4. \A k \in Ctx : nxt[k] = None /\ pc[k] \in {"none", "boot", "born", "free"}
  BY DEF Init
<1>5. \A q \in Queue : queue[q] = IF q = "ready" THEN <<Reaper>> ELSE <<>>
  BY DEF Init
<1>6. \A q \in Queue, u \in Thread : InQueue(q, u) <=> q = "ready" /\ u = Reaper
  <2> SUFFICES ASSUME NEW q \in Queue, NEW u \in Thread
               PROVE  InQueue(q, u) <=> q = "ready" /\ u = Reaper
    OBVIOUS
  <2>1. CASE q = "ready"
    <3>1. Len(queue[q]) = 1 /\ queue[q][1] = Reaper
      BY <2>1, <1>5
    <3> QED
      BY <2>1, <3>1 DEF InQueue
  <2>2. CASE q # "ready"
    <3>1. Len(queue[q]) = 0
      BY <2>2, <1>5
    <3> QED
      BY <2>2, <3>1 DEF InQueue
  <2> QED
    BY <2>1, <2>2
<1>7. \A u \in Thread : Running(u) <=> u \in Core
  BY DEF Running, Init
<1>8. \A u \in Thread : Held(u) <=> u = Reaper
  BY <1>1, <1>4, <1>6 DEF Held
<1>9. stopped = {} /\ \A u \in Thread : prev[u] = None
  BY DEF Init
<1>10. OneCorePerStack
  BY DEF OneCorePerStack, Init
<1>11. QueuesInv
  <2>1. \A q \in Queue : \A i \in 1..Len(queue[q]) : q = "ready" /\ i = 1
    <3> SUFFICES ASSUME NEW q \in Queue, NEW i \in 1..Len(queue[q])
                 PROVE  q = "ready" /\ i = 1
      OBVIOUS
    <3>1. CASE q = "ready"
      <4>1. Len(queue[q]) = 1
        BY <3>1, <1>5
      <4> QED
        BY <3>1, <4>1
    <3>2. CASE q # "ready"
      BY <3>2, <1>5
    <3> QED
      BY <3>1, <3>2
  <2> QED
    BY <2>1 DEF QueuesInv
<1>12. HandsInv
  BY <1>4 DEF HandsInv, Holding, Chosen, Reaping
<1>13. ChosenInv
  BY <1>4 DEF ChosenInv, Chosen
<1>14. PrevInv
  BY <1>9 DEF PrevInv
<1>15. ZombieInv
  <2>1. "zombie" \in Queue
    BY DEF Queue
  <2> QED
    BY <2>1, <1>1, <1>4, <1>6, <1>9 DEF ZombieInv, Reaping
<1>16. \A u \in Thread : ThreadInv(u)
  <2> SUFFICES ASSUME NEW u \in Thread PROVE ThreadInv(u)
    OBVIOUS
  <2>1. context[u] = IF u = Reaper THEN "on" ELSE "stale"
    BY DEF Init
  <2> QED
    BY <2>1, <1>1, <1>3, <1>7, <1>8, <1>9
       DEF ThreadInv, LevelsAt, StackAt, FlagAt, HeldAt, MeAt, Switching,
           Suspending, Calm, Queued, Flagged, Away, Window
<1>17. \A c \in Core : CoreInv(c)
  <2> SUFFICES ASSUME NEW c \in Core PROVE CoreInv(c)
    OBVIOUS
  <2>1. sp[c] = c /\ active[c] = c /\ intr[c] = FALSE
    BY DEF Init
  <2> QED
    BY <2>1, <1>1, <1>3 DEF CoreInv, Window
<1> QED
  BY <1>2, <1>10, <1>11, <1>12, <1>13, <1>14, <1>15, <1>16, <1>17 DEF SafeInv

\* The inductive invariant holds in every reachable state: whatever the number
\* of cores, threads and semaphores, and however their steps interleave.
THEOREM InvariantHolds == Spec => []IInv
<1>1. Init => IInv
  BY InitHolds, InitFound, KThreadsAssumption DEF IInv
<1>2. IInv /\ [Next]_vars => IInv'
  BY NextKeeps, NextFound, KThreadsAssumption DEF IInv
<1> QED
  BY <1>1, <1>2, PTL DEF Spec

-----------------------------------------------------------------------------
(* What the invariant says of the threads *)

\* Every variable keeps its type: no queue, register or slot ever comes to hold
\* a null or foreign pointer where the code dereferences a thread.
THEOREM TypeCorrect == Spec => []TypeOK
<1>1. IInv => TypeOK
  BY DEF IInv, SafeInv
<1> QED
  BY <1>1, InvariantHolds, PTL

\* No two cores are ever on one stack.
THEOREM StacksExclusive == Spec => []OneCorePerStack
<1>1. IInv => OneCorePerStack
  BY DEF IInv, SafeInv
<1> QED
  BY <1>1, InvariantHolds, PTL

\* A context switch loads only a finished save area of a thread no core is on.
THEOREM LoadsSaved == Spec => []LoadsOnlySaved
<1>1. ASSUME IInv PROVE LoadsOnlySaved
  <2> SUFFICES ASSUME NEW k \in Ctx, pc[k] \in Chosen
               PROVE  context[nxt[k]] # "stale" /\ ~Running(nxt[k])
    BY DEF LoadsOnlySaved, Chosen
  <2>1. nxt[k] \in Thread /\ pc[<<nxt[k], 0>>] # "free"
    BY <1>1, KThreadsAssumption, HandFacts DEF IInv, Holding
  <2>2. ~Running(nxt[k]) /\ ThreadInv(nxt[k])
    BY <1>1, <2>1 DEF IInv, SafeInv, ChosenInv
  <2> QED
    BY <2>1, <2>2 DEF ThreadInv, StackAt
<1> QED
  BY <1>1, InvariantHolds, PTL

\* A thread that has not stopped runs, waits in readyQ or at a semaphore, or is in
\* the hands of a core that took it out or has just made it: none gets lost.
THEOREM NobodyLost == Spec => []NoLostThread
<1>1. ASSUME IInv PROVE NoLostThread
  <2> SUFFICES ASSUME NEW t \in Thread, pc[<<t, 0>>] # "free", t \notin stopped,
                      ~Running(t), \A k \in Ctx : nxt[k] # t
               PROVE  \E q \in {"ready"} \cup Sem : InQueue(q, t)
    BY DEF NoLostThread, Live
  <2>1. PICK q \in Queue : InQueue(q, t)
    BY <1>1 DEF IInv, NoneLost, Held
  <2>2. q # "zombie"
    BY <1>1, <2>1 DEF IInv, SafeInv, ZombieInv
  <2> QED
    BY <2>1, <2>2 DEF Queue
<1> QED
  BY <1>1, InvariantHolds, PTL

\* A thread is linked into one queue or held by one context, never both.
THEOREM PlacesExclusive == Spec => []OnePlace
<1>1. ASSUME IInv PROVE OnePlace
  <2> SUFFICES ASSUME NEW t \in Thread
               PROVE  /\ \A q, r \in Queue :
                           \A i \in 1..Len(queue[q]), j \in 1..Len(queue[r]) :
                             queue[q][i] = t /\ queue[r][j] = t => q = r /\ i = j
                      /\ \A k \in Ctx : nxt[k] = t =>
                           /\ \A q \in Queue : ~InQueue(q, t)
                           /\ \A l \in Ctx : nxt[l] = t => l = k
    BY DEF OnePlace
  <2>1. t # None
    BY KThreadsAssumption DEF KThreadsAssumption, Thread
  <2>2. \A q, r \in Queue :
          \A i \in 1..Len(queue[q]), j \in 1..Len(queue[r]) :
            queue[q][i] = t /\ queue[r][j] = t => q = r /\ i = j
    BY <1>1 DEF IInv, SafeInv, QueuesInv
  <2>3. \A k \in Ctx : nxt[k] = t =>
          /\ \A q \in Queue : ~InQueue(q, t)
          /\ \A l \in Ctx : nxt[l] = t => l = k
    BY <1>1, <2>1 DEF IInv, SafeInv, HandsInv
  <2> QED
    BY <2>2, <2>3
<1> QED
  BY <1>1, InvariantHolds, PTL

\* Whoever queues itself, blocks or is saved is the thread on the core's stack.
THEOREM MeCorrect == Spec => []MeIsSelf
<1>1. ASSUME IInv PROVE MeIsSelf
  <2> SUFFICES ASSUME NEW k \in Ctx, pc[k] \in {"set", "mark"} \cup Flagged
               PROVE  me[k] = k[1]
    BY DEF MeIsSelf, Flagged, Queued
  <2>1. PICK u \in Thread : k = <<u, 0>> \/ k = <<u, 1>>
    BY CtxFacts
  <2>2. LevelsAt(u) /\ MeAt(u)
    BY <1>1 DEF IInv, SafeInv, ThreadInv
  <2>3. me[k] = u
    BY <2>1, <2>2 DEF LevelsAt, MeAt, Flagged, Queued, Suspending
  <2> QED
    BY <2>1, <2>3
<1> QED
  BY <1>1, InvariantHolds, PTL

\* activeThreads is wrong only inside block(), where a timer handler that would
\* be misled by it finds a flag and leaves.
THEOREM ActiveCorrect == Spec => []ActiveIsRunning
<1>1. ASSUME IInv PROVE ActiveIsRunning
  <2> SUFFICES ASSUME NEW c \in Core, active[c] # sp[c],
                      NEW k, k = IF pc[<<sp[c], 0>>] \in Window
                                 THEN <<sp[c], 0>> ELSE <<sp[c], 1>>
               PROVE  pc[k] \in Window /\ active[c] = nxt[k] /\ flag[active[c]]
    BY DEF ActiveIsRunning, Window
  <2>1. CoreInv(c) /\ sp[c] \in Thread
    BY <1>1 DEF IInv, SafeInv, TypeOK
  <2>2. pc[k] \in Window /\ active[c] = nxt[k] /\ k \in Ctx
    BY <2>1, CtxFacts DEF CoreInv
  <2> QED
    BY <1>1, <2>2 DEF IInv, SafeInv, ChosenInv, Chosen, Window
<1> QED
  BY <1>1, InvariantHolds, PTL

\* A timer handler runs with interrupts off, and no other code does.
THEOREM InterruptsCorrect == Spec => []InterruptsMatch
<1>1. IInv => InterruptsMatch
  BY DEF IInv, SafeInv, CoreInv, InterruptsMatch
<1> QED
  BY <1>1, InvariantHolds, PTL

\* No queue, core, register or pending release leads to a deleted thread.
THEOREM NoDangling == Spec => []NoUseAfterDelete
<1>1. ASSUME IInv PROVE NoUseAfterDelete
  <2> SUFFICES ASSUME NEW t \in Thread, pc[<<t, 0>>] = "free"
               PROVE  /\ \A c \in Core : sp[c] # t /\ active[c] # t
                      /\ \A q \in Queue : ~InQueue(q, t)
                      /\ \A k \in Ctx : me[k] # t /\ nxt[k] # t
                      /\ \A u \in Thread : prev[u] # t
    BY DEF NoUseAfterDelete, Live
  <2>1. ThreadInv(t) /\ t # None
    BY <1>1, KThreadsAssumption DEF IInv, SafeInv, KThreadsAssumption, Thread
  <2>2. ~Running(t) /\ ~Held(t)
    BY <2>1 DEF ThreadInv, StackAt, HeldAt
  <2>3. /\ \A q \in Queue : ~InQueue(q, t)
        /\ \A k \in Ctx : nxt[k] # t
    BY <2>2 DEF Held
  <2>4. ASSUME NEW c \in Core PROVE sp[c] # t /\ active[c] # t
    <3>1. sp[c] # t /\ sp[c] \in Thread /\ CoreInv(c)
      BY <1>1, <2>2 DEF Running, IInv, SafeInv, TypeOK
    <3> QED
      BY <3>1, <2>3, CtxFacts DEF CoreInv
  <2>5. ASSUME NEW k \in Ctx PROVE me[k] # t
    <3>1. PICK u \in Thread : k = <<u, 0>> \/ k = <<u, 1>>
      BY CtxFacts
    <3>2. MeAt(u) /\ LevelsAt(u) /\ nxt[<<u, 0>>] # t
      BY <1>1, <2>3, CtxFacts DEF IInv, SafeInv, ThreadInv
    <3>3. CASE u = t
      BY <2>1, <3>1, <3>2, <3>3 DEF MeAt, LevelsAt, Flagged, Queued, Suspending
    <3>4. CASE u # t
      BY <2>1, <3>1, <3>2, <3>4 DEF MeAt, LevelsAt, Flagged, Queued, Suspending
    <3> QED
      BY <3>3, <3>4
  <2>6. \A u \in Thread : prev[u] # t
    BY <1>1, <2>1 DEF IInv, SafeInv, PrevInv
  <2> QED
    BY <2>3, <2>4, <2>5, <2>6
<1> QED
  BY <1>1, InvariantHolds, PTL

\* Only contextSwitch moves a core to another stack.
LEMMA OnlyLoadSwitches ==
  ASSUME NEW c \in Core, CoreStep(c) \/ Interrupt(c)
  PROVE  sp' = sp \/ Load(c)
<1>1. CASE Sti(c) \/ Arrive(c) \/ Interrupt(c)
  BY <1>1 DEF Sti, Arrive, Interrupt, cpu
<1>2. CASE YieldOrStop(c)
  BY <1>2
     DEF YieldOrStop, Yield, CheckAlone, SetAlone, Enqueue, Stop, Mark, Bury, cpu
<1>3. CASE Block(c)
  BY <1>3 DEF Block, Pick, PickedMyself, TestNext, Requeue, Claim, Activate, cpu
<1>4. CASE Switch(c)
  BY <1>4 DEF Switch, Save, ReleasePrev, ReleaseCurr, Entry, cpu
<1>5. CASE ReapOrSpawn(c)
  BY <1>5 DEF ReapOrSpawn, Reap, Inspect, Rebury, Delete, Spawn, Schedule, cpu
<1>6. CASE \E s \in Sem : Down(c, s) \/ Up(c, s)
  BY <1>6 DEF Down, Up, cpu
<1> QED
  BY <1>1, <1>2, <1>3, <1>4, <1>5, <1>6 DEF CoreStep

\* Only its deletion takes a thread out of those that stopped.
LEMMA StoppedUntilDeleted ==
  ASSUME Next, NEW t \in stopped, t \notin stopped'
  PROVE  \E c \in Core : Delete(c)
<1> PICK c \in Core : CoreStep(c) \/ Interrupt(c)
  BY DEF Next
<1>1. CASE Sti(c) \/ Arrive(c) \/ Interrupt(c)
  BY <1>1 DEF Sti, Arrive, Interrupt
<1>2. CASE YieldOrStop(c)
  BY <1>2 DEF YieldOrStop, Yield, CheckAlone, SetAlone, Enqueue, Stop, Mark, Bury
<1>3. CASE Block(c)
  BY <1>3 DEF Block, Pick, PickedMyself, TestNext, Requeue, Claim, Activate
<1>4. CASE Switch(c)
  BY <1>4 DEF Switch, Save, Load, ReleasePrev, ReleaseCurr, Entry
<1>5. CASE ReapOrSpawn(c)
  BY <1>5 DEF ReapOrSpawn, Reap, Inspect, Rebury, Spawn, Schedule
<1>6. CASE \E s \in Sem : Down(c, s) \/ Up(c, s)
  BY <1>6 DEF Down, Up
<1> QED
  BY <1>1, <1>2, <1>3, <1>4, <1>5, <1>6 DEF CoreStep

\* A stopped thread is never switched to again, and never comes out of block().
THEOREM StoppedStays == Spec => StoppedForGood
<1>1. ASSUME IInv, Next, NEW c \in Core, sp'[c] # sp[c]
      PROVE  sp'[c] \notin stopped
  <2>1. PICK d \in Core : Load(d)
    BY <1>1, OnlyLoadSwitches DEF Next
  <2>2. sp' = [sp EXCEPT ![d] = nxt[Here(d)]] /\ pc[Here(d)] = "load"
    BY <2>1 DEF Load, At
  <2>3. c = d /\ sp'[c] = nxt[Here(d)] /\ Here(d) \in Ctx
    BY <1>1, <2>2, HereFacts DEF IInv, SafeInv, TypeOK
  <2> QED
    BY <1>1, <2>2, <2>3 DEF IInv, SafeInv, ZombieInv, Reaping
<1>2. ASSUME IInv, IInv', Next, NEW t \in stopped
      PROVE  pc'[<<t, 0>>] \notin {"work", "reap"}
  <2>1. t \in Thread
    BY <1>2 DEF IInv, SafeInv, TypeOK
  <2>2. CASE t \in stopped'
    <3>1. ThreadInv(t)'
      BY <1>2, <2>1 DEF IInv, SafeInv
    <3> QED
      BY <2>2, <3>1 DEF ThreadInv, HeldAt, FlagAt, StackAt, LevelsAt, MeAt, Queued
  <2>3. CASE t \notin stopped'
    <3>1. PICK c \in Core : Delete(c)
      BY <1>2, <2>3, StoppedUntilDeleted
    <3>2. t = nxt[Here(c)]
      BY <1>2, <2>3, <3>1 DEF Delete
    <3>3. pc \in [Ctx -> Label] /\ <<t, 0>> \in Ctx
      BY <1>2, <2>1, CtxFacts DEF IInv, SafeInv, TypeOK
    <3> QED
      BY <3>1, <3>2, <3>3 DEF Delete
  <2> QED
    BY <2>2, <2>3
<1>3. ASSUME IInv, IInv', [Next]_vars
      PROVE  [/\ \A c \in Core : sp'[c] # sp[c] => sp'[c] \notin stopped
              /\ \A t \in stopped : pc'[<<t, 0>>] \notin {"work", "reap"}]_vars
  BY <1>1, <1>2, <1>3
<1> QED
  BY <1>3, InvariantHolds, PTL DEF Spec, StoppedForGood

-----------------------------------------------------------------------------
(* The threads and semaphores a user sees *)

\* What a user sees of the threads depends on which are live, stopped or waiting.
LEMMA SeenSame ==
  ASSUME stopped' = stopped, \A s \in Sem : queue'[s] = queue[s],
         \A u \in Thread : pc'[<<u, 0>>] = "free" <=> pc[<<u, 0>>] = "free"
  PROVE  Lives' = Lives /\ Waiters' = Waiters
<1>1. \A s \in Sem : \A u : InQueue(s, u)' <=> InQueue(s, u)
  BY DEF InQueue
<1>2. \A u \in Thread : (Waiting(u)' <=> Waiting(u)) /\ (Live(u)' <=> Live(u))
  BY <1>1 DEF Waiting, Live
<1> QED
  BY <1>2 DEF Lives, Waiters

\* A step of one program counter deletes nobody and makes nobody.
LEMMA LiveSame ==
  ASSUME SafeInv, NEW c \in Core, NEW a, NEW b, Moves(c, a, b), b # "free"
  PROVE  \A u \in Thread : pc'[<<u, 0>>] = "free" <=> pc[<<u, 0>>] = "free"
<1>1. sp[c] \in Thread /\ Running(sp[c])
  BY DEF SafeInv, TypeOK, Running
<1>2. pc[<<sp[c], 0>>] # "free"
  BY <1>1 DEF SafeInv, ThreadInv, StackAt
<1> QED
  BY <1>1, <1>2 DEF Moves

\* A step inside the kernel that a user does not see.
Unseen == UNCHANGED Abstract!vars

LEMMA HiddenMove ==
  ASSUME SafeInv, NEW c \in Core, NEW a, NEW b, At(c, a), Goto(Here(c), b), b # "free",
         UNCHANGED <<sp, count, stopped>>, \A s \in Sem : queue'[s] = queue[s]
  PROVE  Unseen
<1>1. Moves(c, a, b)
  BY Moved DEF SafeInv
<1>2. \A u \in Thread : pc'[<<u, 0>>] = "free" <=> pc[<<u, 0>>] = "free"
  BY <1>1, LiveSame
<1> QED
  BY <1>2, SeenSame DEF Unseen, Abstract!vars

\* A user sees nothing of yield(), of block() and of the switch but its one change of
\* stacks, of the reaper's search, and of the boot.
LEMMA HiddenSteps ==
  ASSUME SafeInv, KThreadsAssumption, NEW c \in Core,
         \/ Sti(c) \/ Arrive(c) \/ Yield(c) \/ CheckAlone(c) \/ SetAlone(c)
         \/ Enqueue(c) \/ Stop(c) \/ Mark(c) \/ Block(c)
         \/ Save(c) \/ ReleaseCurr(c) \/ Entry(c)
         \/ Reap(c) \/ Inspect(c) \/ Rebury(c) \/ Schedule(c)
  PROVE  Unseen
<1>1. /\ queue \in [Queue -> Seq(Thread)]
      /\ \A s \in Sem : s \in Queue /\ s # "ready" /\ s # "zombie"
  BY DEF SafeInv, TypeOK, Queue, KThreadsAssumption
<1>2. ASSUME NEW q \in {"ready", "zombie"}, NEW t, Add(q, t) \/ Remove(q)
      PROVE  \A s \in Sem : queue'[s] = queue[s]
  BY <1>1, <1>2 DEF Add, Remove
<1>3. CASE Sti(c)
  BY <1>3, HiddenMove DEF Sti, mem
<1>4. CASE Arrive(c)
  BY <1>4, HiddenMove DEF Arrive, cpu
<1>5. CASE Yield(c) \/ Stop(c)
  <2>1. PICK a \in {"yield", "stop", "work"} : At(c, a)
    BY <1>5 DEF Yield, Stop, Enter
  <2>2. PICK b \in {"check", "mark"} : Goto(Here(c), b)
    BY <1>5 DEF Yield, Stop
  <2> QED
    BY <1>5, <2>1, <2>2, HiddenMove DEF Yield, Stop, cpu, mem
<1>6. CASE CheckAlone(c)
  <2>1. PICK b \in {"none", "reap", "work", "set"} : Goto(Here(c), b)
    BY <1>6 DEF CheckAlone, Return
  <2> QED
    BY <1>6, <2>1, HiddenMove DEF CheckAlone, mem
<1>7. CASE SetAlone(c)
  BY <1>7, HiddenMove DEF SetAlone, cpu
<1>8. CASE Enqueue(c)
  BY <1>2, <1>8, HiddenMove DEF Enqueue, cpu
<1>9. CASE Mark(c)
  BY <1>9, HiddenMove DEF Mark, cpu
<1>10. CASE Block(c)
  <2>1. CASE Pick(c)
    BY <1>2, <2>1, HiddenMove DEF Pick, cpu
  <2>2. CASE PickedMyself(c)
    <3>1. PICK b \in {"none", "reap", "work"} : Goto(Here(c), b)
      BY <2>2 DEF PickedMyself, Return
    <3> QED
      BY <2>2, <3>1, HiddenMove DEF PickedMyself
  <2>3. CASE TestNext(c)
    <3>1. PICK b \in {"requeue", "claim"} : Goto(Here(c), b)
      BY <2>3 DEF TestNext
    <3> QED
      BY <2>3, <3>1, HiddenMove DEF TestNext, cpu, mem
  <2>4. CASE Requeue(c)
    BY <1>2, <2>4, HiddenMove DEF Requeue, cpu
  <2>5. CASE Claim(c)
    BY <2>5, HiddenMove DEF Claim, cpu
  <2>6. CASE Activate(c)
    BY <2>6, HiddenMove DEF Activate, mem
  <2> QED
    BY <1>10, <2>1, <2>2, <2>3, <2>4, <2>5, <2>6 DEF Block
<1>11. CASE Save(c)
  BY <1>11, HiddenMove DEF Save, cpu
<1>12. CASE ReleaseCurr(c)
  <2>1. PICK a \in {"off", "born"} : At(c, a)
    BY <1>12 DEF ReleaseCurr, Switched
  <2>2. PICK b \in {"none", "reap", "work", "entry"} : Goto(Here(c), b)
    BY <1>12 DEF ReleaseCurr, Return
  <2> QED
    BY <1>12, <2>1, <2>2, HiddenMove DEF ReleaseCurr
<1>13. CASE Entry(c)
  <2>1. PICK b \in {"reap", "work"} : Goto(Here(c), b)
    BY <1>13 DEF Entry
  <2> QED
    BY <1>13, <2>1, HiddenMove DEF Entry, cpu, mem
<1>14. CASE Reap(c)
  <2>1. PICK a \in {"reap", "work"} : At(c, a)
    BY <1>14 DEF Reap, Enter
  <2>2. PICK b \in {"yield", "spawn", "inspect"} : Goto(Here(c), b)
    BY <1>14 DEF Reap, Reaped
  <2>3. \A s \in Sem : queue'[s] = queue[s]
    BY <1>2, <1>14 DEF Reap
  <2>4. UNCHANGED <<sp, count, stopped>>
    BY <1>14 DEF Reap, cpu
  <2> QED
    BY <2>1, <2>2, <2>3, <2>4, HiddenMove
<1>15. CASE Inspect(c)
  <2>1. PICK b \in {"yield", "spawn", "rebury", "delete"} : Goto(Here(c), b)
    BY <1>15 DEF Inspect, Reaped
  <2> QED
    BY <1>15, <2>1, HiddenMove DEF Inspect, cpu, mem
<1>16. CASE Rebury(c)
  BY <1>2, <1>16, HiddenMove DEF Rebury, cpu
<1>17. CASE Schedule(c)
  <2>1. PICK b \in {"work", "stop"} : Goto(Here(c), b)
    BY <1>17 DEF Schedule
  <2> QED
    BY <1>2, <1>17, <2>1, HiddenMove DEF Schedule, cpu
<1> QED
  BY <1>3, <1>4, <1>5, <1>6, <1>7, <1>8, <1>9, <1>10, <1>11, <1>12, <1>13, <1>14,
     <1>15, <1>16, <1>17

\* Nor does a user see a timer interrupt begin, or a flag go down after a switch.
LEMMA HiddenInterrupt ==
  ASSUME SafeInv, NEW c \in Core, Interrupt(c) \/ ReleasePrev(c)
  PROVE  Unseen
<1>1. UNCHANGED <<sp, count, stopped, queue>>
  BY DEF Interrupt, ReleasePrev, cpu, mem
<1>2. \A u \in Thread : pc'[<<u, 0>>] = pc[<<u, 0>>]
  BY CtxFacts DEF Interrupt, ReleasePrev, Goto, SafeInv, TypeOK
<1> QED
  BY <1>1, <1>2, SeenSame DEF Unseen, Abstract!vars

\* A thread that is on a core and not in block() is neither waiting nor stopped.
LEMMA RunnableNow ==
  ASSUME SafeInv, NEW c \in Core, ~Held(sp[c]), pc[<<sp[c], 0>>] # "off",
         pc[<<sp[c], 0>>] \notin Queued
  PROVE  sp[c] \in Thread /\ Lives[sp[c]] = "runnable" /\ sp[c] \notin stopped
<1>1. sp[c] \in Thread /\ Running(sp[c])
  BY DEF SafeInv, TypeOK, Running
<1>2. ThreadInv(sp[c])
  BY <1>1 DEF SafeInv
<1>3. pc[<<sp[c], 0>>] # "free" /\ sp[c] \notin stopped
  BY <1>1, <1>2 DEF ThreadInv, StackAt, HeldAt
<1>4. ~Waiting(sp[c])
  BY DEF Waiting, Held, Queue
<1> QED
  BY <1>1, <1>3, <1>4 DEF Lives, Live

\* stop() is over for the thread once it is in zombieQ.
LEMMA BuryIsStop ==
  ASSUME SafeInv, KThreadsAssumption, NEW c \in Core, Bury(c)
  PROVE  Abstract!Stop(c)
<1>1. /\ TypeOK /\ sp[c] \in Thread /\ ThreadInv(sp[c]) /\ Here(c) \in Ctx
      /\ Moves(c, "bury", "block")
  BY HereFacts, Moved DEF SafeInv, Bury
<1>2. pc[<<sp[c], 0>>] = "bury" /\ pc[<<sp[c], 1>>] = "none"
  BY <1>1 DEF Moves, ThreadInv, LevelsAt, Suspending, Queued
<1>3. me[Here(c)] = sp[c]
  BY <1>1, <1>2, HereFacts DEF ThreadInv, MeAt, Flagged
<1>4. ~Held(sp[c])
  BY <1>1, <1>2, RunningHeld DEF Running, Queued
<1>5. Lives[sp[c]] = "runnable"
  BY <1>2, <1>4, RunnableNow DEF Queued
<1>6. /\ UNCHANGED <<sp, count>> /\ stopped' = stopped \cup {sp[c]}
      /\ queue' = [queue EXCEPT !["zombie"] = Append(queue["zombie"], sp[c])]
  BY <1>3 DEF Bury, Add, cpu
<1>7. \A s \in Sem : queue'[s] = queue[s]
  BY <1>1, <1>6 DEF TypeOK, Queue, KThreadsAssumption
<1>8. \A u \in Thread : (Waiting(u)' <=> Waiting(u)) /\ (Live(u)' <=> Live(u))
  <2>1. \A u \in Thread : pc'[<<u, 0>>] = "free" <=> pc[<<u, 0>>] = "free"
    BY <1>1, LiveSame
  <2>2. \A s \in Sem : \A u : InQueue(s, u)' <=> InQueue(s, u)
    BY <1>7 DEF InQueue
  <2> QED
    BY <2>1, <2>2 DEF Waiting, Live
<1>9. Live(sp[c])
  BY <1>2 DEF Live
<1>10. Lives' = [Lives EXCEPT ![sp[c]] = "stopped"]
  BY <1>1, <1>6, <1>8, <1>9 DEF Lives
<1>11. Waiters' = Waiters
  BY <1>7 DEF Waiters
<1> QED
  BY <1>1, <1>5, <1>6, <1>10, <1>11 DEF Abstract!Stop, Abstract!Become, Lives

\* contextSwitch takes up a thread that is ready and on no core.
LEMMA LoadIsDispatch ==
  ASSUME SafeInv, KThreadsAssumption, NEW c \in Core, Load(c)
  PROVE  \E t \in Thread : Abstract!Dispatch(c, t)
<1>1. /\ TypeOK /\ Here(c) \in Ctx /\ Moves(c, "load", "off")
      /\ pc[Here(c)] = "load"
  BY HereFacts, Moved DEF SafeInv, Load, At
<1>2. PICK n : n = nxt[Here(c)]
  OBVIOUS
<1>3. /\ n \in Thread /\ pc[<<n, 0>>] # "free" /\ ~Running(n)
      /\ \A q \in Queue : ~InQueue(q, n)
  BY <1>1, <1>2, HandFacts DEF Holding, Chosen, SafeInv, ChosenInv
<1>4. n \notin stopped
  BY <1>1, <1>2 DEF SafeInv, ZombieInv, Reaping
<1>5. Lives[n] = "runnable"
  BY <1>3, <1>4 DEF Lives, Live, Waiting, Queue
<1>6. sp' = [sp EXCEPT ![c] = n] /\ UNCHANGED <<queue, count, stopped>>
  BY <1>2 DEF Load
<1>7. Lives' = Lives /\ Waiters' = Waiters
  BY <1>1, <1>6, LiveSame, SeenSame
<1> QED
  BY <1>3, <1>5, <1>6, <1>7 DEF Abstract!Dispatch, Abstract!Idle, Running

\* delete frees a thread that has stopped and is on no core.
LEMMA DeleteIsFree ==
  ASSUME SafeInv, KThreadsAssumption, NEW c \in Core, Delete(c)
  PROVE  \E t \in Thread : Abstract!Free(t)
<1>1. /\ TypeOK /\ Here(c) \in Ctx /\ pc[Here(c)] = "delete"
      /\ sp[c] \in Thread /\ ThreadInv(sp[c])
  BY HereFacts DEF SafeInv, Delete, At
<1>2. PICK z : z = nxt[Here(c)]
  OBVIOUS
<1>3. z \in Thread /\ Held(z) /\ pc[<<z, 0>>] # "free"
  BY <1>1, <1>2, HandFacts DEF Holding, Reaping
<1>4. z \in stopped /\ ~flag[z]
  BY <1>1, <1>2 DEF SafeInv, ZombieInv, Reaping
<1>5. ~Running(z)
  BY <1>3, <1>4, RunningHeld
<1>6. Here(c) = <<sp[c], 0>> /\ z # sp[c]
  BY <1>1, <1>5, HereFacts
     DEF ThreadInv, LevelsAt, Suspending, Queued, Running
<1>7. /\ pc' = [pc EXCEPT ![Here(c)] = "reap", ![<<z, 0>>] = "free"]
      /\ UNCHANGED <<sp, queue, count>> /\ stopped' = stopped \ {z}
  BY <1>2 DEF Delete, cpu
<1>8. /\ pc'[<<z, 0>>] = "free"
      /\ \A u \in Thread : u # z => (pc'[<<u, 0>>] = "free" <=> pc[<<u, 0>>] = "free")
  <2>1. \A u \in Thread : <<u, 0>> = <<z, 0>> => u = z
    OBVIOUS
  <2>2. pc'[Here(c)] = "reap"
    BY <1>1, <1>6, <1>7 DEF TypeOK
  <2>3. \A l \in Ctx : l # Here(c) /\ l # <<z, 0>> => pc'[l] = pc[l]
    BY <1>1, <1>7 DEF TypeOK
  <2>4. pc'[<<z, 0>>] = "free"
    BY <1>1, <1>3, <1>7, CtxFacts DEF TypeOK
  <2> QED
    BY <1>1, <2>1, <2>2, <2>3, <2>4, CtxFacts
<1>9. \A u \in Thread : u # z => (Live(u)' <=> Live(u))
  BY <1>8 DEF Live
<1>10. \A u \in Thread : Waiting(u)' <=> Waiting(u)
  BY <1>7 DEF Waiting, InQueue
<1>11. ~Live(z)' /\ Live(z)
  BY <1>3, <1>8 DEF Live
<1>12. Lives[z] = "stopped" /\ Lives' = [Lives EXCEPT ![z] = "absent"]
  BY <1>3, <1>4, <1>7, <1>9, <1>10, <1>11 DEF Lives
<1>13. Waiters' = Waiters
  BY <1>7 DEF Waiters
<1> QED
  BY <1>3, <1>5, <1>7, <1>12, <1>13
     DEF Abstract!Free, Abstract!Become, Abstract!Idle, Running, Lives

\* new ThreadImpl makes a thread that wants to run.
LEMMA SpawnIsCreate ==
  ASSUME SafeInv, KThreadsAssumption, NEW c \in Core, Spawn(c)
  PROVE  \E t \in Thread : Abstract!Create(t)
<1>1. /\ TypeOK /\ Here(c) \in Ctx /\ pc[Here(c)] = "spawn"
      /\ sp[c] \in Thread /\ ThreadInv(sp[c])
  BY HereFacts DEF SafeInv, Spawn, At
<1>2. PICK z \in User :
        /\ pc[<<z, 0>>] = "free"
        /\ pc' = [pc EXCEPT ![Here(c)] = "schedule", ![<<z, 0>>] = "born"]
  BY DEF Spawn
<1>3. z \in Thread /\ UNCHANGED <<sp, queue, count, stopped>>
  BY DEF Spawn, cpu, Thread
<1>4. z \notin stopped /\ ~Held(z)
  BY <1>2, <1>3 DEF SafeInv, ThreadInv, HeldAt, Queued
<1>5. Here(c) = <<sp[c], 0>>
  BY <1>1, HereFacts DEF ThreadInv, LevelsAt, Suspending, Queued
<1>6. /\ pc'[<<z, 0>>] # "free"
      /\ \A u \in Thread : u # z => (pc'[<<u, 0>>] = "free" <=> pc[<<u, 0>>] = "free")
  <2>1. \A u \in Thread : <<u, 0>> = <<z, 0>> => u = z
    OBVIOUS
  <2>2. Here(c) # <<z, 0>>
    BY <1>1, <1>2
  <2>3. pc'[Here(c)] = "schedule"
    BY <1>1, <1>2, <2>2 DEF TypeOK
  <2>4. \A l \in Ctx : l # Here(c) /\ l # <<z, 0>> => pc'[l] = pc[l]
    BY <1>1, <1>2 DEF TypeOK
  <2>5. pc'[<<z, 0>>] = "born"
    BY <1>1, <1>2, <1>3, CtxFacts DEF TypeOK
  <2> QED
    BY <1>1, <2>1, <2>3, <2>4, <2>5, CtxFacts
<1>7. \A u \in Thread : u # z => (Live(u)' <=> Live(u))
  BY <1>6 DEF Live
<1>8. \A u \in Thread : Waiting(u)' <=> Waiting(u)
  BY <1>3 DEF Waiting, InQueue
<1>9. ~Live(z) /\ Live(z)' /\ ~Waiting(z)
  BY <1>2, <1>4, <1>6 DEF Live, Waiting, Held, Queue
<1>10. Lives[z] = "absent" /\ Lives' = [Lives EXCEPT ![z] = "runnable"]
  BY <1>3, <1>4, <1>7, <1>8, <1>9 DEF Lives
<1>11. Waiters' = Waiters
  BY <1>3 DEF Waiters
<1> QED
  BY <1>3, <1>10, <1>11 DEF Abstract!Create, Abstract!Become, Lives

\* Whoever calls down() or up() is a user thread at work.
LEMMA CallerRuns ==
  ASSUME SafeInv, NEW c \in Core, Enter(c, "down") \/ Enter(c, "up")
  PROVE  /\ Here(c) = <<sp[c], 0>> /\ pc[Here(c)] = "work" /\ pc[<<sp[c], 1>>] = "none"
         /\ ~Held(sp[c]) /\ Lives[sp[c]] = "runnable" /\ sp[c] \in Thread
         /\ active[c] = sp[c] /\ sp[c] \notin stopped /\ At(c, "work")
<1>1. TypeOK /\ Here(c) \in Ctx /\ sp[c] \in Thread /\ ThreadInv(sp[c]) /\ CoreInv(c)
  BY HereFacts DEF SafeInv
<1>2. At(c, "work") /\ Here(c) \in User \X {0}
  BY <1>1 DEF Enter, At, TypeOK, Label
<1>3. Here(c)[2] = 0
  BY <1>2
<1>4. /\ Here(c) = <<sp[c], 0>> /\ pc[Here(c)] = "work"
      /\ pc[<<sp[c], 1>>] = "none"
  BY <1>1, <1>2, <1>3, HereFacts DEF At
<1>5. ~Held(sp[c]) /\ active[c] = sp[c]
  BY <1>1, <1>4, RunningHeld DEF Running, Queued, CoreInv, Window
<1> QED
  BY <1>1, <1>2, <1>4, <1>5, RunnableNow DEF Queued

\* down() takes one of the count, or makes the caller wait.
LEMMA DownIsTakeOrWait ==
  ASSUME SafeInv, KThreadsAssumption, NEW c \in Core, NEW s \in Sem, Down(c, s)
  PROVE  Abstract!Take(c, s) \/ Abstract!Wait(c, s)
<1>1. /\ Here(c) = <<sp[c], 0>> /\ pc[Here(c)] = "work" /\ ~Held(sp[c])
      /\ Lives[sp[c]] = "runnable" /\ sp[c] \in Thread /\ active[c] = sp[c]
      /\ sp[c] \notin stopped /\ At(c, "work")
  BY CallerRuns DEF Down
<1>2. TypeOK /\ s \in Queue /\ count[s] \in Nat
  BY DEF SafeInv, TypeOK, Queue
<1>3. CASE count[s] # 0
  <2>1. /\ count' = [count EXCEPT ![s] = count[s] - 1]
        /\ UNCHANGED <<sp, pc, queue, stopped>> /\ count[s] > 0
    BY <1>2, <1>3 DEF Down, cpu
  <2>2. Lives' = Lives /\ Waiters' = Waiters
    BY <2>1, SeenSame
  <2> QED
    BY <1>1, <2>1, <2>2 DEF Abstract!Take
<1>4. CASE count[s] = 0
  <2>1. /\ queue' = [queue EXCEPT ![s] = Append(queue[s], sp[c])]
        /\ UNCHANGED <<sp, count, stopped>> /\ Goto(Here(c), "block")
    BY <1>1, <1>4 DEF Down, Add, cpu
  <2>2. Waiters' = [Waiters EXCEPT ![s] = Append(Waiters[s], sp[c])]
    BY <1>2, <2>1 DEF TypeOK, Waiters, Queue
  <2>3. \A u \in Thread : Live(u)' <=> Live(u)
    <3>1. Moves(c, "work", "block")
      BY <1>1, <1>2, <2>1, Moved
    <3> QED
      BY <3>1, LiveSame DEF Live
  <2>4. \A r \in Queue : ~InQueue(r, sp[c])
    BY <1>1 DEF Held
  <2>5. \A r \in Queue, u \in Thread :
          InQueue(r, u)' <=> InQueue(r, u) \/ (r = s /\ u = sp[c])
    BY <1>1, <1>2, <2>1, <2>4, QueuePut DEF Add, SafeInv
  <2>6. \A u \in Thread : Waiting(u)' <=> Waiting(u) \/ u = sp[c]
    BY <2>5 DEF Waiting, Queue
  <2>7. Live(sp[c])
    BY <1>1 DEF Live
  <2>8. Lives' = [Lives EXCEPT ![sp[c]] = "waiting"]
    BY <1>1, <2>1, <2>3, <2>6, <2>7 DEF Lives
  <2> QED
    BY <1>1, <1>4, <2>1, <2>2, <2>8 DEF Abstract!Wait, Abstract!Become, Lives
<1> QED
  BY <1>3, <1>4

\* up() counts, or wakes whoever has waited longest.
LEMMA UpIsPostOrWake ==
  ASSUME SafeInv, KThreadsAssumption, NEW c \in Core, NEW s \in Sem, Up(c, s)
  PROVE  Abstract!Post(c, s) \/ Abstract!Wake(c, s)
<1>1. Lives[sp[c]] = "runnable" /\ At(c, "work")
  BY CallerRuns DEF Up
<1>2. TypeOK /\ QueuesInv /\ s \in Queue
  BY DEF SafeInv, Queue
<1>3. CASE queue[s] = <<>>
  <2>1. /\ count' = [count EXCEPT ![s] = count[s] + 1]
        /\ UNCHANGED <<sp, pc, queue, stopped>> /\ Waiters[s] = <<>>
    BY <1>3 DEF Up, cpu, Waiters
  <2>2. Lives' = Lives /\ Waiters' = Waiters
    BY <2>1, SeenSame
  <2> QED
    BY <1>1, <2>1, <2>2 DEF Abstract!Post
<1>4. CASE queue[s] # <<>>
  <2>1. /\ queue' = [queue EXCEPT ![s] = Tail(queue[s])] /\ Remove(s)
        /\ UNCHANGED <<sp, count, stopped>> /\ Goto(Here(c), "schedule")
    BY <1>4 DEF Up, Remove, cpu
  <2>2. PICK h : h = Head(queue[s])
    OBVIOUS
  <2>3. /\ h \in Thread /\ InQueue(s, h)
        /\ \A r \in Queue, u \in Thread : InQueue(r, u)' <=> InQueue(r, u) /\ u # h
    BY <1>2, <1>4, <2>1, <2>2, QueueTake
  <2>4. Waiters' = [Waiters EXCEPT ![s] = Tail(Waiters[s])]
        /\ Waiters[s] # <<>> /\ Head(Waiters[s]) = h
    BY <1>2, <1>4, <2>1, <2>2 DEF TypeOK, Waiters, Queue
  <2>5. \A u \in Thread : Live(u)' <=> Live(u)
    <3>1. Moves(c, "work", "schedule")
      BY <1>1, <1>2, <2>1, Moved
    <3> QED
      BY <3>1, LiveSame DEF Live
  <2>6. \A u \in Thread : Waiting(u)' <=> Waiting(u) /\ u # h
    BY <2>3 DEF Waiting, Queue
  <2>7. Live(h) /\ h \notin stopped
    <3>1. Held(h)
      BY <1>2, <2>3 DEF Held
    <3>2. s # "zombie"
      BY DEF KThreadsAssumption
    <3> QED
      BY <1>2, <2>3, <3>1, <3>2 DEF SafeInv, ThreadInv, HeldAt, ZombieInv, Live
  <2>8. Lives' = [Lives EXCEPT ![h] = "runnable"]
    BY <2>1, <2>3, <2>5, <2>6, <2>7 DEF Lives
  <2> QED
    BY <1>1, <2>1, <2>3, <2>4, <2>8 DEF Abstract!Wake, Abstract!Become, Lives
<1> QED
  BY <1>3, <1>4

\* Every step of the kernel is a step of the abstract threads, or none.
LEMMA NextIsThreads ==
  ASSUME SafeInv, KThreadsAssumption, [Next]_vars
  PROVE  [Abstract!Next]_Abstract!vars
<1>1. CASE UNCHANGED vars
  <2>1. Lives' = Lives /\ Waiters' = Waiters
    BY <1>1, SeenSame DEF vars, cpu, regs, mem
  <2> QED
    BY <1>1, <2>1 DEF Abstract!vars, vars, cpu, regs, mem
<1>2. ASSUME NEW c \in Core, CoreStep(c) \/ Interrupt(c)
      PROVE  Unseen \/ Abstract!Next
  <2>1. CASE Sti(c) \/ Arrive(c) \/ Interrupt(c)
    BY <2>1, HiddenSteps, HiddenInterrupt
  <2>2. CASE YieldOrStop(c)
    BY <2>2, HiddenSteps, BuryIsStop DEF YieldOrStop, Abstract!Next
  <2>3. CASE Block(c)
    BY <2>3, HiddenSteps
  <2>4. CASE Switch(c)
    BY <2>4, HiddenSteps, HiddenInterrupt, LoadIsDispatch
       DEF Switch, Abstract!Next
  <2>5. CASE ReapOrSpawn(c)
    BY <2>5, HiddenSteps, DeleteIsFree, SpawnIsCreate
       DEF ReapOrSpawn, Abstract!Next
  <2>6. ASSUME NEW s \in Sem, Down(c, s) \/ Up(c, s)
        PROVE  Abstract!Next
    BY <2>6, DownIsTakeOrWait, UpIsPostOrWake DEF Abstract!Next
  <2> QED
    BY <1>2, <2>1, <2>2, <2>3, <2>4, <2>5, <2>6 DEF CoreStep
<1> QED
  BY <1>1, <1>2 DEF Next, Unseen

\* The cores begin on threads of their own, and the semaphores without waiters.
LEMMA InitIsThreads ==
  ASSUME KThreadsAssumption, Init
  PROVE  Abstract!Init
<1>1. \A t \in Thread : Lives[t] \in {"absent", "runnable"}
  <2> SUFFICES ASSUME NEW t \in Thread PROVE ~Waiting(t)
    BY DEF Init, Lives
  <2> QED
    BY DEF Init, Waiting, InQueue, Queue, KThreadsAssumption
<1>2. \A c \in Core : Lives[c] = "runnable" /\ sp[c] = c /\ c \in Thread
  <2> SUFFICES ASSUME NEW c \in Core
               PROVE  Lives[c] = "runnable" /\ sp[c] = c /\ c \in Thread
    OBVIOUS
  <2>1. c \in Thread /\ sp[c] = c /\ stopped = {}
    BY DEF Init, Thread
  <2>2. pc[<<c, 0>>] = "boot"
    BY <2>1, CtxFacts DEF Init
  <2>3. Lives[c] # "absent"
    BY <2>1, <2>2 DEF Lives, Live
  <2> QED
    BY <1>1, <2>1, <2>3
<1>3. Waiters = [s \in Sem |-> <<>>]
  BY DEF Init, Waiters, Queue, KThreadsAssumption
<1>4. Lives \in [Thread -> {"absent", "runnable"}]
  BY <1>1 DEF Lives
<1>5. sp \in [Core -> Thread] /\ count \in [Sem -> Nat]
  BY <1>2 DEF Init, KThreadsAssumption
<1> QED
  BY <1>2, <1>3, <1>4, <1>5 DEF Abstract!Init

\* The threads of p6 do what the abstract threads do: whatever the locks, flags,
\* interrupts and switches are up to, a core takes up only a thread that wants to run
\* and that no core is on, who stops is not run again, and a semaphore wakes its
\* waiters one by one in the order in which they came.
THEOREM DoesWhatThreadsDo == Spec => ImplementsThreads
<1>1. Init => Abstract!Init
  BY InitIsThreads, KThreadsAssumption
<1>2. IInv /\ [Next]_vars => [Abstract!Next]_Abstract!vars
  BY NextIsThreads, KThreadsAssumption DEF IInv
<1> QED
  BY <1>1, <1>2, InvariantHolds, PTL DEF Spec, ImplementsThreads, Abstract!Spec

-----------------------------------------------------------------------------
(* The same of p5 with any number of cores and threads, from PreemptProofs *)

\* A behaviour of both is one of p5's, if p6 is not looked at.
LEMMA ThreadsOfP5 == ThreadsSpec => P!Spec
<1>1. ThreadsInit => P!Init
  BY DEF ThreadsInit
<1>2. [ThreadsNext]_<<design, vars, pVars>> => [P!Next]_P!vars
  BY DEF ThreadsNext, pVars, P!vars, P!kernel, P!queues
<1> QED
  BY <1>1, <1>2, PTL DEF ThreadsSpec, P!Spec

\* The queues and cores of p5 never share a thread or a stack, and lose none.
THEOREM PlacesOfP5 == ThreadsSpec => []OnePlace5
<1>1. P!Spec => []P!OneCorePerStack
  BY P!StacksExclusive
<1>2. P!Spec => []P!OnePlace
  BY P!PlacesExclusive
<1> QED
  BY <1>1, <1>2, ThreadsOfP5, PTL DEF OnePlace5

\* reap() in yield() deletes a thread only when nobody is on it or leads to it.
THEOREM DanglingOfP5 == ThreadsSpec => []NothingDangles
<1>1. P!Spec => []P!NothingDangles
  BY P!NoDangling
<1> QED
  BY <1>1, ThreadsOfP5, PTL DEF NothingDangles

\* thread(), yield() and stop() of p5 do what Threads says threads do.
THEOREM DoneByP5 == ThreadsSpec => ImplementsThreads5
<1>1. P!Spec => P!ImplementsThreads
  BY P!DoesWhatThreadsDo
<1> QED
  BY <1>1, ThreadsOfP5, PTL DEF ImplementsThreads5
=============================================================================
