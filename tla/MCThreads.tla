------------------------------ MODULE MCThreads ------------------------------
(* The preemptive threads of p6 (KThreads, behind its boot) and of p5          *)
(* (PreemptThreads, from its boot) for TLC: a behaviour is one of the two.     *)
EXTENDS MCKThreads

VARIABLES
  design,
  pSp, pIntr, pActive, pPc, pMe, pCand, pHow, pAt, pFlag, pSaved, pReady, pZombie, pHere

pVars == <<pSp, pIntr, pActive, pPc, pMe, pCand, pHow, pAt, pFlag, pSaved, pReady, pZombie, pHere>>

P == INSTANCE PreemptProofs WITH
  sp <- pSp, intr <- pIntr, active <- pActive, pc <- pPc, me <- pMe, cand <- pCand,
  how <- pHow, at <- pAt, flag <- pFlag, saved <- pSaved, readyQ <- pReady,
  zombieQ <- pZombie, here <- pHere

ThreadsInit == Booted /\ P!Init /\ design \in {"p5", "p6"}

ThreadsNext ==
  /\ UNCHANGED design
  /\ \/ design = "p6" /\ Next /\ UNCHANGED pVars
     \/ design = "p5" /\ P!Next /\ UNCHANGED vars

ThreadsSpec == ThreadsInit /\ [][ThreadsNext]_<<design, vars, pVars>>

-----------------------------------------------------------------------------
(* Properties *)

\* p5: no two cores are on one stack, though a thread is queued before it is saved;
\* and it is in one queue or one core's hands, and none gets lost, also when yield()
\* and stop() put back what they cannot take.
OnePlace5 == P!OneCorePerStack /\ P!OnePlace

\* p5: nobody is on, and nothing leads to, a stack that yield() has deleted.
NothingDangles == P!NothingDangles

\* p5: its threads do what the abstract threads do.
ImplementsThreads5 == P!ImplementsThreads

=============================================================================
