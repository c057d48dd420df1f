--------------------------- MODULE MCKThreadsFair ---------------------------
(* KThreads under its fairness: from the boot, where one user thread is made, *)
(* and from the state behind it, where all of them may run.                  *)
EXTENDS MCKThreads

VARIABLE start

OneUser == \A u \in User \ {u1} : pc'[<<u, 0>>] = "free"

StartedInit ==
  \/ start = "boot" /\ Init
  \/ start = "booted" /\ Booted
StartedNext == Next /\ UNCHANGED start /\ (start = "boot" => OneUser)

FairStartedSpec == StartedInit /\ [][StartedNext]_<<vars, start>> /\ Fairness
=============================================================================
