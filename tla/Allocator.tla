----------------------------- MODULE Allocator -----------------------------
(***************************************************************************)
(* What malloc and free promise: the blocks handed out are apart from each *)
(* other and as long as was asked, and malloc gives up only when no gap    *)
(* between them, however often blocks came and went, would do.             *)
(***************************************************************************)
EXTENDS Integers

CONSTANTS First, Last,  \* the part of the array that blocks are made of
          Slack         \* how many ints longer than needed a block may be

VARIABLES
  live,   \* from the first int of a block to its length
  failed  \* the ints malloc was just asked for in vain, or 0

Used == UNION {b..b + live[b] - 1 : b \in DOMAIN live}

Init == live = [b \in {} |-> 0] /\ failed = 0

Malloc(ints) ==
  /\ failed' = 0
  /\ \E b \in First..Last :
       /\ b \in DOMAIN live' \ DOMAIN live
       /\ \E n \in ints..ints + Slack :
            /\ live' = [c \in DOMAIN live \cup {b} |-> IF c = b THEN n ELSE live[c]]
            /\ b + n - 1 <= Last
            /\ (b..b + n - 1) \cap Used = {}

\* A request that no gap is long enough for.
GiveUp ==
  /\ failed' \in Nat \ {0}
  /\ \A b \in First..Last - failed' + 1 : (b..b + failed' - 1) \cap Used # {}
  /\ UNCHANGED live

Free(b) ==
  /\ live' = [c \in DOMAIN live \ {b} |-> live[c]]
  /\ failed' = 0

Next == (\E b \in DOMAIN live : Free(b)) \/ (\E ints \in 1..Last : Malloc(ints)) \/ GiveUp

Spec == Init /\ [][Next]_<<live, failed>>
=============================================================================
