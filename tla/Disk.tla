-------------------------------- MODULE Disk --------------------------------
(***************************************************************************)
(* What the file system expects of a drive: readAll and writeAll move a    *)
(* range of units between a buffer and the drive, a sector at a time and   *)
(* in order, and touch nothing else.  A crash may fall between sectors.    *)
(***************************************************************************)
EXTENDS Naturals

CONSTANTS Drive, SectorSize, Capacity, Value, NoCall

VARIABLES units,  \* per drive, what is on it
          call    \* the call that is going on

Buffer(n) == [0..n - 1 -> Value]

Init ==
  /\ units \in [Drive -> Buffer(Capacity)]
  /\ call = NoCall

Call ==
  /\ call = NoCall
  /\ \E write \in BOOLEAN, d \in Drive, from \in 0..Capacity - 1, n \in 1..Capacity :
       \E data \in Buffer(n) :
         /\ from + n <= Capacity
         /\ call' = [write |-> write, drive |-> d, offset |-> from, n |-> n, buffer |-> data, total |-> 0]
  /\ UNCHANGED units

\* What is left of the call in the sector it has come to.
Part ==
  LET at == call.offset + call.total
      room == SectorSize - (at % SectorSize)
      left == call.n - call.total
  IN  [at |-> at, count |-> IF left < room THEN left ELSE room]

Move ==
  /\ call # NoCall /\ call.total < call.n
  /\ LET p == Part
         d == call.drive
     IN  /\ units' = IF call.write
                     THEN [units EXCEPT ![d] = [i \in DOMAIN @ |->
                             IF i \in p.at..p.at + p.count - 1 THEN call.buffer[i - call.offset] ELSE @[i]]]
                     ELSE units
         /\ call' = [call EXCEPT !.total = @ + p.count,
                       !.buffer = IF call.write THEN @ ELSE [i \in DOMAIN @ |->
                          IF i \in call.total..call.total + p.count - 1 THEN units[d][call.offset + i] ELSE @[i]]]

Return ==
  /\ call # NoCall /\ call.total = call.n
  /\ call' = NoCall
  /\ UNCHANGED units

Next == Call \/ Move \/ Return
Spec == Init /\ [][Next]_<<units, call>>
=============================================================================
