------------------------------ MODULE Channel ------------------------------
(***************************************************************************)
(* What a BoundedBuffer promises: items come out in the order they went    *)
(* in, each once, and at most N are inside.                                *)
(***************************************************************************)
EXTENDS Naturals, Sequences

CONSTANTS Producer, Consumer, Item, N

VARIABLES
  inside,  \* the items put and not yet got
  given,   \* per producer, the item its put has still to put in
  got      \* per consumer, the item its get returns

vars == <<inside, given, got>>

Nothing == <<>>

Init ==
  /\ inside = <<>>
  /\ given = [p \in Producer |-> Nothing]
  /\ got = [c \in Consumer |-> Nothing]

CallPut(p, x) ==
  /\ given[p] = Nothing
  /\ given' = [given EXCEPT ![p] = <<x>>]
  /\ UNCHANGED <<inside, got>>

Put(p) ==
  /\ given[p] # Nothing /\ Len(inside) < N
  /\ inside' = inside \o given[p]
  /\ given' = [given EXCEPT ![p] = Nothing]
  /\ UNCHANGED got

Get(c) ==
  /\ got[c] = Nothing /\ inside # <<>>
  /\ got' = [got EXCEPT ![c] = <<Head(inside)>>]
  /\ inside' = Tail(inside)
  /\ UNCHANGED given

Return(c) ==
  /\ got' = [got EXCEPT ![c] = Nothing]
  /\ UNCHANGED <<inside, given>>

Next ==
  \/ \E p \in Producer : Put(p) \/ \E x \in Item : CallPut(p, x)
  \/ \E c \in Consumer : Get(c) \/ Return(c)

Spec == Init /\ [][Next]_vars
=============================================================================
