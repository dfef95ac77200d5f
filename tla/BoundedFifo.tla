---------------------------- MODULE BoundedFifo ----------------------------
(***************************************************************************)
(* A bounded first-in first-out queue: what a cbuf promises its users.     *)
(***************************************************************************)
EXTENDS Naturals, Sequences

CONSTANTS Items, Capacity

VARIABLES queue,  \* the items put and not taken
          out,    \* the items taken, in order
          open    \* the owner has not destroyed the queue

vars == <<queue, out, open>>

Init == queue = <<>> /\ out = <<>> /\ open = TRUE

Put(x) == /\ open /\ Len(queue) < Capacity
          /\ queue' = Append(queue, x)
          /\ UNCHANGED <<out, open>>

Take == /\ open /\ queue # <<>>
        /\ queue' = Tail(queue)
        /\ out' = Append(out, Head(queue))
        /\ UNCHANGED open

(* Its owner empties and abandons the queue. *)
Destroy == open /\ open' = FALSE /\ queue' = <<>> /\ UNCHANGED out

Next == (\E x \in Items : Put(x)) \/ Take \/ Destroy

Spec == Init /\ [][Next]_vars
=============================================================================
