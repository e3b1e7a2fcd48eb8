---------------------------- MODULE BoundedFifo -----------------------------
(***************************************************************************)
(* What a packet queue promises its users: items come out in the order     *)
(* they went in, none is lost or repeated, and there are never more than   *)
(* Capacity of them inside.                                                *)
(***************************************************************************)
EXTENDS Naturals, Sequences

CONSTANTS Item, Capacity

VARIABLES
  queue,     \* the items inside, oldest first
  delivered  \* the items that came out, in order

Init == queue = <<>> /\ delivered = <<>>

Put(x) ==
  /\ Len(queue) < Capacity
  /\ queue' = Append(queue, x)
  /\ UNCHANGED delivered

Get ==
  /\ queue # <<>>
  /\ delivered' = Append(delivered, Head(queue))
  /\ queue' = Tail(queue)

Next == Get \/ \E x \in Item : Put(x)

Spec == Init /\ [][Next]_<<queue, delivered>>
=============================================================================
