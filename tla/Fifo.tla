-------------------------------- MODULE Fifo --------------------------------
(***************************************************************************)
(* What a bounded queue promises, whatever it is made of: items leave in   *)
(* the order in which they came, each of them once, and there are never    *)
(* more than Capacity of them.  RecQueue (the QUEUE_T of recpt1) is shown  *)
(* to implement it.                                                        *)
(***************************************************************************)
EXTENDS Naturals, Sequences

CONSTANTS Items,     (* what may be queued                               *)
          Capacity   (* how many items fit                               *)

VARIABLE q           (* the queued items, oldest first                   *)

Init == q = <<>>

Add(x) == /\ Len(q) < Capacity
          /\ q' = Append(q, x)

Remove == /\ q # <<>>
          /\ q' = Tail(q)

Next == \/ \E x \in Items : Add(x)
        \/ Remove

Spec == Init /\ [][Next]_q

=============================================================================
