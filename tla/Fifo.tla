-------------------------------- MODULE Fifo --------------------------------
(***************************************************************************)
(* What a character queue promises: bytes leave in the order they came in, *)
(* each one once, and at most Capacity of them are inside.                 *)
(***************************************************************************)
EXTENDS Naturals, Sequences

CONSTANTS Bytes, Capacity

VARIABLES q,   \* the bytes inside, oldest first
          out  \* the byte handed out last

vars == <<q, out>>

Init == q = <<>> /\ out \in Bytes

Put(b) ==
    /\ Len(q) < Capacity
    /\ q' = Append(q, b)
    /\ out' = out

Get ==
    /\ q # <<>>
    /\ out' = Head(q)
    /\ q' = Tail(q)

Next == Get \/ \E b \in Bytes : Put(b)

Spec == Init /\ [][Next]_vars
=============================================================================
