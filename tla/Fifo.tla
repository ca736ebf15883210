-------------------------------- MODULE Fifo --------------------------------
(***************************************************************************)
(* What a channel promises: a queue of at most Capacity values that every  *)
(* send extends at the end and every receive shortens at the front.        *)
(***************************************************************************)
EXTENDS Naturals, Sequences

CONSTANTS Values, Capacity

VARIABLES queue, received

vars == <<queue, received>>

Init == queue = <<>> /\ received = <<>>

Send(v) ==
    /\ Len(queue) < Capacity
    /\ queue' = Append(queue, v)
    /\ UNCHANGED received

Receive ==
    /\ queue # <<>>
    /\ queue' = Tail(queue)
    /\ received' = Append(received, Head(queue))

Next == Receive \/ \E v \in Values : Send(v)

Spec == Init /\ [][Next]_vars
=============================================================================
