----------------------------- MODULE DequeContract -----------------------------
(***************************************************************************)
(* What threadsafe_queue_s promises: values are pushed at the back, a pop  *)
(* takes the front and a steal takes the back.                             *)
(***************************************************************************)
EXTENDS Sequences, SequencesExt

CONSTANT Items

VARIABLES items,        \* the queue, front first
          taken         \* what was taken, in order

Init == items = <<>> /\ taken = <<>>

Push(x) == items' = Append(items, x) /\ UNCHANGED taken

PopFront ==
    /\ items # <<>>
    /\ taken' = Append(taken, Head(items))
    /\ items' = Tail(items)

StealBack ==
    /\ items # <<>>
    /\ taken' = Append(taken, Last(items))
    /\ items' = Front(items)

Next == PopFront \/ StealBack \/ \E x \in Items : Push(x)

Spec == Init /\ [][Next]_<<items, taken>>
==============================================================================
