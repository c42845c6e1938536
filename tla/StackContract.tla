----------------------------- MODULE StackContract -----------------------------
(***************************************************************************)
(* What the stacks of ts_stack.h promise: values are pushed on top, and    *)
(* each pop that returns one takes the top.                                *)
(***************************************************************************)
EXTENDS Sequences

CONSTANT Items

VARIABLES items,        \* the stack, top first
          taken         \* what was popped, in order

Init == items = <<>> /\ taken = <<>>

Push(x) == items' = <<x>> \o items /\ UNCHANGED taken

Pop ==
    /\ items # <<>>
    /\ taken' = Append(taken, Head(items))
    /\ items' = Tail(items)

Next == Pop \/ \E x \in Items : Push(x)

Spec == Init /\ [][Next]_<<items, taken>>
==============================================================================
