---------------------------- MODULE FifoContract ----------------------------
(***************************************************************************)
(* What the queues of this code base promise the threads that feed them:   *)
(* the items handed over form one queue, and the consumer finishes each of *)
(* them exactly once, in the order of the queue.  event_loop's functors,   *)
(* the messages of logic_system and the output of a chat session are       *)
(* shown to implement it.                                                  *)
(***************************************************************************)
EXTENDS Sequences

CONSTANT Items        \* what is ever handed over

VARIABLES todo,       \* handed over and not finished yet, oldest first
          done        \* finished, in order

cvars == <<todo, done>>

Init == todo = <<>> /\ done = <<>>

Submit(x) ==
    /\ todo' = Append(todo, x)
    /\ UNCHANGED done

Finish ==
    /\ todo # <<>>
    /\ done' = Append(done, Head(todo))
    /\ todo' = Tail(todo)

Next == Finish \/ \E x \in Items : Submit(x)

Spec == Init /\ [][Next]_cvars
=============================================================================
