----------------------------- MODULE LockFreeQueue -----------------------------
(***************************************************************************)
(* lock_free_queue of ts_queue.h: a list with a dummy node at its end,     *)
(* head and tail counted pointers, and nodes that are deleted by the last  *)
(* thread that can reach them.                                             *)
(*                                                                         *)
(* Every atomic operation is a step.  A compare-exchange in a loop that    *)
(* repeats it with the value found is one step: failed attempts leave no   *)
(* trace.  A node is named by its address, and new takes the lowest free   *)
(* one, so addresses are reused as soon as they can be.                    *)
(***************************************************************************)
EXTENDS Integers, Sequences, SequencesExt, FiniteSets, FiniteSetsExt

CONSTANTS Threads, Values,
          MaxNodes,     \* addresses
          MaxPops       \* bound: rounds of pop's loop, over all threads

VARIABLES node,         \* the nodes, by address
          head, tail,   \* counted_node_ptr
          th,           \* each thread's call and its locals
          pops,         \* rounds of pop's loop that are left
          pushed,       \* values in the order they got their node
          late,         \* values stored in a node that had been popped
          popped,       \* values in the order the head passed them
          returned,     \* values whose push has returned
          wrong         \* a deleted node was touched, or deleted again

vars == <<node, head, tail, th, pops, pushed, late, popped, returned, wrong>>

Nodes == 1..MaxNodes

None == 0

NullPtr == [ptr |-> None, ext |-> 0]

(* external_counters is 2: the tail, and head or the predecessor's next.   *)
NewNode == [alive |-> TRUE, passed |-> FALSE, data |-> None, int |-> 0, counters |-> 2, next |-> NullPtr]

Deleted == [NewNode EXCEPT !.alive = FALSE]

FreeNodes(nd) == {n \in Nodes : ~nd[n].alive}

IdleThread == [at |-> "idle", old |-> NullPtr, new |-> None, target |-> None, val |-> None,
               last |-> FALSE]

Init ==
    /\ node = [n \in Nodes |-> IF n = 1 THEN NewNode ELSE Deleted]
    /\ head = [ptr |-> 1, ext |-> 1] /\ tail = [ptr |-> 1, ext |-> 1]
    /\ th = [t \in Threads |-> IdleThread]
    /\ pops = MaxPops
    /\ pushed = <<>> /\ late = {} /\ popped = <<>> /\ returned = {} /\ wrong = FALSE

Step(t, at) == th' = [th EXCEPT ![t].at = at]

Touch(n) == wrong' = (wrong \/ ~node[n].alive)

(* The node after a change of its count; with both counts 0 it is deleted. *)
Counted(nd) == IF nd.int = 0 /\ nd.counters = 0 THEN Deleted ELSE nd

ReleaseRef(nd) == Counted([nd EXCEPT !.int = @ - 1])

(* Mutant: the thread that frees the pointer counts itself as another.     *)
FreeExternalCounterOff(nd, ext) ==
    Counted([nd EXCEPT !.counters = @ - 1, !.int = @ + ext - 1])

FreeExternalCounter(nd, ext) ==
    Counted([nd EXCEPT !.counters = @ - 1, !.int = @ + ext - 2])

------------------------------------------------------------------------------
(* push                                                                    *)

BeginPush(t, v) ==
    /\ th[t].at = "idle" /\ v \notin Range(pushed) \union late /\ \A u \in Threads : th[u].val # v
    /\ LET n == Min(FreeNodes(node))
       IN  /\ node' = [node EXCEPT ![n] = NewNode]
           /\ th' = [th EXCEPT ![t] = [IdleThread EXCEPT !.at = "inc", !.new = n, !.val = v]]
    /\ UNCHANGED <<head, tail, pops, pushed, late, popped, returned, wrong>>

(* increase_external_count(tail, old_tail).                                *)
IncreaseTail(t) ==
    /\ th[t].at = "inc"
    /\ tail' = [tail EXCEPT !.ext = @ + 1]
    /\ th' = [th EXCEPT ![t].old = tail', ![t].at = "data"]
    /\ UNCHANGED <<node, head, pops, pushed, late, popped, returned, wrong>>

(* The tail node's data is set, or another push has done so.               *)
SetData(t) ==
    LET n == th[t].old.ptr
    IN  /\ th[t].at = "data"
        /\ Touch(n)
        /\ IF node[n].data = None
           THEN /\ node' = [node EXCEPT ![n].data = th[t].val]
                /\ IF node[n].passed
                   THEN late' = late \union {th[t].val} /\ UNCHANGED pushed
                   ELSE pushed' = Append(pushed, th[t].val) /\ UNCHANGED late
                /\ Step(t, "link")
           ELSE Step(t, "help") /\ UNCHANGED <<node, pushed, late>>
        /\ UNCHANGED <<head, tail, pops, popped, returned>>

(* After its data the push links a new tail node, unless a helper has.     *)
Link(t) ==
    LET n == th[t].old.ptr
        next == node[n].next
    IN  /\ th[t].at = "link"
        /\ Touch(n)
        /\ IF next = NullPtr
           THEN /\ node' = [node EXCEPT ![n].next = [ptr |-> th[t].new, ext |-> 1]]
                /\ th' = [th EXCEPT ![t].target = th[t].new, ![t].last = TRUE, ![t].at = "tail"]
           ELSE /\ node' = [node EXCEPT ![th[t].new] = Deleted]
                /\ th' = [th EXCEPT ![t].target = next.ptr, ![t].last = TRUE, ![t].at = "tail"]
        /\ UNCHANGED <<head, tail, pops, pushed, late, popped, returned>>

(* A push that lost the node helps: it links its own node and takes another*)
Help(t) ==
    LET n == th[t].old.ptr
        next == node[n].next
        m == Min(FreeNodes(node))
    IN  /\ th[t].at = "help"
        /\ Touch(n)
        /\ IF next = NullPtr
           THEN /\ node' = [node EXCEPT ![n].next = [ptr |-> th[t].new, ext |-> 1], ![m] = NewNode]
                /\ th' = [th EXCEPT ![t].target = th[t].new, ![t].new = m, ![t].at = "tail"]
           ELSE /\ th' = [th EXCEPT ![t].target = next.ptr, ![t].at = "tail"]
                /\ UNCHANGED node
        /\ UNCHANGED <<head, tail, pops, pushed, late, popped, returned>>

(* Mutant: the tail is set even though it has been moved on.               *)
SetNewTailAgain(t) ==
    /\ th[t].at = "tail"
    /\ tail' = [ptr |-> th[t].target, ext |-> 1]
    /\ th' = [th EXCEPT ![t].old.ext = tail.ext, ![t].at = "free"]
    /\ UNCHANGED <<node, head, pops, pushed, late, popped, returned, wrong>>

(* set_new_tail: only the first to get there moves the tail.               *)
SetNewTail(t) ==
    /\ th[t].at = "tail"
    /\ IF tail.ptr = th[t].old.ptr
       THEN /\ tail' = [ptr |-> th[t].target, ext |-> 1]
            /\ th' = [th EXCEPT ![t].old = tail, ![t].at = "free"]
       ELSE Step(t, "release") /\ UNCHANGED tail
    /\ UNCHANGED <<node, head, pops, pushed, late, popped, returned, wrong>>

LeaveNode(t) ==
    LET n == th[t].old.ptr
    IN  /\ th[t].at \in {"free", "release"}
        /\ Touch(n)
        /\ node' = [node EXCEPT ![n] = IF th[t].at = "free"
                                       THEN FreeExternalCounter(@, th[t].old.ext)
                                       ELSE ReleaseRef(@)]
        /\ th' = [th EXCEPT ![t] = IF @.last THEN IdleThread ELSE [@ EXCEPT !.at = "inc"]]
        /\ returned' = IF th[t].last THEN returned \union {th[t].val} ELSE returned
        /\ UNCHANGED <<head, tail, pops, pushed, late, popped>>

------------------------------------------------------------------------------
(* pop                                                                     *)

BeginPop(t) ==
    /\ th[t].at = "idle" /\ pops > 0
    /\ th' = [th EXCEPT ![t] = [IdleThread EXCEPT !.at = "incHead"]]
    /\ UNCHANGED <<node, head, tail, pops, pushed, late, popped, returned, wrong>>

IncreaseHead(t) ==
    /\ th[t].at = "incHead" /\ pops > 0
    /\ pops' = pops - 1
    /\ head' = [head EXCEPT !.ext = @ + 1]
    /\ th' = [th EXCEPT ![t].old = head', ![t].at = "empty"]
    /\ UNCHANGED <<node, tail, pushed, late, popped, returned, wrong>>

(* Head and tail at one node: the queue is empty.                          *)
IsEmpty(t) ==
    /\ th[t].at = "empty"
    /\ th' = [th EXCEPT ![t].last = (th[t].old.ptr = tail.ptr),
                        ![t].at = IF th[t].old.ptr = tail.ptr THEN "quit" ELSE "next"]
    /\ UNCHANGED <<node, head, tail, pops, pushed, late, popped, returned, wrong>>

LoadNext(t) ==
    LET n == th[t].old.ptr
    IN  /\ th[t].at = "next"
        /\ Touch(n)
        /\ th' = [th EXCEPT ![t].target = node[n].next.ptr, ![t].at = "head"]
        /\ UNCHANGED <<node, head, tail, pops, pushed, late, popped, returned>>

(* Mutant: a pop that another one overtook returns nothing.                *)
MoveHeadGivesUp(t) ==
    /\ th[t].at = "head"
    /\ IF head = th[t].old
       THEN /\ head' = [ptr |-> th[t].target, ext |-> 1]
            /\ popped' = Append(popped, node[head.ptr].data)
            /\ node' = [node EXCEPT ![head.ptr].passed = TRUE]
            /\ Step(t, "take")
       ELSE /\ th' = [th EXCEPT ![t].at = "quit", ![t].last = TRUE]
            /\ UNCHANGED <<node, head, popped>>
    /\ UNCHANGED <<tail, pops, pushed, late, returned, wrong>>

(* The head moves on only if nobody has come or gone since it was read.    *)
MoveHead(t) ==
    /\ th[t].at = "head"
    /\ IF head = th[t].old
       THEN /\ head' = [ptr |-> th[t].target, ext |-> 1]
            /\ popped' = Append(popped, node[head.ptr].data)
            /\ node' = [node EXCEPT ![head.ptr].passed = TRUE]
            /\ Step(t, "take")
       ELSE Step(t, "quit") /\ UNCHANGED <<node, head, popped>>
    /\ UNCHANGED <<tail, pops, pushed, late, returned, wrong>>

TakeData(t) ==
    LET n == th[t].old.ptr
    IN  /\ th[t].at = "take"
        /\ Touch(n)
        /\ node' = [node EXCEPT ![n].data = None]
        /\ th' = [th EXCEPT ![t].at = "quit", ![t].last = TRUE, ![t].val = node[n].data]
        /\ UNCHANGED <<head, tail, pops, pushed, late, popped, returned>>

(* free_external_counter after a value was taken, release_ref otherwise.   *)
Quit(t) ==
    LET n == th[t].old.ptr
    IN  /\ th[t].at = "quit"
        /\ Touch(n)
        /\ node' = [node EXCEPT ![n] = IF th[t].val # None
                                       THEN FreeExternalCounter(@, th[t].old.ext)
                                       ELSE ReleaseRef(@)]
        /\ th' = [th EXCEPT ![t] = IF @.last THEN IdleThread ELSE [@ EXCEPT !.at = "incHead"]]
        /\ UNCHANGED <<head, tail, pops, pushed, late, popped, returned>>

------------------------------------------------------------------------------
Push(t) ==
    \/ IncreaseTail(t) \/ SetData(t) \/ Link(t) \/ Help(t) \/ SetNewTail(t) \/ LeaveNode(t)

Pop(t) ==
    \/ IncreaseHead(t) \/ IsEmpty(t) \/ LoadNext(t) \/ MoveHead(t) \/ TakeData(t) \/ Quit(t)

Next ==
    \E t \in Threads :
        \/ \E v \in Values : BeginPush(t, v)
        \/ BeginPop(t) \/ Push(t) \/ Pop(t)

Spec == Init /\ [][Next]_vars

------------------------------------------------------------------------------
(* Properties                                                              *)

Queued == SubSeq(pushed, Len(popped) + 1, Len(pushed))

Contract == INSTANCE FifoContract WITH Items <- Values, todo <- Queued, done <- popped

(* Concurrent pushes and pops act like one queue, with the store of the    *)
(* data and the move of the head as the moments they take effect.  Left    *)
(* out are the late values: a push that took hold of the tail node before  *)
(* it was filled, passed and emptied finds its data null again, stores its *)
(* value there and returns, and the value is lost.                         *)
ImplementsContract == Contract!Spec

(* No thread touches a deleted node or deletes one twice, and once all     *)
(* calls have returned exactly the nodes of the list are left.             *)
NodesReclaimed ==
    /\ ~wrong
    /\ (\A t \in Threads : th[t].at \in {"idle", "incHead"})
        => Cardinality(Nodes \ FreeNodes(node)) = Len(Queued) + 1

(* pop returns nothing only when every value whose push has returned was   *)
(* popped, or is one of the late ones.                                     *)
EmptyOnlyIfEmpty ==
    [][\A t \in Threads :
          th[t].at \in {"empty", "head"} /\ th'[t].at = "quit" /\ th'[t].last
             => returned \subseteq Range(popped) \union late]_vars
==============================================================================
