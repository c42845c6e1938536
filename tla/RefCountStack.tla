----------------------------- MODULE RefCountStack -----------------------------
(***************************************************************************)
(* ref_count_stack of ts_stack.h: a lock-free stack whose nodes count the  *)
(* threads that look at them, in head while they are on top and in the     *)
(* node once they leave; the last one deletes the node.                    *)
(*                                                                         *)
(* Every atomic operation is a step; a compare-exchange that is repeated   *)
(* with the value found is one.  Nodes are addresses, reused as soon as    *)
(* they can be.                                                            *)
(***************************************************************************)
EXTENDS Integers, Sequences, FiniteSets, FiniteSetsExt

CONSTANTS Threads, Values,
          MaxNodes,     \* addresses
          MaxPops       \* bound: rounds of pop's loop, over all threads

VARIABLES node,         \* the count_nodes, by address
          head,         \* counted_node_ptr
          th,           \* each thread's call and its locals
          pops,         \* rounds of pop's loop that are left
          unpushed,     \* values nobody has pushed
          taken,        \* values in the order the head left them
          wrong         \* a deleted node was touched, or an empty one popped

vars == <<node, head, th, pops, unpushed, taken, wrong>>

Nodes == 1..MaxNodes

None == 0

NullPtr == [ptr |-> None, ext |-> 0]

NewNode(v) == [alive |-> TRUE, data |-> v, int |-> 0, next |-> NullPtr]

Deleted == [NewNode(None) EXCEPT !.alive = FALSE]

IdleThread == [at |-> "idle", old |-> NullPtr]

Init ==
    /\ node = [n \in Nodes |-> Deleted] /\ head = NullPtr
    /\ th = [t \in Threads |-> IdleThread]
    /\ pops = MaxPops /\ unpushed = Values /\ taken = <<>> /\ wrong = FALSE

Step(t, at) == th' = [th EXCEPT ![t].at = at]

Touch(n) == wrong' = (wrong \/ ~node[n].alive)

(* The internal count changes by d; whoever brings it to 0 deletes.        *)
Counted(nd, d) == IF nd.int + d = 0 THEN Deleted ELSE [nd EXCEPT !.int = @ + d]

------------------------------------------------------------------------------
BeginPush(t, v) ==
    LET n == Min({m \in Nodes : ~node[m].alive})
    IN  /\ th[t].at = "idle" /\ v \in unpushed
        /\ node' = [node EXCEPT ![n] = NewNode(v)]
        /\ unpushed' = unpushed \ {v}
        /\ th' = [th EXCEPT ![t] = [at |-> "push", old |-> [ptr |-> n, ext |-> 1]]]
        /\ UNCHANGED <<head, pops, taken, wrong>>

Push(t) ==
    /\ th[t].at = "push"
    /\ node' = [node EXCEPT ![th[t].old.ptr].next = head]
    /\ head' = th[t].old
    /\ th' = [th EXCEPT ![t] = IdleThread]
    /\ UNCHANGED <<pops, unpushed, taken, wrong>>

BeginPop(t) ==
    /\ th[t].at = "idle" /\ pops > 0
    /\ Step(t, "inc")
    /\ UNCHANGED <<node, head, pops, unpushed, taken, wrong>>

(* increase_head_count, also of an empty stack, where pop returns.         *)
IncreaseHeadCount(t) ==
    /\ th[t].at = "inc" /\ pops > 0
    /\ pops' = pops - 1
    /\ head' = [head EXCEPT !.ext = @ + 1]
    /\ th' = [th EXCEPT ![t] = IF head.ptr = None THEN IdleThread
                               ELSE [at |-> "head", old |-> head']]
    /\ UNCHANGED <<node, unpushed, taken, wrong>>

(* Mutant: only the address is compared.                                   *)
MoveHeadByAddress(t) ==
    LET n == th[t].old.ptr
    IN  /\ th[t].at = "head"
        /\ Touch(n)
        /\ IF head.ptr = n
           THEN /\ head' = node[n].next
                /\ taken' = Append(taken, node[n].data)
                /\ Step(t, "take")
           ELSE Step(t, "leave") /\ UNCHANGED <<head, taken>>
        /\ UNCHANGED <<node, pops, unpushed>>

(* The head moves on only if nobody has come or gone since it was counted. *)
MoveHead(t) ==
    LET n == th[t].old.ptr
    IN  /\ th[t].at = "head"
        /\ Touch(n)
        /\ IF head = th[t].old
           THEN /\ head' = node[n].next
                /\ taken' = Append(taken, node[n].data)
                /\ Step(t, "take")
           ELSE Step(t, "leave") /\ UNCHANGED <<head, taken>>
        /\ UNCHANGED <<node, pops, unpushed>>

(* The data is swapped out; pop throws when there is none.                 *)
TakeData(t) ==
    LET n == th[t].old.ptr
    IN  /\ th[t].at = "take"
        /\ wrong' = (wrong \/ ~node[n].alive \/ node[n].data = None)
        /\ node' = [node EXCEPT ![n].data = None]
        /\ Step(t, "count")
        /\ UNCHANGED <<head, pops, unpushed, taken>>

(* The thread that took the node adds the others that came to it ...       *)
CountOthers(t) ==
    LET n == th[t].old.ptr
    IN  /\ th[t].at = "count"
        /\ Touch(n)
        /\ node' = [node EXCEPT ![n] = Counted(@, th[t].old.ext - 2)]
        /\ th' = [th EXCEPT ![t] = IdleThread]
        /\ UNCHANGED <<head, pops, unpushed, taken>>

(* ... and each of those takes itself off and tries again.                 *)
LeaveNode(t) ==
    LET n == th[t].old.ptr
    IN  /\ th[t].at = "leave"
        /\ Touch(n)
        /\ node' = [node EXCEPT ![n] = Counted(@, -1)]
        /\ th' = [th EXCEPT ![t] = [IdleThread EXCEPT !.at = "inc"]]
        /\ UNCHANGED <<head, pops, unpushed, taken>>

Next ==
    \E t \in Threads :
        \/ \E v \in Values : BeginPush(t, v)
        \/ Push(t) \/ BeginPop(t) \/ IncreaseHeadCount(t)
        \/ MoveHead(t) \/ TakeData(t) \/ CountOthers(t) \/ LeaveNode(t)

Spec == Init /\ [][Next]_vars

------------------------------------------------------------------------------
(* Properties                                                              *)

(* The addresses on the stack, from the top.                               *)
Chain ==
    LET from[p \in 0..MaxNodes, k \in 0..MaxNodes] ==
            IF p = None \/ k = 0 THEN <<>> ELSE <<p>> \o from[node[p].next.ptr, k - 1]
    IN  from[head.ptr, MaxNodes]

Contract == INSTANCE StackContract WITH
    Items <- Values, items <- [i \in DOMAIN Chain |-> node[Chain[i]].data]

(* Concurrent pushes and pops act like one stack, with the exchange of the *)
(* head as the moment they take effect: nothing is lost or popped twice.   *)
ImplementsContract == Contract!Spec

(* No thread touches a deleted node, deletes one twice or pops a node      *)
(* without data; when no call is at a node, those left are on the stack.   *)
NodesReclaimed ==
    /\ ~wrong
    /\ (\A t \in Threads : th[t].at \in {"idle", "inc"})
        => {n \in Nodes : node[n].alive} = {Chain[i] : i \in DOMAIN Chain}
==============================================================================
