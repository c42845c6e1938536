----------------------------- MODULE ReclaimStack -----------------------------
(***************************************************************************)
(* threadsafe_stack_uk of ts_stack.h: a lock-free stack that counts the    *)
(* threads in pop.  A popped node is deleted by a thread that is alone     *)
(* there and otherwise put on the list to_be_deleted.                      *)
(*                                                                         *)
(* Every read or write that another thread can see is a step; nodes are    *)
(* addresses, reused as soon as they can be.  The compare-exchange of push *)
(* and of chain_pending_nodes, repeated with the value found, is one step. *)
(***************************************************************************)
EXTENDS Integers, Sequences, FiniteSets, FiniteSetsExt

CONSTANTS Threads, Values,
          MaxNodes,     \* addresses
          MaxPops       \* bound: calls of pop, over all threads

VARIABLES node,         \* the nodes, by address
          head,         \* head_
          pending,      \* to_be_deleted
          inPop,        \* threads_in_pop
          th,           \* each thread's call and its locals
          pops,         \* calls of pop that are left
          unpushed,     \* values nobody has pushed
          taken,        \* values in the order the head left them
          wrong         \* a deleted node was touched, or deleted again

vars == <<node, head, pending, inPop, th, pops, unpushed, taken, wrong>>

Nodes == 1..MaxNodes

None == 0

NewNode(v) == [alive |-> TRUE, data |-> v, next |-> None]

Deleted == [alive |-> FALSE, data |-> None, next |-> None]

(* old and mine are the locals old and to_delete, next what old->next_ gave*)
IdleThread == [at |-> "idle", old |-> None, next |-> None, mine |-> None]

Init ==
    /\ node = [n \in Nodes |-> Deleted] /\ head = None /\ pending = None /\ inPop = 0
    /\ th = [t \in Threads |-> IdleThread]
    /\ pops = MaxPops /\ unpushed = Values /\ taken = <<>> /\ wrong = FALSE

Step(t, at) == th' = [th EXCEPT ![t].at = at]

Touch(n) == wrong' = (wrong \/ ~node[n].alive)

(* The nodes linked behind p, p first.                                     *)
List(p) ==
    LET from[q \in 0..MaxNodes, k \in 0..MaxNodes] ==
            IF q = None \/ k = 0 THEN <<>> ELSE <<q>> \o from[node[q].next, k - 1]
    IN  from[p, MaxNodes]

ListSet(p) == {List(p)[i] : i \in DOMAIN List(p)}

------------------------------------------------------------------------------
BeginPush(t, v) ==
    LET n == Min({m \in Nodes : ~node[m].alive})
    IN  /\ th[t].at = "idle" /\ v \in unpushed
        /\ node' = [node EXCEPT ![n] = NewNode(v)]
        /\ unpushed' = unpushed \ {v}
        /\ th' = [th EXCEPT ![t] = [IdleThread EXCEPT !.at = "push", !.old = n]]
        /\ UNCHANGED <<head, pending, inPop, pops, taken, wrong>>

Push(t) ==
    /\ th[t].at = "push"
    /\ node' = [node EXCEPT ![th[t].old].next = head]
    /\ head' = th[t].old
    /\ th' = [th EXCEPT ![t] = IdleThread]
    /\ UNCHANGED <<pending, inPop, pops, unpushed, taken, wrong>>

BeginPop(t) ==
    /\ th[t].at = "idle" /\ pops > 0
    /\ pops' = pops - 1
    /\ inPop' = inPop + 1
    /\ Step(t, "load")
    /\ UNCHANGED <<node, head, pending, unpushed, taken, wrong>>

LoadHead(t) ==
    /\ th[t].at = "load"
    /\ th' = [th EXCEPT ![t].old = head, ![t].at = IF head = None THEN "leave" ELSE "next"]
    /\ UNCHANGED <<node, head, pending, inPop, pops, unpushed, taken, wrong>>

LoadNext(t) ==
    /\ th[t].at = "next"
    /\ Touch(th[t].old)
    /\ th' = [th EXCEPT ![t].next = node[th[t].old].next, ![t].at = "head"]
    /\ UNCHANGED <<node, head, pending, inPop, pops, unpushed, taken>>

MoveHead(t) ==
    /\ th[t].at = "head"
    /\ IF head = th[t].old
       THEN /\ head' = th[t].next
            /\ taken' = Append(taken, node[th[t].old].data)
            /\ Step(t, "take")
       ELSE Step(t, "load") /\ UNCHANGED <<head, taken>>
    /\ UNCHANGED <<node, pending, inPop, pops, unpushed, wrong>>

TakeData(t) ==
    /\ th[t].at = "take"
    /\ Touch(th[t].old)
    /\ node' = [node EXCEPT ![th[t].old].data = None]
    /\ Step(t, "reclaim")
    /\ UNCHANGED <<head, pending, inPop, pops, unpushed, taken>>

(* try_reclaim: alone in pop, or not.                                      *)
TryReclaim(t) ==
    /\ th[t].at = "reclaim"
    /\ Step(t, IF inPop = 1 THEN "claim" ELSE "chain")
    /\ UNCHANGED <<node, head, pending, inPop, pops, unpushed, taken, wrong>>

Claim(t) ==
    /\ th[t].at = "claim"
    /\ th' = [th EXCEPT ![t].mine = pending, ![t].at = "recount"]
    /\ pending' = None
    /\ UNCHANGED <<node, head, inPop, pops, unpushed, taken, wrong>>

(* Mutant: the claimed nodes are deleted whoever else is in pop.           *)
RecountNot(t) ==
    /\ th[t].at = "recount"
    /\ inPop' = inPop - 1
    /\ Step(t, "delete")
    /\ UNCHANGED <<node, head, pending, pops, unpushed, taken, wrong>>

(* The claimed nodes may go if nobody has come to pop meanwhile.           *)
Recount(t) ==
    /\ th[t].at = "recount"
    /\ inPop' = inPop - 1
    /\ IF inPop = 1 \/ th[t].mine = None THEN Step(t, "delete") ELSE Step(t, "chain")
    /\ UNCHANGED <<node, head, pending, pops, unpushed, taken, wrong>>

(* old, and the claimed nodes if the thread still has them.                *)
Delete(t) ==
    LET gone == {th[t].old} \union ListSet(th[t].mine)
    IN  /\ th[t].at = "delete"
        /\ wrong' = (wrong \/ \E n \in gone : ~node[n].alive)
        /\ node' = [n \in Nodes |-> IF n \in gone THEN Deleted ELSE node[n]]
        /\ th' = [th EXCEPT ![t] = IdleThread]
        /\ UNCHANGED <<head, pending, inPop, pops, unpushed, taken>>

(* chain_pending_nodes: the claimed list, or the one node, is put in front.*)
ChainPending(t) ==
    LET mine == th[t].mine
        first == IF mine = None THEN th[t].old ELSE mine
        last == IF mine = None THEN first ELSE List(mine)[Len(List(mine))]
    IN  /\ th[t].at = "chain"
        /\ wrong' = (wrong \/ ~node[first].alive \/ ~node[last].alive)
        /\ node' = [node EXCEPT ![last].next = pending]
        /\ pending' = first
        /\ th' = [th EXCEPT ![t].mine = None, ![t].at = IF mine = None THEN "leave" ELSE "delete"]
        /\ UNCHANGED <<head, inPop, pops, unpushed, taken>>

Leave(t) ==
    /\ th[t].at = "leave"
    /\ inPop' = inPop - 1
    /\ th' = [th EXCEPT ![t] = IdleThread]
    /\ UNCHANGED <<node, head, pending, pops, unpushed, taken, wrong>>

Next ==
    \E t \in Threads :
        \/ \E v \in Values : BeginPush(t, v)
        \/ Push(t) \/ BeginPop(t) \/ LoadHead(t) \/ LoadNext(t) \/ MoveHead(t) \/ TakeData(t)
        \/ TryReclaim(t) \/ Claim(t) \/ Recount(t) \/ Delete(t) \/ ChainPending(t) \/ Leave(t)

Spec == Init /\ [][Next]_vars

------------------------------------------------------------------------------
(* Properties                                                              *)

Contract == INSTANCE StackContract WITH
    Items <- Values, items <- [i \in DOMAIN List(head) |-> node[List(head)[i]].data]

(* Concurrent pushes and pops act like one stack although the head is      *)
(* compared by address only: an address a thread in pop has seen is not    *)
(* used for another node before it leaves.                                 *)
ImplementsContract == Contract!Spec

(* No thread touches a deleted node or deletes one twice; when no thread   *)
(* is in pop, the nodes left are on the stack or on to_be_deleted.         *)
NodesReclaimed ==
    /\ ~wrong
    /\ (\A t \in Threads : th[t].at = "idle")
        => {n \in Nodes : node[n].alive} = ListSet(head) \union ListSet(pending)
==============================================================================
