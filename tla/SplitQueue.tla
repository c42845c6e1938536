------------------------------ MODULE SplitQueue ------------------------------
(***************************************************************************)
(* The queue with one mutex for each end: threadsafe_queue_s, and          *)
(* threadsafe_queue_l of ts_queue.h, which has neither try_steal nor Exit. *)
(* A dummy node follows the last value, so that push needs the tail's      *)
(* mutex only and pop the head's, with a look at the tail under its own.   *)
(*                                                                         *)
(* What is done under the tail's mutex is one step.  head_mutex is held    *)
(* from pop's test to its end, and push may come in between.  Nodes are    *)
(* addresses, reused as soon as they can be.                               *)
(***************************************************************************)
EXTENDS Integers, Sequences, FiniteSets, FiniteSetsExt

CONSTANTS Threads, Values,
          MaxNodes,     \* addresses
          MaxPops       \* bound: calls that take a value, over all threads

VARIABLES node,         \* the nodes, by address
          head, tail,
          hmtx,         \* who holds head_mutex
          bstop,
          th,           \* each thread's call, see Idle
          pops,         \* calls that take a value that are left
          unpushed,     \* values nobody has pushed
          taken,        \* values in the order they left the queue
          missed,       \* something came between a waiter's test and its wait
          wrong         \* a deleted node was touched, or the dummy popped

vars == <<node, head, tail, hmtx, bstop, th, pops, unpushed, taken, missed, wrong>>

Nodes == 1..MaxNodes

None == 0

NewNode == [alive |-> TRUE, data |-> None, next |-> None, prev |-> None]

Deleted == [NewNode EXCEPT !.alive = FALSE]

(* at: "idle", "test", "take", "block", "wait"; "notify" after a push and  *)
(* "exit" after the flag of Exit.  kind: a call of try_pop, of             *)
(* wait_and_pop, or of wait_and_pop_timeout when its time is over.         *)
Idle == [at |-> "idle", kind |-> "try"]

Init ==
    /\ node = [n \in Nodes |-> IF n = 1 THEN NewNode ELSE Deleted]
    /\ head = 1 /\ tail = 1 /\ hmtx = None /\ bstop = FALSE
    /\ th = [t \in Threads |-> Idle]
    /\ pops = MaxPops /\ unpushed = Values /\ taken = <<>>
    /\ missed = FALSE /\ wrong = FALSE

Waiting == {t \in Threads : th[t].at = "wait"}

Blocking == \E t \in Threads : th[t].at = "block"

(* push, up to the unlock of tail_mutex.                                   *)
Push(t, v) ==
    /\ th[t] = Idle /\ v \in unpushed /\ \E n \in Nodes : ~node[n].alive
    /\ LET p == Min({n \in Nodes : ~node[n].alive})
       IN  /\ node' = [node EXCEPT ![tail].data = v, ![tail].next = p,
                                   ![p] = [NewNode EXCEPT !.prev = tail]]
           /\ tail' = p
    /\ unpushed' = unpushed \ {v}
    /\ th' = [th EXCEPT ![t].at = "notify"]
    /\ wrong' = (wrong \/ ~node[tail].alive)
    /\ UNCHANGED <<head, hmtx, bstop, pops, taken, missed>>

(* Mutant: push does not notify.                                           *)
NotifyNobody(t) ==
    /\ th[t].at = "notify"
    /\ th' = [th EXCEPT ![t] = Idle]
    /\ missed' = (missed \/ Blocking)
    /\ UNCHANGED <<node, head, tail, hmtx, bstop, pops, unpushed, taken, wrong>>

(* push's notify_one.                                                      *)
Notify(t) ==
    /\ th[t].at = "notify"
    /\ \/ Waiting = {} /\ th' = [th EXCEPT ![t] = Idle]
       \/ \E w \in Waiting : th' = [th EXCEPT ![t] = Idle, ![w].at = "test"]
    /\ missed' = (missed \/ Blocking)
    /\ UNCHANGED <<node, head, tail, hmtx, bstop, pops, unpushed, taken, wrong>>

(* try_pop, or wait_and_pop, is called.                                    *)
Pop(t, kind) ==
    /\ th[t] = Idle /\ pops > 0
    /\ pops' = pops - 1
    /\ th' = [th EXCEPT ![t] = [at |-> "test", kind |-> kind]]
    /\ UNCHANGED <<node, head, tail, hmtx, bstop, unpushed, taken, missed, wrong>>

(* head_mutex is taken and head compared with get_tail().                  *)
Test(t) ==
    /\ th[t].at = "test" /\ hmtx = None
    /\ LET stops == th[t].kind # "try" /\ bstop IN
       \/ /\ stops \/ (head = tail /\ th[t].kind # "wait")
          /\ th' = [th EXCEPT ![t] = Idle] /\ UNCHANGED hmtx
       \/ /\ ~stops /\ head # tail
          /\ th' = [th EXCEPT ![t].at = "take"] /\ hmtx' = t
       \/ /\ ~stops /\ head = tail /\ th[t].kind = "wait"
          /\ th' = [th EXCEPT ![t].at = "block"] /\ hmtx' = t
    /\ UNCHANGED <<node, head, tail, bstop, pops, unpushed, taken, missed, wrong>>

(* The value is moved out, head goes on, the old head is deleted.          *)
Take(t) ==
    /\ th[t].at = "take"
    /\ taken' = Append(taken, node[head].data)
    /\ head' = node[head].next
    /\ node' = [node EXCEPT ![head] = Deleted]
    /\ wrong' = (wrong \/ ~node[head].alive \/ node[head].next = None)
    /\ hmtx' = None /\ th' = [th EXCEPT ![t] = Idle]
    /\ UNCHANGED <<tail, bstop, pops, unpushed, missed>>

(* wait: head_mutex is released and the thread sleeps, in one step.        *)
Block(t) ==
    /\ th[t].at = "block"
    /\ hmtx' = None /\ th' = [th EXCEPT ![t].at = "wait"]
    /\ UNCHANGED <<node, head, tail, bstop, pops, unpushed, taken, missed, wrong>>

(* A wakeup without reason, and the timeout of wait_and_pop_timeout.       *)
SpuriousWakeup(t) ==
    /\ th[t].at = "wait"
    /\ \E kind \in {"wait", "timeout"} : th' = [th EXCEPT ![t] = [at |-> "test", kind |-> kind]]
    /\ UNCHANGED <<node, head, tail, hmtx, bstop, pops, unpushed, taken, missed, wrong>>

(* Mutant: a thief takes the mutex of the tail only.                       *)
TryStealOneLock(t) ==
    /\ th[t] = Idle /\ pops > 0 /\ head # tail
    /\ pops' = pops - 1
    /\ LET p == node[tail].prev
       IN  /\ taken' = Append(taken, node[p].data)
           /\ node' = [node EXCEPT ![tail] = Deleted, ![p].next = None]
           /\ tail' = p
           /\ wrong' = (wrong \/ ~node[p].alive)
    /\ UNCHANGED <<head, hmtx, bstop, th, unpushed, missed>>

(* try_steal, with both mutexes: the last value goes and its node becomes  *)
(* the dummy.                                                              *)
TrySteal(t) ==
    /\ th[t] = Idle /\ pops > 0 /\ hmtx = None /\ head # tail
    /\ pops' = pops - 1
    /\ LET p == node[tail].prev
       IN  /\ taken' = Append(taken, node[p].data)
           /\ node' = [node EXCEPT ![tail] = Deleted, ![p].next = None]
           /\ tail' = p
           /\ wrong' = (wrong \/ ~node[p].alive)
    /\ UNCHANGED <<head, hmtx, bstop, th, unpushed, missed>>

(* Exit: the flag, then notify_all, without a mutex.                       *)
ExitFlag(t) ==
    /\ th[t] = Idle /\ ~bstop
    /\ bstop' = TRUE /\ th' = [th EXCEPT ![t].at = "exit"]
    /\ UNCHANGED <<node, head, tail, hmtx, pops, unpushed, taken, missed, wrong>>

ExitNotify(t) ==
    /\ th[t].at = "exit"
    /\ th' = [u \in Threads |-> IF u = t THEN Idle
                                ELSE IF u \in Waiting THEN [th[u] EXCEPT !.at = "test"]
                                ELSE th[u]]
    /\ missed' = (missed \/ Blocking)
    /\ UNCHANGED <<node, head, tail, hmtx, bstop, pops, unpushed, taken, wrong>>

ThreadStep(t) ==
    \/ \E v \in Values : Push(t, v)
    \/ \E kind \in {"try", "wait"} : Pop(t, kind)
    \/ Notify(t) \/ Test(t) \/ Take(t) \/ Block(t) \/ SpuriousWakeup(t) \/ TrySteal(t)
    \/ ExitFlag(t) \/ ExitNotify(t)

Next == ~wrong /\ \E t \in Threads : ThreadStep(t)

Spec == Init /\ [][Next]_vars

------------------------------------------------------------------------------
(* Properties                                                              *)

(* The addresses from the head to the tail.                                *)
Chain ==
    LET from[p \in 0..MaxNodes, k \in 0..MaxNodes] ==
            IF p = None \/ k = 0 THEN <<>> ELSE <<p>> \o from[node[p].next, k - 1]
    IN  from[head, MaxNodes]

Queued == [i \in 1..(Len(Chain) - 1) |-> node[Chain[i]].data]

Contract == INSTANCE DequeContract WITH Items <- Values, items <- Queued

(* Pushes, pops and steals act like one double-ended queue although push   *)
(* and pop share no mutex: nothing is lost, or taken twice.                *)
ImplementsContract == Contract!Spec

(* No deleted node is touched, and those left are the ones of the list.    *)
NodesReclaimed ==
    /\ ~wrong
    /\ {n \in Nodes : node[n].alive} = {Chain[i] : i \in DOMAIN Chain}
    /\ Chain[Len(Chain)] = tail

(* A thread that sleeps although there is a value for it, or after Exit,   *)
(* is about to be woken or another one is on its way to the value; unless  *)
(* a notification came between the test and the wait of a waiter.  push    *)
(* and Exit do not hold head_mutex, so that does happen, and the waiter    *)
(* sleeps beside its value until the next push.                            *)
WaitersWoken ==
    Waiting # {} /\ ~missed =>
        /\ bstop => \E t \in Threads : th[t].at = "exit"
        /\ Len(Queued) > Cardinality({t \in Threads : th[t].at = "take"})
            => \E t \in Threads : th[t].at \in {"notify", "exit", "test", "block"}
==============================================================================
