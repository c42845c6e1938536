-------------------------------- MODULE HandList --------------------------------
(***************************************************************************)
(* threadsafe_list: a mutex in each node.  find_first_if, remove_if and    *)
(* remove_first go hand over hand, taking the next node's mutex before     *)
(* they give the present one's back; for_each goes like find_first_if.     *)
(*                                                                         *)
(* What is done under last_ptr_mtx_, or under head_'s mutex without        *)
(* waiting, is one step.  Nodes are addresses, reused at once, and 0 is    *)
(* head_; predicates ask for a value or for any.                           *)
(***************************************************************************)
EXTENDS Naturals, Sequences, FiniteSets, FiniteSetsExt

CONSTANTS Threads, Values,
          MaxNodes,     \* addresses
          MaxPops,      \* bound: calls that look for a value, over all threads
          NoThread

VARIABLES node,         \* the nodes, by address
          last,         \* last_node_ptr_
          th,           \* each thread's call, see Idle
          looks,        \* calls that look for a value that are left
          unpushed,     \* values nobody has pushed
          raced,        \* a push_back met its node deleted or locked by another
          missed        \* a call did not find what was there all the time

vars == <<node, last, th, looks, unpushed, raced, missed>>

Nodes == 1..MaxNodes

Null == MaxNodes + 1

Any == 0                \* a predicate that all values satisfy

Dead == [alive |-> FALSE, data |-> 0, next |-> Null, mtx |-> NoThread]

(* op: "find", "first" and "all" for the removing ones, "back".  cur, nxt: *)
(* nodes whose mutexes it holds or is to take.  sure: what it looks for    *)
(* has been in the list since the call.                                    *)
Idle == [at |-> "idle", op |-> "find", what |-> 0, cur |-> 0, nxt |-> 0, sure |-> FALSE]

Init ==
    /\ node = [n \in Nodes \union {0} |-> [Dead EXCEPT !.alive = (n = 0)]]
    /\ last = 0
    /\ th = [t \in Threads |-> Idle]
    /\ looks = MaxPops /\ unpushed = Values
    /\ raced = FALSE /\ missed = FALSE

(* The nodes from head_ on.                                                *)
Chain ==
    LET from[n \in 0..Null, k \in 0..MaxNodes] ==
            IF n = Null THEN <<>>
            ELSE IF k = 0 THEN <<n>> ELSE <<n>> \o from[node[n].next, k - 1]
    IN  from[0, MaxNodes]

Listed == {node[Chain[i]].data : i \in 2..Len(Chain)}

New == Min({n \in Nodes : ~node[n].alive})

(* push_front, with head_'s mutex.                                         *)
PushFront(t, v) ==
    /\ th[t] = Idle /\ v \in unpushed /\ node[0].mtx = NoThread
    /\ \E n \in Nodes : ~node[n].alive
    /\ node' = [node EXCEPT ![0].next = New,
                            ![New] = [Dead EXCEPT !.alive = TRUE, !.data = v, !.next = node[0].next]]
    /\ last' = IF node[0].next = Null THEN New ELSE last
    /\ unpushed' = unpushed \ {v}
    /\ UNCHANGED <<th, looks, raced, missed>>

(* push_back: last_node_ptr_ is read without a mutex, and then the node's  *)
(* mutex is awaited.                                                       *)
PushBack(t, v) ==
    /\ th[t] = Idle /\ v \in unpushed
    /\ th' = [th EXCEPT ![t] = [Idle EXCEPT !.at = "lock", !.op = "back", !.what = v, !.cur = last]]
    /\ unpushed' = unpushed \ {v}
    /\ UNCHANGED <<node, last, looks, raced, missed>>

PushBackLock(t) ==
    /\ th[t].at = "lock" /\ th[t].op = "back" /\ node[th[t].cur].mtx = NoThread
    /\ node' = [node EXCEPT ![th[t].cur].mtx = t]
    /\ th' = [th EXCEPT ![t].at = "append"]
    /\ UNCHANGED <<last, looks, unpushed, raced, missed>>

(* The node goes behind last_node_ptr_ as it is by now.                    *)
PushBackAppend(t) ==
    /\ th[t].at = "append" /\ \E n \in Nodes : ~node[n].alive
    /\ node' = [node EXCEPT ![th[t].cur].mtx = NoThread, ![last].next = New,
                            ![New] = [Dead EXCEPT !.alive = TRUE, !.data = th[t].what]]
    /\ last' = New
    /\ raced' = (raced \/ node[last].mtx \notin {t, NoThread})
    /\ th' = [th EXCEPT ![t] = Idle]
    /\ UNCHANGED <<looks, unpushed, missed>>

(* find_first_if, remove_first or remove_if is called.                     *)
Look(t, op, what) ==
    /\ th[t] = Idle /\ looks > 0
    /\ looks' = looks - 1
    /\ th' = [th EXCEPT ![t] = [Idle EXCEPT !.at = "lock", !.op = op, !.what = what,
                                            !.sure = what \in Listed]]
    /\ UNCHANGED <<node, last, unpushed, raced, missed>>

(* head_'s mutex.                                                          *)
LockHead(t) ==
    /\ th[t].at = "lock" /\ th[t].op # "back" /\ node[0].mtx = NoThread
    /\ node' = [node EXCEPT ![0].mtx = t]
    /\ th' = [th EXCEPT ![t].at = "step"]
    /\ UNCHANGED <<last, looks, unpushed, raced, missed>>

(* Mutant: the present node is given back before the next one is taken.    *)
LockNextLate(t) ==
    /\ th[t].at = "step"
    /\ LET n == node[th[t].cur].next IN
       \/ /\ node[th[t].cur].mtx = t
          /\ node' = [node EXCEPT ![th[t].cur].mtx = NoThread]
          /\ th' = IF n = Null THEN [th EXCEPT ![t] = Idle] ELSE [th EXCEPT ![t].nxt = n]
          /\ missed' = (missed \/ (n = Null /\ th[t].sure))
       \/ /\ node[th[t].cur].mtx # t /\ node[th[t].nxt].mtx = NoThread
          /\ node' = [node EXCEPT ![th[t].nxt].mtx = t]
          /\ th' = [th EXCEPT ![t].at = "test"]
          /\ UNCHANGED missed
    /\ UNCHANGED <<last, looks, unpushed, raced>>

(* The next node's mutex; or there is none and the call ends.              *)
LockNext(t) ==
    /\ th[t].at = "step"
    /\ LET n == node[th[t].cur].next IN
       \/ /\ n = Null
          /\ node' = [node EXCEPT ![th[t].cur].mtx = NoThread]
          /\ th' = [th EXCEPT ![t] = Idle]
          /\ missed' = (missed \/ th[t].sure)
       \/ /\ n # Null /\ node[n].mtx = NoThread
          /\ node' = [node EXCEPT ![n].mtx = t]
          /\ th' = [th EXCEPT ![t].at = "test", ![t].nxt = n]
          /\ UNCHANGED missed
    /\ UNCHANGED <<last, looks, unpushed, raced>>

Matches(t) == th[t].what \in {Any, node[th[t].nxt].data}

(* The predicate does not hold: go on.                                     *)
GoOn(t) ==
    /\ th[t].at = "test" /\ ~Matches(t)
    /\ node' = [node EXCEPT ![th[t].cur].mtx = NoThread]
    /\ th' = [th EXCEPT ![t].at = "step", ![t].cur = th[t].nxt]
    /\ UNCHANGED <<last, looks, unpushed, raced, missed>>

Found(t) ==
    /\ th[t].at = "test" /\ Matches(t) /\ th[t].op = "find"
    /\ node' = [node EXCEPT ![th[t].cur].mtx = NoThread, ![th[t].nxt].mtx = NoThread]
    /\ th' = [th EXCEPT ![t] = Idle]
    /\ UNCHANGED <<last, looks, unpushed, raced, missed>>

(* Mutant: last_node_ptr_ is not moved when the last node goes.            *)
RemoveKeepsLast(t) ==
    /\ th[t].at = "test" /\ Matches(t) /\ th[t].op \in {"first", "all"}
    /\ LET c == th[t].cur
           n == th[t].nxt
       IN  /\ node' = [node EXCEPT ![c].next = node[n].next, ![n] = Dead,
                                   ![c].mtx = IF th[t].op = "first" THEN NoThread ELSE t]
           /\ th' = [u \in Threads |->
                        IF u = t
                        THEN IF th[t].op = "first" THEN Idle ELSE [th[t] EXCEPT !.at = "step"]
                        ELSE [th[u] EXCEPT !.sure = @ /\ th[u].what # node[n].data]]
           /\ raced' = (raced \/ \E u \in Threads \ {t} : th[u].at = "lock" /\ th[u].cur = n)
    /\ UNCHANGED <<last, looks, unpushed, missed>>

(* The node is unlinked and deleted; remove_if stays where it is.          *)
Remove(t) ==
    /\ th[t].at = "test" /\ Matches(t) /\ th[t].op \in {"first", "all"}
    /\ LET c == th[t].cur
           n == th[t].nxt
       IN  /\ node' = [node EXCEPT ![c].next = node[n].next, ![n] = Dead,
                                   ![c].mtx = IF th[t].op = "first" THEN NoThread ELSE t]
           /\ last' = IF node[n].next = Null THEN c ELSE last
           /\ th' = [u \in Threads |->
                        IF u = t
                        THEN IF th[t].op = "first" THEN Idle ELSE [th[t] EXCEPT !.at = "step"]
                        ELSE [th[u] EXCEPT !.sure = @ /\ th[u].what # node[n].data]]
           /\ raced' = (raced \/ \E u \in Threads \ {t} : th[u].at = "lock" /\ th[u].cur = n)
    /\ UNCHANGED <<looks, unpushed, missed>>

ThreadStep(t) ==
    \/ \E v \in Values : PushFront(t, v) \/ PushBack(t, v)
    \/ PushBackLock(t) \/ PushBackAppend(t)
    \/ \E v \in Values : Look(t, "find", v) \/ Look(t, "first", v)
    \/ Look(t, "all", Any)
    \/ LockHead(t) \/ LockNext(t) \/ GoOn(t) \/ Found(t) \/ Remove(t)

Next == ~raced /\ \E t \in Threads : ThreadStep(t)

Spec == Init /\ [][Next]_vars

------------------------------------------------------------------------------
(* Properties                                                              *)

(* Until a push_back has read last_node_ptr_ and then met a removal, which *)
(* is undefined from there on: last_node_ptr_ is the end of the list, the  *)
(* nodes that live are those of the list, a removal has nobody else at its *)
(* nodes, and who goes hand over hand does not miss a value that is there  *)
(* all the time.                                                           *)
ListSound ==
    ~raced =>
        /\ last = Chain[Len(Chain)] /\ node[last].next = Null
        /\ {n \in Nodes \union {0} : node[n].alive} = {Chain[i] : i \in DOMAIN Chain}
        /\ \A t \in Threads : th[t].at = "test" =>
                node[th[t].cur].mtx = t /\ node[th[t].nxt].mtx = t
                    /\ node[th[t].cur].next = th[t].nxt
        /\ ~missed

(* The mutexes are taken from head_ on, so that calls never wait in a      *)
(* circle.                                                                 *)
SomeLookGoesOn ==
    (\E t \in Threads : th[t] # Idle) => \E t \in Threads :
        \/ th[t].at \in {"append", "test"}
        \/ th[t].at = "lock" /\ node[th[t].cur].mtx = NoThread
        \/ th[t].at = "step" /\ (LET n == node[th[t].cur].next
                                 IN  n = Null \/ node[n].mtx = NoThread)
==============================================================================
