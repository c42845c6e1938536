------------------------------ MODULE ConnPool ------------------------------
(***************************************************************************)
(* The connection pools of the servers (redis_conn_pool, mysql_pool and    *)
(* the gRPC pools): a queue of connections, a mutex and a condition        *)
(* variable.  get_conn tests its predicate under the mutex and waits;      *)
(* returning a connection notifies one waiting thread; close sets the stop *)
(* flag without the mutex and then notifies all.                           *)
(*                                                                         *)
(* The mutex is kept only where it can be seen: between the test that      *)
(* failed and the wait.  All other critical sections are one step.         *)
(***************************************************************************)
EXTENDS Integers, Sequences, SequencesExt, FiniteSets

CONSTANTS Threads, Conns,
          None,            \* no thread
          PushWhenStopped  \* put_conn keeps a connection after close (redis), or drops it (others)

ASSUME PoolAssumption ==
    /\ IsFiniteSet(Threads) /\ IsFiniteSet(Conns)
    /\ None \notin Threads /\ PushWhenStopped \in BOOLEAN

VARIABLES idle,     \* conn_, pool_, connections_
          mtx,      \* the thread that holds the mutex
          stop,     \* stop_, b_stop_
          closing,  \* close is between its two steps
          pc,       \* where each thread is with respect to the pool
          held      \* the connections each thread has, the last one first

poolVars == <<idle, mtx, stop, closing, pc, held>>

PoolPC == {"out", "enter", "towait", "wait", "null"}

PoolTypeOK ==
    /\ idle \in Seq(Conns)
    /\ mtx \in Threads \union {None}
    /\ stop \in BOOLEAN /\ closing \in BOOLEAN
    /\ pc \in [Threads -> PoolPC]
    /\ held \in [Threads -> Seq(Conns)]

(* The constructor: the connections that could be made, in some order.     *)
PoolInit ==
    /\ idle = SetToSeq(Conns)
    /\ mtx = None /\ stop = FALSE /\ closing = FALSE
    /\ pc = [t \in Threads |-> "out"]
    /\ held = [t \in Threads |-> <<>>]

(* get_conn is called, perhaps by a thread that has a connection already.  *)
GetConn(t) ==
    /\ pc[t] = "out"
    /\ pc' = [pc EXCEPT ![t] = "enter"]
    /\ UNCHANGED <<idle, mtx, stop, closing, held>>

(* The predicate holds: a connection, or null after close.                 *)
Take(t) ==
    /\ pc[t] = "enter" /\ mtx = None /\ ~stop /\ idle # <<>>
    /\ idle' = Tail(idle)
    /\ held' = [held EXCEPT ![t] = <<Head(idle)>> \o @]
    /\ pc' = [pc EXCEPT ![t] = "out"]
    /\ UNCHANGED <<mtx, stop, closing>>

TakeNull(t) ==
    /\ pc[t] = "enter" /\ mtx = None /\ stop
    /\ pc' = [pc EXCEPT ![t] = "null"]
    /\ UNCHANGED <<idle, mtx, stop, closing, held>>

(* It does not hold: the thread still has the mutex ...                    *)
TestFails(t) ==
    /\ pc[t] = "enter" /\ mtx = None /\ ~stop /\ idle = <<>>
    /\ mtx' = t
    /\ pc' = [pc EXCEPT ![t] = "towait"]
    /\ UNCHANGED <<idle, stop, closing, held>>

(* ... until it waits.                                                     *)
Block(t) ==
    /\ pc[t] = "towait"
    /\ mtx' = None
    /\ pc' = [pc EXCEPT ![t] = "wait"]
    /\ UNCHANGED <<idle, stop, closing, held>>

SpuriousWakeup(t) ==
    /\ pc[t] = "wait"
    /\ pc' = [pc EXCEPT ![t] = "enter"]
    /\ UNCHANGED <<idle, mtx, stop, closing, held>>

Waiting == {t \in Threads : pc[t] = "wait"}

(* notify_one.                                                             *)
NotifyOne ==
    IF Waiting = {} THEN UNCHANGED pc
                    ELSE \E t \in Waiting : pc' = [pc EXCEPT ![t] = "enter"]

(* Mutant: the connection is pushed and nobody is notified.                *)
PutConnSilently(t) ==
    /\ pc[t] = "out" /\ held[t] # <<>> /\ mtx = None
    /\ held' = [held EXCEPT ![t] = Tail(@)]
    /\ idle' = IF stop /\ ~PushWhenStopped THEN idle ELSE Append(idle, Head(held[t]))
    /\ UNCHANGED <<pc, mtx, stop, closing>>

(* Mutant: a connection is returned and kept.                              *)
PutConnTwice(t) ==
    /\ pc[t] = "out" /\ held[t] # <<>> /\ mtx = None
    /\ held' = held
    /\ idle' = IF stop /\ ~PushWhenStopped THEN idle ELSE Append(idle, Head(held[t]))
    /\ IF stop /\ ~PushWhenStopped THEN UNCHANGED pc ELSE NotifyOne
    /\ UNCHANGED <<mtx, stop, closing>>

(* put_conn, return_conn.                                                  *)
PutConn(t) ==
    /\ pc[t] = "out" /\ held[t] # <<>> /\ mtx = None
    /\ held' = [held EXCEPT ![t] = Tail(@)]
    /\ idle' = IF stop /\ ~PushWhenStopped THEN idle ELSE Append(idle, Head(held[t]))
    /\ IF stop /\ ~PushWhenStopped THEN UNCHANGED pc ELSE NotifyOne
    /\ UNCHANGED <<mtx, stop, closing>>

(* A thread returns from a call that got null.                             *)
GiveUp(t) ==
    /\ pc[t] = "null"
    /\ pc' = [pc EXCEPT ![t] = "out"]
    /\ UNCHANGED <<idle, mtx, stop, closing, held>>

(* close: the flag, without the mutex; then notify_all.                    *)
CloseFlag ==
    /\ ~stop /\ stop' = TRUE /\ closing' = TRUE
    /\ UNCHANGED <<idle, mtx, pc, held>>

CloseNotify ==
    /\ closing /\ closing' = FALSE
    /\ pc' = [t \in Threads |-> IF pc[t] = "wait" THEN "enter" ELSE pc[t]]
    /\ UNCHANGED <<idle, mtx, stop, held>>

PoolStep(t) == Take(t) \/ TakeNull(t) \/ TestFails(t) \/ Block(t)

------------------------------------------------------------------------------
(* Every connection is in the queue or with one thread, once; none is lost *)
(* before close.                                                           *)
EachOnce ==
    /\ IsInjective(idle) /\ \A t \in Threads : IsInjective(held[t])
    /\ \A t \in Threads : ToSet(idle) \intersect ToSet(held[t]) = {}
    /\ \A t, u \in Threads : t # u => ToSet(held[t]) \intersect ToSet(held[u]) = {}
    /\ ~stop => ToSet(idle) \union UNION {ToSet(held[t]) : t \in Threads} = Conns

(* The mutex is held by the thread between its test and its wait, and what *)
(* it has seen is still so.                                                *)
MutexHeld ==
    /\ \A t \in Threads : pc[t] = "towait" <=> mtx = t
    /\ mtx # None => idle = <<>>

(* No lost wakeup: when threads wait although connections are idle, at     *)
(* least as many threads as connections are on their way to take them.     *)
NoIdleWhileWaiting ==
    ~stop /\ Waiting # {} => Len(idle) <= Cardinality({t \in Threads : pc[t] = "enter"})
==============================================================================
