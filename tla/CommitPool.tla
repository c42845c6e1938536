------------------------------ MODULE CommitPool ------------------------------
(***************************************************************************)
(* ThreadPool of concurrent/thread_pool.h: commit puts a task into the     *)
(* queue and notifies after the unlock; the workers take tasks until       *)
(* stop_ is set, and the destructor joins them.                            *)
(*                                                                         *)
(* What is done under cv_mt_ up to a wait is one step.  thread_num_, which *)
(* only idleThreadCount reads, is left out.  Who is inside commit returns  *)
(* from it before the pool is destroyed.                                   *)
(***************************************************************************)
EXTENDS Naturals, Sequences, FiniteSets

CONSTANTS Clients, Workers, Tasks,
          NoTask

VARIABLES tasks,        \* tasks_
          stop,         \* stop_
          client,       \* each client: where it is, and its task
          worker,       \* where each worker is
          state,        \* of each task: "none", "given", "queued", "taken", "refused"
          dtor          \* "no", "join", "done"

vars == <<tasks, stop, client, worker, state, dtor>>

Init ==
    /\ tasks = <<>> /\ stop = FALSE /\ dtor = "no"
    /\ client = [c \in Clients |-> [at |-> "idle", task |-> NoTask]]
    /\ worker = [w \in Workers |-> "loop"]
    /\ state = [t \in Tasks |-> "none"]

(* commit: the test of stop_, without the mutex.                           *)
Commit(c, t) ==
    /\ client[c].at = "idle" /\ state[t] = "none" /\ dtor # "done"
    /\ state' = [state EXCEPT ![t] = IF stop THEN "refused" ELSE "given"]
    /\ client' = [client EXCEPT ![c] = [at |-> IF stop THEN "idle" ELSE "push", task |-> t]]
    /\ UNCHANGED <<tasks, stop, worker, dtor>>

CommitPush(c) ==
    /\ client[c].at = "push"
    /\ tasks' = Append(tasks, client[c].task)
    /\ state' = [state EXCEPT ![client[c].task] = "queued"]
    /\ client' = [client EXCEPT ![c].at = "notify"]
    /\ UNCHANGED <<stop, worker, dtor>>

Waiting == {w \in Workers : worker[w] = "wait"}

(* Mutant: only the first task in the queue is notified of.                *)
CommitNotifyFirst(c) ==
    /\ client[c].at = "notify"
    /\ client' = [client EXCEPT ![c].at = "idle"]
    /\ IF Waiting = {} \/ Len(tasks) > 1 THEN UNCHANGED worker
       ELSE \E w \in Waiting : worker' = [worker EXCEPT ![w] = "lock"]
    /\ UNCHANGED <<tasks, stop, state, dtor>>

(* notify_one.                                                             *)
CommitNotify(c) ==
    /\ client[c].at = "notify"
    /\ client' = [client EXCEPT ![c].at = "idle"]
    /\ IF Waiting = {} THEN UNCHANGED worker
       ELSE \E w \in Waiting : worker' = [worker EXCEPT ![w] = "lock"]
    /\ UNCHANGED <<tasks, stop, state, dtor>>

(* while (!stop_).                                                         *)
Loop(w) ==
    /\ worker[w] = "loop"
    /\ worker' = [worker EXCEPT ![w] = IF stop THEN "gone" ELSE "lock"]
    /\ UNCHANGED <<tasks, stop, client, state, dtor>>

(* With cv_mt_: the wait's condition, and a task or the end.               *)
Take(w) ==
    /\ worker[w] = "lock"
    /\ \/ /\ tasks # <<>>
          /\ state' = [state EXCEPT ![Head(tasks)] = "taken"]
          /\ tasks' = Tail(tasks)
          /\ worker' = [worker EXCEPT ![w] = "run"]
       \/ /\ tasks = <<>>
          /\ worker' = [worker EXCEPT ![w] = IF stop THEN "gone" ELSE "wait"]
          /\ UNCHANGED <<tasks, state>>
    /\ UNCHANGED <<stop, client, dtor>>

Run(w) ==
    /\ worker[w] = "run"
    /\ worker' = [worker EXCEPT ![w] = "loop"]
    /\ UNCHANGED <<tasks, stop, client, state, dtor>>

SpuriousWakeup(w) ==
    /\ worker[w] = "wait"
    /\ worker' = [worker EXCEPT ![w] = "lock"]
    /\ UNCHANGED <<tasks, stop, client, state, dtor>>

(* Mutant: stop wakes one worker.                                          *)
StopNotifiesOne ==
    /\ dtor = "no"
    /\ stop' = TRUE /\ dtor' = "join"
    /\ IF Waiting = {} THEN UNCHANGED worker
       ELSE \E w \in Waiting : worker' = [worker EXCEPT ![w] = "lock"]
    /\ UNCHANGED <<tasks, client, state>>

(* stop: flag and notify_all under the mutex.                              *)
Stop ==
    /\ dtor = "no"
    /\ stop' = TRUE /\ dtor' = "join"
    /\ worker' = [w \in Workers |-> IF w \in Waiting THEN "lock" ELSE worker[w]]
    /\ UNCHANGED <<tasks, client, state>>

Join ==
    /\ dtor = "join"
    /\ \A w \in Workers : worker[w] = "gone"
    /\ \A c \in Clients : client[c].at = "idle"
    /\ dtor' = "done"
    /\ UNCHANGED <<tasks, stop, client, worker, state>>

ClientStep(c) == CommitPush(c) \/ CommitNotify(c) \/ \E t \in Tasks : Commit(c, t)

WorkerStep(w) == Loop(w) \/ Take(w) \/ Run(w)

Next ==
    \/ \E c \in Clients : ClientStep(c)
    \/ \E w \in Workers : WorkerStep(w) \/ SpuriousWakeup(w)
    \/ Stop \/ Join

Spec == Init /\ [][Next]_vars

------------------------------------------------------------------------------
(* Properties                                                              *)

(* One notification per task, after the unlock, is enough: while a worker  *)
(* waits, each queued task has a worker that is awake and not at a task,   *)
(* or a notification on its way, so tasks that wait for each other do not  *)
(* leave workers asleep.  After the stop nobody waits.                     *)
AwakeEnough ==
    Waiting # {} =>
        /\ ~stop
        /\ Len(tasks) <= Cardinality({c \in Clients : client[c].at = "notify"})
                       + Cardinality({w \in Workers : worker[w] \in {"loop", "lock"}})

(* Nothing is owed: what is queued has been taken unless the pool is       *)
(* stopped, and the destructor has ended.                                  *)
Settled ==
    /\ \A t \in Tasks : state[t] = "queued" => stop
    /\ dtor # "join"

------------------------------------------------------------------------------
(* What the proofs need: an invariant that every step keeps.               *)
CommitInv ==
    /\ AwakeEnough
    /\ tasks \in Seq(Tasks \union {NoTask})
    /\ client \in [Clients -> [at : {"idle", "push", "notify"}, task : Tasks \union {NoTask}]]
    /\ worker \in [Workers -> {"loop", "lock", "wait", "run", "gone"}]
==============================================================================
