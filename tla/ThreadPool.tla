------------------------------- MODULE ThreadPool -------------------------------
(***************************************************************************)
(* ThreadPool of threadpool.cc (thread_pool of thrdp.h is the same code    *)
(* with futures for Results): clients submit tasks and wait for results,   *)
(* workers serve the queue, and the destructor waits until all have left.  *)
(*                                                                         *)
(* Everything under taskQueMtx_ up to a wait is one step.  taskSize_ only  *)
(* changes with the queue, under the lock: it is Len(queue).  The clock is *)
(* a choice: a wait of one second may end by its timeout, and a thread may *)
(* then have been idle for a minute or not.  As the header demands, a      *)
(* Result lives as long as its task, and nobody submits while the pool is  *)
(* being destroyed.                                                        *)
(***************************************************************************)
EXTENDS Integers, Sequences, FiniteSets

CONSTANTS Clients, Tasks,
          Ids,          \* thread ids, from generateId_: 0, 1, ...
          InitSize,     \* start(InitSize)
          MaxThreads,   \* threadSizeThreshHold_
          MaxQueue,     \* taskQueMaxThreshHold_
          NoTask

(* start is given one thread at least and at most as many as may be, and   *)
(* ids are handed out from 0 on.                                           *)
ASSUME ThreadPoolAssumption ==
    /\ InitSize \in Nat \ {0} /\ MaxThreads \in Nat /\ InitSize <= MaxThreads
    /\ MaxQueue \in Nat
    /\ Ids \subseteq Nat /\ IsFiniteSet(Ids) /\ 0..(InitSize - 1) \subseteq Ids

VARIABLES cached,       \* poolMode_ = MODE_CACHED
          running,      \* isPoolRunning_
          queue,        \* taskQue_
          threads,      \* ids in threads_
          idle, cur,    \* idleThreadSize_, curThreadSize_
          pc,           \* where each worker is
          task,         \* the task it executes
          client,       \* where each client is, and with which task
          result,       \* of each task: "none", "wait", "refused", "set", "got"
          dtor,         \* the destructor
          late          \* a worker left as idle after the destructor began

pool == <<running, queue, threads, idle, cur>>
vars == <<cached, running, queue, threads, idle, cur, pc, task, client, result, dtor, late>>

NotifyAll(p) == [w \in Ids |-> IF p[w] = "wait" THEN "awake" ELSE p[w]]

(* The pool after start.                                                   *)
Init ==
    /\ cached \in BOOLEAN
    /\ running = TRUE /\ queue = <<>>
    /\ threads = 0..(InitSize - 1)
    /\ idle = InitSize /\ cur = InitSize
    /\ pc = [w \in Ids |-> IF w < InitSize THEN "begin" ELSE "none"]
    /\ task = [w \in Ids |-> NoTask]
    /\ client = [c \in Clients |-> [at |-> "idle", task |-> NoTask]]
    /\ result = [t \in Tasks |-> "none"]
    /\ dtor = "no" /\ late = FALSE

------------------------------------------------------------------------------
(* Clients                                                                 *)

Fresh == {w \in Ids : pc[w] = "none"}

Grows == cached /\ Len(queue) + 1 > idle /\ cur < MaxThreads

(* Mutant: a new thread is started but not counted.                        *)
GrowUncounted(w) ==
    /\ threads' = threads \union {w}
    /\ pc' = [NotifyAll(pc) EXCEPT ![w] = "begin"]
    /\ UNCHANGED <<cur, idle>>

Grow(w) ==
    /\ threads' = threads \union {w}
    /\ pc' = [NotifyAll(pc) EXCEPT ![w] = "begin"]
    /\ cur' = cur + 1 /\ idle' = idle + 1

(* Mutant: a submit tells nobody.                                          *)
PushSilently(t) ==
    /\ queue' = Append(queue, t)
    /\ UNCHANGED <<pc, threads, cur, idle>>

(* The task is queued, every waiting worker told, and a thread added when  *)
(* there are more tasks than idle threads.                                 *)
Push(t) ==
    /\ queue' = Append(queue, t)
    /\ IF Grows
       THEN \E w \in Fresh : (\A v \in Fresh : w <= v) /\ Grow(w)
       ELSE pc' = NotifyAll(pc) /\ UNCHANGED <<threads, cur, idle>>

(* submitTask: with the queue full the client waits on notFull_.           *)
Submit(c, t) ==
    /\ client[c].at = "idle" /\ result[t] = "none" /\ dtor = "no"
    /\ IF Len(queue) < MaxQueue
       THEN /\ Push(t)
            /\ client' = [client EXCEPT ![c] = [at |-> "get", task |-> t]]
       ELSE /\ client' = [client EXCEPT ![c] = [at |-> "full", task |-> t]]
            /\ UNCHANGED <<queue, pc, threads, cur, idle>>
    /\ result' = [result EXCEPT ![t] = "wait"]
    /\ UNCHANGED <<cached, running, task, dtor, late>>

(* wait_for returns with the predicate true, or after a second with it     *)
(* still false.                                                            *)
SubmitAgain(c) ==
    /\ client[c].at = "full"
    /\ IF Len(queue) < MaxQueue
       THEN Push(client[c].task) /\ UNCHANGED result
       ELSE /\ result' = [result EXCEPT ![client[c].task] = "refused"]
            /\ UNCHANGED <<queue, pc, threads, cur, idle>>
    /\ client' = [client EXCEPT ![c].at = "get"]
    /\ UNCHANGED <<cached, running, task, dtor, late>>

(* Result::get.                                                            *)
Get(c) ==
    LET t == client[c].task
    IN  /\ client[c].at = "get" /\ result[t] \in {"set", "refused"}
        /\ result' = [result EXCEPT ![t] = IF @ = "set" THEN "got" ELSE @]
        /\ client' = [client EXCEPT ![c] = [at |-> "idle", task |-> NoTask]]
        /\ UNCHANGED <<cached, pool, pc, task, dtor, late>>

------------------------------------------------------------------------------
(* Workers                                                                 *)

WakeDtor == dtor' = IF dtor = "wait" THEN "check" ELSE dtor

(* With a task in the queue.                                               *)
TakeTask(w) ==
    /\ queue # <<>>
    /\ queue' = Tail(queue)
    /\ idle' = idle - 1
    /\ task' = [task EXCEPT ![w] = Head(queue)]
    /\ pc' = [(IF Tail(queue) # <<>> THEN NotifyAll(pc) ELSE pc) EXCEPT ![w] = "run"]
    /\ UNCHANGED <<threads, cur, dtor>>

Leave(w) ==
    /\ threads' = threads \ {w}
    /\ pc' = [pc EXCEPT ![w] = "gone"]
    /\ WakeDtor
    /\ UNCHANGED <<queue, idle, task, cur>>

(* The loop of threadFunc, up to the wait or the task.                     *)
TryTask(w) ==
    \/ TakeTask(w)
    \/ queue = <<>> /\ ~running /\ Leave(w)
    \/ queue = <<>> /\ running
       /\ pc' = [pc EXCEPT ![w] = "wait"] /\ UNCHANGED <<queue, idle, task, cur, threads, dtor>>

Serve(w) ==
    /\ pc[w] \in {"begin", "awake"}
    /\ TryTask(w)
    /\ UNCHANGED <<cached, running, client, result, late>>

SpuriousWakeup(w) ==
    /\ pc[w] = "wait"
    /\ pc' = [pc EXCEPT ![w] = "awake"]
    /\ UNCHANGED <<cached, pool, task, client, result, dtor, late>>

(* wait_for times out; the lock has still to be taken.                     *)
Timeout(w) ==
    /\ cached /\ pc[w] = "wait"
    /\ pc' = [pc EXCEPT ![w] = "timeout"]
    /\ UNCHANGED <<cached, pool, task, client, result, dtor, late>>

MayLeave(longIdle) == longIdle /\ cur > InitSize

(* A thread above the initial number that was idle for a minute leaves, and*)
(* looks neither at the queue nor at the stop; any other goes on.          *)
AfterTimeout(w, longIdle) ==
    /\ pc[w] = "timeout"
    /\ IF MayLeave(longIdle)
       THEN /\ threads' = threads \ {w}
            /\ cur' = cur - 1 /\ idle' = idle - 1
            /\ pc' = [pc EXCEPT ![w] = "gone"]
            /\ late' = (late \/ dtor # "no")
            /\ UNCHANGED <<queue, task, dtor>>
       ELSE TryTask(w) /\ UNCHANGED late
    /\ UNCHANGED <<cached, running, client, result>>

(* Mutant: the Result is not told.                                         *)
ExecSilently(w) ==
    /\ pc[w] = "run"
    /\ pc' = [pc EXCEPT ![w] = "ran"]
    /\ UNCHANGED <<cached, pool, task, client, result, dtor, late>>

(* exec: run, and the Result gets the value.                               *)
Exec(w) ==
    /\ pc[w] = "run"
    /\ result' = [result EXCEPT ![task[w]] = "set"]
    /\ pc' = [pc EXCEPT ![w] = "ran"]
    /\ UNCHANGED <<cached, pool, task, client, dtor, late>>

IdleAgain(w) ==
    /\ pc[w] = "ran"
    /\ idle' = idle + 1
    /\ task' = [task EXCEPT ![w] = NoTask]
    /\ pc' = [pc EXCEPT ![w] = "begin"]
    /\ UNCHANGED <<cached, running, queue, threads, cur, client, result, dtor, late>>

------------------------------------------------------------------------------
(* The destructor: the flag, then under the lock the notification and the  *)
(* wait for threads_ to be empty.                                          *)
DtorFlag ==
    /\ dtor = "no" /\ \A c \in Clients : client[c].at # "full"
    /\ running' = FALSE /\ dtor' = "flag"
    /\ UNCHANGED <<cached, queue, threads, idle, cur, pc, task, client, result, late>>

DtorNotify ==
    /\ dtor = "flag" /\ dtor' = "check"
    /\ pc' = NotifyAll(pc)
    /\ UNCHANGED <<cached, pool, task, client, result, late>>

DtorCheck ==
    /\ dtor = "check"
    /\ dtor' = IF threads = {} THEN "done" ELSE "wait"
    /\ UNCHANGED <<cached, pool, pc, task, client, result, late>>

DtorWakesSpuriously ==
    /\ dtor = "wait" /\ dtor' = "check"
    /\ UNCHANGED <<cached, pool, pc, task, client, result, late>>

------------------------------------------------------------------------------
ClientStep(c) == (\E t \in Tasks : Submit(c, t)) \/ SubmitAgain(c) \/ Get(c)

WorkerStep(w) ==
    \/ Serve(w) \/ Exec(w) \/ IdleAgain(w)
    \/ \E longIdle \in BOOLEAN : AfterTimeout(w, longIdle)

Dtor == DtorFlag \/ DtorNotify \/ DtorCheck \/ DtorWakesSpuriously

Next ==
    \/ \E c \in Clients : ClientStep(c)
    \/ \E w \in Ids : WorkerStep(w) \/ SpuriousWakeup(w) \/ Timeout(w)
    \/ Dtor

Spec == Init /\ [][Next]_vars

(* Workers that may run do, tasks end, and so does the destructor's code;  *)
(* no spurious wakeup and no timeout is relied on.                         *)
Fairness ==
    /\ \A w \in Ids : WF_vars(WorkerStep(w))
    /\ \A c \in Clients : WF_vars(SubmitAgain(c))
    /\ WF_vars(DtorNotify) /\ WF_vars(DtorCheck)

FairSpec == Spec /\ Fairness

------------------------------------------------------------------------------
(* Properties                                                              *)

Live == {w \in Ids : pc[w] \notin {"none", "gone"}}

(* Types; threads_ has exactly the workers that have not left, and while   *)
(* the pool runs the two counters are what their names say, except for a   *)
(* worker between its task and the increment.  When the destructor has     *)
(* returned no worker is left to touch the pool, and every task was taken  *)
(* ("all tasks must be executed before the pool can be reclaimed",         *)
(* threadpool.cc:141).                                                     *)
Counted ==
    /\ pc \in [Ids -> {"none", "begin", "wait", "awake", "timeout", "run", "ran", "gone"}]
    /\ Len(queue) <= MaxQueue
    /\ threads = Live
    /\ running => cur = Cardinality(Live)
    /\ running => idle = Cardinality({w \in Live : pc[w] \notin {"run", "ran"}})
    /\ cur <= IF cached THEN MaxThreads ELSE InitSize
    /\ dtor = "done" => queue = <<>> /\ Live = {}

(* A queued task keeps every waiting worker from sleeping on, and after    *)
(* the destructor's notification nobody waits any more.                    *)
NobodySleeps ==
    \A w \in Ids : pc[w] = "wait" => queue = <<>> /\ dtor \in {"no", "flag"}

(* Nothing is owed: every submitted task is executed or refused, with      *)
(* workers leaving as idle, the destructor starting and the queue filling  *)
(* up meanwhile.  The destructor has returned, unless a worker was on its  *)
(* way out as idle: that exit does not notify exitCond_, and if it is the  *)
(* last one the destructor sleeps for ever.                                *)
Settled ==
    /\ \A t \in Tasks : result[t] # "wait"
    /\ dtor \in {"no", "done"} \/ late

------------------------------------------------------------------------------
(* What the proofs need: an invariant that every step keeps.  As long as a *)
(* task is queued no worker has left for the stop, so that curThreadSize_  *)
(* is the number of threads and at least the initial one: a last worker    *)
(* never leaves a task behind.                                             *)
PoolInv ==
    /\ Counted /\ NobodySleeps
    /\ dtor \in {"no", "flag", "check", "wait", "done"} /\ (running <=> dtor = "no")
    /\ queue \in Seq(Tasks \union {NoTask})
    /\ cur \in Nat /\ idle \in Int
    /\ client \in [Clients -> [at : {"idle", "full", "get"}, task : Tasks \union {NoTask}]]
    /\ InitSize <= cur
    /\ queue # <<>> => cur = Cardinality(Live)
    /\ ~running => \A c \in Clients : client[c].at # "full"
==============================================================================
