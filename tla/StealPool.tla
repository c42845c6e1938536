------------------------------- MODULE StealPool -------------------------------
(***************************************************************************)
(* steal_thread_pool: a queue per worker, filled in turn by submit; a      *)
(* worker takes from the front of its own and else from the back of the    *)
(* first other one that has something.  It polls and never waits.          *)
(*                                                                         *)
(* The queues are threadsafe_queue_s, whose push, try_pop and try_steal    *)
(* act at once on a sequence: SplitQueue shows that.                       *)
(***************************************************************************)
EXTENDS Naturals, Sequences, SequencesExt

CONSTANTS N,            \* thread_count
          Clients, Tasks,
          Endless,      \* tasks that need not end
          NoTask

VARIABLES que,          \* thread_work_ques
          index,        \* atm_index
          done,
          client,       \* each client: where it is, and the index it has read
          worker,       \* each worker: where it is, its task, the loop's i
          submitted,
          joined        \* the destructor has returned

vars == <<que, index, done, client, worker, submitted, joined>>

Workers == 0..(N - 1)

Init ==
    /\ que = [w \in Workers |-> <<>>] /\ index = 0 /\ done = FALSE
    /\ client = [c \in Clients |-> [at |-> "idle", i |-> 0]]
    /\ worker = [w \in Workers |-> [at |-> "loop", task |-> NoTask, i |-> 0]]
    /\ submitted = {} /\ joined = FALSE

(* submit: two clients may read the same index.                            *)
SubmitLoad(c) ==
    /\ client[c].at = "idle" /\ ~done
    /\ client' = [client EXCEPT ![c] = [at |-> "store", i |-> (index + 1) % N]]
    /\ UNCHANGED <<que, index, done, worker, submitted, joined>>

SubmitStore(c) ==
    /\ client[c].at = "store"
    /\ index' = client[c].i
    /\ client' = [client EXCEPT ![c].at = "push"]
    /\ UNCHANGED <<que, done, worker, submitted, joined>>

SubmitPush(c, t) ==
    /\ client[c].at = "push" /\ t \notin submitted
    /\ que' = [que EXCEPT ![client[c].i] = Append(@, t)]
    /\ submitted' = submitted \union {t}
    /\ client' = [client EXCEPT ![c].at = "idle"]
    /\ UNCHANGED <<index, done, worker, joined>>

Loop(w) ==
    /\ worker[w].at = "loop"
    /\ worker' = [worker EXCEPT ![w].at = IF done THEN "gone" ELSE "pop"]
    /\ UNCHANGED <<que, index, done, client, submitted, joined>>

TryPop(w) ==
    /\ worker[w].at = "pop"
    /\ IF que[w] = <<>>
       THEN worker' = [worker EXCEPT ![w].at = "steal"] /\ UNCHANGED que
       ELSE /\ worker' = [worker EXCEPT ![w].at = "run", ![w].task = Head(que[w])]
            /\ que' = [que EXCEPT ![w] = Tail(@)]
    /\ UNCHANGED <<index, done, client, submitted, joined>>

(* Mutant: the search for a victim ends at the worker's own queue.         *)
TryStealUpToOwn(w) ==
    /\ worker[w].at = "steal"
    /\ LET i == worker[w].i IN
       \/ /\ i = w
          /\ worker' = [worker EXCEPT ![w].at = "loop", ![w].i = 0] /\ UNCHANGED que
       \/ /\ i # w /\ que[i] = <<>>
          /\ worker' = [worker EXCEPT ![w].i = @ + 1] /\ UNCHANGED que
       \/ /\ i # w /\ que[i] # <<>>
          /\ worker' = [worker EXCEPT ![w] = [at |-> "run", task |-> Last(que[i]), i |-> 0]]
          /\ que' = [que EXCEPT ![i] = Front(@)]
    /\ UNCHANGED <<index, done, client, submitted, joined>>

(* One round of the for over thread_work_ques; at its end, yield.          *)
TrySteal(w) ==
    /\ worker[w].at = "steal"
    /\ LET i == worker[w].i IN
       \/ /\ i = N
          /\ worker' = [worker EXCEPT ![w].at = "loop", ![w].i = 0] /\ UNCHANGED que
       \/ /\ i < N /\ (i = w \/ que[i] = <<>>)
          /\ worker' = [worker EXCEPT ![w].i = @ + 1] /\ UNCHANGED que
       \/ /\ i < N /\ i # w /\ que[i] # <<>>
          /\ worker' = [worker EXCEPT ![w] = [at |-> "run", task |-> Last(que[i]), i |-> 0]]
          /\ que' = [que EXCEPT ![i] = Front(@)]
    /\ UNCHANGED <<index, done, client, submitted, joined>>

Run(w) ==
    /\ worker[w].at = "run"
    /\ worker' = [worker EXCEPT ![w].at = "loop", ![w].task = NoTask]
    /\ UNCHANGED <<que, index, done, client, submitted, joined>>

(* The destructor: done, Exit of queues nobody waits on, and the joins.    *)
Dtor ==
    /\ ~done /\ done' = TRUE
    /\ UNCHANGED <<que, index, client, worker, submitted, joined>>

Join ==
    /\ done /\ ~joined /\ \A w \in Workers : worker[w].at = "gone"
    /\ joined' = TRUE
    /\ UNCHANGED <<que, index, done, client, worker, submitted>>

WorkerStep(w) == Loop(w) \/ TryPop(w) \/ TrySteal(w) \/ (worker[w].task \notin Endless /\ Run(w))

Next ==
    \/ \E c \in Clients : SubmitLoad(c) \/ SubmitStore(c) \/ \E t \in Tasks : SubmitPush(c, t)
    \/ \E w \in Workers : Loop(w) \/ TryPop(w) \/ TrySteal(w) \/ Run(w)
    \/ Dtor \/ Join

Spec == Init /\ [][Next]_vars

------------------------------------------------------------------------------
(* Properties                                                              *)

Busy == {worker[w].task : w \in Workers}

(* Nothing is owed: no task is left in a queue unless the pool ends, even  *)
(* one behind a task that never ends, as a worker without one of those     *)
(* comes to every queue; and the destructor has returned, if the tasks     *)
(* under way have ended.                                                   *)
Settled ==
    IF done THEN joined \/ Busy \cap Endless # {}
    ELSE \A w \in Workers : que[w] = <<>>
==============================================================================
