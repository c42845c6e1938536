------------------------------ MODULE PoolsProofs ------------------------------
(***************************************************************************)
(* The pools of threads, for any clients, tasks, threads and bounds, and   *)
(* the size classes of the memory pool, for any request.                   *)
(***************************************************************************)
EXTENDS MCPools, SizeClass, FiniteSetTheorems, SequenceTheorems, TLAPS

(* One element more or less in a finite set.                               *)
LEMMA Counting ==
    ASSUME NEW A, NEW B, NEW x, IsFiniteSet(A)
    PROVE  /\ Cardinality(A) \in Nat
           /\ x \notin A /\ B = A \union {x} => IsFiniteSet(B) /\ Cardinality(B) = Cardinality(A) + 1
           /\ x \in A /\ B = A \ {x} => IsFiniteSet(B) /\ Cardinality(B) = Cardinality(A) - 1
BY FS_CardinalityType, FS_AddElement, FS_RemoveElement

(* A step is of one part, and the others stand still.                      *)
LEMMA OneAtATime ==
    ASSUME [MCNext]_allvars
    PROVE  /\ [Next]_vars /\ [C!Next]_(C!vars) /\ [L!Next]_(L!vars)
           /\ [I!Next]_(I!vars) /\ [T!Next]_(T!vars) /\ [R!Next]_(R!vars)
<1> USE DEF cvars, lvars, svars, tvars, ivars, rvars
<1>1. CASE InPool(Next)
  BY <1>1, Zenon DEF InPool, C!vars, L!vars, I!vars, T!vars, R!vars
<1>2. CASE InCommit(C!Next)
  BY <1>2, Zenon DEF InCommit, C!vars, L!vars, I!vars, T!vars, R!vars
<1>3. CASE InLog(L!Next)
  BY <1>3, Zenon DEF InLog, C!vars, L!vars, I!vars, T!vars, R!vars
<1>4. CASE InSteal(S!Next)
  BY <1>4, Zenon DEF InSteal, C!vars, L!vars, I!vars, T!vars, R!vars
<1>5. CASE InServer(T!Next)
  BY <1>5, Zenon DEF InServer, C!vars, L!vars, I!vars, T!vars, R!vars
<1>6. CASE InWaiter(I!Next)
  BY <1>6, Zenon DEF InWaiter, C!vars, L!vars, I!vars, T!vars, R!vars
<1>7. CASE InRpc(R!Next)
  BY <1>7, Zenon DEF InRpc, C!vars, L!vars, I!vars, T!vars, R!vars
<1>8. CASE UNCHANGED allvars
  BY <1>8, Zenon DEF allvars, C!vars, L!vars, I!vars, T!vars, R!vars
<1> QED BY <1>1, <1>2, <1>3, <1>4, <1>5, <1>6, <1>7, <1>8, Zenon DEF MCNext

------------------------------------------------------------------------------
(* async_log: a line that comes to an empty queue is notified of, one that *)
(* comes to others finds that notification on its way or the logger awake. *)
LEMMA LogStep == L!LogInv /\ [L!Next]_(L!vars) => L!LogInv'
<1> SUFFICES ASSUME L!LogInv, [L!Next]_(L!vars) PROVE L!LogInv'
  OBVIOUS
<1> USE DEF L!LogInv, L!NoLostWakeup
<1>1. ASSUME NEW t \in Clients, NEW m \in Few, L!AsyncWrite(t, m) PROVE L!LogInv'
  <2>1. /\ lqueue' = Append(lqueue, m) /\ lqueue' \in Seq(Few)
        /\ (lqueue # <<>> <=> Len(lqueue') # 1)
    BY <1>1 DEF L!AsyncWrite
  <2> QED BY <1>1, <2>1 DEF L!AsyncWrite
<1>2. ASSUME NEW t \in Clients, L!Notify(t) PROVE L!LogInv'
  BY <1>2 DEF L!Notify
<1>3. CASE L!Take
  <2>1. CASE lqueue' = lqueue
    BY <1>3, <2>1 DEF L!Take
  <2>2. CASE lqueue # <<>> /\ lqueue' = Tail(lqueue) /\ llogger' = "process"
    <3>1. lqueue' \in Seq(Few)
      BY <2>2
    <3> QED BY <1>3, <2>2, <3>1 DEF L!Take
  <2> QED BY <1>3, <2>1, <2>2 DEF L!Take
<1>4. CASE L!Process \/ L!SpuriousWakeup \/ L!Stop
  BY <1>4 DEF L!Process, L!SpuriousWakeup, L!Stop
<1>5. CASE UNCHANGED L!vars
  BY <1>5 DEF L!vars
<1> QED BY <1>1, <1>2, <1>3, <1>4, <1>5 DEF L!Next

------------------------------------------------------------------------------
(* interruptible_thread: the places of the thread say what the flag points *)
(* to, and an interrupt that meets it asleep without a timeout signals.    *)
LEMMA WaitStep == I!WaitInv /\ [I!Next]_(I!vars) => I!WaitInv'
<1> SUFFICES ASSUME I!WaitInv, [I!Next]_(I!vars) PROVE I!WaitInv'
  OBVIOUS
<1> USE DEF I!WaitInv, I!PointerLive, I!CvPlaces, I!AnyPlaces, I!Go
<1>1. CASE I!EnterCv \/ I!Register \/ I!Test \/ I!Doze
  BY <1>1 DEF I!EnterCv, I!Register, I!Test, I!Doze
<1>2. CASE I!Timeout \/ I!Relock \/ I!After \/ I!Leave
  BY <1>2 DEF I!Timeout, I!Relock, I!After, I!Leave
<1>3. CASE I!EnterAny \/ I!WaitAny \/ I!RelockAny \/ I!AfterAny \/ I!SpuriousWakeup
  BY <1>3 DEF I!EnterAny, I!WaitAny, I!RelockAny, I!AfterAny, I!SpuriousWakeup, I!LeaveAny
<1>4. ASSUME NEW kind \in {"cv", "pred", "any"}, I!Call(kind) PROVE I!WaitInv'
  BY <1>4 DEF I!Call
<1>5. ASSUME NEW u \in Clients, I!UserLock(u) \/ I!UserUnlock(u) \/ I!Notify(u) PROVE I!WaitInv'
  BY <1>5 DEF I!UserLock, I!UserUnlock, I!Notify, I!Woken
<1>6. ASSUME NEW u \in Clients, I!Interrupt(u) \/ I!Signal(u) PROVE I!WaitInv'
  BY <1>6 DEF I!Interrupt, I!Signal, I!Woken
<1>7. CASE UNCHANGED I!vars
  BY <1>7 DEF I!vars
<1> QED BY <1>1, <1>2, <1>3, <1>4, <1>5, <1>6, <1>7 DEF I!Next, I!ThreadStep, I!UserStep
------------------------------------------------------------------------------
(* ThreadPool of thread_pool.h: every step pays for the tasks it adds or   *)
(* the workers it takes away with a notification or a worker that is awake.*)
Notifying(f) == {c \in Clients : f[c].at = "notify"}

Awake(f) == {w \in Pair : f[w] \in {"loop", "lock"}}

(* The clients about to notify, when one of them takes a step.             *)
LEMMA CountClients ==
    ASSUME NEW f, NEW g, NEW c \in Clients,
           \A d \in Clients \ {c} : (g[d].at = "notify" <=> f[d].at = "notify")
    PROVE  /\ Cardinality(Notifying(f)) \in Nat /\ Cardinality(Notifying(g)) \in Nat
           /\ f[c].at # "notify" /\ g[c].at = "notify"
                => Cardinality(Notifying(g)) = Cardinality(Notifying(f)) + 1
           /\ f[c].at = "notify" /\ g[c].at # "notify"
                => Cardinality(Notifying(g)) = Cardinality(Notifying(f)) - 1
           /\ (f[c].at = "notify" <=> g[c].at = "notify")
                => Cardinality(Notifying(g)) = Cardinality(Notifying(f))
<1>1. IsFiniteSet(Notifying(f)) /\ IsFiniteSet(Notifying(g))
  BY PoolsAssumption, FS_Subset DEF Notifying
<1>2. CASE f[c].at # "notify" /\ g[c].at = "notify"
  <2>1. Notifying(g) = Notifying(f) \union {c} /\ c \notin Notifying(f)
    BY <1>2 DEF Notifying
  <2> QED BY <1>1, <1>2, <2>1, Counting
<1>3. CASE f[c].at = "notify" /\ g[c].at # "notify"
  <2>1. Notifying(g) = Notifying(f) \ {c} /\ c \in Notifying(f)
    BY <1>3 DEF Notifying
  <2> QED BY <1>1, <1>3, <2>1, Counting
<1>4. CASE f[c].at = "notify" <=> g[c].at = "notify"
  <2>1. Notifying(g) = Notifying(f)
    BY <1>4 DEF Notifying
  <2> QED BY <1>1, <1>4, <2>1, FS_CardinalityType
<1> QED BY <1>2, <1>3, <1>4

(* The workers awake, when one of them takes a step.                       *)
LEMMA CountAwake ==
    ASSUME NEW f, NEW g, NEW w \in Pair,
           \A v \in Pair \ {w} : g[v] = f[v]
    PROVE  /\ Cardinality(Awake(f)) \in Nat /\ Cardinality(Awake(g)) \in Nat
           /\ f[w] \notin {"loop", "lock"} /\ g[w] \in {"loop", "lock"}
                => Cardinality(Awake(g)) = Cardinality(Awake(f)) + 1
           /\ f[w] \in {"loop", "lock"} /\ g[w] \notin {"loop", "lock"}
                => Cardinality(Awake(g)) = Cardinality(Awake(f)) - 1
           /\ (f[w] \in {"loop", "lock"} <=> g[w] \in {"loop", "lock"})
                => Cardinality(Awake(g)) = Cardinality(Awake(f))
<1>1. IsFiniteSet(Awake(f)) /\ IsFiniteSet(Awake(g))
  BY PoolsAssumption, FS_Subset DEF Awake
<1>2. CASE f[w] \notin {"loop", "lock"} /\ g[w] \in {"loop", "lock"}
  <2>1. Awake(g) = Awake(f) \union {w} /\ w \notin Awake(f)
    BY <1>2 DEF Awake
  <2> QED BY <1>1, <1>2, <2>1, Counting
<1>3. CASE f[w] \in {"loop", "lock"} /\ g[w] \notin {"loop", "lock"}
  <2>1. Awake(g) = Awake(f) \ {w} /\ w \in Awake(f)
    BY <1>3 DEF Awake
  <2> QED BY <1>1, <1>3, <2>1, Counting
<1>4. CASE f[w] \in {"loop", "lock"} <=> g[w] \in {"loop", "lock"}
  <2>1. Awake(g) = Awake(f)
    BY <1>4 DEF Awake
  <2> QED BY <1>1, <1>4, <2>1, FS_CardinalityType
<1> QED BY <1>2, <1>3, <1>4

(* Every step keeps the types.                                             *)
CommitTypes ==
    /\ ctasks \in Seq(Few \union {NoTask})
    /\ cclient \in [Clients -> [at : {"idle", "push", "notify"}, task : Few \union {NoTask}]]
    /\ cworker \in [Pair -> {"loop", "lock", "wait", "run", "gone"}]

(* The types of thread_pool.h stay.                                        *)
LEMMA CommitTypesStep ==
    ASSUME CommitTypes, [C!Next]_(C!vars)
    PROVE  CommitTypes'
<1> USE DEF CommitTypes
<1>1. ASSUME NEW c \in Clients, NEW t \in Few, C!Commit(c, t) PROVE CommitTypes'
  BY <1>1 DEF C!Commit
<1>2. ASSUME NEW c \in Clients, C!CommitPush(c) PROVE CommitTypes'
  BY <1>2 DEF C!CommitPush
<1>3. ASSUME NEW c \in Clients, C!CommitNotify(c) PROVE CommitTypes'
  BY <1>3 DEF C!CommitNotify, C!Waiting
<1>4. ASSUME NEW w \in Pair, C!Loop(w) \/ C!Run(w) \/ C!SpuriousWakeup(w) PROVE CommitTypes'
  BY <1>4 DEF C!Loop, C!Run, C!SpuriousWakeup
<1>5. ASSUME NEW w \in Pair, C!Take(w) PROVE CommitTypes'
  <2>1. ctasks # <<>> => Tail(ctasks) \in Seq(Few \union {NoTask})
    OBVIOUS
  <2> QED BY <1>5, <2>1 DEF C!Take
<1>6. CASE C!Stop \/ C!Join
  BY <1>6 DEF C!Stop, C!Join
<1>7. CASE UNCHANGED C!vars
  BY <1>7 DEF C!vars
<1> QED BY <1>1, <1>2, <1>3, <1>4, <1>5, <1>6, <1>7 DEF C!Next, C!ClientStep, C!WorkerStep

(* Cardinality is the same in the instances.                               *)
LEMMA SameCardinality ==
    ASSUME NEW A
    PROVE  C!Cardinality(A) = Cardinality(A) /\ T!Cardinality(A) = Cardinality(A) /\ R!Cardinality(A) = Cardinality(A)
BY DEF C!Cardinality, T!Cardinality, R!Cardinality, Cardinality

(* AwakeEnough in terms of the sets counted.                               *)
Enough(n, c, w) == n <= Cardinality(Notifying(c)) + Cardinality(Awake(w))

(* AwakeEnough, now and after a step, as Enough of the sets counted.       *)
LEMMA EnoughIs ==
    /\ C!AwakeEnough <=> (C!Waiting # {} => ~cstop /\ Enough(Len(ctasks), cclient, cworker))
    /\ C!AwakeEnough' <=> ((C!Waiting # {})' => ~cstop' /\ Enough(Len(ctasks'), cclient', cworker'))
<1>1. /\ C!AwakeEnough <=> (C!Waiting # {} => ~cstop /\ Enough(Len(ctasks), cclient, cworker))
  BY SameCardinality DEF C!AwakeEnough, Enough, Notifying, Awake
<1>2. C!AwakeEnough' <=> ((C!Waiting # {})' => ~cstop' /\ Enough(Len(ctasks'), cclient', cworker'))
  BY SameCardinality DEF C!AwakeEnough, Enough, Notifying, Awake
<1> QED BY <1>1, <1>2

(* thread_pool.h: commit notifies after it has given up the lock, and      *)
(* still no worker sleeps while more tasks are queued than notifications   *)
(* are coming and workers are awake.                                       *)
LEMMA CommitStep == C!CommitInv /\ [C!Next]_(C!vars) => C!CommitInv'
<1> SUFFICES ASSUME C!CommitInv, [C!Next]_(C!vars) PROVE C!CommitInv'
  OBVIOUS
<1>0. CommitTypes /\ CommitTypes' /\ Len(ctasks) \in Nat /\ Len(ctasks') \in Nat
  BY CommitTypesStep DEF C!CommitInv, CommitTypes
<1>a. C!Waiting # {} => ~cstop /\ Enough(Len(ctasks), cclient, cworker)
  BY EnoughIs DEF C!CommitInv
<1> SUFFICES C!AwakeEnough'
  BY <1>0 DEF C!CommitInv, CommitTypes
<1> USE DEF CommitTypes, C!Waiting, Enough
<1>1. ASSUME NEW c \in Clients, NEW t \in Few, C!Commit(c, t) PROVE C!AwakeEnough'
  <2>1. Cardinality(Notifying(cclient')) = Cardinality(Notifying(cclient))
    BY <1>0, <1>1, CountClients DEF C!Commit
  <2> QED BY <1>0, <1>a, <1>1, <2>1, EnoughIs DEF C!Commit
<1>2. ASSUME NEW c \in Clients, C!CommitPush(c) PROVE C!AwakeEnough'
  <2>a. /\ cclient[c].at = "push" /\ cclient'[c].at = "notify"
        /\ \A d \in Clients \ {c} : cclient'[d] = cclient[d]
    BY <1>0, <1>2 DEF C!CommitPush
  <2>1. /\ Cardinality(Notifying(cclient')) = Cardinality(Notifying(cclient)) + 1
        /\ Cardinality(Notifying(cclient)) \in Nat
    BY <2>a, CountClients
  <2>2. Len(ctasks') = Len(ctasks) + 1
    BY <1>0, <1>2 DEF C!CommitPush
  <2>3. IsFiniteSet(Awake(cworker)) /\ Cardinality(Awake(cworker)) \in Nat
    BY PoolsAssumption, FS_Subset, FS_CardinalityType DEF Awake
  <2> QED BY <1>0, <1>a, <1>2, <2>1, <2>2, <2>3, EnoughIs DEF C!CommitPush
<1>3. ASSUME NEW c \in Clients, C!CommitNotify(c) PROVE C!AwakeEnough'
  <2>a. /\ cclient[c].at = "notify" /\ cclient'[c].at = "idle"
        /\ \A d \in Clients \ {c} : cclient'[d] = cclient[d]
    BY <1>0, <1>3 DEF C!CommitNotify
  <2>1. /\ Cardinality(Notifying(cclient')) = Cardinality(Notifying(cclient)) - 1
        /\ Cardinality(Notifying(cclient)) \in Nat
    <3>1. \A d \in Clients \ {c} : (cclient'[d].at = "notify" <=> cclient[d].at = "notify")
      BY <2>a
    <3>2. cclient[c].at = "notify" /\ cclient'[c].at # "notify"
      BY <2>a
    <3> QED BY <3>1, <3>2, CountClients
  <2>2. CASE C!Waiting = {}
    BY <1>3, <2>2, EnoughIs DEF C!CommitNotify
  <2>3. ASSUME NEW w \in C!Waiting, cworker' = [cworker EXCEPT ![w] = "lock"]
        PROVE  C!AwakeEnough'
    <3>1. /\ Cardinality(Awake(cworker')) = Cardinality(Awake(cworker)) + 1
          /\ Cardinality(Awake(cworker)) \in Nat
      BY <1>0, <2>3, CountAwake
    <3> QED BY <1>0, <1>a, <1>3, <2>1, <2>3, <3>1, EnoughIs DEF C!CommitNotify
  <2> QED BY <1>3, <2>2, <2>3 DEF C!CommitNotify
<1>4. ASSUME NEW w \in Pair, C!Loop(w) PROVE C!AwakeEnough'
  <2>1. CASE cstop
    BY <1>0, <1>a, <1>4, <2>1, EnoughIs DEF C!Loop
  <2>2. CASE ~cstop
    <3>a. /\ cworker[w] = "loop" /\ cworker'[w] = "lock"
          /\ \A v \in Pair \ {w} : cworker'[v] = cworker[v]
      BY <1>0, <1>4, <2>2 DEF C!Loop
    <3>1. Cardinality(Awake(cworker')) = Cardinality(Awake(cworker))
      BY <3>a, CountAwake
    <3> QED BY <1>0, <1>a, <1>4, <2>2, <3>1, EnoughIs DEF C!Loop
  <2> QED BY <2>1, <2>2
<1>5. ASSUME NEW w \in Pair, C!Run(w) \/ C!SpuriousWakeup(w) PROVE C!AwakeEnough'
  <2>1. /\ Cardinality(Awake(cworker')) = Cardinality(Awake(cworker)) + 1
        /\ Cardinality(Awake(cworker)) \in Nat
    BY <1>0, <1>5, CountAwake DEF C!Run, C!SpuriousWakeup
  <2>2. IsFiniteSet(Notifying(cclient)) /\ Cardinality(Notifying(cclient)) \in Nat
    BY PoolsAssumption, FS_Subset, FS_CardinalityType DEF Notifying
  <2> QED BY <1>0, <1>a, <1>5, <2>1, <2>2, EnoughIs DEF C!Run, C!SpuriousWakeup
<1>6. ASSUME NEW w \in Pair, C!Take(w) PROVE C!AwakeEnough'
  <2>1. IsFiniteSet(Notifying(cclient)) /\ Cardinality(Notifying(cclient)) \in Nat
    BY PoolsAssumption, FS_Subset, FS_CardinalityType DEF Notifying
  <2>2. Cardinality(Awake(cworker)) \in Nat /\ Cardinality(Awake(cworker')) \in Nat
    BY <1>0, <1>6, CountAwake DEF C!Take
  <2>3. CASE ctasks # <<>>
    <3>1. Len(ctasks') = Len(ctasks) - 1
      BY <1>0, <1>6, <2>3 DEF C!Take
    <3>2. Cardinality(Awake(cworker')) = Cardinality(Awake(cworker)) - 1
      BY <1>0, <1>6, <2>3, CountAwake DEF C!Take
    <3> QED BY <1>0, <1>a, <1>6, <2>1, <2>2, <2>3, <3>1, <3>2, EnoughIs DEF C!Take
  <2>4. CASE ctasks = <<>>
    <3>1. Len(ctasks') = 0
      BY <1>6, <2>4 DEF C!Take
    <3>2. CASE cstop
      BY <1>0, <1>a, <1>6, <2>4, <3>2, EnoughIs DEF C!Take
    <3>3. CASE ~cstop
      BY <1>6, <2>1, <2>2, <2>4, <3>1, <3>3, EnoughIs DEF C!Take
    <3> QED BY <3>2, <3>3
  <2> QED BY <2>3, <2>4
<1>7. CASE C!Stop
  BY <1>0, <1>7, EnoughIs DEF C!Stop
<1>8. CASE C!Join \/ UNCHANGED C!vars
  BY <1>8, <1>a, EnoughIs DEF C!Join, C!vars
<1> QED BY <1>1, <1>2, <1>3, <1>4, <1>5, <1>6, <1>7, <1>8 DEF C!Next, C!ClientStep, C!WorkerStep

------------------------------------------------------------------------------
(* ThreadPool of threadpool.cc.                                            *)
PC == {"none", "begin", "wait", "awake", "timeout", "run", "ran", "gone"}

Alive(f) == {w \in Ids : f[w] \notin {"none", "gone"}}

Resting(f) == {w \in Ids : f[w] \notin {"none", "gone", "run", "ran"}}

PoolTypes ==
    /\ pc \in [Ids -> PC]
    /\ dtor \in {"no", "flag", "check", "wait", "done"} /\ (running <=> dtor = "no")
    /\ queue \in Seq(Tasks \union {NoTask})
    /\ cur \in Nat /\ idle \in Int
    /\ client \in [Clients -> [at : {"idle", "full", "get"}, task : Tasks \union {NoTask}]]
    /\ ~running => \A c \in Clients : client[c].at # "full"

Numbers ==
    /\ Len(queue) <= MaxQueue
    /\ threads = Alive(pc)
    /\ running => cur = Cardinality(Alive(pc))
    /\ queue # <<>> => cur = Cardinality(Alive(pc))
    /\ running => idle = Cardinality(Resting(pc))
    /\ InitSize <= cur
    /\ cur <= IF cached THEN MaxThreads ELSE InitSize
    /\ dtor = "done" => queue = <<>> /\ Alive(pc) = {}

(* The invariant of threadpool.cc in three parts.                          *)
LEMMA PoolParts == PoolInv <=> PoolTypes /\ Numbers /\ NobodySleeps
<1>1. Live = Alive(pc) /\ {w \in Live : pc[w] \notin {"run", "ran"}} = Resting(pc)
  BY DEF Live, Alive, Resting
<1> QED BY <1>1, Zenon DEF PoolInv, Counted, PoolTypes, Numbers, PC

(* The same after a step.                                                  *)
LEMMA PoolPartsNext == PoolTypes' /\ Numbers' /\ NobodySleeps' => PoolInv'
<1>1. Live' = Alive(pc') /\ {w \in Live' : pc'[w] \notin {"run", "ran"}} = Resting(pc')
  BY DEF Live, Alive, Resting
<1> QED BY <1>1, Zenon DEF PoolInv, Counted, PoolTypes, Numbers, PC

(* The counts when one worker moves and the others at most wake up.        *)
LEMMA CountPC ==
    ASSUME NEW f \in [Ids -> PC], NEW g \in [Ids -> PC], NEW w \in Ids,
           \A v \in Ids \ {w} : g[v] = f[v] \/ (f[v] = "wait" /\ g[v] = "awake")
    PROVE  /\ Cardinality(Alive(f)) \in Nat /\ Cardinality(Resting(f)) \in Nat
           /\ f[w] \notin {"none", "gone"} /\ g[w] \notin {"none", "gone"} => Alive(g) = Alive(f)
           /\ f[w] = "none" /\ g[w] = "begin"
                => /\ Alive(g) = Alive(f) \union {w}
                   /\ Cardinality(Alive(g)) = Cardinality(Alive(f)) + 1
                   /\ Cardinality(Resting(g)) = Cardinality(Resting(f)) + 1
           /\ f[w] \notin {"none", "gone", "run", "ran"} /\ g[w] = "gone"
                => /\ Alive(g) = Alive(f) \ {w}
                   /\ Cardinality(Alive(g)) = Cardinality(Alive(f)) - 1
                   /\ Cardinality(Resting(g)) = Cardinality(Resting(f)) - 1
           /\ f[w] \notin {"none", "gone", "run", "ran"} /\ g[w] = "run"
                => Cardinality(Resting(g)) = Cardinality(Resting(f)) - 1
           /\ f[w] = "ran" /\ g[w] = "begin"
                => Cardinality(Resting(g)) = Cardinality(Resting(f)) + 1
           /\ (f[w] \in {"none", "gone", "run", "ran"} <=> g[w] \in {"none", "gone", "run", "ran"})
                => Resting(g) = Resting(f)
<1>1. IsFiniteSet(Alive(f)) /\ IsFiniteSet(Resting(f))
  BY ThreadPoolAssumption, FS_Subset DEF Alive, Resting
<1>2. Cardinality(Alive(f)) \in Nat /\ Cardinality(Resting(f)) \in Nat
  BY <1>1, FS_CardinalityType
<1>3. f[w] \notin {"none", "gone"} /\ g[w] \notin {"none", "gone"} => Alive(g) = Alive(f)
  BY DEF Alive
<1>4. (f[w] \in {"none", "gone", "run", "ran"} <=> g[w] \in {"none", "gone", "run", "ran"})
        => Resting(g) = Resting(f)
  BY DEF Resting
<1>5. ASSUME f[w] = "none", g[w] = "begin"
      PROVE  /\ Alive(g) = Alive(f) \union {w} /\ w \notin Alive(f)
             /\ Resting(g) = Resting(f) \union {w} /\ w \notin Resting(f)
  BY <1>5 DEF Alive, Resting
<1>6. ASSUME f[w] \notin {"none", "gone", "run", "ran"}, g[w] = "gone"
      PROVE  /\ Alive(g) = Alive(f) \ {w} /\ w \in Alive(f)
             /\ Resting(g) = Resting(f) \ {w} /\ w \in Resting(f)
  BY <1>6 DEF Alive, Resting
<1>7. ASSUME f[w] \notin {"none", "gone", "run", "ran"}, g[w] = "run"
      PROVE  Resting(g) = Resting(f) \ {w} /\ w \in Resting(f)
  BY <1>7 DEF Resting
<1>8. ASSUME f[w] = "ran", g[w] = "begin"
      PROVE  Resting(g) = Resting(f) \union {w} /\ w \notin Resting(f)
  BY <1>8 DEF Resting
<1>9. f[w] = "none" /\ g[w] = "begin"
        => /\ Cardinality(Alive(g)) = Cardinality(Alive(f)) + 1
           /\ Cardinality(Resting(g)) = Cardinality(Resting(f)) + 1
  BY <1>1, <1>5, Counting
<1>10. f[w] \notin {"none", "gone", "run", "ran"} /\ g[w] = "gone"
        => /\ Cardinality(Alive(g)) = Cardinality(Alive(f)) - 1
           /\ Cardinality(Resting(g)) = Cardinality(Resting(f)) - 1
  BY <1>1, <1>6, Counting
<1>11. f[w] \notin {"none", "gone", "run", "ran"} /\ g[w] = "run"
        => Cardinality(Resting(g)) = Cardinality(Resting(f)) - 1
  BY <1>1, <1>7, Counting
<1>12. f[w] = "ran" /\ g[w] = "begin" => Cardinality(Resting(g)) = Cardinality(Resting(f)) + 1
  BY <1>1, <1>8, Counting
<1> QED BY <1>2, <1>3, <1>4, <1>5, <1>6, <1>9, <1>10, <1>11, <1>12

(* Waking up changes no count.                                             *)
LEMMA CountSame ==
    ASSUME NEW f \in [Ids -> PC], NEW g \in [Ids -> PC],
           \A v \in Ids : g[v] = f[v] \/ (f[v] = "wait" /\ g[v] = "awake")
    PROVE  Alive(g) = Alive(f) /\ Resting(g) = Resting(f)
BY DEF Alive, Resting

(* notify_all wakes up who waits, and does nothing else.                   *)
LEMMA NotifyAllIs ==
    ASSUME NEW f \in [Ids -> PC]
    PROVE  /\ NotifyAll(f) \in [Ids -> PC]
           /\ \A v \in Ids : NotifyAll(f)[v] = f[v] \/ (f[v] = "wait" /\ NotifyAll(f)[v] = "awake")
           /\ \A v \in Ids : NotifyAll(f)[v] # "wait"
BY DEF NotifyAll, PC

(* A task is queued, with or without a new thread.                         *)
LEMMA PushStep ==
    ASSUME PoolTypes, Numbers, running, NEW t \in Tasks \union {NoTask},
           Len(queue) < MaxQueue, Push(t), UNCHANGED <<cached, running, dtor>>
    PROVE  /\ pc' \in [Ids -> PC] /\ queue' \in Seq(Tasks \union {NoTask})
           /\ cur' \in Nat /\ idle' \in Int
           /\ Numbers' /\ NobodySleeps'
<1>0. /\ pc \in [Ids -> PC] /\ queue \in Seq(Tasks \union {NoTask}) /\ cur \in Nat /\ idle \in Int
      /\ dtor = "no" /\ MaxQueue \in Nat /\ MaxThreads \in Nat /\ InitSize \in Nat
  BY ThreadPoolAssumption DEF PoolTypes
<1>1. /\ queue' \in Seq(Tasks \union {NoTask}) /\ queue' # <<>> /\ Len(queue') = Len(queue) + 1
      /\ Len(queue) \in Nat
  BY <1>0 DEF Push
<1>2. NotifyAll(pc) \in [Ids -> PC]
  BY <1>0, NotifyAllIs
<1>3. CASE Grows
  <2>1. PICK w \in Fresh : Grow(w)
    BY <1>3 DEF Push
  <2>2. /\ w \in Ids /\ pc[w] = "none" /\ pc' \in [Ids -> PC] /\ pc'[w] = "begin"
        /\ \A v \in Ids \ {w} : pc'[v] = NotifyAll(pc)[v]
    BY <1>2, <2>1 DEF Grow, Fresh, PC
  <2>3. /\ \A v \in Ids \ {w} : pc'[v] = pc[v] \/ (pc[v] = "wait" /\ pc'[v] = "awake")
        /\ \A v \in Ids : pc'[v] # "wait"
    BY <1>0, <2>2, NotifyAllIs
  <2>4. /\ Cardinality(Alive(pc)) \in Nat /\ Cardinality(Resting(pc)) \in Nat
        /\ Alive(pc') = Alive(pc) \union {w}
        /\ Cardinality(Alive(pc')) = Cardinality(Alive(pc)) + 1
        /\ Cardinality(Resting(pc')) = Cardinality(Resting(pc)) + 1
    BY <1>0, <2>2, <2>3, CountPC
  <2>5. /\ cur' = cur + 1 /\ idle' = idle + 1 /\ threads' = threads \union {w}
        /\ cached /\ cur < MaxThreads
    BY <1>3, <2>1 DEF Grow, Grows
  <2>6. Numbers'
    BY <1>0, <1>1, <2>4, <2>5 DEF Numbers
  <2> QED BY <1>0, <1>1, <2>2, <2>3, <2>5, <2>6 DEF NobodySleeps
<1>4. CASE ~Grows
  <2>1. pc' = NotifyAll(pc) /\ UNCHANGED <<threads, cur, idle>>
    BY <1>4 DEF Push
  <2>2. /\ Alive(pc') = Alive(pc) /\ Resting(pc') = Resting(pc)
        /\ \A v \in Ids : pc'[v] # "wait"
    BY <1>0, <1>2, <2>1, NotifyAllIs, CountSame
  <2>3. Numbers'
    BY <1>0, <1>1, <2>1, <2>2 DEF Numbers
  <2> QED BY <1>0, <1>1, <1>2, <2>1, <2>2, <2>3 DEF NobodySleeps
<1> QED BY <1>3, <1>4

(* The loop of a worker that is awake.                                     *)
LEMMA TryTaskStep ==
    ASSUME PoolTypes, Numbers, NobodySleeps, NEW w \in Ids,
           pc[w] \in {"begin", "awake", "timeout"}, TryTask(w),
           UNCHANGED <<cached, running, client>>
    PROVE  PoolTypes' /\ Numbers' /\ NobodySleeps'
<1>0. /\ pc \in [Ids -> PC] /\ queue \in Seq(Tasks \union {NoTask}) /\ cur \in Nat /\ idle \in Int
      /\ MaxQueue \in Nat /\ MaxThreads \in Nat /\ InitSize \in Nat /\ Len(queue) \in Nat
      /\ InitSize # 0
  BY ThreadPoolAssumption DEF PoolTypes
<1>1. CASE TakeTask(w)
  <2>1. /\ queue # <<>> /\ queue' = Tail(queue) /\ idle' = idle - 1
        /\ UNCHANGED <<threads, cur, dtor>>
    BY <1>1 DEF TakeTask
  <2>2. queue' \in Seq(Tasks \union {NoTask}) /\ Len(queue') = Len(queue) - 1
    BY <1>0, <2>1
  <2>3. /\ pc' \in [Ids -> PC] /\ pc'[w] = "run"
        /\ \A v \in Ids \ {w} : pc'[v] = pc[v] \/ (pc[v] = "wait" /\ pc'[v] = "awake")
    <3>1. NotifyAll(pc) \in [Ids -> PC]
      BY <1>0, NotifyAllIs
    <3>2. CASE Tail(queue) # <<>>
      BY <1>0, <1>1, <3>1, <3>2, NotifyAllIs DEF TakeTask, PC
    <3>3. CASE Tail(queue) = <<>>
      BY <1>0, <1>1, <3>3 DEF TakeTask, PC
    <3> QED BY <3>2, <3>3
  <2>4. /\ Cardinality(Alive(pc)) \in Nat /\ Cardinality(Resting(pc)) \in Nat
        /\ Alive(pc') = Alive(pc) /\ Cardinality(Resting(pc')) = Cardinality(Resting(pc)) - 1
    BY <1>0, <2>3, CountPC
  <2>5. PoolTypes'
    BY <2>1, <2>2, <2>3, <1>0 DEF PoolTypes
  <2>6. Numbers'
    BY <1>0, <2>1, <2>2, <2>4 DEF Numbers
  <2>7. NobodySleeps'
    BY <2>1, <2>3 DEF NobodySleeps
  <2> QED BY <2>5, <2>6, <2>7
<1>2. CASE queue = <<>> /\ ~running /\ Leave(w)
  <2>1. /\ threads' = threads \ {w} /\ pc' = [pc EXCEPT ![w] = "gone"]
        /\ UNCHANGED <<queue, idle, cur>>
        /\ dtor' = IF dtor = "wait" THEN "check" ELSE dtor
    BY <1>2 DEF Leave, WakeDtor
  <2>2. /\ pc' \in [Ids -> PC] /\ pc'[w] = "gone" /\ \A v \in Ids \ {w} : pc'[v] = pc[v]
    BY <1>0, <2>1 DEF PC
  <2>3. Alive(pc') = Alive(pc) \ {w}
    BY <1>0, <2>2, CountPC
  <2>4. PoolTypes'
    BY <1>2, <2>1, <2>2 DEF PoolTypes
  <2>5. Numbers'
    BY <1>0, <1>2, <2>1, <2>3 DEF Numbers
  <2>6. NobodySleeps'
    BY <1>0, <2>1, <2>2 DEF NobodySleeps
  <2> QED BY <2>4, <2>5, <2>6
<1>3. CASE /\ queue = <<>> /\ running /\ pc' = [pc EXCEPT ![w] = "wait"]
           /\ UNCHANGED <<queue, idle, task, cur, threads, dtor>>
  <2>1. /\ pc' \in [Ids -> PC] /\ pc'[w] = "wait" /\ \A v \in Ids \ {w} : pc'[v] = pc[v]
    BY <1>0, <1>3 DEF PC
  <2>2. Alive(pc') = Alive(pc) /\ Resting(pc') = Resting(pc)
    BY <1>0, <2>1, CountPC
  <2>3. PoolTypes'
    BY <1>3, <2>1 DEF PoolTypes
  <2>4. Numbers'
    BY <1>0, <1>3, <2>2 DEF Numbers
  <2>5. NobodySleeps'
    BY <1>0, <1>3, <2>1 DEF NobodySleeps, PoolTypes
  <2> QED BY <2>3, <2>4, <2>5
<1> QED BY <1>1, <1>2, <1>3, Zenon DEF TryTask

(* Every step keeps the invariant.                                         *)
LEMMA PoolStep == PoolInv /\ [Next]_vars => PoolInv'
<1> SUFFICES ASSUME PoolTypes, Numbers, NobodySleeps, [Next]_vars
             PROVE  PoolTypes' /\ Numbers' /\ NobodySleeps'
  BY PoolParts, PoolPartsNext
<1>0. /\ pc \in [Ids -> PC] /\ queue \in Seq(Tasks \union {NoTask}) /\ cur \in Nat /\ idle \in Int
      /\ MaxQueue \in Nat /\ MaxThreads \in Nat /\ InitSize \in Nat /\ Len(queue) \in Nat
      /\ client \in [Clients -> [at : {"idle", "full", "get"}, task : Tasks \union {NoTask}]]
      /\ InitSize # 0
  BY ThreadPoolAssumption DEF PoolTypes
<1>1. ASSUME NEW c \in Clients, NEW t \in Tasks, Submit(c, t)
      PROVE  PoolTypes' /\ Numbers' /\ NobodySleeps'
  <2>1. /\ dtor = "no" /\ UNCHANGED <<cached, running, dtor>> /\ running
    BY <1>1 DEF Submit, PoolTypes
  <2>2. client' \in [Clients -> [at : {"idle", "full", "get"}, task : Tasks \union {NoTask}]]
    BY <1>0, <1>1 DEF Submit
  <2>3. CASE Len(queue) < MaxQueue
    BY <1>1, <2>1, <2>2, <2>3, PushStep DEF Submit, PoolTypes
  <2>4. CASE ~(Len(queue) < MaxQueue)
    <3>1. UNCHANGED <<queue, pc, threads, cur, idle>>
      BY <1>1, <2>4 DEF Submit
    <3> QED BY <2>1, <2>2, <3>1 DEF PoolTypes, Numbers, NobodySleeps
  <2> QED BY <2>3, <2>4
<1>2. ASSUME NEW c \in Clients, SubmitAgain(c)
      PROVE  PoolTypes' /\ Numbers' /\ NobodySleeps'
  <2>1. /\ UNCHANGED <<cached, running, dtor>> /\ running /\ dtor = "no"
        /\ client[c].task \in Tasks \union {NoTask}
    BY <1>0, <1>2 DEF SubmitAgain, PoolTypes
  <2>2. client' \in [Clients -> [at : {"idle", "full", "get"}, task : Tasks \union {NoTask}]]
    BY <1>0, <1>2 DEF SubmitAgain
  <2>3. CASE Len(queue) < MaxQueue
    BY <1>2, <2>1, <2>2, <2>3, PushStep DEF SubmitAgain, PoolTypes
  <2>4. CASE ~(Len(queue) < MaxQueue)
    <3>1. UNCHANGED <<queue, pc, threads, cur, idle>>
      BY <1>2, <2>4 DEF SubmitAgain
    <3> QED BY <2>1, <2>2, <3>1 DEF PoolTypes, Numbers, NobodySleeps
  <2> QED BY <2>3, <2>4
<1>3. ASSUME NEW c \in Clients, Get(c)
      PROVE  PoolTypes' /\ Numbers' /\ NobodySleeps'
  <2>1. UNCHANGED <<cached, running, queue, threads, idle, cur, pc, dtor>>
    BY <1>3 DEF Get, pool
  <2>2. /\ client' \in [Clients -> [at : {"idle", "full", "get"}, task : Tasks \union {NoTask}]]
        /\ \A d \in Clients : client'[d].at = "full" => client[d].at = "full"
    BY <1>0, <1>3 DEF Get
  <2> QED BY <2>1, <2>2 DEF PoolTypes, Numbers, NobodySleeps
<1>4. ASSUME NEW w \in Ids, Serve(w)
      PROVE  PoolTypes' /\ Numbers' /\ NobodySleeps'
  BY <1>4, TryTaskStep DEF Serve
<1>5. ASSUME NEW w \in Ids, NEW longIdle \in BOOLEAN, AfterTimeout(w, longIdle)
      PROVE  PoolTypes' /\ Numbers' /\ NobodySleeps'
  <2>1. pc[w] = "timeout" /\ UNCHANGED <<cached, running, client>>
    BY <1>5 DEF AfterTimeout
  <2>2. CASE ~MayLeave(longIdle)
    BY <1>5, <2>1, <2>2, TryTaskStep DEF AfterTimeout
  <2>3. CASE MayLeave(longIdle)
    <3>1. /\ threads' = threads \ {w} /\ cur' = cur - 1 /\ idle' = idle - 1 /\ cur > InitSize
          /\ pc' = [pc EXCEPT ![w] = "gone"] /\ UNCHANGED <<queue, dtor>>
      BY <1>5, <2>3, Zenon DEF AfterTimeout, MayLeave
    <3>2. /\ pc' \in [Ids -> PC] /\ pc'[w] = "gone" /\ \A v \in Ids \ {w} : pc'[v] = pc[v]
      BY <1>0, <3>1 DEF PC
    <3>3. /\ Cardinality(Alive(pc)) \in Nat /\ Cardinality(Resting(pc)) \in Nat
          /\ Alive(pc') = Alive(pc) \ {w}
          /\ Cardinality(Alive(pc')) = Cardinality(Alive(pc)) - 1
          /\ Cardinality(Resting(pc')) = Cardinality(Resting(pc)) - 1
      BY <1>0, <2>1, <3>2, CountPC
    <3>4. PoolTypes'
      BY <1>0, <2>1, <3>1, <3>2 DEF PoolTypes
    <3>5. Numbers'
      <4>1. /\ running' => cur' = Cardinality(Alive(pc'))
            /\ queue' # <<>> => cur' = Cardinality(Alive(pc'))
            /\ running' => idle' = Cardinality(Resting(pc'))
        BY <2>1, <3>1, <3>3 DEF Numbers
      <4>2. InitSize <= cur'
        BY <1>0, <3>1
      <4>3. cur' <= IF cached' THEN MaxThreads ELSE InitSize
        <5>1. cur <= (IF cached' THEN MaxThreads ELSE InitSize)
          BY <2>1 DEF Numbers
        <5> QED BY <1>0, <3>1, <5>1
      <4>4. threads' = Alive(pc') /\ Len(queue') <= MaxQueue
        BY <3>1, <3>3 DEF Numbers
      <4>5. dtor' = "done" => queue' = <<>> /\ Alive(pc') = {}
        BY <3>1, <3>3 DEF Numbers
      <4> QED BY <4>1, <4>2, <4>3, <4>4, <4>5 DEF Numbers
    <3>6. NobodySleeps'
      BY <1>0, <3>1, <3>2 DEF NobodySleeps
    <3> QED BY <3>4, <3>5, <3>6
  <2> QED BY <2>2, <2>3
<1>6. ASSUME NEW w \in Ids, SpuriousWakeup(w) \/ Timeout(w) \/ Exec(w)
      PROVE  PoolTypes' /\ Numbers' /\ NobodySleeps'
  <2>1. /\ UNCHANGED <<cached, running, queue, threads, idle, cur, client, dtor>>
        /\ pc' \in [Ids -> PC] /\ \A v \in Ids \ {w} : pc'[v] = pc[v]
        /\ (pc[w] = "wait" /\ pc'[w] \in {"awake", "timeout"}) \/ (pc[w] = "run" /\ pc'[w] = "ran")
    BY <1>0, <1>6 DEF SpuriousWakeup, Timeout, Exec, pool, PC
  <2>2. Alive(pc') = Alive(pc) /\ Resting(pc') = Resting(pc)
    BY <1>0, <2>1, CountPC
  <2> QED BY <2>1, <2>2 DEF PoolTypes, Numbers, NobodySleeps
<1>7. ASSUME NEW w \in Ids, IdleAgain(w)
      PROVE  PoolTypes' /\ Numbers' /\ NobodySleeps'
  <2>1. /\ UNCHANGED <<cached, running, queue, threads, cur, client, dtor>> /\ idle' = idle + 1
        /\ pc' \in [Ids -> PC] /\ \A v \in Ids \ {w} : pc'[v] = pc[v]
        /\ pc[w] = "ran" /\ pc'[w] = "begin"
    BY <1>0, <1>7 DEF IdleAgain, PC
  <2>2. /\ Alive(pc') = Alive(pc) /\ Cardinality(Resting(pc)) \in Nat
        /\ Cardinality(Resting(pc')) = Cardinality(Resting(pc)) + 1
    BY <1>0, <2>1, CountPC
  <2> QED BY <1>0, <2>1, <2>2 DEF PoolTypes, Numbers, NobodySleeps
<1>8. CASE DtorFlag
  <2>1. /\ dtor = "no" /\ dtor' = "flag" /\ ~running' /\ running
        /\ \A c \in Clients : client[c].at # "full"
        /\ UNCHANGED <<cached, queue, threads, idle, cur, pc, client>>
    BY <1>8 DEF DtorFlag, PoolTypes
  <2> QED BY <2>1 DEF PoolTypes, Numbers, NobodySleeps
<1>9. CASE DtorNotify
  <2>1. /\ dtor = "flag" /\ dtor' = "check" /\ pc' = NotifyAll(pc)
        /\ UNCHANGED <<cached, running, queue, threads, idle, cur, client>>
    BY <1>9 DEF DtorNotify, pool
  <2>2. /\ Alive(pc') = Alive(pc) /\ Resting(pc') = Resting(pc) /\ pc' \in [Ids -> PC]
        /\ \A v \in Ids : pc'[v] # "wait"
    BY <1>0, <2>1, NotifyAllIs, CountSame
  <2> QED BY <2>1, <2>2 DEF PoolTypes, Numbers, NobodySleeps
<1>10. CASE DtorCheck \/ DtorWakesSpuriously
  <2>1. /\ UNCHANGED <<cached, running, queue, threads, idle, cur, pc, client>>
        /\ dtor \in {"check", "wait"} /\ dtor' \in {"check", "wait", "done"}
        /\ dtor' = "done" => threads = {}
    BY <1>10 DEF DtorCheck, DtorWakesSpuriously, pool
  <2>2. Cardinality({}) = 0
    BY FS_EmptySet
  <2>3. PoolTypes' /\ NobodySleeps'
    BY <2>1 DEF PoolTypes, NobodySleeps
  <2>a. ASSUME dtor' = "done" PROVE Alive(pc) = {} /\ queue = <<>>
    <3>1. threads = {} /\ Alive(pc) = {}
      BY <2>1, <2>a DEF Numbers
    <3>2. queue # <<>> => cur = 0
      BY <2>2, <3>1 DEF Numbers
    <3>3. cur # 0
      BY <1>0 DEF Numbers
    <3> QED BY <3>1, <3>2, <3>3
  <2>4. Numbers'
    BY <2>1, <2>a DEF Numbers
  <2> QED BY <2>3, <2>4
<1>11. CASE UNCHANGED vars
  BY <1>11 DEF vars, PoolTypes, Numbers, NobodySleeps
<1> QED
  BY <1>1, <1>2, <1>3, <1>4, <1>5, <1>6, <1>7, <1>8, <1>9, <1>10, <1>11
  DEF Next, ClientStep, WorkerStep, Dtor

------------------------------------------------------------------------------
(* arpc_channel.                                                           *)
Begun(f) == {c \in Clients : f[c].at # "start"}

(* The calls that have begun can be counted.                               *)
LEMMA CallsFinite ==
    /\ R!NumCalls = Cardinality(Clients) /\ R!NumCalls \in Nat
    /\ R!Cardinality(R!Started) = Cardinality(Begun(call))
    /\ R!Cardinality(R!Started)' = Cardinality(Begun(call'))
<1>1. R!NumCalls = Cardinality(Clients) /\ R!NumCalls \in Nat
  BY PoolsAssumption, SameCardinality, FS_CardinalityType DEF R!NumCalls
<1>2. R!Started = Begun(call) /\ R!Started' = Begun(call')
  BY DEF R!Started, Begun
<1>3. R!Cardinality(R!Started) = Cardinality(Begun(call))
  BY <1>2, SameCardinality
<1>4. R!Cardinality(R!Started)' = Cardinality(Begun(call'))
  BY <1>2, SameCardinality
<1> QED BY <1>1, <1>3, <1>4

(* The calls that have begun, when c takes a step.                         *)
LEMMA CountBegun ==
    ASSUME NEW f, NEW g, NEW c \in Clients, \A d \in Clients \ {c} : g[d] = f[d]
    PROVE  /\ Cardinality(Begun(f)) \in Nat
           /\ f[c].at # "start" /\ g[c].at # "start" => Begun(g) = Begun(f)
           /\ f[c].at = "start" /\ g[c].at # "start"
                => /\ Cardinality(Begun(g)) = Cardinality(Begun(f)) + 1
                   /\ Cardinality(Begun(f)) + 1 <= Cardinality(Clients)
<1>1. IsFiniteSet(Begun(f)) /\ IsFiniteSet(Begun(g)) /\ Cardinality(Begun(g)) <= Cardinality(Clients)
  BY PoolsAssumption, FS_Subset DEF Begun
<1>2. f[c].at # "start" /\ g[c].at # "start" => Begun(g) = Begun(f)
  BY DEF Begun
<1>3. ASSUME f[c].at = "start", g[c].at # "start"
      PROVE  Begun(g) = Begun(f) \union {c} /\ c \notin Begun(f)
  BY <1>3 DEF Begun
<1>4. f[c].at = "start" /\ g[c].at # "start"
        => Cardinality(Begun(g)) = Cardinality(Begun(f)) + 1
  BY <1>1, <1>3, Counting
<1> QED BY <1>1, <1>2, <1>4, FS_CardinalityType

(* The parts of the invariant that a step of c can disturb.                *)
LEMMA RpcStep == R!RpcInv /\ [R!Next]_(R!vars) => R!RpcInv'
<1> SUFFICES ASSUME R!RpcInv, [R!Next]_(R!vars) PROVE R!RpcInv'
  OBVIOUS
<1> DEFINE Ix == 0..(R!NumCalls - 1)
           Socks == {"none", "request", "quiet", "reply"}
<1>0. /\ next_id \in Nat /\ next_id <= Cardinality(Begun(call))
      /\ calls \in [Ix -> Clients \union {Nobody}]
      /\ call \in [Clients -> R!CallType] /\ sock \in [Clients -> Socks] /\ ran \in [Clients -> Nat]
      /\ rsp \in [Clients -> Nat \X (Clients \union {Nobody})]
      /\ R!NumCalls \in Nat /\ R!NumCalls = Cardinality(Clients)
      /\ ~misled
  BY CallsFinite DEF R!RpcInv, R!RpcTypes
<1>a. \A c \in Clients : R!EachCall(c)
  BY DEF R!RpcInv
<1>b. R!IdsApart
  BY DEF R!RpcInv
<1>c. \A c \in Clients : call[c].id \in Ix
  BY <1>0 DEF R!CallType
<1>d. ASSUME /\ next_id' \in Nat /\ next_id' <= Cardinality(Begun(call'))
             /\ calls' \in [Ix -> Clients \union {Nobody}]
             /\ call' \in [Clients -> R!CallType] /\ sock' \in [Clients -> Socks]
             /\ ran' \in [Clients -> Nat] /\ rsp' \in [Clients -> Nat \X (Clients \union {Nobody})]
      PROVE  R!RpcTypes'
  BY <1>d, CallsFinite DEF R!RpcTypes
<1> HIDE DEF Ix, Socks
<1>1. ASSUME NEW c \in Clients, R!Begin(c) PROVE R!RpcInv'
  <2>1. /\ call[c].at = "start" /\ call'[c].at # "start" /\ call'[c].recv = call[c].recv
        /\ call'[c].at \in {"enter", "failed", "silent"}
        /\ \A d \in Clients \ {c} : call'[d] = call[d]
        /\ UNCHANGED <<calls, sock, rsp, ran, misled, undefined>>
        /\ (call'[c].at = "enter" /\ call'[c].id = next_id /\ next_id' = next_id + 1)
           \/ (call'[c].at # "enter" /\ call'[c].id = call[c].id /\ next_id' = next_id)
    BY <1>0, <1>1 DEF R!Begin, R!Told, R!CallType
  <2>2. /\ Cardinality(Begun(call)) \in Nat
        /\ Cardinality(Begun(call')) = Cardinality(Begun(call)) + 1
        /\ Cardinality(Begun(call)) + 1 <= R!NumCalls
    BY <1>0, <2>1, CountBegun
  <2>3. next_id \in Ix
    BY <1>0, <2>2 DEF Ix
  <2>4. call' \in [Clients -> R!CallType]
    <3>1. CASE call' = [call EXCEPT ![c].at = "enter", ![c].id = next_id]
      <4>1. next_id \in 0..(R!NumCalls - 1)
        BY <2>3 DEF Ix
      <4> DEFINE r == [call[c] EXCEPT !.at = "enter", !.id = next_id]
      <4>2. r \in R!CallType
        BY <1>0, <4>1 DEF R!CallType
      <4>3. call' = [call EXCEPT ![c] = r]
        BY <1>0, <3>1
      <4> HIDE DEF r
      <4> QED BY <1>0, <4>2, <4>3
    <3>2. CASE call' = [call EXCEPT ![c].at = R!Told(c)]
      <4>1. R!Told(c) \in {"failed", "silent"}
        BY DEF R!Told
      <4> QED BY <1>0, <3>2, <4>1 DEF R!CallType
    <3> QED BY <1>1, <3>1, <3>2 DEF R!Begin
  <2>5. R!RpcTypes'
    BY <1>0, <1>d, <2>1, <2>2, <2>4
  <2>6. ASSUME NEW d \in Clients PROVE R!EachCall(d)'
    <3>1. R!EachCall(d) /\ call[d].id \in Nat
      BY <1>0, <1>a, <1>c DEF Ix
    <3>2. CASE d = c
      BY <1>0, <2>1, <3>1, <3>2 DEF R!EachCall, R!HasId
    <3>3. CASE d # c
      BY <1>0, <2>1, <3>1, <3>3 DEF R!EachCall, R!HasId
    <3> QED BY <3>2, <3>3
  <2>7. R!IdsApart'
    <3>1. \A d \in Clients : R!HasId(d) => call[d].id # next_id
      BY <1>0, <1>a, <1>c DEF R!EachCall, Ix
    <3> QED BY <1>b, <2>1, <3>1 DEF R!IdsApart, R!HasId
  <2> QED BY <1>0, <2>1, <2>5, <2>6, <2>7 DEF R!RpcInv
<1>2. ASSUME NEW c \in Clients, R!Enter(c) PROVE R!RpcInv'
  <2>1. /\ call[c].at = "enter" /\ call'[c].at = "send" /\ call'[c].recv = call[c].recv
        /\ call'[c].id = call[c].id /\ call'[c].found = call[c].found
        /\ \A d \in Clients \ {c} : call'[d] = call[d]
        /\ UNCHANGED <<next_id, sock, rsp, ran, misled, undefined>>
        /\ call' \in [Clients -> R!CallType]
    BY <1>0, <1>2 DEF R!Enter, R!CallType
  <2>2. Begun(call') = Begun(call)
    BY <1>0, <2>1, CountBegun
  <2>3. /\ calls' \in [Ix -> Clients \union {Nobody}] /\ calls'[call[c].id] = c
        /\ \A i \in Ix \ {call[c].id} : calls'[i] = calls[i]
    BY <1>0, <1>2, <1>c DEF R!Enter
  <2>4. R!RpcTypes'
    BY <1>0, <1>d, <2>1, <2>2, <2>3
  <2>5. ASSUME NEW d \in Clients PROVE R!EachCall(d)'
    <3>1. R!EachCall(d) /\ (d # c /\ R!HasId(d) => call[d].id # call[c].id)
      BY <1>a, <1>b, <2>1 DEF R!IdsApart, R!HasId
    <3> QED BY <1>0, <1>c, <2>1, <2>3, <3>1 DEF R!EachCall, R!HasId
  <2>6. R!IdsApart'
    BY <1>b, <2>1 DEF R!IdsApart, R!HasId
  <2> QED BY <1>0, <2>1, <2>4, <2>5, <2>6 DEF R!RpcInv
<1>3. ASSUME NEW c \in Clients, R!Send(c) \/ R!Return(c) PROVE R!RpcInv'
  <2>1. /\ call' \in [Clients -> R!CallType] /\ \A d \in Clients \ {c} : call'[d] = call[d]
        /\ call'[c].id = call[c].id /\ call'[c].found = call[c].found
        /\ sock' \in [Clients -> Socks] /\ \A d \in Clients \ {c} : sock'[d] = sock[d]
        /\ UNCHANGED <<next_id, calls, rsp, ran, misled, undefined>>
    BY <1>0, <1>3 DEF R!Send, R!Return, R!Told, R!CallType, Socks
  <2>2. \/ /\ call[c].at = "send" /\ call'[c].at = "sent" /\ call'[c].recv = "recv"
           /\ sock'[c] = "request"
        \/ /\ call[c].at = "send" /\ call'[c].at \in {"failed", "silent"}
           /\ call'[c].recv = call[c].recv /\ sock'[c] = sock[c]
        \/ /\ call[c].at = "sent" /\ call'[c].at = "returned"
           /\ call'[c].recv = call[c].recv /\ sock'[c] = sock[c]
    BY <1>0, <1>3 DEF R!Send, R!Return, R!Told, R!CallType
  <2>3. Begun(call') = Begun(call)
    <3>1. call[c].at # "start" /\ call'[c].at # "start"
      BY <2>2
    <3> QED BY <2>1, <3>1, CountBegun
  <2>4. R!RpcTypes'
    BY <1>0, <1>d, <2>1, <2>3
  <2>5. ASSUME NEW d \in Clients PROVE R!EachCall(d)'
    <3>1. R!EachCall(d)
      BY <1>a
    <3> QED BY <2>1, <2>2, <3>1 DEF R!EachCall, R!HasId
  <2>6. R!IdsApart'
    BY <1>b, <2>1, <2>2 DEF R!IdsApart, R!HasId
  <2> QED BY <1>0, <2>1, <2>4, <2>5, <2>6 DEF R!RpcInv
<1>4. ASSUME NEW c \in Clients, R!OnMessage(c) \/ R!EndOfStream(c) PROVE R!RpcInv'
  <2>1. UNCHANGED <<next_id, calls, call, ran, misled>>
    BY <1>4 DEF R!OnMessage, R!EndOfStream
  <2>2. CASE UNCHANGED <<sock, rsp>>
    BY <1>0, <1>a, <1>b, <1>d, <2>1, <2>2 DEF R!RpcInv, R!EachCall, R!HasId, R!IdsApart
  <2>3. CASE /\ sock[c] = "request"
             /\ sock' = [sock EXCEPT ![c] = "reply"] /\ rsp' = [rsp EXCEPT ![c] = <<call[c].id, c>>]
    <3>1. /\ sock' \in [Clients -> Socks] /\ sock'[c] = "reply"
          /\ \A d \in Clients \ {c} : sock'[d] = sock[d]
      BY <1>0, <2>3 DEF Socks
    <3>2. /\ rsp' \in [Clients -> Nat \X (Clients \union {Nobody})] /\ rsp'[c] = <<call[c].id, c>>
          /\ \A d \in Clients \ {c} : rsp'[d] = rsp[d]
      BY <1>0, <1>c, <2>3 DEF Ix
    <3>3. R!RpcTypes'
      BY <1>0, <1>d, <2>1, <3>1, <3>2
    <3>4. ASSUME NEW d \in Clients PROVE R!EachCall(d)'
      <4>1. R!EachCall(d)
        BY <1>a
      <4> QED BY <2>1, <2>3, <3>1, <3>2, <4>1 DEF R!EachCall, R!HasId
    <3> QED BY <1>0, <1>b, <2>1, <3>3, <3>4 DEF R!RpcInv, R!IdsApart, R!HasId
  <2>4. CASE sock[c] = "request" /\ sock' = [sock EXCEPT ![c] = "quiet"] /\ UNCHANGED rsp
    <3>1. /\ sock' \in [Clients -> Socks] /\ sock'[c] = "quiet"
          /\ \A d \in Clients \ {c} : sock'[d] = sock[d]
      BY <1>0, <2>4 DEF Socks
    <3>3. R!RpcTypes'
      BY <1>0, <1>d, <2>1, <2>4, <3>1
    <3>4. ASSUME NEW d \in Clients PROVE R!EachCall(d)'
      <4>1. R!EachCall(d)
        BY <1>a
      <4> QED BY <2>1, <2>4, <3>1, <4>1 DEF R!EachCall, R!HasId
    <3> QED BY <1>0, <1>b, <2>1, <3>3, <3>4 DEF R!RpcInv, R!IdsApart, R!HasId
  <2> QED BY <1>4, <2>2, <2>3, <2>4 DEF R!OnMessage, R!EndOfStream
<1>e. ASSUME NEW c \in Clients, NEW calls1 \in [Ix -> Clients \union {Nobody}],
             call' \in [Clients -> R!CallType], \A d \in Clients \ {c} : call'[d] = call[d],
             call'[c].id = call[c].id, call'[c].at = call[c].at,
             call[c].at # "start", calls' = calls1,
             UNCHANGED <<next_id, sock, rsp, misled>>, ran' \in [Clients -> Nat],
             \A d \in Clients : R!EachCall(d)'
      PROVE  R!RpcInv'
  <2>1. Begun(call') = Begun(call)
    BY <1>e, CountBegun
  <2>2. R!RpcTypes'
    BY <1>0, <1>d, <1>e, <2>1
  <2>3. R!IdsApart'
    BY <1>b, <1>e DEF R!IdsApart, R!HasId
  <2> QED BY <1>0, <1>e, <2>2, <2>3 DEF R!RpcInv
<1>5. ASSUME NEW c \in Clients, R!RecvFails(c) PROVE R!RpcInv'
  <2>1. /\ call' \in [Clients -> R!CallType] /\ \A d \in Clients \ {c} : call'[d] = call[d]
        /\ call'[c].id = call[c].id /\ call'[c].at = call[c].at
        /\ call[c].recv = "recv" /\ call'[c].recv = "ended"
        /\ UNCHANGED <<next_id, calls, sock, rsp, ran, misled>>
    BY <1>0, <1>5 DEF R!RecvFails, R!CallType
  <2>2. call[c].at # "start"
    BY <1>a, <2>1 DEF R!EachCall
  <2>3. ASSUME NEW d \in Clients PROVE R!EachCall(d)'
    <3>1. R!EachCall(d)
      BY <1>a
    <3> QED BY <2>1, <3>1 DEF R!EachCall, R!HasId
  <2> QED BY <1>0, <1>e, <2>1, <2>2, <2>3
<1>6. ASSUME NEW c \in Clients, R!Receive(c) PROVE R!RpcInv'
  <2>1. /\ call[c].recv = "recv" /\ sock[c] = "reply" /\ rsp[c][1] = call[c].id
        /\ calls[call[c].id] = c /\ c # Nobody /\ R!HasId(c)
    BY <1>6, <1>a, PoolsAssumption DEF R!Receive, R!EachCall, R!HasId
  <2>2. CASE UNCHANGED <<calls, call, misled>>
    <3>1. UNCHANGED <<next_id, sock, rsp, ran>>
      BY <1>6 DEF R!Receive
    <3> QED BY <1>0, <1>a, <1>b, <1>d, <2>2, <3>1 DEF R!RpcInv, R!EachCall, R!HasId, R!IdsApart
  <2>3. CASE ~UNCHANGED <<calls, call, misled>>
    <3>1. /\ calls' = [calls EXCEPT ![call[c].id] = Nobody]
          /\ call' = [call EXCEPT ![c].recv = "found", ![c].found = c]
          /\ UNCHANGED <<next_id, sock, rsp, ran, misled>>
      BY <1>6, <2>1, <2>3 DEF R!Receive
    <3>2. /\ call' \in [Clients -> R!CallType] /\ \A d \in Clients \ {c} : call'[d] = call[d]
          /\ call'[c].id = call[c].id /\ call'[c].at = call[c].at
          /\ call'[c].recv = "found" /\ call'[c].found = c
      BY <1>0, <3>1 DEF R!CallType
    <3>3. /\ calls' \in [Ix -> Clients \union {Nobody}]
          /\ \A i \in Ix \ {call[c].id} : calls'[i] = calls[i]
      BY <1>0, <1>c, <3>1
    <3>4. ASSUME NEW d \in Clients PROVE R!EachCall(d)'
      <4>1. R!EachCall(d) /\ (d # c /\ R!HasId(d) => call[d].id # call[c].id)
        BY <1>a, <1>b, <2>1 DEF R!IdsApart
      <4> QED BY <1>c, <2>1, <3>1, <3>2, <3>3, <4>1 DEF R!EachCall, R!HasId
    <3> QED BY <1>0, <1>e, <2>1, <3>1, <3>2, <3>3, <3>4 DEF R!HasId
  <2> QED BY <2>2, <2>3
<1>7. ASSUME NEW c \in Clients, R!RunDone(c) PROVE R!RpcInv'
  <2>1. /\ call[c].recv = "found" /\ call[c].found = c /\ rsp[c] = <<call[c].id, c>> /\ ran[c] = 0
        /\ call[c].at # "start"
    BY <1>7, <1>a DEF R!RunDone, R!EachCall
  <2>2. /\ call' \in [Clients -> R!CallType] /\ \A d \in Clients \ {c} : call'[d] = call[d]
        /\ call'[c].id = call[c].id /\ call'[c].at = call[c].at
        /\ call'[c].recv = "ended"
        /\ UNCHANGED <<next_id, calls, sock, rsp>>
    BY <1>0, <1>7 DEF R!RunDone, R!CallType
  <2>a. ran' = [ran EXCEPT ![call[c].found] = @ + 1] \/ ran' = ran
    BY <1>7 DEF R!RunDone
  <2>3. /\ ran' \in [Clients -> Nat] /\ ran'[c] <= 1 /\ \A d \in Clients \ {c} : ran'[d] = ran[d]
    <3>1. CASE ran' = [ran EXCEPT ![call[c].found] = @ + 1]
      BY <1>0, <2>1, <3>1
    <3>2. CASE ran' = ran
      BY <1>0, <2>1, <3>2
    <3> QED BY <2>a, <3>1, <3>2
  <2>4. misled' <=> misled
    <3>1. rsp[c][2] = c
      BY <2>1
    <3>2. CASE misled' = (misled \/ call[c].found # rsp[c][2])
      BY <2>1, <3>1, <3>2, Zenon
    <3>3. CASE UNCHANGED <<ran, misled>>
      BY <3>3
    <3> QED BY <1>7, <3>2, <3>3, Zenon DEF R!RunDone
  <2>5. ASSUME NEW d \in Clients PROVE R!EachCall(d)'
    <3>1. R!EachCall(d)
      BY <1>a
    <3> QED BY <2>1, <2>2, <2>3, <3>1 DEF R!EachCall, R!HasId
  <2>6. R!IdsApart' /\ R!RpcTypes'
    <3>1. Begun(call') = Begun(call)
      BY <2>1, <2>2, CountBegun
    <3>2. R!RpcTypes'
      BY <1>0, <1>d, <2>2, <2>3, <3>1
    <3> QED BY <1>b, <2>2, <3>2 DEF R!IdsApart, R!HasId
  <2> QED BY <1>0, <2>4, <2>5, <2>6 DEF R!RpcInv
<1>8. CASE UNCHANGED R!vars
  BY <1>0, <1>a, <1>b, <1>d, <1>8 DEF R!vars, R!RpcInv, R!EachCall, R!HasId, R!IdsApart
<1> QED
  BY <1>1, <1>2, <1>3, <1>4, <1>5, <1>6, <1>7, <1>8 DEF R!Next, R!CallerStep, R!AnswerStep

------------------------------------------------------------------------------
(* tcp_server and its loops.  First the queues of functors: what is in     *)
(* them, that nothing is twice, and that one thing is before another, when *)
(* a functor is queued and when one is run.                                *)
LEMMA HasAppend ==
    ASSUME NEW Elt, NEW s \in Seq(Elt), NEW e \in Elt
    PROVE  /\ Append(s, e) \in Seq(Elt)
           /\ \A x : T!Has(Append(s, e), x) <=> T!Has(s, x) \/ x = e
           /\ T!Distinct(s) /\ ~T!Has(s, e) => T!Distinct(Append(s, e))
           /\ \A x, y : T!Before(s, x, y) /\ x # y /\ (e # x \/ ~T!Has(s, y))
                            => T!Before(Append(s, e), x, y)
<1>1. /\ Len(s) \in Nat /\ DOMAIN s = 1..Len(s) /\ Append(s, e) \in Seq(Elt)
      /\ Len(Append(s, e)) = Len(s) + 1 /\ DOMAIN Append(s, e) = 1..(Len(s) + 1)
      /\ \A i \in 1..Len(s) : Append(s, e)[i] = s[i]
      /\ Append(s, e)[Len(s) + 1] = e
  OBVIOUS
<1> DEFINE a == Append(s, e)
           n == Len(s)
<1>2. \A i \in 1..(n + 1) : i \in 1..n \/ i = n + 1
  BY <1>1
<1> HIDE DEF a, n
<1>3. /\ DOMAIN s = 1..n /\ DOMAIN a = 1..(n + 1) /\ n \in Nat
      /\ (\A i \in 1..n : a[i] = s[i]) /\ a[n + 1] = e
      /\ \A i \in 1..n : i \in 1..(n + 1) /\ i # n + 1 /\ i < n + 1
      /\ n + 1 \in 1..(n + 1)
  BY <1>1 DEF a, n
<1>4. \A x : T!Has(a, x) <=> T!Has(s, x) \/ x = e
  BY <1>2, <1>3 DEF T!Has
<1>5. T!Distinct(s) /\ ~T!Has(s, e) => T!Distinct(a)
  BY <1>2, <1>3 DEF T!Has, T!Distinct
<1>6. ASSUME NEW x, NEW y, T!Before(s, x, y), x # y, e # x \/ ~T!Has(s, y)
      PROVE  T!Before(a, x, y)
  <2> SUFFICES ASSUME NEW i \in 1..(n + 1), NEW j \in 1..(n + 1), a[i] = x, a[j] = y
               PROVE  i < j
    BY <1>3 DEF T!Before
  <2>1. CASE i \in 1..n /\ j \in 1..n
    BY <1>3, <1>6, <2>1 DEF T!Before
  <2>2. CASE i \in 1..n /\ j = n + 1
    BY <1>3, <2>2
  <2>3. CASE i = n + 1
    BY <1>2, <1>3, <1>6, <2>3 DEF T!Has
  <2> QED BY <1>2, <2>1, <2>2, <2>3
<1> QED BY <1>1, <1>4, <1>5, <1>6 DEF a

(* What the first element leaves behind when it is taken.                  *)
LEMMA HasTail ==
    ASSUME NEW Elt, NEW s \in Seq(Elt), s # <<>>
    PROVE  /\ Tail(s) \in Seq(Elt) /\ Head(s) \in Elt /\ T!Has(s, Head(s))
           /\ T!Distinct(s) =>
                /\ T!Distinct(Tail(s))
                /\ \A x : T!Has(Tail(s), x) <=> T!Has(s, x) /\ x # Head(s)
           /\ \A x, y : T!Before(s, x, y) => T!Before(Tail(s), x, y)
           /\ \A x : T!Before(s, x, Head(s)) => ~T!Has(s, x)
<1> DEFINE a == Tail(s)
           n == Len(s) - 1
<1>1. /\ n \in Nat /\ DOMAIN s = 1..(n + 1) /\ a \in Seq(Elt) /\ Head(s) = s[1] /\ Head(s) \in Elt
      /\ DOMAIN a = 1..n /\ \A i \in 1..n : a[i] = s[i + 1]
  OBVIOUS
<1> HIDE DEF a, n
<1>2. /\ \A i \in 1..n : i + 1 \in 1..(n + 1) /\ i + 1 # 1
      /\ \A i \in 1..(n + 1) : i = 1 \/ (i - 1 \in 1..n /\ (i - 1) + 1 = i)
      /\ 1 \in 1..(n + 1)
  BY <1>1
<1>3. T!Has(s, Head(s))
  BY <1>1, <1>2 DEF T!Has
<1>4. ASSUME T!Distinct(s) PROVE T!Distinct(a)
  <2> SUFFICES ASSUME NEW i \in 1..n, NEW j \in 1..n, i # j PROVE a[i] # a[j]
    BY <1>1 DEF T!Distinct
  <2>1. i + 1 \in 1..(n + 1) /\ j + 1 \in 1..(n + 1) /\ i + 1 # j + 1
    BY <1>1
  <2> QED BY <1>1, <1>4, <2>1 DEF T!Distinct
<1>5. ASSUME T!Distinct(s), NEW x PROVE T!Has(a, x) <=> T!Has(s, x) /\ x # Head(s)
  <2>1. ASSUME T!Has(a, x) PROVE T!Has(s, x) /\ x # Head(s)
    <3>1. PICK i \in 1..n : a[i] = x
      BY <1>1, <2>1 DEF T!Has
    <3>2. i + 1 \in DOMAIN s /\ 1 \in DOMAIN s /\ i + 1 # 1 /\ s[i + 1] = x
      BY <1>1, <1>2, <3>1
    <3> QED BY <1>1, <1>5, <3>2 DEF T!Has, T!Distinct
  <2>2. ASSUME T!Has(s, x), x # Head(s) PROVE T!Has(a, x)
    <3>1. PICK i \in 1..(n + 1) : s[i] = x
      BY <1>1, <2>2 DEF T!Has
    <3>2. i - 1 \in 1..n /\ (i - 1) + 1 = i
      BY <1>1, <1>2, <2>2, <3>1
    <3>3. a[i - 1] = x
      BY <1>1, <3>1, <3>2
    <3> QED BY <1>1, <3>2, <3>3 DEF T!Has
  <2> QED BY <2>1, <2>2
<1>6. ASSUME NEW x, NEW y, T!Before(s, x, y) PROVE T!Before(a, x, y)
  <2> SUFFICES ASSUME NEW i \in 1..n, NEW j \in 1..n, a[i] = x, a[j] = y PROVE i < j
    BY <1>1 DEF T!Before
  <2>1. i + 1 \in DOMAIN s /\ j + 1 \in DOMAIN s /\ s[i + 1] = x /\ s[j + 1] = y
    BY <1>1, <1>2
  <2>2. i + 1 < j + 1
    BY <1>6, <2>1 DEF T!Before
  <2> QED BY <2>2
<1>7. ASSUME NEW x, T!Before(s, x, Head(s)), T!Has(s, x) PROVE FALSE
  <2>1. PICK i \in 1..(n + 1) : s[i] = x
    BY <1>1, <1>7 DEF T!Has
  <2>2. i < 1
    BY <1>1, <1>2, <1>7, <2>1 DEF T!Before
  <2> QED BY <2>2
<1> QED BY <1>1, <1>3, <1>4, <1>5, <1>6, <1>7 DEF a

Loops == 0..MaxLoops

Pend == [Loops -> Seq(T!Functor)]

(* The queues q are p with e at the end of l's.                            *)
Queued(p, q, l, e) ==
    /\ q \in Pend
    /\ \A m \in Loops : \A x : T!Has(q[m], x) <=> T!Has(p[m], x) \/ (m = l /\ x = e)
    /\ (\A m \in Loops : T!Distinct(p[m])) /\ ~T!Has(p[l], e)
            => \A m \in Loops : T!Distinct(q[m])
    /\ \A m \in Loops : \A x, y :
            T!Before(p[m], x, y) /\ x # y /\ (e # x \/ ~T!Has(p[m], y)) => T!Before(q[m], x, y)

(* queue_in_loop, on the queues.                                           *)
LEMMA QAppend ==
    ASSUME NEW p \in Pend, NEW l \in Loops, NEW e \in T!Functor,
           NEW q, q = [p EXCEPT ![l] = Append(@, e)]
    PROVE  Queued(p, q, l, e)
<1>1. /\ p[l] \in Seq(T!Functor) /\ q[l] = Append(p[l], e)
      /\ \A m \in Loops \ {l} : q[m] = p[m]
  BY DEF Pend
<1>2. Append(p[l], e) \in Seq(T!Functor)
  BY <1>1
<1>3. q \in Pend
  BY <1>2 DEF Pend
<1> QED BY <1>1, <1>3, HasAppend DEF Queued

(* The queues q are p without h, the first of l's.                         *)
Taken(p, q, l, h) ==
    /\ q \in Pend /\ h \in T!Functor /\ T!Has(p[l], h)
    /\ \A m \in Loops : \A x : T!Has(q[m], x) <=> T!Has(p[m], x) /\ ~(m = l /\ x = h)
    /\ \A m \in Loops : T!Distinct(q[m])
    /\ \A m \in Loops : \A x, y : T!Before(p[m], x, y) => T!Before(q[m], x, y)
    /\ \A x : T!Before(p[l], x, h) => ~T!Has(p[l], x)

(* A loop takes its next functor, on the queues.                           *)
LEMMA QTail ==
    ASSUME NEW p \in Pend, NEW l \in Loops, p[l] # <<>>,
           NEW q, q = [p EXCEPT ![l] = Tail(@)],
           \A m \in Loops : T!Distinct(p[m])
    PROVE  Taken(p, q, l, Head(p[l]))
<1>1. /\ p[l] \in Seq(T!Functor) /\ q[l] = Tail(p[l])
      /\ \A m \in Loops \ {l} : q[m] = p[m]
  BY DEF Pend
<1>2. Tail(p[l]) \in Seq(T!Functor)
  BY <1>1
<1>3. q \in Pend
  BY <1>2 DEF Pend
<1> QED BY <1>1, <1>3, HasTail DEF Taken

(* The functors of connection c on loop l.                                 *)
EachOf(l, c) ==
    /\ T!EstablishedInv(l, c) /\ T!RemoveInv(l, c) /\ T!DestroyedInv(l, c)
    /\ T!Before(pending[l], <<"established", c>>, <<"destroyed", c>>)

(* QueueInv, by loop and connection.                                       *)
LEMMA QueueParts ==
    /\ T!QueueInv <=> /\ \A l \in Loops : T!Distinct(pending[l])
                      /\ \A l \in Loops, c \in T!Conns : EachOf(l, c)
    /\ T!QueueInv' <=> /\ \A l \in Loops : T!Distinct(pending'[l])
                       /\ \A l \in Loops, c \in T!Conns : EachOf(l, c)'
BY DEF T!QueueInv, EachOf, Loops

ConnOf(c) ==
    /\ ended[c] = 0 \/ (ended[c] = 1 /\ c \notin up /\ c \notin held)
    /\ c \in up => c \in held \/ T!Has(pending[home[c]], <<"destroyed", c>>)

(* ConnInv, by connection.                                                 *)
LEMMA ConnParts ==
    /\ T!ConnInv <=> /\ \A c \in T!Made : ConnOf(c)
                     /\ \A c \in T!Conns \ T!Made : ended[c] = 0
                     /\ base.at = "dtor" => todo = held
    /\ T!ConnInv' <=> /\ \A c \in T!Made' : ConnOf(c)'
                      /\ \A c \in T!Conns \ T!Made' : ended'[c] = 0
                      /\ base'.at = "dtor" => todo' = held'
BY DEF T!ConnInv, ConnOf, T!Conns

(* What a step leaves alone of connection d stays true of its functors.    *)
LEMMA FunctorsKept ==
    ASSUME NEW l \in Loops, NEW d, EachOf(l, d),
           d \in T!Made => d \in T!Made' /\ home'[d] = home[d],
           d \in up' <=> d \in up, d \in closed' <=> d \in closed, d \in held' <=> d \in held,
           ended'[d] = ended[d], T!Ending => T!Ending',
           \A what \in {"established", "remove", "destroyed"} :
                T!Has(pending'[l], <<what, d>>) <=> T!Has(pending[l], <<what, d>>),
           T!Before(pending'[l], <<"established", d>>, <<"destroyed", d>>)
    PROVE  EachOf(l, d)'
BY DEF EachOf, T!EstablishedInv, T!RemoveInv, T!DestroyedInv

(* The types, as the steps need them.                                      *)
LEMMA ServerFacts ==
    ASSUME T!ServerTypes
    PROVE  /\ num \in Nat /\ num <= MaxLoops /\ MaxLoops \in Nat /\ MaxConns \in Nat
           /\ base \in [at : {"spawn", "test", "wait", "loop", "left", "dtor", "dead", "gone"}, i : Nat]
           /\ given \in Seq(1..num) /\ next \in Nat /\ pending \in Pend
           /\ home \in Seq(0..num) /\ Len(home) \in Nat /\ Len(home) <= MaxConns
           /\ T!Made = 1..Len(home) /\ T!Made \subseteq T!Conns
           /\ \A c \in T!Made : home[c] \in 0..num /\ home[c] \in Loops
           /\ held \subseteq T!Made /\ up \subseteq T!Made /\ closed \subseteq T!Made
           /\ ended \in [T!Conns -> Nat] /\ 0 \in Loops
<1>1. /\ num \in Nat /\ num <= MaxLoops /\ MaxLoops \in Nat /\ MaxConns \in Nat
      /\ base \in [at : {"spawn", "test", "wait", "loop", "left", "dtor", "dead", "gone"}, i : Nat]
      /\ given \in Seq(1..num) /\ next \in Nat
      /\ home \in Seq(0..num) /\ Len(home) <= MaxConns
      /\ held \subseteq T!Made /\ up \subseteq T!Made /\ closed \subseteq T!Made
      /\ ended \in [T!Conns -> Nat] /\ 0 \in Loops
  BY PoolsAssumption DEF T!ServerTypes, Loops
<1>2. pending \in Pend
  BY DEF T!ServerTypes, Pend, Loops
<1>3. Len(home) \in Nat /\ T!Made = 1..Len(home) /\ T!Made \subseteq T!Conns
  BY <1>1 DEF T!Made, T!Conns
<1>4. \A c \in T!Made : home[c] \in 0..num
  BY <1>1, <1>3
<1>5. 0..num \subseteq Loops
  BY <1>1 DEF Loops
<1> QED BY <1>1, <1>2, <1>3, <1>4, <1>5

(* A step that leaves the functors and the connections alone.              *)
LEMMA QueueSame ==
    ASSUME T!QueueInv, T!ConnInv, UNCHANGED <<pending, home, held, up, closed, ended>>,
           T!Ending => T!Ending', base'.at = "dtor" => todo' = held
    PROVE  T!QueueInv' /\ T!ConnInv'
<1>1. T!QueueInv'
  BY QueueParts DEF EachOf, T!EstablishedInv, T!RemoveInv, T!DestroyedInv, T!Made
<1>2. T!ConnInv'
  BY ConnParts DEF ConnOf, T!Made
<1> QED BY <1>1, <1>2

(* An interval can be counted.                                             *)
LEMMA CountTo ==
    ASSUME NEW n \in Nat
    PROVE  T!Cardinality(1..n) = n /\ IsFiniteSet(1..n)
<1>1. Cardinality(1..n) = n /\ IsFiniteSet(1..n)
  BY FS_Interval
<1> QED BY <1>1, SameCardinality

(* new_connection.                                                         *)
LEMMA NewConnectionQueues ==
    ASSUME T!ServerTypes, T!StartInv, T!QueueInv, T!ConnInv, T!NewConnection
    PROVE  /\ T!ServerTypes' /\ T!StartInv'
           /\ T!QueueInv' /\ T!ConnInv'
<1> DEFINE c == Len(home) + 1
           l == T!GetNextLoop
<1>0. /\ num \in Nat /\ num <= MaxLoops /\ MaxLoops \in Nat /\ MaxConns \in Nat
      /\ base \in [at : {"spawn", "test", "wait", "loop", "left", "dtor", "dead", "gone"}, i : Nat]
      /\ given \in Seq(1..num) /\ next \in Nat /\ pending \in Pend
      /\ home \in Seq(0..num) /\ Len(home) \in Nat
      /\ T!Made = 1..Len(home)
      /\ held \subseteq T!Made /\ up \subseteq T!Made /\ closed \subseteq T!Made
      /\ ended \in [T!Conns -> Nat]
  BY ServerFacts
<1>1. T!Cardinality(T!Made) = Len(home)
  BY <1>0, CountTo
<1>2. /\ base.at = "loop" /\ Len(home) < MaxConns
      /\ home' = Append(home, l) /\ held' = held \union {c} /\ next' = T!NextAfter
      /\ UNCHANGED <<num, base, thread, given, todo, closed, ended, wrong>>
      /\ IF l = 0
         THEN up' = up \union {c} /\ UNCHANGED pending
         ELSE pending' = [pending EXCEPT ![l] = Append(@, <<"established", c>>)] /\ UNCHANGED up
  BY <1>1 DEF T!NewConnection, T!startVars
<1>3. l \in 0..num /\ l \in Loops /\ (given # <<>> => l # 0)
  <2>1. CASE given = <<>>
    BY <1>0, <2>1 DEF T!GetNextLoop, Loops
  <2>2. CASE given # <<>>
    <3>1. next + 1 \in 1..Len(given)
      BY <1>0, <2>2 DEF T!StartInv
    <3>2. given[next + 1] \in 1..num
      BY <1>0, <3>1
    <3> QED BY <1>0, <2>2, <3>2 DEF T!GetNextLoop, Loops
  <2> QED BY <2>1, <2>2
<1>4. /\ home' \in Seq(0..num) /\ Len(home') = c /\ T!Made' = 1..c
      /\ T!Made' = T!Made \union {c} /\ c \notin T!Made /\ c \in T!Conns
      /\ home'[c] = l /\ \A d \in T!Made : home'[d] = home[d]
  <2> HIDE DEF l
  <2>1. home' \in Seq(0..num) /\ Len(home') = c
    BY <1>0, <1>2, <1>3
  <2>2. T!Made' = 1..c
    BY <2>1 DEF T!Made
  <2>3. home'[c] = l /\ \A d \in 1..Len(home) : home'[d] = home[d]
    BY <1>0, <1>2, <1>3
  <2> QED BY <1>0, <1>2, <2>1, <2>2, <2>3 DEF T!Conns
<1>5. <<"established", c>> \in T!Functor
  BY <1>4 DEF T!Functor
<1>6. next' \in Nat /\ T!StartInv'
  <2>1. CASE given = <<>>
    <3>1. next' = 0 /\ l = 0
      BY <1>2, <2>1 DEF T!NextAfter, T!GetNextLoop
    <3> QED BY <1>2, <1>4, <2>1, <3>1 DEF T!StartInv
  <2>2. CASE given # <<>>
    <3>1. next' \in Nat /\ next' < Len(given)
      BY <1>0, <1>2, <2>2 DEF T!NextAfter, T!StartInv
    <3> QED BY <1>2, <2>2, <3>1 DEF T!StartInv
  <2> QED BY <2>1, <2>2
<1> HIDE DEF c, l
<1>q. ASSUME l # 0 PROVE Queued(pending, pending', l, <<"established", c>>)
  BY <1>0, <1>2, <1>3, <1>5, <1>q, QAppend
<1>7. pending' \in Pend
  BY <1>0, <1>2, <1>q DEF Queued
<1>8. T!ServerTypes'
  <2>1. /\ num' \in 0..MaxLoops /\ base' \in [at : {"spawn", "test", "wait", "loop", "left", "dtor", "dead", "gone"}, i : Nat]
        /\ given' \in Seq(1..num') /\ next' \in Nat /\ ended' \in [T!Conns -> Nat]
    BY <1>0, <1>2, <1>6
  <2>2. home' \in Seq(0..num') /\ Len(home') <= MaxConns
    BY <1>0, <1>2, <1>4 DEF c
  <2>3. held' \subseteq T!Made' /\ up' \subseteq T!Made' /\ closed' \subseteq T!Made'
    BY <1>0, <1>2, <1>4
  <2>4. pending' \in [0..MaxLoops -> Seq(T!Functor)]
    BY <1>7 DEF Pend, Loops
  <2> QED BY <2>1, <2>2, <2>3, <2>4 DEF T!ServerTypes, T!Conns, T!Functor
<1>9. \A m \in Loops : \A what \in {"established", "remove", "destroyed"} :
        ~T!Has(pending[m], <<what, c>>)
  BY <1>4, QueueParts DEF EachOf, T!EstablishedInv, T!RemoveInv, T!DestroyedInv
<1>a. ~T!Ending /\ ~T!Ending'
  BY <1>2 DEF T!Ending
<1>10. \A d \in T!Conns \ {c} :
        (d \in T!Made' <=> d \in T!Made) /\ (d \in held' <=> d \in held) /\ (d \in up' <=> d \in up)
  BY <1>2, <1>4
<1>11. ended[c] = 0 /\ c \in held' /\ c \notin closed /\ c \notin up
  BY <1>0, <1>2, <1>4, ConnParts
<1>12. ASSUME NEW d \in T!Conns \ {c}, NEW m \in Loops, NEW what \in {"established", "remove", "destroyed"}
       PROVE  T!Has(pending'[m], <<what, d>>) <=> T!Has(pending[m], <<what, d>>)
  <2>1. <<what, d>> # <<"established", c>>
    OBVIOUS
  <2> QED BY <1>2, <1>q, <2>1 DEF Queued
<1>13. ASSUME NEW m \in Loops, NEW what \in {"established", "remove", "destroyed"}
       PROVE  T!Has(pending'[m], <<what, c>>) <=> what = "established" /\ l # 0 /\ m = l
  <2>1. <<what, c>> = <<"established", c>> <=> what = "established"
    OBVIOUS
  <2> QED BY <1>2, <1>3, <1>9, <1>q, <2>1 DEF Queued
<1>14. \A m \in Loops : T!Distinct(pending'[m])
  BY <1>2, <1>3, <1>9, <1>q, QueueParts DEF Queued
<1>15. ASSUME NEW m \in Loops, NEW d \in T!Conns
       PROVE  T!Before(pending'[m], <<"established", d>>, <<"destroyed", d>>)
  <2>1. T!Before(pending[m], <<"established", d>>, <<"destroyed", d>>)
    BY QueueParts DEF EachOf
  <2>2. <<"established", d>> # <<"destroyed", d>>
    OBVIOUS
  <2>3. <<"established", c>> # <<"established", d>> \/ ~T!Has(pending[m], <<"destroyed", d>>)
    BY <1>9
  <2> QED BY <1>2, <1>q, <2>1, <2>2, <2>3 DEF Queued
<1>16. T!QueueInv'
  <2>1. ASSUME NEW m \in Loops, NEW d \in T!Conns PROVE EachOf(m, d)'
    <3>1. CASE d # c
      <4>1. EachOf(m, d)
        BY QueueParts
      <4> QED BY <1>2, <1>4, <1>10, <1>12, <1>15, <1>a, <3>1, <4>1, FunctorsKept
    <3>2. CASE d = c
      BY <1>2, <1>4, <1>11, <1>13, <1>15, <3>2 DEF EachOf, T!EstablishedInv, T!RemoveInv, T!DestroyedInv
    <3> QED BY <3>1, <3>2
  <2> QED BY <1>14, <2>1, QueueParts
<1>17. T!ConnInv'
  <2>1. ASSUME NEW d \in T!Made' PROVE ConnOf(d)'
    <3>1. CASE d # c
      <4>1. d \in T!Made /\ d \in T!Conns /\ home'[d] = home[d] /\ home[d] \in Loops /\ ConnOf(d)
        BY <1>4, <3>1, ConnParts, ServerFacts
      <4> QED BY <1>2, <1>10, <1>12, <3>1, <4>1 DEF ConnOf
    <3>2. CASE d = c
      BY <1>2, <1>11, <3>2 DEF ConnOf
    <3> QED BY <3>1, <3>2
  <2>2. \A d \in T!Conns \ T!Made' : ended'[d] = 0
    BY <1>2, <1>4, ConnParts
  <2> QED BY <1>2, <2>1, <2>2, ConnParts
<1> QED BY <1>6, <1>8, <1>16, <1>17

(* The connections of a loop can be counted, and one more is one more.     *)
LEMMA CountOnLoop ==
    ASSUME T!ServerTypes, NEW l
    PROVE  /\ T!Cardinality(T!OnLoop(l)) \in Nat
           /\ \A c : c \notin T!Made =>
                T!Cardinality(T!OnLoop(l) \union {c}) = T!Cardinality(T!OnLoop(l)) + 1
<1>1. IsFiniteSet(T!Made)
  BY ServerFacts, CountTo
<1>2. T!OnLoop(l) \subseteq T!Made
  BY DEF T!OnLoop
<1>3. IsFiniteSet(T!OnLoop(l))
  BY <1>1, <1>2, FS_Subset
<1>4. Cardinality(T!OnLoop(l)) \in Nat
  BY <1>3, FS_CardinalityType
<1>5. ASSUME NEW c, c \notin T!Made
      PROVE  Cardinality(T!OnLoop(l) \union {c}) = Cardinality(T!OnLoop(l)) + 1
  BY <1>2, <1>3, <1>5, FS_AddElement
<1> QED BY <1>4, <1>5, SameCardinality

(* get_next_loop deals the connections out evenly.                         *)
LEMMA NewConnectionDealt ==
    ASSUME T!ServerTypes, T!StartInv, T!DealtInv, T!NewConnection
    PROVE  T!DealtInv'
<1> DEFINE c == Len(home) + 1
           k == next + 1
           n == Len(given)
           At(i) == IF i = k THEN 1 ELSE 0
<1>0. /\ given \in Seq(1..num) /\ next \in Nat /\ n \in Nat /\ DOMAIN given = 1..n
      /\ home \in Seq(0..num) /\ Len(home) \in Nat /\ T!Made = 1..Len(home)
  BY ServerFacts
<1>1. T!Cardinality(T!Made) = Len(home)
  BY <1>0, CountTo
<1>2. home' = Append(home, T!GetNextLoop) /\ next' = T!NextAfter /\ given' = given
  BY <1>1 DEF T!NewConnection, T!startVars
<1>3. T!Made' = 1..c /\ c \notin T!Made /\ home'[c] = T!GetNextLoop /\ \A d \in T!Made : home'[d] = home[d]
  BY <1>0, <1>2 DEF T!Made
<1> SUFFICES ASSUME NEW i \in 1..n, NEW j \in 1..n
             PROVE  T!Cardinality(T!OnLoop(i)') + T!Extra(j)' = T!Cardinality(T!OnLoop(j)') + T!Extra(i)'
  BY <1>0, <1>2 DEF T!DealtInv
<1>4. n # 0 /\ given # <<>> /\ next < n /\ k \in 1..n
  BY <1>0 DEF T!StartInv
<1>5. T!GetNextLoop = k
  BY <1>0, <1>4 DEF T!GetNextLoop, T!StartInv
<1>6. next' = IF k >= n THEN 0 ELSE k
  BY <1>2, <1>4 DEF T!NextAfter
<1> HIDE DEF c, k, n
<1>7. ASSUME NEW h \in 1..n
      PROVE  /\ T!Cardinality(T!OnLoop(h)') = T!Cardinality(T!OnLoop(h)) + At(h)
             /\ T!Cardinality(T!OnLoop(h)) \in Nat
  <2>1. CASE h = k
    <3>1. T!OnLoop(h)' = T!OnLoop(h) \union {c}
      BY <1>0, <1>3, <1>5, <2>1 DEF T!OnLoop, c
    <3> QED BY <1>3, <2>1, <3>1, CountOnLoop
  <2>2. CASE h # k
    <3>1. T!OnLoop(h)' = T!OnLoop(h)
      BY <1>0, <1>3, <1>5, <2>2 DEF T!OnLoop, c
    <3> QED BY <2>2, <3>1, CountOnLoop
  <2> QED BY <2>1, <2>2
<1>8. T!Cardinality(T!OnLoop(i)) + T!Extra(j) = T!Cardinality(T!OnLoop(j)) + T!Extra(i)
  BY <1>0 DEF T!DealtInv
<1> DEFINE a == T!Cardinality(T!OnLoop(i))
           b == T!Cardinality(T!OnLoop(j))
<1>9. a \in Nat /\ b \in Nat /\ T!Cardinality(T!OnLoop(i)') = a + At(i) /\ T!Cardinality(T!OnLoop(j)') = b + At(j)
  BY <1>7
<1>10. a + T!Extra(j) = b + T!Extra(i)
  BY <1>8
<1> HIDE DEF a, b
<1>11. (a + At(i)) + T!Extra(j)' = (b + At(j)) + T!Extra(i)'
  <2>1. k = next + 1 /\ k \in Nat /\ n \in Nat /\ next \in Nat /\ k <= n
    BY <1>0, <1>4 DEF k
  <2> QED BY <1>6, <1>9, <1>10, <2>1 DEF T!Extra
<1> QED BY <1>9, <1>11

(* Once the server has started, its loops and their turns stay.            *)
LEMMA StartKept ==
    ASSUME T!ServerTypes, T!StartInv, T!DealtInv, UNCHANGED <<num, base, given, next, home>>,
           pending' \in Pend, held' \subseteq T!Made, up' \subseteq T!Made, closed' \subseteq T!Made,
           ended' \in [T!Conns -> Nat]
    PROVE  T!ServerTypes' /\ T!StartInv' /\ T!DealtInv'
<1>1. T!Made' = T!Made
  BY DEF T!Made
<1>2. T!ServerTypes'
  BY <1>1 DEF T!ServerTypes, Pend, Loops, T!Conns, T!Functor
<1>3. T!StartInv'
  BY <1>1 DEF T!StartInv
<1>4. \A i \in DOMAIN given : T!OnLoop(i)' = T!OnLoop(i) /\ T!Extra(i)' = T!Extra(i)
  BY <1>1 DEF T!OnLoop, T!Extra
<1>5. T!DealtInv'
  BY <1>4 DEF T!DealtInv
<1> QED BY <1>2, <1>3, <1>5

What == {"established", "remove", "destroyed"}

(* No functor twice, connect_destroyed after connect_established.          *)
Ordered(p) ==
    /\ \A m \in Loops : T!Distinct(p[m])
    /\ \A m \in Loops, d \in T!Conns : T!Before(p[m], <<"established", d>>, <<"destroyed", d>>)

(* The queues p and q have the same functors of all connections but c.     *)
SameButFor(c, p, q) ==
    \A d \in T!Conns \ {c}, m \in Loops, what \in What : T!Has(q[m], <<what, d>>) <=> T!Has(p[m], <<what, d>>)

(* A step about connection c only.                                         *)
LEMMA OneConnection ==
    ASSUME T!ServerTypes, T!QueueInv, T!ConnInv, UNCHANGED <<base, home>>, NEW c \in T!Made,
           \A d \in T!Conns \ {c} :
                /\ (d \in held' <=> d \in held) /\ (d \in up' <=> d \in up)
                /\ (d \in closed' <=> d \in closed) /\ ended'[d] = ended[d],
           SameButFor(c, pending, pending'), Ordered(pending'),
           \A m \in Loops : T!EstablishedInv(m, c)' /\ T!RemoveInv(m, c)' /\ T!DestroyedInv(m, c)',
           ConnOf(c)',
           base.at = "dtor" => todo' = held'
    PROVE  T!QueueInv' /\ T!ConnInv'
<1>1. T!Made' = T!Made /\ (T!Ending <=> T!Ending')
  BY DEF T!Made, T!Ending
<1>2. ASSUME NEW m \in Loops, NEW d \in T!Conns PROVE EachOf(m, d)'
  <2>1. CASE d = c
    BY <2>1 DEF EachOf, Ordered
  <2>2. CASE d # c
    <3>1. EachOf(m, d)
      BY QueueParts
    <3> QED BY <1>1, <2>2, <3>1, FunctorsKept DEF Ordered, SameButFor, What
  <2> QED BY <2>1, <2>2
<1>3. T!QueueInv'
  BY <1>2, QueueParts DEF Ordered
<1>4. ASSUME NEW d \in T!Made PROVE ConnOf(d)'
  <2>1. CASE d # c
    <3>1. d \in T!Conns /\ home[d] \in Loops /\ ConnOf(d)
      BY ConnParts, ServerFacts
    <3> QED BY <2>1, <3>1 DEF ConnOf, SameButFor, What
  <2> QED BY <2>1
<1>5. \A d \in T!Conns \ T!Made : ended'[d] = 0
  BY ConnParts
<1> QED BY <1>1, <1>3, <1>4, <1>5, ConnParts

(* What is queued for c, or taken, disturbs no other connection.           *)
LEMMA QueuedFor ==
    ASSUME NEW p, NEW q, Ordered(p), NEW c \in T!Conns, NEW l \in Loops, NEW w \in {"remove", "destroyed"},
           Queued(p, q, l, <<w, c>>), ~T!Has(p[l], <<w, c>>)
    PROVE  /\ SameButFor(c, p, q) /\ Ordered(q)
           /\ \A m \in Loops, what \in What :
                T!Has(q[m], <<what, c>>) <=> T!Has(p[m], <<what, c>>) \/ (m = l /\ what = w)
<1>1. ASSUME NEW d \in T!Conns, NEW m \in Loops, NEW what \in What
      PROVE  T!Has(q[m], <<what, d>>) <=> T!Has(p[m], <<what, d>>) \/ (m = l /\ what = w /\ d = c)
  <2>1. <<what, d>> = <<w, c>> <=> what = w /\ d = c
    OBVIOUS
  <2> QED BY <2>1 DEF Queued
<1>2. ASSUME NEW m \in Loops, NEW d \in T!Conns
      PROVE  T!Before(q[m], <<"established", d>>, <<"destroyed", d>>)
  <2>1. T!Before(p[m], <<"established", d>>, <<"destroyed", d>>)
    BY DEF Ordered
  <2>2. <<"established", d>> # <<"destroyed", d>> /\ <<w, c>> # <<"established", d>>
    OBVIOUS
  <2> QED BY <2>1, <2>2 DEF Queued
<1>3. \A m \in Loops : T!Distinct(q[m])
  BY DEF Queued, Ordered
<1> QED BY <1>1, <1>2, <1>3 DEF Ordered, SameButFor

(* What is taken for c disturbs no other connection either.                *)
LEMMA TakenFor ==
    ASSUME NEW p, NEW q, Ordered(p), NEW c \in T!Conns, NEW l \in Loops, NEW w \in What,
           Taken(p, q, l, <<w, c>>)
    PROVE  /\ SameButFor(c, p, q) /\ Ordered(q)
           /\ \A m \in Loops, what \in What :
                T!Has(q[m], <<what, c>>) <=> T!Has(p[m], <<what, c>>) /\ ~(m = l /\ what = w)
<1>1. ASSUME NEW d \in T!Conns, NEW m \in Loops, NEW what \in What
      PROVE  T!Has(q[m], <<what, d>>) <=> T!Has(p[m], <<what, d>>) /\ ~(m = l /\ what = w /\ d = c)
  <2>1. <<what, d>> = <<w, c>> <=> what = w /\ d = c
    OBVIOUS
  <2> QED BY <2>1 DEF Taken
<1>2. Ordered(q)
  BY DEF Taken, Ordered
<1> QED BY <1>1, <1>2 DEF SameButFor

(* handle_close.                                                           *)
LEMMA HandleCloseKeeps ==
    ASSUME T!ServerInv, ~wrong, NEW c \in T!Made, T!HandleClose(c)
    PROVE  T!ServerInv'
<1> DEFINE w == IF home[c] = 0 THEN "destroyed" ELSE "remove"
<1>0. T!ServerTypes /\ T!StartInv /\ T!DealtInv /\ T!QueueInv /\ T!ConnInv
  BY DEF T!ServerInv
<1>1. /\ c \in T!Conns /\ home[c] \in 0..num /\ num \in Nat /\ home[c] \in Loops /\ 0 \in Loops /\ pending \in Pend
      /\ held \subseteq T!Made /\ up \subseteq T!Made /\ closed \subseteq T!Made /\ ended \in [T!Conns -> Nat]
  BY <1>0, ServerFacts
<1>2. /\ c \in up /\ c \notin closed /\ closed' = closed \union {c}
      /\ home[c] = 0 => base.at = "loop" /\ held' = held \ {c}
      /\ home[c] # 0 => held' = held
      /\ wrong' = (base.at \in {"dead", "gone"})
      /\ pending' = [pending EXCEPT ![0] = Append(@, <<w, c>>)]
      /\ UNCHANGED <<num, base, thread, given, next, home, todo, up, ended>>
  BY DEF T!HandleClose, T!startVars
<1>3. w \in {"remove", "destroyed"} /\ <<w, c>> \in T!Functor
  BY <1>1 DEF T!Functor
<1>w. (w = "destroyed" <=> home[c] = 0) /\ (w = "remove" <=> home[c] # 0)
  OBVIOUS
<1> HIDE DEF w
<1>4. Queued(pending, pending', 0, <<w, c>>)
  BY <1>1, <1>2, <1>3, QAppend
<1>5. T!ServerTypes' /\ T!StartInv' /\ T!DealtInv'
  BY <1>0, <1>1, <1>2, <1>4, StartKept DEF Queued
<1>6. num' = 0 => ~wrong'
  <2>1. wrong' => base.at \in {"dead", "gone"}
    BY <1>2, Zenon
  <2>2. num = 0 => base.at = "loop"
    BY <1>1, <1>2
  <2>3. base.at = "loop" => base.at \notin {"dead", "gone"}
    OBVIOUS
  <2> QED BY <1>2, <2>1, <2>2, <2>3
<1>7. ASSUME ~wrong' PROVE T!QueueInv' /\ T!ConnInv'
  <2>1. ended[c] = 0 /\ ~T!Has(pending[home[c]], <<"established", c>>) /\ ~T!Has(pending[0], <<"remove", c>>)
    <3>1. EachOf(home[c], c) /\ EachOf(0, c) /\ ConnOf(c)
      BY <1>0, <1>1, QueueParts, ConnParts
    <3> QED BY <1>2, <3>1 DEF EachOf, T!EstablishedInv, T!RemoveInv, ConnOf
  <2>2. \A m \in Loops : ~T!Has(pending[m], <<"established", c>>) /\ ~T!Has(pending[m], <<"remove", c>>)
    <3> SUFFICES ASSUME NEW m \in Loops
                 PROVE  ~T!Has(pending[m], <<"established", c>>) /\ ~T!Has(pending[m], <<"remove", c>>)
      OBVIOUS
    <3>1. EachOf(m, c)
      BY <1>0, <1>1, QueueParts
    <3> QED BY <1>2, <3>1 DEF EachOf, T!EstablishedInv, T!RemoveInv
  <2>3. \A m \in Loops : T!Has(pending[m], <<"destroyed", c>>) => home[c] # 0 /\ m = home[c] /\ c \notin held
    <3> SUFFICES ASSUME NEW m \in Loops, T!Has(pending[m], <<"destroyed", c>>)
                 PROVE  home[c] # 0 /\ m = home[c] /\ c \notin held
      OBVIOUS
    <3>1. EachOf(m, c)
      BY <1>0, <1>1, QueueParts
    <3> QED BY <1>2, <3>1 DEF EachOf, T!DestroyedInv
  <2>4. c \in held \/ (home[c] # 0 /\ T!Has(pending[home[c]], <<"destroyed", c>>) /\ T!Ending)
    <3>1. EachOf(home[c], c) /\ ConnOf(c)
      BY <1>0, <1>1, QueueParts, ConnParts
    <3> QED BY <1>2, <2>3, <1>1, <3>1 DEF EachOf, T!DestroyedInv, ConnOf
  <2>5. ~T!Has(pending[0], <<w, c>>)
    BY <1>1, <1>3, <2>2, <2>3, <1>w
  <2>6. /\ SameButFor(c, pending, pending') /\ Ordered(pending')
        /\ \A m \in Loops, what \in What :
                T!Has(pending'[m], <<what, c>>) <=> T!Has(pending[m], <<what, c>>) \/ (m = 0 /\ what = w)
    <3>1. Ordered(pending)
      BY <1>0, QueueParts DEF EachOf, Ordered
    <3> QED BY <1>1, <1>3, <1>4, <2>5, <3>1, QueuedFor
  <2>7. T!Made' = T!Made /\ (T!Ending' <=> T!Ending)
    BY <1>2 DEF T!Made, T!Ending
  <2>8. ASSUME NEW m \in Loops PROVE T!EstablishedInv(m, c)' /\ T!RemoveInv(m, c)' /\ T!DestroyedInv(m, c)'
    <3>1. T!EstablishedInv(m, c)'
      BY <1>3, <2>2, <2>6 DEF T!EstablishedInv, What
    <3>2. T!RemoveInv(m, c)'
      BY <1>2, <1>w, <2>2, <2>4, <2>6, <2>7 DEF T!RemoveInv, What
    <3>3. T!DestroyedInv(m, c)'
      BY <1>2, <1>w, <2>1, <2>3, <2>6, <2>7 DEF T!DestroyedInv, What
    <3> QED BY <3>1, <3>2, <3>3
  <2>9. ConnOf(c)'
    BY <1>1, <1>2, <1>w, <2>1, <2>4, <2>6 DEF ConnOf, What
  <2>10. base.at = "dtor" => todo' = held'
    BY <1>0, <1>2, ConnParts
  <2>11. \A d \in T!Conns \ {c} :
                /\ (d \in held' <=> d \in held) /\ (d \in up' <=> d \in up)
                /\ (d \in closed' <=> d \in closed) /\ ended'[d] = ended[d]
    BY <1>2
  <2> QED BY <1>0, <1>2, <2>6, <2>8, <2>9, <2>10, <2>11, OneConnection
<1> QED BY <1>5, <1>6, <1>7 DEF T!ServerInv

(* What the invariant says of connection c.                                *)
LEMMA OfConnection ==
    ASSUME T!ServerInv, ~wrong, NEW c \in T!Made
    PROVE  /\ T!ServerTypes /\ T!StartInv /\ T!DealtInv /\ T!QueueInv /\ T!ConnInv
           /\ c \in T!Conns /\ home[c] \in 0..num /\ num \in Nat /\ home[c] \in Loops /\ 0 \in Loops
           /\ pending \in Pend /\ Ordered(pending)
           /\ held \subseteq T!Made /\ up \subseteq T!Made /\ closed \subseteq T!Made /\ ended \in [T!Conns -> Nat]
           /\ ConnOf(c) /\ \A m \in Loops : EachOf(m, c)
           /\ base.at = "dtor" => todo = held
<1>1. T!ServerTypes /\ T!StartInv /\ T!DealtInv /\ T!QueueInv /\ T!ConnInv
  BY DEF T!ServerInv
<1>2. /\ c \in T!Conns /\ home[c] \in 0..num /\ num \in Nat /\ home[c] \in Loops /\ 0 \in Loops
      /\ pending \in Pend
      /\ held \subseteq T!Made /\ up \subseteq T!Made /\ closed \subseteq T!Made /\ ended \in [T!Conns -> Nat]
  BY <1>1, ServerFacts
<1>3. Ordered(pending) /\ \A m \in Loops : EachOf(m, c)
  BY <1>1, <1>2, QueueParts DEF EachOf, Ordered
<1>4. ConnOf(c) /\ (base.at = "dtor" => todo = held)
  BY <1>1, ConnParts
<1> QED BY <1>1, <1>2, <1>3, <1>4

(* One connection of the destructor.                                       *)
LEMMA DtorNextKeeps ==
    ASSUME T!ServerInv, ~wrong, NEW c \in T!Conns, T!DtorNext(c)
    PROVE  T!ServerInv'
<1>0. c \in T!Made
  BY ServerFacts, ConnParts DEF T!ServerInv, T!DtorNext
<1>1. /\ T!ServerTypes /\ T!StartInv /\ T!DealtInv /\ T!QueueInv /\ T!ConnInv
      /\ home[c] \in 0..num /\ num \in Nat /\ home[c] \in Loops /\ 0 \in Loops
      /\ pending \in Pend /\ Ordered(pending)
      /\ held \subseteq T!Made /\ up \subseteq T!Made /\ closed \subseteq T!Made /\ ended \in [T!Conns -> Nat]
      /\ ConnOf(c) /\ \A m \in Loops : EachOf(m, c)
      /\ base.at = "dtor" => todo = held
  BY <1>0, OfConnection
<1>2. /\ base.at = "dtor" /\ c \in todo /\ todo' = todo \ {c} /\ held' = held \ {c}
      /\ UNCHANGED <<num, base, thread, given, next, home, wrong>>
      /\ home[c] = 0 => T!ConnectDestroyed(c) /\ pending' = pending
      /\ home[c] # 0 => /\ pending' = [pending EXCEPT ![home[c]] = Append(@, <<"destroyed", c>>)]
                        /\ UNCHANGED <<up, closed, ended>>
  BY DEF T!DtorNext, T!startVars
<1>3. T!Ending /\ T!Ending' /\ T!Made' = T!Made
  BY <1>2 DEF T!Ending, T!Made
<1>4. c \in held /\ ended[c] = 0 /\ \A m \in Loops : ~T!Has(pending[m], <<"destroyed", c>>)
  BY <1>1, <1>2 DEF ConnOf, EachOf, T!DestroyedInv
<1>5. num' = 0 => ~wrong'
  BY <1>2
<1>6. base.at = "dtor" => todo' = held'
  BY <1>1, <1>2
<1>7. CASE home[c] = 0
  <2>1. up' = up \ {c} /\ closed' = closed \union {c} /\ ended' = [ended EXCEPT ![c] = @ + 1] /\ pending' = pending
    BY <1>2, <1>7 DEF T!ConnectDestroyed
  <2>2. ended' \in [T!Conns -> Nat] /\ ended'[c] = 1
    BY <1>1, <1>4, <2>1
  <2>3. T!ServerTypes' /\ T!StartInv' /\ T!DealtInv'
    BY <1>0, <1>1, <1>2, <2>1, <2>2, StartKept
  <2>4. \A d \in T!Conns \ {c} :
                /\ (d \in held' <=> d \in held) /\ (d \in up' <=> d \in up)
                /\ (d \in closed' <=> d \in closed) /\ ended'[d] = ended[d]
    BY <1>1, <1>2, <2>1
  <2>5. ASSUME NEW m \in Loops PROVE T!EstablishedInv(m, c)' /\ T!RemoveInv(m, c)' /\ T!DestroyedInv(m, c)'
    BY <1>1, <1>2, <1>4, <1>7, <2>1 DEF EachOf, T!EstablishedInv, T!RemoveInv, T!DestroyedInv
  <2>6. ConnOf(c)'
    BY <1>2, <2>1, <2>2 DEF ConnOf
  <2>7. SameButFor(c, pending, pending') /\ Ordered(pending')
    BY <1>1, <2>1 DEF SameButFor
  <2>8. T!QueueInv' /\ T!ConnInv'
    BY <1>0, <1>1, <1>2, <1>6, <2>4, <2>5, <2>6, <2>7, OneConnection
  <2> QED BY <1>5, <2>3, <2>8 DEF T!ServerInv
<1>8. CASE home[c] # 0
  <2>1. UNCHANGED <<up, closed, ended>>
    BY <1>2, <1>8
  <2>2. <<"destroyed", c>> \in T!Functor
    BY DEF T!Functor
  <2>3. Queued(pending, pending', home[c], <<"destroyed", c>>)
    BY <1>1, <1>2, <1>8, <2>2, QAppend
  <2>4. /\ SameButFor(c, pending, pending') /\ Ordered(pending')
        /\ \A m \in Loops, what \in What :
             T!Has(pending'[m], <<what, c>>) <=> T!Has(pending[m], <<what, c>>) \/ (m = home[c] /\ what = "destroyed")
    BY <1>1, <1>4, <2>3, QueuedFor
  <2>5. T!ServerTypes' /\ T!StartInv' /\ T!DealtInv'
    BY <1>0, <1>1, <1>2, <2>1, <2>3, StartKept DEF Queued
  <2>6. \A d \in T!Conns \ {c} :
                /\ (d \in held' <=> d \in held) /\ (d \in up' <=> d \in up)
                /\ (d \in closed' <=> d \in closed) /\ ended'[d] = ended[d]
    BY <1>2, <2>1
  <2>7. ASSUME NEW m \in Loops PROVE T!EstablishedInv(m, c)' /\ T!RemoveInv(m, c)' /\ T!DestroyedInv(m, c)'
    <3>1. EachOf(m, c)
      BY <1>1
    <3>2. T!EstablishedInv(m, c)'
      BY <1>2, <1>3, <2>1, <2>4, <3>1 DEF EachOf, T!EstablishedInv, What
    <3>3. T!RemoveInv(m, c)'
      BY <1>2, <1>3, <2>1, <2>4, <3>1 DEF EachOf, T!RemoveInv, What
    <3>4. T!DestroyedInv(m, c)'
      BY <1>0, <1>2, <1>3, <1>4, <1>8, <2>1, <2>4 DEF T!DestroyedInv, What
    <3> QED BY <3>2, <3>3, <3>4
  <2>8. ConnOf(c)'
    BY <1>1, <1>2, <1>4, <2>1, <2>4 DEF ConnOf, What
  <2>9. T!QueueInv' /\ T!ConnInv'
    BY <1>0, <1>1, <1>2, <1>6, <2>4, <2>6, <2>7, <2>8, OneConnection
  <2> QED BY <1>5, <2>5, <2>9 DEF T!ServerInv
<1> QED BY <1>7, <1>8

(* A functor of the loop l.                                                *)
LEMMA RunFunctorKeeps ==
    ASSUME T!ServerInv, ~wrong, NEW l \in Loops, T!RunFunctor(l)
    PROVE  T!ServerInv'
<1>1. /\ pending \in Pend /\ Ordered(pending) /\ T!QueueInv /\ pending[l] # <<>>
      /\ (l = 0 => base.at \in {"loop", "dead"})
      /\ UNCHANGED <<num, base, thread, given, next, home, todo>>
  BY ServerFacts, QueueParts DEF T!ServerInv, T!RunFunctor, T!startVars, EachOf, Ordered
<1>r. PICK rest : rest = [pending EXCEPT ![l] = Tail(@)]
  OBVIOUS
<1>2. Taken(pending, rest, l, Head(pending[l]))
  BY <1>1, <1>r, QTail DEF Ordered
<1>3. Head(pending[l]) \in T!Functor
  BY <1>2 DEF Taken
<1>4. PICK w \in What, c \in T!Conns : Head(pending[l]) = <<w, c>>
  BY <1>3 DEF T!Functor, What
<1>5. \/ /\ w = "established"
         /\ up' = up \union {c} /\ pending' = rest
         /\ UNCHANGED <<held, closed, ended, wrong>>
      \/ /\ w = "remove"
         /\ held' = held \ {c}
         /\ pending' = [rest EXCEPT ![home[c]] = Append(@, <<"destroyed", c>>)]
         /\ wrong' = (base.at = "dead")
         /\ UNCHANGED <<up, closed, ended>>
      \/ /\ w = "destroyed"
         /\ T!ConnectDestroyed(c) /\ pending' = rest
         /\ UNCHANGED <<held, wrong>>
  <2>1. Head(pending[l])[1] = w /\ Head(pending[l])[2] = c
    BY <1>4
  <2> QED BY <1>r, <2>1 DEF T!RunFunctor
<1>6. Taken(pending, rest, l, <<w, c>>) /\ T!Has(pending[l], <<w, c>>)
  BY <1>2, <1>4 DEF Taken
<1>7. c \in T!Made
  <2>1. EachOf(l, c)
    BY <1>1, <1>4, QueueParts
  <2> QED BY <1>4, <1>6, <2>1 DEF EachOf, T!EstablishedInv, T!RemoveInv, T!DestroyedInv, What
<1>8. /\ T!ServerTypes /\ T!StartInv /\ T!DealtInv /\ T!ConnInv
      /\ home[c] \in 0..num /\ num \in Nat /\ home[c] \in Loops /\ 0 \in Loops
      /\ held \subseteq T!Made /\ up \subseteq T!Made /\ closed \subseteq T!Made /\ ended \in [T!Conns -> Nat]
      /\ ConnOf(c) /\ \A m \in Loops : EachOf(m, c)
      /\ base.at = "dtor" => todo = held
  BY <1>7, OfConnection
<1>9. T!Made' = T!Made /\ (T!Ending' <=> T!Ending)
  BY <1>1 DEF T!Made, T!Ending
<1>10. /\ SameButFor(c, pending, rest) /\ Ordered(rest)
       /\ \A m \in Loops, what \in What :
            T!Has(rest[m], <<what, c>>) <=> T!Has(pending[m], <<what, c>>) /\ ~(m = l /\ what = w)
  BY <1>1, <1>4, <1>6, TakenFor
<1>11. rest \in Pend
  BY <1>6 DEF Taken
<1>12. CASE w = "established"
  <2>1. up' = up \union {c} /\ pending' = rest /\ UNCHANGED <<held, closed, ended, wrong>>
    BY <1>5, <1>12
  <2>2. l = home[c] /\ l # 0 /\ c \notin closed /\ ended[c] = 0 /\ (c \in held \/ T!Has(pending[l], <<"destroyed", c>>))
    BY <1>6, <1>8, <1>12 DEF EachOf, T!EstablishedInv
  <2>3. T!ServerTypes' /\ T!StartInv' /\ T!DealtInv'
    BY <1>1, <1>7, <1>8, <1>11, <2>1, StartKept
  <2>4. \A d \in T!Conns \ {c} :
                /\ (d \in held' <=> d \in held) /\ (d \in up' <=> d \in up)
                /\ (d \in closed' <=> d \in closed) /\ ended'[d] = ended[d]
    BY <2>1
  <2>5. ASSUME NEW m \in Loops PROVE T!EstablishedInv(m, c)' /\ T!RemoveInv(m, c)' /\ T!DestroyedInv(m, c)'
    <3>1. EachOf(m, c)
      BY <1>8
    <3>2. T!EstablishedInv(m, c)'
      BY <1>10, <1>12, <2>1, <2>2, <3>1 DEF EachOf, T!EstablishedInv, What
    <3>3. T!RemoveInv(m, c)'
      BY <1>1, <1>9, <1>10, <2>1, <3>1 DEF EachOf, T!RemoveInv, What
    <3>4. T!DestroyedInv(m, c)'
      BY <1>1, <1>9, <1>10, <2>1, <3>1 DEF EachOf, T!DestroyedInv, What
    <3> QED BY <3>2, <3>3, <3>4
  <2>6. ConnOf(c)'
    BY <1>1, <1>8, <1>10, <1>12, <2>1, <2>2 DEF ConnOf, What
  <2>7. T!QueueInv' /\ T!ConnInv'
    BY <1>1, <1>7, <1>8, <1>10, <2>1, <2>4, <2>5, <2>6, OneConnection
  <2> QED BY <1>1, <2>1, <2>3, <2>7 DEF T!ServerInv
<1>13. CASE w = "remove"
  <2>1. /\ held' = held \ {c} /\ wrong' = (base.at = "dead") /\ UNCHANGED <<up, closed, ended>>
        /\ pending' = [rest EXCEPT ![home[c]] = Append(@, <<"destroyed", c>>)]
    BY <1>5, <1>13
  <2>2. l = 0 /\ home[c] # 0 /\ c \in closed /\ (c \in held \/ T!Ending)
    BY <1>6, <1>8, <1>13 DEF EachOf, T!RemoveInv
  <2>3. num' = 0 => ~wrong'
    BY <1>1, <1>8, <2>2
  <2>4. <<"destroyed", c>> \in T!Functor
    BY <1>4 DEF T!Functor
  <2>5. Queued(rest, pending', home[c], <<"destroyed", c>>)
    BY <1>8, <1>11, <2>1, <2>4, QAppend
  <2>6. T!ServerTypes' /\ T!StartInv' /\ T!DealtInv'
    BY <1>1, <1>8, <2>1, <2>5, StartKept DEF Queued
  <2>7. ASSUME ~wrong' PROVE T!QueueInv' /\ T!ConnInv'
    <3>1. base.at = "loop"
      <4>1. base.at # "dead"
        BY <2>1, <2>7, Zenon
      <4> QED BY <1>1, <2>2, <4>1
    <3>2. c \in held /\ ended[c] = 0 /\ \A m \in Loops : ~T!Has(pending[m], <<"destroyed", c>>)
      <4>1. c \in held
        BY <2>2, <3>1 DEF T!Ending
      <4> QED BY <1>8, <4>1 DEF ConnOf, EachOf, T!DestroyedInv
    <3>3. ~T!Has(rest[home[c]], <<"destroyed", c>>)
      BY <1>8, <1>10, <3>2 DEF What
    <3>4. /\ SameButFor(c, rest, pending') /\ Ordered(pending')
          /\ \A m \in Loops, what \in What :
               T!Has(pending'[m], <<what, c>>) <=> T!Has(rest[m], <<what, c>>) \/ (m = home[c] /\ what = "destroyed")
      <4>1. Ordered(rest) /\ c \in T!Conns /\ home[c] \in Loops /\ "destroyed" \in {"remove", "destroyed"}
        BY <1>8, <1>10
      <4> QED BY <2>5, <3>3, <4>1, QueuedFor
    <3>5. SameButFor(c, pending, pending')
      BY <1>10, <3>4 DEF SameButFor
    <3>6. \A d \in T!Conns \ {c} :
                /\ (d \in held' <=> d \in held) /\ (d \in up' <=> d \in up)
                /\ (d \in closed' <=> d \in closed) /\ ended'[d] = ended[d]
      BY <2>1
    <3>7. ASSUME NEW m \in Loops PROVE T!EstablishedInv(m, c)' /\ T!RemoveInv(m, c)' /\ T!DestroyedInv(m, c)'
      <4>1. EachOf(m, c)
        BY <1>8
      <4>2. T!EstablishedInv(m, c)'
        BY <1>10, <2>1, <2>2, <3>4, <4>1 DEF EachOf, T!EstablishedInv, What
      <4>3. T!RemoveInv(m, c)'
        BY <1>10, <1>13, <2>2, <3>4, <4>1 DEF EachOf, T!RemoveInv, What
      <4>4. T!DestroyedInv(m, c)'
        BY <1>1, <1>7, <1>9, <1>10, <2>1, <2>2, <3>2, <3>4 DEF T!DestroyedInv, What
      <4> QED BY <4>2, <4>3, <4>4
    <3>8. ConnOf(c)'
      BY <1>1, <1>8, <2>1, <3>2, <3>4 DEF ConnOf, What
    <3>9. base.at = "dtor" => todo' = held'
      BY <3>1
    <3> QED BY <1>1, <1>7, <1>8, <3>4, <3>5, <3>6, <3>7, <3>8, <3>9, OneConnection
  <2> QED BY <2>3, <2>6, <2>7 DEF T!ServerInv
<1>14. CASE w = "destroyed"
  <2>1. /\ up' = up \ {c} /\ closed' = closed \union {c} /\ ended' = [ended EXCEPT ![c] = @ + 1]
        /\ pending' = rest /\ UNCHANGED <<held, wrong>>
    BY <1>5, <1>14 DEF T!ConnectDestroyed
  <2>2. l = home[c] /\ c \notin held /\ ended[c] = 0
    BY <1>6, <1>8, <1>14 DEF EachOf, T!DestroyedInv
  <2>3. ended' \in [T!Conns -> Nat] /\ ended'[c] = 1
    BY <1>4, <1>8, <2>1, <2>2
  <2>4. T!ServerTypes' /\ T!StartInv' /\ T!DealtInv'
    BY <1>1, <1>7, <1>8, <1>11, <2>1, <2>3, StartKept
  <2>5. \A d \in T!Conns \ {c} :
                /\ (d \in held' <=> d \in held) /\ (d \in up' <=> d \in up)
                /\ (d \in closed' <=> d \in closed) /\ ended'[d] = ended[d]
    BY <1>8, <2>1
  <2>6. ~T!Has(pending[l], <<"established", c>>)
    <3>1. T!Before(pending[l], <<"established", c>>, <<"destroyed", c>>)
      BY <1>8 DEF EachOf
    <3> QED BY <1>6, <1>14, <3>1 DEF Taken
  <2>7. ASSUME NEW m \in Loops PROVE T!EstablishedInv(m, c)' /\ T!RemoveInv(m, c)' /\ T!DestroyedInv(m, c)'
    <3>1. EachOf(m, c)
      BY <1>8
    <3>2. T!EstablishedInv(m, c)'
      BY <1>10, <2>1, <2>2, <2>6, <3>1 DEF EachOf, T!EstablishedInv, What
    <3>3. T!RemoveInv(m, c)'
      BY <1>1, <1>9, <1>10, <2>1, <3>1 DEF EachOf, T!RemoveInv, What
    <3>4. T!DestroyedInv(m, c)'
      BY <1>10, <1>14, <2>1, <2>2, <3>1 DEF EachOf, T!DestroyedInv, What
    <3> QED BY <3>2, <3>3, <3>4
  <2>8. ConnOf(c)'
    BY <2>1, <2>2, <2>3 DEF ConnOf
  <2>9. T!QueueInv' /\ T!ConnInv'
    BY <1>1, <1>7, <1>8, <1>10, <2>1, <2>5, <2>7, <2>8, OneConnection
  <2> QED BY <1>1, <2>1, <2>4, <2>9 DEF T!ServerInv
<1> QED BY <1>4, <1>12, <1>13, <1>14 DEF What

(* The steps of the base thread and of the loop threads as they start, and *)
(* those by which the base thread leaves its loop and the server.          *)
LEMMA StartStepsKeep ==
    ASSUME T!ServerInv, ~wrong,
           T!Spawn \/ T!StartLoopTest \/ T!SpuriousWakeup \/ T!DtorEnd \/ T!BaseQuit \/ T!Dtor
             \/ \E i \in 1..MaxLoops : T!ThreadFunc(i)
    PROVE  T!ServerInv'
<1>0. T!ServerTypes /\ T!StartInv /\ T!DealtInv /\ T!QueueInv /\ T!ConnInv
  BY DEF T!ServerInv
<1>1. /\ num \in Nat /\ num <= MaxLoops /\ MaxLoops \in Nat
      /\ base \in [at : {"spawn", "test", "wait", "loop", "left", "dtor", "dead", "gone"}, i : Nat]
      /\ given \in Seq(1..num) /\ next \in Nat /\ pending \in Pend
      /\ Len(given) \in Nat /\ DOMAIN given = 1..Len(given)
  BY <1>0, ServerFacts
<1>2. UNCHANGED <<num, next, pending, home, held, up, closed, ended, wrong>>
  BY DEF T!Spawn, T!StartLoopTest, T!SpuriousWakeup, T!DtorEnd, T!BaseQuit, T!Dtor, T!ThreadFunc, T!connVars
<1>3. /\ base' \in [at : {"spawn", "test", "wait", "loop", "left", "dtor", "dead", "gone"}, i : Nat]
      /\ (T!Ending => T!Ending') /\ (base'.at = "dtor" => todo' = held)
  <2>1. CASE T!Spawn
    BY <1>1, <2>1 DEF T!Spawn, T!Ending
  <2>2. CASE T!StartLoopTest
    BY <1>1, <2>2 DEF T!StartLoopTest, T!Ending
  <2>3. CASE T!SpuriousWakeup
    BY <1>1, <2>3 DEF T!SpuriousWakeup, T!Ending
  <2>4. CASE T!DtorEnd
    BY <1>1, <2>4 DEF T!DtorEnd, T!Ending
  <2>5. CASE T!BaseQuit
    BY <1>1, <2>5 DEF T!BaseQuit, T!Ending
  <2>6. CASE T!Dtor
    BY <1>1, <2>6 DEF T!Dtor, T!Ending
  <2>7. CASE \E i \in 1..MaxLoops : T!ThreadFunc(i)
    <3>1. /\ base' = IF base.at = "wait" THEN [base EXCEPT !.at = "test"] ELSE base
          /\ todo' = todo
      BY <2>7 DEF T!ThreadFunc, T!connVars
    <3> QED BY <1>0, <1>1, <3>1, ConnParts DEF T!Ending
  <2> QED BY <2>1, <2>2, <2>3, <2>4, <2>5, <2>6, <2>7
<1>4. T!QueueInv' /\ T!ConnInv'
  BY <1>0, <1>2, <1>3, QueueSame
<1>5. \/ given' = given
      \/ /\ base.at = "test" /\ given' = Append(given, base.i)
         /\ base'.at = "spawn" /\ base'.i = base.i + 1
  BY <1>1 DEF T!Spawn, T!StartLoopTest, T!SpuriousWakeup, T!DtorEnd, T!BaseQuit, T!Dtor, T!ThreadFunc
<1>6. given' \in Seq(1..num') /\ T!StartInv'
  <2>1. CASE given' = given
    <3>1. /\ base'.at = "spawn" => base.at = "spawn" /\ base'.i = base.i
          /\ base'.at \in {"test", "wait"} => base.at \in {"spawn", "test", "wait"} /\ base'.i = base.i
          /\ base'.at \in {"test", "wait"} /\ base.at = "spawn" => base.i <= num
      <4>1. CASE T!Spawn
        BY <1>1, <4>1 DEF T!Spawn
      <4>2. CASE T!StartLoopTest
        <5>0. base.at = "test" /\ base.i \in 1..num
          BY <1>0, <1>1, <4>2 DEF T!StartLoopTest, T!StartInv
        <5>a. Len(Append(given, base.i)) = Len(given) + 1
          BY <1>1, <5>0
        <5>b. Append(given, base.i) # given
          <6>1. \A n \in Nat : n + 1 # n
            OBVIOUS
          <6> QED BY <1>1, <5>a, <6>1, Zenon
        <5>c. given' = Append(given, base.i) \/ base' = [base EXCEPT !.at = "wait"]
          BY <4>2 DEF T!StartLoopTest
        <5>1. base' = [base EXCEPT !.at = "wait"] /\ base.at = "test"
          BY <2>1, <5>0, <5>b, <5>c, Zenon
        <5> QED BY <1>1, <5>1
      <4>3. CASE T!SpuriousWakeup
        BY <1>1, <4>3 DEF T!SpuriousWakeup
      <4>4. CASE T!DtorEnd
        BY <1>1, <4>4 DEF T!DtorEnd
      <4>5. CASE T!BaseQuit
        BY <1>1, <4>5 DEF T!BaseQuit
      <4>6. CASE T!Dtor
        BY <1>1, <4>6 DEF T!Dtor
      <4>7. CASE \E i \in 1..MaxLoops : T!ThreadFunc(i)
        <5>1. base' = IF base.at = "wait" THEN [base EXCEPT !.at = "test"] ELSE base
          BY <4>7 DEF T!ThreadFunc
        <5> QED BY <1>0, <1>1, <5>1 DEF T!StartInv
      <4> QED BY <4>1, <4>2, <4>3, <4>4, <4>5, <4>6, <4>7
    <3> QED BY <1>0, <1>1, <1>2, <2>1, <3>1 DEF T!StartInv, T!Made
  <2>2. CASE /\ base.at = "test" /\ given' = Append(given, base.i)
             /\ base'.at = "spawn" /\ base'.i = base.i + 1
    <3>1. base.i = Len(given) + 1 /\ base.i \in 1..num /\ home = <<>> /\ next = 0
      BY <1>0, <1>1, <2>2 DEF T!StartInv
    <3>2. given' \in Seq(1..num) /\ Len(given') = Len(given) + 1 /\ given' # <<>>
      BY <1>1, <2>2, <3>1
    <3>3. \A i \in 1..Len(given') : given'[i] = i
      BY <1>0, <1>1, <2>2, <3>1 DEF T!StartInv
    <3>4. DOMAIN given' = 1..Len(given')
      BY <3>2
    <3> QED BY <1>1, <1>2, <2>2, <3>1, <3>2, <3>3, <3>4 DEF T!StartInv
  <2> QED BY <1>5, <2>1, <2>2
<1>7. T!ServerTypes'
  BY <1>0, <1>2, <1>3, <1>6 DEF T!ServerTypes, T!Made, T!Conns, T!Functor
<1>8. T!DealtInv'
  <2>1. CASE given' = given
    <3>1. \A i \in DOMAIN given : T!OnLoop(i)' = T!OnLoop(i) /\ T!Extra(i)' = T!Extra(i)
      BY <1>2 DEF T!OnLoop, T!Extra, T!Made
    <3> QED BY <1>0, <2>1, <3>1 DEF T!DealtInv
  <2>2. CASE base.at = "test" /\ given' # given
    <3>1. home' = <<>> /\ next' = 0
      BY <1>0, <1>2, <2>2 DEF T!StartInv
    <3>2. \A i : T!OnLoop(i)' = {}
      BY <3>1 DEF T!OnLoop, T!Made
    <3>3. DOMAIN given' = 1..Len(given')
      BY <1>6
    <3>4. \A i \in DOMAIN given' : T!Extra(i)' = 0
      BY <3>1, <3>3 DEF T!Extra
    <3> QED BY <3>2, <3>4 DEF T!DealtInv
  <2> QED BY <1>5, <2>1, <2>2
<1> QED BY <1>0, <1>2, <1>4, <1>6, <1>7, <1>8 DEF T!ServerInv

(* No step of the server breaks its invariant.                             *)
LEMMA ServerStep ==
    ASSUME T!ServerInv, [T!Next]_(T!vars)
    PROVE  T!ServerInv'
<1>1. CASE UNCHANGED T!vars
  <2>1. T!ServerTypes /\ T!StartInv /\ T!DealtInv /\ (num = 0 => ~wrong) /\ (~wrong => T!QueueInv /\ T!ConnInv)
    BY DEF T!ServerInv
  <2>2. UNCHANGED <<num, base, thread, given, next, pending, home, held, todo, up, closed, ended, wrong>>
    BY <1>1 DEF T!vars
  <2>3. T!ServerTypes' /\ T!StartInv' /\ T!DealtInv'
    BY <2>1, <2>2, ServerFacts, StartKept
  <2>4. ~wrong => T!QueueInv' /\ T!ConnInv'
    BY <2>1, <2>2, QueueSame, ConnParts DEF T!Ending
  <2> QED BY <2>1, <2>2, <2>3, <2>4 DEF T!ServerInv
<1>2. CASE T!Next
  <2>1. ~wrong /\ T!IoLoops \subseteq 1..MaxLoops /\ T!IoLoops \subseteq Loops /\ 0 \in Loops
    <3>1. num \in Nat /\ num <= MaxLoops /\ MaxLoops \in Nat
      BY ServerFacts DEF T!ServerInv
    <3> QED BY <1>2, <3>1 DEF T!Next, T!IoLoops, Loops
  <2>2. CASE T!NewConnection
    <3>1. T!ServerTypes /\ T!StartInv /\ T!DealtInv /\ T!QueueInv /\ T!ConnInv /\ UNCHANGED <<num, wrong>>
      BY <2>1, <2>2 DEF T!ServerInv, T!NewConnection, T!startVars
    <3> QED BY <2>1, <2>2, <3>1, NewConnectionQueues, NewConnectionDealt DEF T!ServerInv
  <2>3. CASE T!BaseStep \/ T!SpuriousWakeup \/ T!BaseQuit \/ T!Dtor
    BY <2>1, <2>3, StartStepsKeep, RunFunctorKeeps, DtorNextKeeps DEF T!BaseStep
  <2>4. CASE \E i \in T!IoLoops : T!IoStep(i)
    BY <2>1, <2>4, StartStepsKeep, RunFunctorKeeps DEF T!IoStep
  <2>5. CASE \E c \in T!Made : T!HandleClose(c)
    BY <2>1, <2>5, HandleCloseKeeps
  <2> QED BY <1>2, <2>2, <2>3, <2>4, <2>5 DEF T!Next
<1> QED BY <1>1, <1>2

(* What is in Coming.                                                      *)
LEMMA ComingIs ==
    ASSUME NEW what, NEW c, NEW x
    PROVE  x \in T!Coming(what, c) <=>
             \E l \in Loops : \E i \in DOMAIN pending[l] : x = <<l, i>> /\ pending[l][i] = <<what, c>>
BY DEF T!Coming, Loops

(* The invariant of the server implies what the run checks of it.          *)
LEMMA ServerInvSound == T!ServerInv => T!ServerSound
<1> SUFFICES ASSUME T!ServerInv PROVE T!ServerSound
  OBVIOUS
<1>0. T!ServerTypes /\ T!StartInv /\ T!DealtInv /\ (num = 0 => ~wrong)
  BY DEF T!ServerInv
<1>1. ASSUME ~wrong, NEW c \in T!Made
      PROVE  /\ c \in up => c \in held \/ T!Coming("destroyed", c) # {}
             /\ ended[c] + T!Cardinality(T!Coming("destroyed", c)) <= 1
             /\ \A l \in 0..MaxLoops :
                  <<l, 1>> \in T!Coming("established", c) \union T!Coming("destroyed", c) => l = home[c]
  <2>1. /\ home[c] \in Loops /\ ConnOf(c) /\ Ordered(pending) /\ \A m \in Loops : EachOf(m, c)
    BY <1>1, OfConnection
  <2>2. \A m \in Loops : T!Has(pending[m], <<"destroyed", c>>) => m = home[c] /\ ended[c] = 0
    BY <2>1 DEF EachOf, T!DestroyedInv
  <2>3. \A m \in Loops : T!Has(pending[m], <<"established", c>>) => m = home[c]
    BY <2>1 DEF EachOf, T!EstablishedInv
  <2>4. c \in up => c \in held \/ T!Coming("destroyed", c) # {}
    <3>1. SUFFICES ASSUME T!Has(pending[home[c]], <<"destroyed", c>>) PROVE T!Coming("destroyed", c) # {}
      BY <2>1 DEF ConnOf
    <3>2. PICK i \in DOMAIN pending[home[c]] : pending[home[c]][i] = <<"destroyed", c>>
      BY <3>1 DEF T!Has
    <3>3. <<home[c], i>> \in T!Coming("destroyed", c)
      BY <2>1, <3>2, ComingIs
    <3> QED BY <3>3
  <2>5. ended[c] + T!Cardinality(T!Coming("destroyed", c)) <= 1
    <3>1. CASE T!Coming("destroyed", c) = {}
      <4>1. T!Cardinality(T!Coming("destroyed", c)) = 0
        BY <3>1, SameCardinality, FS_EmptySet
      <4> QED BY <2>1, <4>1 DEF ConnOf
    <3>2. CASE T!Coming("destroyed", c) # {}
      <4>1. PICK x : x \in T!Coming("destroyed", c)
        BY <3>2
      <4>2. ASSUME NEW y \in T!Coming("destroyed", c) PROVE y = x /\ ended[c] = 0
        <5>a. PICK l \in Loops : \E i \in DOMAIN pending[l] : x = <<l, i>> /\ pending[l][i] = <<"destroyed", c>>
          BY <4>1, ComingIs
        <5>1. PICK i \in DOMAIN pending[l] : x = <<l, i>> /\ pending[l][i] = <<"destroyed", c>>
          BY <5>a
        <5>b. PICK k \in Loops : \E j \in DOMAIN pending[k] : y = <<k, j>> /\ pending[k][j] = <<"destroyed", c>>
          BY <4>2, ComingIs
        <5>2. PICK j \in DOMAIN pending[k] : y = <<k, j>> /\ pending[k][j] = <<"destroyed", c>>
          BY <5>b
        <5>3. l = home[c] /\ k = home[c] /\ ended[c] = 0
          BY <2>2, <5>1, <5>2 DEF T!Has
        <5>4. i = j
          BY <2>1, <5>1, <5>2, <5>3 DEF Ordered, T!Distinct
        <5> QED BY <5>1, <5>2, <5>3, <5>4
      <4>3. T!Coming("destroyed", c) = {x} /\ ended[c] = 0
        BY <4>1, <4>2
      <4>4. T!Cardinality(T!Coming("destroyed", c)) = 1
        BY <4>3, SameCardinality, FS_Singleton
      <4> QED BY <4>3, <4>4
    <3> QED BY <3>1, <3>2
  <2>6. ASSUME NEW l \in 0..MaxLoops, <<l, 1>> \in T!Coming("established", c) \union T!Coming("destroyed", c)
        PROVE  l = home[c]
    <3>0. PICK k \in Loops : \E j \in DOMAIN pending[k] :
            <<l, 1>> = <<k, j>> /\ (pending[k][j] = <<"established", c>> \/ pending[k][j] = <<"destroyed", c>>)
      BY <2>6, ComingIs
    <3>1. PICK j \in DOMAIN pending[k] :
            <<l, 1>> = <<k, j>> /\ (pending[k][j] = <<"established", c>> \/ pending[k][j] = <<"destroyed", c>>)
      BY <3>0
    <3>2. k = l
      BY <3>1
    <3> QED BY <2>2, <2>3, <3>1, <3>2 DEF T!Has
  <2> QED BY <2>4, <2>5, <2>6
<1>2. ASSUME NEW i \in DOMAIN given, NEW j \in DOMAIN given
      PROVE  T!Cardinality({c \in T!Made : home[c] = given[i]})
               <= T!Cardinality({c \in T!Made : home[c] = given[j]}) + 1
  <2>1. given[i] = i /\ given[j] = j
    BY <1>0 DEF T!StartInv
  <2>2. T!Cardinality(T!OnLoop(i)) + T!Extra(j) = T!Cardinality(T!OnLoop(j)) + T!Extra(i)
    BY <1>0 DEF T!DealtInv
  <2>3. T!Cardinality(T!OnLoop(i)) \in Nat /\ T!Cardinality(T!OnLoop(j)) \in Nat
    BY <1>0, CountOnLoop
  <2>4. T!Extra(i) \in {0, 1} /\ T!Extra(j) \in {0, 1}
    BY DEF T!Extra
  <2>5. T!Cardinality(T!OnLoop(i)) <= T!Cardinality(T!OnLoop(j)) + 1
    BY <2>2, <2>3, <2>4
  <2> QED BY <2>1, <2>5 DEF T!OnLoop
<1> QED BY <1>0, <1>1, <1>2 DEF T!ServerSound

(* That of the remote calls does too.                                      *)
LEMMA RpcInvMatch == R!RpcInv => R!AnswersMatch
BY DEF R!RpcInv, R!EachCall, R!AnswersMatch

------------------------------------------------------------------------------
(* The initial states.                                                     *)
LEMMA PoolStart == Init => PoolInv
<1> SUFFICES ASSUME Init PROVE PoolInv
  OBVIOUS
<1>1. /\ InitSize \in Nat /\ InitSize # 0 /\ MaxThreads \in Nat /\ InitSize <= MaxThreads /\ MaxQueue \in Nat
      /\ Ids \subseteq Nat /\ 0..(InitSize - 1) \subseteq Ids
  BY ThreadPoolAssumption
<1>2. Alive(pc) = 0..(InitSize - 1) /\ Resting(pc) = 0..(InitSize - 1)
  BY <1>1 DEF Init, Alive, Resting
<1>3. Cardinality(0..(InitSize - 1)) = InitSize
  BY <1>1, FS_Interval
<1>4. PoolTypes
  <2>1. pc \in [Ids -> PC]
    BY DEF Init, PC
  <2> QED BY <1>1, <2>1 DEF Init, PoolTypes
<1>5. Numbers
  BY <1>1, <1>2, <1>3 DEF Init, Numbers
<1>6. NobodySleeps
  BY DEF Init, NobodySleeps
<1> QED BY <1>4, <1>5, <1>6, PoolParts

(* Nobody waits when the pools, the log and the interruptible thread       *)
(* begin.                                                                  *)
LEMMA OthersStart ==
    /\ C!Init => C!CommitInv
    /\ L!Init => L!LogInv
    /\ I!Init => I!WaitInv
<1>1. C!Init => C!CommitInv
  <2> SUFFICES ASSUME C!Init PROVE C!CommitInv
    OBVIOUS
  <2>1. C!Waiting = {}
    BY DEF C!Init, C!Waiting
  <2> QED BY <2>1 DEF C!Init, C!CommitInv, C!AwakeEnough
<1>2. L!Init => L!LogInv
  BY DEF L!Init, L!LogInv, L!NoLostWakeup
<1>3. I!Init => I!WaitInv
  BY DEF I!Init, I!WaitInv, I!PointerLive, I!CvPlaces, I!AnyPlaces
<1> QED BY <1>1, <1>2, <1>3

(* No call has begun.                                                      *)
LEMMA RpcStart == R!Init => R!RpcInv
<1> SUFFICES ASSUME R!Init PROVE R!RpcInv
  OBVIOUS
<1>1. R!NumCalls \in Nat /\ R!NumCalls = Cardinality(Clients)
  BY CallsFinite
<1>2. Begun(call) = {}
  BY DEF R!Init, Begun
<1>3. R!Cardinality(R!Started) = 0
  BY <1>2, CallsFinite, FS_EmptySet
<1>4. \A c \in Clients : 0 \in 0..(R!NumCalls - 1)
  <2> SUFFICES ASSUME NEW c \in Clients PROVE R!NumCalls # 0
    BY <1>1
  <2> QED BY <1>1, PoolsAssumption, FS_EmptySet
<1>5. call \in [Clients -> R!CallType]
  BY <1>4 DEF R!Init, R!CallType
<1>6. R!RpcTypes
  BY <1>3, <1>5 DEF R!Init, R!RpcTypes
<1>7. \A c \in Clients : call[c].at = "start" /\ call[c].recv = "none"
  BY DEF R!Init
<1>8. (\A c \in Clients : R!EachCall(c)) /\ R!IdsApart
  BY <1>7 DEF R!Init, R!EachCall, R!IdsApart, R!HasId
<1> QED BY <1>6, <1>8 DEF R!Init, R!RpcInv

(* A server that starts has no connections.                                *)
LEMMA ServerStart == T!Init => T!ServerInv
<1> SUFFICES ASSUME T!Init PROVE T!ServerInv
  OBVIOUS
<1>1. T!ServerTypes
  BY PoolsAssumption DEF T!Init, T!ServerTypes, T!Made
<1>2. T!StartInv
  BY DEF T!Init, T!StartInv, T!Made
<1>3. T!DealtInv
  BY DEF T!Init, T!DealtInv
<1>4. T!QueueInv
  BY DEF T!Init, T!QueueInv, T!Distinct, T!Before, T!Has, T!EstablishedInv, T!RemoveInv, T!DestroyedInv
<1>5. T!ConnInv
  BY DEF T!Init, T!ConnInv, T!Made
<1> QED BY <1>1, <1>2, <1>3, <1>4, <1>5 DEF T!Init, T!ServerInv

------------------------------------------------------------------------------
(* The invariant of the pools: that of each of them.  For any clients,     *)
(* tasks and threads, whatever the bounds, the steps of threadpool.cc,     *)
(* thread_pool.h, async_log.h, interrupt.cc, of a tcp_server's loops and   *)
(* of arpc_channel keep it.                                                *)
THEOREM PoolsInductive == MCSpec => []PoolsInv
<1>1. MCInit => PoolsInv
  BY PoolStart, OthersStart, RpcStart, ServerStart DEF MCInit, PoolsInv
<1>2. PoolsInv /\ [MCNext]_allvars => PoolsInv'
  <2> SUFFICES ASSUME PoolsInv, [MCNext]_allvars PROVE PoolsInv'
    OBVIOUS
  <2>1. /\ [Next]_vars /\ [C!Next]_(C!vars) /\ [L!Next]_(L!vars)
        /\ [I!Next]_(I!vars) /\ [T!Next]_(T!vars) /\ [R!Next]_(R!vars)
    BY OneAtATime
  <2> QED BY <2>1, PoolStep, CommitStep, LogStep, WaitStep, ServerStep, RpcStep DEF PoolsInv
<1> QED BY <1>1, <1>2, PTL DEF MCSpec

(* No thread of a pool sleeps beside work that nobody will wake it for, or *)
(* after the end, and the pointer an interrupt goes through is to a        *)
(* condition variable that lives.                                          *)
THEOREM SleepersWoken == MCSpec => []NobodyOversleeps
<1>1. PoolsInv => NobodyOversleeps
  BY DEF PoolsInv, NobodyOversleeps, PoolInv, C!CommitInv, L!LogInv, I!WaitInv
<1> QED BY <1>1, PoolsInductive, PTL

(* threadpool.cc counts its threads, idle threads and tasks right; a       *)
(* tcp_server destroys each connection once, on its own loop, and deals    *)
(* them out evenly; and an answer of arpc_channel finds its own call.      *)
THEOREM BooksKept == MCSpec => []BooksAgree
<1>1. PoolsInv => BooksAgree
  BY ServerInvSound, RpcInvMatch DEF PoolsInv, BooksAgree, PoolInv
<1> QED BY <1>1, PoolsInductive, PTL

------------------------------------------------------------------------------
(* size_class of the memory pool.  The quotient, rounded up, is all the    *)
(* proofs need of \div.                                                    *)
Ceil(x, align) == (x + align - 1) \div align

(* Ceil rounds up to the next multiple: of 8, 16, 128 and 512.             *)
LEMMA Ceil8 ==
    ASSUME NEW x \in Int
    PROVE  /\ Ceil(x, 8) \in Int
           /\ 8 * Ceil(x, 8) - 8 < x /\ x <= 8 * Ceil(x, 8)
BY DEF Ceil

LEMMA Ceil16 ==
    ASSUME NEW x \in Int
    PROVE  /\ Ceil(x, 16) \in Int
           /\ 16 * Ceil(x, 16) - 16 < x /\ x <= 16 * Ceil(x, 16)
BY DEF Ceil

LEMMA Ceil128 ==
    ASSUME NEW x \in Int
    PROVE  /\ Ceil(x, 128) \in Int
           /\ 128 * Ceil(x, 128) - 128 < x /\ x <= 128 * Ceil(x, 128)
BY DEF Ceil

LEMMA Ceil512 ==
    ASSUME NEW x \in Int
    PROVE  /\ Ceil(x, 512) \in Int
           /\ 512 * Ceil(x, 512) - 512 < x /\ x <= 512 * Ceil(x, 512)
BY DEF Ceil

(* A multiple of the alignment can be taken out first.                     *)
LEMMA Ceil16Shift == ASSUME NEW x \in Int PROVE Ceil(x - 128, 16) = Ceil(x, 16) - 8
BY DEF Ceil

LEMMA Ceil128Shift == ASSUME NEW x \in Int PROVE Ceil(x - 1024, 128) = Ceil(x, 128) - 8
BY DEF Ceil

LEMMA Ceil512Shift == ASSUME NEW x \in Int PROVE Ceil(x - 8192, 512) = Ceil(x, 512) - 16
BY DEF Ceil

(* The four groups of sizes: the multiple r a request is rounded up to,    *)
(* and its list i.                                                         *)
Shape(size, r, i) ==
    \/ 0 < size /\ size <= 128 /\ r = 8 * (i + 1) /\ r - 8 < size /\ size <= r
    \/ 128 < size /\ size <= 1024 /\ r = 16 * (i - 7) /\ r - 16 < size /\ size <= r
    \/ 1024 < size /\ size <= 8192 /\ r = 128 * (i - 63) /\ r - 128 < size /\ size <= r
    \/ 8192 < size /\ size <= 65536 /\ r = 512 * (i - 111) /\ r - 512 < size /\ size <= r

(* How large r is, and which lists there are.                              *)
LEMMA ShapeBounds ==
    ASSUME NEW size \in Int, NEW r \in Int, NEW i \in Int, Shape(size, r, i)
    PROVE  /\ 1 <= r /\ r <= 65536 /\ size <= r
           /\ size > 128 => 8 * (r - size) < size
           /\ 0 <= i /\ i < 240
           /\ r < 65536 <=> size <= 65536 - 512
BY DEF Shape

(* A list has one size, and a rounded size is rounded to itself.           *)
LEMMA ShapeUnique ==
    ASSUME NEW a \in Int, NEW b \in Int, NEW r \in Int, NEW s \in Int,
           NEW i \in Int, NEW j \in Int, Shape(a, r, i), Shape(b, s, j)
    PROVE  /\ i = j => r = s
           /\ b = r => s = r /\ i = j
BY DEF Shape

(* round_up and index, in the four groups.                                 *)
LEMMA Groups ==
    ASSUME NEW size \in Requests
    PROVE  RoundUp(size) \in Int /\ Index(size) \in Int /\ Shape(size, RoundUp(size), Index(size))
<1>0. size \in Int /\ 0 < size /\ size <= 65536
  BY DEF Requests, MAXBYTES
<1>1. CASE size <= 128
  <2>1. RoundUp(size) = Ceil(size, 8) * 8
    BY <1>0, <1>1 DEF RoundUp, RoundUpTo, Ceil
  <2>2. Index(size) = Ceil(size, 8) - 1
    BY <1>0, <1>1 DEF Index, IndexIn, Ceil
  <2> QED BY <1>0, <1>1, <2>1, <2>2, Ceil8 DEF Shape
<1>2. CASE 128 < size /\ size <= 1024
  <2>1. RoundUp(size) = Ceil(size, 16) * 16
    BY <1>0, <1>2 DEF RoundUp, RoundUpTo, Ceil
  <2>2. Index(size) = Ceil(size - 128, 16) - 1 + 16
    BY <1>0, <1>2 DEF Index, IndexIn, Ceil
  <2>3. Ceil(size, 16) \in Int /\ 16 * Ceil(size, 16) - 16 < size /\ size <= 16 * Ceil(size, 16)
    BY <1>0, Ceil16
  <2>4. Index(size) = Ceil(size, 16) + 7
    BY <1>0, <2>2, <2>3, Ceil16Shift
  <2>5. RoundUp(size) \in Int /\ Index(size) \in Int
    BY <2>1, <2>3, <2>4
  <2> QED BY <1>0, <1>2, <2>1, <2>3, <2>4, <2>5 DEF Shape
<1>3. CASE 1024 < size /\ size <= 8192
  <2>1. RoundUp(size) = Ceil(size, 128) * 128
    BY <1>0, <1>3 DEF RoundUp, RoundUpTo, Ceil
  <2>2. Index(size) = Ceil(size - 1024, 128) - 1 + 56 + 16
    BY <1>0, <1>3 DEF Index, IndexIn, Ceil
  <2>3. Ceil(size, 128) \in Int /\ 128 * Ceil(size, 128) - 128 < size /\ size <= 128 * Ceil(size, 128)
    BY <1>0, Ceil128
  <2>4. Index(size) = Ceil(size, 128) + 63
    BY <1>0, <2>2, <2>3, Ceil128Shift
  <2>5. RoundUp(size) \in Int /\ Index(size) \in Int
    BY <2>1, <2>3, <2>4
  <2> QED BY <1>0, <1>3, <2>1, <2>3, <2>4, <2>5 DEF Shape
<1>4. CASE 8192 < size
  <2>1. RoundUp(size) = Ceil(size, 512) * 512
    BY <1>0, <1>4 DEF RoundUp, RoundUpTo, Ceil
  <2>2. Index(size) = Ceil(size - 8192, 512) - 1 + 56 + 56 + 16
    BY <1>0, <1>4 DEF Index, IndexIn, Ceil
  <2>3. Ceil(size, 512) \in Int /\ 512 * Ceil(size, 512) - 512 < size /\ size <= 512 * Ceil(size, 512)
    BY <1>0, Ceil512
  <2>4. Index(size) = Ceil(size, 512) + 111
    BY <1>0, <2>2, <2>3, Ceil512Shift
  <2>5. RoundUp(size) \in Int /\ Index(size) \in Int
    BY <2>1, <2>3, <2>4
  <2> QED BY <1>0, <1>4, <2>1, <2>3, <2>4, <2>5 DEF Shape
<1> QED BY <1>0, <1>1, <1>2, <1>3, <1>4

------------------------------------------------------------------------------
(* A block is never smaller than the request, and above the finest class   *)
(* it wastes less than an eighth (comm.h:186 says about 12%).              *)
THEOREM RoundUpFits ==
    ASSUME NEW size \in Requests
    PROVE  /\ RoundUp(size) \in Requests
           /\ size <= RoundUp(size)
           /\ size > 128 => 8 * (RoundUp(size) - size) < size
BY Groups, ShapeBounds DEF Requests, MAXBYTES

(* allocate and deallocate agree on the list: one looks it up from the     *)
(* rounded request, the other from the block size of the span.             *)
THEOREM IndexOfRounded ==
    ASSUME NEW size \in Requests
    PROVE  /\ RoundUp(RoundUp(size)) = RoundUp(size)
           /\ Index(RoundUp(size)) = Index(size)
           /\ Index(size) \in 0..(NLISTS - 1)
<1>1. size \in Int /\ RoundUp(size) \in Requests
  BY RoundUpFits DEF Requests
<1>2. Index(size) \in 0..(NLISTS - 1)
  <2>1. RoundUp(size) \in Int /\ Index(size) \in Int /\ Shape(size, RoundUp(size), Index(size))
    BY Groups
  <2>2. 0 <= Index(size) /\ Index(size) < 240
    BY <1>1, <2>1, ShapeBounds
  <2> QED BY <2>1, <2>2 DEF NLISTS
<1>3. RoundUp(RoundUp(size)) = RoundUp(size) /\ Index(RoundUp(size)) = Index(size)
  BY <1>1, Groups, ShapeUnique
<1> QED BY <1>2, <1>3

(* A free list has blocks of one size only: no two classes share a list.   *)
THEOREM OneSizePerList ==
    ASSUME NEW a \in Requests, NEW b \in Requests, Index(a) = Index(b)
    PROVE  RoundUp(a) = RoundUp(b)
<1>1. a \in Int /\ b \in Int
  BY DEF Requests
<1> QED BY <1>1, Groups, ShapeUnique

(* The assertion bytes < MAXBYTES of index holds of a rounded request when *)
(* the request is at most MAXBYTES - 512, and of no larger one.            *)
THEOREM AssertionHolds ==
    ASSUME NEW size \in Requests
    PROVE  RoundUp(size) < MAXBYTES <=> size <= MAXBYTES - 512
<1>1. size \in Int
  BY DEF Requests
<1> QED BY <1>1, Groups, ShapeBounds DEF MAXBYTES
==============================================================================
