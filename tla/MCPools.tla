-------------------------------- MODULE MCPools --------------------------------
(***************************************************************************)
(* Pools of threads: those whose workers serve queues (the threadpool, the *)
(* one of concurrent/thread_pool.h, the one that steals, and the thread of *)
(* async_log), the loop threads of a tcp_server, the threads that can be   *)
(* interrupted, and those of remote calls.  They do not interact: a        *)
(* behaviour is about one, named by part, with the fairness of that one.   *)
(***************************************************************************)
EXTENDS ThreadPool

CONSTANTS Few,          \* the tasks and lines of the other three
          Pair,         \* the workers of CommitPool, among Ids
          N, Endless,   \* see StealPool
          MaxLoops, MaxConns,   \* see ServerLoops
          Thread, Nobody        \* see Interrupt

ASSUME PoolsAssumption ==
    /\ IsFiniteSet(Clients) /\ IsFiniteSet(Pair)
    /\ MaxLoops \in Nat /\ MaxConns \in Nat
    /\ Nobody \notin Clients

VARIABLES part,
          ctasks, cstop, cclient, cworker, cstate, cdtor,
          lqueue, lstop, lwriter, llogger, lwritten, lprinted,
          sque, sindex, sdone, sclient, sworker, ssubmitted, sjoined,
          num, base, thread, given, next, pending, home, held, todo, up, closed, ended, wrong,
          flag, ptr, scm, lk, pred, waiter, user,
          next_id, calls, call, sock, rsp, ran, misled, undefined

cvars == <<ctasks, cstop, cclient, cworker, cstate, cdtor>>
lvars == <<lqueue, lstop, lwriter, llogger, lwritten, lprinted>>
svars == <<sque, sindex, sdone, sclient, sworker, ssubmitted, sjoined>>
tvars == <<num, base, thread, given, next, pending, home, held, todo, up, closed, ended, wrong>>
ivars == <<flag, ptr, scm, lk, pred, waiter, user>>
rvars == <<next_id, calls, call, sock, rsp, ran, misled, undefined>>

allvars == <<part, vars, cvars, lvars, svars, tvars, ivars, rvars>>

C == INSTANCE CommitPool WITH
        Tasks <- Few, Workers <- Pair, tasks <- ctasks, stop <- cstop, client <- cclient,
        worker <- cworker, state <- cstate, dtor <- cdtor

L == INSTANCE AsyncLog WITH
        Writers <- Clients, Lines <- Few, queue <- lqueue, stop <- lstop,
        writer <- lwriter, logger <- llogger, written <- lwritten, printed <- lprinted

S == INSTANCE StealPool WITH
        Tasks <- Few, que <- sque, index <- sindex, done <- sdone, client <- sclient,
        worker <- sworker, submitted <- ssubmitted, joined <- sjoined

T == INSTANCE ServerLoops WITH MaxThreads <- MaxLoops

I == INSTANCE Interrupt WITH Users <- Clients, t <- waiter

R == INSTANCE Rpc WITH Calls <- Clients, wrong <- misled

InPool(A) == part = "pool" /\ A /\ UNCHANGED <<part, cvars, lvars, svars, tvars, ivars, rvars>>
InCommit(A) == part = "commit" /\ A /\ UNCHANGED <<part, vars, lvars, svars, tvars, ivars, rvars>>
InLog(A) == part = "log" /\ A /\ UNCHANGED <<part, vars, cvars, svars, tvars, ivars, rvars>>
InSteal(A) == part = "steal" /\ A /\ UNCHANGED <<part, vars, cvars, lvars, tvars, ivars, rvars>>
InServer(A) == part = "server" /\ A /\ UNCHANGED <<part, vars, cvars, lvars, svars, ivars, rvars>>
InWaiter(A) == part = "waiter" /\ A /\ UNCHANGED <<part, vars, cvars, lvars, svars, tvars, rvars>>
InRpc(A) == part = "rpc" /\ A /\ UNCHANGED <<part, vars, cvars, lvars, svars, tvars, ivars>>

MCInit ==
    /\ part \in {"pool", "commit", "log", "steal", "server", "waiter", "rpc"}
    /\ Init /\ C!Init /\ L!Init /\ S!Init /\ T!Init /\ I!Init /\ R!Init
    /\ part # "pool" => ~cached
    /\ part # "server" => num = 0
    /\ part # "rpc" => \A c \in Clients : ~call[c].controller /\ ~call[c].known

MCNext ==
    \/ InPool(Next) \/ InCommit(C!Next) \/ InLog(L!Next) \/ InSteal(S!Next)
    \/ InServer(T!Next) \/ InWaiter(I!Next) \/ InRpc(R!Next)

(* Worker w of the part.                                                   *)
Worker(w) ==
    \/ InPool(WorkerStep(w))
    \/ w \in Pair /\ InCommit(C!WorkerStep(w))
    \/ w \in S!Workers /\ InSteal(S!WorkerStep(w))
    \/ w \in 1..MaxLoops /\ InServer(T!IoStep(w))

(* Client c of the part, within a call.                                    *)
Client(c) ==
    \/ InPool(SubmitAgain(c))
    \/ InCommit(C!CommitPush(c) \/ C!CommitNotify(c))
    \/ InLog(L!Notify(c))
    \/ InRpc(~undefined /\ R!CallerStep(c))

(* The thread there is one of: the logger, or who starts and destroys.     *)
Single ==
    \/ InLog(L!Take \/ L!Process)
    \/ InPool(DtorNotify \/ DtorCheck) \/ InCommit(C!Join) \/ InSteal(S!Join)
    \/ InServer(T!BaseStep \/ (base.at = "left" /\ T!Dtor))

(* Threads that can run do, calls that have begun end, tasks end, except   *)
(* Endless ones in the pool that steals, and the destructors' code goes    *)
(* on.  No timeout and no spurious wakeup is relied on, except that the    *)
(* interruptible wait of a millisecond ends.  Who waits for a mutex that   *)
(* others take again and again gets it (see Interrupt).  As a behaviour is *)
(* about one part, fairness of a disjunction over parts is fairness of the *)
(* disjunct of that part.                                                  *)
MCFairness ==
    /\ \A w \in Ids : WF_allvars(Worker(w))
    /\ \A c \in Clients : WF_allvars(Client(c))
    /\ \A c \in Clients : WF_allvars(InRpc(~undefined /\ R!AnswerStep(c)))
    /\ WF_allvars(Single)
    /\ SF_allvars(InWaiter(I!ThreadStep))
    /\ \A c \in Clients : SF_allvars(InWaiter(I!UserStep(c)))

MCSpec == MCInit /\ [][MCNext]_allvars /\ MCFairness

(* Nobody sleeps beside work or after the end, however the notification is *)
(* delayed, and no notification goes to what is gone: see NobodySleeps,    *)
(* AwakeEnough, NoLostWakeup and PointerLive.                              *)
NobodyOversleeps == NobodySleeps /\ C!AwakeEnough /\ L!NoLostWakeup /\ I!PointerLive

(* What the proofs need.                                                   *)
PoolsInv == PoolInv /\ C!CommitInv /\ L!LogInv /\ I!WaitInv /\ T!ServerInv /\ R!RpcInv

(* What is recorded agrees with what there is: the threadpool's counters   *)
(* and threads_ with its threads and tasks, and the connections_ of a      *)
(* server and the functors under way with its connections, which are dealt *)
(* out evenly and destroyed once, and the calls_ of a channel with its     *)
(* calls and their answers: see Counted, ServerSound and AnswersMatch.     *)
BooksAgree == Counted /\ T!ServerSound /\ R!AnswersMatch

(* In the end nothing is owed: tasks and lines are served, interrupted     *)
(* waits, remote calls and the connections of a server that is destroyed   *)
(* have ended, and the destructors have returned, as far as the code makes *)
(* them: see Settled of each module.  Tasks, lines and connections are finite in     *)
(* number and settled once, so this says that each of them is.             *)
PoolsFinish ==
    <>[](Settled /\ C!Settled /\ L!Settled /\ S!Settled /\ T!Settled /\ I!Settled /\ (part = "rpc" => R!Settled))
==============================================================================
