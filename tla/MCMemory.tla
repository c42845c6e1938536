------------------------------- MODULE MCMemory -------------------------------
(***************************************************************************)
(* The code that decides in shared memory when a piece of it may be given  *)
(* back: the memory pool, the pool like nginx's and the allocator of       *)
(* chunks; the lock-free queue, the two lock-free stacks, the queue with   *)
(* two mutexes and the list with a mutex per node.  They do not interact,  *)
(* so a behaviour uses one of them, named by part, and leaves the others   *)
(* as they were made.                                                      *)
(***************************************************************************)
EXTENDS MemoryPool

CONSTANTS Callers,      \* threads that push and pop
          Values, MaxNodes, MaxPops,
          PoolSizes, Header, Data, Node, Clean, ALIGN, MaxSmall, MaxFailed, MaxTries,
          Requests, MaxCalls,   \* see NgxPool
          ElemSizes, MaxBlock, Objects, HeapPart, Counts, MaxMallocs    \* see ChunkAlloc

VARIABLES part,
          qnode, qhead, qtail, qth, qpops, qpushed, qlate, qpopped, qreturned, qwrong,
          snode, shead, sth, spops, sunpushed, staken, swrong,
          rnode, rhead, rpending, rinPop, rth, rpops, runpushed, rtaken, rwrong,
          dnode, dhead, dtail, dhmtx, dbstop, dth, dpops, dunpushed, dtaken, dmissed, dwrong,
          hnode, hlast, hth, hlooks, hunpushed, hraced, hmissed,
          psize, p, big, calls, ran,
          elem, list, pool, heap, got, used

qvars == <<qnode, qhead, qtail, qth, qpops, qpushed, qlate, qpopped, qreturned, qwrong>>
svars == <<snode, shead, sth, spops, sunpushed, staken, swrong>>
rvars == <<rnode, rhead, rpending, rinPop, rth, rpops, runpushed, rtaken, rwrong>>
dvars == <<dnode, dhead, dtail, dhmtx, dbstop, dth, dpops, dunpushed, dtaken, dmissed, dwrong>>
hvars == <<hnode, hlast, hth, hlooks, hunpushed, hraced, hmissed>>
gvars == <<psize, p, big, calls, ran>>
avars == <<elem, list, pool, heap, got, used>>

Q == INSTANCE LockFreeQueue WITH
        Threads <- Callers, node <- qnode, head <- qhead, tail <- qtail, th <- qth,
        pops <- qpops, pushed <- qpushed, late <- qlate, popped <- qpopped,
        returned <- qreturned, wrong <- qwrong

S == INSTANCE RefCountStack WITH
        Threads <- Callers, node <- snode, head <- shead, th <- sth, pops <- spops,
        unpushed <- sunpushed, taken <- staken, wrong <- swrong

R == INSTANCE ReclaimStack WITH
        Threads <- Callers, node <- rnode, head <- rhead, pending <- rpending,
        inPop <- rinPop, th <- rth, pops <- rpops, unpushed <- runpushed,
        taken <- rtaken, wrong <- rwrong

D == INSTANCE SplitQueue WITH
        Threads <- Callers, node <- dnode, head <- dhead, tail <- dtail, hmtx <- dhmtx,
        bstop <- dbstop, th <- dth, pops <- dpops, unpushed <- dunpushed,
        taken <- dtaken, missed <- dmissed, wrong <- dwrong

H == INSTANCE HandList WITH
        Threads <- Callers, node <- hnode, last <- hlast, th <- hth, looks <- hlooks,
        unpushed <- hunpushed, raced <- hraced, missed <- hmissed

G == INSTANCE NgxPool

A == INSTANCE ChunkAlloc

MCInit ==
    /\ part \in {"pool", "queue", "counted", "reclaiming", "split", "list", "ngx", "chunks"}
    /\ Init /\ Q!Init /\ S!Init /\ R!Init /\ D!Init /\ H!Init /\ G!Init /\ A!Init
    /\ part # "ngx" => \A size \in PoolSizes : psize <= size
    /\ part # "chunks" => \A size \in ElemSizes : elem <= size

MCNext ==
    /\ \/ part = "pool" /\ Next /\ UNCHANGED <<qvars, svars, rvars, dvars, hvars, gvars, avars>>
       \/ part = "queue" /\ Q!Next /\ UNCHANGED <<vars, svars, rvars, dvars, hvars, gvars, avars>>
       \/ part = "counted" /\ S!Next /\ UNCHANGED <<vars, qvars, rvars, dvars, hvars, gvars, avars>>
       \/ part = "reclaiming" /\ R!Next /\ UNCHANGED <<vars, qvars, svars, dvars, hvars, gvars, avars>>
       \/ part = "split" /\ D!Next /\ UNCHANGED <<vars, qvars, svars, rvars, hvars, gvars, avars>>
       \/ part = "list" /\ H!Next /\ UNCHANGED <<vars, qvars, svars, rvars, dvars, gvars, avars>>
       \/ part = "ngx" /\ G!Next /\ UNCHANGED <<vars, qvars, svars, rvars, dvars, hvars, avars>>
       \/ part = "chunks" /\ A!Next /\ UNCHANGED <<vars, qvars, svars, rvars, dvars, hvars, gvars>>
    /\ UNCHANGED part

MCSpec == MCInit /\ [][MCNext]_<<part, vars, qvars, svars, rvars, dvars, hvars, gvars, avars>>

Perms == Permutations(Threads) \union Permutations(Callers)

(* The containers act like one queue, one stack or one double-ended queue, *)
(* whichever threads are between their steps: see the modules, which name  *)
(* what the lock-free queue loses.                                         *)
Linearizable ==
    /\ Q!ImplementsContract /\ Q!EmptyOnlyIfEmpty
    /\ S!ImplementsContract
    /\ R!ImplementsContract
    /\ D!ImplementsContract

(* What the two memory pools and the allocator have given out does not     *)
(* overlap, except as HeldApart and PiecesApart say.                       *)
BlocksApart == HeldApart /\ G!PiecesApart /\ A!ExtentsApart

(* The containers' nodes are deleted by the last thread that can reach     *)
(* them, and none is used afterwards, deleted twice or forgotten; nor does *)
(* the pool like nginx's forget a large block or a handler, or the         *)
(* allocator what is left of a chunk, except as NothingLost says.          *)
Reclaimed ==
    /\ Q!NodesReclaimed /\ S!NodesReclaimed /\ R!NodesReclaimed /\ D!NodesReclaimed
    /\ H!ListSound /\ G!NothingLeaks /\ A!NothingLost

(* No call waits for ever: those of the memory pool and of the list do not *)
(* wait for each other, and who sleeps in wait_and_pop is woken for a      *)
(* value, except as SplitQueue says.                                       *)
CallsGoOn == SomeCallGoesOn /\ H!SomeLookGoesOn /\ D!WaitersWoken
==============================================================================
