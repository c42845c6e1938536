------------------------------ MODULE EventLoop ------------------------------
(***************************************************************************)
(* mmuduo's event_loop: one thread that blocks in epoll_wait, dispatches   *)
(* the ready channels and then runs the functors other threads (and its    *)
(* own callbacks) queued for it.  An eventfd wakes the poll.               *)
(*                                                                         *)
(* A functor is an identity: what matters is when it is queued and when it *)
(* is run.  A counter of the eventfd is abstracted to "is it non-zero".    *)
(*                                                                         *)
(* The unguarded read of pending_functors_.size() in do_pending_functors   *)
(* races with the emplace_back of another thread; either it sees the       *)
(* vector before the push or after it, which is what taking the push as    *)
(* one step gives.                                                         *)
(***************************************************************************)
EXTENDS Naturals, Sequences

CONSTANTS Functors,   \* callbacks, each queued at most once
          Threads     \* the threads that use the loop, its own one excluded

VARIABLES lpc,        \* where the loop thread is
          pending,    \* pending_functors_
          funcs,      \* funcs_, local to do_pending_functors; its head is running
          calling,    \* calling_pending_functors_
          quit,       \* quit_
          evfd,       \* the eventfd counter is not zero
          wakeActive, \* the wakeup channel is in active_channels_, not handled yet
          tpc,        \* where each other thread is inside queue_in_loop / quit
          submitted,  \* the functors handed over so far
          early,      \* those the loop thread queued itself before it called loop()
          ran         \* the functors that were run, in order

vars == <<lpc, pending, funcs, calling, quit, evfd, wakeActive, tpc,
          submitted, early, ran>>

LoopPC == {"init", "poll", "handle", "check", "swap", "run", "while", "stopped"}

ThreadPC == {"idle", "wakeup"}

TypeOK ==
    /\ lpc \in LoopPC
    /\ pending \in Seq(Functors)
    /\ funcs \in Seq(Functors)
    /\ calling \in BOOLEAN
    /\ quit \in BOOLEAN
    /\ evfd \in BOOLEAN
    /\ wakeActive \in BOOLEAN
    /\ tpc \in [Threads -> ThreadPC]
    /\ submitted \in SUBSET Functors
    /\ early \in SUBSET Functors
    /\ ran \in Seq(Functors)

(* The constructor: the wakeup channel is registered for reading, nothing  *)
(* is queued, the loop does not run yet.                                   *)
Init ==
    /\ lpc = "init"
    /\ pending = <<>>
    /\ funcs = <<>>
    /\ calling = FALSE
    /\ quit = FALSE
    /\ evfd = FALSE
    /\ wakeActive = FALSE
    /\ tpc = [t \in Threads |-> "idle"]
    /\ submitted = {}
    /\ early = {}
    /\ ran = <<>>

------------------------------------------------------------------------------
(* Other threads                                                           *)

(* The critical section of queue_in_loop.                                  *)
Enqueue(f) ==
    /\ f \notin submitted
    /\ submitted' = submitted \union {f}
    /\ pending' = Append(pending, f)

(* queue_in_loop, or run_in_loop, from a thread that is not the loop's: the *)
(* push under the mutex; the wakeup follows as a step of its own.          *)
ThreadQueue(t, f) ==
    /\ tpc[t] = "idle"
    /\ Enqueue(f)
    /\ tpc' = [tpc EXCEPT ![t] = "wakeup"]
    /\ UNCHANGED <<lpc, funcs, calling, quit, evfd, wakeActive, early, ran>>

(* Mutant: quit does not wake the poll.                                    *)
ThreadQuitSilently(t) ==
    /\ tpc[t] = "idle"
    /\ quit' = TRUE
    /\ UNCHANGED <<lpc, pending, funcs, calling, evfd, wakeActive, tpc, submitted,
                   early, ran>>

(* quit from a thread that is not the loop's: the flag, then the wakeup.   *)
ThreadQuit(t) ==
    /\ tpc[t] = "idle"
    /\ quit' = TRUE
    /\ tpc' = [tpc EXCEPT ![t] = "wakeup"]
    /\ UNCHANGED <<lpc, pending, funcs, calling, evfd, wakeActive, submitted,
                   early, ran>>

(* wakeup: write to the eventfd.                                           *)
Wakeup(t) ==
    /\ tpc[t] = "wakeup"
    /\ evfd' = TRUE
    /\ tpc' = [tpc EXCEPT ![t] = "idle"]
    /\ UNCHANGED <<lpc, pending, funcs, calling, quit, wakeActive, submitted,
                   early, ran>>

------------------------------------------------------------------------------
(* The loop thread                                                         *)

(* Mutant: the own thread never wakes itself.                              *)
OwnQueueNoWakeup(f) ==
    /\ Enqueue(f)
    /\ UNCHANGED evfd

(* queue_in_loop on the loop thread itself.  It wakes the poll only while  *)
(* functors are being run.  Push, test of the flag and write to the        *)
(* eventfd are one step: only this thread polls, so no other thread can    *)
(* tell.                                                                   *)
OwnQueue(f) ==
    /\ Enqueue(f)
    /\ evfd' = (evfd \/ calling)

(* Before loop(): the code that set the loop up queues something.          *)
QueueBeforeLoop(f) ==
    /\ lpc = "init"
    /\ OwnQueue(f)
    /\ early' = early \union {f}
    /\ UNCHANGED <<lpc, funcs, calling, quit, wakeActive, tpc, ran>>

(* A channel's callback queues something, from handle_event.               *)
HandlerQueue(f) ==
    /\ lpc = "handle"
    /\ OwnQueue(f)
    /\ UNCHANGED <<lpc, funcs, calling, quit, wakeActive, tpc, early, ran>>

(* The running functor queues another one.                                 *)
FunctorQueue(f) ==
    /\ lpc = "run" /\ funcs # <<>>
    /\ OwnQueue(f)
    /\ UNCHANGED <<lpc, funcs, calling, quit, wakeActive, tpc, early, ran>>

(* quit from a callback on the loop thread: the flag only.                 *)
OwnQuit ==
    /\ \/ lpc = "handle"
       \/ lpc = "run" /\ funcs # <<>>
    /\ quit' = TRUE
    /\ UNCHANGED <<lpc, pending, funcs, calling, evfd, wakeActive, tpc,
                   submitted, early, ran>>

(* loop(): looping_ = true, quit_ = false, then the first test of quit_.   *)
Loop ==
    /\ lpc = "init"
    /\ quit' = FALSE
    /\ lpc' = "while"
    /\ UNCHANGED <<pending, funcs, calling, evfd, wakeActive, tpc, submitted,
                   early, ran>>

(* while (!quit_): leave, or clear active_channels_ and poll.              *)
TestQuit ==
    /\ lpc = "while"
    /\ lpc' = IF quit THEN "stopped" ELSE "poll"
    /\ UNCHANGED <<pending, funcs, calling, quit, evfd, wakeActive, tpc,
                   submitted, early, ran>>

(* epoll_wait returns because the eventfd is readable; it is level         *)
(* triggered, so the wakeup channel is always among the active ones.       *)
PollWakeup ==
    /\ lpc = "poll" /\ evfd
    /\ lpc' = "handle"
    /\ wakeActive' = TRUE
    /\ UNCHANGED <<pending, funcs, calling, quit, evfd, tpc, submitted, early,
                   ran>>

(* epoll_wait returns without it: another channel is ready, the ten second *)
(* timeout expired, or a signal interrupted the call.                      *)
PollOther ==
    /\ lpc = "poll" /\ ~evfd
    /\ lpc' = "handle"
    /\ UNCHANGED <<pending, funcs, calling, quit, evfd, wakeActive, tpc,
                   submitted, early, ran>>

(* handle_read of the wakeup channel: the eventfd counter is read and      *)
(* becomes zero.                                                           *)
HandleRead ==
    /\ lpc = "handle" /\ wakeActive
    /\ evfd' = FALSE
    /\ wakeActive' = FALSE
    /\ UNCHANGED <<lpc, pending, funcs, calling, quit, tpc, submitted, early,
                   ran>>

(* The for over active_channels_ ends.                                     *)
HandleDone ==
    /\ lpc = "handle" /\ ~wakeActive
    /\ lpc' = "check"
    /\ UNCHANGED <<pending, funcs, calling, quit, evfd, wakeActive, tpc,
                   submitted, early, ran>>

(* Mutant: the flag calling_pending_functors_ is never raised.             *)
CheckPendingNoFlag ==
    /\ lpc = "check"
    /\ lpc' = IF pending = <<>> THEN "while" ELSE "swap"
    /\ UNCHANGED <<calling, pending, funcs, quit, evfd, wakeActive, tpc, submitted,
                   early, ran>>

(* do_pending_functors: the early return, or the flag is raised.           *)
CheckPending ==
    /\ lpc = "check"
    /\ \/ /\ pending = <<>>
          /\ lpc' = "while"
          /\ UNCHANGED calling
       \/ /\ pending # <<>>
          /\ lpc' = "swap"
          /\ calling' = TRUE
    /\ UNCHANGED <<pending, funcs, quit, evfd, wakeActive, tpc, submitted,
                   early, ran>>

(* Mutant: the functors are copied out and the vector is not emptied.      *)
CopyWithoutSwap ==
    /\ lpc = "swap"
    /\ funcs' = pending
    /\ lpc' = "run"
    /\ UNCHANGED <<pending, calling, quit, evfd, wakeActive, tpc, submitted, early,
                   ran>>

(* do_pending_functors: the swap, under the mutex.                         *)
Swap ==
    /\ lpc = "swap"
    /\ funcs' = pending
    /\ pending' = <<>>
    /\ lpc' = "run"
    /\ UNCHANGED <<calling, quit, evfd, wakeActive, tpc, submitted, early, ran>>

(* do_pending_functors: func() of the functor at the head returns.         *)
RunFunctor ==
    /\ lpc = "run" /\ funcs # <<>>
    /\ ran' = Append(ran, Head(funcs))
    /\ funcs' = Tail(funcs)
    /\ UNCHANGED <<lpc, pending, calling, quit, evfd, wakeActive, tpc,
                   submitted, early>>

(* do_pending_functors: the for ends, the flag is lowered.                 *)
RunDone ==
    /\ lpc = "run" /\ funcs = <<>>
    /\ calling' = FALSE
    /\ lpc' = "while"
    /\ UNCHANGED <<pending, funcs, quit, evfd, wakeActive, tpc, submitted,
                   early, ran>>

LoopStep ==
    \/ Loop \/ TestQuit \/ PollWakeup \/ HandleRead \/ HandleDone
    \/ CheckPending \/ Swap \/ RunFunctor \/ RunDone

OwnStep ==
    \/ OwnQuit
    \/ \E f \in Functors : QueueBeforeLoop(f) \/ HandlerQueue(f) \/ FunctorQueue(f)

ThreadStep(t) == Wakeup(t) \/ ThreadQuit(t) \/ \E f \in Functors : ThreadQueue(t, f)

Next == LoopStep \/ PollOther \/ OwnStep \/ \E t \in Threads : ThreadStep(t)

Spec == Init /\ [][Next]_vars

(* Every thread is scheduled: the loop thread takes its next step, and a   *)
(* thread that is inside a call finishes it.  Nobody has to call anything, *)
(* and the poll need not return unless the eventfd is readable.            *)
Fairness ==
    /\ WF_vars(LoopStep)
    /\ \A t \in Threads : WF_vars(Wakeup(t))

FairSpec == Spec /\ Fairness

------------------------------------------------------------------------------
(* Properties                                                              *)

(* A functor the loop thread did not queue before it called loop().        *)
Awaited == \E i \in 1..Len(pending) : pending[i] \notin early

(* queue_in_loop never leaves a functor behind a poll nobody will wake:    *)
(* when the loop thread blocks in epoll_wait, the eventfd is readable or   *)
(* a thread is about to write it.  The loop's own callbacks may queue      *)
(* without a wakeup only because do_pending_functors comes after them.     *)
NoLostWakeup ==
    lpc = "poll" /\ Awaited => evfd \/ \E t \in Threads : tpc[t] = "wakeup"

(* The same for quit from another thread: a loop that sits in epoll_wait   *)
(* with quit_ raised is about to be woken.                                 *)
QuitWakes ==
    lpc = "poll" /\ quit => evfd \/ \E t \in Threads : tpc[t] = "wakeup"

(* do_pending_functors runs each functor once and in the order in which    *)
(* queue_in_loop took them, across the swap and whatever is queued while   *)
(* they run: the loop implements FifoContract.                             *)
Contract == INSTANCE FifoContract WITH Items <- Functors,
                    todo <- funcs \o pending, done <- ran

ImplementsContract == Contract!Spec

(* What makes the two inductive, and the refinement too: the flag          *)
(* calling_pending_functors_ tells where the loop thread is, funcs_ is     *)
(* empty outside the for that runs it, and anything awaited is covered by  *)
(* the eventfd, by a wakeup under way or by a do_pending_functors that is  *)
(* still to come in this round.                                            *)
CallingInv == calling <=> lpc \in {"swap", "run"}

FuncsInv == funcs # <<>> => lpc = "run"

CoverInv ==
    Awaited => \/ evfd
               \/ \E t \in Threads : tpc[t] = "wakeup"
               \/ lpc \in {"handle", "check", "swap"}

IndInv == TypeOK /\ CallingInv /\ FuncsInv /\ CoverInv /\ QuitWakes

(* A functor queued by another thread or from a callback runs, or the loop *)
(* stops, without the help of the poll timeout; and quit of a running loop *)
(* makes loop() return.                                                    *)
Responds ==
    /\ \A f \in Functors :
        (f \in submitted \ early)
            ~> (lpc = "stopped" \/ \E i \in 1..Len(ran) : ran[i] = f)
    /\ (quit /\ lpc # "init") ~> (lpc = "stopped")
==============================================================================
