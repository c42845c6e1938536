----------------------------- MODULE LogicSystem -----------------------------
(***************************************************************************)
(* logic_system of the chat server: the io threads post the messages they  *)
(* framed, one worker thread takes them from msg_que_ and runs the         *)
(* callback registered for their id.  The destructor stops the worker.     *)
(*                                                                         *)
(* msg_que_ and b_stop_ are only touched with mtx_ held, and the worker    *)
(* keeps mtx_ while a callback runs, so a critical section without a       *)
(* callback is one step and whoever wants mtx_ has to wait for Held.       *)
(* wait() of the condition variable may return without a notification.     *)
(*                                                                         *)
(* main joins the io threads before the destructor runs, except when it    *)
(* leaves through its catch: posts during the shutdown are in the model.   *)
(***************************************************************************)
EXTENDS Naturals, Sequences

CONSTANTS LogicNodes, \* the messages, each posted at most once
          Known,      \* those whose id has a callback (fun_callbacks_)
          Posters     \* the io threads

ASSUME KnownAssumption == Known \subseteq LogicNodes

VARIABLES msg_que,    \* msg_que_; its head stays in until it is finished
          b_stop,     \* b_stop_
          wpc,        \* where the worker thread is
          tpc,        \* where each io thread is inside post_msg
          dtor,       \* the destructor: "alive", "called", "joining", "gone"
          accepted,   \* the messages pushed so far ...
          late,       \* ... and those pushed after the worker had ended
          called,     \* how often the callback of a message was started
          finished    \* the messages popped, in order

logicVars == <<msg_que, b_stop, wpc, tpc, dtor, accepted, late, called, finished>>

WorkerPC == {"lock", "waiting", "woken", "serve", "call", "drain", "draincall", "done"}

(* The worker owns mtx_.                                                   *)
Held == wpc \in {"serve", "call", "drain", "draincall"}

LogicTypeOK ==
    /\ msg_que \in Seq(LogicNodes)
    /\ b_stop \in BOOLEAN
    /\ wpc \in WorkerPC
    /\ tpc \in [Posters -> {"idle", "notify"}]
    /\ dtor \in {"alive", "called", "joining", "gone"}
    /\ accepted \in SUBSET LogicNodes
    /\ late \in SUBSET LogicNodes
    /\ called \in [LogicNodes -> Nat]
    /\ finished \in Seq(LogicNodes)

(* The constructor starts the worker thread.                               *)
LogicInit ==
    /\ msg_que = <<>>
    /\ b_stop = FALSE
    /\ wpc = "lock"
    /\ tpc = [t \in Posters |-> "idle"]
    /\ dtor = "alive"
    /\ accepted = {} /\ late = {}
    /\ called = [m \in LogicNodes |-> 0]
    /\ finished = <<>>

------------------------------------------------------------------------------
(* The io threads                                                          *)

(* notify_one: the worker, if it waits, will take mtx_ again.              *)
WakeWorker == wpc' = IF wpc = "waiting" THEN "woken" ELSE wpc

(* post_msg: push; the first of an empty queue is followed by a            *)
(* notification, after mtx_ is released.                                   *)
PostMsg(t, m) ==
    /\ ~Held /\ tpc[t] = "idle" /\ dtor # "gone"
    /\ m \notin accepted
    /\ accepted' = accepted \union {m}
    /\ late' = IF wpc = "done" THEN late \union {m} ELSE late
    /\ msg_que' = Append(msg_que, m)
    /\ tpc' = [tpc EXCEPT ![t] = IF Len(msg_que') = 1 THEN "notify" ELSE "idle"]
    /\ UNCHANGED <<b_stop, wpc, dtor, called, finished>>

PostNotify(t) ==
    /\ tpc[t] = "notify"
    /\ tpc' = [tpc EXCEPT ![t] = "idle"]
    /\ WakeWorker
    /\ UNCHANGED <<msg_que, b_stop, dtor, accepted, late, called, finished>>

------------------------------------------------------------------------------
(* The worker thread                                                       *)

(* Mutant: one test of the queue instead of the while around wait().       *)
AcquireTestsOnce ==
    /\ wpc \in {"lock", "woken"}
    /\ wpc' = IF msg_que = <<>> /\ ~b_stop /\ wpc = "lock" THEN "waiting"
              ELSE IF b_stop THEN "drain" ELSE "serve"
    /\ UNCHANGED <<msg_que, b_stop, tpc, dtor, accepted, late, called, finished>>

(* mtx_ is taken, first or after a wait; then the test of the while, and   *)
(* of b_stop_.                                                             *)
Acquire ==
    /\ wpc \in {"lock", "woken"}
    /\ wpc' = IF msg_que = <<>> /\ ~b_stop THEN "waiting"
              ELSE IF b_stop THEN "drain" ELSE "serve"
    /\ UNCHANGED <<msg_que, b_stop, tpc, dtor, accepted, late, called, finished>>

(* wait() returns without a notification.                                  *)
WaitReturns ==
    /\ wpc = "waiting"
    /\ wpc' = "woken"
    /\ UNCHANGED <<msg_que, b_stop, tpc, dtor, accepted, late, called, finished>>

Pop ==
    /\ finished' = Append(finished, Head(msg_que))
    /\ msg_que' = Tail(msg_que)

(* The id of the head has no callback: pop, and on to the next round.      *)
SkipUnknown ==
    /\ wpc \in {"serve", "drain"} /\ msg_que # <<>> /\ Head(msg_que) \notin Known
    /\ Pop
    /\ wpc' = IF wpc = "serve" THEN "lock" ELSE "drain"
    /\ UNCHANGED <<b_stop, tpc, dtor, accepted, late, called>>

(* The callback of the head starts, with mtx_ held.                        *)
StartCall ==
    /\ wpc \in {"serve", "drain"} /\ msg_que # <<>> /\ Head(msg_que) \in Known
    /\ called' = [called EXCEPT ![Head(msg_que)] = @ + 1]
    /\ wpc' = IF wpc = "serve" THEN "call" ELSE "draincall"
    /\ UNCHANGED <<msg_que, b_stop, tpc, dtor, accepted, late, finished>>

(* Mutant: the worker pops whatever is at the back.                        *)
EndCallPopsLast ==
    /\ wpc \in {"call", "draincall"}
    /\ finished' = Append(finished, msg_que[Len(msg_que)])
    /\ msg_que' = SubSeq(msg_que, 1, Len(msg_que) - 1)
    /\ wpc' = IF wpc = "call" THEN "lock" ELSE "drain"
    /\ UNCHANGED <<b_stop, tpc, dtor, accepted, late, called>>

(* It returns, and its message is popped.                                  *)
EndCall ==
    /\ wpc \in {"call", "draincall"}
    /\ Pop
    /\ wpc' = IF wpc = "call" THEN "lock" ELSE "drain"
    /\ UNCHANGED <<b_stop, tpc, dtor, accepted, late, called>>

(* Mutant: break before the queue is empty.                                *)
DrainStopsEarly ==
    /\ wpc = "drain"
    /\ wpc' = "done"
    /\ UNCHANGED <<msg_que, b_stop, tpc, dtor, accepted, late, called, finished>>

(* The drain loop has emptied the queue: deal_msg returns.                 *)
DrainDone ==
    /\ wpc = "drain" /\ msg_que = <<>>
    /\ wpc' = "done"
    /\ UNCHANGED <<msg_que, b_stop, tpc, dtor, accepted, late, called, finished>>

------------------------------------------------------------------------------
(* The destructor                                                          *)

DtorCalled ==
    /\ dtor = "alive"
    /\ dtor' = "called"
    /\ UNCHANGED <<msg_que, b_stop, wpc, tpc, accepted, late, called, finished>>

(* b_stop_ and the notification, with mtx_ held.                           *)
DtorStop ==
    /\ dtor = "called" /\ ~Held
    /\ b_stop' = TRUE
    /\ WakeWorker
    /\ dtor' = "joining"
    /\ UNCHANGED <<msg_que, tpc, accepted, late, called, finished>>

DtorJoin ==
    /\ dtor = "joining" /\ wpc = "done"
    /\ dtor' = "gone"
    /\ UNCHANGED <<msg_que, b_stop, wpc, tpc, accepted, late, called, finished>>

DealMsg == Acquire \/ SkipUnknown \/ StartCall \/ EndCall \/ DrainDone

DtorStep == DtorStop \/ DtorJoin

LogicNext ==
    \/ DealMsg \/ WaitReturns
    \/ DtorCalled \/ DtorStep
    \/ \E t \in Posters : PostNotify(t) \/ \E m \in LogicNodes : PostMsg(t, m)

LogicSpec == LogicInit /\ [][LogicNext]_logicVars

(* The threads are scheduled.  std::mutex is not fair, so nothing is asked *)
(* of whoever competes with the worker for it but what a mutex that stays  *)
(* free gives; nobody has to post, and wait() need not return by itself.   *)
LogicFairness ==
    /\ WF_logicVars(DealMsg) /\ WF_logicVars(DtorStep)
    /\ \A t \in Posters : WF_logicVars(PostNotify(t))

LogicFairSpec == LogicSpec /\ LogicFairness

------------------------------------------------------------------------------
(* Properties                                                              *)

(* "Notify when the queue goes from 0 to 1" is enough: a worker that waits *)
(* while a message is queued is about to be notified, although the         *)
(* notification comes after the unlock and any number of posts, wakeups    *)
(* and pops may lie between; and it never waits once b_stop_ is set.       *)
NoLostWakeup ==
    wpc = "waiting" => ~b_stop /\ (msg_que # <<>> => \E t \in Posters : tpc[t] = "notify")

(* front() and pop() are never called on an empty queue.                   *)
HeadInv == wpc \in {"serve", "call", "draincall"} => msg_que # <<>>

IndInv == LogicTypeOK /\ HeadInv /\ NoLostWakeup

(* The messages are finished once each and in the order of the posts: the  *)
(* worker implements FifoContract.                                         *)
Contract == INSTANCE FifoContract WITH Items <- LogicNodes, todo <- msg_que, done <- finished

ImplementsContract == Contract!Spec

(* A message posted before the worker ended is finished: "all logic is     *)
(* executed before the loop is left" (logic_system.cc:43), and its         *)
(* callback, if it has one, was then called once, however the normal and   *)
(* the draining loop shared the queue; and the destructor returns.         *)
StopFinishes ==
    /\ \A m \in LogicNodes :
        (m \in accepted \ late)
            ~> [](/\ \E i \in 1..Len(finished) : finished[i] = m
                 /\ called[m] = IF m \in Known THEN 1 ELSE 0)
    /\ (dtor = "called") ~> (dtor = "gone")
==============================================================================
