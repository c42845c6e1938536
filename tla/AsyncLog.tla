------------------------------- MODULE AsyncLog -------------------------------
(***************************************************************************)
(* async_log of asynclog.h: async_write queues a line and notifies, after  *)
(* the unlock, when it is the only one; a thread prints them until stop_   *)
(* is set, and the destructor joins it.  Lines are identities.             *)
(***************************************************************************)
EXTENDS Naturals, Sequences

CONSTANTS Writers, Lines

VARIABLES queue,        \* queue_
          stop,         \* stop_
          writer,       \* each thread in async_write: "idle", "notify"
          logger,       \* the thread: "lock", "wait", "process", "gone"
          written,      \* lines given to async_write
          printed       \* lines in the order of process, the last one under way

vars == <<queue, stop, writer, logger, written, printed>>

Init ==
    /\ queue = <<>> /\ stop = FALSE /\ logger = "lock"
    /\ writer = [t \in Writers |-> "idle"]
    /\ written = {} /\ printed = <<>>

(* Mutant: the size is looked at before the push.                          *)
AsyncWriteSizeBefore(t, m) ==
    /\ writer[t] = "idle" /\ m \notin written
    /\ written' = written \union {m}
    /\ queue' = Append(queue, m)
    /\ writer' = [writer EXCEPT ![t] = IF Len(queue) = 1 THEN "notify" ELSE "idle"]
    /\ UNCHANGED <<stop, logger, printed>>

AsyncWrite(t, m) ==
    /\ writer[t] = "idle" /\ m \notin written
    /\ written' = written \union {m}
    /\ queue' = Append(queue, m)
    /\ writer' = [writer EXCEPT ![t] = IF Len(queue') = 1 THEN "notify" ELSE "idle"]
    /\ UNCHANGED <<stop, logger, printed>>

Notify(t) ==
    /\ writer[t] = "notify"
    /\ writer' = [writer EXCEPT ![t] = "idle"]
    /\ logger' = IF logger = "wait" THEN "lock" ELSE logger
    /\ UNCHANGED <<queue, stop, written, printed>>

(* With mtx_: wait, leave, or take the first line and unlock.              *)
Take ==
    /\ logger = "lock"
    /\ \/ /\ queue = <<>> /\ ~stop
          /\ logger' = "wait" /\ UNCHANGED <<queue, printed>>
       \/ /\ stop
          /\ logger' = "gone" /\ UNCHANGED <<queue, printed>>
       \/ /\ queue # <<>> /\ ~stop
          /\ printed' = Append(printed, Head(queue))
          /\ queue' = Tail(queue)
          /\ logger' = "process"
    /\ UNCHANGED <<stop, writer, written>>

Process ==
    /\ logger = "process" /\ logger' = "lock"
    /\ UNCHANGED <<queue, stop, writer, written, printed>>

SpuriousWakeup ==
    /\ logger = "wait" /\ logger' = "lock"
    /\ UNCHANGED <<queue, stop, writer, written, printed>>

(* stop, called by the destructor: flag and notify_one with mtx_.          *)
Stop ==
    /\ ~stop /\ stop' = TRUE
    /\ logger' = IF logger = "wait" THEN "lock" ELSE logger
    /\ UNCHANGED <<queue, writer, written, printed>>

Next ==
    \/ \E t \in Writers : Notify(t) \/ \E m \in Lines : AsyncWrite(t, m)
    \/ Take \/ Process \/ SpuriousWakeup \/ Stop

Spec == Init /\ [][Next]_vars

------------------------------------------------------------------------------
(* Properties                                                              *)

(* Notifying only for the first line in the queue is enough: a logger that *)
(* waits beside a line is about to be notified, and none waits after stop. *)
NoLostWakeup ==
    logger = "wait" => ~stop /\ (queue # <<>> => \E t \in Writers : writer[t] = "notify")

(* Nothing is owed: every line is printed unless the log is stopped, which *)
(* drops what is queued, and then the thread has ended.                    *)
Settled ==
    IF stop THEN logger = "gone"
    ELSE \A m \in written : \E i \in DOMAIN printed : printed[i] = m

------------------------------------------------------------------------------
(* What the proofs need: an invariant that every step keeps.               *)
LogInv ==
    /\ NoLostWakeup
    /\ queue \in Seq(Lines)
    /\ writer \in [Writers -> {"idle", "notify"}]
    /\ logger \in {"lock", "wait", "process", "gone"}
==============================================================================
