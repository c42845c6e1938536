------------------------------- MODULE Interrupt -------------------------------
(***************************************************************************)
(* interruptible_thread: interrupt_flag and the waits that an interrupt    *)
(* ends.  One thread waits, again and again, in one of three ways:         *)
(*   "cv"   interruptible_wait on a condition_variable, for a millisecond  *)
(*   "pred" the one that repeats this until its predicate holds            *)
(*   "any"  interrupt_flag::wait on a condition_variable_any, without a    *)
(*          timeout and with custom_lock, which is two mutexes             *)
(* Users interrupt it, holding its mutex lk or not, or set the predicate   *)
(* and notify.  The wait of a condition variable releases and sleeps at    *)
(* once; for condition_variable_any the library's own mutex does that.     *)
(***************************************************************************)
CONSTANTS Users,
          Thread,       \* the interruptible thread, as a holder of mutexes
          Nobody

VARIABLES flag,         \* flag
          ptr,          \* thread_cond or thread_cond_any: "none", "cv", "any"
          scm, lk,      \* who holds set_clear_mutex, and the caller's mutex
          pred,
          t,            \* the thread: where it is, and the kind of its wait
          user          \* each user: "idle", or "signal" within interrupt

vars == <<flag, ptr, scm, lk, pred, t, user>>

Init ==
    /\ flag = FALSE /\ ptr = "none" /\ scm = Nobody /\ lk = Nobody /\ pred = FALSE
    /\ t = [at |-> "run", kind |-> "cv"]
    /\ user = [u \in Users |-> "idle"]

Go(place) == t' = [t EXCEPT !.at = place]

(* The caller locks its mutex and calls one of the three.                  *)
Call(kind) ==
    /\ t.at = "run" /\ lk = Nobody
    /\ lk' = Thread /\ t' = [at |-> "enter", kind |-> kind]
    /\ UNCHANGED <<flag, ptr, scm, pred, user>>

(* interruption_point and set_condition_variable.                          *)
EnterCv ==
    /\ t.at = "enter" /\ t.kind # "any"
    /\ \/ flag /\ Go("thrown") /\ lk' = Nobody
       \/ ~flag /\ Go("register") /\ UNCHANGED lk
    /\ UNCHANGED <<flag, ptr, scm, pred, user>>

Register ==
    /\ t.at = "register" /\ scm = Nobody
    /\ ptr' = "cv" /\ Go("test")
    /\ UNCHANGED <<flag, scm, lk, pred, user>>

(* The test before the wait: interruption_point, or the loop's condition.  *)
Test ==
    /\ t.at = "test"
    /\ Go(IF flag \/ (t.kind = "pred" /\ pred) THEN "after" ELSE "doze")
    /\ UNCHANGED <<flag, ptr, scm, lk, pred, user>>

Doze ==
    /\ t.at = "doze" /\ Go("sleep")
    /\ lk' = Nobody
    /\ UNCHANGED <<flag, ptr, scm, pred, user>>

(* The millisecond is over, or for no reason.                              *)
Timeout ==
    /\ t.at = "sleep" /\ Go("woken")
    /\ UNCHANGED <<flag, ptr, scm, lk, pred, user>>

Relock ==
    /\ t.at = "woken" /\ lk = Nobody
    /\ lk' = Thread
    /\ Go(IF t.kind = "pred" THEN "test" ELSE "after")
    /\ UNCHANGED <<flag, ptr, scm, pred, user>>

(* interruption_point at the end: throw or not.                            *)
After ==
    /\ t.at = "after" /\ Go(IF flag THEN "unwind" ELSE "clear")
    /\ UNCHANGED <<flag, ptr, scm, lk, pred, user>>

(* Mutant: the guard is not run when the wait throws.                      *)
LeaveWithoutGuard ==
    /\ t.at \in {"clear", "unwind"} /\ scm = Nobody
    /\ ptr' = IF t.at = "clear" THEN "none" ELSE ptr
    /\ lk' = Nobody
    /\ Go(IF t.at = "clear" THEN "run" ELSE "thrown")
    /\ UNCHANGED <<flag, scm, pred, user>>

(* clear_cv_on_destruct, and then the caller's mutex.                      *)
Leave ==
    /\ t.at \in {"clear", "unwind"} /\ scm = Nobody
    /\ ptr' = "none" /\ lk' = Nobody
    /\ Go(IF t.at = "clear" THEN "run" ELSE "thrown")
    /\ UNCHANGED <<flag, scm, pred, user>>

(* custom_lock's constructor.                                              *)
EnterAny ==
    /\ t.at = "enter" /\ t.kind = "any" /\ scm = Nobody
    /\ scm' = Thread /\ ptr' = "any" /\ Go("anytest")
    /\ UNCHANGED <<flag, lk, pred, user>>

LeaveAny(place) == scm' = Nobody /\ ptr' = "none" /\ lk' = Nobody /\ Go(place)

(* interruption_point, and cv.wait, which unlocks both mutexes; or an      *)
(* exception and custom_lock's destructor.                                 *)
WaitAny ==
    /\ t.at = "anytest"
    /\ \/ flag /\ LeaveAny("thrown")
       \/ ~flag /\ Go("anysleep") /\ scm' = Nobody /\ lk' = Nobody /\ UNCHANGED ptr
    /\ UNCHANGED <<flag, pred, user>>

SpuriousWakeup ==
    /\ t.at = "anysleep" /\ Go("anywoken")
    /\ UNCHANGED <<flag, ptr, scm, lk, pred, user>>

(* Mutant: the two mutexes are locked one after the other.                 *)
RelockAnyInOrder ==
    /\ t.at = "anywoken"
    /\ \/ scm = Nobody /\ scm' = Thread /\ UNCHANGED <<lk, t>>
       \/ scm = Thread /\ lk = Nobody /\ lk' = Thread /\ Go("anyafter") /\ UNCHANGED scm
    /\ UNCHANGED <<flag, ptr, pred, user>>

(* custom_lock::lock: std::lock takes both or none.                        *)
RelockAny ==
    /\ t.at = "anywoken" /\ scm = Nobody /\ lk = Nobody
    /\ scm' = Thread /\ lk' = Thread /\ Go("anyafter")
    /\ UNCHANGED <<flag, ptr, pred, user>>

AfterAny ==
    /\ t.at = "anyafter"
    /\ LeaveAny(IF flag THEN "thrown" ELSE "run")
    /\ UNCHANGED <<flag, pred, user>>

Woken == IF t.at = "sleep" THEN "woken" ELSE IF t.at = "anysleep" THEN "anywoken" ELSE t.at

(* A user takes the mutex, or gives it back.                               *)
UserLock(u) ==
    /\ user[u] = "idle" /\ lk = Nobody /\ t.at # "thrown"
    /\ lk' = u
    /\ UNCHANGED <<flag, ptr, scm, pred, t, user>>

UserUnlock(u) ==
    /\ user[u] = "idle" /\ lk = u
    /\ lk' = Nobody
    /\ UNCHANGED <<flag, ptr, scm, pred, t, user>>

(* A user with the mutex makes the predicate true and notifies.            *)
Notify(u) ==
    /\ user[u] = "idle" /\ lk = u /\ ~pred
    /\ pred' = TRUE /\ lk' = Nobody /\ Go(Woken)
    /\ UNCHANGED <<flag, ptr, scm, user>>

(* interrupt: the flag, then the condition variable with set_clear_mutex.  *)
Interrupt(u) ==
    /\ user[u] = "idle" /\ ~flag
    /\ flag' = TRUE /\ user' = [user EXCEPT ![u] = "signal"]
    /\ UNCHANGED <<ptr, scm, lk, pred, t>>

Signal(u) ==
    /\ user[u] = "signal" /\ scm = Nobody
    /\ user' = [user EXCEPT ![u] = "idle"]
    /\ IF ptr = "none" THEN UNCHANGED t ELSE Go(Woken)
    /\ UNCHANGED <<flag, ptr, scm, lk, pred>>

ThreadStep ==
    \/ EnterCv \/ Register \/ Test \/ Doze \/ Timeout \/ Relock \/ After \/ Leave
    \/ EnterAny \/ WaitAny \/ RelockAny \/ AfterAny

UserStep(u) == Signal(u) \/ UserUnlock(u)

Next ==
    \/ ThreadStep \/ SpuriousWakeup
    \/ \E kind \in {"cv", "pred", "any"} : Call(kind)
    \/ \E u \in Users : UserStep(u) \/ UserLock(u) \/ Notify(u) \/ Interrupt(u)

(* The thread runs, timeouts come, and users end what they have begun; but *)
(* who wants a mutex may find it taken again and again.                    *)
Fairness ==
    /\ SF_vars(ThreadStep)
    /\ \A u \in Users : SF_vars(UserStep(u))

Spec == Init /\ [][Next]_vars /\ Fairness

------------------------------------------------------------------------------
(* Properties                                                              *)

(* The flag points to a condition variable only while the thread is in the *)
(* wait that uses it, so that an interrupt never notifies one that is      *)
(* gone; and a thread that sleeps without a timeout after the flag was set *)
(* is about to be notified.                                                *)
PointerLive ==
    /\ ptr = "cv" => t.kind # "any" /\ t.at \in
            {"test", "doze", "sleep", "woken", "after", "clear", "unwind"}
    /\ ptr = "any" => t.kind = "any" /\ t.at \in {"anytest", "anysleep", "anywoken", "anyafter"}
    /\ t.at = "anysleep" /\ flag => ptr = "any" /\ \E u \in Users : user[u] = "signal"

(* Nothing is owed: once the interrupt has come, the thread is in no wait, *)
(* and the one who interrupted it is not held up by a mutex.  A wait that  *)
(* begins later ends too.                                                  *)
Settled ==
    /\ flag => t.at \in {"run", "thrown"}
    /\ \A u \in Users : user[u] = "idle"

------------------------------------------------------------------------------
(* What the proofs need: an invariant that every step keeps.  The place of *)
(* the thread determines the pointer.                                      *)
CvPlaces == {"test", "doze", "sleep", "woken", "after", "clear", "unwind"}

AnyPlaces == {"anytest", "anysleep", "anywoken", "anyafter"}

WaitInv ==
    /\ PointerLive
    /\ t \in [at : {"run", "enter", "register", "thrown"} \union CvPlaces \union AnyPlaces,
             kind : {"cv", "pred", "any"}]
    /\ user \in [Users -> {"idle", "signal"}]
    /\ t.at \in CvPlaces \union {"register"} => t.kind # "any"
    /\ t.at \in AnyPlaces => t.kind = "any"
    /\ ptr = IF t.at \in CvPlaces THEN "cv" ELSE IF t.at \in AnyPlaces THEN "any" ELSE "none"
==============================================================================
