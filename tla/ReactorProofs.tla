---------------------------- MODULE ReactorProofs ----------------------------
(***************************************************************************)
(* For any sets of functors and threads: the wakeup protocol of event_loop *)
(* loses nothing, and the loop implements FifoContract.  For every         *)
(* reserve, initial size and size of the second buffer: the buffer keeps   *)
(* its bytes.  For any number of callers and of sockets: the channels of   *)
(* tcp_client and its connector are registered and destroyed in order.     *)
(***************************************************************************)
EXTENDS MCReactor, SequenceTheorems, TLAPS

(* The initial state satisfies the inductive invariant.                    *)
LEMMA InitInd == Init => IndInv
<1> SUFFICES ASSUME Init PROVE IndInv
  OBVIOUS
<1>1. TypeOK
  <2>1. /\ calling \in BOOLEAN /\ quit \in BOOLEAN
        /\ evfd \in BOOLEAN /\ wakeActive \in BOOLEAN
    BY Zenon DEF Init
  <2> QED
    BY <2>1 DEF Init, TypeOK, LoopPC, ThreadPC
<1>2. ~Awaited
  BY DEF Init, Awaited
<1> QED
  BY <1>1, <1>2 DEF Init, IndInv, CallingInv, FuncsInv, CoverInv, QuitWakes

(* A functor that is not early and is pending after a push was pending     *)
(* before it, or is the one pushed.                                        *)
LEMMA PushAwaited ==
  ASSUME TypeOK, NEW f \in Functors, Enqueue(f), Awaited', early \subseteq early'
  PROVE  Awaited \/ f \notin early'
<1>1. PICK i \in 1..Len(pending') : pending'[i] \notin early'
  BY DEF Awaited
<1>2. pending' = Append(pending, f) /\ pending \in Seq(Functors)
  BY DEF Enqueue, TypeOK
<1>3. CASE i \in 1..Len(pending)
  <2>1. pending'[i] = pending[i]
    BY <1>2, <1>3
  <2> QED
    BY <1>1, <1>3, <2>1 DEF Awaited
<1>4. CASE i = Len(pending) + 1
  <2>1. pending'[i] = f
    BY <1>2, <1>4
  <2> QED
    BY <1>1, <2>1
<1> QED
  BY <1>1, <1>2, <1>3, <1>4

(* Types are preserved by every step.                                      *)
LEMMA TypeStep == TypeOK /\ [Next]_vars => TypeOK'
<1> SUFFICES ASSUME TypeOK, [Next]_vars PROVE TypeOK'
  OBVIOUS
<1>1. /\ calling' \in BOOLEAN /\ quit' \in BOOLEAN
      /\ evfd' \in BOOLEAN /\ wakeActive' \in BOOLEAN
  <2> USE DEF TypeOK
  <2>1. CASE LoopStep
    BY <2>1, Zenon DEF LoopStep, Loop, TestQuit, PollWakeup, HandleRead, HandleDone,
                CheckPending, Swap, RunFunctor, RunDone
  <2>2. CASE PollOther
    BY <2>2, Zenon DEF PollOther
  <2>3. CASE OwnStep
    BY <2>3, Zenon DEF OwnStep, OwnQuit, QueueBeforeLoop, HandlerQueue, FunctorQueue,
                OwnQueue
  <2>4. CASE \E t \in Threads : ThreadStep(t)
    BY <2>4, Zenon DEF ThreadStep, Wakeup, ThreadQuit, ThreadQueue
  <2>5. CASE UNCHANGED vars
    BY <2>5, Zenon DEF vars
  <2> QED
    BY <2>1, <2>2, <2>3, <2>4, <2>5 DEF Next
<1> DEFINE Rest == /\ lpc \in LoopPC
                   /\ pending \in Seq(Functors) /\ funcs \in Seq(Functors)
                   /\ ran \in Seq(Functors)
                   /\ tpc \in [Threads -> ThreadPC]
                   /\ submitted \in SUBSET Functors /\ early \in SUBSET Functors
<1>2. Rest'
  <2>1. Rest
    BY DEF TypeOK
  <2> USE DEF LoopPC, ThreadPC
  <2>2. ASSUME NEW f \in Functors, Enqueue(f)
        PROVE  pending' \in Seq(Functors) /\ submitted' \in SUBSET Functors
    BY <2>1, <2>2 DEF Enqueue
  <2>3. CASE Loop \/ TestQuit \/ PollWakeup \/ HandleRead \/ HandleDone \/ PollOther
    <3>1. lpc' \in LoopPC
      BY <2>1, <2>3 DEF Loop, TestQuit, PollWakeup, HandleRead, HandleDone, PollOther
    <3>2. UNCHANGED <<pending, funcs, ran, tpc, submitted, early>>
      BY <2>3, Zenon DEF Loop, TestQuit, PollWakeup, HandleRead, HandleDone, PollOther
    <3> QED
      BY <2>1, <3>1, <3>2
  <2>4. CASE CheckPending
    BY <2>1, <2>4 DEF CheckPending
  <2>5. CASE Swap \/ RunDone
    <3>1. CASE Swap
      BY <2>1, <3>1 DEF Swap
    <3>2. CASE RunDone
      BY <2>1, <3>2 DEF RunDone
    <3> QED
      BY <2>5, <3>1, <3>2
  <2>6. CASE RunFunctor
    BY <2>1, <2>6 DEF RunFunctor
  <2>7. CASE OwnQuit \/ UNCHANGED vars
    BY <2>1, <2>7 DEF OwnQuit, vars
  <2>8. ASSUME NEW f \in Functors,
               QueueBeforeLoop(f) \/ HandlerQueue(f) \/ FunctorQueue(f)
        PROVE  Rest'
    BY <2>1, <2>2, <2>8 DEF QueueBeforeLoop, HandlerQueue, FunctorQueue, OwnQueue
  <2>9. ASSUME NEW t \in Threads, ThreadStep(t)
        PROVE  Rest'
    BY <2>1, <2>2, <2>9 DEF ThreadStep, Wakeup, ThreadQuit, ThreadQueue
  <2> QED
    BY <2>3, <2>4, <2>5, <2>6, <2>7, <2>8, <2>9 DEF Next, LoopStep, OwnStep
<1> QED
  BY <1>1, <1>2 DEF TypeOK

(* The flag and funcs_ tell where the loop thread is, after every step.    *)
LEMMA PlaceStep == IndInv /\ [Next]_vars => CallingInv' /\ FuncsInv'
<1> SUFFICES ASSUME IndInv, [Next]_vars PROVE CallingInv' /\ FuncsInv'
  OBVIOUS
<1> USE DEF IndInv, TypeOK, CallingInv, FuncsInv, LoopPC
<1>1. CASE LoopStep
  BY <1>1 DEF LoopStep, Loop, TestQuit, PollWakeup, HandleRead, HandleDone,
              CheckPending, Swap, RunFunctor, RunDone
<1>2. CASE PollOther
  BY <1>2 DEF PollOther
<1>3. CASE OwnStep
  BY <1>3 DEF OwnStep, OwnQuit, QueueBeforeLoop, HandlerQueue, FunctorQueue
<1>4. CASE \E t \in Threads : ThreadStep(t)
  BY <1>4 DEF ThreadStep, Wakeup, ThreadQuit, ThreadQueue
<1>5. CASE UNCHANGED vars
  BY <1>5 DEF vars
<1> QED
  BY <1>1, <1>2, <1>3, <1>4, <1>5 DEF Next

(* Whatever is awaited stays covered: the heart of the wakeup protocol.    *)
LEMMA CoverStep == IndInv /\ [Next]_vars => CoverInv'
<1> SUFFICES ASSUME IndInv, [Next]_vars, Awaited' PROVE CoverInv'
  BY DEF CoverInv
<1> USE DEF IndInv, CoverInv
<1>1. CASE pending' = pending /\ early' = early
  <2>1. Awaited
    BY <1>1 DEF Awaited
  <2>2. CASE LoopStep
    <3>1. CASE CheckPending
      BY <2>1, <3>1 DEF CheckPending, Awaited
    <3>2. CASE Swap
      BY <1>1, <2>1, <3>2 DEF Swap, Awaited
    <3> QED
      BY <2>1, <2>2, <3>1, <3>2 DEF LoopStep, Loop, TestQuit, PollWakeup,
            HandleRead, HandleDone, RunFunctor, RunDone
  <2>3. CASE PollOther
    BY <2>1, <2>3 DEF PollOther
  <2>4. CASE OwnQuit
    BY <2>1, <2>4 DEF OwnQuit
  <2>5. ASSUME NEW t \in Threads, Wakeup(t) \/ ThreadQuit(t)
        PROVE  CoverInv'
    <3>1. CASE Wakeup(t)
      BY <3>1 DEF Wakeup
    <3>2. CASE ThreadQuit(t)
      <4>1. tpc'[t] = "wakeup"
        BY <3>2 DEF ThreadQuit, TypeOK
      <4> QED
        BY <4>1
    <3> QED
      BY <2>5, <3>1, <3>2
  <2>6. ASSUME NEW f \in Functors, Enqueue(f)
        PROVE  CoverInv'
    <3>1. Len(pending') = Len(pending) + 1
      BY <2>6 DEF Enqueue, TypeOK
    <3> QED
      BY <1>1, <3>1 DEF TypeOK
  <2>7. CASE UNCHANGED vars
    BY <2>1, <2>7 DEF vars
  <2> QED
    BY <2>2, <2>3, <2>4, <2>5, <2>6, <2>7 DEF Next, OwnStep, ThreadStep,
          QueueBeforeLoop, HandlerQueue, FunctorQueue, OwnQueue, ThreadQueue
<1>2. CASE Swap
  BY <1>2 DEF Swap, Awaited, TypeOK
<1>3. ASSUME NEW f \in Functors, QueueBeforeLoop(f)
      PROVE  CoverInv'
  <2>1. Awaited
    BY <1>3, PushAwaited DEF QueueBeforeLoop, OwnQueue
  <2> QED
    BY <1>3, <2>1 DEF QueueBeforeLoop, OwnQueue, TypeOK
<1>4. ASSUME NEW f \in Functors, HandlerQueue(f)
      PROVE  CoverInv'
  BY <1>4 DEF HandlerQueue
<1>5. ASSUME NEW f \in Functors, FunctorQueue(f)
      PROVE  CoverInv'
  BY <1>5 DEF FunctorQueue, OwnQueue, CallingInv
<1>6. ASSUME NEW t \in Threads, NEW f \in Functors, ThreadQueue(t, f)
      PROVE  CoverInv'
  <2>1. tpc'[t] = "wakeup"
    BY <1>6 DEF ThreadQueue, TypeOK
  <2> QED
    BY <2>1
<1>7. \/ pending' = pending /\ early' = early
      \/ Swap
      \/ \E f \in Functors : QueueBeforeLoop(f) \/ HandlerQueue(f) \/ FunctorQueue(f)
      \/ \E t \in Threads, f \in Functors : ThreadQueue(t, f)
  BY DEF Next, LoopStep, Loop, TestQuit, PollWakeup, HandleRead, HandleDone,
         CheckPending, RunFunctor, RunDone, PollOther, OwnStep, OwnQuit,
         ThreadStep, Wakeup, ThreadQuit, vars
<1> QED
  BY <1>1, <1>2, <1>3, <1>4, <1>5, <1>6, <1>7

(* A raised quit_ never meets a poll that nobody will wake.                *)
LEMMA QuitStep == IndInv /\ [Next]_vars => QuitWakes'
<1> SUFFICES ASSUME IndInv, [Next]_vars PROVE QuitWakes'
  OBVIOUS
<1> USE DEF IndInv, QuitWakes
<1>1. CASE LoopStep
  BY <1>1 DEF LoopStep, Loop, TestQuit, PollWakeup, HandleRead, HandleDone,
              CheckPending, Swap, RunFunctor, RunDone
<1>2. CASE PollOther
  BY <1>2 DEF PollOther
<1>3. CASE OwnStep
  BY <1>3 DEF OwnStep, OwnQuit, QueueBeforeLoop, HandlerQueue, FunctorQueue,
              OwnQueue
<1>4. ASSUME NEW t \in Threads, ThreadStep(t)
      PROVE  QuitWakes'
  <2>1. CASE Wakeup(t)
    BY <2>1 DEF Wakeup
  <2>2. CASE ThreadQuit(t) \/ \E f \in Functors : ThreadQueue(t, f)
    <3>1. tpc'[t] = "wakeup"
      BY <2>2 DEF ThreadQuit, ThreadQueue, TypeOK
    <3> QED
      BY <3>1
  <2> QED
    BY <1>4, <2>1, <2>2 DEF ThreadStep
<1>5. CASE UNCHANGED vars
  BY <1>5 DEF vars
<1> QED
  BY <1>1, <1>2, <1>3, <1>4, <1>5 DEF Next

(* IndInv is an invariant of the loop.                                     *)
THEOREM Inductive == Spec => []IndInv
<1>1. Init => IndInv
  BY InitInd
<1>2. IndInv /\ [Next]_vars => IndInv'
  BY TypeStep, PlaceStep, CoverStep, QuitStep DEF IndInv
<1> QED
  BY <1>1, <1>2, PTL DEF Spec

(* Types: every variable of the loop keeps its type.                       *)
THEOREM TypeCorrect == Spec => []TypeOK
<1>1. IndInv => TypeOK
  BY DEF IndInv
<1> QED
  BY <1>1, Inductive, PTL

(* A functor queued by another thread or from a callback never waits       *)
(* behind a poll that nobody will wake, however many threads queue.        *)
THEOREM WakeupNeverLost == Spec => []NoLostWakeup
<1>1. IndInv => NoLostWakeup
  BY DEF IndInv, CoverInv, NoLostWakeup
<1> QED
  BY <1>1, Inductive, PTL

(* The same for quit from another thread.                                  *)
THEOREM QuitNeverLost == Spec => []QuitWakes
<1>1. IndInv => QuitWakes
  BY DEF IndInv
<1> QED
  BY <1>1, Inductive, PTL

------------------------------------------------------------------------------
(* Pushing on pending_functors_ pushes on what is left to run.             *)
LEMMA PushSubmits ==
  ASSUME TypeOK, NEW f \in Functors, pending' = Append(pending, f), funcs' = funcs
  PROVE  funcs' \o pending' = Append(funcs \o pending, f)
  BY AppendIsConcat, ConcatAssociative DEF TypeOK

(* Every step of the loop is a step of the contract or leaves it alone.    *)
LEMMA RefinementStep == IndInv /\ [Next]_vars => [Contract!Next]_(Contract!cvars)
<1> SUFFICES ASSUME IndInv, [Next]_vars
             PROVE  [Contract!Next]_(Contract!cvars)
  OBVIOUS
<1> USE DEF IndInv
<1>1. ASSUME UNCHANGED <<funcs, pending, ran>>
      PROVE  UNCHANGED Contract!cvars
  BY <1>1 DEF Contract!cvars
<1>2. ASSUME NEW f \in Functors, Enqueue(f), UNCHANGED <<funcs, ran>>
      PROVE  Contract!Next
  <2>1. Contract!Submit(f)
    BY <1>2, PushSubmits DEF Enqueue, Contract!Submit
  <2> QED
    BY <2>1 DEF Contract!Next
<1>3. CASE Swap
  <2>1. funcs = <<>> /\ pending \in Seq(Functors)
    BY <1>3 DEF Swap, FuncsInv, TypeOK
  <2>2. funcs' \o pending' = funcs \o pending
    BY <1>3, <2>1 DEF Swap
  <2> QED
    BY <1>3, <2>2 DEF Swap, Contract!cvars
<1>4. CASE RunFunctor
  <2>1. funcs # <<>> /\ funcs \in Seq(Functors) /\ pending \in Seq(Functors)
    BY <1>4 DEF RunFunctor, TypeOK
  <2>2. funcs \o pending # <<>> /\ Head(funcs \o pending) = Head(funcs)
    BY <2>1
  <2>3. Tail(funcs \o pending) = Tail(funcs) \o pending
    BY <2>1
  <2>4. Contract!Finish
    BY <1>4, <2>2, <2>3 DEF RunFunctor, Contract!Finish
  <2> QED
    BY <2>4 DEF Contract!Next
<1>5. \/ UNCHANGED <<funcs, pending, ran>>
      \/ \E f \in Functors : Enqueue(f) /\ UNCHANGED <<funcs, ran>>
      \/ Swap
      \/ RunFunctor
  BY DEF Next, LoopStep, Loop, TestQuit, PollWakeup, HandleRead, HandleDone,
         CheckPending, RunDone, PollOther, OwnStep, OwnQuit, QueueBeforeLoop,
         HandlerQueue, FunctorQueue, OwnQueue, ThreadStep, Wakeup, ThreadQuit,
         ThreadQueue, vars
<1> QED
  BY <1>1, <1>2, <1>3, <1>4, <1>5

(* The loop runs what it is given exactly once and in order: event_loop    *)
(* implements FifoContract, for any number of threads and functors.        *)
THEOREM LoopImplementsContract == Spec => ImplementsContract
<1>1. Init => Contract!Init
  BY DEF Init, Contract!Init
<1>2. IndInv /\ [Next]_vars => [Contract!Next]_(Contract!cvars)
  BY RefinementStep
<1> QED
  BY <1>1, <1>2, Inductive, PTL DEF Spec, ImplementsContract, Contract!Spec

------------------------------------------------------------------------------
(* The buffer, whose BytesKept is inductive as it stands.                  *)

(* The invariant, for a content b whose readable bytes end at w with the   *)
(* byte numbered last.                                                     *)
Kept(b, s, r, w, last) ==
    /\ s \in Nat /\ r \in Nat /\ w \in Nat /\ last \in Nat
    /\ Prepend <= r /\ r <= w /\ w <= s
    /\ DOMAIN b = 0..(s - 1)
    /\ w - r = last - retrieved
    /\ \A k \in 0..(w - r - 1) : b[r + k] = retrieved + 1 + k

(* Kept is BytesKept, with the buffer and its indices as parameters.       *)
LEMMA KeptIsInvariant ==
    ASSUME retrieved \in Nat
    PROVE  B!BytesKept <=> Kept(buf, size, read, write, appended)
  BY DEF Kept, B!BytesKept, B!IndicesInside

(* Copying the next len bytes behind w keeps what is there and adds them.  *)
LEMMA FilledKeeps ==
    ASSUME NEW b, NEW s, NEW r, NEW w, NEW last, NEW len \in Nat,
           retrieved \in Nat, B!SizesAreNumbers,
           Kept(b, s, r, w, last), w + len <= s
    PROVE  Kept(B!Filled(b, w, len, last + 1), s, r, w + len, last + len)
<1> DEFINE f == B!Filled(b, w, len, last + 1)
<1>1. /\ DOMAIN f = 0..(s - 1)
      /\ \A i \in 0..(s - 1) : f[i] = IF i \in w..(w + len - 1) THEN last + 1 + (i - w) ELSE b[i]
  BY DEF B!Filled, Kept
<1>2. \A k \in 0..(w + len - r - 1) : f[r + k] = retrieved + 1 + k
  <2> SUFFICES ASSUME NEW k \in 0..(w + len - r - 1)
               PROVE  f[r + k] = retrieved + 1 + k
    OBVIOUS
  <2> HIDE DEF f
  <2>0. r + k \in 0..(s - 1)
    BY DEF Kept, B!SizesAreNumbers
  <2>1. CASE r + k < w
    BY <1>1, <2>0, <2>1 DEF Kept
  <2>2. CASE r + k >= w
    <3>1. r + k \in w..(w + len - 1) /\ last + 1 + ((r + k) - w) = retrieved + 1 + k
      BY <2>2 DEF Kept
    <3> QED
      BY <1>1, <2>0, <3>1
  <2> QED
    BY <2>1, <2>2 DEF Kept
<1> HIDE DEF f
<1>3. Kept(f, s, r, w + len, last + len)
  BY <1>1, <1>2 DEF Kept
<1> QED
  BY <1>3 DEF f

(* append keeps the bytes whichever way it finds room.                     *)
LEMMA PutKeeps ==
    ASSUME NEW b, NEW w, NEW last, NEW len \in Nat,
           retrieved \in Nat, B!SizesAreNumbers,
           Kept(b, size, read, w, last), B!PutAt(b, w, len, last + 1)
    PROVE  Kept(buf', size', read', write', last + len)
<1>1. CASE /\ len <= size - w
           /\ buf' = B!Filled(b, w, len, last + 1)
           /\ write' = w + len
           /\ UNCHANGED <<size, read>>
  <2>1. w + len <= size
    BY <1>1 DEF Kept
  <2> QED
    BY <1>1, <2>1, FilledKeeps
<1>2. CASE /\ len > size - w
           /\ size' = w + len
           /\ buf' = B!Filled([i \in 0..(w + len - 1) |-> IF i < size THEN b[i] ELSE 0],
                            w, len, last + 1)
           /\ write' = w + len
           /\ UNCHANGED read
  <2> DEFINE g == [i \in 0..(w + len - 1) |-> IF i < size THEN b[i] ELSE 0]
  <2>1. w + len \in Nat /\ w + len >= size
    BY <1>2 DEF Kept
  <2>2. DOMAIN g = 0..(w + len - 1)
    OBVIOUS
  <2>3. \A k \in 0..(w - read - 1) : g[read + k] = b[read + k]
    BY <2>1 DEF Kept
  <2> HIDE DEF g
  <2>4. \A k \in 0..(w - read - 1) : g[read + k] = retrieved + 1 + k
    BY <2>3 DEF Kept
  <2>5. Kept(g, w + len, read, w, last)
    BY <2>1, <2>2, <2>4 DEF Kept
  <2>6. Kept(B!Filled(g, w, len, last + 1), w + len, read, w + len, last + len)
    <3>1. w + len <= w + len
      BY <2>1
    <3> QED
      BY <2>5, <3>1, FilledKeeps
  <2> QED
    BY <1>2, <2>6 DEF g
<1>3. CASE /\ B!Fits(len, w)
           /\ LET end == Prepend + (w - read)
                  moved == [i \in DOMAIN b |->
                                IF i \in Prepend..(end - 1) THEN b[read + (i - Prepend)]
                                ELSE b[i]]
              IN  buf' = B!Filled(moved, end, len, last + 1) /\ write' = end + len
           /\ read' = Prepend
           /\ UNCHANGED size
  <2> DEFINE end == Prepend + (w - read)
             moved == [i \in DOMAIN b |->
                          IF i \in Prepend..(end - 1) THEN b[read + (i - Prepend)] ELSE b[i]]
  <2>1. /\ end \in Nat /\ Prepend <= end /\ end <= size /\ end + len <= size
        /\ end - Prepend = w - read
    BY <1>3 DEF Kept, B!Fits, B!SizesAreNumbers
  <2>2. DOMAIN moved = 0..(size - 1)
    BY DEF Kept
  <2>3. \A k \in 0..(end - Prepend - 1) : moved[Prepend + k] = b[read + k]
    <3> SUFFICES ASSUME NEW k \in 0..(end - Prepend - 1)
                 PROVE  moved[Prepend + k] = b[read + k]
      OBVIOUS
    <3> HIDE DEF end
    <3>1. Prepend + k \in DOMAIN b /\ Prepend + k \in Prepend..(end - 1)
      BY <2>1 DEF Kept, B!SizesAreNumbers
    <3>2. read + ((Prepend + k) - Prepend) = read + k
      BY <2>1 DEF Kept, B!SizesAreNumbers
    <3> QED
      BY <3>1, <3>2
  <2> HIDE DEF end, moved
  <2>4. \A k \in 0..(end - Prepend - 1) : moved[Prepend + k] = retrieved + 1 + k
    BY <2>1, <2>3 DEF Kept
  <2>5. Kept(moved, size, Prepend, end, last)
    BY <2>1, <2>2, <2>4 DEF Kept, B!SizesAreNumbers
  <2>6. Kept(B!Filled(moved, end, len, last + 1), size, Prepend, end + len, last + len)
    BY <2>1, <2>5, FilledKeeps
  <2> QED
    BY <1>3, <2>6 DEF end, moved
<1> QED
  BY <1>1, <1>2, <1>3 DEF B!PutAt

(* A buffer that is made is empty ...                                      *)
LEMMA InitKeeps ==
    ASSUME B!SizesAreNumbers, B!Init
    PROVE  B!BytesKept
  BY DEF B!SizesAreNumbers, B!Init, B!BytesKept, B!IndicesInside

(* ... and every call keeps the bytes.                                     *)
LEMMA NextKeeps ==
    ASSUME B!SizesAreNumbers, B!BytesKept, [B!Next]_(B!vars)
    PROVE  B!BytesKept'
<1> USE DEF B!SizesAreNumbers
<1>0. /\ retrieved \in Nat /\ appended \in Nat
      /\ Kept(buf, size, read, write, appended)
  BY KeptIsInvariant DEF B!BytesKept, B!IndicesInside
<1>1. ASSUME NEW n \in 0..MaxBytes, B!AppendBytes(n)
      PROVE  B!BytesKept'
  <2>1. Kept(buf', size', read', write', appended + n)
    BY <1>0, <1>1, PutKeeps DEF B!AppendBytes
  <2> QED
    BY <1>0, <1>1, <2>1 DEF B!AppendBytes, Kept, B!BytesKept, B!IndicesInside
<1>2. ASSUME NEW n \in 0..MaxBytes, B!ReadFd(n)
      PROVE  B!BytesKept'
  <2> DEFINE room == size - write
  <2>0. room \in Nat /\ write + room = size
    BY <1>0 DEF Kept
  <2>1. Kept(buf', size', read', write', appended + n)
    <3>1. CASE n <= room /\ buf' = B!Filled(buf, write, n, appended + 1)
                  /\ write' = write + n /\ UNCHANGED <<size, read>>
      <4>1. write + n <= size
        BY <1>0, <3>1 DEF Kept
      <4> QED
        BY <1>0, <3>1, <4>1, FilledKeeps
    <3>2. CASE /\ n > room
               /\ B!PutAt(B!Filled(buf, write, room, appended + 1), size, n - room, appended + room + 1)
      <4> HIDE DEF room
      <4>1. write + room <= size
        BY <1>0, <2>0 DEF Kept
      <4>2. Kept(B!Filled(buf, write, room, appended + 1), size, read, write + room, appended + room)
        BY <1>0, <2>0, <4>1, FilledKeeps
      <4>3. Kept(B!Filled(buf, write, room, appended + 1), size, read, size, appended + room)
        BY <2>0, <4>2
      <4>4. n - room \in Nat /\ (appended + room) + (n - room) = appended + n
        BY <1>0, <2>0, <3>2
      <4>5. Kept(buf', size', read', write', (appended + room) + (n - room))
        BY <1>0, <3>2, <4>3, <4>4, PutKeeps
      <4> QED
        BY <4>4, <4>5
    <3> QED
      BY <1>2, <3>1, <3>2 DEF B!ReadFd
  <2> QED
    BY <1>0, <1>2, <2>1 DEF B!ReadFd, Kept, B!BytesKept, B!IndicesInside
<1>3. ASSUME NEW n \in 0..MaxBytes, B!Retrieve(n)
      PROVE  B!BytesKept'
  <2>1. CASE /\ n < B!Readable
             /\ read' = read + n /\ retrieved' = retrieved + n
             /\ UNCHANGED <<write, buf, size, appended>>
    <3>1. \A k \in 0..(write - (read + n) - 1) : buf[(read + n) + k] = (retrieved + n) + 1 + k
      <4> SUFFICES ASSUME NEW k \in 0..(write - (read + n) - 1)
                   PROVE  buf[(read + n) + k] = (retrieved + n) + 1 + k
        OBVIOUS
      <4>1. n + k \in 0..(write - read - 1) /\ (read + n) + k = read + (n + k)
        BY <1>0 DEF Kept
      <4> QED
        BY <1>0, <4>1 DEF Kept
    <3> QED
      BY <1>0, <2>1, <3>1 DEF Kept, B!BytesKept, B!IndicesInside, B!Readable
  <2>2. CASE /\ read' = Prepend /\ write' = Prepend /\ retrieved' = appended
             /\ UNCHANGED <<buf, size, appended>>
    BY <1>0, <2>2 DEF Kept, B!BytesKept, B!IndicesInside, B!SizesAreNumbers
  <2> QED
    BY <1>3, <2>1, <2>2 DEF B!Retrieve
<1>4. CASE UNCHANGED B!vars
  BY <1>4 DEF B!vars, B!BytesKept, B!IndicesInside
<1> QED
  BY <1>1, <1>2, <1>3, <1>4 DEF B!Next

(* A buffer never loses, repeats or reorders a byte, and never writes or   *)
(* reads outside its vector, whatever the sizes of buffer.h are.           *)
THEOREM BufferKeepsBytes == B!Spec => []BytesKept
<1>1. B!Init => BytesKept
  BY BufferSizes, InitKeeps DEF BytesKept
<1>2. BytesKept /\ [B!Next]_(B!vars) => BytesKept'
  BY BufferSizes, NextKeeps DEF BytesKept
<1> QED
  BY <1>1, <1>2, PTL DEF B!Spec

------------------------------------------------------------------------------
(* The client: TcpClient as MCReactor instantiates it.                     *)
FunctorSet == [op : C!FunctorOps, n : 0..MaxSocks]

Typed(r) == r \in C!Client /\ C!NamesSocket(r)

(* The inductive invariant of the record, for a round of which k functors  *)
(* are left.                                                               *)
Sound(r, k) ==
    ~r.overlap => C!PollerHas(r) /\ C!DestroysClosed(r) /\ C!ResetsRight(r, k)

SameChannels(r, d) ==
    /\ d.state = r.state /\ d.chan = r.chan /\ d.connection = r.connection /\ d.epoll = r.epoll
    /\ d.sock = r.sock /\ d.next = r.next /\ d.wrong = r.wrong /\ d.overlap = r.overlap

(* Sockets are numbered from 1, and None is no socket.                     *)
LEMMA SocketsAre ==
    /\ C!Socks \subseteq 0..MaxSocks /\ C!None \in 0..MaxSocks /\ C!None \notin C!Socks
    /\ \A n \in 0..MaxSocks : n # C!None => n \in C!Socks
  BY ClientBounds DEF C!Socks, C!None

(* The fields of the record have their types.                              *)
LEMMA ClientFields ==
    ASSUME NEW r \in C!Client
    PROVE  /\ r.want \in BOOLEAN /\ r.go \in BOOLEAN /\ r.wrong \in BOOLEAN /\ r.overlap \in BOOLEAN
           /\ r.state \in {"DISCONNECTED", "CONNECTING", "CONNECTED"}
           /\ r.chan \in 0..MaxSocks /\ r.connection \in 0..MaxSocks
           /\ r.cst \in [C!Socks -> {"none", "CONNECTED", "DISCONNECTING", "DISCONNECTED", "gone"}]
           /\ r.epoll \in [C!Socks -> {"none", "connector", "connection"}]
           /\ r.sock \in [C!Socks -> {"none", "connecting", "up", "refused", "closed"}]
           /\ r.q \in Seq(FunctorSet) /\ r.refused \in Nat
           /\ Len(r.q) \in Nat /\ \A i \in 1..Len(r.q) : r.q[i] \in FunctorSet
<1>1. r.q \in Seq(FunctorSet)
  BY DEF C!Client, FunctorSet
<1>2. Len(r.q) \in Nat /\ \A i \in 1..Len(r.q) : r.q[i] \in FunctorSet
  BY <1>1, LenProperties, ElementOfSeq
<1> QED BY <1>1, <1>2 DEF C!Client

(* The queue of functors.                                                  *)
LEMMA QueueOf ==
    ASSUME NEW r \in C!Client, NEW s \in Seq(FunctorSet)
    PROVE  LET d == [r EXCEPT !.q = s] IN
           d \in C!Client /\ SameChannels(r, d) /\ d.cst = r.cst /\ d.go = r.go /\ d.want = r.want /\ d.q = s
<1> DEFINE d == [r EXCEPT !.q = s]
<1>0. s \in Seq([op : C!FunctorOps, n : 0..MaxSocks])
  BY DEF FunctorSet
<1>1. d \in C!Client
  BY <1>0, ZenonT(40) DEF C!Client
<1>2. SameChannels(r, d) /\ d.cst = r.cst /\ d.go = r.go /\ d.want = r.want /\ d.q = s
  BY DEF C!Client, SameChannels
<1> QED BY <1>1, <1>2

(* queue_in_loop adds one functor, at the end.                             *)
LEMMA QueueIs ==
    ASSUME NEW r \in C!Client, NEW op \in C!FunctorOps, NEW n \in 0..MaxSocks
    PROVE  LET d == C!Queue(r, op, n) IN
           /\ d \in C!Client /\ SameChannels(r, d) /\ d.cst = r.cst /\ d.go = r.go /\ d.want = r.want
           /\ Len(d.q) = Len(r.q) + 1
           /\ \A i \in 1..Len(r.q) : d.q[i] = r.q[i]
           /\ d.q[Len(r.q) + 1].op = op /\ d.q[Len(r.q) + 1].n = n
<1> DEFINE f == C!Functor(op, n)
           s == Append(r.q, f)
           d == [r EXCEPT !.q = s]
<1>0. r.q \in Seq(FunctorSet) /\ Len(r.q) \in Nat
  BY ClientFields
<1>1. f \in FunctorSet /\ f.op = op /\ f.n = n
  BY DEF C!Functor, FunctorSet
<1>2. C!Queue(r, op, n) = d
  BY DEF C!Queue
<1> HIDE DEF f
<1>3. /\ s \in Seq(FunctorSet) /\ Len(s) = Len(r.q) + 1
      /\ \A i \in 1..Len(r.q) : s[i] = r.q[i]
      /\ s[Len(r.q) + 1] = f
  BY <1>0, <1>1, AppendProperties
<1> HIDE DEF s
<1>4. d \in C!Client /\ SameChannels(r, d) /\ d.cst = r.cst /\ d.go = r.go /\ d.want = r.want /\ d.q = s
  BY <1>3, QueueOf
<1> HIDE DEF d
<1> QED BY <1>1, <1>2, <1>3, <1>4

(* What the user's calls do to the client: its channels are as they were,  *)
(* a connection may be DISCONNECTING, and the queue has grown.             *)
Acts(r, d) ==
    /\ Typed(d) /\ SameChannels(r, d)
    /\ \A m \in C!Socks : \/ d.cst[m] = r.cst[m]
                          \/ r.cst[m] \in {"CONNECTED", "DISCONNECTING"} /\ d.cst[m] = "DISCONNECTING"
    /\ Len(r.q) <= Len(d.q)
    /\ \A i \in 1..Len(r.q) : d.q[i] = r.q[i]
    /\ \A i \in 1..Len(d.q) : i \in 1..Len(r.q) \/ d.q[i].op \notin {"reset", "destroyed"}

(* A step that keeps channels, connections and queue.                      *)
LEMMA ActsNothing ==
    ASSUME NEW r, Typed(r), NEW d, Typed(d), SameChannels(r, d), d.cst = r.cst, d.q = r.q
    PROVE  Acts(r, d)
<1>1. Len(r.q) \in Nat
  BY ClientFields DEF Typed
<1> QED BY <1>1 DEF Acts

(* Two such steps are one.                                                 *)
LEMMA ActsInTurn ==
    ASSUME NEW r, Typed(r), NEW d, Acts(r, d), NEW e, Acts(d, e)
    PROVE  Acts(r, e)
<1>1. Len(r.q) \in Nat /\ Len(d.q) \in Nat /\ Len(e.q) \in Nat
  BY ClientFields DEF Typed, Acts
<1>2. Len(r.q) <= Len(e.q) /\ \A i \in 1..Len(r.q) : i \in 1..Len(d.q)
  BY <1>1 DEF Acts
<1>3. Typed(e) /\ SameChannels(r, e)
  BY DEF Acts, SameChannels
<1>4. \A m \in C!Socks : \/ e.cst[m] = r.cst[m]
                         \/ r.cst[m] \in {"CONNECTED", "DISCONNECTING"} /\ e.cst[m] = "DISCONNECTING"
  BY DEF Acts
<1>5. \A i \in 1..Len(r.q) : e.q[i] = r.q[i]
  BY <1>2 DEF Acts
<1>6. \A i \in 1..Len(e.q) : i \in 1..Len(r.q) \/ e.q[i].op \notin {"reset", "destroyed"}
  BY <1>2 DEF Acts
<1> QED BY <1>2, <1>3, <1>4, <1>5, <1>6 DEF Acts

(* Queueing anything but a reset or a destroy.                             *)
LEMMA QueueActs ==
    ASSUME NEW r, Typed(r), NEW op \in C!FunctorOps \ {"reset", "destroyed"}, NEW n \in 0..MaxSocks,
           op \in {"shutdown", "force_close"} => n \in C!Socks
    PROVE  Acts(r, C!Queue(r, op, n))
<1> DEFINE d == C!Queue(r, op, n)
<1>0. r \in C!Client /\ Len(r.q) \in Nat
  BY ClientFields DEF Typed
<1>1. /\ d \in C!Client /\ SameChannels(r, d) /\ d.cst = r.cst
      /\ Len(d.q) = Len(r.q) + 1
      /\ \A i \in 1..Len(r.q) : d.q[i] = r.q[i]
      /\ d.q[Len(r.q) + 1].op = op /\ d.q[Len(r.q) + 1].n = n
  BY <1>0, QueueIs
<1> HIDE DEF d
<1>2. \A i \in 1..Len(d.q) : i \in 1..Len(r.q) \/ i = Len(r.q) + 1
  BY <1>0, <1>1
<1>3. Len(r.q) <= Len(d.q)
  BY <1>0, <1>1
<1>4. C!NamesSocket(d)
  BY <1>1, <1>2 DEF C!NamesSocket, Typed
<1>5. \A i \in 1..Len(d.q) : i \in 1..Len(r.q) \/ d.q[i].op \notin {"reset", "destroyed"}
  BY <1>1, <1>2
<1>6. Acts(r, d)
  BY <1>1, <1>3, <1>4, <1>5 DEF Acts, Typed
<1> QED BY <1>6 DEF d

(* The poller still has what it should, and only the closed is destroyed.  *)
LEMMA ActsKeeps ==
    ASSUME NEW r, Typed(r), NEW d, Acts(r, d), C!PollerHas(r), C!DestroysClosed(r)
    PROVE  C!PollerHas(d) /\ C!DestroysClosed(d)
<1>0. r \in C!Client /\ SameChannels(r, d)
  BY DEF Typed, Acts
<1>1. Len(r.q) \in Nat
  BY <1>0, ClientFields
<1>2. C!DestroysClosed(d)
  <2> SUFFICES ASSUME NEW i \in 1..Len(d.q), d.q[i].op = "destroyed"
               PROVE  d.cst[d.q[i].n] \in {"DISCONNECTED", "gone"}
    BY DEF C!DestroysClosed
  <2>1. i \in 1..Len(r.q) /\ d.q[i] = r.q[i]
    BY <1>1 DEF Acts
  <2>2. d.q[i].n \in C!Socks
    BY DEF Acts, Typed, C!NamesSocket
  <2>3. r.cst[d.q[i].n] \in {"DISCONNECTED", "gone"}
    BY <2>1 DEF C!DestroysClosed
  <2> QED BY <2>2, <2>3 DEF Acts
<1>3. C!PollerHas(d)
  <2>1. \A n \in C!Socks : /\ d.cst[n] \in {"CONNECTED", "DISCONNECTING"} <=> r.cst[n] \in {"CONNECTED", "DISCONNECTING"}
                           /\ r.cst[n] = "none" => d.cst[n] = "none"
    BY DEF Acts
  <2> QED BY <1>0, <2>1 DEF C!PollerHas, SameChannels
<1> QED BY <1>2, <1>3

(* The resets that are queued are the same.                                *)
LEMMA ActsResets ==
    ASSUME NEW r, Typed(r), NEW d, Acts(r, d)
    PROVE  /\ \A k : C!ResetsRight(r, k) => C!ResetsRight(d, k)
           /\ C!SecondReset(r) => C!SecondReset(d)
<1>0. r \in C!Client /\ d \in C!Client /\ SameChannels(r, d)
  BY DEF Typed, Acts
<1>1. Len(r.q) \in Nat /\ Len(d.q) \in Nat /\ \A i \in 1..Len(r.q) : i \in 1..Len(d.q) /\ d.q[i] = r.q[i]
  BY <1>0, ClientFields DEF Acts
<1>2. \A i \in 1..Len(d.q) : C!Resets(d, i) => i \in 1..Len(r.q) /\ C!Resets(r, i)
  BY <1>1 DEF Acts, C!Resets
<1>3. \A i \in 1..Len(r.q) : C!Resets(r, i) => i \in 1..Len(d.q) /\ C!Resets(d, i)
  BY <1>1 DEF C!Resets
<1>4. \A k : C!ResetsRight(r, k) => C!ResetsRight(d, k)
  BY <1>0, <1>2, <1>3 DEF C!ResetsRight, SameChannels
<1>5. C!SecondReset(r) => C!SecondReset(d)
  <2> SUFFICES ASSUME C!SecondReset(r) PROVE C!SecondReset(d)
    OBVIOUS
  <2>1. 1 \in 1..Len(r.q) /\ Len(d.q) > 0
    BY <1>1 DEF C!SecondReset, Acts
  <2> QED BY <1>0, <1>2, <1>3, <2>1 DEF C!SecondReset, SameChannels
<1> QED BY <1>4, <1>5

(* Together: the invariant of the record is kept.                          *)
LEMMA ActsSound ==
    ASSUME NEW r, Typed(r), NEW d, Acts(r, d), NEW k, Sound(r, k)
    PROVE  Sound(d, k)
<1> SUFFICES ASSUME ~d.overlap PROVE C!PollerHas(d) /\ C!DestroysClosed(d) /\ C!ResetsRight(d, k)
  BY DEF Sound
<1>1. C!PollerHas(r) /\ C!DestroysClosed(r) /\ C!ResetsRight(r, k)
  BY DEF Sound, SameChannels, Acts
<1> QED BY <1>1, ActsKeeps, ActsResets

(* The flags of client and connector, and what only gaveUp notes.          *)
LEMMA FlagsAct ==
    ASSUME NEW r, Typed(r), NEW w \in BOOLEAN, NEW g \in BOOLEAN, NEW u \in BOOLEAN
    PROVE  LET d == [r EXCEPT !.want = w, !.go = g, !.gaveUp = u] IN Acts(r, d)
<1> DEFINE d == [r EXCEPT !.want = w, !.go = g, !.gaveUp = u]
<1>1. d \in C!Client
  BY ZenonT(40) DEF C!Client, Typed
<1>2. SameChannels(r, d) /\ d.cst = r.cst /\ d.q = r.q
  BY DEF C!Client, Typed, SameChannels
<1> HIDE DEF d
<1>3. Typed(d)
  BY <1>1, <1>2 DEF Typed, C!NamesSocket
<1>4. Acts(r, d)
  BY <1>2, <1>3, ActsNothing
<1> QED BY <1>4 DEF d

(* Setting one flag is setting all three, the others to what they were.    *)
LEMMA FlagsAre ==
    ASSUME NEW r \in C!Client
    PROVE  /\ \A w \in BOOLEAN : [r EXCEPT !.want = w] = [r EXCEPT !.want = w, !.go = r.go, !.gaveUp = r.gaveUp]
           /\ \A g \in BOOLEAN : [r EXCEPT !.go = g] = [r EXCEPT !.want = r.want, !.go = g, !.gaveUp = r.gaveUp]
           /\ \A u \in BOOLEAN : [r EXCEPT !.gaveUp = u] = [r EXCEPT !.want = r.want, !.go = r.go, !.gaveUp = u]
           /\ [r EXCEPT !.want = FALSE, !.go = FALSE] = [r EXCEPT !.want = FALSE, !.go = FALSE, !.gaveUp = r.gaveUp]
           /\ r.want \in BOOLEAN /\ r.go \in BOOLEAN /\ r.gaveUp \in BOOLEAN
<1>1. r.want \in BOOLEAN /\ r.go \in BOOLEAN /\ r.gaveUp \in BOOLEAN
  BY DEF C!Client
<1>2. \A w \in BOOLEAN : [r EXCEPT !.want = w] = [r EXCEPT !.want = w, !.go = r.go, !.gaveUp = r.gaveUp]
  BY DEF C!Client
<1>3. \A g \in BOOLEAN : [r EXCEPT !.go = g] = [r EXCEPT !.want = r.want, !.go = g, !.gaveUp = r.gaveUp]
  BY DEF C!Client
<1>4. \A u \in BOOLEAN : [r EXCEPT !.gaveUp = u] = [r EXCEPT !.want = r.want, !.go = r.go, !.gaveUp = u]
  BY DEF C!Client
<1>5. [r EXCEPT !.want = FALSE, !.go = FALSE] = [r EXCEPT !.want = FALSE, !.go = FALSE, !.gaveUp = r.gaveUp]
  BY DEF C!Client
<1> QED BY <1>1, <1>2, <1>3, <1>4, <1>5

(* A connection that is open becomes DISCONNECTING.                        *)
LEMMA Disconnecting ==
    ASSUME NEW r, Typed(r), NEW n \in C!Socks, r.cst[n] \in {"CONNECTED", "DISCONNECTING"}
    PROVE  Acts(r, [r EXCEPT !.cst[n] = "DISCONNECTING"])
<1> DEFINE x == [r.cst EXCEPT ![n] = "DISCONNECTING"]
           d == [r EXCEPT !.cst = x]
<1>0. r \in C!Client /\ r.cst \in [C!Socks -> {"none", "CONNECTED", "DISCONNECTING", "DISCONNECTED", "gone"}]
      /\ Len(r.q) \in Nat
  BY ClientFields DEF Typed
<1>1. /\ x \in [C!Socks -> {"none", "CONNECTED", "DISCONNECTING", "DISCONNECTED", "gone"}]
      /\ \A m \in C!Socks : x[m] = IF m = n THEN "DISCONNECTING" ELSE r.cst[m]
  BY <1>0
<1>2. [r EXCEPT !.cst[n] = "DISCONNECTING"] = d
  OBVIOUS
<1> HIDE DEF x
<1>3. d \in C!Client
  BY <1>0, <1>1, ZenonT(40) DEF C!Client
<1>4. SameChannels(r, d) /\ d.cst = x /\ d.q = r.q
  BY <1>0 DEF C!Client, SameChannels
<1> HIDE DEF d
<1>5. Typed(d)
  BY <1>3, <1>4 DEF Typed, C!NamesSocket
<1>6. Acts(r, d)
  BY <1>0, <1>1, <1>4, <1>5 DEF Acts
<1> QED BY <1>2, <1>6, Zenon

(* tcp_connection::shutdown.                                               *)
LEMMA ShutdownActs ==
    ASSUME NEW r, Typed(r), NEW n \in 0..MaxSocks
    PROVE  Acts(r, C!Shutdown(r, n))
<1>1. CASE ~(n # C!None /\ r.cst[n] = "CONNECTED")
  <2>1. C!Shutdown(r, n) = r
    BY <1>1 DEF C!Shutdown
  <2> QED BY <2>1, ActsNothing DEF SameChannels
<1>2. CASE n # C!None /\ r.cst[n] = "CONNECTED"
  <2> DEFINE b == [r EXCEPT !.cst[n] = "DISCONNECTING"]
  <2>0. n \in C!Socks
    BY <1>2, SocketsAre
  <2>1. C!Shutdown(r, n) = C!Queue(b, "shutdown", n)
    BY <1>2 DEF C!Shutdown
  <2>2. Acts(r, b)
    BY <1>2, <2>0, Disconnecting
  <2> HIDE DEF b
  <2>3. Typed(b) /\ "shutdown" \in C!FunctorOps \ {"reset", "destroyed"}
    BY <2>2 DEF Acts, C!FunctorOps
  <2>4. Acts(b, C!Queue(b, "shutdown", n))
    BY <2>0, <2>3, QueueActs
  <2> QED BY <2>1, <2>2, <2>4, ActsInTurn
<1> QED BY <1>1, <1>2

(* tcp_connection::force_close.                                            *)
LEMMA ForceCloseActs ==
    ASSUME NEW r, Typed(r), NEW n \in C!Socks
    PROVE  Acts(r, C!ForceClose(r, n))
<1>1. CASE r.cst[n] \notin {"CONNECTED", "DISCONNECTING"}
  <2>1. C!ForceClose(r, n) = r
    BY <1>1 DEF C!ForceClose
  <2> QED BY <2>1, ActsNothing DEF SameChannels
<1>2. CASE r.cst[n] \in {"CONNECTED", "DISCONNECTING"}
  <2> DEFINE b == [r EXCEPT !.cst[n] = "DISCONNECTING"]
  <2>0. n \in 0..MaxSocks
    BY SocketsAre
  <2>1. C!ForceClose(r, n) = C!Queue(b, "force_close", n)
    BY <1>2 DEF C!ForceClose
  <2>2. Acts(r, b)
    BY <1>2, Disconnecting
  <2> HIDE DEF b
  <2>3. Typed(b) /\ "force_close" \in C!FunctorOps \ {"reset", "destroyed"}
    BY <2>2 DEF Acts, C!FunctorOps
  <2>4. Acts(b, C!Queue(b, "force_close", n))
    BY <2>0, <2>3, QueueActs
  <2> QED BY <2>1, <2>2, <2>4, ActsInTurn
<1> QED BY <1>1, <1>2

(* Whatever the connection callback of the user does.                      *)
LEMMA UserCbActs ==
    ASSUME NEW r, Typed(r), NEW n \in C!Socks, NEW d \in C!UserCb(r, n)
    PROVE  Acts(r, d)
<1>0. r \in C!Client
  BY DEF Typed
<1>1. d = r \/ d = C!ForceClose(r, n) \/ d = C!Disconnect(r) \/ d = C!Stop(r)
  BY DEF C!UserCb
<1>2. Acts(r, r)
  BY ActsNothing DEF SameChannels
<1>3. Acts(r, C!Disconnect(r))
  <2> DEFINE b == [r EXCEPT !.want = FALSE]
  <2>1. C!Disconnect(r) = C!Shutdown(b, r.connection)
    BY DEF C!Disconnect
  <2>2. Acts(r, b)
    <3>1. b = [r EXCEPT !.want = FALSE, !.go = r.go, !.gaveUp = r.gaveUp]
      BY <1>0, FlagsAre, ZenonT(40)
    <3>2. r.go \in BOOLEAN /\ r.gaveUp \in BOOLEAN /\ FALSE \in BOOLEAN
      BY <1>0, FlagsAre
    <3> HIDE DEF b
    <3> QED BY <3>1, <3>2, FlagsAct, ZenonT(40)
  <2> HIDE DEF b
  <2>3. Typed(b) /\ r.connection \in 0..MaxSocks
    BY <1>0, <2>2, ClientFields DEF Acts
  <2>4. Acts(b, C!Shutdown(b, r.connection))
    BY <2>3, ShutdownActs
  <2> QED BY <2>1, <2>2, <2>4, ActsInTurn
<1>4. Acts(r, C!Stop(r))
  <2> DEFINE b == [r EXCEPT !.want = FALSE, !.go = FALSE]
  <2>1. C!Stop(r) = C!Queue(b, "stop", C!None)
    BY DEF C!Stop
  <2>2. Acts(r, b)
    <3>1. b = [r EXCEPT !.want = FALSE, !.go = FALSE, !.gaveUp = r.gaveUp]
      BY <1>0, FlagsAre, ZenonT(40)
    <3>2. r.gaveUp \in BOOLEAN /\ FALSE \in BOOLEAN
      BY <1>0, FlagsAre
    <3> HIDE DEF b
    <3> QED BY <3>1, <3>2, FlagsAct, ZenonT(40)
  <2> HIDE DEF b
  <2>3. Typed(b) /\ "stop" \in C!FunctorOps \ {"reset", "destroyed"} /\ C!None \in 0..MaxSocks
    BY <2>2, SocketsAre DEF Acts, C!FunctorOps
  <2>4. Acts(b, C!Queue(b, "stop", C!None))
    BY <2>3, QueueActs
  <2> QED BY <2>1, <2>2, <2>4, ActsInTurn
<1> QED BY <1>1, <1>2, <1>3, <1>4, ForceCloseActs

------------------------------------------------------------------------------
(* remove_and_reset_channel.                                               *)
Took(r, d) ==
    /\ Typed(d) /\ d.state = r.state /\ d.chan = r.chan /\ d.connection = r.connection /\ d.cst = r.cst
    /\ d.sock = r.sock /\ d.next = r.next /\ d.wrong = r.wrong /\ d.overlap = r.overlap /\ d.go = r.go
    /\ \A m \in C!Socks : d.epoll[m] = IF m = r.chan THEN "none" ELSE r.epoll[m]
    /\ Len(d.q) = Len(r.q) + 1
    /\ \A i \in 1..Len(r.q) : d.q[i] = r.q[i]
    /\ d.q[Len(r.q) + 1].op = "reset"

(* The registration of one channel changes.                                *)
LEMMA EpollIs ==
    ASSUME NEW r \in C!Client, NEW n \in C!Socks, NEW v \in {"none", "connector", "connection"}
    PROVE  LET d == [r EXCEPT !.epoll[n] = v] IN
           /\ d \in C!Client /\ d.state = r.state /\ d.chan = r.chan /\ d.connection = r.connection /\ d.cst = r.cst
           /\ d.sock = r.sock /\ d.next = r.next /\ d.wrong = r.wrong /\ d.overlap = r.overlap /\ d.go = r.go
           /\ d.want = r.want /\ d.q = r.q
           /\ \A m \in C!Socks : d.epoll[m] = IF m = n THEN v ELSE r.epoll[m]
<1> DEFINE x == [r.epoll EXCEPT ![n] = v]
           d == [r EXCEPT !.epoll = x]
<1>0. r.epoll \in [C!Socks -> {"none", "connector", "connection"}]
  BY ClientFields
<1>1. x \in [C!Socks -> {"none", "connector", "connection"}] /\ \A m \in C!Socks : x[m] = IF m = n THEN v ELSE r.epoll[m]
  BY <1>0
<1>2. [r EXCEPT !.epoll[n] = v] = d
  OBVIOUS
<1> HIDE DEF x
<1>3. d \in C!Client
  BY <1>1, ZenonT(40) DEF C!Client
<1>4. /\ d.state = r.state /\ d.chan = r.chan /\ d.connection = r.connection /\ d.cst = r.cst
      /\ d.sock = r.sock /\ d.next = r.next /\ d.wrong = r.wrong /\ d.overlap = r.overlap /\ d.go = r.go
      /\ d.want = r.want /\ d.q = r.q /\ d.epoll = x
  BY DEF C!Client
<1> HIDE DEF d
<1> QED BY <1>1, <1>2, <1>3, <1>4

(* It takes channel_ out of the poller and queues one reset.               *)
LEMMA RemoveAndResetIs ==
    ASSUME NEW r, Typed(r)
    PROVE  LET d == C!RemoveAndResetChannel(r) IN
           /\ Typed(d) /\ d.overlap = r.overlap /\ d.state = r.state /\ d.go = r.go /\ d.chan = r.chan
           /\ Len(r.q) <= Len(d.q)
           /\ r.chan = C!None => d.wrong
           /\ r.chan # C!None => Took(r, d)
<1>0. r \in C!Client /\ Len(r.q) \in Nat /\ r.chan \in 0..MaxSocks
  BY ClientFields DEF Typed
<1>1. CASE r.chan = C!None
  <2> DEFINE d == [r EXCEPT !.wrong = TRUE]
  <2>1. C!RemoveAndResetChannel(r) = d
    BY <1>1 DEF C!RemoveAndResetChannel
  <2>2. d \in C!Client
    BY <1>0, ZenonT(40) DEF C!Client
  <2>3. d.overlap = r.overlap /\ d.state = r.state /\ d.go = r.go /\ d.chan = r.chan /\ d.q = r.q /\ d.wrong
    BY <1>0 DEF C!Client
  <2> HIDE DEF d
  <2>4. Typed(d) /\ Len(r.q) <= Len(d.q)
    BY <1>0, <2>2, <2>3 DEF Typed, C!NamesSocket
  <2> QED BY <1>1, <2>1, <2>3, <2>4
<1>2. CASE r.chan # C!None
  <2> DEFINE n == r.chan
             b == [r EXCEPT !.epoll[n] = "none"]
             d == C!Queue(b, "reset", C!None)
  <2>1. C!RemoveAndResetChannel(r) = d
    BY <1>2 DEF C!RemoveAndResetChannel
  <2>2. n \in C!Socks
    BY <1>0, <1>2, SocketsAre
  <2>3. n = r.chan
    OBVIOUS
  <2> HIDE DEF n
  <2>4. /\ b \in C!Client /\ b.state = r.state /\ b.chan = r.chan /\ b.connection = r.connection /\ b.cst = r.cst
        /\ b.sock = r.sock /\ b.next = r.next /\ b.wrong = r.wrong /\ b.overlap = r.overlap /\ b.go = r.go
        /\ b.q = r.q
        /\ \A m \in C!Socks : b.epoll[m] = IF m = n THEN "none" ELSE r.epoll[m]
    BY <1>0, <2>2, EpollIs
  <2> HIDE DEF b
  <2>5. /\ d \in C!Client /\ SameChannels(b, d) /\ d.cst = b.cst /\ d.go = b.go
        /\ Len(d.q) = Len(b.q) + 1
        /\ \A i \in 1..Len(b.q) : d.q[i] = b.q[i]
        /\ d.q[Len(b.q) + 1].op = "reset" /\ d.q[Len(b.q) + 1].n = C!None
    <3>1. "reset" \in C!FunctorOps /\ C!None \in 0..MaxSocks
      BY SocketsAre DEF C!FunctorOps
    <3> QED BY <2>4, <3>1, QueueIs
  <2> HIDE DEF d
  <2>6. \A i \in 1..Len(d.q) : i \in 1..Len(r.q) \/ i = Len(r.q) + 1
    BY <1>0, <2>4, <2>5
  <2>7. C!NamesSocket(d)
    BY <2>4, <2>5, <2>6 DEF C!NamesSocket, Typed
  <2>8. Took(r, d)
    BY <2>3, <2>4, <2>5, <2>7 DEF Took, Typed, SameChannels
  <2>9. Len(r.q) <= Len(d.q)
    BY <1>0, <2>8 DEF Took
  <2> QED BY <1>2, <2>1, <2>8, <2>9 DEF Took
<1> QED BY <1>1, <1>2

(* What a step leaves of the record r: its types, the invariant for k, and *)
(* a queue that is no shorter.                                             *)
Leads(r, k, d) == Typed(d) /\ Sound(d, k) /\ Len(r.q) <= Len(d.q)

(* state_ of the connector changes.                                        *)
LEMMA StateIs ==
    ASSUME NEW r, Typed(r), NEW s \in {"DISCONNECTED", "CONNECTING", "CONNECTED"}
    PROVE  LET d == [r EXCEPT !.state = s] IN
           /\ Typed(d) /\ d.state = s /\ d.chan = r.chan /\ d.connection = r.connection /\ d.cst = r.cst
           /\ d.epoll = r.epoll /\ d.sock = r.sock /\ d.next = r.next /\ d.wrong = r.wrong
           /\ d.overlap = r.overlap /\ d.go = r.go /\ d.q = r.q
<1> DEFINE d == [r EXCEPT !.state = s]
<1>0. r \in C!Client
  BY DEF Typed
<1>1. d \in C!Client
  BY <1>0, ZenonT(40) DEF C!Client
<1>2. /\ d.state = s /\ d.chan = r.chan /\ d.connection = r.connection /\ d.cst = r.cst
      /\ d.epoll = r.epoll /\ d.sock = r.sock /\ d.next = r.next /\ d.wrong = r.wrong
      /\ d.overlap = r.overlap /\ d.go = r.go /\ d.q = r.q
  BY <1>0 DEF C!Client
<1> HIDE DEF d
<1>3. Typed(d)
  BY <1>1, <1>2 DEF Typed, C!NamesSocket
<1>4. /\ Typed(d) /\ d.state = s /\ d.chan = r.chan /\ d.connection = r.connection /\ d.cst = r.cst
      /\ d.epoll = r.epoll /\ d.sock = r.sock /\ d.next = r.next /\ d.wrong = r.wrong
      /\ d.overlap = r.overlap /\ d.go = r.go /\ d.q = r.q
  BY <1>2, <1>3
<1> QED BY <1>4 DEF d

(* The end of a connect: the connector's channel is out of the poller,     *)
(* with h resets queued, and the state is not CONNECTING.                  *)
Left(r, d, h) ==
    /\ Typed(d) /\ d.state # "CONNECTING" /\ d.chan = r.chan /\ d.connection = r.connection
    /\ d.cst = r.cst /\ d.sock = r.sock /\ d.next = r.next /\ d.wrong = r.wrong
    /\ d.overlap = r.overlap /\ d.go = r.go
    /\ \A m \in C!Socks : d.epoll[m] = IF m = r.chan THEN "none" ELSE r.epoll[m]
    /\ Len(d.q) = Len(r.q) + h
    /\ \A i \in 1..Len(r.q) : d.q[i] = r.q[i]
    /\ \A i \in 1..Len(d.q) : i \in 1..Len(r.q) \/ d.q[i].op = "reset"

(* A connect that has ended so leaves the invariant, with a reset or two.  *)
LEMMA LeftSound ==
    ASSUME NEW r, Typed(r), NEW h \in {1, 2}, NEW d, Left(r, d, h), NEW k,
           r.state = "CONNECTING", C!PollerHas(r), C!DestroysClosed(r), C!ResetsRight(r, k)
    PROVE  /\ C!PollerHas(d) /\ C!DestroysClosed(d)
           /\ C!ResetsRight(d, Len(d.q)) /\ (h = 1 => C!ResetsRight(d, k))
           /\ d.chan \in C!Socks /\ d.connection = C!None /\ d.cst[d.chan] = "none" /\ d.sock[d.chan] # "none"
<1>0. r \in C!Client /\ d \in C!Client /\ Len(r.q) \in Nat /\ Len(d.q) \in Nat
  BY ClientFields DEF Typed, Left
<1>1. /\ r.chan \in C!Socks /\ r.epoll[r.chan] = "connector" /\ r.connection = C!None
      /\ r.cst[r.chan] = "none" /\ r.sock[r.chan] # "none"
  <2>1. r.chan \in C!Socks /\ r.epoll[r.chan] = "connector" /\ r.connection = C!None
    BY <1>0, ClientFields, SocketsAre DEF C!PollerHas
  <2> QED BY <2>1 DEF C!PollerHas
<1>2. d.chan \in C!Socks /\ d.connection = C!None /\ d.cst[d.chan] = "none" /\ d.sock[d.chan] # "none"
      /\ d.epoll[d.chan] = "none"
  BY <1>1 DEF Left
<1>3. C!PollerHas(d)
  <2>1. \A n \in C!Socks : d.epoll[n] # "connector" /\ d.epoll[n] # "connection"
    BY <1>1, SocketsAre DEF C!PollerHas, Left
  <2>2. \A n \in C!Socks : d.cst[n] \notin {"CONNECTED", "DISCONNECTING"}
    BY <1>1, SocketsAre DEF C!PollerHas, Left
  <2>3. \A n \in C!Socks : d.sock[n] = "none" => d.cst[n] = "none" /\ d.epoll[n] = "none"
    BY <1>1 DEF C!PollerHas, Left
  <2>4. ~d.wrong /\ d.state # "CONNECTING"
    BY DEF C!PollerHas, Left
  <2> QED BY <2>1, <2>2, <2>3, <2>4 DEF C!PollerHas
<1>4. C!DestroysClosed(d)
  BY DEF C!DestroysClosed, Left
<1>5. ASSUME NEW kk, h = 1 \/ kk = Len(d.q) PROVE C!ResetsRight(d, kk)
  <2>1. \A i \in 1..Len(r.q) : ~C!Resets(r, i)
    BY <1>1 DEF C!ResetsRight
  <2>2. \A i \in 1..Len(d.q) : C!Resets(d, i) <=> i > Len(r.q)
    BY <1>0, <2>1 DEF C!Resets, Left
  <2>3. Len(d.q) = Len(r.q) + h
    BY DEF Left
  <2>4. \E i \in 1..Len(d.q) : C!Resets(d, i)
    <3>1. Len(d.q) \in 1..Len(d.q) /\ Len(d.q) > Len(r.q)
      BY <1>0, <2>3
    <3> QED BY <2>2, <3>1
  <2>5. \A i, j \in 1..Len(d.q) : C!Resets(d, i) /\ C!Resets(d, j) /\ i < j => j = i + 1 /\ j <= kk
    BY <1>0, <1>5, <2>2, <2>3
  <2>6. d.chan # C!None /\ d.epoll[d.chan] # "connector"
    BY <1>2, SocketsAre
  <2> QED BY <2>4, <2>5, <2>6 DEF C!ResetsRight
<1> QED BY <1>2, <1>3, <1>4, <1>5

(* connector::stop_inloop.                                                 *)
LEMMA StopInloopLeads ==
    ASSUME NEW r, Typed(r), NEW k, Sound(r, k)
    PROVE  Leads(r, k, C!StopInloop(r))
<1>0. r \in C!Client /\ Len(r.q) \in Nat
  BY ClientFields DEF Typed
<1>1. CASE r.state # "CONNECTING"
  <2>1. C!StopInloop(r) = r
    BY <1>1 DEF C!StopInloop
  <2> QED BY <1>0, <2>1 DEF Leads
<1>2. CASE r.state = "CONNECTING"
  <2> DEFINE b == [r EXCEPT !.state = "DISCONNECTED"]
             d == C!RemoveAndResetChannel(b)
  <2>1. C!StopInloop(r) = d
    BY <1>2 DEF C!StopInloop
  <2>2. /\ Typed(b) /\ b.state = "DISCONNECTED" /\ b.chan = r.chan /\ b.connection = r.connection /\ b.cst = r.cst
        /\ b.epoll = r.epoll /\ b.sock = r.sock /\ b.next = r.next /\ b.wrong = r.wrong
        /\ b.overlap = r.overlap /\ b.go = r.go /\ b.q = r.q
    BY StateIs
  <2> HIDE DEF b
  <2>3. /\ Typed(d) /\ d.overlap = b.overlap
        /\ Len(b.q) <= Len(d.q)
        /\ b.chan # C!None => Took(b, d)
    BY <2>2, RemoveAndResetIs
  <2> HIDE DEF d
  <2>4. ASSUME ~d.overlap PROVE C!PollerHas(d) /\ C!DestroysClosed(d) /\ C!ResetsRight(d, k)
    <3>1. ~r.overlap /\ C!PollerHas(r) /\ C!DestroysClosed(r) /\ C!ResetsRight(r, k)
      BY <2>2, <2>3, <2>4 DEF Sound
    <3>2. b.chan # C!None
      BY <1>2, <2>2, <3>1 DEF C!PollerHas
    <3>3. Took(b, d)
      BY <2>3, <3>2
    <3>4. \A i \in 1..Len(d.q) : i \in 1..Len(r.q) \/ d.q[i].op = "reset"
      BY <1>0, <2>2, <3>3 DEF Took
    <3>5. Left(r, d, 1)
      BY <2>2, <3>3, <3>4 DEF Took, Left
    <3> QED BY <1>2, <3>1, <3>5, LeftSound
  <2> QED BY <2>1, <2>2, <2>3, <2>4 DEF Leads, Sound
<1> QED BY <1>1, <1>2

(* Two resets are allowed wherever they are in the coming round.           *)
LEMMA MoreResets ==
    ASSUME NEW r, Typed(r), NEW b, Typed(b), Len(r.q) <= Len(b.q), NEW d, Leads(b, Len(b.q), d)
    PROVE  Leads(r, Len(d.q), d)
<1>1. Typed(d) /\ Len(b.q) <= Len(d.q) /\ Sound(d, Len(b.q))
  BY DEF Leads
<1>2. Len(r.q) \in Nat /\ Len(b.q) \in Nat /\ Len(d.q) \in Nat
  BY <1>1, ClientFields DEF Typed
<1>3. \A j \in 1..Len(d.q) : j <= Len(b.q) => j <= Len(d.q)
  BY <1>2
<1>4. C!ResetsRight(d, Len(b.q)) => C!ResetsRight(d, Len(d.q))
  BY <1>3 DEF C!ResetsRight
<1>5. Sound(d, Len(d.q))
  BY <1>1, <1>4 DEF Sound
<1>6. Len(r.q) <= Len(d.q)
  BY <1>1, <1>2
<1> QED BY <1>1, <1>5, <1>6 DEF Leads

------------------------------------------------------------------------------
(* handle_write and new_connection.                                        *)
LEMMA NewConnectionLeads ==
    ASSUME NEW r, Typed(r), NEW n \in C!Socks, NEW k, n = r.chan,
           ~r.overlap => /\ C!PollerHas(r) /\ C!DestroysClosed(r) /\ C!ResetsRight(r, k)
                         /\ r.state # "CONNECTING" /\ r.connection = C!None
                         /\ r.cst[n] = "none" /\ r.sock[n] # "none",
           NEW d \in C!NewConnection(r, n)
    PROVE  Leads(r, k, d)
<1> DEFINE w == r.wrong \/ (r.connection # C!None /\ r.epoll[r.connection] = "connection")
           x == [r.cst EXCEPT ![n] = "CONNECTED"]
           y == [r.epoll EXCEPT ![n] = "connection"]
           b == [r EXCEPT !.wrong = w, !.connection = n, !.cst = x, !.epoll = y]
<1>0. /\ r \in C!Client /\ r.wrong \in BOOLEAN /\ n \in 0..MaxSocks /\ Len(r.q) \in Nat
      /\ r.cst \in [C!Socks -> {"none", "CONNECTED", "DISCONNECTING", "DISCONNECTED", "gone"}]
      /\ r.epoll \in [C!Socks -> {"none", "connector", "connection"}]
  BY ClientFields, SocketsAre DEF Typed
<1>1. d \in C!UserCb(b, n)
  BY DEF C!NewConnection
<1>2. /\ x \in [C!Socks -> {"none", "CONNECTED", "DISCONNECTING", "DISCONNECTED", "gone"}]
      /\ \A m \in C!Socks : x[m] = IF m = n THEN "CONNECTED" ELSE r.cst[m]
  BY <1>0
<1>3. /\ y \in [C!Socks -> {"none", "connector", "connection"}]
      /\ \A m \in C!Socks : y[m] = IF m = n THEN "connection" ELSE r.epoll[m]
  BY <1>0
<1>4. w \in BOOLEAN
  OBVIOUS
<1>5. ~r.overlap => ~w
  BY DEF C!PollerHas
<1> HIDE DEF w, x, y
<1>6. b \in C!Client
  BY <1>0, <1>2, <1>3, <1>4, ZenonT(40) DEF C!Client
<1>7. /\ b.state = r.state /\ b.chan = r.chan /\ b.connection = n /\ b.cst = x /\ b.epoll = y
      /\ b.sock = r.sock /\ b.next = r.next /\ b.wrong = w /\ b.overlap = r.overlap /\ b.q = r.q
  BY <1>0 DEF C!Client
<1> HIDE DEF b
<1>8. Typed(b)
  BY <1>6, <1>7 DEF Typed, C!NamesSocket
<1>9. Sound(b, k)
  <2> SUFFICES ASSUME ~b.overlap PROVE C!PollerHas(b) /\ C!DestroysClosed(b) /\ C!ResetsRight(b, k)
    BY DEF Sound
  <2>1. /\ C!PollerHas(r) /\ C!DestroysClosed(r) /\ C!ResetsRight(r, k)
        /\ r.state # "CONNECTING" /\ r.connection = C!None
        /\ r.cst[n] = "none" /\ r.sock[n] # "none" /\ ~w
    BY <1>5, <1>7
  <2>2. C!PollerHas(b)
    <3>1. \A m \in C!Socks : r.epoll[m] # "connection" /\ r.epoll[m] # "connector"
      BY <2>1, SocketsAre DEF C!PollerHas
    <3>2. \A m \in C!Socks :
            /\ b.epoll[m] # "connector"
            /\ b.epoll[m] = "connection" => b.connection = m /\ b.chan \in {C!None, m}
            /\ b.epoll[m] = "connection" <=> b.cst[m] \in {"CONNECTED", "DISCONNECTING"}
            /\ b.sock[m] = "none" => b.cst[m] = "none" /\ b.epoll[m] = "none"
      <4> SUFFICES ASSUME NEW m \in C!Socks
                   PROVE  /\ b.epoll[m] # "connector"
                          /\ b.epoll[m] = "connection" => b.connection = m /\ b.chan \in {C!None, m}
                          /\ b.epoll[m] = "connection" <=> b.cst[m] \in {"CONNECTED", "DISCONNECTING"}
                          /\ b.sock[m] = "none" => b.cst[m] = "none" /\ b.epoll[m] = "none"
        OBVIOUS
      <4>1. CASE m = n
        BY <1>2, <1>3, <1>7, <2>1, <4>1
      <4>2. CASE m # n
        BY <1>2, <1>3, <1>7, <2>1, <3>1, <4>2 DEF C!PollerHas
      <4> QED BY <4>1, <4>2
    <3>3. ~b.wrong /\ b.state # "CONNECTING"
      BY <1>7, <2>1
    <3> QED BY <3>2, <3>3 DEF C!PollerHas
  <2>3. C!DestroysClosed(b)
    <3> SUFFICES ASSUME NEW i \in 1..Len(b.q), b.q[i].op = "destroyed"
                 PROVE  b.cst[b.q[i].n] \in {"DISCONNECTED", "gone"}
      BY DEF C!DestroysClosed
    <3>1. r.cst[r.q[i].n] \in {"DISCONNECTED", "gone"}
      BY <1>7, <2>1 DEF C!DestroysClosed
    <3>2. b.q[i].n \in C!Socks /\ b.q[i].n # n
      BY <1>7, <1>8, <2>1, <3>1 DEF Typed, C!NamesSocket
    <3> QED BY <1>2, <1>7, <3>1, <3>2
  <2>4. C!ResetsRight(b, k)
    <3>1. b.chan # C!None /\ b.epoll[b.chan] # "connector" /\ r.chan # C!None /\ r.epoll[r.chan] # "connector"
      BY <1>3, <1>7, <2>1, SocketsAre DEF C!PollerHas
    <3> QED BY <1>7, <2>1, <3>1 DEF C!ResetsRight, C!Resets
  <2> QED BY <2>2, <2>3, <2>4
<1>10. Acts(b, d)
  BY <1>1, <1>8, UserCbActs
<1>11. Sound(d, k)
  BY <1>8, <1>9, <1>10, ActsSound
<1> QED BY <1>7, <1>10, <1>11 DEF Leads, Acts

(* After h - 1 removals of the channel by handle_error.                    *)
LEMMA HandleWriteLeads ==
    ASSUME NEW r, Typed(r), NEW h \in {1, 2}, NEW e, Typed(e), e.overlap = r.overlap, Len(r.q) <= Len(e.q),
           ~r.overlap => /\ C!PollerHas(r) /\ C!DestroysClosed(r) /\ C!ResetsRight(r, 0) /\ r.state = "CONNECTING"
                         /\ (h = 1 /\ e = r) \/ (h = 2 /\ Took(r, e)),
           NEW d \in C!HandleWrite(e)
    PROVE  Leads(r, Len(d.q), d)
<1> DEFINE a == C!RemoveAndResetChannel(e)
           b == [a EXCEPT !.state = "CONNECTED"]
<1>0. e \in C!Client /\ Len(e.q) \in Nat /\ Len(r.q) \in Nat /\ e.chan \in 0..MaxSocks
  BY ClientFields DEF Typed
<1>1. /\ Typed(a) /\ a.overlap = e.overlap /\ a.chan = e.chan /\ Len(e.q) <= Len(a.q)
      /\ e.chan = C!None => a.wrong
      /\ e.chan # C!None => Took(e, a)
  BY RemoveAndResetIs
<1> HIDE DEF a
<1>2. /\ Typed(b) /\ b.state = "CONNECTED" /\ b.chan = a.chan /\ b.connection = a.connection /\ b.cst = a.cst
      /\ b.epoll = a.epoll /\ b.sock = a.sock /\ b.next = a.next /\ b.wrong = a.wrong
      /\ b.overlap = a.overlap /\ b.go = a.go /\ b.q = a.q
  BY <1>1, StateIs
<1>3. IF e.state # "CONNECTING" THEN d = e
      ELSE IF b.wrong \/ ~e.go THEN d = b ELSE d \in C!NewConnection(b, e.chan)
  BY DEF C!HandleWrite, a
<1> HIDE DEF b
<1>4. Len(r.q) <= Len(b.q) /\ Len(b.q) \in Nat
  <2>1. Len(b.q) \in Nat
    BY <1>2, ClientFields DEF Typed
  <2> QED BY <1>0, <1>1, <1>2, <2>1
<1>5. ASSUME ~r.overlap
      PROVE  /\ e.state = "CONNECTING" /\ b.chan = e.chan
             /\ C!PollerHas(b) /\ C!DestroysClosed(b) /\ C!ResetsRight(b, Len(b.q))
             /\ b.connection = C!None /\ b.cst[b.chan] = "none" /\ b.sock[b.chan] # "none"
  <2>1. /\ C!PollerHas(r) /\ C!DestroysClosed(r) /\ C!ResetsRight(r, 0) /\ r.state = "CONNECTING"
        /\ (h = 1 /\ e = r) \/ (h = 2 /\ Took(r, e))
    BY <1>5
  <2>2. r.chan # C!None
    BY <2>1 DEF C!PollerHas
  <2>3. e.state = "CONNECTING" /\ e.chan = r.chan
    BY <2>1 DEF Took
  <2>4. Took(e, a)
    BY <1>1, <2>2, <2>3
  <2>5. Left(r, b, h)
    <3>1. CASE h = 1 /\ e = r
      <4>1. \A i \in 1..Len(b.q) : i \in 1..Len(r.q) \/ b.q[i].op = "reset"
        BY <1>0, <1>2, <2>4, <3>1 DEF Took
      <4> QED BY <1>2, <2>4, <3>1, <4>1 DEF Took, Left
    <3>2. CASE h = 2 /\ Took(r, e)
      <4>1. Len(b.q) = Len(r.q) + 2
        BY <1>0, <1>2, <2>4, <3>2 DEF Took
      <4>2. \A i \in 1..Len(r.q) : b.q[i] = r.q[i]
        BY <1>0, <1>2, <2>4, <3>2 DEF Took
      <4>3. \A i \in 1..Len(b.q) : i \in 1..Len(r.q) \/ b.q[i].op = "reset"
        <5>1. e.q[Len(r.q) + 1].op = "reset" /\ b.q[Len(r.q) + 2].op = "reset"
          BY <1>0, <1>2, <2>4, <3>2 DEF Took
        <5>2. b.q[Len(r.q) + 1] = e.q[Len(r.q) + 1]
          BY <1>0, <1>2, <2>4, <3>2 DEF Took
        <5>3. \A i \in 1..Len(b.q) : i \in 1..Len(r.q) \/ i = Len(r.q) + 1 \/ i = Len(r.q) + 2
          BY <1>0, <4>1
        <5> QED BY <5>1, <5>2, <5>3
      <4>4. \A m \in C!Socks : b.epoll[m] = IF m = r.chan THEN "none" ELSE r.epoll[m]
        BY <1>2, <2>3, <2>4, <3>2 DEF Took
      <4> QED BY <1>2, <2>4, <3>2, <4>1, <4>2, <4>3, <4>4 DEF Took, Left
    <3> QED BY <2>1, <3>1, <3>2
  <2>6. b.chan = e.chan
    BY <1>1, <1>2
  <2>7. /\ C!PollerHas(b) /\ C!DestroysClosed(b) /\ C!ResetsRight(b, Len(b.q))
        /\ b.connection = C!None /\ b.cst[b.chan] = "none" /\ b.sock[b.chan] # "none"
    BY <2>1, <2>5, LeftSound
  <2> QED BY <2>3, <2>6, <2>7
<1>6. b.overlap = r.overlap
  BY <1>1, <1>2
<1>7. CASE e.state # "CONNECTING"
  <2>1. d = e /\ r.overlap /\ r.overlap = e.overlap
    BY <1>3, <1>5, <1>7
  <2> QED BY <2>1 DEF Leads, Sound
<1>8. CASE e.state = "CONNECTING" /\ (b.wrong \/ ~e.go)
  <2>1. d = b
    BY <1>3, <1>8
  <2> QED BY <1>2, <1>4, <1>5, <1>6, <2>1 DEF Leads, Sound
<1>9. CASE e.state = "CONNECTING" /\ ~(b.wrong \/ ~e.go)
  <2>1. d \in C!NewConnection(b, e.chan)
    BY <1>3, <1>9
  <2>2. e.chan \in C!Socks /\ e.chan = b.chan
    BY <1>0, <1>1, <1>2, <1>9, SocketsAre
  <2>3. Leads(b, Len(b.q), d)
    <3> DEFINE l == Len(b.q)
               n == e.chan
    <3>1. ~b.overlap => /\ C!PollerHas(b) /\ C!DestroysClosed(b) /\ C!ResetsRight(b, l)
                        /\ b.state # "CONNECTING" /\ b.connection = C!None
                        /\ b.cst[n] = "none" /\ b.sock[n] # "none"
      BY <1>2, <1>5, <1>6
    <3>2. n \in C!Socks /\ n = b.chan /\ d \in C!NewConnection(b, n) /\ l = Len(b.q)
      BY <2>1, <2>2
    <3> HIDE DEF l, n
    <3>3. Leads(b, l, d)
      BY <1>2, <3>1, <3>2, NewConnectionLeads
    <3> QED BY <3>2, <3>3
  <2> QED BY <1>2, <1>4, <2>3, MoreResets
<1> QED BY <1>7, <1>8, <1>9

------------------------------------------------------------------------------
(* handle_close and connect_destroyed.                                     *)
Closed(r, d, n, v) ==
    /\ Typed(d) /\ d.state = r.state /\ d.chan = r.chan /\ d.connection = r.connection
    /\ d.sock = r.sock /\ d.next = r.next /\ d.wrong = r.wrong /\ d.overlap = r.overlap /\ d.q = r.q
    /\ \A m \in C!Socks : d.cst[m] = IF m = n THEN v ELSE r.cst[m]
    /\ \A m \in C!Socks : d.epoll[m] = IF m = n THEN "none" ELSE r.epoll[m]

(* The state of a connection and its channel, set together.                *)
LEMMA ClosedIs ==
    ASSUME NEW r, Typed(r), NEW n \in C!Socks, NEW v \in {"DISCONNECTED", "gone"}
    PROVE  Closed(r, [r EXCEPT !.cst[n] = v, !.epoll[n] = "none"], n, v)
<1> DEFINE x == [r.cst EXCEPT ![n] = v]
           y == [r.epoll EXCEPT ![n] = "none"]
           d == [r EXCEPT !.cst = x, !.epoll = y]
<1>0. /\ r \in C!Client
      /\ r.cst \in [C!Socks -> {"none", "CONNECTED", "DISCONNECTING", "DISCONNECTED", "gone"}]
      /\ r.epoll \in [C!Socks -> {"none", "connector", "connection"}]
  BY ClientFields DEF Typed
<1>1. [r EXCEPT !.cst[n] = v, !.epoll[n] = "none"] = d
  OBVIOUS
<1>2. /\ x \in [C!Socks -> {"none", "CONNECTED", "DISCONNECTING", "DISCONNECTED", "gone"}]
      /\ \A m \in C!Socks : x[m] = IF m = n THEN v ELSE r.cst[m]
  BY <1>0
<1>3. /\ y \in [C!Socks -> {"none", "connector", "connection"}]
      /\ \A m \in C!Socks : y[m] = IF m = n THEN "none" ELSE r.epoll[m]
  BY <1>0
<1> HIDE DEF x, y
<1>4. d \in C!Client
  BY <1>0, <1>2, <1>3, ZenonT(40) DEF C!Client
<1>5. /\ d.state = r.state /\ d.chan = r.chan /\ d.connection = r.connection /\ d.cst = x /\ d.epoll = y
      /\ d.sock = r.sock /\ d.next = r.next /\ d.wrong = r.wrong /\ d.overlap = r.overlap /\ d.q = r.q
  BY <1>0 DEF C!Client
<1> HIDE DEF d
<1>6. Typed(d)
  BY <1>4, <1>5 DEF Typed, C!NamesSocket
<1>7. Closed(r, d, n, v)
  BY <1>2, <1>3, <1>5, <1>6 DEF Closed
<1> QED BY <1>1, <1>7, Zenon

(* A connection whose channel is not the connector's may be closed.        *)
LEMMA ClosedSound ==
    ASSUME NEW r, Typed(r), NEW n \in C!Socks, NEW v \in {"DISCONNECTED", "gone"}, NEW d, Closed(r, d, n, v), NEW k,
           C!PollerHas(r), C!DestroysClosed(r), C!ResetsRight(r, k), r.cst[n] # "none"
    PROVE  C!PollerHas(d) /\ C!DestroysClosed(d) /\ C!ResetsRight(d, k)
<1>c. /\ Typed(d) /\ d.state = r.state /\ d.chan = r.chan /\ d.connection = r.connection
      /\ d.sock = r.sock /\ d.next = r.next /\ d.wrong = r.wrong /\ d.q = r.q
      /\ \A m \in C!Socks : d.cst[m] = IF m = n THEN v ELSE r.cst[m]
      /\ \A m \in C!Socks : d.epoll[m] = IF m = n THEN "none" ELSE r.epoll[m]
  BY DEF Closed
<1>0. r \in C!Client /\ d.chan \in 0..MaxSocks
  BY <1>c, ClientFields DEF Typed
<1>1. r.epoll[n] # "connector" /\ r.sock[n] # "none"
  BY DEF C!PollerHas
<1>2. \A m \in C!Socks :
        /\ d.epoll[m] = "connector" => d.chan = m /\ d.state = "CONNECTING" /\ d.cst[m] = "none"
        /\ d.epoll[m] = "connection" => d.connection = m /\ d.chan \in {C!None, m}
        /\ d.epoll[m] = "connection" <=> d.cst[m] \in {"CONNECTED", "DISCONNECTING"}
        /\ d.sock[m] = "none" => d.cst[m] = "none" /\ d.epoll[m] = "none"
  <2> SUFFICES ASSUME NEW m \in C!Socks
               PROVE  /\ d.epoll[m] = "connector" => d.chan = m /\ d.state = "CONNECTING" /\ d.cst[m] = "none"
                      /\ d.epoll[m] = "connection" => d.connection = m /\ d.chan \in {C!None, m}
                      /\ d.epoll[m] = "connection" <=> d.cst[m] \in {"CONNECTED", "DISCONNECTING"}
                      /\ d.sock[m] = "none" => d.cst[m] = "none" /\ d.epoll[m] = "none"
    OBVIOUS
  <2>1. CASE m = n
    BY <1>c, <1>1, <2>1
  <2>2. CASE m # n
    BY <1>c, <2>2 DEF C!PollerHas
  <2> QED BY <2>1, <2>2
<1>3. d.state = "CONNECTING" => /\ d.chan # C!None /\ d.epoll[d.chan] = "connector"
                                /\ d.connection = C!None /\ d.next = "return"
  <2> SUFFICES ASSUME d.state = "CONNECTING"
               PROVE  /\ d.chan # C!None /\ d.epoll[d.chan] = "connector"
                      /\ d.connection = C!None /\ d.next = "return"
    OBVIOUS
  <2>1. /\ r.chan # C!None /\ r.epoll[r.chan] = "connector" /\ r.connection = C!None /\ r.next = "return"
    BY <1>c DEF C!PollerHas
  <2>2. r.chan \in C!Socks /\ r.chan # n
    BY <1>c, <1>0, <1>1, <2>1, SocketsAre
  <2> QED BY <1>c, <2>1, <2>2
<1>4. C!PollerHas(d)
  <2>1. ~d.wrong
    BY <1>c DEF C!PollerHas
  <2> QED BY <1>2, <1>3, <2>1 DEF C!PollerHas
<1>5. C!DestroysClosed(d)
  <2> SUFFICES ASSUME NEW i \in 1..Len(d.q), d.q[i].op = "destroyed"
               PROVE  d.cst[d.q[i].n] \in {"DISCONNECTED", "gone"}
    BY DEF C!DestroysClosed
  <2>1. d.q[i].n \in C!Socks
    BY <1>c DEF Typed, C!NamesSocket
  <2>2. r.cst[d.q[i].n] \in {"DISCONNECTED", "gone"}
    BY <1>c DEF C!DestroysClosed
  <2> QED BY <1>c, <2>1, <2>2
<1>6. C!ResetsRight(d, k)
  <2>1. (d.chan # C!None /\ d.epoll[d.chan] # "connector") <=> (r.chan # C!None /\ r.epoll[r.chan] # "connector")
    <3>1. CASE d.chan = C!None
      BY <1>c, <3>1
    <3>2. CASE d.chan # C!None
      <4>1. d.chan \in C!Socks
        BY <1>0, <3>2, SocketsAre
      <4> QED BY <1>c, <1>1, <3>2, <4>1
    <3> QED BY <3>1, <3>2
  <2> QED BY <1>c, <2>1 DEF C!ResetsRight, C!Resets
<1> QED BY <1>4, <1>5, <1>6

(* tcp_connection::connect_destroyed of a connection that is closed.       *)
LEMMA ConnectDestroyedLeads ==
    ASSUME NEW r, Typed(r), NEW n \in C!Socks, NEW k, Sound(r, k),
           ~r.overlap => r.cst[n] \in {"DISCONNECTED", "gone"}
    PROVE  Leads(r, k, C!ConnectDestroyed(r, n))
<1> DEFINE d == [r EXCEPT !.cst[n] = "gone", !.epoll[n] = "none"]
<1>0. C!ConnectDestroyed(r, n) = d /\ Len(r.q) \in Nat /\ "gone" \in {"DISCONNECTED", "gone"}
  <2>1. Len(r.q) \in Nat
    BY ClientFields DEF Typed
  <2>2. C!ConnectDestroyed(r, n) = d
    BY DEF C!ConnectDestroyed
  <2> QED BY <2>1, <2>2, Zenon
<1>1. Closed(r, d, n, "gone")
  BY <1>0, ClosedIs
<1> HIDE DEF d
<1>2. Sound(d, k)
  <2> SUFFICES ASSUME ~d.overlap PROVE C!PollerHas(d) /\ C!DestroysClosed(d) /\ C!ResetsRight(d, k)
    BY DEF Sound
  <2>1. C!PollerHas(r) /\ C!DestroysClosed(r) /\ C!ResetsRight(r, k) /\ r.cst[n] # "none"
    BY <1>1 DEF Sound, Closed
  <2> QED BY <1>0, <1>1, <2>1, ClosedSound
<1>3. Len(r.q) <= Len(d.q) /\ Typed(d)
  BY <1>0, <1>1 DEF Closed
<1> QED BY <1>0, <1>2, <1>3 DEF Leads

(* tcp_client::remove_connection, for the connection just closed.          *)
LEMMA RemoveConnectionLeads ==
    ASSUME NEW r, Typed(r), NEW n \in C!Socks, NEW k, Sound(r, k),
           ~r.overlap => r.connection = n /\ r.cst[n] = "DISCONNECTED" /\ r.state # "CONNECTING"
    PROVE  Leads(r, k, C!RemoveConnection(r, n))
<1> DEFINE b == C!Queue(r, "destroyed", n)
           x == IF r.want THEN "restart" ELSE "return"
           d == [b EXCEPT !.connection = C!None, !.next = x]
<1>0. r \in C!Client /\ "destroyed" \in C!FunctorOps /\ n \in 0..MaxSocks /\ C!None \in 0..MaxSocks /\ Len(r.q) \in Nat
  BY ClientFields, SocketsAre DEF C!FunctorOps, Typed
<1>1. C!RemoveConnection(r, n) = d
  BY DEF C!RemoveConnection
<1>2. /\ b \in C!Client /\ SameChannels(r, b) /\ b.cst = r.cst
      /\ Len(b.q) = Len(r.q) + 1
      /\ \A i \in 1..Len(r.q) : b.q[i] = r.q[i]
      /\ b.q[Len(r.q) + 1].op = "destroyed" /\ b.q[Len(r.q) + 1].n = n
  BY <1>0, QueueIs
<1> HIDE DEF b
<1>3. x \in {"return", "restart", "start"}
  OBVIOUS
<1> HIDE DEF x
<1>4. d \in C!Client
  BY <1>0, <1>2, <1>3, ZenonT(40) DEF C!Client
<1>5. /\ d.state = b.state /\ d.chan = b.chan /\ d.connection = C!None /\ d.cst = b.cst /\ d.epoll = b.epoll
      /\ d.sock = b.sock /\ d.wrong = b.wrong /\ d.overlap = b.overlap /\ d.q = b.q
  BY <1>2 DEF C!Client
<1> HIDE DEF d
<1>6. \A i \in 1..Len(d.q) : i \in 1..Len(r.q) \/ i = Len(r.q) + 1
  BY <1>0, <1>2, <1>5
<1>7. Typed(d)
  <2>1. C!NamesSocket(d)
    BY <1>2, <1>5, <1>6 DEF C!NamesSocket, Typed
  <2> QED BY <1>4, <2>1 DEF Typed
<1>8. Sound(d, k)
  <2> SUFFICES ASSUME ~d.overlap PROVE C!PollerHas(d) /\ C!DestroysClosed(d) /\ C!ResetsRight(d, k)
    BY DEF Sound
  <2>1. /\ C!PollerHas(r) /\ C!DestroysClosed(r) /\ C!ResetsRight(r, k)
        /\ r.connection = n /\ r.cst[n] = "DISCONNECTED" /\ r.state # "CONNECTING"
    BY <1>2, <1>5 DEF Sound, SameChannels
  <2>2. C!PollerHas(d)
    <3>1. \A m \in C!Socks : r.epoll[m] # "connection"
      BY <2>1 DEF C!PollerHas
    <3> QED BY <1>2, <1>5, <2>1, <3>1 DEF C!PollerHas, SameChannels
  <2>3. C!DestroysClosed(d)
    BY <1>2, <1>5, <1>6, <2>1 DEF C!DestroysClosed
  <2>4. C!ResetsRight(d, k)
    <3>1. \A i \in 1..Len(d.q) : C!Resets(d, i) => i \in 1..Len(r.q) /\ C!Resets(r, i)
      BY <1>2, <1>5, <1>6 DEF C!Resets
    <3>2. \A i \in 1..Len(r.q) : C!Resets(r, i) => i \in 1..Len(d.q) /\ C!Resets(d, i)
      BY <1>0, <1>2, <1>5 DEF C!Resets
    <3> QED BY <1>2, <1>5, <2>1, <3>1, <3>2 DEF C!ResetsRight, SameChannels
  <2> QED BY <2>2, <2>3, <2>4
<1>9. Len(r.q) <= Len(d.q)
  BY <1>0, <1>2, <1>5
<1> QED BY <1>1, <1>7, <1>8, <1>9 DEF Leads

(* tcp_connection::handle_close of an open connection.                     *)
LEMMA HandleCloseLeads ==
    ASSUME NEW r, Typed(r), NEW n \in C!Socks, NEW k, Sound(r, k),
           ~r.overlap => r.cst[n] \in {"CONNECTED", "DISCONNECTING"},
           NEW d \in C!HandleClose(r, n)
    PROVE  Leads(r, k, d)
<1> DEFINE b == [r EXCEPT !.cst[n] = "DISCONNECTED", !.epoll[n] = "none"]
<1>0. PICK e \in C!UserCb(b, n) : d = C!RemoveConnection(e, n)
  BY DEF C!HandleClose
<1>1. Closed(r, b, n, "DISCONNECTED")
  BY ClosedIs
<1> HIDE DEF b
<1>2. /\ Sound(b, k)
      /\ ~b.overlap => b.connection = n /\ b.state # "CONNECTING"
  <2> SUFFICES ASSUME ~b.overlap
               PROVE  /\ C!PollerHas(b) /\ C!DestroysClosed(b) /\ C!ResetsRight(b, k)
                      /\ b.connection = n /\ b.state # "CONNECTING"
    BY DEF Sound
  <2>1. C!PollerHas(r) /\ C!DestroysClosed(r) /\ C!ResetsRight(r, k) /\ r.cst[n] \in {"CONNECTED", "DISCONNECTING"}
    BY <1>1 DEF Sound, Closed
  <2>2. r.epoll[n] = "connection"
    BY <2>1 DEF C!PollerHas
  <2>3. r.connection = n /\ r.state # "CONNECTING"
    BY <2>1, <2>2, SocketsAre DEF C!PollerHas
  <2>4. r.cst[n] # "none" /\ "DISCONNECTED" \in {"DISCONNECTED", "gone"}
    BY <2>1
  <2>5. C!PollerHas(b) /\ C!DestroysClosed(b) /\ C!ResetsRight(b, k)
    BY <1>1, <2>1, <2>4, ClosedSound
  <2> QED BY <1>1, <2>3, <2>5 DEF Closed
<1>3. Acts(b, e)
  BY <1>0, <1>1, UserCbActs DEF Closed
<1>4. Typed(e) /\ Sound(e, k)
  BY <1>1, <1>2, <1>3, ActsSound DEF Acts, Closed
<1>5. ~e.overlap => e.connection = n /\ e.cst[n] = "DISCONNECTED" /\ e.state # "CONNECTING"
  BY <1>1, <1>2, <1>3 DEF Acts, SameChannels, Closed
<1>6. Leads(e, k, d)
  BY <1>0, <1>4, <1>5, RemoveConnectionLeads
<1>7. Len(r.q) \in Nat /\ Len(e.q) \in Nat /\ Len(d.q) \in Nat
  BY <1>4, <1>6, ClientFields DEF Typed, Leads
<1>8. Len(r.q) <= Len(d.q)
  BY <1>1, <1>3, <1>6, <1>7 DEF Leads, Acts, Closed
<1> QED BY <1>6, <1>8 DEF Leads

(* tcp_connection::force_close_inloop.                                     *)
LEMMA ForceCloseInloopLeads ==
    ASSUME NEW r, Typed(r), NEW n \in C!Socks, NEW k, Sound(r, k), NEW d \in C!ForceCloseInloop(r, n)
    PROVE  Leads(r, k, d)
<1>0. Len(r.q) \in Nat
  BY ClientFields DEF Typed
<1>1. CASE r.cst[n] \in {"CONNECTED", "DISCONNECTING"}
  <2>1. d \in C!HandleClose(r, n)
    BY <1>1 DEF C!ForceCloseInloop
  <2> QED BY <1>1, <2>1, HandleCloseLeads
<1>2. CASE r.cst[n] \notin {"CONNECTED", "DISCONNECTING"}
  <2>1. d = r
    BY <1>2 DEF C!ForceCloseInloop
  <2> QED BY <1>0, <2>1 DEF Leads
<1> QED BY <1>1, <1>2

------------------------------------------------------------------------------
(* start_inloop, connect and connecting.                                   *)
Dropped(r, d) ==
    /\ Typed(d) /\ d.state = r.state /\ d.chan = C!None /\ d.connection = r.connection /\ d.cst = r.cst
    /\ d.epoll = r.epoll /\ d.sock = r.sock /\ d.next = r.next /\ d.overlap = r.overlap /\ d.q = r.q
    /\ d.wrong = (r.wrong \/ (r.chan # C!None /\ r.epoll[r.chan] = "connector"))

(* channel_ is reset.                                                      *)
LEMMA DropIs ==
    ASSUME NEW r, Typed(r)
    PROVE  Dropped(r, C!Drop(r))
<1> DEFINE w == r.wrong \/ (r.chan # C!None /\ r.epoll[r.chan] = "connector")
           d == [r EXCEPT !.chan = C!None, !.wrong = w]
<1>0. r \in C!Client /\ r.wrong \in BOOLEAN /\ C!None \in 0..MaxSocks
  BY ClientFields, SocketsAre DEF Typed
<1>1. C!Drop(r) = d
  BY DEF C!Drop
<1>2. w \in BOOLEAN /\ w = (r.wrong \/ (r.chan # C!None /\ r.epoll[r.chan] = "connector"))
  OBVIOUS
<1> HIDE DEF w
<1>3. d \in C!Client
  BY <1>0, <1>2, ZenonT(40) DEF C!Client
<1>4. /\ d.state = r.state /\ d.chan = C!None /\ d.connection = r.connection /\ d.cst = r.cst
      /\ d.epoll = r.epoll /\ d.sock = r.sock /\ d.next = r.next /\ d.overlap = r.overlap /\ d.q = r.q
      /\ d.wrong = w
  BY <1>0 DEF C!Client
<1> HIDE DEF d
<1>5. Typed(d)
  BY <1>3, <1>4 DEF Typed, C!NamesSocket
<1>6. Dropped(r, d)
  BY <1>2, <1>4, <1>5 DEF Dropped
<1> QED BY <1>1, <1>6

Connects(r, d, n) ==
    /\ Typed(d) /\ d.state = "CONNECTING" /\ d.chan = n /\ d.connection = r.connection /\ d.cst = r.cst
    /\ d.next = r.next /\ d.overlap = r.overlap /\ d.q = r.q
    /\ d.wrong = (r.wrong \/ (r.chan # C!None /\ r.epoll[r.chan] = "connector"))
    /\ \A m \in C!Socks : d.epoll[m] = IF m = n THEN "connector" ELSE r.epoll[m]
    /\ \A m \in C!Socks : d.sock[m] = IF m = n THEN "connecting" ELSE r.sock[m]

(* connector::connecting.                                                  *)
LEMMA ConnectingIs ==
    ASSUME NEW r, Typed(r), NEW n \in C!Socks
    PROVE  Connects(r, C!Connecting(r, n), n)
<1> DEFINE b == C!Drop(r)
           x == [b.epoll EXCEPT ![n] = "connector"]
           y == [b.sock EXCEPT ![n] = "connecting"]
           d == [b EXCEPT !.state = "CONNECTING", !.chan = n, !.epoll = x, !.sock = y]
<1>0. Dropped(r, b)
  BY DropIs
<1>1. C!Connecting(r, n) = d
  BY DEF C!Connecting
<1> HIDE DEF b
<1>2. /\ b \in C!Client /\ n \in 0..MaxSocks
      /\ b.sock \in [C!Socks -> {"none", "connecting", "up", "refused", "closed"}]
      /\ b.epoll \in [C!Socks -> {"none", "connector", "connection"}]
  BY <1>0, ClientFields, SocketsAre DEF Typed, Dropped
<1>3. /\ x \in [C!Socks -> {"none", "connector", "connection"}]
      /\ \A m \in C!Socks : x[m] = IF m = n THEN "connector" ELSE b.epoll[m]
  BY <1>2
<1>4. /\ y \in [C!Socks -> {"none", "connecting", "up", "refused", "closed"}]
      /\ \A m \in C!Socks : y[m] = IF m = n THEN "connecting" ELSE b.sock[m]
  BY <1>2
<1> HIDE DEF x, y
<1>5. d \in C!Client
  BY <1>2, <1>3, <1>4, ZenonT(40) DEF C!Client
<1>6. /\ d.state = "CONNECTING" /\ d.chan = n /\ d.connection = b.connection /\ d.cst = b.cst
      /\ d.epoll = x /\ d.sock = y /\ d.next = b.next /\ d.overlap = b.overlap /\ d.q = b.q
      /\ d.wrong = b.wrong
  BY <1>2 DEF C!Client
<1> HIDE DEF d
<1>7. Typed(d)
  BY <1>0, <1>5, <1>6 DEF Typed, C!NamesSocket, Dropped
<1>8. Connects(r, d, n)
  BY <1>0, <1>3, <1>4, <1>6, <1>7 DEF Connects, Dropped
<1> QED BY <1>1, <1>8

(* It is sound when nothing of an earlier connect is left.                 *)
LEMMA ConnectsSound ==
    ASSUME NEW r, Typed(r), NEW n \in C!Socks, NEW d, Connects(r, d, n), NEW k,
           C!PollerHas(r), C!DestroysClosed(r), C!ResetsRight(r, k),
           r.sock[n] = "none", r.state # "CONNECTING", r.chan = C!None, r.connection = C!None, r.next = "return"
    PROVE  C!PollerHas(d) /\ C!DestroysClosed(d) /\ C!ResetsRight(d, k)
<1>1. \A m \in C!Socks : r.epoll[m] # "connection" /\ r.epoll[m] # "connector"
  BY SocketsAre DEF C!PollerHas
<1>2. \A m \in C!Socks :
        /\ d.epoll[m] = "connector" => d.chan = m /\ d.state = "CONNECTING" /\ d.cst[m] = "none"
        /\ d.epoll[m] = "connection" => d.connection = m /\ d.chan \in {C!None, m}
        /\ d.epoll[m] = "connection" <=> d.cst[m] \in {"CONNECTED", "DISCONNECTING"}
        /\ d.sock[m] = "none" => d.cst[m] = "none" /\ d.epoll[m] = "none"
  <2> SUFFICES ASSUME NEW m \in C!Socks
               PROVE  /\ d.epoll[m] = "connector" => d.chan = m /\ d.state = "CONNECTING" /\ d.cst[m] = "none"
                      /\ d.epoll[m] = "connection" => d.connection = m /\ d.chan \in {C!None, m}
                      /\ d.epoll[m] = "connection" <=> d.cst[m] \in {"CONNECTED", "DISCONNECTING"}
                      /\ d.sock[m] = "none" => d.cst[m] = "none" /\ d.epoll[m] = "none"
    OBVIOUS
  <2>1. CASE m = n
    BY <2>1 DEF C!PollerHas, Connects
  <2>2. CASE m # n
    BY <1>1, <2>2 DEF C!PollerHas, Connects
  <2> QED BY <2>1, <2>2
<1>3. /\ ~d.wrong /\ d.chan # C!None /\ d.epoll[d.chan] = "connector"
      /\ d.connection = C!None /\ d.next = "return"
  BY SocketsAre DEF C!PollerHas, Connects
<1>4. C!DestroysClosed(d)
  BY DEF C!DestroysClosed, Connects
<1>5. C!ResetsRight(d, k)
  BY <1>3 DEF C!ResetsRight, C!Resets, Connects
<1>6. C!PollerHas(d)
  BY <1>2, <1>3 DEF C!PollerHas
<1> QED BY <1>4, <1>5, <1>6

(* What overlap notes changes nothing else.                                *)
LEMMA OverlapIs ==
    ASSUME NEW r, Typed(r), NEW v \in BOOLEAN
    PROVE  LET d == [r EXCEPT !.overlap = v] IN
           /\ Typed(d) /\ d.overlap = v /\ d.state = r.state /\ d.chan = r.chan /\ d.connection = r.connection
           /\ d.cst = r.cst /\ d.epoll = r.epoll /\ d.sock = r.sock /\ d.next = r.next /\ d.wrong = r.wrong
           /\ d.q = r.q
<1> DEFINE d == [r EXCEPT !.overlap = v]
<1>0. r \in C!Client
  BY DEF Typed
<1>1. d \in C!Client
  BY <1>0, ZenonT(40) DEF C!Client
<1>2. /\ d.overlap = v /\ d.state = r.state /\ d.chan = r.chan /\ d.connection = r.connection
      /\ d.cst = r.cst /\ d.epoll = r.epoll /\ d.sock = r.sock /\ d.next = r.next /\ d.wrong = r.wrong
      /\ d.q = r.q
  BY <1>0 DEF C!Client
<1> HIDE DEF d
<1>3. Typed(d)
  BY <1>1, <1>2 DEF Typed, C!NamesSocket
<1>4. /\ Typed(d) /\ d.overlap = v /\ d.state = r.state /\ d.chan = r.chan /\ d.connection = r.connection
      /\ d.cst = r.cst /\ d.epoll = r.epoll /\ d.sock = r.sock /\ d.next = r.next /\ d.wrong = r.wrong
      /\ d.q = r.q
  BY <1>2, <1>3
<1> QED BY <1>4 DEF d

(* connector::start_inloop; a start too many sets overlap.                 *)
LEMMA StartInloopLeads ==
    ASSUME NEW r, Typed(r), NEW k, Sound(r, k), r.next = "return", NEW d \in C!StartInloop(r)
    PROVE  Leads(r, k, d)
<1>0. r \in C!Client /\ Len(r.q) \in Nat /\ r.overlap \in BOOLEAN /\ r.chan \in 0..MaxSocks
  BY ClientFields DEF Typed
<1>1. CASE ~r.go
  <2>1. d = r
    BY <1>1 DEF C!StartInloop
  <2> QED BY <1>0, <2>1 DEF Leads
<1>2. CASE r.go
  <2> DEFINE v == r.overlap \/ r.state = "CONNECTING" \/ r.chan # C!None \/ r.connection # C!None
             b == [r EXCEPT !.overlap = v]
  <2>1. d \in C!Connect(b)
    BY <1>2 DEF C!StartInloop
  <2>2. v \in BOOLEAN /\ (~v => ~r.overlap /\ r.state # "CONNECTING" /\ r.chan = C!None /\ r.connection = C!None)
    BY <1>0
  <2> HIDE DEF v
  <2>3. /\ Typed(b) /\ b.overlap = v /\ b.state = r.state /\ b.chan = r.chan /\ b.connection = r.connection
        /\ b.cst = r.cst /\ b.epoll = r.epoll /\ b.sock = r.sock /\ b.next = r.next /\ b.wrong = r.wrong
        /\ b.q = r.q
    BY <2>2, OverlapIs
  <2> HIDE DEF b
  <2>4. Sound(b, k)
    BY <2>2, <2>3 DEF Sound, C!PollerHas, C!DestroysClosed, C!ResetsRight, C!Resets
  <2>5. d = [b EXCEPT !.gaveUp = TRUE] \/ \E n \in C!Socks : b.sock[n] = "none" /\ d = C!Connecting(b, n)
    BY <2>1 DEF C!Connect
  <2>6. CASE d = [b EXCEPT !.gaveUp = TRUE]
    <3>1. b \in C!Client
      BY <2>3, SMTT(40) DEF Typed
    <3>2. d = [b EXCEPT !.want = b.want, !.go = b.go, !.gaveUp = TRUE]
      BY <2>6, <3>1, FlagsAre, ZenonT(40)
    <3>3. b.want \in BOOLEAN /\ b.go \in BOOLEAN /\ TRUE \in BOOLEAN
      BY <3>1, FlagsAre
    <3>4. Acts(b, d)
      BY <2>3, <3>2, <3>3, FlagsAct
    <3>5. Sound(d, k)
      BY <2>3, <2>4, <3>4, ActsSound
    <3> QED BY <2>3, <3>4, <3>5 DEF Leads, Acts
  <2>7. ASSUME NEW n \in C!Socks, b.sock[n] = "none", d = C!Connecting(b, n)
        PROVE  Leads(r, k, d)
    <3>1. Connects(b, d, n)
      BY <2>3, <2>7, ConnectingIs
    <3>2. Sound(d, k)
      <4> SUFFICES ASSUME ~d.overlap PROVE C!PollerHas(d) /\ C!DestroysClosed(d) /\ C!ResetsRight(d, k)
        BY DEF Sound
      <4>1. /\ ~b.overlap /\ b.state # "CONNECTING" /\ b.chan = C!None /\ b.connection = C!None /\ b.next = "return"
        BY <2>2, <2>3, <3>1 DEF Connects
      <4>2. C!PollerHas(b) /\ C!DestroysClosed(b) /\ C!ResetsRight(b, k)
        BY <2>4, <4>1 DEF Sound
      <4> QED BY <2>3, <2>7, <3>1, <4>1, <4>2, ConnectsSound
    <3>3. Typed(d) /\ Len(r.q) <= Len(d.q)
      BY <1>0, <2>3, <3>1 DEF Connects
    <3> QED BY <3>2, <3>3 DEF Leads
  <2> QED BY <2>5, <2>6, <2>7
<1> QED BY <1>1, <1>2

------------------------------------------------------------------------------
(* One functor of the round, of which k are left.                          *)
RoundSound(r, k, run) ==
    ~r.overlap => /\ C!PollerHas(r) /\ C!DestroysClosed(r)
                  /\ C!ResetsRight(r, k) \/ (run /\ C!SecondReset(r))

Popped(r, p) ==
    /\ Typed(p) /\ SameChannels(r, p) /\ p.cst = r.cst /\ p.go = r.go
    /\ Len(p.q) + 1 = Len(r.q) /\ \A i \in 1..Len(p.q) : i + 1 \in 1..Len(r.q) /\ p.q[i] = r.q[i + 1]

(* The functor to run leaves the queue.                                    *)
LEMMA PoppedIs ==
    ASSUME NEW r, Typed(r), Len(r.q) > 0
    PROVE  Popped(r, [r EXCEPT !.q = Tail(@)]) /\ Head(r.q) = r.q[1] /\ 1 \in 1..Len(r.q)
<1> DEFINE s == Tail(r.q)
           p == [r EXCEPT !.q = s]
<1>0. r \in C!Client /\ r.q \in Seq(FunctorSet) /\ Len(r.q) \in Nat
  BY ClientFields DEF Typed
<1>1. [r EXCEPT !.q = Tail(@)] = p
  OBVIOUS
<1>2. r.q # <<>>
  BY <1>0, EmptySeq
<1>3. /\ s \in Seq(FunctorSet) /\ Len(s) = Len(r.q) - 1 /\ \A i \in 1..Len(s) : s[i] = r.q[i + 1]
      /\ Head(r.q) = r.q[1]
  BY <1>0, <1>2, HeadTailProperties
<1> HIDE DEF s
<1>4. p \in C!Client /\ SameChannels(r, p) /\ p.cst = r.cst /\ p.go = r.go /\ p.q = s
  BY <1>0, <1>3, QueueOf
<1> HIDE DEF p
<1>5. /\ Len(p.q) + 1 = Len(r.q) /\ 1 \in 1..Len(r.q)
      /\ \A i \in 1..Len(p.q) : i + 1 \in 1..Len(r.q) /\ p.q[i] = r.q[i + 1]
  BY <1>0, <1>3, <1>4
<1>6. C!NamesSocket(p)
  BY <1>5 DEF C!NamesSocket, Typed
<1>7. Popped(r, p)
  BY <1>4, <1>5, <1>6 DEF Popped, Typed
<1> QED BY <1>1, <1>3, <1>5, <1>7, Zenon

(* When it is no reset the invariant holds for one functor less.           *)
LEMMA PoppedSound ==
    ASSUME NEW r, Typed(r), NEW p, Popped(r, p), NEW k \in Nat, r.q[1].op # "reset", RoundSound(r, k, TRUE)
    PROVE  Sound(p, k - 1)
<1> SUFFICES ASSUME ~p.overlap PROVE C!PollerHas(p) /\ C!DestroysClosed(p) /\ C!ResetsRight(p, k - 1)
  BY DEF Sound
<1>0. Len(r.q) \in Nat /\ Len(p.q) \in Nat /\ SameChannels(r, p)
  BY ClientFields DEF Typed, Popped
<1>1. C!PollerHas(r) /\ C!DestroysClosed(r) /\ (C!ResetsRight(r, k) \/ C!SecondReset(r))
  BY <1>0 DEF RoundSound, SameChannels
<1>2. 1 \in 1..Len(r.q) /\ ~C!Resets(r, 1)
  BY <1>0 DEF Popped, C!Resets
<1>3. C!ResetsRight(r, k)
  BY <1>1, <1>2 DEF C!SecondReset
<1>4. C!PollerHas(p)
  BY <1>0, <1>1 DEF C!PollerHas, SameChannels, Popped
<1>5. C!DestroysClosed(p)
  BY <1>1 DEF C!DestroysClosed, Popped
<1>6. \A i \in 1..Len(p.q) : i + 1 \in 1..Len(r.q) /\ (C!Resets(p, i) <=> C!Resets(r, i + 1))
  BY DEF Popped, C!Resets
<1>7. \A i \in 1..Len(r.q) : C!Resets(r, i) => i - 1 \in 1..Len(p.q) /\ C!Resets(p, i - 1)
  <2> SUFFICES ASSUME NEW i \in 1..Len(r.q), C!Resets(r, i) PROVE i - 1 \in 1..Len(p.q) /\ C!Resets(p, i - 1)
    OBVIOUS
  <2>1. i # 1
    BY <1>2
  <2>2. i - 1 \in 1..Len(p.q) /\ (i - 1) + 1 = i
    BY <1>0, <2>1 DEF Popped
  <2> QED BY <1>6, <2>2
<1>8. C!ResetsRight(p, k - 1)
  <2>1. CASE r.chan # C!None /\ r.epoll[r.chan] # "connector"
    <3>1. p.chan # C!None /\ p.epoll[p.chan] # "connector"
      BY <1>0, <2>1 DEF SameChannels
    <3>2. \E i \in 1..Len(p.q) : C!Resets(p, i)
      BY <1>3, <1>7, <2>1 DEF C!ResetsRight
    <3>3. ASSUME NEW i \in 1..Len(p.q), NEW j \in 1..Len(p.q), C!Resets(p, i), C!Resets(p, j), i < j
          PROVE  j = i + 1 /\ j <= k - 1
      <4>1. /\ i + 1 \in 1..Len(r.q) /\ j + 1 \in 1..Len(r.q) /\ C!Resets(r, i + 1) /\ C!Resets(r, j + 1)
            /\ i + 1 < j + 1
        BY <1>0, <1>6, <3>3
      <4>2. j + 1 = (i + 1) + 1 /\ j + 1 <= k
        BY <1>3, <2>1, <4>1 DEF C!ResetsRight
      <4> QED BY <1>0, <4>2
    <3> QED BY <3>1, <3>2, <3>3 DEF C!ResetsRight
  <2>2. CASE ~(r.chan # C!None /\ r.epoll[r.chan] # "connector")
    <3>1. \A i \in 1..Len(r.q) : ~C!Resets(r, i)
      BY <1>3, <2>2 DEF C!ResetsRight
    <3>2. ~(p.chan # C!None /\ p.epoll[p.chan] # "connector")
      BY <1>0, <2>2 DEF SameChannels
    <3> QED BY <1>6, <3>1, <3>2 DEF C!ResetsRight
  <2> QED BY <2>1, <2>2
<1> QED BY <1>4, <1>5, <1>8

(* reset_channel: channel_ goes, or has gone with the reset before.        *)
LEMMA ResetSound ==
    ASSUME NEW r, Typed(r), NEW p, Popped(r, p), NEW d, Dropped(p, d), NEW k \in Nat, r.next = "return",
           r.q[1].op = "reset", RoundSound(r, k, TRUE), ~d.overlap
    PROVE  /\ C!PollerHas(d) /\ C!DestroysClosed(d)
           /\ C!ResetsRight(d, k - 1) \/ (k - 1 > 0 /\ C!SecondReset(d))
<1>0. Len(r.q) \in Nat /\ Len(p.q) \in Nat /\ SameChannels(r, p) /\ p.cst = r.cst
  BY ClientFields DEF Typed, Popped
<1>1. C!PollerHas(r) /\ C!DestroysClosed(r) /\ (C!ResetsRight(r, k) \/ C!SecondReset(r))
  BY <1>0 DEF RoundSound, SameChannels, Dropped
<1>2. 1 \in 1..Len(r.q) /\ C!Resets(r, 1)
  BY <1>0 DEF Popped, C!Resets
<1>3. d.q = p.q /\ \A i \in 1..Len(d.q) : i + 1 \in 1..Len(r.q) /\ (C!Resets(d, i) <=> C!Resets(r, i + 1))
  BY DEF Popped, C!Resets, Dropped
<1>4. r.chan = C!None \/ (r.chan # C!None /\ r.epoll[r.chan] # "connector")
  BY <1>1, <1>2 DEF C!ResetsRight, C!SecondReset
<1>5. ~d.wrong
  BY <1>0, <1>1, <1>4, ZenonT(40) DEF SameChannels, Dropped, C!PollerHas
<1>6. C!PollerHas(d)
  <2>1. r.state # "CONNECTING" /\ \A n \in C!Socks : r.epoll[n] # "connector"
    BY <1>1, <1>4, SocketsAre DEF C!PollerHas
  <2>2. /\ d.state = r.state /\ d.chan = C!None /\ d.connection = r.connection /\ d.cst = r.cst
        /\ d.epoll = r.epoll /\ d.sock = r.sock
    BY <1>0 DEF SameChannels, Dropped
  <2> QED BY <1>1, <1>5, <2>1, <2>2 DEF C!PollerHas
<1>7. C!DestroysClosed(d)
  BY <1>0, <1>1 DEF C!DestroysClosed, Popped, Dropped
<1>8. d.chan = C!None /\ d.next = "return"
  BY <1>0 DEF SameChannels, Dropped
<1>9. CASE C!SecondReset(r)
  <2>1. \A i \in 1..Len(d.q) : ~C!Resets(d, i)
    BY <1>0, <1>3, <1>9 DEF C!SecondReset
  <2> QED BY <1>6, <1>7, <1>8, <2>1 DEF C!ResetsRight
<1>10. CASE C!ResetsRight(r, k)
  <2>1. \A j \in 1..Len(r.q) : C!Resets(r, j) /\ 1 < j => j = 2 /\ j <= k
    BY <1>2, <1>10 DEF C!ResetsRight
  <2>2. CASE \A i \in 1..Len(d.q) : ~C!Resets(d, i)
    BY <1>6, <1>7, <1>8, <2>2 DEF C!ResetsRight
  <2>3. CASE \E i \in 1..Len(d.q) : C!Resets(d, i)
    <3>1. \A i \in 1..Len(d.q) : C!Resets(d, i) => i = 1 /\ 1 < k
      BY <1>0, <1>3, <2>1
    <3>2. \A i \in 1..Len(d.q) : C!Resets(d, i) <=> i = 1
      BY <2>3, <3>1
    <3>3. Len(d.q) > 0 /\ k - 1 > 0
      BY <1>0, <1>3, <2>3, <3>1
    <3>4. C!SecondReset(d)
      BY <1>8, <3>2, <3>3 DEF C!SecondReset
    <3> QED BY <1>6, <1>7, <3>3, <3>4
  <2> QED BY <2>2, <2>3
<1> QED BY <1>1, <1>9, <1>10

(* Any functor, on the loop.                                               *)
LEMMA RunFunctorKeeps ==
    ASSUME NEW r, Typed(r), NEW k \in Nat, Len(r.q) > 0, r.next = "return", RoundSound(r, k, TRUE),
           NEW d \in C!RunFunctor([r EXCEPT !.q = Tail(@)], Head(r.q))
    PROVE  Typed(d) /\ Len(r.q) <= Len(d.q) + 1 /\ RoundSound(d, k - 1, k - 1 > 0)
<1> DEFINE p == [r EXCEPT !.q = Tail(@)]
           f == Head(r.q)
<1>0. d \in C!RunFunctor(p, f)
  OBVIOUS
<1>1. Popped(r, p) /\ f = r.q[1] /\ 1 \in 1..Len(r.q)
  BY PoppedIs
<1> HIDE DEF p, f
<1>2. /\ Typed(p) /\ Len(r.q) \in Nat /\ Len(p.q) \in Nat /\ p.next = "return" /\ p.cst = r.cst
      /\ p.overlap = r.overlap /\ Len(p.q) + 1 = Len(r.q)
  BY <1>1, ClientFields DEF Typed, Popped, SameChannels
<1>3. f \in FunctorSet /\ f.op \in C!FunctorOps
  BY <1>1, ClientFields DEF Typed, FunctorSet
<1>4. f.op \in {"shutdown", "force_close", "destroyed"} => f.n \in C!Socks
  BY <1>1 DEF Typed, C!NamesSocket
<1>5. ASSUME f.op # "reset" PROVE Leads(p, k - 1, d)
  <2>1. Sound(p, k - 1)
    BY <1>1, <1>5, PoppedSound
  <2>2. CASE f.op = "start"
    <3>1. d \in C!StartInloop(p)
      BY <1>0, <2>2 DEF C!RunFunctor
    <3> QED BY <1>2, <2>1, <3>1, StartInloopLeads
  <2>3. CASE f.op = "stop"
    <3>1. d = C!StopInloop(p)
      BY <1>0, <2>3 DEF C!RunFunctor
    <3> QED BY <1>2, <2>1, <3>1, StopInloopLeads
  <2>4. CASE f.op = "force_close"
    <3>1. d \in C!ForceCloseInloop(p, f.n)
      BY <1>0, <2>4 DEF C!RunFunctor
    <3> QED BY <1>2, <1>4, <2>1, <2>4, <3>1, ForceCloseInloopLeads
  <2>5. CASE f.op = "destroyed"
    <3>1. d = C!ConnectDestroyed(p, f.n)
      BY <1>0, <2>5 DEF C!RunFunctor
    <3>2. ~p.overlap => p.cst[f.n] \in {"DISCONNECTED", "gone"}
      BY <1>1, <1>2, <2>5 DEF RoundSound, C!DestroysClosed
    <3> QED BY <1>2, <1>4, <2>1, <2>5, <3>1, <3>2, ConnectDestroyedLeads
  <2>6. CASE f.op = "shutdown"
    <3>1. d = p
      BY <1>0, <2>6 DEF C!RunFunctor
    <3> QED BY <1>2, <2>1, <3>1 DEF Leads
  <2> QED BY <1>3, <1>5, <2>2, <2>3, <2>4, <2>5, <2>6 DEF C!FunctorOps
<1>6. CASE f.op # "reset"
  <2>1. Leads(p, k - 1, d)
    BY <1>5, <1>6
  <2>2. Typed(d) /\ Len(d.q) \in Nat
    BY <2>1, ClientFields DEF Leads, Typed
  <2>3. Len(r.q) <= Len(d.q) + 1
    BY <1>2, <2>1, <2>2 DEF Leads
  <2> QED BY <2>1, <2>2, <2>3 DEF Leads, Sound, RoundSound
<1>7. CASE f.op = "reset"
  <2>1. d = C!Drop(p)
    BY <1>0, <1>7 DEF C!RunFunctor
  <2>2. Dropped(p, d)
    BY <1>2, <2>1, DropIs
  <2>3. ~d.overlap => /\ C!PollerHas(d) /\ C!DestroysClosed(d)
                      /\ C!ResetsRight(d, k - 1) \/ (k - 1 > 0 /\ C!SecondReset(d))
    BY <1>1, <1>7, <2>2, ResetSound
  <2>4. Typed(d) /\ Len(r.q) <= Len(d.q) + 1
    BY <1>2, <2>2 DEF Dropped
  <2> QED BY <2>3, <2>4 DEF RoundSound
<1> QED BY <1>6, <1>7

(* Any event the poller reports, on the loop.                              *)
LEMMA HandleEventLeads ==
    ASSUME NEW r, Typed(r), NEW n \in C!Socks, Sound(r, 0), C!Ready(r, n), NEW d \in C!HandleEvent(r, n)
    PROVE  Leads(r, Len(d.q), d)
<1>0. r \in C!Client /\ Len(r.q) \in Nat /\ r.chan \in 0..MaxSocks
  BY ClientFields DEF Typed
<1>1. CASE r.epoll[n] = "connector"
  <2>1. ~r.overlap => /\ C!PollerHas(r) /\ C!DestroysClosed(r) /\ C!ResetsRight(r, 0) /\ r.state = "CONNECTING"
                      /\ r.chan # C!None
    BY <1>1, SocketsAre DEF Sound, C!PollerHas
  <2>2. CASE r.sock[n] # "refused"
    <3>1. d \in C!HandleWrite(r)
      BY <1>1, <2>2 DEF C!HandleEvent
    <3> DEFINE h == 1
    <3>2. h \in {1, 2} /\ (h = 1 /\ r = r)
      OBVIOUS
    <3>3. ~r.overlap => /\ C!PollerHas(r) /\ C!DestroysClosed(r) /\ C!ResetsRight(r, 0) /\ r.state = "CONNECTING"
                        /\ (h = 1 /\ r = r) \/ (h = 2 /\ Took(r, r))
      BY <2>1, <3>2
    <3> HIDE DEF h
    <3> QED BY <1>0, <3>1, <3>2, <3>3, HandleWriteLeads
  <2>3. CASE r.sock[n] = "refused"
    <3> DEFINE e == C!HandleError(r)
               h == 2
    <3>1. d \in C!HandleWrite(e)
      BY <1>1, <2>3 DEF C!HandleEvent
    <3>2. e = IF r.state = "CONNECTING" THEN C!RemoveAndResetChannel(r) ELSE r
      BY DEF C!HandleError
    <3>3. h \in {1, 2} /\ h = 2
      OBVIOUS
    <3> HIDE DEF e, h
    <3>4. /\ Typed(e) /\ e.overlap = r.overlap /\ Len(r.q) <= Len(e.q)
          /\ r.state = "CONNECTING" /\ r.chan # C!None => Took(r, e)
      BY <1>0, <3>2, RemoveAndResetIs
    <3>5. ~r.overlap => /\ C!PollerHas(r) /\ C!DestroysClosed(r) /\ C!ResetsRight(r, 0) /\ r.state = "CONNECTING"
                        /\ (h = 1 /\ e = r) \/ (h = 2 /\ Took(r, e))
      BY <2>1, <3>3, <3>4
    <3> QED BY <3>1, <3>3, <3>4, <3>5, HandleWriteLeads
  <2> QED BY <2>2, <2>3
<1>2. CASE r.epoll[n] = "connection"
  <2>1. d \in C!HandleClose(r, n)
    BY <1>2 DEF C!HandleEvent
  <2>2. ~r.overlap => r.cst[n] \in {"CONNECTED", "DISCONNECTING"}
    BY <1>2 DEF Sound, C!PollerHas
  <2>3. ASSUME NEW k, k = Len(r.q) PROVE Leads(r, Len(d.q), d)
    <3>1. Sound(r, k)
      <4>1. \A j \in 1..Len(r.q) : j <= 0 => j <= k
        BY <1>0
      <4>2. C!ResetsRight(r, 0) => C!ResetsRight(r, k)
        BY <4>1 DEF C!ResetsRight
      <4> QED BY <4>2 DEF Sound
    <3>2. Leads(r, k, d)
      BY <2>1, <2>2, <3>1, HandleCloseLeads
    <3> QED BY <1>0, <2>3, <3>2, MoreResets
  <2> QED BY <2>3
<1> QED BY <1>1, <1>2 DEF C!Ready

------------------------------------------------------------------------------
(* The steps.                                                              *)
RoundOf(p, k, r) == IF p = "pending" THEN Len(r.q) ELSE k

RecordInv(r, p, k) ==
    /\ Typed(r) /\ p \in {"poll", "pending", "run"} /\ k \in 0..Len(r.q) /\ (p = "run" <=> k > 0)
    /\ RoundSound(r, RoundOf(p, k, r), p = "run")

CallsTyped ==
    /\ cpc \in [Callers -> [op : {"idle", "start", "stop", "disconnect"},
                            at : {"idle", "flag", "queue", "lock"}]]
    /\ \A t \in Callers : cpc[t].at \in {"flag", "queue"} => cpc[t].op \in {"start", "stop"}

(* ClientInv, as a property of the record and one of the calls.            *)
LEMMA ClientInvIs ==
    /\ C!ClientInv <=> RecordInv(c, io, batch) /\ CallsTyped
    /\ C!ClientInv' <=> RecordInv(c', io', batch') /\ CallsTyped'
<1>1. C!ClientInv <=> RecordInv(c, io, batch) /\ CallsTyped
  BY Zenon DEF C!ClientInv, RecordInv, CallsTyped, Typed, RoundSound, RoundOf
<1>2. C!ClientInv' <=> RecordInv(c', io', batch') /\ CallsTyped'
  BY Zenon DEF C!ClientInv, RecordInv, CallsTyped, Typed, RoundSound, RoundOf
<1> QED BY <1>1, <1>2

(* What keeps the channels and the queue keeps the invariant.              *)
LEMMA ActsRecord ==
    ASSUME NEW r, NEW p, NEW k, RecordInv(r, p, k), NEW d, Acts(r, d)
    PROVE  RecordInv(d, p, k)
<1>0. Typed(r) /\ Typed(d) /\ Len(r.q) \in Nat /\ Len(d.q) \in Nat /\ Len(r.q) <= Len(d.q)
      /\ p \in {"poll", "pending", "run"} /\ k \in 0..Len(r.q) /\ (p = "run" <=> k > 0)
  BY ClientFields DEF RecordInv, Acts, Typed
<1>1. k \in 0..Len(d.q)
  BY <1>0
<1>2. RoundSound(d, RoundOf(p, k, d), p = "run")
  <2> SUFFICES ASSUME ~d.overlap
               PROVE  /\ C!PollerHas(d) /\ C!DestroysClosed(d)
                      /\ C!ResetsRight(d, RoundOf(p, k, d)) \/ (p = "run" /\ C!SecondReset(d))
    BY DEF RoundSound
  <2>1. /\ C!PollerHas(r) /\ C!DestroysClosed(r)
        /\ C!ResetsRight(r, RoundOf(p, k, r)) \/ (p = "run" /\ C!SecondReset(r))
    BY DEF RecordInv, RoundSound, Acts, SameChannels
  <2>2. C!PollerHas(d) /\ C!DestroysClosed(d)
    BY <1>0, <2>1, ActsKeeps
  <2>3. C!ResetsRight(d, RoundOf(p, k, r)) \/ (p = "run" /\ C!SecondReset(d))
    BY <1>0, <2>1, ActsResets
  <2>4. \A j \in 1..Len(d.q) : j <= RoundOf(p, k, r) => j <= RoundOf(p, k, d)
    BY <1>0 DEF RoundOf
  <2>5. C!ResetsRight(d, RoundOf(p, k, r)) => C!ResetsRight(d, RoundOf(p, k, d))
    BY <2>4 DEF C!ResetsRight
  <2> QED BY <2>2, <2>3, <2>5
<1> QED BY <1>0, <1>1, <1>2 DEF RecordInv

(* The network changes the state of a socket that there is.                *)
LEMMA SockRecord ==
    ASSUME NEW r, NEW p, NEW k, RecordInv(r, p, k), NEW n \in C!Socks, r.sock[n] # "none",
           NEW v \in {"up", "refused", "closed"}, NEW u \in Nat
    PROVE  RecordInv([r EXCEPT !.sock[n] = v, !.refused = u], p, k)
<1> DEFINE x == [r.sock EXCEPT ![n] = v]
           d == [r EXCEPT !.sock = x, !.refused = u]
<1>0. r \in C!Client /\ C!NamesSocket(r) /\ r.sock \in [C!Socks -> {"none", "connecting", "up", "refused", "closed"}]
  BY ClientFields DEF RecordInv, Typed
<1>1. [r EXCEPT !.sock[n] = v, !.refused = u] = d
  OBVIOUS
<1>2. /\ x \in [C!Socks -> {"none", "connecting", "up", "refused", "closed"}]
      /\ \A m \in C!Socks : x[m] = IF m = n THEN v ELSE r.sock[m]
  BY <1>0
<1> HIDE DEF x
<1>3. d \in C!Client
  BY <1>0, <1>2, ZenonT(40) DEF C!Client
<1>4. /\ d.state = r.state /\ d.chan = r.chan /\ d.connection = r.connection /\ d.cst = r.cst /\ d.epoll = r.epoll
      /\ d.sock = x /\ d.next = r.next /\ d.wrong = r.wrong /\ d.overlap = r.overlap /\ d.q = r.q
  BY <1>0 DEF C!Client
<1> HIDE DEF d
<1>5. \A m \in C!Socks : d.sock[m] = "none" => r.sock[m] = "none"
  BY <1>2, <1>4
<1>6. C!PollerHas(r) => C!PollerHas(d)
  BY <1>4, <1>5 DEF C!PollerHas
<1>7. C!DestroysClosed(r) => C!DestroysClosed(d)
  BY <1>4 DEF C!DestroysClosed
<1>8. \A j : C!ResetsRight(r, j) => C!ResetsRight(d, j)
  BY <1>4 DEF C!ResetsRight, C!Resets
<1>9. C!SecondReset(r) => C!SecondReset(d)
  BY <1>4 DEF C!SecondReset, C!Resets
<1>10. RoundSound(r, RoundOf(p, k, r), p = "run") => RoundSound(d, RoundOf(p, k, d), p = "run")
  <2>1. RoundOf(p, k, d) = RoundOf(p, k, r)
    BY <1>4 DEF RoundOf
  <2> QED BY <1>4, <1>6, <1>7, <1>8, <1>9, <2>1, Zenon DEF RoundSound
<1>11. Typed(d)
  BY <1>0, <1>3, <1>4 DEF Typed, C!NamesSocket
<1>12. RecordInv(d, p, k)
  BY <1>4, <1>10, <1>11 DEF RecordInv
<1> QED BY <1>1, <1>12, Zenon

(* restart and its call of start_inloop.                                   *)
LEMMA NextSound ==
    ASSUME NEW r, Typed(r), NEW k, Sound(r, k), r.next # "return", NEW d \in C!Client,
           d.state \in {r.state, "DISCONNECTED"}, d.chan = r.chan, d.connection = r.connection, d.cst = r.cst,
           d.epoll = r.epoll, d.sock = r.sock, d.wrong = r.wrong, d.overlap = r.overlap, d.q = r.q
    PROVE  Leads(r, k, d)
<1>1. Typed(d) /\ Len(r.q) \in Nat
  BY ClientFields DEF Typed, C!NamesSocket
<1>2. Sound(d, k)
  <2> SUFFICES ASSUME ~d.overlap PROVE C!PollerHas(d) /\ C!DestroysClosed(d) /\ C!ResetsRight(d, k)
    BY DEF Sound
  <2>1. C!PollerHas(r) /\ C!DestroysClosed(r) /\ C!ResetsRight(r, k)
    BY DEF Sound
  <2>2. r.state # "CONNECTING" /\ \A n \in C!Socks : r.epoll[n] # "connector"
    BY <2>1 DEF C!PollerHas
  <2>3. C!PollerHas(d)
    BY <2>1, <2>2 DEF C!PollerHas
  <2> QED BY <2>1, <2>3 DEF C!DestroysClosed, C!ResetsRight, C!Resets
<1> QED BY <1>1, <1>2 DEF Leads

(* connector::restart.                                                     *)
LEMMA RestartLeads ==
    ASSUME NEW r, Typed(r), NEW k, Sound(r, k), r.next # "return"
    PROVE  Leads(r, k, C!Restart(r))
<1> DEFINE d == C!Restart(r)
<1>0. r \in C!Client
  BY DEF Typed
<1>1. d \in C!Client
  BY <1>0, ZenonT(40) DEF C!Client, C!Restart
<1>2. /\ d.state = "DISCONNECTED" /\ d.chan = r.chan /\ d.connection = r.connection /\ d.cst = r.cst
      /\ d.epoll = r.epoll /\ d.sock = r.sock /\ d.wrong = r.wrong /\ d.overlap = r.overlap /\ d.q = r.q
  BY <1>0 DEF C!Client, C!Restart
<1> HIDE DEF d
<1>3. Leads(r, k, d)
  BY <1>1, <1>2, NextSound
<1> QED BY <1>3 DEF d

(* The call of start_inloop that follows it.                               *)
LEMMA ReturnLeads ==
    ASSUME NEW r, Typed(r), NEW k, Sound(r, k), r.next # "return"
    PROVE  LET d == [r EXCEPT !.next = "return"] IN Leads(r, k, d) /\ d.next = "return" /\ d.q = r.q
<1> DEFINE d == [r EXCEPT !.next = "return"]
<1>0. r \in C!Client
  BY DEF Typed
<1>1. d \in C!Client
  BY <1>0, ZenonT(40) DEF C!Client
<1>2. /\ d.state = r.state /\ d.chan = r.chan /\ d.connection = r.connection /\ d.cst = r.cst
      /\ d.epoll = r.epoll /\ d.sock = r.sock /\ d.wrong = r.wrong /\ d.overlap = r.overlap /\ d.q = r.q
      /\ d.next = "return"
  BY <1>0 DEF C!Client
<1> HIDE DEF d
<1>3. Leads(r, k, d) /\ d.next = "return" /\ d.q = r.q
  BY <1>1, <1>2, NextSound
<1> QED BY <1>3 DEF d

(* The calls of other threads keep the invariant.                          *)
LEMMA CallsKeep ==
    ASSUME RecordInv(c, io, batch), CallsTyped, NEW t \in Callers, C!ThreadStep(t)
    PROVE  RecordInv(c', io', batch') /\ CallsTyped'
<1>0. Typed(c) /\ c \in C!Client /\ c.connection \in 0..MaxSocks
  BY ClientFields DEF RecordInv, Typed
<1>1. ASSUME NEW op \in {"start", "stop", "disconnect"}, C!Call(t, op)
      PROVE  RecordInv(c', io', batch') /\ CallsTyped'
  <2>1. c' = [c EXCEPT !.want = (op = "start"), !.go = c.go, !.gaveUp = c.gaveUp]
    BY <1>0, <1>1, FlagsAre, ZenonT(40) DEF C!Call
  <2>2. Acts(c, c')
    BY <1>0, <2>1, FlagsAct, FlagsAre
  <2>3. RecordInv(c', io, batch)
    BY <2>2, ActsRecord
  <2>4. CallsTyped'
    BY <1>1 DEF CallsTyped, C!Call
  <2> QED BY <1>1, <2>3, <2>4, SMTT(40) DEF C!Call
<1>2. ASSUME C!CallFlag(t)
      PROVE  RecordInv(c', io', batch') /\ CallsTyped'
  <2>1. c' = [c EXCEPT !.want = c.want, !.go = (cpc[t].op = "start"), !.gaveUp = c.gaveUp]
    BY <1>0, <1>2, FlagsAre, ZenonT(40) DEF C!CallFlag
  <2>2. Acts(c, c')
    BY <1>0, <2>1, FlagsAct, FlagsAre
  <2>3. RecordInv(c', io, batch)
    BY <2>2, ActsRecord
  <2>4. CallsTyped'
    BY <1>2 DEF CallsTyped, C!CallFlag
  <2> QED BY <1>2, <2>3, <2>4, SMTT(40) DEF C!CallFlag
<1>3. ASSUME C!CallEnd(t)
      PROVE  RecordInv(c', io', batch') /\ CallsTyped'
  <2>1. Acts(c, c')
    <3>1. CASE cpc[t].at = "lock"
      BY <1>0, <1>3, <3>1, ShutdownActs DEF C!CallEnd
    <3>2. CASE cpc[t].at # "lock"
      <4> DEFINE op == cpc[t].op
      <4>1. c' = C!Queue(c, op, C!None) /\ op \in {"start", "stop"}
        BY <1>3, <3>2 DEF C!CallEnd, CallsTyped
      <4>2. op \in C!FunctorOps \ {"reset", "destroyed"} /\ op \notin {"shutdown", "force_close"} /\ C!None \in 0..MaxSocks
        BY <4>1, SocketsAre DEF C!FunctorOps
      <4> HIDE DEF op
      <4> QED BY <1>0, <4>1, <4>2, QueueActs
    <3> QED BY <3>1, <3>2
  <2>2. RecordInv(c', io, batch)
    BY <2>1, ActsRecord
  <2>3. CallsTyped'
    BY <1>3 DEF CallsTyped, C!CallEnd
  <2> QED BY <1>3, <2>2, <2>3 DEF C!CallEnd
<1> QED BY <1>1, <1>2, <1>3 DEF C!ThreadStep

(* So do the network and the server.                                       *)
LEMMA NetKeeps ==
    ASSUME RecordInv(c, io, batch), CallsTyped, NEW n \in C!Socks, C!NetStep(n) \/ C!ServerCloses(n)
    PROVE  RecordInv(c', io', batch') /\ CallsTyped'
<1>0. c \in C!Client /\ c.refused \in Nat
  BY ClientFields DEF RecordInv, Typed
<1>1. PICK v \in {"up", "refused", "closed"}, u \in Nat : c' = [c EXCEPT !.sock[n] = v, !.refused = u]
  <2>1. [c EXCEPT !.sock[n] = "up"] = [c EXCEPT !.sock[n] = "up", !.refused = c.refused]
    BY <1>0 DEF C!Client
  <2>2. [c EXCEPT !.sock[n] = "closed"] = [c EXCEPT !.sock[n] = "closed", !.refused = c.refused]
    BY <1>0 DEF C!Client
  <2>3. CASE C!Accepted(n)
    BY <1>0, <2>1, <2>3 DEF C!Accepted
  <2>4. CASE C!Refused(n)
    <3>1. c' = [c EXCEPT !.sock[n] = "refused", !.refused = c.refused + 1] /\ c.refused + 1 \in Nat
      BY <1>0, <2>4 DEF C!Refused
    <3> QED BY <3>1, Zenon
  <2>5. CASE C!ServerCloses(n)
    BY <1>0, <2>2, <2>5 DEF C!ServerCloses
  <2> QED BY <2>3, <2>4, <2>5 DEF C!NetStep
<1>2. c.sock[n] # "none"
  BY DEF C!NetStep, C!Accepted, C!Refused, C!ServerCloses
<1>3. RecordInv(c', io, batch)
  BY <1>1, <1>2, SockRecord
<1>4. UNCHANGED <<io, batch, cpc>>
  BY DEF C!NetStep, C!Accepted, C!Refused, C!ServerCloses
<1> QED BY <1>3, <1>4 DEF CallsTyped

(* And so does the loop.                                                   *)
LEMMA LoopKeeps ==
    ASSUME RecordInv(c, io, batch), C!LoopStep
    PROVE  RecordInv(c', io', batch')
<1>0. /\ Typed(c) /\ c \in C!Client /\ Len(c.q) \in Nat /\ io \in {"poll", "pending", "run"}
      /\ batch \in 0..Len(c.q) /\ batch \in Nat /\ (io = "run" <=> batch > 0)
      /\ RoundSound(c, RoundOf(io, batch, c), io = "run")
  BY ClientFields DEF RecordInv, Typed
<1>1. CASE C!RestartNow
  <2> DEFINE k == RoundOf(io, batch, c)
  <2>1. c.next # "return" /\ UNCHANGED <<io, batch>>
    BY <1>1 DEF C!RestartNow
  <2>2. Sound(c, k)
    BY <1>0, <2>1 DEF RoundSound, C!SecondReset, Sound
  <2>3. k = RoundOf(io, batch, c)
    OBVIOUS
  <2> HIDE DEF k
  <2>4. Leads(c, k, c')
    <3>1. CASE c.next = "restart" /\ c' = C!Restart(c)
      BY <1>0, <2>1, <2>2, <3>1, RestartLeads
    <3>2. CASE c.next = "start" /\ c' \in C!StartInloop([c EXCEPT !.next = "return"])
      <4> DEFINE b == [c EXCEPT !.next = "return"]
      <4>1. c' \in C!StartInloop(b)
        BY <3>2
      <4>2. Leads(c, k, b) /\ b.next = "return" /\ b.q = c.q
        BY <1>0, <2>1, <2>2, ReturnLeads
      <4> HIDE DEF b
      <4>3. Leads(b, k, c')
        BY <4>1, <4>2, StartInloopLeads DEF Leads
      <4> QED BY <4>2, <4>3 DEF Leads
    <3> QED BY <1>1, <3>1, <3>2 DEF C!RestartNow
  <2>5. Typed(c') /\ Sound(c', k) /\ Len(c.q) <= Len(c'.q) /\ Len(c'.q) \in Nat
    BY <2>4, ClientFields DEF Leads, Typed
  <2>6. batch \in 0..Len(c'.q)
    BY <1>0, <2>5
  <2>7. Sound(c', RoundOf(io, batch, c'))
    <3>1. \A j \in 1..Len(c'.q) : j <= k => j <= RoundOf(io, batch, c')
      BY <1>0, <2>3, <2>5 DEF RoundOf
    <3>2. C!ResetsRight(c', k) => C!ResetsRight(c', RoundOf(io, batch, c'))
      BY <3>1 DEF C!ResetsRight
    <3> QED BY <2>5, <3>2 DEF Sound
  <2>8. RoundSound(c', RoundOf(io, batch, c'), io = "run")
    BY <2>7 DEF Sound, RoundSound
  <2> QED BY <1>0, <2>1, <2>5, <2>6, <2>8 DEF RecordInv
<1>2. CASE C!Poll
  <2>1. io = "poll" /\ io' = "pending" /\ batch' = batch /\ batch = 0
    BY <1>0, <1>2 DEF C!Poll
  <2>2. Sound(c, 0)
    BY <1>0, <2>1 DEF RoundSound, Sound, RoundOf
  <2>3. Typed(c') /\ Sound(c', Len(c'.q))
    <3>1. CASE \E n \in C!Socks : C!Ready(c, n) /\ c' \in C!HandleEvent(c, n)
      BY <1>0, <2>2, <3>1, HandleEventLeads DEF Leads
    <3>2. CASE c' = c
      <4>1. \A j \in 1..Len(c.q) : j <= 0 => j <= Len(c.q)
        BY <1>0
      <4>2. C!ResetsRight(c, 0) => C!ResetsRight(c, Len(c.q))
        BY <4>1 DEF C!ResetsRight
      <4>3. Sound(c, Len(c.q))
        BY <2>2, <4>2 DEF Sound
      <4> QED BY <1>0, <3>2, <4>3
    <3> QED BY <1>2, <3>1, <3>2 DEF C!Poll
  <2>4. Len(c'.q) \in Nat
    BY <2>3, ClientFields DEF Typed
  <2>5. RoundSound(c', RoundOf(io', batch', c'), io' = "run")
    BY <2>1, <2>3 DEF Sound, RoundSound, RoundOf
  <2>6. batch' \in 0..Len(c'.q) /\ (io' = "run" <=> batch' > 0) /\ io' \in {"poll", "pending", "run"}
    BY <2>1, <2>4
  <2> QED BY <2>3, <2>5, <2>6 DEF RecordInv
<1>3. CASE C!Swap
  <2>1. io = "pending" /\ batch' = Len(c.q) /\ io' = (IF c.q = <<>> THEN "poll" ELSE "run") /\ c' = c
    BY <1>3 DEF C!Swap
  <2>2. Sound(c, Len(c.q))
    BY <1>0, <2>1 DEF RoundSound, Sound, RoundOf
  <2>3. RoundOf(io', batch', c') = Len(c.q)
    BY <2>1 DEF RoundOf
  <2>4. RoundSound(c', RoundOf(io', batch', c'), io' = "run")
    BY <2>1, <2>2, <2>3 DEF Sound, RoundSound
  <2>5. c.q = <<>> <=> Len(c.q) = 0
    BY <1>0, ClientFields, EmptySeq
  <2>6. batch' \in 0..Len(c'.q) /\ (io' = "run" <=> batch' > 0) /\ io' \in {"poll", "pending", "run"}
    BY <1>0, <2>1, <2>5
  <2> QED BY <1>0, <2>1, <2>4, <2>6 DEF RecordInv
<1>4. CASE C!Run /\ c.next = "return"
  <2>1. /\ io = "run" /\ batch' = batch - 1 /\ io' = (IF batch = 1 THEN "poll" ELSE "run")
        /\ c' \in C!RunFunctor([c EXCEPT !.q = Tail(@)], Head(c.q)) /\ Len(c.q) > 0
    BY <1>0, <1>4 DEF C!Run
  <2>2. RoundSound(c, batch, TRUE)
    BY <1>0, <2>1 DEF RoundSound, RoundOf
  <2>3. Typed(c') /\ Len(c.q) <= Len(c'.q) + 1 /\ RoundSound(c', batch - 1, batch - 1 > 0)
    BY <1>0, <1>4, <2>1, <2>2, RunFunctorKeeps
  <2>4. Len(c'.q) \in Nat
    BY <2>3, ClientFields DEF Typed
  <2>5. batch' \in 0..Len(c'.q) /\ (io' = "run" <=> batch' > 0) /\ io' \in {"poll", "pending", "run"}
    BY <1>0, <2>1, <2>3, <2>4
  <2>6. RoundOf(io', batch', c') = batch - 1 /\ (batch - 1 > 0 <=> io' = "run")
    BY <1>0, <2>1 DEF RoundOf
  <2>7. RoundSound(c', RoundOf(io', batch', c'), io' = "run")
    BY <2>3, <2>6 DEF RoundSound
  <2> QED BY <2>3, <2>5, <2>7 DEF RecordInv
<1> QED BY <1>1, <1>2, <1>3, <1>4 DEF C!LoopStep

(* The invariant holds at the start ...                                    *)
LEMMA ClientInit ==
    C!Init => C!ClientInv
<1> SUFFICES ASSUME C!Init PROVE RecordInv(c, io, batch) /\ CallsTyped
  BY ClientInvIs
<1>1. /\ c.q = <<>> /\ c.next = "return" /\ ~c.wrong /\ c.state = "DISCONNECTED" /\ c.chan = C!None
      /\ \A n \in C!Socks : c.cst[n] = "none" /\ c.epoll[n] = "none"
  BY DEF C!Init
<1>2. c \in C!Client
  <2>1. <<>> \in Seq([op : C!FunctorOps, n : 0..MaxSocks]) /\ C!None \in 0..MaxSocks /\ 0 \in Nat
    BY SocketsAre
  <2> QED BY <2>1 DEF C!Init, C!Client
<1>3. Len(c.q) = 0
  BY <1>1
<1>4. Typed(c)
  BY <1>2, <1>3 DEF Typed, C!NamesSocket
<1>5. C!PollerHas(c) /\ C!DestroysClosed(c) /\ \A k : C!ResetsRight(c, k)
  BY <1>1, <1>3 DEF C!PollerHas, C!DestroysClosed, C!ResetsRight
<1>6. RecordInv(c, io, batch)
  <2>1. RoundSound(c, RoundOf(io, batch, c), io = "run")
    BY <1>5 DEF RoundSound
  <2>2. io = "poll" /\ batch = 0 /\ batch \in 0..Len(c.q)
    BY <1>3 DEF C!Init
  <2> QED BY <1>4, <2>1, <2>2 DEF RecordInv
<1>7. CallsTyped
  BY DEF C!Init, CallsTyped
<1> QED BY <1>6, <1>7

(* ... and every step keeps it.                                            *)
LEMMA ClientNext ==
    C!ClientInv /\ [C!Next]_(C!vars) => C!ClientInv'
<1> SUFFICES ASSUME RecordInv(c, io, batch), CallsTyped, [C!Next]_(C!vars)
             PROVE  RecordInv(c', io', batch') /\ CallsTyped'
  BY ClientInvIs
<1>1. CASE C!LoopStep
  <2>1. cpc' = cpc
    BY <1>1 DEF C!LoopStep, C!RestartNow, C!Poll, C!Swap, C!Run
  <2> QED BY <1>1, <2>1, LoopKeeps DEF CallsTyped
<1>2. CASE \E t \in Callers : C!ThreadStep(t)
  BY <1>2, CallsKeep
<1>3. CASE \E n \in C!Socks : C!NetStep(n) \/ C!ServerCloses(n)
  BY <1>3, NetKeeps
<1>4. CASE UNCHANGED C!vars
  BY <1>4 DEF C!vars, CallsTyped
<1> QED BY <1>1, <1>2, <1>3, <1>4 DEF C!Next

(* For any number of callers, sockets, calls and refusals: no channel goes *)
(* while the poller has it, none is missing when it is used, and at most   *)
(* one is registered (connector.cc, tcp_client.cc), unless the user        *)
(* starts again while an earlier connect is still there.                   *)
THEOREM ClientChannels == C!Spec => []ChannelsSound
<1>1. C!ClientInv => ChannelsSound
  <2> SUFFICES ASSUME C!ClientInv, ~c.overlap
               PROVE  /\ ~c.wrong
                      /\ \A n \in C!Socks :
                          /\ c.epoll[n] = "connector" => c.chan = n /\ c.state = "CONNECTING"
                          /\ c.epoll[n] = "connection" => c.connection = n /\ c.chan \in {C!None, n}
                      /\ c.chan # C!None => \/ c.epoll[c.chan] = "connector"
                                            \/ \E i \in DOMAIN c.q : c.q[i].op = "reset"
    BY DEF ChannelsSound, C!ChannelsSound
  <2>1. RecordInv(c, io, batch)
    BY ClientInvIs
  <2>2. C!PollerHas(c)
    BY <2>1 DEF RecordInv, RoundSound
  <2>3. c.chan # C!None /\ c.epoll[c.chan] # "connector" => \E i \in 1..Len(c.q) : C!Resets(c, i)
    BY <2>1 DEF RecordInv, RoundSound, C!ResetsRight, C!SecondReset
  <2>4. DOMAIN c.q = 1..Len(c.q)
    BY <2>1, ClientFields, LenProperties DEF RecordInv, Typed
  <2> QED BY <2>2, <2>3, <2>4 DEF C!PollerHas, C!Resets
<1> QED BY <1>1, ClientInit, ClientNext, PTL DEF C!Spec
==============================================================================
