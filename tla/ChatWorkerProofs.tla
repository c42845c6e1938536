-------------------------- MODULE ChatWorkerProofs --------------------------
(***************************************************************************)
(* The worker thread of the chat server, for any messages, io threads,     *)
(* connections and users: logic_system, which hands it the messages        *)
(* (LogicSystem), and the database methods its callbacks run over the pool *)
(* of connections (MysqlDao).                                              *)
(***************************************************************************)
EXTENDS LogicSystem, MysqlDao, FiniteSetTheorems, FunctionTheorems, SequenceTheorems, TLAPS

------------------------------------------------------------------------------
(* logic_system: the worker never sleeps through a message or the stop,    *)
(* never touches an empty queue, and finishes the messages once each and   *)
(* in order.                                                               *)

(* Every step keeps the types.                                             *)
LEMMA TypeStep == LogicTypeOK /\ HeadInv /\ [LogicNext]_logicVars => LogicTypeOK'
<1> SUFFICES ASSUME LogicTypeOK, HeadInv, [LogicNext]_logicVars PROVE LogicTypeOK'
  OBVIOUS
<1>0. /\ msg_que \in Seq(LogicNodes) /\ wpc \in WorkerPC /\ accepted \in SUBSET LogicNodes
      /\ late \in SUBSET LogicNodes /\ called \in [LogicNodes -> Nat] /\ finished \in Seq(LogicNodes)
      /\ tpc \in [Posters -> {"idle", "notify"}]
      /\ dtor \in {"alive", "called", "joining", "gone"}
      /\ b_stop \in BOOLEAN
  BY DEF LogicTypeOK
<1>a. b_stop' \in BOOLEAN
  BY <1>0, Zenon DEF LogicNext, DealMsg, DtorStep, logicVars, Acquire, SkipUnknown, StartCall,
     EndCall, DrainDone, WaitReturns, DtorCalled, DtorStop, DtorJoin, PostNotify, PostMsg
<1>1. ASSUME NEW t \in Posters, NEW m \in LogicNodes, PostMsg(t, m)
      PROVE  LogicTypeOK'
  <2>1. msg_que' \in Seq(LogicNodes)
    BY <1>0, <1>1 DEF PostMsg
  <2>2. tpc' \in [Posters -> {"idle", "notify"}]
    BY <1>0, <1>1 DEF PostMsg
  <2>3. accepted' \in SUBSET LogicNodes /\ late' \in SUBSET LogicNodes
    BY <1>0, <1>1 DEF PostMsg
  <2> QED
    BY <1>0, <1>a, <1>1, <2>1, <2>2, <2>3 DEF PostMsg, LogicTypeOK
<1>2. ASSUME NEW t \in Posters, PostNotify(t)
      PROVE  LogicTypeOK'
  BY <1>0, <1>a, <1>2 DEF PostNotify, WakeWorker, LogicTypeOK, WorkerPC
<1>3. CASE Acquire \/ WaitReturns \/ DrainDone
  BY <1>0, <1>a, <1>3 DEF Acquire, WaitReturns, DrainDone, LogicTypeOK, WorkerPC
<1>4. ASSUME msg_que # <<>>, Pop
      PROVE  msg_que' \in Seq(LogicNodes) /\ finished' \in Seq(LogicNodes)
  BY <1>0, <1>4 DEF Pop
<1>5. CASE SkipUnknown
  <2>1. msg_que # <<>> /\ Pop
    BY <1>5 DEF SkipUnknown
  <2> QED
    BY <1>0, <1>a, <1>4, <1>5, <2>1 DEF SkipUnknown, LogicTypeOK, WorkerPC
<1>6. CASE StartCall
  <2>1. Head(msg_que) \in LogicNodes
    BY <1>0, <1>6 DEF StartCall
  <2> QED
    BY <1>0, <1>a, <1>6, <2>1 DEF StartCall, LogicTypeOK, WorkerPC
<1>7. CASE EndCall
  <2>1. msg_que # <<>> /\ Pop
    BY <1>7 DEF EndCall, HeadInv
  <2> QED
    BY <1>0, <1>a, <1>4, <1>7, <2>1 DEF EndCall, LogicTypeOK, WorkerPC
<1>8. CASE DtorCalled \/ DtorStop \/ DtorJoin
  BY <1>0, <1>a, <1>8 DEF DtorCalled, DtorStop, DtorJoin, WakeWorker, LogicTypeOK, WorkerPC
<1>9. CASE UNCHANGED logicVars
  BY <1>0, <1>a, <1>9 DEF logicVars, LogicTypeOK
<1> QED
  BY <1>1, <1>2, <1>3, <1>5, <1>6, <1>7, <1>8, <1>9 DEF LogicNext, DealMsg, DtorStep

(* Whoever leaves the worker waiting leaves a notification behind.         *)
LEMMA WakeupStep ==
  IndInv /\ [LogicNext]_logicVars => HeadInv' /\ NoLostWakeup'
<1> SUFFICES ASSUME IndInv, [LogicNext]_logicVars PROVE HeadInv' /\ NoLostWakeup'
  OBVIOUS
<1>0. /\ msg_que \in Seq(LogicNodes) /\ wpc \in WorkerPC /\ HeadInv /\ NoLostWakeup
      /\ tpc \in [Posters -> {"idle", "notify"}]
  BY DEF IndInv, LogicTypeOK
<1>1. ASSUME NEW t \in Posters, NEW m \in LogicNodes, PostMsg(t, m)
      PROVE  HeadInv' /\ NoLostWakeup'
  <2>1. /\ wpc' = wpc /\ b_stop' = b_stop /\ msg_que' = Append(msg_que, m) /\ msg_que' # <<>>
        /\ wpc \notin {"serve", "call", "draincall"}
    BY <1>0, <1>1 DEF PostMsg, Held
  <2>2. CASE msg_que = <<>>
    <3>1. Len(msg_que') = 1
      BY <1>0, <2>1, <2>2
    <3>2. tpc'[t] = "notify"
      BY <1>0, <1>1, <3>1 DEF PostMsg
    <3> QED
      BY <1>0, <2>1, <3>2 DEF HeadInv, NoLostWakeup
  <2>3. CASE msg_que # <<>>
    <3>1. Len(msg_que') # 1
      BY <1>0, <2>1, <2>3
    <3>2. tpc' = [tpc EXCEPT ![t] = "idle"] /\ tpc[t] = "idle"
      BY <1>1, <3>1 DEF PostMsg
    <3>3. \A u \in Posters : tpc[u] = "notify" => tpc'[u] = "notify"
      BY <1>0, <3>2
    <3> QED
      BY <1>0, <2>1, <2>3, <3>3 DEF HeadInv, NoLostWakeup
  <2> QED
    BY <2>2, <2>3
<1>2. ASSUME NEW t \in Posters, PostNotify(t)
      PROVE  HeadInv' /\ NoLostWakeup'
  BY <1>0, <1>2 DEF PostNotify, WakeWorker, HeadInv, NoLostWakeup, WorkerPC
<1>3. CASE Acquire
  BY <1>0, <1>3 DEF Acquire, HeadInv, NoLostWakeup
<1>4. CASE WaitReturns \/ DrainDone
  BY <1>0, <1>4 DEF WaitReturns, DrainDone, HeadInv, NoLostWakeup
<1>5. CASE SkipUnknown
  BY <1>0, <1>5 DEF SkipUnknown, HeadInv, NoLostWakeup
<1>6. CASE StartCall
  BY <1>0, <1>6 DEF StartCall, HeadInv, NoLostWakeup
<1>7. CASE EndCall
  BY <1>0, <1>7 DEF EndCall, HeadInv, NoLostWakeup
<1>8. CASE DtorStop
  BY <1>0, <1>8 DEF DtorStop, WakeWorker, Held, HeadInv, NoLostWakeup, WorkerPC
<1>9. CASE DtorCalled \/ DtorJoin \/ UNCHANGED logicVars
  BY <1>0, <1>9 DEF DtorCalled, DtorJoin, logicVars, HeadInv, NoLostWakeup
<1> QED
  BY <1>1, <1>2, <1>3, <1>4, <1>5, <1>6, <1>7, <1>8, <1>9 DEF LogicNext, DealMsg, DtorStep

(* The inductive invariant holds.                                          *)
THEOREM Inductive == LogicSpec => []IndInv
<1>1. LogicInit => IndInv
  <2> SUFFICES ASSUME LogicInit PROVE IndInv
    OBVIOUS
  <2>1. b_stop \in BOOLEAN
    BY Zenon DEF LogicInit
  <2>2. LogicTypeOK
    BY <2>1 DEF LogicInit, LogicTypeOK, WorkerPC
  <2> QED
    BY <2>2 DEF LogicInit, IndInv, HeadInv, NoLostWakeup
<1>2. IndInv /\ [LogicNext]_logicVars => IndInv'
  BY TypeStep, WakeupStep DEF IndInv
<1> QED
  BY <1>1, <1>2, PTL DEF LogicSpec

(* The worker of logic_system waits only while nothing is queued, or with  *)
(* a notification on its way, and never once b_stop_ is set.               *)
THEOREM WorkerNeverSleepsThrough == LogicSpec => []NoLostWakeup
<1>1. IndInv => NoLostWakeup
  BY DEF IndInv
<1> QED
  BY <1>1, Inductive, PTL

(* deal_msg never takes the front of an empty queue.                       *)
THEOREM NeverEmptyFront == LogicSpec => []HeadInv
<1>1. IndInv => HeadInv
  BY DEF IndInv
<1> QED
  BY <1>1, Inductive, PTL

(* The messages are finished once each, in the order of the posts.         *)
THEOREM LogicImplementsContract == LogicSpec => ImplementsContract
<1>1. LogicInit => Contract!Init
  BY DEF LogicInit, Contract!Init
<1>2. IndInv /\ [LogicNext]_logicVars => [Contract!Next]_(Contract!cvars)
  <2> SUFFICES ASSUME IndInv, [LogicNext]_logicVars PROVE [Contract!Next]_(Contract!cvars)
    OBVIOUS
  <2>1. ASSUME NEW t \in Posters, NEW m \in LogicNodes, PostMsg(t, m)
        PROVE  Contract!Submit(m)
    BY <2>1 DEF PostMsg, Contract!Submit
  <2>2. CASE SkipUnknown \/ EndCall
    <3>1. msg_que # <<>> /\ Pop
      BY <2>2 DEF SkipUnknown, EndCall, IndInv, HeadInv
    <3>2. Contract!Finish
      BY <3>1 DEF Pop, Contract!Finish
    <3> QED
      BY <3>2 DEF Contract!Next
  <2>3. ASSUME \/ Acquire \/ StartCall \/ DrainDone \/ WaitReturns
               \/ DtorCalled \/ DtorStop \/ DtorJoin \/ UNCHANGED logicVars
               \/ \E t \in Posters : PostNotify(t)
        PROVE  UNCHANGED <<msg_que, finished>>
    BY <2>3, Zenon DEF Acquire, StartCall, DrainDone, WaitReturns, DtorCalled, DtorStop,
       DtorJoin, PostNotify, logicVars
  <2>4. CASE UNCHANGED <<msg_que, finished>>
    BY <2>4 DEF Contract!cvars
  <2> QED
    BY <2>1, <2>2, <2>3, <2>4 DEF LogicNext, DealMsg, DtorStep, Contract!Next
<1> QED
  BY <1>1, <1>2, Inductive, PTL DEF LogicSpec, ImplementsContract, Contract!Spec

------------------------------------------------------------------------------
(* mysql_dao and its pool of connections.                                  *)

(* Sequences without repetition: one element less, one more, at either end.*)
LEMMA TailOf ==
    ASSUME NEW S, NEW s \in Seq(S), s # <<>>
    PROVE  /\ Tail(s) \in Seq(S) /\ Head(s) \in S
           /\ ToSet(s) = {Head(s)} \union ToSet(Tail(s))
           /\ IsInjective(s) => IsInjective(Tail(s)) /\ Head(s) \notin ToSet(Tail(s))
           /\ Len(Tail(s)) = Len(s) - 1
<1>1. /\ Len(s) \in Nat /\ Len(s) > 0 /\ DOMAIN s = 1..Len(s)
      /\ Tail(s) \in Seq(S) /\ Len(Tail(s)) = Len(s) - 1 /\ DOMAIN Tail(s) = 1..(Len(s) - 1)
      /\ \A i \in 1..(Len(s) - 1) : Tail(s)[i] = s[i + 1]
      /\ Head(s) = s[1] /\ s[1] \in S
  OBVIOUS
<1>2. ToSet(s) = {Head(s)} \union ToSet(Tail(s))
  <2>1. ASSUME NEW i \in 1..Len(s)
        PROVE  s[i] = s[1] \/ \E j \in 1..(Len(s) - 1) : s[i] = Tail(s)[j]
    <3>1. CASE i = 1
      BY <3>1
    <3>2. CASE i # 1
      <4>1. i - 1 \in 1..(Len(s) - 1) /\ Tail(s)[i - 1] = s[i]
        BY <1>1, <3>2
      <4> QED BY <4>1
    <3> QED BY <3>1, <3>2
  <2>2. \A i \in 1..(Len(s) - 1) : \E j \in 1..Len(s) : Tail(s)[i] = s[j]
    BY <1>1
  <2>3. \E j \in 1..Len(s) : s[1] = s[j]
    BY <1>1
  <2>4. ToSet(s) = {s[i] : i \in 1..Len(s)} /\ ToSet(Tail(s)) = {Tail(s)[i] : i \in 1..(Len(s) - 1)}
    BY <1>1 DEF ToSet
  <2> QED BY <1>1, <2>1, <2>2, <2>3, <2>4, Zenon
<1>3. ASSUME IsInjective(s)
      PROVE  IsInjective(Tail(s)) /\ Head(s) \notin ToSet(Tail(s))
  <2>1. \A i, j \in 1..Len(s) : s[i] = s[j] => i = j
    BY <1>1, <1>3 DEF IsInjective
  <2>2. IsInjective(Tail(s))
    BY <1>1, <2>1 DEF IsInjective
  <2>3. \A i \in 1..(Len(s) - 1) : s[1] # Tail(s)[i]
    BY <1>1, <2>1
  <2> QED BY <1>1, <2>2, <2>3 DEF ToSet
<1> QED BY <1>1, <1>2, <1>3

(* An element more at the end.                                             *)
LEMMA AppendTo ==
    ASSUME NEW S, NEW s \in Seq(S), NEW x \in S
    PROVE  /\ Append(s, x) \in Seq(S) /\ Append(s, x) # <<>>
           /\ ToSet(Append(s, x)) = ToSet(s) \union {x}
           /\ IsInjective(s) /\ x \notin ToSet(s) => IsInjective(Append(s, x))
           /\ Len(Append(s, x)) = Len(s) + 1
<1> DEFINE t == Append(s, x)
<1>1. /\ Len(s) \in Nat /\ DOMAIN s = 1..Len(s)
      /\ t \in Seq(S) /\ Len(t) = Len(s) + 1 /\ DOMAIN t = 1..(Len(s) + 1)
      /\ \A i \in 1..Len(s) : t[i] = s[i]
      /\ t[Len(s) + 1] = x
  OBVIOUS
<1> HIDE DEF t
<1>2. ToSet(t) = ToSet(s) \union {x}
  <2>1. \A i \in 1..(Len(s) + 1) : i \in 1..Len(s) \/ i = Len(s) + 1
    BY <1>1
  <2>2. \A i \in 1..Len(s) : i \in 1..(Len(s) + 1)
    BY <1>1
  <2>3. Len(s) + 1 \in 1..(Len(s) + 1)
    BY <1>1
  <2> QED BY <1>1, <2>1, <2>2, <2>3 DEF ToSet
<1>3. ASSUME IsInjective(s), x \notin ToSet(s)
      PROVE  IsInjective(t)
  <2>1. \A i, j \in 1..Len(s) : s[i] = s[j] => i = j
    BY <1>1, <1>3 DEF IsInjective
  <2>2. \A i \in 1..Len(s) : s[i] # x
    BY <1>1, <1>3 DEF ToSet
  <2> QED BY <1>1, <2>1, <2>2 DEF IsInjective
<1> QED BY <1>1, <1>2, <1>3 DEF t

(* An element more at the front, which Tail takes away again.              *)
LEMMA ConsTo ==
    ASSUME NEW S, NEW s \in Seq(S), NEW x \in S
    PROVE  /\ <<x>> \o s \in Seq(S) /\ <<x>> \o s # <<>>
           /\ Tail(<<x>> \o s) = s
           /\ ToSet(<<x>> \o s) = ToSet(s) \union {x}
           /\ IsInjective(s) /\ x \notin ToSet(s) => IsInjective(<<x>> \o s)
<1> DEFINE t == <<x>> \o s
<1>1. /\ Len(s) \in Nat /\ DOMAIN s = 1..Len(s)
      /\ t \in Seq(S) /\ Len(t) = Len(s) + 1 /\ DOMAIN t = 1..(Len(s) + 1)
      /\ \A i \in 1..Len(s) : t[i + 1] = s[i]
      /\ t[1] = x
  OBVIOUS
<1>0. Tail(t) = s
  <2>1. Tail(t) \in Seq(S) /\ Len(Tail(t)) = Len(s) /\ \A i \in 1..Len(s) : Tail(t)[i] = t[i + 1]
    BY <1>1
  <2> HIDE DEF t
  <2>2. \A i \in 1..Len(s) : Tail(t)[i] = s[i]
    BY <1>1, <2>1
  <2> QED BY <1>1, <2>1, <2>2, SeqEqual
<1> HIDE DEF t
<1>2. t # <<>>
  BY <1>1
<1>3. ToSet(t) = ToSet(s) \union {x}
  <2>1. Head(t) = x
    BY <1>1, <1>2
  <2>2. ToSet(t) = {Head(t)} \union ToSet(Tail(t))
    BY <1>1, <1>2, TailOf
  <2> QED BY <1>0, <2>1, <2>2
<1>4. ASSUME IsInjective(s), x \notin ToSet(s)
      PROVE  IsInjective(t)
  <2>1. \A i, j \in 1..Len(s) : s[i] = s[j] => i = j
    BY <1>1, <1>4 DEF IsInjective
  <2>2. \A i \in 1..Len(s) : s[i] # x
    BY <1>1, <1>4 DEF ToSet
  <2>3. \A i \in 1..(Len(s) + 1) : i = 1 \/ (i - 1 \in 1..Len(s) /\ t[i] = s[i - 1])
    <3> SUFFICES ASSUME NEW i \in 1..(Len(s) + 1), i # 1
                 PROVE  i - 1 \in 1..Len(s) /\ t[i] = s[i - 1]
      OBVIOUS
    <3>1. i - 1 \in 1..Len(s) /\ (i - 1) + 1 = i
      BY <1>1
    <3> QED BY <1>1, <3>1
  <2>4. ASSUME NEW i \in 1..(Len(s) + 1), NEW j \in 1..(Len(s) + 1), t[i] = t[j]
        PROVE  i = j
    <3>1. CASE i = 1
      BY <1>1, <2>2, <2>3, <2>4, <3>1
    <3>2. CASE j = 1
      BY <1>1, <2>2, <2>3, <2>4, <3>2
    <3>3. CASE i # 1 /\ j # 1
      <4>1. i - 1 = j - 1
        BY <2>1, <2>3, <2>4, <3>3
      <4> QED BY <1>1, <4>1
    <3> QED BY <3>1, <3>2, <3>3
  <2> QED BY <1>1, <2>4 DEF IsInjective
<1> QED BY <1>0, <1>1, <1>2, <1>3, <1>4 DEF t

(* The queue the constructor fills has every connection, once.             *)
LEMMA InitialQueue ==
    /\ SetToSeq(Conns) \in Seq(Conns)
    /\ IsInjective(SetToSeq(Conns))
    /\ ToSet(SetToSeq(Conns)) = Conns
<1> DEFINE n == Cardinality(Conns)
<1>1. IsFiniteSet(Conns) /\ n \in Nat /\ ExistsBijection(1..n, Conns)
  BY PoolAssumption, FS_CardinalityType
<1>2. \E f \in [1..n -> Conns] : IsInjective(f)
  <2>1. PICK f : f \in Bijection(1..n, Conns)
    BY <1>1, Zenon DEF ExistsBijection
  <2>2. f \in Injection(1..n, Conns)
    BY <2>1, Fun_BijectionProperties
  <2>3. f \in [1..n -> Conns] /\ \A a, b \in 1..n : f[a] = f[b] => a = b
    BY <2>2, Fun_InjectionProperties
  <2> QED BY <2>3 DEF IsInjective
<1> DEFINE g == SetToSeq(Conns)
<1>3. g \in [1..n -> Conns] /\ IsInjective(g)
  BY <1>2, Zenon DEF SetToSeq
<1> HIDE DEF g, n
<1>4. g \in Injection(1..n, Conns)
  BY <1>3, Fun_IsInj DEF IsInjective
<1>5. IsFiniteSet(1..n) /\ Cardinality(1..n) = n
  BY <1>1, FS_Interval
<1>6. g \in Surjection(1..n, Conns)
  BY <1>1, <1>4, <1>5, FS_Injection DEF n
<1>7. ToSet(g) = Conns
  <2>1. \A c \in Conns : \E i \in 1..n : g[i] = c
    BY <1>6, Zenon DEF Surjection
  <2> QED BY <1>3, <2>1 DEF ToSet
<1>8. g \in Seq(Conns)
  BY <1>1, <1>3
<1> QED BY <1>3, <1>7, <1>8 DEF g

------------------------------------------------------------------------------
(* The pool, whatever its threads use it for.                              *)

PoolInv == PoolTypeOK /\ MutexHeld /\ EachOnce /\ NoIdleWhileWaiting

PoolAction(t) == GetConn(t) \/ PoolStep(t) \/ SpuriousWakeup(t) \/ PutConn(t) \/ GiveUp(t)

Entering(f) == {t \in Threads : f[t] = "enter"}

(* How a thread that moves changes the number of those on their way in.    *)
LEMMA CountChange ==
    ASSUME NEW f \in [Threads -> PoolPC], NEW t \in Threads, NEW v \in PoolPC
    PROVE  /\ Cardinality(Entering(f)) \in Nat
           /\ f[t] # "enter" /\ v = "enter"
                => Cardinality(Entering([f EXCEPT ![t] = v])) = Cardinality(Entering(f)) + 1
           /\ f[t] = "enter" /\ v # "enter"
                => Cardinality(Entering([f EXCEPT ![t] = v])) = Cardinality(Entering(f)) - 1
           /\ f[t] # "enter" /\ v # "enter"
                => Cardinality(Entering([f EXCEPT ![t] = v])) = Cardinality(Entering(f))
<1> DEFINE E == Entering(f)
           G == Entering([f EXCEPT ![t] = v])
<1>1. IsFiniteSet(E)
  BY PoolAssumption, FS_Subset DEF Entering
<1>2. Cardinality(E) \in Nat
  BY <1>1, FS_CardinalityType
<1>3. ASSUME f[t] # "enter", v = "enter"
      PROVE  Cardinality(G) = Cardinality(E) + 1
  <2>1. G = E \union {t} /\ t \notin E
    BY <1>3 DEF Entering
  <2> QED BY <1>1, <2>1, FS_AddElement
<1>4. ASSUME f[t] = "enter", v # "enter"
      PROVE  Cardinality(G) = Cardinality(E) - 1
  <2>1. G = E \ {t} /\ t \in E
    BY <1>4 DEF Entering
  <2> QED BY <1>1, <2>1, FS_RemoveElement
<1>5. ASSUME f[t] # "enter", v # "enter"
      PROVE  G = E
  BY <1>5 DEF Entering
<1> QED BY <1>2, <1>3, <1>4, <1>5

(* The pool as its constructor leaves it.                                  *)
LEMMA PoolInitInv == PoolInit => PoolInv
<1> SUFFICES ASSUME PoolInit PROVE PoolInv
  OBVIOUS
<1> USE DEF PoolInit
<1>1. PoolTypeOK
  <2>1. idle \in Seq(Conns) /\ held \in [Threads -> Seq(Conns)] /\ pc \in [Threads -> PoolPC]
    BY InitialQueue DEF PoolPC
  <2> QED BY <2>1 DEF PoolTypeOK
<1>2. MutexHeld
  BY PoolAssumption DEF MutexHeld
<1>3. EachOnce
  <2>1. \A t \in Threads : held[t] = <<>> /\ IsInjective(held[t]) /\ ToSet(held[t]) = {}
    BY DEF IsInjective, ToSet
  <2>2. IsInjective(idle) /\ ToSet(idle) = Conns
    BY InitialQueue
  <2>3. UNION {ToSet(held[t]) : t \in Threads} = {}
    BY <2>1, Zenon
  <2> QED BY <2>1, <2>2, <2>3, Zenon DEF EachOnce
<1>4. NoIdleWhileWaiting
  BY DEF NoIdleWhileWaiting, Waiting
<1> QED BY <1>1, <1>2, <1>3, <1>4 DEF PoolInv

(* Steps that leave the connections where they are keep EachOnce.          *)
LEMMA OnceUnmoved ==
    ASSUME EachOnce, UNCHANGED <<idle, held>>, stop => stop'
    PROVE  EachOnce'
BY Zenon DEF EachOnce

(* Steps that move a connection.                                           *)
LEMMA TakeOnce ==
    ASSUME PoolInv, NEW t \in Threads, Take(t)
    PROVE  EachOnce'
<1>1. /\ idle \in Seq(Conns) /\ idle # <<>> /\ held \in [Threads -> Seq(Conns)]
      /\ idle' = Tail(idle) /\ held' = [held EXCEPT ![t] = <<Head(idle)>> \o @]
      /\ stop' = stop
  BY DEF PoolInv, PoolTypeOK, Take
<1>2. EachOnce
  BY DEF PoolInv
<1> DEFINE x == Head(idle)
<1>3. /\ Tail(idle) \in Seq(Conns) /\ x \in Conns
      /\ ToSet(idle) = {x} \union ToSet(idle')
      /\ IsInjective(idle') /\ x \notin ToSet(idle')
  BY <1>1, <1>2, TailOf, Zenon DEF EachOnce
<1>4. /\ held'[t] = <<x>> \o held[t]
      /\ \A u \in Threads : u # t => held'[u] = held[u]
  BY <1>1
<1> HIDE DEF x
<1>5. held[t] \in Seq(Conns) /\ IsInjective(held[t]) /\ x \notin ToSet(held[t])
  BY <1>1, <1>2, <1>3 DEF EachOnce
<1>6. IsInjective(held'[t]) /\ ToSet(held'[t]) = ToSet(held[t]) \union {x}
  BY <1>3, <1>4, <1>5, ConsTo
<1>7. \A u \in Threads : IsInjective(held'[u])
  BY <1>2, <1>4, <1>6 DEF EachOnce
<1>8. \A u \in Threads : ToSet(idle') \intersect ToSet(held'[u]) = {}
  <2> SUFFICES ASSUME NEW u \in Threads PROVE ToSet(idle') \intersect ToSet(held'[u]) = {}
    OBVIOUS
  <2>1. ToSet(idle) \intersect ToSet(held[u]) = {}
    BY <1>2 DEF EachOnce
  <2>2. CASE u = t
    BY <1>3, <1>6, <2>1, <2>2
  <2>3. CASE u # t
    BY <1>3, <1>4, <2>1, <2>3
  <2> QED BY <2>2, <2>3
<1>9. ASSUME NEW u \in Threads, NEW v \in Threads, u # v
      PROVE  ToSet(held'[u]) \intersect ToSet(held'[v]) = {}
  <2>1. /\ ToSet(held[u]) \intersect ToSet(held[v]) = {}
        /\ x \notin ToSet(held[u]) /\ x \notin ToSet(held[v])
    BY <1>2, <1>3, <1>9 DEF EachOnce
  <2>2. CASE u = t
    <3>1. held'[v] = held[v]
      BY <1>4, <1>9, <2>2
    <3> QED BY <1>6, <2>1, <2>2, <3>1
  <2>3. CASE v = t
    <3>1. held'[u] = held[u]
      BY <1>4, <1>9, <2>3
    <3> QED BY <1>6, <2>1, <2>3, <3>1
  <2>4. CASE u # t /\ v # t
    BY <1>4, <2>1, <2>4
  <2> QED BY <2>2, <2>3, <2>4
<1>10. ASSUME ~stop'
       PROVE  ToSet(idle') \union UNION {ToSet(held'[u]) : u \in Threads} = Conns
  <2>1. ToSet(idle) \union UNION {ToSet(held[u]) : u \in Threads} = Conns
    BY <1>1, <1>2, <1>10 DEF EachOnce
  <2>2. \A c : c \in UNION {ToSet(held[u]) : u \in Threads} <=> \E u \in Threads : c \in ToSet(held[u])
    BY Zenon
  <2>3. \A c : c \in UNION {ToSet(held'[u]) : u \in Threads} <=> \E u \in Threads : c \in ToSet(held'[u])
    BY Zenon
  <2>4. \A c : (\E u \in Threads : c \in ToSet(held'[u]))
                <=> c = x \/ \E u \in Threads : c \in ToSet(held[u])
    BY <1>4, <1>6, Zenon
  <2> QED BY <1>3, <2>1, <2>2, <2>3, <2>4
<1> QED BY <1>3, <1>7, <1>8, <1>9, <1>10, Zenon DEF EachOnce

(* A connection that is given back leaves the thread and comes to the end  *)
(* of the queue, or is dropped after the stop: still once each.            *)
LEMMA PutOnce ==
    ASSUME PoolInv, NEW t \in Threads, PutConn(t)
    PROVE  EachOnce'
<1> DEFINE x == Head(held[t])
           drop == stop /\ ~PushWhenStopped
<1>1. /\ idle \in Seq(Conns) /\ held \in [Threads -> Seq(Conns)] /\ held[t] # <<>>
      /\ held' = [held EXCEPT ![t] = Tail(@)]
      /\ idle' = IF drop THEN idle ELSE Append(idle, x)
      /\ stop' = stop
  BY DEF PoolInv, PoolTypeOK, PutConn
<1>2. EachOnce
  BY DEF PoolInv
<1>3. /\ held'[t] = Tail(held[t])
      /\ \A u \in Threads : u # t => held'[u] = held[u]
  BY <1>1
<1>4. /\ held[t] \in Seq(Conns) /\ IsInjective(held[t]) /\ IsInjective(idle)
      /\ \A u \in Threads : IsInjective(held[u])
      /\ ToSet(idle) \intersect ToSet(held[t]) = {}
  BY <1>1, <1>2 DEF EachOnce
<1>5. /\ x \in Conns /\ ToSet(held[t]) = {x} \union ToSet(held'[t])
      /\ IsInjective(held'[t]) /\ x \notin ToSet(held'[t])
  BY <1>1, <1>3, <1>4, TailOf
<1> HIDE DEF x
<1>6. x \notin ToSet(idle)
  BY <1>4, <1>5
<1>7. /\ IsInjective(idle')
      /\ ToSet(idle') = IF drop THEN ToSet(idle) ELSE ToSet(idle) \union {x}
  <2>1. CASE drop
    BY <1>1, <1>4, <2>1
  <2>2. CASE ~drop
    <3>1. idle' = Append(idle, x)
      BY <1>1, <2>2
    <3>2. /\ IsInjective(Append(idle, x))
          /\ ToSet(Append(idle, x)) = ToSet(idle) \union {x}
      BY <1>1, <1>4, <1>5, <1>6, AppendTo
    <3> QED BY <2>2, <3>1, <3>2
  <2> QED BY <2>1, <2>2
<1>8. \A u \in Threads : IsInjective(held'[u])
  BY <1>3, <1>4, <1>5
<1>9. \A u \in Threads : ToSet(idle') \intersect ToSet(held'[u]) = {}
  <2> SUFFICES ASSUME NEW u \in Threads PROVE ToSet(idle') \intersect ToSet(held'[u]) = {}
    OBVIOUS
  <2>1. ToSet(idle) \intersect ToSet(held[u]) = {}
    BY <1>2 DEF EachOnce
  <2>2. CASE u = t
    BY <1>5, <1>7, <2>1, <2>2
  <2>3. CASE u # t
    <3>1. ToSet(held[t]) \intersect ToSet(held[u]) = {}
      BY <1>2, <2>3, Zenon DEF EachOnce
    <3> QED BY <1>3, <1>5, <1>7, <2>1, <2>3, <3>1
  <2> QED BY <2>2, <2>3
<1>10. ASSUME NEW u \in Threads, NEW v \in Threads, u # v
       PROVE  ToSet(held'[u]) \intersect ToSet(held'[v]) = {}
  <2>1. ToSet(held[u]) \intersect ToSet(held[v]) = {}
    BY <1>2, <1>10 DEF EachOnce
  <2>2. ToSet(held'[u]) \subseteq ToSet(held[u])
    BY <1>3, <1>5
  <2>3. ToSet(held'[v]) \subseteq ToSet(held[v])
    BY <1>3, <1>5
  <2> QED BY <2>1, <2>2, <2>3
<1>11. ASSUME ~stop'
       PROVE  ToSet(idle') \union UNION {ToSet(held'[u]) : u \in Threads} = Conns
  <2>1. ToSet(idle) \union UNION {ToSet(held[u]) : u \in Threads} = Conns
    BY <1>1, <1>2, <1>11 DEF EachOnce
  <2>2. \A c : c \in UNION {ToSet(held[u]) : u \in Threads} <=> \E u \in Threads : c \in ToSet(held[u])
    BY Zenon
  <2>3. \A c : c \in UNION {ToSet(held'[u]) : u \in Threads} <=> \E u \in Threads : c \in ToSet(held'[u])
    BY Zenon
  <2>4. \A c : (\E u \in Threads : c \in ToSet(held[u]))
                <=> c = x \/ \E u \in Threads : c \in ToSet(held'[u])
    BY <1>3, <1>5, Zenon
  <2>5. ToSet(idle') = ToSet(idle) \union {x}
    BY <1>1, <1>7, <1>11
  <2> QED BY <2>1, <2>2, <2>3, <2>4, <2>5
<1> QED BY <1>7, <1>8, <1>9, <1>10, <1>11, Zenon DEF EachOnce

(* The mutex and the counts.                                               *)
LEMMA PoolTypeStep ==
    ASSUME PoolInv, NEW t \in Threads, PoolAction(t)
    PROVE  PoolTypeOK'
<1>0. /\ idle \in Seq(Conns) /\ held \in [Threads -> Seq(Conns)] /\ pc \in [Threads -> PoolPC]
      /\ mtx \in Threads \union {None}
  BY DEF PoolInv, PoolTypeOK
<1>b. stop \in BOOLEAN /\ closing \in BOOLEAN
  BY Zenon DEF PoolInv, PoolTypeOK
<1>c. stop' \in BOOLEAN /\ closing' \in BOOLEAN
  BY <1>b, Zenon DEF PoolAction, GetConn, PoolStep, Take, TakeNull, TestFails, Block, SpuriousWakeup,
     PutConn, GiveUp
<1>1. pc' \in [Threads -> PoolPC]
  BY <1>0 DEF PoolAction, GetConn, PoolStep, Take, TakeNull, TestFails, Block, SpuriousWakeup,
     PutConn, NotifyOne, Waiting, GiveUp, PoolPC
<1>2. mtx' \in Threads \union {None}
  BY <1>0 DEF PoolAction, GetConn, PoolStep, Take, TakeNull, TestFails, Block, SpuriousWakeup,
     PutConn, GiveUp
<1>3. idle' \in Seq(Conns) /\ held' \in [Threads -> Seq(Conns)]
  <2>1. CASE Take(t)
    <3>1. Tail(idle) \in Seq(Conns) /\ <<Head(idle)>> \o held[t] \in Seq(Conns)
      BY <1>0, <2>1, TailOf, ConsTo DEF Take
    <3> QED BY <1>0, <2>1, <3>1 DEF Take
  <2>2. CASE PutConn(t)
    <3>1. held[t] \in Seq(Conns) /\ held[t] # <<>>
      BY <1>0, <2>2 DEF PutConn
    <3>2. Tail(held[t]) \in Seq(Conns) /\ Append(idle, Head(held[t])) \in Seq(Conns)
      BY <1>0, <3>1, TailOf, AppendTo
    <3> QED BY <1>0, <2>2, <3>2 DEF PutConn
  <2> QED BY <1>0, <2>1, <2>2 DEF PoolAction, GetConn, PoolStep, TakeNull, TestFails, Block,
          SpuriousWakeup, GiveUp
<1> QED BY <1>c, <1>1, <1>2, <1>3, Zenon DEF PoolTypeOK

(* The owner of the mutex of the pool is the thread that is inside, and it *)
(* alone moves there.                                                      *)
LEMMA PoolMutexStep ==
    ASSUME PoolInv, NEW t \in Threads, PoolAction(t)
    PROVE  MutexHeld'
<1>0. /\ idle \in Seq(Conns) /\ pc \in [Threads -> PoolPC] /\ MutexHeld
      /\ None \notin Threads
  BY PoolAssumption DEF PoolInv, PoolTypeOK
<1>1. CASE GetConn(t) \/ TakeNull(t) \/ SpuriousWakeup(t) \/ GiveUp(t)
  BY <1>0, <1>1 DEF GetConn, TakeNull, SpuriousWakeup, GiveUp, MutexHeld
<1>2. CASE Take(t)
  BY <1>0, <1>2 DEF Take, MutexHeld
<1>3. CASE TestFails(t)
  BY <1>0, <1>3 DEF TestFails, MutexHeld
<1>4. CASE Block(t)
  BY <1>0, <1>4 DEF Block, MutexHeld
<1>5. CASE PutConn(t)
  <2>1. mtx = None /\ mtx' = None
    BY <1>5 DEF PutConn
  <2>2. \A u \in Threads : pc'[u] = pc[u] \/ pc'[u] = "enter"
    BY <1>0, <1>5 DEF PutConn, NotifyOne, Waiting
  <2> QED BY <1>0, <2>1, <2>2 DEF MutexHeld
<1> QED BY <1>1, <1>2, <1>3, <1>4, <1>5 DEF PoolAction, PoolStep

(* One notification per connection that comes back is enough: each idle    *)
(* connection has an awakened thread before a waiting one.                 *)
LEMMA PoolCountStep ==
    ASSUME PoolInv, NEW t \in Threads, PoolAction(t)
    PROVE  NoIdleWhileWaiting'
<1> DEFINE W(f) == {u \in Threads : f[u] = "wait"}
           Enough(i, f) == W(f) # {} => Len(i) <= Cardinality(Entering(f))
<1>0. /\ idle \in Seq(Conns) /\ Len(idle) \in Nat /\ pc \in [Threads -> PoolPC] /\ MutexHeld
      /\ None \notin Threads
  BY PoolAssumption DEF PoolInv, PoolTypeOK
<1>a. \/ stop /\ stop'
      \/ ~stop /\ stop' = stop /\ Enough(idle, pc)
  BY DEF PoolInv, NoIdleWhileWaiting, Waiting, Entering, PoolAction, GetConn, PoolStep, Take,
     TakeNull, TestFails, Block, SpuriousWakeup, PutConn, GiveUp
<1>b. SUFFICES ASSUME ~stop, Enough(idle, pc) PROVE Enough(idle', pc')
  BY <1>a, Zenon DEF NoIdleWhileWaiting, Waiting, Entering
<1>c. Cardinality(Entering(pc)) \in Nat
  BY <1>0, CountChange DEF PoolPC
<1>1. CASE GetConn(t) \/ SpuriousWakeup(t)
  <2>1. /\ idle' = idle /\ pc' = [pc EXCEPT ![t] = "enter"]
        /\ pc[t] # "enter" /\ pc[t] \in {"out", "wait"}
    BY <1>1 DEF GetConn, SpuriousWakeup
  <2>2. Cardinality(Entering(pc')) = Cardinality(Entering(pc)) + 1
    BY <1>0, <2>1, CountChange DEF PoolPC
  <2>3. W(pc') # {} => W(pc) # {}
    BY <1>0, <2>1
  <2> QED BY <1>0, <1>b, <1>c, <2>1, <2>2, <2>3
<1>2. CASE Take(t)
  <2>1. /\ idle # <<>> /\ idle' = Tail(idle) /\ pc' = [pc EXCEPT ![t] = "out"] /\ pc[t] = "enter"
    BY <1>2 DEF Take
  <2>2. Cardinality(Entering(pc')) = Cardinality(Entering(pc)) - 1
    BY <1>0, <2>1, CountChange DEF PoolPC
  <2>3. W(pc') # {} => W(pc) # {}
    BY <1>0, <2>1
  <2>4. Len(idle') = Len(idle) - 1
    BY <1>0, <2>1, TailOf
  <2> QED BY <1>0, <1>b, <1>c, <2>2, <2>3, <2>4
<1>3. CASE TestFails(t) \/ Block(t)
  <2>1. idle' = <<>> /\ Len(idle') = 0
    BY <1>0, <1>3 DEF TestFails, Block, MutexHeld
  <2>2. pc' \in [Threads -> PoolPC]
    BY <1>0, <1>3 DEF TestFails, Block, PoolPC
  <2>3. Cardinality(Entering(pc')) \in Nat
    BY <2>2, CountChange DEF PoolPC
  <2> QED BY <2>1, <2>3
<1>4. CASE GiveUp(t)
  <2>1. idle' = idle /\ pc' = [pc EXCEPT ![t] = "out"] /\ pc[t] = "null"
    BY <1>4 DEF GiveUp
  <2>2. Cardinality(Entering(pc')) = Cardinality(Entering(pc))
    BY <1>0, <2>1, CountChange DEF PoolPC
  <2>3. W(pc') # {} => W(pc) # {}
    BY <1>0, <2>1
  <2> QED BY <1>0, <1>b, <2>1, <2>2, <2>3
<1>5. CASE PutConn(t)
  <2>1. idle' = Append(idle, Head(held[t])) /\ NotifyOne
    BY <1>b, <1>5 DEF PutConn
  <2>2. Len(idle') = Len(idle) + 1
    BY <1>0, <2>1
  <2>3. CASE W(pc) = {}
    BY <2>1, <2>3 DEF NotifyOne, Waiting
  <2>4. CASE W(pc) # {}
    <3>1. PICK u \in Threads : pc[u] = "wait" /\ pc' = [pc EXCEPT ![u] = "enter"]
      BY <2>1, <2>4 DEF NotifyOne, Waiting
    <3>2. Cardinality(Entering(pc')) = Cardinality(Entering(pc)) + 1
      BY <1>0, <3>1, CountChange DEF PoolPC
    <3> QED BY <1>0, <1>b, <1>c, <2>2, <2>4, <3>2
  <2> QED BY <2>3, <2>4
<1>6. CASE TakeNull(t)
  BY <1>b, <1>6 DEF TakeNull
<1> QED BY <1>1, <1>2, <1>3, <1>4, <1>5, <1>6 DEF PoolAction, PoolStep

(* Every operation of a thread keeps the pool's invariant, and so do the   *)
(* two steps of close.                                                     *)
LEMMA PoolActionInv ==
    ASSUME PoolInv, NEW t \in Threads, PoolAction(t)
    PROVE  PoolInv'
<1>1. EachOnce'
  <2>1. CASE Take(t)
    BY <2>1, TakeOnce
  <2>2. CASE PutConn(t)
    BY <2>2, PutOnce
  <2>3. CASE ~Take(t) /\ ~PutConn(t)
    <3>1. UNCHANGED <<idle, held>> /\ (stop => stop')
      BY <2>3 DEF PoolAction, GetConn, PoolStep, TakeNull, TestFails, Block, SpuriousWakeup, GiveUp
    <3> QED BY <3>1, OnceUnmoved DEF PoolInv
  <2> QED BY <2>1, <2>2, <2>3
<1> QED BY <1>1, PoolTypeStep, PoolMutexStep, PoolCountStep DEF PoolInv

(* Closing the pool, flag and notification.                                *)
LEMMA CloseInv ==
    ASSUME PoolInv, CloseFlag \/ CloseNotify
    PROVE  PoolInv'
<1>0. /\ pc \in [Threads -> PoolPC] /\ MutexHeld /\ EachOnce /\ PoolTypeOK
  BY DEF PoolInv, PoolTypeOK
<1>1. EachOnce'
  <2>1. UNCHANGED <<idle, held>> /\ (stop => stop')
    BY DEF CloseFlag, CloseNotify
  <2> QED BY <1>0, <2>1, OnceUnmoved
<1>2. CASE CloseFlag
  <2>1. PoolTypeOK' /\ MutexHeld'
    BY <1>0, <1>2, Zenon DEF CloseFlag, PoolTypeOK, MutexHeld
  <2>2. NoIdleWhileWaiting'
    BY <1>2 DEF CloseFlag, NoIdleWhileWaiting
  <2> QED BY <1>1, <2>1, <2>2 DEF PoolInv
<1>3. CASE CloseNotify
  <2>1. pc' \in [Threads -> PoolPC] /\ \A u \in Threads : pc'[u] # "wait" /\ (pc'[u] = "towait" <=> pc[u] = "towait")
    BY <1>0, <1>3 DEF CloseNotify, PoolPC
  <2>2. PoolTypeOK'
    BY <1>0, <1>3, <2>1, Zenon DEF CloseNotify, PoolTypeOK
  <2>3. MutexHeld'
    BY <1>0, <1>3, <2>1 DEF CloseNotify, MutexHeld
  <2>4. NoIdleWhileWaiting'
    BY <2>1 DEF NoIdleWhileWaiting, Waiting
  <2> QED BY <1>1, <2>2, <2>3, <2>4 DEF PoolInv
<1> QED BY <1>2, <1>3

------------------------------------------------------------------------------
(* The tables, and what writes make of them.                               *)

(* The friend rows among the writes of a transaction.                      *)
LEMMA RowsType == ASSUME NEW ws \in Seq(Write) PROVE Rows(ws) \subseteq Pairs
<1>1. \A i \in DOMAIN ws : ws[i] \in Write
  OBVIOUS
<1>2. \A i \in DOMAIN ws : ws[i].row \in Pairs
  BY <1>1 DEF Write
<1> QED BY <1>2, Zenon DEF Rows

(* An empty transaction has none.                                          *)
LEMMA RowsEmpty == Rows(<<>>) = {}
BY DEF Rows

(* One more write adds its row if it is a friend row.                      *)
LEMMA RowsOf ==
    ASSUME NEW ws \in Seq(Write), NEW w \in Write
    PROVE  /\ Rows(Append(ws, w)) = Rows(ws) \union (IF w.table = "friend" THEN {w.row} ELSE {})
           /\ Rows(<<w>>) = IF w.table = "friend" THEN {w.row} ELSE {}
<1>3. Rows(Append(ws, w)) = Rows(ws) \union (IF w.table = "friend" THEN {w.row} ELSE {})
  <2> DEFINE t == Append(ws, w)
  <2>1. /\ Len(ws) \in Nat /\ DOMAIN ws = 1..Len(ws) /\ DOMAIN t = 1..(Len(ws) + 1)
        /\ \A i \in 1..Len(ws) : t[i] = ws[i]
        /\ t[Len(ws) + 1] = w
    OBVIOUS
  <2> HIDE DEF t
  <2>2. \A i : i \in 1..(Len(ws) + 1) <=> i \in 1..Len(ws) \/ i = Len(ws) + 1
    BY <2>1
  <2>3. \A r : r \in Rows(t) <=> \E i \in DOMAIN t : t[i].table = "friend" /\ r = t[i].row
    BY Zenon DEF Rows
  <2>4. \A r : r \in Rows(ws) <=> \E i \in DOMAIN ws : ws[i].table = "friend" /\ r = ws[i].row
    BY Zenon DEF Rows
  <2>5. \A r : r \in Rows(t) <=> r \in Rows(ws) \/ (w.table = "friend" /\ r = w.row)
    <3> TAKE r
    <3>1. ASSUME NEW i \in DOMAIN t, t[i].table = "friend", r = t[i].row
          PROVE  r \in Rows(ws) \/ (w.table = "friend" /\ r = w.row)
      <4>1. CASE i \in 1..Len(ws)
        BY <2>1, <2>4, <3>1, <4>1, Zenon
      <4>2. CASE i = Len(ws) + 1
        BY <2>1, <3>1, <4>2, Zenon
      <4> QED BY <2>1, <2>2, <4>1, <4>2
    <3>2. ASSUME NEW i \in DOMAIN ws, ws[i].table = "friend", r = ws[i].row
          PROVE  r \in Rows(t)
      <4>1. i \in DOMAIN t /\ t[i] = ws[i]
        BY <2>1, <2>2
      <4> QED BY <2>3, <3>2, <4>1, Zenon
    <3>3. ASSUME w.table = "friend", r = w.row
          PROVE  r \in Rows(t)
      <4>1. Len(ws) + 1 \in DOMAIN t /\ t[Len(ws) + 1] = w
        BY <2>1, <2>2
      <4> QED BY <2>3, <3>3, <4>1, Zenon
    <3> QED BY <2>3, <2>4, <3>1, <3>2, <3>3, Zenon
  <2> QED BY <2>5 DEF t
<1>4. Rows(<<w>>) = IF w.table = "friend" THEN {w.row} ELSE {}
  BY DEF Rows
<1> QED BY <1>3, <1>4

(* The row of the other side of a friendship.                              *)
LEMMA FlipPair ==
    ASSUME NEW p \in Pairs
    PROVE  Flip(p) \in Pairs /\ Flip(Flip(p)) = p /\ Flip(p) # p
BY DEF Flip, Pairs

(* Writes that have effect only add friends.                               *)
LEMMA Performs ==
    ASSUME db \in Database, NEW ws \in Seq(Write), Perform(ws)
    PROVE  /\ db' \in Database
           /\ db'.friend = db.friend \union Rows(ws)
<1>1. /\ db'.friend = db.friend \union Rows(ws)
      /\ db'.apply = [p \in Pairs |-> Stamp(ws, p)]
      /\ db' = [friend |-> db.friend \union Rows(ws), apply |-> [p \in Pairs |-> Stamp(ws, p)]]
  BY DEF Perform
<1>2. db.friend \in SUBSET Pairs /\ db.apply \in [Pairs -> {"none", "asked", "accepted"}]
  BY DEF Database
<1>3. \A p \in Pairs : Stamp(ws, p) \in {"none", "asked", "accepted"}
  BY <1>2 DEF Stamp
<1>4. [p \in Pairs |-> Stamp(ws, p)] \in [Pairs -> {"none", "asked", "accepted"}]
  BY <1>3
<1>5. db.friend \union Rows(ws) \in SUBSET Pairs
  BY <1>2, RowsType
<1>6. db' \in Database
  BY <1>1, <1>4, <1>5, Zenon DEF Database
<1> QED BY <1>1, <1>6

(* What the worker has of the pool.                                        *)
LEMMA ConHeld ==
    ASSUME PoolInv, WorkInv, Has
    PROVE  /\ Con \in Conns /\ Con \notin ToSet(idle)
           /\ held[Worker] \in Seq(Conns) /\ held[Worker] # <<>>
<1>1. held[Worker] \in Seq(Conns) /\ held[Worker] # <<>> /\ Worker \in Threads
  BY DaoAssumption DEF PoolInv, PoolTypeOK, WorkInv
<1>2. Head(held[Worker]) \in ToSet(held[Worker]) /\ Head(held[Worker]) \in Conns
  BY <1>1, TailOf
<1>3. ToSet(idle) \intersect ToSet(held[Worker]) = {}
  BY <1>1 DEF PoolInv, EachOnce
<1> QED BY <1>1, <1>2, <1>3 DEF Con

(* A statement that does not raise, on the worker's connection.            *)
LEMMA Executes ==
    ASSUME TypeOK, NEW c \in Conns, NEW w \in Write, Execute(c, w)
    PROVE  \/ /\ c \in auto /\ pend' = pend /\ db' \in Database
              /\ db'.friend = db.friend \union Rows(<<w>>)
           \/ /\ c \notin auto /\ db' = db /\ pend' \in [Conns -> Seq(Write)]
              /\ pend' = [pend EXCEPT ![c] = Append(pend[c], w)]
              /\ pend'[c] = Append(pend[c], w)
              /\ \A d \in Conns : d # c => pend'[d] = pend[d]
<1>0. pend \in [Conns -> Seq(Write)] /\ db \in Database
  BY DEF TypeOK
<1>1. CASE c \in auto
  <2>1. Perform(<<w>>) /\ pend' = pend /\ <<w>> \in Seq(Write)
    BY <1>1 DEF Execute
  <2> QED BY <1>0, <1>1, <2>1, Performs
<1>2. CASE c \notin auto
  <2>1. pend' = [pend EXCEPT ![c] = Append(pend[c], w)] /\ db' = db
    BY <1>2 DEF Execute
  <2>2. Append(pend[c], w) \in Seq(Write)
    BY <1>0
  <2> QED BY <1>0, <1>2, <2>1, <2>2
<1> QED BY <1>1, <1>2

------------------------------------------------------------------------------
(* The steps.                                                              *)

DaoNext ==
    \/ WorkerGet \/ Ask \/ Accept \/ Begin \/ InsertSelf \/ InsertPeer \/ AddFriendCommit
    \/ ReadApplies \/ ReadFriends \/ NextFriend \/ ReadUser \/ WorkerPut \/ WorkerNull

(* What is done beside the worker: at most it is woken.                    *)
Aside ==
    \/ \E t \in Grpc : PoolAction(t)
    \/ \E t \in Threads : SpuriousWakeup(t)
    \/ CloseFlag \/ CloseNotify

(* The steps of the other servers, of the connections and of the pool's    *)
(* destructor.                                                             *)
Outside ==
    \/ \E w \in Write : FarWrite(w)
    \/ FarCommit \/ FarRollback
    \/ \E c \in Conns : Break(c)
    \/ CheckConnection \/ CheckThrows \/ DtorPop

(* A step is of the worker in the pool, of the worker in a method, of      *)
(* somebody else, or the start of a request.                               *)
LEMMA StepKinds ==
    ASSUME Next
    PROVE  \/ PoolOnly(PoolStep(Worker)) \/ DaoNext
           \/ Aside /\ UNCHANGED <<db, links, work, reqs, breaks, told, outside>>
                    /\ (calls' = calls \/ (calls < MaxCalls /\ calls' = calls + 1))
           \/ \E t \in Grpc : GrpcReturn(t)
           \/ \E m \in {"ask", "accept", "applies"}, p \in Pairs : Request(m, p)
           \/ Outside
<1>1. CASE WorkerStep
  BY <1>1 DEF WorkerStep, DaoNext
<1>2. ASSUME NEW t \in Grpc, PoolOnly(PoolStep(t)) \/ GrpcCall(t)
      PROVE  Aside /\ UNCHANGED <<db, links, work, reqs, breaks, told, outside>>
                   /\ (calls' = calls \/ (calls < MaxCalls /\ calls' = calls + 1))
  BY <1>2 DEF GrpcCall, PoolOnly, Aside, PoolAction, counters
<1>3. ASSUME NEW t \in Threads, PoolOnly(SpuriousWakeup(t))
      PROVE  Aside /\ UNCHANGED <<db, links, work, reqs, breaks, told, outside>> /\ calls' = calls
  BY <1>3 DEF PoolOnly, Aside, counters
<1>4. CASE DtorClose \/ DtorNotify
  BY <1>4 DEF DtorClose, DtorNotify, PoolOnly, Aside, counters
<1>5. CASE \E t \in Grpc : GrpcStep(t) \/ GrpcCall(t)
  BY <1>2, <1>5 DEF GrpcStep
<1> QED BY <1>1, <1>3, <1>4, <1>5 DEF Next, Outside

(* What the others do in the pool leaves the worker its connections and    *)
(* its place, except that it may be woken.                                 *)
LEMMA AsideKeeps ==
    ASSUME PoolInv, Aside
    PROVE  /\ PoolInv'
           /\ held'[Worker] = held[Worker]
           /\ pc'[Worker] = pc[Worker] \/ (pc[Worker] = "wait" /\ pc'[Worker] = "enter")
<1>0. /\ pc \in [Threads -> PoolPC] /\ held \in [Threads -> Seq(Conns)] /\ Worker \in Threads
  BY DaoAssumption DEF PoolInv, PoolTypeOK
<1>1. ASSUME NEW t \in Grpc, PoolAction(t)
      PROVE  /\ PoolInv'
             /\ held'[Worker] = held[Worker]
             /\ pc'[Worker] = pc[Worker] \/ (pc[Worker] = "wait" /\ pc'[Worker] = "enter")
  <2>1. t \in Threads /\ t # Worker
    BY DEF Grpc
  <2>2. PoolInv'
    BY <1>1, <2>1, PoolActionInv
  <2>3. held'[Worker] = held[Worker]
    BY <1>0, <1>1, <2>1 DEF PoolAction, GetConn, PoolStep, Take, TakeNull, TestFails, Block,
       SpuriousWakeup, PutConn, GiveUp
  <2>4. pc'[Worker] = pc[Worker] \/ (pc[Worker] = "wait" /\ pc'[Worker] = "enter")
    BY <1>0, <1>1, <2>1 DEF PoolAction, GetConn, PoolStep, Take, TakeNull, TestFails, Block,
       SpuriousWakeup, PutConn, GiveUp, NotifyOne, Waiting
  <2> QED BY <2>2, <2>3, <2>4
<1>2. ASSUME NEW t \in Threads, SpuriousWakeup(t)
      PROVE  /\ PoolInv'
             /\ held'[Worker] = held[Worker]
             /\ pc'[Worker] = pc[Worker] \/ (pc[Worker] = "wait" /\ pc'[Worker] = "enter")
  <2>1. PoolInv'
    BY <1>2, PoolActionInv DEF PoolAction
  <2> QED BY <1>0, <1>2, <2>1 DEF SpuriousWakeup
<1>3. CASE CloseFlag \/ CloseNotify
  <2>1. PoolInv'
    BY <1>3, CloseInv
  <2> QED BY <1>0, <1>3, <2>1 DEF CloseFlag, CloseNotify
<1> QED BY <1>1, <1>2, <1>3 DEF Aside

(* Types.                                                                  *)
DaoTypes ==
    /\ db \in Database
    /\ auto \in SUBSET Conns /\ broken \in SUBSET Conns
    /\ pend \in [Conns -> Seq(Write)]
    /\ op \in Methods \union {None} /\ ph \in Phases
    /\ arg \in Pairs /\ left \in 0..MaxFriends
    /\ reqs \in 0..MaxReqs /\ calls \in 0..MaxCalls /\ breaks \in 0..MaxBreaks
    /\ told \in SUBSET Pairs
    /\ far \in Seq(Write) /\ fars \in 0..MaxFar /\ crashed \in BOOLEAN

(* PoolSound is the soundness of the pool and the types of the rest.       *)
LEMMA SoundParts == PoolSound <=> PoolInv /\ DaoTypes
BY Zenon DEF PoolSound, PoolInv, TypeOK, DaoTypes

(* The method that is run next.                                            *)
LEMMA FollowTypes ==
    ASSUME Follow
    PROVE  op' \in Methods \union {None} /\ ph' \in {"get", "loop"}
BY DEF Follow, Methods

(* A connection that is returned takes at most its own pending writes with *)
(* it.                                                                     *)
LEMMA Returns ==
    ASSUME PoolInv, pend \in [Conns -> Seq(Write)], NEW t \in Threads, Return(t)
    PROVE  /\ PutConn(t) /\ held[t] # <<>> /\ Head(held[t]) \in ToSet(held[t])
           /\ pend' \in [Conns -> Seq(Write)]
           /\ \A c \in Conns : pend'[c] = pend[c] \/ (c = Head(held[t]) /\ pend'[c] = <<>>)
<1>1. PutConn(t) /\ held[t] # <<>> /\ held[t] \in Seq(Conns)
  BY DEF Return, PutConn, PoolInv, PoolTypeOK
<1>2. Head(held[t]) \in ToSet(held[t]) /\ Head(held[t]) \in Conns
  BY <1>1, TailOf
<1>3. <<>> \in Seq(Write)
  OBVIOUS
<1>4. pend' = pend \/ pend' = [pend EXCEPT ![Head(held[t])] = <<>>]
  BY DEF Return
<1> QED BY <1>1, <1>2, <1>3, <1>4

(* A step of a method keeps the types.                                     *)
LEMMA DaoNextTypes ==
    ASSUME PoolInv, DaoTypes, WorkInv, DaoNext
    PROVE  DaoTypes'
<1> USE DEF DaoTypes
<1>0. TypeOK
  BY Zenon DEF TypeOK, PoolInv
<1>b. MaxFriends \in Nat /\ MaxReqs \in Nat /\ MaxCalls \in Nat /\ MaxBreaks \in Nat
  BY DaoAssumption
<1>c. /\ [table |-> "ask", row |-> arg] \in Write
      /\ [table |-> "accept", row |-> Flip(arg)] \in Write
      /\ [table |-> "friend", row |-> arg] \in Write
      /\ [table |-> "friend", row |-> Flip(arg)] \in Write
  BY FlipPair DEF Write
<1>d. \A m \in Methods, f \in {"wait", "self", "peer", "commit"} : Ready(m, f) => Con \in Conns
  BY ConHeld DEF Ready, Has
<1>e. <<>> \in Seq(Write)
  OBVIOUS
<1>1. CASE WorkerGet \/ ReadApplies \/ ReadUser
  BY <1>1 DEF WorkerGet, ReadApplies, ReadUser, links, work, counters, outside, Phases
<1>2. CASE Ask
  <2>1. UNCHANGED <<auto, broken, op, arg, left, reqs, calls, breaks, told, far, fars, crashed>> /\ ph' = "put"
    BY <1>2 DEF Ask, counters, outside
  <2>3. db' \in Database /\ pend' \in [Conns -> Seq(Write)]
    <3>1. CASE UNCHANGED <<db, pend>>
      BY <3>1
    <3>2. CASE Execute(Con, [table |-> "ask", row |-> arg])
      <4>1. Con \in Conns
        BY <1>2, <1>d DEF Ask, Methods
      <4> QED BY <1>0, <1>c, <3>2, <4>1, Executes
    <3> QED BY <1>2, <3>1, <3>2 DEF Ask
  <2> QED BY <2>1, <2>3 DEF Phases
<1>3. CASE Accept
  <2>1. UNCHANGED <<auto, broken, op, arg, left, reqs, calls, breaks, told, far, fars, crashed>> /\ ph' = "put"
    BY <1>3 DEF Accept, counters, outside
  <2>3. db' \in Database /\ pend' \in [Conns -> Seq(Write)]
    <3>1. CASE UNCHANGED <<db, pend>>
      BY <3>1
    <3>2. CASE Execute(Con, [table |-> "accept", row |-> Flip(arg)])
      <4>1. Con \in Conns
        BY <1>3, <1>d DEF Accept, Methods
      <4> QED BY <1>0, <1>c, <3>2, <4>1, Executes
    <3> QED BY <1>3, <3>1, <3>2 DEF Accept
  <2> QED BY <2>1, <2>3 DEF Phases
<1>4. CASE Begin
  BY <1>4 DEF Begin, counters, outside, Phases
<1>5. ASSUME NEW phase \in {"self", "peer"}, NEW next \in {"peer", "commit"}, NEW p \in {arg, Flip(arg)},
             Insert(phase, p, next)
      PROVE  DaoTypes'
  <2>1. UNCHANGED <<auto, broken, op, arg, left, reqs, calls, breaks, told, far, fars, crashed>> /\ ph' \in {"put", "peer", "commit"}
    BY <1>5 DEF Insert, counters, outside
  <2>2. Con \in Conns /\ [table |-> "friend", row |-> p] \in Write
    BY <1>5, <1>c, <1>d DEF Insert, Methods
  <2>3. db' \in Database /\ pend' \in [Conns -> Seq(Write)]
    <3>1. CASE pend' = [pend EXCEPT ![Con] = <<>>] /\ UNCHANGED db
      BY <1>e, <2>2, <3>1
    <3>2. CASE Execute(Con, [table |-> "friend", row |-> p])
      BY <1>0, <2>2, <3>2, Executes
    <3> QED BY <1>5, <3>1, <3>2 DEF Insert
  <2> QED BY <2>1, <2>3 DEF Phases
<1>6. CASE InsertSelf \/ InsertPeer
  BY <1>5, <1>6 DEF InsertSelf, InsertPeer
<1>7. CASE AddFriendCommit
  <2>1. UNCHANGED <<auto, broken, op, arg, left, reqs, calls, breaks, told, far, fars, crashed>> /\ ph' = "put"
    BY <1>7 DEF AddFriendCommit, counters, outside
  <2>2. Con \in Conns
    BY <1>7, <1>d DEF AddFriendCommit, Methods
  <2>3. db' \in Database /\ pend' \in [Conns -> Seq(Write)]
    <3>1. CASE UNCHANGED <<db, pend>>
      BY <3>1
    <3>2. CASE Commit(Con)
      <4>1. pend[Con] \in Seq(Write)
        BY <2>2
      <4>2. db' \in Database
        BY <3>2, <4>1, Performs DEF Commit
      <4> QED BY <1>e, <2>2, <3>2, <4>2 DEF Commit
    <3> QED BY <1>7, <3>1, <3>2 DEF AddFriendCommit
  <2> QED BY <2>1, <2>3 DEF Phases
<1>8. CASE ReadFriends
  BY <1>b, <1>8 DEF ReadFriends, links, counters, outside, Phases
<1>9. CASE NextFriend
  BY <1>b, <1>9 DEF NextFriend, links, counters, outside, Phases, Methods
<1>10. CASE WorkerPut \/ WorkerNull
  <2>1. /\ Follow /\ Answer
        /\ UNCHANGED <<db, auto, broken, arg, left, reqs, calls, breaks, far, fars, crashed>>
    BY <1>10 DEF WorkerPut, WorkerNull, links, counters, outside
  <2>2. pend' \in [Conns -> Seq(Write)]
    <3>1. CASE Return(Worker)
      BY <3>1, DaoAssumption, Returns
    <3>2. CASE pend' = pend
      BY <3>2
    <3> QED BY <1>10, <3>1, <3>2 DEF WorkerPut, WorkerNull, links
  <2>3. told' \in SUBSET Pairs
    BY <2>1 DEF Answer
  <2> QED BY <2>1, <2>2, <2>3, FollowTypes DEF Phases
<1> QED BY <1>1, <1>2, <1>3, <1>4, <1>6, <1>7, <1>8, <1>9, <1>10 DEF DaoNext

(* So does every step.                                                     *)
LEMMA TypesStep ==
    ASSUME PoolInv, DaoTypes, WorkInv, [Next]_vars
    PROVE  DaoTypes'
<1> USE DEF DaoTypes
<1>b. /\ MaxFriends \in Nat /\ MaxReqs \in Nat /\ MaxCalls \in Nat /\ MaxBreaks \in Nat
      /\ MaxFar \in Nat /\ <<>> \in Seq(Write)
  BY DaoAssumption
<1>1. CASE UNCHANGED vars \/ PoolOnly(PoolStep(Worker))
  BY <1>1 DEF vars, PoolOnly, links, work, counters, outside
<1>2. CASE DaoNext
  BY <1>2, DaoNextTypes
<1>3. CASE /\ Aside /\ UNCHANGED <<db, links, work, reqs, breaks, told, outside>>
           /\ calls' = calls \/ (calls < MaxCalls /\ calls' = calls + 1)
  BY <1>b, <1>3 DEF links, work, outside
<1>4. ASSUME NEW m \in {"ask", "accept", "applies"}, NEW p \in Pairs, Request(m, p)
      PROVE  DaoTypes'
  BY <1>b, <1>4 DEF Request, links, Methods, Phases, outside
<1>5. ASSUME NEW t \in Grpc, GrpcReturn(t)
      PROVE  DaoTypes'
  <2>1. pend' \in [Conns -> Seq(Write)]
    BY <1>5, Returns DEF GrpcReturn, Grpc
  <2> QED BY <1>5, <2>1 DEF GrpcReturn, work, counters, outside
<1>6. CASE Outside
  <2>1. ASSUME NEW c \in Conns, Break(c)
        PROVE  DaoTypes'
    BY <1>b, <2>1 DEF Break, work, outside
  <2>2. CASE CheckConnection
    <3>1. auto' \in SUBSET Conns /\ broken' \in SUBSET Conns
      BY <2>2 DEF CheckConnection
    <3> QED BY <2>2, <3>1 DEF CheckConnection, work, counters, outside
  <2>3. CASE CheckThrows
    <3>1. pend' \in [Conns -> Seq(Write)] /\ broken' \in SUBSET Conns /\ crashed' \in BOOLEAN
      BY <1>b, <2>3 DEF CheckThrows
    <3> QED BY <2>3, <3>1 DEF CheckThrows, work, counters
  <2>4. CASE DtorPop
    <3>1. pend' \in [Conns -> Seq(Write)]
      BY <1>b, <2>4 DEF DtorPop
    <3> QED BY <2>4, <3>1 DEF DtorPop, work, counters, outside
  <2>5. ASSUME NEW w \in Write, FarWrite(w)
        PROVE  DaoTypes'
    <3>1. far' \in Seq(Write) /\ fars' \in 0..MaxFar
      BY <1>b, <2>5 DEF FarWrite
    <3> QED BY <2>5, <3>1 DEF FarWrite, links, work, counters
  <2>6. CASE FarCommit
    <3>1. db' \in Database /\ far' \in Seq(Write)
      BY <1>b, <2>6, Performs DEF FarCommit
    <3> QED BY <2>6, <3>1 DEF FarCommit, links, work, counters
  <2>7. CASE FarRollback
    BY <1>b, <2>7 DEF FarRollback, links, work, counters
  <2> QED BY <1>6, <2>1, <2>2, <2>3, <2>4, <2>5, <2>6, <2>7 DEF Outside
<1> QED BY <1>1, <1>2, <1>3, <1>4, <1>5, <1>6, StepKinds

(* ~mysql_pool empties the queue of a pool that is closed.                 *)
LEMMA PopInv ==
    ASSUME PoolInv, DtorPop
    PROVE  PoolInv'
<1>0. PoolTypeOK /\ MutexHeld /\ EachOnce /\ stop
  BY DEF PoolInv, DtorPop
<1>1. idle' = <<>> /\ UNCHANGED <<mtx, stop, closing, pc, held>>
  BY DEF DtorPop
<1>2. <<>> \in Seq(Conns) /\ ToSet(<<>>) = {} /\ IsInjective(<<>>)
  BY DEF ToSet, IsInjective
<1>3. PoolTypeOK'
  BY <1>0, <1>1, <1>2 DEF PoolTypeOK
<1>4. MutexHeld'
  BY <1>0, <1>1 DEF MutexHeld
<1>5. EachOnce'
  BY <1>0, <1>1, <1>2 DEF EachOnce
<1>6. NoIdleWhileWaiting'
  BY <1>0, <1>1 DEF NoIdleWhileWaiting
<1> QED BY <1>3, <1>4, <1>5, <1>6 DEF PoolInv

(* The methods take connections from the pool and give them back by its    *)
(* own steps only, so every step keeps it sound.                           *)
LEMMA PoolInvStep ==
    ASSUME PoolInv, [Next]_vars
    PROVE  PoolInv'
<1>0. Worker \in Threads
  BY DaoAssumption
<1>1. CASE UNCHANGED poolVars
  BY <1>1 DEF poolVars, PoolInv, PoolTypeOK, MutexHeld, EachOnce, NoIdleWhileWaiting, Waiting
<1>2. CASE PoolAction(Worker)
  BY <1>0, <1>2, PoolActionInv
<1>3. CASE Aside
  BY <1>3, AsideKeeps
<1>4. CASE PoolOnly(PoolStep(Worker)) \/ WorkerGet \/ WorkerPut \/ WorkerNull
  BY <1>2, <1>4 DEF PoolOnly, PoolAction, WorkerGet, WorkerPut, WorkerNull, Return
<1>5. CASE Ask \/ Accept \/ Begin \/ InsertSelf \/ InsertPeer \/ AddFriendCommit
           \/ ReadApplies \/ ReadFriends \/ NextFriend \/ ReadUser
  BY <1>1, <1>5 DEF Ask, Accept, Begin, InsertSelf, InsertPeer, Insert, AddFriendCommit,
     ReadApplies, ReadFriends, NextFriend, ReadUser
<1>6. CASE UNCHANGED vars
           \/ \E m \in {"ask", "accept", "applies"}, p \in Pairs : Request(m, p)
  BY <1>1, <1>6 DEF vars, Request
<1>7. CASE Outside
  BY <1>1, <1>7, PopInv DEF Outside, FarWrite, FarCommit, FarRollback, Break, CheckConnection,
     CheckThrows
<1>8. CASE \E t \in Grpc : GrpcReturn(t)
  BY <1>3, <1>8 DEF GrpcReturn, Return, Aside, PoolAction
<1> QED BY <1>3, <1>4, <1>5, <1>6, <1>7, <1>8, StepKinds DEF DaoNext

(* Where the worker is.                                                    *)
LEMMA WorkStep ==
    ASSUME PoolInv, DaoTypes, WorkInv, [Next]_vars
    PROVE  WorkInv'
<1>0. /\ pc \in [Threads -> PoolPC] /\ held \in [Threads -> Seq(Conns)] /\ Worker \in Threads
      /\ op \in Methods \union {None} /\ ph \in Phases /\ None \notin Methods
  BY DaoAssumption DEF PoolInv, PoolTypeOK, DaoTypes, Methods
<1>a. held[Worker] \in Seq(Conns)
  BY <1>0
<1>b. held[Worker] # <<>> => Tail(held[Worker]) \in Seq(Conns)
  BY <1>a, TailOf
<1>1. CASE UNCHANGED <<op, ph>> /\ held'[Worker] = held[Worker]
           /\ (pc'[Worker] = pc[Worker] \/ (pc[Worker] # "out" /\ pc'[Worker] # "out"))
  BY <1>1 DEF WorkInv, Has
<1>2. CASE Aside /\ UNCHANGED work
  BY <1>1, <1>2, AsideKeeps DEF work
<1>3. CASE UNCHANGED vars \/ Outside
  BY <1>1, <1>3 DEF vars, Outside, FarWrite, FarCommit, FarRollback, Break, CheckConnection,
     CheckThrows, DtorPop, poolVars, work
<1>4. ASSUME NEW m \in {"ask", "accept", "applies"}, NEW p \in Pairs, Request(m, p)
      PROVE  WorkInv'
  BY <1>0, <1>4 DEF Request, poolVars, WorkInv, Has, Methods
<1>5. CASE PoolOnly(PoolStep(Worker))
  <2>1. CASE Take(Worker)
    <3>1. /\ pc[Worker] = "enter" /\ idle \in Seq(Conns) /\ idle # <<>>
          /\ held'[Worker] = <<Head(idle)>> \o held[Worker] /\ UNCHANGED <<op, ph>>
      BY <1>0, <1>5, <2>1 DEF PoolInv, PoolTypeOK, Take, PoolOnly, work
    <3>2. held'[Worker] # <<>> /\ Tail(held'[Worker]) = held[Worker]
      BY <1>a, <3>1, TailOf, ConsTo
    <3>3. ph = "wait"
      BY <3>1 DEF WorkInv
    <3> QED BY <1>0, <3>1, <3>2, <3>3 DEF WorkInv, Has
  <2>2. CASE TakeNull(Worker) \/ TestFails(Worker) \/ Block(Worker)
    <3>1. UNCHANGED <<op, ph>> /\ held'[Worker] = held[Worker] /\ pc[Worker] # "out" /\ pc'[Worker] # "out"
      BY <1>0, <1>5, <2>2 DEF TakeNull, TestFails, Block, PoolOnly, work
    <3> QED BY <1>1, <3>1
  <2> QED BY <1>5, <2>1, <2>2 DEF PoolOnly, PoolStep
<1>6. CASE WorkerGet
  BY <1>0, <1>6 DEF WorkerGet, GetConn, WorkInv, Has
<1>7. CASE Ask \/ Accept \/ Begin \/ InsertSelf \/ InsertPeer \/ AddFriendCommit
           \/ ReadApplies \/ ReadFriends \/ ReadUser
  <2>1. /\ UNCHANGED <<op, pc, held>> /\ pc[Worker] = "out" /\ Has
        /\ ph' \in {"put", "self", "peer", "commit", "loop"} /\ op # None
        /\ ph' \in {"self", "peer", "commit"} => op = "addfriend"
        /\ ph' = "loop" => op = "friends"
    BY <1>0, <1>7 DEF Ask, Accept, Begin, InsertSelf, InsertPeer, Insert, AddFriendCommit,
       ReadApplies, ReadFriends, ReadUser, Ready, Has, poolVars, links, work, Methods
  <2> QED BY <2>1 DEF WorkInv, Has
<1>8. CASE NextFriend
  BY <1>0, <1>8 DEF NextFriend, Ready, poolVars, WorkInv, Has, Methods
<1>9. CASE WorkerPut
  <2>1. /\ op # None /\ ph = "put" /\ Follow /\ pc[Worker] = "out" /\ held[Worker] # <<>>
        /\ held'[Worker] = Tail(held[Worker]) /\ pc'[Worker] = "out"
    BY <1>0, <1>9 DEF WorkerPut, Return, PutConn, NotifyOne, Waiting
  <2>2. op = "user" => Tail(held[Worker]) # <<>>
    BY <2>1 DEF WorkInv, Has
  <2> QED BY <1>0, <2>1, <2>2 DEF Follow, WorkInv, Has, Methods
<1>10. CASE WorkerNull
  <2>1. pc[Worker] = "null" /\ pc'[Worker] = "out" /\ Follow /\ held' = held
    BY <1>0, <1>10 DEF WorkerNull, GiveUp
  <2>2. ph = "wait"
    BY <2>1 DEF WorkInv
  <2>3. op = "user" => held[Worker] # <<>>
    BY DEF WorkInv
  <2> QED BY <1>0, <2>1, <2>2, <2>3 DEF Follow, WorkInv, Has, Methods
<1>11. CASE \E t \in Grpc : GrpcReturn(t)
  BY <1>2, <1>11 DEF GrpcReturn, Return, Aside, PoolAction
<1> QED BY <1>2, <1>3, <1>4, <1>5, <1>6, <1>7, <1>8, <1>9, <1>10, <1>11, StepKinds DEF DaoNext

------------------------------------------------------------------------------
(* The rows that are pending.                                              *)

InAdd == {"self", "peer", "commit"}

(* A step that touches neither transactions nor the add_friend under way.  *)
LEMMA RowsKept ==
    ASSUME RowInv, UNCHANGED <<auto, pend, broken>>,
           \/ ph \notin InAdd /\ ph' \notin InAdd
           \/ UNCHANGED <<ph, arg>> /\ held'[Worker] = held[Worker]
    PROVE  RowInv'
<1>1. \A c \in Conns : Expected(c)' = Expected(c)
  BY DEF Expected, Con, InAdd
<1>2. ph' \in InAdd => Con' \notin auto'
  BY DEF RowInv, Con, InAdd
<1>3. \A c \in Conns : Rows(pend[c])' = Rows(pend[c])
  BY DEF Rows
<1> QED BY <1>1, <1>2, <1>3 DEF RowInv, InAdd

(* A step that only rolls connections back, none that add_friend works on. *)
LEMMA RowsDropped ==
    ASSUME RowInv, auto \in SUBSET Conns, broken \in SUBSET Conns, UNCHANGED <<auto, broken>>,
           \A c \in Conns : pend'[c] = pend[c] \/ (pend'[c] = <<>> /\ (ph \in InAdd => c # Con)),
           \/ ph \notin InAdd /\ ph' \notin InAdd
           \/ UNCHANGED <<ph, arg>> /\ held'[Worker] = held[Worker]
    PROVE  RowInv'
<1>1. \A c \in Conns : Expected(c)' = Expected(c)
  BY DEF Expected, Con, InAdd
<1>2. ph' \in InAdd => Con' \notin auto'
  BY DEF RowInv, Con, InAdd
<1>3. \A c \in Conns : Rows(pend[c])' = Rows(pend'[c])
  BY DEF Rows
<1>4. \A c \in Conns : (ph \in InAdd => c # Con) => Expected(c) = {}
  BY DEF Expected, InAdd
<1>5. \A c \in Conns : Rows(pend'[c]) = Expected(c)
  BY <1>4, RowsEmpty DEF RowInv
<1>6. \A c \in auto' \union broken' : pend'[c] = <<>>
  BY DEF RowInv
<1> QED BY <1>1, <1>2, <1>3, <1>5, <1>6 DEF RowInv, InAdd

(* One statement outside add_friend.                                       *)
LEMMA RowsExecute ==
    ASSUME TypeOK, RowInv, Con \in Conns, NEW w \in Write, w.table # "friend",
           ph \notin InAdd, ph' \notin InAdd, UNCHANGED <<auto, broken, held>>,
           Execute(Con, w), Con \notin broken
    PROVE  RowInv'
<1>0. pend \in [Conns -> Seq(Write)] /\ auto \in SUBSET Conns /\ broken \in SUBSET Conns
  BY DEF TypeOK
<1>1. CASE pend' = pend
  BY <1>1, RowsKept
<1>2. CASE /\ Con \notin auto /\ pend'[Con] = Append(pend[Con], w)
           /\ \A d \in Conns : d # Con => pend'[d] = pend[d]
  <2>1. \A c \in Conns : Expected(c)' = {} /\ Rows(pend[c]) = {}
    BY DEF Expected, InAdd, RowInv
  <2>2. Rows(pend'[Con]) = {}
    <3>1. pend[Con] \in Seq(Write) /\ Rows(pend[Con]) = {}
      BY <1>0, <2>1
    <3>2. Rows(Append(pend[Con], w)) = Rows(pend[Con]) \union (IF w.table = "friend" THEN {w.row} ELSE {})
      BY <3>1, RowsOf
    <3> QED BY <1>2, <3>1, <3>2
  <2>3. \A c \in Conns : Rows(pend'[c]) = {}
    BY <1>2, <2>1, <2>2
  <2>4. \A c \in auto' \union broken' : pend'[c] = <<>>
    BY <1>0, <1>2 DEF RowInv
  <2>5. \A c \in Conns : Rows(pend[c])' = Rows(pend'[c])
    BY DEF Rows
  <2> QED BY <2>1, <2>3, <2>4, <2>5 DEF RowInv, InAdd
<1> QED BY <1>1, <1>2, Executes

(* The friend rows pending are those of the add_friend under way on that   *)
(* connection, whatever else is executed, committed or broken.             *)
LEMMA RowStep ==
    ASSUME PoolInv, DaoTypes, WorkInv, RowInv, [Next]_vars
    PROVE  RowInv'
<1>0. /\ pend \in [Conns -> Seq(Write)] /\ auto \in SUBSET Conns /\ broken \in SUBSET Conns
      /\ arg \in Pairs /\ held \in [Threads -> Seq(Conns)] /\ Worker \in Threads
  BY DaoAssumption DEF DaoTypes, PoolInv, PoolTypeOK
<1>t. TypeOK
  BY Zenon DEF DaoTypes, PoolInv, TypeOK
<1>c. /\ [table |-> "ask", row |-> arg] \in Write
      /\ [table |-> "accept", row |-> Flip(arg)] \in Write
      /\ [table |-> "friend", row |-> arg] \in Write
      /\ [table |-> "friend", row |-> Flip(arg)] \in Write
  BY <1>0, FlipPair DEF Write
<1>d. \A m \in Methods, f \in {"wait", "self", "peer", "commit"} : Ready(m, f) => Con \in Conns
  BY ConHeld DEF Ready, Has
<1>1. CASE UNCHANGED vars \/ (Aside /\ UNCHANGED <<db, links, work, reqs, breaks, told, outside>>)
  <2>1. UNCHANGED <<auto, pend, broken, ph, arg>> /\ held'[Worker] = held[Worker]
    BY <1>1, AsideKeeps DEF vars, poolVars, links, work, counters
  <2> QED BY <2>1, RowsKept
<1>2. CASE PoolOnly(PoolStep(Worker))
  <2>1. UNCHANGED <<auto, pend, broken, ph, arg>> /\ pc[Worker] # "out"
    BY <1>2 DEF PoolOnly, links, work, counters, PoolStep, Take, TakeNull, TestFails, Block
  <2>2. ph \notin InAdd
    BY <2>1 DEF WorkInv, InAdd
  <2> QED BY <2>1, <2>2, RowsKept
<1>3. CASE WorkerGet \/ ReadApplies \/ ReadFriends \/ NextFriend \/ ReadUser
           \/ (\E m \in {"ask", "accept", "applies"}, p \in Pairs : Request(m, p))
  <2>1. UNCHANGED <<auto, pend, broken>> /\ ph \notin InAdd /\ ph' \notin InAdd
    BY <1>3, DaoAssumption DEF WorkerGet, ReadApplies, ReadFriends, NextFriend, ReadUser, Request,
       Ready, links, work, counters, InAdd, WorkInv
  <2> QED BY <2>1, RowsKept
<1>4. CASE WorkerPut \/ WorkerNull
  <2>1. UNCHANGED <<auto, broken>> /\ Follow
        /\ (ph = "put" \/ pc[Worker] = "null")
    BY <1>4 DEF WorkerPut, WorkerNull, GiveUp, links
  <2>2. ph \notin InAdd /\ ph' \notin InAdd
    BY <2>1, FollowTypes DEF WorkInv, InAdd
  <2>3. \A c \in Conns : pend'[c] = pend[c] \/ pend'[c] = <<>>
    <3>1. CASE Return(Worker)
      BY <1>0, <3>1, Returns
    <3>2. CASE pend' = pend
      BY <3>2
    <3> QED BY <1>4, <3>1, <3>2 DEF WorkerPut, WorkerNull, links
  <2> QED BY <1>0, <2>1, <2>2, <2>3, RowsDropped
<1>5. CASE Ask
  <2>1. /\ ph \notin InAdd /\ ph' \notin InAdd /\ UNCHANGED <<auto, broken, held>>
        /\ Con \in Conns
    BY <1>5, <1>d DEF Ask, Ready, poolVars, counters, InAdd, Methods
  <2>2. CASE pend' = pend
    BY <2>1, <2>2, RowsKept
  <2>3. CASE Con \notin broken /\ Execute(Con, [table |-> "ask", row |-> arg])
    BY <1>t, <1>c, <2>1, <2>3, RowsExecute
  <2> QED BY <1>5, <2>2, <2>3 DEF Ask, Raises
<1>6. CASE Accept
  <2>1. /\ ph \notin InAdd /\ ph' \notin InAdd /\ UNCHANGED <<auto, broken, held>>
        /\ Con \in Conns
    BY <1>6, <1>d DEF Accept, Ready, poolVars, counters, InAdd, Methods
  <2>2. CASE pend' = pend
    BY <2>1, <2>2, RowsKept
  <2>3. CASE Con \notin broken /\ Execute(Con, [table |-> "accept", row |-> Flip(arg)])
    BY <1>t, <1>c, <2>1, <2>3, RowsExecute
  <2> QED BY <1>6, <2>2, <2>3 DEF Accept, Raises
<1>7. CASE Begin
  <2>1. /\ ph = "wait" /\ UNCHANGED <<pend, broken, held>> /\ ph' \in {"put", "self"}
        /\ auto' \subseteq auto /\ (ph' = "self" => Con \notin auto')
    BY <1>7 DEF Begin, Ready, poolVars, counters
  <2>2. \A c \in Conns : Expected(c)' = {} /\ Expected(c) = {}
    BY <2>1 DEF Expected
  <2>3. Con' = Con /\ \A c \in Conns : Rows(pend[c])' = Rows(pend[c])
    BY <2>1 DEF Con, Rows
  <2> QED BY <2>1, <2>2, <2>3 DEF RowInv
<1>8. ASSUME NEW phase \in {"self", "peer"}, NEW next \in {"peer", "commit"}, NEW p \in {arg, Flip(arg)},
             Insert(phase, p, next),
             phase = "self" => p = arg /\ next = "peer",
             phase = "peer" => p = Flip(arg) /\ next = "commit"
      PROVE  RowInv'
  <2>1. /\ ph = phase /\ Con \in Conns /\ UNCHANGED <<auto, broken, held, arg>> /\ Con' = Con
        /\ [table |-> "friend", row |-> p] \in Write
        /\ phase \in {"wait", "self", "peer", "commit"} /\ Con \notin auto
    BY <1>8, <1>c, <1>d DEF Insert, Ready, poolVars, counters, Methods, Con, RowInv
  <2>2. \A c \in Conns : Rows(pend[c])' = Rows(pend'[c])
    BY DEF Rows
  <2>3. CASE ph' = "put" /\ pend' = [pend EXCEPT ![Con] = <<>>]
    <3>1. \A c \in Conns : Expected(c)' = {}
      BY <2>3 DEF Expected
    <3>2. \A c \in Conns : pend'[c] = IF c = Con THEN <<>> ELSE pend[c]
      BY <1>0, <2>1, <2>3
    <3>3. \A c \in Conns : c # Con => Rows(pend[c]) = {}
      BY DEF RowInv, Expected
    <3>4. \A c \in Conns : Rows(pend'[c]) = {}
      BY <3>2, <3>3, RowsEmpty
    <3>5. \A c \in auto' \union broken' : pend'[c] = <<>>
      BY <1>0, <2>1, <3>2 DEF RowInv
    <3> QED BY <2>1, <2>2, <2>3, <3>1, <3>4, <3>5 DEF RowInv
  <2>4. CASE ph' = next /\ Con \notin broken /\ Execute(Con, [table |-> "friend", row |-> p])
    <3>1. /\ pend'[Con] = Append(pend[Con], [table |-> "friend", row |-> p])
          /\ \A d \in Conns : d # Con => pend'[d] = pend[d]
      BY <1>t, <2>1, <2>4, Executes
    <3>2. Rows(pend'[Con]) = Rows(pend[Con]) \union {p}
      <4>1. pend[Con] \in Seq(Write)
        BY <1>0, <2>1
      <4>2. Rows(Append(pend[Con], [table |-> "friend", row |-> p])) = Rows(pend[Con]) \union {p}
        BY <2>1, <4>1, RowsOf
      <4> QED BY <3>1, <4>2
    <3>3. Rows(pend[Con]) = Expected(Con)
      BY <2>1 DEF RowInv
    <3>4. Expected(Con)' = Expected(Con) \union {p}
      BY <1>8, <2>1, <2>4 DEF Expected
    <3>5. \A c \in Conns : c # Con => Rows(pend'[c]) = {} /\ Expected(c)' = {}
      BY <2>1, <3>1 DEF RowInv, Expected
    <3>6. \A c \in auto' \union broken' : pend'[c] = <<>>
      BY <1>0, <2>1, <2>4, <3>1 DEF RowInv
    <3>7. \A c \in Conns : Rows(pend[c])' = Expected(c)'
      <4> SUFFICES ASSUME NEW c \in Conns PROVE Rows(pend[c])' = Expected(c)'
        OBVIOUS
      <4>1. CASE c = Con
        <5>1. Expected(c)' = Expected(Con)'
          BY <2>1, <4>1 DEF Expected
        <5> QED BY <2>2, <3>2, <3>3, <3>4, <4>1, <5>1
      <4>2. CASE c # Con
        BY <2>2, <3>5, <4>2
      <4> QED BY <4>1, <4>2
    <3> QED BY <2>1, <2>4, <3>6, <3>7 DEF RowInv
  <2> QED BY <1>8, <2>3, <2>4 DEF Insert, Raises
<1>9. CASE InsertSelf \/ InsertPeer
  BY <1>8, <1>9 DEF InsertSelf, InsertPeer
<1>10. CASE AddFriendCommit
  <2>1. /\ ph = "commit" /\ ph' = "put" /\ Con \in Conns /\ UNCHANGED <<auto, broken, held, arg>>
        /\ (pend' = pend /\ Con \in broken) \/ pend' = [pend EXCEPT ![Con] = <<>>]
    BY <1>10, <1>d DEF AddFriendCommit, Commit, Ready, poolVars, counters, Methods
  <2>2. \A c \in Conns : Expected(c)' = {} /\ (c # Con \/ c \in broken => Expected(c) = {})
    BY <2>1 DEF Expected
  <2>3. \A c \in Conns : (pend'[c] = pend[c] /\ (c # Con \/ c \in broken)) \/ pend'[c] = <<>>
    BY <1>0, <2>1
  <2>4. \A c \in Conns : Rows(pend[c])' = Rows(pend'[c])
    BY DEF Rows
  <2>5. \A c \in Conns : Rows(pend'[c]) = {}
    BY <2>2, <2>3, RowsEmpty DEF RowInv
  <2>6. \A c \in auto' \union broken' : pend'[c] = <<>>
    BY <1>0, <2>1, <2>3 DEF RowInv
  <2> QED BY <2>1, <2>2, <2>4, <2>5, <2>6 DEF RowInv
<1>11. ASSUME NEW b \in Conns, Break(b)
       PROVE  RowInv'
  <2>1. /\ UNCHANGED <<auto, ph, arg, held>> /\ broken' = broken \union {b}
        /\ pend' = [pend EXCEPT ![b] = <<>>]
    BY <1>11 DEF Break, poolVars, work
  <2>2. \A c \in Conns : pend'[c] = IF c = b THEN <<>> ELSE pend[c]
    BY <1>0, <2>1
  <2>3. \A c \in Conns : Expected(c)' = IF c = b THEN {} ELSE Expected(c)
    BY <2>1 DEF Expected, Con
  <2>4. \A c \in Conns : Rows(pend[c])' = Rows(pend'[c])
    BY DEF Rows
  <2>5. \A c \in Conns : Rows(pend[c])' = Expected(c)'
    BY <2>2, <2>3, <2>4 DEF RowInv, Rows
  <2>6. \A c \in auto' \union broken' : pend'[c] = <<>>
    BY <1>0, <2>1, <2>2 DEF RowInv
  <2>7. ph' \in InAdd => Con' \notin auto'
    BY <2>1 DEF RowInv, Con, InAdd
  <2> QED BY <1>0, <2>1, <2>5, <2>6, <2>7 DEF RowInv, InAdd
<1>12. CASE CheckConnection
  <2>1. /\ UNCHANGED <<pend, ph, arg, held>> /\ broken' = broken \ ToSet(idle)
        /\ auto' = auto \union (ToSet(idle) \intersect broken)
    BY <1>12 DEF CheckConnection, poolVars, work, counters
  <2>2. ph \in InAdd => Con \notin ToSet(idle)
    BY ConHeld DEF Has, InAdd
  <2>3. \A c \in Conns : Expected(c)' = Expected(c)
    BY <2>1, <2>2 DEF Expected, Con, InAdd
  <2>4. \A c \in Conns : Rows(pend[c])' = Expected(c)'
    BY <2>1, <2>3 DEF RowInv, Rows
  <2>5. \A c \in auto' \union broken' : pend'[c] = <<>>
    BY <2>1 DEF RowInv
  <2>6. ph' \in InAdd => Con' \notin auto'
    BY <2>1, <2>2 DEF RowInv, Con, InAdd
  <2> QED BY <2>4, <2>5, <2>6 DEF RowInv, InAdd
<1>13. CASE CheckThrows
  <2>1. /\ UNCHANGED <<auto, ph, held>> /\ broken' = Conns
        /\ \A c \in Conns : pend'[c] = <<>>
    BY <1>13 DEF CheckThrows, poolVars, work
  <2>2. \A c \in Conns : Expected(c)' = {} /\ Rows(pend[c])' = Rows(pend'[c])
    BY <2>1 DEF Expected, Rows
  <2>3. ph' \in InAdd => Con' \notin auto'
    BY <2>1 DEF RowInv, Con, InAdd
  <2> QED BY <1>0, <2>1, <2>2, <2>3, RowsEmpty DEF RowInv, InAdd
<1>14. CASE DtorPop
  <2>1. /\ UNCHANGED <<auto, broken, ph, arg, held>>
        /\ \A c \in Conns : pend'[c] = pend[c] \/ (pend'[c] = <<>> /\ c \in ToSet(idle))
    BY <1>14 DEF DtorPop, work
  <2>2. ph \in InAdd => Con \notin ToSet(idle)
    BY ConHeld DEF Has, InAdd
  <2> QED BY <1>0, <2>1, <2>2, RowsDropped
<1>15. ASSUME NEW t \in Grpc, GrpcReturn(t)
       PROVE  RowInv'
  <2>1. t \in Threads /\ t # Worker
    BY DEF Grpc
  <2>2. /\ UNCHANGED <<auto, broken, ph, arg>> /\ PutConn(t) /\ Head(held[t]) \in ToSet(held[t])
        /\ \A c \in Conns : pend'[c] = pend[c] \/ (c = Head(held[t]) /\ pend'[c] = <<>>)
    BY <1>0, <1>15, <2>1, Returns DEF GrpcReturn, work
  <2>3. held'[Worker] = held[Worker]
    BY <1>0, <2>1, <2>2 DEF PutConn
  <2>4. ph \in InAdd => Con \in ToSet(held[Worker])
    <3> SUFFICES ASSUME ph \in InAdd PROVE Con \in ToSet(held[Worker])
      OBVIOUS
    <3>1. held[Worker] \in Seq(Conns) /\ held[Worker] # <<>>
      BY ConHeld DEF Has, InAdd
    <3> QED BY <3>1, TailOf DEF Con
  <2>5. ToSet(held[t]) \intersect ToSet(held[Worker]) = {}
    BY <1>0, <2>1 DEF PoolInv, EachOnce
  <2> QED BY <1>0, <2>2, <2>3, <2>4, <2>5, RowsDropped
<1>16. CASE FarCommit \/ FarRollback \/ \E w \in Write : FarWrite(w)
  <2>1. UNCHANGED <<auto, pend, broken, ph, arg, held>>
    BY <1>16 DEF FarCommit, FarRollback, FarWrite, poolVars, links, work
  <2> QED BY <2>1, RowsKept
<1>17. CASE Outside
  BY <1>11, <1>12, <1>13, <1>14, <1>16, <1>17 DEF Outside
<1> QED BY <1>1, <1>2, <1>3, <1>4, <1>5, <1>6, <1>7, <1>9, <1>10, <1>15, <1>17, StepKinds DEF DaoNext

(* Friendship is mutual: only the commit of both rows changes it, here or  *)
(* on another server.                                                      *)
LEMMA MutualStep ==
    ASSUME PoolInv, DaoTypes, WorkInv, RowInv, Mutual, [Next]_vars
    PROVE  Mutual'
<1>0. /\ pend \in [Conns -> Seq(Write)] /\ db \in Database /\ arg \in Pairs
  BY DEF DaoTypes
<1>t. TypeOK
  BY Zenon DEF DaoTypes, PoolInv, TypeOK
<1>c. /\ [table |-> "ask", row |-> arg] \in Write
      /\ [table |-> "accept", row |-> Flip(arg)] \in Write
      /\ [table |-> "friend", row |-> arg] \in Write
      /\ [table |-> "friend", row |-> Flip(arg)] \in Write
  BY <1>0, FlipPair DEF Write
<1>d. \A m \in Methods, f \in {"wait", "self", "peer", "commit"} : Ready(m, f) => Con \in Conns
  BY ConHeld DEF Ready, Has
<1>1. CASE db'.friend = db.friend
  BY <1>1 DEF Mutual
<1>2. ASSUME NEW w \in Write, w.table # "friend", Con \in Conns, Execute(Con, w)
      PROVE  db'.friend = db.friend
  <2>1. Rows(<<w>>) = {}
    <3>1. <<>> \in Seq(Write)
      OBVIOUS
    <3> QED BY <1>2, <3>1, RowsOf
  <2> QED BY <1>t, <1>2, <2>1, Executes
<1>3. CASE Ask
  <2>1. Con \in Conns
    BY <1>3, <1>d DEF Ask, Methods
  <2> QED BY <1>1, <1>2, <1>3, <1>c, <2>1 DEF Ask
<1>4. CASE Accept
  <2>1. Con \in Conns
    BY <1>4, <1>d DEF Accept, Methods
  <2> QED BY <1>1, <1>2, <1>4, <1>c, <2>1 DEF Accept
<1>5. ASSUME NEW phase \in {"self", "peer"}, NEW next, NEW p \in {arg, Flip(arg)}, Insert(phase, p, next)
      PROVE  db' = db
  <2>1. Con \in Conns /\ Con \notin auto /\ [table |-> "friend", row |-> p] \in Write
    BY <1>5, <1>c, <1>d DEF Insert, Ready, Methods, RowInv
  <2>2. CASE Execute(Con, [table |-> "friend", row |-> p])
    BY <1>t, <2>1, <2>2, Executes
  <2> QED BY <1>5, <2>2 DEF Insert
<1>6. CASE InsertSelf \/ InsertPeer
  BY <1>1, <1>5, <1>6 DEF InsertSelf, InsertPeer
<1>7. CASE AddFriendCommit
  <2>1. Con \in Conns /\ ph = "commit"
    BY <1>7, <1>d DEF AddFriendCommit, Ready, Methods
  <2>2. CASE Con \notin broken /\ Commit(Con)
    <3>1. pend[Con] \in Seq(Write) /\ Perform(pend[Con])
      BY <1>0, <2>1, <2>2 DEF Commit
    <3>2. db'.friend = db.friend \union Rows(pend[Con])
      BY <1>0, <3>1, Performs
    <3>3. Rows(pend[Con]) = {arg, Flip(arg)}
      BY <2>1, <2>2 DEF RowInv, Expected
    <3>4. Flip(Flip(arg)) = arg
      BY <1>0, FlipPair
    <3> QED BY <3>2, <3>3, <3>4 DEF Mutual
  <2> QED BY <1>1, <1>7, <2>2 DEF AddFriendCommit
<1>8. CASE WorkerGet \/ Begin \/ ReadApplies \/ ReadFriends \/ NextFriend \/ ReadUser
           \/ WorkerPut \/ WorkerNull
  BY <1>1, <1>8 DEF WorkerGet, Begin, ReadApplies, ReadFriends, NextFriend, ReadUser, WorkerPut,
     WorkerNull
<1>9. CASE UNCHANGED vars \/ UNCHANGED db \/ PoolOnly(PoolStep(Worker))
           \/ (\E t \in Grpc : GrpcReturn(t))
           \/ \E m \in {"ask", "accept", "applies"}, p \in Pairs : Request(m, p)
  BY <1>1, <1>9 DEF vars, PoolOnly, GrpcReturn, Request
<1>10. CASE FarCommit
  <2>1. far \in Seq(Write) /\ Perform(far) /\ \A p \in Rows(far) : Flip(p) \in Rows(far)
    BY <1>10 DEF DaoTypes, FarCommit
  <2>2. db'.friend = db.friend \union Rows(far)
    BY <1>0, <2>1, Performs
  <2> QED BY <2>1, <2>2 DEF Mutual
<1>11. CASE Outside
  BY <1>1, <1>10, <1>11 DEF Outside, FarWrite, FarRollback, Break, CheckConnection, CheckThrows,
     DtorPop
<1> QED BY <1>3, <1>4, <1>6, <1>7, <1>8, <1>9, <1>11, StepKinds DEF DaoNext

------------------------------------------------------------------------------
(* The invariant holds when the pool has been filled,                      *)
LEMMA InitDao == Init => DaoInv
<1> SUFFICES ASSUME Init PROVE DaoInv
  OBVIOUS
<1> USE DEF Init
<1>1. PoolInv
  BY PoolInitInv
<1>2. DaoTypes
  <2>1. db \in Database
    <3>1. [p \in Pairs |-> "none"] \in [Pairs -> {"none", "asked", "accepted"}]
      OBVIOUS
    <3> QED BY <3>1, Zenon DEF Database
  <2>2. pend \in [Conns -> Seq(Write)]
    OBVIOUS
  <2>3. far \in Seq(Write) /\ fars \in 0..MaxFar
    BY DaoAssumption
  <2>4. crashed \in BOOLEAN
    BY Zenon
  <2> QED BY <2>1, <2>2, <2>3, <2>4, DaoAssumption DEF DaoTypes, Phases
<1>3. WorkInv
  BY DaoAssumption DEF PoolInit, WorkInv, Has
<1>4. RowInv
  BY RowsEmpty DEF RowInv, Expected
<1>5. Mutual
  BY DEF Mutual
<1> QED BY <1>1, <1>2, <1>3, <1>4, <1>5, SoundParts DEF DaoInv

(* and every step keeps it.                                                *)
LEMMA StepDao == DaoInv /\ [Next]_vars => DaoInv'
<1> SUFFICES ASSUME DaoInv, [Next]_vars PROVE DaoInv'
  OBVIOUS
<1>1. PoolInv /\ DaoTypes /\ WorkInv /\ RowInv /\ Mutual
  BY SoundParts DEF DaoInv
<1>2. PoolInv' /\ DaoTypes'
  BY <1>1, PoolInvStep, TypesStep
<1>3. PoolSound'
  BY <1>2, Zenon DEF PoolSound, PoolInv, TypeOK, DaoTypes
<1> QED BY <1>1, <1>3, WorkStep, RowStep, MutualStep DEF DaoInv

(* The invariant of the pool of connections and of mysql_dao, for any      *)
(* threads, connections, users and bounds: the pool stays sound under the  *)
(* methods (PoolSound), the worker holds the connection it uses, also      *)
(* while get_user runs inside get_friend_list (WorkInv), and the friend    *)
(* rows that are pending on a connection are those of the add_friend under *)
(* way on it (RowInv).                                                     *)
THEOREM DaoInductive == Spec => []DaoInv
BY InitDao, StepDao, PTL DEF Spec

(* No connection is in the queue and with a thread at once, lost or handed *)
(* to two threads, and nobody sleeps beside an idle one.                   *)
THEOREM ConnectionsOnce == Spec => []PoolSound
<1>1. DaoInv => PoolSound
  BY Zenon DEF DaoInv
<1> QED BY <1>1, DaoInductive, PTL

(* What is committed of add_friend makes friends of both or of neither,    *)
(* although the two rows are two statements, the connection may break or   *)
(* meet another server's lock between them, and autocommit stays off on    *)
(* the connections it was used on.                                         *)
THEOREM FriendsMutual == Spec => []Mutual
<1>1. DaoInv => Mutual
  BY Zenon DEF DaoInv
<1> QED BY <1>1, DaoInductive, PTL
==============================================================================
