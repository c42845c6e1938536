-------------------------- MODULE ChatClusterProofs --------------------------
(***************************************************************************)
(* Proof that the chat servers deliver a message for a user only on        *)
(* sessions that have authenticated as that user, for any servers, users,  *)
(* connections, requests and tokens.                                       *)
(*                                                                         *)
(* The argument: authed only grows, and every place from which a delivery  *)
(* takes its session (user_mgr, the worker's look-up, a gRPC thread's      *)
(* look-up) holds sessions authenticated as the user of the request.  That *)
(* the request of a look-up does not change under it rests on requests     *)
(* being queued and called for only once they have arrived.                *)
(*                                                                         *)
(* Then, from the same types: the login counts are exact, a user is        *)
(* reachable until a session of the server ends, and a session that has    *)
(* ended is forgotten unless its login or its clearing was late.           *)
(***************************************************************************)
EXTENDS ChatCluster, TLAPS

(* The initial states satisfy the invariant: nothing is bound, queued or   *)
(* delivered.                                                              *)
LEMMA InitInductive == Init => IndInv
<1> SUFFICES ASSUME Init PROVE IndInv
    OBVIOUS
<1>1. TypeOK
    BY BoundsAssumption DEF Init, TypeOK, ServerState, WorkerPC, Call, NoCall, Unsent, Request
<1>2. DeliveredToUser /\ BoundToUser /\ QueuedArrived /\ WorkerHolds /\ CallHolds
    BY DEF Init, DeliveredToUser, BoundToUser, QueuedArrived, WorkerHolds, CallHolds, NoCall
<1> QED
    BY <1>1, <1>2 DEF IndInv

(* csession::send puts requests on record as delivered, and nothing else.  *)
LEMMA DeliverTyped ==
    ASSUME NEW c, NEW r \in Reqs, delivered \in [Conns -> SUBSET Reqs], Deliver(c, r)
    PROVE  delivered' \in [Conns -> SUBSET Reqs]
<1>1. CASE delivered' = [delivered EXCEPT ![c] = @ \union {r}]
    BY <1>1
<1>2. CASE UNCHANGED delivered
    BY <1>2
<1> QED
    BY <1>1, <1>2 DEF Deliver

(* The request a worker is at has arrived.                                 *)
LEMMA CurrentTyped ==
    ASSUME IndInv, NEW s \in Servers, wpc[s] # "idle" \/ que[s] # <<>>
    PROVE  /\ que[s] # <<>> /\ Head(que[s]) \in Reqs /\ Tail(que[s]) \in Seq(Reqs)
           /\ Current(s) \in Request /\ Current(s) = req[Head(que[s])]
           /\ Current(s).conn \in Conns /\ Current(s).user \in Users
<1>0. que[s] # <<>>
    BY DEF IndInv, QueuedArrived
<1>1. /\ que[s] \in Seq(Reqs) /\ Head(que[s]) \in Reqs /\ Tail(que[s]) \in Seq(Reqs)
      /\ Head(que[s]) = que[s][1] /\ 1 \in 1..Len(que[s])
    BY <1>0 DEF IndInv, TypeOK
<1>2. req[Head(que[s])] # Unsent /\ req[Head(que[s])] \in Request \union {Unsent}
    BY <1>1 DEF IndInv, QueuedArrived, TypeOK
<1>3. \A q \in Request : q.conn \in Conns /\ q.user \in Users
    BY DEF Request
<1> QED
    BY <1>0, <1>1, <1>2, <1>3 DEF Current

(* The end of a server's process keeps the types.                          *)
LEMMA DieTypeOK ==
    ASSUME TypeOK, NEW s \in Servers, NEW state \in ServerState, Die(s, state),
           ends' \in 0..MaxEnds
    PROVE  TypeOK'
<1>1. task' \in [Reqs -> Call]
    BY DEF TypeOK, Die, Call, NoCall
<1>2. cpc' \in [Conns -> {"none", "open", "clear", "rm", "erase", "gone"}]
    BY DEF TypeOK, Die
<1>3. /\ srv' \in [Servers -> ServerState] /\ que' \in [Servers -> Seq(Reqs)]
      /\ wpc' \in [Servers -> WorkerPC] /\ cnt' \in [Servers -> Int]
      /\ found' \in [Servers -> Conns \union {None}]
      /\ usess' \in [Servers -> [Users -> Conns \union {None}]]
    BY DEF TypeOK, Die, WorkerPC
<1>4. sessions' \in SUBSET Conns /\ unlisted' \in SUBSET Conns
    BY DEF TypeOK, Die
<1> QED
    BY <1>1, <1>2, <1>3, <1>4 DEF TypeOK, Die, redis, history

(* Every step keeps the types.                                             *)
LEMMA StepTypeOK == IndInv /\ [Next]_vars => TypeOK'
<1> SUFFICES ASSUME IndInv, [Next]_vars PROVE TypeOK'
    OBVIOUS
<1>0. TypeOK
    BY DEF IndInv
<1> USE BoundsAssumption DEF redis, worker, conns, history
<1>1. ASSUME NEW s \in Servers, Start(s) PROVE TypeOK'
    BY <1>0, <1>1 DEF Start, TypeOK, ServerState
<1>2. ASSUME NEW s \in Servers, Signal(s) PROVE TypeOK'
    BY <1>0, <1>2 DEF Signal, TypeOK, ServerState
<1>3. ASSUME NEW s \in Servers, Hdel(s) PROVE TypeOK'
    BY <1>0, <1>3 DEF Hdel, TypeOK, ServerState
<1>4. ASSUME NEW s \in Servers, CloseRedis(s) PROVE TypeOK'
    BY <1>0, <1>4 DEF CloseRedis, TypeOK, ServerState
<1>5. ASSUME NEW s \in Servers, Exit(s) PROVE TypeOK'
  <2>1. Die(s, "down") /\ "down" \in ServerState /\ ends' \in 0..MaxEnds
    BY <1>0, <1>5 DEF Exit, ServerState, TypeOK
  <2> QED
    BY <1>0, <2>1, DieTypeOK
<1>6. ASSUME NEW s \in Servers, Crash(s) PROVE TypeOK'
  <2>1. Die(s, "crashed") /\ "crashed" \in ServerState /\ ends' \in 0..MaxEnds
    BY <1>0, <1>6 DEF Crash, ServerState, TypeOK
  <2> QED
    BY <1>0, <2>1, DieTypeOK
<1>7. ASSUME NEW s \in Servers, RpcFail(s) PROVE TypeOK'
    BY <1>0, <1>7 DEF RpcFail, TypeOK, Goto, WorkerPC
<1>8. ASSUME NEW s \in Servers, NullConnection(s) PROVE TypeOK'
  <2>1. Die(s, "crashed") /\ "crashed" \in ServerState /\ ends' \in 0..MaxEnds
    BY <1>0, <1>8 DEF NullConnection, ServerState, TypeOK
  <2> QED
    BY <1>0, <2>1, DieTypeOK
<1>9. ASSUME NEW s \in Servers, LoginCheck(s) PROVE TypeOK'
  <2>1. wpc[s] # "idle" \/ que[s] # <<>>
    BY <1>9 DEF LoginCheck, Serving, Goto
  <2>2. Current(s).conn \in Conns /\ Current(s).user \in Users
    BY <2>1, CurrentTyped
  <2>3. authed' = authed \/ authed' = [authed EXCEPT ![Current(s).conn] = @ \union {Current(s).user}]
    BY <1>9 DEF LoginCheck
  <2>4. authed' \in [Conns -> SUBSET Users]
    <3>1. authed \in [Conns -> SUBSET Users]
      BY <1>0 DEF TypeOK
    <3>2. authed[Current(s).conn] \union {Current(s).user} \in SUBSET Users
      BY <2>2, <3>1
    <3> QED
      BY <2>2, <2>3, <3>1, <3>2
  <2>5. wpc' \in [Servers -> WorkerPC]
    BY <1>0, <1>9 DEF TypeOK, LoginCheck, Goto, WorkerPC
  <2> QED
    BY <1>0, <1>9, <2>4, <2>5 DEF TypeOK, LoginCheck
<1>10. ASSUME NEW s \in Servers, LoginCount(s) PROVE TypeOK'
    BY <1>0, <1>10 DEF LoginCount, TypeOK, Goto, WorkerPC
<1>11. ASSUME NEW s \in Servers, LoginStore(s) PROVE TypeOK'
    BY <1>0, <1>11 DEF LoginStore, TypeOK, Goto, WorkerPC
<1>12. ASSUME NEW s \in Servers, LoginBind(s) PROVE TypeOK'
  <2>1. wpc[s] # "idle" \/ que[s] # <<>>
    BY <1>12 DEF LoginBind, At, Goto
  <2>2. wpc' \in [Servers -> WorkerPC]
    BY <1>0, <1>12 DEF TypeOK, LoginBind, At, Goto, WorkerPC
  <2> QED
    BY <1>0, <1>12, <2>1, <2>2, CurrentTyped DEF TypeOK, LoginBind
<1>13. ASSUME NEW s \in Servers, LoginHome(s) PROVE TypeOK'
  <2>1. wpc[s] # "idle" \/ que[s] # <<>>
    BY <1>13 DEF LoginHome, At, Goto
  <2>2. wpc' \in [Servers -> WorkerPC]
    BY <1>0, <1>13 DEF TypeOK, LoginHome, At, Goto, WorkerPC
  <2> QED
    BY <1>0, <1>13, <2>1, <2>2, CurrentTyped DEF TypeOK, LoginHome
<1>14. ASSUME NEW s \in Servers, LoginMap(s) PROVE TypeOK'
  <2>1. wpc[s] # "idle" \/ que[s] # <<>>
    BY <1>14 DEF LoginMap, At, Goto
  <2>2. wpc' \in [Servers -> WorkerPC]
    BY <1>0, <1>14 DEF TypeOK, LoginMap, Goto, WorkerPC
  <2>3. Current(s).conn \in Conns /\ Current(s).user \in Users
    BY <2>1, CurrentTyped
  <2>4. usess' \in [Servers -> [Users -> Conns \union {None}]]
    BY <1>0, <1>14, <2>3 DEF TypeOK, LoginMap
  <2> QED
    BY <1>0, <1>14, <2>2, <2>3, <2>4 DEF TypeOK, LoginMap
<1>15. ASSUME NEW s \in Servers, NotifyRoute(s) PROVE TypeOK'
  <2>1. wpc[s] # "idle" \/ que[s] # <<>>
    BY <1>15 DEF NotifyRoute, Serving, Goto
  <2>2. Head(que[s]) \in Reqs
    BY <2>1, CurrentTyped
  <2>3. wpc' \in [Servers -> WorkerPC]
    BY <1>0, <1>15, ZenonT(40) DEF TypeOK, NotifyRoute, Serving, Goto, WorkerPC
  <2>4. \A h \in Servers : [st |-> "sent", to |-> h, conn |-> None] \in Call
    BY DEF Call
  <2>5. task' \in [Reqs -> Call]
    <3>1. CASE UNCHANGED task
      BY <1>0, <3>1 DEF TypeOK
    <3>2. CASE \E h \in Servers : task' = [task EXCEPT ![Head(que[s])] =
                                          [st |-> "sent", to |-> h, conn |-> None]]
      BY <1>0, <2>2, <2>4, <3>2 DEF TypeOK
    <3> QED
      BY <1>15, <3>1, <3>2 DEF NotifyRoute
  <2> QED
    BY <1>0, <1>15, <2>3, <2>5 DEF TypeOK, NotifyRoute
<1>16. ASSUME NEW s \in Servers, NotifyFind(s) PROVE TypeOK'
  <2>1. wpc[s] # "idle" \/ que[s] # <<>>
    BY <1>16 DEF NotifyFind, At, Goto
  <2>2. wpc' \in [Servers -> WorkerPC]
    BY <1>0, <1>16 DEF TypeOK, NotifyFind, Goto, WorkerPC
  <2>3. Current(s).conn \in Conns /\ Current(s).user \in Users
    BY <2>1, CurrentTyped
  <2>4. found' \in [Servers -> Conns \union {None}]
    BY <1>0, <1>16, <2>3 DEF TypeOK, NotifyFind
  <2> QED
    BY <1>0, <1>16, <2>2, <2>3, <2>4 DEF TypeOK, NotifyFind
<1>17. ASSUME NEW s \in Servers, NotifySend(s) PROVE TypeOK'
  <2>1. wpc[s] # "idle" \/ que[s] # <<>>
    BY <1>17 DEF NotifySend, At, Goto
  <2>2. Head(que[s]) \in Reqs
    BY <2>1, CurrentTyped
  <2>3. wpc' \in [Servers -> WorkerPC]
    BY <1>0, <1>17 DEF TypeOK, NotifySend, At, Goto, WorkerPC
  <2>4. delivered' \in [Conns -> SUBSET Reqs]
    <3>1. Deliver(found[s], Head(que[s]))
      BY <1>17 DEF NotifySend
    <3>2. delivered \in [Conns -> SUBSET Reqs]
      BY <1>0 DEF TypeOK
    <3> QED
      BY <2>2, <3>1, <3>2, DeliverTyped
  <2> QED
    BY <1>0, <1>17, <2>3, <2>4 DEF TypeOK, NotifySend
<1>18. ASSUME NEW s \in Servers, RpcReturn(s) PROVE TypeOK'
    BY <1>0, <1>18 DEF RpcReturn, TypeOK, Goto, WorkerPC
<1>19. ASSUME NEW s \in Servers, Reply(s) PROVE TypeOK'
  <2>1. wpc[s] # "idle" \/ que[s] # <<>>
    BY <1>19 DEF Reply, At, Goto
  <2>2. wpc' \in [Servers -> WorkerPC]
    BY <1>0, <1>19 DEF TypeOK, Reply, At, Goto, WorkerPC
  <2> QED
    BY <1>0, <1>19, <2>1, <2>2, CurrentTyped DEF TypeOK, Reply
<1>20. ASSUME NEW c \in Conns, Insert(c) PROVE TypeOK'
    BY <1>0, <1>20 DEF Insert, TypeOK
<1>21. ASSUME NEW c \in Conns, Close(c) PROVE TypeOK'
    BY <1>0, <1>21 DEF Close, TypeOK
<1>22. ASSUME NEW c \in Conns, ClearRm(c) PROVE TypeOK'
    BY <1>0, <1>22 DEF ClearRm, TypeOK
<1>23. ASSUME NEW c \in Conns, ClearErase(c) PROVE TypeOK'
    BY <1>0, <1>23 DEF ClearErase, TypeOK
<1>24. ASSUME NEW c \in Conns, NEW v \in Users \union {None}, ClearFind(c, v) PROVE TypeOK'
    BY <1>0, <1>24 DEF ClearFind, TypeOK
<1>25. ASSUME NEW c \in Conns, NEW s \in Servers, Accept(c, s) PROVE TypeOK'
    BY <1>0, <1>25 DEF Accept, TypeOK
<1>26. ASSUME NEW c \in Conns, NEW r \in Reqs, NEW q \in Request, Post(c, r, q) PROVE TypeOK'
  <2>1. que' \in [Servers -> Seq(Reqs)]
    <3>1. at[c] \in Servers => Append(que[at[c]], r) \in Seq(Reqs)
      BY <1>0 DEF TypeOK
    <3> QED
      BY <1>0, <1>26, <3>1 DEF TypeOK, Post
  <2>2. req' \in [Reqs -> Request \union {Unsent}]
    BY <1>0, <1>26 DEF TypeOK, Post
  <2> QED
    BY <1>0, <1>26, <2>1, <2>2 DEF TypeOK, Post
<1>27. ASSUME NEW r \in Reqs, RpcFind(r) PROVE TypeOK'
  <2>1. task' \in [Reqs -> Call]
    <3>1. usess[task[r].to][req[r].user] \in Conns \union {None}
      <4>1. task[r].to \in Servers
        BY <1>27 DEF IndInv, CallHolds, RpcFind
      <4>2. req[r].user \in Users
        BY <1>0, <1>27 DEF TypeOK, IndInv, CallHolds, RpcFind, Request
      <4> QED
        BY <1>0, <4>1, <4>2 DEF TypeOK
    <3>2. \A t \in Call, c \in Conns \union {None} :
              [t EXCEPT !.conn = c, !.st = IF c = None THEN "ok" ELSE "found"] \in Call
      BY DEF Call
    <3> QED
      BY <1>0, <1>27, <3>1, <3>2 DEF TypeOK, RpcFind
  <2> QED
    BY <1>0, <1>27, <2>1 DEF TypeOK, RpcFind
<1>28. ASSUME NEW r \in Reqs, RpcSend(r) PROVE TypeOK'
  <2>1. task' \in [Reqs -> Call]
    <3>1. \A t \in Call : [t EXCEPT !.st = "ok"] \in Call
      BY DEF Call
    <3> QED
      BY <1>0, <1>28, <3>1 DEF TypeOK, RpcSend
  <2>2. delivered' \in [Conns -> SUBSET Reqs]
    <3>1. Deliver(task[r].conn, r)
      BY <1>28 DEF RpcSend
    <3>2. delivered \in [Conns -> SUBSET Reqs]
      BY <1>0 DEF TypeOK
    <3> QED
      BY <3>1, <3>2, DeliverTyped
  <2> QED
    BY <1>0, <1>28, <2>1, <2>2 DEF TypeOK, RpcSend
<1>29. ASSUME NEW u \in Users, IssueToken(u) PROVE TypeOK'
    BY <1>0, <1>29 DEF IssueToken, TypeOK
<1>30. CASE UNCHANGED vars
    BY <1>0, <1>30 DEF vars, TypeOK
<1> QED
    BY <1>1, <1>2, <1>3, <1>4, <1>5, <1>6, <1>7, <1>8, <1>9, <1>10, <1>11, <1>12, <1>13, <1>14, <1>15,
       <1>16, <1>17, <1>18, <1>19, <1>20, <1>21, <1>22, <1>23, <1>24, <1>25, <1>26, <1>27, <1>28, <1>29, <1>30
    DEF Next, ServerStep, WorkerStep, LoginStep, NotifyStep, ConnStep, RpcStep

(* What a session has authenticated as stays, and so does a request that   *)
(* has arrived.                                                            *)
LEMMA Monotone ==
    ASSUME IndInv, [Next]_vars
    PROVE  /\ \A c \in Conns : authed[c] \subseteq authed'[c]
           /\ \A r \in Reqs : req[r] # Unsent => req'[r] = req[r]
<1>1. UNCHANGED authed \/ \E s \in Servers : LoginCheck(s)
    BY ZenonT(40) DEF Next, ServerStep, WorkerStep, LoginStep, NotifyStep, ConnStep, RpcStep, vars, history,
           Start, Signal, Hdel, CloseRedis, Exit, Crash, NullConnection, Die, RpcFail,
           LoginCount, LoginStore, LoginBind, LoginHome, LoginMap,
           NotifyRoute, NotifyFind, NotifySend, RpcReturn, Reply, Insert, Close, ClearRm,
           ClearErase, ClearFind, Accept, Post, RpcFind, RpcSend, IssueToken
<1>2. UNCHANGED req \/ \E c \in Conns, r \in Reqs, q \in Request : Post(c, r, q)
    BY ZenonT(40) DEF Next, ServerStep, WorkerStep, LoginStep, NotifyStep, ConnStep, RpcStep, vars,
           Start, Signal, Hdel, CloseRedis, Exit, Crash, NullConnection, Die, RpcFail, LoginCheck,
           LoginCount, LoginStore, LoginBind, LoginHome, LoginMap,
           NotifyRoute, NotifyFind, NotifySend, RpcReturn, Reply, Insert, Close, ClearRm,
           ClearErase, ClearFind, Accept, RpcFind, RpcSend, IssueToken
<1>3. ASSUME NEW s \in Servers, LoginCheck(s)
      PROVE  \A c \in Conns : authed[c] \subseteq authed'[c]
    BY <1>3, ZenonT(40) DEF LoginCheck, IndInv, TypeOK
<1>4. ASSUME NEW c \in Conns, NEW r \in Reqs, NEW q \in Request, Post(c, r, q)
      PROVE  \A p \in Reqs : req[p] # Unsent => req'[p] = req[p]
    BY <1>4 DEF Post, IndInv, TypeOK
<1> QED
    BY <1>1, <1>2, <1>3, <1>4, SMTT(40)

(* Deliveries are made by NotifySend and RpcSend only, on the sessions that *)
(* were looked up for the user.                                            *)
LEMMA StepDelivered == IndInv /\ [Next]_vars => DeliveredToUser'
<1> SUFFICES ASSUME IndInv, [Next]_vars, NEW c \in Conns, NEW r \in delivered'[c]
             PROVE  req'[r].user \in authed'[c]
    BY DEF DeliveredToUser
<1>0. TypeOK /\ TypeOK' /\ r \in Reqs
    BY StepTypeOK DEF IndInv, TypeOK
<1>1. ASSUME r \in Reqs, req[r].user \in authed[c] PROVE req'[r].user \in authed'[c]
  <2>1. req[r].user \in Users
    BY <1>0, <1>1 DEF TypeOK
  <2>2. req[r] # Unsent
    BY <2>1, NoneAssumption DEF Unsent
  <2> QED
    BY <1>1, <2>2, Monotone
<1>2. CASE r \in delivered[c]
    BY <1>0, <1>1, <1>2 DEF IndInv, DeliveredToUser
<1>3. ASSUME NEW s \in Servers, NotifySend(s), r \notin delivered[c]
      PROVE  req[r].user \in authed[c]
  <2>1. c = found[s] /\ r = Head(que[s]) /\ wpc[s] = "send"
    BY <1>0, <1>3 DEF NotifySend, Deliver, At, TypeOK
  <2> QED
    BY <2>1 DEF IndInv, WorkerHolds, Current
<1>4. ASSUME NEW p \in Reqs, RpcSend(p), r \notin delivered[c]
      PROVE  req[r].user \in authed[c]
  <2>1. c = task[p].conn /\ r = p /\ task[p].st = "found"
    BY <1>0, <1>4, SMTT(40) DEF RpcSend, Deliver, TypeOK
  <2> QED
    BY <2>1 DEF IndInv, CallHolds
<1>5. UNCHANGED delivered \/ (\E s \in Servers : NotifySend(s)) \/ (\E p \in Reqs : RpcSend(p))
    BY ZenonT(40) DEF Next, ServerStep, WorkerStep, LoginStep, NotifyStep, ConnStep, RpcStep, vars,
           Start, Signal, Hdel, CloseRedis, Exit, Crash, NullConnection, RpcFail,
           LoginCheck, LoginCount, LoginStore, LoginBind, LoginHome, LoginMap, NotifyRoute,
           NotifyFind, RpcReturn, Reply, Insert, Close, ClearRm, ClearErase, ClearFind,
           Accept, Post, RpcFind, IssueToken, Die, history
<1> QED
    BY <1>0, <1>1, <1>2, <1>3, <1>4, <1>5

(* user_mgr is written by logins that are past their token check.          *)
LEMMA StepBound == IndInv /\ [Next]_vars => BoundToUser'
<1> SUFFICES ASSUME IndInv, [Next]_vars, NEW t \in Servers, NEW u \in Users, usess'[t][u] # None
             PROVE  u \in authed'[usess'[t][u]]
    BY DEF BoundToUser
<1>0. TypeOK /\ TypeOK' /\ usess'[t][u] \in Conns
  <2>1. TypeOK /\ TypeOK'
    BY StepTypeOK DEF IndInv
  <2>2. usess' \in [Servers -> [Users -> Conns \union {None}]]
    BY <2>1 DEF TypeOK
  <2> QED
    BY <2>1, <2>2
<1>1. CASE usess'[t][u] = usess[t][u]
    BY <1>0, <1>1, Monotone DEF IndInv, BoundToUser
<1>2. ASSUME NEW s \in Servers, LoginMap(s), usess'[t][u] # usess[t][u]
      PROVE  u \in authed[usess'[t][u]]
  <2>1. wpc[s] = "map" /\ Current(s).user \in authed[Current(s).conn]
    BY <1>2 DEF LoginMap, At, IndInv, WorkerHolds
  <2>2. t = s /\ u = Current(s).user /\ usess'[t][u] = Current(s).conn
    BY <1>0, <1>2 DEF LoginMap, TypeOK
  <2> QED
    BY <2>1, <2>2
<1>3. ASSUME NEW c \in Conns, ClearRm(c) PROVE usess'[t][u] = usess[t][u]
    BY <1>0, <1>3 DEF ClearRm, TypeOK
<1>4. ASSUME NEW s \in Servers, NEW state \in ServerState, Die(s, state)
      PROVE  usess'[t][u] = usess[t][u]
    BY <1>0, <1>4 DEF Die, TypeOK
<1>5. \/ UNCHANGED usess
      \/ \E s \in Servers : LoginMap(s)
      \/ \E c \in Conns : ClearRm(c)
      \/ \E s \in Servers, state \in ServerState : Die(s, state)
    BY ZenonT(40) DEF Next, ServerStep, WorkerStep, LoginStep, NotifyStep, ConnStep, RpcStep, vars,
           Start, Signal, Hdel, CloseRedis, Exit, Crash, NullConnection, RpcFail,
           LoginCheck, LoginCount, LoginStore, LoginBind, LoginHome, NotifyRoute,
           NotifyFind, NotifySend, RpcReturn, Reply, Insert, Close, ClearErase, ClearFind,
           Accept, Post, RpcFind, RpcSend, IssueToken, ServerState
<1> QED
    BY <1>0, <1>1, <1>2, <1>3, <1>4, <1>5, Monotone

(* Calls are made for the request at the head of a queue, and look the user *)
(* up in user_mgr.                                                         *)
LEMMA StepCall == IndInv /\ [Next]_vars => CallHolds'
<1> SUFFICES ASSUME IndInv, [Next]_vars, NEW r \in Reqs, task'[r].st # "none"
             PROVE  /\ req'[r] # Unsent /\ task'[r].to \in Servers
                    /\ task'[r].st = "found" =>
                           task'[r].conn # None /\ req'[r].user \in authed'[task'[r].conn]
    BY DEF CallHolds
<1>0. TypeOK /\ TypeOK'
    BY StepTypeOK DEF IndInv
<1>1. ASSUME req[r] # Unsent
      PROVE  /\ req'[r] = req[r] /\ req[r].user \in Users
             /\ \A c \in Conns : authed[c] \subseteq authed'[c]
    BY <1>0, <1>1, Monotone DEF TypeOK, Request
<1>2. CASE task'[r] = task[r]
  <2>1. req[r] # Unsent /\ task[r].to \in Servers
    BY <1>2 DEF IndInv, CallHolds
  <2>2. ASSUME task[r].st = "found"
        PROVE  task[r].conn \in Conns /\ req[r].user \in authed[task[r].conn]
    BY <1>0, <2>2 DEF IndInv, CallHolds, TypeOK, Call
  <2>3. task[r].conn \in Conns => task[r].conn # None
    BY NoneAssumption, BoundsAssumption DEF Conns
  <2> QED
    BY <1>1, <1>2, <2>1, <2>2, <2>3
<1>3. ASSUME NEW s \in Servers, NotifyRoute(s), task'[r] # task[r]
      PROVE  req[r] # Unsent /\ task'[r].to \in Servers /\ task'[r].st = "sent"
  <2>1. Head(que[s]) \in Reqs /\ req[Head(que[s])] \in Request
    BY <1>3, CurrentTyped DEF NotifyRoute, Serving
  <2>2. r = Head(que[s]) /\ task'[r].to \in Servers /\ task'[r].st = "sent"
    BY <1>0, <1>3, <2>1 DEF NotifyRoute, TypeOK
  <2> QED
    BY <2>1, <2>2 DEF Request, Unsent
<1>4. ASSUME NEW p \in Reqs, RpcFind(p), task'[r] # task[r]
      PROVE  /\ req[r] # Unsent /\ task'[r].to \in Servers
             /\ task'[r].st = "found" =>
                    task'[r].conn \in Conns /\ req[r].user \in authed[task'[r].conn]
  <2>1. r = p /\ task[r].st = "sent"
    BY <1>0, <1>4 DEF RpcFind, TypeOK
  <2>2. req[r] # Unsent /\ task[r].to \in Servers /\ task[r] \in Call
    BY <1>0, <2>1, SMTT(40) DEF IndInv, CallHolds, TypeOK
  <2>3. req[r].user \in Users
    BY <1>1, <2>2
  <2>4. /\ task'[r].to = task[r].to
        /\ task'[r].conn = usess[task[r].to][req[r].user]
        /\ task'[r].st = IF task'[r].conn = None THEN "ok" ELSE "found"
    BY <1>0, <1>4, <2>1, <2>2 DEF RpcFind, TypeOK, Call
  <2>5. usess[task[r].to][req[r].user] \in Conns \union {None}
    BY <1>0, <2>2, <2>3 DEF TypeOK
  <2> QED
    BY <2>2, <2>3, <2>4, <2>5 DEF IndInv, BoundToUser
<1>5. ASSUME NEW p \in Reqs, RpcSend(p), task'[r] # task[r]
      PROVE  req[r] # Unsent /\ task'[r].to \in Servers /\ task'[r].st = "ok"
  <2>1. r = p /\ task[r].st = "found" /\ task[r] \in Call
    BY <1>0, <1>5 DEF RpcSend, TypeOK
  <2>2. task'[r].st = "ok" /\ task'[r].to = task[r].to
    BY <1>0, <1>5, <2>1 DEF RpcSend, TypeOK, Call
  <2> QED
    BY <2>1, <2>2 DEF IndInv, CallHolds
<1>6. ASSUME NEW s \in Servers, NEW state \in ServerState, Die(s, state)
      PROVE  task'[r] = task[r]
    BY <1>6 DEF Die, NoCall
<1>7. \/ UNCHANGED task
      \/ \E s \in Servers : NotifyRoute(s)
      \/ \E p \in Reqs : RpcFind(p) \/ RpcSend(p)
      \/ \E s \in Servers, state \in ServerState : Die(s, state)
    BY ZenonT(40) DEF Next, ServerStep, WorkerStep, LoginStep, NotifyStep, ConnStep, RpcStep, vars,
           Start, Signal, Hdel, CloseRedis, Exit, Crash, NullConnection, RpcFail,
           LoginCheck, LoginCount, LoginStore, LoginBind, LoginHome, LoginMap, NotifyFind,
           NotifySend, RpcReturn, Reply, Insert, Close, ClearRm, ClearErase, ClearFind,
           Accept, Post, IssueToken, ServerState
<1>8. \A c \in Conns : c # None
    BY NoneAssumption, BoundsAssumption DEF Conns
<1> QED
    BY <1>1, <1>2, <1>3, <1>4, <1>5, <1>6, <1>7, <1>8

(* The steps a worker takes at one request.                                *)
Moves(s) ==
    LoginStep(s) \/ NotifyStep(s) \/ RpcFail(s)

(* Only these, its answer, an arrival and the end of a server change what  *)
(* a worker is at.                                                         *)
LEMMA WorkerFrame ==
    ASSUME IndInv, [Next]_vars
    PROVE  \/ UNCHANGED <<que, wpc, found>>
           \/ \E s \in Servers : Moves(s) \/ Reply(s)
           \/ \E s \in Servers, state \in ServerState : Die(s, state)
           \/ \E c \in Conns, r \in Reqs, q \in Request : Post(c, r, q)
    BY ZenonT(40) DEF Moves, Next, ServerStep, WorkerStep, LoginStep, NotifyStep, ConnStep, RpcStep, vars,
           Start, Signal, Hdel, CloseRedis, Exit, Crash, NullConnection, Insert, Close,
           ClearRm, ClearErase, ClearFind, Accept, RpcFind, RpcSend, IssueToken,
           ServerState, worker

(* They leave the queues as they are, and the workers of the other servers. *)
LEMMA MovesKeep ==
    ASSUME IndInv, NEW s \in Servers, Moves(s)
    PROVE  /\ que[s] # <<>> /\ UNCHANGED que
           /\ \A t \in Servers : t # s => wpc'[t] = wpc[t] /\ found'[t] = found[t]
<1>0. TypeOK
    BY DEF IndInv
<1>1. ASSUME LoginCheck(s)
      PROVE  /\ que[s] # <<>> /\ UNCHANGED que
             /\ \A t \in Servers : t # s => wpc'[t] = wpc[t] /\ found'[t] = found[t]
    BY <1>0, <1>1 DEF LoginCheck, Serving, Goto, TypeOK, IndInv, QueuedArrived
<1>2. ASSUME LoginCount(s)
      PROVE  /\ que[s] # <<>> /\ UNCHANGED que
             /\ \A t \in Servers : t # s => wpc'[t] = wpc[t] /\ found'[t] = found[t]
    BY <1>0, <1>2 DEF LoginCount, At, Goto, TypeOK, IndInv, QueuedArrived
<1>3. ASSUME LoginStore(s)
      PROVE  /\ que[s] # <<>> /\ UNCHANGED que
             /\ \A t \in Servers : t # s => wpc'[t] = wpc[t] /\ found'[t] = found[t]
    BY <1>0, <1>3 DEF LoginStore, At, Goto, TypeOK, IndInv, QueuedArrived
<1>4. ASSUME LoginBind(s)
      PROVE  /\ que[s] # <<>> /\ UNCHANGED que
             /\ \A t \in Servers : t # s => wpc'[t] = wpc[t] /\ found'[t] = found[t]
    BY <1>0, <1>4 DEF LoginBind, At, Goto, TypeOK, IndInv, QueuedArrived
<1>5. ASSUME LoginHome(s)
      PROVE  /\ que[s] # <<>> /\ UNCHANGED que
             /\ \A t \in Servers : t # s => wpc'[t] = wpc[t] /\ found'[t] = found[t]
    BY <1>0, <1>5 DEF LoginHome, At, Goto, TypeOK, IndInv, QueuedArrived
<1>6. ASSUME LoginMap(s)
      PROVE  /\ que[s] # <<>> /\ UNCHANGED que
             /\ \A t \in Servers : t # s => wpc'[t] = wpc[t] /\ found'[t] = found[t]
    BY <1>0, <1>6 DEF LoginMap, At, Goto, TypeOK, IndInv, QueuedArrived
<1>7. ASSUME NotifyRoute(s)
      PROVE  /\ que[s] # <<>> /\ UNCHANGED que
             /\ \A t \in Servers : t # s => wpc'[t] = wpc[t] /\ found'[t] = found[t]
    BY <1>0, <1>7 DEF NotifyRoute, Serving, Goto, TypeOK, IndInv, QueuedArrived
<1>8. ASSUME NotifyFind(s)
      PROVE  /\ que[s] # <<>> /\ UNCHANGED que
             /\ \A t \in Servers : t # s => wpc'[t] = wpc[t] /\ found'[t] = found[t]
    BY <1>0, <1>8 DEF NotifyFind, At, Goto, TypeOK, IndInv, QueuedArrived
<1>9. ASSUME NotifySend(s)
      PROVE  /\ que[s] # <<>> /\ UNCHANGED que
             /\ \A t \in Servers : t # s => wpc'[t] = wpc[t] /\ found'[t] = found[t]
    BY <1>0, <1>9 DEF NotifySend, At, Goto, TypeOK, IndInv, QueuedArrived
<1>10. ASSUME RpcReturn(s)
      PROVE  /\ que[s] # <<>> /\ UNCHANGED que
             /\ \A t \in Servers : t # s => wpc'[t] = wpc[t] /\ found'[t] = found[t]
    BY <1>0, <1>10 DEF RpcReturn, At, Goto, TypeOK, IndInv, QueuedArrived
<1>11. ASSUME RpcFail(s)
      PROVE  /\ que[s] # <<>> /\ UNCHANGED que
             /\ \A t \in Servers : t # s => wpc'[t] = wpc[t] /\ found'[t] = found[t]
    BY <1>0, <1>11 DEF RpcFail, At, Goto, TypeOK, IndInv, QueuedArrived
<1> QED
    BY <1>1, <1>2, <1>3, <1>4, <1>5, <1>6, <1>7, <1>8, <1>9, <1>10, <1>11 DEF Moves, LoginStep, NotifyStep

(* Requests are queued when they arrive, and a worker is at one as long as *)
(* it does not wait.                                                       *)
LEMMA StepQueued == IndInv /\ [Next]_vars => QueuedArrived'
<1> SUFFICES ASSUME IndInv, [Next]_vars, NEW t \in Servers
             PROVE  /\ \A i \in 1..Len(que'[t]) : req'[que'[t][i]] # Unsent
                    /\ wpc'[t] # "idle" => que'[t] # <<>>
    BY DEF QueuedArrived
<1>0. TypeOK /\ que[t] \in Seq(Reqs)
    BY DEF IndInv, TypeOK
<1>1. \A i \in 1..Len(que[t]) : que[t][i] \in Reqs /\ req'[que[t][i]] # Unsent
    BY <1>0, Monotone DEF IndInv, QueuedArrived
<1>2. CASE que'[t] = que[t] /\ (wpc'[t] = wpc[t] \/ que[t] # <<>>)
    BY <1>1, <1>2 DEF IndInv, QueuedArrived
<1>3. ASSUME NEW s \in Servers, Moves(s)
      PROVE  que'[t] = que[t] /\ (wpc'[t] = wpc[t] \/ que[t] # <<>>)
    BY <1>3, MovesKeep
<1>4. CASE /\ que'[t] = Tail(que[t]) /\ que[t] # <<>>
           /\ wpc'[t] = "idle"
  <2>1. /\ Len(Tail(que[t])) = Len(que[t]) - 1
        /\ \A i \in 1..Len(Tail(que[t])) : i + 1 \in 1..Len(que[t]) /\ Tail(que[t])[i] = que[t][i + 1]
    BY <1>0, <1>4
  <2> QED
    BY <1>1, <1>4, <2>1
<1>5. ASSUME NEW s \in Servers, Reply(s)
      PROVE  \/ que'[t] = que[t] /\ wpc'[t] = wpc[t]
             \/ que'[t] = Tail(que[t]) /\ que[t] # <<>> /\ wpc'[t] = "idle"
    BY <1>0, <1>5 DEF Reply, At, Goto, TypeOK, IndInv, QueuedArrived
<1>6. ASSUME NEW s \in Servers, NEW state \in ServerState, Die(s, state)
      PROVE  (que'[t] = que[t] /\ wpc'[t] = wpc[t]) \/ (que'[t] = <<>> /\ wpc'[t] = "idle")
    BY <1>0, <1>6 DEF Die, TypeOK
<1>7. CASE que'[t] = <<>> /\ wpc'[t] = "idle"
    BY <1>7
<1>8. ASSUME NEW r \in Reqs, que'[t] = Append(que[t], r), req'[r] # Unsent
      PROVE  /\ \A i \in 1..Len(que'[t]) : req'[que'[t][i]] # Unsent
             /\ wpc'[t] # "idle" => que'[t] # <<>>
  <2>1. /\ Len(que'[t]) = Len(que[t]) + 1 /\ que'[t] # <<>>
        /\ \A i \in 1..Len(que'[t]) : i \in 1..Len(que[t]) \/ que'[t][i] = r
        /\ \A i \in 1..Len(que[t]) : que'[t][i] = que[t][i]
    BY <1>0, <1>8
  <2> QED
    BY <1>1, <1>8, <2>1
<1>9. ASSUME NEW c \in Conns, NEW r \in Reqs, NEW p \in Request, Post(c, r, p)
      PROVE  \/ que'[t] = que[t] /\ wpc'[t] = wpc[t]
             \/ que'[t] = Append(que[t], r) /\ req'[r] # Unsent
  <2>1. p # Unsent
    BY DEF Request, Unsent
  <2>2. que'[t] = que[t] \/ que'[t] = Append(que[t], r)
    BY <1>0, <1>9 DEF Post, TypeOK
  <2>3. req'[r] = p /\ wpc'[t] = wpc[t]
    BY <1>0, <1>9 DEF Post, TypeOK
  <2> QED
    BY <2>1, <2>2, <2>3
<1> QED
    BY <1>2, <1>3, <1>4, <1>5, <1>6, <1>7, <1>8, <1>9, WorkerFrame

(* A worker past the token check serves an authenticated login; a session  *)
(* it has looked up is the user's.                                         *)
LEMMA StepWorker == IndInv /\ [Next]_vars => WorkerHolds'
<1> DEFINE Logging == {"hget", "hset", "bind", "home", "map"}
           Holds(t) ==
               /\ wpc[t] \in Logging => Current(t).user \in authed[Current(t).conn]
               /\ wpc[t] = "send" => found[t] # None /\ Current(t).user \in authed[found[t]]
<1> SUFFICES ASSUME IndInv, [Next]_vars, NEW t \in Servers PROVE Holds(t)'
    BY DEF WorkerHolds
<1>0. TypeOK /\ Holds(t)
    BY DEF IndInv, WorkerHolds
<1>1. CASE wpc'[t] \notin Logging \union {"send"}
    BY <1>1
<1>2. ASSUME wpc[t] # "idle" \/ que[t] # <<>>, Head(que'[t]) = Head(que[t])
      PROVE  /\ Current(t)' = Current(t)
             /\ Current(t).conn \in Conns /\ Current(t).user \in Users
             /\ \A c \in Conns : authed[c] \subseteq authed'[c]
  <2>1. Head(que[t]) \in Reqs /\ req[Head(que[t])] # Unsent
    BY <1>2, CurrentTyped DEF Request, Unsent
  <2> QED
    BY <1>2, <2>1, Monotone, CurrentTyped DEF Current
<1>3. CASE wpc'[t] = wpc[t] /\ found'[t] = found[t] /\ Head(que'[t]) = Head(que[t])
  <2>1. CASE wpc[t] \in Logging
    BY <1>0, <1>2, <1>3, <2>1
  <2>2. CASE wpc[t] = "send"
    <3>1. found[t] \in Conns
      BY <1>0, <2>2 DEF TypeOK
    <3> QED
      BY <1>0, <1>2, <1>3, <2>2, <3>1
  <2> QED
    BY <1>1, <1>3, <2>1, <2>2
<1>4. ASSUME NEW c \in Conns, NEW r \in Reqs, NEW p \in Request, Post(c, r, p), wpc[t] # "idle"
      PROVE  wpc'[t] = wpc[t] /\ found'[t] = found[t] /\ Head(que'[t]) = Head(que[t])
  <2>1. que[t] # <<>> /\ que[t] \in Seq(Reqs)
    BY <1>0, <1>4 DEF IndInv, QueuedArrived, TypeOK
  <2>2. Head(Append(que[t], r)) = Head(que[t])
    BY <2>1
  <2>3. que'[t] = que[t] \/ que'[t] = Append(que[t], r)
    BY <1>0, <1>4 DEF Post, TypeOK
  <2> QED
    BY <1>4, <2>2, <2>3 DEF Post
<1>5. ASSUME NEW s \in Servers, NEW state \in ServerState, Die(s, state)
      PROVE  \/ wpc'[t] = wpc[t] /\ found'[t] = found[t] /\ Head(que'[t]) = Head(que[t])
             \/ wpc'[t] = "idle"
    BY <1>0, <1>5 DEF Die, TypeOK
<1>6. ASSUME NEW s \in Servers, Reply(s)
      PROVE  \/ wpc'[t] = wpc[t] /\ found'[t] = found[t] /\ Head(que'[t]) = Head(que[t])
             \/ wpc'[t] = "idle"
    BY <1>0, <1>6 DEF Reply, Goto, TypeOK
<1>7. ASSUME NEW s \in Servers, Moves(s), s # t
      PROVE  wpc'[t] = wpc[t] /\ found'[t] = found[t] /\ Head(que'[t]) = Head(que[t])
    BY <1>7, MovesKeep
<1>8. ASSUME Moves(t) PROVE Holds(t)'
  <2>0. /\ Current(t)' = Current(t) /\ Current(t).conn \in Conns /\ Current(t).user \in Users
        /\ \A c \in Conns : authed[c] \subseteq authed'[c]
    BY <1>2, <1>8, MovesKeep
  <2>1. CASE LoginCheck(t)
    <3>1. CASE wpc'[t] = "hget" /\ authed' = [authed EXCEPT ![Current(t).conn] = @ \union {Current(t).user}]
      BY <1>0, <2>0, <3>1 DEF TypeOK
    <3>2. CASE wpc'[t] = "reply"
      BY <1>1, <3>2
    <3> QED
      BY <1>0, <2>1, <3>1, <3>2 DEF LoginCheck, Goto, TypeOK
  <2>2. CASE wpc[t] \in Logging /\ wpc'[t] \in Logging
    BY <1>0, <2>0, <2>2
  <2>3. CASE LoginCount(t) \/ LoginStore(t) \/ LoginBind(t) \/ LoginHome(t)
    <3>1. wpc[t] \in Logging /\ wpc'[t] \in Logging
      BY <1>0, <2>3 DEF LoginCount, LoginStore, LoginBind, LoginHome, At, Goto, TypeOK
    <3> QED
      BY <2>2, <3>1
  <2>4. CASE LoginMap(t) \/ NotifyRoute(t) \/ NotifySend(t) \/ RpcReturn(t) \/ RpcFail(t)
    <3>1. wpc'[t] \in {"reply", "find", "rpc"}
      BY <1>0, <2>4 DEF LoginMap, NotifyRoute, NotifySend, RpcReturn, RpcFail, Goto, TypeOK
    <3> QED
      BY <1>1, <3>1
  <2>5. CASE NotifyFind(t)
    <3>1. found'[t] = usess[t][Current(t).user] /\ wpc'[t] = IF found'[t] = None THEN "reply" ELSE "send"
      BY <1>0, <2>5 DEF NotifyFind, Goto, TypeOK
    <3>2. usess[t][Current(t).user] \in Conns \union {None}
      BY <1>0, <2>0 DEF TypeOK
    <3>3. usess[t][Current(t).user] # None => Current(t).user \in authed[usess[t][Current(t).user]]
      BY <2>0 DEF IndInv, BoundToUser
    <3> QED
      BY <2>0, <3>1, <3>2, <3>3
  <2> QED
    BY <1>8, <2>1, <2>3, <2>4, <2>5 DEF Moves, LoginStep, NotifyStep
<1>9. CASE wpc'[t] = "idle"
    BY <1>9
<1>10. ASSUME NEW c \in Conns, NEW r \in Reqs, NEW p \in Request, Post(c, r, p), wpc[t] = "idle"
       PROVE  wpc'[t] = "idle"
    BY <1>10 DEF Post
<1>11. UNCHANGED <<que, wpc, found>>
         => wpc'[t] = wpc[t] /\ found'[t] = found[t] /\ Head(que'[t]) = Head(que[t])
    OBVIOUS
<1> HIDE DEF Holds, Logging
<1> QED
    BY <1>3, <1>4, <1>5, <1>6, <1>7, <1>8, <1>9, <1>10, <1>11, WorkerFrame

(* The inductive invariant holds in every state: sessions are bound to, and *)
(* looked up for, only the users they have authenticated as.               *)
THEOREM Inductive == Spec => []IndInv
<1>1. IndInv /\ [Next]_vars => IndInv'
    BY StepTypeOK, StepDelivered, StepBound, StepQueued, StepWorker, StepCall DEF IndInv
<1> QED
    BY InitInductive, <1>1, PTL DEF Spec

(* For any number of servers, users, connections and requests, through     *)
(* stale homes, stale sessions, crashes and restarts: a message for a user *)
(* is delivered only on sessions that have authenticated as that user.     *)
THEOREM OnlyToTheUser == Spec => []DeliveredToUser
<1>1. IndInv => DeliveredToUser
    BY DEF IndInv
<1> QED
    BY Inductive, <1>1, PTL

(* What changes a server's count, its worker's copy of it and the number   *)
(* of its logins: the life of the server and its own worker.               *)
LEMMA CountsFrame ==
    ASSUME IndInv, [Next]_vars
    PROVE  \/ UNCHANGED <<srv, wpc, cnt, count, logins>>
           \/ \E s \in Servers : Start(s) \/ Signal(s) \/ Hdel(s) \/ CloseRedis(s)
           \/ \E s \in Servers : Moves(s) \/ Reply(s)
           \/ \E s \in Servers, state \in {"down", "crashed"} : Die(s, state)
<1> USE DEF redis, worker, history
<1>1. ASSUME NEW s \in Servers, ServerStep(s)
      PROVE  \/ Start(s) \/ Signal(s) \/ Hdel(s) \/ CloseRedis(s) \/ Moves(s)
             \/ \E state \in {"down", "crashed"} : Die(s, state)
    BY <1>1 DEF ServerStep, Exit, Crash, Moves
<1>2. ASSUME NEW s \in Servers, WorkerStep(s)
      PROVE  Moves(s) \/ Reply(s) \/ \E state \in {"down", "crashed"} : Die(s, state)
    BY <1>2 DEF WorkerStep, NullConnection, Moves
<1>3. ASSUME NEW c \in Conns, ConnStep(c)
      PROVE  UNCHANGED <<srv, wpc, cnt, count, logins>>
    BY <1>3 DEF ConnStep, Insert, Close, ClearRm, ClearErase, ClearFind, Accept, Post
<1>4. ASSUME NEW r \in Reqs, RpcStep(r)
      PROVE  UNCHANGED <<srv, wpc, cnt, count, logins>>
    BY <1>4 DEF RpcStep, RpcFind, RpcSend
<1>5. ASSUME NEW u \in Users, IssueToken(u)
      PROVE  UNCHANGED <<srv, wpc, cnt, count, logins>>
    BY <1>5 DEF IssueToken
<1>6. CASE UNCHANGED vars
    BY <1>6 DEF vars
<1> QED
    BY <1>1, <1>2, <1>3, <1>4, <1>5, <1>6 DEF Next

(* The count stays the number of logins: the three steps of a login are    *)
(* taken by one thread, and no other server touches the field.             *)
LEMMA StepCount == IndInv /\ CountExact /\ CountInv /\ [Next]_vars => CountExact' /\ CountInv'
<1> DEFINE Counts(t) ==
        /\ srv[t] \in {"up", "stopping"} =>
             count[t] = logins[t] + (IF wpc[t] \in {"bind", "home", "map"} THEN 1 ELSE 0)
        /\ srv[t] \in {"up", "stopping"} /\ wpc[t] = "hset" => cnt[t] = count[t]
        /\ srv[t] \notin Running => wpc[t] = "idle"
<1> SUFFICES ASSUME IndInv, CountExact, CountInv, [Next]_vars, NEW t \in Servers
             PROVE  Counts(t)'
    BY DEF CountExact, CountInv
<1>0. /\ Counts(t) /\ TypeOK /\ logins[t] \in Nat
      /\ srv \in [Servers -> ServerState] /\ wpc \in [Servers -> WorkerPC]
      /\ count \in [Servers -> Int] /\ cnt \in [Servers -> Int] /\ logins \in [Servers -> Nat]
    BY DEF IndInv, TypeOK, CountExact, CountInv
<1>a. ASSUME srv'[t] = srv[t], wpc'[t] = wpc[t], cnt'[t] = cnt[t], count'[t] = count[t],
             logins'[t] = logins[t]
      PROVE  Counts(t)'
    BY <1>0, <1>a
<1>b. ASSUME srv'[t] = srv[t], srv[t] \in Running, wpc[t] \notin {"bind", "home", "map"},
             wpc'[t] \notin {"hset", "bind", "home", "map"},
             count'[t] = count[t], logins'[t] = logins[t]
      PROVE  Counts(t)'
    BY <1>0, <1>b
<1>1. ASSUME NEW s \in Servers, Start(s) PROVE Counts(t)'
  <2>1. CASE s = t
    BY <1>0, <1>1, <2>1 DEF Start, worker, Running
  <2>2. CASE s # t
    BY <1>0, <1>1, <1>a, <2>2 DEF Start, worker
  <2> QED
    BY <2>1, <2>2
<1>2. ASSUME NEW s \in Servers, Signal(s) PROVE Counts(t)'
    BY <1>0, <1>2 DEF Signal, redis, worker, history, Running
<1>3. ASSUME NEW s \in Servers, Hdel(s) PROVE Counts(t)'
    BY <1>0, <1>3 DEF Hdel, worker, history, Running
<1>4. ASSUME NEW s \in Servers, CloseRedis(s) PROVE Counts(t)'
    BY <1>0, <1>4 DEF CloseRedis, redis, worker, history, Running
<1>5. ASSUME NEW s \in Servers, NEW state \in {"down", "crashed"}, Die(s, state) PROVE Counts(t)'
  <2>1. CASE s = t
    BY <1>0, <1>5, <2>1 DEF Die, redis, history, Running
  <2>2. CASE s # t
    BY <1>0, <1>5, <1>a, <2>2 DEF Die, redis, history
  <2> QED
    BY <2>1, <2>2
<1>6. ASSUME NEW s \in Servers, Reply(s) PROVE Counts(t)'
    BY <1>0, <1>6 DEF Reply, At, Goto, redis, history
<1>7. ASSUME NEW s \in Servers \ {t}, Moves(s) PROVE Counts(t)'
  <2>1. wpc'[t] = wpc[t]
    BY <1>7, MovesKeep
  <2>2. srv' = srv /\ cnt'[t] = cnt[t] /\ count'[t] = count[t] /\ logins'[t] = logins[t]
    BY <1>0, <1>7 DEF Moves, LoginStep, NotifyStep, LoginCheck, LoginCount, LoginStore, LoginBind,
           LoginHome, LoginMap, NotifyRoute, NotifyFind, NotifySend, RpcReturn, RpcFail,
           redis, history
  <2> QED
    BY <1>a, <2>1, <2>2
<1>8. ASSUME LoginCheck(t) PROVE Counts(t)'
    BY <1>0, <1>8, <1>b DEF LoginCheck, Serving, Goto, redis
<1>9. ASSUME LoginCount(t) PROVE Counts(t)'
  <2>1. count[t] # -1 \/ srv[t] \notin {"up", "stopping"}
    BY <1>0
  <2> QED
    BY <1>0, <1>9, <2>1 DEF LoginCount, At, Goto, redis, history
<1>10. ASSUME LoginStore(t) PROVE Counts(t)'
    BY <1>0, <1>10 DEF LoginStore, At, Goto, history
<1>11. ASSUME LoginBind(t) \/ LoginHome(t) PROVE Counts(t)'
    BY <1>0, <1>11 DEF LoginBind, LoginHome, At, Goto, redis, history
<1>12. ASSUME LoginMap(t) PROVE Counts(t)'
    BY <1>0, <1>12 DEF LoginMap, At, Goto, redis
<1>13. ASSUME NotifyRoute(t) \/ NotifyFind(t) PROVE Counts(t)'
    BY <1>0, <1>13, <1>b DEF NotifyRoute, NotifyFind, Serving, At, Goto, redis, history
<1>14. ASSUME NotifySend(t) \/ RpcReturn(t) \/ RpcFail(t) PROVE Counts(t)'
    BY <1>0, <1>14, <1>b DEF NotifySend, RpcReturn, RpcFail, At, Goto, redis, history
<1> HIDE DEF Counts
<1> QED
    BY <1>a, <1>1, <1>2, <1>3, <1>4, <1>5, <1>6, <1>7, <1>8, <1>9, <1>10, <1>11, <1>12, <1>13, <1>14,
       CountsFrame DEF Moves, LoginStep, NotifyStep

(* For any servers and any logins on them, whatever restarts and crashes:  *)
(* the login count that the status server reads is the number of logins    *)
(* since the server started.                                               *)
THEOREM CountsLogins == Spec => []CountExact
<1>1. Init => CountExact /\ CountInv
    BY DEF Init, CountExact, CountInv, Running
<1> QED
    BY <1>1, StepCount, Inductive, PTL DEF Spec

(* What changes the connections, the users bound to them and the history   *)
(* of late ones.                                                           *)
LEMMA ConnsFrame ==
    ASSUME IndInv, [Next]_vars
    PROVE  /\ \/ UNCHANGED <<cpc, at, rmuid>>
              \/ \E c \in Conns, s \in Servers : Accept(c, s)
              \/ \E c \in Conns : Close(c) \/ ClearRm(c) \/ ClearErase(c)
              \/ \E c \in Conns, v \in Users \union {None} : ClearFind(c, v)
              \/ \E s \in Servers, state \in ServerState : Die(s, state)
           /\ UNCHANGED uid \/ \E s \in Servers : LoginBind(s)
           /\ \/ UNCHANGED usess
              \/ \E s \in Servers : LoginMap(s)
              \/ \E c \in Conns : ClearRm(c)
              \/ \E s \in Servers, state \in ServerState : Die(s, state)
           /\ late \subseteq late'
<1> USE DEF conns, history
<1>1. ASSUME NEW s \in Servers, ServerStep(s)
      PROVE  /\ UNCHANGED <<uid, late>>
             /\ \/ UNCHANGED <<cpc, at, rmuid, usess>>
                \/ \E state \in ServerState : Die(s, state)
    BY <1>1 DEF ServerStep, Start, Signal, Hdel, CloseRedis, Exit, Crash, RpcFail, Die, ServerState
<1>2. ASSUME NEW s \in Servers, WorkerStep(s)
      PROVE  /\ late \subseteq late'
             /\ UNCHANGED uid \/ LoginBind(s)
             /\ \/ UNCHANGED <<cpc, at, rmuid>>
                \/ \E state \in ServerState : Die(s, state)
             /\ \/ UNCHANGED usess
                \/ LoginMap(s)
                \/ \E state \in ServerState : Die(s, state)
  <2>1. CASE LoginStep(s)
    BY <2>1 DEF LoginStep, LoginCheck, LoginCount, LoginStore, LoginBind, LoginHome, LoginMap
  <2>2. CASE NullConnection(s)
    BY <2>2 DEF NullConnection, Die, ServerState
  <2>3. CASE NotifyStep(s) \/ Reply(s)
    BY <2>3 DEF NotifyStep, NotifyRoute, NotifyFind, NotifySend, RpcReturn, Reply
  <2> QED
    BY <1>2, <2>1, <2>2, <2>3 DEF WorkerStep
<1>3. ASSUME NEW c \in Conns, ConnStep(c)
      PROVE  /\ UNCHANGED uid /\ late \subseteq late'
             /\ \/ UNCHANGED <<cpc, at, rmuid>>
                \/ \E s \in Servers : Accept(c, s)
                \/ Close(c) \/ ClearRm(c) \/ ClearErase(c)
                \/ \E v \in Users \union {None} : ClearFind(c, v)
             /\ UNCHANGED usess \/ ClearRm(c)
    BY <1>3 DEF ConnStep, Insert, Close, ClearRm, ClearErase, ClearFind, Accept, Post
<1>4. ASSUME NEW r \in Reqs, RpcStep(r)
      PROVE  UNCHANGED <<cpc, at, rmuid, uid, usess, late>>
    BY <1>4 DEF RpcStep, RpcFind, RpcSend
<1>5. ASSUME NEW u \in Users, IssueToken(u)
      PROVE  UNCHANGED <<cpc, at, rmuid, uid, usess, late>>
    BY <1>5 DEF IssueToken
<1>6. CASE UNCHANGED vars
    BY <1>6 DEF vars
<1> QED
    BY <1>1, <1>2, <1>3, <1>4, <1>5, <1>6 DEF Next

(* A connection that is accepted stays so, at its server; one that is open *)
(* was so or is new.                                                       *)
LEMMA ConnKept ==
    ASSUME IndInv, [Next]_vars, NEW c \in Conns
    PROVE  /\ cpc[c] # "none" => cpc'[c] # "none" /\ at'[c] = at[c]
           /\ cpc'[c] = "open" => cpc[c] \in {"none", "open"}
           /\ at'[c] # at[c] => cpc'[c] = "open"
<1>0. TypeOK
    BY DEF IndInv
<1>1. ASSUME NEW d \in Conns, NEW s \in Servers, Accept(d, s)
      PROVE  /\ cpc[c] # "none" => cpc'[c] # "none" /\ at'[c] = at[c]
             /\ cpc'[c] = "open" => cpc[c] \in {"none", "open"}
             /\ at'[c] # at[c] => cpc'[c] = "open"
    BY <1>0, <1>1 DEF Accept, TypeOK
<1>2. ASSUME NEW d \in Conns, Close(d) \/ ClearRm(d) \/ ClearErase(d)
                              \/ \E v \in Users \union {None} : ClearFind(d, v)
      PROVE  UNCHANGED at /\ (cpc'[c] = cpc[c] \/ cpc'[c] \in {"clear", "rm", "erase", "gone"})
    BY <1>0, <1>2 DEF Close, ClearRm, ClearErase, ClearFind, TypeOK
<1>3. ASSUME NEW s \in Servers, NEW state \in ServerState, Die(s, state)
      PROVE  UNCHANGED at /\ (cpc'[c] = cpc[c] \/ cpc'[c] = "gone")
    BY <1>0, <1>3 DEF Die, TypeOK
<1> QED
    BY <1>1, <1>2, <1>3, ConnsFrame

(* What a queue holds was in it, or has just arrived on a connection of    *)
(* the server.                                                             *)
LEMMA QueueKept ==
    ASSUME IndInv, [Next]_vars, NEW t \in Servers, NEW i \in 1..Len(que'[t])
    PROVE  \/ \E j \in 1..Len(que[t]) : que'[t][i] = que[t][j]
           \/ \E c \in Conns, q \in Request :
                 at[c] = t /\ cpc[c] = "open" /\ q.conn = c /\ req'[que'[t][i]] = q
<1>0. TypeOK /\ que[t] \in Seq(Reqs) /\ que \in [Servers -> Seq(Reqs)]
    BY DEF IndInv, TypeOK
<1>1. CASE que'[t] = que[t]
    BY <1>1
<1>2. ASSUME NEW s \in Servers, Moves(s) PROVE que'[t] = que[t]
    BY <1>2, MovesKeep
<1>3. ASSUME NEW s \in Servers, Reply(s)
      PROVE  \E j \in 1..Len(que[t]) : que'[t][i] = que[t][j]
  <2>1. que[s] # <<>>
    BY <1>3 DEF Reply, At, IndInv, QueuedArrived
  <2>2. CASE s = t
    <3>1. que'[t] = Tail(que[t])
      BY <1>0, <1>3, <2>2 DEF Reply
    <3> QED
      BY <1>0, <2>1, <2>2, <3>1
  <2>3. CASE s # t
    BY <1>0, <1>1, <1>3, <2>3 DEF Reply
  <2> QED
    BY <2>2, <2>3
<1>4. ASSUME NEW s \in Servers, NEW state \in ServerState, Die(s, state) PROVE que'[t] = que[t]
  <2>1. que' = [que EXCEPT ![s] = <<>>]
    BY <1>4 DEF Die
  <2> QED
    BY <1>0, <2>1
<1>5. ASSUME NEW c \in Conns, NEW r \in Reqs, NEW q \in Request, Post(c, r, q), que'[t] # que[t]
      PROVE  \/ \E j \in 1..Len(que[t]) : que'[t][i] = que[t][j]
             \/ at[c] = t /\ cpc[c] = "open" /\ q.conn = c /\ req'[que'[t][i]] = q
  <2>1. at[c] = t /\ que'[t] = Append(que[t], r) /\ cpc[c] = "open" /\ q.conn = c
    BY <1>0, <1>5 DEF Post, TypeOK
  <2>2. req'[r] = q
    BY <1>0, <1>5 DEF Post, TypeOK
  <2>3. (i \in 1..Len(que[t]) /\ que'[t][i] = que[t][i]) \/ que'[t][i] = r
    BY <1>0, <2>1
  <2> QED
    BY <2>1, <2>2, <2>3
<1> QED
    BY <1>1, <1>2, <1>3, <1>4, <1>5, WorkerFrame

(* As long as a worker is at a request, the request is the same.           *)
LEMMA CurrentKept ==
    ASSUME IndInv, [Next]_vars, NEW t \in Servers, wpc'[t] # "idle"
    PROVE  que[t] # <<>> /\ Current(t)' = Current(t)
<1>0. TypeOK /\ que[t] \in Seq(Reqs) /\ que \in [Servers -> Seq(Reqs)]
      /\ wpc \in [Servers -> WorkerPC]
    BY DEF IndInv, TypeOK
<1>1. ASSUME que[t] # <<>>, Head(que'[t]) = Head(que[t])
      PROVE  que[t] # <<>> /\ Current(t)' = Current(t)
  <2>1. Head(que[t]) \in Reqs /\ req[Head(que[t])] # Unsent
    BY <1>1, CurrentTyped DEF Request, Unsent
  <2> QED
    BY <1>1, <2>1, Monotone DEF Current
<1>2. wpc[t] # "idle" => que[t] # <<>>
    BY DEF IndInv, QueuedArrived
<1>3. ASSUME NEW s \in Servers, Moves(s) PROVE que[t] # <<>> /\ Head(que'[t]) = Head(que[t])
    BY <1>2, <1>3, MovesKeep
<1>4. ASSUME NEW s \in Servers, Reply(s) PROVE que[t] # <<>> /\ Head(que'[t]) = Head(que[t])
    BY <1>0, <1>2, <1>4 DEF Reply, Goto
<1>5. ASSUME NEW s \in Servers, NEW state \in ServerState, Die(s, state)
      PROVE  que[t] # <<>> /\ Head(que'[t]) = Head(que[t])
    BY <1>0, <1>2, <1>5 DEF Die
<1>6. ASSUME NEW c \in Conns, NEW r \in Reqs, NEW q \in Request, Post(c, r, q)
      PROVE  que[t] # <<>> /\ Head(que'[t]) = Head(que[t])
  <2>1. que'[t] = que[t] \/ que'[t] = Append(que[t], r)
    BY <1>0, <1>6 DEF Post, TypeOK
  <2>2. que[t] # <<>>
    BY <1>2, <1>6 DEF Post
  <2> QED
    BY <1>0, <2>1, <2>2
<1> QED
    BY <1>1, <1>2, <1>3, <1>4, <1>5, <1>6, WorkerFrame

(* The connection of the request that a worker is at is one of its server. *)
LEMMA CurrentHere ==
    ASSUME IndInv, SessionInv, NEW s \in Servers, wpc[s] # "idle" \/ que[s] # <<>>
    PROVE  /\ Current(s).conn \in Conns /\ Current(s).user \in Users
           /\ at[Current(s).conn] = s /\ cpc[Current(s).conn] # "none"
<1>1. que[s] # <<>> /\ que[s] \in Seq(Reqs) /\ Current(s).conn \in Conns /\ Current(s).user \in Users
    BY CurrentTyped DEF IndInv, TypeOK
<1>2. 1 \in 1..Len(que[s]) /\ Head(que[s]) = que[s][1]
    BY <1>1
<1> QED
    BY <1>1, <1>2 DEF SessionInv, Current

(* Requests, sessions and users stay consistent: set_user_id comes before  *)
(* set_user_session, on a session of the worker's own server.              *)
LEMMA StepSession == IndInv /\ SessionInv /\ [Next]_vars => SessionInv'
<1> SUFFICES ASSUME IndInv, SessionInv, [Next]_vars PROVE SessionInv'
    OBVIOUS
<1>0. TypeOK /\ TypeOK' /\ \A c \in Conns : c # None
    BY StepTypeOK, NoneAssumption, BoundsAssumption DEF IndInv, Conns
<1>u. \A u \in Users : u # None
    BY NoneAssumption
<1>a. ASSUME NEW s \in Servers, LoginBind(s)
      PROVE  /\ Current(s).conn \in Conns /\ Current(s).user \in Users
             /\ uid' = [uid EXCEPT ![Current(s).conn] = Current(s).user]
             /\ cpc[Current(s).conn] # "none"
             /\ Current(s).user \in authed[Current(s).conn]
  <2>1. wpc[s] = "bind"
    BY <1>a DEF LoginBind, At
  <2> QED
    BY <1>a, <2>1, CurrentHere DEF LoginBind, IndInv, WorkerHolds
<1>b. \A c \in Conns : uid[c] # None => uid'[c] # None
  <2>1. ASSUME NEW s \in Servers, LoginBind(s), NEW c \in Conns, uid[c] # None
        PROVE  uid'[c] # None
    BY <1>0, <1>u, <1>a, <2>1 DEF TypeOK
  <2> QED
    BY <2>1, ConnsFrame
<1>1. ASSUME NEW t \in Servers, NEW i \in 1..Len(que'[t])
      PROVE  at'[req'[que'[t][i]].conn] = t /\ cpc'[req'[que'[t][i]].conn] # "none"
  <2>1. CASE \E j \in 1..Len(que[t]) : que'[t][i] = que[t][j]
    <3>1. PICK j \in 1..Len(que[t]) : que'[t][i] = que[t][j]
      BY <2>1
    <3>2. que[t][j] \in Reqs /\ req[que[t][j]] # Unsent
      BY <1>0 DEF TypeOK, IndInv, QueuedArrived
    <3>3. req'[que[t][j]] = req[que[t][j]] /\ req[que[t][j]].conn \in Conns
      BY <1>0, <3>2, Monotone DEF TypeOK, Request
    <3>4. at[req[que[t][j]].conn] = t /\ cpc[req[que[t][j]].conn] # "none"
      BY DEF SessionInv
    <3> QED
      BY <3>1, <3>3, <3>4, ConnKept
  <2>2. CASE \E c \in Conns, q \in Request :
                at[c] = t /\ cpc[c] = "open" /\ q.conn = c /\ req'[que'[t][i]] = q
    BY <2>2, ConnKept
  <2> QED
    BY <1>1, <2>1, <2>2, QueueKept
<1>2. ASSUME NEW c \in Conns, uid'[c] # None
      PROVE  cpc'[c] # "none" /\ uid'[c] \in authed'[c]
  <2>1. CASE uid'[c] = uid[c]
    BY <1>2, <2>1, ConnKept, Monotone DEF SessionInv
  <2>2. ASSUME NEW s \in Servers, LoginBind(s), uid'[c] # uid[c]
        PROVE  cpc'[c] # "none" /\ uid'[c] \in authed'[c]
    <3>1. c = Current(s).conn /\ uid'[c] = Current(s).user
      BY <1>0, <1>a, <2>2 DEF TypeOK
    <3> QED
      BY <1>a, <2>2, <3>1, ConnKept, Monotone
  <2> QED
    BY <2>1, <2>2, ConnsFrame
<1>3. ASSUME NEW t \in Servers, NEW u \in Users, usess'[t][u] # None
      PROVE  uid'[usess'[t][u]] # None
  <2>0. usess'[t][u] \in Conns
    <3>1. usess' \in [Servers -> [Users -> Conns \union {None}]]
      BY <1>0 DEF TypeOK
    <3> QED
      BY <1>3, <3>1
  <2>1. CASE usess'[t][u] = usess[t][u]
    BY <1>b, <1>3, <2>0, <2>1 DEF SessionInv
  <2>2. ASSUME NEW s \in Servers, LoginMap(s), usess'[t][u] # usess[t][u]
        PROVE  uid'[usess'[t][u]] # None
    <3>1. wpc[s] = "map"
      BY <2>2 DEF LoginMap, At
    <3>2. usess'[t][u] = Current(s).conn
      BY <1>0, <2>2 DEF LoginMap, TypeOK
    <3>3. uid[Current(s).conn] # None
      BY <3>1 DEF SessionInv
    <3> QED
      BY <1>b, <2>0, <3>2, <3>3
  <2>3. ASSUME NEW c \in Conns, ClearRm(c) PROVE usess'[t][u] = usess[t][u]
    BY <1>0, <1>3, <2>3 DEF ClearRm, TypeOK
  <2>4. ASSUME NEW s \in Servers, NEW state \in ServerState, Die(s, state)
        PROVE  usess'[t][u] = usess[t][u]
    BY <1>0, <1>3, <2>4 DEF Die, TypeOK
  <2> QED
    BY <2>1, <2>2, <2>3, <2>4, ConnsFrame
<1>4. ASSUME NEW t \in Servers, wpc'[t] \in {"home", "map"}
      PROVE  uid'[Current(t)'.conn] # None
  <2>1. que[t] # <<>> /\ Current(t)' = Current(t) /\ Current(t).conn \in Conns
    <3>1. que[t] # <<>> /\ Current(t)' = Current(t)
      BY <1>4, CurrentKept
    <3> QED
      BY <3>1, CurrentHere
  <2>2. CASE wpc[t] \in {"home", "map"}
    BY <1>b, <2>1, <2>2 DEF SessionInv
  <2>3. CASE LoginBind(t)
    BY <1>0, <1>a, <1>u, <2>1, <2>3 DEF TypeOK
  <2>4. wpc[t] \in {"home", "map"} \/ LoginBind(t)
    <3>1. ASSUME NEW s \in Servers, Moves(s) PROVE wpc[t] \in {"home", "map"} \/ LoginBind(t)
      <4>1. CASE s # t
        BY <1>4, <3>1, <4>1, MovesKeep
      <4>2. CASE s = t
        BY <1>0, <1>4, <3>1, <4>2
        DEF Moves, LoginStep, NotifyStep, LoginCheck, LoginCount, LoginStore, LoginHome, LoginMap,
            NotifyRoute, NotifyFind, NotifySend, RpcReturn, RpcFail, At, Goto, TypeOK
      <4> QED
        BY <4>1, <4>2
    <3>2. ASSUME NEW s \in Servers, Reply(s) PROVE wpc[t] \in {"home", "map"}
      BY <1>0, <1>4, <3>2 DEF Reply, Goto, TypeOK
    <3>3. ASSUME NEW s \in Servers, NEW state \in ServerState, Die(s, state)
          PROVE  wpc[t] \in {"home", "map"}
      BY <1>0, <1>4, <3>3 DEF Die, TypeOK
    <3>4. ASSUME NEW c \in Conns, NEW r \in Reqs, NEW q \in Request, Post(c, r, q)
          PROVE  wpc[t] \in {"home", "map"}
      BY <1>4, <3>4 DEF Post
    <3> QED
      BY <1>4, <3>1, <3>2, <3>3, <3>4, WorkerFrame
  <2> QED
    BY <2>2, <2>3, <2>4
<1> QED
  <2>1. \A t \in Servers : \A i \in 1..Len(que'[t]) :
            at'[req'[que'[t][i]].conn] = t /\ cpc'[req'[que'[t][i]].conn] # "none"
    BY <1>1
  <2>2. \A c \in Conns : uid'[c] # None => cpc'[c] # "none" /\ uid'[c] \in authed'[c]
    BY <1>2
  <2>3. \A s \in Servers : \A u \in Users : usess'[s][u] # None => uid'[usess'[s][u]] # None
    BY <1>3
  <2>4. \A s \in Servers : wpc'[s] \in {"home", "map"} => uid'[Current(s)'.conn] # None
    BY <1>4
  <2> QED
    BY <2>1, <2>2, <2>3, <2>4 DEF SessionInv

(* Until a session ends, nothing takes a user out of user_mgr, and what    *)
(* set_user_id has begun the same worker finishes with set_user_session.   *)
LEMMA StepBinding ==
    IndInv /\ SessionInv /\ BoundOrBinding /\ [Next]_vars => BoundOrBinding'
<1> SUFFICES ASSUME IndInv, SessionInv, BoundOrBinding, [Next]_vars,
                    NEW t \in Servers, NEW u \in Users,
                    \A c \in Here(t)' : cpc'[c] = "open",
                    NEW c \in Here(t)', uid'[c] = u
             PROVE  usess'[t][u] # None \/ (wpc'[t] \in {"home", "map"} /\ Current(t)'.user = u)
    BY DEF BoundOrBinding
<1>0. TypeOK /\ TypeOK' /\ \A d \in Conns : d # None
    BY StepTypeOK, NoneAssumption, BoundsAssumption DEF IndInv, Conns
<1>1. u # None /\ c \in Conns /\ at'[c] = t /\ cpc'[c] = "open"
    BY NoneAssumption DEF Here
<1>2. \A d \in Here(t) : cpc[d] = "open" /\ cpc'[d] = "open"
  <2> SUFFICES ASSUME NEW d \in Here(t) PROVE cpc[d] = "open" /\ cpc'[d] = "open"
    OBVIOUS
  <2>1. d \in Conns /\ at[d] = t /\ cpc[d] # "none"
    BY DEF Here
  <2>2. d \in Here(t)'
    BY <2>1, ConnKept DEF Here
  <2> QED
    BY <2>1, <2>2, ConnKept
<1>3. ASSUME NEW s \in Servers, NEW state \in ServerState, Die(s, state), Here(t) # {}
      PROVE  s # t
    BY <1>2, <1>3 DEF Die, Here
<1>4. CASE uid[c] = u
  <2>1. c \in Here(t)
    BY <1>1, <1>4, ConnKept DEF SessionInv, Here
  <2>2. CASE usess[t][u] # None
    <3>1. ASSUME NEW s \in Servers, LoginMap(s) PROVE usess'[t][u] # None
      <4>1. Current(s).conn # None
        BY <1>0, <3>1, CurrentHere DEF LoginMap, At
      <4> QED
        BY <1>0, <2>2, <3>1, <4>1 DEF LoginMap, TypeOK
    <3>2. ASSUME NEW d \in Conns, ClearRm(d) PROVE usess'[t][u] # None
      <4>1. at[d] # t
        BY <1>2, <3>2 DEF ClearRm, Here
      <4> QED
        BY <1>0, <2>2, <3>2, <4>1 DEF ClearRm, TypeOK
    <3>3. ASSUME NEW s \in Servers, NEW state \in ServerState, Die(s, state)
          PROVE  usess'[t][u] # None
      BY <1>0, <1>3, <2>1, <2>2, <3>3 DEF Die, TypeOK
    <3> QED
      BY <2>2, <3>1, <3>2, <3>3, ConnsFrame
  <2>3. CASE wpc[t] \in {"home", "map"} /\ Current(t).user = u
    <3>1. CASE wpc'[t] \in {"home", "map"}
      BY <2>3, <3>1, CurrentKept
    <3>2. CASE LoginMap(t)
      <4>1. Current(t).conn # None
        BY <1>0, <2>3, CurrentHere
      <4> QED
        BY <1>0, <2>3, <3>2, <4>1 DEF LoginMap, TypeOK
    <3>3. wpc'[t] \in {"home", "map"} \/ LoginMap(t)
      <4>1. ASSUME NEW s \in Servers, Moves(s) PROVE wpc'[t] \in {"home", "map"} \/ LoginMap(t)
        <5>1. CASE s # t
          BY <2>3, <4>1, <5>1, MovesKeep
        <5>2. CASE s = t
          BY <1>0, <2>3, <4>1, <5>2
          DEF Moves, LoginStep, NotifyStep, LoginCheck, LoginCount, LoginStore, LoginBind, LoginHome,
              NotifyRoute, NotifyFind, NotifySend, RpcReturn, RpcFail, At, Serving, Goto, TypeOK
        <5> QED
          BY <5>1, <5>2
      <4>2. ASSUME NEW s \in Servers, Reply(s) PROVE wpc'[t] \in {"home", "map"}
        BY <1>0, <2>3, <4>2 DEF Reply, At, Goto, TypeOK
      <4>3. ASSUME NEW s \in Servers, NEW state \in ServerState, Die(s, state)
            PROVE  wpc'[t] \in {"home", "map"}
        BY <1>0, <1>3, <2>1, <2>3, <4>3 DEF Die, TypeOK
      <4>4. ASSUME NEW d \in Conns, NEW r \in Reqs, NEW q \in Request, Post(d, r, q)
            PROVE  wpc'[t] \in {"home", "map"}
        BY <2>3, <4>4 DEF Post
      <4> QED
        BY <2>3, <4>1, <4>2, <4>3, <4>4, WorkerFrame
    <3> QED
      BY <3>1, <3>2, <3>3
  <2> QED
    BY <1>2, <1>4, <2>1, <2>2, <2>3 DEF BoundOrBinding
<1>5. CASE uid[c] # u
  <2>1. PICK s \in Servers : LoginBind(s)
    BY <1>1, <1>5, ConnsFrame
  <2>2. wpc[s] = "bind" /\ wpc' = [wpc EXCEPT ![s] = "home"] /\ UNCHANGED at
        /\ uid' = [uid EXCEPT ![Current(s).conn] = Current(s).user]
    BY <2>1 DEF LoginBind, At, Goto
  <2>3. c = Current(s).conn /\ Current(s).user = u
    BY <1>0, <1>1, <1>5, <2>2 DEF TypeOK
  <2>4. s = t
    BY <1>1, <2>2, <2>3, CurrentHere
  <2>5. wpc'[t] = "home"
    BY <1>0, <2>2, <2>4 DEF TypeOK
  <2> QED
    BY <2>3, <2>4, <2>5, CurrentKept
<1> QED
    BY <1>4, <1>5

(* The way of a session that ends: clear_session reads its only user and   *)
(* removes that user before the session is erased.                         *)
LEMMA StepRemoved ==
    IndInv /\ SessionInv /\ BoundUntilRemoved /\ [Next]_vars => BoundUntilRemoved'
<1> SUFFICES ASSUME IndInv, SessionInv, BoundUntilRemoved, [Next]_vars,
                    NEW c \in Conns, NEW u \in Users,
                    at'[c] # None, usess'[at'[c]][u] = c, c \notin late', authed'[c] = {u}
             PROVE  cpc'[c] \in {"open", "clear"} \/ (cpc'[c] = "rm" /\ rmuid'[c] = u)
    BY DEF BoundUntilRemoved
<1>0. TypeOK /\ TypeOK' /\ c # None /\ u # None /\ at'[c] \in Servers
  <2>1. TypeOK /\ TypeOK'
    BY StepTypeOK DEF IndInv
  <2>2. at' \in [Conns -> Servers \union {None}]
    BY <2>1 DEF TypeOK
  <2>3. c # None /\ u # None
    BY NoneAssumption, BoundsAssumption DEF Conns
  <2> QED
    BY <2>1, <2>2, <2>3
<1>1. c \notin late
    BY ConnsFrame
<1>2. CASE at'[c] # at[c]
    BY <1>2, ConnKept
<1>3. CASE at'[c] = at[c] /\ usess[at[c]][u] = c
  <2>1. u \in authed[c] /\ authed[c] = {u}
    BY <1>0, <1>3, Monotone DEF IndInv, BoundToUser
  <2>2. uid[c] = u
    BY <1>0, <1>3, <2>1 DEF SessionInv
  <2>3. cpc[c] \in {"open", "clear"} \/ (cpc[c] = "rm" /\ rmuid[c] = u)
    BY <1>0, <1>1, <1>3, <2>1 DEF BoundUntilRemoved
  <2>4. ASSUME NEW d \in Conns, NEW s \in Servers, Accept(d, s)
        PROVE  cpc'[c] = cpc[c] /\ rmuid'[c] = rmuid[c]
    BY <1>0, <2>3, <2>4 DEF Accept, TypeOK
  <2>5. ASSUME NEW d \in Conns, Close(d)
        PROVE  cpc'[c] = "clear" \/ (cpc'[c] = cpc[c] /\ rmuid'[c] = rmuid[c])
    BY <1>0, <2>5 DEF Close, TypeOK
  <2>6. ASSUME NEW d \in Conns, ClearRm(d) PROVE cpc'[c] = cpc[c] /\ rmuid'[c] = rmuid[c]
    <3>1. CASE d = c
      BY <1>0, <1>3, <2>3, <2>6, <3>1 DEF ClearRm, TypeOK
    <3>2. CASE d # c
      BY <1>0, <2>6, <3>2 DEF ClearRm, TypeOK
    <3> QED
      BY <3>1, <3>2
  <2>7. ASSUME NEW d \in Conns, ClearErase(d) PROVE cpc'[c] = cpc[c] /\ rmuid'[c] = rmuid[c]
    BY <1>0, <2>3, <2>7 DEF ClearErase, TypeOK
  <2>8. ASSUME NEW d \in Conns, NEW v \in Users \union {None}, ClearFind(d, v)
        PROVE  (cpc'[c] = cpc[c] /\ rmuid'[c] = rmuid[c]) \/ (cpc'[c] = "rm" /\ rmuid'[c] = u)
    <3>1. CASE d = c
      <4>1. v = u /\ c \in sessions
        BY <1>0, <2>2, <2>8, <3>1 DEF ClearFind
      <4> QED
        BY <1>0, <2>8, <3>1, <4>1 DEF ClearFind, TypeOK
    <3>2. CASE d # c
      BY <1>0, <2>8, <3>2 DEF ClearFind, TypeOK
    <3> QED
      BY <3>1, <3>2
  <2>9. ASSUME NEW s \in Servers, NEW state \in ServerState, Die(s, state)
        PROVE  cpc'[c] = cpc[c] /\ rmuid'[c] = rmuid[c]
    <3>1. at[c] # s
      BY <1>0, <1>3, <2>9 DEF Die, TypeOK
    <3> QED
      BY <1>0, <2>9, <3>1 DEF Die, Here, TypeOK
  <2> QED
    BY <2>3, <2>4, <2>5, <2>6, <2>7, <2>8, <2>9, ConnsFrame
<1>4. CASE at'[c] = at[c] /\ usess[at[c]][u] # c
  <2>1. ASSUME NEW s \in Servers, LoginMap(s) PROVE cpc'[c] = "open"
    <3>1. c = Current(s).conn
      BY <1>0, <1>4, <2>1 DEF LoginMap, TypeOK
    <3> QED
      BY <2>1, <3>1 DEF LoginMap, conns
  <2>2. ASSUME NEW d \in Conns, ClearRm(d) PROVE FALSE
    BY <1>0, <1>4, <2>2 DEF ClearRm, TypeOK
  <2>3. ASSUME NEW s \in Servers, NEW state \in ServerState, Die(s, state) PROVE FALSE
    BY <1>0, <1>4, <2>3 DEF Die, TypeOK
  <2> QED
    BY <1>4, <2>1, <2>2, <2>3, ConnsFrame
<1> QED
    BY <1>2, <1>3, <1>4

(* What sessions, user_mgr and workers say of each other in every state.   *)
THEOREM SessionsConsistent == Spec => [](SessionInv /\ BoundOrBinding /\ BoundUntilRemoved)
<1>1. Init => SessionInv /\ BoundOrBinding /\ BoundUntilRemoved
  <2> SUFFICES ASSUME Init PROVE SessionInv /\ BoundOrBinding /\ BoundUntilRemoved
    OBVIOUS
  <2>1. \A s \in Servers : que[s] = <<>> /\ wpc[s] = "idle" /\ \A u \in Users : usess[s][u] = None
    BY DEF Init
  <2>2. \A c \in Conns : cpc[c] = "none" /\ uid[c] = None /\ at[c] = None
    BY DEF Init
  <2>3. \A s \in Servers : Len(que[s]) = 0 /\ Here(s) = {}
    <3>1. \A s \in Servers : Len(que[s]) = 0
      <4>1. Len(<<>>) = 0
        OBVIOUS
      <4> QED BY <2>1, <4>1, Zenon
    <3>2. \A s \in Servers : Here(s) = {}
      BY <2>2 DEF Here
    <3> QED BY <3>1, <3>2
  <2>4. SessionInv
    BY <2>1, <2>2, <2>3 DEF SessionInv
  <2>5. BoundOrBinding
    BY <2>3 DEF BoundOrBinding
  <2>6. BoundUntilRemoved
    BY <2>2 DEF BoundUntilRemoved
  <2> QED
    BY <2>4, <2>5, <2>6
<1> QED
    BY <1>1, StepSession, StepBinding, StepRemoved, Inductive, PTL DEF Spec

(* For any number of servers, users and connections: as long as no session *)
(* of a server has ended, a user who has logged in there and whose home it *)
(* is can be reached there, but for the moment of a login.                 *)
THEOREM UsersReachable == Spec => []Reachable
<1>1. BoundOrBinding => Reachable
    BY DEF BoundOrBinding, Reachable
<1> QED
    BY <1>1, SessionsConsistent, PTL

(* For any interleaving of io threads, accept thread and worker: a session *)
(* that has ended is still bound to a user only if its login or its        *)
(* clearing came too late, or it has had several users.                    *)
THEOREM SessionsForgotten == Spec => []ForgottenUnlessLate
<1>1. BoundUntilRemoved => ForgottenUnlessLate
    BY DEF BoundUntilRemoved, ForgottenUnlessLate
<1> QED
    BY <1>1, SessionsConsistent, PTL

==============================================================================
