------------------------------ MODULE MysqlDao ------------------------------
(***************************************************************************)
(* mysql_dao of the chat server on its connection pool, with the handlers  *)
(* of the logic worker that use it: a friend application (add_friend_apply),*)
(* its authentication (auth_friend_apply, then add_friend) and a login     *)
(* (get_apply_list, then get_friend_list, which calls get_user while it    *)
(* has a connection).  gRPC threads call get_user; the pool's own thread   *)
(* looks after idle connections.                                           *)
(*                                                                         *)
(* MySQL is external: a statement on a connection with autocommit takes    *)
(* effect at once, otherwise it is pending until commit; rows with pending *)
(* writes are locked, also against the other chat servers, and a statement *)
(* that meets a lock or a broken connection raises an exception.  A        *)
(* connection that ends is rolled back.  What a SELECT returns is left     *)
(* open: without autocommit it may be an old snapshot.                     *)
(***************************************************************************)
EXTENDS ConnPool

CONSTANTS Users, Worker,
          MaxFriends,  \* bound: friends of a user
          MaxReqs,     \* bound: requests the worker serves
          MaxCalls,    \* bound: gRPC calls that look a user up
          MaxBreaks,   \* bound: connections MySQL drops
          MaxFar       \* bound: writes of the other chat servers

ASSUME DaoAssumption ==
    /\ Worker \in Threads
    /\ None \notin {"ask", "accept", "addfriend", "applies", "friends", "user"}
    /\ {MaxFriends, MaxReqs, MaxCalls, MaxBreaks, MaxFar} \subseteq Nat

VARIABLES db,                       \* what is committed: friend and friend_apply
          auto, pend, broken,       \* the connections: autocommit, their pending writes
          op, ph, arg, left,        \* the worker: method, phase, pair, friends to look up
          reqs, calls, breaks,
          told,                     \* history: applications answered with SUCCESS
          far, fars,                \* another chat server: its pending writes, all its writes
          crashed                   \* an exception has left a thread

links == <<auto, pend, broken>>
work == <<op, ph, arg, left>>
counters == <<reqs, calls, breaks>>
outside == <<far, fars, crashed>>
vars == <<poolVars, db, links, work, counters, told, outside>>

Pairs == {p \in Users \X Users : p[1] # p[2]}
Flip(p) == <<p[2], p[1]>>
Write == [table : {"friend", "ask", "accept"}, row : Pairs]
Database == [friend : SUBSET Pairs, apply : [Pairs -> {"none", "asked", "accepted"}]]
Methods == {"ask", "accept", "addfriend", "applies", "friends", "user"}
Phases == {"get", "wait", "self", "peer", "commit", "loop", "put"}
Grpc == Threads \ {Worker}

TypeOK ==
    /\ PoolTypeOK
    /\ db \in Database
    /\ auto \in SUBSET Conns /\ broken \in SUBSET Conns
    /\ pend \in [Conns -> Seq(Write)]
    /\ op \in Methods \union {None} /\ ph \in Phases
    /\ arg \in Pairs /\ left \in 0..MaxFriends
    /\ reqs \in 0..MaxReqs /\ calls \in 0..MaxCalls /\ breaks \in 0..MaxBreaks
    /\ told \in SUBSET Pairs
    /\ far \in Seq(Write) /\ fars \in 0..MaxFar /\ crashed \in BOOLEAN

Init ==
    /\ PoolInit
    /\ db = [friend |-> {}, apply |-> [p \in Pairs |-> "none"]]
    /\ auto = Conns /\ pend = [c \in Conns |-> <<>>] /\ broken = {}
    /\ op = None /\ ph = "get" /\ arg \in Pairs /\ left = 0
    /\ reqs = 0 /\ calls = 0 /\ breaks = 0
    /\ told = {}
    /\ far = <<>> /\ fars = 0 /\ crashed = FALSE

------------------------------------------------------------------------------
(* MySQL                                                                   *)

(* What a sequence of writes makes of the tables: INSERT IGNORE of a row   *)
(* into friend ...                                                         *)
Rows(ws) == {ws[i].row : i \in {j \in DOMAIN ws : ws[j].table = "friend"}}

(* ... INSERT INTO friend_apply, where a duplicate changes nothing, and    *)
(* UPDATE of the status, where there may be no such row.                   *)
Stored(ws, p, i) ==
    db.apply[p] # "none" \/ \E j \in 1..(i - 1) : ws[j] = [table |-> "ask", row |-> p]

Stamp(ws, p) ==
    IF \E i \in DOMAIN ws : ws[i] = [table |-> "accept", row |-> p] /\ Stored(ws, p, i)
    THEN "accepted"
    ELSE IF db.apply[p] = "none" /\ Stored(ws, p, Len(ws) + 1) THEN "asked" ELSE db.apply[p]

Perform(ws) ==
    db' = [friend |-> db.friend \union Rows(ws), apply |-> [p \in Pairs |-> Stamp(ws, p)]]

(* The rows that a sequence of writes has locked.                          *)
Locks(ws, w) ==
    \E i \in DOMAIN ws : ws[i].row = w.row /\ (ws[i].table = "friend" <=> w.table = "friend")

Locked(c, w) == Locks(far, w) \/ \E d \in Conns \ {c} : Locks(pend[d], w)

Raises(c, w) == c \in broken \/ Locked(c, w)

Execute(c, w) ==
    IF c \in auto
    THEN Perform(<<w>>) /\ UNCHANGED pend
    ELSE pend' = [pend EXCEPT ![c] = Append(@, w)] /\ UNCHANGED db

Commit(c) ==
    /\ Perform(pend[c])
    /\ pend' = [pend EXCEPT ![c] = <<>>]

(* A connection is lost; MySQL rolls back what it had pending.             *)
Break(c) ==
    /\ c \notin broken /\ breaks < MaxBreaks
    /\ breaks' = breaks + 1
    /\ broken' = broken \union {c}
    /\ pend' = [pend EXCEPT ![c] = <<>>]
    /\ UNCHANGED <<poolVars, db, auto, work, reqs, calls, told, outside>>

(* A transaction of another chat server, which runs the same code: it      *)
(* writes what nobody has locked, and commits a friend row only after that *)
(* of the other direction.                                                 *)
FarWrite(w) ==
    /\ fars < MaxFar /\ \A c \in Conns : ~Locks(pend[c], w)
    /\ far' = Append(far, w)
    /\ fars' = fars + 1
    /\ UNCHANGED <<poolVars, db, links, work, counters, told, crashed>>

FarCommit ==
    /\ far # <<>> /\ \A p \in Rows(far) : Flip(p) \in Rows(far)
    /\ Perform(far)
    /\ far' = <<>>
    /\ UNCHANGED <<poolVars, links, work, counters, told, fars, crashed>>

FarRollback ==
    /\ far # <<>> /\ far' = <<>>
    /\ UNCHANGED <<poolVars, db, links, work, counters, told, fars, crashed>>

(* check_connection: the idle connections that do not answer are replaced. *)
CheckConnection ==
    /\ mtx = None /\ ToSet(idle) \intersect broken # {}
    /\ broken' = broken \ ToSet(idle)
    /\ auto' = auto \union (ToSet(idle) \intersect broken)
    /\ UNCHANGED <<poolVars, db, pend, work, counters, told, outside>>

(* ... or MySQL refuses the new one: the exception leaves the thread and   *)
(* ends the process, and with it all its transactions.                     *)
CheckThrows ==
    /\ mtx = None /\ ToSet(idle) \intersect broken # {}
    /\ crashed' = TRUE
    /\ broken' = Conns /\ pend' = [c \in Conns |-> <<>>]
    /\ UNCHANGED <<poolVars, db, auto, work, counters, told, far, fars>>

------------------------------------------------------------------------------
(* The worker's handlers                                                   *)

Con == Head(held[Worker])
Ready(m, phase) == op = m /\ ph = phase /\ pc[Worker] = "out"

(* A handler begins with its first method of mysql_dao.                    *)
Request(m, p) ==
    /\ op = None /\ reqs < MaxReqs /\ m \in {"ask", "accept", "applies"}
    /\ reqs' = reqs + 1
    /\ op' = m /\ arg' = p /\ ph' = "get"
    /\ UNCHANGED <<poolVars, db, links, left, calls, breaks, told, outside>>

WorkerGet ==
    /\ op # None /\ ph = "get"
    /\ GetConn(Worker)
    /\ ph' = "wait"
    /\ UNCHANGED <<db, links, op, arg, left, counters, told, outside>>

(* add_friend_apply: one statement.                                        *)
Ask ==
    /\ Ready("ask", "wait")
    /\ LET w == [table |-> "ask", row |-> arg] IN
       IF Raises(Con, w) THEN UNCHANGED <<db, pend>> ELSE Execute(Con, w)
    /\ ph' = "put"
    /\ UNCHANGED <<poolVars, auto, broken, op, arg, left, counters, told, outside>>

(* auth_friend_apply: from and to are swapped.                             *)
Accept ==
    /\ Ready("accept", "wait")
    /\ LET w == [table |-> "accept", row |-> Flip(arg)] IN
       IF Raises(Con, w) THEN UNCHANGED <<db, pend>> ELSE Execute(Con, w)
    /\ ph' = "put"
    /\ UNCHANGED <<poolVars, auto, broken, op, arg, left, counters, told, outside>>

(* Mutant: no transaction is begun.                                        *)
BeginNothing ==
    /\ Ready("addfriend", "wait")
    /\ ph' = IF Con \in broken THEN "put" ELSE "self"
    /\ UNCHANGED <<poolVars, db, links, op, arg, left, counters, told, outside>>

(* add_friend: setAutoCommit(false), which nothing ever takes back ...     *)
Begin ==
    /\ Ready("addfriend", "wait")
    /\ IF Con \in broken THEN ph' = "put" /\ UNCHANGED auto
                         ELSE ph' = "self" /\ auto' = auto \ {Con}
    /\ UNCHANGED <<poolVars, db, pend, broken, op, arg, left, counters, told, outside>>

(* ... the two inserts, each with a rollback when it raises ...            *)
Insert(phase, p, next) ==
    /\ Ready("addfriend", phase)
    /\ LET w == [table |-> "friend", row |-> p] IN
       IF Raises(Con, w)
       THEN ph' = "put" /\ pend' = [pend EXCEPT ![Con] = <<>>] /\ UNCHANGED db
       ELSE ph' = next /\ Execute(Con, w)
    /\ UNCHANGED <<poolVars, auto, broken, op, arg, left, counters, told, outside>>

InsertSelf == Insert("self", arg, "peer")
InsertPeer == Insert("peer", Flip(arg), "commit")

(* ... and the commit.                                                     *)
AddFriendCommit ==
    /\ Ready("addfriend", "commit")
    /\ IF Con \in broken THEN UNCHANGED <<db, pend>> ELSE Commit(Con)
    /\ ph' = "put"
    /\ UNCHANGED <<poolVars, auto, broken, op, arg, left, counters, told, outside>>

(* get_apply_list: read only.                                              *)
ReadApplies ==
    /\ Ready("applies", "wait")
    /\ ph' = "put"
    /\ UNCHANGED <<poolVars, db, links, op, arg, left, counters, told, outside>>

(* get_friend_list: the friends, then get_user for each of them while the  *)
(* connection is kept.                                                     *)
ReadFriends ==
    /\ Ready("friends", "wait")
    /\ \/ Con \in broken /\ ph' = "put" /\ left' = 0
       \/ Con \notin broken /\ ph' = "loop" /\ left' \in 0..MaxFriends
    /\ UNCHANGED <<poolVars, db, links, op, arg, counters, told, outside>>

NextFriend ==
    /\ Ready("friends", "loop")
    /\ IF left = 0 THEN ph' = "put" /\ UNCHANGED <<op, left>>
                   ELSE op' = "user" /\ ph' = "get" /\ left' = left - 1
    /\ UNCHANGED <<poolVars, db, links, arg, counters, told, outside>>

ReadUser ==
    /\ Ready("user", "wait")
    /\ ph' = "put"
    /\ UNCHANGED <<poolVars, db, links, op, arg, left, counters, told, outside>>

(* What follows a method: the handler's next one, or its end.              *)
Follow ==
    CASE op = "accept" -> op' = "addfriend" /\ ph' = "get"
      [] op = "applies" -> op' = "friends" /\ ph' = "get"
      [] op = "user" -> op' = "friends" /\ ph' = "loop"
      [] OTHER -> op' = None /\ ph' = "get"

(* The handler of an application answers SUCCESS, whatever                 *)
(* add_friend_apply has returned.                                          *)
Answer == told' = IF op = "ask" THEN told \union {arg} ELSE told

(* A connection is returned; after close it is destroyed, and MySQL rolls  *)
(* back what it had pending.                                               *)
Return(t) ==
    /\ PutConn(t)
    /\ pend' = IF stop /\ ~PushWhenStopped THEN [pend EXCEPT ![Head(held[t])] = <<>>] ELSE pend

(* Mutant: get_user has no Defer: it keeps its connection.                 *)
WorkerPutNotUser ==
    /\ op # None /\ ph = "put"
    /\ IF op = "user" THEN UNCHANGED <<poolVars, pend>> ELSE Return(Worker)
    /\ Follow /\ Answer
    /\ UNCHANGED <<db, auto, broken, arg, left, counters, outside>>

WorkerPut ==
    /\ op # None /\ ph = "put"
    /\ Return(Worker)
    /\ Follow /\ Answer
    /\ UNCHANGED <<db, auto, broken, arg, left, counters, outside>>

(* get_conn returned null: the method returns.                             *)
WorkerNull ==
    /\ GiveUp(Worker)
    /\ Follow /\ Answer
    /\ UNCHANGED <<db, links, arg, left, counters, outside>>

------------------------------------------------------------------------------
(* The other threads                                                       *)

(* get_base_info of the gRPC service calls get_user.                       *)
GrpcCall(t) ==
    /\ calls < MaxCalls /\ ~stop /\ held[t] = <<>>
    /\ GetConn(t)
    /\ calls' = calls + 1
    /\ UNCHANGED <<db, links, work, reqs, breaks, told, outside>>

GrpcReturn(t) ==
    /\ Return(t)
    /\ UNCHANGED <<db, auto, broken, work, counters, told, outside>>

(* ~mysql_dao closes the pool when the process ends: the gRPC server has   *)
(* shut down by then, the worker may still serve.                          *)
DtorClose ==
    /\ \A t \in Grpc : pc[t] = "out" /\ held[t] = <<>>
    /\ CloseFlag
    /\ UNCHANGED <<db, links, work, counters, told, outside>>

PoolOnly(A) == A /\ UNCHANGED <<db, links, work, counters, told, outside>>

DtorNotify == PoolOnly(CloseNotify)

(* ~mysql_pool destroys the connections that are idle.                     *)
DtorPop ==
    /\ stop /\ ~closing /\ mtx = None /\ idle # <<>>
    /\ idle' = <<>>
    /\ pend' = [c \in Conns |-> IF c \in ToSet(idle) THEN <<>> ELSE pend[c]]
    /\ UNCHANGED <<mtx, stop, closing, pc, held, db, auto, broken, work, counters, told, outside>>

WorkerStep ==
    \/ PoolOnly(PoolStep(Worker))
    \/ WorkerGet \/ Ask \/ Accept \/ Begin \/ InsertSelf \/ InsertPeer \/ AddFriendCommit
    \/ ReadApplies \/ ReadFriends \/ NextFriend \/ ReadUser \/ WorkerPut \/ WorkerNull

GrpcStep(t) == PoolOnly(PoolStep(t)) \/ GrpcReturn(t)

Next ==
    /\ ~crashed
    /\ \/ WorkerStep
       \/ \E t \in Grpc : GrpcStep(t) \/ GrpcCall(t)
       \/ \E t \in Threads : PoolOnly(SpuriousWakeup(t))
       \/ \E m \in {"ask", "accept", "applies"}, p \in Pairs : Request(m, p)
       \/ \E c \in Conns : Break(c)
       \/ \E w \in Write : FarWrite(w)
       \/ FarCommit \/ FarRollback
       \/ CheckConnection \/ CheckThrows \/ DtorClose \/ DtorNotify \/ DtorPop

Spec == Init /\ [][Next]_vars

(* Threads that can go on do.  Spurious wakeups take the mutex and release *)
(* it again and again; they are not so many that another thread never gets *)
(* it.                                                                     *)
Fairness ==
    /\ SF_vars(~crashed /\ WorkerStep)
    /\ \A t \in Grpc : SF_vars(~crashed /\ GrpcStep(t))
    /\ WF_vars(~crashed /\ DtorNotify)

FairSpec == Spec /\ Fairness

------------------------------------------------------------------------------
(* Properties                                                              *)

(* The pool under the handlers: types, the mutex with what the thread that *)
(* has it has seen, every connection in the queue or with one thread, once,*)
(* and no thread left waiting for one that is idle.                        *)
PoolSound == TypeOK /\ MutexHeld /\ EachOnce /\ NoIdleWhileWaiting

(* add_friend writes two rows in two statements; whatever breaks between   *)
(* them or is locked by another server, what is committed never makes one  *)
(* a friend of the other only.                                             *)
Mutual == \A p \in db.friend : Flip(p) \in db.friend

(* Every handler ends: its get_conn always returns, also the one get_user  *)
(* makes while get_friend_list has a connection, and also when the pool is *)
(* closed meanwhile; or the process ends.                                  *)
HandlersEnd == op # None ~> op = None \/ crashed

(* "The application has to be in the database, so that friends who are     *)
(* offline can be added, and is loaded when they log in"                   *)
(* (logic_system.cc:144): an application that was answered with SUCCESS,   *)
(* before the pool is closed, is in the table.  Violated, although nothing *)
(* fails: after an add_friend its connection has no autocommit any more,   *)
(* and an application that is written on it stays in an open transaction.  *)
ToldStored == ~stop => \A p \in told : db.apply[p] # "none"

------------------------------------------------------------------------------
(* What the proofs need: an invariant that every step keeps.               *)

Has == ph \notin {"get", "wait"} \/ (ph = "wait" /\ pc[Worker] = "out")

(* Where the worker is with respect to the pool, and that it has the       *)
(* connection it uses, while get_user runs the one of get_friend_list too. *)
WorkInv ==
    /\ op = None => ph = "get"
    /\ ph \in {"self", "peer", "commit"} => op = "addfriend"
    /\ ph = "loop" => op = "friends"
    /\ ph # "wait" => pc[Worker] = "out"
    /\ Has => held[Worker] # <<>>
    /\ op = "user" => held[Worker] # <<>> /\ (Has => Tail(held[Worker]) # <<>>)

(* The friend rows that are pending on a connection: those of the          *)
(* add_friend under way on it, and no others.                              *)
Expected(c) ==
    IF ph \notin {"peer", "commit"} \/ c # Con \/ c \in broken THEN {}
    ELSE IF ph = "peer" THEN {arg} ELSE {arg, Flip(arg)}

RowInv ==
    /\ \A c \in auto \union broken : pend[c] = <<>>
    /\ \A c \in Conns : Rows(pend[c]) = Expected(c)
    /\ ph \in {"self", "peer", "commit"} => Con \notin auto

DaoInv == PoolSound /\ WorkInv /\ RowInv /\ Mutual
=============================================================================
