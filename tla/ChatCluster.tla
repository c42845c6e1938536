----------------------------- MODULE ChatCluster -----------------------------
(***************************************************************************)
(* The chat servers, their sessions and the redis they share.  A client    *)
(* that holds a token of the status server logs in on a connection; the    *)
(* server counts the login, binds the user to the session and publishes    *)
(* itself as the user's home.  Messages for a user are looked up in redis  *)
(* and delivered here or, by gRPC, at the server that is the home.         *)
(*                                                                         *)
(* One thread per server, the logic worker, runs the handlers, a message   *)
(* at a time; the sessions' ends are handled by io threads and the gRPC    *)
(* requests by gRPC threads.  Each access to redis, to user_mgr and to a   *)
(* session is a step of its own.  Framing and sending are ChatSession's    *)
(* subject, the queue is LogicSystem's.                                    *)
(*                                                                         *)
(* user_id_ is not initialised: until a login binds it, clear_session may  *)
(* read any user's number.  Text, friend application and authentication    *)
(* have the same routing, so they are one kind of request; what they write *)
(* to MySQL is not here.                                                   *)
(***************************************************************************)
EXTENDS Integers, Sequences

CONSTANTS Servers, Users,
          None,        \* no user, no session, no server
          NConns,      \* bound: connections, numbered as they are accepted
          NReqs,       \* bound: requests, numbered as they arrive
          MaxTok,      \* bound: tokens issued per user
          MaxEnds      \* bound: connections closed, signals and crashes, in all

ASSUME NoneAssumption == None \notin Users \union Servers \union Nat
ASSUME BoundsAssumption == {NConns, NReqs, MaxTok, MaxEnds} \subseteq Nat

Conns == 1..NConns
Reqs == 1..NReqs

VARIABLES tok, uip, count,                  \* redis: utoken_, uip_ and logincount (-1: absent)
          srv, ends,                        \* what each server's main is doing; how often something ended
          que, wpc, cnt, found,             \* the worker: queue, place, count, the session looked up
          usess,                            \* user_mgr: uid_to_session_ of each server
          sessions,                         \* cserver: sessions_ of all servers
          cpc, at, unlisted, uid, rmuid,    \* the connections
          req, task,                        \* the requests, and the gRPC calls made for them
          authed, logins, delivered, late    \* history

redis == <<tok, uip, count>>
worker == <<que, wpc, cnt, found>>
conns == <<cpc, at, unlisted, uid, rmuid>>
history == <<authed, logins, delivered, late>>
vars == <<redis, srv, ends, worker, usess, sessions, conns, req, task, history>>

ServerState == {"up", "stopping", "hdel", "closed", "down", "crashed"}
Running == {"up", "stopping", "hdel", "closed"}
WorkerPC == {"idle", "hget", "hset", "bind", "home", "map", "find", "send", "rpc", "reply"}
Request == [kind : {"login"}, conn : Conns, user : Users, tok : 1..MaxTok + 1]
             \union [kind : {"notify"}, conn : Conns, user : Users, tok : {0}]
Unsent == [kind |-> "none", conn |-> None, user |-> None, tok |-> 0]
Call == [st : {"none", "sent", "found", "ok"}, to : Servers \union {None}, conn : Conns \union {None}]
NoCall == [st |-> "none", to |-> None, conn |-> None]

TypeOK ==
    /\ tok \in [Users -> 0..MaxTok]
    /\ uip \in [Users -> Servers \union {None}]
    /\ count \in [Servers -> Int]
    /\ srv \in [Servers -> ServerState]
    /\ ends \in 0..MaxEnds
    /\ que \in [Servers -> Seq(Reqs)]
    /\ wpc \in [Servers -> WorkerPC]
    /\ cnt \in [Servers -> Int]
    /\ found \in [Servers -> Conns \union {None}]
    /\ usess \in [Servers -> [Users -> Conns \union {None}]]
    /\ sessions \in SUBSET Conns
    /\ cpc \in [Conns -> {"none", "open", "clear", "rm", "erase", "gone"}]
    /\ at \in [Conns -> Servers \union {None}]
    /\ unlisted \in SUBSET Conns
    /\ uid \in [Conns -> Users \union {None}]
    /\ rmuid \in [Conns -> Users \union {None}]
    /\ req \in [Reqs -> Request \union {Unsent}]
    /\ task \in [Reqs -> Call]
    /\ authed \in [Conns -> SUBSET Users]
    /\ logins \in [Servers -> Nat]
    /\ delivered \in [Conns -> SUBSET Reqs]
    /\ late \in SUBSET Conns

Init ==
    /\ tok = [u \in Users |-> 0]
    /\ uip \in [Users -> Servers \union {None}]
    /\ count = [s \in Servers |-> 0]
    /\ srv = [s \in Servers |-> "up"] /\ ends = 0
    /\ que = [s \in Servers |-> <<>>] /\ wpc = [s \in Servers |-> "idle"]
    /\ cnt = [s \in Servers |-> 0] /\ found = [s \in Servers |-> None]
    /\ usess = [s \in Servers |-> [u \in Users |-> None]]
    /\ sessions = {}
    /\ cpc = [c \in Conns |-> "none"] /\ at = [c \in Conns |-> None] /\ unlisted = {}
    /\ uid = [c \in Conns |-> None] /\ rmuid = [c \in Conns |-> None]
    /\ req = [r \in Reqs |-> Unsent] /\ task = [r \in Reqs |-> NoCall]
    /\ authed = [c \in Conns |-> {}] /\ logins = [s \in Servers |-> 0]
    /\ delivered = [c \in Conns |-> {}]
    /\ late = {}

------------------------------------------------------------------------------
(* The life of a server                                                    *)

(* main of a server that is started again: the login count is set to zero, *)
(* then the server accepts.  Initially all of them have got this far.      *)
Start(s) ==
    /\ srv[s] \notin Running
    /\ srv' = [srv EXCEPT ![s] = "up"]
    /\ count' = [count EXCEPT ![s] = 0]
    /\ logins' = [logins EXCEPT ![s] = 0]
    /\ UNCHANGED <<tok, uip, ends, worker, usess, sessions, conns, req, task, authed,
                   delivered, late>>

(* What a server's threads have begun and a stop waits for: on the accept  *)
(* thread, an insert; on the io threads, a clear_session; on the gRPC      *)
(* threads, a call.                                                        *)
Here(s) == {c \in Conns : at[c] = s /\ cpc[c] # "none"}

Begun(s) ==
    \/ \E c \in Here(s) : cpc[c] \in {"clear", "rm", "erase"}
    \/ \E r \in Reqs : task[r].to = s /\ task[r].st = "found"

(* SIGINT or SIGTERM, handled on the accept thread: io threads and gRPC    *)
(* server stop; the logic worker goes on.                                  *)
Signal(s) ==
    /\ srv[s] = "up" /\ ends < MaxEnds
    /\ unlisted \intersect Here(s) = {}
    /\ ends' = ends + 1
    /\ srv' = [srv EXCEPT ![s] = "stopping"]
    /\ UNCHANGED <<redis, worker, usess, sessions, conns, req, task, history>>

(* main deletes the count ...                                              *)
Hdel(s) ==
    /\ srv[s] = "stopping" /\ ~Begun(s)
    /\ srv' = [srv EXCEPT ![s] = "hdel"]
    /\ count' = [count EXCEPT ![s] = -1]
    /\ UNCHANGED <<tok, uip, ends, worker, usess, sessions, conns, req, task, history>>

(* ... and closes redis_mgr.                                               *)
CloseRedis(s) ==
    /\ srv[s] = "hdel"
    /\ srv' = [srv EXCEPT ![s] = "closed"]
    /\ UNCHANGED <<redis, ends, worker, usess, sessions, conns, req, task, history>>

(* What the end of its process does to a server's memory.                  *)
Die(s, state) ==
    /\ srv' = [srv EXCEPT ![s] = state]
    /\ que' = [que EXCEPT ![s] = <<>>] /\ wpc' = [wpc EXCEPT ![s] = "idle"]
    /\ cnt' = [cnt EXCEPT ![s] = 0] /\ found' = [found EXCEPT ![s] = None]
    /\ usess' = [usess EXCEPT ![s] = [u \in Users |-> None]]
    /\ sessions' = sessions \ Here(s)
    /\ unlisted' = unlisted \ Here(s)
    /\ cpc' = [c \in Conns |-> IF c \in Here(s) THEN "gone" ELSE cpc[c]]
    /\ task' = [r \in Reqs |-> IF task[r].to = s THEN NoCall ELSE task[r]]
    /\ UNCHANGED <<redis, at, uid, rmuid, req, history>>

(* main has returned and ~logic_system has let the worker drain its queue. *)
Exit(s) ==
    /\ srv[s] = "closed" /\ que[s] = <<>>
    /\ Die(s, "down") /\ UNCHANGED ends

Crash(s) ==
    /\ srv[s] \in Running /\ ends < MaxEnds
    /\ ends' = ends + 1
    /\ Die(s, "crashed")

(* A login past its token check, or the look-up of a user's data (of the   *)
(* sender too, before an RPC or before send), uses the null connection of  *)
(* the closed pool.                                                        *)
NullConnection(s) ==
    /\ srv[s] = "closed" /\ que[s] # <<>>
    /\ \/ wpc[s] \in {"hget", "hset", "home", "send"}
       \/ wpc[s] = "idle" /\ req[Head(que[s])].kind = "notify"
    /\ Die(s, "crashed") /\ UNCHANGED ends

------------------------------------------------------------------------------
(* Connections                                                             *)

(* handle_accept starts the session ...                                    *)
Accept(c, s) ==
    /\ srv[s] = "up" /\ cpc[c] = "none"
    /\ \A d \in 1..c - 1 : cpc[d] # "none"
    /\ cpc' = [cpc EXCEPT ![c] = "open"]
    /\ at' = [at EXCEPT ![c] = s]
    /\ unlisted' = unlisted \union {c}
    /\ UNCHANGED <<redis, srv, ends, worker, usess, sessions, uid, rmuid, req, task, history>>

(* ... and then puts it into sessions_.                                    *)
Insert(c) ==
    /\ c \in unlisted /\ srv[at[c]] = "up"
    /\ sessions' = sessions \union {c}
    /\ unlisted' = unlisted \ {c}
    /\ UNCHANGED <<redis, srv, ends, worker, usess, cpc, at, uid, rmuid, req, task, history>>

(* A whole message has arrived: post_msg.                                  *)
Post(c, r, q) ==
    /\ cpc[c] = "open" /\ srv[at[c]] = "up"
    /\ req[r] = Unsent /\ q \in Request /\ q.conn = c
    /\ \A p \in 1..r - 1 : req[p] # Unsent
    /\ req' = [req EXCEPT ![r] = q]
    /\ que' = [que EXCEPT ![at[c]] = Append(@, r)]
    /\ UNCHANGED <<redis, srv, ends, wpc, cnt, found, usess, sessions, conns, task, history>>

(* The connection ends: close(), and clear_session is called.              *)
Close(c) ==
    /\ cpc[c] = "open" /\ srv[at[c]] = "up"
    /\ ends < MaxEnds /\ ends' = ends + 1
    /\ cpc' = [cpc EXCEPT ![c] = "clear"]
    /\ UNCHANGED <<redis, srv, worker, usess, sessions, at, unlisted, uid, rmuid,
                   req, task, history>>

(* clear_session: the find, and the user of the session.                   *)
ClearFind(c, v) ==
    /\ cpc[c] = "clear" /\ srv[at[c]] \in {"up", "stopping"}
    /\ v = uid[c] \/ (uid[c] = None /\ v \in Users)
    /\ cpc' = [cpc EXCEPT ![c] = IF c \in sessions /\ v # None THEN "rm" ELSE "erase"]
    /\ rmuid' = [rmuid EXCEPT ![c] = v]
    /\ late' = IF c \in sessions THEN late ELSE late \union {c}
    /\ UNCHANGED <<redis, srv, ends, worker, usess, sessions, at, unlisted, uid, req, task,
                   authed, logins, delivered>>

(* Mutant: rm_user_session is given the session's server and forgets it.   *)
ClearRmNothing(c) ==
    /\ cpc[c] = "rm" /\ srv[at[c]] \in {"up", "stopping"}
    /\ cpc' = [cpc EXCEPT ![c] = "erase"]
    /\ UNCHANGED <<redis, srv, ends, worker, usess, sessions, at, unlisted, uid, rmuid,
                   req, task, history>>

(* rm_user_session: whichever session the user is bound to.                *)
ClearRm(c) ==
    /\ cpc[c] = "rm" /\ srv[at[c]] \in {"up", "stopping"}
    /\ usess' = [usess EXCEPT ![at[c]][rmuid[c]] = None]
    /\ cpc' = [cpc EXCEPT ![c] = "erase"]
    /\ UNCHANGED <<redis, srv, ends, worker, sessions, at, unlisted, uid, rmuid, req, task,
                   history>>

ClearErase(c) ==
    /\ cpc[c] = "erase" /\ srv[at[c]] \in {"up", "stopping"}
    /\ sessions' = sessions \ {c}
    /\ cpc' = [cpc EXCEPT ![c] = "gone"]
    /\ rmuid' = [rmuid EXCEPT ![c] = None]
    /\ UNCHANGED <<redis, srv, ends, worker, usess, at, unlisted, uid, req, task, history>>

(* GetChatServer of the status server: a new token for the user.           *)
IssueToken(u) ==
    /\ tok[u] < MaxTok
    /\ tok' = [tok EXCEPT ![u] = @ + 1]
    /\ UNCHANGED <<uip, count, srv, ends, worker, usess, sessions, conns, req, task, history>>

------------------------------------------------------------------------------
(* The logic worker                                                        *)

Current(s) == req[Head(que[s])]

Serving(s, kind) ==
    /\ srv[s] \in Running /\ wpc[s] = "idle" /\ que[s] # <<>>
    /\ Current(s).kind = kind

At(s, pc) == srv[s] \in Running /\ wpc[s] = pc

Redis(s) == srv[s] # "closed"

Goto(s, pc) == wpc' = [wpc EXCEPT ![s] = pc]

TokenOK(s) == LET q == Current(s) IN Redis(s) /\ tok[q.user] # 0 /\ tok[q.user] = q.tok

(* login_handler: the token in redis has to be the client's, and the user  *)
(* has to be found in redis or MySQL.                                      *)
LoginCheck(s) ==
    /\ Serving(s, "login")
    /\ LET q == Current(s) IN
       \/ /\ TokenOK(s)
          /\ authed' = [authed EXCEPT ![q.conn] = @ \union {q.user}]
          /\ Goto(s, "hget")
       \/ UNCHANGED authed /\ Goto(s, "reply")
    /\ UNCHANGED <<redis, srv, ends, que, cnt, found, usess, sessions, conns, req, task,
                   logins, delivered, late>>

(* HGET logincount; an absent one counts as zero.                          *)
LoginCount(s) ==
    /\ At(s, "hget") /\ Redis(s)
    /\ cnt' = [cnt EXCEPT ![s] = IF count[s] = -1 THEN 0 ELSE count[s]]
    /\ Goto(s, "hset")
    /\ UNCHANGED <<redis, srv, ends, que, found, usess, sessions, conns, req, task, history>>

(* Mutant: the count is written back as it was read.                       *)
LoginStoreSame(s) ==
    /\ At(s, "hset") /\ Redis(s)
    /\ count' = [count EXCEPT ![s] = cnt[s]]
    /\ cnt' = [cnt EXCEPT ![s] = 0]
    /\ Goto(s, "bind")
    /\ UNCHANGED <<tok, uip, srv, ends, que, found, usess, sessions, conns, req, task,
                   history>>

(* HSET logincount.                                                        *)
LoginStore(s) ==
    /\ At(s, "hset") /\ Redis(s)
    /\ count' = [count EXCEPT ![s] = cnt[s] + 1]
    /\ cnt' = [cnt EXCEPT ![s] = 0]
    /\ Goto(s, "bind")
    /\ UNCHANGED <<tok, uip, srv, ends, que, found, usess, sessions, conns, req, task,
                   history>>

(* set_user_id.                                                            *)
LoginBind(s) ==
    /\ At(s, "bind")
    /\ uid' = [uid EXCEPT ![Current(s).conn] = Current(s).user]
    /\ Goto(s, "home")
    /\ UNCHANGED <<redis, srv, ends, que, cnt, found, usess, sessions, cpc, at, unlisted,
                   rmuid, req, task, history>>

(* SET uip_.                                                               *)
LoginHome(s) ==
    /\ At(s, "home") /\ Redis(s)
    /\ uip' = [uip EXCEPT ![Current(s).user] = s]
    /\ Goto(s, "map")
    /\ UNCHANGED <<tok, count, srv, ends, que, cnt, found, usess, sessions, conns, req, task,
                   history>>

(* Mutant: only a session the server has listed is bound.                  *)
LoginMapOnlyListed(s) ==
    /\ At(s, "map")
    /\ LET q == Current(s) IN
       /\ usess' = IF q.conn \in sessions THEN [usess EXCEPT ![s][q.user] = q.conn] ELSE usess
       /\ logins' = [logins EXCEPT ![s] = @ + 1]
       /\ late' = IF cpc[q.conn] = "open" THEN late ELSE late \union {q.conn}
    /\ Goto(s, "reply")
    /\ UNCHANGED <<redis, srv, ends, que, cnt, found, sessions, conns, req, task, authed,
                   delivered>>

(* set_user_session.                                                       *)
LoginMap(s) ==
    /\ At(s, "map")
    /\ LET q == Current(s) IN
       /\ usess' = [usess EXCEPT ![s][q.user] = q.conn]
       /\ logins' = [logins EXCEPT ![s] = @ + 1]
       /\ late' = IF cpc[q.conn] = "open" THEN late ELSE late \union {q.conn}
    /\ Goto(s, "reply")
    /\ UNCHANGED <<redis, srv, ends, que, cnt, found, sessions, conns, req, task, authed, delivered>>

(* The three handlers that notify another user: the user's home decides.   *)
NotifyRoute(s) ==
    /\ Serving(s, "notify")
    /\ LET h == IF Redis(s) THEN uip[Current(s).user] ELSE None IN
       \/ h = None /\ Goto(s, "reply") /\ UNCHANGED task
       \/ h = s /\ Goto(s, "find") /\ UNCHANGED task
       \/ /\ h \in Servers \ {s}
          /\ Goto(s, "rpc")
          /\ task' = [task EXCEPT ![Head(que[s])] = [st |-> "sent", to |-> h, conn |-> None]]
    /\ UNCHANGED <<redis, srv, ends, que, cnt, found, usess, sessions, conns, req, history>>

(* get_session on this server.                                             *)
NotifyFind(s) ==
    /\ At(s, "find")
    /\ found' = [found EXCEPT ![s] = usess[s][Current(s).user]]
    /\ Goto(s, IF found'[s] = None THEN "reply" ELSE "send")
    /\ UNCHANGED <<redis, srv, ends, que, cnt, usess, sessions, conns, req, task, history>>

(* send on a session that was looked up: it arrives if the session is open *)
(* and its send queue is not full.                                         *)
Deliver(c, r) ==
    \/ cpc[c] = "open" /\ delivered' = [delivered EXCEPT ![c] = @ \union {r}]
    \/ UNCHANGED delivered

(* Mutant: the handler's own session is used, not the one it looked up.    *)
NotifySendOwn(s) ==
    /\ At(s, "send")
    /\ Deliver(Current(s).conn, Head(que[s]))
    /\ Goto(s, "reply")
    /\ UNCHANGED <<redis, srv, ends, que, cnt, found, usess, sessions, conns, req, task,
                   authed, logins, late>>

NotifySend(s) ==
    /\ At(s, "send")
    /\ Deliver(found[s], Head(que[s]))
    /\ Goto(s, "reply")
    /\ UNCHANGED <<redis, srv, ends, que, cnt, found, usess, sessions, conns, req, task,
                   authed, logins, late>>

(* The call has returned, or failed: the peer is gone or unreachable.      *)
RpcReturn(s) ==
    /\ At(s, "rpc") /\ task[Head(que[s])].st \in {"ok", "none"}
    /\ Goto(s, "reply")
    /\ UNCHANGED <<redis, srv, ends, que, cnt, found, usess, sessions, conns, req, task,
                   history>>

RpcFail(s) ==
    /\ At(s, "rpc") /\ task[Head(que[s])].st \in {"sent", "found"}
    /\ Goto(s, "reply")
    /\ UNCHANGED <<redis, srv, ends, que, cnt, found, usess, sessions, conns, req, task,
                   history>>

(* The handler returns: its Defer sends the answer, the message is popped. *)
Reply(s) ==
    /\ At(s, "reply")
    /\ que' = [que EXCEPT ![s] = Tail(@)]
    /\ Goto(s, "idle")
    /\ found' = [found EXCEPT ![s] = None]
    /\ UNCHANGED <<redis, srv, ends, cnt, usess, sessions, conns, req, task, history>>

------------------------------------------------------------------------------
(* The gRPC threads of the home                                            *)

(* Mutant: the service takes the logic worker's lock.                      *)
RpcFindLocked(r) ==
    /\ task[r].st = "sent" /\ srv[task[r].to] = "up" /\ wpc[task[r].to] = "idle"
    /\ LET c == usess[task[r].to][req[r].user] IN
       task' = [task EXCEPT ![r].conn = c, ![r].st = IF c = None THEN "ok" ELSE "found"]
    /\ UNCHANGED <<redis, srv, ends, worker, usess, sessions, conns, req, history>>

(* ChatServiceImpl::Notify...: get_session.                                *)
RpcFind(r) ==
    /\ task[r].st = "sent" /\ srv[task[r].to] = "up"
    /\ LET c == usess[task[r].to][req[r].user] IN
       task' = [task EXCEPT ![r].conn = c, ![r].st = IF c = None THEN "ok" ELSE "found"]
    /\ UNCHANGED <<redis, srv, ends, worker, usess, sessions, conns, req, history>>

(* ... and send; Shutdown lets a call under way finish.                    *)
RpcSend(r) ==
    /\ task[r].st = "found" /\ srv[task[r].to] \in {"up", "stopping"}
    /\ Deliver(task[r].conn, r)
    /\ task' = [task EXCEPT ![r].st = "ok"]
    /\ UNCHANGED <<redis, srv, ends, worker, usess, sessions, conns, req, authed, logins, late>>

LoginStep(s) ==
    LoginCheck(s) \/ LoginCount(s) \/ LoginStore(s) \/ LoginBind(s) \/ LoginHome(s) \/ LoginMap(s)

NotifyStep(s) == NotifyRoute(s) \/ NotifyFind(s) \/ NotifySend(s) \/ RpcReturn(s)

WorkerStep(s) == LoginStep(s) \/ NullConnection(s) \/ NotifyStep(s) \/ Reply(s)

ConnStep(c) ==
    \/ Insert(c) \/ Close(c) \/ ClearRm(c) \/ ClearErase(c)
    \/ \E v \in Users \union {None} : ClearFind(c, v)
    \/ \E s \in Servers : Accept(c, s)
    \/ \E r \in Reqs, q \in Request : Post(c, r, q)

ServerStep(s) ==
    Start(s) \/ Signal(s) \/ Hdel(s) \/ CloseRedis(s) \/ Exit(s) \/ Crash(s) \/ RpcFail(s)

RpcStep(r) == RpcFind(r) \/ RpcSend(r)

Next ==
    \/ \E s \in Servers : ServerStep(s) \/ WorkerStep(s)
    \/ \E c \in Conns : ConnStep(c)
    \/ \E r \in Reqs : RpcStep(r)
    \/ \E u \in Users : IssueToken(u)

Spec == Init /\ [][Next]_vars

(* The workers and the gRPC threads are scheduled, and a call to a server  *)
(* that does not answer any more fails.                                    *)
RpcBroken(s) ==
    /\ At(s, "rpc") /\ task[Head(que[s])].to # None
    /\ srv[task[Head(que[s])].to] # "up"
    /\ RpcFail(s)

Fairness ==
    /\ \A s \in Servers : WF_vars(WorkerStep(s)) /\ WF_vars(RpcBroken(s))
    /\ \A r \in Reqs : WF_vars(RpcStep(r))

FairSpec == Spec /\ Fairness

------------------------------------------------------------------------------
(* Properties                                                              *)

(* A message for a user is only ever delivered on a session that proved    *)
(* with its token to be that user's, on whichever server, through stale    *)
(* homes, stale sessions and restarts.                                     *)
DeliveredToUser ==
    \A c \in Conns : \A r \in delivered[c] : req[r].user \in authed[c]

(* What makes it inductive: user_mgr, the worker and the gRPC threads only *)
(* hold sessions the user has authenticated on; what is queued or called   *)
(* for has arrived.                                                        *)
BoundToUser ==
    \A s \in Servers : \A u \in Users :
        usess[s][u] # None => u \in authed[usess[s][u]]

QueuedArrived ==
    \A s \in Servers :
        /\ \A i \in 1..Len(que[s]) : req[que[s][i]] # Unsent
        /\ wpc[s] # "idle" => que[s] # <<>>

WorkerHolds ==
    \A s \in Servers :
        /\ wpc[s] \in {"hget", "hset", "bind", "home", "map"}
               => Current(s).user \in authed[Current(s).conn]
        /\ wpc[s] = "send" => found[s] # None /\ Current(s).user \in authed[found[s]]

CallHolds ==
    \A r \in Reqs :
        /\ task[r].st # "none" => req[r] # Unsent /\ task[r].to \in Servers
        /\ task[r].st = "found" => task[r].conn # None /\ req[r].user \in authed[task[r].conn]

IndInv ==
    TypeOK /\ DeliveredToUser /\ BoundToUser /\ QueuedArrived /\ WorkerHolds /\ CallHolds

(* The read, add and write of logincount are three steps and redis is      *)
(* shared, yet the count is the number of logins since the server started: *)
(* only the server's own worker, one thread, writes its field.             *)
CountExact ==
    \A s \in Servers :
        srv[s] \in {"up", "stopping"} =>
            count[s] = logins[s] + (IF wpc[s] \in {"bind", "home", "map"} THEN 1 ELSE 0)

(* As long as no session of a server has ended, a user who has logged in   *)
(* there and whose home it is can be reached there.                        *)
Reachable ==
    \A s \in Servers : \A u \in Users :
        (/\ uip[u] = s /\ srv[s] = "up"
         /\ \A c \in Here(s) : cpc[c] = "open"
         /\ \E c \in Here(s) : uid[c] = u)
            => usess[s][u] # None \/ wpc[s] \in {"home", "map"}

(* A session that has ended stays bound to a user only in three cases: its *)
(* login was under way when it was cleared, it was cleared before it was   *)
(* inserted, or several users had logged in on it.                         *)
ForgottenUnlessLate ==
    \A c \in Conns : \A u \in Users :
        cpc[c] = "gone" /\ at[c] # None /\ usess[at[c]][u] = c
            => c \in late \/ authed[c] # {u}

(* What the three rest on.  While a server counts, its worker has read the *)
(* count that is there; a server that is not running has no worker.        *)
CountInv ==
    \A s \in Servers :
        /\ srv[s] \in {"up", "stopping"} /\ wpc[s] = "hset" => cnt[s] = count[s]
        /\ srv[s] \notin Running => wpc[s] = "idle"

(* A request is queued at the server of its connection; a connection whose *)
(* user is known has been accepted and has authenticated as that user; one *)
(* that a user is bound to, or about to be, has got its user before.       *)
SessionInv ==
    /\ \A s \in Servers : \A i \in 1..Len(que[s]) :
          at[req[que[s][i]].conn] = s /\ cpc[req[que[s][i]].conn] # "none"
    /\ \A c \in Conns : uid[c] # None => cpc[c] # "none" /\ uid[c] \in authed[c]
    /\ \A s \in Servers : \A u \in Users : usess[s][u] # None => uid[usess[s][u]] # None
    /\ \A s \in Servers : wpc[s] \in {"home", "map"} => uid[Current(s).conn] # None

(* Until a session of the server ends, the user of each one is bound, or   *)
(* the worker is about to bind it.                                         *)
BoundOrBinding ==
    \A s \in Servers : \A u \in Users :
        (\A c \in Here(s) : cpc[c] = "open") /\ (\E c \in Here(s) : uid[c] = u)
            => usess[s][u] # None \/ (wpc[s] \in {"home", "map"} /\ Current(s).user = u)

(* A session that its only user is bound to, and that was not late, is     *)
(* open or on its way to rm_user_session for that user.                    *)
BoundUntilRemoved ==
    \A c \in Conns : \A u \in Users :
        at[c] # None /\ usess[at[c]][u] = c /\ c \notin late /\ authed[c] = {u}
            => cpc[c] \in {"open", "clear"} \/ (cpc[c] = "rm" /\ rmuid[c] = u)

(* No request stays in a queue for ever: it is answered, or its own server *)
(* ends.  Whatever becomes of the other servers, workers that call each    *)
(* other by gRPC do not wait in a circle.                                  *)
Queued(r) == \E s \in Servers : \E i \in 1..Len(que[s]) : que[s][i] = r

RequestAnswered == \A r \in Reqs : Queued(r) ~> ~Queued(r)
==============================================================================
