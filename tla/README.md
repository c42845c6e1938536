# Models and proofs for learncc

TLA+ modules for the concurrent and distributed parts of this repository: the
reactor network library `mmuduo`; the chat system built of a gate server, a
verify server, a status server and chat servers that share redis and MySQL; thread
pools, loggers and interruptible threads; the memory pools; and the thread-safe
containers. TLC checks every
module on small instances; TLAPS proves the most important invariants for any
number of threads, connections, users and servers.

    tlc -workers 2 -config Reactor.cfg MCReactor        one run
    tlapm ReactorProofs.tla                             one set of proofs

`PROJECT.json` says which lines of the source each definition stands for, and
names for each property a change of the code (the definitions marked "Mutant")
under which TLC finds it violated.

## 1. The system

    client --HTTP--> gate server --gRPC--> verify server --> redis, mail
                          |  \----gRPC--> status server --> redis
                          +--> MySQL, redis
    client --TCP---> chat server <--gRPC--> chat server
                          +--> MySQL, redis

| Part | State | Operations | What makes it correct |
|---|---|---|---|
| `mmuduo` event_loop | pending functors, quit flag, eventfd | loop, run_in_loop, queue_in_loop, quit, wakeup | a functor runs once, in order, and promptly; quit ends the loop |
| `mmuduo` tcp_connection, channel, epoll_poller | connection state, output buffer, event mask, index, epoll set | send, shutdown, force_close, handlers, connect_established / destroyed | bytes in order; poller and channel agree; the end is reported once and reached |
| `mmuduo` connector, tcp_client | connect flags, state, channel, connection | connect, disconnect, stop, new_connection, remove_connection, restart | no channel destroyed while the poller has it; a client connects again until told not to |
| `mmuduo` tcp_server, acceptor, loop threads | loops_, next_, connections_ | start, new_connection, remove_connection, destructor | start returns; connections are dealt out evenly and destroyed once |
| `mmuduo` buffer | vector, read and write index | append, read_fd, retrieve | bytes are kept, in order |
| chat_server csession | send queue, read progress | send, reads, handle_write, close | one async_write at a time; frames whole; a session that ends is cleared |
| chat_server logic_system | message queue, stop flag | post_msg, deal_msg, destructor | no lost wakeup; callbacks once, in order; the queue is drained at the end |
| chat_server handlers, user_mgr, cserver, gRPC service | uid to session, sessions, login count and homes in redis | login, text, friend application and authentication, accept, clear_session, shutdown | a message reaches only its user; who has logged in is reachable |
| chat_server mysql_dao | tables friend, friend_apply, user; autocommit of connections | add_friend_apply, auth_friend_apply, add_friend, lists | friendship is mutual; what is reported as stored is stored |
| connection pools | idle connections, stop flag | get_conn, return_conn, close, check_connection | none lost or shared; nobody waits while one is idle |
| gate server | HTTP connections, table user, pool | get_verifycode, user_register, reset_pwd, user_login, deadline | accounts belong to who reads the mail; requests end |
| verify server | codes in redis with a life | get_verify_code | the code stored is one that was mailed; codes expire |
| status server | token of each user, login counts | GetChatServer, Login | the least loaded running server; a token that works |
| threadpool, concurrent pools | task queues, threads, counters, results | submit, take, steal, results, destructor | every task once or refused; counters true; the destructor returns |
| interruptible threads | flag, pointer to a condition variable | interrupt, three kinds of wait | an interrupt ends the wait; nothing that is gone is notified |
| async_log | queue of lines, stop flag | async_write, process, stop | lines printed in order; nobody sleeps beside a line |
| thread-safe containers | lock-based and lock-free queues, stacks, list, table | push, pop | linearizable; nodes deleted by the last thread that can reach them |
| memory_pool | a free list per thread and size, spans per size, page lists and page map | tc_malloc, tc_free over three caches | blocks in use do not overlap; counts exact; nothing leaks; no deadlock |
| ngx_mempool | blocks, large blocks, cleanup list | allocate, reset, destroy | blocks never overlap; cleanups run once |
| allocator (`public/myallocator.h`) | a free list per size, the rest of a chunk | allocate, deallocate | blocks never overlap; nothing lost when malloc fails |
| arpc | calls under way by id, sockets | CallMethod, on_message, the receiving thread | an answer finds its call; done runs once; calls end |

The hard behaviours: the loop's lock-free tests of its queue and flags; closing
a connection across two loops while other threads use it; sends from the logic
and gRPC threads against completions on the io thread; a worker that calls other
servers while it holds its queue's lock; redis and user_mgr read in one step and
used in a later one, while sessions end and servers stop, crash and come back;
awaits of one Node.js process that interleave; pooled connections that carry
state from one user to the next; a refused connect that is retried by way of a
connection that never was; workers that leave by timeout while tasks arrive and
the pool ends; reference counts of nodes split over two words; a page cache that
reads a span's use count under another lock than its writers. `PROJECT.json` lists each with its line under
"hazards".

## 2. Modules

* **FifoContract**: abstract specification of a queue that serves every item once
  and in order. EventLoop, LogicSystem, ChatSession (its output) and LockFreeQueue
  are shown to implement it by refinement mappings. **StackContract** is the same
  for a stack, which RefCountStack and ReclaimStack implement, and **DequeContract**
  for a queue from whose other end values are stolen, which SplitQueue implements.
* **EventLoop** / **ReactorProofs** (`mmuduo/event_loop.cc`). The loop thread
  goes from poll to handle, check, swap and run; other threads push and then wake
  in two steps, or quit. The unguarded read of `pending_functors_.size()` sees
  the vector before or after a push. The eventfd's counter is abstracted to
  "not zero".
* **TcpClient** / **ReactorProofs** (`connector.cc`, `tcp_client.cc`). A client on its loop. Each
  handler and functor is one step of the loop; the restart in remove_connection
  is two more, as other threads may clear the flags at each. Calls of other
  threads set the client's flag, the connector's flag and queue, a step each; only
  a foreign disconnect()'s test and store of state_ are one step here, and two in
  TcpConnection. A
  socket is accepted, refused or closed by the network; a connect may also fail at
  once. `overlap` notes a start while an earlier connect, its channel or its
  connection is still there, `wrong` the use or loss of a channel in the poller.
* **Buffer** / **ReactorProofs** (`buffer.h`, `buffer.cc`). The vector, its indices
  and what make_space does when there is too little room. Bytes are numbered as
  they come, so that one in the wrong place is seen.
* **MCReactor** joins the loop, the client and the buffer for TLC: a behaviour is
  about one of them, with the fairness of that one. ReactorProofs extends it and
  proves about each of the three.
* **TcpConnection** / **TcpConnectionProofs** (`tcp_connection.cc`, `channel.h/.cc`, `epoll_poller.cc`,
  `tcp_server.cc`, connect and removal). One connection with its channel, poller, the two loops, a
  peer that sends, reads, resets or leaves, and threads that call send, shutdown
  and force_close. A handler or functor of the io loop is one step, since the
  loop runs one at a time; calls of other threads are split where they test,
  set and queue. Messages are two units long so that writes can be short.
* **ChatSession** / **ChatSessionProofs** / MCChatSession (`csession.cc`). Sending
  and reading of one session; boost::asio operations complete in later steps,
  with success or an error.
* **LogicSystem** / **ChatWorkerProofs** (`chat_server/logic_system.cc` 10-72).
  Queue, worker, draining and destructor, with spurious wakeups and with
  notifications after the unlock. MCChatSession runs it beside ChatSession: a
  behaviour is about the session or about the queue.
* **ChatCluster** / **ChatClusterProofs** / MCChatCluster (handlers, `user_mgr.cc`,
  `cserver.cc`, `chat_server.cc`, the gRPC service and client). Several servers
  with one redis. Each access to redis, to user_mgr and to a session is a step.
  Servers stop by signal, crash, and restart with empty memory while redis keeps
  what it has. Homes of users left in redis by earlier runs are initial states.
  `user_id_` of a session is uninitialised in the code: until the login it is any
  user. Text, application and authentication messages are routed alike and are
  one kind of request. A delivery is refused when the session's send queue is full.
* **ConnPool** and **MysqlDao** / **ChatWorkerProofs** (`mysql_dao.h/.cc`, `redis_mgr.h`,
  `chat_grpc_client.h`). The pool as threads see it (test under the mutex, wait,
  notify, close without the mutex), and on it the methods of mysql_dao that the
  worker's handlers call. MySQL is external: a statement takes effect at once
  with autocommit and is pending until commit without; rows with pending writes are
  locked; a connection that is lost, or returned after the close, rolls back what it
  had pending. The other chat servers are one transaction (`far`) that writes any
  row nobody has locked and commits friend rows in pairs, as add_friend does. When
  MySQL refuses the replacement of a lost connection, the exception leaves the check
  thread and the process ends (`crashed`). An application is `told` when its handler
  has answered, which it does with SUCCESS whatever add_friend_apply returned.
* **Account** / **AccountProofs** (`gateserver/logic_system.cc`, `http_conn.cc`, `mysql_dao.cc`,
  `verify_server/server.js`, `redis.js`). Each connection's handler is a sequence
  of calls to redis, MySQL, the mailer and the status server, one step each; all
  connections interleave. Codes have a life that redis counts down.
* **StatusService** / **StatusServiceProofs** / MCStatusService (`status_service_impl.cc`). The scan of the
  login counts, a step per HGET, while chat servers start, stop and count. An HGET
  may fail and then reads like an absent field; the SET of the token may fail, which
  insert_token does not look at; the reply may be lost on its way to the gate server
  or to the user. `got` is the token that a user got last.

* **ThreadPool** (`threadpool.cc`). Clients that submit and get, workers in fixed
  or cached mode, the destructor. What is done under the mutex up to a wait is one
  step; the clock is a choice, so that a one second wait may time out and a worker
  may then have been idle for long enough or not. Spurious wakeups are steps.
* **CommitPool** (`concurrent/thread_pool.h`), **AsyncLog** (`public/asynclog.h`),
  **StealPool** (`steal_threadpool.h`). commit tests, pushes and notifies in three
  steps; async_write pushes and notifies in two; the pool that steals has a queue
  per worker whose operations are atomic, which SplitQueue justifies.
* **ServerLoops** (`tcp_server.cc`, `acceptor.cc`, `eventloop_thread.cc`,
  `eventloop_threadpool.cc`). The base thread starts the loop threads one by one,
  waits for each one's loop, accepts, deals out and destroys; every loop has a
  queue of functors. What a connection does in its life is TcpConnection; here it
  is up, closed or ended. `wrong`: the destroyed server was used.
* **Interrupt** (`interupthread.h/.cc`). One thread in its three waits, with the
  caller's mutex and set_clear_mutex, against users that interrupt or notify.
* **Rpc** (`arpc_channel.cc`, `arpc_server.cc`). Threads that call through one
  channel, each with a socket and a receiving thread, and a server that answers at
  once. A response may be null or not parse, and then no done runs. A frame read in
  part, or a controller used after CallMethod has returned,
  ends the model (`undefined`).
* **MCPools** joins these seven for TLC. A behaviour is about one of them, with its
  fairness. Each has a predicate Settled, "nothing is owed", and PoolsFinish says
  that they are settled for ever in the end; since the work is finite, that is
  what each piece of work is owed. **PoolsProofs** has the proofs for all but the
  pool that steals.
* **MemoryPool** (`alloc.h`, `thread_cache`, `central_cache`, `page_cache`,
  `comm.h`). Blocks are addresses, a span is named by its first page. A step ends
  where a lock is released or where something is read or written that another lock
  guards: use counts are changed by the central cache while the page cache reads
  them, so the call of a thread goes through "cut", "count", "take", "return",
  "prev", "next". mmap may fail at each request, and bad_alloc unwinds.
  **SizeClass** has the size classes of `comm.h` with their real constants; its
  theorems are in PoolsProofs.
* **LockFreeQueue** (`ts_queue.h`), **RefCountStack**, **ReclaimStack**
  (`ts_stack.h`). Every atomic operation is a step and memory is sequentially
  consistent; a compare-exchange repeated with the value it found is one step.
  Nodes are addresses and are reused at once, so that ABA can happen.
* **SplitQueue** (`concurrent/threadsafe_queue.h`, and threadsafe_queue_l of
  `ts_queue.h`, which is alike). A mutex for the head and one for the tail; pop
  waits, try_steal takes from the tail with both. What one mutex guards up to a
  wait is a step.
* **HandList** (`ts_list.h`). A mutex in each node; the calls that look for a value
  or remove it take one node after the other. Nodes are reused at once.
* **NgxPool** (`ngx_mempool.h/.cc`). Blocks with offsets, the list of large blocks
  and the cleanup handlers, whose nodes lie in the blocks.
* **ChunkAlloc** (`public/myallocator.h`). Free lists and the rest of a chunk, with
  malloc failing at any call. Pieces have their true length, which the code does
  not keep; sizeof(T) is 1 or 2.
* **MCMemory** joins the two memory pools, the allocator and the five containers for
  TLC: they do not interact, and a behaviour is about one.

ChatCluster composes what LogicSystem and ChatSession model in detail: its queue
and its delivery are theirs seen from outside. MysqlDao extends ConnPool. What
StatusService calls starting, stopping and counting are ChatCluster's steps on
redis.

## 3. What the runs check

Bounds are in the .cfg files and are named in the modules; every passing run
explores its whole state space.

| Run | States | Bounds | Properties |
|---|---|---|---|
| reactor | 3*10^5 | 3 functors, 2 threads; a client with 3 sockets, 2 refusals, 3 calls of another thread; a buffer of 3 bytes behind 2, 9 bytes in all | NoLostWakeup, ImplementsContract, Responds; ChannelsSound, Reconnects; BytesKept |
| tcpconnection | 10^5 | 2 messages, 1 thread with 2 calls of send, shutdown, force_close, 1 arrival | StreamInOrder, PollerConsistent, ClosedOnce, CloseDestroys |
| tcpconnection_drain | | 1 message | OutputDrains, violated |
| chatsession | 2*10^4 | session: 3 nodes, queue limit 1, 3 frames, one bad; queue: 3 messages, 2 io threads | WriteInv, WholeFrames, ImplementsOutput, SessionEnds; IndInv (with NoLostWakeup), ImplementsContract, StopFinishes |
| chatcluster | 9*10^5 | 2 servers, 1 user, 2 connections, 2 requests, 1 end | DeliveredToUser, CountExact, Reachable, ForgottenUnlessLate |
| chatcluster_live | 10^5 | 2 servers, 2 users at home at the other one | RequestAnswered |
| mysqldao | 6*10^5 | 2 connections, worker and 1 gRPC thread, 2 users, 2 requests, 1 lost connection, 1 write of another server | PoolSound (with EachOnce, NoIdleWhileWaiting), Mutual, HandlersEnd |
| mysqldao_stored | | 3 requests, no failures, no other server | ToldStored, violated |
| account | 5*10^5 | 2 connections, 2 addresses, 4 requests, 1 failure, codes live 1 tick | CodesSound (StoredIsMailed, CodesExpire), AccountsByMail, RequestsEnd |
| status | 10^6 | 2 servers, 2 threads, 2 users, 2 calls | LeastLoaded, LastTokenWorks |
| memory | 7*10^5 | pool: 2 threads, 6 pages of 4 addresses, one small size, spans of 2 and 4 pages; containers: 3 threads, 2 values, 6 addresses, 3 pops; NgxPool: blocks of 10 or 11, 5 calls; ChunkAlloc: 3 lists, 2 chunks, 2 blocks in use | BlocksApart, Accounted, UnusedIsListed, CallsGoOn; Linearizable, Reclaimed |
| pools | 4*10^5 | threadpool: 2 clients, 3 tasks, queue of 1, 1 to 2 workers of 3 ids; the other pools: 3 tasks or lines, 2 workers, 1 endless task where they steal; server: 0 to 2 loop threads, 4 connections; 2 users of an interruptible thread; 2 remote calls | BooksAgree (Counted, ServerSound, AnswersMatch), NobodyOversleeps, PoolsFinish |

Why these bounds are enough to be interesting: three functors or messages are
needed for one to be running, one swapped out and one queued; a queue limit of 1
lets the limit be reached with a write under way; four requests are the shortest
history in which one user registers and another one's code is used for a reset;
two connections are the least with which get_friend_list, which keeps one while
get_user takes another, can end (with one, TLC shows HandlersEnd false; the code
makes five); three sockets are a connection, a refused retry and the next one, and
three calls are connect, stop, connect; a page of 4 addresses and blocks of 5 give
a span whose last block overruns, NPAGES 4 lets spans be split, merged and
handed out whole; three pops by three threads on two values let a node be deleted
and its address reused while a thread still looks at it; a queue of one task with
two clients fills up while a worker leaves; four connections on two loops are two
rounds; nine bytes in a buffer of three make it compact and grow; five calls are
enough to leave a block behind, reset and cut again, with the limits on failures
and tries made small; two chat servers suffice for calls in a circle and for a stale home.
One user suffices for ChatCluster's safety run, as the invariants relate a
session to a user at a time; that they hold for any number is proved.

Only the memory run uses symmetry (of the threads of the pool and of the callers):
its properties are safety properties that treat them alike. Runs with liveness use
none.

Deadlock is not checked: every model has bounded inputs and may legally stop
when they are used up. That the system does not stop too early is what the
liveness properties say.

### What the code does otherwise

Two runs show a disagreement with the source's own words. `tcpconnection_drain`:
`channel::is_writing` compares the mask with the write event for equality, so it
is false while reading is enabled. handle_write then never writes the buffered
output, although `tcp_connection.cc:110` appends it and listens for the write
event to send it. `mysqldao_stored`: applications have to be in the database, so
that a friend who is offline finds them at the login (`logic_system.cc:144`). But
add_friend turns autocommit off and nothing turns it on, so a later application on
that connection stays in an open transaction although its sender was answered
SUCCESS, nothing has failed and no other server is there: the next login that uses
another connection does not find it, and it is lost with the connection. The trace is
an authentication followed by an application.

Conditions in the properties mark other things the code really does, and TLC
refutes the property without them:

* *ClosedOnce*: a shutdown or force_close of another thread that tested `state_`
  before handle_close and stores after it makes the connection DISCONNECTING
  again; it may then be closed and reported a second time (`raced`).
* *ChannelsSound*: a second connect() while the first is under way or connected,
  or one whose functor runs in the round of a stop's, destroys a channel that the
  poller has, or loses track of one (`overlap`).
* *Reconnects*: a connect that fails at once is never retried (`gaveUp`), and for
  five of the errors its socket is not closed. A refused connect is reported to
  the user as a connection that goes up and down at once; that is the only path
  on which it is retried. restart sets `connect_` after the client tested its own
  flag, so a stop() in between may be undone.
* *Reachable* assumes that no session of the server has ended: rm_user_session
  erases by user, so an old session's end unbinds the new one.
  *ForgottenUnlessLate* names the cases in which an ended session stays bound.
* *CountExact* holds until main deletes the count at shutdown
  (`chat_server.cc:57`); a login under way brings it back.
* *LastTokenWorks* names the three cases in which a user is left with a token that
  the chat servers refuse: its SET failed and nobody noticed; a later call stored
  another one and its reply was lost; two calls of the user overlapped and the
  replies came in the other order than the SETs. *LeastLoaded* leaves out a server
  whose HGET failed, as it is taken for one that is off.
* *HandlersEnd* counts the end of the process as an end: the check thread does not
  catch what a refused reconnect throws (`mysql_dao.h:79`).
* *CodesSound* is claimed without failures; *AccountsByMail*
  and *RequestsEnd* except after check_email has met an unknown name, when it
  returns true and keeps its connection.
* *Responds* for a loop that runs: loop() forgets an earlier quit.
* *UnusedIsListed* says which spans are exposed: between the moment a span leaves
  its page list and its first count, and on its way back, its use count is 0 and
  a merge by a neighbour (`page_cache.cc:90`) takes it for free. The model stops
  there (`broken`): the program is undefined from then on.
* *BlocksApart*: when the block size does not divide the span, the last block runs
  over into the next span (`central_cache.cc:25`), as with 144 bytes in 15 pages.
  A pool of ngx_mempool whose size is not aligned hands out memory past its end,
  as the rounding makes `end - m` negative and the cast makes that large (line 17).
* *Reclaimed*, of the allocator: deallocate takes the number of elements for a
  number of bytes (`myallocator.h:106`, against line 83), so that blocks of larger
  elements come back to the lists of smaller ones and are lost bit by bit.
* *Linearizable*: a push that took hold of the tail node, was overtaken by a push
  and a pop of that node, and then finds its data null again (`ts_queue.h:435`,
  488) stores its value in a node that has left the queue. These values (`late`)
  are lost.
* *CallsGoOn*: threadsafe_queue_s and threadsafe_queue_l notify without the mutex
  of the head, so that a waiter that has tested and not yet waits sleeps beside a
  value until the next push (`missed`; `threadsafe_queue.h:174`, `ts_queue.h:224`).
* *Reclaimed*: push_back of threadsafe_list reads last_node_ptr_ without a mutex
  (`ts_list.h:113`) and may then lock a node that a removal deletes (`raced`).
  ngx_reset_pool keeps the cleanup list, whose nodes are handed out again.
* *PoolsFinish*: the exit of a worker of the threadpool that timed out does not
  notify exitCond_; if it is the last one the destructor sleeps for ever (`late`).
  A commit that tested stop_ before the stop queues a task that nobody takes;
  async_log and the pool that steals drop what is queued when they stop. Functors
  left in a base loop that has returned are not run. A remote call of a service
  or method that is not registered gets no answer and waits for ever; the entry of
  a call that failed stays in calls_.
* *BooksAgree*, of a server with io threads: a connection that closes while or
  after its tcp_server is destroyed calls remove_connection of the server that is
  gone (`wrong`); nothing clears the callback (`tcp_server.cc:42`).

Not in a model, but seen: the status server's Login tests the result of its
look-up the wrong way round (`status_service_impl.cc:110`) and so refuses every
token that exists; nothing calls it. A request of 65025 to 65536 bytes rounds up
to MAXBYTES and fails the assertion of size_class (theorem AssertionHolds).
`comm.h` describes the alignment of its third group as 64 where the code has 128.
block_to_span reads an unordered map without the lock its writers hold, and
tc_free on a thread that never allocated has no cache. Task::exec does not run a
task whose Result is gone, as it is when submitTask's result is discarded in the
example at `threadpool.h:178`; generateId_ is static, so a second pool's ids do not
start at 0. threadsafe_stack_uk has no destructor. A client destroyed while it
connects leaves reset_channel bound to a connector that is gone. interrupt() uses
the thread_local flag of a thread that may have ended. The destructor of
threadsafe_list gives remove_if a predicate on nodes, so that each value is copied
into a new node to be asked about. An event_loop_thread's destructor leaves its loop running,
as no one calls quit. arpc_channel's id_ is not
initialised. myallocator's reallocate is static and calls a member; a request of 0
elements indexes before its lists.

### Fairness

* Weak fairness of a thread's own steps where the thread never has to compete:
  the event loop and its wakeups, the io loops, asio completions, the logic
  worker, notifications that were begun, the handlers of the gate server, the
  deadline timer, the pools' workers and calls on them that were begun, the
  destructors, the loop threads of a server, the client's loop and a call on it
  that was begun. A thread that can go on is scheduled, and the kernel completes
  operations that are ready. Tasks end, except endless ones in the pool that
  steals. The event loop's liveness does not rely on the ten second timeout of its
  poll, and the pools' not on any timeout or spurious wakeup, except that the
  interruptible wait on a plain condition variable lasts a millisecond.
* MCPools and MCReactor state fairness of a disjunction over their parts: as a
  behaviour is about one, that is fairness of its disjunct.
* The chat servers' RPC steps are weakly fair, and a call to a server that has
  ended fails; calls have no deadline in the code and none in the model.
* A connect that is under way is accepted or refused in the end, as TCP gives up; a
  remote call that was sent arrives, and so does its answer, unless the socket
  fails.
* Strong fairness in MysqlDao and Interrupt: a thread that waits for a mutex competes
  with others (and with spurious wakeups that lock and unlock), so it is only
  enabled again and again.
  The platform's mutexes do not let one thread overtake for ever in practice.
* Nothing is assumed of clients, peers, closes, stops and of the failures that a
  module has as steps; section 5 says which failures none has.

## 4. What is proved

For every value of the constants, with TLAPS (SMT, Zenon, LS4). An invariant that
a run checks seldom suffices for the next step; each entry names the inductive
invariant that was found for it and says what it adds.

**ReactorProofs**
* TypeCorrect, WakeupNeverLost (NoLostWakeup), QuitNeverLost,
  LoopImplementsContract. NoLostWakeup speaks only of the moment of the poll;
  IndInv adds why: a functor that is awaited is covered by the eventfd, by a wakeup
  under way, or by a do_pending_functors that is still to come in this round
  (CoverInv), the flag calling_pending_functors_ says where the loop is
  (CallingInv), and funcs_ is empty outside the for (FuncsInv).
* BufferKeepsBytes (BytesKept, inductive with the order of the indices). A lemma
  for the bytes that PutAt copies is used by append and by read_fd.
* ClientChannels (ChannelsSound), from ClientInv. What must be true besides: an
  open connection is the client's and its channel is the only one in the poller
  (PollerHas), only what is closed waits to be destroyed (DestroysClosed), and a
  reset_channel is queued exactly while channel_ has left the poller
  (ResetsRight). The difficult case is a refused connect, where handle_error and
  handle_write both queue a reset: the second is harmless only because both run in
  one round, next to each other, so that nothing can have put a new channel in
  place between them; ResetsRight says so with the number of functors the round
  still has, SecondReset describes the state between the two. There is a lemma per
  function, on the record (Acts: what the user's calls may do; Leads: what any
  function leaves behind), and one per kind of step.

**TcpConnectionProofs**: ConnectionsSound and from it BytesInOrder (StreamInOrder),
PollerAgrees (PollerConsistent), EndReportedOnce (ClosedOnce). ConnectionInv
joins, for the connection: the wire and the output buffer make up what was sent,
and once a write has failed for good the socket takes nothing more (StreamInv);
index_, event mask and epoll set agree (PollerInv); the callbacks that were made
fit state_, the poller, the removal queued on the main loop and the map (Beginning,
Ending, the latter unless a call of another thread raced with the close); and for
the threads and the loops where each stands. A lemma per function again, with Acts
and Keeps.

**ChatSessionProofs**: SingleWrite (WriteInv is inductive as it stands),
NeverTwoWrites, OutputInOrder, FramesWhole (WholeFrames). The refinement maps the
queue without what has been transferred to the contract's queue, and the wire to
its output. FramesWhole needs that the positions of what was posted, of what has
been read and of what is still to come follow each other (ReadInv, InOrder).

**ChatWorkerProofs**, about the worker thread of a chat server
* Inductive, WorkerNeverSleepsThrough, NeverEmptyFront, LogicImplementsContract.
  The invariant joins the types, "a worker that serves has a message at the head"
  and "a worker that waits with a message queued is about to be notified".
* DaoInductive and from it ConnectionsOnce (PoolSound) and FriendsMutual (Mutual),
  with any other server's transactions. DaoInv adds to the two properties where the worker
  is with respect to the pool and that it has the connection its method uses, two
  of them while get_friend_list calls get_user (WorkInv), and which rows are pending
  on a connection: those of the add_friend that uses it, none on another one, on a
  broken one or with autocommit (RowInv, Expected). PoolSound counts the idle,
  lent and lost connections together, so the proof is about which of them a step
  moves; what a sequence of writes does to the tables is described by its rows
  (Rows), without a fold.

**PoolsProofs**: PoolsInductive and from it SleepersWoken (NobodyOversleeps) and
BooksKept (BooksAgree). OneAtATime shows that a step is of one part, then each
part has its invariant:
* `threadpool.cc`, PoolInv: Counted and NobodySleeps with "while a task is queued
  nobody has left for the stop, so curThreadSize_ is the number of threads and at
  least the initial one", which is why the last worker never leaves a task behind;
* `thread_pool.h`, CommitInv: AwakeEnough is inductive with the types. A step pays
  for the task it adds or the worker it takes away with a notification to come or a
  worker awake; the two counts are compared in CountClients and CountAwake;
* `asynclog.h`, LogInv, and `interupthread.h`, WaitInv: the place of the thread
  determines what the flag points to;
* `tcp_server.cc`, ServerInv: the loops are numbered in turn and next_ stays among
  them (StartInv); the loops before next_ have one connection more than the others
  (DealtInv), from which "evenly" follows; the functors that are queued say how far
  a connection has come, none is queued twice, each is on the loop it belongs to and
  connect_destroyed after connect_established (QueueInv); and an open channel is
  held or about to be ended (ConnInv). The case that makes it difficult is the
  destructor: a connection that it has let go may still have a remove queued on the
  base loop, which is never run unless something goes wrong (Ending);
* `arpc_channel.cc`, RpcInv: an id is handed out once (IdsApart) and the entry of a
  call is its own from the time it is made until the answer takes it out (EachCall).

**ChatClusterProofs**
* OnlyToTheUser (DeliveredToUser), from IndInv: each place from which a delivery
  takes its session (user_mgr, the worker's and the gRPC threads' look-ups) holds
  only sessions authenticated as that user, and a request does not change under
  the thread that serves it.
* CountsLogins (CountExact), from CountInv: between its read of the count in redis
  and its write, what the worker has read is what is still there, as a server that
  does not run has no worker and nobody else writes its count.
* SessionsConsistent, UsersReachable (Reachable), SessionsForgotten
  (ForgottenUnlessLate), from SessionInv (a session has its user before user_mgr
  has the session, and only after it authenticated as that user): until a session
  of a server ends, the user of each is bound in user_mgr or the worker is about to
  do it (BoundOrBinding), and a session that user_mgr holds and that was not late
  is open or on its way to rm_user_session for that user (BoundUntilRemoved).

**StatusServiceProofs**: HandsOutLeastLoaded (LeastLoaded), from IndInv: the thread
that scans has the mutex (Guarded), and least is at most the present count of every
server that it has read and that has neither started nor stopped since (ScanInv).
CountStep is the reason: such a count only grows. TokensWork (LastTokenWorks), from
TokenInv: calls have numbers of their own and each has returned or is under way
(CallsApart), a token in redis or with a user was made by a call for that user
(TokensMade), a token that redis has replaced was replaced by a call that had not
returned when its own had begun (OverwrittenLater), and the token a user has is the
one in redis, is about to be explained by a call under way, or falls into one of the
three cases (Explained).

**AccountProofs**: CodesUsable (CodesSound), AccountsOwned (AccountsByMail).
CodesInv ties what each connection holds to its phase (LocalsOf), counts the codes
made and still to be made against the requests (CodesCounted), and says that a
stored code is in the mailbox or about to be sent there (StoredOrMailing);
AccountsInv adds that a code is of one address wherever it is (CodesOwned), that
what a request brings as a code was mailed to somebody, and that what has passed
the test of the code was mailed to that address (TypedByReader).

**PoolsProofs**, of SizeClass for every request up to 64 KiB: RoundUpFits, IndexOfRounded (the
list allocate takes from is the one deallocate returns to), OneSizePerList,
AssertionHolds. Shape describes request, rounded size and list together, one
disjunct per group; Groups shows that the code's arithmetic has it, and the rest
is linear arithmetic on it.

Assumptions on constants: sentinels differ from the values they stand beside,
bounds are natural numbers, sets of threads, clients and connections are finite,
Known is a subset of LogicNodes, and threadpool.cc is started with one thread at least and
at most as many as it may have. TLC evaluates them in the runs.

Only model-checked:
* all liveness: fairness and ENABLED are beyond the prover;
* the properties of MCMemory. CallsGoOn has ENABLED. Linearizable is a refinement
  whose mapping follows pointers through a list, and Reclaimed speaks of what can be
  reached through such pointers: induction over data. BlocksApart, Accounted and
  UnusedIsListed of the memory pool need an invariant of all its spans, pages and
  blocks at once and are not proved; what is proved of it is SizeClass.

## 5. Not modelled

* generated protobuf and gRPC code; configuration parsing, examples, exercises;
* memory orders: the lock-free containers ask for relaxed, acquire and release in
  places; the models take every atomic operation as sequentially consistent, so
  what weaker hardware could add is not covered;
* lifetimes of C++ objects, except the server's in ServerLoops: callers keep the pointers they use (tcp_connection
  binds raw `this` and `c_str()`), and data races inside asio sockets;
* byte order and negative lengths of csession's heads, url decoding, JSON;
* mysql_dao of the status server and redis list commands: nothing calls them;
* the second stop() in the destructor of the io_context pools;
* failures that no module has: munmap refusing to release pages, where sys_free
  throws after the page map's entry is gone (`comm.h:30`), and exceptions for want of
  memory outside the memory pools.

## 6. Plan

Left, in this order:

1. the destructor of tcp_client, and io loops that quit (`tcp_client.cc`,
   `eventloop_thread.cc`), with the lifetimes the first needs;
2. the second pool of `thrdp.h`, the hash table and the containers with a single
   mutex, the ring queues of `atomic_.cc`: variants of what is there.

Theorems to add: Accounted and UnusedIsListed of MemoryPool; PiecesApart of NgxPool;
ListSound of HandList as far as it does not follow the whole list.
