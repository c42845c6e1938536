---------------------------- MODULE TcpConnection ----------------------------
(***************************************************************************)
(* One tcp_connection of a tcp_server, with its channel, the epoll_poller  *)
(* of its io loop, the main loop that owns the table connections_, the     *)
(* peer, and the threads that use the connection from outside.             *)
(*                                                                         *)
(* The io loop runs one handler or functor at a time, so each is one step; *)
(* between two of them the other threads and the main loop interleave.     *)
(* State handed from one function of the code to the next is the record    *)
(* conn; an operator below maps it to the record, or to the set of records *)
(* (a write may be short, a user callback may do several things), that the *)
(* function leaves behind.                                                 *)
(*                                                                         *)
(* A message is two units long, enough for a short write in its middle.    *)
(* Callers are assumed to keep their tcp_connection_ptr and their string   *)
(* until the functor they queued has run: the code binds raw pointers.     *)
(***************************************************************************)
EXTENDS Naturals, Sequences, SequencesExt, FiniteSets

CONSTANTS Msgs,        \* the messages that are ever sent
          NoMsg,       \* stands for "no message"
          Threads,     \* threads other than the loops that hold the connection
          RemoteOps,   \* what they call: "send", "shutdown", "force_close"
          MaxCalls,    \* how often each of them calls
          MaxInbound,  \* how often the peer sends data
          HighWater    \* high_watermark_, in units

ASSUME NoMsgAssumption == NoMsg \notin Msgs
ASSUME RemoteOpsAssumption == RemoteOps \subseteq {"send", "shutdown", "force_close"}
ASSUME BoundsAssumption == MaxCalls \in Nat /\ MaxInbound \in Nat /\ HighWater \in Nat

VARIABLES conn,        \* the connection and what its handlers touch, see Conn
          io,          \* the io loop: "poll", "pending" (before the swap), "run"
          batch,       \* functors of the current swap still to run
          tpc,         \* the call each thread is in, and how far it is
          calls,       \* calls each thread may still make
          arrivals     \* data the peer may still send

vars == <<conn, io, batch, tpc, calls, arrivals>>

States == {"CONNECTING", "CONNECTED", "DISCONNECTING", "DISCONNECTED"}

Units(m) == <<<<m, 1>>, <<m, 2>>>>

Functor(op) == [op |-> op, m |-> NoMsg]

FunctorOps == {"established", "destroyed", "send", "shutdown", "force_close",
               "write_comp", "high_watermark"}

Conn == [state   : States,
         events  : SUBSET {"r", "w"},          \* events_ of the channel
         idx     : {"NEW", "ADDED", "DELETED"},
         mapped  : BOOLEAN,                    \* channels_[fd] of the poller
         inEpoll : BOOLEAN,                    \* fd is in the epoll set ...
         mask    : SUBSET {"r", "w"},          \* ... with these events
         fatal   : BOOLEAN,                    \* epoll_ctl failed: LOG_FATAL
         obuf    : Seq(Msgs \X {1, 2}),        \* obuf_
         sent    : Seq(Msgs \X {1, 2}),        \* units send_inloop accepted
         wire    : Seq(Msgs \X {1, 2}),        \* units the socket took
         faulted : BOOLEAN,                    \* send_inloop met EPIPE/ECONNRESET
         raced   : BOOLEAN,                    \* a foreign store hit a closed state_
         wrShut  : BOOLEAN,                    \* shutdown(SHUT_WR) was done
         ups     : Nat,                        \* conn_cb_ calls, connected
         downs   : Nat,                        \* conn_cb_ calls, disconnected
         peer    : {"open", "fin", "reset"},
         inbound : BOOLEAN,                    \* unread data in the socket
         unsent  : SUBSET Msgs,                \* messages nobody sent yet
         ioq     : Seq([op : FunctorOps, m : Msgs \union {NoMsg}]),
         mainq   : Nat,                        \* queued remove_connection_inloop
         inMap   : BOOLEAN,                    \* in connections_ of the server
         gone    : BOOLEAN]                    \* connect_destroyed has run

Queue(c, f) == [c EXCEPT !.ioq = Append(@, f)]

------------------------------------------------------------------------------
(* epoll_poller and channel                                                *)

(* update of the poller: epoll_ctl.  Only a failing DEL is survived.       *)
EpollCtl(c, op) ==
    CASE op = "ADD" -> [c EXCEPT !.fatal = @ \/ c.inEpoll, !.inEpoll = TRUE,
                                 !.mask = c.events]
      [] op = "MOD" -> [c EXCEPT !.fatal = @ \/ ~c.inEpoll, !.mask = c.events]
      [] op = "DEL" -> [c EXCEPT !.inEpoll = FALSE, !.mask = {}]

(* Mutant: a channel that stops listening is left in the ADDED state.      *)
UpdateChannelKeepsIndex(c) ==
    IF c.idx # "ADDED"
    THEN EpollCtl([c EXCEPT !.mapped = @ \/ c.idx = "NEW", !.idx = "ADDED"], "ADD")
    ELSE EpollCtl(c, IF c.events = {} THEN "DEL" ELSE "MOD")

UpdateChannel(c) ==
    IF c.idx # "ADDED"
    THEN EpollCtl([c EXCEPT !.mapped = @ \/ c.idx = "NEW", !.idx = "ADDED"], "ADD")
    ELSE IF c.events = {}
         THEN EpollCtl([c EXCEPT !.idx = "DELETED"], "DEL")
         ELSE EpollCtl(c, "MOD")

RemoveChannel(c) ==
    LET d == IF c.idx = "ADDED" THEN EpollCtl(c, "DEL") ELSE c
    IN  [d EXCEPT !.mapped = FALSE, !.idx = "NEW"]

EnableEvent(c, e) == UpdateChannel([c EXCEPT !.events = @ \union {e}])

DisableWriting(c) == UpdateChannel([c EXCEPT !.events = @ \ {"w"}])

DisableAll(c) == UpdateChannel([c EXCEPT !.events = {}])

(* is_writing compares events_ with kwrite_event for equality.             *)
IsWriting(c) == c.events = {"w"}

------------------------------------------------------------------------------
(* tcp_connection, on the io loop's thread                                 *)

Broken(c) == c.wrShut \/ c.peer = "reset"

(* send_inloop after write took the first n units of data: the callback    *)
(* when nothing remains, or the rest goes to obuf_ and EPOLLOUT is wanted. *)
AfterWrite(c, data, n) ==
    LET w == [c EXCEPT !.wire = @ \o SubSeq(data, 1, n)]
        rest == SubSeq(data, n + 1, Len(data))
        high == /\ Len(c.obuf) + Len(rest) >= HighWater
                /\ Len(c.obuf) < HighWater
        h == IF high THEN Queue(w, Functor("high_watermark")) ELSE w
        b == [h EXCEPT !.obuf = @ \o rest]
    IN  IF rest = <<>> THEN Queue(w, Functor("write_comp"))
        ELSE IF IsWriting(b) THEN b ELSE EnableEvent(b, "w")

(* Mutant: the output buffer is not looked at before the direct write.     *)
SendInloopJumps(c, m) ==
    LET s == [c EXCEPT !.sent = @ \o Units(m)]
        direct == ~IsWriting(c)
    IN  CASE c.state = "DISCONNECTED" -> {c}
          [] c.state # "DISCONNECTED" /\ direct /\ Broken(c) ->
                 {[s EXCEPT !.faulted = TRUE]}
          [] OTHER -> {AfterWrite(s, Units(m), n) : n \in IF direct THEN 0..2 ELSE {0}}

(* send_inloop: dropped when disconnected; written at once when nothing is *)
(* buffered, where a write may be short, or fail for good.                 *)
SendInloop(c, m) ==
    LET s == [c EXCEPT !.sent = @ \o Units(m)]
        direct == ~IsWriting(c) /\ c.obuf = <<>>
    IN  CASE c.state = "DISCONNECTED" -> {c}
          [] c.state # "DISCONNECTED" /\ direct /\ Broken(c) ->
                 {[s EXCEPT !.faulted = TRUE]}
          [] OTHER -> {AfterWrite(s, Units(m), n) : n \in IF direct THEN 0..2 ELSE {0}}

ShutdownInloop(c) == IF IsWriting(c) THEN c ELSE [c EXCEPT !.wrShut = TRUE]

(* send, shutdown and force_close as a callback on the io loop calls them. *)
Send(c, m) ==
    IF c.state = "CONNECTED" THEN SendInloop([c EXCEPT !.unsent = @ \ {m}], m) ELSE {c}

Shutdown(c) ==
    IF c.state = "CONNECTED"
    THEN ShutdownInloop([c EXCEPT !.state = "DISCONNECTING"])
    ELSE c

ForceClose(c) ==
    IF c.state \in {"CONNECTED", "DISCONNECTING"}
    THEN Queue([c EXCEPT !.state = "DISCONNECTING"], Functor("force_close"))
    ELSE c

(* A callback of the user: nothing, or one call on the connection.         *)
UserCb(c) ==
    {c, Shutdown(c), ForceClose(c)} \union UNION {Send(c, m) : m \in c.unsent}

(* Mutant: the server is not told.                                         *)
HandleCloseSilently(c) ==
    UserCb([DisableAll([c EXCEPT !.state = "DISCONNECTED"]) EXCEPT !.downs = @ + 1])

(* handle_close: conn_cb_, then close_cb_, which is remove_connection and  *)
(* queues remove_connection_inloop for the main loop.                      *)
HandleClose(c) ==
    LET d == DisableAll([c EXCEPT !.state = "DISCONNECTED"])
    IN  {[e EXCEPT !.mainq = @ + 1] : e \in UserCb([d EXCEPT !.downs = @ + 1])}

(* Mutant: force_close_inloop does not look at the state again.            *)
ForceCloseInloopBlindly(c) == HandleClose(c)

ForceCloseInloop(c) ==
    IF c.state \in {"CONNECTED", "DISCONNECTING"} THEN HandleClose(c) ELSE {c}

(* handle_read: data goes to the message callback, 0 closes.  A failed     *)
(* read is only logged.                                                    *)
HandleRead(c) ==
    CASE c.inbound -> UserCb([c EXCEPT !.inbound = FALSE])
      [] ~c.inbound /\ c.peer # "open" -> HandleClose(c)
      [] OTHER -> {c}

(* handle_write after the socket took n units of obuf_.                    *)
Flushed(c, n) ==
    LET r == [c EXCEPT !.wire = @ \o SubSeq(c.obuf, 1, n),
                       !.obuf = SubSeq(@, n + 1, Len(@))]
        e == Queue(DisableWriting(r), Functor("write_comp"))
    IN  IF r.obuf # <<>> THEN r
        ELSE IF r.state = "DISCONNECTING" THEN ShutdownInloop(e) ELSE e

HandleWrite(c) ==
    IF IsWriting(c) /\ ~Broken(c) /\ c.obuf # <<>>
    THEN {Flushed(c, n) : n \in 1..Len(c.obuf)}
    ELSE {c}

(* What epoll_wait reports: the channel's events that are ready, and       *)
(* EPOLLHUP whether asked for or not.                                      *)
Revents(c, writable) ==
    {e \in {"IN", "OUT", "HUP"} :
        \/ e = "IN"  /\ "r" \in c.mask /\ (c.inbound \/ c.peer # "open")
        \/ e = "OUT" /\ "w" \in c.mask /\ writable
        \/ e = "HUP" /\ (c.peer = "reset" \/ (c.peer = "fin" /\ c.wrShut))}

(* handle_event_with_guard: close, read, write in this order.              *)
HandleEvent(c, revents) ==
    LET closed == IF "HUP" \in revents /\ "IN" \notin revents THEN HandleClose(c) ELSE {c}
        read == UNION {IF "IN" \in revents THEN HandleRead(d) ELSE {d} : d \in closed}
    IN  UNION {IF "OUT" \in revents THEN HandleWrite(d) ELSE {d} : d \in read}

(* connect_established: CONNECTED, listening, and the user is told.        *)
ConnectEstablished(c) ==
    UserCb([EnableEvent([c EXCEPT !.state = "CONNECTED"], "r") EXCEPT !.ups = @ + 1])

(* connect_destroyed.                                                      *)
ConnectDestroyed(c) ==
    LET d == IF c.state = "CONNECTED"
             THEN [DisableAll([c EXCEPT !.state = "DISCONNECTED"]) EXCEPT !.downs = @ + 1]
             ELSE c
    IN  {[RemoveChannel(e) EXCEPT !.gone = TRUE] :
            e \in IF c.state = "CONNECTED" THEN UserCb(d) ELSE {d}}

RunFunctor(c, f) ==
    CASE f.op = "established" -> ConnectEstablished(c)
      [] f.op = "destroyed"   -> ConnectDestroyed(c)
      [] f.op = "send"        -> SendInloop(c, f.m)
      [] f.op = "shutdown"    -> {ShutdownInloop(c)}
      [] f.op = "force_close" -> ForceCloseInloop(c)
      [] OTHER                -> UserCb(c)      \* the write and watermark callbacks

------------------------------------------------------------------------------
(* tcp_server::new_connection: in the table, and connect_established       *)
(* queued for the io loop.                                                 *)
Init ==
    /\ conn = [state |-> "CONNECTING", events |-> {}, idx |-> "NEW", mapped |-> FALSE,
               inEpoll |-> FALSE, mask |-> {}, fatal |-> FALSE,
               obuf |-> <<>>, sent |-> <<>>, wire |-> <<>>, faulted |-> FALSE,
               raced |-> FALSE, wrShut |-> FALSE, ups |-> 0, downs |-> 0, peer |-> "open",
               inbound |-> FALSE, unsent |-> Msgs,
               ioq |-> <<Functor("established")>>, mainq |-> 0, inMap |-> TRUE,
               gone |-> FALSE]
    /\ io = "poll" /\ batch = 0
    /\ tpc = [t \in Threads |-> [op |-> "idle", at |-> "idle", m |-> NoMsg]]
    /\ calls = [t \in Threads |-> MaxCalls]
    /\ arrivals = MaxInbound

(* The poll returns with events of this channel, or for the functors.      *)
IoPoll(writable) ==
    LET revents == IF conn.inEpoll THEN Revents(conn, writable) ELSE {}
    IN  /\ io = "poll"
        /\ revents # {} \/ conn.ioq # <<>>
        /\ conn' \in HandleEvent(conn, revents)
        /\ io' = "pending"
        /\ UNCHANGED <<batch, tpc, calls, arrivals>>

(* do_pending_functors takes what is queued.                               *)
IoSwap ==
    /\ io = "pending"
    /\ batch' = Len(conn.ioq)
    /\ io' = IF conn.ioq = <<>> THEN "poll" ELSE "run"
    /\ UNCHANGED <<conn, tpc, calls, arrivals>>

IoFunctor ==
    /\ io = "run"
    /\ conn' \in RunFunctor([conn EXCEPT !.ioq = Tail(@)], Head(conn.ioq))
    /\ batch' = batch - 1
    /\ io' = IF batch = 1 THEN "poll" ELSE "run"
    /\ UNCHANGED <<tpc, calls, arrivals>>

(* remove_connection_inloop on the main loop: out of the table, and        *)
(* connect_destroyed is queued for the io loop.                            *)
RemoveConnectionInloop ==
    /\ conn.mainq > 0
    /\ conn' = [Queue(conn, Functor("destroyed")) EXCEPT !.mainq = @ - 1, !.inMap = FALSE]
    /\ UNCHANGED <<io, batch, tpc, calls, arrivals>>

(* send, shutdown or force_close from another thread: the test of state_,  *)
(* the store to it and the push to the io loop's queue are three steps.    *)
Call(t, op, m) ==
    /\ tpc[t].op = "idle" /\ calls[t] > 0
    /\ \/ conn.state = "CONNECTED"
       \/ op = "force_close" /\ conn.state = "DISCONNECTING"
    /\ IF op = "send" THEN m \in conn.unsent ELSE m = NoMsg
    /\ conn' = [conn EXCEPT !.unsent = @ \ {m}]
    /\ tpc' = [tpc EXCEPT ![t] = [op |-> op, m |-> m,
                                  at |-> IF op = "send" THEN "queue" ELSE "set"]]
    /\ calls' = [calls EXCEPT ![t] = @ - 1]
    /\ UNCHANGED <<io, batch, arrivals>>

SetState(t) ==
    /\ tpc[t].at = "set"
    /\ conn' = [conn EXCEPT !.state = "DISCONNECTING",
                            !.raced = @ \/ conn.state = "DISCONNECTED"]
    /\ tpc' = [tpc EXCEPT ![t].at = "queue"]
    /\ UNCHANGED <<io, batch, calls, arrivals>>

QueueInLoop(t) ==
    /\ tpc[t].at = "queue"
    /\ conn' = Queue(conn, [op |-> tpc[t].op, m |-> tpc[t].m])
    /\ tpc' = [tpc EXCEPT ![t] = [op |-> "idle", at |-> "idle", m |-> NoMsg]]
    /\ UNCHANGED <<io, batch, calls, arrivals>>

(* The peer: it sends, closes its side, or resets the connection.          *)
PeerSend ==
    /\ conn.peer = "open" /\ arrivals > 0
    /\ conn' = [conn EXCEPT !.inbound = TRUE]
    /\ arrivals' = arrivals - 1
    /\ UNCHANGED <<io, batch, tpc, calls>>

PeerLeave(how) ==
    /\ \/ conn.peer = "open"
       \/ conn.peer = "fin" /\ how = "reset"
    /\ conn' = [conn EXCEPT !.peer = how]
    /\ UNCHANGED <<io, batch, tpc, calls, arrivals>>

IoStep == IoPoll(TRUE) \/ IoPoll(FALSE) \/ IoSwap \/ IoFunctor

ThreadStep(t) ==
    \/ SetState(t) \/ QueueInLoop(t)
    \/ \E op \in RemoteOps, m \in Msgs \union {NoMsg} : Call(t, op, m)

PeerStep == PeerSend \/ \E how \in {"fin", "reset"} : PeerLeave(how)

Next ==
    \/ IoStep \/ RemoveConnectionInloop \/ PeerStep
    \/ \E t \in Threads : ThreadStep(t)

Spec == Init /\ [][Next]_vars

(* Both loops are scheduled, a socket with room is reported as writable,   *)
(* and a thread inside a call finishes it.                                 *)
Fairness ==
    /\ WF_vars(IoPoll(TRUE)) /\ WF_vars(IoSwap) /\ WF_vars(IoFunctor)
    /\ WF_vars(RemoveConnectionInloop)
    /\ \A t \in Threads : WF_vars(SetState(t) \/ QueueInLoop(t))

FairSpec == Spec /\ Fairness

------------------------------------------------------------------------------
(* Properties                                                              *)

TypeOK ==
    /\ conn \in Conn
    /\ io \in {"poll", "pending", "run"}
    /\ batch \in 0..Len(conn.ioq)
    /\ calls \in [Threads -> 0..MaxCalls]
    /\ arrivals \in 0..MaxInbound

(* send keeps the bytes in order across direct writes, short writes and    *)
(* the output buffer, from whichever thread they come: what is on the wire *)
(* is a prefix of what was accepted, and unless the socket failed for good *)
(* the rest is exactly obuf_.                                              *)
StreamInOrder ==
    /\ IsPrefix(conn.wire, conn.sent)
    /\ ~conn.faulted => conn.wire \o conn.obuf = conn.sent

(* Types; and the channel's index, channels_ and the epoll set never       *)
(* disagree, so that epoll_ctl never fails in a way that kills the process.*)
PollerConsistent ==
    /\ TypeOK
    /\ ~conn.fatal
    /\ conn.inEpoll <=> conn.idx = "ADDED"
    /\ conn.inEpoll => conn.mask = conn.events
    /\ conn.mapped <=> conn.idx # "NEW"

(* The user hears of the end of a connection once, after it heard of its   *)
(* beginning; a connection that connect_destroyed is done with is out of   *)
(* the poller and out of connections_, and was reported; one that is       *)
(* reported closed stays DISCONNECTED.  All of it unless another thread's  *)
(* shutdown or force_close tested state_ before handle_close and stored    *)
(* after it: then the connection is DISCONNECTING again and may be closed  *)
(* a second time.                                                          *)
ClosedOnce ==
    ~conn.raced =>
        /\ conn.downs <= conn.ups /\ conn.ups <= 1
        /\ conn.downs > 0 => conn.state = "DISCONNECTED"
        /\ conn.gone => conn.downs = 1 /\ conn.idx = "NEW" /\ ~conn.inMap

(* What the other threads do with the connection: they have found it       *)
(* established, and what they send is a message.                           *)
ThreadInv ==
    /\ tpc \in [Threads -> [op : RemoteOps \union {"idle"}, at : {"idle", "set", "queue"},
                            m : Msgs \union {NoMsg}]]
    /\ \A t \in Threads :
        /\ tpc[t].at # "idle" => conn.state # "CONNECTING" /\ tpc[t].op # "idle"
        /\ tpc[t].op = "send" => tpc[t].m \in Msgs

LoopInv == IF io = "run" THEN batch > 0 ELSE batch = 0

(* Why the bytes stay in order when a write fails for good: the socket     *)
(* never takes anything again.                                             *)
StreamInv(c) ==
    /\ IsPrefix(c.wire, c.sent)
    /\ ~c.faulted => c.wire \o c.obuf = c.sent
    /\ c.faulted => Broken(c)

PollerInv(c) ==
    /\ ~c.fatal
    /\ c.inEpoll <=> c.idx = "ADDED"
    /\ c.inEpoll => c.mask = c.events
    /\ c.mapped <=> c.idx # "NEW"

(* A connection's life.  First connect_established alone is queued; then   *)
(* the channel listens, and nothing of the end is queued or done; then it  *)
(* is reported closed and the channel listens no more.  What other threads *)
(* queue waits behind.                                                     *)
Queued(c, op) == \E i \in 1..Len(c.ioq) : c.ioq[i].op = op

Beginning(c) ==
    /\ c.state = "CONNECTING" => /\ c.ups = 0 /\ c.downs = 0 /\ c.mainq = 0 /\ ~c.inEpoll /\ ~c.gone
                                 /\ ~c.raced /\ c.ioq = <<Functor("established")>>
    /\ c.state # "CONNECTING" => c.ups = 1 /\ ~Queued(c, "established")

Open(c) == c.state \in {"CONNECTED", "DISCONNECTING"}

Ending(c) ==
    /\ ~c.raced /\ Open(c) => /\ c.downs = 0 /\ c.idx = "ADDED" /\ "r" \in c.events
                              /\ c.mainq = 0 /\ ~c.gone /\ ~Queued(c, "destroyed")
    /\ ~c.raced /\ c.state = "DISCONNECTED" => c.downs = 1 /\ c.idx # "ADDED" /\ c.events = {}
    /\ Queued(c, "destroyed") \/ c.gone => ~c.inMap
    /\ ~c.raced /\ c.gone => c.idx = "NEW"

QueueInv(c) == \A i \in 1..Len(c.ioq) : c.ioq[i].op = "send" => c.ioq[i].m \in Msgs

ConnInv(c) == c \in Conn /\ PollerInv(c) /\ StreamInv(c) /\ QueueInv(c) /\ Beginning(c) /\ Ending(c)

ConnectionInv == TypeOK /\ ThreadInv /\ LoopInv /\ ConnInv(conn)

(* When the peer closes or resets, or once force_close is queued,          *)
(* handle_close, remove_connection and connect_destroyed follow, over both *)
(* loops.                                                                  *)
CloseDestroys ==
    /\ (conn.peer # "open") ~> conn.gone
    /\ (\E i \in 1..Len(conn.ioq) : conn.ioq[i].op = "force_close") ~> conn.gone

(* "Append the data to the output buffer and listen for the channel's      *)
(* write event" (tcp_connection.cc:110): buffered output drains while the  *)
(* peer stays and reads.  is_writing is false whenever reading is enabled  *)
(* too, so handle_write never writes.                                      *)
OutputDrains ==
    (conn.obuf # <<>>)
        ~> (conn.obuf = <<>> \/ conn.state = "DISCONNECTED" \/ conn.peer # "open")
==============================================================================
