------------------------------- MODULE TcpClient -------------------------------
(***************************************************************************)
(* tcp_client with its connector, on the loop both live on.  The connector *)
(* makes a socket, waits with a channel of its own for it to be writable   *)
(* and hands the socket to the client, which makes a tcp_connection of it; *)
(* when that closes, the connector is restarted.                           *)
(*                                                                         *)
(* The loop runs one handler or functor at a time, so each is one step; an *)
(* operator maps the record c to the record, or the set of records, that   *)
(* the function leaves behind.  connect, disconnect and stop may come from *)
(* other threads.  Sockets are numbered as they are made.  The connection  *)
(* itself is reduced to its state_, see TcpConnection; the destructors are *)
(* left out.                                                               *)
(***************************************************************************)
EXTENDS Naturals, Sequences

CONSTANTS Threads,
          MaxCalls,     \* bound: calls each thread makes
          MaxSocks,     \* bound: sockets; with none left connect() fails at once
          MaxRefused    \* bound: connects that the server refuses

VARIABLES c,            \* client, connector, connections and sockets, see Init
          io, batch,    \* the loop: "poll", "pending", "run", and functors to run
          tpc, calls    \* the call each thread is in, calls it has left

vars == <<c, io, batch, tpc, calls>>

Socks == 1..MaxSocks

None == 0

Functor(op, n) == [op |-> op, n |-> n]

Queue(r, op, n) == [r EXCEPT !.q = Append(@, Functor(op, n))]

------------------------------------------------------------------------------
(* connector, on the loop's thread                                         *)

(* A channel that goes while the poller has it leaves a dangling pointer.  *)
Drop(r) ==
    [r EXCEPT !.chan = None, !.wrong = @ \/ (r.chan # None /\ r.epoll[r.chan] = "connector")]

Connecting(r, n) ==
    [Drop(r) EXCEPT !.state = "CONNECTING", !.chan = n, !.epoll[n] = "connector",
                    !.sock[n] = "connecting"]

(* connect: under way, or it fails at once, after which nothing is retried.*)
Connect(r) ==
    LET fresh == {n \in Socks : r.sock[n] = "none"}
    IN  {[r EXCEPT !.gaveUp = TRUE]} \union
        {Connecting(r, n) : n \in {m \in fresh : \A k \in fresh : m <= k}}

(* overlap notes a start while an earlier connect, its channel or the      *)
(* connection it led to is still there.                                    *)
StartInloop(r) ==
    IF ~r.go THEN {r}
    ELSE Connect([r EXCEPT !.overlap = @ \/ r.state = "CONNECTING" \/ r.chan # None
                                         \/ r.connection # None])

(* Mutant: the channel is not taken out of the poller.                     *)
RemoveAndResetChannelKeeps(r) ==
    IF r.chan = None THEN [r EXCEPT !.wrong = TRUE] ELSE Queue(r, "reset", None)

(* remove_and_reset_channel goes through channel_, and resets it later.    *)
RemoveAndResetChannel(r) ==
    IF r.chan = None THEN [r EXCEPT !.wrong = TRUE]
    ELSE Queue([r EXCEPT !.epoll[r.chan] = "none"], "reset", None)

StopInloop(r) ==
    IF r.state = "CONNECTING"
    THEN RemoveAndResetChannel([r EXCEPT !.state = "DISCONNECTED"])
    ELSE r

(* restart, up to its call of start_inloop.                                *)
Restart(r) == [r EXCEPT !.next = "start", !.state = "DISCONNECTED", !.go = TRUE]

(* Mutant: a refused connect ends the attempt.                             *)
HandleErrorEnds(r) ==
    IF r.state = "CONNECTING"
    THEN RemoveAndResetChannel([r EXCEPT !.state = "DISCONNECTED"])
    ELSE r

(* handle_error leaves state_ as it is.                                    *)
HandleError(r) == IF r.state = "CONNECTING" THEN RemoveAndResetChannel(r) ELSE r

------------------------------------------------------------------------------
(* tcp_client and its tcp_connection, on the loop's thread                 *)

Shutdown(r, n) ==
    IF n # None /\ r.cst[n] = "CONNECTED"
    THEN Queue([r EXCEPT !.cst[n] = "DISCONNECTING"], "shutdown", n)
    ELSE r

ForceClose(r, n) ==
    IF r.cst[n] \in {"CONNECTED", "DISCONNECTING"}
    THEN Queue([r EXCEPT !.cst[n] = "DISCONNECTING"], "force_close", n)
    ELSE r

Stop(r) == Queue([r EXCEPT !.want = FALSE, !.go = FALSE], "stop", None)

Disconnect(r) == Shutdown([r EXCEPT !.want = FALSE], r.connection)

(* The user's connection callback: nothing, or a call.                     *)
UserCb(r, n) == {r, ForceClose(r, n), Disconnect(r), Stop(r)}

(* new_connection, with connect_established.                               *)
NewConnection(r, n) ==
    UserCb([r EXCEPT !.wrong = @ \/ (r.connection # None /\ r.epoll[r.connection] = "connection"),
                     !.connection = n, !.cst[n] = "CONNECTED", !.epoll[n] = "connection"], n)

(* connector::handle_write.                                                *)
HandleWrite(r) ==
    LET d == [RemoveAndResetChannel(r) EXCEPT !.state = "CONNECTED"]
    IN  IF r.state # "CONNECTING" THEN {r}
        ELSE IF d.wrong \/ ~r.go THEN {d} ELSE NewConnection(d, r.chan)

(* remove_connection tests connect_; restart and start_inloop are steps of *)
(* their own, as other threads may clear the flags in between.             *)
RemoveConnection(r, n) ==
    [Queue(r, "destroyed", n) EXCEPT !.connection = None,
                                     !.next = IF r.want THEN "restart" ELSE "return"]

(* tcp_connection::handle_close: conn_cb_, then remove_connection.         *)
HandleClose(r, n) ==
    {RemoveConnection(d, n) :
        d \in UserCb([r EXCEPT !.cst[n] = "DISCONNECTED", !.epoll[n] = "none"], n)}

ForceCloseInloop(r, n) ==
    IF r.cst[n] \in {"CONNECTED", "DISCONNECTING"} THEN HandleClose(r, n) ELSE {r}

ConnectDestroyed(r, n) == [r EXCEPT !.cst[n] = "gone", !.epoll[n] = "none"]

RunFunctor(r, f) ==
    CASE f.op = "start"       -> StartInloop(r)
      [] f.op = "stop"        -> {StopInloop(r)}
      [] f.op = "reset"       -> {Drop(r)}
      [] f.op = "force_close" -> ForceCloseInloop(r, f.n)
      [] f.op = "destroyed"   -> {ConnectDestroyed(r, f.n)}
      [] f.op = "shutdown"    -> {r}

(* What the poller reports of socket n, and channel::handle_event.  A      *)
(* refused socket is both writable and in error, and reads as closed.      *)
HandleEvent(r, n) ==
    CASE r.epoll[n] = "connector" /\ r.sock[n] = "refused" -> HandleWrite(HandleError(r))
      [] r.epoll[n] = "connector" /\ r.sock[n] # "refused" -> HandleWrite(r)
      [] r.epoll[n] = "connection" -> HandleClose(r, n)

Ready(r, n) ==
    \/ r.epoll[n] = "connector" /\ r.sock[n] # "connecting"
    \/ r.epoll[n] = "connection" /\ r.sock[n] \in {"refused", "closed"}

------------------------------------------------------------------------------
Init ==
    /\ c = [want |-> TRUE, go |-> FALSE,           \* connect_ of client and connector
            state |-> "DISCONNECTED",              \* state_ of the connector
            chan |-> None,                         \* its channel_, by socket
            connection |-> None,                   \* connection_ of the client
            cst |-> [n \in Socks |-> "none"],      \* state_ of each tcp_connection
            epoll |-> [n \in Socks |-> "none"],    \* whose channel the poller has
            sock |-> [n \in Socks |-> "none"],
            q |-> <<>>,                            \* functors of the loop
            next |-> "return",                     \* what remove_connection calls next
            refused |-> 0, gaveUp |-> FALSE, overlap |-> FALSE, wrong |-> FALSE]
    /\ io = "poll" /\ batch = 0
    /\ tpc = [t \in Threads |-> [op |-> "idle", at |-> "idle"]]
    /\ calls = [t \in Threads |-> MaxCalls]

Poll ==
    /\ io = "poll"
    /\ \/ \E n \in Socks : Ready(c, n) /\ c' \in HandleEvent(c, n)
       \/ c.q # <<>> /\ UNCHANGED c
    /\ io' = "pending"
    /\ UNCHANGED <<batch, tpc, calls>>

Swap ==
    /\ io = "pending"
    /\ batch' = Len(c.q)
    /\ io' = IF c.q = <<>> THEN "poll" ELSE "run"
    /\ UNCHANGED <<c, tpc, calls>>

Run ==
    /\ io = "run"
    /\ c' \in RunFunctor([c EXCEPT !.q = Tail(@)], Head(c.q))
    /\ batch' = batch - 1
    /\ io' = IF batch = 1 THEN "poll" ELSE "run"
    /\ UNCHANGED <<tpc, calls>>

(* The calls of other threads: the flag of the client, that of the         *)
(* connector, and the functor; disconnect has the flag and, with mtx_, the *)
(* shutdown.                                                               *)
Call(t, op) ==
    /\ tpc[t].at = "idle" /\ calls[t] > 0
    /\ calls' = [calls EXCEPT ![t] = @ - 1]
    /\ c' = [c EXCEPT !.want = (op = "start")]
    /\ tpc' = [tpc EXCEPT ![t] = [op |-> op, at |-> IF op = "disconnect" THEN "lock" ELSE "flag"]]
    /\ UNCHANGED <<io, batch>>

CallFlag(t) ==
    /\ tpc[t].at = "flag"
    /\ c' = [c EXCEPT !.go = (tpc[t].op = "start")]
    /\ tpc' = [tpc EXCEPT ![t].at = "queue"]
    /\ UNCHANGED <<io, batch, calls>>

(* A foreign disconnect: its test and its store of state_ are one step     *)
(* here; TcpConnection has them apart.                                     *)
CallEnd(t) ==
    /\ tpc[t].at \in {"queue", "lock"}
    /\ c' = IF tpc[t].at = "lock" THEN Shutdown(c, c.connection) ELSE Queue(c, tpc[t].op, None)
    /\ tpc' = [tpc EXCEPT ![t] = [op |-> "idle", at |-> "idle"]]
    /\ UNCHANGED <<io, batch, calls>>

(* The network and the server.                                             *)
Accepted(n) ==
    /\ c.sock[n] = "connecting" /\ c' = [c EXCEPT !.sock[n] = "up"]
    /\ UNCHANGED <<io, batch, tpc, calls>>

Refused(n) ==
    /\ c.sock[n] = "connecting" /\ c.refused < MaxRefused
    /\ c' = [c EXCEPT !.sock[n] = "refused", !.refused = @ + 1]
    /\ UNCHANGED <<io, batch, tpc, calls>>

ServerCloses(n) ==
    /\ c.sock[n] = "up" /\ c' = [c EXCEPT !.sock[n] = "closed"]
    /\ UNCHANGED <<io, batch, tpc, calls>>

RestartNow ==
    /\ \/ c.next = "restart" /\ c' = Restart(c)
       \/ c.next = "start" /\ c' \in StartInloop([c EXCEPT !.next = "return"])
    /\ UNCHANGED <<io, batch, tpc, calls>>

LoopStep == ~c.wrong /\ (RestartNow \/ (c.next = "return" /\ (Poll \/ Swap \/ Run)))

ThreadStep(t) ==
    \/ CallFlag(t) \/ CallEnd(t)
    \/ \E op \in {"start", "stop", "disconnect"} : Call(t, op)

NetStep(n) == Accepted(n) \/ Refused(n)

Next ==
    \/ LoopStep
    \/ \E t \in Threads : ThreadStep(t)
    \/ \E n \in Socks : NetStep(n) \/ ServerCloses(n)

Spec == Init /\ [][Next]_vars

(* The loop runs, a call that has begun ends, and a connect is accepted or *)
(* refused in the end.                                                     *)
Fairness ==
    /\ WF_vars(LoopStep)
    /\ \A t \in Threads : WF_vars(CallFlag(t) \/ CallEnd(t))
    /\ \A n \in Socks : WF_vars(NetStep(n))

FairSpec == Spec /\ Fairness

------------------------------------------------------------------------------
(* Properties                                                              *)

(* Nothing registered with the poller is destroyed and channel_ is there   *)
(* when it is used, through refusals, restarts, stops and disconnects, and *)
(* the poller has one channel at most: the connector's while it connects   *)
(* or that of the client's connection.  All of it unless the user starts   *)
(* again while the earlier connect, its channel_ or its connection is      *)
(* still there; the code does not look, and restart never does it.         *)
ChannelsSound ==
    ~c.overlap =>
        /\ ~c.wrong
        /\ \A n \in Socks :
            /\ c.epoll[n] = "connector" => c.chan = n /\ c.state = "CONNECTING"
            /\ c.epoll[n] = "connection" => c.connection = n /\ c.chan \in {None, n}
        /\ c.chan # None => \/ c.epoll[c.chan] = "connector"
                            \/ \E i \in DOMAIN c.q : c.q[i].op = "reset"

(* What ChannelsSound rests on, first the types of the client's record.    *)
FunctorOps == {"start", "stop", "reset", "shutdown", "force_close", "destroyed"}

Client == [want : BOOLEAN, go : BOOLEAN,
           state : {"DISCONNECTED", "CONNECTING", "CONNECTED"},
           chan : 0..MaxSocks, connection : 0..MaxSocks,
           cst : [Socks -> {"none", "CONNECTED", "DISCONNECTING", "DISCONNECTED", "gone"}],
           epoll : [Socks -> {"none", "connector", "connection"}],
           sock : [Socks -> {"none", "connecting", "up", "refused", "closed"}],
           q : Seq([op : FunctorOps, n : 0..MaxSocks]),
           next : {"return", "restart", "start"},
           refused : Nat, gaveUp : BOOLEAN, overlap : BOOLEAN, wrong : BOOLEAN]

NamesSocket(r) ==
    \A i \in 1..Len(r.q) : r.q[i].op \in {"shutdown", "force_close", "destroyed"} => r.q[i].n \in Socks

(* The poller has the channel of the connector while it connects and that  *)
(* of the connection while it is open; a socket serves one connection.     *)
PollerHas(r) ==
    /\ ~r.wrong
    /\ \A n \in Socks :
        /\ r.epoll[n] = "connector" => r.chan = n /\ r.state = "CONNECTING" /\ r.cst[n] = "none"
        /\ r.epoll[n] = "connection" => r.connection = n /\ r.chan \in {None, n}
        /\ r.epoll[n] = "connection" <=> r.cst[n] \in {"CONNECTED", "DISCONNECTING"}
        /\ r.sock[n] = "none" => r.cst[n] = "none" /\ r.epoll[n] = "none"
    /\ r.state = "CONNECTING" => /\ r.chan # None /\ r.epoll[r.chan] = "connector"
                                 /\ r.connection = None /\ r.next = "return"

(* Only a connection that is closed is destroyed.                          *)
DestroysClosed(r) ==
    \A i \in 1..Len(r.q) : r.q[i].op = "destroyed" => r.cst[r.q[i].n] \in {"DISCONNECTED", "gone"}

(* reset_channel is queued when channel_ has left the poller: once, or,    *)
(* since handle_error and handle_write both do it, twice in a row and for  *)
(* the same round (within the first k), so that nothing runs between them. *)
Resets(r, i) == r.q[i].op = "reset"

ResetsRight(r, k) ==
    IF r.chan # None /\ r.epoll[r.chan] # "connector"
    THEN /\ \E i \in 1..Len(r.q) : Resets(r, i)
         /\ \A i, j \in 1..Len(r.q) :
                Resets(r, i) /\ Resets(r, j) /\ i < j => j = i + 1 /\ j <= k
    ELSE \A i \in 1..Len(r.q) : ~Resets(r, i)

(* Between two of them the second is the next to run.                      *)
SecondReset(r) ==
    /\ r.chan = None /\ r.next = "return" /\ Len(r.q) > 0
    /\ \A i \in 1..Len(r.q) : Resets(r, i) <=> i = 1

ClientInv ==
    /\ c \in Client /\ NamesSocket(c)
    /\ io \in {"poll", "pending", "run"} /\ batch \in 0..Len(c.q)
    /\ io = "run" <=> batch > 0
    /\ tpc \in [Threads -> [op : {"idle", "start", "stop", "disconnect"},
                            at : {"idle", "flag", "queue", "lock"}]]
    /\ \A t \in Threads : tpc[t].at \in {"flag", "queue"} => tpc[t].op \in {"start", "stop"}
    /\ ~c.overlap =>
        /\ PollerHas(c) /\ DestroysClosed(c)
        /\ \/ ResetsRight(c, IF io = "pending" THEN Len(c.q) ELSE batch)
           \/ io = "run" /\ SecondReset(c)

(* A client whose server closed the connection, or refused it, connects    *)
(* again, until it is stopped or disconnected or a connect fails at once.  *)
Reconnects ==
    \A n \in Socks :
        (c.want /\ c.connection = n /\ c.sock[n] \in {"closed", "refused"})
            ~> \/ \E m \in Socks : m > n /\ c.cst[m] # "none" /\ c.sock[m] # "refused"
               \/ ~c.want \/ \E i \in DOMAIN c.q : c.q[i].op = "stop"
               \/ c.gaveUp \/ c.overlap
==============================================================================
