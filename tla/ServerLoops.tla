------------------------------ MODULE ServerLoops ------------------------------
(***************************************************************************)
(* A tcp_server with its loop threads: event_loop_thread hands its loop to *)
(* the pool, the pool deals connections out to the loops, and the server   *)
(* is destroyed while connections live.                                    *)
(*                                                                         *)
(* Loop 0 is the base loop, whose thread starts and destroys the server;   *)
(* the io loops are never told to quit.  A loop runs its functors one at a *)
(* time and in order, as EventLoop shows.  What one connection does        *)
(* between its making and its end is TcpConnection.                        *)
(***************************************************************************)
EXTENDS Naturals, Sequences, FiniteSets

CONSTANTS MaxThreads,   \* bound: of num_threads_
          MaxConns      \* bound: connections accepted

VARIABLES num,          \* num_threads_
          base,         \* the base thread: where it is, the loop it waits for
          thread,       \* each io thread: "none", "started", "looping"
          given,        \* loops_, as the io threads' numbers
          next,         \* next_
          pending,      \* of each loop: functors, as <<what, connection>>
          home,         \* of each connection made: its loop
          held,         \* connections_
          todo,         \* connections the destructor has still to come to
          up,           \* connections whose channel is in the poller
          closed,       \* connections that handle_close has closed
          ended,        \* how often connect_destroyed has run, per connection
          wrong         \* something used the server after its destruction

vars == <<num, base, thread, given, next, pending, home, held, todo, up, closed, ended, wrong>>

Conns == 1..MaxConns

IoLoops == 1..num

Made == DOMAIN home

Init ==
    /\ num \in 0..MaxThreads
    /\ base = [at |-> "spawn", i |-> 1]
    /\ thread = [i \in 1..MaxThreads |-> "none"]
    /\ given = <<>> /\ next = 0
    /\ pending = [i \in 0..MaxThreads |-> <<>>]
    /\ home = <<>> /\ held = {} /\ todo = {} /\ up = {} /\ closed = {}
    /\ ended = [c \in Conns |-> 0]
    /\ wrong = FALSE

connVars == <<pending, home, held, todo, up, closed, ended, wrong>>

(* start: event_loop_thread for thread i, or, after the last, listen.      *)
Spawn ==
    /\ base.at = "spawn"
    /\ IF base.i > num
       THEN base' = [base EXCEPT !.at = "loop"] /\ UNCHANGED thread
       ELSE /\ thread' = [thread EXCEPT ![base.i] = "started"]
            /\ base' = [base EXCEPT !.at = "test"]
    /\ UNCHANGED <<num, given, next, connVars>>

(* start_loop: while (nullptr == loop_) wait, with mtx_.                   *)
StartLoopTest ==
    /\ base.at = "test"
    /\ IF thread[base.i] = "looping"
       THEN /\ given' = Append(given, base.i)
            /\ base' = [at |-> "spawn", i |-> base.i + 1]
       ELSE base' = [base EXCEPT !.at = "wait"] /\ UNCHANGED given
    /\ UNCHANGED <<num, thread, next, connVars>>

SpuriousWakeup ==
    /\ base.at = "wait"
    /\ base' = [base EXCEPT !.at = "test"]
    /\ UNCHANGED <<num, thread, given, next, connVars>>

(* thread_func: loop_ is set and notified with mtx_, and the loop runs.    *)
ThreadFunc(i) ==
    /\ thread[i] = "started"
    /\ thread' = [thread EXCEPT ![i] = "looping"]
    /\ base' = IF base.at = "wait" THEN [base EXCEPT !.at = "test"] ELSE base
    /\ UNCHANGED <<num, given, next, connVars>>

startVars == <<num, base, thread, given>>

GetNextLoop == IF given = <<>> THEN 0 ELSE given[next + 1]

(* Mutant: next_ wraps one loop too early.                                 *)
NextAfterEarly == IF next + 2 >= Len(given) THEN 0 ELSE next + 1

NextAfter == IF given = <<>> \/ next + 1 >= Len(given) THEN 0 ELSE next + 1

(* handle_read of the acceptor and new_connection.                         *)
NewConnection ==
    /\ base.at = "loop" /\ Cardinality(Made) < MaxConns
    /\ LET c == Cardinality(Made) + 1
           l == GetNextLoop
       IN  /\ home' = Append(home, l)
           /\ held' = held \union {c}
           /\ IF l = 0
              THEN up' = up \union {c} /\ UNCHANGED pending
              ELSE /\ pending' = [pending EXCEPT ![l] = Append(@, <<"established", c>>)]
                   /\ UNCHANGED up
    /\ next' = NextAfter
    /\ UNCHANGED <<startVars, todo, closed, ended, wrong>>

(* handle_close, on the connection's loop, and remove_connection.          *)
HandleClose(c) ==
    /\ c \in up \ closed
    /\ home[c] = 0 => base.at = "loop"
    /\ closed' = closed \union {c}
    /\ wrong' = (base.at \in {"dead", "gone"})
    /\ IF home[c] = 0
       THEN /\ held' = held \ {c}
            /\ pending' = [pending EXCEPT ![0] = Append(@, <<"destroyed", c>>)]
       ELSE /\ pending' = [pending EXCEPT ![0] = Append(@, <<"remove", c>>)]
            /\ UNCHANGED held
    /\ UNCHANGED <<startVars, next, home, todo, up, ended>>

ConnectDestroyed(c) ==
    /\ up' = up \ {c} /\ closed' = closed \union {c}
    /\ ended' = [ended EXCEPT ![c] = @ + 1]

(* The loop l runs its next functor.                                       *)
RunFunctor(l) ==
    /\ pending[l] # <<>>
    /\ IF l = 0 THEN base.at \in {"loop", "dead"} ELSE thread[l] = "looping"
    /\ LET what == Head(pending[l])[1]
           c == Head(pending[l])[2]
           rest == [pending EXCEPT ![l] = Tail(@)]
       IN  \/ /\ what = "established"
              /\ up' = up \union {c} /\ pending' = rest
              /\ UNCHANGED <<held, closed, ended, wrong>>
           \/ /\ what = "remove"
              /\ held' = held \ {c}
              /\ pending' = [rest EXCEPT ![home[c]] = Append(@, <<"destroyed", c>>)]
              /\ wrong' = (base.at = "dead")
              /\ UNCHANGED <<up, closed, ended>>
           \/ /\ what = "destroyed"
              /\ ConnectDestroyed(c) /\ pending' = rest
              /\ UNCHANGED <<held, wrong>>
    /\ UNCHANGED <<startVars, next, home, todo>>

(* loop() returns: the base loop runs no more functors.                    *)
BaseQuit ==
    /\ base.at = "loop"
    /\ base' = [base EXCEPT !.at = "left"]
    /\ UNCHANGED <<num, thread, given, next, connVars>>

(* The destructor, called from the base thread, in its loop or after it;   *)
(* base.i remembers which.                                                 *)
Dtor ==
    /\ base.at \in {"loop", "left"}
    /\ todo' = held
    /\ base' = [at |-> "dtor", i |-> IF base.at = "loop" THEN 1 ELSE 0]
    /\ UNCHANGED <<num, thread, given, next, pending, home, held, up, closed, ended, wrong>>

(* Mutant: the destructor lets go of the connection only.                  *)
DtorNextForgets(c) ==
    /\ base.at = "dtor" /\ c \in todo
    /\ todo' = todo \ {c} /\ held' = held \ {c}
    /\ UNCHANGED <<startVars, next, pending, home, up, closed, ended, wrong>>

(* One connection of the destructor's for: run_in_loop(connect_destroyed). *)
DtorNext(c) ==
    /\ base.at = "dtor" /\ c \in todo
    /\ todo' = todo \ {c} /\ held' = held \ {c}
    /\ IF home[c] = 0
       THEN ConnectDestroyed(c) /\ UNCHANGED pending
       ELSE /\ pending' = [pending EXCEPT ![home[c]] = Append(@, <<"destroyed", c>>)]
            /\ UNCHANGED <<up, closed, ended>>
    /\ UNCHANGED <<startVars, next, home, wrong>>

(* The members are destroyed, the acceptor's channel among them, and the   *)
(* loop, if the destructor was called in it, goes on.                      *)
DtorEnd ==
    /\ base.at = "dtor" /\ todo = {}
    /\ base' = [base EXCEPT !.at = IF base.i = 1 THEN "dead" ELSE "gone"]
    /\ UNCHANGED <<num, thread, given, next, connVars>>

BaseStep ==
    \/ Spawn \/ StartLoopTest \/ RunFunctor(0) \/ DtorEnd
    \/ \E c \in Conns : DtorNext(c)

IoStep(i) == ThreadFunc(i) \/ RunFunctor(i)

Next ==
    /\ ~wrong
    /\ \/ BaseStep \/ SpuriousWakeup \/ NewConnection \/ BaseQuit \/ Dtor
       \/ \E i \in IoLoops : IoStep(i)
       \/ \E c \in Made : HandleClose(c)

(* Threads that can run do; main destroys the server once loop returns.    *)
Fairness ==
    /\ WF_vars(BaseStep) /\ WF_vars(base.at = "left" /\ Dtor)
    /\ \A i \in 1..MaxThreads : WF_vars(IoStep(i))

Spec == Init /\ [][Next]_vars /\ Fairness

------------------------------------------------------------------------------
(* Properties                                                              *)

(* Where a functor is queued: the loops and the places in their queues.    *)
Coming(what, c) ==
    UNION {{<<l, i>> : i \in {j \in DOMAIN pending[l] : pending[l][j] = <<what, c>>}} :
           l \in 0..MaxThreads}

(* A connection whose channel is in a poller is held by the server or by a *)
(* functor that ends it; connect_destroyed comes once for it; its functors *)
(* are on its own loop.  A server without io threads can be destroyed at   *)
(* any time.  With them that is not so: a connection that closes while its *)
(* server is destroyed calls back into it.                                 *)
ServerSound ==
    /\ num = 0 => ~wrong
    /\ ~wrong => \A c \in Made :
            /\ c \in up => c \in held \/ Coming("destroyed", c) # {}
            /\ ended[c] + Cardinality(Coming("destroyed", c)) <= 1
            /\ \A l \in 0..MaxThreads :
                    <<l, 1>> \in Coming("established", c) \union Coming("destroyed", c) => l = home[c]
    /\ \A i, j \in DOMAIN given :
            Cardinality({c \in Made : home[c] = given[i]})
                <= Cardinality({c \in Made : home[c] = given[j]}) + 1

(* Nothing is owed: start has returned, connections that closed or were    *)
(* left when the server was destroyed are destroyed: unless that ran into  *)
(* the case above, or the functor is in the queue of a base loop that has  *)
(* returned.                                                               *)
Settled ==
    /\ base.at \notin {"test", "wait", "left", "dtor"}
    /\ \A c \in Made :
        c \in closed \/ base.at \in {"dead", "gone"}
            => ended[c] = 1 \/ wrong \/ (base.at = "gone" /\ home[c] = 0)

------------------------------------------------------------------------------
(* What the proofs need: an invariant that every step keeps.               *)

Functor == {"established", "remove", "destroyed"} \X Conns

ServerTypes ==
    /\ num \in 0..MaxThreads
    /\ base \in [at : {"spawn", "test", "wait", "loop", "left", "dtor", "dead", "gone"}, i : Nat]
    /\ given \in Seq(1..num) /\ next \in Nat
    /\ pending \in [0..MaxThreads -> Seq(Functor)]
    /\ home \in Seq(0..num) /\ Len(home) <= MaxConns
    /\ held \subseteq Made /\ up \subseteq Made /\ closed \subseteq Made
    /\ ended \in [Conns -> Nat]

(* Starting: the loops are numbered in turn, and none is missing when the  *)
(* first connection comes.                                                 *)
StartInv ==
    /\ \A i \in DOMAIN given : given[i] = i
    /\ base.at = "spawn" => base.i = Len(given) + 1
    /\ base.at \in {"test", "wait"} => base.i = Len(given) + 1 /\ base.i <= num
    /\ base.at \in {"spawn", "test", "wait"} => home = <<>> /\ next = 0
    /\ given = <<>> => next = 0 /\ \A c \in Made : home[c] = 0
    /\ given # <<>> => next < Len(given)

OnLoop(l) == {c \in Made : home[c] = l}

(* The loops before next_ have one connection more than the others.        *)
Extra(i) == IF i <= next THEN 1 ELSE 0

DealtInv ==
    \A i, j \in DOMAIN given :
        Cardinality(OnLoop(i)) + Extra(j) = Cardinality(OnLoop(j)) + Extra(i)

Has(s, x) == \E i \in DOMAIN s : s[i] = x

Distinct(s) == \A i, j \in DOMAIN s : i # j => s[i] # s[j]

Before(s, x, y) == \A i, j \in DOMAIN s : s[i] = x /\ s[j] = y => i < j

Ending == base.at \in {"dtor", "dead", "gone"}

(* The functors of a connection: none is queued twice, each is on the loop *)
(* it belongs to, and connect_destroyed comes after connect_established;   *)
(* what is queued says how far the connection has come.                    *)
EstablishedInv(l, c) ==
    Has(pending[l], <<"established", c>>) =>
        /\ c \in Made /\ l = home[c] /\ l # 0
        /\ c \notin up /\ c \notin closed /\ ended[c] = 0
        /\ c \in held \/ Has(pending[l], <<"destroyed", c>>)

RemoveInv(l, c) ==
    Has(pending[l], <<"remove", c>>) =>
        /\ c \in Made /\ l = 0 /\ home[c] # 0
        /\ c \in closed
        /\ c \in held \/ Ending

DestroyedInv(l, c) ==
    Has(pending[l], <<"destroyed", c>>) =>
        /\ c \in Made /\ l = home[c]
        /\ c \notin held /\ ended[c] = 0
        /\ c \in closed \/ (l # 0 /\ Ending)

QueueInv ==
    \A l \in 0..MaxThreads :
        /\ Distinct(pending[l])
        /\ \A c \in Conns :
            /\ EstablishedInv(l, c) /\ RemoveInv(l, c) /\ DestroyedInv(l, c)
            /\ Before(pending[l], <<"established", c>>, <<"destroyed", c>>)

ConnInv ==
    /\ \A c \in Made :
        /\ ended[c] = 0 \/ (ended[c] = 1 /\ c \notin up /\ c \notin held)
        /\ c \in up => c \in held \/ Has(pending[home[c]], <<"destroyed", c>>)
    /\ \A c \in Conns \ Made : ended[c] = 0
    /\ base.at = "dtor" => todo = held

ServerInv ==
    /\ ServerTypes /\ StartInv /\ DealtInv
    /\ num = 0 => ~wrong
    /\ ~wrong => QueueInv /\ ConnInv
==============================================================================
