------------------------------ MODULE MCReactor ------------------------------
(***************************************************************************)
(* mmuduo from three sides: how the event_loop takes functors from other   *)
(* threads (EventLoop); how a tcp_client uses the loop to connect and to   *)
(* connect again (TcpClient), where the queue of functors is what          *)
(* EventLoop shows it to be; and the buffer (Buffer).  A behaviour is      *)
(* about one of them, named by part, and leaves the others as they were    *)
(* made.                                                                   *)
(***************************************************************************)
EXTENDS EventLoop

CONSTANTS Callers,      \* threads that use the client
          MaxCalls, MaxSocks, MaxRefused,
          Prepend, Initial, Extra, MaxBytes

VARIABLES part,
          c, io, batch, cpc, calls,
          buf, size, read, write, appended, retrieved

cvars == <<c, io, batch, cpc, calls>>
bvars == <<buf, size, read, write, appended, retrieved>>

allvars == <<part, vars, cvars, bvars>>

C == INSTANCE TcpClient WITH Threads <- Callers, tpc <- cpc

B == INSTANCE Buffer

ASSUME BufferSizes == B!SizesAreNumbers

ASSUME ClientBounds == MaxSocks \in Nat

InLoop(A) == part = "loop" /\ A /\ UNCHANGED <<part, cvars, bvars>>

InClient(A) == part = "client" /\ A /\ UNCHANGED <<part, vars, bvars>>

InBuffer(A) == part = "buffer" /\ A /\ UNCHANGED <<part, vars, cvars>>

MCInit ==
    /\ part \in {"loop", "client", "buffer"}
    /\ Init /\ C!Init /\ B!Init

MCNext == InLoop(Next) \/ InClient(C!Next) \/ InBuffer(B!Next)

(* The fairness of each, in its part.                                      *)
MCFairness ==
    /\ WF_allvars(InLoop(LoopStep))
    /\ \A t \in Threads : WF_allvars(InLoop(Wakeup(t)))
    /\ WF_allvars(InClient(C!LoopStep))
    /\ \A t \in Callers : WF_allvars(InClient(C!CallFlag(t) \/ C!CallEnd(t)))
    /\ \A n \in 1..MaxSocks : WF_allvars(InClient(C!NetStep(n)))

MCSpec == MCInit /\ [][MCNext]_allvars /\ MCFairness

(* The client's channels and connections are not destroyed while the       *)
(* poller has them, nor two of them registered: see TcpClient.             *)
ChannelsSound == C!ChannelsSound

(* A client connects again after its server closed or refused: see         *)
(* TcpClient.                                                              *)
Reconnects == C!Reconnects

(* The buffer keeps its bytes: see Buffer.                                 *)
BytesKept == B!BytesKept
==============================================================================
