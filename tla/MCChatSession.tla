--------------------------- MODULE MCChatSession ---------------------------
(***************************************************************************)
(* How a message comes to the chat server's worker: a session of three     *)
(* frames, the last of which has a bad head (ChatSession), and the queue   *)
(* that the sessions' io threads post to (LogicSystem).  A behaviour is    *)
(* about one of them, named by part, and leaves the other as it was made.  *)
(***************************************************************************)
EXTENDS ChatSession, LogicSystem

VARIABLE part

allvars == <<part, vars, logicVars>>

TwoGoodOneBad == <<[bad |-> FALSE], [bad |-> FALSE], [bad |-> TRUE]>>

InSession(A) == part = "session" /\ A /\ UNCHANGED <<part, logicVars>>

InQueue(A) == part = "queue" /\ A /\ UNCHANGED <<part, vars>>

MCInit == part \in {"session", "queue"} /\ Init /\ LogicInit

MCNext == InSession(Next) \/ InQueue(LogicNext)

(* The fairness of each, in its part.                                      *)
MCFairness ==
    /\ WF_allvars(InSession(ReadStep)) /\ WF_allvars(InSession(WriteStep))
    /\ WF_allvars(InQueue(DealMsg)) /\ WF_allvars(InQueue(DtorStep))
    /\ \A t \in Posters : WF_allvars(InQueue(PostNotify(t)))

MCSpec == MCInit /\ [][MCNext]_allvars /\ MCFairness
=============================================================================
