---------------------------------- MODULE Rpc ----------------------------------
(***************************************************************************)
(* arpc: calls of several threads through one arpc_channel, each over a    *)
(* socket of its own with a thread of its own that receives the answer,    *)
(* and the arpc_server that answers.                                       *)
(*                                                                         *)
(* Neither side waits for a whole frame: what one read gives is taken for  *)
(* the call, or the answer.  A part of one, or the end of the stream, is   *)
(* read as something else, and the model ends there (undefined).           *)
(***************************************************************************)
EXTENDS Naturals, FiniteSets

CONSTANTS Calls,        \* each made once
          Nobody

VARIABLES next_id,      \* id_
          calls,        \* calls_, by id
          call,         \* each call, see Init
          sock,         \* its socket, seen from the client
          rsp,          \* the answer in it: the id, and the call it answers
          ran,          \* how often the done of a call ran, per call
          wrong,        \* a done got another call's answer, or "rpc call not find"
          undefined

vars == <<next_id, calls, call, sock, rsp, ran, wrong, undefined>>

NumCalls == Cardinality(Calls)

(* at: in CallMethod, or "returned", "failed" (told so by the controller)  *)
(* or "silent" (a failure without a controller).  recv: the thread of the  *)
(* call.  known: its service and method are registered and it parses.      *)
Init ==
    /\ next_id = 0
    /\ calls = [i \in 0..(NumCalls - 1) |-> Nobody]
    /\ call \in [Calls -> [at : {"start"}, id : {0}, recv : {"none"}, found : {Nobody},
                           controller : BOOLEAN, known : BOOLEAN]]
    /\ sock = [c \in Calls |-> "none"]
    /\ rsp = [c \in Calls |-> <<0, Nobody>>]
    /\ ran = [c \in Calls |-> 0]
    /\ wrong = FALSE /\ undefined = FALSE

Told(c) == IF call[c].controller THEN "failed" ELSE "silent"

(* Mutant: the counter is read and not advanced.                           *)
BeginLoads(c) ==
    /\ call[c].at = "start"
    /\ call' = [call EXCEPT ![c].at = "enter", ![c].id = next_id]
    /\ UNCHANGED <<next_id, calls, sock, rsp, ran, wrong, undefined>>

(* id_.fetch_add; unless the request cannot be serialized.                 *)
Begin(c) ==
    /\ call[c].at = "start"
    /\ \/ /\ call' = [call EXCEPT ![c].at = "enter", ![c].id = next_id]
          /\ next_id' = next_id + 1
       \/ /\ call' = [call EXCEPT ![c].at = Told(c)]
          /\ UNCHANGED next_id
    /\ UNCHANGED <<calls, sock, rsp, ran, wrong, undefined>>

(* calls_[id], with mtx_.                                                  *)
Enter(c) ==
    /\ call[c].at = "enter"
    /\ calls' = [calls EXCEPT ![call[c].id] = c]
    /\ call' = [call EXCEPT ![c].at = "send"]
    /\ UNCHANGED <<next_id, sock, rsp, ran, wrong, undefined>>

(* connect and send succeed and the thread is made; or one of them fails   *)
(* and the entry stays.                                                    *)
Send(c) ==
    /\ call[c].at = "send"
    /\ \/ /\ sock' = [sock EXCEPT ![c] = "request"]
          /\ call' = [call EXCEPT ![c].at = "sent", ![c].recv = "recv"]
       \/ /\ call' = [call EXCEPT ![c].at = Told(c)]
          /\ UNCHANGED sock
    /\ UNCHANGED <<next_id, calls, rsp, ran, wrong, undefined>>

(* The thread is detached, and CallMethod returns.                         *)
Return(c) ==
    /\ call[c].at = "sent"
    /\ call' = [call EXCEPT ![c].at = "returned"]
    /\ UNCHANGED <<next_id, calls, sock, rsp, ran, wrong, undefined>>

(* on_message with a whole frame: the service's method runs done at once,  *)
(* and send_response sends and shuts down; or nothing is sent and the      *)
(* connection stays.  Or with a part of one.                               *)
OnMessage(c) ==
    /\ sock[c] = "request"
    /\ \/ /\ call[c].known
          /\ sock' = [sock EXCEPT ![c] = "reply"]
          /\ rsp' = [rsp EXCEPT ![c] = <<call[c].id, c>>]
          /\ UNCHANGED undefined
       \/ /\ ~call[c].known
          /\ sock' = [sock EXCEPT ![c] = "quiet"]
          /\ UNCHANGED <<rsp, undefined>>
       \/ undefined' = TRUE /\ UNCHANGED <<sock, rsp>>
    /\ UNCHANGED <<next_id, calls, call, ran, wrong>>

(* recv fails: the controller, a parameter of CallMethod held by           *)
(* reference, is told; once CallMethod has returned it is anything.        *)
RecvFails(c) ==
    /\ call[c].recv = "recv"
    /\ undefined' = (call[c].at = "returned")
    /\ call' = [call EXCEPT ![c].recv = "ended"]
    /\ UNCHANGED <<next_id, calls, sock, rsp, ran, wrong>>

(* recv gives the whole answer, and its entry is looked up and erased with *)
(* mtx_; or a part of it.                                                  *)
Receive(c) ==
    /\ call[c].recv = "recv" /\ sock[c] = "reply"
    /\ LET id == rsp[c][1] IN
       \/ /\ calls[id] # Nobody
          /\ calls' = [calls EXCEPT ![id] = Nobody]
          /\ call' = [call EXCEPT ![c].recv = "found", ![c].found = calls[id]]
          /\ UNCHANGED <<wrong, undefined>>
       \/ /\ calls[id] = Nobody
          /\ call' = [call EXCEPT ![c].recv = "ended"]
          /\ wrong' = TRUE
          /\ UNCHANGED <<calls, undefined>>
       \/ /\ undefined' = TRUE
          /\ UNCHANGED <<calls, call, wrong>>
    /\ UNCHANGED <<next_id, sock, rsp, ran>>

(* The server is gone before it has answered: recv gives 0 bytes, and the  *)
(* header is looked for in them.                                           *)
EndOfStream(c) ==
    /\ call[c].recv = "recv" /\ sock[c] \in {"request", "quiet"}
    /\ undefined' = TRUE
    /\ UNCHANGED <<next_id, calls, call, sock, rsp, ran, wrong>>

(* The response is parsed, done runs, the response is deleted.  Or there   *)
(* is no response or no done; or the response does not parse, and the      *)
(* controller is told.                                                     *)
RunDone(c) ==
    /\ call[c].recv = "found"
    /\ \/ /\ ran' = [ran EXCEPT ![call[c].found] = @ + 1]
          /\ wrong' = (wrong \/ call[c].found # rsp[c][2])
          /\ UNCHANGED undefined
       \/ /\ undefined' \in {FALSE, call[c].at = "returned"}
          /\ UNCHANGED <<ran, wrong>>
    /\ call' = [call EXCEPT ![c].recv = "ended"]
    /\ UNCHANGED <<next_id, calls, sock, rsp>>

(* Steps that come: of the caller, of the server and of the call's thread. *)
CallerStep(c) == Begin(c) \/ Enter(c) \/ Send(c) \/ Return(c)

AnswerStep(c) == OnMessage(c) \/ Receive(c) \/ RunDone(c)

Next ==
    /\ ~undefined
    /\ \E c \in Calls : CallerStep(c) \/ AnswerStep(c) \/ RecvFails(c) \/ EndOfStream(c)

Fairness ==
    \A c \in Calls : WF_vars(~undefined /\ CallerStep(c)) /\ WF_vars(~undefined /\ AnswerStep(c))

Spec == Init /\ [][Next]_vars /\ Fairness

------------------------------------------------------------------------------
(* Properties                                                              *)

(* However calls and answers interleave, an answer finds its own call, and *)
(* done runs once at most; an entry stays until its answer has come.       *)
AnswersMatch ==
    /\ ~wrong
    /\ \A c \in Calls :
        /\ ran[c] <= 1
        /\ call[c].recv = "recv" => calls[call[c].id] = c

(* Nothing is owed: CallMethod has returned, and the thread of the call    *)
(* has ended or the call failed; unless the server does not know the       *)
(* service, when the call waits for ever.                                  *)
Settled ==
    undefined \/ \A c \in Calls :
        /\ call[c].at \in {"returned", "failed", "silent"}
        /\ call[c].recv \in {"none", "ended"} \/ ~call[c].known

------------------------------------------------------------------------------
(* What the proofs need: an invariant that every step keeps.               *)

CallType == [at : {"start", "enter", "send", "sent", "returned", "failed", "silent"},
             id : 0..(NumCalls - 1), recv : {"none", "recv", "found", "ended"},
             found : Calls \union {Nobody}, controller : BOOLEAN, known : BOOLEAN]

Started == {c \in Calls : call[c].at # "start"}

HasId(c) == call[c].at \in {"enter", "send", "sent", "returned"}

RpcTypes ==
    /\ next_id \in Nat /\ next_id <= Cardinality(Started)
    /\ calls \in [0..(NumCalls - 1) -> Calls \union {Nobody}]
    /\ call \in [Calls -> CallType]
    /\ sock \in [Calls -> {"none", "request", "quiet", "reply"}]
    /\ rsp \in [Calls -> Nat \X (Calls \union {Nobody})]
    /\ ran \in [Calls -> Nat]

(* The entry of a call is the call itself from Enter until its answer is   *)
(* taken out, and the answer carries the id of its own call.               *)
EachCall(c) ==
    /\ HasId(c) => call[c].id < next_id
    /\ call[c].recv # "none" => call[c].at \in {"sent", "returned"}
    /\ sock[c] # "none" => call[c].recv # "none"
    /\ sock[c] = "reply" => rsp[c] = <<call[c].id, c>>
    /\ call[c].at = "send" \/ call[c].recv = "recv" => calls[call[c].id] = c
    /\ call[c].recv # "ended" => ran[c] = 0
    /\ ran[c] <= 1
    /\ call[c].recv = "found" => call[c].found = c /\ sock[c] = "reply"

(* An id is handed out once, so that it stays inside calls_ and is that of *)
(* one call.                                                               *)
IdsApart == \A c, d \in Calls : c # d /\ HasId(c) /\ HasId(d) => call[c].id # call[d].id

RpcInv == ~wrong /\ RpcTypes /\ (\A c \in Calls : EachCall(c)) /\ IdsApart
==============================================================================
