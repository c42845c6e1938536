----------------------------- MODULE ChatSession -----------------------------
(***************************************************************************)
(* One csession of the chat server.  Its io thread reads frames (a head,   *)
(* then a body) and posts them to logic_system; the logic thread and the   *)
(* gRPC threads call send, which queues a node and keeps one async_write   *)
(* under way; the completion handlers run on the io thread.                *)
(*                                                                         *)
(* boost::asio is modelled by what the code sees of it: an operation that  *)
(* was started completes later with success or an error, and closing the   *)
(* socket makes the ones under way, and any started later, complete with   *)
(* an error.  send and the body of handle_write hold send_lock_ from       *)
(* beginning to end, so each is one step.                                  *)
(*                                                                         *)
(* A head and a body are two units each, so a read may end inside either.  *)
(* A node is an identity; its bytes reach the wire when its write is       *)
(* transferred.  Lengths below zero are not modelled: the length field is  *)
(* within the limit, or above it.                                          *)
(***************************************************************************)
EXTENDS Naturals, Sequences, SequencesExt

CONSTANTS Msgs,         \* the nodes handed to send, each at most once
          MaxSendQue,   \* MAX_SENDQUE
          Frames        \* what the client sends: [bad : BOOLEAN] in order

ASSUME MaxSendQueAssumption == MaxSendQue \in Nat
ASSUME FramesAssumption == Frames \in Seq([bad : BOOLEAN])

VARIABLES que,          \* send_que_
          writes,       \* nodes of the async_writes started and not handled yet
          okd,          \* nodes whose write completed ...
          failed,       \* ... with success, and with an error
          wire,         \* the nodes whose bytes were transferred, in order
          offered,      \* the nodes handed to send
          sock,         \* the socket: "open" or "closed"
          rpc,          \* what is being read: "head", "body", or "ended"
          data,         \* data_, up to what was read of the current part
          inbox,        \* units the client sent that were not read yet
          nsent,        \* frames the client sent
          peerOpen,     \* the client has not closed
          posted,       \* bodies posted to logic_system, in order
          cleared       \* clear_session was called

wvars == <<que, writes, okd, failed, wire, offered>>
rvars == <<rpc, data, inbox, posted>>
cvars == <<nsent, peerOpen>>
vars == <<wvars, rvars, cvars, sock, cleared>>

HeadLen == 2
BodyLen == 2

HeadOf(k) == <<<<k, "head", 1>>, <<k, "head", 2>>>>
BodyOf(k) == <<<<k, "body", 1>>, <<k, "body", 2>>>>

Unit == (1..Len(Frames)) \X {"head", "body"} \X {1, 2}

WriteTypeOK ==
    /\ que \in Seq(Msgs)
    /\ writes \in Seq(Msgs)
    /\ okd \in SUBSET Msgs /\ failed \in SUBSET Msgs
    /\ wire \in Seq(Msgs)
    /\ offered \in SUBSET Msgs
    /\ sock \in {"open", "closed"}
    /\ cleared \in BOOLEAN

(* data_ never holds more than the part that is being read.                *)
ReadTypeOK ==
    /\ rpc \in {"head", "body", "ended"}
    /\ data \in Seq(Unit) /\ inbox \in Seq(Unit)
    /\ Len(data) <= (IF rpc = "head" THEN HeadLen ELSE BodyLen)
    /\ nsent \in 0..Len(Frames)
    /\ peerOpen \in BOOLEAN
    /\ posted \in Seq(Seq(Unit))

(* Types of the session's state; async_read_len never reads past the part. *)
TypeOK == WriteTypeOK /\ ReadTypeOK

(* The constructor, and start: the first head is being read.               *)
Init ==
    /\ que = <<>> /\ writes = <<>> /\ okd = {} /\ failed = {} /\ wire = <<>>
    /\ offered = {}
    /\ sock = "open"
    /\ rpc = "head" /\ data = <<>> /\ inbox = <<>> /\ posted = <<>>
    /\ nsent = 0 /\ peerOpen = TRUE
    /\ cleared = FALSE

------------------------------------------------------------------------------
(* Writing                                                                 *)

(* async_write of the node at the head of q: it has no result yet, unless  *)
(* the socket is closed.                                                   *)
StartWrite(ws, q) ==
    /\ writes' = Append(ws, Head(q))
    /\ okd' = okd \ {Head(q)}
    /\ failed' = IF sock = "open" THEN failed \ {Head(q)} ELSE failed \union {Head(q)}

(* Mutant: a write is started even if one is under way.                    *)
SendAlwaysStarts(m) ==
    /\ m \notin offered
    /\ offered' = offered \union {m}
    /\ \/ /\ Len(que) > MaxSendQue
          /\ UNCHANGED <<que, writes, okd, failed>>
       \/ /\ Len(que) <= MaxSendQue
          /\ que' = Append(que, m)
          /\ StartWrite(writes, que')
    /\ UNCHANGED <<wire, rvars, cvars, sock, cleared>>

(* send, of either signature: refused beyond the limit, queued behind the  *)
(* others, and started only when it is the first.                          *)
Send(m) ==
    /\ m \notin offered
    /\ offered' = offered \union {m}
    /\ \/ /\ Len(que) > MaxSendQue
          /\ UNCHANGED <<que, writes, okd, failed>>
       \/ /\ Len(que) <= MaxSendQue
          /\ que' = Append(que, m)
          /\ \/ que = <<>> /\ StartWrite(writes, que')
             \/ que # <<>> /\ UNCHANGED <<writes, okd, failed>>
    /\ UNCHANGED <<wire, rvars, cvars, sock, cleared>>

Pending(m) == m \notin okd /\ m \notin failed

(* The socket takes all bytes of a write, or the connection fails it.      *)
Transfer(i) ==
    /\ Pending(writes[i])
    /\ okd' = okd \union {writes[i]}
    /\ wire' = Append(wire, writes[i])
    /\ UNCHANGED <<que, writes, failed, offered, rvars, cvars, sock, cleared>>

FailWrite(i) ==
    /\ Pending(writes[i])
    /\ failed' = failed \union {writes[i]}
    /\ UNCHANGED <<que, writes, okd, wire, offered, rvars, cvars, sock, cleared>>

(* Mutant: the node at the head is started again before it leaves.         *)
HandleWriteRepeats(i) ==
    /\ writes[i] \in okd
    /\ que' = Tail(que)
    /\ \/ /\ Tail(que) = <<>>
          /\ writes' = RemoveAt(writes, i)
          /\ UNCHANGED <<okd, failed>>
       \/ /\ Tail(que) # <<>>
          /\ StartWrite(RemoveAt(writes, i), que)
    /\ UNCHANGED <<wire, offered, rvars, cvars, sock, cleared>>

(* handle_write without error: the head leaves, the next one is started.   *)
HandleWrite(i) ==
    /\ writes[i] \in okd
    /\ que' = Tail(que)
    /\ \/ /\ Tail(que) = <<>>
          /\ writes' = RemoveAt(writes, i)
          /\ UNCHANGED <<okd, failed>>
       \/ /\ Tail(que) # <<>>
          /\ StartWrite(RemoveAt(writes, i), Tail(que))
    /\ UNCHANGED <<wire, offered, rvars, cvars, sock, cleared>>

(* close(): the writes under way are aborted.                              *)
Close(ws) ==
    /\ sock' = "closed"
    /\ failed' = failed \union {m \in Range(ws) : Pending(m)}

(* handle_write with an error: close and clear_session; the queue is kept. *)
HandleWriteError(i) ==
    /\ writes[i] \in failed
    /\ writes' = RemoveAt(writes, i)
    /\ Close(writes')
    /\ cleared' = TRUE
    /\ UNCHANGED <<que, okd, wire, offered, rvars, cvars>>

------------------------------------------------------------------------------
(* Reading                                                                 *)

Need == (IF rpc = "head" THEN HeadLen ELSE BodyLen) - Len(data)

(* The k-th frame is the one whose units are in data_.                     *)
Current(d) == d[1][1]

(* Mutant: the buffer offered to async_read_some is total_len long however *)
(* much was read before.                                                   *)
ReadSomeTooMuch(n) ==
    /\ rpc # "ended" /\ sock = "open" /\ Need > 0
    /\ n \in 1..(IF rpc = "head" THEN HeadLen ELSE BodyLen) /\ n <= Len(inbox)
    /\ data' = data \o SubSeq(inbox, 1, n)
    /\ inbox' = SubSeq(inbox, n + 1, Len(inbox))
    /\ UNCHANGED <<wvars, rpc, posted, cvars, sock, cleared>>

(* async_read_some into data_ + read_len, total_len - read_len units; with *)
(* less than that async_read_len goes on.                                  *)
ReadSome(n) ==
    /\ rpc # "ended" /\ sock = "open"
    /\ n \in 1..Need /\ n <= Len(inbox)
    /\ data' = data \o SubSeq(inbox, 1, n)
    /\ inbox' = SubSeq(inbox, n + 1, Len(inbox))
    /\ UNCHANGED <<wvars, rpc, posted, cvars, sock, cleared>>

(* The head is complete: a bad one ends the session, without close().      *)
HeadRead ==
    /\ rpc = "head" /\ Need <= 0
    /\ data' = <<>>
    /\ \/ /\ Frames[Current(data)].bad
          /\ rpc' = "ended" /\ cleared' = TRUE
       \/ /\ ~Frames[Current(data)].bad
          /\ rpc' = "body" /\ UNCHANGED cleared
    /\ UNCHANGED <<wvars, inbox, posted, cvars, sock>>

(* The body is complete: post_msg, and the next head.                      *)
BodyRead ==
    /\ rpc = "body" /\ Need <= 0
    /\ posted' = Append(posted, data)
    /\ data' = <<>>
    /\ rpc' = "head"
    /\ UNCHANGED <<wvars, inbox, cvars, sock, cleared>>

(* Mutant: the server is not told about the end.                           *)
ReadErrorSilently ==
    /\ rpc # "ended" /\ Need > 0
    /\ sock = "closed" \/ (inbox = <<>> /\ ~peerOpen)
    /\ rpc' = "ended"
    /\ Close(writes)
    /\ UNCHANGED <<que, writes, okd, wire, offered, data, inbox, posted, cvars, cleared>>

(* A read that fails (end of file, or the socket was closed): close and    *)
(* clear_session.                                                          *)
ReadError ==
    /\ rpc # "ended" /\ Need > 0
    /\ sock = "closed" \/ (inbox = <<>> /\ ~peerOpen)
    /\ rpc' = "ended"
    /\ Close(writes)
    /\ cleared' = TRUE
    /\ UNCHANGED <<que, writes, okd, wire, offered, data, inbox, posted, cvars>>

------------------------------------------------------------------------------
(* The client                                                              *)

ClientSends ==
    /\ peerOpen /\ nsent < Len(Frames)
    /\ nsent' = nsent + 1
    /\ inbox' = inbox \o HeadOf(nsent + 1) \o BodyOf(nsent + 1)
    /\ UNCHANGED <<wvars, rpc, data, posted, peerOpen, sock, cleared>>

ClientCloses ==
    /\ peerOpen
    /\ peerOpen' = FALSE
    /\ UNCHANGED <<wvars, rvars, nsent, sock, cleared>>

WriteStep ==
    \E i \in 1..Len(writes) :
        Transfer(i) \/ FailWrite(i) \/ HandleWrite(i) \/ HandleWriteError(i)

ReadStep == HeadRead \/ BodyRead \/ ReadError \/ \E n \in 1..Len(inbox) : ReadSome(n)

ClientStep == ClientSends \/ ClientCloses

Next == ClientStep \/ ReadStep \/ WriteStep \/ \E m \in Msgs : Send(m)

Spec == Init /\ [][Next]_vars

(* The io thread is scheduled and the client reads, so that a write under  *)
(* way ends one way or the other; nobody has to send.                      *)
Fairness == WF_vars(ReadStep) /\ WF_vars(WriteStep)

FairSpec == Spec /\ Fairness

------------------------------------------------------------------------------
(* Properties                                                              *)

(* send and handle_write keep one async_write under way at most, for the   *)
(* node at the head of send_que_: a second one would mix its bytes with    *)
(* the first one's, or send a node twice.  The queue is idle only when it  *)
(* is empty or a write has failed, and never exceeds the limit by more     *)
(* than the one node the comparison lets through.                          *)
OneWriter ==
    /\ Len(que) <= MaxSendQue + 1
    /\ \/ /\ writes = <<>>
          /\ que # <<>> => sock = "closed"
       \/ /\ que # <<>> /\ Len(writes) = 1
          /\ writes[1] = Head(que)

(* The inductive invariant of the writing side: a write has one result.    *)
WriteInv == WriteTypeOK /\ OneWriter /\ okd \cap failed = {}

(* The nodes reach the client once each and in the order of the calls of   *)
(* send, until a write fails: the session implements FifoContract.         *)
Unwritten == IF writes # <<>> /\ writes[1] \in okd THEN Tail(que) ELSE que

Output == INSTANCE FifoContract WITH Items <- Msgs, todo <- Unwritten, done <- wire

ImplementsOutput == Output!Spec

(* Types; and however the bytes arrive, what logic_system is given are the *)
(* bodies of the client's frames, whole, in order and without a gap.       *)
WholeFrames == TypeOK /\ posted = [k \in 1..Len(posted) |-> BodyOf(k)]

(* What makes it inductive: as long as the session reads, what was posted, *)
(* what is in data_ and what has yet to be read follow each other in the   *)
(* order in which the client sent them.                                    *)
FrameLen == HeadLen + BodyLen
Position(u) == FrameLen * (u[1] - 1) + (IF u[2] = "head" THEN 0 ELSE HeadLen) + u[3]
Before == FrameLen * Len(posted) + (IF rpc = "head" THEN 0 ELSE HeadLen)

InOrder ==
    rpc # "ended" =>
        /\ \A i \in 1..Len(data) : Position(data[i]) = Before + i
        /\ \A i \in 1..Len(inbox) : Position(inbox[i]) = Before + Len(data) + i
        /\ Before + Len(data) + Len(inbox) = FrameLen * nsent

ReadInv == ReadTypeOK /\ posted = [k \in 1..Len(posted) |-> BodyOf(k)] /\ InOrder

(* Every node queued is written, or the session is over; and a client that *)
(* goes away is cleared from the server.                                   *)
SessionEnds ==
    /\ \A m \in Msgs : (\E i \in 1..Len(que) : que[i] = m)
                           ~> (cleared \/ \E i \in 1..Len(wire) : wire[i] = m)
    /\ ~peerOpen ~> cleared
==============================================================================
