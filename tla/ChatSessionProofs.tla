-------------------------- MODULE ChatSessionProofs --------------------------
(***************************************************************************)
(* For any nodes and any limit: csession keeps one async_write under way,  *)
(* its output is delivered once and in order, and what it reads is handed  *)
(* on in whole frames.                                                     *)
(***************************************************************************)
EXTENDS ChatSession, SequenceTheorems, TLAPS

(* At most one write is under way, so the one handled is the only one.     *)
LEMMA OnlyWrite ==
  ASSUME WriteInv, NEW i \in 1..Len(writes)
  PROVE  /\ i = 1 /\ Len(writes) = 1 /\ que # <<>> /\ writes # <<>>
         /\ writes[1] = Head(que)
         /\ RemoveAt(writes, i) = <<>>
<1>1. writes \in Seq(Msgs) /\ que # <<>> /\ Len(writes) = 1 /\ writes[1] = Head(que)
  BY DEF WriteInv, WriteTypeOK, OneWriter
<1>2. i = 1
  BY <1>1
<1>3. SubSeq(writes, 1, 0) = <<>> /\ SubSeq(writes, 2, 1) = <<>>
  BY <1>1
<1> QED
  BY <1>1, <1>2, <1>3 DEF RemoveAt

(* Starting the first write of a queue.                                    *)
LEMMA StartFirst ==
  ASSUME NEW q \in Seq(Msgs), q # <<>>, StartWrite(<<>>, q), WriteInv
  PROVE  /\ writes' = <<Head(q)>> /\ writes' \in Seq(Msgs) /\ writes' # <<>>
         /\ Len(writes') = 1 /\ writes'[1] = Head(q)
         /\ okd' \in SUBSET Msgs /\ failed' \in SUBSET Msgs
         /\ okd' \cap failed' = {}
         /\ Head(q) \notin okd'
<1>1. Head(q) \in Msgs
  OBVIOUS
<1>2. writes' = <<Head(q)>>
  BY DEF StartWrite
<1> QED
  BY <1>1, <1>2 DEF StartWrite, WriteInv, WriteTypeOK

(* Every step keeps one write under way.                                   *)
LEMMA WriteInvStep == WriteInv /\ [Next]_vars => WriteInv'
<1> SUFFICES ASSUME WriteInv, [Next]_vars PROVE WriteInv'
  OBVIOUS
<1>0. /\ que \in Seq(Msgs) /\ writes \in Seq(Msgs) /\ wire \in Seq(Msgs)
      /\ okd \in SUBSET Msgs /\ failed \in SUBSET Msgs /\ offered \in SUBSET Msgs
      /\ cleared \in BOOLEAN /\ sock \in {"open", "closed"}
      /\ okd \cap failed = {} /\ OneWriter /\ MaxSendQue \in Nat
  BY MaxSendQueAssumption DEF WriteInv, WriteTypeOK
<1>1. ASSUME NEW m \in Msgs, Send(m)
      PROVE  WriteInv'
  <2>0. UNCHANGED <<wire, sock, cleared>> /\ offered' \in SUBSET Msgs
    BY <1>0, <1>1 DEF Send
  <2>1. CASE UNCHANGED <<que, writes, okd, failed>>
    BY <1>0, <2>0, <2>1 DEF WriteInv, WriteTypeOK, OneWriter
  <2>2. CASE /\ Len(que) <= MaxSendQue /\ que' = Append(que, m)
             /\ que = <<>> /\ StartWrite(writes, que')
    <3>1. que' = <<m>> /\ que' \in Seq(Msgs) /\ Len(que') = 1 /\ que' # <<>>
      BY <1>0, <2>2
    <3>2. writes = <<>>
      BY <1>0, <2>2 DEF OneWriter
    <3>3. /\ writes' \in Seq(Msgs) /\ Len(writes') = 1 /\ writes'[1] = Head(que')
          /\ okd' \in SUBSET Msgs /\ failed' \in SUBSET Msgs /\ okd' \cap failed' = {}
      BY <2>2, <3>1, <3>2, StartFirst
    <3> QED
      BY <1>0, <2>0, <3>1, <3>3 DEF WriteInv, WriteTypeOK, OneWriter
  <2>3. CASE /\ Len(que) <= MaxSendQue /\ que' = Append(que, m)
             /\ que # <<>> /\ UNCHANGED <<writes, okd, failed>>
    <3>1. /\ que' \in Seq(Msgs) /\ que' # <<>> /\ Len(que') = Len(que) + 1
          /\ Head(que') = Head(que)
      BY <1>0, <2>3
    <3> QED
      BY <1>0, <2>0, <2>3, <3>1 DEF WriteInv, WriteTypeOK, OneWriter
  <2> QED
    BY <1>1, <2>1, <2>2, <2>3 DEF Send
<1>2. ASSUME NEW i \in 1..Len(writes), Transfer(i) \/ FailWrite(i)
      PROVE  WriteInv'
  <2>1. writes[i] \in Msgs
    BY <1>0
  <2>2. /\ okd' \in SUBSET Msgs /\ failed' \in SUBSET Msgs /\ okd' \cap failed' = {}
        /\ wire' \in Seq(Msgs)
    <3>1. CASE Transfer(i)
      <4>1. /\ writes[i] \notin failed
            /\ okd' = okd \union {writes[i]} /\ failed' = failed
            /\ wire' = Append(wire, writes[i])
        BY <3>1 DEF Transfer, Pending
      <4>2. wire' \in Seq(Msgs)
        BY <1>0, <2>1, <4>1
      <4> QED
        BY <1>0, <2>1, <4>1, <4>2
    <3>2. CASE FailWrite(i)
      <4>1. /\ writes[i] \notin okd /\ wire' = wire
            /\ failed' = failed \union {writes[i]} /\ okd' = okd
        BY <3>2 DEF FailWrite, Pending
      <4> QED
        BY <1>0, <2>1, <4>1
    <3> QED
      BY <1>2, <3>1, <3>2
  <2>3. UNCHANGED <<que, writes, offered, sock, cleared>>
    BY <1>2 DEF Transfer, FailWrite
  <2> QED
    BY <1>0, <2>2, <2>3 DEF WriteInv, WriteTypeOK, OneWriter
<1>3. ASSUME NEW i \in 1..Len(writes), HandleWrite(i)
      PROVE  WriteInv'
  <2>1. que # <<>> /\ RemoveAt(writes, i) = <<>>
    BY OnlyWrite
  <2>2. que' = Tail(que) /\ que' \in Seq(Msgs) /\ Len(que') <= MaxSendQue + 1
    BY <1>0, <1>3, <2>1 DEF HandleWrite, OneWriter
  <2>3. UNCHANGED <<wire, offered, sock, cleared>>
    BY <1>3 DEF HandleWrite
  <2>4. CASE Tail(que) = <<>>
    <3>1. writes' = <<>> /\ UNCHANGED <<okd, failed>>
      BY <1>3, <2>1, <2>4 DEF HandleWrite
    <3>2. que' = <<>>
      BY <2>2, <2>4
    <3> QED
      BY <1>0, <2>2, <2>3, <3>1, <3>2 DEF WriteInv, WriteTypeOK, OneWriter
  <2>5. CASE Tail(que) # <<>>
    <3>1. StartWrite(<<>>, que') /\ que' # <<>>
      BY <1>3, <2>1, <2>2, <2>5 DEF HandleWrite
    <3>2. /\ writes' \in Seq(Msgs) /\ Len(writes') = 1 /\ writes'[1] = Head(que')
          /\ okd' \in SUBSET Msgs /\ failed' \in SUBSET Msgs /\ okd' \cap failed' = {}
      BY <2>2, <3>1, StartFirst
    <3> QED
      BY <1>0, <2>2, <2>3, <3>1, <3>2 DEF WriteInv, WriteTypeOK, OneWriter
  <2> QED
    BY <2>4, <2>5
<1>4. ASSUME NEW ws \in Seq(Msgs), Close(ws)
      PROVE  /\ failed' \in SUBSET Msgs /\ okd \cap failed' = {} /\ sock' = "closed"
  <2>1. Range(ws) \subseteq Msgs
    BY DEF Range
  <2> QED
    BY <1>0, <1>4, <2>1 DEF Close, Pending
<1>5. ASSUME NEW i \in 1..Len(writes), HandleWriteError(i)
      PROVE  WriteInv'
  <2>1. writes' = <<>> /\ Close(writes')
    BY <1>5, OnlyWrite DEF HandleWriteError
  <2>2. writes' \in Seq(Msgs)
    BY <2>1
  <2>3. failed' \in SUBSET Msgs /\ okd \cap failed' = {} /\ sock' = "closed"
    BY <1>4, <2>1, <2>2
  <2>4. UNCHANGED <<que, okd, wire, offered>> /\ cleared' = TRUE
    BY <1>5 DEF HandleWriteError
  <2> QED
    BY <1>0, <2>1, <2>2, <2>3, <2>4 DEF WriteInv, WriteTypeOK, OneWriter
<1>6. CASE ReadError
  <2>1. UNCHANGED <<que, writes, okd, wire, offered>> /\ Close(writes) /\ cleared' = TRUE
    BY <1>6 DEF ReadError
  <2>2. failed' \in SUBSET Msgs /\ okd \cap failed' = {} /\ sock' = "closed"
    BY <1>0, <1>4, <2>1
  <2> QED
    BY <1>0, <2>1, <2>2 DEF WriteInv, WriteTypeOK, OneWriter
<1>7. CASE UNCHANGED wvars /\ sock' = sock /\ (cleared' = cleared \/ cleared' = TRUE)
  <2>1. cleared' \in BOOLEAN
    BY <1>0, <1>7, Zenon
  <2>2. UNCHANGED <<que, writes, okd, failed, wire, offered, sock>>
    BY <1>7 DEF wvars
  <2> QED
    BY <1>0, <2>1, <2>2 DEF WriteInv, WriteTypeOK, OneWriter
<1>8. ASSUME HeadRead \/ BodyRead \/ ClientStep \/ (\E n \in 1..Len(inbox) : ReadSome(n))
             \/ UNCHANGED vars
      PROVE  UNCHANGED wvars /\ sock' = sock /\ (cleared' = cleared \/ cleared' = TRUE)
  BY <1>8, Zenon DEF HeadRead, BodyRead, ClientStep, ClientSends, ClientCloses, ReadSome,
              vars
<1> QED
  BY <1>1, <1>2, <1>3, <1>5, <1>6, <1>7, <1>8 DEF Next, ReadStep, WriteStep

(* csession keeps at most one async_write under way, for the head of       *)
(* send_que_, and the queue within its limit and one.                      *)
THEOREM SingleWrite == Spec => []WriteInv
<1>1. Init => WriteInv
  <2> SUFFICES ASSUME Init PROVE WriteInv
    OBVIOUS
  <2>1. cleared \in BOOLEAN
    BY Zenon DEF Init
  <2> QED
    BY <2>1, MaxSendQueAssumption DEF Init, WriteInv, WriteTypeOK, OneWriter
<1> QED
  BY <1>1, WriteInvStep, PTL DEF Spec

(* The same without the types: what the code owes its callers.             *)
THEOREM NeverTwoWrites == Spec => []OneWriter
<1>1. WriteInv => OneWriter
  BY DEF WriteInv
<1> QED
  BY <1>1, SingleWrite, PTL

------------------------------------------------------------------------------
(* Every step of the session is a step of the contract or leaves it alone. *)
LEMMA OutputStep == WriteInv /\ [Next]_vars => [Output!Next]_(Output!cvars)
<1> SUFFICES ASSUME WriteInv, [Next]_vars
             PROVE  [Output!Next]_(Output!cvars)
  OBVIOUS
<1>0. /\ que \in Seq(Msgs) /\ writes \in Seq(Msgs) /\ okd \cap failed = {} /\ OneWriter
  BY DEF WriteInv, WriteTypeOK
<1>1. ASSUME NEW m \in Msgs, Send(m)
      PROVE  [Output!Next]_(Output!cvars)
  <2>0. wire' = wire
    BY <1>1 DEF Send
  <2>1. CASE UNCHANGED <<que, writes, okd, failed>>
    BY <2>0, <2>1 DEF Unwritten, Output!cvars
  <2>2. CASE /\ que' = Append(que, m) /\ que = <<>> /\ StartWrite(writes, que')
    <3>1. writes = <<>> /\ que' = <<m>> /\ que' \in Seq(Msgs) /\ que' # <<>>
      BY <1>0, <2>2 DEF OneWriter
    <3>2. writes'[1] \notin okd'
      BY <2>2, <3>1, StartFirst
    <3>3. Unwritten = <<>> /\ Unwritten' = Append(<<>>, m)
      BY <2>2, <3>1, <3>2 DEF Unwritten
    <3>4. Output!Submit(m)
      BY <2>0, <3>3 DEF Output!Submit
    <3> QED
      BY <3>4 DEF Output!Next
  <2>3. CASE que' = Append(que, m) /\ que # <<>> /\ UNCHANGED <<writes, okd, failed>>
    <3>1. Tail(Append(que, m)) = Append(Tail(que), m)
      BY <1>0, <2>3
    <3>2. Unwritten' = Append(Unwritten, m)
      BY <2>3, <3>1 DEF Unwritten
    <3>3. Output!Submit(m)
      BY <2>0, <3>2 DEF Output!Submit
    <3> QED
      BY <3>3 DEF Output!Next
  <2> QED
    BY <1>1, <2>1, <2>2, <2>3 DEF Send
<1>2. ASSUME NEW i \in 1..Len(writes), Transfer(i)
      PROVE  [Output!Next]_(Output!cvars)
  <2>1. i = 1 /\ writes # <<>> /\ que # <<>> /\ writes[1] = Head(que)
    BY OnlyWrite
  <2>2. /\ writes[1] \notin okd /\ writes'[1] \in okd' /\ writes' # <<>>
        /\ que' = que /\ wire' = Append(wire, Head(que))
    BY <1>2, <2>1 DEF Transfer, Pending
  <2>3. Unwritten = que /\ Unwritten' = Tail(que)
    BY <2>2 DEF Unwritten
  <2>4. Output!Finish
    BY <2>1, <2>2, <2>3 DEF Output!Finish
  <2> QED
    BY <2>4 DEF Output!Next
<1>3. ASSUME NEW i \in 1..Len(writes), HandleWrite(i)
      PROVE  [Output!Next]_(Output!cvars)
  <2>1. i = 1 /\ writes # <<>> /\ que # <<>> /\ RemoveAt(writes, i) = <<>>
    BY OnlyWrite
  <2>2. Unwritten = Tail(que) /\ que' = Tail(que) /\ wire' = wire
    BY <1>3, <2>1 DEF HandleWrite, Unwritten
  <2>3. CASE Tail(que) = <<>>
    <3>1. writes' = <<>>
      BY <1>3, <2>1, <2>3 DEF HandleWrite
    <3> QED
      BY <2>2, <3>1 DEF Unwritten, Output!cvars
  <2>4. CASE Tail(que) # <<>>
    <3>1. StartWrite(<<>>, Tail(que)) /\ Tail(que) \in Seq(Msgs)
      BY <1>0, <1>3, <2>1, <2>4 DEF HandleWrite
    <3>2. writes'[1] \notin okd'
      BY <2>4, <3>1, StartFirst
    <3> QED
      BY <2>2, <3>2 DEF Unwritten, Output!cvars
  <2> QED
    BY <2>3, <2>4
<1>4. ASSUME NEW i \in 1..Len(writes), HandleWriteError(i)
      PROVE  [Output!Next]_(Output!cvars)
  <2>1. i = 1 /\ RemoveAt(writes, i) = <<>> /\ writes[1] \in failed
    BY <1>4, OnlyWrite DEF HandleWriteError
  <2>2. writes[1] \notin okd
    BY <1>0, <2>1
  <2>3. writes' = <<>> /\ que' = que /\ wire' = wire
    BY <1>4, <2>1 DEF HandleWriteError
  <2> QED
    BY <2>2, <2>3 DEF Unwritten, Output!cvars
<1>5. ASSUME \/ ReadError \/ HeadRead \/ BodyRead \/ ClientStep \/ UNCHANGED vars
             \/ \E n \in 1..Len(inbox) : ReadSome(n)
             \/ \E i \in 1..Len(writes) : FailWrite(i)
      PROVE  UNCHANGED <<que, writes, okd, wire>>
  BY <1>5, Zenon DEF ReadError, HeadRead, BodyRead, ClientStep, ClientSends, ClientCloses,
              ReadSome, FailWrite, vars, wvars
<1>6. CASE UNCHANGED <<que, writes, okd, wire>>
  BY <1>6 DEF Unwritten, Output!cvars
<1> QED
  BY <1>1, <1>2, <1>3, <1>4, <1>5, <1>6 DEF Next, ReadStep, WriteStep

(* The nodes given to send are transferred once each, in the order of the  *)
(* calls: the session implements FifoContract, for any nodes and limit.    *)
THEOREM OutputInOrder == Spec => ImplementsOutput
<1>1. Init => Output!Init
  BY DEF Init, Output!Init, Unwritten
<1> QED
  BY <1>1, OutputStep, SingleWrite, PTL DEF Spec, ImplementsOutput, Output!Spec
------------------------------------------------------------------------------
(* The place of a unit in the client's stream says which unit it is.       *)
LEMMA UnitAt ==
  ASSUME NEW u \in Unit
  PROVE  /\ u[1] \in 1..Len(Frames) /\ u[2] \in {"head", "body"} /\ u[3] \in {1, 2}
         /\ u = <<u[1], u[2], u[3]>> /\ Position(u) \in Nat
         /\ \A p \in Nat : \A j \in {1, 2} :
               Position(u) = FrameLen * p + HeadLen + j => u = <<p + 1, "body", j>>
<1>1. /\ u[1] \in 1..Len(Frames) /\ u[2] \in {"head", "body"} /\ u[3] \in {1, 2}
      /\ u = <<u[1], u[2], u[3]>>
  BY DEF Unit
<1>2. Len(Frames) \in Nat
  BY FramesAssumption
<1>3. Position(u) = 4 * (u[1] - 1) + (IF u[2] = "head" THEN 0 ELSE 2) + u[3]
  BY DEF Position, FrameLen, HeadLen, BodyLen
<1>4. ASSUME NEW p \in Nat, NEW j \in {1, 2}, Position(u) = FrameLen * p + HeadLen + j
      PROVE  u[1] = p + 1 /\ u[2] = "body" /\ u[3] = j
  <2>1. Position(u) = 4 * p + 2 + j
    BY <1>4 DEF FrameLen, HeadLen, BodyLen
  <2> QED
    BY <1>1, <1>2, <1>3, <2>1
<1> QED
  BY <1>1, <1>2, <1>3, <1>4

(* A whole body in data_ is the body of the next frame.                    *)
LEMMA BodyWhole ==
  ASSUME ReadInv, rpc = "body", Len(data) = BodyLen
  PROVE  data = BodyOf(Len(posted) + 1)
<1>1. data \in Seq(Unit) /\ Len(data) = 2 /\ Len(posted) \in Nat
  BY DEF ReadInv, ReadTypeOK, BodyLen
<1>2. /\ data[1] \in Unit /\ Position(data[1]) = FrameLen * Len(posted) + HeadLen + 1
      /\ data[2] \in Unit /\ Position(data[2]) = FrameLen * Len(posted) + HeadLen + 2
  BY <1>1 DEF ReadInv, InOrder, Before
<1>3. data[1] = <<Len(posted) + 1, "body", 1>> /\ data[2] = <<Len(posted) + 1, "body", 2>>
  BY <1>1, <1>2, UnitAt
<1>4. data = <<data[1], data[2]>>
  BY <1>1
<1> QED
  BY <1>3, <1>4 DEF BodyOf

(* Every step keeps the parts of the client's stream in order.             *)
LEMMA ReadInvStep == ReadInv /\ [Next]_vars => ReadInv'
<1> SUFFICES ASSUME ReadInv, [Next]_vars PROVE ReadInv'
  OBVIOUS
<1>0. /\ rpc \in {"head", "body", "ended"} /\ data \in Seq(Unit) /\ inbox \in Seq(Unit)
      /\ Len(data) <= 2 /\ nsent \in 0..Len(Frames) /\ posted \in Seq(Seq(Unit))
      /\ Before = 4 * Len(posted) + (IF rpc = "head" THEN 0 ELSE 2)
  BY DEF ReadInv, ReadTypeOK, Before, FrameLen, HeadLen, BodyLen
<1>n. /\ Len(data) \in Nat /\ Len(inbox) \in Nat /\ Len(posted) \in Nat /\ Len(Frames) \in Nat
      /\ nsent \in Nat /\ Before \in Nat /\ Len(data) <= 2
  <2>1. Len(data) \in Nat /\ Len(inbox) \in Nat /\ Len(posted) \in Nat /\ Len(Frames) \in Nat
    BY <1>0, FramesAssumption, LenProperties
  <2> QED
    BY <1>0, <2>1
<1>o. rpc # "ended" =>
        /\ \A i \in 1..Len(data) : Position(data[i]) = Before + i
        /\ \A i \in 1..Len(inbox) : Position(inbox[i]) = Before + Len(data) + i
        /\ Before + Len(data) + Len(inbox) = 4 * nsent
  BY DEF ReadInv, InOrder, FrameLen, HeadLen, BodyLen
<1>w. posted = [k \in 1..Len(posted) |-> BodyOf(k)]
  BY DEF ReadInv
<1>p. peerOpen' \in BOOLEAN
  <2>1. peerOpen \in BOOLEAN
    BY DEF ReadInv, ReadTypeOK
  <2>2. UNCHANGED peerOpen \/ peerOpen' = FALSE
    BY DEF Next, ClientStep, ReadStep, WriteStep, ClientSends, ClientCloses, HeadRead, BodyRead,
           ReadError, ReadSome, Transfer, FailWrite, HandleWrite, HandleWriteError, Send,
           vars, cvars
  <2> QED
    BY <2>1, <2>2, Zenon
<1>a. ASSUME UNCHANGED <<rvars, nsent>> PROVE ReadInv'
  <2>1. UNCHANGED <<rpc, data, inbox, posted, nsent>>
    BY <1>a DEF rvars
  <2>2. ReadTypeOK'
    BY <1>p, <2>1, Zenon DEF ReadInv, ReadTypeOK
  <2> QED
    BY <2>1, <2>2 DEF ReadInv, InOrder, Before
<1>b. ASSUME rpc' \in {"head", "body", "ended"}, data' \in Seq(Unit), inbox' \in Seq(Unit),
             Len(data') <= 2, nsent' \in 0..Len(Frames), posted' \in Seq(Seq(Unit)),
             posted' = [k \in 1..Len(posted') |-> BodyOf(k)],
             rpc' # "ended" =>
                 /\ \A i \in 1..Len(data') : Position(data'[i]) = Before' + i
                 /\ \A i \in 1..Len(inbox') : Position(inbox'[i]) = Before' + Len(data') + i
                 /\ Before' + Len(data') + Len(inbox') = 4 * nsent'
      PROVE  ReadInv'
  <2>1. ReadTypeOK'
    BY <1>p, <1>b DEF ReadTypeOK, HeadLen, BodyLen
  <2> QED
    BY <1>b, <2>1 DEF ReadInv, InOrder, FrameLen, HeadLen, BodyLen
<1>1. ASSUME ClientSends PROVE ReadInv'
  <2> DEFINE k == nsent + 1
             f == HeadOf(k) \o BodyOf(k)
  <2>1. /\ k \in 1..Len(Frames) /\ nsent' = k /\ UNCHANGED <<rpc, data, posted>>
        /\ inbox' = (inbox \o HeadOf(k)) \o BodyOf(k)
    BY <1>0, <1>n, <1>1 DEF ClientSends
  <2>2. HeadOf(k) \in Seq(Unit) /\ BodyOf(k) \in Seq(Unit)
    BY <2>1 DEF HeadOf, BodyOf, Unit
  <2>3. f \in Seq(Unit) /\ Len(f) = 4
        /\ f[1] = <<k, "head", 1>> /\ f[2] = <<k, "head", 2>>
        /\ f[3] = <<k, "body", 1>> /\ f[4] = <<k, "body", 2>>
    BY <2>1, <2>2 DEF HeadOf, BodyOf
  <2>4. inbox' = inbox \o f
    <3>1. (inbox \o HeadOf(k)) \o BodyOf(k) = inbox \o (HeadOf(k) \o BodyOf(k))
      BY <1>0, <2>2, ConcatAssociative
    <3> QED
      BY <2>1, <3>1
  <2> HIDE DEF f
  <2>5. \A i \in 1..4 : Position(f[i]) = 4 * nsent + i
    <3>1. \A j \in {1, 2} : /\ Position(<<k, "head", j>>) = 4 * nsent + j
                            /\ Position(<<k, "body", j>>) = 4 * nsent + 2 + j
      BY <1>n DEF Position, FrameLen, HeadLen, BodyLen
    <3>2. \A i \in 1..4 : i = 1 \/ i = 2 \/ i = 3 \/ i = 4
      OBVIOUS
    <3> QED
      <4>1. Position(f[1]) = 4 * nsent + 1 /\ Position(f[2]) = 4 * nsent + 2
        BY <2>3, <3>1
      <4>2. Position(f[3]) = 4 * nsent + 2 + 1 /\ Position(f[4]) = 4 * nsent + 2 + 2
        BY <2>3, <3>1
      <4> QED
        BY <1>n, <3>2, <4>1, <4>2
  <2>6. /\ inbox' \in Seq(Unit) /\ Len(inbox') = Len(inbox) + 4
        /\ \A i \in 1..Len(inbox') : inbox'[i] = IF i <= Len(inbox) THEN inbox[i] ELSE f[i - Len(inbox)]
    <3>1. /\ inbox \o f \in Seq(Unit) /\ Len(inbox \o f) = Len(inbox) + Len(f)
          /\ \A i \in 1..Len(inbox) + Len(f) :
                (inbox \o f)[i] = IF i <= Len(inbox) THEN inbox[i] ELSE f[i - Len(inbox)]
      BY <1>0, <2>3, ConcatProperties
    <3> QED
      BY <2>3, <2>4, <3>1
  <2>7. Before' = Before
    BY <2>1 DEF Before
  <2>8. ASSUME rpc' # "ended", NEW i \in 1..Len(inbox')
        PROVE  Position(inbox'[i]) = Before' + Len(data') + i
    <3>1. CASE i <= Len(inbox)
      BY <1>n, <1>o, <2>1, <2>6, <2>7, <2>8, <3>1
    <3>2. CASE i > Len(inbox)
      <4>1. i - Len(inbox) \in 1..4
        BY <1>n, <2>6, <3>2
      <4>2. Position(inbox'[i]) = 4 * nsent + (i - Len(inbox))
        <5>1. inbox'[i] = f[i - Len(inbox)]
          BY <1>n, <2>6, <3>2
        <5> QED
          BY <2>5, <4>1, <5>1
      <4>3. Before + Len(data) + Len(inbox) = 4 * nsent /\ UNCHANGED data
        BY <1>o, <2>1, <2>8
      <4>4. i \in Int
        BY <2>6
      <4> QED
        BY <1>n, <2>7, <4>2, <4>3, <4>4
    <3> QED
      BY <1>n, <3>1, <3>2
  <2>9. rpc' # "ended" =>
            /\ \A i \in 1..Len(data') : Position(data'[i]) = Before' + i
            /\ Before' + Len(data') + Len(inbox') = 4 * nsent'
    <3>1. rpc' = rpc /\ data' = data /\ nsent' = nsent + 1 /\ Len(inbox') = Len(inbox) + 4
      BY <2>1, <2>6
    <3>2. rpc # "ended" =>
            /\ \A i \in 1..Len(data) : Position(data[i]) = Before + i
            /\ Before + Len(data) + (Len(inbox) + 4) = 4 * (nsent + 1)
      <4>1. \A a, b, c, d \in Nat : a + b + c = 4 * d => a + b + (c + 4) = 4 * (d + 1)
        OBVIOUS
      <4>2. rpc # "ended" => Before + Len(data) + Len(inbox) = 4 * nsent
        BY <1>o
      <4>3. rpc # "ended" => Before + Len(data) + (Len(inbox) + 4) = 4 * (nsent + 1)
        BY <1>n, <4>1, <4>2
      <4> QED
        BY <1>o, <4>3
    <3> QED
      BY <2>7, <3>1, <3>2
  <2>10. Len(data') <= 2 /\ nsent' \in 0..Len(Frames)
    BY <1>0, <1>n, <2>1
  <2> QED
    BY <1>0, <1>w, <1>b, <2>1, <2>6, <2>8, <2>9, <2>10
<1>2. ASSUME ClientCloses PROVE ReadInv'
  BY <1>a, <1>2 DEF ClientCloses
<1>3. ASSUME NEW n \in 1..Len(inbox), ReadSome(n) PROVE ReadInv'
  <2>1. /\ rpc # "ended" /\ n \in Nat /\ n >= 1 /\ n <= 2 - Len(data) /\ n <= Len(inbox)
        /\ data' = data \o SubSeq(inbox, 1, n)
        /\ inbox' = SubSeq(inbox, n + 1, Len(inbox))
        /\ UNCHANGED <<rpc, posted, nsent>>
    BY <1>n, <1>3 DEF ReadSome, Need, HeadLen, BodyLen, cvars
  <2>2. /\ SubSeq(inbox, 1, n) \in Seq(Unit) /\ Len(SubSeq(inbox, 1, n)) = n
        /\ \A i \in 1..n : SubSeq(inbox, 1, n)[i] = inbox[i]
    BY <1>0, <1>n, <2>1, SubSeqProperties
  <2>3. /\ data' \in Seq(Unit) /\ Len(data') = Len(data) + n
        /\ \A i \in 1..Len(data') : data'[i] = IF i <= Len(data) THEN data[i] ELSE inbox[i - Len(data)]
    <3>1. /\ data' \in Seq(Unit) /\ Len(data') = Len(data) + n
          /\ \A i \in 1..Len(data') :
               data'[i] = IF i <= Len(data) THEN data[i] ELSE SubSeq(inbox, 1, n)[i - Len(data)]
      BY <1>0, <2>1, <2>2, ConcatProperties
    <3> QED
      BY <1>n, <2>1, <2>2, <3>1
  <2>4. /\ inbox' \in Seq(Unit) /\ Len(inbox') = Len(inbox) - n
        /\ \A i \in 1..Len(inbox') : inbox'[i] = inbox[n + i] /\ n + i \in 1..Len(inbox)
    <3>1. /\ inbox' \in Seq(Unit)
          /\ Len(inbox') = IF n + 1 <= Len(inbox) THEN Len(inbox) - (n + 1) + 1 ELSE 0
          /\ \A i \in 1..(Len(inbox) - (n + 1) + 1) : inbox'[i] = inbox[n + 1 + i - 1]
      BY <1>0, <1>n, <2>1, SubSeqProperties
    <3> QED
      BY <1>n, <2>1, <3>1
  <2>5. Before' = Before
    BY <2>1 DEF Before
  <2>6. ASSUME NEW i \in 1..Len(data') PROVE Position(data'[i]) = Before' + i
    <3>1. CASE i <= Len(data)
      BY <1>n, <1>o, <2>1, <2>3, <2>5, <3>1
    <3>2. CASE i > Len(data)
      <4>1. data'[i] = inbox[i - Len(data)] /\ i - Len(data) \in 1..Len(inbox)
        BY <1>n, <2>1, <2>3, <3>2
      <4>2. Position(inbox[i - Len(data)]) = Before + Len(data) + (i - Len(data))
        BY <1>o, <2>1, <4>1
      <4>3. i \in Int
        OBVIOUS
      <4> QED
        BY <1>n, <2>5, <4>1, <4>2, <4>3
    <3> QED
      BY <1>n, <3>1, <3>2
  <2>7. ASSUME NEW i \in 1..Len(inbox') PROVE Position(inbox'[i]) = Before' + Len(data') + i
    BY <1>n, <1>o, <2>1, <2>3, <2>4, <2>5
  <2>8. Before' + Len(data') + Len(inbox') = 4 * nsent' /\ Len(data') <= 2
    <3>1. Before + Len(data) + Len(inbox) = 4 * nsent /\ UNCHANGED nsent
      BY <1>o, <2>1
    <3>2. n \in Nat /\ n <= 2 - Len(data) /\ Len(data') = Len(data) + n /\ Len(inbox') = Len(inbox) - n
      BY <2>1, <2>3, <2>4
    <3> QED
      BY <1>n, <2>5, <3>1, <3>2
  <2> QED
    BY <1>0, <1>w, <1>b, <2>1, <2>3, <2>4, <2>6, <2>7, <2>8
<1>4. ASSUME HeadRead PROVE ReadInv'
  <2>1. /\ rpc = "head" /\ Len(data) = 2 /\ data' = <<>> /\ rpc' \in {"body", "ended"}
        /\ UNCHANGED <<inbox, posted, nsent>>
    <3>1. rpc = "head" /\ HeadLen - Len(data) <= 0
      BY <1>4 DEF HeadRead, Need
    <3>2. Len(data) = 2
      <4>1. \A x \in Nat : x <= 2 /\ 2 - x <= 0 => x = 2
        OBVIOUS
      <4> QED
        BY <1>n, <3>1, <4>1, Zenon DEF HeadLen
    <3> QED
      BY <1>4, <3>2 DEF HeadRead, cvars
  <2>2. Len(data') = 0
    BY <2>1
  <2>3. rpc' # "ended" => Before' = Before + 2
    BY <1>n, <2>1 DEF Before, FrameLen, HeadLen, BodyLen
  <2>4. data' \in Seq(Unit)
    BY <2>1
  <2>5. ASSUME rpc' # "ended", NEW i \in 1..Len(inbox')
        PROVE  Position(inbox'[i]) = Before' + Len(data') + i
    BY <1>n, <1>o, <2>1, <2>2, <2>3, <2>5
  <2>6. rpc' # "ended" => Before' + Len(data') + Len(inbox') = 4 * nsent'
    BY <1>n, <1>o, <2>1, <2>2, <2>3
  <2> QED
    BY <1>0, <1>w, <1>b, <2>1, <2>2, <2>4, <2>5, <2>6
<1>5. ASSUME BodyRead PROVE ReadInv'
  <2>1. /\ rpc = "body" /\ Len(data) = 2 /\ data' = <<>> /\ rpc' = "head"
        /\ posted' = Append(posted, data) /\ UNCHANGED <<inbox, nsent>>
    <3>1. rpc = "body" /\ BodyLen - Len(data) <= 0
      BY <1>5 DEF BodyRead, Need
    <3>2. Len(data) = 2
      <4>1. \A x \in Nat : x <= 2 /\ 2 - x <= 0 => x = 2
        OBVIOUS
      <4> QED
        BY <1>n, <3>1, <4>1, Zenon DEF BodyLen
    <3> QED
      BY <1>5, <3>1, <3>2 DEF BodyRead, cvars
  <2>2. data = BodyOf(Len(posted) + 1)
    BY <2>1, BodyWhole DEF BodyLen
  <2>3. /\ posted' \in Seq(Seq(Unit)) /\ Len(posted') = Len(posted) + 1
        /\ \A k \in 1..Len(posted) : posted'[k] = posted[k]
        /\ posted'[Len(posted) + 1] = data
    BY <1>0, <2>1, AppendProperties
  <2>4. \A k \in 1..Len(posted) : posted[k] = BodyOf(k)
    BY <1>w
  <2>5. \A k \in 1..Len(posted') : posted'[k] = BodyOf(k)
    <3> SUFFICES ASSUME NEW k \in 1..Len(posted') PROVE posted'[k] = BodyOf(k)
      OBVIOUS
    <3>1. k \in 1..Len(posted) \/ k = Len(posted) + 1
      BY <1>n, <2>3
    <3> QED
      BY <2>2, <2>3, <2>4, <3>1
  <2>6. posted' = [k \in 1..Len(posted') |-> BodyOf(k)]
    <3>1. posted' = [k \in 1..Len(posted') |-> posted'[k]]
      BY <2>3, LenProperties
    <3> QED
      BY <2>5, <3>1
  <2>7. Before' = Before + 2 /\ Len(data') = 0 /\ data' \in Seq(Unit)
    BY <1>n, <2>1, <2>3 DEF Before, FrameLen, HeadLen, BodyLen
  <2>8. ASSUME NEW i \in 1..Len(inbox')
        PROVE  Position(inbox'[i]) = Before' + Len(data') + i
    BY <1>n, <1>o, <2>1, <2>7
  <2>9. Before' + Len(data') + Len(inbox') = 4 * nsent'
    BY <1>n, <1>o, <2>1, <2>7
  <2> QED
    BY <1>0, <1>b, <2>1, <2>3, <2>6, <2>7, <2>8, <2>9
<1>6. ASSUME ReadError PROVE ReadInv'
  <2>1. rpc' = "ended" /\ UNCHANGED <<data, inbox, posted, nsent>>
    BY <1>6 DEF ReadError, cvars
  <2> QED
    BY <1>0, <1>w, <1>b, <2>1
<1>7. ASSUME WriteStep \/ \E m \in Msgs : Send(m) PROVE ReadInv'
  <2>1. UNCHANGED <<rvars, nsent>>
    BY <1>7 DEF WriteStep, Transfer, FailWrite, HandleWrite, HandleWriteError, Send, rvars, cvars
  <2> QED
    BY <1>a, <2>1
<1>8. CASE UNCHANGED vars
  BY <1>a, <1>8 DEF vars, cvars
<1> QED
  BY <1>1, <1>2, <1>3, <1>4, <1>5, <1>6, <1>7, <1>8 DEF Next, ClientStep, ReadStep

(* For any frames and however the reads cut them: logic_system is given    *)
(* the bodies of the client's frames, whole, in order and without a gap,   *)
(* and data_ is never read past the part that it is for.                   *)
THEOREM FramesWhole == Spec => []WholeFrames
<1>1. Init => ReadInv
  <2> SUFFICES ASSUME Init PROVE ReadInv
    OBVIOUS
  <2>1. peerOpen \in BOOLEAN
    BY Zenon DEF Init
  <2>2. ReadTypeOK
    BY <2>1, FramesAssumption DEF Init, ReadTypeOK, HeadLen
  <2>3. posted = <<>> /\ data = <<>> /\ inbox = <<>> /\ nsent = 0 /\ rpc = "head"
    BY DEF Init
  <2>4. posted = [k \in 1..Len(posted) |-> BodyOf(k)]
    BY <2>3
  <2>5. InOrder
    BY <2>3 DEF InOrder, Before, FrameLen, HeadLen, BodyLen
  <2> QED
    BY <2>2, <2>4, <2>5 DEF ReadInv
<1>2. ReadInv /\ WriteInv => WholeFrames
  BY DEF ReadInv, WriteInv, WholeFrames, TypeOK
<1> QED
  BY <1>1, <1>2, ReadInvStep, SingleWrite, PTL DEF Spec

=============================================================================
