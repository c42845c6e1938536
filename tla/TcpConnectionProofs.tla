------------------------ MODULE TcpConnectionProofs ------------------------
(***************************************************************************)
(* Proofs about a connection of mmuduo: its bytes stay in order, its       *)
(* channel agrees with the poller, and its end is reported once.           *)
(*                                                                         *)
(* The functions of the code are operators on the connection's record, so  *)
(* the proof has a lemma for each of them: what it leaves behind satisfies *)
(* the invariant ConnInv, and its functors queue only grows.  The actions  *)
(* are compositions of these functions.                                    *)
(***************************************************************************)
EXTENDS TcpConnection, SequenceTheorems, TLAPS

(* The fields of a connection by who is concerned with them.               *)
SamePoller(c, d) ==
    /\ d.events = c.events /\ d.idx = c.idx /\ d.mapped = c.mapped
    /\ d.inEpoll = c.inEpoll /\ d.mask = c.mask /\ d.fatal = c.fatal
SameStream(c, d) ==
    /\ d.obuf = c.obuf /\ d.sent = c.sent /\ d.wire = c.wire /\ d.faulted = c.faulted
    /\ d.wrShut = c.wrShut /\ d.peer = c.peer
SameLife(c, d) ==
    /\ d.raced = c.raced /\ d.ups = c.ups /\ d.downs = c.downs
    /\ d.mainq = c.mainq /\ d.inMap = c.inMap /\ d.gone = c.gone

------------------------------------------------------------------------------
(* epoll_poller and channel                                                *)

(* epoll_ctl.                                                              *)
LEMMA EpollAdd ==
    ASSUME NEW c \in Conn
    PROVE  LET d == EpollCtl(c, "ADD") IN
           /\ d \in Conn
           /\ SameStream(c, d) /\ SameLife(c, d) /\ d.state = c.state /\ d.ioq = c.ioq
           /\ d.events = c.events /\ d.mapped = c.mapped /\ d.idx = c.idx
           /\ (d.fatal <=> c.fatal \/ c.inEpoll) /\ d.inEpoll = TRUE /\ d.mask = c.events
<1> DEFINE f == c.fatal \/ c.inEpoll
           d == EpollCtl(c, "ADD")
<1>0. f \in BOOLEAN /\ c.events \in SUBSET {"r", "w"}
  BY DEF Conn
<1>1. d = [[[c EXCEPT !.fatal = f] EXCEPT !.inEpoll = TRUE] EXCEPT !.mask = c.events]
  BY DEF EpollCtl
<1> HIDE DEF d, f
<1>2. d \in Conn
  BY <1>0, <1>1, ZenonT(40) DEF Conn
<1>3. SameStream(c, d) /\ SameLife(c, d) /\ d.state = c.state /\ d.ioq = c.ioq
  BY <1>1 DEF Conn, SameStream, SameLife
<1>4. /\ d.events = c.events /\ d.mapped = c.mapped /\ d.idx = c.idx
      /\ d.fatal = f /\ d.inEpoll = TRUE /\ d.mask = c.events
  BY <1>1 DEF Conn
<1> QED BY <1>2, <1>3, <1>4 DEF d, f

(* EPOLL_CTL_MOD, what it sets and what it keeps.                          *)
LEMMA EpollMod ==
    ASSUME NEW c \in Conn
    PROVE  LET d == EpollCtl(c, "MOD") IN
           /\ d \in Conn
           /\ SameStream(c, d) /\ SameLife(c, d) /\ d.state = c.state /\ d.ioq = c.ioq
           /\ d.events = c.events /\ d.mapped = c.mapped /\ d.idx = c.idx
           /\ (d.fatal <=> c.fatal \/ ~c.inEpoll) /\ d.inEpoll = c.inEpoll /\ d.mask = c.events
<1> DEFINE f == c.fatal \/ ~c.inEpoll
           d == EpollCtl(c, "MOD")
<1>0. f \in BOOLEAN /\ c.events \in SUBSET {"r", "w"}
  BY DEF Conn
<1>1. d = [[c EXCEPT !.fatal = f] EXCEPT !.mask = c.events]
  BY DEF EpollCtl
<1> HIDE DEF d, f
<1>2. d \in Conn
  BY <1>0, <1>1, ZenonT(40) DEF Conn
<1>3. SameStream(c, d) /\ SameLife(c, d) /\ d.state = c.state /\ d.ioq = c.ioq
  BY <1>1 DEF Conn, SameStream, SameLife
<1>4. /\ d.events = c.events /\ d.mapped = c.mapped /\ d.idx = c.idx
      /\ d.fatal = f /\ d.inEpoll = c.inEpoll /\ d.mask = c.events
  BY <1>1 DEF Conn
<1> QED BY <1>2, <1>3, <1>4 DEF d, f

(* EPOLL_CTL_DEL, likewise.                                                *)
LEMMA EpollDel ==
    ASSUME NEW c \in Conn
    PROVE  LET d == EpollCtl(c, "DEL") IN
           /\ d \in Conn
           /\ SameStream(c, d) /\ SameLife(c, d) /\ d.state = c.state /\ d.ioq = c.ioq
           /\ d.events = c.events /\ d.mapped = c.mapped /\ d.idx = c.idx
           /\ d.fatal = c.fatal /\ d.inEpoll = FALSE
<1> DEFINE d == EpollCtl(c, "DEL")
<1>1. d = [[c EXCEPT !.inEpoll = FALSE] EXCEPT !.mask = {}]
  BY DEF EpollCtl
<1> HIDE DEF d
<1>2. d \in Conn
  BY <1>1, ZenonT(40) DEF Conn
<1>3. SameStream(c, d) /\ SameLife(c, d) /\ d.state = c.state /\ d.ioq = c.ioq
  BY <1>1 DEF Conn, SameStream, SameLife
<1>4. /\ d.events = c.events /\ d.mapped = c.mapped /\ d.idx = c.idx
      /\ d.fatal = c.fatal /\ d.inEpoll = FALSE
  BY <1>1 DEF Conn
<1> QED BY <1>2, <1>3, <1>4 DEF d

(* update_channel, whatever events_ has become.                            *)
LEMMA UpdateChannelIs ==
    ASSUME NEW c \in Conn, ~c.fatal, c.inEpoll <=> c.idx = "ADDED", c.mapped <=> c.idx # "NEW",
           NEW d, d = UpdateChannel(c)
    PROVE  /\ d \in Conn /\ PollerInv(d)
           /\ SameStream(c, d) /\ SameLife(c, d) /\ d.state = c.state /\ d.ioq = c.ioq
           /\ d.events = c.events
           /\ d.idx = IF c.idx = "ADDED" /\ c.events = {} THEN "DELETED" ELSE "ADDED"
<1>1. CASE c.idx # "ADDED"
  <2> DEFINE b == [c EXCEPT !.mapped = @ \/ c.idx = "NEW", !.idx = "ADDED"]
  <2>1. b \in Conn
    BY ZenonT(40) DEF Conn
  <2>2. /\ b.fatal = c.fatal /\ b.inEpoll = c.inEpoll /\ b.events = c.events /\ b.state = c.state
        /\ b.ioq = c.ioq /\ (b.mapped <=> c.mapped \/ c.idx = "NEW") /\ b.idx = "ADDED"
    BY DEF Conn
  <2>3. SameStream(c, b) /\ SameLife(c, b)
    BY DEF Conn, SameStream, SameLife
  <2>4. d = EpollCtl(b, "ADD")
    BY <1>1 DEF UpdateChannel
  <2> HIDE DEF b
  <2>5. /\ d \in Conn
        /\ SameStream(b, d) /\ SameLife(b, d) /\ d.state = b.state /\ d.ioq = b.ioq
        /\ d.events = b.events /\ d.mapped = b.mapped /\ d.idx = b.idx
        /\ (d.fatal <=> b.fatal \/ b.inEpoll) /\ d.inEpoll = TRUE /\ d.mask = b.events
    BY <2>1, <2>4, EpollAdd
  <2>6. PollerInv(d)
    <3>1. ~d.fatal
      BY <1>1, <2>2, <2>5
    <3>2. d.inEpoll <=> d.idx = "ADDED"
      BY <2>2, <2>5
    <3>3. d.mask = d.events
      BY <2>5
    <3>4. d.mapped <=> d.idx # "NEW"
      BY <1>1, <2>2, <2>5
    <3> QED BY <3>1, <3>2, <3>3, <3>4 DEF PollerInv
  <2> QED BY <1>1, <2>2, <2>3, <2>5, <2>6 DEF SameStream, SameLife
<1>2. CASE c.idx = "ADDED" /\ c.events = {}
  <2> DEFINE b == [c EXCEPT !.idx = "DELETED"]
  <2>1. b \in Conn
    BY ZenonT(40) DEF Conn
  <2>2. /\ b.fatal = c.fatal /\ b.inEpoll = c.inEpoll /\ b.events = c.events /\ b.state = c.state
        /\ b.ioq = c.ioq /\ b.mapped = c.mapped /\ b.idx = "DELETED"
    BY DEF Conn
  <2>3. SameStream(c, b) /\ SameLife(c, b)
    BY DEF Conn, SameStream, SameLife
  <2>4. d = EpollCtl(b, "DEL")
    BY <1>2 DEF UpdateChannel
  <2> HIDE DEF b
  <2>5. /\ d \in Conn
        /\ SameStream(b, d) /\ SameLife(b, d) /\ d.state = b.state /\ d.ioq = b.ioq
        /\ d.events = b.events /\ d.mapped = b.mapped /\ d.idx = b.idx
        /\ d.fatal = b.fatal /\ d.inEpoll = FALSE
    BY <2>1, <2>4, EpollDel
  <2>6. PollerInv(d)
    BY <1>2, <2>2, <2>5 DEF PollerInv
  <2> QED BY <1>2, <2>2, <2>3, <2>5, <2>6 DEF SameStream, SameLife
<1>3. CASE c.idx = "ADDED" /\ c.events # {}
  <2>4. d = EpollCtl(c, "MOD")
    BY <1>3 DEF UpdateChannel
  <2>5. /\ d \in Conn
        /\ SameStream(c, d) /\ SameLife(c, d) /\ d.state = c.state /\ d.ioq = c.ioq
        /\ d.events = c.events /\ d.mapped = c.mapped /\ d.idx = c.idx
        /\ (d.fatal <=> c.fatal \/ ~c.inEpoll) /\ d.inEpoll = c.inEpoll /\ d.mask = c.events
    BY <2>4, EpollMod
  <2>6. PollerInv(d)
    BY <1>3, <2>5 DEF PollerInv
  <2> QED BY <1>3, <2>5, <2>6
<1> QED BY <1>1, <1>2, <1>3

(* enable_reading, enable_writing, disable_writing and disable_all change  *)
(* events_ and call it.                                                    *)
Listens(c, ev) == UpdateChannel([c EXCEPT !.events = ev])

(* channel::enable and disable keep the channel and the poller in step.    *)
LEMMA ListenIs ==
    ASSUME NEW c \in Conn, PollerInv(c), NEW ev \in SUBSET {"r", "w"}
    PROVE  LET d == Listens(c, ev) IN
           /\ d \in Conn /\ PollerInv(d)
           /\ SameStream(c, d) /\ SameLife(c, d) /\ d.state = c.state /\ d.ioq = c.ioq
           /\ d.events = ev
           /\ d.idx = IF c.idx = "ADDED" /\ ev = {} THEN "DELETED" ELSE "ADDED"
<1> DEFINE b == [c EXCEPT !.events = ev]
           d == UpdateChannel(b)
<1>1. b \in Conn
  BY DEF Conn
<1>2. /\ b.events = ev /\ b.idx = c.idx /\ b.mapped = c.mapped /\ b.inEpoll = c.inEpoll /\ b.fatal = c.fatal
      /\ b.state = c.state /\ b.ioq = c.ioq
  BY DEF Conn
<1>3. SameStream(c, b) /\ SameLife(c, b)
  BY DEF Conn, SameStream, SameLife
<1> HIDE DEF b
<1>5. ~b.fatal /\ (b.inEpoll <=> b.idx = "ADDED") /\ (b.mapped <=> b.idx # "NEW")
  BY <1>2 DEF PollerInv
<1>6. /\ d \in Conn /\ PollerInv(d)
      /\ SameStream(b, d) /\ SameLife(b, d) /\ d.state = b.state /\ d.ioq = b.ioq
      /\ d.events = b.events
      /\ d.idx = IF b.idx = "ADDED" /\ b.events = {} THEN "DELETED" ELSE "ADDED"
  BY <1>1, <1>5, UpdateChannelIs
<1> HIDE DEF d
<1>7. SameStream(c, d) /\ SameLife(c, d)
  BY <1>3, <1>6 DEF SameStream, SameLife
<1> QED BY <1>2, <1>6, <1>7 DEF b, d, Listens

(* channel::remove does too, and nothing is registered afterwards.         *)
LEMMA RemoveChannelIs ==
    ASSUME NEW c \in Conn, PollerInv(c), NEW d, d = [RemoveChannel(c) EXCEPT !.gone = TRUE]
    PROVE  /\ d \in Conn /\ PollerInv(d) /\ SameStream(c, d) /\ d.state = c.state /\ d.ioq = c.ioq
           /\ d.idx = "NEW" /\ d.events = c.events /\ d.gone
           /\ d.raced = c.raced /\ d.ups = c.ups /\ d.downs = c.downs /\ d.mainq = c.mainq /\ d.inMap = c.inMap
<1> DEFINE b == IF c.idx = "ADDED" THEN EpollCtl(c, "DEL") ELSE c
<1>1. b \in Conn
  BY EpollDel
<1>2. ~b.fatal /\ ~b.inEpoll /\ b.events = c.events /\ b.state = c.state /\ b.ioq = c.ioq
  BY EpollDel DEF PollerInv
<1>3. SameStream(c, b) /\ SameLife(c, b)
  BY EpollDel DEF SameStream, SameLife
<1>4. d = [[b EXCEPT !.mapped = FALSE, !.idx = "NEW"] EXCEPT !.gone = TRUE]
  BY DEF RemoveChannel
<1> HIDE DEF b
<1>5. d \in Conn
  BY <1>1, <1>4, ZenonT(40) DEF Conn
<1>6. /\ d.mapped = FALSE /\ d.idx = "NEW" /\ d.gone = TRUE /\ d.fatal = b.fatal /\ d.inEpoll = b.inEpoll
      /\ d.events = b.events /\ d.state = b.state /\ d.ioq = b.ioq
  BY <1>1, <1>4 DEF Conn
<1>7. /\ SameStream(b, d)
      /\ d.raced = b.raced /\ d.ups = b.ups /\ d.downs = b.downs /\ d.mainq = b.mainq /\ d.inMap = b.inMap
  BY <1>1, <1>4 DEF Conn, SameStream
<1>8. PollerInv(d)
  BY <1>2, <1>6 DEF PollerInv
<1> QED BY <1>2, <1>3, <1>5, <1>6, <1>7, <1>8 DEF SameStream, SameLife

------------------------------------------------------------------------------
(* Sequences: what is written and what is left over                        *)

FirstOf(data, n) == SubSeq(data, 1, n)
RestOf(data, n) == SubSeq(data, n + 1, Len(data))

(* A sequence is what is written of it and what is left.                   *)
LEMMA SplitAt ==
    ASSUME NEW T, NEW data \in Seq(T), NEW n \in 0..Len(data)
    PROVE  /\ FirstOf(data, n) \in Seq(T) /\ RestOf(data, n) \in Seq(T)
           /\ FirstOf(data, n) \o RestOf(data, n) = data
<1>0. n \in Nat /\ Len(data) \in Nat /\ n <= Len(data)
  BY LenProperties
<1>1. SubSeq(data, 1, n) \in Seq(T) /\ Len(SubSeq(data, 1, n)) = n
      /\ \A i \in 1..n : SubSeq(data, 1, n)[i] = data[i]
  BY <1>0, SubSeqProperties, SMTT(20)
<1>2. SubSeq(data, n + 1, Len(data)) \in Seq(T) /\ Len(SubSeq(data, n + 1, Len(data))) = Len(data) - n
      /\ \A i \in 1..(Len(data) - n) : SubSeq(data, n + 1, Len(data))[i] = data[n + i]
  BY <1>0, SubSeqProperties, SMTT(20)
<1>3. SubSeq(data, 1, n) \o SubSeq(data, n + 1, Len(data)) = SubSeq(data, 1, Len(data))
  <2>1. 1 \in 1..Len(data) + 1 /\ n \in (1 - 1)..Len(data) /\ Len(data) \in n..Len(data)
    BY <1>0
  <2> QED BY <2>1, ConcatAdjacentSubSeq
<1>4. SubSeq(data, 1, Len(data)) = data
  BY SubSeqFull
<1> QED BY <1>1, <1>2, <1>3, <1>4 DEF FirstOf, RestOf

(* A sequence is a prefix of what is appended to it.                       *)
LEMMA PrefixOfConcat ==
    ASSUME NEW T, NEW s \in Seq(T), NEW t \in Seq(T)
    PROVE  IsPrefix(s, s \o t)
  BY DEF IsPrefix

(* A prefix stays one when the whole grows.                                *)
LEMMA PrefixGrows ==
    ASSUME NEW T, NEW s \in Seq(T), NEW t \in Seq(T), NEW u \in Seq(T), IsPrefix(s, t)
    PROVE  IsPrefix(s, t \o u)
  BY DEF IsPrefix

------------------------------------------------------------------------------
(* tcp_connection                                                          *)

Unit == Msgs \X {1, 2}
FunctorSet == [op : FunctorOps, m : Msgs \union {NoMsg}]
OwnOps == {"force_close", "write_comp", "high_watermark"}

(* A write of the first n units of data: they go on the wire only when     *)
(* nothing is buffered, the others behind what is.                         *)
LEMMA WriteKeepsOrder ==
    ASSUME NEW wire \in Seq(Unit), NEW obuf \in Seq(Unit), NEW data \in Seq(Unit), NEW n \in 0..Len(data),
           n = 0 \/ obuf = <<>>
    PROVE  (wire \o FirstOf(data, n)) \o (obuf \o RestOf(data, n)) = (wire \o obuf) \o data
<1>0. \A x, y, z \in Seq(Unit) : (x \o y) \o z = x \o (y \o z)
  <2> TAKE x, y, z \in Seq(Unit)
  <2>1. x \o (y \o z) = (x \o y) \o z
    BY SMTT(60)
  <2> QED BY <2>1
<1> DEFINE a == FirstOf(data, n)
           b == RestOf(data, n)
<1>1. a \in Seq(Unit) /\ b \in Seq(Unit) /\ a \o b = data
  BY SplitAt
<1>2. CASE obuf = <<>>
  <2> HIDE DEF a, b
  <2>1. obuf \o b = b /\ wire \o obuf = wire
    BY <1>1, <1>2, ConcatEmptySeq
  <2>2. (wire \o a) \o b = wire \o (a \o b)
    BY <1>0, <1>1, ZenonT(40)
  <2>3. (wire \o a) \o (obuf \o b) = (wire \o obuf) \o data
    BY <1>1, <2>1, <2>2, Zenon
  <2> QED BY <2>3 DEF a, b
<1>3. CASE n = 0
  <2>1. a = <<>>
    BY <1>3, SubSeqEmpty DEF FirstOf
  <2>2. b = data /\ wire \o a = wire
    BY <1>1, <2>1, ConcatEmptySeq
  <2>3. wire \o (obuf \o data) = (wire \o obuf) \o data
    BY ConcatAssociative, SMTT(30)
  <2> QED BY <2>2, <2>3, Zenon
<1> QED BY <1>2, <1>3

(* The queue of functors keeps what is in it, and gets only what the io    *)
(* loop itself queues.                                                     *)
Grown(c, d) ==
    /\ Len(c.ioq) <= Len(d.ioq)
    /\ \A i \in 1..Len(d.ioq) : \/ i <= Len(c.ioq) /\ d.ioq[i] = c.ioq[i]
                                \/ d.ioq[i].op \in OwnOps

(* What a user callback, a send or a write event may make of a connection. *)
Acts(c, d) ==
    /\ d \in Conn /\ PollerInv(d) /\ StreamInv(d) /\ SameLife(c, d) /\ Grown(c, d)
    /\ d.state = c.state \/ (c.state = "CONNECTED" /\ d.state = "DISCONNECTING")
    /\ "r" \in c.events => "r" \in d.events
    /\ "r" \in c.events /\ c.idx = "ADDED" => d.idx = "ADDED"
    /\ c.state = "DISCONNECTED" /\ c.events = {} => d.idx = c.idx /\ d.events = {}

(* The fields of the record have their types.                              *)
LEMMA ConnFields ==
    ASSUME NEW c \in Conn
    PROVE  /\ c.obuf \in Seq(Unit) /\ c.sent \in Seq(Unit) /\ c.wire \in Seq(Unit) /\ c.ioq \in Seq(FunctorSet)
           /\ c.events \in SUBSET {"r", "w"} /\ c.unsent \in SUBSET Msgs /\ c.state \in States
           /\ c.mainq \in Nat /\ c.ups \in Nat /\ c.downs \in Nat /\ c.faulted \in BOOLEAN
           /\ c.gone \in BOOLEAN /\ c.raced \in BOOLEAN /\ c.inMap \in BOOLEAN
           /\ Len(c.ioq) \in Nat /\ \A i \in 1..Len(c.ioq) : c.ioq[i] \in FunctorSet
<1>1. c.ioq \in Seq(FunctorSet)
  BY DEF Conn, FunctorSet
<1>2. Len(c.ioq) \in Nat /\ \A i \in 1..Len(c.ioq) : c.ioq[i] \in FunctorSet
  BY <1>1, LenProperties, ElementOfSeq
<1> QED BY <1>1, <1>2 DEF Conn, Unit

(* A message is a sequence of its units.                                   *)
LEMMA UnitsAre ==
    ASSUME NEW m \in Msgs
    PROVE  Units(m) \in Seq(Unit) /\ Len(Units(m)) = 2
  BY DEF Units, Unit

(* The functors the connection queues for itself.                          *)
LEMMA OwnFunctor ==
    \A op \in FunctorOps : Functor(op) \in FunctorSet /\ Functor(op).op = op
  BY DEF Functor, FunctorSet

(* queue_in_loop.                                                          *)
LEMMA IoqIs ==
    ASSUME NEW c \in Conn, NEW q \in Seq([op : FunctorOps, m : Msgs \union {NoMsg}])
    PROVE  LET d == [c EXCEPT !.ioq = q] IN
           /\ d \in Conn /\ SamePoller(c, d) /\ SameStream(c, d) /\ SameLife(c, d) /\ d.state = c.state
           /\ d.ioq = q
<1> DEFINE d == [c EXCEPT !.ioq = q]
<1>1. d \in Conn
  BY ZenonT(40) DEF Conn
<1>2. d.ioq = q /\ d.state = c.state
  BY DEF Conn
<1>3. SamePoller(c, d) /\ SameStream(c, d) /\ SameLife(c, d)
  BY DEF Conn, SamePoller, SameStream, SameLife
<1> QED BY <1>1, <1>2, <1>3

(* queue_in_loop adds one functor, at the end.                             *)
LEMMA QueueIs ==
    ASSUME NEW c \in Conn, NEW f \in FunctorSet, NEW d, d = Queue(c, f)
    PROVE  /\ d \in Conn /\ SamePoller(c, d) /\ SameStream(c, d) /\ SameLife(c, d) /\ d.state = c.state
           /\ Len(d.ioq) = Len(c.ioq) + 1
           /\ \A i \in 1..Len(c.ioq) : d.ioq[i] = c.ioq[i]
           /\ d.ioq[Len(d.ioq)] = f
           /\ f.op \in OwnOps => Grown(c, d)
<1>0. c.ioq \in Seq(FunctorSet) /\ Len(c.ioq) \in Nat
  BY ConnFields
<1>1. d = [c EXCEPT !.ioq = Append(c.ioq, f)]
  BY DEF Queue
<1> DEFINE q == Append(c.ioq, f)
           e == [c EXCEPT !.ioq = q]
<1>2. /\ q \in Seq(FunctorSet) /\ Len(q) = Len(c.ioq) + 1
      /\ \A i \in 1..Len(c.ioq) : q[i] = c.ioq[i]
      /\ q[Len(c.ioq) + 1] = f
  BY <1>0, AppendProperties
<1>3. /\ d \in Conn /\ d.ioq = q
      /\ SamePoller(c, d) /\ SameStream(c, d) /\ SameLife(c, d) /\ d.state = c.state
  <2>1. q \in Seq([op : FunctorOps, m : Msgs \union {NoMsg}])
    BY <1>2 DEF FunctorSet
  <2>2. d = e
    BY <1>1
  <2> HIDE DEF q
  <2>3. /\ e \in Conn /\ e.ioq = q
        /\ SamePoller(c, e) /\ SameStream(c, e) /\ SameLife(c, e) /\ e.state = c.state
    BY <2>1, IoqIs
  <2> HIDE DEF e
  <2> QED BY <2>2, <2>3
<1> HIDE DEF q
<1>4. f.op \in OwnOps => Grown(c, d)
  <2>1. \A i \in 1..Len(d.ioq) : i <= Len(c.ioq) \/ i = Len(c.ioq) + 1
    BY <1>0, <1>2, <1>3
  <2>2. Len(c.ioq) <= Len(d.ioq)
    BY <1>0, <1>2, <1>3
  <2>3. \A i \in 1..Len(d.ioq) : i <= Len(c.ioq) => i \in 1..Len(c.ioq)
    BY <1>0, <1>2, <1>3
  <2> QED BY <1>2, <1>3, <2>1, <2>2, <2>3 DEF Grown
<1> QED BY <1>2, <1>3, <1>4

(* A call that changes nothing.                                            *)
LEMMA ActsNothing ==
    ASSUME NEW c \in Conn, PollerInv(c), StreamInv(c)
    PROVE  Acts(c, c)
<1>1. Grown(c, c)
  BY ConnFields DEF Grown
<1> QED BY <1>1 DEF Acts, SameLife

(* send_inloop after its write.                                            *)
LEMMA AfterWriteIs ==
    ASSUME NEW c \in Conn, PollerInv(c), NEW data \in Seq(Unit), NEW n \in 0..Len(data)
    PROVE  LET d == AfterWrite(c, data, n) IN
           /\ d \in Conn /\ PollerInv(d) /\ SameLife(c, d) /\ d.state = c.state /\ Grown(c, d)
           /\ d.faulted = c.faulted /\ d.wrShut = c.wrShut /\ d.peer = c.peer /\ d.sent = c.sent
           /\ d.wire = c.wire \o FirstOf(data, n)
           /\ d.obuf = c.obuf \o RestOf(data, n)
           /\ "r" \in c.events => "r" \in d.events
           /\ c.idx = "ADDED" => d.idx = "ADDED"
<1> DEFINE first == FirstOf(data, n)
           rest == RestOf(data, n)
           w == [c EXCEPT !.wire = c.wire \o first]
           high == /\ Len(c.obuf) + Len(rest) >= HighWater
                   /\ Len(c.obuf) < HighWater
           h == IF high THEN Queue(w, Functor("high_watermark")) ELSE w
           b == [h EXCEPT !.obuf = h.obuf \o rest]
           d == AfterWrite(c, data, n)
<1>0. d = IF rest = <<>> THEN Queue(w, Functor("write_comp"))
          ELSE IF IsWriting(b) THEN b ELSE EnableEvent(b, "w")
  BY DEF AfterWrite, FirstOf, RestOf
<1>1. first \in Seq(Unit) /\ rest \in Seq(Unit)
  BY SplitAt
<1>2. c.wire \o first \in Seq(Msgs \X {1, 2}) /\ c.obuf \in Seq(Unit) /\ c.obuf \o rest \in Seq(Msgs \X {1, 2})
  <2> HIDE DEF first, rest
  <2> QED BY <1>1, ConnFields, ConcatProperties DEF Unit
<1> HIDE DEF first, rest, d
<1> SUFFICES /\ d \in Conn /\ PollerInv(d) /\ SameLife(c, d) /\ d.state = c.state /\ Grown(c, d)
             /\ d.faulted = c.faulted /\ d.wrShut = c.wrShut /\ d.peer = c.peer /\ d.sent = c.sent
             /\ d.wire = c.wire \o first
             /\ d.obuf = c.obuf \o rest
             /\ "r" \in c.events => "r" \in d.events
             /\ c.idx = "ADDED" => d.idx = "ADDED"
  BY DEF d, first, rest
<1>3. /\ w \in Conn /\ w.wire = c.wire \o first /\ w.obuf = c.obuf /\ w.sent = c.sent /\ w.faulted = c.faulted
      /\ w.wrShut = c.wrShut /\ w.peer = c.peer /\ w.state = c.state /\ w.ioq = c.ioq
  BY <1>2, ZenonT(40) DEF Conn
<1>4. SamePoller(c, w) /\ SameLife(c, w)
  BY DEF Conn, SamePoller, SameLife
<1>5. PollerInv(w) /\ Grown(c, w)
  BY <1>3, <1>4, ConnFields DEF PollerInv, SamePoller, Grown
<1>6. /\ Functor("write_comp") \in FunctorSet /\ Functor("write_comp").op \in OwnOps
      /\ Functor("high_watermark") \in FunctorSet /\ Functor("high_watermark").op \in OwnOps
  BY OwnFunctor DEF FunctorOps, OwnOps
<1> HIDE DEF w, high
<1>7. CASE rest = <<>>
  <2>1. d = Queue(w, Functor("write_comp"))
    BY <1>0, <1>7
  <2>2. /\ d \in Conn /\ SamePoller(w, d) /\ SameStream(w, d) /\ SameLife(w, d) /\ d.state = w.state
        /\ Grown(w, d)
    BY <1>3, <1>6, <2>1, QueueIs
  <2>3. PollerInv(d) /\ SameLife(c, d) /\ Grown(c, d)
    BY <1>3, <1>4, <1>5, <2>2 DEF PollerInv, SamePoller, SameLife, Grown
  <2>4. c.obuf \o rest = c.obuf
    BY <1>2, <1>7, ConcatEmptySeq
  <2> QED BY <1>3, <1>4, <2>2, <2>3, <2>4 DEF SamePoller, SameStream
<1>8. CASE rest # <<>>
  <2>1. /\ h \in Conn /\ SamePoller(w, h) /\ SameStream(w, h) /\ SameLife(w, h) /\ h.state = w.state
        /\ Grown(w, h)
    <3>1. CASE high
      BY <1>3, <1>6, <3>1, QueueIs
    <3>2. CASE ~high
      BY <1>3, <1>5, <3>2, ConnFields DEF SamePoller, SameStream, SameLife, Grown
    <3> QED BY <3>1, <3>2
  <2> HIDE DEF h
  <2>2. h.obuf \o rest = c.obuf \o rest
    BY <1>3, <2>1 DEF SameStream
  <2>3. b \in Conn /\ b.obuf = c.obuf \o rest
    BY <1>2, <2>1, <2>2, ZenonT(40) DEF Conn
  <2>4. /\ b.wire = h.wire /\ b.sent = h.sent /\ b.faulted = h.faulted /\ b.wrShut = h.wrShut /\ b.peer = h.peer
        /\ b.state = h.state /\ b.ioq = h.ioq
    BY <2>1 DEF Conn
  <2>5. SamePoller(h, b) /\ SameLife(h, b)
    BY <2>1 DEF Conn, SamePoller, SameLife
  <2> HIDE DEF b
  <2>6. /\ PollerInv(b) /\ SameLife(c, b) /\ b.idx = c.idx /\ b.events = c.events
        /\ b.wire = c.wire \o first /\ b.sent = c.sent /\ b.faulted = c.faulted /\ b.wrShut = c.wrShut
        /\ b.peer = c.peer /\ b.state = c.state
    BY <1>3, <1>4, <1>5, <2>1, <2>4, <2>5 DEF PollerInv, SamePoller, SameLife, SameStream
  <2>7. Grown(c, b)
    BY <1>3, <2>1, <2>4 DEF Grown
  <2>8. CASE d = b
    BY <2>3, <2>6, <2>7, <2>8
  <2>9. CASE d # b
    <3> DEFINE ev == b.events \union {"w"}
    <3>1. d = Listens(b, ev)
      BY <1>0, <1>8, <2>9 DEF EnableEvent, Listens
    <3>2. ev \in SUBSET {"r", "w"} /\ ev # {} /\ ("r" \in b.events => "r" \in ev)
      BY <2>3, ConnFields
    <3> HIDE DEF ev
    <3>3. /\ d \in Conn /\ PollerInv(d)
          /\ SameStream(b, d) /\ SameLife(b, d) /\ d.state = b.state /\ d.ioq = b.ioq
          /\ d.events = ev /\ d.idx = "ADDED"
      <4>1. b \in Conn /\ PollerInv(b)
        BY <2>3, <2>6
      <4>2. LET l == Listens(b, ev) IN
            /\ l \in Conn /\ PollerInv(l)
            /\ SameStream(b, l) /\ SameLife(b, l) /\ l.state = b.state /\ l.ioq = b.ioq
            /\ l.events = ev
            /\ l.idx = IF b.idx = "ADDED" /\ ev = {} THEN "DELETED" ELSE "ADDED"
        BY <3>2, <4>1, ListenIs
      <4> QED BY <3>1, <3>2, <4>2
    <3>4. SameLife(c, d) /\ Grown(c, d)
      BY <2>6, <2>7, <3>3 DEF SameLife, Grown
    <3> QED BY <2>3, <2>6, <3>2, <3>3, <3>4 DEF SameStream
  <2> QED BY <2>8, <2>9
<1> QED BY <1>7, <1>8

(* send_inloop: what is accepted comes behind what is buffered, and after  *)
(* a failure for good nothing is written any more.                         *)
LEMMA SendInloopActs ==
    ASSUME NEW c \in Conn, PollerInv(c), StreamInv(c), NEW m \in Msgs, NEW d \in SendInloop(c, m)
    PROVE  Acts(c, d)
<1> DEFINE s == [c EXCEPT !.sent = c.sent \o Units(m)]
           direct == ~IsWriting(c) /\ c.obuf = <<>>
<1>0. /\ Units(m) \in Seq(Unit) /\ Len(Units(m)) = 2
      /\ c.sent \in Seq(Unit) /\ c.wire \in Seq(Unit) /\ c.obuf \in Seq(Unit) /\ c.faulted \in BOOLEAN
  BY UnitsAre, ConnFields
<1>1. c.sent \o Units(m) \in Seq(Msgs \X {1, 2})
  BY <1>0, ConcatProperties DEF Unit
<1>2. /\ s \in Conn /\ s.sent = c.sent \o Units(m) /\ s.wire = c.wire /\ s.obuf = c.obuf /\ s.faulted = c.faulted
      /\ s.wrShut = c.wrShut /\ s.peer = c.peer /\ s.state = c.state /\ s.ioq = c.ioq
  BY <1>1, ZenonT(40) DEF Conn
<1>3. SamePoller(c, s) /\ SameLife(c, s)
  BY DEF Conn, SamePoller, SameLife
<1>4. PollerInv(s) /\ Grown(c, s)
  BY <1>2, <1>3, ConnFields DEF PollerInv, SamePoller, Grown
<1>5. IsPrefix(c.wire, c.sent \o Units(m))
  BY <1>0, PrefixGrows DEF StreamInv
<1>6. CASE c.state = "DISCONNECTED"
  <2>1. d = c
    BY <1>6 DEF SendInloop
  <2> QED BY <2>1, ActsNothing
<1>7. CASE c.state # "DISCONNECTED" /\ direct /\ Broken(c)
  <2>1. d = [s EXCEPT !.faulted = TRUE]
    BY <1>7 DEF SendInloop
  <2> HIDE DEF s
  <2>2. /\ d \in Conn /\ d.sent = s.sent /\ d.wire = s.wire /\ d.obuf = s.obuf /\ d.faulted = TRUE
        /\ d.wrShut = s.wrShut /\ d.peer = s.peer /\ d.state = s.state /\ d.ioq = s.ioq
    BY <1>2, <2>1, ZenonT(40) DEF Conn
  <2>3. SamePoller(s, d) /\ SameLife(s, d)
    BY <1>2, <2>1 DEF Conn, SamePoller, SameLife
  <2>4. StreamInv(d)
    BY <1>2, <1>5, <1>7, <2>2 DEF StreamInv, Broken
  <2>5. PollerInv(d) /\ Grown(c, d) /\ SameLife(c, d) /\ d.events = c.events /\ d.idx = c.idx
    BY <1>2, <1>3, <1>4, <2>2, <2>3 DEF PollerInv, SamePoller, SameLife, Grown
  <2> QED BY <1>2, <1>7, <2>2, <2>4, <2>5 DEF Acts
<1>8. CASE c.state # "DISCONNECTED" /\ ~(direct /\ Broken(c))
  <2>1. PICK n \in (IF direct THEN 0..2 ELSE {0}) : d = AfterWrite(s, Units(m), n)
    BY <1>8 DEF SendInloop
  <2>2. n \in 0..Len(Units(m)) /\ (n = 0 \/ c.obuf = <<>>)
    BY <1>0
  <2> HIDE DEF s
  <2>3. /\ d \in Conn /\ PollerInv(d) /\ SameLife(s, d) /\ d.state = s.state /\ Grown(s, d)
        /\ d.faulted = s.faulted /\ d.wrShut = s.wrShut /\ d.peer = s.peer /\ d.sent = s.sent
        /\ d.wire = s.wire \o FirstOf(Units(m), n)
        /\ d.obuf = s.obuf \o RestOf(Units(m), n)
        /\ "r" \in s.events => "r" \in d.events
        /\ s.idx = "ADDED" => d.idx = "ADDED"
    BY <1>0, <1>2, <1>4, <2>1, <2>2, AfterWriteIs
  <2>4. SameLife(c, d) /\ Grown(c, d)
    BY <1>2, <1>3, <2>3 DEF SameLife, Grown
  <2>5. StreamInv(d)
    <3>1. CASE ~c.faulted
      <4>0. (c.wire \o FirstOf(Units(m), n)) \o (c.obuf \o RestOf(Units(m), n)) = (c.wire \o c.obuf) \o Units(m)
        BY <1>0, <2>2, WriteKeepsOrder, ZenonT(40)
      <4>1. d.wire \o d.obuf = (c.wire \o c.obuf) \o Units(m)
        BY <1>2, <2>3, <4>0, Zenon
      <4>2. d.wire \o d.obuf = d.sent
        BY <1>2, <2>3, <3>1, <4>1 DEF StreamInv
      <4>3. d.wire \in Seq(Unit) /\ d.obuf \in Seq(Unit)
        BY <2>3, ConnFields
      <4>4. IsPrefix(d.wire, d.sent)
        BY <4>2, <4>3, PrefixOfConcat
      <4>5. ~d.faulted
        BY <1>2, <2>3, <3>1
      <4> QED BY <4>2, <4>4, <4>5 DEF StreamInv
    <3>2. CASE c.faulted
      <4>1. Broken(c)
        BY <3>2 DEF StreamInv
      <4>2. n = 0
        BY <1>8, <2>1, <4>1
      <4>3. FirstOf(Units(m), n) = <<>>
        BY <4>2, SubSeqEmpty DEF FirstOf
      <4>4. d.wire = c.wire
        BY <1>0, <1>2, <2>3, <4>3, ConcatEmptySeq
      <4> QED BY <1>2, <1>5, <2>3, <3>2, <4>1, <4>4 DEF StreamInv, Broken
    <3> QED BY <3>1, <3>2
  <2> QED BY <1>2, <1>3, <1>8, <2>3, <2>4, <2>5 DEF Acts, SamePoller
<1> QED BY <1>6, <1>7, <1>8

(* A change of state_ and of shutdown only.                                *)
LEMMA StateIs ==
    ASSUME NEW c \in Conn, NEW x \in States
    PROVE  LET d == [c EXCEPT !.state = x] IN
           /\ d \in Conn /\ SamePoller(c, d) /\ SameStream(c, d) /\ SameLife(c, d)
           /\ d.state = x /\ d.ioq = c.ioq
<1> DEFINE d == [c EXCEPT !.state = x]
<1>1. d \in Conn /\ d.state = x /\ d.ioq = c.ioq
  BY DEF Conn
<1>2. SamePoller(c, d) /\ SameStream(c, d) /\ SameLife(c, d)
  BY DEF Conn, SamePoller, SameStream, SameLife
<1> QED BY <1>1, <1>2

(* shutdown_inloop closes the writing side once nothing is to be written.  *)
LEMMA ShutdownInloopIs ==
    ASSUME NEW c \in Conn
    PROVE  LET d == ShutdownInloop(c) IN
           /\ d \in Conn /\ SamePoller(c, d) /\ SameLife(c, d) /\ d.state = c.state /\ d.ioq = c.ioq
           /\ d.obuf = c.obuf /\ d.sent = c.sent /\ d.wire = c.wire /\ d.faulted = c.faulted
           /\ d.peer = c.peer /\ (c.wrShut => d.wrShut)
<1> DEFINE b == [c EXCEPT !.wrShut = TRUE]
<1>1. b \in Conn /\ b.wrShut = TRUE
  BY DEF Conn
<1>2. /\ b.state = c.state /\ b.ioq = c.ioq
      /\ b.obuf = c.obuf /\ b.sent = c.sent /\ b.wire = c.wire /\ b.faulted = c.faulted /\ b.peer = c.peer
  BY DEF Conn
<1>3. SamePoller(c, b) /\ SameLife(c, b)
  BY DEF Conn, SamePoller, SameLife
<1>4. SamePoller(c, c) /\ SameLife(c, c)
  BY DEF SamePoller, SameLife
<1>5. ShutdownInloop(c) = c \/ ShutdownInloop(c) = b
  BY DEF ShutdownInloop
<1> HIDE DEF b
<1> QED BY <1>1, <1>2, <1>3, <1>4, <1>5

(* What keeps the poller, the stream and the end of a connection as they   *)
(* are, and lets its state_ go from CONNECTED to DISCONNECTING.            *)
LEMMA ActsQuietly ==
    ASSUME NEW c \in Conn, PollerInv(c), StreamInv(c), NEW d \in Conn, SamePoller(c, d), SameLife(c, d),
           d.obuf = c.obuf, d.sent = c.sent, d.wire = c.wire, d.faulted = c.faulted, d.peer = c.peer,
           c.wrShut => d.wrShut, Grown(c, d),
           d.state = c.state \/ (c.state = "CONNECTED" /\ d.state = "DISCONNECTING")
    PROVE  Acts(c, d)
<1>1. PollerInv(d)
  BY DEF PollerInv, SamePoller
<1>2. StreamInv(d)
  BY DEF StreamInv, Broken
<1> QED BY <1>1, <1>2 DEF Acts, SamePoller

(* tcp_connection::shutdown.                                               *)
LEMMA ShutdownActs ==
    ASSUME NEW c \in Conn, PollerInv(c), StreamInv(c)
    PROVE  Acts(c, ShutdownInloop(c)) /\ Acts(c, Shutdown(c))
<1>0. Grown(c, c)
  BY ConnFields DEF Grown
<1>1. Acts(c, ShutdownInloop(c))
  <2> DEFINE d == ShutdownInloop(c)
  <2>1. /\ d \in Conn /\ SamePoller(c, d) /\ SameLife(c, d) /\ d.state = c.state /\ d.ioq = c.ioq
        /\ d.obuf = c.obuf /\ d.sent = c.sent /\ d.wire = c.wire /\ d.faulted = c.faulted
        /\ d.peer = c.peer /\ (c.wrShut => d.wrShut)
    BY ShutdownInloopIs
  <2> HIDE DEF d
  <2>2. Grown(c, d)
    BY <1>0, <2>1 DEF Grown
  <2>3. Acts(c, d)
    BY <2>1, <2>2, ActsQuietly
  <2> QED BY <2>3 DEF d
<1>2. CASE c.state # "CONNECTED"
  <2>1. Shutdown(c) = c
    BY <1>2 DEF Shutdown
  <2> QED BY <1>1, <2>1, ActsNothing
<1>3. CASE c.state = "CONNECTED"
  <2> DEFINE b == [c EXCEPT !.state = "DISCONNECTING"]
             d == ShutdownInloop(b)
  <2>1. /\ b \in Conn /\ SamePoller(c, b) /\ SameStream(c, b) /\ SameLife(c, b)
        /\ b.state = "DISCONNECTING" /\ b.ioq = c.ioq
    <3>1. "DISCONNECTING" \in States
      BY DEF States
    <3> QED BY <3>1, StateIs
  <2>2. Shutdown(c) = d
    BY <1>3 DEF Shutdown
  <2> HIDE DEF b
  <2>3. /\ d \in Conn /\ SamePoller(b, d) /\ SameLife(b, d) /\ d.state = b.state /\ d.ioq = b.ioq
        /\ d.obuf = b.obuf /\ d.sent = b.sent /\ d.wire = b.wire /\ d.faulted = b.faulted
        /\ d.peer = b.peer /\ (b.wrShut => d.wrShut)
    BY <2>1, ShutdownInloopIs
  <2> HIDE DEF d
  <2>4. Grown(c, d) /\ SamePoller(c, d) /\ SameLife(c, d)
    BY <1>0, <2>1, <2>3 DEF Grown, SamePoller, SameLife
  <2>5. Acts(c, d)
    BY <1>3, <2>1, <2>3, <2>4, ActsQuietly DEF SameStream
  <2> QED BY <1>1, <2>2, <2>5
<1> QED BY <1>2, <1>3

(* tcp_connection::force_close.                                            *)
LEMMA ForceCloseActs ==
    ASSUME NEW c \in Conn, PollerInv(c), StreamInv(c)
    PROVE  Acts(c, ForceClose(c))
<1>1. CASE ~Open(c)
  <2>1. ForceClose(c) = c
    BY <1>1 DEF ForceClose, Open
  <2> QED BY <2>1, ActsNothing
<1>2. CASE Open(c)
  <2> DEFINE b == [c EXCEPT !.state = "DISCONNECTING"]
             f == Functor("force_close")
             d == Queue(b, f)
  <2>1. /\ b \in Conn /\ SamePoller(c, b) /\ SameStream(c, b) /\ SameLife(c, b)
        /\ b.state = "DISCONNECTING" /\ b.ioq = c.ioq
    <3>1. "DISCONNECTING" \in States
      BY DEF States
    <3> QED BY <3>1, StateIs
  <2>2. ForceClose(c) = d
    BY <1>2 DEF ForceClose, Open
  <2>3. f \in FunctorSet /\ f.op \in OwnOps
    BY OwnFunctor DEF FunctorOps, OwnOps
  <2> HIDE DEF b, f
  <2>4. /\ d \in Conn /\ SamePoller(b, d) /\ SameStream(b, d) /\ SameLife(b, d) /\ d.state = b.state
        /\ Grown(b, d)
    BY <2>1, <2>3, QueueIs
  <2> HIDE DEF d
  <2>5. Grown(c, d) /\ SamePoller(c, d) /\ SameLife(c, d)
    BY <2>1, <2>4 DEF Grown, SamePoller, SameLife
  <2>6. Acts(c, d)
    BY <1>2, <2>1, <2>4, <2>5, ActsQuietly DEF SameStream, Open
  <2> QED BY <2>2, <2>6
<1> QED BY <1>1, <1>2

(* A callback of the user.                                                 *)
LEMMA UserCbActs ==
    ASSUME NEW c \in Conn, PollerInv(c), StreamInv(c), NEW d \in UserCb(c)
    PROVE  /\ Acts(c, d)
           /\ c.state \notin {"CONNECTED", "DISCONNECTING"} => d = c
<1>1. ASSUME NEW m \in c.unsent, d \in Send(c, m)
      PROVE  Acts(c, d) /\ (c.state # "CONNECTED" => d = c)
  <2> DEFINE b == [c EXCEPT !.unsent = c.unsent \ {m}]
  <2>0. m \in Msgs
    BY ConnFields
  <2>1. b \in Conn /\ b.state = c.state /\ b.ioq = c.ioq
    BY DEF Conn
  <2>2. SamePoller(c, b) /\ SameStream(c, b) /\ SameLife(c, b)
    BY DEF Conn, SamePoller, SameStream, SameLife
  <2>3. CASE c.state # "CONNECTED"
    <3>1. d = c
      BY <1>1, <2>3 DEF Send
    <3> QED BY <3>1, ActsNothing
  <2>4. CASE c.state = "CONNECTED"
    <3>1. d \in SendInloop(b, m)
      BY <1>1, <2>4 DEF Send
    <3> HIDE DEF b
    <3>2. PollerInv(b) /\ StreamInv(b)
      BY <2>2 DEF PollerInv, StreamInv, SamePoller, SameStream, Broken
    <3>3. Acts(b, d)
      BY <2>0, <2>1, <3>1, <3>2, SendInloopActs
    <3> QED BY <2>1, <2>2, <2>4, <3>3 DEF Acts, SamePoller, SameLife, Grown
  <2> QED BY <2>3, <2>4
<1>2. \/ d = c \/ d = Shutdown(c) \/ d = ForceClose(c)
      \/ \E m \in c.unsent : d \in Send(c, m)
  BY DEF UserCb
<1>3. c.state \notin {"CONNECTED", "DISCONNECTING"} => Shutdown(c) = c /\ ForceClose(c) = c
  BY DEF Shutdown, ForceClose
<1> QED BY <1>1, <1>2, <1>3, ActsNothing, ShutdownActs, ForceCloseActs

(* handle_write.                                                           *)
LEMMA FlushKeepsOrder ==
    ASSUME NEW wire \in Seq(Unit), NEW data \in Seq(Unit), NEW n \in 0..Len(data)
    PROVE  (wire \o FirstOf(data, n)) \o RestOf(data, n) = wire \o data
<1>0. <<>> \in Seq(Unit)
  OBVIOUS
<1>1. (wire \o FirstOf(data, n)) \o (<<>> \o RestOf(data, n)) = (wire \o <<>>) \o data
  BY <1>0, WriteKeepsOrder, Zenon
<1>2. RestOf(data, n) \in Seq(Unit)
  BY SplitAt
<1>3. <<>> \o RestOf(data, n) = RestOf(data, n) /\ wire \o <<>> = wire
  BY <1>2, ConcatEmptySeq
<1> QED BY <1>1, <1>3, Zenon

(* tcp_connection::handle_write.                                           *)
LEMMA HandleWriteActs ==
    ASSUME NEW c \in Conn, PollerInv(c), StreamInv(c), NEW d \in HandleWrite(c)
    PROVE  Acts(c, d)
<1>1. CASE ~(IsWriting(c) /\ ~Broken(c) /\ c.obuf # <<>>)
  <2>1. d = c
    BY <1>1 DEF HandleWrite
  <2> QED BY <2>1, ActsNothing
<1>2. CASE IsWriting(c) /\ ~Broken(c) /\ c.obuf # <<>>
  <2>0. c.wire \in Seq(Unit) /\ c.obuf \in Seq(Unit) /\ Len(c.obuf) \in Nat /\ c.faulted \in BOOLEAN
    BY ConnFields, LenProperties
  <2>1. PICK n \in 1..Len(c.obuf) : d = Flushed(c, n)
    BY <1>2 DEF HandleWrite
  <2> DEFINE first == FirstOf(c.obuf, n)
             rest == RestOf(c.obuf, n)
             r == [c EXCEPT !.wire = c.wire \o first, !.obuf = rest]
             f == Functor("write_comp")
             l == Listens(r, r.events \ {"w"})
             e == Queue(l, f)
  <2>2. \/ d = r
        \/ d = e
        \/ d = ShutdownInloop(e)
    BY <2>1 DEF Flushed, FirstOf, RestOf, DisableWriting, Listens
  <2>3. n \in 0..Len(c.obuf)
    BY <2>0
  <2>4. first \in Seq(Unit) /\ rest \in Seq(Unit) /\ (c.wire \o first) \o rest = c.wire \o c.obuf
    BY <2>0, <2>3, SplitAt, FlushKeepsOrder
  <2> HIDE DEF first, rest
  <2>5. c.wire \o first \in Seq(Msgs \X {1, 2}) /\ rest \in Seq(Msgs \X {1, 2}) /\ c.wire \o first \in Seq(Unit)
    BY <2>0, <2>4, ConcatProperties DEF Unit
  <2>6. /\ r \in Conn /\ r.wire = c.wire \o first /\ r.obuf = rest /\ r.sent = c.sent /\ r.faulted = c.faulted
        /\ r.wrShut = c.wrShut /\ r.peer = c.peer /\ r.state = c.state /\ r.ioq = c.ioq
    BY <2>5 DEF Conn
  <2>7. SamePoller(c, r) /\ SameLife(c, r)
    BY DEF Conn, SamePoller, SameLife
  <2> HIDE DEF r
  <2>8. PollerInv(r)
    BY <2>7 DEF PollerInv, SamePoller
  <2>9. ~c.faulted /\ c.wire \o c.obuf = c.sent /\ c.events = {"w"}
    BY <1>2 DEF StreamInv, IsWriting
  <2>10. StreamInv(r)
    <3>1. r.wire \o r.obuf = r.sent
      BY <2>4, <2>6, <2>9, Zenon
    <3>2. IsPrefix(r.wire, r.wire \o r.obuf)
      BY <2>4, <2>5, <2>6, PrefixOfConcat
    <3> QED BY <2>6, <2>9, <3>1, <3>2 DEF StreamInv
  <2>11. Acts(c, r)
    <3>1. Grown(c, r)
      BY <2>6, ConnFields DEF Grown
    <3> QED BY <2>6, <2>7, <2>8, <2>9, <2>10, <3>1 DEF Acts, SamePoller
  <2>12. f \in FunctorSet /\ f.op \in OwnOps
    BY OwnFunctor DEF FunctorOps, OwnOps
  <2>13. /\ l \in Conn /\ PollerInv(l) /\ SameStream(r, l) /\ SameLife(r, l) /\ l.state = r.state /\ l.ioq = r.ioq
    <3>1. r.events \ {"w"} \in SUBSET {"r", "w"}
      BY <2>6, ConnFields
    <3> QED BY <2>6, <2>8, <3>1, ListenIs
  <2> HIDE DEF l, f
  <2>14. /\ e \in Conn /\ SamePoller(l, e) /\ SameStream(l, e) /\ SameLife(l, e) /\ e.state = l.state
         /\ Grown(l, e)
    BY <2>12, <2>13, QueueIs
  <2> HIDE DEF e
  <2>15. PollerInv(e) /\ StreamInv(e) /\ SameLife(c, e) /\ Grown(c, e) /\ e.state = c.state
    <3>1. PollerInv(e)
      BY <2>13, <2>14 DEF PollerInv, SamePoller
    <3>2. StreamInv(e)
      BY <2>10, <2>13, <2>14 DEF StreamInv, SameStream, Broken
    <3>3. SameLife(c, e) /\ Grown(c, e) /\ e.state = c.state
      BY <2>6, <2>7, <2>13, <2>14 DEF SameLife, Grown
    <3> QED BY <3>1, <3>2, <3>3
  <2>16. Acts(c, e)
    BY <2>9, <2>14, <2>15 DEF Acts
  <2>17. Acts(c, ShutdownInloop(e))
    <3>1. Acts(e, ShutdownInloop(e))
      BY <2>14, <2>15, ShutdownActs
    <3> DEFINE x == ShutdownInloop(e)
    <3>2. x.ioq = e.ioq /\ x.state = e.state
      BY <2>14, ShutdownInloopIs
    <3> HIDE DEF x
    <3>3. Acts(e, x)
      BY <3>1 DEF x
    <3>4. SameLife(c, x) /\ Grown(c, x)
      BY <2>15, <3>2, <3>3 DEF Acts, SameLife, Grown
    <3>5. Acts(c, x)
      BY <2>9, <2>15, <3>2, <3>3, <3>4 DEF Acts
    <3> QED BY <3>5 DEF x
  <2> QED BY <2>2, <2>11, <2>16, <2>17
<1> QED BY <1>1, <1>2

------------------------------------------------------------------------------
(* The life of a connection                                                *)

(* What a step of an established connection has to keep.                   *)
Keeps(c, d) == ConnInv(d) /\ d.state # "CONNECTING" /\ Len(c.ioq) <= Len(d.ioq)

(* What the calls of the user do keeps the invariant of the connection.    *)
LEMMA ActsKeeps ==
    ASSUME NEW c, ConnInv(c), c.state # "CONNECTING", NEW d, Acts(c, d)
    PROVE  Keeps(c, d)
<1>0. c \in Conn /\ d \in Conn /\ PollerInv(d) /\ StreamInv(d) /\ SameLife(c, d) /\ Grown(c, d)
  BY DEF ConnInv, Acts
<1>1. c.state \in States /\ Len(c.ioq) \in Nat /\ Len(d.ioq) \in Nat
  BY <1>0, ConnFields
<1>2. \A op : op \notin OwnOps /\ Queued(d, op) => Queued(c, op)
  <2> SUFFICES ASSUME NEW op, op \notin OwnOps, Queued(d, op) PROVE Queued(c, op)
    OBVIOUS
  <2>1. PICK i \in 1..Len(d.ioq) : d.ioq[i].op = op
    BY DEF Queued
  <2>2. i <= Len(c.ioq) /\ d.ioq[i] = c.ioq[i]
    BY <1>0, <2>1 DEF Grown
  <2>3. i \in 1..Len(c.ioq)
    BY <1>1, <2>2
  <2> QED BY <2>1, <2>2, <2>3 DEF Queued
<1>3. ~Queued(d, "established") /\ (Queued(d, "destroyed") => Queued(c, "destroyed"))
  <2>1. "established" \notin OwnOps /\ "destroyed" \notin OwnOps
    BY DEF OwnOps
  <2> QED BY <1>2, <2>1 DEF ConnInv, Beginning
<1>4. QueueInv(d)
  <2>1. \A i \in 1..Len(d.ioq) : i <= Len(c.ioq) => i \in 1..Len(c.ioq)
    BY <1>1
  <2>2. "send" \notin OwnOps
    BY DEF OwnOps
  <2> QED BY <1>0, <2>1, <2>2 DEF Grown, QueueInv, ConnInv
<1>5. d.state # "CONNECTING"
  BY DEF Acts
<1>6. Beginning(d)
  BY <1>0, <1>3, <1>5 DEF ConnInv, Beginning, SameLife
<1>7. Ending(d)
  <2>1. /\ Open(d) => Open(c)
        /\ d.state = "DISCONNECTED" => c.state = "DISCONNECTED"
    BY DEF Acts, Open
  <2>2. Ending(c)
    BY DEF ConnInv
  <2>3. /\ d.raced = c.raced /\ d.downs = c.downs /\ d.mainq = c.mainq /\ d.inMap = c.inMap /\ d.gone = c.gone
    BY <1>0 DEF SameLife
  <2>4. ~d.raced /\ Open(d) => /\ d.downs = 0 /\ d.idx = "ADDED" /\ "r" \in d.events
                               /\ d.mainq = 0 /\ ~d.gone /\ ~Queued(d, "destroyed")
    BY <1>3, <2>1, <2>2, <2>3 DEF Acts, Ending
  <2>5. ~d.raced /\ d.state = "DISCONNECTED" => d.downs = 1 /\ d.idx = c.idx /\ d.idx # "ADDED" /\ d.events = {}
    BY <2>1, <2>2, <2>3 DEF Acts, Ending
  <2>6. Queued(d, "destroyed") \/ d.gone => ~d.inMap
    BY <1>3, <2>2, <2>3 DEF Ending
  <2>7. ~d.raced /\ d.gone => d.idx = "NEW"
    <3>1. d.state = "DISCONNECTED" \/ Open(d)
      BY <1>0, <1>5, ConnFields DEF States, Open
    <3> QED BY <2>2, <2>3, <2>4, <2>5, <3>1 DEF Ending
  <2> QED BY <2>4, <2>5, <2>6, <2>7 DEF Ending
<1> QED BY <1>0, <1>4, <1>5, <1>6, <1>7 DEF Keeps, ConnInv, Grown

(* The counters of the calls of conn_cb_ and of close_cb_.                 *)
LEMMA UpsAre ==
    ASSUME NEW c \in Conn, NEW n \in Nat
    PROVE  LET d == [c EXCEPT !.ups = n] IN
           /\ d \in Conn /\ SamePoller(c, d) /\ SameStream(c, d) /\ d.state = c.state /\ d.ioq = c.ioq
           /\ d.ups = n /\ d.raced = c.raced /\ d.downs = c.downs /\ d.mainq = c.mainq /\ d.inMap = c.inMap /\ d.gone = c.gone
<1> DEFINE d == [c EXCEPT !.ups = n]
<1>1. d \in Conn
  BY ZenonT(40) DEF Conn
<1>2. /\ d.state = c.state /\ d.ioq = c.ioq
      /\ d.ups = n /\ d.raced = c.raced /\ d.downs = c.downs /\ d.mainq = c.mainq /\ d.inMap = c.inMap /\ d.gone = c.gone
  BY DEF Conn
<1>3. SamePoller(c, d) /\ SameStream(c, d)
  BY DEF Conn, SamePoller, SameStream
<1> QED BY <1>1, <1>2, <1>3

(* The count of down callbacks changes nothing else.                       *)
LEMMA DownsAre ==
    ASSUME NEW c \in Conn, NEW n \in Nat
    PROVE  LET d == [c EXCEPT !.downs = n] IN
           /\ d \in Conn /\ SamePoller(c, d) /\ SameStream(c, d) /\ d.state = c.state /\ d.ioq = c.ioq
           /\ d.downs = n /\ d.raced = c.raced /\ d.ups = c.ups /\ d.mainq = c.mainq /\ d.inMap = c.inMap /\ d.gone = c.gone
<1> DEFINE d == [c EXCEPT !.downs = n]
<1>1. d \in Conn
  BY ZenonT(40) DEF Conn
<1>2. /\ d.state = c.state /\ d.ioq = c.ioq
      /\ d.downs = n /\ d.raced = c.raced /\ d.ups = c.ups /\ d.mainq = c.mainq /\ d.inMap = c.inMap /\ d.gone = c.gone
  BY DEF Conn
<1>3. SamePoller(c, d) /\ SameStream(c, d)
  BY DEF Conn, SamePoller, SameStream
<1> QED BY <1>1, <1>2, <1>3

(* Nor does the queue of the main loop.                                    *)
LEMMA MainqIs ==
    ASSUME NEW c \in Conn, NEW n \in Nat
    PROVE  LET d == [c EXCEPT !.mainq = n] IN
           /\ d \in Conn /\ SamePoller(c, d) /\ SameStream(c, d) /\ d.state = c.state /\ d.ioq = c.ioq
           /\ d.mainq = n /\ d.raced = c.raced /\ d.ups = c.ups /\ d.downs = c.downs /\ d.inMap = c.inMap /\ d.gone = c.gone
<1> DEFINE d == [c EXCEPT !.mainq = n]
<1>1. d \in Conn
  BY ZenonT(40) DEF Conn
<1>2. /\ d.state = c.state /\ d.ioq = c.ioq
      /\ d.mainq = n /\ d.raced = c.raced /\ d.ups = c.ups /\ d.downs = c.downs /\ d.inMap = c.inMap /\ d.gone = c.gone
  BY DEF Conn
<1>3. SamePoller(c, d) /\ SameStream(c, d)
  BY DEF Conn, SamePoller, SameStream
<1> QED BY <1>1, <1>2, <1>3

(* handle_close.                                                           *)
LEMMA HandleCloseKeeps ==
    ASSUME NEW c, ConnInv(c), c.state # "CONNECTING", c.raced \/ Open(c), NEW d \in HandleClose(c)
    PROVE  Keeps(c, d) /\ d.events = {}
<1>0. c \in Conn /\ PollerInv(c) /\ StreamInv(c) /\ Beginning(c) /\ Ending(c) /\ QueueInv(c)
  BY DEF ConnInv
<1> DEFINE a == [c EXCEPT !.state = "DISCONNECTED"]
           l == Listens(a, {})
           b == [l EXCEPT !.downs = l.downs + 1]
<1>1. /\ a \in Conn /\ SamePoller(c, a) /\ SameStream(c, a) /\ SameLife(c, a)
      /\ a.state = "DISCONNECTED" /\ a.ioq = c.ioq
  <2>1. "DISCONNECTED" \in States
    BY DEF States
  <2> QED BY <1>0, <2>1, StateIs
<1>2. PICK e \in UserCb(b) : d = [e EXCEPT !.mainq = e.mainq + 1]
  BY DEF HandleClose, DisableAll, Listens
<1> HIDE DEF a
<1>3. /\ l \in Conn /\ PollerInv(l) /\ SameStream(a, l) /\ SameLife(a, l) /\ l.state = a.state /\ l.ioq = a.ioq
      /\ l.events = {} /\ l.idx = IF a.idx = "ADDED" THEN "DELETED" ELSE "ADDED"
  <2>1. PollerInv(a)
    BY <1>0, <1>1 DEF PollerInv, SamePoller
  <2>2. {} \in SUBSET {"r", "w"}
    OBVIOUS
  <2> QED BY <1>1, <2>1, <2>2, ListenIs
<1> HIDE DEF l
<1>4. l.downs \in Nat
  BY <1>3, ConnFields
<1>5. /\ b \in Conn /\ b.downs = l.downs + 1 /\ b.state = l.state /\ b.ioq = l.ioq
      /\ b.raced = l.raced /\ b.ups = l.ups /\ b.mainq = l.mainq /\ b.inMap = l.inMap /\ b.gone = l.gone
      /\ SamePoller(l, b) /\ SameStream(l, b)
  <2>1. l.downs + 1 \in Nat
    BY <1>4
  <2> QED BY <1>3, <2>1, DownsAre
<1> HIDE DEF b
<1>7. PollerInv(b) /\ StreamInv(b)
  <2>1. PollerInv(b)
    BY <1>3, <1>5 DEF PollerInv, SamePoller
  <2>2. StreamInv(b)
    BY <1>0, <1>1, <1>3, <1>5 DEF StreamInv, SameStream, Broken
  <2> QED BY <2>1, <2>2
<1>8. e = b
  BY <1>1, <1>3, <1>5, <1>7, UserCbActs
<1>9. b.mainq \in Nat
  BY <1>5, ConnFields
<1>10. /\ d \in Conn /\ d.mainq = b.mainq + 1 /\ d.state = b.state /\ d.ioq = b.ioq
       /\ d.raced = b.raced /\ d.ups = b.ups /\ d.downs = b.downs /\ d.inMap = b.inMap /\ d.gone = b.gone
       /\ SamePoller(b, d) /\ SameStream(b, d)
  <2>1. b.mainq + 1 \in Nat
    BY <1>9
  <2>2. d = [b EXCEPT !.mainq = b.mainq + 1]
    BY <1>2, <1>8
  <2> QED BY <1>5, <2>1, <2>2, MainqIs
<1>12. PollerInv(d) /\ StreamInv(d)
  <2>1. PollerInv(d)
    BY <1>7, <1>10 DEF PollerInv, SamePoller
  <2>2. StreamInv(d)
    BY <1>7, <1>10 DEF StreamInv, SameStream, Broken
  <2> QED BY <2>1, <2>2
<1>13. /\ d.state = "DISCONNECTED" /\ d.ioq = c.ioq /\ d.raced = c.raced /\ d.ups = c.ups
       /\ d.downs = c.downs + 1 /\ d.inMap = c.inMap /\ d.gone = c.gone /\ d.events = {}
       /\ d.idx = IF c.idx = "ADDED" THEN "DELETED" ELSE "ADDED"
  BY <1>1, <1>3, <1>5, <1>10 DEF SameLife, SamePoller
<1>14. \A op : Queued(d, op) <=> Queued(c, op)
  BY <1>13 DEF Queued
<1>15. QueueInv(d) /\ Beginning(d)
  BY <1>0, <1>13, <1>14 DEF QueueInv, Beginning
<1>16. Ending(d)
  BY <1>0, <1>13, <1>14 DEF Ending, Open
<1>17. Len(c.ioq) <= Len(d.ioq)
  BY <1>0, <1>13, ConnFields
<1> QED BY <1>10, <1>12, <1>13, <1>15, <1>16, <1>17 DEF Keeps, ConnInv

(* handle_read and handle_event, which epoll reports only for a channel    *)
(* that is in the epoll set.                                               *)
LEMMA Reported ==
    ASSUME NEW c, ConnInv(c), c.inEpoll
    PROVE  c.state # "CONNECTING" /\ (c.raced \/ Open(c))
<1>1. c.idx = "ADDED" /\ c.state \in States
  BY ConnFields DEF ConnInv, PollerInv
<1> QED BY <1>1 DEF ConnInv, Beginning, Ending, Open, States

(* tcp_connection::handle_read.                                            *)
LEMMA HandleReadKeeps ==
    ASSUME NEW c, ConnInv(c), c.state # "CONNECTING", c.raced \/ Open(c), NEW d \in HandleRead(c)
    PROVE  Keeps(c, d)
<1>0. c \in Conn /\ PollerInv(c) /\ StreamInv(c)
  BY DEF ConnInv
<1>1. CASE c.inbound
  <2> DEFINE b == [c EXCEPT !.inbound = FALSE]
  <2>1. d \in UserCb(b)
    BY <1>1 DEF HandleRead
  <2>2. b \in Conn /\ b.state = c.state /\ b.ioq = c.ioq
    BY <1>0, ZenonT(40) DEF Conn
  <2>3. SamePoller(c, b) /\ SameStream(c, b) /\ SameLife(c, b)
    BY <1>0 DEF Conn, SamePoller, SameStream, SameLife
  <2> HIDE DEF b
  <2>4. PollerInv(b) /\ StreamInv(b)
    BY <1>0, <2>3 DEF PollerInv, StreamInv, SamePoller, SameStream, Broken
  <2>5. Acts(b, d)
    BY <2>1, <2>2, <2>4, UserCbActs
  <2>6. SameLife(c, d) /\ Grown(c, d)
    BY <2>2, <2>3, <2>5 DEF Acts, SameLife, Grown
  <2>7. Acts(c, d)
    BY <2>2, <2>3, <2>5, <2>6 DEF Acts, SamePoller
  <2> QED BY <2>7, ActsKeeps
<1>2. CASE ~c.inbound /\ c.peer # "open"
  <2>1. d \in HandleClose(c)
    BY <1>2 DEF HandleRead
  <2> QED BY <2>1, HandleCloseKeeps
<1>3. CASE ~c.inbound /\ c.peer = "open"
  <2>1. d = c
    BY <1>3 DEF HandleRead
  <2> QED BY <1>0, <2>1, ActsNothing, ActsKeeps
<1> QED BY <1>1, <1>2, <1>3

(* Two steps that keep the invariant.                                      *)
LEMMA KeepsInTurn ==
    ASSUME NEW c \in Conn, NEW d, NEW e, Keeps(c, d), Keeps(d, e)
    PROVE  Keeps(c, e)
<1>1. d \in Conn /\ e \in Conn
  BY DEF Keeps, ConnInv
<1>2. Len(c.ioq) \in Nat /\ Len(d.ioq) \in Nat /\ Len(e.ioq) \in Nat
  BY <1>1, ConnFields
<1>3. Len(c.ioq) <= Len(d.ioq) /\ Len(d.ioq) <= Len(e.ioq)
  BY DEF Keeps
<1>4. Len(c.ioq) <= Len(e.ioq)
  BY <1>2, <1>3
<1> QED BY <1>4 DEF Keeps

(* channel::handle_event, whatever the poller reports.                     *)
LEMMA HandleEventKeeps ==
    ASSUME NEW c, ConnInv(c), c.inEpoll, NEW revents, NEW d \in HandleEvent(c, revents)
    PROVE  Keeps(c, d)
<1>0. c \in Conn /\ PollerInv(c) /\ StreamInv(c)
  BY DEF ConnInv
<1>1. c.state # "CONNECTING" /\ (c.raced \/ Open(c))
  BY Reported
<1>2. \E b \in IF "HUP" \in revents /\ "IN" \notin revents THEN HandleClose(c) ELSE {c} :
        \E r \in IF "IN" \in revents THEN HandleRead(b) ELSE {b} :
            d \in IF "OUT" \in revents THEN HandleWrite(r) ELSE {r}
  BY DEF HandleEvent
<1>3. PICK r : /\ r = c \/ r \in HandleClose(c) \/ r \in HandleRead(c)
               /\ d = r \/ d \in HandleWrite(r)
  BY <1>2
<1>4. Keeps(c, r)
  <2>1. Keeps(c, c)
    BY <1>0, <1>1, ActsNothing, ActsKeeps
  <2>2. r \in HandleClose(c) => Keeps(c, r)
    BY <1>1, HandleCloseKeeps
  <2>3. r \in HandleRead(c) => Keeps(c, r)
    BY <1>1, HandleReadKeeps
  <2> QED BY <1>3, <2>1, <2>2, <2>3
<1>5. CASE d \in HandleWrite(r)
  <2>1. r \in Conn /\ PollerInv(r) /\ StreamInv(r) /\ ConnInv(r) /\ r.state # "CONNECTING"
    BY <1>4 DEF Keeps, ConnInv
  <2>2. Acts(r, d)
    BY <1>5, <2>1, HandleWriteActs
  <2>3. Keeps(r, d)
    BY <2>1, <2>2, ActsKeeps
  <2> QED BY <1>0, <1>4, <2>3, KeepsInTurn
<1> QED BY <1>3, <1>4, <1>5

(* connect_established, the only functor of a connection that is still     *)
(* CONNECTING; c is the record without it in the queue.                    *)
LEMMA EstablishedKeeps ==
    ASSUME NEW c \in Conn, PollerInv(c), StreamInv(c), c.state = "CONNECTING", c.ioq = <<>>,
           c.ups = 0, c.downs = 0, c.mainq = 0, ~c.gone, ~c.raced,
           NEW d \in ConnectEstablished(c)
    PROVE  Keeps(c, d)
<1> DEFINE a == [c EXCEPT !.state = "CONNECTED"]
           l == Listens(a, a.events \union {"r"})
           b == [l EXCEPT !.ups = l.ups + 1]
<1>1. d \in UserCb(b)
  BY DEF ConnectEstablished, EnableEvent, Listens
<1>2. /\ a \in Conn /\ SamePoller(c, a) /\ SameStream(c, a) /\ SameLife(c, a)
      /\ a.state = "CONNECTED" /\ a.ioq = c.ioq
  <2>1. "CONNECTED" \in States
    BY DEF States
  <2> QED BY <2>1, StateIs
<1> HIDE DEF a
<1>3. /\ l \in Conn /\ PollerInv(l) /\ SameStream(a, l) /\ SameLife(a, l) /\ l.state = a.state /\ l.ioq = a.ioq
      /\ l.events = a.events \union {"r"}
      /\ l.idx = IF a.idx = "ADDED" /\ a.events \union {"r"} = {} THEN "DELETED" ELSE "ADDED"
  <2>1. PollerInv(a)
    BY <1>2 DEF PollerInv, SamePoller
  <2>2. a.events \union {"r"} \in SUBSET {"r", "w"}
    BY <1>2, ConnFields
  <2> QED BY <1>2, <2>1, <2>2, ListenIs
<1>4. l.idx = "ADDED" /\ "r" \in l.events
  BY <1>3
<1>5. l.ups = 0 /\ l.downs = 0 /\ l.mainq = 0 /\ ~l.gone /\ ~l.raced
  BY <1>2, <1>3 DEF SameLife
<1> HIDE DEF l
<1>6. /\ b \in Conn /\ SamePoller(l, b) /\ SameStream(l, b) /\ b.state = l.state /\ b.ioq = l.ioq
      /\ b.ups = 1 /\ b.raced = l.raced /\ b.downs = l.downs /\ b.mainq = l.mainq
      /\ b.inMap = l.inMap /\ b.gone = l.gone
  <2>1. l.ups + 1 = 1 /\ l.ups + 1 \in Nat
    BY <1>5
  <2> QED BY <1>3, <2>1, UpsAre
<1> HIDE DEF b
<1>7. PollerInv(b) /\ StreamInv(b)
  <2>1. PollerInv(b)
    BY <1>3, <1>6 DEF PollerInv, SamePoller
  <2>2. StreamInv(b)
    BY <1>2, <1>3, <1>6, ZenonT(40) DEF StreamInv, SameStream, Broken
  <2> QED BY <2>1, <2>2
<1>8. b.state = "CONNECTED" /\ b.ioq = <<>> /\ b.idx = "ADDED" /\ "r" \in b.events
  BY <1>2, <1>3, <1>4, <1>6 DEF SamePoller
<1>9. QueueInv(b) /\ \A op : ~Queued(b, op)
  BY <1>8 DEF QueueInv, Queued
<1>10. Beginning(b) /\ Ending(b)
  BY <1>5, <1>6, <1>8, <1>9 DEF Beginning, Ending, Open
<1>11. ConnInv(b)
  BY <1>6, <1>7, <1>9, <1>10 DEF ConnInv
<1>12. Keeps(b, d)
  BY <1>1, <1>6, <1>7, <1>8, <1>11, UserCbActs, ActsKeeps
<1>13. Len(c.ioq) <= Len(d.ioq)
  BY <1>8, <1>12 DEF Keeps
<1> QED BY <1>12, <1>13 DEF Keeps

(* connect_destroyed, which is queued once the connection is out of        *)
(* connections_.                                                           *)
LEMMA DestroyedKeeps ==
    ASSUME NEW c, ConnInv(c), c.state # "CONNECTING", ~c.inMap, c.raced \/ c.state = "DISCONNECTED",
           NEW d \in ConnectDestroyed(c)
    PROVE  Keeps(c, d)
<1>0. c \in Conn /\ PollerInv(c) /\ StreamInv(c) /\ Beginning(c) /\ Ending(c) /\ QueueInv(c)
  BY DEF ConnInv
<1>1. ASSUME NEW b \in Conn, PollerInv(b), StreamInv(b), b.state # "CONNECTING", b.ioq = c.ioq,
             b.raced = c.raced, b.ups = c.ups, b.inMap = c.inMap,
             ~c.raced => b.state = c.state /\ b.downs = c.downs /\ b.events = c.events,
             d = [RemoveChannel(b) EXCEPT !.gone = TRUE]
      PROVE  Keeps(c, d)
  <2>1. /\ d \in Conn /\ PollerInv(d) /\ SameStream(b, d) /\ d.state = b.state /\ d.ioq = b.ioq
        /\ d.idx = "NEW" /\ d.events = b.events /\ d.gone
        /\ d.raced = b.raced /\ d.ups = b.ups /\ d.downs = b.downs /\ d.mainq = b.mainq /\ d.inMap = b.inMap
    BY <1>1, RemoveChannelIs, ZenonT(40)
  <2>2. StreamInv(d)
    BY <1>1, <2>1 DEF StreamInv, SameStream, Broken
  <2>3. \A op : Queued(d, op) <=> Queued(c, op)
    BY <1>1, <2>1 DEF Queued
  <2>4. QueueInv(d) /\ Beginning(d)
    BY <1>0, <1>1, <2>1, <2>3 DEF QueueInv, Beginning
  <2>5. Ending(d)
    <3>1. ~d.raced => d.state = "DISCONNECTED" /\ d.downs = 1 /\ d.events = {}
      BY <1>0, <1>1, <2>1 DEF Ending
    <3>2. ~d.raced => ~Open(d)
      BY <3>1 DEF Open
    <3> QED BY <1>1, <2>1, <3>1, <3>2 DEF Ending
  <2>6. Len(c.ioq) <= Len(d.ioq)
    BY <1>0, <1>1, <2>1, ConnFields
  <2> QED BY <1>1, <2>1, <2>2, <2>4, <2>5, <2>6 DEF Keeps, ConnInv
<1>2. CASE c.state # "CONNECTED"
  <2>1. d = [RemoveChannel(c) EXCEPT !.gone = TRUE]
    BY <1>2 DEF ConnectDestroyed
  <2> QED BY <1>0, <1>1, <2>1
<1>3. CASE c.state = "CONNECTED"
  <2> DEFINE a == [c EXCEPT !.state = "DISCONNECTED"]
             l == Listens(a, {})
             b == [l EXCEPT !.downs = l.downs + 1]
  <2>1. PICK e \in UserCb(b) : d = [RemoveChannel(e) EXCEPT !.gone = TRUE]
    BY <1>3 DEF ConnectDestroyed, DisableAll, Listens
  <2>2. /\ a \in Conn /\ SamePoller(c, a) /\ SameStream(c, a) /\ SameLife(c, a)
        /\ a.state = "DISCONNECTED" /\ a.ioq = c.ioq
    <3>1. "DISCONNECTED" \in States
      BY DEF States
    <3> QED BY <1>0, <3>1, StateIs
  <2> HIDE DEF a
  <2>3. /\ l \in Conn /\ PollerInv(l) /\ SameStream(a, l) /\ SameLife(a, l) /\ l.state = a.state /\ l.ioq = a.ioq
    <3>1. PollerInv(a)
      BY <1>0, <2>2 DEF PollerInv, SamePoller
    <3>2. {} \in SUBSET {"r", "w"}
      OBVIOUS
    <3> QED BY <2>2, <3>1, <3>2, ListenIs
  <2> HIDE DEF l
  <2>4. /\ b \in Conn /\ SamePoller(l, b) /\ SameStream(l, b) /\ b.state = l.state /\ b.ioq = l.ioq
        /\ b.raced = l.raced /\ b.ups = l.ups /\ b.inMap = l.inMap
    <3>1. l.downs + 1 \in Nat
      BY <2>3, ConnFields
    <3> QED BY <2>3, <3>1, DownsAre
  <2> HIDE DEF b
  <2>5. PollerInv(b) /\ StreamInv(b)
    <3>1. PollerInv(b)
      BY <2>3, <2>4 DEF PollerInv, SamePoller
    <3>2. StreamInv(b)
      BY <1>0, <2>2, <2>3, <2>4 DEF StreamInv, SameStream, Broken
    <3> QED BY <3>1, <3>2
  <2>6. e = b
    BY <2>1, <2>2, <2>3, <2>4, <2>5, UserCbActs
  <2>7. b.state # "CONNECTING" /\ b.ioq = c.ioq /\ b.raced = c.raced /\ b.ups = c.ups /\ b.inMap = c.inMap
    BY <2>2, <2>3, <2>4 DEF SameLife
  <2>8. d = [RemoveChannel(b) EXCEPT !.gone = TRUE]
    BY <2>1, <2>6
  <2> QED BY <1>1, <1>3, <2>4, <2>5, <2>7, <2>8
<1> QED BY <1>2, <1>3

(* do_pending_functors takes a functor from the front of the queue.        *)
Popped(c) == [c EXCEPT !.ioq = Tail(c.ioq)]

(* The functor to run leaves the queue.                                    *)
LEMMA PoppedIs ==
    ASSUME NEW c \in Conn, c.ioq # <<>>
    PROVE  LET d == Popped(c) IN
           /\ d \in Conn /\ SamePoller(c, d) /\ SameStream(c, d) /\ SameLife(c, d) /\ d.state = c.state
           /\ d.ioq = Tail(c.ioq) /\ Len(d.ioq) = Len(c.ioq) - 1
           /\ \A i \in 1..Len(d.ioq) : i + 1 \in 1..Len(c.ioq) /\ d.ioq[i] = c.ioq[i + 1]
           /\ Head(c.ioq) \in FunctorSet /\ 1 \in 1..Len(c.ioq) /\ Head(c.ioq) = c.ioq[1]
<1> DEFINE q == Tail(c.ioq)
           d == [c EXCEPT !.ioq = q]
<1>0. c.ioq \in Seq(FunctorSet) /\ Len(c.ioq) \in Nat
  BY ConnFields
<1>1. /\ Head(c.ioq) \in FunctorSet /\ q \in Seq(FunctorSet) /\ Len(q) = Len(c.ioq) - 1
      /\ \A i \in 1..Len(q) : q[i] = c.ioq[i + 1]
  BY <1>0, HeadTailProperties
<1>2. Len(q) \in Nat
  BY <1>1, LenProperties
<1>3. 1 \in 1..Len(c.ioq) /\ \A i \in 1..Len(q) : i + 1 \in 1..Len(c.ioq)
  BY <1>0, <1>1, <1>2
<1>4. Head(c.ioq) = c.ioq[1]
  BY <1>0
<1>5. q \in Seq([op : FunctorOps, m : Msgs \union {NoMsg}])
  BY <1>1 DEF FunctorSet
<1> HIDE DEF q
<1>6. /\ d \in Conn /\ d.ioq = q /\ d.state = c.state
      /\ SamePoller(c, d) /\ SameStream(c, d) /\ SameLife(c, d)
  BY <1>5, IoqIs
<1>7. Popped(c) = d
  BY DEF Popped, q
<1> HIDE DEF d
<1>8. d.ioq = Tail(c.ioq)
  BY <1>6 DEF q
<1> QED BY <1>1, <1>3, <1>4, <1>6, <1>7, <1>8

(* That alone keeps the invariant.                                         *)
LEMMA PoppedKeeps ==
    ASSUME NEW c, ConnInv(c), c.state # "CONNECTING", c.ioq # <<>>
    PROVE  LET d == Popped(c)
               f == Head(c.ioq) IN
           /\ ConnInv(d) /\ d.state # "CONNECTING" /\ Len(d.ioq) = Len(c.ioq) - 1
           /\ f \in FunctorSet /\ f.op # "established"
           /\ f.op = "send" => f.m \in Msgs
           /\ f.op = "destroyed" => ~d.inMap /\ (d.raced \/ d.state = "DISCONNECTED")
<1>0. c \in Conn /\ PollerInv(c) /\ StreamInv(c) /\ Beginning(c) /\ Ending(c) /\ QueueInv(c)
  BY DEF ConnInv
<1> DEFINE d == Popped(c)
           f == Head(c.ioq)
<1>1. /\ d \in Conn /\ SamePoller(c, d) /\ SameStream(c, d) /\ SameLife(c, d) /\ d.state = c.state
      /\ Len(d.ioq) = Len(c.ioq) - 1
      /\ \A i \in 1..Len(d.ioq) : i + 1 \in 1..Len(c.ioq) /\ d.ioq[i] = c.ioq[i + 1]
      /\ f \in FunctorSet /\ 1 \in 1..Len(c.ioq) /\ f = c.ioq[1]
  BY <1>0, PoppedIs
<1> HIDE DEF d, f
<1>2. \A op : Queued(d, op) => Queued(c, op)
  BY <1>1 DEF Queued
<1>3. QueueInv(d)
  BY <1>0, <1>1 DEF QueueInv
<1>4. \A op : f.op = op => Queued(c, op)
  BY <1>1 DEF Queued
<1>5. PollerInv(d)
  BY <1>0, <1>1 DEF PollerInv, SamePoller
<1>6. StreamInv(d)
  BY <1>0, <1>1 DEF StreamInv, SameStream, Broken
<1>7. Beginning(d)
  BY <1>0, <1>1, <1>2 DEF Beginning, SameLife
<1>8. Ending(d)
  BY <1>0, <1>1, <1>2 DEF Ending, Open, SameLife, SamePoller
<1>9. f.op # "established" /\ (f.op = "send" => f.m \in Msgs)
  BY <1>0, <1>1, <1>4 DEF Beginning, QueueInv
<1>10. f.op = "destroyed" => ~d.inMap /\ (d.raced \/ d.state = "DISCONNECTED")
  <2>1. d.state = "DISCONNECTED" \/ Open(c)
    BY <1>0, <1>1, ConnFields DEF States, Open
  <2> QED BY <1>0, <1>1, <1>4, <2>1 DEF Ending, SameLife
<1> QED BY <1>1, <1>3, <1>5, <1>6, <1>7, <1>8, <1>9, <1>10 DEF ConnInv, d, f

(* One functor of the io loop.                                             *)
LEMMA RunFunctorKeeps ==
    ASSUME NEW c, ConnInv(c), c.ioq # <<>>, NEW d \in RunFunctor(Popped(c), Head(c.ioq))
    PROVE  ConnInv(d) /\ d.state # "CONNECTING" /\ Len(c.ioq) - 1 <= Len(d.ioq)
<1> DEFINE p == Popped(c)
           f == Head(c.ioq)
<1>0. c \in Conn /\ PollerInv(c) /\ StreamInv(c) /\ Beginning(c)
  BY DEF ConnInv
<1>1. SUFFICES p \in Conn /\ Len(p.ioq) = Len(c.ioq) - 1 /\ Keeps(p, d)
  BY DEF Keeps
<1>2. /\ p \in Conn /\ SamePoller(c, p) /\ SameStream(c, p) /\ SameLife(c, p) /\ p.state = c.state
      /\ p.ioq = Tail(c.ioq) /\ Len(p.ioq) = Len(c.ioq) - 1
  BY <1>0, PoppedIs
<1>3. CASE c.state = "CONNECTING"
  <2>1. /\ c.ups = 0 /\ c.downs = 0 /\ c.mainq = 0 /\ ~c.gone /\ ~c.raced
        /\ c.ioq = <<Functor("established")>>
    BY <1>0, <1>3 DEF Beginning
  <2>2. f.op = "established" /\ p.ioq = <<>>
    BY <1>2, <2>1 DEF Functor
  <2>3. d \in ConnectEstablished(p)
    BY <2>2 DEF RunFunctor
  <2> HIDE DEF p
  <2>4. PollerInv(p) /\ StreamInv(p)
    BY <1>0, <1>2 DEF PollerInv, StreamInv, SamePoller, SameStream, Broken
  <2>5. Keeps(p, d)
    BY <1>2, <1>3, <2>1, <2>2, <2>3, <2>4, EstablishedKeeps DEF SameLife
  <2> QED BY <1>2, <2>5
<1>4. CASE c.state # "CONNECTING"
  <2>1. /\ ConnInv(p) /\ p.state # "CONNECTING"
        /\ f \in FunctorSet /\ f.op # "established"
        /\ f.op = "send" => f.m \in Msgs
        /\ f.op = "destroyed" => ~p.inMap /\ (p.raced \/ p.state = "DISCONNECTED")
    BY <1>4, PoppedKeeps
  <2>2. d \in RunFunctor(p, f)
    OBVIOUS
  <2> HIDE DEF p, f
  <2>3. p \in Conn /\ PollerInv(p) /\ StreamInv(p)
    BY <2>1 DEF ConnInv
  <2>4. CASE f.op = "destroyed"
    <3>1. d \in ConnectDestroyed(p)
      BY <2>2, <2>4 DEF RunFunctor
    <3> QED BY <1>2, <2>1, <2>4, <3>1, DestroyedKeeps
  <2>5. CASE f.op = "send"
    <3>1. d \in SendInloop(p, f.m)
      BY <2>2, <2>5 DEF RunFunctor
    <3>2. Acts(p, d)
      BY <2>1, <2>3, <2>5, <3>1, SendInloopActs
    <3> QED BY <1>2, <2>1, <3>2, ActsKeeps
  <2>6. CASE f.op = "shutdown"
    <3>1. d = ShutdownInloop(p)
      BY <2>2, <2>6 DEF RunFunctor
    <3>2. Acts(p, d)
      BY <2>3, <3>1, ShutdownActs
    <3> QED BY <1>2, <2>1, <3>2, ActsKeeps
  <2>7. CASE f.op = "force_close"
    <3>1. d \in ForceCloseInloop(p)
      BY <2>2, <2>7 DEF RunFunctor
    <3>2. CASE Open(p)
      <4>1. d \in HandleClose(p)
        BY <3>1, <3>2 DEF ForceCloseInloop, Open
      <4> QED BY <1>2, <2>1, <3>2, <4>1, HandleCloseKeeps
    <3>3. CASE ~Open(p)
      <4>1. d = p
        BY <3>1, <3>3 DEF ForceCloseInloop, Open
      <4> QED BY <1>2, <2>1, <2>3, <4>1, ActsNothing, ActsKeeps
    <3> QED BY <3>2, <3>3
  <2>8. CASE f.op \notin {"established", "destroyed", "send", "shutdown", "force_close"}
    <3>1. d \in UserCb(p)
      BY <2>2, <2>8 DEF RunFunctor
    <3>2. Acts(p, d)
      BY <2>3, <3>1, UserCbActs
    <3> QED BY <1>2, <2>1, <3>2, ActsKeeps
  <2> QED BY <2>1, <2>4, <2>5, <2>6, <2>7, <2>8
<1> QED BY <1>3, <1>4

------------------------------------------------------------------------------
(* The other threads, the main loop and the peer                           *)

(* A functor from another thread, or from the main loop once the table has *)
(* forgotten the connection.                                               *)
LEMMA QueueKeeps ==
    ASSUME NEW c, ConnInv(c), c.state # "CONNECTING", NEW f \in FunctorSet, f.op # "established",
           f.op = "send" => f.m \in Msgs,
           f.op = "destroyed" => ~c.inMap /\ (c.raced \/ c.state = "DISCONNECTED")
    PROVE  Keeps(c, Queue(c, f))
<1>0. c \in Conn /\ PollerInv(c) /\ StreamInv(c) /\ Beginning(c) /\ Ending(c) /\ QueueInv(c)
  BY DEF ConnInv
<1> DEFINE d == Queue(c, f)
<1>1. /\ d \in Conn /\ SamePoller(c, d) /\ SameStream(c, d) /\ SameLife(c, d) /\ d.state = c.state
      /\ Len(d.ioq) = Len(c.ioq) + 1
      /\ \A i \in 1..Len(c.ioq) : d.ioq[i] = c.ioq[i]
      /\ d.ioq[Len(d.ioq)] = f
  BY <1>0, QueueIs
<1> HIDE DEF d
<1>2. Len(c.ioq) \in Nat /\ Len(c.ioq) <= Len(d.ioq)
  BY <1>0, <1>1, ConnFields
<1>3. \A i \in 1..Len(d.ioq) : i \in 1..Len(c.ioq) \/ i = Len(d.ioq)
  BY <1>1, <1>2
<1>4. \A i \in 1..Len(d.ioq) : (i \in 1..Len(c.ioq) /\ d.ioq[i] = c.ioq[i]) \/ d.ioq[i] = f
  BY <1>1, <1>3
<1>5. \A op : Queued(d, op) => Queued(c, op) \/ f.op = op
  BY <1>4 DEF Queued
<1>6. QueueInv(d)
  BY <1>0, <1>4 DEF QueueInv
<1>7. PollerInv(d)
  BY <1>0, <1>1 DEF PollerInv, SamePoller
<1>8. StreamInv(d)
  BY <1>0, <1>1 DEF StreamInv, SameStream, Broken
<1>9. Beginning(d)
  BY <1>0, <1>1, <1>5 DEF Beginning, SameLife
<1>10. Ending(d)
  BY <1>0, <1>1, <1>5 DEF Ending, Open, SameLife, SamePoller
<1> QED BY <1>1, <1>2, <1>6, <1>7, <1>8, <1>9, <1>10 DEF Keeps, ConnInv, d

(* remove_connection_inloop.                                               *)
LEMMA RemoveKeeps ==
    ASSUME NEW c, ConnInv(c), c.mainq > 0
    PROVE  Keeps(c, [Queue(c, Functor("destroyed")) EXCEPT !.mainq = @ - 1, !.inMap = FALSE])
<1>0. c \in Conn /\ PollerInv(c) /\ StreamInv(c) /\ Beginning(c) /\ Ending(c) /\ QueueInv(c)
  BY DEF ConnInv
<1>1. c.mainq \in Nat /\ c.mainq # 0 /\ c.state \in States /\ Len(c.ioq) \in Nat
  BY <1>0, ConnFields
<1>2. c.state # "CONNECTING" /\ (c.raced \/ c.state = "DISCONNECTED")
  BY <1>0, <1>1 DEF Beginning, Ending, Open, States
<1> DEFINE n == c.mainq - 1
           b == [c EXCEPT !.inMap = FALSE]
           a == [b EXCEPT !.mainq = n]
           f == Functor("destroyed")
<1>3. /\ b \in Conn /\ b.state = c.state /\ b.ioq = c.ioq
      /\ b.raced = c.raced /\ b.ups = c.ups /\ b.downs = c.downs /\ b.mainq = c.mainq /\ b.gone = c.gone
      /\ b.inMap = FALSE
  BY <1>0, ZenonT(40) DEF Conn
<1>4. SamePoller(c, b) /\ SameStream(c, b)
  BY <1>0 DEF Conn, SamePoller, SameStream
<1>5. n \in Nat
  BY <1>1
<1> DEFINE d == [Queue(c, f) EXCEPT !.mainq = @ - 1, !.inMap = FALSE]
<1>6. d = Queue(a, f)
  <2>1. Queue(c, f).mainq = c.mainq
    BY <1>0 DEF Conn, Queue
  <2>2. d = [[[c EXCEPT !.ioq = Append(c.ioq, f)] EXCEPT !.mainq = n] EXCEPT !.inMap = FALSE]
    BY <2>1 DEF Queue
  <2>3. a.ioq = c.ioq
    BY <1>0 DEF Conn
  <2>4. Queue(a, f) = [[[c EXCEPT !.inMap = FALSE] EXCEPT !.mainq = n] EXCEPT !.ioq = Append(c.ioq, f)]
    BY <2>3 DEF Queue
  <2> HIDE DEF n, f
  <2> QED BY <1>0, <2>2, <2>4 DEF Conn
<1> HIDE DEF b, n
<1>7. /\ a \in Conn /\ SamePoller(b, a) /\ SameStream(b, a) /\ a.state = b.state /\ a.ioq = b.ioq
      /\ a.raced = b.raced /\ a.ups = b.ups /\ a.downs = b.downs /\ a.inMap = b.inMap /\ a.gone = b.gone
      /\ a.mainq = n
  BY <1>3, <1>5, MainqIs
<1> HIDE DEF a
<1>8. \A op : Queued(a, op) <=> Queued(c, op)
  BY <1>3, <1>7 DEF Queued
<1>9. PollerInv(a)
  BY <1>0, <1>4, <1>7 DEF PollerInv, SamePoller
<1>10. StreamInv(a)
  BY <1>0, <1>4, <1>7 DEF StreamInv, SameStream, Broken
<1>11. QueueInv(a) /\ Beginning(a)
  BY <1>0, <1>2, <1>3, <1>7, <1>8 DEF QueueInv, Beginning
<1>12. Ending(a)
  <2>1. ~a.raced => ~Open(a)
    BY <1>2, <1>3, <1>7 DEF Open
  <2> QED BY <1>0, <1>3, <1>4, <1>7, <1>8, <2>1 DEF Ending, SamePoller
<1>13. ConnInv(a)
  BY <1>7, <1>9, <1>10, <1>11, <1>12 DEF ConnInv
<1>14. f \in FunctorSet /\ f.op = "destroyed"
  BY OwnFunctor DEF FunctorOps
<1> HIDE DEF f, d
<1>15. Keeps(a, d)
  BY <1>2, <1>3, <1>6, <1>7, <1>13, <1>14, QueueKeeps
<1>16. Keeps(c, d)
  BY <1>3, <1>7, <1>15 DEF Keeps
<1> QED BY <1>16 DEF d, f

(* shutdown and force_close of another thread store state_.                *)
LEMMA SetStateKeeps ==
    ASSUME NEW c, ConnInv(c), c.state # "CONNECTING"
    PROVE  Keeps(c, [c EXCEPT !.state = "DISCONNECTING", !.raced = @ \/ c.state = "DISCONNECTED"])
<1>0. c \in Conn /\ PollerInv(c) /\ StreamInv(c) /\ Beginning(c) /\ Ending(c) /\ QueueInv(c)
  BY DEF ConnInv
<1>1. c.raced \in BOOLEAN /\ Len(c.ioq) \in Nat /\ c.state \in States
  BY <1>0, ConnFields
<1> DEFINE late == c.raced \/ c.state = "DISCONNECTED"
           d == [c EXCEPT !.state = "DISCONNECTING", !.raced = late]
<1>2. late \in BOOLEAN
  BY <1>1
<1>3. d = [c EXCEPT !.state = "DISCONNECTING", !.raced = @ \/ c.state = "DISCONNECTED"]
  OBVIOUS
<1>4. ~late => Open(c) /\ ~c.raced
  BY <1>1 DEF States, Open
<1> HIDE DEF late
<1>5. d \in Conn /\ d.state = "DISCONNECTING" /\ d.raced = late
  BY <1>0, <1>2, ZenonT(40) DEF Conn, States
<1>6. /\ d.ioq = c.ioq /\ d.ups = c.ups /\ d.downs = c.downs /\ d.mainq = c.mainq /\ d.gone = c.gone
      /\ d.inMap = c.inMap
  BY <1>0 DEF Conn
<1>7. SamePoller(c, d) /\ SameStream(c, d)
  BY <1>0 DEF Conn, SamePoller, SameStream
<1> HIDE DEF d
<1>8. \A op : Queued(d, op) <=> Queued(c, op)
  BY <1>6 DEF Queued
<1>9. PollerInv(d)
  BY <1>0, <1>7 DEF PollerInv, SamePoller
<1>10. StreamInv(d)
  BY <1>0, <1>7 DEF StreamInv, SameStream, Broken
<1>11. QueueInv(d) /\ Beginning(d)
  BY <1>0, <1>5, <1>6, <1>8 DEF QueueInv, Beginning
<1>12. Ending(d)
  <2>1. ~d.raced => Open(c) /\ ~c.raced
    BY <1>4, <1>5
  <2> QED BY <1>0, <1>5, <1>6, <1>7, <1>8, <2>1 DEF Ending, SamePoller
<1>13. Keeps(c, d)
  BY <1>1, <1>5, <1>6, <1>9, <1>10, <1>11, <1>12 DEF Keeps, ConnInv
<1> QED BY <1>3, <1>13, Zenon

(* What is outside of the handlers: a message is taken, data arrives, the  *)
(* peer closes or resets.                                                  *)
LEMMA OutsideKeeps ==
    ASSUME NEW c, ConnInv(c), NEW d \in Conn, SamePoller(c, d), SameLife(c, d), d.state = c.state, d.ioq = c.ioq,
           d.obuf = c.obuf, d.sent = c.sent, d.wire = c.wire, d.faulted = c.faulted, d.wrShut = c.wrShut,
           c.peer = "reset" => d.peer = "reset"
    PROVE  ConnInv(d)
<1>1. \A op : Queued(d, op) <=> Queued(c, op)
  BY DEF Queued
<1>2. PollerInv(d)
  BY DEF ConnInv, PollerInv, SamePoller
<1>3. StreamInv(d)
  BY DEF ConnInv, StreamInv, Broken
<1>4. QueueInv(d) /\ Beginning(d)
  BY <1>1 DEF ConnInv, QueueInv, Beginning, SameLife, SamePoller
<1>5. Ending(d)
  BY <1>1 DEF ConnInv, Ending, Open, SameLife, SamePoller
<1> QED BY <1>2, <1>3, <1>4, <1>5 DEF ConnInv

------------------------------------------------------------------------------
(* The actions                                                             *)

(* What a step need not touch stays right.                                 *)
LEMMA Carried ==
    ASSUME ConnectionInv, ConnInv(conn'), conn.state # "CONNECTING" => conn'.state # "CONNECTING"
    PROVE  /\ Len(conn.ioq) \in Nat /\ Len(conn'.ioq) \in Nat /\ batch \in Nat
           /\ tpc' = tpc => ThreadInv'
           /\ batch' = batch /\ Len(conn.ioq) <= Len(conn'.ioq) => batch' \in 0..Len(conn'.ioq)
<1>1. conn \in Conn /\ conn' \in Conn
  BY DEF ConnectionInv, ConnInv
<1>2. Len(conn.ioq) \in Nat /\ Len(conn'.ioq) \in Nat
  BY <1>1, ConnFields
<1>3. batch \in 0..Len(conn.ioq)
  BY DEF ConnectionInv, TypeOK
<1>4. batch' = batch /\ Len(conn.ioq) <= Len(conn'.ioq) => batch' \in 0..Len(conn'.ioq)
  BY <1>2, <1>3
<1>5. tpc' = tpc => ThreadInv'
  BY DEF ConnectionInv, ThreadInv
<1> QED BY <1>2, <1>3, <1>4, <1>5

(* The invariant holds at the start.                                       *)
LEMMA InitInv ==
    Init => ConnectionInv
<1> SUFFICES ASSUME Init PROVE ConnectionInv
  OBVIOUS
<1> DEFINE f == Functor("established")
<1>1. f \in FunctorSet /\ f.op = "established"
  BY OwnFunctor DEF FunctorOps
<1>2. conn = [state |-> "CONNECTING", events |-> {}, idx |-> "NEW", mapped |-> FALSE,
              inEpoll |-> FALSE, mask |-> {}, fatal |-> FALSE,
              obuf |-> <<>>, sent |-> <<>>, wire |-> <<>>, faulted |-> FALSE,
              raced |-> FALSE, wrShut |-> FALSE, ups |-> 0, downs |-> 0, peer |-> "open",
              inbound |-> FALSE, unsent |-> Msgs,
              ioq |-> <<f>>, mainq |-> 0, inMap |-> TRUE,
              gone |-> FALSE]
  BY DEF Init
<1>3. <<f>> \in Seq([op : FunctorOps, m : Msgs \union {NoMsg}]) /\ <<>> \in Seq(Msgs \X {1, 2})
  BY <1>1 DEF FunctorSet
<1>4. f = Functor("established")
  OBVIOUS
<1> HIDE DEF f
<1>5. conn \in Conn
  BY <1>2, <1>3 DEF Conn, States
<1>6. PollerInv(conn)
  BY <1>2 DEF PollerInv
<1>7. StreamInv(conn)
  <2>1. conn.wire = <<>> /\ conn.obuf = <<>> /\ conn.sent = <<>> /\ ~conn.faulted
    BY <1>2
  <2>2. <<>> \in Seq(Unit)
    OBVIOUS
  <2>3. <<>> \o <<>> = <<>> /\ IsPrefix(<<>>, <<>> \o <<>>)
    BY <2>2, PrefixOfConcat, ConcatEmptySeq
  <2>4. conn.wire \o conn.obuf = conn.sent /\ IsPrefix(conn.wire, conn.sent)
    BY <2>1, <2>3, Zenon
  <2> QED BY <2>1, <2>4 DEF StreamInv
<1>8. conn.ioq = <<f>> /\ Len(conn.ioq) = 1 /\ \A i \in 1..Len(conn.ioq) : conn.ioq[i] = f
  BY <1>2
<1>9. QueueInv(conn) /\ ~Queued(conn, "destroyed")
  BY <1>1, <1>8 DEF QueueInv, Queued
<1>10. Beginning(conn)
  BY <1>2, <1>4 DEF Beginning
<1>11. Ending(conn)
  BY <1>2, <1>9 DEF Ending, Open
<1>12. TypeOK
  BY <1>5, <1>8, BoundsAssumption DEF Init, TypeOK
<1>13. ThreadInv /\ LoopInv
  BY NoMsgAssumption DEF Init, ThreadInv, LoopInv
<1> QED BY <1>5, <1>6, <1>7, <1>9, <1>10, <1>11, <1>12, <1>13 DEF ConnectionInv, ConnInv

(* The io loop's poll and the events it reports.                           *)
LEMMA IoPollStep ==
    ASSUME ConnectionInv, NEW writable \in BOOLEAN, IoPoll(writable)
    PROVE  ConnectionInv'
<1>0. ConnInv(conn)
  BY DEF ConnectionInv
<1>1. \/ conn' = conn
      \/ conn.inEpoll /\ conn' \in HandleEvent(conn, Revents(conn, writable))
  BY DEF IoPoll, HandleEvent
<1>2. /\ ConnInv(conn') /\ (conn.state # "CONNECTING" => conn'.state # "CONNECTING")
      /\ Len(conn.ioq) <= Len(conn'.ioq)
  <2>1. CASE conn' = conn
    BY <1>0, <2>1, ConnFields DEF ConnInv
  <2>2. CASE conn.inEpoll /\ conn' \in HandleEvent(conn, Revents(conn, writable))
    BY <1>0, <2>2, HandleEventKeeps DEF Keeps
  <2> QED BY <1>1, <2>1, <2>2
<1>3. io = "poll" /\ io' = "pending" /\ batch' = batch /\ tpc' = tpc /\ calls' = calls /\ arrivals' = arrivals
  BY DEF IoPoll
<1>4. ThreadInv' /\ batch' \in 0..Len(conn'.ioq)
  BY <1>2, <1>3, Carried
<1>5. TypeOK'
  BY <1>2, <1>3, <1>4 DEF ConnectionInv, TypeOK, ConnInv
<1>6. LoopInv'
  BY <1>3 DEF ConnectionInv, LoopInv
<1> QED BY <1>2, <1>4, <1>5, <1>6 DEF ConnectionInv

(* The swap of the functors.                                               *)
LEMMA IoSwapStep ==
    ASSUME ConnectionInv, IoSwap
    PROVE  ConnectionInv'
<1>1. conn' = conn /\ tpc' = tpc /\ calls' = calls /\ arrivals' = arrivals
      /\ batch' = Len(conn.ioq) /\ io' = IF conn.ioq = <<>> THEN "poll" ELSE "run"
  BY DEF IoSwap
<1>2. ConnInv(conn) /\ conn \in Conn
  BY DEF ConnectionInv, ConnInv
<1>3. conn.ioq \in Seq(FunctorSet) /\ Len(conn.ioq) \in Nat
  BY <1>2, ConnFields
<1>4. (conn.ioq = <<>> => Len(conn.ioq) = 0) /\ (conn.ioq # <<>> => Len(conn.ioq) > 0)
  BY <1>3, EmptySeq
<1>5. ConnInv(conn') /\ ThreadInv'
  BY <1>1, <1>2, Carried
<1>6. TypeOK'
  BY <1>1, <1>3 DEF ConnectionInv, TypeOK
<1>7. LoopInv'
  BY <1>1, <1>4 DEF LoopInv
<1> QED BY <1>5, <1>6, <1>7 DEF ConnectionInv

(* One functor of the io loop.                                             *)
LEMMA IoFunctorStep ==
    ASSUME ConnectionInv, IoFunctor
    PROVE  ConnectionInv'
<1>0. ConnInv(conn) /\ batch \in 0..Len(conn.ioq) /\ conn \in Conn
  BY DEF ConnectionInv, TypeOK
<1>1. /\ io = "run" /\ batch' = batch - 1 /\ io' = IF batch = 1 THEN "poll" ELSE "run"
      /\ tpc' = tpc /\ calls' = calls /\ arrivals' = arrivals
      /\ conn' \in RunFunctor(Popped(conn), Head(conn.ioq))
  BY DEF IoFunctor, Popped
<1>2. Len(conn.ioq) \in Nat /\ batch > 0
  BY <1>0, <1>1, ConnFields DEF ConnectionInv, LoopInv
<1>3. conn.ioq # <<>>
  BY <1>0, <1>2
<1>4. /\ ConnInv(conn') /\ conn'.state # "CONNECTING"
      /\ Len(conn.ioq) - 1 <= Len(conn'.ioq)
  BY <1>0, <1>1, <1>3, RunFunctorKeeps
<1>5. ThreadInv' /\ Len(conn'.ioq) \in Nat
  BY <1>1, <1>4, Carried
<1>6. batch' \in 0..Len(conn'.ioq) /\ LoopInv'
  <2>1. batch' \in 0..Len(conn'.ioq)
    BY <1>0, <1>1, <1>2, <1>4, <1>5
  <2>2. LoopInv'
    BY <1>0, <1>1, <1>2 DEF LoopInv
  <2> QED BY <2>1, <2>2
<1>7. TypeOK'
  <2>1. io' \in {"poll", "pending", "run"}
    BY <1>1
  <2> QED BY <1>1, <1>4, <1>6, <2>1 DEF ConnectionInv, TypeOK, ConnInv
<1> QED BY <1>4, <1>5, <1>6, <1>7 DEF ConnectionInv

(* tcp_server::remove_connection_inloop, on the main loop.                 *)
LEMMA RemoveStep ==
    ASSUME ConnectionInv, RemoveConnectionInloop
    PROVE  ConnectionInv'
<1>0. ConnInv(conn)
  BY DEF ConnectionInv
<1>1. /\ conn.mainq > 0
      /\ conn' = [Queue(conn, Functor("destroyed")) EXCEPT !.mainq = @ - 1, !.inMap = FALSE]
      /\ io' = io /\ batch' = batch /\ tpc' = tpc /\ calls' = calls /\ arrivals' = arrivals
  BY DEF RemoveConnectionInloop
<1>2. Keeps(conn, conn')
  BY <1>0, <1>1, RemoveKeeps
<1>3. ConnInv(conn') /\ conn'.state # "CONNECTING" /\ Len(conn.ioq) <= Len(conn'.ioq)
  BY <1>2 DEF Keeps
<1>4. ThreadInv' /\ batch' \in 0..Len(conn'.ioq)
  BY <1>1, <1>3, Carried
<1>5. TypeOK' /\ LoopInv'
  BY <1>1, <1>3, <1>4 DEF ConnectionInv, TypeOK, ConnInv, LoopInv
<1> QED BY <1>3, <1>4, <1>5 DEF ConnectionInv

(* A call by another thread reads state_ ...                               *)
LEMMA CallStep ==
    ASSUME ConnectionInv, NEW t \in Threads, NEW op \in RemoteOps, NEW m \in Msgs \union {NoMsg},
           Call(t, op, m)
    PROVE  ConnectionInv'
<1> DEFINE at == IF op = "send" THEN "queue" ELSE "set"
           r == [op |-> op, m |-> m, at |-> at]
<1>0. ConnInv(conn) /\ conn \in Conn /\ ThreadInv
  BY DEF ConnectionInv, ConnInv
<1>1. /\ conn' = [conn EXCEPT !.unsent = conn.unsent \ {m}]
      /\ io' = io /\ batch' = batch /\ arrivals' = arrivals
      /\ tpc' = [tpc EXCEPT ![t] = r]
      /\ calls[t] > 0 /\ calls' = [calls EXCEPT ![t] = calls[t] - 1]
      /\ conn.state # "CONNECTING"
      /\ op = "send" => m \in conn.unsent
  BY DEF Call
<1>2. conn' \in Conn /\ conn'.state = conn.state /\ conn'.ioq = conn.ioq
  BY <1>0, <1>1 DEF Conn
<1>3. SamePoller(conn, conn') /\ SameStream(conn, conn') /\ SameLife(conn, conn')
  BY <1>0, <1>1 DEF Conn, SamePoller, SameStream, SameLife
<1>4. ConnInv(conn')
  BY <1>0, <1>2, <1>3, OutsideKeeps DEF SameStream
<1>5. batch' \in 0..Len(conn'.ioq)
  BY <1>1, <1>2 DEF ConnectionInv, TypeOK
<1>6. calls' \in [Threads -> 0..MaxCalls]
  <2>1. calls \in [Threads -> 0..MaxCalls] /\ calls[t] \in 0..MaxCalls
    BY DEF ConnectionInv, TypeOK
  <2>2. calls[t] - 1 \in 0..MaxCalls
    BY <1>1, <2>1, BoundsAssumption
  <2> QED BY <1>1, <2>1, <2>2
<1>7. TypeOK' /\ LoopInv'
  BY <1>1, <1>2, <1>5, <1>6 DEF ConnectionInv, TypeOK, LoopInv
<1>8. ThreadInv'
  <2>1. r \in [op : RemoteOps \union {"idle"}, at : {"idle", "set", "queue"}, m : Msgs \union {NoMsg}]
    OBVIOUS
  <2>2. r.op # "idle" /\ (r.op = "send" => r.m \in Msgs)
    BY <1>0, <1>1, ConnFields, RemoteOpsAssumption
  <2> HIDE DEF r
  <2>3. tpc' \in [Threads -> [op : RemoteOps \union {"idle"}, at : {"idle", "set", "queue"},
                              m : Msgs \union {NoMsg}]]
    BY <1>0, <1>1, <2>1 DEF ThreadInv
  <2>4. \A u \in Threads : tpc'[u] = IF u = t THEN r ELSE tpc[u]
    BY <1>0, <1>1 DEF ThreadInv
  <2> QED BY <1>0, <1>1, <1>2, <2>2, <2>3, <2>4 DEF ThreadInv
<1> QED BY <1>4, <1>7, <1>8 DEF ConnectionInv

(* ... sets it ...                                                         *)
LEMMA SetStateStep ==
    ASSUME ConnectionInv, NEW t \in Threads, SetState(t)
    PROVE  ConnectionInv'
<1>0. ConnInv(conn) /\ ThreadInv
  BY DEF ConnectionInv
<1>1. /\ conn' = [conn EXCEPT !.state = "DISCONNECTING",
                              !.raced = @ \/ conn.state = "DISCONNECTED"]
      /\ tpc[t].at = "set" /\ tpc' = [tpc EXCEPT ![t].at = "queue"]
      /\ io' = io /\ batch' = batch /\ calls' = calls /\ arrivals' = arrivals
  BY DEF SetState
<1>2. conn.state # "CONNECTING" /\ tpc[t].op # "idle"
  BY <1>0, <1>1 DEF ThreadInv
<1>3. Keeps(conn, conn')
  BY <1>0, <1>1, <1>2, SetStateKeeps
<1>4. ConnInv(conn') /\ conn'.state # "CONNECTING" /\ Len(conn.ioq) <= Len(conn'.ioq)
  BY <1>3 DEF Keeps
<1>5. batch' \in 0..Len(conn'.ioq)
  BY <1>1, <1>4, Carried
<1>6. TypeOK' /\ LoopInv'
  BY <1>1, <1>4, <1>5 DEF ConnectionInv, TypeOK, LoopInv, ConnInv
<1>7. ThreadInv'
  <2>1. tpc' \in [Threads -> [op : RemoteOps \union {"idle"}, at : {"idle", "set", "queue"},
                              m : Msgs \union {NoMsg}]]
    BY <1>0, <1>1 DEF ThreadInv
  <2>2. \A u \in Threads : tpc'[u].op = tpc[u].op /\ tpc'[u].m = tpc[u].m /\ (u # t => tpc'[u] = tpc[u])
    BY <1>0, <1>1 DEF ThreadInv
  <2> QED BY <1>0, <1>2, <1>4, <2>1, <2>2 DEF ThreadInv
<1> QED BY <1>4, <1>6, <1>7 DEF ConnectionInv

(* ... and queues its functor.                                             *)
LEMMA QueueInLoopStep ==
    ASSUME ConnectionInv, NEW t \in Threads, QueueInLoop(t)
    PROVE  ConnectionInv'
<1> DEFINE f == [op |-> tpc[t].op, m |-> tpc[t].m]
           r == [op |-> "idle", at |-> "idle", m |-> NoMsg]
<1>0. ConnInv(conn) /\ ThreadInv
  BY DEF ConnectionInv
<1>1. /\ tpc[t].at = "queue" /\ conn' = Queue(conn, f)
      /\ tpc' = [tpc EXCEPT ![t] = r]
      /\ io' = io /\ batch' = batch /\ calls' = calls /\ arrivals' = arrivals
  BY DEF QueueInLoop
<1>2. /\ conn.state # "CONNECTING" /\ tpc[t].op \in {"send", "shutdown", "force_close"}
      /\ tpc[t].m \in Msgs \union {NoMsg} /\ (tpc[t].op = "send" => tpc[t].m \in Msgs)
  BY <1>0, <1>1, RemoteOpsAssumption DEF ThreadInv
<1>3. f \in FunctorSet /\ f.op = tpc[t].op /\ f.m = tpc[t].m
  BY <1>2 DEF FunctorSet, FunctorOps
<1> HIDE DEF f
<1>4. Keeps(conn, conn')
  BY <1>0, <1>1, <1>2, <1>3, QueueKeeps
<1>5. ConnInv(conn') /\ conn'.state # "CONNECTING" /\ Len(conn.ioq) <= Len(conn'.ioq)
  BY <1>4 DEF Keeps
<1>6. batch' \in 0..Len(conn'.ioq)
  BY <1>1, <1>5, Carried
<1>7. TypeOK' /\ LoopInv'
  BY <1>1, <1>5, <1>6 DEF ConnectionInv, TypeOK, LoopInv, ConnInv
<1>8. ThreadInv'
  <2>1. tpc' \in [Threads -> [op : RemoteOps \union {"idle"}, at : {"idle", "set", "queue"},
                              m : Msgs \union {NoMsg}]]
    BY <1>0, <1>1 DEF ThreadInv
  <2>2. \A u \in Threads : tpc'[u] = IF u = t THEN r ELSE tpc[u]
    BY <1>0, <1>1 DEF ThreadInv
  <2>3. r.at = "idle" /\ r.op # "send"
    OBVIOUS
  <2> QED BY <1>0, <1>5, <2>1, <2>2, <2>3 DEF ThreadInv
<1> QED BY <1>5, <1>7, <1>8 DEF ConnectionInv

(* The peer writes, closes or resets.                                      *)
LEMMA PeerStepKeeps ==
    ASSUME ConnectionInv, PeerStep
    PROVE  ConnectionInv'
<1>0. ConnInv(conn) /\ conn \in Conn
  BY DEF ConnectionInv, ConnInv
<1>1. /\ \/ conn' = [conn EXCEPT !.inbound = TRUE]
         \/ conn.peer # "reset" /\ \E how \in {"fin", "reset"} : conn' = [conn EXCEPT !.peer = how]
      /\ arrivals' = arrivals \/ (arrivals > 0 /\ arrivals' = arrivals - 1)
      /\ io' = io /\ batch' = batch /\ tpc' = tpc /\ calls' = calls
  BY DEF PeerStep, PeerSend, PeerLeave
<1>2. conn' \in Conn /\ conn'.state = conn.state /\ conn'.ioq = conn.ioq
  <2>1. CASE conn' = [conn EXCEPT !.inbound = TRUE]
    BY <1>0, <2>1, ZenonT(40) DEF Conn
  <2>2. ASSUME NEW how \in {"fin", "reset"}, conn' = [conn EXCEPT !.peer = how]
        PROVE  conn' \in Conn /\ conn'.state = conn.state /\ conn'.ioq = conn.ioq
    BY <1>0, <2>2, ZenonT(40) DEF Conn
  <2> QED BY <1>1, <2>1, <2>2
<1>3. SamePoller(conn, conn') /\ SameLife(conn, conn')
  BY <1>0, <1>1 DEF Conn, SamePoller, SameLife
<1>4. /\ conn'.obuf = conn.obuf /\ conn'.sent = conn.sent /\ conn'.wire = conn.wire
      /\ conn'.faulted = conn.faulted /\ conn'.wrShut = conn.wrShut
      /\ conn.peer = "reset" => conn'.peer = "reset"
  BY <1>0, <1>1 DEF Conn
<1>5. ConnInv(conn')
  BY <1>0, <1>2, <1>3, <1>4, OutsideKeeps
<1>6. ThreadInv'
  BY <1>1, <1>2, <1>5, Carried
<1>7. batch' \in 0..Len(conn'.ioq)
  BY <1>1, <1>2 DEF ConnectionInv, TypeOK
<1>8. arrivals' \in 0..MaxInbound
  BY <1>1, BoundsAssumption DEF ConnectionInv, TypeOK
<1>9. TypeOK' /\ LoopInv'
  BY <1>1, <1>2, <1>7, <1>8 DEF ConnectionInv, TypeOK, LoopInv
<1> QED BY <1>5, <1>6, <1>9 DEF ConnectionInv

(* Every step keeps the invariant.                                         *)
LEMMA NextKeeps ==
    ConnectionInv /\ [Next]_vars => ConnectionInv'
<1> SUFFICES ASSUME ConnectionInv, [Next]_vars PROVE ConnectionInv'
  OBVIOUS
<1>1. CASE IoStep
  <2>1. TRUE \in BOOLEAN /\ FALSE \in BOOLEAN
    OBVIOUS
  <2> QED BY <1>1, <2>1, IoPollStep, IoSwapStep, IoFunctorStep DEF IoStep
<1>2. CASE RemoveConnectionInloop
  BY <1>2, RemoveStep
<1>3. CASE PeerStep
  BY <1>3, PeerStepKeeps
<1>4. CASE \E t \in Threads : ThreadStep(t)
  BY <1>4, CallStep, SetStateStep, QueueInLoopStep DEF ThreadStep
<1>5. CASE UNCHANGED vars
  BY <1>5 DEF vars, ConnectionInv, TypeOK, ThreadInv, LoopInv
<1> QED BY <1>1, <1>2, <1>3, <1>4, <1>5 DEF Next

------------------------------------------------------------------------------
(* The theorems                                                            *)

(* Every reachable state satisfies the inductive invariant: the io loop's, *)
(* the other threads' and the main loop's steps keep the life of a         *)
(* connection in its order.                                                *)
THEOREM ConnectionsSound ==
    Spec => []ConnectionInv
  BY InitInv, NextKeeps, PTL DEF Spec

(* tcp_connection::send, handle_write: what the peer gets is what was      *)
(* accepted, in order and without a gap, whichever threads send, however   *)
(* short the writes are, and also when the connection breaks.              *)
THEOREM BytesInOrder ==
    Spec => []StreamInOrder
<1>1. ConnectionInv => StreamInOrder
  BY DEF ConnectionInv, ConnInv, StreamInv, StreamInOrder
<1> QED BY <1>1, ConnectionsSound, PTL

(* epoll_poller::update_channel, remove_channel: the channel's index,      *)
(* channels_ and the epoll set agree, and epoll_ctl never fails fatally,   *)
(* even for a connection that is closed twice.                             *)
THEOREM PollerAgrees ==
    Spec => []PollerConsistent
<1>1. ConnectionInv => PollerConsistent
  BY DEF ConnectionInv, ConnInv, PollerInv, PollerConsistent
<1> QED BY <1>1, ConnectionsSound, PTL

(* handle_close, connect_destroyed: the end of a connection is reported    *)
(* once, after its beginning, and a destroyed connection is in no table,   *)
(* as long as no foreign store to state_ came after handle_close.          *)
THEOREM EndReportedOnce ==
    Spec => []ClosedOnce
<1>1. ConnectionInv => ClosedOnce
  <2> SUFFICES ASSUME ConnInv(conn), ~conn.raced PROVE ClosedOnce
    BY DEF ConnectionInv, ClosedOnce
  <2>1. conn.state \in States /\ conn.downs \in Nat
    BY ConnFields DEF ConnInv
  <2>2. CASE conn.state = "CONNECTING"
    BY <2>2 DEF ConnInv, Beginning, ClosedOnce
  <2>3. CASE Open(conn)
    BY <2>3 DEF ConnInv, Beginning, Ending, Open, ClosedOnce
  <2>4. CASE conn.state = "DISCONNECTED"
    BY <2>4 DEF ConnInv, Beginning, Ending, ClosedOnce
  <2> QED BY <2>1, <2>2, <2>3, <2>4 DEF States, Open
<1> QED BY <1>1, ConnectionsSound, PTL
=============================================================================
