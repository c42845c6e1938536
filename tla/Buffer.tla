--------------------------------- MODULE Buffer ---------------------------------
(***************************************************************************)
(* buffer of mmuduo: the bytes between read_ and write_ of a vector that   *)
(* is compacted or grown when there is no room for more.                   *)
(*                                                                         *)
(* The bytes appended are numbered 1, 2, ..., so that a byte is known by   *)
(* its place in the stream; 0 is what resize fills in.  Callers retrieve   *)
(* at most what is readable, except by retrieve, which allows for more.    *)
(***************************************************************************)
EXTENDS Naturals

CONSTANTS Prepend,      \* prepend
          Initial,      \* initial_size
          Extra,        \* the size of read_fd's second buffer
          MaxBytes      \* bound: bytes appended

(* What the theorem assumes of them.                                       *)
SizesAreNumbers ==
    Prepend \in Nat /\ Initial \in Nat /\ Extra \in Nat /\ MaxBytes \in Nat

VARIABLES buf,          \* buf_, from 0 to size - 1
          size,         \* buf_.size()
          read, write,  \* read_, write_
          appended,     \* how many bytes have come in
          retrieved     \* how many have been taken out

vars == <<buf, size, read, write, appended, retrieved>>

Init ==
    /\ size = Prepend + Initial
    /\ buf = [i \in 0..(Prepend + Initial - 1) |-> 0]
    /\ read = Prepend /\ write = Prepend
    /\ appended = 0 /\ retrieved = 0

Readable == write - read

(* The content with len bytes, numbered from first on, copied to w.        *)
Filled(b, w, len, first) ==
    [i \in DOMAIN b |-> IF i \in w..(w + len - 1) THEN first + (i - w) ELSE b[i]]

(* Mutant: the reserve in front is taken for room.                         *)
FitsInAll(len, w) == len <= (size - w) + read

(* make_space finds enough behind write and before read.                   *)
Fits(len, w) == len + Prepend <= (size - w) + read

(* ensure_waitable_bytes and the copy of append, of len bytes numbered     *)
(* from first on, to a buffer b whose bytes end at w.                      *)
PutAt(b, w, len, first) ==
    \/ /\ len <= size - w
       /\ buf' = Filled(b, w, len, first)
       /\ write' = w + len
       /\ UNCHANGED <<size, read>>
    \/ /\ len > size - w /\ ~Fits(len, w)
       /\ size' = w + len
       /\ buf' = Filled([i \in 0..(w + len - 1) |-> IF i < size THEN b[i] ELSE 0], w, len, first)
       /\ write' = w + len
       /\ UNCHANGED read
    \/ /\ len > size - w /\ Fits(len, w)
       /\ LET end == Prepend + (w - read)
              moved == [i \in DOMAIN b |-> IF i \in Prepend..(end - 1) THEN b[read + (i - Prepend)]
                                           ELSE b[i]]
          IN  buf' = Filled(moved, end, len, first) /\ write' = end + len
       /\ read' = Prepend
       /\ UNCHANGED size

AppendBytes(len) ==
    /\ appended + len <= MaxBytes
    /\ appended' = appended + len
    /\ PutAt(buf, write, len, appended + 1)
    /\ UNCHANGED retrieved

(* read_fd, when readv has put n bytes into the room behind write and then *)
(* into the second buffer, which is offered if that room is smaller.       *)
ReadFd(n) ==
    LET room == size - write IN
    /\ n <= room + (IF room < Extra THEN Extra ELSE 0)
    /\ appended + n <= MaxBytes
    /\ appended' = appended + n
    /\ \/ /\ n <= room
          /\ buf' = Filled(buf, write, n, appended + 1)
          /\ write' = write + n
          /\ UNCHANGED <<size, read>>
       \/ /\ n > room
          /\ PutAt(Filled(buf, write, room, appended + 1), size, n - room, appended + room + 1)
    /\ UNCHANGED retrieved

(* retrieve; retrieve_all and retrieve_as_string come to it.               *)
Retrieve(len) ==
    /\ \/ /\ len < Readable
          /\ read' = read + len /\ retrieved' = retrieved + len
          /\ UNCHANGED write
       \/ /\ len >= Readable
          /\ read' = Prepend /\ write' = Prepend
          /\ retrieved' = appended
    /\ UNCHANGED <<buf, size, appended>>

Next == \E n \in 0..MaxBytes : AppendBytes(n) \/ ReadFd(n) \/ Retrieve(n)

Spec == Init /\ [][Next]_vars

------------------------------------------------------------------------------
(* Properties                                                              *)

(* The indices stay in the vector, behind the reserve.                     *)
IndicesInside ==
    /\ size \in Nat /\ read \in Nat /\ write \in Nat
    /\ Prepend <= read /\ read <= write /\ write <= size
    /\ DOMAIN buf = 0..(size - 1)
    /\ appended \in Nat /\ retrieved \in Nat

(* What can be read is what was appended and not yet retrieved, byte for   *)
(* byte, through every compaction, growth and overlong readv.              *)
BytesKept ==
    /\ IndicesInside
    /\ write - read = appended - retrieved
    /\ \A k \in 0..(write - read - 1) : buf[read + k] = retrieved + 1 + k
==============================================================================
