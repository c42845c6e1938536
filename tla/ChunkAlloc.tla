------------------------------ MODULE ChunkAlloc ------------------------------
(***************************************************************************)
(* myallocator: small blocks are kept in a free list per size, filled from *)
(* a chunk that malloc gave; when malloc fails, a larger listed block is   *)
(* cut up.  Every call holds mtx_ from its look at the list to its end, so *)
(* calls of several threads come one after the other.                      *)
(*                                                                         *)
(* A piece of memory is the number of the malloc it came from, an offset   *)
(* and its true length, which the code does not keep.  Requests are one    *)
(* element at least: _S_freelist_index(0) is outside the array.            *)
(***************************************************************************)
EXTENDS Naturals, Sequences, FiniteSets, FiniteSetsExt

CONSTANTS ElemSizes,    \* sizeof(T), which is one of these
          ALIGN,        \* _ALIGN
          MaxBlock,     \* _MAX_BYTES
          Objects,      \* 20 in _S_refill
          HeapPart,     \* 16: the part of _S_heap_size that is added
          Counts,       \* numbers of elements that are asked for
          MaxMallocs,   \* bound: successful calls of malloc
          MaxHeld       \* bound: blocks in use

VARIABLES elem,         \* sizeof(T)
          list,         \* _S_free_list, by index from 1
          pool,         \* from _S_start_free to _S_end_free
          heap,         \* _S_heap_size
          got,          \* what malloc has given, a length each; 0 once freed
          used          \* blocks in use: the piece and the number of elements

vars == <<elem, list, pool, heap, got, used>>

Piece(c, at, len) == [chunk |-> c, at |-> at, len |-> len]

Empty == Piece(0, 0, 0)

RoundUp(bytes) == ((bytes + ALIGN - 1) \div ALIGN) * ALIGN

(* _S_freelist_index, plus one.                                            *)
Index(bytes) == (bytes + ALIGN - 1) \div ALIGN

Lists == 1..(MaxBlock \div ALIGN)

Init ==
    /\ elem \in ElemSizes
    /\ list = [i \in Lists |-> <<>>]
    /\ pool = Empty /\ heap = 0 /\ got = <<>> /\ used = {}

(* _S_refill and the part of _S_chunk_alloc that cuts pieces of this size  *)
(* from a pool that has room for one or more: the first piece is the       *)
(* caller's, the others go to the list, which is empty.                    *)
Carve(from, lists, size, n) ==
    LET room == from.len \div size
        objs == IF room < Objects THEN room ELSE Objects
        block(k) == Piece(from.chunk, from.at + k * size, size)
    IN  /\ used' = used \union {[piece |-> block(0), n |-> n]}
        /\ list' = [lists EXCEPT ![Index(size)] =
                        IF objs = 1 THEN @ ELSE [k \in 1..(objs - 1) |-> block(k)]]
        /\ pool' = Piece(from.chunk, from.at + objs * size, from.len - objs * size)

(* Mutant: what is left of the chunk is forgotten.                         *)
WithLeftoverNot == list

(* The lists with what is left of the chunk.                               *)
WithLeftover ==
    IF pool.len = 0 THEN list
    ELSE [list EXCEPT ![Index(pool.len)] = <<pool>> \o @]

(* Mutant: any list will do.                                               *)
LargerAny(size) == {i \in Lists : WithLeftover[i] # <<>>}

(* The lists that _S_chunk_alloc searches when malloc has failed.          *)
Larger(size) == {i \in Lists : i >= Index(size) /\ WithLeftover[i] # <<>>}

BytesToGet(size) == 2 * (size * Objects) + RoundUp(heap \div HeapPart)

(* allocate, of a size for which the list has a block.                     *)
AllocateListed(n) ==
    LET i == Index(n * elem) IN
    /\ n * elem <= MaxBlock /\ list[i] # <<>>
    /\ used' = used \union {[piece |-> Head(list[i]), n |-> n]}
    /\ list' = [list EXCEPT ![i] = Tail(@)]
    /\ UNCHANGED <<elem, pool, heap, got>>

Refills(n) == n * elem <= MaxBlock /\ list[Index(n * elem)] = <<>>

AllocateFromPool(n) ==
    LET size == RoundUp(n * elem) IN
    /\ Refills(n) /\ pool.len >= size
    /\ Carve(pool, list, size, n)
    /\ UNCHANGED <<elem, heap, got>>

(* malloc gives a chunk, at once or when malloc_alloc::allocate asks again.*)
AllocateFromChunk(n) ==
    LET size == RoundUp(n * elem)
        bytes == BytesToGet(size)
    IN  /\ Refills(n) /\ pool.len < size /\ Len(got) < MaxMallocs
        /\ got' = Append(got, bytes)
        /\ heap' = heap + bytes
        /\ Carve(Piece(Len(got) + 1, 0, bytes), WithLeftover, size, n)
        /\ UNCHANGED elem

(* malloc fails: the first block of the next larger list becomes the pool. *)
AllocateFromLarger(n) ==
    LET size == RoundUp(n * elem) IN
    /\ Refills(n) /\ pool.len < size /\ Larger(size) # {}
    /\ LET i == Min(Larger(size))
           b == Head(WithLeftover[i])
       IN  Carve(Piece(b.chunk, b.at, i * ALIGN), [WithLeftover EXCEPT ![i] = Tail(@)], size, n)
    /\ UNCHANGED <<elem, heap, got>>

(* malloc fails, twice, and bad_alloc is thrown.                           *)
AllocateThrows(n) ==
    LET size == RoundUp(n * elem) IN
    /\ Refills(n) /\ pool.len < size /\ Larger(size) = {}
    /\ list' = WithLeftover /\ pool' = Empty
    /\ UNCHANGED <<elem, heap, got, used>>

(* allocate, of a large size.                                              *)
AllocateLarge(n) ==
    /\ n * elem > MaxBlock /\ Len(got) < MaxMallocs
    /\ got' = Append(got, n * elem)
    /\ used' = used \union {[piece |-> Piece(Len(got) + 1, 0, n * elem), n |-> n]}
    /\ UNCHANGED <<elem, list, pool, heap>>

(* deallocate, with the number of elements, as a container calls it; it is *)
(* taken for a number of bytes.                                            *)
Deallocate(b) ==
    /\ used' = used \ {b}
    /\ \/ b.n > MaxBlock /\ got' = [got EXCEPT ![b.piece.chunk] = 0] /\ UNCHANGED list
       \/ b.n <= MaxBlock /\ list' = [list EXCEPT ![Index(b.n)] = <<b.piece>> \o @]
                          /\ UNCHANGED got
    /\ UNCHANGED <<elem, pool, heap>>

Next ==
    \/ \E n \in Counts : Cardinality(used) < MaxHeld /\
        \/ AllocateListed(n) \/ AllocateFromPool(n) \/ AllocateFromChunk(n)
        \/ AllocateFromLarger(n) \/ AllocateThrows(n) \/ AllocateLarge(n)
    \/ \E b \in used : Deallocate(b)

Spec == Init /\ [][Next]_vars

------------------------------------------------------------------------------
(* Properties                                                              *)

Listed(i) == {list[i][k] : k \in DOMAIN list[i]}

Pieces == {b.piece : b \in used} \union UNION {Listed(i) : i \in Lists}
            \union (IF pool.len = 0 THEN {} ELSE {pool})

NumberOfPieces ==
    Cardinality(used) + FoldSet(LAMBDA i, n : n + Len(list[i]), 0, Lists)
        + (IF pool.len = 0 THEN 0 ELSE 1)

(* What is in use, listed or left of the chunk does not overlap and lies   *)
(* in what malloc gave and nobody freed; no piece is in two places; and a  *)
(* block is as large as its list or its request says, though deallocate    *)
(* finds the list from another number than allocate.                       *)
ExtentsApart ==
    /\ \A x \in Pieces : x.at + x.len <= got[x.chunk]
    /\ \A x, y \in Pieces : x.chunk = y.chunk /\ x # y =>
            x.at + x.len <= y.at \/ y.at + y.len <= x.at
    /\ Cardinality(Pieces) = NumberOfPieces
    /\ \A i \in Lists : \A x \in Listed(i) : x.len >= i * ALIGN
    /\ \A b \in used : b.piece.len >= b.n * elem

(* Nothing is lost for elements of one byte, whatever is cut up and        *)
(* however often malloc fails.  Larger elements come back to the list of a *)
(* smaller block: what is behind it is lost once the block is cut up, and  *)
(* memory of malloc ends in the lists.                                     *)
NothingLost ==
    elem = 1 => FoldSet(LAMBDA x, n : n + x.len, 0, Pieces)
                    = FoldSet(LAMBDA c, n : n + got[c], 0, DOMAIN got)
==============================================================================
