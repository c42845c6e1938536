-------------------------------- MODULE NgxPool --------------------------------
(***************************************************************************)
(* ngx_mempool: small requests are cut from a chain of blocks of one size, *)
(* large ones go to malloc and are remembered in a list whose nodes are    *)
(* cut from the blocks too, as are the cleanup handlers.                   *)
(*                                                                         *)
(* An address is a block's number in the chain and an offset in it; malloc *)
(* returns aligned blocks.  The sizes of the structs and the code's limits *)
(* are parameters.  One thread uses a pool.                                *)
(***************************************************************************)
EXTENDS Integers, Sequences, FiniteSets, FiniteSetsExt

CONSTANTS PoolSizes,    \* what ngx_create_pool may be given
          Header, Data, \* sizeof ngx_pool_t and ngx_pool_data_t
          Node, Clean,  \* sizeof ngx_pool_large_t and ngx_pool_cleanup_t
          ALIGN,        \* NGX_ALIGNMENT
          MaxSmall,     \* NGX_MAX_ALLOC_FROM_POOL
          MaxFailed,    \* 4 in ngx_palloc_block
          MaxTries,     \* entries ngx_palloc_large looks at
          Requests,     \* sizes that are asked for
          MaxCalls      \* bound: calls before the pool is destroyed

VARIABLES psize,        \* size of every block
          p,            \* the pool, see Init
          big,          \* what malloc has given for large requests, numbered
          calls,        \* calls made
          ran           \* cleanup handlers that ran, how often; of those added

vars == <<psize, p, big, calls, ran>>

max == IF psize - Header < MaxSmall THEN psize - Header ELSE MaxSmall

(* blocks: last and failed of each.  large: the list, newest first; alloc  *)
(* is 0 for a null pointer.  cleanup: the list's nodes.  piece: what has   *)
(* been cut and not given up by a reset.  reset: after a reset the list of *)
(* cleanups is as it was, though its nodes will be handed out again.       *)
Init ==
    /\ psize \in PoolSizes
    /\ p = [blocks |-> <<[last |-> Header, failed |-> 0]>>, current |-> 1,
            large |-> <<>>, cleanup |-> <<>>, pieces |-> {}, reset |-> FALSE, alive |-> TRUE]
    /\ big = {} /\ calls = 0 /\ ran = <<>>

Aligned(x) == ((x + ALIGN - 1) \div ALIGN) * ALIGN

Start(q, i, align) == IF align THEN Aligned(q.blocks[i].last) ELSE q.blocks[i].last

(* (size_t)(end - m) >= size: a negative difference is a large number.     *)
Enough(m, size) == m > psize \/ psize - m >= size

Piece(i, at, len) == [block |-> i, at |-> at, len |-> len]

(* ngx_palloc_block: a new block, while those that failed too often are    *)
(* left behind.                                                            *)
AddBlock(q, size) ==
    LET n == Len(q.blocks)
        over == {i \in q.current..(n - 1) : q.blocks[i].failed > MaxFailed}
        at == Aligned(Data)
    IN  [q EXCEPT !.blocks = Append([i \in 1..n |-> IF i \in q.current..(n - 1)
                                                    THEN [q.blocks[i] EXCEPT !.failed = @ + 1]
                                                    ELSE q.blocks[i]],
                                    [last |-> at + size, failed |-> 0]),
                  !.current = IF over = {} THEN q.current ELSE Max(over) + 1,
                  !.pieces = @ \union {Piece(n + 1, at, size)}]

(* Mutant: the alignment is not counted.                                   *)
FittingUnaligned(q, size, align) ==
    {i \in q.current..Len(q.blocks) : Enough(q.blocks[i].last, size)}

Fitting(q, size, align) ==
    {i \in q.current..Len(q.blocks) : Enough(Start(q, i, align), size)}

(* ngx_palloc_small, when malloc can give a block if needed: the pool then.*)
Small(q, size, align) ==
    LET fits == Fitting(q, size, align) IN
    IF fits = {} THEN AddBlock(q, size)
    ELSE LET i == Min(fits)
             m == Start(q, i, align)
         IN  [q EXCEPT !.blocks[i].last = m + size, !.pieces = @ \union {Piece(i, m, size)}]

(* Where Small has put it.                                                 *)
Got(q, size, align) == CHOOSE x \in Small(q, size, align).pieces : x \notin q.pieces

Called == p.alive /\ calls < MaxCalls /\ calls' = calls + 1

(* ngx_palloc and ngx_pnalloc of a small size.  Without memory for a new   *)
(* block nothing changes.                                                  *)
Palloc(size, align) ==
    /\ Called /\ size <= max
    /\ p' = Small(p, size, align)
    /\ UNCHANGED <<psize, big, ran>>

FreeEntries(q) == {i \in DOMAIN q.large : i <= MaxTries /\ q.large[i].alloc = 0}

Fresh == Min((1..MaxCalls) \ big)

(* Mutant: a free entry is not looked for, and the block not remembered.   *)
PallocLargeForgets(size) ==
    /\ Called /\ size > max
    /\ big' = big \union {Fresh}
    /\ p' = IF p.large # <<>> THEN p
            ELSE [Small(p, Node, TRUE) EXCEPT !.large = <<[node |-> Got(p, Node, TRUE), alloc |-> Fresh]>>]
    /\ UNCHANGED <<psize, ran>>

(* ngx_palloc_large puts the block into the list; when there is no memory  *)
(* for the list's node the block is freed again.                           *)
TakeLarge(q) ==
    IF FreeEntries(q) # {} THEN [q EXCEPT !.large[Min(FreeEntries(q))].alloc = Fresh]
    ELSE [Small(q, Node, TRUE) EXCEPT
            !.large = <<[node |-> Got(q, Node, TRUE), alloc |-> Fresh]>> \o @]

PallocLarge(size) ==
    /\ Called /\ size > max
    /\ big' = big \union {Fresh}
    /\ p' = TakeLarge(p)
    /\ UNCHANGED <<psize, ran>>

(* ngx_pfree.                                                              *)
Pfree(a) ==
    /\ Called /\ a \in big
    /\ LET i == {j \in DOMAIN p.large : p.large[j].alloc = a} IN
       IF i = {} THEN UNCHANGED <<p, big>>
       ELSE p' = [p EXCEPT !.large[Min(i)].alloc = 0] /\ big' = big \ {a}
    /\ UNCHANGED <<psize, ran>>

(* ngx_pool_cleanup_add, with data or without; the caller sets the         *)
(* handler.  Without memory for the data the node is cut for nothing.      *)
CleanupAdd(size) ==
    /\ Called /\ Clean <= max
    /\ LET q == Small(p, Clean, TRUE)
           c == [node |-> Got(p, Clean, TRUE), id |-> Len(ran) + 1]
           data == IF size = 0 THEN q ELSE IF size > max THEN TakeLarge(q) ELSE Small(q, size, TRUE)
       IN  \/ /\ p' = [data EXCEPT !.cleanup = <<c>> \o @]
              /\ big' = IF size > max THEN big \union {Fresh} ELSE big
              /\ ran' = Append(ran, 0)
           \/ /\ size > max \/ (size > 0 /\ Fitting(q, size, TRUE) = {})
              /\ p' = q /\ UNCHANGED <<big, ran>>
    /\ UNCHANGED psize

(* Mutant: every block is reset as if it had the short header.             *)
ResetShort(q) == [i \in DOMAIN q.blocks |-> [last |-> Data, failed |-> 0]]

ResetBlocks(q) ==
    [i \in DOMAIN q.blocks |-> [last |-> IF i = 1 THEN Header ELSE Data, failed |-> 0]]

ngx_reset_pool ==
    /\ Called
    /\ big' = big \ {p.large[i].alloc : i \in DOMAIN p.large}
    /\ p' = [p EXCEPT !.blocks = ResetBlocks(p), !.current = 1, !.large = <<>>, !.pieces = {},
                      !.reset = @ \/ p.cleanup # <<>>]
    /\ UNCHANGED <<psize, ran>>

(* ngx_destroy_pool: the handlers, the large blocks, the blocks.  After a  *)
(* reset the nodes of the handlers may hold anything, and what runs is     *)
(* undefined.                                                              *)
ngx_destroy_pool ==
    /\ p.alive
    /\ big' = big \ {p.large[i].alloc : i \in DOMAIN p.large}
    /\ p' = [p EXCEPT !.alive = FALSE, !.pieces = {}, !.large = <<>>]
    /\ ran' = IF p.reset THEN <<>>
              ELSE [i \in DOMAIN ran |->
                        Cardinality({j \in DOMAIN p.cleanup : p.cleanup[j].id = i})]
    /\ UNCHANGED <<psize, calls>>

Next ==
    \/ \E size \in Requests : PallocLarge(size) \/ \E align \in BOOLEAN : Palloc(size, align)
    \/ \E size \in Requests \union {0} : CleanupAdd(size)
    \/ \E a \in big : Pfree(a)
    \/ ngx_reset_pool \/ ngx_destroy_pool

Spec == Init /\ [][Next]_vars

------------------------------------------------------------------------------
(* Properties                                                              *)

First(i) == IF i = 1 THEN Header ELSE Data

(* What the pool has handed out or uses itself does not overlap, through   *)
(* resets and blocks left behind, and is behind the headers; and inside    *)
(* the block if the pool's size is aligned.  If it is not, rounding up may *)
(* pass the end and Enough then takes the difference for a large number.   *)
PiecesApart ==
    /\ \A x \in p.pieces :
            /\ x.at >= First(x.block)
            /\ psize % ALIGN = 0 => x.at + x.len <= psize
    /\ \A x, y \in p.pieces : x.block = y.block /\ x # y =>
            x.at + x.len <= y.at \/ y.at + y.len <= x.at
    /\ ~p.reset /\ p.alive => \A i \in DOMAIN p.cleanup : p.cleanup[i].node \in p.pieces
    /\ \A i \in DOMAIN p.large : p.large[i].node \in p.pieces

(* A large block is in the list as long as it is not freed, once, so that  *)
(* a reset or the end frees it; and the handlers run once at the end,      *)
(* unless there was a reset, which keeps the list but not its nodes.       *)
NothingLeaks ==
    /\ \A a \in big : Cardinality({i \in DOMAIN p.large : p.large[i].alloc = a}) = 1
    /\ ~p.alive /\ ~p.reset => big = {} /\ \A i \in DOMAIN ran : ran[i] = 1
==============================================================================
