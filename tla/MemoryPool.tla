------------------------------ MODULE MemoryPool ------------------------------
(***************************************************************************)
(* The memory pool: a thread_cache per thread, the central_cache with one  *)
(* list of spans per size, and the page_cache, behind tc_malloc/tc_free.   *)
(*                                                                         *)
(* A span object is named by its first page, an address is a number, and   *)
(* PAGE addresses make a page.  What runs under one lock and reads nothing *)
(* that another thread may write meanwhile is one step.  used_count_ is    *)
(* such a thing: release_to_pagecache reads it under the page cache's lock,*)
(* the central cache and alloc.h write it under other locks.               *)
(*                                                                         *)
(* A merge that takes a span out of a page list it is not in follows null  *)
(* or foreign links and deletes an object in use; the program is undefined *)
(* from there, and the model stops with broken = TRUE.  Threads are assumed*)
(* to have a cache (tc_free on a thread that never allocated has none).    *)
(***************************************************************************)
EXTENDS Integers, Sequences, SequencesExt, FiniteSets, FiniteSetsExt

CONSTANTS Threads,
          Pages,       \* pages the system may hand out, an interval
          PAGE,        \* 1 << PAGE_SHIFT
          MAXBYTES, NPAGES,
          MAXMOVE,     \* 512 in move_num
          Sizes,       \* rounded sizes that are asked for, below MAXBYTES
          Large,       \* requests above MAXBYTES, in pages
          MaxHeld,     \* bound: blocks the program has when it asks for another
          NoThread     \* stands for "no thread"

ASSUME MemoryPoolAssumption ==
    /\ {PAGE, MAXBYTES, NPAGES, MAXMOVE} \subseteq Nat \ {0}
    /\ Sizes \subseteq 1..(MAXBYTES - 1) /\ Large \subseteq Nat \ {0}
    /\ \A n \in Large : n * PAGE > MAXBYTES

VARIABLES span,        \* the span objects, by first page
          pmap,        \* pageid_span_map_
          pageList,    \* page_list_[n]: free spans of n pages
          spanList,    \* span_list_[size] of the central cache
          cache,       \* free_list_[size] of each thread: its blocks
          maxSize,     \* ... and its max_size_
          held,        \* addresses the program has
          os,          \* pages mapped into the process
          pmtx,        \* who holds the page cache's lock
          call,        \* the call each thread is in
          broken

pages == <<span, pmap, pageList, os>>
vars == <<span, pmap, pageList, spanList, cache, maxSize, held, os, pmtx, call, broken>>

(* size is 0 in a call for a large block, whose lock is mtx of alloc.h; the*)
(* others use the lock of their central list.                              *)
Idle == [at |-> "idle", size |-> 0, n |-> 0, s |-> 0, todo |-> <<>>]

Locked == {"span", "cut", "take", "count", "put", "return", "prev", "next"}

LockFree(t) ==
    \A u \in Threads \ {t} : call[u].at \in Locked => call[u].size # call[t].size

PageLockFree(t) == pmtx \in {NoThread, t}

Block(t, b) == call' = [call EXCEPT ![t] = b]

At(t, at) == Block(t, [call[t] EXCEPT !.at = at])

Without(f, x) == [y \in DOMAIN f \ {x} |-> f[y]]

With(f, x, v) == [y \in DOMAIN f \union {x} |-> IF y = x THEN v ELSE f[y]]

PagesOf(s, n) == s..(s + n - 1)

(* Mutant: only the first page is entered.                                 *)
MapFirst(m, s, n) == With(m, s, s)

(* The pages of a span are entered in pageid_span_map_.                    *)
MapPages(m, s, n) ==
    [p \in DOMAIN m \union PagesOf(s, n) |-> IF p \in PagesOf(s, n) THEN s ELSE m[p]]

------------------------------------------------------------------------------
(* size_class                                                              *)

MoveNum(size) ==
    LET num == MAXBYTES \div size
    IN  IF num < 2 THEN 2 ELSE IF num > MAXMOVE THEN MAXMOVE ELSE num

MovePage(size) ==
    LET npage == (MoveNum(size) * size) \div PAGE
    IN  IF npage = 0 THEN 1 ELSE npage

(* Mutant: the blocks are linked a byte too close.                         *)
BlocksTooClose(s, n, size) ==
    [i \in 1..((n * PAGE + size - 1) \div size) |-> s * PAGE + (i - 1) * (size - 1)]

(* Where get_one_span cuts: while (next < end), so the last block starts in*)
(* the span but ends in it only if size divides it.                        *)
Blocks(s, n, size) ==
    [i \in 1..((n * PAGE + size - 1) \div size) |-> s * PAGE + (i - 1) * size]

------------------------------------------------------------------------------
Init ==
    /\ span = <<>> /\ pmap = <<>> /\ os = {}
    /\ pageList = [n \in 1..(NPAGES - 1) |-> <<>>]
    /\ spanList = [z \in Sizes |-> <<>>]
    /\ cache = [t \in Threads |-> [z \in Sizes |-> <<>>]]
    /\ maxSize = [t \in Threads |-> [z \in Sizes |-> 1]]
    /\ held = {} /\ pmtx = NoThread /\ broken = FALSE
    /\ call = [t \in Threads |-> Idle]

------------------------------------------------------------------------------
(* tc_malloc                                                               *)

(* allocate: from the thread's list, or on to the central cache.           *)
Allocate(t, size) ==
    /\ call[t] = Idle
    /\ IF cache[t][size] # <<>>
       THEN /\ held' = held \union {Head(cache[t][size])}
            /\ cache' = [cache EXCEPT ![t][size] = Tail(@)]
            /\ UNCHANGED call
       ELSE /\ Block(t, [Idle EXCEPT !.at = "fetch", !.size = size])
            /\ UNCHANGED <<held, cache>>
    /\ UNCHANGED <<pages, spanList, maxSize, pmtx, broken>>

AllocateLarge(t, n) ==
    /\ call[t] = Idle
    /\ Block(t, [Idle EXCEPT !.at = "fetch", !.n = n])
    /\ UNCHANGED <<pages, spanList, cache, maxSize, held, pmtx, broken>>

(* The lock is taken; get_one_span uses the first span with a free block,  *)
(* and without one asks the page cache.                                    *)
GetOneSpan(t) ==
    LET z == call[t].size
        with == IF z = 0 THEN {} ELSE {i \in DOMAIN spanList[z] : span[spanList[z][i]].blocks # <<>>}
    IN  /\ call[t].at = "fetch" /\ LockFree(t)
        /\ Block(t, CASE z = 0 -> [call[t] EXCEPT !.at = "span"]
                      [] z # 0 /\ with # {} -> [call[t] EXCEPT !.at = "take", !.s = spanList[z][Min(with)]]
                      [] OTHER -> [call[t] EXCEPT !.at = "span", !.n = MovePage(z)])
        /\ UNCHANGED <<pages, spanList, cache, maxSize, held, pmtx, broken>>

Granted(t, s) ==
    Block(t, [call[t] EXCEPT !.at = IF call[t].size = 0 THEN "count" ELSE "cut", !.s = s])

(* `new span' leaves used_count_ as it finds it.                           *)
NewSpan(n, used, bsize) == [n |-> n, used |-> used, blocks |-> <<>>, bsize |-> bsize]

Fitting(n) == {i \in n..(NPAGES - 1) : pageList[i] # <<>>}

(* new_span: the front of the shortest list that fits, its tail cut off    *)
(* when it is longer than asked for.                                       *)
NewSpanFromList(t, used) ==
    LET n == call[t].n
        i == Min(Fitting(n))
        s == Head(pageList[i])
        split == s + i - n
        popped == [pageList EXCEPT ![i] = Tail(@)]
    IN  /\ call[t].at = "span" /\ PageLockFree(t) /\ n < NPAGES /\ Fitting(n) # {}
        /\ IF i = n
           THEN /\ used = span[s].used
                /\ span' = [span EXCEPT ![s].bsize = n * PAGE]
                /\ pageList' = popped
                /\ Granted(t, s)
                /\ UNCHANGED pmap
           ELSE /\ span' = With([span EXCEPT ![s].n = i - n], split, NewSpan(n, used, n * PAGE))
                /\ pmap' = MapPages(pmap, split, n)
                /\ pageList' = [popped EXCEPT ![i - n] = <<s>> \o @]
                /\ Granted(t, split)
        /\ pmtx' = NoThread
        /\ UNCHANGED <<spanList, cache, maxSize, held, os, broken>>

(* sys_alloc is called for a chunk when no list fits, or for a request no  *)
(* list could serve.                                                       *)
Wanted(t) == IF call[t].n >= NPAGES THEN call[t].n ELSE NPAGES - 1

AsksSystem(t) ==
    /\ call[t].at = "span" /\ PageLockFree(t)
    /\ call[t].n >= NPAGES \/ Fitting(call[t].n) = {}

SysAlloc(t, s, used) ==
    LET n == Wanted(t)
        big == n >= NPAGES
    IN  /\ AsksSystem(t)
        /\ PagesOf(s, n) \subseteq Pages \ os
        /\ os' = os \union PagesOf(s, n)
        /\ span' = With(span, s, NewSpan(n, used, IF big THEN n * PAGE ELSE 0))
        /\ pmap' = MapPages(pmap, s, IF big THEN 1 ELSE n)
        /\ IF big THEN Granted(t, s) ELSE UNCHANGED call
        /\ pageList' = IF big THEN pageList ELSE [pageList EXCEPT ![n] = <<s>> \o @]
        /\ pmtx' = IF big THEN NoThread ELSE t
        /\ UNCHANGED <<spanList, cache, maxSize, held, broken>>

(* Mutant: the page cache's lock is not given up by the exception.         *)
SysAllocFailsLocked(t) ==
    /\ AsksSystem(t)
    /\ pmtx' = t
    /\ Block(t, Idle)
    /\ UNCHANGED <<pages, spanList, cache, maxSize, held, broken>>

(* mmap fails: bad_alloc leaves the call, and the guards give up the locks.*)
SysAllocFails(t) ==
    /\ AsksSystem(t)
    /\ Block(t, Idle)
    /\ UNCHANGED <<pages, spanList, cache, maxSize, held, pmtx, broken>>

(* Mutant: a large block is handed out without being counted.              *)
CountForgotten(t) ==
    /\ call[t].at = "count"
    /\ held' = held \union {call[t].s * PAGE}
    /\ Block(t, Idle)
    /\ UNCHANGED <<pages, spanList, cache, maxSize, pmtx, broken>>

(* tc_malloc of a large block, back from new_span.                         *)
Count(t) ==
    /\ call[t].at = "count"
    /\ span' = [span EXCEPT ![call[t].s].used = @ + 1]
    /\ held' = held \union {call[t].s * PAGE}
    /\ Block(t, Idle)
    /\ UNCHANGED <<pmap, pageList, os, spanList, cache, maxSize, pmtx, broken>>

(* get_one_span, back from new_span.                                       *)
Cut(t) ==
    LET z == call[t].size
        s == call[t].s
    IN  /\ call[t].at = "cut"
        /\ span' = [span EXCEPT ![s].blocks = Blocks(s, span[s].n, z), ![s].bsize = z,
                                ![s].used = 0]
        /\ spanList' = [spanList EXCEPT ![z] = <<s>> \o @]
        /\ At(t, "take")
        /\ UNCHANGED <<pmap, pageList, os, cache, maxSize, held, pmtx, broken>>

(* fetch_range_block takes up to num blocks; fetch_from_centralcache keeps *)
(* all but the first and lets the list grow.                               *)
Take(t) ==
    LET z == call[t].size
        s == call[t].s
        num == Min({MoveNum(z), maxSize[t][z]})
        got == Min({num, Len(span[s].blocks)})
        rest == SubSeq(span[s].blocks, got + 1, Len(span[s].blocks))
    IN  /\ call[t].at = "take"
        /\ span' = [span EXCEPT ![s].blocks = rest, ![s].used = @ + got]
        /\ spanList' = IF rest # <<>> THEN spanList
                       ELSE [spanList EXCEPT ![z] = Append(Remove(@, s), s)]
        /\ held' = held \union {Head(span[s].blocks)}
        /\ cache' = [cache EXCEPT ![t][z] = SubSeq(span[s].blocks, 2, got) \o @]
        /\ maxSize' = [maxSize EXCEPT ![t][z] = IF num = @ THEN num + 1 ELSE @]
        /\ Block(t, Idle)
        /\ UNCHANGED <<pmap, pageList, os, pmtx, broken>>

------------------------------------------------------------------------------
(* tc_free                                                                 *)

(* deallocate puts a small block into the thread's list, and gives the     *)
(* whole list back once it has max_size_ blocks.                           *)
Free(t, b) ==
    LET s == pmap[b \div PAGE]
        z == span[s].bsize
        list == <<b>> \o cache[t][z]
        full == Len(list) >= maxSize[t][z]
    IN  /\ call[t] = Idle /\ b \in held
        /\ held' = held \ {b}
        /\ IF z > MAXBYTES
           THEN /\ Block(t, [Idle EXCEPT !.at = "release", !.s = s])
                /\ UNCHANGED cache
           ELSE /\ cache' = [cache EXCEPT ![t][z] = IF full THEN <<>> ELSE list]
                /\ Block(t, IF full THEN [Idle EXCEPT !.at = "give", !.size = z, !.todo = list]
                            ELSE Idle)
        /\ UNCHANGED <<pages, spanList, maxSize, pmtx, broken>>

(* tc_free of a large block, under mtx.                                    *)
ReleaseLarge(t) ==
    /\ call[t].at = "release" /\ LockFree(t)
    /\ span' = [span EXCEPT ![call[t].s].used = @ - 1]
    /\ At(t, "return")
    /\ UNCHANGED <<pmap, pageList, os, spanList, cache, maxSize, held, pmtx, broken>>

(* Mutant: the span is never found to be complete.                         *)
AllBackNever(s) == s.used < 0

(* The span has no block outside.                                          *)
AllBack(s) == s.used = 0

(* release_to_spans: one block of the list goes back to its span, and a    *)
(* span without blocks outside goes back to the page cache.                *)
ReleaseToSpans(t) ==
    LET b == Head(call[t].todo)
        z == call[t].size
        s == pmap[b \div PAGE]
        back == [span[s] EXCEPT !.blocks = <<b>> \o @, !.used = @ - 1]
        rest == [call[t] EXCEPT !.todo = Tail(@)]
    IN  /\ \/ call[t].at = "give" /\ LockFree(t)
           \/ call[t].at = "put"
        /\ IF AllBack(back)
           THEN /\ span' = [span EXCEPT ![s] = [back EXCEPT !.blocks = <<>>, !.bsize = 0]]
                /\ spanList' = [spanList EXCEPT ![z] = Remove(@, s)]
                /\ Block(t, [rest EXCEPT !.at = "return", !.s = s])
           ELSE /\ span' = [span EXCEPT ![s] = back]
                /\ UNCHANGED spanList
                /\ Block(t, IF rest.todo = <<>> THEN Idle ELSE [rest EXCEPT !.at = "put"])
        /\ UNCHANGED <<pmap, pageList, os, cache, maxSize, held, pmtx, broken>>

Resume(t) == Block(t, IF call[t].todo = <<>> THEN Idle ELSE [call[t] EXCEPT !.at = "put"])

(* release_to_pagecache: a span no list can hold goes back to the system.  *)
ReleaseToPagecache(t) ==
    LET s == call[t].s
        n == span[s].n
    IN  /\ call[t].at = "return" /\ pmtx = NoThread
        /\ IF n >= NPAGES
           THEN /\ pmap' = Without(pmap, s)
                /\ os' = os \ PagesOf(s, n)
                /\ span' = Without(span, s)
                /\ Resume(t)
                /\ UNCHANGED pmtx
           ELSE /\ pmtx' = t
                /\ At(t, "prev")
                /\ UNCHANGED <<pmap, os, span>>
        /\ UNCHANGED <<pageList, spanList, cache, maxSize, held, broken>>

(* The neighbour the map has for a page, when the loops would merge it.    *)
Mergeable(t, p) ==
    /\ p \in DOMAIN pmap
    /\ span[pmap[p]].used = 0
    /\ span[pmap[p]].n + span[call[t].s].n < NPAGES

Listed(s) == \E n \in DOMAIN pageList : s \in Range(pageList[n])

(* keep absorbs gone; nb, the neighbour, leaves its page list.             *)
Merge(t, keep, gone, nb) ==
    IF ~Listed(nb)
    THEN broken' = TRUE /\ UNCHANGED <<pages, call>>
    ELSE /\ pageList' = [pageList EXCEPT ![span[nb].n] = Remove(@, nb)]
         /\ span' = Without([span EXCEPT ![keep].n = @ + span[gone].n], gone)
         /\ Block(t, [call[t] EXCEPT !.s = keep])
         /\ UNCHANGED <<pmap, os, broken>>

MergePrev(t) ==
    LET s == call[t].s
    IN  /\ call[t].at = "prev"
        /\ IF Mergeable(t, s - 1)
           THEN Merge(t, pmap[s - 1], s, pmap[s - 1])
           ELSE At(t, "next") /\ UNCHANGED <<pages, broken>>
        /\ UNCHANGED <<spanList, cache, maxSize, held, pmtx>>

(* After the last merge the pages are mapped and the span is free.         *)
MergeNext(t) ==
    LET s == call[t].s
        next == s + span[s].n
    IN  /\ call[t].at = "next"
        /\ IF Mergeable(t, next)
           THEN Merge(t, s, pmap[next], pmap[next]) /\ UNCHANGED pmtx
           ELSE /\ pmap' = MapPages(pmap, s, span[s].n)
                /\ pageList' = [pageList EXCEPT ![span[s].n] = <<s>> \o @]
                /\ pmtx' = NoThread
                /\ Resume(t)
                /\ UNCHANGED <<span, os, broken>>
        /\ UNCHANGED <<spanList, cache, maxSize, held>>

------------------------------------------------------------------------------
Begin(t) ==
    \/ /\ Cardinality(held) < MaxHeld
       /\ \/ \E size \in Sizes : Allocate(t, size)
          \/ \E n \in Large : AllocateLarge(t, n)
    \/ \E b \in held : Free(t, b)

Continue(t) ==
    \/ GetOneSpan(t) \/ Count(t) \/ Cut(t) \/ Take(t)
    \/ \E used \in {0, 1} : NewSpanFromList(t, used) \/ \E s \in Pages : SysAlloc(t, s, used)
    \/ SysAllocFails(t)
    \/ ReleaseLarge(t) \/ ReleaseToSpans(t) \/ ReleaseToPagecache(t)
    \/ MergePrev(t) \/ MergeNext(t)

Next == \E t \in Threads : ~broken /\ (Begin(t) \/ Continue(t))

Spec == Init /\ [][Next]_vars

------------------------------------------------------------------------------
(* Properties                                                              *)

TypeOK ==
    /\ DOMAIN span \subseteq Pages /\ DOMAIN pmap \subseteq os /\ os \subseteq Pages
    /\ \A s \in DOMAIN span : span[s].n > 0 /\ span[s].used \in Nat
    /\ pmtx \in Threads \union {NoThread} /\ broken \in BOOLEAN

Small == UNION {Range(spanList[z]) : z \in Sizes}

CachedBlocks(t) == UNION {Range(cache[t][z]) : z \in Sizes} \union Range(call[t].todo)

LeadsTo(p, s) == p \in DOMAIN pmap /\ pmap[p] = s

(* The blocks of a span that are not in it: with the program, in a thread's*)
(* list, or on their way back.                                             *)
Outside(s) ==
    {b \in held \union UNION {CachedBlocks(t) : t \in Threads} : LeadsTo(b \div PAGE, s)}

InReturn(s) == \E t \in Threads : call[t].at \in {"prev", "next"} /\ s = call[t].s

(* Types; the spans share out the pages the process has, each page of a    *)
(* pooled span leads to it; a span in use for small blocks counts exactly  *)
(* those outside, none of them twice; a free span has a place in its list; *)
(* and nothing leaks: when everything was given back and the threads' lists*)
(* are empty, every page is in a free span again.                          *)
Accounted ==
    ~broken =>
    /\ TypeOK
    /\ \A s, r \in DOMAIN span : s # r => PagesOf(s, span[s].n) \cap PagesOf(r, span[r].n) = {}
    /\ UNION {PagesOf(s, span[s].n) : s \in DOMAIN span} = os
    /\ \A s \in DOMAIN span :
          \/ InReturn(s)
          \/ \A p \in PagesOf(s, IF span[s].n < NPAGES THEN span[s].n ELSE 1) : LeadsTo(p, s)
    /\ \A s \in Small :
          /\ span[s].used = Cardinality(Outside(s))
          /\ Outside(s) \cap Range(span[s].blocks) = {}
          /\ span[s].used + Len(span[s].blocks) = Len(Blocks(s, span[s].n, span[s].bsize))
    /\ \A n \in DOMAIN pageList : \A s \in Range(pageList[n]) : span[s].n = n
    /\ held = {} /\ (\A t \in Threads : call[t] = Idle /\ CachedBlocks(t) = {})
        => \A s \in DOMAIN span : Listed(s)

(* A span that is neither in use nor free is in the hands of one call: on  *)
(* its way to its first block, or on its way back.  Only there can a merge *)
(* meet a span that is in no page list, and only there is the page cache   *)
(* wrong to read used_count_ without the lock that guards it.              *)
UnusedIsListed ==
    ~broken =>
        \A s \in DOMAIN span :
            \/ span[s].used # 0 \/ span[s].n >= NPAGES \/ Listed(s)
            \/ \E t \in Threads :
                  call[t].s = s /\ call[t].at \in {"cut", "count", "take", "return", "prev", "next"}

(* The locks (a list's or mtx, then the page cache's) never leave the calls*)
(* under way waiting for each other, nor for one that bad_alloc ended.     *)
SomeCallGoesOn ==
    ~broken /\ (\E t \in Threads : call[t] # Idle)
        => \E t \in Threads : call[t] # Idle /\ ENABLED Continue(t)

(* "Each span is cut into memory blocks of the same size"                  *)
(* (central_cache.h:15): blocks in use do not overlap, except that the     *)
(* last block of a span runs over into the next one when the size does not *)
(* divide the span, as 144 bytes do not divide 15 pages.                   *)
HeldApart ==
    ~broken =>
        \A a, b \in held :
            LET s == pmap[a \div PAGE]
            IN  a < b => \/ a + span[s].bsize <= b
                        \/ /\ a + span[s].bsize > (s + span[s].n) * PAGE
                           /\ (span[s].n * PAGE) % span[s].bsize # 0
==============================================================================
