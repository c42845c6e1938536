------------------------------- MODULE SizeClass -------------------------------
(***************************************************************************)
(* size_class of the memory pool: the size a request is rounded up to, and *)
(* the free list the rounded size belongs to.                              *)
(***************************************************************************)
EXTENDS Integers

MAXBYTES == 65536

NLISTS == 240

(* (size + align - 1) & ~(align - 1), for an align that is a power of two. *)
RoundUpTo(size, align) == ((size + align - 1) \div align) * align

RoundUp(size) ==
    IF size <= 128 THEN RoundUpTo(size, 8)
    ELSE IF size <= 1024 THEN RoundUpTo(size, 16)
    ELSE IF size <= 8192 THEN RoundUpTo(size, 128)
    ELSE RoundUpTo(size, 512)

(* index(bytes, align_shift), with align for 1 << align_shift.             *)
IndexIn(bytes, align) == (bytes + align - 1) \div align - 1

Index(bytes) ==
    IF bytes <= 128 THEN IndexIn(bytes, 8)
    ELSE IF bytes <= 1024 THEN IndexIn(bytes - 128, 16) + 16
    ELSE IF bytes <= 8192 THEN IndexIn(bytes - 1024, 128) + 56 + 16
    ELSE IndexIn(bytes - 8192, 512) + 56 + 56 + 16

Requests == {n \in Nat : 0 < n /\ n <= MAXBYTES}
==============================================================================
