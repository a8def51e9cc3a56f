---------------------------- MODULE PageAllocator ----------------------------
(***************************************************************************)
(* What the physical memory manager promises its callers: a set of page    *)
(* frames, from which runs of frames are taken and to which they return.   *)
(* How free frames are represented is left open; that the representation   *)
(* may run out of room is not: any legal call may be refused for that      *)
(* reason, and then changes nothing.                                       *)
(***************************************************************************)
EXTENDS Integers

CONSTANTS
    Page,        \* bytes in a frame
    AddrMax,     \* the largest address
    MaxPages,    \* bound on the pages a caller asks for
    Aligns,      \* alignments, in pages, that a caller asks for
    Addresses    \* addresses that a caller passes to free

VARIABLES
    managed,   \* the frames the allocator owns
    avail,     \* those of them that are free
    last       \* the latest call and its outcome

vars == <<managed, avail, last>>

Run(p, n) == p .. p + n - 1

Init ==
    /\ managed = {}
    /\ avail = {}
    /\ last = [call |-> "new"]

\* Frames are handed over before the first call, and only then.
Donate ==
    /\ last' = [call |-> "new"]
    /\ last = [call |-> "new"]
    /\ managed' \in SUBSET (1 .. AddrMax \div Page)
    /\ managed \subseteq managed'
    /\ avail' = managed'

Outcome(call, x, n, result) ==
    last' = [call |-> call, arg |-> x, pages |-> n, result |-> result]

Malformed(n, a) == n = 0 \/ a = 0 \/ ~\E k \in 0 .. a : a = 2^k
TooLarge(n, a) == n * Page > AddrMax \/ a * Page > AddrMax

\* Where n free frames in a row start at a multiple of a.
FreeRuns(n, a) == {p \in avail : p % a = 0 /\ Run(p, n) \subseteq avail}

\* An allocation succeeds with frames that were all free, or fails: because
\* the request is malformed or too large, because no aligned run of free
\* frames exists, or because the representation is full.
Allocate(n, a) ==
    \/ /\ Outcome("allocate", a, n, "InvalidRequest")
       /\ Malformed(n, a)
       /\ UNCHANGED <<managed, avail>>
    \/ /\ Outcome("allocate", a, n, "Overflow")
       /\ ~Malformed(n, a) /\ TooLarge(n, a)
       /\ UNCHANGED <<managed, avail>>
    \/ /\ Outcome("allocate", a, n, "None")
       /\ ~Malformed(n, a) /\ ~TooLarge(n, a) /\ FreeRuns(n, a) = {}
       /\ UNCHANGED <<managed, avail>>
    \/ /\ Outcome("allocate", a, n, "Capacity")
       /\ ~Malformed(n, a) /\ ~TooLarge(n, a) /\ FreeRuns(n, a) # {}
       /\ UNCHANGED <<managed, avail>>
    \/ \E p \in 1 .. AddrMax \div Page :
          /\ last' = [call |-> "allocate", arg |-> a, pages |-> n,
                      result |-> "Ok", start |-> p * Page]
          /\ ~Malformed(n, a) /\ ~TooLarge(n, a) /\ p \in FreeRuns(n, a)
          /\ avail' = avail \ Run(p, n)
          /\ UNCHANGED managed

\* A run of managed frames none of which is free may be returned, and nothing
\* else: not a free frame, not a frame outside, not an unaligned address.
Returnable(s, n) ==
    n > 0 /\ s % Page = 0 /\ Run(s \div Page, n) \subseteq managed \ avail

Free(s, n) ==
    \/ /\ Outcome("free", s, n, "Ok")
       /\ Returnable(s, n)
       /\ avail' = avail \cup Run(s \div Page, n)
       /\ UNCHANGED managed
    \/ /\ Outcome("free", s, n, "Capacity")
       /\ Returnable(s, n)
       /\ UNCHANGED <<managed, avail>>
    \/ /\ \E r \in {"InvalidFree", "Overflow"} : Outcome("free", s, n, r)
       /\ ~Returnable(s, n)
       /\ UNCHANGED <<managed, avail>>

Next ==
    \/ Donate
    \/ \E n \in 0 .. MaxPages, a \in Aligns : Allocate(n, a)
    \/ \E s \in Addresses, n \in 0 .. MaxPages : Free(s, n)

Spec == Init /\ [][Next]_vars
=============================================================================
