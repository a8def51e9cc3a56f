---------------------------- MODULE PhysicalMemory ----------------------------
(***************************************************************************)
(* The physical memory manager, crates/kernel-core/src/physical.rs:        *)
(* sorted free ranges with first-fit aligned allocation, validated frees   *)
(* and coalescing.  Addresses are bytes with a small page size, so that    *)
(* maps and calls that are not page-aligned are part of the model.         *)
(***************************************************************************)
EXTENDS RangeTable, FiniteSets

CONSTANTS
    N,           \* slots in each table
    Page,        \* PAGE_SIZE
    AddrMax,     \* u64::MAX
    Maps,        \* firmware maps the manager may be given
    MaxPages,    \* bound on the pages a caller asks for
    Aligns,      \* alignments, in pages, that a caller asks for
    Addresses    \* addresses that a caller passes to free_pages

\* Ranges of 64-bit addresses, possibly empty or reversed.
Region == [start : 0 .. AddrMax, end : 0 .. AddrMax]

ASSUME PmmAssumption ==
    /\ N \in Nat \ {0}
    /\ Page \in Nat \ {0}
    /\ AddrMax \in Nat
    /\ Maps \subseteq Seq(Region)
    /\ MaxPages \in Nat
    /\ Aligns \subseteq Nat
    /\ Addresses \subseteq 0 .. AddrMax

VARIABLES
    map,           \* the firmware map new was called with
    turn,          \* the region of it that the loop of new is at
    previous_end,  \* the end of the region before that
    built,         \* "Building" until new returns "Ok" or an error
    managed,       \* managed[..managed_len]
    free,          \* free[..free_len]
    total_bytes,
    free_bytes,
    last           \* the latest call and its outcome

building == <<map, turn, previous_end, built, managed, total_bytes>>
vars == <<building, free, free_bytes, last>>

\* Variants with a plausible fault, for testing the properties, precede the
\* definition they vary.

\* rounds the end of a region up
align_down_up(v, a) == align_up(v, a)

align_down(v, a) == v - (v % a)

-----------------------------------------------------------------------------
(* new *)

Init ==
    /\ map \in Maps
    /\ turn = 1
    /\ previous_end = 0
    /\ built = "Building"
    /\ managed = <<>>
    /\ free = <<>>
    /\ total_bytes = 0
    /\ free_bytes = 0
    /\ last = [call |-> "new"]

\* The early returns of new.
Fail(error) ==
    /\ built' = error
    /\ UNCHANGED <<turn, managed, free, total_bytes, free_bytes>>

\* The range goes into the first unused slot.
push(f, s, e) == Append(f, Span(s, e))

\* push_initial: extend the last range if the new one touches it.
push_initial(start, end) ==
    LET k == Len(managed)
        bytes == end - start
    IN  \/ /\ k > 0 /\ managed[k].end = start
           /\ managed' = resize(managed, k, managed[k].start, end)
           /\ free' = resize(free, Len(free), free[Len(free)].start, end)
           /\ total_bytes' = total_bytes + bytes
           /\ free_bytes' = free_bytes + bytes
           /\ turn' = turn + 1
           /\ UNCHANGED built
        \/ /\ ~(k > 0 /\ managed[k].end = start)
           /\ k = N \/ Len(free) = N
           /\ Fail("Capacity")
        \/ /\ ~(k > 0 /\ managed[k].end = start)
           /\ k < N /\ Len(free) < N
           /\ managed' = push(managed, start, end)
           /\ free' = push(free, start, end)
           /\ total_bytes' = total_bytes + bytes
           /\ free_bytes' = free_bytes + bytes
           /\ turn' = turn + 1
           /\ UNCHANGED built

\* One turn of the loop of new over the firmware map.  The null page and the
\* parts of pages at either end of a region are not managed.
AddRegion ==
    LET region == map[turn]
        first == IF region.start > Page THEN region.start ELSE Page
        start == align_up(first, Page)
        end == align_down(region.end, Page)
    IN  /\ built = "Building" /\ turn <= Len(map)
        /\ UNCHANGED <<map, last>>
        /\ \/ /\ region.end < region.start
              /\ Fail("ReversedRange")
              /\ UNCHANGED previous_end
           \/ /\ region.end >= region.start /\ region.start < previous_end
              /\ Fail("OverlapOrUnsorted")
              /\ UNCHANGED previous_end
           \/ /\ region.end >= region.start /\ region.start >= previous_end
              /\ previous_end' = region.end
              /\ \/ /\ first + (Page - 1) > AddrMax
                    /\ Fail("Overflow")
                 \/ /\ first + (Page - 1) <= AddrMax /\ start >= end
                    /\ turn' = turn + 1
                    /\ UNCHANGED <<built, managed, free, total_bytes, free_bytes>>
                 \/ /\ first + (Page - 1) <= AddrMax /\ start < end
                    /\ push_initial(start, end)

\* new returns the manager.
new ==
    /\ built = "Building" /\ turn > Len(map)
    /\ built' = "Ok"
    /\ UNCHANGED <<map, turn, previous_end, managed, free, total_bytes, free_bytes, last>>

-----------------------------------------------------------------------------
(* allocate_pages *)

Outcome(call, x, n, result) ==
    last' = [call |-> call, arg |-> x, pages |-> n, result |-> result]

\* refuses a range that fits exactly
Fits_strict(r, size, alignment) ==
    /\ r.start + (alignment - 1) <= AddrMax
    /\ align_up(r.start, alignment) + size <= AddrMax
    /\ align_up(r.start, alignment) + size < r.end

\* Range r can hold size bytes at the given alignment.
Fits(r, size, alignment) ==
    /\ r.start + (alignment - 1) <= AddrMax
    /\ align_up(r.start, alignment) + size <= AddrMax
    /\ align_up(r.start, alignment) + size <= r.end

IsPowerOfTwo(a) == \E k \in 0 .. a : a = 2^k

\* AddrMax + 1, like 2^64, is a multiple of every alignment up to it.
ASSUME WidthAssumption ==
    \A a \in Aligns :
        IsPowerOfTwo(a) /\ a * Page <= AddrMax => (AddrMax + 1) % (a * Page) = 0

\* The first range that fits is used, or refused if splitting it needs a slot
\* the table does not have; later ranges are not tried.
allocate_pages(pages, align_pages) ==
    LET size == pages * Page
        alignment == align_pages * Page
        wellformed == pages > 0 /\ align_pages > 0 /\ IsPowerOfTwo(align_pages)
    IN  /\ built = "Ok"
        /\ UNCHANGED building
        /\ \/ /\ ~wellformed
              /\ Outcome("allocate", align_pages, pages, "InvalidRequest")
              /\ UNCHANGED <<free, free_bytes>>
           \/ /\ wellformed
              /\ size > AddrMax \/ alignment > AddrMax
              /\ Outcome("allocate", align_pages, pages, "Overflow")
              /\ UNCHANGED <<free, free_bytes>>
           \/ /\ wellformed
              /\ size <= AddrMax /\ alignment <= AddrMax
              /\ \/ /\ \A i \in 1 .. Len(free) : ~Fits(free[i], size, alignment)
                    /\ Outcome("allocate", align_pages, pages, "None")
                    /\ UNCHANGED <<free, free_bytes>>
                 \/ \E i \in 1 .. Len(free) :
                      /\ Fits(free[i], size, alignment)
                      /\ \A j \in 1 .. i - 1 : ~Fits(free[j], size, alignment)
                      /\ LET start == align_up(free[i].start, alignment)
                             end == start + size
                         IN  IF NeedsSlot(free, i, start, end) /\ Len(free) = N
                             THEN /\ Outcome("allocate", align_pages, pages, "Capacity")
                                  /\ UNCHANGED <<free, free_bytes>>
                             ELSE /\ free' = Carve(free, i, start, end)
                                  /\ free_bytes' = free_bytes - size
                                  /\ last' = [call |-> "allocate", arg |-> align_pages,
                                              pages |-> pages, result |-> "Ok", start |-> start]

-----------------------------------------------------------------------------
(* free_pages *)

is_managed(s, e) ==
    \E i \in 1 .. Len(managed) : managed[i].start <= s /\ e <= managed[i].end

\* insert_free needs a slot unless the range joins one of its neighbours.
HasRoom(i, start, end) ==
    MergesLeft(free, i, start) \/ MergesRight(free, i, end) \/ Len(free) < N

\* The counter is checked against the total only after the table has changed.
free_pages(start, pages) ==
    LET end == start + pages * Page
        sum == free_bytes + pages * Page
        aligned == pages > 0 /\ start >= Page /\ start % Page = 0
    IN  /\ built = "Ok"
        /\ UNCHANGED building
        /\ \/ /\ ~aligned
              /\ Outcome("free", start, pages, "InvalidFree")
              /\ UNCHANGED <<free, free_bytes>>
           \/ /\ aligned /\ end > AddrMax
              /\ Outcome("free", start, pages, "Overflow")
              /\ UNCHANGED <<free, free_bytes>>
           \/ /\ aligned /\ end <= AddrMax /\ ~is_managed(start, end)
              /\ Outcome("free", start, pages, "InvalidFree")
              /\ UNCHANGED <<free, free_bytes>>
           \/ /\ aligned /\ end <= AddrMax /\ is_managed(start, end)
              /\ \E i \in 1 .. Len(free) + 1 :
                   /\ IsSlot(free, start, i)
                   /\ \/ /\ Overlaps(free, i, start, end)
                         /\ Outcome("free", start, pages, "InvalidFree")
                         /\ UNCHANGED <<free, free_bytes>>
                      \/ /\ ~Overlaps(free, i, start, end)
                         /\ ~HasRoom(i, start, end)
                         /\ Outcome("free", start, pages, "Capacity")
                         /\ UNCHANGED <<free, free_bytes>>
                      \/ /\ ~Overlaps(free, i, start, end)
                         /\ HasRoom(i, start, end)
                         /\ free' = Release(free, i, start, end)
                         /\ free_bytes' = IF sum > AddrMax THEN free_bytes ELSE sum
                         /\ Outcome("free", start, pages,
                                    IF sum > AddrMax THEN "Overflow"
                                    ELSE IF sum > total_bytes THEN "InvalidFree" ELSE "Ok")

Next ==
    \/ AddRegion
    \/ new
    \/ \E n \in 0 .. MaxPages, a \in Aligns : allocate_pages(n, a)
    \/ \E s \in Addresses, n \in 0 .. MaxPages : free_pages(s, n)

Spec == Init /\ [][Next]_vars

-----------------------------------------------------------------------------
(* Properties *)

\* How many addresses a table covers.
Covered(f) == {x \in 0 .. AddrMax : In(f, x)}
Bytes(f) == Cardinality(Covered(f))

\* Type invariant.
TypeOK ==
    /\ map \in Maps
    /\ turn \in 1 .. Len(map) + 1
    /\ previous_end \in 0 .. AddrMax
    /\ built \in {"Building", "Ok", "ReversedRange", "OverlapOrUnsorted", "Overflow", "Capacity"}
    /\ managed \in Seq(Region) /\ Len(managed) <= N
    /\ free \in Seq(Region) /\ Len(free) <= N
    /\ total_bytes \in 0 .. AddrMax
    /\ free_bytes \in 0 .. AddrMax

\* The free table stays sorted and coalesced (no two ranges overlap or touch),
\* and page-aligned, and inside the managed ranges, whatever is allocated and
\* freed in whatever order.
FreeTableSound ==
    /\ Ordered(free)
    /\ \A i \in 1 .. Len(free) :
          /\ free[i].start % Page = 0 /\ free[i].end % Page = 0
          /\ is_managed(free[i].start, free[i].end)

\* The variables keep their types and the tables their size, and the byte
\* counters agree with the tables, so used_bytes never underflows and
\* the check at the end of free_pages, made after the table has changed, never
\* fails.
Accounting ==
    /\ TypeOK
    /\ free_bytes = Bytes(free)
    /\ total_bytes = Bytes(managed)
    /\ free_bytes <= total_bytes

\* new manages exactly the whole pages inside a single firmware region, the
\* null page excepted, in coalesced ranges.
NewIsExact ==
    built = "Ok" =>
    /\ Ordered(managed)
    /\ \A x \in 0 .. AddrMax :
          In(managed, x) <=>
              LET p == align_down(x, Page)
              IN  /\ p >= Page
                  /\ \E i \in 1 .. Len(map) : map[i].start <= p /\ p + Page <= map[i].end

\* The set of frames a table covers.
FramesOf(f) == {p \in 1 .. AddrMax \div Page : In(f, p * Page)}

\* The manager implements the page allocator: an allocation returns frames
\* that were free and takes exactly those, None means that no aligned run is
\* free, a free gives back exactly the run, and every refused call, Capacity
\* included, leaves the free frames as they were.
Abstract == INSTANCE PageAllocator WITH managed <- FramesOf(managed), avail <- FramesOf(free)
ImplementsPageAllocator == Abstract!Spec
=============================================================================
