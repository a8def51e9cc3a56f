------------------------------ MODULE KernelHeap ------------------------------
(***************************************************************************)
(* The kernel heap, kernel/src/mm/heap.rs: the global allocator, a table   *)
(* of free byte ranges with first-fit aligned allocation.  Its callers     *)
(* give back each block once, with the layout they asked for, as           *)
(* GlobalAlloc requires; a panic is then the heap's own failure.           *)
(***************************************************************************)
EXTENDS RangeTable, FiniteSets

CONSTANTS
    MAX_FREE_RANGES,
    Start,       \* HEAP_START
    Size,        \* HEAP_SIZE
    USIZE_MAX,
    Sizes,       \* sizes that a caller asks for
    HeapAligns   \* alignments that a caller asks for, powers of two

ASSUME HeapAssumption ==
    /\ MAX_FREE_RANGES \in Nat \ {0}
    /\ Start \in Nat
    /\ Size \in Nat \ {0}
    /\ USIZE_MAX \in Nat
    /\ Start + Size <= USIZE_MAX
    /\ Sizes \subseteq Nat
    /\ HeapAligns \subseteq Nat \ {0}
    /\ \A a \in HeapAligns : (USIZE_MAX + 1) % a = 0

VARIABLES
    heap_initialized, heap_free_bytes,
    heap_free,     \* free[..free_len]
    live,          \* the blocks callers hold: address, size, alignment
    returned,      \* the outcome of the latest call
    panicked

heapVars == <<heap_initialized, heap_free, heap_free_bytes, live, returned, panicked>>

HeapInit ==
    /\ heap_initialized = FALSE
    /\ heap_free = <<>>
    /\ heap_free_bytes = 0
    /\ live = {}
    /\ returned = "none"
    /\ panicked = FALSE

heap_init ==
    /\ ~heap_initialized
    /\ heap_initialized' = TRUE
    /\ heap_free' = << Span(Start, Start + Size) >>
    /\ heap_free_bytes' = Size
    /\ UNCHANGED <<live, returned, panicked>>

\* Variants with a plausible fault, for testing the properties, precede the
\* definition they vary.

\* A block of no bytes takes one.
BlockBytes(size) == IF size > 1 THEN size ELSE 1

-----------------------------------------------------------------------------
(* allocate *)

\* The `?` on an address that does not fit in a usize: the search ends.
Overflows(r, bytes, align) ==
    \/ r.start + (align - 1) > USIZE_MAX
    \/ align_up(r.start, align) + bytes > USIZE_MAX

\* refuses a range that would have to be split
Usable_unsplit(i, bytes, align) ==
    LET start == align_up(heap_free[i].start, align)
        end == start + bytes
    IN  end <= heap_free[i].end /\ ~NeedsSlot(heap_free, i, start, end)

\* Range i holds the block and can be cut: a range that needs a slot more than
\* the table has is passed over.
Usable(i, bytes, align) ==
    LET start == align_up(heap_free[i].start, align)
        end == start + bytes
    IN  /\ end <= heap_free[i].end
        /\ ~(NeedsSlot(heap_free, i, start, end) /\ Len(heap_free) = MAX_FREE_RANGES)

\* The search gets as far as range i.
Reaches(i, bytes, align) ==
    \A j \in 1 .. i - 1 : ~Overflows(heap_free[j], bytes, align) /\ ~Usable(j, bytes, align)

Null == /\ returned' = "null"
        /\ UNCHANGED <<heap_initialized, heap_free, heap_free_bytes, live, panicked>>

alloc(size, align) ==
    LET bytes == BlockBytes(size)
    IN  /\ ~panicked
        /\ \/ ~heap_initialized /\ Null
           \/ /\ heap_initialized
              /\ \/ Reaches(Len(heap_free) + 1, bytes, align) /\ Null
                 \/ \E i \in 1 .. Len(heap_free) :
                      /\ Reaches(i, bytes, align)
                      /\ \/ Overflows(heap_free[i], bytes, align) /\ Null
                         \/ /\ ~Overflows(heap_free[i], bytes, align)
                            /\ Usable(i, bytes, align)
                            /\ LET start == align_up(heap_free[i].start, align)
                               IN  /\ heap_free' = Carve(heap_free, i, start, start + bytes)
                                   /\ heap_free_bytes' = heap_free_bytes - bytes
                                   /\ live' = live \cup {[at |-> start, size |-> size, align |-> align]}
                            /\ returned' = "block"
                            /\ UNCHANGED <<heap_initialized, panicked>>

-----------------------------------------------------------------------------
(* deallocate *)

\* does not allow for a block at the end of the heap
Asserted_strict(i, start, end) ==
    /\ heap_initialized
    /\ end <= USIZE_MAX
    /\ Start <= start /\ end < Start + Size
    /\ ~Overlaps(heap_free, i, start, end)

\* The assertions on a block that is given back.
Asserted(i, start, end) ==
    /\ heap_initialized
    /\ end <= USIZE_MAX
    /\ Start <= start /\ end <= Start + Size
    /\ ~Overlaps(heap_free, i, start, end)

\* insert needs a slot unless the block joins one of its neighbours.
HasSlot(i, start, end) ==
    MergesLeft(heap_free, i, start) \/ MergesRight(heap_free, i, end) \/ Len(heap_free) < MAX_FREE_RANGES

\* A failed assertion or expect: the kernel stops.
Panic ==
    /\ panicked' = TRUE
    /\ UNCHANGED <<heap_initialized, heap_free, heap_free_bytes, live, returned>>

dealloc(block) ==
    LET start == block.at
        end == block.at + BlockBytes(block.size)
        sum == heap_free_bytes + BlockBytes(block.size)
    IN  /\ ~panicked
        /\ \E i \in 1 .. Len(heap_free) + 1 :
              /\ IsSlot(heap_free, start, i)
              /\ \/ ~(Asserted(i, start, end) /\ HasSlot(i, start, end)) /\ Panic
                 \/ /\ Asserted(i, start, end) /\ HasSlot(i, start, end)
                    /\ heap_free' = Release(heap_free, i, start, end)
                    /\ heap_free_bytes' = sum
                    /\ panicked' = (sum > USIZE_MAX \/ sum > Size)
                    /\ live' = live \ {block}
                    /\ returned' = "freed"
                    /\ UNCHANGED heap_initialized

HeapNext ==
    \/ heap_init
    \/ \E s \in Sizes, a \in HeapAligns : alloc(s, a)
    \/ \E b \in live : dealloc(b)

HeapSpec == HeapInit /\ [][HeapNext]_heapVars

-----------------------------------------------------------------------------
(* Properties *)

Within(b) == b.at .. b.at + BlockBytes(b.size) - 1

Heap == Start .. Start + Size - 1

\* No byte is handed out twice: whatever sizes and alignments are allocated
\* and freed in whatever order, blocks lie in the heap, aligned as asked for,
\* and overlap neither each other nor the free table, whose ranges are sorted,
\* never touch and never outnumber its slots.
NoByteTwice ==
    heap_initialized =>
        /\ Ordered(heap_free) /\ Len(heap_free) <= MAX_FREE_RANGES
        /\ \A b \in live :
              /\ b.at % b.align = 0
              /\ Within(b) \subseteq Heap
              /\ \A x \in Within(b) : ~In(heap_free, x)
        /\ \A b, c \in live : b # c => Within(b) \cap Within(c) = {}

\* No byte is lost: each is in a block or in the free table, and free_bytes
\* counts the free ones, so that when everything has been given back the heap
\* is one range again.
NoByteLost ==
    heap_initialized =>
        /\ \A x \in Heap : In(heap_free, x) \/ \E b \in live : x \in Within(b)
        /\ heap_free_bytes = Cardinality({x \in Heap : In(heap_free, x)})

\* Every byte of the heap is in one place: in one block or free.
EveryByteOnce == NoByteTwice /\ NoByteLost

IsolatedAndFull ==
    /\ Len(heap_free) = MAX_FREE_RANGES
    /\ \E b \in live : ~In(heap_free, b.at - 1) /\ ~In(heap_free, b.at + BlockBytes(b.size))

\* deallocate panics only if the table is full and the block touches no free
\* range: with callers that keep the GlobalAlloc contract, none of its other
\* assertions can fail.
PanicOnlyIfFull ==
    [][panicked' /\ ~panicked => IsolatedAndFull]_heapVars

\* A free aligned run for the block is there only if the table is full, and
\* then none is at the start of a free range.
NoRoom(size, align) ==
    \A x \in Heap :
        x % align = 0 /\ (\A y \in x .. x + BlockBytes(size) - 1 : In(heap_free, y)) =>
            Len(heap_free) = MAX_FREE_RANGES /\ In(heap_free, x - 1)

NullOnlyIfNoRoom ==
    \A s \in Sizes, a \in HeapAligns :
        heap_initialized /\ alloc(s, a) /\ returned' = "null" => NoRoom(s, a)

\* alloc returns null only if no free aligned run is long enough, or the table
\* is full and no such run is at the start of a free range; a search that ends
\* early because an address overflows misses nothing.
NullMeansNoRoom == [][NullOnlyIfNoRoom]_heapVars
=============================================================================
