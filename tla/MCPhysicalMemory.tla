--------------------------- MODULE MCPhysicalMemory ---------------------------
(***************************************************************************)
(* Instances of the physical memory manager: pages of two bytes.           *)
(***************************************************************************)
EXTENDS PhysicalMemory

\* A map with two regions that touch, a misaligned hole before them, and a
\* region at the top of the address space: 6 managed pages in three ranges.
HoleMap == << Span(0, 5), Span(6, 10), Span(10, 13), Span(25, 31) >>

\* One range more than the table has slots.
ManyRanges == << Span(2, 4), Span(6, 8), Span(10, 12), Span(14, 16) >>

\* A region whose start cannot be rounded up.
TopRegion == << Span(31, 31) >>

\* Every map of at most two of these regions: with and without the null page,
\* aligned, straddling pages, without a whole page, empty, reversed.
Regions == {Span(0, 3), Span(1, 4), Span(2, 5), Span(3, 5), Span(4, 6), Span(4, 4), Span(5, 8), Span(3, 2)}
SomeMaps ==
    {HoleMap, ManyRanges, TopRegion} \cup UNION {[1 .. k -> Regions] : k \in 0 .. 2}

\* Addresses a caller frees: managed pages, the null page, unmanaged and
\* unaligned ones.
SomeAddresses == {0, 2, 3, 4, 6, 8, 10, 14, 26, 28, 30}
=============================================================================
