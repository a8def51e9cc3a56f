---------------------------- MODULE AddressSpaces ----------------------------
(***************************************************************************)
(* The page tables of the kernel: kernel/src/arch/memory.rs and            *)
(* kernel/src/mm/mod.rs.  mm::init takes the bootloader's tables over and  *)
(* maps the heap between two guard pages; afterwards drivers map device    *)
(* memory and take DMA pages, and processes get a deep clone of the active *)
(* tables with user pages of their own.                                    *)
(*                                                                         *)
(* An address space is a root frame, the frames of its lower tables (one   *)
(* table per Span pages stands for the three lower levels) and the leaves. *)
(* Bytes of memory are left out, page numbers stand for addresses.         *)
(***************************************************************************)
EXTENDS Integers, FiniteSets, FiniteSetsExt, Functions, Sequences

CONSTANTS
    RamSizes,      \* numbers of frames that the firmware may report as usable
    MaxPage, Span, \* virtual pages 0 .. MaxPage, Span of them under a table
    USER_LIMIT,    \* pages below it belong to userspace
    BootMaps,      \* sets of pages the bootloader may have mapped: code, stack, framebuffer
    HEAP_START, HEAP_PAGES,
    MMIO_START

\* Userspace, the heap with its guards and device memory follow one another.
ASSUME AddressSpacesAssumption ==
    /\ RamSizes \subseteq Nat
    /\ MaxPage \in Nat /\ Span \in Nat \ {0} /\ USER_LIMIT \in Nat
    /\ BootMaps \subseteq SUBSET (0 .. MaxPage)
    /\ HEAP_START \in Nat /\ HEAP_PAGES \in Nat \ {0} /\ MMIO_START \in 0 .. MaxPage
    /\ HEAP_START > USER_LIMIT /\ HEAP_START + HEAP_PAGES < MMIO_START

VARIABLES
    ram,         \* the frames that PMM manages, 1 .. ram
    free,        \* the ones that are free
    spaces,      \* root frame -> address space
    cr3,
    next_mmio,   \* NEXT_MMIO
    rest,        \* pages that a loop of map_heap or map_mmio has still to map
    dma,         \* frames handed out by allocate_dma
    booted,      \* how far mm::init has come
    failures     \* history: calls that mapped a user page and failed

mmVars == <<ram, free, spaces, cr3, next_mmio, rest, dma, booted, failures>>

\* f with y at x
With(f, x, y) == [z \in DOMAIN f \cup {x} |-> IF z = x THEN y ELSE f[z]]

Page == 0 .. MaxPage
Group(v) == v \div Span
HeapPages == HEAP_START .. HEAP_START + HEAP_PAGES - 1
Guards == {HEAP_START - 1, HEAP_START + HEAP_PAGES}

\* The bootloader's own frames and the device memory are not managed by PMM:
\* its root, tables and pages, and the registers of devices.
BootRoot == -1
BootTable(g) == -3 * g - 2
BootPage(p) == -3 * p - 3
DevicePage(v) == -3 * v - 4
Leaf(kind, frame, writable) == [kind |-> kind, frame |-> frame, writable |-> writable]

BootSpace(pages) ==
    [tables |-> [g \in {Group(p) : p \in pages} |-> BootTable(g)],
     map |-> [p \in pages |-> Leaf("kernel", BootPage(p), TRUE)]]

MMInit ==
    /\ ram \in RamSizes
    /\ free = 1 .. ram
    /\ \E pages \in BootMaps : spaces = [r \in {BootRoot} |-> BootSpace(pages)]
    /\ cr3 = BootRoot
    /\ next_mmio = MMIO_START /\ rest = {}
    /\ dma = {}
    /\ booted = "start"
    /\ failures = 0

-----------------------------------------------------------------------------
(* Walking and extending one address space.  A mapper is a space and PMM's *)
(* free frames, with ok = FALSE after an error.                            *)

Mapper(root) ==
    [tables |-> spaces[root].tables, map |-> spaces[root].map, free |-> free, ok |-> TRUE]
SpaceOf(m) == [tables |-> m.tables, map |-> m.map]
Failed(m) == [tables |-> m.tables, map |-> m.map, free |-> m.free, ok |-> FALSE]
Extended(tables, map, left) == [tables |-> tables, map |-> map, free |-> left, ok |-> TRUE]

\* OffsetPageTable::map_to: a missing lower table is taken from PMM.
map_to(m, v, leaf) ==
    CASE Group(v) \in DOMAIN m.tables -> Extended(m.tables, With(m.map, v, leaf), m.free)
      [] Group(v) \notin DOMAIN m.tables /\ m.free = {} -> Failed(m)
      [] OTHER ->
            LET f == Min(m.free)
            IN  Extended(With(m.tables, Group(v), f), With(m.map, v, leaf), m.free \ {f})

\* translate_addr is checked before every mapping.
MapChecked(m, v, leaf) ==
    IF v \in DOMAIN m.map THEN Failed(m) ELSE map_to(m, v, leaf)

\* A frame for the page is taken first, the tables above it afterwards.
MapFresh(m, v, kind, writable) ==
    IF v \in DOMAIN m.map \/ m.free = {} THEN Failed(m)
    ELSE LET f == Min(m.free)
         IN  map_to(Extended(m.tables, m.map, m.free \ {f}), v, Leaf(kind, f, writable))

\* clone_root: a root and a copy of every table, or nothing when PMM has too few.
CloneFrames(root) == 1 + Cardinality(DOMAIN spaces[root].tables)
CanClone(root) == Cardinality(free) >= CloneFrames(root)

FirstFree(n) == CHOOSE s \in kSubset(n, free) : \A f \in s, g \in free \ s : f < g

\* links the tables of the source
Cloned_shallow(root) ==
    LET new == Min(free)
    IN  [root |-> new, space |-> spaces[root], free |-> free \ FirstFree(CloneFrames(root))]

Cloned(root) ==
    LET taken == FirstFree(CloneFrames(root))
        new == Min(taken)
        tables == CHOOSE t \in [DOMAIN spaces[root].tables -> taken \ {new}] : IsInjective(t)
    IN  [root |-> new,
         space |-> [tables |-> tables, map |-> spaces[root].map],
         free |-> free \ taken]

-----------------------------------------------------------------------------
(* mm::init *)

\* Two frames are taken, tried and given back; RAM must have two.
verify_physical_memory ==
    /\ booted = "start"
    /\ booted' = IF ram >= 2 THEN "verified" ELSE "panic"
    /\ UNCHANGED <<ram, free, spaces, cr3, next_mmio, rest, dma, failures>>

take_ownership ==
    /\ booted = "verified"
    /\ IF CanClone(cr3)
       THEN /\ spaces' = With(spaces, Cloned(cr3).root, Cloned(cr3).space)
            /\ free' = Cloned(cr3).free
            /\ cr3' = Cloned(cr3).root
            /\ booted' = "owned"
       ELSE booted' = "panic" /\ UNCHANGED <<spaces, free, cr3>>
    /\ UNCHANGED <<ram, next_mmio, rest, dma, failures>>

\* map_heap: the heap and its guards must be unmapped, ...
map_heap ==
    /\ booted = "owned"
    /\ IF (Guards \cup HeapPages) \cap DOMAIN spaces[cr3].map = {}
       THEN booted' = "heap" /\ rest' = HeapPages
       ELSE booted' = "panic" /\ UNCHANGED rest
    /\ UNCHANGED <<ram, free, spaces, cr3, next_mmio, dma, failures>>

\* ... each of its pages gets a frame, ...
map_heap_page ==
    /\ booted = "heap" /\ rest # {}
    /\ LET m == MapFresh(Mapper(cr3), Min(rest), "heap", TRUE)
       IN  IF m.ok
           THEN /\ spaces' = [spaces EXCEPT ![cr3] = SpaceOf(m)]
                /\ free' = m.free
                /\ rest' = rest \ {Min(rest)}
                /\ UNCHANGED booted
           ELSE booted' = "panic" /\ UNCHANGED <<spaces, free, rest>>
    /\ UNCHANGED <<ram, cr3, next_mmio, dma, failures>>

\* ... and the guards must still be unmapped.  mm::init then publishes PMM.
map_heap_done ==
    /\ booted = "heap" /\ rest = {}
    /\ booted' = IF Guards \cap DOMAIN spaces[cr3].map = {} THEN "ready" ELSE "panic"
    /\ UNCHANGED <<ram, free, spaces, cr3, next_mmio, rest, dma, failures>>

-----------------------------------------------------------------------------
(* The calls that mm offers once it is ready *)

\* Virtual addresses are reserved before anything can fail and are never
\* reused; ...
map_mmio(pages) ==
    /\ booted = "ready" /\ rest = {}
    /\ next_mmio + pages - 1 <= MaxPage
    /\ next_mmio' = next_mmio + pages
    /\ rest' = next_mmio .. next_mmio + pages - 1
    /\ UNCHANGED <<ram, free, spaces, cr3, dma, booted, failures>>

\* ... a failure half-way leaves the first pages mapped.
map_mmio_page(ok) ==
    /\ booted = "ready" /\ rest # {}
    /\ LET v == Min(rest)
           m == MapChecked(Mapper(cr3), v, Leaf("mmio", DevicePage(v), TRUE))
       IN  /\ ok = m.ok
           /\ spaces' = [spaces EXCEPT ![cr3] = SpaceOf(m)]
           /\ free' = m.free
           /\ rest' = IF m.ok THEN rest \ {v} ELSE {}
    /\ UNCHANGED <<ram, cr3, next_mmio, dma, booted, failures>>

\* contiguous pages, or none
allocate_dma(pages) ==
    /\ booted = "ready"
    /\ \E start \in free :
          /\ start .. start + pages - 1 \subseteq free
          /\ \A lower \in free : lower < start => ~(lower .. lower + pages - 1 \subseteq free)
          /\ free' = free \ (start .. start + pages - 1)
          /\ dma' = dma \cup (start .. start + pages - 1)
    /\ UNCHANGED <<ram, spaces, cr3, next_mmio, rest, booted, failures>>

CanCreate == booted = "ready" /\ CanClone(cr3)

\* clones the address space that was made last
create_user_address_space_of_latest ==
    /\ CanCreate
    /\ LET latest == Max(DOMAIN spaces)
       IN  /\ CanClone(latest)
           /\ spaces' = With(spaces, Cloned(latest).root, Cloned(latest).space)
           /\ free' = Cloned(latest).free
    /\ UNCHANGED <<ram, cr3, next_mmio, rest, dma, booted, failures>>

\* A clone of the tables that are active now.  A failed clone has given
\* everything back (see PageTables).
create_user_address_space ==
    /\ CanCreate
    /\ spaces' = With(spaces, Cloned(cr3).root, Cloned(cr3).space)
    /\ free' = Cloned(cr3).free
    /\ UNCHANGED <<ram, cr3, next_mmio, rest, dma, booted, failures>>

UserPage(root, v, writable) ==
    IF v >= USER_LIMIT THEN Failed(Mapper(root)) ELSE MapFresh(Mapper(root), v, "user", writable)

\* On failure the tables are as they were, but a frame that was already taken
\* for the page is not given back.
map_user_page(root, v, writable) ==
    /\ booted = "ready"
    /\ LET m == UserPage(root, v, writable)
       IN  /\ spaces' = [spaces EXCEPT ![root] = SpaceOf(m)]
           /\ free' = m.free
           /\ failures' = failures + (IF m.ok THEN 0 ELSE 1)
    /\ UNCHANGED <<ram, cr3, next_mmio, rest, dma, booted>>

activate_address_space(root) ==
    /\ cr3' = root
    /\ UNCHANGED <<ram, free, spaces, next_mmio, rest, dma, booted, failures>>

-----------------------------------------------------------------------------
(* Properties *)

Roots == DOMAIN spaces

\* Type invariant.
MMTypeOK ==
    /\ ram \in RamSizes /\ free \subseteq 1 .. ram /\ dma \subseteq 1 .. ram
    /\ cr3 \in Roots
    /\ \A r \in Roots :
          /\ DOMAIN spaces[r].map \subseteq Page
          /\ {Group(v) : v \in DOMAIN spaces[r].map} \subseteq DOMAIN spaces[r].tables
    /\ next_mmio \in MMIO_START .. MaxPage + 1 /\ rest \subseteq Page
    /\ booted \in {"start", "verified", "owned", "heap", "ready", "panic"}
    /\ failures \in Nat

TableFrames(r) == {r} \cup Range(spaces[r].tables)
LeafFrames(r) == {spaces[r].map[v].frame : v \in DOMAIN spaces[r].map}
InUse == (UNION {TableFrames(r) \cup LeafFrames(r) : r \in Roots}) \cup dma

\* The memory manager's variables keep their types and every page its table.
\* No page-table frame serves two tables, in one address space or in two, and
\* none is at the same time a page, DMA memory or free; no page of an address
\* space shares its frame.  This is what lets user mappings leave the kernel's
\* tree alone ("every page-table frame is process-owned").  And every frame of
\* RAM is free or in use, except the ones that failed calls of map_user_page
\* took and dropped: at most one for each such call.
FramesOwnedOnce ==
    /\ MMTypeOK
    /\ free \cap InUse = {}
    /\ \A r \in Roots :
          /\ Cardinality(TableFrames(r)) = 1 + Cardinality(DOMAIN spaces[r].tables)
          /\ Cardinality(LeafFrames(r)) = Cardinality(DOMAIN spaces[r].map)
          /\ LeafFrames(r) \cap dma = {}
          /\ TableFrames(r) \cap dma = {}
          /\ \A s \in Roots :
                /\ TableFrames(r) \cap LeafFrames(s) = {}
                /\ r # s => TableFrames(r) \cap TableFrames(s) = {}
    /\ Cardinality((1 .. ram) \ (free \cup InUse)) <= failures
=============================================================================
