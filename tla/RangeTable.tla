------------------------------ MODULE RangeTable ------------------------------
(***************************************************************************)
(* The table of free ranges that the physical memory manager               *)
(* (crates/kernel-core/src/physical.rs) and the kernel heap                *)
(* (kernel/src/mm/heap.rs) both keep: an array of half-open ranges sorted  *)
(* by address, of which the first len slots are in use.  A table is a      *)
(* sequence of records [start, end].                                       *)
(***************************************************************************)
EXTENDS Integers, Sequences

Span(s, e) == [start |-> s, end |-> e]

\* insert_free and insert: the ranges from slot i on move up by one.
insert_free(f, i, r) ==
    [j \in 1 .. Len(f) + 1 |->
        IF j < i THEN f[j] ELSE IF j = i THEN r ELSE f[j - 1]]

\* remove_free and remove: the ranges after slot i move down by one.
remove_free(f, i) ==
    [j \in 1 .. Len(f) - 1 |-> IF j < i THEN f[j] ELSE f[j + 1]]

\* self.free[i] = s .. e: a range grows or shrinks in place.
resize(f, i, s, e) == [f EXCEPT ![i] = Span(s, e)]

\* align_up: the least multiple of a, a power of two, not below v.
align_up(v, a) == v + ((0 - v) % a)

HasPrefix(f, i, s) == s > f[i].start
HasSuffix(f, i, e) == e < f[i].end

\* Taking s .. e - 1 out of range i needs a slot more than the table has now.
NeedsSlot(f, i, s, e) == HasPrefix(f, i, s) /\ HasSuffix(f, i, e)

\* Variants with a plausible fault, for testing the properties, precede the
\* definition they vary.

\* forgets to keep what is above a range taken from the middle
Carve_drops_suffix(f, i, s, e) ==
    CASE ~HasPrefix(f, i, s) /\ ~HasSuffix(f, i, e) -> remove_free(f, i)
      [] ~HasPrefix(f, i, s) /\ HasSuffix(f, i, e)  -> resize(f, i, e, f[i].end)
      [] OTHER -> resize(f, i, f[i].start, s)

\* The table after s .. e - 1 is taken out of range i.
Carve(f, i, s, e) ==
    CASE ~HasPrefix(f, i, s) /\ ~HasSuffix(f, i, e) -> remove_free(f, i)
      [] ~HasPrefix(f, i, s) /\ HasSuffix(f, i, e)  -> resize(f, i, e, f[i].end)
      [] HasPrefix(f, i, s) /\ ~HasSuffix(f, i, e)  -> resize(f, i, f[i].start, s)
      [] OTHER -> insert_free(resize(f, i, f[i].start, s), i + 1, Span(e, f[i].end))

\* The slot the search for s stops at: the first range not starting below s.
IsSlot(f, s, i) ==
    /\ \A j \in 1 .. i - 1 : f[j].start < s
    /\ i <= Len(f) => f[i].start >= s

\* s .. e - 1 meets a free range, given that i is the slot for s.
Overlaps(f, i, s, e) ==
    \/ i > 1 /\ f[i - 1].end > s
    \/ i <= Len(f) /\ f[i].start < e

\* never joins the range below
MergesLeft_never(f, i, s) == FALSE

MergesLeft(f, i, s) == i > 1 /\ f[i - 1].end = s
MergesRight(f, i, e) == i <= Len(f) /\ f[i].start = e

\* The table after s .. e - 1, which overlaps nothing, is put back at slot i.
Release(f, i, s, e) ==
    CASE MergesLeft(f, i, s) /\ MergesRight(f, i, e) ->
            remove_free(resize(f, i - 1, f[i - 1].start, f[i].end), i)
      [] MergesLeft(f, i, s) /\ ~MergesRight(f, i, e) ->
            resize(f, i - 1, f[i - 1].start, e)
      [] ~MergesLeft(f, i, s) /\ MergesRight(f, i, e) ->
            resize(f, i, s, f[i].end)
      [] OTHER -> insert_free(f, i, Span(s, e))

-----------------------------------------------------------------------------
(* What the code relies on *)

Spans == [start : Int, end : Int]

\* Sorted, no range empty, no two ranges touching.
Ordered(f) ==
    /\ \A i \in 1 .. Len(f) : f[i].start < f[i].end
    /\ \A i, j \in 1 .. Len(f) : i < j => f[i].end < f[j].start

\* Address x lies in some range of the table.
In(f, x) == \E i \in 1 .. Len(f) : f[i].start <= x /\ x < f[i].end
=============================================================================
