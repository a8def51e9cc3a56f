------------------------- MODULE PhysicalMemoryProofs -------------------------
(***************************************************************************)
(* For every firmware map, page size and table size: the free table of the *)
(* physical memory manager stays sorted, coalesced, page-aligned and       *)
(* inside the managed ranges, and never outgrows its array; the byte       *)
(* counters agree with the tables; and the manager implements              *)
(* PageAllocator.  For the last: a run of frames is free exactly if it     *)
(* lies in one range of the table, because neighbouring ranges never       *)
(* touch; and free_pages, which compares the counter with the total after  *)
(* it has changed the table, never refuses there, by Accounting.  Last,    *)
(* what new hands over: the whole pages of the firmware's regions.         *)
(***************************************************************************)
EXTENDS PhysicalMemory, KernelHeapProofs

\* A leaf that names no prover is for SMT, with time to spare on a busy machine.
USE SMTT(60)

Multiples == {x \in Int : x % Page = 0}

\* What the loop of new keeps up to the turn it has reached: the managed
\* ranges end at or before the last firmware region read, and all are free.
BuildInv ==
    /\ map \in Seq(Region)
    /\ turn \in Nat \ {0}
    /\ previous_end \in Nat
    /\ managed \in Seq(Spans) /\ Len(managed) <= N
    /\ Ordered(managed)
    /\ Ends(managed, Multiples)
    /\ \A k \in 1 .. Len(managed) : managed[k].end <= previous_end
    /\ \A k \in 1 .. Len(managed) : Page <= managed[k].start

FreeInv ==
    /\ free \in Seq(Spans) /\ Len(free) <= N
    /\ Ordered(free)
    /\ Ends(free, Multiples)
    /\ \A x \in Int : In(free, x) => In(managed, x)
    /\ built # "Ok" => free = managed /\ last = [call |-> "new"]

Inv == BuildInv /\ FreeInv

-----------------------------------------------------------------------------

\* The tables are empty before the memory map is read.
LEMMA InitInv == Init => Inv
<1> SUFFICES ASSUME Init PROVE Inv
  OBVIOUS
<1>1. <<>> \in Seq(Spans) /\ Len(<<>>) = 0
  OBVIOUS
<1>2. Ordered(<<>>) /\ Ends(<<>>, Multiples)
  BY <1>1 DEF Ordered, Ends
<1>3. BuildInv
  <2>1. map \in Seq(Region)
    BY PmmAssumption DEF Init
  <2>2. 0 <= N /\ 1 .. 0 = {}
    BY PmmAssumption
  <2> QED BY <1>1, <1>2, <2>1, <2>2 DEF Init, BuildInv
<1>4. FreeInv
  BY <1>1, <1>2, PmmAssumption DEF Init, FreeInv
<1> QED BY <1>3, <1>4 DEF Inv

\* align_down rounds to a multiple at or below its argument.
LEMMA AlignDown ==
    ASSUME NEW v \in Int, NEW a \in Nat \ {0}
    PROVE  align_down(v, a) \in Int /\ align_down(v, a) <= v /\ align_down(v, a) % a = 0
<1>1. v = a * (v \div a) + (v % a) /\ v \div a \in Int /\ v % a \in 0 .. a - 1
  OBVIOUS
<1>2. align_down(v, a) = a * (v \div a)
  BY <1>1 DEF align_down
<1>3. ASSUME NEW q \in Int, NEW w \in Int, w = a * q PROVE w % a = 0
  BY <1>3
<1>4. align_down(v, a) \in Int /\ align_down(v, a) <= v
  BY <1>1 DEF align_down
<1> QED BY <1>1, <1>2, <1>3, <1>4, ZenonT(60)

-----------------------------------------------------------------------------
(* new *)

-----------------------------------------------------------------------------
(* allocate_pages and free_pages *)

\* A multiple of a multiple of the page size is a multiple of the page size.
LEMMA PageMultiples ==
    ASSUME NEW q \in Nat, NEW x \in Int, q = 0 \/ x % (q * Page) = 0
    PROVE  q * Page \in Multiples /\ (q # 0 => x \in Multiples)
<1>0. Page \in Nat \ {0}
  BY PmmAssumption
<1>1. ASSUME NEW k \in Int, NEW w \in Int, w = k * Page PROVE w % Page = 0
  BY <1>0, <1>1
<1>2. q * Page \in Multiples
  <2>1. q * Page \in Int
    BY <1>0
  <2> QED BY <1>1, <2>1 DEF Multiples
<1>3. ASSUME q # 0 PROVE x \in Multiples
  <2>1. PICK a \in Nat \ {0} : a = q * Page
    BY <1>0, <1>3
  <2>2. x = a * (x \div a) /\ x \div a \in Int
    BY <1>3, <2>1
  <2>3. PICK d \in Int : d = x \div a
    BY <2>2
  <2>4. q * d \in Int /\ x = (q * d) * Page
    BY <1>0, <2>1, <2>2, <2>3
  <2>5. x % Page = 0
    BY <1>1, <2>4
  <2> QED BY <2>5 DEF Multiples
<1> QED BY <1>2, <1>3

\* Page boundaries are closed under addition.
LEMMA SumOfMultiples ==
    ASSUME NEW x \in Multiples, NEW y \in Multiples PROVE x + y \in Multiples
<1>0. Page \in Nat \ {0} /\ x \in Int /\ y \in Int /\ x % Page = 0 /\ y % Page = 0
  BY PmmAssumption DEF Multiples
<1>1. PICK a \in Int, b \in Int : a = x \div Page /\ b = y \div Page
  BY <1>0
<1>2. x = a * Page /\ y = b * Page
  BY <1>0, <1>1
<1>3. x + y = (a + b) * Page /\ a + b \in Int
  BY <1>0, <1>2
<1>4. ASSUME NEW k \in Int, NEW w \in Int, w = k * Page PROVE w % Page = 0
  BY <1>0, <1>4
<1> QED BY <1>0, <1>3, <1>4 DEF Multiples

\* The run an allocation takes: n pages, aligned, inside free range i.
Taken(n, a, i, s, e) ==
    /\ n \in Nat \ {0} /\ a \in Nat \ {0}
    /\ i \in 1 .. Len(free)
    /\ s \in Int /\ e \in Int /\ s < e /\ e = s + n * Page
    /\ s = align_up(free[i].start, a * Page) /\ s % (a * Page) = 0
    /\ s \in Multiples /\ e \in Multiples
    /\ free[i].start <= s /\ e <= free[i].end /\ e <= AddrMax

\* A run that fits a free range lies inside it, on page boundaries, and does not wrap.
LEMMA FitsTaken ==
    ASSUME Inv, NEW n \in Nat \ {0}, NEW a \in Nat \ {0}, NEW i \in 1 .. Len(free),
           Fits(free[i], n * Page, a * Page),
           NEW s, s = align_up(free[i].start, a * Page),
           NEW e, e = s + n * Page
    PROVE  Taken(n, a, i, s, e)
<1>0. Page \in Nat \ {0} /\ free \in Seq(Spans) /\ free[i].start \in Int /\ free[i].end \in Int
  BY PmmAssumption, SpanFacts DEF Inv, FreeInv
<1>1. PICK v \in Int, q \in Nat \ {0}, z \in Nat \ {0} :
         v = free[i].start /\ q = a * Page /\ z = n * Page
  BY <1>0
<1>2. /\ align_up(v, q) \in Int /\ v <= align_up(v, q) /\ align_up(v, q) % q = 0
  BY AlignUp
<1>3. s \in Int /\ v <= s /\ s % q = 0 /\ s = align_up(v, q)
  BY <1>1, <1>2
<1>4. s \in Multiples
  BY <1>1, <1>3, PageMultiples
<1>5. z \in Multiples
  <2>1. 0 \in Int /\ 0 % (n * Page) = 0
    BY <1>1
  <2> QED BY <1>1, <2>1, PageMultiples
<1>6. e \in Multiples /\ e \in Int /\ s < e
  <2>1. e = s + z
    BY <1>1
  <2>2. e \in Multiples
    BY <1>4, <1>5, <2>1, SumOfMultiples
  <2> QED BY <1>3, <2>1, <2>2
<1>7. e <= free[i].end /\ e <= AddrMax
  BY DEF Fits
<1> QED BY <1>1, <1>3, <1>4, <1>6, <1>7 DEF Taken

\* What an allocation that changes the table does to it.
LEMMA TakenFree ==
    ASSUME Inv, NEW n, NEW a, NEW i, NEW s, NEW e, Taken(n, a, i, s, e),
           free' = Carve(free, i, s, e),
           NeedsSlot(free, i, s, e) => Len(free) # N
    PROVE  /\ free' \in Seq(Spans) /\ Ordered(free') /\ Ends(free', Multiples) /\ Len(free') <= N
           /\ \A x \in Int : In(free', x) <=> In(free, x) /\ ~(s <= x /\ x < e)
           /\ \A x \in Int : s <= x /\ x < e => In(free, x)
<1>0. /\ free \in Seq(Spans) /\ Ordered(free) /\ Ends(free, Multiples) /\ Len(free) <= N
      /\ Len(free) \in Nat /\ N \in Nat
  BY PmmAssumption DEF Inv, FreeInv
<1>1. /\ i \in 1 .. Len(free) /\ s \in Int /\ e \in Int /\ s < e
      /\ s \in Multiples /\ e \in Multiples /\ free[i].start <= s /\ e <= free[i].end
  BY DEF Taken
<1>2. /\ free' \in Seq(Spans) /\ Ordered(free') /\ Len(free') <= Len(free) + 1
      /\ ~NeedsSlot(free, i, s, e) => Len(free') <= Len(free)
      /\ \A x \in Int : In(free', x) <=> In(free, x) /\ ~(s <= x /\ x < e)
  BY <1>0, <1>1, CarveSound
<1>3. Ends(free', Multiples)
  BY <1>0, <1>1, CarveEnds
<1>4. Len(free') <= N
  <2>1. Len(free') \in Nat
    BY <1>2
  <2> QED BY <1>0, <1>2, <2>1
<1>5. \A x \in Int : s <= x /\ x < e => In(free, x)
  <2>1. free[i].start \in Int /\ free[i].end \in Int
    BY <1>0, <1>1, SpanFacts
  <2> QED BY <1>1, <2>1 DEF In
<1> QED BY <1>2, <1>3, <1>4, <1>5

\* The run a free gives back: n pages, aligned, managed, not free.
Returned(n, i, s, e) ==
    /\ n \in Nat \ {0}
    /\ i \in 1 .. Len(free) + 1
    /\ s \in Int /\ e \in Int /\ s < e /\ e = s + n * Page
    /\ s \in Multiples /\ e \in Multiples
    /\ IsSlot(free, s, i) /\ ~Overlaps(free, i, s, e)
    /\ is_managed(s, e)

\* The run that free_pages is given starts and ends on page boundaries.
LEMMA AlignedRun ==
    ASSUME NEW n \in Nat \ {0}, NEW s \in Nat, s % Page = 0, NEW e, e = s + n * Page
    PROVE  e \in Int /\ s < e /\ s \in Multiples /\ e \in Multiples
<1>0. Page \in Nat \ {0}
  BY PmmAssumption
<1>1. PICK z \in Nat \ {0} : z = n * Page
  BY <1>0
<1>2. s \in Multiples
  BY DEF Multiples
<1>3. z \in Multiples
  <2>1. 0 \in Int /\ 0 % (n * Page) = 0
    BY <1>1
  <2> QED BY <1>1, <2>1, PageMultiples
<1>4. e = s + z
  BY <1>1
<1>5. e \in Multiples
  BY <1>2, <1>3, <1>4, SumOfMultiples, ZenonT(60)
<1> QED BY <1>2, <1>4, <1>5

\* Giving a run back, merged to either side or not, keeps the table ordered and frees exactly that run.
LEMMA ReturnedFree ==
    ASSUME Inv, NEW n, NEW i, NEW s, NEW e, Returned(n, i, s, e),
           free' = Release(free, i, s, e),
           MergesLeft(free, i, s) \/ MergesRight(free, i, e) \/ Len(free) < N
    PROVE  /\ free' \in Seq(Spans) /\ Ordered(free') /\ Ends(free', Multiples) /\ Len(free') <= N
           /\ \A x \in Int : In(free', x) <=> In(free, x) \/ (s <= x /\ x < e)
           /\ \A x \in Int : s <= x /\ x < e => In(managed, x)
<1>0. /\ free \in Seq(Spans) /\ Ordered(free) /\ Ends(free, Multiples) /\ Len(free) <= N
      /\ Len(free) \in Nat /\ N \in Nat
  BY PmmAssumption DEF Inv, FreeInv
<1>1. /\ i \in 1 .. Len(free) + 1 /\ s \in Int /\ e \in Int /\ s < e
      /\ s \in Multiples /\ e \in Multiples /\ IsSlot(free, s, i) /\ ~Overlaps(free, i, s, e)
      /\ is_managed(s, e)
  BY DEF Returned
<1>2. /\ free' \in Seq(Spans) /\ Ordered(free') /\ Len(free') <= Len(free) + 1
      /\ MergesLeft(free, i, s) \/ MergesRight(free, i, e) => Len(free') <= Len(free)
      /\ \A x \in Int : In(free', x) <=> In(free, x) \/ (s <= x /\ x < e)
  BY <1>0, <1>1, ReleaseSound
<1>3. Ends(free', Multiples)
  BY <1>0, <1>1, ReleaseEnds
<1>4. Len(free') <= N
  <2>1. Len(free') \in Nat
    BY <1>2
  <2> QED BY <1>0, <1>2, <2>1
<1>5. \A x \in Int : s <= x /\ x < e => In(managed, x)
  <2>1. PICK k \in 1 .. Len(managed) : managed[k].start <= s /\ e <= managed[k].end
    BY <1>1 DEF is_managed
  <2>2. managed[k].start \in Int /\ managed[k].end \in Int
    BY SpanFacts DEF Inv, BuildInv
  <2> QED BY <1>1, <2>1, <2>2 DEF In
<1> QED BY <1>2, <1>3, <1>4, <1>5

\* Every step keeps the invariant.
LEMMA NextInv == Inv /\ [Next]_vars => Inv'

\* Appending a range above all others.
<0>Appended.
      ASSUME NEW f \in Seq(Spans), Ordered(f), Ends(f, Multiples),
             NEW s \in Int, s \in Multiples, NEW e \in Int, e \in Multiples, s < e,
             \A j \in 1 .. Len(f) : f[j].end < s,
             NEW g, g = push(f, s, e)
      PROVE  /\ g \in Seq(Spans) /\ Len(g) = Len(f) + 1
             /\ Ordered(g) /\ Ends(g, Multiples)
             /\ \A j \in 1 .. Len(f) : g[j] = f[j]
             /\ g[Len(f) + 1] = Span(s, e)
  <1> USE <0>Appended
  <1>0. Len(f) \in Nat /\ Span(s, e) \in Spans /\ Span(s, e).start = s /\ Span(s, e).end = e
    BY SpanFacts
  <1>1. /\ g \in Seq(Spans) /\ Len(g) = Len(f) + 1
        /\ \A j \in 1 .. Len(f) : g[j] = f[j]
        /\ g[Len(f) + 1] = Span(s, e)
    BY <1>0 DEF push
  <1>2. \A j \in 1 .. Len(g) : j # Len(f) + 1 => j \in 1 .. Len(f)
    BY <1>0, <1>1
  <1>3. Ordered(g)
    <2>1. ASSUME NEW j \in 1 .. Len(g) PROVE g[j].start < g[j].end
      BY <1>0, <1>1, <1>2 DEF Ordered
    <2>2. ASSUME NEW j \in 1 .. Len(g), NEW k \in 1 .. Len(g), j < k
          PROVE  g[j].end < g[k].start
      <3>1. j \in 1 .. Len(f)
        BY <1>0, <1>1, <2>2
      <3>2. CASE k = Len(f) + 1
        BY <1>0, <1>1, <3>1, <3>2
      <3>3. CASE k # Len(f) + 1
        BY <1>1, <1>2, <2>2, <3>1, <3>3 DEF Ordered
      <3> QED BY <3>2, <3>3
    <2> QED BY <2>1, <2>2 DEF Ordered
  <1>4. Ends(g, Multiples)
    BY <1>0, <1>1, <1>2 DEF Ends
  <1> QED BY <1>1, <1>3, <1>4

\* The last range grows upwards.
<0>Extended.
      ASSUME NEW f \in Seq(Spans), Ordered(f), Ends(f, Multiples), Len(f) > 0,
             NEW e \in Int, e \in Multiples, f[Len(f)].end < e,
             NEW g, g = resize(f, Len(f), f[Len(f)].start, e)
      PROVE  /\ g \in Seq(Spans) /\ Len(g) = Len(f)
             /\ Ordered(g) /\ Ends(g, Multiples)
             /\ \A j \in 1 .. Len(f) : g[j].start = f[j].start /\ (g[j].end = f[j].end \/ g[j].end = e)
  <1> USE <0>Extended
  <1>0. Len(f) \in 1 .. Len(f) /\ f[Len(f)].start \in Int /\ f[Len(f)].end \in Int
    BY SpanFacts
  <1>p. PICK p \in 1 .. Len(f), a \in Int : p = Len(f) /\ a = f[Len(f)].start /\ a < e /\ a \in Multiples
    BY <1>0 DEF Ordered, Ends
  <1>1. Clear(f, p, p + 1, a, e)
    BY <1>0, <1>p DEF Clear, Ordered
  <1>2. a < e /\ a \in Multiples /\ g = resize(f, p, a, e)
    BY <1>p
  <1>3. g \in Seq(Spans) /\ Len(g) = Len(f) /\ Ordered(g) /\ g[p].start = a /\ g[p].end = e
    BY <1>1, <1>2, Replaced
  <1>4. Ends(g, Multiples)
    BY <1>2, ResizeEnds
  <1>5. \A j \in 1 .. Len(f) : j # p => g[j] = f[j]
    BY <1>2, ReplaceFacts, SpanFacts DEF resize
  <1> QED BY <1>p, <1>3, <1>4, <1>5

\* One region of the memory map keeps the invariant: it is cut to whole pages and comes after the regions before it.
<0>AddRegionInv.
      ASSUME Inv, AddRegion PROVE Inv'
  <1> USE <0>AddRegionInv
  <1> USE DEF Inv
  <1>0. /\ Page \in Nat \ {0} /\ N \in Nat /\ free = managed /\ built = "Building"
        /\ last = [call |-> "new"]
    BY PmmAssumption DEF AddRegion, FreeInv
  <1>1. turn \in 1 .. Len(map) /\ Len(map) \in Nat
    BY DEF AddRegion, BuildInv
  <1>2. map[turn].start \in Nat /\ map[turn].end \in Nat
    <2>1. map[turn] \in Region
      BY <1>1 DEF BuildInv
    <2> QED BY <2>1, PmmAssumption DEF Region
  <1>w. PICK w \in Nat : w = map[turn].end
    BY <1>2
  <1>3. PICK v \in Nat : /\ v = IF map[turn].start > Page THEN map[turn].start ELSE Page
                         /\ v >= map[turn].start /\ v >= Page
    BY <1>0, <1>2
  <1>4. PICK s \in Int, e \in Int : s = align_up(v, Page) /\ e = align_down(w, Page)
    <2>1. Page \in Nat \ {0} /\ v \in Int /\ w \in Int
      BY <1>0
    <2>2. align_up(v, Page) \in Int
      BY <2>1, AlignUp
    <2>3. align_down(w, Page) \in Int
      BY <2>1, AlignDown
    <2> QED BY <2>2, <2>3
  <1>5. s \in Multiples /\ e \in Multiples /\ v <= s /\ e <= map[turn].end
    <2>1. Page \in Nat \ {0} /\ v \in Int /\ w \in Int
      BY <1>0
    <2>2. v <= align_up(v, Page) /\ align_up(v, Page) % Page = 0
      BY <2>1, AlignUp
    <2>3. align_down(w, Page) <= w /\ align_down(w, Page) % Page = 0
      BY <2>1, AlignDown
    <2> QED BY <1>4, <1>w, <2>2, <2>3 DEF Multiples
  <1>6. ASSUME UNCHANGED <<map, last, managed, free>>,
               turn' \in {turn, turn + 1}, previous_end' \in Nat, previous_end <= previous_end',
               built' \in {"Building", "ReversedRange", "OverlapOrUnsorted", "Overflow", "Capacity"}
        PROVE  Inv'
    <2>1. BuildInv'
      <3>1. turn' \in Nat \ {0}
        BY <1>6 DEF BuildInv
      <3>2. ASSUME NEW k \in 1 .. Len(managed) PROVE managed[k].end <= previous_end'
        <4>1. managed[k].end \in Int /\ managed[k].end <= previous_end /\ previous_end \in Nat
          BY SpanFacts DEF BuildInv
        <4> QED BY <1>6, <4>1
      <3> QED BY <1>6, <3>1, <3>2 DEF BuildInv
    <2>2. FreeInv'
      BY <1>0, <1>6 DEF FreeInv
    <2> QED BY <2>1, <2>2
  <1>7. CASE UNCHANGED <<map, last, previous_end>> /\ \E r \in {"ReversedRange", "OverlapOrUnsorted"} : Fail(r)
    BY <1>6, <1>7 DEF Fail, BuildInv
  <1>8. CASE /\ UNCHANGED <<map, last>> /\ map[turn].end >= map[turn].start
             /\ map[turn].start >= previous_end /\ previous_end' = map[turn].end
    <2>0. previous_end' \in Nat /\ previous_end \in Nat /\ previous_end <= previous_end'
      BY <1>2, <1>8 DEF BuildInv
    <2>1. CASE Fail("Overflow") \/ Fail("Capacity")
      BY <1>6, <1>8, <2>0, <2>1 DEF Fail
    <2>2. CASE turn' = turn + 1 /\ UNCHANGED <<built, managed, free, total_bytes, free_bytes>>
      BY <1>0, <1>6, <1>8, <2>0, <2>2
    <2>3. CASE s < e /\ push_initial(s, e) /\ ~Fail("Capacity")
      <3>0. /\ managed \in Seq(Spans) /\ Len(managed) \in Nat /\ Ordered(managed) /\ Ends(managed, Multiples)
            /\ turn \in Nat \ {0} /\ Len(managed) <= N
        BY SpanFacts DEF BuildInv
      <3>1. \A k \in 1 .. Len(managed) : managed[k].end <= s /\ managed[k].end \in Int
        <4> TAKE k \in 1 .. Len(managed)
        <4>1. managed[k].end \in Int /\ managed[k].end <= previous_end /\ previous_end \in Nat
          BY SpanFacts DEF BuildInv
        <4> QED BY <1>2, <1>3, <1>5, <1>8, <4>1
      <3>2. /\ managed' \in Seq(Spans) /\ Len(managed') <= N /\ Ordered(managed')
            /\ Ends(managed', Multiples) /\ free' = managed'
            /\ turn' = turn + 1 /\ built' = built
            /\ \A k \in 1 .. Len(managed') : managed'[k].end <= e \/ managed'[k].end <= previous_end
            /\ \A k \in 1 .. Len(managed') : Page <= managed'[k].start
        <4>1. CASE Len(managed) > 0 /\ managed[Len(managed)].end = s
          <5>1. /\ managed' = resize(managed, Len(managed), managed[Len(managed)].start, e)
                /\ free' = managed' /\ turn' = turn + 1 /\ built' = built
            BY <1>0, <2>3, <4>1 DEF push_initial
          <5>2. /\ managed' \in Seq(Spans) /\ Len(managed') = Len(managed)
                /\ Ordered(managed') /\ Ends(managed', Multiples)
                /\ \A j \in 1 .. Len(managed) :
                      /\ managed'[j].start = managed[j].start
                      /\ managed'[j].end = managed[j].end \/ managed'[j].end = e
            BY <1>5, <2>3, <3>0, <4>1, <5>1, <0>Extended
          <5>3. ASSUME NEW k \in 1 .. Len(managed')
                PROVE  /\ managed'[k].end <= e \/ managed'[k].end <= previous_end
                       /\ Page <= managed'[k].start
            <6>1. k \in 1 .. Len(managed) /\ managed[k].end <= previous_end /\ Page <= managed[k].start
              BY <5>2 DEF BuildInv
            <6> QED BY <5>2, <6>1
          <5> QED BY <3>0, <5>1, <5>2, <5>3, ZenonT(60)
        <4>2. CASE ~(Len(managed) > 0 /\ managed[Len(managed)].end = s)
          <5>1. /\ managed' = push(managed, s, e) /\ Len(managed) < N
                /\ free' = managed' /\ turn' = turn + 1 /\ built' = built
            BY <1>0, <2>3, <4>2 DEF push_initial
          <5>2. \A j \in 1 .. Len(managed) : managed[j].end < s
            BY <3>0, <3>1, <4>2, SpanFacts DEF Ordered
          <5>3. /\ managed' \in Seq(Spans) /\ Len(managed') = Len(managed) + 1
                /\ Ordered(managed') /\ Ends(managed', Multiples)
                /\ \A j \in 1 .. Len(managed) : managed'[j] = managed[j]
                /\ managed'[Len(managed) + 1] = Span(s, e)
            <6>1. /\ s < e /\ s \in Multiples /\ e \in Multiples /\ Ordered(managed)
                  /\ Ends(managed, Multiples) /\ managed' = push(managed, s, e)
                  /\ managed \in Seq(Spans)
              BY <1>5, <2>3, <3>0, <5>1
            <6> QED BY <5>2, <6>1, <0>Appended
          <5>4. ASSUME NEW k \in 1 .. Len(managed')
                PROVE  /\ managed'[k].end <= e \/ managed'[k].end <= previous_end
                       /\ Page <= managed'[k].start
            <6>1. CASE k = Len(managed) + 1
              BY <1>0, <1>3, <1>5, <5>3, <6>1, SpanFacts
            <6>2. CASE k # Len(managed) + 1
              <7>1. k \in 1 .. Len(managed) /\ managed'[k] = managed[k]
                BY <3>0, <5>3, <6>2
              <7> QED BY <7>1 DEF BuildInv
            <6> QED BY <6>1, <6>2
          <5>5. Len(managed') <= N
            BY <1>0, <3>0, <5>1, <5>3
          <5> QED BY <5>1, <5>3, <5>4, <5>5
        <4> QED BY <4>1, <4>2
      <3>3. \A k \in 1 .. Len(managed') : managed'[k].end <= previous_end'
        <4> TAKE k \in 1 .. Len(managed')
        <4>1. managed'[k].end \in Int
          BY <3>2, SpanFacts
        <4> QED BY <1>2, <1>5, <1>8, <2>0, <3>2, <4>1
      <3>4. BuildInv'
        <4>1. turn' \in Nat \ {0} /\ map' \in Seq(Region)
          BY <1>8, <3>0, <3>2 DEF BuildInv
        <4> QED BY <2>0, <3>2, <3>3, <4>1 DEF BuildInv
      <3>5. FreeInv'
        BY <1>0, <1>8, <3>2, ZenonT(60) DEF FreeInv
      <3> QED BY <3>4, <3>5
    <2>4. \/ Fail("Overflow")
          \/ turn' = turn + 1 /\ UNCHANGED <<built, managed, free, total_bytes, free_bytes>>
          \/ s < e /\ push_initial(s, e)
      BY <1>0, <1>2, <1>3, <1>4, <1>w, <1>8 DEF AddRegion, Fail
    <2> QED BY <2>1, <2>2, <2>3, <2>4
  <1> QED
    BY <1>2, <1>7, <1>8 DEF AddRegion

\* new only publishes the table that was built.
<0>NewInv.
      ASSUME Inv, new PROVE Inv'
  <1> USE <0>NewInv
  <1> QED BY ZenonT(60) DEF Inv, BuildInv, FreeInv, new, is_managed

\* A call changes nothing but the free table, its counter and the outcome.
<0>CallInv.
      ASSUME Inv, built = "Ok", UNCHANGED building,
             free' \in Seq(Spans), Ordered(free'), Ends(free', Multiples), Len(free') <= N,
             \A x \in Int : In(free', x) => In(managed, x)
      PROVE  Inv'
  <1> USE <0>CallInv
  <1>1. /\ map' = map /\ turn' = turn /\ previous_end' = previous_end /\ built' = built
        /\ managed' = managed
    BY DEF building
  <1>2. BuildInv'
    BY <1>1 DEF Inv, BuildInv
  <1>3. FreeInv'
    BY <1>1 DEF Inv, FreeInv
  <1> QED BY <1>2, <1>3 DEF Inv

\* allocate_pages keeps the invariant, whether it succeeds or returns an error.
<0>AllocateInv.
      ASSUME Inv, NEW n \in Nat, NEW a \in Nat, allocate_pages(n, a) PROVE Inv'
  <1> USE <0>AllocateInv
  <1>0. built = "Ok" /\ UNCHANGED building
    BY DEF allocate_pages
  <1>1. CASE UNCHANGED free
    BY <1>0, <1>1, <0>CallInv DEF Inv, FreeInv
  <1>2. CASE ~UNCHANGED free
    <2>1. PICK i \in 1 .. Len(free) :
             LET s == align_up(free[i].start, a * Page)
                 e == s + n * Page
             IN  /\ n > 0 /\ a > 0
                 /\ Fits(free[i], n * Page, a * Page)
                 /\ ~(NeedsSlot(free, i, s, e) /\ Len(free) = N)
                 /\ free' = Carve(free, i, s, e)
      BY <1>2, ZenonT(60) DEF allocate_pages
    <2>2. PICK s, e : s = align_up(free[i].start, a * Page) /\ e = s + n * Page
      OBVIOUS
    <2>3. n \in Nat \ {0} /\ a \in Nat \ {0}
      BY <2>1
    <2>4. Taken(n, a, i, s, e)
      BY <2>1, <2>2, <2>3, FitsTaken
    <2>5. /\ free' \in Seq(Spans) /\ Ordered(free') /\ Ends(free', Multiples) /\ Len(free') <= N
          /\ \A x \in Int : In(free', x) <=> In(free, x) /\ ~(s <= x /\ x < e)
      BY <2>1, <2>2, <2>4, TakenFree
    <2>6. \A x \in Int : In(free', x) => In(managed, x)
      BY <2>5 DEF Inv, FreeInv
    <2> QED BY <1>0, <2>5, <2>6, <0>CallInv
  <1> QED BY <1>1, <1>2

\* free_pages keeps the invariant, whether it succeeds or returns an error.
<0>FreeingInv.
      ASSUME Inv, NEW s \in 0 .. AddrMax, NEW n \in Nat, free_pages(s, n) PROVE Inv'
  <1> USE <0>FreeingInv
  <1>0. built = "Ok" /\ UNCHANGED building
    BY DEF free_pages
  <1>1. CASE UNCHANGED free
    BY <1>0, <1>1, <0>CallInv DEF Inv, FreeInv
  <1>2. CASE ~UNCHANGED free
    <2>1. PICK e : e = s + n * Page
      OBVIOUS
    <2>2. PICK i \in 1 .. Len(free) + 1 :
             /\ n > 0 /\ s % Page = 0 /\ is_managed(s, e)
             /\ IsSlot(free, s, i) /\ ~Overlaps(free, i, s, e)
             /\ MergesLeft(free, i, s) \/ MergesRight(free, i, e) \/ Len(free) < N
             /\ free' = Release(free, i, s, e)
      BY <1>2, <2>1 DEF free_pages, HasRoom
    <2>3. Returned(n, i, s, e)
      <3>1. n \in Nat \ {0} /\ s \in Nat /\ s \in Int
        BY <2>2, PmmAssumption
      <3>2. e \in Int /\ s < e /\ s \in Multiples /\ e \in Multiples
        BY <2>1, <2>2, <3>1, AlignedRun
      <3> QED BY <2>1, <2>2, <3>1, <3>2 DEF Returned
    <2>4. /\ free' \in Seq(Spans) /\ Ordered(free') /\ Ends(free', Multiples) /\ Len(free') <= N
          /\ \A x \in Int : In(free', x) <=> In(free, x) \/ (s <= x /\ x < e)
          /\ \A x \in Int : s <= x /\ x < e => In(managed, x)
      BY <2>2, <2>3, ReturnedFree
    <2>5. \A x \in Int : In(free', x) => In(managed, x)
      BY <2>4 DEF Inv, FreeInv
    <2> QED BY <1>0, <2>4, <2>5, <0>CallInv
  <1> QED BY <1>1, <1>2
<0> QED
  <1> SUFFICES ASSUME Inv, [Next]_vars PROVE Inv'
    OBVIOUS
  <1>1. CASE AddRegion
    BY <1>1, <0>AddRegionInv
  <1>2. CASE new
    BY <1>2, <0>NewInv
  <1>3. CASE \E n \in 0 .. MaxPages, a \in Aligns : allocate_pages(n, a)
    <2>1. PICK n \in 0 .. MaxPages, a \in Aligns : allocate_pages(n, a)
      BY <1>3
    <2>2. n \in Nat /\ a \in Nat
      BY PmmAssumption
    <2> QED BY <2>1, <2>2, <0>AllocateInv
  <1>4. CASE \E s \in Addresses, n \in 0 .. MaxPages : free_pages(s, n)
    <2>1. PICK s \in Addresses, n \in 0 .. MaxPages : free_pages(s, n)
      BY <1>4
    <2>2. n \in Nat /\ s \in 0 .. AddrMax
      BY PmmAssumption
    <2> QED BY <2>1, <2>2, <0>FreeingInv
  <1>5. CASE UNCHANGED vars
    BY <1>5 DEF vars, building, Inv, BuildInv, FreeInv
  <1> QED BY <1>1, <1>2, <1>3, <1>4, <1>5 DEF Next

\* The inductive invariant: every state of the manager satisfies Inv.
THEOREM InvHolds == Spec => []Inv
<1>1. Init => Inv
  BY InitInv
<1>2. Inv /\ [Next]_vars => Inv'
  BY NextInv
<1> QED BY <1>1, <1>2, PTL DEF Spec

\* The invariant is strong enough.
LEMMA InvFreeTableSound == ASSUME Inv PROVE FreeTableSound
<1>0. /\ free \in Seq(Spans) /\ Ordered(free) /\ managed \in Seq(Spans) /\ Ordered(managed)
      /\ \A x \in Int : In(free, x) => In(managed, x)
  BY DEF Inv, BuildInv, FreeInv
<1>1. ASSUME NEW i \in 1 .. Len(free) PROVE free[i].start % Page = 0 /\ free[i].end % Page = 0
  BY DEF Inv, FreeInv, Ends, Multiples
<1>2. ASSUME NEW i \in 1 .. Len(free) PROVE is_managed(free[i].start, free[i].end)
  <2>1. PICK s \in Int, e \in Int : s = free[i].start /\ e = free[i].end /\ s < e
    BY <1>0, SpanFacts DEF Ordered
  <2>2. \A x \in Int : s <= x /\ x < e => In(managed, x)
    BY <1>0, <2>1, ZenonT(60) DEF In
  <2>b. In(managed, s)
    BY <2>1, <2>2
  <2>3. PICK k \in 1 .. Len(managed) : managed[k].start <= s /\ s < managed[k].end
    BY <2>b DEF In
  <2>a. managed[k].end \in Int
    <3>1. managed[k] \in Spans
      BY <1>0
    <3> QED BY <3>1, SpanFacts
  <2>4. PICK b \in Int : b = managed[k].end
    BY <2>a
  <2>5. ~In(managed, b)
    BY <1>0, <2>4, EndNotIn
  <2>6. e <= b
    BY <2>2, <2>3, <2>4, <2>5
  <2> QED BY <2>1, <2>3, <2>4, <2>6 DEF is_managed
<1> QED BY <1>0, <1>1, <1>2 DEF FreeTableSound

\* The free table of the manager is sorted, coalesced, page-aligned and inside
\* the managed ranges after any calls of new, allocate_pages and free_pages.
THEOREM FreeTableSoundHolds == Spec => []FreeTableSound
<1>1. Inv => FreeTableSound
  BY InvFreeTableSound
<1> QED BY <1>1, InvHolds, PTL

-----------------------------------------------------------------------------
(* Counting *)

Address == 0 .. AddrMax

\* Table f covers s .. e - 1 and, apart from that, what table g covers.
Adds(f, g, s, e) ==
    /\ s \in Int /\ e \in Int /\ s < e
    /\ \A x \in Int : In(f, x) => x \in Address
    /\ \A x \in Int : In(f, x) <=> In(g, x) \/ (s <= x /\ x < e)
    /\ \A x \in Int : s <= x /\ x < e => ~In(g, x)

\* A set of addresses is finite.
LEMMA Finite ==
    ASSUME NEW S, S \subseteq Address
    PROVE  IsFiniteSet(S) /\ Cardinality(S) \in Nat
<1>1. IsFiniteSet(Address)
  BY FS_Interval, PmmAssumption DEF Address
<1> QED BY <1>1, FS_Subset, FS_CardinalityType

\* A range more is its length more.
LEMMA Counted ==
    ASSUME NEW P, NEW Q, NEW s \in Int, NEW e \in Int, s < e,
           NEW R, R = s .. e - 1, Q \subseteq Address, Q = P \cup R, P \cap R = {}
    PROVE  Cardinality(Q) = Cardinality(P) + (e - s)
<1>1. IsFiniteSet(P) /\ Cardinality(P) \in Nat
  BY Finite
<1>2. IsFiniteSet(R) /\ Cardinality(R) = e - s
  BY FS_Interval
<1>3. Cardinality(P \cap R) = 0
  BY FS_EmptySet
<1>4. Cardinality(Q) = Cardinality(P) + Cardinality(R) - Cardinality(P \cap R)
  BY <1>1, <1>2, FS_Union
<1> QED BY <1>1, <1>2, <1>3, <1>4

\* The count of a table that covers more.
LEMMA AddsCount ==
    ASSUME NEW f, NEW g, NEW s, NEW e, Adds(f, g, s, e)
    PROVE  /\ Bytes(f) \in Nat /\ Bytes(g) \in Nat
           /\ Bytes(f) = Bytes(g) + (e - s)
<1>0. s \in Int /\ e \in Int /\ s < e
  BY DEF Adds
<1>1. \A x : x \in Covered(f) <=> x \in Int /\ In(f, x)
  BY PmmAssumption DEF Covered, Adds, Address
<1>2. \A x : x \in Covered(g) <=> x \in Int /\ In(g, x)
  BY PmmAssumption DEF Covered, Adds, Address
<1>3. PICK R : R = s .. e - 1 /\ \A x : x \in R <=> x \in Int /\ s <= x /\ x < e
  BY <1>0
<1>4. Covered(f) = Covered(g) \cup R
  BY <1>1, <1>2, <1>3 DEF Adds
<1>5. Covered(g) \cap R = {}
  BY <1>2, <1>3 DEF Adds
<1>6. Covered(f) \subseteq Address /\ Covered(g) \subseteq Address
  BY DEF Covered, Address
<1>7. PICK P, Q : P = Covered(g) /\ Q = Covered(f)
  OBVIOUS
<1>8. Cardinality(Q) = Cardinality(P) + (e - s)
  BY <1>0, <1>3, <1>4, <1>5, <1>6, <1>7, Counted
<1>9. Cardinality(Q) \in Nat /\ Cardinality(P) \in Nat
  BY <1>6, <1>7, Finite
<1> QED BY <1>7, <1>8, <1>9 DEF Bytes

\* A table that covers no more than another, and neither address 0.
LEMMA FewerBytes ==
    ASSUME NEW f, NEW g,
           \A x \in Int : In(f, x) => In(g, x),
           \A x \in Int : In(g, x) => x \in 1 .. AddrMax
    PROVE  Bytes(f) \in Nat /\ Bytes(g) \in Nat /\ Bytes(f) <= Bytes(g) /\ Bytes(g) <= AddrMax
<1>1. Covered(f) \subseteq Covered(g) /\ Covered(g) \subseteq 1 .. AddrMax
  BY PmmAssumption DEF Covered
<1>2. PICK P, Q, A : P = Covered(f) /\ Q = Covered(g) /\ A = 1 .. AddrMax
  OBVIOUS
<1>3. IsFiniteSet(A) /\ Cardinality(A) = AddrMax
  BY <1>2, FS_Interval, PmmAssumption
<1>4. IsFiniteSet(Q) /\ Cardinality(Q) <= Cardinality(A)
  BY <1>1, <1>2, <1>3, FS_Subset, ZenonT(60)
<1>5. IsFiniteSet(P) /\ Cardinality(P) <= Cardinality(Q)
  BY <1>1, <1>2, <1>4, FS_Subset
<1>6. Cardinality(P) \in Nat /\ Cardinality(Q) \in Nat
  BY <1>4, <1>5, FS_CardinalityType
<1> QED BY <1>2, <1>3, <1>4, <1>5, <1>6 DEF Bytes

-----------------------------------------------------------------------------
(* Accounting *)

CountInv ==
    /\ map \in Maps /\ turn \in 1 .. Len(map) + 1
    /\ previous_end <= AddrMax
    /\ built \in {"Building", "Ok", "ReversedRange", "OverlapOrUnsorted", "Overflow", "Capacity"}
    /\ free_bytes = Bytes(free)
    /\ total_bytes = Bytes(managed)

\* A table between the null page and p covers addresses only, and not 0.
LEMMA Bounded ==
    ASSUME NEW f \in Seq(Spans), NEW p \in Nat, p <= AddrMax,
           \A k \in 1 .. Len(f) : f[k].end <= p,
           \A k \in 1 .. Len(f) : Page <= f[k].start
    PROVE  \A x \in Int : In(f, x) => Page <= x /\ x < p /\ x \in 1 .. AddrMax /\ x \in Address
<1> TAKE x \in Int
<1> SUFFICES ASSUME In(f, x)
             PROVE  Page <= x /\ x < p /\ x \in 1 .. AddrMax /\ x \in Address
  OBVIOUS
<1>1. PICK k \in 1 .. Len(f) : f[k].start <= x /\ x < f[k].end
  BY DEF In
<1>2. f[k].start \in Int /\ f[k].end \in Int /\ f[k].end <= p /\ Page <= f[k].start
  BY SpanFacts
<1> QED BY <1>1, <1>2, PmmAssumption DEF Address

\* What push_initial does to the set of managed addresses.
LEMMA Pushed ==
    ASSUME NEW f \in Seq(Spans), Ordered(f), NEW s \in Int, NEW e \in Int, s < e,
           \A k \in 1 .. Len(f) : f[k].end <= s,
           NEW g,
           \/ Len(f) > 0 /\ f[Len(f)].end = s /\ g = resize(f, Len(f), f[Len(f)].start, e)
           \/ g = push(f, s, e)
    PROVE  \A x \in Int : In(g, x) <=> In(f, x) \/ (s <= x /\ x < e)
<1>0. Len(f) \in Nat /\ Span(s, e) \in Spans /\ Span(s, e).start = s /\ Span(s, e).end = e
  BY SpanFacts
<1>1. CASE Len(f) > 0 /\ f[Len(f)].end = s /\ g = resize(f, Len(f), f[Len(f)].start, e)
  <2>1. PICK p \in 1 .. Len(f) : p = Len(f)
    BY <1>0, <1>1
  <2>2. f[p].start \in Int /\ f[p].start < f[p].end /\ f[p].end = s
    BY <1>1, <2>1, SpanFacts DEF Ordered
  <2>3. PICK a \in Int : a = f[p].start
    BY <2>2, ZenonT(60)
  <2>4. a < s /\ a < e /\ f[p].start = a /\ f[p].end = s /\ g = resize(f, p, a, e)
    BY <1>1, <2>1, <2>2, <2>3
  <2>5. Clear(f, p, p + 1, a, e)
    BY <1>0, <2>1, <2>3 DEF Clear, Ordered
  <2> QED BY <2>4, <2>5, Grown
<1>2. CASE g = push(f, s, e)
  <2>1. /\ Len(g) = Len(f) + 1 /\ g[Len(f) + 1] = Span(s, e)
        /\ \A j \in 1 .. Len(f) : g[j] = f[j]
    BY <1>0, <1>2 DEF push
  <2>2. ASSUME NEW x \in Int, In(g, x) PROVE In(f, x) \/ (s <= x /\ x < e)
    <3>1. PICK j \in 1 .. Len(g) : g[j].start <= x /\ x < g[j].end
      BY <2>2 DEF In
    <3>2. j \in 1 .. Len(f) \/ j = Len(f) + 1
      BY <1>0, <2>1
    <3> QED BY <1>0, <2>1, <3>1, <3>2 DEF In
  <2>3. ASSUME NEW x \in Int, In(f, x) PROVE In(g, x)
    <3>1. PICK j \in 1 .. Len(f) : f[j].start <= x /\ x < f[j].end
      BY <2>3 DEF In
    <3>2. j \in 1 .. Len(g) /\ g[j] = f[j]
      BY <1>0, <2>1
    <3> QED BY <3>1, <3>2 DEF In
  <2>4. ASSUME NEW x \in Int, s <= x /\ x < e PROVE In(g, x)
    <3>1. Len(f) + 1 \in 1 .. Len(g) /\ g[Len(f) + 1].start = s /\ g[Len(f) + 1].end = e
      BY <1>0, <2>1
    <3> QED BY <2>4, <3>1 DEF In
  <2> QED BY <2>2, <2>3, <2>4
<1> QED BY <1>1, <1>2

\* A region of the firmware map adds one range to both tables, and its length
\* to both counters, or nothing.
LEMMA RegionAdded ==
    ASSUME Inv, CountInv, AddRegion, Inv'
    PROVE  /\ map' = map /\ last' = last /\ turn' \in 1 .. Len(map) + 1
           /\ previous_end' <= AddrMax
           /\ built' \in {"Building", "ReversedRange", "OverlapOrUnsorted", "Overflow", "Capacity"}
           /\ free = managed /\ free' = managed'
           /\ \/ managed' = managed /\ UNCHANGED <<total_bytes, free_bytes>>
              \/ \E s, e : /\ Adds(managed', managed, s, e)
                           /\ total_bytes' = total_bytes + (e - s)
                           /\ free_bytes' = free_bytes + (e - s)
<1>0. /\ Page \in Nat \ {0} /\ AddrMax \in Nat /\ built = "Building" /\ free = managed
      /\ turn \in 1 .. Len(map) /\ Len(map) \in Nat /\ map' = map /\ last' = last
      /\ previous_end \in Nat /\ previous_end <= AddrMax
  <2>1. built = "Building" /\ turn <= Len(map) /\ map' = map /\ last' = last
    BY ZenonT(60) DEF AddRegion
  <2>2. /\ previous_end \in Nat /\ previous_end <= AddrMax
        /\ turn \in 1 .. Len(map) + 1 /\ map \in Seq(Region)
    BY ZenonT(60) DEF Inv, BuildInv, CountInv
  <2>3. built # "Ok" => free = managed
    BY ZenonT(60) DEF Inv, FreeInv
  <2> QED BY ONLY <2>1, <2>2, <2>3, PmmAssumption
<1>1. map[turn].start \in 0 .. AddrMax /\ map[turn].end \in 0 .. AddrMax
  <2>1. map[turn] \in Region
    BY <1>0 DEF Inv, BuildInv
  <2> QED BY <2>1 DEF Region
<1>2. PICK v \in Nat, w \in Nat :
         /\ v = IF map[turn].start > Page THEN map[turn].start ELSE Page
         /\ v >= map[turn].start /\ v >= Page
         /\ w = map[turn].end
  BY <1>0, <1>1
<1>3. PICK s, e : s = align_up(v, Page) /\ e = align_down(w, Page)
  OBVIOUS
<1>a. Page \in Nat \ {0} /\ v \in Int /\ w \in Int
  BY <1>0
<1>4. s \in Int /\ v <= s
  <2>1. align_up(v, Page) \in Int /\ v <= align_up(v, Page)
    BY <1>a, AlignUp
  <2> QED BY <1>3, <2>1
<1>5. e \in Int /\ e <= w
  <2>1. align_down(w, Page) \in Int /\ align_down(w, Page) <= w
    BY <1>a, AlignDown
  <2> QED BY <1>3, <2>1
<1>6. \/ \E r \in {"ReversedRange", "OverlapOrUnsorted"} : Fail(r) /\ previous_end' = previous_end
      \/ /\ previous_end' = w /\ map[turn].start >= previous_end
         /\ \/ \E r \in {"Overflow", "Capacity"} : Fail(r)
            \/ turn' = turn + 1 /\ UNCHANGED <<built, managed, free, total_bytes, free_bytes>>
            \/ s < e /\ push_initial(s, e) /\ ~Fail("Capacity")
  BY <1>2, <1>3, ZenonT(60) DEF AddRegion
<1>7. CASE \E r \in {"ReversedRange", "OverlapOrUnsorted"} : Fail(r) /\ previous_end' = previous_end
  BY <1>0, <1>7 DEF Fail
<1>8. CASE previous_end' = w /\ \E r \in {"Overflow", "Capacity"} : Fail(r)
  BY <1>0, <1>1, <1>2, <1>8 DEF Fail
<1>9. CASE /\ previous_end' = w /\ turn' = turn + 1
           /\ UNCHANGED <<built, managed, free, total_bytes, free_bytes>>
  BY <1>0, <1>1, <1>2, <1>9
<1>10. CASE /\ previous_end' = w /\ map[turn].start >= previous_end
            /\ s < e /\ push_initial(s, e) /\ ~Fail("Capacity")
  <2>1. /\ turn' = turn + 1 /\ built' = built /\ free' = managed'
        /\ total_bytes' = total_bytes + (e - s) /\ free_bytes' = free_bytes + (e - s)
        /\ \/ /\ Len(managed) > 0 /\ managed[Len(managed)].end = s
              /\ managed' = resize(managed, Len(managed), managed[Len(managed)].start, e)
           \/ managed' = push(managed, s, e)
    BY <1>0, <1>10, ZenonT(60) DEF push_initial
  <2>2. /\ managed \in Seq(Spans) /\ Ordered(managed)
        /\ \A k \in 1 .. Len(managed) : managed[k].end <= previous_end
    BY DEF Inv, BuildInv
  <2>3. \A k \in 1 .. Len(managed) : managed[k].end <= s
    <3> TAKE k \in 1 .. Len(managed)
    <3>1. managed[k].end \in Int /\ managed[k].end <= previous_end
      BY ONLY <2>2, SpanFacts
    <3> QED BY <1>0, <1>1, <1>2, <1>4, <1>10, <3>1
  <2>4. \A x \in Int : In(managed', x) <=> In(managed, x) \/ (s <= x /\ x < e)
    BY <1>4, <1>5, <1>10, <2>1, <2>2, <2>3, Pushed, ZenonT(60)
  <2>5. \A x \in Int : s <= x /\ x < e => ~In(managed, x)
    <3>1. \A x \in Int : s <= x => ~In(managed, x)
      BY <1>4, <2>2, <2>3, AboveAll
    <3> QED BY <3>1
  <2>6. \A x \in Int : In(managed', x) => x \in Address
    <3>1. /\ managed' \in Seq(Spans) /\ previous_end' \in Nat
          /\ \A k \in 1 .. Len(managed') : managed'[k].end <= previous_end'
          /\ \A k \in 1 .. Len(managed') : Page <= managed'[k].start
      BY ZenonT(60) DEF Inv, BuildInv
    <3>2. previous_end' <= AddrMax
      BY <1>1, <1>2, <1>10
    <3> QED BY <3>1, <3>2, Bounded
  <2>7. Adds(managed', managed, s, e)
    BY <1>4, <1>5, <1>10, <2>4, <2>5, <2>6 DEF Adds
  <2>8. turn' \in 1 .. Len(map) + 1 /\ previous_end' <= AddrMax
    BY <1>0, <1>1, <1>2, <1>10, <2>1
  <2> QED BY <1>0, <2>1, <2>7, <2>8
<1> QED BY <1>6, <1>7, <1>8, <1>9, <1>10, ZenonT(60)

\* Free and managed addresses lie between the null page and AddrMax.
LEMMA InRange ==
    ASSUME Inv, CountInv
    PROVE  /\ \A x \in Int : In(managed, x) =>
                 Page <= x /\ x < previous_end /\ x \in 1 .. AddrMax /\ x \in Address
           /\ \A x \in Int : In(free, x) =>
                 Page <= x /\ x < previous_end /\ x \in 1 .. AddrMax /\ x \in Address
<1>1. \A x \in Int : In(managed, x) =>
          Page <= x /\ x < previous_end /\ x \in 1 .. AddrMax /\ x \in Address
  BY Bounded, ZenonT(60) DEF Inv, BuildInv, CountInv
<1> QED BY <1>1 DEF Inv, FreeInv

\* What is taken was free.
LEMMA TakenAdds ==
    ASSUME Inv, CountInv, NEW n, NEW a, NEW i, NEW s, NEW e, Taken(n, a, i, s, e),
           free' = Carve(free, i, s, e), NeedsSlot(free, i, s, e) => Len(free) # N
    PROVE  Adds(free, free', s, e) /\ e - s = n * Page
<1>1. /\ \A x \in Int : In(free', x) <=> In(free, x) /\ ~(s <= x /\ x < e)
      /\ \A x \in Int : s <= x /\ x < e => In(free, x)
  BY TakenFree
<1>2. s \in Int /\ e \in Int /\ s < e /\ e = s + n * Page /\ n \in Nat
  BY DEF Taken
<1>3. \A x \in Int : In(free, x) => x \in Address
  BY InRange
<1>4. n * Page \in Int
  BY <1>2, PmmAssumption
<1> QED BY <1>1, <1>2, <1>3, <1>4 DEF Adds

\* The step of free_pages that puts a run back.
Releases(s, n) ==
    LET sum == free_bytes + n * Page
    IN  \E i, e :
           /\ Returned(n, i, s, e) /\ HasRoom(i, s, e)
           /\ free' = Release(free, i, s, e)
           /\ free_bytes' = IF sum > AddrMax THEN free_bytes ELSE sum
           /\ Outcome("free", s, n, IF sum > AddrMax THEN "Overflow"
                                    ELSE IF sum > total_bytes THEN "InvalidFree" ELSE "Ok")

\* A run that is put back was not free, and the counter does not exceed the
\* total: the check that follows the change of the table never fails.
LEMMA ReleasesSound ==
    ASSUME Inv, CountInv, UNCHANGED managed, NEW s, NEW n, Releases(s, n)
    PROVE  /\ \E i, e : Returned(n, i, s, e) /\ Adds(free', free, s, e)
           /\ free_bytes' = Bytes(free')
           /\ Outcome("free", s, n, "Ok")
<1>1. PICK i, e :
         LET sum == free_bytes + n * Page
         IN  /\ Returned(n, i, s, e) /\ HasRoom(i, s, e)
             /\ free' = Release(free, i, s, e)
             /\ free_bytes' = IF sum > AddrMax THEN free_bytes ELSE sum
             /\ Outcome("free", s, n, IF sum > AddrMax THEN "Overflow"
                                      ELSE IF sum > total_bytes THEN "InvalidFree" ELSE "Ok")
  BY DEF Releases
<1>2. /\ s \in Int /\ e \in Int /\ s < e /\ e = s + n * Page /\ n \in Nat
      /\ i \in 1 .. Len(free) + 1 /\ IsSlot(free, s, i) /\ ~Overlaps(free, i, s, e)
  BY <1>1 DEF Returned
<1>3. n * Page \in Int /\ e - s = n * Page
  BY <1>2, PmmAssumption
<1>4. /\ \A x \in Int : In(free', x) <=> In(free, x) \/ (s <= x /\ x < e)
      /\ \A x \in Int : s <= x /\ x < e => In(managed, x)
  BY <1>1, ReturnedFree DEF HasRoom
<1>5. \A x \in Int : s <= x /\ x < e => ~In(free, x)
  BY <1>2, SlotFree DEF Inv, FreeInv
<1>6. \A x \in Int : In(free', x) => In(managed, x)
  BY <1>4 DEF Inv, FreeInv
<1>7. /\ \A x \in Int : In(managed, x) => x \in Address
      /\ \A x \in Int : In(managed, x) => x \in 1 .. AddrMax
  BY InRange
<1>8. Adds(free', free, s, e)
  BY <1>2, <1>4, <1>5, <1>6, <1>7 DEF Adds
<1>9. Bytes(free') \in Nat /\ Bytes(free) \in Nat /\ Bytes(free') = Bytes(free) + (e - s)
  BY <1>8, AddsCount
<1>10. Bytes(free') <= Bytes(managed) /\ Bytes(managed) <= AddrMax /\ Bytes(managed) \in Nat
  BY <1>6, <1>7, FewerBytes
<1>11. PICK sum \in Nat : sum = free_bytes + n * Page /\ sum = Bytes(free')
  BY <1>3, <1>9 DEF CountInv
<1>12. ~(sum > AddrMax) /\ ~(sum > total_bytes)
  BY <1>10, <1>11, PmmAssumption DEF CountInv
<1>13. free_bytes' = Bytes(free') /\ Outcome("free", s, n, "Ok")
  BY <1>1, <1>11, <1>12
<1> QED BY <1>1, <1>8, <1>13

\* Both invariants hold throughout.
THEOREM CountInvHolds == Spec => [](Inv /\ CountInv)

\* An allocation changes nothing, or takes a run out of the first fitting range.
<0>AllocateCases.
      ASSUME Inv, NEW n \in Nat, NEW a \in Nat, allocate_pages(n, a)
      PROVE  /\ built = "Ok" /\ UNCHANGED building
             /\ \/ UNCHANGED <<free, free_bytes>>
                \/ \E i, s, e :
                      /\ Taken(n, a, i, s, e) /\ free' = Carve(free, i, s, e)
                      /\ NeedsSlot(free, i, s, e) => Len(free) # N
                      /\ free_bytes' = free_bytes - n * Page
  <1> USE <0>AllocateCases
  <1>0. built = "Ok" /\ UNCHANGED building
    BY ZenonT(60) DEF allocate_pages
  <1>1. CASE ~UNCHANGED <<free, free_bytes>>
    <2>1. PICK i \in 1 .. Len(free) :
             LET s == align_up(free[i].start, a * Page)
                 e == s + n * Page
             IN  /\ n > 0 /\ a > 0
                 /\ Fits(free[i], n * Page, a * Page)
                 /\ ~(NeedsSlot(free, i, s, e) /\ Len(free) = N)
                 /\ free' = Carve(free, i, s, e)
                 /\ free_bytes' = free_bytes - n * Page
      BY <1>1, ZenonT(60) DEF allocate_pages
    <2>2. PICK s, e : s = align_up(free[i].start, a * Page) /\ e = s + n * Page
      OBVIOUS
    <2>3. n \in Nat \ {0} /\ a \in Nat \ {0}
      BY <2>1
    <2>4. Taken(n, a, i, s, e)
      BY <2>1, <2>2, <2>3, FitsTaken
    <2> QED BY <1>0, <2>1, <2>2, <2>4, ZenonT(60)
  <1> QED BY <1>0, <1>1

\* free_pages changes nothing, or puts a run back.
<0>FreeCases.
      ASSUME Inv, NEW s \in 0 .. AddrMax, NEW n \in Nat, free_pages(s, n)
      PROVE  /\ built = "Ok" /\ UNCHANGED building
             /\ UNCHANGED <<free, free_bytes>> \/ Releases(s, n)
  <1> USE <0>FreeCases
  <1>0. built = "Ok" /\ UNCHANGED building
    BY ZenonT(60) DEF free_pages
  <1>1. CASE ~UNCHANGED <<free, free_bytes>>
    <2>1. PICK e : e = s + n * Page
      OBVIOUS
    <2>2. PICK i \in 1 .. Len(free) + 1 :
             LET sum == free_bytes + n * Page
             IN  /\ n > 0 /\ s % Page = 0 /\ is_managed(s, e)
                 /\ IsSlot(free, s, i) /\ ~Overlaps(free, i, s, e) /\ HasRoom(i, s, e)
                 /\ free' = Release(free, i, s, e)
                 /\ free_bytes' = IF sum > AddrMax THEN free_bytes ELSE sum
                 /\ Outcome("free", s, n, IF sum > AddrMax THEN "Overflow"
                                          ELSE IF sum > total_bytes THEN "InvalidFree" ELSE "Ok")
      BY <1>1, <2>1, ZenonT(60) DEF free_pages
    <2>3. n \in Nat \ {0} /\ s \in Nat /\ s \in Int
      BY <2>2, PmmAssumption
    <2>4. e \in Int /\ s < e /\ s \in Multiples /\ e \in Multiples
      BY <2>1, <2>2, <2>3, AlignedRun
    <2>5. Returned(n, i, s, e)
      BY <2>1, <2>2, <2>3, <2>4 DEF Returned
    <2> QED BY <1>0, <2>2, <2>5, ZenonT(60) DEF Releases
  <1> QED BY <1>0, <1>1

\* The counters agree at the start,
<0>InitCount.
      Init => CountInv
  <1> SUFFICES ASSUME Init PROVE CountInv
    OBVIOUS
  <1>1. \A x : ~In(<<>>, x)
    BY DEF In
  <1>2. Covered(<<>>) = {}
    BY <1>1 DEF Covered
  <1>3. Bytes(<<>>) = 0
    BY <1>2, FS_EmptySet DEF Bytes
  <1>4. map \in Seq(Region) /\ turn = 1 /\ 1 \in 1 .. Len(map) + 1
    BY PmmAssumption DEF Init
  <1> QED BY <1>3, <1>4, PmmAssumption DEF Init, CountInv

\* and after every step.
<0>NextCount.
      Inv /\ CountInv /\ [Next]_vars /\ Inv' => CountInv'
  <1> SUFFICES ASSUME Inv, CountInv, [Next]_vars, Inv' PROVE CountInv'
    OBVIOUS
  <1>1. CASE AddRegion
    <2>1. /\ map' = map /\ turn' \in 1 .. Len(map) + 1 /\ previous_end' <= AddrMax
          /\ built' \in {"Building", "ReversedRange", "OverlapOrUnsorted", "Overflow", "Capacity"}
          /\ free = managed /\ free' = managed'
      BY <1>1, RegionAdded
    <2>2. free_bytes' = Bytes(free') /\ total_bytes' = Bytes(managed')
      <3>1. CASE managed' = managed /\ UNCHANGED <<total_bytes, free_bytes>>
        BY <2>1, <3>1 DEF CountInv
      <3>2. CASE \E s, e : /\ Adds(managed', managed, s, e)
                           /\ total_bytes' = total_bytes + (e - s)
                           /\ free_bytes' = free_bytes + (e - s)
        <4>1. PICK s, e : /\ Adds(managed', managed, s, e)
                          /\ total_bytes' = total_bytes + (e - s)
                          /\ free_bytes' = free_bytes + (e - s)
          BY <3>2
        <4>2. Bytes(managed') = Bytes(managed) + (e - s)
          BY <4>1, AddsCount
        <4> QED BY <2>1, <4>1, <4>2 DEF CountInv
      <3> QED BY <1>1, <3>1, <3>2, RegionAdded
    <2> QED BY <2>1, <2>2 DEF CountInv
  <1>2. CASE new
    BY <1>2 DEF new, CountInv
  <1>3. ASSUME UNCHANGED building, free_bytes' = Bytes(free') PROVE CountInv'
    BY <1>3 DEF building, CountInv
  <1>4. CASE \E n \in 0 .. MaxPages, a \in Aligns : allocate_pages(n, a)
    <2>1. PICK n \in 0 .. MaxPages, a \in Aligns : allocate_pages(n, a)
      BY <1>4
    <2>2. n \in Nat /\ a \in Nat
      BY PmmAssumption
    <2>3. /\ UNCHANGED building
          /\ \/ UNCHANGED <<free, free_bytes>>
             \/ \E i, s, e :
                   /\ Taken(n, a, i, s, e) /\ free' = Carve(free, i, s, e)
                   /\ NeedsSlot(free, i, s, e) => Len(free) # N
                   /\ free_bytes' = free_bytes - n * Page
      BY <2>1, <2>2, <0>AllocateCases
    <2>4. CASE UNCHANGED <<free, free_bytes>>
      BY <1>3, <2>3, <2>4 DEF CountInv
    <2>5. CASE ~UNCHANGED <<free, free_bytes>>
      <3>1. PICK i, s, e :
                /\ Taken(n, a, i, s, e) /\ free' = Carve(free, i, s, e)
                /\ NeedsSlot(free, i, s, e) => Len(free) # N
                /\ free_bytes' = free_bytes - n * Page
        BY <2>3, <2>5
      <3>2. Adds(free, free', s, e) /\ e - s = n * Page
        BY <3>1, TakenAdds
      <3>3. Bytes(free) \in Nat /\ Bytes(free') \in Nat /\ Bytes(free) = Bytes(free') + (e - s)
        BY <3>2, AddsCount
      <3>4. n * Page \in Int
        BY <2>2, PmmAssumption
      <3>5. free_bytes' = Bytes(free')
        BY <3>1, <3>2, <3>3, <3>4 DEF CountInv
      <3> QED BY <1>3, <2>3, <3>5
    <2> QED BY <2>4, <2>5
  <1>5. CASE \E s \in Addresses, n \in 0 .. MaxPages : free_pages(s, n)
    <2>1. PICK s \in Addresses, n \in 0 .. MaxPages : free_pages(s, n)
      BY <1>5
    <2>2. n \in Nat /\ s \in 0 .. AddrMax
      BY PmmAssumption
    <2>3. UNCHANGED building /\ (UNCHANGED <<free, free_bytes>> \/ Releases(s, n))
      BY <2>1, <2>2, <0>FreeCases
    <2>4. CASE UNCHANGED <<free, free_bytes>>
      BY <1>3, <2>3, <2>4 DEF CountInv
    <2>5. CASE Releases(s, n)
      <3>1. managed' = managed
        BY <2>3 DEF building
      <3>2. free_bytes' = Bytes(free')
        BY <2>5, <3>1, ReleasesSound
      <3> QED BY <1>3, <2>3, <3>2
    <2> QED BY <2>3, <2>4, <2>5
  <1>6. CASE UNCHANGED vars
    BY <1>6 DEF vars, building, CountInv
  <1> QED BY <1>1, <1>2, <1>4, <1>5, <1>6 DEF Next
<0> QED
  <1>1. Init => Inv /\ CountInv
    BY InitInv, <0>InitCount
  <1>2. (Inv /\ CountInv) /\ [Next]_vars => (Inv /\ CountInv)'
    BY NextInv, <0>NextCount
  <1> QED BY <1>1, <1>2, PTL DEF Spec

\* The byte counters of the manager agree with its tables, and used_bytes never
\* underflows, after any calls of new, allocate_pages and free_pages.
THEOREM AccountingHolds == Spec => []Accounting

\* A table of spans inside the address space is a table of regions.
<0>Regions64.
      ASSUME NEW f \in Seq(Spans),
             \A k \in 1 .. Len(f) : f[k].start \in 0 .. AddrMax /\ f[k].end \in 0 .. AddrMax
      PROVE  f \in Seq(Region)
  <1> USE <0>Regions64
  <1>1. ASSUME NEW r \in Spans, r.start \in 0 .. AddrMax, r.end \in 0 .. AddrMax
        PROVE  r \in Region
    BY <1>1, ZenonT(60) DEF Spans, Region
  <1>2. \A k \in 1 .. Len(f) : f[k] \in Region
    BY <1>1
  <1>3. Len(f) \in Nat /\ f \in [1 .. Len(f) -> Region]
    BY <1>2
  <1> QED BY <1>3
<0> QED
  <1>1. ASSUME Inv, CountInv PROVE Accounting
    <2>0. Page \in Nat \ {0} /\ AddrMax \in Nat
      BY PmmAssumption
    <2>1. /\ managed \in Seq(Spans) /\ Len(managed) <= N /\ Ordered(managed) /\ previous_end \in Nat
          /\ free \in Seq(Spans) /\ Len(free) <= N /\ Ordered(free)
          /\ \A k \in 1 .. Len(managed) : managed[k].end <= previous_end
          /\ \A k \in 1 .. Len(managed) : Page <= managed[k].start
          /\ \A x \in Int : In(free, x) => In(managed, x)
      BY <1>1, ZenonT(60) DEF Inv, BuildInv, FreeInv
    <2>2. previous_end <= AddrMax
      BY <1>1 DEF CountInv
    <2>3. ASSUME NEW k \in 1 .. Len(managed)
          PROVE  managed[k].start \in 0 .. AddrMax /\ managed[k].end \in 0 .. AddrMax
      <3>1. /\ managed[k].start \in Int /\ managed[k].end \in Int
            /\ managed[k].start < managed[k].end
            /\ managed[k].end <= previous_end /\ Page <= managed[k].start
        BY ONLY <2>1, SpanFacts DEF Ordered
      <3> QED BY ONLY <2>0, <2>1, <2>2, <3>1
    <2>4. managed \in Seq(Region)
      BY <2>1, <2>3, <0>Regions64
    <2>5. ASSUME NEW k \in 1 .. Len(free)
          PROVE  free[k].start \in 0 .. AddrMax /\ free[k].end \in 0 .. AddrMax
      <3>1. free[k].start \in Int /\ free[k].end \in Int /\ free[k].start < free[k].end
        BY ONLY <2>1, SpanFacts DEF Ordered
      <3>2. PICK j \in 1 .. Len(managed) :
               managed[j].start <= free[k].start /\ free[k].end <= managed[j].end
        BY <1>1, InvFreeTableSound DEF FreeTableSound, is_managed
      <3>3. managed[j].start \in 0 .. AddrMax /\ managed[j].end \in 0 .. AddrMax
        BY <2>3
      <3> QED BY <2>0, <3>1, <3>2, <3>3
    <2>6. free \in Seq(Region)
      BY <2>1, <2>5, <0>Regions64, ZenonT(60)
    <2>7. \A x \in Int : In(managed, x) => x \in 1 .. AddrMax
      BY <1>1, InRange
    <2>8. /\ Bytes(free) \in Nat /\ Bytes(managed) \in Nat
          /\ Bytes(free) <= Bytes(managed) /\ Bytes(managed) <= AddrMax
      BY <2>1, <2>7, FewerBytes, ZenonT(60)
    <2>9. /\ total_bytes \in 0 .. AddrMax /\ free_bytes \in 0 .. AddrMax
          /\ free_bytes <= total_bytes
      BY <1>1, <2>0, <2>8 DEF CountInv
    <2>10. TypeOK
      <3>1. previous_end \in 0 .. AddrMax
        BY <2>0, <2>1, <2>2
      <3> QED BY <1>1, <2>1, <2>4, <2>6, <2>9, <3>1, ZenonT(60) DEF TypeOK, CountInv
    <2> QED BY <1>1, <2>9, <2>10 DEF Accounting, CountInv
  <1>2. Inv /\ CountInv => Accounting
    BY <1>1
  <1> QED BY <1>2, CountInvHolds, PTL

-----------------------------------------------------------------------------
(* Frames *)

-----------------------------------------------------------------------------
(* Refinement *)

\* The step of allocate_pages that finds range i: it takes s .. e - 1 out of it,
\* or lacks a slot.
UsesRange(n, a, i, s, e) ==
    /\ s = align_up(free[i].start, a * Page) /\ e = s + n * Page
    /\ Fits(free[i], n * Page, a * Page)
    /\ \/ UNCHANGED free /\ Outcome("allocate", a, n, "Capacity")
       \/ /\ NeedsSlot(free, i, s, e) => Len(free) # N
          /\ free' = Carve(free, i, s, e)
          /\ last' = [call |-> "allocate", arg |-> a, pages |-> n, result |-> "Ok", start |-> s]

\* The manager implements PageAllocator: callers see a set of frames, from
\* which new, allocate_pages and free_pages take and to which they return
\* exactly what their results say, for every map, page size and table size.
THEOREM ImplementsPageAllocatorHolds == Spec => ImplementsPageAllocator

\* Frames are in the order of their addresses.
<0>FrameOrder.
      ASSUME NEW p \in Int, NEW q \in Int
      PROVE  /\ p * Page \in Int /\ q * Page \in Int
             /\ p <= q <=> p * Page <= q * Page
             /\ p < q <=> p * Page < q * Page
  <1> USE <0>FrameOrder
  <1>0. Page \in Nat \ {0}
    BY PmmAssumption
  <1>1. p * Page \in Int /\ q * Page \in Int
    BY <1>0
  <1>2. ASSUME NEW d \in Nat PROVE d * Page \in Nat /\ (d > 0 => d * Page > 0)
    BY <1>0
  <1>3. ASSUME p <= q PROVE p * Page <= q * Page /\ (p < q => p * Page < q * Page)
    <2>1. PICK d \in Nat : q = p + d
      <3>1. q - p \in Nat /\ q = p + (q - p)
        BY <1>3
      <3> QED BY <3>1
    <2>2. q * Page = p * Page + d * Page
      BY <1>0, <2>1
    <2>3. d * Page \in Nat /\ (d > 0 => d * Page > 0)
      BY <1>2
    <2> QED BY <1>1, <2>1, <2>2, <2>3
  <1>4. ASSUME q < p PROVE q * Page < p * Page
    <2>1. PICK d \in Nat : p = q + d /\ d > 0
      <3>1. p - q \in Nat /\ p = q + (p - q) /\ p - q > 0
        BY <1>4
      <3> QED BY <3>1
    <2>2. p * Page = q * Page + d * Page
      BY <1>0, <2>1
    <2>3. d * Page \in Nat /\ d * Page > 0
      BY <1>2, <2>1
    <2> QED BY <1>1, <2>2, <2>3
  <1>5. p < q \/ p = q \/ q < p
    OBVIOUS
  <1> QED BY <1>1, <1>3, <1>4, <1>5

\* A page boundary is the address of a frame.
<0>FrameAt.
      ASSUME NEW x \in Multiples
      PROVE  x \div Page \in Int /\ x = (x \div Page) * Page
  <1> USE <0>FrameAt
  <1> QED BY PmmAssumption DEF Multiples

\* The frame numbers that PageAllocator uses.
<0>FrameNumber.
      ASSUME NEW p \in Int
      PROVE  p \in 1 .. AddrMax \div Page <=> Page <= p * Page /\ p * Page <= AddrMax
  <1> USE <0>FrameNumber
  <1>0. Page \in Nat \ {0} /\ AddrMax \in Nat
    BY PmmAssumption
  <1>1. PICK m \in Int : /\ m = AddrMax \div Page
                         /\ m * Page <= AddrMax /\ AddrMax < (m + 1) * Page
    <2>1. /\ AddrMax \div Page \in Int /\ AddrMax % Page \in 0 .. Page - 1
          /\ AddrMax = Page * (AddrMax \div Page) + (AddrMax % Page)
      BY <1>0
    <2>2. PICK m \in Int, r \in 0 .. Page - 1 : m = AddrMax \div Page /\ AddrMax = Page * m + r
      BY <2>1
    <2>3. m * Page = Page * m /\ (m + 1) * Page = Page * m + Page /\ m * Page \in Int
      BY <1>0
    <2> QED BY <1>0, <2>2, <2>3
  <1>2. /\ 1 <= p <=> 1 * Page <= p * Page
        /\ p <= m => p * Page <= m * Page
        /\ m + 1 <= p => (m + 1) * Page <= p * Page
        /\ m * Page \in Int /\ (m + 1) * Page \in Int /\ p * Page \in Int /\ m + 1 \in Int
    <2>1. m + 1 \in Int /\ 1 \in Int
      OBVIOUS
    <2> QED BY <2>1, <0>FrameOrder
  <1>3. p <= m <=> p * Page <= AddrMax
    BY <1>0, <1>1, <1>2
  <1> QED BY <1>0, <1>1, <1>2, <1>3

\* The frames of a table that lies between the null page and AddrMax.
<0>FramesIn.
      ASSUME NEW f, \A x \in Int : In(f, x) => Page <= x /\ x \in 1 .. AddrMax
      PROVE  \A p \in Int : p \in FramesOf(f) <=> In(f, p * Page)
  <1> USE <0>FramesIn
  <1> TAKE p \in Int
  <1>1. p * Page \in Int
    BY <0>FrameOrder
  <1>2. p \in 1 .. AddrMax \div Page <=> Page <= p * Page /\ p * Page <= AddrMax
    BY <0>FrameNumber
  <1>3. In(f, p * Page) => Page <= p * Page /\ p * Page <= AddrMax
    BY <1>1, PmmAssumption
  <1> QED BY <1>2, <1>3 DEF FramesOf

\* n pages from a page boundary on are n frames.
<0>RunFrames.
      ASSUME NEW s \in Multiples, NEW n \in Nat, NEW e, e = s + n * Page
      PROVE  /\ s \div Page \in Int /\ (s \div Page) + n \in Int
             /\ s = (s \div Page) * Page /\ e = ((s \div Page) + n) * Page
  <1> USE <0>RunFrames
  <1>1. PICK p \in Int : p = s \div Page /\ s = p * Page
    BY <0>FrameAt
  <1>2. (p + n) * Page = p * Page + n * Page
    BY PmmAssumption
  <1> QED BY <1>1, <1>2

\* A run of frames is covered exactly if it lies in one range: neighbouring
\* ranges never touch.
<0>RunInRange.
      ASSUME NEW f \in Seq(Spans), Ordered(f), Ends(f, Multiples),
             NEW p \in Int, NEW n \in Nat \ {0}
      PROVE  (\A q \in p .. p + n - 1 : In(f, q * Page)) <=>
             \E k \in 1 .. Len(f) : f[k].start <= p * Page /\ (p + n) * Page <= f[k].end
  <1> USE <0>RunInRange
  <1>0. \A k \in 1 .. Len(f) : /\ f[k].start \in Int /\ f[k].end \in Int
                               /\ f[k].start \in Multiples /\ f[k].end \in Multiples
    <2>1. f \in Seq(Spans) /\ Ordered(f) /\ Ends(f, Multiples)
      BY ZenonT(60)
    <2> QED BY ONLY <2>1, SpanFacts DEF Ends
  <1>1. ASSUME \A q \in p .. p + n - 1 : In(f, q * Page)
        PROVE  \E k \in 1 .. Len(f) : f[k].start <= p * Page /\ (p + n) * Page <= f[k].end
    <2>1. In(f, p * Page)
      BY <1>1
    <2>2. PICK k \in 1 .. Len(f) : f[k].start <= p * Page /\ p * Page < f[k].end
      BY <2>1 DEF In
    <2>3. PICK m \in Int : f[k].end = m * Page
      BY <1>0, <0>FrameAt
    <2>4. ~In(f, m * Page)
      BY <2>3, EndNotIn, ZenonT(60)
    <2>5. p < m
      BY <2>2, <2>3, <0>FrameOrder
    <2>6. ~(m \in p .. p + n - 1)
      BY <1>1, <2>4
    <2>7. p + n <= m /\ p + n \in Int
      BY <2>5, <2>6
    <2>8. (p + n) * Page <= m * Page
      BY <2>7, <0>FrameOrder
    <2> QED BY <2>2, <2>3, <2>8
  <1>2. ASSUME NEW k \in 1 .. Len(f), f[k].start <= p * Page, (p + n) * Page <= f[k].end,
               NEW q \in p .. p + n - 1
        PROVE  In(f, q * Page)
    <2>1. p <= q /\ q < p + n /\ q \in Int /\ p + n \in Int
      BY <1>2
    <2>2. p * Page <= q * Page /\ p * Page \in Int /\ q * Page \in Int
      BY <2>1, <0>FrameOrder
    <2>3. q * Page < (p + n) * Page /\ (p + n) * Page \in Int
      BY <2>1, <0>FrameOrder
    <2>4. f[k].start \in Int /\ f[k].end \in Int
      BY <1>0
    <2>5. f[k].start <= q * Page /\ q * Page < f[k].end
      BY <1>2, <2>2, <2>3, <2>4
    <2> QED BY <2>5 DEF In
  <1> QED BY <1>1, <1>2, ZenonT(60)

\* A range more is a run of frames more.
<0>AddsFrames.
      ASSUME NEW f, NEW g, NEW s, NEW e, Adds(f, g, s, e),
             \A x \in Int : In(f, x) => Page <= x /\ x \in 1 .. AddrMax,
             NEW p \in Int, NEW n \in Nat \ {0}, s = p * Page, e = (p + n) * Page
      PROVE  /\ FramesOf(f) = FramesOf(g) \cup (p .. p + n - 1)
             /\ FramesOf(g) \cap (p .. p + n - 1) = {}
  <1> USE <0>AddsFrames
  <1>1. \A x \in Int : In(g, x) => Page <= x /\ x \in 1 .. AddrMax
    BY DEF Adds
  <1>2. \A q \in Int : (q \in FramesOf(f) <=> In(f, q * Page))
    BY <0>FramesIn
  <1>3. \A q \in Int : (q \in FramesOf(g) <=> In(g, q * Page))
    BY <1>1, <0>FramesIn
  <1>4. \A q \in FramesOf(f) \cup FramesOf(g) \cup (p .. p + n - 1) : q \in Int
    BY PmmAssumption DEF FramesOf
  <1>5. ASSUME NEW q \in Int
        PROVE  q * Page \in Int /\ (q \in p .. p + n - 1 <=> s <= q * Page /\ q * Page < e)
    <2>1. p + n \in Int
      OBVIOUS
    <2>2. (p <= q <=> p * Page <= q * Page) /\ q * Page \in Int
      BY <0>FrameOrder
    <2>3. q < p + n <=> q * Page < (p + n) * Page
      BY <2>1, <0>FrameOrder
    <2> QED BY <2>2, <2>3
  <1>6. ASSUME NEW q \in Int
        PROVE  /\ q \in FramesOf(f) <=> q \in FramesOf(g) \/ q \in p .. p + n - 1
               /\ q \in p .. p + n - 1 => q \notin FramesOf(g)
    <2>1. q * Page \in Int /\ (q \in p .. p + n - 1 <=> s <= q * Page /\ q * Page < e)
      BY <1>5
    <2> QED BY <1>2, <1>3, <2>1, ZenonT(60) DEF Adds
  <1> QED BY <1>4, <1>6

\* The frame of an aligned address is aligned.
<0>AlignedFrame.
      ASSUME NEW a \in Nat \ {0}, NEW p \in Int
      PROVE  (p * Page) % (a * Page) = 0 <=> p % a = 0
  <1> USE <0>AlignedFrame
  <1>0. Page \in Nat \ {0}
    BY PmmAssumption
  <1>1. PICK A \in Nat \ {0} : A = a * Page
    BY <1>0
  <1>2. ASSUME (p * Page) % A = 0 PROVE p % a = 0
    <2>1. p * Page \in Int
      BY <1>0
    <2>2. PICK u \in Int : p * Page = A * u
      <3>1. PICK x \in Int : x = p * Page
        BY <2>1
      <3>2. x = A * (x \div A) /\ x \div A \in Int
        BY <1>2, <3>1
      <3> QED BY <3>1, <3>2, ZenonT(60)
    <2>3. a * u \in Int /\ p * Page = (a * u) * Page
      BY <1>0, <1>1, <2>2
    <2>4. p = a * u
      <3>1. PICK q \in Int : q = a * u
        BY <2>3
      <3>2. p * Page = q * Page
        BY <2>3, <3>1
      <3>3. (p < q <=> p * Page < q * Page) /\ (p <= q <=> p * Page <= q * Page) /\ q * Page \in Int
        BY <0>FrameOrder
      <3> QED BY <3>1, <3>2, <3>3
    <2>5. ASSUME NEW k \in Int, NEW w \in Int, w = a * k PROVE w % a = 0
      BY <2>5
    <2> QED BY <2>4, <2>5
  <1>3. ASSUME p % a = 0 PROVE (p * Page) % A = 0
    <2>1. PICK u \in Int : p = a * u
      <3>1. p = a * (p \div a) /\ p \div a \in Int
        BY <1>3
      <3> QED BY <3>1
    <2>2. p * Page = A * u /\ p * Page \in Int
      BY <1>0, <1>1, <2>1
    <2>3. ASSUME NEW k \in Int, NEW w \in Int, w = A * k PROVE w % A = 0
      BY <2>3
    <2> QED BY <2>2, <2>3
  <1> QED BY <1>1, <1>2, <1>3

\* If a run of free frames is long enough and aligned, some range fits.
<0>RunFits.
      ASSUME Inv, CountInv, NEW n \in Nat \ {0}, NEW a \in Aligns, a \in Nat \ {0},
             IsPowerOfTwo(a), a * Page <= AddrMax,
             NEW p \in Int, p % a = 0, \A q \in p .. p + n - 1 : In(free, q * Page)
      PROVE  \E i \in 1 .. Len(free) : Fits(free[i], n * Page, a * Page)
  <1> USE <0>RunFits
  <1>0. /\ Page \in Nat \ {0} /\ AddrMax \in Nat /\ free \in Seq(Spans) /\ Ordered(free)
        /\ Ends(free, Multiples)
    BY PmmAssumption DEF Inv, FreeInv
  <1>1. PICK k \in 1 .. Len(free) : free[k].start <= p * Page /\ (p + n) * Page <= free[k].end
    BY <1>0, <0>RunInRange, ZenonT(60)
  <1>2. free[k].start \in Int /\ free[k].end \in Int /\ free[k].start < free[k].end
    BY ONLY <1>0, SpanFacts DEF Ordered
  <1>3. PICK v \in Int, b \in Int, A \in Nat \ {0}, z \in Nat \ {0}, s \in Int :
           v = free[k].start /\ b = free[k].end /\ A = a * Page /\ z = n * Page /\ s = p * Page
    BY <1>0, <1>2
  <1>4. v <= s /\ s + z <= b /\ v < b
    <2>1. (p + n) * Page = s + z
      BY ONLY <1>0, <1>3
    <2> QED BY <1>1, <1>2, <1>3, <2>1, ZenonT(60)
  <1>5. b <= AddrMax
    <2>0. free[k].start <= b - 1 /\ b - 1 < free[k].end
      <3>1. v <= b - 1 /\ b - 1 < b
        BY <1>4
      <3> QED BY <1>3, <3>1, ZenonT(60)
    <2>1. In(free, b - 1)
      BY <2>0, ZenonT(60) DEF In
    <2>2. b - 1 < previous_end /\ previous_end <= AddrMax /\ previous_end \in Nat
      <3>1. previous_end <= AddrMax /\ previous_end \in Nat
        BY ZenonT(60) DEF Inv, BuildInv, CountInv
      <3>2. \A x \in Int : In(free, x) => x < previous_end
        BY InRange
      <3>3. b - 1 \in Int
        OBVIOUS
      <3> QED BY <2>1, <3>1, <3>2, <3>3
    <2> QED BY <1>0, <2>2
  <1>6. /\ align_up(v, A) \in Int /\ v <= align_up(v, A) /\ align_up(v, A) < v + A
        /\ align_up(v, A) % A = 0
    BY AlignUp, ZenonT(60)
  <1>7. PICK m \in Int : m = align_up(v, A) /\ v <= m /\ m < v + A /\ m % A = 0
    BY <1>6
  <1>8. s % A = 0
    BY <1>3, <0>AlignedFrame, ZenonT(60)
  <1>9. m <= s
    <2>1. ASSUME s < m PROVE FALSE
      <3>1. s + A <= m
        BY <1>7, <1>8, <2>1, Apart
      <3> QED BY <1>4, <1>7, <3>1
    <2> QED BY <2>1
  <1>10. m + z <= b
    BY <1>4, <1>9
  <1>11. v + (A - 1) <= AddrMax
    <2>1. (AddrMax + 1) % A = 0 /\ AddrMax + 1 \in Int
      BY <1>0, <1>3, WidthAssumption
    <2>2. m < AddrMax + 1
      BY <1>0, <1>5, <1>10
    <2>3. m + A <= AddrMax + 1
      BY <1>7, <2>1, <2>2, Apart
    <2> QED BY <1>0, <1>7, <2>3
  <1>12. m + z <= AddrMax
    BY <1>0, <1>5, <1>10
  <1>13. Fits(free[k], n * Page, a * Page)
    BY <1>3, <1>7, <1>10, <1>11, <1>12, ZenonT(60) DEF Fits
  <1> QED BY <1>13

\* The run that an allocation takes is one of PageAllocator's free runs.
<0>TakenRun.
      ASSUME Inv, CountInv, NEW n, NEW a, NEW i, NEW s, NEW e, Taken(n, a, i, s, e),
             NEW p, p = s \div Page
      PROVE  /\ p \in Int /\ s = p * Page /\ e = (p + n) * Page
             /\ p \in 1 .. AddrMax \div Page /\ p \in Abstract!FreeRuns(n, a)
  <1> USE <0>TakenRun
  <1>0. /\ free \in Seq(Spans) /\ Ordered(free) /\ Ends(free, Multiples)
        /\ n \in Nat \ {0} /\ a \in Nat \ {0} /\ s \in Multiples /\ e = s + n * Page
        /\ i \in 1 .. Len(free) /\ free[i].start <= s /\ e <= free[i].end /\ s % (a * Page) = 0
    BY ZenonT(60) DEF Inv, FreeInv, Taken
  <1>1. p \in Int /\ s = p * Page /\ e = (p + n) * Page
    BY <1>0, <0>RunFrames, ZenonT(60)
  <1>2. \A q \in p .. p + n - 1 : In(free, q * Page)
    <2>1. \E k \in 1 .. Len(free) : free[k].start <= p * Page /\ (p + n) * Page <= free[k].end
      BY <1>0, <1>1, ZenonT(60)
    <2> QED BY <1>0, <1>1, <2>1, <0>RunInRange, ZenonT(60)
  <1>3. \A q \in Int : q \in FramesOf(free) <=> In(free, q * Page)
    BY InRange, <0>FramesIn
  <1>4. p .. p + n - 1 \subseteq FramesOf(free) /\ p \in p .. p + n - 1
    BY ONLY <1>0, <1>1, <1>2, <1>3
  <1>5. p % a = 0
    BY <1>0, <1>1, <0>AlignedFrame, ZenonT(60)
  <1> QED BY <1>1, <1>4, <1>5, ZenonT(60) DEF Abstract!FreeRuns, Abstract!Run, FramesOf

\* allocate_pages does what Allocate does, whatever it returns.
<0>AllocateRefines.
      ASSUME Inv, CountInv, NEW n \in 0 .. MaxPages, NEW a \in Aligns, allocate_pages(n, a)
      PROVE  Abstract!Allocate(n, a)
  <1> USE <0>AllocateRefines
  <1>0. n \in Nat /\ a \in Nat /\ Page \in Nat \ {0} /\ UNCHANGED building /\ managed' = managed
    <2>1. UNCHANGED building /\ managed' = managed
      BY ZenonT(60) DEF allocate_pages, building
    <2>2. n \in 0 .. MaxPages /\ a \in Aligns
      BY ZenonT(60)
    <2>3. n \in Nat /\ a \in Nat /\ Page \in Nat \ {0}
      BY ONLY <2>2, PmmAssumption
    <2> QED BY <2>1, <2>3, ZenonT(60)
  <1>1. Abstract!Malformed(n, a) <=> ~(n > 0 /\ a > 0 /\ IsPowerOfTwo(a))
    BY <1>0 DEF Abstract!Malformed, IsPowerOfTwo
  <1>2. Abstract!TooLarge(n, a) <=> n * Page > AddrMax \/ a * Page > AddrMax
    BY DEF Abstract!TooLarge
  <1>3. CASE /\ ~(n > 0 /\ a > 0 /\ IsPowerOfTwo(a)) /\ UNCHANGED free
             /\ Outcome("allocate", a, n, "InvalidRequest")
    BY <1>0, <1>1, <1>3, ZenonT(60) DEF Abstract!Allocate, Abstract!Outcome, Outcome
  <1>4. CASE /\ n > 0 /\ a > 0 /\ IsPowerOfTwo(a) /\ (n * Page > AddrMax \/ a * Page > AddrMax)
             /\ UNCHANGED free /\ Outcome("allocate", a, n, "Overflow")
    BY <1>0, <1>1, <1>2, <1>4, ZenonT(60) DEF Abstract!Allocate, Abstract!Outcome, Outcome
  <1>5. CASE n > 0 /\ a > 0 /\ IsPowerOfTwo(a) /\ n * Page <= AddrMax /\ a * Page <= AddrMax
    <2>0. /\ ~Abstract!Malformed(n, a) /\ ~Abstract!TooLarge(n, a)
          /\ n \in Nat \ {0} /\ a \in Nat \ {0}
      <3>1. n * Page \in Int /\ a * Page \in Int /\ AddrMax \in Int
        BY <1>0, PmmAssumption
      <3> QED BY <1>0, <1>1, <1>2, <1>5, <3>1
    <2>1. CASE /\ \A i \in 1 .. Len(free) : ~Fits(free[i], n * Page, a * Page)
               /\ UNCHANGED free /\ Outcome("allocate", a, n, "None")
      <3>1. Abstract!FreeRuns(n, a) = {}
        <4> SUFFICES ASSUME NEW p \in FramesOf(free), p % a = 0,
                            p .. p + n - 1 \subseteq FramesOf(free)
                     PROVE  FALSE
          BY DEF Abstract!FreeRuns, Abstract!Run
        <4>1. p \in Int
          BY PmmAssumption DEF FramesOf
        <4>2. \A q \in p .. p + n - 1 : In(free, q * Page)
          BY DEF FramesOf
        <4> QED BY <1>5, <2>0, <2>1, <4>1, <4>2, <0>RunFits, ZenonT(60)
      <3> QED BY <1>0, <2>0, <2>1, <3>1, ZenonT(60) DEF Abstract!Allocate, Abstract!Outcome, Outcome
    <2>2. CASE ~\A i \in 1 .. Len(free) : ~Fits(free[i], n * Page, a * Page)
      <3>a. PICK i \in 1 .. Len(free) : \E s, e : UsesRange(n, a, i, s, e)
        BY <1>1, <1>2, <1>5, <2>0, <2>2, ZenonT(60) DEF allocate_pages, UsesRange
      <3>b. PICK s, e : UsesRange(n, a, i, s, e)
        BY <3>a
      <3>1. /\ s = align_up(free[i].start, a * Page) /\ e = s + n * Page
            /\ Fits(free[i], n * Page, a * Page)
            /\ \/ UNCHANGED free /\ Outcome("allocate", a, n, "Capacity")
               \/ /\ NeedsSlot(free, i, s, e) => Len(free) # N
                  /\ free' = Carve(free, i, s, e)
                  /\ last' = [call |-> "allocate", arg |-> a,
                              pages |-> n, result |-> "Ok", start |-> s]
        BY <3>b, ZenonT(60) DEF UsesRange
      <3>2. Taken(n, a, i, s, e)
        BY <2>0, <3>1, FitsTaken, ZenonT(60)
      <3>3. PICK p : p = s \div Page
        OBVIOUS
      <3>4. /\ p \in Int /\ s = p * Page /\ e = (p + n) * Page
            /\ p \in 1 .. AddrMax \div Page /\ p \in Abstract!FreeRuns(n, a)
        BY <3>2, <3>3, <0>TakenRun
      <3>5. CASE UNCHANGED free /\ Outcome("allocate", a, n, "Capacity")
        <4>1. Abstract!FreeRuns(n, a) # {}
          BY <3>4
        <4> QED BY <1>0, <2>0, <3>5, <4>1, ZenonT(60) DEF Abstract!Allocate, Abstract!Outcome, Outcome
      <3>6. CASE /\ NeedsSlot(free, i, s, e) => Len(free) # N
                 /\ free' = Carve(free, i, s, e)
                 /\ last' = [call |-> "allocate", arg |-> a,
                             pages |-> n, result |-> "Ok", start |-> s]
        <4>1. Adds(free, free', s, e)
          BY <3>2, <3>6, TakenAdds, ZenonT(60)
        <4>2. \A x \in Int : In(free, x) => Page <= x /\ x \in 1 .. AddrMax
          BY InRange
        <4>3. /\ FramesOf(free) = FramesOf(free') \cup (p .. p + n - 1)
              /\ FramesOf(free') \cap (p .. p + n - 1) = {}
          BY <2>0, <3>4, <4>1, <4>2, <0>AddsFrames, ZenonT(60)
        <4>4. FramesOf(free') = FramesOf(free) \ Abstract!Run(p, n)
          BY <4>3 DEF Abstract!Run
        <4>5. last' = [call |-> "allocate", arg |-> a,
                       pages |-> n, result |-> "Ok", start |-> p * Page]
          BY <3>4, <3>6, ZenonT(60)
        <4>6. FramesOf(managed)' = FramesOf(managed) /\ FramesOf(free)' = FramesOf(free')
          BY <1>0 DEF FramesOf
        <4> QED BY <2>0, <3>4, <4>4, <4>5, <4>6, ZenonT(60) DEF Abstract!Allocate
      <3> QED BY <3>1, <3>5, <3>6, ZenonT(60)
    <2> QED BY <1>1, <1>5, <2>0, <2>1, <2>2, ZenonT(60) DEF allocate_pages, Abstract!TooLarge
  <1> QED
    <2>1. n * Page \in Int /\ a * Page \in Int /\ AddrMax \in Int
      BY <1>0, PmmAssumption
    <2> QED BY <1>3, <1>4, <1>5, <2>1, ZenonT(60) DEF allocate_pages

\* Frames are managed exactly if their addresses are.
<0>ManagedRun.
      ASSUME Inv, CountInv, NEW s \in Multiples, NEW n \in Nat \ {0}, NEW e, e = s + n * Page,
             NEW p, p = s \div Page
      PROVE  /\ p \in Int /\ s = p * Page /\ e = (p + n) * Page
             /\ p .. p + n - 1 \subseteq FramesOf(managed) <=> is_managed(s, e)
             /\ is_managed(s, e) => Page <= s /\ e <= AddrMax
  <1> USE <0>ManagedRun
  <1>0. /\ managed \in Seq(Spans) /\ Ordered(managed) /\ Ends(managed, Multiples)
        /\ previous_end \in Nat /\ previous_end <= AddrMax /\ Page \in Nat \ {0} /\ AddrMax \in Nat
        /\ \A k \in 1 .. Len(managed) : managed[k].end <= previous_end
        /\ \A k \in 1 .. Len(managed) : Page <= managed[k].start
    BY PmmAssumption, ZenonT(60) DEF Inv, BuildInv, CountInv
  <1>1. p \in Int /\ s = p * Page /\ e = (p + n) * Page
    <2>1. n \in Nat
      OBVIOUS
    <2> QED BY <2>1, <0>RunFrames
  <1>2. \A q \in Int : q \in FramesOf(managed) <=> In(managed, q * Page)
    BY InRange, <0>FramesIn
  <1>3. p .. p + n - 1 \subseteq FramesOf(managed) <=> \A q \in p .. p + n - 1 : In(managed, q * Page)
    BY <1>1, <1>2
  <1>4. (\A q \in p .. p + n - 1 : In(managed, q * Page)) <=> is_managed(s, e)
    <2>1. (\A q \in p .. p + n - 1 : In(managed, q * Page)) <=>
          \E k \in 1 .. Len(managed) : managed[k].start <= p * Page /\ (p + n) * Page <= managed[k].end
      BY <1>0, <1>1, <0>RunInRange, ZenonT(60)
    <2> QED BY <1>1, <2>1, ZenonT(60) DEF is_managed
  <1>5. ASSUME is_managed(s, e) PROVE Page <= s /\ e <= AddrMax
    <2>1. PICK k \in 1 .. Len(managed) : managed[k].start <= s /\ e <= managed[k].end
      BY <1>5 DEF is_managed
    <2>2. /\ managed[k].start \in Int /\ managed[k].end \in Int
          /\ managed[k].end <= previous_end /\ Page <= managed[k].start
      BY ONLY <1>0, SpanFacts
    <2>3. s \in Int /\ e \in Int
      BY <1>0 DEF Multiples
    <2> QED BY ONLY <1>0, <2>1, <2>2, <2>3
  <1> QED BY <1>1, <1>3, <1>4, <1>5, ZenonT(60)

\* The search for the slot finds an overlap exactly if a frame of the run is free.
<0>OverlapRun.
      ASSUME Inv, CountInv, NEW s \in Multiples, NEW n \in Nat \ {0}, NEW e, e = s + n * Page,
             NEW p \in Int, s = p * Page, e = (p + n) * Page,
             NEW i \in 1 .. Len(free) + 1, IsSlot(free, s, i)
      PROVE  Overlaps(free, i, s, e) <=> (p .. p + n - 1) \cap FramesOf(free) # {}
  <1> USE <0>OverlapRun
  <1>0. /\ free \in Seq(Spans) /\ Ordered(free) /\ Ends(free, Multiples) /\ Len(free) \in Nat
        /\ Page \in Nat \ {0} /\ s \in Int /\ e \in Int
    BY PmmAssumption DEF Inv, FreeInv, Multiples
  <1>1. \A q \in Int : q \in FramesOf(free) <=> In(free, q * Page)
    BY InRange, <0>FramesIn
  <1>2. \A k \in 1 .. Len(free) : /\ free[k].start \in Int /\ free[k].end \in Int
                                  /\ free[k].start < free[k].end /\ free[k].start \in Multiples
    <2> TAKE k \in 1 .. Len(free)
    <2>1. free[k] \in Spans
      BY ONLY <1>0
    <2>2. free[k].start \in Int /\ free[k].end \in Int
      BY <2>1, SpanFacts, ZenonT(60)
    <2>3. free[k].start < free[k].end
      BY <1>0, ZenonT(60) DEF Ordered
    <2>4. free[k].start \in Multiples
      BY <1>0, ZenonT(60) DEF Ends
    <2> QED BY <2>2, <2>3, <2>4, ZenonT(60)
  <1>3. ASSUME i > 1, free[i - 1].end > s PROVE (p .. p + n - 1) \cap FramesOf(free) # {}
    <2>1. i - 1 \in 1 .. Len(free) /\ free[i - 1].start < s
      <3>1. IsSlot(free, s, i)
        BY ZenonT(60)
      <3> QED BY ONLY <1>0, <1>3, <3>1 DEF IsSlot
    <2>2. In(free, p * Page)
      <3>1. PICK k \in 1 .. Len(free) : k = i - 1
        BY <2>1
      <3>2. free[k].start <= s /\ s < free[k].end
        BY ONLY <1>0, <1>2, <1>3, <2>1, <3>1
      <3>3. In(free, s)
        BY <3>2, ZenonT(60) DEF In
      <3> QED BY <3>3
    <2>3. p \in p .. p + n - 1 /\ p \in FramesOf(free)
      BY <1>1, <2>2
    <2> QED BY <2>3
  <1>4. ASSUME i <= Len(free), free[i].start < e PROVE (p .. p + n - 1) \cap FramesOf(free) # {}
    <2>1. i \in 1 .. Len(free) /\ s <= free[i].start
      <3>1. IsSlot(free, s, i)
        BY ZenonT(60)
      <3> QED BY ONLY <1>0, <1>2, <1>4, <3>1 DEF IsSlot
    <2>2. PICK q \in Int : free[i].start = q * Page
      BY <1>2, <2>1, <0>FrameAt, ZenonT(60)
    <2>3. In(free, q * Page)
      BY ONLY <1>0, <1>2, <2>1, <2>2 DEF In
    <2>4. p + n \in Int /\ p * Page <= q * Page /\ q * Page < (p + n) * Page
      BY <1>4, <2>1, <2>2
    <2>5. p <= q
      BY <2>4, <0>FrameOrder
    <2>6. q < p + n
      BY <2>4, <0>FrameOrder
    <2>7. q \in p .. p + n - 1 /\ q \in FramesOf(free)
      BY <1>1, <2>3, <2>5, <2>6
    <2> QED BY <2>7
  <1>5. ASSUME ~Overlaps(free, i, s, e), NEW q \in p .. p + n - 1 PROVE q \notin FramesOf(free)
    <2>1. q \in Int /\ p <= q /\ q < p + n /\ p + n \in Int
      BY <1>5
    <2>2. p * Page <= q * Page /\ q * Page \in Int
      BY <2>1, <0>FrameOrder, ZenonT(60)
    <2>3. q * Page < (p + n) * Page
      BY <2>1, <0>FrameOrder
    <2>4. \A x \in Int : s <= x /\ x < e => ~In(free, x)
      BY <1>0, <1>5, SlotFree
    <2> QED BY <1>1, <2>1, <2>2, <2>3, <2>4
  <1> QED BY <1>3, <1>4, <1>5, ZenonT(60) DEF Overlaps

\* free_pages does what Free does, whatever it returns.
<0>FreeRefines.
      ASSUME Inv, CountInv, NEW s \in Addresses, NEW n \in 0 .. MaxPages, free_pages(s, n)
      PROVE  Abstract!Free(s, n)
  <1> USE <0>FreeRefines
  <1>0. /\ n \in Nat /\ s \in 0 .. AddrMax /\ s \in Nat /\ Page \in Nat \ {0} /\ AddrMax \in Nat
        /\ UNCHANGED building /\ managed' = managed
    <2>1. UNCHANGED building /\ managed' = managed
      BY ZenonT(60) DEF free_pages, building
    <2>2. n \in 0 .. MaxPages /\ s \in Addresses
      BY ZenonT(60)
    <2>3. n \in Nat /\ s \in 0 .. AddrMax /\ s \in Nat /\ Page \in Nat \ {0} /\ AddrMax \in Nat
      BY ONLY <2>2, PmmAssumption
    <2> QED BY <2>1, <2>3, ZenonT(60)
  <1>1. PICK p, e : p = s \div Page /\ e = s + n * Page
    OBVIOUS
  <1>2. Abstract!Returnable(s, n) <=>
          /\ n > 0 /\ s % Page = 0
          /\ p .. p + n - 1 \subseteq FramesOf(managed) \ FramesOf(free)
    BY <1>1 DEF Abstract!Returnable, Abstract!Run
  <1>3. ASSUME ~Abstract!Returnable(s, n), UNCHANGED free,
               Outcome("free", s, n, "InvalidFree") \/ Outcome("free", s, n, "Overflow")
        PROVE  Abstract!Free(s, n)
    <2>1. \E r \in {"InvalidFree", "Overflow"} : Abstract!Outcome("free", s, n, r)
      BY <1>3, ZenonT(60) DEF Outcome, Abstract!Outcome
    <2> QED BY <1>0, <1>3, <2>1, ZenonT(60) DEF Abstract!Free
  <1>4. CASE ~(n > 0 /\ s % Page = 0)
    <2>1. ~Abstract!Returnable(s, n)
      BY <1>2, <1>4
    <2>2. UNCHANGED free /\ Outcome("free", s, n, "InvalidFree")
      BY <1>4, ZenonT(60) DEF free_pages
    <2> QED BY <1>3, <2>1, <2>2
  <1>5. CASE n > 0 /\ s % Page = 0
    <2>0. n \in Nat \ {0} /\ s \in Multiples
      BY <1>0, <1>5 DEF Multiples
    <2>1. /\ p \in Int /\ s = p * Page /\ e = (p + n) * Page
          /\ p .. p + n - 1 \subseteq FramesOf(managed) <=> is_managed(s, e)
          /\ is_managed(s, e) => Page <= s /\ e <= AddrMax
      BY <1>1, <2>0, <0>ManagedRun
    <2>2. e \in Int
      BY <1>0, <1>1
    <2>3. CASE ~is_managed(s, e)
      <3>1. ~Abstract!Returnable(s, n)
        BY <1>2, <2>1, <2>3
      <3>2. /\ UNCHANGED free
            /\ Outcome("free", s, n, "InvalidFree") \/ Outcome("free", s, n, "Overflow")
        BY <1>1, <2>3, ZenonT(60) DEF free_pages
      <3> QED BY <1>3, <3>1, <3>2
    <2>4. CASE is_managed(s, e)
      <3>1. s >= Page /\ e <= AddrMax
        BY <1>0, <2>1, <2>2, <2>4
      <3>2. PICK i \in 1 .. Len(free) + 1 :
               /\ IsSlot(free, s, i)
               /\ \/ /\ Overlaps(free, i, s, e) /\ UNCHANGED free
                     /\ Outcome("free", s, n, "InvalidFree")
                  \/ /\ ~Overlaps(free, i, s, e) /\ UNCHANGED free
                     /\ Outcome("free", s, n, "Capacity")
                  \/ /\ ~Overlaps(free, i, s, e) /\ Releases(s, n)
        <4>1. e \in Int /\ s < e /\ s \in Multiples /\ e \in Multiples
          BY <1>0, <1>1, <1>5, <2>0, AlignedRun
        <4>2. ~(e > AddrMax)
          BY <1>0, <2>2, <3>1
        <4>3. PICK i \in 1 .. Len(free) + 1 :
                 /\ IsSlot(free, s, i)
                 /\ \/ /\ Overlaps(free, i, s, e) /\ UNCHANGED free
                       /\ Outcome("free", s, n, "InvalidFree")
                    \/ /\ ~Overlaps(free, i, s, e) /\ UNCHANGED free
                       /\ Outcome("free", s, n, "Capacity")
                    \/ /\ ~Overlaps(free, i, s, e) /\ HasRoom(i, s, e)
                       /\ free' = Release(free, i, s, e)
                       /\ free_bytes' = IF free_bytes + n * Page > AddrMax THEN free_bytes
                                        ELSE free_bytes + n * Page
                       /\ Outcome("free", s, n,
                                  IF free_bytes + n * Page > AddrMax THEN "Overflow"
                                  ELSE IF free_bytes + n * Page > total_bytes THEN "InvalidFree"
                                  ELSE "Ok")
          BY <1>1, <1>5, <2>4, <3>1, <4>2, ZenonT(60) DEF free_pages
        <4>4. ASSUME ~Overlaps(free, i, s, e) PROVE Returned(n, i, s, e)
          BY ONLY <1>0, <1>1, <2>0, <2>4, <4>1, <4>3, <4>4 DEF Returned
        <4> QED BY <4>3, <4>4, ZenonT(60) DEF Releases
      <3>3. Overlaps(free, i, s, e) <=> (p .. p + n - 1) \cap FramesOf(free) # {}
        BY <1>1, <2>0, <2>1, <3>2, <0>OverlapRun, ZenonT(60)
      <3>4. Abstract!Returnable(s, n) <=> ~Overlaps(free, i, s, e)
        BY <1>2, <1>5, <2>1, <2>4, <3>3, ZenonT(60)
      <3>5. CASE /\ Overlaps(free, i, s, e) /\ UNCHANGED free
                 /\ Outcome("free", s, n, "InvalidFree")
        BY <1>3, <3>4, <3>5
      <3>6. CASE ~Overlaps(free, i, s, e) /\ UNCHANGED free /\ Outcome("free", s, n, "Capacity")
        BY <1>0, <3>4, <3>6, ZenonT(60) DEF Abstract!Free, Abstract!Outcome, Outcome
      <3>7. CASE ~Overlaps(free, i, s, e) /\ Releases(s, n)
        <4>1. /\ \E j, f : Returned(n, j, s, f) /\ Adds(free', free, s, f)
              /\ Outcome("free", s, n, "Ok")
          BY <1>0, <3>7, ReleasesSound, ZenonT(60)
        <4>2. Adds(free', free, s, e)
          BY <1>1, <4>1, ZenonT(60) DEF Returned
        <4>3. \A x \in Int : In(free', x) => Page <= x /\ x \in 1 .. AddrMax
          <5>1. \A x \in Int : In(free, x) => Page <= x /\ x \in 1 .. AddrMax
            BY InRange
          <5> QED BY ONLY <1>0, <3>1, <4>2, <5>1 DEF Adds
        <4>4. FramesOf(free') = FramesOf(free) \cup (p .. p + n - 1)
          BY <2>0, <2>1, <4>2, <4>3, <0>AddsFrames, ZenonT(60)
        <4>5. FramesOf(free)' = FramesOf(free) \cup Abstract!Run(s \div Page, n)
          BY <1>1, <4>4, ZenonT(60) DEF Abstract!Run, FramesOf
        <4>6. FramesOf(managed)' = FramesOf(managed)
          BY <1>0 DEF FramesOf
        <4> QED BY <3>4, <3>7, <4>1, <4>5, <4>6, ZenonT(60) DEF Abstract!Free, Abstract!Outcome, Outcome
      <3> QED BY <3>2, <3>5, <3>6, <3>7, ZenonT(60)
    <2> QED BY <2>3, <2>4
  <1> QED BY <1>4, <1>5

\* Reading a region of the firmware map hands its frames over.
<0>RegionRefines.
      ASSUME Inv, CountInv, AddRegion, Inv'
      PROVE  Abstract!Donate
  <1> USE <0>RegionRefines
  <1>1. /\ last' = last /\ free' = managed'
        /\ \/ managed' = managed
           \/ \E s, e : Adds(managed', managed, s, e)
    BY RegionAdded
  <1>2. last = [call |-> "new"]
    BY ZenonT(60) DEF AddRegion, Inv, FreeInv
  <1>3. \A x \in Int : In(managed, x) => In(managed', x)
    BY <1>1 DEF Adds
  <1>4. ASSUME NEW q \in FramesOf(managed) PROVE q \in FramesOf(managed')
    <2>1. q \in Int /\ q \in 1 .. AddrMax \div Page /\ In(managed, q * Page)
      BY PmmAssumption DEF FramesOf
    <2>2. q * Page \in Int
      BY <2>1, <0>FrameOrder
    <2> QED BY <1>3, <2>1, <2>2 DEF FramesOf
  <1>5. FramesOf(managed)' \subseteq 1 .. AddrMax \div Page
    BY DEF FramesOf
  <1>6. FramesOf(managed) \subseteq FramesOf(managed)' /\ FramesOf(free)' = FramesOf(managed)'
    BY <1>1, <1>4 DEF FramesOf
  <1> QED BY <1>1, <1>2, <1>5, <1>6, ZenonT(60) DEF Abstract!Donate
<0> QED
  <1>1. Init => Abstract!Init
    BY DEF Init, Abstract!Init, FramesOf, In
  <1>2. /\ Inv /\ CountInv /\ [Next]_vars /\ Inv'
        => [Abstract!Next]_Abstract!vars
    <2> SUFFICES ASSUME Inv, CountInv, [Next]_vars, Inv'
                 PROVE  [Abstract!Next]_Abstract!vars
      OBVIOUS
    <2>1. CASE AddRegion
      BY <2>1, <0>RegionRefines DEF Abstract!Next
    <2>2. CASE new
      BY <2>2 DEF new, Abstract!vars, FramesOf
    <2>3. CASE \E n \in 0 .. MaxPages, a \in Aligns : allocate_pages(n, a)
      BY <2>3, <0>AllocateRefines DEF Abstract!Next
    <2>4. CASE \E s \in Addresses, n \in 0 .. MaxPages : free_pages(s, n)
      BY <2>4, <0>FreeRefines DEF Abstract!Next
    <2>5. CASE UNCHANGED vars
      BY <2>5 DEF vars, building, Abstract!vars, FramesOf
    <2> QED BY <2>1, <2>2, <2>3, <2>4, <2>5 DEF Next
  <1> QED BY <1>1, <1>2, CountInvHolds, PTL DEF Spec, ImplementsPageAllocator, Abstract!Spec

-----------------------------------------------------------------------------
(* What new manages *)

\* Address p starts a page of region r that is not the null page.
PageOf(r, p) == p >= Page /\ r.start <= p /\ p + Page <= r.end

\* So far, the addresses in the pages of the regions read are managed.
ExactInv ==
    /\ built = "Ok" => turn > Len(map)
    /\ built \in {"Building", "Ok"} =>
          \A x \in 0 .. AddrMax :
              In(managed, x) <=> \E i \in 1 .. turn - 1 : PageOf(map[i], align_down(x, Page))

\* new manages exactly the whole pages inside a single firmware region, the
\* null page excepted, for every map, page size and table size.
THEOREM NewIsExactHolds == Spec => []NewIsExact

\* The page of x lies between v and w exactly if x does once they are rounded
\* inwards.
<0>RoundedInwards.
      ASSUME NEW v \in Int, NEW w \in Int, NEW x \in Int, NEW P \in Nat \ {0}
      PROVE  v <= align_down(x, P) /\ align_down(x, P) + P <= w
             <=> align_up(v, P) <= x /\ x < align_down(w, P)
  <1> USE <0>RoundedInwards
  <1>1. PICK p \in Int : p = align_down(x, P) /\ p <= x /\ x < p + P /\ p % P = 0
    <2>1. align_down(x, P) \in Int /\ align_down(x, P) <= x /\ align_down(x, P) % P = 0
      BY AlignDown
    <2>2. x < align_down(x, P) + P
      <3>1. x % P \in 0 .. P - 1
        OBVIOUS
      <3> QED BY <3>1 DEF align_down
    <2> QED BY <2>1, <2>2
  <1>2. PICK s \in Int : s = align_up(v, P) /\ v <= s /\ s < v + P /\ s % P = 0
    <2>1. /\ align_up(v, P) \in Int /\ v <= align_up(v, P) /\ align_up(v, P) < v + P
          /\ align_up(v, P) % P = 0
      BY AlignUp
    <2> QED BY <2>1
  <1>3. PICK e \in Int : e = align_down(w, P) /\ e <= w /\ w < e + P /\ e % P = 0
    <2>1. align_down(w, P) \in Int /\ align_down(w, P) <= w /\ align_down(w, P) % P = 0
      BY AlignDown
    <2>2. w < align_down(w, P) + P
      <3>1. w % P \in 0 .. P - 1
        OBVIOUS
      <3> QED BY <3>1 DEF align_down
    <2> QED BY <2>1, <2>2
  <1>4. p < s => p + P <= s
    BY <1>1, <1>2, Apart
  <1>5. p < e => p + P <= e
    BY <1>1, <1>3, Apart
  <1>6. v <= p <=> s <= x
    BY <1>1, <1>2, <1>4
  <1>7. p + P <= w <=> x < e
    <2>1. e <= p => e + P <= p + P
      BY <1>1, <1>3
    <2> QED BY <1>1, <1>3, <1>5, <2>1
  <1> QED BY <1>1, <1>2, <1>3, <1>6, <1>7, ZenonT(60)

\* A turn of the loop of new that goes on to the next adds the pages of its
\* region.
<0>RegionExact.
      ASSUME Inv, CountInv, AddRegion, built' = "Building"
      PROVE  /\ turn' = turn + 1 /\ map' = map /\ turn \in 1 .. Len(map)
             /\ \A x \in Int :
                   In(managed', x) <=> In(managed, x) \/ PageOf(map[turn], align_down(x, Page))
  <1> USE <0>RegionExact
  <1>0. /\ Page \in Nat \ {0} /\ AddrMax \in Nat /\ built = "Building" /\ free = managed
        /\ turn \in 1 .. Len(map) /\ map' = map /\ previous_end \in Nat
    <2>1. built = "Building" /\ turn <= Len(map) /\ map' = map
      BY ZenonT(60) DEF AddRegion
    <2>2. previous_end \in Nat /\ turn \in 1 .. Len(map) + 1 /\ map \in Seq(Region)
      BY ZenonT(60) DEF Inv, BuildInv, CountInv
    <2>3. built # "Ok" => free = managed
      BY ZenonT(60) DEF Inv, FreeInv
    <2> QED BY ONLY <2>1, <2>2, <2>3, PmmAssumption
  <1>1. map[turn].start \in Nat /\ map[turn].end \in Nat
    <2>1. map[turn] \in Region
      BY <1>0 DEF Inv, BuildInv
    <2> QED BY <2>1 DEF Region
  <1>2. PICK v \in Int, w \in Int :
           /\ v = IF map[turn].start > Page THEN map[turn].start ELSE Page
           /\ w = map[turn].end
    BY <1>0, <1>1
  <1>3. PICK s \in Int, e \in Int : s = align_up(v, Page) /\ e = align_down(w, Page) /\ v <= s
    <2>1. Page \in Nat \ {0} /\ v \in Int /\ w \in Int
      BY <1>0
    <2>2. align_up(v, Page) \in Int /\ v <= align_up(v, Page)
      BY <2>1, AlignUp
    <2>3. align_down(w, Page) \in Int
      BY <2>1, AlignDown
    <2> QED BY <2>2, <2>3
  <1>4. ASSUME NEW x \in Int PROVE PageOf(map[turn], align_down(x, Page)) <=> s <= x /\ x < e
    <2>1. PICK p \in Int : p = align_down(x, Page)
      <3>1. Page \in Nat \ {0} /\ x \in Int
        BY <1>0
      <3> QED BY <3>1, AlignDown
    <2>2. v <= p <=> p >= Page /\ map[turn].start <= p
      BY <1>0, <1>1, <1>2
    <2>3. v <= p /\ p + Page <= w <=> s <= x /\ x < e
      BY <1>0, <1>3, <2>1, <0>RoundedInwards
    <2> QED BY <1>2, <2>1, <2>2, <2>3, ZenonT(60) DEF PageOf
  <1>5. \/ s >= e /\ turn' = turn + 1 /\ managed' = managed
        \/ s < e /\ push_initial(s, e) /\ map[turn].start >= previous_end
    BY <1>2, <1>3, ZenonT(60) DEF AddRegion, Fail
  <1>6. CASE s >= e /\ turn' = turn + 1 /\ managed' = managed
    BY <1>0, <1>4, <1>6
  <1>7. CASE s < e /\ push_initial(s, e) /\ map[turn].start >= previous_end
    <2>1. /\ turn' = turn + 1
          /\ \/ /\ Len(managed) > 0 /\ managed[Len(managed)].end = s
                /\ managed' = resize(managed, Len(managed), managed[Len(managed)].start, e)
             \/ managed' = push(managed, s, e)
      BY <1>7, ZenonT(60) DEF push_initial, Fail
    <2>2. /\ managed \in Seq(Spans) /\ Ordered(managed)
          /\ \A k \in 1 .. Len(managed) : managed[k].end <= previous_end
      BY ZenonT(60) DEF Inv, BuildInv
    <2>3. \A k \in 1 .. Len(managed) : managed[k].end <= s
      <3> TAKE k \in 1 .. Len(managed)
      <3>1. managed[k].end \in Int /\ managed[k].end <= previous_end
        BY ONLY <2>2, SpanFacts
      <3>2. map[turn].start <= v
        BY <1>0, <1>1, <1>2
      <3> QED BY <1>0, <1>1, <1>3, <1>7, <3>1, <3>2
    <2>4. \A x \in Int : In(managed', x) <=> In(managed, x) \/ (s <= x /\ x < e)
      <3>1. s \in Int /\ e \in Int /\ s < e
        BY <1>7
      <3>2. PICK g : g = managed'
        OBVIOUS
      <3>3. \/ /\ Len(managed) > 0 /\ managed[Len(managed)].end = s
               /\ g = resize(managed, Len(managed), managed[Len(managed)].start, e)
            \/ g = push(managed, s, e)
        BY <2>1, <3>2, ZenonT(60)
      <3>4. \A x \in Int : In(g, x) <=> In(managed, x) \/ (s <= x /\ x < e)
        BY <2>2, <2>3, <3>1, <3>3, Pushed, ZenonT(60)
      <3> QED BY <3>2, <3>4
    <2> QED BY <1>0, <1>4, <2>1, <2>4, ZenonT(60)
  <1> QED BY <1>5, <1>6, <1>7, ZenonT(60)

\* The pages of the regions read, and of one region more.
<0>OneMore.
      ASSUME NEW n \in Nat \ {0}, NEW p
      PROVE  (\E i \in 1 .. n : PageOf(map[i], p))
             <=> (\E i \in 1 .. n - 1 : PageOf(map[i], p)) \/ PageOf(map[n], p)
  <1> USE <0>OneMore
  <1>1. \A i : i \in 1 .. n <=> i \in 1 .. n - 1 \/ i = n
    OBVIOUS
  <1> QED BY <1>1, ZenonT(60)

\* Every turn adds its region, and nothing else changes what is managed.
<0>NextExact.
      Inv /\ CountInv /\ ExactInv /\ [Next]_vars => ExactInv'
  <1> SUFFICES ASSUME Inv, CountInv, ExactInv, [Next]_vars PROVE ExactInv'
    OBVIOUS
  <1>1. CASE AddRegion
    <2>0. built = "Building" /\ built' # "Ok" /\ turn \in Nat \ {0}
      BY <1>1, ZenonT(60) DEF AddRegion, push_initial, Fail, Inv, BuildInv
    <2>1. CASE built' = "Building"
      <3>1. /\ turn' = turn + 1 /\ map' = map /\ turn \in 1 .. Len(map)
            /\ \A x \in Int :
                  In(managed', x) <=> In(managed, x) \/ PageOf(map[turn], align_down(x, Page))
        BY <1>1, <2>1, <0>RegionExact
      <3>2. ASSUME NEW x \in 0 .. AddrMax
            PROVE  In(managed', x) <=> \E i \in 1 .. turn : PageOf(map[i], align_down(x, Page))
        <4>1. In(managed, x) <=> \E i \in 1 .. turn - 1 : PageOf(map[i], align_down(x, Page))
          BY <2>0 DEF ExactInv
        <4>2. x \in Int
          BY PmmAssumption
        <4> QED BY <2>0, <3>1, <4>1, <4>2, <0>OneMore, ZenonT(60)
      <3>3. turn' - 1 = turn
        BY <2>0, <3>1
      <3> QED BY <2>0, <3>1, <3>2, <3>3, ZenonT(60) DEF ExactInv
    <2>2. CASE built' # "Building"
      BY <2>0, <2>2, ZenonT(60) DEF ExactInv
    <2> QED BY <2>1, <2>2
  <1>2. CASE new
    BY <1>2 DEF new, ExactInv
  <1>3. CASE UNCHANGED building
    BY <1>3 DEF building, ExactInv
  <1>4. CASE \E n \in 0 .. MaxPages, a \in Aligns : allocate_pages(n, a)
    BY <1>3, <1>4, ZenonT(60) DEF allocate_pages
  <1>5. CASE \E s \in Addresses, n \in 0 .. MaxPages : free_pages(s, n)
    BY <1>3, <1>5, ZenonT(60) DEF free_pages
  <1>6. CASE UNCHANGED vars
    BY <1>3, <1>6 DEF vars
  <1> QED BY <1>1, <1>2, <1>4, <1>5, <1>6 DEF Next
<0> QED
  <1>1. Init => ExactInv
    BY DEF Init, ExactInv, In
  <1>2. Inv /\ CountInv /\ ExactInv => NewIsExact
    <2> SUFFICES ASSUME Inv, CountInv, ExactInv, built = "Ok" PROVE NewIsExact
      BY ZenonT(60) DEF NewIsExact
    <2>1. turn - 1 = Len(map)
      <3>1. turn \in 1 .. Len(map) + 1 /\ map \in Seq(Region) /\ turn > Len(map)
        BY ZenonT(60) DEF ExactInv, CountInv, Inv, BuildInv
      <3> QED BY ONLY <3>1
    <2>2. \A x \in 0 .. AddrMax :
              In(managed, x) <=> \E i \in 1 .. Len(map) : PageOf(map[i], align_down(x, Page))
      BY <2>1 DEF ExactInv
    <2>3. Ordered(managed)
      BY ZenonT(60) DEF Inv, BuildInv
    <2> QED BY <2>2, <2>3, ZenonT(60) DEF NewIsExact, PageOf
  <1> QED BY <1>1, <1>2, <0>NextExact, CountInvHolds, PTL DEF Spec

===============================================================================
