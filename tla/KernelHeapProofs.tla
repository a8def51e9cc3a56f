--------------------------- MODULE KernelHeapProofs ---------------------------
(***************************************************************************)
(* What taking a range out of a table of free ranges and putting one back  *)
(* do, for tables of any length: the table stays sorted and coalesced, and *)
(* covers exactly the addresses it should.  From that, the theorems about  *)
(* the kernel heap; module PhysicalMemoryProofs uses the same lemmas.      *)
(***************************************************************************)
EXTENDS KernelHeap, FiniteSetTheorems, TLAPS

\* A leaf that names no prover is for SMT, with time to spare on a busy machine.
USE SMTT(60)

\* The ranges below slot i end before s, those from slot k on start after e.
Clear(f, i, k, s, e) ==
    \A j \in 1 .. Len(f) : (j < i => f[j].end < s) /\ (j >= k => e < f[j].start)

\* Sequences with the same elements are the same.
LEMMA SameElements ==
    ASSUME NEW S, NEW s \in Seq(S), NEW t \in Seq(S), Len(s) = Len(t),
           \A i \in 1 .. Len(s) : s[i] = t[i]
    PROVE  s = t
<1>1. PICK n \in Nat : n = Len(s) /\ n = Len(t)
  OBVIOUS
<1>2. s \in [1 .. n -> S] /\ t \in [1 .. n -> S]
  BY <1>1
<1>3. s = [i \in 1 .. n |-> s[i]] /\ t = [i \in 1 .. n |-> t[i]]
  BY <1>2
<1> QED BY <1>1, <1>3, ZenonT(60)

\* A span has integer ends, and is what it was made from.
LEMMA SpanFacts ==
    /\ \A r \in Spans : r.start \in Int /\ r.end \in Int
    /\ \A s, e \in Int : Span(s, e) \in Spans
    /\ \A s, e : Span(s, e).start = s /\ Span(s, e).end = e
BY DEF Spans, Span

\* insert_free keeps the ranges below slot i and moves the others up.
LEMMA InsertFacts ==
    ASSUME NEW f \in Seq(Spans), NEW i \in 1 .. Len(f) + 1, NEW r \in Spans
    PROVE  /\ insert_free(f, i, r) \in Seq(Spans)
           /\ Len(insert_free(f, i, r)) = Len(f) + 1
           /\ \A j \in 1 .. Len(f) + 1 :
                 /\ j < i => insert_free(f, i, r)[j] = f[j]
                 /\ j = i => insert_free(f, i, r)[j] = r
                 /\ j > i => insert_free(f, i, r)[j] = f[j - 1]
<1> DEFINE g == insert_free(f, i, r)
<1>1. \A j \in 1 .. Len(f) + 1 :
         (IF j < i THEN f[j] ELSE IF j = i THEN r ELSE f[j - 1]) \in Spans
  OBVIOUS
<1>2. g \in [1 .. Len(f) + 1 -> Spans]
  BY <1>1 DEF insert_free
<1> QED
  BY <1>2 DEF insert_free

\* remove_free keeps the ranges below slot i and moves the others down.
LEMMA RemoveFacts ==
    ASSUME NEW f \in Seq(Spans), NEW i \in 1 .. Len(f)
    PROVE  /\ remove_free(f, i) \in Seq(Spans)
           /\ Len(remove_free(f, i)) = Len(f) - 1
           /\ \A j \in 1 .. Len(f) - 1 :
                 /\ j < i => remove_free(f, i)[j] = f[j]
                 /\ j >= i => remove_free(f, i)[j] = f[j + 1]
<1> DEFINE g == remove_free(f, i)
<1>1. \A j \in 1 .. Len(f) - 1 : (IF j < i THEN f[j] ELSE f[j + 1]) \in Spans
  OBVIOUS
<1>2. g \in [1 .. Len(f) - 1 -> Spans] /\ Len(f) - 1 \in Nat
  BY <1>1 DEF remove_free
<1> QED
  BY <1>2 DEF remove_free

\* Replacing one range of a table leaves the others.
LEMMA ReplaceFacts ==
    ASSUME NEW f \in Seq(Spans), NEW i \in 1 .. Len(f), NEW r \in Spans
    PROVE  /\ [f EXCEPT ![i] = r] \in Seq(Spans)
           /\ Len([f EXCEPT ![i] = r]) = Len(f)
           /\ [f EXCEPT ![i] = r][i] = r
           /\ \A j \in 1 .. Len(f) : j # i => [f EXCEPT ![i] = r][j] = f[j]
OBVIOUS

-----------------------------------------------------------------------------
(* The three shapes a table can take after a change *)

\* Range i is gone.
LEMMA Removed ==
    ASSUME NEW f \in Seq(Spans), Ordered(f), NEW i \in 1 .. Len(f),
           NEW g, g = remove_free(f, i)
    PROVE  /\ g \in Seq(Spans) /\ Len(g) = Len(f) - 1
           /\ Ordered(g)
           /\ \A x \in Int : In(g, x) <=> In(f, x) /\ ~(f[i].start <= x /\ x < f[i].end)
<1>0. /\ Len(f) \in Nat
      /\ \A j \in 1 .. Len(f) : f[j].start \in Int /\ f[j].end \in Int
  BY SpanFacts
<1>1. /\ g \in Seq(Spans) /\ Len(g) = Len(f) - 1
      /\ \A j \in 1 .. Len(f) - 1 : (j < i => g[j] = f[j]) /\ (j >= i => g[j] = f[j + 1])
  BY RemoveFacts, ZenonT(60)
<1> DEFINE Old(j) == IF j < i THEN j ELSE j + 1
<1>2. \A j \in 1 .. Len(g) : Old(j) \in 1 .. Len(f) /\ Old(j) # i /\ g[j] = f[Old(j)]
  BY <1>0, <1>1
<1>3. \A j, k \in 1 .. Len(g) : j < k => Old(j) < Old(k)
  BY <1>0, <1>1
<1>4. \A k \in 1 .. Len(f) : k # i => \E j \in 1 .. Len(g) : Old(j) = k
  <2> SUFFICES ASSUME NEW k \in 1 .. Len(f), k # i
               PROVE  \E j \in 1 .. Len(g) : Old(j) = k
    OBVIOUS
  <2>1. CASE k < i
    BY <1>0, <1>1, <2>1
  <2>2. CASE k > i
    <3>1. k - 1 \in 1 .. Len(g) /\ Old(k - 1) = k
      BY <1>0, <1>1, <2>2
    <3> QED BY <3>1
  <2> QED BY <2>1, <2>2
<1> HIDE DEF Old
<1>5. Ordered(g)
  BY <1>0, <1>1, <1>2, <1>3, ZenonT(60) DEF Ordered
<1>6. ASSUME NEW x \in Int
      PROVE  In(g, x) <=> In(f, x) /\ ~(f[i].start <= x /\ x < f[i].end)
  <2>1. ASSUME NEW j \in 1 .. Len(f), j # i, f[j].start <= x /\ x < f[j].end
        PROVE  ~(f[i].start <= x /\ x < f[i].end)
    <3>1. /\ j < i => f[j].end < f[i].start
          /\ i < j => f[i].end < f[j].start
      BY DEF Ordered
    <3>2. /\ f[j].start \in Int /\ f[j].end \in Int
          /\ f[i].start \in Int /\ f[i].end \in Int
      BY <1>0
    <3>3. f[j].end < f[i].start \/ f[i].end < f[j].start
      BY <2>1, <3>1
    <3> QED BY <2>1, <3>2, <3>3
  <2>2. ASSUME In(g, x) PROVE In(f, x) /\ ~(f[i].start <= x /\ x < f[i].end)
    <3>1. PICK j \in 1 .. Len(g) : g[j].start <= x /\ x < g[j].end
      BY <2>2 DEF In
    <3>2. Old(j) \in 1 .. Len(f) /\ Old(j) # i /\ f[Old(j)].start <= x /\ x < f[Old(j)].end
      BY <1>2, <3>1
    <3> QED BY <2>1, <3>2 DEF In
  <2>3. ASSUME In(f, x), ~(f[i].start <= x /\ x < f[i].end) PROVE In(g, x)
    <3>1. PICK k \in 1 .. Len(f) : f[k].start <= x /\ x < f[k].end
      BY <2>3 DEF In
    <3>2. PICK j \in 1 .. Len(g) : Old(j) = k
      BY <1>4, <2>3, <3>1
    <3> QED BY <1>2, <3>1, <3>2 DEF In
  <2> QED BY <2>2, <2>3
<1> QED BY <1>1, <1>5, <1>6

\* Range i is replaced by one that is not empty and clear of its neighbours.
LEMMA Replaced ==
    ASSUME NEW f \in Seq(Spans), Ordered(f), NEW i \in 1 .. Len(f),
           NEW s \in Int, NEW e \in Int, s < e,
           Clear(f, i, i + 1, s, e),
           NEW g, g = resize(f, i, s, e)
    PROVE  /\ g \in Seq(Spans) /\ Len(g) = Len(f)
           /\ g[i].start = s /\ g[i].end = e
           /\ Ordered(g)
           /\ \A x \in Int : In(g, x) <=> \/ In(f, x) /\ ~(f[i].start <= x /\ x < f[i].end)
                                          \/ s <= x /\ x < e
<1>0. /\ Len(f) \in Nat
      /\ \A j \in 1 .. Len(f) : f[j].start \in Int /\ f[j].end \in Int
  BY SpanFacts
<1>1. Span(s, e) \in Spans /\ Span(s, e).start = s /\ Span(s, e).end = e
  BY SpanFacts
<1>2. /\ g \in Seq(Spans) /\ Len(g) = Len(f) /\ g[i] = Span(s, e)
      /\ \A j \in 1 .. Len(f) : j # i => g[j] = f[j]
  BY <1>1, ReplaceFacts DEF resize
<1>c. \A j \in 1 .. Len(f) : (j < i => f[j].end < s) /\ (j > i => e < f[j].start)
  BY <1>0 DEF Clear
<1>3. g[i].start = s /\ g[i].end = e
  BY <1>1, <1>2
<1>4. Ordered(g)
  <2>1. ASSUME NEW j \in 1 .. Len(g) PROVE g[j].start < g[j].end
    BY <1>2, <1>3 DEF Ordered
  <2>2. ASSUME NEW j \in 1 .. Len(g), NEW k \in 1 .. Len(g), j < k
        PROVE  g[j].end < g[k].start
    <3>1. CASE j = i
      BY <1>c, <1>2, <1>3, <2>2, <3>1
    <3>2. CASE k = i
      BY <1>c, <1>2, <1>3, <2>2, <3>2
    <3>3. CASE j # i /\ k # i
      BY <1>2, <2>2, <3>3, ZenonT(60) DEF Ordered
    <3> QED BY <3>1, <3>2, <3>3
  <2> QED BY <2>1, <2>2 DEF Ordered
<1>5. ASSUME NEW x \in Int
      PROVE  In(g, x) <=> \/ In(f, x) /\ ~(f[i].start <= x /\ x < f[i].end)
                          \/ s <= x /\ x < e
  <2>1. ASSUME NEW j \in 1 .. Len(f), j # i, f[j].start <= x /\ x < f[j].end
        PROVE  ~(f[i].start <= x /\ x < f[i].end)
    <3>1. /\ j < i => f[j].end < f[i].start
          /\ i < j => f[i].end < f[j].start
      BY DEF Ordered
    <3>2. /\ f[j].start \in Int /\ f[j].end \in Int
          /\ f[i].start \in Int /\ f[i].end \in Int
      BY <1>0
    <3>3. f[j].end < f[i].start \/ f[i].end < f[j].start
      BY <2>1, <3>1
    <3> QED BY <2>1, <3>2, <3>3
  <2>2. ASSUME In(g, x), ~(s <= x /\ x < e)
        PROVE  In(f, x) /\ ~(f[i].start <= x /\ x < f[i].end)
    <3>1. PICK j \in 1 .. Len(f) : g[j].start <= x /\ x < g[j].end
      BY <1>2, <2>2 DEF In
    <3>2. j # i /\ f[j].start <= x /\ x < f[j].end
      BY <1>c, <1>2, <1>3, <2>2, <3>1
    <3> QED BY <2>1, <3>2 DEF In
  <2>3. ASSUME In(f, x), ~(f[i].start <= x /\ x < f[i].end) PROVE In(g, x)
    <3>1. PICK k \in 1 .. Len(f) : f[k].start <= x /\ x < f[k].end
      BY <2>3 DEF In
    <3>2. k # i
      BY <2>3, <3>1
    <3> QED BY <1>2, <3>1, <3>2 DEF In
  <2>4. ASSUME s <= x /\ x < e PROVE In(g, x)
    BY <1>2, <1>3, <2>4 DEF In
  <2> QED BY <2>2, <2>3, <2>4
<1> QED BY <1>2, <1>3, <1>4, <1>5

\* A range that is not empty and clear of its neighbours is inserted at i.
LEMMA Inserted ==
    ASSUME NEW f \in Seq(Spans), Ordered(f), NEW i \in 1 .. Len(f) + 1,
           NEW s \in Int, NEW e \in Int, s < e,
           Clear(f, i, i, s, e),
           NEW g, g = insert_free(f, i, Span(s, e))
    PROVE  /\ g \in Seq(Spans) /\ Len(g) = Len(f) + 1
           /\ Ordered(g)
           /\ \A x \in Int : In(g, x) <=> In(f, x) \/ (s <= x /\ x < e)
<1>0. /\ Len(f) \in Nat
      /\ \A j \in 1 .. Len(f) : f[j].start \in Int /\ f[j].end \in Int
  BY SpanFacts
<1>1. Span(s, e) \in Spans /\ Span(s, e).start = s /\ Span(s, e).end = e
  BY SpanFacts
<1>2. /\ g \in Seq(Spans) /\ Len(g) = Len(f) + 1
      /\ \A j \in 1 .. Len(f) + 1 :
            (j < i => g[j] = f[j]) /\ (j = i => g[j] = Span(s, e)) /\ (j > i => g[j] = f[j - 1])
  BY <1>1, InsertFacts
<1>3. g[i].start = s /\ g[i].end = e
  BY <1>1, <1>2
<1> DEFINE Old(j) == IF j < i THEN j ELSE j - 1
<1>4. \A j \in 1 .. Len(g) : j # i => Old(j) \in 1 .. Len(f) /\ g[j] = f[Old(j)]
  BY <1>0, <1>2
<1>5. \A j, k \in 1 .. Len(g) : j < k /\ j # i /\ k # i => Old(j) < Old(k)
  BY <1>0, <1>2
<1>6. \A j \in 1 .. Len(g) : (j < i => Old(j) < i) /\ (j > i => Old(j) >= i)
  BY <1>0, <1>2
<1>7. \A k \in 1 .. Len(f) : \E j \in 1 .. Len(g) : j # i /\ Old(j) = k
  <2> SUFFICES ASSUME NEW k \in 1 .. Len(f)
               PROVE  \E j \in 1 .. Len(g) : j # i /\ Old(j) = k
    OBVIOUS
  <2>1. CASE k < i
    BY <1>0, <1>2, <2>1
  <2>2. CASE k >= i
    <3>1. k + 1 \in 1 .. Len(g) /\ k + 1 # i /\ Old(k + 1) = k
      BY <1>0, <1>2, <2>2
    <3> QED BY <3>1
  <2> QED BY <2>1, <2>2
<1> HIDE DEF Old
<1>8. Ordered(g)
  <2>1. ASSUME NEW j \in 1 .. Len(g) PROVE g[j].start < g[j].end
    BY <1>3, <1>4 DEF Ordered
  <2>2. ASSUME NEW j \in 1 .. Len(g), NEW k \in 1 .. Len(g), j < k
        PROVE  g[j].end < g[k].start
    <3>1. CASE j = i
      BY <1>3, <1>4, <1>6, <2>2, <3>1 DEF Clear
    <3>2. CASE k = i
      BY <1>3, <1>4, <1>6, <2>2, <3>2 DEF Clear
    <3>3. CASE j # i /\ k # i
      BY <1>4, <1>5, <2>2, <3>3, ZenonT(60) DEF Ordered
    <3> QED BY <3>1, <3>2, <3>3
  <2> QED BY <2>1, <2>2 DEF Ordered
<1>9. ASSUME NEW x \in Int PROVE In(g, x) <=> In(f, x) \/ (s <= x /\ x < e)
  <2>1. ASSUME In(g, x), ~(s <= x /\ x < e) PROVE In(f, x)
    <3>1. PICK j \in 1 .. Len(g) : g[j].start <= x /\ x < g[j].end
      BY <2>1 DEF In
    <3>2. j # i
      BY <1>3, <2>1, <3>1
    <3> QED BY <1>4, <3>1, <3>2 DEF In
  <2>2. ASSUME In(f, x) PROVE In(g, x)
    <3>1. PICK k \in 1 .. Len(f) : f[k].start <= x /\ x < f[k].end
      BY <2>2 DEF In
    <3>2. PICK j \in 1 .. Len(g) : j # i /\ Old(j) = k
      BY <1>7
    <3> QED BY <1>4, <3>1, <3>2 DEF In
  <2>3. ASSUME s <= x /\ x < e PROVE In(g, x)
    <3>1. i \in 1 .. Len(g)
      BY <1>0, <1>2
    <3> QED BY <1>3, <2>3, <3>1 DEF In
  <2> QED BY <2>1, <2>2, <2>3
<1> QED BY <1>2, <1>8, <1>9

-----------------------------------------------------------------------------
(* Taking and putting back *)

\* Taking s .. e - 1 out of a range that holds it: the rest stays sorted and
\* coalesced, and exactly s .. e - 1 is no longer free.
THEOREM CarveSound ==
    ASSUME NEW f \in Seq(Spans), Ordered(f), NEW i \in 1 .. Len(f),
           NEW s \in Int, NEW e \in Int, s < e,
           f[i].start <= s, e <= f[i].end,
           NEW g, g = Carve(f, i, s, e)
    PROVE  /\ g \in Seq(Spans)
           /\ Ordered(g)
           /\ Len(g) <= Len(f) + 1
           /\ ~NeedsSlot(f, i, s, e) => Len(g) <= Len(f)
           /\ \A x \in Int : In(g, x) <=> In(f, x) /\ ~(s <= x /\ x < e)
<1>0. /\ Len(f) \in Nat
      /\ \A j \in 1 .. Len(f) : f[j].start \in Int /\ f[j].end \in Int
  BY SpanFacts
<1> PICK a \in Int, b \in Int : f[i].start = a /\ f[i].end = b
  BY <1>0
<1>1. \A j \in 1 .. Len(f) : (j < i => f[j].end < a) /\ (j > i => b < f[j].start)
  BY DEF Ordered
<1>2. \A x \in Int : s <= x /\ x < e => In(f, x)
  BY <1>0 DEF In
<1>3. \A x \in Int : a <= x /\ x < b => In(f, x)
  BY <1>0 DEF In
<1>4. CASE ~HasPrefix(f, i, s) /\ ~HasSuffix(f, i, e)
  <2>1. g = remove_free(f, i)
    BY <1>4 DEF Carve
  <2>2. a = s /\ b = e
    BY <1>0, <1>4 DEF HasPrefix, HasSuffix
  <2>3. /\ g \in Seq(Spans) /\ Len(g) = Len(f) - 1 /\ Ordered(g)
        /\ \A x \in Int : In(g, x) <=> In(f, x) /\ ~(f[i].start <= x /\ x < f[i].end)
    BY <2>1, Removed
  <2> QED BY <1>0, <2>2, <2>3
<1>5. CASE ~HasPrefix(f, i, s) /\ HasSuffix(f, i, e)
  <2>1. g = resize(f, i, e, b)
    BY <1>5 DEF Carve
  <2>2. a = s /\ e < b
    BY <1>0, <1>5 DEF HasPrefix, HasSuffix
  <2>3. Clear(f, i, i + 1, e, b)
    BY <1>0, <1>1, <2>2 DEF Clear
  <2>4. /\ g \in Seq(Spans) /\ Len(g) = Len(f) /\ Ordered(g)
        /\ \A x \in Int : In(g, x) <=> \/ In(f, x) /\ ~(f[i].start <= x /\ x < f[i].end)
                                       \/ e <= x /\ x < b
    BY <2>1, <2>2, <2>3, Replaced
  <2> QED BY <1>0, <1>3, <2>2, <2>4
<1>6. CASE HasPrefix(f, i, s) /\ ~HasSuffix(f, i, e)
  <2>1. g = resize(f, i, a, s)
    BY <1>6 DEF Carve
  <2>2. a < s /\ e = b
    BY <1>0, <1>6 DEF HasPrefix, HasSuffix
  <2>3. Clear(f, i, i + 1, a, s)
    BY <1>0, <1>1, <2>2 DEF Clear
  <2>4. /\ g \in Seq(Spans) /\ Len(g) = Len(f) /\ Ordered(g)
        /\ \A x \in Int : In(g, x) <=> \/ In(f, x) /\ ~(f[i].start <= x /\ x < f[i].end)
                                       \/ a <= x /\ x < s
    BY <2>1, <2>2, <2>3, Replaced
  <2> QED BY <1>0, <1>3, <2>2, <2>4
<1>7. CASE HasPrefix(f, i, s) /\ HasSuffix(f, i, e)
  <2> PICK h : h = resize(f, i, a, s)
    OBVIOUS
  <2>1. g = insert_free(h, i + 1, Span(e, b))
    BY <1>7 DEF Carve
  <2>2. a < s /\ e < b
    BY <1>0, <1>7 DEF HasPrefix, HasSuffix
  <2>3. Clear(f, i, i + 1, a, s)
    BY <1>0, <1>1, <2>2 DEF Clear
  <2>4. /\ h \in Seq(Spans) /\ Len(h) = Len(f) /\ Ordered(h)
        /\ h[i].start = a /\ h[i].end = s
        /\ \A x \in Int : In(h, x) <=> \/ In(f, x) /\ ~(f[i].start <= x /\ x < f[i].end)
                                       \/ a <= x /\ x < s
    BY <2>2, <2>3, Replaced
  <2>5. \A j \in 1 .. Len(f) : j # i => h[j] = f[j]
    BY ReplaceFacts, SpanFacts, <1>0 DEF resize
  <2>6. Clear(h, i + 1, i + 1, e, b)
    BY <1>0, <1>1, <2>2, <2>4, <2>5 DEF Clear
  <2>7. i + 1 \in 1 .. Len(h) + 1
    BY <1>0, <2>4
  <2>8. /\ g \in Seq(Spans) /\ Len(g) = Len(h) + 1 /\ Ordered(g)
        /\ \A x \in Int : In(g, x) <=> In(h, x) \/ (e <= x /\ x < b)
    <3>1. h \in Seq(Spans) /\ Ordered(h)
      BY <2>4
    <3> PICK n \in 1 .. Len(h) + 1 : n = i + 1
      BY <2>7
    <3>2. Clear(h, n, n, e, b) /\ g = insert_free(h, n, Span(e, b))
      BY <2>1, <2>6
    <3> QED BY <2>2, <3>1, <3>2, Inserted
  <2>9. \A x \in Int : In(g, x) <=> In(f, x) /\ ~(s <= x /\ x < e)
    BY <1>0, <1>3, <2>2, <2>4, <2>8
  <2>10. NeedsSlot(f, i, s, e)
    BY <1>7 DEF NeedsSlot
  <2> QED BY <2>4, <2>8, <2>9, <2>10
<1> QED
  BY <1>4, <1>5, <1>6, <1>7

\* Putting s .. e - 1 back at its slot, when it meets no free range: the table
\* stays sorted and coalesced, and exactly s .. e - 1 becomes free.
THEOREM ReleaseSound ==
    ASSUME NEW f \in Seq(Spans), Ordered(f), NEW i \in 1 .. Len(f) + 1,
           NEW s \in Int, NEW e \in Int, s < e,
           IsSlot(f, s, i), ~Overlaps(f, i, s, e),
           NEW g, g = Release(f, i, s, e)
    PROVE  /\ g \in Seq(Spans)
           /\ Ordered(g)
           /\ Len(g) <= Len(f) + 1
           /\ MergesLeft(f, i, s) \/ MergesRight(f, i, e) => Len(g) <= Len(f)
           /\ \A x \in Int : In(g, x) <=> In(f, x) \/ (s <= x /\ x < e)
<1>0. /\ Len(f) \in Nat
      /\ \A j \in 1 .. Len(f) : f[j].start \in Int /\ f[j].end \in Int
  BY SpanFacts
<1>1. /\ \A j \in 1 .. Len(f) : f[j].start < f[j].end
      /\ \A j, k \in 1 .. Len(f) : j < k => f[j].end < f[k].start
  BY DEF Ordered
<1>2. i > 1 => i - 1 \in 1 .. Len(f) /\ f[i - 1].end <= s
  BY <1>0 DEF Overlaps
<1>3. i <= Len(f) => i \in 1 .. Len(f) /\ e <= f[i].start
  BY <1>0 DEF Overlaps
<1>4. CASE MergesLeft(f, i, s) /\ MergesRight(f, i, e)
  <2>1. i - 1 \in 1 .. Len(f) /\ i \in 1 .. Len(f) /\ f[i - 1].end = s /\ f[i].start = e
    BY <1>2, <1>3, <1>4 DEF MergesLeft, MergesRight
  <2> PICK p \in 1 .. Len(f) : p = i - 1
    BY <2>1
  <2> PICK a \in Int, b \in Int : f[p].start = a /\ f[i].end = b
    BY <1>0, <2>1
  <2>2. f[p].end = s /\ f[i].start = e /\ a < s /\ e < b /\ a < b
    BY <1>1, <2>1
  <2>m. PICK m \in Seq(Spans) : m = remove_free(f, i)
    BY <2>1, Removed
  <2>3. /\ Len(m) = Len(f) - 1 /\ Ordered(m)
        /\ \A x \in Int : In(m, x) <=> In(f, x) /\ ~(f[i].start <= x /\ x < f[i].end)
    BY <2>1, <2>m, Removed, ZenonT(60)
  <2>4. \A j \in 1 .. Len(f) - 1 : (j < i => m[j] = f[j]) /\ (j >= i => m[j] = f[j + 1])
    BY <2>1, <2>m, RemoveFacts, ZenonT(60)
  <2>5. p \in 1 .. Len(m) /\ m[p].start = a /\ m[p].end = s
    BY <1>0, <2>1, <2>2, <2>3, <2>4
  <2>6. Clear(m, p, p + 1, a, b)
    <3>1. ASSUME NEW j \in 1 .. Len(m), j < p PROVE m[j].end < a
      <4>1. j \in 1 .. Len(f) - 1 /\ j \in 1 .. Len(f) /\ j < i
        BY <1>0, <2>3, <3>1
      <4>2. m[j] = f[j]
        BY <2>4, <4>1
      <4> QED BY <1>1, <3>1, <4>1, <4>2
    <3>2. ASSUME NEW j \in 1 .. Len(m), j >= p + 1 PROVE b < m[j].start
      <4>1. j \in 1 .. Len(f) - 1 /\ j >= i /\ j + 1 \in 1 .. Len(f) /\ i < j + 1
        BY <1>0, <2>3, <3>2
      <4>2. m[j] = f[j + 1]
        BY <2>4, <4>1
      <4>3. f[i].end < f[j + 1].start
        BY <1>1, <2>1, <4>1
      <4> QED BY <4>2, <4>3
    <3> QED BY <3>1, <3>2 DEF Clear
  <2>7. g = resize(m, p, a, b)
    <3>1. g = remove_free(resize(f, p, a, b), i)
      BY <1>4 DEF Release
    <3>h. PICK h : h = resize(f, p, a, b)
      OBVIOUS
    <3>2. /\ h \in Seq(Spans) /\ Len(h) = Len(f) /\ h[p] = Span(a, b)
          /\ \A j \in 1 .. Len(f) : j # p => h[j] = f[j]
      BY <3>h, ReplaceFacts, SpanFacts DEF resize
    <3>3. /\ g \in Seq(Spans) /\ Len(g) = Len(f) - 1
          /\ \A j \in 1 .. Len(f) - 1 : (j < i => g[j] = h[j]) /\ (j >= i => g[j] = h[j + 1])
      <4>1. i \in 1 .. Len(h) /\ g = remove_free(h, i)
        BY <2>1, <3>1, <3>2, <3>h
      <4>2. h \in Seq(Spans)
        BY <3>2
      <4>3. /\ remove_free(h, i) \in Seq(Spans)
            /\ Len(remove_free(h, i)) = Len(h) - 1
            /\ \A j \in 1 .. Len(h) - 1 :
                  /\ j < i => remove_free(h, i)[j] = h[j]
                  /\ j >= i => remove_free(h, i)[j] = h[j + 1]
        BY <4>1, <4>2, RemoveFacts, ZenonT(60)
      <4> QED BY <3>2, <4>1, <4>3
    <3>k. PICK k : k = resize(m, p, a, b)
      OBVIOUS
    <3>4. /\ k \in Seq(Spans) /\ Len(k) = Len(m) /\ k[p] = Span(a, b)
          /\ \A j \in 1 .. Len(m) : j # p => k[j] = m[j]
      BY <2>5, <3>k, ReplaceFacts, SpanFacts DEF resize
    <3>5. ASSUME NEW j \in 1 .. Len(f) - 1 PROVE g[j] = k[j]
      <4>1. CASE j < p
        <5>1. j < i /\ j \in 1 .. Len(f) /\ j \in 1 .. Len(m) /\ j # p
          BY <1>0, <2>3, <4>1
        <5> QED BY <2>4, <3>2, <3>3, <3>4, <5>1, ZenonT(60)
      <4>2. CASE j = p
        <5>1. j < i
          BY <1>0, <4>2
        <5> QED BY <3>2, <3>3, <3>4, <4>2, <5>1
      <4>3. CASE j > p
        <5>1. j >= i /\ j + 1 \in 1 .. Len(f) /\ j \in 1 .. Len(m) /\ j + 1 # p /\ j # p
          BY <1>0, <2>3, <4>3
        <5>2. g[j] = h[j + 1] /\ h[j + 1] = f[j + 1]
          BY <3>2, <3>3, <5>1
        <5>3. k[j] = m[j] /\ m[j] = f[j + 1]
          BY <2>4, <3>4, <5>1
        <5> QED BY <5>2, <5>3
      <4> QED BY <1>0, <4>1, <4>2, <4>3
    <3>6. Len(g) = Len(k) /\ Len(g) \in Nat /\ \A j \in 1 .. Len(g) : g[j] = k[j]
      BY <1>0, <2>3, <3>3, <3>4, <3>5
    <3>7. g \in Seq(Spans) /\ k \in Seq(Spans)
      BY <3>3, <3>4
    <3> QED BY <3>6, <3>7, <3>k, SameElements, ZenonT(60)
  <2>8. /\ g \in Seq(Spans) /\ Len(g) = Len(m) /\ Ordered(g)
        /\ \A x \in Int : In(g, x) <=> \/ In(m, x) /\ ~(m[p].start <= x /\ x < m[p].end)
                                       \/ a <= x /\ x < b
    <3>1. p \in 1 .. Len(m) /\ Ordered(m) /\ a < b
      BY <2>2, <2>3, <2>5
    <3> QED BY <2>6, <2>7, <3>1, Replaced
  <2>9. \A x \in Int : (a <= x /\ x < s) \/ (e <= x /\ x < b) => In(f, x)
    BY <2>1, <2>2 DEF In
  <2>10. \A x \in Int : In(g, x) <=> In(f, x) \/ (s <= x /\ x < e)
    BY <2>2, <2>3, <2>5, <2>8, <2>9
  <2> QED BY <1>0, <2>3, <2>8, <2>10
<1>5. CASE MergesLeft(f, i, s) /\ ~MergesRight(f, i, e)
  <2>1. i - 1 \in 1 .. Len(f) /\ f[i - 1].end = s
    BY <1>2, <1>5 DEF MergesLeft
  <2> PICK a \in Int, p \in 1 .. Len(f) : f[p].start = a /\ p = i - 1
    BY <1>0, <2>1
  <2>2. g = resize(f, p, a, e)
    BY <1>5 DEF Release
  <2>3. i <= Len(f) => e < f[i].start
    BY <1>0, <1>3, <1>5 DEF MergesRight
  <2>4. Clear(f, p, p + 1, a, e)
    <3>1. ASSUME NEW j \in 1 .. Len(f), j < p PROVE f[j].end < a
      BY <1>1, <3>1
    <3>2. ASSUME NEW j \in 1 .. Len(f), j >= p + 1 PROVE e < f[j].start
      <4>1. i \in 1 .. Len(f) /\ j >= i
        BY <1>0, <3>2
      <4>2. CASE j = i
        BY <2>3, <4>1, <4>2
      <4>3. CASE j > i
        <5>1. f[i].end < f[j].start /\ f[i].start < f[i].end
          BY <1>1, <4>1, <4>3
        <5> QED BY <1>0, <2>3, <4>1, <5>1
      <4> QED BY <4>1, <4>2, <4>3
    <3> QED BY <3>1, <3>2 DEF Clear
  <2>5. a < s
    BY <1>1, <2>1
  <2>6. /\ g \in Seq(Spans) /\ Len(g) = Len(f) /\ Ordered(g)
        /\ \A x \in Int : In(g, x) <=> \/ In(f, x) /\ ~(f[p].start <= x /\ x < f[p].end)
                                       \/ a <= x /\ x < e
    BY <2>2, <2>4, <2>5, Replaced
  <2>7. \A x \in Int : a <= x /\ x < s => In(f, x)
    BY <2>1 DEF In
  <2>8. \A x \in Int : In(g, x) <=> In(f, x) \/ (s <= x /\ x < e)
    BY <2>1, <2>5, <2>6, <2>7
  <2> QED BY <1>0, <2>6, <2>8
<1>6. CASE ~MergesLeft(f, i, s) /\ MergesRight(f, i, e)
  <2>1. i \in 1 .. Len(f) /\ f[i].start = e
    BY <1>3, <1>6 DEF MergesRight
  <2> PICK b \in Int, p \in 1 .. Len(f) : f[p].end = b /\ p = i
    BY <1>0, <2>1
  <2>2. g = resize(f, p, s, b)
    BY <1>6 DEF Release
  <2>3. i > 1 => f[i - 1].end < s
    BY <1>0, <1>2, <1>6 DEF MergesLeft
  <2>4. Clear(f, p, p + 1, s, b)
    <3>1. ASSUME NEW j \in 1 .. Len(f), j < p PROVE f[j].end < s
      <4>1. i - 1 \in 1 .. Len(f) /\ j <= i - 1 /\ i > 1
        BY <1>0, <3>1
      <4>2. CASE j = i - 1
        BY <2>3, <4>1, <4>2
      <4>3. CASE j < i - 1
        <5>1. f[j].end < f[i - 1].start /\ f[i - 1].start < f[i - 1].end
          BY <1>1, <4>1, <4>3
        <5> QED BY <1>0, <2>3, <4>1, <5>1
      <4> QED BY <4>1, <4>2, <4>3
    <3>2. ASSUME NEW j \in 1 .. Len(f), j >= p + 1 PROVE b < f[j].start
      BY <1>1, <3>2
    <3> QED BY <3>1, <3>2 DEF Clear
  <2>5. e < b
    BY <1>1, <2>1
  <2>6. /\ g \in Seq(Spans) /\ Len(g) = Len(f) /\ Ordered(g)
        /\ \A x \in Int : In(g, x) <=> \/ In(f, x) /\ ~(f[p].start <= x /\ x < f[p].end)
                                       \/ s <= x /\ x < b
    BY <2>2, <2>4, <2>5, Replaced
  <2>7. \A x \in Int : e <= x /\ x < b => In(f, x)
    BY <2>1 DEF In
  <2>8. \A x \in Int : In(g, x) <=> In(f, x) \/ (s <= x /\ x < e)
    BY <2>1, <2>5, <2>6, <2>7
  <2> QED BY <1>0, <2>6, <2>8
<1>7. CASE ~MergesLeft(f, i, s) /\ ~MergesRight(f, i, e)
  <2>1. g = insert_free(f, i, Span(s, e))
    BY <1>7 DEF Release
  <2>2. ASSUME NEW j \in 1 .. Len(f), j < i PROVE f[j].end < s
    <3>1. i - 1 \in 1 .. Len(f) /\ j <= i - 1 /\ f[i - 1].end < s
      BY <1>0, <1>2, <1>7, <2>2 DEF MergesLeft
    <3>2. CASE j < i - 1
      <4>1. f[j].end < f[i - 1].start /\ f[i - 1].start < f[i - 1].end
        BY <1>1, <3>1, <3>2
      <4> QED BY <1>0, <3>1, <4>1
    <3> QED BY <3>1, <3>2
  <2>3. ASSUME NEW j \in 1 .. Len(f), j >= i PROVE e < f[j].start
    <3>1. i \in 1 .. Len(f) /\ e < f[i].start
      BY <1>0, <1>3, <1>7, <2>3 DEF MergesRight
    <3>2. CASE j > i
      <4>1. f[i].end < f[j].start /\ f[i].start < f[i].end
        BY <1>1, <3>1, <3>2
      <4> QED BY <1>0, <3>1, <4>1
    <3> QED BY <2>3, <3>1, <3>2
  <2>4. Clear(f, i, i, s, e)
    BY <2>2, <2>3 DEF Clear
  <2> QED BY <1>0, <1>7, <2>1, <2>4, Inserted
<1> QED
  BY <1>4, <1>5, <1>6, <1>7

\* The end of a range is in no range: coalesced ranges do not touch.
LEMMA EndNotIn ==
    ASSUME NEW f \in Seq(Spans), Ordered(f), NEW k \in 1 .. Len(f), NEW b, b = f[k].end
    PROVE  ~In(f, b)
<1> SUFFICES ASSUME NEW j \in 1 .. Len(f), f[j].start <= b, b < f[j].end PROVE FALSE
  BY DEF In
<1>0. /\ f[j].start \in Int /\ f[j].end \in Int /\ f[k].start \in Int /\ f[k].end \in Int
      /\ f[k].start < f[k].end
  BY SpanFacts DEF Ordered
<1>1. CASE j < k
  BY <1>0, <1>1 DEF Ordered
<1>2. CASE j > k
  BY <1>0, <1>2 DEF Ordered
<1>3. CASE j = k
  BY <1>0, <1>3
<1> QED BY <1>1, <1>2, <1>3

-----------------------------------------------------------------------------
(* Alignment *)

\* Every range starts and ends in S.
Ends(f, S) == \A j \in 1 .. Len(f) : f[j].start \in S /\ f[j].end \in S

\* Resizing a range to ends in S keeps all ends in S.
LEMMA ResizeEnds ==
    ASSUME NEW f \in Seq(Spans), NEW i \in 1 .. Len(f), NEW S, Ends(f, S),
           NEW s \in Int, s \in S, NEW e \in Int, e \in S,
           NEW g, g = resize(f, i, s, e)
    PROVE  g \in Seq(Spans) /\ Len(g) = Len(f) /\ Ends(g, S)
<1>1. Span(s, e) \in Spans /\ Span(s, e).start = s /\ Span(s, e).end = e
  BY SpanFacts
<1>2. /\ g \in Seq(Spans) /\ Len(g) = Len(f) /\ g[i] = Span(s, e)
      /\ \A j \in 1 .. Len(f) : j # i => g[j] = f[j]
  BY <1>1, ReplaceFacts DEF resize
<1> QED BY <1>1, <1>2 DEF Ends

\* remove_free brings in no new end.
LEMMA RemoveEnds ==
    ASSUME NEW f \in Seq(Spans), NEW i \in 1 .. Len(f), NEW S, Ends(f, S),
           NEW g, g = remove_free(f, i)
    PROVE  Ends(g, S)
<1>1. /\ Len(g) = Len(f) - 1 /\ Len(f) \in Nat
      /\ \A j \in 1 .. Len(f) - 1 : (j < i => g[j] = f[j]) /\ (j >= i => g[j] = f[j + 1])
  BY RemoveFacts
<1>2. ASSUME NEW j \in 1 .. Len(g) PROVE g[j].start \in S /\ g[j].end \in S
  <2>1. CASE j < i
    BY <1>1, <2>1 DEF Ends
  <2>2. CASE j >= i
    <3>1. j + 1 \in 1 .. Len(f) /\ g[j] = f[j + 1]
      BY <1>1, <2>2
    <3> QED BY <3>1 DEF Ends
  <2> QED BY <1>1, <2>1, <2>2
<1> QED BY <1>2 DEF Ends

\* insert_free brings in only the ends of the new range.
LEMMA InsertEnds ==
    ASSUME NEW f \in Seq(Spans), NEW i \in 1 .. Len(f) + 1, NEW S, Ends(f, S),
           NEW s \in Int, s \in S, NEW e \in Int, e \in S,
           NEW g, g = insert_free(f, i, Span(s, e))
    PROVE  Ends(g, S)
<1>1. Span(s, e) \in Spans /\ Span(s, e).start = s /\ Span(s, e).end = e
  BY SpanFacts
<1>2. /\ Len(g) = Len(f) + 1 /\ Len(f) \in Nat
      /\ \A j \in 1 .. Len(f) + 1 :
            (j < i => g[j] = f[j]) /\ (j = i => g[j] = Span(s, e)) /\ (j > i => g[j] = f[j - 1])
  BY <1>1, InsertFacts
<1>3. ASSUME NEW j \in 1 .. Len(g) PROVE g[j].start \in S /\ g[j].end \in S
  <2>1. CASE j < i
    BY <1>2, <2>1 DEF Ends
  <2>2. CASE j = i
    BY <1>1, <1>2, <2>2
  <2>3. CASE j > i
    BY <1>2, <2>3 DEF Ends
  <2> QED BY <1>2, <2>1, <2>2, <2>3
<1> QED BY <1>3 DEF Ends

\* Taking a range out leaves no end that was not there, but for its own.
LEMMA CarveEnds ==
    ASSUME NEW f \in Seq(Spans), NEW i \in 1 .. Len(f), NEW S, Ends(f, S),
           NEW s \in Int, s \in S, NEW e \in Int, e \in S,
           NEW g, g = Carve(f, i, s, e)
    PROVE  Ends(g, S)
<1>0. /\ Len(f) \in Nat
      /\ \A j \in 1 .. Len(f) : f[j].start \in Int /\ f[j].end \in Int
  BY SpanFacts
<1>a. PICK a \in Int, b \in Int : f[i].start = a /\ f[i].end = b /\ a \in S /\ b \in S
  BY <1>0 DEF Ends
<1>1. CASE ~HasPrefix(f, i, s) /\ ~HasSuffix(f, i, e)
  <2>1. g = remove_free(f, i)
    BY <1>1 DEF Carve
  <2> QED BY <2>1, RemoveEnds
<1>2. CASE ~HasPrefix(f, i, s) /\ HasSuffix(f, i, e)
  <2>1. g = resize(f, i, e, b)
    BY <1>2, <1>a DEF Carve
  <2> QED BY <1>a, <2>1, ResizeEnds
<1>3. CASE HasPrefix(f, i, s) /\ ~HasSuffix(f, i, e)
  <2>1. g = resize(f, i, a, s)
    BY <1>3, <1>a DEF Carve
  <2> QED BY <1>a, <2>1, ResizeEnds
<1>4. CASE HasPrefix(f, i, s) /\ HasSuffix(f, i, e)
  <2>1. PICK h : h = resize(f, i, a, s)
    OBVIOUS
  <2>2. h \in Seq(Spans) /\ Len(h) = Len(f) /\ Ends(h, S)
    BY <1>a, <2>1, ResizeEnds
  <2>3. g = insert_free(h, i + 1, Span(e, b))
    BY <1>4, <1>a, <2>1 DEF Carve
  <2>4. i + 1 \in 1 .. Len(h) + 1
    BY <1>0, <2>2
  <2> QED BY <1>a, <2>2, <2>3, <2>4, InsertEnds
<1> QED BY <1>1, <1>2, <1>3, <1>4

\* The same for putting one back.
LEMMA ReleaseEnds ==
    ASSUME NEW f \in Seq(Spans), NEW i \in 1 .. Len(f) + 1, NEW S, Ends(f, S),
           NEW s \in Int, s \in S, NEW e \in Int, e \in S,
           NEW g, g = Release(f, i, s, e)
    PROVE  Ends(g, S)
<1>0. /\ Len(f) \in Nat
      /\ \A j \in 1 .. Len(f) : /\ f[j].start \in Int /\ f[j].end \in Int
                                /\ f[j].start \in S /\ f[j].end \in S
  BY SpanFacts DEF Ends
<1>1. MergesLeft(f, i, s) => i - 1 \in 1 .. Len(f)
  BY <1>0 DEF MergesLeft
<1>2. MergesRight(f, i, e) => i \in 1 .. Len(f)
  BY <1>0 DEF MergesRight
<1>3. CASE MergesLeft(f, i, s) /\ MergesRight(f, i, e)
  <2>1. PICK p \in 1 .. Len(f), a \in Int, b \in Int :
           p = i - 1 /\ f[i - 1].start = a /\ f[i].end = b /\ a \in S /\ b \in S
    BY <1>0, <1>1, <1>2, <1>3
  <2>2. PICK h : h = resize(f, p, a, b)
    OBVIOUS
  <2>a. a \in S /\ b \in S
    BY <2>1
  <2>3. h \in Seq(Spans) /\ Len(h) = Len(f) /\ Ends(h, S)
    BY <2>a, <2>2, ResizeEnds
  <2>4. g = remove_free(h, i)
    BY <1>3, <2>1, <2>2 DEF Release
  <2>5. i \in 1 .. Len(h)
    BY <1>0, <1>2, <1>3, <2>3
  <2> QED BY <2>3, <2>4, <2>5, RemoveEnds
<1>4. CASE MergesLeft(f, i, s) /\ ~MergesRight(f, i, e)
  <2>1. PICK p \in 1 .. Len(f), a \in Int : p = i - 1 /\ f[i - 1].start = a /\ a \in S
    BY <1>0, <1>1, <1>4
  <2>2. g = resize(f, p, a, e)
    BY <1>4, <2>1 DEF Release
  <2> QED BY <2>1, <2>2, ResizeEnds
<1>5. CASE ~MergesLeft(f, i, s) /\ MergesRight(f, i, e)
  <2>1. PICK p \in 1 .. Len(f), b \in Int : p = i /\ f[i].end = b /\ b \in S
    BY <1>0, <1>2, <1>5
  <2>2. g = resize(f, p, s, b)
    BY <1>5, <2>1 DEF Release
  <2> QED BY <2>1, <2>2, ResizeEnds
<1>6. CASE ~MergesLeft(f, i, s) /\ ~MergesRight(f, i, e)
  <2>1. g = insert_free(f, i, Span(s, e))
    BY <1>6 DEF Release
  <2> QED BY <2>1, InsertEnds
<1> QED BY <1>3, <1>4, <1>5, <1>6

\* align_up rounds up to a multiple of the alignment.
LEMMA AlignUp ==
    ASSUME NEW v \in Int, NEW a \in Nat \ {0}
    PROVE  /\ align_up(v, a) \in Int
           /\ v <= align_up(v, a) /\ align_up(v, a) < v + a
           /\ align_up(v, a) % a = 0
<1>1. /\ 0 - v = a * ((0 - v) \div a) + ((0 - v) % a)
      /\ (0 - v) \div a \in Int
      /\ (0 - v) % a \in 0 .. a - 1
  OBVIOUS
<1>2. align_up(v, a) = a * (0 - ((0 - v) \div a))
  BY <1>1 DEF align_up
<1>3. ASSUME NEW q \in Int, NEW w \in Int, w = a * q PROVE w % a = 0
  BY <1>3
<1>4. align_up(v, a) % a = 0
  <2>1. 0 - ((0 - v) \div a) \in Int /\ align_up(v, a) \in Int
    BY <1>1 DEF align_up
  <2> QED BY <1>2, <1>3, <2>1
<1> QED BY <1>1, <1>4 DEF align_up

\* A range that starts at or above the end of all others is new to the table.
LEMMA AboveAll ==
    ASSUME NEW f \in Seq(Spans), NEW s \in Int, \A k \in 1 .. Len(f) : f[k].end <= s
    PROVE  \A x \in Int : s <= x => ~In(f, x)
<1> SUFFICES ASSUME NEW x \in Int, s <= x, NEW k \in 1 .. Len(f), x < f[k].end PROVE FALSE
  BY DEF In
<1>1. f[k].end \in Int /\ f[k].end <= s
  BY SpanFacts
<1> QED BY <1>1

\* Extending the range that ends at s adds s .. e - 1.
LEMMA Grown ==
    ASSUME NEW f \in Seq(Spans), Ordered(f), NEW p \in 1 .. Len(f),
           NEW a \in Int, NEW s \in Int, NEW e \in Int, a < s, s < e, a < e,
           f[p].start = a, f[p].end = s, Clear(f, p, p + 1, a, e),
           NEW g, g = resize(f, p, a, e)
    PROVE  \A x \in Int : In(g, x) <=> In(f, x) \/ (s <= x /\ x < e)
<1>1. /\ g \in Seq(Spans) /\ Len(g) = Len(f) /\ Ordered(g)
      /\ \A x \in Int : In(g, x) <=> \/ In(f, x) /\ ~(f[p].start <= x /\ x < f[p].end)
                                     \/ a <= x /\ x < e
  BY Replaced
<1>2. \A x \in Int : a <= x /\ x < s => In(f, x)
  BY DEF In
<1> QED BY <1>1, <1>2

\* A range whose slot has no overlap is not free.
LEMMA SlotFree ==
    ASSUME NEW f \in Seq(Spans), Ordered(f), NEW i \in 1 .. Len(f) + 1,
           NEW s \in Int, NEW e \in Int, IsSlot(f, s, i), ~Overlaps(f, i, s, e)
    PROVE  \A x \in Int : s <= x /\ x < e => ~In(f, x)
<1> SUFFICES ASSUME NEW x \in Int, s <= x, x < e,
                    NEW j \in 1 .. Len(f), f[j].start <= x, x < f[j].end
             PROVE  FALSE
  BY ZenonT(60) DEF In
<1>0. Len(f) \in Nat /\ \A k \in 1 .. Len(f) : f[k].start \in Int /\ f[k].end \in Int
  BY SpanFacts
<1>1. CASE j < i
  <2>1. i - 1 \in 1 .. Len(f) /\ f[i - 1].end <= s
    BY <1>0, <1>1 DEF Overlaps
  <2>2. f[j].end <= f[i - 1].end
    <3>1. CASE j = i - 1
      BY <1>0, <3>1
    <3>2. CASE j < i - 1
      <4>1. f[j].end < f[i - 1].start /\ f[i - 1].start < f[i - 1].end
        BY <2>1, <3>2 DEF Ordered
      <4> QED BY <1>0, <2>1, <4>1
    <3> QED BY <1>0, <1>1, <3>1, <3>2
  <2> QED BY <1>0, <2>1, <2>2
<1>2. CASE j >= i
  <2>1. i \in 1 .. Len(f) /\ f[i].start >= e
    BY <1>0, <1>2 DEF Overlaps
  <2>2. f[i].start <= f[j].start
    <3>1. CASE j = i
      BY <1>0, <3>1
    <3>2. CASE i < j
      <4>1. f[i].end < f[j].start /\ f[i].start < f[i].end
        BY <2>1, <3>2 DEF Ordered
      <4> QED BY <1>0, <2>1, <4>1
    <3> QED BY <1>0, <1>2, <3>1, <3>2
  <2> QED BY <1>0, <2>1, <2>2
<1> QED BY <1>0, <1>1, <1>2

\* Two multiples of A are at least A apart.
LEMMA Apart ==
    ASSUME NEW A \in Nat \ {0}, NEW x \in Int, NEW y \in Int, x % A = 0, y % A = 0, x < y
    PROVE  x + A <= y
<1>1. PICK u \in Int, w \in Int : x = A * u /\ y = A * w
  <2>1. x = A * (x \div A) /\ y = A * (y \div A) /\ x \div A \in Int /\ y \div A \in Int
    OBVIOUS
  <2> QED BY <2>1, ZenonT(60)
<1>2. u < w
  <2>1. ASSUME w <= u PROVE FALSE
    <3>1. PICK d \in Nat : u = w + d
      <4>1. u - w \in Nat /\ u = w + (u - w)
        BY <2>1
      <4> QED BY <4>1
    <3>2. A * u = A * w + A * d /\ A * d \in Nat /\ A * w \in Int
      BY <3>1
    <3> QED BY <1>1, <3>2
  <2> QED BY <2>1
<1>3. PICK d \in Nat : w = u + 1 + d
  <2>1. w - u - 1 \in Nat /\ w = u + 1 + (w - u - 1)
    BY <1>2
  <2> QED BY <2>1
<1>4. A * w = A * u + A + A * d /\ A * d \in Nat
  BY <1>3
<1> QED BY <1>1, <1>4

-----------------------------------------------------------------------------
(***************************************************************************)
(* For every heap, table size and mix of layouts: the kernel heap hands no *)
(* byte out twice and loses none, and its only panic is a full table.      *)
(***************************************************************************)

Block == [at : Int, size : Nat, align : Nat \ {0}]

\* Byte x belongs to block b.
Has(b, x) == b.at <= x /\ x < b.at + BlockBytes(b.size)

FreeSet(f) == {x \in Heap : In(f, x)}

HeapTableInv ==
    /\ heap_initialized \in BOOLEAN
    /\ heap_free \in Seq(Spans) /\ Len(heap_free) <= MAX_FREE_RANGES
    /\ Ordered(heap_free)
    /\ \A x \in Int : In(heap_free, x) => x \in Heap
    /\ ~heap_initialized => heap_free = <<>> /\ live = {}

BlockInv ==
    /\ live \subseteq Block
    /\ \A b \in live : b.at % b.align = 0
    /\ \A b \in live, x \in Int : Has(b, x) => x \in Heap /\ ~In(heap_free, x)
    /\ \A b, c \in live, x \in Int : Has(b, x) /\ Has(c, x) => b = c

HeapCountInv ==
    heap_initialized =>
        /\ \A x \in Heap : In(heap_free, x) \/ \E b \in live : Has(b, x)
        /\ heap_free_bytes = Cardinality(FreeSet(heap_free))

HeapInv == HeapTableInv /\ BlockInv /\ HeapCountInv

-----------------------------------------------------------------------------

\* Addresses are integers, and a block has at least one byte.
LEMMA BlockFacts ==
    /\ \A x \in Heap : x \in Int
    /\ \A z \in Nat : BlockBytes(z) \in Nat \ {0}
    /\ \A b \in Block : /\ b.at \in Int /\ b.size \in Nat /\ b.align \in Nat \ {0}
                        /\ BlockBytes(b.size) \in Nat \ {0}
BY HeapAssumption DEF Heap, BlockBytes, Block

\* Set Q of bytes is P and R, which have none in common.
Joins(Q, P, R) == Q \subseteq Heap /\ Q = P \cup R /\ P \cap R = {}

\* A range more in the free set is its length more in the count.
LEMMA HeapCounted ==
    ASSUME NEW P, NEW Q, NEW s \in Int, NEW e \in Int, s < e,
           NEW R, R = s .. e - 1,
           Joins(Q, P, R)
    PROVE  /\ Cardinality(P) \in Nat /\ Cardinality(Q) \in Nat
           /\ Cardinality(Q) = Cardinality(P) + (e - s)
           /\ Cardinality(Q) <= Size
<1>1. IsFiniteSet(Heap) /\ Cardinality(Heap) = Size
  BY FS_Interval, HeapAssumption DEF Heap
<1>2. IsFiniteSet(Q) /\ Cardinality(Q) <= Cardinality(Heap)
  BY <1>1, FS_Subset DEF Joins
<1>3. IsFiniteSet(P)
  BY <1>2, FS_Subset DEF Joins
<1>4. IsFiniteSet(R) /\ Cardinality(R) = e - s
  BY FS_Interval
<1>5. Cardinality(P \cap R) = 0
  BY FS_EmptySet DEF Joins
<1>6. Cardinality(Q) = Cardinality(P) + Cardinality(R) - Cardinality(P \cap R)
  BY <1>3, <1>4, FS_Union DEF Joins
<1>7. Cardinality(P) \in Nat /\ Cardinality(Q) \in Nat
  BY <1>2, <1>3, FS_CardinalityType
<1> QED BY <1>1, <1>2, <1>4, <1>5, <1>6, <1>7

\* Table f covers s .. e - 1 and what table g covers.
HeapAdds(f, g, s, e) ==
    /\ \A x \in Int : In(f, x) => x \in Heap
    /\ \A x \in Int : In(f, x) <=> In(g, x) \/ (s <= x /\ x < e)
    /\ \A x \in Int : s <= x /\ x < e => ~In(g, x)

\* Its count is larger by the length of the range.
LEMMA FreeCount ==
    ASSUME NEW f, NEW g, NEW s \in Int, NEW e \in Int, s < e, HeapAdds(f, g, s, e)
    PROVE  /\ Cardinality(FreeSet(f)) \in Nat /\ Cardinality(FreeSet(g)) \in Nat
           /\ Cardinality(FreeSet(f)) = Cardinality(FreeSet(g)) + (e - s)
           /\ Cardinality(FreeSet(f)) <= Size
<1>1. \A x : x \in FreeSet(f) <=> x \in Int /\ In(f, x)
  BY BlockFacts DEF FreeSet, HeapAdds
<1>2. \A x : x \in FreeSet(g) <=> x \in Int /\ In(g, x)
  BY BlockFacts DEF FreeSet, HeapAdds
<1>3. \A x : x \in s .. e - 1 <=> x \in Int /\ s <= x /\ x < e
  OBVIOUS
<1>4. FreeSet(f) = FreeSet(g) \cup (s .. e - 1)
  BY <1>1, <1>2, <1>3 DEF HeapAdds
<1>5. FreeSet(g) \cap (s .. e - 1) = {}
  BY <1>2, <1>3 DEF HeapAdds
<1>6. FreeSet(f) \subseteq Heap
  BY DEF FreeSet
<1>7. PICK P, Q, R : P = FreeSet(g) /\ Q = FreeSet(f) /\ R = s .. e - 1
  OBVIOUS
<1>8. Joins(Q, P, R)
  BY <1>4, <1>5, <1>6, <1>7 DEF Joins
<1>9. /\ Cardinality(P) \in Nat /\ Cardinality(Q) \in Nat
      /\ Cardinality(Q) = Cardinality(P) + (e - s) /\ Cardinality(Q) <= Size
  BY <1>7, <1>8, HeapCounted
<1> QED BY <1>7, <1>9

\* The count of any table is a number.
LEMMA FreeSetCount == ASSUME NEW f PROVE Cardinality(FreeSet(f)) \in Nat
<1>1. IsFiniteSet(Heap)
  BY FS_Interval, HeapAssumption DEF Heap
<1>2. FreeSet(f) \in SUBSET Heap
  BY DEF FreeSet
<1> QED BY <1>1, <1>2, FS_Subset, FS_CardinalityType

\* The block taken out of range i.
Cut(i, s, e, b) ==
    /\ i \in 1 .. Len(heap_free)
    /\ s \in Int /\ e \in Int /\ s < e
    /\ heap_free[i].start <= s /\ e <= heap_free[i].end
    /\ NeedsSlot(heap_free, i, s, e) => Len(heap_free) # MAX_FREE_RANGES
    /\ b \in Block /\ b.at = s /\ e = s + BlockBytes(b.size) /\ s % b.align = 0

-----------------------------------------------------------------------------
(* deallocate *)

\* The assertions of deallocate hold of every block that a caller holds.
LEMMA AssertionsHold ==
    ASSUME HeapInv, NEW b \in live, NEW s, s = b.at, NEW e, e = b.at + BlockBytes(b.size),
           NEW i \in 1 .. Len(heap_free) + 1, IsSlot(heap_free, s, i)
    PROVE  /\ s \in Int /\ e \in Int /\ s < e
           /\ Asserted(i, s, e)
<1>0. heap_free \in Seq(Spans) /\ Len(heap_free) \in Nat /\ heap_initialized
  BY DEF HeapInv, HeapTableInv
<1>1. s \in Int /\ e \in Int /\ s < e
  <2>1. b \in Block
    BY DEF HeapInv, BlockInv
  <2>2. b.at \in Int /\ BlockBytes(b.size) \in Nat \ {0}
    BY <2>1, BlockFacts
  <2> QED BY <2>2
<1>2. \A x \in Int : s <= x /\ x < e => x \in Heap /\ ~In(heap_free, x)
  BY DEF HeapInv, BlockInv, Has
<1>3. s \in Heap /\ e - 1 \in Heap /\ ~In(heap_free, s)
  BY <1>1, <1>2
<1>4. Start <= s /\ e <= Start + Size /\ e <= USIZE_MAX
  BY <1>1, <1>3, HeapAssumption DEF Heap
<1>5. \A j \in 1 .. Len(heap_free) : heap_free[j].start \in Int /\ heap_free[j].end \in Int /\ heap_free[j].start < heap_free[j].end
  BY <1>0, SpanFacts DEF HeapInv, HeapTableInv, Ordered
<1>6. ~(i > 1 /\ heap_free[i - 1].end > s)
  <2> SUFFICES ASSUME i > 1, heap_free[i - 1].end > s PROVE FALSE
    OBVIOUS
  <2>1. i - 1 \in 1 .. Len(heap_free) /\ i - 1 \in 1 .. i - 1
    BY <1>0
  <2>2. heap_free[i - 1].start < s
    BY <2>1 DEF IsSlot
  <2> QED BY <1>1, <1>3, <1>5, <2>1, <2>2 DEF In
<1>7. ~(i <= Len(heap_free) /\ heap_free[i].start < e)
  <2> SUFFICES ASSUME i <= Len(heap_free), heap_free[i].start < e PROVE FALSE
    OBVIOUS
  <2>1. i \in 1 .. Len(heap_free)
    BY <1>0
  <2>2. heap_free[i].start >= s
    BY DEF IsSlot
  <2>3. In(heap_free, heap_free[i].start)
    BY <1>5, <2>1 DEF In
  <2> QED BY <1>2, <1>5, <2>1, <2>2, <2>3
<1> QED BY <1>0, <1>1, <1>4, <1>6, <1>7 DEF Asserted, Overlaps

\* Putting a block back keeps the heap sound, and the count within the heap.
LEMMA PutInv ==
    ASSUME HeapInv, heap_initialized, heap_initialized', NEW b \in live, NEW s, s = b.at, NEW e, e = b.at + BlockBytes(b.size),
           NEW i \in 1 .. Len(heap_free) + 1, IsSlot(heap_free, s, i), HasSlot(i, s, e),
           heap_free' = Release(heap_free, i, s, e),
           heap_free_bytes' = heap_free_bytes + BlockBytes(b.size),
           live' = live \ {b}
    PROVE  HeapInv' /\ heap_free_bytes' <= Size
<1>0. /\ heap_free \in Seq(Spans) /\ Ordered(heap_free) /\ Len(heap_free) <= MAX_FREE_RANGES
      /\ Len(heap_free) \in Nat /\ MAX_FREE_RANGES \in Nat
      /\ \A x \in Int : In(heap_free, x) => x \in Heap
  BY HeapAssumption DEF HeapInv, HeapTableInv
<1>1. s \in Int /\ e \in Int /\ s < e /\ ~Overlaps(heap_free, i, s, e)
  BY AssertionsHold DEF Asserted
<1>2. /\ heap_free' \in Seq(Spans) /\ Ordered(heap_free') /\ Len(heap_free') <= Len(heap_free) + 1
      /\ MergesLeft(heap_free, i, s) \/ MergesRight(heap_free, i, e) => Len(heap_free') <= Len(heap_free)
      /\ \A x \in Int : In(heap_free', x) <=> In(heap_free, x) \/ (s <= x /\ x < e)
  BY <1>0, <1>1, ReleaseSound
<1>3. Len(heap_free') <= MAX_FREE_RANGES
  <2>1. Len(heap_free') \in Nat
    BY <1>2
  <2> QED BY <1>0, <1>2, <2>1 DEF HasSlot
<1>4. \A x \in Int : Has(b, x) <=> s <= x /\ x < e
  BY DEF Has
<1>5. \A x \in Int : s <= x /\ x < e => x \in Heap /\ ~In(heap_free, x)
  BY <1>4 DEF HeapInv, BlockInv
<1>6. HeapTableInv'
  BY <1>0, <1>2, <1>3, <1>5 DEF HeapTableInv
<1>7. BlockInv'
  <2>1. live' \subseteq Block /\ \A c \in live' : c.at % c.align = 0
    BY DEF HeapInv, BlockInv
  <2>2. \A c \in live', x \in Int : Has(c, x) => x \in Heap /\ ~In(heap_free', x)
    BY <1>2, <1>4 DEF HeapInv, BlockInv
  <2>3. \A c, d \in live', x \in Int : Has(c, x) /\ Has(d, x) => c = d
    BY DEF HeapInv, BlockInv
  <2> QED BY <2>1, <2>2, <2>3 DEF BlockInv
<1>8. HeapCountInv' /\ heap_free_bytes' <= Size
  <2>1. \A x \in Heap : In(heap_free', x) \/ \E c \in live' : Has(c, x)
    BY <1>2, <1>4, BlockFacts DEF HeapInv, HeapCountInv
  <2>4. /\ Cardinality(FreeSet(heap_free)) \in Nat
        /\ Cardinality(FreeSet(heap_free')) = Cardinality(FreeSet(heap_free)) + (e - s)
        /\ Cardinality(FreeSet(heap_free')) <= Size
    <3>1. \A x \in Int : In(heap_free', x) => x \in Heap
      BY <1>0, <1>2, <1>5
    <3>2. HeapAdds(heap_free', heap_free, s, e)
      BY <1>2, <1>5, <3>1 DEF HeapAdds
    <3> QED BY <1>1, <3>2, FreeCount
  <2>5. heap_free_bytes = Cardinality(FreeSet(heap_free))
    BY DEF HeapInv, HeapCountInv
  <2>6. BlockBytes(b.size) \in Nat /\ b.at \in Int
    BY BlockFacts DEF HeapInv, BlockInv
  <2>7. heap_free_bytes' = Cardinality(FreeSet(heap_free'))
    BY <1>1, <2>4, <2>5, <2>6
  <2> QED BY <2>1, <2>4, <2>7 DEF HeapCountInv
<1> QED BY <1>6, <1>7, <1>8 DEF HeapInv

\* A dealloc of a block that a caller holds either finds the table full or
\* puts the block back, and then passes the check of the counter.
LEMMA DeallocInv ==
    ASSUME HeapInv, NEW b \in live, dealloc(b) PROVE HeapInv' /\ (panicked' => Panic)
<1>0. heap_initialized
  BY DEF HeapInv, HeapTableInv
<1>1. PICK s, e : s = b.at /\ e = b.at + BlockBytes(b.size)
  OBVIOUS
<1>2. CASE Panic
  BY <1>2 DEF Panic, HeapInv, HeapTableInv, BlockInv, HeapCountInv
<1>3. CASE ~Panic
  <2>1. PICK i \in 1 .. Len(heap_free) + 1 :
           /\ IsSlot(heap_free, s, i) /\ HasSlot(i, s, e)
           /\ heap_free' = Release(heap_free, i, s, e)
           /\ heap_free_bytes' = heap_free_bytes + BlockBytes(b.size)
           /\ panicked' = (heap_free_bytes + BlockBytes(b.size) > USIZE_MAX \/ heap_free_bytes + BlockBytes(b.size) > Size)
           /\ live' = live \ {b}
           /\ UNCHANGED heap_initialized
    BY <1>1, <1>3 DEF dealloc
  <2>2. HeapInv' /\ heap_free_bytes' <= Size
    BY <1>0, <1>1, <2>1, PutInv
  <2>3. heap_free_bytes' \in Nat
    BY <1>0, <2>1, <2>2, FreeSetCount DEF HeapInv, HeapCountInv
  <2>4. Size \in Nat /\ USIZE_MAX \in Nat /\ Size <= USIZE_MAX
    BY HeapAssumption
  <2>5. ~(heap_free_bytes' > USIZE_MAX \/ heap_free_bytes' > Size)
    BY <2>2, <2>3, <2>4
  <2>6. panicked' = (heap_free_bytes' > USIZE_MAX \/ heap_free_bytes' > Size)
    BY <2>1
  <2>7. ~panicked'
    BY <2>5, <2>6, ZenonT(60)
  <2> QED BY <2>2, <2>7
<1> QED BY <1>2, <1>3

\* The inductive invariant of the heap.
THEOREM HeapInvHolds == HeapSpec => []HeapInv

\* Before heap_init there is nothing.
<0>HeapInitInv.
      HeapInit => HeapInv
  <1> SUFFICES ASSUME HeapInit PROVE HeapInv
    OBVIOUS
  <1>1. <<>> \in Seq(Spans) /\ Len(<<>>) = 0 /\ 0 <= MAX_FREE_RANGES /\ 1 .. 0 = {}
    BY HeapAssumption
  <1>2. Ordered(<<>>) /\ \A x \in Int : ~In(<<>>, x)
    BY <1>1 DEF Ordered, In
  <1> QED BY <1>1, <1>2, ZenonT(60) DEF HeapInit, HeapInv, HeapTableInv, BlockInv, HeapCountInv

\* After heap_init the heap is one free range.
<0>BootInv.
      ASSUME HeapInv, heap_init PROVE HeapInv'
  <1> USE <0>BootInv
  <1>1. PICK s \in Int, e \in Int : s = Start /\ e = Start + Size /\ s < e
    BY HeapAssumption
  <1>2. heap_free' = << Span(s, e) >>
    BY <1>1 DEF heap_init
  <1>3. /\ heap_free' \in Seq(Spans) /\ Len(heap_free') = 1
        /\ heap_free'[1].start = s /\ heap_free'[1].end = e
    BY <1>2, SpanFacts
  <1>4. Ordered(heap_free')
    BY <1>1, <1>3 DEF Ordered
  <1>5. \A x \in Int : In(heap_free', x) <=> x \in Heap
    BY <1>1, <1>3, HeapAssumption DEF In, Heap
  <1>6. heap_initialized' = TRUE /\ live' = {} /\ heap_free_bytes' = Size
    BY DEF heap_init, HeapInv, HeapTableInv
  <1>7. FreeSet(heap_free') = Heap
    BY <1>5, BlockFacts DEF FreeSet, Heap
  <1>8. Cardinality(Heap) = Size
    BY FS_Interval, HeapAssumption DEF Heap
  <1>9. HeapTableInv'
    BY <1>3, <1>4, <1>5, <1>6, HeapAssumption DEF HeapTableInv
  <1>10. BlockInv'
    BY <1>6 DEF BlockInv
  <1>11. HeapCountInv'
    BY <1>5, <1>6, <1>7, <1>8, BlockFacts DEF HeapCountInv
  <1> QED BY <1>9, <1>10, <1>11 DEF HeapInv

\* Cutting an aligned block out of a free range keeps the heap sound.
<0>CutInv.
      ASSUME HeapInv, heap_initialized, heap_initialized',
             NEW i, NEW s, NEW e, NEW b, Cut(i, s, e, b),
             heap_free' = Carve(heap_free, i, s, e),
             heap_free_bytes' = heap_free_bytes - BlockBytes(b.size),
             live' = live \cup {b}
      PROVE  HeapInv'
  <1> USE <0>CutInv
  <1>0. /\ heap_free \in Seq(Spans) /\ Ordered(heap_free) /\ Len(heap_free) <= MAX_FREE_RANGES
        /\ Len(heap_free) \in Nat /\ MAX_FREE_RANGES \in Nat
        /\ \A x \in Int : In(heap_free, x) => x \in Heap
    BY HeapAssumption DEF HeapInv, HeapTableInv
  <1>1. /\ i \in 1 .. Len(heap_free) /\ s \in Int /\ e \in Int /\ s < e
        /\ heap_free[i].start <= s /\ e <= heap_free[i].end
        /\ b \in Block /\ b.at = s /\ e = s + BlockBytes(b.size) /\ s % b.align = 0
    BY DEF Cut
  <1>2. /\ heap_free' \in Seq(Spans) /\ Ordered(heap_free') /\ Len(heap_free') <= Len(heap_free) + 1
        /\ ~NeedsSlot(heap_free, i, s, e) => Len(heap_free') <= Len(heap_free)
        /\ \A x \in Int : In(heap_free', x) <=> In(heap_free, x) /\ ~(s <= x /\ x < e)
    BY <1>0, <1>1, CarveSound
  <1>3. Len(heap_free') <= MAX_FREE_RANGES
    <2>1. Len(heap_free') \in Nat
      BY <1>2
    <2> QED BY <1>0, <1>2, <2>1 DEF Cut
  <1>4. \A x \in Int : s <= x /\ x < e => In(heap_free, x)
    <2>1. heap_free[i].start \in Int /\ heap_free[i].end \in Int
      BY <1>0, <1>1, SpanFacts
    <2> QED BY <1>1, <2>1 DEF In
  <1>5. \A x \in Int : Has(b, x) <=> s <= x /\ x < e
    BY <1>1 DEF Has
  <1>6. HeapTableInv'
    BY <1>0, <1>2, <1>3 DEF HeapTableInv
  <1>7. BlockInv'
    <2>1. live' \subseteq Block /\ \A c \in live' : c.at % c.align = 0
      BY <1>1 DEF HeapInv, BlockInv
    <2>2. \A c \in live', x \in Int : Has(c, x) => x \in Heap /\ ~In(heap_free', x)
      BY <1>0, <1>2, <1>4, <1>5 DEF HeapInv, BlockInv
    <2>3. \A c, d \in live', x \in Int : Has(c, x) /\ Has(d, x) => c = d
      BY <1>4, <1>5 DEF HeapInv, BlockInv
    <2> QED BY <2>1, <2>2, <2>3 DEF BlockInv
  <1>8. HeapCountInv'
    <2>1. \A x \in Heap : In(heap_free', x) \/ \E c \in live' : Has(c, x)
      BY <1>2, <1>5, BlockFacts DEF HeapInv, HeapCountInv
    <2>4. /\ Cardinality(FreeSet(heap_free')) \in Nat
          /\ Cardinality(FreeSet(heap_free)) = Cardinality(FreeSet(heap_free')) + (e - s)
      <3>1. \A x \in Int : In(heap_free, x) <=> In(heap_free', x) \/ (s <= x /\ x < e)
        BY <1>2, <1>4
      <3>2. \A x \in Int : s <= x /\ x < e => ~In(heap_free', x)
        BY <1>2
      <3>3. HeapAdds(heap_free, heap_free', s, e)
        BY <1>0, <3>1, <3>2 DEF HeapAdds
      <3> QED BY <1>1, <3>3, FreeCount
    <2>5. heap_free_bytes = Cardinality(FreeSet(heap_free))
      BY DEF HeapInv, HeapCountInv
    <2>6. BlockBytes(b.size) \in Nat
      BY <1>1, BlockFacts
    <2>7. heap_free_bytes' = Cardinality(FreeSet(heap_free'))
      BY <1>1, <2>4, <2>5, <2>6
    <2> QED BY <2>1, <2>7 DEF HeapCountInv
  <1> QED BY <1>6, <1>7, <1>8 DEF HeapInv

\* alloc either changes nothing or cuts a block.
<0>AllocInv.
      ASSUME HeapInv, NEW z \in Sizes, NEW a \in HeapAligns, alloc(z, a) PROVE HeapInv'
  <1> USE <0>AllocInv
  <1>1. CASE Null
    BY <1>1 DEF Null, HeapInv, HeapTableInv, BlockInv, HeapCountInv
  <1>2. CASE ~Null
    <2>1. PICK i \in 1 .. Len(heap_free) :
             LET s == align_up(heap_free[i].start, a)
             IN  /\ heap_initialized
                 /\ Usable(i, BlockBytes(z), a)
                 /\ heap_free' = Carve(heap_free, i, s, s + BlockBytes(z))
                 /\ heap_free_bytes' = heap_free_bytes - BlockBytes(z)
                 /\ live' = live \cup {[at |-> s, size |-> z, align |-> a]}
                 /\ UNCHANGED heap_initialized
      BY <1>2 DEF alloc
    <2>2. PICK s, e, b : /\ s = align_up(heap_free[i].start, a) /\ e = s + BlockBytes(z)
                         /\ b = [at |-> s, size |-> z, align |-> a]
      BY ZenonT(60)
    <2>3. z \in Nat /\ a \in Nat \ {0} /\ BlockBytes(z) \in Nat \ {0}
      BY HeapAssumption, BlockFacts
    <2>4. heap_free[i].start \in Int /\ heap_free[i].end \in Int
      BY SpanFacts DEF HeapInv, HeapTableInv
    <2>5. s \in Int /\ heap_free[i].start <= s /\ s % a = 0
      BY <2>2, <2>3, <2>4, AlignUp, ZenonT(60)
    <2>6. /\ e <= heap_free[i].end
          /\ ~(NeedsSlot(heap_free, i, s, e) /\ Len(heap_free) = MAX_FREE_RANGES)
      BY <2>1, <2>2, ZenonT(60) DEF Usable
    <2>7. b \in Block /\ b.at = s /\ b.size = z /\ b.align = a
      BY <2>2, <2>3, <2>5 DEF Block
    <2>8. Cut(i, s, e, b)
      BY <2>2, <2>3, <2>5, <2>6, <2>7 DEF Cut
    <2>9. /\ heap_free' = Carve(heap_free, i, s, e)
          /\ heap_free_bytes' = heap_free_bytes - BlockBytes(b.size)
          /\ live' = live \cup {b}
          /\ heap_initialized /\ heap_initialized'
      BY <2>1, <2>2, <2>7
    <2> QED BY <2>8, <2>9, <0>CutInv
  <1> QED BY <1>1, <1>2

\* Every step keeps the invariant.
<0>HeapNextInv.
      ASSUME HeapInv, [HeapNext]_heapVars PROVE HeapInv'
  <1> USE <0>HeapNextInv
  <1>1. CASE heap_init
    BY <1>1, <0>BootInv
  <1>2. ASSUME NEW z \in Sizes, NEW a \in HeapAligns, alloc(z, a) PROVE HeapInv'
    BY <1>2, <0>AllocInv
  <1>3. ASSUME NEW b \in live, dealloc(b) PROVE HeapInv'
    BY <1>3, DeallocInv
  <1>4. CASE UNCHANGED heapVars
    BY <1>4 DEF heapVars, HeapInv, HeapTableInv, BlockInv, HeapCountInv
  <1> QED BY <1>1, <1>2, <1>3, <1>4 DEF HeapNext
<0> QED
  <1>1. HeapInit => HeapInv
    BY <0>HeapInitInv
  <1>2. HeapInv /\ [HeapNext]_heapVars => HeapInv'
    BY <0>HeapNextInv
  <1> QED BY <1>1, <1>2, PTL DEF HeapSpec

\* Every byte of the heap is in exactly one block or free, whatever is allocated
\* and given back in whatever order.
THEOREM EveryByteOnceHolds == HeapSpec => []EveryByteOnce

\* No sequence of alloc and dealloc calls hands a byte out twice.
<0>NoByteTwiceHolds.
      HeapSpec => []NoByteTwice
  <1>1. HeapInv => NoByteTwice
    <2> SUFFICES ASSUME HeapInv, heap_initialized PROVE NoByteTwice
      BY DEF NoByteTwice
    <2>1. Ordered(heap_free) /\ Len(heap_free) <= MAX_FREE_RANGES
      BY DEF HeapInv, HeapTableInv
    <2>2. \A b \in live : \A x : x \in Within(b) <=> x \in Int /\ Has(b, x)
      BY BlockFacts DEF HeapInv, BlockInv, Within, Has
    <2>3. \A b \in live : b.at % b.align = 0
      BY DEF HeapInv, BlockInv
    <2>4. \A b \in live : Within(b) \subseteq Heap /\ \A x \in Within(b) : ~In(heap_free, x)
      BY <2>2 DEF HeapInv, BlockInv
    <2>5. \A b, c \in live : b # c => Within(b) \cap Within(c) = {}
      BY <2>2 DEF HeapInv, BlockInv
    <2> QED BY <2>1, <2>3, <2>4, <2>5 DEF NoByteTwice
  <1> QED BY <1>1, HeapInvHolds, PTL

\* No byte of the heap is lost, and free_bytes counts the free ones.
<0>NoByteLostHolds.
      HeapSpec => []NoByteLost
  <1>1. HeapInv => NoByteLost
    <2> SUFFICES ASSUME HeapInv, heap_initialized PROVE NoByteLost
      BY DEF NoByteLost
    <2>1. \A b \in live, x \in Int : Has(b, x) => x \in Within(b)
      BY BlockFacts DEF HeapInv, BlockInv, Within, Has
    <2>2. \A x \in Heap : In(heap_free, x) \/ \E b \in live : x \in Within(b)
      BY <2>1, BlockFacts DEF HeapInv, HeapCountInv
    <2>3. heap_free_bytes = Cardinality({x \in Heap : In(heap_free, x)})
      BY DEF HeapInv, HeapCountInv, FreeSet
    <2> QED BY <2>2, <2>3 DEF NoByteLost
  <1> QED BY <1>1, HeapInvHolds, PTL
<0> QED BY <0>NoByteTwiceHolds, <0>NoByteLostHolds, PTL DEF EveryByteOnce

\* deallocate has no way to panic but a full table.
THEOREM PanicOnlyIfFullHolds == HeapSpec => PanicOnlyIfFull

\* A block that merges with no free range has no free neighbour.
<0>Isolated.
      ASSUME NEW f \in Seq(Spans), Ordered(f), NEW s \in Int, NEW e \in Int, s < e,
             NEW i \in 1 .. Len(f) + 1, IsSlot(f, s, i), ~Overlaps(f, i, s, e),
             ~MergesLeft(f, i, s), ~MergesRight(f, i, e)
      PROVE  ~In(f, s - 1) /\ ~In(f, e)
  <1> USE <0>Isolated
  <1>0. /\ Len(f) \in Nat
        /\ \A j \in 1 .. Len(f) : f[j].start \in Int /\ f[j].end \in Int /\ f[j].start < f[j].end
        /\ \A j, k \in 1 .. Len(f) : j < k => f[j].end < f[k].start
    BY SpanFacts DEF Ordered
  <1>1. ASSUME NEW j \in 1 .. Len(f), j < i PROVE f[j].end < s
    <2>1. i - 1 \in 1 .. Len(f) /\ i - 1 \in 1 .. i - 1 /\ i > 1
      BY <1>0, <1>1
    <2>2. f[i - 1].end <= s /\ f[i - 1].end # s
      BY <1>0, <2>1 DEF Overlaps, MergesLeft
    <2>3. f[i - 1].end < s
      BY <1>0, <2>1, <2>2
    <2>4. j = i - 1 \/ f[j].end < f[i - 1].start
      BY <1>0, <1>1, <2>1
    <2> QED BY <1>0, <2>1, <2>3, <2>4
  <1>2. ASSUME NEW j \in 1 .. Len(f), j >= i PROVE e < f[j].start
    <2>1. i \in 1 .. Len(f) /\ i <= Len(f)
      BY <1>0, <1>2
    <2>2. e <= f[i].start /\ e # f[i].start
      BY <1>0, <2>1 DEF Overlaps, MergesRight
    <2>3. e < f[i].start
      BY <1>0, <2>1, <2>2
    <2>4. j = i \/ f[i].end < f[j].start
      BY <1>0, <1>2, <2>1
    <2> QED BY <1>0, <2>1, <2>3, <2>4
  <1>3. \A j \in 1 .. Len(f) : f[j].end < s \/ e < f[j].start
    <2>1. \A j \in 1 .. Len(f) : j < i \/ j >= i
      BY <1>0
    <2> QED BY <1>1, <1>2, <2>1
  <1>4. ASSUME NEW j \in 1 .. Len(f)
        PROVE  ~(f[j].start <= s - 1 /\ s - 1 < f[j].end) /\ ~(f[j].start <= e /\ e < f[j].end)
    <2>1. f[j].start \in Int /\ f[j].end \in Int /\ f[j].start < f[j].end
      BY <1>0
    <2>2. f[j].end < s \/ e < f[j].start
      BY <1>3
    <2> QED BY <2>1, <2>2
  <1> QED BY <1>4 DEF In
<0> QED
  <1>1. ASSUME HeapInv, NEW b \in live, dealloc(b), panicked' PROVE IsolatedAndFull
    <2>0. PICK s, e : s = b.at /\ e = b.at + BlockBytes(b.size)
      OBVIOUS
    <2>1. Panic /\ HeapInv'
      BY <1>1, DeallocInv
    <2>2. live' = live
      BY <2>1 DEF Panic
    <2>3. PICK i \in 1 .. Len(heap_free) + 1 :
             IsSlot(heap_free, s, i) /\ ~(Asserted(i, s, e) /\ HasSlot(i, s, e))
      BY <1>1, <2>0, <2>2, ZenonT(60) DEF dealloc
    <2>4. s \in Int /\ e \in Int /\ s < e /\ Asserted(i, s, e)
      BY <1>1, <2>0, <2>3, AssertionsHold
    <2>5. ~MergesLeft(heap_free, i, s) /\ ~MergesRight(heap_free, i, e) /\ ~(Len(heap_free) < MAX_FREE_RANGES)
      BY <2>3, <2>4 DEF HasSlot
    <2>6. heap_free \in Seq(Spans) /\ Ordered(heap_free) /\ Len(heap_free) <= MAX_FREE_RANGES
      BY <1>1 DEF HeapInv, HeapTableInv
    <2>7. Len(heap_free) = MAX_FREE_RANGES
      BY <2>5, <2>6, HeapAssumption
    <2>8. ~In(heap_free, s - 1) /\ ~In(heap_free, e)
      BY <2>3, <2>4, <2>5, <2>6, <0>Isolated DEF Asserted
    <2> QED BY <2>0, <2>7, <2>8 DEF IsolatedAndFull
  <1>2. ASSUME HeapInv, [HeapNext]_heapVars, panicked', ~panicked PROVE IsolatedAndFull
    <2>1. CASE heap_init
      BY <1>2, <2>1 DEF heap_init
    <2>2. ASSUME NEW z \in Sizes, NEW a \in HeapAligns, alloc(z, a) PROVE IsolatedAndFull
      BY <1>2, <2>2, ZenonT(60) DEF alloc, Null
    <2>3. ASSUME NEW b \in live, dealloc(b) PROVE IsolatedAndFull
      BY <1>1, <1>2, <2>3
    <2>4. CASE UNCHANGED heapVars
      BY <1>2, <2>4 DEF heapVars
    <2> QED BY <1>2, <2>1, <2>2, <2>3, <2>4 DEF HeapNext
  <1>3. HeapInv /\ [HeapNext]_heapVars => [panicked' /\ ~panicked => IsolatedAndFull]_heapVars
    BY <1>2
  <1> QED BY <1>3, HeapInvHolds, PTL DEF HeapSpec, PanicOnlyIfFull

\* alloc finds room whenever a range that it can cut has it.
THEOREM NullMeansNoRoomHolds == HeapSpec => NullMeansNoRoom

\* Bytes in a row that are all free are in one range: ranges never touch.
<0>OneRange.
      ASSUME NEW f \in Seq(Spans), Ordered(f), NEW x \in Int, NEW n \in Nat \ {0},
             \A y \in x .. x + n - 1 : In(f, y)
      PROVE  \E k \in 1 .. Len(f) : f[k].start <= x /\ x + n <= f[k].end
  <1> USE <0>OneRange
  <1>0. /\ Len(f) \in Nat
        /\ \A j \in 1 .. Len(f) : f[j].start \in Int /\ f[j].end \in Int
        /\ \A j, k \in 1 .. Len(f) : j < k => f[j].end < f[k].start
    <2>1. Len(f) \in Nat
      OBVIOUS
    <2>2. \A j \in 1 .. Len(f) : f[j].start \in Int /\ f[j].end \in Int
      BY SpanFacts
    <2>3. \A j, k \in 1 .. Len(f) : j < k => f[j].end < f[k].start
      BY <2>1, <2>2 DEF Ordered
    <2> QED BY <2>1, <2>2, <2>3
  <1>1. In(f, x)
    <2>1. x \in x .. x + n - 1
      OBVIOUS
    <2> QED BY <2>1
  <1>2. PICK k \in 1 .. Len(f) : f[k].start <= x /\ x < f[k].end
    BY <1>1 DEF In
  <1>3. ASSUME f[k].end < x + n PROVE FALSE
    <2>1. f[k].end \in x .. x + n - 1
      BY <1>0, <1>2, <1>3
    <2>2. In(f, f[k].end)
      BY <2>1
    <2>3. PICK j \in 1 .. Len(f) : f[j].start <= f[k].end /\ f[k].end < f[j].end
      BY <2>2 DEF In
    <2> QED BY <1>0, <1>2, <2>3
  <1> QED BY <1>0, <1>2, <1>3

\* The first multiple of a from v on is not above any other, and a sum that
\* rounding it up needs fits whenever one of them does.
<0>LeastMultiple.
      ASSUME NEW v \in Int, NEW x \in Int, NEW a \in HeapAligns, v <= x, x % a = 0, x <= USIZE_MAX
      PROVE  /\ align_up(v, a) \in Int /\ v <= align_up(v, a) /\ align_up(v, a) <= x
             /\ v + (a - 1) <= USIZE_MAX
  <1> USE <0>LeastMultiple
  <1>0. a \in Nat \ {0} /\ USIZE_MAX \in Nat /\ (USIZE_MAX + 1) % a = 0
    BY HeapAssumption
  <1> DEFINE m == align_up(v, a)
  <1>1. m \in Int /\ v <= m /\ m < v + a /\ m % a = 0
    BY <1>0, AlignUp, ZenonT(60)
  <1>2. m <= x
    <2>1. ASSUME x < m PROVE FALSE
      <3>1. x + a <= m
        BY <1>0, <1>1, <2>1, Apart
      <3> QED BY <1>0, <1>1, <3>1
    <2> QED BY <1>1, <2>1
  <1>3. m + a <= USIZE_MAX + 1
    <2>1. m < USIZE_MAX + 1 /\ USIZE_MAX + 1 \in Int
      BY <1>0, <1>1, <1>2
    <2> QED BY <1>0, <1>1, <2>1, Apart
  <1> QED BY <1>0, <1>1, <1>2, <1>3
<0> QED
  <1>1. ASSUME HeapInv, heap_initialized, NEW z \in Sizes, NEW a \in HeapAligns, alloc(z, a), returned' = "null",
               NEW x \in Heap, x % a = 0, \A y \in x .. x + BlockBytes(z) - 1 : In(heap_free, y)
        PROVE  Len(heap_free) = MAX_FREE_RANGES /\ In(heap_free, x - 1)
    <2> DEFINE n == BlockBytes(z)
    <2>0. n \in Nat \ {0} /\ x \in Int /\ x <= USIZE_MAX /\ a \in Nat \ {0}
      BY HeapAssumption, BlockFacts DEF Heap
    <2>1. heap_free \in Seq(Spans) /\ Ordered(heap_free) /\ Len(heap_free) \in Nat
      BY <1>1 DEF HeapInv, HeapTableInv
    <2>2. PICK k \in 1 .. Len(heap_free) : heap_free[k].start <= x /\ x + n <= heap_free[k].end
      BY <1>1, <2>0, <2>1, <0>OneRange, ZenonT(60)
    <2>3. x + n - 1 \in Heap
      <3>1. x + n - 1 \in x .. x + n - 1
        BY <2>0
      <3> QED BY <1>1, <2>0, <3>1 DEF HeapInv, HeapTableInv
    <2>4. x + n <= USIZE_MAX
      BY <2>0, <2>3, HeapAssumption DEF Heap
    <2>5. ASSUME NEW j \in 1 .. Len(heap_free), j <= k PROVE ~Overflows(heap_free[j], n, a)
      <3>1. heap_free[j].start \in Int /\ heap_free[j].start <= x
        <4>1. /\ heap_free[j].start \in Int /\ heap_free[j].end \in Int /\ heap_free[k].start \in Int
              /\ heap_free[j].start < heap_free[j].end
              /\ j < k => heap_free[j].end < heap_free[k].start
          BY <2>1, <2>2, SpanFacts DEF Ordered
        <4> QED BY <2>0, <2>2, <2>5, <4>1
      <3>2. /\ align_up(heap_free[j].start, a) \in Int /\ align_up(heap_free[j].start, a) <= x
            /\ heap_free[j].start + (a - 1) <= USIZE_MAX
        BY <1>1, <2>0, <3>1, <0>LeastMultiple
      <3>3. USIZE_MAX \in Nat
        BY HeapAssumption
      <3> QED BY <2>0, <2>4, <3>1, <3>2, <3>3 DEF Overflows
    <2>6. ~Usable(k, n, a)
      <3>1. CASE Reaches(Len(heap_free) + 1, n, a)
        BY <2>1, <3>1 DEF Reaches
      <3>2. ASSUME NEW i \in 1 .. Len(heap_free), Reaches(i, n, a), Overflows(heap_free[i], n, a)
            PROVE  ~Usable(k, n, a)
        <4>1. k < i
          BY <2>1, <2>5, <3>2
        <4> QED BY <2>1, <3>2, <4>1 DEF Reaches
      <3> QED BY <1>1, <3>1, <3>2 DEF alloc
    <2> DEFINE s == align_up(heap_free[k].start, a)
    <2>7. heap_free[k].start \in Int /\ heap_free[k].end \in Int
      BY <2>1, SpanFacts
    <2>8. s \in Int /\ heap_free[k].start <= s /\ s <= x
      BY <1>1, <2>0, <2>2, <2>7, <0>LeastMultiple
    <2>9. s + n <= heap_free[k].end
      BY <2>0, <2>2, <2>7, <2>8
    <2>10. NeedsSlot(heap_free, k, s, s + n) /\ Len(heap_free) = MAX_FREE_RANGES
      BY <2>6, <2>9, ZenonT(60) DEF Usable
    <2>11. heap_free[k].start <= x - 1 /\ x - 1 < heap_free[k].end
      BY <2>0, <2>2, <2>7, <2>8, <2>10 DEF NeedsSlot, HasPrefix
    <2> QED BY <2>10, <2>11 DEF In
  <1>2. HeapInv /\ [HeapNext]_heapVars => [NullOnlyIfNoRoom]_heapVars
    BY <1>1 DEF NullOnlyIfNoRoom, NoRoom
  <1> QED BY <1>2, HeapInvHolds, PTL DEF HeapSpec, NullMeansNoRoom
=============================================================================
