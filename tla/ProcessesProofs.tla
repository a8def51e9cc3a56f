--------------------------- MODULE ProcessesProofs ---------------------------
(***************************************************************************)
(* For every size of RAM, layout of the address space, image and argument  *)
(* of a system call: FramesOwnedOnce, CurrentRuns, KernelAndOwnPages and   *)
(* CopiesStayInUserPages always hold.                                      *)
(*                                                                         *)
(* None of them is inductive.  Inv adds where each frame comes from, so    *)
(* that a fresh one, or a device's, is nowhere else (Placed, Apart); how   *)
(* far mm::init and kernel_main have come, and what that says of the       *)
(* variables (MMPhase, ProcPhase); and that the tables a process is cloned *)
(* from hold no user page and are held, page by page, by those of every    *)
(* process (SpacesInv).  GuardInv is what the check of the guard pages of  *)
(* the heap needs, and what it establishes.                                *)
(***************************************************************************)
EXTENDS Processes, FiniteSetTheorems, WellFoundedInduction, TLAPS

\* A leaf that names no prover is for SMT, with time to spare on a busy machine.
USE SMTT(60)

\* Types of the parts of an address space.
Leaves ==
    [kind : {"kernel", "heap", "mmio", "user"}, frame : Int, writable : BOOLEAN]
Tables == UNION {[D -> Int] : D \in SUBSET Page}
Maps == UNION {[D -> Leaves] : D \in SUBSET Page}
SpaceType == [tables : Tables, map : Maps]

-----------------------------------------------------------------------------
(* The lowest frames *)

\* There is a least of any set of naturals.
LEMMA Least ==
    ASSUME NEW T, T \subseteq Nat, T # {}
    PROVE  \E m \in T : \A n \in T : m <= n
<1> DEFINE R == {ss \in Nat \X Nat : ss[1] < ss[2]}
<1>1. IsWellFoundedOn(R, Nat)
  BY NatLessThanWellFounded DEF OpToRel
<1> HIDE DEF R
<1>2. PICK x \in T : \A y \in T : ~(<<y, x>> \in R)
  BY <1>1, WFMin, ZenonT(60)
<1>3. \A y \in T : ~(y < x)
  BY <1>2, ZenonT(60) DEF R
<1> QED BY <1>3

\* It is what Min chooses.
LEMMA MinIn ==
    ASSUME NEW T, T \subseteq Nat, T # {}
    PROVE  Min(T) \in T /\ \A n \in T : Min(T) <= n
  BY Least, ZenonT(60) DEF Min

\* Any number of frames that are free, the lowest ones can be taken.
LEMMA Lowest ==
    ASSUME NEW F, F \subseteq Nat, IsFiniteSet(F), NEW n \in Nat, n <= Cardinality(F)
    PROVE  \E s \in kSubset(n, F) : \A f \in s, g \in F \ s : f < g
<1> DEFINE P(k) == \E s \in SUBSET F : Cardinality(s) = k /\ \A f \in s, g \in F \ s : f < g
           Bad == {k \in Nat : k <= Cardinality(F) /\ ~P(k)}
<1>1. P(0)
  BY FS_EmptySet
<1>2. ASSUME NEW k \in Nat, k + 1 <= Cardinality(F), P(k) PROVE P(k + 1)
  <2>1. PICK s \in SUBSET F : Cardinality(s) = k /\ \A f \in s, g \in F \ s : f < g
    BY <1>2
  <2>2. IsFiniteSet(s) /\ Cardinality(F) \in Nat
    BY FS_Subset, FS_CardinalityType, ZenonT(60)
  <2>3. F \ s # {}
    <3>1. s # F
      BY <1>2, <2>1, <2>2
    <3> QED BY <3>1, ZenonT(60)
  <2>4. PICK m \in F \ s : \A g \in F \ s : m <= g
    <3>1. F \ s \subseteq Nat
      OBVIOUS
    <3> QED BY <2>3, <3>1, Least, ZenonT(60)
  <2>5. Cardinality(s \cup {m}) = k + 1
    BY <2>1, <2>2, <2>4, FS_AddElement, ZenonT(60)
  <2>6. \A f \in s \cup {m}, g \in F \ (s \cup {m}) : f < g
    BY <2>1, <2>4
  <2> QED BY <2>4, <2>5, <2>6
<1>3. Bad = {}
  <2> SUFFICES ASSUME Bad # {} PROVE FALSE
    OBVIOUS
  <2>1. Bad \subseteq Nat
    OBVIOUS
  <2>2. PICK k \in Bad : \A j \in Bad : k <= j
    <3> HIDE DEF Bad
    <3> QED BY <2>1, Least, ZenonT(60)
  <2>3. k \in Nat /\ k <= Cardinality(F) /\ ~P(k) /\ Cardinality(F) \in Nat
    BY FS_CardinalityType
  <2>4. k # 0
    BY <1>1, <2>3
  <2>5. k - 1 \in Nat /\ (k - 1) + 1 = k /\ k - 1 <= Cardinality(F)
    BY <2>3, <2>4
  <2>6. P(k - 1)
    <3>1. k - 1 \notin Bad
      BY <2>2, <2>3, <2>5
    <3> HIDE DEF P
    <3> QED BY <2>5, <3>1
  <2>7. P((k - 1) + 1)
    <3> HIDE DEF P
    <3> QED BY <1>2, <2>3, <2>5, <2>6
  <2> HIDE DEF P
  <2> QED BY <2>3, <2>5, <2>7
<1>4. P(n)
  <2> HIDE DEF P
  <2> QED BY <1>3
<1> QED BY <1>4 DEF kSubset

\* An address space, taken apart.
LEMMA SpaceParts ==
    ASSUME NEW s \in SpaceType
    PROVE  /\ s = [tables |-> s.tables, map |-> s.map]
           /\ s.tables \in [DOMAIN s.tables -> Int] /\ DOMAIN s.tables \subseteq Page
           /\ s.map \in [DOMAIN s.map -> Leaves] /\ DOMAIN s.map \subseteq Page
           /\ IsFiniteSet(DOMAIN s.tables) /\ IsFiniteSet(DOMAIN s.map)
<1>1. s = [tables |-> s.tables, map |-> s.map] /\ s.tables \in Tables /\ s.map \in Maps
  BY DEF SpaceType
<1>2. PICK D \in SUBSET Page : s.tables \in [D -> Int]
  BY <1>1 DEF Tables
<1>3. PICK E \in SUBSET Page : s.map \in [E -> Leaves]
  BY <1>1 DEF Maps
<1>4. IsFiniteSet(Page)
  BY AddressSpacesAssumption, FS_Interval DEF Page
<1>5. IsFiniteSet(D) /\ IsFiniteSet(E)
  BY <1>4, FS_Subset
<1>6. DOMAIN s.tables = D /\ DOMAIN s.map = E
  BY <1>2, <1>3
<1> QED BY <1>1, <1>2, <1>3, <1>5, <1>6

\* clone_root takes a frame for the root and one for each table.
LEMMA ClonedIs ==
    ASSUME NEW root, spaces[root] \in SpaceType, CanClone(root),
           free \subseteq Nat, IsFiniteSet(free)
    PROVE  \E c \in free, T \in SUBSET free, t \in [DOMAIN spaces[root].tables -> Int] :
              /\ c \notin T
              /\ t \in [DOMAIN spaces[root].tables -> T]
              /\ \A g, h \in DOMAIN spaces[root].tables : t[g] = t[h] => g = h
              /\ \A f \in T : \E g \in DOMAIN spaces[root].tables : t[g] = f
              /\ Cloned(root) = [root |-> c, space |-> [tables |-> t, map |-> spaces[root].map],
                                 free |-> free \ (T \cup {c})]
<1> DEFINE D == DOMAIN spaces[root].tables
           n == CloneFrames(root)
           taken == FirstFree(n)
           c == Min(taken)
           T == taken \ {c}
           t == CHOOSE f \in [D -> T] : IsInjective(f)
<1>1. IsFiniteSet(D) /\ spaces[root] = [tables |-> spaces[root].tables, map |-> spaces[root].map]
  BY SpaceParts
<1>2. Cardinality(D) \in Nat /\ n \in Nat /\ n = 1 + Cardinality(D)
  BY <1>1, FS_CardinalityType DEF CloneFrames
<1>3. n <= Cardinality(free)
  BY <1>2, FS_CardinalityType DEF CanClone
<1>4. taken \in kSubset(n, free)
  <2>1. \E s \in kSubset(n, free) : \A f \in s, g \in free \ s : f < g
    <3> HIDE DEF n
    <3> QED BY <1>2, <1>3, Lowest, ZenonT(60)
  <2> QED BY <2>1, ZenonT(60) DEF FirstFree
<1> HIDE DEF taken
<1>5. taken \subseteq free /\ Cardinality(taken) = n /\ IsFiniteSet(taken)
  BY <1>4, FS_Subset, ZenonT(60) DEF kSubset
<1>6. taken # {}
  BY <1>2, <1>5, FS_EmptySet
<1>7. c \in taken
  BY <1>5, <1>6, MinIn, ZenonT(60)
<1> HIDE DEF c
<1>8. IsFiniteSet(T) /\ Cardinality(T) = Cardinality(D)
  <2>1. IsFiniteSet(T) /\ Cardinality(T) = n - 1
    BY <1>5, <1>7, FS_RemoveElement
  <2> QED BY <1>2, <2>1
<1> HIDE DEF T, D
<1>9. \E f \in [D -> T] : IsInjective(f)
  <2>1. ExistsBijection(D, T)
    BY <1>1, <1>8, FS_SameCardinalityBij
  <2> QED BY <2>1 DEF ExistsBijection, Bijection, Injection, IsInjective
<1>10. t \in [D -> T] /\ IsInjective(t)
  BY <1>9
<1> HIDE DEF t
<1>11. t \in Surjection(D, T)
  <2>1. t \in Injection(D, T)
    BY <1>10 DEF Injection, IsInjective
  <2> QED BY <1>1, <1>8, <2>1, FS_Injection
<1>12. /\ c \in free /\ T \in SUBSET free /\ c \notin T /\ taken = T \cup {c}
  BY <1>5, <1>7 DEF T
<1>13. Cloned(root) = [root |-> c, space |-> [tables |-> t, map |-> spaces[root].map],
                       free |-> free \ (T \cup {c})]
  <2>1. Cloned(root) = [root |-> c, space |-> [tables |-> t, map |-> spaces[root].map],
                        free |-> free \ taken]
    BY DEF Cloned, taken, c, T, t, D
  <2> QED BY <1>12, <2>1
<1>14. /\ \A g, h \in D : t[g] = t[h] => g = h
       /\ \A f \in T : \E g \in D : t[g] = f
  BY <1>10, <1>11 DEF IsInjective, Surjection
<1>15. t \in [D -> Int]
  <2>1. T \subseteq Int
    BY <1>12
  <2> QED BY <1>10, <2>1, ZenonT(60)
<1> QED BY <1>10, <1>12, <1>13, <1>14, <1>15, ZenonT(60) DEF D

-----------------------------------------------------------------------------
(* A page more *)

\* t is address space s with page v mapped to leaf, and the frames T taken for
\* the tables above it.
Grows(s, t, v, leaf, T) ==
    /\ v \in Page /\ v \notin DOMAIN s.map /\ t \in SpaceType
    /\ DOMAIN t.map = DOMAIN s.map \cup {v} /\ t.map[v] = leaf
    /\ \A w \in DOMAIN s.map : t.map[w] = s.map[w]
    /\ \/ T = {} /\ t.tables = s.tables /\ Group(v) \in DOMAIN s.tables
       \/ /\ Group(v) \notin DOMAIN s.tables /\ DOMAIN t.tables = DOMAIN s.tables \cup {Group(v)}
          /\ T = {t.tables[Group(v)]}
          /\ \A g \in DOMAIN s.tables : t.tables[g] = s.tables[g]

\* The tables are numbered within the pages.
LEMMA GroupOfPage == ASSUME NEW v \in Page PROVE Group(v) \in Page
  BY AddressSpacesAssumption DEF Group, Page

\* What an attempt to map v in the space s with the frames F may leave.
MapsTo(s, F, v, leaf, r) ==
    \/ r.ok = FALSE /\ SpaceOf(r) = s /\ r.free = F
    \/ r.ok = TRUE /\ \E T \in SUBSET F : Grows(s, SpaceOf(r), v, leaf, T) /\ r.free = F \ T

\* map_to maps the page, or has failed and changed nothing.
LEMMA MapToGrows ==
    ASSUME NEW tables \in Tables, NEW map \in Maps, NEW F, F \subseteq Nat,
           NEW v \in Page, v \notin DOMAIN map, NEW leaf \in Leaves
    PROVE  MapsTo([tables |-> tables, map |-> map], F, v, leaf,
                  map_to(Extended(tables, map, F), v, leaf))
<1> DEFINE s == [tables |-> tables, map |-> map]
           m == Extended(tables, map, F)
           r == map_to(m, v, leaf)
           new == With(map, v, leaf)
<1>1. /\ tables \in [DOMAIN tables -> Int]
      /\ map \in [DOMAIN map -> Leaves] /\ DOMAIN tables \subseteq Page /\ DOMAIN map \subseteq Page
  BY DEF Tables, Maps
<1>2. /\ new \in [DOMAIN map \cup {v} -> Leaves]
      /\ new[v] = leaf /\ \A w \in DOMAIN map : new[w] = map[w]
      /\ DOMAIN new = DOMAIN map \cup {v}
  BY <1>1 DEF With
<1>4. m.tables = tables /\ m.map = map /\ m.free = F /\ m.ok = TRUE
  BY DEF Extended
<1> HIDE DEF new
<1>3. new \in Maps
  BY <1>1, <1>2 DEF Maps
<1>5. CASE Group(v) \in DOMAIN tables
  <2>1. r = [tables |-> tables, map |-> new, free |-> F, ok |-> TRUE]
    BY <1>4, <1>5 DEF map_to, Extended, new
  <2>2. SpaceOf(r) = [tables |-> tables, map |-> new] /\ r.free = F /\ r.ok = TRUE
    BY <2>1 DEF SpaceOf
  <2>3. SpaceOf(r) \in SpaceType
    BY <1>3, <2>2 DEF SpaceType
  <2> HIDE DEF r
  <2>4. Grows(s, SpaceOf(r), v, leaf, {})
    BY <1>2, <1>5, <2>2, <2>3 DEF Grows
  <2>5. F \ {} = F
    OBVIOUS
  <2> QED BY <2>2, <2>4, <2>5 DEF r, MapsTo
<1>6. CASE Group(v) \notin DOMAIN tables /\ F = {}
  <2>1. r = [tables |-> tables, map |-> map, free |-> F, ok |-> FALSE]
    BY <1>4, <1>6 DEF map_to, Failed
  <2> QED BY <1>1, <2>1 DEF SpaceOf, MapsTo
<1>7. CASE Group(v) \notin DOMAIN tables /\ F # {}
  <2> DEFINE f == Min(F)
             more == With(tables, Group(v), f)
  <2>1. f \in F
    BY <1>7, MinIn, ZenonT(60)
  <2> HIDE DEF f
  <2>2. /\ more \in [DOMAIN tables \cup {Group(v)} -> Int]
        /\ more[Group(v)] = f /\ \A g \in DOMAIN tables : more[g] = tables[g]
        /\ DOMAIN more = DOMAIN tables \cup {Group(v)}
    <3>1. f \in Int
      BY <2>1
    <3> QED BY <1>1, <1>7, <3>1 DEF With
  <2>4. r = [tables |-> more, map |-> new, free |-> F \ {f}, ok |-> TRUE]
    BY <1>4, <1>7 DEF map_to, Extended, new, f
  <2> HIDE DEF more
  <2>3. more \in Tables
    <3>1. DOMAIN tables \cup {Group(v)} \in SUBSET Page
      BY <1>1, GroupOfPage
    <3> QED BY <2>2, <3>1 DEF Tables
  <2>5. SpaceOf(r) = [tables |-> more, map |-> new] /\ r.free = F \ {f} /\ r.ok = TRUE
    BY <2>4 DEF SpaceOf
  <2>6. SpaceOf(r) \in SpaceType
    BY <1>3, <2>3, <2>5 DEF SpaceType
  <2> HIDE DEF r
  <2>7. Grows(s, SpaceOf(r), v, leaf, {f})
    BY <1>2, <1>7, <2>2, <2>5, <2>6 DEF Grows
  <2> QED BY <2>1, <2>5, <2>7 DEF r, MapsTo
<1> QED BY <1>5, <1>6, <1>7

\* So do a mapping that is checked, and one with a fresh frame, which may have
\* lost the frame.
LEMMA MapCheckedGrows ==
    ASSUME NEW root, spaces[root] \in SpaceType, free \subseteq Nat, NEW v \in Page, NEW leaf \in Leaves
    PROVE  MapsTo(spaces[root], free, v, leaf, MapChecked(Mapper(root), v, leaf))
<1> DEFINE r == MapChecked(Mapper(root), v, leaf)
           tables == spaces[root].tables
           map == spaces[root].map
           m == Extended(tables, map, free)
<1>1. spaces[root] = [tables |-> tables, map |-> map] /\ tables \in Tables /\ map \in Maps
  BY DEF SpaceType
<1>2. m = Mapper(root) /\ m.tables = tables /\ m.map = map /\ m.free = free
  BY DEF Mapper, Extended
<1> HIDE DEF tables, map, m
<1>3. CASE v \in DOMAIN map
  <2>1. r = [tables |-> tables, map |-> map, free |-> free, ok |-> FALSE]
    BY <1>2, <1>3 DEF MapChecked, Failed
  <2> QED BY <1>1, <2>1 DEF SpaceOf, MapsTo
<1>4. CASE v \notin DOMAIN map
  <2>1. r = map_to(m, v, leaf)
    BY <1>2, <1>4 DEF MapChecked
  <2> QED BY <1>1, <1>4, <2>1, MapToGrows, ZenonT(60) DEF m
<1> QED BY <1>3, <1>4

FreshTo(s, F, v, kind, writable, r) ==
    \/ /\ r.ok = FALSE /\ SpaceOf(r) = s
       /\ r.free = F \/ \E f \in F : r.free = F \ {f}
    \/ /\ r.ok = TRUE
       /\ \E f \in F, T \in SUBSET F :
             /\ f \notin T /\ r.free = F \ (T \cup {f})
             /\ Grows(s, SpaceOf(r), v, Leaf(kind, f, writable), T)

LEMMA MapFreshGrows ==
    ASSUME NEW root, spaces[root] \in SpaceType, free \subseteq Nat, NEW v \in Page,
           NEW kind \in {"kernel", "heap", "mmio", "user"}, NEW writable \in BOOLEAN
    PROVE  FreshTo(spaces[root], free, v, kind, writable, MapFresh(Mapper(root), v, kind, writable))
<1> DEFINE r == MapFresh(Mapper(root), v, kind, writable)
           tables == spaces[root].tables
           map == spaces[root].map
           m == Extended(tables, map, free)
<1>1. spaces[root] = [tables |-> tables, map |-> map] /\ tables \in Tables /\ map \in Maps
  BY DEF SpaceType
<1>2. m = Mapper(root) /\ m.tables = tables /\ m.map = map /\ m.free = free
  BY DEF Mapper, Extended
<1> HIDE DEF tables, map, m
<1>3. CASE v \in DOMAIN map \/ free = {}
  <2>1. r = [tables |-> tables, map |-> map, free |-> free, ok |-> FALSE]
    BY <1>2, <1>3 DEF MapFresh, Failed
  <2> QED BY <1>1, <2>1 DEF SpaceOf, FreshTo
<1>4. CASE v \notin DOMAIN map /\ free # {}
  <2> DEFINE f == Min(free)
             F == free \ {f}
             leaf == Leaf(kind, f, writable)
  <2>1. f \in free
    BY <1>4, MinIn, ZenonT(60)
  <2>3. r = map_to(Extended(tables, map, F), v, leaf)
    BY <1>2, <1>4, ZenonT(60) DEF MapFresh
  <2> HIDE DEF f
  <2>2. leaf \in Leaves
    <3>1. f \in Int
      BY <2>1
    <3> QED BY <3>1 DEF Leaf, Leaves
  <2>4. MapsTo(spaces[root], F, v, leaf, r)
    <3> HIDE DEF leaf
    <3>1. F \subseteq Nat
      BY ZenonT(60)
    <3> HIDE DEF F
    <3> QED BY <1>1, <1>4, <2>2, <2>3, <3>1, MapToGrows, ZenonT(60)
  <2> HIDE DEF r
  <2>7. CASE r.ok = FALSE /\ SpaceOf(r) = spaces[root] /\ r.free = F
    BY <2>1, <2>7 DEF r, FreshTo
  <2>8. CASE r.ok = TRUE /\ \E T \in SUBSET F : Grows(spaces[root], SpaceOf(r), v, leaf, T) /\ r.free = F \ T
    <3>1. PICK T \in SUBSET F : Grows(spaces[root], SpaceOf(r), v, leaf, T) /\ r.free = F \ T
      BY <2>8
    <3>2. f \notin T /\ r.free = free \ (T \cup {f}) /\ T \in SUBSET free
      BY <3>1, ZenonT(60)
    <3> QED BY <2>1, <2>8, <3>1, <3>2 DEF r, FreshTo
  <2> QED BY <2>4, <2>7, <2>8, ZenonT(60) DEF MapsTo
<1> QED BY <1>3, <1>4

-----------------------------------------------------------------------------
(* Who owns the frames *)

\* x is the frame of the table for group g, or of page v, of the space at r.
TableAt(S, r, g, x) == r \in DOMAIN S /\ g \in DOMAIN S[r].tables /\ S[r].tables[g] = x
PageAt(S, r, v, x) == r \in DOMAIN S /\ v \in DOMAIN S[r].map /\ S[r].map[v].frame = x

\* The frames have the types and the origins they should.
Placed(S, F, d, n) ==
    /\ n \in Nat /\ F \subseteq 1 .. n /\ d \subseteq 1 .. n /\ DOMAIN S \subseteq 1 .. n \cup {BootRoot}
    /\ S \in [DOMAIN S -> SpaceType]
    /\ \A r \in DOMAIN S : \A v \in DOMAIN S[r].map : Group(v) \in DOMAIN S[r].tables
    /\ \A r, g, x : TableAt(S, r, g, x) => x \in 1 .. n \cup {BootTable(g)}
    /\ \A r, v, x : PageAt(S, r, v, x) => x \in 1 .. n \cup {BootPage(v), DevicePage(v)}

\* No frame has two uses, except that pages of two spaces may share one.
Apart(S, F, d) ==
    /\ \A r, s, g, h, x : TableAt(S, r, g, x) /\ TableAt(S, s, h, x) => r = s /\ g = h
    /\ \A r, s, g : r \in DOMAIN S => ~TableAt(S, s, g, r)
    /\ \A r, v, w, x : PageAt(S, r, v, x) /\ PageAt(S, r, w, x) => v = w
    /\ \A r, s, v : r \in DOMAIN S => ~PageAt(S, s, v, r)
    /\ \A r, s, g, v, x : TableAt(S, r, g, x) => ~PageAt(S, s, v, x)
    /\ \A x \in F \cup d : x \notin DOMAIN S /\ \A r, k : ~TableAt(S, r, k, x) /\ ~PageAt(S, r, k, x)
    /\ F \cap d = {}

Owned(S, F, d, n) == Placed(S, F, d, n) /\ Apart(S, F, d)

\* Frames of RAM that are neither free nor in use.
Used(S, d, x) == x \in d \/ x \in DOMAIN S \/ \E r, k : TableAt(S, r, k, x) \/ PageAt(S, r, k, x)
LostFrames(S, F, d, n) == {x \in 1 .. n : x \notin F /\ ~Used(S, d, x)}

\* Taking frames away from the free ones is always sound.
LEMMA DropOwned ==
    ASSUME NEW S, NEW F, NEW d, NEW n, Owned(S, F, d, n), NEW X
    PROVE  Owned(S, F \ X, d, n)
  BY DEF Owned, Placed, Apart

\* So is giving them to a device.
LEMMA DmaOwned ==
    ASSUME NEW S, NEW F, NEW d, NEW n, Owned(S, F, d, n), NEW X \in SUBSET F
    PROVE  /\ Owned(S, F \ X, d \cup X, n)
           /\ LostFrames(S, F \ X, d \cup X, n) \subseteq LostFrames(S, F, d, n)
<1>1. Owned(S, F \ X, d \cup X, n)
  BY DEF Owned, Placed, Apart
<1> QED BY <1>1, ZenonT(60) DEF LostFrames, Used

\* S2 is S with the space at r replaced by t.
Replaced(S, r, t, S2) ==
    /\ S2 = [s \in DOMAIN S |-> S2[s]] /\ DOMAIN S2 = DOMAIN S
    /\ r \in DOMAIN S /\ S2[r] = t /\ \A s \in DOMAIN S : s # r => S2[s] = S[s]

\* The tables and pages after a page has been mapped.
PagesGrow(S, S2, r, v, y) ==
    /\ \A q, w, x : PageAt(S2, q, w, x) <=> PageAt(S, q, w, x) \/ (q = r /\ w = v /\ x = y)
    /\ \A x : ~PageAt(S, r, v, x)

TablesGrow(S, S2, r, v, T) ==
    \/ /\ T = {}
       /\ \A q, g, x : TableAt(S2, q, g, x) <=> TableAt(S, q, g, x)
    \/ \E f \in T : /\ T = {f}
                    /\ \A x : ~TableAt(S, r, Group(v), x)
                    /\ \A q, g, x : TableAt(S2, q, g, x)
                          <=> TableAt(S, q, g, x) \/ (q = r /\ g = Group(v) /\ x = f)

\* They are those of Grows.
LEMMA GrowAt ==
    ASSUME NEW S, NEW S2, NEW r, NEW t, Replaced(S, r, t, S2), S[r] \in SpaceType,
           NEW v, NEW leaf, NEW T, Grows(S[r], t, v, leaf, T)
    PROVE  PagesGrow(S, S2, r, v, leaf.frame) /\ TablesGrow(S, S2, r, v, T)
<1>1. \A q, w, x : PageAt(S2, q, w, x) <=> PageAt(S, q, w, x) \/ (q = r /\ w = v /\ x = leaf.frame)
  BY DEF PageAt, Replaced, Grows
<1>2. \A x : ~PageAt(S, r, v, x)
  BY DEF PageAt, Grows
<1>3. CASE T = {} /\ t.tables = S[r].tables
  <2>1. \A q, g, x : TableAt(S2, q, g, x) <=> TableAt(S, q, g, x)
    BY <1>3 DEF TableAt, Replaced
  <2> QED BY <1>1, <1>2, <1>3, <2>1 DEF TablesGrow, PagesGrow
<1>4. CASE /\ Group(v) \notin DOMAIN S[r].tables /\ DOMAIN t.tables = DOMAIN S[r].tables \cup {Group(v)}
           /\ T = {t.tables[Group(v)]}
           /\ \A g \in DOMAIN S[r].tables : t.tables[g] = S[r].tables[g]
  <2> DEFINE f == t.tables[Group(v)]
  <2>1. \A q, g, x : TableAt(S2, q, g, x)
                       <=> TableAt(S, q, g, x) \/ (q = r /\ g = Group(v) /\ x = f)
    BY <1>4 DEF TableAt, Replaced
  <2>2. \A x : ~TableAt(S, r, Group(v), x)
    BY <1>4 DEF TableAt
  <2>3. T = {f}
    BY <1>4
  <2> HIDE DEF f
  <2>4. TablesGrow(S, S2, r, v, T)
    BY <2>1, <2>2, <2>3 DEF TablesGrow
  <2> QED BY <1>1, <1>2, <2>4 DEF PagesGrow
<1> QED BY <1>3, <1>4, ZenonT(60) DEF Grows

\* A page with a frame of its own, or a device's, can be mapped.
LEMMA GrowOwned ==
    ASSUME NEW S, NEW F, NEW d, NEW n, Owned(S, F, d, n),
           NEW r, NEW t, NEW S2, Replaced(S, r, t, S2),
           NEW v, NEW leaf \in Leaves, NEW T \in SUBSET F, Grows(S[r], t, v, leaf, T),
           NEW G, \/ leaf.frame \in F /\ leaf.frame \notin T /\ G = T \cup {leaf.frame}
                  \/ leaf.frame = DevicePage(v) /\ G = T
    PROVE  /\ Owned(S2, F \ G, d, n)
           /\ LostFrames(S2, F \ G, d, n) \subseteq LostFrames(S, F, d, n)
<1> DEFINE y == leaf.frame
<1>0. r \in DOMAIN S /\ S[r] \in SpaceType /\ DOMAIN S2 = DOMAIN S
  BY DEF Owned, Placed, Replaced
<1>1. /\ \A q, w, x : PageAt(S2, q, w, x) <=> PageAt(S, q, w, x) \/ (q = r /\ w = v /\ x = y)
      /\ \A x : ~PageAt(S, r, v, x)
  <2>1. PagesGrow(S, S2, r, v, leaf.frame)
    BY <1>0, GrowAt, ZenonT(60)
  <2> QED BY <2>1 DEF PagesGrow
<1>2. TablesGrow(S, S2, r, v, T)
  BY <1>0, GrowAt
<1>3. v \in Page /\ Group(v) \in Page /\ n \in Nat /\ F \subseteq 1 .. n
  BY GroupOfPage DEF Grows, Owned, Placed
<1>4. y \in 1 .. n \/ y = DevicePage(v)
  BY <1>3, ZenonT(60)
<1>5. Placed(S2, F \ G, d, n)
  <2>1. S2 \in [DOMAIN S2 -> SpaceType]
    <3>1. \A q \in DOMAIN S2 : S2[q] \in SpaceType
      BY <1>0 DEF Replaced, Grows, Owned, Placed
    <3> QED BY <3>1 DEF Replaced
  <2>2. \A q \in DOMAIN S2 : \A w \in DOMAIN S2[q].map : Group(w) \in DOMAIN S2[q].tables
    BY <1>0 DEF Replaced, Grows, Owned, Placed
  <2>3. \A q, w, x : PageAt(S2, q, w, x) => x \in 1 .. n \cup {BootPage(w), DevicePage(w)}
    BY <1>1, <1>4 DEF Owned, Placed
  <2>4. \A q, g, x : TableAt(S2, q, g, x) => x \in 1 .. n \cup {BootTable(g)}
    BY <1>2, <1>3 DEF TablesGrow, Owned, Placed
  <2> QED BY <1>0, <2>1, <2>2, <2>3, <2>4 DEF Owned, Placed
<1>6. /\ y \notin DOMAIN S /\ \A q, g : ~TableAt(S, q, g, y)
      /\ \A w : ~PageAt(S, r, w, y)
      /\ y \notin d /\ y \notin F \ G
  <2>1. CASE y \in F /\ y \notin T /\ G = T \cup {y}
    BY <2>1, ZenonT(60) DEF Owned, Apart
  <2>2. CASE y = DevicePage(v) /\ G = T
    <3>1. y \notin DOMAIN S /\ y \notin d /\ y \notin F
      BY <1>3, <2>2 DEF Owned, Placed, DevicePage, BootRoot, Page
    <3>2. \A q, g : ~TableAt(S, q, g, y)
      <4> SUFFICES ASSUME NEW q, NEW g, TableAt(S, q, g, y) PROVE FALSE
        OBVIOUS
      <4>1. g \in Page
        BY SpaceParts DEF TableAt, Owned, Placed
      <4>2. y \in 1 .. n \cup {BootTable(g)}
        BY DEF Owned, Placed
      <4> QED BY <1>3, <2>2, <4>1, <4>2 DEF DevicePage, BootTable, Page
    <3>3. \A w : ~PageAt(S, r, w, y)
      <4> SUFFICES ASSUME NEW w, PageAt(S, r, w, y) PROVE FALSE
        OBVIOUS
      <4>1. w \in Page /\ w # v
        BY <1>1, SpaceParts, ZenonT(60) DEF PageAt, Owned, Placed
      <4>2. y \in 1 .. n \cup {BootPage(w), DevicePage(w)}
        BY DEF Owned, Placed
      <4> QED BY <1>3, <2>2, <4>1, <4>2 DEF DevicePage, BootPage, Page
    <3> QED BY <3>1, <3>2, <3>3, ZenonT(60)
  <2> QED BY <2>1, <2>2, ZenonT(60)
<1>7. \A f \in T : /\ f \notin DOMAIN S /\ f \notin d /\ f # y /\ f \notin F \ G
                   /\ \A q, k : ~TableAt(S, q, k, f) /\ ~PageAt(S, q, k, f)
  <2>1. ASSUME NEW f \in T PROVE f # y
    BY <1>3 DEF DevicePage, Page
  <2> QED BY <2>1, ZenonT(60) DEF Owned, Apart
<1> HIDE DEF y
<1>8. Apart(S2, F \ G, d)
  <2>0. Apart(S, F, d)
    BY ZenonT(60) DEF Owned
  <2>1. \A q, s, g, h, x : TableAt(S2, q, g, x) /\ TableAt(S2, s, h, x) => q = s /\ g = h
    BY ONLY <1>2, <1>7, <2>0 DEF TablesGrow, Apart
  <2>2. \A q, s, g : q \in DOMAIN S2 => ~TableAt(S2, s, g, q)
    BY ONLY <1>0, <1>2, <1>7, <2>0 DEF TablesGrow, Apart
  <2>3. \A q, w, u, x : PageAt(S2, q, w, x) /\ PageAt(S2, q, u, x) => w = u
    BY ONLY <1>1, <1>6, <2>0 DEF PagesGrow, Apart
  <2>4. \A q, s, w : q \in DOMAIN S2 => ~PageAt(S2, s, w, q)
    BY <1>0, <1>1, <1>6, ZenonT(60) DEF Owned, Apart
  <2>5. \A q, s, g, w, x : TableAt(S2, q, g, x) => ~PageAt(S2, s, w, x)
    BY ONLY <1>1, <1>2, <1>6, <1>7, <2>0 DEF PagesGrow, TablesGrow, Apart
  <2>6. \A x \in (F \ G) \cup d : x \notin DOMAIN S2
                                  /\ \A q, k : ~TableAt(S2, q, k, x) /\ ~PageAt(S2, q, k, x)
    BY ONLY <1>0, <1>1, <1>2, <1>6, <1>7, <2>0 DEF PagesGrow, TablesGrow, Apart
  <2>7. (F \ G) \cap d = {}
    BY ZenonT(60) DEF Owned, Apart
  <2> QED BY <2>1, <2>2, <2>3, <2>4, <2>5, <2>6, <2>7, ZenonT(60) DEF Apart
<1>9. \A x : x \in G \/ Used(S, d, x) => Used(S2, d, x)
  <2>1. \A x : Used(S, d, x) => Used(S2, d, x)
    BY <1>0, <1>1, <1>2, ZenonT(60) DEF Used, TablesGrow
  <2>2. \A x \in T : Used(S2, d, x)
    BY <1>2, ZenonT(60) DEF Used, TablesGrow
  <2>3. Used(S2, d, y)
    BY <1>1 DEF Used
  <2>4. G \subseteq T \cup {y}
    BY DEF y
  <2> QED BY <2>1, <2>2, <2>3, <2>4
<1>10. LostFrames(S2, F \ G, d, n) \subseteq LostFrames(S, F, d, n)
  BY <1>9 DEF LostFrames
<1> QED BY <1>5, <1>8, <1>10 DEF Owned

\* t is a clone of s: the pages of s under tables of its own, the frames T.
Copies(s, t, T) ==
    /\ t \in SpaceType /\ t.map = s.map /\ DOMAIN t.tables = DOMAIN s.tables
    /\ \A g \in DOMAIN t.tables : t.tables[g] \in T
    /\ \A g, h \in DOMAIN t.tables : t.tables[g] = t.tables[h] => g = h
    /\ \A f \in T : \E g \in DOMAIN t.tables : t.tables[g] = f

\* clone_root makes one.
LEMMA ClonedCopies ==
    ASSUME NEW root, spaces[root] \in SpaceType, CanClone(root),
           free \subseteq Nat, IsFiniteSet(free)
    PROVE  \E T \in SUBSET free : /\ Cloned(root).root \in free \ T
                                  /\ Copies(spaces[root], Cloned(root).space, T)
                                  /\ Cloned(root).free = free \ (T \cup {Cloned(root).root})
<1> DEFINE D == DOMAIN spaces[root].tables
<1>1. PICK c \in free, T \in SUBSET free, t \in [D -> Int] :
              /\ c \notin T
              /\ t \in [D -> T]
              /\ \A g, h \in D : t[g] = t[h] => g = h
              /\ \A f \in T : \E g \in D : t[g] = f
              /\ Cloned(root) = [root |-> c, space |-> [tables |-> t, map |-> spaces[root].map],
                                 free |-> free \ (T \cup {c})]
  BY ClonedIs
<1>2. D \subseteq Page /\ spaces[root].map \in Maps
  BY SpaceParts DEF SpaceType
<1>3. t \in Tables
  BY <1>2 DEF Tables
<1>4. [tables |-> t, map |-> spaces[root].map] \in SpaceType
  BY <1>2, <1>3, ZenonT(60) DEF SpaceType
<1>5. Copies(spaces[root], [tables |-> t, map |-> spaces[root].map], T)
  BY <1>1, <1>4, ZenonT(60) DEF Copies
<1>6. /\ Cloned(root).root = c /\ Cloned(root).space = [tables |-> t, map |-> spaces[root].map]
      /\ Cloned(root).free = free \ (T \cup {c})
  BY <1>1
<1> QED BY <1>1, <1>5, <1>6

\* A clone can be added, under a root of its own.
LEMMA CloneOwned ==
    ASSUME NEW S, NEW F, NEW d, NEW n, Owned(S, F, d, n),
           NEW r \in DOMAIN S, NEW T \in SUBSET F, NEW c \in F \ T,
           NEW t, Copies(S[r], t, T), NEW S2, S2 = With(S, c, t)
    PROVE  /\ Owned(S2, F \ (T \cup {c}), d, n)
           /\ LostFrames(S2, F \ (T \cup {c}), d, n) \subseteq LostFrames(S, F, d, n)
<1> DEFINE G == T \cup {c}
<1>0. /\ DOMAIN S2 = DOMAIN S \cup {c} /\ S2[c] = t /\ \A q \in DOMAIN S : S2[q] = S[q]
      /\ c \notin DOMAIN S /\ S[r] \in SpaceType
  BY DEF Owned, Placed, Apart, With
<1>1. \A q, w, x : PageAt(S2, q, w, x) <=> PageAt(S, q, w, x) \/ (q = c /\ PageAt(S, r, w, x))
  BY ONLY <1>0, r \in DOMAIN S, Copies(S[r], t, T) DEF PageAt, Copies
<1>2. \A q, g, x : TableAt(S2, q, g, x)
                     <=> TableAt(S, q, g, x) \/ (q = c /\ g \in DOMAIN t.tables /\ t.tables[g] = x)
  BY <1>0, ZenonT(60) DEF TableAt
<1>3. n \in Nat /\ F \subseteq 1 .. n
  BY DEF Owned, Placed
<1>4. \A g \in DOMAIN t.tables : t.tables[g] \in T
  BY ZenonT(60) DEF Copies
<1>5. Placed(S2, F \ G, d, n)
  <2>1. S2 \in [DOMAIN S2 -> SpaceType]
    <3>1. \A q \in DOMAIN S2 : S2[q] \in SpaceType
      BY <1>0 DEF Copies, Owned, Placed
    <3>2. S2 = [q \in DOMAIN S2 |-> S2[q]]
      BY DEF With
    <3> QED BY <3>1, <3>2
  <2>2. \A q \in DOMAIN S2 : \A w \in DOMAIN S2[q].map : Group(w) \in DOMAIN S2[q].tables
    BY <1>0 DEF Copies, Owned, Placed
  <2>3. \A q, w, x : PageAt(S2, q, w, x) => x \in 1 .. n \cup {BootPage(w), DevicePage(w)}
    BY <1>1 DEF Owned, Placed
  <2>4. \A q, g, x : TableAt(S2, q, g, x) => x \in 1 .. n \cup {BootTable(g)}
    <3>1. \A g \in DOMAIN t.tables : t.tables[g] \in 1 .. n
      BY <1>3, <1>4, ZenonT(60)
    <3>2. \A q, g, x : TableAt(S, q, g, x) => x \in 1 .. n \cup {BootTable(g)}
      BY DEF Owned, Placed
    <3> QED BY ONLY <1>2, <3>1, <3>2
  <2> QED BY <1>0, <1>3, <2>1, <2>2, <2>3, <2>4 DEF Owned, Placed
<1>6. \A f \in G : /\ f \notin DOMAIN S /\ f \notin d /\ f \notin F \ G
                   /\ \A q, k : ~TableAt(S, q, k, f) /\ ~PageAt(S, q, k, f)
  BY DEF Owned, Apart
<1>7. c \notin T /\ \A g, h \in DOMAIN t.tables : t.tables[g] = t.tables[h] => g = h
  BY ZenonT(60) DEF Copies
<1>8. Apart(S2, F \ G, d)
  <2>0. Apart(S, F, d)
    BY ZenonT(60) DEF Owned
  <2>1. \A q, s, g, h, x : TableAt(S2, q, g, x) /\ TableAt(S2, s, h, x) => q = s /\ g = h
    BY ONLY <1>2, <1>4, <1>6, <1>7, <2>0 DEF Apart
  <2>2. \A q, s, g : q \in DOMAIN S2 => ~TableAt(S2, s, g, q)
    BY ONLY <1>0, <1>2, <1>4, <1>6, <1>7, <2>0 DEF Apart
  <2>3. \A q, w, u, x : PageAt(S2, q, w, x) /\ PageAt(S2, q, u, x) => w = u
    <3>1. \A w, x : ~PageAt(S, c, w, x)
      BY <1>0, ZenonT(60) DEF PageAt
    <3> QED BY ONLY <1>1, <2>0, <3>1 DEF Apart
  <2>4. \A q, s, w : q \in DOMAIN S2 => ~PageAt(S2, s, w, q)
    BY ONLY <1>0, <1>1, <1>6, <2>0 DEF Apart
  <2>5. \A q, s, g, w, x : TableAt(S2, q, g, x) => ~PageAt(S2, s, w, x)
    BY ONLY <1>1, <1>2, <1>4, <1>6, <2>0 DEF Apart
  <2>6. \A x \in (F \ G) \cup d : x \notin DOMAIN S2
                                  /\ \A q, k : ~TableAt(S2, q, k, x) /\ ~PageAt(S2, q, k, x)
    BY ONLY <1>0, <1>1, <1>2, <1>4, <1>6, <2>0 DEF Apart
  <2>7. (F \ G) \cap d = {}
    BY DEF Owned, Apart
  <2> QED BY <2>1, <2>2, <2>3, <2>4, <2>5, <2>6, <2>7, ZenonT(60) DEF Apart
<1>9. \A x : x \in G \/ Used(S, d, x) => Used(S2, d, x)
  <2>1. \A x : Used(S, d, x) => Used(S2, d, x)
    BY <1>0, <1>1, <1>2, ZenonT(60) DEF Used
  <2>2. \A x \in T : Used(S2, d, x)
    BY <1>2, ZenonT(60) DEF Used, Copies
  <2>3. Used(S2, d, c)
    BY <1>0, ZenonT(60) DEF Used
  <2> QED BY <2>1, <2>2, <2>3
<1>10. LostFrames(S2, F \ G, d, n) \subseteq LostFrames(S, F, d, n)
  BY <1>9 DEF LostFrames
<1> QED BY <1>5, <1>8, <1>10 DEF Owned

-----------------------------------------------------------------------------
(* The calls of the memory manager *)

Lost == LostFrames(spaces, free, dma, ram)

\* Every frame has its owner, but for the lost ones.
MemInv ==
    /\ Owned(spaces, free, dma, ram) /\ ram \in RamSizes
    /\ failures \in Nat /\ Cardinality(Lost) <= failures

\* The lost frames are finitely many, and fewer when some are found.
LEMMA LostFinite ==
    ASSUME NEW S, NEW F, NEW d, NEW n \in Nat
    PROVE  /\ IsFiniteSet(LostFrames(S, F, d, n)) /\ Cardinality(LostFrames(S, F, d, n)) \in Nat
           /\ \A X \in SUBSET LostFrames(S, F, d, n) :
                 IsFiniteSet(X) /\ Cardinality(X) \in Nat /\ Cardinality(X) <= Cardinality(LostFrames(S, F, d, n))
<1>1. IsFiniteSet(1 .. n) /\ LostFrames(S, F, d, n) \subseteq 1 .. n
  BY FS_Interval DEF LostFrames
<1>2. IsFiniteSet(LostFrames(S, F, d, n))
  BY <1>1, FS_Subset
<1> QED BY <1>2, FS_Subset, FS_CardinalityType

\* S2 is S with the page v more in the space at r.
PageAdded(S, S2, r, v, leaf) ==
    /\ DOMAIN S2 = DOMAIN S /\ r \in DOMAIN S /\ v \notin DOMAIN S[r].map
    /\ DOMAIN S2[r].map = DOMAIN S[r].map \cup {v} /\ S2[r].map[v] = leaf
    /\ \A w \in DOMAIN S[r].map : S2[r].map[w] = S[r].map[w]
    /\ \A q \in DOMAIN S : q # r => S2[q] = S[q]

\* S2 is S with a clone of the space at r, at c.
SpaceAdded(S, S2, r, c) ==
    /\ c \notin DOMAIN S /\ c # 0 /\ DOMAIN S2 = DOMAIN S \cup {c} /\ r \in DOMAIN S
    /\ S2[c].map = S[r].map
    /\ \A q \in DOMAIN S : S2[q] = S[q]

\* The free frames are naturals, and finitely many.
LEMMA FreeFinite ==
    ASSUME MemInv
    PROVE  ram \in Nat /\ free \subseteq Nat /\ IsFiniteSet(free) /\ 0 \notin Roots /\ 0 \notin free
           /\ \A r \in Roots : spaces[r] \in SpaceType
<1>1. ram \in Nat /\ free \subseteq 1 .. ram /\ DOMAIN spaces \subseteq 1 .. ram \cup {BootRoot}
      /\ \A r \in Roots : spaces[r] \in SpaceType
  BY DEF MemInv, Owned, Placed, Roots
<1>2. IsFiniteSet(free)
  <2>1. IsFiniteSet(1 .. ram)
    BY <1>1, FS_Interval
  <2> QED BY <1>1, <2>1, FS_Subset, ZenonT(60)
<1> QED BY <1>1, <1>2 DEF Roots, BootRoot

\* A page that gets a fresh frame.
LEMMA FreshStep ==
    ASSUME MemInv, NEW root \in Roots, NEW v \in Page,
           NEW kind \in {"kernel", "heap", "mmio", "user"}, NEW writable \in BOOLEAN,
           NEW m, m = MapFresh(Mapper(root), v, kind, writable),
           spaces' = [spaces EXCEPT ![root] = SpaceOf(m)],
           free' = m.free, dma' = dma, ram' = ram
    PROVE  /\ Owned(spaces, free, dma, ram)'
           /\ \/ /\ m.ok = FALSE /\ spaces' = spaces
                 /\ Cardinality(Lost') \in Nat /\ Cardinality(Lost') <= Cardinality(Lost) + 1
              \/ /\ m.ok = TRUE
                 /\ Cardinality(Lost') \in Nat /\ Cardinality(Lost') <= Cardinality(Lost)
                 /\ \E leaf \in Leaves : /\ PageAdded(spaces, spaces', root, v, leaf)
                                         /\ leaf.kind = kind /\ leaf.frame \in free
<1>1. /\ free \subseteq Nat /\ spaces[root] \in SpaceType /\ ram \in Nat
      /\ Owned(spaces, free, dma, ram) /\ root \in DOMAIN spaces
  BY FreeFinite DEF MemInv, Roots
<1>2. FreshTo(spaces[root], free, v, kind, writable, m)
  BY <1>1, MapFreshGrows
<1>3. CASE /\ m.ok = FALSE /\ SpaceOf(m) = spaces[root]
           /\ m.free = free \/ \E f \in free : m.free = free \ {f}
  <2>1. spaces' = spaces
    BY <1>1, <1>3 DEF Owned, Placed
  <2>2. PICK X \in SUBSET free : free' = free \ X /\ (X = {} \/ \E f : X = {f})
    <3>1. CASE m.free = free
      BY <3>1, ZenonT(60)
    <3>2. CASE \E f \in free : m.free = free \ {f}
      BY <3>2, ZenonT(60)
    <3> QED BY <1>3, <3>1, <3>2, ZenonT(60)
  <2>3. Owned(spaces, free', dma, ram)
    BY <1>1, <2>2, DropOwned
  <2>4. Lost' \subseteq Lost \cup X
    BY <2>1, <2>2, ZenonT(60) DEF Lost, LostFrames
  <2>5. IsFiniteSet(Lost) /\ IsFiniteSet(Lost') /\ Cardinality(Lost') \in Nat /\ Cardinality(Lost) \in Nat
    BY <1>1, LostFinite DEF Lost
  <2>6. IsFiniteSet(Lost \cup X) /\ Cardinality(Lost \cup X) \in Nat
        /\ Cardinality(Lost \cup X) <= Cardinality(Lost) + 1
    <3>1. CASE X = {}
      <4>1. Lost \cup X = Lost
        BY <3>1
      <4> QED BY <2>5, <4>1
    <3>2. CASE \E f : X = {f}
      <4>1. PICK f : X = {f}
        BY <3>2
      <4>2. CASE f \in Lost
        <5>1. Lost \cup X = Lost
          BY <4>1, <4>2
        <5> QED BY <2>5, <5>1
      <4>3. CASE f \notin Lost
        <5>1. IsFiniteSet(Lost \cup {f}) /\ Cardinality(Lost \cup {f}) = Cardinality(Lost) + 1
          BY <2>5, <4>3, FS_AddElement
        <5> QED BY <2>5, <4>1, <5>1
      <4> QED BY <4>2, <4>3
    <3> QED BY <2>2, <3>1, <3>2, ZenonT(60)
  <2>7. Cardinality(Lost') <= Cardinality(Lost \cup X)
    BY <2>4, <2>6, FS_Subset
  <2>8. Cardinality(Lost') <= Cardinality(Lost) + 1
    BY <2>5, <2>6, <2>7
  <2> QED BY <1>3, <2>1, <2>3, <2>5, <2>8, ZenonT(60)
<1>4. CASE /\ m.ok = TRUE
           /\ \E f \in free, T \in SUBSET free :
                 /\ f \notin T /\ m.free = free \ (T \cup {f})
                 /\ Grows(spaces[root], SpaceOf(m), v, Leaf(kind, f, writable), T)
  <2>1. PICK f \in free, T \in SUBSET free :
                 /\ f \notin T /\ m.free = free \ (T \cup {f})
                 /\ Grows(spaces[root], SpaceOf(m), v, Leaf(kind, f, writable), T)
    BY <1>4, ZenonT(60)
  <2> DEFINE leaf == Leaf(kind, f, writable)
             t == SpaceOf(m)
  <2>2. leaf \in Leaves /\ leaf.frame = f /\ leaf.kind = kind
    <3>1. f \in Int
      BY <1>1
    <3> QED BY <3>1 DEF Leaf, Leaves
  <2> HIDE DEF leaf, t
  <2>3. Replaced(spaces, root, t, spaces')
    BY <1>1, ZenonT(60) DEF Replaced, t
  <2>4. Grows(spaces[root], t, v, leaf, T) /\ free' = free \ (T \cup {f})
    BY <2>1, ZenonT(60) DEF t, leaf
  <2>5. /\ Owned(spaces', free \ (T \cup {f}), dma, ram)
        /\ LostFrames(spaces', free \ (T \cup {f}), dma, ram) \subseteq LostFrames(spaces, free, dma, ram)
    BY <1>1, <2>1, <2>2, <2>3, <2>4, GrowOwned, ZenonT(60)
  <2>6. Owned(spaces, free, dma, ram)' /\ Lost' \subseteq Lost
    BY <2>4, <2>5, ZenonT(60) DEF Lost
  <2>7. Cardinality(Lost') \in Nat /\ Cardinality(Lost') <= Cardinality(Lost)
    BY <1>1, <2>6, LostFinite, ZenonT(60) DEF Lost
  <2>8. PageAdded(spaces, spaces', root, v, leaf)
    BY <2>3, <2>4, ZenonT(60) DEF PageAdded, Replaced, Grows
  <2> QED BY <1>4, <2>2, <2>6, <2>7, <2>8, ZenonT(60)
<1> QED BY <1>2, <1>3, <1>4, ZenonT(60) DEF FreshTo

\* A page of device memory.
LEMMA DeviceStep ==
    ASSUME MemInv, NEW root \in Roots, NEW v \in Page,
           NEW m, m = MapChecked(Mapper(root), v, Leaf("mmio", DevicePage(v), TRUE)),
           spaces' = [spaces EXCEPT ![root] = SpaceOf(m)],
           free' = m.free, dma' = dma, ram' = ram
    PROVE  /\ Owned(spaces, free, dma, ram)'
           /\ Cardinality(Lost') \in Nat /\ Cardinality(Lost') <= Cardinality(Lost)
           /\ \/ m.ok = FALSE /\ spaces' = spaces
              \/ /\ m.ok = TRUE
                 /\ \E leaf \in Leaves : PageAdded(spaces, spaces', root, v, leaf) /\ leaf.kind = "mmio"
<1> DEFINE leaf == Leaf("mmio", DevicePage(v), TRUE)
           t == SpaceOf(m)
<1>1. /\ free \subseteq Nat /\ spaces[root] \in SpaceType /\ ram \in Nat
      /\ Owned(spaces, free, dma, ram) /\ root \in DOMAIN spaces /\ spaces \in [DOMAIN spaces -> SpaceType]
  BY FreeFinite, ZenonT(60) DEF MemInv, Roots, Owned, Placed
<1>2. leaf \in Leaves /\ leaf.kind = "mmio" /\ leaf.frame = DevicePage(v)
  BY DEF Leaf, Leaves, DevicePage, Page
<1>3. m = MapChecked(Mapper(root), v, leaf)
  OBVIOUS
<1> HIDE DEF leaf
<1>4. MapsTo(spaces[root], free, v, leaf, m)
  BY <1>1, <1>2, <1>3, MapCheckedGrows, ZenonT(60)
<1>5. CASE m.ok = FALSE /\ SpaceOf(m) = spaces[root] /\ m.free = free
  <2>1. spaces' = spaces /\ free' = free
    BY <1>1, <1>5, ZenonT(60)
  <2>2. Lost' = Lost
    BY <2>1, ZenonT(60) DEF Lost
  <2>3. Cardinality(Lost) \in Nat
    BY <1>1, LostFinite DEF Lost
  <2>4. Owned(spaces, free, dma, ram)'
    BY <1>1, <2>1, ZenonT(60)
  <2>5. Cardinality(Lost') \in Nat /\ Cardinality(Lost') <= Cardinality(Lost)
    BY <2>2, <2>3
  <2> QED BY <1>5, <2>1, <2>4, <2>5, ZenonT(60)
<1>6. CASE m.ok = TRUE /\ \E T \in SUBSET free : Grows(spaces[root], SpaceOf(m), v, leaf, T) /\ m.free = free \ T
  <2>1. PICK T \in SUBSET free : Grows(spaces[root], t, v, leaf, T) /\ free' = free \ T
    BY <1>6, ZenonT(60)
  <2>2. Replaced(spaces, root, t, spaces')
    BY <1>1, ZenonT(60) DEF Replaced
  <2> HIDE DEF t
  <2>3. /\ Owned(spaces', free \ T, dma, ram)
        /\ LostFrames(spaces', free \ T, dma, ram) \subseteq LostFrames(spaces, free, dma, ram)
    BY <1>1, <1>2, <2>1, <2>2, GrowOwned, ZenonT(60)
  <2>4. Owned(spaces, free, dma, ram)' /\ Lost' \subseteq Lost
    BY <2>1, <2>3, ZenonT(60) DEF Lost
  <2>5. Cardinality(Lost') \in Nat /\ Cardinality(Lost') <= Cardinality(Lost)
    BY <1>1, <2>4, LostFinite, ZenonT(60) DEF Lost
  <2>6. PageAdded(spaces, spaces', root, v, leaf)
    BY <2>1, <2>2, ZenonT(60) DEF PageAdded, Replaced, Grows
  <2> QED BY <1>2, <1>6, <2>4, <2>5, <2>6, ZenonT(60)
<1> QED BY <1>4, <1>5, <1>6, ZenonT(60) DEF MapsTo

\* A clone.
LEMMA CloneStep ==
    ASSUME MemInv, NEW root \in Roots, CanClone(root),
           spaces' = With(spaces, Cloned(root).root, Cloned(root).space),
           free' = Cloned(root).free, dma' = dma, ram' = ram
    PROVE  /\ Owned(spaces, free, dma, ram)'
           /\ Cardinality(Lost') \in Nat /\ Cardinality(Lost') <= Cardinality(Lost)
           /\ SpaceAdded(spaces, spaces', root, Cloned(root).root)
<1> DEFINE c == Cloned(root).root
           t == Cloned(root).space
<1>1. /\ free \subseteq Nat /\ spaces[root] \in SpaceType /\ ram \in Nat /\ IsFiniteSet(free)
      /\ Owned(spaces, free, dma, ram) /\ root \in DOMAIN spaces /\ 0 \notin free
  BY FreeFinite DEF MemInv, Roots
<1>2. PICK T \in SUBSET free : /\ c \in free \ T /\ Copies(spaces[root], t, T)
                               /\ Cloned(root).free = free \ (T \cup {c})
  BY <1>1, ClonedCopies, ZenonT(60)
<1>3. spaces' = With(spaces, c, t) /\ free' = free \ (T \cup {c})
  BY <1>2, ZenonT(60)
<1> HIDE DEF c, t
<1>4. /\ Owned(spaces', free \ (T \cup {c}), dma, ram)
      /\ LostFrames(spaces', free \ (T \cup {c}), dma, ram) \subseteq LostFrames(spaces, free, dma, ram)
  BY <1>1, <1>2, <1>3, CloneOwned, ZenonT(60)
<1>5. Owned(spaces, free, dma, ram)' /\ Lost' \subseteq Lost
  BY <1>3, <1>4, ZenonT(60) DEF Lost
<1>6. Cardinality(Lost') \in Nat /\ Cardinality(Lost') <= Cardinality(Lost)
  BY <1>1, <1>5, LostFinite, ZenonT(60) DEF Lost
<1>7. c \notin DOMAIN spaces /\ c # 0
  BY <1>1, <1>2, ZenonT(60) DEF Owned, Apart
<1>8. SpaceAdded(spaces, spaces', root, c)
  BY <1>1, <1>2, <1>3, <1>7, ZenonT(60) DEF SpaceAdded, With, Copies
<1> QED BY <1>5, <1>6, <1>8 DEF c

\* DMA memory.
LEMMA DmaStep ==
    ASSUME MemInv, NEW n \in Nat, allocate_dma(n)
    PROVE  MemInv' /\ spaces' = spaces
<1>1. PICK X \in SUBSET free : free' = free \ X /\ dma' = dma \cup X
  BY ZenonT(60) DEF allocate_dma
<1>2. UNCHANGED <<ram, spaces, failures>>
  BY DEF allocate_dma
<1>3. Owned(spaces, free, dma, ram) /\ ram \in Nat
  BY FreeFinite DEF MemInv
<1>4. /\ Owned(spaces, free \ X, dma \cup X, ram)
      /\ LostFrames(spaces, free \ X, dma \cup X, ram) \subseteq LostFrames(spaces, free, dma, ram)
  BY <1>3, DmaOwned, ZenonT(60)
<1>5. Owned(spaces, free, dma, ram)' /\ Lost' \subseteq Lost
  BY <1>1, <1>2, <1>4 DEF Lost
<1>6. Cardinality(Lost') \in Nat /\ Cardinality(Lost') <= Cardinality(Lost) /\ Cardinality(Lost) \in Nat
  BY <1>3, <1>5, LostFinite DEF Lost
<1> QED BY <1>2, <1>5, <1>6 DEF MemInv

-----------------------------------------------------------------------------
(* The steps, as the address spaces see them *)

\* No page of the space at r is a user page.
NoUser(S, r) == \A v \in DOMAIN S[r].map : S[r].map[v].kind # "user"

\* Everything that is mapped in s is mapped in t, and alike.
Within(s, t) == \A v \in DOMAIN s.map : v \in DOMAIN t.map /\ t.map[v] = s.map[v]

\* Where kernel_main is before the first process, and while one is loaded and runs.
Early == {"mm", "disk", "request", "apic"}
Exits == {None, 0} \cup ExitCodes
InProcess == {"enter", "switch", "name", "user", "leave", "restore", "exited"}

\* Where its process is Running, and where its tables are active.
Runs == {"switch", "name", "user", "leave", "restore", "exited"}
Own == {"name", "user", "leave", "restore"}

\* The root of the tables that belong to the kernel.
kroot == IF kernel_space # 0 THEN kernel_space ELSE cr3

\* No user page is in two address spaces.
Private(S) ==
    \A r, s \in DOMAIN S : r # s =>
       \A v \in DOMAIN S[r].map, w \in DOMAIN S[s].map :
          S[r].map[v].kind = "user" /\ S[s].map[w].kind = "user"
             => S[r].map[v].frame # S[s].map[w].frame

\* What is mapped where.
SpacesInv ==
    /\ Private(spaces)
    /\ NoUser(spaces, kroot)
    /\ pc \in Early => \A r \in Roots : NoUser(spaces, r)
    /\ space # 0 => Within(spaces[kernel_space], spaces[space])
    /\ \A p \in DOMAIN processes : Within(spaces[kernel_space], spaces[processes[p].cr3])

\* How far mm::init has come, and the pages its loops still have to map.
MMPhase ==
    /\ cr3 \in Roots
    /\ booted \in {"start", "verified", "owned", "heap", "ready", "panic"}
    /\ next_mmio \in MMIO_START .. MaxPage + 1 /\ rest \subseteq Page
    /\ booted \in {"start", "verified", "owned"} => rest = {}
    /\ booted = "heap" => rest \subseteq HeapPages
    /\ booted = "ready" => rest \subseteq MMIO_START .. MaxPage

\* How far kernel_main has come, and what it says of the processes.
ProcPhase ==
    /\ pc \in Early \cup InProcess \cup {"load", "shell", "panic"} /\ who \in {"init", "gui"}
    /\ pc = "mm" => booted \notin {"ready", "panic"}
    /\ pc \notin {"mm", "panic"} => booted = "ready"
    /\ pc \in Early => who = "init" /\ kernel_space = 0 /\ space = 0
    /\ who = "init" => Len(processes) = IF pc \in InProcess THEN 1 ELSE 0
    /\ who = "gui" => Len(processes) \in IF pc \in InProcess THEN {2} ELSE IF pc = "load" THEN {1} ELSE 1 .. 2
    /\ current = IF pc \in {"user", "leave"} THEN Len(processes) ELSE 0
    /\ image \in Seq([page : Nat, writable : BOOLEAN])
    /\ events \in 0 .. MaxEvents
    /\ kernel_space \in {0} \cup Roots /\ space \in {0} \cup Roots
    /\ space # 0 => kernel_space # 0 /\ space # kernel_space
    /\ pc \notin Own /\ kernel_space # 0 => cr3 = kernel_space
    /\ pc \in InProcess => space # 0 /\ processes[Len(processes)].cr3 = space
    /\ pc \in Own => cr3 = space
    /\ Len(processes) > 0 => kernel_space # 0
    /\ processes \in Seq([state : {"Ready", "Running", "Exited"}, cr3 : Int, exit : Exits])
    /\ exit_code \in {0} \cup ExitCodes
    /\ \A p \in DOMAIN processes :
          /\ processes[p].cr3 \in Roots
          /\ processes[p].state = "Running" <=> pc \in Runs /\ p = Len(processes)
    /\ pc # "user" => call = NoCall

\* Nothing is mapped or unmapped.
Still == spaces' = spaces /\ cr3' = cr3

\* It tries two frames and gives them back.
LEMMA VerifyStep ==
    ASSUME MemInv, MMPhase, verify_physical_memory
    PROVE  MemInv' /\ MMPhase' /\ Still
  BY DEF verify_physical_memory, MemInv, MMPhase, Roots, Lost, Still

\* take_ownership clones the bootloader's tables.
LEMMA OwnStep ==
    ASSUME MemInv, MMPhase, take_ownership
    PROVE  MemInv' /\ MMPhase' /\ (Still \/ SpaceAdded(spaces, spaces', cr3, cr3'))
<1>1. /\ UNCHANGED <<ram, next_mmio, rest, dma, failures>> /\ booted = "verified"
      /\ cr3 \in Roots /\ rest = {} /\ rest \subseteq Page /\ next_mmio \in MMIO_START .. MaxPage + 1
  BY DEF take_ownership, MMPhase
<1>2. CASE CanClone(cr3)
  <2>1. /\ spaces' = With(spaces, Cloned(cr3).root, Cloned(cr3).space) /\ free' = Cloned(cr3).free
        /\ cr3' = Cloned(cr3).root /\ booted' = "owned"
    BY <1>2 DEF take_ownership
  <2>2. /\ Owned(spaces, free, dma, ram)'
        /\ Cardinality(Lost') \in Nat /\ Cardinality(Lost') <= Cardinality(Lost)
        /\ SpaceAdded(spaces, spaces', cr3, Cloned(cr3).root)
    BY <1>1, <1>2, <2>1, CloneStep, ZenonT(60)
  <2>3. Cardinality(Lost) \in Nat
    BY FreeFinite, LostFinite DEF Lost
  <2>4. MemInv'
    BY <1>1, <2>2, <2>3 DEF MemInv
  <2>5. cr3' \in DOMAIN spaces'
    BY <2>1, <2>2, ZenonT(60) DEF SpaceAdded
  <2>6. MMPhase'
    BY <1>1, <2>1, <2>5, ZenonT(60) DEF MMPhase, Roots
  <2> QED BY <2>1, <2>2, <2>4, <2>6
<1>3. CASE ~CanClone(cr3)
  BY <1>1, <1>3, ZenonT(60) DEF take_ownership, MemInv, MMPhase, Roots, Lost, Still
<1> QED BY <1>2, <1>3

\* map_heap begins, ...
LEMMA HeapStep ==
    ASSUME MemInv, MMPhase, map_heap
    PROVE  MemInv' /\ MMPhase' /\ Still
<1>1. HeapPages \subseteq Page
  BY AddressSpacesAssumption DEF HeapPages, Page
<1>2. MemInv' /\ Still
  BY DEF map_heap, MemInv, Lost, Still
<1>3. MMPhase'
  BY <1>1 DEF map_heap, MMPhase, Roots
<1> QED BY <1>2, <1>3

\* ... maps a page ...
LEMMA HeapPageStep ==
    ASSUME MemInv, MMPhase, map_heap_page
    PROVE  /\ MemInv' /\ MMPhase' /\ cr3' = cr3
           /\ Still \/ \E v \in HeapPages, leaf \in Leaves :
                          PageAdded(spaces, spaces', cr3, v, leaf) /\ leaf.kind = "heap"
<1> DEFINE v == Min(rest)
           m == MapFresh(Mapper(cr3), v, "heap", TRUE)
<1>1. /\ UNCHANGED <<ram, cr3, next_mmio, dma, failures>> /\ booted = "heap" /\ rest # {}
      /\ cr3 \in Roots /\ rest \subseteq HeapPages /\ rest \subseteq Page
      /\ next_mmio \in MMIO_START .. MaxPage + 1
  BY DEF map_heap_page, MMPhase
<1>2. v \in rest
  <2>1. rest \subseteq Nat
    BY <1>1 DEF Page
  <2> QED BY <1>1, <2>1, MinIn, ZenonT(60)
<1>3. CASE m.ok
  <2>1. /\ spaces' = [spaces EXCEPT ![cr3] = SpaceOf(m)] /\ free' = m.free /\ rest' = rest \ {v}
        /\ booted' = booted
    BY <1>3, ZenonT(60) DEF map_heap_page
  <2> HIDE DEF v
  <2>2. /\ Owned(spaces, free, dma, ram)'
        /\ \/ /\ m.ok = FALSE /\ spaces' = spaces
              /\ Cardinality(Lost') \in Nat /\ Cardinality(Lost') <= Cardinality(Lost) + 1
           \/ /\ m.ok = TRUE
              /\ Cardinality(Lost') \in Nat /\ Cardinality(Lost') <= Cardinality(Lost)
              /\ \E leaf \in Leaves : /\ PageAdded(spaces, spaces', cr3, v, leaf)
                                      /\ leaf.kind = "heap" /\ leaf.frame \in free
    <3>1. v \in Page
      BY <1>1, <1>2
    <3> HIDE DEF m
    <3>2. m = MapFresh(Mapper(cr3), v, "heap", TRUE)
      BY DEF m
    <3> QED BY <1>1, <2>1, <3>1, <3>2, FreshStep, ZenonT(60)
  <2> HIDE DEF m
  <2>3. PICK leaf \in Leaves : PageAdded(spaces, spaces', cr3, v, leaf) /\ leaf.kind = "heap"
    BY <1>3, <2>2
  <2>4. Cardinality(Lost') \in Nat /\ Cardinality(Lost') <= Cardinality(Lost) /\ Cardinality(Lost) \in Nat
    BY <1>3, <2>2, FreeFinite, LostFinite, ZenonT(60) DEF Lost
  <2>5. MemInv'
    <3>1. ram' = ram /\ failures' = failures
      BY <1>1
    <3>2. ram \in RamSizes /\ failures \in Nat /\ Cardinality(Lost) <= failures
      BY <1>1 DEF MemInv
    <3>3. Cardinality(Lost') <= failures'
      BY <2>4, <3>1, <3>2
    <3> QED BY <2>2, <3>1, <3>2, <3>3, ZenonT(60) DEF MemInv
  <2>6. DOMAIN spaces' = DOMAIN spaces
    BY <2>3 DEF PageAdded
  <2>7. MMPhase'
    BY <1>1, <2>1, <2>6 DEF MMPhase, Roots
  <2> QED BY <1>1, <1>2, <2>3, <2>5, <2>7
<1>4. CASE ~m.ok
  <2>1. booted' = "panic" /\ UNCHANGED <<spaces, free, rest>>
    BY <1>4 DEF map_heap_page
  <2> QED BY <1>1, <2>1, ZenonT(60) DEF MemInv, MMPhase, Roots, Lost, Still
<1> QED BY <1>3, <1>4, ZenonT(60)

\* ... and ends.
LEMMA HeapDoneStep ==
    ASSUME MemInv, MMPhase, map_heap_done
    PROVE  MemInv' /\ MMPhase' /\ Still
<1>1. MemInv' /\ Still
  BY DEF map_heap_done, MemInv, Lost, Still
<1>2. MMPhase'
  BY DEF map_heap_done, MMPhase, Roots
<1> QED BY <1>1, <1>2

\* map_mmio reserves addresses ...
LEMMA ReserveStep ==
    ASSUME MemInv, MMPhase, NEW n \in Nat \ {0}, map_mmio(n)
    PROVE  MemInv' /\ MMPhase' /\ Still
<1>1. MemInv' /\ Still
  BY DEF map_mmio, MemInv, Lost, Still
<1>2. MMPhase'
  BY AddressSpacesAssumption DEF map_mmio, MMPhase, Roots, Page
<1> QED BY <1>1, <1>2

\* ... and maps a page.
LEMMA MmioPageStep ==
    ASSUME MemInv, MMPhase, NEW ok, map_mmio_page(ok)
    PROVE  /\ MemInv' /\ MMPhase' /\ cr3' = cr3
           /\ Still \/ \E v \in MMIO_START .. MaxPage, leaf \in Leaves :
                          PageAdded(spaces, spaces', cr3, v, leaf) /\ leaf.kind = "mmio"
<1> DEFINE v == Min(rest)
           m == MapChecked(Mapper(cr3), v, Leaf("mmio", DevicePage(v), TRUE))
<1>1. /\ UNCHANGED <<ram, cr3, next_mmio, dma, booted, failures>> /\ booted = "ready" /\ rest # {}
      /\ cr3 \in Roots /\ rest \subseteq MMIO_START .. MaxPage /\ rest \subseteq Page
      /\ next_mmio \in MMIO_START .. MaxPage + 1
  BY ZenonT(60) DEF map_mmio_page, MMPhase
<1>2. v \in rest
  <2>1. rest \subseteq Nat
    BY <1>1 DEF Page
  <2> QED BY <1>1, <2>1, MinIn, ZenonT(60)
<1>3. /\ spaces' = [spaces EXCEPT ![cr3] = SpaceOf(m)] /\ free' = m.free
      /\ rest' \subseteq rest
  BY ZenonT(60) DEF map_mmio_page
<1> HIDE DEF v
<1>4. /\ Owned(spaces, free, dma, ram)'
      /\ Cardinality(Lost') \in Nat /\ Cardinality(Lost') <= Cardinality(Lost)
      /\ \/ m.ok = FALSE /\ spaces' = spaces
         \/ /\ m.ok = TRUE
            /\ \E leaf \in Leaves : PageAdded(spaces, spaces', cr3, v, leaf) /\ leaf.kind = "mmio"
  <2>1. v \in Page
    BY <1>1, <1>2
  <2>2. m = MapChecked(Mapper(cr3), v, Leaf("mmio", DevicePage(v), TRUE))
    OBVIOUS
  <2> HIDE DEF m
  <2> QED BY <1>1, <1>3, <2>1, <2>2, DeviceStep, ZenonT(60)
<1> HIDE DEF m
<1>5. Cardinality(Lost) \in Nat
  BY FreeFinite, LostFinite DEF Lost
<1>6. MemInv'
  BY <1>1, <1>4, <1>5 DEF MemInv
<1>7. DOMAIN spaces' = DOMAIN spaces
  BY <1>4, ZenonT(60) DEF PageAdded
<1>8. MMPhase'
  BY <1>1, <1>3, <1>7 DEF MMPhase, Roots
<1>9. v \in MMIO_START .. MaxPage
  BY <1>1, <1>2
<1> QED BY <1>1, <1>4, <1>6, <1>8, <1>9, ZenonT(60) DEF Still

\* create_user_address_space
LEMMA CreateStep ==
    ASSUME MemInv, MMPhase, create_user_address_space
    PROVE  MemInv' /\ MMPhase' /\ cr3' = cr3 /\ \E c : SpaceAdded(spaces, spaces', cr3, c)
<1>1. /\ UNCHANGED <<ram, cr3, next_mmio, rest, dma, booted, failures>> /\ CanClone(cr3)
      /\ spaces' = With(spaces, Cloned(cr3).root, Cloned(cr3).space)
      /\ free' = Cloned(cr3).free /\ cr3 \in Roots
  BY DEF create_user_address_space, MMPhase, CanCreate
<1>2. /\ Owned(spaces, free, dma, ram)'
      /\ Cardinality(Lost') \in Nat /\ Cardinality(Lost') <= Cardinality(Lost)
      /\ SpaceAdded(spaces, spaces', cr3, Cloned(cr3).root)
  BY <1>1, CloneStep, ZenonT(60)
<1>3. Cardinality(Lost) \in Nat
  BY FreeFinite, LostFinite DEF Lost
<1>4. MemInv'
  BY <1>1, <1>2, <1>3 DEF MemInv
<1>5. DOMAIN spaces \subseteq DOMAIN spaces'
  BY <1>2, ZenonT(60) DEF SpaceAdded
<1>6. MMPhase'
  BY <1>1, <1>5, ZenonT(60) DEF MMPhase, Roots
<1> QED BY <1>1, <1>2, <1>4, <1>6

\* map_user_page
LEMMA UserPageStep ==
    ASSUME MemInv, MMPhase, NEW root \in Roots, NEW v \in Nat, NEW writable \in BOOLEAN,
           map_user_page(root, v, writable)
    PROVE  /\ MemInv' /\ MMPhase' /\ cr3' = cr3
           /\ \/ spaces' = spaces
              \/ /\ v < USER_LIMIT
                 /\ \E leaf \in Leaves : /\ PageAdded(spaces, spaces', root, v, leaf)
                                         /\ leaf.kind = "user" /\ leaf.frame \in free
<1> DEFINE m == UserPage(root, v, writable)
<1>1. /\ UNCHANGED <<ram, cr3, next_mmio, rest, dma, booted>> /\ booted = "ready"
      /\ spaces' = [spaces EXCEPT ![root] = SpaceOf(m)] /\ free' = m.free
      /\ failures' = failures + (IF m.ok THEN 0 ELSE 1)
  BY DEF map_user_page
<1>2. spaces \in [DOMAIN spaces -> SpaceType] /\ root \in DOMAIN spaces /\ ram \in Nat
  BY FreeFinite, ZenonT(60) DEF MemInv, Owned, Placed, Roots
<1>3. Cardinality(Lost) \in Nat /\ failures \in Nat /\ Cardinality(Lost) <= failures /\ ram \in RamSizes
  BY <1>2, LostFinite DEF Lost, MemInv
<1>4. CASE v >= USER_LIMIT
  <2>1. SpaceOf(m) = spaces[root] /\ m.free = free /\ m.ok = FALSE
    <3>1. m = [tables |-> spaces[root].tables, map |-> spaces[root].map, free |-> free, ok |-> FALSE]
      BY <1>4, ZenonT(60) DEF UserPage, Failed, Mapper
    <3>2. spaces[root] \in SpaceType
      BY <1>2
    <3> QED BY ONLY <3>1, <3>2, SpaceParts DEF SpaceOf
  <2> HIDE DEF m
  <2>2. spaces' = spaces /\ free' = free /\ failures' = failures + 1
    BY <1>1, <1>2, <2>1
  <2>3. Lost' = Lost /\ Owned(spaces, free, dma, ram)'
    BY <1>1, <2>2 DEF Lost, MemInv
  <2>4. MemInv'
    BY ONLY <1>1, <1>3, <2>2, <2>3 DEF MemInv
  <2>5. MMPhase'
    BY <1>1, <2>2 DEF MMPhase, Roots
  <2> QED BY <1>1, <2>2, <2>4, <2>5, ZenonT(60)
<1>5. CASE v < USER_LIMIT
  <2>1. m = MapFresh(Mapper(root), v, "user", writable) /\ v \in Page
    BY <1>5, AddressSpacesAssumption DEF UserPage, Page
  <2> HIDE DEF m
  <2>2. /\ Owned(spaces, free, dma, ram)'
        /\ \/ /\ m.ok = FALSE /\ spaces' = spaces
              /\ Cardinality(Lost') \in Nat /\ Cardinality(Lost') <= Cardinality(Lost) + 1
           \/ /\ m.ok = TRUE
              /\ Cardinality(Lost') \in Nat /\ Cardinality(Lost') <= Cardinality(Lost)
              /\ \E leaf \in Leaves : /\ PageAdded(spaces, spaces', root, v, leaf)
                                      /\ leaf.kind = "user" /\ leaf.frame \in free
    BY <1>1, <2>1, FreshStep, ZenonT(60)
  <2>3. MemInv'
    <3>1. ram' \in RamSizes
      BY <1>1, <1>3
    <3>2. failures' \in Nat /\ Cardinality(Lost') <= failures'
      <4>1. CASE m.ok = FALSE
        <5>1. failures' = failures + 1
          BY <1>1, <4>1
        <5>2. Cardinality(Lost') \in Nat /\ Cardinality(Lost') <= Cardinality(Lost) + 1
          BY <2>2, <4>1, ZenonT(60)
        <5> QED BY <1>3, <5>1, <5>2
      <4>2. CASE m.ok = TRUE
        <5>1. failures' = failures
          BY <1>1, <1>3, <4>2
        <5>2. Cardinality(Lost') \in Nat /\ Cardinality(Lost') <= Cardinality(Lost)
          BY <2>2, <4>2, ZenonT(60)
        <5> QED BY <1>3, <5>1, <5>2
      <4> QED BY <2>2, <4>1, <4>2, ZenonT(60)
    <3> QED BY <2>2, <3>1, <3>2, ZenonT(60) DEF MemInv
  <2>4. DOMAIN spaces' = DOMAIN spaces
    BY <2>2, ZenonT(60) DEF PageAdded
  <2>5. MMPhase'
    BY <1>1, <2>4, ZenonT(60) DEF MMPhase, Roots
  <2> QED BY <1>1, <1>5, <2>2, <2>3, <2>5, ZenonT(60)
<1>6. USER_LIMIT \in Nat
  BY AddressSpacesAssumption
<1> QED BY <1>4, <1>5, <1>6

\* activate_address_space
LEMMA ActivateStep ==
    ASSUME MemInv, MMPhase, NEW root \in Roots, activate_address_space(root)
    PROVE  MemInv' /\ MMPhase' /\ spaces' = spaces /\ cr3' = root
<1>1. MemInv' /\ spaces' = spaces /\ cr3' = root
  BY DEF activate_address_space, MemInv, Lost
<1>2. MMPhase'
  BY DEF activate_address_space, MMPhase, Roots
<1> QED BY <1>1, <1>2

\* A step of which the memory manager knows nothing.
LEMMA MMStill ==
    ASSUME MemInv, MMPhase, UNCHANGED mmVars
    PROVE  MemInv' /\ MMPhase' /\ Still
<1>1. MemInv' /\ Still
  BY DEF mmVars, MemInv, Lost, Still
<1>2. MMPhase'
  BY DEF mmVars, MMPhase, Roots
<1> QED BY <1>1, <1>2

-----------------------------------------------------------------------------
(* What the steps leave of the address spaces *)

\* A page more, which if it is a user page has a fresh frame.
LEMMA AddedKeeps ==
    ASSUME NEW S, NEW S2, NEW r, NEW v, NEW leaf, PageAdded(S, S2, r, v, leaf), Private(S),
           leaf.kind # "user" \/ \A q, w : ~PageAt(S, q, w, leaf.frame)
    PROVE  /\ Private(S2) /\ DOMAIN S2 = DOMAIN S
           /\ \A q \in DOMAIN S : NoUser(S, q) /\ (q # r \/ leaf.kind # "user") => NoUser(S2, q)
           /\ \A p, q \in DOMAIN S : Within(S[p], S[q]) /\ p # r => Within(S2[p], S2[q])
<1>2. Private(S2)
  <2> SUFFICES ASSUME NEW p \in DOMAIN S2, NEW q \in DOMAIN S2, p # q,
                      NEW u \in DOMAIN S2[p].map, NEW w \in DOMAIN S2[q].map,
                      S2[p].map[u].kind = "user", S2[q].map[w].kind = "user",
                      S2[p].map[u].frame = S2[q].map[w].frame
               PROVE  FALSE
    BY ZenonT(60) DEF Private
  <2>1. \A k \in DOMAIN S2 : \A j \in DOMAIN S2[k].map :
           \/ k = r /\ j = v /\ S2[k].map[j] = leaf
           \/ k \in DOMAIN S /\ j \in DOMAIN S[k].map /\ S2[k].map[j] = S[k].map[j]
    BY ZenonT(60) DEF PageAdded
  <2>2. CASE p = r /\ u = v
    <3>1. q \in DOMAIN S /\ w \in DOMAIN S[q].map /\ S2[q].map[w] = S[q].map[w]
      BY <2>1, <2>2, ZenonT(60)
    <3>2. PageAt(S, q, w, leaf.frame)
      BY <2>2, <3>1, ZenonT(60) DEF PageAt, PageAdded
    <3> QED BY <2>2, <3>2, ZenonT(60) DEF PageAdded
  <2>3. CASE q = r /\ w = v
    <3>1. p \in DOMAIN S /\ u \in DOMAIN S[p].map /\ S2[p].map[u] = S[p].map[u]
      BY <2>1, <2>3, ZenonT(60)
    <3>2. PageAt(S, p, u, leaf.frame)
      BY <2>3, <3>1, ZenonT(60) DEF PageAt, PageAdded
    <3> QED BY <2>3, <3>2, ZenonT(60) DEF PageAdded
  <2>4. CASE ~(p = r /\ u = v) /\ ~(q = r /\ w = v)
    <3>1. p \in DOMAIN S /\ u \in DOMAIN S[p].map /\ S2[p].map[u] = S[p].map[u]
      BY <2>1, <2>4, ZenonT(60)
    <3>2. q \in DOMAIN S /\ w \in DOMAIN S[q].map /\ S2[q].map[w] = S[q].map[w]
      BY <2>1, <2>4, ZenonT(60)
    <3> QED BY <3>1, <3>2, ZenonT(60) DEF Private
  <2> QED BY <2>2, <2>3, <2>4, ZenonT(60)
<1>3. \A q \in DOMAIN S : NoUser(S, q) /\ (q # r \/ leaf.kind # "user") => NoUser(S2, q)
  BY ZenonT(60) DEF NoUser, PageAdded
<1>4. \A p, q \in DOMAIN S : Within(S[p], S[q]) /\ p # r => Within(S2[p], S2[q])
  BY ZenonT(60) DEF Within, PageAdded
<1> QED BY <1>2, <1>3, <1>4, ZenonT(60) DEF PageAdded

\* A clone of a space without user pages.
LEMMA ClonedKeeps ==
    ASSUME NEW S, NEW S2, NEW r, NEW c, SpaceAdded(S, S2, r, c), Private(S), NoUser(S, r)
    PROVE  /\ Private(S2) /\ NoUser(S2, c) /\ DOMAIN S2 = DOMAIN S \cup {c}
           /\ Within(S2[r], S2[c]) /\ c \notin DOMAIN S
           /\ \A q \in DOMAIN S : NoUser(S, q) => NoUser(S2, q)
           /\ \A p, q \in DOMAIN S : Within(S[p], S[q]) => Within(S2[p], S2[q])
<1>1. NoUser(S2, c)
  BY ZenonT(60) DEF SpaceAdded, NoUser
<1>2. Private(S2)
  <2>1. DOMAIN S2 = DOMAIN S \cup {c} /\ \A q \in DOMAIN S : S2[q] = S[q]
    BY ZenonT(60) DEF SpaceAdded
  <2> QED BY ONLY <1>1, <2>1, Private(S) DEF Private, NoUser
<1>3. Within(S2[r], S2[c])
  BY ZenonT(60) DEF Within, SpaceAdded
<1>4. \A q \in DOMAIN S : NoUser(S, q) => NoUser(S2, q)
  BY ZenonT(60) DEF NoUser, SpaceAdded
<1>5. \A p, q \in DOMAIN S : Within(S[p], S[q]) => Within(S2[p], S2[q])
  BY ZenonT(60) DEF Within, SpaceAdded
<1> QED BY <1>1, <1>2, <1>3, <1>4, <1>5, ZenonT(60) DEF SpaceAdded

-----------------------------------------------------------------------------
(* System calls *)

\* The kernel's check of a range is a check of each of its bytes.
LEMMA AccessibleBytes ==
    ASSUME NEW a \in Nat, NEW n \in Nat, NEW w \in BOOLEAN
    PROVE  Accessible(a, n, w) <=> a .. a + n - 1 \subseteq MayAccess(w)
<1> DEFINE L == USER_LIMIT * PAGE
           Ok(p) == /\ p \in DOMAIN spaces[cr3].map
                    /\ spaces[cr3].map[p].kind = "user"
                    /\ w => spaces[cr3].map[p].writable
<1>0. PAGE \in Nat \ {0} /\ USER_LIMIT \in Nat /\ L \in Nat /\ U64 \in Nat /\ L <= U64
  BY ProcessesAssumption, AddressSpacesAssumption
<1>1. \A b \in Int : b \in MayAccess(w) <=> b \in 0 .. L - 1 /\ Ok(b \div PAGE)
  BY <1>0, ZenonT(60) DEF MayAccess
<1>2. Accessible(a, n, w) <=> n = 0 \/ (/\ a + n - 1 < U64 /\ a < L /\ a + n - 1 < L
                                        /\ \A p \in a \div PAGE .. (a + n - 1) \div PAGE : Ok(p))
  BY ZenonT(60) DEF Accessible
<1> HIDE DEF L, Ok
<1>3. CASE n = 0
  BY <1>2, <1>3
<1>4. CASE n > 0
  <2> DEFINE last == a + n - 1
  <2>1. last \in Nat /\ a <= last
    BY <1>4
  <2>2. ASSUME Accessible(a, n, w), NEW b \in a .. last PROVE b \in MayAccess(w)
    <3>1. b \in Nat /\ b < L
      BY <1>0, <1>2, <1>4, <2>1, <2>2
    <3>2. a \div PAGE <= b \div PAGE /\ b \div PAGE <= last \div PAGE
          /\ {a \div PAGE, b \div PAGE, last \div PAGE} \subseteq Int
      BY <1>0, <2>1, <2>2, <3>1
    <3>3. Ok(b \div PAGE)
      BY <1>2, <1>4, <2>2, <3>2
    <3> QED BY <1>0, <1>1, <3>1, <3>3
  <2>3. ASSUME a .. last \subseteq MayAccess(w) PROVE Accessible(a, n, w)
    <3>1. a \in MayAccess(w) /\ last \in MayAccess(w)
      BY <2>1, <2>3
    <3>2. a < L /\ last < L /\ last < U64
      BY <1>0, <1>1, <2>1, <3>1
    <3>3. ASSUME NEW p \in a \div PAGE .. last \div PAGE PROVE Ok(p)
      <4>1. p \in Nat /\ a \div PAGE <= p /\ p <= last \div PAGE
        BY <1>0, <2>1, <3>3
      <4>2. PICK b \in a .. last : b \div PAGE = p
        <5>1. CASE a \div PAGE = p
          BY <2>1, <5>1
        <5>2. CASE a \div PAGE < p
          <6>1. p * PAGE \in Nat /\ (p * PAGE) \div PAGE = p
            BY <1>0, <4>1
          <6>2. p * PAGE <= last /\ a <= p * PAGE
            BY <1>0, <2>1, <4>1, <5>2
          <6> QED BY <2>1, <6>1, <6>2
        <5> QED BY <1>0, <4>1, <5>1, <5>2
      <4>3. b \in MayAccess(w) /\ b \in Int
        BY <2>1, <2>3, <4>2
      <4> QED BY <1>1, <4>2, <4>3
    <3> QED BY <1>2, <1>4, <3>2, <3>3
  <2> QED BY <2>2, <2>3
<1> QED BY <1>3, <1>4

-----------------------------------------------------------------------------
(* Every step keeps the invariant *)

\* The inductive invariant.
Inv == MemInv /\ MMPhase /\ ProcPhase /\ SpacesInv /\ CopiesStayInUserPages

\* Without a system call nothing is copied.
LEMMA NoCopy == ASSUME call' = NoCall PROVE CopiesStayInUserPages'
  BY ZenonT(60) DEF CopiesStayInUserPages, NoCall, None

\* A step that leaves the address spaces and the processes alone.
LEMMA SpacesStill ==
    ASSUME SpacesInv, Still, UNCHANGED <<space, kernel_space, processes, current>>,
           pc' \in Early => pc \in Early
    PROVE  SpacesInv'
  BY ZenonT(60) DEF SpacesInv, Still, kroot, Roots

\* Before a process is loaded there is none.
LEMMA EarlyFacts ==
    ASSUME ProcPhase, pc \in Early
    PROVE  /\ who = "init" /\ kernel_space = 0 /\ space = 0 /\ Len(processes) = 0 /\ current = 0
           /\ call = NoCall /\ processes = <<>>
<1>1. pc \notin InProcess /\ pc \notin {"user", "leave"} /\ pc # "user"
  BY ONLY pc \in Early DEF Early, InProcess
<1>2. /\ who = "init" /\ kernel_space = 0 /\ space = 0 /\ call = NoCall
      /\ processes \in Seq([state : {"Ready", "Running", "Exited"}, cr3 : Int, exit : Exits])
  BY <1>1, ZenonT(60) DEF ProcPhase
<1>3. Len(processes) = 0 /\ current = 0
  BY <1>1, <1>2, ZenonT(60) DEF ProcPhase
<1> QED BY ONLY <1>2, <1>3

\* Before a process is loaded.
LEMMA EarlyPhase ==
    ASSUME ProcPhase, pc \in Early, pc' \in Early \cup {"load", "panic"},
           pc' = "mm" => booted' \notin {"ready", "panic"},
           pc' \notin {"mm", "panic"} => booted' = "ready",
           UNCHANGED <<loadVars, processes, current, exit_code, events, call>>
    PROVE  ProcPhase' /\ call' = NoCall
<1>1. /\ who = "init" /\ kernel_space = 0 /\ space = 0 /\ Len(processes) = 0 /\ current = 0
      /\ call = NoCall /\ processes = <<>>
  BY EarlyFacts, ZenonT(60)
<1>2. UNCHANGED <<who, image, space, kernel_space, processes, current, exit_code, events, call>>
  BY DEF loadVars
<1>3. pc' \in Early \cup InProcess \cup {"load", "shell", "panic"} /\ pc' \notin InProcess
      /\ pc' \notin Own /\ pc' \notin Runs
  BY DEF Early, InProcess, Own, Runs
<1>4. pc' \notin {"user", "leave"}
  BY <1>3 DEF InProcess
<1>5. \A p \in DOMAIN processes' : FALSE
  BY <1>1, <1>2
<1>6. /\ image' \in Seq([page : Nat, writable : BOOLEAN]) /\ events' \in 0 .. MaxEvents
      /\ processes' \in Seq([state : {"Ready", "Running", "Exited"}, cr3 : Int, exit : Exits])
      /\ exit_code' \in {0} \cup ExitCodes
  BY <1>2, ZenonT(60) DEF ProcPhase
<1> QED BY <1>1, <1>2, <1>3, <1>4, <1>5, <1>6, ZenonT(60) DEF ProcPhase, Roots

\* A page of the kernel is mapped.
LEMMA EarlyAdded ==
    ASSUME SpacesInv, ProcPhase, pc \in Early, NEW v, NEW leaf, leaf.kind # "user",
           PageAdded(spaces, spaces', cr3, v, leaf), cr3' = cr3,
           UNCHANGED <<space, kernel_space, processes, current>>
    PROVE  SpacesInv'
<1>1. /\ space = 0 /\ processes = <<>> /\ kernel_space = 0 /\ Private(spaces)
      /\ \A r \in DOMAIN spaces : NoUser(spaces, r)
  BY EarlyFacts, ZenonT(60) DEF SpacesInv, Roots
<1>2. /\ Private(spaces') /\ DOMAIN spaces' = DOMAIN spaces
      /\ \A r \in DOMAIN spaces : NoUser(spaces, r) => NoUser(spaces', r)
  BY <1>1, AddedKeeps, ZenonT(60)
<1>3. cr3 \in DOMAIN spaces
  BY ZenonT(60) DEF PageAdded
<1> QED BY <1>1, <1>2, <1>3 DEF SpacesInv, kroot, Roots

\* The bootloader's tables are cloned.
LEMMA EarlyCloned ==
    ASSUME SpacesInv, ProcPhase, pc \in Early, SpaceAdded(spaces, spaces', cr3, cr3'),
           UNCHANGED <<space, kernel_space, processes, current>>
    PROVE  SpacesInv'
<1>1. /\ space = 0 /\ processes = <<>> /\ kernel_space = 0 /\ Private(spaces)
      /\ \A r \in DOMAIN spaces : NoUser(spaces, r)
  BY EarlyFacts, ZenonT(60) DEF SpacesInv, Roots
<1>2. cr3 \in DOMAIN spaces
  BY ZenonT(60) DEF SpaceAdded
<1>3. /\ Private(spaces') /\ DOMAIN spaces' = DOMAIN spaces \cup {cr3'}
      /\ NoUser(spaces', cr3')
      /\ \A r \in DOMAIN spaces : NoUser(spaces, r) => NoUser(spaces', r)
  BY <1>1, <1>2, ClonedKeeps, ZenonT(60)
<1> QED BY <1>1, <1>2, <1>3 DEF SpacesInv, kroot, Roots

\* mm::init
LEMMA StepMM == ASSUME Inv, mm_init PROVE Inv'
<1>1. MemInv /\ MMPhase /\ ProcPhase /\ SpacesInv
  BY DEF Inv
<1>2. /\ pc = "mm" /\ UNCHANGED <<loadVars, processes, current, exit_code, events, call>>
      /\ UNCHANGED <<space, kernel_space>>
      /\ pc' = CASE booted' = "ready" -> "disk" [] booted' = "panic" -> "panic" [] OTHER -> "mm"
  BY DEF mm_init, loadVars, runVars
<1>3. pc \in Early /\ pc' \in {"mm", "disk", "panic"} /\ (pc' = "mm" => booted' \notin {"ready", "panic"})
      /\ (pc' \notin {"mm", "panic"} => booted' = "ready")
  BY <1>2 DEF Early
<1>4. pc' \in Early \cup {"load", "panic"}
  BY <1>3 DEF Early
<1>5. ProcPhase' /\ call' = NoCall
  BY <1>1, <1>2, <1>3, <1>4, EarlyPhase
<1>6. MemInv' /\ MMPhase' /\ SpacesInv'
  <2>1. CASE verify_physical_memory \/ map_heap \/ map_heap_done
    <3>1. MemInv' /\ MMPhase' /\ Still
      BY <1>1, <2>1, VerifyStep, HeapStep, HeapDoneStep
    <3> QED BY <1>1, <1>2, <1>3, <3>1, SpacesStill
  <2>2. CASE take_ownership
    <3>1. MemInv' /\ MMPhase' /\ (Still \/ SpaceAdded(spaces, spaces', cr3, cr3'))
      BY <1>1, <2>2, OwnStep
    <3>2. CASE Still
      BY <1>1, <1>2, <1>3, <3>1, <3>2, SpacesStill
    <3>3. CASE SpaceAdded(spaces, spaces', cr3, cr3')
      BY <1>1, <1>2, <1>3, <3>1, <3>3, EarlyCloned
    <3> QED BY <3>1, <3>2, <3>3
  <2>3. CASE map_heap_page
    <3>1. /\ MemInv' /\ MMPhase' /\ cr3' = cr3
          /\ Still \/ \E v \in HeapPages, leaf \in Leaves :
                         PageAdded(spaces, spaces', cr3, v, leaf) /\ leaf.kind = "heap"
      BY <1>1, <2>3, HeapPageStep
    <3>2. CASE Still
      BY <1>1, <1>2, <1>3, <3>1, <3>2, SpacesStill
    <3>3. CASE \E v \in HeapPages, leaf \in Leaves :
                  PageAdded(spaces, spaces', cr3, v, leaf) /\ leaf.kind = "heap"
      <4>1. PICK v \in HeapPages, leaf \in Leaves :
                  PageAdded(spaces, spaces', cr3, v, leaf) /\ leaf.kind = "heap"
        BY <3>3
      <4>2. leaf.kind # "user"
        BY <4>1
      <4> QED BY <1>1, <1>2, <1>3, <3>1, <4>1, <4>2, EarlyAdded
    <3> QED BY <3>1, <3>2, <3>3
  <2> QED BY <2>1, <2>2, <2>3 DEF mm_init
<1> QED BY <1>5, <1>6, NoCopy DEF Inv

\* VirtioBlock::probe
LEMMA StepDisk == ASSUME Inv, probe_disk PROVE Inv'
<1>1. MemInv /\ MMPhase /\ ProcPhase /\ SpacesInv
  BY DEF Inv
<1>2. /\ pc \in {"disk", "request"} /\ pc' \in {"request", "apic"}
      /\ UNCHANGED <<loadVars, processes, current, exit_code, events, call>>
      /\ UNCHANGED <<space, kernel_space>>
  BY DEF probe_disk, loadVars, runVars
<1>3. MemInv' /\ MMPhase' /\ Still /\ booted' = booted
  <2>1. CASE UNCHANGED mmVars
    BY <1>1, <2>1, MMStill DEF mmVars
  <2>2. CASE \E n \in Nat : allocate_dma(n)
    <3>1. PICK n \in Nat : allocate_dma(n)
      BY <2>2
    <3>2. MemInv' /\ spaces' = spaces
      BY <1>1, <3>1, DmaStep
    <3>3. UNCHANGED <<cr3, next_mmio, rest, booted>>
      BY <3>1 DEF allocate_dma
    <3>4. MMPhase' /\ Still
      BY <1>1, <3>2, <3>3 DEF MMPhase, Still, Roots
    <3> QED BY <3>2, <3>3, <3>4
  <2>3. 1 \in Nat /\ RingPages \subseteq Nat
    BY ProcessesAssumption
  <2> QED BY <2>1, <2>2, <2>3 DEF probe_disk
<1>4. booted = "ready" /\ pc \in Early /\ pc' \in Early \cup {"load", "panic"}
  BY <1>1, <1>2, ZenonT(60) DEF ProcPhase, Early
<1>5. ProcPhase' /\ call' = NoCall
  BY <1>1, <1>2, <1>3, <1>4, EarlyPhase
<1>6. SpacesInv'
  BY <1>1, <1>2, <1>3, <1>4, SpacesStill
<1> QED BY <1>3, <1>5, <1>6, NoCopy DEF Inv

\* platform::init
LEMMA StepApic == ASSUME Inv, init_apic PROVE Inv'
<1>1. MemInv /\ MMPhase /\ ProcPhase /\ SpacesInv
  BY DEF Inv
<1>2. /\ pc = "apic" /\ pc' \in {"apic", "load", "panic"}
      /\ UNCHANGED <<loadVars, processes, current, exit_code, events, call>>
      /\ UNCHANGED <<space, kernel_space>>
  BY ZenonT(60) DEF init_apic, loadVars
<1>3. booted = "ready" /\ pc \in Early /\ pc' \in Early \cup {"load", "panic"}
  BY <1>1, <1>2, ZenonT(60) DEF ProcPhase, Early
<1>4. CASE \E n \in MmioPages : map_mmio(n)
  <2>1. PICK n \in Nat \ {0} : map_mmio(n)
    BY <1>4, ProcessesAssumption
  <2>2. MemInv' /\ MMPhase' /\ Still
    BY <1>1, <2>1, ReserveStep
  <2>3. booted' = booted
    BY <2>1 DEF map_mmio
  <2>4. ProcPhase' /\ call' = NoCall
    BY <1>1, <1>2, <1>3, <2>3, EarlyPhase
  <2>5. SpacesInv'
    BY <1>1, <1>2, <1>3, <2>2, SpacesStill
  <2> QED BY <2>2, <2>4, <2>5, NoCopy DEF Inv
<1>5. CASE \E ok \in BOOLEAN : map_mmio_page(ok)
  <2>1. PICK ok \in BOOLEAN : map_mmio_page(ok)
    BY <1>5
  <2>2. /\ MemInv' /\ MMPhase' /\ cr3' = cr3
        /\ Still \/ \E v \in MMIO_START .. MaxPage, leaf \in Leaves :
                       PageAdded(spaces, spaces', cr3, v, leaf) /\ leaf.kind = "mmio"
    BY <1>1, <2>1, MmioPageStep
  <2>3. booted' = booted
    BY <2>1, ZenonT(60) DEF map_mmio_page
  <2>4. ProcPhase' /\ call' = NoCall
    BY <1>1, <1>2, <1>3, <2>3, EarlyPhase
  <2>5. CASE Still
    <3>1. SpacesInv'
      BY <1>1, <1>2, <1>3, <2>5, SpacesStill
    <3> QED BY <2>2, <2>4, <3>1, NoCopy DEF Inv
  <2>6. CASE \E v \in MMIO_START .. MaxPage, leaf \in Leaves :
                PageAdded(spaces, spaces', cr3, v, leaf) /\ leaf.kind = "mmio"
    <3>1. PICK v \in MMIO_START .. MaxPage, leaf \in Leaves :
                PageAdded(spaces, spaces', cr3, v, leaf) /\ leaf.kind = "mmio"
      BY <2>6
    <3>2. leaf.kind # "user"
      BY <3>1
    <3>3. SpacesInv'
      BY <1>1, <1>2, <1>3, <2>2, <3>1, <3>2, EarlyAdded, ZenonT(60)
    <3> QED BY <2>2, <2>4, <3>3, NoCopy DEF Inv
  <2> QED BY <2>2, <2>5, <2>6
<1> QED BY <1>4, <1>5, ZenonT(60) DEF init_apic

\* An interrupt.
LEMMA StepInput == ASSUME Inv, Input PROVE Inv'
<1>1. MemInv /\ MMPhase /\ ProcPhase /\ SpacesInv /\ CopiesStayInUserPages
  BY DEF Inv
<1>2. /\ UNCHANGED mmVars /\ events' = events + 1 /\ events < MaxEvents
      /\ UNCHANGED <<pc, who, image, space, kernel_space, processes, current, exit_code, call>>
  BY DEF Input, loadVars, runVars
<1>3. MemInv' /\ MMPhase' /\ Still
  BY <1>1, <1>2, MMStill
<1>4. SpacesInv'
  BY <1>1, <1>2, <1>3, SpacesStill
<1>5. events' \in 0 .. MaxEvents
  <2>1. events \in 0 .. MaxEvents
    BY <1>1, ZenonT(60) DEF ProcPhase
  <2> QED BY ONLY <1>2, <2>1, ProcessesAssumption
<1>6. UNCHANGED <<booted, cr3, spaces>>
  BY <1>2 DEF mmVars
<1>7. ProcPhase'
  BY <1>1, <1>2, <1>5, <1>6, ZenonT(60) DEF ProcPhase, Roots
<1>8. CopiesStayInUserPages'
  BY <1>1, <1>2, <1>6, ZenonT(60) DEF CopiesStayInUserPages, MayAccess
<1> QED BY <1>3, <1>4, <1>7, <1>8 DEF Inv

\* A new address space, cloned from the kernel's.
LEMMA StepBegin == ASSUME Inv, Begin PROVE Inv'
<1>1. MemInv /\ MMPhase /\ ProcPhase /\ SpacesInv
  BY DEF Inv
<1>2. /\ pc = "load" /\ space = 0 /\ UNCHANGED <<processes, current, exit_code, events, call>>
  BY ZenonT(60) DEF Begin, runVars
<1>3. /\ pc \notin Early /\ pc \notin InProcess /\ pc \notin Own /\ pc \notin Runs /\ current = 0
      /\ call = NoCall /\ booted = "ready"
      /\ cr3 \in DOMAIN spaces /\ 0 \notin DOMAIN spaces
  BY <1>1, <1>2, FreeFinite, ZenonT(60) DEF ProcPhase, MMPhase, Early, InProcess, Own, Runs, Roots
<1>4. CASE \E i \in Images : /\ create_user_address_space
                             /\ image' = i /\ kernel_space' = cr3
                             /\ space' \in DOMAIN spaces' \ DOMAIN spaces
                             /\ UNCHANGED <<pc, who>>
  <2>1. PICK i \in Images : image' = i
    BY <1>4, ZenonT(60)
  <2>2. MemInv' /\ MMPhase' /\ cr3' = cr3 /\ \E c : SpaceAdded(spaces, spaces', cr3, c)
    BY <1>1, <1>4, CreateStep, ZenonT(60)
  <2>3. PICK c : SpaceAdded(spaces, spaces', cr3, c)
    BY <2>2
  <2>4. /\ kernel_space' = cr3 /\ UNCHANGED <<pc, who>> /\ booted' = "ready"
        /\ space' = c /\ c \notin DOMAIN spaces /\ c # 0 /\ DOMAIN spaces' = DOMAIN spaces \cup {c}
    BY <1>3, <1>4, <2>3, ZenonT(60) DEF SpaceAdded, create_user_address_space
  <2>5. /\ Private(spaces) /\ NoUser(spaces, cr3)
    BY <1>1, <1>3, ZenonT(60) DEF SpacesInv, kroot, ProcPhase
  <2>6. /\ Private(spaces') /\ NoUser(spaces', c)
        /\ Within(spaces'[cr3], spaces'[c])
        /\ \A q \in DOMAIN spaces : NoUser(spaces, q) => NoUser(spaces', q)
        /\ \A p, q \in DOMAIN spaces : Within(spaces[p], spaces[q]) => Within(spaces'[p], spaces'[q])
    BY <2>3, <2>5, ClonedKeeps, ZenonT(60)
  <2>7. \A p \in DOMAIN processes : /\ processes[p].cr3 \in DOMAIN spaces
                                    /\ Within(spaces[cr3], spaces[processes[p].cr3])
    <3> SUFFICES ASSUME NEW p \in DOMAIN processes
                 PROVE  /\ processes[p].cr3 \in DOMAIN spaces
                        /\ Within(spaces[cr3], spaces[processes[p].cr3])
      BY ZenonT(60)
    <3>1. Len(processes) > 0
      BY ONLY <1>1 DEF ProcPhase
    <3>2. cr3 = kernel_space
      BY <1>1, <1>3, <3>1, ZenonT(60) DEF ProcPhase
    <3> QED BY <1>1, <3>2, ZenonT(60) DEF ProcPhase, SpacesInv, Roots
  <2>8. SpacesInv'
    <3>1. NoUser(spaces', cr3') /\ kroot' = cr3'
      BY <1>2, <1>3, <2>2, <2>4, <2>5, <2>6, ZenonT(60) DEF kroot
    <3>2. pc' \notin Early
      BY <1>3, <2>4
    <3>3. Within(spaces'[kernel_space'], spaces'[space'])
      BY <2>4, <2>6
    <3>4. \A p \in DOMAIN processes' : Within(spaces'[kernel_space'], spaces'[processes'[p].cr3])
      BY <1>2, <1>3, <2>4, <2>6, <2>7, ZenonT(60)
    <3> QED BY <2>6, <3>1, <3>2, <3>3, <3>4, ZenonT(60) DEF SpacesInv
  <2>9. ProcPhase'
    <3>1. image' \in Seq([page : Nat, writable : BOOLEAN])
      BY <2>1, ProcessesAssumption
    <3>2. cr3' \in DOMAIN spaces' /\ cr3 # 0 /\ c # cr3
      BY <1>3, <2>2, <2>4
    <3>3. \A p \in DOMAIN processes' : processes'[p].cr3 \in DOMAIN spaces'
      BY <1>2, <2>4, <2>7, ZenonT(60)
    <3> QED BY <1>1, <1>2, <1>3, <2>2, <2>4, <3>1, <3>2, <3>3, ZenonT(60) DEF ProcPhase, Roots
  <2> QED BY <1>2, <1>3, <2>2, <2>8, <2>9, NoCopy, ZenonT(60) DEF Inv
<1>5. CASE pc' = Failure /\ UNCHANGED <<mmVars, loadVars>>
  <2>1. MemInv' /\ MMPhase' /\ Still
    BY <1>1, <1>5, MMStill
  <2>2. pc' \in {"panic", "shell"} /\ (who = "init" => pc' = "panic")
    BY <1>5 DEF Failure
  <2>3. UNCHANGED <<who, image, space, kernel_space, booted, cr3, spaces>>
    BY <1>5 DEF loadVars, mmVars
  <2>4. pc' \notin Early /\ pc' \notin InProcess /\ pc' \notin Own /\ pc' \notin Runs
    BY <2>2 DEF Early, InProcess, Own, Runs
  <2>5. SpacesInv'
    BY <1>1, <1>2, <2>1, <2>3, <2>4, SpacesStill
  <2>6. ProcPhase'
    <3>1. /\ pc' \in Early \cup InProcess \cup {"load", "shell", "panic"}
          /\ pc' \notin {"mm", "user", "leave", "load"}
      BY <2>2
    <3>2. /\ who = "init" => Len(processes) = 0
          /\ who = "gui" => Len(processes) = 1
      BY <1>1, <1>2, <1>3, ZenonT(60) DEF ProcPhase
    <3>3. /\ who = "init" => Len(processes) = IF pc' \in InProcess THEN 1 ELSE 0
          /\ who = "gui" => Len(processes) \in IF pc' \in InProcess THEN {2} ELSE IF pc' = "load" THEN {1} ELSE 1 .. 2
      BY ONLY <2>4, <3>1, <3>2
    <3> QED BY <1>1, <1>2, <1>3, <2>3, <2>4, <3>1, <3>3, ZenonT(60) DEF ProcPhase, Roots
  <2> QED BY <1>2, <1>3, <2>1, <2>5, <2>6, NoCopy DEF Inv
<1> QED BY <1>4, <1>5, ZenonT(60) DEF Begin

\* A page of the program, in its own address space alone.
LEMMA StepLoad == ASSUME Inv, LoadPage PROVE Inv'
<1>1. MemInv /\ MMPhase /\ ProcPhase /\ SpacesInv
  BY DEF Inv
<1>2. /\ pc = "load" /\ space # 0 /\ image # <<>>
      /\ map_user_page(space, Head(image).page, Head(image).writable)
      /\ image' = Tail(image) /\ pc' \in {"load", Failure}
      /\ UNCHANGED <<who, space, kernel_space, processes, current, exit_code, events, call>>
  BY ZenonT(60) DEF LoadPage, runVars
<1>3. /\ pc \notin Early /\ pc \notin InProcess /\ pc \notin Own /\ pc \notin Runs /\ current = 0
      /\ call = NoCall /\ booted = "ready"
      /\ space \in Roots /\ kernel_space # 0 /\ cr3 = kernel_space /\ space # kernel_space
      /\ image \in Seq([page : Nat, writable : BOOLEAN]) /\ kernel_space \in Roots
  BY <1>1, <1>2, ZenonT(60) DEF ProcPhase, Early, InProcess, Own, Runs
<1>4. /\ Head(image).page \in Nat /\ Head(image).writable \in BOOLEAN
      /\ Tail(image) \in Seq([page : Nat, writable : BOOLEAN])
  <2> DEFINE P == [page : Nat, writable : BOOLEAN]
  <2>1. image \in Seq(P) /\ image # <<>>
    BY <1>2, <1>3
  <2> HIDE DEF P
  <2>2. Head(image) \in P /\ Tail(image) \in Seq(P)
    BY <2>1
  <2>3. Head(image) \in [page : Nat, writable : BOOLEAN]
    BY <2>2 DEF P
  <2> QED BY <2>2, <2>3 DEF P
<1>5. /\ MemInv' /\ MMPhase' /\ cr3' = cr3
      /\ \/ spaces' = spaces
         \/ /\ Head(image).page < USER_LIMIT
            /\ \E leaf \in Leaves : /\ PageAdded(spaces, spaces', space, Head(image).page, leaf)
                                    /\ leaf.kind = "user" /\ leaf.frame \in free
  BY <1>1, <1>2, <1>3, <1>4, UserPageStep, ZenonT(60)
<1>6. pc' \in {"load", "panic", "shell"} /\ (who = "init" => pc' # "shell")
  BY <1>2 DEF Failure
<1>7. /\ pc' \notin Early /\ pc' \notin InProcess /\ pc' \notin Own /\ pc' \notin Runs
      /\ booted' = booted
  BY <1>2, <1>6, ZenonT(60) DEF Early, InProcess, Own, Runs, map_user_page
<1>8. DOMAIN spaces' = DOMAIN spaces
  BY <1>5, ZenonT(60) DEF PageAdded
<1>9. SpacesInv'
  <2>1. CASE spaces' = spaces
    <3>1. Still
      BY <1>5, <2>1 DEF Still
    <3> QED BY <1>1, <1>2, <1>7, <3>1, SpacesStill
  <2>2. CASE spaces' # spaces
    <3> DEFINE v == Head(image).page
    <3>1. PICK leaf \in Leaves : /\ PageAdded(spaces, spaces', space, v, leaf) /\ v < USER_LIMIT
                                 /\ leaf.kind = "user" /\ leaf.frame \in free
      BY <1>5, <2>2, ZenonT(60)
    <3>2. \A q, w : ~PageAt(spaces, q, w, leaf.frame)
      BY <1>1, <3>1, ZenonT(60) DEF MemInv, Owned, Apart
    <3>4. Private(spaces) /\ NoUser(spaces, cr3) /\ cr3 \in DOMAIN spaces
          /\ Within(spaces[kernel_space], spaces[space])
      BY <1>1, <1>2, <1>3, ZenonT(60) DEF SpacesInv, kroot, MMPhase, Roots
    <3> HIDE DEF v
    <3>5. /\ Private(spaces')
          /\ \A q \in DOMAIN spaces : NoUser(spaces, q) /\ (q # space \/ leaf.kind # "user")
                                        => NoUser(spaces', q)
          /\ \A p, q \in DOMAIN spaces : Within(spaces[p], spaces[q]) /\ p # space
                                           => Within(spaces'[p], spaces'[q])
      BY <3>1, <3>2, <3>4, AddedKeeps, ZenonT(60)
    <3>6. NoUser(spaces', cr3') /\ kroot' = cr3'
      BY <1>2, <1>3, <1>5, <3>4, <3>5, ZenonT(60) DEF kroot
    <3>7. Within(spaces'[kernel_space'], spaces'[space'])
      BY <1>2, <1>3, <3>4, <3>5, ZenonT(60) DEF Roots
    <3>8. \A p \in DOMAIN processes' : Within(spaces'[kernel_space'], spaces'[processes'[p].cr3])
      <4>1. \A p \in DOMAIN processes : processes[p].cr3 \in DOMAIN spaces
                                        /\ Within(spaces[kernel_space], spaces[processes[p].cr3])
        BY <1>1, ZenonT(60) DEF ProcPhase, SpacesInv, Roots
      <4> QED BY <1>2, <1>3, <3>5, <4>1, ZenonT(60) DEF Roots
    <3> QED BY <1>7, <3>5, <3>6, <3>7, <3>8, ZenonT(60) DEF SpacesInv
  <2> QED BY <2>1, <2>2
<1>10. ProcPhase'
  <2>1. /\ pc' \in Early \cup InProcess \cup {"load", "shell", "panic"}
        /\ pc' \notin {"mm", "user", "leave"}
    BY <1>6
  <2>2. /\ who = "init" => Len(processes) = 0
        /\ who = "gui" => Len(processes) = 1
    BY <1>1, <1>2, <1>3, ZenonT(60) DEF ProcPhase
  <2>3. /\ UNCHANGED <<who, space, kernel_space, processes, current, exit_code, events, call, cr3, booted>>
        /\ Roots' = Roots /\ image' \in Seq([page : Nat, writable : BOOLEAN])
    BY <1>2, <1>4, <1>5, <1>7, <1>8, ZenonT(60) DEF Roots
  <2>4. /\ who' = "init" => Len(processes') = IF pc' \in InProcess THEN 1 ELSE 0
        /\ who' = "gui" => Len(processes') \in IF pc' \in InProcess THEN {2} ELSE IF pc' = "load" THEN {1} ELSE 1 .. 2
    <3>1. 1 \in {1} /\ 1 \in 1 .. 2
      OBVIOUS
    <3> QED BY <1>7, <2>2, <2>3, <3>1, ZenonT(60)
  <2>5. current' = IF pc' \in {"user", "leave"} THEN Len(processes') ELSE 0
    BY <1>3, <2>1, <2>3, ZenonT(60)
  <2>6. /\ who \in {"init", "gui"} /\ events \in 0 .. MaxEvents /\ exit_code \in {0} \cup ExitCodes
        /\ kernel_space \in {0} \cup Roots /\ space \in {0} \cup Roots
        /\ processes \in Seq([state : {"Ready", "Running", "Exited"}, cr3 : Int, exit : Exits])
        /\ \A p \in DOMAIN processes : processes[p].cr3 \in Roots /\ ~(processes[p].state = "Running")
    BY <1>1, <1>3, ZenonT(60) DEF ProcPhase
  <2> QED BY <1>2, <1>3, <1>7, <2>1, <2>3, <2>4, <2>5, <2>6, ZenonT(60) DEF ProcPhase
<1> QED BY <1>2, <1>3, <1>5, <1>9, <1>10, NoCopy, ZenonT(60) DEF Inv

States == {"Ready", "Running", "Exited"}

ProcessType == [state : States, cr3 : Int, exit : Exits]

\* The last process is replaced.
LEMMA LastSet ==
    ASSUME NEW R, NEW ps \in Seq(R), Len(ps) > 0, NEW r \in R,
           NEW qs, qs = [ps EXCEPT ![Len(ps)] = r]
    PROVE  /\ qs \in Seq(R) /\ Len(qs) = Len(ps) /\ DOMAIN qs = DOMAIN ps /\ qs[Len(ps)] = r
           /\ \A p \in DOMAIN ps : p # Len(ps) => qs[p] = ps[p]
  OBVIOUS

\* The process is entered into the table.
LEMMA StepRegister == ASSUME Inv, Register PROVE Inv'
<1>1. MemInv /\ MMPhase /\ ProcPhase /\ SpacesInv
  BY DEF Inv
<1>2. /\ pc = "load" /\ space # 0 /\ processes' = Append(processes, Process("Ready", None))
      /\ pc' = "enter" /\ UNCHANGED mmVars
      /\ UNCHANGED <<who, image, space, kernel_space, current, exit_code, events, call>>
  BY DEF Register, loadVars
<1>3. /\ pc \notin Early /\ pc \notin InProcess /\ pc \notin Own /\ pc \notin Runs /\ current = 0
      /\ call = NoCall /\ booted = "ready" /\ space \in Roots /\ kernel_space # 0 /\ cr3 = kernel_space
      /\ pc' \notin Early /\ pc' \in InProcess /\ pc' \notin Own /\ pc' \notin Runs
  BY <1>1, <1>2, ZenonT(60) DEF ProcPhase, Early, InProcess, Own, Runs
<1>4. MemInv' /\ MMPhase' /\ Still /\ UNCHANGED <<booted, cr3, spaces>>
  BY <1>1, <1>2, MMStill, ZenonT(60) DEF mmVars
<1> DEFINE q == Process("Ready", None)
<1>5. q \in ProcessType /\ q.cr3 = space /\ q.state = "Ready"
  <2>1. space \in Int
    <3>1. DOMAIN spaces \subseteq 1 .. ram \cup {BootRoot} /\ space \in DOMAIN spaces
      BY <1>1, <1>3, ZenonT(60) DEF MemInv, Owned, Placed, Roots
    <3> QED BY ONLY <3>1 DEF BootRoot
  <2> QED BY <2>1, ZenonT(60) DEF Process, ProcessType, Exits, States
<1>6. processes \in Seq(ProcessType)
  BY <1>1, ZenonT(60) DEF ProcPhase, ProcessType, States
<1> HIDE DEF q
<1>7. /\ processes' \in Seq(ProcessType) /\ Len(processes') = Len(processes) + 1
      /\ DOMAIN processes' = 1 .. Len(processes) + 1 /\ DOMAIN processes = 1 .. Len(processes)
      /\ \A p \in 1 .. Len(processes) : processes'[p] = processes[p]
      /\ processes'[Len(processes) + 1] = q /\ Len(processes) \in Nat
  <2>1. processes' = Append(processes, q)
    BY <1>2 DEF q
  <2> QED BY ONLY <1>5, <1>6, <2>1
<1>8. \A p \in DOMAIN processes' : \/ p \in DOMAIN processes /\ processes'[p] = processes[p]
                                   \/ p = Len(processes) + 1 /\ processes'[p] = q
  BY <1>7
<1>9. SpacesInv'
  <2>1. \A p \in DOMAIN processes' : Within(spaces[kernel_space], spaces[processes'[p].cr3])
    BY <1>1, <1>2, <1>5, <1>8, ZenonT(60) DEF SpacesInv
  <2> QED BY <1>1, <1>2, <1>3, <1>4, <2>1, ZenonT(60) DEF SpacesInv, kroot, Roots
<1>10. ProcPhase'
  <2>1. \A p \in DOMAIN processes' : processes'[p].cr3 \in Roots /\ ~(processes'[p].state = "Running")
    <3>1. \A p \in DOMAIN processes : processes[p].cr3 \in Roots /\ ~(processes[p].state = "Running")
      BY <1>1, <1>3, ZenonT(60) DEF ProcPhase
    <3> QED BY <1>3, <1>5, <1>7, <1>8, <3>1, ZenonT(60)
  <2>2. /\ who = "init" => Len(processes) = 0
        /\ who = "gui" => Len(processes) = 1
    BY <1>1, <1>2, <1>3, ZenonT(60) DEF ProcPhase
  <2>3. /\ who' = "init" => Len(processes') = 1
        /\ who' = "gui" => Len(processes') = 2
        /\ Len(processes') > 0
    <3>1. who' = who
      BY <1>2
    <3> QED BY ONLY <1>7, <2>2, <3>1
  <2>4. processes'[Len(processes')].cr3 = space'
    BY <1>2, <1>5, <1>7, ZenonT(60)
  <2>5. processes' \in Seq([state : {"Ready", "Running", "Exited"}, cr3 : Int, exit : Exits])
    BY <1>7 DEF ProcessType, States
  <2> QED BY <1>1, <1>2, <1>3, <1>4, <2>1, <2>3, <2>4, <2>5, ZenonT(60) DEF ProcPhase, Roots
<1> QED BY <1>2, <1>3, <1>4, <1>9, <1>10, NoCopy, ZenonT(60) DEF Inv

\* While a process runs it is the last one.
LEMMA Running ==
    ASSUME ProcPhase, pc \in InProcess
    PROVE  /\ processes \in Seq(ProcessType) /\ Len(processes) \in DOMAIN processes
           /\ Len(processes) \in 1 .. 2 /\ processes[Len(processes)].cr3 = space
           /\ (who = "init" => Len(processes) = 1) /\ (who = "gui" => Len(processes) = 2)
           /\ space # 0 /\ space \in Roots /\ kernel_space # 0 /\ kernel_space \in Roots
           /\ (pc # "panic" => booted = "ready")
<1>1. processes \in Seq(ProcessType)
  BY ZenonT(60) DEF ProcPhase, ProcessType, States
<1>2. /\ who = "init" => Len(processes) = 1
      /\ who = "gui" => Len(processes) = 2
      /\ who \in {"init", "gui"}
  BY DEF ProcPhase
<1>3. Len(processes) \in 1 .. 2
  BY ONLY <1>2
<1>4. Len(processes) \in DOMAIN processes
  BY ONLY <1>1, <1>3
<1>5. /\ space # 0 /\ space \in Roots /\ kernel_space # 0 /\ kernel_space \in Roots
      /\ (pc # "panic" => booted = "ready") /\ processes[Len(processes)].cr3 = space
  BY ZenonT(60) DEF ProcPhase, InProcess
<1> QED BY ONLY <1>1, <1>2, <1>3, <1>4, <1>5

\* The last process is replaced by one with its tables.
LEMMA LastReplaced ==
    ASSUME ProcPhase, pc \in InProcess, NEW r \in ProcessType, r.cr3 = space,
           processes' = [processes EXCEPT ![Len(processes)] = r]
    PROVE  /\ processes' \in Seq(ProcessType)
           /\ Len(processes') = Len(processes) /\ DOMAIN processes' = DOMAIN processes
           /\ processes'[Len(processes)] = r
           /\ \A p \in DOMAIN processes : /\ processes'[p].cr3 = processes[p].cr3
                                          /\ p # Len(processes) => processes'[p] = processes[p]
<1>1. processes \in Seq(ProcessType) /\ processes[Len(processes)].cr3 = space
  BY Running
<1>2. Len(processes) > 0
  <2>1. Len(processes) \in 1 .. 2
    BY Running
  <2> QED BY ONLY <2>1
<1>3. /\ processes' \in Seq(ProcessType)
      /\ Len(processes') = Len(processes) /\ DOMAIN processes' = DOMAIN processes
      /\ processes'[Len(processes)] = r
      /\ \A p \in DOMAIN processes : p # Len(processes) => processes'[p] = processes[p]
  BY <1>1, <1>2, LastSet
<1> QED BY <1>1, <1>3, ZenonT(60)

\* A step of entering or leaving a process, as kernel_main sees it, ...
LEMMA PhaseStep ==
    ASSUME ProcPhase, pc \in InProcess, pc' \in InProcess, pc # "user",
           UNCHANGED <<who, image, space, kernel_space, exit_code, call, booted, spaces>>,
           processes' \in Seq(ProcessType), Len(processes') = Len(processes),
           DOMAIN processes' = DOMAIN processes,
           \A p \in DOMAIN processes :
              /\ processes'[p].cr3 = processes[p].cr3
              /\ processes'[p].state = "Running" <=> pc' \in Runs /\ p = Len(processes),
           current' = IF pc' \in {"user", "leave"} THEN Len(processes) ELSE 0,
           cr3' = IF pc' \in Own THEN space ELSE kernel_space,
           events' \in 0 .. MaxEvents
    PROVE  ProcPhase'
<1>1. /\ Len(processes) \in DOMAIN processes /\ processes[Len(processes)].cr3 = space
      /\ (who = "init" => Len(processes) = 1) /\ (who = "gui" => Len(processes) = 2)
      /\ space # 0 /\ kernel_space # 0 /\ booted = "ready" /\ Roots' = Roots
  BY Running, ZenonT(60) DEF InProcess, Roots
<1>2. pc' \notin Early /\ pc' \notin {"mm", "panic"}
  BY DEF Early, InProcess
<1>3. processes' \in Seq([state : {"Ready", "Running", "Exited"}, cr3 : Int, exit : Exits])
  BY DEF ProcessType, States
<1>4. processes'[Len(processes')].cr3 = space'
  BY <1>1
<1>5. \A p \in DOMAIN processes' :
          /\ processes'[p].cr3 \in Roots'
          /\ processes'[p].state = "Running" <=> pc' \in Runs /\ p = Len(processes')
  BY <1>1, ZenonT(60) DEF ProcPhase
<1>6. /\ who' = "init" => Len(processes') = IF pc' \in InProcess THEN 1 ELSE 0
      /\ who' = "gui" => Len(processes') \in IF pc' \in InProcess THEN {2} ELSE IF pc' = "load" THEN {1} ELSE 1 .. 2
  BY <1>1
<1> QED BY <1>1, <1>2, <1>3, <1>4, <1>5, <1>6, ZenonT(60) DEF ProcPhase

\* ... and as the address spaces do.
LEMMA SpacesKept ==
    ASSUME SpacesInv, spaces' = spaces, kernel_space # 0, kernel_space' = kernel_space, pc' \notin Early,
           space' \in {0, space}, DOMAIN processes' = DOMAIN processes,
           \A p \in DOMAIN processes : processes'[p].cr3 = processes[p].cr3
    PROVE  SpacesInv'
<1>1. kroot' = kernel_space /\ kroot = kernel_space
  BY DEF kroot
<1>2. \A p \in DOMAIN processes' : Within(spaces[kernel_space], spaces[processes'[p].cr3])
  BY ZenonT(60) DEF SpacesInv
<1> QED BY <1>1, <1>2 DEF SpacesInv

\* It is Running, ...
LEMMA StepEnter == ASSUME Inv, Enter PROVE Inv'
<1>1. MemInv /\ MMPhase /\ ProcPhase /\ SpacesInv
  BY DEF Inv
<1>2. /\ pc = "enter" /\ processes' = [processes EXCEPT ![Len(processes)].state = "Running"]
      /\ kernel_space' = cr3 /\ pc' = "switch" /\ UNCHANGED mmVars
      /\ events' = IF who = "gui" THEN 0 ELSE events
      /\ UNCHANGED <<who, image, space, current, exit_code, call>>
  BY DEF Enter, pid
<1>3. /\ pc \in InProcess /\ pc' \in InProcess /\ pc # "user" /\ pc \notin {"user", "leave"}
      /\ pc \notin Own /\ pc' \notin Own /\ pc \notin Runs /\ pc' \in Runs
      /\ pc' \notin Early /\ pc' \notin {"user", "leave"}
  BY <1>2 DEF Early, InProcess, Own, Runs
<1>4. /\ processes \in Seq(ProcessType) /\ Len(processes) \in DOMAIN processes
      /\ kernel_space # 0 /\ processes[Len(processes)].cr3 = space
  BY <1>1, <1>3, Running
<1>5. cr3 = kernel_space /\ current = 0 /\ call = NoCall
  BY <1>1, <1>3, <1>4, ZenonT(60) DEF ProcPhase
<1>6. MemInv' /\ MMPhase' /\ UNCHANGED <<booted, spaces, cr3>>
  BY <1>1, <1>2, MMStill DEF mmVars
<1> DEFINE o == processes[Len(processes)]
           r == [o EXCEPT !.state = "Running"]
<1>7. o \in ProcessType /\ o.cr3 = space /\ processes' = [processes EXCEPT ![Len(processes)] = r]
  BY <1>2, <1>4
<1> HIDE DEF o
<1>8. r \in ProcessType /\ r.state = "Running" /\ r.cr3 = space
  BY <1>7 DEF ProcessType, States
<1> HIDE DEF r
<1>9. /\ processes' \in Seq(ProcessType)
      /\ Len(processes') = Len(processes) /\ DOMAIN processes' = DOMAIN processes
      /\ processes'[Len(processes)] = r
      /\ \A p \in DOMAIN processes : /\ processes'[p].cr3 = processes[p].cr3
                                     /\ p # Len(processes) => processes'[p] = processes[p]
  BY <1>1, <1>3, <1>7, <1>8, LastReplaced, ZenonT(60)
<1>10. \A p \in DOMAIN processes :
          /\ processes'[p].cr3 = processes[p].cr3
          /\ processes'[p].state = "Running" <=> pc' \in Runs /\ p = Len(processes)
  <2>1. \A p \in DOMAIN processes : ~(processes[p].state = "Running")
    BY <1>1, <1>3, ZenonT(60) DEF ProcPhase
  <2>2. processes'[Len(processes)].state = "Running"
    BY <1>8, <1>9
  <2>3. \A p \in DOMAIN processes : p # Len(processes) => ~(processes'[p].state = "Running")
    BY <1>9, <2>1, ZenonT(60)
  <2>4. \A p \in DOMAIN processes : processes'[p].state = "Running" <=> p = Len(processes)
    BY <2>2, <2>3, ZenonT(60)
  <2> QED BY <1>3, <1>9, <2>4, ZenonT(60)
<1>11. events' \in 0 .. MaxEvents
  BY <1>1, <1>2, ProcessesAssumption DEF ProcPhase
<1>12. ProcPhase'
  BY <1>1, <1>2, <1>3, <1>5, <1>6, <1>9, <1>10, <1>11, PhaseStep
<1>13. SpacesInv'
  BY <1>1, <1>2, <1>3, <1>4, <1>5, <1>6, <1>9, SpacesKept
<1> QED BY <1>2, <1>5, <1>6, <1>12, <1>13, NoCopy DEF Inv

\* ... CR3 or CURRENT_PID changes, ...
LEMMA StepBetween ==
    ASSUME Inv, Switch \/ SetCurrent \/ ClearCurrent \/ Restore
    PROVE  Inv'
<1>1. MemInv /\ MMPhase /\ ProcPhase /\ SpacesInv
  BY DEF Inv
<1>2. UNCHANGED <<who, image, space, kernel_space, processes, exit_code, events, call>>
  BY ZenonT(60) DEF Switch, SetCurrent, ClearCurrent, Restore, loadVars, runVars
<1>3. /\ pc \in InProcess /\ pc' \in InProcess /\ pc # "user" /\ pc \in Runs /\ pc' \in Runs /\ pc' \notin Early
  BY DEF Switch, SetCurrent, ClearCurrent, Restore, Early, InProcess, Runs
<1>4. /\ processes \in Seq(ProcessType) /\ space \in Roots /\ kernel_space \in Roots
      /\ kernel_space # 0
  BY <1>1, <1>3, Running
<1>5. /\ current = IF pc \in {"user", "leave"} THEN Len(processes) ELSE 0
      /\ cr3 = IF pc \in Own THEN space ELSE kernel_space
      /\ call = NoCall /\ events \in 0 .. MaxEvents
  BY <1>1, <1>3, <1>4, ZenonT(60) DEF ProcPhase
<1>6. /\ MemInv' /\ MMPhase' /\ UNCHANGED <<booted, spaces>>
      /\ cr3' = IF pc' \in Own THEN space ELSE kernel_space
      /\ current' = IF pc' \in {"user", "leave"} THEN Len(processes) ELSE 0
  <2>1. CASE Switch
    <3>1. /\ activate_address_space(space) /\ pc = "switch" /\ pc' = "name" /\ current' = current
          /\ booted' = booted
      BY <2>1, ZenonT(60) DEF Switch, runVars, activate_address_space
    <3>2. MemInv' /\ MMPhase' /\ spaces' = spaces /\ cr3' = space
      BY <1>1, <1>4, <3>1, ActivateStep
    <3> QED BY <1>5, <3>1, <3>2 DEF Own
  <2>2. CASE Restore
    <3>1. /\ activate_address_space(kernel_space) /\ pc = "restore" /\ pc' = "exited" /\ current' = current
          /\ booted' = booted
      BY <2>2, ZenonT(60) DEF Restore, runVars, activate_address_space
    <3>2. MemInv' /\ MMPhase' /\ spaces' = spaces /\ cr3' = kernel_space
      BY <1>1, <1>4, <3>1, ActivateStep
    <3> QED BY <1>5, <3>1, <3>2 DEF Own
  <2>3. CASE SetCurrent \/ ClearCurrent
    <3>1. /\ UNCHANGED mmVars
          /\ \/ pc = "name" /\ pc' = "user" /\ current' = Len(processes)
             \/ pc = "leave" /\ pc' = "restore" /\ current' = 0
      BY <2>3 DEF SetCurrent, ClearCurrent, pid
    <3>2. MemInv' /\ MMPhase' /\ UNCHANGED <<booted, spaces, cr3>>
      BY <1>1, <3>1, MMStill DEF mmVars
    <3> QED BY <1>5, <3>1, <3>2 DEF Own
  <2> QED BY <2>1, <2>2, <2>3
<1>7. \A p \in DOMAIN processes :
          /\ processes'[p].cr3 = processes[p].cr3
          /\ processes'[p].state = "Running" <=> pc' \in Runs /\ p = Len(processes)
  BY <1>1, <1>2, <1>3, ZenonT(60) DEF ProcPhase
<1>8. ProcPhase'
  BY <1>1, <1>2, <1>3, <1>4, <1>5, <1>6, <1>7, PhaseStep
<1>9. SpacesInv'
  BY <1>1, <1>2, <1>3, <1>4, <1>6, SpacesKept
<1> QED BY <1>2, <1>5, <1>6, <1>8, <1>9, NoCopy DEF Inv

\* ... and it has exited.
LEMMA StepLeave == ASSUME Inv, Leave PROVE Inv'
<1>1. MemInv /\ MMPhase /\ ProcPhase /\ SpacesInv
  BY DEF Inv
<1>2. /\ pc = "exited" /\ UNCHANGED mmVars
      /\ processes' = [processes EXCEPT ![Len(processes)].state = "Exited", ![Len(processes)].exit = exit_code]
      /\ space' = 0 /\ who' = "gui"
      /\ pc' \in {"shell", "panic", "load"} /\ (pc' = "load" => who # "gui")
      /\ UNCHANGED <<image, kernel_space, current, exit_code, events, call>>
  BY DEF Leave, pid
<1>3. /\ pc \in InProcess /\ pc # "panic" /\ pc \notin {"user", "leave"} /\ pc # "user"
      /\ pc \notin Own /\ pc' \notin Own /\ pc' \notin Runs
      /\ pc' \notin Early /\ pc' \notin InProcess /\ pc' \notin {"user", "leave"} /\ pc' # "mm"
  BY <1>2 DEF Early, InProcess, Own, Runs
<1>4. /\ processes \in Seq(ProcessType) /\ Len(processes) \in DOMAIN processes /\ Len(processes) \in 1 .. 2
      /\ (who = "init" => Len(processes) = 1) /\ kernel_space # 0
      /\ processes[Len(processes)].cr3 = space /\ booted = "ready"
  BY <1>1, <1>3, Running
<1>5. /\ cr3 = kernel_space /\ current = 0 /\ call = NoCall /\ who \in {"init", "gui"} /\ exit_code \in Exits
      /\ kernel_space \in {0} \cup Roots /\ events \in 0 .. MaxEvents /\ exit_code \in {0} \cup ExitCodes
      /\ image \in Seq([page : Nat, writable : BOOLEAN])
  BY <1>1, <1>3, <1>4, ZenonT(60) DEF ProcPhase, Exits
<1>6. MemInv' /\ MMPhase' /\ UNCHANGED <<booted, spaces, cr3>>
  BY <1>1, <1>2, MMStill DEF mmVars
<1> DEFINE o == processes[Len(processes)]
           r == [o EXCEPT !.state = "Exited", !.exit = exit_code]
<1>13. processes' = [processes EXCEPT ![Len(processes)] = r]
  BY <1>2, <1>4, ZenonT(60)
<1>7. o \in ProcessType /\ o.cr3 = space /\ processes' = [processes EXCEPT ![Len(processes)] = r]
  BY <1>4, <1>13
<1> HIDE DEF o
<1>8. r \in ProcessType /\ r.state = "Exited" /\ r.cr3 = space
  BY <1>5, <1>7, ZenonT(60) DEF ProcessType, States
<1> HIDE DEF r
<1>9. /\ processes' \in Seq(ProcessType)
      /\ Len(processes') = Len(processes) /\ DOMAIN processes' = DOMAIN processes
      /\ processes'[Len(processes)] = r
      /\ \A p \in DOMAIN processes : /\ processes'[p].cr3 = processes[p].cr3
                                     /\ p # Len(processes) => processes'[p] = processes[p]
  BY <1>1, <1>3, <1>7, <1>8, LastReplaced, ZenonT(60)
<1>10. \A p \in DOMAIN processes' : /\ processes'[p].cr3 \in Roots'
                                    /\ ~(processes'[p].state = "Running")
  <2>1. \A p \in DOMAIN processes : /\ processes[p].cr3 \in Roots
                                    /\ p # Len(processes) => ~(processes[p].state = "Running")
    BY <1>1, ZenonT(60) DEF ProcPhase
  <2>2. Roots' = Roots /\ ~(r.state = "Running")
    BY <1>6, <1>8 DEF Roots
  <2>3. /\ DOMAIN processes' = DOMAIN processes
        /\ \A p \in DOMAIN processes : processes'[p].cr3 \in Roots'
    BY <1>9, <2>1, <2>2, ZenonT(60)
  <2>4. ~(processes'[Len(processes)].state = "Running")
    BY <1>9, <2>2
  <2>5. \A p \in DOMAIN processes : p # Len(processes) => ~(processes'[p].state = "Running")
    BY <1>9, <2>1, ZenonT(60)
  <2> QED BY <2>3, <2>4, <2>5, ZenonT(60)
<1>11. SpacesInv'
  BY <1>1, <1>2, <1>3, <1>4, <1>6, <1>9, SpacesKept
<1>12. ProcPhase'
  <2>1. pc' = "load" => Len(processes') = 1
    BY <1>2, <1>4, <1>5, <1>9
  <2>2. Len(processes') \in IF pc' \in InProcess THEN {2} ELSE IF pc' = "load" THEN {1} ELSE 1 .. 2
    BY <1>3, <1>4, <1>9, <2>1
  <2>3. processes' \in Seq([state : {"Ready", "Running", "Exited"}, cr3 : Int, exit : Exits])
    BY <1>9 DEF ProcessType, States
  <2>4. pc' \in Early \cup InProcess \cup {"load", "shell", "panic"} /\ Roots' = Roots
    BY <1>2, <1>6 DEF Roots
  <2> QED BY <1>2, <1>3, <1>4, <1>5, <1>6, <1>10, <2>2, <2>3, <2>4, ZenonT(60) DEF ProcPhase
<1> QED BY <1>2, <1>5, <1>6, <1>11, <1>12, NoCopy DEF Inv

\* exit
LEMMA StepExit == ASSUME Inv, SysExit PROVE Inv'
<1>1. MemInv /\ MMPhase /\ ProcPhase /\ SpacesInv
  BY DEF Inv
<1>2. /\ pc = "user" /\ pc' = "leave" /\ call' = NoCall /\ exit_code' \in ExitCodes /\ UNCHANGED mmVars
      /\ UNCHANGED <<who, image, space, kernel_space, processes, current, events>>
  BY DEF SysExit, loadVars
<1>3. MemInv' /\ MMPhase' /\ Still /\ UNCHANGED <<booted, cr3, spaces>>
  BY <1>1, <1>2, MMStill, ZenonT(60) DEF mmVars
<1>4. /\ pc' \notin Early /\ pc' \in InProcess /\ pc \in InProcess
      /\ pc \in Own /\ pc' \in Own /\ pc \in Runs /\ pc' \in Runs
  BY <1>2 DEF Early, InProcess, Own, Runs
<1>5. SpacesInv'
  BY <1>1, <1>2, <1>3, <1>4, SpacesStill
<1>6. ProcPhase'
  BY <1>1, <1>2, <1>3, <1>4, ZenonT(60) DEF ProcPhase, Roots
<1> QED BY <1>2, <1>3, <1>5, <1>6, NoCopy, ZenonT(60) DEF Inv

\* A copy that the check allowed, or refused.
LEMMA CopyIsChecked ==
    ASSUME NEW a \in Nat, NEW n \in Nat, NEW w \in BOOLEAN, NEW done, done # "EFAULT",
           call' = Copy(a, n, w, done), UNCHANGED <<spaces, cr3>>
    PROVE  CopiesStayInUserPages'
<1>1. Accessible(a, n, w) <=> a .. a + n - 1 \subseteq MayAccess(w)
  BY AccessibleBytes
<1>2. /\ call'.address = a /\ call'.length = n /\ call'.write = w
      /\ call'.copied = Accessible(a, n, w)
      /\ call'.result = IF Accessible(a, n, w) THEN done ELSE "EFAULT"
  BY ZenonT(60) DEF Copy
<1>3. MayAccess(w)' = MayAccess(w)
  BY ZenonT(60) DEF MayAccess
<1>4. CopiesStayInUserPages' <=>
         /\ call'.copied => a .. a + n - 1 \subseteq MayAccess(w)
         /\ call'.result = "EFAULT" => ~(a .. a + n - 1 \subseteq MayAccess(w))
  BY <1>2, <1>3, ZenonT(60) DEF CopiesStayInUserPages
<1> HIDE DEF MayAccess, Accessible
<1> QED BY <1>1, <1>2, <1>4, ZenonT(60)

\* A refusal copies nothing.
LEMMA RefusedCopies ==
    ASSUME NEW error, error # "EFAULT", call' = Refuse(error)
    PROVE  CopiesStayInUserPages'
<1>1. call'.copied = FALSE /\ call'.result = error
  BY DEF Refuse, NoCall
<1> QED BY <1>1 DEF CopiesStayInUserPages

\* The other system calls.
LEMMA StepSyscall == ASSUME Inv, Syscall PROVE Inv'
<1>1. MemInv /\ MMPhase /\ ProcPhase /\ SpacesInv
  BY DEF Inv
<1>2. /\ pc = "user" /\ UNCHANGED mmVars
      /\ UNCHANGED <<pc, who, image, space, kernel_space, processes, current, exit_code>>
  BY ZenonT(60) DEF Syscall, loadVars, runVars
<1>3. MemInv' /\ MMPhase' /\ Still /\ UNCHANGED <<booted, cr3, spaces>>
  BY <1>1, <1>2, MMStill, ZenonT(60) DEF mmVars
<1>4. SpacesInv'
  BY <1>1, <1>2, <1>3, SpacesStill
<1>5. PICK a \in Nat, n \in Nat :
         \/ \E fd \in {0, 1, 3} : call' = SysWrite(fd, a, n) /\ UNCHANGED events
         \/ \E usable \in BOOLEAN :
               /\ call' \in {SysDisplayInfo(a, n, usable), SysDisplayPresent(a, n, usable)}
               /\ UNCHANGED events
         \/ call' = SysInputPoll(a, n) /\ events' = EventsAfter(n)
  BY ProcessesAssumption, ZenonT(60) DEF Syscall
<1>6. events' \in 0 .. MaxEvents
  <2>1. events \in 0 .. MaxEvents /\ MaxEvents \in Nat
    BY <1>1, ProcessesAssumption, ZenonT(60) DEF ProcPhase
  <2> QED BY <1>5, <2>1 DEF EventsAfter
<1>7. ProcPhase'
  BY <1>1, <1>2, <1>3, <1>6, ZenonT(60) DEF ProcPhase, Roots
<1>8. \/ \E e \in {"E2BIG", "EINVAL", "ENODEV", "empty"} : call' = Refuse(e)
      \/ \E m \in Nat, w \in BOOLEAN, done \in {"written", "EBADF", "done", "event"} :
            call' = Copy(a, m, w, done)
  <2>0. PACKET_BYTES \in Nat /\ DISPLAY_INFO_BYTES \in Nat /\ n \in Nat
    BY ProcessesAssumption
  <2>1. ASSUME NEW fd \in {0, 1, 3}, call' = SysWrite(fd, a, n)
        PROVE  \/ call' = Refuse("E2BIG") \/ call' = Copy(a, n, FALSE, "written")
               \/ call' = Copy(a, n, FALSE, "EBADF")
    BY <2>1, ZenonT(60) DEF SysWrite
  <2>2. ASSUME NEW usable \in BOOLEAN, call' = SysDisplayInfo(a, n, usable)
        PROVE  \/ call' = Refuse("EINVAL") \/ call' = Refuse("ENODEV")
               \/ call' = Copy(a, DISPLAY_INFO_BYTES, TRUE, "done")
    BY <2>2, ZenonT(60) DEF SysDisplayInfo
  <2>3. ASSUME NEW usable \in BOOLEAN, call' = SysDisplayPresent(a, n, usable)
        PROVE  call' = Refuse("EINVAL") \/ call' = Copy(a, n, FALSE, "done")
    BY <2>3, ZenonT(60) DEF SysDisplayPresent
  <2>4. ASSUME call' = SysInputPoll(a, n)
        PROVE  \/ call' = Refuse("EINVAL") \/ call' = Refuse("empty")
               \/ call' = Copy(a, PACKET_BYTES, TRUE, "event")
    BY <2>4, ZenonT(60) DEF SysInputPoll
  <2> QED BY <1>5, <2>0, <2>1, <2>2, <2>3, <2>4, ZenonT(60)
<1>9. CopiesStayInUserPages'
  <2>1. CASE \E e \in {"E2BIG", "EINVAL", "ENODEV", "empty"} : call' = Refuse(e)
    <3>1. PICK e \in {"E2BIG", "EINVAL", "ENODEV", "empty"} : call' = Refuse(e)
      BY <2>1
    <3>2. e # "EFAULT"
      BY <3>1
    <3> QED BY <3>1, <3>2, RefusedCopies
  <2>2. CASE \E m \in Nat, w \in BOOLEAN, done \in {"written", "EBADF", "done", "event"} :
                call' = Copy(a, m, w, done)
    <3>1. PICK m \in Nat, w \in BOOLEAN, done \in {"written", "EBADF", "done", "event"} :
                call' = Copy(a, m, w, done)
      BY <2>2
    <3>2. done # "EFAULT"
      BY <3>1
    <3> QED BY <1>3, <3>1, <3>2, CopyIsChecked
  <2> QED BY <1>8, <2>1, <2>2
<1> QED BY <1>3, <1>4, <1>7, <1>9 DEF Inv

-----------------------------------------------------------------------------
(* The bootloader's tables *)

\* They own what they should: what PMM does not manage.
LEMMA BootOwned ==
    ASSUME MMInit
    PROVE  MemInv /\ MMPhase
<1>0. PICK pages \in BootMaps : spaces = [r \in {BootRoot} |-> BootSpace(pages)]
  BY DEF MMInit
<1> DEFINE b == BootSpace(pages)
<1>1. /\ ram \in RamSizes /\ ram \in Nat /\ free = 1 .. ram /\ dma = {} /\ failures = 0 /\ cr3 = BootRoot
      /\ spaces = [r \in {BootRoot} |-> b] /\ booted = "start" /\ rest = {} /\ next_mmio = MMIO_START
  BY <1>0, AddressSpacesAssumption, ZenonT(60) DEF MMInit
<1>2. /\ DOMAIN b.map = pages /\ DOMAIN b.tables = {Group(p) : p \in pages}
      /\ \A p \in pages : b.map[p] = Leaf("kernel", BootPage(p), TRUE)
      /\ \A g \in {Group(p) : p \in pages} : b.tables[g] = BootTable(g)
  BY ZenonT(60) DEF BootSpace
<1>3. pages \subseteq Page /\ {Group(p) : p \in pages} \subseteq Page
  <2>1. pages \subseteq Page
    BY AddressSpacesAssumption DEF Page
  <2> QED BY <2>1, GroupOfPage
<1>4. b \in SpaceType
  <2>1. b.map \in Maps
    <3>1. \A p \in pages : Leaf("kernel", BootPage(p), TRUE) \in Leaves
      BY ONLY <1>3 DEF Leaf, Leaves, BootPage, Page
    <3>2. [p \in pages |-> Leaf("kernel", BootPage(p), TRUE)] \in [pages -> Leaves]
      BY <3>1, ZenonT(60)
    <3> QED BY <1>3, <3>2, ZenonT(60) DEF Maps, BootSpace
  <2>2. b.tables \in Tables
    <3> DEFINE G == {Group(p) : p \in pages}
    <3>1. \A g \in Page : BootTable(g) \in Int
      BY DEF BootTable, Page
    <3>2. G \in SUBSET Page /\ b.tables = [g \in G |-> BootTable(g)]
      BY <1>3, ZenonT(60) DEF BootSpace
    <3> HIDE DEF G
    <3> QED BY <3>1, <3>2 DEF Tables
  <2>3. b = [tables |-> b.tables, map |-> b.map]
    BY ZenonT(60) DEF BootSpace
  <2> QED BY <2>1, <2>2, <2>3 DEF SpaceType
<1> HIDE DEF b
<1>5. \A r, v, x : PageAt(spaces, r, v, x) => r = BootRoot /\ v \in Page /\ x = BootPage(v)
  <2>1. \A p \in pages : b.map[p].frame = BootPage(p)
    <3>1. \A x : Leaf("kernel", x, TRUE).frame = x
      BY DEF Leaf
    <3> QED BY <1>2, <3>1, ZenonT(60)
  <2> QED BY <1>1, <1>2, <1>3, <2>1, ZenonT(60) DEF PageAt
<1>6. \A r, g, x : TableAt(spaces, r, g, x) => r = BootRoot /\ g \in Page /\ x = BootTable(g)
  BY <1>1, <1>2, <1>3, ZenonT(60) DEF TableAt
<1>7. Placed(spaces, free, dma, ram)
  <2>1. \A r \in DOMAIN spaces : \A v \in DOMAIN spaces[r].map : Group(v) \in DOMAIN spaces[r].tables
    BY <1>1, <1>2, ZenonT(60)
  <2>2. spaces \in [DOMAIN spaces -> SpaceType] /\ DOMAIN spaces \subseteq 1 .. ram \cup {BootRoot}
    BY <1>1, <1>4
  <2> QED BY <1>1, <1>5, <1>6, <2>1, <2>2, ZenonT(60) DEF Placed
<1>8. DOMAIN spaces = {BootRoot}
  BY <1>1
<1>9. Apart(spaces, free, dma)
  <2>1. \A r, s, g, h, x : TableAt(spaces, r, g, x) /\ TableAt(spaces, s, h, x) => r = s /\ g = h
    BY <1>6 DEF BootTable, Page
  <2>2. \A r, s, g : r \in DOMAIN spaces => ~TableAt(spaces, s, g, r)
    BY <1>6, <1>8 DEF BootTable, BootRoot, Page
  <2>3. \A r, v, w, x : PageAt(spaces, r, v, x) /\ PageAt(spaces, r, w, x) => v = w
    BY <1>5 DEF BootPage, Page
  <2>4. \A r, s, v : r \in DOMAIN spaces => ~PageAt(spaces, s, v, r)
    BY <1>5, <1>8 DEF BootPage, BootRoot, Page
  <2>5. \A r, s, g, v, x : TableAt(spaces, r, g, x) => ~PageAt(spaces, s, v, x)
    BY <1>5, <1>6 DEF BootPage, BootTable, Page
  <2>6. \A x \in free \cup dma : x \notin DOMAIN spaces
                                 /\ \A r, k : ~TableAt(spaces, r, k, x) /\ ~PageAt(spaces, r, k, x)
    BY <1>1, <1>5, <1>6, <1>8 DEF BootPage, BootTable, BootRoot, Page
  <2>7. free \cap dma = {}
    BY <1>1
  <2> QED BY <2>1, <2>2, <2>3, <2>4, <2>5, <2>6, <2>7, ZenonT(60) DEF Apart
<1>10. Cardinality(Lost) <= failures
  <2>1. Lost = {}
    BY <1>1 DEF Lost, LostFrames
  <2> QED BY <1>1, <2>1, FS_EmptySet
<1>11. MMPhase
  BY <1>1, AddressSpacesAssumption DEF MMPhase, Roots
<1> QED BY <1>1, <1>7, <1>9, <1>10, <1>11, ZenonT(60) DEF MemInv, Owned

\* The first state.
LEMMA InitInv == Init => Inv
<1> SUFFICES ASSUME Init PROVE Inv
  OBVIOUS
<1>1. MemInv /\ MMPhase
  BY BootOwned DEF Init
<1>2. /\ pc = "mm" /\ who = "init" /\ image = <<>> /\ space = 0 /\ kernel_space = 0
      /\ processes = <<>> /\ current = 0 /\ exit_code = 0 /\ events = 0 /\ call = NoCall
      /\ booted = "start" /\ cr3 = BootRoot
      /\ \E pages \in BootMaps : spaces = [r \in {BootRoot} |-> BootSpace(pages)]
  BY ZenonT(60) DEF Init, MMInit
<1>3. ProcPhase
  <2>1. pc \in Early /\ pc \notin InProcess /\ pc \notin Own /\ pc \notin Runs
    BY <1>2 DEF Early, InProcess, Own, Runs
  <2>2. image \in Seq([page : Nat, writable : BOOLEAN]) /\ Len(processes) = 0 /\ DOMAIN processes = {}
        /\ processes \in Seq([state : {"Ready", "Running", "Exited"}, cr3 : Int, exit : Exits])
    BY <1>2
  <2>3. events \in 0 .. MaxEvents /\ ~(Len(processes) > 0)
    BY ONLY <1>2, <2>2, ProcessesAssumption
  <2>4. /\ Len(processes) = IF pc \in InProcess THEN 1 ELSE 0
        /\ current = IF pc \in {"user", "leave"} THEN Len(processes) ELSE 0
    BY ONLY <1>2, <2>1, <2>2 DEF InProcess
  <2>5. who # "gui" /\ space = 0 /\ exit_code \in {0} \cup ExitCodes
    BY ONLY <1>2
  <2> QED BY <1>2, <2>1, <2>2, <2>3, <2>4, <2>5, ZenonT(60) DEF ProcPhase
<1>4. SpacesInv
  <2>0. PICK pages \in BootMaps : spaces = [r \in {BootRoot} |-> BootSpace(pages)]
    BY <1>2
  <2>1. DOMAIN BootSpace(pages).map = pages /\ \A p \in pages : BootSpace(pages).map[p].kind = "kernel"
    BY ZenonT(60) DEF BootSpace, Leaf
  <2>2. DOMAIN spaces = {BootRoot} /\ spaces[BootRoot] = BootSpace(pages)
    BY <2>0
  <2>3. NoUser(spaces, BootRoot)
    BY <2>1, <2>2, ZenonT(60) DEF NoUser
  <2>4. Private(spaces)
    BY <2>1, <2>2, ZenonT(60) DEF Private
  <2>5. kroot = BootRoot /\ ~(space # 0) /\ \A p \in DOMAIN processes : FALSE
    BY ONLY <1>2 DEF kroot
  <2>6. \A r \in DOMAIN spaces : NoUser(spaces, r)
    BY ONLY <2>2, <2>3
  <2> QED BY ONLY <2>3, <2>4, <2>5, <2>6, ZenonT(60) DEF SpacesInv, Roots
<1>5. CopiesStayInUserPages
  BY <1>2, ZenonT(60) DEF CopiesStayInUserPages, NoCall, None
<1> QED BY <1>1, <1>3, <1>4, <1>5 DEF Inv

\* The invariant of kernel_main from mm::init to the shell, with both processes
\* and all that can fail on the way.
THEOREM Invariant == Spec => []Inv
<1>1. Inv /\ [Next]_vars => Inv'
  <2> SUFFICES ASSUME Inv, [Next]_vars PROVE Inv'
    OBVIOUS
  <2>1. CASE Next
    BY <2>1, StepMM, StepDisk, StepApic, StepInput, StepBegin, StepLoad, StepRegister, StepEnter,
       StepBetween, StepLeave, StepSyscall, StepExit DEF Next
  <2>2. CASE UNCHANGED vars
    <3>1. /\ UNCHANGED mmVars
          /\ UNCHANGED <<pc, who, image, space, kernel_space, processes, current, exit_code, events, call>>
      BY <2>2, ZenonT(60) DEF vars, procVars
    <3>2. MemInv' /\ MMPhase' /\ Still
      BY <3>1, MMStill DEF Inv
    <3>3. SpacesInv'
      BY <3>1, <3>2, SpacesStill DEF Inv
    <3>4. UNCHANGED <<booted, cr3, spaces>>
      BY <3>1 DEF mmVars
    <3>5. ProcPhase'
      BY <3>1, <3>4, ZenonT(60) DEF Inv, ProcPhase, Roots
    <3>6. CopiesStayInUserPages'
      BY <3>1, <3>4, ZenonT(60) DEF Inv, CopiesStayInUserPages, MayAccess
    <3> QED BY <3>2, <3>3, <3>5, <3>6 DEF Inv
  <2> QED BY <2>1, <2>2
<1> QED BY <1>1, InitInv, PTL DEF Spec

-----------------------------------------------------------------------------
(* The guard pages *)

\* No address space has a guard page.
Guarded(S) == \A r \in DOMAIN S : Guards \cap DOMAIN S[r].map = {}

\* Before the heap is mapped all address spaces are alike, so that the check in
\* map_heap, of the active one, is a check of all.
GuardInv ==
    /\ booted \in {"start", "verified", "owned"} => \A r \in Roots : spaces[r].map = spaces[cr3].map
    /\ booted \in {"heap", "ready"} => Guarded(spaces)

\* The pages that the loops map are no guards, and no user page is one.
LEMMA NoGuard ==
    /\ Guards \cap HeapPages = {} /\ Guards \cap (MMIO_START .. MaxPage) = {}
    /\ \A v \in Nat : v < USER_LIMIT => v \notin Guards
  BY AddressSpacesAssumption DEF Guards, HeapPages

\* A page more that is no guard.
LEMMA AddedGuards ==
    ASSUME GuardInv, booted \in {"heap", "ready"}, NEW r, NEW v, NEW leaf, v \notin Guards,
           PageAdded(spaces, spaces', r, v, leaf), booted' \in {booted, "panic"}
    PROVE  GuardInv'
<1>1. Guarded(spaces')
  BY ZenonT(60) DEF GuardInv, Guarded, PageAdded
<1> QED BY <1>1 DEF GuardInv

\* mm::init
LEMMA GuardsMM == ASSUME Inv, GuardInv, mm_init PROVE GuardInv'
<1>1. MemInv /\ MMPhase
  BY DEF Inv
<1>2. CASE verify_physical_memory
  BY <1>2 DEF verify_physical_memory, GuardInv, Roots
<1>3. CASE take_ownership
  <2>1. booted = "verified" /\ booted' \in {"owned", "panic"}
    BY <1>3, ZenonT(60) DEF take_ownership
  <2>2. Still \/ SpaceAdded(spaces, spaces', cr3, cr3')
    BY <1>1, <1>3, OwnStep
  <2>3. \A r \in Roots' : spaces'[r].map = spaces'[cr3'].map
    <3>1. CASE Still
      BY <2>1, <3>1 DEF GuardInv, Still, Roots
    <3>2. CASE SpaceAdded(spaces, spaces', cr3, cr3')
      BY <2>1, <3>2, ZenonT(60) DEF GuardInv, SpaceAdded, Roots
    <3> QED BY <2>2, <3>1, <3>2
  <2> QED BY <2>1, <2>3 DEF GuardInv
<1>4. CASE map_heap
  <2>1. spaces' = spaces /\ cr3' = cr3 /\ booted = "owned"
    BY <1>4 DEF map_heap
  <2>2. CASE (Guards \cup HeapPages) \cap DOMAIN spaces[cr3].map = {}
    <3>1. Guarded(spaces)
      BY <2>1, <2>2 DEF GuardInv, Guarded, Roots
    <3>2. booted' = "heap"
      BY <1>4, <2>2 DEF map_heap
    <3> QED BY <2>1, <3>1, <3>2 DEF GuardInv
  <2>3. CASE (Guards \cup HeapPages) \cap DOMAIN spaces[cr3].map # {}
    BY <1>4, <2>3, ZenonT(60) DEF map_heap, GuardInv
  <2> QED BY <2>2, <2>3
<1>5. CASE map_heap_page
  <2>1. booted = "heap" /\ booted' \in {booted, "panic"}
    BY <1>5, ZenonT(60) DEF map_heap_page
  <2>2. Still \/ \E v \in HeapPages, leaf \in Leaves : PageAdded(spaces, spaces', cr3, v, leaf)
    BY <1>1, <1>5, HeapPageStep
  <2>3. CASE Still
    BY <2>1, <2>3 DEF GuardInv, Guarded, Still
  <2>4. CASE \E v \in HeapPages, leaf \in Leaves : PageAdded(spaces, spaces', cr3, v, leaf)
    BY <2>1, <2>4, NoGuard, AddedGuards, ZenonT(60)
  <2> QED BY <2>2, <2>3, <2>4
<1>6. CASE map_heap_done
  BY <1>6, ZenonT(60) DEF map_heap_done, GuardInv, Guarded
<1> QED BY <1>2, <1>3, <1>4, <1>5, <1>6 DEF mm_init

\* Afterwards mm is ready, and address spaces change in three ways.
LEMMA GuardsKept ==
    ASSUME GuardInv, booted = "ready", booted' = booted,
           \/ spaces' = spaces
           \/ \E r, v, leaf : v \notin Guards /\ PageAdded(spaces, spaces', r, v, leaf)
           \/ \E r, c : SpaceAdded(spaces, spaces', r, c)
    PROVE  GuardInv'
<1>1. Guarded(spaces)
  BY DEF GuardInv
<1>2. Guarded(spaces')
  <2>1. CASE \E r, v, leaf : v \notin Guards /\ PageAdded(spaces, spaces', r, v, leaf)
    BY <1>1, <2>1, ZenonT(60) DEF Guarded, PageAdded
  <2>2. CASE \E r, c : SpaceAdded(spaces, spaces', r, c)
    BY <1>1, <2>2, ZenonT(60) DEF Guarded, SpaceAdded
  <2> QED BY <1>1, <2>1, <2>2
<1> QED BY <1>2, ZenonT(60) DEF GuardInv

\* Every other step of kernel_main and of the processes.
LEMMA GuardsRest == ASSUME Inv, GuardInv, Next, ~mm_init PROVE GuardInv'
<1>1. MemInv /\ MMPhase /\ ProcPhase
  BY DEF Inv
<1>2. CASE UNCHANGED <<spaces, cr3, booted>>
  BY <1>2, ZenonT(60) DEF GuardInv, Guarded, Roots
<1>3. CASE probe_disk
  BY <1>2, <1>3, ZenonT(60) DEF probe_disk, allocate_dma, mmVars
<1>4. CASE init_apic
  <2>1. CASE \E n \in MmioPages : map_mmio(n)
    BY <1>2, <2>1 DEF map_mmio
  <2>2. CASE \E ok \in BOOLEAN : map_mmio_page(ok)
    <3>1. PICK ok \in BOOLEAN : map_mmio_page(ok)
      BY <2>2
    <3>2. booted = "ready" /\ booted' = booted
      BY <3>1, ZenonT(60) DEF map_mmio_page
    <3>3. Still \/ \E v \in MMIO_START .. MaxPage, leaf \in Leaves : PageAdded(spaces, spaces', cr3, v, leaf)
      BY <1>1, <3>1, MmioPageStep
    <3>4. \/ spaces' = spaces
          \/ \E r, v, leaf : v \notin Guards /\ PageAdded(spaces, spaces', r, v, leaf)
      BY <3>3, NoGuard DEF Still
    <3> QED BY <3>2, <3>4, GuardsKept
  <2> QED BY <1>4, <2>1, <2>2, ZenonT(60) DEF init_apic
<1>5. CASE Input \/ Register \/ Syscall \/ SysExit
  BY <1>2, <1>5, ZenonT(60) DEF Input, Register, Syscall, SysExit, mmVars
<1>6. CASE Begin
  <2>1. CASE UNCHANGED mmVars
    BY <1>2, <2>1 DEF mmVars
  <2>2. CASE create_user_address_space
    <3>1. booted = "ready" /\ booted' = booted
      BY <2>2 DEF create_user_address_space, CanCreate
    <3>2. \E c : SpaceAdded(spaces, spaces', cr3, c)
      BY <1>1, <2>2, CreateStep
    <3> QED BY <3>1, <3>2, GuardsKept
  <2> QED BY <1>6, <2>1, <2>2, ZenonT(60) DEF Begin
<1>7. CASE LoadPage
  <2> DEFINE v == Head(image).page
             w == Head(image).writable
  <2>1. map_user_page(space, v, w) /\ space # 0 /\ image # <<>>
    BY <1>7, ZenonT(60) DEF LoadPage
  <2>2. v \in Nat /\ w \in BOOLEAN /\ space \in Roots
    <3> DEFINE P == [page : Nat, writable : BOOLEAN]
    <3>1. image \in Seq(P) /\ space \in Roots
      BY <1>1, <2>1, ZenonT(60) DEF ProcPhase
    <3> HIDE DEF P
    <3>2. Head(image) \in P
      BY <2>1, <3>1
    <3>3. Head(image) \in [page : Nat, writable : BOOLEAN]
      BY <3>2 DEF P
    <3> QED BY <3>1, <3>3
  <2> HIDE DEF v, w
  <2>3. booted = "ready" /\ booted' = booted
    BY <2>1, ZenonT(60) DEF map_user_page
  <2>4. spaces' = spaces \/ (v < USER_LIMIT /\ \E leaf \in Leaves : PageAdded(spaces, spaces', space, v, leaf))
    BY <1>1, <2>1, <2>2, UserPageStep, ZenonT(60)
  <2>5. \/ spaces' = spaces
        \/ \E r, u, leaf : u \notin Guards /\ PageAdded(spaces, spaces', r, u, leaf)
    BY <2>2, <2>4, NoGuard
  <2> QED BY <2>3, <2>5, GuardsKept
<1>8. CASE Enter \/ Switch \/ SetCurrent \/ ClearCurrent \/ Restore \/ Leave
  <2>1. pc \notin {"mm", "panic"} /\ spaces' = spaces /\ booted' = booted
    BY <1>8 DEF Enter, Switch, SetCurrent, ClearCurrent, Restore, Leave, activate_address_space, mmVars
  <2>2. booted = "ready"
    BY <1>1, <2>1, ZenonT(60) DEF ProcPhase
  <2> QED BY <2>1, <2>2, GuardsKept
<1> QED BY <1>3, <1>4, <1>5, <1>6, <1>7, <1>8 DEF Next

\* Before the heap is mapped every address space is like the active one, and
\* from then on none has a guard page of the heap.
THEOREM GuardInvariant == Spec => []GuardInv
<1>1. Init => GuardInv
  <2> SUFFICES ASSUME Init PROVE GuardInv
    OBVIOUS
  <2>1. booted = "start" /\ Roots = {BootRoot} /\ cr3 = BootRoot
    BY ZenonT(60) DEF Init, MMInit, Roots
  <2> QED BY <2>1 DEF GuardInv
<1>2. Inv /\ GuardInv /\ [Next]_vars => GuardInv'
  <2>1. CASE UNCHANGED vars
    BY <2>1, ZenonT(60) DEF vars, mmVars, GuardInv, Guarded, Roots
  <2> QED BY <2>1, GuardsMM, GuardsRest
<1> QED BY <1>1, <1>2, Invariant, PTL DEF Spec

-----------------------------------------------------------------------------
(* The theorems *)

\* As many values as arguments.
LEMMA InjectiveImage ==
    ASSUME NEW D, IsFiniteSet(D), NEW I, NEW f \in [D -> I],
           \A x, y \in D : f[x] = f[y] => x = y
    PROVE  /\ IsFiniteSet({f[x] : x \in D}) /\ Cardinality({f[x] : x \in D}) = Cardinality(D)
<1> DEFINE T == {f[x] : x \in D}
<1>1. f \in [D -> T] /\ \A t \in T : \E x \in D : f[x] = t
  OBVIOUS
<1> HIDE DEF T
<1>2. f \in Bijection(D, T)
  BY <1>1 DEF Bijection, Injection, Surjection, IsInjective
<1>3. ExistsBijection(D, T)
  BY <1>2 DEF ExistsBijection
<1> QED BY <1>3, FS_Bijection, ZenonT(60) DEF T

\* From owners, frame by frame, to numbers of frames.
LEMMA OwnedOnce ==
    ASSUME MemInv, MMPhase
    PROVE  FramesOwnedOnce
<1>1. Placed(spaces, free, dma, ram) /\ Apart(spaces, free, dma) /\ ram \in RamSizes /\ failures \in Nat
  BY DEF MemInv, Owned
<1>2. \A r \in Roots : spaces[r] \in SpaceType
  BY <1>1, ZenonT(60) DEF Placed, Roots
<1>3. MMTypeOK
  <2>1. \A r \in Roots :
          /\ DOMAIN spaces[r].map \subseteq Page
          /\ {Group(v) : v \in DOMAIN spaces[r].map} \subseteq DOMAIN spaces[r].tables
    BY <1>1, <1>2, SpaceParts, ZenonT(60) DEF Placed, Roots
  <2> QED BY <1>1, <2>1, ZenonT(60) DEF MMTypeOK, MMPhase, Placed
<1>4. \A r, x : r \in Roots =>
         /\ x \in TableFrames(r) <=> x = r \/ \E g : TableAt(spaces, r, g, x)
         /\ x \in LeafFrames(r) <=> \E v : PageAt(spaces, r, v, x)
  BY ZenonT(60) DEF TableFrames, LeafFrames, TableAt, PageAt, Range, Roots
<1>5. \A x : x \in InUse <=> x \in dma \/ \E r \in Roots : x \in TableFrames(r) \/ x \in LeafFrames(r)
  <2> DEFINE W == UNION {TableFrames(r) \cup LeafFrames(r) : r \in Roots}
  <2>1. \A x : x \in W <=> \E r \in Roots : x \in TableFrames(r) \/ x \in LeafFrames(r)
    OBVIOUS
  <2>2. InUse = W \cup dma
    BY DEF InUse
  <2> HIDE DEF W
  <2> QED BY <2>1, <2>2
<1>6. \A r, k, x : TableAt(spaces, r, k, x) \/ PageAt(spaces, r, k, x) => r \in Roots
  BY ZenonT(60) DEF TableAt, PageAt, Roots
<1>7. free \cap InUse = {}
  <2> SUFFICES ASSUME NEW x \in free, x \in InUse PROVE FALSE
    OBVIOUS
  <2>1. x \notin dma /\ x \notin Roots /\ \A r, k : ~TableAt(spaces, r, k, x) /\ ~PageAt(spaces, r, k, x)
    BY <1>1, ZenonT(60) DEF Apart, Roots
  <2> QED BY <1>4, <1>5, <2>1, ZenonT(60)
<1>8. ASSUME NEW r \in Roots
      PROVE  Cardinality(TableFrames(r)) = 1 + Cardinality(DOMAIN spaces[r].tables)
  <2> DEFINE t == spaces[r].tables
             T == {t[g] : g \in DOMAIN t}
  <2>1. IsFiniteSet(DOMAIN t) /\ t \in [DOMAIN t -> Int]
    BY <1>2, <1>8, SpaceParts
  <2>2. \A g, h \in DOMAIN t : t[g] = t[h] => g = h
    <3>1. \A g \in DOMAIN t : TableAt(spaces, r, g, t[g])
      BY <1>8 DEF TableAt, Roots
    <3> HIDE DEF t
    <3> QED BY <1>1, <3>1, ZenonT(60) DEF Apart
  <2>3. r \notin T
    <3>1. \A g \in DOMAIN t : TableAt(spaces, r, g, t[g])
      BY <1>8 DEF TableAt, Roots
    <3>2. \A g : ~TableAt(spaces, r, g, r)
      BY <1>1, <1>8, ZenonT(60) DEF Apart, Roots
    <3> HIDE DEF t
    <3> QED BY <3>1, <3>2, ZenonT(60)
  <2>4. TableFrames(r) = T \cup {r}
    BY ZenonT(60) DEF TableFrames, Range
  <2> HIDE DEF t
  <2>5. IsFiniteSet(T) /\ Cardinality(T) = Cardinality(DOMAIN t)
    <3> DEFINE D == DOMAIN t
    <3>1. IsFiniteSet(D) /\ \A g, h \in D : t[g] = t[h] => g = h
      BY <2>1, <2>2
    <3>2. T = {t[g] : g \in D} /\ t \in [D -> T]
      BY <2>1
    <3> HIDE DEF D, T
    <3>3. IsFiniteSet({t[g] : g \in D}) /\ Cardinality({t[g] : g \in D}) = Cardinality(D)
      BY <3>1, <3>2, InjectiveImage
    <3> QED BY <3>2, <3>3 DEF D
  <2> HIDE DEF T
  <2>6. Cardinality(T \cup {r}) = Cardinality(T) + 1 /\ Cardinality(T) \in Nat
    BY <2>3, <2>5, FS_AddElement, FS_CardinalityType, ZenonT(60)
  <2> QED BY ONLY <2>4, <2>5, <2>6 DEF t
<1>9. ASSUME NEW r \in Roots
      PROVE  Cardinality(LeafFrames(r)) = Cardinality(DOMAIN spaces[r].map)
  <2> DEFINE D == DOMAIN spaces[r].map
             f == [v \in D |-> spaces[r].map[v].frame]
  <2>1. IsFiniteSet(D)
    BY <1>2, <1>9, SpaceParts
  <2>2. \A v \in D : f[v] = spaces[r].map[v].frame
    OBVIOUS
  <2>3. \A v \in D : PageAt(spaces, r, v, f[v])
    BY <1>9, <2>2, ZenonT(60) DEF PageAt, Roots
  <2>4. LeafFrames(r) = {f[v] : v \in D} /\ f \in [D -> {f[v] : v \in D}]
    BY <2>2, ZenonT(60) DEF LeafFrames
  <2> HIDE DEF f, D
  <2>5. \A v, w \in D : f[v] = f[w] => v = w
    BY <1>1, <2>3, ZenonT(60) DEF Apart
  <2>6. Cardinality({f[v] : v \in D}) = Cardinality(D)
    <3> DEFINE I == {f[v] : v \in D}
    <3>1. f \in [D -> I]
      BY <2>4
    <3> HIDE DEF I
    <3> QED BY <2>1, <2>5, <3>1, InjectiveImage
  <2> QED BY <2>4, <2>6, ZenonT(60) DEF D
<1>10. ASSUME NEW r \in Roots
       PROVE  LeafFrames(r) \cap dma = {} /\ TableFrames(r) \cap dma = {}
  <2>1. \A x \in dma : x # r /\ \A k : ~TableAt(spaces, r, k, x) /\ ~PageAt(spaces, r, k, x)
    BY <1>1, <1>10, ZenonT(60) DEF Apart, Roots
  <2> QED BY <1>4, <1>10, <2>1, ZenonT(60)
<1>11. ASSUME NEW r \in Roots, NEW s \in Roots
       PROVE  TableFrames(r) \cap LeafFrames(s) = {}
  <2>1. \A x, v : PageAt(spaces, s, v, x) => x # r /\ \A g : ~TableAt(spaces, r, g, x)
    BY <1>1, <1>11, ZenonT(60) DEF Apart, Roots
  <2> QED BY <1>4, <1>11, <2>1, ZenonT(60)
<1>12. ASSUME NEW r \in Roots, NEW s \in Roots, r # s
       PROVE  TableFrames(r) \cap TableFrames(s) = {}
  <2>1. \A x, g, h : ~(TableAt(spaces, r, g, x) /\ TableAt(spaces, s, h, x))
    BY <1>1, <1>12, ZenonT(60) DEF Apart
  <2>2. \A g : ~TableAt(spaces, r, g, s) /\ ~TableAt(spaces, s, g, r)
    BY <1>1, <1>12, ZenonT(60) DEF Apart, Roots
  <2> QED BY <1>4, <1>12, <2>1, <2>2, ZenonT(60)
<1>13. (1 .. ram) \ (free \cup InUse) = Lost
  <2>1. \A x : x \in InUse <=> Used(spaces, dma, x)
    <3>1. \A x : Used(spaces, dma, x)
                   <=> x \in dma \/ x \in Roots \/ \E r, k : TableAt(spaces, r, k, x) \/ PageAt(spaces, r, k, x)
      BY DEF Used, Roots
    <3> QED BY ONLY <1>4, <1>5, <1>6, <3>1
  <2> QED BY <2>1 DEF Lost, LostFrames
<1>14. Cardinality(Lost) <= failures
  BY DEF MemInv
<1> QED BY <1>3, <1>7, <1>8, <1>9, <1>10, <1>11, <1>12, <1>13, <1>14, ZenonT(60) DEF FramesOwnedOnce

\* On every machine, no frame has two owners and none is lost but one for each
\* failed map_user_page: FramesOwnedOnce.
THEOREM FramesOwnedOnceHolds == Spec => []FramesOwnedOnce
<1>1. Inv => FramesOwnedOnce
  BY OwnedOnce DEF Inv
<1> QED BY <1>1, Invariant, PTL

\* CURRENT_PID, CR3 and the states of the processes agree at every step of
\* entering and leaving a process: CurrentRuns.
THEOREM CurrentRunsHolds == Spec => []CurrentRuns
<1>1. Inv => CurrentRuns
  <2> SUFFICES ASSUME Inv PROVE CurrentRuns
    OBVIOUS
  <2>1. ProcPhase
    BY DEF Inv
  <2>2. /\ processes \in Seq([state : {"Ready", "Running", "Exited"}, cr3 : Int, exit : Exits])
        /\ who \in {"init", "gui"} /\ space \in {0} \cup Roots /\ events \in 0 .. MaxEvents
    BY <2>1, ZenonT(60) DEF ProcPhase
  <2>3. Len(processes) \in Nat /\ Len(processes) <= 2
    <3>1. Len(processes) \in Nat
      BY <2>2
    <3>2. CASE who = "init"
      <4>1. Len(processes) = IF pc \in InProcess THEN 1 ELSE 0
        BY <2>1, <3>2, ZenonT(60) DEF ProcPhase
      <4> QED BY ONLY <4>1
    <3>3. CASE who = "gui"
      <4>1. Len(processes) \in {2} \/ Len(processes) \in {1} \/ Len(processes) \in 1 .. 2
        BY <2>1, <3>3, ZenonT(60) DEF ProcPhase
      <4>2. \A n \in Nat : n \in {2} \/ n \in {1} \/ n \in 1 .. 2 => n <= 2
        OBVIOUS
      <4> QED BY <3>1, <4>1, <4>2, ZenonT(60)
    <3> QED BY <2>2, <3>2, <3>3, <3>1
  <2>4. current \in 0 .. Len(processes)
    <3>1. current = IF pc \in {"user", "leave"} THEN Len(processes) ELSE 0
      BY <2>1, ZenonT(60) DEF ProcPhase
    <3> QED BY ONLY <2>3, <3>1
  <2>5. TypeOK
    BY <2>2, <2>3, <2>4 DEF TypeOK
  <2> DEFINE running == {p \in DOMAIN processes : processes[p].state = "Running"}
  <2>6. running = IF pc \in Runs THEN {Len(processes)} ELSE {}
    <3>1. pc \in Runs => Len(processes) \in DOMAIN processes
      BY <2>1, Running DEF Runs, InProcess
    <3>2. \A p \in DOMAIN processes : processes[p].state = "Running" <=> pc \in Runs /\ p = Len(processes)
      BY <2>1, ZenonT(60) DEF ProcPhase
    <3> QED BY ONLY <3>1, <3>2
  <2>7. /\ pc \in Own => cr3 = space
        /\ pc \notin Own /\ kernel_space # 0 => cr3 = kernel_space
        /\ current = IF pc \in {"user", "leave"} THEN Len(processes) ELSE 0
        /\ pc \in InProcess => processes[Len(processes)].cr3 = space
    BY <2>1, ZenonT(60) DEF ProcPhase
  <2>8. pc \in InProcess => Len(processes) # 0
    BY <2>1, Running
  <2> HIDE DEF running
  <2>9. /\ current # 0 => running = {current} /\ cr3 = processes[current].cr3
        /\ pc = "user" => current # 0
        /\ kernel_space # 0 => cr3 \in {kernel_space} \cup {processes[p].cr3 : p \in running}
        /\ pc \in {"load", "shell"} => running = {} /\ kernel_space \in {0, cr3}
    BY <2>6, <2>7, <2>8 DEF Own, Runs, InProcess
  <2> QED BY <2>5, <2>9 DEF CurrentRuns, running
<1> QED BY <1>1, Invariant, PTL

\* A process's address space is always the kernel's and pages of its own, and
\* no guard page is mapped: KernelAndOwnPages.
THEOREM KernelAndOwnPagesHolds == Spec => []KernelAndOwnPages
<1>1. Inv /\ GuardInv => KernelAndOwnPages
  <2> SUFFICES ASSUME Inv, GuardInv PROVE KernelAndOwnPages
    OBVIOUS
  <2>1. SpacesInv
    BY DEF Inv
  <2>2. UserPagesPrivate
    BY <2>1, ZenonT(60) DEF SpacesInv, Private, UserPagesPrivate, UserFrames, Roots
  <2>3. KernelStaysMapped
    BY <2>1, ZenonT(60) DEF GuardInv, Guarded, SpacesInv, Within, KernelStaysMapped, Roots
  <2> QED BY <2>2, <2>3 DEF KernelAndOwnPages
<1> QED BY <1>1, Invariant, GuardInvariant, PTL

\* Whatever the arguments of a system call, the kernel copies to and from bytes
\* only that the process may access, and refuses no others:
\* CopiesStayInUserPages.
THEOREM CopiesStayInUserPagesHolds == Spec => []CopiesStayInUserPages
<1>1. Inv => CopiesStayInUserPages
  BY DEF Inv
<1> QED BY <1>1, Invariant, PTL
=============================================================================
