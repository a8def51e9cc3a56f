----------------------------- MODULE BootProofs ------------------------------
(***************************************************************************)
(* Theorems of module Boot.                                                *)
(***************************************************************************)
EXTENDS Boot, WellFoundedInduction, TLAPS

\* A leaf that names no prover is for SMT, with time to spare on a busy machine.
USE SMTT(60)

-----------------------------------------------------------------------------
(* Numbers, and functions that are defined step by step *)

\* There is a least of any set of naturals.
LEMMA Least ==
    ASSUME NEW T, T \subseteq Nat, T # {}
    PROVE  \E m \in T : \A n \in T : m <= n
<1> DEFINE R == {ss \in Nat \X Nat : ss[1] < ss[2]}
<1>1. IsWellFoundedOn(R, Nat)
  BY NatLessThanWellFounded DEF OpToRel
<1> HIDE DEF R
<1>2. PICK x \in T : \A y \in T : ~(<<y, x>> \in R)
  BY <1>1, WFMin, ZenonT(60)
<1>3. \A y \in T : ~(y < x)
  BY <1>2, ZenonT(60) DEF R
<1> QED BY <1>3

\* A set that holds 0, and k with k - 1, holds every number up to n.
LEMMA Upwards ==
    ASSUME NEW n \in Nat, NEW T, 0 \in T, \A k \in 1 .. n : k - 1 \in T => k \in T
    PROVE  \A k \in 0 .. n : k \in T
<1> SUFFICES ASSUME NEW k \in 0 .. n, k \notin T PROVE FALSE
  OBVIOUS
<1> DEFINE Missing == (0 .. n) \ T
<1>1. Missing \subseteq Nat /\ Missing # {}
  OBVIOUS
<1>2. PICK m \in Missing : \A j \in Missing : m <= j
  <2> HIDE DEF Missing
  <2> QED BY <1>1, Least, ZenonT(60)
<1>3. m \in 0 .. n /\ m \notin T /\ m # 0
  BY <1>2
<1>4. m - 1 \in T
  BY <1>2, <1>3
<1> QED BY <1>3, <1>4

\* f starts with x, and each of its values comes from the one before.
Run(f, n, S, x, g) ==
    f \in [0 .. n -> S] /\ f[0] = x /\ \A k \in 1 .. n : f[k] = g[k][f[k - 1]]

\* A sequence of values, each of which follows from the one before.
LEMMA Iterate ==
    ASSUME NEW n \in Nat, NEW S, NEW x \in S, NEW g \in [1 .. n -> [S -> S]]
    PROVE  \E f : Run(f, n, S, x, g)
<1> DEFINE P(m) == \E f \in [0 .. m -> S] : f[0] = x /\ \A k \in 1 .. m : f[k] = g[k][f[k - 1]]
           T == {m \in Nat : P(m)}
<1>1. 0 \in T
  <2> DEFINE f == [k \in 0 .. 0 |-> x]
  <2>1. f \in [0 .. 0 -> S] /\ f[0] = x /\ \A k \in 1 .. 0 : f[k] = g[k][f[k - 1]]
    OBVIOUS
  <2> HIDE DEF f
  <2>2. P(0)
    BY <2>1, ZenonT(60)
  <2> QED BY <2>2
<1>2. ASSUME NEW m \in 1 .. n, m - 1 \in T PROVE m \in T
  <2>1. PICK f \in [0 .. m - 1 -> S] : f[0] = x /\ \A k \in 1 .. m - 1 : f[k] = g[k][f[k - 1]]
    BY <1>2
  <2>2. f[m - 1] \in S /\ m \in Nat /\ m - 1 \in 0 .. m - 1
    OBVIOUS
  <2>3. PICK y \in S : y = g[m][f[m - 1]]
    <3>1. g[m] \in [S -> S]
      OBVIOUS
    <3> QED BY <2>2, <3>1
  <2>4. PICK h \in [0 .. m -> S] : h = [k \in 0 .. m |-> IF k = m THEN y ELSE f[k]]
    <3>1. \A k \in 0 .. m : k # m => k \in 0 .. m - 1
      OBVIOUS
    <3> QED BY <3>1, ZenonT(60)
  <2>5. h[0] = x /\ h[m] = y /\ h[m - 1] = f[m - 1]
    BY <2>1, <2>2, <2>4
  <2>6. ASSUME NEW k \in 1 .. m PROVE h[k] = g[k][h[k - 1]]
    <3>1. CASE k = m
      BY <2>3, <2>5, <3>1
    <3>2. CASE k # m
      <4>1. k \in 1 .. m - 1 /\ k \in 0 .. m /\ k - 1 \in 0 .. m /\ k - 1 # m
        BY <3>2
      <4>2. h[k] = f[k] /\ h[k - 1] = f[k - 1]
        BY <2>4, <3>2, <4>1
      <4> QED BY <2>1, <4>1, <4>2
    <3> QED BY <3>1, <3>2
  <2>7. P(m)
    BY <2>5, <2>6
  <2> QED BY <2>2, <2>7
<1>3. n \in T
  <2> HIDE DEF T
  <2>1. \A k \in 0 .. n : k \in T
    BY <1>1, <1>2, Upwards, ZenonT(60)
  <2> QED BY <2>1
<1> QED BY <1>3, ZenonT(60) DEF Run

\* Min is the least.
LEMMA MinIn ==
    ASSUME NEW T, T \subseteq Nat, T # {}
    PROVE  Elf!Min(T) \in T /\ \A n \in T : Elf!Min(T) <= n
<1>1. \E m \in T : \A n \in T : m <= n
  BY Least, ZenonT(60)
<1> QED BY <1>1, ZenonT(60) DEF Elf!Min

-----------------------------------------------------------------------------
(* The program in memory *)

Headers ==
    [load : BOOLEAN, offset : Nat, vaddr : Nat, filesz : Nat, memsz : Nat,
     align : Nat, writable : BOOLEAN, executable : BOOLEAN]

Aligned(a) == \E k \in Nat : a = k * PAGE_SIZE

\* Two aligned addresses are the same or a page apart.
LEMMA Apart ==
    ASSUME NEW a, NEW b, Aligned(a), Aligned(b), a < b
    PROVE  a + PAGE_SIZE <= b
<1>1. PAGE_SIZE \in Nat \ {0}
  BY BootAssumption
<1>2. PICK j \in Nat, k \in Nat : a = j * PAGE_SIZE /\ b = k * PAGE_SIZE
  BY DEF Aligned
<1>3. j < k
  <2> SUFFICES ASSUME k <= j PROVE FALSE
    OBVIOUS
  <2>1. PICK d \in Nat : j = k + d
    <3>1. j = k + (j - k) /\ j - k \in Nat
      OBVIOUS
    <3> QED BY <3>1
  <2>2. j * PAGE_SIZE = k * PAGE_SIZE + d * PAGE_SIZE
    BY <1>1, <2>1
  <2>3. d * PAGE_SIZE >= 0 /\ d * PAGE_SIZE \in Nat /\ k * PAGE_SIZE \in Nat
    BY <1>1
  <2> QED BY <1>2, <2>2, <2>3
<1>4. PICK d \in Nat : k = j + 1 + d
  <2>1. k = j + 1 + (k - j - 1) /\ k - j - 1 \in Nat
    BY <1>3
  <2> QED BY <2>1
<1>5. k * PAGE_SIZE = j * PAGE_SIZE + PAGE_SIZE + d * PAGE_SIZE
  BY <1>1, <1>4
<1>6. d * PAGE_SIZE \in Nat /\ j * PAGE_SIZE \in Nat
  BY <1>1
<1> QED BY <1>1, <1>2, <1>5, <1>6

\* The page of an address is aligned and holds it.
LEMMA PageOfHolds ==
    ASSUME NEW a \in Nat
    PROVE  /\ Elf!PageOf(a) \in Nat /\ Aligned(Elf!PageOf(a))
           /\ Elf!PageOf(a) <= a /\ a < Elf!PageOf(a) + PAGE_SIZE
<1>1. PAGE_SIZE \in Nat \ {0}
  BY BootAssumption
<1>2. a = PAGE_SIZE * (a \div PAGE_SIZE) + (a % PAGE_SIZE)
      /\ a \div PAGE_SIZE \in Nat /\ a % PAGE_SIZE \in 0 .. PAGE_SIZE - 1
  BY <1>1
<1>3. PICK k \in Nat, r \in 0 .. PAGE_SIZE - 1 : a = PAGE_SIZE * k + r /\ r = a % PAGE_SIZE
  BY <1>2
<1>4. Elf!PageOf(a) = k * PAGE_SIZE /\ k * PAGE_SIZE \in Nat
  BY <1>1, <1>3 DEF Elf!PageOf
<1> QED BY <1>1, <1>3, <1>4 DEF Aligned

\* Only one aligned page holds an address.
LEMMA PageOfIs ==
    ASSUME NEW p \in Nat, Aligned(p), NEW b \in p .. p + PAGE_SIZE - 1
    PROVE  Elf!PageOf(b) = p
<1>1. PAGE_SIZE \in Nat \ {0}
  BY BootAssumption
<1>2. PICK q \in Nat : q = Elf!PageOf(b) /\ Aligned(q) /\ q <= b /\ b < q + PAGE_SIZE
  BY <1>1, PageOfHolds
<1>3. ~(p < q)
  BY <1>1, <1>2, Apart
<1>4. ~(q < p)
  BY <1>1, <1>2, Apart
<1> QED BY <1>2, <1>3, <1>4

\* align_up rounds up to a page.
LEMMA AlignUp ==
    ASSUME NEW a \in Nat
    PROVE  /\ Elf!align_up(a) \in Nat /\ Aligned(Elf!align_up(a))
           /\ a <= Elf!align_up(a) /\ Elf!align_up(a) < a + PAGE_SIZE
<1>1. PAGE_SIZE \in Nat \ {0}
  BY BootAssumption
<1>2. a + PAGE_SIZE - 1 \in Nat
  BY <1>1
<1>3. PICK q \in Nat : /\ q = Elf!PageOf(a + PAGE_SIZE - 1) /\ Aligned(q)
                       /\ q <= a + PAGE_SIZE - 1 /\ a + PAGE_SIZE - 1 < q + PAGE_SIZE
  BY <1>2, PageOfHolds
<1> QED BY <1>1, <1>3 DEF Elf!align_up

\* Userspace ends at the start of a page.
LEMMA LimitAligned == USER_LIMIT \in Nat /\ Aligned(USER_LIMIT)
<1>1. PAGE_SIZE \in Nat \ {0} /\ USER_LIMIT \in Nat /\ USER_LIMIT % PAGE_SIZE = 0
  BY BootAssumption
<1>2. USER_LIMIT = PAGE_SIZE * (USER_LIMIT \div PAGE_SIZE) + (USER_LIMIT % PAGE_SIZE)
      /\ USER_LIMIT \div PAGE_SIZE \in Nat
  BY <1>1
<1>3. PICK k \in Nat : USER_LIMIT = PAGE_SIZE * k
  BY <1>1, <1>2
<1> QED BY <1>1, <1>3 DEF Aligned

\* The lesser and the greater of two numbers.
LEMMA MinMax ==
    ASSUME NEW a \in Int, NEW b \in Int
    PROVE  /\ Elf!Min({a, b}) = IF a <= b THEN a ELSE b
           /\ Elf!Max({a, b}) = IF a <= b THEN b ELSE a
<1>1. \E x \in {a, b} : \A y \in {a, b} : x <= y
  OBVIOUS
<1>2. \E x \in {a, b} : \A y \in {a, b} : x >= y
  OBVIOUS
<1>3. Elf!Min({a, b}) \in {a, b} /\ \A y \in {a, b} : Elf!Min({a, b}) <= y
  BY <1>1, ZenonT(60) DEF Elf!Min
<1>4. Elf!Max({a, b}) \in {a, b} /\ \A y \in {a, b} : Elf!Max({a, b}) >= y
  BY <1>2, ZenonT(60) DEF Elf!Max
<1> QED BY <1>3, <1>4

\* Loads is a sequence of headers.
LEMMA LoadsType ==
    ASSUME NEW H, file.headers \in Seq(H)
    PROVE  Elf!Loads \in Seq(H)
<1>1. PICK n \in Nat : n = Len(file.headers)
  OBVIOUS
<1>2. PICK g \in [1 .. n -> [Seq(H) -> Seq(H)]] :
         g = [k \in 1 .. n |-> [q \in Seq(H) |->
                IF file.headers[k].load THEN Append(q, file.headers[k]) ELSE q]]
  <2>1. ASSUME NEW k \in 1 .. n, NEW q \in Seq(H)
        PROVE  (IF file.headers[k].load THEN Append(q, file.headers[k]) ELSE q) \in Seq(H)
    BY <1>1
  <2> QED BY <2>1, ZenonT(60)
<1>3. PICK f : Run(f, n, Seq(H), <<>>, g)
  <2>1. <<>> \in Seq(H)
    OBVIOUS
  <2> QED BY <2>1, Iterate, ZenonT(60)
<1> f \in [0 .. n -> Seq(H)] /\ f[0] = <<>> /\ \A k \in 1 .. n : f[k] = g[k][f[k - 1]]
  BY <1>3 DEF Run
<1> DEFINE Step(u) == [k \in 0 .. Len(file.headers) |->
              IF k = 0 THEN <<>>
              ELSE IF file.headers[k].load THEN Append(u[k - 1], file.headers[k]) ELSE u[k - 1]]
           up == CHOOSE u : u = Step(u)
<1>4. f = Step(f)
  <2>1. ASSUME NEW k \in 0 .. n PROVE f[k] = Step(f)[k]
    <3>1. CASE k = 0
      BY <1>1, <1>3, <3>1
    <3>2. CASE k # 0
      <4>1. k \in 1 .. n /\ f[k - 1] \in Seq(H)
        BY <3>2
      <4> QED BY <1>1, <1>2, <1>3, <3>2, <4>1, ZenonT(60)
    <3> QED BY <3>1, <3>2, ZenonT(60)
  <2> QED BY <1>1, <2>1, ZenonT(60)
<1>5. up = Step(up)
  <2> HIDE DEF Step
  <2> QED BY <1>4, ZenonT(60)
<1>6. Elf!Loads = up[Len(file.headers)]
  BY DEF Elf!Loads
<1>7. \A k \in 0 .. n : up[k] \in Seq(H)
  <2> DEFINE T == {k \in 0 .. n : up[k] \in Seq(H)}
  <2> HIDE DEF up
  <2>1. /\ up[0] = <<>>
        /\ \A k \in 1 .. n : up[k] = IF file.headers[k].load THEN Append(up[k - 1], file.headers[k]) ELSE up[k - 1]
    <3>1. ASSUME NEW k \in 0 .. n PROVE up[k] = Step(up)[k]
      <4> HIDE DEF Step
      <4> QED BY <1>5, ZenonT(60)
    <3>2. ASSUME NEW k \in 1 .. n
          PROVE  up[k] = IF file.headers[k].load THEN Append(up[k - 1], file.headers[k]) ELSE up[k - 1]
      <4>1. k \in 0 .. n /\ k \in 0 .. Len(file.headers) /\ k # 0
        BY <1>1
      <4>2. up[k] = Step(up)[k]
        BY <3>1, <4>1, ZenonT(60)
      <4> QED BY <4>1, <4>2
    <3>3. up[0] = <<>>
      <4>1. 0 \in 0 .. n /\ 0 \in 0 .. Len(file.headers)
        BY <1>1
      <4>2. up[0] = Step(up)[0]
        BY <3>1, <4>1, ZenonT(60)
      <4> QED BY <4>1, <4>2
    <3> QED BY <3>2, <3>3
  <2>2. 0 \in T
    <3>1. <<>> \in Seq(H) /\ 0 \in 0 .. n
      OBVIOUS
    <3> QED BY <2>1, <3>1, ZenonT(60)
  <2>3. ASSUME NEW k \in 1 .. n, k - 1 \in T PROVE k \in T
    <3>1. up[k - 1] \in Seq(H) /\ k \in 0 .. n /\ file.headers[k] \in H
      BY <1>1, <2>3
    <3>2. Append(up[k - 1], file.headers[k]) \in Seq(H)
      BY <3>1
    <3>3. up[k] \in Seq(H)
      BY <2>1, <3>1, <3>2, ZenonT(60)
    <3> QED BY <3>1, <3>3, ZenonT(60)
  <2>4. \A k \in 0 .. n : k \in T
    <3> HIDE DEF T
    <3> QED BY <2>2, <2>3, Upwards, ZenonT(60)
  <2> QED BY <2>4
<1> HIDE DEF up
<1> QED BY <1>1, <1>6, <1>7

\* A byte of a segment is in memory as its header says.
There(s, b) ==
    /\ b \in DOMAIN memory
    /\ memory[b] = IF Elf!InFile(s, b) THEN Elf!FileByte(s.offset + b - s.vaddr) ELSE 0
    /\ flags[Elf!PageOf(b)].writable = s.writable
    /\ flags[Elf!PageOf(b)].executable = s.executable

BytesOf(s) == s.vaddr .. Elf!SegmentEnd(s) - 1

\* Segments before todo are in memory, and the pages of the current one before
\* page; nothing else is.
ElfInv ==
    /\ file \in Files
    /\ loading \in {"parse", "load", "segment", "page", "loaded", "failed"}
    /\ stage \in {"apic", "ps2", "ticks", "parse"} => loading = "parse"
    /\ loading = "parse" => segments = <<>>
    /\ loading \in {"parse", "load"} => todo = 1
    /\ segments \in Seq(Headers)
    /\ \A i \in DOMAIN segments :
          /\ segments[i].filesz <= segments[i].memsz
          /\ segments[i].offset + segments[i].filesz <= file.len
    /\ todo \in 1 .. Len(segments) + 1
    /\ \A p \in DOMAIN flags : p \in Nat /\ Aligned(p) /\ p + PAGE_SIZE <= USER_LIMIT
    /\ DOMAIN memory = UNION {p .. p + PAGE_SIZE - 1 : p \in DOMAIN flags}
    /\ \A i \in 1 .. todo - 1 : \A b \in BytesOf(segments[i]) : There(segments[i], b)
    /\ loading = "page" =>
          /\ todo <= Len(segments)
          /\ segments[todo].memsz # 0 /\ Elf!SegmentEnd(segments[todo]) <= USER_LIMIT
          /\ page \in Nat /\ Aligned(page) /\ Elf!PageOf(segments[todo].vaddr) <= page
          /\ \A b \in BytesOf(segments[todo]) : b < page => There(segments[todo], b)
    /\ loading = "loaded" => todo = Len(segments) + 1
    /\ \A b \in DOMAIN memory :
          memory[b] # 0 => \E i \in DOMAIN segments : Elf!InFile(segments[i], b)
    /\ \A p \in DOMAIN flags :
          \E i \in DOMAIN segments : \E b \in p .. p + PAGE_SIZE - 1 : Elf!InMemory(segments[i], b)

\* Nothing is loaded at first.
LEMMA ElfInvInit == Init => ElfInv
<1> SUFFICES ASSUME Init PROVE ElfInv
  OBVIOUS
<1>1. /\ file \in Files /\ loading = "parse" /\ segments = <<>> /\ todo = 1 /\ stage = "apic"
      /\ memory = <<>> /\ flags = <<>>
  BY BootAssumption DEF Init, Elf!Init
<1>2. Len(segments) = 0 /\ DOMAIN segments = {} /\ segments \in Seq(Headers)
  BY <1>1
<1>3. DOMAIN memory = {} /\ DOMAIN flags = {}
  BY <1>1
<1>4. DOMAIN memory = UNION {p .. p + PAGE_SIZE - 1 : p \in DOMAIN flags}
  BY <1>3
<1>5. 1 .. todo - 1 = {}
  BY <1>1
<1> QED BY <1>1, <1>2, <1>3, <1>4, <1>5 DEF ElfInv

\* The segments that parse lets through.
LEMMA ParseStep ==
    ASSUME ElfInv, Elf!parse,
           stage' \in {"clone", "panicked"}
    PROVE  ElfInv'
<1>1. /\ loading = "parse" /\ UNCHANGED <<file, todo, page, memory, flags>>
      /\ segments = <<>> /\ todo = 1 /\ file \in Files
  BY DEF Elf!parse, ElfInv
<1>2. CASE Elf!ParseError = "none"
  <2>1. loading' = "load" /\ segments' = Elf!Loads
    BY <1>2 DEF Elf!parse
  <2>2. Elf!Loads \in Seq(Headers)
    <3>1. file.headers \in Seq(Headers)
      BY <1>1, FilesAssumption DEF Headers
    <3> QED BY <3>1, LoadsType
  <2>3. \A i \in DOMAIN Elf!Loads : Elf!SegmentError(Elf!Loads[i]) = "none"
    <3>1. ASSUME Elf!BadLoads # {} PROVE Elf!SegmentError(Elf!Loads[Elf!Min(Elf!BadLoads)]) # "none"
      <4>1. Elf!BadLoads \subseteq Nat
        BY <2>2 DEF Elf!BadLoads
      <4>2. Elf!Min(Elf!BadLoads) \in Elf!BadLoads
        BY <3>1, <4>1, MinIn, ZenonT(60)
      <4> QED BY <4>2, ZenonT(60) DEF Elf!BadLoads
    <3>2. file.ident # "none" /\ file.len \in Nat /\ HeaderBytes \in Nat
      BY <1>1, FilesAssumption, BootAssumption
    <3>3. Elf!BadLoads = {}
      <4>1. CASE file.len < HeaderBytes
        BY <1>2, <3>2, <4>1 DEF Elf!ParseError
      <4>2. CASE file.len >= HeaderBytes /\ file.ident # "ok"
        BY <1>2, <3>2, <4>2 DEF Elf!ParseError
      <4> DEFINE A == file.len < HeaderBytes
                 B == file.len >= HeaderBytes /\ file.ident # "ok"
                 C == file.len >= HeaderBytes /\ file.ident = "ok" /\ (Elf!PhEnd >= U64 \/ Elf!PhEnd > file.len)
      <4>3. CASE ~A /\ ~B /\ C
        BY <1>2, <4>3 DEF Elf!ParseError
      <4>4. CASE ~A /\ ~B /\ ~C
        BY <1>2, <3>1, <4>4 DEF Elf!ParseError
      <4> QED BY <4>1, <4>2, <4>3, <4>4, ZenonT(60)
    <3> QED BY <3>3, ZenonT(60) DEF Elf!BadLoads
  <2>4. \A i \in DOMAIN segments' : /\ segments'[i].filesz <= segments'[i].memsz
                                    /\ segments'[i].offset + segments'[i].filesz <= file'.len
    <3> SUFFICES ASSUME NEW i \in DOMAIN Elf!Loads
                 PROVE  /\ Elf!Loads[i].filesz <= Elf!Loads[i].memsz
                        /\ Elf!Loads[i].offset + Elf!Loads[i].filesz <= file.len
      BY <1>1, <2>1
    <3>1. PICK h \in Headers : h = Elf!Loads[i]
      BY <2>2
    <3>2. Elf!SegmentError(h) = "none"
      BY <2>3, <3>1
    <3>3. h.filesz \in Nat /\ h.memsz \in Nat /\ h.offset \in Nat /\ file.len \in Nat
      BY <1>1, FilesAssumption DEF Headers
    <3> QED BY <3>1, <3>2, <3>3 DEF Elf!SegmentError
  <2>5. todo' \in 1 .. Len(segments') + 1
    BY <1>1, <2>1, <2>2
  <2>6. DOMAIN flags = {} /\ DOMAIN memory = {}
    <3>1. DOMAIN segments = {}
      BY <1>1
    <3>2. DOMAIN flags = {}
      BY <3>1, ZenonT(60) DEF ElfInv
    <3> QED BY <3>2 DEF ElfInv
  <2>7. DOMAIN memory' = UNION {p .. p + PAGE_SIZE - 1 : p \in DOMAIN flags'}
    BY <1>1, ZenonT(60) DEF ElfInv
  <2> QED BY <1>1, <2>1, <2>2, <2>4, <2>5, <2>6, <2>7 DEF ElfInv
<1>3. CASE Elf!ParseError # "none"
  <2>1. loading' = "failed" /\ segments' = segments
    BY <1>3 DEF Elf!parse, Elf!Fail
  <2>2. \A z, b : There(z, b)' <=> There(z, b)
    BY <1>1, ZenonT(60) DEF There
  <2> QED BY <1>1, <2>1, <2>2, ZenonT(60) DEF ElfInv
<1> QED BY <1>2, <1>3

\* Where the loader does not run, only the file may be another one, and only
\* before it is parsed.
LEMMA ElfStill ==
    ASSUME ElfInv, UNCHANGED <<loading, segments, todo, page, memory, flags>>,
           file' \in Files, file' = file \/ loading = "parse",
           stage' \in {"apic", "ps2", "ticks", "parse"} => loading = "parse"
    PROVE  ElfInv'
<1>1. \A i \in DOMAIN segments : /\ segments[i].filesz <= segments[i].memsz
                                 /\ segments[i].offset + segments[i].filesz <= file'.len
  <2>1. CASE file' = file
    BY <2>1 DEF ElfInv
  <2>2. CASE loading = "parse"
    <3>1. segments = <<>>
      BY <2>2 DEF ElfInv
    <3>2. DOMAIN segments = {}
      BY <3>1
    <3> QED BY <3>2
  <2> QED BY <2>1, <2>2
<1>2. \A z, b : There(z, b)' <=> There(z, b)
  BY ZenonT(60) DEF There
<1> QED BY <1>1, <1>2, ZenonT(60) DEF ElfInv

\* CheckEntry and NextSegment
LEMMA SegmentStep ==
    ASSUME ElfInv, Elf!CheckEntry \/ Elf!NextSegment,
           stage' \in {"load", "panicked"}
    PROVE  ElfInv'
<1>1. UNCHANGED <<file, segments, memory, flags>> /\ loading \in {"load", "segment"}
  BY ZenonT(60) DEF Elf!CheckEntry, Elf!NextSegment
<1>2. \A z, b : There(z, b)' <=> There(z, b)
  BY <1>1, ZenonT(60) DEF There
<1>3. stage' \notin {"apic", "ps2", "ticks", "parse"}
  OBVIOUS
<1>4. /\ file' \in Files /\ segments' \in Seq(Headers)
      /\ \A i \in DOMAIN segments' : /\ segments'[i].filesz <= segments'[i].memsz
                                     /\ segments'[i].offset + segments'[i].filesz <= file'.len
      /\ \A p \in DOMAIN flags' : p \in Nat /\ Aligned(p) /\ p + PAGE_SIZE <= USER_LIMIT
      /\ DOMAIN memory' = UNION {p .. p + PAGE_SIZE - 1 : p \in DOMAIN flags'}
      /\ \A b \in DOMAIN memory' :
            memory'[b] # 0 => \E i \in DOMAIN segments' : Elf!InFile(segments'[i], b)
      /\ \A p \in DOMAIN flags' :
            \E i \in DOMAIN segments' : \E b \in p .. p + PAGE_SIZE - 1 : Elf!InMemory(segments'[i], b)
  BY <1>1, ZenonT(60) DEF ElfInv
<1>5. todo \in 1 .. Len(segments) + 1 /\ Len(segments) \in Nat
  BY DEF ElfInv
<1>6. \A i \in 1 .. todo - 1 : \A b \in BytesOf(segments[i]) : There(segments[i], b)'
  BY <1>1, <1>2, ZenonT(60) DEF ElfInv
<1>7. CASE todo' = todo /\ (loading' \in {"segment", "failed"} \/ (loading' = "loaded" /\ todo > Len(segments)))
  <2>1. /\ loading' \in {"parse", "load", "segment", "page", "loaded", "failed"}
        /\ loading' \notin {"parse", "load"} /\ loading' # "parse" /\ loading' # "page"
        /\ loading' = "loaded" => todo' = Len(segments') + 1
    BY <1>1, <1>5, <1>7
  <2>2. todo' \in 1 .. Len(segments') + 1
        /\ \A i \in 1 .. todo' - 1 : \A b \in BytesOf(segments'[i]) : There(segments[i], b)'
    BY <1>1, <1>5, <1>6, <1>7, ZenonT(60)
  <2> QED BY <1>1, <1>3, <1>4, <2>1, <2>2, ZenonT(60) DEF ElfInv
<1>8. CASE loading' = loading /\ loading = "segment" /\ todo <= Len(segments)
           /\ segments[todo].memsz = 0 /\ todo' = todo + 1
  <2>1. /\ loading' \in {"parse", "load", "segment", "page", "loaded", "failed"}
        /\ loading' \notin {"parse", "load"} /\ loading' # "parse" /\ loading' # "page" /\ loading' # "loaded"
    BY <1>8
  <2>2. BytesOf(segments[todo]) = {}
    <3>1. segments[todo] \in Headers
      BY <1>5, <1>8 DEF ElfInv
    <3>2. segments[todo].vaddr \in Nat
      BY <3>1 DEF Headers
    <3> QED BY <1>8, <3>2 DEF BytesOf, Elf!SegmentEnd
  <2>3. todo' \in 1 .. Len(segments') + 1 /\ \A i \in 1 .. todo' - 1 : i \in 1 .. todo - 1 \/ i = todo
    BY <1>1, <1>5, <1>8
  <2>4. \A i \in 1 .. todo' - 1 : \A b \in BytesOf(segments'[i]) : There(segments[i], b)'
    BY <1>1, <1>6, <2>2, <2>3, ZenonT(60)
  <2> QED BY <1>1, <1>3, <1>4, <2>1, <2>3, <2>4, ZenonT(60) DEF ElfInv
<1>9. CASE /\ loading' = "page" /\ page' = Elf!PageOf(segments[todo].vaddr) /\ todo' = todo
           /\ todo <= Len(segments) /\ segments[todo].memsz # 0 /\ Elf!RangeError(segments[todo]) = "none"
  <2> DEFINE z == segments[todo]
  <2>1. z \in Headers
    BY <1>5, <1>9 DEF ElfInv
  <2>2. z.vaddr \in Nat /\ z.memsz \in Nat /\ Elf!SegmentEnd(z) \in Nat
    BY <2>1 DEF Headers, Elf!SegmentEnd
  <2>3. Elf!SegmentEnd(z) <= USER_LIMIT
    <3>1. USER_LIMIT \in Nat /\ U64 \in Nat
      BY BootAssumption
    <3> HIDE DEF z
    <3> QED BY <1>9, <2>2, <3>1 DEF Elf!RangeError, z
  <2>4. /\ page' \in Nat /\ Aligned(page') /\ Elf!PageOf(z.vaddr) <= page'
        /\ \A b \in BytesOf(z) : ~(b < page')
    <3>1. page' = Elf!PageOf(z.vaddr) /\ page' \in Nat /\ Aligned(page') /\ page' <= z.vaddr
      BY <1>9, <2>2, PageOfHolds, ZenonT(60)
    <3> QED BY <2>2, <3>1 DEF BytesOf
  <2>5. loading' \in {"parse", "load", "segment", "page", "loaded", "failed"}
        /\ loading' \notin {"parse", "load"} /\ loading' # "parse" /\ loading' # "loaded"
    BY <1>9
  <2>6. todo' \in 1 .. Len(segments') + 1
        /\ \A i \in 1 .. todo' - 1 : \A b \in BytesOf(segments'[i]) : There(segments[i], b)'
    BY <1>1, <1>5, <1>6, <1>9, ZenonT(60)
  <2>7. segments'[todo'] = z /\ todo' <= Len(segments') /\ z.memsz # 0
    BY <1>1, <1>9, ZenonT(60)
  <2> HIDE DEF z
  <2> QED BY <1>1, <1>3, <1>4, <2>3, <2>4, <2>5, <2>6, <2>7, ZenonT(60) DEF ElfInv
<1> QED
  <2>1. CASE Elf!CheckEntry
    BY <1>7, <2>1, ZenonT(60) DEF Elf!CheckEntry, Elf!Fail
  <2>2. CASE Elf!NextSegment
    BY <1>7, <1>8, <1>9, <2>2, ZenonT(60) DEF Elf!NextSegment, Elf!Fail, Elf!Segment
  <2> QED BY <2>1, <2>2

\* A page of a segment, where there was none.
LEMMA LoadPageStep ==
    ASSUME ElfInv, Elf!LoadPage, page \notin DOMAIN flags, loading' = loading,
           stage' \in {"load", "panicked"}
    PROVE  ElfInv'
<1> DEFINE z == segments[todo]
           New == page .. page + PAGE_SIZE - 1
<1>1. /\ loading = "page" /\ page < Elf!align_up(Elf!SegmentEnd(z)) /\ page' = page + PAGE_SIZE
      /\ memory' = Elf!Over(Elf!initial(z), memory)
      /\ flags' = Elf!Over([p \in {page} |-> [writable |-> z.writable, executable |-> z.executable]], flags)
      /\ UNCHANGED <<file, segments, todo>>
  BY DEF Elf!LoadPage, Elf!Segment, Elf!Fail
<1>2. /\ todo \in 1 .. Len(segments) /\ z \in Headers /\ z.memsz # 0 /\ Elf!SegmentEnd(z) <= USER_LIMIT
      /\ page \in Nat /\ Aligned(page) /\ Elf!PageOf(z.vaddr) <= page /\ Len(segments) \in Nat
      /\ PAGE_SIZE \in Nat \ {0} /\ USER_LIMIT \in Nat
  <2>1. segments \in Seq(Headers) /\ todo \in 1 .. Len(segments) + 1 /\ todo <= Len(segments)
    BY <1>1, ZenonT(60) DEF ElfInv
  <2>2. todo \in 1 .. Len(segments) /\ Len(segments) \in Nat /\ z \in Headers
    BY ONLY <2>1
  <2>3. /\ z.memsz # 0 /\ Elf!SegmentEnd(z) <= USER_LIMIT
        /\ page \in Nat /\ Aligned(page) /\ Elf!PageOf(z.vaddr) <= page
    BY <1>1, ZenonT(60) DEF ElfInv
  <2> HIDE DEF z
  <2> QED BY ONLY <2>2, <2>3, BootAssumption
<1>3. /\ z.vaddr \in Nat /\ z.memsz \in Nat /\ z.filesz \in Nat /\ z.offset \in Nat
      /\ Elf!SegmentEnd(z) = z.vaddr + z.memsz /\ Elf!FileEnd(z) = z.vaddr + z.filesz
  BY <1>2, ZenonT(60) DEF Headers, Elf!SegmentEnd, Elf!FileEnd
<1>4. \A b \in New : (Elf!initial(z)[b] = IF z.vaddr <= b /\ b < Elf!FileEnd(z)
                                         THEN Elf!FileByte(z.offset + (b - z.vaddr)) ELSE 0)
                     /\ DOMAIN Elf!initial(z) = New
  <2> DEFINE lo == Elf!Max({page, z.vaddr})
             hi == Elf!Min({page + PAGE_SIZE, Elf!FileEnd(z)})
  <2> HIDE DEF z
  <2>1. /\ lo = IF page <= z.vaddr THEN z.vaddr ELSE page
        /\ hi = IF page + PAGE_SIZE <= Elf!FileEnd(z) THEN page + PAGE_SIZE ELSE Elf!FileEnd(z)
    <3>1. page \in Int /\ z.vaddr \in Int /\ page + PAGE_SIZE \in Int /\ Elf!FileEnd(z) \in Int
      BY ONLY <1>2, <1>3
    <3> QED BY <3>1, MinMax, ZenonT(60)
  <2>2. Elf!initial(z) = [b \in New |-> IF lo <= b /\ b < hi THEN Elf!FileByte(z.offset + (b - z.vaddr)) ELSE 0]
    BY ZenonT(60) DEF Elf!initial
  <2> HIDE DEF lo, hi
  <2>3. ASSUME NEW b \in New PROVE (lo <= b /\ b < hi) <=> (z.vaddr <= b /\ b < Elf!FileEnd(z))
    BY ONLY <1>2, <1>3, <2>1, <2>3
  <2> HIDE DEF New
  <2> QED BY <2>2, <2>3
<1>5. DOMAIN Elf!initial(z) = New
  <2>1. page \in New
    BY ONLY <1>2
  <2> QED BY <1>4, <2>1, ZenonT(60)
<1>6. page + PAGE_SIZE <= USER_LIMIT /\ page < Elf!SegmentEnd(z)
  <2> HIDE DEF z
  <2>1. PICK top \in Nat : /\ top = Elf!align_up(Elf!SegmentEnd(z)) /\ Aligned(top)
                           /\ Elf!SegmentEnd(z) <= top /\ top < Elf!SegmentEnd(z) + PAGE_SIZE
    <3>1. Elf!SegmentEnd(z) \in Nat
      BY ONLY <1>3
    <3> QED BY <3>1, AlignUp
  <2>2. page + PAGE_SIZE <= top
    BY <1>1, <1>2, <2>1, Apart, ZenonT(60)
  <2>3. ~(USER_LIMIT < top)
    <3>1. USER_LIMIT < top => USER_LIMIT + PAGE_SIZE <= top
      BY ONLY <1>2, <2>1, LimitAligned, Apart
    <3> QED BY ONLY <1>2, <1>3, <2>1, <3>1
  <2> QED BY ONLY <1>1, <1>2, <1>3, <2>1, <2>2, <2>3
<1>7. /\ DOMAIN memory' = New \cup DOMAIN memory
      /\ \A b \in New : memory'[b] = Elf!initial(z)[b]
      /\ \A b \in DOMAIN memory : b \notin New => memory'[b] = memory[b]
  BY <1>1, <1>5, ZenonT(60) DEF Elf!Over
<1>8. /\ DOMAIN flags' = {page} \cup DOMAIN flags
      /\ flags'[page] = [writable |-> z.writable, executable |-> z.executable]
      /\ \A p \in DOMAIN flags : flags'[p] = flags[p]
  BY <1>1, ZenonT(60) DEF Elf!Over
<1>9. \A b \in DOMAIN memory : Elf!PageOf(b) \in DOMAIN flags /\ b \notin New
  <2> SUFFICES ASSUME NEW b \in DOMAIN memory PROVE Elf!PageOf(b) \in DOMAIN flags /\ b \notin New
    OBVIOUS
  <2>1. PICK p \in DOMAIN flags : b \in p .. p + PAGE_SIZE - 1 /\ p \in Nat /\ Aligned(p)
    <3>1. /\ \A p \in DOMAIN flags : p \in Nat /\ Aligned(p)
          /\ DOMAIN memory = UNION {p .. p + PAGE_SIZE - 1 : p \in DOMAIN flags}
      BY ZenonT(60) DEF ElfInv
    <3>2. \E p \in DOMAIN flags : b \in p .. p + PAGE_SIZE - 1
      BY <3>1, ZenonT(60)
    <3> QED BY <3>1, <3>2, ZenonT(60)
  <2>2. Elf!PageOf(b) = p
    BY <2>1, PageOfIs
  <2>3. b \in New => Elf!PageOf(b) = page
    BY <1>2, PageOfIs
  <2> QED BY <2>1, <2>2, <2>3
<1>10. \A b \in New : Elf!PageOf(b) = page
  BY <1>2, PageOfIs
<1> HIDE DEF z, New
\* What was there still is.
<1>11. ASSUME NEW y, NEW b, There(y, b)
       PROVE  There(y, b)'
  <2>1. b \in DOMAIN memory
    BY <1>11, ZenonT(60) DEF There
  <2>2. /\ memory'[b] = memory[b] /\ b \in DOMAIN memory'
        /\ flags'[Elf!PageOf(b)] = flags[Elf!PageOf(b)]
    BY <1>7, <1>8, <1>9, <2>1, ZenonT(60)
  <2> QED BY <1>11, <2>2, ZenonT(60) DEF There
\* The part of the segment in the new page.
<1>12. ASSUME NEW b \in BytesOf(z), b \in New
       PROVE  b \in DOMAIN memory'
              /\ memory'[b] = (IF Elf!InFile(z, b) THEN Elf!FileByte(z.offset + b - z.vaddr) ELSE 0)
              /\ flags'[Elf!PageOf(b)].writable = z.writable
              /\ flags'[Elf!PageOf(b)].executable = z.executable
  <2>1. b \in Int /\ z.vaddr <= b /\ z.offset + (b - z.vaddr) = z.offset + b - z.vaddr
    BY <1>3 DEF BytesOf
  <2>2. memory'[b] = (IF Elf!InFile(z, b) THEN Elf!FileByte(z.offset + b - z.vaddr) ELSE 0)
    BY <1>4, <1>7, <1>12, <2>1, ZenonT(60) DEF Elf!InFile
  <2>3. flags'[page].writable = z.writable /\ flags'[page].executable = z.executable
    <3> HIDE DEF z
    <3> QED BY ONLY <1>8
  <2> QED BY <1>7, <1>10, <1>12, <2>2, <2>3, ZenonT(60)
<1>13. segments'[todo'] = z /\ \A i \in DOMAIN segments : segments'[i] = segments[i]
  BY <1>1 DEF z
<1>14. \A p \in DOMAIN flags' : p \in Nat /\ Aligned(p) /\ p + PAGE_SIZE <= USER_LIMIT
  BY <1>2, <1>6, <1>8, ZenonT(60) DEF ElfInv
<1>15. DOMAIN memory' = UNION {p .. p + PAGE_SIZE - 1 : p \in DOMAIN flags'}
  <2>1. DOMAIN memory = UNION {p .. p + PAGE_SIZE - 1 : p \in DOMAIN flags}
    BY ZenonT(60) DEF ElfInv
  <2> QED BY <1>7, <1>8, <2>1, ZenonT(60) DEF New
<1>16. \A i \in 1 .. todo' - 1 : \A b \in BytesOf(segments'[i]) : There(segments[i], b)'
  <2>1. \A i \in 1 .. todo - 1 : \A b \in BytesOf(segments[i]) : There(segments[i], b)
    BY ZenonT(60) DEF ElfInv
  <2> QED BY <1>1, <1>11, <2>1, ZenonT(60)
<1>17. /\ todo' <= Len(segments') /\ z.memsz # 0 /\ Elf!SegmentEnd(z) <= USER_LIMIT
       /\ page' \in Nat /\ Aligned(page') /\ Elf!PageOf(z.vaddr) <= page'
  <2>1. Aligned(page + PAGE_SIZE)
    <3>1. PICK k \in Nat : page = k * PAGE_SIZE
      BY <1>2 DEF Aligned
    <3>2. page + PAGE_SIZE = (k + 1) * PAGE_SIZE /\ k + 1 \in Nat
      BY <1>2, <3>1
    <3> QED BY <3>2, ZenonT(60) DEF Aligned
  <2>2. Elf!PageOf(z.vaddr) \in Nat
    BY <1>3, PageOfHolds
  <2> QED BY <1>1, <1>2, <2>1, <2>2
<1>18. \A b \in BytesOf(z) : b < page' =>
          /\ b \in DOMAIN memory'
          /\ memory'[b] = (IF Elf!InFile(z, b) THEN Elf!FileByte(z.offset + b - z.vaddr) ELSE 0)
          /\ flags'[Elf!PageOf(b)].writable = z.writable
          /\ flags'[Elf!PageOf(b)].executable = z.executable
  <2> SUFFICES ASSUME NEW b \in BytesOf(z), b < page'
               PROVE  /\ b \in DOMAIN memory'
                      /\ memory'[b] = (IF Elf!InFile(z, b) THEN Elf!FileByte(z.offset + b - z.vaddr) ELSE 0)
                      /\ flags'[Elf!PageOf(b)].writable = z.writable
                      /\ flags'[Elf!PageOf(b)].executable = z.executable
    BY ZenonT(60)
  <2>1. CASE b < page
    <3>1. There(z, b)
      BY <1>1, <2>1, ZenonT(60) DEF ElfInv, z
    <3>2. There(z, b)'
      <4>1. \A y : There(y, b) => There(y, b)'
        BY <1>11
      <4> QED BY <1>13, <3>1, <4>1, <1>1, ZenonT(60) DEF z
    <3> QED BY <1>1, <3>2, ZenonT(60) DEF There, z
  <2>2. CASE ~(b < page)
    <3>1. b \in New
      BY <1>1, <1>2, <1>3, <2>2 DEF New, BytesOf
    <3> QED BY <1>12, <3>1, ZenonT(60)
  <2> QED BY <2>1, <2>2, ZenonT(60)
<1>19. \A b \in DOMAIN memory' :
          memory'[b] # 0 => \E i \in DOMAIN segments' : Elf!InFile(segments'[i], b)
  <2>1. todo \in DOMAIN segments
    BY ONLY <1>2 DEF ElfInv
  <2>2. \A b \in New : memory'[b] # 0 => Elf!InFile(z, b)
    BY <1>4, <1>7, ZenonT(60) DEF Elf!InFile
  <2>3. \A b \in DOMAIN memory : memory[b] # 0 => \E i \in DOMAIN segments : Elf!InFile(segments[i], b)
    BY ZenonT(60) DEF ElfInv
  <2>4. \A b \in DOMAIN memory : memory'[b] = memory[b]
    BY <1>7, <1>9, ZenonT(60)
  <2> QED BY <1>1, <1>7, <2>1, <2>2, <2>3, <2>4, ZenonT(60) DEF z
<1>20. \A p \in DOMAIN flags' :
          \E i \in DOMAIN segments' : \E b \in p .. p + PAGE_SIZE - 1 : Elf!InMemory(segments'[i], b)
  <2>1. todo \in DOMAIN segments
    BY ONLY <1>2 DEF ElfInv
  <2>2. \E b \in page .. page + PAGE_SIZE - 1 : Elf!InMemory(z, b)
    <3>1. Elf!PageOf(z.vaddr) \in Nat /\ z.vaddr < Elf!PageOf(z.vaddr) + PAGE_SIZE
      BY <1>3, PageOfHolds
    <3>2. CASE page <= z.vaddr
      <4>1. z.vaddr \in page .. page + PAGE_SIZE - 1 /\ z.vaddr < Elf!SegmentEnd(z) /\ z.vaddr <= z.vaddr
        BY <1>2, <1>3, <3>1, <3>2
      <4> QED BY <4>1, ZenonT(60) DEF Elf!InMemory
    <3>3. CASE ~(page <= z.vaddr)
      <4>1. page \in page .. page + PAGE_SIZE - 1 /\ z.vaddr <= page
        BY <1>2, <1>3, <3>3
      <4> QED BY <1>6, <4>1, ZenonT(60) DEF Elf!InMemory
    <3> QED BY <3>2, <3>3
  <2>3. \A p \in DOMAIN flags :
          \E i \in DOMAIN segments : \E b \in p .. p + PAGE_SIZE - 1 : Elf!InMemory(segments[i], b)
    BY ZenonT(60) DEF ElfInv
  <2> QED BY <1>1, <1>8, <2>1, <2>2, <2>3, ZenonT(60) DEF z
<1>21. /\ file' \in Files /\ segments' \in Seq(Headers) /\ loading' = "page"
       /\ \A i \in DOMAIN segments' : /\ segments'[i].filesz <= segments'[i].memsz
                                      /\ segments'[i].offset + segments'[i].filesz <= file'.len
       /\ todo' \in 1 .. Len(segments') + 1
       /\ stage' \notin {"apic", "ps2", "ticks", "parse"}
  BY <1>1, ZenonT(60) DEF ElfInv
<1>22. \A b \in BytesOf(z) : b < page' => There(segments[todo], b)'
  BY <1>1, <1>13, <1>18, ZenonT(60) DEF There, z
<1> QED BY <1>13, <1>14, <1>15, <1>16, <1>17, <1>19, <1>20, <1>21, <1>22, ZenonT(60) DEF ElfInv

\* A page that cannot be mapped, and the end of a segment.
LEMMA LoadEndStep ==
    ASSUME ElfInv, (Elf!LoadPage /\ loading' = "failed") \/ Elf!SegmentDone,
           stage' \in {"load", "panicked"}
    PROVE  ElfInv'
<1>1. UNCHANGED <<file, segments, memory, flags, page>> /\ loading = "page"
  BY ZenonT(60) DEF Elf!LoadPage, Elf!SegmentDone, Elf!Fail, ElfInv
<1>2. \A z, b : There(z, b)' <=> There(z, b)
  BY <1>1, ZenonT(60) DEF There
<1>3. stage' \notin {"apic", "ps2", "ticks", "parse"}
  OBVIOUS
<1>4. /\ file' \in Files /\ segments' \in Seq(Headers)
      /\ \A i \in DOMAIN segments' : /\ segments'[i].filesz <= segments'[i].memsz
                                     /\ segments'[i].offset + segments'[i].filesz <= file'.len
      /\ \A p \in DOMAIN flags' : p \in Nat /\ Aligned(p) /\ p + PAGE_SIZE <= USER_LIMIT
      /\ DOMAIN memory' = UNION {p .. p + PAGE_SIZE - 1 : p \in DOMAIN flags'}
      /\ \A b \in DOMAIN memory' :
            memory'[b] # 0 => \E i \in DOMAIN segments' : Elf!InFile(segments'[i], b)
      /\ \A p \in DOMAIN flags' :
            \E i \in DOMAIN segments' : \E b \in p .. p + PAGE_SIZE - 1 : Elf!InMemory(segments'[i], b)
  BY <1>1, ZenonT(60) DEF ElfInv
<1>5. todo \in 1 .. Len(segments) + 1 /\ Len(segments) \in Nat
  <2>1. todo \in 1 .. Len(segments) + 1 /\ segments \in Seq(Headers)
    BY ZenonT(60) DEF ElfInv
  <2> QED BY ONLY <2>1
<1>6. \A i \in 1 .. todo - 1 : \A b \in BytesOf(segments[i]) : There(segments[i], b)'
  BY <1>1, <1>2, ZenonT(60) DEF ElfInv
<1>7. CASE Elf!LoadPage /\ loading' = "failed"
  <2>1. todo' = todo /\ loading' = "failed"
    BY <1>7, ZenonT(60) DEF Elf!LoadPage
  <2>2. todo' \in 1 .. Len(segments') + 1
        /\ \A i \in 1 .. todo' - 1 : \A b \in BytesOf(segments'[i]) : There(segments[i], b)'
    BY <1>1, <1>5, <1>6, <2>1, ZenonT(60)
  <2> QED BY <1>1, <1>3, <1>4, <2>1, <2>2, ZenonT(60) DEF ElfInv
<1>8. CASE Elf!SegmentDone
  <2> DEFINE z == segments[todo]
  <2>1. /\ todo' = todo + 1 /\ loading' = "segment" /\ page >= Elf!align_up(Elf!SegmentEnd(z))
    BY <1>8 DEF Elf!SegmentDone, Elf!Segment
  <2>2. /\ todo <= Len(segments) /\ z \in Headers /\ page \in Nat
        /\ \A b \in BytesOf(z) : b < page => There(z, b)
    <3>1. loading = "page"
      BY <1>8 DEF Elf!SegmentDone
    <3>2. /\ todo <= Len(segments) /\ segments \in Seq(Headers) /\ page \in Nat
          /\ \A b \in BytesOf(z) : b < page => There(z, b)
      BY <3>1, ZenonT(60) DEF ElfInv
    <3>3. z \in Headers
      BY ONLY <1>5, <3>2
    <3> QED BY <3>2, <3>3, ZenonT(60)
  <2>3. z.vaddr \in Nat /\ Elf!SegmentEnd(z) \in Nat
    BY ONLY <2>2 DEF Headers, Elf!SegmentEnd
  <2>4. Elf!align_up(Elf!SegmentEnd(z)) \in Nat /\ Elf!SegmentEnd(z) <= Elf!align_up(Elf!SegmentEnd(z))
    BY <2>3, AlignUp, ZenonT(60)
  <2> HIDE DEF z
  <2>5. \A b \in BytesOf(z) : b < page
    BY <2>1, <2>2, <2>3, <2>4 DEF BytesOf
  <2>6. \A b \in BytesOf(segments[todo]) : There(segments[todo], b)
    BY <2>2, <2>5, ZenonT(60) DEF z
  <2>7. todo' \in 1 .. Len(segments') + 1 /\ \A i \in 1 .. todo' - 1 : i \in 1 .. todo - 1 \/ i = todo
    BY <1>1, <1>5, <2>1, <2>2
  <2>8. \A i \in 1 .. todo' - 1 : \A b \in BytesOf(segments'[i]) : There(segments[i], b)'
    <3>1. \A i \in 1 .. todo - 1 : \A b \in BytesOf(segments[i]) : There(segments[i], b)
      BY ZenonT(60) DEF ElfInv
    <3> QED BY <1>1, <1>2, <2>6, <2>7, <3>1, ZenonT(60)
  <2> QED BY <1>1, <1>3, <1>4, <2>1, <2>7, <2>8, ZenonT(60) DEF ElfInv
<1> QED BY <1>7, <1>8

\* What the loader's invariant says of the program.
LEMMA ElfInvSays == ElfInv => LoadedFaithfully
<1> SUFFICES ASSUME ElfInv PROVE LoadedFaithfully
  OBVIOUS
<1>1. DOMAIN memory \subseteq 0 .. USER_LIMIT - 1
  <2>1. /\ \A p \in DOMAIN flags : p \in Nat /\ p + PAGE_SIZE <= USER_LIMIT
        /\ DOMAIN memory = UNION {p .. p + PAGE_SIZE - 1 : p \in DOMAIN flags}
    BY ZenonT(60) DEF ElfInv
  <2>2. PAGE_SIZE \in Nat /\ USER_LIMIT \in Nat
    BY BootAssumption
  <2> SUFFICES ASSUME NEW b \in DOMAIN memory PROVE b \in 0 .. USER_LIMIT - 1
    OBVIOUS
  <2>3. PICK p \in DOMAIN flags : b \in p .. p + PAGE_SIZE - 1
    BY <2>1
  <2> QED BY <2>1, <2>2, <2>3
<1>2. Elf!TypeOK
  BY <1>1, ZenonT(60) DEF ElfInv, Elf!TypeOK
<1>3. ASSUME loading = "loaded", NEW i \in DOMAIN segments,
             NEW b \in segments[i].vaddr .. Elf!SegmentEnd(segments[i]) - 1
      PROVE  There(segments[i], b)
  <2>1. i \in 1 .. todo - 1
    <3>1. todo = Len(segments) + 1 /\ segments \in Seq(Headers)
      BY <1>3, ZenonT(60) DEF ElfInv
    <3> QED BY ONLY <3>1
  <2> QED BY <2>1, ZenonT(60) DEF ElfInv, BytesOf
<1>4. /\ \A b \in DOMAIN memory :
            memory[b] # 0 => \E i \in DOMAIN segments : Elf!InFile(segments[i], b)
      /\ \A p \in DOMAIN flags :
            \E i \in DOMAIN segments : \E b \in p .. p + PAGE_SIZE - 1 : Elf!InMemory(segments[i], b)
  BY ZenonT(60) DEF ElfInv
<1> QED BY <1>2, <1>3, <1>4, ZenonT(60) DEF LoadedFaithfully, Elf!LoadedFaithfully, There

\* Every step of the boot keeps the image as far as it is loaded.
LEMMA ElfInvNext == ElfInv /\ [Next]_vars => ElfInv'
<1> SUFFICES ASSUME ElfInv, [Next]_vars PROVE ElfInv'
  OBVIOUS
<1> USE DEF elfVars
<1>1. file \in Files
  BY ZenonT(60) DEF ElfInv
<1>2. CASE ParseImage
  BY <1>2, ParseStep DEF ParseImage
<1>3. CASE LoadImage
  <2>1. Elf!load_image /\ stage' \in {"load", "panicked"}
    BY <1>3 DEF LoadImage
  <2>2. CASE Elf!LoadPage
    <3>1. loading' = "failed" \/ (page \notin DOMAIN flags /\ loading' = loading)
      BY <2>2, ZenonT(60) DEF Elf!LoadPage, Elf!Fail
    <3> QED BY <2>1, <2>2, <3>1, LoadPageStep, LoadEndStep
  <2> QED BY <2>1, <2>2, SegmentStep, LoadEndStep DEF Elf!load_image
<1>4. CASE Contents
  <2>1. /\ UNCHANGED <<loading, segments, todo, page, memory, flags>> /\ stage = "ticks" /\ stage' = stage
        /\ file' \in Files
    BY <1>1, <1>4 DEF Contents
  <2>2. loading = "parse"
    BY <2>1, ZenonT(60) DEF ElfInv
  <2> QED BY <2>1, <2>2, ElfStill
<1>5. CASE UNCHANGED elfVars /\ (stage' \in {"apic", "ps2", "ticks", "parse"} => stage \in {"apic", "ps2", "ticks", "parse"})
  <2>1. stage' \in {"apic", "ps2", "ticks", "parse"} => loading = "parse"
    BY <1>5, ZenonT(60) DEF ElfInv
  <2> QED BY <1>1, <1>5, <2>1, ElfStill
<1>6. CASE FindInterrupts \/ ApicDone \/ ApicFailed \/ InitPs2 \/ EnableInterrupts \/ Devices
  BY <1>5, <1>6, ZenonT(60) DEF FindInterrupts, ApicDone, ApicFailed, InitPs2, EnableInterrupts, Devices
<1>7. CASE TicksWaited \/ Tick \/ MapStack \/ Probe
  BY <1>5, <1>7, ZenonT(60) DEF TicksWaited, Tick, MapStack, Probe
<1>8. CASE CloneTables
  <2>1. outcome.kind = "running" /\ Clone!clone_root
    BY <1>8 DEF CloneTables
  <2>2. ASSUME Clone!Refuse \/ Clone!OutOfMemory \/ Clone!AllocateZero
        PROVE  outcome'.kind \in {"running", "Err", "Ok"}
    BY <2>1, <2>2 DEF Clone!Refuse, Clone!OutOfMemory, Clone!AllocateZero, Clone!Return, Clone!Error
  <2>3. ASSUME \/ Clone!Allocate \/ Clone!CopyEntry \/ Clone!Descend
               \/ Clone!Link \/ Clone!Fail \/ Clone!ReleaseEntry
        PROVE  outcome'.kind \in {"running", "Err", "Ok"}
    <3>1. UNCHANGED outcome
      BY <2>3, ZenonT(60) DEF Clone!Allocate, Clone!CopyEntry, Clone!Descend, Clone!Link, Clone!Fail, Clone!ReleaseEntry
    <3> QED BY <2>1, <3>1
  <2>4. ASSUME Clone!Finish \/ Clone!ReleaseTable
        PROVE  outcome'.kind \in {"running", "Err", "Ok"}
    <3>1. CASE Clone!Finish
      BY <2>1, <3>1 DEF Clone!Finish, Clone!Return, Clone!Cloned
    <3>2. CASE Clone!ReleaseTable
      BY <2>1, <3>2 DEF Clone!ReleaseTable, Clone!Return, Clone!Error
    <3> QED BY <2>4, <3>1, <3>2
  <2>5. outcome'.kind \in {"running", "Err", "Ok"}
    BY <2>1, <2>2, <2>3, <2>4 DEF Clone!clone_root
  <2>6. stage' \in {"clone", "panicked", "load"}
    BY <1>8, <2>5 DEF CloneTables
  <2> QED BY <1>5, <1>8, <2>6, ZenonT(60) DEF CloneTables
<1>9. CASE Halted \/ Ended \/ UNCHANGED vars
  BY <1>5, <1>9, ZenonT(60) DEF Halted, Ended, vars
<1> QED BY <1>2, <1>3, <1>4, <1>6, <1>7, <1>8, <1>9 DEF Next, Kernel

\* A program that load_image has loaded is in memory byte for byte as its
\* headers say, with the permissions of its segments, whatever the file, the
\* size of a page and the limit of userspace.
THEOREM ProgramLoaded == Spec => []LoadedFaithfully
<1> QED BY ElfInvInit, ElfInvNext, ElfInvSays, PTL DEF Spec
=============================================================================
