--------------------------- MODULE ReadBackProofs ---------------------------
(***************************************************************************)
(* For every size of the volume, its inode table and its sectors, and      *)
(* whatever boots, users, stops and failed writes do to it: every file     *)
(* reads as its last completed operation said, and a volume that no boot   *)
(* was stopped on in one of the two windows of the first boot lets the     *)
(* machine boot again.                                                     *)
(*                                                                         *)
(* Beside the invariants of StorageProofs these need to know of all the    *)
(* data writes still to be made that together they leave the bytes that    *)
(* the operation promises (Promised), and of every phase of a boot how far *)
(* the marker and the readme have got (PhaseInv).                          *)
(***************************************************************************)
EXTENDS StorageProofs

\* A leaf that names no prover is for SMT, with time to spare on a busy machine.
USE SMTT(60)

(* What is read back *)

\* Write w changes position p of sector s, to this.
Hits(w, s, p) ==
    \/ w.write = "patch" /\ w.sector = s /\ p \in DOMAIN w.bytes
    \/ w.write = "copy" /\ w.sector = s
Gives(d, w, p) == IF w.write = "patch" THEN w.bytes[p] ELSE d[w.from][p]

\* From data d, the writes u leave v at position p of sector s: the last of them
\* that changes it does, or none does and it is there.
Puts(d, u, s, p, v) ==
    \E k \in 1 .. Len(u) : /\ Hits(u[k], s, p) /\ Gives(d, u[k], p) = v
                           /\ \A m \in k + 1 .. Len(u) : ~Hits(u[m], s, p)
Misses(u, s, p) == \A k \in 1 .. Len(u) : ~Hits(u[k], s, p)
Leaves(d, u, s, p, v) == Puts(d, u, s, p, v) \/ (Misses(u, s, p) /\ d[s][p] = v)

\* What is copied is not changed.
SourcesKept(u) ==
    \A k, m \in 1 .. Len(u) :
        u[k].write = "copy" /\ u[m].write \in {"patch", "copy"} => u[m].sector # u[k].from

\* The writes u leave x in the file of entry e.
Promised(d, u, e, x) ==
    /\ Len(x) = e.len
    /\ \A y \in 1 .. e.len :
          Leaves(d, u, e.start + (y - 1) \div SECTOR_SIZE, (y - 1) % SECTOR_SIZE, x[y])

PromiseInv ==
    todo # <<>> /\ op.good =>
        /\ SourcesKept(todo)
        /\ \A k \in 1 .. Len(todo) :
              todo[k].write = "inode" /\ todo[k].entry.kind = "file" =>
                  Promised(data, todo, todo[k].entry, op.expected)

-----------------------------------------------------------------------------
(* Runs of writes *)

\* Run r is run u and then run w.
IsJoin(u, w, r) ==
    /\ Len(u) \in Nat /\ Len(w) \in Nat /\ Len(r) = Len(u) + Len(w)
    /\ \A k \in 1 .. Len(u) : r[k] = u[k]
    /\ \A k \in 1 .. Len(w) : r[Len(u) + k] = w[k]

\* The write of the k-th sector of bytes from .. to - 1.
PatchAt(start, from, to, byte, k) ==
    LET first == from \div SECTOR_SIZE
        base == (first + k - 1) * SECTOR_SIZE
    IN  [write |-> "patch", sector |-> start + first + k - 1,
         bytes |-> [p \in {q \in Positions : from <= base + q /\ base + q < to} |-> byte[base + p]]]

-----------------------------------------------------------------------------
(* What truncate and write promise *)

\* The entry that a file grows into starts where the search placed it.
LEMMA PlacedEntry ==
    ASSUME Inv, NEW i \in Inodes, IsFile(i), NEW needed \in Nat, NEW start \in Places(i, needed)
    PROVE  Grown(inode[i], start, needed) \in Entries /\ Grown(inode[i], start, needed).start = start
<1>1. PICK g : g = Grown(inode[i], start, needed)
  OBVIOUS
<1>2. /\ g \in Entries /\ g.kind = "file" /\ g.start = start
      /\ needed <= g.count /\ inode[i].count <= g.count
      /\ Extent(g) \subseteq Own(inode, i)
      /\ Growth(i, start, needed) \in Seq(Patch(inode, i) \cup Copy(inode, i))
  BY <1>1, Placed
<1> QED BY <1>1, <1>2, ZenonT(60)

\* Every step of the volume keeps the promise of the writes to be made, and what
\* has been promised is read.
LEMMA PromiseStep ==
    Inv /\ PromiseInv /\ ReadBack /\ OthersUntouched /\ VolumeStep => PromiseInv' /\ ReadBack'

<0>Joined.
      ASSUME NEW S, NEW u \in Seq(S), NEW w \in Seq(S)
      PROVE  IsJoin(u, w, u \o w) /\ u \o w \in Seq(S)
  <1> USE <0>Joined
  <1> QED BY DEF IsJoin

\* What the second run puts stays.
<0>PutsLater.
      ASSUME NEW u, NEW w, NEW r, IsJoin(u, w, r),
             NEW d, NEW s, NEW p, NEW v, Puts(d, w, s, p, v)
      PROVE  Puts(d, r, s, p, v)
  <1> USE <0>PutsLater
  <1>1. PICK a \in Nat, b \in Nat :
           /\ a = Len(u) /\ b = Len(w) /\ Len(r) = a + b
           /\ \A k \in 1 .. b : r[a + k] = w[k]
    BY DEF IsJoin
  <1>2. PICK k \in 1 .. b : /\ Hits(w[k], s, p) /\ Gives(d, w[k], p) = v
                            /\ \A m \in k + 1 .. b : ~Hits(w[m], s, p)
    BY <1>1 DEF Puts
  <1>3. a + k \in 1 .. a + b /\ r[a + k] = w[k]
    BY <1>1
  <1>4. ASSUME NEW m \in a + k + 1 .. a + b PROVE ~Hits(r[m], s, p)
    <2>1. m - a \in k + 1 .. b /\ m - a \in 1 .. b /\ a + (m - a) = m
      OBVIOUS
    <2>2. r[m] = w[m - a]
      BY <1>1, <2>1, ZenonT(60)
    <2> QED BY <1>2, <2>1, <2>2
  <1>5. /\ a + k \in 1 .. Len(r) /\ Hits(r[a + k], s, p) /\ Gives(d, r[a + k], p) = v
        /\ \A m \in a + k + 1 .. Len(r) : ~Hits(r[m], s, p)
    BY <1>1, <1>2, <1>3, <1>4, ZenonT(60)
  <1> QED BY <1>5 DEF Puts

\* What the first run leaves stays if the second misses it.
<0>LeavesEarlier.
      ASSUME NEW u, NEW w, NEW r, IsJoin(u, w, r),
             NEW d, NEW s, NEW p, NEW v, Leaves(d, u, s, p, v), Misses(w, s, p)
      PROVE  Leaves(d, r, s, p, v)
  <1> USE <0>LeavesEarlier
  <1>1. PICK a \in Nat, b \in Nat :
           /\ a = Len(u) /\ b = Len(w) /\ Len(r) = a + b
           /\ \A k \in 1 .. a : r[k] = u[k]
           /\ \A k \in 1 .. b : r[a + k] = w[k]
    BY ZenonT(60) DEF IsJoin
  <1>2. ASSUME NEW m \in a + 1 .. a + b PROVE ~Hits(r[m], s, p)
    <2>1. m - a \in 1 .. b /\ a + (m - a) = m
      OBVIOUS
    <2>2. r[m] = w[m - a]
      BY <1>1, <2>1
    <2> QED BY <1>1, <2>1, <2>2 DEF Misses
  <1>3. CASE Puts(d, u, s, p, v)
    <2>1. PICK k \in 1 .. a : /\ Hits(u[k], s, p) /\ Gives(d, u[k], p) = v
                              /\ \A m \in k + 1 .. a : ~Hits(u[m], s, p)
      BY <1>1, <1>3 DEF Puts
    <2>2. k \in 1 .. a + b
      OBVIOUS
    <2>3. ASSUME NEW m \in k + 1 .. a + b PROVE ~Hits(r[m], s, p)
      <3>1. CASE m <= a
        <4>1. m \in 1 .. a /\ m \in k + 1 .. a
          BY <3>1
        <4> QED BY <1>1, <2>1, <4>1
      <3>2. CASE m > a
        <4>1. m \in a + 1 .. a + b
          BY <3>2
        <4> QED BY <1>2, <4>1
      <3> QED BY <3>1, <3>2
    <2>4. Puts(d, r, s, p, v)
      BY <1>1, <2>1, <2>2, <2>3 DEF Puts
    <2> QED BY <2>4 DEF Leaves
  <1>4. CASE Misses(u, s, p) /\ d[s][p] = v
    <2>1. ASSUME NEW m \in 1 .. a + b PROVE ~Hits(r[m], s, p)
      <3>1. CASE m <= a
        <4>1. m \in 1 .. a
          BY <3>1
        <4> QED BY <1>1, <1>4, <4>1 DEF Misses
      <3>2. CASE m > a
        <4>1. m \in a + 1 .. a + b
          BY <3>2
        <4> QED BY <1>2, <4>1
      <3> QED BY <3>1, <3>2
    <2>2. Misses(r, s, p)
      BY <1>1, <2>1 DEF Misses
    <2> QED BY <1>4, <2>2 DEF Leaves
  <1> QED BY <1>3, <1>4 DEF Leaves

\* When the first write is made, the rest still leave v.
<0>LeavesOn.
      ASSUME NEW S, NEW u \in Seq(S), u # <<>>, SourcesKept(u), NEW d, NEW n, NEW s, NEW p, NEW v,
             n[s][p] = IF Hits(Head(u), s, p) THEN Gives(d, Head(u), p) ELSE d[s][p],
             \A k \in 1 .. Len(u) :
                u[k].write = "copy" /\ ~Hits(Head(u), u[k].from, p) => n[u[k].from][p] = d[u[k].from][p],
             Leaves(d, u, s, p, v)
      PROVE  Leaves(n, Tail(u), s, p, v)
  <1> USE <0>LeavesOn
  <1>0. /\ Len(u) \in Nat \ {0} /\ Head(u) = u[1] /\ Len(Tail(u)) = Len(u) - 1
        /\ \A k \in 1 .. Len(u) - 1 : Tail(u)[k] = u[k + 1]
    BY HeadAndTail
  <1>1. PICK c \in Nat \ {0}, t \in {Tail(u)} :
           /\ t = Tail(u) /\ c = Len(u) /\ Len(t) = c - 1 /\ Head(u) = u[1]
           /\ \A k \in 1 .. c - 1 : t[k] = u[k + 1]
    BY <1>0, ZenonT(60)
  <1>2. ASSUME NEW k \in 1 .. c - 1 PROVE k + 1 \in 1 .. c /\ t[k] = u[k + 1]
    BY <1>1
  <1>3. CASE Puts(d, u, s, p, v)
    <2>1. PICK k \in 1 .. c : /\ Hits(u[k], s, p) /\ Gives(d, u[k], p) = v
                              /\ \A m \in k + 1 .. c : ~Hits(u[m], s, p)
      BY <1>1, <1>3 DEF Puts
    <2>2. CASE k = 1
      <3>1. n[s][p] = v
        BY <1>1, <2>1, <2>2
      <3>2. ASSUME NEW m \in 1 .. c - 1 PROVE ~Hits(t[m], s, p)
        <4>1. m + 1 \in 1 + 1 .. c
          OBVIOUS
        <4> QED BY <1>2, <2>1, <2>2, <4>1
      <3> QED BY <1>1, <3>1, <3>2 DEF Leaves, Misses
    <2>3. CASE k # 1
      <3>1. PICK j \in 1 .. c - 1 : k = j + 1
        <4>1. k - 1 \in 1 .. c - 1 /\ k = k - 1 + 1
          BY <2>3
        <4> QED BY <4>1
      <3>2. t[j] = u[k]
        BY <1>2, <3>1
      <3>3. Gives(n, u[k], p) = v
        <4>1. CASE u[k].write = "patch"
          BY <2>1, <4>1 DEF Gives
        <4>2. CASE u[k].write = "copy"
          <5>1. ~Hits(u[1], u[k].from, p)
            <6>1. 1 \in 1 .. c
              BY <1>1
            <6> QED BY <1>1, <4>2, <6>1 DEF SourcesKept, Hits
          <5>2. n[u[k].from][p] = d[u[k].from][p]
            BY <1>1, <4>2, <5>1
          <5> QED BY <2>1, <4>2, <5>2 DEF Gives
        <4> QED BY <2>1, <4>1, <4>2 DEF Hits
      <3>4. ASSUME NEW m \in j + 1 .. c - 1 PROVE ~Hits(t[m], s, p)
        <4>1. m \in 1 .. c - 1 /\ m + 1 \in k + 1 .. c
          BY <3>1
        <4> QED BY <1>2, <2>1, <4>1
      <3>5. j \in 1 .. Len(t)
        BY <1>1
      <3>6. Puts(n, t, s, p, v)
        BY <1>1, <2>1, <3>2, <3>3, <3>4, <3>5 DEF Puts
      <3> QED BY <1>1, <3>6 DEF Leaves
    <2> QED BY <2>2, <2>3
  <1>4. CASE Misses(u, s, p) /\ d[s][p] = v
    <2>1. n[s][p] = v
      <3>1. 1 \in 1 .. c
        BY <1>1
      <3> QED BY <1>1, <1>4, <3>1 DEF Misses
    <2>2. Misses(t, s, p)
      BY <1>1, <1>2, <1>4 DEF Misses
    <2> QED BY <1>1, <2>1, <2>2 DEF Leaves
  <1> QED BY <1>3, <1>4 DEF Leaves

\* A byte of a file, by its sector and its position there.
<0>ByteAt.
      ASSUME NEW b \in Nat
      PROVE  /\ b \div SECTOR_SIZE \in Nat /\ b % SECTOR_SIZE \in Positions
             /\ (b \div SECTOR_SIZE) * SECTOR_SIZE + (b % SECTOR_SIZE) = b
  <1> USE <0>ByteAt
  <1> DEFINE S == SECTOR_SIZE
  <1>0. S \in Nat \ {0}
    BY FsAssumption
  <1> HIDE DEF S
  <1>1. b = S * (b \div S) + (b % S) /\ b \div S \in Int /\ b % S \in 0 .. S - 1
    BY <1>0
  <1>2. 0 \div S = 0 /\ 0 \div S <= b \div S
    BY <1>0, DivMonotone
  <1>3. PICK q \in Int, r \in 0 .. S - 1 : q = b \div S /\ r = b % S /\ b = S * q + r
    BY <1>1
  <1>4. q * S + r = b
    BY <1>0, <1>3
  <1> QED BY <1>1, <1>2, <1>3, <1>4 DEF S, Positions

\* It changes the bytes of that sector that are to be changed, and no other.
<0>PatchHits.
      ASSUME NEW start \in Nat, NEW from \in Nat, NEW to \in Nat, NEW byte, NEW k \in Nat \ {0},
             NEW b \in Nat, NEW s, s = start + b \div SECTOR_SIZE, NEW p, p = b % SECTOR_SIZE,
             NEW w, w = PatchAt(start, from, to, byte, k), NEW d
      PROVE  /\ Hits(w, s, p) <=> from \div SECTOR_SIZE + k - 1 = b \div SECTOR_SIZE /\ from <= b /\ b < to
             /\ Hits(w, s, p) => Gives(d, w, p) = byte[b]
  <1> USE <0>PatchHits
  <1>1. PICK first \in Nat : first = from \div SECTOR_SIZE
    BY <0>ByteAt
  <1>2. PICK c \in Nat : c = b \div SECTOR_SIZE /\ p \in Positions /\ c * SECTOR_SIZE + p = b
    BY <0>ByteAt
  <1>3. PICK base : base = (first + k - 1) * SECTOR_SIZE
    OBVIOUS
  <1>4. PICK D : D = {q \in Positions : from <= base + q /\ base + q < to}
    BY ZenonT(60)
  <1>5. PICK f : f = [q \in D |-> byte[base + q]]
    BY ZenonT(60)
  <1>6. w = [write |-> "patch", sector |-> start + first + k - 1, bytes |-> f]
    BY <1>1, <1>3, <1>4, <1>5 DEF PatchAt
  <1>7. w.write = "patch" /\ w.sector = start + first + k - 1 /\ w.bytes = f /\ DOMAIN f = D
    BY <1>5, <1>6
  <1>8. Hits(w, s, p) <=> w.sector = s /\ p \in D
    BY <1>7 DEF Hits
  <1>9. w.sector = s <=> first + k - 1 = c
    BY <1>2, <1>7
  <1>10. ASSUME first + k - 1 = c PROVE base + p = b
    BY <1>2, <1>3, <1>10
  <1>11. ASSUME w.sector = s PROVE p \in D <=> from <= b /\ b < to
    BY <1>2, <1>4, <1>9, <1>10, <1>11
  <1>12. ASSUME Hits(w, s, p) PROVE Gives(d, w, p) = byte[b]
    <2>1. f[p] = byte[base + p] /\ base + p = b
      BY <1>5, <1>8, <1>9, <1>10, <1>12
    <2> QED BY <1>7, <2>1 DEF Gives
  <1> QED BY <1>1, <1>2, <1>8, <1>9, <1>11, <1>12

\* The writes of zero_range and write, one by one.
<0>PatchesAre.
      ASSUME NEW start \in Nat, NEW from \in Nat, NEW to \in Nat, NEW byte,
             NEW u, u = Patches(start, from, to, byte)
      PROVE  \E n \in Nat : /\ Len(u) = n
                            /\ from < to => n = sectors_for_len(to) - from \div SECTOR_SIZE
                            /\ \A k \in 1 .. n : u[k] = PatchAt(start, from, to, byte, k)
  <1> USE <0>PatchesAre
  <1> DEFINE first == from \div SECTOR_SIZE
             n == IF from < to THEN sectors_for_len(to) - first ELSE 0
             W(k) == PatchAt(start, from, to, byte, k)
  <1>1. u = [k \in 1 .. n |-> W(k)]
    BY DEF Patches, PatchAt
  <1>2. n \in Nat
    <2>1. CASE from < to
      <3>1. first \in 0 .. sectors_for_len(to) - 1 /\ sectors_for_len(to) \in Nat
        BY <2>1, SectorsNeeded
      <3> HIDE DEF first
      <3> QED BY <2>1, <3>1
    <2> QED BY <2>1
  <1> HIDE DEF W
  <1>3. from < to => n = sectors_for_len(to) - from \div SECTOR_SIZE
    OBVIOUS
  <1> HIDE DEF n
  <1>4. Len(u) = n /\ \A k \in 1 .. n : u[k] = W(k)
    BY <1>1, <1>2
  <1> QED BY <1>2, <1>3, <1>4 DEF W

<0>PatchesPut.
      ASSUME NEW start \in Nat, NEW from \in Nat, NEW to \in Nat, NEW byte, NEW d,
             NEW b \in Nat, from <= b, b < to, NEW u, u = Patches(start, from, to, byte)
      PROVE  Puts(d, u, start + b \div SECTOR_SIZE, b % SECTOR_SIZE, byte[b])
  <1> USE <0>PatchesPut
  <1>1. PICK n \in Nat : /\ Len(u) = n /\ n = sectors_for_len(to) - from \div SECTOR_SIZE
                         /\ \A k \in 1 .. n : u[k] = PatchAt(start, from, to, byte, k)
    <2>1. from < to
      OBVIOUS
    <2> QED BY <2>1, <0>PatchesAre
  <1>2. PICK s, p : s = start + b \div SECTOR_SIZE /\ p = b % SECTOR_SIZE
    OBVIOUS
  <1>3. PICK first \in Nat, c \in Nat :
           /\ first = from \div SECTOR_SIZE /\ c = b \div SECTOR_SIZE /\ first <= c
           /\ sectors_for_len(to) \in Nat /\ c <= sectors_for_len(to) - 1
    <2>1. from \div SECTOR_SIZE \in Nat /\ b \div SECTOR_SIZE \in Nat
      BY <0>ByteAt
    <2>2. from \div SECTOR_SIZE <= b \div SECTOR_SIZE
      BY FsAssumption, DivMonotone
    <2>3. b \div SECTOR_SIZE \in 0 .. sectors_for_len(to) - 1 /\ sectors_for_len(to) \in Nat
      BY SectorsNeeded, ZenonT(60)
    <2> QED BY <2>1, <2>2, <2>3
  <1>4. PICK k \in 1 .. n : first + k - 1 = c
    <2>0. PICK t \in Nat : t = sectors_for_len(to)
      BY <1>3
    <2>1. n = t - first /\ c <= t - 1
      BY <1>1, <1>3, <2>0
    <2>2. c - first + 1 \in 1 .. n /\ first + (c - first + 1) - 1 = c
      BY <1>3, <2>1
    <2> QED BY <2>2
  <1>5. ASSUME NEW m \in 1 .. n
        PROVE  /\ Hits(u[m], s, p) <=> first + m - 1 = c
               /\ Hits(u[m], s, p) => Gives(d, u[m], p) = byte[b]
    <2>1. m \in Nat \ {0}
      OBVIOUS
    <2>2. u[m] = PatchAt(start, from, to, byte, m)
      BY <1>1
    <2>3. /\ Hits(u[m], s, p) <=> from \div SECTOR_SIZE + m - 1 = b \div SECTOR_SIZE /\ from <= b /\ b < to
          /\ Hits(u[m], s, p) => Gives(d, u[m], p) = byte[b]
      BY <1>2, <2>1, <2>2, <0>PatchHits
    <2> QED BY <1>3, <2>3
  <1>6. Hits(u[k], s, p) /\ Gives(d, u[k], p) = byte[b]
    BY <1>4, <1>5
  <1>7. ASSUME NEW m \in k + 1 .. n PROVE ~Hits(u[m], s, p)
    <2>1. m \in 1 .. n /\ first + m - 1 # c
      BY <1>3, <1>4
    <2> QED BY <1>5, <2>1
  <1>8. Puts(d, u, s, p, byte[b])
    BY <1>1, <1>6, <1>7 DEF Puts
  <1> QED BY <1>2, <1>8

<0>PatchesMiss.
      ASSUME NEW start \in Nat, NEW from \in Nat, NEW to \in Nat, NEW byte,
             NEW b \in Nat, ~(from <= b /\ b < to), NEW u, u = Patches(start, from, to, byte)
      PROVE  Misses(u, start + b \div SECTOR_SIZE, b % SECTOR_SIZE)
  <1> USE <0>PatchesMiss
  <1>1. PICK n \in Nat : Len(u) = n /\ \A k \in 1 .. n : u[k] = PatchAt(start, from, to, byte, k)
    BY <0>PatchesAre
  <1>2. PICK s, p : s = start + b \div SECTOR_SIZE /\ p = b % SECTOR_SIZE
    OBVIOUS
  <1>3. ASSUME NEW m \in 1 .. n PROVE ~Hits(u[m], s, p)
    <2>1. m \in Nat \ {0}
      OBVIOUS
    <2>2. u[m] = PatchAt(start, from, to, byte, m)
      BY <1>1
    <2>3. Hits(u[m], s, p) <=> from \div SECTOR_SIZE + m - 1 = b \div SECTOR_SIZE /\ from <= b /\ b < to
      BY <1>2, <2>1, <2>2, <0>PatchHits
    <2> QED BY <2>3
  <1>4. Misses(u, s, p)
    BY <1>1, <1>3 DEF Misses
  <1> QED BY <1>2, <1>4

\* Writes that spare what they copy.
<0>ConfinedKept.
      ASSUME NEW A, NEW B, A \cap B = {}, NEW u \in Seq(Confined(A, B))
      PROVE  SourcesKept(u)
  <1> USE <0>ConfinedKept
  <1>1. \A k \in 1 .. Len(u) : u[k] \in Confined(A, B)
    OBVIOUS
  <1>2. \A w \in Confined(A, B) : w.sector \in A /\ (w.write = "copy" => w.from \in B)
    BY DEF Confined
  <1> QED BY <1>1, <1>2 DEF SourcesKept

\* A byte that is read from a file.
<0>ReadByte.
      ASSUME Inv, NEW i \in Inodes, IsFile(i), NEW b \in Nat, b < inode[i].len
      PROVE  /\ read(i)[b + 1] = data[inode[i].start + b \div SECTOR_SIZE][b % SECTOR_SIZE]
             /\ b \div SECTOR_SIZE \in 0 .. inode[i].count - 1
  <1> USE <0>ReadByte
  <1>1. inode[i] \in Entries /\ sectors_for_len(inode[i].len) <= inode[i].count
    BY DEF Inv, DiskInv, Sound, IsFile
  <1>2. PICK e \in Entries, n \in Nat, c \in Nat : e = inode[i] /\ n = e.len /\ c = e.count /\ sectors_for_len(n) <= c
    BY <1>1, EntryParts
  <1>3. b + 1 \in 1 .. n /\ (b + 1) - 1 = b
    BY <1>2
  <1>4. read(i) = [x \in 1 .. n |-> data[e.start + (x - 1) \div SECTOR_SIZE][(x - 1) % SECTOR_SIZE]]
    BY <1>2 DEF read
  <1>5. b \div SECTOR_SIZE \in 0 .. sectors_for_len(n) - 1 /\ sectors_for_len(n) \in Nat
    BY <1>2, SectorsNeeded
  <1> QED BY <1>2, <1>3, <1>4, <1>5

\* ensure_capacity takes the old bytes along, and spares them.
<0>GrowthLeaves.
      ASSUME Inv, NEW i \in Inodes, IsFile(i), NEW needed \in Nat, NEW start \in Places(i, needed),
             Spared(i, start, needed), NEW A, A = start .. start + needed - 1
      PROVE  /\ start \in Nat
             /\ \E B : /\ A \cap B = {}
                       /\ Growth(i, start, needed) \in Seq(Confined(A, B))
             /\ \A b \in Nat : b < inode[i].len =>
                   Leaves(data, Growth(i, start, needed), start + b \div SECTOR_SIZE, b % SECTOR_SIZE,
                          read(i)[b + 1])
  <1> USE <0>GrowthLeaves
  <1>1. PICK e \in Entries : e = inode[i] /\ e.start \in Nat /\ e.count \in Nat
    BY EntryParts DEF Inv, DiskInv
  <1>2. CASE needed > e.count
    <2>1. start \in Nat
      <3>1. start \in DataSectors
        BY <1>1, <1>2 DEF Places
      <3> QED BY <3>1, FirstSector
    <2> DEFINE B == Extent(e)
               Z(k) == [write |-> "patch", sector |-> start + k - 1, bytes |-> [p \in Positions |-> 0]]
               C(k) == [write |-> "copy", sector |-> start + k - 1, from |-> e.start + k - 1]
               z == [k \in 1 .. needed |-> Z(k)]
               c == [k \in 1 .. e.count |-> C(k)]
               S == Confined(A, B)
    <2>2. A \cap B = {}
      BY <1>1, <1>2 DEF Spared
    <2>3. Growth(i, start, needed) = z \o c
      BY <1>1, <1>2, ZenonT(60) DEF Growth, ensure_capacity
    <2>4. ASSUME NEW k \in 1 .. needed PROVE Z(k) \in S /\ start + k - 1 \in A
      <3>1. start + k - 1 \in A
        BY <2>1
      <3>2. [p \in Positions |-> 0] \in [Positions -> Bytes]
        BY FsAssumption
      <3>3. [p \in Positions |-> 0] \in Part
        BY <3>2 DEF Part
      <3> QED BY <3>1, <3>3, ZenonT(60) DEF Confined
    <2>5. ASSUME NEW k \in 1 .. e.count PROVE C(k) \in S
      <3>1. k \in 1 .. needed
        BY <1>1, <1>2
      <3>2. e.start + k - 1 \in B
        BY <1>1 DEF Extent
      <3> QED BY <2>4, <3>1, <3>2, ZenonT(60) DEF Confined
    <2>6. ASSUME NEW k \in 1 .. e.count, NEW p
          PROVE  \A s : Hits(C(k), s, p) <=> s = start + k - 1
      BY DEF Hits
    <2>7. ASSUME NEW k \in 1 .. e.count, NEW p
          PROVE  Gives(data, C(k), p) = data[e.start + k - 1][p]
      BY DEF Gives
    <2> HIDE DEF Z, C, S
    <2>8. z \in Seq(S)
      BY <2>4
    <2>9. c \in Seq(S) /\ Len(c) = e.count /\ \A k \in 1 .. e.count : c[k] = C(k)
      BY <1>1, <2>5
    <2> HIDE DEF z, c
    <2>10. Growth(i, start, needed) \in Seq(S) /\ IsJoin(z, c, Growth(i, start, needed))
      BY <2>3, <2>8, <2>9, <0>Joined
    <2>11. ASSUME NEW b \in Nat, b < inode[i].len
           PROVE  Leaves(data, Growth(i, start, needed), start + b \div SECTOR_SIZE, b % SECTOR_SIZE,
                         read(i)[b + 1])
      <3>0. PICK q \in 0 .. e.count - 1 :
               q = b \div SECTOR_SIZE /\ read(i)[b + 1] = data[e.start + q][b % SECTOR_SIZE]
        BY <1>1, <2>11, <0>ReadByte
      <3>1. PICK p, v : p = b % SECTOR_SIZE /\ v = read(i)[b + 1] /\ v = data[e.start + q][p]
        BY <3>0
      <3>2. q + 1 \in 1 .. e.count /\ start + (q + 1) - 1 = start + q /\ e.start + (q + 1) - 1 = e.start + q
        BY <1>1, <2>1
      <3>3. Hits(C(q + 1), start + q, p) /\ Gives(data, C(q + 1), p) = v
        BY <2>6, <2>7, <3>1, <3>2
      <3>4. ASSUME NEW m \in q + 1 + 1 .. e.count PROVE ~Hits(C(m), start + q, p)
        <4>1. m \in 1 .. e.count /\ start + q # start + m - 1
          BY <1>1, <2>1
        <4> QED BY <2>6, <4>1
      <3>5. ASSUME NEW m \in q + 1 + 1 .. e.count PROVE ~Hits(c[m], start + q, p)
        <4>1. m \in 1 .. e.count
          BY <1>1
        <4> QED BY <2>9, <3>4, <4>1
      <3>6. Puts(data, c, start + q, p, v)
        BY <2>9, <3>2, <3>3, <3>5 DEF Puts
      <3>7. Puts(data, Growth(i, start, needed), start + q, p, v)
        BY <2>10, <3>6, <0>PutsLater
      <3> QED BY <3>0, <3>1, <3>7, ZenonT(60) DEF Leaves
    <2> QED BY <2>1, <2>2, <2>10, <2>11, ZenonT(60) DEF S
  <1>3. CASE ~(needed > e.count)
    <2>1. start = e.start /\ Growth(i, start, needed) = <<>>
      BY <1>1, <1>3 DEF Places, Growth
    <2>2. Growth(i, start, needed) \in Seq(Confined(A, {}))
      BY <2>1
    <2>3. ASSUME NEW b \in Nat, b < inode[i].len
          PROVE  Leaves(data, Growth(i, start, needed), start + b \div SECTOR_SIZE, b % SECTOR_SIZE,
                        read(i)[b + 1])
      <3>1. data[start + b \div SECTOR_SIZE][b % SECTOR_SIZE] = read(i)[b + 1]
        BY <1>1, <2>1, <2>3, <0>ReadByte
      <3>2. \A s, p : Misses(<<>>, s, p)
        BY DEF Misses
      <3> QED BY <2>1, <3>1, <3>2, ZenonT(60) DEF Leaves
    <2> QED BY <1>1, <2>1, <2>2, <2>3, ZenonT(60)
  <1> QED BY <1>2, <1>3

\* What a caller was told an intact file holds.
<0>ToldBytes.
      ASSUME Inv, ReadBack, NEW i \in intact, IsFile(i)
      PROVE  /\ inode[i].len \in Nat
             /\ \A y \in Nat \ {0} :
                   Byte(content[i], y) = IF y <= inode[i].len THEN read(i)[y] ELSE 0
  <1> USE <0>ToldBytes
  <1>1. i \in Inodes
    BY DEF Inv, BookInv
  <1>2. PICK n \in Nat : n = inode[i].len
    BY <1>1, EntryParts DEF Inv, DiskInv
  <1>3. content[i] = read(i) /\ content[i] \in Seq(Bytes)
    BY <1>1 DEF ReadBack, Inv, BookInv
  <1>4. Len(content[i]) = n
    <2>1. DOMAIN content[i] = 1 .. n
      BY <1>2, <1>3 DEF read
    <2>2. Len(content[i]) \in Nat /\ DOMAIN content[i] = 1 .. Len(content[i])
      BY <1>3
    <2> QED BY <2>1, <2>2
  <1> QED BY <1>2, <1>3, <1>4 DEF Byte

<0>TruncatePromises.
      ASSUME Inv, ReadBack, NEW i \in Inodes, NEW len \in Nat, NEW x, NEW good, NEW u, NEW e,
             Starts(i, x, good, u, e), Truncates(i, len, x, good, u, e), good
      PROVE  SourcesKept(u) /\ Promised(data, u, e, x)
  <1> USE <0>TruncatePromises
  <1>1. PICK needed, start :
           /\ needed = sectors_for_len(len) /\ start \in Places(i, needed)
           /\ x = [y \in 1 .. len |-> Byte(content[i], y)]
           /\ i \in intact /\ Spared(i, start, needed)
           /\ u = Growth(i, start, needed) \o zero_range(start, inode[i].len, len)
           /\ e = [Grown(inode[i], start, needed) EXCEPT !.len = len]
    BY ZenonT(60) DEF Truncates
  <1>2. IsFile(i) /\ needed \in Nat
    BY <1>1, SectorsNeeded DEF Starts
  <1>3. PICK n \in Nat :
           /\ n = inode[i].len
           /\ \A y \in Nat \ {0} : Byte(content[i], y) = IF y <= n THEN read(i)[y] ELSE 0
    BY <1>1, <1>2, <0>ToldBytes
  <1>4. PICK A : A = start .. start + needed - 1
    OBVIOUS
  <1>5. PICK g : g = Growth(i, start, needed)
    OBVIOUS
  <1>6. PICK B : /\ A \cap B = {} /\ g \in Seq(Confined(A, B)) /\ start \in Nat
                 /\ \A b \in Nat : b < n =>
                       Leaves(data, g, start + b \div SECTOR_SIZE, b % SECTOR_SIZE, read(i)[b + 1])
    <2>1. /\ start \in Nat
          /\ \E B : A \cap B = {} /\ Growth(i, start, needed) \in Seq(Confined(A, B))
          /\ \A b \in Nat : b < inode[i].len =>
                Leaves(data, Growth(i, start, needed), start + b \div SECTOR_SIZE, b % SECTOR_SIZE,
                       read(i)[b + 1])
      BY <1>1, <1>2, <1>4, <0>GrowthLeaves, ZenonT(60)
    <2> QED BY <1>3, <1>5, <2>1, ZenonT(60)
  <1>7. PICK z \in [n .. len - 1 -> Bytes] : z = [y \in n .. len - 1 |-> 0]
    BY FsAssumption, ZenonT(60)
  <1>70. PICK r : r = Patches(start, n, len, z)
    OBVIOUS
  <1>8. r \in Seq(Confined(A, B))
    <2>1. \A k \in 0 .. sectors_for_len(len) - 1 : start + k \in A
      BY <1>1, <1>2, <1>4, <1>6
    <2> QED BY <1>6, <1>7, <1>70, <2>1, PatchesConfined, ZenonT(60)
  <1>9. u = g \o r
    BY <1>1, <1>3, <1>5, <1>7, <1>70 DEF zero_range
  <1>10. IsJoin(g, r, u) /\ u \in Seq(Confined(A, B))
    BY <1>6, <1>8, <1>9, <0>Joined
  <1>11. SourcesKept(u)
    BY <1>6, <1>10, <0>ConfinedKept
  <1>12. e.start = start /\ e.len = len
    <2>1. PICK h : h = Grown(inode[i], start, needed)
      OBVIOUS
    <2>2. h \in Entries /\ h.start = start
      <3>1. IsFile(i) /\ needed \in Nat /\ start \in Places(i, needed)
        BY <1>1, <1>2
      <3> QED BY <2>1, <3>1, PlacedEntry, ZenonT(60)
    <2>3. e = [h EXCEPT !.len = len]
      BY <1>1, <2>1
    <2> QED BY <2>2, <2>3, ZenonT(60) DEF Entries
  <1>13. ASSUME NEW y \in 1 .. len
         PROVE  Leaves(data, u, start + (y - 1) \div SECTOR_SIZE, (y - 1) % SECTOR_SIZE, x[y])
    <2>1. PICK b \in Nat : b = y - 1 /\ y = b + 1 /\ b < len /\ y \in Nat \ {0}
      OBVIOUS
    <2>2. x[y] = IF y <= n THEN read(i)[y] ELSE 0
      BY <1>1, <1>3, <2>1
    <2>3. CASE b < n
      <3>1. Misses(r, start + b \div SECTOR_SIZE, b % SECTOR_SIZE)
        <4>1. ~(n <= b /\ b < len)
          BY <2>3
        <4> QED BY <1>6, <1>7, <1>70, <4>1, <0>PatchesMiss, ZenonT(60)
      <3>2. Leaves(data, u, start + b \div SECTOR_SIZE, b % SECTOR_SIZE, read(i)[b + 1])
        BY <1>6, <1>10, <2>3, <3>1, <0>LeavesEarlier
      <3>3. x[y] = read(i)[b + 1]
        BY <2>1, <2>2, <2>3
      <3> QED BY <2>1, <3>2, <3>3
    <2>4. CASE ~(b < n)
      <3>1. n <= b
        BY <2>4
      <3>2. Puts(data, r, start + b \div SECTOR_SIZE, b % SECTOR_SIZE, z[b])
        BY <1>6, <1>7, <1>70, <2>1, <3>1, <0>PatchesPut, ZenonT(60)
      <3>3. z[b] = 0 /\ x[y] = 0
        BY <1>7, <1>70, <2>1, <2>2, <3>1
      <3>4. Puts(data, u, start + b \div SECTOR_SIZE, b % SECTOR_SIZE, z[b])
        BY <1>10, <3>2, <0>PutsLater
      <3> QED BY <2>1, <3>3, <3>4, ZenonT(60) DEF Leaves
    <2> QED BY <2>3, <2>4
  <1>14. Len(x) = len
    BY <1>1
  <1> QED BY <1>11, <1>12, <1>13, <1>14 DEF Promised

<0>WritePromises.
      ASSUME Inv, ReadBack, NEW i \in Inodes, NEW offset \in Nat, NEW bytes \in Seq(Bytes),
             NEW x, NEW good, NEW u, NEW e,
             Starts(i, x, good, u, e), Overwrites(i, offset, bytes, x, good, u, e), good
      PROVE  SourcesKept(u) /\ Promised(data, u, e, x)
  <1> USE <0>WritePromises
  <1>1. PICK end, needed, len, start :
           /\ end = offset + Len(bytes) /\ len = Larger(inode[i].len, end)
           /\ needed = sectors_for_len(end) /\ start \in Places(i, needed)
           /\ x = [y \in 1 .. len |-> IF offset < y /\ y <= end THEN bytes[y - offset]
                                      ELSE Byte(content[i], y)]
           /\ i \in intact /\ Spared(i, start, needed)
           /\ u = Growth(i, start, needed) \o zero_range(start, inode[i].len, offset)
                    \o Patches(start, offset, end, [y \in offset .. end - 1 |-> bytes[y - offset + 1]])
           /\ e = [Grown(inode[i], start, needed) EXCEPT !.len = len]
    BY ZenonT(60) DEF Overwrites
  <1>2. /\ IsFile(i) /\ end \in Nat /\ needed \in Nat /\ offset <= end
        /\ sectors_for_len(offset) \in Nat /\ sectors_for_len(offset) <= needed
    <2>1. end \in Nat /\ offset <= end
      BY <1>1
    <2> QED BY <1>1, <2>1, SectorsNeeded DEF Starts
  <1>3. PICK n \in Nat :
           /\ n = inode[i].len
           /\ \A y \in Nat \ {0} : Byte(content[i], y) = IF y <= n THEN read(i)[y] ELSE 0
    BY <1>1, <1>2, <0>ToldBytes
  <1>4. PICK A : A = start .. start + needed - 1
    OBVIOUS
  <1>5. PICK g : g = Growth(i, start, needed)
    OBVIOUS
  <1>6. PICK B : /\ A \cap B = {} /\ g \in Seq(Confined(A, B)) /\ start \in Nat
                 /\ \A b \in Nat : b < n =>
                       Leaves(data, g, start + b \div SECTOR_SIZE, b % SECTOR_SIZE, read(i)[b + 1])
    <2>0. IsFile(i) /\ needed \in Nat /\ start \in Places(i, needed) /\ Spared(i, start, needed)
      BY <1>1, <1>2
    <2>1. /\ start \in Nat
          /\ \E B : A \cap B = {} /\ Growth(i, start, needed) \in Seq(Confined(A, B))
          /\ \A b \in Nat : b < inode[i].len =>
                Leaves(data, Growth(i, start, needed), start + b \div SECTOR_SIZE, b % SECTOR_SIZE,
                       read(i)[b + 1])
      BY <1>4, <2>0, <0>GrowthLeaves, ZenonT(60)
    <2> QED BY <1>3, <1>5, <2>1, ZenonT(60)
  <1>7. PICK z \in [n .. offset - 1 -> Bytes] : z = [y \in n .. offset - 1 |-> 0]
    BY FsAssumption, ZenonT(60)
  <1>70. PICK r : r = Patches(start, n, offset, z)
    OBVIOUS
  <1>8. PICK f \in [offset .. end - 1 -> Bytes] : f = [y \in offset .. end - 1 |-> bytes[y - offset + 1]]
    <2>1. ASSUME NEW y \in offset .. end - 1 PROVE bytes[y - offset + 1] \in Bytes
      <3>1. y - offset + 1 \in 1 .. Len(bytes)
        BY <1>1, <1>2
      <3> QED BY <3>1
    <2> QED BY <2>1, ZenonT(60)
  <1>80. PICK t : t = Patches(start, offset, end, f)
    OBVIOUS
  <1>9. \A k \in 0 .. needed - 1 : start + k \in A
    BY <1>2, <1>4, <1>6
  <1>10. r \in Seq(Confined(A, B))
    <2>1. \A k \in 0 .. sectors_for_len(offset) - 1 : start + k \in A
      BY <1>2, <1>9
    <2> QED BY <1>6, <1>7, <1>70, <2>1, PatchesConfined, ZenonT(60)
  <1>11. t \in Seq(Confined(A, B))
    <2>1. \A k \in 0 .. sectors_for_len(end) - 1 : start + k \in A
      BY <1>1, <1>9
    <2> QED BY <1>2, <1>6, <1>8, <1>80, <2>1, PatchesConfined, ZenonT(60)
  <1>12. PICK v : v = g \o r /\ v \in Seq(Confined(A, B)) /\ IsJoin(g, r, v)
    <2>1. g \in Seq(Confined(A, B)) /\ r \in Seq(Confined(A, B))
      BY <1>6, <1>10
    <2>2. IsJoin(g, r, g \o r) /\ g \o r \in Seq(Confined(A, B))
      BY <2>1, <0>Joined
    <2> QED BY <2>2, ZenonT(60)
  <1>13. u = v \o t
    BY <1>1, <1>3, <1>5, <1>7, <1>70, <1>8, <1>80, <1>12, ZenonT(60) DEF zero_range
  <1>14. IsJoin(v, t, u) /\ u \in Seq(Confined(A, B))
    <2>1. v \in Seq(Confined(A, B)) /\ t \in Seq(Confined(A, B))
      BY <1>11, <1>12
    <2>2. IsJoin(v, t, v \o t) /\ v \o t \in Seq(Confined(A, B))
      BY <2>1, <0>Joined
    <2> QED BY <1>13, <2>2
  <1>15. SourcesKept(u)
    BY <1>6, <1>14, <0>ConfinedKept
  <1>16. e.start = start /\ e.len = len
    <2>1. PICK h : h = Grown(inode[i], start, needed)
      OBVIOUS
    <2>2. h \in Entries /\ h.start = start
      <3>1. IsFile(i) /\ needed \in Nat /\ start \in Places(i, needed)
        BY <1>1, <1>2
      <3> QED BY <2>1, <3>1, PlacedEntry, ZenonT(60)
    <2>3. e = [h EXCEPT !.len = len]
      BY <1>1, <2>1
    <2> QED BY <2>2, <2>3, ZenonT(60) DEF Entries
  <1>17. len \in Nat /\ \A y \in 1 .. len : y <= n \/ y <= end
    BY <1>1, <1>2, <1>3 DEF Larger
  <1>18. ASSUME NEW y \in 1 .. len
         PROVE  Leaves(data, u, start + (y - 1) \div SECTOR_SIZE, (y - 1) % SECTOR_SIZE, x[y])
    <2>1. PICK b \in Nat : b = y - 1 /\ y = b + 1 /\ y \in Nat \ {0} /\ (b < n \/ b < end)
      <3>1. y - 1 \in Nat /\ y \in Nat \ {0} /\ (y - 1 < n \/ y - 1 < end) /\ y = (y - 1) + 1
        BY <1>2, <1>17
      <3> QED BY <3>1
    <2>2. PICK s, p : s = start + b \div SECTOR_SIZE /\ p = b % SECTOR_SIZE
      OBVIOUS
    <2>3. CASE offset <= b /\ b < end
      <3>1. Puts(data, t, start + b \div SECTOR_SIZE, b % SECTOR_SIZE, f[b])
        BY <1>2, <1>6, <1>8, <1>80, <2>3, <0>PatchesPut, ZenonT(60)
      <3>2. Puts(data, u, s, p, f[b])
        BY <1>14, <2>2, <3>1, <0>PutsLater
      <3>3. b - offset + 1 = y - offset /\ b \in offset .. end - 1 /\ offset < y /\ y <= end
        BY <1>2, <2>1, <2>3
      <3>4. f[b] = bytes[b - offset + 1]
        BY <1>8, <1>80, <3>3
      <3>5. x[y] = bytes[y - offset]
        BY <1>1, <3>3
      <3> QED BY <2>1, <2>2, <3>2, <3>3, <3>4, <3>5, ZenonT(60) DEF Leaves
    <2>4. CASE ~(offset <= b /\ b < end)
      <3>1. Misses(t, start + b \div SECTOR_SIZE, b % SECTOR_SIZE)
        BY <1>2, <1>6, <1>8, <1>80, <2>4, <0>PatchesMiss, ZenonT(60)
      <3>2. x[y] = IF y <= n THEN read(i)[y] ELSE 0
        <4>1. ~(offset < y /\ y <= end)
          BY <1>2, <2>1, <2>4
        <4>2. x[y] = Byte(content[i], y)
          BY <1>1, <4>1
        <4> QED BY <1>3, <2>1, <4>2, ZenonT(60)
      <3>3. CASE b < n
        <4>1. ~(n <= b /\ b < offset)
          BY <3>3
        <4>2. Misses(r, start + b \div SECTOR_SIZE, b % SECTOR_SIZE)
          BY <1>6, <1>7, <1>70, <4>1, <0>PatchesMiss, ZenonT(60)
        <4>3. Leaves(data, v, s, p, read(i)[b + 1])
          BY <1>6, <1>12, <2>2, <3>3, <4>2, <0>LeavesEarlier
        <4>4. x[y] = read(i)[b + 1]
          BY <2>1, <3>2, <3>3
        <4>5. Leaves(data, u, s, p, x[y])
          BY <1>14, <2>2, <3>1, <4>3, <4>4, <0>LeavesEarlier, ZenonT(60)
        <4> QED BY <2>1, <2>2, <4>5
      <3>4. CASE ~(b < n)
        <4>1. n <= b /\ b < offset
          BY <1>2, <2>1, <2>4, <3>4
        <4>2. Puts(data, r, start + b \div SECTOR_SIZE, b % SECTOR_SIZE, z[b])
          BY <1>6, <1>7, <1>70, <4>1, <0>PatchesPut, ZenonT(60)
        <4>3. z[b] = 0 /\ x[y] = 0
          BY <1>7, <1>70, <2>1, <3>2, <4>1
        <4>4. Puts(data, v, s, p, x[y])
          BY <1>12, <2>2, <4>2, <4>3, <0>PutsLater
        <4>5. Leaves(data, v, s, p, x[y])
          BY <4>4, ZenonT(60) DEF Leaves
        <4>6. Leaves(data, u, s, p, x[y])
          BY <1>14, <2>2, <3>1, <4>5, <0>LeavesEarlier
        <4> QED BY <2>1, <2>2, <4>6
      <3> QED BY <3>3, <3>4
    <2> QED BY <2>3, <2>4
  <1>19. Len(x) = len
    BY <1>1, <1>17
  <1> QED BY <1>15, <1>16, <1>18, <1>19 DEF Promised

\* Nothing that is read or told changes.
<0>ReadKept.
      ASSUME ReadBack, UNCHANGED <<inode, data, content, intact>>
      PROVE  ReadBack'
  <1> USE <0>ReadKept
  <1> QED BY DEF ReadBack, read, IsFile

\* An operation that starts with a promise.
<0>PromiseStart.
      ASSUME ReadBack, NEW i \in Inodes, NEW x, NEW g,
             NEW u \in Seq(Patch(inode, i) \cup Copy(inode, i)),
             NEW e \in Entries, Sound(inode, i, e), NEW w, w = u \o SetInode(e), Start(i, x, g, w),
             g => SourcesKept(u), g /\ e.kind = "file" => Promised(data, u, e, x)
      PROVE  PromiseInv' /\ ReadBack'
  <1> USE <0>PromiseStart
  <1>1. /\ op'.good = g /\ op'.expected = x /\ todo' = w
        /\ UNCHANGED <<inode, data, content, intact>>
    BY DEF Start
  <1>2. ReadBack'
    BY <1>1, <0>ReadKept
  <1>3. PICK r : r = [write |-> "inode", entry |-> e]
    BY ZenonT(60)
  <1>4. PICK q : q = SetInode(e) /\ q = <<r>> /\ r.write = "inode" /\ r.entry = e
    BY <1>3 DEF SetInode
  <1>5. \A f \in Patch(inode, i) \cup Copy(inode, i) : f \in Steps(inode, i) /\ f.write # "inode"
    BY ZenonT(60) DEF Steps, Patch, Copy
  <1>6. u \in Seq(Steps(inode, i)) /\ q \in Seq(Steps(inode, i))
    <2>1. r \in Steps(inode, i)
      BY <1>3, ZenonT(60) DEF Steps
    <2> QED BY ONLY <1>4, <1>5, <2>1
  <1>7. IsJoin(u, q, w)
    <2>1. IsJoin(u, q, u \o q)
      BY <1>6, <0>Joined
    <2> QED BY <1>4, <2>1, ZenonT(60)
  <1>8. PICK a \in Nat : /\ a = Len(u) /\ Len(w) = a + 1 /\ w[a + 1] = r
                         /\ \A k \in 1 .. a : w[k] = u[k] /\ w[k].write # "inode"
    <2>1. Len(q) = 1 /\ q[1] = r /\ 1 \in 1 .. Len(q)
      BY ONLY <1>4
    <2>2. \A k \in 1 .. Len(u) : u[k].write # "inode"
      BY ONLY <1>5
    <2> QED BY <1>7, <2>1, <2>2, ZenonT(60) DEF IsJoin
  <1>9. ASSUME NEW s, NEW p PROVE Misses(q, s, p)
    <2>1. Len(q) = 1 /\ q[1] = r
      BY ONLY <1>4
    <2> QED BY ONLY <1>4, <2>1 DEF Misses, Hits
  <1>10. ASSUME g PROVE SourcesKept(w)
    <2>1. SourcesKept(u)
      BY <1>10
    <2>2. \A k \in 1 .. a + 1 : w[k].write \in {"patch", "copy"} => k \in 1 .. a
      BY ONLY <1>4, <1>8
    <2>3. \A k, m \in 1 .. a : w[k].write = "copy" /\ w[m].write \in {"patch", "copy"}
                                  => w[m].sector # w[k].from
      BY <1>8, <2>1, ZenonT(60) DEF SourcesKept
    <2> QED BY <1>8, <2>2, <2>3, ZenonT(60) DEF SourcesKept
  <1>11. ASSUME g, NEW k \in 1 .. Len(w), w[k].write = "inode", w[k].entry.kind = "file"
         PROVE  Promised(data, w, w[k].entry, x)
    <2>1. w[k].entry = e
      BY ONLY <1>4, <1>8, <1>11
    <2>2. Promised(data, u, e, x)
      BY <1>11, <2>1, ZenonT(60)
    <2>3. ASSUME NEW y \in 1 .. e.len
          PROVE  Leaves(data, w, e.start + (y - 1) \div SECTOR_SIZE, (y - 1) % SECTOR_SIZE, x[y])
      <3>1. PICK s, p : s = e.start + (y - 1) \div SECTOR_SIZE /\ p = (y - 1) % SECTOR_SIZE
        OBVIOUS
      <3>2. Leaves(data, u, s, p, x[y])
        BY <2>2, <3>1 DEF Promised
      <3>3. Leaves(data, w, s, p, x[y])
        BY <1>7, <1>9, <3>2, <0>LeavesEarlier
      <3> QED BY <3>1, <3>3
    <2> QED BY <2>1, <2>2, <2>3, ZenonT(60) DEF Promised
  <1>12. PromiseInv'
    BY <1>1, <1>10, <1>11, ZenonT(60) DEF PromiseInv
  <1> QED BY <1>2, <1>12

<0>PromiseCreate.
      ASSUME Inv, ReadBack, NEW parent \in Inodes, NEW name \in Names, NEW kind \in {"file", "dir"},
             create(parent, name, kind)
      PROVE  PromiseInv' /\ ReadBack'
  <1> USE <0>PromiseCreate
  <1> DEFINE e == [Empty EXCEPT !.kind = kind, !.name = name, !.parent = parent]
  <1>1. PICK i \in Inodes : IsAllocated(i) /\ Start(i, <<>>, TRUE, SetInode(e))
    BY ZenonT(60) DEF create
  <1>2. e \in Entries /\ e.start = 0 /\ e.count = 0 /\ e.len = 0
    BY EmptyEntry, ZenonT(60) DEF Entries, Empty
  <1>3. Sound(inode, i, e)
    <2>1. Extent(e) = {} /\ i # Root
      BY <1>1, <1>2 DEF Extent, IsAllocated, Root
    <2>2. sectors_for_len(0) = 0
      <3>1. SECTOR_SIZE \in Nat \ {0}
        BY SectorsNeeded
      <3> QED BY <3>1 DEF sectors_for_len
    <2> QED BY <1>2, <2>1, <2>2 DEF Sound
  <1> HIDE DEF e
  <1>4. <<>> \in Seq(Patch(inode, i) \cup Copy(inode, i)) /\ SetInode(e) = <<>> \o SetInode(e)
    BY OnlyInode
  <1>5. SourcesKept(<<>>) /\ Promised(data, <<>>, e, <<>>)
    BY <1>2 DEF SourcesKept, Promised
  <1> QED BY <1>1, <1>2, <1>3, <1>4, <1>5, <0>PromiseStart, ZenonT(60)

<0>PromiseRemove.
      ASSUME Inv, ReadBack, NEW parent \in Inodes, NEW name \in Names, remove(parent, name)
      PROVE  PromiseInv' /\ ReadBack'
  <1> USE <0>PromiseRemove
  <1>1. PICK i \in find_child(parent, name) : Start(i, <<>>, TRUE, SetInode(Empty))
    BY ZenonT(60) DEF remove
  <1>2. i \in Inodes
    BY <1>1, ChildrenInodes
  <1>3. Empty \in Entries /\ Sound(inode, i, Empty) /\ Empty.kind # "file"
    BY EmptyEntry DEF Sound
  <1>4. <<>> \in Seq(Patch(inode, i) \cup Copy(inode, i)) /\ SetInode(Empty) = <<>> \o SetInode(Empty)
    BY OnlyInode
  <1>5. SourcesKept(<<>>)
    BY DEF SourcesKept
  <1> QED BY <1>1, <1>2, <1>3, <1>4, <1>5, <0>PromiseStart, ZenonT(60)

<0>PromiseStarts.
      ASSUME Inv, ReadBack, NEW i \in Inodes, NEW x, NEW good, NEW u, NEW e, Starts(i, x, good, u, e),
             good => SourcesKept(u) /\ Promised(data, u, e, x)
      PROVE  PromiseInv' /\ ReadBack'
  <1> USE <0>PromiseStarts
  <1>1. u \in Seq(Patch(inode, i) \cup Copy(inode, i)) /\ e \in Entries /\ Sound(inode, i, e)
    BY ZenonT(60) DEF Starts
  <1>2. PICK w : w = u \o SetInode(e) /\ Start(i, x, good, w)
    BY ZenonT(60) DEF Starts
  <1> QED BY <1>1, <1>2, <0>PromiseStart, ZenonT(60)

<0>PromiseMount.
      ASSUME Inv, ReadBack, mount PROVE PromiseInv' /\ ReadBack'
  <1> USE <0>PromiseMount
  <1>1. todo = <<>>
    BY DEF mount, Idle
  <1>2. CASE UNCHANGED <<magic, inode, data, todo, op, content, intact, hidden>>
    <2>1. ReadBack'
      BY <1>2, <0>ReadKept
    <2>2. PromiseInv'
      BY <1>1, <1>2 DEF PromiseInv
    <2> QED BY <2>1, <2>2
  <1>3. CASE ~magic /\ format
    <2>1. PICK w : w = [k \in 1 .. DATA_START |-> [write |-> "table", sector |-> k - 1]]
                         \o << [write |-> "super"] >> \o SetInode(RootEntry)
      BY ZenonT(60)
    <2>2. todo' = w /\ UNCHANGED <<inode, data, content, intact>>
      BY <1>3, <2>1 DEF format, Start
    <2>3. /\ w \in Seq(Steps(inode, Root)) /\ Len(w) = DATA_START + 2 /\ DATA_START \in Nat
          /\ \A k \in 1 .. DATA_START : w[k].write = "table"
          /\ w[DATA_START + 1].write = "super"
          /\ w[DATA_START + 2].write = "inode" /\ w[DATA_START + 2].entry = RootEntry
      BY <2>1, FormatWrites, ZenonT(60)
    <2>4. ASSUME NEW k \in 1 .. Len(w)
          PROVE  w[k].write # "copy" /\ (w[k].write = "inode" => w[k].entry = RootEntry)
      <3>1. k \in 1 .. DATA_START \/ k = DATA_START + 1 \/ k = DATA_START + 2
        BY <2>3
      <3> QED BY <2>3, <3>1
    <2>5. ReadBack'
      BY <2>2, <0>ReadKept
    <2>6. SourcesKept(w)
      BY <2>4 DEF SourcesKept
    <2>7. PromiseInv'
      BY <2>2, <2>4, <2>6, EmptyEntry DEF PromiseInv
    <2> QED BY <2>5, <2>7
  <1> QED BY <1>2, <1>3 DEF mount

\* A byte of a file is in a data sector of its extent.
<0>ByteInside.
      ASSUME NEW t, NEW i, NEW e \in Entries, Sound(t, i, e), e.kind = "file", NEW y \in 1 .. e.len
      PROVE  /\ e.start + (y - 1) \div SECTOR_SIZE \in DataSectors
             /\ e.start + (y - 1) \div SECTOR_SIZE \in Extent(e)
             /\ (y - 1) % SECTOR_SIZE \in Positions
  <1> USE <0>ByteInside
  <1>1. e.len \in Nat /\ e.start \in Nat /\ e.count \in Nat /\ sectors_for_len(e.len) <= e.count
    BY EntryParts DEF Sound
  <1>2. y - 1 \in Nat /\ y - 1 < e.len
    BY <1>1
  <1>3. PICK b \in Nat : b = y - 1
    BY <1>2
  <1>4. b \div SECTOR_SIZE \in 0 .. sectors_for_len(e.len) - 1 /\ sectors_for_len(e.len) \in Nat
    BY <1>1, <1>2, <1>3, SectorsNeeded
  <1>5. PICK q \in Nat, n \in Nat : q = b \div SECTOR_SIZE /\ n = sectors_for_len(e.len) /\ q < n /\ n <= e.count
    BY <1>1, <1>4
  <1>6. e.start + q \in Extent(e)
    BY <1>1, <1>5 DEF Extent
  <1>7. Extent(e) \subseteq DataSectors
    BY DEF Sound, Own
  <1>8. b % SECTOR_SIZE \in Positions
    BY <0>ByteAt
  <1> QED BY <1>3, <1>5, <1>6, <1>7, <1>8

\* When the first write is made, the rest keep the promise.
<0>PromiseOn.
      ASSUME Inv, PromiseInv, todo # <<>>, todo' = Tail(todo), op' = op,
             \A s \in DataSectors, p \in Positions :
                data'[s][p] = IF Hits(Head(todo), s, p) THEN Gives(data, Head(todo), p) ELSE data[s][p]
      PROVE  PromiseInv'
  <1> USE <0>PromiseOn
  <1>1. todo \in Seq(Steps(inode, op.inode))
    BY DEF Inv, TodoInv
  <1> SUFFICES ASSUME todo' # <<>>, op.good PROVE PromiseInv'
    BY ZenonT(60) DEF PromiseInv
  <1>2. SourcesKept(todo)
    BY ZenonT(60) DEF PromiseInv
  <1>3. ASSUME NEW k \in 1 .. Len(Tail(todo))
        PROVE  k + 1 \in 1 .. Len(todo) /\ Tail(todo)[k] = todo[k + 1]
    BY <1>1, InTail
  <1>4. SourcesKept(Tail(todo))
    BY <1>2, <1>3 DEF SourcesKept
  <1>5. ASSUME NEW k \in 1 .. Len(todo), todo[k].write = "copy" PROVE todo[k].from \in DataSectors
    <2>1. todo[k] \in Steps(inode, op.inode)
      BY <1>1
    <2> QED BY <1>5, <2>1, StepParts, ZenonT(60)
  <1>6. ASSUME NEW k \in 1 .. Len(todo), todo[k].write = "inode", todo[k].entry.kind = "file"
        PROVE  Promised(data', Tail(todo), todo[k].entry, op.expected)
    <2>1. PICK e \in Entries : e = todo[k].entry /\ Sound(inode, op.inode, e) /\ e.kind = "file"
      <3>1. todo[k] \in Steps(inode, op.inode)
        BY <1>1
      <3> QED BY <1>6, <3>1, StepParts, ZenonT(60)
    <2>2. Promised(data, todo, e, op.expected)
      BY <1>6, <2>1, ZenonT(60) DEF PromiseInv
    <2>3. ASSUME NEW y \in 1 .. e.len
          PROVE  Leaves(data', Tail(todo), e.start + (y - 1) \div SECTOR_SIZE, (y - 1) % SECTOR_SIZE,
                        op.expected[y])
      <3>1. PICK s, p, v : /\ s = e.start + (y - 1) \div SECTOR_SIZE /\ p = (y - 1) % SECTOR_SIZE
                           /\ v = op.expected[y]
        OBVIOUS
      <3>2. s \in DataSectors /\ p \in Positions
        BY <2>1, <3>1, <0>ByteInside, ZenonT(60)
      <3>3. Leaves(data, todo, s, p, v)
        BY <2>2, <3>1, ZenonT(60) DEF Promised
      <3>4. data'[s][p] = IF Hits(Head(todo), s, p) THEN Gives(data, Head(todo), p) ELSE data[s][p]
        BY <3>2
      <3>5. \A m \in 1 .. Len(todo) :
               todo[m].write = "copy" /\ ~Hits(Head(todo), todo[m].from, p) =>
                   data'[todo[m].from][p] = data[todo[m].from][p]
        BY <1>5, <3>2
      <3>6. Leaves(data', Tail(todo), s, p, v)
        BY <1>1, <1>2, <3>3, <3>4, <3>5, <0>LeavesOn, ZenonT(60)
      <3> QED BY <3>1, <3>6, ZenonT(60)
    <2> QED BY <2>1, <2>2, <2>3, ZenonT(60) DEF Promised
  <1>7. ASSUME NEW k \in 1 .. Len(Tail(todo)), Tail(todo)[k].write = "inode",
               Tail(todo)[k].entry.kind = "file"
        PROVE  Promised(data', Tail(todo), Tail(todo)[k].entry, op.expected)
    BY <1>3, <1>6, <1>7, ZenonT(60)
  <1> QED BY <1>4, <1>7, ZenonT(60) DEF PromiseInv

\* A write to a sector of the operation's own: a file that it owned is not
\* answered for any more, and every other reads as before.
<0>SectorReadBack.
      ASSUME Inv, ReadBack, OthersUntouched, todo # <<>>, NEW s, NEW v, data' = [data EXCEPT ![s] = v],
             Touch(s), inode' = inode
      PROVE  ReadBack'
  <1> USE <0>SectorReadBack
  <1>1. op.inode \in Inodes /\ content \in [Inodes -> Seq(Bytes)] /\ intact \subseteq Inodes
    BY DEF Inv, TodoInv, BookInv
  <1>2. ASSUME NEW j \in intact', inode'[j].kind = "file" PROVE read(j)' = content'[j]
    <2>1. CASE s \in Extent(inode[op.inode])
      <3>1. j \in intact /\ j # op.inode /\ content'[j] = content[j]
        BY <1>1, <1>2, <2>1 DEF Touch
      <3>2. j \in Inodes /\ inode[j].kind = "file"
        BY <1>1, <1>2, <3>1
      <3>3. read(j)' = read(j)
        BY <3>1, <3>2 DEF OthersUntouched, IsLive, IsFile
      <3> QED BY <3>1, <3>2, <3>3 DEF ReadBack, IsFile
    <2>2. CASE s \notin Extent(inode[op.inode])
      <3>1. j \in intact /\ content'[j] = content[j] /\ j \in Inodes /\ inode[j].kind = "file"
        BY <1>1, <1>2, <2>2 DEF Touch
      <3>2. CASE j # op.inode
        <4>1. read(j)' = read(j)
          BY <3>1, <3>2 DEF OthersUntouched, IsLive, IsFile
        <4> QED BY <3>1, <4>1 DEF ReadBack, IsFile
      <3>3. CASE j = op.inode
        <4>1. \A q \in Extent(inode[j]) : data'[q] = data[q]
          <5>1. Extent(inode[j]) \subseteq DataSectors
            BY <3>1 DEF Inv, DiskInv, Sound, Own
          <5>2. data \in [DataSectors -> Sector]
            BY DEF Inv, DiskInv
          <5> QED BY <2>2, <3>3, <5>1, <5>2
        <4>2. read(j)' = read(j)
          BY <3>1, <4>1, ReadsOwn, ZenonT(60) DEF IsFile
        <4> QED BY <3>1, <4>2 DEF ReadBack, IsFile
      <3> QED BY <3>2, <3>3
    <2> QED BY <2>1, <2>2
  <1> QED BY <1>2 DEF ReadBack, IsFile

<0>PromisePatch.
      ASSUME Inv, PromiseInv, ReadBack, OthersUntouched, PatchSector
      PROVE  PromiseInv' /\ ReadBack'
  <1> USE <0>PromisePatch
  <1>1. todo # <<>> /\ Head(todo).write = "patch" /\ todo' = Tail(todo) /\ op' = op /\ inode' = inode
    BY DEF PatchSector, Idle
  <1>2. PICK s, b : s = Head(todo).sector /\ b = Head(todo).bytes
    OBVIOUS
  <1>3. s \in DataSectors
    BY <1>1, <1>2, FirstStep, StepParts, ZenonT(60) DEF Own
  <1> DEFINE v == [p \in Positions |-> IF p \in DOMAIN b THEN b[p] ELSE data[s][p]]
  <1>4. data \in [DataSectors -> Sector]
    BY DEF Inv, DiskInv
  <1>5. data' = [data EXCEPT ![s] = v] /\ Touch(s)
    BY <1>2, <1>3, <1>4, ZenonT(60) DEF PatchSector
  <1>6. ASSUME NEW q \in DataSectors, NEW p \in Positions
        PROVE  data'[q][p] = IF Hits(Head(todo), q, p) THEN Gives(data, Head(todo), p) ELSE data[q][p]
    <2>1. Hits(Head(todo), q, p) <=> s = q /\ p \in DOMAIN b
      BY <1>1, <1>2 DEF Hits
    <2>2. Gives(data, Head(todo), p) = b[p]
      BY <1>1, <1>2 DEF Gives
    <2>3. CASE q = s
      <3>1. data'[q] = v
        BY <1>3, <1>4, <1>5, <2>3
      <3>2. v[p] = IF p \in DOMAIN b THEN b[p] ELSE data[s][p]
        OBVIOUS
      <3> QED BY <2>1, <2>2, <2>3, <3>1, <3>2, ZenonT(60)
    <2>4. CASE q # s
      <3>1. data'[q] = data[q]
        BY <1>4, <1>5, <2>4
      <3> QED BY <2>1, <2>4, <3>1, ZenonT(60)
    <2> QED BY <2>3, <2>4, ZenonT(60)
  <1> HIDE DEF v
  <1>7. ReadBack'
    BY <1>1, <1>5, <0>SectorReadBack, ZenonT(60)
  <1>8. PromiseInv'
    BY <1>1, <1>6, <0>PromiseOn, ZenonT(60)
  <1> QED BY <1>7, <1>8

<0>PromiseCopy.
      ASSUME Inv, PromiseInv, ReadBack, OthersUntouched, CopySector
      PROVE  PromiseInv' /\ ReadBack'
  <1> USE <0>PromiseCopy
  <1>1. todo # <<>> /\ Head(todo).write = "copy" /\ todo' = Tail(todo) /\ op' = op /\ inode' = inode
    BY DEF CopySector, Idle
  <1>2. PICK s, f, v : s = Head(todo).sector /\ f = Head(todo).from /\ v = data[f]
    OBVIOUS
  <1>3. s \in DataSectors
    BY <1>1, <1>2, FirstStep, StepParts, ZenonT(60) DEF Own
  <1>4. data \in [DataSectors -> Sector]
    BY DEF Inv, DiskInv
  <1>5. data' = [data EXCEPT ![s] = v] /\ Touch(s)
    BY <1>2 DEF CopySector
  <1>6. ASSUME NEW q \in DataSectors, NEW p \in Positions
        PROVE  data'[q][p] = IF Hits(Head(todo), q, p) THEN Gives(data, Head(todo), p) ELSE data[q][p]
    <2>1. Hits(Head(todo), q, p) <=> s = q
      BY <1>1, <1>2 DEF Hits
    <2>2. Gives(data, Head(todo), p) = v[p]
      BY <1>1, <1>2 DEF Gives
    <2>3. data'[q] = IF q = s THEN v ELSE data[q]
      BY <1>3, <1>4, <1>5
    <2> QED BY <2>1, <2>2, <2>3, ZenonT(60)
  <1>7. ReadBack'
    BY <1>1, <1>5, <0>SectorReadBack, ZenonT(60)
  <1>8. PromiseInv'
    BY <1>1, <1>6, <0>PromiseOn, ZenonT(60)
  <1> QED BY <1>7, <1>8

\* The table and the superblock hold no file.
<0>PromiseFormat.
      ASSUME Inv, PromiseInv, ReadBack, ZeroTable \/ WriteSuperblock
      PROVE  PromiseInv' /\ ReadBack'
  <1> USE <0>PromiseFormat
  <1>1. /\ todo # <<>> /\ Head(todo).write \in {"table", "super"} /\ todo' = Tail(todo) /\ op' = op
        /\ UNCHANGED <<data, content, intact>>
    BY ZenonT(60) DEF ZeroTable, WriteSuperblock, Idle
  <1>2. \A s, p : ~Hits(Head(todo), s, p)
    BY <1>1 DEF Hits
  <1>3. PromiseInv'
    BY <1>1, <1>2, <0>PromiseOn
  <1>4. CASE ZeroTable
    <2>1. Blank(inode) /\ \A i \in Inodes : inode'[i] = Empty \/ inode'[i] = inode[i]
      <3>1. todo[1].write = "table" /\ 1 \in 1 .. Len(todo)
        BY <1>1, <1>4, FirstStep DEF ZeroTable
      <3> QED BY <1>4, <3>1 DEF Inv, TodoInv, ZeroTable
    <2>2. \A i \in Inodes : inode'[i].kind # "file"
      BY <2>1, EmptyEntry DEF Blank
    <2>3. intact' \subseteq Inodes
      BY <1>1 DEF Inv, BookInv
    <2>4. ReadBack'
      BY <2>2, <2>3 DEF ReadBack, IsFile
    <2> QED BY <1>3, <2>4
  <1>5. CASE WriteSuperblock
    <2>1. inode' = inode
      BY <1>5 DEF WriteSuperblock
    <2> QED BY <1>1, <1>3, <2>1, <0>ReadKept
  <1> QED BY <1>4, <1>5

\* The file that is left is the one that was promised.
<0>PromiseInode.
      ASSUME Inv, PromiseInv, ReadBack, OthersUntouched, write_inode
      PROVE  PromiseInv' /\ ReadBack'
  <1> USE <0>PromiseInode
  <1>1. todo # <<>> /\ Head(todo).write = "inode" /\ todo' = Tail(todo) /\ data' = data
    BY DEF write_inode, Idle
  <1>2. PICK i \in Inodes, e \in Entries, x \in Seq(Bytes) :
           /\ i = op.inode /\ e = Head(todo).entry /\ x = op.expected /\ Sound(inode, i, e)
           /\ inode' = [inode EXCEPT ![i] = e] /\ content' = [content EXCEPT ![i] = x]
    <2>1. op.inode \in Inodes /\ Head(todo) \in Steps(inode, op.inode) /\ op.expected \in Seq(Bytes)
      BY <1>1, FirstStep
    <2>2. Head(todo).entry \in Entries /\ Sound(inode, op.inode, Head(todo).entry)
      BY <1>1, <2>1, StepParts, ZenonT(60)
    <2> QED BY <2>1, <2>2, ZenonT(60) DEF write_inode
  <1>3. todo' = <<>> /\ Len(todo) = 1 /\ todo[1] = Head(todo)
    <2>1. todo \in Seq(Steps(inode, op.inode)) /\ (todo[1].write = "inode" => 1 = Len(todo))
      BY <1>1, FirstStep, ZenonT(60) DEF Inv, TodoInv
    <2>2. Len(todo) = 1 /\ todo[1] = Head(todo)
      BY <1>1, <2>1, FirstStep
    <2>3. Tail(todo) \in Seq(Steps(inode, op.inode)) /\ Len(Tail(todo)) = 0
      BY <1>1, <2>1, <2>2, HeadAndTail
    <2> QED BY <1>1, <2>2, <2>3
  <1>4. PromiseInv'
    BY <1>3 DEF PromiseInv
  <1>5. /\ inode \in [Inodes -> Entries] /\ content \in [Inodes -> Seq(Bytes)] /\ intact \subseteq Inodes
    BY DEF Inv, DiskInv, BookInv
  <1>6. /\ inode'[i] = e /\ content'[i] = x
        /\ \A j \in Inodes : j # i => inode'[j] = inode[j] /\ content'[j] = content[j]
    BY <1>2, <1>5
  <1>7. intact' \subseteq intact \cup {i} /\ (i \in intact' => op.good)
    BY <1>2, ZenonT(60) DEF write_inode
  <1>8. ASSUME NEW j \in intact', inode'[j].kind = "file", j # i PROVE read(j)' = content'[j]
    <2>1. j \in intact /\ j \in Inodes /\ inode[j].kind = "file" /\ content'[j] = content[j]
      BY <1>5, <1>6, <1>7, <1>8, ZenonT(60)
    <2>2. read(j)' = read(j)
      BY <1>2, <1>8, <2>1, ZenonT(60) DEF OthersUntouched, IsLive, IsFile
    <2> QED BY <2>1, <2>2 DEF ReadBack, IsFile
  <1>9. ASSUME i \in intact', e.kind = "file" PROVE read(i)' = content'[i]
    <2>1. Promised(data, todo, e, x)
      <3>1. 1 \in 1 .. Len(todo) /\ todo[1].write = "inode" /\ todo[1].entry = e
        BY <1>1, <1>2, <1>3
      <3> QED BY <1>1, <1>2, <1>7, <1>9, <3>1, ZenonT(60) DEF PromiseInv
    <2>2. \A s, p : ~Hits(todo[1], s, p)
      BY <1>1, <1>3 DEF Hits
    <2>3. ASSUME NEW s, NEW p, NEW v, Leaves(data, todo, s, p, v) PROVE data[s][p] = v
      <3>1. \A k \in 1 .. Len(todo) : k = 1
        BY <1>3
      <3> QED BY <2>2, <2>3, <3>1 DEF Leaves, Puts
    <2>4. ASSUME NEW y \in 1 .. e.len
          PROVE  data[e.start + (y - 1) \div SECTOR_SIZE][(y - 1) % SECTOR_SIZE] = x[y]
      BY <2>1, <2>3 DEF Promised
    <2>5. read(i)' = [y \in 1 .. e.len |-> data[e.start + (y - 1) \div SECTOR_SIZE][(y - 1) % SECTOR_SIZE]]
      BY <1>1, <1>6 DEF read
    <2>6. read(i)' = [y \in 1 .. e.len |-> x[y]]
      BY <2>4, <2>5
    <2>7. Len(x) = e.len
      BY <2>1 DEF Promised
    <2>8. x = [y \in 1 .. Len(x) |-> x[y]]
      OBVIOUS
    <2> QED BY <1>6, <2>6, <2>7, <2>8
  <1>10. ReadBack'
    BY <1>6, <1>8, <1>9 DEF ReadBack, IsFile
  <1> QED BY <1>4, <1>10
<0> QED
  <1> SUFFICES ASSUME Inv, PromiseInv, ReadBack, OthersUntouched, VolumeStep
               PROVE  PromiseInv' /\ ReadBack'
    OBVIOUS
  <1>1. ASSUME NEW parent \in Inodes, NEW name \in Names, NEW kind \in {"file", "dir"},
               create(parent, name, kind)
        PROVE  PromiseInv' /\ ReadBack'
    BY <1>1, <0>PromiseCreate
  <1>2. ASSUME NEW parent \in Inodes, NEW name \in Names, remove(parent, name)
        PROVE  PromiseInv' /\ ReadBack'
    BY <1>2, <0>PromiseRemove
  <1>3. ASSUME NEW i \in Inodes, NEW offset \in Nat, NEW bytes \in Seq(Bytes), write(i, offset, bytes)
        PROVE  PromiseInv' /\ ReadBack'
    <2>1. PICK x, good, u, e : Starts(i, x, good, u, e) /\ Overwrites(i, offset, bytes, x, good, u, e)
      BY <1>3, writeStarts
    <2>2. good => SourcesKept(u) /\ Promised(data, u, e, x)
      BY <2>1, <0>WritePromises, ZenonT(60)
    <2> QED BY <2>1, <2>2, <0>PromiseStarts
  <1>4. ASSUME NEW i \in Inodes, NEW len \in Nat, truncate(i, len)
        PROVE  PromiseInv' /\ ReadBack'
    <2>1. PICK x, good, u, e : Starts(i, x, good, u, e) /\ Truncates(i, len, x, good, u, e)
      BY <1>4, truncateStarts
    <2>2. good => SourcesKept(u) /\ Promised(data, u, e, x)
      BY <2>1, <0>TruncatePromises, ZenonT(60)
    <2> QED BY <2>1, <2>2, <0>PromiseStarts
  <1>5. CASE PatchSector \/ CopySector \/ ZeroTable \/ WriteSuperblock \/ write_inode
    BY <1>5, <0>PromisePatch, <0>PromiseCopy, <0>PromiseFormat, <0>PromiseInode
  <1>6. CASE Io \/ Crash
    <2>1. todo' = <<>> /\ UNCHANGED <<inode, data, content, intact>>
      BY <1>6 DEF Io, Crash
    <2>2. PromiseInv'
      BY <2>1 DEF PromiseInv
    <2> QED BY <2>1, <2>2, <0>ReadKept
  <1>7. CASE UNCHANGED vars
    <2>1. UNCHANGED <<inode, data, content, intact, todo, op>>
      BY <1>7 DEF vars
    <2>2. PromiseInv'
      BY <2>1 DEF PromiseInv
    <2> QED BY <2>1, <2>2, <0>ReadKept
  <1> QED BY <1>1, <1>2, <1>3, <1>4, <1>5, <1>6, <1>7, <0>PromiseMount DEF VolumeStep

\* For every volume, whatever was written, truncated, moved, cut short or
\* failed: a file whose writes all succeeded reads as what was written to it,
\* and until the first write into a sector of its own, as before.
THEOREM ReadBackHolds == StorageSpec => []ReadBack
<1>1. StorageInit => Inv /\ PromiseInv /\ ReadBack
  <2>1. StorageInit => PromiseInv /\ ReadBack
    BY ZenonT(60) DEF StorageInit, Init, PromiseInv, ReadBack
  <2> QED BY <2>1, InitSound
<1>2. Inv /\ PromiseInv /\ ReadBack /\ [StorageNext]_storageVars => (Inv /\ PromiseInv /\ ReadBack)'
  BY StepSound, StorageSteps, PromiseStep
<1> QED BY <1>1, <1>2, PTL DEF StorageSpec

-----------------------------------------------------------------------------
(* Boots *)

NewFile(name) == [Empty EXCEPT !.kind = "file", !.name = name, !.parent = Root]
Final == todo[Len(todo)].entry

\* The marker, and where the first boot puts it.
Marks(e) == e.kind # "free" /\ e.name = marker /\ e.parent = Root
MarkedIn(t) == {i \in Live(t) : Marks(t[i])}
Marked == MarkedIn(inode)
InFront(e) == Extent(e) \subseteq DATA_START .. DATA_START + sectors_for_len(Len(MARKER)) - 1
Whole == \E i \in Inodes : Marked = {i} /\ IsFile(i) /\ read(i) = MARKER
Bare == Live(inode) = {}

\* Where the marker is made, written, and on its own.
MarkerMade ==
    \/ /\ ~Idle /\ Marked = {} /\ (~cut => Bare)
       /\ op.inode # Root /\ op.good /\ Final = NewFile(marker)
    \/ /\ Idle
       /\ \E i \in Inodes : /\ Marked = {i} /\ inode[i] = NewFile(marker) /\ i \in intact
                            /\ ~cut => Live(inode) = {i}
MarkerFilled ==
    \E i \in Inodes :
       /\ Marked = {i} /\ IsFile(i) /\ (~cut => Live(inode) = {i})
       /\ Idle => i \in intact /\ content[i] = MARKER /\ (~cut => InFront(inode[i]))
       /\ ~Idle => /\ op.inode = i /\ op.good /\ op.expected = MARKER
                   /\ Marks(Final) /\ Final.kind = "file" /\ (~cut => InFront(Final))
OnlyMarker ==
    \E i \in Inodes : Live(inode) = {i} /\ IsFile(i) /\ Marks(inode[i]) /\ InFront(inode[i])
ReadmeMade ==
    \/ ~Idle /\ OnlyMarker /\ op.inode # Root /\ Final = NewFile(readme)
    \/ /\ Idle
       /\ \E i, j \in Inodes : /\ Live(inode) = {i, j} /\ i # j
                               /\ IsFile(i) /\ Marks(inode[i]) /\ InFront(inode[i])
                               /\ inode[j] = NewFile(readme)
MarkerKept == Whole /\ op.inode \notin Marked /\ (~Idle => ~Marks(Final))

Phases == {"off", "format", "look", "marker", "marker written", "readme", "readme made",
           "readme written", "up", "panicked"}

RunInv ==
    /\ boot \in Phases
    /\ cut \in BOOLEAN /\ formatted \in BOOLEAN
    /\ Idle => op.inode = 0
    /\ ~Idle => todo[Len(todo)].write = "inode"
    /\ boot # "format" =>
          op.inode # Root /\ \A k \in 1 .. Len(todo) : todo[k].write \notin {"table", "super"}
    /\ boot \in {"off", "look", "readme", "panicked"} => Idle
    /\ \A i, j \in Marked : i = j
    /\ magic /\ boot # "format" /\ ~cut => inode[Root].kind = "dir"
    /\ boot = "panicked" => panic = "io" \/ cut
PhaseInv ==
    /\ boot \in {"off", "look", "panicked"} /\ ~cut => Bare \/ Whole
    /\ boot = "format" => /\ Bare /\ (Idle => inode[Root].kind = "dir")
                          /\ ~Idle => op.inode = Root /\ Final = RootEntry
    /\ boot = "look" /\ formatted /\ ~cut => Bare
    /\ boot = "marker" => MarkerMade
    /\ boot = "marker written" => MarkerFilled
    /\ boot \in {"readme", "readme made", "readme written", "up"} => MarkerKept
    /\ boot = "readme" /\ ~cut => OnlyMarker
    /\ boot = "readme made" /\ ~cut => ReadmeMade
BootInv == RunInv /\ PhaseInv

\* An entry is written over another.
Replaced(t, n, i, e) == n[i] = e /\ \A j \in Inodes : j # i => n[j] = t[j]

\* It has more to write, or its last write is its inode.
Moves ==
    /\ ~Idle /\ todo' # <<>> /\ op' = op
    /\ todo'[Len(todo')].write = "inode" /\ todo'[Len(todo')].entry = Final
Lands ==
    /\ ~Idle /\ todo' = <<>> /\ op'.inode = 0
    /\ op.inode \in Inodes /\ Final \in Entries
    /\ inode' = [inode EXCEPT ![op.inode] = Final]
    /\ content' = [content EXCEPT ![op.inode] = op.expected]
    /\ op.good => op.inode \in intact'

-----------------------------------------------------------------------------

\* For every volume with room for the marker and README, whatever users do to
\* the files other than the marker, and wherever they or the first boot are
\* stopped outside the two windows: init does not panic on the volume it
\* finds, and a machine that is up has its marker whole.
THEOREM BootsAgainHolds == StorageSpec => []BootsAgain

<0>MarkerHeld.
      RootHolds(marker) = Marked
    BY DEF RootHolds, find_child, Children, Marked, MarkedIn, Marks, Live

<0>EntryWritten.
      ASSUME NEW t, NEW n, NEW i \in Inodes, i # Root, NEW e, Replaced(t, n, i, e)
      PROVE  /\ e.kind # "free" => Live(n) = Live(t) \cup {i}
             /\ Marks(e) => MarkedIn(n) = MarkedIn(t) \cup {i}
             /\ ~Marks(e) => MarkedIn(n) = MarkedIn(t) \ {i}
  <1> USE <0>EntryWritten
  <1>1. n[i] = e /\ \A j \in Inodes : j # i => n[j] = t[j]
    BY DEF Replaced
  <1>2. i \in 2 .. INODE_COUNT
    BY FsAssumption DEF Inodes, Root
  <1>3. \A j \in 2 .. INODE_COUNT : j \in Inodes
    BY FsAssumption DEF Inodes
  <1>4. \A j : j # i => (j \in Live(n) <=> j \in Live(t))
    BY <1>1, <1>3 DEF Live
  <1>5. \A j : j # i => (j \in MarkedIn(n) <=> j \in MarkedIn(t))
    BY <1>1, <1>3, <1>4, ZenonT(60) DEF MarkedIn, Live
  <1>6. i \in Live(n) <=> e.kind # "free"
    BY <1>1, <1>2 DEF Live
  <1>7. i \in MarkedIn(n) <=> Marks(e)
    BY <1>1, <1>6 DEF MarkedIn, Marks
  <1>8. e.kind # "free" => Live(n) = Live(t) \cup {i}
    BY <1>4, <1>6
  <1>9. Marks(e) => MarkedIn(n) = MarkedIn(t) \cup {i}
    BY <1>5, <1>7
  <1>10. ~Marks(e) => MarkedIn(n) = MarkedIn(t) \ {i}
    BY <1>5, <1>7
  <1> QED BY <1>8, <1>9, <1>10

<0>NewFiles.
      ASSUME NEW name \in Names
      PROVE  /\ NewFile(name) \in Entries /\ NewFile(name).kind = "file" /\ NewFile(name).name = name
             /\ NewFile(name).parent = Root /\ NewFile(name).count = 0 /\ NewFile(name).len = 0
             /\ NewFile(name).start = 0
  <1> USE <0>NewFiles
  <1> QED BY EmptyEntry, ZenonT(60) DEF NewFile, Empty, Entries

<0>Advances.
      ASSUME Inv, RunInv, SectorWrite
      PROVE  /\ Moves \/ Lands
             /\ boot # "format" =>
                   /\ magic' = magic /\ (Moves => inode' = inode)
                   /\ \A k \in 1 .. Len(todo') : todo'[k].write \notin {"table", "super"}
  <1> USE <0>Advances
  <1>1. todo # <<>> /\ todo' = Tail(todo)
    BY ZenonT(60) DEF SectorWrite, PatchSector, CopySector, ZeroTable, WriteSuperblock, write_inode, Idle
  <1>2. todo \in Seq(Steps(inode, op.inode))
    BY DEF Inv, TodoInv
  <1>3. PICK n \in Nat \ {0} :
           /\ n = Len(todo) /\ Head(todo) = todo[1] /\ 1 \in 1 .. n /\ todo' \in Seq(Steps(inode, op.inode))
           /\ Len(todo') = n - 1 /\ \A k \in 1 .. n - 1 : todo'[k] = todo[k + 1]
    BY <1>1, <1>2, HeadAndTail
  <1>4. todo[n].write = "inode"
    BY <1>1, <1>3 DEF RunInv, Idle
  <1>5. ASSUME boot # "format", NEW k \in 1 .. Len(todo')
        PROVE  todo'[k].write \notin {"table", "super"}
    <2>1. k \in 1 .. n - 1 /\ k + 1 \in 1 .. n
      BY <1>3
    <2> QED BY <1>3, <1>5, <2>1 DEF RunInv
  <1>6. CASE Head(todo).write = "inode"
    <2>1. write_inode
      BY <1>6, ZenonT(60) DEF SectorWrite, PatchSector, CopySector, ZeroTable, WriteSuperblock
    <2>2. n = 1
      BY <1>3, <1>6 DEF Inv, TodoInv
    <2>3. todo' = <<>>
      BY <1>3, <2>2
    <2>4. Final = Head(todo).entry /\ Final \in Entries /\ op.inode \in Inodes
      <3>1. Head(todo) \in Steps(inode, op.inode) /\ op.inode \in Inodes
        BY <1>1, FirstStep
      <3>2. Head(todo).entry \in Entries
        BY <1>6, <3>1, StepParts, ZenonT(60)
      <3> QED BY <1>3, <2>2, <3>1, <3>2 DEF Final
    <2>5. /\ inode' = [inode EXCEPT ![op.inode] = Final] /\ op' = NoOp /\ magic' = magic
          /\ content' = [content EXCEPT ![op.inode] = op.expected]
      BY <2>1, <2>4 DEF write_inode
    <2>6. op.good => op.inode \in intact'
      BY <2>1 DEF write_inode
    <2>7. Lands /\ ~Moves
      BY <1>1, <2>3, <2>4, <2>5, <2>6, ZenonT(60) DEF Lands, Moves, Idle, NoOp
    <2> QED BY <1>5, <2>5, <2>7
  <1>7. CASE Head(todo).write # "inode"
    <2>1. n # 1 /\ n - 1 \in 1 .. n - 1 /\ n - 1 + 1 = n
      BY <1>3, <1>4, <1>7
    <2>2. todo' # <<>> /\ todo'[Len(todo')] = todo[n]
      BY <1>3, <2>1
    <2>3. op' = op
      BY <1>7, ZenonT(60) DEF SectorWrite, PatchSector, CopySector, ZeroTable, WriteSuperblock, write_inode
    <2>4. Moves
      BY <1>1, <1>3, <1>4, <2>2, <2>3 DEF Moves, Final, Idle
    <2>5. ASSUME boot # "format" PROVE magic' = magic /\ inode' = inode
      <3>1. Head(todo).write \notin {"table", "super"}
        BY <1>3, <2>5 DEF RunInv
      <3>2. PatchSector \/ CopySector
        BY <1>7, <3>1, ZenonT(60) DEF SectorWrite, ZeroTable, WriteSuperblock, write_inode
      <3> QED BY <3>2 DEF PatchSector, CopySector
    <2> QED BY <1>5, <2>4, <2>5
  <1> QED BY <1>6, <1>7

\* What holds of every phase, after a write.
<0>RunOn.
      ASSUME Inv, RunInv, SectorWrite, boot # "format", \A i, j \in Marked' : i = j
      PROVE  RunInv'
  <1> USE <0>RunOn
  <1>1. UNCHANGED <<boot, formatted, panic, cut>> /\ todo # <<>>
    BY ZenonT(60) DEF SectorWrite, bootVars, PatchSector, CopySector, ZeroTable, WriteSuperblock, write_inode, Idle
  <1>2. /\ Moves \/ Lands
        /\ magic' = magic /\ (Moves => inode' = inode)
        /\ \A k \in 1 .. Len(todo') : todo'[k].write \notin {"table", "super"}
    BY <0>Advances
  <1>3. op.inode # Root /\ op'.inode # Root
    BY <1>2 DEF RunInv, Moves, Lands, Root
  <1>4. inode'[Root] = inode[Root]
    <2>1. CASE Moves
      BY <1>2, <2>1
    <2>2. CASE Lands
      <3>1. inode \in [Inodes -> Entries] /\ Root \in Inodes
        BY EmptyEntry DEF Inv, DiskInv
      <3> QED BY <1>3, <2>2, <3>1 DEF Lands
    <2> QED BY <1>2, <2>1, <2>2
  <1>5. Idle' => op'.inode = 0
    BY <1>2, ZenonT(60) DEF Moves, Lands, Idle
  <1>6. ~Idle' => todo'[Len(todo')].write = "inode"
    BY <1>2 DEF Moves, Lands, Idle
  <1>7. magic' /\ ~cut' => inode'[Root].kind = "dir"
    BY <1>1, <1>2, <1>4 DEF RunInv
  <1>8. boot' \notin {"off", "look", "readme", "panicked"}
    BY <1>1 DEF RunInv, Idle
  <1> QED BY <1>1, <1>2, <1>3, <1>5, <1>6, <1>7, <1>8, ZenonT(60) DEF RunInv

\* What a write to an inode other than the root does to the table.
<0>Landing.
      ASSUME Inv, Lands, op.inode # Root
      PROVE  /\ inode'[op.inode] = Final /\ \A j \in Inodes : j # op.inode => inode'[j] = inode[j]
             /\ Final.kind # "free" => Live(inode') = Live(inode) \cup {op.inode}
             /\ Marks(Final) => Marked' = Marked \cup {op.inode}
             /\ ~Marks(Final) => Marked' = Marked \ {op.inode}
             /\ content'[op.inode] = op.expected
  <1> USE <0>Landing
  <1>1. inode \in [Inodes -> Entries] /\ content \in [Inodes -> Seq(Bytes)]
    BY DEF Inv, DiskInv, BookInv
  <1>2. PICK i \in Inodes, e \in {Final}, n \in {inode'} :
           i = op.inode /\ i # Root /\ e = Final /\ n = inode' /\ n = [inode EXCEPT ![i] = e]
    BY ZenonT(60) DEF Lands
  <1>3. n[i] = e /\ \A j \in Inodes : j # i => n[j] = inode[j]
    BY <1>1, <1>2
  <1>5. /\ e.kind # "free" => Live(n) = Live(inode) \cup {i}
        /\ Marks(e) => MarkedIn(n) = MarkedIn(inode) \cup {i}
        /\ ~Marks(e) => MarkedIn(n) = MarkedIn(inode) \ {i}
    <2>1. i # Root /\ Replaced(inode, n, i, e)
      BY <1>2, <1>3 DEF Replaced
    <2> QED BY <2>1, <0>EntryWritten
  <1>4. content'[i] = op.expected
    BY <1>1, <1>2 DEF Lands
  <1> QED BY <1>2, <1>3, <1>4, <1>5, ZenonT(60) DEF Marked

\* The operation is on another file than the marker, and so is the marker kept.
<0>KeptOn.
      ASSUME Inv, RunInv, OthersUntouched, SectorWrite, boot # "format", MarkerKept
      PROVE  MarkerKept' /\ \A i, j \in Marked' : i = j
  <1> USE <0>KeptOn
  <1>1. (Moves \/ Lands) /\ (Moves => inode' = inode)
    BY <0>Advances
  <1>2. PICK i \in Inodes : Marked = {i} /\ IsFile(i) /\ read(i) = MARKER /\ i # op.inode
    BY DEF MarkerKept, Whole
  <1>3. inode'[i] = inode[i] /\ read(i)' = read(i)
    BY <1>2, ZenonT(60) DEF OthersUntouched, IsLive, IsFile
  <1>4. Marked' = Marked
    <2>1. CASE Moves
      BY <2>1, <0>Advances, ZenonT(60) DEF Marked
    <2>2. CASE Lands
      <3>1. op.inode # Root /\ ~Marks(Final)
        BY <2>2, ZenonT(60) DEF RunInv, MarkerKept, Lands
      <3> QED BY <1>2, <2>2, <3>1, <0>Landing, ZenonT(60)
    <2> QED BY <1>1, <2>1, <2>2
  <1>5. Whole'
    BY <1>2, <1>3, <1>4 DEF Whole, IsFile
  <1>6. op'.inode \notin Marked'
    <2>1. CASE Moves
      BY <1>4, <2>1 DEF MarkerKept, Moves
    <2>2. CASE Lands
      <3>1. op'.inode = 0 /\ 0 \notin Inodes
        BY <2>2, FsAssumption DEF Lands, Inodes
      <3> QED BY <1>2, <1>4, <3>1
    <2> QED BY <1>1, <2>1, <2>2
  <1>7. ~Idle' => ~Marks(Final')
    BY <1>1 DEF MarkerKept, Moves, Lands, Idle, Final
  <1>8. (~Idle => ~Marks(Final))'
    BY <1>7 DEF Marks
  <1> QED BY <1>2, <1>4, <1>5, <1>6, <1>8 DEF MarkerKept

<0>MadeOn.
      ASSUME Inv, RunInv, SectorWrite, boot # "format", MarkerMade
      PROVE  MarkerMade' /\ \A i, j \in Marked' : i = j
  <1> USE <0>MadeOn
  <1>1. Moves \/ Lands
    BY <0>Advances
  <1>2. /\ ~Idle /\ Marked = {} /\ (~cut => Bare) /\ op.inode # Root /\ op.good /\ Final = NewFile(marker)
    BY <1>1, ZenonT(60) DEF MarkerMade, Moves, Lands
  <1>3. cut' = cut
    BY DEF SectorWrite, bootVars
  <1>4. CASE Moves
    <2>1. inode' = inode /\ op' = op /\ ~Idle' /\ Final' = Final
      BY <1>4, <0>Advances, ZenonT(60) DEF Moves, Idle, Final
    <2>2. Marked' = {}
      BY <1>2, <2>1 DEF Marked
    <2>3. ~cut' => Bare'
      BY <1>2, <1>3, <2>1 DEF Bare
    <2>4. MarkerMade'
      BY <1>2, <2>1, <2>2, <2>3 DEF MarkerMade, NewFile, Empty
    <2> QED BY <2>2, <2>4
  <1>5. CASE Lands
    <2>1. Marks(NewFile(marker)) /\ NewFile(marker).kind # "free"
      BY <0>NewFiles, StorageAssumption DEF Marks
    <2>2. PICK i \in Inodes : i = op.inode
      BY <1>5 DEF Lands
    <2>3. inode'[i] = NewFile(marker) /\ Marked' = {i} /\ Live(inode') = Live(inode) \cup {i}
      BY <1>2, <1>5, <2>1, <2>2, <0>Landing, ZenonT(60)
    <2>4. i \in intact' /\ Idle'
      BY <1>2, <1>5, <2>2 DEF Lands, Idle
    <2>5. ~cut' => Live(inode') = {i}
      BY <1>2, <1>3, <2>3 DEF Bare
    <2>6. MarkerMade'
      BY <2>3, <2>4, <2>5 DEF MarkerMade, NewFile, Empty
    <2> QED BY <2>3, <2>6
  <1> QED BY <1>1, <1>4, <1>5

<0>FilledOn.
      ASSUME Inv, RunInv, SectorWrite, boot # "format", MarkerFilled
      PROVE  MarkerFilled' /\ \A i, j \in Marked' : i = j
  <1> USE <0>FilledOn
  <1>1. Moves \/ Lands
    BY <0>Advances
  <1>2. PICK i \in Inodes : /\ Marked = {i} /\ IsFile(i) /\ (~cut => Live(inode) = {i})
                            /\ op.inode = i /\ op.good /\ op.expected = MARKER /\ ~Idle
                            /\ Marks(Final) /\ Final.kind = "file" /\ (~cut => InFront(Final))
    BY <1>1, ZenonT(60) DEF MarkerFilled, Moves, Lands
  <1>3. cut' = cut
    BY DEF SectorWrite, bootVars
  <1>4. CASE Moves
    <2>1. inode' = inode /\ op' = op /\ ~Idle' /\ Final' = Final
      BY <1>4, <0>Advances, ZenonT(60) DEF Moves, Idle, Final
    <2>2. Marked' = {i} /\ IsFile(i)'
      <3>1. Marked = {i} /\ IsFile(i)
        BY <1>2, ZenonT(60)
      <3> QED BY <2>1, <3>1, ZenonT(60) DEF Marked, IsFile
    <2>3. Marks(Final)' /\ (~cut' => InFront(Final)')
      BY <1>2, <1>3, <2>1 DEF Marks, InFront
    <2>4. MarkerFilled'
      BY <1>2, <1>3, <2>1, <2>2, <2>3, ZenonT(60) DEF MarkerFilled
    <2> QED BY <2>2, <2>4
  <1>5. CASE Lands
    <2>1. op.inode # Root
      BY DEF RunInv
    <2>2. /\ inode'[i] = Final /\ Marked' = {i} /\ Live(inode') = Live(inode) \cup {i}
          /\ content'[i] = MARKER
      BY <1>2, <1>5, <2>1, <0>Landing, ZenonT(60)
    <2>3. i \in intact' /\ Idle'
      BY <1>2, <1>5 DEF Lands, Idle
    <2>4. ~cut' => Live(inode') = {i} /\ InFront(inode'[i])
      BY <1>2, <1>3, <2>2, ZenonT(60)
    <2>5. IsFile(i)'
      BY <1>2, <2>2 DEF IsFile
    <2>6. (~cut => InFront(inode[i]))'
      BY <2>4 DEF InFront
    <2>7. MarkerFilled'
      BY <2>2, <2>3, <2>4, <2>5, <2>6, ZenonT(60) DEF MarkerFilled
    <2> QED BY <2>2, <2>7
  <1> QED BY <1>1, <1>4, <1>5

<0>ReadmeOn.
      ASSUME Inv, RunInv, SectorWrite, boot # "format", MarkerKept, ReadmeMade
      PROVE  ReadmeMade'
  <1> USE <0>ReadmeOn
  <1>1. Moves \/ Lands
    BY <0>Advances
  <1>2. ~Idle /\ OnlyMarker /\ op.inode # Root /\ Final = NewFile(readme)
    BY <1>1 DEF ReadmeMade, Moves, Lands
  <1>3. CASE Moves
    <2>1. inode' = inode /\ op' = op /\ ~Idle' /\ Final' = Final
      BY <1>3, <0>Advances, ZenonT(60) DEF Moves, Idle, Final
    <2>2. OnlyMarker'
      BY <1>2, <2>1, ZenonT(60) DEF OnlyMarker, IsFile, Marks, InFront
    <2> QED BY <1>2, <2>1, <2>2 DEF ReadmeMade, NewFile, Empty
  <1>4. CASE Lands
    <2>1. PICK i \in Inodes : Live(inode) = {i} /\ IsFile(i) /\ Marks(inode[i]) /\ InFront(inode[i])
      BY <1>2 DEF OnlyMarker
    <2>2. NewFile(readme).kind # "free" /\ ~Marks(NewFile(readme))
      BY <0>NewFiles, StorageAssumption DEF Marks
    <2>3. PICK j \in Inodes : j = op.inode
      BY <1>4 DEF Lands
    <2>4. /\ inode'[j] = NewFile(readme) /\ Live(inode') = {i, j}
          /\ \A k \in Inodes : k # j => inode'[k] = inode[k]
      BY <1>2, <1>4, <2>1, <2>2, <2>3, <0>Landing, ZenonT(60)
    <2>5. i # j
      BY <2>1, <2>3 DEF MarkerKept, Marked, MarkedIn
    <2>6. inode'[i] = inode[i]
      BY <2>4, <2>5
    <2>7. IsFile(i)' /\ Marks(inode[i])' /\ InFront(inode[i])' /\ Idle'
      BY <1>4, <2>1, <2>6 DEF IsFile, Marks, InFront, Lands, Idle
    <2>8. inode'[j] = NewFile(readme)'
      BY <2>4 DEF NewFile, Empty
    <2> QED BY <2>4, <2>5, <2>7, <2>8, ZenonT(60) DEF ReadmeMade
  <1> QED BY <1>1, <1>3, <1>4

\* While the volume is formatted, no inode but the root's is written.
<0>FormatOn.
      ASSUME Inv, BootInv, SectorWrite, boot = "format"
      PROVE  BootInv'
  <1> USE <0>FormatOn
  <1>1. Moves \/ Lands
    BY <0>Advances DEF BootInv
  <1>2. Bare /\ op.inode = Root /\ Final = RootEntry
    BY <1>1 DEF BootInv, PhaseInv, Moves, Lands
  <1>3. inode \in [Inodes -> Entries] /\ Root \in Inodes
    BY EmptyEntry DEF Inv, DiskInv
  <1>4. UNCHANGED <<boot, formatted, panic, cut>>
    BY DEF SectorWrite, bootVars
  <1>5. ASSUME NEW i \in Live(inode') PROVE FALSE
    <2>1. i \in Inodes /\ i # Root /\ inode'[i].kind # "free"
      BY LiveInodes, ZenonT(60) DEF Live
    <2>2. inode'[i] = inode[i] \/ inode'[i] = Empty
      <3>1. CASE Lands
        BY <1>2, <1>3, <2>1, <3>1 DEF Lands
      <3>2. CASE ZeroTable
        BY <2>1, <3>2, ZenonT(60) DEF ZeroTable
      <3>3. CASE PatchSector \/ CopySector \/ WriteSuperblock
        BY <3>3 DEF PatchSector, CopySector, WriteSuperblock
      <3>4. CASE write_inode
        <4>1. inode' = [inode EXCEPT ![op.inode] = Head(todo).entry]
          BY <3>4, ZenonT(60) DEF write_inode
        <4> QED BY <1>2, <1>3, <2>1, <4>1
      <3> QED BY <3>1, <3>2, <3>3, <3>4 DEF SectorWrite
    <2> QED BY <1>2, <2>1, <2>2, EmptyEntry, ZenonT(60) DEF Bare, Live
  <1>6. Bare' /\ Marked' = {}
    BY <1>5 DEF Bare, Marked, MarkedIn
  <1>7. CASE Moves
    <2>1. op' = op /\ ~Idle' /\ Final' = Final /\ todo'[Len(todo')].write = "inode"
      BY <1>7 DEF Moves, Idle, Final
    <2>2. RunInv'
      BY <1>4, <1>6, <2>1, ZenonT(60) DEF BootInv, RunInv
    <2>3. PhaseInv'
      BY <1>2, <1>4, <1>6, <2>1 DEF PhaseInv, RootEntry, Empty
    <2> QED BY <2>2, <2>3 DEF BootInv
  <1>8. CASE Lands
    <2>1. op'.inode = 0 /\ Idle'
      BY <1>8 DEF Lands, Idle
    <2>2. inode'[Root].kind = "dir"
      BY <1>2, <1>3, <1>8, EmptyEntry DEF Lands
    <2>3. RunInv'
      BY <1>4, <1>6, <2>1, <2>2, ZenonT(60) DEF BootInv, RunInv, Idle
    <2>4. PhaseInv'
      BY <1>4, <1>6, <2>1, <2>2, ZenonT(60) DEF PhaseInv
    <2> QED BY <2>3, <2>4 DEF BootInv
  <1> QED BY <1>1, <1>7, <1>8

<0>SectorOn.
      ASSUME Inv, BootInv, OthersUntouched, SectorWrite
      PROVE  BootInv'
  <1> USE <0>SectorOn
  <1>1. CASE boot = "format"
    BY <1>1, <0>FormatOn
  <1>2. CASE boot # "format"
    <2>1. RunInv /\ PhaseInv /\ boot' = boot /\ cut' = cut /\ ~Idle
      BY ZenonT(60) DEF BootInv, SectorWrite, bootVars, PatchSector, CopySector, ZeroTable, WriteSuperblock, write_inode
    <2>2. boot \in {"marker", "marker written", "readme made", "readme written", "up"}
      BY <1>2, <2>1, ZenonT(60) DEF RunInv, Phases
    <2>3. CASE boot = "marker"
      <3>1. MarkerMade' /\ \A i, j \in Marked' : i = j
        BY <1>2, <2>1, <2>3, <0>MadeOn DEF PhaseInv
      <3>2. RunInv'
        BY <1>2, <2>1, <3>1, <0>RunOn
      <3> QED BY <2>1, <2>3, <3>1, <3>2, ZenonT(60) DEF BootInv, PhaseInv
    <2>4. CASE boot = "marker written"
      <3>1. MarkerFilled' /\ \A i, j \in Marked' : i = j
        BY <1>2, <2>1, <2>4, <0>FilledOn, ZenonT(60) DEF PhaseInv
      <3>2. RunInv'
        BY <1>2, <2>1, <3>1, <0>RunOn
      <3> QED BY <2>1, <2>4, <3>1, <3>2, ZenonT(60) DEF BootInv, PhaseInv
    <2>5. CASE boot \in {"readme made", "readme written", "up"}
      <3>1. MarkerKept
        BY <2>1, <2>5, ZenonT(60) DEF PhaseInv
      <3>2. MarkerKept' /\ \A i, j \in Marked' : i = j
        BY <1>2, <2>1, <3>1, <0>KeptOn
      <3>3. RunInv'
        BY <1>2, <2>1, <3>2, <0>RunOn
      <3>4. boot = "readme made" /\ ~cut => ReadmeMade'
        BY <1>2, <2>1, <3>1, <0>ReadmeOn, ZenonT(60) DEF PhaseInv
      <3> QED BY <2>1, <2>5, <3>2, <3>3, <3>4, ZenonT(60) DEF BootInv, PhaseInv
    <2> QED BY <2>2, <2>3, <2>4, <2>5, ZenonT(60)
  <1> QED BY <1>1, <1>2

<0>Quiet.
      ASSUME UNCHANGED <<inode, data, todo, op>>
      PROVE  /\ Bare' = Bare /\ Whole' = Whole /\ OnlyMarker' = OnlyMarker /\ MarkerKept' = MarkerKept
             /\ Marked' = Marked /\ Idle' = Idle
  <1> USE <0>Quiet
  <1>1. Marked' = Marked /\ Idle' = Idle /\ Bare' = Bare
    BY DEF Marked, Idle, Bare
  <1>2. Whole' = Whole
    BY <1>1, ZenonT(60) DEF Whole, IsFile, read
  <1>3. OnlyMarker' = OnlyMarker
    BY ZenonT(60) DEF OnlyMarker, IsFile, Marks, InFront
  <1>4. MarkerKept' = MarkerKept
    BY <1>1, <1>2, ZenonT(60) DEF MarkerKept, Marks, Final
  <1> QED BY <1>1, <1>2, <1>3, <1>4

<0>QuietRun.
      ASSUME RunInv, UNCHANGED <<magic, inode, data, todo, op, cut>>, formatted' \in BOOLEAN,
             boot = "format" => Idle /\ inode[Root].kind = "dir",
             boot' \in Phases \ {"format"}, boot' \in {"off", "look", "readme", "panicked"} => Idle,
             boot' = "panicked" => panic' = "io" \/ cut
      PROVE  RunInv'
  <1> USE <0>QuietRun
  <1>1. Marked' = Marked /\ Idle' = Idle
    BY <0>Quiet
  <1>2. op.inode # Root /\ \A k \in 1 .. Len(todo) : todo[k].write \notin {"table", "super"}
    <2>1. CASE boot = "format"
      BY <2>1 DEF RunInv, Idle, Root
    <2>2. CASE boot # "format"
      BY <2>2, ZenonT(60) DEF RunInv
    <2> QED BY <2>1, <2>2
  <1>3. magic /\ ~cut => inode[Root].kind = "dir"
    BY DEF RunInv
  <1> QED BY <1>1, <1>2, <1>3, ZenonT(60) DEF RunInv, Phases

\* A panic after a cut.
<0>PanicOn.
      ASSUME BootInv, NEW cause, Panic(cause), cut, Idle, boot # "format"
      PROVE  BootInv'
  <1> USE <0>PanicOn
  <1>1. /\ boot' = "panicked" /\ cut' = cut /\ formatted' = formatted
        /\ UNCHANGED <<magic, inode, data, todo, op>>
    BY DEF Panic, diskVars
  <1>2. RunInv'
    <2>1. formatted' \in BOOLEAN /\ boot' \in Phases \ {"format"}
      BY <1>1, ZenonT(60) DEF BootInv, RunInv, Phases
    <2> QED BY <1>1, <2>1, <0>QuietRun DEF BootInv
  <1>3. PhaseInv'
    BY <1>1, ZenonT(60) DEF PhaseInv
  <1> QED BY <1>2, <1>3 DEF BootInv

<0>FormattedOn.
      ASSUME BootInv, Formatted PROVE BootInv'
  <1> USE <0>FormattedOn
  <1>1. /\ boot = "format" /\ Idle /\ boot' = "look" /\ cut' = cut /\ formatted' = formatted
        /\ UNCHANGED <<magic, inode, data, todo, op>>
    BY DEF Formatted, Goto, diskVars
  <1>2. Bare /\ inode[Root].kind = "dir" /\ formatted \in BOOLEAN
    BY <1>1, ZenonT(60) DEF BootInv, PhaseInv, RunInv
  <1>3. RunInv'
    <2>1. formatted' \in BOOLEAN /\ boot' \in Phases \ {"format"}
      BY <1>1, <1>2 DEF Phases
    <2> QED BY <1>1, <1>2, <2>1, <0>QuietRun, ZenonT(60) DEF BootInv
  <1>4. Bare'
    BY <1>1, <1>2, <0>Quiet, ZenonT(60)
  <1>5. PhaseInv'
    BY <1>1, <1>4, ZenonT(60) DEF PhaseInv
  <1> QED BY <1>3, <1>5 DEF BootInv

<0>FindMarkerOn.
      ASSUME BootInv, FindMarker PROVE BootInv'
  <1> USE <0>FindMarkerOn
  <1>1. boot = "look" /\ Idle /\ op.inode = 0
    BY ZenonT(60) DEF FindMarker, BootInv, RunInv
  <1>2. PICK i \in Marked :
           IF inode[i].kind = "file" /\ read(i) = MARKER
           THEN Goto(AfterMarker) /\ UNCHANGED mounted /\ UNCHANGED diskVars
           ELSE Panic("corrupt")
    BY <0>MarkerHeld, ZenonT(60) DEF FindMarker
  <1>3. Marked = {i} /\ i \in Inodes /\ ~Bare
    BY <1>2, LiveInodes, ZenonT(60) DEF BootInv, RunInv, Marked, MarkedIn, Bare
  <1>4. CASE inode[i].kind = "file" /\ read(i) = MARKER
    <2>1. /\ boot' = AfterMarker /\ cut' = cut /\ formatted' = formatted
          /\ UNCHANGED <<magic, inode, data, todo, op>>
      BY <1>2, <1>4, ZenonT(60) DEF Goto, diskVars
    <2>2. boot' \in {"readme", "up"} /\ (boot' = "readme" => formatted)
      BY <2>1 DEF AfterMarker
    <2>3. MarkerKept
      <3>1. 0 \notin Inodes
        BY FsAssumption DEF Inodes
      <3> QED BY <1>1, <1>3, <1>4, <3>1, ZenonT(60) DEF MarkerKept, Whole, IsFile
    <2>4. boot' = "readme" => cut
      BY <1>1, <1>3, <2>2, ZenonT(60) DEF BootInv, PhaseInv
    <2>5. RunInv'
      <3>1. formatted' \in BOOLEAN /\ boot' \in Phases \ {"format"}
        BY <2>1, <2>2, ZenonT(60) DEF Phases, BootInv, RunInv
      <3> QED BY <1>1, <2>1, <2>2, <3>1, <0>QuietRun, ZenonT(60) DEF BootInv
    <2>6. MarkerKept'
      BY <2>1, <2>3, <0>Quiet
    <2>7. PhaseInv'
      BY <2>1, <2>2, <2>4, <2>6, ZenonT(60) DEF PhaseInv
    <2> QED BY <2>5, <2>7 DEF BootInv
  <1>5. CASE ~(inode[i].kind = "file" /\ read(i) = MARKER)
    <2>1. ~Whole
      BY <1>3, <1>5 DEF Whole, IsFile
    <2>2. cut
      BY <1>1, <1>3, <2>1 DEF BootInv, PhaseInv
    <2> QED BY <1>1, <1>2, <1>5, <2>2, <0>PanicOn
  <1> QED BY <1>4, <1>5

<0>MarkerWrittenOn.
      ASSUME BootInv, ReadBack, MarkerWritten PROVE BootInv'
  <1> USE <0>MarkerWrittenOn
  <1>1. /\ boot = "marker written" /\ Idle /\ boot' = AfterMarker /\ cut' = cut /\ formatted' = formatted
        /\ UNCHANGED <<magic, inode, data, todo, op>>
    BY ZenonT(60) DEF MarkerWritten, Goto, diskVars
  <1>2. PICK i \in Inodes : /\ Marked = {i} /\ IsFile(i) /\ (~cut => Live(inode) = {i})
                            /\ i \in intact /\ content[i] = MARKER /\ (~cut => InFront(inode[i]))
    BY <1>1, ZenonT(60) DEF BootInv, PhaseInv, MarkerFilled
  <1>3. read(i) = MARKER
    BY <1>2, ZenonT(60) DEF ReadBack
  <1>4. MarkerKept
    <2>1. 0 \notin Inodes /\ op.inode = 0
      <3>1. 0 \notin Inodes
        BY FsAssumption DEF Inodes
      <3>2. op.inode = 0
        BY <1>1, ZenonT(60) DEF BootInv, RunInv
      <3> QED BY <3>1, <3>2
    <2> QED BY <1>1, <1>2, <1>3, <2>1, ZenonT(60) DEF MarkerKept, Whole
  <1>5. ~cut => OnlyMarker
    BY <1>2, ZenonT(60) DEF OnlyMarker, Marked, MarkedIn
  <1>6. boot' \in {"readme", "up"}
    BY <1>1, ZenonT(60) DEF AfterMarker
  <1>7. RunInv'
    <2>1. formatted' \in BOOLEAN /\ boot' \in Phases \ {"format"}
      BY <1>1, <1>6, ZenonT(60) DEF Phases, BootInv, RunInv
    <2> QED BY <1>1, <1>6, <2>1, <0>QuietRun, ZenonT(60) DEF BootInv
  <1>8. MarkerKept' /\ (~cut' => OnlyMarker')
    BY <1>1, <1>4, <1>5, <0>Quiet, ZenonT(60)
  <1>9. PhaseInv'
    BY <1>6, <1>8, ZenonT(60) DEF PhaseInv
  <1> QED BY <1>7, <1>9 DEF BootInv

<0>ReadmeWrittenOn.
      ASSUME BootInv, ReadmeWritten PROVE BootInv'
  <1> USE <0>ReadmeWrittenOn
  <1>1. /\ boot = "readme written" /\ Idle /\ boot' = "up" /\ cut' = cut /\ formatted' = FALSE
        /\ UNCHANGED <<magic, inode, data, todo, op>>
    BY ZenonT(60) DEF ReadmeWritten, diskVars
  <1>2. RunInv'
    <2>1. formatted' \in BOOLEAN /\ boot' \in Phases \ {"format"}
      BY <1>1, ZenonT(60) DEF Phases
    <2> QED BY <1>1, <2>1, <0>QuietRun, ZenonT(60) DEF BootInv
  <1>3. MarkerKept'
    BY <1>1, <0>Quiet, ZenonT(60) DEF BootInv, PhaseInv
  <1>4. PhaseInv'
    BY <1>1, <1>3, ZenonT(60) DEF PhaseInv
  <1> QED BY <1>2, <1>4 DEF BootInv

\* The last of an operation's writes is its inode.
<0>StartEnds.
      ASSUME NEW i \in Inodes, NEW x, NEW g, NEW u \in Seq(Patch(inode, i) \cup Copy(inode, i)),
             NEW e \in Entries, Sound(inode, i, e), NEW w, w = u \o SetInode(e), Start(i, x, g, w)
      PROVE  /\ ~Idle' /\ todo'[Len(todo')].write = "inode" /\ Final' = e
             /\ op'.inode = i /\ op'.expected = x /\ op'.good = g
             /\ \A k \in 1 .. Len(todo') : todo'[k].write \notin {"table", "super"}
             /\ UNCHANGED <<magic, inode, data, content, intact>>
  <1> USE <0>StartEnds
  <1>1. /\ op'.inode = i /\ op'.expected = x /\ op'.good = g /\ todo' = w
        /\ UNCHANGED <<magic, inode, data, content, intact>>
    BY DEF Start
  <1>2. \A k \in 1 .. Len(w) : w[k].write \notin {"table", "super"}
    BY ThenInode, ZenonT(60)
  <1>3. PICK r : r = [write |-> "inode", entry |-> e] /\ w = u \o <<r>>
    BY ZenonT(60) DEF SetInode
  <1>4. Len(w) = Len(u) + 1 /\ Len(u) \in Nat /\ w[Len(u) + 1] = r
    BY ONLY <1>3
  <1>5. w # <<>> /\ w[Len(w)].write = "inode" /\ w[Len(w)].entry = e
    <2>1. w[Len(w)] = r /\ Len(w) # 0
      BY <1>4
    <2>2. r.write = "inode" /\ r.entry = e
      BY <1>3
    <2> QED BY <2>1, <2>2, ZenonT(60)
  <1> QED BY <1>1, <1>2, <1>5, ZenonT(60) DEF Idle, Final

<0>StartRun.
      ASSUME RunInv, boot # "format", UNCHANGED <<magic, inode, cut, formatted>>,
             boot' \in {"marker", "marker written", "readme made", "readme written", "up"},
             ~Idle', todo'[Len(todo')].write = "inode", op'.inode # Root,
             \A k \in 1 .. Len(todo') : todo'[k].write \notin {"table", "super"}
      PROVE  RunInv'
  <1> USE <0>StartRun
  <1>1. Marked' = Marked
    BY ZenonT(60) DEF Marked
  <1> QED BY <1>1, ZenonT(60) DEF RunInv, Phases

\* A file that does not bear the marker's name is not the marker.
<0>StartKept.
      ASSUME MarkerKept, NEW i \in Inodes, i \notin Marked, NEW e, ~Marks(e), op'.inode = i,
             Final' = e, UNCHANGED <<inode, data>>
      PROVE  MarkerKept'
  <1> USE <0>StartKept
  <1>1. Marked' = Marked
    BY DEF Marked
  <1>2. Whole'
    BY <1>1 DEF MarkerKept, Whole, IsFile, read
  <1>3. Marks(Final') <=> Marks(Final)'
    BY DEF Marks
  <1> QED BY <1>1, <1>2, <1>3 DEF MarkerKept

\* create's new entry.
<0>CreateStarts.
      ASSUME NEW parent \in Inodes, NEW name \in Names, NEW kind \in {"file", "dir"},
             create(parent, name, kind)
      PROVE  \E i \in Inodes, e \in Entries :
                /\ e = [Empty EXCEPT !.kind = kind, !.name = name, !.parent = parent]
                /\ IsAllocated(i) /\ i # Root /\ inode[i].kind = "free"
                /\ ~Idle' /\ todo'[Len(todo')].write = "inode" /\ Final' = e
                /\ op'.inode = i /\ op'.expected = <<>> /\ op'.good = TRUE
                /\ \A k \in 1 .. Len(todo') : todo'[k].write \notin {"table", "super"}
                /\ UNCHANGED <<magic, inode, data, content, intact>>
  <1> USE <0>CreateStarts
  <1>1. PICK e : e = [Empty EXCEPT !.kind = kind, !.name = name, !.parent = parent]
    OBVIOUS
  <1>2. PICK i \in Inodes : IsAllocated(i) /\ Start(i, <<>>, TRUE, SetInode(e))
    BY <1>1, ZenonT(60) DEF create
  <1>3. e \in Entries /\ e.start = 0 /\ e.count = 0 /\ e.len = 0
    BY <1>1, EmptyEntry, ZenonT(60) DEF Entries, Empty
  <1>4. i # Root /\ inode[i].kind = "free"
    BY <1>2 DEF IsAllocated, Root
  <1>5. Sound(inode, i, e)
    <2>1. Extent(e) = {}
      BY <1>3 DEF Extent
    <2>2. sectors_for_len(0) = 0
      <3>1. SECTOR_SIZE \in Nat \ {0}
        BY SectorsNeeded
      <3> QED BY <3>1 DEF sectors_for_len
    <2> QED BY ONLY <1>3, <1>4, <2>1, <2>2 DEF Sound
  <1>6. <<>> \in Seq(Patch(inode, i) \cup Copy(inode, i)) /\ SetInode(e) = <<>> \o SetInode(e)
    BY OnlyInode
  <1>7. PICK w : w = <<>> \o SetInode(e) /\ Start(i, <<>>, TRUE, w)
    BY <1>2, <1>6, ZenonT(60)
  <1>8. /\ ~Idle' /\ todo'[Len(todo')].write = "inode" /\ Final' = e
        /\ op'.inode = i /\ op'.expected = <<>> /\ op'.good = TRUE
        /\ \A k \in 1 .. Len(todo') : todo'[k].write \notin {"table", "super"}
        /\ UNCHANGED <<magic, inode, data, content, intact>>
    BY <1>3, <1>5, <1>6, <1>7, <0>StartEnds, ZenonT(60)
  <1> QED BY <1>1, <1>2, <1>3, <1>4, <1>8

\* write's and truncate's.
<0>FileStarts.
      ASSUME NEW i \in Inodes, NEW x, NEW good, NEW u, NEW e, Starts(i, x, good, u, e)
      PROVE  /\ i # Root /\ IsFile(i) /\ e.kind = "file" /\ e.name = inode[i].name /\ e.parent = inode[i].parent
             /\ ~Idle' /\ todo'[Len(todo')].write = "inode" /\ Final' = e
             /\ op'.inode = i /\ op'.expected = x /\ op'.good = good
             /\ \A k \in 1 .. Len(todo') : todo'[k].write \notin {"table", "super"}
             /\ UNCHANGED <<magic, inode, data, content, intact>>
  <1> USE <0>FileStarts
  <1>1. u \in Seq(Patch(inode, i) \cup Copy(inode, i)) /\ e \in Entries /\ Sound(inode, i, e)
    BY ZenonT(60) DEF Starts
  <1>2. PICK w : w = u \o SetInode(e) /\ Start(i, x, good, w)
    BY ZenonT(60) DEF Starts
  <1>3. /\ ~Idle' /\ todo'[Len(todo')].write = "inode" /\ Final' = e
        /\ op'.inode = i /\ op'.expected = x /\ op'.good = good
        /\ \A k \in 1 .. Len(todo') : todo'[k].write \notin {"table", "super"}
        /\ UNCHANGED <<magic, inode, data, content, intact>>
    BY <1>1, <1>2, <0>StartEnds, ZenonT(60)
  <1> QED BY <1>3, ZenonT(60) DEF Starts

<0>MountOn.
      ASSUME Inv, BootInv, Mount PROVE BootInv'
  <1> USE <0>MountOn
  <1>1. boot = "off" /\ Idle /\ boot # "format" /\ (~cut => Bare \/ Whole) /\ cut \in BOOLEAN
    BY ZenonT(60) DEF Mount, BootInv, RunInv, PhaseInv
  <1>2. CASE mount /\ magic /\ boot' = "look" /\ formatted' = ~magic /\ UNCHANGED <<panic, cut>>
    <2>1. UNCHANGED <<magic, inode, data, todo, op>>
      BY <1>2 DEF mount
    <2>2. formatted' = FALSE
      BY <1>2, ZenonT(60)
    <2>3. RunInv'
      <3>1. formatted' \in BOOLEAN /\ boot' \in Phases \ {"format"}
        BY <1>2, <2>2 DEF Phases
      <3> QED BY <1>1, <1>2, <2>1, <3>1, <0>QuietRun, ZenonT(60) DEF BootInv
    <2>4. Bare' = Bare /\ Whole' = Whole
      BY <2>1, <0>Quiet
    <2>5. PhaseInv'
      BY <1>1, <1>2, <2>2, <2>4, ZenonT(60) DEF PhaseInv
    <2> QED BY <2>3, <2>5 DEF BootInv
  <1>3. CASE mount /\ ~magic /\ boot' = "format" /\ formatted' = ~magic /\ UNCHANGED <<panic, cut>>
    <2>1. PICK w : w = [k \in 1 .. DATA_START |-> [write |-> "table", sector |-> k - 1]]
                         \o << [write |-> "super"] >> \o SetInode(RootEntry)
      BY ZenonT(60)
    <2>2. op'.inode = Root /\ todo' = w /\ inode' = inode
      <3>1. format
        BY <1>3 DEF mount
      <3> QED BY <2>1, <3>1, ZenonT(60) DEF format, Start
    <2>3. /\ w \in Seq(Steps(inode, Root)) /\ Len(w) = DATA_START + 2 /\ DATA_START \in Nat
          /\ \A k \in 1 .. DATA_START : w[k].write = "table"
          /\ w[DATA_START + 1].write = "super"
          /\ w[DATA_START + 2].write = "inode" /\ w[DATA_START + 2].entry = RootEntry
      BY <2>1, FormatWrites, ZenonT(60)
    <2>4. w # <<>> /\ w[Len(w)].write = "inode" /\ w[Len(w)].entry = RootEntry
      BY <2>3
    <2>5. ~Idle' /\ todo'[Len(todo')].write = "inode" /\ Final' = RootEntry
      BY <2>2, <2>4 DEF Idle, Final
    <2>6. Bare
      BY <1>3, LiveInodes DEF Inv, MagicInv, Blank, Bare, Live
    <2>7. Bare' /\ Marked' = {}
      BY <2>2, <2>6 DEF Bare, Marked, MarkedIn
    <2>8. RunInv'
      BY <1>1, <1>3, <2>5, <2>7, ZenonT(60) DEF RunInv, Phases
    <2>9. PhaseInv'
      BY <1>3, <2>2, <2>5, <2>7 DEF PhaseInv, RootEntry, Empty
    <2> QED BY <2>8, <2>9 DEF BootInv
  <1>4. CASE magic /\ inode[Root].kind # "dir" /\ Panic("corrupt")
    <2>1. cut
      BY <1>1, <1>4 DEF BootInv, RunInv
    <2> QED BY <1>1, <1>4, <2>1, <0>PanicOn
  <1> QED BY <1>2, <1>3, <1>4, ZenonT(60) DEF Mount

<0>CreateMarkerOn.
      ASSUME Inv, BootInv, CreateMarker PROVE BootInv'
  <1> USE <0>CreateMarkerOn
  <1>1. boot = "look" /\ Idle /\ boot # "format" /\ Marked = {}
    BY <0>MarkerHeld, ZenonT(60) DEF CreateMarker, BootInv, RunInv
  <1>2. ~cut => Bare
    BY <1>1 DEF BootInv, PhaseInv, Whole
  <1>3. CASE create(Root, marker, "file") /\ Goto("marker")
    <2>1. Root \in Inodes /\ marker \in Names
      BY EmptyEntry, StorageAssumption
    <2>2. PICK i \in Inodes, e \in Entries :
                /\ e = [Empty EXCEPT !.kind = "file", !.name = marker, !.parent = Root]
                /\ IsAllocated(i) /\ i # Root /\ inode[i].kind = "free"
                /\ ~Idle' /\ todo'[Len(todo')].write = "inode" /\ Final' = e
                /\ op'.inode = i /\ op'.expected = <<>> /\ op'.good = TRUE
                /\ \A k \in 1 .. Len(todo') : todo'[k].write \notin {"table", "super"}
                /\ UNCHANGED <<magic, inode, data, content, intact>>
      BY <1>3, <2>1, <0>CreateStarts, ZenonT(60)
    <2>3. boot' = "marker" /\ UNCHANGED <<formatted, panic, cut>>
      BY <1>3 DEF Goto
    <2>4. RunInv'
      BY <1>1, <2>2, <2>3, <0>StartRun DEF BootInv
    <2>5. Marked' = {} /\ Bare' = Bare
      BY <1>1, <2>2 DEF Marked, Bare
    <2>6. Final' = NewFile(marker)'
      BY <2>2 DEF NewFile, Empty
    <2>7. MarkerMade'
      BY <1>2, <2>2, <2>3, <2>5, <2>6 DEF MarkerMade
    <2> QED BY <2>3, <2>4, <2>7, ZenonT(60) DEF BootInv, PhaseInv
  <1>4. CASE (\A i \in 2 .. INODE_COUNT : IsLive(i)) /\ Panic("full")
    <2>1. 2 \in Live(inode)
      <3>1. 2 \in 2 .. INODE_COUNT
        BY StorageAssumption, FsAssumption
      <3> QED BY <1>4, <3>1 DEF Live, IsLive
    <2>2. cut
      BY <1>2, <2>1 DEF Bare
    <2> QED BY <1>1, <1>4, <2>2, <0>PanicOn
  <1> QED BY <1>3, <1>4 DEF CreateMarker

\* The first gap is where the file may go.
<0>RoomFor.
      ASSUME NEW i \in Inodes, NEW n \in Nat, NEW c \in Nat, find_extent(c, n, i)
      PROVE  Places(i, n) # {}
  <1> USE <0>RoomFor
  <1>1. CASE n > inode[i].count /\ n # 0
    <2>1. DATA_START \in Nat /\ c >= DATA_START /\ c + n <= SectorCount
      BY FirstSector DEF find_extent, Gap
    <2>2. c \in DataSectors
      BY <1>1, <2>1, FsAssumption DEF DataSectors
    <2> QED BY <1>1, <2>2, ZenonT(60) DEF Places
  <1>2. CASE ~(n > inode[i].count)
    BY <1>2 DEF Places
  <1>3. CASE n = 0 /\ n > inode[i].count
    <2>1. PICK m \in DataSectors : m = DATA_START
      BY FirstSector, FsAssumption DEF DataSectors
    <2>2. m \in Nat /\ DATA_START .. m - 1 = {}
      BY <2>1, FirstSector
    <2>3. Gap(m, n, i)
      <3>1. m >= DATA_START /\ m + n <= SectorCount /\ m .. m + n - 1 = {}
        BY <1>3, <2>1, <2>2, FsAssumption
      <3> QED BY <3>1 DEF Gap
    <2>4. find_extent(m, n, i)
      BY <2>2, <2>3 DEF find_extent
    <2> QED BY <1>3, <2>4 DEF Places
  <1> QED BY <1>1, <1>2, <1>3, ZenonT(60)

\* With one other file on the volume, the first gap is in front of it or behind it.
<0>RoomBehind.
      ASSUME NEW i \in Inodes, NEW n \in Nat, NEW k \in 2 .. INODE_COUNT, k # i, IsFile(k),
             inode[k] \in Entries, \A j \in 2 .. INODE_COUNT : j # i /\ IsFile(j) => j = k,
             NEW m \in Nat, Extent(inode[k]) \subseteq DATA_START .. DATA_START + m - 1,
             DATA_START + m + n <= SectorCount
      PROVE  Places(i, n) # {}
  <1> USE <0>RoomBehind
  <1>1. PICK D \in Nat : D = DATA_START
    BY FirstSector
  <1>2. D + n <= SectorCount /\ SectorCount \in Nat
    BY <1>1, FsAssumption
  <1>3. PICK s \in Nat, c \in Nat : s = inode[k].start /\ c = inode[k].count
    BY EntryParts
  <1>4. Extent(inode[k]) = s .. s + c - 1
    BY <1>3, ZenonT(60) DEF Extent
  <1>5. ASSUME NEW b \in Nat
        PROVE  Gap(b, n, i) <=> /\ b >= D /\ b + n <= SectorCount
                                /\ (s .. s + c - 1) \cap (b .. b + n - 1) = {}
    <2>1. inode[k].kind = "file" /\ \A j \in 2 .. INODE_COUNT : j # i /\ inode[j].kind = "file" => j = k
      BY ZenonT(60) DEF IsFile
    <2> QED BY <1>1, <1>4, <2>1, ZenonT(60) DEF Gap
  <1>6. CASE Gap(D, n, i)
    <2>1. DATA_START .. D - 1 = {}
      BY <1>1
    <2>2. find_extent(D, n, i)
      BY <1>6, <2>1 DEF find_extent
    <2> QED BY <2>2, <0>RoomFor
  <1>7. CASE ~Gap(D, n, i)
    <2>1. PICK x \in Nat : x \in s .. s + c - 1 /\ x \in D .. D + n - 1
      BY <1>2, <1>5, <1>7
    <2>2. s \in D .. D + m - 1 /\ s + c - 1 \in D .. D + m - 1
      <3>1. s \in s .. s + c - 1 /\ s + c - 1 \in s .. s + c - 1
        BY <2>1
      <3> QED BY <1>1, <1>4, <3>1, ZenonT(60)
    <2>3. PICK g \in Nat : g = s + c
      OBVIOUS
    <2>4. Gap(g, n, i)
      <3>1. g >= D /\ g + n <= SectorCount
        BY <1>1, <1>2, <2>2, <2>3
      <3>2. \A y \in s .. s + c - 1 : y \notin g .. g + n - 1
        BY <2>3
      <3> QED BY <1>5, <3>1, <3>2, ZenonT(60)
    <2>5. ASSUME NEW b \in D .. g - 1 PROVE ~Gap(b, n, i)
      <3>1. PICK y \in Nat : y = IF b < s THEN s ELSE b
        OBVIOUS
      <3>2. y \in s .. s + c - 1 /\ y \in b .. b + n - 1
        BY <2>1, <2>2, <2>3, <3>1
      <3> QED BY <1>5, <3>2
    <2>6. find_extent(g, n, i)
      BY <1>1, <2>4, <2>5 DEF find_extent
    <2> QED BY <2>6, <0>RoomFor
  <1> QED BY <1>6, <1>7

\* The first write to a new file.
<0>FirstWrite.
      ASSUME Inv, NEW i \in Inodes, IsFile(i), inode[i].count = 0, inode[i].len = 0, i \in intact,
             NEW text \in Seq(Bytes), NEW x, NEW good, NEW u, NEW e, Overwrites(i, 0, text, x, good, u, e)
      PROVE  /\ x = text /\ good
             /\ Gap(DATA_START, sectors_for_len(Len(text)), i) =>
                   Extent(e) \subseteq DATA_START .. DATA_START + sectors_for_len(Len(text)) - 1
  <1> USE <0>FirstWrite
  <1>1. PICK end, needed, len, start :
           /\ end = 0 + Len(text) /\ len = Larger(inode[i].len, end)
           /\ needed = sectors_for_len(end) /\ start \in Places(i, needed)
           /\ x = [y \in 1 .. len |-> IF 0 < y /\ y <= end THEN text[y - 0] ELSE Byte(content[i], y)]
           /\ good = (i \in intact /\ Spared(i, start, needed))
           /\ e = [Grown(inode[i], start, needed) EXCEPT !.len = len]
    BY DEF Overwrites
  <1>2. end = Len(text) /\ len = Len(text) /\ Len(text) \in Nat
    BY <1>1 DEF Larger
  <1>3. x = text
    <2>1. \A y \in 1 .. Len(text) : 0 < y /\ y <= end /\ y - 0 = y
      BY <1>2
    <2>2. x = [y \in 1 .. Len(text) |-> text[y]]
      BY <1>1, <1>2, <2>1
    <2> QED BY <2>2
  <1>4. inode[i] \in Entries /\ inode[i].start \in Nat /\ needed \in Nat
    <2>1. inode[i] \in Entries
      BY DEF Inv, DiskInv
    <2> QED BY <1>1, <1>2, <2>1, EntryParts, SectorsNeeded
  <1>5. Extent(inode[i]) = {}
    <2>1. inode[i].count = 0
      BY ZenonT(60)
    <2> QED BY ONLY <1>4, <2>1 DEF Extent
  <1>6. good
    BY <1>1, <1>5, ZenonT(60) DEF Spared
  <1>7. ASSUME Gap(DATA_START, needed, i)
        PROVE  Extent(e) \subseteq DATA_START .. DATA_START + needed - 1
    <2>1. CASE needed > 0
      <3>1. start \in DataSectors /\ find_extent(start, needed, i)
        BY <1>1, <2>1 DEF Places
      <3>2. start \in Nat /\ DATA_START \in Nat /\ start >= DATA_START
        BY <3>1, FirstSector, ZenonT(60) DEF find_extent, Gap
      <3>3. start = DATA_START
        BY ONLY <1>7, <3>1, <3>2 DEF find_extent
      <3>4. PICK h : h = Grown(inode[i], start, needed) /\ h = [inode[i] EXCEPT !.start = start, !.count = needed]
        BY <1>1, <2>1 DEF Grown
      <3>5. e = [h EXCEPT !.len = len]
        BY <1>1, <3>4
      <3>6. e.start = start /\ e.count = needed
        BY <1>4, <3>4, <3>5, ZenonT(60) DEF Entries
      <3> QED BY <3>3, <3>6, ZenonT(60) DEF Extent
    <2>2. CASE ~(needed > 0)
      <3>1. e = [inode[i] EXCEPT !.len = len]
        BY <1>1, <2>2 DEF Grown
      <3>2. e.start = inode[i].start /\ e.count = 0
        BY <1>4, <3>1, ZenonT(60) DEF Entries
      <3>3. Extent(e) = {}
        BY ONLY <1>4, <3>2 DEF Extent
      <3> QED BY <3>3, ZenonT(60)
    <2> QED BY <2>1, <2>2, ZenonT(60)
  <1> QED BY <1>1, <1>2, <1>3, <1>6, <1>7

\* Nothing but i is in the way of the first sectors.
<0>GapInFront.
      ASSUME NEW i \in Inodes, Live(inode) = {i}
      PROVE  Gap(DATA_START, sectors_for_len(Len(MARKER)), i)
  <1> USE <0>GapInFront
  <1>1. PICK m \in Nat, r \in Nat : /\ m = sectors_for_len(Len(MARKER)) /\ r = sectors_for_len(Len(README_TEXT))
                                   /\ DATA_START + m + r <= SectorCount /\ DATA_START \in Nat
    <2>1. Len(MARKER) \in Nat /\ Len(README_TEXT) \in Nat
      BY StorageAssumption
    <2> QED BY <2>1, SectorsNeeded, StorageAssumption, FirstSector
  <1>2. DATA_START >= DATA_START /\ DATA_START + m <= SectorCount
    BY <1>1, FsAssumption
  <1>3. \A j \in 2 .. INODE_COUNT : j # i => inode[j].kind = "free"
    BY DEF Live
  <1> QED BY <1>1, <1>2, <1>3 DEF Gap

<0>WriteMarkerOn.
      ASSUME Inv, BootInv, WriteMarker PROVE BootInv'
  <1> USE <0>WriteMarkerOn
  <1>1. boot = "marker" /\ Idle /\ boot # "format"
    BY ZenonT(60) DEF WriteMarker, Fill
  <1>2. PICK i \in RootHolds(marker) :
           \/ write(i, 0, MARKER) /\ Goto("marker written")
           \/ Places(i, sectors_for_len(Len(MARKER))) = {} /\ Panic("full")
    BY ZenonT(60) DEF WriteMarker, Fill
  <1>3. /\ i \in Inodes /\ Marked = {i} /\ inode[i] = NewFile(marker) /\ i \in intact
        /\ ~cut => Live(inode) = {i}
    <2>1. i \in Marked
      BY <1>2, <0>MarkerHeld, ZenonT(60)
    <2> QED BY <1>1, <2>1, ZenonT(60) DEF BootInv, PhaseInv, MarkerMade
  <1>4. /\ inode[i].kind = "file" /\ inode[i].count = 0 /\ inode[i].len = 0
        /\ inode[i].name = marker /\ inode[i].parent = Root
    BY <1>3, <0>NewFiles, StorageAssumption, ZenonT(60)
  <1>5. MARKER \in Seq(Bytes) /\ 0 \in Nat /\ sectors_for_len(Len(MARKER)) \in Nat /\ DATA_START \in Nat
    <2>1. MARKER \in Seq(Bytes) /\ Len(MARKER) \in Nat
      BY StorageAssumption
    <2> QED BY <2>1, SectorsNeeded, FirstSector
  <1>6. CASE write(i, 0, MARKER) /\ Goto("marker written")
    <2>1. PICK x, good, u, e : Starts(i, x, good, u, e) /\ Overwrites(i, 0, MARKER, x, good, u, e)
      BY <1>3, <1>5, <1>6, writeStarts, ZenonT(60)
    <2>2. /\ i # Root /\ IsFile(i) /\ e.kind = "file" /\ e.name = inode[i].name /\ e.parent = inode[i].parent
          /\ ~Idle' /\ todo'[Len(todo')].write = "inode" /\ Final' = e
          /\ op'.inode = i /\ op'.expected = x /\ op'.good = good
          /\ \A k \in 1 .. Len(todo') : todo'[k].write \notin {"table", "super"}
          /\ UNCHANGED <<magic, inode, data, content, intact>>
      BY <1>3, <2>1, <0>FileStarts, ZenonT(60)
    <2>3. /\ x = MARKER /\ good
          /\ Gap(DATA_START, sectors_for_len(Len(MARKER)), i) =>
                Extent(e) \subseteq DATA_START .. DATA_START + sectors_for_len(Len(MARKER)) - 1
      BY <1>3, <1>4, <1>5, <2>1, <0>FirstWrite, ZenonT(60) DEF IsFile
    <2>4. boot' = "marker written" /\ UNCHANGED <<formatted, panic, cut>>
      BY <1>6, ZenonT(60) DEF Goto
    <2>5. RunInv'
      BY <1>1, <2>2, <2>4, <0>StartRun, ZenonT(60) DEF BootInv
    <2>6. Marked' = {i} /\ IsFile(i)' /\ (~cut' => Live(inode') = {i})
      BY <1>3, <2>2, <2>4, ZenonT(60) DEF Marked, IsFile
    <2>7. ~cut' => InFront(e)
      BY <1>3, <2>3, <2>4, <0>GapInFront, ZenonT(60) DEF InFront
    <2>8. Marks(Final)' /\ (~cut' => InFront(Final)')
      BY <1>4, <2>2, <2>7, ZenonT(60) DEF Marks, InFront
    <2>9. MarkerFilled'
      BY <1>3, <2>2, <2>3, <2>6, <2>8, ZenonT(60) DEF MarkerFilled
    <2> QED BY <2>4, <2>5, <2>9, ZenonT(60) DEF BootInv, PhaseInv
  <1>7. CASE Places(i, sectors_for_len(Len(MARKER))) = {} /\ Panic("full")
    <2>1. ASSUME ~cut PROVE FALSE
      <3>1. Gap(DATA_START, sectors_for_len(Len(MARKER)), i)
        BY <1>3, <2>1, <0>GapInFront
      <3>2. find_extent(DATA_START, sectors_for_len(Len(MARKER)), i)
        <4>1. DATA_START .. DATA_START - 1 = {}
          BY <1>5
        <4> QED BY <3>1, <4>1 DEF find_extent
      <3> QED BY <1>3, <1>5, <1>7, <3>2, <0>RoomFor
    <2> QED BY <1>1, <1>7, <2>1, <0>PanicOn
  <1> QED BY <1>2, <1>6, <1>7, ZenonT(60)

\* The entries of the root that are called README.
<0>ReadmesNotMarked.
      ASSUME NEW i \in RootHolds(readme)
      PROVE  /\ i \in Inodes /\ i \in Live(inode) /\ inode[i].name = readme
             /\ ~Marks(inode[i]) /\ i \notin Marked
  <1> USE <0>ReadmesNotMarked
  <1>1. i \in Inodes
    BY ChildrenInodes DEF RootHolds
  <1>2. i \in Live(inode) /\ inode[i].name = readme
    BY DEF RootHolds, find_child, Children, Live
  <1> QED BY <1>1, <1>2, StorageAssumption, ZenonT(60) DEF Marks, Marked, MarkedIn

<0>SeedReadmeOn.
      ASSUME Inv, BootInv, SeedReadme PROVE BootInv'
  <1> USE <0>SeedReadmeOn
  <1>1. boot = "readme" /\ Idle /\ boot # "format" /\ MarkerKept /\ (~cut => OnlyMarker)
    BY ZenonT(60) DEF SeedReadme, BootInv, RunInv, PhaseInv
  <1>2. ASSUME NEW i \in RootHolds(readme) PROVE cut
    <2>1. i \in Live(inode) /\ ~Marks(inode[i])
      BY <0>ReadmesNotMarked
    <2> QED BY <1>1, <2>1 DEF OnlyMarker
  <1>3. CASE create(Root, readme, "file") /\ Goto("readme made")
    <2>1. Root \in Inodes /\ readme \in Names
      BY EmptyEntry, StorageAssumption
    <2>2. PICK i \in Inodes, e \in Entries :
                /\ e = [Empty EXCEPT !.kind = "file", !.name = readme, !.parent = Root]
                /\ IsAllocated(i) /\ i # Root /\ inode[i].kind = "free"
                /\ ~Idle' /\ todo'[Len(todo')].write = "inode" /\ Final' = e
                /\ op'.inode = i /\ op'.expected = <<>> /\ op'.good = TRUE
                /\ \A k \in 1 .. Len(todo') : todo'[k].write \notin {"table", "super"}
                /\ UNCHANGED <<magic, inode, data, content, intact>>
      BY <1>3, <2>1, <0>CreateStarts, ZenonT(60)
    <2>3. boot' = "readme made" /\ UNCHANGED <<formatted, panic, cut>>
      BY <1>3, ZenonT(60) DEF Goto
    <2>4. RunInv'
      BY <1>1, <2>2, <2>3, <0>StartRun, ZenonT(60) DEF BootInv
    <2>5. e = NewFile(readme) /\ ~Marks(e)
      <3>1. e = NewFile(readme)
        BY <2>2 DEF NewFile
      <3> QED BY <2>1, <3>1, <0>NewFiles, StorageAssumption DEF Marks
    <2>6. i \notin Marked
      BY <2>2 DEF Marked, MarkedIn, Marks
    <2>7. MarkerKept'
      BY <1>1, <2>2, <2>5, <2>6, <0>StartKept
    <2>8. ASSUME ~cut' PROVE ReadmeMade'
      <3>1. OnlyMarker
        BY <1>1, <2>3, <2>8, ZenonT(60)
      <3>2. OnlyMarker'
        BY <2>2, <3>1 DEF OnlyMarker, IsFile, Marks, InFront
      <3>3. Final' = NewFile(readme)'
        BY <2>2, <2>5 DEF NewFile, Empty
      <3> QED BY <2>2, <3>2, <3>3 DEF ReadmeMade
    <2> QED BY <2>3, <2>4, <2>7, <2>8, ZenonT(60) DEF BootInv, PhaseInv
  <1>4. CASE \E i \in RootHolds(readme) : truncate(i, 0) /\ Goto("readme made")
    <2>1. PICK i \in RootHolds(readme) : truncate(i, 0) /\ Goto("readme made")
      BY <1>4, ZenonT(60)
    <2>2. i \in Inodes /\ ~Marks(inode[i]) /\ i \notin Marked /\ cut
      BY <1>2, <2>1, <0>ReadmesNotMarked, ZenonT(60)
    <2>3. 0 \in Nat
      OBVIOUS
    <2>4. PICK x, good, u, e : Starts(i, x, good, u, e)
      BY <2>1, <2>2, <2>3, truncateStarts, ZenonT(60)
    <2>5. /\ i # Root /\ IsFile(i) /\ e.kind = "file" /\ e.name = inode[i].name /\ e.parent = inode[i].parent
          /\ ~Idle' /\ todo'[Len(todo')].write = "inode" /\ Final' = e
          /\ op'.inode = i /\ op'.expected = x /\ op'.good = good
          /\ \A k \in 1 .. Len(todo') : todo'[k].write \notin {"table", "super"}
          /\ UNCHANGED <<magic, inode, data, content, intact>>
      BY <2>2, <2>4, <0>FileStarts, ZenonT(60)
    <2>6. boot' = "readme made" /\ UNCHANGED <<formatted, panic, cut>>
      BY <2>1, ZenonT(60) DEF Goto
    <2>7. RunInv'
      BY <1>1, <2>5, <2>6, <0>StartRun, ZenonT(60) DEF BootInv
    <2>8. ~Marks(e)
      BY <2>2, <2>5, ZenonT(60) DEF Marks, IsFile
    <2>9. MarkerKept'
      BY <1>1, <2>2, <2>5, <2>8, <0>StartKept, ZenonT(60)
    <2> QED BY <2>2, <2>6, <2>7, <2>9, ZenonT(60) DEF BootInv, PhaseInv
  <1>5. CASE \E i \in RootHolds(readme) : Panic("corrupt")
    BY <1>1, <1>2, <1>5, <0>PanicOn
  <1>6. CASE (\A i \in 2 .. INODE_COUNT : IsLive(i)) /\ Panic("full")
    <2>1. 2 \in Live(inode) /\ 3 \in Live(inode)
      <3>1. 2 \in 2 .. INODE_COUNT /\ 3 \in 2 .. INODE_COUNT
        BY StorageAssumption, FsAssumption
      <3> QED BY <1>6, <3>1 DEF Live, IsLive
    <2>2. cut
      BY <1>1, <2>1 DEF OnlyMarker
    <2> QED BY <1>1, <1>6, <2>2, <0>PanicOn
  <1> QED BY <1>3, <1>4, <1>5, <1>6, ZenonT(60) DEF SeedReadme

<0>WriteReadmeOn.
      ASSUME Inv, BootInv, WriteReadme PROVE BootInv'
  <1> USE <0>WriteReadmeOn
  <1>1. boot = "readme made" /\ Idle /\ boot # "format" /\ MarkerKept
    BY ZenonT(60) DEF WriteReadme, Fill, BootInv, PhaseInv
  <1>2. PICK i \in RootHolds(readme) :
           \/ write(i, 0, README_TEXT) /\ Goto("readme written")
           \/ Places(i, sectors_for_len(Len(README_TEXT))) = {} /\ Panic("full")
    BY ZenonT(60) DEF WriteReadme, Fill
  <1>3. i \in Inodes /\ i \in Live(inode) /\ ~Marks(inode[i]) /\ i \notin Marked
    BY <1>2, <0>ReadmesNotMarked, ZenonT(60)
  <1>4. README_TEXT \in Seq(Bytes) /\ 0 \in Nat
    BY StorageAssumption
  <1>5. CASE write(i, 0, README_TEXT) /\ Goto("readme written")
    <2>1. PICK x, good, u, e : Starts(i, x, good, u, e)
      BY <1>3, <1>4, <1>5, writeStarts, ZenonT(60)
    <2>2. /\ i # Root /\ IsFile(i) /\ e.kind = "file" /\ e.name = inode[i].name /\ e.parent = inode[i].parent
          /\ ~Idle' /\ todo'[Len(todo')].write = "inode" /\ Final' = e
          /\ op'.inode = i /\ op'.expected = x /\ op'.good = good
          /\ \A k \in 1 .. Len(todo') : todo'[k].write \notin {"table", "super"}
          /\ UNCHANGED <<magic, inode, data, content, intact>>
      BY <1>3, <2>1, <0>FileStarts, ZenonT(60)
    <2>3. boot' = "readme written" /\ UNCHANGED <<formatted, panic, cut>>
      BY <1>5, ZenonT(60) DEF Goto
    <2>4. RunInv'
      BY <1>1, <2>2, <2>3, <0>StartRun, ZenonT(60) DEF BootInv
    <2>5. ~Marks(e)
      BY <1>3, <2>2, ZenonT(60) DEF Marks, IsFile
    <2>6. MarkerKept'
      BY <1>1, <1>3, <2>2, <2>5, <0>StartKept, ZenonT(60)
    <2> QED BY <2>3, <2>4, <2>6, ZenonT(60) DEF BootInv, PhaseInv
  <1>6. CASE Places(i, sectors_for_len(Len(README_TEXT))) = {} /\ Panic("full")
    <2>1. ASSUME ~cut PROVE FALSE
      <3>1. PICK k \in Inodes, j \in Inodes :
               /\ Live(inode) = {k, j} /\ k # j /\ IsFile(k) /\ Marks(inode[k]) /\ InFront(inode[k])
               /\ inode[j] = NewFile(readme)
        BY <1>1, <2>1, ZenonT(60) DEF BootInv, PhaseInv, ReadmeMade
      <3>2. i = j
        BY <1>3, <3>1
      <3>3. PICK m \in Nat, r \in Nat : /\ m = sectors_for_len(Len(MARKER)) /\ r = sectors_for_len(Len(README_TEXT))
                                       /\ DATA_START + m + r <= SectorCount
        <4>1. Len(MARKER) \in Nat /\ Len(README_TEXT) \in Nat
          BY StorageAssumption
        <4> QED BY <4>1, SectorsNeeded, StorageAssumption
      <3>4. Extent(inode[k]) \subseteq DATA_START .. DATA_START + m - 1
        BY <3>1, <3>3 DEF InFront
      <3>5. k \in 2 .. INODE_COUNT /\ inode[k] \in Entries
        BY <3>1 DEF Live, Inv, DiskInv
      <3>6. ASSUME NEW l \in 2 .. INODE_COUNT, l # i, IsFile(l) PROVE l = k
        <4>1. l \in Live(inode)
          BY <3>6, ZenonT(60) DEF Live, IsFile
        <4> QED BY <3>1, <3>2, <3>6, <4>1
      <3>7. Places(i, r) # {}
        BY <1>3, <3>1, <3>2, <3>3, <3>4, <3>5, <3>6, <0>RoomBehind, ZenonT(60)
      <3> QED BY <1>6, <3>3, <3>7
    <2> QED BY <1>1, <1>6, <2>1, <0>PanicOn, ZenonT(60)
  <1> QED BY <1>2, <1>5, <1>6, ZenonT(60)

\* A user who works on another file leaves the marker alone.
<0>UserOn.
      ASSUME Inv, BootInv, UserStep, ~touched' PROVE BootInv'
  <1> USE <0>UserOn
  <1>1. boot = "up" /\ boot # "format" /\ MarkerKept /\ boot' = boot /\ UNCHANGED <<formatted, panic, cut>>
    BY ZenonT(60) DEF UserStep, BootInv, PhaseInv
  <1>2. Kinds \subseteq {"file", "dir"}
    BY FsAssumption
  <1>3. ASSUME NEW i \in Inodes, NEW e, i # Root, i \notin Marked, ~Marks(e),
               ~Idle', todo'[Len(todo')].write = "inode", Final' = e, op'.inode = i,
               \A k \in 1 .. Len(todo') : todo'[k].write \notin {"table", "super"},
               UNCHANGED <<magic, inode, data>>
        PROVE  BootInv'
    <2>1. RunInv'
      BY <1>1, <1>3, <0>StartRun, ZenonT(60) DEF BootInv
    <2>2. MarkerKept'
      BY <1>1, <1>3, <0>StartKept, ZenonT(60)
    <2> QED BY <1>1, <2>1, <2>2, ZenonT(60) DEF BootInv, PhaseInv
  <1>4. CASE \E p \in Inodes, n \in Names, k \in Kinds :
                create(p, n, k) /\ Touches(p = Root /\ n = marker)
    <2>1. PICK p \in Inodes, n \in Names, k \in Kinds :
             create(p, n, k) /\ Touches(p = Root /\ n = marker)
      BY <1>4
    <2>2. k \in {"file", "dir"} /\ ~(p = Root /\ n = marker)
      BY <1>2, <2>1, ZenonT(60) DEF Touches
    <2>3. PICK i \in Inodes, e \in Entries :
                /\ e = [Empty EXCEPT !.kind = k, !.name = n, !.parent = p]
                /\ IsAllocated(i) /\ i # Root /\ inode[i].kind = "free"
                /\ ~Idle' /\ todo'[Len(todo')].write = "inode" /\ Final' = e
                /\ op'.inode = i /\ op'.expected = <<>> /\ op'.good = TRUE
                /\ \A m \in 1 .. Len(todo') : todo'[m].write \notin {"table", "super"}
                /\ UNCHANGED <<magic, inode, data, content, intact>>
      BY <2>1, <2>2, <0>CreateStarts, ZenonT(60)
    <2>4. i \notin Marked
      BY <2>3 DEF Marked, MarkedIn, Marks
    <2>5. ~Marks(e)
      <3>1. e.name = n /\ e.parent = p
        BY <2>3 DEF Empty
      <3> QED BY <2>2, <3>1 DEF Marks
    <2> QED BY <1>3, <2>3, <2>4, <2>5
  <1>5. CASE \E p \in Inodes, n \in Names : remove(p, n) /\ Touches(p = Root /\ n = marker)
    <2>1. PICK p \in Inodes, n \in Names : remove(p, n) /\ ~(p = Root /\ n = marker)
      BY <1>5, ZenonT(60) DEF Touches
    <2>2. PICK i \in find_child(p, n) : Start(i, <<>>, TRUE, SetInode(Empty))
      BY <2>1, ZenonT(60) DEF remove
    <2>3. i \in Inodes /\ i # Root /\ i \notin Marked
      <3>1. i \in Inodes
        BY <2>2, ChildrenInodes
      <3>2. i \in Live(inode) /\ inode[i].name = n /\ inode[i].parent = p
        BY <2>2, ZenonT(60) DEF find_child, Children, Live
      <3> QED BY <2>1, <3>1, <3>2, LiveInodes, ZenonT(60) DEF Marked, MarkedIn, Marks
    <2>4. Empty \in Entries /\ Sound(inode, i, Empty) /\ ~Marks(Empty)
      BY EmptyEntry DEF Sound, Marks
    <2>5. <<>> \in Seq(Patch(inode, i) \cup Copy(inode, i)) /\ SetInode(Empty) = <<>> \o SetInode(Empty)
      BY OnlyInode
    <2>6. PICK w : w = <<>> \o SetInode(Empty) /\ Start(i, <<>>, TRUE, w)
      BY <2>2, <2>5, ZenonT(60)
    <2>7. /\ ~Idle' /\ todo'[Len(todo')].write = "inode" /\ Final' = Empty
          /\ op'.inode = i /\ op'.expected = <<>> /\ op'.good = TRUE
          /\ \A m \in 1 .. Len(todo') : todo'[m].write \notin {"table", "super"}
          /\ UNCHANGED <<magic, inode, data, content, intact>>
      BY <2>3, <2>4, <2>5, <2>6, <0>StartEnds, ZenonT(60)
    <2> QED BY <1>3, <2>3, <2>4, <2>7, ZenonT(60)
  <1>6. ASSUME NEW i \in Inodes, i \notin Marked, NEW x, NEW good, NEW u, NEW e,
               Starts(i, x, good, u, e)
        PROVE  BootInv'
    <2>1. /\ i # Root /\ IsFile(i) /\ e.kind = "file" /\ e.name = inode[i].name /\ e.parent = inode[i].parent
          /\ ~Idle' /\ todo'[Len(todo')].write = "inode" /\ Final' = e
          /\ op'.inode = i /\ op'.expected = x /\ op'.good = good
          /\ \A k \in 1 .. Len(todo') : todo'[k].write \notin {"table", "super"}
          /\ UNCHANGED <<magic, inode, data, content, intact>>
      BY <1>6, <0>FileStarts, ZenonT(60)
    <2>2. ~Marks(e)
      <3>1. i \in Live(inode)
        BY <2>1, FsAssumption DEF IsFile, Live, Inodes, Root
      <3> QED BY <1>6, <2>1, <3>1, ZenonT(60) DEF Marked, MarkedIn, Marks, IsFile
    <2> QED BY <1>3, <1>6, <2>1, <2>2, ZenonT(60)
  <1>7. CASE \E i \in Inodes :
                /\ \/ \E w \in Writes : write(i, w.offset, w.bytes)
                   \/ \E len \in Lengths : truncate(i, len)
                /\ Touches(i \in RootHolds(marker))
    <2>1. PICK i \in Inodes : /\ i \notin Marked
                              /\ \/ \E w \in Writes : write(i, w.offset, w.bytes)
                                 \/ \E len \in Lengths : truncate(i, len)
      BY <1>7, <0>MarkerHeld, ZenonT(60) DEF Touches
    <2>2. CASE \E w \in Writes : write(i, w.offset, w.bytes)
      <3>1. PICK w \in Writes : write(i, w.offset, w.bytes)
        BY <2>2
      <3>2. PICK offset \in Nat, bytes \in Seq(Bytes) : offset = w.offset /\ bytes = w.bytes
        BY FsAssumption
      <3>3. write(i, offset, bytes)
        BY <3>1, <3>2
      <3>4. PICK x, good, u, e : Starts(i, x, good, u, e)
        BY <3>3, writeStarts
      <3> QED BY <1>6, <2>1, <3>4
    <2>3. CASE \E len \in Lengths : truncate(i, len)
      <3>1. PICK len \in Nat : truncate(i, len)
        BY <2>3, FsAssumption
      <3>2. PICK x, good, u, e : Starts(i, x, good, u, e)
        BY <3>1, truncateStarts
      <3> QED BY <1>6, <2>1, <3>2
    <2> QED BY <2>1, <2>2, <2>3
  <1> QED BY <1>4, <1>5, <1>7, ZenonT(60) DEF UserStep

\* Outside the two windows the volume is empty or has its marker.
<0>Survives.
      ASSUME BootInv, ReadBack, ~cut, ~Window
      PROVE  (Bare \/ Whole) /\ (magic => inode[Root].kind = "dir")
  <1> USE <0>Survives
  <1>1. RunInv /\ PhaseInv /\ boot \in Phases
    BY ZenonT(60) DEF BootInv, RunInv
  <1>2. Bare \/ Whole
    <2>1. CASE boot \in {"off", "look", "panicked", "format"}
      BY <1>1, <2>1, ZenonT(60) DEF PhaseInv
    <2>2. CASE boot = "marker"
      BY <1>1, <2>2, ZenonT(60) DEF PhaseInv, MarkerMade, Window
    <2>3. CASE boot = "marker written"
      <3>1. PICK i \in Inodes : Marked = {i} /\ IsFile(i) /\ i \in intact /\ content[i] = MARKER
        BY <1>1, <2>3, ZenonT(60) DEF PhaseInv, MarkerFilled, Window
      <3> QED BY <3>1 DEF ReadBack, Whole
    <2>4. CASE boot \in {"readme", "readme made", "readme written", "up"}
      BY <1>1, <2>4, ZenonT(60) DEF PhaseInv, MarkerKept
    <2> QED BY <1>1, <2>1, <2>2, <2>3, <2>4, ZenonT(60) DEF Phases
  <1>3. magic => inode[Root].kind = "dir"
    BY <1>1, ZenonT(60) DEF RunInv, Window
  <1> QED BY <1>2, <1>3

<0>FailureOn.
      ASSUME BootInv, ReadBack, boot' \in {"off", "panicked"}, todo' = <<>>, op' = NoOp,
             UNCHANGED <<magic, inode, data>>, formatted' \in BOOLEAN, cut' = (cut \/ Window),
             boot' = "panicked" => panic' = "io"
      PROVE  BootInv'
  <1> USE <0>FailureOn
  <1>1. Marked' = Marked /\ Bare' = Bare /\ Whole' = Whole
    <2>1. Marked' = Marked /\ Bare' = Bare
      BY DEF Marked, Bare
    <2> QED BY <2>1, ZenonT(60) DEF Whole, IsFile, read
  <1>2. ~cut' => (Bare \/ Whole) /\ (magic => inode[Root].kind = "dir")
    BY <0>Survives, ZenonT(60)
  <1>3. op'.inode = 0 /\ 0 # Root /\ Idle' /\ \A k \in 1 .. Len(todo') : FALSE
    BY DEF NoOp, Root, Idle
  <1>4. cut' \in BOOLEAN /\ \A i, j \in Marked : i = j
    BY ZenonT(60) DEF BootInv, RunInv
  <1>5. RunInv'
    BY <1>1, <1>2, <1>3, <1>4, ZenonT(60) DEF RunInv, Phases
  <1>6. PhaseInv'
    BY <1>1, <1>2, ZenonT(60) DEF PhaseInv
  <1> QED BY <1>5, <1>6 DEF BootInv

<0>IoErrorOn.
      ASSUME Inv, BootInv, ReadBack, IoError PROVE BootInv'
  <1> USE <0>IoErrorOn
  <1>1. /\ todo' = <<>> /\ op' = NoOp /\ UNCHANGED <<magic, inode, data, formatted>>
        /\ cut' = (cut \/ Window) /\ formatted \in BOOLEAN
    BY ZenonT(60) DEF IoError, Io, BootInv, RunInv
  <1>2. CASE boot # "up"
    <2>1. boot' = "panicked" /\ panic' = "io"
      BY <1>2 DEF IoError
    <2> QED BY <1>1, <2>1, <0>FailureOn
  <1>3. CASE boot = "up"
    <2>1. boot' = "up" /\ panic' = panic
      BY <1>3 DEF IoError
    <2>2. cut' = cut
      BY <1>1, <1>3, ZenonT(60) DEF Window, BootInv, RunInv
    <2>3. MarkerKept /\ RunInv
      BY <1>3 DEF BootInv, PhaseInv
    <2>4. op'.inode = 0 /\ 0 # Root /\ Idle' /\ \A k \in 1 .. Len(todo') : FALSE
      BY <1>1 DEF NoOp, Root, Idle
    <2>5. Marked' = Marked
      BY <1>1 DEF Marked
    <2>6. Whole'
      BY <1>1, <2>3, <2>5, ZenonT(60) DEF MarkerKept, Whole, IsFile, read
    <2>7. 0 \notin Marked
      <3>1. 0 \notin Inodes
        BY FsAssumption DEF Inodes
      <3> QED BY <2>3, <3>1 DEF MarkerKept, Whole
    <2>8. MarkerKept'
      BY <2>4, <2>5, <2>6, <2>7 DEF MarkerKept
    <2>9. RunInv'
      BY <1>1, <1>3, <2>1, <2>2, <2>3, <2>4, <2>5, ZenonT(60) DEF RunInv
    <2> QED BY <2>1, <2>8, <2>9, ZenonT(60) DEF BootInv, PhaseInv
  <1> QED BY <1>2, <1>3

<0>StopOn.
      ASSUME BootInv, ReadBack, Stop PROVE BootInv'
  <1> USE <0>StopOn
  <1>1. /\ boot' = "off" /\ todo' = <<>> /\ op' = NoOp /\ UNCHANGED <<magic, inode, data>>
        /\ formatted' = FALSE /\ cut' = (cut \/ Window)
    BY DEF Stop, Crash
  <1> QED BY <1>1, <0>FailureOn, ZenonT(60)

<0>BootStill.
      ASSUME BootInv, UNCHANGED storageVars PROVE BootInv'
  <1> USE <0>BootStill
  <1>1. UNCHANGED <<magic, inode, data, todo, op, content, intact, boot, formatted, panic, cut>>
    BY DEF storageVars
  <1>2. /\ Bare' = Bare /\ Whole' = Whole /\ OnlyMarker' = OnlyMarker /\ MarkerKept' = MarkerKept
        /\ Marked' = Marked /\ Idle' = Idle
    BY <1>1, <0>Quiet
  <1>3. RunInv'
    BY <1>1, <1>2, ZenonT(60) DEF BootInv, RunInv
  <1>4. MarkerMade' = MarkerMade /\ MarkerFilled' = MarkerFilled /\ ReadmeMade' = ReadmeMade
    <2>1. MarkerMade' = MarkerMade
      BY <1>1, <1>2 DEF MarkerMade, Final, NewFile, Empty
    <2>2. MarkerFilled' = MarkerFilled
      BY <1>1, <1>2, ZenonT(60) DEF MarkerFilled, Final, Marks, InFront, IsFile
    <2>3. ReadmeMade' = ReadmeMade
      BY <1>1, <1>2 DEF ReadmeMade, Final, NewFile, Empty, Marks, InFront, IsFile
    <2> QED BY <2>1, <2>2, <2>3
  <1>5. PhaseInv'
    BY <1>1, <1>2, <1>4, ZenonT(60) DEF BootInv, PhaseInv, Final
  <1> QED BY <1>3, <1>5 DEF BootInv

\* A marker that a user has changed counts as changed for ever.
<0>TouchedStays.
      ASSUME [StorageNext]_storageVars, touched PROVE touched'
  <1> USE <0>TouchedStays
  <1>1. ASSUME NEW cause, Panic(cause) PROVE touched'
    BY <1>1 DEF Panic
  <1>2. ASSUME NEW next, Goto(next) PROVE touched'
    BY <1>2 DEF Goto
  <1>3. CASE BootStep
    <2>1. ASSUME NEW at, NEW name, NEW text, NEW next, Fill(at, name, text, next) PROVE touched'
      BY <1>1, <1>2, <2>1, ZenonT(60) DEF Fill
    <2>2. CASE Mount \/ ReadmeWritten \/ SectorWrite
      BY <1>1, <2>2, ZenonT(60) DEF Mount, ReadmeWritten, SectorWrite, bootVars
    <2>3. CASE Formatted \/ MarkerWritten \/ FindMarker \/ CreateMarker \/ SeedReadme
      BY <1>1, <1>2, <2>3, ZenonT(60) DEF Formatted, MarkerWritten, FindMarker, CreateMarker, SeedReadme
    <2>4. CASE WriteMarker \/ WriteReadme
      BY <2>1, <2>4, ZenonT(60) DEF WriteMarker, WriteReadme
    <2> QED BY <1>3, <2>2, <2>3, <2>4 DEF BootStep
  <1>4. CASE UserStep
    BY <1>4, ZenonT(60) DEF UserStep, Touches
  <1>5. CASE IoError \/ Stop \/ UNCHANGED storageVars
    BY <1>5, ZenonT(60) DEF IoError, Stop, storageVars
  <1> QED BY <1>3, <1>4, <1>5 DEF StorageNext

<0>BootStepOn.
      Inv /\ (touched \/ BootInv) /\ ReadBack /\ OthersUntouched /\ [StorageNext]_storageVars
        => touched' \/ BootInv'
  <1> SUFFICES ASSUME Inv, touched \/ BootInv, ReadBack, OthersUntouched, [StorageNext]_storageVars,
                      ~touched'
               PROVE  BootInv'
    OBVIOUS
  <1>0. BootInv
    <2>1. touched => touched'
      BY <0>TouchedStays
    <2> QED BY <2>1
  <1>1. CASE BootStep
    BY <1>0, <1>1, <0>MountOn, <0>FormattedOn, <0>FindMarkerOn, <0>CreateMarkerOn, <0>WriteMarkerOn, <0>MarkerWrittenOn,
       <0>SeedReadmeOn, <0>WriteReadmeOn, <0>ReadmeWrittenOn, <0>SectorOn DEF BootStep
  <1>2. CASE UNCHANGED storageVars
    BY <1>0, <1>2, <0>BootStill
  <1> QED BY <1>0, <1>1, <1>2, <0>UserOn, <0>IoErrorOn, <0>StopOn DEF StorageNext

<0>BootInit.
      StorageInit => BootInv
  <1> SUFFICES ASSUME StorageInit PROVE BootInv
    OBVIOUS
  <1>1. todo = <<>> /\ op = NoOp /\ magic = FALSE /\ \A i \in Inodes : inode[i].kind = "free"
    BY EmptyEntry DEF StorageInit, Init
  <1>2. Bare /\ Marked = {}
    BY <1>1, LiveInodes, ZenonT(60) DEF Bare, Live, Marked, MarkedIn
  <1>3. boot = "off" /\ formatted = FALSE /\ panic = "none" /\ cut = FALSE
    BY DEF StorageInit
  <1>4. RunInv
    <2>1. op.inode = 0 /\ 0 # Root /\ Idle /\ \A k \in 1 .. Len(todo) : FALSE
      BY ONLY <1>1 DEF NoOp, Root, Idle
    <2> QED BY <1>1, <1>2, <1>3, <2>1, ZenonT(60) DEF RunInv, Phases
  <1>5. PhaseInv
    BY <1>2, <1>3 DEF PhaseInv
  <1> QED BY <1>4, <1>5 DEF BootInv
<0> QED
  <1>1. StorageInit => Inv /\ PromiseInv /\ ReadBack /\ (touched \/ BootInv)
    <2>1. StorageInit => PromiseInv /\ ReadBack
      BY ZenonT(60) DEF StorageInit, Init, PromiseInv, ReadBack
    <2> QED BY <2>1, InitSound, <0>BootInit
  <1>2. Inv /\ PromiseInv /\ ReadBack /\ (touched \/ BootInv) /\ [StorageNext]_storageVars
          => (Inv /\ PromiseInv /\ ReadBack /\ (touched \/ BootInv))'
    BY StepSound, StorageSteps, PromiseStep, <0>BootStepOn
  <1>3. touched \/ BootInv => BootsAgain
    <2> SUFFICES ASSUME BootInv, ~touched PROVE BootsAgain
      BY DEF BootsAgain
    <2>1. boot = "panicked" => panic = "io" \/ cut
      BY DEF BootInv, RunInv
    <2>2. boot = "up" => Whole
      BY DEF BootInv, PhaseInv, MarkerKept
    <2> QED BY <2>1, <2>2, <0>MarkerHeld DEF BootsAgain, Whole
  <1> QED BY <1>1, <1>2, <1>3, PTL DEF StorageSpec

=============================================================================
