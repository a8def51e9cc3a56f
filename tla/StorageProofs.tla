---------------------------- MODULE StorageProofs ----------------------------
(***************************************************************************)
(* For every size of the volume, its inode table and its sectors, and      *)
(* whatever boots, users, stops and failed writes do to it: no two files   *)
(* share a sector, the inodes in use form a tree without two entries of    *)
(* one path, and no file is changed but the one that the running operation *)
(* works on.                                                               *)
(*                                                                         *)
(* None of these is inductive.  They need to know of every write still to  *)
(* be made that it goes to sectors that no other file owns (Steps), that   *)
(* the inode table is erased only while it is empty (MagicInv), and of an  *)
(* entry still to be written that it has its place in the tree (Fits).     *)
(***************************************************************************)
EXTENDS Storage, TLAPS

\* A leaf that names no prover is for SMT, with time to spare on a busy machine.
USE SMTT(60)

\* With inode table t, the data sectors that no file but i owns.
Own(t, i) ==
    {s \in DataSectors : \A j \in Inodes : j # i /\ t[j].kind = "file" => s \notin Extent(t[j])}

\* Entry e can be written to inode i.
Sound(t, i, e) ==
    e.kind = "file" =>
        /\ i # Root
        /\ Extent(e) \subseteq Own(t, i)
        /\ sectors_for_len(e.len) <= e.count

\* What an operation on inode i may write.
Part == UNION {[D -> Bytes] : D \in SUBSET Positions}
Patch(t, i) == [write : {"patch"}, sector : Own(t, i), bytes : Part]
Copy(t, i) == [write : {"copy"}, sector : Own(t, i), from : DataSectors]
Steps(t, i) ==
    Patch(t, i) \cup Copy(t, i) \cup [write : {"table"}, sector : Nat] \cup [write : {"super"}]
      \cup [write : {"inode"}, entry : {e \in Entries : Sound(t, i, e)}]

Blank(t) == \A i \in Inodes : t[i].kind = "free"

DiskInv ==
    /\ inode \in [Inodes -> Entries]
    /\ \A i \in Inodes : Sound(inode, i, inode[i])
    /\ data \in [DataSectors -> Sector]

\* The inode comes last, and the table is erased only before there is anything
\* in it, and before the superblock is written.
TodoInv ==
    /\ todo \in Seq(Steps(inode, op.inode))
    /\ todo # <<>> => op.inode \in Inodes /\ op.expected \in Seq(Bytes)
    /\ op.inode \in Inodes \cup {0}
    /\ \A k \in 1 .. Len(todo) :
          /\ todo[k].write = "inode" => k = Len(todo)
          /\ todo[k].write = "super" => k = Len(todo) - 1 /\ ~mounted /\ Blank(inode)
          /\ todo[k].write = "table" => k < Len(todo) - 1 /\ ~mounted /\ Blank(inode) /\ ~magic

\* A volume without a superblock is empty, and what runs on it is format, with
\* the superblock next to last.
MagicInv ==
    /\ mounted \in BOOLEAN /\ magic \in BOOLEAN
    /\ mounted => magic
    /\ ~magic => Blank(inode)
    /\ ~magic /\ todo # <<>> => Len(todo) >= 2 /\ todo[Len(todo) - 1].write = "super"

BookInv ==
    /\ content \in [Inodes -> Seq(Bytes)]
    /\ intact \subseteq Inodes
    /\ hidden \in BOOLEAN

Inv == DiskInv /\ TodoInv /\ MagicInv /\ BookInv

-----------------------------------------------------------------------------
(* Sectors *)

\* Division, by its remainder.
LEMMA Division ==
    ASSUME NEW a \in Int, NEW S \in Nat \ {0}
    PROVE  /\ a \div S \in Int
           /\ S * (a \div S) <= a /\ a < S * (a \div S) + S
<1>1. a = S * (a \div S) + (a % S) /\ a \div S \in Int /\ a % S \in 0 .. S - 1
  OBVIOUS
<1>2. PICK q \in Int, r \in 0 .. S - 1 : q = a \div S /\ a = S * q + r
  BY <1>1
<1> QED BY <1>2

\* A larger number has at least as large a quotient.
LEMMA DivMonotone ==
    ASSUME NEW S \in Nat \ {0}, NEW a \in Int, NEW b \in Int, a <= b
    PROVE  a \div S <= b \div S
<1>1. PICK p \in Int, q \in Int :
         /\ p = a \div S /\ S * p <= a /\ a < S * p + S
         /\ q = b \div S /\ S * q <= b /\ b < S * q + S
  BY Division, ZenonT(60)
<1>2. ASSUME q < p PROVE FALSE
  <2>1. PICK d \in Nat : p = q + 1 + d
    <3>1. p - q - 1 \in Nat /\ p = q + 1 + (p - q - 1)
      BY <1>2
    <3> QED BY <3>1
  <2>2. S * p = S * q + S + S * d /\ S * d >= 0 /\ S * q \in Int /\ S * d \in Int
    BY <2>1
  <2> QED BY <1>1, <2>2
<1> QED BY <1>1, <1>2

\* The data area is behind the superblock and the inode table.
LEMMA FirstSector == DATA_START \in Nat \ {0} /\ \A s \in DataSectors : s \in Nat
<1>1. INODE_COUNT + INODES_PER_SECTOR - 1 \in Int /\ 0 <= INODE_COUNT + INODES_PER_SECTOR - 1
      /\ INODES_PER_SECTOR \in Nat \ {0}
  BY FsAssumption
<1>2. 0 \div INODES_PER_SECTOR = 0
  BY <1>1
<1>3. 0 \div INODES_PER_SECTOR <= (INODE_COUNT + INODES_PER_SECTOR - 1) \div INODES_PER_SECTOR
  BY <1>1, DivMonotone
<1>4. (INODE_COUNT + INODES_PER_SECTOR - 1) \div INODES_PER_SECTOR \in Int
  BY <1>1, Division
<1>5. DATA_START \in Nat \ {0}
  BY <1>2, <1>3, <1>4 DEF DATA_START, INODE_TABLE_START, INODE_TABLE_SECTORS
<1> QED BY <1>5, FsAssumption DEF DataSectors

\* The numbers of an entry.
LEMMA EntryParts ==
    ASSUME NEW e \in Entries
    PROVE  e.len \in Nat /\ e.start \in Nat /\ e.count \in Nat /\ e.count <= SectorCount
<1>1. e.len \in Nat /\ e.start \in DataSectors \cup {0} /\ e.count \in 0 .. SectorCount
  BY ZenonT(60) DEF Entries
<1>2. e.start \in Nat
  <2>1. CASE e.start \in DataSectors
    BY <2>1, FirstSector
  <2>2. CASE e.start = 0
    BY <2>2
  <2> QED BY <1>1, <2>1, <2>2
<1>3. SectorCount \in Nat
  BY FsAssumption
<1> QED BY <1>1, <1>2, <1>3

\* n bytes need the sectors up to that of the last of them.
LEMMA SectorsNeeded ==
    /\ SECTOR_SIZE \in Nat \ {0}
    /\ \A n \in Nat : sectors_for_len(n) \in Nat
    /\ \A m, n \in Nat : m <= n => sectors_for_len(m) <= sectors_for_len(n)
    /\ \A x \in Nat, n \in Nat : x < n => x \div SECTOR_SIZE \in 0 .. sectors_for_len(n) - 1

\* A divisor more is one more.
<0>DivNext.
      ASSUME NEW S \in Nat \ {0}, NEW a \in Int
      PROVE  (a + S) \div S = (a \div S) + 1
  <1> USE <0>DivNext
  <1>1. PICK p \in Int, q \in Int :
           /\ p = a \div S /\ S * p <= a /\ a < S * p + S
           /\ q = (a + S) \div S /\ S * q <= a + S /\ a + S < S * q + S
    <2>1. a + S \in Int
      OBVIOUS
    <2> QED BY <2>1, Division
  <1>2. ASSUME q < p + 1 PROVE FALSE
    <2>1. PICK d \in Nat : p = q + d
      <3>1. p - q \in Nat /\ p = q + (p - q)
        BY <1>2
      <3> QED BY <3>1
    <2>2. S * p = S * q + S * d /\ S * d >= 0 /\ S * q \in Int /\ S * d \in Int
      BY <2>1
    <2> QED BY <1>1, <2>2
  <1>3. ASSUME q > p + 1 PROVE FALSE
    <2>1. PICK d \in Nat : q = p + 2 + d
      <3>1. q - p - 2 \in Nat /\ q = p + 2 + (q - p - 2)
        BY <1>3
      <3> QED BY <3>1
    <2>2. S * q = S * p + S + S + S * d /\ S * d >= 0 /\ S * p \in Int /\ S * d \in Int
      BY <2>1
    <2> QED BY <1>1, <2>2
  <1> QED BY <1>1, <1>2, <1>3
<0> QED
  <1> DEFINE S == SECTOR_SIZE
  <1>0. S \in Nat \ {0}
    BY FsAssumption
  <1> HIDE DEF S
  <1>1. ASSUME NEW n \in Nat PROVE (n + S - 1) \div S \in Nat
    <2>1. 0 \div S = 0
      BY <1>0
    <2>2. 0 <= n + S - 1 /\ n + S - 1 \in Int /\ 0 \in Int
      BY <1>0
    <2>3. 0 \div S <= (n + S - 1) \div S
      BY <1>0, <2>2, DivMonotone
    <2>4. (n + S - 1) \div S \in Int
      BY <1>0, <2>2, Division
    <2> QED BY <2>1, <2>3, <2>4
  <1>2. ASSUME NEW m \in Nat, NEW n \in Nat, m <= n PROVE (m + S - 1) \div S <= (n + S - 1) \div S
    <2>1. m + S - 1 <= n + S - 1 /\ m + S - 1 \in Int /\ n + S - 1 \in Int
      BY <1>0, <1>2
    <2> QED BY <1>0, <2>1, DivMonotone
  <1>3. ASSUME NEW x \in Nat, NEW n \in Nat, x < n PROVE x \div S \in 0 .. ((n + S - 1) \div S) - 1
    <2>1. x + S <= n + S - 1 /\ x + S \in Int /\ n + S - 1 \in Int
      BY <1>0, <1>3
    <2>2. (x + S) \div S <= (n + S - 1) \div S
      BY <1>0, <2>1, DivMonotone
    <2>3. (x + S) \div S = (x \div S) + 1
      <3>1. x \in Int
        OBVIOUS
      <3> QED BY <1>0, <3>1, <0>DivNext, ZenonT(60)
    <2>4. 0 \div S = 0 /\ 0 \div S <= x \div S
      BY <1>0, DivMonotone
    <2>5. x \div S \in Int /\ (n + S - 1) \div S \in Int
      BY <1>0, <2>1, Division
    <2> QED BY <2>2, <2>3, <2>4, <2>5
  <1> QED BY <1>0, <1>1, <1>2, <1>3 DEF sectors_for_len, S

-----------------------------------------------------------------------------
(* Sequences of writes *)

\* The parts of a write.
LEMMA StepParts ==
    ASSUME NEW t, NEW i, NEW w \in Steps(t, i)
    PROVE  /\ w.write \in {"patch", "copy", "table", "super", "inode"}
           /\ w.write = "patch" => w.sector \in Own(t, i) /\ w.bytes \in Part
           /\ w.write = "copy" => w.sector \in Own(t, i) /\ w.from \in DataSectors
           /\ w.write = "inode" => w.entry \in Entries /\ Sound(t, i, w.entry)
<1> DEFINE E == {e \in Entries : Sound(t, i, e)}
<1> HIDE DEF E
<1>1. w \in [write : {"patch"}, sector : Own(t, i), bytes : Part]
         \/ w \in [write : {"copy"}, sector : Own(t, i), from : DataSectors]
         \/ w \in [write : {"table"}, sector : Nat]
         \/ w \in [write : {"super"}]
         \/ w \in [write : {"inode"}, entry : E]
  BY DEF Steps, Patch, Copy, E
<1>2. /\ w.write \in {"patch", "copy", "table", "super", "inode"}
      /\ w.write = "patch" => w.sector \in Own(t, i) /\ w.bytes \in Part
      /\ w.write = "copy" => w.sector \in Own(t, i) /\ w.from \in DataSectors
      /\ w.write = "inode" => w.entry \in E
  BY <1>1
<1> QED BY <1>2 DEF E

\* The first write, and what follows it.
LEMMA HeadAndTail ==
    ASSUME NEW S, NEW s \in Seq(S), s # <<>>
    PROVE  /\ Len(s) \in Nat \ {0}
           /\ Head(s) = s[1] /\ Head(s) \in S
           /\ Tail(s) \in Seq(S) /\ Len(Tail(s)) = Len(s) - 1
           /\ \A k \in 1 .. Len(s) - 1 : Tail(s)[k] = s[k + 1]
  OBVIOUS

\* The later writes of the rest are the later writes of the whole.
LEMMA InTail ==
    ASSUME NEW S, NEW s \in Seq(S), s # <<>>, NEW t, t = Tail(s), NEW k \in 1 .. Len(t)
    PROVE  /\ k + 1 \in 1 .. Len(s) /\ t[k] = s[k + 1]
           /\ k + 1 = Len(s) => k = Len(t)
           /\ k + 1 = Len(s) - 1 => k = Len(t) - 1
           /\ k + 1 < Len(s) - 1 => k < Len(t) - 1
           /\ Len(s) - 1 = 1 => ~(k + 1 < Len(s) - 1)
<1>1. PICK n \in Nat \ {0} : n = Len(s) /\ Len(t) = n - 1 /\ \A m \in 1 .. n - 1 : t[m] = s[m + 1]
  BY HeadAndTail
<1>2. k \in Nat /\ 1 <= k /\ k <= n - 1
  BY <1>1
<1>3. k + 1 \in 1 .. n /\ t[k] = s[k + 1]
  BY <1>1, <1>2
<1>4. /\ k + 1 = n => k = n - 1
      /\ k + 1 = n - 1 => k = n - 1 - 1
      /\ k + 1 < n - 1 => k < n - 1 - 1
      /\ n - 1 = 1 => ~(k + 1 < n - 1)
  BY <1>2
<1> QED BY <1>1, <1>3, <1>4

\* Writes that only touch the sectors of a file, and then its inode.
LEMMA ThenInode ==
    ASSUME NEW t, NEW i, NEW u \in Seq(Patch(t, i) \cup Copy(t, i)),
           NEW e \in Entries, Sound(t, i, e), NEW s, s = u \o SetInode(e)
    PROVE  /\ s \in Seq(Steps(t, i))
           /\ \A k \in 1 .. Len(s) : s[k].write = "inode" => k = Len(s)
           /\ \A k \in 1 .. Len(s) : s[k].write \notin {"table", "super"}
<1> DEFINE F == Patch(t, i) \cup Copy(t, i)
           w == [write |-> "inode", entry |-> e]
<1>1. w \in Steps(t, i) /\ w.write = "inode"
  BY DEF Steps
<1>2. \A f \in F : f \in Steps(t, i)
  BY DEF Steps
<1>3. \A f \in F : f.write \in {"patch", "copy"}
  BY DEF Patch, Copy
<1>4. s = u \o <<w>> /\ u \in Seq(F)
  BY DEF SetInode
<1> HIDE DEF F, w
<1>5. Len(s) = Len(u) + 1 /\ Len(u) \in Nat /\ s[Len(s)] = w /\ \A k \in 1 .. Len(u) : s[k] = u[k] /\ u[k] \in F
  BY <1>4
<1>6. s \in Seq(Steps(t, i))
  <2>1. u \in Seq(Steps(t, i))
    BY <1>2, <1>4
  <2> QED BY <2>1, <1>1, <1>4
<1>7. ASSUME NEW k \in 1 .. Len(s), k # Len(s) PROVE s[k].write \in {"patch", "copy"}
  <2>1. k \in 1 .. Len(u)
    BY <1>5, <1>7
  <2> QED BY <2>1, <1>3, <1>5
<1> QED BY <1>1, <1>5, <1>6, <1>7, ZenonT(60)

-----------------------------------------------------------------------------
(* The sector writes *)

\* What a file reads as depends on its own sectors only.
LEMMA ReadsOwn ==
    ASSUME Inv, NEW j \in Inodes, IsFile(j), inode'[j] = inode[j],
           \A s \in Extent(inode[j]) : data'[s] = data[s]
    PROVE  read(j)' = read(j)
<1> DEFINE e == inode[j]
<1>1. e \in Entries /\ sectors_for_len(e.len) <= e.count
  BY DEF Inv, DiskInv, Sound, IsFile
<1>2. e.len \in Nat /\ e.start \in Int /\ e.count \in Int
  BY <1>1, EntryParts
<1> HIDE DEF e
<1>3. ASSUME NEW x \in 1 .. e.len
      PROVE  data'[e.start + (x - 1) \div SECTOR_SIZE] = data[e.start + (x - 1) \div SECTOR_SIZE]
  <2>1. x - 1 \in Nat /\ x - 1 < e.len
    BY <1>2
  <2>2. (x - 1) \div SECTOR_SIZE \in 0 .. sectors_for_len(e.len) - 1 /\ sectors_for_len(e.len) \in Nat
    BY <2>1, <1>2, SectorsNeeded
  <2>3. PICK q : q = (x - 1) \div SECTOR_SIZE
    OBVIOUS
  <2>4. e.start + q \in Extent(e)
    BY <1>1, <1>2, <2>2, <2>3 DEF Extent
  <2> QED BY <2>3, <2>4 DEF e
<1>4. read(j)' = [x \in 1 .. e.len |-> data'[e.start + (x - 1) \div SECTOR_SIZE][(x - 1) % SECTOR_SIZE]]
  BY DEF read, e
<1>5. read(j) = [x \in 1 .. e.len |-> data[e.start + (x - 1) \div SECTOR_SIZE][(x - 1) % SECTOR_SIZE]]
  BY DEF read, e
<1> QED BY <1>3, <1>4, <1>5

\* The first of the writes to be made, by its kind.
LEMMA FirstStep ==
    ASSUME Inv, todo # <<>>
    PROVE  /\ Head(todo) = todo[1] /\ 1 \in 1 .. Len(todo) /\ Head(todo) \in Steps(inode, op.inode)
           /\ op.inode \in Inodes /\ op.expected \in Seq(Bytes)
<1>1. todo \in Seq(Steps(inode, op.inode)) /\ op.inode \in Inodes /\ op.expected \in Seq(Bytes)
  BY DEF Inv, TodoInv
<1>2. Len(todo) \in Nat \ {0} /\ Head(todo) = todo[1] /\ Head(todo) \in Steps(inode, op.inode)
  BY <1>1, HeadAndTail
<1> QED BY <1>1, <1>2

-----------------------------------------------------------------------------
(* The operations *)

\* An operation that only writes an inode.
LEMMA OnlyInode == ASSUME NEW e PROVE <<>> \o SetInode(e) = SetInode(e)
  BY DEF SetInode

LEMMA EmptyEntry ==
    /\ Empty \in Entries /\ Empty.kind = "free" /\ Empty.start = 0 /\ Empty.count = 0 /\ Empty.len = 0
    /\ RootEntry \in Entries /\ RootEntry.kind = "dir"
    /\ Root \in Inodes
<1>1. SectorCount \in Nat /\ Root \in Inodes
  BY FsAssumption DEF Root, Inodes
<1>2. Empty \in Entries
  BY <1>1 DEF Empty, Entries
<1>3. RootEntry \in Entries /\ RootEntry.kind = "dir"
  BY <1>1, <1>2, ZenonT(60) DEF Empty, RootEntry, Entries
<1> QED BY <1>1, <1>2, <1>3, ZenonT(60) DEF Empty

\* find_child returns inodes.
LEMMA ChildrenInodes == \A p, n : find_child(p, n) \subseteq Inodes
<1>1. \A i \in 2 .. INODE_COUNT : i \in Inodes
  BY FsAssumption DEF Inodes
<1> QED BY <1>1 DEF find_child, Children

\* What find_extent finds belongs to no other file.
LEMMA GapOwned ==
    ASSUME Inv, NEW i \in Inodes, NEW n \in Nat, NEW c \in DataSectors, Gap(c, n, i)
    PROVE  c .. c + n - 1 \subseteq Own(inode, i)
<1>1. c \in Nat /\ DATA_START \in Nat /\ SectorCount \in Nat /\ c >= DATA_START /\ c + n <= SectorCount
  BY FirstSector, FsAssumption DEF Gap
<1>2. ASSUME NEW s \in c .. c + n - 1 PROVE s \in DataSectors
  BY <1>1 DEF DataSectors
<1>3. ASSUME NEW j \in Inodes, j # i, inode[j].kind = "file" PROVE Extent(inode[j]) \cap (c .. c + n - 1) = {}
  <2>1. j # Root
    BY <1>3 DEF Inv, DiskInv, Sound
  <2>2. j \in 2 .. INODE_COUNT
    BY <2>1, FsAssumption DEF Inodes, Root
  <2> QED BY <1>3, <2>2 DEF Gap
<1> QED BY <1>2, <1>3 DEF Own

\* ensure_capacity finds a file the sectors it needs, none of another file's,
\* and writes to no others.
LEMMA Placed ==
    ASSUME Inv, NEW i \in Inodes, IsFile(i), NEW needed \in Nat, NEW start \in Places(i, needed),
           NEW g, g = Grown(inode[i], start, needed)
    PROVE  /\ g \in Entries /\ g.kind = "file" /\ g.start = start
           /\ needed <= g.count /\ inode[i].count <= g.count
           /\ Extent(g) \subseteq Own(inode, i)
           /\ Growth(i, start, needed) \in Seq(Patch(inode, i) \cup Copy(inode, i))
<1> DEFINE e == inode[i]
           F == Patch(inode, i) \cup Copy(inode, i)
<1>1. e \in Entries /\ e.kind = "file" /\ Extent(e) \subseteq Own(inode, i)
  BY DEF Inv, DiskInv, Sound, IsFile
<1>2. e.start \in Nat /\ e.count \in Nat
  BY <1>1, EntryParts
<1>3. CASE needed > e.count
  <2>1. start \in DataSectors /\ Gap(start, needed, i)
    BY <1>3 DEF Places, find_extent
  <2>2. start \in Nat /\ SectorCount \in Nat /\ start + needed <= SectorCount
    BY <2>1, FirstSector, FsAssumption DEF Gap
  <2>3. g = [e EXCEPT !.start = start, !.count = needed]
    BY <1>3 DEF Grown
  <2>4. needed \in 0 .. SectorCount
    BY <2>2
  <2>5. g \in Entries /\ g.kind = "file" /\ g.start = start /\ g.count = needed
    BY <1>1, <2>1, <2>3, <2>4, ZenonT(60) DEF Entries
  <2>6. Extent(g) \subseteq Own(inode, i)
    BY <2>1, <2>5, GapOwned DEF Extent
  <2>7. \A k \in 1 .. needed : start + k - 1 \in Own(inode, i)
    BY <2>1, <2>2, GapOwned
  <2> DEFINE z == [k \in 1 .. needed |-> [write |-> "patch", sector |-> start + k - 1,
                                          bytes |-> [p \in Positions |-> 0]]]
             c == [k \in 1 .. e.count |-> [write |-> "copy", sector |-> start + k - 1,
                                           from |-> e.start + k - 1]]
  <2>8. z \in Seq(F)
    <3>1. [p \in Positions |-> 0] \in Part
      <4>1. [p \in Positions |-> 0] \in [Positions -> Bytes]
        BY FsAssumption
      <4> QED BY <4>1 DEF Part
    <3>2. ASSUME NEW k \in 1 .. needed
          PROVE  [write |-> "patch", sector |-> start + k - 1, bytes |-> [p \in Positions |-> 0]] \in F
      BY <2>7, <3>1 DEF Patch
    <3> QED BY <3>2
  <2>9. c \in Seq(F)
    <3>1. ASSUME NEW k \in 1 .. e.count
          PROVE  [write |-> "copy", sector |-> start + k - 1, from |-> e.start + k - 1] \in F
      <4>1. start + k - 1 \in Own(inode, i)
        <5>1. k \in 1 .. needed
          BY <1>2, <1>3
        <5> QED BY <5>1, <2>7
      <4>2. e.start + k - 1 \in DataSectors
        <5>1. e.start + k - 1 \in Extent(e)
          BY <1>2 DEF Extent
        <5> QED BY <5>1, <1>1 DEF Own
      <4> QED BY <4>1, <4>2 DEF Copy
    <3> QED BY <1>2, <3>1
  <2>10. Growth(i, start, needed) = z \o c
    BY <1>3, ZenonT(60) DEF Growth, ensure_capacity
  <2> HIDE DEF z, c, F
  <2>11. Growth(i, start, needed) \in Seq(F)
    BY <2>8, <2>9, <2>10
  <2> QED BY <1>2, <1>3, <2>5, <2>6, <2>11 DEF F
<1>4. CASE ~(needed > e.count)
  <2>1. g = e /\ start = e.start
    BY <1>4 DEF Grown, Places
  <2>2. Growth(i, start, needed) = <<>>
    BY <1>4 DEF Growth
  <2>3. needed <= e.count
    BY <1>2, <1>4
  <2> QED BY <1>1, <1>2, <2>1, <2>2, <2>3
<1> QED BY <1>3, <1>4

\* Writes that go to sectors A and copy from sectors B.
Confined(A, B) ==
    [write : {"patch"}, sector : A, bytes : Part] \cup [write : {"copy"}, sector : A, from : B]

\* The writes of bytes from .. to - 1 go to the sectors these bytes are in.
LEMMA PatchesConfined ==
    ASSUME NEW A, NEW B, NEW start \in Nat, NEW from \in Nat, NEW to \in Nat,
           NEW byte \in [from .. to - 1 -> Bytes],
           \A k \in 0 .. sectors_for_len(to) - 1 : start + k \in A
    PROVE  Patches(start, from, to, byte) \in Seq(Confined(A, B))
<1> DEFINE F == Confined(A, B)
           first == from \div SECTOR_SIZE
           sectors == IF from < to THEN sectors_for_len(to) - first ELSE 0
           W(k) == [write |-> "patch", sector |-> start + first + k - 1,
                    bytes |-> [p \in {q \in Positions :
                                        from <= (first + k - 1) * SECTOR_SIZE + q
                                          /\ (first + k - 1) * SECTOR_SIZE + q < to} |->
                                 byte[(first + k - 1) * SECTOR_SIZE + p]]]
<1>1. Patches(start, from, to, byte) = [k \in 1 .. sectors |-> W(k)]
  BY DEF Patches
<1>2. SECTOR_SIZE \in Nat \ {0} /\ sectors_for_len(to) \in Nat
  BY SectorsNeeded
<1>3. CASE ~(from < to)
  <2>1. sectors = 0
    BY <1>3
  <2> HIDE DEF W, sectors
  <2>2. [k \in 1 .. sectors |-> W(k)] = <<>>
    BY <2>1
  <2>3. Patches(start, from, to, byte) = <<>>
    BY <1>1, <2>2
  <2> QED BY <2>3
<1>4. CASE from < to
  <2>1. first \in Nat /\ first <= sectors_for_len(to) - 1
    <3>1. first \in 0 .. sectors_for_len(to) - 1
      BY <1>4, SectorsNeeded, ZenonT(60)
    <3> HIDE DEF first
    <3> QED BY <1>2, <3>1
  <2>2. sectors = sectors_for_len(to) - first /\ sectors \in Nat
    BY <1>2, <1>4, <2>1
  <2> HIDE DEF first, sectors
  <2>3. ASSUME NEW k \in 1 .. sectors PROVE W(k) \in F
    <3>1. first + k - 1 \in 0 .. sectors_for_len(to) - 1 /\ k \in Nat
      BY <1>2, <2>1, <2>2
    <3>2. start + first + k - 1 \in A
      <4>1. start + (first + k - 1) = start + first + k - 1
        BY <2>1, <3>1
      <4> QED BY <3>1, <4>1
    <3>3. PICK base : base = (first + k - 1) * SECTOR_SIZE
      OBVIOUS
    <3>4. base \in Nat
      <4>1. PICK a \in Nat : a = first + k - 1
        BY <3>1
      <4> QED BY <1>2, <3>3, <4>1
    <3> DEFINE D == {q \in Positions : from <= base + q /\ base + q < to}
               b == [p \in D |-> byte[base + p]]
    <3>5. b \in Part
      <4>1. ASSUME NEW p \in D PROVE byte[base + p] \in Bytes
        <5>1. base + p \in from .. to - 1
          BY <1>2, <3>4 DEF Positions
        <5> QED BY <5>1
      <4>2. D \in SUBSET Positions /\ b \in [D -> Bytes]
        BY <4>1
      <4> HIDE DEF D, b
      <4> QED BY <4>2 DEF Part
    <3>6. W(k) = [write |-> "patch", sector |-> start + first + k - 1, bytes |-> b]
      BY <3>3
    <3> HIDE DEF b, D, W
    <3> QED BY <3>2, <3>5, <3>6 DEF Confined
  <2> HIDE DEF W, F
  <2>4. [k \in 1 .. sectors |-> W(k)] \in Seq(F)
    BY <2>2, <2>3
  <2> QED BY <1>1, <2>4 DEF F
<1> QED BY <1>3, <1>4

LEMMA PatchesOwn ==
    ASSUME NEW i, NEW start \in Nat, NEW from \in Nat, NEW to \in Nat,
           NEW byte \in [from .. to - 1 -> Bytes],
           \A k \in 0 .. sectors_for_len(to) - 1 : start + k \in Own(inode, i)
    PROVE  Patches(start, from, to, byte) \in Seq(Patch(inode, i) \cup Copy(inode, i))
<1>1. Patches(start, from, to, byte) \in Seq(Confined(Own(inode, i), DataSectors))
  BY PatchesConfined
<1>2. Confined(Own(inode, i), DataSectors) = Patch(inode, i) \cup Copy(inode, i)
  BY DEF Confined, Patch, Copy
<1> QED BY <1>1, <1>2

\* A file that got its sectors may be given any length that they hold.
LEMMA NewLength ==
    ASSUME NEW i \in Inodes, i # Root, NEW g \in Entries, Extent(g) \subseteq Own(inode, i),
           NEW n \in Nat, sectors_for_len(n) <= g.count, NEW e, e = [g EXCEPT !.len = n]
    PROVE  e \in Entries /\ Sound(inode, i, e)
<1>1. e \in Entries /\ e.start = g.start /\ e.count = g.count /\ e.len = n
  BY ZenonT(60) DEF Entries
<1> QED BY <1>1 DEF Sound, Extent

\* The bytes up to the end of a file's sectors are in sectors of its own.
LEMMA WithinExtent ==
    ASSUME NEW i, NEW g \in Entries, Extent(g) \subseteq Own(inode, i), NEW n \in Nat, n <= g.count
    PROVE  \A k \in 0 .. n - 1 : g.start + k \in Own(inode, i)
<1>1. PICK a \in Nat, c \in Nat : a = g.start /\ c = g.count
  BY EntryParts
<1>2. ASSUME NEW k \in 0 .. n - 1 PROVE a + k \in a .. a + c - 1
  BY <1>1
<1>3. Extent(g) = a .. a + c - 1
  BY <1>1 DEF Extent
<1> QED BY <1>1, <1>2, <1>3

\* Three runs of writes one after the other.
LEMMA Concatenated ==
    ASSUME NEW S, NEW a \in Seq(S), NEW b \in Seq(S), NEW c \in Seq(S)
    PROVE  a \o b \in Seq(S) /\ a \o b \o c \in Seq(S)
<1>1. a \o b \in Seq(S)
  OBVIOUS
<1> QED BY <1>1

\* What an operation on file i writes: sectors of its own, and then an entry e
\* of the same name.
Starts(i, x, good, u, e) ==
    /\ mounted /\ Idle /\ IsFile(i) /\ i # Root
    /\ x \in Seq(Bytes) /\ u \in Seq(Patch(inode, i) \cup Copy(inode, i))
    /\ e \in Entries /\ Sound(inode, i, e)
    /\ e.kind = "file" /\ e.name = inode[i].name /\ e.parent = inode[i].parent
    /\ hidden' = hidden
    /\ Start(i, x, good, u \o SetInode(e))

\* What truncate and write expect, promise and write.
Truncates(i, len, x, good, u, e) ==
    \E needed, start :
        /\ needed = sectors_for_len(len) /\ start \in Places(i, needed)
        /\ x = [y \in 1 .. len |-> Byte(content[i], y)]
        /\ good = (i \in intact /\ Spared(i, start, needed))
        /\ u = Growth(i, start, needed) \o zero_range(start, inode[i].len, len)
        /\ e = [Grown(inode[i], start, needed) EXCEPT !.len = len]
Overwrites(i, offset, bytes, x, good, u, e) ==
    \E end, needed, len, start :
        /\ end = offset + Len(bytes) /\ len = Larger(inode[i].len, end)
        /\ needed = sectors_for_len(end) /\ start \in Places(i, needed)
        /\ x = [y \in 1 .. len |-> IF offset < y /\ y <= end THEN bytes[y - offset]
                                   ELSE Byte(content[i], y)]
        /\ good = (i \in intact /\ Spared(i, start, needed))
        /\ u = Growth(i, start, needed) \o zero_range(start, inode[i].len, offset)
                 \o Patches(start, offset, end, [y \in offset .. end - 1 |-> bytes[y - offset + 1]])
        /\ e = [Grown(inode[i], start, needed) EXCEPT !.len = len]

LEMMA truncateStarts ==
    ASSUME Inv, NEW i \in Inodes, NEW len \in Nat, truncate(i, len)
    PROVE  \E x, good, u, e : Starts(i, x, good, u, e) /\ Truncates(i, len, x, good, u, e)
<1>1. PICK needed : needed = sectors_for_len(len)
  OBVIOUS
<1>2. PICK x : x = [y \in 1 .. len |-> Byte(content[i], y)]
  BY ZenonT(60)
<1>3. PICK start \in Places(i, needed) :
         Start(i, x, i \in intact /\ Spared(i, start, needed),
               Growth(i, start, needed) \o zero_range(start, inode[i].len, len)
                 \o SetInode([Grown(inode[i], start, needed) EXCEPT !.len = len]))
  BY <1>1, <1>2 DEF truncate
<1>4. mounted /\ Idle /\ IsFile(i) /\ hidden' = hidden
  BY DEF truncate, IsFile
<1>5. PICK g : g = Grown(inode[i], start, needed)
  OBVIOUS
<1>6. needed \in Nat
  BY <1>1, SectorsNeeded
<1>7. /\ g \in Entries /\ g.start = start /\ needed <= g.count /\ Extent(g) \subseteq Own(inode, i)
      /\ Growth(i, start, needed) \in Seq(Patch(inode, i) \cup Copy(inode, i))
  <2>1. IsFile(i) /\ needed \in Nat /\ start \in Places(i, needed)
    BY <1>4, <1>6
  <2>2. /\ g \in Entries /\ g.kind = "file" /\ g.start = start
        /\ needed <= g.count /\ inode[i].count <= g.count
        /\ Extent(g) \subseteq Own(inode, i)
        /\ Growth(i, start, needed) \in Seq(Patch(inode, i) \cup Copy(inode, i))
    BY <1>5, <2>1, Placed
  <2> QED BY <2>2
<1>8. i # Root /\ inode[i].len \in Nat /\ start \in Nat
  <2>1. inode[i] \in Entries /\ i # Root
    BY <1>4 DEF Inv, DiskInv, Sound, IsFile
  <2> QED BY <2>1, <1>7, EntryParts
<1>9. PICK e : e = [g EXCEPT !.len = len]
  BY ZenonT(60)
<1>10. e \in Entries /\ Sound(inode, i, e)
  BY <1>1, <1>7, <1>8, <1>9, NewLength
<1>11. zero_range(start, inode[i].len, len) \in Seq(Patch(inode, i) \cup Copy(inode, i))
  <2>1. \A k \in 0 .. sectors_for_len(len) - 1 : start + k \in Own(inode, i)
    BY <1>1, <1>6, <1>7, WithinExtent
  <2>2. [y \in inode[i].len .. len - 1 |-> 0] \in [inode[i].len .. len - 1 -> Bytes]
    BY FsAssumption
  <2> QED BY <1>8, <2>1, <2>2, PatchesOwn, ZenonT(60) DEF zero_range
<1>12. x \in Seq(Bytes)
  <2>1. content[i] \in Seq(Bytes)
    BY DEF Inv, BookInv
  <2>2. ASSUME NEW y \in 1 .. len PROVE Byte(content[i], y) \in Bytes
    BY <2>1, FsAssumption DEF Byte
  <2> QED BY <1>2, <2>2
<1>13. PICK u : u = Growth(i, start, needed) \o zero_range(start, inode[i].len, len)
  BY ZenonT(60)
<1>14. u \in Seq(Patch(inode, i) \cup Copy(inode, i))
  BY <1>7, <1>11, <1>13, Concatenated
<1>15. e.kind = "file" /\ e.name = inode[i].name /\ e.parent = inode[i].parent
  <2>1. PICK f \in Entries : f = inode[i] /\ f.kind = "file"
    BY <1>4 DEF IsFile, Inv, DiskInv
  <2>2. g = f \/ g = [f EXCEPT !.start = start, !.count = needed]
    BY <1>5, <2>1 DEF Grown
  <2>3. e.kind = "file" /\ e.name = f.name /\ e.parent = f.parent
    BY <1>9, <2>1, <2>2, ZenonT(60) DEF Entries
  <2> QED BY <2>1, <2>3
<1>16. PICK good : good = (i \in intact /\ Spared(i, start, needed))
  OBVIOUS
<1>17. Start(i, x, good, u \o SetInode(e))
  BY <1>3, <1>5, <1>9, <1>13, <1>16
<1>18. Starts(i, x, good, u, e)
  BY <1>4, <1>8, <1>10, <1>12, <1>14, <1>15, <1>17 DEF Starts
<1>19. Truncates(i, len, x, good, u, e)
  BY <1>1, <1>2, <1>3, <1>5, <1>9, <1>13, <1>16, ZenonT(60) DEF Truncates
<1> QED BY <1>18, <1>19

LEMMA writeStarts ==
    ASSUME Inv, NEW i \in Inodes, NEW offset \in Nat, NEW bytes \in Seq(Bytes), write(i, offset, bytes)
    PROVE  \E x, good, u, e : Starts(i, x, good, u, e) /\ Overwrites(i, offset, bytes, x, good, u, e)
<1>1. PICK end, needed, len :
         end = offset + Len(bytes) /\ needed = sectors_for_len(end) /\ len = Larger(inode[i].len, end)
  OBVIOUS
<1>2. PICK x : x = [y \in 1 .. len |-> IF offset < y /\ y <= end THEN bytes[y - offset]
                                       ELSE Byte(content[i], y)]
  BY ZenonT(60)
<1>3. PICK byte : byte = [y \in offset .. end - 1 |-> bytes[y - offset + 1]]
  BY ZenonT(60)
<1>4. PICK start \in Places(i, needed) :
         Start(i, x, i \in intact /\ Spared(i, start, needed),
               Growth(i, start, needed) \o zero_range(start, inode[i].len, offset)
                 \o Patches(start, offset, end, byte)
                 \o SetInode([Grown(inode[i], start, needed) EXCEPT !.len = len]))
  BY <1>1, <1>2, <1>3, ZenonT(60) DEF write
<1>5. mounted /\ Idle /\ IsFile(i) /\ hidden' = hidden
  BY DEF write, IsFile
<1>6. PICK g : g = Grown(inode[i], start, needed)
  OBVIOUS
<1>7. Len(bytes) \in Nat /\ end \in Nat /\ offset <= end
  BY <1>1
<1>8. needed \in Nat /\ sectors_for_len(offset) \in Nat /\ sectors_for_len(offset) <= needed
  BY <1>1, <1>7, SectorsNeeded
<1>9. /\ g \in Entries /\ g.start = start /\ needed <= g.count /\ inode[i].count <= g.count
      /\ Extent(g) \subseteq Own(inode, i)
      /\ Growth(i, start, needed) \in Seq(Patch(inode, i) \cup Copy(inode, i))
  <2>1. IsFile(i) /\ needed \in Nat /\ start \in Places(i, needed)
    BY <1>5, <1>8
  <2>2. /\ g \in Entries /\ g.kind = "file" /\ g.start = start
        /\ needed <= g.count /\ inode[i].count <= g.count
        /\ Extent(g) \subseteq Own(inode, i)
        /\ Growth(i, start, needed) \in Seq(Patch(inode, i) \cup Copy(inode, i))
    BY <1>6, <2>1, Placed
  <2> QED BY <2>2
<1>10. /\ i # Root /\ inode[i].len \in Nat /\ start \in Nat /\ g.count \in Nat /\ inode[i].count \in Nat
      /\ sectors_for_len(inode[i].len) <= inode[i].count
  <2>1. inode[i] \in Entries /\ i # Root /\ sectors_for_len(inode[i].len) <= inode[i].count
    BY <1>5 DEF Inv, DiskInv, Sound, IsFile
  <2> QED BY <2>1, <1>9, EntryParts
<1>11. PICK e : e = [g EXCEPT !.len = len]
  BY ZenonT(60)
<1>12. e \in Entries /\ Sound(inode, i, e)
  <2>1. len \in Nat /\ (len = inode[i].len \/ len = end)
    BY <1>1, <1>7, <1>10 DEF Larger
  <2>2. sectors_for_len(inode[i].len) \in Nat
    BY <1>10, SectorsNeeded, ZenonT(60)
  <2>3. sectors_for_len(len) <= g.count
    BY <1>1, <1>8, <1>9, <1>10, <2>1, <2>2
  <2> QED BY <1>9, <1>10, <1>11, <2>1, <2>3, NewLength
<1>13. zero_range(start, inode[i].len, offset) \in Seq(Patch(inode, i) \cup Copy(inode, i))
  <2>1. sectors_for_len(offset) <= g.count
    BY <1>8, <1>9, <1>10
  <2>2. \A k \in 0 .. sectors_for_len(offset) - 1 : start + k \in Own(inode, i)
    BY <1>8, <1>9, <2>1, WithinExtent
  <2>3. [y \in inode[i].len .. offset - 1 |-> 0] \in [inode[i].len .. offset - 1 -> Bytes]
    BY FsAssumption
  <2> QED BY <1>10, <2>2, <2>3, PatchesOwn, ZenonT(60) DEF zero_range
<1>14. Patches(start, offset, end, byte) \in Seq(Patch(inode, i) \cup Copy(inode, i))
  <2>1. \A k \in 0 .. sectors_for_len(end) - 1 : start + k \in Own(inode, i)
    BY <1>1, <1>8, <1>9, WithinExtent
  <2>2. ASSUME NEW y \in offset .. end - 1 PROVE bytes[y - offset + 1] \in Bytes
    <3>1. y - offset + 1 \in 1 .. Len(bytes)
      BY <1>1, <1>7
    <3> QED BY <3>1
  <2>3. byte \in [offset .. end - 1 -> Bytes]
    BY <1>3, <2>2
  <2> QED BY <1>10, <1>7, <2>1, <2>3, PatchesOwn, ZenonT(60)
<1>15. x \in Seq(Bytes)
  <2>1. content[i] \in Seq(Bytes)
    BY DEF Inv, BookInv
  <2>2. len \in Nat
    BY <1>1, <1>7, <1>10 DEF Larger
  <2>3. ASSUME NEW y \in 1 .. len PROVE Byte(content[i], y) \in Bytes
    BY <2>1, <2>2, FsAssumption DEF Byte
  <2>4. ASSUME NEW y \in 1 .. len, offset < y, y <= end PROVE bytes[y - offset] \in Bytes
    <3>1. y - offset \in 1 .. Len(bytes)
      BY <1>1, <1>7, <2>2, <2>4
    <3> QED BY <3>1
  <2> QED BY <1>2, <2>2, <2>3, <2>4
<1>16. PICK u : u = Growth(i, start, needed) \o zero_range(start, inode[i].len, offset)
                       \o Patches(start, offset, end, byte)
  BY ZenonT(60)
<1>17. u \in Seq(Patch(inode, i) \cup Copy(inode, i))
  BY <1>9, <1>13, <1>14, <1>16, Concatenated, ZenonT(60)
<1>18. e.kind = "file" /\ e.name = inode[i].name /\ e.parent = inode[i].parent
  <2>1. PICK f \in Entries : f = inode[i] /\ f.kind = "file"
    BY <1>5 DEF IsFile, Inv, DiskInv
  <2>2. g = f \/ g = [f EXCEPT !.start = start, !.count = needed]
    BY <1>6, <2>1 DEF Grown
  <2>3. e.kind = "file" /\ e.name = f.name /\ e.parent = f.parent
    BY <1>11, <2>1, <2>2, ZenonT(60) DEF Entries
  <2> QED BY <2>1, <2>3
<1>19. PICK good : good = (i \in intact /\ Spared(i, start, needed))
  OBVIOUS
<1>20. Start(i, x, good, u \o SetInode(e))
  BY <1>4, <1>6, <1>11, <1>16, <1>19
<1>21. Starts(i, x, good, u, e)
  BY <1>5, <1>10, <1>12, <1>15, <1>17, <1>18, <1>20 DEF Starts
<1>22. Overwrites(i, offset, bytes, x, good, u, e)
  BY <1>1, <1>2, <1>3, <1>4, <1>6, <1>11, <1>16, <1>19, ZenonT(60) DEF Overwrites
<1> QED BY <1>21, <1>22

\* One more write.
LEMMA Appended ==
    ASSUME NEW S, NEW s \in Seq(S), NEW x \in S, NEW t, t = s \o <<x>>, NEW n, n = Len(s)
    PROVE  n \in Nat /\ t \in Seq(S) /\ Len(t) = n + 1 /\ t[n + 1] = x /\ \A k \in 1 .. n : t[k] = s[k]
  OBVIOUS

\* The writes of format: the table, the superblock, the root directory.
LEMMA FormatWrites ==
    ASSUME NEW w, w = [k \in 1 .. DATA_START |-> [write |-> "table", sector |-> k - 1]]
                        \o << [write |-> "super"] >> \o SetInode(RootEntry)
    PROVE  /\ w \in Seq(Steps(inode, Root)) /\ Len(w) = DATA_START + 2 /\ DATA_START \in Nat
           /\ \A k \in 1 .. DATA_START : w[k].write = "table"
           /\ w[DATA_START + 1].write = "super"
           /\ w[DATA_START + 2].write = "inode" /\ w[DATA_START + 2].entry = RootEntry
<1> DEFINE n == DATA_START
           T(k) == [write |-> "table", sector |-> k - 1]
           z == [k \in 1 .. n |-> T(k)]
           u == [write |-> "super"]
           r == [write |-> "inode", entry |-> RootEntry]
           S == Steps(inode, Root)
<1>1. n \in Nat
  BY FirstSector
<1>2. ASSUME NEW k \in 1 .. n PROVE T(k) \in S /\ T(k).write = "table"
  <2>1. k - 1 \in Nat
    BY <1>1
  <2> QED BY <2>1 DEF Steps
<1>3. u \in S /\ u.write = "super"
  BY DEF Steps
<1>4. r \in S /\ r.write = "inode" /\ r.entry = RootEntry
  <2>1. RootEntry \in {e \in Entries : Sound(inode, Root, e)}
    BY EmptyEntry DEF Sound
  <2> QED BY <2>1 DEF Steps
<1>5. w = z \o <<u>> \o <<r>>
  BY DEF SetInode
<1> HIDE DEF n, T, u, r, S
<1>6. z \in Seq(S) /\ Len(z) = n /\ \A k \in 1 .. n : z[k] = T(k)
  BY <1>1, <1>2
<1> HIDE DEF z
<1>7. PICK v : v = z \o <<u>>
  BY ZenonT(60)
<1>8. v \in Seq(S) /\ Len(v) = n + 1 /\ v[n + 1] = u /\ \A k \in 1 .. n : v[k] = z[k]
  BY <1>3, <1>6, <1>7, Appended
<1>9. w \in Seq(S) /\ Len(w) = n + 2 /\ w[n + 2] = r /\ \A k \in 1 .. n + 1 : w[k] = v[k]
  <2>1. PICK m, q : m = n + 1 /\ q = v \o <<r>>
    BY ZenonT(60)
  <2>2. q \in Seq(S) /\ Len(q) = m + 1 /\ q[m + 1] = r /\ \A k \in 1 .. m : q[k] = v[k]
    BY <1>4, <1>8, <2>1, Appended
  <2>3. m + 1 = n + 2
    BY <1>1, <2>1
  <2>4. w = q
    BY <1>5, <1>7, <2>1, ZenonT(60)
  <2> QED BY <2>1, <2>2, <2>3, <2>4, ZenonT(60)
<1>10. w[n + 1] = u /\ \A k \in 1 .. n : w[k] = T(k)
  <2>1. n + 1 \in 1 .. n + 1 /\ \A k \in 1 .. n : k \in 1 .. n + 1
    BY <1>1
  <2> QED BY <1>6, <1>8, <1>9, <2>1, ZenonT(60)
<1> QED BY <1>1, <1>2, <1>3, <1>4, <1>9, <1>10 DEF n, S

-----------------------------------------------------------------------------
(* Boots, users, stops and failures *)

\* What a step of a boot, a user or a failure is to the volume.
VolumeStep ==
    \/ mount
    \/ \E parent \in Inodes, name \in Names, kind \in {"file", "dir"} : create(parent, name, kind)
    \/ \E parent \in Inodes, name \in Names : remove(parent, name)
    \/ \E i \in Inodes, offset \in Nat, bytes \in Seq(Bytes) : write(i, offset, bytes)
    \/ \E i \in Inodes, len \in Nat : truncate(i, len)
    \/ PatchSector \/ CopySector \/ ZeroTable \/ WriteSuperblock \/ write_inode
    \/ Io \/ Crash
    \/ UNCHANGED vars

LEMMA StorageSteps == [StorageNext]_storageVars => VolumeStep

<0>BootSteps.
      BootStep => VolumeStep
  <1> SUFFICES ASSUME BootStep PROVE VolumeStep
    OBVIOUS
  <1>0. /\ marker \in Names /\ readme \in Names /\ MARKER \in Seq(Bytes) /\ README_TEXT \in Seq(Bytes)
        /\ Root \in Inodes /\ 0 \in Nat
    BY StorageAssumption, EmptyEntry
  <1>a. ASSUME NEW cause, Panic(cause) PROVE VolumeStep
    BY <1>a DEF Panic, diskVars, vars, VolumeStep
  <1>b. ASSUME NEW at, NEW name, NEW text \in Seq(Bytes), NEW next, Fill(at, name, text, next)
        PROVE  VolumeStep
    <2>1. PICK i \in RootHolds(name) :
             (write(i, 0, text) /\ Goto(next))
               \/ (Places(i, sectors_for_len(Len(text))) = {} /\ Panic("full"))
      BY <1>b DEF Fill
    <2>2. i \in Inodes
      BY <2>1, ChildrenInodes DEF RootHolds
    <2>3. CASE write(i, 0, text)
      BY <1>0, <2>2, <2>3 DEF VolumeStep
    <2>4. CASE Panic("full")
      BY <1>a, <2>4
    <2> QED BY <2>1, <2>3, <2>4
  <1>1. CASE Mount
    <2>1. mount \/ Panic("corrupt")
      BY <1>1 DEF Mount
    <2> QED BY <1>a, <2>1 DEF VolumeStep
  <1>2. CASE Formatted \/ MarkerWritten \/ ReadmeWritten
    <2>1. UNCHANGED vars
      BY <1>2, ZenonT(60) DEF Formatted, MarkerWritten, ReadmeWritten, diskVars, vars
    <2> QED BY <2>1 DEF VolumeStep
  <1>3. CASE FindMarker
    <2>1. (UNCHANGED mounted /\ UNCHANGED diskVars) \/ Panic("corrupt")
      BY <1>3 DEF FindMarker
    <2>2. CASE UNCHANGED mounted /\ UNCHANGED diskVars
      BY <2>2 DEF diskVars, vars, VolumeStep
    <2> QED BY <1>a, <2>1, <2>2
  <1>4. CASE CreateMarker
    <2>1. create(Root, marker, "file") \/ Panic("full")
      BY <1>4 DEF CreateMarker
    <2> QED BY <1>0, <1>a, <2>1 DEF VolumeStep
  <1>5. CASE WriteMarker
    BY <1>0, <1>5, <1>b, ZenonT(60) DEF WriteMarker
  <1>6. CASE WriteReadme
    BY <1>0, <1>6, <1>b, ZenonT(60) DEF WriteReadme
  <1>7. CASE SeedReadme
    <2>1. \/ create(Root, readme, "file")
          \/ \E i \in RootHolds(readme) : truncate(i, 0)
          \/ Panic("corrupt") \/ Panic("full")
      BY <1>7, ZenonT(60) DEF SeedReadme
    <2>2. CASE create(Root, readme, "file")
      BY <1>0, <2>2 DEF VolumeStep
    <2>3. CASE \E i \in RootHolds(readme) : truncate(i, 0)
      <3>1. PICK i \in RootHolds(readme) : truncate(i, 0)
        BY <2>3
      <3>2. i \in Inodes
        BY <3>1, ChildrenInodes DEF RootHolds
      <3> QED BY <1>0, <3>1, <3>2 DEF VolumeStep
    <2> QED BY <1>a, <2>1, <2>2, <2>3
  <1>8. CASE SectorWrite
    BY <1>8 DEF SectorWrite, VolumeStep
  <1> QED BY <1>1, <1>2, <1>3, <1>4, <1>5, <1>6, <1>7, <1>8 DEF BootStep

<0>UserSteps.
      UserStep => VolumeStep
  <1> SUFFICES ASSUME UserStep PROVE VolumeStep
    OBVIOUS
  <1>1. CASE \E p \in Inodes, n \in Names, k \in Kinds : create(p, n, k)
    <2>1. Kinds \subseteq {"file", "dir"}
      BY FsAssumption
    <2> QED BY <1>1, <2>1 DEF VolumeStep
  <1>2. CASE \E p \in Inodes, n \in Names : remove(p, n)
    BY <1>2 DEF VolumeStep
  <1>3. CASE \E i \in Inodes, w \in Writes : write(i, w.offset, w.bytes)
    <2>1. PICK i \in Inodes, w \in Writes : write(i, w.offset, w.bytes)
      BY <1>3
    <2>2. PICK offset \in Nat, bytes \in Seq(Bytes) : offset = w.offset /\ bytes = w.bytes
      BY FsAssumption
    <2>3. write(i, offset, bytes)
      BY <2>1, <2>2
    <2> QED BY <2>3 DEF VolumeStep
  <1>4. CASE \E i \in Inodes, len \in Lengths : truncate(i, len)
    <2>1. Lengths \subseteq Nat
      BY FsAssumption
    <2> QED BY <1>4, <2>1 DEF VolumeStep
  <1> QED BY <1>1, <1>2, <1>3, <1>4 DEF UserStep
<0> QED
  <1>1. IoError \/ Stop => VolumeStep
    BY DEF IoError, Stop, VolumeStep
  <1>2. UNCHANGED storageVars => VolumeStep
    BY DEF storageVars, vars, VolumeStep
  <1> QED BY <1>1, <1>2, <0>BootSteps, <0>UserSteps DEF StorageNext

\* Every step of the volume, its boots and its users keeps the volume sound, and
\* changes no file but the one that the running operation works on.
LEMMA StepSound == Inv /\ VolumeStep => Inv' /\ OthersUntouched

\* An idle volume with the inode table unchanged is as sound as before.
<0>Stopped.
      ASSUME Inv, todo' = <<>>, op' = NoOp, UNCHANGED <<magic, inode, data, content, intact, hidden>>,
             mounted' = mounted \/ mounted' = FALSE
      PROVE  Inv'
  <1> USE <0>Stopped
  <1>1. DiskInv' /\ BookInv'
    BY DEF Inv, DiskInv, BookInv
  <1>2. TodoInv'
    BY DEF Inv, TodoInv, NoOp
  <1>3. MagicInv'
    <2>1. mounted' \in BOOLEAN /\ magic' \in BOOLEAN /\ (mounted' => magic')
      <3>1. mounted \in BOOLEAN /\ magic \in BOOLEAN /\ (mounted => magic)
        BY DEF Inv, MagicInv
      <3>2. CASE mounted' = mounted
        BY <3>1, <3>2
      <3>3. CASE mounted' = FALSE
        BY <3>1, <3>3, ZenonT(60)
      <3> QED BY <3>2, <3>3, ZenonT(60)
    <2>2. ~magic' => Blank(inode)'
      BY DEF Inv, MagicInv, Blank
    <2> QED BY <2>1, <2>2 DEF MagicInv
  <1> QED BY <1>1, <1>2, <1>3 DEF Inv

\* The writes that remain after the first are in order as well.
<0>Onwards.
      ASSUME Inv, todo # <<>>, todo' = Tail(todo), op' = op, mounted' = mounted,
             Steps(inode', op.inode) = Steps(inode, op.inode), Blank(inode) => Blank(inode'),
             IF Head(todo).write = "super" THEN magic' = TRUE ELSE magic' = magic
      PROVE  TodoInv' /\ MagicInv'
  <1> USE <0>Onwards
  <1> DEFINE S == Steps(inode, op.inode)
  <1>1. todo \in Seq(S)
    BY DEF Inv, TodoInv
  <1> HIDE DEF S
  <1>2. /\ Len(todo) \in Nat \ {0} /\ Head(todo) = todo[1]
        /\ todo' \in Seq(S) /\ Len(todo') = Len(todo) - 1
        /\ \A k \in 1 .. Len(todo) - 1 : todo'[k] = todo[k + 1]
    BY <1>1, HeadAndTail
  <1>3. Head(todo).write = "super" => Len(todo) - 1 = 1
    <2>1. 1 \in 1 .. Len(todo)
      BY <1>2
    <2> QED BY <1>2, <2>1, ZenonT(60) DEF Inv, TodoInv
  <1>4. TodoInv'
    <2>1. todo' \in Seq(Steps(inode', op'.inode))
      BY <1>2 DEF S
    <2>2. ASSUME NEW k \in 1 .. Len(todo')
          PROVE  /\ todo'[k].write = "inode" => k = Len(todo')
                 /\ todo'[k].write = "super" => k = Len(todo') - 1 /\ ~mounted' /\ Blank(inode')
                 /\ todo'[k].write = "table" => k < Len(todo') - 1 /\ ~mounted' /\ Blank(inode') /\ ~magic'
      <3>1. /\ k + 1 \in 1 .. Len(todo) /\ todo'[k] = todo[k + 1]
            /\ k + 1 = Len(todo) => k = Len(todo')
            /\ k + 1 = Len(todo) - 1 => k = Len(todo') - 1
            /\ k + 1 < Len(todo) - 1 => k < Len(todo') - 1
            /\ Len(todo) - 1 = 1 => ~(k + 1 < Len(todo) - 1)
        BY <1>1, InTail
      <3>2. /\ todo[k + 1].write = "inode" => k + 1 = Len(todo)
            /\ todo[k + 1].write = "super" => k + 1 = Len(todo) - 1 /\ ~mounted /\ Blank(inode)
            /\ todo[k + 1].write = "table" =>
                  k + 1 < Len(todo) - 1 /\ ~mounted /\ Blank(inode) /\ ~magic
        BY <3>1 DEF Inv, TodoInv
      <3>3. todo'[k].write = "inode" => k = Len(todo')
        BY <3>1, <3>2, ZenonT(60)
      <3>4. todo'[k].write = "super" => k = Len(todo') - 1 /\ ~mounted' /\ Blank(inode')
        BY <3>1, <3>2, ZenonT(60)
      <3>5. todo'[k].write = "table" => k < Len(todo') - 1 /\ ~mounted' /\ Blank(inode') /\ ~magic'
        BY <1>3, <3>1, <3>2, ZenonT(60)
      <3> QED BY <3>3, <3>4, <3>5
    <2>3. op.inode \in Inodes /\ op.expected \in Seq(Bytes)
      BY DEF Inv, TodoInv
    <2> QED BY <2>1, <2>2, <2>3 DEF TodoInv
  <1>5. CASE magic' = magic /\ Head(todo).write # "super"
    <2>1. ASSUME ~magic', todo' # <<>> PROVE Len(todo') >= 2 /\ todo'[Len(todo') - 1].write = "super"
      <3>1. Len(todo) >= 2 /\ todo[Len(todo) - 1].write = "super"
        BY <1>5, <2>1 DEF Inv, MagicInv
      <3>2. Len(todo) - 1 # 1
        BY <1>2, <1>5, <3>1
      <3>3. Len(todo) >= 3 /\ Len(todo) - 2 \in 1 .. Len(todo) - 1
        BY <1>2, <3>1, <3>2
      <3>4. todo'[Len(todo) - 2] = todo[Len(todo) - 1]
        BY <1>2, <3>3
      <3> QED BY <1>2, <3>1, <3>3, <3>4
    <2> QED BY <1>4, <1>5, <2>1 DEF Inv, MagicInv
  <1>6. CASE magic' = TRUE
    BY <1>4, <1>6 DEF Inv, MagicInv
  <1>7. (magic' = magic /\ Head(todo).write # "super") \/ magic' = TRUE
    OBVIOUS
  <1> QED BY <1>4, <1>5, <1>6, <1>7, ZenonT(60)

\* Touch keeps the books.
<0>TouchBooks.
      ASSUME Inv, NEW s, Touch(s), hidden' = hidden
      PROVE  BookInv'
  <1> USE <0>TouchBooks
  <1>1. <<>> \in Seq(Bytes)
    OBVIOUS
  <1> QED BY <1>1, ZenonT(60) DEF Inv, BookInv, Touch

\* A sector of the operation's own gets new bytes: nothing else changes.
<0>OwnSectorWritten.
      ASSUME Inv, todo # <<>>, Head(todo).write \in {"patch", "copy"},
             NEW s \in Own(inode, op.inode), NEW v \in Sector, data' = [data EXCEPT ![s] = v],
             Touch(s), todo' = Tail(todo), UNCHANGED <<mounted, magic, inode, op, hidden>>
      PROVE  Inv' /\ OthersUntouched
  <1> USE <0>OwnSectorWritten
  <1>1. s \in DataSectors /\ data \in [DataSectors -> Sector]
    BY DEF Inv, DiskInv, Own
  <1>2. DiskInv'
    BY <1>1 DEF Inv, DiskInv
  <1>3. BookInv'
    BY <0>TouchBooks
  <1>4. TodoInv' /\ MagicInv'
    <2>1. Steps(inode', op.inode) = Steps(inode, op.inode) /\ (Blank(inode) => Blank(inode'))
      OBVIOUS
    <2> QED BY <2>1, <0>Onwards, ZenonT(60)
  <1>5. ASSUME NEW j \in Inodes, op.inode # j, IsFile(j) PROVE read(j)' = read(j)
    <2>1. s \notin Extent(inode[j])
      BY <1>5, ZenonT(60) DEF Own, IsFile
    <2>2. Extent(inode[j]) \subseteq DataSectors
      BY <1>5 DEF Inv, DiskInv, Sound, Own, IsFile
    <2>3. \A x \in Extent(inode[j]) : data'[x] = data[x]
      BY <1>1, <2>1, <2>2
    <2>4. inode'[j] = inode[j]
      OBVIOUS
    <2> QED BY <1>5, <2>3, <2>4, ReadsOwn, ZenonT(60)
  <1>6. OthersUntouched
    BY <1>5, ZenonT(60) DEF OthersUntouched
  <1> QED BY <1>2, <1>3, <1>4, <1>6 DEF Inv

<0>PatchSectorStep.
      Inv /\ PatchSector => Inv' /\ OthersUntouched
  <1> SUFFICES ASSUME Inv, PatchSector PROVE Inv' /\ OthersUntouched
    OBVIOUS
  <1>1. todo # <<>> /\ Head(todo).write = "patch" /\ todo' = Tail(todo)
        /\ UNCHANGED <<mounted, magic, inode, op, hidden>>
    BY DEF PatchSector, Idle
  <1>2. PICK s, b : s = Head(todo).sector /\ b = Head(todo).bytes
    OBVIOUS
  <1>3. s \in Own(inode, op.inode) /\ b \in Part
    BY <1>1, <1>2, FirstStep, StepParts, ZenonT(60)
  <1> DEFINE v == [p \in Positions |-> IF p \in DOMAIN b THEN b[p] ELSE data[s][p]]
  <1>4. s \in DataSectors /\ data[s] \in Sector
    BY <1>3 DEF Inv, DiskInv, Own
  <1>5. v \in Sector
    <2>1. PICK D \in SUBSET Positions : b \in [D -> Bytes]
      BY <1>3, ZenonT(60) DEF Part
    <2>2. ASSUME NEW p \in Positions PROVE v[p] \in Bytes
      BY <1>4, <2>1 DEF Sector
    <2> QED BY <2>2 DEF Sector
  <1>6. data \in [DataSectors -> Sector]
    BY DEF Inv, DiskInv
  <1>7. data' = [data EXCEPT ![s] = v] /\ Touch(s)
    BY <1>2, <1>4, <1>6 DEF PatchSector
  <1> HIDE DEF v
  <1> QED BY <1>1, <1>3, <1>5, <1>7, <0>OwnSectorWritten, ZenonT(60)

<0>CopySectorStep.
      Inv /\ CopySector => Inv' /\ OthersUntouched
  <1> SUFFICES ASSUME Inv, CopySector PROVE Inv' /\ OthersUntouched
    OBVIOUS
  <1>1. todo # <<>> /\ Head(todo).write = "copy" /\ todo' = Tail(todo)
        /\ UNCHANGED <<mounted, magic, inode, op, hidden>>
    BY DEF CopySector, Idle
  <1>2. PICK s, f : s = Head(todo).sector /\ f = Head(todo).from
    OBVIOUS
  <1>3. s \in Own(inode, op.inode) /\ f \in DataSectors
    BY <1>1, <1>2, FirstStep, StepParts
  <1>4. data[f] \in Sector
    BY <1>3 DEF Inv, DiskInv
  <1>5. data' = [data EXCEPT ![s] = data[f]] /\ Touch(s)
    BY <1>2 DEF CopySector
  <1> QED BY <1>1, <1>3, <1>4, <1>5, <0>OwnSectorWritten, ZenonT(60)

<0>ZeroTableStep.
      Inv /\ ZeroTable => Inv' /\ OthersUntouched
  <1> SUFFICES ASSUME Inv, ZeroTable PROVE Inv' /\ OthersUntouched
    OBVIOUS
  <1>1. todo # <<>> /\ Head(todo).write = "table" /\ todo' = Tail(todo) /\ op' = op
        /\ mounted' = mounted /\ UNCHANGED <<data, content, intact, hidden>>
    BY DEF ZeroTable, Idle
  <1>2. ~mounted /\ Blank(inode)
    <2>1. todo[1].write = "table" /\ 1 \in 1 .. Len(todo)
      BY <1>1, FirstStep
    <2> QED BY <2>1 DEF Inv, TodoInv
  <1>3. inode' \in [Inodes -> Entries] /\ Blank(inode')
    <2>1. Empty \in Entries /\ Empty.kind = "free"
      BY FsAssumption DEF Empty, Entries
    <2>2. PICK c \in [Inodes -> BOOLEAN] : inode' = [i \in Inodes |-> IF c[i] THEN Empty ELSE inode[i]]
      <3>1. [i \in Inodes |-> INODE_TABLE_START + (i - 1) \div INODES_PER_SECTOR = Head(todo).sector]
              \in [Inodes -> BOOLEAN]
        OBVIOUS
      <3>2. inode' = [i \in Inodes |->
                        IF [k \in Inodes |-> INODE_TABLE_START + (k - 1) \div INODES_PER_SECTOR = Head(todo).sector][i]
                        THEN Empty ELSE inode[i]]
        BY ZenonT(60) DEF ZeroTable
      <3> QED BY <3>1, <3>2, ZenonT(60)
    <2>3. inode \in [Inodes -> Entries]
      BY DEF Inv, DiskInv
    <2> QED BY <1>2, <2>1, <2>2, <2>3 DEF Blank
  <1>4. DiskInv' /\ BookInv'
    BY <1>1, <1>3 DEF Inv, DiskInv, BookInv, Blank, Sound
  <1>5. \A i : Own(inode', i) = Own(inode, i)
    BY <1>2, <1>3 DEF Blank, Own
  <1>6. Steps(inode', op.inode) = Steps(inode, op.inode)
    BY <1>5 DEF Steps, Patch, Copy, Sound
  <1>7. magic' = magic
    <2>1. ~magic
      <3>1. todo[1].write = "table" /\ 1 \in 1 .. Len(todo)
        BY <1>1, FirstStep
      <3> QED BY <3>1 DEF Inv, TodoInv
    <2>2. magic \in BOOLEAN
      BY DEF Inv, MagicInv
    <2> QED BY <2>1, <2>2, ZenonT(60) DEF ZeroTable
  <1>8. TodoInv' /\ MagicInv'
    BY <1>1, <1>3, <1>6, <1>7, <0>Onwards, ZenonT(60)
  <1>9. OthersUntouched
    BY <1>2 DEF OthersUntouched, IsLive, Blank
  <1> QED BY <1>4, <1>8, <1>9 DEF Inv

<0>WriteSuperblockStep.
      Inv /\ WriteSuperblock => Inv' /\ OthersUntouched
  <1> SUFFICES ASSUME Inv, WriteSuperblock PROVE Inv' /\ OthersUntouched
    OBVIOUS
  <1>1. /\ todo # <<>> /\ Head(todo).write = "super" /\ magic' = TRUE /\ todo' = Tail(todo)
        /\ mounted' = mounted /\ inode' = inode /\ op' = op /\ UNCHANGED <<data, content, intact, hidden>>
    BY DEF WriteSuperblock, Idle
  <1>2. TodoInv' /\ MagicInv'
    <2>1. Steps(inode', op.inode) = Steps(inode, op.inode) /\ (Blank(inode) => Blank(inode'))
      BY <1>1
    <2> QED BY <1>1, <2>1, <0>Onwards
  <1>3. DiskInv' /\ BookInv'
    BY <1>1 DEF Inv, DiskInv, BookInv
  <1>4. OthersUntouched
    BY <1>1 DEF OthersUntouched, read, IsFile
  <1> QED BY <1>2, <1>3, <1>4 DEF Inv

<0>write_inodeStep.
      Inv /\ write_inode => Inv' /\ OthersUntouched
  <1> SUFFICES ASSUME Inv, write_inode PROVE Inv' /\ OthersUntouched
    OBVIOUS
  <1>1. /\ todo # <<>> /\ Head(todo).write = "inode" /\ todo' = Tail(todo) /\ op' = NoOp
        /\ mounted' = TRUE /\ UNCHANGED <<magic, data, hidden>>
    BY DEF write_inode, Idle
  <1>2. PICK i \in Inodes, e \in Entries :
           /\ i = op.inode /\ e = Head(todo).entry /\ Sound(inode, i, e)
           /\ inode' = [inode EXCEPT ![i] = e]
           /\ content' = [content EXCEPT ![i] = op.expected] /\ op.expected \in Seq(Bytes)
           /\ intact' \subseteq intact \cup {i}
    <2>1. op.inode \in Inodes /\ op.expected \in Seq(Bytes) /\ Head(todo) \in Steps(inode, op.inode)
      BY <1>1, FirstStep
    <2>2. Head(todo).entry \in Entries /\ Sound(inode, op.inode, Head(todo).entry)
      BY <1>1, <2>1, StepParts
    <2>3. intact' \subseteq intact \cup {op.inode}
      BY DEF write_inode
    <2> QED BY <2>1, <2>2, <2>3, ZenonT(60) DEF write_inode
  <1>3. Len(todo) = 1 /\ todo' = <<>>
    <2>1. todo \in Seq(Steps(inode, op.inode)) /\ (todo[1].write = "inode" => 1 = Len(todo))
      BY <1>1, FirstStep, ZenonT(60) DEF Inv, TodoInv
    <2>2. Len(todo) = 1
      BY <1>1, <2>1, FirstStep
    <2>3. Tail(todo) \in Seq(Steps(inode, op.inode)) /\ Len(Tail(todo)) = 0
      BY <1>1, <2>1, <2>2, HeadAndTail
    <2> QED BY <1>1, <2>2, <2>3
  <1>4. magic = TRUE
    BY <1>1, <1>3 DEF Inv, MagicInv
  <1>5. inode \in [Inodes -> Entries] /\ \A j \in Inodes : Sound(inode, j, inode[j])
    BY DEF Inv, DiskInv
  <1>6. inode' \in [Inodes -> Entries] /\ inode'[i] = e /\ \A j \in Inodes : j # i => inode'[j] = inode[j]
    BY <1>2, <1>5
  <1>7. ASSUME NEW j \in Inodes PROVE Sound(inode', j, inode'[j])
    <2>1. CASE j = i
      <3>1. Own(inode', i) = Own(inode, i)
        BY <1>6 DEF Own
      <3> QED BY <1>2, <1>6, <2>1, <3>1, ZenonT(60) DEF Sound
    <2>2. CASE j # i
      <3>1. inode'[j] = inode[j] /\ Sound(inode, j, inode[j])
        BY <1>5, <1>6, <2>2
      <3>2. ASSUME inode[j].kind = "file" PROVE Extent(inode[j]) \subseteq Own(inode', j)
        <4>1. Extent(inode[j]) \subseteq Own(inode, j)
          BY <3>1, <3>2 DEF Sound
        <4>2. e.kind = "file" => \A s \in Extent(e) : s \notin Extent(inode[j])
          BY <1>2, <2>2, <3>2 DEF Sound, Own
        <4> QED BY <1>6, <4>1, <4>2 DEF Own
      <3> QED BY <3>1, <3>2 DEF Sound
    <2> QED BY <2>1, <2>2
  <1>8. DiskInv'
    BY <1>1, <1>6, <1>7 DEF Inv, DiskInv
  <1>9. BookInv'
    BY <1>1, <1>2 DEF Inv, BookInv
  <1>10. TodoInv' /\ MagicInv'
    <2>1. TodoInv'
      <3>1. todo' \in Seq(Steps(inode', op'.inode)) /\ todo' = <<>>
        BY <1>3
      <3>2. \A k \in 1 .. Len(todo') : FALSE
        BY <1>3
      <3>3. op'.inode = 0
        BY <1>1 DEF NoOp
      <3> QED BY <3>1, <3>2, <3>3 DEF TodoInv
    <2>2. magic' = TRUE /\ mounted' = TRUE
      BY <1>1, <1>4
    <2>3. MagicInv'
      BY <2>2 DEF MagicInv
    <2> QED BY <2>1, <2>3
  <1>11. OthersUntouched
    BY <1>1, <1>2, <1>6, ZenonT(60) DEF OthersUntouched, read
  <1> QED BY <1>8, <1>9, <1>10, <1>11 DEF Inv

<0>StopStep.
      Inv /\ (Io \/ Crash) => Inv' /\ OthersUntouched
  <1> SUFFICES ASSUME Inv, Io \/ Crash PROVE Inv' /\ OthersUntouched
    OBVIOUS
  <1>1. todo' = <<>> /\ op' = NoOp /\ UNCHANGED <<magic, inode, data, content, intact, hidden>>
    BY DEF Io, Crash
  <1>2. mounted' = mounted \/ mounted' = FALSE
    BY DEF Io, Crash
  <1>3. Inv'
    BY <1>1, <1>2, <0>Stopped, ZenonT(60)
  <1>4. OthersUntouched
    BY <1>1, ZenonT(60) DEF OthersUntouched, read
  <1> QED BY <1>3, <1>4

\* Starting an operation leaves the disk alone.
<0>StartUntouched.
      ASSUME UNCHANGED <<inode, data>>
      PROVE  OthersUntouched
  <1> USE <0>StartUntouched
  <1> QED BY DEF OthersUntouched, read

\* An operation on a mounted volume starts soundly if all it will write before
\* the inode goes to sectors of its own, and the inode is sound.
<0>StartSound.
      ASSUME Inv, mounted, Idle, NEW i \in Inodes, NEW x \in Seq(Bytes), NEW g,
             NEW u \in Seq(Patch(inode, i) \cup Copy(inode, i)),
             NEW e \in Entries, Sound(inode, i, e), NEW w, w = u \o SetInode(e), Start(i, x, g, w),
             hidden' \in BOOLEAN
      PROVE  Inv' /\ OthersUntouched
  <1> USE <0>StartSound
  <1>1. /\ op' = [inode |-> i, expected |-> x, good |-> g] /\ todo' = w
        /\ mounted' = mounted /\ magic' = magic /\ inode' = inode /\ data' = data
        /\ content' = content /\ intact' = intact
    BY DEF Start
  <1>2. /\ w \in Seq(Steps(inode, i))
        /\ \A k \in 1 .. Len(w) : w[k].write = "inode" => k = Len(w)
        /\ \A k \in 1 .. Len(w) : w[k].write \notin {"table", "super"}
    BY ThenInode, ZenonT(60)
  <1>3. op'.inode = i /\ op'.expected = x
    BY <1>1
  <1>4. TodoInv'
    <2>1. todo' \in Seq(Steps(inode', op'.inode))
      BY <1>1, <1>2, <1>3, ZenonT(60)
    <2>2. ASSUME NEW k \in 1 .. Len(todo')
          PROVE  /\ todo'[k].write = "inode" => k = Len(todo')
                 /\ todo'[k].write # "super" /\ todo'[k].write # "table"
      BY <1>1, <1>2, ZenonT(60)
    <2> QED BY <1>3, <2>1, <2>2, ZenonT(60) DEF TodoInv
  <1>5. MagicInv'
    <2>1. magic = TRUE /\ mounted = TRUE
      BY DEF Inv, MagicInv
    <2>2. magic' = TRUE /\ mounted' = TRUE
      BY <1>1, <2>1
    <2> QED BY <2>2 DEF MagicInv
  <1>6. DiskInv' /\ BookInv'
    BY <1>1 DEF Inv, DiskInv, BookInv
  <1>7. OthersUntouched
    BY <1>1, <0>StartUntouched
  <1> QED BY <1>4, <1>5, <1>6, <1>7 DEF Inv

<0>createStep.
      ASSUME Inv, NEW parent \in Inodes, NEW name \in Names, NEW kind \in {"file", "dir"},
             create(parent, name, kind)
      PROVE  Inv' /\ OthersUntouched
  <1> USE <0>createStep
  <1> DEFINE e == [Empty EXCEPT !.kind = kind, !.name = name, !.parent = parent]
  <1>1. PICK i \in Inodes : IsAllocated(i) /\ Start(i, <<>>, TRUE, SetInode(e))
    BY ZenonT(60) DEF create
  <1>2. mounted /\ Idle /\ hidden' \in BOOLEAN
    BY ZenonT(60) DEF create, Inv, BookInv
  <1>3. e \in Entries /\ e.start = 0 /\ e.count = 0 /\ e.len = 0
    BY EmptyEntry, ZenonT(60) DEF Entries, Empty
  <1>4. i # Root
    BY <1>1 DEF IsAllocated, Root
  <1>5. Sound(inode, i, e)
    <2>1. Extent(e) = {}
      BY <1>3 DEF Extent
    <2>2. sectors_for_len(0) = 0
      <3>1. SECTOR_SIZE \in Nat \ {0}
        BY SectorsNeeded
      <3> QED BY <3>1 DEF sectors_for_len
    <2> QED BY <1>3, <1>4, <2>1, <2>2 DEF Sound
  <1> HIDE DEF e
  <1>6. <<>> \in Seq(Bytes) /\ <<>> \in Seq(Patch(inode, i) \cup Copy(inode, i))
        /\ SetInode(e) = <<>> \o SetInode(e)
    BY OnlyInode
  <1> QED BY <1>1, <1>2, <1>3, <1>5, <1>6, <0>StartSound, ZenonT(60)

<0>removeStep.
      ASSUME Inv, NEW parent \in Inodes, NEW name \in Names, remove(parent, name)
      PROVE  Inv' /\ OthersUntouched
  <1> USE <0>removeStep
  <1>1. PICK i \in Inodes : Start(i, <<>>, TRUE, SetInode(Empty))
    <2>1. PICK i \in find_child(parent, name) : Start(i, <<>>, TRUE, SetInode(Empty))
      BY ZenonT(60) DEF remove
    <2>2. i \in Inodes
      BY ChildrenInodes
    <2> QED BY <2>1, <2>2, ZenonT(60)
  <1>2. mounted /\ Idle /\ hidden' \in BOOLEAN
    BY DEF remove, Inv, BookInv
  <1>3. Empty \in Entries /\ Sound(inode, i, Empty)
    BY EmptyEntry DEF Sound
  <1>4. <<>> \in Seq(Bytes) /\ <<>> \in Seq(Patch(inode, i) \cup Copy(inode, i))
        /\ SetInode(Empty) = <<>> \o SetInode(Empty)
    BY OnlyInode
  <1> QED BY <1>1, <1>2, <1>3, <1>4, <0>StartSound, ZenonT(60)

<0>StartsSound.
      ASSUME Inv, NEW i \in Inodes, NEW x, NEW good, NEW u, NEW e, Starts(i, x, good, u, e)
      PROVE  Inv' /\ OthersUntouched
  <1> USE <0>StartsSound
  <1>1. hidden' \in BOOLEAN
    BY ZenonT(60) DEF Starts, Inv, BookInv
  <1>2. PICK w : w = u \o SetInode(e)
    BY ZenonT(60)
  <1> QED BY <1>1, <1>2, <0>StartSound, ZenonT(60) DEF Starts

<0>truncateStep.
      ASSUME Inv, NEW i \in Inodes, NEW len \in Nat, truncate(i, len)
      PROVE  Inv' /\ OthersUntouched
  <1> USE <0>truncateStep
  <1> QED BY truncateStarts, <0>StartsSound

<0>writeStep.
      ASSUME Inv, NEW i \in Inodes, NEW offset \in Nat, NEW bytes \in Seq(Bytes), write(i, offset, bytes)
      PROVE  Inv' /\ OthersUntouched
  <1> USE <0>writeStep
  <1>1. PICK x, good, u, e : Starts(i, x, good, u, e)
    BY writeStarts
  <1> QED BY <1>1, <0>StartsSound

<0>mountStep.
      Inv /\ mount => Inv' /\ OthersUntouched
  <1> SUFFICES ASSUME Inv, mount PROVE Inv' /\ OthersUntouched
    OBVIOUS
  <1>1. ~mounted /\ todo = <<>>
    BY DEF mount, Idle
  <1>2. CASE magic /\ mounted' = TRUE /\ UNCHANGED <<magic, inode, data, todo, op, content, intact, hidden>>
    <2>1. DiskInv' /\ BookInv'
      BY <1>2 DEF Inv, DiskInv, BookInv
    <2>2. \A k \in 1 .. Len(todo') : FALSE
      BY <1>1, <1>2
    <2>3. TodoInv'
      BY <1>1, <1>2, <2>2 DEF Inv, TodoInv
    <2>4. magic' = TRUE
      BY <1>2 DEF Inv, MagicInv
    <2>5. MagicInv'
      BY <1>2, <2>4 DEF MagicInv
    <2>6. OthersUntouched
      BY <1>2, <0>StartUntouched
    <2> QED BY <2>1, <2>3, <2>5, <2>6 DEF Inv
  <1>3. CASE ~magic /\ format
    <2>1. PICK w : w = [k \in 1 .. DATA_START |-> [write |-> "table", sector |-> k - 1]]
                         \o << [write |-> "super"] >> \o SetInode(RootEntry)
      BY ZenonT(60)
    <2>2. /\ op' = [inode |-> Root, expected |-> <<>>, good |-> TRUE] /\ todo' = w /\ mounted' = mounted
          /\ magic' = magic /\ inode' = inode /\ data' = data
          /\ UNCHANGED <<content, intact, hidden>>
      BY <1>3, <2>1 DEF format, Start
    <2>3. /\ w \in Seq(Steps(inode, Root)) /\ Len(w) = DATA_START + 2 /\ DATA_START \in Nat
          /\ \A k \in 1 .. DATA_START : w[k].write = "table"
          /\ w[DATA_START + 1].write = "super" /\ w[DATA_START + 2].write = "inode"
      BY <2>1, FormatWrites, ZenonT(60)
    <2>4. DiskInv' /\ BookInv'
      BY <2>2 DEF Inv, DiskInv, BookInv
    <2>5. Blank(inode') /\ ~magic' /\ ~mounted'
      BY <1>1, <1>3, <2>2 DEF Inv, MagicInv
    <2>6. TodoInv'
      <3>1. op'.inode = Root /\ op'.expected = <<>> /\ Root \in Inodes
        BY <2>2, EmptyEntry
      <3>2. ASSUME NEW k \in 1 .. Len(w)
            PROVE  /\ w[k].write = "inode" => k = Len(w)
                   /\ w[k].write = "super" => k = Len(w) - 1
                   /\ w[k].write = "table" => k < Len(w) - 1
        <4>1. k \in 1 .. DATA_START \/ k = DATA_START + 1 \/ k = DATA_START + 2
          BY <2>3
        <4>2. CASE k \in 1 .. DATA_START
          BY <2>3, <4>2
        <4>3. CASE k = DATA_START + 1
          BY <2>3, <4>3
        <4>4. CASE k = DATA_START + 2
          BY <2>3, <4>4
        <4> QED BY <4>1, <4>2, <4>3, <4>4
      <3>3. todo' \in Seq(Steps(inode', op'.inode)) /\ op'.expected \in Seq(Bytes)
        BY <2>2, <2>3, <3>1
      <3>4. todo' = w
        BY <2>2
      <3> QED BY <2>5, <3>1, <3>2, <3>3, <3>4 DEF TodoInv
    <2>7. MagicInv'
      <3>1. Len(w) >= 2 /\ Len(w) - 1 = DATA_START + 1
        BY <2>3
      <3>2. mounted' \in BOOLEAN /\ magic' \in BOOLEAN
        BY <2>2 DEF Inv, MagicInv
      <3> QED BY <2>2, <2>3, <2>5, <3>1, <3>2, ZenonT(60) DEF MagicInv
    <2>8. OthersUntouched
      BY <2>2, <0>StartUntouched
    <2> QED BY <2>4, <2>6, <2>7, <2>8 DEF Inv
  <1> QED BY <1>2, <1>3, ZenonT(60) DEF mount

\* A step that leaves the volume as it is.
<0>NothingStep.
      Inv /\ UNCHANGED vars => Inv' /\ OthersUntouched
  <1> SUFFICES ASSUME Inv, UNCHANGED vars PROVE Inv' /\ OthersUntouched
    OBVIOUS
  <1>1. DiskInv' /\ BookInv'
    BY DEF vars, Inv, DiskInv, BookInv
  <1>2. TodoInv' /\ MagicInv'
    BY ZenonT(60) DEF vars, Inv, TodoInv, MagicInv
  <1>3. OthersUntouched
    BY <0>StartUntouched DEF vars
  <1> QED BY <1>1, <1>2, <1>3 DEF Inv
<0> QED
  <1> SUFFICES ASSUME Inv, VolumeStep PROVE Inv' /\ OthersUntouched
    OBVIOUS
  <1>1. ASSUME NEW parent \in Inodes, NEW name \in Names, NEW kind \in {"file", "dir"},
               create(parent, name, kind)
        PROVE  Inv' /\ OthersUntouched
    BY <1>1, <0>createStep
  <1>2. ASSUME NEW parent \in Inodes, NEW name \in Names, remove(parent, name)
        PROVE  Inv' /\ OthersUntouched
    BY <1>2, <0>removeStep
  <1>3. ASSUME NEW i \in Inodes, NEW offset \in Nat, NEW bytes \in Seq(Bytes), write(i, offset, bytes)
        PROVE  Inv' /\ OthersUntouched
    BY <1>3, <0>writeStep
  <1>4. ASSUME NEW i \in Inodes, NEW len \in Nat, truncate(i, len)
        PROVE  Inv' /\ OthersUntouched
    BY <1>4, <0>truncateStep
  <1>5. PatchSector \/ CopySector \/ ZeroTable \/ WriteSuperblock \/ write_inode => Inv' /\ OthersUntouched
    BY <0>PatchSectorStep, <0>CopySectorStep, <0>ZeroTableStep, <0>WriteSuperblockStep, <0>write_inodeStep
  <1>6. mount \/ Io \/ Crash \/ UNCHANGED vars => Inv' /\ OthersUntouched
    BY <0>mountStep, <0>StopStep, <0>NothingStep
  <1> QED BY <1>1, <1>2, <1>3, <1>4, <1>5, <1>6 DEF VolumeStep

LEMMA InitSound == StorageInit => Inv
<1> SUFFICES ASSUME StorageInit PROVE Inv
  OBVIOUS
<1>1. Init
  BY DEF StorageInit
<1>2. DiskInv
  <2>1. inode \in [Inodes -> Entries] /\ \A i \in Inodes : inode[i].kind = "free"
    BY <1>1, EmptyEntry DEF Init
  <2>2. data \in [DataSectors -> Sector]
    BY <1>1, FsAssumption DEF Init, Sector
  <2> QED BY <2>1, <2>2 DEF DiskInv, Sound
<1>3. TodoInv
  <2>1. todo \in Seq(Steps(inode, op.inode)) /\ todo = <<>> /\ \A k \in 1 .. Len(todo) : FALSE
    BY <1>1 DEF Init
  <2>2. op.inode = 0
    BY <1>1 DEF Init, NoOp
  <2> QED BY <2>1, <2>2 DEF TodoInv
<1>4. MagicInv
  <2>1. Blank(inode)
    BY <1>1, EmptyEntry DEF Init, Blank
  <2> QED BY <1>1, <2>1, ZenonT(60) DEF Init, MagicInv
<1>5. BookInv
  <2>1. <<>> \in Seq(Bytes)
    OBVIOUS
  <2> QED BY <1>1, <2>1, ZenonT(60) DEF Init, BookInv
<1> QED BY <1>2, <1>3, <1>4, <1>5 DEF Inv

\* The inductive invariant: on every volume, whatever boots, users, stops and
\* failed writes do, what is still to be written goes to sectors that belong
\* to no other file.
THEOREM VolumeInvariant == StorageSpec => []Inv
<1>1. Inv /\ [StorageNext]_storageVars => Inv'
  BY StepSound, StorageSteps
<1> QED BY <1>1, InitSound, PTL DEF StorageSpec

\* find_extent, ensure_capacity and write never let two files share a sector
\* or a file reach past its extent, for every volume, and wherever a stop or a
\* failed write cuts an operation short.
THEOREM ExtentsDisjointHolds == StorageSpec => []ExtentsDisjoint
<1>1. Inv => ExtentsDisjoint
  <2> SUFFICES ASSUME Inv PROVE ExtentsDisjoint
    OBVIOUS
  <2>1. TypeOK
    <3>1. Len(todo) \in Nat
      BY DEF Inv, TodoInv
    <3> QED BY <3>1, ZenonT(60) DEF Inv, DiskInv, TodoInv, MagicInv, BookInv, TypeOK
  <2>2. ASSUME NEW i \in Inodes, IsFile(i)
        PROVE  Extent(inode[i]) \subseteq Own(inode, i) /\ sectors_for_len(inode[i].len) <= inode[i].count
    BY <2>2 DEF Inv, DiskInv, Sound, IsFile
  <2>3. ASSUME NEW i \in Inodes, NEW j \in Inodes, i # j, IsFile(i), IsFile(j)
        PROVE  Extent(inode[i]) \cap Extent(inode[j]) = {}
    <3>1. \A s \in Extent(inode[i]) : s \notin Extent(inode[j])
      BY <2>2, <2>3 DEF Own, IsFile
    <3> QED BY <3>1
  <2>4. \A i \in Inodes : IsFile(i) => Extent(inode[i]) \subseteq DataSectors
    BY <2>2 DEF Own
  <2> QED BY <2>1, <2>2, <2>3, <2>4, ZenonT(60) DEF ExtentsDisjoint
<1> QED BY <1>1, VolumeInvariant, PTL

\* No sector write, inode write, stop, failure or mount changes what is read
\* from a file other than the one the running operation works on.
THEOREM IsolationHolds == StorageSpec => Isolation
<1>1. Inv /\ [StorageNext]_storageVars => [OthersUntouched]_vars
  BY StepSound, StorageSteps
<1> QED BY <1>1, VolumeInvariant, PTL DEF StorageSpec, Isolation

-----------------------------------------------------------------------------
(* The paths *)

\* The entries of inode table t.
Live(t) == {i \in 2 .. INODE_COUNT : t[i].kind # "free"}

\* They form a tree below the root.
Rooted(t) ==
    /\ \A i \in Live(t) : t[i].parent \in Inodes /\ t[t[i].parent].kind = "dir"
    /\ \A S \in SUBSET Live(t) : S # {} => \E i \in S : t[i].parent \notin S

\* No two have the same path.
Single(t) ==
    \A i, j \in Live(t) : t[i].parent = t[j].parent /\ t[i].name = t[j].name => i = j

\* Entry e can be written to inode i: a directory that has entries stays one, an
\* entry that is there stays in its place, and a new one has a place.
Fits(t, i, e, h) ==
    /\ e.kind # "dir" => \A j \in Live(t) : t[j].parent # i
    /\ i # Root /\ e.kind # "free" =>
          /\ e.parent \in Inodes /\ t[e.parent].kind = "dir" /\ e.parent # i
          /\ t[i].kind # "free" => e.parent = t[i].parent
          /\ ~h => \A j \in Live(t) \ {i} : t[j].parent # e.parent \/ t[j].name # e.name

TreeInv ==
    /\ Rooted(inode)
    /\ ~hidden => Single(inode)
    /\ \A k \in 1 .. Len(todo) :
          todo[k].write = "inode" => Fits(inode, op.inode, todo[k].entry, hidden)

\* The entries are inodes other than the root.
LEMMA LiveInodes == \A t : \A i \in Live(t) : i \in Inodes /\ i # Root
<1>1. INODE_COUNT \in Nat
  BY FsAssumption
<1> QED BY <1>1 DEF Live, Inodes, Root

\* create, remove and the reuse of inodes keep the entries a tree below the
\* root in which a path names one entry, for every volume and wherever an
\* operation is cut short; with ExtentsDisjoint, the volume is sound.
THEOREM VolumeSoundHolds == StorageSpec => []VolumeSound

\* Writing an entry that fits keeps the tree a tree.
<0>TreeKept.
      ASSUME NEW t \in [Inodes -> Entries], Rooted(t), NEW i \in Inodes, NEW e \in Entries,
             NEW h \in BOOLEAN, Fits(t, i, e, h), NEW n, n = [t EXCEPT ![i] = e]
      PROVE  Rooted(n) /\ (~h /\ Single(t) => Single(n))
  <1> USE <0>TreeKept
  <1>1. n[i] = e /\ \A j \in Inodes : j # i => n[j] = t[j]
    OBVIOUS
  <1>2. ASSUME NEW j \in Live(n), j # i PROVE j \in Live(t) /\ n[j] = t[j]
    <2>1. j \in Inodes
      BY LiveInodes
    <2> QED BY <1>1, <1>2, <2>1 DEF Live
  <1>3. ASSUME i \in Live(n)
        PROVE  /\ e.parent \in Inodes /\ t[e.parent].kind = "dir" /\ e.parent # i
               /\ i \in Live(t) => e.parent = t[i].parent
               /\ ~h => \A j \in Live(t) \ {i} : t[j].parent # e.parent \/ t[j].name # e.name
    <2>1. i # Root /\ e.kind # "free"
      BY <1>1, <1>3, LiveInodes, ZenonT(60) DEF Live
    <2> QED BY <2>1 DEF Fits, Live
  <1>4. ASSUME NEW j \in Live(n) PROVE n[j].parent \in Inodes /\ n[n[j].parent].kind = "dir"
    <2>1. CASE j = i
      BY <1>1, <1>3, <2>1
    <2>2. CASE j # i
      <3>1. j \in Live(t) /\ n[j] = t[j] /\ t[j].parent \in Inodes /\ t[t[j].parent].kind = "dir"
        BY <1>2, <2>2, ZenonT(60) DEF Rooted
      <3>2. CASE t[j].parent = i
        BY <1>1, <3>1, <3>2 DEF Fits
      <3>3. CASE t[j].parent # i
        BY <1>1, <3>1, <3>3
      <3> QED BY <3>2, <3>3
    <2> QED BY <2>1, <2>2
  <1>5. ASSUME NEW S \in SUBSET Live(n), S # {} PROVE \E j \in S : n[j].parent \notin S
    <2>1. CASE i \notin S
      <3>1. S \in SUBSET Live(t) /\ \A j \in S : n[j] = t[j]
        BY <1>2, <2>1, ZenonT(60)
      <3> QED BY <1>5, <3>1 DEF Rooted
    <2>2. CASE i \in S /\ i \in Live(t)
      <3>1. S \in SUBSET Live(t)
        BY <1>2, <2>2, ZenonT(60)
      <3>2. PICK j \in S : t[j].parent \notin S
        BY <1>5, <3>1 DEF Rooted
      <3>3. n[j].parent = t[j].parent
        BY <1>1, <1>2, <1>3, <2>2
      <3> QED BY <3>2, <3>3
    <2>3. CASE i \in S /\ i \notin Live(t)
      <3>1. S \ {i} \in SUBSET Live(t)
        BY <1>2, ZenonT(60)
      <3>2. CASE S \ {i} = {}
        BY <1>1, <1>3, <2>3, <3>2
      <3>3. CASE S \ {i} # {}
        <4>1. PICK j \in S \ {i} : t[j].parent \notin S \ {i}
          BY <3>1, <3>3, ZenonT(60) DEF Rooted
        <4>2. n[j] = t[j] /\ t[t[j].parent].kind = "dir"
          BY <1>2, <3>1, <4>1, ZenonT(60) DEF Rooted
        <4>3. i # Root
          BY <2>3, LiveInodes
        <4>4. t[i].kind = "free"
          BY <2>3 DEF Live
        <4> QED BY <4>1, <4>2, <4>4
      <3> QED BY <3>2, <3>3
    <2> QED BY <2>1, <2>2, <2>3
  <1>6. ASSUME ~h, Single(t) PROVE Single(n)
    <2> SUFFICES ASSUME NEW j \in Live(n), NEW k \in Live(n), n[j].parent = n[k].parent,
                        n[j].name = n[k].name, j # k
                 PROVE  FALSE
      BY ZenonT(60) DEF Single
    <2>1. CASE j # i /\ k # i
      BY <1>2, <1>6, <2>1, ZenonT(60) DEF Single
    <2>2. CASE j = i
      BY <1>1, <1>2, <1>3, <1>6, <2>2, ZenonT(60)
    <2>3. CASE k = i
      BY <1>1, <1>2, <1>3, <1>6, <2>3, ZenonT(60)
    <2> QED BY <2>1, <2>2, <2>3
  <1> QED BY <1>4, <1>5, <1>6, ZenonT(60) DEF Rooted

\* The writes that remain fit as well, as long as the table is as it was.
<0>TreeOnwards.
      ASSUME Inv, TreeInv, todo # <<>>, todo' = Tail(todo), UNCHANGED <<inode, op, hidden>>
      PROVE  TreeInv'
  <1> USE <0>TreeOnwards
  <1>1. todo \in Seq(Steps(inode, op.inode))
    BY ZenonT(60) DEF Inv, TodoInv
  <1>2. ASSUME NEW k \in 1 .. Len(todo'), todo'[k].write = "inode"
        PROVE  Fits(inode, op.inode, todo'[k].entry, hidden)
    <2>1. k + 1 \in 1 .. Len(todo) /\ todo'[k] = todo[k + 1]
      BY <1>1, InTail
    <2> QED BY <1>2, <2>1, ZenonT(60) DEF TreeInv
  <1>3. Rooted(inode') /\ (~hidden' => Single(inode'))
    BY DEF TreeInv
  <1> QED BY <1>2, <1>3, ZenonT(60) DEF TreeInv

\* So does a volume on which nothing runs.
<0>TreeIdle.
      ASSUME TreeInv, todo' = <<>>, UNCHANGED <<inode, hidden>>
      PROVE  TreeInv'
  <1> USE <0>TreeIdle
  <1> QED BY DEF TreeInv

<0>TreeZero.
      ASSUME Inv, TreeInv, ZeroTable, Inv' PROVE TreeInv'
  <1> USE <0>TreeZero
  <1>1. todo # <<>> /\ Head(todo).write = "table" /\ todo' = Tail(todo) /\ op' = op /\ hidden' = hidden
    BY DEF ZeroTable, Idle
  <1>2. Blank(inode) /\ \A i \in Inodes : inode'[i] = Empty \/ inode'[i] = inode[i]
    <2>1. todo[1].write = "table" /\ 1 \in 1 .. Len(todo)
      BY <1>1, FirstStep
    <2> QED BY <2>1, ZenonT(60) DEF Inv, TodoInv, ZeroTable
  <1>3. Live(inode) = {} /\ Live(inode') = {}
    BY <1>2, LiveInodes, EmptyEntry DEF Blank, Live
  <1>4. todo \in Seq(Steps(inode, op.inode))
    BY ZenonT(60) DEF Inv, TodoInv
  <1>5. ASSUME NEW k \in 1 .. Len(todo'), todo'[k].write = "inode"
        PROVE  Fits(inode', op.inode, todo'[k].entry, hidden)
    <2>1. k + 1 \in 1 .. Len(todo) /\ todo'[k] = todo[k + 1]
      BY <1>1, <1>4, InTail
    <2>2. Fits(inode, op.inode, todo'[k].entry, hidden)
      BY <1>5, <2>1, ZenonT(60) DEF TreeInv
    <2>3. \A p \in Inodes : inode[p].kind # "dir"
      BY <1>2, ZenonT(60) DEF Blank
    <2> QED BY <1>3, <2>2, <2>3, ZenonT(60) DEF Fits
  <1> QED BY <1>1, <1>3, <1>5, ZenonT(60) DEF TreeInv, Rooted, Single

<0>TreeInode.
      ASSUME Inv, TreeInv, write_inode PROVE TreeInv'
  <1> USE <0>TreeInode
  <1>1. todo # <<>> /\ Head(todo).write = "inode" /\ todo' = Tail(todo) /\ hidden' = hidden
    BY DEF write_inode, Idle
  <1>2. PICK i \in Inodes, e \in Entries :
           i = op.inode /\ e = Head(todo).entry /\ inode' = [inode EXCEPT ![i] = e]
    <2>1. op.inode \in Inodes /\ Head(todo) \in Steps(inode, op.inode)
      BY <1>1, FirstStep
    <2>2. Head(todo).entry \in Entries
      BY <1>1, <2>1, StepParts, ZenonT(60)
    <2> QED BY <2>1, <2>2, ZenonT(60) DEF write_inode
  <1>3. todo' = <<>>
    <2>1. todo \in Seq(Steps(inode, op.inode)) /\ (todo[1].write = "inode" => 1 = Len(todo))
      BY <1>1, FirstStep, ZenonT(60) DEF Inv, TodoInv
    <2>2. Len(todo) = 1
      BY <1>1, <2>1, FirstStep
    <2>3. Tail(todo) \in Seq(Steps(inode, op.inode)) /\ Len(Tail(todo)) = 0
      BY <1>1, <2>1, <2>2, HeadAndTail
    <2> QED BY <1>1, <2>2, <2>3
  <1>4. Fits(inode, i, e, hidden)
    BY <1>1, <1>2, FirstStep DEF TreeInv
  <1>5. inode \in [Inodes -> Entries] /\ hidden \in BOOLEAN /\ Rooted(inode) /\ (~hidden => Single(inode))
    BY ZenonT(60) DEF Inv, DiskInv, BookInv, TreeInv
  <1>6. Rooted(inode') /\ (~hidden /\ Single(inode) => Single(inode'))
    BY <1>2, <1>4, <1>5, <0>TreeKept, ZenonT(60)
  <1>7. \A k \in 1 .. Len(todo') : FALSE
    BY <1>3
  <1>8. ~hidden' => Single(inode')
    BY <1>1, <1>5, <1>6
  <1> QED BY <1>6, <1>7, <1>8, ZenonT(60) DEF TreeInv

\* An operation starts well if its last write fits.
<0>TreeStart.
      ASSUME Inv, TreeInv, NEW i \in Inodes, NEW x, NEW g,
             NEW u \in Seq(Patch(inode, i) \cup Copy(inode, i)),
             NEW e \in Entries, Sound(inode, i, e), NEW w, w = u \o SetInode(e), Start(i, x, g, w),
             hidden' \in BOOLEAN, hidden => hidden', Fits(inode, i, e, hidden')
      PROVE  TreeInv'
  <1> USE <0>TreeStart
  <1>1. op'.inode = i /\ todo' = w /\ inode' = inode
    BY DEF Start
  <1>2. \A k \in 1 .. Len(w) : w[k].write = "inode" => k = Len(w)
    BY ThenInode, ZenonT(60)
  <1>3. w[Len(w)].entry = e
    <2>1. u \o <<[write |-> "inode", entry |-> e]>> = w
      BY DEF SetInode
    <2>2. PICK r : r = [write |-> "inode", entry |-> e]
      BY ZenonT(60)
    <2>3. Len(w) = Len(u) + 1 /\ w[Len(u) + 1] = r
      BY ONLY <2>1, <2>2
    <2> QED BY ONLY <2>2, <2>3
  <1>4. ASSUME NEW k \in 1 .. Len(todo'), todo'[k].write = "inode"
        PROVE  Fits(inode', op'.inode, todo'[k].entry, hidden')
    BY <1>1, <1>2, <1>3, <1>4, ZenonT(60)
  <1> QED BY <1>1, <1>4, ZenonT(60) DEF TreeInv

<0>TreeCreate.
      ASSUME Inv, TreeInv, NEW parent \in Inodes, NEW name \in Names, NEW kind \in {"file", "dir"},
             create(parent, name, kind)
      PROVE  TreeInv'
  <1> USE <0>TreeCreate
  <1> DEFINE e == [Empty EXCEPT !.kind = kind, !.name = name, !.parent = parent]
  <1>1. PICK i \in Inodes : IsAllocated(i) /\ Start(i, <<>>, TRUE, SetInode(e))
    BY ZenonT(60) DEF create
  <1>2. /\ inode[parent].kind = "dir" /\ hidden' \in BOOLEAN /\ (hidden => hidden')
        /\ ~hidden' => find_child(parent, name) = {}
    <2>1. hidden \in BOOLEAN
      BY DEF Inv, BookInv
    <2>2. CASE find_child(parent, name) = {} /\ hidden' = hidden
      BY <2>1, <2>2 DEF create
    <2>3. CASE hidden' = TRUE
      BY <2>1, <2>3 DEF create
    <2> QED BY <2>2, <2>3, ZenonT(60) DEF create
  <1>3. e \in Entries /\ e.start = 0 /\ e.count = 0 /\ e.len = 0 /\ e.kind = kind /\ e.name = name /\ e.parent = parent
    BY EmptyEntry, ZenonT(60) DEF Entries, Empty
  <1>4. i # Root /\ inode[i].kind = "free"
    BY <1>1 DEF IsAllocated, Root
  <1>5. Sound(inode, i, e)
    <2>1. Extent(e) = {}
      BY <1>3 DEF Extent
    <2>2. sectors_for_len(0) = 0
      <3>1. SECTOR_SIZE \in Nat \ {0}
        BY SectorsNeeded
      <3> QED BY <3>1 DEF sectors_for_len
    <2> QED BY <1>3, <1>4, <2>1, <2>2 DEF Sound
  <1> HIDE DEF e
  <1>6. Fits(inode, i, e, hidden')
    <2>1. \A j \in Live(inode) : inode[j].parent # i
      BY <1>4, ZenonT(60) DEF TreeInv, Rooted
    <2>2. parent # i
      BY <1>2, <1>4, ZenonT(60)
    <2>3. ASSUME ~hidden', NEW j \in Live(inode) \ {i} PROVE inode[j].parent # parent \/ inode[j].name # name
      BY <1>2, <2>3 DEF find_child, Children, Live
    <2> QED BY <1>2, <1>3, <1>4, <2>1, <2>2, <2>3, ZenonT(60) DEF Fits
  <1>7. <<>> \in Seq(Patch(inode, i) \cup Copy(inode, i)) /\ SetInode(e) = <<>> \o SetInode(e)
    BY OnlyInode
  <1> QED BY <1>1, <1>2, <1>3, <1>5, <1>6, <1>7, <0>TreeStart, ZenonT(60)

<0>TreeRemove.
      ASSUME Inv, TreeInv, NEW parent \in Inodes, NEW name \in Names, remove(parent, name)
      PROVE  TreeInv'
  <1> USE <0>TreeRemove
  <1>1. PICK i \in find_child(parent, name) :
           (inode[i].kind = "dir" => Children(i) = {}) /\ Start(i, <<>>, TRUE, SetInode(Empty))
    BY ZenonT(60) DEF remove
  <1>2. i \in Inodes
    BY <1>1, ChildrenInodes, ZenonT(60)
  <1>3. hidden' \in BOOLEAN /\ (hidden => hidden')
    BY DEF remove, Inv, BookInv
  <1>4. Empty \in Entries /\ Sound(inode, i, Empty) /\ Empty.kind = "free"
    BY EmptyEntry DEF Sound
  <1>5. Fits(inode, i, Empty, hidden')
    <2>1. \A j \in Live(inode) : inode[j].parent # i
      BY <1>1, ZenonT(60) DEF TreeInv, Rooted, Children, Live
    <2> QED BY <1>4, <2>1, ZenonT(60) DEF Fits
  <1>6. <<>> \in Seq(Patch(inode, i) \cup Copy(inode, i)) /\ SetInode(Empty) = <<>> \o SetInode(Empty)
    BY OnlyInode
  <1> QED BY <1>1, <1>2, <1>3, <1>4, <1>5, <1>6, <0>TreeStart, ZenonT(60)

<0>TreeStarts.
      ASSUME Inv, TreeInv, NEW i \in Inodes, NEW x, NEW good, NEW u, NEW e, Starts(i, x, good, u, e)
      PROVE  TreeInv'
  <1> USE <0>TreeStarts
  <1>1. /\ IsFile(i) /\ i # Root /\ u \in Seq(Patch(inode, i) \cup Copy(inode, i))
        /\ e \in Entries /\ Sound(inode, i, e) /\ hidden' = hidden
        /\ e.kind = "file" /\ e.name = inode[i].name /\ e.parent = inode[i].parent
    BY ZenonT(60) DEF Starts
  <1>2. PICK w : w = u \o SetInode(e) /\ Start(i, x, good, w)
    BY ZenonT(60) DEF Starts
  <1>3. hidden \in BOOLEAN
    BY DEF Inv, BookInv
  <1>4. i \in Live(inode)
    <2>1. i \in 2 .. INODE_COUNT
      BY ONLY <1>1, FsAssumption DEF Inodes, Root
    <2> QED BY <1>1, <2>1, ZenonT(60) DEF Live, IsFile
  <1>5. Fits(inode, i, e, hidden)
    <2>1. \A j \in Live(inode) : inode[j].parent \in Inodes /\ inode[inode[j].parent].kind = "dir"
      BY ZenonT(60) DEF TreeInv, Rooted
    <2>2. \A j \in Live(inode) : inode[j].parent # i
      BY <1>1, <2>1, ZenonT(60) DEF IsFile
    <2>3. ~hidden => \A j \in Live(inode) \ {i} : inode[j].parent # e.parent \/ inode[j].name # e.name
      BY <1>1, <1>4, ZenonT(60) DEF TreeInv, Single
    <2> QED BY <1>1, <1>4, <2>1, <2>2, <2>3, ZenonT(60) DEF Fits
  <1> QED BY <1>1, <1>2, <1>3, <1>5, <0>TreeStart, ZenonT(60)

\* The writes of format fit on an empty volume.
<0>TreeMount.
      ASSUME Inv, TreeInv, mount PROVE TreeInv'
  <1> USE <0>TreeMount
  <1>1. todo = <<>>
    BY DEF mount, Idle
  <1>2. CASE UNCHANGED <<magic, inode, data, todo, op, content, intact, hidden>>
    BY <1>1, <1>2, <0>TreeIdle
  <1>3. CASE ~magic /\ format
    <2>1. PICK w : w = [k \in 1 .. DATA_START |-> [write |-> "table", sector |-> k - 1]]
                         \o << [write |-> "super"] >> \o SetInode(RootEntry)
      BY ZenonT(60)
    <2>2. op'.inode = Root /\ todo' = w /\ inode' = inode /\ hidden' = hidden
      BY <1>3, <2>1, ZenonT(60) DEF format, Start
    <2>3. /\ w \in Seq(Steps(inode, Root)) /\ Len(w) = DATA_START + 2 /\ DATA_START \in Nat
          /\ \A k \in 1 .. DATA_START : w[k].write = "table"
          /\ w[DATA_START + 1].write = "super"
      BY <2>1, FormatWrites, ZenonT(60)
    <2>4. w[Len(w)].entry = RootEntry
      BY <2>1, <2>3, FormatWrites, ZenonT(60)
    <2>5. ASSUME NEW k \in 1 .. Len(todo'), todo'[k].write = "inode"
          PROVE  Fits(inode', op'.inode, todo'[k].entry, hidden')
      <3>1. k = Len(w)
        BY <2>2, <2>3, <2>5
      <3>2. todo'[k].entry = RootEntry
        BY <2>2, <2>4, <3>1
      <3> QED BY <2>2, <3>2, EmptyEntry, ZenonT(60) DEF Fits
    <2> QED BY <2>2, <2>5, ZenonT(60) DEF TreeInv
  <1> QED BY <1>2, <1>3 DEF mount

<0>TreeStep.
      Inv /\ Inv' /\ TreeInv /\ VolumeStep => TreeInv'
  <1> SUFFICES ASSUME Inv, Inv', TreeInv, VolumeStep PROVE TreeInv'
    OBVIOUS
  <1>1. ASSUME NEW parent \in Inodes, NEW name \in Names, NEW kind \in {"file", "dir"},
               create(parent, name, kind)
        PROVE  TreeInv'
    BY <1>1, <0>TreeCreate
  <1>2. ASSUME NEW parent \in Inodes, NEW name \in Names, remove(parent, name)
        PROVE  TreeInv'
    BY <1>2, <0>TreeRemove
  <1>3. ASSUME NEW i \in Inodes, NEW offset \in Nat, NEW bytes \in Seq(Bytes), write(i, offset, bytes)
        PROVE  TreeInv'
    <2>1. PICK x, good, u, e : Starts(i, x, good, u, e)
      BY <1>3, writeStarts
    <2> QED BY <2>1, <0>TreeStarts
  <1>4. ASSUME NEW i \in Inodes, NEW len \in Nat, truncate(i, len)
        PROVE  TreeInv'
    <2>1. PICK x, good, u, e : Starts(i, x, good, u, e)
      BY <1>4, truncateStarts
    <2> QED BY <2>1, <0>TreeStarts
  <1>5. CASE PatchSector \/ CopySector \/ WriteSuperblock
    <2>1. todo # <<>> /\ todo' = Tail(todo) /\ UNCHANGED <<inode, op, hidden>>
      BY <1>5 DEF PatchSector, CopySector, WriteSuperblock, Idle
    <2> QED BY <2>1, <0>TreeOnwards
  <1>6. CASE Io \/ Crash
    BY <1>6, <0>TreeIdle DEF Io, Crash
  <1>7. CASE UNCHANGED vars
    <2>1. UNCHANGED <<inode, op, hidden, todo>>
      BY <1>7 DEF vars
    <2> QED BY <2>1, ZenonT(60) DEF TreeInv
  <1> QED BY <1>1, <1>2, <1>3, <1>4, <1>5, <1>6, <1>7, <0>TreeMount, <0>TreeZero, <0>TreeInode DEF VolumeStep

<0>TreeInit.
      StorageInit => TreeInv
  <1> SUFFICES ASSUME StorageInit PROVE TreeInv
    OBVIOUS
  <1>1. todo = <<>> /\ \A i \in Inodes : inode[i].kind = "free"
    BY EmptyEntry DEF StorageInit, Init
  <1>2. Live(inode) = {}
    BY <1>1, LiveInodes DEF Live
  <1> QED BY ONLY <1>1, <1>2 DEF TreeInv, Rooted, Single
<0> QED
  <1>1. StorageInit => Inv /\ TreeInv
    BY InitSound, <0>TreeInit
  <1>2. Inv /\ TreeInv /\ [StorageNext]_storageVars => (Inv /\ TreeInv)'
    BY StepSound, StorageSteps, <0>TreeStep
  <1>3. Inv /\ TreeInv => TreeSound
    <2> SUFFICES ASSUME Inv, TreeInv PROVE TreeSound
      OBVIOUS
    <2>1. Entered = Live(inode)
      BY DEF Entered, Live, IsLive
    <2>2. ASSUME NEW i \in Live(inode), ~hidden
          PROVE  find_child(inode[i].parent, inode[i].name) = {i}
      <3>1. \A j \in Live(inode) :
               inode[i].parent = inode[j].parent /\ inode[i].name = inode[j].name => i = j
        BY <2>2, ZenonT(60) DEF TreeInv, Single
      <3> QED BY <3>1 DEF find_child, Children, Live
    <2> QED BY <2>1, <2>2, ZenonT(60) DEF TreeInv, Rooted, TreeSound
  <1>4. StorageSpec => [](Inv /\ TreeInv)
    BY <1>1, <1>2, PTL DEF StorageSpec
  <1>5. StorageSpec => []TreeSound
    BY <1>3, <1>4, PTL
  <1> QED BY <1>5, ExtentsDisjointHolds, PTL DEF VolumeSound

=============================================================================
