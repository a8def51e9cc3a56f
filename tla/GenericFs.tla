------------------------------ MODULE GenericFs ------------------------------
(***************************************************************************)
(* GenericFS, crates/kernel-core/src/genericfs.rs: a superblock, a fixed   *)
(* inode table and contiguous extents, written one sector at a time with   *)
(* no journal.  The file system caches nothing, so its state is the disk.  *)
(*                                                                         *)
(* An operation is the list of sector writes it has still to make, fixed   *)
(* when it starts; what a copied or patched sector holds is read when the  *)
(* write is made.  The machine may stop before any of them.  An operation  *)
(* refused with an error before its first write changes nothing and is a   *)
(* stuttering step.                                                        *)
(***************************************************************************)
EXTENDS Integers, Sequences, FiniteSets

CONSTANTS
    INODE_COUNT,
    INODES_PER_SECTOR,
    SECTOR_SIZE,
    SectorCount,   \* the device's sector_count()
    Names,         \* names a caller uses
    Kinds,         \* kinds of entry a caller creates
    Bytes,         \* byte values
    Writes,        \* calls of write: [offset, bytes]
    Lengths,       \* lengths a caller truncates to
    Failures       \* whether the machine may stop, or the device fail, at any point

INODE_TABLE_START == 1
INODE_TABLE_SECTORS == (INODE_COUNT + INODES_PER_SECTOR - 1) \div INODES_PER_SECTOR
DATA_START == INODE_TABLE_START + INODE_TABLE_SECTORS

Inodes == 1 .. INODE_COUNT
Root == 1
DataSectors == DATA_START .. SectorCount - 1
Positions == 0 .. SECTOR_SIZE - 1
Sector == [Positions -> Bytes]

\* mount refuses a device with sector_count() <= DATA_START + 1.
ASSUME FsAssumption ==
    /\ INODE_COUNT \in Nat \ {0} /\ INODES_PER_SECTOR \in Nat \ {0}
    /\ SECTOR_SIZE \in Nat \ {0}
    /\ SectorCount \in Nat /\ SectorCount > DATA_START + 1
    /\ 0 \in Bytes
    /\ Kinds \subseteq {"file", "dir"}
    /\ \A w \in Writes : w.offset \in Nat /\ w.bytes \in Seq(Bytes)
    /\ Lengths \subseteq Nat
    /\ Failures \in BOOLEAN

VARIABLES
    mounted,   \* a GenericFs value exists
    magic,     \* the superblock holds MAGIC and this device's geometry
    inode,     \* the inode table
    data,      \* the data sectors
    todo,      \* the writes the running operation has still to make
    op,        \* its inode, and what the file holds if it succeeds
    content,   \* what its callers were told each file holds
    intact,    \* the files that no failed or overlapping write has touched
    hidden     \* whether a device error has hidden an entry from create

vars == <<mounted, magic, inode, data, todo, op, content, intact, hidden>>

Empty == [kind |-> "free", name |-> "", parent |-> 0, len |-> 0, start |-> 0, count |-> 0]
RootEntry == [Empty EXCEPT !.kind = "dir", !.parent = Root]
NoOp == [inode |-> 0, expected |-> <<>>, good |-> TRUE]

\* A fresh image, as scripts/storage.sh makes it.
Init ==
    /\ mounted = FALSE
    /\ magic = FALSE
    /\ inode = [i \in Inodes |-> Empty]
    /\ data = [s \in DataSectors |-> [p \in Positions |-> 0]]
    /\ todo = <<>>
    /\ op = NoOp
    /\ content = [i \in Inodes |-> <<>>]
    /\ intact = {}
    /\ hidden = FALSE

Idle == todo = <<>>

-----------------------------------------------------------------------------
(* Sector writes *)

Extent(e) == e.start .. e.start + e.count - 1

\* A write into sectors that the file on disk owns: until the operation ends,
\* the file holds neither the old bytes nor the new.
Touch(s) ==
    IF s \in Extent(inode[op.inode])
    THEN /\ intact' = intact \ {op.inode}
         /\ content' = [content EXCEPT ![op.inode] = <<>>]
    ELSE UNCHANGED <<intact, content>>

PatchSector ==
    /\ ~Idle /\ Head(todo).write = "patch"
    /\ LET s == Head(todo).sector
           b == Head(todo).bytes
       IN  /\ data' = [data EXCEPT ![s] =
                          [p \in Positions |-> IF p \in DOMAIN b THEN b[p] ELSE @[p]]]
           /\ Touch(s)
    /\ todo' = Tail(todo)
    /\ UNCHANGED <<mounted, magic, inode, op, hidden>>

CopySector ==
    /\ ~Idle /\ Head(todo).write = "copy"
    /\ data' = [data EXCEPT ![Head(todo).sector] = data[Head(todo).from]]
    /\ Touch(Head(todo).sector)
    /\ todo' = Tail(todo)
    /\ UNCHANGED <<mounted, magic, inode, op, hidden>>

ZeroTable ==
    /\ ~Idle /\ Head(todo).write = "table"
    /\ LET t == Head(todo).sector
       IN  /\ magic' = IF t = 0 THEN FALSE ELSE magic
           /\ inode' = [i \in Inodes |->
                          IF INODE_TABLE_START + (i - 1) \div INODES_PER_SECTOR = t
                          THEN Empty ELSE inode[i]]
    /\ todo' = Tail(todo)
    /\ UNCHANGED <<mounted, data, op, content, intact, hidden>>

WriteSuperblock ==
    /\ ~Idle /\ Head(todo).write = "super"
    /\ magic' = TRUE
    /\ todo' = Tail(todo)
    /\ UNCHANGED <<mounted, inode, data, op, content, intact, hidden>>

\* Every operation ends by writing one inode, and then returns to its caller.
write_inode ==
    /\ ~Idle /\ Head(todo).write = "inode"
    /\ inode' = [inode EXCEPT ![op.inode] = Head(todo).entry]
    /\ todo' = Tail(todo)
    /\ op' = NoOp
    /\ mounted' = TRUE
    /\ content' = [content EXCEPT ![op.inode] = op.expected]
    /\ intact' = IF op.good THEN intact \cup {op.inode} ELSE intact \ {op.inode}
    /\ UNCHANGED <<magic, data, hidden>>

\* The device answers Io: the operation returns the error to its caller.
Io ==
    /\ Failures /\ ~Idle
    /\ todo' = <<>>
    /\ op' = NoOp
    /\ UNCHANGED <<mounted, magic, inode, data, content, intact, hidden>>

Crash ==
    /\ Failures
    /\ mounted' = FALSE
    /\ todo' = <<>>
    /\ op' = NoOp
    /\ UNCHANGED <<magic, inode, data, content, intact, hidden>>

Start(i, expected, good, writes) ==
    /\ op' = [inode |-> i, expected |-> expected, good |-> good]
    /\ todo' = writes
    /\ UNCHANGED <<mounted, magic, inode, data, content, intact>>

SetInode(e) == << [write |-> "inode", entry |-> e] >>

-----------------------------------------------------------------------------
(* mount and format *)

format ==
    /\ Start(Root, <<>>, TRUE,
             [k \in 1 .. DATA_START |-> [write |-> "table", sector |-> k - 1]]
                \o << [write |-> "super"] >> \o SetInode(RootEntry))
    /\ UNCHANGED hidden

\* Variants with a plausible fault, for testing the properties, precede the
\* definition they vary.

\* formats a volume that has a superblock
mount_formats_always == ~mounted /\ Idle /\ format

\* A volume with a superblock but no root directory is refused.
mount ==
    /\ ~mounted /\ Idle
    /\ \/ /\ magic /\ inode[Root].kind = "dir"
          /\ mounted' = TRUE
          /\ UNCHANGED <<magic, inode, data, todo, op, content, intact, hidden>>
       \/ ~magic /\ format

-----------------------------------------------------------------------------
(* Directories *)

Children(parent) == {i \in 2 .. INODE_COUNT : inode[i].kind # "free" /\ inode[i].parent = parent}
find_child(parent, name) == {i \in Children(parent) : inode[i].name = name}

IsAllocated(i) ==
    /\ i \in 2 .. INODE_COUNT /\ inode[i].kind = "free"
    /\ \A j \in 2 .. i - 1 : inode[j].kind # "free"

\* A find_child that fails with Io counts as "no such child".
create(parent, name, kind) ==
    /\ mounted /\ Idle
    /\ inode[parent].kind = "dir"
    /\ \/ find_child(parent, name) = {} /\ UNCHANGED hidden
       \/ find_child(parent, name) # {} /\ Failures /\ hidden' = TRUE
    /\ \E i \in Inodes :
          /\ IsAllocated(i)
          /\ Start(i, <<>>, TRUE,
                   SetInode([Empty EXCEPT !.kind = kind, !.name = name, !.parent = parent]))

\* removes a directory that still has entries
remove_not_empty(parent, name) ==
    /\ mounted /\ Idle
    /\ \E i \in find_child(parent, name) :
          /\ \A j \in find_child(parent, name) : i <= j
          /\ Start(i, <<>>, TRUE, SetInode(Empty))
    /\ UNCHANGED hidden

\* The extent of a removed file is free because no inode names it any more.
remove(parent, name) ==
    /\ mounted /\ Idle
    /\ \E i \in find_child(parent, name) :
          /\ \A j \in find_child(parent, name) : i <= j
          /\ inode[i].kind = "dir" => Children(i) = {}
          /\ Start(i, <<>>, TRUE, SetInode(Empty))
    /\ UNCHANGED hidden

-----------------------------------------------------------------------------
(* Files *)

sectors_for_len(n) == (n + SECTOR_SIZE - 1) \div SECTOR_SIZE

\* The first gap, from DATA_START up, that no other file's extent meets.
Gap(c, sectors, exclude) ==
    /\ c >= DATA_START /\ c + sectors <= SectorCount
    /\ \A i \in 2 .. INODE_COUNT :
          i # exclude /\ inode[i].kind = "file" =>
              Extent(inode[i]) \cap (c .. c + sectors - 1) = {}

find_extent(c, sectors, exclude) ==
    /\ Gap(c, sectors, exclude)
    /\ \A b \in DATA_START .. c - 1 : ~Gap(b, sectors, exclude)

\* ensure_capacity zeroes the new extent and copies the old one over it.
ensure_capacity(old, start, needed) ==
    [k \in 1 .. needed |-> [write |-> "patch", sector |-> start + k - 1,
                            bytes |-> [p \in Positions |-> 0]]]
      \o [k \in 1 .. old.count |-> [write |-> "copy", sector |-> start + k - 1,
                                    from |-> old.start + k - 1]]

\* The loops of zero_range and write: bytes from .. to - 1 of the file, one
\* write for each sector they meet.
Patches(start, from, to, byte) ==
    LET first == from \div SECTOR_SIZE
        sectors == IF from < to THEN sectors_for_len(to) - first ELSE 0
    IN  [k \in 1 .. sectors |->
           LET base == (first + k - 1) * SECTOR_SIZE
           IN  [write |-> "patch", sector |-> start + first + k - 1,
                bytes |-> [p \in {q \in Positions : from <= base + q /\ base + q < to} |->
                              byte[base + p]]]]

\* leaves the gap as it is
zero_range_nothing(start, from, to) == <<>>

zero_range(start, from, to) == Patches(start, from, to, [x \in from .. to - 1 |-> 0])

\* The entry after ensure_capacity chose start for needed sectors.
Grown(e, start, needed) ==
    IF needed > e.count THEN [e EXCEPT !.start = start, !.count = needed] ELSE e

\* Where the file may go: nowhere new unless it needs more sectors.
Places(i, needed) ==
    IF needed > inode[i].count THEN {c \in DataSectors : find_extent(c, needed, i)}
    ELSE {inode[i].start}

Growth(i, start, needed) ==
    IF needed > inode[i].count THEN ensure_capacity(inode[i], start, needed) ELSE <<>>

\* The new extent spares the old one, which still has to be copied.
Spared(i, start, needed) ==
    needed > inode[i].count => Extent(inode[i]) \cap (start .. start + needed - 1) = {}

Byte(s, x) == IF x <= Len(s) THEN s[x] ELSE 0

Larger(a, b) == IF a > b THEN a ELSE b

write(i, offset, bytes) ==
    LET e == inode[i]
        end == offset + Len(bytes)
        needed == sectors_for_len(end)
        all == [x \in 1 .. Larger(e.len, end) |->
                   IF offset < x /\ x <= end THEN bytes[x - offset] ELSE Byte(content[i], x)]
    IN  /\ mounted /\ Idle
        /\ e.kind = "file"
        /\ \E start \in Places(i, needed) :
              Start(i, all, i \in intact /\ Spared(i, start, needed),
                    Growth(i, start, needed)
                      \o zero_range(start, e.len, offset)
                      \o Patches(start, offset, end,
                                 [x \in offset .. end - 1 |-> bytes[x - offset + 1]])
                      \o SetInode([Grown(e, start, needed) EXCEPT !.len = Larger(e.len, end)]))
        /\ UNCHANGED hidden

truncate(i, len) ==
    LET e == inode[i]
        needed == sectors_for_len(len)
    IN  /\ mounted /\ Idle
        /\ e.kind = "file"
        /\ \E start \in Places(i, needed) :
              Start(i, [x \in 1 .. len |-> Byte(content[i], x)],
                    i \in intact /\ Spared(i, start, needed),
                    Growth(i, start, needed)
                      \o zero_range(start, e.len, len)
                      \o SetInode([Grown(e, start, needed) EXCEPT !.len = len]))
        /\ UNCHANGED hidden

\* What read returns for the whole file.
read(i) ==
    [x \in 1 .. inode[i].len |->
        data[inode[i].start + (x - 1) \div SECTOR_SIZE][(x - 1) % SECTOR_SIZE]]

-----------------------------------------------------------------------------

Next ==
    \/ mount
    \/ \E i \in Inodes, n \in Names, k \in Kinds : create(i, n, k)
    \/ \E i \in Inodes, n \in Names : remove(i, n)
    \/ \E i \in Inodes, w \in Writes : write(i, w.offset, w.bytes)
    \/ \E i \in Inodes, n \in Lengths : truncate(i, n)
    \/ PatchSector
    \/ CopySector
    \/ ZeroTable
    \/ WriteSuperblock
    \/ write_inode
    \/ Io
    \/ Crash

Spec == Init /\ [][Next]_vars

-----------------------------------------------------------------------------
(* Properties *)

IsFile(i) == inode[i].kind = "file"
IsLive(i) == inode[i].kind # "free"

Entries == [kind : {"free", "file", "dir"}, name : Names \cup {""}, parent : Inodes \cup {0},
            len : Nat, start : DataSectors \cup {0}, count : 0 .. SectorCount]

\* Type invariant.
TypeOK ==
    /\ mounted \in BOOLEAN /\ magic \in BOOLEAN
    /\ inode \in [Inodes -> Entries]
    /\ data \in [DataSectors -> Sector]
    /\ Len(todo) \in Nat
    /\ op.inode \in Inodes \cup {0}
    /\ content \in [Inodes -> Seq(Bytes)]
    /\ intact \subseteq Inodes
    /\ hidden \in BOOLEAN

\* The variables keep their types.  No two files ever share a sector, and no
\* file reaches past its extent or out of the data area, although extents are
\* recorded nowhere but in the inodes and the machine may stop, or the device
\* fail, between any two writes.
ExtentsDisjoint ==
    /\ TypeOK
    /\ \A i, j \in Inodes : i # j /\ IsFile(i) /\ IsFile(j) =>
          Extent(inode[i]) \cap Extent(inode[j]) = {}
    /\ \A i \in Inodes : IsFile(i) =>
          Extent(inode[i]) \subseteq DataSectors /\ sectors_for_len(inode[i].len) <= inode[i].count

OthersUntouched ==
    \A j \in Inodes :
        IsLive(j) /\ op.inode # j =>
            inode'[j] = inode[j] /\ (IsFile(j) => read(j)' = read(j))

\* No write, crash, failure or mount changes what is read from a file other
\* than the one the running operation works on, or makes it disappear.
Isolation == [][OthersUntouched]_vars

Entered == {i \in 2 .. INODE_COUNT : IsLive(i)}

\* Every entry can be reached from the root, by a path that names it alone: its
\* parent is a directory, no set of entries has all of its parents within
\* itself, and no sibling shares its name unless a device error hid the sibling
\* from create.  Inodes are reused, and a directory refers to nothing: its
\* entries refer to it.
TreeSound ==
    /\ \A i \in Entered :
          /\ inode[inode[i].parent].kind = "dir"
          /\ ~hidden => find_child(inode[i].parent, inode[i].name) = {i}
    /\ \A S \in SUBSET Entered : S # {} => \E i \in S : inode[i].parent \notin S

\* The volume is sound after any number of operations, crashes, failures and
\* mounts: both of the above.
VolumeSound == ExtentsDisjoint /\ TreeSound

\* A file reads as what its callers wrote, zeros in the gaps, whatever other
\* files lived in its sectors before; and if it has to move to sectors that
\* it does not own yet, it reads as before until the move is complete, even
\* if the machine stops half-way.
ReadBack ==
    \A i \in intact : IsFile(i) => read(i) = content[i]

\* The same of every file, when nothing has failed: a write or append keeps
\* the bytes it does not overwrite.
WritesKeepTheRest ==
    Idle => \A i \in Inodes : IsFile(i) => read(i) = content[i]
=============================================================================
