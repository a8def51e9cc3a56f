--------------------------------- MODULE Vfs ---------------------------------
(***************************************************************************)
(* The virtual file system of kernel-core/src/vfs.rs: path normalisation,  *)
(* the mount table and its longest-prefix routing, and RamFs, the backend  *)
(* that keeps its nodes by inode number; and the operations that           *)
(* kernel/src/vfs.rs composes from them under the VFS lock.                *)
(*                                                                         *)
(* A path is a sequence of components with a flag for the leading slash.   *)
(* Only Names are valid components; LongNames exceed NAME_MAX, NulNames    *)
(* contain a zero byte.  Every name is one character long.                 *)
(***************************************************************************)
EXTENDS Integers, Sequences, FiniteSets, SequencesExt, TLC

CONSTANTS
    Names, LongNames, NulNames,
    PATH_MAX,
    InodeMax,      \* u64::MAX
    UsizeMax,      \* usize::MAX
    MaxMounts,     \* bound on the mount table
    RawPaths,      \* the paths that callers pass
    Writes,        \* the byte sequences that callers pass,
    Offsets,       \*   where they write them
    Lengths        \*   and the lengths they truncate to

ASSUME VfsAssumption ==
    /\ InodeMax \in Nat /\ InodeMax >= 2
    /\ UsizeMax \in Nat /\ PATH_MAX \in Nat /\ MaxMounts \in Nat
    /\ Writes \subseteq Seq(Nat)
    /\ Offsets \subseteq 0 .. UsizeMax /\ Lengths \subseteq 0 .. UsizeMax

VARIABLES
    mounts,      \* the mount table: a path and a file system each
    done         \* whether the latest operation returned Ok

vars == <<mounts, done>>

-----------------------------------------------------------------------------
(* Paths *)

\* normalize_path: a stack of names; the first invalid name ends it.
push_component(stack, c) ==
    CASE stack.err # "Ok" -> stack
      [] c \in {"", "."} -> stack
      [] c = ".." -> [stack EXCEPT !.names = IF @ = <<>> THEN @ ELSE Front(@)]
      [] c \in LongNames -> [stack EXCEPT !.err = "NameTooLong"]
      [] OTHER -> [stack EXCEPT !.names = Append(@, c)]

push_components(stack, parts) ==
    LET after[n \in 0 .. Len(parts)] ==
            IF n = 0 THEN stack ELSE push_component(after[n - 1], parts[n])
    IN  after[Len(parts)]

\* The length of the path as a string.
PathLen(names) == IF names = <<>> THEN 1 ELSE 2 * Len(names)

Failed(e) == [names |-> <<>>, err |-> e]

\* ignores the base
normalize_path_no_base(base, path) ==
    LET all == push_components([names |-> <<>>, err |-> "Ok"], path.parts)
    IN  CASE path.parts = <<>> /\ ~path.absolute -> Failed("InvalidPath")
          [] \E i \in DOMAIN path.parts : path.parts[i] \in NulNames -> Failed("InvalidPath")
          [] all.err # "Ok" -> Failed(all.err)
          [] PathLen(all.names) > PATH_MAX -> Failed("NameTooLong")
          [] OTHER -> all

normalize_path(base, path) ==
    LET empty == [names |-> <<>>, err |-> "Ok"]
        from == IF path.absolute THEN empty ELSE push_components(empty, base)
        all == push_components(from, path.parts)
    IN  CASE path.parts = <<>> /\ ~path.absolute -> Failed("InvalidPath")
          [] \E i \in DOMAIN path.parts : path.parts[i] \in NulNames -> Failed("InvalidPath")
          [] all.err # "Ok" -> Failed(all.err)
          [] PathLen(all.names) > PATH_MAX -> Failed("NameTooLong")
          [] OTHER -> all

-----------------------------------------------------------------------------
(* RamFs: nodes by inode number and the next number to give out *)

Directory == [kind |-> "dir", children |-> << >>]
File == [kind |-> "file", data |-> <<>>]

RamFs == [nodes |-> (1 :> Directory), next_inode |-> 2]

Inode(i) == [inode |-> i, err |-> "Ok"]
NoInode(e) == [inode |-> 0, err |-> e]

lookup(fs, parent, name) ==
    CASE parent.err # "Ok" -> parent
      [] parent.inode \notin DOMAIN fs.nodes -> NoInode("NotFound")
      [] fs.nodes[parent.inode].kind # "dir" -> NoInode("NotDirectory")
      [] name \notin DOMAIN fs.nodes[parent.inode].children -> NoInode("NotFound")
      [] OTHER -> Inode(fs.nodes[parent.inode].children[name])

resolve_inode(fs, names) ==
    LET at[n \in 0 .. Len(names)] ==
            IF n = 0 THEN Inode(1) ELSE lookup(fs, at[n - 1], names[n])
    IN  at[Len(names)]

\* What an operation on a file system leaves, and its result.
Done(fs) == [fs |-> fs, err |-> "Ok"]
Fails(fs, e) == [fs |-> fs, err |-> e]

resolve_parent(fs, names) ==
    IF names = <<>> THEN NoInode("RootImmutable")
    ELSE LET parent == resolve_inode(fs, Front(names))
         IN  IF parent.err = "Ok" /\ fs.nodes[parent.inode].kind # "dir"
             THEN NoInode("NotDirectory") ELSE parent

WithChild(fs, parent, name, inode) ==
    [fs EXCEPT !.nodes[parent].children = (name :> inode) @@ @]

create_node(fs, names, node) ==
    LET parent == resolve_parent(fs, names)
        name == Last(names)
        inode == fs.next_inode
    IN  CASE parent.err # "Ok" -> Fails(fs, parent.err)
          [] name \in DOMAIN fs.nodes[parent.inode].children -> Fails(fs, "AlreadyExists")
          [] inode = InodeMax -> Fails(fs, "InodeExhausted")
          [] OTHER -> Done(WithChild([fs EXCEPT !.nodes = (inode :> node) @@ @,
                                                !.next_inode = inode + 1],
                                     parent.inode, name, inode))

Without(f, x) == [y \in DOMAIN f \ {x} |-> f[y]]

\* leaves the node when it drops its name
fs_remove_keeps_node(fs, names) ==
    LET parent == resolve_parent(fs, names)
        child == resolve_inode(fs, names)
        node == fs.nodes[child.inode]
    IN  CASE parent.err # "Ok" -> Fails(fs, parent.err)
          [] child.err # "Ok" -> Fails(fs, child.err)
          [] node.kind = "dir" /\ node.children # << >> -> Fails(fs, "DirectoryNotEmpty")
          [] OTHER -> Done([fs EXCEPT !.nodes[parent.inode].children = Without(@, Last(names))])

fs_remove(fs, names) ==
    LET parent == resolve_parent(fs, names)
        child == resolve_inode(fs, names)
        node == fs.nodes[child.inode]
    IN  CASE parent.err # "Ok" -> Fails(fs, parent.err)
          [] child.err # "Ok" -> Fails(fs, child.err)
          [] node.kind = "dir" /\ node.children # << >> -> Fails(fs, "DirectoryNotEmpty")
          [] OTHER -> Done([fs EXCEPT !.nodes =
                        Without([@ EXCEPT ![parent.inode].children = Without(@, Last(names))],
                                child.inode)])

\* Vec::resize
Resized(data, len) == [i \in 1 .. len |-> IF i <= Len(data) THEN data[i] ELSE 0]

Overwritten(data, offset, new) ==
    LET end == offset + Len(new)
        grown == IF end > Len(data) THEN Resized(data, end) ELSE data
    IN  [i \in DOMAIN grown |-> IF i \in offset + 1 .. end THEN new[i - offset] ELSE grown[i]]

\* An operation on the contents of the file at names.
OnFile(fs, names, Change(_), Overflows(_)) ==
    LET at == resolve_inode(fs, names)
    IN  CASE at.err # "Ok" -> Fails(fs, at.err)
          [] fs.nodes[at.inode].kind = "dir" -> Fails(fs, "IsDirectory")
          [] Overflows(fs.nodes[at.inode].data) -> Fails(fs, "OffsetOverflow")
          [] OTHER -> Done([fs EXCEPT !.nodes[at.inode].data = Change(@)])

fs_write(fs, names, offset, new) ==
    OnFile(fs, names, LAMBDA data : Overwritten(data, offset, new),
                      LAMBDA data : offset + Len(new) > UsizeMax)

fs_truncate(fs, names, len) ==
    OnFile(fs, names, LAMBDA data : Resized(data, len), LAMBDA data : FALSE)

-----------------------------------------------------------------------------
(* Vfs: routing and the operations on paths *)

\* the mount whose path comes first in the table
route_first(names) ==
    CHOOSE m \in DOMAIN mounts :
        /\ IsPrefix(mounts[m].path, names)
        /\ \A n \in DOMAIN mounts : n < m /\ n > 1 => ~IsPrefix(mounts[n].path, names)
        /\ m = 1 => \A n \in DOMAIN mounts \ {1} : ~IsPrefix(mounts[n].path, names)

\* route: the mount with the longest path above this one.
route(names) ==
    CHOOSE m \in DOMAIN mounts :
        /\ IsPrefix(mounts[m].path, names)
        /\ \A n \in DOMAIN mounts :
              IsPrefix(mounts[n].path, names) => Len(mounts[n].path) <= Len(mounts[m].path)

relative(names) == SubSeq(names, Len(mounts[route(names)].path) + 1, Len(names))

fs_of(names) == mounts[route(names)].fs

metadata(names) == resolve_inode(fs_of(names), relative(names))
KindOf(names) == fs_of(names).nodes[metadata(names).inode].kind
LenOf(names) == Len(fs_of(names).nodes[metadata(names).inode].data)

fs_read_dir(fs, inode) ==
    [name \in DOMAIN fs.nodes[inode].children |->
        LET child == fs.nodes[inode].children[name]
        IN  [inode |-> child, kind |-> fs.nodes[child].kind]]

\* read_dir of a path that is known to be a directory.
read_dir(names) == fs_read_dir(fs_of(names), metadata(names).inode)

\* RamFs::read of at most count bytes.
fs_read(fs, inode, offset, count) == SubSeq(fs.nodes[inode].data, offset + 1, offset + count)

\* read_all of a path that is known to be a file.
read_all(names) == fs_read(fs_of(names), metadata(names).inode, 0, LenOf(names))

\* An operation Op on the file system that a path leads to.
On(path, Op(_, _)) ==
    LET to == normalize_path(<<>>, path)
        outcome == Op(fs_of(to.names), relative(to.names))
    IN  \/ /\ to.err # "Ok"
           /\ done' = FALSE
           /\ UNCHANGED mounts
        \/ /\ to.err = "Ok"
           /\ mounts' = [mounts EXCEPT ![route(to.names)].fs = outcome.fs]
           /\ done' = (outcome.err = "Ok")

Init ==
    /\ mounts = <<[path |-> <<>>, fs |-> RamFs]>>
    /\ done = TRUE

mount(path) ==
    LET to == normalize_path(<<>>, path)
        mounted == to.names = <<>> \/ \E m \in DOMAIN mounts : mounts[m].path = to.names
        there == metadata(to.names)
        Refused == done' = FALSE /\ UNCHANGED mounts
    IN  /\ Len(mounts) < MaxMounts
        /\ \/ to.err # "Ok" /\ Refused
           \/ to.err = "Ok" /\ mounted /\ Refused
           \/ to.err = "Ok" /\ ~mounted /\ there.err # "Ok" /\ Refused
           \/ /\ to.err = "Ok" /\ ~mounted /\ there.err = "Ok"
              /\ \/ KindOf(to.names) # "dir" /\ Refused
                 \/ /\ KindOf(to.names) = "dir"
                    /\ mounts' = Append(mounts, [path |-> to.names, fs |-> RamFs])
                    /\ done' = TRUE

create_file(path) == On(path, LAMBDA fs, names : create_node(fs, names, File))

create_dir(path) == On(path, LAMBDA fs, names : create_node(fs, names, Directory))

remove(path) == On(path, fs_remove)

write(path, offset, new) == On(path, LAMBDA fs, names : fs_write(fs, names, offset, new))

truncate(path, len) == On(path, LAMBDA fs, names : fs_truncate(fs, names, len))

-----------------------------------------------------------------------------
(* kernel/src/vfs.rs, under the VFS lock *)

\* One operation after another, stopping at the first error.
Then(first, Second(_)) == IF first.err # "Ok" THEN first ELSE Second(first.fs)

\* The write that ends a write_file.  RamFs never refuses one for want of space
\* or because of its device; another backend, GenericFs, may.
last_write(fs, names, offset, new, refused) ==
    IF refused THEN Fails(fs, "NoSpace") ELSE fs_write(fs, names, offset, new)

\* writes over the old contents instead of truncating them
fs_write_file_over(fs, names, new, append, refused) ==
    LET at == resolve_inode(fs, names)
        Store(g, offset) == last_write(g, names, offset, new, refused)
    IN  CASE at.err = "NotFound" -> Then(create_node(fs, names, File), LAMBDA g : Store(g, 0))
          [] at.err \notin {"Ok", "NotFound"} -> Fails(fs, at.err)
          [] at.err = "Ok" /\ fs.nodes[at.inode].kind = "dir" -> Fails(fs, "IsDirectory")
          [] OTHER -> Store(fs, IF append THEN Len(fs.nodes[at.inode].data) ELSE 0)

fs_write_file(fs, names, new, append, refused) ==
    LET at == resolve_inode(fs, names)
        Store(g, offset) == last_write(g, names, offset, new, refused)
    IN  CASE at.err = "NotFound" -> Then(create_node(fs, names, File), LAMBDA g : Store(g, 0))
          [] at.err \notin {"Ok", "NotFound"} -> Fails(fs, at.err)
          [] at.err = "Ok" /\ fs.nodes[at.inode].kind = "dir" -> Fails(fs, "IsDirectory")
          [] OTHER ->
                IF append THEN Store(fs, Len(fs.nodes[at.inode].data))
                ELSE Then(fs_truncate(fs, names, 0), LAMBDA g : Store(g, 0))

write_file(path, new, append, refused) ==
    On(path, LAMBDA fs, names : fs_write_file(fs, names, new, append, refused))

fs_touch(fs, names) ==
    LET at == resolve_inode(fs, names)
    IN  CASE at.err = "NotFound" -> create_node(fs, names, File)
          [] at.err \notin {"Ok", "NotFound"} -> Fails(fs, at.err)
          [] at.err = "Ok" /\ fs.nodes[at.inode].kind = "dir" -> Fails(fs, "IsDirectory")
          [] OTHER -> Done(fs)

touch(path) == On(path, fs_touch)

-----------------------------------------------------------------------------

Next ==
    \E path \in RawPaths :
        \/ mount(path)
        \/ create_file(path)
        \/ create_dir(path)
        \/ remove(path)
        \/ \E offset \in Offsets, new \in Writes : write(path, offset, new)
        \/ \E len \in Lengths : truncate(path, len)
        \/ \E new \in Writes, append, refused \in BOOLEAN : write_file(path, new, append, refused)
        \/ touch(path)

Spec == Init /\ [][Next]_vars

-----------------------------------------------------------------------------
(* Properties *)

Depth == InodeMax - 2
Bytes == {0} \cup UNION {Range(w) : w \in Writes}
Contents == SeqOf(Bytes, UsizeMax)

\* Type invariant.
TypeOK ==
    /\ Len(mounts) \in 1 .. MaxMounts
    /\ \A m \in DOMAIN mounts :
          LET fs == mounts[m].fs
          IN  /\ mounts[m].path \in Seq(Names)
              /\ fs.next_inode \in 2 .. InodeMax
              /\ \A i \in DOMAIN fs.nodes :
                    /\ i \in 1 .. fs.next_inode - 1
                    /\ fs.nodes[i].kind = "file" => fs.nodes[i].data \in Contents

\* What a directory lists is what its paths lead to: read_dir of a directory
\* names exactly the children that can be opened, with their inode and kind,
\* mount points aside; and reading a file by its path gives all of its bytes.
ListingsResolve ==
    \A p \in SeqOf(Names, 2) :
        LET Mounted(q) == \E m \in DOMAIN mounts : mounts[m].path = q
        IN  metadata(p).err = "Ok" =>
              IF KindOf(p) = "dir"
              THEN \A n \in Names :
                      LET q == Append(p, n)
                      IN  Mounted(q) \/
                          IF n \in DOMAIN read_dir(p)
                          THEN /\ metadata(q) = Inode(read_dir(p)[n].inode)
                               /\ KindOf(q) = read_dir(p)[n].kind
                          ELSE metadata(q).err = "NotFound"
              ELSE read_all(p) = fs_of(p).nodes[metadata(p).inode].data

\* The variables keep their types.  In every RamFs each node but the root is the
\* child of exactly one directory under exactly one name, and every child
\* exists: create_node and remove keep the two maps in step, and listings agree
\* with paths.
NodesSound ==
    /\ TypeOK
    /\ \A m \in DOMAIN mounts :
        LET nodes == mounts[m].fs.nodes
            Dirs == {i \in DOMAIN nodes : nodes[i].kind = "dir"}
            Places == UNION {{<<d, n>> : n \in DOMAIN nodes[d].children} : d \in Dirs}
        IN  /\ 1 \in Dirs
            /\ \A i \in DOMAIN nodes \ {1} :
                  \E p \in Places : /\ nodes[p[1]].children[p[2]] = i
                                    /\ \A q \in Places \ {p} : nodes[q[1]].children[q[2]] # i
            /\ \A p \in Places : nodes[p[1]].children[p[2]] \in DOMAIN nodes \ {1}
    /\ ListingsResolve

\* write_file that succeeds leaves exactly the new bytes in the file, after the
\* old ones if it appends, whether the file was there or not.  One that fails,
\* at its first step or at its second, leaves the file as it was or, unless it
\* appends, empty.  In any case every other path leads where it did, and every
\* other file is as it was.
StoresExactly ==
    \A m \in DOMAIN mounts, p \in SeqOf(Names, 2), new \in Writes, append, refused \in BOOLEAN :
        LET fs == mounts[m].fs
            out == fs_write_file(fs, p, new, append, refused)
            was == resolve_inode(fs, p)
            is == resolve_inode(out.fs, p)
            old == IF was.err = "Ok" /\ append THEN fs.nodes[was.inode].data ELSE <<>>
            Others(g, q) == q # p /\ resolve_inode(g, q).err = "Ok"
        IN  /\ IF out.err = "Ok" THEN out.fs.nodes[is.inode].data = old \o new
               ELSE \/ out.fs = fs
                    \/ /\ ~append \/ was.err = "NotFound"
                       /\ out.fs.nodes[is.inode] = File
            /\ \A q \in SeqOf(Names, 2) :
                  /\ Others(fs, q) <=> Others(out.fs, q)
                  /\ Others(fs, q) => resolve_inode(fs, q) = resolve_inode(out.fs, q)
            /\ \A i \in DOMAIN fs.nodes \ {is.inode} :
                  fs.nodes[i].kind = "file" => out.fs.nodes[i] = fs.nodes[i]

\* A relative path does not begin with a slash, which an empty first part means.
ShortPaths ==
    {path \in [absolute : BOOLEAN,
               parts : SeqOf(Names \cup LongNames \cup NulNames \cup {"", ".", ".."}, 4)] :
        ~path.absolute /\ path.parts # <<>> => path.parts[1] # ""}

\* A name survives if no later ".." cancels it: relative paths first take the
\* base's names, and ".." at the root is ignored.
Surviving(base, path) ==
    LET all == IF path.absolute THEN path.parts ELSE base \o path.parts
        Named(i, j) == {k \in i .. j : all[k] \in Names}
        Dotted(i, j) == {k \in i .. j : all[k] = ".."}
        Survives(i) ==
            /\ all[i] \in Names
            /\ \A j \in i + 1 .. Len(all) :
                  Cardinality(Dotted(i + 1, j)) <= Cardinality(Named(i + 1, j))
        kept == SelectSeq([i \in DOMAIN all |-> i], Survives)
    IN  [n \in DOMAIN kept |-> all[kept[n]]]

Cancels(base) ==
    \A path \in ShortPaths :
        LET got == normalize_path(base, path)
        IN  got.err = "Ok" => got.names = Surviving(base, path)

\* A constant, which TLC evaluates once.
Bases == {[path |-> base, cancels |-> Cancels(base)] : base \in SeqOf(Names, 2)}

\* From every directory that there is, normalize_path keeps exactly the names
\* of a path that no later ".." cancels.
NormalizeCancels ==
    \A base \in Bases :
        metadata(base.path).err = "Ok" /\ KindOf(base.path) = "dir" => base.cancels

\* Paths inside one file system, and through all of them.
Inside == SeqOf(Names, Depth)
AllPaths == SeqOf(Names, 3)

\* The nodes of a file system by their paths.
TreeOf(fs) ==
    LET at == [p \in Inside |-> resolve_inode(fs, p)]
    IN  [p \in {q \in DOMAIN at : at[q].err = "Ok"} |->
            LET node == fs.nodes[at[p].inode]
            IN  IF node.kind = "dir" THEN [kind |-> "dir"] ELSE node]

MountAt(p) == CHOOSE m \in DOMAIN mounts : mounts[m].path = p

Abstract == INSTANCE FileTree WITH
    Paths <- AllPaths,
    trees <- [p \in {mounts[m].path : m \in DOMAIN mounts} |-> TreeOf(mounts[MountAt(p)].fs)]

\* The kernel's file system implements the abstract one: whatever the mounts
\* and the inode numbers, an operation on a path changes the node that the
\* path names and no other, and one that fails changes nothing, but for a
\* write_file that had made or emptied its file.
ImplementsFileTree == Abstract!Spec
=============================================================================
