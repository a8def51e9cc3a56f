------------------------------- MODULE FileTree ------------------------------
(***************************************************************************)
(* What the virtual file system promises: a set of mounted trees, each a   *)
(* function from paths to directories and file contents.  A path belongs   *)
(* to the deepest mount point above it.                                    *)
(***************************************************************************)
EXTENDS Integers, Sequences, SequencesExt

CONSTANTS Paths, Contents

VARIABLES
    trees,     \* per mount point, the nodes below it by relative path
    done       \* whether the latest operation succeeded

Dir == [kind |-> "dir"]
File(d) == [kind |-> "file", data |-> d]
EmptyTree == [q \in {<<>>} |-> Dir]

Init ==
    /\ trees = [m \in {<<>>} |-> EmptyTree]
    /\ done = TRUE

Put(tree, q, node) == [x \in DOMAIN tree \cup {q} |-> IF x = q THEN node ELSE tree[x]]
HasPlace(tree, q) ==
    /\ q # <<>> /\ q \notin DOMAIN tree
    /\ Front(q) \in DOMAIN tree /\ tree[Front(q)] = Dir
IsFile(tree, q) == q \in DOMAIN tree /\ tree[q] # Dir
IsLeaf(tree, q) ==
    /\ q # <<>> /\ q \in DOMAIN tree
    /\ \A x \in DOMAIN tree : ~IsStrictPrefix(q, x)

\* A tree with a file at q, there already or new, that holds one of these.
Stored(tree, q, datas) ==
    IF HasPlace(tree, q) \/ IsFile(tree, q) THEN {Put(tree, q, File(d)) : d \in datas} ELSE {}

\* What an operation on path q of one tree may leave of it: a directory or a
\* file more, in a directory that is there; new contents of a file; or the
\* tree without q, if q is not its root and has no children.
Changed(tree, q) ==
    (IF HasPlace(tree, q) THEN {Put(tree, q, Dir)} ELSE {})
      \cup Stored(tree, q, Contents)
      \cup (IF IsLeaf(tree, q) THEN {[x \in DOMAIN tree \ {q} |-> tree[x]]} ELSE {})

Owner(t, p) ==
    CHOOSE m \in DOMAIN t :
        /\ IsPrefix(m, p)
        /\ \A n \in DOMAIN t : IsPrefix(n, p) => Len(n) <= Len(m)
Below(m, p) == SubSeq(p, Len(m) + 1, Len(p))

\* What an operation on p may leave of trees t: a change of the tree that p
\* belongs to, or an empty tree mounted on p, a directory and not yet a mount
\* point.
Results(t, p) ==
    LET owner == Owner(t, p)
        q == Below(owner, p)
        canMount == p \notin DOMAIN t /\ q \in DOMAIN t[owner] /\ t[owner][q] = Dir
    IN  {[t EXCEPT ![owner] = tree] : tree \in Changed(t[owner], q)}
          \cup (IF canMount
                THEN {[m \in DOMAIN t \cup {p} |-> IF m = p THEN EmptyTree ELSE t[m]]}
                ELSE {})

\* What one that stores into p may leave when it fails half-way.
Emptied(t, p) ==
    LET owner == Owner(t, p)
    IN  {[t EXCEPT ![owner] = tree] : tree \in Stored(t[owner], Below(owner, p), {<<>>})}

\* A failed operation changes nothing or has emptied its file, and some that
\* succeed change nothing either.
Next ==
    \/ done' \in BOOLEAN /\ UNCHANGED trees
    \/ done' = TRUE /\ trees' \in LET t == trees IN UNION {Results(t, p) : p \in Paths}
    \/ done' = FALSE /\ trees' \in LET t == trees IN UNION {Emptied(t, p) : p \in Paths}

Spec == Init /\ [][Next]_<<trees, done>>
=============================================================================
