----------------------------- MODULE PageTables ------------------------------
(***************************************************************************)
(* clone_root of kernel-core/src/page_tables.rs: a deep copy of a tree of  *)
(* page tables into frames taken one by one from the physical memory       *)
(* manager, which may run out at any of them.  The partial copy is its own *)
(* journal: a failed attempt walks it and releases every frame.            *)
(*                                                                         *)
(* The recursion is a stack of calls.  An entry of a table is absent       *)
(* (perhaps with bits that the hardware ignores), a large page, a large    *)
(* page with reserved bits set, or points to a frame: a table above level  *)
(* 1 and a page at level 1.  Flags travel with the entry and are left out. *)
(***************************************************************************)
EXTENDS Integers, Sequences, FiniteSetsExt

CONSTANTS
    Levels,       \* 4
    Indices,      \* 512: entries of a table, 0 .. Indices - 1
    LIMIT,        \* 16384: tables that a clone may allocate
    SourceFrames, FreeFrames,
    Root,         \* the source root
    Sources       \* the contents of the source tables to try

VARIABLES
    source,      \* contents of the source tables, which nothing changes
    tables,      \* contents of the allocated tables
    stack,       \* the calls of clone_table and release_tree, outermost first
    count,
    reply,       \* what the latest call returned to the one below it
    outcome,     \* of clone_root
    panicked     \* a release was refused

vars == <<source, tables, stack, count, reply, outcome, panicked>>

Index == 0 .. Indices - 1
Absent == [kind |-> "absent"]
Points(f) == [kind |-> "frame", frame |-> f]
IsTable(entry, level) == level > 1 /\ entry.kind = "frame"

Owned == DOMAIN tables
NoReply == [kind |-> "none"]

Init ==
    /\ source \in Sources
    /\ tables = << >>
    /\ stack = <<[mode |-> "call", src |-> Root, level |-> Levels]>>
    /\ count = 0
    /\ reply = NoReply
    /\ outcome = [kind |-> "running"]
    /\ panicked = FALSE

Top == stack[Len(stack)]
Below == SubSeq(stack, 1, Len(stack) - 1)
SetTop(call) == [stack EXCEPT ![Len(stack)] = call]

\* Ends the call on top of the stack with a result for the one below.
Return(result) ==
    /\ stack' = Below
    /\ IF Below = <<>>
       THEN outcome' = result /\ reply' = NoReply
       ELSE reply' = result /\ UNCHANGED outcome

Cloned(f) == [kind |-> "Ok", frame |-> f]
Error(e) == [kind |-> "Err", error |-> e]

-----------------------------------------------------------------------------
(* clone_table *)

Ancestors == {stack[i].src : i \in 1 .. Len(stack) - 1}

\* Early returns of clone_table, before anything is allocated.
Refused(e) ==
    \/ e = "InvalidFrame" /\ Top.src = 0
    \/ e = "Cycle" /\ Top.src # 0 /\ Top.src \in Ancestors
    \/ e = "TableLimit" /\ Top.src # 0 /\ Top.src \notin Ancestors /\ count = LIMIT

Refuse ==
    /\ stack # <<>> /\ Top.mode = "call"
    /\ \E e \in {"InvalidFrame", "Cycle", "TableLimit"} : Refused(e) /\ Return(Error(e))
    /\ UNCHANGED <<source, tables, count, panicked>>

CanAllocate ==
    /\ stack # <<>> /\ Top.mode = "call"
    /\ \A e \in {"InvalidFrame", "Cycle", "TableLimit"} : ~Refused(e)

\* The physical memory manager may have no frame left.
OutOfMemory ==
    /\ CanAllocate
    /\ Return(Error("OutOfMemory"))
    /\ UNCHANGED <<source, tables, count, panicked>>

\* A frame at address zero is given back at once.
AllocateZero ==
    /\ CanAllocate
    /\ 0 \in FreeFrames \ Owned
    /\ count' = count + 1
    /\ Return(Error("InvalidFrame"))
    /\ UNCHANGED <<source, tables, panicked>>

\* Any fresh frame will do, so the lowest one stands for all.
Fresh == FreeFrames \ (Owned \cup {0})

Allocate ==
    /\ CanAllocate
    /\ Fresh # {}
    /\ LET f == Min(Fresh)
       IN  /\ tables' = [g \in Owned \cup {f} |-> IF g = f THEN [i \in Index |-> Absent] ELSE tables[g]]
           /\ stack' = SetTop([mode |-> "clone", src |-> Top.src, dst |-> f,
                               level |-> Top.level, index |-> 0])
    /\ count' = count + 1
    /\ UNCHANGED <<source, reply, outcome, panicked>>

Entry == source[Top.src][Top.index]
Copying == stack # <<>> /\ Top.mode = "clone" /\ Top.index < Indices /\ reply = NoReply

Write(entry) ==
    /\ tables' = [tables EXCEPT ![Top.dst][Top.index] = entry]
    /\ stack' = SetTop([Top EXCEPT !.index = @ + 1])

\* A large page in the root, or one with reserved bits.
BadEntry ==
    /\ Top.level > 1
    /\ \/ Entry.kind = "large" /\ Top.level = Levels
       \/ Entry.kind = "large reserved"

CopyEntry ==
    /\ Copying /\ ~IsTable(Entry, Top.level) /\ ~BadEntry
    /\ Write(Entry)
    /\ UNCHANGED <<source, count, reply, outcome, panicked>>

\* links the source's table until the copy replaces it
Descend_linked ==
    /\ Copying /\ IsTable(Entry, Top.level)
    /\ stack' = Append(stack, [mode |-> "call", src |-> Entry.frame, level |-> Top.level - 1])
    /\ tables' = [tables EXCEPT ![Top.dst][Top.index] = Entry]
    /\ UNCHANGED <<source, count, reply, outcome, panicked>>

Descend ==
    /\ Copying /\ IsTable(Entry, Top.level)
    /\ stack' = Append(stack, [mode |-> "call", src |-> Entry.frame, level |-> Top.level - 1])
    /\ UNCHANGED <<source, tables, count, reply, outcome, panicked>>

\* The child is linked only now that its whole subtree is copied.
Link ==
    /\ stack # <<>> /\ Top.mode = "clone" /\ reply.kind = "Ok"
    /\ Write(Points(reply.frame))
    /\ reply' = NoReply
    /\ UNCHANGED <<source, count, outcome, panicked>>

Finish ==
    /\ stack # <<>> /\ Top.mode = "clone" /\ Top.index = Indices /\ reply = NoReply
    /\ Return(Cloned(Top.dst))
    /\ UNCHANGED <<source, tables, count, panicked>>

Releasing(frame, level, error) ==
    [mode |-> "release", src |-> 0, dst |-> frame, level |-> level, index |-> 0, error |-> error]

\* An error in this table or from a child: release what has been copied.
Fail ==
    /\ stack # <<>> /\ Top.mode = "clone"
    /\ \/ /\ reply.kind = "Err"
          /\ stack' = SetTop(Releasing(Top.dst, Top.level, reply.error))
       \/ /\ Copying /\ BadEntry
          /\ stack' = SetTop(Releasing(Top.dst, Top.level, "InvalidHugePage"))
    /\ reply' = NoReply
    /\ UNCHANGED <<source, tables, count, outcome, panicked>>

-----------------------------------------------------------------------------
(* release_tree *)

Walking == stack # <<>> /\ Top.mode = "release"
Contents(f) ==
    IF f \in Owned THEN tables[f]
    ELSE IF f \in SourceFrames THEN source[f] ELSE [i \in Index |-> Absent]
Further == SetTop([Top EXCEPT !.index = @ + 1])

\* One entry of a table above level 1.
ReleaseEntry ==
    /\ Walking /\ Top.level > 1 /\ Top.index < Indices
    /\ LET entry == Contents(Top.dst)[Top.index]
       IN  stack' = IF entry.kind = "frame"
                    THEN Append(Further, Releasing(entry.frame, Top.level - 1, "none"))
                    ELSE Further
    /\ UNCHANGED <<source, tables, count, reply, outcome, panicked>>

\* The table itself, after everything below it.  free_pages refuses a frame
\* that is not allocated, and then BootTables panics.
ReleaseTable ==
    /\ Walking /\ (Top.level = 1 \/ Top.index = Indices)
    /\ panicked' = (panicked \/ Top.dst \notin Owned)
    /\ tables' = Restrict(tables, Owned \ {Top.dst})
    /\ IF Top.error = "none"
       THEN stack' = Below /\ UNCHANGED <<reply, outcome>>
       ELSE Return(Error(Top.error))
    /\ UNCHANGED <<source, count>>

-----------------------------------------------------------------------------

clone_root ==
    \/ Refuse \/ OutOfMemory \/ AllocateZero \/ Allocate
    \/ CopyEntry \/ Descend \/ Link \/ Finish \/ Fail
    \/ ReleaseEntry \/ ReleaseTable

-----------------------------------------------------------------------------
(* Properties *)

\* Type invariant.
TypeOK ==
    /\ Owned \subseteq FreeFrames
    /\ \A f \in Owned : DOMAIN tables[f] = Index
    /\ count \in 0 .. LIMIT
    /\ Len(stack) <= Levels
    /\ panicked \in BOOLEAN

\* The walk stays within its limits of depth and number of tables.  A failed
\* attempt frees all of its allocations and releases no frame twice:
\* whatever the topology of the source and wherever memory runs out, the
\* rollback finds exactly the frames that were allocated.
FailureFreesAll ==
    /\ TypeOK
    /\ ~panicked
    /\ outcome.kind = "Err" => Owned = {}

\* What the hardware reads at a path of indices through tables t from frame f:
\* the first entry that is not a table of t.
Walk(t, f, path) ==
    LET at[n \in 0 .. Levels] ==
            IF n = 0 THEN [entry |-> Points(f), level |-> Levels + 1]
            ELSE LET up == at[n - 1]
                 IN  IF up.level > 1 /\ up.entry.kind = "frame" /\ up.entry.frame \in DOMAIN t
                     THEN [entry |-> t[up.entry.frame][path[n]], level |-> up.level - 1]
                     ELSE up
    IN  at[Levels]

\* A clone that succeeds translates every address as the source does, with
\* tables of its own throughout: no table of the source or of another branch
\* is reached, and the number of tables is the one the caller's accounting
\* asserts.
SuccessIsFaithful ==
    outcome.kind = "Ok" =>
        /\ \A path \in [1 .. Levels -> Index] :
              Walk(tables, outcome.frame, path) = Walk(source, Root, path)
        /\ Cardinality(Owned) = count
        /\ \A f \in Owned \ {outcome.frame} :
              Cardinality({slot \in Owned \X Index : tables[slot[1]][slot[2]] = Points(f)}) = 1
=============================================================================
