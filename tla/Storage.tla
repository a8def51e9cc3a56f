------------------------------- MODULE Storage -------------------------------
(***************************************************************************)
(* The persistent volume across boots: the part of init and seed_file of   *)
(* kernel/src/vfs.rs that mounts GenericFS, checks or makes its marker and *)
(* seeds README, over the sector writes of module GenericFs.  The machine  *)
(* may stop, or the device fail, at any write, of the kernel or of a user; *)
(* the disk is all that a stop leaves.  Users work on the whole volume:    *)
(* the shell takes any path below /mnt, that of the marker included.       *)
(***************************************************************************)
EXTENDS GenericFs

CONSTANTS
    marker, readme,       \* the names .generic-persist and README
    MARKER, README_TEXT,  \* what the two files hold
    GoOn                  \* users go on once one has changed the marker: a bound

\* The two files have names of their own.  A volume that mount accepts has room
\* for both: it has two data sectors at least, and each text is shorter than
\* one.
ASSUME StorageAssumption ==
    /\ {marker, readme} \subseteq Names /\ marker # readme
    /\ MARKER \in Seq(Bytes) /\ README_TEXT \in Seq(Bytes)
    /\ INODE_COUNT >= 3
    /\ DATA_START + sectors_for_len(Len(MARKER)) + sectors_for_len(Len(README_TEXT))
          <= SectorCount

VARIABLES
    boot,        \* where vfs::init is
    formatted,   \* what mount answered
    panic,       \* why vfs::init panicked
    cut,         \* a stop or failure hit one of the two windows below
    touched      \* history: a user changed the marker

bootVars == <<boot, formatted, panic, cut, touched>>
storageVars == <<mounted, magic, inode, data, todo, op, content, intact, hidden,
                 boot, formatted, panic, cut, touched>>
diskVars == <<magic, inode, data, todo, op, content, intact, hidden>>

StorageInit ==
    /\ Init
    /\ boot = "off"
    /\ formatted = FALSE
    /\ panic = "none"
    /\ cut = FALSE
    /\ touched = FALSE

Goto(next) == boot' = next /\ UNCHANGED <<formatted, panic, cut, touched>>
Panic(cause) ==
    /\ boot' = "panicked" /\ panic' = cause
    /\ UNCHANGED <<formatted, cut, touched, mounted>> /\ UNCHANGED diskVars

RootHolds(name) == find_child(Root, name)

\* GenericFs::mount(device, true).expect(..): a volume with a superblock and
\* no root directory is refused.
Mount ==
    /\ boot = "off"
    /\ \/ /\ mount
          /\ boot' = IF magic THEN "look" ELSE "format"
          /\ formatted' = ~magic
          /\ UNCHANGED <<panic, cut, touched>>
       \/ /\ magic /\ inode[Root].kind # "dir"
          /\ Panic("corrupt")

Formatted ==
    /\ boot = "format" /\ mounted /\ Idle
    /\ Goto("look")
    /\ UNCHANGED mounted /\ UNCHANGED diskVars

AfterMarker == IF formatted THEN "readme" ELSE "up"

\* any file of that name will do
FindMarker_unread ==
    /\ boot = "look"
    /\ \E i \in RootHolds(marker) :
          IF inode[i].kind = "file"
          THEN Goto(AfterMarker) /\ UNCHANGED mounted /\ UNCHANGED diskVars
          ELSE Panic("corrupt")

\* The marker is there: it must be a file with the right contents.
FindMarker ==
    /\ boot = "look"
    /\ \E i \in RootHolds(marker) :
          IF inode[i].kind = "file" /\ read(i) = MARKER
          THEN Goto(AfterMarker) /\ UNCHANGED mounted /\ UNCHANGED diskVars
          ELSE Panic("corrupt")

CreateMarker ==
    /\ boot = "look" /\ RootHolds(marker) = {}
    /\ \/ create(Root, marker, "file") /\ Goto("marker")
       \/ (\A i \in 2 .. INODE_COUNT : IsLive(i)) /\ Panic("full")

\* The end of a create, and the write that follows it.
Fill(at, name, text, next) ==
    /\ boot = at /\ Idle
    /\ \E i \in RootHolds(name) :
          \/ write(i, 0, text) /\ Goto(next)
          \/ Places(i, sectors_for_len(Len(text))) = {} /\ Panic("full")

WriteMarker == Fill("marker", marker, MARKER, "marker written")

MarkerWritten ==
    /\ boot = "marker written" /\ Idle
    /\ Goto(AfterMarker)
    /\ UNCHANGED mounted /\ UNCHANGED diskVars

\* seed_file on the volume.
SeedReadme ==
    /\ boot = "readme"
    /\ \/ RootHolds(readme) = {} /\ create(Root, readme, "file") /\ Goto("readme made")
       \/ \E i \in RootHolds(readme) :
             \/ inode[i].kind = "file" /\ truncate(i, 0) /\ Goto("readme made")
             \/ inode[i].kind # "file" /\ Panic("corrupt")
       \/ RootHolds(readme) = {} /\ (\A i \in 2 .. INODE_COUNT : IsLive(i)) /\ Panic("full")

WriteReadme == Fill("readme made", readme, README_TEXT, "readme written")

ReadmeWritten ==
    /\ boot = "readme written" /\ Idle
    /\ boot' = "up" /\ formatted' = FALSE
    /\ UNCHANGED <<panic, cut, touched>>
    /\ UNCHANGED mounted /\ UNCHANGED diskVars

\* One more sector of the running operation.
SectorWrite ==
    /\ PatchSector \/ CopySector \/ ZeroTable \/ WriteSuperblock \/ write_inode
    /\ UNCHANGED bootVars

\* A volume that has its superblock and not yet its root directory, or its
\* marker and not yet what the marker holds.
Window ==
    \/ boot = "format" /\ magic
    \/ boot = "marker" /\ Idle
    \/ boot = "marker written" /\ ~Idle

\* A failed write: vfs::init expects every result, a user gets the error.  A
\* failed read only ends the boot, and leaves the disk as Stop does.
IoError ==
    /\ Io
    /\ boot' = IF boot = "up" THEN boot ELSE "panicked"
    /\ panic' = IF boot = "up" THEN panic ELSE "io"
    /\ cut' = (cut \/ Window)
    /\ UNCHANGED <<formatted, touched>>

\* The power goes, and comes back.
Stop ==
    /\ boot # "off"
    /\ Crash
    /\ boot' = "off" /\ formatted' = FALSE /\ panic' = "none"
    /\ cut' = (cut \/ Window)
    /\ UNCHANGED touched

BootStep ==
    \/ Mount \/ Formatted \/ FindMarker \/ CreateMarker \/ WriteMarker \/ MarkerWritten
    \/ SeedReadme \/ WriteReadme \/ ReadmeWritten \/ SectorWrite

\* A user of the volume may do anything to its files, the marker included.
Touches(itsMarker) == touched' = (touched \/ itsMarker)
UserStep ==
    /\ boot = "up" /\ (touched => GoOn)
    /\ \/ \E p \in Inodes, n \in Names :
             /\ (\E k \in Kinds : create(p, n, k)) \/ remove(p, n)
             /\ Touches(p = Root /\ n = marker)
       \/ \E i \in Inodes :
             /\ \/ \E w \in Writes : write(i, w.offset, w.bytes)
                \/ \E len \in Lengths : truncate(i, len)
             /\ Touches(i \in RootHolds(marker))
    /\ UNCHANGED <<boot, formatted, panic, cut>>

StorageNext == BootStep \/ UserStep \/ IoError \/ Stop

StorageSpec == StorageInit /\ [][StorageNext]_storageVars

-----------------------------------------------------------------------------
(* Properties *)

\* Nothing that happens to the other files after the first boot keeps the
\* machine from booting: vfs::init finds its volume and its marker whole,
\* wherever a user's operation was stopped or failed, unless a stop or a failed
\* write hit the first boot between the superblock and the root directory, or
\* between the marker's inode and its contents.  A user who changes the marker
\* itself may well make the next boot panic: nothing protects that file, and
\* vfs::init asserts what it holds.
BootsAgain ==
    /\ boot = "panicked" => panic = "io" \/ cut \/ touched
    /\ boot = "up" /\ ~touched => \E i \in Inodes : RootHolds(marker) = {i} /\ read(i) = MARKER
=============================================================================
