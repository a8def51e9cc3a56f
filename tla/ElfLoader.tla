----------------------------- MODULE ElfLoader -------------------------------
(***************************************************************************)
(* From the bytes of a program to user memory: ElfImage::parse of          *)
(* kernel-core/src/elf.rs and load_image of kernel/src/process.rs.         *)
(*                                                                         *)
(* A file is its length and the fields of its headers; byte o of it has    *)
(* the value o + 1, so that memory shows where each byte came from and     *)
(* zero is never a byte of the file.                                       *)
(***************************************************************************)
EXTENDS Integers, Sequences, FiniteSetsExt

CONSTANTS
    Files,         \* the files to try
    PAGE_SIZE,
    USER_LIMIT,    \* in bytes, a multiple of PAGE_SIZE
    U64,           \* 2^64
    HeaderBytes, PhBytes  \* ELF_HEADER_SIZE and PROGRAM_HEADER_SIZE

VARIABLES file, pc, segments, todo, page, memory, flags, error

vars == <<file, pc, segments, todo, page, memory, flags, error>>

Init ==
    /\ file \in Files
    /\ pc = "parse"
    /\ segments = <<>>   \* the PT_LOAD segments
    /\ todo = 1          \* the segment being loaded
    /\ page = 0          \* page_address
    /\ memory = << >>    \* byte -> value, for the bytes of mapped pages
    /\ flags = << >>     \* page -> what its mapping allows
    /\ error = "none"

FileByte(o) == o + 1
PowersOfTwo == {2 ^ k : k \in 0 .. 10}

-----------------------------------------------------------------------------
(* ElfImage::parse *)

SegmentError(h) ==
    IF h.memsz < h.filesz \/ (h.align # 0 /\ h.align \notin PowersOfTwo)
         \/ (h.align > 1 /\ h.vaddr % h.align # h.offset % h.align)
    THEN "InvalidSegment"
    ELSE IF h.offset + h.filesz >= U64 \/ h.offset + h.filesz > file.len
    THEN "TruncatedSegment"
    ELSE "none"

\* The PT_LOAD headers, in their order.
Loads ==
    LET upTo[n \in 0 .. Len(file.headers)] ==
            IF n = 0 THEN <<>>
            ELSE IF file.headers[n].load THEN Append(upTo[n - 1], file.headers[n]) ELSE upTo[n - 1]
    IN  upTo[Len(file.headers)]
BadLoads == {i \in DOMAIN Loads : SegmentError(Loads[i]) # "none"}
PhEnd == file.phoff + PhBytes * Len(file.headers)

ParseError ==
    CASE file.len < HeaderBytes -> "TooSmall"
      [] file.len >= HeaderBytes /\ file.ident # "ok" -> file.ident
      [] file.len >= HeaderBytes /\ file.ident = "ok"
           /\ (PhEnd >= U64 \/ PhEnd > file.len) -> "TruncatedProgramHeaders"
      [] OTHER -> IF BadLoads # {} THEN SegmentError(Loads[Min(BadLoads)])
                  ELSE IF Loads = <<>> THEN "InvalidSegment" ELSE "none"

Fail(e) == pc' = "failed" /\ error' = e

parse ==
    /\ pc = "parse"
    /\ IF ParseError = "none"
       THEN pc' = "load" /\ segments' = Loads /\ UNCHANGED error
       ELSE Fail(ParseError) /\ UNCHANGED segments
    /\ UNCHANGED <<file, todo, page, memory, flags>>

-----------------------------------------------------------------------------
(* load_image *)

Segment == segments[todo]
PageOf(a) == a - (a % PAGE_SIZE)
align_up(a) == PageOf(a + PAGE_SIZE - 1)
SegmentEnd(s) == s.vaddr + s.memsz
FileEnd(s) == s.vaddr + s.filesz

RangeError(s) ==
    CASE s.vaddr >= USER_LIMIT -> "starts outside userspace"
      [] s.vaddr < USER_LIMIT /\ SegmentEnd(s) >= U64 -> "overflow"
      [] s.vaddr < USER_LIMIT /\ SegmentEnd(s) < U64 /\ SegmentEnd(s) > USER_LIMIT ->
            "ends outside userspace"
      [] OTHER -> "none"

\* The entry is checked against the limit of userspace and nothing else.
CheckEntry ==
    /\ pc = "load"
    /\ IF file.entry >= USER_LIMIT
       THEN Fail("entry outside userspace")
       ELSE pc' = "segment" /\ UNCHANGED error
    /\ UNCHANGED <<file, segments, todo, page, memory, flags>>

NextSegment ==
    /\ pc = "segment"
    /\ \/ /\ todo > Len(segments)
          /\ pc' = "loaded"
          /\ UNCHANGED <<todo, page, error>>
       \/ /\ todo <= Len(segments) /\ Segment.memsz = 0
          /\ todo' = todo + 1
          /\ UNCHANGED <<pc, page, error>>
       \/ /\ todo <= Len(segments) /\ Segment.memsz # 0 /\ RangeError(Segment) # "none"
          /\ Fail(RangeError(Segment))
          /\ UNCHANGED <<todo, page>>
       \/ /\ todo <= Len(segments) /\ Segment.memsz # 0 /\ RangeError(Segment) = "none"
          /\ pc' = "page"
          /\ page' = PageOf(Segment.vaddr)
          /\ UNCHANGED <<todo, error>>
    /\ UNCHANGED <<file, segments, memory, flags>>

\* the offset of the first page is forgotten
initial_from_page_start(s) ==
    LET copy_end == Min({page + PAGE_SIZE, FileEnd(s)})
    IN  [b \in page .. page + PAGE_SIZE - 1 |->
            IF b < copy_end THEN FileByte(s.offset + (b - PageOf(s.vaddr))) ELSE 0]

\* The bytes of one page: the part of the file that falls into it.
initial(s) ==
    LET copy_start == Max({page, s.vaddr})
        copy_end == Min({page + PAGE_SIZE, FileEnd(s)})
    IN  [b \in page .. page + PAGE_SIZE - 1 |->
            IF copy_start <= b /\ b < copy_end THEN FileByte(s.offset + (b - s.vaddr)) ELSE 0]

\* Function f, and g where f is not defined.
Over(f, g) == [x \in DOMAIN f \cup DOMAIN g |-> IF x \in DOMAIN f THEN f[x] ELSE g[x]]

\* map_user_page refuses a page that is mapped, and may be out of memory.
LoadPage ==
    /\ pc = "page"
    /\ page < align_up(SegmentEnd(Segment))
    /\ \/ /\ page \notin DOMAIN flags
          /\ memory' = Over(initial(Segment), memory)
          /\ flags' = Over([p \in {page} |-> [writable |-> Segment.writable,
                                             executable |-> Segment.executable]], flags)
          /\ page' = page + PAGE_SIZE
          /\ UNCHANGED <<pc, error>>
       \/ /\ page \in DOMAIN flags
          /\ Fail("already mapped")
          /\ UNCHANGED <<memory, flags, page>>
       \/ /\ Fail("out of physical memory")
          /\ UNCHANGED <<memory, flags, page>>
    /\ UNCHANGED <<file, segments, todo>>

SegmentDone ==
    /\ pc = "page"
    /\ page >= align_up(SegmentEnd(Segment))
    /\ pc' = "segment"
    /\ todo' = todo + 1
    /\ UNCHANGED <<file, segments, page, memory, flags, error>>

load_image == CheckEntry \/ NextSegment \/ LoadPage \/ SegmentDone

-----------------------------------------------------------------------------
(* Properties *)

\* Type invariant: memory is a whole number of pages below the limit, and no
\* segment reads beyond the end of the file.
TypeOK ==
    /\ DOMAIN memory = UNION {p .. p + PAGE_SIZE - 1 : p \in DOMAIN flags}
    /\ DOMAIN memory \subseteq 0 .. USER_LIMIT - 1
    /\ \A i \in DOMAIN segments :
          segments[i].offset + segments[i].filesz <= file.len

InFile(s, b) == s.vaddr <= b /\ b < FileEnd(s)
InMemory(s, b) == s.vaddr <= b /\ b < SegmentEnd(s)

\* No segment reads beyond the file or maps beyond the limit of userspace, and
\* a program that loads is in memory as its headers say: every byte of every
\* segment is there, from the file or zero, with the permissions of that
\* segment, and every other byte of the pages is zero.
LoadedFaithfully ==
    /\ TypeOK
    /\ pc = "loaded" =>
          /\ \A i \in DOMAIN segments :
                \A b \in segments[i].vaddr .. SegmentEnd(segments[i]) - 1 :
                    /\ b \in DOMAIN memory
                    /\ memory[b] = IF InFile(segments[i], b)
                                   THEN FileByte(segments[i].offset + b - segments[i].vaddr)
                                   ELSE 0
                    /\ flags[PageOf(b)].writable = segments[i].writable
                    /\ flags[PageOf(b)].executable = segments[i].executable
          /\ \A b \in DOMAIN memory :
                memory[b] # 0 => \E i \in DOMAIN segments : InFile(segments[i], b)
          /\ \A p \in DOMAIN flags :
                \E i \in DOMAIN segments : \E b \in p .. p + PAGE_SIZE - 1 : InMemory(segments[i], b)
=============================================================================
