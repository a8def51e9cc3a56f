------------------------------- MODULE MCBoot --------------------------------
(***************************************************************************)
(* Machines with good and bad firmware tables, mice, topologies of source  *)
(* tables and programs, each tried while the others are usual.             *)
(***************************************************************************)
EXTENDS Boot, TLC

-----------------------------------------------------------------------------
(* Machines.  An SDT header is 2 bytes, a MADT header 4. *)

Pin(vector, masked) ==
    [low |-> [vector |-> vector, masked |-> masked, active_low |-> FALSE, level |-> FALSE],
     destination |-> 0]
\* Firmware left pin 1 unmasked.
Chips(n) ==
    [a \in 1 .. n |-> [address |-> 10 * a, base |-> IF a = 1 THEN 0 ELSE IF a = 2 THEN 2 ELSE 14,
                       pins |-> [p \in 1 .. (IF a = 1 THEN 2 ELSE IF a = 2 THEN 12 ELSE 2) |->
                                    Pin(IF p = 1 THEN 50 ELSE 0, p # 1)]]]

IoApic(a, base) == [type |-> 1, length |-> 12, address |-> 10 * a, base |-> base]
Override(bus, irq, gsi, f) == [type |-> 2, length |-> 10, bus |-> bus, irq |-> irq, gsi |-> gsi, flags |-> f]
LocalApic == [type |-> 0, length |-> 8]
AddressOverride == [type |-> 5, length |-> 12, address |-> 99]

Bytes(entries) ==
    LET upTo[n \in 0 .. Len(entries)] == IF n = 0 THEN 4 ELSE upTo[n - 1] + entries[n].length
    IN  upTo[Len(entries)]

SdtOf(signature, length, words, entries) ==
    [length |-> length, sum |-> TRUE, signature |-> signature, words |-> words,
     entries |-> entries, lapic |-> IF Len(entries) = 1 THEN 0 ELSE 7]
MadtOf(entries) == SdtOf("APIC", Bytes(entries), <<>>, entries)

Machine(entries) ==
    [rsdp |-> [signature |-> TRUE, sum |-> TRUE, revision |-> 2, length |-> 36,
               extended_sum |-> TRUE, rsdt |-> 1, xsdt |-> 2],
     tables |-> (1 :> SdtOf("RSDT", 2 + 4 * 2, <<3, 4>>, <<>>))
                @@ (2 :> SdtOf("XSDT", 2 + 8 * 3, <<0, 3, 4>>, <<>>))
                @@ (3 :> SdtOf("FACP", 5, <<>>, <<>>))
                @@ (4 :> MadtOf(entries)),
     io_apics |-> Chips(3), cpu_has_apic |-> TRUE, local_id |-> 5]

Timer == Override(0, 0, 2, 0)
Two == <<IoApic(1, 0), IoApic(2, 2)>>
Good == Machine(<<LocalApic>> \o Two \o <<Timer, AddressOverride>>)

SomeMachines ==
    {Good,
     Machine(Two \o <<Override(1, 1, 3, 0), Timer, Override(0, 0, 5, 15), Override(0, 12, 9, 13)>>),
     Machine(Two \o <<Timer, IoApic(3, 14), Override(0, 40, 1, 0)>>),
     Machine(Two \o <<Override(0, 0, 1, 0)>>),
     Machine(Two \o <<Override(0, 0, 14, 0)>>),
     Machine(Two \o <<Override(0, 1, 3, 2)>>),
     Machine(Two \o <<Override(0, 1, 3, 8)>>),
     Machine(<<LocalApic>>), Machine(<<LocalApic, LocalApic>>),
     Machine(Two \o <<[type |-> 9, length |-> 1]>>),
     [Good EXCEPT !.tables[4].length = @ + 1],
     [Good EXCEPT !.tables[4].length = @ - 1],
     [Good EXCEPT !.tables[4].length = 3],
     [Good EXCEPT !.tables[4].sum = FALSE],
     [Good EXCEPT !.tables[4].signature = "DSDT"],
     [Good EXCEPT !.tables[2].length = @ + 1],
     [Good EXCEPT !.tables[2].length = 1],
     [Good EXCEPT !.tables[2].sum = FALSE],
     [Good EXCEPT !.rsdp.revision = 0],
     [Good EXCEPT !.rsdp.xsdt = 0],
     [Good EXCEPT !.rsdp.xsdt = 0, !.rsdp.rsdt = 0],
     [Good EXCEPT !.rsdp.signature = FALSE],
     [Good EXCEPT !.rsdp.sum = FALSE],
     [Good EXCEPT !.rsdp.length = 35],
     [Good EXCEPT !.rsdp.extended_sum = FALSE],
     [Good EXCEPT !.cpu_has_apic = FALSE]}

-----------------------------------------------------------------------------
(* Mice: a wheel mouse that firmware left reporting, a plain one, and none. *)

Mouse(present, wheel) ==
    [present |-> present, armed |-> FALSE, rates |-> <<0, 0, 0>>, wheel |-> FALSE,
     has_wheel |-> wheel, reporting |-> wheel]
NoMouse == Mouse(FALSE, FALSE)
SomeMice == {Mouse(TRUE, TRUE), Mouse(TRUE, FALSE), NoMouse}

-----------------------------------------------------------------------------
(* Three levels of two entries each.  The source is any choice of entries  *)
(* for a root and two more tables: trees, tables shared by two branches,   *)
(* cycles and bad entries.                                                 *)

None == [kind |-> "absent"]
Large == [kind |-> "large"]
To(f) == [kind |-> "frame", frame |-> f]
Entries == {None, Large} \cup {To(f) : f \in {0, 1, 2, 3}}

AnySource == {s : s \in
    {s \in [{1, 2, 3} -> [0 .. 1 -> Entries]] :
        /\ s[1][1] \in {None, To(2), To(3)}
        /\ s[2][1] \in {None, To(0), To(3)}
        /\ s[3][1] \in {None, Large, To(2)}}
    \cup {[f \in {1, 2, 3} |-> [i \in 0 .. 1 |->
              IF f = 1 THEN To(2) ELSE [kind |-> "large reserved"]]]}}

Flat == [f \in {1, 2, 3} |-> [i \in 0 .. 1 |-> None]]

-----------------------------------------------------------------------------
(* Files with one segment of any shape, or two segments that may share a   *)
(* page, and files whose headers are bad.                                  *)

H(o, v, f, m, a, w) ==
    [load |-> TRUE, offset |-> o, vaddr |-> v, filesz |-> f, memsz |-> m, align |-> a,
     writable |-> w, executable |-> ~w]

File(headers, entry) ==
    [len |-> 10, ident |-> "ok", entry |-> entry, phoff |-> 2, headers |-> headers]

AnyShape == {H(o, v, f, m, a, TRUE) : o \in {0, 1, 5, 9, 31}, v \in {0, 1, 5, 9, 12, 30},
                                 f \in {0, 2, 5}, m \in {0, 2, 3, 6, 7, 31}, a \in {0, 1, 3, 4}}
Few == {H(o, v, 2, m, 1, w) : o \in {0, 3}, v \in {0, 3, 4, 6}, m \in {2, 5}, w \in BOOLEAN}
Note == [H(0, 0, 0, 0, 1, FALSE) EXCEPT !.load = FALSE]

Plain == File(<<H(0, 0, 2, 2, 1, FALSE)>>, 0)
SomeFiles == {f : f \in
    {File(<<h>>, 4) : h \in AnyShape}
    \cup {File(<<h, i>>, 0) : h, i \in Few}
    \cup {File(<<Note, H(0, 0, 2, 2, 0, TRUE)>>, e) : e \in {0, 11, 12}}
    \cup {Plain, File(<<Note>>, 0)}
    \cup {[File(<<H(0, 0, 2, 2, 1, TRUE)>>, 0) EXCEPT !.len = l, !.ident = i, !.phoff = p] :
             l \in {1, 2, 4, 10}, i \in {"ok", "BadMagic"}, p \in {0, 2, 9, 31}}}
=============================================================================
