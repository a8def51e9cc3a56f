-------------------------------- MODULE Apic ---------------------------------
(***************************************************************************)
(* Interrupt routing: discover_apic and parse_madt of kernel/src/arch/     *)
(* acpi.rs, then init of kernel/src/arch/apic.rs, one write of an IOAPIC   *)
(* register at a time.                                                     *)
(*                                                                         *)
(* A machine has firmware tables and IOAPICs.  A table has its length in   *)
(* bytes, whether its checksum is right, and what is in it: the addresses  *)
(* of other tables, or MADT entries laid end to end.  The tables describe  *)
(* the machine's IOAPICs; whether they are well formed is for the code to  *)
(* find out.                                                               *)
(***************************************************************************)
EXTENDS Integers, Sequences, FiniteSets, FiniteSetsExt

CONSTANTS
    Machines,
    SDT_HEADER_SIZE, MADT_HEADER_SIZE, MAX_TABLE_SIZE,
    MAX_IO_APICS,
    IOAPIC_REDTBL,   \* the register of the first redirection entry
    U8               \* 2^8: registers of an IOAPIC

VARIABLES
    machine,
    pc,
    root,       \* the root table's address and the size of its entries
    at,         \* the entry of the root table, or of the MADT, that is next
    offset,     \* of that MADT entry
    info,       \* ApicInfo
    lapic,      \* the local APIC: enabled, its local vectors masked
    io_apics,   \* how many IOAPICs are mapped and masked
    pins,       \* the redirection entries of each IOAPIC of the machine
    writes,     \* register writes still to be made
    routed,     \* how many of the three IRQs are routed
    error

apicVars == <<machine, pc, root, at, offset, info, lapic, io_apics, pins, writes, routed, error>>

Info == [address |-> 0, io_apics |-> <<>>, overrides |-> [irq \in 0 .. 15 |-> <<>>]]

ApicInit ==
    /\ machine \in Machines
    /\ pc = "rsdp"
    /\ root = [address |-> 0, size |-> 4]
    /\ at = 1
    /\ offset = MADT_HEADER_SIZE
    /\ info = Info
    /\ lapic = "firmware"
    /\ io_apics = 0
    /\ pins = [a \in DOMAIN machine.io_apics |-> machine.io_apics[a].pins]
    /\ writes = <<>>
    /\ routed = 0
    /\ error = "none"

Fail(e) == pc' = "failed" /\ error' = e

\* A list of checks in the order the code makes them, each with its error.
FirstError(checks) ==
    LET failing == {k \in DOMAIN checks : checks[k][1]}
    IN  IF failing = {} THEN "none" ELSE checks[Min(failing)][2]

-----------------------------------------------------------------------------
(* discover_apic *)

Rsdp == machine.rsdp

RsdpError == FirstError(<<
    <<~Rsdp.signature, "invalid ACPI RSDP signature">>,
    <<~Rsdp.sum, "invalid ACPI RSDP checksum">>,
    <<Rsdp.revision >= 2 /\ Rsdp.length \notin 36 .. 4096, "invalid ACPI RSDP length">>,
    <<Rsdp.revision >= 2 /\ ~Rsdp.extended_sum, "invalid ACPI extended RSDP checksum">> >>)

\* The XSDT if there is one, else the RSDT.
RootTable ==
    IF Rsdp.revision >= 2 /\ Rsdp.xsdt # 0
    THEN [address |-> Rsdp.xsdt, size |-> 8]
    ELSE [address |-> Rsdp.rsdt, size |-> 4]

Table(address) == machine.tables[address]
sdt(address) == FirstError(<<
    <<Table(address).length \notin SDT_HEADER_SIZE .. MAX_TABLE_SIZE, "invalid ACPI SDT length">>,
    <<~Table(address).sum, "invalid ACPI SDT checksum">> >>)
Payload(address) == Table(address).length - SDT_HEADER_SIZE

RootError == FirstError(<<
    <<RsdpError # "none", RsdpError>>,
    <<RootTable.address = 0, "ACPI root table address is zero">> >>)

TableError(r) == FirstError(<<
    <<sdt(r.address) # "none", sdt(r.address)>>,
    <<Payload(r.address) % r.size # 0, "malformed ACPI root table">> >>)

FindRoot ==
    /\ pc = "rsdp"
    /\ root' = RootTable
    /\ LET e == IF RootError # "none" THEN RootError ELSE TableError(RootTable)
       IN  IF e = "none" THEN pc' = "root" /\ UNCHANGED error ELSE Fail(e)
    /\ UNCHANGED <<machine, at, offset, info, lapic, io_apics, pins, writes, routed>>

Chunks == Payload(root.address) \div root.size
Chunk == Table(root.address).words[at]

\* One entry of the root table.
FindMadt ==
    /\ pc = "root"
    /\ \/ /\ at > Chunks
          /\ Fail("ACPI MADT not found")
          /\ UNCHANGED <<at, root, info>>
       \/ /\ at <= Chunks
          /\ Chunk # 0 => sdt(Chunk) = "none" /\ Table(Chunk).signature # "APIC"
          /\ at' = at + 1
          /\ UNCHANGED <<pc, error, root, info>>
       \/ /\ at <= Chunks /\ Chunk # 0 /\ sdt(Chunk) # "none"
          /\ Fail(sdt(Chunk))
          /\ UNCHANGED <<at, root, info>>
       \/ /\ at <= Chunks /\ Chunk # 0 /\ sdt(Chunk) = "none" /\ Table(Chunk).signature = "APIC"
          /\ root' = [address |-> Chunk, size |-> 0]
          /\ at' = 1
          /\ IF Table(Chunk).length < MADT_HEADER_SIZE
             THEN Fail("ACPI MADT is truncated") /\ UNCHANGED info
             ELSE /\ pc' = "madt" /\ info' = [info EXCEPT !.address = Table(Chunk).lapic]
                  /\ UNCHANGED error
    /\ UNCHANGED <<machine, offset, lapic, io_apics, pins, writes, routed>>

-----------------------------------------------------------------------------
(* parse_madt *)

Madt == Table(root.address)
Entry == Madt.entries[at]

IsIoApic(e) == e.type = 1 /\ e.length >= 12
IsOverride(e) == e.type = 2 /\ e.length >= 10 /\ e.bus = 0 /\ e.irq < 16
IsAddress(e) == e.type = 5 /\ e.length >= 12

Applied(e) ==
    IF IsIoApic(e) /\ Len(info.io_apics) < MAX_IO_APICS
    THEN [info EXCEPT !.io_apics = Append(@, [address |-> e.address, base |-> e.base])]
    ELSE IF IsOverride(e) THEN [info EXCEPT !.overrides[e.irq] = <<e.gsi, e.flags>>]
    ELSE IF IsAddress(e) THEN [info EXCEPT !.address = e.address]
    ELSE info

ParseEntry ==
    /\ pc = "madt" /\ offset < Madt.length
    /\ IF offset + 2 > Madt.length
       THEN Fail("truncated ACPI MADT entry") /\ UNCHANGED <<info, at, offset>>
       ELSE IF Entry.length < 2 \/ offset + Entry.length > Madt.length
       THEN Fail("invalid ACPI MADT entry length") /\ UNCHANGED <<info, at, offset>>
       ELSE /\ info' = Applied(Entry)
            /\ at' = at + 1
            /\ offset' = offset + Entry.length
            /\ UNCHANGED <<pc, error>>
    /\ UNCHANGED <<machine, root, lapic, io_apics, pins, writes, routed>>

MadtParsed ==
    /\ pc = "madt" /\ offset >= Madt.length
    /\ LET e == FirstError(<<
                   <<info.address = 0, "ACPI MADT has no local APIC address">>,
                   <<info.io_apics = <<>>, "ACPI MADT has no IOAPIC">> >>)
       IN  IF e = "none" THEN pc' = "lapic" /\ UNCHANGED error ELSE Fail(e)
    /\ UNCHANGED <<machine, root, at, offset, info, lapic, io_apics, pins, writes, routed>>

-----------------------------------------------------------------------------
(* init of apic.rs *)

\* map_mmio may fail for want of memory.
EnableLapic ==
    /\ pc = "lapic"
    /\ \/ machine.cpu_has_apic /\ pc' = "ioapic" /\ lapic' = "enabled" /\ UNCHANGED error
       \/ machine.cpu_has_apic /\ Fail("failed to map local APIC MMIO") /\ UNCHANGED lapic
       \/ ~machine.cpu_has_apic /\ Fail("CPU does not report local APIC support") /\ UNCHANGED lapic
    /\ UNCHANGED <<machine, root, at, offset, info, io_apics, pins, writes, routed>>

\* Which IOAPIC of the machine answers at an address.
Chip(address) ==
    CHOOSE a \in DOMAIN machine.io_apics : machine.io_apics[a].address = address
Redirections(a) == Len(machine.io_apics[a].pins)

\* the unmasking half is written first
write_redirection_low_first(a, index, low, high) ==
    LET register == IOAPIC_REDTBL + index * 2
    IN  << <<a, register % U8, low>>, <<a, (register + 1) % U8, high>> >>

\* The two register writes for one redirection entry, the destination first.
write_redirection(a, index, low, high) ==
    LET register == IOAPIC_REDTBL + index * 2
    IN  << <<a, (register + 1) % U8, high>>, <<a, register % U8, low>> >>

Masked == [vector |-> 0, masked |-> TRUE, active_low |-> FALSE, level |-> FALSE]

mask_all(a) ==
    LET writesUpTo[n \in 0 .. Redirections(a)] ==
            IF n = 0 THEN <<>>
            ELSE writesUpTo[n - 1] \o write_redirection(a, n - 1, Masked, 0)
    IN  writesUpTo[Redirections(a)]

MapIoApic ==
    /\ pc = "ioapic" /\ writes = <<>> /\ io_apics < Len(info.io_apics)
    /\ \/ /\ io_apics' = io_apics + 1
          /\ writes' = mask_all(Chip(info.io_apics[io_apics + 1].address))
          /\ UNCHANGED <<pc, error>>
       \/ Fail("failed to map IOAPIC MMIO") /\ UNCHANGED <<io_apics, writes>>
    /\ UNCHANGED <<machine, root, at, offset, info, lapic, pins, routed>>

\* The register of an IOAPIC changes as soon as it is written: an even one is
\* the low half of a redirection entry, an odd one the destination.
WriteRegister ==
    /\ writes # <<>>
    /\ LET a == Head(writes)[1]
           register == Head(writes)[2] - IOAPIC_REDTBL
           pin == register \div 2 + 1
       IN  pins' = IF pin \notin DOMAIN pins[a] THEN pins
                   ELSE [pins EXCEPT ![a][pin] =
                            IF register % 2 = 0
                            THEN [low |-> Head(writes)[3], destination |-> @.destination]
                            ELSE [low |-> @.low, destination |-> Head(writes)[3]]]
    /\ writes' = Tail(writes)
    /\ UNCHANGED <<machine, pc, root, at, offset, info, lapic, io_apics, routed, error>>

Irqs == <<0, 1, 12>>
TIMER_VECTOR == 64
VectorOf == <<TIMER_VECTOR, 65, 66>>

Flags(irq) == IF info.overrides[irq] = <<>> THEN 0 ELSE info.overrides[irq][2]
Gsi(irq) == IF info.overrides[irq] = <<>> THEN irq ELSE info.overrides[irq][1]

Owns(k, gsi) ==
    /\ gsi >= info.io_apics[k].base
    /\ gsi < info.io_apics[k].base + Redirections(Chip(info.io_apics[k].address))

\* The low half for a vector and ACPI flags: polarity, then trigger mode.
Low(vector, flags) ==
    [vector |-> vector, masked |-> FALSE,
     active_low |-> flags % 4 = 3, level |-> (flags \div 4) % 4 = 3]

route_isa_irq ==
    /\ pc = "ioapic" /\ writes = <<>> /\ io_apics = Len(info.io_apics)
    /\ routed < Len(Irqs)
    /\ LET irq == Irqs[routed + 1]
           flags == Flags(irq)
           owners == {k \in DOMAIN info.io_apics : Owns(k, Gsi(irq))}
           k == Min(owners)
           e == FirstError(<<
                   <<owners = {}, "no IOAPIC owns requested GSI">>,
                   <<flags % 4 = 2, "unsupported ACPI interrupt polarity">>,
                   <<(flags \div 4) % 4 = 2, "unsupported ACPI interrupt trigger mode">> >>)
       IN  IF e # "none" THEN Fail(e) /\ UNCHANGED <<writes, routed>>
           ELSE /\ writes' = write_redirection(Chip(info.io_apics[k].address),
                                Gsi(irq) - info.io_apics[k].base,
                                Low(VectorOf[routed + 1], flags), machine.local_id)
                /\ routed' = routed + 1
                /\ UNCHANGED <<pc, error>>
    /\ UNCHANGED <<machine, root, at, offset, info, lapic, io_apics, pins>>

ApicReady ==
    /\ pc = "ioapic" /\ writes = <<>> /\ routed = Len(Irqs)
    /\ pc' = "ready"
    /\ UNCHANGED <<machine, root, at, offset, info, lapic, io_apics, pins, writes, routed, error>>

ApicNext ==
    \/ FindRoot \/ FindMadt \/ ParseEntry \/ MadtParsed
    \/ EnableLapic \/ MapIoApic \/ WriteRegister \/ route_isa_irq \/ ApicReady

-----------------------------------------------------------------------------
(* Properties *)

\* What the firmware says of an IRQ: its last override for the ISA bus, or
\* else the interrupt of the same number, active high and edge triggered.
Said(irq) ==
    LET of == {k \in DOMAIN Madt.entries :
                  IsOverride(Madt.entries[k]) /\ Madt.entries[k].irq = irq}
    IN  IF of = {} THEN [gsi |-> irq, flags |-> 0]
        ELSE LET e == Madt.entries[Max(of)] IN [gsi |-> e.gsi, flags |-> e.flags]

\* The IOAPICs that apic.rs has room for, and their pins.
Listed ==
    LET all == {k \in DOMAIN Madt.entries : IsIoApic(Madt.entries[k])}
        first == {k \in all : Cardinality({j \in all : j < k}) < MAX_IO_APICS}
    IN  {Chip(Madt.entries[k].address) : k \in first}
PinOf(gsi) ==
    {w \in UNION {{a} \X DOMAIN pins[a] : a \in Listed} :
        machine.io_apics[w[1]].base + w[2] - 1 = gsi}

SeparateGsis == \A i, j \in DOMAIN Irqs : i # j => Said(Irqs[i]).gsi # Said(Irqs[j]).gsi

Correct(pin, i) ==
    /\ pin.low = Low(VectorOf[i], Said(Irqs[i]).flags)
    /\ pin.destination = machine.local_id

\* When apic::init returns, the timer, keyboard and mouse interrupts arrive at
\* this processor with their own vectors, through the pins, polarity and
\* trigger modes that the firmware's tables describe, and every other pin of
\* the listed IOAPICs is masked; and at no moment of the routing, between two
\* register writes, can one of these pins deliver anything else.
RoutedAsDescribed ==
    pc \in {"ioapic", "ready"} /\ routed > 0 /\ SeparateGsis =>
        /\ \A a \in Listed : \A p \in DOMAIN pins[a] :
              \/ pins[a][p].low.masked
              \/ \E i \in 1 .. routed :
                    <<a, p>> \in PinOf(Said(Irqs[i]).gsi) /\ Correct(pins[a][p], i)
        /\ pc = "ready" =>
              \A i \in DOMAIN Irqs :
                 \E w \in PinOf(Said(Irqs[i]).gsi) : Correct(pins[w[1]][w[2]], i)
=============================================================================
