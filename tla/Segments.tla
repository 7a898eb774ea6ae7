------------------------------ MODULE Segments ------------------------------
(***************************************************************************)
(* Segment descriptors and the GDTs they are kept in.                      *)
(*                                                                         *)
(* An entry of 8 bytes is the record of its fields, under the names of the *)
(* accessors of segment_descriptor; `upper' is what it means as the second *)
(* half of a system descriptor, bits 32 to 63 of a base.  A                *)
(* segment_descriptor joins both halves: it is the record of its first     *)
(* half with `upper' taken from the second.  Selectors are numbers: index, *)
(* table indicator and requested privilege level as the processor has them.*)
(***************************************************************************)
EXTENDS Integers

CONSTANTS
    Half,          \* 2^32: base() lies below it
    Page,          \* 2^12: the unit of the limit of a segment with granularity
    LimitLow,      \* 2^16: limit_low lies below it, limit_high counts in it
    GdtEntries,    \* 2^13: the entries of host_gdt and of an intermediate GDT
    Unrelated      \* an upper half that belongs to no system descriptor

ASSUME HalfAssumption == Half \in Nat \ {0}
ASSUME LimitAssumption == Page \in Nat \ {0} /\ LimitLow \in Nat \ {0}
\* A limit has room for the size of a TSS.
ASSUME TssLimitAssumption == 103 < 16 * LimitLow

ASSUME GdtEntriesAssumption == GdtEntries \in Nat /\ GdtEntries >= 4
ASSUME UnrelatedAssumption == Unrelated \in Nat

\* Segment types; a system segment with type 9 or 11 is a TSS.
data_read_write_accessed == 3
code_execute_read == 10
tss_available == 9
tss_busy == 11
ldt == 2

\* Eight bytes of zeros: the system bit is stored inverted.
Zero == [limit |-> 0, base |-> 0, type |-> 0, system |-> TRUE, privilege_level |-> 0,
         present |-> FALSE, code_64_bit |-> FALSE, default_operation_size |-> FALSE,
         granularity |-> FALSE, upper |-> 0]

\* The entries there are, by the widths of their fields.
Entries ==
    [limit : 0 .. 16 * LimitLow - 1, base : 0 .. Half - 1, type : 0 .. 15, system : BOOLEAN,
     privilege_level : 0 .. 3, present : BOOLEAN, code_64_bit : BOOLEAN,
     default_operation_size : BOOLEAN, granularity : BOOLEAN, upper : Nat]

\* A present descriptor for the highest privilege level.
Descriptor(limit, base, type, system, code_64_bit, granularity) ==
    [Zero EXCEPT !.limit = limit, !.base = base % Half, !.type = type,
                 !.system = system, !.present = TRUE, !.code_64_bit = code_64_bit,
                 !.granularity = granularity, !.upper = base \div Half]

\* The two halves of a descriptor, as entries of a GDT.
basic_value(d) == [d EXCEPT !.upper = Unrelated]
extended_value(d) == [Zero EXCEPT !.upper = d.upper]

\* Bytes that no descriptor was written to.
Foreign == [Zero EXCEPT !.upper = Unrelated]

Index(selector) == selector \div 8
TableIndicator(selector) == (selector \div 4) % 2
Rpl(selector) == selector % 4

\* The 8 bytes at entry k of a GDT, or behind it.
EntryAt(gdt, k) == IF k \in DOMAIN gdt THEN gdt[k] ELSE Foreign

\* from_memory: the null selector has no descriptor.  The table indicator is not
\* cleared from the offset, so a selector of the LDT reads across two entries.
from_memory(gdt, selector) ==
    IF selector = 0 THEN Zero
    ELSE IF TableIndicator(selector) = 1 THEN Foreign
    ELSE [EntryAt(gdt, Index(selector)) EXCEPT
              !.upper = EntryAt(gdt, Index(selector) + 1).upper]

base_extended(d) == d.base + d.upper * Half
context_dependent_base(d) == IF d.system THEN base_extended(d) ELSE d.base

\* The rights in bits 40 to 55 of the entry, with the upper part of the limit
\* between them, and the bit for a segment that is not usable.
vmx_access_rights(d) ==
    [type |-> d.type, system |-> d.system, privilege_level |-> d.privilege_level,
     present |-> d.present, limit_high |-> d.limit \div LimitLow,
     code_64_bit |-> d.code_64_bit, default_operation_size |-> d.default_operation_size,
     granularity |-> d.granularity, unusable |-> ~d.present]

-----------------------------------------------------------------------------
(***************************************************************************)
(* The GDTs the hypervisor builds.                                         *)
(***************************************************************************)
EmptyGdt == [k \in 0 .. GdtEntries - 1 |-> Zero]

\* The descriptor of a TSS of 26 words of 4 bytes.
TaskStateSegment(base) == Descriptor(103, base, tss_available, TRUE, FALSE, FALSE)

\* GDT g with the TSS at base in entries k and k + 1.
WithTss(g, k, base) ==
    [e \in DOMAIN g |-> CASE e = k -> basic_value(TaskStateSegment(base))
                          [] e = k + 1 -> extended_value(TaskStateSegment(base))
                          [] OTHER -> g[e]]

host_cs == 1 * 8
host_tr == 2 * 8

CodeSegment == Descriptor(16 * LimitLow - 1, 0, code_execute_read, FALSE, TRUE, TRUE)

\* initialize_host_gdt
HostGdt(tss) ==
    WithTss([EmptyGdt EXCEPT ![Index(host_cs)] = basic_value(CodeSegment)],
            Index(host_tr), tss)

\* The first entries of GDT g are copied from the operating system's.
CopiedInto(g, os) == [k \in DOMAIN g |-> IF k \in DOMAIN os THEN os[k] ELSE g[k]]

-----------------------------------------------------------------------------
(***************************************************************************)
(* The processor.                                                          *)
(***************************************************************************)

\* ltr accepts the selector of a present TSS that is available, and makes it busy.
LtrAccepts(gdt, selector) ==
    LET d == from_memory(gdt, selector)
    IN  d.system /\ d.type = tss_available /\ d.present

MadeBusy(gdt, selector) == [gdt EXCEPT ![Index(selector)].type = tss_busy]

\* The limit of a segment in bytes.
ScaledLimit(d) == IF d.granularity THEN d.limit * Page + Page - 1 ELSE d.limit

\* What a segment register holds after it was loaded with a selector of the GDT.
Loaded(gdt, selector) ==
    LET d == from_memory(gdt, selector)
    IN  [selector |-> selector, limit |-> ScaledLimit(d), base |-> context_dependent_base(d),
         rights |-> [vmx_access_rights(d) EXCEPT !.limit_high = 0]]

=============================================================================
