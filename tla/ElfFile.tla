------------------------------ MODULE ElfFile ------------------------------
(***************************************************************************)
(* elf_file: loading the hypervisor's ELF file.  The constructor finds the *)
(* first and the last load segment and the dynamic segment; load allocates *)
(* memory, copies the segments, applies the relative relocations and       *)
(* protects the segments.  A loop takes one step per iteration.            *)
(*                                                                         *)
(* Memory consists of cells.  A cell can be read as a word and as an entry *)
(* of a relocation table, since the code casts addresses to either.  Sizes *)
(* in the dynamic segment are in bytes, an entry has EntryBytes of them.   *)
(***************************************************************************)
EXTENDS Integers, Sequences

CONSTANTS
    Files,        \* the files that may be loaded
    Bases,        \* where the allocator may put them; 0 is nullptr
    PageCells,    \* cells in a page
    EntryBytes,   \* the size of an entry of the relocation table
    MemoryTop     \* the last address of the model's memory

\* What a cell holds, as a word and as an entry of a table.
Word(w) == [word |-> w, relative |-> FALSE, r_offset |-> 0, r_addend |-> 0]
Relative(o, a) == [word |-> 0, relative |-> TRUE, r_offset |-> o, r_addend |-> a]

ASSUME PageAssumption == PageCells \in Nat \ {0} /\ EntryBytes \in Nat \ {0}
ASSUME BasesAssumption == MemoryTop \in Nat /\ Bases \subseteq 1 .. MemoryTop

VARIABLES
    file,        \* the file: program headers, dynamic entries and cells
    base,        \* what allocate returned
    memory, protection,
    relocations, relocations_size,  \* what get_relocations returned
    pc, i

vars == <<file, base, memory, protection, relocations, relocations_size, pc, i>>

Init ==
    /\ file \in Files
    /\ base = 0
    /\ memory = [a \in 0 .. MemoryTop |-> Word(-1)]
    /\ protection = [a \in 0 .. MemoryTop |-> "none"]
    /\ relocations = [kind |-> "rel", at |-> 0] /\ relocations_size = 0
    /\ pc = "allocate" /\ i = 1

-----------------------------------------------------------------------------
(***************************************************************************)
(* The constructor.                                                        *)
(***************************************************************************)
Headers == DOMAIN file.phdrs
LoadHeaders == {h \in Headers : file.phdrs[h].type = "load"}
FirstLoad == CHOOSE h \in LoadHeaders : \A g \in LoadHeaders : h =< g
LastLoad == CHOOSE h \in LoadHeaders : \A g \in LoadHeaders : g =< h

RoundDown(a) == (a \div PageCells) * PageCells
RoundUp(a) == RoundDown(a + PageCells - 1)

preferred_base == RoundDown(file.phdrs[FirstLoad].vaddr)

\* Mutant: the size of the last segment in the file is used.
memory_sizeOfFile ==
    RoundUp(file.phdrs[LastLoad].vaddr + file.phdrs[LastLoad].filesz) - preferred_base

memory_size ==
    RoundUp(file.phdrs[LastLoad].vaddr + file.phdrs[LastLoad].memsz) - preferred_base

base_difference == base - preferred_base

-----------------------------------------------------------------------------
(***************************************************************************)
(* load.                                                                   *)
(***************************************************************************)
Allocate ==
    /\ pc = "allocate"
    /\ \/ \E b \in Bases : base' = b /\ pc' = "map_segments"
       \/ base' = 0 /\ pc' = "failed"
    /\ UNCHANGED <<file, memory, protection, relocations, relocations_size, i>>

\* Memory m after segment s is copied and what the file has no data for is
\* cleared.
SegmentInMemory(m, s) ==
    [a \in DOMAIN m |->
        LET o == a - (base_difference + s.vaddr)
        IN  CASE o \in 0 .. s.filesz - 1 -> file.data[s.offset + o]
              [] o \in s.filesz .. s.memsz - 1 -> Word(0)
              [] OTHER -> m[a]]

\* An iteration of map_segments.
MapSegment ==
    /\ pc = "map_segments" /\ i \in Headers
    /\ memory' = IF i \in LoadHeaders THEN SegmentInMemory(memory, file.phdrs[i]) ELSE memory
    /\ i' = i + 1
    /\ UNCHANGED <<file, base, protection, relocations, relocations_size, pc>>

\* Whether a dynamic entry has a tag, and the value of the last one, or 0.
Tagged(tag) == {d \in DOMAIN file.dynamic : file.dynamic[d].tag = tag}
Dynamic(tag) ==
    IF Tagged(tag) = {} THEN 0
    ELSE file.dynamic[CHOOSE d \in Tagged(tag) : \A e \in Tagged(tag) : e =< d].value

\* Where the table with a tag is in memory; 0 is nullptr.
TableAt(tag) == IF Tagged(tag) = {} THEN 0 ELSE base_difference + Dynamic(tag)

\* get_relocations: rela entries are preferred.
GetRelocations ==
    /\ pc = "map_segments" /\ i \notin Headers
    /\ IF TableAt("rela") # 0
       THEN /\ relocations' = [kind |-> "rela", at |-> TableAt("rela")]
            /\ relocations_size' = Dynamic("rela_size")
       ELSE /\ relocations' = [kind |-> "rel", at |-> TableAt("rel")]
            /\ relocations_size' = Dynamic("rel_size")
    /\ pc' = "relocate" /\ i' = 0
    /\ UNCHANGED <<file, base, memory, protection>>

\* Mutant: rel entries are treated like rela entries.
RelocatedByAddend(kind, entry, old) == Word(base_difference + entry.r_addend)

\* The target of a relocation after it is applied.
Relocated(kind, entry, old) ==
    Word(IF kind = "rela" THEN base_difference + entry.r_addend ELSE old.word + base_difference)

\* An iteration of relocate, for each i below the size of the table: the size
\* is in bytes and is used as the number of entries.
Relocate ==
    LET entry == memory[relocations.at + i]
        target == base_difference + entry.r_offset
    IN  /\ pc = "relocate" /\ i < relocations_size
        /\ memory' = IF entry.relative
                     THEN [memory EXCEPT ![target] = Relocated(relocations.kind, entry, @)]
                     ELSE memory
        /\ i' = i + 1
        /\ UNCHANGED <<file, base, protection, relocations, relocations_size, pc>>

RelocateEnds ==
    /\ pc = "relocate" /\ i = relocations_size
    /\ pc' = "protect_segments" /\ i' = 1
    /\ UNCHANGED <<file, base, memory, protection, relocations, relocations_size>>

\* The protection after segment s was given its own.
Protected(s) ==
    [a \in DOMAIN protection |->
        IF a - (base_difference + s.vaddr) \in 0 .. s.memsz - 1 THEN s.flags ELSE protection[a]]

\* An iteration of protect_segments.
ProtectSegment ==
    /\ pc = "protect_segments" /\ i \in Headers
    /\ protection' = IF i \in LoadHeaders THEN Protected(file.phdrs[i]) ELSE protection
    /\ i' = i + 1
    /\ UNCHANGED <<file, base, memory, relocations, relocations_size, pc>>

Loaded ==
    /\ pc = "protect_segments" /\ i \notin Headers
    /\ pc' = "loaded"
    /\ UNCHANGED <<file, base, memory, protection, relocations, relocations_size, i>>

Finished == pc \in {"loaded", "failed"} /\ UNCHANGED vars

Next ==
    \/ Allocate \/ MapSegment \/ GetRelocations \/ Relocate \/ RelocateEnds
    \/ ProtectSegment \/ Loaded \/ Finished

\* load is sequential code.
Spec == Init /\ [][Next]_vars /\ WF_vars(Next)

-----------------------------------------------------------------------------
(***************************************************************************)
(* What an image is, from the file alone.                                  *)
(***************************************************************************)

\* The segment that address a of the file belongs to.
SegmentOf(a) ==
    file.phdrs[CHOOSE h \in LoadHeaders :
        a \in file.phdrs[h].vaddr .. file.phdrs[h].vaddr + file.phdrs[h].memsz - 1]

\* The cell the file has for address a.
CellOf(a) ==
    LET s == SegmentOf(a)
    IN  IF a < s.vaddr + s.filesz THEN file.data[s.offset + (a - s.vaddr)] ELSE Word(0)

\* The kind of the file's relocation table, and its entries: its size in
\* bytes, divided by the bytes of an entry.
TableKind == IF Tagged("rela") # {} THEN "rela" ELSE "rel"
TableEntries ==
    { CellOf(Dynamic(TableKind) + k) :
          k \in 0 .. (Dynamic(IF TableKind = "rela" THEN "rela_size" ELSE "rel_size")
                         \div EntryBytes) - 1 }

\* The addresses of the file that are loaded.
Addresses ==
    UNION { file.phdrs[h].vaddr .. file.phdrs[h].vaddr + file.phdrs[h].memsz - 1 :
                h \in LoadHeaders }

\* The cell of the loaded image for address a.
ImageCell(a) ==
    LET relocating == {e \in TableEntries : e.relative /\ e.r_offset = a}
    IN  IF relocating = {} THEN CellOf(a)
        ELSE LET e == CHOOSE x \in relocating : TRUE
             IN  IF TableKind = "rela" THEN Word(base_difference + e.r_addend)
                 ELSE Word(CellOf(a).word + base_difference)

-----------------------------------------------------------------------------
(***************************************************************************)
(* Properties.                                                             *)
(***************************************************************************)

\* A file that is loaded is in memory at its base: the data of its segments,
\* zeros where the file has none, each relocation of its table applied once,
\* and nothing else changed; and protect was called for every cell, last with the
\* protection of its segment.
ImageIsLoaded ==
    pc = "loaded" => \A a \in Addresses :
        /\ memory[base_difference + a] = ImageCell(a)
        /\ protection[base_difference + a] = SegmentOf(a).flags

\* load changes no memory outside of what it allocated.
StaysInAllocation ==
    \A a \in DOMAIN memory :
        a \notin base .. base + memory_size - 1 => memory[a] = Word(-1) /\ protection[a] = "none"

============================================================================
