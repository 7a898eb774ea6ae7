----------------------------- MODULE MCElfFile -----------------------------
(***************************************************************************)
(* Model checking ElfFile on small files: a segment that is only read with *)
(* the relocation table, and one that is written with the relocated words  *)
(* and memory that is not in the file.                                     *)
(***************************************************************************)
EXTENDS ElfFile, FiniteSets

Phdr(t, v, o, f, m, p) ==
    [type |-> t, vaddr |-> v, offset |-> o, filesz |-> f, memsz |-> m, flags |-> p]
Dyn(t, v) == [tag |-> t, value |-> v]

\* The read only segment is at address 4, the written one at 9; cells 0 to 3
\* of the file are the table and what follows it, cells 4 and 5 are words.
Phdrs ==
    <<Phdr("load", 4, 0, 4, 4, "r"), Phdr("dynamic", 9, 4, 0, 0, "rw"), Phdr("load", 9, 4, 2, 4, "rw")>>

\* A table of n entries of a kind, and the cells of the file.
File(kind, n, cells) ==
    [phdrs |-> Phdrs,
     dynamic |-> <<Dyn(kind, 4), Dyn(IF kind = "rela" THEN "rela_size" ELSE "rel_size", n * EntryBytes)>>,
     data |-> [x \in 0 .. 5 |-> cells[x + 1]]]

Entries == {Word(8), Word(3)} \cup {Relative(o, a) : o \in {9, 10}, a \in {5, 9}}

\* The entries of one table relocate different words.
Distinct(t) == \A x, y \in DOMAIN t : x # y /\ t[x].relative /\ t[y].relative => t[x].r_offset # t[y].r_offset

\* Tables of up to two entries behind which there is nothing that looks like
\* a relative relocation, and a file without a table.
CleanFiles ==
    { File(kind, Len(t), t \o [x \in 1 .. 4 - Len(t) |-> Word(8)] \o <<Word(5), Word(10)>>) :
          kind \in {"rela", "rel"},
          t \in {u \in UNION {[1 .. n -> Entries] : n \in 1 .. 2} : Distinct(u)} }
    \cup { [phdrs |-> Phdrs, dynamic |-> << >>, data |-> [x \in 0 .. 5 |-> Word(x)]] }

\* A table of one entry that is followed by a cell which looks like one.
FollowedFiles ==
    { File("rela", 1, <<Relative(9, 5), Relative(10, 9), Word(8), Word(8), Word(5), Word(10)>>) }

============================================================================
