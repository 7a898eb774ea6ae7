--------------------------- MODULE ElfFileProofs ---------------------------
(***************************************************************************)
(* Proofs about ElfFile, for every file that is sound, every size of pages *)
(* and entries and every place the allocator may return.                   *)
(*                                                                         *)
(* A file is sound if it is what a linker writes, and if nothing in the    *)
(* cells relocate reads behind the table looks like a relocation: relocate *)
(* takes the size of the table in bytes for the number of its entries.     *)
(*                                                                         *)
(* The inductive invariant ElfInv gives the whole of memory for every step *)
(* of load: what the file has for each address of the segments copied so   *)
(* far, and then the same with each of the first i relocations applied     *)
(* once.  A relocation finds the word it changes as the file has it, since *)
(* no earlier one changed it, and the table is not relocated itself.       *)
(***************************************************************************)
EXTENDS ElfFile, WellFoundedInduction, TLAPS

-----------------------------------------------------------------------------
(***************************************************************************)
(* Sound files.                                                            *)
(***************************************************************************)
Span(h) == file.phdrs[h].vaddr .. file.phdrs[h].vaddr + file.phdrs[h].memsz - 1

\* The load segments are in ascending order and do not overlap.
SegmentsAreSound ==
    /\ Len(file.phdrs) \in Nat /\ Headers = 1 .. Len(file.phdrs)
    /\ LoadHeaders # {}
    /\ \A h \in LoadHeaders :
           /\ file.phdrs[h].vaddr \in Nat /\ file.phdrs[h].filesz \in Nat
           /\ file.phdrs[h].memsz \in Nat /\ file.phdrs[h].filesz =< file.phdrs[h].memsz
    /\ \A g, h \in LoadHeaders :
           g < h => file.phdrs[g].vaddr + file.phdrs[g].memsz =< file.phdrs[h].vaddr

\* What is allocated lies in memory.
AllocationIsSound == \A b \in Bases : b + memory_size - 1 =< MemoryTop

Table == Dynamic(TableKind)
TableSize == Dynamic(IF TableKind = "rela" THEN "rela_size" ELSE "rel_size")
Count == TableSize \div EntryBytes
Entry(k) == CellOf(Table + k)

\* The table is in the image, with what relocate reads behind it; its entries
\* relocate different words of the image, which are not in the table.
TableIsSound ==
    /\ TableSize \in Nat
    /\ TableSize # 0 => Tagged(TableKind) # {}
    /\ Tagged(TableKind) # {} => Table \in Addresses
    /\ \A k \in 0 .. TableSize - 1 :
           Table + k \in Addresses /\ (k >= Count => ~Entry(k).relative)
    /\ \A k \in 0 .. Count - 1 : Entry(k).relative =>
           /\ Entry(k).r_offset \in Addresses
           /\ \A j \in 0 .. TableSize - 1 : Entry(k).r_offset # Table + j
           /\ \A j \in 0 .. k - 1 : Entry(j).relative => Entry(j).r_offset # Entry(k).r_offset

FileIsSound == SegmentsAreSound /\ AllocationIsSound /\ TableIsSound

-----------------------------------------------------------------------------
(***************************************************************************)
(* The invariant.                                                          *)
(***************************************************************************)

\* The addresses of the load segments before header n.
Below(n) == UNION {Span(h) : h \in {g \in LoadHeaders : g < n}}

\* The entries among the first n that relocate address x, and its cell after them.
Applied(x, n) ==
    {k \in 0 .. n - 1 : k < Count /\ Entry(k).relative /\ Entry(k).r_offset = x}
AnyOf(S) == CHOOSE k \in S : TRUE
PartCell(x, n) ==
    IF Applied(x, n) = {} THEN CellOf(x)
    ELSE Relocated(TableKind, Entry(AnyOf(Applied(x, n))), CellOf(x))

\* Memory with the segments before header n, and with the first n relocations.
Untouched == [a \in 0 .. MemoryTop |-> Word(-1)]
Copied(n) ==
    [a \in 0 .. MemoryTop |->
        IF a - base_difference \in Below(n) THEN CellOf(a - base_difference) ELSE Word(-1)]
Patched(n) ==
    [a \in 0 .. MemoryTop |->
        IF a - base_difference \in Addresses THEN PartCell(a - base_difference, n) ELSE Word(-1)]

\* The protection of the segments before header n.
Open == [a \in 0 .. MemoryTop |-> "none"]
ProtectedBelow(n) ==
    [a \in 0 .. MemoryTop |->
        IF a - base_difference \in Below(n) THEN SegmentOf(a - base_difference).flags ELSE "none"]

Before == /\ pc \in {"allocate", "failed"} /\ base = 0 /\ i = 1
          /\ memory = Untouched /\ protection = Open
Mapping == /\ pc = "map_segments" /\ base \in Bases /\ i \in 1 .. Len(file.phdrs) + 1
           /\ memory = Copied(i) /\ protection = Open
Relocating == /\ pc = "relocate" /\ base \in Bases /\ i \in 0 .. TableSize
              /\ relocations_size = TableSize
              /\ TableSize # 0 =>
                     relocations = [kind |-> TableKind, at |-> base_difference + Table]
              /\ memory = Patched(i) /\ protection = Open
Protecting == /\ pc = "protect_segments" /\ base \in Bases /\ i \in 1 .. Len(file.phdrs) + 1
              /\ memory = Patched(TableSize) /\ protection = ProtectedBelow(i)
Ready == /\ pc = "loaded" /\ base \in Bases
         /\ memory = Patched(TableSize)
         /\ \A a \in 0 .. MemoryTop : a - base_difference \in Addresses =>
                protection[a] = SegmentOf(a - base_difference).flags
         /\ \A a \in 0 .. MemoryTop : a - base_difference \notin Addresses =>
                protection[a] = "none"

ElfInv == FileIsSound /\ (Before \/ Mapping \/ Relocating \/ Protecting \/ Ready)

-----------------------------------------------------------------------------
(***************************************************************************)
(* The constructor.                                                        *)
(***************************************************************************)

LEMMA Division ==
    ASSUME NEW a \in Nat, NEW f \in Nat \ {0}
    PROVE  \E q \in Nat, r \in 0 .. f - 1 : q = a \div f /\ r = a % f /\ a = f * q + r
<1>1. a \in Int /\ f \in Int /\ f > 0
  OBVIOUS
<1>2. PICK q \in Int, r \in Int : q = a \div f /\ r = a % f
  BY <1>1
<1>3. q >= 0 /\ r \in 0 .. f - 1
  BY <1>1, <1>2
<1>4. a = f * q + r
  BY <1>1, <1>2
<1>5. q \in Nat
  BY <1>3
<1>6. QED
  BY <1>2, <1>3, <1>4, <1>5, Zenon

\* Rounding moves an address by less than a page.
LEMMA RoundsDown ==
    ASSUME NEW a \in Nat
    PROVE  RoundDown(a) \in Nat /\ RoundDown(a) =< a /\ a < RoundDown(a) + PageCells
<1>1. PICK p \in Nat \ {0} : p = PageCells
  BY PageAssumption
<1>2. PICK q \in Nat, r \in 0 .. p - 1 : q = a \div p /\ r = a % p /\ a = p * q + r
  BY Division, Zenon
<1>3. PICK m \in Nat : m = p * q /\ m = q * p
  OBVIOUS
<1>4. RoundDown(a) = m
  BY <1>1, <1>2, <1>3 DEF RoundDown
<1>5. a = m + r
  BY <1>2, <1>3
<1>6. QED
  BY <1>1, <1>4, <1>5

LEMMA RoundsUp ==
    ASSUME NEW a \in Nat
    PROVE  RoundUp(a) \in Nat /\ a =< RoundUp(a)
<1>1. a + PageCells - 1 \in Nat /\ PageCells \in Nat
  BY PageAssumption
<1>2. PICK m \in Nat : m = RoundUp(a) /\ a + PageCells - 1 < m + PageCells
  BY <1>1, RoundsDown DEF RoundUp
<1>3. QED
  BY <1>1, <1>2

\* The table has no more entries than bytes.
LEMMA CountBound ==
    ASSUME TableSize \in Nat
    PROVE  Count \in Nat /\ Count =< TableSize
<1>1. PICK f \in Nat \ {0} : f = EntryBytes
  BY PageAssumption
<1>2. PICK q \in Nat, r \in 0 .. f - 1 :
          q = TableSize \div f /\ r = TableSize % f /\ TableSize = f * q + r
  BY Division, Zenon
<1>3. f * q >= q
  <2>1. PICK g \in Nat : f = 1 + g
    <3>1. f - 1 \in Nat /\ f = 1 + (f - 1)
      OBVIOUS
    <3>2. QED
      BY <3>1
  <2>2. PICK m \in Nat : m = g * q
    OBVIOUS
  <2>3. f * q = q + m
    BY <2>1, <2>2
  <2>4. QED
    BY <2>3
<1>4. PICK m \in Nat : m = f * q
  OBVIOUS
<1>5. q =< TableSize
  BY <1>2, <1>3, <1>4
<1>6. QED
  BY <1>1, <1>2, <1>5 DEF Count

LEMMA LeastNumber ==
    ASSUME NEW T, T \subseteq Nat, T # {}
    PROVE  \E x \in T : \A y \in T : x =< y
<1> DEFINE R == OpToRel(<, Nat)
<1>1. IsWellFoundedOn(R, Nat)
  BY NatLessThanWellFounded
<1>2. \A x, y \in Nat : y < x => <<y, x>> \in R
  BY DEF OpToRel
<1> HIDE DEF R
<1>3. PICK x \in T : \A y \in T : ~(<<y, x>> \in R)
  BY <1>1, WFMin
<1>4. \A y \in T : x =< y
  <2>1. SUFFICES ASSUME NEW y \in T, ~(x =< y) PROVE FALSE
    OBVIOUS
  <2>2. x \in Nat /\ y \in Nat /\ y < x
    BY <2>1
  <2>3. QED
    BY <1>2, <1>3, <2>2
<1>5. QED
  BY <1>4

\* There is a first and a last load segment.
LEMMA EndsExist ==
    ASSUME SegmentsAreSound
    PROVE  /\ LoadHeaders \subseteq Nat
           /\ FirstLoad \in LoadHeaders /\ \A g \in LoadHeaders : FirstLoad =< g
           /\ LastLoad \in LoadHeaders /\ \A g \in LoadHeaders : g =< LastLoad
<1>1. PICK n \in Nat : Headers = 1 .. n
  BY DEF SegmentsAreSound
<1>2. LoadHeaders \subseteq Nat /\ LoadHeaders # {} /\ \A g \in LoadHeaders : g =< n
  BY <1>1 DEF SegmentsAreSound, LoadHeaders
<1>3. \E h \in LoadHeaders : \A g \in LoadHeaders : h =< g
  BY <1>2, LeastNumber
<1>4. \E h \in LoadHeaders : \A g \in LoadHeaders : g =< h
  <2> DEFINE T == {n - g : g \in LoadHeaders}
  <2>1. T \subseteq Nat /\ T # {}
    <3>1. \A g \in LoadHeaders : n - g \in Nat
      BY <1>2
    <3>2. PICK g : g \in LoadHeaders
      BY <1>2
    <3>3. n - g \in T
      BY <3>2
    <3>4. QED
      BY <3>1, <3>3
  <2>2. PICK x \in T : \A y \in T : x =< y
    BY <2>1, LeastNumber, Zenon
  <2>3. PICK h \in LoadHeaders : x = n - h
    BY <2>2
  <2>4. \A g \in LoadHeaders : n - h =< n - g
    BY <2>2, <2>3
  <2> HIDE DEF T
  <2>5. \A g \in LoadHeaders : g =< h
    BY <1>2, <2>4
  <2>6. QED
    BY <2>5
<1>5. QED
  BY <1>2, <1>3, <1>4 DEF FirstLoad, LastLoad

\* Every address of the file lies in what is allocated for it.
LEMMA AddressesBound ==
    ASSUME SegmentsAreSound
    PROVE  /\ preferred_base \in Nat /\ memory_size \in Int
           /\ \A x \in Addresses :
                 x \in Nat /\ preferred_base =< x /\ x =< preferred_base + memory_size - 1
<1>1. PICK first : first = FirstLoad
  OBVIOUS
<1>2. PICK last : last = LastLoad
  OBVIOUS
<1>3. /\ LoadHeaders \subseteq Nat
      /\ first \in LoadHeaders /\ \A g \in LoadHeaders : first =< g
      /\ last \in LoadHeaders /\ \A g \in LoadHeaders : g =< last
  BY <1>1, <1>2, EndsExist
<1>4. PICK v \in Nat, w \in Nat, z \in Nat :
          /\ v = file.phdrs[first].vaddr
          /\ w = file.phdrs[last].vaddr /\ z = file.phdrs[last].memsz
  BY <1>3 DEF SegmentsAreSound
<1>5. PICK lo \in Nat : lo = preferred_base /\ lo =< v
  BY <1>1, <1>4, RoundsDown DEF preferred_base
<1>6. PICK hi \in Nat : memory_size = hi - lo /\ w + z =< hi
  BY <1>2, <1>4, <1>5, RoundsUp DEF memory_size
<1>7. ASSUME NEW x \in Addresses PROVE x \in Nat /\ lo =< x /\ x =< hi - 1
  <2>1. PICK h \in LoadHeaders : x \in Span(h)
    BY DEF Addresses, Span
  <2>2. PICK a \in Nat, m \in Nat : a = file.phdrs[h].vaddr /\ m = file.phdrs[h].memsz
    BY DEF SegmentsAreSound
  <2>3. x \in Nat /\ a =< x /\ x =< a + m - 1
    BY <2>1, <2>2 DEF Span
  <2>4. v =< a
    <3>1. CASE h = first
      BY <1>4, <2>2, <3>1
    <3>2. CASE first < h
      <4>1. v + file.phdrs[first].memsz =< a /\ file.phdrs[first].memsz \in Nat
        BY <1>3, <1>4, <2>2, <3>2 DEF SegmentsAreSound
      <4>2. QED
        BY <4>1
    <3>3. QED
      BY <1>3, <3>1, <3>2
  <2>5. a + m =< w + z
    <3>1. CASE h = last
      BY <1>4, <2>2, <3>1
    <3>2. CASE h < last
      <4>1. a + m =< w
        BY <1>3, <1>4, <2>2, <3>2 DEF SegmentsAreSound
      <4>2. QED
        BY <4>1
    <3>3. QED
      BY <1>3, <3>1, <3>2
  <2>6. QED
    BY <1>5, <1>6, <2>3, <2>4, <2>5
<1>8. memory_size \in Int /\ lo + memory_size - 1 = hi - 1
  BY <1>6
<1>9. QED
  BY <1>5, <1>7, <1>8

\* Different load segments do not overlap.
LEMMA SegmentOfSpan ==
    ASSUME SegmentsAreSound, NEW h \in LoadHeaders, NEW x \in Span(h)
    PROVE  SegmentOf(x) = file.phdrs[h]
<1>1. ASSUME NEW g \in LoadHeaders, x \in Span(g) PROVE g = h
  <2>1. LoadHeaders \subseteq Nat
    BY EndsExist
  <2>2. PICK a \in Nat, m \in Nat : a = file.phdrs[h].vaddr /\ m = file.phdrs[h].memsz
    BY DEF SegmentsAreSound
  <2>3. PICK b \in Nat, n \in Nat : b = file.phdrs[g].vaddr /\ n = file.phdrs[g].memsz
    BY DEF SegmentsAreSound
  <2>4. x \in Int /\ a =< x /\ x =< a + m - 1 /\ b =< x /\ x =< b + n - 1
    BY <1>1, <2>2, <2>3 DEF Span
  <2>5. ~(g < h)
    <3>1. g < h => b + n =< a
      BY <2>2, <2>3 DEF SegmentsAreSound
    <3>2. QED
      BY <2>4, <3>1
  <2>6. ~(h < g)
    <3>1. h < g => a + m =< b
      BY <2>2, <2>3 DEF SegmentsAreSound
    <3>2. QED
      BY <2>4, <3>1
  <2>7. QED
    BY <2>1, <2>5, <2>6
<1>2. \A g \in LoadHeaders :
          x \in file.phdrs[g].vaddr .. file.phdrs[g].vaddr + file.phdrs[g].memsz - 1 => g = h
  BY <1>1 DEF Span
<1>3. x \in file.phdrs[h].vaddr .. file.phdrs[h].vaddr + file.phdrs[h].memsz - 1
  BY DEF Span
<1>4. QED
  BY <1>2, <1>3 DEF SegmentOf

-----------------------------------------------------------------------------
(***************************************************************************)
(* The steps.  The file stays, and so does all that is computed from it.   *)
(***************************************************************************)
LEMMA FileStays ==
    ASSUME file' = file
    PROVE  /\ Headers' = Headers /\ LoadHeaders' = LoadHeaders /\ Addresses' = Addresses
           /\ preferred_base' = preferred_base /\ memory_size' = memory_size
           /\ \A x : SegmentOf(x)' = SegmentOf(x) /\ CellOf(x)' = CellOf(x)
           /\ \A n : Below(n)' = Below(n)
           /\ TableKind' = TableKind /\ Table' = Table /\ TableSize' = TableSize
           /\ Count' = Count /\ \A k : Entry(k)' = Entry(k)
           /\ \A x, n : Applied(x, n)' = Applied(x, n)
           /\ FileIsSound' = FileIsSound
<1>1. Headers' = Headers /\ LoadHeaders' = LoadHeaders
  BY DEF Headers, LoadHeaders
<1>2. FirstLoad' = FirstLoad /\ LastLoad' = LastLoad /\ Addresses' = Addresses
  BY <1>1 DEF FirstLoad, LastLoad, Addresses
<1>3. preferred_base' = preferred_base /\ memory_size' = memory_size
  BY <1>2 DEF preferred_base, memory_size, RoundDown, RoundUp
<1>4. \A x : SegmentOf(x)' = SegmentOf(x)
  BY <1>1 DEF SegmentOf
<1>5. \A x : CellOf(x)' = CellOf(x)
  BY <1>4 DEF CellOf, Word
<1>6. \A n : Below(n)' = Below(n)
  BY <1>1 DEF Below, Span
<1>7. \A t : Tagged(t)' = Tagged(t)
  BY DEF Tagged
<1>8. \A t : Dynamic(t)' = Dynamic(t)
  <2>1. SUFFICES ASSUME NEW t PROVE Dynamic(t)' = Dynamic(t)
    OBVIOUS
  <2>2. QED
    BY DEF Dynamic, Tagged
<1>9. TableKind' = TableKind /\ Table' = Table /\ TableSize' = TableSize /\ Count' = Count
  <2>1. TableKind' = TableKind
    BY <1>7 DEF TableKind
  <2>2. QED
    BY <1>8, <2>1 DEF Table, TableSize, Count
<1>10. \A k : Entry(k)' = Entry(k)
  BY <1>5, <1>9 DEF Entry
<1>11. \A x, n : Applied(x, n)' = Applied(x, n)
  BY <1>9, <1>10 DEF Applied
<1>12. FileIsSound' = FileIsSound
  <2>1. SegmentsAreSound' = SegmentsAreSound
    BY <1>1 DEF SegmentsAreSound
  <2>2. AllocationIsSound' = AllocationIsSound
    BY <1>3 DEF AllocationIsSound
  <2>3. Tagged(TableKind)' = Tagged(TableKind)
    BY <1>9 DEF Tagged
  <2>4. TableIsSound' = TableIsSound
    BY <1>2, <1>9, <1>10, <2>3 DEF TableIsSound
  <2>5. QED
    BY <2>1, <2>2, <2>4 DEF FileIsSound
<1>13. QED
  BY <1>1, <1>2, <1>3, <1>4, <1>5, <1>6, <1>9, <1>10, <1>11, <1>12

\* So does what memory should hold, once its base is known.
LEMMA ImageStays ==
    ASSUME file' = file, base' = base
    PROVE  /\ base_difference' = base_difference
           /\ \A x, n : PartCell(x, n)' = PartCell(x, n)
           /\ \A n : /\ Copied(n)' = Copied(n) /\ Patched(n)' = Patched(n)
                     /\ ProtectedBelow(n)' = ProtectedBelow(n)
<1>1. base_difference' = base_difference
  BY FileStays DEF base_difference
<1>2. \A x, n : PartCell(x, n)' = PartCell(x, n)
  <2>1. SUFFICES ASSUME NEW x, NEW n PROVE PartCell(x, n)' = PartCell(x, n)
    OBVIOUS
  <2>2. \A e, c : Relocated(TableKind, e, c)' = Relocated(TableKind, e, c)
    BY <1>1, FileStays DEF Relocated, Word
  <2>3. QED
    BY <2>2, FileStays DEF PartCell, Relocated, Word
<1>3. \A n : Copied(n)' = Copied(n)
  BY <1>1, FileStays DEF Copied, Word
<1>4. \A n : Patched(n)' = Patched(n)
  BY <1>1, <1>2, FileStays DEF Patched, Word
<1>5. \A n : ProtectedBelow(n)' = ProtectedBelow(n)
  BY <1>1, FileStays DEF ProtectedBelow
<1>6. QED
  BY <1>1, <1>2, <1>3, <1>4, <1>5

\* Where the file's addresses are in memory.
LEMMA InMemory ==
    ASSUME FileIsSound, base \in Bases
    PROVE  /\ base_difference \in Int
           /\ \A x \in Addresses :
                 /\ x \in Nat /\ base_difference + x \in 0 .. MemoryTop
                 /\ (base_difference + x) - base_difference = x
                 /\ base_difference + x # 0
           /\ \A a \in 0 .. MemoryTop :
                 a - base_difference \in Addresses => a \in base .. base + memory_size - 1
<1>1. PICK lo \in Nat, size \in Int : lo = preferred_base /\ size = memory_size
  BY AddressesBound DEF FileIsSound
<1>2. \A x \in Addresses : x \in Nat /\ lo =< x /\ x =< lo + size - 1
  BY <1>1, AddressesBound DEF FileIsSound
<1>3. PICK b \in Nat : b = base /\ b >= 1 /\ b + size - 1 =< MemoryTop
  BY <1>1, BasesAssumption DEF FileIsSound, AllocationIsSound
<1>4. base_difference = b - lo
  BY <1>1, <1>3 DEF base_difference
<1>5. MemoryTop \in Nat
  BY BasesAssumption
<1>6. \A x \in Addresses :
          /\ x \in Nat /\ base_difference + x \in 0 .. MemoryTop
          /\ (base_difference + x) - base_difference = x
          /\ base_difference + x # 0
  BY <1>2, <1>3, <1>4, <1>5
<1>7. \A a \in 0 .. MemoryTop :
          a - base_difference \in Addresses => a \in base .. base + memory_size - 1
  <2>1. SUFFICES ASSUME NEW a \in 0 .. MemoryTop, a - (b - lo) \in Addresses
                 PROVE  a \in b .. b + size - 1
    BY <1>1, <1>3, <1>4
  <2>2. lo =< a - (b - lo) /\ a - (b - lo) =< lo + size - 1
    BY <1>2, <2>1
  <2>3. QED
    BY <1>5, <2>2
<1>8. QED
  BY <1>4, <1>6, <1>7

LEMMA InitElfInv == ASSUME FileIsSound, Init PROVE ElfInv
  BY DEF Init, ElfInv, Before, Untouched, Open

LEMMA AllocateStep == ASSUME ElfInv, Allocate PROVE ElfInv'
<1>1. /\ pc = "allocate" /\ file' = file /\ i' = i /\ memory' = memory /\ protection' = protection
      /\ \/ base' \in Bases /\ pc' = "map_segments"
         \/ base' = 0 /\ pc' = "failed"
  BY DEF Allocate
<1>2. i = 1 /\ memory = Untouched /\ protection = Open
  BY <1>1 DEF ElfInv, Before, Mapping, Relocating, Protecting, Ready
<1>3. FileIsSound'
  BY <1>1, FileStays DEF ElfInv
<1>4. Untouched' = Untouched /\ Open' = Open
  BY DEF Untouched, Open, Word
<1>5. CASE base' = 0 /\ pc' = "failed"
  BY <1>1, <1>2, <1>3, <1>4, <1>5 DEF ElfInv, Before
<1>6. CASE base' \in Bases /\ pc' = "map_segments"
  <2>1. \A h \in LoadHeaders : ~(h < 1)
    BY EndsExist DEF ElfInv, FileIsSound, SegmentsAreSound, LoadHeaders
  <2>2. Below(1) = {}
    BY <2>1 DEF Below
  <2>3. Below(1)' = {}
    BY <1>1, <2>2, FileStays
  <2>4. Copied(1)' = Untouched
    BY <2>3 DEF Copied, Untouched, Word
  <2>5. QED
    BY <1>1, <1>2, <1>3, <1>4, <1>6, <2>4 DEF ElfInv, Mapping
<1>7. QED
  BY <1>1, <1>5, <1>6

\* The addresses before the next header.
LEMMA BelowNext ==
    ASSUME SegmentsAreSound, NEW h \in Headers
    PROVE  /\ \A x : x \in Below(h + 1) <=>
                        x \in Below(h) \/ (h \in LoadHeaders /\ x \in Span(h))
           /\ \A x \in Below(h) : x \in Addresses
<1>1. LoadHeaders \subseteq Nat /\ h \in Nat
  BY EndsExist DEF SegmentsAreSound
<1>2. \A g \in LoadHeaders : g < h + 1 <=> (g < h \/ g = h)
  BY <1>1
<1>3. \A x, n : x \in Below(n) <=> \E g \in LoadHeaders : g < n /\ x \in Span(g)
  BY DEF Below
<1>4. \A x : x \in Addresses <=> \E g \in LoadHeaders : x \in Span(g)
  BY DEF Addresses, Span
<1>5. QED
  BY <1>2, <1>3, <1>4

\* Behind the last header everything is loaded.
LEMMA BelowAll ==
    ASSUME SegmentsAreSound, NEW n \in 1 .. Len(file.phdrs) + 1, n \notin Headers
    PROVE  Below(n) = Addresses
<1>1. PICK m \in Nat : m = Len(file.phdrs) /\ Headers = 1 .. m
  BY DEF SegmentsAreSound
<1>2. LoadHeaders \subseteq Headers
  BY DEF LoadHeaders
<1>3. n = m + 1
  BY <1>1
<1>4. \A g \in LoadHeaders : g < n
  BY <1>1, <1>2, <1>3
<1>5. QED
  BY <1>4 DEF Below, Addresses, Span

LEMMA MapSegmentStep == ASSUME ElfInv, MapSegment PROVE ElfInv'
<1> SUFFICES ASSUME NEW h, h = i PROVE ElfInv'
  OBVIOUS
<1>1. /\ pc = "map_segments" /\ h \in Headers /\ i' = h + 1 /\ pc' = pc
      /\ file' = file /\ base' = base /\ protection' = protection
      /\ memory' = IF h \in LoadHeaders THEN SegmentInMemory(memory, file.phdrs[h]) ELSE memory
  BY DEF MapSegment
<1>2. FileIsSound /\ base \in Bases /\ memory = Copied(h) /\ protection = Open
      /\ h \in 1 .. Len(file.phdrs) /\ Len(file.phdrs) \in Nat
  BY <1>1 DEF ElfInv, Before, Mapping, Relocating, Protecting, Ready, FileIsSound, SegmentsAreSound
<1>3. SegmentsAreSound
  BY <1>2 DEF FileIsSound
<1>4. PICK d \in Int : d = base_difference
  BY <1>2, InMemory
<1>5. \A x : x \in Below(h + 1) <=> x \in Below(h) \/ (h \in LoadHeaders /\ x \in Span(h))
  BY <1>1, <1>3, BelowNext
<1>6. memory' = Copied(h + 1)
  <2>1. CASE h \notin LoadHeaders
    <3>1. \A x : x \in Below(h + 1) <=> x \in Below(h)
      BY <1>5, <2>1
    <3>2. QED
      BY <1>1, <1>2, <2>1, <3>1 DEF Copied
  <2>2. CASE h \in LoadHeaders
    <3> DEFINE s == file.phdrs[h]
               Cell(a) == LET o == a - (base_difference + s.vaddr)
                          IN  CASE o \in 0 .. s.filesz - 1 -> file.data[s.offset + o]
                                [] o \in s.filesz .. s.memsz - 1 -> Word(0)
                                [] OTHER -> memory[a]
               New(a) == IF a - base_difference \in Below(h + 1) THEN CellOf(a - base_difference)
                         ELSE Word(-1)
    <3>1. memory' = [a \in 0 .. MemoryTop |-> Cell(a)]
      BY <1>1, <1>2, <2>2 DEF SegmentInMemory, Copied
    <3>2. ASSUME NEW a \in 0 .. MemoryTop PROVE Cell(a) = New(a)
      <4>1. PICK v \in Nat, f \in Nat, m \in Nat :
                v = s.vaddr /\ f = s.filesz /\ m = s.memsz /\ f =< m
        BY <1>3, <2>2 DEF SegmentsAreSound
      <4>2. PICK o \in Int : o = a - (d + v)
        OBVIOUS
      <4>3. PICK x \in Int : x = a - d
        OBVIOUS
      <4>4. x = v + o /\ x - v = o
        BY <4>2, <4>3
      <4>5. x \in Span(h) <=> o \in 0 .. m - 1
        BY <4>1, <4>4 DEF Span
      <4>6. memory[a] = IF x \in Below(h) THEN CellOf(x) ELSE Word(-1)
        BY <1>2, <1>4, <4>3 DEF Copied
      <4>7. Cell(a) = CASE o \in 0 .. f - 1 -> file.data[s.offset + o]
                        [] o \in f .. m - 1 -> Word(0)
                        [] OTHER -> memory[a]
        BY <1>4, <4>1, <4>2
      <4>8. New(a) = IF x \in Below(h + 1) THEN CellOf(x) ELSE Word(-1)
        BY <1>4, <4>3
      <4> HIDE DEF Cell, New
      <4>9. CASE o \in 0 .. m - 1
        <5>1. x \in Span(h) /\ New(a) = CellOf(x)
          BY <1>5, <2>2, <4>5, <4>8, <4>9
        <5>2. SegmentOf(x) = s
          BY <1>3, <2>2, <5>1, SegmentOfSpan
        <5>3. CellOf(x) = IF x < v + f THEN file.data[s.offset + o] ELSE Word(0)
          BY <4>1, <4>4, <5>2 DEF CellOf
        <5>4. CASE o < f
          <6>1. o \in 0 .. f - 1 /\ x < v + f
            BY <4>4, <4>9, <5>4
          <6>2. Cell(a) = file.data[s.offset + o]
            <7>1. ~(o \in f .. m - 1)
              BY <5>4
            <7>2. QED
              BY <4>7, <6>1, <7>1
          <6>3. QED
            BY <5>1, <5>3, <6>1, <6>2
        <5>5. CASE ~(o < f)
          <6>1. o \in f .. m - 1 /\ ~(o \in 0 .. f - 1) /\ ~(x < v + f)
            BY <4>4, <4>9, <5>5
          <6>2. Cell(a) = Word(0)
            BY <4>7, <6>1
          <6>3. QED
            BY <5>1, <5>3, <6>1, <6>2
        <5>6. QED
          BY <5>4, <5>5
      <4>10. CASE o \notin 0 .. m - 1
        <5>1. x \in Below(h + 1) <=> x \in Below(h)
          BY <1>5, <4>5, <4>10
        <5>2. ~(o \in 0 .. f - 1) /\ ~(o \in f .. m - 1)
          BY <4>1, <4>10
        <5>3. Cell(a) = memory[a]
          BY <4>7, <5>2
        <5>4. QED
          BY <4>6, <4>8, <5>1, <5>3
      <4>11. QED
        BY <4>9, <4>10
    <3>3. Copied(h + 1) = [a \in 0 .. MemoryTop |-> New(a)]
      BY DEF Copied
    <3> HIDE DEF Cell, New
    <3>4. QED
      BY <3>1, <3>2, <3>3
  <2>3. QED
    BY <2>1, <2>2
<1>7. Copied(h + 1)' = Copied(h + 1) /\ FileIsSound' /\ Open' = Open
  BY <1>1, <1>2, FileStays, ImageStays DEF Open
<1>8. Mapping'
  <2>1. h + 1 \in 1 .. Len(file.phdrs) + 1
    BY <1>2
  <2>2. QED
    BY <1>1, <1>2, <1>6, <1>7, <2>1 DEF Mapping
<1>9. QED
  BY <1>7, <1>8 DEF ElfInv

LEMMA GetRelocationsStep == ASSUME ElfInv, GetRelocations PROVE ElfInv'
<1>1. /\ pc = "map_segments" /\ i \notin Headers /\ i' = 0 /\ pc' = "relocate"
      /\ file' = file /\ base' = base /\ protection' = protection /\ memory' = memory
  BY DEF GetRelocations
<1>2. FileIsSound /\ base \in Bases /\ memory = Copied(i) /\ protection = Open
      /\ i \in 1 .. Len(file.phdrs) + 1
  BY <1>1 DEF ElfInv, Before, Mapping, Relocating, Protecting, Ready
<1>3. SegmentsAreSound /\ TableIsSound
  BY <1>2 DEF FileIsSound
<1>4. Copied(i) = Patched(0)
  <2>1. Below(i) = Addresses
    BY <1>1, <1>2, <1>3, BelowAll
  <2>2. \A x : PartCell(x, 0) = CellOf(x)
    BY DEF PartCell, Applied
  <2>3. QED
    BY <2>1, <2>2 DEF Copied, Patched
<1>5. /\ relocations_size' = TableSize
      /\ TableSize # 0 => relocations' = [kind |-> TableKind, at |-> base_difference + Table]
  <2>1. CASE Tagged("rela") # {}
    <3>1. TableKind = "rela" /\ Table = Dynamic("rela") /\ TableSize = Dynamic("rela_size")
      BY <2>1 DEF TableKind, Table, TableSize
    <3>2. TableAt("rela") = base_difference + Table
      BY <2>1, <3>1 DEF TableAt
    <3>3. base_difference + Table # 0
      BY <1>2, <1>3, <2>1, <3>1, InMemory DEF TableIsSound
    <3>4. QED
      BY <3>1, <3>2, <3>3 DEF GetRelocations
  <2>2. CASE Tagged("rela") = {}
    <3>1. TableKind = "rel" /\ Table = Dynamic("rel") /\ TableSize = Dynamic("rel_size")
      BY <2>2 DEF TableKind, Table, TableSize
    <3>2. TableAt("rela") = 0
      BY <2>2 DEF TableAt
    <3>3. relocations' = [kind |-> "rel", at |-> TableAt("rel")] /\ relocations_size' = TableSize
      BY <3>1, <3>2 DEF GetRelocations
    <3>4. TableSize # 0 => TableAt("rel") = base_difference + Table
      BY <1>3, <3>1 DEF TableIsSound, TableAt
    <3>5. QED
      BY <3>1, <3>3, <3>4
  <2>3. QED
    BY <2>1, <2>2
<1>6. /\ Patched(0)' = Patched(0) /\ FileIsSound' /\ Open' = Open
      /\ TableSize' = TableSize /\ TableKind' = TableKind /\ Table' = Table
      /\ base_difference' = base_difference
  BY <1>1, <1>2, FileStays, ImageStays DEF Open
<1>7. Relocating'
  <2>1. 0 \in 0 .. TableSize
    BY <1>3 DEF TableIsSound
  <2>2. QED
    BY <1>1, <1>2, <1>4, <1>5, <1>6, <2>1 DEF Relocating
<1>8. QED
  BY <1>6, <1>7 DEF ElfInv

\* What the next relocation changes: its own target only, and that had not been
\* relocated before.
LEMMA NextApplied ==
    ASSUME FileIsSound, NEW k \in 0 .. TableSize - 1
    PROVE  /\ Table + k \in Addresses /\ PartCell(Table + k, k) = Entry(k)
           /\ Entry(k).relative =>
                 /\ Entry(k).r_offset \in Addresses
                 /\ PartCell(Entry(k).r_offset, k) = CellOf(Entry(k).r_offset)
                 /\ PartCell(Entry(k).r_offset, k + 1) =
                        Relocated(TableKind, Entry(k), CellOf(Entry(k).r_offset))
           /\ \A x : ~(Entry(k).relative /\ Entry(k).r_offset = x) =>
                 PartCell(x, k + 1) = PartCell(x, k)
<1>1. TableIsSound
  BY DEF FileIsSound
<1>2. PICK size \in Nat, n \in Nat : size = TableSize /\ n = Count /\ n =< size
  BY <1>1, CountBound DEF TableIsSound
<1>3. k \in 0 .. size - 1 /\ Table + k \in Addresses
  BY <1>1, <1>2 DEF TableIsSound
<1>4. \A j \in 0 .. n - 1 : Entry(j).relative =>
          /\ Entry(j).r_offset \in Addresses
          /\ \A l \in 0 .. size - 1 : Entry(j).r_offset # Table + l
          /\ \A l \in 0 .. j - 1 : Entry(l).relative => Entry(l).r_offset # Entry(j).r_offset
  BY <1>1, <1>2 DEF TableIsSound
<1>5. \A x, m : Applied(x, m) =
          {j \in 0 .. m - 1 : j < n /\ Entry(j).relative /\ Entry(j).r_offset = x}
  BY <1>2 DEF Applied
<1>6. Entry(k).relative => k \in 0 .. n - 1
  <2>1. k >= Count => ~Entry(k).relative
    BY <1>1 DEF TableIsSound
  <2>2. QED
    BY <1>2, <1>3, <2>1
<1>7. \A x : Applied(x, k + 1) = Applied(x, k)
                 \cup (IF Entry(k).relative /\ Entry(k).r_offset = x THEN {k} ELSE {})
  <2>1. SUFFICES ASSUME NEW x
                 PROVE  Applied(x, k + 1) = Applied(x, k)
                            \cup (IF Entry(k).relative /\ Entry(k).r_offset = x THEN {k} ELSE {})
    OBVIOUS
  <2>2. \A j : j \in 0 .. (k + 1) - 1 <=> j \in 0 .. k - 1 \/ j = k
    BY <1>3
  <2>3. ASSUME NEW j PROVE j \in Applied(x, k + 1) <=>
            j \in Applied(x, k) \/ (j = k /\ Entry(k).relative /\ Entry(k).r_offset = x)
    <3>1. Entry(k).relative => k < n
      BY <1>2, <1>3, <1>6
    <3>2. QED
      BY <1>5, <2>2, <3>1
  <2>4. QED
    BY <2>3
<1>8. PartCell(Table + k, k) = Entry(k)
  <2>1. Applied(Table + k, k) = {}
    <3>1. SUFFICES ASSUME NEW j \in Applied(Table + k, k) PROVE FALSE
      OBVIOUS
    <3>2. j \in 0 .. k - 1 /\ j < n /\ Entry(j).relative /\ Entry(j).r_offset = Table + k
      BY <1>5, <3>1
    <3>3. j \in 0 .. n - 1
      BY <1>3, <3>2
    <3>4. QED
      BY <1>3, <1>4, <3>2, <3>3
  <2>2. QED
    BY <2>1 DEF PartCell, Entry
<1>9. ASSUME Entry(k).relative
      PROVE  /\ Entry(k).r_offset \in Addresses
             /\ PartCell(Entry(k).r_offset, k) = CellOf(Entry(k).r_offset)
             /\ PartCell(Entry(k).r_offset, k + 1) =
                    Relocated(TableKind, Entry(k), CellOf(Entry(k).r_offset))
  <2>1. PICK x : x = Entry(k).r_offset
    OBVIOUS
  <2>2. k \in 0 .. n - 1 /\ x \in Addresses
    BY <1>4, <1>6, <1>9, <2>1
  <2>3. Applied(x, k) = {}
    <3>1. SUFFICES ASSUME NEW j \in Applied(x, k) PROVE FALSE
      OBVIOUS
    <3>2. j \in 0 .. k - 1 /\ Entry(j).relative /\ Entry(j).r_offset = x
      BY <1>5, <3>1
    <3>3. QED
      BY <1>4, <1>9, <2>1, <2>2, <3>2
  <2>4. Applied(x, k + 1) = {k}
    BY <1>7, <1>9, <2>1, <2>3
  <2>5. AnyOf({k}) = k
    BY DEF AnyOf
  <2>6. PartCell(x, k) = CellOf(x) /\ PartCell(x, k + 1) = Relocated(TableKind, Entry(k), CellOf(x))
    BY <2>3, <2>4, <2>5 DEF PartCell
  <2>7. QED
    BY <2>1, <2>2, <2>6
<1>10. ASSUME NEW x, ~(Entry(k).relative /\ Entry(k).r_offset = x)
       PROVE  PartCell(x, k + 1) = PartCell(x, k)
  <2>1. Applied(x, k + 1) = Applied(x, k)
    BY <1>7, <1>10
  <2>2. QED
    BY <2>1 DEF PartCell
<1>11. QED
  BY <1>3, <1>8, <1>9, <1>10

LEMMA RelocateStep == ASSUME ElfInv, Relocate PROVE ElfInv'
<1> SUFFICES ASSUME NEW k, k = i, NEW e, e = Entry(k) PROVE ElfInv'
  OBVIOUS
<1>1. /\ pc = "relocate" /\ k < relocations_size /\ i' = k + 1 /\ pc' = pc
      /\ file' = file /\ base' = base /\ protection' = protection
      /\ relocations' = relocations /\ relocations_size' = relocations_size
  BY DEF Relocate
<1>2. FileIsSound /\ base \in Bases /\ memory = Patched(k) /\ protection = Open
      /\ k \in 0 .. TableSize /\ relocations_size = TableSize
      /\ (TableSize # 0 => relocations = [kind |-> TableKind, at |-> base_difference + Table])
  BY <1>1 DEF ElfInv, Before, Mapping, Relocating, Protecting, Ready
<1>3. TableSize \in Nat
  BY <1>2 DEF FileIsSound, TableIsSound
<1>4. k \in 0 .. TableSize - 1 /\ TableSize # 0 /\ k + 1 \in 0 .. TableSize
  BY <1>1, <1>2, <1>3
<1>5. PICK d \in Int : d = base_difference
  BY <1>2, InMemory
<1>6. relocations.kind = TableKind /\ relocations.at = d + Table
  BY <1>2, <1>4, <1>5
<1>7. /\ \A a \in 0 .. MemoryTop :
             memory[a] = IF a - d \in Addresses THEN PartCell(a - d, k) ELSE Word(-1)
      /\ DOMAIN memory = 0 .. MemoryTop
      /\ memory = [a \in 0 .. MemoryTop |-> memory[a]]
  BY <1>2, <1>5 DEF Patched
<1>8. \A x \in Addresses : x \in Nat /\ d + x \in 0 .. MemoryTop /\ (d + x) - d = x
  BY <1>2, <1>5, InMemory
<1>9. /\ Table + k \in Addresses /\ PartCell(Table + k, k) = e
      /\ e.relative => /\ e.r_offset \in Addresses
                       /\ PartCell(e.r_offset, k) = CellOf(e.r_offset)
                       /\ PartCell(e.r_offset, k + 1) =
                              Relocated(TableKind, e, CellOf(e.r_offset))
      /\ \A x : ~(e.relative /\ e.r_offset = x) => PartCell(x, k + 1) = PartCell(x, k)
  BY <1>2, <1>4, NextApplied
<1>10. memory[relocations.at + k] = e
  <2>1. memory[d + (Table + k)] = e
    BY <1>7, <1>8, <1>9
  <2>2. (d + Table) + k = d + (Table + k)
    <3>1. k \in Int /\ Table + 0 \in Nat
      <4>1. 0 \in 0 .. TableSize - 1
        BY <1>3, <1>4
      <4>2. Table + 0 \in Addresses
        BY <1>2, <4>1, NextApplied
      <4>3. QED
        BY <1>4, <1>8, <4>2
    <3>2. Table \in Addresses
      BY <1>2, <1>4 DEF FileIsSound, TableIsSound
    <3>3. Table \in Nat
      BY <1>8, <3>2
    <3>4. QED
      BY <3>1, <3>3
  <2>3. QED
    BY <1>6, <2>1, <2>2
<1>11. memory' = IF e.relative
                 THEN [memory EXCEPT ![d + e.r_offset] =
                           Relocated(TableKind, e, memory[d + e.r_offset])]
                 ELSE memory
  BY <1>5, <1>6, <1>10 DEF Relocate
<1>12. memory' = Patched(k + 1)
  <2> DEFINE New(a) == IF a - d \in Addresses THEN PartCell(a - d, k + 1) ELSE Word(-1)
  <2>1. Patched(k + 1) = [a \in 0 .. MemoryTop |-> New(a)]
    BY <1>5 DEF Patched
  <2>2. CASE ~e.relative
    <3>1. \A a \in 0 .. MemoryTop : memory[a] = New(a)
      BY <1>7, <1>9, <2>2
    <3> HIDE DEF New
    <3>2. QED
      BY <1>7, <1>11, <2>1, <2>2, <3>1
  <2>3. CASE e.relative
    <3>1. PICK t \in 0 .. MemoryTop : t = d + e.r_offset /\ t - d = e.r_offset
      BY <1>8, <1>9, <2>3
    <3>2. memory[t] = CellOf(e.r_offset)
      BY <1>7, <1>9, <2>3, <3>1
    <3>3. memory' = [memory EXCEPT ![t] = New(t)]
      BY <1>9, <1>11, <2>3, <3>1, <3>2
    <3>4. ASSUME NEW a \in 0 .. MemoryTop, a # t PROVE memory[a] = New(a)
      <4>1. a - d # e.r_offset
        <5>1. a - d # t - d
          BY <3>4
        <5>2. QED
          BY <3>1, <5>1
      <4>2. PartCell(a - d, k + 1) = PartCell(a - d, k)
        BY <1>9, <4>1
      <4>3. QED
        BY <1>7, <4>2
    <3> HIDE DEF New
    <3>5. memory' = [a \in 0 .. MemoryTop |-> IF a = t THEN New(t) ELSE memory[a]]
      BY <1>7, <3>3
    <3>6. QED
      BY <2>1, <3>4, <3>5
  <2>4. QED
    BY <2>2, <2>3
<1>13. /\ Patched(k + 1)' = Patched(k + 1) /\ FileIsSound' /\ Open' = Open
       /\ TableSize' = TableSize /\ TableKind' = TableKind /\ Table' = Table
       /\ base_difference' = base_difference
  BY <1>1, <1>2, FileStays, ImageStays DEF Open
<1>14. Relocating'
  BY <1>1, <1>2, <1>4, <1>12, <1>13 DEF Relocating
<1>15. QED
  BY <1>13, <1>14 DEF ElfInv

LEMMA RelocateEndsStep == ASSUME ElfInv, RelocateEnds PROVE ElfInv'
<1>1. /\ pc = "relocate" /\ i = relocations_size /\ i' = 1 /\ pc' = "protect_segments"
      /\ file' = file /\ base' = base /\ protection' = protection /\ memory' = memory
  BY DEF RelocateEnds
<1>2. FileIsSound /\ base \in Bases /\ memory = Patched(TableSize) /\ protection = Open
  BY <1>1 DEF ElfInv, Before, Mapping, Relocating, Protecting, Ready
<1>3. ProtectedBelow(1) = Open
  <2>1. \A h \in LoadHeaders : ~(h < 1)
    BY <1>2, EndsExist DEF FileIsSound, SegmentsAreSound, LoadHeaders
  <2>2. Below(1) = {}
    BY <2>1 DEF Below
  <2>3. QED
    BY <2>2 DEF ProtectedBelow, Open
<1>4. /\ Patched(TableSize)' = Patched(TableSize) /\ FileIsSound'
      /\ ProtectedBelow(1)' = ProtectedBelow(1)
  <2>1. TableSize' = TableSize /\ FileIsSound' /\ \A n : ProtectedBelow(n)' = ProtectedBelow(n)
    BY <1>1, <1>2, FileStays, ImageStays
  <2>2. \A n : Patched(n)' = Patched(n)
    BY <1>1, ImageStays
  <2>3. QED
    BY <1>1, <2>1, <2>2, FileStays, ImageStays DEF Patched
<1>5. 1 \in 1 .. Len(file.phdrs) + 1
  BY <1>2 DEF FileIsSound, SegmentsAreSound
<1>6. QED
  BY <1>1, <1>2, <1>3, <1>4, <1>5 DEF ElfInv, Protecting

LEMMA ProtectSegmentStep == ASSUME ElfInv, ProtectSegment PROVE ElfInv'
<1> SUFFICES ASSUME NEW h, h = i PROVE ElfInv'
  OBVIOUS
<1>1. /\ pc = "protect_segments" /\ h \in Headers /\ i' = h + 1 /\ pc' = pc
      /\ file' = file /\ base' = base /\ memory' = memory
      /\ protection' = IF h \in LoadHeaders THEN Protected(file.phdrs[h]) ELSE protection
  BY DEF ProtectSegment
<1>2. FileIsSound /\ base \in Bases /\ memory = Patched(TableSize)
      /\ protection = ProtectedBelow(h)
      /\ h \in 1 .. Len(file.phdrs) /\ Len(file.phdrs) \in Nat
  BY <1>1 DEF ElfInv, Before, Mapping, Relocating, Protecting, Ready, FileIsSound, SegmentsAreSound
<1>3. SegmentsAreSound
  BY <1>2 DEF FileIsSound
<1>4. PICK d \in Int : d = base_difference
  BY <1>2, InMemory
<1>5. \A x : x \in Below(h + 1) <=> x \in Below(h) \/ (h \in LoadHeaders /\ x \in Span(h))
  BY <1>1, <1>3, BelowNext
<1>6. protection' = ProtectedBelow(h + 1)
  <2>1. CASE h \notin LoadHeaders
    <3>1. \A x : x \in Below(h + 1) <=> x \in Below(h)
      BY <1>5, <2>1
    <3>2. QED
      BY <1>1, <1>2, <2>1, <3>1 DEF ProtectedBelow
  <2>2. CASE h \in LoadHeaders
    <3> DEFINE s == file.phdrs[h]
               Old(a) == IF a - (base_difference + s.vaddr) \in 0 .. s.memsz - 1
                         THEN s.flags ELSE protection[a]
               New(a) == IF a - base_difference \in Below(h + 1)
                         THEN SegmentOf(a - base_difference).flags ELSE "none"
    <3>1. protection' = [a \in 0 .. MemoryTop |-> Old(a)]
      BY <1>1, <1>2, <2>2 DEF Protected, ProtectedBelow
    <3>2. ASSUME NEW a \in 0 .. MemoryTop PROVE Old(a) = New(a)
      <4>1. PICK v \in Nat, m \in Nat : v = s.vaddr /\ m = s.memsz
        BY <1>3, <2>2 DEF SegmentsAreSound
      <4>2. PICK o \in Int : o = a - (d + v)
        OBVIOUS
      <4>3. PICK x \in Int : x = a - d
        OBVIOUS
      <4>4. x = v + o
        BY <4>2, <4>3
      <4>5. x \in Span(h) <=> o \in 0 .. m - 1
        BY <4>1, <4>4 DEF Span
      <4>6. protection[a] = IF x \in Below(h) THEN SegmentOf(x).flags ELSE "none"
        BY <1>2, <1>4, <4>3 DEF ProtectedBelow
      <4>7. Old(a) = IF o \in 0 .. m - 1 THEN s.flags ELSE protection[a]
        BY <1>4, <4>1, <4>2
      <4>8. New(a) = IF x \in Below(h + 1) THEN SegmentOf(x).flags ELSE "none"
        BY <1>4, <4>3
      <4> HIDE DEF Old, New
      <4>9. CASE o \in 0 .. m - 1
        <5>1. x \in Span(h) /\ x \in Below(h + 1)
          BY <1>5, <2>2, <4>5, <4>9
        <5>2. SegmentOf(x) = s
          BY <1>3, <2>2, <5>1, SegmentOfSpan
        <5>3. QED
          BY <4>7, <4>8, <4>9, <5>1, <5>2
      <4>10. CASE o \notin 0 .. m - 1
        <5>1. x \in Below(h + 1) <=> x \in Below(h)
          BY <1>5, <4>5, <4>10
        <5>2. QED
          BY <4>6, <4>7, <4>8, <4>10, <5>1
      <4>11. QED
        BY <4>9, <4>10
    <3>3. ProtectedBelow(h + 1) = [a \in 0 .. MemoryTop |-> New(a)]
      BY DEF ProtectedBelow
    <3> HIDE DEF Old, New
    <3>4. QED
      BY <3>1, <3>2, <3>3
  <2>3. QED
    BY <2>1, <2>2
<1>7. /\ Patched(TableSize)' = Patched(TableSize) /\ FileIsSound'
      /\ ProtectedBelow(h + 1)' = ProtectedBelow(h + 1)
  <2>1. FileIsSound' /\ ProtectedBelow(h + 1)' = ProtectedBelow(h + 1)
    BY <1>1, <1>2, FileStays, ImageStays
  <2>2. QED
    BY <1>1, <2>1, FileStays, ImageStays DEF Patched
<1>8. Protecting'
  <2>1. h + 1 \in 1 .. Len(file.phdrs) + 1
    BY <1>2
  <2>2. QED
    BY <1>1, <1>2, <1>6, <1>7, <2>1 DEF Protecting
<1>9. QED
  BY <1>7, <1>8 DEF ElfInv

LEMMA LoadedStep == ASSUME ElfInv, Loaded PROVE ElfInv'
<1>1. /\ pc = "protect_segments" /\ i \notin Headers /\ pc' = "loaded"
      /\ file' = file /\ base' = base /\ memory' = memory /\ protection' = protection
  BY DEF Loaded
<1>2. FileIsSound /\ base \in Bases /\ memory = Patched(TableSize)
      /\ protection = ProtectedBelow(i) /\ i \in 1 .. Len(file.phdrs) + 1
  BY <1>1 DEF ElfInv, Before, Mapping, Relocating, Protecting, Ready
<1>3. Below(i) = Addresses
  BY <1>1, <1>2, BelowAll DEF FileIsSound
<1>4. /\ FileIsSound' /\ Addresses' = Addresses /\ base_difference' = base_difference
      /\ \A x : SegmentOf(x)' = SegmentOf(x)
  BY <1>1, <1>2, FileStays, ImageStays
<1>5. Patched(TableSize)' = Patched(TableSize)
  BY <1>1, FileStays, ImageStays DEF Patched
<1>6. Ready'
  BY <1>1, <1>2, <1>3, <1>4, <1>5 DEF Ready, ProtectedBelow
<1>7. QED
  BY <1>4, <1>6 DEF ElfInv

LEMMA NextElfInv == ASSUME ElfInv, [Next]_vars PROVE ElfInv'
<1>1. CASE UNCHANGED vars
  <2>1. UNCHANGED <<file, base, memory, protection, relocations, relocations_size, pc, i>>
    BY <1>1 DEF vars
  <2>2. /\ FileIsSound' = FileIsSound /\ Addresses' = Addresses
        /\ base_difference' = base_difference
        /\ TableSize' = TableSize /\ TableKind' = TableKind /\ Table' = Table
        /\ \A x : SegmentOf(x)' = SegmentOf(x)
        /\ \A n : /\ Copied(n)' = Copied(n) /\ Patched(n)' = Patched(n)
                  /\ ProtectedBelow(n)' = ProtectedBelow(n)
    BY <2>1, FileStays, ImageStays
  <2>3. Patched(TableSize)' = Patched(TableSize) /\ Patched(i)' = Patched(i)
        /\ Copied(i)' = Copied(i) /\ ProtectedBelow(i)' = ProtectedBelow(i)
    <3>1. \A x, n : PartCell(x, n)' = PartCell(x, n)
      BY <2>1, ImageStays
    <3>2. \A n : Below(n)' = Below(n) /\ \A x : CellOf(x)' = CellOf(x)
      BY <2>1, FileStays
    <3>3. Patched(TableSize)' = Patched(TableSize) /\ Patched(i)' = Patched(i)
      BY <2>1, <2>2, <3>1 DEF Patched, Word
    <3>4. Copied(i)' = Copied(i)
      BY <2>1, <2>2, <3>2 DEF Copied, Below, Span, Word
    <3>5. ProtectedBelow(i)' = ProtectedBelow(i)
      <4>1. Below(i)' = Below(i)
        BY <2>1, <3>2 DEF Below, Span, LoadHeaders, Headers
      <4>2. QED
        BY <2>2, <4>1 DEF ProtectedBelow
    <3>6. QED
      BY <3>3, <3>4, <3>5
  <2>4. Untouched' = Untouched /\ Open' = Open
    BY DEF Untouched, Open, Word
  <2>5. CASE Before
    BY <2>1, <2>2, <2>4, <2>5 DEF ElfInv, Before
  <2>6. CASE Mapping
    BY <2>1, <2>2, <2>3, <2>4, <2>6 DEF ElfInv, Mapping
  <2>7. CASE Relocating
    BY <2>1, <2>2, <2>3, <2>4, <2>7 DEF ElfInv, Relocating
  <2>8. CASE Protecting
    BY <2>1, <2>2, <2>3, <2>8 DEF ElfInv, Protecting
  <2>9. CASE Ready
    BY <2>1, <2>2, <2>3, <2>9 DEF ElfInv, Ready
  <2>10. QED
    BY <2>5, <2>6, <2>7, <2>8, <2>9 DEF ElfInv
<1>2. CASE Finished
  BY <1>1, <1>2 DEF Finished
<1>3. QED
  BY <1>1, <1>2, AllocateStep, MapSegmentStep, GetRelocationsStep, RelocateStep,
     RelocateEndsStep, ProtectSegmentStep, LoadedStep DEF Next

-----------------------------------------------------------------------------
(***************************************************************************)
(* What follows from the invariant.                                        *)
(***************************************************************************)

\* With all relocations applied, a cell is that of the image.
LEMMA AllApplied ==
    ASSUME FileIsSound, NEW x
    PROVE  PartCell(x, TableSize) = ImageCell(x)
<1>1. TableIsSound
  BY DEF FileIsSound
<1>2. PICK size \in Nat, n \in Nat : size = TableSize /\ n = Count /\ n =< size
  BY <1>1, CountBound DEF TableIsSound
<1>3. \A j, k \in 0 .. n - 1 :
          Entry(j).relative /\ Entry(k).relative /\ Entry(j).r_offset = Entry(k).r_offset => j = k
  <2>1. SUFFICES ASSUME NEW j \in 0 .. n - 1, NEW k \in 0 .. n - 1,
                        Entry(j).relative, Entry(k).relative, Entry(j).r_offset = Entry(k).r_offset
                 PROVE  j = k
    OBVIOUS
  <2>2. ~(j \in 0 .. k - 1)
    BY <1>1, <1>2, <2>1 DEF TableIsSound
  <2>3. ~(k \in 0 .. j - 1)
    BY <1>1, <1>2, <2>1 DEF TableIsSound
  <2>4. QED
    BY <2>2, <2>3
<1>4. TableEntries = {Entry(k) : k \in 0 .. n - 1}
  BY <1>2 DEF TableEntries, Entry, Table, TableSize, Count
<1>5. PICK A : A = Applied(x, TableSize)
  OBVIOUS
<1>6. \A k : k \in A <=> k \in 0 .. n - 1 /\ Entry(k).relative /\ Entry(k).r_offset = x
  <2>1. \A k : k \in 0 .. size - 1 /\ k < n <=> k \in 0 .. n - 1
    BY <1>2
  <2>2. QED
    BY <1>2, <1>5, <2>1 DEF Applied
<1>7. PICK R : R = {e \in TableEntries : e.relative /\ e.r_offset = x}
  OBVIOUS
<1>8. \A e : e \in R <=> \E k \in A : e = Entry(k)
  BY <1>4, <1>6, <1>7
<1>9. ImageCell(x) = IF R = {} THEN CellOf(x)
                     ELSE Relocated(TableKind, CHOOSE e \in R : TRUE, CellOf(x))
  <2>1. \A e : Relocated(TableKind, e, CellOf(x)) =
                   IF TableKind = "rela" THEN Word(base_difference + e.r_addend)
                   ELSE Word(CellOf(x).word + base_difference)
    BY DEF Relocated
  <2>2. QED
    BY <1>7, <2>1 DEF ImageCell
<1>10. CASE A = {}
  <2>1. R = {}
    BY <1>8, <1>10
  <2>2. QED
    BY <1>5, <1>9, <1>10, <2>1 DEF PartCell
<1>11. CASE A # {}
  <2>1. AnyOf(A) \in A
    BY <1>11 DEF AnyOf
  <2>2. R # {} /\ (CHOOSE e \in R : TRUE) \in R
    BY <1>8, <2>1
  <2>3. PICK k \in A : (CHOOSE e \in R : TRUE) = Entry(k)
    BY <1>8, <2>2
  <2>4. k = AnyOf(A)
    BY <1>3, <1>6, <2>1
  <2>5. PartCell(x, TableSize) = Relocated(TableKind, Entry(AnyOf(A)), CellOf(x))
    BY <1>5, <1>11 DEF PartCell
  <2>6. QED
    BY <1>9, <2>2, <2>3, <2>4, <2>5
<1>12. QED
  BY <1>10, <1>11

LEMMA InvImage == ASSUME ElfInv PROVE ImageIsLoaded
<1>1. SUFFICES ASSUME pc = "loaded", NEW x \in Addresses
               PROVE  /\ memory[base_difference + x] = ImageCell(x)
                      /\ protection[base_difference + x] = SegmentOf(x).flags
  BY DEF ImageIsLoaded
<1>2. FileIsSound /\ Ready
  BY <1>1 DEF ElfInv, Before, Mapping, Relocating, Protecting
<1>3. PICK a \in 0 .. MemoryTop : a = base_difference + x /\ a - base_difference = x
  BY <1>2, InMemory DEF Ready
<1>4. memory[a] = PartCell(x, TableSize)
  BY <1>2, <1>3 DEF Ready, Patched
<1>5. protection[a] = SegmentOf(x).flags
  BY <1>2, <1>3 DEF Ready
<1>6. QED
  BY <1>2, <1>3, <1>4, <1>5, AllApplied

LEMMA InvAllocation == ASSUME ElfInv PROVE StaysInAllocation
<1>1. SUFFICES ASSUME NEW a \in DOMAIN memory, a \notin base .. base + memory_size - 1
               PROVE  memory[a] = Word(-1) /\ protection[a] = "none"
  BY DEF StaysInAllocation
<1>2. a \in 0 .. MemoryTop
  BY DEF ElfInv, Before, Mapping, Relocating, Protecting, Ready, Untouched, Copied, Patched
<1>3. CASE Before
  BY <1>2, <1>3 DEF Before, Untouched, Open
<1>4. CASE base \in Bases
  <2>1. a - base_difference \notin Addresses
    BY <1>1, <1>2, <1>4, InMemory DEF ElfInv
  <2>2. \A n : a - base_difference \notin Below(n)
    BY <2>1 DEF Below, Addresses, Span
  <2>3. \A n : /\ Copied(n)[a] = Word(-1) /\ Patched(n)[a] = Word(-1)
               /\ ProtectedBelow(n)[a] = "none" /\ Open[a] = "none"
    BY <1>2, <2>1, <2>2 DEF Copied, Patched, ProtectedBelow, Open
  <2>4. CASE Mapping
    BY <2>3, <2>4 DEF Mapping
  <2>5. CASE Relocating
    BY <2>3, <2>5 DEF Relocating
  <2>6. CASE Protecting
    BY <2>3, <2>6 DEF Protecting
  <2>7. CASE Ready
    BY <1>2, <2>1, <2>3, <2>7 DEF Ready
  <2>8. QED
    BY <1>3, <2>4, <2>5, <2>6, <2>7 DEF ElfInv
<1>5. QED
  BY <1>3, <1>4 DEF ElfInv, Mapping, Relocating, Protecting, Ready

\* Through every step of load memory holds what the file has for each address of
\* the segments copied so far, with the relocations applied so far.
THEOREM ElfInvariance == FileIsSound /\ Init /\ [][Next]_vars => []ElfInv
<1>1. FileIsSound /\ Init => ElfInv
  BY InitElfInv
<1>2. ElfInv /\ [Next]_vars => ElfInv'
  BY NextElfInv
<1>3. QED
  BY <1>1, <1>2, PTL

\* A sound file that load has loaded is in memory at its base, relocated once, and
\* each segment was given its protection last.
THEOREM SoundFileIsLoaded == FileIsSound /\ Spec => []ImageIsLoaded
<1>1. ElfInv => ImageIsLoaded
  BY InvImage
<1>2. QED
  BY <1>1, ElfInvariance, PTL DEF Spec

\* load changes nothing outside of what it allocated for a sound file.
THEOREM SoundFileStaysInAllocation == FileIsSound /\ Spec => []StaysInAllocation
<1>1. ElfInv => StaysInAllocation
  BY InvAllocation
<1>2. QED
  BY <1>1, ElfInvariance, PTL DEF Spec

=============================================================================
