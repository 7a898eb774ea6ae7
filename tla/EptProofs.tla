----------------------------- MODULE EptProofs -----------------------------
(***************************************************************************)
(* Proofs about Ept, for every size of the module and of physical memory,  *)
(* wherever the operating system put the pages of the module, and for      *)
(* every setting of the MTRRs.                                             *)
(*                                                                         *)
(* The hypervisor is isolated when the last page has been walked; the      *)
(* inductive invariant EptInv says what holds before.  A large page is     *)
(* split exactly if a page of the module that has been walked lies in it   *)
(* (SplitInv); each split large page has a table of its own among those in *)
(* use, found through the physical address of the table (DirInv); the      *)
(* table maps the large page to itself, and exactly the pages that are     *)
(* hidden so far cannot be accessed through it (TableInv); and as many     *)
(* tables are in use as large pages are split (CountInv).                  *)
(*                                                                         *)
(* The memory types need what initialize_mtrrs computes: the size that     *)
(* doubles for each zero at the low end of a mask is the size of the       *)
(* range, so a range touches a large page exactly if its register covers a *)
(* page of it by the processor's rule (TouchesIffCovers), and no split     *)
(* changes the type of a page (TypesInv).                                  *)
(***************************************************************************)
EXTENDS Ept, FiniteSetTheorems, WellFoundedInduction, TLAPS

\* The large pages that are split, and their tables.
SplitPages == {l \in Large : epd[l].large = 0}
TableOf(l) == TableAt(epd[l].page)

\* The pages of the module that have been walked, and those that are hidden.
Walked == IF pc = "protect" THEN 0 .. i - 1
          ELSE IF pc = "ept_error" THEN 0 .. i ELSE Module
Hidden == IF pc \in {"protect", "ept_error"} THEN 0 .. i - 1
          ELSE IF pc = "unprotect" THEN Module \ (FirstUnprotected .. i - 1)
          ELSE Module \ Unprotected

PhysicalInv ==
    /\ physical \in [Module -> Pages]
    /\ \A v, w \in Module : physical[v] = physical[w] => v = w

MtrrInv ==
    /\ registers \in MtrrSettings
    /\ mtrrs = [r \in 1 .. MtrrCount |-> mtrrs[r]]
    /\ \A r \in 1 .. MtrrCount :
           /\ DOMAIN mtrrs[r] = {"valid", "base", "size", "type"}
           /\ mtrrs[r].valid \in {0, 1} /\ mtrrs[r].base \in Numbers
           /\ mtrrs[r].type \in MemoryTypes

ControlInv ==
    /\ pc \in {"p2v", "mtrrs", "ept", "protect", "unprotect"} \cup Outcomes
    /\ pc \in {"p2v", "mtrrs", "ept", "capacity_error"} => ept_index = 0 /\ i \in Nat
    /\ pc \in {"p2v", "capacity_error"} => i = 1
    /\ pc = "mtrrs" => i \in 1 .. Len(registers) + 1
    /\ pc = "protect" => i \in 0 .. ModulePages
    /\ pc = "ept_error" => i \in Module
    /\ pc = "unprotect" => i \in FirstUnprotected .. FirstUnprotected + UnprotectedPages
    /\ pc = "done" => i \in 0 .. ModulePages
    /\ epd \in [Large -> Entries]
    /\ ept \in [Tables -> [Offsets -> Entries]]

MapInv ==
    IF pc \in {"p2v", "capacity_error"} THEN module_physical_to_virtual = {}
    ELSE module_physical_to_virtual = {[key |-> physical[v], value |-> v] : v \in Module}

\* The directory entry of large page l.
IsLargeEntry(l) ==
    /\ epd[l].access = 1 /\ epd[l].large = 1 /\ epd[l].page = [large |-> l, offset |-> 0]
IsTableEntry(l) ==
    /\ epd[l].access = 1 /\ epd[l].large = 0 /\ epd[l].type = Uncacheable
    /\ TableOf(l) \in 0 .. ept_index - 1
    /\ epd[l].page = physical[EptPage(TableOf(l))]

DirInv ==
    Built => /\ \A l \in Large : IsLargeEntry(l) \/ IsTableEntry(l)
             /\ \A l, m \in SplitPages : TableOf(l) = TableOf(m) => l = m

SplitInv == Built => SplitPages = {physical[v].large : v \in Walked}

\* The entry for offset o in the table of large page l.
IsPageEntry(l, o) ==
    /\ ept[TableOf(l)][o].page = [large |-> l, offset |-> o]
    /\ ept[TableOf(l)][o].access = 0 <=>
           \E v \in Hidden : physical[v] = [large |-> l, offset |-> o]

TableInv == Built => \A l \in SplitPages : \A o \in Offsets : IsPageEntry(l, o)

CountInv ==
    /\ ept_index \in 0 .. EptCount
    /\ Built => ept_index = Cardinality(SplitPages)
    /\ pc = "ept_error" <=> ept_index = EptCount

EptInv ==
    /\ PhysicalInv /\ MtrrInv /\ ControlInv /\ MapInv
    /\ DirInv /\ SplitInv /\ TableInv /\ CountInv

-----------------------------------------------------------------------------
(***************************************************************************)
(* Powers of two, and the size initialize_mtrrs computes from a mask.      *)
(*                                                                         *)
(* The equation of a recursive function holds if there is a function that  *)
(* satisfies it; such a function is extended from one argument to the      *)
(* next.  The other facts follow from the equation, for if one were false  *)
(* it would be true below the least argument for which it is.              *)
(***************************************************************************)

\* A set of natural numbers has a least element.
LEMMA LeastNumber ==
    ASSUME NEW T, T \subseteq Nat, T # {}
    PROVE  \E x \in T : \A y \in T : x =< y
<1> DEFINE R == OpToRel(<, Nat)
<1>1. IsWellFoundedOn(R, Nat)
  BY NatLessThanWellFounded
<1>2. \A x, y \in Nat : y < x => <<y, x>> \in R
  BY DEF OpToRel
<1> HIDE DEF R
<1>3. PICK x \in T : \A y \in T : ~(<<y, x>> \in R)
  BY <1>1, WFMin
<1>4. \A y \in T : x =< y
  <2>1. SUFFICES ASSUME NEW y \in T, ~(x =< y) PROVE FALSE
    OBVIOUS
  <2>2. x \in Nat /\ y \in Nat /\ y < x
    BY <2>1
  <2>3. QED
    BY <1>2, <1>3, <2>2
<1>5. QED
  BY <1>4

\* A set of natural numbers that has the successor of each initial part has all.
LEMMA Induction ==
    ASSUME NEW T, \A m \in Nat : (\A n \in 0 .. m - 1 : n \in T) => m \in T
    PROVE  Nat \subseteq T
<1>1. SUFFICES ASSUME Nat \ T # {} PROVE FALSE
  OBVIOUS
<1>2. PICK m \in Nat \ T : \A y \in Nat \ T : m =< y
  BY <1>1, LeastNumber
<1>3. \A n \in 0 .. m - 1 : n \in T
  BY <1>2
<1>4. QED
  BY <1>2, <1>3

LEMMA PowerEquation ==
    Power = [k \in 0 .. PageBits |-> IF k = 0 THEN 1 ELSE 2 * Power[k - 1]]
<1> DEFINE IsPower(f, m) == f = [k \in 0 .. m |-> IF k = 0 THEN 1 ELSE 2 * f[k - 1]]
           T == {m \in Nat : \E f : IsPower(f, m)}
<1>1. ASSUME NEW m \in Nat, \A n \in 0 .. m - 1 : n \in T PROVE m \in T
  <2>1. CASE m = 0
    <3> DEFINE g == [k \in 0 .. 0 |-> 1]
    <3>1. g = [k \in 0 .. 0 |-> IF k = 0 THEN 1 ELSE 2 * g[k - 1]]
      OBVIOUS
    <3>2. QED
      BY <2>1, <3>1
  <2>2. CASE m # 0
    <3>1. m - 1 \in T
      BY <1>1, <2>2
    <3>2. PICK f : f = [k \in 0 .. m - 1 |-> IF k = 0 THEN 1 ELSE 2 * f[k - 1]]
      BY <3>1
    <3> DEFINE g == [k \in 0 .. m |-> IF k = m THEN 2 * f[m - 1] ELSE f[k]]
    <3>3. ASSUME NEW k \in 0 .. m PROVE g[k] = IF k = 0 THEN 1 ELSE 2 * g[k - 1]
      <4>1. k # 0 => k - 1 \in 0 .. m /\ k - 1 # m /\ k - 1 \in 0 .. m - 1
        BY <3>3
      <4>2. k # 0 => g[k - 1] = f[k - 1]
        BY <4>1
      <4>3. CASE k = m
        BY <2>2, <3>3, <4>2, <4>3
      <4>4. CASE k # m
        <5>1. k \in 0 .. m - 1 /\ g[k] = f[k]
          BY <3>3, <4>4
        <5>2. f[k] = IF k = 0 THEN 1 ELSE 2 * f[k - 1]
          BY <3>2, <5>1
        <5>3. QED
          BY <4>2, <5>1, <5>2
      <4>5. QED
        BY <4>3, <4>4
    <3>4. g = [k \in 0 .. m |-> IF k = 0 THEN 1 ELSE 2 * g[k - 1]]
      <4>1. g = [k \in 0 .. m |-> g[k]]
        OBVIOUS
      <4> HIDE DEF g
      <4>2. QED
        BY <3>3, <4>1
    <3> HIDE DEF g
    <3>5. QED
      BY <3>4
  <2>3. QED
    BY <2>1, <2>2
<1> HIDE DEF T
<1>2. PageBits \in T
  BY <1>1, Induction, MtrrAssumption
<1>3. \E f : IsPower(f, PageBits)
  BY <1>2 DEF T
<1>4. QED
  BY <1>3 DEF Power

LEMMA Powers ==
    /\ Power[0] = 1
    /\ \A k \in 0 .. PageBits : Power[k] \in Nat \ {0}
    /\ \A k \in 1 .. PageBits : Power[k] = 2 * Power[k - 1]
<1>1. PageBits \in Nat
  BY MtrrAssumption
<1>2. Power[0] = 1 /\ \A k \in 1 .. PageBits : Power[k] = 2 * Power[k - 1]
  BY <1>1, PowerEquation
<1> DEFINE T == {k \in Nat : k =< PageBits => Power[k] \in Nat \ {0}}
<1>3. ASSUME NEW m \in Nat, \A n \in 0 .. m - 1 : n \in T PROVE m \in T
  <2>1. CASE m = 0
    BY <1>2, <2>1
  <2>2. CASE m # 0 /\ m =< PageBits
    <3>1. m - 1 \in T /\ m \in 1 .. PageBits
      BY <1>1, <1>3, <2>2
    <3>2. Power[m - 1] \in Nat \ {0} /\ Power[m] = 2 * Power[m - 1]
      BY <1>1, <1>2, <2>2, <3>1
    <3>3. QED
      BY <3>2
  <2>3. QED
    BY <1>1, <2>1, <2>2
<1> HIDE DEF T
<1>4. Nat \subseteq T
  BY <1>3, Induction
<1>5. QED
  BY <1>1, <1>2, <1>4 DEF T

\* A power is an even multiple of each smaller one.
LEMMA EvenMultiple ==
    ASSUME NEW k \in Nat, k < PageBits
    PROVE  \E q \in Nat \ {0} : Power[PageBits] = Power[k] * (2 * q)
<1>1. PageBits \in Nat
  BY MtrrAssumption
<1>2. PICK p \in Nat \ {0} : p = Power[k]
  BY <1>1, Powers
<1> DEFINE T == {j \in Nat : k < j /\ j =< PageBits => \E q \in Nat \ {0} : Power[j] = p * (2 * q)}
<1>3. ASSUME NEW m \in Nat, \A n \in 0 .. m - 1 : n \in T PROVE m \in T
  <2>1. CASE m = k + 1 /\ m =< PageBits
    <3>1. Power[m] = 2 * Power[k]
      BY <1>1, <2>1, Powers
    <3>2. Power[m] = p * (2 * 1)
      BY <1>2, <3>1
    <3>3. QED
      BY <3>2
  <2>2. CASE m > k + 1 /\ m =< PageBits
    <3>1. m - 1 \in T /\ k < m - 1 /\ m - 1 =< PageBits
      BY <1>1, <1>3, <2>2
    <3>2. PICK q \in Nat \ {0} : Power[m - 1] = p * (2 * q)
      BY <3>1
    <3>3. Power[m] = 2 * (p * (2 * q))
      BY <1>1, <2>2, <3>2, Powers
    <3>4. Power[m] = p * (2 * (2 * q)) /\ 2 * q \in Nat \ {0}
      BY <3>3
    <3>5. QED
      BY <3>4
  <2>3. QED
    BY <1>1, <2>1, <2>2
<1> HIDE DEF T
<1>4. PageBits \in T
  BY <1>1, <1>3, Induction
<1>5. QED
  BY <1>1, <1>2, <1>4 DEF T

IsSize(f) == f = [n \in Numbers \ {0} |-> IF n % 2 = 1 THEN 1 ELSE 2 * f[n \div 2]]

LEMMA SizeEquation == \E f : IsSize(f) /\ \A m : Size(m) = f[m]
<1> DEFINE Upto(f, m) == f = [n \in 1 .. m |-> IF n % 2 = 1 THEN 1 ELSE 2 * f[n \div 2]]
           T == {m \in Nat : \E f : Upto(f, m)}
<1>1. ASSUME NEW m \in Nat, \A n \in 0 .. m - 1 : n \in T PROVE m \in T
  <2>1. CASE m = 0
    <3> DEFINE g == [n \in 1 .. 0 |-> 1]
    <3>1. g = [n \in 1 .. 0 |-> IF n % 2 = 1 THEN 1 ELSE 2 * g[n \div 2]]
      OBVIOUS
    <3>2. QED
      BY <2>1, <3>1
  <2>2. CASE m # 0
    <3>1. m - 1 \in T
      <4>1. m - 1 \in 0 .. m - 1
        BY <2>2
      <4>2. QED
        BY <1>1, <4>1, Zenon
    <3>2. PICK f : Upto(f, m - 1)
      BY <3>1
    <3> DEFINE g == [n \in 1 .. m |-> IF n < m THEN f[n]
                                      ELSE IF n % 2 = 1 THEN 1 ELSE 2 * f[n \div 2]]
    <3>3. ASSUME NEW n \in 1 .. m PROVE g[n] = IF n % 2 = 1 THEN 1 ELSE 2 * g[n \div 2]
      <4>1. n % 2 # 1 => n \div 2 \in 1 .. m /\ n \div 2 < n /\ n \div 2 < m
        BY <3>3
      <4>2. n % 2 # 1 => g[n \div 2] = f[n \div 2]
        BY <4>1
      <4>3. CASE n < m
        <5>1. f[n] = IF n % 2 = 1 THEN 1 ELSE 2 * f[n \div 2]
          BY <3>2, <3>3, <4>3
        <5>2. QED
          BY <3>3, <4>2, <4>3, <5>1
      <4>4. CASE n = m
        BY <4>2, <4>4
      <4>5. QED
        BY <3>3, <4>3, <4>4
    <3>4. g = [n \in 1 .. m |-> IF n % 2 = 1 THEN 1 ELSE 2 * g[n \div 2]]
      <4>1. g = [n \in 1 .. m |-> g[n]]
        OBVIOUS
      <4> HIDE DEF g
      <4>2. QED
        BY <3>3, <4>1
    <3> HIDE DEF g
    <3>5. QED
      BY <3>4
  <2>3. QED
    BY <2>1, <2>2
<1> HIDE DEF T
<1>2. Power[PageBits] - 1 \in Nat
  BY Powers, MtrrAssumption
<1>3. Numbers \ {0} = 1 .. Power[PageBits] - 1
  BY <1>2 DEF Numbers
<1>4. Power[PageBits] - 1 \in T
  BY <1>1, <1>2, Induction
<1>5. \E f : IsSize(f)
  BY <1>3, <1>4 DEF T, IsSize
<1> DEFINE size == CHOOSE f : f = [n \in Numbers \ {0} |->
                                      IF n % 2 = 1 THEN 1 ELSE 2 * f[n \div 2]]
<1>6. IsSize(size)
  BY <1>5 DEF IsSize
<1>7. \A m : Size(m) = size[m]
  BY DEF Size
<1> HIDE DEF size
<1>8. QED
  BY <1>6, <1>7

\* How the size of a mask follows from that of half of it.
LEMMA SizeStep ==
    ASSUME NEW n \in Numbers \ {0}
    PROVE  /\ n % 2 = 1 => Size(n) = 1
           /\ n % 2 # 1 => Size(n) = 2 * Size(n \div 2)
  BY SizeEquation DEF IsSize

\* The size of a range is not larger than the mask.
LEMMA SizeBound ==
    ASSUME NEW m \in Numbers \ {0}
    PROVE  Size(m) \in 1 .. m
<1>1. Power[PageBits] \in Nat /\ Numbers = 0 .. Power[PageBits] - 1
  BY Powers, MtrrAssumption DEF Numbers
<1> DEFINE T == {n \in Nat : n \in Numbers \ {0} => Size(n) \in 1 .. n}
<1>2. ASSUME NEW n \in Nat, \A j \in 0 .. n - 1 : j \in T PROVE n \in T
  <2>1. CASE n \in Numbers \ {0} /\ n % 2 = 1
    BY <2>1, SizeStep
  <2>2. CASE n \in Numbers \ {0} /\ n % 2 # 1
    <3>1. PICK h \in Nat : h = n \div 2 /\ 2 * h = n
      BY <2>2
    <3>2. h \in 0 .. n - 1 /\ h \in Numbers \ {0}
      BY <1>1, <2>2, <3>1
    <3>3. Size(h) \in 1 .. h /\ Size(n) = 2 * Size(h)
      BY <1>2, <2>2, <3>1, <3>2, SizeStep
    <3>4. QED
      BY <2>2, <3>1, <3>3
  <2>3. QED
    BY <2>1, <2>2
<1> HIDE DEF T
<1>3. m \in T
  BY <1>1, <1>2, Induction
<1>4. QED
  BY <1>3 DEF T

\* The size of an odd multiple of a power is the power.
LEMMA SizeOfMultiple ==
    ASSUME NEW k \in Nat, k =< PageBits, NEW q \in Nat, q % 2 = 1,
           Power[k] * q \in Numbers \ {0}
    PROVE  Size(Power[k] * q) = Power[k]
<1>1. PageBits \in Nat /\ Power[PageBits] \in Nat /\ Numbers = 0 .. Power[PageBits] - 1
  BY Powers, MtrrAssumption DEF Numbers
<1> DEFINE T == {j \in Nat : j =< PageBits /\ Power[j] * q \in Numbers \ {0}
                                 => Size(Power[j] * q) = Power[j]}
<1>2. ASSUME NEW j \in Nat, \A n \in 0 .. j - 1 : n \in T PROVE j \in T
  <2>1. CASE j = 0
    <3>1. Power[0] * q = q
      BY Powers
    <3>2. QED
      BY <2>1, <3>1, Powers, SizeStep
  <2>2. CASE j # 0 /\ j =< PageBits /\ Power[j] * q \in Numbers \ {0}
    <3>1. PICK p \in Nat \ {0} : p = Power[j - 1] /\ Power[j] = 2 * p
      <4>1. j - 1 \in 0 .. PageBits /\ j \in 1 .. PageBits
        BY <1>1, <2>2
      <4>2. QED
        BY <4>1, Powers
    <3>2. PICK n \in Nat : n = p * q
      BY <3>1
    <3>3. Power[j] * q = 2 * n
      BY <3>1, <3>2
    <3>4. (2 * n) % 2 = 0 /\ (2 * n) \div 2 = n /\ n \in Numbers \ {0}
      BY <1>1, <2>2, <3>3
    <3>5. Size(2 * n) = 2 * Size(n)
      BY <2>2, <3>3, <3>4, SizeStep
    <3>6. Size(n) = p
      <4>1. j - 1 \in T /\ j - 1 \in Nat /\ j - 1 =< PageBits
        BY <1>1, <1>2, <2>2
      <4>2. QED
        BY <3>1, <3>2, <3>4, <4>1
    <3>7. QED
      BY <3>1, <3>3, <3>5, <3>6
  <2>3. QED
    BY <2>1, <2>2
<1> HIDE DEF T
<1>3. k \in T
  BY <1>2, Induction
<1>4. QED
  BY <1>3 DEF T

\* So initialize_mtrrs computes the size of the range from its mask.
LEMMA SizeOfMask ==
    ASSUME NEW k \in 0 .. PageBits - 1
    PROVE  /\ Power[PageBits] - Power[k] \in Numbers \ {0}
           /\ Size(Power[PageBits] - Power[k]) = Power[k]
<1>1. PageBits \in Nat /\ k \in Nat /\ k < PageBits /\ Numbers = 0 .. Power[PageBits] - 1
  BY MtrrAssumption DEF Numbers
<1>2. PICK q \in Nat \ {0} : Power[PageBits] = Power[k] * (2 * q)
  BY <1>1, EvenMultiple
<1>3. PICK p \in Nat \ {0} : p = Power[k]
  BY <1>1, Powers
<1>4. PICK r \in Nat : r = 2 * q - 1
  BY <1>2
<1>5. r % 2 = 1
  BY <1>4
<1>6. Power[PageBits] - Power[k] = p * r
  <2>1. p * (2 * q) - p = p * (2 * q - 1)
    BY <1>3, <1>2
  <2>2. QED
    BY <1>2, <1>3, <1>4, <2>1
<1>7. p * r \in Nat \ {0} /\ p * r = Power[PageBits] - p /\ Power[PageBits] \in Nat
  <2>1. r >= 1 /\ p >= 1
    BY <1>2, <1>3, <1>4
  <2>2. p * r >= 1
    BY <2>1
  <2>3. QED
    BY <1>1, <1>3, <1>6, <2>2, Powers
<1>8. p * r \in Numbers \ {0}
  BY <1>1, <1>3, <1>7
<1>9. Power[k] * r \in Numbers \ {0} /\ k =< PageBits
  BY <1>1, <1>3, <1>8
<1>10. Size(Power[k] * r) = Power[k]
  BY <1>1, <1>5, <1>9, SizeOfMultiple
<1>11. QED
  BY <1>3, <1>6, <1>8, <1>10

-----------------------------------------------------------------------------
(***************************************************************************)
(* Lookups.                                                                *)
(***************************************************************************)

\* The tables are pages of the module, and the processor finds each of them.
LEMMA TableIsFound ==
    ASSUME PhysicalInv, NEW k \in Tables
    PROVE  EptPage(k) \in Module /\ TableAt(physical[EptPage(k)]) = k
<1>1. \A j \in Tables : EptPage(j) \in Module
  BY EptAssumption, SizeAssumption DEF EptPage, Module, Tables
<1>2. \A j \in Tables : physical[EptPage(j)] = physical[EptPage(k)] => j = k
  <2>1. \A j \in Tables : EptPage(j) = EptPage(k) => j = k
    BY EptAssumption DEF EptPage, Tables
  <2>2. QED
    BY <1>1, <2>1 DEF PhysicalInv
<1>3. QED
  BY <1>1, <1>2 DEF TableAt

\* module_physical_to_virtual finds each page of the module.
LEMMA PageIsFound ==
    ASSUME PhysicalInv, NEW w \in Module,
           module_physical_to_virtual = {[key |-> physical[v], value |-> v] : v \in Module}
    PROVE  /\ Find(physical[w]) = w
           /\ [key |-> physical[w], value |-> w] \in module_physical_to_virtual
<1> DEFINE m == [key |-> physical[w], value |-> w]
<1>1. m \in module_physical_to_virtual /\ m.key = physical[w] /\ m.value = w
  OBVIOUS
<1>2. \A n \in module_physical_to_virtual : n.key = physical[w] => n.value = w
  BY DEF PhysicalInv
<1> HIDE DEF m
<1>3. QED
  BY <1>1, <1>2 DEF Find, m

\* So it finds the table of each large page that is split.
LEMMA OwnTable ==
    ASSUME EptInv, Built, NEW l \in SplitPages
    PROVE  /\ l \in Large /\ IsTableEntry(l) /\ TableOf(l) \in Tables
           /\ TableOf(l) < ept_index
           /\ Find(epd[l].page) = EptPage(TableOf(l))
           /\ Find(epd[l].page) - EptFirst = TableOf(l)
           /\ [key |-> epd[l].page, value |-> EptPage(TableOf(l))]
                  \in module_physical_to_virtual
<1>1. l \in Large /\ IsTableEntry(l)
  <2>1. l \in Large /\ epd[l].large = 0
    BY DEF SplitPages
  <2>2. IsLargeEntry(l) \/ IsTableEntry(l)
    BY <2>1 DEF EptInv, DirInv
  <2>3. ~IsLargeEntry(l)
    BY <2>1 DEF IsLargeEntry
  <2>4. QED
    BY <2>1, <2>2, <2>3
<1>2. TableOf(l) \in Tables /\ TableOf(l) < ept_index
  BY <1>1, EptAssumption DEF IsTableEntry, EptInv, CountInv, Tables
<1>3. /\ PhysicalInv
      /\ module_physical_to_virtual = {[key |-> physical[v], value |-> v] : v \in Module}
  BY DEF EptInv, MapInv, Built
<1>4. EptPage(TableOf(l)) \in Module
  BY <1>2, <1>3, TableIsFound
<1>5. /\ Find(epd[l].page) = EptPage(TableOf(l))
      /\ [key |-> epd[l].page, value |-> EptPage(TableOf(l))] \in module_physical_to_virtual
  BY <1>1, <1>3, <1>4, PageIsFound DEF IsTableEntry
<1>6. EptPage(TableOf(l)) - EptFirst = TableOf(l)
  BY <1>2, EptAssumption DEF EptPage, Tables
<1>7. QED
  BY <1>1, <1>2, <1>5, <1>6

\* The type of a large page is one of the memory types.
LEMMA TypeOfIsType ==
    ASSUME MtrrInv, NEW l \in Large
    PROVE  TypeOf(l) \in MemoryTypes
<1> DEFINE touching == {r \in DOMAIN mtrrs : Touches(mtrrs[r], l)}
<1>1. DOMAIN mtrrs = 1 .. MtrrCount
  BY DEF MtrrInv
<1>2. CASE touching = {}
  BY <1>2, MtrrAssumption DEF TypeOf
<1>3. CASE touching # {}
  <2>1. touching \subseteq 1 .. MtrrCount /\ touching \subseteq Nat
    BY <1>1, MtrrAssumption
  <2> HIDE DEF touching
  <2>2. \E r \in touching : \A q \in touching : r =< q
    BY <1>3, <2>1, LeastNumber
  <2>3. (CHOOSE r \in touching : \A q \in touching : r =< q) \in touching
    BY <2>2
  <2>4. TypeOf(l) = mtrrs[CHOOSE r \in touching : \A q \in touching : r =< q].type
    BY <1>3 DEF TypeOf, touching
  <2>5. QED
    BY <2>1, <2>3, <2>4 DEF MtrrInv
<1>4. QED
  BY <1>2, <1>3

-----------------------------------------------------------------------------
(***************************************************************************)
(* The steps up to protect_module.                                         *)
(***************************************************************************)
LEMMA ZeroEntryIsEntry == ZeroEntry \in Entries
<1>1. ZeroPage \in Pages
  BY SizeAssumption DEF ZeroPage, Pages, Large, Offsets
<1>2. QED
  BY <1>1, MtrrAssumption DEF ZeroEntry, Entries

LEMMA InitEptInv == ASSUME Init PROVE EptInv
<1>1. PhysicalInv
  BY DEF Init, PhysicalInv
<1>2. MtrrInv
  <2>1. 0 \in Numbers
    BY Powers, MtrrAssumption DEF Numbers
  <2>2. QED
    BY <2>1, MtrrAssumption DEF Init, MtrrInv, EmptyMtrr
<1>3. ControlInv
  BY ZeroEntryIsEntry DEF Init, ControlInv, Outcomes
<1>4. MapInv /\ DirInv /\ SplitInv /\ TableInv
  BY DEF Init, MapInv, DirInv, SplitInv, TableInv, Built
<1>5. CountInv
  BY EptAssumption DEF Init, CountInv, Built
<1>6. QED
  BY <1>1, <1>2, <1>3, <1>4, <1>5 DEF EptInv

\* What a step before protect_module keeps.
LEMMA NotBuilt ==
    ASSUME ~Built' PROVE DirInv' /\ SplitInv' /\ TableInv'
  BY DEF DirInv, SplitInv, TableInv

LEMMA P2vStep == ASSUME EptInv, InitializeModulePhysicalToVirtual PROVE EptInv'
<1> USE DEF InitializeModulePhysicalToVirtual, environment
<1>1. PhysicalInv' /\ MtrrInv'
  BY DEF EptInv, PhysicalInv, MtrrInv
<1>2. /\ pc' \in {"mtrrs", "capacity_error"} /\ i' = i /\ i = 1
      /\ ept_index' = ept_index /\ ept_index = 0
  BY DEF EptInv, ControlInv
<1>3. ControlInv'
  <2>1. 1 \in 1 .. Len(registers) + 1
    <3>1. registers \in Seq(Registers)
      BY MtrrAssumption DEF EptInv, MtrrInv
    <3>2. QED
      BY <3>1
  <2>2. QED
    BY <1>2, <2>1 DEF EptInv, ControlInv, Outcomes
<1>4. MapInv'
  BY DEF EptInv, MapInv
<1>5. ~Built'
  BY <1>2 DEF Built
<1>6. CountInv'
  BY <1>2, <1>5, EptAssumption DEF CountInv
<1>7. QED
  BY <1>1, <1>3, <1>4, <1>5, <1>6, NotBuilt DEF EptInv

LEMMA ReadMtrrStep == ASSUME EptInv, ReadMtrr PROVE EptInv'
<1> USE DEF ReadMtrr, environment
<1>1. PhysicalInv' /\ MapInv'
  BY DEF EptInv, PhysicalInv, MapInv
<1>2. /\ pc = "mtrrs" /\ pc' = pc /\ i' = i + 1 /\ i \in 1 .. Len(registers)
      /\ ept_index' = ept_index /\ ept_index = 0
  <2>1. registers \in Seq(Registers)
    BY MtrrAssumption DEF EptInv, MtrrInv
  <2>2. QED
    BY <2>1 DEF EptInv, ControlInv
<1>3. MtrrInv'
  <2>1. registers \in Seq(Registers) /\ Len(registers) =< MtrrCount
    BY MtrrAssumption DEF EptInv, MtrrInv
  <2>2. registers[i] \in Registers /\ i \in 1 .. MtrrCount
    BY <1>2, <2>1, MtrrAssumption
  <2>3. /\ registers[i].valid \in {0, 1} /\ registers[i].base \in Numbers
        /\ registers[i].type \in MemoryTypes
    BY <2>2 DEF Registers
  <2> DEFINE n == [valid |-> registers[i].valid, base |-> registers[i].base,
                   type |-> registers[i].type,
                   size |-> IF registers[i].mask = 0 THEN 0 ELSE Size(registers[i].mask)]
  <2>4. /\ DOMAIN n = {"valid", "base", "size", "type"}
        /\ n.valid \in {0, 1} /\ n.base \in Numbers /\ n.type \in MemoryTypes
    BY <2>3
  <2>5. mtrrs' = [mtrrs EXCEPT ![i] = n]
    OBVIOUS
  <2> HIDE DEF n
  <2>6. QED
    BY <2>2, <2>4, <2>5 DEF EptInv, MtrrInv
<1>4. ControlInv'
  <2>1. registers' = registers /\ registers \in Seq(Registers)
    BY MtrrAssumption DEF EptInv, MtrrInv
  <2>2. QED
    BY <1>2, <2>1 DEF EptInv, ControlInv, Outcomes
<1>5. ~Built'
  BY <1>2 DEF Built
<1>6. CountInv'
  BY <1>2, <1>5, EptAssumption DEF CountInv
<1>7. QED
  BY <1>1, <1>3, <1>4, <1>5, <1>6, NotBuilt DEF EptInv

LEMMA MtrrsReadStep == ASSUME EptInv, MtrrsRead PROVE EptInv'
<1> USE DEF MtrrsRead, environment
<1>1. PhysicalInv' /\ MtrrInv' /\ MapInv'
  BY DEF EptInv, PhysicalInv, MtrrInv, MapInv
<1>2. pc = "mtrrs" /\ pc' = "ept" /\ ept_index' = ept_index /\ ept_index = 0 /\ i' \in Nat
  BY DEF EptInv, ControlInv
<1>3. ControlInv'
  BY <1>2 DEF EptInv, ControlInv, Outcomes
<1>4. ~Built'
  BY <1>2 DEF Built
<1>5. CountInv'
  BY <1>2, <1>4, EptAssumption DEF CountInv
<1>6. QED
  BY <1>1, <1>3, <1>4, <1>5, NotBuilt DEF EptInv

LEMMA InitializeEptStep == ASSUME EptInv, InitializeEpt PROVE EptInv'
<1> USE DEF InitializeEpt, environment
<1>1. PhysicalInv' /\ MtrrInv' /\ MapInv'
  BY DEF EptInv, PhysicalInv, MtrrInv, MapInv
<1>2. /\ pc' = "protect" /\ i' = 0 /\ ept_index' = 0 /\ ept' = ept
      /\ epd' = [l \in Large |-> [access |-> 1, large |-> 1, type |-> TypeOf(l),
                                  page |-> [large |-> l, offset |-> 0]]]
  OBVIOUS
<1>3. epd' \in [Large -> Entries]
  <2>1. \A l \in Large : TypeOf(l) \in MemoryTypes
    BY TypeOfIsType DEF EptInv
  <2>2. \A l \in Large : [large |-> l, offset |-> 0] \in Pages
    BY SizeAssumption DEF Pages, Offsets
  <2>3. QED
    BY <1>2, <2>1, <2>2 DEF Entries
<1>4. ControlInv'
  BY <1>2, <1>3, SizeAssumption DEF EptInv, ControlInv, Outcomes
<1>5. SplitPages' = {} /\ \A l \in Large : IsLargeEntry(l)'
  BY <1>2 DEF SplitPages, IsLargeEntry
<1>6. DirInv' /\ TableInv'
  BY <1>5 DEF DirInv, TableInv
<1>7. SplitInv'
  BY <1>2, <1>5 DEF SplitInv, Walked
<1>8. CountInv'
  BY <1>2, <1>5, FS_EmptySet, EptAssumption DEF CountInv
<1>9. QED
  BY <1>1, <1>4, <1>6, <1>7, <1>8 DEF EptInv

-----------------------------------------------------------------------------
(***************************************************************************)
(* protect_module and unprotect_guest_memory.                              *)
(***************************************************************************)

\* Where page v of the module is.
LEMMA PlaceOfPage ==
    ASSUME PhysicalInv, NEW v \in Module
    PROVE  /\ physical[v] \in Pages
           /\ physical[v].large \in Large /\ physical[v].offset \in Offsets
           /\ physical[v] = [large |-> physical[v].large, offset |-> physical[v].offset]
  BY DEF PhysicalInv, Pages

\* The tables with the access bit of one entry written.
WithAccess(k, o, bit) == [ept EXCEPT ![k][o].access = bit]

\* What that is.
LEMMA WrittenAccess ==
    ASSUME ept \in [Tables -> [Offsets -> Entries]], NEW k \in Tables, NEW o \in Offsets,
           NEW bit \in {0, 1}
    PROVE  /\ WithAccess(k, o, bit) \in [Tables -> [Offsets -> Entries]]
           /\ \A m \in Tables, n \in Offsets :
                 IF m = k /\ n = o
                 THEN /\ WithAccess(k, o, bit)[m][n].access = bit
                      /\ WithAccess(k, o, bit)[m][n].page = ept[m][n].page
                      /\ WithAccess(k, o, bit)[m][n].type = ept[m][n].type
                 ELSE WithAccess(k, o, bit)[m][n] = ept[m][n]
<1> DEFINE e == [ept[k][o] EXCEPT !.access = bit]
<1>1. e \in Entries /\ e.access = bit /\ e.page = ept[k][o].page /\ e.type = ept[k][o].type
  BY DEF Entries
<1>2. WithAccess(k, o, bit) = [ept EXCEPT ![k] = [ept[k] EXCEPT ![o] = e]]
  BY DEF WithAccess
<1> HIDE DEF e
<1>3. QED
  BY <1>1, <1>2

\* Setting the access bit of one page of the module changes no other page's, and
\* leaves the directory alone.
LEMMA SetAccess ==
    ASSUME EptInv, Built, Built', NEW v \in Module, physical[v].large \in SplitPages,
           NEW bit \in {0, 1},
           ept' = WithAccess(TableOf(physical[v].large), physical[v].offset, bit),
           UNCHANGED <<physical, epd, ept_index>>,
           \A w \in Module : w # v => (w \in Hidden' <=> w \in Hidden),
           v \in Hidden' <=> bit = 0,
           Hidden \subseteq Module, Hidden' \subseteq Module
    PROVE  /\ ept' \in [Tables -> [Offsets -> Entries]]
           /\ DirInv' /\ TableInv' /\ SplitPages' = SplitPages
<1> DEFINE l == physical[v].large
           o == physical[v].offset
           k == TableOf(l)
<1>1. /\ PhysicalInv /\ l \in Large /\ o \in Offsets
      /\ physical[v] = [large |-> l, offset |-> o]
  BY PlaceOfPage DEF EptInv
<1>2. k \in Tables /\ \A m \in SplitPages : TableOf(m) \in Tables
  BY OwnTable
<1>3. ept \in [Tables -> [Offsets -> Entries]]
  BY DEF EptInv, ControlInv
<1>4. ept' \in [Tables -> [Offsets -> Entries]]
  BY <1>1, <1>2, <1>3, WrittenAccess
<1>5. /\ SplitPages' = SplitPages /\ \A m : TableOf(m)' = TableOf(m)
  BY DEF SplitPages, TableOf, TableAt
<1>6. DirInv'
  <2>1. \A m : /\ IsLargeEntry(m)' = IsLargeEntry(m)
               /\ IsTableEntry(m)' = IsTableEntry(m)
    BY <1>5 DEF IsLargeEntry, IsTableEntry
  <2>2. /\ \A m \in Large : IsLargeEntry(m) \/ IsTableEntry(m)
        /\ \A m, n \in SplitPages : TableOf(m) = TableOf(n) => m = n
    BY DEF EptInv, DirInv
  <2>3. \A m \in Large : IsLargeEntry(m)' \/ IsTableEntry(m)'
    BY <2>1, <2>2
  <2>4. \A m, n \in SplitPages' : TableOf(m)' = TableOf(n)' => m = n
    BY <1>5, <2>2
  <2>5. QED
    BY <2>3, <2>4 DEF DirInv
<1>7. TableInv'
  <2>1. SUFFICES ASSUME NEW m \in SplitPages, NEW n \in Offsets
                 PROVE  IsPageEntry(m, n)'
    BY <1>5 DEF TableInv
  <2>2. /\ ept[TableOf(m)][n].page = [large |-> m, offset |-> n]
        /\ ept[TableOf(m)][n].access = 0 <=>
               \E w \in Hidden : physical[w] = [large |-> m, offset |-> n]
    BY <2>1 DEF EptInv, TableInv, IsPageEntry
  <2>3. CASE m = l /\ n = o
    <3>1. ept'[k][o].page = ept[k][o].page /\ ept'[k][o].access = bit
      BY <1>1, <1>2, <1>3, WrittenAccess
    <3>2. ept'[k][o].page = [large |-> l, offset |-> o] /\ ept'[k][o].access = bit
      BY <2>2, <2>3, <3>1
    <3>3. (\E w \in Hidden' : physical[w] = [large |-> l, offset |-> o]) <=> bit = 0
      <4>1. \A w \in Module : physical[w] = [large |-> l, offset |-> o] => w = v
        BY <1>1 DEF PhysicalInv
      <4>2. QED
        BY <1>1, <4>1
    <3>4. physical' = physical /\ TableOf(m)' = k
      BY <1>5, <2>3
    <3>5. QED
      BY <2>3, <3>2, <3>3, <3>4 DEF IsPageEntry
  <2>4. CASE ~(m = l /\ n = o)
    <3>1. ept'[TableOf(m)][n] = ept[TableOf(m)][n]
      <4>1. CASE m = l
        BY <1>1, <1>2, <1>3, <2>4, <4>1, WrittenAccess
      <4>2. CASE m # l
        <5>1. TableOf(m) # k
          BY <4>2 DEF EptInv, DirInv
        <5>2. QED
          BY <1>1, <1>2, <1>3, <5>1, WrittenAccess
      <4>3. QED
        BY <4>1, <4>2
    <3>2. \A w \in Module : physical[w] = [large |-> m, offset |-> n] => w # v
      BY <1>1, <2>4
    <3>3. (\E w \in Hidden' : physical[w] = [large |-> m, offset |-> n]) <=>
              \E w \in Hidden : physical[w] = [large |-> m, offset |-> n]
      BY <3>2
    <3>4. physical' = physical /\ TableOf(m)' = TableOf(m)
      BY <1>5
    <3>5. QED
      BY <2>2, <3>1, <3>3, <3>4 DEF IsPageEntry
  <2>5. QED
    BY <2>3, <2>4
<1>8. QED
  BY <1>4, <1>5, <1>6, <1>7

LEMMA ProtectInTableStep == ASSUME EptInv, ProtectInTable PROVE EptInv'
<1> DEFINE l == physical[i].large
<1>1. /\ pc = "protect" /\ pc' = pc /\ i' = i + 1 /\ i \in 0 .. ModulePages - 1
      /\ i \in Module /\ UNCHANGED <<physical, epd, ept_index, registers, mtrrs>>
      /\ module_physical_to_virtual' = module_physical_to_virtual
      /\ epd[l].large = 0
  <2>1. /\ pc = "protect" /\ pc' = pc /\ i' = i + 1 /\ i < ModulePages
        /\ UNCHANGED <<physical, epd, ept_index, registers, mtrrs>>
        /\ module_physical_to_virtual' = module_physical_to_virtual
        /\ epd[l].large = 0
      BY DEF ProtectInTable, environment
  <2>2. i \in 0 .. ModulePages
    BY <2>1 DEF EptInv, ControlInv
  <2>3. i \in 0 .. ModulePages - 1
    BY <2>1, <2>2, SizeAssumption
  <2>4. QED
    BY <2>1, <2>3 DEF Module
<1>2. Built /\ Built'
  BY <1>1 DEF Built
<1>3. PhysicalInv' /\ MtrrInv' /\ MapInv'
  BY <1>1 DEF EptInv, PhysicalInv, MtrrInv, MapInv
<1>4. l \in SplitPages
  BY <1>1, PlaceOfPage DEF SplitPages, EptInv
<1>5. Hidden = 0 .. i - 1 /\ Hidden' = 0 .. i /\ Walked = 0 .. i - 1 /\ Walked' = 0 .. i
  BY <1>1, SizeAssumption DEF Hidden, Walked
<1>6. ept' = WithAccess(TableOf(l), physical[i].offset, 0)
  <2>1. ept' = WithAccess(Find(epd[l].page) - EptFirst, physical[i].offset, 0)
    BY DEF ProtectInTable, WithAccess
  <2>2. QED
    BY <1>2, <1>4, <2>1, OwnTable
<1>7. /\ ept' \in [Tables -> [Offsets -> Entries]]
      /\ DirInv' /\ TableInv' /\ SplitPages' = SplitPages
  <2>1. \A w \in Module : w # i => (w \in Hidden' <=> w \in Hidden)
    BY <1>1, <1>5, SizeAssumption DEF Module
  <2>2. Hidden \subseteq Module /\ Hidden' \subseteq Module /\ i \in Hidden'
    BY <1>1, <1>5, SizeAssumption DEF Module
  <2>3. QED
    BY <1>1, <1>2, <1>4, <1>6, <2>1, <2>2, SetAccess
<1>8. ControlInv'
  BY <1>1, <1>7, SizeAssumption DEF EptInv, ControlInv, Outcomes
<1>9. SplitInv'
  <2>1. SplitPages = {physical[v].large : v \in Walked}
    BY <1>2 DEF EptInv, SplitInv
  <2>2. {physical[v].large : v \in 0 .. i} = SplitPages
    BY <1>1, <1>4, <1>5, <2>1
  <2>3. QED
    BY <1>1, <1>5, <1>7, <2>2 DEF SplitInv
<1>10. CountInv'
  BY <1>1, <1>2, <1>7 DEF EptInv, CountInv
<1>11. QED
  BY <1>3, <1>7, <1>8, <1>9, <1>10 DEF EptInv

LEMMA ModuleProtectedStep == ASSUME EptInv, ModuleProtected PROVE EptInv'
<1> USE DEF ModuleProtected, environment
<1>1. /\ pc = "protect" /\ pc' = "unprotect" /\ i = ModulePages /\ i' = FirstUnprotected
      /\ UNCHANGED <<physical, registers, mtrrs, ept_index, epd, ept,
                     module_physical_to_virtual>>
  OBVIOUS
<1>2. Built /\ Built'
  BY <1>1 DEF Built
<1>3. PhysicalInv' /\ MtrrInv' /\ MapInv'
  BY <1>1 DEF EptInv, PhysicalInv, MtrrInv, MapInv
<1>4. ControlInv'
  BY <1>1, UnprotectedAssumption DEF EptInv, ControlInv, Outcomes
<1>5. Walked' = Walked /\ Hidden' = Hidden
  BY <1>1, SizeAssumption, UnprotectedAssumption DEF Walked, Hidden, Module
<1>6. SplitPages' = SplitPages /\ \A m : TableOf(m)' = TableOf(m)
  BY <1>1 DEF SplitPages, TableOf, TableAt
<1>7. DirInv' /\ SplitInv' /\ TableInv'
  <2>1. \A m : /\ IsLargeEntry(m)' = IsLargeEntry(m) /\ IsTableEntry(m)' = IsTableEntry(m)
               /\ \A o : IsPageEntry(m, o)' = IsPageEntry(m, o)
    BY <1>1, <1>5, <1>6 DEF IsLargeEntry, IsTableEntry, IsPageEntry
  <2>2. DirInv /\ SplitInv /\ TableInv
    BY DEF EptInv
  <2>3. QED
    BY <1>1, <1>2, <1>5, <1>6, <2>1, <2>2 DEF DirInv, SplitInv, TableInv
<1>8. CountInv'
  BY <1>1, <1>2, <1>6 DEF EptInv, CountInv
<1>9. QED
  BY <1>3, <1>4, <1>7, <1>8 DEF EptInv

LEMMA UnprotectPageStep == ASSUME EptInv, UnprotectPage PROVE EptInv'
<1> DEFINE l == physical[i].large
<1>1. /\ pc = "unprotect" /\ pc' = pc /\ i' = i + 1
      /\ i \in FirstUnprotected .. FirstUnprotected + UnprotectedPages - 1
      /\ i \in Module /\ UNCHANGED <<physical, epd, ept_index, registers, mtrrs>>
      /\ module_physical_to_virtual' = module_physical_to_virtual
  <2>1. /\ pc = "unprotect" /\ pc' = pc /\ i' = i + 1
        /\ i < FirstUnprotected + UnprotectedPages
        /\ UNCHANGED <<physical, epd, ept_index, registers, mtrrs>>
        /\ module_physical_to_virtual' = module_physical_to_virtual
      BY DEF UnprotectPage, environment
  <2>2. i \in FirstUnprotected .. FirstUnprotected + UnprotectedPages
    BY <2>1 DEF EptInv, ControlInv
  <2>3. i \in FirstUnprotected .. FirstUnprotected + UnprotectedPages - 1
    BY <2>1, <2>2, UnprotectedAssumption
  <2>4. i \in Module
    BY <2>3, UnprotectedAssumption, SizeAssumption DEF Module
  <2>5. QED
    BY <2>1, <2>3, <2>4
<1>2. Built /\ Built'
  BY <1>1 DEF Built
<1>3. PhysicalInv' /\ MtrrInv' /\ MapInv'
  BY <1>1 DEF EptInv, PhysicalInv, MtrrInv, MapInv
<1>4. /\ Hidden = Module \ (FirstUnprotected .. i - 1)
      /\ Hidden' = Module \ (FirstUnprotected .. i)
      /\ Walked = Module /\ Walked' = Module
  BY <1>1, UnprotectedAssumption DEF Hidden, Walked
<1>5. l \in SplitPages
  BY <1>1, <1>2, <1>4 DEF EptInv, SplitInv
<1>6. ept' = WithAccess(TableOf(l), physical[i].offset, 1)
  <2>1. ept' = WithAccess(Find(epd[l].page) - EptFirst, physical[i].offset, 1)
    BY DEF UnprotectPage, WithAccess
  <2>2. QED
    BY <1>2, <1>5, <2>1, OwnTable
<1>7. /\ ept' \in [Tables -> [Offsets -> Entries]]
      /\ DirInv' /\ TableInv' /\ SplitPages' = SplitPages
  <2>1. \A w \in Module : w # i => (w \in Hidden' <=> w \in Hidden)
    BY <1>1, <1>4, SizeAssumption, UnprotectedAssumption DEF Module
  <2>2. /\ Hidden \subseteq Module /\ Hidden' \subseteq Module
        /\ i \in Hidden' <=> 1 = 0
    BY <1>1, <1>4, UnprotectedAssumption
  <2>3. QED
    BY <1>1, <1>2, <1>5, <1>6, <2>1, <2>2, SetAccess
<1>8. ControlInv'
  BY <1>1, <1>7, UnprotectedAssumption DEF EptInv, ControlInv, Outcomes
<1>9. SplitInv'
  BY <1>1, <1>2, <1>4, <1>7 DEF EptInv, SplitInv
<1>10. CountInv'
  BY <1>1, <1>2, <1>7 DEF EptInv, CountInv
<1>11. QED
  BY <1>3, <1>7, <1>8, <1>9, <1>10 DEF EptInv

LEMMA MemoryUnprotectedStep == ASSUME EptInv, MemoryUnprotected PROVE EptInv'
<1> USE DEF MemoryUnprotected, environment
<1>1. /\ pc = "unprotect" /\ pc' = "done" /\ i = FirstUnprotected + UnprotectedPages
      /\ i' = i /\ FirstUnprotected \in Nat /\ UnprotectedPages \in Nat
      /\ UNCHANGED <<physical, registers, mtrrs, ept_index, epd, ept,
                     module_physical_to_virtual>>
  BY UnprotectedAssumption
<1>2. Built /\ Built'
  BY <1>1 DEF Built
<1>3. PhysicalInv' /\ MtrrInv' /\ MapInv'
  BY <1>1 DEF EptInv, PhysicalInv, MtrrInv, MapInv
<1>4. ControlInv'
  BY <1>1, UnprotectedAssumption, SizeAssumption DEF EptInv, ControlInv, Outcomes
<1>5. Walked' = Walked /\ Hidden' = Hidden
  BY <1>1 DEF Walked, Hidden, Unprotected
<1>6. SplitPages' = SplitPages /\ \A m : TableOf(m)' = TableOf(m)
  BY <1>1 DEF SplitPages, TableOf, TableAt
<1>7. DirInv' /\ SplitInv' /\ TableInv'
  <2>1. \A m : /\ IsLargeEntry(m)' = IsLargeEntry(m) /\ IsTableEntry(m)' = IsTableEntry(m)
               /\ \A o : IsPageEntry(m, o)' = IsPageEntry(m, o)
    BY <1>1, <1>5, <1>6 DEF IsLargeEntry, IsTableEntry, IsPageEntry
  <2>2. DirInv /\ SplitInv /\ TableInv
    BY DEF EptInv
  <2>3. QED
    BY <1>1, <1>2, <1>5, <1>6, <2>1, <2>2 DEF DirInv, SplitInv, TableInv
<1>8. CountInv'
  BY <1>1, <1>2, <1>6 DEF EptInv, CountInv
<1>9. QED
  BY <1>3, <1>4, <1>7, <1>8 DEF EptInv

\* The entry of the large page that is split, and its new table.
LEMMA SplitStep ==
    ASSUME EptInv, ProtectSplitting
    PROVE  LET l == physical[i].large
               k == ept_index
           IN  /\ pc = "protect" /\ i \in Module /\ i \in 0 .. ModulePages - 1
               /\ l \in Large /\ IsLargeEntry(l) /\ k \in Tables
               /\ k + 1 < EptCount => pc' = "protect" /\ i' = i + 1
               /\ k + 1 = EptCount => pc' = "ept_error" /\ i' = i
               /\ k + 1 < EptCount \/ k + 1 = EptCount
               /\ ept_index' = k + 1
               /\ epd' = [epd EXCEPT ![l] =
                     [access |-> 1, large |-> 0, type |-> Uncacheable,
                      page |-> physical[EptPage(k)]]]
               /\ UNCHANGED <<physical, registers, mtrrs, module_physical_to_virtual>>
<1> DEFINE l == physical[i].large
           k == ept_index
<1>1. /\ pc = "protect" /\ i < ModulePages /\ epd[l].large = 1
      /\ ept_index' = k + 1
      /\ UNCHANGED <<physical, registers, mtrrs, module_physical_to_virtual>>
      /\ epd' = [epd EXCEPT ![l] = [access |-> 1, large |-> 0, type |-> Uncacheable,
                                    page |-> physical[EptPage(k)]]]
  BY DEF ProtectSplitting, environment
<1>2. /\ k + 1 # EptCount => pc' = "protect" /\ i' = i + 1
      /\ k + 1 = EptCount => pc' = "ept_error" /\ i' = i
  BY DEF ProtectSplitting
<1>3. i \in 0 .. ModulePages
  BY <1>1 DEF EptInv, ControlInv
<1>4. i \in 0 .. ModulePages - 1 /\ i \in Module
  BY <1>1, <1>3, SizeAssumption DEF Module
<1>5. k \in 0 .. EptCount /\ k # EptCount
  BY <1>1 DEF EptInv, CountInv
<1>6. k \in Tables /\ (k + 1 < EptCount \/ k + 1 = EptCount)
  BY <1>5, EptAssumption DEF Tables
<1>7. l \in Large
  BY <1>4, PlaceOfPage DEF EptInv
<1>8. IsLargeEntry(l)
  <2>1. IsLargeEntry(l) \/ IsTableEntry(l)
    BY <1>1, <1>7 DEF EptInv, DirInv, Built
  <2>2. ~IsTableEntry(l)
    BY <1>1 DEF IsTableEntry
  <2>3. QED
    BY <2>1, <2>2
<1>9. k + 1 < EptCount => k + 1 # EptCount
  BY <1>5, EptAssumption
<1>10. QED
  BY <1>1, <1>2, <1>4, <1>6, <1>7, <1>8, <1>9

\* The tables after it: the new one maps its large page to itself, and hides the
\* page that caused the split unless the tables are exhausted.
LEMMA SplitTables ==
    ASSUME EptInv, ProtectSplitting
    PROVE  LET p == physical[i]
               k == ept_index
           IN  /\ ept' \in [Tables -> [Offsets -> Entries]]
               /\ \A m \in Tables : m # k => ept'[m] = ept[m]
               /\ \A o \in Offsets :
                     /\ ept'[k][o].page = [large |-> p.large, offset |-> o]
                     /\ ept'[k][o].access = 0 <=> k + 1 # EptCount /\ o = p.offset
                     /\ ept'[k][o].type = epd[p.large].type
<1> DEFINE p == physical[i]
           l == p.large
           k == ept_index
           whole == Split(l)
           holed == [whole EXCEPT ![p.offset].access = 0]
           new == IF k + 1 = EptCount THEN whole ELSE holed
<1>1. i \in Module /\ l \in Large /\ IsLargeEntry(l) /\ k \in Tables
  BY SplitStep
<1>2. p.offset \in Offsets
  BY <1>1, PlaceOfPage DEF EptInv
<1>3. ept \in [Tables -> [Offsets -> Entries]] /\ epd[l].type \in MemoryTypes
      /\ epd[l].page.large = l
  BY <1>1 DEF EptInv, ControlInv, IsLargeEntry, Entries
<1>4. /\ whole \in [Offsets -> Entries]
      /\ \A o \in Offsets : /\ whole[o].page = [large |-> l, offset |-> o]
                            /\ whole[o].access = 1 /\ whole[o].type = epd[l].type
  <2>1. whole = [o \in Offsets |-> [access |-> 1, large |-> 0, type |-> epd[l].type,
                                    page |-> [large |-> l, offset |-> o]]]
    BY <1>3 DEF Split
  <2>2. \A o \in Offsets : [large |-> l, offset |-> o] \in Pages
    BY <1>1 DEF Pages
  <2>3. \A o \in Offsets : [access |-> 1, large |-> 0, type |-> epd[l].type,
                            page |-> [large |-> l, offset |-> o]] \in Entries
    BY <1>3, <2>2 DEF Entries
  <2>4. whole \in [Offsets -> Entries]
    BY <2>1, <2>3
  <2>5. QED
    BY <2>1, <2>4
<1> HIDE DEF whole
<1>5. /\ holed \in [Offsets -> Entries]
      /\ \A o \in Offsets : /\ holed[o].page = [large |-> l, offset |-> o]
                            /\ holed[o].access = 0 <=> o = p.offset
                            /\ holed[o].type = epd[l].type
  <2> DEFINE e == [whole[p.offset] EXCEPT !.access = 0]
  <2>1. /\ e \in Entries /\ e.access = 0 /\ e.page = [large |-> l, offset |-> p.offset]
        /\ e.type = epd[l].type
    BY <1>2, <1>4 DEF Entries
  <2>2. holed = [whole EXCEPT ![p.offset] = e]
    OBVIOUS
  <2> HIDE DEF e, holed, p
  <2>3. QED
    BY <1>2, <1>4, <2>1, <2>2
<1>6. ept' = [ept EXCEPT ![k] = new]
  BY DEF ProtectSplitting, whole
<1> HIDE DEF holed
<1>7. new \in [Offsets -> Entries]
  BY <1>4, <1>5
<1>8. \A o \in Offsets : new[o].page = [large |-> l, offset |-> o] /\ new[o].type = epd[l].type
  BY <1>4, <1>5
<1>9. \A o \in Offsets : new[o].access = 0 <=> (k + 1 # EptCount /\ o = p.offset)
  <2>1. CASE k + 1 = EptCount
    <3>1. new = whole /\ \A o \in Offsets : whole[o].access = 1
      BY <1>4, <2>1
    <3>2. QED
      BY <2>1, <3>1
  <2>2. CASE k + 1 # EptCount
    <3>1. new = holed /\ \A o \in Offsets : holed[o].access = 0 <=> o = p.offset
      BY <1>5, <2>2
    <3> HIDE DEF new, p, k
    <3>2. QED
      BY <2>2, <3>1
  <2>3. QED
    BY <2>1, <2>2
<1> HIDE DEF new, p
<1>10. /\ ept' \in [Tables -> [Offsets -> Entries]] /\ ept'[k] = new
       /\ \A m \in Tables : m # k => ept'[m] = ept[m]
  BY <1>1, <1>3, <1>6, <1>7
<1>11. \A o \in Offsets : ept'[k][o] = new[o]
  BY <1>10
<1>12. \A o \in Offsets : /\ ept'[k][o].page = [large |-> l, offset |-> o]
                          /\ ept'[k][o].type = epd[l].type
  BY <1>8, <1>11
<1>13. \A o \in Offsets : ept'[k][o].access = 0 <=> (k + 1 # EptCount /\ o = p.offset)
  BY <1>9, <1>11
<1>14. QED
  BY <1>10, <1>12, <1>13 DEF p

LEMMA ProtectSplittingStep == ASSUME EptInv, ProtectSplitting PROVE EptInv'
<1> SUFFICES ASSUME NEW p, NEW l, NEW k, NEW q,
                    p = physical[i], l = p.large, k = ept_index, q = physical[EptPage(k)]
             PROVE  EptInv'
  OBVIOUS
<1>1. /\ pc = "protect" /\ i \in Module /\ i \in 0 .. ModulePages - 1
      /\ l \in Large /\ IsLargeEntry(l) /\ k \in Tables
      /\ k + 1 < EptCount => pc' = "protect" /\ i' = i + 1
      /\ k + 1 = EptCount => pc' = "ept_error" /\ i' = i
      /\ k + 1 < EptCount \/ k + 1 = EptCount
      /\ ept_index' = k + 1
      /\ epd' = [epd EXCEPT ![l] = [access |-> 1, large |-> 0, type |-> Uncacheable, page |-> q]]
      /\ UNCHANGED <<physical, registers, mtrrs, module_physical_to_virtual>>
  BY SplitStep
<1>2. Built /\ Built' /\ pc' \in {"protect", "ept_error"}
  BY <1>1 DEF Built
<1>3. PhysicalInv /\ PhysicalInv' /\ MtrrInv' /\ MapInv'
  BY <1>1, <1>2 DEF EptInv, PhysicalInv, MtrrInv, MapInv
<1>4. /\ p.offset \in Offsets /\ p = [large |-> l, offset |-> p.offset]
  BY <1>1, <1>3, PlaceOfPage
<1>5. EptPage(k) \in Module /\ TableAt(q) = k /\ q \in Pages
  BY <1>1, <1>3, TableIsFound DEF PhysicalInv
<1>6. epd \in [Large -> Entries]
  BY DEF EptInv, ControlInv
<1>7. /\ epd' \in [Large -> Entries] /\ \A m \in Large \ {l} : epd'[m] = epd[m]
      /\ epd'[l] = [access |-> 1, large |-> 0, type |-> Uncacheable, page |-> q]
  <2>1. [access |-> 1, large |-> 0, type |-> Uncacheable, page |-> q] \in Entries
    BY <1>5, MtrrAssumption DEF Entries
  <2>2. QED
    BY <1>1, <1>6, <2>1
<1>8. /\ ept' \in [Tables -> [Offsets -> Entries]]
      /\ \A m \in Tables : m # k => ept'[m] = ept[m]
      /\ \A o \in Offsets : /\ ept'[k][o].page = [large |-> l, offset |-> o]
                            /\ ept'[k][o].access = 0 <=> k + 1 # EptCount /\ o = p.offset
  BY SplitTables
<1>9. l \notin SplitPages /\ SplitPages' = SplitPages \cup {l} /\ SplitPages \subseteq Large
  BY <1>1, <1>7 DEF SplitPages, IsLargeEntry
<1>10. TableOf(l)' = k /\ \A m \in SplitPages : TableOf(m)' = TableOf(m)
  <2>1. \A x : TableAt(x)' = TableAt(x)
    BY <1>1 DEF TableAt
  <2>2. TableOf(l)' = TableAt(epd'[l].page)
    BY <2>1 DEF TableOf
  <2>3. \A m \in SplitPages : TableOf(m)' = TableAt(epd'[m].page) /\ epd'[m] = epd[m]
    BY <1>7, <1>9, <2>1 DEF TableOf
  <2>4. QED
    BY <1>5, <1>7, <2>2, <2>3 DEF TableOf
<1>11. \A m \in SplitPages : IsTableEntry(m) /\ TableOf(m) \in Tables /\ TableOf(m) < k
  BY <1>2, OwnTable
<1>12. ControlInv'
  <2>1. /\ pc' = "protect" => i' \in 0 .. ModulePages
        /\ pc' = "ept_error" => i' \in Module
    BY <1>1, SizeAssumption, EptAssumption DEF Tables
  <2>2. QED
    BY <1>2, <1>7, <1>8, <2>1 DEF ControlInv, Outcomes
<1>13. DirInv'
  <2>1. ASSUME NEW m \in Large PROVE (IsLargeEntry(m) \/ IsTableEntry(m))'
    <3>1. CASE m = l
      <4>1. k \in 0 .. (k + 1) - 1
        BY <1>1, EptAssumption DEF Tables
      <4>2. QED
        BY <1>1, <1>7, <1>10, <3>1, <4>1 DEF IsTableEntry
    <3>2. CASE m \in SplitPages
      <4>1. m # l /\ epd'[m] = epd[m] /\ TableOf(m)' = TableOf(m)
        BY <1>7, <1>9, <1>10, <3>2
      <4>2. TableOf(m) \in 0 .. (k + 1) - 1
        BY <1>1, <1>11, <3>2, EptAssumption DEF Tables
      <4>3. QED
        BY <1>1, <1>11, <3>2, <4>1, <4>2 DEF IsTableEntry
    <3>3. CASE m # l /\ m \notin SplitPages
      <4>1. IsLargeEntry(m) /\ epd'[m] = epd[m]
        <5>1. IsLargeEntry(m) \/ IsTableEntry(m)
          BY <1>2 DEF EptInv, DirInv
        <5>2. ~IsTableEntry(m)
          BY <3>3 DEF IsTableEntry, SplitPages
        <5>3. QED
          BY <1>7, <3>3, <5>1, <5>2
      <4>2. QED
        BY <4>1 DEF IsLargeEntry
    <3>4. QED
      BY <3>1, <3>2, <3>3
  <2>2. ASSUME NEW m \in SplitPages', NEW n \in SplitPages', TableOf(m)' = TableOf(n)'
        PROVE  m = n
    <3>1. \A x, y \in SplitPages : TableOf(x) = TableOf(y) => x = y
      BY <1>2 DEF EptInv, DirInv
    <3>2. \A x \in SplitPages : TableOf(x)' # k
      BY <1>1, <1>10, <1>11, EptAssumption DEF Tables
    <3>3. QED
      BY <1>9, <1>10, <2>2, <3>1, <3>2
  <2>3. QED
    BY <2>1, <2>2 DEF DirInv
<1>14. /\ Walked = 0 .. i - 1 /\ Walked' = 0 .. i /\ Hidden = 0 .. i - 1
       /\ Hidden' = IF k + 1 = EptCount THEN 0 .. i - 1 ELSE 0 .. i
  <2>1. CASE k + 1 = EptCount
    BY <1>1, <2>1 DEF Walked, Hidden
  <2>2. CASE k + 1 < EptCount
    <3>1. k + 1 # EptCount /\ (i + 1) - 1 = i
      BY <1>1, <2>2, EptAssumption DEF Tables
    <3>2. QED
      BY <1>1, <2>2, <3>1 DEF Walked, Hidden
  <2>3. QED
    BY <1>1, <2>1, <2>2
<1>15. SplitPages = {physical[v].large : v \in 0 .. i - 1}
  BY <1>2, <1>14 DEF EptInv, SplitInv
<1>16. SplitInv'
  <2>1. 0 .. i = (0 .. i - 1) \cup {i}
    BY <1>1
  <2>2. SplitPages' = {physical[v].large : v \in 0 .. i}
    BY <1>9, <1>15, <2>1
  <2>3. QED
    BY <1>1, <1>14, <2>2 DEF SplitInv
<1>17. TableInv'
  <2>1. SUFFICES ASSUME NEW m \in SplitPages', NEW o \in Offsets
                 PROVE  IsPageEntry(m, o)'
    BY DEF TableInv
  <2>2. physical' = physical
    BY <1>1
  <2>3. CASE m = l
    <3>1. \A v \in 0 .. i - 1 : physical[v].large # l
      BY <1>9, <1>15
    <3>2. (\E v \in Hidden' : physical[v] = [large |-> l, offset |-> o]) <=>
              k + 1 # EptCount /\ o = p.offset
      <4>1. \A v \in 0 .. i - 1 : physical[v] # [large |-> l, offset |-> o]
        BY <3>1
      <4>2. p = [large |-> l, offset |-> o] <=> o = p.offset
        BY <1>4
      <4>3. 0 .. i = (0 .. i - 1) \cup {i}
        BY <1>1
      <4>4. QED
        BY <1>14, <4>1, <4>2, <4>3
    <3>3. ept'[TableOf(m)'][o] = ept'[k][o]
      BY <1>10, <2>3
    <3>4. ept'[TableOf(m)'][o].page = [large |-> m, offset |-> o]
      BY <1>8, <2>3, <3>3
    <3>5. ept'[TableOf(m)'][o].access = 0 <=>
              \E v \in Hidden' : physical'[v] = [large |-> m, offset |-> o]
      BY <1>8, <2>2, <2>3, <3>2, <3>3
    <3>6. QED
      BY <3>4, <3>5 DEF IsPageEntry
  <2>4. CASE m # l
    <3>1. m \in SplitPages
      BY <1>9, <2>4
    <3>2. TableOf(m)' = TableOf(m) /\ TableOf(m) \in Tables /\ TableOf(m) # k
      BY <1>1, <1>10, <1>11, <3>1, EptAssumption DEF Tables
    <3>3. ept'[TableOf(m)] = ept[TableOf(m)]
      BY <1>8, <3>2
    <3>4. IsPageEntry(m, o)
      BY <1>2, <3>1 DEF EptInv, TableInv
    <3>5. (\E v \in Hidden' : physical[v] = [large |-> m, offset |-> o]) <=>
              \E v \in Hidden : physical[v] = [large |-> m, offset |-> o]
      <4>1. p # [large |-> m, offset |-> o]
        BY <2>4
      <4>2. 0 .. i = (0 .. i - 1) \cup {i}
        BY <1>1
      <4>3. QED
        BY <1>14, <4>1, <4>2
    <3>6. QED
      BY <2>2, <3>2, <3>3, <3>4, <3>5 DEF IsPageEntry
  <2>5. QED
    BY <2>3, <2>4
<1>18. CountInv'
  <2>1. IsFiniteSet(SplitPages)
    <3>1. IsFiniteSet(Large)
      BY FS_Interval, SizeAssumption DEF Large
    <3>2. QED
      BY <1>9, <3>1, FS_Subset
  <2>2. Cardinality(SplitPages \cup {l}) = Cardinality(SplitPages) + 1
    BY <1>9, <2>1, FS_AddElement
  <2>3. k = Cardinality(SplitPages)
    BY <1>2 DEF EptInv, CountInv
  <2>4. k + 1 \in 0 .. EptCount
    BY <1>1, EptAssumption DEF Tables
  <2>5. pc' = "ept_error" <=> k + 1 = EptCount
    BY <1>1, EptAssumption DEF Tables
  <2>6. QED
    BY <1>1, <1>9, <2>2, <2>3, <2>4, <2>5 DEF CountInv
<1>19. QED
  BY <1>3, <1>12, <1>13, <1>16, <1>17, <1>18 DEF EptInv

-----------------------------------------------------------------------------
(***************************************************************************)
(* The invariant and what follows from it.                                 *)
(***************************************************************************)
LEMMA NextEptInv == ASSUME EptInv, [Next]_vars PROVE EptInv'
<1>1. CASE UNCHANGED vars
  <2>1. UNCHANGED <<physical, registers, pc, i, mtrrs, ept_index, epd, ept,
                    module_physical_to_virtual>>
    BY <1>1 DEF vars
  <2>2. PhysicalInv' /\ MtrrInv' /\ ControlInv' /\ MapInv'
    BY <2>1 DEF EptInv, PhysicalInv, MtrrInv, ControlInv, MapInv
  <2>3. /\ SplitPages' = SplitPages /\ (\A m : TableOf(m)' = TableOf(m))
        /\ Walked' = Walked /\ Hidden' = Hidden /\ Built' = Built
    BY <2>1 DEF SplitPages, TableOf, TableAt, Walked, Hidden, Built
  <2>4. \A m : /\ IsLargeEntry(m)' = IsLargeEntry(m) /\ IsTableEntry(m)' = IsTableEntry(m)
               /\ \A o : IsPageEntry(m, o)' = IsPageEntry(m, o)
    BY <2>1, <2>3 DEF IsLargeEntry, IsTableEntry, IsPageEntry
  <2>5. DirInv' /\ SplitInv' /\ TableInv' /\ CountInv'
    BY <2>1, <2>3, <2>4 DEF EptInv, DirInv, SplitInv, TableInv, CountInv
  <2>6. QED
    BY <2>2, <2>5 DEF EptInv
<1>2. CASE Finished
  BY <1>1, <1>2 DEF Finished
<1>3. QED
  BY <1>1, <1>2, P2vStep, ReadMtrrStep, MtrrsReadStep, InitializeEptStep,
     ProtectInTableStep, ProtectSplittingStep, ModuleProtectedStep, UnprotectPageStep,
     MemoryUnprotectedStep DEF Next

\* Through every step of the construction the large pages that are split, their
\* tables and the pages that are hidden are those of the module walked so far.
THEOREM EptInvariance == Spec => []EptInv
<1>1. Init => EptInv
  BY InitEptInv
<1>2. EptInv /\ [Next]_vars => EptInv'
  BY NextEptInv
<1>3. QED
  BY <1>1, <1>2, PTL DEF Spec

LEMMA InvType == ASSUME EptInv PROVE TypeOK
<1>1. MtrrInv /\ PhysicalInv /\ ControlInv /\ MapInv /\ ept_index \in 0 .. EptCount
  BY DEF EptInv, CountInv
<1>2. module_physical_to_virtual \subseteq [key : Pages, value : Module]
  <2>1. \A v \in Module : [key |-> physical[v], value |-> v] \in [key : Pages, value : Module]
    BY <1>1 DEF PhysicalInv
  <2>2. QED
    BY <1>1, <2>1 DEF MapInv
<1>3. pc \notin {"p2v", "mtrrs", "ept"} => i \in 0 .. ModulePages
  <2>1. FirstUnprotected .. FirstUnprotected + UnprotectedPages \subseteq 0 .. ModulePages
    BY SizeAssumption, UnprotectedAssumption
  <2>2. Module \subseteq 0 .. ModulePages /\ 1 \in 0 .. ModulePages
    BY SizeAssumption DEF Module
  <2>3. QED
    BY <1>1, <2>1, <2>2 DEF ControlInv, Outcomes
<1>4. QED
  BY <1>1, <1>2, <1>3 DEF TypeOK, PhysicalInv, MtrrInv, ControlInv

LEMMA InvDirectory == ASSUME EptInv PROVE DirectoryIsWellFormed
<1>1. SUFFICES ASSUME Built, NEW l \in Large, epd[l].large = 0
               PROVE  /\ \E k \in 0 .. ept_index - 1 : epd[l].page = physical[EptPage(k)]
                      /\ epd[l].type = Uncacheable
                      /\ \A m \in Large \ {l} : epd[m].large = 0 => epd[m].page # epd[l].page
  BY DEF DirectoryIsWellFormed
<1>2. l \in SplitPages
  BY <1>1 DEF SplitPages
<1>3. IsTableEntry(l)
  BY <1>1, <1>2, OwnTable
<1>4. ASSUME NEW m \in Large, epd[m].large = 0, epd[m].page = epd[l].page PROVE m = l
  <2>1. m \in SplitPages /\ TableOf(m) = TableOf(l)
    BY <1>4 DEF SplitPages, TableOf
  <2>2. QED
    BY <1>1, <1>2, <2>1 DEF EptInv, DirInv
<1>5. QED
  BY <1>3, <1>4 DEF IsTableEntry

\* What the walk of the processor finds: page p, which cannot be accessed exactly
\* if it is a page of the module that is hidden.
LEMMA InvEntry ==
    ASSUME EptInv, Built, NEW p \in Pages
    PROVE  /\ Entry(p).page = p
           /\ Entry(p).access = 0 <=>
                 epd[p.large].large = 0 /\ \E v \in Hidden : physical[v] = p
<1>1. /\ p.large \in Large /\ p.offset \in Offsets
      /\ p = [large |-> p.large, offset |-> p.offset]
  BY DEF Pages
<1>2. CASE IsLargeEntry(p.large)
  <2> DEFINE e == epd[p.large]
  <2>1. e \in Entries /\ e.access = 1 /\ e.large = 1 /\ e.page.large = p.large
    BY <1>1, <1>2 DEF IsLargeEntry, EptInv, ControlInv
  <2>2. Entry(p) = [e EXCEPT !.page = [large |-> p.large, offset |-> p.offset]]
    BY <2>1 DEF Entry
  <2> HIDE DEF e
  <2>3. Entry(p).page = [large |-> p.large, offset |-> p.offset] /\ Entry(p).access = 1
    BY <2>1, <2>2 DEF Entries
  <2>4. QED
    BY <1>1, <2>1, <2>3 DEF e
<1>3. CASE IsTableEntry(p.large)
  <2>1. p.large \in SplitPages /\ epd[p.large].large = 0
    BY <1>1, <1>3 DEF IsTableEntry, SplitPages
  <2>2. IsPageEntry(p.large, p.offset)
    BY <1>1, <2>1 DEF EptInv, TableInv
  <2>3. Entry(p) = ept[TableOf(p.large)][p.offset]
    BY <2>1 DEF Entry, TableOf
  <2>4. QED
    BY <1>1, <2>1, <2>2, <2>3 DEF IsPageEntry
<1>4. QED
  BY <1>1, <1>2, <1>3 DEF EptInv, DirInv

\* Each page of physical memory is mapped to itself from initialize_ept on, through
\* every split, and the directory stays well formed.
THEOREM MemoryMapsToItself == Spec => []MapsToItself
<1>1. EptInv => MapsToItself
  BY InvType, InvDirectory, InvEntry DEF MapsToItself
<1>2. QED
  BY <1>1, EptInvariance, PTL

LEMMA InvIsolated == ASSUME EptInv PROVE ModuleIsIsolated
<1>1. SUFFICES ASSUME pc = "done", NEW p \in Pages
               PROVE  Entry(p).access = 0 <=> \E v \in Module \ Unprotected : physical[v] = p
  BY DEF ModuleIsIsolated
<1>2. Built /\ Hidden = Module \ Unprotected /\ Walked = Module
  BY <1>1 DEF Built, Hidden, Walked
<1>3. ASSUME NEW v \in Module, physical[v] = p PROVE epd[p.large].large = 0
  <2>1. p.large \in {physical[w].large : w \in Walked}
    BY <1>2, <1>3
  <2>2. p.large \in SplitPages
    BY <1>2, <2>1 DEF EptInv, SplitInv
  <2>3. QED
    BY <2>2 DEF SplitPages
<1>4. QED
  BY <1>2, <1>3, InvEntry

\* When the EPT is finished the guests reach exactly the memory that is not the
\* module's and the pages unprotect_guest_memory gave back.
THEOREM ModuleStaysIsolated == Spec => []ModuleIsIsolated
<1>1. EptInv => ModuleIsIsolated
  BY InvIsolated
<1>2. QED
  BY <1>1, EptInvariance, PTL

LEMMA InvLookups == ASSUME EptInv PROVE FindSucceeds
<1>1. SUFFICES ASSUME \/ pc = "protect" /\ i < ModulePages /\ epd[physical[i].large].large = 0
                      \/ pc = "unprotect" /\ i < FirstUnprotected + UnprotectedPages
               PROVE  \E m \in module_physical_to_virtual :
                          /\ m.key = epd[physical[i].large].page
                          /\ m.value - EptFirst \in Tables
  BY DEF FindSucceeds
<1>2. Built
  BY <1>1 DEF Built
<1>3. i \in Module
  <2>1. CASE pc = "protect" /\ i < ModulePages
    BY <2>1, SizeAssumption DEF EptInv, ControlInv, Module
  <2>2. CASE pc = "unprotect" /\ i < FirstUnprotected + UnprotectedPages
    BY <2>2, SizeAssumption, UnprotectedAssumption DEF EptInv, ControlInv, Module
  <2>3. QED
    BY <1>1, <2>1, <2>2
<1>4. physical[i].large \in SplitPages
  <2>1. CASE epd[physical[i].large].large = 0
    BY <1>3, <2>1, PlaceOfPage DEF EptInv, SplitPages
  <2>2. CASE pc = "unprotect"
    <3>1. Walked = Module
      BY <2>2 DEF Walked
    <3>2. QED
      BY <1>2, <1>3, <3>1 DEF EptInv, SplitInv
  <2>3. QED
    BY <1>1, <2>1, <2>2
<1> DEFINE l == physical[i].large
           m == [key |-> epd[l].page, value |-> EptPage(TableOf(l))]
<1>5. m \in module_physical_to_virtual /\ TableOf(l) \in Tables
  BY <1>2, <1>4, OwnTable
<1>6. m.key = epd[l].page /\ m.value - EptFirst = TableOf(l)
  BY <1>5, EptAssumption DEF EptPage, Tables
<1>7. QED
  BY <1>5, <1>6

\* Every lookup whose result protect_module and unprotect_guest_memory dereference
\* finds a table of ept.
THEOREM LookupsSucceed == Spec => []FindSucceeds
<1>1. EptInv => FindSucceeds
  BY InvLookups
<1>2. QED
  BY <1>1, EptInvariance, PTL

LEMMA InvTables == ASSUME EptInv PROVE TablesSuffice
<1>1. LargeOfModule \subseteq Large
  BY PlaceOfPage DEF EptInv, LargeOfModule
<1>2. IsFiniteSet(Large)
  BY FS_Interval, SizeAssumption DEF Large
<1>3. IsFiniteSet(LargeOfModule)
  BY <1>1, <1>2, FS_Subset
<1>4. Cardinality(LargeOfModule) \in Nat
  BY <1>3, FS_CardinalityType
<1>5. CASE pc = "ept_error"
  <2>1. Walked \subseteq Module /\ Built
    <3>1. Walked = 0 .. i /\ i \in 0 .. ModulePages - 1
      BY <1>5 DEF Walked, EptInv, ControlInv, Module
    <3>2. QED
      BY <1>5, <3>1, SizeAssumption DEF Module, Built
  <2>2. SplitPages \subseteq LargeOfModule
    BY <2>1 DEF EptInv, SplitInv, LargeOfModule
  <2>3. Cardinality(SplitPages) =< Cardinality(LargeOfModule)
    BY <1>3, <2>2, FS_Subset
  <2>4. Cardinality(SplitPages) = EptCount
    BY <1>5, <2>1 DEF EptInv, CountInv
  <2>5. QED
    BY <1>5, <2>3, <2>4, <1>4, EptAssumption DEF TablesSuffice
<1>6. CASE pc \in {"unprotect", "done"}
  <2>1. Walked = Module /\ Built
    BY <1>6 DEF Walked, Built
  <2>2. SplitPages = LargeOfModule
    BY <2>1 DEF EptInv, SplitInv, LargeOfModule
  <2>3. Cardinality(LargeOfModule) \in 0 .. EptCount /\ Cardinality(LargeOfModule) # EptCount
    BY <1>6, <2>1, <2>2 DEF EptInv, CountInv
  <2>4. QED
    BY <1>6, <2>3, EptAssumption DEF TablesSuffice
<1>7. QED
  BY <1>5, <1>6 DEF TablesSuffice

\* protect_module runs out of tables exactly when the module lies in as many large
\* pages as there are tables, or more.
THEOREM ExhaustionIsExact == Spec => []TablesSuffice
<1>1. EptInv => TablesSuffice
  BY InvTables
<1>2. QED
  BY <1>1, EptInvariance, PTL

-----------------------------------------------------------------------------
(***************************************************************************)
(* The memory types: through every step the ranges are those of the        *)
(* registers that have been read, and each large page, or each page of it  *)
(* when it is split, has the type initialize_ept took from the ranges.     *)
(***************************************************************************)

\* The range initialize_mtrrs makes of a register.
RangeOf(r) ==
    [valid |-> r.valid, base |-> r.base, type |-> r.type,
     size |-> IF r.mask = 0 THEN 0 ELSE Size(r.mask)]

\* The registers that have been read.
Read == IF pc \in {"p2v", "capacity_error"} THEN {}
        ELSE IF pc = "mtrrs" THEN 1 .. i - 1 ELSE 1 .. Len(registers)

RangesInv ==
    \A r \in 1 .. MtrrCount :
        mtrrs[r] = IF r \in Read THEN RangeOf(registers[r]) ELSE EmptyMtrr

PageTypesInv ==
    Built => \A l \in Large :
        /\ epd[l].large = 1 => epd[l].type = TypeOf(l)
        /\ epd[l].large = 0 => \A o \in Offsets : ept[TableOf(l)][o].type = TypeOf(l)

TypesInv == RangesInv /\ PageTypesInv

LEMMA RangeFields ==
    \A x : /\ RangeOf(x).valid = x.valid /\ RangeOf(x).base = x.base /\ RangeOf(x).type = x.type
           /\ RangeOf(x).size = IF x.mask = 0 THEN 0 ELSE Size(x.mask)
  BY DEF RangeOf

LEMMA InitTypes == ASSUME Init PROVE TypesInv
  BY DEF Init, TypesInv, RangesInv, PageTypesInv, Read, Built

\* A step that reads no register.
LEMMA RangesStay ==
    ASSUME RangesInv, UNCHANGED <<registers, mtrrs>>, Read' = Read
    PROVE  RangesInv'
  BY DEF RangesInv, RangeOf, EmptyMtrr

LEMMA TypeOfStays ==
    ASSUME UNCHANGED mtrrs PROVE \A l : TypeOf(l)' = TypeOf(l)
  BY DEF TypeOf, Touches

LEMMA ReadMtrrTypes == ASSUME EptInv, TypesInv, ReadMtrr PROVE TypesInv'
<1>1. /\ pc = "mtrrs" /\ pc' = pc /\ i' = i + 1 /\ i =< Len(registers)
      /\ mtrrs' = [mtrrs EXCEPT ![i] = RangeOf(registers[i])] /\ registers' = registers
  BY DEF ReadMtrr, RangeOf, environment
<1>2. i \in Nat /\ i \in 1 .. MtrrCount
  <2>1. registers \in Seq(Registers) /\ Len(registers) =< MtrrCount
    BY MtrrAssumption DEF EptInv, MtrrInv
  <2>2. QED
    BY <1>1, <2>1, MtrrAssumption DEF EptInv, ControlInv
<1>3. Read = 1 .. i - 1 /\ Read' = 1 .. i
  BY <1>1, <1>2 DEF Read
<1>4. \A r \in 1 .. MtrrCount : mtrrs'[r] = IF r = i THEN RangeOf(registers[i]) ELSE mtrrs[r]
  BY <1>1, <1>2 DEF EptInv, MtrrInv
<1>5. \A r \in 1 .. MtrrCount : r # i => (r \in Read' <=> r \in Read)
  BY <1>2, <1>3
<1>6. i \in Read'
  BY <1>2, <1>3
<1>7. \A r : RangeOf(r)' = RangeOf(r)
  BY DEF RangeOf
<1>8. ASSUME NEW r \in 1 .. MtrrCount
      PROVE  mtrrs'[r] = IF r \in Read' THEN RangeOf(registers'[r]) ELSE EmptyMtrr
  BY <1>1, <1>4, <1>5, <1>6 DEF TypesInv, RangesInv
<1>9. RangesInv'
  BY <1>8 DEF RangesInv, RangeOf, EmptyMtrr
<1>10. PageTypesInv'
  BY <1>1 DEF PageTypesInv, Built
<1>11. QED
  BY <1>9, <1>10 DEF TypesInv

\* Writing access bits leaves the types alone.
LEMMA AccessTypes ==
    ASSUME EptInv, Built, PageTypesInv, NEW k \in Tables, NEW o \in Offsets, NEW bit \in {0, 1},
           ept' = WithAccess(k, o, bit), UNCHANGED <<physical, epd, mtrrs>>
    PROVE  PageTypesInv'
<1>1. ept \in [Tables -> [Offsets -> Entries]]
  BY DEF EptInv, ControlInv
<1>2. ASSUME NEW m \in Tables, NEW n \in Offsets PROVE ept'[m][n].type = ept[m][n].type
  <2>1. CASE m = k /\ n = o
    BY <1>1, <2>1, WrittenAccess
  <2>2. CASE ~(m = k /\ n = o)
    BY <1>1, <2>2, WrittenAccess
  <2>3. QED
    BY <2>1, <2>2
<1>3. \A l : TypeOf(l)' = TypeOf(l) /\ TableOf(l)' = TableOf(l)
  BY TypeOfStays DEF TableOf, TableAt
<1>4. ASSUME NEW l \in Large
      PROVE  /\ epd'[l].large = 1 => epd'[l].type = TypeOf(l)'
             /\ epd'[l].large = 0 => \A n \in Offsets : ept'[TableOf(l)'][n].type = TypeOf(l)'
  <2>1. epd[l].large = 0 => TableOf(l) \in Tables
    BY OwnTable DEF SplitPages
  <2>2. QED
    BY <1>2, <1>3, <2>1 DEF PageTypesInv
<1>5. QED
  BY <1>4 DEF PageTypesInv

\* The table a large page is split into has its type.
LEMMA SplittingTypes ==
    ASSUME EptInv, PageTypesInv, ProtectSplitting PROVE PageTypesInv'
<1> SUFFICES ASSUME NEW l, NEW k, NEW q, l = physical[i].large, k = ept_index,
                    q = physical[EptPage(k)]
             PROVE  PageTypesInv'
  OBVIOUS
<1>1. /\ pc = "protect" /\ l \in Large /\ IsLargeEntry(l) /\ k \in Tables
      /\ epd' = [epd EXCEPT ![l] = [access |-> 1, large |-> 0, type |-> Uncacheable, page |-> q]]
      /\ UNCHANGED <<physical, registers, mtrrs, module_physical_to_virtual>>
  BY SplitStep
<1>2. Built /\ TableAt(q) = k /\ epd \in [Large -> Entries]
  BY <1>1, TableIsFound DEF Built, EptInv, ControlInv
<1>3. /\ \A m \in Tables : m # k => ept'[m] = ept[m]
      /\ \A o \in Offsets : ept'[k][o].type = epd[l].type
  BY SplitTables
<1>4. \A m : TypeOf(m)' = TypeOf(m) /\ TableAt(m)' = TableAt(m)
  BY <1>1, TypeOfStays DEF TableAt
<1>5. epd'[l].large = 0 /\ epd'[l].page = q /\ \A m \in Large \ {l} : epd'[m] = epd[m]
  BY <1>1, <1>2
<1>6. ASSUME NEW m \in Large
      PROVE  /\ epd'[m].large = 1 => epd'[m].type = TypeOf(m)'
             /\ epd'[m].large = 0 => \A o \in Offsets : ept'[TableOf(m)'][o].type = TypeOf(m)'
  <2>1. CASE m = l
    <3>1. TableOf(l)' = k
      BY <1>2, <1>4, <1>5 DEF TableOf
    <3>2. epd[l].type = TypeOf(l)
      BY <1>1, <1>2 DEF IsLargeEntry, PageTypesInv
    <3>3. QED
      BY <1>3, <1>4, <1>5, <2>1, <3>1, <3>2
  <2>2. CASE m # l
    <3>1. epd'[m] = epd[m] /\ TableOf(m)' = TableOf(m)
      BY <1>4, <1>5, <2>2 DEF TableOf
    <3>2. ASSUME epd[m].large = 0 PROVE ept'[TableOf(m)] = ept[TableOf(m)]
      <4>1. m \in SplitPages
        BY <3>2 DEF SplitPages
      <4>2. TableOf(m) \in Tables /\ TableOf(m) < k
        BY <1>2, <4>1, OwnTable
      <4>3. TableOf(m) # k
        BY <1>1, <4>2, EptAssumption DEF Tables
      <4>4. QED
        BY <1>3, <4>2, <4>3
    <3>3. QED
      BY <1>2, <1>4, <3>1, <3>2 DEF PageTypesInv
  <2>3. QED
    BY <2>1, <2>2
<1>7. QED
  BY <1>6 DEF PageTypesInv

LEMMA NextTypes == ASSUME EptInv, TypesInv, [Next]_vars PROVE TypesInv'
<1> USE DEF environment, TypesInv
<1>1. CASE InitializeModulePhysicalToVirtual
  <2>1. /\ pc = "p2v" /\ i' = 1 /\ pc' \in {"mtrrs", "capacity_error"}
        /\ UNCHANGED <<registers, mtrrs>>
    BY <1>1 DEF InitializeModulePhysicalToVirtual, EptInv, ControlInv
  <2>2. Read' = Read /\ ~Built'
    BY <2>1 DEF Read, Built
  <2>3. QED
    BY <2>1, <2>2, RangesStay DEF PageTypesInv
<1>2. CASE ReadMtrr
  BY <1>2, ReadMtrrTypes
<1>3. CASE MtrrsRead
  <2>1. /\ pc = "mtrrs" /\ pc' = "ept" /\ i = Len(registers) + 1
        /\ UNCHANGED <<registers, mtrrs>>
    BY <1>3 DEF MtrrsRead
  <2>2. registers \in Seq(Registers)
    BY MtrrAssumption DEF EptInv, MtrrInv
  <2>3. i - 1 = Len(registers)
    BY <2>1, <2>2
  <2>4. Read' = Read /\ ~Built'
    BY <2>1, <2>3 DEF Read, Built
  <2>5. QED
    BY <2>1, <2>4, RangesStay DEF PageTypesInv
<1>4. CASE InitializeEpt
  <2>1. /\ pc = "ept" /\ pc' = "protect" /\ UNCHANGED <<registers, mtrrs>>
        /\ \A l \in Large : epd'[l].large = 1 /\ epd'[l].type = TypeOf(l)
    BY <1>4 DEF InitializeEpt
  <2>2. Read' = Read
    BY <2>1 DEF Read
  <2>3. PageTypesInv'
    BY <2>1, TypeOfStays DEF PageTypesInv
  <2>4. QED
    BY <2>1, <2>2, <2>3, RangesStay
<1>5. CASE ProtectInTable
  <2>1. /\ pc = "protect" /\ pc' = pc /\ i < ModulePages /\ epd[physical[i].large].large = 0
        /\ UNCHANGED <<physical, registers, epd, mtrrs>>
        /\ ept' = WithAccess(Find(epd[physical[i].large].page) - EptFirst, physical[i].offset, 0)
    BY <1>5 DEF ProtectInTable, WithAccess
  <2>2. i \in Module
    BY <2>1, SizeAssumption DEF EptInv, ControlInv, Module
  <2>3. physical[i].large \in SplitPages /\ physical[i].offset \in Offsets /\ Built
    BY <2>1, <2>2, PlaceOfPage DEF SplitPages, EptInv, Built
  <2>4. PageTypesInv'
    BY <2>1, <2>3, OwnTable, AccessTypes
  <2>5. Read' = Read
    BY <2>1 DEF Read
  <2>6. QED
    BY <2>1, <2>4, <2>5, RangesStay
<1>6. CASE ProtectSplitting
  <2>1. UNCHANGED <<registers, mtrrs>> /\ pc = "protect" /\ pc' \in {"protect", "ept_error"}
    BY <1>6, SplitStep
  <2>2. Read' = Read
    BY <2>1 DEF Read
  <2>3. QED
    BY <1>6, <2>1, <2>2, RangesStay, SplittingTypes
<1>7. CASE UnprotectPage
  <2>1. /\ pc = "unprotect" /\ pc' = pc /\ i < FirstUnprotected + UnprotectedPages
        /\ UNCHANGED <<physical, registers, epd, mtrrs>>
        /\ ept' = WithAccess(Find(epd[physical[i].large].page) - EptFirst, physical[i].offset, 1)
    BY <1>7 DEF UnprotectPage, WithAccess
  <2>2. i \in Module /\ Built /\ Walked = Module
    BY <2>1, SizeAssumption, UnprotectedAssumption
       DEF EptInv, ControlInv, Module, Built, Walked
  <2>3. physical[i].large \in SplitPages /\ physical[i].offset \in Offsets
    BY <2>2, PlaceOfPage DEF EptInv, SplitInv
  <2>4. PageTypesInv'
    BY <2>1, <2>2, <2>3, OwnTable, AccessTypes
  <2>5. Read' = Read
    BY <2>1 DEF Read
  <2>6. QED
    BY <2>1, <2>4, <2>5, RangesStay
<1>8. ASSUME \/ ModuleProtected
             \/ MemoryUnprotected
             \/ UNCHANGED vars
      PROVE  TypesInv'
  <2>1. UNCHANGED <<physical, registers, mtrrs, epd, ept>> /\ Built' = Built /\ Read' = Read
    BY <1>8 DEF ModuleProtected, MemoryUnprotected, vars, Built, Read
  <2>2. \A l : TypeOf(l)' = TypeOf(l) /\ TableOf(l)' = TableOf(l)
    BY <2>1, TypeOfStays DEF TableOf, TableAt
  <2>3. PageTypesInv'
    BY <2>1, <2>2 DEF PageTypesInv
  <2>4. QED
    BY <2>1, <2>3, RangesStay
<1>9. QED
  BY <1>1, <1>2, <1>3, <1>4, <1>5, <1>6, <1>7, <1>8 DEF Next, Finished

\* Through every step the ranges are those of the registers that have been read, and
\* each page has the type initialize_ept took from the ranges, split or not.
THEOREM TypesInvariance == Spec => [](EptInv /\ TypesInv)
<1>1. Init => TypesInv
  BY InitTypes
<1>2. EptInv /\ TypesInv /\ [Next]_vars => TypesInv'
  BY NextTypes
<1>3. QED
  BY <1>1, <1>2, EptInvariance, PTL DEF Spec

-----------------------------------------------------------------------------
(***************************************************************************)
(* A range touches a large page exactly if its register covers a page of   *)
(* it: the range of a valid register is the pages that agree with the base *)
(* where the mask has ones.                                                *)
(***************************************************************************)

LEMMA Division ==
    ASSUME NEW a \in Nat, NEW p \in Nat \ {0}
    PROVE  a % p \in 0 .. p - 1 /\ \E q \in Nat : a = p * q + (a % p)
<1>1. a = p * (a \div p) + (a % p) /\ a \div p \in Nat /\ a % p \in 0 .. p - 1
  OBVIOUS
<1>2. QED
  BY <1>1

\* The numbers that agree with a multiple of p but for the remainder.
LEMMA Aligned ==
    ASSUME NEW p \in Nat \ {0}, NEW b \in Nat, b % p = 0, NEW x \in Nat
    PROVE  x - (x % p) = b <=> b =< x /\ x < b + p
<1>1. x % p \in 0 .. p - 1
  BY Division
<1>2. ASSUME b =< x, x < b + p PROVE x % p = x - b
  <2>1. PICK q \in Nat : b = p * q
    <3>1. PICK q \in Nat : b = p * q + (b % p)
      BY Division
    <3>2. b = p * q
      BY <3>1
    <3>3. QED
      BY <3>2
  <2>2. PICK n \in Nat : x = p * n + (x % p)
    BY Division
  <2>3. CASE n > q
    <3>1. p * n >= p * (q + 1)
      BY <2>3
    <3>2. p * (q + 1) = p * q + p
      OBVIOUS
    <3>3. QED
      BY <1>1, <1>2, <2>1, <2>2, <3>1, <3>2
  <2>4. CASE n < q
    <3>1. p * (n + 1) =< p * q
      BY <2>4
    <3>2. p * (n + 1) = p * n + p
      OBVIOUS
    <3>3. QED
      BY <1>1, <1>2, <2>1, <2>2, <3>1, <3>2
  <2>5. QED
    BY <1>1, <2>1, <2>2, <2>3, <2>4
<1>3. QED
  BY <1>1, <1>2

\* The range of a valid register: its size is a power, and it ends in physical memory.
LEMMA ValidRange ==
    ASSUME EptInv, NEW r \in 1 .. Len(registers), registers[r].valid = 1
    PROVE  \E p \in Nat \ {0} :
               /\ RangeOf(registers[r]).size = p
               /\ Power[PageBits] - registers[r].mask = p
               /\ registers[r].base \in Nat /\ registers[r].base % p = 0
               /\ registers[r].base + p =< Power[PageBits]
<1> DEFINE b == registers[r].base
           m == registers[r].mask
           P == Power[PageBits]
<1>1. registers \in MtrrSettings /\ registers \in Seq(Registers)
  BY MtrrAssumption DEF EptInv, MtrrInv
<1>2. PageBits \in Nat /\ P \in Nat /\ b \in Numbers
  <2>1. registers[r] \in Registers
    BY <1>1
  <2>2. b \in Numbers
    BY <2>1 DEF Registers
  <2>3. QED
    BY <2>2, MtrrAssumption, Powers
<1>3. b \in Nat /\ b < P
  BY <1>2 DEF Numbers
<1>4. PICK k \in 0 .. PageBits - 1 : m = P - Power[k] /\ b % Power[k] = 0
  BY <1>1, RangeAssumption
<1>5. k \in Nat /\ k < PageBits /\ k \in 0 .. PageBits
  BY <1>2, <1>4
<1>6. PICK p \in Nat \ {0} : p = Power[k]
  <2>1. Power[k] \in Nat \ {0}
    BY <1>5, Powers
  <2>2. QED
    BY <2>1
<1>7. m # 0 /\ Size(m) = p
  BY <1>4, <1>6, SizeOfMask
<1>8. RangeOf(registers[r]).size = p /\ P - m = p
  BY <1>2, <1>4, <1>6, <1>7 DEF RangeOf
<1>9. b + p =< P
  <2>1. PICK n \in Nat : P = p * n
    <3>1. PICK q \in Nat \ {0} : P = Power[k] * (2 * q)
      BY <1>5, EvenMultiple
    <3>2. QED
      BY <1>6, <3>1
  <2>2. PICK q \in Nat : b = p * q
    <3>1. PICK q \in Nat : b = p * q + (b % p)
      BY <1>3, <1>6, Division
    <3>2. b = p * q
      BY <1>3, <1>4, <1>6, <3>1
    <3>3. QED
      BY <3>2
  <2>3. q < n
    <3>1. ASSUME n =< q PROVE FALSE
      <4>1. p * n =< p * q
        BY <3>1
      <4>2. QED
        BY <1>2, <1>3, <2>1, <2>2, <4>1
    <3>2. QED
      BY <3>1
  <2>4. p * (q + 1) =< p * n /\ p * (q + 1) = p * q + p
    BY <2>3
  <2>5. QED
    BY <1>2, <1>3, <2>1, <2>2, <2>4
<1>10. QED
  BY <1>3, <1>4, <1>6, <1>8, <1>9

\* initialize_ept asks what the processor's rule asks.
LEMMA TouchesIffCovers ==
    ASSUME EptInv, NEW r \in 1 .. Len(registers), NEW l \in Large
    PROVE  Touches(RangeOf(registers[r]), l) <=> Covers(r, l)
<1>1. CASE registers[r].valid # 1
  BY <1>1 DEF Touches, RangeOf, Covers
<1>2. CASE registers[r].valid = 1
  <2> DEFINE b == registers[r].base
             m == registers[r].mask
             P == Power[PageBits]
  <2>1. PICK p \in Nat \ {0} : /\ RangeOf(registers[r]).size = p /\ P - m = p
                               /\ b \in Nat /\ b % p = 0 /\ b + p =< P
    BY <1>2, ValidRange
  <2>2. PICK n \in Nat : n = l * PagesPerLarge
    BY SizeAssumption DEF Large
  <2>3. PagesPerLarge \in Nat \ {0} /\ P \in Nat
    BY SizeAssumption, MtrrAssumption, Powers
  <2>4. Touches(RangeOf(registers[r]), l) <=> n + (PagesPerLarge - 1) >= b /\ n < b + p
    BY <1>2, <2>1, <2>2 DEF Touches, RangeOf
  <2>5. ASSUME NEW o \in Offsets
        PROVE  (n + o \in Numbers /\ Masked(n + o, m) = Masked(b, m))
                  <=> b =< n + o /\ n + o < b + p
    <3>1. n + o \in Nat
      BY <2>2, <2>3 DEF Offsets
    <3>2. Masked(n + o, m) = (n + o) - ((n + o) % p) /\ Masked(b, m) = b
      BY <2>1 DEF Masked
    <3>3. n + o < b + p => n + o \in Numbers
      BY <2>1, <2>3, <3>1 DEF Numbers
    <3>4. (n + o) - ((n + o) % p) = b <=> b =< n + o /\ n + o < b + p
      BY <2>1, <3>1, Aligned
    <3>5. QED
      BY <3>2, <3>3, <3>4
  <2>6. Covers(r, l) <=> \E o \in Offsets : b =< n + o /\ n + o < b + p
    BY <1>2, <2>2, <2>5 DEF Covers
  <2>7. ASSUME n + (PagesPerLarge - 1) >= b, n < b + p
        PROVE  \E o \in Offsets : b =< n + o /\ n + o < b + p
    <3>1. CASE b =< n
      <4>1. 0 \in Offsets /\ b =< n + 0 /\ n + 0 < b + p
        BY <2>1, <2>2, <2>3, <2>7, <3>1 DEF Offsets
      <4>2. QED
        BY <4>1
    <3>2. CASE b > n
      <4>1. b - n \in Offsets /\ b =< n + (b - n) /\ n + (b - n) < b + p
        BY <2>1, <2>2, <2>3, <2>7, <3>2 DEF Offsets
      <4>2. QED
        BY <4>1
    <3>3. QED
      BY <2>1, <2>2, <3>1, <3>2
  <2>8. ASSUME NEW o \in Offsets, b =< n + o, n + o < b + p
        PROVE  n + (PagesPerLarge - 1) >= b /\ n < b + p
    <3>1. o \in Nat /\ o =< PagesPerLarge - 1
      BY <2>3 DEF Offsets
    <3>2. b \in Nat /\ p \in Nat /\ n \in Nat /\ PagesPerLarge \in Nat
      BY <2>1, <2>3
    <3> HIDE DEF b
    <3>3. n + (PagesPerLarge - 1) >= b
      BY <2>8, <3>1, <3>2
    <3>4. n < b + p
      BY <2>8, <3>1, <3>2
    <3>5. QED
      BY <3>3, <3>4
  <2>9. QED
    BY <2>4, <2>6, <2>7, <2>8
<1>3. QED
  BY <1>1, <1>2

\* So the type initialize_ept takes is that of the first register that covers a page.
LEMMA TypeOfIsCovering ==
    ASSUME EptInv, RangesInv, Built, NEW l \in Large
    PROVE  LET covering == {r \in DOMAIN registers : Covers(r, l)}
           IN  TypeOf(l) = IF covering = {} THEN WriteBack
                           ELSE registers[CHOOSE r \in covering : \A q \in covering : r =< q].type
<1> DEFINE covering == {r \in DOMAIN registers : Covers(r, l)}
           touching == {r \in DOMAIN mtrrs : Touches(mtrrs[r], l)}
<1>1. /\ DOMAIN registers = 1 .. Len(registers) /\ Len(registers) \in Nat
      /\ Len(registers) =< MtrrCount
  BY MtrrAssumption DEF EptInv, MtrrInv
<1>2. DOMAIN mtrrs = 1 .. MtrrCount
  BY DEF EptInv, MtrrInv
<1>3. Read = 1 .. Len(registers) /\ Read \subseteq 1 .. MtrrCount
  BY <1>1, MtrrAssumption DEF Read, Built
<1>4. \A r \in Read : mtrrs[r] = RangeOf(registers[r])
  BY <1>3 DEF RangesInv
<1>5. \A r \in 1 .. MtrrCount : r \notin Read => ~Touches(mtrrs[r], l)
  BY DEF RangesInv, EmptyMtrr, Touches
<1>6. \A r \in Read : Touches(mtrrs[r], l) <=> Covers(r, l)
  BY <1>3, <1>4, TouchesIffCovers
<1>7. touching = covering
  BY <1>1, <1>2, <1>3, <1>5, <1>6
<1>8. covering \subseteq Read /\ covering \subseteq Nat
  BY <1>1, <1>3
<1>9. TypeOf(l) = IF touching = {} THEN WriteBack
                  ELSE mtrrs[CHOOSE r \in touching : \A q \in touching : r =< q].type
  BY DEF TypeOf
<1> HIDE DEF covering, touching
<1>10. ASSUME covering # {}
       PROVE  (CHOOSE r \in covering : \A q \in covering : r =< q) \in covering
  <2>1. \E r \in covering : \A q \in covering : r =< q
    BY <1>8, <1>10, LeastNumber
  <2>2. QED
    BY <2>1
<1>11. \A r \in covering : mtrrs[r].type = registers[r].type
  BY <1>4, <1>8, RangeFields
<1>12. TypeOf(l) = IF covering = {} THEN WriteBack
                   ELSE registers[CHOOSE r \in covering : \A q \in covering : r =< q].type
  BY <1>7, <1>9, <1>10, <1>11
<1>13. QED
  BY <1>12 DEF covering

LEMMA EntryType ==
    ASSUME EptInv, TypesInv, Built, NEW p \in Pages
    PROVE  Entry(p).type = TypeOf(p.large)
<1>1. p.large \in Large /\ p.offset \in Offsets
  BY DEF Pages
<1>2. epd[p.large] \in Entries /\ epd[p.large].large \in {0, 1}
  BY <1>1 DEF EptInv, ControlInv, Entries
<1>3. CASE epd[p.large].large = 1
  <2> DEFINE e == epd[p.large]
  <2>1. Entry(p) = [e EXCEPT !.page = [large |-> e.page.large, offset |-> p.offset]]
    BY <1>3 DEF Entry
  <2>2. e.type = TypeOf(p.large) /\ e \in Entries
    BY <1>1, <1>2, <1>3 DEF TypesInv, PageTypesInv
  <2> HIDE DEF e
  <2>3. QED
    BY <2>1, <2>2 DEF Entries
<1>4. CASE epd[p.large].large = 0
  BY <1>1, <1>4 DEF Entry, TableOf, TypesInv, PageTypesInv
<1>5. QED
  BY <1>2, <1>3, <1>4

LEMMA InvTypes == ASSUME EptInv, TypesInv PROVE TypesFollowMtrrs
<1>1. ASSUME NEW r \in 1 .. MtrrCount PROVE mtrrs[r].size \in 0 .. Power[PageBits]
  <2>1. Power[PageBits] \in Nat /\ Numbers = 0 .. Power[PageBits] - 1
    BY MtrrAssumption, Powers DEF Numbers
  <2>2. CASE r \in Read
    <3>1. registers \in Seq(Registers) /\ r \in 1 .. Len(registers)
      <4>1. registers \in Seq(Registers)
        BY MtrrAssumption DEF EptInv, MtrrInv
      <4>2. QED
        BY <2>2, <4>1 DEF Read, EptInv, ControlInv
    <3>2. registers[r].mask \in Numbers
      <4>1. registers[r] \in Registers
        BY <3>1
      <4>2. QED
        BY <4>1 DEF Registers
    <3>3. mtrrs[r].size = IF registers[r].mask = 0 THEN 0 ELSE Size(registers[r].mask)
      BY <2>2, RangeFields DEF TypesInv, RangesInv
    <3>4. registers[r].mask # 0 => Size(registers[r].mask) \in 1 .. registers[r].mask
      BY <3>2, SizeBound
    <3>5. QED
      BY <2>1, <3>2, <3>3, <3>4
  <2>3. CASE r \notin Read
    BY <2>1, <2>3 DEF TypesInv, RangesInv, EmptyMtrr
  <2>4. QED
    BY <2>2, <2>3
<1>2. ASSUME Built, NEW p \in Pages
      PROVE  LET covering == {r \in DOMAIN registers : Covers(r, p.large)}
             IN  Entry(p).type = IF covering = {} THEN WriteBack
                     ELSE registers[CHOOSE r \in covering : \A q \in covering : r =< q].type
  <2>1. p.large \in Large
    BY DEF Pages
  <2>2. QED
    BY <1>2, <2>1, EntryType, TypeOfIsCovering DEF TypesInv
<1>3. QED
  BY <1>1, <1>2 DEF TypesFollowMtrrs

\* The memory type the guests use for a page, through initialize_mtrrs, initialize_ept
\* and every split, is that of the first register that covers a page of its large page
\* by the processor's rule, and write back where there is none.
THEOREM GuestTypesFollowMtrrs == Spec => []TypesFollowMtrrs
<1>1. EptInv /\ TypesInv => TypesFollowMtrrs
  BY InvTypes
<1>2. QED
  BY <1>1, TypesInvariance, PTL

-----------------------------------------------------------------------------
(***************************************************************************)
(* What a step may not do.                                                 *)
(***************************************************************************)

\* Once the EPT is built a step changes the access of the page it is at, and nothing
\* else the processor finds for any page, although a split replaces one entry by a whole
\* table; and what cannot be accessed is opened by unprotect_guest_memory alone.
OnlyThisPage ==
    Built => /\ Built'
             /\ \A p \in Pages :
                   /\ Entry(p).page' = Entry(p).page /\ Entry(p).type' = Entry(p).type
                   /\ Entry(p).access' # Entry(p).access =>
                         /\ p = physical[i]
                         /\ Entry(p).access = 0 => UnprotectPage /\ i \in Unprotected

\* What the processor finds for a page is a function of the pages that are hidden.
LEMMA WhatIsFound ==
    EptInv /\ TypesInv /\ Built =>
        \A p \in Pages : /\ Entry(p).page = p /\ Entry(p).type = TypeOf(p.large)
                         /\ Entry(p).access = IF \E v \in Hidden : physical[v] = p THEN 0 ELSE 1
<1> SUFFICES ASSUME EptInv, TypesInv, Built, NEW p \in Pages
             PROVE  /\ Entry(p).page = p /\ Entry(p).type = TypeOf(p.large)
                    /\ Entry(p).access = IF \E v \in Hidden : physical[v] = p THEN 0 ELSE 1
  OBVIOUS
<1>1. p.large \in Large /\ p.offset \in Offsets
  BY DEF Pages
<1>2. Entry(p).access \in {0, 1}
  <2>1. CASE epd[p.large].large = 1
    <3> DEFINE e == epd[p.large]
    <3>1. Entry(p) = [e EXCEPT !.page = [large |-> e.page.large, offset |-> p.offset]]
      BY <2>1 DEF Entry
    <3>2. e \in Entries
      BY <1>1 DEF EptInv, ControlInv
    <3> HIDE DEF e
    <3>3. QED
      BY <3>1, <3>2 DEF Entries
  <2>2. CASE epd[p.large].large = 0
    <3>1. TableOf(p.large) \in Tables
      BY <1>1, <2>2, OwnTable DEF SplitPages
    <3>2. ept[TableOf(p.large)][p.offset] \in Entries
      BY <1>1, <3>1 DEF EptInv, ControlInv
    <3>3. QED
      BY <2>2, <3>2 DEF Entry, TableOf, Entries
  <2>3. QED
    BY <1>1, <2>1, <2>2 DEF EptInv, ControlInv, Entries
<1>3. ASSUME NEW v \in Hidden, physical[v] = p PROVE epd[p.large].large = 0
  <2>1. v \in Walked
    BY SizeAssumption, UnprotectedAssumption
       DEF Hidden, Walked, EptInv, ControlInv, Built, Module, Unprotected
  <2>2. p.large \in SplitPages
    BY <1>3, <2>1 DEF EptInv, SplitInv
  <2>3. QED
    BY <2>2 DEF SplitPages
<1>4. Entry(p).page = p /\ (Entry(p).access = 0 <=> \E v \in Hidden : physical[v] = p)
  BY <1>3, InvEntry
<1>5. QED
  BY <1>2, <1>4, EntryType

\* The pages that are hidden before a step and after it.
LEMMA HiddenChange ==
    ASSUME EptInv, Built, Next
    PROVE  /\ Built' /\ UNCHANGED <<physical, mtrrs>>
           /\ \A v : ~(v \in Hidden <=> v \in Hidden')
                        => v = i /\ (v \in Hidden => UnprotectPage /\ i \in Unprotected)
<1> USE DEF environment
<1>1. CASE ProtectInTable
  <2>1. /\ pc = "protect" /\ pc' = pc /\ i' = i + 1 /\ UNCHANGED <<physical, mtrrs>>
        /\ i \in 0 .. ModulePages
    BY <1>1 DEF ProtectInTable, EptInv, ControlInv
  <2>2. Hidden = 0 .. i - 1 /\ Hidden' = 0 .. i /\ Built'
    BY <2>1, SizeAssumption DEF Hidden, Built
  <2>3. i \notin Hidden /\ \A v : v # i => (v \in Hidden <=> v \in Hidden')
    BY <2>1, <2>2, SizeAssumption
  <2>4. QED
    BY <2>1, <2>2, <2>3, Zenon
<1>2. CASE ProtectSplitting
  <2>1. /\ pc = "protect" /\ UNCHANGED <<physical, mtrrs>> /\ i \in 0 .. ModulePages - 1
        /\ (pc' = "protect" /\ i' = i + 1) \/ (pc' = "ept_error" /\ i' = i)
    BY <1>2, SplitStep
  <2>2. Hidden = 0 .. i - 1 /\ (Hidden' = 0 .. i \/ Hidden' = 0 .. i - 1) /\ Built'
    BY <2>1, SizeAssumption DEF Hidden, Built
  <2>3. i \notin Hidden /\ \A v : v # i => (v \in Hidden <=> v \in Hidden')
    BY <2>1, <2>2, SizeAssumption
  <2>4. QED
    BY <2>1, <2>2, <2>3, Zenon
<1>3. CASE ModuleProtected
  <2>1. /\ pc = "protect" /\ pc' = "unprotect" /\ i = ModulePages /\ i' = FirstUnprotected
        /\ UNCHANGED <<physical, mtrrs>>
    BY <1>3 DEF ModuleProtected
  <2>2. Hidden' = Hidden /\ Built'
    BY <2>1, SizeAssumption, UnprotectedAssumption DEF Hidden, Module, Built
  <2>3. QED
    BY <2>1, <2>2, Zenon
<1>4. CASE UnprotectPage
  <2>1. /\ pc = "unprotect" /\ pc' = pc /\ i' = i + 1 /\ UNCHANGED <<physical, mtrrs>>
        /\ i < FirstUnprotected + UnprotectedPages
        /\ i \in FirstUnprotected .. FirstUnprotected + UnprotectedPages
    BY <1>4 DEF UnprotectPage, EptInv, ControlInv
  <2>2. i \in Unprotected /\ i \in Nat
    BY <2>1, UnprotectedAssumption DEF Unprotected
  <2>3. /\ Hidden = Module \ (FirstUnprotected .. i - 1)
        /\ Hidden' = Module \ (FirstUnprotected .. i) /\ Built'
    BY <2>1, <2>2, UnprotectedAssumption DEF Hidden, Built
  <2>4. \A v \in Module : v # i => (v \in Hidden <=> v \in Hidden')
    BY <2>2, <2>3, SizeAssumption, UnprotectedAssumption DEF Module
  <2>5. \A v : v \notin Module => (v \in Hidden <=> v \in Hidden')
    BY <2>3
  <2>6. QED
    BY <1>4, <2>1, <2>2, <2>3, <2>4, <2>5
<1>5. CASE MemoryUnprotected
  <2>1. /\ pc = "unprotect" /\ pc' = "done" /\ i = FirstUnprotected + UnprotectedPages
        /\ UNCHANGED <<physical, mtrrs>>
    BY <1>5 DEF MemoryUnprotected
  <2>2. Hidden' = Hidden /\ Built'
    BY <2>1, UnprotectedAssumption DEF Hidden, Unprotected, Built
  <2>3. QED
    BY <2>1, <2>2, Zenon
<1>6. CASE Finished
  <2>1. UNCHANGED <<pc, i, physical, mtrrs>>
    BY <1>6 DEF Finished, vars
  <2>2. Hidden' = Hidden /\ Built'
    BY <2>1 DEF Hidden, Built
  <2>3. QED
    BY <2>1, <2>2, Zenon
<1>7. ~InitializeModulePhysicalToVirtual /\ ~ReadMtrr /\ ~MtrrsRead /\ ~InitializeEpt
  BY DEF Built, InitializeModulePhysicalToVirtual, ReadMtrr, MtrrsRead, InitializeEpt
<1>8. QED
  BY <1>1, <1>2, <1>3, <1>4, <1>5, <1>6, <1>7 DEF Next

\* Once the EPT is built no step changes what the processor finds for a page but for the
\* access of the page protect_module or unprotect_guest_memory is at.
THEOREM StepsAreLocal == Spec => [][OnlyThisPage]_vars
<1>1. (EptInv /\ TypesInv /\ Built =>
          \A p \in Pages : /\ Entry(p).page = p /\ Entry(p).type = TypeOf(p.large)
                           /\ Entry(p).access = IF \E v \in Hidden : physical[v] = p
                                                THEN 0 ELSE 1)'
  BY WhatIsFound, PTL
<1>2. ASSUME EptInv, TypesInv, EptInv', TypesInv', [Next]_vars PROVE [OnlyThisPage]_vars
  <2>1. SUFFICES ASSUME Next, Built PROVE OnlyThisPage
    BY <1>2 DEF OnlyThisPage
  <2>2. /\ Built' /\ UNCHANGED <<physical, mtrrs>>
        /\ \A v : ~(v \in Hidden <=> v \in Hidden')
                     => v = i /\ (v \in Hidden => UnprotectPage /\ i \in Unprotected)
    BY <1>2, <2>1, HiddenChange
  <2>3. ASSUME NEW p \in Pages
        PROVE  /\ Entry(p).page' = Entry(p).page /\ Entry(p).type' = Entry(p).type
               /\ Entry(p).access' # Entry(p).access =>
                     /\ p = physical[i]
                     /\ Entry(p).access = 0 => UnprotectPage /\ i \in Unprotected
    <3>1. /\ Entry(p).page = p /\ Entry(p).type = TypeOf(p.large)
          /\ Entry(p).access = IF \E v \in Hidden : physical[v] = p THEN 0 ELSE 1
      BY <1>2, <2>1, WhatIsFound
    <3>2. /\ Entry(p).page' = p /\ Entry(p).type' = TypeOf(p.large)'
          /\ Entry(p).access' = IF \E v \in Hidden' : physical'[v] = p THEN 0 ELSE 1
      BY <1>1, <1>2, <2>2
    <3>3. TypeOf(p.large)' = TypeOf(p.large)
      BY <2>2, TypeOfStays
    <3>4. ASSUME NEW v, physical[v] = p, ~(v \in Hidden <=> v \in Hidden')
          PROVE  p = physical[i] /\ (v \in Hidden => UnprotectPage /\ i \in Unprotected)
      BY <2>2, <3>4
    <3>5. ASSUME Entry(p).access' # Entry(p).access
          PROVE  /\ p = physical[i]
                 /\ Entry(p).access = 0 => UnprotectPage /\ i \in Unprotected
      <4>1. CASE \E v \in Hidden : physical[v] = p
        <5>1. PICK v \in Hidden : physical[v] = p
          BY <4>1
        <5>2. v \notin Hidden'
          BY <2>2, <3>1, <3>2, <3>5, <5>1
        <5>3. QED
          BY <3>4, <5>1, <5>2
      <4>2. CASE ~\E v \in Hidden : physical[v] = p
        <5>1. Entry(p).access = 1 /\ \E v \in Hidden' : physical[v] = p
          BY <2>2, <3>1, <3>2, <3>5, <4>2
        <5>2. QED
          BY <3>4, <4>2, <5>1
      <4>3. QED
        BY <4>1, <4>2
    <3>6. QED
      BY <3>1, <3>2, <3>3, <3>5
  <2>4. QED
    BY <2>2, <2>3 DEF OnlyThisPage
<1>3. QED
  BY <1>2, TypesInvariance, PTL DEF Spec

============================================================================
