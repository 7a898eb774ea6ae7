-------------------------- MODULE PageTableProofs --------------------------
(***************************************************************************)
(* Proofs about PageTable, for every size of the tables and of the module, *)
(* wherever the module lies in virtual memory and whatever the page table  *)
(* of the operating system is; what concerns the pages the processor uses, *)
(* as long as the operating system maps the module with small pages.       *)
(*                                                                         *)
(* The tables of the object are shared by many addresses, and map_from     *)
(* goes over pages that map_self has mapped, whose translations it uses    *)
(* meanwhile.  The inductive invariant TablesInv says of each page mapped  *)
(* so far that every entry on the way to it is the one virtual_to_physical *)
(* gave; mapping another page cannot spoil it because the entries they     *)
(* share are the same, and two pages of a module of at most                *)
(* Fanout * Fanout pages never share the last one (SlotIsOwn).             *)
(***************************************************************************)
EXTENDS PageTable, TLAPS

\* The operating system maps the module with small pages.
OsUsesSmallPages == \A t \in OsPageTables : \A m \in Module : t[m].pages = 1

\* The entry for address a in the last table.
PtEntry(a) == pts[pd_index(a)][pde(a)][pte(a)]
OpenEntry(p) == [present |-> TRUE, write |-> TRUE, execute_disable |-> FALSE, page |-> p]

\* Every entry on the way to page m of the module is right.
IsMapped(m) ==
    LET a == base + m
    IN  /\ pml4[pml4e(a)] = TableEntry(OsTranslate(PdptPage))
        /\ pdpt[pdpte(a)] = TableEntry(OsTranslate(PdPage(pd_index(a))))
        /\ pds[pd_index(a)][pde(a)] = TableEntry(OsTranslate(PtPage(pd_index(a), pde(a))))
        /\ PtEntry(a).page = OsTranslate(m)

\* The pages map_self has mapped, and those map_from has.
TablePage(t) == FirstTable + t
SelfPages == IF pc = "map_self" THEN {TablePage(t) : t \in 0 .. i - 1}
             ELSE {TablePage(t) : t \in 0 .. TablePages - 1}
OpenPages == IF pc = "map_self" THEN {} ELSE IF pc = "map_from" THEN 0 .. i - 1 ELSE Module

EnvironmentInv ==
    /\ base \in Nat /\ physical_to_virtual \in BOOLEAN
    /\ os \in OsPageTables

ControlInv ==
    /\ pc \in {"map_self", "map_from", "done"}
    /\ pc = "map_self" => i \in 0 .. TablePages
    /\ pc = "map_from" => i \in 0 .. ModulePages
    /\ pc = "done" => host_cr3 = OsTranslate(Pml4Page)

PtEntries == [present : BOOLEAN, write : BOOLEAN, execute_disable : BOOLEAN, page : Nat]

ShapeInv ==
    /\ pml4 \in [Index -> PtEntries] /\ pdpt \in [Index -> PtEntries]
    /\ pds \in [Directories -> [Index -> PtEntries]]
    /\ pts \in [Directories -> [Index -> [Index -> PtEntries]]]

MappedInv ==
    /\ \A m \in SelfPages \cup OpenPages : IsMapped(m)
    /\ \A m \in OpenPages : PtEntry(base + m) = OpenEntry(OsTranslate(m))

ForeignInv ==
    \A d \in Directories, e, x \in Index : pts[d][e][x].present =>
        \E m \in Module : /\ pde(base + m) = e /\ pte(base + m) = x
                          /\ pts[d][e][x].page = OsTranslate(m)

TablesInv == EnvironmentInv /\ ControlInv /\ ShapeInv /\ MappedInv /\ ForeignInv

-----------------------------------------------------------------------------
(***************************************************************************)
(* The parts of an address.                                                *)
(***************************************************************************)

LEMMA Division ==
    ASSUME NEW a \in Nat, NEW f \in Nat \ {0}
    PROVE  \E q \in Nat, r \in 0 .. f - 1 : q = a \div f /\ r = a % f /\ a = f * q + r
<1>1. a \in Int /\ f \in Int /\ f > 0
  OBVIOUS
<1>2. PICK q \in Int, r \in Int : q = a \div f /\ r = a % f
  BY <1>1
<1>3. q >= 0 /\ r \in 0 .. f - 1
  BY <1>1, <1>2
<1>4. a = f * q + r
  BY <1>1, <1>2
<1>5. q \in Nat
  BY <1>3
<1>6. QED
  BY <1>2, <1>3, <1>4, <1>5, Zenon

\* Multiples of n that are less than n apart are equal.
LEMMA Apart ==
    ASSUME NEW n \in Nat \ {0}, NEW s \in Int, NEW t \in Int,
           n * s - n * t < n, n * t - n * s < n
    PROVE  s = t
<1>1. CASE s > t
  <2>1. PICK k \in Nat : s = t + 1 + k
    <3>1. s - t - 1 \in Nat
      BY <1>1
    <3>2. QED
      BY <3>1
  <2>2. n * s = n * t + n + n * k /\ n * k \in Nat
    BY <2>1
  <2>3. n * s \in Int /\ n * t \in Int
    OBVIOUS
  <2>4. QED
    BY <2>2, <2>3
<1>2. CASE t > s
  <2>1. PICK k \in Nat : t = s + 1 + k
    <3>1. t - s - 1 \in Nat
      BY <1>2
    <3>2. QED
      BY <3>1
  <2>2. n * t = n * s + n + n * k /\ n * k \in Nat
    BY <2>1
  <2>3. n * s \in Int /\ n * t \in Int
    OBVIOUS
  <2>4. QED
    BY <2>2, <2>3
<1>3. QED
  BY <1>1, <1>2

\* Two addresses less than Fanout * Fanout pages apart do not share the entry of
\* the last table.
LEMMA SlotIsOwn ==
    ASSUME NEW a \in Nat, NEW b \in Nat, pde(a) = pde(b), pte(a) = pte(b),
           a - b < Fanout * Fanout, b - a < Fanout * Fanout
    PROVE  a = b
<1>1. PICK f \in Nat \ {0} : f = Fanout
  BY FanoutAssumption
<1>2. PICK qa \in Nat, r \in 0 .. f - 1 : qa = a \div f /\ r = a % f /\ a = f * qa + r
  BY Division, Zenon
<1>3. PICK qb \in Nat, rb \in 0 .. f - 1 : qb = b \div f /\ rb = b % f /\ b = f * qb + rb
  BY Division, Zenon
<1>4. PICK sa \in Nat, t \in 0 .. f - 1 : sa = qa \div f /\ t = qa % f /\ qa = f * sa + t
  BY Division, Zenon
<1>5. PICK sb \in Nat, tb \in 0 .. f - 1 : sb = qb \div f /\ tb = qb % f /\ qb = f * sb + tb
  BY Division, Zenon
<1>6. rb = r /\ tb = t
  BY <1>1, <1>2, <1>3, <1>4, <1>5 DEF pde, pte
<1>7. PICK n \in Nat \ {0} : n = f * f
  OBVIOUS
<1>8. \A s \in Nat, u \in 0 .. f - 1 : f * (f * s + u) = n * s + f * u
  BY <1>7
<1>9. f * qa = n * sa + f * t /\ f * qb = n * sb + f * t
  BY <1>4, <1>5, <1>6, <1>8, ZenonT(40)
<1>10. PICK x \in Int, y \in Int, z \in Int : x = n * sa /\ y = n * sb /\ z = f * t
  OBVIOUS
<1>11. a = (x + z) + r /\ b = (y + z) + r
  BY <1>2, <1>3, <1>6, <1>9, <1>10
<1>12. a - b < n /\ b - a < n
  BY <1>1, <1>7
<1>13. x - y < n /\ y - x < n
  BY <1>11, <1>12
<1>14. sa = sb
  <2>1. sa \in Int /\ sb \in Int
    OBVIOUS
  <2>2. n * sa - n * sb < n /\ n * sb - n * sa < n
    BY <1>10, <1>13, Zenon
  <2>3. QED
    BY <2>1, <2>2, Apart, Zenon
<1>15. QED
  BY <1>10, <1>11, <1>14

\* The parts of an address are indices of the tables, and the first index of the
\* directories decides which of them serves it.
LEMMA Parts ==
    ASSUME NEW a \in Nat
    PROVE  /\ pml4e(a) \in Index /\ pdpte(a) \in Index /\ pde(a) \in Index /\ pte(a) \in Index
           /\ pd_index(a) \in Directories
<1>1. Fanout \in Nat \ {0} /\ Fanout * Fanout \in Nat \ {0}
      /\ Fanout * Fanout * Fanout \in Nat \ {0}
  BY FanoutAssumption
<1>2. \A b \in Nat, f \in Nat \ {0} : b \div f \in Nat /\ b % f \in 0 .. f - 1
  BY Division, Zenon
<1>3. pml4e(a) \in Index /\ pdpte(a) \in Index /\ pde(a) \in Index /\ pte(a) \in Index
  BY <1>1, <1>2 DEF pml4e, pdpte, pde, pte, Index
<1>4. PICK P \in Nat \ {0} : P = PageDirectories /\ Fanout % P = 0
  BY FanoutAssumption
<1>5. PICK g \in Nat, z \in 0 .. P - 1 : g = Fanout \div P /\ z = Fanout % P /\ Fanout = P * g + z
  BY <1>1, Division, Zenon
<1>6. Fanout = P * g /\ g # 0
  BY <1>1, <1>4, <1>5
<1>7. PICK x \in Nat : x = pdpte(a) /\ x < Fanout
  BY <1>1, <1>3 DEF Index
<1>8. PICK y \in Nat, r \in 0 .. g - 1 : y = x \div g /\ r = x % g /\ x = g * y + r
  <2>1. g \in Nat \ {0}
    BY <1>6
  <2>2. QED
    BY <2>1, Division, Zenon
<1>9. y < P
  <2>1. SUFFICES ASSUME y >= P PROVE FALSE
    OBVIOUS
  <2>2. PICK k \in Nat : y = P + k
    <3>1. y - P \in Nat
      BY <2>1
    <3>2. QED
      BY <3>1
  <2>3. PICK u \in Nat, v \in Nat : u = P * g /\ v = g * k
    OBVIOUS
  <2>4. g * y = u + v
    BY <2>2, <2>3
  <2>5. x = (u + v) + r /\ x < u
    BY <1>6, <1>7, <1>8, <2>3, <2>4
  <2>6. QED
    BY <2>5
<1>10. y \in Directories
  BY <1>4, <1>9 DEF Directories
<1>11. QED
  BY <1>3, <1>4, <1>5, <1>7, <1>8, <1>10 DEF pd_index

\* The tables are pages of the module.
LEMMA TablesInModule ==
    /\ \A t \in 0 .. TablePages - 1 : TablePage(t) \in Module
    /\ Pml4Page = TablePage(0) /\ 0 \in 0 .. TablePages - 1
    /\ PdptPage = TablePage(1) /\ 1 \in 0 .. TablePages - 1
    /\ \A d \in Directories : \E t \in 0 .. TablePages - 1 : PdPage(d) = TablePage(t)
    /\ \A d \in Directories, e \in Index :
           \E t \in 0 .. TablePages - 1 : PtPage(d, e) = TablePage(t)
    /\ TablePages \in Nat
<1>1. PICK f \in Nat \ {0}, p \in Nat \ {0} : f = Fanout /\ p = PageDirectories
  BY FanoutAssumption
<1>2. PICK n \in Nat : n = p * f
  OBVIOUS
<1>3. TablePages = 2 + p + n /\ TablePages \in Nat
  BY <1>1, <1>2 DEF TablePages
<1>4. \A t \in 0 .. TablePages - 1 : TablePage(t) \in Module
  BY <1>3, ModuleAssumption DEF TablePage, Module
<1>5. /\ Pml4Page = TablePage(0) /\ 0 \in 0 .. TablePages - 1
      /\ PdptPage = TablePage(1) /\ 1 \in 0 .. TablePages - 1
  BY <1>3, ModuleAssumption DEF TablePage, Pml4Page, PdptPage
<1>6. ASSUME NEW d \in Directories PROVE \E t \in 0 .. TablePages - 1 : PdPage(d) = TablePage(t)
  <2>1. 2 + d \in 0 .. TablePages - 1 /\ PdPage(d) = FirstTable + (2 + d)
    BY <1>1, <1>3, ModuleAssumption DEF PdPage, Directories
  <2>2. QED
    BY <2>1 DEF TablePage
<1>7. ASSUME NEW d \in Directories, NEW e \in Index
      PROVE  \E t \in 0 .. TablePages - 1 : PtPage(d, e) = TablePage(t)
  <2>1. d \in Nat /\ d < p /\ e \in Nat /\ e < f
    BY <1>1 DEF Directories, Index
  <2>2. PICK m \in Nat : m = d * f
    BY <2>1
  <2>3. m + f =< n
    <3>1. PICK k \in Nat : p = (d + 1) + k
      <4>1. p - (d + 1) \in Nat
        BY <2>1
      <4>2. QED
        BY <2>1, <4>1
    <3>2. PICK v \in Nat : v = k * f
      OBVIOUS
    <3>3. n = (m + f) + v
      BY <1>2, <2>1, <2>2, <3>1, <3>2
    <3>4. QED
      BY <3>3
  <2>4. PtPage(d, e) = FirstTable + 2 + p + m + e
    BY <1>1, <2>2 DEF PtPage
  <2>5. PICK t \in Nat : t = 2 + p + m + e
    BY <2>1
  <2>6. t \in 0 .. TablePages - 1 /\ PtPage(d, e) = FirstTable + t
    BY <1>3, <2>1, <2>3, <2>4, <2>5, ModuleAssumption
  <2>7. QED
    BY <2>6 DEF TablePage
<1>8. QED
  BY <1>3, <1>4, <1>5, <1>6, <1>7

-----------------------------------------------------------------------------
(***************************************************************************)
(* Mapping a page.                                                         *)
(***************************************************************************)

LEMMA OsTranslateIsNumber ==
    ASSUME EnvironmentInv, NEW m \in Module
    PROVE  OsTranslate(m) \in Nat
<1>1. base + m \in Nat
  BY ModuleAssumption DEF EnvironmentInv, Module
<1>2. PICK e \in OsEntries : e = os[m]
  BY OsAssumption DEF EnvironmentInv
<1>3. e.page_number \in Nat /\ e.pages \in Nat \ {0}
  <2>1. 1 \in Nat \ {0} /\ Fanout \in Nat \ {0} /\ Fanout * Fanout \in Nat \ {0}
    BY FanoutAssumption
  <2>2. QED
    BY <2>1 DEF OsEntries
<1>4. PICK r \in Nat : r = (base + m) % e.pages
  BY <1>1, <1>3, Division
<1>5. e.page_number * e.pages \in Nat
  BY <1>3
<1>6. QED
  BY <1>1, <1>2, <1>4, <1>5 DEF OsTranslate

\* The pages stay where they are.
LEMMA OsTranslateStays ==
    ASSUME UNCHANGED environment
    PROVE  \A m : OsTranslate(m)' = OsTranslate(m)
  BY DEF environment, OsTranslate

\* What an assignment to an entry of one of several tables changes.
LEMMA WriteTable ==
    ASSUME NEW D, NEW I, NEW E, NEW f \in [D -> [I -> E]],
           NEW d \in D, NEW y \in I, NEW v \in E, NEW g, g = [f EXCEPT ![d][y] = v]
    PROVE  /\ g \in [D -> [I -> E]]
           /\ \A c \in D, x \in I : g[c][x] = IF c = d /\ x = y THEN v ELSE f[c][x]
  OBVIOUS

\* A page that is mapped stays mapped, and to the same page.
EntriesStay ==
    \A d \in Directories, e, x \in Index : pts[d][e][x].present =>
        pts'[d][e][x].present /\ pts'[d][e][x].page = pts[d][e][x].page

\* Mapping page m of the module maps it, leaves every page that is mapped, and
\* its entry, and adds no foreign page.
LEMMA Mapping ==
    ASSUME EnvironmentInv, ShapeInv, ForeignInv, UNCHANGED environment,
           NEW m \in Module, NEW execute \in BOOLEAN, NEW physical,
           \A t \in 0 .. TablePages - 1 : physical[TablePage(t)] = OsTranslate(TablePage(t)),
           MapPageFrom(base + m, OsTranslate(m), TRUE, execute, physical)
    PROVE  /\ ShapeInv' /\ ForeignInv'
           /\ IsMapped(m)' /\ EntriesStay
           /\ PtEntry(base + m)' = [present |-> TRUE, write |-> TRUE,
                                    execute_disable |-> ~execute, page |-> OsTranslate(m)]
           /\ \A n \in Module \ {m} : /\ PtEntry(base + n)' = PtEntry(base + n)
                                      /\ IsMapped(n) => IsMapped(n)'
<1> SUFFICES ASSUME NEW b, b = base, NEW a, a = b + m, NEW d, d = pd_index(a),
                    NEW new, new = [present |-> TRUE, write |-> TRUE,
                                    execute_disable |-> ~execute, page |-> OsTranslate(m)]
             PROVE  /\ ShapeInv' /\ ForeignInv'
                    /\ IsMapped(m)' /\ EntriesStay
                    /\ PtEntry(base + m)' = new
                    /\ \A n \in Module \ {m} : /\ PtEntry(base + n)' = PtEntry(base + n)
                                               /\ IsMapped(n) => IsMapped(n)'
  OBVIOUS
<1>1. b \in Nat /\ \A n \in Module : n \in Nat /\ b + n \in Nat
  BY ModuleAssumption DEF EnvironmentInv, Module
<1>2. /\ pml4e(a) \in Index /\ pdpte(a) \in Index /\ pde(a) \in Index /\ pte(a) \in Index
      /\ d \in Directories
  BY <1>1, Parts
<1>3. base' = b /\ \A n : OsTranslate(n)' = OsTranslate(n)
  BY OsTranslateStays DEF environment
<1>4. /\ physical[PdptPage] = OsTranslate(PdptPage)
      /\ physical[PdPage(d)] = OsTranslate(PdPage(d))
      /\ physical[PtPage(d, pde(a))] = OsTranslate(PtPage(d, pde(a)))
  BY <1>2, TablesInModule
<1>5. /\ pml4' = [pml4 EXCEPT ![pml4e(a)] = TableEntry(OsTranslate(PdptPage))]
      /\ pdpt' = [pdpt EXCEPT ![pdpte(a)] = TableEntry(OsTranslate(PdPage(d)))]
      /\ pds' = [pds EXCEPT ![d][pde(a)] = TableEntry(OsTranslate(PtPage(d, pde(a))))]
      /\ pts' = [pts EXCEPT ![d][pde(a)][pte(a)] = new]
  BY <1>4 DEF MapPageFrom
<1>6. /\ TableEntry(OsTranslate(PdptPage)) \in PtEntries
      /\ TableEntry(OsTranslate(PdPage(d))) \in PtEntries
      /\ TableEntry(OsTranslate(PtPage(d, pde(a)))) \in PtEntries
      /\ new \in PtEntries
  <2>1. \A n \in Module : OsTranslate(n) \in Nat
    BY OsTranslateIsNumber
  <2>2. PdptPage \in Module /\ PdPage(d) \in Module /\ PtPage(d, pde(a)) \in Module
    BY <1>2, TablesInModule
  <2>3. \A n \in Nat : TableEntry(n) \in PtEntries
    BY DEF TableEntry, PtEntries
  <2>4. new \in PtEntries
    BY <2>1 DEF PtEntries
  <2>5. QED
    BY <2>1, <2>2, <2>3, <2>4
<1>7. /\ pml4' \in [Index -> PtEntries]
      /\ \A x \in Index : pml4'[x] = IF x = pml4e(a) THEN TableEntry(OsTranslate(PdptPage))
                                     ELSE pml4[x]
  BY <1>2, <1>5, <1>6 DEF ShapeInv
<1>8. /\ pdpt' \in [Index -> PtEntries]
      /\ \A x \in Index : pdpt'[x] = IF x = pdpte(a) THEN TableEntry(OsTranslate(PdPage(d)))
                                     ELSE pdpt[x]
  BY <1>2, <1>5, <1>6 DEF ShapeInv
<1>9. /\ pds' \in [Directories -> [Index -> PtEntries]]
      /\ \A c \in Directories, x \in Index :
            pds'[c][x] = IF c = d /\ x = pde(a)
                         THEN TableEntry(OsTranslate(PtPage(d, pde(a)))) ELSE pds[c][x]
  BY <1>2, <1>5, <1>6, WriteTable, ZenonT(40) DEF ShapeInv
<1>10. /\ pts' \in [Directories -> [Index -> [Index -> PtEntries]]]
      /\ \A c \in Directories, e, x \in Index :
            pts'[c][e][x] = IF c = d /\ e = pde(a) /\ x = pte(a) THEN new ELSE pts[c][e][x]
  <2>1. /\ pts \in [Directories -> [Index -> [Index -> PtEntries]]]
        /\ pts' = [pts EXCEPT ![d][pde(a)][pte(a)] = new]
        /\ d \in Directories /\ pde(a) \in Index /\ pte(a) \in Index /\ new \in PtEntries
    BY <1>2, <1>5, <1>6, Zenon DEF ShapeInv
  <2>2. PICK h : h = [pts[d] EXCEPT ![pde(a)][pte(a)] = new]
    OBVIOUS
  <2>3. pts' = [pts EXCEPT ![d] = h]
    BY <2>1, <2>2
  <2>4. pts[d] \in [Index -> [Index -> PtEntries]]
    BY <2>1
  <2>5. /\ h \in [Index -> [Index -> PtEntries]]
        /\ \A e, x \in Index : h[e][x] = IF e = pde(a) /\ x = pte(a) THEN new ELSE pts[d][e][x]
    BY <2>1, <2>2, <2>4, WriteTable, ZenonT(40)
  <2>6. /\ pts' \in [Directories -> [Index -> [Index -> PtEntries]]]
        /\ \A c \in Directories : pts'[c] = IF c = d THEN h ELSE pts[c]
    BY <2>1, <2>3, <2>5
  <2>7. ASSUME NEW c \in Directories, NEW e \in Index, NEW x \in Index
        PROVE  pts'[c][e][x] = IF c = d /\ e = pde(a) /\ x = pte(a) THEN new ELSE pts[c][e][x]
    <3>1. CASE c = d
      <4>1. pts'[c][e][x] = h[e][x]
        BY <2>6, <3>1
      <4>2. QED
        BY <2>5, <3>1, <4>1, ZenonT(40)
    <3>2. CASE c # d
      BY <2>6, <3>2
    <3>3. QED
      BY <3>1, <3>2
  <2>8. QED
    BY <2>6, <2>7
<1>11. ShapeInv'
  BY <1>7, <1>8, <1>9, <1>10 DEF ShapeInv
<1>12. \A n : PtEntry(b + n)' = pts'[pd_index(b + n)][pde(b + n)][pte(b + n)]
  BY DEF PtEntry, pd_index, pdpte, pde, pte
<1>13. PtEntry(base + m)' = new /\ new.page = OsTranslate(m)
  <2>1. PtEntry(base + m)' = pts'[d][pde(a)][pte(a)]
    BY <1>3 DEF PtEntry, pd_index, pdpte, pde, pte
  <2>2. pts'[d][pde(a)][pte(a)] = new
    BY <1>2, <1>10
  <2>3. QED
    BY <2>1, <2>2
<1>14. ASSUME NEW n \in Module, pde(b + n) = pde(a), pte(b + n) = pte(a) PROVE n = m
  <2>1. PICK f \in Nat : f = Fanout * Fanout /\ ModulePages =< f
    BY ModuleAssumption, FanoutAssumption
  <2>2. n \in 0 .. f - 1 /\ m \in 0 .. f - 1
    BY <2>1, ModuleAssumption DEF Module
  <2>3. (b + n) - (b + m) < f /\ (b + m) - (b + n) < f
    BY <1>1, <2>2
  <2>4. b + n = b + m
    BY <1>1, <1>14, <2>1, <2>3, SlotIsOwn
  <2>5. QED
    BY <1>1, <2>4
<1>15. ASSUME NEW n \in Module \ {m} PROVE PtEntry(base + n)' = PtEntry(base + n)
  <2>1. ~(pde(b + n) = pde(a) /\ pte(b + n) = pte(a))
    BY <1>14
  <2>2. /\ pde(b + n) \in Index /\ pte(b + n) \in Index /\ pd_index(b + n) \in Directories
    BY <1>1, Parts
  <2>3. QED
    BY <1>3, <1>10, <1>12, <2>1, <2>2 DEF PtEntry
<1>16. ForeignInv'
  <2>1. SUFFICES ASSUME NEW c \in Directories, NEW e \in Index, NEW x \in Index,
                        pts'[c][e][x].present
                 PROVE  \E n \in Module : /\ pde(b + n) = e /\ pte(b + n) = x
                                          /\ pts'[c][e][x].page = OsTranslate(n)
    BY <1>3, ZenonT(40) DEF ForeignInv
  <2>2. CASE c = d /\ e = pde(a) /\ x = pte(a)
    BY <1>10, <1>13, <2>2
  <2>3. CASE ~(c = d /\ e = pde(a) /\ x = pte(a))
    <3>1. pts'[c][e][x] = pts[c][e][x]
      BY <1>10, <2>3
    <3>2. QED
      BY <2>1, <3>1 DEF ForeignInv
  <2>4. QED
    BY <2>2, <2>3
<1>17. EntriesStay
  <2>1. SUFFICES ASSUME NEW c \in Directories, NEW e \in Index, NEW x \in Index,
                        pts[c][e][x].present
                 PROVE  pts'[c][e][x].present /\ pts'[c][e][x].page = pts[c][e][x].page
    BY DEF EntriesStay
  <2>2. CASE c = d /\ e = pde(a) /\ x = pte(a)
    <3>1. PICK n \in Module : /\ pde(b + n) = e /\ pte(b + n) = x
                              /\ pts[c][e][x].page = OsTranslate(n)
      BY <2>1 DEF ForeignInv
    <3>2. n = m
      BY <1>14, <2>2, <3>1
    <3>3. pts'[c][e][x] = new /\ new.present /\ new.page = OsTranslate(m)
      BY <1>10, <2>2
    <3>4. QED
      BY <3>1, <3>2, <3>3
  <2>3. CASE ~(c = d /\ e = pde(a) /\ x = pte(a))
    <3>1. pts'[c][e][x] = pts[c][e][x]
      BY <1>10, <2>3
    <3>2. QED
      BY <2>1, <3>1
  <2>4. QED
    BY <2>2, <2>3
<1>18. IsMapped(m)'
  <2>1. PtEntry(base + m)'.page = OsTranslate(m)
    BY <1>13
  <2>2. /\ pml4'[pml4e(a)] = TableEntry(OsTranslate(PdptPage))
        /\ pdpt'[pdpte(a)] = TableEntry(OsTranslate(PdPage(d)))
        /\ pds'[d][pde(a)] = TableEntry(OsTranslate(PtPage(d, pde(a))))
    BY <1>2, <1>7, <1>8, <1>9
  <2>3. QED
    BY <1>3, <2>1, <2>2 DEF IsMapped, pml4e, pdpte, pde, pd_index
<1>19. ASSUME NEW n \in Module \ {m}, IsMapped(n) PROVE IsMapped(n)'
  <2> SUFFICES ASSUME NEW c, c = b + n PROVE IsMapped(n)'
    OBVIOUS
  <2>1. /\ pml4e(c) \in Index /\ pdpte(c) \in Index /\ pde(c) \in Index
        /\ pd_index(c) \in Directories
    BY <1>1, Parts
  <2>2. pdpte(c) = pdpte(a) => pd_index(c) = d
    BY DEF pd_index
  <2>3. /\ pml4[pml4e(c)] = TableEntry(OsTranslate(PdptPage))
        /\ pdpt[pdpte(c)] = TableEntry(OsTranslate(PdPage(pd_index(c))))
        /\ pds[pd_index(c)][pde(c)] = TableEntry(OsTranslate(PtPage(pd_index(c), pde(c))))
        /\ PtEntry(base + n).page = OsTranslate(n)
    BY <1>19 DEF IsMapped
  <2>4. /\ pml4'[pml4e(c)] = TableEntry(OsTranslate(PdptPage))
        /\ pdpt'[pdpte(c)] = TableEntry(OsTranslate(PdPage(pd_index(c))))
        /\ pds'[pd_index(c)][pde(c)] = TableEntry(OsTranslate(PtPage(pd_index(c), pde(c))))
    BY <1>7, <1>8, <1>9, <2>1, <2>2, <2>3
  <2>5. PtEntry(base + n)'.page = OsTranslate(n)
    BY <1>15, <2>3
  <2>6. QED
    BY <1>3, <2>4, <2>5 DEF IsMapped, pml4e, pdpte, pde, pd_index
<1>20. QED
  BY <1>11, <1>13, <1>15, <1>16, <1>17, <1>18, <1>19

-----------------------------------------------------------------------------
(***************************************************************************)
(* The steps.                                                              *)
(***************************************************************************)

\* The object translates the addresses of its tables once they are mapped.
LEMMA TranslatesTables ==
    ASSUME TablesInv, pc # "map_self", NEW t \in 0 .. TablePages - 1
    PROVE  Translate(base + TablePage(t)) = OsTranslate(TablePage(t))
<1>1. IsMapped(TablePage(t))
  BY DEF TablesInv, MappedInv, SelfPages
<1>2. QED
  BY <1>1 DEF IsMapped, PtEntry, Translate

LEMMA InitTablesInv == ASSUME Init PROVE TablesInv
<1>1. EnvironmentInv
  BY ModuleAssumption DEF Init, EnvironmentInv
<1>2. ControlInv
  BY TablesInModule DEF Init, ControlInv
<1>3. ZeroEntry \in PtEntries /\ ~ZeroEntry.present
  BY DEF ZeroEntry, PtEntries
<1>4. ShapeInv
  BY <1>3 DEF Init, ShapeInv
<1>5. SelfPages = {} /\ OpenPages = {}
  BY DEF Init, SelfPages, OpenPages
<1>6. MappedInv
  BY <1>5 DEF MappedInv
<1>7. ForeignInv
  BY <1>3 DEF Init, ForeignInv
<1>8. QED
  BY <1>1, <1>2, <1>4, <1>6, <1>7 DEF TablesInv

LEMMA MapSelfMaps ==
    ASSUME TablesInv, MapSelf
    PROVE  /\ i \in 0 .. TablePages - 1 /\ TablePage(i) \in Module /\ UNCHANGED environment
           /\ MapPageFrom(base + TablePage(i), OsTranslate(TablePage(i)), TRUE, FALSE, OsPhysical)
           /\ \A t \in 0 .. TablePages - 1 : OsPhysical[TablePage(t)] = OsTranslate(TablePage(t))
<1> SUFFICES ASSUME NEW m, m = TablePage(i)
             PROVE  /\ i \in 0 .. TablePages - 1 /\ m \in Module /\ UNCHANGED environment
                    /\ MapPageFrom(base + m, OsTranslate(m), TRUE, FALSE, OsPhysical)
                    /\ \A t \in 0 .. TablePages - 1 :
                           OsPhysical[TablePage(t)] = OsTranslate(TablePage(t))
  OBVIOUS
<1>1. /\ pc = "map_self" /\ i \in 0 .. TablePages - 1 /\ i' = i + 1 /\ pc' = pc
      /\ UNCHANGED environment
  BY TablesInModule DEF MapSelf, TablesInv, ControlInv
<1>2. m \in Module
  BY <1>1, TablesInModule
<1>3. MapPageFrom(base + m, OsTranslate(m), TRUE, FALSE, OsPhysical)
  <2>1. base + FirstTable + i = base + m
    BY <1>1, ModuleAssumption, TablesInModule DEF TablePage, TablesInv, EnvironmentInv
  <2>2. MapPageFrom(base + FirstTable + i, OsTranslate(FirstTable + i), TRUE, FALSE, OsPhysical)
    BY DEF MapSelf
  <2>3. QED
    BY <2>1, <2>2 DEF TablePage
<1>4. \A t \in 0 .. TablePages - 1 : OsPhysical[TablePage(t)] = OsTranslate(TablePage(t))
  BY TablesInModule DEF OsPhysical
<1>5. QED
  BY <1>1, <1>2, <1>3, <1>4

LEMMA MapSelfStep == ASSUME TablesInv, MapSelf PROVE TablesInv'
<1> SUFFICES ASSUME NEW m, m = TablePage(i) PROVE TablesInv'
  OBVIOUS
<1>1. /\ pc = "map_self" /\ i \in 0 .. TablePages - 1 /\ i' = i + 1 /\ pc' = pc
      /\ UNCHANGED environment
  BY MapSelfMaps DEF MapSelf
<1>2. m \in Module
  BY MapSelfMaps
<1>3. MapPageFrom(base + m, OsTranslate(m), TRUE, FALSE, OsPhysical)
  BY MapSelfMaps
<1>4. \A t \in 0 .. TablePages - 1 : OsPhysical[TablePage(t)] = OsTranslate(TablePage(t))
  BY MapSelfMaps
<1>5. /\ ShapeInv' /\ ForeignInv' /\ IsMapped(m)'
      /\ \A n \in Module \ {m} : IsMapped(n) => IsMapped(n)'
  BY <1>1, <1>2, <1>3, <1>4, Mapping DEF TablesInv
<1>6. EnvironmentInv' /\ ControlInv'
  BY <1>1, TablesInModule DEF TablesInv, EnvironmentInv, ControlInv, environment
<1>7. SelfPages' \subseteq SelfPages \cup {m} /\ OpenPages' = {} /\ SelfPages \subseteq Module
  <2>1. \A t \in 0 .. (i + 1) - 1 : t \in 0 .. i - 1 \/ t = i
    BY <1>1, TablesInModule
  <2>2. \A t \in 0 .. i - 1 : t \in 0 .. TablePages - 1
    BY <1>1, TablesInModule
  <2>3. SelfPages' = {TablePage(t) : t \in 0 .. (i + 1) - 1}
    BY <1>1 DEF SelfPages, TablePage
  <2>4. SelfPages = {TablePage(t) : t \in 0 .. i - 1} /\ OpenPages' = {}
    BY <1>1 DEF SelfPages, OpenPages
  <2>5. QED
    BY <2>1, <2>2, <2>3, <2>4, TablesInModule
<1>8. MappedInv'
  <2>1. \A n \in SelfPages : IsMapped(n)
    BY DEF TablesInv, MappedInv
  <2>2. \A n \in SelfPages' : IsMapped(n)'
    BY <1>5, <1>7, <2>1
  <2>3. QED
    BY <1>7, <2>2 DEF MappedInv
<1>9. QED
  BY <1>5, <1>6, <1>8 DEF TablesInv

LEMMA MapModuleMaps ==
    ASSUME TablesInv, MapModule
    PROVE  /\ i \in Module /\ UNCHANGED environment
           /\ MapPageFrom(base + i, OsTranslate(i), TRUE, TRUE, OwnPhysical)
           /\ \A t \in 0 .. TablePages - 1 : OwnPhysical[TablePage(t)] = OsTranslate(TablePage(t))
<1>1. pc = "map_from" /\ i \in Module /\ UNCHANGED environment
  BY ModuleAssumption DEF MapModule, TablesInv, ControlInv, Module
<1>2. MapPageFrom(base + i, OsTranslate(i), TRUE, TRUE, OwnPhysical)
  BY DEF MapModule
<1>3. \A t \in 0 .. TablePages - 1 : OwnPhysical[TablePage(t)] = OsTranslate(TablePage(t))
  BY <1>1, TablesInModule, TranslatesTables DEF OwnPhysical
<1>4. QED
  BY <1>1, <1>2, <1>3

LEMMA MapModuleStep == ASSUME TablesInv, MapModule PROVE TablesInv'
<1> SUFFICES ASSUME NEW m, m = i PROVE TablesInv'
  OBVIOUS
<1>1. /\ pc = "map_from" /\ m \in Module /\ i' = m + 1 /\ pc' = pc /\ m + 1 \in 0 .. ModulePages
      /\ UNCHANGED environment
  BY ModuleAssumption DEF MapModule, TablesInv, ControlInv, Module
<1>2. MapPageFrom(base + m, OsTranslate(m), TRUE, TRUE, OwnPhysical)
  BY MapModuleMaps
<1>3. \A t \in 0 .. TablePages - 1 : OwnPhysical[TablePage(t)] = OsTranslate(TablePage(t))
  BY MapModuleMaps
<1>4. /\ ShapeInv' /\ ForeignInv' /\ IsMapped(m)'
      /\ PtEntry(base + m)' = [present |-> TRUE, write |-> TRUE,
                               execute_disable |-> ~TRUE, page |-> OsTranslate(m)]
      /\ \A n \in Module \ {m} : /\ PtEntry(base + n)' = PtEntry(base + n)
                                 /\ IsMapped(n) => IsMapped(n)'
  BY <1>1, <1>2, <1>3, Mapping DEF TablesInv
<1>5. EnvironmentInv' /\ ControlInv'
  BY <1>1 DEF TablesInv, EnvironmentInv, ControlInv, environment
<1>6. OsTranslate(m)' = OsTranslate(m) /\ \A n : OsTranslate(n)' = OsTranslate(n)
  BY <1>1, OsTranslateStays
<1>7. /\ SelfPages' = SelfPages /\ SelfPages \subseteq Module
      /\ OpenPages = 0 .. m - 1 /\ OpenPages' = OpenPages \cup {m} /\ OpenPages \subseteq Module
  <2>1. SelfPages' = SelfPages /\ SelfPages \subseteq Module
    BY <1>1, TablesInModule DEF SelfPages
  <2>2. OpenPages = 0 .. m - 1 /\ OpenPages' = 0 .. (m + 1) - 1
    BY <1>1 DEF OpenPages
  <2>3. 0 .. (m + 1) - 1 = (0 .. m - 1) \cup {m} /\ 0 .. m - 1 \subseteq Module
    BY <1>1, ModuleAssumption DEF Module
  <2>4. QED
    BY <2>1, <2>2, <2>3
<1>8. \A n \in SelfPages' \cup OpenPages' : IsMapped(n)'
  <2>1. \A n \in SelfPages \cup OpenPages : IsMapped(n)
    BY DEF TablesInv, MappedInv
  <2>2. QED
    BY <1>4, <1>7, <2>1
<1>9. ASSUME NEW n \in OpenPages' PROVE PtEntry(base + n)' = OpenEntry(OsTranslate(n))'
  <2>1. CASE n = m
    BY <1>4, <1>6, <2>1 DEF OpenEntry
  <2>2. CASE n # m
    <3>1. n \in OpenPages /\ n \in Module \ {m}
      BY <1>7, <2>2
    <3>2. PtEntry(base + n) = OpenEntry(OsTranslate(n))
      BY <3>1 DEF TablesInv, MappedInv
    <3>3. QED
      BY <1>4, <1>6, <3>1, <3>2 DEF OpenEntry
  <2>3. QED
    BY <2>1, <2>2
<1>10. MappedInv'
  BY <1>8, <1>9 DEF MappedInv
<1>11. QED
  BY <1>4, <1>5, <1>10 DEF TablesInv

\* Steps that change no table, and no page that is mapped.
LEMMA TablesUnchanged ==
    ASSUME TablesInv, UNCHANGED <<environment, tables>>
    PROVE  /\ EnvironmentInv' /\ ShapeInv' /\ ForeignInv'
           /\ \A m : OsTranslate(m)' = OsTranslate(m) /\ IsMapped(m)' = IsMapped(m)
                     /\ PtEntry(base + m)' = PtEntry(base + m)
<1>1. UNCHANGED <<base, physical_to_virtual, os, pml4, pdpt, pds, pts>>
  BY DEF environment, tables
<1>2. EnvironmentInv' /\ ShapeInv'
  BY <1>1 DEF TablesInv, EnvironmentInv, ShapeInv
<1>3. \A m : OsTranslate(m)' = OsTranslate(m)
  BY OsTranslateStays
<1>4. ForeignInv'
  BY <1>1, <1>3 DEF TablesInv, ForeignInv
<1>5. \A m : PtEntry(base + m)' = PtEntry(base + m)
  BY <1>1 DEF PtEntry, pd_index, pdpte, pde, pte
<1>6. \A m : IsMapped(m)' = IsMapped(m)
  BY <1>1, <1>3, <1>5 DEF IsMapped, pml4e, pdpte, pde, pd_index
<1>7. QED
  BY <1>2, <1>3, <1>4, <1>5, <1>6

LEMMA MappedStays ==
    ASSUME TablesInv, UNCHANGED <<environment, tables>>,
           SelfPages' \subseteq SelfPages \cup OpenPages, OpenPages' \subseteq OpenPages
    PROVE  MappedInv'
<1>1. \A m : OsTranslate(m)' = OsTranslate(m) /\ IsMapped(m)' = IsMapped(m)
             /\ PtEntry(base + m)' = PtEntry(base + m)
  BY TablesUnchanged
<1>2. /\ \A m \in SelfPages \cup OpenPages : IsMapped(m)
      /\ \A m \in OpenPages : PtEntry(base + m) = OpenEntry(OsTranslate(m))
  BY DEF TablesInv, MappedInv
<1>3. \A m \in SelfPages' \cup OpenPages' : IsMapped(m)'
  BY <1>1, <1>2
<1>4. \A m \in OpenPages' : PtEntry(base + m)' = OpenEntry(OsTranslate(m))'
  BY <1>1, <1>2 DEF OpenEntry
<1>5. QED
  BY <1>3, <1>4 DEF MappedInv

LEMMA SelfMappedStep == ASSUME TablesInv, SelfMapped PROVE TablesInv'
<1>1. /\ pc = "map_self" /\ i = TablePages /\ pc' = "map_from" /\ i' = 0
      /\ UNCHANGED <<environment, tables>>
  BY DEF SelfMapped
<1>2. SelfPages' = SelfPages /\ OpenPages' = {}
  <2>1. SelfPages' = {TablePage(t) : t \in 0 .. TablePages - 1}
    BY <1>1 DEF SelfPages, TablePage
  <2>2. SelfPages = {TablePage(t) : t \in 0 .. TablePages - 1}
    BY <1>1 DEF SelfPages
  <2>3. OpenPages' = 0 .. 0 - 1
    BY <1>1 DEF OpenPages
  <2>4. QED
    BY <2>1, <2>2, <2>3
<1>3. MappedInv'
  BY <1>1, <1>2, MappedStays
<1>4. ControlInv'
  BY <1>1, ModuleAssumption DEF ControlInv
<1>5. QED
  BY <1>1, <1>3, <1>4, TablesUnchanged DEF TablesInv

LEMMA ModuleMappedStep == ASSUME TablesInv, ModuleMapped PROVE TablesInv'
<1>1. /\ pc = "map_from" /\ i = ModulePages /\ pc' = "done"
      /\ host_cr3' = Translate(base + Pml4Page) /\ UNCHANGED <<environment, tables, i>>
  BY DEF ModuleMapped
<1>2. SelfPages' = SelfPages /\ OpenPages' = OpenPages
  <2>1. SelfPages' = {TablePage(t) : t \in 0 .. TablePages - 1}
    BY <1>1 DEF SelfPages, TablePage
  <2>2. SelfPages = {TablePage(t) : t \in 0 .. TablePages - 1}
    BY <1>1 DEF SelfPages
  <2>3. OpenPages' = Module /\ OpenPages = Module
    BY <1>1 DEF OpenPages, Module
  <2>4. QED
    BY <2>1, <2>2, <2>3
<1>3. MappedInv'
  BY <1>1, <1>2, MappedStays
<1>4. ControlInv'
  <2>1. host_cr3' = OsTranslate(Pml4Page)
    BY <1>1, TranslatesTables, TablesInModule
  <2>2. OsTranslate(Pml4Page)' = OsTranslate(Pml4Page)
    BY <1>1, TablesUnchanged DEF Pml4Page
  <2>3. QED
    BY <1>1, <2>1, <2>2 DEF ControlInv
<1>5. QED
  BY <1>1, <1>3, <1>4, TablesUnchanged DEF TablesInv

LEMMA NextTablesInv == ASSUME TablesInv, [Next]_vars PROVE TablesInv'
<1>1. CASE UNCHANGED vars
  <2>1. UNCHANGED <<environment, tables>> /\ UNCHANGED <<pc, i, host_cr3>>
    BY <1>1 DEF vars, environment, tables
  <2>2. SelfPages' = SelfPages /\ OpenPages' = OpenPages
    BY <2>1 DEF SelfPages, OpenPages
  <2>3. MappedInv'
    BY <2>1, <2>2, MappedStays
  <2>4. ControlInv'
    <3>1. OsTranslate(Pml4Page)' = OsTranslate(Pml4Page)
      BY <2>1, TablesUnchanged DEF Pml4Page
    <3>2. QED
      BY <2>1, <3>1 DEF TablesInv, ControlInv
  <2>5. QED
    BY <2>1, <2>3, <2>4, TablesUnchanged DEF TablesInv
<1>2. CASE Finished
  BY <1>1, <1>2 DEF Finished
<1>3. QED
  BY <1>1, <1>2, MapSelfStep, SelfMappedStep, MapModuleStep, ModuleMappedStep DEF Next

\* Through both loops, and whatever virtual_to_physical makes of the operating system's
\* entries, every entry on the way to a page that has been mapped leads to the page it
\* says, and every page that is mapped is the module's, at its address.
THEOREM TablesInvariance == Spec => []TablesInv
<1>1. Init => TablesInv
  BY InitTablesInv
<1>2. TablesInv /\ [Next]_vars => TablesInv'
  BY NextTablesInv
<1>3. QED
  BY <1>1, <1>2, PTL DEF Spec

\* A page that is mapped is never mapped elsewhere, nor taken out again: not by the page
\* of the module that is mapped next, nor when map_from comes to the tables themselves,
\* whose addresses it translates meanwhile.
THEOREM MappingsStay == Spec => [][EntriesStay]_vars
<1>1. ASSUME TablesInv, [Next]_vars PROVE [EntriesStay]_vars
  <2>1. CASE MapSelf
    BY <1>1, <2>1, MapSelfMaps, Mapping DEF TablesInv
  <2>2. CASE MapModule
    BY <1>1, <2>2, MapModuleMaps, Mapping DEF TablesInv
  <2>3. CASE pts' = pts
    BY <2>3 DEF EntriesStay
  <2>4. QED
    BY <1>1, <2>1, <2>2, <2>3 DEF Next, SelfMapped, ModuleMapped, Finished, tables, vars
<1>2. QED
  BY <1>1, TablesInvariance, PTL DEF Spec

\* With small pages, or where every address is mapped to itself, virtual_to_physical
\* gives the page the processor uses.
LEMMA OsTranslates ==
    ASSUME OsUsesSmallPages, EnvironmentInv, NEW m \in Module
    PROVE  OsTranslate(m) = PhysicalPage(m)
<1>1. base + m \in Nat
  BY ModuleAssumption DEF EnvironmentInv, Module
<1>2. PICK e \in OsEntries : e = os[m] /\ e.pages = 1
  BY OsAssumption DEF EnvironmentInv, OsUsesSmallPages
<1>3. e.page_number \in Nat
  BY DEF OsEntries
<1>4. e.page_number * 1 = e.page_number /\ (base + m) % 1 = 0
  BY <1>1, <1>3
<1>5. QED
  BY <1>2, <1>4 DEF OsTranslate, PhysicalPage

\* Where the operating system maps the module with small pages, the object
\* translates the addresses of its own tables from the end of map_self on.
THEOREM TablesStayMapped == ASSUME OsUsesSmallPages PROVE Spec => []TablesAreMapped
<1>1. ASSUME TablesInv PROVE TablesAreMapped
  <2>1. SUFFICES ASSUME pc # "map_self", NEW t \in 0 .. TablePages - 1
                 PROVE  Translate(base + FirstTable + t) = PhysicalPage(FirstTable + t)
    BY DEF TablesAreMapped
  <2>2. base + FirstTable + t = base + TablePage(t)
    BY <1>1, ModuleAssumption, TablesInModule DEF TablePage, TablesInv, EnvironmentInv
  <2>3. OsTranslate(TablePage(t)) = PhysicalPage(TablePage(t))
    BY <1>1, TablesInModule, OsTranslates DEF TablesInv
  <2>4. QED
    BY <1>1, <2>1, <2>2, <2>3, TranslatesTables DEF TablePage
<1>2. QED
  BY <1>1, TablesInvariance, PTL

\* There, with host_cr3 the processor reaches every page of the module where the
\* operating system put it, and no page that is mapped is foreign.
THEOREM HostReachesAllPages == ASSUME OsUsesSmallPages PROVE Spec => []HostReachesModule
<1>1. ASSUME TablesInv PROVE HostReachesModule
  <2>1. \A m \in Module : OsTranslate(m) = PhysicalPage(m)
    BY <1>1, OsTranslates DEF TablesInv
  <2>2. ASSUME pc = "done", NEW m \in Module
        PROVE  Walks(base + m, OpenEntry(PhysicalPage(m)))
    <3> SUFFICES ASSUME NEW a, a = base + m PROVE Walks(a, OpenEntry(PhysicalPage(m)))
      OBVIOUS
    <3>1. OpenPages = Module
      BY <2>2 DEF OpenPages
    <3>2. /\ pml4[pml4e(a)] = TableEntry(OsTranslate(PdptPage))
          /\ pdpt[pdpte(a)] = TableEntry(OsTranslate(PdPage(pd_index(a))))
          /\ pds[pd_index(a)][pde(a)] = TableEntry(OsTranslate(PtPage(pd_index(a), pde(a))))
          /\ pts[pd_index(a)][pde(a)][pte(a)] = OpenEntry(OsTranslate(m))
      BY <1>1, <3>1 DEF TablesInv, MappedInv, IsMapped, PtEntry
    <3>3. a \in Nat
      BY <1>1, ModuleAssumption DEF TablesInv, EnvironmentInv, Module
    <3>4. pd_index(a) \in Directories /\ pde(a) \in Index
      BY <3>3, Parts
    <3>5. host_cr3 = OsTranslate(Pml4Page)
      BY <1>1, <2>2 DEF TablesInv, ControlInv
    <3>6. /\ Pml4Page \in Module /\ PdptPage \in Module /\ PdPage(pd_index(a)) \in Module
          /\ PtPage(pd_index(a), pde(a)) \in Module
      BY <3>4, TablesInModule
    <3>7. /\ host_cr3 = PhysicalPage(Pml4Page)
          /\ pml4[pml4e(a)] = TableEntry(PhysicalPage(PdptPage))
          /\ pdpt[pdpte(a)] = TableEntry(PhysicalPage(PdPage(pd_index(a))))
          /\ pds[pd_index(a)][pde(a)] = TableEntry(PhysicalPage(PtPage(pd_index(a), pde(a))))
          /\ pts[pd_index(a)][pde(a)][pte(a)] = OpenEntry(PhysicalPage(m))
      BY <2>1, <3>2, <3>5, <3>6
    <3>8. QED
      BY <3>4, <3>7 DEF Walks
  <2>3. \A d \in Directories, e, x \in Index :
            pts[d][e][x].present => \E m \in Module : pts[d][e][x].page = PhysicalPage(m)
    BY <1>1, <2>1 DEF TablesInv, ForeignInv
  <2>4. QED
    BY <2>2, <2>3 DEF HostReachesModule, OpenEntry
<1>2. QED
  BY <1>1, TablesInvariance, PTL

=============================================================================
