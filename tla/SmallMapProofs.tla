--------------------------- MODULE SmallMapProofs ---------------------------
(***************************************************************************)
(* Proofs about SmallMap, for every set of objects, keys and values and    *)
(* every capacity: the storage stays sorted, the binary search is exact,   *)
(* and the implementation refines KeyedMap.                                *)
(***************************************************************************)
EXTENDS SmallMap, TLAPS

-----------------------------------------------------------------------------
(***************************************************************************)
(* The operators on the storage of one object.                             *)
(***************************************************************************)

\* The storage s holds n pairs in ascending order.
Holds(s, n) ==
    /\ s \in [Slots -> Pairs \cup {Raw}]
    /\ n \in 0 .. Capacity
    /\ \A j \in Slots : s[j] # Raw <=> j < n
    /\ \A j, k \in Slots : j < k /\ k < n => s[j].key < s[k].key

\* The pairs of a storage.
PairsOf(s, n) == {s[j] : j \in 0 .. n - 1}

\* A storage without pairs is sorted.
LEMMA RawHolds ==
    ASSUME NEW s, s \in [Slots -> Pairs \cup {Raw}], \A j \in Slots : s[j] = Raw
    PROVE  Holds(s, 0)
BY CapacityAssumption DEF Holds, Slots

\* clear and the destructor leave no pair behind.
LEMMA DestroyedHolds ==
    ASSUME NEW s, NEW n, Holds(s, n)
    PROVE  Holds(Destroyed(s, n), 0)
BY CapacityAssumption DEF Holds, Slots, Destroyed

\* Slots below the size hold pairs whose keys are integers.
LEMMA SlotIsPair ==
    ASSUME NEW s, NEW n, Holds(s, n), NEW j \in Slots, j < n
    PROVE  s[j] \in Pairs /\ s[j].key \in Int /\ s[j].key \in Keys /\ s[j].value \in Values
BY KeysAssumption DEF Holds, Pairs

\* Inserting at the index that keeps the order keeps it.
LEMMA InsertedHolds ==
    ASSUME NEW s, NEW n, Holds(s, n), n < Capacity,
           NEW x \in 0 .. n, NEW k \in Keys, NEW v \in Values,
           \A j \in Slots : j < x => s[j].key < k,
           \A j \in Slots : x =< j /\ j < n => k < s[j].key
    PROVE  /\ Holds(Inserted(s, n, x, Pair(k, v)), n + 1)
           /\ PairsOf(Inserted(s, n, x, Pair(k, v)), n + 1) = PairsOf(s, n) \cup {Pair(k, v)}
<1> DEFINE t == Inserted(s, n, x, Pair(k, v))
<1>1. /\ n \in Nat /\ x \in Nat /\ x =< n /\ Capacity \in Nat
      /\ \A j \in Slots : j \in Int /\ 0 =< j /\ j < Capacity
      /\ \A j \in 0 .. n : j \in Slots
  BY CapacityAssumption DEF Holds, Slots
<1>2. Pair(k, v) \in Pairs /\ Pair(k, v).key = k /\ k \in Int /\ Pair(k, v) # Raw
  BY KeysAssumption, SentinelAssumption DEF Pair, Pairs
<1>3. /\ t[x] = Pair(k, v)
      /\ \A j \in Slots : j < x => t[j] = s[j]
      /\ \A j \in Slots : x < j /\ j =< n => j - 1 \in Slots /\ t[j] = s[j - 1]
      /\ \A j \in Slots : n < j => t[j] = s[j]
  BY <1>1 DEF Inserted, Slots
<1>4. t \in [Slots -> Pairs \cup {Raw}]
  <2>1. t = [j \in Slots |-> t[j]]
    BY DEF Inserted
  <2>2. \A j \in Slots : t[j] \in Pairs \cup {Raw}
    BY <1>1, <1>2, <1>3 DEF Holds
  <2> QED  BY <2>1, <2>2
<1>5. \A j \in Slots : t[j] # Raw <=> j < n + 1
  BY <1>1, <1>2, <1>3 DEF Holds
<1>6. ASSUME NEW i \in Slots, NEW j \in Slots, i < j, j < n + 1
      PROVE  t[i].key < t[j].key
  <2>1. CASE j < x
    BY <2>1, <1>1, <1>3, <1>6 DEF Holds
  <2>2. CASE j = x
    BY <2>2, <1>1, <1>2, <1>3, <1>6
  <2>3. CASE x < j /\ i < x
    <3>1. t[i] = s[i] /\ t[j] = s[j - 1] /\ j - 1 \in Slots /\ x =< j - 1 /\ j - 1 < n
      BY <2>3, <1>1, <1>3, <1>6
    <3>2. i < j - 1
      BY <2>3, <1>1
    <3> QED  BY <3>1, <3>2 DEF Holds
  <2>4. CASE x < j /\ i = x
    <3>1. t[j] = s[j - 1] /\ j - 1 \in Slots /\ x =< j - 1 /\ j - 1 < n
      BY <2>4, <1>1, <1>3, <1>6
    <3> QED  BY <3>1, <2>4, <1>2, <1>3
  <2>5. CASE x < i
    <3>1. t[i] = s[i - 1] /\ t[j] = s[j - 1] /\ j - 1 \in Slots /\ i - 1 \in Slots /\ i - 1 < j - 1 /\ j - 1 < n
      BY <2>5, <1>1, <1>3, <1>6
    <3> QED  BY <3>1 DEF Holds
  <2> QED  BY <2>1, <2>2, <2>3, <2>4, <2>5, <1>1
<1>7. Holds(t, n + 1)
  BY <1>1, <1>4, <1>5, <1>6 DEF Holds
<1>8. PairsOf(t, n + 1) \subseteq PairsOf(s, n) \cup {Pair(k, v)}
  <2> SUFFICES ASSUME NEW j \in 0 .. n
               PROVE  t[j] \in PairsOf(s, n) \cup {Pair(k, v)}
    BY <1>1 DEF PairsOf
  <2>1. CASE j < x
    BY <2>1, <1>1, <1>3 DEF PairsOf
  <2>2. CASE j = x
    BY <2>2, <1>3
  <2>3. CASE x < j
    <3>1. t[j] = s[j - 1] /\ j - 1 \in 0 .. n - 1
      BY <2>3, <1>1, <1>3
    <3> QED  BY <3>1 DEF PairsOf
  <2> QED  BY <2>1, <2>2, <2>3, <1>1
<1>9. PairsOf(s, n) \cup {Pair(k, v)} \subseteq PairsOf(t, n + 1)
  <2>1. Pair(k, v) \in PairsOf(t, n + 1)
    BY <1>1, <1>3 DEF PairsOf
  <2>2. ASSUME NEW j \in 0 .. n - 1
        PROVE  s[j] \in PairsOf(t, n + 1)
    <3>1. CASE j < x
      BY <3>1, <1>1, <1>3 DEF PairsOf
    <3>2. CASE x =< j
      <4>1. t[j + 1] = s[(j + 1) - 1] /\ j + 1 \in 0 .. (n + 1) - 1 /\ (j + 1) - 1 = j
        BY <3>2, <1>1, <1>3
      <4> QED  BY <4>1 DEF PairsOf
    <3> QED  BY <3>1, <3>2, <1>1
  <2> QED  BY <2>1, <2>2 DEF PairsOf
<1> QED  BY <1>7, <1>8, <1>9

\* Erasing a position keeps the order and removes one pair.
LEMMA ErasedHolds ==
    ASSUME NEW s, NEW n, Holds(s, n), NEW x \in 0 .. n - 1
    PROVE  /\ Holds(Erased(s, n, x), n - 1)
           /\ PairsOf(Erased(s, n, x), n - 1) = PairsOf(s, n) \ {s[x]}
           /\ s[x] \in PairsOf(s, n)
<1> DEFINE t == Erased(s, n, x)
<1>1. /\ n \in Nat /\ n # 0 /\ x \in Nat /\ x < n /\ Capacity \in Nat /\ n =< Capacity
      /\ \A j \in Slots : j \in Int /\ 0 =< j /\ j < Capacity
      /\ \A j \in 0 .. n - 1 : j \in Slots
  BY CapacityAssumption DEF Holds, Slots
<1>3. /\ \A j \in Slots : j < x => t[j] = s[j]
      /\ \A j \in Slots : x =< j /\ j < n - 1 => j + 1 \in Slots /\ t[j] = s[j + 1]
      /\ t[n - 1] = Raw
      /\ \A j \in Slots : n =< j => t[j] = s[j]
  BY <1>1 DEF Erased, Slots
<1>4. t \in [Slots -> Pairs \cup {Raw}]
  <2>1. t = [j \in Slots |-> t[j]]
    BY DEF Erased
  <2>2. \A j \in Slots : t[j] \in Pairs \cup {Raw}
    BY <1>1, <1>3 DEF Holds
  <2> QED  BY <2>1, <2>2
<1>5. \A j \in Slots : t[j] # Raw <=> j < n - 1
  BY <1>1, <1>3 DEF Holds
<1>6. ASSUME NEW i \in Slots, NEW j \in Slots, i < j, j < n - 1
      PROVE  t[i].key < t[j].key
  <2>1. CASE j < x
    BY <2>1, <1>1, <1>3, <1>6 DEF Holds
  <2>2. CASE x =< j /\ i < x
    <3>1. t[i] = s[i] /\ t[j] = s[j + 1] /\ j + 1 \in Slots /\ i < j + 1 /\ j + 1 < n
      BY <2>2, <1>1, <1>3, <1>6
    <3> QED  BY <3>1 DEF Holds
  <2>3. CASE x =< i
    <3>1. t[i] = s[i + 1] /\ t[j] = s[j + 1] /\ j + 1 \in Slots /\ i + 1 \in Slots /\ i + 1 < j + 1 /\ j + 1 < n
      BY <2>3, <1>1, <1>3, <1>6
    <3> QED  BY <3>1 DEF Holds
  <2> QED  BY <2>1, <2>2, <2>3, <1>1
<1>7. Holds(t, n - 1)
  BY <1>1, <1>4, <1>5, <1>6 DEF Holds
<1>8. \A i, j \in 0 .. n - 1 : i # j => s[i] # s[j]
  <2> SUFFICES ASSUME NEW i \in 0 .. n - 1, NEW j \in 0 .. n - 1, i # j
               PROVE  s[i] # s[j]
    OBVIOUS
  <2>1. s[i].key \in Int /\ s[j].key \in Int
    BY <1>1, SlotIsPair
  <2>2. s[i].key < s[j].key \/ s[j].key < s[i].key
    BY <1>1 DEF Holds
  <2> QED  BY <2>1, <2>2
<1>9. PairsOf(t, n - 1) \subseteq PairsOf(s, n) \ {s[x]}
  <2> SUFFICES ASSUME NEW j \in 0 .. (n - 1) - 1
               PROVE  t[j] \in PairsOf(s, n) \ {s[x]}
    BY DEF PairsOf
  <2>1. CASE j < x
    BY <2>1, <1>1, <1>3, <1>8 DEF PairsOf
  <2>2. CASE x =< j
    <3>1. t[j] = s[j + 1] /\ j + 1 \in 0 .. n - 1 /\ j + 1 # x
      BY <2>2, <1>1, <1>3
    <3> QED  BY <3>1, <1>1, <1>8 DEF PairsOf
  <2> QED  BY <2>1, <2>2, <1>1
<1>10. PairsOf(s, n) \ {s[x]} \subseteq PairsOf(t, n - 1)
  <2> SUFFICES ASSUME NEW j \in 0 .. n - 1, j # x
               PROVE  s[j] \in PairsOf(t, n - 1)
    BY DEF PairsOf
  <2>1. CASE j < x
    BY <2>1, <1>1, <1>3 DEF PairsOf
  <2>2. CASE x < j
    <3>1. t[j - 1] = s[(j - 1) + 1] /\ j - 1 \in 0 .. (n - 1) - 1 /\ (j - 1) + 1 = j
      BY <2>2, <1>1, <1>3
    <3> QED  BY <3>1 DEF PairsOf
  <2> QED  BY <2>1, <2>2, <1>1
<1>11. s[x] \in PairsOf(s, n)
  BY <1>1 DEF PairsOf
<1> QED  BY <1>7, <1>9, <1>10, <1>11

\* Assigning the pair of a key that is present keeps the order.
LEMMA AssignedHolds ==
    ASSUME NEW s, NEW n, Holds(s, n), NEW x \in 0 .. n - 1,
           NEW k \in Keys, NEW v \in Values, s[x].key = k
    PROVE  /\ Holds([s EXCEPT ![x] = Pair(k, v)], n)
           /\ PairsOf([s EXCEPT ![x] = Pair(k, v)], n) =
                 {e \in PairsOf(s, n) : e.key # k} \cup {Pair(k, v)}
<1> DEFINE t == [s EXCEPT ![x] = Pair(k, v)]
<1>1. /\ n \in Nat /\ x \in Nat /\ x < n /\ x \in Slots
      /\ \A j \in 0 .. n - 1 : j \in Slots /\ j < n
      /\ \A j \in Slots : j \in Int
  BY CapacityAssumption DEF Holds, Slots
<1>2. Pair(k, v) \in Pairs /\ Pair(k, v).key = k /\ k \in Int /\ Pair(k, v) # Raw
  BY KeysAssumption, SentinelAssumption DEF Pair, Pairs
<1>3. t[x] = Pair(k, v) /\ \A j \in Slots : j # x => t[j] = s[j]
  BY <1>1 DEF Holds
<1>4. t \in [Slots -> Pairs \cup {Raw}]
  BY <1>1, <1>2 DEF Holds
<1>5. \A j \in Slots : t[j] # Raw <=> j < n
  BY <1>1, <1>2, <1>3 DEF Holds
<1>6. \A j \in Slots : t[j].key = s[j].key
  BY <1>1, <1>2, <1>3
<1>7. Holds(t, n)
  BY <1>1, <1>4, <1>5, <1>6 DEF Holds
<1>8. \A j \in 0 .. n - 1 : j # x => s[j].key # k
  <2> SUFFICES ASSUME NEW j \in 0 .. n - 1, j # x
               PROVE  s[j].key # k
    OBVIOUS
  <2>1. s[j].key \in Int
    BY <1>1, SlotIsPair
  <2>2. s[j].key < s[x].key \/ s[x].key < s[j].key
    BY <1>1 DEF Holds
  <2> QED  BY <2>1, <2>2, <1>2
<1>9. PairsOf(t, n) = {e \in PairsOf(s, n) : e.key # k} \cup {Pair(k, v)}
  BY <1>1, <1>2, <1>3, <1>8 DEF PairsOf
<1> QED  BY <1>7, <1>9

-----------------------------------------------------------------------------
(***************************************************************************)
(* The inductive invariant.                                                *)
(***************************************************************************)

\* Every object's storage is sorted; one that is not alive holds nothing.
StoredInv ==
    /\ m_storage \in [Objects -> [Slots -> Pairs \cup {Raw}]]
    /\ m_size \in [Objects -> 0 .. Capacity]
    /\ alive \subseteq Objects
    /\ \A o \in Objects : Holds(m_storage[o], m_size[o])
    /\ \A o \in Objects \ alive : m_size[o] = 0

\* The types of the variables of an operation in progress.
CallInv ==
    /\ pc \in {"idle", "search", "return", "range", "copy"}
    /\ pc = "idle" => call = NoCall /\ first = 0 /\ last = 0 /\ index = 0 /\ found = FALSE
    /\ pc \in {"search", "return", "range"} => call.object \in alive
    /\ pc \in {"search", "return"} =>
           \/ call.op = "find" /\ call.key \in Keys
           \/ call.op = "emplace" /\ call.key \in Keys /\ call.value \in Values
    /\ pc = "copy" =>
           /\ call.op = "copy" /\ call.object \in Objects \ alive /\ call.from \in alive
           /\ CopiesPairs \/ m_size[call.from] = 0
    /\ first \in Slots /\ last \in 0 .. Capacity
    /\ found \in BOOLEAN /\ index \in 0 .. Capacity
    /\ answer \in Values \cup {NotFound}

\* emplace is in progress only while there is room, and the keys that are
\* left to erase are those of the slots from first to last - 1.
ProgressInv ==
    /\ pc \in {"search", "return"} /\ call.op = "emplace" => m_size[call.object] < Capacity
    /\ pc = "range" =>
           /\ call.op = "erase"
           /\ first =< last /\ last =< m_size[call.object]
           /\ \A j \in Slots : j < m_size[call.object] =>
                 (Key(j) \in call.keys <=> first =< j /\ j < last)

Inv == StoredInv /\ CallInv /\ SearchIsExact /\ ProgressInv

\* The inductive invariant implies the two invariants that are checked.
LEMMA InvImplies == Inv => TypeOK /\ StorageIsSorted
BY DEF Inv, StoredInv, CallInv, TypeOK, StorageIsSorted, Holds

\* Zero is a slot, and an index of the search.
LEMMA ZeroIsIndex == 0 \in Slots /\ 0 \in 0 .. Capacity
BY CapacityAssumption DEF Slots

\* The invariant holds before any object is constructed.
LEMMA InitInv == Init => Inv
<1> SUFFICES ASSUME Init PROVE Inv
  OBVIOUS
<1> USE DEF Init
<1>1. StoredInv
  BY RawHolds, CapacityAssumption DEF StoredInv
<1>2. CallInv
  BY ZeroIsIndex DEF CallInv
<1>3. SearchIsExact /\ ProgressInv
  BY DEF SearchIsExact, ProgressInv
<1> QED  BY <1>1, <1>2, <1>3 DEF Inv

\* The facts about the object of the call that the steps need.
LEMMA CallObject ==
    ASSUME Inv, pc # "idle"
    PROVE  /\ call.object \in Objects
           /\ Holds(m_storage[call.object], m_size[call.object])
           /\ m_size[call.object] \in Nat /\ m_size[call.object] =< Capacity /\ Capacity \in Nat
           /\ \A j \in Slots : j < m_size[call.object] => Key(j) \in Int
<1>1. call.object \in Objects /\ Holds(m_storage[call.object], m_size[call.object])
  BY DEF Inv, StoredInv, CallInv
<1>2. \A j \in Slots : j < m_size[call.object] => Key(j) \in Int
  BY <1>1, SlotIsPair DEF Key
<1> QED  BY <1>1, <1>2, CapacityAssumption DEF Holds

\* Updating one object with storage that holds its pairs keeps StoredInv.
LEMMA StoreOne ==
    ASSUME StoredInv, NEW o \in Objects, NEW t, NEW n, Holds(t, n),
           o \in alive',  alive' \subseteq Objects,
           \A q \in Objects \ {o} : q \in alive => q \in alive',
           m_storage' = [m_storage EXCEPT ![o] = t],
           m_size' = [m_size EXCEPT ![o] = n]
    PROVE  StoredInv'
<1>1. t \in [Slots -> Pairs \cup {Raw}] /\ n \in 0 .. Capacity
  BY DEF Holds
<1>2. \A q \in Objects : m_storage'[q] = (IF q = o THEN t ELSE m_storage[q])
                       /\ m_size'[q] = (IF q = o THEN n ELSE m_size[q])
  BY DEF StoredInv
<1>3. m_storage' \in [Objects -> [Slots -> Pairs \cup {Raw}]] /\ m_size' \in [Objects -> 0 .. Capacity]
  BY <1>1 DEF StoredInv
<1>4. \A q \in Objects : Holds(m_storage'[q], m_size'[q])
  BY <1>2 DEF StoredInv
<1>5. \A q \in Objects \ alive' : m_size'[q] = 0
  BY <1>2 DEF StoredInv
<1> QED  BY <1>3, <1>4, <1>5 DEF StoredInv

\* An operation that returns leaves nothing of its search.
LEMMA ReturnInv ==
    ASSUME Return, StoredInv', answer' \in Values \cup {NotFound}
    PROVE  Inv'
<1>1. CallInv'
  BY ZeroIsIndex DEF Return, CallInv
<1>2. SearchIsExact' /\ ProgressInv'
  BY DEF Return, SearchIsExact, ProgressInv
<1> QED  BY <1>1, <1>2 DEF Inv

\* A step between operations changes only what the objects hold.
LEMMA IdleInv ==
    ASSUME Inv, pc = "idle", StoredInv', UNCHANGED <<pc, search>>,
           answer' \in Values \cup {NotFound}
    PROVE  Inv'
<1>1. CallInv'
  BY DEF Inv, CallInv, search
<1>2. SearchIsExact' /\ ProgressInv'
  BY DEF SearchIsExact, ProgressInv, search
<1> QED  BY <1>1, <1>2 DEF Inv

-----------------------------------------------------------------------------
(***************************************************************************)
(* The steps of the search.                                                *)
(***************************************************************************)

\* A call that starts a search establishes its invariant.
LEMMA StartInv ==
    ASSUME Inv, NEW o \in Objects, Idle(o), NEW c, StartSearch(c), c.object = o,
           \/ c.op = "find" /\ c.key \in Keys
           \/ c.op = "emplace" /\ c.key \in Keys /\ c.value \in Values /\ m_size[o] < Capacity
    PROVE  Inv'
<1> DEFINE n == m_size[o]
<1>1. /\ UNCHANGED <<alive, m_storage, m_size, first, found, index, answer>>
      /\ call' = c /\ first = 0 /\ last = 0 /\ index = 0 /\ found = FALSE /\ o \in alive
  BY DEF Inv, CallInv, Idle, StartSearch, contents
<1>2. n \in Nat /\ n =< Capacity /\ Capacity \in Nat /\ Capacity # 0
  BY CapacityAssumption DEF Inv, StoredInv, Holds
<1>3. StoredInv'
  BY <1>1 DEF Inv, StoredInv
<1>4. CASE n = 0
  <2>1. pc' = "return" /\ last' = 0
    BY <1>1, <1>4 DEF StartSearch
  <2>2. CallInv'
    BY <1>1, <1>2, <2>1 DEF Inv, CallInv, Slots
  <2>3. SearchIsExact'
    BY <1>1, <1>2, <1>4, <2>1 DEF SearchIsExact, Slots
  <2>4. ProgressInv'
    BY <1>1, <2>1 DEF ProgressInv
  <2> QED  BY <1>3, <2>2, <2>3, <2>4 DEF Inv
<1>5. CASE n # 0
  <2>1. pc' = "search" /\ last' = n - 1
    BY <1>1, <1>5 DEF StartSearch
  <2>2. CallInv'
    BY <1>1, <1>2, <1>5, <2>1 DEF Inv, CallInv, Slots
  <2>3. SearchIsExact'
    BY <1>1, <1>2, <1>5, <2>1 DEF SearchIsExact, Slots
  <2>4. ProgressInv'
    BY <1>1, <2>1 DEF ProgressInv
  <2> QED  BY <1>3, <2>2, <2>3, <2>4 DEF Inv
<1> QED  BY <1>4, <1>5

\* The middle of two different indices is between them.
LEMMA MiddleIsBetween ==
    ASSUME NEW a \in Nat, NEW b \in Nat, a < b
    PROVE  /\ (a + b) \div 2 \in Nat
           /\ a =< (a + b) \div 2 /\ (a + b) \div 2 < b
OBVIOUS

\* Halving the range of find_index keeps the key inside it.
LEMMA SearchMovesInv ==
    ASSUME Inv, SearchBefore \/ SearchAfter
    PROVE  Inv'
<1> DEFINE o == call.object
           n == m_size[call.object]
           k == call.key
<1>1. /\ pc = "search" /\ pc' = "search" /\ first # last
      /\ UNCHANGED <<alive, m_storage, m_size, pc, call, found, index, answer>>
  BY DEF SearchBefore, SearchAfter, contents
<1>2. /\ o \in Objects /\ Holds(m_storage[o], n) /\ n \in Nat /\ n =< Capacity /\ Capacity \in Nat
      /\ \A j \in Slots : j < n => Key(j) \in Int
  BY <1>1, CallObject
<1>3. /\ first \in Nat /\ last \in Nat /\ first < last /\ last < n
      /\ \A j \in Slots : j < first => Key(j) < k
      /\ \A j \in Slots : last < j /\ j < n => k < Key(j)
      /\ k \in Int
  <2>1. k \in Int
    BY <1>1, KeysAssumption DEF Inv, CallInv
  <2>2. first \in Nat /\ last \in Nat
    BY CapacityAssumption DEF Inv, CallInv, Slots
  <2> QED  BY <1>1, <2>1, <2>2 DEF Inv, SearchIsExact
<1>4. Middle \in Nat /\ first =< Middle /\ Middle < last
  BY <1>3, MiddleIsBetween DEF Middle
<1>5. /\ Middle \in Slots
      /\ \A j \in Slots : j \in Nat
      /\ \A j \in Slots : j < Middle => Key(j) < Key(Middle)
      /\ \A j \in Slots : Middle < j /\ j < n => Key(Middle) < Key(j)
  BY <1>2, <1>3, <1>4 DEF Holds, Key, Slots
<1>6. StoredInv'
  BY <1>1 DEF Inv, StoredInv
<1>7. ProgressInv'
  BY <1>1 DEF Inv, ProgressInv
<1>8. \A j : Key(j)' = Key(j)
  BY <1>1 DEF Key
<1>9. CASE SearchBefore
  <2>1. k < Key(Middle) /\ last' = Middle /\ first' = first
    BY <1>9 DEF SearchBefore
  <2>2. CallInv'
    BY <1>1, <1>2, <1>3, <1>4, <2>1 DEF Inv, CallInv
  <2>3. \A j \in Slots : Middle < j /\ j < n => k < Key(j)
    BY <2>1, <1>2, <1>3, <1>5
  <2>4. first' =< last' /\ last' < n
    BY <2>1, <1>2, <1>3, <1>4
  <2>5. SearchIsExact'
    BY <2>1, <2>3, <2>4, <1>1, <1>3, <1>8 DEF SearchIsExact
  <2> QED  BY <2>2, <2>5, <1>6, <1>7 DEF Inv
<1>10. CASE SearchAfter
  <2>1. Key(Middle) < k /\ first' = Middle + 1 /\ last' = last
    BY <1>10 DEF SearchAfter
  <2>2. CallInv'
    BY <1>1, <1>2, <1>3, <1>4, <2>1 DEF Inv, CallInv, Slots
  <2>3. \A j \in Slots : j < Middle + 1 => Key(j) < k
    <3> SUFFICES ASSUME NEW j \in Slots, j < Middle + 1 PROVE Key(j) < k
      OBVIOUS
    <3>1. j < n /\ Middle < n
      BY <1>2, <1>3, <1>4, <1>5
    <3>2. Key(j) \in Int /\ Key(Middle) \in Int
      BY <3>1, <1>2, <1>5
    <3>3. j = Middle \/ j < Middle
      BY <1>4 DEF Slots
    <3> QED  BY <3>2, <3>3, <2>1, <1>3, <1>5
  <2>4. first' =< last' /\ last' < n
    BY <2>1, <1>2, <1>3, <1>4
  <2>5. SearchIsExact'
    BY <2>1, <2>3, <2>4, <1>1, <1>3, <1>8 DEF SearchIsExact
  <2> QED  BY <2>2, <2>5, <1>6, <1>7 DEF Inv
<1> QED  BY <1>9, <1>10

\* What find_index returns is exact.
LEMMA SearchStopsInv ==
    ASSUME Inv, SearchHits \/ SearchEnds
    PROVE  Inv'
<1> DEFINE o == call.object
           n == m_size[call.object]
           k == call.key
<1>1. PICK f \in BOOLEAN, x \in {Middle, first, first + 1} :
        /\ pc = "search" /\ FindIndexReturns(f, x)
        /\ \/ first # last /\ k = Key(Middle) /\ f = TRUE /\ x = Middle
           \/ first = last /\ k < Key(first) /\ f = FALSE /\ x = first
           \/ first = last /\ Key(first) < k /\ f = FALSE /\ x = first + 1
           \/ first = last /\ k = Key(first) /\ f = TRUE /\ x = first
  BY DEF SearchHits, SearchEnds
<1>2. /\ o \in Objects /\ Holds(m_storage[o], n) /\ n \in Nat /\ n =< Capacity /\ Capacity \in Nat
      /\ \A j \in Slots : j < n => Key(j) \in Int
  BY <1>1, CallObject
<1>3. /\ first \in Nat /\ last \in Nat /\ first =< last /\ last < n
      /\ \A j \in Slots : j < first => Key(j) < k
      /\ \A j \in Slots : last < j /\ j < n => k < Key(j)
      /\ k \in Int
  <2>1. k \in Int
    BY <1>1, KeysAssumption DEF Inv, CallInv
  <2>2. first \in Nat /\ last \in Nat
    BY CapacityAssumption DEF Inv, CallInv, Slots
  <2> QED  BY <1>1, <2>1, <2>2 DEF Inv, SearchIsExact
<1>4. /\ UNCHANGED <<alive, m_storage, m_size, call, first, last, answer>>
      /\ pc' = "return" /\ found' = f /\ index' = x
  BY <1>1 DEF FindIndexReturns, contents
<1>5. StoredInv'
  BY <1>4 DEF Inv, StoredInv
<1>6. ProgressInv'
  BY <1>1, <1>4 DEF Inv, ProgressInv
<1>7. \A j : Key(j)' = Key(j)
  BY <1>4 DEF Key
<1>8. x \in 0 .. n /\ (f => x < n /\ Key(x) = k)
  <2>1. first # last => Middle \in Nat /\ Middle < n
    BY <1>3, <1>2, MiddleIsBetween DEF Middle
  <2> QED  BY <1>1, <1>2, <1>3, <2>1
<1>9. CallInv'
  BY <1>1, <1>2, <1>4, <1>8 DEF Inv, CallInv
<1>10. ASSUME ~f
       PROVE  /\ \A j \in Slots : j < x => Key(j) < k
              /\ \A j \in Slots : x =< j /\ j < n => k < Key(j)
  <2>1. /\ first \in Slots
        /\ \A j \in Slots : j \in Nat
        /\ \A j \in Slots : first < j /\ j < n => Key(first) < Key(j)
    BY <1>2, <1>3 DEF Holds, Key, Slots
  <2>2. CASE first = last /\ k < Key(first) /\ x = first
    BY <2>1, <2>2, <1>2, <1>3
  <2>3. CASE first = last /\ Key(first) < k /\ x = first + 1
    BY <2>1, <2>3, <1>2, <1>3
  <2> QED  BY <2>2, <2>3, <1>1, <1>10
<1>11. SearchIsExact'
  BY <1>2, <1>4, <1>7, <1>8, <1>10 DEF SearchIsExact
<1> QED  BY <1>5, <1>6, <1>9, <1>11 DEF Inv

-----------------------------------------------------------------------------
(***************************************************************************)
(* The steps that change what an object holds, and the step of KeyedMap    *)
(* that each of them implements.                                           *)
(***************************************************************************)

\* Updating the storage of one object updates its map.
LEMMA MapOne ==
    ASSUME StoredInv, NEW o \in Objects, NEW t, NEW n,
           m_storage' = [m_storage EXCEPT ![o] = t],
           m_size' = [m_size EXCEPT ![o] = n]
    PROVE  Maps' = [Maps EXCEPT ![o] = PairsOf(t, n)]
<1>1. \A q \in Objects : m_storage'[q] = (IF q = o THEN t ELSE m_storage[q])
                       /\ m_size'[q] = (IF q = o THEN n ELSE m_size[q])
  BY DEF StoredInv
<1>2. \A q \in Objects : Contents(q)' = (IF q = o THEN PairsOf(t, n) ELSE Contents(q))
  BY <1>1 DEF Contents, PairsOf
<1> QED  BY <1>2 DEF Maps

\* An empty storage has no pairs.
LEMMA NoPairs == \A s : PairsOf(s, 0) = {}
BY DEF PairsOf

\* clear and the destructor.
LEMMA ClearStep ==
    ASSUME Inv, NEW o \in Objects, Clear(o) \/ Destruct(o)
    PROVE  Inv' /\ Map!Next
<1> DEFINE t == Destroyed(m_storage[o], m_size[o])
<1>1. /\ pc = "idle" /\ o \in alive /\ UNCHANGED <<pc, search, answer>>
      /\ m_storage' = [m_storage EXCEPT ![o] = t]
      /\ m_size' = [m_size EXCEPT ![o] = 0]
      /\ alive' = alive \/ alive' = alive \ {o}
  BY DEF Clear, Destruct, Idle
<1>2. Holds(t, 0)
  BY DestroyedHolds DEF Inv, StoredInv
<1>3. StoredInv'
  <2>1. t \in [Slots -> Pairs \cup {Raw}]
    BY <1>2 DEF Holds
  <2>2. \A q \in Objects : m_storage'[q] = (IF q = o THEN t ELSE m_storage[q])
                         /\ m_size'[q] = (IF q = o THEN 0 ELSE m_size[q])
    BY <1>1 DEF Inv, StoredInv
  <2>3. m_storage' \in [Objects -> [Slots -> Pairs \cup {Raw}]] /\ m_size' \in [Objects -> 0 .. Capacity]
    BY <1>1, <2>1, CapacityAssumption DEF Inv, StoredInv
  <2>4. \A q \in Objects : Holds(m_storage'[q], m_size'[q])
    BY <1>2, <2>2 DEF Inv, StoredInv
  <2>5. \A q \in Objects \ alive' : m_size'[q] = 0
    BY <1>1, <2>2 DEF Inv, StoredInv
  <2>6. alive' \subseteq Objects
    BY <1>1 DEF Inv, StoredInv
  <2> QED  BY <2>3, <2>4, <2>5, <2>6 DEF StoredInv
<1>4. Inv'
  BY <1>1, <1>3, IdleInv DEF Inv, CallInv
<1>5. Maps' = [Maps EXCEPT ![o] = {}]
  <2>1. StoredInv
    BY DEF Inv
  <2>2. Maps' = [Maps EXCEPT ![o] = PairsOf(t, 0)]
    BY ONLY <2>1, <1>1, o \in Objects, MapOne
  <2> QED  BY <2>2, NoPairs
<1>6. call = Map!None /\ call' = call
  BY <1>1 DEF Inv, CallInv, Map!None, NoCall, search
<1>7. CASE Clear(o)
  <2>1. Map!Clear(o)
    BY <1>1, <1>5, <1>6, <1>7 DEF Map!Clear, Clear
  <2> QED  BY <1>4, <2>1 DEF Map!Next
<1>8. CASE Destruct(o)
  <2>1. Map!Destroy(o)
    BY <1>1, <1>5, <1>6, <1>8 DEF Map!Destroy, Destruct
  <2> QED  BY <1>4, <2>1 DEF Map!Next
<1> QED  BY <1>4, <1>7, <1>8

\* emplace of a key that is present.
LEMMA EmplaceFoundStep ==
    ASSUME Inv, EmplaceFound
    PROVE  Inv' /\ Map!Next
<1> DEFINE o == call.object
           n == m_size[call.object]
           t == [m_storage[call.object] EXCEPT ![index] = Pair(call.key, call.value)]
<1>1. /\ pc = "return" /\ call.op = "emplace" /\ found /\ Return
      /\ m_storage' = [m_storage EXCEPT ![o][index] = Pair(call.key, call.value)]
      /\ UNCHANGED <<alive, m_size, answer>>
  BY DEF EmplaceFound
<1>2. o \in Objects /\ o \in alive /\ Holds(m_storage[o], n) /\ n \in Nat
  BY <1>1, CallObject DEF Inv, CallInv
<1>3. index \in 0 .. n - 1 /\ m_storage[o][index].key = call.key
  <2>1. index < n /\ Key(index) = call.key
    BY <1>1 DEF Inv, SearchIsExact
  <2>2. index \in Nat
    BY CapacityAssumption DEF Inv, CallInv
  <2> QED  BY <1>2, <2>1, <2>2 DEF Key
<1>4. call.key \in Keys /\ call.value \in Values
  BY <1>1 DEF Inv, CallInv
<1>5. Holds(t, n) /\ PairsOf(t, n) = {e \in PairsOf(m_storage[o], n) : e.key # call.key}
                                     \cup {Pair(call.key, call.value)}
  BY <1>2, <1>3, <1>4, AssignedHolds
<1>6. m_storage' = [m_storage EXCEPT ![o] = t] /\ m_size' = [m_size EXCEPT ![o] = n]
  BY <1>1, <1>2 DEF Inv, StoredInv
<1>7. StoredInv'
  <2>1. StoredInv /\ o \in alive' /\ alive' \subseteq Objects /\ alive' = alive
    BY <1>1, <1>2 DEF Inv, StoredInv
  <2> QED  BY ONLY <2>1, <1>2, <1>5, <1>6, StoreOne
<1>8. Inv'
  BY <1>1, <1>7, ReturnInv DEF Inv, CallInv
<1>9. Maps' = [Maps EXCEPT ![o] = PairsOf(t, n)]
  BY <1>2, <1>6, MapOne, ZenonT(60) DEF Inv
<1>10. Maps[o] = PairsOf(m_storage[o], n)
  BY <1>2, ZenonT(60) DEF Maps, Contents, PairsOf
<1>11. call' = Map!None
  BY <1>1 DEF Return, NoCall, Map!None
<1>12. Map!Put
  BY <1>1, <1>5, <1>9, <1>10, <1>11 DEF Map!Put, Map!Pair, Pair
<1> QED  BY <1>8, <1>12 DEF Map!Next

\* emplace of a new key.
LEMMA EmplaceNewStep ==
    ASSUME Inv, EmplaceNew
    PROVE  Inv' /\ Map!Next
<1> DEFINE o == call.object
           n == m_size[call.object]
           t == Inserted(m_storage[call.object], n, index, Pair(call.key, call.value))
<1>1. /\ pc = "return" /\ call.op = "emplace" /\ ~found /\ Return
      /\ m_storage' = [m_storage EXCEPT ![o] = t]
      /\ m_size' = [m_size EXCEPT ![o] = @ + 1]
      /\ UNCHANGED <<alive, answer>>
  BY DEF EmplaceNew
<1>2. o \in Objects /\ o \in alive /\ Holds(m_storage[o], n) /\ n \in Nat
  BY <1>1, CallObject DEF Inv, CallInv
<1>3. /\ index \in 0 .. n /\ n < Capacity
      /\ \A j \in Slots : j < index => m_storage[o][j].key < call.key
      /\ \A j \in Slots : index =< j /\ j < n => call.key < m_storage[o][j].key
  <2>1. /\ index =< n
        /\ \A j \in Slots : j < index => Key(j) < call.key
        /\ \A j \in Slots : index =< j /\ j < n => call.key < Key(j)
    BY <1>1 DEF Inv, SearchIsExact
  <2>2. index \in Nat
    BY CapacityAssumption DEF Inv, CallInv
  <2>3. n < Capacity
    BY <1>1 DEF Inv, ProgressInv
  <2>4. index \in 0 .. n
    BY <1>2, <2>1, <2>2
  <2> QED  BY <2>1, <2>3, <2>4 DEF Key
<1>4. call.key \in Keys /\ call.value \in Values
  BY <1>1 DEF Inv, CallInv
<1>5. /\ Holds(t, n + 1)
      /\ PairsOf(t, n + 1) = PairsOf(m_storage[o], n) \cup {Pair(call.key, call.value)}
  BY <1>2, <1>3, <1>4, InsertedHolds
<1>6. m_storage' = [m_storage EXCEPT ![o] = t] /\ m_size' = [m_size EXCEPT ![o] = n + 1]
  BY <1>1
<1> DEFINE n1 == n + 1
<1> HIDE DEF t, n1
<1>7. StoredInv'
  <2>1. StoredInv /\ o \in alive' /\ alive' \subseteq Objects /\ alive' = alive
    BY <1>1, <1>2 DEF Inv, StoredInv
  <2>2. Holds(t, n1) /\ m_size' = [m_size EXCEPT ![o] = n1]
    BY <1>5, <1>6 DEF n1
  <2> QED  BY ONLY <2>1, <2>2, <1>2, <1>6, StoreOne
<1>8. Inv'
  BY <1>1, <1>7, ReturnInv DEF Inv, CallInv
<1>9. Maps' = [Maps EXCEPT ![o] = PairsOf(t, n + 1)]
  <2>1. /\ StoredInv /\ o \in Objects
        /\ m_storage' = [m_storage EXCEPT ![o] = t]
        /\ m_size' = [m_size EXCEPT ![o] = n1]
    BY <1>2, <1>6 DEF Inv, n1
  <2> HIDE DEF o
  <2>2. Maps' = [Maps EXCEPT ![o] = PairsOf(t, n1)]
    BY ONLY <2>1, MapOne
  <2> QED  BY <2>2 DEF n1
<1>10. Maps[o] = PairsOf(m_storage[o], n)
  BY <1>2 DEF Maps, Contents, PairsOf
<1>11. call' = Map!None
  BY <1>1 DEF Return, NoCall, Map!None
<1>12. \A e \in PairsOf(m_storage[o], n) : e.key # call.key
  <2> SUFFICES ASSUME NEW j \in 0 .. n - 1
               PROVE  m_storage[o][j].key # call.key
    BY DEF PairsOf
  <2>1. j \in Slots /\ j < n /\ j \in Nat /\ index \in Nat
    BY <1>2, <1>3, CapacityAssumption DEF Slots
  <2>2. m_storage[o][j].key \in Int /\ call.key \in Int
    BY <2>1, <1>2, <1>4, SlotIsPair, KeysAssumption
  <2>3. CASE j < index
    BY <2>1, <2>2, <2>3, <1>3
  <2>4. CASE index =< j
    BY <2>1, <2>2, <2>4, <1>3
  <2> QED  BY <2>1, <2>3, <2>4
<1>13. {e \in Maps[o] : e.key # call.key} = Maps[o]
  BY <1>10, <1>12
<1>14. Map!Put
  BY <1>1, <1>5, <1>9, <1>10, <1>11, <1>13 DEF Map!Put, Map!Pair, Pair
<1> QED  BY <1>8, <1>14 DEF Map!Next

\* find returns the value of its key, or end() when no pair has the key.
LEMMA FindReturnsStep ==
    ASSUME Inv, FindReturns
    PROVE  Inv' /\ Map!Next
<1> DEFINE o == call.object
           n == m_size[call.object]
<1>1. /\ pc = "return" /\ call.op = "find" /\ Return
      /\ answer' = IF found THEN m_storage[o][index].value ELSE NotFound
      /\ UNCHANGED <<alive, m_storage, m_size>>
  BY DEF FindReturns, contents
<1>2. o \in Objects /\ Holds(m_storage[o], n) /\ n \in Nat /\ n =< Capacity /\ Capacity \in Nat
  BY <1>1, CallObject
<1>3. StoredInv'
  BY <1>1 DEF Inv, StoredInv
<1>4. Maps' = Maps
  BY <1>1 DEF Maps, Contents
<1>5. Maps[o] = PairsOf(m_storage[o], n)
  BY <1>2 DEF Maps, Contents, PairsOf
<1>6. call' = Map!None
  BY <1>1 DEF Return, NoCall, Map!None
<1>7. CASE found
  <2>1. index < n /\ Key(index) = call.key /\ index \in Nat
    BY <1>1, <1>7, CapacityAssumption DEF Inv, SearchIsExact, CallInv
  <2>2. index \in Slots
    BY <2>1, <1>2 DEF Slots
  <2> DEFINE e == m_storage[o][index]
  <2>3. e \in Pairs /\ e.value \in Values /\ e.key = call.key
    BY <2>1, <2>2, <1>2, SlotIsPair DEF Key
  <2>4. e = Map!Pair(call.key, e.value)
    BY <2>3 DEF Pairs, Map!Pair
  <2>5. e \in Maps[o]
    BY <2>1, <1>2, <1>5 DEF PairsOf
  <2>6. answer' = e.value
    BY <1>1, <1>7
  <2>7. Inv'
    BY <1>1, <1>3, <2>3, <2>6, ReturnInv
  <2>8. Map!Get
    BY <1>1, <1>4, <1>6, <2>3, <2>4, <2>5, <2>6 DEF Map!Get
  <2> QED  BY <2>7, <2>8 DEF Map!Next
<1>8. CASE ~found
  <2>1. /\ index =< n /\ index \in Nat
        /\ \A j \in Slots : j < index => Key(j) < call.key
        /\ \A j \in Slots : index =< j /\ j < n => call.key < Key(j)
    BY <1>1, <1>8, CapacityAssumption DEF Inv, SearchIsExact, CallInv
  <2>2. call.key \in Int
    BY <1>1, KeysAssumption DEF Inv, CallInv
  <2>3. \A e \in Maps[o] : e.key # call.key
    <3> SUFFICES ASSUME NEW j \in 0 .. n - 1
                 PROVE  m_storage[o][j].key # call.key
      BY <1>5 DEF PairsOf
    <3>1. j \in Slots /\ j < n /\ j \in Nat
      BY <1>2 DEF Slots
    <3>2. Key(j) \in Int
      BY <3>1, <1>2, SlotIsPair DEF Key
    <3>3. Key(j) # call.key
      BY <3>1, <3>2, <2>1, <2>2
    <3> QED  BY <3>3 DEF Key
  <2>4. \A v \in Values : Map!Pair(call.key, v) \notin Maps[o]
    BY <2>3 DEF Map!Pair
  <2>5. answer' = NotFound
    BY <1>1, <1>8
  <2>6. Inv'
    BY <1>1, <1>3, <2>5, ReturnInv
  <2>7. Map!Get
    BY <1>1, <1>4, <1>6, <2>4, <2>5 DEF Map!Get
  <2> QED  BY <2>6, <2>7 DEF Map!Next
<1> QED  BY <1>7, <1>8

\* A call of emplace.
LEMMA EmplaceCallStep ==
    ASSUME Inv, NEW o \in Objects, NEW k \in Keys, NEW v \in Values, EmplaceCall(o, k, v)
    PROVE  Inv' /\ Map!Next
<1> DEFINE c == [op |-> "emplace", object |-> o, key |-> k, value |-> v]
<1>1. pc = "idle" /\ o \in alive /\ Idle(o)
  BY DEF EmplaceCall, Idle
<1>2. call = Map!None
  BY <1>1 DEF Inv, CallInv, Map!None, NoCall
<1>3. StartSearch(c) /\ m_size[o] < Capacity
  BY DEF EmplaceCall
<1>4. c.object = o /\ c.op = "emplace" /\ c.key \in Keys /\ c.value \in Values
  OBVIOUS
<1> HIDE DEF c
<1>5. Inv'
  BY <1>1, <1>3, <1>4, StartInv
<1>6. call' = c /\ UNCHANGED <<alive, Maps, answer>>
  BY <1>3 DEF StartSearch, contents, Maps, Contents
<1>7. Map!RequestPut(o, k, v)
  BY <1>1, <1>2, <1>6 DEF Map!RequestPut, c
<1> QED  BY <1>5, <1>7 DEF Map!Next

\* A call of find.
LEMMA FindCallStep ==
    ASSUME Inv, NEW o \in Objects, NEW k \in Keys, FindCall(o, k)
    PROVE  Inv' /\ Map!Next
<1> DEFINE c == [op |-> "find", object |-> o, key |-> k]
<1>1. pc = "idle" /\ o \in alive /\ Idle(o)
  BY DEF FindCall, Idle
<1>2. call = Map!None
  BY <1>1 DEF Inv, CallInv, Map!None, NoCall
<1>3. StartSearch(c)
  BY DEF FindCall
<1>4. c.object = o /\ c.op = "find" /\ c.key \in Keys
  OBVIOUS
<1> HIDE DEF c
<1>5. Inv'
  BY <1>1, <1>3, <1>4, StartInv
<1>6. call' = c /\ UNCHANGED <<alive, Maps, answer>>
  BY <1>3 DEF StartSearch, contents, Maps, Contents
<1>7. Map!RequestGet(o, k)
  BY <1>1, <1>2, <1>6 DEF Map!RequestGet, c
<1> QED  BY <1>5, <1>7 DEF Map!Next

\* erase of one position of an object, alone or as part of a range.
LEMMA EraseOne ==
    ASSUME Inv, NEW o \in Objects, o \in alive, NEW x \in 0 .. m_size[o] - 1, Erase(o, x)
    PROVE  /\ StoredInv'
           /\ m_storage[o][x] \in Maps[o]
           /\ Maps' = [Maps EXCEPT ![o] = Maps[o] \ {m_storage[o][x]}]
           /\ m_size'[o] = m_size[o] - 1
           /\ m_storage'[o] = Erased(m_storage[o], m_size[o], x)
<1> DEFINE n == m_size[o]
           n1 == m_size[o] - 1
           t == Erased(m_storage[o], m_size[o], x)
<1>1. /\ m_storage' = [m_storage EXCEPT ![o] = t]
      /\ m_size' = [m_size EXCEPT ![o] = n1]
      /\ alive' = alive
  BY DEF Erase
<1>2. StoredInv /\ Holds(m_storage[o], n)
  BY DEF Inv, StoredInv
<1>3. /\ Holds(t, n1)
      /\ PairsOf(t, n1) = PairsOf(m_storage[o], n) \ {m_storage[o][x]}
      /\ m_storage[o][x] \in PairsOf(m_storage[o], n)
  BY <1>2, ErasedHolds
<1>4. Maps[o] = PairsOf(m_storage[o], n)
  BY DEF Maps, Contents, PairsOf
<1>5. m_size'[o] = n1 /\ m_storage'[o] = t
  BY <1>1, <1>2 DEF StoredInv
<1> HIDE DEF t, n1
<1>6. StoredInv'
  <2>1. o \in alive' /\ alive' \subseteq Objects
    BY <1>1, <1>2 DEF StoredInv
  <2> QED  BY ONLY <2>1, <1>1, <1>2, <1>3, o \in Objects, StoreOne
<1>7. Maps' = [Maps EXCEPT ![o] = PairsOf(t, n1)]
  BY ONLY <1>1, <1>2, o \in Objects, MapOne
<1> QED  BY <1>3, <1>4, <1>5, <1>6, <1>7 DEF t, n1

\* erase(position) removes the pair of its slot.
LEMMA ErasePositionStep ==
    ASSUME Inv, NEW o \in Objects, NEW x \in Slots, ErasePosition(o, x)
    PROVE  Inv' /\ Map!Next
<1>1. /\ pc = "idle" /\ o \in alive /\ x < m_size[o] /\ Erase(o, x)
      /\ UNCHANGED <<pc, search, alive, answer>>
  BY DEF ErasePosition, Erase, Idle, search
<1>2. x \in 0 .. m_size[o] - 1
  BY <1>1, CapacityAssumption DEF Inv, StoredInv, Slots
<1>3. /\ StoredInv' /\ m_storage[o][x] \in Maps[o]
      /\ Maps' = [Maps EXCEPT ![o] = Maps[o] \ {m_storage[o][x]}]
  BY <1>1, <1>2, EraseOne
<1>4. Inv'
  BY <1>1, <1>3, IdleInv DEF Inv, CallInv
<1>5. call = Map!None /\ call' = call
  BY <1>1 DEF Inv, CallInv, Map!None, NoCall, search
<1>6. Map!RemovePair(o)
  BY <1>1, <1>3, <1>5 DEF Map!RemovePair
<1> QED  BY <1>4, <1>6 DEF Map!Next

\* A call of erase(first, last).
LEMMA EraseRangeCallStep ==
    ASSUME Inv, NEW o \in Objects, NEW a \in Slots, NEW b \in 0 .. Capacity,
           EraseRangeCall(o, a, b)
    PROVE  Inv' /\ Map!Next
<1> DEFINE n == m_size[o]
           keys == {m_storage[o][j].key : j \in a .. b - 1}
<1>1. /\ pc = "idle" /\ o \in alive /\ a < b /\ b =< n
      /\ call' = [op |-> "erase", object |-> o, keys |-> keys]
      /\ first' = a /\ last' = b /\ pc' = "range"
      /\ UNCHANGED <<alive, m_storage, m_size, found, index, answer>>
  BY DEF EraseRangeCall, Idle, contents
<1>2. Holds(m_storage[o], n) /\ n \in Nat /\ n =< Capacity /\ Capacity \in Nat /\ a \in Nat /\ b \in Nat
  BY CapacityAssumption DEF Inv, StoredInv, Holds, Slots
<1>3. keys \in SUBSET Keys
  <2> SUFFICES ASSUME NEW j \in a .. b - 1 PROVE m_storage[o][j].key \in Keys
    OBVIOUS
  <2>1. j \in Slots /\ j < n
    BY <1>1, <1>2 DEF Slots
  <2> QED  BY <2>1, <1>2, SlotIsPair
<1>4. \A j \in Slots : j < n => (m_storage[o][j].key \in keys <=> a =< j /\ j < b)
  <2> SUFFICES ASSUME NEW j \in Slots, j < n
               PROVE  m_storage[o][j].key \in keys <=> a =< j /\ j < b
    OBVIOUS
  <2>1. j \in Nat
    BY DEF Slots
  <2>2. a =< j /\ j < b => m_storage[o][j].key \in keys
    BY <2>1, <1>2
  <2>3. ASSUME NEW i \in a .. b - 1, m_storage[o][i].key = m_storage[o][j].key
        PROVE  i = j
    <3>1. i \in Slots /\ i < n /\ i \in Nat
      BY <1>1, <1>2 DEF Slots
    <3>2. m_storage[o][i].key \in Int /\ m_storage[o][j].key \in Int
      BY <3>1, <1>2, SlotIsPair
    <3>3. i < j => m_storage[o][i].key < m_storage[o][j].key
      BY <3>1, <1>2 DEF Holds
    <3>4. j < i => m_storage[o][j].key < m_storage[o][i].key
      BY <3>1, <1>2 DEF Holds
    <3> QED  BY <2>1, <2>3, <3>1, <3>2, <3>3, <3>4
  <2>4. m_storage[o][j].key \in keys => a =< j /\ j < b
    BY <2>1, <2>3, <1>2
  <2> QED  BY <2>2, <2>4
<1> HIDE DEF keys
<1>5. StoredInv'
  BY <1>1 DEF Inv, StoredInv
<1>6. CallInv'
  BY <1>1 DEF Inv, CallInv
<1>7. SearchIsExact'
  BY <1>1 DEF SearchIsExact
<1>8. ProgressInv'
  <2>1. call'.op = "erase" /\ call'.object = o /\ call'.keys = keys
    BY <1>1
  <2>2. first' =< last' /\ last' =< n
    BY <1>1, <1>2
  <2> QED  BY <1>1, <1>4, <2>1, <2>2 DEF ProgressInv, Key
<1>9. Inv'
  BY <1>5, <1>6, <1>7, <1>8 DEF Inv
<1>10. call = Map!None
  BY <1>1 DEF Inv, CallInv, Map!None, NoCall
<1>11. UNCHANGED Maps
  BY <1>1 DEF Maps, Contents
<1>12. Map!RequestRemove(o, keys)
  BY <1>1, <1>10, <1>11 DEF Map!RequestRemove
<1> QED  BY <1>3, <1>9, <1>12 DEF Map!Next

\* An iteration of erase(first, last).
LEMMA EraseRangeStepStep ==
    ASSUME Inv, EraseRangeStep
    PROVE  Inv' /\ Map!Next
<1> DEFINE o == call.object
           n == m_size[call.object]
           x == last - 1
           s == m_storage[call.object]
<1>1. /\ pc = "range" /\ last # first /\ Erase(o, x) /\ last' = last - 1
      /\ UNCHANGED <<pc, call, first, alive, found, index, answer>>
  BY DEF EraseRangeStep, Erase
<1>2. /\ o \in Objects /\ o \in alive /\ Holds(s, n) /\ n \in Nat /\ n =< Capacity /\ Capacity \in Nat
  BY <1>1, CallObject DEF Inv, CallInv
<1>3. /\ call.op = "erase" /\ first =< last /\ last =< n
      /\ \A j \in Slots : j < n => (s[j].key \in call.keys <=> first =< j /\ j < last)
  BY <1>1 DEF Inv, ProgressInv, Key
<1>4. first \in Nat /\ last \in Nat /\ first < last /\ x \in 0 .. n - 1 /\ x \in Slots /\ x < n
  <2>1. first \in Nat /\ last \in Nat
    BY <1>2 DEF Inv, CallInv, Slots
  <2> QED  BY <1>1, <1>2, <1>3, <2>1 DEF Slots
<1>5. /\ StoredInv' /\ s[x] \in Maps[o]
      /\ Maps' = [Maps EXCEPT ![o] = Maps[o] \ {s[x]}]
      /\ m_size'[o] = n - 1 /\ m_storage'[o] = Erased(s, n, x)
  BY <1>1, <1>2, <1>4, EraseOne
<1>6. CallInv'
  <2>1. last' \in 0 .. Capacity
    BY <1>1, <1>2, <1>3, <1>4
  <2> QED  BY <1>1, <2>1 DEF Inv, CallInv
<1>7. SearchIsExact'
  BY <1>1 DEF SearchIsExact
<1>8. \A j \in Slots : j < n - 1 =>
         (Erased(s, n, x)[j].key \in call.keys <=> first =< j /\ j < x)
  <2> SUFFICES ASSUME NEW j \in Slots, j < n - 1
               PROVE  Erased(s, n, x)[j].key \in call.keys <=> first =< j /\ j < x
    OBVIOUS
  <2>1. j \in Nat
    BY DEF Slots
  <2>2. CASE j < x
    <3>1. Erased(s, n, x)[j] = s[j]
      BY <2>1, <2>2, <1>2, <1>4 DEF Erased
    <3>2. j < n /\ j < last
      BY <2>1, <2>2, <1>2, <1>4
    <3> QED  BY <2>2, <3>1, <3>2, <1>3
  <2>3. CASE ~(j < x)
    <3>1. Erased(s, n, x)[j] = s[j + 1] /\ j + 1 \in Slots /\ j + 1 < n
      BY <2>1, <2>3, <1>2, <1>4 DEF Erased, Slots
    <3>2. ~(j + 1 < last)
      BY <2>1, <2>3, <1>4
    <3> QED  BY <2>3, <3>1, <3>2, <1>3
  <2> QED  BY <2>2, <2>3
<1>9. ProgressInv'
  <2>1. first' =< last' /\ last' =< n - 1
    BY <1>1, <1>2, <1>3, <1>4
  <2>2. pc' = "range" /\ call' = call /\ first' = first /\ last' = x
    BY <1>1
  <2> HIDE DEF x, s, n
  <2> QED  BY <1>3, <1>5, <1>8, <2>1, <2>2 DEF ProgressInv, Key
<1>10. Inv'
  BY <1>5, <1>6, <1>7, <1>9 DEF Inv
<1>11. call' = call
  BY <1>1
<1>12. s[x].key \in call.keys
  BY <1>3, <1>4
<1>13. Map!Remove
  <2> HIDE DEF x, s
  <2> QED  BY <1>1, <1>3, <1>5, <1>11, <1>12 DEF Map!Remove
<1> QED  BY <1>10, <1>13 DEF Map!Next

\* erase(first, last) returns when no pair between its iterators is left.
LEMMA EraseRangeReturnsStep ==
    ASSUME Inv, EraseRangeReturns
    PROVE  Inv' /\ Map!Next
<1> DEFINE o == call.object
           n == m_size[call.object]
<1>1. /\ pc = "range" /\ last = first /\ Return
      /\ UNCHANGED <<alive, m_storage, m_size, answer>>
  BY DEF EraseRangeReturns, contents
<1>2. o \in Objects /\ n \in Nat /\ n =< Capacity /\ Capacity \in Nat
  BY <1>1, CallObject
<1>3. Inv'
  <2>1. StoredInv'
    BY <1>1 DEF Inv, StoredInv
  <2> QED  BY <1>1, <2>1, ReturnInv DEF Inv, CallInv
<1>4. UNCHANGED Maps /\ call' = Map!None
  BY <1>1 DEF Maps, Contents, Return, NoCall, Map!None
<1>5. \A e \in Maps[o] : e.key \notin call.keys
  <2> SUFFICES ASSUME NEW j \in 0 .. n - 1
               PROVE  m_storage[o][j].key \notin call.keys
    BY <1>2 DEF Maps, Contents
  <2>1. j \in Slots /\ j < n /\ j \in Nat /\ first \in Nat
    BY <1>2 DEF Slots, Inv, CallInv
  <2>2. Key(j) \in call.keys <=> first =< j /\ j < last
    BY <1>1, <2>1 DEF Inv, ProgressInv
  <2> QED  BY <1>1, <2>1, <2>2 DEF Key
<1>6. call.op = "erase"
  BY <1>1 DEF Inv, ProgressInv
<1>7. Map!Removed
  BY <1>1, <1>4, <1>5, <1>6 DEF Map!Removed
<1> QED  BY <1>3, <1>7 DEF Map!Next

\* The default constructor creates an empty map, and the copy constructor has
\* an empty object when it comes to its loop.
LEMMA ConstructStep ==
    ASSUME Inv, NEW n \in Objects, NEW o \in Objects, Construct(n) \/ CopyCall(n, o)
    PROVE  Inv' /\ Map!Next
<1>1. /\ pc = "idle" /\ n \notin alive
      /\ m_size' = [m_size EXCEPT ![n] = 0]
      /\ alive' = alive \/ alive' = alive \cup {n}
      /\ UNCHANGED <<m_storage, answer, first, last, found, index>>
  BY DEF Construct, CopyCall, Idle, search
<1>2. m_size[n] = 0
  BY <1>1 DEF Inv, StoredInv
<1>3. m_size' = m_size
  BY <1>1, <1>2 DEF Inv, StoredInv
<1>4. StoredInv'
  BY <1>1, <1>3 DEF Inv, StoredInv
<1>5. UNCHANGED Maps
  BY <1>1, <1>3 DEF Maps, Contents
<1>6. call = Map!None
  BY <1>1 DEF Inv, CallInv, Map!None, NoCall
<1>7. CASE Construct(n)
  <2>1. UNCHANGED <<pc, search>> /\ alive' = alive \cup {n}
    BY <1>7 DEF Construct
  <2>2. Inv'
    BY <1>1, <1>4, <2>1, IdleInv DEF Inv, CallInv
  <2>3. call' = call
    BY <2>1 DEF search
  <2>4. Map!Create(n)
    BY <1>1, <1>5, <1>6, <2>1, <2>3 DEF Map!Create
  <2> QED  BY <2>2, <2>4 DEF Map!Next
<1>8. CASE CopyCall(n, o)
  <2>1. /\ pc' = "copy" /\ call' = [op |-> "copy", object |-> n, from |-> o]
        /\ alive' = alive /\ o \in alive /\ (CopiesPairs \/ m_size[o] = 0)
    BY <1>8 DEF CopyCall, Idle
  <2>2. CallInv'
    BY <1>1, <1>3, <2>1 DEF Inv, CallInv
  <2>3. SearchIsExact' /\ ProgressInv'
    BY <2>1 DEF SearchIsExact, ProgressInv
  <2>4. Inv'
    BY <1>4, <2>2, <2>3 DEF Inv
  <2>5. Map!RequestCopy(n, o)
    BY <1>1, <1>5, <1>6, <2>1 DEF Map!RequestCopy
  <2> QED  BY <2>4, <2>5 DEF Map!Next
<1> QED  BY <1>7, <1>8

\* The move constructor takes the pairs of the other object.
LEMMA MoveConstructStep ==
    ASSUME Inv, NEW n \in Objects, NEW o \in Objects, MoveConstruct(n, o)
    PROVE  Inv' /\ Map!Next
<1> DEFINE t == [j \in Slots |-> IF j < m_size[o] THEN m_storage[o][j] ELSE m_storage[n][j]]
           d == Destroyed(m_storage[o], m_size[o])
<1>1. /\ pc = "idle" /\ o \in alive /\ n \notin alive /\ n # o /\ alive' = alive \cup {n}
      /\ UNCHANGED <<pc, search, answer>>
  BY DEF MoveConstruct, Idle
<1>2. /\ \A q \in Objects : Holds(m_storage[q], m_size[q])
      /\ m_size[n] = 0 /\ m_size[o] \in 0 .. Capacity
  BY <1>1 DEF Inv, StoredInv
<1>3. /\ m_storage' \in [Objects -> [Slots -> Pairs \cup {Raw}]]
      /\ m_size' \in [Objects -> 0 .. Capacity]
      /\ \A q \in Objects : m_storage'[q] = (IF q = n THEN t ELSE IF q = o THEN d ELSE m_storage[q])
      /\ \A q \in Objects : m_size'[q] = (IF q = n THEN m_size[o] ELSE IF q = o THEN 0 ELSE m_size[q])
  <2>1. t \in [Slots -> Pairs \cup {Raw}]
    BY <1>2 DEF Holds
  <2>2. d \in [Slots -> Pairs \cup {Raw}]
    BY <1>2, DestroyedHolds DEF Holds
  <2>3. /\ m_storage' = [m_storage EXCEPT ![n] = t, ![o] = d]
        /\ m_size' = [m_size EXCEPT ![n] = m_size[o], ![o] = 0]
    BY <1>1 DEF MoveConstruct, Inv, StoredInv
  <2> HIDE DEF t, d
  <2>4. /\ m_storage' \in [Objects -> [Slots -> Pairs \cup {Raw}]]
        /\ m_size' \in [Objects -> 0 .. Capacity]
    BY <2>1, <2>2, <2>3, <1>2, ZeroIsIndex DEF Inv, StoredInv
  <2> QED  BY <2>3, <2>4, <1>1 DEF Inv, StoredInv
<1>4. t = m_storage[o]
  <2>1. m_storage[o] \in [Slots -> Pairs \cup {Raw}]
    BY <1>2 DEF Holds
  <2>2. \A j \in Slots : ~(j < m_size[o]) => m_storage[o][j] = Raw /\ m_storage[n][j] = Raw
    <3>1. \A j \in Slots : ~(j < 0)
      BY DEF Slots
    <3> QED  BY <3>1, <1>2 DEF Holds
  <2> QED  BY <2>1, <2>2
<1>5. Holds(d, 0)
  BY <1>2, DestroyedHolds
<1> HIDE DEF t, d
<1>6. StoredInv'
  <2>1. \A q \in Objects : Holds(m_storage'[q], m_size'[q])
    BY <1>1, <1>2, <1>3, <1>4, <1>5
  <2>2. \A q \in Objects \ alive' : m_size'[q] = 0
    BY <1>1, <1>3 DEF Inv, StoredInv
  <2>3. alive' \subseteq Objects
    BY <1>1 DEF Inv, StoredInv
  <2> QED  BY <1>3, <2>1, <2>2, <2>3 DEF StoredInv
<1>7. Inv'
  BY <1>1, <1>6, IdleInv DEF Inv, CallInv
<1>8. Maps' = [Maps EXCEPT ![n] = Maps[o], ![o] = {}]
  <2>1. \A q \in Objects :
          Contents(q)' = (IF q = n THEN Contents(o) ELSE IF q = o THEN {} ELSE Contents(q))
    BY <1>1, <1>3, <1>4 DEF Contents
  <2> QED  BY <2>1, <1>1 DEF Maps
<1>9. call = Map!None /\ call' = call
  BY <1>1 DEF Inv, CallInv, Map!None, NoCall, search
<1>10. Map!Move(n, o)
  BY <1>1, <1>8, <1>9 DEF Map!Move
<1> QED  BY <1>7, <1>10 DEF Map!Next

\* The copy constructor returns an empty map, which is a copy of an empty one.
LEMMA CopyReturnsStep ==
    ASSUME Inv, CopyReturns
    PROVE  Inv' /\ (CopiesPairs \/ Map!Next)
<1>1. /\ pc = "copy" /\ Return /\ alive' = alive \cup {call.object}
      /\ UNCHANGED <<m_storage, m_size, answer>>
  BY DEF CopyReturns
<1>2. /\ call.op = "copy" /\ call.object \in Objects \ alive
      /\ call.from \in Objects /\ (CopiesPairs \/ m_size[call.from] = 0)
  BY <1>1 DEF Inv, StoredInv, CallInv
<1>3. StoredInv'
  BY <1>1, <1>2 DEF Inv, StoredInv
<1>4. Inv'
  BY <1>1, <1>3, ReturnInv DEF Inv, CallInv
<1>5. ASSUME ~CopiesPairs
      PROVE  Map!Copy
  <2>1. m_size[call.object] = 0 /\ m_size[call.from] = 0
    BY <1>2, <1>5 DEF Inv, StoredInv
  <2>2. Maps[call.object] = {} /\ Maps[call.from] = {}
    <3>1. \A o \in Objects : m_size[o] = 0 => Maps[o] = {}
      <4> SUFFICES ASSUME NEW o \in Objects, m_size[o] = 0 PROVE Maps[o] = {}
        OBVIOUS
      <4>1. Contents(o) = PairsOf(m_storage[o], 0)
        BY DEF Contents, PairsOf
      <4> QED  BY <4>1, NoPairs DEF Maps
    <3> QED  BY <3>1, <2>1, <1>2
  <2>3. Maps' = Maps
    BY <1>1 DEF Maps, Contents
  <2>4. Maps' = [Maps EXCEPT ![call.object] = Maps[call.from]]
    BY <2>2, <2>3 DEF Maps
  <2>5. call' = Map!None
    BY <1>1 DEF Return, NoCall, Map!None
  <2> QED  BY <1>1, <1>2, <2>4, <2>5 DEF Map!Copy
<1> QED  BY <1>4, <1>5 DEF Map!Next

\* The steps of the search change nothing a map knows of.
LEMMA SilentStep ==
    ASSUME Inv, SearchBefore \/ SearchAfter \/ SearchHits \/ SearchEnds
    PROVE  Inv' /\ UNCHANGED Map!vars
<1>1. Inv'
  BY SearchMovesInv, SearchStopsInv
<1>2. UNCHANGED <<alive, m_storage, m_size, call, answer>>
  BY DEF SearchBefore, SearchAfter, SearchHits, SearchEnds, FindIndexReturns, contents
<1>3. UNCHANGED Maps
  BY <1>2 DEF Maps, Contents
<1> QED  BY <1>1, <1>2, <1>3 DEF Map!vars

-----------------------------------------------------------------------------
(***************************************************************************)
(* Theorems.                                                               *)
(***************************************************************************)

\* Every step keeps the invariant and, unless a program copies maps that hold
\* pairs, is a step of KeyedMap or changes nothing it knows of.
LEMMA NextStep ==
    ASSUME Inv, [Next]_vars
    PROVE  Inv' /\ (CopiesPairs \/ [Map!Next]_Map!vars)
<1>1. CASE UNCHANGED vars
  <2>1. Inv'
    BY <1>1 DEF vars, Inv, StoredInv, CallInv, SearchIsExact, ProgressInv, Key
  <2>2. UNCHANGED Map!vars
    BY <1>1 DEF vars, Map!vars, Maps, Contents
  <2> QED  BY <2>1, <2>2
<1>2. CASE Step
  <2>1. CASE SearchBefore \/ SearchAfter \/ SearchHits \/ SearchEnds
    BY <2>1, SilentStep
  <2>2. CASE EmplaceFound
    BY <2>2, EmplaceFoundStep
  <2>3. CASE EmplaceNew
    BY <2>3, EmplaceNewStep
  <2>4. CASE FindReturns
    BY <2>4, FindReturnsStep
  <2>5. CASE EraseRangeStep
    BY <2>5, EraseRangeStepStep
  <2>6. CASE EraseRangeReturns
    BY <2>6, EraseRangeReturnsStep
  <2>7. CASE CopyReturns
    BY <2>7, CopyReturnsStep
  <2> QED  BY <1>2, <2>1, <2>2, <2>3, <2>4, <2>5, <2>6, <2>7 DEF Step
<1>3. ASSUME NEW o \in Objects, Construct(o) \/ Clear(o) \/ Destruct(o)
      PROVE  Inv' /\ Map!Next
  BY <1>3, ConstructStep, ClearStep
<1>4. ASSUME NEW n \in Objects, NEW o \in Objects, MoveConstruct(n, o) \/ CopyCall(n, o)
      PROVE  Inv' /\ Map!Next
  BY <1>4, MoveConstructStep, ConstructStep
<1>5. ASSUME NEW o \in Objects, NEW k \in Keys, FindCall(o, k)
      PROVE  Inv' /\ Map!Next
  BY <1>5, FindCallStep
<1>6. ASSUME NEW o \in Objects, NEW k \in Keys, NEW v \in Values, EmplaceCall(o, k, v)
      PROVE  Inv' /\ Map!Next
  BY <1>6, EmplaceCallStep
<1>7. ASSUME NEW o \in Objects, NEW x \in Slots, ErasePosition(o, x)
      PROVE  Inv' /\ Map!Next
  BY <1>7, ErasePositionStep
<1>8. ASSUME NEW o \in Objects, NEW a \in Slots, NEW b \in 0 .. Capacity, EraseRangeCall(o, a, b)
      PROVE  Inv' /\ Map!Next
  BY <1>8, EraseRangeCallStep
<1> QED  BY <1>1, <1>2, <1>3, <1>4, <1>5, <1>6, <1>7, <1>8 DEF Next

\* The inductive invariant holds in every reachable state.
LEMMA Invariance == Safety => []Inv
<1>1. Inv /\ [Next]_vars => Inv'
  BY NextStep
<1> QED  BY <1>1, InitInv, PTL DEF Safety

\* Every variable keeps its type: the search stays inside the slots and
\* m_size inside the capacity, for every capacity.
THEOREM TypeCorrectness == Spec => []TypeOK
<1>1. Inv => TypeOK
  BY InvImplies
<1> QED  BY <1>1, Invariance, PTL DEF Spec

\* Exactly the slots below m_size hold pairs, in ascending order of the keys.
THEOREM StorageStaysSorted == Spec => []StorageIsSorted
<1>1. Inv => StorageIsSorted
  BY InvImplies
<1> QED  BY <1>1, Invariance, PTL DEF Spec

\* find_index returns the slot of the key, or the one where it belongs.
THEOREM SearchFindsTheSlot == Spec => []SearchIsExact
<1>1. Inv => SearchIsExact
  BY DEF Inv
<1> QED  BY <1>1, Invariance, PTL DEF Spec

\* small_map implements a map from keys to values in every program that copies
\* no map that holds pairs: the loop of the copy constructor copies none.
THEOREM SmallMapRefinesKeyedMap ==
    ASSUME ~CopiesPairs
    PROVE  Spec => ImplementsMap
<1>1. Init => Map!Init
  <2> SUFFICES ASSUME Init PROVE Map!Init
    OBVIOUS
  <2>1. \A o \in Objects : Contents(o) = {}
    <3>1. \A o \in Objects : m_size[o] = 0
      BY DEF Init
    <3>2. \A o \in Objects : Contents(o) = PairsOf(m_storage[o], 0)
      BY <3>1 DEF Contents, PairsOf
    <3> QED  BY <3>2, NoPairs
  <2> QED  BY <2>1 DEF Init, Map!Init, Maps, NoCall, Map!None
<1>2. Inv /\ [Next]_vars => [Map!Next]_Map!vars
  BY NextStep
<1> QED  BY <1>1, <1>2, Invariance, PTL DEF Spec, Safety, ImplementsMap, Map!Spec

=============================================================================
