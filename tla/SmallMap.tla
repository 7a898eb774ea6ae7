------------------------------ MODULE SmallMap ------------------------------
(***************************************************************************)
(* small_map: a map of bounded capacity kept as an array of pairs sorted   *)
(* by key.  The binary search of find_index takes one step per iteration;  *)
(* the rest of an operation is one step.  A slot of m_storage holds a pair *)
(* while one is constructed there and Raw otherwise.  An iterator is the   *)
(* index of its slot, and end() is m_size.                                 *)
(*                                                                         *)
(* The map is used by one thread.  emplace does not look at the capacity:  *)
(* that there is room is the duty of the caller, which checks it before    *)
(* the first emplace (hypervisor.cpp:99).                                  *)
(*                                                                         *)
(* operator=(small_map &&) does not compile when it is used                *)
(* (small_map.h:167 applies -> to a pair) and copy assignment uses it, so  *)
(* neither is an operation of the model.                                   *)
(***************************************************************************)
EXTENDS Integers

CONSTANTS
    Objects,      \* the small_map objects of a program
    Keys, Values,
    Capacity,     \* Size
    Raw,          \* the content of a slot where nothing is constructed
    NotFound,     \* what find says of a key that is absent: end()
    CopiesPairs   \* whether the program copies a map that holds pairs

ASSUME KeysAssumption == Keys \subseteq Int
ASSUME CapacityAssumption == Capacity \in Nat \ {0}
ASSUME CopiesAssumption == CopiesPairs \in BOOLEAN

Slots == 0 .. Capacity - 1
Pairs == [key : Keys, value : Values]
Pair(k, v) == [key |-> k, value |-> v]

ASSUME SentinelAssumption == Raw \notin Pairs /\ NotFound \notin Values

VARIABLES
    alive,       \* the objects whose lifetime has begun
    m_storage,   \* m_storage[o][j]: a slot of object o
    m_size,
    pc,          \* where the operation in progress is
    call,        \* its object and arguments; iterators by the keys they stand for
    first, last, \* the indices of find_index, and of erase(first, last)
    found, index, \* what find_index returns
    answer       \* the value at the iterator the last find returned

vars == <<alive, m_storage, m_size, pc, call, first, last, found, index, answer>>
contents == <<alive, m_storage, m_size>>
search == <<call, first, last, found, index>>

\* No operation is in progress.
NoCall == [op |-> "none"]

Init ==
    /\ alive = {}
    /\ m_storage = [o \in Objects |-> [j \in Slots |-> Raw]]
    /\ m_size = [o \in Objects |-> 0]
    /\ pc = "idle"
    /\ call = NoCall
    /\ first = 0 /\ last = 0 /\ found = FALSE /\ index = 0
    /\ answer = NotFound

Idle(o) == pc = "idle" /\ o \in alive

\* An operation returns and its local variables are gone.
Return ==
    /\ pc' = "idle" /\ call' = NoCall
    /\ first' = 0 /\ last' = 0 /\ found' = FALSE /\ index' = 0

-----------------------------------------------------------------------------
(***************************************************************************)
(* Lifetime.                                                               *)
(***************************************************************************)
Construct(o) ==
    /\ pc = "idle" /\ o \notin alive
    /\ alive' = alive \cup {o}
    /\ m_size' = [m_size EXCEPT ![o] = 0]
    /\ UNCHANGED <<m_storage, pc, search, answer>>

\* The destructor of each pair below m_size.
Destroyed(s, n) == [j \in Slots |-> IF j < n THEN Raw ELSE s[j]]

Clear(o) ==
    /\ Idle(o)
    /\ m_storage' = [m_storage EXCEPT ![o] = Destroyed(@, m_size[o])]
    /\ m_size' = [m_size EXCEPT ![o] = 0]
    /\ UNCHANGED <<alive, pc, search, answer>>

Destruct(o) ==
    /\ Idle(o)
    /\ m_storage' = [m_storage EXCEPT ![o] = Destroyed(@, m_size[o])]
    /\ m_size' = [m_size EXCEPT ![o] = 0]
    /\ alive' = alive \ {o}
    /\ UNCHANGED <<pc, search, answer>>

\* small_map(small_map &&): each pair is moved to the new object n, and
\* destroyed in o.
MoveConstruct(n, o) ==
    /\ Idle(o) /\ n \notin alive
    /\ alive' = alive \cup {n}
    /\ m_storage' = [m_storage EXCEPT
           ![n] = [j \in Slots |-> IF j < m_size[o] THEN m_storage[o][j] ELSE @[j]],
           ![o] = Destroyed(@, m_size[o])]
    /\ m_size' = [m_size EXCEPT ![n] = m_size[o], ![o] = 0]
    /\ UNCHANGED <<pc, search, answer>>

\* small_map(const small_map &), up to its loop.
CopyCall(n, o) ==
    /\ Idle(o) /\ n \notin alive
    /\ CopiesPairs \/ m_size[o] = 0
    /\ m_size' = [m_size EXCEPT ![n] = 0]
    /\ call' = [op |-> "copy", object |-> n, from |-> o]
    /\ pc' = "copy"
    /\ UNCHANGED <<alive, m_storage, first, last, found, index, answer>>

\* The loop runs up to the m_size of the object under construction, which is
\* zero: no pair is copied.
CopyReturns ==
    /\ pc = "copy" /\ m_size[call.object] = 0
    /\ alive' = alive \cup {call.object}
    /\ Return
    /\ UNCHANGED <<m_storage, m_size, answer>>

-----------------------------------------------------------------------------
(***************************************************************************)
(* find_index.                                                             *)
(***************************************************************************)
Key(j) == m_storage[call.object][j].key
Middle == (first + last) \div 2

\* find_index in an empty map returns at once; emplace does not even call it
\* then, and constructs the pair in slot 0, as it would with what it returns.
StartSearch(c) ==
    /\ call' = c
    /\ IF m_size[c.object] = 0
       THEN pc' = "return" /\ UNCHANGED last
       ELSE pc' = "search" /\ last' = m_size[c.object] - 1
    /\ UNCHANGED <<contents, first, found, index, answer>>

FindIndexReturns(f, x) ==
    /\ found' = f /\ index' = x
    /\ pc' = "return"
    /\ UNCHANGED <<contents, call, first, last, answer>>

\* Mutant: the middle is excluded although nothing smaller is kept for it.
SearchBeforeExcludingMiddle ==
    /\ pc = "search" /\ first # last
    /\ call.key < Key(Middle)
    /\ last' = Middle - 1
    /\ UNCHANGED <<contents, pc, call, first, found, index, answer>>

\* The key comes before the middle.
SearchBefore ==
    /\ pc = "search" /\ first # last
    /\ call.key < Key(Middle)
    /\ last' = Middle
    /\ UNCHANGED <<contents, pc, call, first, found, index, answer>>

\* Mutant: the middle is kept.
SearchAfterKeepingMiddle ==
    /\ pc = "search" /\ first # last
    /\ Key(Middle) < call.key
    /\ first' = Middle
    /\ UNCHANGED <<contents, pc, call, last, found, index, answer>>

\* The key comes after the middle.
SearchAfter ==
    /\ pc = "search" /\ first # last
    /\ Key(Middle) < call.key
    /\ first' = Middle + 1
    /\ UNCHANGED <<contents, pc, call, last, found, index, answer>>

SearchHits ==
    /\ pc = "search" /\ first # last
    /\ call.key = Key(Middle)
    /\ FindIndexReturns(TRUE, Middle)

\* Mutant: a key after the last one compared is inserted before it.
SearchEndsBefore ==
    /\ pc = "search" /\ first = last
    /\ FindIndexReturns(call.key = Key(first), first)

\* One slot is left: the key is there, or belongs before or after it.
SearchEnds ==
    /\ pc = "search" /\ first = last
    /\ \/ call.key < Key(first) /\ FindIndexReturns(FALSE, first)
       \/ Key(first) < call.key /\ FindIndexReturns(FALSE, first + 1)
       \/ call.key = Key(first) /\ FindIndexReturns(TRUE, first)

-----------------------------------------------------------------------------
(***************************************************************************)
(* emplace, find and erase.                                                *)
(***************************************************************************)

\* Slots x to n - 1 move one to the right and e is put into slot x; for x = n
\* it is constructed behind the last one.
Inserted(s, n, x, e) ==
    [j \in Slots |-> CASE j = x -> e
                       [] x < j /\ j =< n -> s[j - 1]
                       [] OTHER -> s[j]]

EmplaceCall(o, k, v) ==
    /\ Idle(o) /\ m_size[o] < Capacity
    /\ StartSearch([op |-> "emplace", object |-> o, key |-> k, value |-> v])

EmplaceFound ==
    /\ pc = "return" /\ call.op = "emplace" /\ found
    /\ m_storage' = [m_storage EXCEPT ![call.object][index] = Pair(call.key, call.value)]
    /\ Return
    /\ UNCHANGED <<alive, m_size, answer>>

\* Mutant: the last pair is assigned over before it is moved.
EmplaceNewOverwritesLast ==
    LET o == call.object
        n == m_size[o]
    IN  /\ pc = "return" /\ call.op = "emplace" /\ ~found
        /\ m_storage' = [m_storage EXCEPT ![o] =
               [Inserted(@, n, index, Pair(call.key, call.value)) EXCEPT
                   ![n] = IF index + 1 < n THEN m_storage[o][n - 2] ELSE @]]
        /\ m_size' = [m_size EXCEPT ![o] = n + 1]
        /\ Return
        /\ UNCHANGED <<alive, answer>>

EmplaceNew ==
    LET o == call.object
    IN  /\ pc = "return" /\ call.op = "emplace" /\ ~found
        /\ m_storage' = [m_storage EXCEPT ![o] =
               Inserted(@, m_size[o], index, Pair(call.key, call.value))]
        /\ m_size' = [m_size EXCEPT ![o] = @ + 1]
        /\ Return
        /\ UNCHANGED <<alive, answer>>

FindCall(o, k) ==
    /\ Idle(o)
    /\ StartSearch([op |-> "find", object |-> o, key |-> k])

\* Mutant: the index is used without a look at found.
FindReturnsIgnoringFound ==
    /\ pc = "return" /\ call.op = "find"
    /\ answer' = IF index < m_size[call.object]
                 THEN m_storage[call.object][index].value ELSE NotFound
    /\ Return
    /\ UNCHANGED contents

FindReturns ==
    /\ pc = "return" /\ call.op = "find"
    /\ answer' = IF found THEN m_storage[call.object][index].value ELSE NotFound
    /\ Return
    /\ UNCHANGED contents

\* Slots behind x move one to the left and the last pair is destroyed.
Erased(s, n, x) ==
    [j \in Slots |-> CASE x =< j /\ j < n - 1 -> s[j + 1]
                       [] j = n - 1 -> Raw
                       [] OTHER -> s[j]]

Erase(o, x) ==
    /\ m_storage' = [m_storage EXCEPT ![o] = Erased(@, m_size[o], x)]
    /\ m_size' = [m_size EXCEPT ![o] = @ - 1]
    /\ UNCHANGED <<alive, found, index, answer>>

ErasePosition(o, x) ==
    /\ Idle(o) /\ x < m_size[o]
    /\ Erase(o, x)
    /\ UNCHANGED <<pc, call, first, last>>

EraseRangeCall(o, a, b) ==
    /\ Idle(o) /\ a < b /\ b =< m_size[o]
    /\ call' = [op |-> "erase", object |-> o,
                keys |-> {m_storage[o][j].key : j \in a .. b - 1}]
    /\ first' = a /\ last' = b
    /\ pc' = "range"
    /\ UNCHANGED <<contents, found, index, answer>>

\* An iteration of erase(first, last), from the right.
EraseRangeStep ==
    /\ pc = "range" /\ last # first
    /\ Erase(call.object, last - 1)
    /\ last' = last - 1
    /\ UNCHANGED <<pc, call, first>>

EraseRangeReturns ==
    /\ pc = "range" /\ last = first
    /\ Return
    /\ UNCHANGED <<contents, answer>>

-----------------------------------------------------------------------------
\* The steps of an operation that has been called.
Step ==
    \/ SearchBefore \/ SearchAfter \/ SearchHits \/ SearchEnds
    \/ EmplaceFound \/ EmplaceNew \/ FindReturns
    \/ EraseRangeStep \/ EraseRangeReturns \/ CopyReturns

Next ==
    \/ Step
    \/ \E o \in Objects : Construct(o) \/ Clear(o) \/ Destruct(o)
    \/ \E n, o \in Objects : MoveConstruct(n, o) \/ CopyCall(n, o)
    \/ \E o \in Objects, k \in Keys : FindCall(o, k)
    \/ \E o \in Objects, k \in Keys, v \in Values :
           EmplaceCall(o, k, v)
    \/ \E o \in Objects, x \in Slots : ErasePosition(o, x)
    \/ \E o \in Objects, a \in Slots, b \in 0 .. Capacity : EraseRangeCall(o, a, b)

Safety == Init /\ [][Next]_vars

\* The caller calls or does not; an operation that was called is executed.
Spec == Safety /\ WF_vars(Step)

-----------------------------------------------------------------------------
(***************************************************************************)
(* Properties.                                                             *)
(***************************************************************************)

\* The variables have their types: in particular the search stays inside the
\* slots and m_size inside the capacity.
TypeOK ==
    /\ alive \subseteq Objects
    /\ m_storage \in [Objects -> [Slots -> Pairs \cup {Raw}]]
    /\ m_size \in [Objects -> 0 .. Capacity]
    /\ pc \in {"idle", "search", "return", "range", "copy"}
    /\ pc = "idle" => call = NoCall
    /\ pc \in {"search", "return", "range"} => call.object \in alive
    /\ pc \in {"search", "return"} =>
           \/ call.op = "find" /\ call.key \in Keys
           \/ call.op = "emplace" /\ call.key \in Keys /\ call.value \in Values
    /\ pc = "copy" => call.object \in Objects \ alive /\ call.from \in alive
    /\ first \in Slots /\ last \in 0 .. Capacity
    /\ found \in BOOLEAN /\ index \in 0 .. Capacity
    /\ answer \in Values \cup {NotFound}

\* Exactly the slots below m_size hold a pair, in strictly ascending order of
\* the keys, through every emplace, erase, move and clear.
StorageIsSorted ==
    \A o \in Objects :
        /\ \A j \in Slots : m_storage[o][j] # Raw <=> j < m_size[o]
        /\ \A j, k \in Slots : j < k /\ k < m_size[o] =>
               m_storage[o][j].key < m_storage[o][k].key

\* The search has never excluded a slot the key could be in, and the index it
\* returns is the slot of the key, or the one slot where it keeps the order.
SearchIsExact ==
    LET n == m_size[call.object]
    IN  /\ pc = "search" =>
              /\ first =< last /\ last < n
              /\ \A j \in Slots : j < first => Key(j) < call.key
              /\ \A j \in Slots : last < j /\ j < n => call.key < Key(j)
        /\ pc = "return" /\ found => index < n /\ Key(index) = call.key
        /\ pc = "return" /\ ~found =>
              /\ index =< n
              /\ \A j \in Slots : j < index => Key(j) < call.key
              /\ \A j \in Slots : index =< j /\ j < n => call.key < Key(j)

\* The pairs of an object.
Contents(o) == {m_storage[o][j] : j \in 0 .. m_size[o] - 1}

\* The map of every object.
Maps == [o \in Objects |-> Contents(o)]

Map == INSTANCE KeyedMap WITH map <- Maps, request <- call

\* The array, the search and the shifting of slots implement a map: emplace
\* sets the value of its key, find returns the value of its key, erase removes
\* the keys between its iterators, and moving or copying a map ("Copy construct a
\* small map from another one", small_map.h) gives the new one all its pairs.
ImplementsMap == Map!Spec

\* Every operation that is called returns: the two indices of find_index meet.
OperationsReturn == pc # "idle" ~> pc = "idle"

=============================================================================
