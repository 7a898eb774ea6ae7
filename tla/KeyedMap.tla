------------------------------ MODULE KeyedMap ------------------------------
(***************************************************************************)
(* What small_map promises: each live object is a map from keys to values, *)
(* and an operation that was requested acts on it in one step.  A map is   *)
(* the set of its pairs, request is the operation in progress, and answer  *)
(* is what the last lookup found.                                          *)
(***************************************************************************)
CONSTANTS Objects, Keys, Values, NotFound
VARIABLES alive, map, request, answer

vars == <<alive, map, request, answer>>

Pair(k, v) == [key |-> k, value |-> v]
None == [op |-> "none"]

Init ==
    /\ alive = {}
    /\ map = [o \in Objects |-> {}]
    /\ request = None
    /\ answer = NotFound

Create(o) == /\ request = None /\ o \notin alive
             /\ alive' = alive \cup {o}
             /\ UNCHANGED <<map, request, answer>>

\* n takes the pairs of o, which is left empty.
Move(n, o) == /\ request = None /\ o \in alive /\ n \notin alive
              /\ alive' = alive \cup {n}
              /\ map' = [map EXCEPT ![n] = map[o], ![o] = {}]
              /\ UNCHANGED <<request, answer>>

Destroy(o) == /\ request = None /\ o \in alive
              /\ alive' = alive \ {o}
              /\ map' = [map EXCEPT ![o] = {}]
              /\ UNCHANGED <<request, answer>>

Clear(o) == /\ request = None /\ o \in alive
            /\ map' = [map EXCEPT ![o] = {}]
            /\ UNCHANGED <<alive, request, answer>>

\* The caller requests an operation on a live object, or a copy of one.
RequestPut(o, k, v) ==
    /\ request = None /\ o \in alive
    /\ request' = [op |-> "emplace", object |-> o, key |-> k, value |-> v]
    /\ UNCHANGED <<alive, map, answer>>

RequestGet(o, k) ==
    /\ request = None /\ o \in alive
    /\ request' = [op |-> "find", object |-> o, key |-> k]
    /\ UNCHANGED <<alive, map, answer>>

RequestRemove(o, keys) ==
    /\ request = None /\ o \in alive
    /\ request' = [op |-> "erase", object |-> o, keys |-> keys]
    /\ UNCHANGED <<alive, map, answer>>

RequestCopy(n, o) ==
    /\ request = None /\ o \in alive /\ n \notin alive
    /\ request' = [op |-> "copy", object |-> n, from |-> o]
    /\ UNCHANGED <<alive, map, answer>>

\* The key has the value, whatever it had before.
Put == LET o == request.object
       IN  /\ request.op = "emplace"
           /\ map' = [map EXCEPT ![o] = {e \in map[o] : e.key # request.key}
                                        \cup {Pair(request.key, request.value)}]
           /\ request' = None
           /\ UNCHANGED <<alive, answer>>

Get == LET of(v) == Pair(request.key, v)
           pairs == map[request.object]
       IN  /\ request.op = "find"
           /\ \/ \E v \in Values : of(v) \in pairs /\ answer' = v
              \/ (\A v \in Values : of(v) \notin pairs) /\ answer' = NotFound
           /\ request' = None
           /\ UNCHANGED <<alive, map>>

\* A pair with one of the keys is removed; in the end none is left.
Remove == LET o == request.object
          IN  /\ request.op = "erase"
              /\ \E e \in map[o] : /\ e.key \in request.keys
                                   /\ map' = [map EXCEPT ![o] = map[o] \ {e}]
              /\ UNCHANGED <<alive, request, answer>>

Removed == /\ request.op = "erase"
           /\ \A e \in map[request.object] : e.key \notin request.keys
           /\ request' = None
           /\ UNCHANGED <<alive, map, answer>>

\* The new object has the pairs of the other, which keeps them.
Copy == LET n == request.object
        IN  /\ request.op = "copy"
            /\ alive' = alive \cup {n}
            /\ map' = [map EXCEPT ![n] = map[request.from]]
            /\ request' = None
            /\ UNCHANGED answer

RemovePair(o) == /\ request = None /\ o \in alive
                 /\ \E e \in map[o] : map' = [map EXCEPT ![o] = map[o] \ {e}]
                 /\ UNCHANGED <<alive, request, answer>>

Next ==
    \/ \E o \in Objects : Create(o) \/ Destroy(o) \/ Clear(o) \/ RemovePair(o)
    \/ \E n, o \in Objects : Move(n, o) \/ RequestCopy(n, o)
    \/ \E o \in Objects, k \in Keys : RequestGet(o, k) \/ \E v \in Values : RequestPut(o, k, v)
    \/ \E o \in Objects, keys \in SUBSET Keys : RequestRemove(o, keys)
    \/ Put \/ Get \/ Remove \/ Removed \/ Copy

Spec == Init /\ [][Next]_vars

=============================================================================
