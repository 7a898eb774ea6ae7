---------------------------- MODULE MCPageTable ----------------------------
(***************************************************************************)
(* Model checking PageTable: a module of 14 pages with the 12 pages of the *)
(* tables in the middle, at every place of an address space of 256 pages.  *)
(***************************************************************************)
EXTENDS PageTable

Bases == 0 .. Fanout * Fanout * Fanout * Fanout - ModulePages

Small(p) == [pages |-> 1, page_number |-> p]

\* Consecutive pages; scattered pages.
SmallPages ==
    { [m \in Module |-> Small(30 + m)],
      [m \in Module |-> Small(((5 * m) % 17) + 1)] }

\* The module lies in one huge page, and its base is a multiple of it.
HugePage == { [m \in Module |-> [pages |-> Fanout * Fanout, page_number |-> Fanout * Fanout]] }

============================================================================
