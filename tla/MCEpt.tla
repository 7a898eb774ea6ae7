------------------------------- MODULE MCEpt -------------------------------
(***************************************************************************)
(* Model checking Ept: the module may lie anywhere in physical memory, and *)
(* the MTRRs hold any one range, or several that overlap.                  *)
(***************************************************************************)
EXTENDS Ept, Bitwise

Types == {"uncacheable", "write_through", "write_back"}

Register(v, b, m, t) == [valid |-> v, base |-> b, mask |-> m, type |-> t]

\* The masks of ones above zeros.
Contiguous == {Power[PageBits] - Power[k] : k \in 0 .. PageBits - 1}

\* Every single range, whose base is aligned to its size; two ranges that
\* overlap, in both orders, with a register that is not valid before them; an
\* unused register.
Settings ==
    {<<Register(1, b, m, "uncacheable")>> :
        <<b, m>> \in {<<b, m>> \in Numbers \X Contiguous : b & m = b}}
    \cup
    { <<Register(0, 0, 4, "write_back"), Register(1, 2, 6, "uncacheable"),
        Register(1, 0, 4, "write_through")>>,
      <<Register(1, 0, 4, "write_through"), Register(1, 3, 7, "uncacheable")>>,
      <<Register(0, 0, 0, "uncacheable")>> }

\* For these masks the processor's & is Masked.
ASSUME MaskedIsAnd == \A x \in Numbers, m \in Contiguous : x & m = Masked(x, m)

=============================================================================
