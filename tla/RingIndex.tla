----------------------------- MODULE RingIndex -----------------------------
(***************************************************************************)
(* Index arithmetic of the descriptor rings (struct e1000_ring).  A ring   *)
(* has NUM_RING_FRAME slots; the code walks it with "i++; if (i ==         *)
(* NUM_RING_FRAME) i = 0;" and steps back with "i == 0 ? NUM_RING_FRAME-1  *)
(* : i-1".  The same comparisons are kept here: no modulus.                *)
(***************************************************************************)
EXTENDS Integers

CONSTANT NUM_RING_FRAME     \* 256 in Intel82566MM.h

ASSUME RingSizeAssumption == NUM_RING_FRAME \in Nat /\ NUM_RING_FRAME >= 2

Idx == 0 .. NUM_RING_FRAME - 1

\* Mutant: the index runs off the end of the ring.
SuccNoWrap(i) == i + 1

\* "j++; if (j == NUM_RING_FRAME) j = 0;"
Succ(i) == IF i + 1 = NUM_RING_FRAME THEN 0 ELSE i + 1

\* "if (j == 0) j = NUM_RING_FRAME - 1; else j--;"
Pred(i) == IF i = 0 THEN NUM_RING_FRAME - 1 ELSE i - 1

\* n steps of Succ, for n no larger than the ring
Ahead(i, n) == IF i + n >= NUM_RING_FRAME THEN i + n - NUM_RING_FRAME ELSE i + n

\* how many steps of Succ lead from a to k
Off(a, k) == IF k >= a THEN k - a ELSE k - a + NUM_RING_FRAME

\* the slots a, Succ(a), ..., up to but excluding b (empty when a = b)
Between(a, b) == {k \in Idx : Off(a, k) < Off(a, b)}

\* the slots a, Succ(a), ..., b
Through(a, b) == {k \in Idx : Off(a, k) <= Off(a, b)}

\* e1000_desc_unused: what the ring can take before next_to_use meets next_to_clean
Unused(clean, use) ==
    IF clean > use THEN clean - use - 1
                   ELSE NUM_RING_FRAME + clean - use - 1
=============================================================================
