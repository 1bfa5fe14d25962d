----------------------------- MODULE RingIndex -----------------------------
(***************************************************************************)
(* Slot numbers of a circular buffer of Capacity slots, and the window of  *)
(* slots between a read and a write index.                                 *)
(***************************************************************************)
EXTENDS Integers, Sequences

CONSTANT Capacity \* the number of slots

\* The rings are created with a fixed number of slots (DEFAULT_MAX_NUM_NTP_MSG,
\* the NTB ring capacity); a ring of one slot could hold nothing, since one slot
\* is kept empty.
ASSUME CapacityAssumption == Capacity \in Nat /\ Capacity >= 2

Slots == 0 .. Capacity - 1

increment(current_idx) == (current_idx + 1) % Capacity

\* next_index wraps by subtraction where increment takes a remainder.
next_index(current_idx) ==
    IF current_idx + 1 >= Capacity THEN current_idx + 1 - Capacity
                                   ELSE current_idx + 1

\* The slot n places after slot i.
SlotAfter(i, n) == IF i + n < Capacity THEN i + n ELSE i + n - Capacity

\* How many slots w is ahead of r.
Distance(r, w) == IF w >= r THEN w - r ELSE Capacity - r + w

\* The contents of the n slots of d that start at slot r.
Window(d, r, n) == [k \in 1 .. n |-> d[SlotAfter(r, k - 1)]]
=============================================================================
