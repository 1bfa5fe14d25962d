----------------------------- MODULE MCShmRing -----------------------------
(***************************************************************************)
(* ShmRing on four slots and two element values: the indices wrap, the   *)
(* ring fills up and runs empty, and neighbouring elements differ.         *)
(***************************************************************************)
EXTENDS ShmRing
=============================================================================
