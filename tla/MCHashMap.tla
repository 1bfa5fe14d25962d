----------------------------- MODULE MCHashMap -----------------------------
(***************************************************************************)
(* HashMap with six keys, two of them with the same text, whose hashes    *)
(* collide in a table of two and of four chains, and two of them in one    *)
(* of eight.  It starts with four chains and goes from two to eight.       *)
(***************************************************************************)
EXTENDS HashMap

MCKeys == 1 .. 6
MCtext == [k \in MCKeys |-> IF k = 6 THEN 1 ELSE k]
MChash == [t \in 1 .. 5 |-> <<0, 4, 2, 1, 8>>[t]]
=============================================================================
