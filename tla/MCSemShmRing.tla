---------------------------- MODULE MCSemShmRing ---------------------------
(***************************************************************************)
(* SemShmRing on two slots, with three producers and two messages: more    *)
(* producers than slots wait on each semaphore, the ring fills up and      *)
(* wraps, and every producer may be interrupted or killed at each step.    *)
(***************************************************************************)
EXTENDS SemShmRing
=============================================================================
