--------------------------- MODULE MCNtbDataLink ---------------------------
(***************************************************************************)
(* NtbDataLink on a ring of four slots whose index is reported after every *)
(* third packet and on every PSH, which is sent whenever the sender is an  *)
(* even number of slots ahead: the ring fills up, wraps, and both ways of  *)
(* reporting are used.  Either connection may be closed at the receiver    *)
(* while the sender goes on sending on it.                                 *)
(***************************************************************************)
EXTENDS NtbDataLink

\* The runs stop at the first packet that is dropped: nothing but TypeOK is
\* claimed of what comes after it, and TypeOK is proved in NtbDataLinkProofs.
UntilDropped == ~ dropped
=============================================================================
