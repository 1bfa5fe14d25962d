--------------------------- MODULE MCNtmHandshake ---------------------------
(***************************************************************************)
(* Instances of NtmHandshake for TLC: more sockets than the client host    *)
(* has ports, so that freed ports are given again while messages to their  *)
(* former owners are still on their way.  The listener has the port 2,     *)
(* which the server's monitor skips when it has given 0 and 1.             *)
(***************************************************************************)
EXTENDS NtmHandshake

CONSTANTS c1, c2, c3

MCClients == {c1, c2, c3}

\* The sockets are alike, so it is enough to look at the behaviours in which
\* they are first used in one order; a CLOSED socket is one not used yet.
UsedInOrder ==
  /\ app["client"][c1] = "CLOSED" => app["client"][c2] = "CLOSED"
  /\ app["client"][c2] = "CLOSED" => app["client"][c3] = "CLOSED"
=============================================================================
