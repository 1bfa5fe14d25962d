----------------------------- MODULE MCNtpConn -----------------------------
(***************************************************************************)
(* NtpConn with three connections, two of them one after the other on the  *)
(* same port pair.                                                         *)
(***************************************************************************)
EXTENDS NtpConn, TLC

CONSTANTS c1, c2, c3, p1, p2

MCConns == {c1, c2, c3}
MCPorts == {p1, p2}
MCconn_id == (c1 :> p1) @@ (c2 :> p2) @@ (c3 :> p1)
=============================================================================
