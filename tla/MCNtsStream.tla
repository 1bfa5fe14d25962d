---------------------------- MODULE MCNtsStream ----------------------------
(***************************************************************************)
(* NtsStream with payloads of three bytes.  Writes and reads of one to     *)
(* seven bytes make every case of nts_read happen: shorter than, equal to  *)
(* and longer than a payload, one message and several, with and without a  *)
(* cached rest.                                                            *)
(***************************************************************************)
EXTENDS NtsStream
=============================================================================
