------------------------------ MODULE MCNtpShm ------------------------------
(* NtpShm with the smallest pool that its assumption allows.               *)
EXTENDS NtpShm
=============================================================================
