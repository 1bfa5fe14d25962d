----------------------------- MODULE ByteStream -----------------------------
(***************************************************************************)
(* What one direction of a connection promises: bytes come out in the      *)
(* order they went in, each one once, and the end of the stream is         *)
(* reported only when nothing is left in it.  A byte is known by its       *)
(* position in the stream.                                                 *)
(***************************************************************************)
EXTENDS Integers

VARIABLES
    written, \* how many bytes went in
    closed,  \* nothing more will
    piece,   \* what came out last: len bytes from position first on
    copied,  \* how many came out
    eof      \* the end was reported

streamVars == <<written, closed, piece, copied, eof>>

StreamInit ==
    /\ written = 0 /\ copied = 0
    /\ piece = [first |-> 0, len |-> 0]
    /\ closed = FALSE /\ eof = FALSE

Write ==
    /\ ~ closed
    /\ written' > written
    /\ UNCHANGED <<closed, piece, copied, eof>>

Close ==
    /\ closed' = TRUE
    /\ UNCHANGED <<written, piece, copied, eof>>

Read ==
    /\ ~ eof
    /\ copied' > copied /\ copied' <= written
    /\ piece' = [first |-> copied, len |-> copied' - copied]
    /\ UNCHANGED <<written, closed, eof>>

ReportEnd ==
    /\ closed /\ copied = written
    /\ eof' = TRUE
    /\ UNCHANGED <<written, closed, piece, copied>>

StreamNext == Write \/ Close \/ Read \/ ReportEnd

StreamSpec == StreamInit /\ [][StreamNext]_streamVars
=============================================================================
