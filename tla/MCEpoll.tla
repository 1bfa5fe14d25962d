------------------------------ MODULE MCEpoll ------------------------------
(***************************************************************************)
(* Epoll with one listener and one connection, so that both producers      *)
(* push, on a queue of two slots.                                          *)
(***************************************************************************)
EXTENDS Epoll

CONSTANTS l1, c1

MCSockets == {l1, c1}
MCListeners == {l1}
MCProducers == {"ntm", "ntp"}
=============================================================================
