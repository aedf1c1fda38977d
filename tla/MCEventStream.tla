--------------------------- MODULE MCEventStream ---------------------------
(* Small instances of EventStream for TLC. *)
EXTENDS EventStream, TLC

CONSTANTS t1, c1, c2

MCOneEmitter == {t1}
MCClients == {c1, c2}
MCOneClient == {c1}
=============================================================================
