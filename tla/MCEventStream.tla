--------------------------- MODULE MCEventStream ---------------------------
(* Two readers and five events of different sizes, so that the queue can   *)
(* be full by its events or by its bytes.                                  *)
EXTENDS EventStream

\* Payloads of 1, 2, 2, 1 and 2 bytes.
MCTotal == [n \in 0..5 |-> <<0, 1, 3, 5, 6, 8>>[n + 1]]
=============================================================================
