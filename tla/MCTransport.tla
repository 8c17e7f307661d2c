---------------------------- MODULE MCTransport -----------------------------
(* Small instances of Transport for TLC.                                   *)
EXTENDS Transport, TLC

\* Threads, and settings of one kind, are interchangeable in every property of
\* these runs.
Symmetry == Permutations(Threads) \union Permutations(UdpSettings)
=============================================================================
