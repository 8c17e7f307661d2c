---------------------------- MODULE MCSinkVITA49 ----------------------------
(* Small instances of SinkVITA49 for TLC.                                  *)
EXTENDS SinkProperties, TLC

\* Streams of one kind, settings of one kind and threads are interchangeable in
\* every safety property (never used in a run that checks liveness).
Symmetry == Permutations(Echo) \union Permutations(Streams \ Echo)
              \union Permutations(UdpSettings) \union Permutations(Threads)
=============================================================================
