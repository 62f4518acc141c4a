--------------------------- MODULE MCScanPipeline ---------------------------
(* Small instances of ScanPipeline. *)
EXTENDS ScanPipeline, TLC

Symmetry == Permutations(Entries) \cup Permutations(Threads)
=============================================================================
