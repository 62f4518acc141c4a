---------------------- MODULE MCScanPipelineRefinement ----------------------
(* Small instances of ScanPipelineRefinement: no symmetry, since the      *)
(* properties checked on them are liveness properties.                     *)
EXTENDS ScanPipelineRefinement
=============================================================================
