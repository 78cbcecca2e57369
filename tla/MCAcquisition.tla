--------------------------- MODULE MCAcquisition ---------------------------
(* Acquisition on the workers, dumps and disks of a .cfg, all of them model *)
(* values.  Without symmetry: the runs check liveness and refinement.      *)
EXTENDS Acquisition
=============================================================================
