---------------------------- MODULE MCAcqStorage ----------------------------
(* AcqStorage on two disks.  Every answer of recommend_storage is allowed   *)
(* to the abstract Acquisition.                                            *)
EXTENDS AcqStorage
=============================================================================
