---------------------------- MODULE MCThumbnail ----------------------------
(* Thumbnail on a few disks, files and sensors.                            *)
EXTENDS Thumbnail
=============================================================================
