---------------------------- MODULE MCHesaiLidar ----------------------------
(* Two packets a field, three a frame at most, rings of one, one snapshot. *)
EXTENDS At128Converter
=============================================================================
