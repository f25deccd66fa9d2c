--------------------------- MODULE MCConfigArchive --------------------------
(* Instances of ConfigArchive for TLC. *)
EXTENDS ConfigArchiveProps

CONSTANTS c1, c2, n1, n2, v1, v2
=============================================================================
