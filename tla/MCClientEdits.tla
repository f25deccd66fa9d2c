--------------------------- MODULE MCClientEdits ----------------------------
(***************************************************************************)
(* Instances of ClientEdits for TLC.                                       *)
(***************************************************************************)
EXTENDS ClientEditsProps

=============================================================================
