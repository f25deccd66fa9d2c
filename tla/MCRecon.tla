------------------------------ MODULE MCRecon -------------------------------
(***************************************************************************)
(* An instance of Recon for TLC: two hosts.                                *)
(***************************************************************************)
EXTENDS ReconProps

CONSTANTS h1, h2

MCHost == {h1, h2}

=============================================================================
