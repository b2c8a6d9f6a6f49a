---------------------------- MODULE MCNomadTarget ---------------------------
(* Instances of NomadTarget for TLC.                                         *)
EXTENDS NomadTarget

CONSTANTS j1, j2, c1, c2

=============================================================================
