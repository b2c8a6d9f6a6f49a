--------------------------- MODULE MCPolicyManager --------------------------
(* Instances of PolicyManager for TLC.                                       *)
EXTENDS PolicyManager, TLC

CONSTANTS pn, pf, nomad, file, w1, r1

\* One policy of the Nomad source and one of the file source.
BothSources == [p \in Policies |-> IF p = pn THEN nomad ELSE file]

=============================================================================
