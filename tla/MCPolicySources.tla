-------------------------- MODULE MCPolicySources ---------------------------
(* The instance of PolicySources for TLC: a policy of each source.           *)
EXTENDS PolicySources

CONSTANTS f1, n1, c1

FilesAndNomad == [p \in Policies |-> IF p = f1 THEN "file" ELSE "nomad"]

=============================================================================
