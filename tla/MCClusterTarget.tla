--------------------------- MODULE MCClusterTarget --------------------------
EXTENDS ClusterTarget

CONSTANTS k1, k2

\* Whole-number constants that a configuration file cannot write.
CountsWithDryRun == {-1, 0, 2, 4}
=============================================================================
