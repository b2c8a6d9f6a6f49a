------------------------------- MODULE MCAgent ------------------------------
EXTENDS Agent

CONSTANTS w1, r1

\* A built-in plugin, an external one, and the same name configured twice.
ThreeEntries ==
  << [id |-> "nomad/target", driver |-> "nomad-target"],
     [id |-> "own/strategy", driver |-> "target-value"],
     [id |-> "own/strategy", driver |-> "own"] >>
=============================================================================
