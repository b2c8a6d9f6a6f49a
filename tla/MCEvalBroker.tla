---------------------------- MODULE MCEvalBroker ----------------------------
(* Instances of EvalBroker for TLC: up to three evaluations and two workers. *)
EXTENDS EvalBroker, TLC

CONSTANTS e1, e2, e3, p1, qa, w1, w2

\* All evaluations are of one policy, as its handler creates them one after
\* the other; the policy was given a higher priority before the last of them.
SamePolicy == [e \in Evals |-> p1]
OneQueue == [e \in Evals |-> qa]
RaisedPriority == [e \in Evals |-> IF e = e3 THEN 1 ELSE 0]
InOrder == [e \in Evals |-> CASE e = e1 -> 1 [] e = e2 -> 2 [] e = e3 -> 3]
AllOnOneQueue == [w \in Workers |-> qa]

WorkerSymmetry == Permutations(Workers)

=============================================================================
