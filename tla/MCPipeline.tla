---- MODULE MCPipeline ----
(* Instances of Pipeline for TLC.                                             *)
EXTENDS Pipeline, TLC

CONSTANTS m1, m2

\* Executions and texts are interchangeable: no action names one.
Symmetry == Permutations(Executions) \cup Permutations(Texts)

\* Under fairness only the texts are: there is a fairness condition for each
\* execution, and none of them, nor JobSettles, tells one text from another.
TextSymmetry == Permutations(Texts)

\* m1 is the older message where there are two.
AgeOrder == [m \in Messages |-> IF m = m1 THEN 1 ELSE 2]
====
