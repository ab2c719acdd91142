---- MODULE MCReceiveInbound ----
(* Instances of ReceiveInbound for TLC.                                       *)
EXTENDS ReceiveInbound, TLC

CONSTANTS m1, m2, m3, m4, alice, bob

Symmetry == Permutations(Requests)

\* Two messages of one customer, one of another; where m4 comes from is no matter.
Senders == [m \in MetaMessages |-> IF m \in {m3, m4} THEN bob ELSE alice]
====
