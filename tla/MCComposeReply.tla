---- MODULE MCComposeReply ----
(* Three messages, of which the first and the last say the same.  The first is *)
(* answered by two executions, as after a job timeout.                         *)
EXTENDS ComposeReply, TLC

CONSTANTS m1, m2, m3, e1, e2, e3, hello, price

Texts == (m1 :> hello) @@ (m2 :> price) @@ (m3 :> hello)

Jobs == (e1 :> m1) @@ (e2 :> m1) @@ (e3 :> m2)
====
