---- MODULE MCRestReads ----
(* Rows for TLC.  A message's receivedAt is Meta's and need not follow the     *)
(* order in which messages commit.                                             *)
EXTENDS RestReads, TLC

CONSTANTS t1, t2

OfCustomer(conversation, receivedAt) ==
    [conversation |-> conversation, replyTo |-> Null, receivedAt |-> receivedAt,
     createdAt |-> receivedAt]

ReplyTo(m, conversation, createdAt) ==
    [conversation |-> conversation, replyTo |-> m, receivedAt |-> Null,
     createdAt |-> createdAt]

\* One that is refused, the beginning, and one behind it.
FewOffsets == -1 .. 1

Owners == (1 :> t1) @@ (2 :> t1) @@ (3 :> t2)

\* Two messages and two replies in one conversation, a message in each of the
\* others.
Rows ==
    (1 :> OfCustomer(1, 1)) @@ (2 :> OfCustomer(1, 1)) @@ (3 :> ReplyTo(1, 1, 4))
        @@ (4 :> ReplyTo(2, 1, 2)) @@ (5 :> OfCustomer(2, 1)) @@ (6 :> OfCustomer(3, 1))
====
