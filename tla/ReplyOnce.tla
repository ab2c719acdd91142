---- MODULE ReplyOnce ----
(* What the reply pipeline promises of each customer message, whatever fails:  *)
(* one reply is composed and never changes; it goes to WhatsApp at most once,  *)
(* with the composed text; it is reported as sent only after Meta took it.     *)
EXTENDS Sequences

CONSTANTS Messages, Texts, NoText

VARIABLES reply,      \* message -> the reply composed for it
          sent,       \* message -> the texts handed to Meta for it, in order
          delivered,  \* messages whose reply Meta accepted
          confirmed   \* messages whose reply the system reports as sent

vars == <<reply, sent, delivered, confirmed>>

Init ==
    /\ reply = [m \in Messages |-> NoText]
    /\ sent = [m \in Messages |-> <<>>]
    /\ delivered = {}
    /\ confirmed = {}

Compose(m) ==
    /\ reply[m] = NoText
    /\ \E t \in Texts : reply' = [reply EXCEPT ![m] = t]
    /\ UNCHANGED <<sent, delivered, confirmed>>

Send(m) ==
    /\ reply[m] # NoText
    /\ sent[m] = <<>>
    /\ sent' = [sent EXCEPT ![m] = <<reply[m]>>]
    /\ delivered' \in {delivered, delivered \cup {m}}
    /\ UNCHANGED <<reply, confirmed>>

Confirm(m) ==
    /\ m \in delivered
    /\ confirmed' = confirmed \cup {m}
    /\ UNCHANGED <<reply, sent, delivered>>

Next == \E m \in Messages : Compose(m) \/ Send(m) \/ Confirm(m)

Spec == Init /\ [][Next]_vars
====
