\* Three calls at a time, for two messages of one customer, one of another, and one
\* sent to a number no tenant owns.
SPECIFICATION FairSpec
CONSTANTS
    m1 = m1
    m2 = m2
    m3 = m3
    m4 = m4
    alice = alice
    bob = bob
    Requests = {r1, r2, r3}
    NoRequest = NoRequest
    MetaMessages = {m1, m2, m3, m4}
    Customers = {alice, bob}
    Sender <- Senders
    Addressed = {m1, m2, m3}
CHECK_DEADLOCK FALSE
INVARIANTS IInv
PROPERTIES ReceivesAtomically CallsReturn
