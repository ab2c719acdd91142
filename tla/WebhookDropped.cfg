\* A supported message whose receipt throws.
SPECIFICATION Spec
CONSTANTS
    ours = ours
    theirs = theirs
    i1 = i1
    i2 = i2
    alice = alice
    ana = ana
    hello = hello
    Words = {ours, theirs, i1, i2, alice, ana, hello}
    NoWord = NoWord
    Absent = Absent
    WrongType = WrongType
    r1 = r1
    Requests = {r1}
    Payloads <- FewForAll
    Owned = {ours}
CHECK_DEADLOCK FALSE
INVARIANT AcknowledgedIsPersisted
