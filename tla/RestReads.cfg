\* A client of t1 pages through conversations and their messages while more are
\* begun and come in; one conversation is another tenant's.
SPECIFICATION Spec
CONSTANTS
    t1 = t1
    t2 = t2
    Tenants = {t1, t2}
    Conversations = {1, 2, 3}
    TenantOf <- Owners
    Messages = {1, 2, 3, 4, 5, 6}
    Row <- Rows
    Times = {1, 2}
    Null = Null
    Absent = Absent
    Malformed = Malformed
    Nobody = Nobody
    Offsets <- FewOffsets
    DefaultLimit = 2
    MaxLimit = 3
CHECK_DEADLOCK FALSE
INVARIANTS TypeOK ForeignLooksMissing AnswersFollow RepeatsAreArrivals OwnRowsOnly NothingSkipped
