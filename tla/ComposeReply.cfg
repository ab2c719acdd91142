\* Three executions over three messages, and a history of two rows.
SPECIFICATION Spec
CONSTANTS
    m1 = m1
    m2 = m2
    m3 = m3
    e1 = e1
    e2 = e2
    e3 = e3
    hello = hello
    price = price
    Messages = {m1, m2, m3}
    Text <- Texts
    Executions = {e1, e2, e3}
    MessageOf <- Jobs
    HistoryLimit = 2
    MaxHistory = 2
CHECK_DEADLOCK FALSE
INVARIANTS RecordedReplyIsFirst QuestionRepeatedOnlyIfOvertaken FollowUpsAreInContext
