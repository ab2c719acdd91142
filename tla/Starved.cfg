\* Two messages and a recovery command that takes one at a time: an older message
\* that fails each time it is tried keeps the younger one from its turn.
SPECIFICATION OperatedSpec
CONSTANTS
    m1 = m1
    m2 = m2
    Messages = {m1, m2}
    NoMessage = NoMessage
    Texts = {t1}
    NoText = NoText
    Executions = {e1}
    NoExecution = NoExecution
    MaxAttempts = 1
    MaxStalls = 0
    WebhookHandlers = {w1}
    RecoveryRuns = {r1}
    RecoveryLimit = 1
    ReceivedAt <- AgeOrder
    Faults = {}
CHECK_DEADLOCK FALSE
PROPERTIES ReceivedIsTaken
