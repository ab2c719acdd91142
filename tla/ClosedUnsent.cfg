\* One message, failing calls: every attempt fails before the POST.
SPECIFICATION Spec
CONSTANTS
    m1 = m1
    m2 = m2
    Messages = {m1}
    NoMessage = NoMessage
    Texts = {t1}
    NoText = NoText
    Executions = {e1, e2}
    NoExecution = NoExecution
    MaxAttempts = 2
    MaxStalls = 1
    WebhookHandlers = {w1}
    RecoveryRuns = {r1}
    RecoveryLimit = 1
    ReceivedAt <- AgeOrder
    Faults = {}
SYMMETRY Symmetry
CHECK_DEADLOCK FALSE
INVARIANTS ClosedMayHaveGoneOut
