\* One message, every fault, under fairness: overlapping executions of it, two
\* attempts per job and one stall, a webhook request, texts that may differ.
SPECIFICATION FairSpec
CONSTANTS
    m1 = m1
    m2 = m2
    Messages = {m1}
    NoMessage = NoMessage
    Texts = {t1, t2}
    NoText = NoText
    Executions = {e1, e2}
    NoExecution = NoExecution
    MaxAttempts = 2
    MaxStalls = 1
    WebhookHandlers = {w1}
    RecoveryRuns = {}
    RecoveryLimit = 1
    ReceivedAt <- AgeOrder
    Faults = {"timeout", "stall", "crash", "finalizer"}
SYMMETRY TextSymmetry
CHECK_DEADLOCK FALSE
INVARIANTS TypeOK IInv OneReplySent SentMeansAccepted
PROPERTIES ReplyNeverReopens KeepsContract JobSettles
