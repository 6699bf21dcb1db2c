\* Two tasks of different priority in one queue, two workers one of which may be lost, and
\* an operator who retries.
SPECIFICATION FairSpec
CONSTANTS
    t1 = t1
    t2 = t2
    w1 = w1
    w2 = w2
    Tasks = {t1, t2}
    Workers = {w1, w2}
    Queues <- OneQueue
    QueueOf <- MCQueueOf
    Serves <- MCServes
    Priority <- RisingPriority
    NoWorker = NoWorker
    NoTask = NoTask
    AttemptCap = 2
    MaxRetries = 1
    MaxFaults = 1
INVARIANTS
    TypeOK
    NeverStranded
    FencedExecutions
    ResultOfLastAttempt
PROPERTIES
    LeaseRespected
    ImplementsLeasedJobs
    EveryTaskSettles
CHECK_DEADLOCK FALSE
