SPECIFICATION FairSpec
CONSTANTS
    sync = sync
    push = push
    send = send
    sync1 = sync1
    sync2 = sync2
    push1 = push1
    send1 = send1
    imap1 = imap1
    imap2 = imap2
    smtp1 = smtp1
    NoTask = NoTask
    Task <- MCTask
    Key <- MCKey
    Kind = {"IMAP", "SMTP"}
    Worker <- MCWorker
    KeyOf <- MCKeyOf
    KindOf <- MCKindOf
    Fast <- MCFast
    WorkerKind <- MCWorkerKind
    QueueSize = 1
INVARIANTS
    SingleFlight
    OneTokenPerQueuedKey
PROPERTIES
    ImplementsScheduler
    AcceptedTasksStart
    WorkersLeave
