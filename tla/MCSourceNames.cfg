SPECIFICATION Spec
CONSTANTS
    calendarSyncPersonal = calendarSyncPersonal
    flagSync = flagSync
    aliceTask = aliceTask
    bobTask = bobTask
    flagTask = flagTask
    imap1 = imap1
    NoTask = NoTask
    Task <- MCTask
    Key <- MCKey
    Kind = {"IMAP"}
    Worker <- MCWorker
    KeyOf <- MCKeyOf
    KindOf <- MCKindOf
    Fast <- MCFast
    WorkerKind <- MCWorkerKind
    QueueSize = 2
INVARIANT DuplicateIsAlreadyScheduled
