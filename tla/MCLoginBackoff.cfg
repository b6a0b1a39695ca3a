SPECIFICATION Spec
CONSTANTS
    sync = sync
    flags = flags
    click = click
    w1 = w1
    w2 = w2
    p1 = p1
    p2 = p2
    None = None
    Task = {sync}
    Manual = {click}
    Watcher = {w1}
    Password = {p1, p2}
    Step <- MCStep
    Slow = 2
    Long = 1
    Burst = 1
    MaxErrors = 1
SYMMETRY Symmetry
INVARIANTS
    PausedForACause
    OneWatcher
PROPERTIES
    AttemptsAreSpaced
