SPECIFICATION FairSpec
CONSTANTS
    directMsg = directMsg
    ownMsg = ownMsg
    relayedMsg = relayedMsg
    emptyMsg = emptyMsg
    selfRcpt = selfRcpt
    localRcpt = localRcpt
    externalRcpt = externalRcpt
    unknownRcpt = unknownRcpt
    a1 = a1
    a2 = a2
    None = None
    Message = {directMsg, ownMsg, relayedMsg, emptyMsg}
    Relay = {relayedMsg}
    Raw = {directMsg, ownMsg}
    Attached = {relayedMsg}
    MaxQueued = 1
    Rcpt = {selfRcpt, localRcpt, externalRcpt, unknownRcpt}
    RcptOf <- MCRcptOf
    Dest <- MCDest
    Sender = {a1, a2}
    MaxRetries = 2
    MaxRestarts = 1
INVARIANTS
    RelayedOnce
    NobodyForgotten
    GivesUpLate
    SavedWasSent
PROPERTIES
    ImplementsSendQueue
    ComesToAnEnd
\* When every message is sent or failed nothing is left to do.
CHECK_DEADLOCK FALSE
