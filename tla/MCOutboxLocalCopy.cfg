SPECIFICATION Spec
CONSTANTS
    directMsg = directMsg
    ownMsg = ownMsg
    relayedMsg = relayedMsg
    emptyMsg = emptyMsg
    selfRcpt = selfRcpt
    localRcpt = localRcpt
    externalRcpt = externalRcpt
    unknownRcpt = unknownRcpt
    a1 = a1
    None = None
    Message = {directMsg}
    Relay = {}
    Raw = {}
    Attached = {}
    MaxQueued = 1
    Rcpt = {selfRcpt, localRcpt, externalRcpt, unknownRcpt}
    RcptOf <- MCRcptOf
    Dest <- MCDest
    Sender = {a1}
    MaxRetries = 2
    MaxRestarts = 0
INVARIANTS
    LocalOnce
\* When every message is sent or failed nothing is left to do.
CHECK_DEADLOCK FALSE
