SPECIFICATION FairSpec
CONSTANTS
    directMsg = directMsg
    ownMsg = ownMsg
    relayedMsg = relayedMsg
    emptyMsg = emptyMsg
    selfRcpt = selfRcpt
    localRcpt = localRcpt
    externalRcpt = externalRcpt
    unknownRcpt = unknownRcpt
    a1 = a1
    None = None
    Message = {directMsg, relayedMsg}
    Relay = {relayedMsg}
    Raw = {directMsg}
    Attached = {}
    MaxQueued = 2
    Rcpt = {localRcpt}
    RcptOf <- MCRcptOf
    Dest <- MCDest
    Sender = {a1}
    MaxRetries = 2
    MaxRestarts = 1
PROPERTIES
    ComesToAnEnd
\* When every message is sent or failed nothing is left to do.
CHECK_DEADLOCK FALSE
