SPECIFICATION Spec
CONSTANTS
    m1 = m1
    m2 = m2
    foreign = foreign
    c1 = c1
    w1 = w1
    w2 = w2
    None = None
    Message = {m1, m2, foreign}
    Mine = {m1, m2}
    Conv = {c1}
    ConvOf <- MCConvOf
    Writer = {w1, w2}
    Limit = 1
    MaxSeq = 3
    MaxClock = 2
    MaxErrors = 0
SYMMETRY Symmetry
INVARIANTS
    TypeOK
    GoneIsAnnounced
    NewIsDelivered
