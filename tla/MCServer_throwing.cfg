SPECIFICATION Spec
CONSTANTS
    s1 = s1  s2 = s2  s3 = s3
    w1 = w1  w2 = w2
    o1 = o1  o2 = o2  o3 = o3  o4 = o4
    Session = {s1, s2}
    Op = {o1, o2, o3}
    Worker = {w1, w2}
    Chunks <- ThrowingChunks
    MaxRequestSize = 2
    NoOp = NoOp
    FirstOp = o1
    FirstSession = s1
INVARIANT
    OneAccept
SYMMETRY ServerSymmetry
CHECK_DEADLOCK FALSE
