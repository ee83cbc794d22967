SPECIFICATION UpstreamSpec
CONSTANTS
    u1 = u1
    u2 = u2
    u3 = u3
    q1 = q1
    q2 = q2
    q3 = q3
    Configured <- ThreeUpstreams
    Queries = {q1, q2}
    MaxRtt = 2
INVARIANTS
    ReorderLosesNone
