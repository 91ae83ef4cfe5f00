SPECIFICATION LocksFairSpec
CONSTANTS
  N = 2
  Reader = {r1, r2}
  Writer = {w1, w2}
  Nobody = Nobody
INVARIANT OneSnapshot
INVARIANT NoCircle
PROPERTY CallsReturn
