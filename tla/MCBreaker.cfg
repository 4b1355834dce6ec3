SPECIFICATION FairSpec
CONSTANTS
  Threads = {t1, t2, t3}
  Threshold = 3
INVARIANTS TypeOK ClosedBelowThreshold
PROPERTIES HalfOpenOnlyAfterTimeout BreakerRecovers
