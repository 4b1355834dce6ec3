SPECIFICATION Spec
CONSTANTS
  Threads = {t1}
  Threshold = 10
INVARIANT SerialTrippedAtThreshold
PROPERTIES SerialSpec SerialTrialDecides
