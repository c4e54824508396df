\* Two streams; the credit is smaller than what can be in flight.
SPECIFICATION FairSpec
CONSTANTS
  s1 = s1
  s2 = s2
  Streams  = {s1, s2}
  MaxBytes <- TwoAndOne
  MaxFrame = 2
  Limit    = 1
  MaxBuf   = 1
PROPERTIES PipeKept 
CHECK_DEADLOCK FALSE
