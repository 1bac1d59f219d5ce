SPECIFICATION Spec
CONSTANTS
  NRings = 2
  RingSize = 2
  StopCount = 2
  Programs = {"cc"}
  ClockModes = {TRUE}
INVARIANT NeverTwoPosts
