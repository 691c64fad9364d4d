SPECIFICATION PreloadSpec
CONSTANTS
  Generators = {"timed"}
  Rates = {20}
  Durations = {6000}
INVARIANT PaddingSuffices
CHECK_DEADLOCK FALSE
