SPECIFICATION FairSpec
CONSTANTS
  Jobs <- AllJobs
  MaxFaults = 2
INVARIANTS CountedHasResponses NothingRunTwice WiredAsAsked
PROPERTY Converges
