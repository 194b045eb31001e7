CONSTANTS
  N = 2
  low = low
  high = high
  Vals <- MCVals
  Unset = Unset
SPECIFICATION FairSpec
INVARIANTS TypeOK SuccessIsFresh NothingUnset DroppedDraftWasSaved
PROPERTIES ImplementsCompareAndSet Answered
