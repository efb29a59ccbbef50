SPECIFICATION FairSpec
CONSTANTS
  Requests = {r1}
  p1 = p1
  p2 = p2
  p3 = p3
  Order <- ThreeProviders
  Name = model
  MaxFrames = 2
  MaxReports = 1
  MaxChanges = 1
INVARIANTS SuccessHasContent RecordTellsOutcome StoppedOnce LeavingEndsFailover
PROPERTIES NoSwitchAfterFirstByte NoReportAfterCompletion AbandonedRequestsEnd
