SPECIFICATION FairSpec
CONSTANTS
  a = a
  b = b
  Nobody = Nobody
  Process = {a, b}
  MaxPhases = 3
  Windows = {2}
  MaxWrites = 2
  MaxFaults = 2
INVARIANTS CalledOnce ArchiveBacksPhase StoreFollowsJournal
PROPERTIES ArchivedIsPublished
CHECK_DEADLOCK FALSE
