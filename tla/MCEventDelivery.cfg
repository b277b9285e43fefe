SPECIFICATION FairSpec
CONSTANTS
  w1 = w1
  w2 = w2
  Worker = {w1, w2}
  Nothing = Nothing
  End = End
  MaxEmits = 1
  Stages = 2
  Capacity = 1
  Modes = {"none", "ignore", "fail-run"}
INVARIANTS SettledStageReported WriterHoldsWhatIsShown
PROPERTIES ReceivedInOrder RunEndsUnread HostSeesEnd
CHECK_DEADLOCK FALSE
