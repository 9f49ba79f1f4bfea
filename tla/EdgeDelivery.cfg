\* 3 messages in samples of 1 or 2 items, batches of 2, two failures.
CONSTANTS
  MaxSeq = 3
  BatchMax = 2
  MaxItems = 2
  MaxFaults = 2
SPECIFICATION FairSpec
INVARIANTS TypeOK NoLoss LedgerOnce RetriesMarked NotOvertaken Accounted SentReached
PROPERTIES ImplementsOutbox Drains
CHECK_DEADLOCK FALSE
