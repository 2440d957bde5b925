CONSTANTS
  RxTxns = {r1}
  TxTxns = {s1, s2}
  Null = Null
  Budgets = {0, 2}
  Segments = 2
  MaxNaks = 1
  Troubled = {s2}
  Unreadable = {s2}
  CounterModulus = 4
SPECIFICATION FairSpec
INVARIANTS
  ResumeIsQueued
PROPERTIES
  DataInQueueOrder
  StateMessagesServed
  EverythingIsSent
  WakeupEnds
