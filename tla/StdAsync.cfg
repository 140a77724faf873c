SPECIFICATION AsyncSpec
CONSTANTS
  Tasks = {t1, t2, t3}
  Parties = 3
  MaxGeneration = 2
  Producers = {p1, p2}
  Consumers = {c1, c2}
  Buffer <- MCNegative
  MaxSends = 3
  TxTasks = {p1, p2}
  RxTasks = {c1, c2, c3}
CHECK_DEADLOCK FALSE
INVARIANTS
  SlotsAccountedFor
  CompletedSlotsArePermutation
  NoLostWakeup
  SlotsConserved
  NothingLost
  DeliveredOnce
PROPERTIES
  EveryoneIsReleased
  NoneIsFinal
  WaitersLeaveClosedChannel
  ReceiversSeeTheEnd
  EveryReceiveEnds
