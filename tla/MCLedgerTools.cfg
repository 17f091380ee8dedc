\* Walks, reports, updates and schedules over a plan of three months.
SPECIFICATION Spec
CONSTANTS
  None = None
  Absent = Absent
  Tx <- AllTx
  Accounts <- AllAccounts
  AccountList <- ListedAccounts
  Ledgers <- AllLedgers
  Openings <- AllOpenings
  Categories <- AllCategories
  ReadyToAssign = 9
  Months <- AllMonths
  Walks <- AllWalks
  Analyses <- AllAnalyses
  OtherSpent <- AllOtherSpent
  Periods <- AllPeriods
  Schedules <- AllSchedules
  AlsoScheduled <- OthersScheduled
  Current = Current
  Additions <- AllAdditions
  NewAmounts <- AllAmounts
  Today = 0
  LastDay = 90
  Step = 15
  MaxChanges <- ChangesByTopic
INVARIANTS
  TypeOK
  WalksDeliver
  TrajectoryOffByTheUnseen
  FiguresAgree
  FlowsAddUp
  DeltaRestoresCurrent
  SchedulesAgree
CHECK_DEADLOCK FALSE
