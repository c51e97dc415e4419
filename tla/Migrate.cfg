\* Two runs, dry or not, beside a server that was not stopped.
SPECIFICATION FairSpec
CONSTANTS
  Copies = {m1, m2}
  Plans = {{}, {m2}}
  Sources <- SmallSources
  Jobs <- SmallJobs
  Strangers <- SmallStrangers
INVARIANTS
  TypeOK
  AllOrNothing
  SpentStaysSpent
  OneLivePerFamily
  QuietCopyIsExact
PROPERTY
  EveryRunEnds
CHECK_DEADLOCK FALSE
