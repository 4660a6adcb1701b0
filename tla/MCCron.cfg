SPECIFICATION FairSpec
CONSTANTS
  MAXTPROC = 2
  cron = cron
  cron_table_sem = cron_table_sem
  wake_up_cron_sem = wake_up_cron_sem
  MaxDelay = 2
CHECK_DEADLOCK FALSE
INVARIANTS TypeOK NotForgotten CronAwake ShutsDownLast
PROPERTIES AtLeastThisLong DelayEnds ShutsDown
