SPECIFICATION Spec
CONSTANTS
  Minute = 4
  DayMinutes = 3
  WeekDays = 2
  MonthDays = 2
  Every = 2
  Patience = 2
  Days = 3
  CronPlan = {0, 2}
  RedeemMinute = 1
  MaxUpsets = 1
INVARIANTS OneStartPerClaim MinutesAreTaken StartsFollowTheCron RedemptionsFollowThePlan WindowIsKept
CHECK_DEADLOCK FALSE
