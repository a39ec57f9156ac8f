\* Four plans of requests, one failure or kill anywhere, over three days.
SPECIFICATION StatsSpec
CONSTANTS
  n1 = n1
  n2 = n2
  p1 = p1
  p2 = p2
  Net = {n1, n2}
  Path = {p1, p2}
  Served = {p1}
  Traffic <- Plans
  MaxDay = 3
  MaxFaults = 1
  MonthDays = 2
  DailyKeep = 1
  RollKeep = 1
INVARIANTS CountsExact ArchivedOnce
PROPERTIES DayWhole
