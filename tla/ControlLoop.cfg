CONSTANTS
  NsPerSec = 10
  NsPerUs = 3
  Period = 4
  MaxMeasuredPeriods = 2
  Fields = {"count", "sum", "max", "window"}
  Samples <- MCSamples
  SeqValues = 6
  StartTime = 9
  Slew = 1
  Lateness <- MCLateness
  MaxCycles = 3
  MaxReports = 2
SPECIFICATION LoopSpec
INVARIANTS
  StatsInv
  Paced
PROPERTIES
  RefinesAtomic
  ReportExact
CHECK_DEADLOCK FALSE
