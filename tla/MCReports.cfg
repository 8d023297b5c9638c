SPECIFICATION FairSpec
CONSTANTS
  MaxEvents = 1
  Records = {r1, r2}
  CfMax = 2
  MaxChanges = 1
  DevicePrefixes = {1, 2}
  Properties = {"x", "y"}
  MaxStatements = 3
  NumChannels = 2
  MaxBatch = 1
INVARIANTS DiagnosisEarned AuditEarned AbsencesEarned PostureEarned
PROPERTY EveryReportEnds
CHECK_DEADLOCK FALSE
