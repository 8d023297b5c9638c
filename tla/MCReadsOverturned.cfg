SPECIFICATION FairSpec
CONSTANTS
  Retries = 3
  MaxHops = 1
  MaxBytes = 2
  Sizes = {0, 1, 2, 3}
  Budget = 1
  Times = {0, 1, 2, 3, 10}
  Amounts = {2, 4}
  Now = 20
  Zone = 4
  Limits = {1, 2}
  MaxRecords = 3
  Limit = 1
  EsMax = 2
  MaxChanges = 2
  MaxHits = 3
  PageSize = 1
  AttachMax = 2
  Base64Max = 1
  Allowed <- MCAllowed
  Registry <- MCRegistry
  Queries <- MCQueries
PROPERTY SearchNotOverturned
CHECK_DEADLOCK FALSE
