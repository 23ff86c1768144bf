SPECIFICATION Spec
CONSTANTS
  task = task
  call = call
  payments = payments
  devices = devices
  rates = rates
  a = a
  b = b
  bad = bad
  timeout = timeout
  unavailable = unavailable
  forbidden = forbidden
  Tasks = {task}
  Invocations = {call}
  RestEntities = {rates}
  FileEntities = {devices}
  Invalid = {bad}
  Absent = Absent
  PageSize = 1
  FetchSize = 2
  MaxRetries = 1
  MaxFaults = 2
  MaxChanges = 1
  Outages <- MCOutages
  Refusals <- MCRefusals
  Work <- MCWork
  Sources <- MCSources
  Limits <- MCLimits
  Retries <- MCRetries
INVARIANTS ReportedIsCommitted StoredIsWhole RefusalsAgree
PROPERTIES CallersEnd RunCompletes
