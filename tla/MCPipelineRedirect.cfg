SPECIFICATION Spec
CONSTANTS
  Requests = {q1}
  Workloads <- MCWorkloads
  MaxBytes = 2
  MaxInt = 7
INVARIANT NativeContentType
CHECK_DEADLOCK FALSE
