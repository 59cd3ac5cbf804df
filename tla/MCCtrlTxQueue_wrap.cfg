\* A retry delay (reqToRespTime) of 7 ms, which is not a multiple of the
\* 5 ms poll interval, and no retry.
CONSTANTS
  c1 = c1
  c2 = c2
  Clients = {c1}
  MaxTx = 1
  CtrlTxRetryCount = 0
  CtrlTxRetryDelay = 7
  CtrlTxPollInterval = 5
  InstanceIdMask = 31
  UIntModulus <- MCUIntModulus
  MaxInFlight = 1

SPECIFICATION Spec

INVARIANT RetrySchedule

CHECK_DEADLOCK FALSE
