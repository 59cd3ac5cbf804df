\* One coroutine sends 33 requests in a row, each with no retry; the medium
\* may hold a late answer while the 5-bit instance counter wraps around.
CONSTANTS
  c1 = c1
  c2 = c2
  Clients = {c1}
  MaxTx = 33
  CtrlTxRetryCount = 0
  CtrlTxRetryDelay = 5
  CtrlTxPollInterval = 5
  InstanceIdMask = 31
  UIntModulus <- MCUIntModulus
  MaxInFlight = 1

SPECIFICATION Spec

INVARIANT ResponseToOwnRequest

VIEW MCView

CHECK_DEADLOCK FALSE
