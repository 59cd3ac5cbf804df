\* Two coroutines share the queue; each sends until four requests have gone
\* out in total, with one retry, and the medium holds up to two frames.
CONSTANTS
  c1 = c1
  c2 = c2
  Clients <- MCClients
  MaxTx = 4
  CtrlTxRetryCount = 1
  CtrlTxRetryDelay = 10
  CtrlTxPollInterval = 5
  InstanceIdMask = 31
  UIntModulus <- MCUIntModulus
  MaxInFlight = 2

SPECIFICATION Spec

INVARIANT TypeOK
INVARIANT RetrySchedule
INVARIANT TimerRunsWhileQueued

PROPERTY EveryCallReturns
PROPERTY CtrlTxRefinement

\* Once MaxTx requests are resolved nothing is left to do: the reactor idles.
CHECK_DEADLOCK FALSE
