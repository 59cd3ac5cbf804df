\* Two devices without an EID share a one-EID pool; devices answer every
\* command correctly, but an answer, to Set EID too, may be lost.
CONSTANTS
  d1 = d1
  d2 = d2
  Clients <- MCDevices
  MaxTx <- MCMaxTx
  CtrlTxRetryCount = 0
  CtrlTxRetryDelay = 5
  CtrlTxPollInterval = 5
  InstanceIdMask = 31
  UIntModulus <- MCUIntModulus
  MaxInFlight = 1
  PoolEids = {10}
  HashOrder <- MCHashOrder1
  StaticEid <- MCNoStaticEid
  DeviceErrors = FALSE
  SetEidAccepted <- MCAllAccept
  Rediscovery = FALSE
  DeviceResets = FALSE
  Configs <- MCSMBusBusOwner
  StartupErrors = FALSE
  EndpointType <- MCSimpleEndpoints

SPECIFICATION OnboardingSpec

INVARIANT NoDuplicateEidOnBus

VIEW MCView

\* The daemon stops when every device is registered or has given up, and
\* when it has crashed.
CHECK_DEADLOCK FALSE
