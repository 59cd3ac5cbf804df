\* Two devices without an EID, the second of the reserved endpoint type 2;
\* a Get UUID may go unanswered; a registered device may be registered again.
CONSTANTS
  d1 = d1
  d2 = d2
  Clients <- MCDevices
  MaxTx <- MCMaxTxOneMore
  CtrlTxRetryCount = 0
  CtrlTxRetryDelay = 5
  CtrlTxPollInterval = 5
  InstanceIdMask = 31
  UIntModulus <- MCUIntModulus
  MaxInFlight = 1
  PoolEids = {10}
  HashOrder <- MCHashOrder1
  StaticEid <- MCNoStaticEid
  DeviceErrors = TRUE
  SetEidAccepted <- MCAllAccept
  Rediscovery = TRUE
  DeviceResets = FALSE
  Configs <- MCSMBusBusOwner
  StartupErrors = FALSE
  EndpointType <- MCReservedType

SPECIFICATION OnboardingSpec

INVARIANT DaemonSurvives

VIEW MCView

\* The daemon stops when every device is registered or has given up, and
\* when it has crashed.
CHECK_DEADLOCK FALSE
