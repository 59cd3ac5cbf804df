\* One device without an EID and one with the static EID 20, outside the
\* pool {11, 10}; either may reset and be registered again once.
CONSTANTS
  d1 = d1
  d2 = d2
  Clients <- MCDevices
  MaxTx <- MCMaxTx
  CtrlTxRetryCount = 0
  CtrlTxRetryDelay = 5
  CtrlTxPollInterval = 5
  InstanceIdMask = 31
  UIntModulus <- MCUIntModulus
  MaxInFlight = 1
  PoolEids = {10, 11}
  HashOrder <- MCHashOrder2
  StaticEid <- MCOneStaticEid
  DeviceErrors = TRUE
  SetEidAccepted <- MCAllAccept
  Rediscovery = TRUE
  DeviceResets = TRUE
  Configs <- MCSMBusBusOwner
  StartupErrors = FALSE
  EndpointType <- MCSimpleEndpoints

SPECIFICATION OnboardingSpec

INVARIANT OnboardingTypeOK

PROPERTY RegistrationCompletes

VIEW MCView

\* The daemon stops when every device is registered or has given up, and
\* when it has crashed.
CHECK_DEADLOCK FALSE
