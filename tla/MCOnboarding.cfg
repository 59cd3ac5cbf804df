\* Two devices without an EID share a one-EID pool: one of them must find
\* the pool exhausted, and an EID released after a failed Set EID returns.
CONSTANTS
  d1 = d1
  d2 = d2
  Clients <- MCDevices
  MaxTx <- MCMaxTx
  CtrlTxRetryCount = 0
  CtrlTxRetryDelay = 5
  CtrlTxPollInterval = 5
  InstanceIdMask = 31
  UIntModulus <- MCUIntModulus
  MaxInFlight = 1
  PoolEids = {10}
  HashOrder <- MCHashOrder1
  StaticEid <- MCNoStaticEid
  DeviceErrors = TRUE
  SetEidAccepted <- MCAllAccept
  Rediscovery = FALSE
  DeviceResets = FALSE
  Configs <- MCBusOwners
  StartupErrors = TRUE
  EndpointType <- MCSimpleEndpoints

SPECIFICATION OnboardingSpec

INVARIANT RegisteredEndpointsPublished
INVARIANT NoLeakedEid

PROPERTY RegistrationCompletes

VIEW MCView

\* The daemon stops when every device is registered or has given up, and
\* when it has crashed.
CHECK_DEADLOCK FALSE
