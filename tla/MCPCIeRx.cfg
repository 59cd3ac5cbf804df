\* Three packets of any kind; waits may complete with an error, up to four tracked waits.
CONSTANTS
  FrameKinds <- MCFrameKinds
  MaxFrames = 3
  MaxWaits = 4
  WaitErrors = TRUE

SPECIFICATION Spec

\* The driver idles once every packet is read, or when init() threw.
CHECK_DEADLOCK FALSE
INVARIANT RxTypeOK
 
PROPERTY PacketsDrained
