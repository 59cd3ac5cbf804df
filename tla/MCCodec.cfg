\* Every frame of up to 12 bytes, with success or one of two error codes and
\* a count byte up to 7 (a version list of 28 bytes, past every frame);
\* structure sizes 4..12; PLDM headers with every flag bit and the extreme
\* instance IDs, types and versions.
CONSTANTS
  MaxLen = 12
  MaxCount = 7
  CompletionCodes = {0, 1, 2}
  PldmInstances = {0, 1, 30, 31}
  PldmTypes = {0, 1, 62, 63}
  PldmVersions = {0, 3}

SPECIFICATION Spec

INVARIANT ReadsInsideFrame
INVARIANT PldmHeaderLayout
INVARIANT PayloadLengthsMatchStructs
