SPECIFICATION Spec
CONSTANTS
  Machines <- MCMachines
  Volumes <- LongVolumes
  CdArgs <- MCCdArgs
  ReadArgs <- MCReadArgs
  LowerCase <- Letters
  LFN_CHARS = 2
  DIR_ENTRIES = 4
  CLUSTER_SIZE = 2
  EOC_START = 20
  MAX_PATH_LENGTH = 3
  MAX_PATH_DEPTH = 2
INVARIANTS
  LongNamesWhole
CHECK_DEADLOCK FALSE
