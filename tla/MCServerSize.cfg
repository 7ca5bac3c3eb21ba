CONSTANTS
  Options <- MCOptions
  Word = 32
  Kilo = 4
  slot = 3
  NVME_KV_HARD_MAX_NUM_KEYS = 6
  VFU_KVSSD_DEFAULT_CAPACITY = 12
SPECIFICATION Spec
INVARIANT CapacityIsTheByteCount
