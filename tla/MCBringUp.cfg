CONSTANTS
  Driver = {1, 2}
  NVME_MAX_QUEUES = 3
  Wants = {0, 1, 2}
  nsze = 1
SPECIFICATION FairSpec
INVARIANTS TypeOK OwnsDevice NeverRefused
PROPERTY BringUpCompletes
