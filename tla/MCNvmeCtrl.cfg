CONSTANTS
  NVME_MAX_QUEUES = 2
  TailMod = 3
  AdminSizes = {1, 2}
  IoSizes = {3}
  Tails = {0, 1}
  QidArgs = {0, 1, 2}
SPECIFICATION FairSpec
INVARIANTS TypeOK StatusIsTrue EngineOnLiveQueue Drained RingBounds PhaseTagsPasses
PROPERTY CallbackReturns
