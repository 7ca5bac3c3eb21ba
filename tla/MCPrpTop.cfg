CONSTANTS
  AddrMod = 8
  Ranges <- MCRanges
  ps = 2
  NVME_MAX_SG = 3
  max_sg = 2
  Prp1 <- MCPrp1
  Prp2 <- MCPrp2
  Lens <- MCLens
SPECIFICATION Spec
INVARIANTS NothingLeaks
