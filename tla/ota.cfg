SPECIFICATION FairSpec
CONSTANTS
  Conns = {c1, c2}
  Partition = 2
  Sizes = {1, 2}
  MaxDownloads = 2
  MaxUploads = 2
  Missable = TRUE
INVARIANT HandleOwned
INVARIANT OneSender
INVARIANT BootsWhole
INVARIANT UploadLives
PROPERTY UploadEnds
CHECK_DEADLOCK FALSE
