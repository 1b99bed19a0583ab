SPECIFICATION Spec
CONSTANTS
  FrameChunk = 4
  ChunkCost = 1
  HeaderFrame = 1
  BlockFrame = 1
  MarkerBytes = 2
  TrailerBytes = 1
  MaxMetaBytes = 2
  RecordHeader = 1
  Sources = {out, err}
  Limits <- CallLimits
  MaxRaw = 7
  WriteSizes = {1, 2}
  Metas = {0, 2, 3}
  BlockLists <- Lists
  MinTextBytes = 4
  MinFramedBytes = 7
  BudgetText = 2
  DowngradeText = 3
  ManifestText = 1
  Files <- Contents
  Edits <- Edited
  LineLimits = {1, 3}
  MaxEpochs = 2
INVARIANTS
  DeliveredWithinLimits
  CollectorNeverDiscards
  HeadAndTailKept
  StatsTruthful
  AsciiPagesReassemble
CHECK_DEADLOCK FALSE
