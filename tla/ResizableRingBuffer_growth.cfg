SPECIFICATION Spec
CONSTANTS
  MinimumSize = 4
  MinimumInfoBlocks = 2
  Sizes = {1, 2, 3, 5}
  Alignments = {1, 2}
  MaxBlocks = 4
  GrowsWhenEmpty = TRUE
INVARIANT HeadIsInFirstChunk
