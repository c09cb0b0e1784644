CONSTANTS
  MAX_COLUME_NUM = 2
  Sizes = {1, 2, 3, 4, 6, 8, 13}
  WORD = 16
  MaxLists = 3
  MaxBlocks = 5
SPECIFICATION Spec
INVARIANTS TreeSound CountsDescribeTrees BlocksAccounted ShortByHalfABlock ListsAsSpecified
CHECK_DEADLOCK FALSE
