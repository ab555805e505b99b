SPECIFICATION Spec
CONSTANTS
  BYTE = 4
  Streams <- ThreeStored
  HUFFMAN_BITS = 8
  HUFFMAN_QL_BITS = 3
  LZNT1_SPLIT = 6
  LZNT1_LEN_BITS = 5
  XCA_BLOCK_SIZE = 32
  LZX_PRETREE_BITS = 3
  LZX_POSITION_SLOTS = 10
  LZX_LENGTH_CODES = 10
  LZX_DEFAULT_BLOCK_LEN = 16
  LZX_WIM_MAGIC_FILESIZE = 1000
  E8 = 14
INVARIANT LengthReturned
CHECK_DEADLOCK FALSE
